-------------------------- MODULE IngestRegistration ------------------------
(***************************************************************************)
(* IngestRegistrationController and its writer: the registration of notes  *)
(* in the index, the bibliography and the log of the knowledge base.  A    *)
(* window previews a plan, made from the files or read from the record of  *)
(* an earlier attempt; confirmed plans are applied one after the other,    *)
(* file by file, while the user and other programs edit the same files,    *)
(* any I/O fails, and the plugin may be reloaded between two steps.        *)
(*                                                                         *)
(* The knowledge base is the toolkit's (full); in a vault of its own the   *)
(* bibliography is left out.  A record belongs to the task that made the   *)
(* note; here that is one task for each note.  Not modelled: a change of   *)
(* the directories in the settings, which the controller refuses, and      *)
(* tampered records.                                                       *)
(***************************************************************************)
EXTENDS Naturals, Sequences, FiniteSets, SequencesExt

CONSTANTS Notes, Windows,
          Edited,                          \* the files that others edit
          MaxPlans, MaxEvents   \* bounds of the model, on plans, and on edits
                                           \* and reloads

RegistrationAssumption ==
  /\ MaxPlans \in Nat /\ MaxEvents \in Nat
  /\ Notes \cap {"index", "bib", "log"} = {}

(* The files a registration touches, in the order in which it writes them: *)
(* "index" is the index of the notes and that of the packages, "bib" the   *)
(* table of the papers and the BibTeX file.                                *)
Order(n) == <<n, "index", "bib", "log">>

InVault == Notes \cup {"index", "log"}
Paths   == InVault \cup {"bib"}

VARIABLES file,      \* content: entries, others' text, date of the last log entry
          record,    \* what ingest-records keeps of each registration
          win,       \* the preview windows
          queue,     \* the windows whose plans are to be applied, in order
          task,      \* where the writer is with the first of them
          clock,     \* plans made so far, which date them
          edits, reloads

bounds == <<edits, reloads>>
vars   == <<file, record, win, queue, task, clock, bounds>>

Blank    == [has |-> {}, rest |-> 0, date |-> 0]
NoWrites == [p \in {} |-> Blank]
NoRecord == [state |-> "none", writes |-> NoWrites]
Closed   == [pc |-> "closed", note |-> "none", plan |-> NoRecord]
Resting  == [pc |-> "idle", left |-> {}]

Init == /\ file = [p \in Paths |-> Blank]
        /\ record = [n \in Notes |-> NoRecord]
        /\ win = [w \in Windows |-> Closed]
        /\ queue = <<>> /\ task = Resting /\ clock = 0
        /\ edits = 0 /\ reloads = 0

-----------------------------------------------------------------------------
(* The windows.                                                            *)

(* The edit of one file; the log is dated.                                 *)
Entered(content, p, n) ==
  [content EXCEPT !.has = @ \cup {n}, !.date = IF p = "log" THEN clock + 1 ELSE @]

(* planIngestRegistration: what is missing, and a log entry if anything is.*)
Plan(n, seen) ==
  LET missing == {p \in Range(Order(n)) \ {"log"} : n \notin seen[p].has}
      changed == IF missing = {} THEN {} ELSE missing \cup {"log"}
  IN [p \in changed |-> [before |-> seen[p], after |-> Entered(seen[p], p, n)]]

WindowFrame == UNCHANGED <<file, record, task, bounds>>

(* A record that exists is shown as it is.  Otherwise the files are read,  *)
(* here at once: each of them is compared on its own when the plan is      *)
(* applied, so one that was read earlier is one that was edited since.     *)
Open(w, n) ==
  /\ win[w].pc = "closed"
  /\ IF record[n].state # "none"
     THEN /\ win' = [win EXCEPT ![w] = [pc |-> "shown", note |-> n, plan |-> record[n]]]
          /\ UNCHANGED clock
     ELSE /\ clock < MaxPlans /\ clock' = clock + 1
          /\ win' = [win EXCEPT ![w] =
               [pc |-> "shown", note |-> n,
                plan |-> [state |-> "prepared", writes |-> Plan(n, file)]]]
  /\ UNCHANGED queue /\ WindowFrame

(* The button is disabled when there is nothing left to do.                *)
Apply(w) ==
  /\ win[w].pc = "shown"
  /\ win[w].plan.state # "applied" /\ win[w].plan.writes # NoWrites
  /\ win' = [win EXCEPT ![w].pc = "queued"] /\ queue' = Append(queue, w)
  /\ UNCHANGED clock /\ WindowFrame

Close(w) ==
  /\ win[w].pc = "shown" /\ win' = [win EXCEPT ![w] = Closed]
  /\ UNCHANGED <<queue, clock>> /\ WindowFrame

-----------------------------------------------------------------------------
(* The writer: one task at a time, and of its files the first that is left.*)
Working(here) == queue # <<>> /\ task.pc = here
Here    == LET files == Order(win[Head(queue)].note)
           IN  files[CHOOSE k \in 1 .. 4 : /\ files[k] \in task.left
                                           /\ \A j \in 1 .. k - 1 : files[j] \notin task.left]
Planned == win[Head(queue)].plan.writes
Write   == Planned[Here]
More    == task.left # {}

Step(there, left) == task' = [pc |-> there, left |-> left]

(* The button is enabled again, and the next task goes on.                 *)
Reject ==
  /\ win' = [win EXCEPT ![Head(queue)].pc = "shown"]
  /\ queue' = Tail(queue) /\ task' = Resting

TaskFrame == UNCHANGED <<clock, bounds>>

(* The plan is verified; every file must be as it was, or as it will be.   *)
(* Nothing is written before all have been looked at, and each of them is  *)
(* compared again when it is written: one step.                            *)
Preflight ==
  /\ Working("idle")
  /\ \/ /\ \A p \in DOMAIN Planned : file[p] \in {Planned[p].before, Planned[p].after}
        /\ Step("save", {}) /\ UNCHANGED <<win, queue>>
     \/ Reject
  /\ UNCHANGED <<file, record>> /\ TaskFrame

Saved(state) ==
  record' = [record EXCEPT ![win[Head(queue)].note] =
               [win[Head(queue)].plan EXCEPT !.state = state]]

(* Faulty variant: the record is kept when the work is done.               *)
SaveLater ==
  /\ Working("save") /\ Step("write", DOMAIN Planned)
  /\ UNCHANGED <<file, record, win, queue>> /\ TaskFrame

Save ==
  /\ Working("save")
  /\ \/ /\ Saved(win[Head(queue)].plan.state) /\ Step("write", DOMAIN Planned)
        /\ UNCHANGED <<win, queue>>
     \/ Reject /\ UNCHANGED record
  /\ UNCHANGED file /\ TaskFrame

(* Faulty variant: the file is written as it was planned.                  *)
WriteVaultBlind ==
  /\ Working("write") /\ More /\ Here # "bib"
  /\ file' = [file EXCEPT ![Here] = Write.after] /\ Step("write", task.left \ {Here})
  /\ UNCHANGED <<record, win, queue>> /\ TaskFrame

(* vault.process compares and writes at once.                              *)
WriteVault ==
  /\ Working("write") /\ More /\ Here # "bib"
  /\ \/ /\ file[Here] \in {Write.before, Write.after}
        /\ file' = [file EXCEPT ![Here] = Write.after]
        /\ Step("write", task.left \ {Here})
     \/ UNCHANGED file /\ Step("recover", {})
  /\ UNCHANGED <<record, win, queue>> /\ TaskFrame

(* Outside the vault a file is compared and then replaced.                 *)
Compare ==
  /\ Working("write") /\ More /\ Here = "bib"
  /\ \/ file[Here] = Write.after /\ Step("write", task.left \ {Here})
     \/ file[Here] = Write.before /\ Step("rename", task.left)
     \/ Step("recover", {})
  /\ UNCHANGED <<file, record, win, queue>> /\ TaskFrame

Replace ==
  /\ Working("rename")
  /\ \/ file' = [file EXCEPT ![Here] = Write.after] /\ Step("write", task.left \ {Here})
     \/ UNCHANGED file /\ Step("recover", {})
  /\ UNCHANGED <<record, win, queue>> /\ TaskFrame

(* All are written, and the record says so, or has to be recovered too.    *)
Finish ==
  /\ Working("write") /\ ~More
  /\ \/ /\ Saved("applied")
        /\ win' = [win EXCEPT ![Head(queue)].pc = "shown",
                              ![Head(queue)].plan.state = "applied"]
        /\ queue' = Tail(queue) /\ task' = Resting
     \/ Step("recover", {}) /\ UNCHANGED <<record, win, queue>>
  /\ UNCHANGED file /\ TaskFrame

(* The catch clause, whose save may fail as well.                          *)
Recover ==
  /\ Working("recover") /\ Reject
  /\ Saved("recovery") \/ UNCHANGED record
  /\ UNCHANGED file /\ TaskFrame

Writer == \/ Preflight \/ Save \/ WriteVault \/ Compare \/ Replace
          \/ Finish \/ Recover

-----------------------------------------------------------------------------
(* The user or another program adds text of their own.                     *)
Edit(p) ==
  /\ edits + reloads < MaxEvents /\ edits' = edits + 1
  /\ file' = [file EXCEPT ![p].rest = @ + 1]
  /\ UNCHANGED <<record, win, queue, task, clock, reloads>>

(* The plugin is reloaded; files and records are what is left.             *)
Reload ==
  /\ edits + reloads < MaxEvents /\ reloads' = reloads + 1
  /\ win' = [w \in Windows |-> Closed] /\ queue' = <<>> /\ task' = Resting
  /\ UNCHANGED <<file, record, clock, edits>>

Next == \/ \E w \in Windows :
             \/ \E n \in Notes : Open(w, n)
             \/ Apply(w) \/ Close(w)
        \/ Writer \/ \E p \in Edited : Edit(p)
        \/ Reload

Spec == Init /\ [][Next]_vars

-----------------------------------------------------------------------------
Has(n) == {p \in Range(Order(n)) : n \in file[p].has}

(* "Serial owner, preflight, snapshots and exact-content recovery":        *)
(* wherever a registration fails or the plugin stops, one that is entered  *)
(* in some of its files only has a record from which it can be resumed,    *)
(* and that record names every file that is still missing.                 *)
HalfDoneIsRecorded ==
  \A n \in Notes : Has(n) \notin {{}, Range(Order(n))} =>
    /\ record[n].state \in {"prepared", "recovery"}
    /\ Range(Order(n)) \ Has(n) \subseteq DOMAIN record[n].writes

(* "stops at a file that was edited": no entry and no edit is ever lost    *)
(* from a file of the vault, whenever it was made.                         *)
VaultTextKept ==
  [][\A p \in InVault : file[p].has \subseteq file'[p].has
                        /\ file[p].rest <= file'[p].rest]_vars

(* "a failed registration can be retried alone": as long as nobody edits   *)
(* the files, what has not been applied yet passes the check of its files. *)
RetryPossible ==
  edits = 0 =>
    \A n \in Notes : record[n].state \in {"prepared", "recovery"} =>
      \A p \in DOMAIN record[n].writes :
        file[p] \in {record[n].writes[p].before, record[n].writes[p].after}
=============================================================================
