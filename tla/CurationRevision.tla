--------------------------- MODULE CurationRevision --------------------------
(***************************************************************************)
(* CurationWriter: the suggestions of a review are written into a note, an *)
(* index and the log of the knowledge base as a revision, whose texts of   *)
(* before and after are kept in a record before the first file is touched. *)
(* Revisions are previewed in windows, applied one after the other,        *)
(* resumed when they were interrupted, and undone by a revision of their   *)
(* own, while the user and others edit the same files, every read, check,  *)
(* write and save may fail, and the plugin may be reloaded at any point.   *)
(*                                                                         *)
(* A review comes into being in one step; a suggestion that was ignored is *)
(* one that is not selected.  A note that does not match its source and a  *)
(* source that cannot be read are checks that fail.  The warnings that     *)
(* applied revisions get (needsReview) are left out.                       *)
(***************************************************************************)
EXTENDS Naturals, Sequences, FiniteSets

CONSTANTS Reviews, Notes, Windows,
          Suggestions,                       \* of each review
          Touched,                           \* the files that others edit
          MaxRevisions,                      \* bounds of the model; the second one
          MaxEvents                          \* on rewordings, edits and reloads

CurationAssumption == MaxRevisions \in Nat /\ Notes \cap {"index", "log"} = {}

VARIABLES target,    \* the note of each review; never changes
          review,    \* the reviews: state, note as it was read, wording, applied
          file,      \* content: what was entered, and the edits of others
          rev,       \* the records of the revisions
          win,       \* the windows: closed, shown or queued, and their revision
          queue,     \* serial: the windows that were confirmed, in order
          task,      \* where the writer is with the first of them
          ids, events

curationVars == <<target, review, file, rev, win, queue, task, ids, events>>

Ids   == 1 .. MaxRevisions
Paths == Notes \cup {"index", "log"}

Blank    == [has |-> {}, rest |-> 0]
NoWrites == [p \in {} |-> Blank]
NoReview == [state |-> "none", text |-> Blank, wording |-> [s \in Suggestions |-> 0], applied |-> {}]
NoRev    == [review |-> CHOOSE v \in Reviews : TRUE, sel |-> {}, undoOf |-> 0,
             state |-> "none", writes |-> NoWrites]
Closed   == [pc |-> "closed", id |-> 0, rev |-> NoRev]
Resting  == [pc |-> "idle", left |-> {}]

Init == /\ target \in [Reviews -> Notes]
        /\ review = [v \in Reviews |-> NoReview] /\ file = [p \in Paths |-> Blank]
        /\ rev = [i \in Ids |-> NoRev] /\ win = [w \in Windows |-> Closed]
        /\ queue = <<>> /\ task = Resting
        /\ ids = 0 /\ events = 0

-----------------------------------------------------------------------------
(* What a revision writes.                                                 *)

(* curationNoteText: the note as the review has read it, with the selected *)
(* suggestions in their present wording.                                   *)
NoteText(v, sel) ==
  [review[v].text EXCEPT !.has = @ \cup {<<v, s, review[v].wording[s]>> : s \in sel}]

Change(p, entries) == [before |-> file[p], after |-> [file[p] EXCEPT !.has = @ \cup entries]]

(* The index is only changed if it has no entry of the note.               *)
Planned(v, sel, i) ==
  LET n == target[v]
      index == IF n \in file["index"].has THEN {} ELSE {"index"}
  IN [p \in {n, "log"} \cup index |->
        CASE p = "index" -> Change(p, {n})
          [] p = "log"   -> Change(p, {i})
          [] OTHER       -> [before |-> review[v].text, after |-> NoteText(v, sel)]]

(* An undo leaves the entry in the index.                                  *)
Undoing(i, j) ==
  LET n == target[rev[i].review]
  IN [p \in {n, "log"} |->
        IF p = "log" THEN Change(p, {j})
        ELSE [before |-> rev[i].writes[n].after, after |-> rev[i].writes[n].before]]

Order(r)  == <<target[r.review], "index", "log">>
Fits(r)   == \A p \in DOMAIN r.writes : file[p] \in {r.writes[p].before, r.writes[p].after}
Undone(i) == \E j \in Ids : rev[j].undoOf = i

(* A suggestion is only ever in one revision, whatever became of that.     *)
Unused(v, sel) == \A j \in Ids : rev[j].review = v => rev[j].sel \cap sel = {}

(* May the selected suggestions be previewed?                              *)
Ready(v, sel) ==
  /\ review[v].state = "ready" /\ sel # {} /\ sel \cap review[v].applied = {}
  /\ Unused(v, sel) /\ file[target[v]] = review[v].text

(* validateCurationRevision: the record is what its review gives today.    *)
Valid(r) ==
  r.undoOf = 0 => r.writes[target[r.review]].after = NoteText(r.review, r.sel)

-----------------------------------------------------------------------------
(* Reviews and windows.                                                    *)
UserFrame == UNCHANGED <<target, file, rev, task, events>>

Prepare(v) ==
  /\ review[v].state = "none"
  /\ review' = [review EXCEPT ![v].state = "ready", ![v].text = file[target[v]]]
  /\ UNCHANGED <<win, queue, ids>> /\ UserFrame

(* decide, in its turn: the user rewords a suggestion that is not applied. *)
Decide(v, s) ==
  /\ task = Resting /\ review[v].state = "ready" /\ s \notin review[v].applied
  /\ events < MaxEvents /\ events' = events + 1
  /\ review' = [review EXCEPT ![v].wording[s] = @ + 1]
  /\ UNCHANGED <<target, file, rev, win, queue, task, ids>>

(* inspect, in its turn: a review nothing was applied of is stale if its   *)
(* note, or its source, has changed.                                       *)
Inspect(v) ==
  /\ task = Resting /\ review[v].state = "ready" /\ review[v].applied = {}
  /\ review' = [review EXCEPT ![v].state = "stale"]
  /\ UNCHANGED <<win, queue, ids>> /\ UserFrame

Shows(w, i, r) == win' = [win EXCEPT ![w] = [pc |-> "shown", id |-> i, rev |-> r]]

Preview(w, v, sel) ==
  /\ win[w].pc = "closed" /\ Ready(v, sel) /\ ids < MaxRevisions /\ ids' = ids + 1
  /\ Shows(w, ids + 1, [NoRev EXCEPT !.review = v, !.sel = sel, !.state = "prepared",
                                     !.writes = Planned(v, sel, ids + 1)])
  /\ UNCHANGED <<review, queue>> /\ UserFrame

PreviewUndo(w, i) ==
  /\ win[w].pc = "closed" /\ ids < MaxRevisions /\ ids' = ids + 1
  /\ rev[i].state = "applied" /\ rev[i].undoOf = 0 /\ ~Undone(i)
  /\ file[target[rev[i].review]] = rev[i].writes[target[rev[i].review]].after
  /\ Shows(w, ids + 1, [NoRev EXCEPT !.review = rev[i].review, !.undoOf = i, !.state = "prepared",
                                     !.writes = Undoing(i, ids + 1)])
  /\ UNCHANGED <<review, queue>> /\ UserFrame

(* The window of a record that was not completed when it was listed; it    *)
(* may be by now.  resume is called, which finishes it then.               *)
PreviewResume(w, i) ==
  /\ win[w].pc = "closed" /\ rev[i].state # "none"
  /\ Shows(w, i, NoRev) /\ UNCHANGED <<review, queue, ids>> /\ UserFrame

Confirm(w) ==
  /\ win[w].pc = "shown" /\ win' = [win EXCEPT ![w].pc = "queued"]
  /\ queue' = Append(queue, w) /\ UNCHANGED <<review, ids>> /\ UserFrame

Close(w) ==
  /\ win[w].pc = "shown" /\ win' = [win EXCEPT ![w] = Closed]
  /\ UNCHANGED <<review, queue, ids>> /\ UserFrame

-----------------------------------------------------------------------------
(* The writer, and of its files the first that is left.                    *)
Working(here)  == queue # <<>> /\ task.pc = here
I              == win[Head(queue)].id
Shown          == win[Head(queue)].rev
Here           == LET files == Order(rev[I])
                  IN  files[CHOOSE k \in 1 .. 3 :
                              /\ files[k] \in task.left
                              /\ \A j \in 1 .. k - 1 : files[j] \notin task.left]
Write          == rev[I].writes[Here]
Go(there, left) == task' = [pc |-> there, left |-> left] /\ UNCHANGED <<win, queue>>
Done(to)       == /\ win' = [win EXCEPT ![Head(queue)] = to]
                  /\ queue' = Tail(queue) /\ task' = Resting

(* The promise is rejected; the window shows what it did.                  *)
Fails == Done([win[Head(queue)] EXCEPT !.pc = "shown"])

WriterFrame == UNCHANGED <<target, ids, events>>

(* Mutant: the record is made of what the window shows.                    *)
RebuiltAsShown == TRUE

(* What was previewed must be what a preview gives now.  An undo is only   *)
(* checked against the records.                                            *)
(* Faulty variant: a revision is undone without a look at the records.     *)
RebuiltUndone == Shown.undoOf = 0 => /\ Ready(Shown.review, Shown.sel)
                                     /\ Shown.writes = Planned(Shown.review, Shown.sel, I)

Rebuilt == IF Shown.undoOf # 0 THEN ~Undone(Shown.undoOf)
           ELSE /\ Ready(Shown.review, Shown.sel)
                /\ Shown.writes = Planned(Shown.review, Shown.sel, I)

Saved(state) == rev' = [rev EXCEPT ![I] = [(IF @.state = "none" THEN Shown ELSE @) EXCEPT !.state = state]]

(* Once it is rebuilt, a new revision is saved.                            *)
Begin ==
  /\ Working("idle")
  /\ \/ rev[I].state = "none" /\ Rebuilt /\ Saved("prepared") /\ Go("check", {})
     \/ rev[I].state = "applied" /\ Go("finish", {}) /\ UNCHANGED rev
     \/ rev[I].state \notin {"none", "applied"} /\ Valid(rev[I]) /\ Go("check", {}) /\ UNCHANGED rev
     \/ Fails /\ UNCHANGED rev
  /\ UNCHANGED <<review, file>> /\ WriterFrame

(* Mutant: the record goes on saying "prepared".                           *)
CheckUnsaved ==
  /\ Working("check")
  /\ \/ Fits(rev[I]) /\ Go("write", DOMAIN rev[I].writes)
     \/ Go("recover", {})
  /\ UNCHANGED <<review, file, rev>> /\ WriterFrame

(* Every file is looked at before the first write, then the record says    *)
(* that they are being written.                                            *)
Check ==
  /\ Working("check")
  /\ \/ Fits(rev[I]) /\ Saved("applying") /\ Go("write", DOMAIN rev[I].writes)
     \/ Go("recover", {}) /\ UNCHANGED rev
  /\ UNCHANGED <<review, file>> /\ WriterFrame

(* Mutant: the file is written as it was planned.                          *)
WriteFileBlind ==
  /\ Working("write") /\ task.left # {}
  /\ file' = [file EXCEPT ![Here] = Write.after] /\ Go("write", task.left \ {Here})
  /\ UNCHANGED <<review, rev>> /\ WriterFrame

(* vault.process compares and writes at once.                              *)
WriteFile ==
  /\ Working("write") /\ task.left # {}
  /\ \/ /\ file[Here] \in {Write.before, Write.after}
        /\ file' = [file EXCEPT ![Here] = Write.after] /\ Go("write", task.left \ {Here})
     \/ UNCHANGED file /\ Go("recover", {})
  /\ UNCHANGED <<review, rev>> /\ WriterFrame

(* A last look at the source, then the save, without which the record goes *)
(* on saying what it said.                                                 *)
Complete ==
  /\ Working("write") /\ task.left = {}
  /\ \/ Saved("applied") /\ Go("finish", {})
     \/ UNCHANGED rev /\ (Go("recover", {}) \/ Fails)
  /\ UNCHANGED <<review, file>> /\ WriterFrame

(* The record is validated once more.  The review learns which of its      *)
(* suggestions were applied, and is stale if others are left.              *)
Finish ==
  LET v == rev[I].review
      applied == review[v].applied \cup rev[I].sel
  IN
  /\ Working("finish")
  /\ \/ /\ Valid(rev[I]) /\ rev[I].sel \subseteq review[v].applied
        /\ UNCHANGED review /\ Done(Closed)
     \/ /\ Valid(rev[I])
        /\ review' = [review EXCEPT ![v].applied = applied,
                                    ![v].state = IF applied = Suggestions THEN @ ELSE "stale"]
        /\ Done(Closed)
     \/ UNCHANGED review /\ Fails
  /\ UNCHANGED <<file, rev>> /\ WriterFrame

(* The catch clause, whose save may fail as well.                          *)
Recover ==
  /\ Working("recover") /\ Fails /\ (Saved("recovery") \/ UNCHANGED rev)
  /\ UNCHANGED <<review, file>> /\ WriterFrame

Writer == Begin \/ Check \/ WriteFile \/ Complete \/ Finish \/ Recover

-----------------------------------------------------------------------------
(* The user, a registration or another program adds to a file.             *)
Edit(p) == /\ events < MaxEvents /\ events' = events + 1
           /\ file' = [file EXCEPT ![p].rest = @ + 1]
           /\ UNCHANGED <<target, review, rev, win, queue, task, ids>>

(* The plugin is reloaded; files, reviews and records are what is left.    *)
Reload == /\ events < MaxEvents /\ events' = events + 1
          /\ win' = [w \in Windows |-> Closed] /\ queue' = <<>> /\ task' = Resting
          /\ UNCHANGED <<target, review, file, rev, ids>>

Next == \/ \E v \in Reviews : Prepare(v) \/ Inspect(v) \/ \E s \in Suggestions : Decide(v, s)
        \/ \E w \in Windows :
             \/ \E v \in Reviews, sel \in SUBSET Suggestions : Preview(w, v, sel)
             \/ \E i \in Ids : PreviewUndo(w, i) \/ PreviewResume(w, i)
             \/ Confirm(w) \/ Close(w)
        \/ Writer \/ (\E p \in Touched : Edit(p)) \/ Reload

Spec == Init /\ [][Next]_curationVars

-----------------------------------------------------------------------------
(* "stops at a file that was edited": no edit is ever lost, an undo        *)
(* included, and no entry of the index or of the log.                      *)
TextKept ==
  [][\A p \in Paths : /\ file[p].rest <= file'[p].rest
                      /\ p \notin Notes => file[p].has \subseteq file'[p].has]_curationVars

Entered(i) == {<<rev[i].review, s>> : s \in rev[i].sel}
InNote(v)  == {<<t[1], t[2]>> : t \in file[target[v]].has}

(* Before the files are touched their texts are in a record (knowledge-    *)
(* curation.md: "the texts of before and after are first written"): what   *)
(* stands in a note is of a record that says so, what is called applied is *)
(* in the log, and what has left a note has a record of its undo.          *)
ChangeIsRecorded ==
  /\ \A v \in Reviews, s \in Suggestions : <<v, s>> \in InNote(v) =>
       \E i \in Ids : /\ <<v, s>> \in Entered(i)
                      /\ rev[i].state \in {"applying", "recovery", "applied"}
  /\ \A i \in Ids : rev[i].state = "applied" =>
       /\ i \in file["log"].has
       /\ Entered(i) \subseteq InNote(rev[i].review)
          \/ \E j \in Ids : rev[j].undoOf = i /\ rev[j].state \in {"applying", "recovery", "applied"}

(* "avoid applying twice" (writer.ts:85): a suggestion is in one revision  *)
(* only, a revision is undone by one only, and a review calls applied what *)
(* a completed revision has applied.                                       *)
AppliedOnce ==
  /\ \A i, j \in Ids : i # j =>
       /\ rev[i].review = rev[j].review => rev[i].sel \cap rev[j].sel = {}
       /\ rev[i].undoOf # 0 => rev[i].undoOf # rev[j].undoOf
  /\ \A v \in Reviews : \A s \in review[v].applied :
       \E i \in Ids : rev[i].state = "applied" /\ <<v, s>> \in Entered(i)
=============================================================================
