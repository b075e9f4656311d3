--------------------------- MODULE RevisionJournal --------------------------
(***************************************************************************)
(* The four stores that keep a history of decisions as files which are     *)
(* only ever created: the records of the library ("record"), the drafts of *)
(* knowledge pages ("draft"), the routes of topic learning ("route") and   *)
(* the events of a study ("study").  A revision is a body <id>.json and a  *)
(* marker <id>.ready; it counts once both are whole.  There is no lock:    *)
(* windows and processes check the history before they write, and once     *)
(* more when they have written.                                            *)
(*                                                                         *)
(* One history.  A file is created empty and then filled, and either step  *)
(* may be the last one of its window.  What a revision says is a value;    *)
(* dates are taken to be in order, and files nobody else changes.          *)
(***************************************************************************)
EXTENDS Naturals, FiniteSets

CONSTANTS Windows,
          Values,                 \* what can be saved
          MaxRevisions,           \* the limit on saves (code: 64, 128, 512, 1024)
          MaxFaults               \* a bound of the model

ASSUME JournalAssumption == MaxRevisions \in Nat /\ MaxFaults \in Nat /\ Values # {}

VARIABLES style,     \* which store; never changes
          rev,       \* what each revision says
          body, mark,  \* its files: "none", "torn" or "whole"
          pc,        \* where each window is
          seen,      \* the heads it edits
          val,       \* what it wants to save
          work,      \* the revision it writes
          told,      \* the revisions reported as saved
          ids,       \* the last id issued
          faults     \* failed writes and dead windows

journalFiles == <<rev, body, mark, ids>>
windowState  == <<pc, seen, val, work>>
journalVars  == <<style, journalFiles, windowState, told, faults>>

Styles == {"record", "draft", "route", "study"}
Ids    == 1 .. MaxRevisions
NoRev  == [parents |-> {}, past |-> {}, value |-> CHOOSE v \in Values : TRUE]

Init == /\ style \in Styles
        /\ rev = [i \in Ids |-> NoRev]
        /\ body = [i \in Ids |-> "none"] /\ mark = [i \in Ids |-> "none"]
        /\ pc = [w \in Windows |-> "idle"] /\ seen = [w \in Windows |-> {}]
        /\ val = [w \in Windows |-> NoRev.value] /\ work = [w \in Windows |-> 0]
        /\ told = {} /\ ids = 0 /\ faults = 0

-----------------------------------------------------------------------------
(* What a read of the history finds.                                       *)
Committed == {i \in Ids : body[i] = "whole" /\ mark[i] = "whole"}
Pending   == {i \in Ids : body[i] # "none" /\ mark[i] = "none"}
Heads     == {i \in Committed : \A j \in Committed : i \notin rev[j].parents}

(* A torn marker makes every history unreadable, a torn body that of a     *)
(* draft; only a record may have several heads.                            *)
Broken == \/ \E i \in Ids : mark[i] = "torn"
          \/ style = "draft" /\ \E i \in Ids : body[i] = "torn"
          \/ style # "record" /\ Cardinality(Heads) > 1

(* The id of a draft is its digest: the same content after the same parent *)
(* is the same revision.                                                   *)
Same(w) == {i \in 1 .. ids : style = "draft" /\ rev[i].parents = seen[w] /\ rev[i].value = val[w]}

(* The save would change nothing: it is reported as done.                  *)
Unchanged(w, i) ==
  /\ Heads = {i}
  /\ \/ style = "draft" /\ i \in Same(w)
     \/ style \in {"record", "route"} /\ Heads = seen[w] /\ rev[i].value = val[w]

(* Mutant: unfinished saves are not looked at.                             *)
PassesPending(w, own) ==
  ~Broken /\ (Heads = seen[w] \/ (style = "draft" /\ \E i \in own : Heads = {i}))

(* The history must be readable, be the one that was edited, and a draft   *)
(* must have no unfinished save but this one.                              *)
Passes(w, own) ==
  /\ ~Broken
  /\ \/ Heads = seen[w] /\ (style = "draft" => Pending \subseteq own)
     \/ style = "draft" /\ \E i \in own : Heads = {i}

Goes(w, to) == pc' = [pc EXCEPT ![w] = to] /\ UNCHANGED <<seen, val, work>>
Leaves(w)   == /\ pc' = [pc EXCEPT ![w] = "idle"] /\ seen' = [seen EXCEPT ![w] = {}]
               /\ val' = [val EXCEPT ![w] = NoRev.value] /\ work' = [work EXCEPT ![w] = 0]

-----------------------------------------------------------------------------
Open(w) == /\ pc[w] = "idle" /\ ~Broken
           /\ seen' = [seen EXCEPT ![w] = Heads] /\ pc' = [pc EXCEPT ![w] = "open"]
           /\ UNCHANGED <<style, journalFiles, val, work, told, faults>>

Save(w, v) == /\ pc[w] = "open" /\ val' = [val EXCEPT ![w] = v] /\ pc' = [pc EXCEPT ![w] = "check"]
              /\ UNCHANGED <<style, journalFiles, seen, work, told, faults>>

(* An unfinished save of a draft is shown and saved once more.             *)
Resume(w, i) ==
  /\ style = "draft" /\ pc[w] = "idle" /\ i \in Pending /\ body[i] = "whole"
  /\ seen' = [seen EXCEPT ![w] = rev[i].parents] /\ val' = [val EXCEPT ![w] = rev[i].value]
  /\ pc' = [pc EXCEPT ![w] = "check"] /\ UNCHANGED <<style, journalFiles, work, told, faults>>

(* The checks before anything is written: two reads, of which the second   *)
(* decides.                                                                *)
Report(w) ==
  /\ pc[w] = "check" /\ ~Broken
  /\ \E i \in Ids : Unchanged(w, i) /\ told' = told \cup {i}
  /\ Leaves(w) /\ UNCHANGED <<style, journalFiles, faults>>

Refuse(w) ==
  /\ pc[w] = "check" /\ (Broken \/ \A i \in Ids : ~Unchanged(w, i))
  /\ \/ ~Passes(w, Same(w))
     \/ Same(w) \cap Pending = {} /\ Cardinality(Committed \cup Pending) >= MaxRevisions
  /\ Leaves(w) /\ UNCHANGED <<style, journalFiles, told, faults>>

Begin(w) ==
  /\ pc[w] = "check" /\ Passes(w, Same(w)) /\ \A i \in Ids : ~Unchanged(w, i)
  /\ \/ \E i \in Same(w) : work' = [work EXCEPT ![w] = i] /\ UNCHANGED <<rev, ids>>
     \/ /\ Same(w) = {} /\ ids < MaxRevisions /\ ids' = ids + 1
        /\ work' = [work EXCEPT ![w] = ids + 1]
        /\ rev' = [rev EXCEPT ![ids + 1] =
                     [parents |-> seen[w], value |-> val[w],
                      past |-> seen[w] \cup UNION {rev[j].past : j \in seen[w]}]]
  /\ pc' = [pc EXCEPT ![w] = "body"] /\ UNCHANGED <<style, body, mark, seen, val, told, faults>>

-----------------------------------------------------------------------------
(* create: the file must not exist; then it is filled.  A draft accepts a  *)
(* file that holds exactly these bytes already.                            *)
CreateBody(w) ==
  /\ pc[w] = "body" /\ body[work[w]] = "none"
  /\ body' = [body EXCEPT ![work[w]] = "torn"] /\ Goes(w, "fill")
  /\ UNCHANGED <<style, rev, mark, ids, told, faults>>

FillBody(w) ==
  /\ pc[w] = "fill" /\ body' = [body EXCEPT ![work[w]] = "whole"]
  /\ Goes(w, IF style = "draft" THEN "recheck" ELSE "mark")
  /\ UNCHANGED <<style, rev, mark, ids, told, faults>>

HasBody(w) ==
  /\ pc[w] = "body" /\ body[work[w]] # "none"
  /\ IF body[work[w]] = "whole" THEN Goes(w, "recheck") ELSE Leaves(w)
  /\ UNCHANGED <<style, journalFiles, told, faults>>

(* Only a draft looks at the history between body and marker.              *)
Recheck(w) ==
  /\ pc[w] = "recheck"
  /\ IF Passes(w, {work[w]}) THEN Goes(w, "mark") ELSE Leaves(w)
  /\ UNCHANGED <<style, journalFiles, told, faults>>

CreateMark(w) ==
  /\ pc[w] = "mark" /\ mark[work[w]] = "none"
  /\ mark' = [mark EXCEPT ![work[w]] = "torn"] /\ Goes(w, "seal")
  /\ UNCHANGED <<style, rev, body, ids, told, faults>>

FillMark(w) ==
  /\ pc[w] = "seal" /\ mark' = [mark EXCEPT ![work[w]] = "whole"] /\ Goes(w, "after")
  /\ UNCHANGED <<style, rev, body, ids, told, faults>>

HasMark(w) ==
  /\ pc[w] = "mark" /\ mark[work[w]] # "none"
  /\ IF mark[work[w]] = "whole" THEN Goes(w, "after") ELSE Leaves(w)
  /\ UNCHANGED <<style, journalFiles, told, faults>>

(* A write fails: with nothing, a part or all of the file on the disk; in  *)
(* the last case a draft finds its bytes and goes on.                      *)
FailBody(w) ==
  /\ pc[w] = "fill" /\ faults < MaxFaults /\ faults' = faults + 1
  /\ \E left \in {"torn", "whole"} :
       /\ body' = [body EXCEPT ![work[w]] = left]
       /\ IF style = "draft" /\ left = "whole" THEN Goes(w, "recheck") ELSE Leaves(w)
  /\ UNCHANGED <<style, rev, mark, ids, told>>

FailMark(w) ==
  /\ pc[w] = "seal" /\ faults < MaxFaults /\ faults' = faults + 1
  /\ \E left \in {"torn", "whole"} :
       /\ mark' = [mark EXCEPT ![work[w]] = left]
       /\ IF style = "draft" /\ left = "whole" THEN Goes(w, "after") ELSE Leaves(w)
  /\ UNCHANGED <<style, rev, body, ids, told>>

(* Mutant: the save is reported without a look at the others.              *)
AfterOwn(w) ==
  /\ pc[w] = "after" /\ Leaves(w)
  /\ told' = IF work[w] \in Heads THEN told \cup {work[w]} ELSE told
  /\ UNCHANGED <<style, journalFiles, faults>>

(* The last read: the save is reported if its revision is the only head.   *)
After(w) ==
  /\ pc[w] = "after" /\ Leaves(w)
  /\ told' = IF ~Broken /\ Heads = {work[w]} THEN told \cup {work[w]} ELSE told
  /\ UNCHANGED <<style, journalFiles, faults>>

(* The signal is looked at before every file is begun; records have none.  *)
Cancel(w) == /\ style # "record" /\ pc[w] \in {"check", "body", "recheck", "mark"}
             /\ Leaves(w) /\ UNCHANGED <<style, journalFiles, told, faults>>

(* The process of a window ends; another one is started.                   *)
Crash(w) == /\ pc[w] \notin {"idle", "open"}
            /\ faults < MaxFaults /\ faults' = faults + 1
            /\ Leaves(w) /\ UNCHANGED <<style, journalFiles, told>>

-----------------------------------------------------------------------------
Next == \E w \in Windows :
          \/ Open(w) \/ (\E v \in Values : Save(w, v)) \/ (\E i \in Ids : Resume(w, i))
          \/ Report(w) \/ Refuse(w) \/ Begin(w)
          \/ CreateBody(w) \/ FillBody(w) \/ HasBody(w) \/ FailBody(w) \/ Recheck(w)
          \/ CreateMark(w) \/ FillMark(w) \/ HasMark(w) \/ FailMark(w) \/ After(w)
          \/ Cancel(w) \/ Crash(w)

Spec == Init /\ [][Next]_journalVars

-----------------------------------------------------------------------------
TypeOK == /\ style \in Styles /\ ids \in 0 .. MaxRevisions
          /\ rev \in [Ids -> [parents : SUBSET Ids, past : SUBSET Ids, value : Values]]
          /\ body \in [Ids -> {"none", "torn", "whole"}] /\ mark \in [Ids -> {"none", "torn", "whole"}]
          /\ pc \in [Windows -> {"idle", "open", "check", "body", "fill", "recheck", "mark", "seal", "after"}]
          /\ seen \in [Windows -> SUBSET Ids] /\ val \in [Windows -> Values]
          /\ work \in [Windows -> 0 .. MaxRevisions] /\ told \subseteq Ids

(* "Append-only journal: no replace, delete, lock eviction, startup repair *)
(* or time-based winner" (record-store.ts:143): the files implement the    *)
(* ledger, so of two saves reported as successful one knows the other.     *)
Ledger == INSTANCE RevisionLedger WITH
            Revisions <- Ids, history <- [i \in Committed |-> rev[i].past]
ImplementsLedger == Ledger!Spec

(* The recheck of a draft (draft-store.ts:102): since a body is seen by    *)
(* the others before its marker is written, two windows that save at the   *)
(* same time may both be refused but never both commit.                    *)
DraftNeverForks == style = "draft" => Cardinality(Heads) <= 1
=============================================================================
