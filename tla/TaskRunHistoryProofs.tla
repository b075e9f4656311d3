----------------------- MODULE TaskRunHistoryProofs ------------------------
(***************************************************************************)
(* Proofs about TaskRunHistory, for any number of runs and loads, any set  *)
(* of limits and with every file operation free to fail.                   *)
(***************************************************************************)
EXTENDS TaskRunHistory, FiniteSetTheorems, TLAPS

History == [Runs -> Record]

(* Helpers keep the shape of the history.                                  *)
LEMMA NoRunType == NoRun \in Record /\ Empty \in History
  BY DEF NoRun, Empty, History, Record, Status, Terminal

LEMMA NoOpType == NoOp \in Operation /\ NoOp.pc = "idle"
  BY NoRunType, HistoryAssumption DEF NoOp, Operation, History

LEMMA SelectedType ==
  ASSUME NEW m \in History, NEW lim
  PROVE  Selected(m, lim) \in History
  BY NoRunType DEF Selected, History

LEMMA SnapshotType ==
  ASSUME NEW m \in History, NEW lim \in Limits, NEW mine \in BOOLEAN
  PROVE  Snapshot(m, lim, mine) \in Snapshots
  BY SelectedType DEF Snapshot, Snapshots, History

LEMMA MarkAllType ==
  ASSUME NEW m \in History, NEW S
  PROVE  MarkAll(m, S) \in History
<1>1. \A r \in Runs : [m[r] EXCEPT !.mark = TRUE] \in Record
  BY DEF History, Record
<1> QED BY <1>1 DEF MarkAll, History

LEMMA AppendType ==
  ASSUME NEW q \in Seq(Snapshots), NEW e \in Snapshots
  PROVE  Append(q, e) \in Seq(Snapshots)
  OBVIOUS

Kinds == {"start", "finish", "limit", "clear", "progress", "load"}

(* Retain leaves every variable it assigns well typed.                     *)
LEMMA RetainType ==
  ASSUME TypeOK, NEW kind \in Kinds, NEW m \in History, NEW lim \in Limits,
         NEW S \in SUBSET Runs, NEW orig \in History,
         NEW orig_limit \in Limits, NEW changed \in BOOLEAN,
         Retain(kind, m, lim, S, orig, orig_limit, changed)
  PROVE  /\ mem' \in History /\ limit' \in Limits /\ op' \in Operation
         /\ ack' = "wait" /\ saveq' \in Seq(Snapshots) /\ asked' \subseteq Runs
<1>1. mem' \in History /\ limit' \in Limits
  BY MarkAllType DEF Retain
<1>2. op' \in Operation
  BY NoOpType, HistoryAssumption DEF Retain, Operation, History, Kinds
<1>3. ack' = "wait" /\ saveq' \in Seq(Snapshots)
  BY MarkAllType, SnapshotType, AppendType DEF Retain, RequestSave, TypeOK
<1>4. asked' \subseteq Runs
  BY DEF Retain, TypeOK
<1> QED BY <1>1, <1>2, <1>3, <1>4

(* So does Conclude.                                                       *)
LEMMA ConcludeType ==
  ASSUME TypeOK, NEW m \in History, NEW lim \in Limits, NEW changed,
         Conclude(m, lim, changed)
  PROVE  /\ op' \in Operation /\ saveq' \in Seq(Snapshots)
         /\ ack' \in {"none", "wait", "ok", "err"}
         /\ phase' \in {"down", "loading", "up"}
<1>1. CASE op.kind = "load" /\ changed
  <2>1. op' \in Operation
    BY <1>1, NoOpType DEF Conclude, Operation
  <2>2. Snapshot(m, lim, TRUE) \in Snapshots
    BY SnapshotType
  <2>3. saveq' \in Seq(Snapshots) /\ ack' = "wait"
    BY <1>1, <2>2, AppendType DEF Conclude, RequestSave, TypeOK
  <2> QED BY <1>1, <2>1, <2>3 DEF Conclude, TypeOK
<1>2. CASE ~(op.kind = "load" /\ changed)
  BY <1>2, NoOpType DEF Conclude, TypeOK
<1> QED BY <1>1, <1>2

LEMMA EvictableType ==
  ASSUME NEW m, NEW lim
  PROVE  Evictable(m, lim) \in SUBSET Runs
  BY DEF Evictable, Present

(* What a load makes of a record is a record.                              *)
LEMMA ReconciledType ==
  ASSUME TypeOK, NEW rec \in Record, NEW file \in Journal
  PROVE  Interrupt(Reconciled(rec, file)) \in Record
<1>1. Reconciled(rec, file) \in Record
  BY DEF Reconciled, Record, Journal, Status, Terminal
<1>2. session \in Nat
  BY HistoryAssumption DEF TypeOK
<1> QED BY <1>1, <1>2 DEF Interrupt, Record, Status, Terminal

(* The journal about to be written is that of a run that has settled: what *)
(* TypeOK lacks to be inductive, for sidecar takes its value from there.   *)
Journalling ==
  op.pc = "sidecar" => op.run \in Runs /\ mem[op.run].st \in Terminal

LEMMA InitJournalling == Init => Journalling
  BY DEF Init, Journalling, NoOp

LEMMA StepJournalling == TypeOK /\ Journalling /\ [Next]_vars => Journalling'
<1> SUFFICES ASSUME TypeOK, Journalling, [Next]_vars PROVE Journalling'
  OBVIOUS
<1> USE DEF Journalling
<1>a. op \in Operation /\ mem \in History
  BY DEF TypeOK, History
<1>1. ASSUME NEW kind, NEW m, NEW lim, NEW S, NEW orig, NEW orig_limit, NEW changed,
             Retain(kind, m, lim, S, orig, orig_limit, changed)
      PROVE  Journalling'
  BY <1>1 DEF Retain, NoOp
<1>2. ASSUME NEW m, NEW lim, NEW changed, Conclude(m, lim, changed)
      PROVE  Journalling'
  <2>1. \/ op' = [NoOp EXCEPT !.kind = "load", !.pc = "loadsave"]
        \/ op' = NoOp
    BY <1>2, Zenon DEF Conclude
  <2>2. op'.pc # "sidecar"
    BY <2>1, NoOpType DEF Operation
  <2> QED BY <2>2
<1>3. ASSUME NEW r \in Runs, NEW o \in Terminal, Finish(r, o) PROVE Journalling'
  BY <1>3, <1>a DEF Finish, NoOp, History, Record
<1>4. CASE Start
  BY <1>4, <1>1 DEF Start
<1>5. CASE Clear \/ \E lim \in Limits : SetLimit(lim)
  BY <1>5, <1>1 DEF Clear, SetLimit
<1>6. CASE \E r \in Runs : IngestProgress(r)
  BY <1>6, <1>1 DEF IngestProgress
<1>7. CASE OtherSave \/ Written
  BY <1>7 DEF OtherSave, Written, Write
<1>8. CASE LoadBegin
  <2>1. op'.pc = "pending"
    BY <1>8 DEF LoadBegin, NoOp
  <2> QED BY <2>1
<1>8b. CASE Crash \/ Rejected \/ LoadSaved
  <2>1. op' = NoOp
    BY <1>8b DEF Crash, Rejected, LoadSaved
  <2> QED BY <2>1 DEF NoOp
<1>9. CASE \E ok \in BOOLEAN : Journalled(ok)
  BY <1>9, <1>1 DEF Journalled
<1>10. CASE \E r \in Runs, ok \in BOOLEAN : Unlink(r, ok) \/ LoadUnlink(r, ok)
  BY <1>10, <1>a DEF Unlink, LoadUnlink, Operation
<1>11. CASE Accepted
  BY <1>11, <1>a, <1>2 DEF Accepted, Operation
<1>12. CASE Retire
  BY <1>12, <1>a DEF Retire, Operation
<1>13. CASE Retired
  BY <1>13, <1>2 DEF Retired
<1>14. CASE LoadReconcile
  BY <1>14, <1>1, <1>2 DEF LoadReconcile
<1>15. CASE UNCHANGED vars
  BY <1>15 DEF vars
<1> QED
  BY <1>3, <1>4, <1>5, <1>6, <1>7, <1>8, <1>8b, <1>9, <1>10, <1>11, <1>12,
     <1>13, <1>14, <1>15
  DEF Next, Resumed

LEMMA InitType == Init => TypeOK
  BY NoRunType, NoOpType, HistoryAssumption
  DEF Init, TypeOK, History, Journal, NoFile, Snapshots

LEMMA StepType == TypeOK /\ Journalling /\ [Next]_vars => TypeOK'
<1> SUFFICES ASSUME TypeOK, Journalling, [Next]_vars PROVE TypeOK'
  OBVIOUS
<1> USE DEF History
<1>a. mem \in History /\ limit \in Limits /\ session \in Nat /\ op \in Operation
  BY HistoryAssumption DEF TypeOK
<1>1. CASE Start
  <2> DEFINE m == [mem EXCEPT ![nextId] = [NoRun EXCEPT !.st = "running"]]
             S == IF nextId \in Sourced THEN {} ELSE Evictable(m, limit)
  <2>1. m \in History
    BY <1>a, NoRunType DEF Record, Status
  <2>2. S \in SUBSET Runs
    BY EvictableType
  <2>3. Retain("start", m, limit, S, mem, limit, FALSE)
    BY <1>1 DEF Start
  <2> HIDE DEF m, S
  <2>4. nextId' \in 1..(MaxRuns + 1)
    BY <1>1, HistoryAssumption DEF Start, TypeOK, Runs
  <2> QED BY <1>a, <1>1, <2>1, <2>2, <2>3, <2>4, RetainType DEF Start, TypeOK, Kinds
<1>2. CASE Clear
  BY <1>a, <1>2, RetainType DEF Clear, TypeOK, Kinds, Present
<1>3. ASSUME NEW lim \in Limits, SetLimit(lim) PROVE TypeOK'
  BY <1>a, <1>3, RetainType, EvictableType DEF SetLimit, TypeOK, Kinds
<1>4. ASSUME NEW r \in Runs, NEW o \in Terminal, Finish(r, o) PROVE TypeOK'
  <2>1. mem' \in History
    BY <1>4, <1>a DEF Finish, Record, Status, Terminal
  <2>2. op' \in Operation
    <3>1. r \in 0..MaxRuns
      BY HistoryAssumption DEF Runs
    <3> QED BY <1>4, <3>1, NoOpType DEF Finish, Operation
  <2> QED BY <1>4, <2>1, <2>2 DEF Finish, TypeOK
<1>5. ASSUME NEW r \in Runs, IngestProgress(r) PROVE TypeOK'
  BY <1>a, <1>5, RetainType DEF IngestProgress, TypeOK, Kinds
<1>6. CASE OtherSave
  BY <1>a, <1>6, SnapshotType, AppendType DEF OtherSave, TypeOK
<1>7. CASE LoadBegin
  <2>1. mem' \in History /\ limit' \in Limits
    BY <1>7, SelectedType DEF LoadBegin, TypeOK
  <2>2. op' \in Operation
    BY <1>7, NoOpType DEF LoadBegin, Operation, Marked
  <2>3. session' \in 0..MaxSessions
    BY <1>7, HistoryAssumption DEF LoadBegin, TypeOK
  <2> QED BY <1>7, <2>1, <2>2, <2>3 DEF LoadBegin, TypeOK
<1>8. CASE Crash
  BY <1>8, NoRunType, NoOpType DEF Crash, TypeOK
<1>9. ASSUME NEW ok \in BOOLEAN, Write(ok) PROVE TypeOK'
  <2>1. Head(saveq) \in Snapshots /\ Tail(saveq) \in Seq(Snapshots)
    BY <1>9 DEF Write, TypeOK
  <2>2. disk' \in [runs : History, limit : Limits]
    BY <1>9, <2>1 DEF Write, TypeOK, Snapshots
  <2>3. ordered' \subseteq Runs
    BY <1>9, <1>a DEF Write, TypeOK, Operation
  <2> QED BY <1>9, <2>1, <2>2, <2>3 DEF Write, TypeOK
<1>10. ASSUME NEW ok \in BOOLEAN, Journalled(ok) PROVE TypeOK'
  <2> DEFINE r == op.run
             m == [mem EXCEPT ![r].out = ok, ![r].compl = FALSE]
             S == IF r \in Sourced THEN {} ELSE Evictable(m, limit)
  <2>r. r \in Runs /\ mem[r].st \in Terminal
    BY <1>10 DEF Journalled, Journalling
  <2>1. m \in History
    BY <1>a, <1>10, <2>r DEF Record
  <2>2. S \in SUBSET Runs
    BY EvictableType
  <2>3. Retain("finish", m, limit, S, m, limit, FALSE)
    BY <1>10 DEF Journalled
  <2>4. sidecar' \in [Runs -> Journal]
    BY <1>a, <1>10, <2>r DEF Journalled, TypeOK, Journal, Record
  <2> HIDE DEF m, S
  <2> QED BY <1>a, <1>10, <2>1, <2>2, <2>3, <2>4, RetainType DEF Journalled, TypeOK, Kinds
<1>11. ASSUME NEW r \in Runs, NEW ok \in BOOLEAN, Unlink(r, ok) PROVE TypeOK'
  <2>1. op' \in Operation
    BY <1>11, <1>a DEF Unlink, Operation
  <2>2. sidecar' \in [Runs -> Journal]
    BY <1>11 DEF Unlink, TypeOK, Journal, NoFile
  <2> QED BY <1>11, <2>1, <2>2 DEF Unlink, TypeOK
<1>12. ASSUME NEW r \in Runs, NEW ok \in BOOLEAN, LoadUnlink(r, ok) PROVE TypeOK'
  <2>1. op' \in Operation
    BY <1>12, <1>a DEF LoadUnlink, Operation
  <2>2. sidecar' \in [Runs -> Journal]
    BY <1>12 DEF LoadUnlink, TypeOK, Journal, NoFile
  <2>3. mem' \in History
    BY <1>12, <1>a, NoRunType DEF LoadUnlink
  <2> QED BY <1>12, <2>1, <2>2, <2>3 DEF LoadUnlink, TypeOK
<1>13. CASE Accepted
  <2>1. CASE op.evict = {} /\ op.kind # "clear"
    BY <1>13, <1>a, <2>1, ConcludeType DEF Accepted, TypeOK
  <2>2. CASE ~(op.evict = {} /\ op.kind # "clear")
    <3>1. op' \in Operation
      BY <1>13, <1>a, <2>2 DEF Accepted, Operation
    <3> QED BY <1>13, <2>2, <3>1 DEF Accepted, TypeOK
  <2> QED BY <2>1, <2>2
<1>14. CASE Rejected
  <2>1. op.orig \in History /\ op.orig_limit \in Limits
    BY <1>a DEF Operation
  <2>2. op' \in Operation /\ ack' = "none"
    BY <1>14, NoOpType DEF Rejected
  <2>3. CASE op.kind = "load"
    BY <1>14, <2>2, <2>3, NoRunType DEF Rejected, TypeOK
  <2>4. CASE op.kind # "load"
    BY <1>14, <2>1, <2>2, <2>4 DEF Rejected, TypeOK
  <2> QED BY <2>3, <2>4
<1>15. CASE Retire
  <2> DEFINE m == [r \in Runs |-> IF r \in op.evict \ op.failed THEN NoRun ELSE mem[r]]
  <2>1. m \in History
    BY <1>a, NoRunType
  <2>2. mem' = m /\ RequestSave(m, limit)
    BY <1>15 DEF Retire
  <2>3. op' \in Operation
    BY <1>15, <1>a DEF Retire, Operation
  <2> HIDE DEF m
  <2>4. Snapshot(m, limit, TRUE) \in Snapshots
    BY <1>a, <2>1, SnapshotType
  <2>5. saveq' \in Seq(Snapshots) /\ ack' = "wait" /\ mem' \in History
    BY <2>1, <2>2, <2>4, AppendType DEF RequestSave, TypeOK
  <2> QED BY <1>15, <2>3, <2>5 DEF Retire, TypeOK
<1>16. CASE Retired
  BY <1>16, <1>a, ConcludeType DEF Retired, TypeOK
<1>17. CASE LoadReconcile
  <2> DEFINE m == [r \in Runs |-> Interrupt(Reconciled(mem[r], sidecar[r]))]
             changed == op.changed \/ m # mem
  <2>1. m \in History
    BY <1>a, ReconciledType DEF TypeOK
  <2>2. changed \in BOOLEAN
    OBVIOUS
  <2> HIDE DEF m, changed
  <2>3. CASE Cardinality(Present(m)) > limit
    <3> DEFINE S == Evictable(m, limit)
    <3>0. Retain("load", m, limit, S, m, limit, changed) /\ UNCHANGED phase
      BY <1>17, <2>3 DEF LoadReconcile, m, changed
    <3>1. PICK c \in BOOLEAN : Retain("load", m, limit, S, m, limit, c) /\ UNCHANGED phase
      BY <2>2, <3>0
    <3>2. S \in SUBSET Runs
      BY EvictableType
    <3> HIDE DEF S
    <3>3. /\ mem' \in History /\ limit' \in Limits /\ op' \in Operation
          /\ ack' = "wait" /\ saveq' \in Seq(Snapshots) /\ asked' \subseteq Runs
      BY <1>a, <2>1, <3>1, <3>2, RetainType, SMTT(60) DEF Kinds
    <3> QED BY <1>17, <3>1, <3>3 DEF LoadReconcile, TypeOK
  <2>4. CASE ~(Cardinality(Present(m)) > limit)
    <3>1. mem' = m /\ UNCHANGED <<limit, asked>> /\ Conclude(m, limit, changed)
      BY <1>17, <2>4 DEF LoadReconcile, m, changed
    <3> QED BY <1>a, <1>17, <2>1, <2>2, <3>1, ConcludeType DEF LoadReconcile, TypeOK
  <2> QED BY <2>3, <2>4
<1>18. CASE LoadSaved
  BY <1>18, NoOpType DEF LoadSaved, TypeOK
<1>19. CASE UNCHANGED vars
  BY <1>19 DEF vars, TypeOK
<1> QED
  BY <1>1, <1>2, <1>3, <1>4, <1>5, <1>6, <1>7, <1>8, <1>9, <1>10, <1>11, <1>12,
     <1>13, <1>14, <1>15, <1>16, <1>17, <1>18, <1>19
  DEF Next, Written, Resumed

(* Every reachable state is well typed.                                    *)
THEOREM TypeCorrect == Spec => []TypeOK
<1>1. Init => TypeOK /\ Journalling
  BY InitType, InitJournalling
<1>2. TypeOK /\ Journalling /\ [Next]_vars => TypeOK' /\ Journalling'
  BY StepType, StepJournalling
<1> QED BY <1>1, <1>2, PTL DEF Spec

-----------------------------------------------------------------------------
(***************************************************************************)
(* CommittedOutputReadable, from an invariant about every copy of the      *)
(* history there is: the one in data.json, those queued to be written, and *)
(* the one in memory.                                                      *)
(***************************************************************************)
Stored == {disk.runs} \cup {saveq[i].runs : i \in 1..Len(saveq)}

(* Every unmarked output a copy h points to is on disk as h says.          *)
Readable(h, files) ==
  \A r \in Runs : h[r].out /\ ~h[r].mark =>
                    files[r] = [st |-> h[r].st, fin |-> h[r].fin]

(* A run that has not been started, or not settled, has no output.         *)
Sane(h, n) ==
  \A r \in Runs : /\ h[r].st = "running" => ~h[r].out
                  /\ r >= n => h[r].st = "absent" /\ ~h[r].out

(* No copy has an output for a run whose output is still to be written.    *)
Unread(h, U) == \A r \in U : ~h[r].out

Running(m) == {r \in Runs : m[r].st = "running"}

Unsettled == Running(mem) \cup (IF op.pc = "sidecar" THEN {op.run} ELSE {})

Fit(h, files, n, U) == Readable(h, files) /\ Sane(h, n) /\ Unread(h, U)

(* A copy that points to none of the outputs in E.                         *)
Cleared(h, E) == \A r \in E : h[r].mark \/ ~h[r].out

AllFit(files, n, U) == \A h \in Stored : Fit(h, files, n, U)

CopiesFit == /\ Fit(mem, sidecar, nextId, Unsettled)
             /\ AllFit(sidecar, nextId, Unsettled)

(* What a failed first save restores differs from memory in marks only.    *)
Restores(orig, m) ==
  \A r \in Runs : \/ orig[r].st = "absent" /\ ~orig[r].out
                  \/ orig[r].st = m[r].st /\ orig[r].out = m[r].out

RestorePoint ==
  op.pc = "phase1" => Readable(op.orig, sidecar) /\ Restores(op.orig, mem)

(* From the first save of a deletion on, nothing newer points to what is   *)
(* being deleted; once that save is accepted, nothing at all does.         *)
MarkedFirst ==
  /\ op.pc \in {"phase1", "unlink"} => Cleared(mem, op.evict)
  /\ op.pc = "phase1" =>
       \A i, j \in 1..Len(saveq) :
         saveq[i].own /\ i <= j => Cleared(saveq[j].runs, op.evict)
  /\ op.pc = "unlink" \/ (op.pc = "phase1" /\ ack = "ok") =>
       \A h \in Stored : Cleared(h, op.evict)
  /\ op.pc = "unlink" => op.todo \subseteq op.evict

(* An operation awaits at most one save, and nothing else does.            *)
OneAwaited ==
  /\ \A i \in 1..Len(saveq) : saveq[i].own => ack = "wait"
  /\ \A i, j \in 1..Len(saveq) : saveq[i].own /\ saveq[j].own => i = j
  /\ op.pc \in {"idle", "sidecar", "unlink", "pending"} => ack = "none"

(* A load deletes what data.json has marked, before anything is saved.     *)
LoadedMarks ==
  /\ phase = "down" \/ op.pc = "pending" => saveq = <<>>
  /\ phase = "down" => op.pc = "idle"
  /\ op.pc = "loadsave" => op.kind = "load"
  /\ op.pc = "pending" => phase = "loading"
  /\ op.pc = "pending" => \A r \in op.todo : disk.runs[r].mark

Copies == CopiesFit /\ RestorePoint /\ MarkedFirst /\ OneAwaited /\ LoadedMarks

IInv == TypeOK /\ Journalling /\ Copies

-----------------------------------------------------------------------------
(* Facts about a single copy.                                              *)
LEMMA FitSelected ==
  ASSUME NEW h \in History, NEW lim, NEW f, NEW n, NEW U \in SUBSET Runs,
         Fit(h, f, n, U)
  PROVE  Fit(Selected(h, lim), f, n, U)
<1>1. \A r \in Runs : Selected(h, lim)[r] = h[r] \/ Selected(h, lim)[r] = NoRun
  BY DEF Selected
<1>2. NoRun.st = "absent" /\ ~NoRun.out
  BY DEF NoRun
<1> QED BY <1>1, <1>2 DEF Fit, Readable, Sane, Unread

LEMMA ClearedSelected ==
  ASSUME NEW h \in History, NEW lim, NEW E \in SUBSET Runs, Cleared(h, E)
  PROVE  Cleared(Selected(h, lim), E)
<1>1. \A r \in Runs : Selected(h, lim)[r] = h[r] \/ Selected(h, lim)[r] = NoRun
  BY DEF Selected
<1>2. ~NoRun.out
  BY DEF NoRun
<1> QED BY <1>1, <1>2 DEF Cleared

LEMMA MarkAllFields ==
  ASSUME NEW m \in History, NEW S \in SUBSET Runs, NEW r \in Runs
  PROVE  /\ MarkAll(m, S)[r].st = m[r].st /\ MarkAll(m, S)[r].out = m[r].out
         /\ MarkAll(m, S)[r].fin = m[r].fin
         /\ MarkAll(m, S)[r].mark = (m[r].mark \/ r \in S)
<1>1. m[r] \in Record
  BY DEF History
<1> QED BY <1>1 DEF MarkAll, Record

LEMMA FitMarked ==
  ASSUME NEW m \in History, NEW S \in SUBSET Runs, NEW f, NEW n,
         NEW U \in SUBSET Runs, Fit(m, f, n, U)
  PROVE  /\ Fit(MarkAll(m, S), f, n, U) /\ Cleared(MarkAll(m, S), S)
         /\ Running(MarkAll(m, S)) = Running(m)
<1> DEFINE k == MarkAll(m, S)
<1>1. \A r \in Runs : /\ k[r].st = m[r].st /\ k[r].out = m[r].out
                     /\ k[r].fin = m[r].fin
                     /\ k[r].mark = (m[r].mark \/ r \in S)
  BY MarkAllFields
<1> HIDE DEF k
<1>2. Readable(k, f) /\ Cleared(k, S)
  BY <1>1 DEF Fit, Readable, Cleared
<1>3. Sane(k, n) /\ Unread(k, U) /\ Running(k) = Running(m)
  BY <1>1 DEF Fit, Sane, Unread, Running
<1> QED BY <1>2, <1>3 DEF Fit, k

LEMMA FitFewer ==
  ASSUME NEW h, NEW f, NEW n \in Nat, NEW k \in Nat, n <= k,
         NEW U, NEW V \in SUBSET U, Fit(h, f, n, U)
  PROVE  Fit(h, f, k, V)
<1>1. \A r \in Runs : r \in Nat
  BY HistoryAssumption DEF Runs
<1> QED BY <1>1 DEF Fit, Readable, Sane, Unread

LEMMA FitEmpty ==
  ASSUME NEW f, NEW n, NEW U \in SUBSET Runs
  PROVE  Fit(Empty, f, n, U) /\ Running(Empty) = {}
  BY DEF Fit, Readable, Sane, Unread, Running, Empty, NoRun

LEMMA FitUnlinked ==
  ASSUME NEW h, NEW f \in [Runs -> Journal], NEW n, NEW U, NEW r \in Runs,
         Fit(h, f, n, U), h[r].mark \/ ~h[r].out
  PROVE  Fit(h, [f EXCEPT ![r] = NoFile], n, U)
  BY DEF Fit, Readable, Sane, Unread

LEMMA FitWritten ==
  ASSUME NEW h, NEW f \in [Runs -> Journal], NEW n, NEW U, NEW r \in U, NEW j,
         Fit(h, f, n, U)
  PROVE  Fit(h, [f EXCEPT ![r] = j], n, U)
  BY DEF Fit, Readable, Sane, Unread

-----------------------------------------------------------------------------
(* Facts about the queue of copies.                                        *)
LEMMA StoredType == TypeOK => Stored \subseteq History
<1> SUFFICES ASSUME TypeOK PROVE Stored \subseteq History
  OBVIOUS
<1>1. disk.runs \in History
  BY DEF TypeOK, History
<1>2. \A i \in 1..Len(saveq) : saveq[i] \in Snapshots
  BY DEF TypeOK
<1>3. \A i \in 1..Len(saveq) : saveq[i].runs \in History
  BY <1>2 DEF Snapshots, History
<1> QED BY <1>1, <1>3 DEF Stored

LEMMA Appended ==
  ASSUME TypeOK, NEW e \in Snapshots, saveq' = Append(saveq, e), disk' = disk
  PROVE  /\ Stored' \subseteq Stored \cup {e.runs}
         /\ Len(saveq') = Len(saveq) + 1
         /\ \A i \in 1..Len(saveq) : saveq'[i] = saveq[i]
         /\ saveq'[Len(saveq) + 1] = e
<1>1. saveq \in Seq(Snapshots) /\ Len(saveq) \in Nat
  BY DEF TypeOK
<1>2. /\ Len(saveq') = Len(saveq) + 1
      /\ \A i \in 1..Len(saveq) : saveq'[i] = saveq[i]
      /\ saveq'[Len(saveq) + 1] = e
  BY <1>1
<1>3. ASSUME NEW i \in 1..Len(saveq') PROVE saveq'[i].runs \in Stored \cup {e.runs}
  <2>1. i \in 1..Len(saveq) \/ i = Len(saveq) + 1
    BY <1>1, <1>2
  <2> QED BY <1>2, <2>1 DEF Stored
<1> QED BY <1>2, <1>3 DEF Stored

LEMMA Popped ==
  ASSUME TypeOK, NEW ok \in BOOLEAN, Write(ok)
  PROVE  /\ Stored' \subseteq Stored
         /\ Len(saveq) \in Nat \ {0} /\ Len(saveq') = Len(saveq) - 1
         /\ \A i \in 1..Len(saveq') : saveq'[i] = saveq[i + 1]
         /\ Head(saveq) = saveq[1]
<1>1. /\ saveq \in Seq(Snapshots) /\ saveq # <<>> /\ saveq' = Tail(saveq)
      /\ Len(saveq) \in Nat \ {0}
  BY DEF TypeOK, Write
<1>2. /\ Len(saveq') = Len(saveq) - 1 /\ Head(saveq) = saveq[1]
      /\ \A i \in 1..Len(saveq') : saveq'[i] = saveq[i + 1]
  BY <1>1
<1>3. disk'.runs \in Stored
  <2>1. disk'.runs = disk.runs \/ disk'.runs = saveq[1].runs
    BY <1>2 DEF Write
  <2> QED BY <1>1, <2>1 DEF Stored
<1>4. ASSUME NEW i \in 1..Len(saveq') PROVE saveq'[i].runs \in Stored
  <2>1. i + 1 \in 1..Len(saveq) /\ saveq'[i] = saveq[i + 1]
    BY <1>1, <1>2
  <2> QED BY <2>1 DEF Stored
<1> QED BY <1>1, <1>2, <1>3, <1>4 DEF Stored

LEMMA Dropped ==
  ASSUME saveq' = saveq \/ saveq' = <<>>, disk' = disk
  PROVE  Stored' \subseteq Stored
  BY DEF Stored

-----------------------------------------------------------------------------
(* A save that may delete: the history it writes has the marks first.      *)
LEMMA RetainCopies ==
  ASSUME IInv, NEW kind \in Kinds, NEW m \in History, NEW lim \in Limits,
         NEW S \in SUBSET Runs, NEW orig \in History,
         NEW orig_limit \in Limits, NEW changed \in BOOLEAN,
         Retain(kind, m, lim, S, orig, orig_limit, changed),
         ack # "wait", disk' = disk, phase' # "down",
         Fit(m, sidecar', nextId', Running(m)),
         AllFit(sidecar', nextId', Running(m)),
         Readable(orig, sidecar'), Restores(orig, m)
  PROVE  Copies'
<1> DEFINE k == MarkAll(m, S)
           e == Snapshot(k, lim, TRUE)
<1>1. TypeOK
  BY DEF IInv
<1>2. /\ k \in History /\ Fit(k, sidecar', nextId', Running(m))
      /\ Cleared(k, S) /\ Running(k) = Running(m)
  <2>1. Running(m) \in SUBSET Runs
    BY DEF Running
  <2>2. k \in History
    BY MarkAllType
  <2>3. ASSUME NEW f, NEW n, Fit(m, f, n, Running(m))
        PROVE  Fit(k, f, n, Running(m)) /\ Cleared(k, S) /\ Running(k) = Running(m)
    BY <2>1, <2>3, FitMarked
  <2>4. Fit(k, sidecar', nextId', Running(m)) /\ Cleared(k, S) /\ Running(k) = Running(m)
    BY <2>3
  <2> QED BY <2>2, <2>4
<1>3. /\ e \in Snapshots /\ e.runs = Selected(k, lim) /\ e.own
  BY <1>2, SnapshotType DEF Snapshot
<1>4. Fit(e.runs, sidecar', nextId', Running(m)) /\ Cleared(e.runs, S)
  <2>1. Running(m) \in SUBSET Runs
    BY DEF Running
  <2> HIDE DEF k, e
  <2>2. ASSUME NEW f, NEW n, Fit(k, f, n, Running(m))
        PROVE  Fit(Selected(k, lim), f, n, Running(m))
    BY <1>2, <2>1, <2>2, FitSelected
  <2>3. Cleared(Selected(k, lim), S)
    BY <1>2, ClearedSelected
  <2> QED BY <1>2, <1>3, <2>2, <2>3
<1>5. /\ mem' = k /\ saveq' = Append(saveq, e) /\ ack' = "wait"
      /\ op'.pc = "phase1" /\ op'.evict = S /\ op'.orig = orig
  BY NoOpType DEF Retain, RequestSave, Operation
<1>k. \A r \in Runs : k[r].st = m[r].st /\ k[r].out = m[r].out
  BY MarkAllFields
<1> HIDE DEF k, e
<1>6. /\ Stored' \subseteq Stored \cup {e.runs}
      /\ Len(saveq') = Len(saveq) + 1 /\ Len(saveq) \in Nat
      /\ \A i \in 1..Len(saveq) : saveq'[i] = saveq[i]
      /\ saveq'[Len(saveq) + 1] = e
  <2>1. Len(saveq) \in Nat
    BY <1>1 DEF TypeOK
  <2> QED BY <1>1, <1>3, <1>5, <2>1, Appended
<1>7. \A i \in 1..Len(saveq') : saveq'[i].own => i = Len(saveq) + 1
  <2>1. \A i \in 1..Len(saveq) : ~saveq[i].own
    BY DEF IInv, Copies, OneAwaited
  <2> QED BY <1>6, <2>1
<1>8. CopiesFit'
  <2>1. Unsettled' = Running(m)
    BY <1>2, <1>5 DEF Unsettled
  <2>3. AllFit(sidecar, nextId, Unsettled)'
    BY <1>4, <1>6, <2>1 DEF AllFit
  <2> QED BY <1>2, <1>5, <2>1, <2>3 DEF CopiesFit
<1>9. RestorePoint'
  BY <1>k, <1>5 DEF RestorePoint, Restores
<1>10. MarkedFirst'
  <2>1. Cleared(mem', op'.evict)
    BY <1>2, <1>5
  <2>2. ASSUME NEW i \in 1..Len(saveq'), NEW j \in 1..Len(saveq'),
               saveq'[i].own, i <= j
        PROVE  Cleared(saveq'[j].runs, op'.evict)
    <3>1. j = Len(saveq) + 1
      BY <1>6, <1>7, <2>2
    <3> QED BY <1>4, <1>5, <1>6, <3>1
  <2> QED BY <1>5, <2>1, <2>2 DEF MarkedFirst
<1>11. OneAwaited'
  BY <1>5, <1>7 DEF OneAwaited
<1>12. LoadedMarks'
  BY <1>5 DEF LoadedMarks
<1> QED BY <1>8, <1>9, <1>10, <1>11, <1>12 DEF Copies

(* The end of an operation: either one more plain save, or the queue is    *)
(* released.                                                               *)
LEMMA ConcludeCopies ==
  ASSUME IInv, NEW m \in History, NEW lim \in Limits, NEW changed \in BOOLEAN,
         Conclude(m, lim, changed), mem' = m,
         ack # "wait", disk' = disk, phase # "down",
         Fit(m, sidecar', nextId', Running(m)),
         AllFit(sidecar', nextId', Running(m))
  PROVE  Copies'
<1>1. TypeOK
  BY DEF IInv
<1>2. \A i \in 1..Len(saveq) : ~saveq[i].own
  BY DEF IInv, Copies, OneAwaited
<1>3. CASE op.kind = "load" /\ changed
  <2> DEFINE e == Snapshot(m, lim, TRUE)
  <2>1. e \in Snapshots /\ Fit(e.runs, sidecar', nextId', Running(m))
    BY SnapshotType, FitSelected DEF Snapshot, Running
  <2>2. saveq' = Append(saveq, e) /\ ack' = "wait" /\ phase' = phase
    BY <1>3 DEF Conclude, RequestSave
  <2>3. op'.pc = "loadsave" /\ op'.kind = "load"
    BY <1>3, NoOpType DEF Conclude, Operation
  <2> HIDE DEF e
  <2>4. /\ Stored' \subseteq Stored \cup {e.runs}
        /\ Len(saveq') = Len(saveq) + 1 /\ Len(saveq) \in Nat
        /\ \A i \in 1..Len(saveq) : saveq'[i] = saveq[i]
    <3>1. Len(saveq) \in Nat
      BY <1>1 DEF TypeOK
    <3> QED BY <1>1, <2>1, <2>2, <3>1, Appended
  <2>5. \A i \in 1..Len(saveq') : saveq'[i].own => i = Len(saveq) + 1
    BY <1>2, <2>4
  <2>6. Unsettled' = Running(m)
    BY <2>3 DEF Unsettled
  <2>7. AllFit(sidecar, nextId, Unsettled)'
    BY <2>1, <2>4, <2>6 DEF AllFit
  <2>8. CopiesFit'
    BY <2>6, <2>7 DEF CopiesFit
  <2>9. RestorePoint' /\ MarkedFirst' /\ LoadedMarks'
    BY <2>2, <2>3 DEF RestorePoint, MarkedFirst, LoadedMarks
  <2>10. OneAwaited'
    BY <2>2, <2>3, <2>5 DEF OneAwaited
  <2> QED BY <2>8, <2>9, <2>10 DEF Copies
<1>4. CASE ~(op.kind = "load" /\ changed)
  <2>1. /\ op'.pc = "idle" /\ ack' = "none" /\ phase' = "up" /\ saveq' = saveq
    BY <1>4, NoOpType DEF Conclude
  <2>2. Stored' \subseteq Stored
    BY <2>1, Dropped
  <2>3. Unsettled' = Running(m)
    BY <2>1 DEF Unsettled
  <2>4. AllFit(sidecar, nextId, Unsettled)'
    BY <2>2, <2>3 DEF AllFit
  <2>5. CopiesFit'
    BY <2>3, <2>4 DEF CopiesFit
  <2>6. RestorePoint' /\ MarkedFirst' /\ LoadedMarks'
    BY <2>1 DEF RestorePoint, MarkedFirst, LoadedMarks
  <2>7. OneAwaited'
    BY <1>2, <2>1 DEF OneAwaited
  <2> QED BY <2>5, <2>6, <2>7 DEF Copies
<1> QED BY <1>3, <1>4

-----------------------------------------------------------------------------
(* What every action may rely on.                                          *)
LEMMA Reliable ==
  ASSUME IInv
  PROVE  /\ TypeOK /\ mem \in History /\ limit \in Limits /\ op \in Operation
         /\ nextId \in Nat /\ Stored \subseteq History
         /\ Unsettled \in SUBSET Runs /\ Running(mem) \subseteq Unsettled
         /\ Fit(mem, sidecar, nextId, Unsettled)
         /\ AllFit(sidecar, nextId, Unsettled)
<1>1. TypeOK /\ Journalling /\ CopiesFit
  BY DEF IInv, Copies
<1>2. mem \in History /\ limit \in Limits /\ op \in Operation /\ nextId \in Nat
  BY <1>1, HistoryAssumption DEF TypeOK, History
<1>3. Unsettled \in SUBSET Runs /\ Running(mem) \subseteq Unsettled
  BY <1>1 DEF Unsettled, Running, Journalling
<1> QED BY <1>1, <1>2, <1>3, StoredType DEF CopiesFit

(* The same history, with the runs that are running.                       *)
LEMMA FitRunning ==
  ASSUME IInv
  PROVE  /\ Fit(mem, sidecar, nextId, Running(mem))
         /\ AllFit(sidecar, nextId, Running(mem))
         /\ Readable(mem, sidecar) /\ Restores(mem, mem)
<1>1. \A h \in Stored \cup {mem} : Fit(h, sidecar, nextId, Running(mem))
  BY Reliable, FitFewer DEF AllFit
<1> QED BY <1>1 DEF AllFit, Fit, Restores

LEMMA StartCopies == IInv /\ Start => Copies'
<1> SUFFICES ASSUME IInv, Start PROVE Copies'
  OBVIOUS
<1> DEFINE m == [mem EXCEPT ![nextId] = [NoRun EXCEPT !.st = "running"]]
           S == IF nextId \in Sourced THEN {} ELSE Evictable(m, limit)
<1>1. /\ TypeOK /\ mem \in History /\ limit \in Limits /\ nextId \in Runs
      /\ nextId \in Nat /\ nextId' = nextId + 1
  BY Reliable DEF Start
<1>2. m \in History
  BY <1>1, NoRunType DEF History, Record, Status
<1>3. S \in SUBSET Runs
  BY EvictableType
<1>4. Retain("start", m, limit, S, mem, limit, FALSE) /\ sidecar' = sidecar
  BY DEF Start
<1>5. /\ m[nextId].st = "running" /\ ~m[nextId].out
      /\ \A r \in Runs \ {nextId} : m[r] = mem[r]
  BY <1>1 DEF NoRun, History
<1>6. mem[nextId].st = "absent" /\ ~mem[nextId].out
  BY <1>1, Reliable DEF Fit, Sane
<1>7. Running(m) = Running(mem) \cup {nextId}
  BY <1>1, <1>5 DEF Running
<1>8. Fit(m, sidecar', nextId', Running(m))
  <2>1. Readable(m, sidecar')
    BY <1>4, <1>5, Reliable DEF Fit, Readable
  <2>2. Sane(m, nextId')
    <3>1. \A r \in Runs : r \in Nat
      BY HistoryAssumption DEF Runs
    <3> QED BY <1>1, <1>5, <3>1, Reliable DEF Fit, Sane
  <2>3. Unread(m, Running(m))
    BY <2>2 DEF Sane, Unread, Running
  <2> QED BY <2>1, <2>2, <2>3 DEF Fit
<1>9. AllFit(sidecar', nextId', Running(m))
  <2> SUFFICES ASSUME NEW h \in Stored PROVE Fit(h, sidecar', nextId', Running(m))
    BY DEF AllFit
  <2>1. Fit(h, sidecar, nextId, Unsettled)
    BY Reliable DEF AllFit
  <2>2. Unread(h, Running(m))
    BY <1>1, <1>7, <2>1, Reliable DEF Fit, Sane, Unread
  <2>3. Fit(h, sidecar, nextId + 1, {})
    BY <1>1, <2>1, FitFewer
  <2> QED BY <1>1, <1>4, <2>2, <2>3 DEF Fit
<1>10. Readable(mem, sidecar') /\ Restores(mem, m)
  BY <1>4, <1>5, <1>6, FitRunning DEF Restores
<1>11. ack # "wait" /\ disk' = disk /\ phase' # "down"
  BY DEF Start, Idle, IInv, Copies, OneAwaited
<1> HIDE DEF m, S
<1> QED
  BY <1>1, <1>2, <1>3, <1>4, <1>8, <1>9, <1>10, <1>11, RetainCopies DEF Kinds

(* The mutations that retain the history as it is.                         *)
LEMMA QueuedCopies ==
  ASSUME IInv, Idle, NEW kind \in Kinds, NEW lim \in Limits,
         NEW S \in SUBSET Runs, Retain(kind, mem, lim, S, mem, limit, FALSE),
         UNCHANGED <<phase, nextId, disk, sidecar>>
  PROVE  Copies'
<1>1. ack # "wait" /\ phase' # "down"
  BY DEF Idle, IInv, Copies, OneAwaited
<1>2. /\ Fit(mem, sidecar', nextId', Running(mem))
      /\ AllFit(sidecar', nextId', Running(mem))
      /\ Readable(mem, sidecar') /\ Restores(mem, mem)
  BY FitRunning
<1> QED BY <1>1, <1>2, Reliable, RetainCopies

LEMMA ClearCopies == IInv /\ Clear => Copies'
<1> SUFFICES ASSUME IInv, Clear PROVE Copies'
  OBVIOUS
<1> DEFINE S == {r \in Present(mem) : mem[r].st # "running"}
<1>1. S \in SUBSET Runs
  BY DEF Present
<1>2. /\ Idle /\ Retain("clear", mem, limit, S, mem, limit, FALSE)
      /\ UNCHANGED <<phase, nextId, disk, sidecar>>
  BY DEF Clear
<1> HIDE DEF S
<1> QED BY <1>1, <1>2, Reliable, QueuedCopies DEF Kinds

LEMMA SetLimitCopies == ASSUME IInv, NEW lim \in Limits, SetLimit(lim) PROVE Copies'
  BY EvictableType, QueuedCopies DEF SetLimit, Kinds

LEMMA IngestProgressCopies ==
  ASSUME IInv, NEW r \in Runs, IngestProgress(r) PROVE Copies'
<1>1. PICK S \in SUBSET Runs : Retain("progress", mem, limit, S, mem, limit, FALSE)
  BY DEF IngestProgress
<1>2. Idle /\ UNCHANGED <<phase, nextId, disk, sidecar>>
  BY DEF IngestProgress
<1> QED BY <1>1, <1>2, Reliable, QueuedCopies DEF Kinds

LEMMA FinishCopies ==
  ASSUME IInv, NEW r \in Runs, NEW o \in Terminal, Finish(r, o) PROVE Copies'
<1>1. /\ mem[r].st = "running" /\ mem \in History /\ op.pc = "idle"
      /\ UNCHANGED <<phase, nextId, ack, saveq, disk, sidecar>>
  BY Reliable DEF Finish, Idle
<1>2. op'.pc = "sidecar" /\ op'.run = r
  BY NoOpType DEF Finish, Operation
<1>3. /\ mem'[r].st \in Terminal /\ ~mem'[r].out
      /\ \A q \in Runs \ {r} : mem'[q] = mem[q]
  BY <1>1 DEF Finish, History
<1>4. Unsettled' = Unsettled
  BY <1>1, <1>2, <1>3 DEF Unsettled, Running, Terminal
<1>5. Fit(mem', sidecar, nextId, Unsettled)
  <2>1. Readable(mem', sidecar)
    BY <1>3, Reliable DEF Fit, Readable
  <2>2. Sane(mem', nextId)
    BY <1>1, <1>3, Reliable DEF Fit, Sane, Terminal
  <2>3. Unread(mem', Unsettled)
    BY <1>3, Reliable DEF Fit, Unread
  <2> QED BY <2>1, <2>2, <2>3 DEF Fit
<1>6. Stored' = Stored
  BY <1>1 DEF Stored
<1>7. CopiesFit'
  BY <1>1, <1>4, <1>5, <1>6, Reliable DEF CopiesFit, AllFit
<1>8. RestorePoint' /\ MarkedFirst' /\ LoadedMarks'
  BY <1>1, <1>2 DEF RestorePoint, MarkedFirst, LoadedMarks, Finish, Idle
<1>9. OneAwaited'
  BY <1>1, <1>2 DEF OneAwaited, IInv, Copies
<1> QED BY <1>7, <1>8, <1>9 DEF Copies

LEMMA JournalledCopies == ASSUME IInv, NEW ok \in BOOLEAN, Journalled(ok) PROVE Copies'
<1> DEFINE r == op.run
           m == [mem EXCEPT ![r].out = ok, ![r].compl = FALSE]
           S == IF r \in Sourced THEN {} ELSE Evictable(m, limit)
           j == [st |-> mem[r].st, fin |-> mem[r].fin]
<1>1. /\ op.pc = "sidecar" /\ r \in Runs /\ mem[r].st \in Terminal
      /\ mem \in History /\ limit \in Limits
      /\ ack # "wait" /\ UNCHANGED <<phase, nextId, disk>> /\ phase # "down"
  BY Reliable DEF Journalled, IInv, Journalling, Copies, OneAwaited, LoadedMarks
<1>2. /\ m \in History /\ m[r].st = mem[r].st /\ m[r].fin = mem[r].fin
      /\ m[r].out = ok /\ \A q \in Runs \ {r} : m[q] = mem[q]
  BY <1>1 DEF History, Record
<1>3. S \in SUBSET Runs
  BY EvictableType
<1>4. Retain("finish", m, limit, S, m, limit, FALSE)
  BY DEF Journalled
<1>5. sidecar' = IF ok THEN [sidecar EXCEPT ![r] = j] ELSE sidecar
  BY DEF Journalled
<1>6. Running(m) \subseteq Unsettled /\ r \in Unsettled /\ r \notin Running(m)
  BY <1>1, <1>2 DEF Running, Unsettled, Terminal
<1>s. sidecar \in [Runs -> Journal]
  BY Reliable DEF TypeOK
<1> HIDE DEF m, S, j
<1>7. \A h \in Stored \cup {mem} : Fit(h, sidecar', nextId, Unsettled)
  <2> SUFFICES ASSUME NEW h \in Stored \cup {mem}
               PROVE  Fit(h, sidecar', nextId, Unsettled)
    OBVIOUS
  <2>1. Fit(h, sidecar, nextId, Unsettled)
    BY Reliable DEF AllFit
  <2>2. Fit(h, [sidecar EXCEPT ![r] = j], nextId, Unsettled)
    BY <1>6, <1>s, <1>1, <2>1, Reliable, FitWritten
  <2> QED BY <1>5, <2>1, <2>2
<1>8. AllFit(sidecar', nextId, Running(m))
  <2> SUFFICES ASSUME NEW h \in Stored PROVE Fit(h, sidecar', nextId, Running(m))
    BY DEF AllFit
  <2> QED BY <1>6, <1>7 DEF Fit, Unread
<1>9. Fit(m, sidecar', nextId, Running(m))
  <2>1. Fit(mem, sidecar', nextId, Unsettled)
    BY <1>7
  <2>2. Readable(m, sidecar')
    <3>1. ok => sidecar'[r] = [st |-> m[r].st, fin |-> m[r].fin]
      BY <1>1, <1>2, <1>5, <1>s DEF j
    <3> QED BY <1>2, <2>1, <3>1 DEF Fit, Readable
  <2>3. Sane(m, nextId)
    BY <1>1, <1>2, <2>1 DEF Fit, Sane, Terminal
  <2>4. Unread(m, Running(m))
    BY <1>2, <1>6, <2>1, Reliable DEF Fit, Unread
  <2> QED BY <2>2, <2>3, <2>4 DEF Fit
<1>10. Readable(m, sidecar') /\ Restores(m, m)
  BY <1>9 DEF Fit, Restores
<1>11. Fit(m, sidecar', nextId', Running(m)) /\ AllFit(sidecar', nextId', Running(m))
  BY <1>1, <1>8, <1>9
<1> QED BY <1>1, <1>2, <1>3, <1>4, <1>10, <1>11, RetainCopies DEF Kinds

LEMMA OtherSaveCopies == IInv /\ OtherSave => Copies'
<1> SUFFICES ASSUME IInv, OtherSave PROVE Copies'
  OBVIOUS
<1> DEFINE e == Snapshot(mem, limit, FALSE)
<1>1. /\ TypeOK /\ e \in Snapshots /\ ~e.own
      /\ Fit(e.runs, sidecar, nextId, Unsettled)
      /\ e.runs = Selected(mem, limit)
  BY Reliable, SnapshotType, FitSelected DEF Snapshot
<1>2. /\ saveq' = Append(saveq, e) /\ phase = "up"
      /\ UNCHANGED <<phase, nextId, mem, op, ack, disk, sidecar>>
  BY DEF OtherSave
<1> HIDE DEF e
<1>3. /\ Stored' \subseteq Stored \cup {e.runs}
      /\ Len(saveq') = Len(saveq) + 1 /\ Len(saveq) \in Nat
      /\ \A i \in 1..Len(saveq) : saveq'[i] = saveq[i]
      /\ saveq'[Len(saveq) + 1] = e
  <2>1. Len(saveq) \in Nat
    BY <1>1 DEF TypeOK
  <2> QED BY <1>1, <1>2, <2>1, Appended
<1>4. \A i \in 1..Len(saveq') : i \in 1..Len(saveq) \/ i = Len(saveq) + 1
  BY <1>3
<1>5. CopiesFit'
  <2>1. Unsettled' = Unsettled
    BY <1>2 DEF Unsettled
  <2>2. AllFit(sidecar, nextId, Unsettled)'
    BY <1>1, <1>2, <1>3, <2>1, Reliable DEF AllFit
  <2> QED BY <1>2, <2>1, <2>2, Reliable DEF CopiesFit
<1>6. RestorePoint' /\ LoadedMarks'
  BY <1>2 DEF RestorePoint, LoadedMarks, IInv, Copies
<1>7. op.pc \in {"phase1", "unlink"} => Cleared(e.runs, op.evict)
  <2>1. op.evict \in SUBSET Runs
    BY Reliable DEF Operation
  <2> QED BY <1>1, <2>1, Reliable, ClearedSelected DEF IInv, Copies, MarkedFirst
<1>8. MarkedFirst'
  <2>1. ASSUME op.pc = "phase1", NEW i \in 1..Len(saveq'), NEW k \in 1..Len(saveq'),
               saveq'[i].own, i <= k
        PROVE  Cleared(saveq'[k].runs, op.evict)
    <3>1. i \in 1..Len(saveq) /\ saveq[i].own
      BY <1>1, <1>3, <1>4, <2>1
    <3> QED BY <1>3, <1>4, <1>7, <2>1, <3>1 DEF IInv, Copies, MarkedFirst
  <2>2. op.pc = "unlink" \/ (op.pc = "phase1" /\ ack = "ok") =>
          \A h \in Stored' : Cleared(h, op.evict)
    BY <1>3, <1>7 DEF IInv, Copies, MarkedFirst
  <2> QED BY <1>2, <2>1, <2>2 DEF IInv, Copies, MarkedFirst
<1>9. OneAwaited'
  <2>1. \A i \in 1..Len(saveq') : saveq'[i].own => i \in 1..Len(saveq) /\ saveq[i].own
    BY <1>1, <1>3, <1>4
  <2> QED BY <1>2, <2>1 DEF IInv, Copies, OneAwaited
<1> QED BY <1>5, <1>6, <1>8, <1>9 DEF Copies

LEMMA WriteCopies == ASSUME IInv, NEW ok \in BOOLEAN, Write(ok) PROVE Copies'
<1>1. TypeOK /\ MarkedFirst /\ OneAwaited /\ RestorePoint /\ LoadedMarks
  BY DEF IInv, Copies
<1>2. /\ Stored' \subseteq Stored
      /\ Len(saveq) \in Nat \ {0} /\ Len(saveq') = Len(saveq) - 1
      /\ \A i \in 1..Len(saveq') : saveq'[i] = saveq[i + 1]
      /\ Head(saveq) = saveq[1]
  BY <1>1, Popped
<1>3. /\ saveq # <<>> /\ UNCHANGED <<phase, nextId, mem, op, sidecar>>
      /\ ack' = IF saveq[1].own THEN IF ok THEN "ok" ELSE "err" ELSE ack
  BY <1>2 DEF Write
<1>4. \A i \in 1..Len(saveq') : i + 1 \in 1..Len(saveq)
  BY <1>2
<1>5. CopiesFit'
  <2>1. Unsettled' = Unsettled
    BY <1>3 DEF Unsettled
  <2> QED BY <1>2, <1>3, <2>1, Reliable DEF CopiesFit, AllFit
<1>6. RestorePoint' /\ LoadedMarks'
  BY <1>1, <1>3 DEF RestorePoint, LoadedMarks
<1>7. MarkedFirst'
  <2>1. ASSUME op.pc = "phase1", NEW i \in 1..Len(saveq'), NEW k \in 1..Len(saveq'),
               saveq'[i].own, i <= k
        PROVE  Cleared(saveq'[k].runs, op.evict)
    <3>1. saveq[i + 1].own /\ i + 1 <= k + 1
      BY <1>2, <2>1
    <3> QED BY <1>1, <1>2, <1>4, <2>1, <3>1 DEF MarkedFirst
  <2>2. ASSUME op.pc = "phase1", ack' = "ok", NEW h \in Stored'
        PROVE  Cleared(h, op.evict)
    <3>1. CASE ack = "ok"
      BY <1>1, <1>2, <2>2, <3>1 DEF MarkedFirst
    <3>2. CASE ack # "ok"
      <4>1. saveq[1].own /\ ok
        BY <1>3, <2>2, <3>2
      <4>2. \A i \in 1..Len(saveq) : Cleared(saveq[i].runs, op.evict)
        BY <1>1, <1>2, <2>2, <4>1 DEF MarkedFirst
      <4>3. disk'.runs = saveq[1].runs
        BY <1>2, <4>1 DEF Write
      <4>4. h = saveq[1].runs \/ \E i \in 1..Len(saveq') : h = saveq[i + 1].runs
        BY <1>2, <2>2, <4>3 DEF Stored
      <4> QED BY <1>2, <1>4, <4>2, <4>4
    <3> QED BY <3>1, <3>2
  <2>3. op.pc = "unlink" => \A h \in Stored' : Cleared(h, op.evict)
    BY <1>1, <1>2 DEF MarkedFirst
  <2> QED BY <1>1, <1>3, <2>1, <2>2, <2>3 DEF MarkedFirst
<1>8. OneAwaited'
  <2>1. ASSUME NEW i \in 1..Len(saveq'), saveq'[i].own PROVE ack' = "wait"
    <3>1. saveq[i + 1].own /\ i + 1 # 1
      BY <1>2, <2>1
    <3>2. ack = "wait" /\ ~saveq[1].own
      BY <1>1, <1>2, <1>4, <3>1 DEF OneAwaited
    <3> QED BY <1>3, <3>2
  <2>2. \A i, k \in 1..Len(saveq') : saveq'[i].own /\ saveq'[k].own => i = k
    <3> SUFFICES ASSUME NEW i \in 1..Len(saveq'), NEW k \in 1..Len(saveq'),
                        saveq'[i].own, saveq'[k].own
                 PROVE  i = k
      OBVIOUS
    <3>1. i + 1 = k + 1
      BY <1>1, <1>2, <1>4 DEF OneAwaited
    <3> QED BY <1>2, <3>1
  <2>3. op.pc \in {"idle", "sidecar", "unlink", "pending"} => ack' = "none"
    BY <1>1, <1>2, <1>3 DEF OneAwaited
  <2> QED BY <1>3, <2>1, <2>2, <2>3 DEF OneAwaited
<1> QED BY <1>5, <1>6, <1>7, <1>8 DEF Copies

(* An awaited save that was accepted leaves no other awaited.              *)
LEMMA NoneAwaited ==
  ASSUME IInv, ack # "wait" PROVE \A i \in 1..Len(saveq) : ~saveq[i].own
  BY DEF IInv, Copies, OneAwaited

LEMMA AcceptedCopies == IInv /\ Accepted => Copies'
<1> SUFFICES ASSUME IInv, Accepted PROVE Copies'
  OBVIOUS
<1>1. /\ op.pc = "phase1" /\ ack = "ok" /\ phase # "down"
      /\ UNCHANGED <<nextId, mem, limit, disk, sidecar>>
  BY DEF Accepted, IInv, Copies, LoadedMarks
<1>2. CASE op.evict = {} /\ op.kind # "clear"
  <2>1. Conclude(mem, limit, op.changed) /\ op.changed \in BOOLEAN
    BY <1>2, Reliable DEF Accepted, Operation
  <2>2. /\ Fit(mem, sidecar', nextId', Running(mem))
        /\ AllFit(sidecar', nextId', Running(mem))
    BY <1>1, FitRunning
  <2>3. PICK c \in BOOLEAN : Conclude(mem, limit, c)
    BY <2>1
  <2>4. mem' = mem /\ disk' = disk /\ ack # "wait"
    BY <1>1
  <2> QED BY <1>1, <2>2, <2>3, <2>4, Reliable, ConcludeCopies
<1>3. CASE ~(op.evict = {} /\ op.kind # "clear")
  <2>1. /\ op'.pc = "unlink" /\ op'.evict = op.evict /\ op'.todo = op.evict
        /\ ack' = "none" /\ UNCHANGED <<phase, saveq>>
    BY <1>3, Reliable DEF Accepted, Operation
  <2>2. Stored' = Stored /\ Unsettled' = Unsettled
    BY <1>1, <2>1 DEF Stored, Unsettled
  <2>3. CopiesFit'
    BY <1>1, <2>2, Reliable DEF CopiesFit, AllFit
  <2>4. RestorePoint' /\ LoadedMarks'
    BY <1>1, <2>1 DEF RestorePoint, LoadedMarks
  <2>5. MarkedFirst'
    BY <1>1, <2>1, <2>2 DEF MarkedFirst, IInv, Copies
  <2>6. OneAwaited'
    BY <1>1, <2>1, NoneAwaited DEF OneAwaited
  <2> QED BY <2>3, <2>4, <2>5, <2>6 DEF Copies
<1> QED BY <1>2, <1>3

LEMMA RejectedCopies == IInv /\ Rejected => Copies'
<1> SUFFICES ASSUME IInv, Rejected PROVE Copies'
  OBVIOUS
<1>1. /\ op.pc \in {"phase1", "loadsave"} /\ ack = "err" /\ phase # "down"
      /\ op'.pc = "idle" /\ ack' = "none"
      /\ UNCHANGED <<nextId, disk, sidecar>>
  BY NoOpType DEF Rejected, IInv, Copies, LoadedMarks
<1>2. \A i \in 1..Len(saveq) : ~saveq[i].own
  BY <1>1, NoneAwaited
<1>3. CASE op.kind = "load"
  <2>1. phase' = "down" /\ mem' = Empty /\ saveq' = <<>>
    BY <1>3 DEF Rejected
  <2>2. Unsettled' = {} /\ Stored' \subseteq Stored
    BY <1>1, <2>1, FitEmpty, Dropped DEF Unsettled
  <2>3. AllFit(sidecar, nextId, {})
    BY Reliable DEF AllFit, Fit, Unread
  <2>4. CopiesFit'
    BY <1>1, <2>1, <2>2, <2>3, FitEmpty DEF CopiesFit, AllFit
  <2>5. RestorePoint' /\ LoadedMarks' /\ MarkedFirst' /\ OneAwaited'
    BY <1>1, <2>1 DEF RestorePoint, LoadedMarks, MarkedFirst, OneAwaited
  <2> QED BY <2>4, <2>5 DEF Copies
<1>4. CASE op.kind # "load"
  <2>1. /\ mem' = op.orig /\ UNCHANGED <<phase, saveq>> /\ op.pc = "phase1"
    BY <1>1, <1>4 DEF Rejected, IInv, Copies, LoadedMarks
  <2>2. Readable(mem', sidecar) /\ Restores(mem', mem)
    BY <2>1 DEF IInv, Copies, RestorePoint
  <2>3. Running(mem') \subseteq Unsettled
    BY <2>2 DEF Restores, Running, Unsettled
  <2>4. Sane(mem', nextId)
    BY <2>2, Reliable DEF Fit, Sane, Restores
  <2>5. Unread(mem', Running(mem'))
    BY <2>4 DEF Sane, Unread, Running
  <2>6. AllFit(sidecar, nextId, Running(mem'))
    BY <2>3, Reliable DEF AllFit, Fit, Unread
  <2>7. Unsettled' = Running(mem') /\ Stored' \subseteq Stored
    BY <1>1, <2>1, Dropped DEF Unsettled
  <2>8. CopiesFit'
    BY <1>1, <2>2, <2>4, <2>5, <2>6, <2>7 DEF CopiesFit, AllFit, Fit
  <2>9. RestorePoint' /\ LoadedMarks' /\ MarkedFirst' /\ OneAwaited'
    BY <1>1, <1>2, <2>1 DEF RestorePoint, LoadedMarks, MarkedFirst, OneAwaited
  <2> QED BY <2>8, <2>9 DEF Copies
<1> QED BY <1>3, <1>4

LEMMA UnlinkCopies ==
  ASSUME IInv, NEW r \in Runs, NEW ok \in BOOLEAN, Unlink(r, ok) PROVE Copies'
<1>1. /\ op.pc = "unlink" /\ r \in op.evict
      /\ Cleared(mem, op.evict) /\ \A h \in Stored : Cleared(h, op.evict)
      /\ UNCHANGED <<phase, nextId, mem, ack, saveq, disk>>
  BY DEF Unlink, First, IInv, Copies, MarkedFirst
<1>2. /\ op'.pc = "unlink" /\ op'.evict = op.evict /\ op'.todo \subseteq op.evict
  BY <1>1, Reliable DEF Unlink, Operation, IInv, Copies, MarkedFirst
<1>3. sidecar' = IF ok THEN [sidecar EXCEPT ![r] = NoFile] ELSE sidecar
  BY DEF Unlink
<1>4. Stored' = Stored /\ Unsettled' = Unsettled
  BY <1>1, <1>2 DEF Stored, Unsettled
<1>5. ASSUME NEW h \in Stored \cup {mem} PROVE Fit(h, sidecar', nextId, Unsettled)
  <2>1. Fit(h, sidecar, nextId, Unsettled) /\ (h[r].mark \/ ~h[r].out)
    BY <1>1, Reliable DEF AllFit, Cleared
  <2>2. sidecar \in [Runs -> Journal]
    BY Reliable DEF TypeOK
  <2>3. Fit(h, [sidecar EXCEPT ![r] = NoFile], nextId, Unsettled)
    BY <2>1, <2>2, Reliable, FitUnlinked
  <2> QED BY <1>3, <2>1, <2>3
<1>6. CopiesFit'
  BY <1>1, <1>4, <1>5 DEF CopiesFit, AllFit
<1>7. RestorePoint' /\ MarkedFirst' /\ OneAwaited' /\ LoadedMarks'
  BY <1>1, <1>2, <1>4
  DEF RestorePoint, MarkedFirst, OneAwaited, LoadedMarks, IInv, Copies
<1> QED BY <1>6, <1>7 DEF Copies

LEMMA RetireCopies == IInv /\ Retire => Copies'
<1> SUFFICES ASSUME IInv, Retire PROVE Copies'
  OBVIOUS
<1> DEFINE m == [r \in Runs |-> IF r \in op.evict \ op.failed THEN NoRun ELSE mem[r]]
           e == Snapshot(m, limit, TRUE)
<1>1. /\ op.pc = "unlink" /\ ack # "wait" /\ op'.pc = "phase2" /\ mem' = m
      /\ saveq' = Append(saveq, e) /\ ack' = "wait"
      /\ UNCHANGED <<phase, nextId, disk, sidecar>>
  BY Reliable DEF Retire, RequestSave, Operation, IInv, Copies, OneAwaited
<1>2. m \in History
  BY Reliable, NoRunType DEF History
<1>3. /\ e \in Snapshots /\ e.runs = Selected(m, limit)
  BY <1>2, Reliable, SnapshotType DEF Snapshot
<1>4. Running(m) \subseteq Running(mem)
  BY DEF Running, NoRun
<1>5. Fit(m, sidecar, nextId, Unsettled)
  BY Reliable DEF Fit, Readable, Sane, Unread, NoRun
<1>6. Unsettled' = Running(m)
  BY <1>1 DEF Unsettled
<1> HIDE DEF m, e
<1>7. Running(m) \subseteq Unsettled
  BY <1>4, Reliable
<1>8. Fit(m, sidecar, nextId, Running(m))
  BY <1>5, <1>7 DEF Fit, Unread
<1>9. Fit(e.runs, sidecar, nextId, Running(m))
  <2>1. Running(m) \in SUBSET Runs
    BY <1>7, Reliable
  <2> QED BY <1>2, <1>3, <1>8, <2>1, FitSelected
<1>10. /\ Stored' \subseteq Stored \cup {e.runs}
       /\ Len(saveq') = Len(saveq) + 1 /\ Len(saveq) \in Nat
       /\ \A i \in 1..Len(saveq) : saveq'[i] = saveq[i]
  <2>1. Len(saveq) \in Nat
    BY Reliable DEF TypeOK
  <2> QED BY <1>1, <1>3, <2>1, Reliable, Appended
<1>11. \A i \in 1..Len(saveq') : saveq'[i].own => i = Len(saveq) + 1
  BY <1>1, <1>10, NoneAwaited
<1>12. AllFit(sidecar, nextId, Running(m))
  BY <1>7, Reliable DEF AllFit, Fit, Unread
<1>13. CopiesFit'
  BY <1>1, <1>6, <1>8, <1>9, <1>10, <1>12 DEF CopiesFit, AllFit
<1>14. RestorePoint' /\ MarkedFirst' /\ OneAwaited' /\ LoadedMarks'
  BY <1>1, <1>11
  DEF RestorePoint, MarkedFirst, OneAwaited, LoadedMarks, IInv, Copies
<1> QED BY <1>13, <1>14 DEF Copies

LEMMA RetiredCopies == IInv /\ Retired => Copies'
<1> SUFFICES ASSUME IInv, Retired PROVE Copies'
  OBVIOUS
<1>1. /\ op.pc = "phase2" /\ ack # "wait" /\ phase # "down"
      /\ mem' = mem /\ UNCHANGED <<nextId, disk, sidecar>>
  BY DEF Retired, IInv, Copies, LoadedMarks
<1>2. PICK c \in BOOLEAN : Conclude(mem, limit, c)
  BY Reliable DEF Retired, Operation
<1>3. /\ Fit(mem, sidecar', nextId', Running(mem))
      /\ AllFit(sidecar', nextId', Running(mem))
  BY <1>1, FitRunning
<1> QED BY <1>1, <1>2, <1>3, Reliable, ConcludeCopies

LEMMA LoadBeginCopies == IInv /\ LoadBegin => Copies'
<1> SUFFICES ASSUME IInv, LoadBegin PROVE Copies'
  OBVIOUS
<1> DEFINE m == Selected(disk.runs, disk.limit)
<1>1. /\ saveq = <<>> /\ saveq' = <<>> /\ op.pc = "idle" /\ ack = "none" /\ ack' = "none"
      /\ phase' = "loading" /\ mem' = m /\ UNCHANGED <<nextId, disk, sidecar>>
  BY DEF LoadBegin, IInv, Copies, LoadedMarks, OneAwaited
<1>2. op'.pc = "pending" /\ op'.todo = Marked(m)
  BY NoOpType DEF LoadBegin, Operation
<1>3. disk.runs \in Stored /\ Stored = {disk.runs}
  BY <1>1 DEF Stored
<1>4. /\ m \in History /\ disk.runs \in History
      /\ \A r \in Runs : m[r] = disk.runs[r] \/ m[r] = NoRun
  BY <1>3, Reliable, SelectedType DEF Selected
<1> HIDE DEF m
<1>5. Fit(disk.runs, sidecar, nextId, Unsettled)
  BY <1>3, Reliable DEF AllFit
<1>6. Running(m) \subseteq Running(disk.runs) /\ Running(m) \in SUBSET Runs
  BY <1>4 DEF Running, NoRun
<1>7. Fit(disk.runs, sidecar, nextId, Running(m))
  BY <1>5, <1>6 DEF Fit, Unread, Sane, Running
<1>8. Fit(m, sidecar, nextId, Running(m))
  <2>1. NoRun.st = "absent" /\ ~NoRun.out
    BY DEF NoRun
  <2> QED BY <1>4, <1>7, <2>1 DEF Fit, Readable, Sane, Unread, Running
<1>9. CopiesFit'
  <2>1. Unsettled' = Running(m) /\ Stored' = {disk.runs}
    BY <1>1, <1>2, <1>3 DEF Unsettled, Stored
  <2> QED BY <1>1, <1>7, <1>8, <2>1 DEF CopiesFit, AllFit
<1>10. \A r \in Marked(m) : disk.runs[r].mark
  BY <1>4 DEF Marked, NoRun
<1>11. RestorePoint' /\ MarkedFirst' /\ OneAwaited' /\ LoadedMarks'
  BY <1>1, <1>2, <1>10 DEF RestorePoint, MarkedFirst, OneAwaited, LoadedMarks
<1> QED BY <1>9, <1>11 DEF Copies

LEMMA LoadUnlinkCopies ==
  ASSUME IInv, NEW r \in Runs, NEW ok \in BOOLEAN, LoadUnlink(r, ok) PROVE Copies'
<1>1. /\ op.pc = "pending" /\ r \in op.todo /\ saveq = <<>> /\ saveq' = <<>>
      /\ ack = "none" /\ ack' = "none" /\ phase = "loading"
      /\ disk.runs[r].mark /\ UNCHANGED <<phase, nextId, disk>>
  BY DEF LoadUnlink, First, IInv, Copies, LoadedMarks, OneAwaited
<1>2. op'.pc = "pending" /\ op'.todo \subseteq op.todo
  BY <1>1, Reliable DEF LoadUnlink, Operation
<1>3. /\ sidecar' = IF ok THEN [sidecar EXCEPT ![r] = NoFile] ELSE sidecar
      /\ mem' = IF ok THEN [mem EXCEPT ![r] = NoRun] ELSE mem
      /\ sidecar \in [Runs -> Journal] /\ mem \in History
  BY Reliable DEF LoadUnlink, TypeOK
<1>4. Stored = {disk.runs} /\ Stored' = {disk.runs}
  BY <1>1 DEF Stored
<1>5. /\ \A q \in Runs \ {r} : mem'[q] = mem[q]
      /\ mem'[r] = mem[r] \/ mem'[r] = NoRun
      /\ ok => mem'[r] = NoRun
  BY <1>3 DEF History
<1>6. Unsettled' \subseteq Unsettled
  BY <1>1, <1>2, <1>5 DEF Unsettled, Running, NoRun
<1>7. Fit(disk.runs, sidecar', nextId, Unsettled)
  <2>1. Fit(disk.runs, sidecar, nextId, Unsettled)
    BY <1>4, Reliable DEF AllFit
  <2>2. Fit(disk.runs, [sidecar EXCEPT ![r] = NoFile], nextId, Unsettled)
    BY <1>1, <1>3, <2>1, FitUnlinked
  <2> QED BY <1>3, <2>1, <2>2
<1>8. Fit(mem', sidecar', nextId, Unsettled)
  <2>1. ~NoRun.out /\ NoRun.st = "absent"
    BY DEF NoRun
  <2>2. \A q \in Runs \ {r} : sidecar'[q] = sidecar[q]
    BY <1>3
  <2>3. ~ok => sidecar' = sidecar /\ mem' = mem
    BY <1>3
  <2>4. CASE ok
    BY <1>5, <2>1, <2>2, <2>4, Reliable DEF Fit, Readable, Sane, Unread
  <2>5. CASE ~ok
    BY <2>3, <2>5, Reliable
  <2> QED BY <2>4, <2>5
<1>9. CopiesFit'
  BY <1>1, <1>4, <1>6, <1>7, <1>8 DEF CopiesFit, AllFit, Fit, Unread
<1>10. RestorePoint' /\ MarkedFirst' /\ OneAwaited' /\ LoadedMarks'
  BY <1>1, <1>2
  DEF RestorePoint, MarkedFirst, OneAwaited, LoadedMarks, IInv, Copies
<1> QED BY <1>9, <1>10 DEF Copies

(* A load recovers outcomes from journals that exist, and stops every run. *)
LEMMA ReconciledFits ==
  ASSUME IInv, NEW m \in History,
         \A r \in Runs : m[r] = Interrupt(Reconciled(mem[r], sidecar[r]))
  PROVE  Fit(m, sidecar, nextId, Running(m)) /\ Running(m) = {}
<1>1. ASSUME NEW r \in Runs
      PROVE  /\ m[r].st # "running"
             /\ mem[r].st = "absent" => m[r] = mem[r]
             /\ m[r].out /\ ~m[r].mark => sidecar[r] = [st |-> m[r].st, fin |-> m[r].fin]
  <2> DEFINE rec == mem[r]
             file == sidecar[r]
  <2>1. rec \in Record /\ file \in Journal
    BY Reliable DEF TypeOK, History
  <2>2. /\ rec.st = "running" => ~rec.out
        /\ rec.out /\ ~rec.mark => file = [st |-> rec.st, fin |-> rec.fin]
    BY Reliable DEF Fit, Sane, Readable
  <2>3. m[r] = Interrupt(Reconciled(rec, file))
    OBVIOUS
  <2> HIDE DEF rec, file
  <2>4. CASE rec.mark \/ rec.st = "absent"
    BY <2>1, <2>2, <2>3, <2>4 DEF Interrupt, Reconciled, Record, rec, file
  <2>5. CASE /\ ~(rec.mark \/ rec.st = "absent")
             /\ file.st # "absent"
             /\ rec.st = "running" \/ (rec.fin = file.fin /\ rec.st = file.st)
    <3>1. m[r] = [rec EXCEPT !.compl = FALSE, !.st = file.st, !.fin = file.fin, !.out = TRUE]
      BY <2>1, <2>3, <2>5 DEF Interrupt, Reconciled, Record, Journal, Terminal
    <3> QED BY <2>1, <2>5, <3>1 DEF Record, Journal, Terminal, rec, file
  <2>6. CASE /\ ~(rec.mark \/ rec.st = "absent")
             /\ ~(file.st # "absent"
                  /\ (rec.st = "running" \/ (rec.fin = file.fin /\ rec.st = file.st)))
    <3>1. m[r] = Interrupt([rec EXCEPT !.compl = FALSE])
      BY <2>3, <2>6 DEF Reconciled
    <3> QED BY <2>1, <2>2, <2>6, <3>1 DEF Interrupt, Record, rec, file
  <2> QED BY <2>4, <2>5, <2>6
<1>2. Running(m) = {}
  BY <1>1 DEF Running
<1>3. Sane(m, nextId)
  BY <1>1, Reliable DEF Fit, Sane
<1> QED BY <1>1, <1>2, <1>3 DEF Fit, Readable, Unread

LEMMA LoadReconcileCopies == IInv /\ LoadReconcile => Copies'
<1> SUFFICES ASSUME IInv, LoadReconcile PROVE Copies'
  OBVIOUS
<1> DEFINE m == [r \in Runs |-> Interrupt(Reconciled(mem[r], sidecar[r]))]
           changed == op.changed \/ m # mem
           S == Evictable(m, limit)
<1>1. /\ op.pc = "pending" /\ ack # "wait" /\ phase = "loading"
      /\ UNCHANGED <<nextId, disk, sidecar>>
  BY DEF LoadReconcile, IInv, Copies, OneAwaited, LoadedMarks
<1>2. m \in History
  BY Reliable, ReconciledType DEF TypeOK, History
<1>3. PICK c \in BOOLEAN : c = changed
  OBVIOUS
<1>4. \/ Retain("load", m, limit, S, m, limit, c) /\ UNCHANGED phase
      \/ mem' = m /\ Conclude(m, limit, c)
  BY <1>3 DEF LoadReconcile
<1>5. S \in SUBSET Runs
  BY EvictableType
<1>6. \A r \in Runs : m[r] = Interrupt(Reconciled(mem[r], sidecar[r]))
  OBVIOUS
<1> HIDE DEF m, changed, S
<1>7. Fit(m, sidecar, nextId, Running(m)) /\ Running(m) = {}
  BY <1>2, <1>6, ReconciledFits
<1>8. AllFit(sidecar, nextId, Running(m))
  BY <1>7, Reliable DEF AllFit, Fit, Unread
<1>9. Readable(m, sidecar') /\ Restores(m, m)
  BY <1>1, <1>7 DEF Fit, Restores
<1>10. Fit(m, sidecar', nextId', Running(m)) /\ AllFit(sidecar', nextId', Running(m))
  BY <1>1, <1>7, <1>8
<1>11. CASE Retain("load", m, limit, S, m, limit, c) /\ UNCHANGED phase
  BY <1>1, <1>2, <1>5, <1>9, <1>10, <1>11, Reliable, RetainCopies DEF Kinds
<1>12. CASE mem' = m /\ Conclude(m, limit, c)
  BY <1>1, <1>2, <1>10, <1>12, Reliable, ConcludeCopies
<1> QED BY <1>4, <1>11, <1>12

LEMMA LoadSavedCopies == IInv /\ LoadSaved => Copies'
<1> SUFFICES ASSUME IInv, LoadSaved PROVE Copies'
  OBVIOUS
<1>1. /\ op.pc = "loadsave" /\ ack # "wait" /\ op'.pc = "idle" /\ ack' = "none"
      /\ phase' = "up" /\ UNCHANGED <<nextId, mem, saveq, disk, sidecar>>
  BY NoOpType DEF LoadSaved
<1>2. Stored' = Stored /\ Unsettled' = Unsettled
  BY <1>1 DEF Stored, Unsettled
<1>3. CopiesFit'
  BY <1>1, <1>2, Reliable DEF CopiesFit, AllFit
<1>4. RestorePoint' /\ MarkedFirst' /\ OneAwaited' /\ LoadedMarks'
  BY <1>1, NoneAwaited DEF RestorePoint, MarkedFirst, OneAwaited, LoadedMarks
<1> QED BY <1>3, <1>4 DEF Copies

LEMMA CrashCopies == IInv /\ Crash => Copies'
<1> SUFFICES ASSUME IInv, Crash PROVE Copies'
  OBVIOUS
<1>1. /\ mem' = Empty /\ saveq' = <<>> /\ op'.pc = "idle" /\ ack' = "none"
      /\ UNCHANGED <<nextId, disk, sidecar>>
  BY NoOpType DEF Crash
<1>2. Stored' \subseteq Stored /\ Unsettled' = {}
  BY <1>1, Dropped, FitEmpty DEF Unsettled
<1>3. CopiesFit'
  BY <1>1, <1>2, Reliable, FitEmpty DEF CopiesFit, AllFit, Fit, Unread
<1>4. RestorePoint' /\ MarkedFirst' /\ OneAwaited' /\ LoadedMarks'
  BY <1>1 DEF RestorePoint, MarkedFirst, OneAwaited, LoadedMarks
<1> QED BY <1>3, <1>4 DEF Copies

LEMMA InitCopies == Init => Copies
<1> SUFFICES ASSUME Init PROVE Copies
  OBVIOUS
<1>1. Stored = {Empty} /\ Unsettled = {} /\ op.pc = "idle"
  BY NoOpType, FitEmpty DEF Init, Stored, Unsettled
<1>2. CopiesFit
  BY <1>1, FitEmpty DEF Init, CopiesFit, AllFit
<1>3. RestorePoint /\ MarkedFirst /\ OneAwaited /\ LoadedMarks
  BY <1>1 DEF Init, RestorePoint, MarkedFirst, OneAwaited, LoadedMarks
<1> QED BY <1>2, <1>3 DEF Copies

LEMMA StutterCopies == IInv /\ UNCHANGED vars => Copies'
<1> SUFFICES ASSUME IInv, UNCHANGED vars PROVE Copies'
  OBVIOUS
<1>1. Stored' = Stored /\ Unsettled' = Unsettled
  BY DEF vars, Stored, Unsettled
<1>2. CopiesFit'
  BY <1>1, Reliable DEF vars, CopiesFit, AllFit
<1>3. RestorePoint' /\ MarkedFirst' /\ OneAwaited' /\ LoadedMarks'
  BY <1>1
  DEF vars, RestorePoint, MarkedFirst, OneAwaited, LoadedMarks, IInv, Copies
<1> QED BY <1>2, <1>3 DEF Copies

LEMMA StepCopies == IInv /\ [Next]_vars => Copies'
  BY StartCopies, ClearCopies, SetLimitCopies, FinishCopies, IngestProgressCopies,
     OtherSaveCopies, LoadBeginCopies, CrashCopies, WriteCopies, JournalledCopies,
     UnlinkCopies, LoadUnlinkCopies, AcceptedCopies, RejectedCopies, RetireCopies,
     RetiredCopies, LoadReconcileCopies, LoadSavedCopies, StutterCopies
  DEF Next, Written, Resumed

LEMMA InitIInv == Init => IInv
  BY InitType, InitJournalling, InitCopies DEF IInv

LEMMA StepIInv == IInv /\ [Next]_vars => IInv'
  BY StepType, StepJournalling, StepCopies DEF IInv

(* Wherever the plugin stops and whichever saves fail, every output that   *)
(* data.json lists unmarked is on disk with the record's status and time.  *)
THEOREM OutputsReadable == Spec => []CommittedOutputReadable
<1>1. Init => IInv
  BY InitIInv
<1>2. IInv /\ [Next]_vars => IInv'
  BY StepIInv
<1>3. IInv => CommittedOutputReadable
  <2>1. disk.runs \in Stored
    BY DEF Stored
  <2> QED BY <2>1, Reliable DEF AllFit, Fit, Readable, CommittedOutputReadable
<1> QED BY <1>1, <1>2, <1>3, PTL DEF Spec

-----------------------------------------------------------------------------
(***************************************************************************)
(* Where the copies of the history come from: whatever is saved is the     *)
(* history in memory at that step, less the runs the selection drops.      *)
(***************************************************************************)
Derived(h, m) ==
  \A r \in Runs : h[r] = m[r] \/ (h[r].st = "absent" /\ ~h[r].mark)

LEMMA SelectedDerived == \A m, lim : Derived(Selected(m, lim), m)
  BY DEF Derived, Selected, NoRun

(* One step requests at most one save, of the history it leaves in memory. *)
LEMMA StepSaves ==
  ASSUME [Next]_vars
  PROVE  \/ saveq' = saveq /\ disk' = disk
         \/ (Crash \/ Rejected) /\ saveq' = <<>> /\ disk' = disk
         \/ Written
         \/ /\ \E own \in BOOLEAN : saveq' = Append(saveq, Snapshot(mem', limit', own))
            /\ disk' = disk
<1>1. ASSUME NEW kind, NEW m, NEW lim, NEW S, NEW orig, NEW orig_limit, NEW changed,
             Retain(kind, m, lim, S, orig, orig_limit, changed)
      PROVE  saveq' = Append(saveq, Snapshot(mem', limit', TRUE))
  BY <1>1 DEF Retain, RequestSave
<1>2. ASSUME NEW m, NEW lim, NEW changed, Conclude(m, lim, changed),
             mem' = m, limit' = lim
      PROVE  saveq' = saveq \/ saveq' = Append(saveq, Snapshot(mem', limit', TRUE))
  BY <1>2, Zenon DEF Conclude, RequestSave
<1>3. CASE Start
  BY <1>3, <1>1 DEF Start
<1>4. CASE Clear \/ \E lim \in Limits : SetLimit(lim)
  BY <1>4, <1>1 DEF Clear, SetLimit
<1>5. CASE \E r \in Runs : IngestProgress(r)
  BY <1>5, <1>1 DEF IngestProgress
<1>6. CASE \E r \in Runs, o \in Terminal : Finish(r, o)
  BY <1>6 DEF Finish
<1>7. CASE OtherSave
  BY <1>7 DEF OtherSave
<1>8. CASE LoadBegin \/ Crash \/ Rejected \/ LoadSaved
  BY <1>8 DEF LoadBegin, Crash, Rejected, LoadSaved
<1>9. CASE \E ok \in BOOLEAN : Journalled(ok)
  BY <1>9, <1>1 DEF Journalled
<1>10. CASE \E r \in Runs, ok \in BOOLEAN : Unlink(r, ok) \/ LoadUnlink(r, ok)
  BY <1>10 DEF Unlink, LoadUnlink
<1>11. CASE Accepted
  <2>1. UNCHANGED <<mem, limit, disk>>
    BY <1>11 DEF Accepted
  <2>2. saveq' = saveq \/ Conclude(mem, limit, op.changed)
    BY <1>11 DEF Accepted
  <2> QED BY <1>2, <2>1, <2>2
<1>12. CASE Retire
  BY <1>12 DEF Retire, RequestSave
<1>13. CASE Retired
  BY <1>13, <1>2 DEF Retired
<1>14. CASE LoadReconcile
  <2>1. disk' = disk
    BY <1>14 DEF LoadReconcile
  <2>2. \/ \E m, S, changed : Retain("load", m, limit, S, m, limit, changed)
        \/ \E m, changed : Conclude(m, limit, changed) /\ mem' = m /\ limit' = limit
    BY <1>14 DEF LoadReconcile
  <2> QED BY <1>1, <1>2, <2>1, <2>2
<1>15. CASE UNCHANGED vars
  BY <1>15 DEF vars
<1> QED
  BY <1>3, <1>4, <1>5, <1>6, <1>7, <1>8, <1>9, <1>10, <1>11, <1>12, <1>13,
     <1>14, <1>15
  DEF Next, Resumed

LEMMA StepStored ==
  ASSUME IInv, [Next]_vars
  PROVE  \A h \in Stored' : h \in Stored \/ Derived(h, mem')
<1>1. TypeOK /\ mem' \in History /\ limit' \in Limits
  BY StepType DEF IInv, TypeOK, History
<1>2. CASE (saveq' = saveq \/ saveq' = <<>>) /\ disk' = disk
  BY <1>2, Dropped
<1>3. CASE Written
  BY <1>1, <1>3, Popped DEF Written
<1>4. ASSUME NEW own \in BOOLEAN, disk' = disk,
             saveq' = Append(saveq, Snapshot(mem', limit', own))
      PROVE  \A h \in Stored' : h \in Stored \/ Derived(h, mem')
  <2> DEFINE e == Snapshot(mem', limit', own)
  <2>1. e \in Snapshots
    BY <1>1, SnapshotType
  <2>2. Derived(e.runs, mem')
    BY SelectedDerived DEF Snapshot
  <2> HIDE DEF e
  <2>3. saveq' = Append(saveq, e)
    BY <1>4 DEF e
  <2>4. Stored' \subseteq Stored \cup {e.runs}
    BY <1>1, <1>4, <2>1, <2>3, Appended
  <2> QED BY <2>2, <2>4
<1> QED BY <1>2, <1>3, <1>4, StepSaves

-----------------------------------------------------------------------------
(***************************************************************************)
(* SingleIngest, from the same statement about every copy a load may read. *)
(***************************************************************************)
OneIngest(h) ==
  \A r, q \in Ingest : h[r].st = "running" /\ h[q].st = "running" => r = q

Exclusive == OneIngest(mem) /\ \A h \in Stored : OneIngest(h)

(* A run is only ever set running by its start.                            *)
LEMMA StepRunning ==
  ASSUME IInv, [Next]_vars
  PROVE  \/ Running(mem') \subseteq Running(mem)
         \/ Running(mem') \subseteq Running(disk.runs)
         \/ Start /\ Running(mem') \subseteq Running(mem) \cup {nextId}
<1>0. mem \in History
  BY Reliable
<1>1. ASSUME NEW kind, NEW m \in History, NEW lim, NEW S \in SUBSET Runs, NEW orig,
             NEW orig_limit, NEW changed,
             Retain(kind, m, lim, S, orig, orig_limit, changed)
      PROVE  Running(mem') \subseteq Running(m)
  BY <1>1, MarkAllFields DEF Retain, Running
<1>2. CASE Start
  <2> DEFINE m == [mem EXCEPT ![nextId] = [NoRun EXCEPT !.st = "running"]]
             S == IF nextId \in Sourced THEN {} ELSE Evictable(m, limit)
  <2>1. m \in History /\ Running(m) \subseteq Running(mem) \cup {nextId}
    BY <1>0, <1>2, NoRunType DEF Start, History, Record, Status, Running
  <2>2. S \in SUBSET Runs
    BY EvictableType
  <2>3. Retain("start", m, limit, S, mem, limit, FALSE)
    BY <1>2 DEF Start
  <2> HIDE DEF m, S
  <2> QED BY <1>1, <1>2, <2>1, <2>2, <2>3
<1>3. CASE Clear
  <2>1. Retain("clear", mem, limit, {r \in Present(mem) : mem[r].st # "running"},
               mem, limit, FALSE)
    BY <1>3 DEF Clear
  <2>2. {r \in Present(mem) : mem[r].st # "running"} \in SUBSET Runs
    BY DEF Present
  <2> QED BY <1>0, <1>1, <2>1, <2>2
<1>4. CASE \E lim \in Limits : SetLimit(lim)
  BY <1>0, <1>1, <1>4, EvictableType DEF SetLimit
<1>5. CASE \E r \in Runs : IngestProgress(r)
  <2>1. Retain("progress", mem, limit, {}, mem, limit, FALSE)
    BY <1>5 DEF IngestProgress
  <2> QED BY <1>0, <1>1, <2>1
<1>6. CASE \E r \in Runs, o \in Terminal : Finish(r, o)
  BY <1>0, <1>6 DEF Finish, Running, History, Terminal
<1>7. CASE OtherSave \/ LoadSaved \/ Accepted \/ Retired \/ Written
  BY <1>7 DEF OtherSave, LoadSaved, Accepted, Retired, Written, Write
<1>8. CASE LoadBegin
  BY <1>8 DEF LoadBegin, Running, Selected, NoRun
<1>9. CASE Crash
  BY <1>9 DEF Crash, Running, Empty, NoRun
<1>10. CASE \E ok \in BOOLEAN : Journalled(ok)
  <2> PICK ok \in BOOLEAN : Journalled(ok)
    BY <1>10
  <2> DEFINE r == op.run
             m == [mem EXCEPT ![r].out = ok, ![r].compl = FALSE]
             S == IF r \in Sourced THEN {} ELSE Evictable(m, limit)
  <2>1. r \in Runs
    BY DEF Journalled, Journalling, IInv
  <2>2. m \in History /\ Running(m) \subseteq Running(mem)
    BY <1>0, <2>1 DEF History, Record, Running
  <2>3. S \in SUBSET Runs
    BY EvictableType
  <2>4. Retain("finish", m, limit, S, m, limit, FALSE)
    BY DEF Journalled
  <2> HIDE DEF m, S, r
  <2> QED BY <1>1, <2>2, <2>3, <2>4
<1>11. CASE \E r \in Runs, ok \in BOOLEAN : Unlink(r, ok)
  BY <1>11 DEF Unlink
<1>12. CASE \E r \in Runs, ok \in BOOLEAN : LoadUnlink(r, ok)
  BY <1>0, <1>12 DEF LoadUnlink, Running, History, NoRun
<1>13. CASE Rejected
  <2>1. CASE op.kind = "load"
    BY <1>13, <2>1 DEF Rejected, Running, Empty, NoRun
  <2>2. CASE op.kind # "load"
    <3>1. mem' = op.orig /\ op.pc = "phase1"
      BY <1>13, <2>2 DEF Rejected, IInv, Copies, LoadedMarks
    <3> QED BY <3>1 DEF IInv, Copies, RestorePoint, Restores, Running
  <2> QED BY <2>1, <2>2
<1>14. CASE Retire
  BY <1>0, <1>14 DEF Retire, Running, NoRun
<1>15. CASE LoadReconcile
  <2> DEFINE m == [r \in Runs |-> Interrupt(Reconciled(mem[r], sidecar[r]))]
             changed == op.changed \/ m # mem
  <2>1. m \in History
    BY Reliable, ReconciledType DEF TypeOK, History
  <2>2. \A r \in Runs : m[r] = Interrupt(Reconciled(mem[r], sidecar[r]))
    OBVIOUS
  <2>3. \/ Retain("load", m, limit, Evictable(m, limit), m, limit, changed)
        \/ mem' = m
    BY <1>15 DEF LoadReconcile
  <2> HIDE DEF m, changed
  <2>4. Running(m) = {}
    BY <2>1, <2>2, ReconciledFits
  <2> QED BY <1>1, <2>1, <2>3, <2>4, EvictableType
<1>16. CASE UNCHANGED vars
  BY <1>16 DEF vars
<1> QED
  BY <1>2, <1>3, <1>4, <1>5, <1>6, <1>7, <1>8, <1>9, <1>10, <1>11, <1>12, <1>13,
     <1>14, <1>15, <1>16
  DEF Next, Resumed

LEMMA StepExclusive == IInv /\ Exclusive /\ [Next]_vars => Exclusive'
<1> SUFFICES ASSUME IInv, Exclusive, [Next]_vars PROVE Exclusive'
  OBVIOUS
<1>0. Ingest \subseteq Runs /\ disk.runs \in Stored
  BY HistoryAssumption DEF Stored
<1>1. ASSUME NEW h, NEW k, OneIngest(h), Running(k) \subseteq Running(h)
      PROVE  OneIngest(k)
  BY <1>0, <1>1 DEF OneIngest, Running
<1>2. OneIngest(mem')
  <2>1. CASE Start /\ Running(mem') \subseteq Running(mem) \cup {nextId}
    BY <1>0, <2>1 DEF Exclusive, OneIngest, Running, Start
  <2> QED BY <1>0, <1>1, <2>1, StepRunning DEF Exclusive
<1>3. ASSUME NEW h \in Stored' PROVE OneIngest(h)
  <2>1. h \in Stored \/ Derived(h, mem')
    BY StepStored
  <2>2. Derived(h, mem') => Running(h) \subseteq Running(mem')
    BY DEF Derived, Running
  <2> QED BY <1>1, <1>2, <2>1, <2>2 DEF Exclusive
<1> QED BY <1>2, <1>3 DEF Exclusive

(* Two windows never have a paper intake running at once, whatever has     *)
(* crashed, failed or been reloaded: startTaskRun checks inside the queue, *)
(* and no copy of the history that a load may read lists two of them.      *)
THEOREM IngestIsExclusive == Spec => []SingleIngest
<1>1. Init => IInv /\ Exclusive
  <2> SUFFICES ASSUME Init PROVE IInv /\ Exclusive
    OBVIOUS
  <2>1. Ingest \subseteq Runs /\ mem = Empty /\ \A h \in Stored : h = Empty
    BY HistoryAssumption DEF Init, Stored
  <2> QED BY <2>1, InitIInv DEF Exclusive, OneIngest, Empty, NoRun
<1>2. IInv /\ Exclusive /\ [Next]_vars => IInv' /\ Exclusive'
  BY StepIInv, StepExclusive
<1>3. Exclusive => SingleIngest
  BY DEF Exclusive, OneIngest, SingleIngest
<1> QED BY <1>1, <1>2, <1>3, PTL DEF Spec

-----------------------------------------------------------------------------
(***************************************************************************)
(* OutcomeAgrees, from what a completion journal has in common with every  *)
(* copy of the history that lists its run as settled.                      *)
(***************************************************************************)
Faithful(h, files) ==
  \A r \in Runs : h[r].st \in Terminal /\ ~h[r].mark /\ files[r].st # "absent"
                    => h[r].st = files[r].st

Outcomes ==
  /\ Faithful(mem, sidecar) /\ \A h \in Stored : Faithful(h, sidecar)
  /\ op.pc = "phase1" => Faithful(op.orig, sidecar)
  /\ \A r \in Running(mem), h \in Stored : h[r].st \in {"absent", "running"}
  /\ op.pc = "sidecar" =>
       \A h \in Stored : h[op.run].st \in {"absent", "running", mem[op.run].st}
  /\ op.pc # "pending" => \A r \in Running(mem) : sidecar[r].st = "absent"
  /\ \A r \in Runs : r >= nextId => sidecar[r].st = "absent"

(* A step that writes no journal and settles no run.                       *)
LEMMA QuietOutcomes ==
  ASSUME IInv, Outcomes, [Next]_vars, nextId' = nextId,
         \A r \in Runs : sidecar'[r] = sidecar[r] \/ sidecar'[r].st = "absent",
         \A r \in Runs : \/ mem'[r].st = "absent"
                         \/ mem'[r].st = mem[r].st /\ (mem[r].mark => mem'[r].mark),
         op'.pc = "sidecar" => op.pc = "sidecar" /\ op'.run = op.run /\ mem' = mem,
         op'.pc = "pending" \/ op.pc # "pending" \/ Running(mem') = {},
         op'.pc = "phase1" => \/ op.pc = "phase1" /\ op'.orig = op.orig
                              \/ op'.orig = mem
  PROVE  Outcomes'
<1>1. ASSUME NEW h, Faithful(h, sidecar) PROVE Faithful(h, sidecar')
  BY <1>1 DEF Faithful
<1>2. Faithful(mem', sidecar')
  <2>1. Faithful(mem', sidecar)
    BY DEF Outcomes, Faithful, Terminal
  <2> QED BY <1>1, <2>1
<1>3. ASSUME NEW h, Derived(h, mem'), Faithful(mem', sidecar')
      PROVE  Faithful(h, sidecar')
  BY <1>3 DEF Derived, Faithful, Terminal
<1>4. \A h \in Stored' : Faithful(h, sidecar')
  BY <1>1, <1>2, <1>3, StepStored DEF Outcomes
<1>5. op'.pc = "phase1" => Faithful(op'.orig, sidecar')
  BY <1>1 DEF Outcomes
<1>6. Running(mem') \subseteq Running(mem)
  BY DEF Running
<1>7. ASSUME NEW r \in Running(mem'), NEW h \in Stored'
      PROVE  h[r].st \in {"absent", "running"}
  <2>1. CASE h \in Stored
    BY <1>6, <2>1 DEF Outcomes
  <2>2. CASE Derived(h, mem')
    BY <2>2 DEF Derived, Running
  <2> QED BY <2>1, <2>2, StepStored
<1>8. ASSUME op'.pc = "sidecar", NEW h \in Stored'
      PROVE  h[op'.run].st \in {"absent", "running", mem'[op'.run].st}
  <2>1. op'.run \in Runs
    BY <1>8 DEF IInv, Journalling
  <2>2. CASE h \in Stored
    BY <1>8, <2>2 DEF Outcomes
  <2>3. CASE Derived(h, mem')
    BY <2>1, <2>3 DEF Derived
  <2> QED BY <2>2, <2>3, StepStored
<1>9. op'.pc # "pending" => \A r \in Running(mem') : sidecar'[r].st = "absent"
  <2>1. \A r \in Running(mem') : r \in Runs
    BY DEF Running
  <2> QED BY <1>6, <2>1 DEF Outcomes
<1>10. \A r \in Runs : r >= nextId' => sidecar'[r].st = "absent"
  BY DEF Outcomes
<1> QED BY <1>2, <1>4, <1>5, <1>7, <1>8, <1>9, <1>10 DEF Outcomes

(* A save that marks what it evicts keeps every status and every mark.     *)
LEMMA RetainFields ==
  ASSUME NEW kind, NEW m \in History, NEW lim, NEW S \in SUBSET Runs, NEW orig,
         NEW orig_limit, NEW changed,
         Retain(kind, m, lim, S, orig, orig_limit, changed)
  PROVE  /\ op'.pc = "phase1" /\ op'.orig = orig /\ op'.evict = S
         /\ \A r \in Runs : /\ mem'[r].st = m[r].st
                            /\ m[r].mark => mem'[r].mark
                            /\ mem'[r].mark => m[r].mark \/ r \in S
<1>1. op'.pc = "phase1" /\ op'.orig = orig /\ op'.evict = S
  BY NoOpType DEF Retain, Operation
<1>2. mem' = MarkAll(m, S)
  BY DEF Retain
<1>3. ASSUME NEW r \in Runs
      PROVE  /\ mem'[r].st = m[r].st
             /\ m[r].mark => mem'[r].mark
             /\ mem'[r].mark => m[r].mark \/ r \in S
  <2>1. mem'[r].st = m[r].st /\ mem'[r].mark = (m[r].mark \/ r \in S)
    BY <1>2, MarkAllFields
  <2> QED BY <2>1, Zenon
<1> QED BY <1>1, <1>3

(* The same, of the history as it is.                                      *)
LEMMA RetainOutcomes ==
  ASSUME IInv, Outcomes, [Next]_vars, Idle, NEW kind, NEW lim,
         NEW S \in SUBSET Runs, Retain(kind, mem, lim, S, mem, limit, FALSE),
         UNCHANGED <<nextId, sidecar>>
  PROVE  Outcomes'
<1>1. op'.pc = "phase1" /\ op'.orig = mem
  BY Reliable, RetainFields
<1>2. \A r \in Runs : mem'[r].st = mem[r].st /\ (mem[r].mark => mem'[r].mark)
  BY Reliable, RetainFields
<1>3. op.pc # "pending"
  BY DEF Idle
<1> QED BY <1>1, <1>2, <1>3, QuietOutcomes

LEMMA StartOutcomes == IInv /\ Outcomes /\ Start => Outcomes'
<1> SUFFICES ASSUME IInv, Outcomes, Start PROVE Outcomes'
  OBVIOUS
<1> DEFINE m == [mem EXCEPT ![nextId] = [NoRun EXCEPT !.st = "running"]]
           S == IF nextId \in Sourced THEN {} ELSE Evictable(m, limit)
<1>0. [Next]_vars
  BY DEF Next
<1>1. /\ mem \in History /\ nextId \in Runs /\ nextId \in Nat /\ nextId' = nextId + 1
      /\ UNCHANGED <<disk, sidecar>>
  BY Reliable DEF Start
<1>2. m \in History /\ \A r \in Runs \ {nextId} : m[r] = mem[r]
  BY <1>1, NoRunType DEF History, Record, Status
<1>2r. m[nextId].st = "running"
  BY <1>1 DEF History, NoRun
<1>3. S \in SUBSET Runs
  BY EvictableType
<1>4. Retain("start", m, limit, S, mem, limit, FALSE)
  BY DEF Start
<1> HIDE DEF m, S
<1>5. op'.pc = "phase1" /\ op'.orig = mem
  BY <1>4, NoOpType DEF Retain, Operation
<1>6. /\ \A r \in Runs \ {nextId} : /\ mem'[r].st = mem[r].st
                                    /\ mem[r].mark => mem'[r].mark
      /\ mem'[nextId].st = "running"
  <2>1. \A r \in Runs : mem'[r].st = m[r].st /\ (m[r].mark => mem'[r].mark)
    <3>1. m \in History
      BY <1>2
    <3> QED BY <1>3, <1>4, <3>1, RetainFields
  <2> QED BY <1>1, <1>2, <1>2r, <2>1
<1>7. sidecar[nextId].st = "absent" /\ \A h \in Stored : h[nextId].st = "absent"
  BY <1>1, Reliable DEF Outcomes, AllFit, Fit, Sane
<1>8. Faithful(mem', sidecar)
  BY <1>6 DEF Outcomes, Faithful, Terminal
<1>9. \A h \in Stored' : Faithful(h, sidecar)
  BY <1>0, <1>8, StepStored DEF Outcomes, Derived, Faithful, Terminal
<1>10. ASSUME NEW r \in Running(mem'), NEW h \in Stored'
       PROVE  h[r].st \in {"absent", "running"}
  <2>1. r \in Runs /\ mem'[r].st = "running"
    BY DEF Running
  <2>2. CASE h \in Stored
    BY <1>6, <1>7, <2>1, <2>2 DEF Outcomes, Running
  <2>3. CASE Derived(h, mem')
    BY <2>1, <2>3 DEF Derived
  <2> QED BY <1>0, <2>2, <2>3, StepStored
<1>11. \A r \in Running(mem') : sidecar[r].st = "absent"
  BY <1>6, <1>7 DEF Outcomes, Running, Start, Idle
<1>12. \A r \in Runs : r >= nextId' => sidecar[r].st = "absent"
  <2>1. \A r \in Runs : r \in Nat
    BY HistoryAssumption DEF Runs
  <2> QED BY <1>1, <2>1 DEF Outcomes
<1> QED BY <1>1, <1>5, <1>8, <1>9, <1>10, <1>11, <1>12 DEF Outcomes

LEMMA FinishOutcomes ==
  ASSUME IInv, Outcomes, NEW r \in Runs, NEW o \in Terminal, Finish(r, o)
  PROVE  Outcomes'
<1>0. [Next]_vars
  BY DEF Next
<1>1. /\ op.pc = "idle" /\ mem[r].st = "running" /\ mem \in History
      /\ UNCHANGED <<nextId, disk, saveq, sidecar>>
  BY Reliable DEF Finish, Idle
<1>2. op'.pc = "sidecar" /\ op'.run = r
  BY NoOpType DEF Finish, Operation
<1>3. mem'[r].st = o /\ \A q \in Runs \ {r} : mem'[q] = mem[q]
  BY <1>1 DEF Finish, History
<1>4. Stored' = Stored
  BY <1>1 DEF Stored
<1>5. sidecar[r].st = "absent" /\ \A h \in Stored : h[r].st \in {"absent", "running"}
  BY <1>1 DEF Outcomes, Running
<1>6. Faithful(mem', sidecar)
  BY <1>3, <1>5 DEF Outcomes, Faithful
<1>7. Running(mem') \subseteq Running(mem)
  BY <1>3 DEF Running, Terminal
<1>8. \A q \in Running(mem'), h \in Stored : h[q].st \in {"absent", "running"}
  BY <1>7 DEF Outcomes
<1>9. \A q \in Running(mem') : sidecar[q].st = "absent"
  BY <1>1, <1>7 DEF Outcomes
<1> QED BY <1>1, <1>2, <1>4, <1>5, <1>6, <1>8, <1>9 DEF Outcomes

LEMMA JournalledOutcomes ==
  ASSUME IInv, Outcomes, NEW ok \in BOOLEAN, Journalled(ok) PROVE Outcomes'
<1> DEFINE r == op.run
           m == [mem EXCEPT ![r].out = ok, ![r].compl = FALSE]
           S == IF r \in Sourced THEN {} ELSE Evictable(m, limit)
           j == [st |-> mem[r].st, fin |-> mem[r].fin]
<1>0. [Next]_vars
  BY DEF Next, Resumed
<1>1. /\ op.pc = "sidecar" /\ r \in Runs /\ mem[r].st \in Terminal
      /\ mem \in History /\ nextId' = nextId /\ disk' = disk
      /\ sidecar \in [Runs -> Journal]
  BY Reliable DEF Journalled, IInv, Journalling, TypeOK
<1>2. /\ m \in History
      /\ \A q \in Runs : m[q].st = mem[q].st /\ m[q].mark = mem[q].mark
  <2>1. m = [mem EXCEPT ![r] = [mem[r] EXCEPT !.out = ok, !.compl = FALSE]]
    BY <1>1 DEF History, Record
  <2>2. /\ [mem[r] EXCEPT !.out = ok, !.compl = FALSE] \in Record
        /\ [mem[r] EXCEPT !.out = ok, !.compl = FALSE].st = mem[r].st
        /\ [mem[r] EXCEPT !.out = ok, !.compl = FALSE].mark = mem[r].mark
    BY <1>1 DEF History, Record
  <2> HIDE DEF m
  <2> QED BY <1>1, <2>1, <2>2 DEF History
<1>3. S \in SUBSET Runs
  BY EvictableType
<1>4. Retain("finish", m, limit, S, m, limit, FALSE)
  BY DEF Journalled
<1>5. sidecar' = sidecar \/ sidecar' = [sidecar EXCEPT ![r] = j]
  BY DEF Journalled
<1>6. \A q \in Runs : \/ sidecar'[q] = sidecar[q]
                      \/ q = r /\ sidecar'[q].st = mem[r].st
  BY <1>1, <1>5
<1>7. ~(r >= nextId)
  BY <1>1, Reliable DEF Fit, Sane, Terminal
<1>8. \A h \in Stored : h[r].st \in {"absent", "running", mem[r].st}
  BY <1>1 DEF Outcomes
<1> HIDE DEF m, S, j, r
<1>9. op'.pc = "phase1" /\ op'.orig = m
  BY <1>4, NoOpType DEF Retain, Operation
<1>10. \A q \in Runs : mem'[q].st = mem[q].st /\ (mem[q].mark => mem'[q].mark)
  BY <1>2, <1>3, <1>4, RetainFields
<1>11. Faithful(m, sidecar') /\ Faithful(mem', sidecar')
  BY <1>2, <1>6, <1>10 DEF Outcomes, Faithful
<1>12. \A h \in Stored : Faithful(h, sidecar')
  BY <1>6, <1>8 DEF Outcomes, Faithful, Terminal
<1>13. \A h \in Stored' : Faithful(h, sidecar')
  BY <1>0, <1>11, <1>12, StepStored DEF Derived, Faithful, Terminal
<1>14. Running(mem') = Running(mem) /\ r \notin Running(mem) /\ Running(mem) \subseteq Runs
  BY <1>1, <1>10 DEF Running, Terminal
<1>15. ASSUME NEW q \in Running(mem'), NEW h \in Stored'
       PROVE  h[q].st \in {"absent", "running"}
  <2>1. q \in Runs /\ mem'[q].st = "running"
    BY DEF Running
  <2>2. CASE h \in Stored
    BY <1>14, <2>2 DEF Outcomes
  <2>3. CASE Derived(h, mem')
    BY <2>1, <2>3 DEF Derived
  <2> QED BY <1>0, <2>2, <2>3, StepStored
<1>16. \A q \in Running(mem') : sidecar'[q].st = "absent"
  BY <1>1, <1>6, <1>14 DEF Outcomes
<1>17. \A q \in Runs : q >= nextId' => sidecar'[q].st = "absent"
  BY <1>1, <1>6, <1>7 DEF Outcomes
<1> QED BY <1>9, <1>11, <1>13, <1>15, <1>16, <1>17 DEF Outcomes

LEMMA RejectedOutcomes == IInv /\ Outcomes /\ Rejected => Outcomes'
<1> SUFFICES ASSUME IInv, Outcomes, Rejected PROVE Outcomes'
  OBVIOUS
<1>0. [Next]_vars
  BY DEF Next, Resumed
<1>1. op'.pc = "idle" /\ op.pc # "pending" /\ UNCHANGED <<nextId, sidecar>>
  BY NoOpType DEF Rejected
<1>2. CASE op.kind = "load"
  <2>1. \A r \in Runs : mem'[r].st = "absent"
    BY <1>2 DEF Rejected, Empty, NoRun
  <2> QED BY <1>0, <1>1, <2>1, QuietOutcomes
<1>3. CASE op.kind # "load"
  <2>1. mem' = op.orig /\ op.pc = "phase1" /\ UNCHANGED <<saveq, disk>>
    BY <1>3 DEF Rejected, IInv, Copies, LoadedMarks
  <2>2. Stored' = Stored
    BY <2>1 DEF Stored
  <2>3. Running(mem') \subseteq Running(mem)
    BY <2>1 DEF IInv, Copies, RestorePoint, Restores, Running
  <2>4. Faithful(mem', sidecar)
    BY <2>1 DEF Outcomes
  <2>5. \A q \in Running(mem'), h \in Stored : h[q].st \in {"absent", "running"}
    BY <2>3 DEF Outcomes
  <2>6. \A q \in Running(mem') : sidecar[q].st = "absent"
    BY <1>1, <2>3 DEF Outcomes
  <2> QED BY <1>1, <2>2, <2>4, <2>5, <2>6 DEF Outcomes
<1> QED BY <1>2, <1>3

LEMMA LoadBeginOutcomes == IInv /\ Outcomes /\ LoadBegin => Outcomes'
<1> SUFFICES ASSUME IInv, Outcomes, LoadBegin PROVE Outcomes'
  OBVIOUS
<1>1. /\ saveq = <<>> /\ UNCHANGED <<nextId, saveq, disk, sidecar>>
      /\ mem' = Selected(disk.runs, disk.limit)
  BY DEF LoadBegin, IInv, Copies, LoadedMarks
<1>2. op'.pc = "pending"
  BY NoOpType DEF LoadBegin, Operation
<1>3. Stored = {disk.runs} /\ Stored' = Stored
  BY <1>1 DEF Stored
<1>4. \A r \in Runs : mem'[r] = disk.runs[r] \/ mem'[r].st = "absent"
  BY <1>1 DEF Selected, NoRun
<1>5. Faithful(mem', sidecar)
  BY <1>3, <1>4 DEF Outcomes, Faithful, Terminal
<1>6. \A q \in Running(mem'), h \in Stored : h[q].st \in {"absent", "running"}
  BY <1>3, <1>4 DEF Running
<1> QED BY <1>1, <1>2, <1>3, <1>5, <1>6 DEF Outcomes

(* A load lets the journal win over a record that is still running, and    *)
(* keeps a settled one, which agrees with its journal already.             *)
LEMMA LoadReconcileOutcomes == IInv /\ Outcomes /\ LoadReconcile => Outcomes'
<1> SUFFICES ASSUME IInv, Outcomes, LoadReconcile PROVE Outcomes'
  OBVIOUS
<1> DEFINE m == [r \in Runs |-> Interrupt(Reconciled(mem[r], sidecar[r]))]
           changed == op.changed \/ m # mem
           S == Evictable(m, limit)
<1>0. [Next]_vars
  BY DEF Next, Resumed
<1>1. UNCHANGED <<nextId, disk, sidecar>>
  BY DEF LoadReconcile
<1>2. m \in History
  BY Reliable, ReconciledType DEF TypeOK, History
<1>3. \A r \in Runs : m[r] = Interrupt(Reconciled(mem[r], sidecar[r]))
  OBVIOUS
<1>4. \/ Retain("load", m, limit, S, m, limit, changed)
      \/ mem' = m /\ Conclude(m, limit, changed)
  BY DEF LoadReconcile
<1> HIDE DEF m, changed
<1>5. Running(m) = {}
  BY <1>2, <1>3, ReconciledFits
<1>6. Faithful(m, sidecar)
  <2> SUFFICES ASSUME NEW r \in Runs, m[r].st \in Terminal, ~m[r].mark,
                      sidecar[r].st # "absent"
               PROVE  m[r].st = sidecar[r].st
    BY DEF Faithful
  <2> DEFINE rec == mem[r]
             file == sidecar[r]
  <2>1. rec \in Record /\ file \in Journal
    BY Reliable DEF TypeOK, History
  <2>2. rec.st \in Terminal /\ ~rec.mark => rec.st = file.st
    BY DEF Outcomes, Faithful
  <2>3. m[r] = Interrupt(Reconciled(rec, file))
    BY <1>3
  <2> HIDE DEF rec
  <2>4. CASE rec.mark \/ rec.st = "absent"
    BY <2>1, <2>3, <2>4 DEF Interrupt, Reconciled, Record, Terminal
  <2>5. CASE ~(rec.mark \/ rec.st = "absent") /\ rec.st = "running"
    <3>1. m[r] = [rec EXCEPT !.compl = FALSE, !.st = file.st, !.fin = file.fin, !.out = TRUE]
      BY <2>1, <2>3, <2>5 DEF Interrupt, Reconciled, Record, Journal, Terminal
    <3> QED BY <2>1, <3>1 DEF Record
  <2>6. CASE ~rec.mark /\ rec.st \in Terminal
    BY <2>1, <2>2, <2>3, <2>6 DEF Interrupt, Reconciled, Record, Terminal
  <2> QED BY <2>1, <2>4, <2>5, <2>6 DEF Record, Status
<1>7. \A r \in Runs : mem'[r].st = m[r].st /\ (m[r].mark => mem'[r].mark)
  BY <1>2, <1>4, EvictableType, RetainFields
<1>8. Faithful(mem', sidecar)
  BY <1>6, <1>7 DEF Faithful
<1>9. Running(mem') = {}
  BY <1>5, <1>7 DEF Running
<1>10. op'.pc # "sidecar" /\ (op'.pc = "phase1" => op'.orig = m)
  <2>1. \/ Retain("load", m, limit, S, m, limit, changed)
        \/ op' = [NoOp EXCEPT !.kind = "load", !.pc = "loadsave"]
        \/ op' = NoOp
    BY <1>4, Zenon DEF Conclude
  <2> QED BY <2>1, NoOpType DEF Retain, Operation
<1>11. \A h \in Stored' : Faithful(h, sidecar)
  BY <1>0, <1>8, StepStored DEF Outcomes, Derived, Faithful, Terminal
<1> QED BY <1>1, <1>6, <1>8, <1>9, <1>10, <1>11 DEF Outcomes

LEMMA StepOutcomes == IInv /\ Outcomes /\ [Next]_vars => Outcomes'
<1> SUFFICES ASSUME IInv, Outcomes, [Next]_vars PROVE Outcomes'
  OBVIOUS
<1>0. mem \in History
  BY Reliable
<1>1. CASE Clear
  <2> DEFINE S == {r \in Present(mem) : mem[r].st # "running"}
  <2>1. S \in SUBSET Runs
    BY DEF Present
  <2>2. Retain("clear", mem, limit, S, mem, limit, FALSE)
    BY <1>1 DEF Clear
  <2> HIDE DEF S
  <2> QED BY <1>1, <2>1, <2>2, RetainOutcomes DEF Clear
<1>2. CASE \E lim \in Limits : SetLimit(lim)
  BY <1>2, EvictableType, RetainOutcomes DEF SetLimit
<1>3. CASE \E r \in Runs : IngestProgress(r)
  <2>1. Retain("progress", mem, limit, {}, mem, limit, FALSE)
    BY <1>3 DEF IngestProgress
  <2>2. {} \in SUBSET Runs
    OBVIOUS
  <2> QED BY <1>3, <2>1, <2>2, RetainOutcomes DEF IngestProgress
<1>4. CASE OtherSave \/ Written
  BY <1>4, QuietOutcomes DEF OtherSave, Written, Write
<1>5. CASE Accepted \/ Retired
  <2>1. /\ op.pc \in {"phase1", "phase2"} /\ UNCHANGED <<nextId, mem, sidecar>>
        /\ \/ Conclude(mem, limit, op.changed)
           \/ op' = [op EXCEPT !.pc = "unlink", !.todo = op.evict]
    BY <1>5 DEF Accepted, Retired
  <2>2. \/ op' = [NoOp EXCEPT !.kind = "load", !.pc = "loadsave"] \/ op' = NoOp
        \/ op' = [op EXCEPT !.pc = "unlink", !.todo = op.evict]
    BY <2>1, Zenon DEF Conclude
  <2>3. op'.pc \in {"loadsave", "idle", "unlink"}
    BY <2>2, NoOpType, Reliable DEF Operation
  <2> QED BY <2>1, <2>3, QuietOutcomes
<1>6. CASE LoadSaved
  BY <1>6, NoOpType, QuietOutcomes DEF LoadSaved
<1>7. CASE Crash
  <2>1. \A r \in Runs : mem'[r].st = "absent"
    BY <1>7 DEF Crash, Empty, NoRun
  <2>2. Running(mem') = {}
    BY <2>1 DEF Running
  <2> QED BY <1>7, <2>1, <2>2, NoOpType, QuietOutcomes DEF Crash
<1>8. CASE \E r \in Runs, ok \in BOOLEAN : Unlink(r, ok) \/ LoadUnlink(r, ok)
  <2> PICK r \in Runs, ok \in BOOLEAN : Unlink(r, ok) \/ LoadUnlink(r, ok)
    BY <1>8
  <2>1. op'.pc = op.pc /\ op.pc \in {"unlink", "pending"} /\ nextId' = nextId
    BY Reliable DEF Unlink, LoadUnlink, Operation
  <2>2. sidecar' = sidecar \/ sidecar' = [sidecar EXCEPT ![r] = NoFile]
    BY DEF Unlink, LoadUnlink
  <2>3. \A q \in Runs : sidecar'[q] = sidecar[q] \/ sidecar'[q].st = "absent"
    BY <2>2, Reliable DEF TypeOK, NoFile
  <2>4. mem' = mem \/ mem' = [mem EXCEPT ![r] = NoRun]
    BY DEF Unlink, LoadUnlink
  <2>5. \A q \in Runs : mem'[q] = mem[q] \/ mem'[q].st = "absent"
    BY <1>0, <2>4 DEF History, NoRun
  <2> QED BY <2>1, <2>3, <2>5, QuietOutcomes
<1>9. CASE Retire
  <2>1. op.pc = "unlink" /\ op'.pc = "phase2" /\ UNCHANGED <<nextId, sidecar>>
    BY <1>9, Reliable DEF Retire, Operation
  <2>2. \A q \in Runs : mem'[q] = mem[q] \/ mem'[q].st = "absent"
    BY <1>9 DEF Retire, NoRun
  <2> QED BY <2>1, <2>2, QuietOutcomes
<1>10. CASE UNCHANGED vars
  BY <1>10, QuietOutcomes DEF vars
<1> QED
  BY <1>1, <1>2, <1>3, <1>4, <1>5, <1>6, <1>7, <1>8, <1>9, <1>10, StartOutcomes,
     FinishOutcomes, JournalledOutcomes, RejectedOutcomes, LoadBeginOutcomes,
     LoadReconcileOutcomes
  DEF Next, Resumed

LEMMA InitOutcomes == Init => Outcomes
<1> SUFFICES ASSUME Init PROVE Outcomes
  OBVIOUS
<1>1. mem = Empty /\ (\A h \in Stored : h = Empty) /\ op.pc = "idle"
  BY NoOpType DEF Init, Stored
<1>2. Running(Empty) = {} /\ \A f : Faithful(Empty, f)
  BY DEF Running, Faithful, Empty, NoRun, Terminal
<1>3. \A r \in Runs : sidecar[r].st = "absent"
  BY DEF Init, NoFile
<1> QED BY <1>1, <1>2, <1>3 DEF Outcomes

(* The dashboard never shows an outcome that the completion journal of the *)
(* run, and so the recovery of a later load, would contradict.             *)
THEOREM OutcomesAgree == Spec => []OutcomeAgrees
<1>1. Init => IInv /\ Outcomes
  BY InitIInv, InitOutcomes
<1>2. IInv /\ Outcomes /\ [Next]_vars => IInv' /\ Outcomes'
  BY StepIInv, StepOutcomes
<1>3. IInv /\ Outcomes => OutcomeAgrees
  <2> SUFFICES ASSUME IInv, Outcomes, phase = "up", NEW r \in Runs,
                      sidecar[r].st # "absent", mem[r].st # "absent", ~mem[r].mark
               PROVE  sidecar[r].st = mem[r].st
    BY DEF OutcomeAgrees
  <2>1. op.pc # "pending"
    BY DEF IInv, Copies, LoadedMarks
  <2>2. mem[r].st \in Terminal
    <3>1. mem[r].st \in Status
      BY Reliable DEF History, Record
    <3>2. mem[r].st # "running"
      BY <2>1 DEF Outcomes, Running
    <3> QED BY <3>1, <3>2 DEF Status
  <2> QED BY <2>2 DEF Outcomes, Faithful
<1> QED BY <1>1, <1>2, <1>3, PTL DEF Spec

-----------------------------------------------------------------------------
(***************************************************************************)
(* UnlinkIsOrdered, where data.json can be written: every marker, wherever *)
(* it is, is durable already or belongs to the retention at work, and then *)
(* the save that carries its order is ahead of it in the queue.            *)
(***************************************************************************)
Ordering ==
  /\ \A r \in Marked(disk.runs) : r \in ordered
  /\ \A j \in 1..Len(saveq) : \A r \in Marked(saveq[j].runs) :
       \/ r \in ordered
       \/ op.pc = "phase1" /\ r \in op.evict /\ \E i \in 1..j : saveq[i].own
  /\ \A r \in Marked(mem) : r \in ordered \/ (op.pc = "phase1" /\ r \in op.evict)
  /\ op.pc = "unlink" \/ (op.pc = "phase1" /\ ack = "ok") => op.evict \subseteq ordered
  /\ op.pc = "phase1" => ack # "none"
  /\ ack = "wait" => \E i \in 1..Len(saveq) : saveq[i].own
  /\ ack # "err"

(* What a save puts at the end of the queue: an awaited one carries the    *)
(* order of every marker that is not durable yet, and any other comes      *)
(* after such a one.                                                       *)
LEMMA AppendedOrdering ==
  ASSUME IInv, Ordering, [Next]_vars, NEW lim, NEW own \in BOOLEAN,
         saveq' = Append(saveq, Snapshot(mem', lim, own)), lim \in Limits,
         disk' = disk, ordered' = ordered,
         own = FALSE => op'.pc = op.pc /\ op'.evict = op.evict /\ ack' = ack,
         own = TRUE => ack' = "wait" /\ ack # "wait" /\ (op.pc = "phase1" => op.evict \subseteq ordered),
         op'.pc = "phase1" => op.pc # "phase1" \/ own = FALSE,
         op'.pc = "unlink" => op'.evict \subseteq ordered,
         \A r \in Marked(mem') : r \in ordered \/ (op'.pc = "phase1" /\ r \in op'.evict)
  PROVE  Ordering'
<1> DEFINE e == Snapshot(mem', lim, own)
<1>1. TypeOK /\ mem' \in History
  BY StepType DEF IInv, TypeOK, History
<1>2. e \in Snapshots /\ e.own = own /\ Derived(e.runs, mem')
  BY <1>1, SnapshotType, SelectedDerived DEF Snapshot
<1> HIDE DEF e
<1>3. /\ Len(saveq') = Len(saveq) + 1 /\ Len(saveq) \in Nat
      /\ \A i \in 1..Len(saveq) : saveq'[i] = saveq[i]
      /\ saveq'[Len(saveq) + 1] = e
  <2>1. saveq' = Append(saveq, e)
    BY DEF e
  <2>2. Len(saveq) \in Nat
    BY <1>1 DEF TypeOK
  <2> QED BY <1>1, <1>2, <2>1, <2>2, Appended
<1>4. \A i \in 1..Len(saveq') : i \in 1..Len(saveq) \/ i = Len(saveq) + 1
  BY <1>3
<1>5. \A r \in Marked(e.runs) : r \in Marked(mem')
  BY <1>2 DEF Marked, Derived
<1>6. ack' = "wait" => \E i \in 1..Len(saveq') : saveq'[i].own
  <2>1. CASE own = TRUE
    <3>1. Len(saveq) + 1 \in 1..Len(saveq')
      BY <1>3
    <3> QED BY <1>2, <1>3, <2>1, <3>1
  <2>2. CASE own = FALSE /\ ack' = "wait"
    <3>1. PICK i \in 1..Len(saveq) : saveq[i].own
      BY <2>2 DEF Ordering
    <3> QED BY <1>3, <3>1
  <2> QED BY <2>1, <2>2
<1>7. ASSUME NEW j \in 1..Len(saveq'), NEW r \in Marked(saveq'[j].runs)
      PROVE  \/ r \in ordered
             \/ op'.pc = "phase1" /\ r \in op'.evict /\ \E i \in 1..j : saveq'[i].own
  <2>1. CASE j = Len(saveq) + 1
    <3>1. r \in ordered \/ (op'.pc = "phase1" /\ r \in op'.evict)
      BY <1>3, <1>5, <1>7, <2>1
    <3>2. CASE own = TRUE
      <4>1. saveq'[j].own /\ j \in 1..j
        BY <1>2, <1>3, <2>1, <3>2
      <4> QED BY <3>1, <4>1
    <3>3. CASE own = FALSE /\ op'.pc = "phase1" /\ r \notin ordered
      <4>1. op.pc = "phase1" /\ op'.evict = op.evict /\ r \in op.evict /\ ack = ack'
        BY <3>1, <3>3
      <4>2. ack = "wait"
        BY <1>1, <3>3, <4>1 DEF Ordering, TypeOK
      <4>3. PICK i \in 1..Len(saveq) : saveq[i].own
        BY <4>2 DEF Ordering
      <4>4. i \in 1..j /\ saveq'[i].own
        BY <1>3, <2>1, <4>3
      <4> QED BY <3>1, <3>3, <4>4
    <3> QED BY <3>1, <3>2, <3>3
  <2>2. CASE j \in 1..Len(saveq)
    <3>1. saveq'[j] = saveq[j] /\ \A i \in 1..j : saveq'[i] = saveq[i]
      BY <1>3, <2>2
    <3>2. \/ r \in ordered
          \/ op.pc = "phase1" /\ r \in op.evict /\ \E i \in 1..j : saveq[i].own
      BY <1>7, <2>2, <3>1 DEF Ordering
    <3>3. CASE own = TRUE
      BY <3>2, <3>3
    <3>4. CASE own = FALSE
      BY <3>1, <3>2, <3>4
    <3> QED BY <3>3, <3>4
  <2> QED BY <1>4, <2>1, <2>2
<1>8. /\ (op'.pc = "unlink" \/ (op'.pc = "phase1" /\ ack' = "ok")
             => op'.evict \subseteq ordered)
      /\ (op'.pc = "phase1" => ack' # "none") /\ ack' # "err"
  BY DEF Ordering
<1> QED BY <1>6, <1>7, <1>8 DEF Ordering

(* A step that leaves the save queue alone, or loses it.                   *)
LEMMA QuietOrdering ==
  ASSUME Ordering, disk' = disk, ordered' = ordered,
         saveq' = saveq \/ saveq' = <<>>,
         op'.pc \notin {"phase1", "unlink"} \/ (op'.pc = "unlink" /\ op'.evict \subseteq ordered),
         ack' = "none",
         op.pc = "phase1" /\ saveq' # <<>> => op.evict \subseteq ordered,
         \A r \in Marked(mem') : r \in ordered
  PROVE  Ordering'
<1>1. ASSUME NEW j \in 1..Len(saveq'), NEW r \in Marked(saveq'[j].runs)
      PROVE  r \in ordered
  <2>1. saveq' = saveq /\ saveq' # <<>>
    OBVIOUS
  <2> QED BY <1>1, <2>1 DEF Ordering
<1>2. \A r \in Marked(disk.runs) : r \in ordered
  BY DEF Ordering
<1> QED BY <1>1, <1>2 DEF Ordering

LEMMA WriteOrdering ==
  ASSUME IInv, Ordering, NEW ok \in BOOLEAN, Write(ok), ok PROVE Ordering'
<1>1. TypeOK /\ OneAwaited
  BY DEF IInv, Copies
<1>2. /\ Len(saveq) \in Nat \ {0} /\ Len(saveq') = Len(saveq) - 1
      /\ \A i \in 1..Len(saveq') : saveq'[i] = saveq[i + 1]
      /\ Head(saveq) = saveq[1]
  BY <1>1, Popped
<1>3. /\ UNCHANGED <<mem, op>> /\ disk'.runs = saveq[1].runs
      /\ ack' = IF saveq[1].own THEN "ok" ELSE ack
      /\ ordered' = IF saveq[1].own /\ op.pc = "phase1"
                    THEN ordered \cup op.evict ELSE ordered
  BY <1>2 DEF Write
<1>4. \A i \in 1..Len(saveq') : i + 1 \in 1..Len(saveq)
  BY <1>2
<1>5. ordered \subseteq ordered'
  BY <1>3
<1>6. \A r \in Marked(disk'.runs) : r \in ordered'
  <2>1. 1 \in 1..Len(saveq) /\ \A i \in 1..1 : i = 1
    BY <1>2
  <2> QED BY <1>3, <2>1 DEF Ordering
<1>7. ASSUME NEW j \in 1..Len(saveq'), NEW r \in Marked(saveq'[j].runs)
      PROVE  \/ r \in ordered'
             \/ op'.pc = "phase1" /\ r \in op'.evict /\ \E i \in 1..j : saveq'[i].own
  <2>1. r \in Marked(saveq[j + 1].runs) /\ j + 1 \in 1..Len(saveq)
    BY <1>2, <1>4, <1>7
  <2>2. CASE r \in ordered
    BY <1>5, <2>2
  <2>3. CASE r \notin ordered
    <3>1. /\ op.pc = "phase1" /\ r \in op.evict
          /\ \E i \in 1..(j + 1) : saveq[i].own
      BY <2>1, <2>3 DEF Ordering
    <3>2. PICK i \in 1..(j + 1) : saveq[i].own
      BY <3>1
    <3>3. CASE i = 1
      BY <1>3, <3>1, <3>2, <3>3
    <3>4. CASE i # 1
      <4>1. i - 1 \in 1..j /\ i - 1 \in 1..Len(saveq') /\ (i - 1) + 1 = i
        BY <1>2, <3>4
      <4>2. saveq'[i - 1].own
        BY <1>2, <3>2, <4>1
      <4> QED BY <1>3, <3>1, <4>1, <4>2
    <3> QED BY <3>3, <3>4
  <2> QED BY <2>2, <2>3
<1>8. \A r \in Marked(mem') : r \in ordered' \/ (op'.pc = "phase1" /\ r \in op'.evict)
  BY <1>3, <1>5 DEF Ordering
<1>9. op'.pc = "unlink" \/ (op'.pc = "phase1" /\ ack' = "ok") => op'.evict \subseteq ordered'
  BY <1>3, <1>5 DEF Ordering
<1>10. /\ op'.pc = "phase1" => ack' # "none"
       /\ ack' # "err"
  BY <1>3 DEF Ordering
<1>11. ack' = "wait" => \E i \in 1..Len(saveq') : saveq'[i].own
  <2> SUFFICES ASSUME ack' = "wait" PROVE \E i \in 1..Len(saveq') : saveq'[i].own
    OBVIOUS
  <2>1. ~saveq[1].own /\ ack = "wait"
    BY <1>3
  <2>2. PICK i \in 1..Len(saveq) : saveq[i].own
    BY <2>1 DEF Ordering
  <2>3. i - 1 \in 1..Len(saveq') /\ (i - 1) + 1 = i
    BY <1>2, <2>1, <2>2
  <2> QED BY <1>2, <2>2, <2>3
<1> QED BY <1>6, <1>7, <1>8, <1>9, <1>10, <1>11 DEF Ordering

(* The retention of a history whose markers are all durable.               *)
LEMMA RetainOrdering ==
  ASSUME IInv, Ordering, [Next]_vars, op.pc # "phase1", ack # "wait",
         disk' = disk, ordered' = ordered,
         NEW kind, NEW m \in History, NEW lim \in Limits, NEW S \in SUBSET Runs,
         NEW orig, NEW orig_limit, NEW changed,
         Retain(kind, m, lim, S, orig, orig_limit, changed),
         \A r \in Marked(m) : r \in ordered
  PROVE  Ordering'
<1>1. op'.pc = "phase1" /\ op'.evict = S
  BY RetainFields
<1>2. \A r \in Marked(mem') : r \in ordered \/ r \in S
  BY RetainFields DEF Marked
<1>3. ack' = "wait" /\ saveq' = Append(saveq, Snapshot(mem', lim, TRUE))
  BY DEF Retain, RequestSave
<1>4. PICK own \in BOOLEAN : own = TRUE /\ saveq' = Append(saveq, Snapshot(mem', lim, own))
  BY <1>3
<1> QED BY <1>1, <1>2, <1>3, <1>4, AppendedOrdering

(* The end of an operation whose markers are all durable.                  *)
LEMMA ConcludeOrdering ==
  ASSUME IInv, Ordering, [Next]_vars, ack # "wait", disk' = disk, ordered' = ordered,
         NEW m, NEW lim \in Limits, NEW changed, Conclude(m, lim, changed), mem' = m,
         op.pc = "phase1" => op.evict \subseteq ordered,
         \A r \in Marked(m) : r \in ordered
  PROVE  Ordering'
<1>1. CASE op.kind = "load" /\ changed
  <2>1. /\ saveq' = Append(saveq, Snapshot(mem', lim, TRUE)) /\ ack' = "wait"
        /\ op'.pc = "loadsave"
    BY <1>1, NoOpType DEF Conclude, RequestSave, Operation
  <2>2. PICK own \in BOOLEAN : own = TRUE /\ saveq' = Append(saveq, Snapshot(mem', lim, own))
    BY <2>1
  <2> QED BY <2>1, <2>2, AppendedOrdering
<1>2. CASE ~(op.kind = "load" /\ changed)
  <2>1. op'.pc = "idle" /\ ack' = "none" /\ saveq' = saveq
    BY <1>2, NoOpType DEF Conclude
  <2> QED BY <2>1, QuietOrdering
<1> QED BY <1>1, <1>2

LEMMA StepOrdering == ~SaveFaults /\ IInv /\ Ordering /\ [Next]_vars => Ordering'
<1> SUFFICES ASSUME ~SaveFaults, IInv, Ordering, [Next]_vars PROVE Ordering'
  OBVIOUS
<1>0. /\ mem \in History /\ limit \in Limits /\ op \in Operation
      /\ op.pc # "phase1" => \A r \in Marked(mem) : r \in ordered
      /\ Idle => op.pc # "phase1" /\ ack # "wait"
  BY Reliable DEF Ordering, Idle, IInv, Copies, OneAwaited
<1>1. CASE Start
  <2> DEFINE m == [mem EXCEPT ![nextId] = [NoRun EXCEPT !.st = "running"]]
             S == IF nextId \in Sourced THEN {} ELSE Evictable(m, limit)
  <2>1. m \in History /\ \A r \in Marked(m) : r \in Marked(mem)
    BY <1>0, <1>1, NoRunType DEF Start, History, Record, Status, Marked, NoRun
  <2>2. S \in SUBSET Runs
    BY EvictableType
  <2>3. Retain("start", m, limit, S, mem, limit, FALSE) /\ Idle /\ UNCHANGED <<disk, ordered>>
    BY <1>1 DEF Start
  <2> HIDE DEF m, S
  <2> QED BY <1>0, <2>1, <2>2, <2>3, RetainOrdering
<1>2. CASE Clear
  <2> DEFINE S == {r \in Present(mem) : mem[r].st # "running"}
  <2>1. S \in SUBSET Runs
    BY DEF Present
  <2>2. Retain("clear", mem, limit, S, mem, limit, FALSE) /\ Idle /\ UNCHANGED <<disk, ordered>>
    BY <1>2 DEF Clear
  <2> HIDE DEF S
  <2> QED BY <1>0, <2>1, <2>2, RetainOrdering
<1>3. CASE \E lim \in Limits : SetLimit(lim)
  BY <1>0, <1>3, EvictableType, RetainOrdering DEF SetLimit
<1>4. CASE \E r \in Runs : IngestProgress(r)
  <2>1. /\ Retain("progress", mem, limit, {}, mem, limit, FALSE) /\ Idle
        /\ UNCHANGED <<disk, ordered>>
    BY <1>4 DEF IngestProgress
  <2>2. {} \in SUBSET Runs
    OBVIOUS
  <2> QED BY <1>0, <2>1, <2>2, RetainOrdering
<1>5. CASE \E r \in Runs, o \in Terminal : Finish(r, o)
  <2> PICK r \in Runs, o \in Terminal : Finish(r, o)
    BY <1>5
  <2>1. /\ op.pc = "idle" /\ ack = "none" /\ UNCHANGED <<disk, ordered, saveq, ack>>
    BY DEF Finish, Idle, IInv, Copies, OneAwaited
  <2>2. op'.pc = "sidecar"
    BY NoOpType DEF Finish, Operation
  <2>3. \A q \in Marked(mem') : q \in Marked(mem)
    BY <1>0 DEF Finish, Marked, History
  <2> QED BY <1>0, <2>1, <2>2, <2>3, QuietOrdering
<1>6. CASE OtherSave
  <2>1. /\ saveq' = Append(saveq, Snapshot(mem', limit, FALSE))
        /\ UNCHANGED <<mem, op, ack, disk, ordered>> /\ phase = "up"
    BY <1>6 DEF OtherSave
  <2>2. PICK own \in BOOLEAN : own = FALSE /\ saveq' = Append(saveq, Snapshot(mem', limit, own))
    BY <2>1
  <2> QED BY <1>0, <2>1, <2>2, AppendedOrdering DEF Ordering
<1>7. CASE LoadBegin
  <2>1. op'.pc = "pending" /\ UNCHANGED <<disk, ordered, saveq, ack>> /\ ack = "none"
    BY <1>7, NoOpType DEF LoadBegin, Operation, IInv, Copies, LoadedMarks, OneAwaited
  <2>2. op.pc = "idle"
    BY <1>7 DEF LoadBegin, IInv, Copies, LoadedMarks
  <2>3. \A r \in Marked(mem') : r \in Marked(disk.runs)
    BY <1>7 DEF LoadBegin, Marked, Selected, NoRun
  <2> QED BY <2>1, <2>2, <2>3, QuietOrdering DEF Ordering
<1>8. CASE Crash
  <2>1. op'.pc = "idle" /\ UNCHANGED <<disk, ordered>> /\ saveq' = <<>> /\ ack' = "none"
    BY <1>8, NoOpType DEF Crash
  <2>2. Marked(mem') = {}
    BY <1>8 DEF Crash, Marked, Empty, NoRun
  <2> QED BY <2>1, <2>2, QuietOrdering
<1>9. CASE Written
  <2> PICK ok \in BOOLEAN : Write(ok)
    BY <1>9 DEF Written
  <2>1. ok
    BY DEF Write
  <2> QED BY <2>1, WriteOrdering
<1>10. CASE \E ok \in BOOLEAN : Journalled(ok)
  <2> PICK ok \in BOOLEAN : Journalled(ok)
    BY <1>10
  <2> DEFINE r == op.run
             m == [mem EXCEPT ![r].out = ok, ![r].compl = FALSE]
             S == IF r \in Sourced THEN {} ELSE Evictable(m, limit)
  <2>1. r \in Runs /\ op.pc = "sidecar" /\ ack # "wait" /\ UNCHANGED <<disk, ordered>>
    BY DEF Journalled, Journalling, IInv, Copies, OneAwaited
  <2>2. m \in History /\ Marked(m) = Marked(mem)
    BY <1>0, <2>1 DEF History, Record, Marked
  <2>3. S \in SUBSET Runs
    BY EvictableType
  <2>4. Retain("finish", m, limit, S, m, limit, FALSE)
    BY DEF Journalled
  <2> HIDE DEF m, S, r
  <2> QED BY <1>0, <2>1, <2>2, <2>3, <2>4, RetainOrdering
<1>11. CASE \E r \in Runs, ok \in BOOLEAN : Unlink(r, ok)
  <2> PICK r \in Runs, ok \in BOOLEAN : Unlink(r, ok)
    BY <1>11
  <2>1. /\ op.pc = "unlink" /\ ack = "none" /\ op'.pc = "unlink" /\ op'.evict = op.evict
        /\ UNCHANGED <<mem, ack, saveq, disk, ordered>>
    BY <1>0 DEF Unlink, IInv, Copies, OneAwaited, Operation
  <2> QED BY <1>0, <2>1, QuietOrdering DEF Ordering
<1>12. CASE \E r \in Runs, ok \in BOOLEAN : LoadUnlink(r, ok)
  <2> PICK r \in Runs, ok \in BOOLEAN : LoadUnlink(r, ok)
    BY <1>12
  <2>1. /\ op.pc = "pending" /\ ack = "none" /\ op'.pc = "pending"
        /\ UNCHANGED <<ack, saveq, disk, ordered>>
    BY <1>0 DEF LoadUnlink, IInv, Copies, OneAwaited, Operation
  <2>2. \A q \in Marked(mem') : q \in Marked(mem)
    BY <1>0 DEF LoadUnlink, Marked, History, NoRun
  <2> QED BY <1>0, <2>1, <2>2, QuietOrdering
<1>13. CASE Accepted
  <2>1. /\ op.pc = "phase1" /\ ack = "ok" /\ op.evict \subseteq ordered
        /\ UNCHANGED <<mem, disk, ordered>>
        /\ \A r \in Marked(mem) : r \in ordered
    BY <1>13 DEF Accepted, Ordering
  <2>2. CASE op.evict = {} /\ op.kind # "clear"
    <3>1. Conclude(mem, limit, op.changed)
      BY <1>13, <2>2 DEF Accepted
    <3> QED BY <1>0, <2>1, <3>1, ConcludeOrdering
  <2>3. CASE ~(op.evict = {} /\ op.kind # "clear")
    <3>1. /\ op'.pc = "unlink" /\ op'.evict = op.evict /\ ack' = "none" /\ saveq' = saveq
      BY <1>0, <1>13, <2>3 DEF Accepted, Operation
    <3> QED BY <2>1, <3>1, QuietOrdering
  <2> QED BY <2>2, <2>3
<1>14. CASE Rejected
  BY <1>14 DEF Rejected, Ordering
<1>15. CASE Retire
  <2>1. /\ op.pc = "unlink" /\ ack = "none" /\ op'.pc = "phase2"
        /\ UNCHANGED <<disk, ordered>> /\ ack' = "wait"
        /\ saveq' = Append(saveq, Snapshot(mem', limit, TRUE))
    BY <1>0, <1>15 DEF Retire, RequestSave, IInv, Copies, OneAwaited, Operation
  <2>2. \A q \in Marked(mem') : q \in Marked(mem)
    BY <1>15 DEF Retire, Marked, NoRun
  <2>3. PICK own \in BOOLEAN : own = TRUE /\ saveq' = Append(saveq, Snapshot(mem', limit, own))
    BY <2>1
  <2> QED BY <1>0, <2>1, <2>2, <2>3, AppendedOrdering
<1>16. CASE Retired
  <2>1. /\ op.pc = "phase2" /\ ack # "wait" /\ UNCHANGED <<mem, disk, ordered>>
        /\ Conclude(mem, limit, op.changed)
    BY <1>16 DEF Retired
  <2> QED BY <1>0, <2>1, ConcludeOrdering
<1>17. CASE LoadReconcile
  <2> DEFINE m == [r \in Runs |-> Interrupt(Reconciled(mem[r], sidecar[r]))]
             changed == op.changed \/ m # mem
             S == Evictable(m, limit)
  <2>1. /\ op.pc = "pending" /\ ack # "wait" /\ UNCHANGED <<disk, ordered>>
    BY <1>17 DEF LoadReconcile, IInv, Copies, OneAwaited
  <2>2. m \in History
    BY Reliable, ReconciledType DEF TypeOK, History
  <2>3. ASSUME NEW r \in Marked(m) PROVE r \in Marked(mem)
    <3>1. mem[r] \in Record /\ r \in Runs
      BY <1>0 DEF Marked, History
    <3>2. m[r].mark = mem[r].mark
      BY <3>1 DEF Reconciled, Interrupt, Record
    <3> QED BY <3>1, <3>2 DEF Marked
  <2>4. \/ Retain("load", m, limit, S, m, limit, changed)
        \/ mem' = m /\ Conclude(m, limit, changed)
    BY <1>17 DEF LoadReconcile
  <2> HIDE DEF m, changed
  <2>5. CASE Retain("load", m, limit, S, m, limit, changed)
    BY <1>0, <2>1, <2>2, <2>3, <2>5, EvictableType, RetainOrdering
  <2>6. CASE mem' = m /\ Conclude(m, limit, changed)
    BY <1>0, <2>1, <2>3, <2>6, ConcludeOrdering
  <2> QED BY <2>4, <2>5, <2>6
<1>18. CASE LoadSaved
  <2>1. /\ op.pc = "loadsave" /\ op'.pc = "idle" /\ ack' = "none"
        /\ UNCHANGED <<mem, disk, ordered, saveq>>
    BY <1>18, NoOpType DEF LoadSaved
  <2> QED BY <1>0, <2>1, QuietOrdering
<1>19. CASE UNCHANGED vars
  BY <1>19 DEF vars, Ordering
<1> QED
  BY <1>1, <1>2, <1>3, <1>4, <1>5, <1>6, <1>7, <1>8, <1>9, <1>10, <1>11, <1>12,
     <1>13, <1>14, <1>15, <1>16, <1>17, <1>18, <1>19
  DEF Next, Resumed

LEMMA InitOrdering == Init => Ordering
<1> SUFFICES ASSUME Init PROVE Ordering
  OBVIOUS
<1>1. mem = Empty /\ disk.runs = Empty /\ saveq = <<>> /\ op.pc = "idle" /\ ack = "none"
  BY NoOpType DEF Init
<1>2. Marked(Empty) = {}
  BY DEF Marked, Empty, NoRun
<1> QED BY <1>1, <1>2 DEF Ordering

(* A step that takes an output away takes away one whose deletion was      *)
(* ordered.                                                                *)
LEMMA StepUnlinks ==
  ASSUME IInv, Ordering, [Next]_vars, NEW r \in Runs,
         sidecar[r].st # "absent", sidecar'[r].st = "absent"
  PROVE  r \in ordered
<1>0. sidecar \in [Runs -> Journal] /\ sidecar' # sidecar
  BY Reliable DEF TypeOK
<1>1. CASE \E q \in Runs, ok \in BOOLEAN : Unlink(q, ok)
  <2> PICK q \in Runs, ok \in BOOLEAN : Unlink(q, ok)
    BY <1>1
  <2>1. r = q
    BY <1>0 DEF Unlink
  <2>2. op.pc = "unlink" /\ q \in op.evict
    BY DEF Unlink, First, IInv, Copies, MarkedFirst
  <2> QED BY <2>1, <2>2 DEF Ordering
<1>2. CASE \E q \in Runs, ok \in BOOLEAN : LoadUnlink(q, ok)
  <2> PICK q \in Runs, ok \in BOOLEAN : LoadUnlink(q, ok)
    BY <1>2
  <2>1. r = q
    BY <1>0 DEF LoadUnlink
  <2>2. q \in Marked(disk.runs)
    BY DEF LoadUnlink, First, IInv, Copies, LoadedMarks, Marked
  <2> QED BY <2>1, <2>2 DEF Ordering
<1>3. CASE \E ok \in BOOLEAN : Journalled(ok)
  <2>1. op.pc = "sidecar" /\ op.run \in Runs /\ mem[op.run].st \in Terminal
    BY <1>3 DEF Journalled, IInv, Journalling
  <2>2. sidecar' = [sidecar EXCEPT ![op.run] = [st |-> mem[op.run].st, fin |-> mem[op.run].fin]]
    BY <1>0, <1>3 DEF Journalled
  <2>3. sidecar'[r] = sidecar[r] \/ sidecar'[r].st \in Terminal
    BY <1>0, <2>1, <2>2
  <2> QED BY <2>3 DEF Terminal
<1>4. \/ \E q \in Runs, ok \in BOOLEAN : Unlink(q, ok) \/ LoadUnlink(q, ok)
      \/ \E ok \in BOOLEAN : Journalled(ok)
  BY <1>0 DEF Next, Resumed, Written, vars, Start, Clear, SetLimit, Finish, IngestProgress,
     OtherSave, LoadBegin, Crash, Write, Accepted, Rejected, Retire, Retired,
     LoadReconcile, LoadSaved
<1> QED BY <1>1, <1>2, <1>3, <1>4

(* Where data.json can be written, no step deletes an output before the    *)
(* marker that orders its deletion is durable through the operation that   *)
(* wants it gone, however saves, mutations and restarts interleave.        *)
THEOREM UnlinksAreOrdered == ASSUME ~SaveFaults PROVE Spec => UnlinkIsOrdered
<1> DEFINE Safe == \A r \in Runs : sidecar[r].st # "absent" /\ sidecar'[r].st = "absent"
                                    => r \in ordered
<1>1. Init => IInv /\ Ordering
  BY InitIInv, InitOrdering
<1>2. IInv /\ Ordering /\ [Next]_vars => IInv' /\ Ordering'
  BY StepIInv, StepOrdering
<1>3. IInv /\ Ordering /\ [Next]_vars => [Safe]_vars
  BY StepUnlinks
<1>4. Spec => [][Safe]_vars
  BY <1>1, <1>2, <1>3, PTL DEF Spec
<1> QED BY <1>4 DEF UnlinkIsOrdered

-----------------------------------------------------------------------------
(***************************************************************************)
(* JournalRecoverable and ImplementsLedger, where data.json can be written *)
(* and a run bound to a source finds room.  The start of such a run marks  *)
(* nothing, since startTaskRun gives it a limit above every count          *)
(* (plugin.ts:2514), but createPersistenceSnapshot cuts data.json at the   *)
(* configured one: over a full history the next save drops a run that      *)
(* nobody has marked, as it does after a save that failed, and neither     *)
(* property holds.                                                         *)
(***************************************************************************)
RoomForSource ==
  Start /\ nextId \in Sourced =>
    Evictable([mem EXCEPT ![nextId] = [NoRun EXCEPT !.st = "running"]], limit) = {}

(* A history that a save writes as it is: the selection drops none of it.  *)
Whole(m, lim) ==
  \A r \in Present(m) : r \in Newest(Present(m), lim) \/ Exceptional(m, r)

CopiesWhole ==
  /\ Whole(mem, limit) /\ Whole(disk.runs, disk.limit)
  /\ \A i \in 1..Len(saveq) : Whole(saveq[i].runs, saveq[i].limit)

LEMMA PresentFinite ==
  ASSUME NEW m
  PROVE  /\ Present(m) \subseteq Runs /\ IsFiniteSet(Present(m))
         /\ Cardinality(Present(m)) \in Nat
<1>1. Present(m) \subseteq Runs
  BY DEF Present
<1>2. IsFiniteSet(Runs)
  BY HistoryAssumption, FS_Interval DEF Runs
<1> QED BY <1>1, <1>2, FS_Subset, FS_CardinalityType

(* The fewer runs there are, the more of them are among the newest.        *)
LEMMA NewestFewer ==
  ASSUME NEW S, NEW T \in SUBSET S, IsFiniteSet(S), NEW n \in Nat,
         NEW r \in T, r \in Newest(S, n)
  PROVE  r \in Newest(T, n)
<1> DEFINE A == {q \in S : q > r}
           B == {q \in T : q > r}
<1>1. IsFiniteSet(A) /\ B \subseteq A
  BY FS_Subset
<1>2. /\ Cardinality(A) \in Nat /\ Cardinality(B) \in Nat
      /\ Cardinality(B) <= Cardinality(A)
  BY <1>1, FS_Subset, FS_CardinalityType
<1>3. Cardinality(A) < n
  BY DEF Newest
<1> HIDE DEF A
<1>4. Cardinality(B) < n
  BY <1>2, <1>3
<1> QED BY <1>4 DEF Newest

LEMMA WholeFewer ==
  ASSUME NEW m, NEW k, NEW lim \in Nat, Whole(m, lim),
         \A r \in Runs : k[r].st # "absent" =>
            m[r].st # "absent" /\ (Exceptional(m, r) => Exceptional(k, r))
  PROVE  Whole(k, lim)
<1>1. Present(k) \in SUBSET Present(m) /\ IsFiniteSet(Present(m))
  BY PresentFinite DEF Present
<1> SUFFICES ASSUME NEW r \in Present(k)
             PROVE  r \in Newest(Present(k), lim) \/ Exceptional(k, r)
  BY DEF Whole
<1>2. CASE Exceptional(m, r)
  BY <1>2 DEF Present
<1>3. CASE r \in Newest(Present(m), lim)
  BY <1>1, <1>3, NewestFewer
<1> QED BY <1>1, <1>2, <1>3 DEF Whole

(* Once everything that can be evicted is marked, nothing is dropped.      *)
LEMMA WholeMarked ==
  ASSUME NEW m \in History, NEW lim
  PROVE  Whole(MarkAll(m, Evictable(m, lim)), lim)
<1> DEFINE k == MarkAll(m, Evictable(m, lim))
<1>1. \A r \in Runs : /\ k[r].st = m[r].st
                      /\ k[r].mark = (m[r].mark \/ r \in Evictable(m, lim))
  BY EvictableType, MarkAllFields
<1> HIDE DEF k
<1>2. Present(k) = Present(m)
  BY <1>1 DEF Present
<1> SUFFICES ASSUME NEW r \in Present(m), r \notin Newest(Present(m), lim)
             PROVE  Exceptional(k, r)
  BY <1>2 DEF Whole, k
<1>3. r \in Runs
  BY DEF Present
<1>4. r \in Evictable(m, lim) \/ m[r].st = "running" \/ m[r].mark \/ r \in Sourced
  BY DEF Evictable
<1>5. k[r].mark \/ k[r].st = "running" \/ r \in Sourced
  BY <1>1, <1>3, <1>4
<1> QED BY <1>5 DEF Exceptional

(* Nor where there are not more runs than the limit allows.                *)
LEMMA WholeSmall ==
  ASSUME NEW m, NEW lim \in Nat, Cardinality(Present(m)) <= lim
  PROVE  Whole(m, lim)
<1> SUFFICES ASSUME NEW r \in Present(m) PROVE r \in Newest(Present(m), lim)
  BY DEF Whole
<1> DEFINE A == {q \in Present(m) : q > r}
<1>1. IsFiniteSet(Present(m)) /\ A \subseteq Present(m) /\ Cardinality(Present(m)) \in Nat
  BY PresentFinite
<1>2. r \in Nat
  BY HistoryAssumption, PresentFinite DEF Runs
<1>3. A # Present(m)
  BY <1>2
<1> HIDE DEF A
<1>4. /\ Cardinality(A) \in Nat /\ Cardinality(A) <= Cardinality(Present(m))
      /\ Cardinality(A) = Cardinality(Present(m)) => A = Present(m)
  BY <1>1, FS_Subset, FS_CardinalityType
<1>5. Cardinality(A) < lim
  BY <1>1, <1>3, <1>4
<1> QED BY <1>5 DEF Newest, A

LEMMA WholeSelected ==
  ASSUME NEW m, NEW lim, Whole(m, lim)
  PROVE  \A r \in Runs : /\ Selected(m, lim)[r].st = m[r].st
                         /\ m[r].st # "absent" => Selected(m, lim)[r] = m[r]
<1> SUFFICES ASSUME NEW r \in Runs
             PROVE  /\ Selected(m, lim)[r].st = m[r].st
                    /\ m[r].st # "absent" => Selected(m, lim)[r] = m[r]
  OBVIOUS
<1>1. CASE m[r].st = "absent"
  BY <1>1 DEF Selected, NoRun
<1>2. CASE m[r].st # "absent"
  <2>1. r \in Newest(Present(m), lim) \/ Exceptional(m, r)
    BY <1>2 DEF Whole, Present
  <2> QED BY <1>2, <2>1 DEF Selected
<1> QED BY <1>1, <1>2

(* What a save of a whole history writes is whole.                         *)
LEMMA WholeSaved ==
  ASSUME NEW m, NEW lim \in Nat, Whole(m, lim)
  PROVE  Whole(Selected(m, lim), lim)
<1>1. ASSUME NEW r \in Runs, m[r].st # "absent", Exceptional(m, r)
      PROVE  Exceptional(Selected(m, lim), r)
  BY <1>1, WholeSelected DEF Exceptional
<1> QED BY <1>1, WholeSelected, WholeFewer

(* A retention that marks all it can leaves a whole history, and so does   *)
(* one that marks nothing of a whole one.                                  *)
LEMMA RetainWhole ==
  ASSUME NEW kind, NEW m \in History, NEW lim \in Nat, NEW S, NEW orig, NEW orig_limit,
         NEW changed, Retain(kind, m, lim, S, orig, orig_limit, changed),
         S = Evictable(m, lim) \/ (S = {} /\ Whole(m, lim))
  PROVE  Whole(mem', limit')
<1>1. mem' = MarkAll(m, S) /\ limit' = lim
  BY DEF Retain
<1>2. CASE S = Evictable(m, lim)
  BY <1>1, <1>2, WholeMarked
<1>3. CASE S = {} /\ Whole(m, lim)
  <2>1. \A r \in Runs : MarkAll(m, {})[r] = m[r]
    BY DEF MarkAll
  <2> DEFINE k == MarkAll(m, {})
  <2>2. \A r \in Runs : k[r].st # "absent" =>
          m[r].st # "absent" /\ (Exceptional(m, r) => Exceptional(k, r))
    BY <2>1 DEF Exceptional
  <2> HIDE DEF k
  <2>3. Whole(k, lim)
    BY <1>3, <2>2, WholeFewer
  <2> QED BY <1>1, <1>3, <2>3 DEF k
<1> QED BY <1>2, <1>3

LEMMA NatLimits == Limits \subseteq Nat /\ \A lim \in Limits : lim \in Nat
  BY HistoryAssumption

LEMMA StepWholeMemory ==
  ASSUME IInv, Ordering, CopiesWhole, [Next]_vars, [RoomForSource]_vars
  PROVE  Whole(mem', limit')
<1>0. /\ mem \in History /\ limit \in Nat /\ limit \in Limits /\ op \in Operation
      /\ Whole(mem, limit)
  BY Reliable, NatLimits DEF CopiesWhole
<1>e. \A lim \in Nat : Whole(Empty, lim)
  BY DEF Whole, Present, Empty, NoRun
<1>s. limit' = limit /\ (\A r \in Runs : mem'[r] = mem[r] \/ mem'[r].st = "absent")
        => Whole(mem', limit')
  BY <1>0, WholeFewer DEF Exceptional
<1>1. CASE Start
  <2> DEFINE m == [mem EXCEPT ![nextId] = [NoRun EXCEPT !.st = "running"]]
             S == IF nextId \in Sourced THEN {} ELSE Evictable(m, limit)
  <2>1. m \in History
    BY <1>0, NoRunType DEF History, Record, Status
  <2>2. Retain("start", m, limit, S, mem, limit, FALSE)
    BY <1>1 DEF Start
  <2>3. nextId \in Sourced => Evictable(m, limit) = {}
    <3>1. nextId' # nextId
      BY <1>1, Reliable DEF Start
    <3>2. RoomForSource
      BY <3>1 DEF vars
    <3> QED BY <1>1, <3>2 DEF RoomForSource
  <2>4. S = Evictable(m, limit)
    BY <2>3
  <2> HIDE DEF m, S
  <2> QED BY <1>0, <2>1, <2>2, <2>4, RetainWhole
<1>2. CASE Clear
  <2> DEFINE S == {r \in Present(mem) : mem[r].st # "running"}
  <2>1. S \in SUBSET Runs
    BY DEF Present
  <2>2. mem' = MarkAll(mem, S) /\ limit' = limit
    BY <1>2 DEF Clear, Retain
  <2>3. \A r \in Runs : mem'[r].st = mem[r].st /\ mem'[r].mark = (mem[r].mark \/ r \in S)
    BY <1>0, <2>1, <2>2, MarkAllFields
  <2>4. \A r \in Present(mem') : mem'[r].mark \/ mem'[r].st = "running"
    BY <2>3 DEF Present
  <2> QED BY <2>4 DEF Whole, Exceptional
<1>3. CASE \E lim \in Limits : SetLimit(lim)
  BY <1>0, <1>3, NatLimits, RetainWhole DEF SetLimit
<1>4. CASE \E r \in Runs : IngestProgress(r)
  <2>1. Retain("progress", mem, limit, {}, mem, limit, FALSE)
    BY <1>4 DEF IngestProgress
  <2> QED BY <1>0, <2>1, RetainWhole
<1>5. CASE \E r \in Runs, o \in Terminal : Finish(r, o)
  <2> PICK r \in Runs, o \in Terminal : Finish(r, o)
    BY <1>5
  <2>1. /\ limit' = limit /\ mem[r].st = "running" /\ mem'[r].compl
        /\ \A q \in Runs : q # r => mem'[q] = mem[q]
    BY <1>0 DEF Finish, History
  <2>2. \A q \in Runs : mem'[q].st # "absent" =>
          mem[q].st # "absent" /\ (Exceptional(mem, q) => Exceptional(mem', q))
    BY <2>1 DEF Exceptional
  <2> QED BY <1>0, <2>1, <2>2, WholeFewer
<1>6. CASE OtherSave \/ Written \/ LoadSaved \/ Accepted \/ Retired \/ UNCHANGED vars
  <2>1. mem' = mem /\ limit' = limit
    BY <1>6 DEF OtherSave, Written, Write, LoadSaved, Accepted, Retired, vars
  <2> QED BY <1>0, <2>1
<1>7. CASE LoadBegin
  <2>1. /\ mem' = Selected(disk.runs, disk.limit) /\ limit' = disk.limit
        /\ disk.limit \in Nat
    BY <1>7, NatLimits, Reliable DEF LoadBegin, TypeOK
  <2>2. Whole(Selected(disk.runs, disk.limit), disk.limit)
    BY <2>1, WholeSaved DEF CopiesWhole
  <2> QED BY <2>1, <2>2
<1>8. CASE Crash
  BY <1>0, <1>8, <1>e DEF Crash
<1>9. CASE \E ok \in BOOLEAN : Journalled(ok)
  <2> PICK ok \in BOOLEAN : Journalled(ok)
    BY <1>9
  <2> DEFINE r == op.run
             m == [mem EXCEPT ![r].out = ok, ![r].compl = FALSE]
             S == IF r \in Sourced THEN {} ELSE Evictable(m, limit)
  <2>1. r \in Runs /\ Retain("finish", m, limit, S, m, limit, FALSE)
    BY DEF Journalled, Journalling, IInv
  <2>2. m \in History /\ m[r].st = mem[r].st /\ \A q \in Runs : q # r => m[q] = mem[q]
    BY <1>0, <2>1 DEF History, Record
  <2>3. r \in Sourced => S = {}
    OBVIOUS
  <2>4. r \notin Sourced => S = Evictable(m, limit)
    OBVIOUS
  <2> HIDE DEF m, S, r
  <2>5. CASE r \in Sourced
    <3>1. \A q \in Runs : m[q].st # "absent" =>
            mem[q].st # "absent" /\ (Exceptional(mem, q) => Exceptional(m, q))
      BY <2>2, <2>5 DEF Exceptional
    <3>2. Whole(m, limit)
      BY <1>0, <3>1, WholeFewer
    <3> QED BY <1>0, <2>1, <2>2, <2>3, <2>5, <3>2, RetainWhole
  <2> QED BY <1>0, <2>1, <2>2, <2>4, <2>5, RetainWhole
<1>10. CASE \E r \in Runs, ok \in BOOLEAN : Unlink(r, ok) \/ LoadUnlink(r, ok)
  <2> PICK r \in Runs, ok \in BOOLEAN : Unlink(r, ok) \/ LoadUnlink(r, ok)
    BY <1>10
  <2>1. limit' = limit /\ (mem' = mem \/ mem' = [mem EXCEPT ![r] = NoRun])
    BY DEF Unlink, LoadUnlink
  <2>2. \A q \in Runs : mem'[q] = mem[q] \/ mem'[q].st = "absent"
    BY <1>0, <2>1 DEF History, NoRun
  <2> QED BY <1>s, <2>1, <2>2
<1>11. CASE Rejected
  BY <1>11 DEF Rejected, Ordering
<1>12. CASE Retire
  <2>1. limit' = limit /\ \A q \in Runs : mem'[q] = mem[q] \/ mem'[q].st = "absent"
    BY <1>12 DEF Retire, NoRun
  <2> QED BY <1>s, <2>1
<1>13. CASE LoadReconcile
  <2> DEFINE m == [r \in Runs |-> Interrupt(Reconciled(mem[r], sidecar[r]))]
             changed == op.changed \/ m # mem
  <2>1. m \in History
    BY Reliable, ReconciledType DEF TypeOK, History
  <2>2. IF Cardinality(Present(m)) > limit
        THEN Retain("load", m, limit, Evictable(m, limit), m, limit, changed)
        ELSE mem' = m /\ limit' = limit
    BY <1>13 DEF LoadReconcile
  <2> HIDE DEF m, changed
  <2>3. CASE Cardinality(Present(m)) > limit
    BY <1>0, <2>1, <2>2, <2>3, RetainWhole
  <2>4. CASE ~(Cardinality(Present(m)) > limit)
    <3>1. Cardinality(Present(m)) <= limit
      BY <1>0, <2>4, PresentFinite
    <3> QED BY <1>0, <2>2, <2>4, <3>1, WholeSmall
  <2> QED BY <2>3, <2>4
<1> QED
  BY <1>1, <1>2, <1>3, <1>4, <1>5, <1>6, <1>7, <1>8, <1>9, <1>10, <1>11, <1>12, <1>13
  DEF Next, Resumed

LEMMA StepWhole ==
  ASSUME IInv, Ordering, CopiesWhole, [Next]_vars, [RoomForSource]_vars
  PROVE  CopiesWhole'
<1>1. TypeOK /\ Whole(mem', limit') /\ limit' \in Limits /\ limit' \in Nat /\ mem' \in History
  BY StepType, StepWholeMemory, NatLimits DEF IInv, TypeOK, History
<1>2. CASE (saveq' = saveq \/ saveq' = <<>>) /\ disk' = disk
  BY <1>1, <1>2 DEF CopiesWhole
<1>3. CASE Written
  <2> PICK ok \in BOOLEAN : Write(ok)
    BY <1>3 DEF Written
  <2>1. /\ Len(saveq) \in Nat \ {0} /\ Len(saveq') = Len(saveq) - 1
        /\ \A i \in 1..Len(saveq') : saveq'[i] = saveq[i + 1]
        /\ Head(saveq) = saveq[1]
    BY <1>1, Popped
  <2>2. disk' = disk \/ (disk'.runs = saveq[1].runs /\ disk'.limit = saveq[1].limit)
    BY <2>1 DEF Write
  <2>3. 1 \in 1..Len(saveq) /\ \A i \in 1..Len(saveq') : i + 1 \in 1..Len(saveq)
    BY <2>1
  <2>4. Whole(disk'.runs, disk'.limit)
    BY <2>2, <2>3 DEF CopiesWhole
  <2>5. \A i \in 1..Len(saveq') : Whole(saveq'[i].runs, saveq'[i].limit)
    BY <2>1, <2>3 DEF CopiesWhole
  <2> QED BY <1>1, <2>4, <2>5 DEF CopiesWhole
<1>4. ASSUME NEW own \in BOOLEAN, disk' = disk,
             saveq' = Append(saveq, Snapshot(mem', limit', own))
      PROVE  CopiesWhole'
  <2> DEFINE e == Snapshot(mem', limit', own)
  <2>1. e \in Snapshots /\ e.runs = Selected(mem', limit') /\ e.limit = limit'
    BY <1>1, SnapshotType DEF Snapshot
  <2>2. Whole(e.runs, e.limit)
    BY <1>1, <2>1, WholeSaved
  <2> HIDE DEF e
  <2>3. saveq' = Append(saveq, e)
    BY <1>4 DEF e
  <2>4. /\ Len(saveq') = Len(saveq) + 1 /\ Len(saveq) \in Nat
        /\ \A i \in 1..Len(saveq) : saveq'[i] = saveq[i]
        /\ saveq'[Len(saveq) + 1] = e
    <3>1. Len(saveq) \in Nat
      BY <1>1 DEF TypeOK
    <3> QED BY <1>1, <1>4, <2>1, <2>3, <3>1, Appended
  <2>5. \A i \in 1..Len(saveq') : i \in 1..Len(saveq) \/ i = Len(saveq) + 1
    BY <2>4
  <2>6. \A i \in 1..Len(saveq') : Whole(saveq'[i].runs, saveq'[i].limit)
    BY <2>2, <2>4, <2>5 DEF CopiesWhole
  <2> QED BY <1>1, <1>4, <2>6 DEF CopiesWhole
<1> QED BY <1>2, <1>3, <1>4, StepSaves

(* What a step may do to the status of a run: nothing, take a run off the  *)
(* history whose deletion was ordered, settle it as its journal says if it *)
(* has one, or start it.                                                   *)
Turn(r, st) ==
  \/ st = mem[r].st
  \/ st = "absent" /\ r \in ordered
  \/ /\ mem[r].st = "running" /\ st \in Terminal /\ ack = "none"
     /\ sidecar[r].st # "absent" => st = sidecar[r].st
  \/ /\ r = nextId /\ st = "running" /\ nextId' = nextId + 1 /\ disk' = disk
     /\ saveq' = Append(saveq, Snapshot(mem', limit', TRUE))

(* The runs an operation evicts: those it has chosen before, or settled    *)
(* ones, marked in the very save that it requests.                         *)
Evicts ==
  \/ /\ op.pc \in {"phase1", "unlink"} /\ op'.evict = op.evict /\ mem' = mem
     /\ op'.pc = "phase1" => op.pc = "phase1"
  \/ /\ op'.pc = "phase1" /\ ack # "wait" /\ disk' = disk
     /\ saveq' = Append(saveq, Snapshot(mem', limit', TRUE))
     /\ \A r \in op'.evict : mem'[r].st \in Terminal

(* What is running has no marker.                                         *)
Unmarked(h) == \A r \in Runs : h[r].st = "running" => ~h[r].mark

MemoryStep ==
  /\ phase' # "down" => phase # "down"
  /\ \A r \in Runs : Turn(r, mem'[r].st)
  /\ Unmarked(mem')
  /\ op'.pc \in {"phase1", "unlink"} => op'.evict \in SUBSET Runs /\ Evicts

(* The retention of a history that differs from memory in such turns.      *)
LEMMA RetainStep ==
  ASSUME IInv, NEW kind, NEW m \in History, NEW lim, NEW S \in SUBSET Runs, NEW orig,
         NEW orig_limit, NEW changed,
         Retain(kind, m, lim, S, orig, orig_limit, changed),
         ack # "wait", phase # "down", disk' = disk,
         \A r \in Runs : Turn(r, m[r].st),
         Unmarked(m),
         \A r \in S : m[r].st \in Terminal
  PROVE  MemoryStep
<1>1. op'.pc = "phase1" /\ op'.evict = S
  BY RetainFields
<1>2. \A r \in Runs : mem'[r].st = m[r].st
  BY RetainFields
<1>3. saveq' = Append(saveq, Snapshot(mem', limit', TRUE))
  BY DEF Retain, RequestSave
<1>4. Unmarked(mem')
  <2> SUFFICES ASSUME NEW r \in Runs, mem'[r].st = "running", mem'[r].mark PROVE FALSE
    BY DEF Unmarked
  <2>1. m[r].st = "running" /\ r \notin S
    BY <1>2 DEF Terminal
  <2>2. ~m[r].mark
    BY <2>1 DEF Unmarked
  <2>3. mem'[r].mark => m[r].mark \/ r \in S
    BY RetainFields
  <2> QED BY <2>1, <2>2, <2>3, Zenon
<1>5. \A r \in op'.evict : mem'[r].st \in Terminal
  BY <1>1, <1>2, Zenon
<1>6. \A r \in Runs : Turn(r, mem'[r].st)
  BY <1>2 DEF Turn
<1> QED BY <1>1, <1>3, <1>4, <1>5, <1>6 DEF MemoryStep, Evicts

LEMMA EvictableSettled ==
  ASSUME NEW m \in History, NEW lim
  PROVE  \A r \in Evictable(m, lim) : m[r].st \in Terminal
  BY DEF Evictable, Present, History, Record, Status

(* The same of a history as it is.                                         *)
LEMMA RetainSame ==
  ASSUME IInv, Unmarked(mem), NEW kind, NEW lim, NEW S \in SUBSET Runs,
         Retain(kind, mem, lim, S, mem, limit, FALSE), Idle, disk' = disk,
         \A r \in S : mem[r].st \in Terminal
  PROVE  MemoryStep
<1>1. ack # "wait" /\ phase # "down" /\ mem \in History
  BY Reliable DEF Idle, IInv, Copies, OneAwaited
<1>2. \A r \in Runs : Turn(r, mem[r].st)
  BY DEF Turn
<1> QED BY <1>1, <1>2, RetainStep

(* A step that evicts nothing new.                                         *)
LEMMA QuietStep ==
  ASSUME Unmarked(mem), phase' # "down" => phase # "down",
         \A r \in Runs : mem'[r] = mem[r] \/ (mem'[r] = NoRun /\ r \in ordered),
         op'.pc \notin {"phase1", "unlink"}
           \/ /\ op \in Operation /\ op.pc \in {"phase1", "unlink"} /\ op'.evict = op.evict
              /\ mem' = mem /\ (op'.pc = "phase1" => op.pc = "phase1")
  PROVE  MemoryStep
<1>1. ASSUME NEW r \in Runs PROVE Turn(r, mem'[r].st)
  <2>1. mem'[r] = mem[r] \/ (mem'[r].st = "absent" /\ r \in ordered)
    BY DEF NoRun
  <2> QED BY <2>1, Zenon DEF Turn
<1>2. Unmarked(mem')
  BY DEF Unmarked, NoRun
<1>3. op'.pc \in {"phase1", "unlink"} => op'.evict \in SUBSET Runs /\ Evicts
  BY DEF Evicts, Operation
<1> QED BY <1>1, <1>2, <1>3 DEF MemoryStep

LEMMA StepMemory ==
  ASSUME IInv, Ordering, Outcomes, Unmarked(mem), [Next]_vars, ~LoadBegin, ~Crash
  PROVE  MemoryStep
<1>0. /\ mem \in History /\ limit \in Limits /\ op \in Operation /\ nextId \in Nat
      /\ TypeOK
  BY Reliable
<1>c. ASSUME NEW m, NEW lim, NEW changed, Conclude(m, lim, changed), mem' = mem, phase # "down"
      PROVE  MemoryStep
  <2>1. \/ op' = [NoOp EXCEPT !.kind = "load", !.pc = "loadsave"]
        \/ op' = NoOp
    BY <1>c, Zenon DEF Conclude
  <2>2. op'.pc \notin {"phase1", "unlink"}
    BY <2>1, NoOpType DEF Operation
  <2> QED BY <1>c, <2>2, QuietStep
<1>p. op.pc # "idle" => phase # "down"
  BY DEF IInv, Copies, LoadedMarks
<1>1. CASE Start
  <2> DEFINE m == [mem EXCEPT ![nextId] = [NoRun EXCEPT !.st = "running"]]
             S == IF nextId \in Sourced THEN {} ELSE Evictable(m, limit)
  <2>1. m \in History
    BY <1>0, NoRunType DEF History, Record, Status
  <2>2. Retain("start", m, limit, S, mem, limit, FALSE)
    BY <1>1 DEF Start
  <2>3. S \in SUBSET Runs /\ \A r \in S : m[r].st \in Terminal
    BY <2>1, EvictableType, EvictableSettled
  <2>4. /\ m[nextId].st = "running" /\ ~m[nextId].mark
        /\ \A r \in Runs : r # nextId => m[r] = mem[r]
    BY <1>0, <1>1 DEF Start, History, NoRun
  <2> HIDE DEF m, S
  <2>5. /\ ack # "wait" /\ phase # "down" /\ disk' = disk /\ nextId' = nextId + 1
        /\ saveq' = Append(saveq, Snapshot(mem', limit', TRUE))
    BY <1>1, <2>2 DEF Start, Idle, IInv, Copies, OneAwaited, Retain, RequestSave
  <2>6. \A r \in Runs : Turn(r, m[r].st)
    BY <2>4, <2>5 DEF Turn
  <2>7. Unmarked(m)
    BY <2>4 DEF Unmarked
  <2> QED BY <2>1, <2>2, <2>3, <2>5, <2>6, <2>7, RetainStep
<1>2. CASE Clear
  <2> DEFINE S == {r \in Present(mem) : mem[r].st # "running"}
  <2>1. S \in SUBSET Runs /\ \A r \in S : mem[r].st \in Terminal
    BY <1>0 DEF Present, History, Record, Status
  <2>2. Retain("clear", mem, limit, S, mem, limit, FALSE) /\ Idle /\ disk' = disk
    BY <1>2 DEF Clear
  <2> HIDE DEF S
  <2> QED BY <2>1, <2>2, RetainSame
<1>3. CASE \E lim \in Limits : SetLimit(lim)
  BY <1>0, <1>3, EvictableType, EvictableSettled, RetainSame DEF SetLimit
<1>4. CASE \E r \in Runs : IngestProgress(r)
  <2>1. Retain("progress", mem, limit, {}, mem, limit, FALSE) /\ Idle /\ disk' = disk
    BY <1>4 DEF IngestProgress
  <2>2. {} \in SUBSET Runs /\ \A r \in {} : mem[r].st \in Terminal
    OBVIOUS
  <2> QED BY <2>1, <2>2, RetainSame
<1>5. CASE \E r \in Runs, o \in Terminal : Finish(r, o)
  <2> PICK r \in Runs, o \in Terminal : Finish(r, o)
    BY <1>5
  <2>1. /\ op.pc = "idle" /\ ack = "none" /\ mem[r].st = "running" /\ phase' = phase
    BY DEF Finish, Idle, IInv, Copies, OneAwaited
  <2>2. sidecar[r].st = "absent"
    BY <2>1 DEF Outcomes, Running
  <2>3. /\ mem'[r].st = o /\ ~mem'[r].mark
        /\ \A q \in Runs : q # r => mem'[q] = mem[q]
    BY <1>0 DEF Finish, History
  <2>4. \A q \in Runs : Turn(q, mem'[q].st)
    BY <2>1, <2>2, <2>3 DEF Turn
  <2>5. op'.pc = "sidecar"
    BY NoOpType DEF Finish, Operation
  <2>6. Unmarked(mem')
    BY <2>3 DEF Unmarked
  <2> QED BY <2>1, <2>4, <2>5, <2>6 DEF MemoryStep
<1>6. CASE OtherSave
  BY <1>0, <1>6, QuietStep DEF OtherSave
<1>7. CASE Written
  BY <1>0, <1>7, QuietStep DEF Written, Write
<1>8. CASE \E ok \in BOOLEAN : Journalled(ok)
  <2> PICK ok \in BOOLEAN : Journalled(ok)
    BY <1>8
  <2> DEFINE r == op.run
             m == [mem EXCEPT ![r].out = ok, ![r].compl = FALSE]
             S == IF r \in Sourced THEN {} ELSE Evictable(m, limit)
  <2>1. r \in Runs /\ op.pc = "sidecar" /\ ack # "wait" /\ disk' = disk
    BY DEF Journalled, Journalling, IInv, Copies, OneAwaited
  <2>2. /\ m \in History
        /\ \A q \in Runs : m[q].st = mem[q].st /\ m[q].mark = mem[q].mark
    BY <1>0, <2>1 DEF History, Record
  <2>3. S \in SUBSET Runs /\ \A q \in S : m[q].st \in Terminal
    BY <2>2, EvictableType, EvictableSettled
  <2>4. Retain("finish", m, limit, S, m, limit, FALSE)
    BY DEF Journalled
  <2> HIDE DEF m, S, r
  <2>5. \A q \in Runs : Turn(q, m[q].st)
    BY <2>2 DEF Turn
  <2>6. phase # "down" /\ Unmarked(m)
    BY <1>p, <2>1, <2>2 DEF Unmarked
  <2> QED BY <2>1, <2>2, <2>3, <2>4, <2>5, <2>6, RetainStep
<1>9. CASE \E r \in Runs, ok \in BOOLEAN : Unlink(r, ok)
  <2> PICK r \in Runs, ok \in BOOLEAN : Unlink(r, ok)
    BY <1>9
  <2>1. /\ op.pc = "unlink" /\ op'.pc = "unlink" /\ op'.evict = op.evict
        /\ UNCHANGED <<mem, phase>>
    BY <1>0 DEF Unlink, Operation
  <2> QED BY <1>0, <2>1, QuietStep
<1>10. CASE \E r \in Runs, ok \in BOOLEAN : LoadUnlink(r, ok)
  <2> PICK r \in Runs, ok \in BOOLEAN : LoadUnlink(r, ok)
    BY <1>10
  <2>1. op.pc = "pending" /\ op'.pc = "pending" /\ phase' = phase
    BY <1>0 DEF LoadUnlink, Operation
  <2>2. r \in ordered
    BY DEF LoadUnlink, First, IInv, Copies, LoadedMarks, Marked, Ordering
  <2>3. \A q \in Runs : mem'[q] = mem[q] \/ (mem'[q] = NoRun /\ q \in ordered)
    BY <1>0, <2>2 DEF LoadUnlink, History
  <2> QED BY <2>1, <2>3, QuietStep
<1>11. CASE Accepted
  <2>1. op.pc = "phase1" /\ mem' = mem
    BY <1>11 DEF Accepted
  <2>2. CASE op.evict = {} /\ op.kind # "clear"
    <3>1. Conclude(mem, limit, op.changed)
      BY <1>11, <2>2 DEF Accepted
    <3> QED BY <1>c, <1>p, <2>1, <3>1
  <2>3. CASE ~(op.evict = {} /\ op.kind # "clear")
    <3>1. op'.pc = "unlink" /\ op'.evict = op.evict /\ phase' = phase
      BY <1>0, <1>11, <2>3 DEF Accepted, Operation
    <3> QED BY <1>0, <2>1, <3>1, QuietStep
  <2> QED BY <2>2, <2>3
<1>12. CASE Rejected
  BY <1>12 DEF Rejected, Ordering
<1>13. CASE Retire
  <2>1. op.pc = "unlink" /\ op'.pc = "phase2" /\ phase' = phase
    BY <1>0, <1>13 DEF Retire, Operation
  <2>2. \A q \in Runs : mem'[q] = mem[q] \/ (mem'[q] = NoRun /\ q \in ordered)
    BY <1>13, <2>1 DEF Retire, Ordering
  <2> QED BY <2>1, <2>2, QuietStep
<1>14. CASE Retired
  BY <1>14, <1>c, <1>p DEF Retired
<1>15. CASE LoadSaved
  BY <1>15, <1>p, NoOpType, QuietStep DEF LoadSaved
<1>16. CASE LoadReconcile
  <2> DEFINE m == [r \in Runs |-> Interrupt(Reconciled(mem[r], sidecar[r]))]
             changed == op.changed \/ m # mem
             S == Evictable(m, limit)
  <2>1. /\ op.pc = "pending" /\ ack = "none" /\ disk' = disk /\ phase # "down"
    BY <1>16, <1>p DEF LoadReconcile, IInv, Copies, OneAwaited
  <2>2. m \in History /\ Running(m) = {}
    <3>1. m \in History
      BY Reliable, ReconciledType DEF TypeOK, History
    <3>2. \A r \in Runs : m[r] = Interrupt(Reconciled(mem[r], sidecar[r]))
      OBVIOUS
    <3> HIDE DEF m
    <3> QED BY <3>1, <3>2, ReconciledFits
  <2>3. ASSUME NEW r \in Runs
        PROVE  Turn(r, m[r].st)
    <3> DEFINE rec == mem[r]
               file == sidecar[r]
    <3>1. rec \in Record /\ file \in Journal
      BY <1>0 DEF TypeOK, History
    <3>2. rec.st \in Terminal /\ ~rec.mark /\ file.st # "absent" => rec.st = file.st
      BY DEF Outcomes, Faithful
    <3>3. m[r] = Interrupt(Reconciled(rec, file)) /\ ~(rec.st = "running" /\ rec.mark)
      BY DEF Unmarked
    <3> HIDE DEF rec, file
    <3>4. CASE rec.mark \/ rec.st = "absent"
      BY <3>1, <3>3, <3>4 DEF Interrupt, Reconciled, Record, Turn, rec
    <3>5. CASE ~rec.mark /\ rec.st = "running"
      <4>1. CASE file.st # "absent"
        <5>1. Reconciled(rec, file).st = file.st
          BY <3>1, <3>5, <4>1 DEF Reconciled, Record
        <5>2. m[r].st = file.st /\ file.st \in Terminal
          BY <3>1, <3>3, <4>1, <5>1 DEF Interrupt, Terminal, Journal
        <5> QED BY <2>1, <3>5, <5>2 DEF Turn, rec, file
      <4>2. CASE file.st = "absent"
        <5>1. Reconciled(rec, file) \in Record /\ Reconciled(rec, file).st = "running"
          BY <3>1, <3>5, <4>2 DEF Reconciled, Record
        <5>2. m[r].st = "interrupted"
          BY <3>3, <5>1 DEF Interrupt, Record
        <5> QED BY <2>1, <3>5, <4>2, <5>2 DEF Turn, Terminal, rec, file
      <4> QED BY <4>1, <4>2
    <3>6. CASE ~rec.mark /\ rec.st \in Terminal
      <4>1. Reconciled(rec, file).st = rec.st
        BY <3>1, <3>2, <3>6 DEF Reconciled, Record, Terminal
      <4>2. m[r].st = rec.st
        BY <3>3, <3>6, <4>1 DEF Interrupt, Terminal
      <4> QED BY <4>2 DEF Turn, rec
    <3> QED BY <3>1, <3>4, <3>5, <3>6 DEF Record, Status
  <2>4. \/ Retain("load", m, limit, S, m, limit, changed)
        \/ mem' = m /\ Conclude(m, limit, changed)
    BY <1>16 DEF LoadReconcile
  <2>5. S \in SUBSET Runs /\ \A r \in S : m[r].st \in Terminal
    BY <2>2, EvictableType, EvictableSettled
  <2> HIDE DEF m, changed, S
  <2>6. Unmarked(m)
    BY <2>2 DEF Running, Unmarked
  <2>7. CASE Retain("load", m, limit, S, m, limit, changed)
    BY <2>1, <2>2, <2>3, <2>5, <2>6, <2>7, RetainStep
  <2>8. CASE mem' = m /\ Conclude(m, limit, changed)
    <3>1. \/ op' = [NoOp EXCEPT !.kind = "load", !.pc = "loadsave"]
          \/ op' = NoOp
      BY <2>8, Zenon DEF Conclude
    <3>2. op'.pc \notin {"phase1", "unlink"}
      BY <3>1, NoOpType DEF Operation
    <3> QED BY <2>1, <2>3, <2>6, <2>8, <3>2 DEF MemoryStep
  <2> QED BY <2>4, <2>7, <2>8
<1>17. CASE UNCHANGED vars
  BY <1>0, <1>17, QuietStep DEF vars
<1> QED
  BY <1>1, <1>2, <1>3, <1>4, <1>5, <1>6, <1>7, <1>8, <1>9, <1>10, <1>11, <1>12,
     <1>13, <1>14, <1>15, <1>16, <1>17
  DEF Next, Resumed

-----------------------------------------------------------------------------
(***************************************************************************)
(* The copies of the history follow each other, from data.json through the *)
(* queue of saves to memory: see InOrder.  With that, what a write puts    *)
(* into data.json is never behind what it replaces.                        *)
(***************************************************************************)
(* k is a copy taken later than h: it lists every run h lists, unless its  *)
(* deletion was ordered, and then it does not list it again; and it shows  *)
(* the same outcome.                                                       *)
Follows(h, k, ord) ==
  \A r \in Runs :
    /\ r \notin ord /\ h[r].st # "absent" => k[r].st # "absent"
    /\ r \in ord /\ k[r].st # "absent" => h[r].st # "absent"
    /\ h[r].st \in Terminal /\ k[r].st # "absent" => k[r].st = h[r].st

InOrder ==
  /\ \A j \in 1..Len(saveq) : Follows(disk.runs, saveq[j].runs, ordered)
  /\ \A i, j \in 1..Len(saveq) : i <= j => Follows(saveq[i].runs, saveq[j].runs, ordered)
  /\ phase # "down" => \A h \in Stored : Follows(h, mem, ordered)

(* A run in memory is in data.json, or in a save that is awaited.          *)
Listed ==
  \A r \in Runs : mem[r].st # "absent" /\ r \notin ordered =>
    \/ disk.runs[r].st # "absent"
    \/ \E i \in 1..Len(saveq) : saveq[i].own /\ saveq[i].runs[r].st # "absent"

(* A run that data.json has not had yet is running wherever it is listed.  *)
NotYet(h) ==
  \A r \in Runs : r \notin ordered /\ disk.runs[r].st = "absent"
                    => h[r].st \in {"absent", "running"}

(* What is marked, evicted or ordered to be deleted has settled.           *)
Deletes(h) == Unmarked(h) /\ \A r \in ordered : h[r].st # "running"

Evicting ==
  /\ op.pc \in {"phase1", "unlink"} => \A r \in op.evict : mem[r].st \in Terminal
  /\ op.pc = "phase1" =>
       \A i, j \in 1..Len(saveq) : saveq[i].own /\ i <= j =>
         \A r \in op.evict : saveq[j].runs[r].st # "running"

(* Every copy that shows an outcome shows that of the journal.             *)
Agrees(h, files) ==
  \A r \in Runs : h[r].st \in Terminal /\ files[r].st # "absent"
                    => h[r].st = files[r].st

Sound(h) == NotYet(h) /\ Deletes(h) /\ Agrees(h, sidecar)

LedgerInv ==
  /\ CopiesWhole /\ InOrder /\ Listed /\ Evicting
  /\ Sound(mem) /\ \A h \in Stored : Sound(h)
  /\ \A r \in ordered : r < nextId

-----------------------------------------------------------------------------
LEMMA FollowsItself == ASSUME NEW h, NEW k, NEW ord, \A r \in Runs : k[r].st = h[r].st
                       PROVE  Follows(h, k, ord)
  BY DEF Follows

LEMMA FollowsSame ==
  ASSUME NEW h, NEW k, NEW e, NEW ord, Follows(h, k, ord), \A r \in Runs : e[r].st = k[r].st
  PROVE  Follows(h, e, ord)
  BY DEF Follows

(* An order to delete runs that the older copy lists changes nothing.      *)
LEMMA FollowsOrdered ==
  ASSUME NEW h, NEW k, NEW ord, NEW E, Follows(h, k, ord),
         \A r \in Runs \cap E : r \notin ord => h[r].st # "absent"
  PROVE  Follows(h, k, ord \cup E)
  BY DEF Follows

(* What a step makes of memory follows every copy there was.               *)
LEMMA MemoryFollows ==
  ASSUME IInv, LedgerInv, MemoryStep, phase' # "down", NEW h \in Stored
  PROVE  Follows(h, mem', ordered)
<1>1. Follows(h, mem, ordered)
  BY DEF MemoryStep, LedgerInv, InOrder
<1>2. /\ h[nextId].st = "absent" \/ nextId \notin Runs
      /\ nextId \notin ordered
  BY Reliable DEF AllFit, Fit, Sane, LedgerInv
<1> SUFFICES ASSUME NEW r \in Runs
             PROVE  /\ r \notin ordered /\ h[r].st # "absent" => mem'[r].st # "absent"
                    /\ r \in ordered /\ mem'[r].st # "absent" => h[r].st # "absent"
                    /\ h[r].st \in Terminal /\ mem'[r].st # "absent" => mem'[r].st = h[r].st
  BY DEF Follows
<1>3. Turn(r, mem'[r].st)
  BY DEF MemoryStep
<1>4. /\ r \notin ordered /\ h[r].st # "absent" => mem[r].st # "absent"
      /\ r \in ordered /\ mem[r].st # "absent" => h[r].st # "absent"
      /\ h[r].st \in Terminal /\ mem[r].st # "absent" => mem[r].st = h[r].st
  BY <1>1 DEF Follows
<1>5. CASE mem'[r].st = mem[r].st
  BY <1>4, <1>5
<1>6. CASE mem'[r].st = "absent" /\ r \in ordered
  BY <1>6
<1>7. CASE mem[r].st = "running" /\ mem'[r].st \in Terminal
  BY <1>4, <1>7 DEF Terminal
<1>8. CASE r = nextId /\ mem'[r].st = "running"
  BY <1>2, <1>8 DEF Terminal
<1> QED BY <1>3, <1>5, <1>6, <1>7, <1>8 DEF Turn

(* It is sound by itself, before what the step does to the journals.       *)
LEMMA MemorySound ==
  ASSUME IInv, LedgerInv, Outcomes, MemoryStep PROVE Sound(mem')
<1>1. NotYet(mem) /\ Deletes(mem) /\ Agrees(mem, sidecar)
  BY DEF LedgerInv, Sound
<1>2. /\ nextId \notin ordered
      /\ ack = "none" => \A i \in 1..Len(saveq) : ~saveq[i].own
      /\ nextId \in Runs => sidecar[nextId].st = "absent"
  BY Reliable DEF LedgerInv, IInv, Copies, OneAwaited, Outcomes
<1>3. ASSUME NEW r \in Runs, r \notin ordered, disk.runs[r].st = "absent"
      PROVE  mem'[r].st \in {"absent", "running"}
  <2>1. mem[r].st \in {"absent", "running"} /\ Turn(r, mem'[r].st)
    BY <1>1, <1>3 DEF NotYet, MemoryStep
  <2>2. ~(mem[r].st = "running" /\ ack = "none")
    BY <1>2, <1>3 DEF LedgerInv, Listed
  <2> QED BY <1>3, <2>1, <2>2 DEF Turn
<1>4. ASSUME NEW r \in ordered PROVE mem'[r].st # "running"
  <2>1. r \in Runs /\ mem[r].st # "running"
    BY <1>1, Reliable DEF Deletes, TypeOK
  <2>2. Turn(r, mem'[r].st) /\ r # nextId
    BY <1>2, <2>1 DEF MemoryStep
  <2> QED BY <2>1, <2>2 DEF Turn, Terminal
<1>5. ASSUME NEW r \in Runs, mem'[r].st \in Terminal, sidecar[r].st # "absent"
      PROVE  mem'[r].st = sidecar[r].st
  <2>1. Turn(r, mem'[r].st)
    BY DEF MemoryStep
  <2>2. mem[r].st \in Terminal => mem[r].st = sidecar[r].st
    BY <1>1, <1>5 DEF Agrees
  <2> QED BY <1>5, <2>1, <2>2 DEF Turn, Terminal
<1> QED BY <1>3, <1>4, <1>5 DEF Sound, NotYet, Deletes, Agrees, MemoryStep

(* What a step makes of the history in memory, whichever step it is but a  *)
(* crash.                                                                  *)
Carried ==
  /\ \A h \in Stored : Follows(h, mem', ordered)
  /\ Sound(mem')
  /\ \A r \in Runs : mem'[r].st # "absent" /\ r \notin ordered =>
       \/ disk.runs[r].st # "absent" \/ mem[r].st # "absent"
       \/ disk' = disk /\ saveq' = Append(saveq, Snapshot(mem', limit', TRUE))
  /\ op'.pc \in {"phase1", "unlink"} => op'.evict \in SUBSET Runs /\ Evicts

LEMMA CarriedLoad ==
  ASSUME IInv, LedgerInv, LoadBegin PROVE Carried
<1>1. /\ mem' = Selected(disk.runs, disk.limit) /\ saveq = <<>>
      /\ Stored = {disk.runs}
  BY DEF LoadBegin, IInv, Copies, LoadedMarks, Stored
<1>2. \A r \in Runs : /\ mem'[r].st = disk.runs[r].st
                      /\ mem'[r].st # "absent" => mem'[r] = disk.runs[r]
  BY <1>1, WholeSelected DEF LedgerInv, CopiesWhole
<1>u. ASSUME Unmarked(disk.runs) PROVE Unmarked(mem')
  <2> SUFFICES ASSUME NEW r \in Runs, mem'[r].st = "running" PROVE ~mem'[r].mark
    BY DEF Unmarked
  <2>1. mem'[r] = disk.runs[r]
    BY <1>2
  <2> QED BY <1>u, <2>1 DEF Unmarked
<1>3. Sound(disk.runs)
  BY <1>1 DEF LedgerInv
<1>4. Sound(mem')
  <2>1. NotYet(mem') /\ Agrees(mem', sidecar)
    BY <1>2, <1>3 DEF Sound, NotYet, Agrees
  <2>2. ordered \subseteq Runs
    BY Reliable DEF TypeOK
  <2>3. Deletes(mem')
    BY <1>2, <1>3, <1>u, <2>2 DEF Sound, Deletes
  <2> QED BY <2>1, <2>3 DEF Sound
<1>5. \A h \in Stored : Follows(h, mem', ordered)
  BY <1>1, <1>2 DEF Follows
<1>6. op'.pc = "pending"
  BY NoOpType DEF LoadBegin, Operation
<1> QED BY <1>2, <1>4, <1>5, <1>6 DEF Carried

LEMMA CarriedStep ==
  ASSUME IInv, LedgerInv, Outcomes, MemoryStep, phase' # "down" PROVE Carried
<1>1. ASSUME NEW r \in Runs, mem'[r].st # "absent", r \notin ordered
      PROVE  \/ mem[r].st # "absent"
             \/ disk' = disk /\ saveq' = Append(saveq, Snapshot(mem', limit', TRUE))
  <2>1. Turn(r, mem'[r].st)
    BY DEF MemoryStep
  <2> QED BY <1>1, <2>1 DEF Turn
<1>2. op'.pc \in {"phase1", "unlink"} => op'.evict \in SUBSET Runs /\ Evicts
  BY DEF MemoryStep
<1> QED BY <1>1, <1>2, MemoryFollows, MemorySound DEF Carried

(* Only a crash takes the plugin down, and then only a load does anything. *)
LEMMA PhaseStep ==
  ASSUME IInv, Ordering, [Next]_vars, phase' = "down" PROVE Crash \/ UNCHANGED vars
<1>0. phase = "down" => op.pc = "idle" /\ saveq = <<>>
  BY DEF IInv, Copies, LoadedMarks
<1>p. op.pc # "idle" => phase # "down"
  BY <1>0
<1>c. ASSUME NEW m, NEW lim, NEW changed, Conclude(m, lim, changed)
      PROVE  phase' = phase \/ phase' = "up"
  BY <1>c, Zenon DEF Conclude
<1>1. ASSUME Start \/ Clear \/ (\E lim \in Limits : SetLimit(lim))
             \/ (\E r \in Runs, o \in Terminal : Finish(r, o))
             \/ (\E r \in Runs : IngestProgress(r)) \/ OtherSave
      PROVE  FALSE
  BY <1>1 DEF Start, Clear, SetLimit, Finish, IngestProgress, OtherSave, Idle
<1>2. ASSUME LoadBegin \/ Written PROVE FALSE
  BY <1>0, <1>2 DEF LoadBegin, Written, Write
<1>3. ASSUME (\E ok \in BOOLEAN : Journalled(ok)) \/ Retire
             \/ \E r \in Runs, ok \in BOOLEAN : Unlink(r, ok) \/ LoadUnlink(r, ok)
      PROVE  FALSE
  BY <1>3, <1>p DEF Journalled, Unlink, LoadUnlink, Retire
<1>4. ASSUME Accepted \/ Retired PROVE FALSE
  <2>1. phase # "down"
    BY <1>4, <1>p DEF Accepted, Retired
  <2>2. phase' = phase \/ Conclude(mem, limit, op.changed)
    BY <1>4 DEF Accepted, Retired
  <2> QED BY <1>c, <2>1, <2>2
<1>5. ASSUME LoadReconcile PROVE FALSE
  <2>1. phase # "down"
    BY <1>5, <1>p DEF LoadReconcile
  <2>2. phase' = phase \/ \E m, changed : Conclude(m, limit, changed)
    BY <1>5 DEF LoadReconcile
  <2> QED BY <1>c, <2>1, <2>2
<1>6. ASSUME Rejected \/ LoadSaved PROVE FALSE
  BY <1>6 DEF Rejected, LoadSaved, Ordering
<1> QED BY <1>1, <1>2, <1>3, <1>4, <1>5, <1>6 DEF Next, Resumed

(* What a step does to the journals and to the orders.                     *)
LEMMA StepJournals ==
  ASSUME IInv, [Next]_vars
  PROVE  /\ ordered' = ordered \/ Written
         /\ nextId' \in {nextId, nextId + 1}
         /\ \A r \in Runs :
              \/ sidecar'[r].st = sidecar[r].st \/ sidecar'[r].st = "absent"
              \/ /\ op.pc = "sidecar" /\ r = op.run /\ sidecar'[r].st = mem[r].st
                 /\ mem'[r].st = mem[r].st /\ mem[r].st \in Terminal
<1>0. sidecar \in [Runs -> Journal] /\ mem \in History
  BY Reliable DEF TypeOK
<1>1. CASE \E ok \in BOOLEAN : Journalled(ok)
  <2> PICK ok \in BOOLEAN : Journalled(ok)
    BY <1>1
  <2>1. /\ op.pc = "sidecar" /\ op.run \in Runs /\ mem[op.run].st \in Terminal
        /\ ordered' = ordered
        /\ nextId' = nextId
    BY DEF Journalled, IInv, Journalling
  <2>2. \/ sidecar' = [sidecar EXCEPT ![op.run] = [st |-> mem[op.run].st, fin |-> mem[op.run].fin]]
        \/ sidecar' = sidecar
    BY DEF Journalled
  <2> DEFINE m == [mem EXCEPT ![op.run].out = ok, ![op.run].compl = FALSE]
             S == IF op.run \in Sourced THEN {} ELSE Evictable(m, limit)
  <2>3. Retain("finish", m, limit, S, m, limit, FALSE)
    BY DEF Journalled
  <2>4. m \in History /\ m[op.run].st = mem[op.run].st /\ S \in SUBSET Runs
    BY <1>0, <2>1, EvictableType DEF History, Record
  <2> HIDE DEF m, S
  <2>5. mem'[op.run].st = mem[op.run].st
    <3>1. \A q \in Runs : mem'[q].st = m[q].st
      BY <2>3, <2>4, RetainFields
    <3> QED BY <2>1, <2>4, <3>1
  <2>6. \A r \in Runs : \/ sidecar'[r].st = sidecar[r].st
                        \/ r = op.run /\ sidecar'[r].st = mem[r].st
    BY <1>0, <2>1, <2>2
  <2> QED BY <2>1, <2>5, <2>6
<1>2. CASE \E q \in Runs, ok \in BOOLEAN : Unlink(q, ok) \/ LoadUnlink(q, ok)
  <2> PICK q \in Runs, ok \in BOOLEAN : Unlink(q, ok) \/ LoadUnlink(q, ok)
    BY <1>2
  <2>1. /\ ordered' = ordered /\ nextId' = nextId
        /\ (sidecar' = sidecar \/ sidecar' = [sidecar EXCEPT ![q] = NoFile])
    BY DEF Unlink, LoadUnlink
  <2> QED BY <1>0, <2>1 DEF NoFile
<1>3. CASE ~(\E ok \in BOOLEAN : Journalled(ok))
           /\ ~(\E q \in Runs, ok \in BOOLEAN : Unlink(q, ok) \/ LoadUnlink(q, ok))
  <2>1. /\ sidecar' = sidecar /\ (ordered' = ordered \/ Written)
        /\ nextId' \in {nextId, nextId + 1}
    BY <1>3 DEF Next, Resumed, Written, vars, Start, Clear, SetLimit, Finish, IngestProgress,
       OtherSave, LoadBegin, Crash, Write, Accepted, Rejected, Retire, Retired,
       LoadReconcile, LoadSaved
  <2> QED BY <2>1
<1> QED BY <1>1, <1>2, <1>3

(* Whoever agrees with the journals before a step, and is followed by what *)
(* is in memory, agrees with them afterwards.                              *)
LEMMA JournalsAgree ==
  ASSUME IInv, LedgerInv, [Next]_vars, Agrees(mem', sidecar)
  PROVE  Agrees(mem', sidecar') /\ \A h \in Stored : Agrees(h, sidecar')
<1>1. Agrees(mem', sidecar')
  <2> SUFFICES ASSUME NEW r \in Runs, mem'[r].st \in Terminal, sidecar'[r].st # "absent"
               PROVE  mem'[r].st = sidecar'[r].st
    BY DEF Agrees
  <2> QED BY StepJournals DEF Agrees
<1>2. ASSUME NEW h \in Stored PROVE Agrees(h, sidecar')
  <2> SUFFICES ASSUME NEW r \in Runs, h[r].st \in Terminal, sidecar'[r].st # "absent"
               PROVE  h[r].st = sidecar'[r].st
    BY DEF Agrees
  <2>1. CASE sidecar'[r].st = sidecar[r].st
    BY <2>1 DEF LedgerInv, Sound, Agrees
  <2>2. CASE op.pc = "sidecar" /\ sidecar'[r].st = mem[r].st /\ mem[r].st \in Terminal
    <3>1. Follows(h, mem, ordered)
      BY <2>2 DEF LedgerInv, InOrder, IInv, Copies, LoadedMarks
    <3> QED BY <2>2, <3>1 DEF Follows, Terminal
  <2> QED BY <2>1, <2>2, StepJournals
<1> QED BY <1>1, <1>2

(* A step that leaves the save queue as it is.                             *)
LEMMA QuietLedger ==
  ASSUME IInv, LedgerInv, [Next]_vars, [RoomForSource]_vars, Ordering, Carried,
         saveq' = saveq, disk' = disk, ordered' = ordered
  PROVE  LedgerInv'
<1>0. CopiesWhole' /\ IInv'
  BY StepWhole, StepIInv DEF LedgerInv
<1>1. Stored' = Stored /\ saveq' # Append(saveq, Snapshot(mem', limit', TRUE))
  <2>1. /\ Len(saveq) \in Nat /\ TypeOK
        /\ mem' \in History /\ limit' \in Limits
    BY <1>0, Reliable DEF TypeOK, IInv, History
  <2>2. Snapshot(mem', limit', TRUE) \in Snapshots
    BY <2>1, SnapshotType
  <2>3. saveq' = Append(saveq, Snapshot(mem', limit', TRUE)) => Len(saveq') = Len(saveq) + 1
    BY <2>1, <2>2, Appended
  <2>4. Stored' = Stored
    BY DEF Stored
  <2>5. Len(saveq') = Len(saveq) /\ Len(saveq) # Len(saveq) + 1
    BY <2>1
  <2>6. saveq' # Append(saveq, Snapshot(mem', limit', TRUE))
    BY <2>3, <2>5, Zenon
  <2> QED BY <2>4, <2>6
<1>2. InOrder'
  BY <1>1 DEF LedgerInv, InOrder, Carried
<1>3. Listed'
  BY <1>1 DEF LedgerInv, Listed, Carried
<1>4. Evicting'
  BY <1>1 DEF LedgerInv, Evicting, Carried, Evicts
<1>5. ASSUME NEW h \in Stored \cup {mem'} PROVE Sound(h)'
  <2>1. Sound(h)
    BY DEF LedgerInv, Carried
  <2>2. Agrees(h, sidecar')
    BY JournalsAgree DEF Carried, Sound
  <2> QED BY <2>1, <2>2 DEF Sound, NotYet, Deletes
<1>6. \A r \in ordered : r < nextId'
  <2>1. ordered \subseteq Nat /\ nextId \in Nat /\ nextId' \in {nextId, nextId + 1}
    BY Reliable, StepJournals, HistoryAssumption DEF TypeOK, Runs
  <2> QED BY <2>1 DEF LedgerInv
<1> QED BY <1>0, <1>1, <1>2, <1>3, <1>4, <1>5, <1>6 DEF LedgerInv

(* A save of what is in memory, put at the end of the queue.               *)
LEMMA AppendLedger ==
  ASSUME IInv, LedgerInv, [Next]_vars, [RoomForSource]_vars, Ordering, Carried,
         NEW own \in BOOLEAN, saveq' = Append(saveq, Snapshot(mem', limit', own)),
         disk' = disk, ordered' = ordered
  PROVE  LedgerInv'
<1> DEFINE e == Snapshot(mem', limit', own)
           n == Len(saveq) + 1
<1>0. CopiesWhole' /\ IInv'
  BY StepWhole, StepIInv DEF LedgerInv
<1>1. /\ TypeOK /\ Len(saveq) \in Nat /\ mem' \in History /\ limit' \in Limits
      /\ Whole(mem', limit')
  BY <1>0, Reliable DEF TypeOK, IInv, History, CopiesWhole
<1>2. /\ e \in Snapshots /\ e.runs = Selected(mem', limit') /\ e.own = own
      /\ \A r \in Runs : /\ e.runs[r].st = mem'[r].st
                         /\ mem'[r].st # "absent" => e.runs[r] = mem'[r]
  BY <1>1, SnapshotType, WholeSelected DEF Snapshot
<1> HIDE DEF e
<1>3. /\ Len(saveq') = n /\ saveq'[n] = e
      /\ \A i \in 1..Len(saveq) : saveq'[i] = saveq[i]
      /\ Stored' \subseteq Stored \cup {e.runs}
  <2>1. saveq' = Append(saveq, e)
    BY DEF e
  <2> QED BY <1>1, <1>2, <2>1, Appended
<1>4. \A i \in 1..Len(saveq') : i \in 1..Len(saveq) \/ i = n
  BY <1>1, <1>3
<1>5. \A i \in 1..Len(saveq) : i \in 1..Len(saveq') /\ i # n
  BY <1>1, <1>3
<1>6. n \in 1..Len(saveq')
  BY <1>1, <1>3
<1> HIDE DEF n
<1>7. \A h \in Stored : Follows(h, e.runs, ordered)
  BY <1>2, FollowsSame DEF Carried
<1>8. InOrder'
  <2>1. ASSUME NEW j \in 1..Len(saveq') PROVE Follows(disk.runs, saveq'[j].runs, ordered)
    <3>1. CASE j \in 1..Len(saveq)
      BY <1>3, <3>1 DEF LedgerInv, InOrder
    <3>2. CASE j = n
      BY <1>3, <1>7, <3>2 DEF Stored
    <3> QED BY <1>4, <3>1, <3>2
  <2>2. ASSUME NEW i \in 1..Len(saveq'), NEW j \in 1..Len(saveq'), i <= j
        PROVE  Follows(saveq'[i].runs, saveq'[j].runs, ordered)
    <3>1. CASE j \in 1..Len(saveq)
      <4>1. i \in 1..Len(saveq)
        BY <1>1, <2>2, <3>1
      <4> QED BY <1>3, <2>2, <3>1, <4>1 DEF LedgerInv, InOrder
    <3>2. CASE j = n /\ i \in 1..Len(saveq)
      BY <1>3, <1>7, <3>2 DEF Stored
    <3>3. CASE j = n /\ i = n
      BY <3>3, FollowsItself
    <3> QED BY <1>4, <3>1, <3>2, <3>3
  <2>3. \A h \in Stored' : Follows(h, mem', ordered)
    <3>1. Follows(e.runs, mem', ordered)
      BY <1>2, FollowsItself
    <3> QED BY <1>3, <3>1 DEF Carried
  <2> QED BY <2>1, <2>2, <2>3 DEF InOrder
<1>9. Listed'
  <2> SUFFICES ASSUME NEW r \in Runs, mem'[r].st # "absent", r \notin ordered
               PROVE  \/ disk.runs[r].st # "absent"
                      \/ \E i \in 1..Len(saveq') : saveq'[i].own /\ saveq'[i].runs[r].st # "absent"
    BY DEF Listed
  <2>0. e.own => \E i \in 1..Len(saveq') : saveq'[i].own /\ saveq'[i].runs[r].st # "absent"
    <3>1. ASSUME e.own PROVE saveq'[n].own /\ saveq'[n].runs[r].st # "absent"
      BY <1>2, <1>3, <3>1
    <3> QED BY <1>6, <3>1
  <2>1. CASE own
    BY <1>2, <2>0, <2>1
  <2>2. CASE mem[r].st # "absent"
    BY <1>3, <1>5, <2>2 DEF LedgerInv, Listed
  <2>3. CASE saveq' = Append(saveq, Snapshot(mem', limit', TRUE))
    <3>1. Snapshot(mem', limit', TRUE) \in Snapshots /\ Snapshot(mem', limit', TRUE).own
      BY <1>1, SnapshotType DEF Snapshot
    <3>2. saveq'[Len(saveq) + 1] = Snapshot(mem', limit', TRUE)
      BY <1>1, <2>3, <3>1, Appended
    <3>3. e.own
      BY <1>3, <3>1, <3>2 DEF n
    <3> QED BY <2>0, <3>3
  <2> QED BY <2>1, <2>2, <2>3 DEF Carried
<1>10. ASSUME NEW h \in Stored' \cup {mem'} PROVE Sound(h)'
  <2>1. Sound(mem')
    BY DEF Carried
  <2>2. Agrees(mem', sidecar') /\ \A k \in Stored : Agrees(k, sidecar')
    BY JournalsAgree DEF Carried, Sound
  <2>3. CASE h \in Stored \cup {mem'}
    <3>1. Sound(h)
      BY <2>3 DEF LedgerInv, Carried
    <3> QED BY <2>2, <2>3, <3>1 DEF Sound, NotYet, Deletes
  <2>4. CASE h = e.runs
    <3>1. NotYet(h)' /\ Agrees(h, sidecar')
      BY <1>2, <2>1, <2>2, <2>4 DEF Sound, NotYet, Agrees
    <3>2. ASSUME NEW r \in Runs, h[r].st = "running" PROVE ~h[r].mark
      <4>1. h[r] = mem'[r]
        BY <1>2, <2>4, <3>2
      <4> QED BY <2>1, <3>2, <4>1 DEF Sound, Deletes, Unmarked
    <3>3. \A r \in ordered : h[r].st # "running"
      BY <1>1, <1>2, <2>1, <2>4 DEF Sound, Deletes, TypeOK
    <3> QED BY <3>1, <3>2, <3>3 DEF Sound, Deletes, Unmarked
  <2> QED BY <1>3, <2>3, <2>4
<1>11. Evicting'
  <2>1. ASSUME op'.pc \in {"phase1", "unlink"}, NEW r \in op'.evict
        PROVE  mem'[r].st \in Terminal
    BY <2>1 DEF LedgerInv, Evicting, Carried, Evicts
  <2>2. ASSUME op'.pc = "phase1", NEW i \in 1..Len(saveq'), NEW j \in 1..Len(saveq'),
               saveq'[i].own, i <= j, NEW r \in op'.evict
        PROVE  saveq'[j].runs[r].st # "running"
    <3>0. r \in Runs /\ mem'[r].st \in Terminal
      BY <2>1, <2>2 DEF Carried
    <3>1. CASE j = n
      BY <1>2, <1>3, <3>0, <3>1 DEF Terminal
    <3>2. CASE j \in 1..Len(saveq)
      <4>1. i \in 1..Len(saveq)
        BY <1>1, <2>2, <3>2
      <4>2. saveq[i].own /\ saveq'[j] = saveq[j]
        BY <1>3, <2>2, <3>2, <4>1
      <4>3. ack = "wait"
        BY <4>1, <4>2 DEF IInv, Copies, OneAwaited
      <4>4. op.pc = "phase1" /\ op'.evict = op.evict
        BY <2>2, <4>3 DEF Carried, Evicts
      <4> QED BY <2>2, <3>2, <4>1, <4>2, <4>4 DEF LedgerInv, Evicting
    <3> QED BY <1>4, <3>1, <3>2
  <2> QED BY <2>1, <2>2 DEF Evicting
<1>12. \A r \in ordered : r < nextId'
  <2>1. ordered \subseteq Nat /\ nextId \in Nat /\ nextId' \in {nextId, nextId + 1}
    BY Reliable, StepJournals, HistoryAssumption DEF TypeOK, Runs
  <2> QED BY <2>1 DEF LedgerInv
<1> QED BY <1>0, <1>8, <1>9, <1>10, <1>11, <1>12 DEF LedgerInv

LEMMA WriteLedger ==
  ASSUME ~SaveFaults, IInv, LedgerInv, Outcomes, Ordering, [Next]_vars, [RoomForSource]_vars,
         Written
  PROVE  LedgerInv'
<1> DEFINE E == IF saveq[1].own /\ op.pc = "phase1" THEN op.evict ELSE {}
<1>0. CopiesWhole' /\ TypeOK
  BY StepWhole, Reliable DEF LedgerInv
<1>1. /\ Len(saveq) \in Nat \ {0} /\ Len(saveq') = Len(saveq) - 1
      /\ \A i \in 1..Len(saveq') : saveq'[i] = saveq[i + 1]
      /\ Stored' \subseteq Stored /\ Head(saveq) = saveq[1]
  BY <1>0, Popped DEF Written
<1>2. PICK ok \in BOOLEAN : Write(ok)
  BY DEF Written
<1>3. /\ UNCHANGED <<mem, op, phase, sidecar, nextId>> /\ disk'.runs = saveq[1].runs
      /\ ordered' = ordered \cup E
  BY <1>1, <1>2 DEF Write
<1>4. /\ 1 \in 1..Len(saveq)
      /\ \A i \in 1..Len(saveq') : i + 1 \in 1..Len(saveq)
      /\ \A i, j \in 1..Len(saveq') : i <= j => i + 1 <= j + 1
  BY <1>1
<1>5. phase # "down" /\ E \in SUBSET Runs
  BY <1>1, Reliable DEF IInv, Copies, LoadedMarks, Operation
<1>6. \A r \in E : mem[r].st \in Terminal
  BY DEF LedgerInv, Evicting
<1>7. \A r \in Runs \cap E : r \notin ordered => disk.runs[r].st # "absent"
  BY <1>6 DEF LedgerInv, Sound, NotYet, Terminal
<1>8. /\ \A j \in 1..Len(saveq) : \A r \in E : saveq[j].runs[r].st # "running"
      /\ \A r \in E : mem[r].st # "running"
  <2>1. \A j \in 1..Len(saveq) : 1 <= j
    OBVIOUS
  <2> QED BY <1>4, <1>6, <2>1 DEF LedgerInv, Evicting, Terminal
<1>9. \A h \in Stored' : \E j \in 1..Len(saveq) : h = saveq[j].runs
  BY <1>1, <1>3, <1>4 DEF Stored
<1> HIDE DEF E
<1>10. \A j \in 1..Len(saveq), r \in Runs \cap E :
         r \notin ordered => saveq[j].runs[r].st # "absent"
  BY <1>7 DEF LedgerInv, InOrder, Follows
<1>11. InOrder'
  <2>1. \A i, j \in 1..Len(saveq) : i <= j => Follows(saveq[i].runs, saveq[j].runs, ordered')
    BY <1>3, <1>10, FollowsOrdered DEF LedgerInv, InOrder
  <2>2. \A j \in 1..Len(saveq') : Follows(disk'.runs, saveq'[j].runs, ordered')
    <3>1. \A j \in 1..Len(saveq') : 1 <= j + 1
      OBVIOUS
    <3> QED BY <1>1, <1>3, <1>4, <2>1, <3>1
  <2>3. \A i, j \in 1..Len(saveq') : i <= j => Follows(saveq'[i].runs, saveq'[j].runs, ordered')
    BY <1>1, <1>4, <2>1
  <2>4. \A h \in Stored' : Follows(h, mem, ordered')
    <3> SUFFICES ASSUME NEW h \in Stored' PROVE Follows(h, mem, ordered')
      OBVIOUS
    <3>1. PICK j \in 1..Len(saveq) : h = saveq[j].runs
      BY <1>9
    <3>2. Follows(h, mem, ordered)
      BY <1>1, <1>5 DEF LedgerInv, InOrder
    <3> QED BY <1>3, <1>10, <3>1, <3>2, FollowsOrdered
  <2> QED BY <1>3, <2>2, <2>3, <2>4 DEF InOrder
<1>12. \A r \in Runs : r \notin ordered /\ disk.runs[r].st # "absent" => disk'.runs[r].st # "absent"
  BY <1>3, <1>4 DEF LedgerInv, InOrder, Follows
<1>13. Listed'
  <2> SUFFICES ASSUME NEW r \in Runs, mem[r].st # "absent", r \notin ordered,
                      disk'.runs[r].st = "absent"
               PROVE  \E i \in 1..Len(saveq') : saveq'[i].own /\ saveq'[i].runs[r].st # "absent"
    BY <1>3 DEF Listed
  <2>1. PICK i \in 1..Len(saveq) : saveq[i].own /\ saveq[i].runs[r].st # "absent"
    BY <1>12 DEF LedgerInv, Listed
  <2>2. i # 1
    BY <1>3, <2>1
  <2>3. i - 1 \in 1..Len(saveq') /\ (i - 1) + 1 = i
    BY <1>1, <2>2
  <2> QED BY <1>1, <2>1, <2>3
<1>14. ASSUME NEW h, Sound(h), \A r \in E : h[r].st # "running" PROVE Sound(h)'
  <2>1. NotYet(h)'
    BY <1>3, <1>12, <1>14 DEF Sound, NotYet
  <2> QED BY <1>3, <1>14, <2>1 DEF Sound, Deletes, Agrees
<1>15. ASSUME NEW h \in Stored' PROVE Sound(h)'
  <2>1. PICK j \in 1..Len(saveq) : h = saveq[j].runs
    BY <1>9
  <2> QED BY <1>1, <1>8, <1>14, <2>1 DEF LedgerInv
<1>16. Sound(mem)'
  <2>1. Sound(mem) /\ \A r \in E : mem[r].st # "running"
    BY <1>8 DEF LedgerInv
  <2>2. NotYet(mem)' /\ Deletes(mem)' /\ Agrees(mem, sidecar)'
    BY <1>3, <1>12, <2>1 DEF Sound, NotYet, Deletes, Agrees
  <2> QED BY <2>2 DEF Sound
<1>17. Evicting'
  BY <1>1, <1>3, <1>4 DEF LedgerInv, Evicting
<1>18. \A r \in ordered' : r < nextId'
  <2>1. ASSUME NEW r \in E PROVE r < nextId
    BY <1>5, <1>6, Reliable, HistoryAssumption DEF Fit, Sane, Terminal, Runs
  <2> QED BY <1>3, <2>1 DEF LedgerInv
<1> QED BY <1>0, <1>11, <1>13, <1>15, <1>16, <1>17, <1>18 DEF LedgerInv

LEMMA InitLedger == Init => LedgerInv /\ JournalRecoverable
<1> SUFFICES ASSUME Init PROVE LedgerInv /\ JournalRecoverable
  OBVIOUS
<1>1. /\ mem = Empty /\ disk.runs = Empty /\ saveq = <<>> /\ Len(saveq) = 0
      /\ op.pc = "idle" /\ ordered = {} /\ Stored = {Empty}
      /\ \A r \in Runs : Empty[r].st = "absent" /\ sidecar[r].st = "absent"
  BY NoOpType DEF Init, Stored, Empty, NoRun, NoFile
<1>2. \A lim : Whole(Empty, lim)
  BY <1>1 DEF Whole, Present
<1>3. CopiesWhole
  BY <1>1, <1>2 DEF CopiesWhole
<1>4. InOrder
  BY <1>1 DEF InOrder, Follows, Terminal
<1>5. Listed /\ Evicting
  BY <1>1 DEF Listed, Evicting
<1>6. NotYet(Empty) /\ Deletes(Empty) /\ Agrees(Empty, sidecar)
  BY <1>1 DEF NotYet, Deletes, Unmarked, Agrees
<1>7. Sound(Empty)
  BY <1>6 DEF Sound
<1>8. Sound(mem) /\ \A h \in Stored : Sound(h)
  BY <1>1, <1>7
<1>9. JournalRecoverable
  BY <1>1 DEF JournalRecoverable
<1> QED BY <1>1, <1>3, <1>4, <1>5, <1>8, <1>9 DEF LedgerInv

(* A crash leaves what is written as it is, and nothing else.              *)
LEMMA CrashLedger ==
  ASSUME IInv, LedgerInv, CopiesWhole', Crash PROVE LedgerInv'
<1>1. /\ mem' = Empty /\ saveq' = <<>> /\ Len(saveq') = 0 /\ phase' = "down"
      /\ op'.pc = "idle" /\ UNCHANGED <<disk, sidecar, ordered, nextId>>
      /\ Stored' = {disk.runs} /\ \A r \in Runs : Empty[r].st = "absent"
  BY NoOpType DEF Crash, Stored, Empty, NoRun
<1>2. InOrder'
  BY <1>1 DEF InOrder
<1>3. Listed' /\ Evicting'
  BY <1>1 DEF Listed, Evicting
<1>4. NotYet(mem)' /\ Deletes(mem)' /\ Agrees(mem, sidecar)'
  <2>1. \A r \in ordered : Empty[r].st = "absent"
    BY <1>1, Reliable DEF TypeOK
  <2> QED BY <1>1, <2>1 DEF NotYet, Deletes, Unmarked, Agrees, Terminal
<1>5. ASSUME NEW h \in Stored' PROVE Sound(h)'
  <2>1. Sound(disk.runs) /\ h = disk.runs
    BY <1>1 DEF LedgerInv, Stored
  <2> QED BY <1>1, <2>1 DEF Sound, NotYet, Deletes, Agrees
<1>6. Sound(mem)'
  BY <1>4 DEF Sound
<1>7. \A r \in ordered' : r < nextId'
  BY <1>1 DEF LedgerInv
<1> QED BY <1>2, <1>3, <1>5, <1>6, <1>7 DEF LedgerInv

LEMMA StepLedger ==
  ASSUME ~SaveFaults, IInv, LedgerInv, Outcomes, Ordering, [Next]_vars, [RoomForSource]_vars
  PROVE  LedgerInv'
<1>1. CASE UNCHANGED vars
  BY <1>1 DEF vars, LedgerInv, CopiesWhole, Whole, Present, Newest, Exceptional, InOrder,
     Follows, Listed, Evicting, Sound, NotYet, Deletes, Unmarked, Agrees, Stored
<1>2. CASE Crash
  BY <1>2, StepWhole, CrashLedger DEF LedgerInv
<1>3. CASE Written
  BY <1>3, WriteLedger
<1>4. CASE LoadBegin
  <2>1. saveq' = saveq /\ disk' = disk /\ ordered' = ordered
    BY <1>4 DEF LoadBegin
  <2> QED BY <1>4, <2>1, CarriedLoad, QuietLedger
<1>5. CASE ~(UNCHANGED vars) /\ ~Crash /\ ~Written /\ ~LoadBegin
  <2>1. phase' # "down" /\ ordered' = ordered
    BY <1>5, PhaseStep, StepJournals
  <2>2. Carried
    BY <1>5, <2>1, StepMemory, CarriedStep DEF LedgerInv, Sound, Deletes
  <2>3. ~Rejected
    BY DEF Rejected, Ordering
  <2>4. CASE saveq' = saveq /\ disk' = disk
    BY <2>1, <2>2, <2>4, QuietLedger
  <2>5. CASE /\ \E own \in BOOLEAN : saveq' = Append(saveq, Snapshot(mem', limit', own))
             /\ disk' = disk
    BY <2>1, <2>2, <2>5, AppendLedger
  <2> QED BY <1>5, <2>3, <2>4, <2>5, StepSaves
<1> QED BY <1>1, <1>2, <1>3, <1>4, <1>5

(* What a write of data.json does to what it lists.                        *)
LEMMA WriteFollows ==
  ASSUME ~SaveFaults, IInv, LedgerInv, Written
  PROVE  /\ sidecar' = sidecar /\ disk'.runs \in Stored
         /\ Follows(disk.runs, disk'.runs, ordered) /\ ordered \subseteq ordered'
         /\ \A r \in Runs : r \in ordered' \ ordered => disk.runs[r].st # "absent"
<1>0. TypeOK
  BY Reliable
<1>1. Len(saveq) \in Nat \ {0} /\ Head(saveq) = saveq[1] /\ 1 \in 1..Len(saveq)
  BY <1>0, Popped DEF Written
<1>2. PICK ok \in BOOLEAN : Write(ok)
  BY DEF Written
<1>3. /\ UNCHANGED <<mem, op, sidecar>> /\ disk'.runs = saveq[1].runs
      /\ ordered \subseteq ordered'
      /\ \A r \in ordered' \ ordered : op.pc = "phase1" /\ r \in op.evict
  BY <1>1, <1>2 DEF Write
<1>4. disk'.runs \in Stored /\ Follows(disk.runs, disk'.runs, ordered)
  BY <1>1, <1>3 DEF LedgerInv, InOrder, Stored
<1>5. \A r \in Runs : r \in ordered' \ ordered => disk.runs[r].st # "absent"
  BY <1>3 DEF LedgerInv, Evicting, Sound, NotYet, Terminal
<1> QED BY <1>3, <1>4, <1>5

(* Any other step leaves data.json and the orders alone.                   *)
LEMMA DiskStays ==
  ASSUME IInv, [Next]_vars, ~Written PROVE disk' = disk /\ ordered' = ordered
  BY StepSaves, StepJournals

LEMMA StepRecoverable ==
  ASSUME ~SaveFaults, IInv, LedgerInv, JournalRecoverable, [Next]_vars
  PROVE  JournalRecoverable'
<1> SUFFICES ASSUME NEW r \in Runs, sidecar'[r].st # "absent", r \notin ordered'
             PROVE  disk'.runs[r].st # "absent"
  BY DEF JournalRecoverable
<1>1. CASE Written
  BY <1>1, WriteFollows DEF Follows, JournalRecoverable
<1>2. CASE ~Written
  <2>1. disk' = disk /\ ordered' = ordered
    BY <1>2, DiskStays
  <2>2. CASE sidecar'[r].st = sidecar[r].st
    BY <2>1, <2>2 DEF JournalRecoverable
  <2>3. CASE op.pc = "sidecar" /\ r = op.run /\ mem[r].st \in Terminal
    <3>1. \A i \in 1..Len(saveq) : ~saveq[i].own
      BY <2>3 DEF IInv, Copies, OneAwaited
    <3> QED BY <2>1, <2>3, <3>1 DEF LedgerInv, Listed, Terminal
  <2> QED BY <2>2, <2>3, StepJournals
<1> QED BY <1>1, <1>2

RecoverInv == IInv /\ Ordering /\ Outcomes /\ LedgerInv /\ JournalRecoverable

LEMMA InitRecover == Init => RecoverInv
<1> SUFFICES ASSUME Init PROVE Ordering /\ Outcomes
  BY InitIInv, InitLedger DEF RecoverInv
<1> QED BY InitOrdering, InitOutcomes

LEMMA StepRecover ==
  ASSUME ~SaveFaults
  PROVE  RecoverInv /\ [Next]_vars /\ [RoomForSource]_vars => RecoverInv'
  BY StepIInv, StepOrdering, StepOutcomes, StepLedger, StepRecoverable DEF RecoverInv

(* Where data.json can be written and a run bound to a source finds room,  *)
(* the run of every journal whose deletion has not been ordered is listed  *)
(* in data.json: whenever the plugin stops after finishTaskRun has written *)
(* the outcome, the next load finds the run it belongs to.                 *)
THEOREM JournalsRecoverable ==
  ASSUME ~SaveFaults PROVE Spec /\ [][RoomForSource]_vars => []JournalRecoverable
<1>1. RecoverInv => JournalRecoverable
  BY DEF RecoverInv
<1> QED BY <1>1, InitRecover, StepRecover, PTL DEF Spec

-----------------------------------------------------------------------------
(* The outcome a load would show moves as the ledger of the user's runs    *)
(* allows.                                                                 *)
LEMMA StepOutcome ==
  ASSUME ~SaveFaults, RecoverInv, [Next]_vars, NEW r \in Runs
  PROVE  Ledger!Move(Outcome(r), Outcome(r)')
<1> DEFINE d == disk.runs[r].st
           s == sidecar[r].st
<1>0. /\ IInv /\ LedgerInv /\ Outcomes /\ Ordering /\ JournalRecoverable /\ TypeOK
      /\ Ledger!Settled = Terminal
  BY Reliable DEF RecoverInv, Ledger!Settled, Terminal
<1>1. /\ d \in Status /\ d' \in Status /\ s \in {"absent"} \cup Terminal
      /\ s' \in {"absent"} \cup Terminal
  <2>1. TypeOK'
    BY <1>0, StepType DEF IInv
  <2> QED BY <1>0, <2>1 DEF TypeOK, Record, Journal
<1>2. disk.runs \in Stored /\ Sound(disk.runs)
  BY <1>0 DEF Stored, LedgerInv
<1>3. /\ d \in Terminal /\ s # "absent" => d = s
      /\ r \in ordered => d # "running"
      /\ s # "absent" /\ r \notin ordered => d # "absent"
  BY <1>0, <1>2 DEF Sound, Agrees, Deletes, JournalRecoverable
<1>4. CASE Written
  <2>1. /\ s' = s /\ ordered \subseteq ordered'
        /\ r \in ordered' \ ordered => d # "absent"
        /\ r \notin ordered /\ d # "absent" => d' # "absent"
        /\ r \in ordered /\ d' # "absent" => d # "absent"
        /\ d \in Terminal /\ d' # "absent" => d' = d
    BY <1>0, <1>4, WriteFollows DEF Follows
  <2>2. /\ d' \in Terminal /\ s # "absent" => d' = s
        /\ r \notin ordered /\ d = "absent" => d' \in {"absent", "running"}
    <3>1. Sound(disk'.runs)
      BY <1>0, <1>4, WriteFollows DEF LedgerInv
    <3> QED BY <3>1 DEF Sound, Agrees, NotYet
  <2> QED BY <1>0, <1>1, <1>3, <2>1, <2>2 DEF Outcome, Ledger!Move, Terminal, Status
<1>5. CASE ~Written
  <2>1. d' = d /\ (r \in ordered' <=> r \in ordered)
    BY <1>0, <1>5, DiskStays
  <2>2. CASE s' = s
    BY <2>1, <2>2 DEF Outcome, Ledger!Move
  <2>3. CASE s # "absent" /\ s' = "absent"
    <3>1. r \in ordered
      BY <1>0, <2>3, StepUnlinks
    <3> QED BY <1>1, <1>3, <2>1, <3>1 DEF Outcome, Ledger!Move, Status
  <2>4. CASE /\ op.pc = "sidecar" /\ r = op.run /\ s' = mem[r].st /\ mem[r].st \in Terminal
    <3>1. d \in {"absent", "running", mem[r].st}
      BY <1>0, <1>2, <2>4 DEF Outcomes
    <3>2. s # "absent" => mem[r].st = s
      BY <1>0, <2>4 DEF LedgerInv, Sound, Agrees
    <3> QED BY <1>0, <1>1, <2>1, <2>4, <3>1, <3>2 DEF Outcome, Ledger!Move, Terminal
  <2> QED BY <1>0, <2>2, <2>3, <2>4, StepJournals
<1> QED BY <1>4, <1>5

(* Where data.json can be written and a run bound to a source finds room,  *)
(* the history keeps the user's ledger: an outcome that is durable is not  *)
(* replaced by another one, and not lost before a retention retires it.    *)
THEOREM HistoryKeepsLedger ==
  ASSUME ~SaveFaults PROVE Spec /\ [][RoomForSource]_vars => ImplementsLedger
<1> DEFINE L == [r \in Runs |-> Outcome(r)]
<1>1. Init => Ledger!Init
  <2> SUFFICES ASSUME Init, NEW r \in Runs PROVE Outcome(r) = "absent"
    BY DEF Ledger!Init
  <2>1. disk.runs[r].st = "absent" /\ r \notin ordered
    BY DEF Init, Empty, NoRun
  <2> QED BY <2>1 DEF Outcome
<1>2. TypeOK' => \A r \in Runs : Outcome(r)' \in Ledger!LedgerState
  <2> SUFFICES ASSUME TypeOK', NEW r \in Runs PROVE Outcome(r)' \in Ledger!LedgerState
    OBVIOUS
  <2>1. disk'.runs[r].st \in Status /\ sidecar'[r].st \in {"absent"} \cup Terminal
    BY DEF TypeOK, Record, Journal
  <2> QED BY <2>1 DEF Outcome, Ledger!LedgerState, Ledger!Settled, Terminal, Status
<1>3. RecoverInv /\ [Next]_vars /\ RecoverInv' => [Ledger!Next]_L
  <2> SUFFICES ASSUME RecoverInv, [Next]_vars, RecoverInv' PROVE Ledger!Next
    OBVIOUS
  <2>1. L' \in [Runs -> Ledger!LedgerState]
    BY <1>2 DEF RecoverInv, IInv
  <2> QED BY <2>1, StepOutcome DEF Ledger!Next
<1> QED BY <1>1, <1>3, InitRecover, StepRecover, PTL DEF Spec, ImplementsLedger, Ledger!Spec
=============================================================================
