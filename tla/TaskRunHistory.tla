--------------------------- MODULE TaskRunHistory --------------------------
(***************************************************************************)
(* The task-run history of the plugin: the array plugin.taskRuns, the      *)
(* promise chain that serialises its mutations (withTaskRunMutation), the  *)
(* save queue of DashboardPersistence, data.json, and one output sidecar   *)
(* file per run.  Mutations interleave with saves requested by the rest of *)
(* the plugin, every file operation may fail, and the host may stop the    *)
(* plugin between any two steps.                                           *)
(*                                                                         *)
(* taskRuns is kept newest first and new runs are only ever prepended, so  *)
(* a run is named by its start order and the array is the function mem:    *)
(* r precedes q in the array exactly when r > q.                           *)
(***************************************************************************)
EXTENDS Integers, Sequences, FiniteSets

CONSTANTS MaxRuns,      \* runs ever started (a bound of the model)
          Ingest,       \* the runs whose action is "paper-ingest"
          Sourced,      \* those bound to an acquisition or a saved PDF
          Limits,       \* the history limits the user may choose
          DefaultLimit,
          MaxSessions,  \* plugin loads (a bound of the model)
          MaxQueue,     \* pending saves (a bound of the model)
          SaveFaults    \* may a write of data.json fail?

Runs == 1..MaxRuns

(* data.json lists at most 300 runs (persistence.ts:171); the model stays  *)
(* below that cut.                                                         *)
ASSUME HistoryAssumption ==
  /\ MaxRuns \in Nat /\ MaxRuns <= 300
  /\ Sourced \subseteq Ingest /\ Ingest \subseteq Runs
  /\ Limits \subseteq Nat /\ DefaultLimit \in Limits
  /\ MaxSessions \in Nat /\ MaxQueue \in Nat
  /\ SaveFaults \in BOOLEAN

VARIABLES phase,    \* "down", "loading" or "up"
          session,  \* plugin loads so far; stamps finishedAt
          nextId,   \* the next run to be started
          mem,      \* plugin.taskRuns
          limit,    \* settings.taskHistoryLimit
          op,       \* the mutation that holds withTaskRunMutation, or the load
          ack,      \* the save that operation awaits
          saveq,    \* DashboardPersistence.saveQueue
          disk,     \* data.json
          sidecar,  \* task-output/dashboard-runs/<run>.json
          ordered,  \* ghost: runs whose deletion marker was durably accepted
          asked     \* ghost: runs something other than a start wanted deleted

vars == <<phase, session, nextId, mem, limit, op, ack, saveq, disk, sidecar,
          ordered, asked>>

Terminal == {"done", "failed", "interrupted"}
Status   == {"absent", "running"} \cup Terminal

(* A TaskRun.  fin is finishedAt (the session it was set in), out says     *)
(* that outputPath is set, mark is cleanupPending, compl completionPending.*)
Record == [st : Status, fin : Nat, out : BOOLEAN, mark : BOOLEAN,
           compl : BOOLEAN]
NoRun  == [st |-> "absent", fin |-> 0, out |-> FALSE, mark |-> FALSE,
           compl |-> FALSE]
Empty  == [r \in Runs |-> NoRun]

(* The completion journal a sidecar holds; st = "absent" when no file is.  *)
Journal == [st : {"absent"} \cup Terminal, fin : Nat]
NoFile  == [st |-> "absent", fin |-> 0]

Present(m) == {r \in Runs : m[r].st # "absent"}
(* Faulty variant: takes a journalled completion for a pending deletion.   *)
MarkedOrJournalled(m) == {r \in Runs : m[r].mark \/ m[r].compl}

Marked(m)  == {r \in Runs : m[r].mark}
Newest(S, n) == {r \in S : Cardinality({q \in S : q > r}) < n}

(* Faulty variant: a run loses its place in data.json as soon as it is not *)
(* running any more.                                                       *)
ExceptionalUnjournalled(m, r) == m[r].st = "running" \/ r \in Sourced

(***************************************************************************)
(* selectTaskRunsForPersistence: the newest lim runs and, of the others,   *)
(* those still running, journalled, or bound to a source.                  *)
(***************************************************************************)
Exceptional(m, r) ==
  m[r].st = "running" \/ m[r].mark \/ m[r].compl \/ r \in Sourced

Selected(m, lim) ==
  [r \in Runs |-> IF r \in Newest(Present(m), lim) \/ Exceptional(m, r)
                  THEN m[r] ELSE NoRun]

Snapshot(m, lim, mine) == [runs |-> Selected(m, lim), limit |-> lim, own |-> mine]

Operation == [kind : {"none", "start", "finish", "limit", "clear", "progress", "load"},
              pc : {"idle", "sidecar", "phase1", "unlink", "phase2", "pending",
                    "loadsave"},
              run : 0..MaxRuns, evict : SUBSET Runs, todo : SUBSET Runs,
              failed : SUBSET Runs, orig : [Runs -> Record], orig_limit : Limits,
              changed : BOOLEAN]

NoOp == [kind |-> "none", pc |-> "idle", run |-> 0, evict |-> {}, todo |-> {},
         failed |-> {}, orig |-> Empty, orig_limit |-> DefaultLimit,
         changed |-> FALSE]

Idle == phase = "up" /\ op.pc = "idle"

Init == /\ phase = "down" /\ session = 0 /\ nextId = 1
        /\ mem = Empty /\ limit = DefaultLimit
        /\ op = NoOp /\ ack = "none" /\ saveq = <<>>
        /\ disk = [runs |-> Empty, limit |-> DefaultLimit]
        /\ sidecar = [r \in Runs |-> NoFile]
        /\ ordered = {} /\ asked = {}

-----------------------------------------------------------------------------
(***************************************************************************)
(* persistTaskRunRetention, first phase.  Runs over the limit are marked   *)
(* in memory and the marked history is saved before anything is deleted.   *)
(***************************************************************************)
Evictable(m, lim) ==
  {r \in Present(m) \ Newest(Present(m), lim) :
     m[r].st # "running" /\ ~m[r].mark /\ r \notin Sourced}

MarkAll(m, S) == [r \in Runs |-> IF r \in S THEN [m[r] EXCEPT !.mark = TRUE]
                                 ELSE m[r]]

RequestSave(m, lim) ==
  /\ saveq' = Append(saveq, Snapshot(m, lim, TRUE))
  /\ ack' = "wait"

(* m is the history to retain; orig and orig_limit are what a rejected     *)
(* first save restores.                                                    *)
Retain(kind, m, lim, S, orig, orig_limit, changed) ==
  /\ mem' = MarkAll(m, S)
  /\ limit' = lim
  /\ RequestSave(MarkAll(m, S), lim)
  /\ op' = [NoOp EXCEPT !.kind = kind, !.pc = "phase1", !.evict = S,
                        !.orig = orig, !.orig_limit = orig_limit,
                        !.changed = changed]
  /\ asked' = IF kind = "start" THEN asked ELSE asked \cup S

(* Faulty variant: the running intake is checked before queueing only.     *)
StartUnchecked ==
  /\ Idle /\ nextId \in Runs
  /\ LET m == [mem EXCEPT ![nextId] = [NoRun EXCEPT !.st = "running"]]
     IN Retain("start", m, limit,
               IF nextId \in Sourced THEN {} ELSE Evictable(m, limit),
               mem, limit, FALSE)
  /\ nextId' = nextId + 1
  /\ UNCHANGED <<phase, session, disk, sidecar, ordered>>

(* startTaskRun.  A run bound to a source never evicts others.             *)
Start ==
  /\ Idle /\ nextId \in Runs
  /\ nextId \in Ingest => \A r \in Ingest : mem[r].st # "running"
  /\ LET run == [NoRun EXCEPT !.st = "running"]
         m   == [mem EXCEPT ![nextId] = run]
     IN Retain("start", m, limit,
               IF nextId \in Sourced THEN {} ELSE Evictable(m, limit),
               mem, limit, FALSE)
  /\ nextId' = nextId + 1
  /\ UNCHANGED <<phase, session, disk, sidecar, ordered>>

(* Faulty variant: the stored limit is not the one that was chosen.        *)
SetLimitOffByOne(lim) ==
  /\ Idle
  /\ Retain("limit", mem, lim - 1, Evictable(mem, lim), mem, limit, FALSE)
  /\ UNCHANGED <<phase, session, nextId, disk, sidecar, ordered, asked>>

(* setTaskHistoryLimit.                                                    *)
SetLimit(lim) ==
  /\ Idle
  /\ Retain("limit", mem, lim, Evictable(mem, lim), mem, limit, FALSE)
  /\ UNCHANGED <<phase, session, nextId, disk, sidecar, ordered>>

(* clearCompletedTaskHistory.  finishingTaskRunIds is empty here: it is    *)
(* filled and emptied inside one queued finishTaskRun.                     *)
Clear ==
  /\ Idle
  /\ Retain("clear", mem, limit, {r \in Present(mem) : mem[r].st # "running"},
            mem, limit, FALSE)
  /\ UNCHANGED <<phase, session, nextId, disk, sidecar, ordered>>

(* updateIngestProgress saves a stage transition of a running intake       *)
(* through the same queue; the stage itself is data.                       *)
IngestProgress(r) ==
  /\ Idle /\ r \in Ingest /\ mem[r].st = "running"
  /\ Retain("progress", mem, limit, {}, mem, limit, FALSE)
  /\ UNCHANGED <<phase, session, nextId, disk, sidecar, ordered>>

(* Faulty variant: a settled run may be finished again.                    *)
FinishTwice(r, outcome) ==
  /\ Idle /\ mem[r].st # "absent"
  /\ mem' = [mem EXCEPT ![r] = [st |-> outcome, fin |-> session, out |-> FALSE,
                                mark |-> FALSE, compl |-> TRUE]]
  /\ op' = [NoOp EXCEPT !.kind = "finish", !.pc = "sidecar", !.run = r]
  /\ UNCHANGED <<phase, session, nextId, limit, ack, saveq, disk, sidecar, ordered, asked>>

(* finishTaskRun up to the awaited sidecar write.                          *)
Finish(r, outcome) ==
  /\ Idle /\ mem[r].st = "running"
  /\ mem' = [mem EXCEPT ![r] = [st |-> outcome, fin |-> session, out |-> FALSE,
                                mark |-> FALSE, compl |-> TRUE]]
  /\ op' = [NoOp EXCEPT !.kind = "finish", !.pc = "sidecar", !.run = r]
  /\ UNCHANGED <<phase, session, nextId, limit, ack, saveq, disk, sidecar, ordered, asked>>

(* The sidecar is written through a temporary file and a rename, so it is  *)
(* there in full or not at all.  The finish goes on either way.            *)
Journalled(written) ==
  /\ op.pc = "sidecar"
  /\ LET r == op.run
         m == [mem EXCEPT ![r].out = written, ![r].compl = FALSE]
     IN /\ sidecar' = IF written
                      THEN [sidecar EXCEPT ![r] = [st |-> mem[r].st, fin |-> mem[r].fin]]
                      ELSE sidecar
        /\ Retain("finish", m, limit,
                  IF r \in Sourced THEN {} ELSE Evictable(m, limit),
                  m, limit, FALSE)
  /\ UNCHANGED <<phase, session, nextId, disk, ordered>>

-----------------------------------------------------------------------------
(* saveSettings called from outside the mutation queue.                    *)
OtherSave ==
  /\ phase = "up" /\ Len(saveq) < MaxQueue
  /\ saveq' = Append(saveq, Snapshot(mem, limit, FALSE))
  /\ UNCHANGED <<phase, session, nextId, mem, limit, op, ack, disk, sidecar, ordered, asked>>

(* Faulty variant: a failed save never answers the caller that awaits it.  *)
WriteUnanswered(ok) ==
  /\ saveq # <<>>
  /\ ok \/ SaveFaults
  /\ saveq' = Tail(saveq)
  /\ disk' = IF ok THEN [runs |-> Head(saveq).runs, limit |-> Head(saveq).limit]
                   ELSE disk
  /\ ack' = IF Head(saveq).own /\ ok THEN "ok" ELSE ack
  /\ ordered' = IF Head(saveq).own /\ ok /\ op.pc = "phase1"
                THEN ordered \cup op.evict ELSE ordered
  /\ UNCHANGED <<phase, session, nextId, mem, limit, op, sidecar, asked>>

(* The head of the save queue: a failed save is reported to its own caller *)
(* and never holds up the saves behind it.                                 *)
Write(ok) ==
  /\ saveq # <<>>
  /\ ok \/ SaveFaults
  /\ saveq' = Tail(saveq)
  /\ disk' = IF ok THEN [runs |-> Head(saveq).runs, limit |-> Head(saveq).limit]
                   ELSE disk
  /\ ack' = IF Head(saveq).own THEN IF ok THEN "ok" ELSE "err" ELSE ack
  /\ ordered' = IF Head(saveq).own /\ ok /\ op.pc = "phase1"
                THEN ordered \cup op.evict ELSE ordered
  /\ UNCHANGED <<phase, session, nextId, mem, limit, op, sidecar, asked>>

-----------------------------------------------------------------------------
(* After the last awaited save of a mutation: a load goes on to save what  *)
(* it changed, anything else releases the queue.                           *)
Conclude(m, lim, changed) ==
  IF op.kind = "load" /\ changed
  THEN /\ RequestSave(m, lim)
       /\ op' = [NoOp EXCEPT !.kind = "load", !.pc = "loadsave"]
       /\ UNCHANGED phase
  ELSE /\ op' = NoOp /\ ack' = "none" /\ phase' = "up"
       /\ UNCHANGED saveq

(* Faulty variant: the outputs are deleted without awaiting the first save.*)
AcceptedUnawaited ==
  /\ op.pc = "phase1" /\ ack \in {"wait", "ok"}
  /\ IF op.evict = {} /\ op.kind # "clear"
     THEN Conclude(mem, limit, op.changed)
     ELSE /\ op' = [op EXCEPT !.pc = "unlink", !.todo = op.evict]
          /\ ack' = "none"
          /\ UNCHANGED <<phase, saveq>>
  /\ UNCHANGED <<session, nextId, mem, limit, disk, sidecar, ordered, asked>>

Accepted ==
  /\ op.pc = "phase1" /\ ack = "ok"
  /\ IF op.evict = {} /\ op.kind # "clear"
     THEN Conclude(mem, limit, op.changed)
     ELSE /\ op' = [op EXCEPT !.pc = "unlink", !.todo = op.evict]
          /\ ack' = "none"
          /\ UNCHANGED <<phase, saveq>>
  /\ UNCHANGED <<session, nextId, mem, limit, disk, sidecar, ordered, asked>>

(* A rejected first save restores the history; during a load it stops the  *)
(* load instead, and with it the plugin.                                   *)
Rejected ==
  /\ op.pc \in {"phase1", "loadsave"} /\ ack = "err"
  /\ IF op.kind = "load"
     THEN phase' = "down" /\ mem' = Empty /\ saveq' = <<>> /\ UNCHANGED limit
     ELSE mem' = op.orig /\ limit' = op.orig_limit /\ UNCHANGED <<phase, saveq>>
  /\ op' = NoOp /\ ack' = "none"
  /\ UNCHANGED <<session, nextId, disk, sidecar, ordered, asked>>

(* The order of the for loops over taskRuns: newest first.                 *)
First(r, S) == r \in S /\ \A q \in S : q <= r

Unlink(r, ok) ==
  /\ op.pc = "unlink" /\ First(r, op.todo)
  /\ op' = [op EXCEPT !.todo = @ \ {r}, !.failed = IF ok THEN @ ELSE @ \cup {r}]
  /\ sidecar' = IF ok THEN [sidecar EXCEPT ![r] = NoFile] ELSE sidecar
  /\ UNCHANGED <<phase, session, nextId, mem, limit, ack, saveq, disk, ordered, asked>>

(* Second phase: only runs whose file is gone leave the history.           *)
Retire ==
  /\ op.pc = "unlink" /\ op.todo = {}
  /\ LET m == [r \in Runs |-> IF r \in op.evict \ op.failed THEN NoRun ELSE mem[r]]
     IN mem' = m /\ RequestSave(m, limit)
  /\ op' = [op EXCEPT !.pc = "phase2"]
  /\ UNCHANGED <<phase, session, nextId, limit, disk, sidecar, ordered, asked>>

(* The final save may fail: the markers on disk let the next load finish.  *)
Retired ==
  /\ op.pc = "phase2" /\ ack \in {"ok", "err"}
  /\ Conclude(mem, limit, op.changed)
  /\ UNCHANGED <<session, nextId, mem, limit, disk, sidecar, ordered, asked>>

-----------------------------------------------------------------------------
(* loadSettings: read data.json (some other part of it may need a          *)
(* migration and so a save), resume the marked deletions, ...              *)
LoadBegin ==
  /\ phase = "down" /\ session < MaxSessions
  /\ phase' = "loading" /\ session' = session + 1
  /\ mem' = Selected(disk.runs, disk.limit)
  /\ limit' = disk.limit
  /\ \E migrated \in BOOLEAN :
       op' = [NoOp EXCEPT !.kind = "load", !.pc = "pending", !.changed = migrated,
                          !.todo = Marked(Selected(disk.runs, disk.limit))]
  /\ UNCHANGED <<nextId, ack, saveq, disk, sidecar, ordered, asked>>

LoadUnlink(r, ok) ==
  /\ op.pc = "pending" /\ First(r, op.todo)
  /\ op' = [op EXCEPT !.todo = @ \ {r}, !.changed = @ \/ ok]
  /\ sidecar' = IF ok THEN [sidecar EXCEPT ![r] = NoFile] ELSE sidecar
  /\ mem' = IF ok THEN [mem EXCEPT ![r] = NoRun] ELSE mem
  /\ UNCHANGED <<phase, session, nextId, limit, ack, saveq, disk, ordered, asked>>

(* Faulty variant: the journal is not consulted.                           *)
ReconciledNever(rec, file) ==
  IF rec.mark \/ rec.st = "absent" THEN rec ELSE [rec EXCEPT !.compl = FALSE]

(* ... let a completion journal win over a stale running record ...        *)
Reconciled(rec, file) ==
  IF rec.mark \/ rec.st = "absent" THEN rec
  ELSE IF file.st # "absent"
          /\ (rec.st = "running" \/ (rec.fin = file.fin /\ rec.st = file.st))
       THEN [rec EXCEPT !.compl = FALSE, !.st = file.st, !.fin = file.fin, !.out = TRUE]
       ELSE [rec EXCEPT !.compl = FALSE]

(* ... and mark what is still running as interrupted.                      *)
Interrupt(rec) ==
  IF rec.st = "running" THEN [rec EXCEPT !.st = "interrupted", !.fin = session]
  ELSE rec

LoadReconcile ==
  /\ op.pc = "pending" /\ op.todo = {}
  /\ LET m       == [r \in Runs |-> Interrupt(Reconciled(mem[r], sidecar[r]))]
         changed == op.changed \/ m # mem
     IN IF Cardinality(Present(m)) > limit
        THEN /\ Retain("load", m, limit, Evictable(m, limit), m, limit, changed)
             /\ UNCHANGED phase
        ELSE /\ mem' = m /\ UNCHANGED <<limit, asked>>
             /\ Conclude(m, limit, changed)
  /\ UNCHANGED <<session, nextId, disk, sidecar, ordered>>

LoadSaved ==
  /\ op.pc = "loadsave" /\ ack = "ok"
  /\ op' = NoOp /\ ack' = "none" /\ phase' = "up"
  /\ UNCHANGED <<session, nextId, mem, limit, saveq, disk, sidecar, ordered, asked>>

(* The host closes or the plugin is disabled: memory and queued saves are  *)
(* gone, files stay.                                                       *)
Crash ==
  /\ phase # "down"
  /\ phase' = "down" /\ mem' = Empty /\ saveq' = <<>>
  /\ op' = NoOp /\ ack' = "none"
  /\ UNCHANGED <<session, nextId, limit, disk, sidecar, ordered, asked>>

-----------------------------------------------------------------------------
(* What the plugin does once asked: each step is a callback of the event   *)
(* loop that the host must eventually run.                                 *)
Written == \E ok \in BOOLEAN : Write(ok)

Resumed ==
  \/ \E ok \in BOOLEAN : Journalled(ok)
  \/ \E r \in Runs, ok \in BOOLEAN : Unlink(r, ok) \/ LoadUnlink(r, ok)
  \/ Accepted \/ Rejected \/ Retire \/ Retired
  \/ LoadReconcile \/ LoadSaved

Next ==
  \/ Start \/ Clear
  \/ \E lim \in Limits : SetLimit(lim)
  \/ \E r \in Runs, o \in Terminal : Finish(r, o)
  \/ \E r \in Runs : IngestProgress(r)
  \/ OtherSave
  \/ LoadBegin \/ Crash
  \/ Written \/ Resumed

Spec == Init /\ [][Next]_vars

FairSpec == Spec /\ WF_vars(Written) /\ WF_vars(Resumed)

-----------------------------------------------------------------------------
(* The state the plugin keeps: one record per run, one journal per sidecar *)
(* file, a bounded queue of whole-file snapshots.                          *)
Snapshots == [runs : [Runs -> Record], limit : Limits, own : BOOLEAN]

TypeOK ==
  /\ phase \in {"down", "loading", "up"}
  /\ session \in 0..MaxSessions
  /\ nextId \in 1..(MaxRuns + 1)
  /\ mem \in [Runs -> Record]
  /\ limit \in Limits
  /\ op \in Operation
  /\ ack \in {"none", "wait", "ok", "err"}
  /\ saveq \in Seq(Snapshots)
  /\ disk \in [runs : [Runs -> Record], limit : Limits]
  /\ sidecar \in [Runs -> Journal]
  /\ ordered \subseteq Runs /\ asked \subseteq Runs

(* A run that data.json lists with an outputPath, and that no deletion has *)
(* been ordered for, has the sidecar it points to, and readOutputPayload   *)
(* accepts it: status and finishedAt are those of the record.  This must   *)
(* hold wherever the plugin stops and whichever saves fail.                *)
CommittedOutputReadable ==
  \A r \in Runs :
    disk.runs[r].out /\ ~disk.runs[r].mark =>
      sidecar[r] = [st |-> disk.runs[r].st, fin |-> disk.runs[r].fin]

(* The outcome in memory and the one in the completion journal agree for   *)
(* every run that is not being deleted, so that the recovery of the next   *)
(* load cannot contradict what the dashboard has shown.                    *)
OutcomeAgrees ==
  phase = "up" =>
    \A r \in Runs :
      sidecar[r].st # "absent" /\ mem[r].st # "absent" /\ ~mem[r].mark =>
        sidecar[r].st = mem[r].st

(* Two dialogs never have a paper intake running at once (the check inside *)
(* the queue of startTaskRun).                                             *)
SingleIngest ==
  \A r, q \in Ingest : mem[r].st = "running" /\ mem[q].st = "running" => r = q

(* An output is only deleted once the marker that orders its deletion is   *)
(* durable through the operation that wants it gone.                       *)
UnlinkIsOrdered ==
  [][\A r \in Runs : sidecar[r].st # "absent" /\ sidecar'[r].st = "absent"
        => r \in ordered]_vars

(* startTaskRun: a failed start save leaves every old output, so whatever  *)
(* is deleted without a durable order was not marked by a start alone.     *)
FailedStartSparesOutputs ==
  [][\A r \in Runs : sidecar[r].st # "absent" /\ sidecar'[r].st = "absent"
        => r \in ordered \cup asked]_vars

(* finishTaskRun: once the journal of a run is written, the next load can  *)
(* recover the outcome from it, for data.json still lists the run.         *)
(* It needs saves that succeed, and a run bound to a source that starts    *)
(* while the history has room for it.                                      *)
JournalRecoverable ==
  \A r \in Runs : sidecar[r].st # "absent" /\ r \notin ordered
                     => disk.runs[r].st # "absent"

(* The outcome a reload would show, and the ledger it implements.          *)
Outcome(r) ==
  CASE disk.runs[r].st = "absent" -> IF r \in ordered THEN "retired" ELSE "absent"
    [] disk.runs[r].st \in Terminal -> disk.runs[r].st
    [] OTHER -> IF sidecar[r].st # "absent" THEN sidecar[r].st ELSE "running"

Ledger == INSTANCE TaskRunLedger WITH ledger <- [r \in Runs |-> Outcome(r)]

(* Whatever the interleaving of mutations, saves and crashes, a durable    *)
(* outcome is never replaced by another one and never lost before it is    *)
(* retired.                                                                *)
ImplementsLedger == Ledger!Spec

(* Every mutation that was begun ends and lets the next one through: all   *)
(* it waits for, the saves of others before its own included, is answered, *)
(* whether that succeeds or not.                                           *)
QueueReleased == op.pc # "idle" ~> (op.pc = "idle")
=============================================================================
