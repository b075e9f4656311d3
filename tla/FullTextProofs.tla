--------------------------- MODULE FullTextProofs ---------------------------
(***************************************************************************)
(* Proofs about AcquisitionService, for any number of jobs, attempts,      *)
(* candidates, previews, faults and sessions: a stop that was granted      *)
(* holds, what is called acquired has its snapshot, a job under way has a  *)
(* run, and the journal can be read back.                                  *)
(***************************************************************************)
EXTENDS FullTextAcquisition, SequenceTheorems, TLAPS

Phases == {"none", "queued", "resolving", "discovering", "awaiting_selection",
           "downloading", "verifying", "acquired", "failed", "cancelled",
           "interrupted", "no_match", "conflict", "needs_configuration"}
Record == [phase : Phases, attempt : 0 .. MaxIds, pick : Nat, open : BOOLEAN,
           snap : 0 .. MaxIds, linked : BOOLEAN, rev : Nat]

Asking == {"resolve", "discover", "download", "verify", "fallback"}
Flow   == [pc : Asking \cup {"ended", "staging", "offered"}, job : Jobs \cup {0},
           id : 0 .. MaxIds, armed : BOOLEAN, aborted : BOOLEAN, committing : BOOLEAN]

Stages  == {"resolving", "discovering", "awaiting_selection", "verifying", "fallback",
            "next", "reoffered", "no_match", "conflict",
            "failed", "unmatched", "conflicting", "unconfigured"}
Steps   == {"stage", "commit"}                   \* the work of a run
Ends    == {"stop", "timeout"}                   \* of one that is aborted
Begins  == {"start", "fresh", "retry"}           \* of one that is to be
Asked   == Begins \cup {"choose", "link", "mark", "close"}
Others  == {"broken", "closed", "recover"}       \* work that is not queued
Queued  == [kind : Steps \cup Ends \cup Asked, job : Jobs, by : 0 .. MaxIds,
            to : Stages \cup {"none"}, rec : Record]
Work    == [kind : Steps \cup Ends \cup Asked \cup Others \cup {"none"}, job : Jobs \cup {0},
            by : 0 .. MaxIds, to : Stages \cup {"none"}, rec : Record]
Waiting == 1 .. Len(queue)

-----------------------------------------------------------------------------
(* Types.                                                                  *)
DiskType == /\ DOMAIN journal = Jobs /\ \A j \in Jobs : journal[j] \in Seq(Record)
            /\ snapshots \subseteq [id : 0 .. MaxIds, by : Runs]

MemoryType == /\ service \in {"down", "loading", "up", "closing", "closed"} /\ todo \subseteq Jobs
              /\ saved \in [Jobs -> Record] /\ volatile \in [Jobs -> Record]
              /\ previews \subseteq [job : Jobs, rec : Record]

RunType == /\ attempt \in [Jobs -> 0 .. MaxIds] /\ ids \in 0 .. MaxIds
           /\ flow \in [Runs -> Flow] /\ stopped \subseteq Runs /\ stale \subseteq Jobs

QueueType == queue \in Seq(Queued)

TaskType == /\ task \in [op : Work, next : Record, at : {"none", "job", "snapshot"}]
            /\ task.at = "none" => task = NoTask
            /\ task.at # "none" => task.op.job \in Jobs /\ task.op.kind \notin {"none", "close"}
            /\ task.op.kind = "stage" => task.op.to # "none"

-----------------------------------------------------------------------------
(* Ids: none is in use that was not issued; a run has one job, and its     *)
(* work is work on that job; the attempt that is about to be saved is of   *)
(* no run yet.                                                             *)
Issued == /\ \A t \in stopped : t <= ids
          /\ \A s \in snapshots : s.by <= ids
          /\ \A j \in Jobs : attempt[j] <= ids
          /\ \A i \in Waiting : queue[i].by <= ids
          /\ \A t \in Runs : t > ids => flow[t] = Ended

Owned == /\ \A j \in Jobs : attempt[j] # 0 => flow[attempt[j]].job = j
         /\ \A t \in Runs : flow[t].pc # "ended" => flow[t].job # 0
         /\ \A i \in Waiting : queue[i].kind \in Steps \cup Ends =>
              queue[i].by # 0 /\ flow[queue[i].by].job \in {0, queue[i].job}
         /\ task.op.kind \in Steps \cup Ends \cup {"choose"} =>
              task.op.by # 0 /\ flow[task.op.by].job \in {0, task.op.job}

Unused(a) == /\ a \in 1 .. ids /\ flow[a] = Ended /\ a \notin stopped
             /\ \A s \in snapshots : s.by # a
             /\ \A j \in Jobs : attempt[j] # a
             /\ \A i \in Waiting : queue[i].by # a

NewRun == task.op.kind \in Begins => task.at = "job" /\ Unused(task.next.attempt)

(* A run has one piece of work at a time, and waits for it.                *)
OneStep ==
  /\ \A i \in Waiting : queue[i].kind \in Steps => flow[queue[i].by].pc = "staging"
  /\ \A i, k \in Waiting :
       /\ {queue[i].kind, queue[k].kind} \subseteq Steps
       /\ queue[i].by = queue[k].by
       => i = k
  /\ task.op.kind \in Steps =>
       /\ flow[task.op.by].pc = "staging"
       /\ \A i \in Waiting : queue[i].kind \in Steps => queue[i].by # task.op.by
  /\ task.op.kind = "choose" => flow[task.op.by].pc = "offered"

(* Work that is of no run names none that has a job.                       *)
Unowned ==
  /\ \A i \in Waiting : queue[i].kind \in Asked => queue[i].by = 0
  /\ task.op.kind \notin Steps \cup {"choose"} =>
       \A j \in Jobs : attempt[j] # 0 => attempt[j] # task.op.by

-----------------------------------------------------------------------------
(* A run that was stopped is not committing, and never will: the one that  *)
(* writes a snapshot, or has written one and still has its job, was not    *)
(* stopped, and can no longer be.                                          *)
Stops == /\ \A t \in stopped : /\ ~flow[t].committing
                               /\ \A j \in Jobs : attempt[j] = t => flow[t].aborted
         /\ task.at = "snapshot" => /\ task.op.kind = "commit"
                                    /\ task.op.by \notin stopped
                                    /\ flow[task.op.by].committing
         /\ \A s \in snapshots : \A j \in Jobs : attempt[j] = s.by => flow[s.by].committing
         /\ StopHonoured

-----------------------------------------------------------------------------
(* What the record of a job says and where its run is go together, as long *)
(* as the run has the job and was not aborted.                             *)
Renames == {"next", "reoffered"}

Named(j)  == Get(j).attempt = flow[attempt[j]].id
Fetched(j) == /\ Get(j).phase = "verifying" /\ Get(j).snap = Get(j).attempt /\ Named(j)

Running(j) == service = "up" /\ attempt[j] # 0 /\ ~flow[attempt[j]].aborted

Follows(j) ==
  LET t == attempt[j] IN
  /\ Get(j).phase = "awaiting_selection" => flow[t].pc = "offered"
  /\ j \notin stale =>
       /\ Active(Get(j).phase) /\ flow[t].pc # "ended"
       /\ flow[t].pc # "staging" => Named(j)
       /\ flow[t].pc = "verify" => Fetched(j)
       /\ \A i \in Waiting : queue[i].by = t =>
            /\ queue[i].kind = "commit" => Fetched(j)
            /\ queue[i].kind = "stage" /\ queue[i].to \notin Renames => Named(j)

Followed == \A j \in Jobs : Running(j) => Follows(j)

(* The end of a run that was aborted waits in the queue.                   *)
EndWaits ==
  \A j \in Jobs : service = "up" /\ attempt[j] # 0 /\ flow[attempt[j]].aborted =>
    \E i \in Waiting : queue[i].kind \in Ends /\ queue[i].job = j /\ queue[i].by = attempt[j]

(* A job without a run is not under way, but for the save of its end.      *)
Settled ==
  \A j \in Jobs \ stale : service = "up" /\ attempt[j] = 0 /\ Active(Get(j).phase) =>
    task.at = "job" /\ task.op.job = j /\ task.op.kind \in Ends

Begun == \A j \in Jobs \ stale : attempt[j] # 0 => Get(j).phase # "acquired" /\ saved[j] # NoJob

-----------------------------------------------------------------------------
(* What the work under way is about to write over its job.                 *)
OfStage(op, r) ==
  /\ attempt[op.job] = op.by /\ op.to # "none" /\ r.attempt = flow[op.by].id /\ r.phase # "acquired"
  /\ r.phase = "awaiting_selection" <=> After(op.to) = "offered"
  /\ op.to = "verifying" => r.phase = "verifying" /\ r.snap = r.attempt
  /\ Active(r.phase) <=> After(op.to) # "ended"

Writes(op, r) ==
  /\ op.kind = "stage" => OfStage(op, r)
  /\ op.kind = "choose" => /\ attempt[op.job] = op.by /\ r.attempt = flow[op.by].id
                           /\ r.phase = "downloading"
  /\ op.kind = "commit" => attempt[op.job] = op.by /\ r.phase \in {"acquired", "failed"}
  /\ op.kind \in Begins => r.phase = "queued"
  /\ op.kind \in {"start", "fresh"} => Get(op.job) = NoJob
  /\ op.kind \in Ends \cup {"link", "mark", "broken"} => attempt[op.job] = 0
  /\ op.kind \in Ends \cup {"link", "mark"} \cup Others => ~Active(r.phase)
  /\ op.kind \in {"closed", "recover"} => service # "up"
  /\ op.kind = "closed" => r.phase = "interrupted"

Offers(op, r) == r.phase = "awaiting_selection" =>
  op.kind = "stage" /\ After(op.to) = "offered" /\ attempt[op.job] = op.by

Written == task.at = "job" => /\ Offers(task.op, task.next)
                              /\ task.op.job \notin stale => Writes(task.op, task.next)

(* A snapshot is written under the name that the record has for it.        *)
Committed ==
  task.at = "snapshot" /\ task.op.job \notin stale =>
    /\ attempt[task.op.job] = task.op.by
    /\ task.next = Get(task.op.job) /\ task.next.snap = task.next.attempt
    /\ task.next.snap = flow[task.op.by].id

Marks == /\ \A i \in Waiting : /\ queue[i].kind = "mark" => queue[i].rec.phase = "acquired"
                               /\ queue[i].kind = "stage" => queue[i].to # "none"
         /\ \A p \in previews : p.rec.phase = "acquired"
         /\ \A j \in Jobs : volatile[j].phase \in {"none", "failed"}

Backed(r) == r.phase = "acquired" => r.snap = r.attempt /\ \E s \in snapshots : s.id = r.snap

Backing ==
  \A j \in Jobs \ stale :
    /\ Backed(saved[j]) /\ \A i \in 1 .. Len(journal[j]) : Backed(journal[j][i])
    /\ task.at = "job" /\ task.op.job = j => Backed(task.next) /\ task.next # NoJob

-----------------------------------------------------------------------------
(* A record is above the file it came from, and one that is to be written  *)
(* above both, as long as the save of a link, which leaves the repository  *)
(* behind when it fails, does not fail.                                    *)
LinksSave == "link" \notin CanFail

Above(j, r) == /\ saved[j].rev < r.rev /\ Get(j).rev < r.rev
               /\ journal[j] # <<>> => journal[j][1].rev < r.rev

Revisions == LinksSave =>
  \A j \in Jobs \ stale :
    /\ Len(journal[j]) <= 1
    /\ volatile[j] # NoJob => saved[j].rev < volatile[j].rev
    /\ journal[j] # <<>> /\ service # "down" /\ Get(j) # NoJob => journal[j][1].rev <= Get(j).rev
    /\ task.at = "job" /\ task.op.job = j => Above(j, task.next)
    /\ task.at = "snapshot" /\ task.op.job = j => Get(j) # NoJob

-----------------------------------------------------------------------------
(* The plugin is closed, or looks through its journal: nothing else runs.  *)
Sessions ==
  /\ service \in {"down", "loading"} =>
       /\ attempt = [j \in Jobs |-> 0] /\ flow = [t \in Runs |-> Ended]
       /\ queue = <<>> /\ previews = {}
  /\ service = "down" => task = NoTask /\ saved = Empty /\ volatile = Empty
  /\ service = "loading" =>
       /\ task.at # "none" => task.op.kind = "recover" /\ task.op.job \notin todo
       /\ \A j \in todo : volatile[j] = NoJob /\ saved[j] # NoJob
       /\ \A j \in Jobs \ stale : \/ j \in todo \/ ~Active(Get(j).phase)
                                  \/ task.at = "job" /\ task.op.job = j
  /\ service \notin {"down", "loading"} => todo = {} /\ task.op.kind # "recover"

Types == DiskType /\ MemoryType /\ RunType /\ QueueType /\ TaskType
Names == Issued /\ Owned /\ NewRun /\ OneStep /\ Unowned
Course == Followed /\ EndWaits /\ Settled /\ Begun
Files == Written /\ Committed /\ Marks /\ Backing /\ Revisions
IInv  == Types /\ Names /\ Stops /\ Course /\ Files /\ Sessions

LEMMA Constants ==
  /\ Jobs # {} /\ 0 \notin Jobs /\ MaxIds \in Nat /\ Candidates \in Nat
  /\ NoJob \in Record /\ Ended \in Flow
  /\ \A r \in Record : r # NoJob \/ r.phase = "none"
BY AcquisitionAssumption DEF NoJob, Ended, Record, Phases, Flow, Asking

LEMMA OpIsWork ==
  ASSUME NEW kind \in Steps \cup Ends \cup Asked \cup Others, NEW j \in Jobs, NEW t \in 0 .. MaxIds
  PROVE  /\ Op(kind, j, t) \in Work
         /\ kind \notin Others => Op(kind, j, t) \in Queued
BY Constants DEF Op, Work, Queued, Steps, Ends, Asked, Begins, Others, Stages

LEMMA NoWork ==
  /\ NoTask \in [op : Work, next : Record, at : {"none", "job", "snapshot"}]
  /\ NoTask.at = "none" /\ NoTask.op.kind = "none"
<1>1. Op("none", 0, 0) \in Work /\ Op("none", 0, 0).kind = "none"
  BY Constants DEF Op, Work, Stages
<1> QED BY <1>1, Constants DEF NoTask

LEMMA GetIsRecord ==
  ASSUME MemoryType, NEW j \in Jobs
  PROVE  Get(j) \in Record
BY DEF MemoryType, Get

LEMMA QueueGrows ==
  ASSUME QueueType, NEW op \in Queued, queue' = Append(queue, op)
  PROVE  /\ QueueType' /\ Len(queue) \in Nat /\ Len(queue') = Len(queue) + 1
         /\ queue'[Len(queue) + 1] = op
         /\ \A i \in Waiting : queue'[i] = queue[i] /\ i \in 1 .. Len(queue')
         /\ \A i \in 1 .. Len(queue') : \/ i \in Waiting /\ queue'[i] = queue[i]
                                        \/ i = Len(queue) + 1 /\ queue'[i] = op
BY DEF QueueType, Waiting

LEMMA QueueShrinks ==
  ASSUME QueueType, queue # <<>>, queue' = Tail(queue)
  PROVE  /\ QueueType' /\ Len(queue) \in Nat \ {0} /\ Len(queue') = Len(queue) - 1
         /\ queue[1] \in Queued /\ 1 \in Waiting
         /\ \A i \in 1 .. Len(queue') : i + 1 \in Waiting /\ queue'[i] = queue[i + 1]
         /\ \A i \in Waiting : i # 1 => i - 1 \in 1 .. Len(queue') /\ queue'[i - 1] = queue[i]
BY DEF QueueType, Waiting

LEMMA InitIInv == Init => IInv
<1> SUFFICES ASSUME Init PROVE IInv
  OBVIOUS
<1> USE Constants DEF Init, Waiting
<1>1. DiskType /\ MemoryType /\ RunType /\ QueueType
  BY DEF DiskType, MemoryType, RunType, QueueType, Empty, Runs
<1>2. TaskType
  BY NoWork DEF TaskType
<1>3. Issued /\ Owned /\ NewRun /\ OneStep /\ Unowned
  <2>1. queue = <<>> /\ Len(queue) = 0 /\ task.op.kind = "none"
    BY DEF NoTask, Op
  <2> QED BY <2>1 DEF Issued, Owned, NewRun, OneStep, Unowned, Steps, Ends, Begins, Ended, Runs
<1>4. Stops
  BY DEF Stops, NoTask, StopHonoured
<1>5. Course
  BY DEF Course, Followed, Running, EndWaits, Settled, Begun, Empty, Get, NoJob, Active
<1>6. Files
  BY DEF Files, Written, Committed, Marks, Backing, Revisions, NoTask, Empty, NoJob, Backed
<1>7. Sessions
  BY DEF Sessions, NoTask, Op
<1> QED BY <1>1, <1>2, <1>3, <1>4, <1>5, <1>6, <1>7 DEF IInv, Types, Names

LEMMA InRuns == \A t \in 0 .. MaxIds : t # 0 => t \in Runs
BY Constants DEF Runs

LEMMA RunsAre == \A t \in Runs : t \in Nat /\ t # 0 /\ t \in 0 .. MaxIds
BY Constants DEF Runs

(* What the types say of the parts of the state.                           *)
LEMMA AttemptRange ==
  ASSUME RunType
  PROVE  \A j \in Jobs : attempt[j] \in 0 .. MaxIds /\ (attempt[j] # 0 => attempt[j] \in Runs)
BY InRuns DEF RunType

LEMMA QueueRange ==
  ASSUME QueueType
  PROVE  \A i \in Waiting : /\ queue[i] \in Queued /\ queue[i].job \in Jobs
                            /\ queue[i].by \in 0 .. MaxIds
                            /\ queue[i].by # 0 => queue[i].by \in Runs
<1> SUFFICES ASSUME NEW i \in Waiting
             PROVE  /\ queue[i] \in Queued /\ queue[i].job \in Jobs
                    /\ queue[i].by \in 0 .. MaxIds
                    /\ queue[i].by # 0 => queue[i].by \in Runs
  OBVIOUS
<1>1. queue[i] \in Queued
  BY DEF QueueType, Waiting
<1> QED BY <1>1, InRuns DEF Queued

LEMMA TaskRange ==
  ASSUME TaskType
  PROVE  /\ task.op \in Work /\ task.next \in Record /\ task.op.by \in 0 .. MaxIds
         /\ task.op.by # 0 => task.op.by \in Runs
<1>1. task.op \in Work /\ task.next \in Record
  BY DEF TaskType
<1> QED BY <1>1, InRuns DEF Work

LEMMA FlowRange ==
  ASSUME RunType
  PROVE  \A t \in Runs : /\ flow[t] \in Flow /\ flow[t].job \in Jobs \cup {0}
                         /\ flow[t].id \in 0 .. MaxIds
BY DEF RunType, Flow

(* The runs that the work waiting and under way speaks of.                 *)
LEMMA WorkersAre ==
  ASSUME QueueType, TaskType, Owned
  PROVE  /\ \A i \in Waiting : queue[i].kind \in Steps \cup Ends => queue[i].by \in Runs
         /\ task.op.kind \in Steps \cup Ends \cup {"choose"} => task.op.by \in Runs
BY QueueRange, TaskRange DEF Owned

LEMMA SnapshotRange ==
  ASSUME DiskType
  PROVE  \A s \in snapshots : s.by \in Runs
BY DEF DiskType

-----------------------------------------------------------------------------
(* The runs.                                                               *)

(* A run asks for a stage, or for the commit of the file it has checked,   *)
(* and waits for it.                                                       *)
Asks(t, op, id) ==
  /\ flow[t].pc \in Asking /\ op.kind \in Steps /\ op.job = flow[t].job /\ op.by = t
  /\ op.kind = "stage" => op.to # "none"
  /\ id # flow[t].id => op.kind = "stage" /\ op.to \in Renames
  /\ op.kind = "commit" => flow[t].pc = "verify"
  /\ flow' = [flow EXCEPT ![t] = [flow[t] EXCEPT !.pc = "staging", !.id = id]]
  /\ queue' = Append(queue, op)
  /\ ids' \in {ids, ids + 1}
  /\ RunFrame

LEMMA RunAsks ==
  ASSUME IInv, NEW t \in Runs, NEW op \in Queued, NEW id \in 0 .. MaxIds, Asks(t, op, id),
         ids' \in 0 .. MaxIds
  PROVE  IInv'
<1>r. /\ DiskType /\ MemoryType /\ RunType /\ QueueType /\ TaskType
      /\ Issued /\ Owned /\ NewRun /\ OneStep /\ Unowned /\ Stops
      /\ Followed /\ EndWaits /\ Settled /\ Begun
      /\ Written /\ Committed /\ Marks /\ Backing /\ Revisions /\ Sessions
  BY DEF IInv, Types, Names, Course, Files
<1>f. /\ UNCHANGED <<journal, snapshots, service, todo, saved, volatile, attempt, task>>
      /\ UNCHANGED <<previews, stopped, stale>>
  BY DEF Asks, RunFrame, disk, ghosts
<1>o. /\ flow[t].pc \in Asking /\ op.kind \in Steps /\ op.job = flow[t].job /\ op.by = t
      /\ op.kind = "stage" => op.to # "none"
      /\ op.kind = "commit" => flow[t].pc = "verify"
      /\ flow[t].pc # "staging" /\ flow[t].pc # "ended"
  BY DEF Asks, Asking
<1>n. id # flow[t].id => op.kind = "stage" /\ op.to \in Renames
  BY DEF Asks
<1>q. /\ QueueType' /\ Len(queue) \in Nat /\ Len(queue') = Len(queue) + 1
      /\ queue'[Len(queue) + 1] = op
      /\ \A i \in Waiting : queue'[i] = queue[i] /\ i \in Waiting'
      /\ \A i \in Waiting' : \/ i \in Waiting /\ queue'[i] = queue[i]
                             \/ i = Len(queue) + 1 /\ queue'[i] = op
  BY <1>r, QueueGrows DEF Asks, Waiting
<1>t. /\ \A u \in Runs : u # t => flow'[u] = flow[u]
      /\ flow'[t].pc = "staging" /\ flow'[t].id = id
      /\ flow' \in [Runs -> Flow]
  <2>1. [flow[t] EXCEPT !.pc = "staging", !.id = id] \in Flow
    BY <1>r DEF RunType, Flow
  <2> QED BY <1>r, <2>1 DEF Asks, RunType, Flow
<1>u. \A u \in Runs : /\ flow'[u].job = flow[u].job /\ flow'[u].aborted = flow[u].aborted
                      /\ flow'[u].committing = flow[u].committing
  BY <1>r DEF Asks, RunType, Flow
<1>i. ids \in Nat /\ ids <= ids' /\ t \in Nat /\ t <= ids
  <2>1. ids \in Nat /\ t \in Nat /\ ids' \in {ids, ids + 1}
    BY <1>r, RunsAre DEF Asks, RunType
  <2>2. flow[t] # Ended
    BY <1>o DEF Ended
  <2>3. t <= ids
    BY <1>r, <2>1, <2>2 DEF Issued
  <2> QED BY <2>1, <2>3
<1>1. DiskType' /\ MemoryType' /\ TaskType' /\ RunType'
  BY <1>r, <1>f, <1>t DEF DiskType, MemoryType, TaskType, RunType
<1>2. Issued'
  <2>1. \A i \in Waiting' : queue'[i].by <= ids'
    BY <1>r, <1>o, <1>q, <1>i, QueueRange DEF Issued
  <2>2. \A u \in Runs : u > ids' => flow'[u] = Ended
    BY <1>r, <1>t, <1>i, RunsAre DEF Issued
  <2>3. /\ \A u \in stopped : u <= ids'
        /\ \A s \in snapshots : s.by <= ids'
    <3>1. /\ \A u \in stopped : u \in Nat /\ u <= ids
          /\ \A s \in snapshots : s.by \in Nat /\ s.by <= ids
      BY <1>r, RunsAre, SnapshotRange DEF Issued, RunType
    <3> QED BY <1>i, <3>1
  <2>4. \A j \in Jobs : attempt[j] <= ids'
    BY <1>r, <1>i, AttemptRange DEF Issued
  <2> QED BY <1>f, <2>1, <2>2, <2>3, <2>4 DEF Issued
<1>3. Owned'
  <2>1. \A j \in Jobs : attempt[j] # 0 => flow'[attempt[j]].job = j
    BY <1>r, <1>u, AttemptRange DEF Owned
  <2>2. \A u \in Runs : flow'[u].pc # "ended" => flow'[u].job # 0
    BY <1>r, <1>o, <1>t, <1>u DEF Owned
  <2>3. \A i \in Waiting' : queue'[i].kind \in Steps \cup Ends =>
              queue'[i].by # 0 /\ flow'[queue'[i].by].job \in {0, queue'[i].job}
    BY <1>r, <1>o, <1>q, <1>u, RunsAre, WorkersAre DEF Owned
  <2> QED BY <1>r, <1>f, <1>u, <2>1, <2>2, <2>3, WorkersAre DEF Owned
<1>4. NewRun'
  <2> SUFFICES ASSUME task.op.kind \in Begins
               PROVE  task.at = "job" /\ Unused(task.next.attempt)'
    BY <1>f DEF NewRun
  <2>1. task.at = "job" /\ Unused(task.next.attempt)
    BY <1>r DEF NewRun
  <2> DEFINE a == task.next.attempt
  <2>2. a \in 1 .. ids' /\ a \in Runs
    <3>1. \A b \in 1 .. ids : b \in 1 .. ids' /\ b \in Runs
      BY <1>r, <1>i, Constants DEF Runs, RunType
    <3> QED BY <2>1, <3>1 DEF Unused
  <2>3. a # t
    BY <1>o, <2>1 DEF Unused, Ended
  <2> QED BY <1>f, <1>o, <1>q, <1>t, <2>1, <2>2, <2>3 DEF Unused
<1>5. OneStep'
  <2>1. \A i \in Waiting : queue[i].kind \in Steps => queue[i].by \in Runs \ {t}
    BY <1>r, <1>o, WorkersAre DEF OneStep
  <2>2. task.op.kind \in Steps \cup {"choose"} => task.op.by \in Runs \ {t}
    BY <1>r, <1>o, WorkersAre DEF OneStep, Asking
  <2>3. \A i \in Waiting' : queue'[i].kind \in Steps => flow'[queue'[i].by].pc = "staging"
    BY <1>r, <1>o, <1>q, <1>t, <2>1 DEF OneStep
  <2>4. ASSUME NEW i \in Waiting', NEW k \in Waiting', queue'[i].by = queue'[k].by,
               {queue'[i].kind, queue'[k].kind} \subseteq Steps
        PROVE  i = k
    BY <1>r, <1>o, <1>q, <2>1, <2>4 DEF OneStep
  <2>5. task.op.kind \in Steps =>
          /\ flow'[task.op.by].pc = "staging"
          /\ \A i \in Waiting' : queue'[i].kind \in Steps => queue'[i].by # task.op.by
    BY <1>r, <1>o, <1>q, <1>t, <2>2 DEF OneStep
  <2>6. task.op.kind = "choose" => flow'[task.op.by].pc = "offered"
    BY <1>r, <1>t, <2>2 DEF OneStep
  <2> QED BY <1>f, <2>3, <2>4, <2>5, <2>6 DEF OneStep
<1>6. Stops'
  BY <1>r, <1>f, <1>u, WorkersAre DEF Stops, StopHonoured, Steps, RunType, DiskType
<1>7. Followed'
  <2> SUFFICES ASSUME NEW j \in Jobs, Running(j)'
               PROVE  Follows(j)'
    BY DEF Followed
  <2>1. Follows(j) /\ attempt[j] \in Runs /\ Get(j)' = Get(j) /\ attempt'[j] = attempt[j]
    BY <1>r, <1>f, <1>u, AttemptRange DEF Followed, Running, Get
  <2>2. CASE attempt[j] # t
    <3>1. Named(j)' = Named(j) /\ Fetched(j)' = Fetched(j)
      BY <1>t, <2>1, <2>2 DEF Named, Fetched
    <3> QED BY <1>f, <1>o, <1>q, <1>t, <2>1, <2>2, <3>1 DEF Follows
  <2>3. CASE attempt[j] = t
    <3>1. /\ Get(j).phase # "awaiting_selection"
          /\ j \notin stale => Active(Get(j).phase) /\ Named(j)
      BY <1>o, <2>1, <2>3 DEF Follows, Asking
    <3>2. \A i \in Waiting : queue[i].kind \in Steps => queue[i].by # t
      BY <1>r, <1>o DEF OneStep
    <3>3. op.kind = "commit" /\ j \notin stale => Fetched(j) /\ Fetched(j)'
      BY <1>o, <1>n, <1>t, <2>1, <2>3 DEF Follows, Fetched, Named
    <3>4. op.kind = "stage" /\ op.to \notin Renames /\ j \notin stale => Named(j)'
      BY <1>n, <1>t, <2>1, <2>3, <3>1 DEF Named
    <3> QED BY <1>f, <1>n, <1>q, <1>t, <2>1, <2>3, <3>1, <3>2, <3>3, <3>4 DEF Follows, Steps
  <2> QED BY <2>2, <2>3
<1>8. EndWaits'
  BY <1>r, <1>f, <1>q, <1>u, AttemptRange DEF EndWaits
<1>9. Settled' /\ Begun' /\ Backing' /\ Revisions'
  BY <1>r, <1>f DEF Settled, Begun, Get, Backing, Backed, Revisions, Above
<1>10. Written' /\ Committed'
  <2>1. task.op.kind \in Steps \cup {"choose"} => flow'[task.op.by] = flow[task.op.by]
    BY <1>r, <1>o, <1>t, WorkersAre DEF OneStep, Asking
  <2>2. Written'
    BY <1>r, <1>f, <2>1 DEF Written, Offers, Writes, OfStage, Get, Steps
  <2>3. Committed'
    BY <1>r, <1>f, <2>1 DEF Committed, Stops, Get, Steps
  <2> QED BY <2>2, <2>3
<1>11. Marks'
  BY <1>r, <1>f, <1>o, <1>q DEF Marks, Steps
<1>12. Sessions'
  BY <1>r, <1>f, <1>o DEF Sessions, Ended
<1>13. Unowned'
  BY <1>r, <1>f, <1>o, <1>q DEF Unowned, Steps, Asked, Begins
<1> QED BY <1>q, <1>1, <1>2, <1>3, <1>4, <1>5, <1>6, <1>7, <1>8, <1>9, <1>10, <1>11, <1>12, <1>13
        DEF IInv, Types, Names, Course, Files

(* A run that is no longer the current one is dropped: when the backend    *)
(* answers it, or when its work comes up in the queue (d = 1).             *)
Shifts(d) == /\ \A i \in Waiting' : i + d \in Waiting /\ queue'[i] = queue[i + d]
             /\ \A i \in Waiting : i > d => i - d \in Waiting' /\ queue'[i - d] = queue[i]

Drops(t, d) ==
  /\ ~Current(t) /\ flow' = Over(t) /\ Shifts(d)
  /\ \/ d = 0 /\ flow[t].pc \in Asking
     \/ d = 1 /\ flow[t].pc = "staging" /\ queue[1].by = t /\ queue[1].kind \in Steps
        /\ task = NoTask
  /\ UNCHANGED ids /\ RunFrame

LEMMA RunDrops ==
  ASSUME IInv, NEW t \in Runs, NEW d \in {0, 1}, Drops(t, d), QueueType'
  PROVE  IInv'
<1>r. /\ DiskType /\ MemoryType /\ RunType /\ QueueType /\ TaskType
      /\ Issued /\ Owned /\ NewRun /\ OneStep /\ Unowned /\ Stops
      /\ Followed /\ EndWaits /\ Settled /\ Begun
      /\ Written /\ Committed /\ Marks /\ Backing /\ Revisions /\ Sessions
  BY DEF IInv, Types, Names, Course, Files
<1>f. /\ UNCHANGED <<journal, snapshots, service, todo, saved, volatile, attempt, task>>
      /\ UNCHANGED <<previews, stopped, stale, ids>>
  BY DEF Drops, RunFrame, disk, ghosts
<1>c. ~Current(t) /\ flow[t].pc # "ended"
  BY DEF Drops, Asking
<1>q. /\ \A i \in Waiting' : i + d \in Waiting /\ queue'[i] = queue[i + d]
      /\ \A i \in Waiting : i > d => i - d \in Waiting' /\ queue'[i - d] = queue[i]
  BY DEF Drops, Shifts
<1>k. \A i \in Waiting : queue[i].kind \in Ends => i > d
  BY <1>r DEF Drops, Steps, Ends, QueueType, Waiting
<1>w. task.op.kind \in Steps \cup {"choose"} => task.op.by \in Runs /\ task.op.by # t
  <2>1. CASE d = 0
    BY <2>1, <1>r, WorkersAre DEF Drops, Asking, OneStep
  <2>2. CASE d = 1
    BY <2>2 DEF Drops, NoTask, Op, Steps
  <2> QED BY <2>1, <2>2
<1>s. \A i \in Waiting' : queue'[i].kind \in Steps => queue'[i].by \in Runs /\ queue'[i].by # t
  <2> SUFFICES ASSUME NEW i \in Waiting', queue'[i].kind \in Steps
               PROVE  queue'[i].by \in Runs /\ queue'[i].by # t
    OBVIOUS
  <2>1. i + d \in Waiting /\ queue'[i] = queue[i + d] /\ queue[i + d].by \in Runs
    BY <1>r, <1>q, WorkersAre
  <2>2. CASE d = 0
    BY <2>1, <2>2, <1>r DEF Drops, Asking, OneStep
  <2>3. CASE d = 1
    <3>1. 1 \in Waiting /\ i + 1 # 1
      BY <2>1, <2>3, <1>r DEF Waiting, QueueType
    <3> QED BY <2>1, <2>3, <3>1, <1>r DEF Drops, OneStep
  <2> QED BY <2>2, <2>3
<1>t. /\ \A u \in Runs : u # t => flow'[u] = flow[u]
      /\ flow' \in [Runs -> Flow] /\ flow'[t].pc = "ended"
      /\ flow'[t].job \in {0, flow[t].job} /\ (flow'[t].committing => flow[t].committing)
      /\ attempt[flow[t].job] = t => flow'[t] = [flow[t] EXCEPT !.pc = "ended"]
  <2>1. /\ [flow[t] EXCEPT !.pc = "ended"] \in Flow
        /\ [flow[t] EXCEPT !.pc = "ended"].committing = flow[t].committing
        /\ [flow[t] EXCEPT !.pc = "ended"].job = flow[t].job
        /\ [flow[t] EXCEPT !.pc = "ended"].pc = "ended"
    BY <1>r DEF RunType, Flow
  <2>2. Ended \in Flow /\ Ended.pc = "ended" /\ Ended.job = 0 /\ ~Ended.committing
    BY Constants DEF Ended
  <2>3. \/ flow' = [flow EXCEPT ![t] = [flow[t] EXCEPT !.pc = "ended"]]
        \/ flow' = [flow EXCEPT ![t] = Ended] /\ attempt[flow[t].job] # t
    BY DEF Drops, Over
  <2> QED BY <1>r, <2>1, <2>2, <2>3 DEF RunType
<1>a. \A j \in Jobs : attempt[j] # 0 =>
        /\ attempt[j] \in Runs
        /\ flow'[attempt[j]].job = flow[attempt[j]].job
        /\ flow'[attempt[j]].aborted = flow[attempt[j]].aborted
        /\ flow'[attempt[j]].committing = flow[attempt[j]].committing
        /\ Running(j) => attempt[j] # t
  <2> SUFFICES ASSUME NEW j \in Jobs, attempt[j] # 0
               PROVE  /\ attempt[j] \in Runs
                      /\ flow'[attempt[j]].job = flow[attempt[j]].job
                      /\ flow'[attempt[j]].aborted = flow[attempt[j]].aborted
                      /\ flow'[attempt[j]].committing = flow[attempt[j]].committing
                      /\ Running(j) => attempt[j] # t
    OBVIOUS
  <2>1. attempt[j] \in Runs /\ flow[attempt[j]].job = j
    BY <1>r, AttemptRange DEF Owned
  <2>2. CASE attempt[j] # t
    BY <1>t, <2>1, <2>2
  <2>3. CASE attempt[j] = t
    BY <1>r, <1>t, <1>c, <2>1, <2>3, Constants DEF Running, Current, RunType, Flow
  <2> QED BY <2>1, <2>2, <2>3
<1>1. DiskType' /\ MemoryType' /\ TaskType' /\ RunType'
  BY <1>r, <1>f, <1>t DEF DiskType, MemoryType, TaskType, RunType
<1>2. Issued'
  <2>1. t <= ids
    BY <1>r, <1>c, RunsAre DEF Issued, Ended, RunType
  <2>2. \A i \in Waiting' : queue'[i].by <= ids
    BY <1>r, <1>q DEF Issued
  <2>3. \A u \in Runs : u > ids => flow'[u] = Ended
    BY <1>r, <1>t, <2>1, RunsAre DEF Issued, RunType
  <2> QED BY <1>r, <1>f, <2>2, <2>3 DEF Issued
<1>3. Owned'
  <2>1. \A u \in Runs : flow'[u].job = flow[u].job \/ flow'[u].job = 0
    BY <1>t
  <2>2. \A u \in Runs : flow'[u].pc # "ended" => flow'[u].job # 0
    BY <1>r, <1>t DEF Owned
  <2>3. \A j \in Jobs : attempt[j] # 0 => flow'[attempt[j]].job = j
    BY <1>r, <1>a DEF Owned
  <2>4. \A i \in Waiting' : queue'[i].kind \in Steps \cup Ends =>
          queue'[i].by # 0 /\ flow'[queue'[i].by].job \in {0, queue'[i].job}
    BY <1>r, <1>q, <2>1, WorkersAre DEF Owned
  <2> QED BY <1>r, <1>f, <2>1, <2>2, <2>3, <2>4, WorkersAre DEF Owned
<1>4. NewRun'
  <2> SUFFICES ASSUME task.op.kind \in Begins
               PROVE  task.at = "job" /\ Unused(task.next.attempt)'
    BY <1>f DEF NewRun
  <2>1. task.at = "job" /\ Unused(task.next.attempt)
    BY <1>r DEF NewRun
  <2>2. task.next.attempt # t /\ task.next.attempt \in Runs
    <3>1. \A b \in 1 .. ids : b \in Runs
      BY <1>r, Constants DEF Runs, RunType
    <3> QED BY <1>c, <2>1, <3>1 DEF Unused, Ended
  <2> QED BY <1>f, <1>q, <1>t, <2>1, <2>2 DEF Unused
<1>5. OneStep'
  <2>1. \A i \in Waiting' : queue'[i].kind \in Steps => flow'[queue'[i].by].pc = "staging"
    BY <1>r, <1>q, <1>s, <1>t DEF OneStep
  <2>2. ASSUME NEW i \in Waiting', NEW k \in Waiting', queue'[i].by = queue'[k].by,
               {queue'[i].kind, queue'[k].kind} \subseteq Steps
        PROVE  i = k
    <3>1. i + d = k + d
      BY <1>r, <1>q, <2>2 DEF OneStep
    <3> QED BY <3>1 DEF Waiting
  <2>3. task.op.kind \in Steps =>
          /\ flow'[task.op.by].pc = "staging"
          /\ \A i \in Waiting' : queue'[i].kind \in Steps => queue'[i].by # task.op.by
    BY <1>r, <1>q, <1>t, <1>w DEF OneStep
  <2>4. task.op.kind = "choose" => flow'[task.op.by].pc = "offered"
    BY <1>r, <1>t, <1>w DEF OneStep
  <2> QED BY <1>f, <2>1, <2>2, <2>3, <2>4 DEF OneStep
<1>6. Stops'
  <2>1. \A u \in Runs : flow'[u].committing => flow[u].committing
    BY <1>t
  <2>2. task.at = "snapshot" => flow'[task.op.by] = flow[task.op.by]
    BY <1>r, <1>t, <1>w DEF Stops, Steps
  <2>3. /\ \A u \in stopped : u \in Runs /\ u # 0
        /\ \A s \in snapshots : s.by \in Runs /\ s.by # 0
    BY <1>r, RunsAre DEF RunType, DiskType
  <2> QED BY <1>r, <1>f, <1>a, <2>1, <2>2, <2>3 DEF Stops, StopHonoured
<1>7. Followed'
  <2> SUFFICES ASSUME NEW j \in Jobs, Running(j)'
               PROVE  Follows(j)'
    BY DEF Followed
  <2>1. Running(j) /\ Get(j)' = Get(j) /\ attempt'[j] = attempt[j]
    BY <1>f, <1>a DEF Running, Get
  <2>2. Follows(j) /\ flow'[attempt[j]] = flow[attempt[j]]
    BY <1>r, <1>a, <1>t, <2>1 DEF Followed, Running
  <2>3. Named(j)' = Named(j) /\ Fetched(j)' = Fetched(j)
    BY <2>1, <2>2 DEF Named, Fetched
  <2> QED BY <1>f, <1>q, <2>1, <2>2, <2>3 DEF Follows
<1>8. EndWaits'
  <2> SUFFICES ASSUME NEW j \in Jobs, service = "up", attempt[j] # 0, flow[attempt[j]].aborted
               PROVE  \E i \in Waiting' : /\ queue'[i].kind \in Ends /\ queue'[i].job = j
                                          /\ queue'[i].by = attempt[j]
    BY <1>f, <1>a DEF EndWaits
  <2>1. PICK i \in Waiting : /\ queue[i].kind \in Ends /\ queue[i].job = j
                             /\ queue[i].by = attempt[j]
    BY <1>r DEF EndWaits
  <2> QED BY <1>q, <1>k, <2>1
<1>9. Settled' /\ Begun' /\ Backing' /\ Revisions'
  BY <1>r, <1>f DEF Settled, Begun, Get, Backing, Backed, Revisions, Above
<1>10. Written' /\ Committed'
  <2>1. task.op.kind \in Steps \cup {"choose"} => flow'[task.op.by] = flow[task.op.by]
    BY <1>t, <1>w
  <2>2. Written'
    BY <1>r, <1>f, <2>1 DEF Written, Offers, Writes, OfStage, Get, Steps
  <2>3. Committed'
    BY <1>r, <1>f, <2>1 DEF Committed, Stops, Get, Steps
  <2> QED BY <2>2, <2>3
<1>11. Marks'
  BY <1>r, <1>f, <1>q DEF Marks
<1>12. Sessions'
  <2>1. service \notin {"down", "loading"}
    BY <1>r, <1>c DEF Sessions, Ended
  <2> QED BY <1>r, <1>f, <2>1 DEF Sessions
<1>13. Unowned'
  BY <1>r, <1>f, <1>q DEF Unowned
<1> QED BY <1>1, <1>2, <1>3, <1>4, <1>5, <1>6, <1>7, <1>8, <1>9, <1>10, <1>11, <1>12, <1>13
        DEF IInv, Types, Names, Course, Files

(* A run that has a job, and is not committing, is aborted: its end joins  *)
(* the queue.                                                              *)
Aborts(t, j, op, armed) ==
  /\ Loaded /\ attempt[j] = t /\ ~flow[t].committing
  /\ op.kind \in Ends /\ op.job = j /\ op.by = t
  /\ flow' = [flow EXCEPT ![t] = [flow[t] EXCEPT !.aborted = TRUE, !.armed = armed]]
  /\ queue' = Append(queue, op)
  /\ stopped' \in {stopped, stopped \cup {t}}
  /\ UNCHANGED <<journal, snapshots, service, todo, saved, volatile, attempt, task>>
  /\ UNCHANGED <<previews, stale, ids>>

LEMMA RunAborts ==
  ASSUME IInv, NEW t \in Runs, NEW j \in Jobs, NEW op \in Queued, NEW armed \in BOOLEAN,
         Aborts(t, j, op, armed)
  PROVE  IInv'
<1>r. /\ DiskType /\ MemoryType /\ RunType /\ QueueType /\ TaskType
      /\ Issued /\ Owned /\ NewRun /\ OneStep /\ Unowned /\ Stops
      /\ Followed /\ EndWaits /\ Settled /\ Begun
      /\ Written /\ Committed /\ Marks /\ Backing /\ Revisions /\ Sessions
  BY DEF IInv, Types, Names, Course, Files
<1>f. /\ UNCHANGED <<journal, snapshots, service, todo, saved, volatile, attempt, task>>
      /\ UNCHANGED <<previews, stale, ids>>
  BY DEF Aborts
<1>o. /\ service \notin {"down", "loading"} /\ attempt[j] = t /\ ~flow[t].committing
      /\ op.kind \in Ends /\ op.job = j /\ op.by = t /\ op.kind \notin Steps /\ op.kind # "mark"
  BY DEF Aborts, Ends, Steps, Loaded
<1>p. stopped' \in {stopped, stopped \cup {t}}
  BY DEF Aborts
<1>q. /\ QueueType' /\ Len(queue) \in Nat /\ Len(queue') = Len(queue) + 1
      /\ queue'[Len(queue) + 1] = op
      /\ \A i \in Waiting : queue'[i] = queue[i] /\ i \in Waiting'
      /\ \A i \in Waiting' : \/ i \in Waiting /\ queue'[i] = queue[i]
                             \/ i = Len(queue) + 1 /\ queue'[i] = op
      /\ Len(queue) + 1 \in Waiting'
  BY <1>r, QueueGrows DEF Aborts, Waiting
<1>t. /\ \A u \in Runs : u # t => flow'[u] = flow[u]
      /\ flow' \in [Runs -> Flow] /\ flow'[t].aborted
  <2>1. [flow[t] EXCEPT !.aborted = TRUE, !.armed = armed] \in Flow
    BY <1>r DEF RunType, Flow
  <2> QED BY <1>r, <2>1 DEF Aborts, RunType, Flow
<1>u. \A u \in Runs : /\ flow'[u].job = flow[u].job /\ flow'[u].pc = flow[u].pc
                      /\ flow'[u].id = flow[u].id /\ flow'[u].committing = flow[u].committing
                      /\ flow[u].aborted => flow'[u].aborted
  BY <1>r DEF Aborts, RunType, Flow
<1>i. t <= ids /\ t # 0 /\ flow[t].job = j /\ flow[t] # Ended
  BY <1>r, <1>o, RunsAre, Constants DEF Issued, Owned, Ended
<1>1. DiskType' /\ MemoryType' /\ TaskType' /\ RunType'
  BY <1>r, <1>f, <1>p, <1>t DEF DiskType, MemoryType, TaskType, RunType
<1>2. Issued'
  <2>1. \A i \in Waiting' : queue'[i].by <= ids
    BY <1>r, <1>o, <1>q, <1>i, QueueRange DEF Issued
  <2>2. \A u \in Runs : u > ids => flow'[u] = Ended
    BY <1>r, <1>t, <1>i, RunsAre DEF Issued, RunType
  <2>3. \A u \in stopped' : u <= ids
    BY <1>r, <1>i, <1>p DEF Issued
  <2> QED BY <1>r, <1>f, <2>1, <2>2, <2>3 DEF Issued
<1>3. Owned'
  <2>1. \A k \in Jobs : attempt[k] # 0 => flow'[attempt[k]].job = k
    BY <1>r, <1>u, AttemptRange DEF Owned
  <2>2. \A u \in Runs : flow'[u].pc # "ended" => flow'[u].job # 0
    BY <1>r, <1>u DEF Owned
  <2>3. \A i \in Waiting' : queue'[i].kind \in Steps \cup Ends =>
              queue'[i].by # 0 /\ flow'[queue'[i].by].job \in {0, queue'[i].job}
    BY <1>r, <1>o, <1>q, <1>i, <1>u, WorkersAre DEF Owned
  <2> QED BY <1>r, <1>f, <1>u, <2>1, <2>2, <2>3, WorkersAre DEF Owned
<1>4. NewRun'
  <2> SUFFICES ASSUME task.op.kind \in Begins
               PROVE  task.at = "job" /\ Unused(task.next.attempt)'
    BY <1>f DEF NewRun
  <2>1. task.at = "job" /\ Unused(task.next.attempt)
    BY <1>r DEF NewRun
  <2>2. task.next.attempt # t /\ task.next.attempt \in Runs
    <3>1. \A b \in 1 .. ids : b \in Runs
      BY <1>r, Constants DEF Runs, RunType
    <3> QED BY <1>i, <2>1, <3>1 DEF Unused
  <2> QED BY <1>f, <1>o, <1>p, <1>q, <1>t, <2>1, <2>2 DEF Unused
<1>5. OneStep'
  <2>1. \A i \in Waiting' : queue'[i].kind \in Steps =>
          i \in Waiting /\ queue'[i] = queue[i] /\ queue[i].by \in Runs
    BY <1>r, <1>o, <1>q, WorkersAre
  <2> QED BY <1>r, <1>f, <1>u, <2>1, WorkersAre DEF OneStep
<1>6. Stops'
  <2>1. /\ \A u \in stopped : u \in Runs
        /\ \A s \in snapshots : s.by \in Runs
    BY <1>r DEF RunType, DiskType
  <2>2. task.at = "snapshot" => /\ task.op.kind = "commit" /\ task.op.by \in Runs
                                /\ task.op.by # t /\ flow[task.op.by].committing
                                /\ task.op.by \notin stopped
    BY <1>r, <1>o, WorkersAre DEF Stops, Steps
  <2>3. \A s \in snapshots : s.by # t
    BY <1>r, <1>o DEF Stops
  <2> QED BY <1>r, <1>f, <1>o, <1>p, <1>t, <1>u, <2>1, <2>2, <2>3 DEF Stops, StopHonoured
<1>7. Followed'
  <2> SUFFICES ASSUME NEW k \in Jobs, Running(k)'
               PROVE  Follows(k)'
    BY DEF Followed
  <2>1. attempt[k] \in Runs /\ attempt[k] # t /\ Running(k)
    BY <1>r, <1>f, <1>o, <1>t, <1>u, AttemptRange DEF Running
  <2>2. Follows(k) /\ flow'[attempt[k]] = flow[attempt[k]] /\ Get(k)' = Get(k)
    BY <1>r, <1>f, <1>t, <2>1 DEF Followed, Get
  <2>3. Named(k)' = Named(k) /\ Fetched(k)' = Fetched(k)
    BY <1>f, <2>1, <2>2 DEF Named, Fetched
  <2> QED BY <1>f, <1>o, <1>q, <2>1, <2>2, <2>3 DEF Follows
<1>8. EndWaits'
  <2> SUFFICES ASSUME NEW k \in Jobs, service = "up", attempt[k] # 0, flow'[attempt[k]].aborted
               PROVE  \E i \in Waiting' : /\ queue'[i].kind \in Ends /\ queue'[i].job = k
                                          /\ queue'[i].by = attempt[k]
    BY <1>f DEF EndWaits
  <2>1. CASE attempt[k] = t
    BY <1>r, <1>o, <1>q, <1>i, <2>1 DEF Owned
  <2>2. CASE attempt[k] # t
    BY <1>r, <1>o, <1>q, <1>t, <2>2, AttemptRange DEF EndWaits
  <2> QED BY <2>1, <2>2
<1>9. Settled' /\ Begun' /\ Backing' /\ Revisions'
  BY <1>r, <1>f DEF Settled, Begun, Get, Backing, Backed, Revisions, Above
<1>10. Written' /\ Committed'
  <2>1. task.op.kind \in Steps \cup {"choose"} => flow'[task.op.by].id = flow[task.op.by].id
    BY <1>r, <1>u, WorkersAre
  <2>2. Written'
    BY <1>r, <1>f, <2>1 DEF Written, Offers, Writes, OfStage, Get, Steps
  <2>3. Committed'
    BY <1>r, <1>f, <2>1 DEF Committed, Stops, Get, Steps
  <2> QED BY <2>2, <2>3
<1>11. Marks'
  BY <1>r, <1>f, <1>o, <1>q DEF Marks, Steps
<1>12. Sessions'
  BY <1>r, <1>f, <1>o DEF Sessions
<1>13. Unowned'
  BY <1>r, <1>f, <1>o, <1>q DEF Unowned, Ends, Asked, Begins
<1> QED BY <1>q, <1>1, <1>2, <1>3, <1>4, <1>5, <1>6, <1>7, <1>8, <1>9, <1>10, <1>11, <1>12, <1>13
        DEF IInv, Types, Names, Course, Files

-----------------------------------------------------------------------------
(* The user asks for something, and it joins the queue; a preview is over. *)
Joins(op) ==
  /\ service \notin {"down", "loading"}
  /\ op.kind \in Asked /\ op.by = 0 /\ (op.kind = "mark" => op.rec.phase = "acquired")
  /\ queue' = Append(queue, op) /\ previews' \subseteq previews
  /\ UNCHANGED <<journal, snapshots, service, todo, saved, volatile, attempt, task>>
  /\ UNCHANGED <<flow, stopped, stale, ids>>

LEMMA WorkJoins ==
  ASSUME IInv, NEW op \in Queued, Joins(op)
  PROVE  IInv'
<1>r. /\ DiskType /\ MemoryType /\ RunType /\ QueueType /\ TaskType
      /\ Issued /\ Owned /\ NewRun /\ OneStep /\ Unowned /\ Stops
      /\ Followed /\ EndWaits /\ Settled /\ Begun
      /\ Written /\ Committed /\ Marks /\ Backing /\ Revisions /\ Sessions
  BY DEF IInv, Types, Names, Course, Files
<1>f. /\ UNCHANGED <<journal, snapshots, service, todo, saved, volatile, attempt, task>>
      /\ UNCHANGED <<flow, stopped, stale, ids>> /\ previews' \subseteq previews
  BY DEF Joins
<1>o. /\ service \notin {"down", "loading"} /\ op.by = 0
      /\ op.kind \notin Steps \cup Ends /\ op.kind \notin {"stage", "commit"}
      /\ op.kind = "mark" => op.rec.phase = "acquired"
  BY DEF Joins, Asked, Begins, Steps, Ends
<1>q. /\ QueueType' /\ Len(queue) \in Nat
      /\ \A i \in Waiting : queue'[i] = queue[i] /\ i \in Waiting'
      /\ \A i \in Waiting' : \/ i \in Waiting /\ queue'[i] = queue[i]
                             \/ i = Len(queue) + 1 /\ queue'[i] = op
  BY <1>r, QueueGrows DEF Joins, Waiting
<1>1. DiskType' /\ MemoryType' /\ TaskType' /\ RunType'
  BY <1>r, <1>f DEF DiskType, MemoryType, TaskType, RunType
<1>2. Issued'
  <2>1. 0 <= ids
    BY <1>r DEF RunType
  <2> QED BY <1>r, <1>f, <1>o, <1>q, <2>1 DEF Issued
<1>3. Owned' /\ OneStep'
  BY <1>r, <1>f, <1>o, <1>q DEF Owned, OneStep
<1>4. NewRun'
  <2> SUFFICES ASSUME task.op.kind \in Begins
               PROVE  task.at = "job" /\ Unused(task.next.attempt)'
    BY <1>f DEF NewRun
  <2>1. task.at = "job" /\ Unused(task.next.attempt) /\ task.next.attempt # 0
    BY <1>r DEF NewRun, Unused
  <2> QED BY <1>f, <1>o, <1>q, <2>1 DEF Unused
<1>5. Followed'
  BY <1>r, <1>f, <1>o, <1>q DEF Followed, Follows, Running, Named, Fetched, Get
<1>6. EndWaits'
  BY <1>r, <1>f, <1>q DEF EndWaits
<1>7. Stops' /\ Settled' /\ Begun' /\ Backing' /\ Revisions' /\ Written' /\ Committed'
  BY <1>r, <1>f DEF Stops, StopHonoured, Settled, Begun, Get, Backing, Backed, Revisions, Above,
                    Written, Offers, Writes, OfStage, Committed
<1>8. Marks'
  BY <1>r, <1>f, <1>o, <1>q DEF Marks
<1>9. Sessions'
  BY <1>r, <1>f, <1>o DEF Sessions
<1>10. Unowned'
  BY <1>r, <1>f, <1>o, <1>q DEF Unowned
<1> QED BY <1>q, <1>1, <1>2, <1>3, <1>4, <1>5, <1>6, <1>7, <1>8, <1>9, <1>10
        DEF IInv, Types, Names, Course, Files

-----------------------------------------------------------------------------
(* The work.                                                               *)

LEMMA MaxOfTwo ==
  ASSUME NEW a \in Nat, NEW b \in Nat
  PROVE  Max({a, b}) \in Nat /\ a <= Max({a, b}) /\ b <= Max({a, b})
<1>1. \E x \in {a, b} : \A y \in {a, b} : x >= y
  OBVIOUS
<1> QED BY <1>1 DEF Max

(* A record to be saved is above what it was, and above the repository.    *)
LEMMA RevisedIsAbove ==
  ASSUME MemoryType, NEW j \in Jobs, NEW r \in Record
  PROVE  /\ Revised(r, j) \in Record
         /\ saved[j].rev < Revised(r, j).rev /\ r.rev < Revised(r, j).rev
         /\ Revised(r, j).phase = r.phase /\ Revised(r, j).attempt = r.attempt
         /\ Revised(r, j).snap = r.snap
<1> DEFINE m == Max({r.rev, saved[j].rev})
<1>1. r.rev \in Nat /\ saved[j].rev \in Nat
  BY DEF MemoryType, Record
<1>2. m \in Nat /\ r.rev <= m /\ saved[j].rev <= m
  BY <1>1, MaxOfTwo
<1>3. Revised(r, j) = [r EXCEPT !.rev = m + 1]
  BY DEF Revised
<1> HIDE DEF m
<1>4. m + 1 \in Nat /\ r.rev < m + 1 /\ saved[j].rev < m + 1
  BY <1>1, <1>2
<1>5. [r EXCEPT !.rev = m + 1].rev = m + 1
  BY DEF Record
<1> QED BY <1>3, <1>4, <1>5 DEF Record

(* Work is taken out of the queue (d = 1), or found: it is about to save a *)
(* record of its job.                                                      *)
Takes(op, r, d) ==
  /\ task = NoTask /\ task' = Saving(op, r) /\ Shifts(d)
  /\ \A j \in Jobs : \/ attempt'[j] = attempt[j]
                     \/ attempt'[j] = 0 /\ op.kind \in Ends /\ op.job = j
  /\ \A t \in Runs : /\ flow'[t].pc = flow[t].pc /\ flow'[t].job = flow[t].job
                     /\ flow'[t].id = flow[t].id /\ flow'[t].aborted = flow[t].aborted
                     /\ flow'[t].committing = flow[t].committing
                     /\ flow[t] = Ended => flow'[t] = Ended
  /\ ids <= ids' /\ stale \subseteq stale'
  /\ UNCHANGED <<journal, snapshots, service, saved, volatile, previews, stopped>>

(* What is taken is work that may be taken now.                            *)
Due(op, r, d) ==
  /\ op.kind \notin {"none", "close"} /\ op.job \in Jobs
  /\ op.kind \in Steps \cup Ends \cup {"choose"} =>
       op.by # 0 /\ op.by \in Runs /\ flow[op.by].job = op.job
  /\ op.kind \in Steps => op = queue[1] /\ d = 1
  /\ op.kind = "choose" => flow[op.by].pc = "offered"
  /\ op.kind \notin Steps \cup {"choose"} =>
       \A j \in Jobs : attempt'[j] # 0 => attempt'[j] # op.by
  /\ op.kind \in Begins => Unused(r.attempt)'
  /\ d = 1 => /\ queue # <<>>
              /\ queue[1].kind \in Ends => attempt'[queue[1].job] # queue[1].by

(* What it is about to write.                                              *)
Fit(op, r) ==
  /\ Offers(op, r)'
  /\ op.job \notin stale' =>
       /\ Writes(op, r)'
       /\ Backed(r)
       /\ r.rev = Get(op.job).rev
       /\ journal[op.job] # <<>> => Get(op.job) # NoJob

LEMMA WorkTaken ==
  ASSUME IInv, NEW op \in Work, NEW r \in Record, NEW d \in {0, 1},
         Takes(op, r, d), Due(op, r, d), Fit(op, r), RunType', MemoryType', QueueType',
         Sessions'
  PROVE  IInv'
<1>r. /\ DiskType /\ MemoryType /\ RunType /\ QueueType /\ TaskType
      /\ Issued /\ Owned /\ NewRun /\ OneStep /\ Unowned /\ Stops
      /\ Followed /\ EndWaits /\ Settled /\ Begun
      /\ Written /\ Committed /\ Marks /\ Backing /\ Revisions /\ Sessions
  BY DEF IInv, Types, Names, Course, Files
<1>f. /\ UNCHANGED <<journal, snapshots, service, saved, volatile, previews, stopped>>
      /\ stale \subseteq stale'
  BY DEF Takes
<1>j. op.job \in Jobs /\ op.kind \notin {"none", "close"}
  BY DEF Due
<1>n. /\ task = NoTask /\ task.at = "none" /\ task.op.kind = "none"
      /\ task' = [op |-> op, next |-> Revised(r, op.job), at |-> "job"]
      /\ task'.at = "job" /\ task'.op = op /\ task'.next = Revised(r, op.job)
  BY DEF Takes, Saving, NoTask, Op
<1>v. /\ Revised(r, op.job) \in Record
      /\ saved[op.job].rev < Revised(r, op.job).rev /\ r.rev < Revised(r, op.job).rev
      /\ Revised(r, op.job).phase = r.phase /\ Revised(r, op.job).attempt = r.attempt
      /\ Revised(r, op.job).snap = r.snap
  BY <1>r, <1>j, RevisedIsAbove
<1>q. /\ \A i \in Waiting' : i + d \in Waiting /\ queue'[i] = queue[i + d]
      /\ \A i \in Waiting : i > d => i - d \in Waiting' /\ queue'[i - d] = queue[i]
  BY DEF Takes, Shifts
<1>t. \A u \in Runs : /\ flow'[u].pc = flow[u].pc /\ flow'[u].job = flow[u].job
                      /\ flow'[u].id = flow[u].id /\ flow'[u].aborted = flow[u].aborted
                      /\ flow'[u].committing = flow[u].committing
                      /\ flow[u] = Ended => flow'[u] = Ended
  BY DEF Takes
<1>a. \A j \in Jobs : \/ attempt'[j] = attempt[j]
                      \/ attempt'[j] = 0 /\ op.kind \in Ends /\ op.job = j
  BY DEF Takes
<1>i. ids \in Nat /\ ids' \in Nat /\ ids <= ids'
  BY <1>r DEF Takes, RunType
<1>g. \A j \in Jobs : Get(j)' = Get(j)
  BY <1>f DEF Get
<1>1. DiskType' /\ TaskType'
  <2>1. op.kind = "stage" => op.to # "none"
    <3>1. queue # <<>> => 1 \in Waiting
      BY <1>r DEF QueueType, Waiting
    <3> QED BY <1>r, <3>1 DEF Due, Marks, Steps
  <2> QED BY <1>r, <1>f, <1>j, <1>n, <1>v, <2>1 DEF DiskType, TaskType
<1>2. Issued'
  <2>1. \A i \in Waiting' : queue'[i].by <= ids'
    BY <1>r, <1>q, <1>i, QueueRange DEF Issued
  <2>2. \A u \in Runs : u > ids' => flow'[u] = Ended
    BY <1>r, <1>t, <1>i, RunsAre DEF Issued
  <2>3. /\ \A u \in stopped : u <= ids'
        /\ \A s \in snapshots : s.by <= ids'
    BY <1>r, <1>i, RunsAre DEF Issued, RunType, DiskType
  <2>4. \A j \in Jobs : attempt'[j] <= ids'
    BY <1>r, <1>i, <1>a, AttemptRange DEF Issued
  <2> QED BY <1>f, <2>1, <2>2, <2>3, <2>4 DEF Issued
<1>3. Owned'
  <2>1. \A j \in Jobs : attempt'[j] # 0 => flow'[attempt'[j]].job = j
    BY <1>r, <1>t, <1>a, AttemptRange DEF Owned
  <2>2. \A u \in Runs : flow'[u].pc # "ended" => flow'[u].job # 0
    BY <1>r, <1>t DEF Owned
  <2>3. \A i \in Waiting' : queue'[i].kind \in Steps \cup Ends =>
              queue'[i].by # 0 /\ flow'[queue'[i].by].job \in {0, queue'[i].job}
    BY <1>r, <1>q, <1>t, WorkersAre DEF Owned
  <2>4. op.kind \in Steps \cup Ends \cup {"choose"} =>
          op.by # 0 /\ flow'[op.by].job \in {0, op.job}
    BY <1>t DEF Due
  <2> QED BY <1>n, <2>1, <2>2, <2>3, <2>4 DEF Owned
<1>4. NewRun'
  BY <1>n, <1>v DEF NewRun, Due, Unused
<1>5. OneStep'
  <2>1. \A i \in Waiting' : queue'[i].kind \in Steps => flow'[queue'[i].by].pc = "staging"
    BY <1>r, <1>q, <1>t, WorkersAre DEF OneStep
  <2>2. ASSUME NEW i \in Waiting', NEW k \in Waiting', queue'[i].by = queue'[k].by,
               {queue'[i].kind, queue'[k].kind} \subseteq Steps
        PROVE  i = k
    <3>1. i + d = k + d
      BY <1>r, <1>q, <2>2 DEF OneStep
    <3> QED BY <3>1 DEF Waiting
  <2>3. ASSUME op.kind \in Steps
        PROVE  /\ flow'[op.by].pc = "staging"
               /\ \A i \in Waiting' : queue'[i].kind \in Steps => queue'[i].by # op.by
    <3>1. op = queue[1] /\ d = 1 /\ queue # <<>> /\ op.by \in Runs
      BY <2>3 DEF Due
    <3>2. 1 \in Waiting
      BY <1>r, <3>1 DEF QueueType, Waiting
    <3>3. flow'[op.by].pc = "staging"
      BY <1>r, <1>t, <2>3, <3>1, <3>2 DEF OneStep
    <3>4. ASSUME NEW i \in Waiting', queue'[i].kind \in Steps, queue'[i].by = op.by
          PROVE  FALSE
      <4>1. i + 1 \in Waiting /\ queue'[i] = queue[i + 1]
        BY <1>q, <3>1
      <4>2. i + 1 = 1
        BY <1>r, <2>3, <3>1, <3>2, <3>4, <4>1 DEF OneStep
      <4> QED BY <4>2 DEF Waiting
    <3> QED BY <3>3, <3>4
  <2>4. op.kind = "choose" => flow'[op.by].pc = "offered"
    BY <1>t DEF Due
  <2> QED BY <1>n, <2>1, <2>2, <2>3, <2>4 DEF OneStep
<1>6. Stops'
  <2>1. /\ \A u \in stopped : u \in Runs /\ u # 0
        /\ \A s \in snapshots : s.by \in Runs /\ s.by # 0
    BY <1>r, RunsAre DEF RunType, DiskType
  <2> QED BY <1>r, <1>f, <1>n, <1>t, <1>a, <2>1 DEF Stops, StopHonoured
<1>7. Followed'
  <2> SUFFICES ASSUME NEW j \in Jobs, Running(j)'
               PROVE  Follows(j)'
    BY DEF Followed
  <2>1. Running(j) /\ attempt[j] \in Runs /\ attempt'[j] = attempt[j] /\ Get(j)' = Get(j)
    BY <1>r, <1>f, <1>a, <1>t, <1>g, AttemptRange DEF Running
  <2>2. Follows(j)
    BY <1>r, <2>1 DEF Followed
  <2>3. Named(j)' = Named(j) /\ Fetched(j)' = Fetched(j)
    BY <1>t, <2>1 DEF Named, Fetched
  <2> QED BY <1>f, <1>q, <1>t, <2>1, <2>2, <2>3 DEF Follows
<1>8. EndWaits'
  <2> SUFFICES ASSUME NEW j \in Jobs, service = "up", attempt'[j] # 0, flow'[attempt'[j]].aborted
               PROVE  \E i \in Waiting' : /\ queue'[i].kind \in Ends /\ queue'[i].job = j
                                          /\ queue'[i].by = attempt'[j]
    BY <1>f DEF EndWaits
  <2>1. attempt'[j] = attempt[j] /\ attempt[j] \in Runs /\ flow[attempt[j]].aborted
    BY <1>r, <1>a, <1>t, AttemptRange
  <2>2. PICK i \in Waiting : /\ queue[i].kind \in Ends /\ queue[i].job = j
                             /\ queue[i].by = attempt[j]
    BY <1>r, <2>1 DEF EndWaits
  <2>3. i # 1 \/ d = 0
    BY <2>1, <2>2 DEF Due
  <2>4. i > d
    BY <2>3 DEF Waiting
  <2> QED BY <1>q, <2>1, <2>2, <2>4
<1>9. Settled'
  <2> SUFFICES ASSUME NEW j \in Jobs, j \notin stale', service = "up", attempt'[j] = 0,
                      Active(Get(j).phase)
               PROVE  op.job = j /\ op.kind \in Ends
    BY <1>f, <1>g, <1>n DEF Settled
  <2>1. attempt[j] # 0
    BY <1>r, <1>f, <1>n DEF Settled
  <2> QED BY <1>a, <2>1
<1>10. Begun'
  BY <1>r, <1>f, <1>a, <1>g DEF Begun
<1>11. Written'
  BY <1>n, <1>v DEF Written, Fit, Offers, Writes, OfStage
<1>12. Committed' /\ Marks'
  BY <1>r, <1>f, <1>n, <1>q DEF Committed, Marks
<1>13. Backing'
  <2>1. Revised(r, op.job) # NoJob
    <3>1. saved[op.job].rev \in Nat /\ Revised(r, op.job).rev \in Nat
      BY <1>r, <1>j, <1>v DEF MemoryType, Record
    <3> QED BY <1>v, <3>1 DEF NoJob
  <2> QED BY <1>r, <1>f, <1>n, <1>v, <2>1 DEF Backing, Backed, Fit
<1>14. Revisions'
  <2> SUFFICES ASSUME NEW j \in Jobs \ stale', LinksSave
               PROVE  /\ Len(journal[j]) <= 1
                      /\ volatile[j] # NoJob => saved[j].rev < volatile[j].rev
                      /\ journal[j] # <<>> /\ service # "down" /\ Get(j) # NoJob
                           => journal[j][1].rev <= Get(j).rev
                      /\ op.job = j => Above(j, Revised(r, j))
    BY <1>f, <1>g, <1>n DEF Revisions, Above
  <2>1. /\ Len(journal[j]) <= 1
        /\ volatile[j] # NoJob => saved[j].rev < volatile[j].rev
        /\ journal[j] # <<>> /\ service # "down" /\ Get(j) # NoJob
              => journal[j][1].rev <= Get(j).rev
    BY <1>r, <1>f DEF Revisions
  <2>2. ASSUME op.job = j PROVE Above(j, Revised(r, j))
    <3>1. /\ saved[j].rev < Revised(r, j).rev /\ Get(j).rev < Revised(r, j).rev
          /\ journal[j] # <<>> => Get(j) # NoJob
      BY <1>v, <2>2 DEF Fit
    <3>2. journal[j] # <<>> /\ service # "down" => journal[j][1].rev <= Get(j).rev
      BY <2>1, <3>1
    <3>3. service # "down"
      BY <1>f, <1>n, <1>j DEF Sessions, NoTask, Op
    <3>4. Get(j).rev \in Nat /\ Revised(r, j).rev \in Nat
      BY <1>r, <1>v, <2>2, GetIsRecord DEF Record
    <3>5. journal[j] # <<>> => journal[j][1].rev \in Nat
      <4>1. journal[j] \in Seq(Record)
        BY <1>r DEF DiskType
      <4>2. journal[j] # <<>> => journal[j][1] \in Record
        BY <4>1
      <4> QED BY <4>2 DEF Record
    <3> QED BY <3>1, <3>2, <3>3, <3>4, <3>5 DEF Above
  <2> QED BY <2>1, <2>2
<1>15. Unowned'
  BY <1>r, <1>n, <1>q DEF Unowned, Due
<1> QED BY <1>1, <1>2, <1>3, <1>4, <1>5, <1>6, <1>7, <1>8, <1>9, <1>10, <1>11, <1>12, <1>13, <1>14, <1>15
        DEF IInv, Types, Names, Course, Files

(* What is asked for no longer holds: the work is dropped.                 *)
LEMMA WorkGoes ==
  ASSUME IInv, task = NoTask, queue # <<>>, Skip,
         queue[1].kind \in Ends => attempt[queue[1].job] # queue[1].by
  PROVE  IInv'
<1>r. /\ DiskType /\ MemoryType /\ RunType /\ QueueType /\ TaskType
      /\ Issued /\ Owned /\ NewRun /\ OneStep /\ Unowned /\ Stops
      /\ Followed /\ EndWaits /\ Settled /\ Begun
      /\ Written /\ Committed /\ Marks /\ Backing /\ Revisions /\ Sessions
  BY DEF IInv, Types, Names, Course, Files
<1>f. /\ UNCHANGED <<journal, snapshots, service, todo, saved, volatile, attempt, task>>
      /\ UNCHANGED <<previews, flow, stopped, stale, ids>>
  BY DEF Skip, TaskFrame, disk
<1>n. task.at = "none" /\ task.op.kind = "none"
  BY DEF NoTask, Op
<1>q. /\ QueueType'
      /\ \A i \in Waiting' : i + 1 \in Waiting /\ queue'[i] = queue[i + 1]
      /\ \A i \in Waiting : i # 1 => i - 1 \in Waiting' /\ queue'[i - 1] = queue[i]
  BY <1>r, QueueShrinks DEF Skip, Waiting
<1>1. DiskType' /\ MemoryType' /\ TaskType' /\ RunType'
  BY <1>r, <1>f DEF DiskType, MemoryType, TaskType, RunType
<1>2. Issued' /\ Owned' /\ NewRun'
  BY <1>r, <1>f, <1>n, <1>q DEF Issued, Owned, NewRun, Begins
<1>3. OneStep'
  <2>1. ASSUME NEW i \in Waiting', NEW k \in Waiting', queue'[i].by = queue'[k].by,
               {queue'[i].kind, queue'[k].kind} \subseteq Steps
        PROVE  i = k
    <3>1. i + 1 = k + 1
      BY <1>r, <1>q, <2>1 DEF OneStep
    <3> QED BY <3>1 DEF Waiting
  <2> QED BY <1>r, <1>f, <1>n, <1>q, <2>1 DEF OneStep, Steps
<1>4. Followed'
  BY <1>r, <1>f, <1>q DEF Followed, Follows, Running, Named, Fetched, Get
<1>5. EndWaits'
  <2> SUFFICES ASSUME NEW j \in Jobs, service = "up", attempt[j] # 0, flow[attempt[j]].aborted
               PROVE  \E i \in Waiting' : /\ queue'[i].kind \in Ends /\ queue'[i].job = j
                                          /\ queue'[i].by = attempt[j]
    BY <1>f DEF EndWaits
  <2>1. PICK i \in Waiting : /\ queue[i].kind \in Ends /\ queue[i].job = j
                             /\ queue[i].by = attempt[j]
    BY <1>r DEF EndWaits
  <2> QED BY <1>q, <2>1
<1>6. /\ Stops' /\ Settled' /\ Begun' /\ Backing' /\ Revisions' /\ Written' /\ Committed'
  BY <1>r, <1>f DEF Stops, StopHonoured, Settled, Begun, Get, Backing, Backed, Revisions, Above,
                    Written, Offers, Writes, OfStage, Committed
<1>7. Marks'
  BY <1>r, <1>f, <1>q DEF Marks
<1>8. Sessions'
  <2>1. service \notin {"down", "loading"}
    BY <1>r DEF Sessions
  <2> QED BY <1>r, <1>f, <2>1 DEF Sessions
<1>9. Unowned'
  BY <1>r, <1>f, <1>n, <1>q DEF Unowned
<1> QED BY <1>q, <1>1, <1>2, <1>3, <1>4, <1>5, <1>6, <1>7, <1>8, <1>9
        DEF IInv, Types, Names, Course, Files

(* The last check has passed: the snapshot is being written.               *)
Commits(op) ==
  /\ task = NoTask /\ queue # <<>> /\ op = queue[1] /\ op.kind = "commit" /\ Current(op.by)
  /\ queue' = Tail(queue)
  /\ task' = [op |-> op, next |-> Get(op.job), at |-> "snapshot"]
  /\ flow' = [flow EXCEPT ![op.by].committing = TRUE, ![op.by].armed = FALSE]
  /\ UNCHANGED <<journal, snapshots, service, todo, saved, volatile, attempt>>
  /\ UNCHANGED <<previews, stopped, stale, ids>>

LEMMA CommitStarts ==
  ASSUME IInv, NEW op \in Queued, Commits(op)
  PROVE  IInv'
<1>r. /\ DiskType /\ MemoryType /\ RunType /\ QueueType /\ TaskType
      /\ Issued /\ Owned /\ NewRun /\ OneStep /\ Unowned /\ Stops
      /\ Followed /\ EndWaits /\ Settled /\ Begun
      /\ Written /\ Committed /\ Marks /\ Backing /\ Revisions /\ Sessions
  BY DEF IInv, Types, Names, Course, Files
<1>f. /\ UNCHANGED <<journal, snapshots, service, todo, saved, volatile, attempt>>
      /\ UNCHANGED <<previews, stopped, stale, ids>>
  BY DEF Commits
<1> DEFINE t == op.by
           j == op.job
<1>o. op = queue[1] /\ op.kind = "commit" /\ Current(t) /\ queue # <<>> /\ task = NoTask
  BY DEF Commits
<1>q. /\ QueueType' /\ 1 \in Waiting
      /\ \A i \in Waiting' : i + 1 \in Waiting /\ queue'[i] = queue[i + 1]
      /\ \A i \in Waiting : i # 1 => i - 1 \in Waiting' /\ queue'[i - 1] = queue[i]
  BY <1>r, <1>o, QueueShrinks DEF Commits, Waiting
<1>j. j \in Jobs /\ t \in 0 .. MaxIds /\ op.to \in Stages \cup {"none"} /\ op.rec \in Record
  BY DEF Queued
<1>c. /\ t \in Runs /\ t # 0 /\ flow[t].job = j /\ attempt[j] = t /\ ~flow[t].aborted
      /\ service = "up" /\ flow[t].pc = "staging" /\ t \notin stopped
  <2>1. t \in Runs /\ t # 0 /\ flow[t].job \in {0, j} /\ flow[t].pc = "staging"
    BY <1>r, <1>o, <1>q, WorkersAre DEF Owned, OneStep, Steps
  <2>2. service = "up" /\ flow[t].job = j /\ attempt[j] = t /\ ~flow[t].aborted
    BY <1>o, <2>1 DEF Current
  <2>3. t \notin stopped
    BY <1>r, <1>j, <2>2 DEF Stops
  <2> QED BY <2>1, <2>2, <2>3
<1>n. task' = [op |-> op, next |-> Get(j), at |-> "snapshot"] /\ task'.op = op
      /\ task'.at = "snapshot" /\ task'.next = Get(j) /\ op \in Work /\ Get(j) \in Record
      /\ op.kind \notin Begins /\ op.kind \in Steps /\ op.kind # "choose"
  <2>1. op \in Work
    BY DEF Queued, Work
  <2>2. Get(j) \in Record
    BY <1>r, <1>j, GetIsRecord
  <2> QED BY <1>o, <2>1, <2>2 DEF Commits, Begins, Steps
<1>t. /\ \A u \in Runs : /\ flow'[u].pc = flow[u].pc /\ flow'[u].job = flow[u].job
                         /\ flow'[u].id = flow[u].id /\ flow'[u].aborted = flow[u].aborted
                         /\ u # t => flow'[u] = flow[u]
      /\ flow'[t].committing /\ flow' \in [Runs -> Flow]
  <2>1. flow' = [flow EXCEPT ![t] = [flow[t] EXCEPT !.committing = TRUE, !.armed = FALSE]]
    BY <1>r, <1>c DEF Commits, RunType, Flow
  <2>2. [flow[t] EXCEPT !.committing = TRUE, !.armed = FALSE] \in Flow
    BY <1>r, <1>c DEF RunType, Flow
  <2> QED BY <1>r, <1>c, <2>1, <2>2 DEF RunType, Flow
<1>g. \A k \in Jobs : Get(k)' = Get(k)
  BY <1>f DEF Get
<1>1. DiskType' /\ MemoryType' /\ TaskType' /\ RunType'
  <2>1. TaskType'
    BY <1>j, <1>n, <1>o DEF TaskType
  <2> QED BY <1>r, <1>f, <1>t, <2>1 DEF DiskType, MemoryType, RunType
<1>2. Issued' /\ NewRun'
  <2>1. t <= ids /\ flow[t] # Ended
    BY <1>r, <1>c, <1>j DEF Issued, Ended
  <2>2. \A u \in Runs : u > ids => flow'[u] = Ended
    BY <1>r, <1>t, <1>c, <2>1, RunsAre DEF Issued, RunType
  <2> QED BY <1>r, <1>f, <1>n, <1>q, <2>2 DEF Issued, NewRun
<1>3. Owned'
  <2>1. \A k \in Jobs : attempt[k] # 0 => flow'[attempt[k]].job = k
    BY <1>r, <1>t, AttemptRange DEF Owned
  <2>2. \A i \in Waiting' : queue'[i].kind \in Steps \cup Ends =>
              queue'[i].by # 0 /\ flow'[queue'[i].by].job \in {0, queue'[i].job}
    BY <1>r, <1>q, <1>t, WorkersAre DEF Owned
  <2> QED BY <1>r, <1>f, <1>n, <1>c, <1>t, <2>1, <2>2 DEF Owned
<1>4. OneStep'
  <2>1. \A i \in Waiting' : queue'[i].kind \in Steps => flow'[queue'[i].by].pc = "staging"
    BY <1>r, <1>q, <1>t, WorkersAre DEF OneStep
  <2>2. ASSUME NEW i \in Waiting', NEW k \in Waiting', queue'[i].by = queue'[k].by,
               {queue'[i].kind, queue'[k].kind} \subseteq Steps
        PROVE  i = k
    <3>1. i + 1 = k + 1
      BY <1>r, <1>q, <2>2 DEF OneStep
    <3> QED BY <3>1 DEF Waiting
  <2>3. ASSUME NEW i \in Waiting', queue'[i].kind \in Steps, queue'[i].by = t
        PROVE  FALSE
    <3>1. i + 1 = 1
      BY <1>r, <1>o, <1>n, <1>q, <2>3 DEF OneStep
    <3> QED BY <3>1 DEF Waiting
  <2> QED BY <1>n, <1>c, <1>t, <2>1, <2>2, <2>3 DEF OneStep
<1>5. Stops'
  <2>1. /\ \A u \in stopped : u \in Runs /\ u # t
        /\ \A s \in snapshots : s.by \in Runs
    BY <1>r, <1>c DEF RunType, DiskType
  <2> QED BY <1>r, <1>f, <1>n, <1>o, <1>c, <1>t, <2>1 DEF Stops, StopHonoured
<1>6. Followed'
  <2> SUFFICES ASSUME NEW k \in Jobs, Running(k)'
               PROVE  Follows(k)'
    BY DEF Followed
  <2>1. Running(k) /\ attempt[k] \in Runs /\ Get(k)' = Get(k)
    BY <1>r, <1>f, <1>t, <1>g, AttemptRange DEF Running
  <2>2. Follows(k)
    BY <1>r, <2>1 DEF Followed
  <2>3. Named(k)' = Named(k) /\ Fetched(k)' = Fetched(k)
    BY <1>f, <1>t, <2>1 DEF Named, Fetched
  <2> QED BY <1>f, <1>q, <1>t, <2>1, <2>2, <2>3 DEF Follows
<1>7. EndWaits'
  <2> SUFFICES ASSUME NEW k \in Jobs, service = "up", attempt[k] # 0, flow'[attempt[k]].aborted
               PROVE  \E i \in Waiting' : /\ queue'[i].kind \in Ends /\ queue'[i].job = k
                                          /\ queue'[i].by = attempt[k]
    BY <1>f DEF EndWaits
  <2>1. flow[attempt[k]].aborted
    BY <1>r, <1>t, AttemptRange
  <2>2. PICK i \in Waiting : /\ queue[i].kind \in Ends /\ queue[i].job = k
                             /\ queue[i].by = attempt[k]
    BY <1>r, <2>1 DEF EndWaits
  <2>3. i # 1
    BY <1>o, <2>2 DEF Ends
  <2> QED BY <1>q, <2>2, <2>3
<1>8. Settled' /\ Begun' /\ Written'
  <2>1. task.at = "none"
    BY <1>o DEF NoTask
  <2> QED BY <1>r, <1>f, <1>g, <1>n, <2>1 DEF Settled, Begun, Written
<1>9. Committed'
  <2> SUFFICES ASSUME j \notin stale
               PROVE  Get(j).snap = Get(j).attempt /\ Get(j).snap = flow[t].id
    BY <1>f, <1>g, <1>n, <1>c, <1>j, <1>t DEF Committed
  <2>1. Follows(j)
    BY <1>r, <1>c, <1>j DEF Followed, Running
  <2> QED BY <1>o, <1>q, <1>c, <2>1 DEF Follows, Fetched, Named
<1>10. Marks' /\ Backing'
  BY <1>r, <1>f, <1>n, <1>q DEF Marks, Backing, Backed
<1>11. Revisions'
  <2>1. j \notin stale => Get(j) # NoJob
    <3>1. j \notin stale => Follows(j)
      BY <1>r, <1>c, <1>j DEF Followed, Running
    <3> QED BY <3>1 DEF Follows, NoJob, Active
  <2> QED BY <1>r, <1>f, <1>g, <1>n, <2>1 DEF Revisions, Above
<1>12. Sessions'
  BY <1>r, <1>f, <1>n, <1>c, <1>o DEF Sessions
<1>13. Unowned'
  BY <1>r, <1>n, <1>q DEF Unowned
<1> QED BY <1>q, <1>1, <1>2, <1>3, <1>4, <1>5, <1>6, <1>7, <1>8, <1>9, <1>10, <1>11, <1>12, <1>13
        DEF IInv, Types, Names, Course, Files

-----------------------------------------------------------------------------
(* The saves.                                                              *)

(* The snapshot is written, or is not: the job is to be saved as acquired, *)
(* or as failed.                                                           *)
Snaps(p) ==
  /\ task.at = "snapshot" /\ task' = Saving(task.op, [task.next EXCEPT !.phase = p])
  /\ snapshots' \in {snapshots, WithSnapshot} /\ (p = "acquired" => snapshots' = WithSnapshot)
  /\ UNCHANGED <<journal, service, todo, saved, volatile, attempt, flow, queue>>
  /\ UNCHANGED <<previews, ids, stopped, stale>>

LEMMA SnapshotEnds ==
  ASSUME IInv, NEW p \in {"acquired", "failed"}, Snaps(p)
  PROVE  IInv'
<1>r. /\ DiskType /\ MemoryType /\ RunType /\ QueueType /\ TaskType
      /\ Issued /\ Owned /\ NewRun /\ OneStep /\ Unowned /\ Stops
      /\ Followed /\ EndWaits /\ Settled /\ Begun
      /\ Written /\ Committed /\ Marks /\ Backing /\ Revisions /\ Sessions
  BY DEF IInv, Types, Names, Course, Files
<1>f. /\ UNCHANGED <<journal, service, todo, saved, volatile, attempt, flow, queue>>
      /\ UNCHANGED <<previews, ids, stopped, stale>>
  BY DEF Snaps
<1>o. PICK op \in Work, j \in Jobs, t \in Runs :
        /\ op = task.op /\ j = op.job /\ t = op.by
        /\ task.at = "snapshot" /\ op.kind = "commit"
        /\ t \notin stopped /\ flow[t].committing /\ flow[t].pc = "staging"
  <2>1. /\ task.at = "snapshot" /\ task.op.kind = "commit"
        /\ task.op.by \notin stopped /\ flow[task.op.by].committing
    BY <1>r DEF Snaps, Stops
  <2>2. task.op \in Work /\ task.op.job \in Jobs /\ task.op.by \in Runs
    BY <1>r, <2>1, WorkersAre, TaskRange DEF TaskType, Steps
  <2>3. flow[task.op.by].pc = "staging"
    BY <1>r, <2>1 DEF OneStep, Steps
  <2> QED BY <2>1, <2>2, <2>3
<1>d. PICK r \in Record : /\ r = [task.next EXCEPT !.phase = p]
                          /\ r.phase = p /\ r.attempt = task.next.attempt
                          /\ r.snap = task.next.snap /\ r.rev = task.next.rev
  <2>1. task.next \in Record /\ p \in Phases
    BY <1>r, TaskRange DEF Phases
  <2>2. [task.next EXCEPT !.phase = p] \in Record
    BY <2>1 DEF Record
  <2> QED BY <2>1, <2>2 DEF Record
<1>v. PICK n \in Record : /\ n = Revised(r, j)
                          /\ saved[j].rev < n.rev /\ r.rev < n.rev
                          /\ n.phase = p /\ n.attempt = r.attempt /\ n.snap = r.snap
  <2>1. /\ Revised(r, j) \in Record
        /\ saved[j].rev < Revised(r, j).rev /\ r.rev < Revised(r, j).rev
        /\ Revised(r, j).phase = r.phase /\ Revised(r, j).attempt = r.attempt
        /\ Revised(r, j).snap = r.snap
    BY <1>r, RevisedIsAbove
  <2> QED BY <1>d, <2>1
<1>n. task' = [op |-> op, next |-> n, at |-> "job"]
  BY <1>o, <1>d, <1>v DEF Snaps, Saving
<1>s. /\ \A s \in snapshots' : s \in snapshots \/ s = [id |-> flow[t].id, by |-> t]
      /\ snapshots \subseteq snapshots'
      /\ p = "acquired" => [id |-> flow[t].id, by |-> t] \in snapshots'
  BY <1>o DEF Snaps, WithSnapshot
<1>g. \A k \in Jobs : Get(k)' = Get(k)
  BY <1>f DEF Get
<1>c. j \notin stale => /\ attempt[j] = t /\ task.next = Get(j)
                        /\ task.next.snap = task.next.attempt /\ task.next.snap = flow[t].id
  BY <1>r, <1>o DEF Committed
<1>k. op.kind \in Steps /\ op.kind \notin Begins /\ op.kind \notin Ends /\ op.kind \notin Others
  BY <1>o DEF Steps, Begins, Ends, Others
<1>1. DiskType'
  <2>1. [id |-> flow[t].id, by |-> t] \in [id : 0 .. MaxIds, by : Runs]
    BY <1>r, <1>o, FlowRange
  <2> QED BY <1>r, <1>f, <1>s, <2>1 DEF DiskType
<1>2. TaskType' /\ MemoryType' /\ RunType' /\ QueueType'
  <2>1. TaskType'
    BY <1>o, <1>n, <1>v DEF TaskType
  <2> QED BY <1>r, <1>f, <2>1 DEF MemoryType, RunType, QueueType
<1>3. Issued'
  <2>1. t <= ids
    BY <1>r, <1>o, RunsAre DEF Issued, Ended, RunType
  <2>2. \A s \in snapshots' : s.by <= ids
    BY <1>r, <1>s, <2>1 DEF Issued
  <2> QED BY <1>r, <1>f, <2>2 DEF Issued, Waiting
<1>4. Owned' /\ OneStep'
  BY <1>r, <1>f, <1>n, <1>o, <1>k DEF Owned, OneStep, Waiting
<1>5. Stops'
  BY <1>r, <1>f, <1>n, <1>o, <1>s DEF Stops, StopHonoured
<1>6. Followed'
  BY <1>r, <1>f, <1>g DEF Waiting, Followed, Follows, Running, Named, Fetched
<1>7. NewRun' /\ EndWaits' /\ Begun' /\ Marks'
  BY <1>r, <1>f, <1>g, <1>k, <1>n DEF Waiting, NewRun, EndWaits, Begun, Marks
<1>8. Settled' /\ Written' /\ Committed'
  <2>1. Settled'
    BY <1>r, <1>f, <1>g, <1>o DEF Settled
  <2>2. Written' /\ Committed'
    BY <1>f, <1>n, <1>v, <1>c, <1>o, <1>k DEF Written, Offers, Committed, Writes
  <2> QED BY <2>1, <2>2
<1>9. Backing'
  <2> SUFFICES ASSUME NEW k \in Jobs \ stale
               PROVE  /\ Backed(saved[k])'
                      /\ \A i \in 1 .. Len(journal[k]) : Backed(journal[k][i])'
                      /\ j = k => Backed(n)' /\ n # NoJob
    BY <1>f, <1>n, <1>o DEF Backing, Backed
  <2>1. Backed(saved[k]) /\ \A i \in 1 .. Len(journal[k]) : Backed(journal[k][i])
    BY <1>r DEF Backing
  <2>2. Backed(saved[k])' /\ \A i \in 1 .. Len(journal[k]) : Backed(journal[k][i])'
    BY <1>f, <1>s, <2>1 DEF Backed
  <2>3. j = k => Backed(n)'
    BY <1>c, <1>d, <1>s, <1>v DEF Backed
  <2>4. n # NoJob
    BY <1>v, Constants DEF Phases
  <2> QED BY <2>2, <2>3, <2>4
<1>10. Revisions'
  <2> SUFFICES ASSUME NEW k \in Jobs \ stale, LinksSave
               PROVE  /\ Len(journal[k]) <= 1
                      /\ volatile[k] # NoJob => saved[k].rev < volatile[k].rev
                      /\ journal[k] # <<>> /\ service # "down" /\ Get(k) # NoJob
                           => journal[k][1].rev <= Get(k).rev
                      /\ j = k => Above(k, n)
    BY <1>f, <1>g, <1>n, <1>o DEF Revisions, Above
  <2>1. /\ Len(journal[k]) <= 1
        /\ volatile[k] # NoJob => saved[k].rev < volatile[k].rev
        /\ journal[k] # <<>> /\ service # "down" /\ Get(k) # NoJob
              => journal[k][1].rev <= Get(k).rev
    BY <1>r DEF Revisions
  <2>2. ASSUME j = k PROVE Above(k, n)
    <3>1. saved[k].rev < n.rev /\ Get(k).rev < n.rev /\ Get(k) # NoJob
      BY <1>r, <1>c, <1>o, <1>d, <1>v, <2>2 DEF Revisions
    <3>2. journal[k] # <<>> => journal[k][1].rev <= Get(k).rev
      <4>1. service # "down"
        BY <1>r, <1>o DEF Sessions, NoTask
      <4> QED BY <2>1, <3>1, <4>1
    <3>4. Get(k).rev \in Nat /\ n.rev \in Nat
      BY <1>r, <1>v, <2>2, GetIsRecord DEF Record
    <3>5. journal[k] # <<>> => journal[k][1].rev \in Nat
      <4>1. journal[k] \in Seq(Record)
        BY <1>r DEF DiskType
      <4>2. journal[k] # <<>> => journal[k][1] \in Record
        BY <4>1
      <4> QED BY <4>2 DEF Record
    <3> QED BY <3>1, <3>2, <3>4, <3>5 DEF Above
  <2> QED BY <2>1, <2>2
<1>11. Sessions'
  BY <1>r, <1>f, <1>n, <1>o DEF Sessions, NoTask
<1>12. Unowned'
  BY <1>r, <1>f, <1>n, <1>k DEF Unowned, Waiting
<1> QED BY <1>1, <1>2, <1>3, <1>4, <1>5, <1>6, <1>7, <1>8, <1>9, <1>10, <1>11, <1>12
        DEF IInv, Types, Names, Course, Files

(* The file of a record joins those of its job: alone, if it is above them. *)
LEMMA AddedIs ==
  ASSUME NEW files \in Seq(Record), NEW r \in Record
  PROVE  /\ Added(files, r) \in Seq(Record)
         /\ Added(files, r) \in {<<r>>, Append(files, r), files}
         /\ files = <<>> \/ files[1].rev < r.rev => Added(files, r) = <<r>>
<1> DEFINE higher == files = <<>> \/ files[1].rev < r.rev
           same   == files # <<>> /\ files[1].rev = r.rev
<1>1. higher => ~same
  <2>1. files # <<>> => files[1] \in Record
    OBVIOUS
  <2>2. files # <<>> => files[1].rev \in Nat
    BY <2>1 DEF Record
  <2> QED BY <2>2 DEF Record
<1>2. Added(files, r) = CASE higher -> <<r>> [] same -> Append(files, r) [] OTHER -> files
  BY Zenon DEF Added
<1> HIDE DEF higher, same
<1>3. higher => Added(files, r) = <<r>>
  BY <1>1, <1>2, Zenon
<1>4. Added(files, r) \in {<<r>>, Append(files, r), files}
  BY <1>1, <1>2, Zenon
<1>5. <<r>> \in Seq(Record) /\ Append(files, r) \in Seq(Record)
  OBVIOUS
<1> QED BY <1>3, <1>4, <1>5 DEF higher

LEMMA JobIsWritten ==
  ASSUME DiskType, TaskType, Revisions, task.at = "job"
  PROVE  /\ DOMAIN WithJob = Jobs /\ \A k \in Jobs : WithJob[k] \in Seq(Record)
         /\ \A k \in Jobs : k # task.op.job => WithJob[k] = journal[k]
         /\ WithJob[task.op.job] \in {<<task.next>>, Append(journal[task.op.job], task.next),
                                      journal[task.op.job]}
         /\ LinksSave /\ task.op.job \notin stale => WithJob[task.op.job] = <<task.next>>
<1>1. PICK j \in Jobs, n \in Record : j = task.op.job /\ n = task.next
  BY TaskRange DEF TaskType
<1>2. WithJob = [journal EXCEPT ![j] = Added(journal[j], n)]
  BY <1>1 DEF WithJob
<1>3. /\ Added(journal[j], n) \in Seq(Record)
      /\ Added(journal[j], n) \in {<<n>>, Append(journal[j], n), journal[j]}
      /\ journal[j] = <<>> \/ journal[j][1].rev < n.rev => Added(journal[j], n) = <<n>>
  BY AddedIs DEF DiskType
<1>4. LinksSave /\ j \notin stale => journal[j] = <<>> \/ journal[j][1].rev < n.rev
  BY <1>1 DEF Revisions, Above
<1> QED BY <1>1, <1>2, <1>3, <1>4 DEF DiskType

(* What a save that succeeds does to the files and the repository.         *)
Stored(j, n) ==
  /\ task.at = "job" /\ j = task.op.job /\ n = task.next /\ task' = NoTask
  /\ journal' = WithJob
  /\ saved' = [saved EXCEPT ![j] = n] /\ volatile' = [volatile EXCEPT ![j] = NoJob]
  /\ UNCHANGED <<snapshots, service, todo, previews, ids, stopped, stale>>

LEMMA SaveStores ==
  ASSUME IInv, NEW j \in Jobs, NEW n \in Record, Stored(j, n)
  PROVE  /\ DiskType' /\ MemoryType' /\ TaskType' /\ Backing' /\ Revisions'
         /\ Written' /\ Committed' /\ NewRun'
         /\ Get(j)' = n /\ \A k \in Jobs : k # j => Get(k)' = Get(k)
         /\ j \notin stale => saved'[j] # NoJob
<1>r. /\ DiskType /\ MemoryType /\ TaskType /\ Backing /\ Revisions
  BY DEF IInv, Types, Names, Course, Files
<1>s. /\ task.at = "job" /\ j = task.op.job /\ n = task.next /\ task' = NoTask
      /\ journal' = WithJob
      /\ UNCHANGED <<snapshots, service, todo, previews, stale>>
  BY DEF Stored
<1>t. task'.at = "none" /\ task'.op.kind = "none"
  BY <1>s DEF NoTask, Op
<1>m. /\ saved' \in [Jobs -> Record] /\ volatile' \in [Jobs -> Record]
      /\ saved'[j] = n /\ volatile'[j] = NoJob
      /\ \A k \in Jobs : k # j => saved'[k] = saved[k] /\ volatile'[k] = volatile[k]
  BY <1>r, Constants DEF Stored, MemoryType
<1>g. Get(j)' = n /\ \A k \in Jobs : k # j => Get(k)' = Get(k)
  BY <1>m DEF Get
<1>j. /\ DOMAIN journal' = Jobs /\ \A k \in Jobs : journal'[k] \in Seq(Record)
      /\ \A k \in Jobs : k # j => journal'[k] = journal[k]
      /\ journal'[j] \in {<<n>>, Append(journal[j], n), journal[j]}
      /\ LinksSave /\ j \notin stale => journal'[j] = <<n>>
  BY <1>r, <1>s, JobIsWritten
<1>1. DiskType' /\ MemoryType'
  BY <1>r, <1>s, <1>j, <1>m DEF DiskType, MemoryType
<1>2. TaskType' /\ Written' /\ Committed' /\ NewRun'
  <2>1. TaskType'
    BY <1>s, <1>t, NoWork DEF TaskType
  <2> QED BY <1>t, <2>1 DEF Written, Committed, NewRun, Begins
<1>3. Backing'
  <2> SUFFICES ASSUME NEW k \in Jobs \ stale
               PROVE  Backed(saved'[k]) /\ \A i \in 1 .. Len(journal'[k]) : Backed(journal'[k][i])
    BY <1>s, <1>t DEF Backing, Backed
  <2>1. CASE k = j
    <3>1. Backed(n) /\ \A i \in 1 .. Len(journal[k]) : Backed(journal[k][i])
      BY <1>r, <1>s, <2>1 DEF Backing
    <3>2. journal[k] \in Seq(Record)
      BY <1>r DEF DiskType
    <3>3. \A i \in 1 .. Len(journal'[k]) :
            \/ journal'[k][i] = n
            \/ i \in 1 .. Len(journal[k]) /\ journal'[k][i] = journal[k][i]
      BY <1>j, <2>1, <3>2
    <3> QED BY <1>m, <2>1, <3>1, <3>3
  <2>2. CASE k # j
    BY <1>r, <1>j, <1>m, <2>2 DEF Backing
  <2> QED BY <2>1, <2>2
<1>4. Revisions'
  <2> SUFFICES ASSUME NEW k \in Jobs \ stale, LinksSave
               PROVE  /\ Len(journal'[k]) <= 1
                      /\ volatile'[k] # NoJob => saved'[k].rev < volatile'[k].rev
                      /\ journal'[k] # <<>> /\ service # "down" /\ Get(k)' # NoJob
                           => journal'[k][1].rev <= Get(k)'.rev
    BY <1>s, <1>t DEF Revisions, Get
  <2>1. CASE k = j
    <3>1. n.rev \in Nat /\ Len(<<n>>) = 1 /\ <<n>>[1] = n
      BY DEF Record
    <3>2. Len(journal'[k]) = 1 /\ journal'[k][1] = n
      BY <1>j, <2>1, <3>1
    <3> QED BY <1>g, <1>m, <2>1, <3>1, <3>2
  <2>2. CASE k # j
    BY <1>r, <1>g, <1>j, <1>m, <2>2 DEF Revisions
  <2> QED BY <2>1, <2>2
<1>5. j \notin stale => saved'[j] # NoJob
  BY <1>r, <1>m, <1>s DEF Backing
<1> QED BY <1>1, <1>2, <1>3, <1>4, <1>5, <1>g

(* What is known of the work whose save has ended.                         *)
LEMMA SaveEnds ==
  ASSUME IInv, NEW j \in Jobs, NEW n \in Record, Stored(j, n)
  PROVE  /\ service # "down" /\ (service = "loading" => task.op.kind = "recover")
         /\ Offers(task.op, n) /\ (j \notin stale => Writes(task.op, n))
         /\ task.op.kind \in Begins => Unused(n.attempt)
         /\ task.op.kind \in Steps \cup {"choose"} =>
              /\ task.op.by \in Runs /\ task.op.by <= ids
              /\ flow[task.op.by].job = j /\ flow[task.op.by].pc # "ended"
              /\ \A k \in Jobs : attempt[k] = task.op.by => k = j
              /\ \A i \in Waiting : queue[i].kind \in Steps => queue[i].by # task.op.by
<1>r. /\ RunType /\ QueueType /\ TaskType /\ Issued /\ Owned /\ NewRun /\ OneStep
      /\ Written /\ Sessions
  BY DEF IInv, Types, Names, Files
<1>s. task.at = "job" /\ j = task.op.job /\ n = task.next
  BY DEF Stored
<1>1. service # "down" /\ (service = "loading" => task.op.kind = "recover")
  BY <1>r, <1>s DEF Sessions, NoTask
<1>2. /\ Offers(task.op, n) /\ (j \notin stale => Writes(task.op, n))
      /\ task.op.kind \in Begins => Unused(n.attempt)
  BY <1>r, <1>s DEF Written, NewRun
<1>3. ASSUME task.op.kind \in Steps \cup {"choose"}
      PROVE  /\ task.op.by \in Runs /\ task.op.by <= ids
             /\ flow[task.op.by].job = j /\ flow[task.op.by].pc # "ended"
             /\ \A k \in Jobs : attempt[k] = task.op.by => k = j
             /\ \A i \in Waiting : queue[i].kind \in Steps => queue[i].by # task.op.by
  <2>1. task.op.by \in Runs /\ task.op.by # 0 /\ flow[task.op.by].job \in {0, j}
    BY <1>r, <1>s, <1>3, WorkersAre DEF Owned
  <2>2. flow[task.op.by].pc \in {"staging", "offered"}
    BY <1>r, <1>3 DEF OneStep
  <2>3. flow[task.op.by].job = j /\ flow[task.op.by] # Ended
    BY <1>r, <2>1, <2>2 DEF Owned, Ended
  <2>4. task.op.by <= ids
    BY <1>r, <2>1, <2>3, RunsAre DEF Issued, RunType
  <2>5. \A k \in Jobs : attempt[k] = task.op.by => k = j
    BY <1>r, <2>1, <2>3 DEF Owned
  <2>6. \A i \in Waiting : queue[i].kind \in Steps => queue[i].by # task.op.by
    BY <1>r, <1>3, <2>2 DEF OneStep
  <2> QED BY <2>1, <2>2, <2>3, <2>4, <2>5, <2>6
<1> QED BY <1>1, <1>2, <1>3

(* The saved work was not about a run, or its run waits for its end.       *)
LEMMA NothingFollows ==
  ASSUME IInv, NEW j \in Jobs, NEW n \in Record, Stored(j, n),
         task.op.kind \notin Steps \cup {"choose"} \cup Begins,
         UNCHANGED <<attempt, flow, queue>>
  PROVE  IInv'
<1>r. /\ DiskType /\ MemoryType /\ RunType /\ QueueType /\ TaskType
      /\ Issued /\ Owned /\ NewRun /\ OneStep /\ Unowned /\ Stops
      /\ Followed /\ EndWaits /\ Settled /\ Begun
      /\ Written /\ Committed /\ Marks /\ Backing /\ Revisions /\ Sessions
  BY DEF IInv, Types, Names, Course, Files
<1>f. /\ UNCHANGED <<snapshots, service, todo, previews, ids, stopped, stale>>
      /\ UNCHANGED <<attempt, flow, queue>>
      /\ task.at = "job" /\ task.op.job = j
      /\ task'.at = "none" /\ task'.op.kind = "none" /\ task'.op.by = 0
      /\ \A k \in Jobs : k # j => saved'[k] = saved[k] /\ volatile'[k] = volatile[k]
      /\ volatile'[j] = NoJob
  BY <1>r DEF Stored, NoTask, Op, MemoryType
<1>s. /\ DiskType' /\ MemoryType' /\ TaskType' /\ Backing' /\ Revisions'
      /\ Written' /\ Committed' /\ NewRun'
      /\ Get(j)' = n /\ \A k \in Jobs : k # j => Get(k)' = Get(k)
      /\ j \notin stale => saved'[j] # NoJob
  BY SaveStores
<1>e. /\ service # "down" /\ (service = "loading" => task.op.kind = "recover")
      /\ Offers(task.op, n) /\ (j \notin stale => Writes(task.op, n))
  BY SaveEnds
<1>k. task.op.kind \in Ends \cup {"link", "mark"} \cup Others
  <2>1. task.op.kind \notin {"none", "close"} /\ task.op \in Work
    BY <1>r, <1>f DEF TaskType
  <2> QED BY <2>1 DEF Work, Asked
<1>w. j \notin stale => /\ ~Active(n.phase)
                        /\ attempt[j] = 0 \/ (service # "up" /\ n.phase # "acquired")
                                          \/ task.op.kind = "recover"
  <2> SUFFICES ASSUME j \notin stale
               PROVE  /\ ~Active(n.phase)
                      /\ attempt[j] = 0 \/ (service # "up" /\ n.phase # "acquired")
                                        \/ task.op.kind = "recover"
    OBVIOUS
  <2>1. Writes(task.op, n)
    BY <1>e
  <2>2. ~Active(n.phase)
    BY <1>k, <2>1, Zenon DEF Writes
  <2>3. CASE task.op.kind \in Ends \cup {"link", "mark", "broken"}
    <3>1. /\ task.op.kind \in Ends => attempt[task.op.job] = 0
          /\ task.op.kind \in {"link", "mark", "broken"} => attempt[task.op.job] = 0
      BY <2>1 DEF Writes
    <3>2. attempt[task.op.job] = 0
      BY <2>3, <3>1
    <3>3. attempt[j] = 0
      BY <1>f, <3>2
    <3> QED BY <2>2, <3>3, Zenon
  <2>4. CASE task.op.kind = "closed"
    BY <2>1, <2>2, <2>4 DEF Writes
  <2> QED BY <1>k, <2>2, <2>3, <2>4 DEF Others
<1>1. /\ RunType' /\ QueueType' /\ Issued' /\ Owned' /\ Stops' /\ EndWaits'
  <2>1. Issued' /\ EndWaits' /\ RunType' /\ QueueType'
    BY <1>r, <1>f DEF Issued, EndWaits, Waiting, RunType, QueueType
  <2>2. Owned' /\ Stops'
    BY <1>r, <1>f DEF Owned, Stops, StopHonoured, Waiting, Steps, Ends
  <2> QED BY <2>1, <2>2
<1>2. OneStep'
  BY <1>r, <1>f DEF OneStep, Waiting, Steps
<1>3. Followed'
  <2> SUFFICES ASSUME NEW k \in Jobs, Running(k)'
               PROVE  Follows(k)'
    BY DEF Followed
  <2>1. CASE k = j
    <3>1. j \in stale /\ n.phase # "awaiting_selection"
      BY <1>f, <1>e, <1>k, <1>r, <1>w, <2>1 DEF Running, Offers, Sessions, Steps
    <3> QED BY <1>f, <1>s, <2>1, <3>1 DEF Follows
  <2>2. CASE k # j
    <3>1. Running(k)
      BY <1>f, <2>2 DEF Running
    <3>2. Follows(k) /\ Get(k)' = Get(k)
      BY <1>r, <1>s, <2>2, <3>1 DEF Followed
    <3>3. Named(k)' = Named(k) /\ Fetched(k)' = Fetched(k)
      BY <1>f, <3>2 DEF Named, Fetched
    <3> QED BY <1>f, <3>2, <3>3 DEF Follows, Waiting
  <2> QED BY <2>1, <2>2
<1>4. Settled'
  BY <1>r, <1>f, <1>s, <1>w DEF Settled
<1>5. Begun'
  <2>1. task.op.kind = "recover" => attempt[j] = 0
    <3>1. task.op.kind = "recover" => service \in {"down", "loading"}
      BY <1>r DEF Sessions
    <3> QED BY <1>r, <3>1 DEF Sessions
  <2> QED BY <1>r, <1>f, <1>s, <1>w, <2>1 DEF Begun
<1>6. Marks'
  BY <1>r, <1>f DEF Marks, Waiting, NoJob
<1>7. Sessions'
  <2>1. task' = NoTask
    BY DEF Stored
  <2>2. service = "loading" => /\ j \notin todo
                               /\ \A k \in Jobs \ stale : k \in todo \/ ~Active(Get(k).phase)'
    BY <1>r, <1>f, <1>s, <1>w DEF Sessions
  <2> QED BY <1>r, <1>f, <1>e, <2>1, <2>2 DEF Sessions, MemoryType
<1>8. Unowned'
  BY <1>r, <1>f DEF Unowned, Waiting
<1> QED BY <1>s, <1>1, <1>2, <1>3, <1>4, <1>5, <1>6, <1>7, <1>8
        DEF IInv, Types, Names, Course, Files

(* A run goes on after its save, or gives its job up.                      *)
Goes(j, n, t, f) ==
  /\ task.op.kind \in Steps \cup {"choose"} /\ t = task.op.by
  /\ flow' = [flow EXCEPT ![t] = f]
  /\ \A k \in Jobs : k # j => attempt'[k] = attempt[k]
  /\ UNCHANGED queue
  /\ \/ f = Ended /\ attempt'[j] # t
     \/ /\ f.job = flow[t].job /\ f.id = flow[t].id
        /\ f.aborted = flow[t].aborted /\ f.committing = flow[t].committing
  /\ \/ attempt'[j] = 0 /\ (j \notin stale => ~Active(n.phase))
     \/ /\ attempt'[j] = attempt[j]
        /\ n.phase = "awaiting_selection" => attempt[j] = t /\ f.pc = "offered"
        /\ j \notin stale => /\ n.phase # "acquired" /\ attempt[j] = t
                             /\ ~f.aborted /\ service = "up" => Follows(j)'

LEMMA RunGoesOn ==
  ASSUME IInv, NEW j \in Jobs, NEW n \in Record, NEW t, NEW f \in Flow, Stored(j, n),
         Goes(j, n, t, f), RunType'
  PROVE  IInv'
<1>r. /\ DiskType /\ MemoryType /\ RunType /\ QueueType /\ TaskType
      /\ Issued /\ Owned /\ NewRun /\ OneStep /\ Unowned /\ Stops
      /\ Followed /\ EndWaits /\ Settled /\ Begun
      /\ Written /\ Committed /\ Marks /\ Backing /\ Revisions /\ Sessions
  BY DEF IInv, Types, Names, Course, Files
<1>f. /\ UNCHANGED <<snapshots, service, todo, previews, ids, stopped, stale, queue>>
      /\ task.at = "job" /\ task.op.job = j
      /\ task'.at = "none" /\ task'.op.kind = "none" /\ task'.op.by = 0
      /\ \A k \in Jobs : k # j => saved'[k] = saved[k] /\ volatile'[k] = volatile[k]
      /\ volatile'[j] = NoJob
  BY <1>r DEF Stored, NoTask, Op, MemoryType, Goes
<1>s. /\ DiskType' /\ MemoryType' /\ TaskType' /\ Backing' /\ Revisions'
      /\ Written' /\ Committed' /\ NewRun'
      /\ Get(j)' = n /\ \A k \in Jobs : k # j => Get(k)' = Get(k)
      /\ j \notin stale => saved'[j] # NoJob
  BY SaveStores
<1>e. /\ service \notin {"down", "loading"}
      /\ t \in Runs /\ t # 0 /\ t <= ids /\ flow[t].job = j /\ flow[t].pc # "ended"
      /\ \A k \in Jobs : attempt[k] = t => k = j
      /\ \A i \in Waiting : queue[i].kind \in Steps => queue[i].by # t
  BY SaveEnds, RunsAre DEF Goes, Steps
<1>k. task.op.kind \notin Ends
  BY DEF Goes, Steps, Ends
<1>t. /\ \A u \in Runs : u # t => flow'[u] = flow[u]
      /\ flow'[t] = f
  BY <1>r, <1>e DEF Goes, RunType
<1>a. /\ \A k \in Jobs : k # j => attempt'[k] = attempt[k] /\ attempt'[k] # t
      /\ attempt'[j] = attempt[j] \/ attempt'[j] = 0
  BY <1>e DEF Goes
<1>j. \/ f = Ended /\ attempt'[j] # t
      \/ /\ f.job = flow[t].job /\ f.id = flow[t].id
         /\ f.aborted = flow[t].aborted /\ f.committing = flow[t].committing
  BY DEF Goes
<1>o. /\ attempt'[j] = 0 /\ j \notin stale => ~Active(n.phase)
      /\ attempt'[j] # 0 /\ j \notin stale =>
           n.phase # "acquired" /\ attempt'[j] = t /\ (~f.aborted /\ service = "up" => Follows(j)')
  BY <1>e DEF Goes
<1>p. attempt'[j] # 0 /\ n.phase = "awaiting_selection" => attempt'[j] = t /\ f.pc = "offered"
  BY <1>e DEF Goes
<1>1. RunType' /\ QueueType'
  BY <1>r, <1>f DEF QueueType
<1>2. Issued'
  <2>1. \A u \in Runs : u > ids => flow'[u] = Ended
    BY <1>r, <1>t, <1>e, RunsAre DEF Issued, RunType
  <2>2. \A k \in Jobs : attempt'[k] <= ids
    BY <1>r, <1>a DEF Issued, RunType
  <2> QED BY <1>r, <1>f, <2>1, <2>2 DEF Issued, Waiting
<1>3. Owned'
  <2>1. f.job \in {0, flow[t].job} /\ (attempt'[j] = t => f.job = j)
    BY <1>e, <1>j DEF Ended
  <2>2. \A k \in Jobs : attempt'[k] # 0 => flow'[attempt'[k]].job = k
    BY <1>r, <1>a, <1>t, <2>1, AttemptRange DEF Owned
  <2>3. \A u \in Runs : flow'[u].pc # "ended" => flow'[u].job # 0
    BY <1>r, <1>t, <1>j, <1>e DEF Owned, Ended
  <2>4. \A i \in Waiting : queue[i].kind \in Steps \cup Ends =>
              queue[i].by # 0 /\ flow'[queue[i].by].job \in {0, queue[i].job}
    BY <1>r, <1>t, <2>1, WorkersAre DEF Owned
  <2> QED BY <1>f, <2>2, <2>3, <2>4 DEF Owned, Waiting, Steps, Ends
<1>4. OneStep'
  <2>1. \A i \in Waiting : queue[i].kind \in Steps => flow'[queue[i].by].pc = "staging"
    BY <1>r, <1>e, <1>t, WorkersAre DEF OneStep
  <2> QED BY <1>r, <1>f, <2>1 DEF OneStep, Waiting, Steps
<1>5. Stops'
  <2>1. /\ \A u \in stopped : u \in Runs /\ u # 0
        /\ \A s \in snapshots : s.by \in Runs /\ s.by # 0
    BY <1>r, RunsAre DEF RunType, DiskType
  <2>2. /\ f.committing => flow[t].committing
        /\ attempt'[j] = t => f.committing = flow[t].committing /\ f.aborted = flow[t].aborted
    BY <1>j DEF Ended
  <2> QED BY <1>r, <1>f, <1>a, <1>t, <2>1, <2>2 DEF Stops, StopHonoured
<1>6. Followed'
  <2> SUFFICES ASSUME NEW k \in Jobs, Running(k)'
               PROVE  Follows(k)'
    BY DEF Followed
  <2>1. CASE k = j
    <3>1. CASE j \notin stale
      BY <1>f, <1>o, <1>t, <2>1, <3>1 DEF Running
    <3>2. CASE j \in stale
      BY <1>f, <1>s, <1>p, <1>t, <2>1, <3>2 DEF Running, Follows
    <3> QED BY <3>1, <3>2
  <2>2. CASE k # j
    <3>1. Running(k) /\ attempt[k] \in Runs /\ attempt'[k] = attempt[k] /\ attempt[k] # t
      BY <1>r, <1>f, <1>a, <1>t, <2>2, AttemptRange DEF Running
    <3>2. Follows(k) /\ Get(k)' = Get(k) /\ flow'[attempt[k]] = flow[attempt[k]]
      BY <1>r, <1>s, <1>t, <2>2, <3>1 DEF Followed
    <3>3. Named(k)' = Named(k) /\ Fetched(k)' = Fetched(k)
      BY <3>1, <3>2 DEF Named, Fetched
    <3> QED BY <1>f, <3>1, <3>2, <3>3 DEF Follows, Waiting
  <2> QED BY <2>1, <2>2
<1>7. EndWaits'
  <2> SUFFICES ASSUME NEW k \in Jobs, service = "up", attempt'[k] # 0, flow'[attempt'[k]].aborted
               PROVE  \E i \in Waiting : /\ queue[i].kind \in Ends /\ queue[i].job = k
                                         /\ queue[i].by = attempt'[k]
    BY <1>f DEF EndWaits, Waiting
  <2>1. attempt'[k] = attempt[k] /\ attempt[k] # 0 /\ attempt[k] \in Runs
    BY <1>r, <1>a, AttemptRange
  <2>2. flow[attempt[k]].aborted
    BY <1>t, <1>j, <1>a, <2>1 DEF Ended
  <2> QED BY <1>r, <2>1, <2>2 DEF EndWaits
<1>8. Settled'
  <2> SUFFICES ASSUME NEW k \in Jobs \ stale, service = "up", attempt'[k] = 0, Active(Get(k)'.phase)
               PROVE  FALSE
    BY <1>f DEF Settled
  <2>1. k # j
    BY <1>s, <1>o
  <2> QED BY <1>r, <1>f, <1>a, <1>s, <2>1 DEF Settled
<1>9. Begun'
  BY <1>r, <1>f, <1>a, <1>s, <1>o DEF Begun
<1>10. Marks'
  BY <1>r, <1>f DEF Marks, Waiting, NoJob
<1>11. Sessions'
  BY <1>r, <1>f, <1>e DEF Sessions
<1>12. Unowned'
  BY <1>r, <1>f DEF Unowned, Waiting
<1> QED BY <1>s, <1>1, <1>2, <1>3, <1>4, <1>5, <1>6, <1>7, <1>8, <1>9, <1>10, <1>11, <1>12
        DEF IInv, Types, Names, Course, Files

(* The first stage of a new run joins the queue.                           *)
Launches(j, n) ==
  /\ task.op.kind \in Begins
  /\ attempt' = [attempt EXCEPT ![j] = n.attempt]
  /\ flow' = Launched(n.attempt, j)
  /\ queue' = Append(queue, [Op("stage", j, n.attempt) EXCEPT !.to = "resolving"])

LEMMA RunBegins ==
  ASSUME IInv, NEW j \in Jobs, NEW n \in Record, Stored(j, n), Launches(j, n)
  PROVE  IInv'
<1>r. /\ DiskType /\ MemoryType /\ RunType /\ QueueType /\ TaskType
      /\ Issued /\ Owned /\ NewRun /\ OneStep /\ Unowned /\ Stops
      /\ Followed /\ EndWaits /\ Settled /\ Begun
      /\ Written /\ Committed /\ Marks /\ Backing /\ Revisions /\ Sessions
  BY DEF IInv, Types, Names, Course, Files
<1>f. /\ UNCHANGED <<snapshots, service, todo, previews, ids, stopped, stale>>
      /\ task.at = "job" /\ task.op.job = j
      /\ task'.at = "none" /\ task'.op.kind = "none" /\ task'.op.by = 0
      /\ \A k \in Jobs : k # j => saved'[k] = saved[k] /\ volatile'[k] = volatile[k]
      /\ volatile'[j] = NoJob
  BY <1>r DEF Stored, NoTask, Op, MemoryType
<1>s. /\ DiskType' /\ MemoryType' /\ TaskType' /\ Backing' /\ Revisions'
      /\ Written' /\ Committed' /\ NewRun'
      /\ Get(j)' = n /\ \A k \in Jobs : k # j => Get(k)' = Get(k)
      /\ j \notin stale => saved'[j] # NoJob
  BY SaveStores
<1>e. /\ service \notin {"down", "loading"}
      /\ n.phase # "awaiting_selection" /\ (j \notin stale => n.phase = "queued")
  BY SaveEnds DEF Launches, Begins, Offers, Writes
<1>a. PICK a \in Runs : /\ a = n.attempt /\ a # 0 /\ a \in 0 .. MaxIds
                        /\ Unused(a) /\ a <= ids
  <2>1. Unused(n.attempt)
    BY SaveEnds DEF Launches
  <2>2. \A b \in 1 .. ids : b \in Runs /\ b <= ids /\ b # 0 /\ b \in 0 .. MaxIds
    BY <1>r, Constants DEF Runs, RunType
  <2> QED BY <2>1, <2>2 DEF Unused
<1>u. /\ a \notin stopped /\ \A s \in snapshots : s.by # a
      /\ \A k \in Jobs : attempt[k] # a
      /\ \A i \in Waiting : queue[i].by # a
  BY <1>a DEF Unused
<1>l. PICK op \in Queued : /\ op = [Op("stage", j, a) EXCEPT !.to = "resolving"]
                           /\ op.kind = "stage" /\ op.job = j /\ op.by = a /\ op.to = "resolving"
  <2> DEFINE first == [kind |-> "stage", job |-> j, by |-> a, to |-> "resolving", rec |-> NoJob]
  <2>1. first \in Queued
    BY <1>a, Constants DEF Queued, Steps, Stages
  <2>2. [Op("stage", j, a) EXCEPT !.to = "resolving"] = first
    BY DEF Op
  <2> QED BY <2>1, <2>2
<1>p. op.kind \in Steps /\ op.kind = "stage" /\ op.job = j /\ op.by = a /\ op.to # "none"
  BY <1>l DEF Steps
<1>q. /\ QueueType' /\ Len(queue) \in Nat /\ Len(queue') = Len(queue) + 1
      /\ queue'[Len(queue) + 1] = op
      /\ \A i \in Waiting : queue'[i] = queue[i] /\ i \in Waiting'
      /\ \A i \in Waiting' : \/ i \in Waiting /\ queue'[i] = queue[i]
                             \/ i = Len(queue) + 1 /\ queue'[i] = op
  BY <1>r, <1>a, <1>l, QueueGrows DEF Launches, Waiting
<1>t. /\ \A u \in Runs : u # a => flow'[u] = flow[u]
      /\ flow'[a].pc = "staging" /\ flow'[a].job = j /\ flow'[a].id = a
      /\ ~flow'[a].aborted /\ ~flow'[a].committing
      /\ flow' \in [Runs -> Flow]
  <2> DEFINE f == [Ended EXCEPT !.pc = "staging", !.job = j, !.id = a, !.armed = TRUE]
  <2>1. /\ f \in Flow /\ f.pc = "staging" /\ f.job = j /\ f.id = a
        /\ ~f.aborted /\ ~f.committing
    BY <1>a DEF Ended, Flow
  <2>2. flow' = [flow EXCEPT ![a] = f]
    BY <1>a DEF Launches, Launched
  <2> HIDE DEF f
  <2> QED BY <1>r, <2>1, <2>2 DEF RunType
<1>k. /\ \A k \in Jobs : k # j => attempt'[k] = attempt[k] /\ attempt'[k] # a
      /\ attempt'[j] = a
      /\ attempt' \in [Jobs -> 0 .. MaxIds]
  BY <1>r, <1>a, <1>u DEF Launches, RunType
<1>1. RunType'
  BY <1>r, <1>f, <1>t, <1>k DEF RunType
<1>2. Issued'
  <2>1. \A u \in Runs : u > ids => flow'[u] = Ended
    <3>1. \A u \in Runs : u > ids => u # a
      BY <1>r, <1>a, RunsAre DEF RunType
    <3> QED BY <1>r, <1>t, <3>1 DEF Issued
  <2>2. \A k \in Jobs : attempt'[k] <= ids
    BY <1>r, <1>k, <1>a DEF Issued
  <2>3. \A i \in Waiting' : queue'[i].by <= ids
    BY <1>r, <1>q, <1>p, <1>a DEF Issued
  <2> QED BY <1>r, <1>f, <2>1, <2>2, <2>3 DEF Issued
<1>3. Owned'
  <2>1. \A k \in Jobs : attempt'[k] # 0 => flow'[attempt'[k]].job = k
    BY <1>r, <1>k, <1>t, AttemptRange DEF Owned
  <2>2. \A u \in Runs : flow'[u].pc # "ended" => flow'[u].job # 0
    BY <1>r, <1>t, Constants DEF Owned
  <2>3. \A i \in Waiting' : queue'[i].kind \in Steps \cup Ends =>
              queue'[i].by # 0 /\ flow'[queue'[i].by].job \in {0, queue'[i].job}
    <3>1. \A i \in Waiting : queue[i].kind \in Steps \cup Ends =>
              queue[i].by # 0 /\ flow'[queue[i].by].job \in {0, queue[i].job}
      BY <1>r, <1>u, <1>t, WorkersAre DEF Owned
    <3>2. op.by # 0 /\ flow'[op.by].job = op.job
      BY <1>a, <1>p, <1>t
    <3> QED BY <1>q, <3>1, <3>2
  <2> QED BY <1>f, <2>1, <2>2, <2>3 DEF Owned, Steps, Ends
<1>4. OneStep'
  <2>1. \A i \in Waiting : queue[i].kind \in Steps => queue[i].by \in Runs \ {a}
    BY <1>r, <1>u, WorkersAre
  <2>2. \A i \in Waiting' : queue'[i].kind \in Steps => flow'[queue'[i].by].pc = "staging"
    <3>1. \A i \in Waiting : queue[i].kind \in Steps => flow'[queue[i].by].pc = "staging"
      BY <1>r, <1>t, <2>1 DEF OneStep
    <3> QED BY <1>p, <1>q, <1>t, <3>1
  <2>3. ASSUME NEW i \in Waiting', NEW k \in Waiting', queue'[i].by = queue'[k].by,
               {queue'[i].kind, queue'[k].kind} \subseteq Steps
        PROVE  i = k
    BY <1>r, <1>p, <1>q, <2>1, <2>3 DEF OneStep
  <2> QED BY <1>f, <2>2, <2>3 DEF OneStep, Steps
<1>5. Stops'
  <2>1. /\ \A u \in stopped : u \in Runs /\ u # 0 /\ u # a
        /\ \A s \in snapshots : s.by \in Runs /\ s.by # 0 /\ s.by # a
    BY <1>r, <1>u, RunsAre DEF RunType, DiskType
  <2> QED BY <1>r, <1>f, <1>k, <1>t, <2>1 DEF Stops, StopHonoured
<1>6. Followed'
  <2> SUFFICES ASSUME NEW k \in Jobs, Running(k)'
               PROVE  Follows(k)'
    BY DEF Followed
  <2>1. CASE k = j
    <3>1. (j \notin stale => Active(n.phase)) /\ n.phase # "awaiting_selection" /\ n.attempt = a
      BY <1>a, <1>e DEF Active
    <3>2. Named(j)'
      BY <1>s, <1>k, <1>t, <3>1 DEF Named
    <3>3. \A i \in Waiting' : queue'[i].by = a => queue'[i].kind = "stage"
      BY <1>u, <1>p, <1>q
    <3> QED BY <1>f, <1>s, <1>k, <1>t, <2>1, <3>1, <3>2, <3>3 DEF Follows
  <2>2. CASE k # j
    <3>1. Running(k) /\ attempt[k] \in Runs /\ attempt'[k] = attempt[k] /\ attempt[k] # a
      BY <1>r, <1>f, <1>k, <1>t, <2>2, AttemptRange DEF Running
    <3>2. Follows(k) /\ Get(k)' = Get(k) /\ flow'[attempt[k]] = flow[attempt[k]]
      BY <1>r, <1>s, <1>t, <2>2, <3>1 DEF Followed
    <3>3. Named(k)' = Named(k) /\ Fetched(k)' = Fetched(k)
      BY <3>1, <3>2 DEF Named, Fetched
    <3> QED BY <1>f, <1>p, <1>q, <3>1, <3>2, <3>3 DEF Follows
  <2> QED BY <2>1, <2>2
<1>7. EndWaits'
  <2> SUFFICES ASSUME NEW k \in Jobs, service = "up", attempt'[k] # 0, flow'[attempt'[k]].aborted
               PROVE  \E i \in Waiting' : /\ queue'[i].kind \in Ends /\ queue'[i].job = k
                                          /\ queue'[i].by = attempt'[k]
    BY <1>f DEF EndWaits
  <2>1. attempt'[k] = attempt[k] /\ attempt[k] # 0 /\ attempt[k] \in Runs /\ attempt[k] # a
    BY <1>r, <1>k, <1>t, <1>u, AttemptRange
  <2>2. flow[attempt[k]].aborted
    BY <1>t, <2>1
  <2> QED BY <1>r, <1>q, <2>1, <2>2 DEF EndWaits
<1>8. Settled'
  BY <1>r, <1>f, <1>a, <1>k, <1>s DEF Settled
<1>9. Begun'
  BY <1>r, <1>f, <1>k, <1>s, <1>e DEF Begun
<1>10. Marks'
  BY <1>r, <1>f, <1>p, <1>q DEF Marks, NoJob
<1>11. Sessions'
  BY <1>r, <1>f, <1>e DEF Sessions
<1>12. Unowned'
  BY <1>r, <1>f, <1>p, <1>q DEF Unowned, Asked, Begins
<1> QED BY <1>s, <1>q, <1>1, <1>2, <1>3, <1>4, <1>5, <1>6, <1>7, <1>8, <1>9, <1>10, <1>11, <1>12
        DEF IInv, Types, Names, Course, Files

(* The outcomes of an error.                                               *)
LEMMA FailuresAre ==
  /\ Failures = {"failed", "unmatched", "conflicting", "unconfigured"}
  /\ Failures \subseteq Stages
  /\ \A to \in Failures : Outcome[to] \in Phases /\ ~Active(Outcome[to]) /\ Outcome[to] # "acquired"
<1>1. Failures = {"failed", "unmatched", "conflicting", "unconfigured"}
  BY DEF Failures, Outcome
<1>2. /\ Outcome["failed"] = "failed" /\ Outcome["unmatched"] = "no_match"
      /\ Outcome["conflicting"] = "conflict" /\ Outcome["unconfigured"] = "needs_configuration"
  BY DEF Outcome
<1> QED BY <1>1, <1>2 DEF Stages, Phases, Active

LEMMA AfterIs ==
  /\ After("resolving") = "resolve" /\ After("discovering") = "discover"
  /\ After("awaiting_selection") = "offered" /\ After("reoffered") = "offered"
  /\ After("next") = "download" /\ After("fallback") = "fallback"
  /\ After("verifying") = "verify"
  /\ After("no_match") = "ended" /\ After("conflict") = "ended"
  /\ \A to \in Failures : After(to) = "ended"
BY FailuresAre DEF After

LEMMA SaveDone == IInv /\ Saved => IInv'
<1> SUFFICES ASSUME IInv, Saved PROVE IInv'
  OBVIOUS
<1>r. RunType /\ QueueType /\ TaskType /\ Owned /\ OneStep
  BY DEF IInv, Types, Names
<1>1. PICK j \in Jobs, n \in Record, op \in Work :
        /\ j = task.op.job /\ n = task.next /\ op = task.op /\ task.at = "job"
        /\ op.job = j /\ op.kind \notin {"none", "close"}
  BY <1>r, TaskRange DEF TaskType, Saved
<1>2. Stored(j, n)
  BY <1>1 DEF Saved, Stored, SaveFrame, ghosts
<1>3. Continue(op, n)
  BY <1>1 DEF Saved
<1>e. op.kind \in Steps \cup {"choose"} =>
        op.by \in Runs /\ flow[op.by].job = j /\ flow[op.by].pc # "ended"
  BY <1>1, <1>2, SaveEnds
<1>w. Offers(op, n) /\ (j \notin stale => Writes(op, n))
  BY <1>1, <1>2, SaveEnds
<1>s. Get(j)' = n
  BY <1>2, SaveStores
<1>4. CASE op.kind \in Begins
  <2>1. Launches(j, n)
    BY <1>1, <1>3, <1>4 DEF Continue, Launches, Begins
  <2> QED BY <1>2, <2>1, RunBegins
<1>5. CASE op.kind \notin Steps \cup {"choose"} \cup Begins
  <2>1. UNCHANGED <<attempt, flow, queue>>
    BY <1>3, <1>5 DEF Continue, Steps, Begins
  <2> QED BY <1>1, <1>2, <1>5, <2>1, NothingFollows
<1>6. CASE op.kind = "choose"
  <2> DEFINE f == [flow[op.by] EXCEPT !.pc = "download", !.armed = TRUE]
  <2>1. /\ flow' = [flow EXCEPT ![op.by] = f]
        /\ UNCHANGED <<attempt, queue>>
    BY <1>3, <1>6 DEF Continue
  <2>2. op.by \in Runs /\ flow[op.by] \in Flow
    BY <1>r, <1>e, <1>6, FlowRange
  <2>3. /\ f \in Flow /\ f.pc = "download" /\ f.job = flow[op.by].job /\ f.id = flow[op.by].id
        /\ f.aborted = flow[op.by].aborted /\ f.committing = flow[op.by].committing
    BY <2>2 DEF Flow, Asking
  <2> HIDE DEF f
  <2>4. RunType' /\ flow'[op.by] = f
    BY <1>r, <1>2, <2>1, <2>2, <2>3 DEF RunType, Stored
  <2>5. ASSUME j \notin stale
        PROVE  n.phase # "acquired" /\ attempt[j] = op.by /\ Follows(j)'
    <3>1. attempt[j] = op.by /\ n.attempt = flow[op.by].id /\ n.phase = "downloading"
      BY <1>1, <1>6, <1>w, <2>5 DEF Writes
    <3>2. attempt'[j] = op.by /\ n.attempt = flow'[op.by].id
      BY <2>1, <2>3, <2>4, <3>1
    <3>3. Named(j)'
      BY <1>s, <3>2 DEF Named
    <3>4. \A i \in Waiting : queue[i].kind \in Steps => queue[i].by # op.by
      BY <1>1, <1>2, <1>6, SaveEnds
    <3>5. \A i \in Waiting' : queue'[i].by = op.by => queue'[i].kind \notin {"commit", "stage"}
      BY <2>1, <3>4 DEF Waiting, Steps
    <3>6. Active(n.phase) /\ n.phase # "awaiting_selection"
      BY <3>1 DEF Active
    <3> QED BY <1>s, <2>3, <2>4, <3>1, <3>2, <3>3, <3>5, <3>6 DEF Follows
  <2>6. n.phase # "awaiting_selection"
    BY <1>w, <1>6 DEF Offers
  <2>7. Goes(j, n, op.by, f)
    BY <1>1, <1>6, <2>1, <2>3, <2>5, <2>6 DEF Goes
  <2> QED BY <1>2, <2>3, <2>4, <2>7, RunGoesOn
<1>7. CASE op.kind = "stage"
  <2>n. op.to \in Stages /\ (j \notin stale => OfStage(op, n))
    BY <1>r, <1>1, <1>w, <1>7 DEF Writes, TaskType, Work
  <2>a. After(op.to) \in Asking \cup {"offered", "ended"}
    BY <2>n, AfterIs, FailuresAre DEF Stages, Asking
  <2>o. n.phase = "awaiting_selection" => attempt[j] = op.by /\ After(op.to) = "offered"
    BY <1>1, <1>w DEF Offers
  <2>t. op.by \in Runs /\ op.by # 0 /\ flow[op.by] \in Flow
    BY <1>r, <1>e, <1>7, FlowRange, RunsAre DEF Steps
  <2>1. CASE After(op.to) # "ended"
    <3> DEFINE f == [flow[op.by] EXCEPT !.pc = After(op.to)]
    <3>1. /\ flow' = [flow EXCEPT ![op.by] = f]
          /\ UNCHANGED <<attempt, queue>>
      BY <1>3, <1>7, <2>1 DEF Continue
    <3>2. /\ f \in Flow /\ f.pc = After(op.to) /\ f.job = flow[op.by].job
          /\ f.id = flow[op.by].id /\ f.aborted = flow[op.by].aborted
          /\ f.committing = flow[op.by].committing
      BY <2>a, <2>t DEF Flow
    <3> HIDE DEF f
    <3>3. RunType' /\ flow'[op.by] = f
      BY <1>r, <1>2, <2>t, <3>1, <3>2 DEF RunType, Stored
    <3>4. ASSUME j \notin stale
          PROVE  n.phase # "acquired" /\ attempt[j] = op.by /\ Follows(j)'
      <4>1. /\ attempt[j] = op.by /\ n.attempt = flow[op.by].id /\ n.phase # "acquired"
            /\ n.phase = "awaiting_selection" <=> After(op.to) = "offered"
            /\ op.to = "verifying" => n.phase = "verifying" /\ n.snap = n.attempt
            /\ Active(n.phase)
        BY <1>1, <2>1, <2>n, <3>4 DEF OfStage
      <4>2. attempt'[j] = op.by /\ n.attempt = flow'[op.by].id
        BY <3>1, <3>2, <3>3, <4>1
      <4>3. Named(j)'
        BY <1>s, <4>2 DEF Named
      <4>4. After(op.to) = "verify" => Fetched(j)'
        <5>1. After(op.to) = "verify" => op.to = "verifying"
          BY <2>n, AfterIs, FailuresAre DEF Stages
        <5> QED BY <1>s, <4>1, <4>3, <5>1 DEF Fetched
      <4>5. \A i \in Waiting : queue[i].kind \in Steps => queue[i].by # op.by
        BY <1>1, <1>2, <1>7, SaveEnds DEF Steps
      <4>6. \A i \in Waiting' : queue'[i].by = op.by => queue'[i].kind \notin {"commit", "stage"}
        BY <3>1, <4>5 DEF Waiting, Steps
      <4> QED BY <1>s, <2>1, <3>2, <3>3, <4>1, <4>2, <4>3, <4>4, <4>6 DEF Follows
    <3>5. Goes(j, n, op.by, f)
      BY <1>1, <1>7, <2>o, <3>1, <3>2, <3>4 DEF Goes, Steps
    <3> QED BY <1>2, <3>2, <3>3, <3>5, RunGoesOn
  <2>2. CASE After(op.to) = "ended"
    <3>1. j \notin stale => /\ attempt[j] = op.by /\ n.phase # "acquired" /\ ~Active(n.phase)
      BY <1>1, <2>2, <2>n DEF OfStage
    <3>2. /\ attempt' = IF attempt[j] = op.by /\ ~(op.to \in Failures /\ flow[op.by].aborted)
                        THEN [attempt EXCEPT ![j] = 0] ELSE attempt
          /\ flow' = IF attempt'[j] = op.by THEN [flow EXCEPT ![op.by].pc = "ended"]
                                            ELSE Released(flow, op.by)
          /\ UNCHANGED queue
      <4>1. op.kind \notin {"start", "fresh", "retry"} /\ op.kind # "choose"
        BY <1>7
      <4> QED BY <1>1, <1>3, <1>7, <2>2, <4>1 DEF Continue
    <3>3. CASE attempt[j] = op.by /\ ~(op.to \in Failures /\ flow[op.by].aborted)
      <4>1. attempt' = [attempt EXCEPT ![j] = 0] /\ attempt'[j] = 0
        BY <1>r, <3>2, <3>3 DEF RunType
      <4>2. flow' = [flow EXCEPT ![op.by] = Ended]
        BY <2>t, <3>2, <4>1 DEF Released
      <4>3. RunType'
        BY <1>r, <1>2, <2>t, <4>1, <4>2, Constants DEF RunType, Stored
      <4>4. attempt'[j] # op.by /\ \A k \in Jobs : k # j => attempt'[k] = attempt[k]
        BY <1>r, <2>t, <4>1 DEF RunType
      <4>5. Goes(j, n, op.by, Ended)
        BY <1>1, <1>7, <3>1, <3>2, <4>1, <4>2, <4>4 DEF Goes, Steps
      <4> QED BY <1>2, <4>3, <4>5, RunGoesOn, Constants
    <3>4. CASE attempt[j] # op.by
      <4>1. UNCHANGED attempt /\ flow' = [flow EXCEPT ![op.by] = Ended]
        BY <3>2, <3>4 DEF Released
      <4>2. RunType'
        BY <1>r, <1>2, <2>t, <4>1, Constants DEF RunType, Stored
      <4>3. Goes(j, n, op.by, Ended)
        BY <1>1, <1>7, <2>2, <2>o, <3>1, <3>2, <3>4, <4>1 DEF Goes, Steps
      <4> QED BY <1>2, <4>2, <4>3, RunGoesOn, Constants
    <3>5. CASE attempt[j] = op.by /\ op.to \in Failures /\ flow[op.by].aborted
      <4> DEFINE f == [flow[op.by] EXCEPT !.pc = "ended"]
      <4>1. UNCHANGED attempt /\ flow' = [flow EXCEPT ![op.by] = f]
        BY <3>2, <3>5
      <4>2. /\ f \in Flow /\ f.job = flow[op.by].job /\ f.id = flow[op.by].id
            /\ f.aborted = flow[op.by].aborted /\ f.committing = flow[op.by].committing
        BY <2>t DEF Flow
      <4> HIDE DEF f
      <4>3. RunType'
        BY <1>r, <1>2, <2>t, <4>1, <4>2 DEF RunType, Stored
      <4>4. Goes(j, n, op.by, f)
        BY <1>1, <1>7, <2>2, <2>o, <3>1, <3>2, <3>5, <4>1, <4>2 DEF Goes, Steps
      <4> QED BY <1>2, <4>2, <4>3, <4>4, RunGoesOn
    <3> QED BY <3>3, <3>4, <3>5
  <2> QED BY <2>1, <2>2
<1>8. CASE op.kind = "commit"
  <2>1. /\ attempt' = [attempt EXCEPT ![j] = 0] /\ attempt'[j] = 0
        /\ flow' = [flow EXCEPT ![op.by] = Ended]
        /\ UNCHANGED queue
    BY <1>1, <1>r, <1>3, <1>8 DEF Continue, Released, RunType
  <2>2. op.by \in Runs /\ op.by # 0
    BY <1>e, <1>8, RunsAre DEF Steps
  <2>3. RunType'
    BY <1>r, <1>2, <2>1, <2>2, Constants DEF RunType, Stored
  <2>4. j \notin stale => ~Active(n.phase)
    BY <1>w, <1>8 DEF Writes, Active
  <2>5. Goes(j, n, op.by, Ended)
    BY <1>1, <1>8, <2>1, <2>2, <2>4 DEF Goes, Steps
  <2> QED BY <1>2, <2>3, <2>5, RunGoesOn, Constants
<1> QED BY <1>4, <1>5, <1>6, <1>7, <1>8 DEF Steps

(* What a save that fails leaves of the files and the repository.          *)
Unstored(j, n) ==
  /\ task.at = "job" /\ j = task.op.job /\ n = task.next /\ task' = NoTask
  /\ journal' \in {journal, WithJob}
  /\ UNCHANGED <<snapshots, service, todo, saved, queue, previews, ids, stopped, stale>>

LEMMA SaveLeaves ==
  ASSUME IInv, NEW j \in Jobs, NEW n \in Record, Unstored(j, n)
  PROVE  /\ DiskType' /\ TaskType' /\ Backing' /\ Written' /\ Committed' /\ NewRun'
         /\ service # "down" /\ (service = "loading" => task.op.kind = "recover")
         /\ \A k \in Jobs : k # j => journal'[k] = journal[k]
         /\ LinksSave /\ j \notin stale => journal'[j] \in {journal[j], <<n>>}
<1>r. DiskType /\ TaskType /\ Backing /\ Revisions /\ Sessions
  BY DEF IInv, Types, Files
<1>s. /\ task.at = "job" /\ j = task.op.job /\ n = task.next /\ task' = NoTask
      /\ journal' \in {journal, WithJob}
      /\ UNCHANGED <<snapshots, service, saved, stale>>
  BY DEF Unstored
<1>t. task'.at = "none" /\ task'.op.kind = "none"
  BY <1>s DEF NoTask, Op
<1>w. /\ DOMAIN WithJob = Jobs /\ \A k \in Jobs : WithJob[k] \in Seq(Record)
      /\ \A k \in Jobs : k # j => WithJob[k] = journal[k]
      /\ WithJob[j] \in {<<n>>, Append(journal[j], n), journal[j]}
      /\ LinksSave /\ j \notin stale => WithJob[j] = <<n>>
  BY <1>r, <1>s, JobIsWritten
<1>j. /\ DOMAIN journal' = Jobs /\ \A k \in Jobs : journal'[k] \in Seq(Record)
      /\ \A k \in Jobs : k # j => journal'[k] = journal[k]
      /\ journal'[j] \in {<<n>>, Append(journal[j], n), journal[j]}
      /\ LinksSave /\ j \notin stale => journal'[j] \in {journal[j], <<n>>}
  <2>1. CASE journal' = journal
    BY <1>r, <2>1 DEF DiskType
  <2>2. CASE journal' = WithJob
    BY <1>w, <2>2
  <2> QED BY <1>s, <2>1, <2>2
<1>1. DiskType'
  BY <1>r, <1>s, <1>j DEF DiskType
<1>2. TaskType' /\ Written' /\ Committed' /\ NewRun'
  <2>1. TaskType'
    BY <1>s, <1>t, NoWork DEF TaskType
  <2> QED BY <1>t, <2>1 DEF Written, Committed, NewRun, Begins
<1>3. Backing'
  <2> SUFFICES ASSUME NEW k \in Jobs \ stale
               PROVE  Backed(saved[k]) /\ \A i \in 1 .. Len(journal'[k]) : Backed(journal'[k][i])
    BY <1>s, <1>t DEF Backing, Backed
  <2>1. CASE k = j
    <3>1. /\ Backed(n) /\ Backed(saved[k])
          /\ \A i \in 1 .. Len(journal[k]) : Backed(journal[k][i])
      BY <1>r, <1>s, <2>1 DEF Backing
    <3>2. journal[k] \in Seq(Record)
      BY <1>r DEF DiskType
    <3>3. \A i \in 1 .. Len(journal'[k]) :
            \/ journal'[k][i] = n
            \/ i \in 1 .. Len(journal[k]) /\ journal'[k][i] = journal[k][i]
      BY <1>j, <2>1, <3>2
    <3> QED BY <3>1, <3>3
  <2>2. CASE k # j
    BY <1>r, <1>j, <2>2 DEF Backing
  <2> QED BY <2>1, <2>2
<1>4. service # "down" /\ (service = "loading" => task.op.kind = "recover")
  BY <1>r, <1>s DEF Sessions, NoTask
<1> QED BY <1>1, <1>2, <1>3, <1>4, <1>j

(* A new job is not kept, a link is not made: all is as it was.            *)
LEMMA NothingKept ==
  ASSUME IInv, NEW j \in Jobs, NEW n \in Record, Unstored(j, n),
         task.op.kind \in {"start", "fresh", "link"},
         task.op.kind = "link" => ~LinksSave,
         UNCHANGED <<volatile, attempt, flow>>
  PROVE  IInv'
<1>r. /\ DiskType /\ MemoryType /\ RunType /\ QueueType /\ TaskType
      /\ Issued /\ Owned /\ NewRun /\ OneStep /\ Unowned /\ Stops
      /\ Followed /\ EndWaits /\ Settled /\ Begun
      /\ Written /\ Committed /\ Marks /\ Backing /\ Revisions /\ Sessions
  BY DEF IInv, Types, Names, Course, Files
<1>f. /\ UNCHANGED <<snapshots, service, todo, saved, queue, previews, ids, stopped, stale>>
      /\ UNCHANGED <<volatile, attempt, flow>>
      /\ task.at = "job" /\ task.op.job = j /\ n = task.next
      /\ task'.at = "none" /\ task'.op.kind = "none" /\ task'.op.by = 0
  BY DEF Unstored, NoTask, Op
<1>s. /\ DiskType' /\ TaskType' /\ Backing' /\ Written' /\ Committed' /\ NewRun'
      /\ service # "down" /\ (service = "loading" => task.op.kind = "recover")
      /\ \A k \in Jobs : k # j => journal'[k] = journal[k]
      /\ LinksSave /\ j \notin stale => journal'[j] \in {journal[j], <<n>>}
  BY SaveLeaves
<1>k. task.op.kind \notin Ends /\ task.op.kind # "recover"
  BY DEF Ends
<1>1. /\ MemoryType' /\ RunType' /\ QueueType' /\ Issued' /\ EndWaits' /\ Marks' /\ Begun'
  <2>1. MemoryType' /\ RunType' /\ QueueType'
    BY <1>r, <1>f DEF MemoryType, RunType, QueueType
  <2>2. Issued' /\ EndWaits' /\ Marks'
    BY <1>r, <1>f DEF Issued, EndWaits, Marks, Waiting
  <2>3. Begun'
    BY <1>r, <1>f DEF Begun, Get
  <2> QED BY <2>1, <2>2, <2>3
<1>2. Owned' /\ OneStep' /\ Unowned' /\ Stops'
  <2>1. Owned' /\ Unowned' /\ Stops'
    BY <1>r, <1>f DEF Owned, Unowned, Stops, StopHonoured, Waiting, Steps, Ends
  <2>2. OneStep'
    BY <1>r, <1>f DEF OneStep, Waiting, Steps
  <2> QED BY <2>1, <2>2
<1>3. Followed'
  BY <1>r, <1>f DEF Followed, Follows, Running, Named, Fetched, Get, Waiting
<1>4. Settled'
  BY <1>r, <1>f, <1>k DEF Settled, Get
<1>5. Revisions'
  <2> SUFFICES ASSUME NEW k \in Jobs \ stale, LinksSave
               PROVE  /\ Len(journal'[k]) <= 1
                      /\ volatile[k] # NoJob => saved[k].rev < volatile[k].rev
                      /\ journal'[k] # <<>> /\ service # "down" /\ Get(k) # NoJob
                           => journal'[k][1].rev <= Get(k).rev
    BY <1>f DEF Revisions, Get
  <2>1. /\ Len(journal[k]) <= 1
        /\ volatile[k] # NoJob => saved[k].rev < volatile[k].rev
        /\ journal[k] # <<>> /\ service # "down" /\ Get(k) # NoJob
              => journal[k][1].rev <= Get(k).rev
    BY <1>r DEF Revisions
  <2>2. k = j => Get(k) = NoJob
    BY <1>r, <1>f DEF Written, Writes
  <2>3. CASE k = j
    <3>1. Len(journal'[k]) <= 1
      <4>1. Len(<<n>>) = 1 /\ journal'[k] \in {journal[k], <<n>>}
        BY <1>s, <2>3
      <4>2. CASE journal'[k] = journal[k]
        BY <2>1, <4>2
      <4>3. CASE journal'[k] = <<n>>
        BY <4>1, <4>3
      <4> QED BY <4>1, <4>2, <4>3
    <3> QED BY <2>1, <2>2, <2>3, <3>1
  <2>4. CASE k # j
    BY <1>s, <2>1, <2>4
  <2> QED BY <2>3, <2>4
<1>6. Sessions'
  BY <1>r, <1>f, <1>s, <1>k DEF Sessions
<1> QED BY <1>s, <1>1, <1>2, <1>3, <1>4, <1>5, <1>6 DEF IInv, Types, Names, Course, Files

(* The job is shown as failed, and its run is aborted.                     *)
Fails(j, n, t, ended) ==
  /\ t = attempt[j]
  /\ volatile' = [volatile EXCEPT ![j] = [n EXCEPT !.phase = "failed"]]
  /\ attempt' = [attempt EXCEPT ![j] = 0]
  /\ flow' = IF t # 0
             THEN [flow EXCEPT ![t] = [flow[t] EXCEPT !.aborted = TRUE, !.armed = FALSE, !.pc = ended]]
             ELSE flow
  /\ ended = IF t = task.op.by THEN "ended" ELSE flow[t].pc

LEMMA JobFails ==
  ASSUME IInv, NEW j \in Jobs, NEW n \in Record, Unstored(j, n), NEW t, NEW ended,
         Fails(j, n, t, ended)
  PROVE  IInv'
<1>r. /\ DiskType /\ MemoryType /\ RunType /\ QueueType /\ TaskType
      /\ Issued /\ Owned /\ NewRun /\ OneStep /\ Unowned /\ Stops
      /\ Followed /\ EndWaits /\ Settled /\ Begun
      /\ Written /\ Committed /\ Marks /\ Backing /\ Revisions /\ Sessions
  BY DEF IInv, Types, Names, Course, Files
<1>f. /\ UNCHANGED <<snapshots, service, todo, saved, queue, previews, ids, stopped, stale>>
      /\ task.at = "job" /\ task.op.job = j /\ n = task.next
      /\ task'.at = "none" /\ task'.op.kind = "none" /\ task'.op.by = 0
  BY DEF Unstored, NoTask, Op
<1>s. /\ DiskType' /\ TaskType' /\ Backing' /\ Written' /\ Committed' /\ NewRun'
      /\ service # "down" /\ (service = "loading" => task.op.kind = "recover")
      /\ \A k \in Jobs : k # j => journal'[k] = journal[k]
      /\ LinksSave /\ j \notin stale => journal'[j] \in {journal[j], <<n>>}
  BY SaveLeaves
<1>d. PICK v \in Record : /\ v = [n EXCEPT !.phase = "failed"] /\ v.phase = "failed"
                          /\ v.rev = n.rev /\ v # NoJob
  <2>1. [n EXCEPT !.phase = "failed"] \in Record
    BY DEF Record, Phases
  <2> QED BY <2>1 DEF Record, NoJob
<1>g. /\ volatile' \in [Jobs -> Record] /\ volatile'[j] = v
      /\ \A k \in Jobs : k # j => volatile'[k] = volatile[k]
      /\ Get(j)' = v /\ \A k \in Jobs : k # j => Get(k)' = Get(k)
  BY <1>r, <1>f, <1>d DEF Fails, MemoryType, Get
<1>a. /\ attempt'[j] = 0 /\ \A k \in Jobs : k # j => attempt'[k] = attempt[k]
      /\ attempt' \in [Jobs -> 0 .. MaxIds]
  BY <1>r, Constants DEF Fails, RunType
<1>w. /\ t \in 0 .. MaxIds /\ t = attempt[j] /\ (t # 0 => t \in Runs)
      /\ t # 0 => flow[t].job = j /\ t <= ids
      /\ \A k \in Jobs : k # j /\ attempt[k] # 0 => attempt[k] # t
  BY <1>r, AttemptRange DEF Fails, Owned, Issued
<1>e. t # 0 /\ t = task.op.by => \A i \in Waiting : queue[i].kind \in Steps => queue[i].by # t
  <2> SUFFICES ASSUME t # 0, t = task.op.by
               PROVE  \A i \in Waiting : queue[i].kind \in Steps => queue[i].by # t
    OBVIOUS
  <2>1. task.op.kind \in Steps \cup {"choose"}
    BY <1>r, <1>w DEF Unowned
  <2> QED BY <1>r, <2>1 DEF OneStep
<1>p. t # 0 => /\ ended \in {"ended", flow[t].pc}
               /\ ended # flow[t].pc => t = task.op.by
  BY DEF Fails
<1>t. /\ flow' \in [Runs -> Flow]
      /\ \A u \in Runs : u # t => flow'[u] = flow[u]
      /\ \A u \in Runs : /\ flow'[u].job = flow[u].job /\ flow'[u].id = flow[u].id
                         /\ flow'[u].committing = flow[u].committing
                         /\ flow'[u].pc \in {flow[u].pc, "ended"}
                         /\ flow[u].aborted => flow'[u].aborted
      /\ t # 0 => flow'[t].pc = ended
  <2>1. CASE t = 0
    <3>1. flow' = flow
      BY <2>1 DEF Fails
    <3> QED BY <1>r, <2>1, <3>1 DEF RunType
  <2>2. CASE t # 0
    <3>1. /\ flow' = [flow EXCEPT ![t] = [flow[t] EXCEPT !.aborted = TRUE, !.armed = FALSE, !.pc = ended]]
          /\ flow[t] \in Flow /\ t \in Runs
      BY <1>r, <1>w, <2>2, FlowRange DEF Fails
    <3>2. [flow[t] EXCEPT !.aborted = TRUE, !.armed = FALSE, !.pc = ended] \in Flow
      BY <1>p, <2>2, <3>1 DEF Flow
    <3> QED BY <1>r, <1>p, <2>2, <3>1, <3>2 DEF RunType, Flow
  <2> QED BY <2>1, <2>2
<1>1. MemoryType' /\ RunType' /\ QueueType'
  BY <1>r, <1>f, <1>a, <1>g, <1>t DEF MemoryType, RunType, QueueType
<1>2. Issued'
  <2>1. \A u \in Runs : u > ids => flow'[u] = Ended
    <3>1. \A u \in Runs : u > ids => u # t
      BY <1>r, <1>w, RunsAre DEF RunType
    <3> QED BY <1>r, <1>t, <3>1 DEF Issued
  <2>2. \A k \in Jobs : attempt'[k] <= ids
    BY <1>r, <1>a DEF Issued, RunType
  <2> QED BY <1>r, <1>f, <2>1, <2>2 DEF Issued, Waiting
<1>3. Owned' /\ Unowned'
  <2>1. \A k \in Jobs : attempt'[k] # 0 => flow'[attempt'[k]].job = k
    BY <1>r, <1>a, <1>t, AttemptRange DEF Owned
  <2>2. \A u \in Runs : flow'[u].pc # "ended" => flow'[u].job # 0
    BY <1>r, <1>t DEF Owned
  <2>3. \A i \in Waiting : queue[i].kind \in Steps \cup Ends =>
              queue[i].by # 0 /\ flow'[queue[i].by].job \in {0, queue[i].job}
    BY <1>r, <1>t, WorkersAre DEF Owned
  <2> QED BY <1>r, <1>f, <2>1, <2>2, <2>3 DEF Owned, Unowned, Waiting, Steps, Ends
<1>4. OneStep'
  <2>1. \A i \in Waiting : queue[i].kind \in Steps => flow'[queue[i].by].pc = "staging"
    <3> SUFFICES ASSUME NEW i \in Waiting, queue[i].kind \in Steps
                 PROVE  flow'[queue[i].by].pc = "staging"
      OBVIOUS
    <3>1. queue[i].by \in Runs /\ flow[queue[i].by].pc = "staging" /\ queue[i].by # 0
      BY <1>r, WorkersAre, RunsAre DEF OneStep
    <3>2. CASE queue[i].by # t
      BY <1>t, <3>1, <3>2
    <3>3. CASE queue[i].by = t
      BY <1>e, <1>p, <1>t, <3>1, <3>3
    <3> QED BY <3>2, <3>3
  <2> QED BY <1>r, <1>f, <2>1 DEF OneStep, Waiting, Steps
<1>5. Stops'
  <2>1. /\ \A u \in stopped : u \in Runs /\ u # 0
        /\ \A s \in snapshots : s.by \in Runs /\ s.by # 0
    BY <1>r, RunsAre DEF RunType, DiskType
  <2> QED BY <1>r, <1>f, <1>a, <1>t, <2>1 DEF Stops, StopHonoured
<1>6. Followed'
  <2> SUFFICES ASSUME NEW k \in Jobs, Running(k)'
               PROVE  Follows(k)'
    BY DEF Followed
  <2>1. k # j
    BY <1>a DEF Running
  <2>2. attempt'[k] = attempt[k] /\ attempt[k] \in Runs /\ flow'[attempt[k]] = flow[attempt[k]]
    BY <1>r, <1>a, <1>t, <1>w, <2>1, AttemptRange DEF Running
  <2>3. Follows(k) /\ Get(k)' = Get(k)
    BY <1>r, <1>f, <1>g, <2>1, <2>2 DEF Followed, Running
  <2>4. Named(k)' = Named(k) /\ Fetched(k)' = Fetched(k)
    BY <2>2, <2>3 DEF Named, Fetched
  <2> QED BY <1>f, <2>2, <2>3, <2>4 DEF Follows, Waiting
<1>7. EndWaits'
  <2> SUFFICES ASSUME NEW k \in Jobs, service = "up", attempt'[k] # 0, flow'[attempt'[k]].aborted
               PROVE  \E i \in Waiting : /\ queue[i].kind \in Ends /\ queue[i].job = k
                                         /\ queue[i].by = attempt'[k]
    BY <1>f DEF EndWaits, Waiting
  <2>1. k # j /\ attempt'[k] = attempt[k] /\ attempt[k] # 0 /\ attempt[k] \in Runs
    BY <1>r, <1>a, AttemptRange
  <2>2. flow[attempt[k]].aborted
    BY <1>t, <1>w, <2>1
  <2> QED BY <1>r, <2>1, <2>2 DEF EndWaits
<1>8. Settled'
  <2> SUFFICES ASSUME NEW k \in Jobs \ stale, service = "up", attempt'[k] = 0, Active(Get(k)'.phase)
               PROVE  FALSE
    BY <1>f DEF Settled
  <2>1. k # j
    BY <1>d, <1>g DEF Active
  <2> QED BY <1>r, <1>f, <1>a, <1>g, <2>1 DEF Settled
<1>9. Begun' /\ Marks'
  <2>1. Begun'
    BY <1>r, <1>f, <1>a, <1>g DEF Begun
  <2>2. Marks'
    <3>1. \A k \in Jobs : volatile'[k].phase \in {"none", "failed"}
      BY <1>r, <1>d, <1>g DEF Marks
    <3> QED BY <1>r, <1>f, <3>1 DEF Marks, Waiting
  <2> QED BY <2>1, <2>2
<1>10. Revisions'
  <2> SUFFICES ASSUME NEW k \in Jobs \ stale, LinksSave
               PROVE  /\ Len(journal'[k]) <= 1
                      /\ volatile'[k] # NoJob => saved[k].rev < volatile'[k].rev
                      /\ journal'[k] # <<>> /\ Get(k)' # NoJob => journal'[k][1].rev <= Get(k)'.rev
    BY <1>f DEF Revisions, Get
  <2>1. /\ Len(journal[k]) <= 1
        /\ volatile[k] # NoJob => saved[k].rev < volatile[k].rev
        /\ journal[k] # <<>> /\ Get(k) # NoJob => journal[k][1].rev <= Get(k).rev
        /\ k = j => Above(k, n)
    BY <1>r, <1>f, <1>s DEF Revisions
  <2>2. CASE k = j
    <3>1. saved[k].rev < n.rev /\ n.rev \in Nat
      BY <2>1, <2>2 DEF Above, Record
    <3>4. Get(k)'.rev = n.rev /\ saved[k].rev < volatile'[k].rev
      BY <1>d, <1>g, <2>2, <3>1
    <3>2. CASE journal'[k] = journal[k]
      <4>1. journal[k] # <<>> => journal[k][1].rev < n.rev /\ journal[k][1].rev \in Nat
        <5>1. journal[k] \in Seq(Record)
          BY <1>r DEF DiskType
        <5>2. journal[k] # <<>> => journal[k][1] \in Record
          BY <5>1
        <5> QED BY <2>1, <2>2, <5>2 DEF Above, Record
      <4> QED BY <2>1, <3>1, <3>2, <3>4, <4>1
    <3>3. CASE journal'[k] = <<n>>
      <4>1. Len(journal'[k]) = 1 /\ journal'[k][1] = n
        BY <3>3
      <4> QED BY <3>1, <3>4, <4>1
    <3> QED BY <1>s, <2>2, <3>2, <3>3
  <2>3. CASE k # j
    BY <1>s, <1>g, <2>1, <2>3
  <2> QED BY <2>2, <2>3
<1>11. Sessions'
  <2>1. service = "loading" => j \notin todo /\ attempt[j] = 0 /\ t = 0
    BY <1>r, <1>f, <1>s, <1>w DEF Sessions
  <2>2. service = "loading" => attempt' = attempt /\ flow' = flow
    BY <1>r, <2>1 DEF Fails, RunType
  <2>3. service = "loading" => \A k \in Jobs \ stale : k \in todo \/ ~Active(Get(k).phase)'
    BY <1>r, <1>f, <1>d, <1>g DEF Sessions, Active
  <2>4. task' = NoTask
    BY DEF Unstored
  <2>5. service = "loading" => \A k \in todo : volatile'[k] = NoJob /\ saved[k] # NoJob
    BY <1>r, <1>g, <2>1 DEF Sessions, MemoryType
  <2>6. service = "loading" => /\ attempt' = [k \in Jobs |-> 0] /\ flow' = [u \in Runs |-> Ended]
                               /\ queue = <<>> /\ previews = {}
    BY <1>r, <2>2 DEF Sessions
  <2>7. service \notin {"down", "loading"} => todo = {}
    BY <1>r DEF Sessions
  <2> QED BY <1>f, <1>s, <2>3, <2>5, <2>6, <2>7 DEF Sessions
<1> QED BY <1>s, <1>1, <1>2, <1>3, <1>4, <1>5, <1>6, <1>7, <1>8, <1>9, <1>10, <1>11
        DEF IInv, Types, Names, Course, Files

LEMMA SaveFails == IInv /\ NotSaved => IInv'
<1> SUFFICES ASSUME IInv, NotSaved PROVE IInv'
  OBVIOUS
<1>r. RunType /\ TaskType
  BY DEF IInv, Types
<1>1. PICK j \in Jobs, n \in Record :
        j = task.op.job /\ n = task.next /\ task.at = "job"
  BY <1>r, TaskRange DEF TaskType, NotSaved
<1>2. Unstored(j, n)
  BY <1>1 DEF NotSaved, Unstored, SaveFrame, ghosts
<1>3. CASE task.op.kind \in {"start", "fresh", "link"}
  <2>1. UNCHANGED <<volatile, attempt, flow>>
    BY <1>3 DEF NotSaved
  <2>2. task.op.kind = "link" => ~LinksSave
    BY DEF NotSaved, LinksSave
  <2> QED BY <1>2, <1>3, <2>1, <2>2, NothingKept
<1>4. CASE task.op.kind \notin {"start", "fresh", "link"}
  <2> DEFINE t == attempt[j]
             ended == IF t = task.op.by THEN "ended" ELSE flow[t].pc
  <2>1. /\ volatile' = [volatile EXCEPT ![j] = [n EXCEPT !.phase = "failed"]]
        /\ attempt' = [attempt EXCEPT ![j] = 0]
        /\ flow' = IF t # 0 THEN [flow EXCEPT ![t].aborted = TRUE, ![t].armed = FALSE,
                                              ![t].pc = IF t = task.op.by THEN "ended" ELSE @]
                            ELSE flow
    BY <1>1, <1>4 DEF NotSaved
  <2>2. t # 0 => flow' = [flow EXCEPT ![t] =
                            [flow[t] EXCEPT !.aborted = TRUE, !.armed = FALSE, !.pc = ended]]
    BY <1>r, <2>1, AttemptRange DEF RunType, Flow
  <2>3. Fails(j, n, t, ended)
    BY <2>1, <2>2 DEF Fails
  <2> QED BY <1>2, <2>3, JobFails
<1> QED BY <1>3, <1>4

-----------------------------------------------------------------------------
(* The sessions.                                                           *)

(* The invariant says nothing of the damaged files and of the bounds.      *)
Idle == /\ UNCHANGED <<journal, snapshots, service, todo, saved, volatile, attempt, flow>>
        /\ UNCHANGED <<queue, task, previews, ids, stopped, stale>>

LEMMA NothingHappens == IInv /\ Idle => IInv'
<1> SUFFICES ASSUME IInv, Idle PROVE IInv'
  OBVIOUS
<1>r. /\ DiskType /\ MemoryType /\ RunType /\ QueueType /\ TaskType
      /\ Issued /\ Owned /\ NewRun /\ OneStep /\ Unowned /\ Stops
      /\ Followed /\ EndWaits /\ Settled /\ Begun
      /\ Written /\ Committed /\ Marks /\ Backing /\ Revisions /\ Sessions
  BY DEF IInv, Types, Names, Course, Files
<1> USE DEF Idle
<1>1. DiskType' /\ MemoryType' /\ RunType' /\ QueueType' /\ TaskType'
  BY <1>r DEF DiskType, MemoryType, RunType, QueueType, TaskType
<1>2. Issued' /\ Owned' /\ OneStep' /\ Unowned'
  BY <1>r DEF Issued, Owned, OneStep, Unowned, Waiting
<1>3. NewRun' /\ Stops'
  BY <1>r DEF NewRun, Unused, Stops, StopHonoured, Waiting
<1>4. Followed' /\ EndWaits'
  BY <1>r DEF Followed, Follows, Running, Named, Fetched, EndWaits, Waiting, Get
<1>5. Settled' /\ Begun' /\ Committed' /\ Marks'
  BY <1>r DEF Settled, Begun, Committed, Marks, Waiting, Get
<1>6. Written'
  BY <1>r DEF Written, Offers, Writes, OfStage, Get
<1>7. Backing' /\ Revisions'
  BY <1>r DEF Backing, Backed, Revisions, Above, Get
<1>8. Sessions'
  BY <1>r DEF Sessions, Get
<1> QED BY <1>1, <1>2, <1>3, <1>4, <1>5, <1>6, <1>7, <1>8 DEF IInv, Types, Names, Course, Files

(* A preview reads a job, or has read all of its files.                    *)
Reads == /\ UNCHANGED <<journal, snapshots, service, todo, saved, volatile, attempt, flow>>
         /\ UNCHANGED <<queue, task, ids, stopped, stale>>
         /\ \/ /\ Loaded
               /\ \E j \in Jobs : Get(j).phase = "acquired"
                                  /\ previews' = previews \cup {[job |-> j, rec |-> Get(j)]}
            \/ previews' \subseteq previews

LEMMA PreviewReads == IInv /\ Reads => IInv'
<1> SUFFICES ASSUME IInv, Reads PROVE IInv'
  OBVIOUS
<1>r. /\ DiskType /\ MemoryType /\ RunType /\ QueueType /\ TaskType
      /\ Issued /\ Owned /\ NewRun /\ OneStep /\ Unowned /\ Stops
      /\ Followed /\ EndWaits /\ Settled /\ Begun
      /\ Written /\ Committed /\ Marks /\ Backing /\ Revisions /\ Sessions
  BY DEF IInv, Types, Names, Course, Files
<1>f. /\ UNCHANGED <<journal, snapshots, service, todo, saved, volatile, attempt, flow>>
      /\ UNCHANGED <<queue, task, ids, stopped, stale>>
  BY DEF Reads
<1>p. \/ /\ Loaded
         /\ \E j \in Jobs : Get(j).phase = "acquired"
                            /\ previews' = previews \cup {[job |-> j, rec |-> Get(j)]}
      \/ previews' \subseteq previews
  BY DEF Reads
<1>q. /\ previews' \subseteq [job : Jobs, rec : Record]
      /\ \A p \in previews' : p.rec.phase = "acquired"
      /\ service \in {"down", "loading"} => previews' = {}
  <2>1. CASE previews' \subseteq previews
    BY <1>r, <2>1 DEF MemoryType, Marks, Sessions
  <2>2. ASSUME NEW j \in Jobs, Loaded, Get(j).phase = "acquired",
               previews' = previews \cup {[job |-> j, rec |-> Get(j)]}
        PROVE  /\ previews' \subseteq [job : Jobs, rec : Record]
               /\ \A p \in previews' : p.rec.phase = "acquired"
               /\ service \notin {"down", "loading"}
    <3>1. Get(j) \in Record
      BY <1>r, GetIsRecord
    <3> QED BY <1>r, <2>2, <3>1 DEF MemoryType, Marks, Loaded
  <2> QED BY <1>p, <2>1, <2>2
<1>1. DiskType' /\ RunType' /\ QueueType' /\ TaskType' /\ MemoryType'
  BY <1>r, <1>f, <1>q DEF DiskType, RunType, QueueType, TaskType, MemoryType
<1>2. Issued' /\ Owned' /\ OneStep' /\ Unowned'
  BY <1>r, <1>f DEF Issued, Owned, OneStep, Unowned, Waiting
<1>3. NewRun' /\ Stops'
  BY <1>r, <1>f DEF NewRun, Unused, Stops, StopHonoured, Waiting
<1>4. Followed' /\ EndWaits'
  BY <1>r, <1>f DEF Followed, Follows, Running, Named, Fetched, EndWaits, Waiting, Get
<1>5. Settled' /\ Begun' /\ Committed'
  BY <1>r, <1>f DEF Settled, Begun, Committed, Get
<1>6. Marks'
  BY <1>r, <1>f, <1>q DEF Marks, Waiting
<1>7. Written'
  BY <1>r, <1>f DEF Written, Offers, Writes, OfStage, Get
<1>8. Backing' /\ Revisions'
  BY <1>r, <1>f DEF Backing, Backed, Revisions, Above, Get
<1>9. Sessions'
  BY <1>r, <1>f, <1>q DEF Sessions, Get
<1> QED BY <1>1, <1>2, <1>3, <1>4, <1>5, <1>6, <1>7, <1>8, <1>9
        DEF IInv, Types, Names, Course, Files

(* The memory is lost; a write under way may have reached the disk.        *)
Forgets ==
  /\ Forgotten
  /\ \/ UNCHANGED <<journal, snapshots>>
     \/ task.at = "job" /\ journal' = WithJob /\ UNCHANGED snapshots
     \/ task.at = "snapshot" /\ snapshots' = WithSnapshot /\ UNCHANGED journal

LEMMA MemoryIsLost == IInv /\ Forgets => IInv'
<1> SUFFICES ASSUME IInv, Forgets PROVE IInv'
  OBVIOUS
<1>r. /\ DiskType /\ RunType /\ QueueType /\ TaskType /\ Issued /\ Owned /\ OneStep /\ Stops
      /\ Backing /\ Revisions
  BY DEF IInv, Types, Names, Files
<1>f. /\ service' = "down" /\ todo' = {} /\ saved' = Empty /\ volatile' = Empty
      /\ attempt' = [j \in Jobs |-> 0] /\ flow' = [t \in Runs |-> Ended]
      /\ queue' = <<>> /\ task' = NoTask /\ previews' = {}
      /\ UNCHANGED <<ids, stopped, stale>>
  BY DEF Forgets, Forgotten, ghosts
<1>t. task'.at = "none" /\ task'.op.kind = "none" /\ task'.op.by = 0
  BY <1>f DEF NoTask, Op
<1>e. /\ \A j \in Jobs : saved'[j] = NoJob /\ volatile'[j] = NoJob /\ attempt'[j] = 0
      /\ \A t \in Runs : flow'[t] = Ended
      /\ Waiting' = {}
  BY <1>f DEF Empty, Waiting
<1>s. /\ snapshots \subseteq snapshots' /\ snapshots' \subseteq [id : 0 .. MaxIds, by : Runs]
      /\ \A s \in snapshots' : s.by \in Runs /\ s.by <= ids /\ s.by \notin stopped
  <2>1. CASE UNCHANGED snapshots
    BY <1>r, <2>1 DEF DiskType, Issued, Stops, StopHonoured
  <2>2. CASE task.at = "snapshot" /\ snapshots' = WithSnapshot
    <3>1. PICK t \in Runs : /\ t = task.op.by /\ t \notin stopped /\ flow[t].committing
      BY <1>r, <2>2, WorkersAre DEF Stops, Steps
    <3>2. t <= ids
      BY <1>r, <3>1, RunsAre DEF Issued, Ended, RunType
    <3>3. snapshots' = snapshots \cup {[id |-> flow[t].id, by |-> t]}
      BY <2>2, <3>1 DEF WithSnapshot
    <3>4. [id |-> flow[t].id, by |-> t] \in [id : 0 .. MaxIds, by : Runs]
      BY <1>r, FlowRange
    <3> QED BY <1>r, <3>1, <3>2, <3>3, <3>4 DEF DiskType, Issued, Stops, StopHonoured
  <2> QED BY <2>1, <2>2 DEF Forgets
<1>j. /\ DOMAIN journal' = Jobs /\ \A j \in Jobs : journal'[j] \in Seq(Record)
      /\ \A j \in Jobs \ stale : /\ \A i \in 1 .. Len(journal'[j]) : Backed(journal'[j][i])
                                 /\ LinksSave => Len(journal'[j]) <= 1
  <2>1. CASE UNCHANGED journal
    BY <1>r, <2>1 DEF DiskType, Backing, Revisions
  <2>2. CASE task.at = "job" /\ journal' = WithJob
    <3>1. PICK j \in Jobs, n \in Record : j = task.op.job /\ n = task.next
      BY <1>r, <2>2, TaskRange DEF TaskType
    <3>2. /\ DOMAIN journal' = Jobs /\ \A k \in Jobs : journal'[k] \in Seq(Record)
          /\ \A k \in Jobs : k # j => journal'[k] = journal[k]
          /\ journal'[j] \in {<<n>>, Append(journal[j], n), journal[j]}
          /\ LinksSave /\ j \notin stale => journal'[j] = <<n>>
      BY <1>r, <2>2, <3>1, JobIsWritten
    <3>3. ASSUME NEW k \in Jobs \ stale
          PROVE  /\ \A i \in 1 .. Len(journal'[k]) : Backed(journal'[k][i])
                 /\ LinksSave => Len(journal'[k]) <= 1
      <4>1. CASE k = j
        <5>1. Backed(n) /\ \A i \in 1 .. Len(journal[k]) : Backed(journal[k][i])
          BY <1>r, <2>2, <3>1, <4>1 DEF Backing
        <5>2. journal[k] \in Seq(Record)
          BY <1>r DEF DiskType
        <5>3. \A i \in 1 .. Len(journal'[k]) :
                \/ journal'[k][i] = n
                \/ i \in 1 .. Len(journal[k]) /\ journal'[k][i] = journal[k][i]
          BY <3>2, <4>1, <5>2
        <5>4. Len(<<n>>) = 1
          OBVIOUS
        <5>5. LinksSave => Len(journal'[k]) = 1
          BY <3>2, <4>1, <5>4
        <5> QED BY <5>1, <5>3, <5>5
      <4>2. CASE k # j
        BY <1>r, <3>2, <4>2 DEF Backing, Revisions
      <4> QED BY <4>1, <4>2
    <3> QED BY <3>2, <3>3
  <2> QED BY <2>1, <2>2 DEF Forgets
<1>1. DiskType' /\ MemoryType' /\ RunType' /\ QueueType' /\ TaskType'
  <2>1. DiskType'
    BY <1>s, <1>j DEF DiskType
  <2>2. MemoryType' /\ RunType' /\ QueueType'
    BY <1>r, <1>f, Constants DEF MemoryType, RunType, QueueType, Empty
  <2>3. TaskType'
    BY <1>f, <1>t, NoWork DEF TaskType
  <2> QED BY <2>1, <2>2, <2>3
<1>2. Issued' /\ Owned' /\ NewRun' /\ OneStep' /\ Unowned'
  <2>1. Issued'
    BY <1>r, <1>f, <1>e, <1>s DEF Issued, RunType
  <2>2. \A t \in Runs : flow'[t].pc = "ended"
    BY <1>e DEF Ended
  <2> QED BY <1>t, <1>e, <2>1, <2>2 DEF Owned, NewRun, OneStep, Unowned, Steps, Ends, Begins
<1>3. Stops'
  <2>1. /\ \A t \in stopped : t \in Runs /\ ~flow'[t].committing /\ t # 0
        /\ \A s \in snapshots' : s.by # 0
    BY <1>r, <1>e, <1>s, RunsAre DEF RunType, Ended
  <2> QED BY <1>f, <1>e, <1>t, <1>s, <2>1 DEF Stops, StopHonoured
<1>4. Followed' /\ EndWaits' /\ Settled' /\ Begun'
  BY <1>f, <1>e DEF Followed, Running, EndWaits, Settled, Begun
<1>5. Written' /\ Committed' /\ Marks'
  BY <1>f, <1>e, <1>t DEF Written, Committed, Marks, NoJob
<1>6. Backing'
  <2> SUFFICES ASSUME NEW j \in Jobs \ stale
               PROVE  Backed(saved[j])' /\ \A i \in 1 .. Len(journal'[j]) : Backed(journal[j][i])'
    BY <1>f, <1>t DEF Backing, Backed
  <2>1. Backed(saved[j])'
    BY <1>e DEF Backed, NoJob
  <2>2. \A i \in 1 .. Len(journal'[j]) : Backed(journal[j][i])'
    BY <1>j, <1>s DEF Backed
  <2> QED BY <2>1, <2>2
<1>7. Revisions'
  BY <1>f, <1>e, <1>t, <1>j DEF Revisions
<1>8. Sessions'
  BY <1>f DEF Sessions
<1> QED BY <1>1, <1>2, <1>3, <1>4, <1>5, <1>6, <1>7, <1>8 DEF IInv, Types, Names, Course, Files

(* The plugin starts, and reads its journal.                               *)
LEMMA JournalIsRead == IInv /\ Load => IInv'
<1> SUFFICES ASSUME IInv, Load PROVE IInv'
  OBVIOUS
<1>r. /\ DiskType /\ MemoryType /\ RunType /\ QueueType /\ TaskType
      /\ Issued /\ Owned /\ NewRun /\ OneStep /\ Unowned /\ Stops
      /\ Marks /\ Backing /\ Revisions /\ Sessions
  BY DEF IInv, Types, Names, Course, Files
<1>f. /\ UNCHANGED <<journal, snapshots, volatile, attempt, flow, queue, task, previews>>
      /\ UNCHANGED <<ids, stopped, stale>>
      /\ service = "down" /\ service' = "loading"
      /\ saved' = [j \in Jobs |-> Read(j)]
      /\ todo' = {j \in Jobs : Read(j) # NoJob}
  BY DEF Load, disk, ghosts
<1>t. /\ task = NoTask /\ task.at = "none" /\ task.op.kind = "none"
      /\ queue = <<>> /\ previews = {} /\ Waiting = {} /\ Waiting' = {}
      /\ attempt = [j \in Jobs |-> 0] /\ flow = [u \in Runs |-> Ended]
      /\ \A j \in Jobs : volatile[j] = NoJob /\ attempt[j] = 0
  BY <1>r, <1>f DEF Sessions, NoTask, Op, Empty, Waiting
<1>d. \A j \in Jobs : /\ Read(j) \in Record
                      /\ Read(j) # NoJob => Read(j) = journal[j][1] /\ Len(journal[j]) = 1
                      /\ Len(journal[j]) = 1 => Read(j) = journal[j][1]
  <2> SUFFICES ASSUME NEW j \in Jobs
               PROVE  /\ Read(j) \in Record
                      /\ Read(j) # NoJob => Read(j) = journal[j][1] /\ Len(journal[j]) = 1
                      /\ Len(journal[j]) = 1 => Read(j) = journal[j][1]
    OBVIOUS
  <2>1. journal[j] \in Seq(Record)
    BY <1>r DEF DiskType
  <2>2. Len(journal[j]) = 1 => journal[j][1] \in Record
    BY <2>1
  <2> QED BY <2>2, Constants DEF Read
<1>g. \A j \in Jobs : Get(j)' = Read(j) /\ saved'[j] = Read(j)
  BY <1>f, <1>t DEF Get
<1>1. DiskType' /\ MemoryType' /\ RunType' /\ QueueType' /\ TaskType'
  <2>1. saved' \in [Jobs -> Record]
    BY <1>f, <1>d
  <2> QED BY <1>r, <1>f, <2>1 DEF DiskType, MemoryType, RunType, QueueType, TaskType
<1>2. Issued' /\ Owned' /\ OneStep' /\ Unowned' /\ NewRun' /\ Stops'
  <2>1. Issued' /\ Owned' /\ Unowned'
    BY <1>r, <1>f DEF Issued, Owned, Unowned, Waiting
  <2>2. OneStep' /\ NewRun' /\ Stops'
    BY <1>r, <1>f, <1>t DEF OneStep, NewRun, Begins, Steps, Stops, StopHonoured, Waiting
  <2> QED BY <2>1, <2>2
<1>3. Followed' /\ EndWaits' /\ Settled' /\ Begun' /\ Written' /\ Committed'
  BY <1>f, <1>t DEF Followed, Running, EndWaits, Settled, Begun, Written, Committed
<1>4. Marks'
  BY <1>r, <1>f DEF Marks, Waiting
<1>5. Backing'
  <2> SUFFICES ASSUME NEW j \in Jobs \ stale
               PROVE  Backed(Read(j)) /\ \A i \in 1 .. Len(journal[j]) : Backed(journal[j][i])
    BY <1>f, <1>t, <1>g DEF Backing, Backed
  <2>1. \A i \in 1 .. Len(journal[j]) : Backed(journal[j][i])
    BY <1>r DEF Backing
  <2>2. CASE Read(j) = NoJob
    BY <2>1, <2>2 DEF Backed, NoJob
  <2>3. CASE Read(j) # NoJob
    BY <1>d, <2>1, <2>3
  <2> QED BY <2>2, <2>3
<1>6. Revisions'
  <2> SUFFICES ASSUME NEW j \in Jobs \ stale, LinksSave
               PROVE  /\ Len(journal[j]) <= 1
                      /\ Read(j) # NoJob => journal[j][1].rev <= Read(j).rev
    BY <1>f, <1>t, <1>g DEF Revisions
  <2>1. Len(journal[j]) <= 1
    BY <1>r DEF Revisions
  <2>2. Read(j) # NoJob => Read(j).rev <= Read(j).rev
    BY <1>d DEF Record
  <2> QED BY <1>d, <2>1, <2>2
<1>7. Sessions'
  <2>1. \A j \in Jobs : j \in todo' \/ ~Active(Get(j)'.phase)
    BY <1>f, <1>g DEF NoJob, Active
  <2> QED BY <1>f, <1>t, <1>g, <2>1 DEF Sessions
<1> QED BY <1>1, <1>2, <1>3, <1>4, <1>5, <1>6, <1>7 DEF IInv, Types, Names, Course, Files

(* Every job has been looked at.                                           *)
LEMMA RecoveryIsOver == IInv /\ Ready => IInv'
<1> SUFFICES ASSUME IInv, Ready PROVE IInv'
  OBVIOUS
<1>r. /\ DiskType /\ MemoryType /\ RunType /\ QueueType /\ TaskType
      /\ Issued /\ Owned /\ NewRun /\ OneStep /\ Unowned /\ Stops
      /\ Marks /\ Backing /\ Revisions /\ Sessions
  BY DEF IInv, Types, Names, Course, Files
<1>f. /\ UNCHANGED <<journal, snapshots, todo, saved, volatile, attempt, flow, queue, task>>
      /\ UNCHANGED <<previews, ids, stopped, stale>>
      /\ service = "loading" /\ service' = "up" /\ todo = {}
      /\ task = NoTask /\ task.at = "none" /\ task.op.kind = "none"
  BY DEF Ready, disk, ghosts, NoTask, Op
<1>t. /\ \A j \in Jobs : attempt[j] = 0
      /\ \A j \in Jobs \ stale : ~Active(Get(j).phase)
  BY <1>r, <1>f DEF Sessions
<1>1. DiskType' /\ MemoryType' /\ RunType' /\ QueueType' /\ TaskType'
  BY <1>r, <1>f DEF DiskType, MemoryType, RunType, QueueType, TaskType
<1>2. Issued' /\ Owned' /\ OneStep' /\ Unowned' /\ NewRun' /\ Stops'
  <2>1. Issued' /\ Owned' /\ Unowned'
    BY <1>r, <1>f DEF Issued, Owned, Unowned, Waiting
  <2>2. OneStep' /\ NewRun' /\ Stops'
    BY <1>r, <1>f DEF OneStep, NewRun, Begins, Steps, Stops, StopHonoured, Waiting
  <2> QED BY <2>1, <2>2
<1>3. Followed' /\ EndWaits' /\ Settled' /\ Begun' /\ Written' /\ Committed'
  BY <1>f, <1>t DEF Followed, Running, EndWaits, Settled, Begun, Written, Committed, Get
<1>4. Marks' /\ Backing' /\ Revisions'
  <2>1. Marks'
    BY <1>r, <1>f DEF Marks, Waiting
  <2> QED BY <1>r, <1>f, <2>1 DEF Backing, Backed, Revisions, Above, Get
<1>5. Sessions'
  BY <1>f DEF Sessions
<1> QED BY <1>1, <1>2, <1>3, <1>4, <1>5 DEF IInv, Types, Names, Course, Files

(* The plugin is closed: every run is aborted.                             *)
LEMMA RunsAreAborted == IInv /\ Dispose => IInv'
<1> SUFFICES ASSUME IInv, Dispose PROVE IInv'
  OBVIOUS
<1>r. /\ DiskType /\ MemoryType /\ RunType /\ QueueType /\ TaskType
      /\ Issued /\ Owned /\ NewRun /\ OneStep /\ Unowned /\ Stops
      /\ Begun /\ Written /\ Committed /\ Marks /\ Backing /\ Revisions /\ Sessions
  BY DEF IInv, Types, Names, Course, Files
<1>f. /\ UNCHANGED <<journal, snapshots, todo, saved, volatile, attempt, task>>
      /\ UNCHANGED <<previews, ids, stopped, stale>>
      /\ service = "up" /\ service' = "closing"
  BY DEF Dispose, disk, ghosts
<1>o. PICK op \in Queued : /\ queue' = Append(queue, op)
                           /\ op.kind = "close" /\ op.by = 0
  <2>1. (CHOOSE j \in Jobs : TRUE) \in Jobs
    BY Constants
  <2>2. /\ Op("close", CHOOSE j \in Jobs : TRUE, 0) \in Queued
        /\ Op("close", CHOOSE j \in Jobs : TRUE, 0).kind = "close"
        /\ Op("close", CHOOSE j \in Jobs : TRUE, 0).by = 0
    BY <2>1, Constants DEF Op, Queued, Asked, Stages
  <2> QED BY <2>2 DEF Dispose
<1>q. /\ QueueType' /\ Len(queue) \in Nat
      /\ \A i \in Waiting : queue'[i] = queue[i] /\ i \in Waiting'
      /\ \A i \in Waiting' : \/ i \in Waiting /\ queue'[i] = queue[i]
                             \/ i = Len(queue) + 1 /\ queue'[i] = op
  BY <1>r, <1>o, QueueGrows DEF Waiting
<1>t. /\ flow' \in [Runs -> Flow]
      /\ \A u \in Runs : /\ flow'[u].job = flow[u].job /\ flow'[u].id = flow[u].id
                         /\ flow'[u].committing = flow[u].committing
                         /\ flow'[u].pc = flow[u].pc
                         /\ flow[u].aborted => flow'[u].aborted
      /\ \A u \in Runs : (\A j \in Jobs : attempt[j] # u) => flow'[u] = flow[u]
  <2> SUFFICES ASSUME NEW u \in Runs
               PROVE  /\ flow'[u] \in Flow
                      /\ flow'[u].job = flow[u].job /\ flow'[u].id = flow[u].id
                      /\ flow'[u].committing = flow[u].committing
                      /\ flow'[u].pc = flow[u].pc
                      /\ flow[u].aborted => flow'[u].aborted
                      /\ (\A j \in Jobs : attempt[j] # u) => flow'[u] = flow[u]
    BY DEF Dispose
  <2>1. flow[u] \in Flow
    BY <1>r, FlowRange
  <2>2. /\ [flow[u] EXCEPT !.aborted = TRUE, !.armed = FALSE] \in Flow
        /\ [flow[u] EXCEPT !.aborted = TRUE, !.armed = FALSE].aborted
        /\ [flow[u] EXCEPT !.aborted = TRUE, !.armed = FALSE].pc = flow[u].pc
        /\ [flow[u] EXCEPT !.aborted = TRUE, !.armed = FALSE].job = flow[u].job
        /\ [flow[u] EXCEPT !.aborted = TRUE, !.armed = FALSE].id = flow[u].id
        /\ [flow[u] EXCEPT !.aborted = TRUE, !.armed = FALSE].committing = flow[u].committing
    BY <2>1 DEF Flow
  <2>3. CASE \E j \in Jobs : attempt[j] = u
    <3>1. flow'[u] = [flow[u] EXCEPT !.aborted = TRUE, !.armed = FALSE]
      BY <2>3 DEF Dispose
    <3> QED BY <2>2, <2>3, <3>1
  <2>4. CASE ~\E j \in Jobs : attempt[j] = u
    <3>1. flow'[u] = flow[u]
      BY <2>4 DEF Dispose
    <3> QED BY <2>1, <3>1
  <2> QED BY <2>3, <2>4
<1>k. op.kind \notin Steps \cup Ends /\ op.kind \in Asked
  BY <1>o DEF Steps, Ends, Asked
<1>1. DiskType' /\ MemoryType' /\ TaskType' /\ RunType'
  BY <1>r, <1>f, <1>t DEF DiskType, MemoryType, TaskType, RunType
<1>2. Issued'
  <2>1. \A u \in Runs : u > ids => flow'[u] = Ended
    <3>1. \A u \in Runs : u > ids => \A j \in Jobs : attempt[j] # u
      BY <1>r, RunsAre DEF Issued, RunType
    <3> QED BY <1>r, <1>t, <3>1 DEF Issued
  <2>2. 0 <= ids
    BY <1>r DEF RunType
  <2> QED BY <1>r, <1>f, <1>o, <1>q, <2>1, <2>2 DEF Issued
<1>3. Owned' /\ Unowned'
  <2>1. \A k \in Jobs : attempt[k] # 0 => flow'[attempt[k]].job = k
    BY <1>r, <1>t, AttemptRange DEF Owned
  <2>2. \A u \in Runs : flow'[u].pc # "ended" => flow'[u].job # 0
    BY <1>r, <1>t DEF Owned
  <2>3. \A i \in Waiting' : queue'[i].kind \in Steps \cup Ends =>
              queue'[i].by # 0 /\ flow'[queue'[i].by].job \in {0, queue'[i].job}
    BY <1>r, <1>k, <1>q, <1>t, WorkersAre DEF Owned
  <2>4. Unowned'
    BY <1>r, <1>f, <1>o, <1>q DEF Unowned
  <2> QED BY <1>r, <1>f, <1>t, <2>1, <2>2, <2>3, <2>4, WorkersAre DEF Owned
<1>4. NewRun'
  <2> SUFFICES ASSUME task.op.kind \in Begins
               PROVE  task.at = "job" /\ Unused(task.next.attempt)'
    BY <1>f DEF NewRun
  <2>1. task.at = "job" /\ Unused(task.next.attempt)
    BY <1>r DEF NewRun
  <2>2. task.next.attempt \in Runs /\ task.next.attempt # 0
    <3>1. \A b \in 1 .. ids : b \in Runs /\ b # 0
      BY <1>r, Constants DEF Runs, RunType
    <3> QED BY <2>1, <3>1 DEF Unused
  <2> QED BY <1>f, <1>o, <1>q, <1>t, <2>1, <2>2 DEF Unused
<1>5. OneStep'
  <2>1. \A i \in Waiting' : queue'[i].kind \in Steps =>
          i \in Waiting /\ queue'[i] = queue[i] /\ queue[i].by \in Runs
    BY <1>r, <1>k, <1>q, WorkersAre
  <2> QED BY <1>r, <1>f, <1>t, <2>1, WorkersAre DEF OneStep
<1>6. Stops'
  <2>1. /\ \A u \in stopped : u \in Runs
        /\ \A s \in snapshots : s.by \in Runs
    BY <1>r DEF RunType, DiskType
  <2>2. task.at = "snapshot" => /\ task.op.kind = "commit" /\ task.op.by \in Runs
                                /\ flow[task.op.by].committing /\ task.op.by \notin stopped
    BY <1>r, WorkersAre DEF Stops, Steps
  <2> QED BY <1>r, <1>f, <1>t, <2>1, <2>2 DEF Stops, StopHonoured
<1>7. Followed' /\ EndWaits' /\ Settled' /\ Begun'
  BY <1>r, <1>f DEF Followed, Running, EndWaits, Settled, Begun, Get
<1>8. Written' /\ Committed'
  <2>1. task.op.kind \in Steps \cup {"choose"} => flow'[task.op.by].id = flow[task.op.by].id
    BY <1>r, <1>t, WorkersAre
  <2>2. Written'
    BY <1>r, <1>f, <2>1 DEF Written, Offers, Writes, OfStage, Get, Steps
  <2>3. Committed'
    BY <1>r, <1>f, <2>1 DEF Committed, Stops, Get, Steps
  <2> QED BY <2>2, <2>3
<1>9. Marks' /\ Backing' /\ Revisions'
  <2>1. Marks'
    BY <1>r, <1>f, <1>o, <1>q DEF Marks
  <2> QED BY <1>r, <1>f, <2>1 DEF Backing, Backed, Revisions, Above, Get
<1>10. Sessions'
  BY <1>r, <1>f DEF Sessions
<1> QED BY <1>q, <1>1, <1>2, <1>3, <1>4, <1>5, <1>6, <1>7, <1>8, <1>9, <1>10
        DEF IInv, Types, Names, Course, Files

-----------------------------------------------------------------------------
(* The work that is taken, and what it is to save.                         *)
LEMMA NothingShifts ==
  ASSUME QueueType, UNCHANGED queue
  PROVE  QueueType' /\ Shifts(0)
<1>1. QueueType' /\ Waiting' = Waiting
  BY DEF QueueType, Waiting
<1>2. \A i \in Waiting : i + 0 = i /\ i - 0 = i
  BY DEF Waiting
<1> QED BY <1>1, <1>2 DEF Shifts

LEMMA FirstGoes ==
  ASSUME QueueType, queue # <<>>, queue' = Tail(queue)
  PROVE  QueueType' /\ Shifts(1) /\ queue[1] \in Queued /\ 1 \in Waiting
<1>1. \A i \in Waiting : i > 1 => i # 1
  OBVIOUS
<1> QED BY <1>1, QueueShrinks DEF Shifts, Waiting

(* The work of the queue is taken while the service runs.                  *)
LEMMA QueueIsServed ==
  ASSUME Sessions, queue # <<>>, UNCHANGED <<service, todo>>, task'.op.kind # "recover"
  PROVE  Sessions'
BY DEF Sessions

(* What every action that takes work leaves alone.                         *)
Steady == /\ UNCHANGED <<journal, snapshots, service, todo, saved, volatile, previews, stopped>>

LEMMA SteadyMemory ==
  ASSUME IInv, Steady
  PROVE  MemoryType' /\ \A j \in Jobs : Get(j)' = Get(j)
BY DEF IInv, Types, Steady, MemoryType, Get

LEMMA TaskFrameIsSteady == TaskFrame => Steady
BY DEF TaskFrame, Steady, disk

(* Recovery finds a job that is not as its snapshot says.                  *)
LEMMA JobIsRecovered ==
  ASSUME IInv, NEW j \in Jobs, Recover(j)
  PROVE  IInv'
<1>r. /\ DiskType /\ MemoryType /\ RunType /\ QueueType /\ TaskType
      /\ Issued /\ Owned /\ NewRun /\ OneStep /\ Unowned /\ Stops
      /\ Followed /\ EndWaits /\ Settled /\ Begun
      /\ Written /\ Committed /\ Marks /\ Backing /\ Revisions /\ Sessions
  BY DEF IInv, Types, Names, Course, Files
<1>f. /\ UNCHANGED <<journal, snapshots, service, saved, volatile, attempt, flow, queue>>
      /\ UNCHANGED <<previews, ids, stopped, stale>>
      /\ service = "loading" /\ task = NoTask /\ j \in todo /\ todo' = todo \ {j}
  BY DEF Recover, disk, ghosts
<1>j. volatile[j] = NoJob /\ saved[j] # NoJob /\ Get(j) = saved[j] /\ saved[j] \in Record
  BY <1>r, <1>f DEF Sessions, Get, MemoryType
<1>t. task.at = "none" /\ task.op.kind = "none"
  BY <1>f DEF NoTask, Op
<1>p. PICK p \in Phases : /\ p = Recovered(saved[j]) /\ ~Active(p)
                          /\ p # saved[j].phase => p \in {"acquired", "interrupted"}
                          /\ p = "acquired" => Whole(saved[j])
  BY <1>j DEF Recovered, Active, Record, Phases
<1>g. \A k \in Jobs : Get(k)' = Get(k)
  BY <1>f DEF Get
<1>1. CASE p = saved[j].phase
  <2>f. task' = task
    BY <1>f, <1>p, <1>1 DEF Recover
  <2>1. DiskType' /\ MemoryType' /\ RunType' /\ QueueType' /\ TaskType'
    BY <1>r, <1>f, <2>f DEF DiskType, MemoryType, RunType, QueueType, TaskType
  <2>2. Issued' /\ Owned' /\ OneStep' /\ Unowned'
    BY <1>r, <1>f, <2>f DEF Issued, Owned, OneStep, Unowned, Waiting
  <2>3. NewRun' /\ Stops'
    BY <1>r, <1>f, <2>f DEF NewRun, Unused, Stops, StopHonoured, Waiting
  <2>4. Followed' /\ EndWaits' /\ Settled'
    BY <1>f DEF Followed, Running, EndWaits, Settled
  <2>5. Begun' /\ Committed' /\ Marks'
    BY <1>r, <1>f, <2>f DEF Begun, Committed, Marks, Waiting, Get
  <2>6. Written'
    BY <1>t, <2>f DEF Written
  <2>7. Backing' /\ Revisions'
    BY <1>r, <1>f, <2>f DEF Backing, Backed, Revisions, Above, Get
  <2>8. Sessions'
    <3>1. \A k \in Jobs \ stale : k \in todo' \/ ~Active(Get(k).phase)
      BY <1>r, <1>f, <1>t, <1>j, <1>p, <1>1 DEF Sessions
    <3> QED BY <1>r, <1>f, <1>g, <1>t, <2>f, <3>1 DEF Sessions
  <2> QED BY <2>1, <2>2, <2>3, <2>4, <2>5, <2>6, <2>7, <2>8 DEF IInv, Types, Names, Course, Files
<1>2. CASE p # saved[j].phase
  <2>1. PICK op \in Work, r \in Record :
          /\ op = Op("recover", j, 0) /\ r = [saved[j] EXCEPT !.phase = p]
          /\ op.kind = "recover" /\ op.job = j /\ op.by = 0
          /\ r.phase = p /\ r.snap = saved[j].snap /\ r.attempt = saved[j].attempt
          /\ r.rev = saved[j].rev
    <3>1. Op("recover", j, 0) \in Work
      BY OpIsWork, Constants DEF Others
    <3>2. [saved[j] EXCEPT !.phase = p] \in Record
      BY <1>j DEF Record
    <3> QED BY <1>j, <3>1, <3>2 DEF Op, Record
  <2>2. task' = Saving(op, r)
    BY <1>p, <1>2, <2>1 DEF Recover
  <2>3. QueueType' /\ Shifts(0)
    BY <1>r, <1>f, NothingShifts
  <2>4. RunType' /\ MemoryType'
    BY <1>r, <1>f DEF RunType, MemoryType
  <2>5. Takes(op, r, 0)
    BY <1>r, <1>f, <2>2, <2>3 DEF Takes, RunType
  <2>6. Due(op, r, 0)
    BY <2>1 DEF Due, Steps, Ends, Begins
  <2>7. Fit(op, r)
    <3>1. Offers(op, r)'
      BY <1>p, <1>2, <2>1 DEF Offers
    <3>2. Writes(op, r)'
      BY <1>f, <1>p, <1>2, <2>1 DEF Writes, Begins, Ends
    <3>3. Backed(r)
      BY <1>p, <2>1 DEF Backed, Whole
    <3> QED BY <1>j, <2>1, <3>1, <3>2, <3>3 DEF Fit
  <2>8. Sessions'
    <3>1. task'.at = "job" /\ task'.op = op
      BY <2>2 DEF Saving
    <3>2. \A k \in Jobs \ stale : k \in todo' \/ k = j \/ ~Active(Get(k).phase)
      BY <1>r, <1>f, <1>t DEF Sessions
    <3> QED BY <1>r, <1>f, <1>g, <2>1, <3>1, <3>2 DEF Sessions
  <2> QED BY <2>3, <2>4, <2>5, <2>6, <2>7, <2>8, WorkTaken
<1> QED BY <1>1, <1>2

(* Work that changes neither who has a job nor where its run is.           *)
Keeps(op) ==
  /\ \A j \in Jobs : \/ attempt'[j] = attempt[j]
                     \/ attempt'[j] = 0 /\ op.kind \in Ends /\ op.job = j
  /\ \A t \in Runs : /\ flow'[t].pc = flow[t].pc /\ flow'[t].job = flow[t].job
                     /\ flow'[t].id = flow[t].id /\ flow'[t].aborted = flow[t].aborted
                     /\ flow'[t].committing = flow[t].committing
                     /\ flow[t] = Ended => flow'[t] = Ended
  /\ ids <= ids' /\ stale \subseteq stale'

(* The first work of the queue is taken.                                   *)
LEMMA FirstIsTaken ==
  ASSUME IInv, NEW op \in Work, NEW r \in Record, task = NoTask, queue # <<>>,
         queue' = Tail(queue), task' = Saving(op, r), Steady, Keeps(op), RunType',
         op.kind # "recover", Due(op, r, 1), Fit(op, r)
  PROVE  IInv'
<1>1. QueueType /\ Sessions
  BY DEF IInv, Types
<1>2. QueueType' /\ Shifts(1)
  BY <1>1, FirstGoes
<1>3. Sessions'
  <2>1. task'.op.kind # "recover"
    BY DEF Saving
  <2> QED BY <1>1, <2>1, QueueIsServed DEF Steady
<1>4. MemoryType'
  BY SteadyMemory
<1>5. Takes(op, r, 1)
  BY <1>2 DEF Takes, Steady, Keeps
<1> QED BY <1>2, <1>3, <1>4, <1>5, WorkTaken

(* Work is found, and what asked for it stays in the queue.                *)
LEMMA MoreIsTaken ==
  ASSUME IInv, NEW op \in Work, NEW r \in Record, task = NoTask, queue # <<>>,
         UNCHANGED queue, task' = Saving(op, r), Steady, Keeps(op), RunType',
         op.kind # "recover", Due(op, r, 0), Fit(op, r)
  PROVE  IInv'
<1>1. QueueType /\ Sessions
  BY DEF IInv, Types
<1>2. QueueType' /\ Shifts(0)
  BY <1>1, NothingShifts
<1>3. Sessions'
  <2>1. task'.op.kind # "recover"
    BY DEF Saving
  <2> QED BY <1>1, <2>1, QueueIsServed DEF Steady
<1>4. MemoryType'
  BY SteadyMemory
<1>5. Takes(op, r, 0)
  BY <1>2 DEF Takes, Steady, Keeps
<1> QED BY <1>2, <1>3, <1>4, <1>5, WorkTaken

LEMMA NothingIsKept ==
  ASSUME RunType, UNCHANGED <<attempt, flow>>, ids <= ids', ids' \in 0 .. MaxIds,
         stale \subseteq stale', stale' \subseteq Jobs, UNCHANGED stopped, NEW op
  PROVE  Keeps(op) /\ RunType'
BY DEF Keeps, RunType

(* What is known of the work at the head of the queue.                     *)
LEMMA FirstIs ==
  ASSUME IInv, queue # <<>>
  PROVE  /\ 1 \in Waiting /\ queue[1] \in Queued /\ queue[1] \in Work
         /\ queue[1].job \in Jobs /\ queue[1].rec \in Record
         /\ queue[1].kind \in Asked => queue[1].by = 0
         /\ queue[1].kind = "mark" => queue[1].rec.phase = "acquired"
         /\ queue[1].kind = "stage" => queue[1].to # "none" /\ queue[1].to \in Stages
         /\ queue[1].kind \in Steps \cup Ends =>
              /\ queue[1].by \in Runs /\ queue[1].by # 0
              /\ flow[queue[1].by].job \in {0, queue[1].job}
         /\ queue[1].kind \in Steps => flow[queue[1].by].pc = "staging"
<1>1. QueueType /\ TaskType /\ Unowned /\ Marks /\ Owned /\ OneStep
  BY DEF IInv, Types, Names, Files
<1>2. 1 \in Waiting /\ queue[1] \in Queued
  BY <1>1 DEF QueueType, Waiting
<1>3. queue[1].kind = "stage" => queue[1].to # "none" /\ queue[1].to \in Stages
  BY <1>1, <1>2 DEF Marks, Queued
<1> QED BY <1>1, <1>2, <1>3, WorkersAre DEF Unowned, Marks, Owned, OneStep, Queued, Work

(* A job that has a record in memory, and one that is acquired.            *)
LEMMA AcquiredIsSaved ==
  ASSUME IInv, NEW j \in Jobs \ stale, Get(j).phase = "acquired"
  PROVE  Backed(Get(j)) /\ attempt[j] = 0 /\ Get(j) # NoJob
<1>1. MemoryType /\ Marks /\ Backing /\ Begun
  BY DEF IInv, Types, Course, Files
<1>2. volatile[j].phase # "acquired"
  BY <1>1 DEF Marks
<1>3. Get(j) = saved[j]
  BY <1>2 DEF Get
<1>4. Get(j) # NoJob
  BY DEF NoJob
<1> QED BY <1>1, <1>3, <1>4 DEF Backing, Begun

LEMMA RunHasRecord ==
  ASSUME IInv, NEW j \in Jobs \ stale, attempt[j] # 0
  PROVE  Get(j) # NoJob
BY DEF IInv, Course, Begun, Get

(* An id is issued.                                                        *)
LEMMA NextIdIsUnused ==
  ASSUME IInv, ids < MaxIds, NEW a \in Nat, a = ids + 1, ids' = a,
         UNCHANGED <<attempt, flow, snapshots, stopped>>, queue # <<>>, queue' = Tail(queue)
  PROVE  Unused(a)' /\ a \in 0 .. MaxIds /\ ids <= ids'
<1>1. DiskType /\ RunType /\ QueueType /\ Issued
  BY DEF IInv, Types, Names
<1>2. /\ ids \in Nat /\ MaxIds \in Nat /\ a \in Runs /\ a \in 0 .. MaxIds /\ ids <= ids'
      /\ a \in 1 .. ids' /\ a > ids
  BY <1>1, Constants DEF RunType, Runs
<1>3. /\ flow[a] = Ended /\ a \notin stopped
      /\ \A s \in snapshots : s.by # a
      /\ \A j \in Jobs : attempt[j] # a
      /\ \A i \in Waiting : queue[i].by # a
  <2>1. flow[a] = Ended
    BY <1>1, <1>2 DEF Issued
  <2>2. \A x \in 0 .. MaxIds : x <= ids => x # a
    BY <1>2
  <2>3. /\ \A j \in Jobs : attempt[j] \in 0 .. MaxIds
        /\ \A i \in Waiting : queue[i].by \in 0 .. MaxIds
        /\ \A s \in snapshots : s.by \in 0 .. MaxIds
        /\ \A s \in stopped : s \in 0 .. MaxIds
    BY <1>1, AttemptRange, QueueRange, RunsAre DEF DiskType, RunType
  <2> QED BY <1>1, <2>1, <2>2, <2>3 DEF Issued
<1>4. \A i \in Waiting' : queue'[i].by # a
  <2>1. Shifts(1)
    BY <1>1, FirstGoes
  <2>2. \A i \in Waiting' : i + 1 \in Waiting /\ queue'[i] = queue[i + 1]
    BY <2>1, Zenon DEF Shifts
  <2> QED BY <1>3, <2>2
<1> QED BY <1>2, <1>3, <1>4 DEF Unused

(* A copy is linked to the library.                                        *)
LEMMA LinkIsTaken == IInv /\ TakeLink => IInv'
<1> SUFFICES ASSUME IInv, TakeLink PROVE IInv'
  OBVIOUS
<1>1. PICK op \in Work : op = queue[1]
  BY FirstIs DEF TakeLink, First
<1>2. /\ task = NoTask /\ queue # <<>> /\ queue' = Tail(queue) /\ op.kind = "link"
      /\ Get(op.job).phase = "acquired"
      /\ task' = Saving(op, [Get(op.job) EXCEPT !.linked = TRUE])
      /\ UNCHANGED <<flow, attempt, ids, stale>> /\ TaskFrame
  BY <1>1 DEF TakeLink, First, Next1
<1>3. op.job \in Jobs /\ op.by = 0
  BY <1>1, <1>2, FirstIs DEF Asked
<1>4. RunType /\ MemoryType
  BY DEF IInv, Types
<1>5. Get(op.job) \in Record
  BY <1>3, <1>4, GetIsRecord
<1>6. PICK r \in Record : /\ r = [Get(op.job) EXCEPT !.linked = TRUE]
                          /\ r.phase = "acquired" /\ r.rev = Get(op.job).rev
                          /\ r.snap = Get(op.job).snap /\ r.attempt = Get(op.job).attempt
  <2>1. [Get(op.job) EXCEPT !.linked = TRUE] \in Record
    BY <1>5 DEF Record
  <2> QED BY <1>2, <1>5, <2>1 DEF Record
<1>7. Steady
  BY <1>2, TaskFrameIsSteady
<1>8. Keeps(op) /\ RunType'
  <2>1. ids <= ids' /\ ids' \in 0 .. MaxIds /\ stale \subseteq stale' /\ stale' \subseteq Jobs
    BY <1>2, <1>4 DEF RunType
  <2> QED BY <1>2, <1>4, <1>7, <2>1, NothingIsKept DEF Steady
<1>9. Due(op, r, 1)
  BY <1>1, <1>2, <1>3 DEF Due, Steps, Ends, Begins
<1>10. Fit(op, r)
  <2>1. Offers(op, r)'
    BY <1>6 DEF Offers
  <2>2. ASSUME op.job \notin stale
        PROVE  Writes(op, r)' /\ Backed(r) /\ Get(op.job) # NoJob
    <3>1. Backed(Get(op.job)) /\ attempt[op.job] = 0 /\ Get(op.job) # NoJob
      BY <1>2, <1>3, <2>2, AcquiredIsSaved
    <3>2. Backed(r)
      BY <1>2, <1>6, <3>1 DEF Backed
    <3>3. Writes(op, r)'
      BY <1>2, <1>6, <3>1 DEF Writes, Begins, Ends, Others, Active
    <3> QED BY <3>1, <3>2, <3>3
  <2> QED BY <1>2, <1>6, <2>1, <2>2 DEF Fit
<1> QED BY <1>2, <1>6, <1>7, <1>8, <1>9, <1>10, FirstIsTaken

(* A preview found the files of a copy changed.                            *)
LEMMA MarkIsTaken == IInv /\ TakeMark => IInv'
<1> SUFFICES ASSUME IInv, TakeMark PROVE IInv'
  OBVIOUS
<1>1. PICK op \in Work : op = queue[1]
  BY FirstIs DEF TakeMark, First
<1>2. /\ task = NoTask /\ queue # <<>> /\ queue' = Tail(queue) /\ op.kind = "mark"
      /\ task' = Saving(op, [op.rec EXCEPT !.phase = "interrupted"])
      /\ stale' = IF Get(op.job) = op.rec THEN stale ELSE stale \cup {op.job}
      /\ UNCHANGED <<flow, attempt, ids>> /\ TaskFrame
  BY <1>1 DEF TakeMark, First, Next1
<1>3. op.job \in Jobs /\ op.by = 0 /\ op.rec \in Record /\ op.rec.phase = "acquired"
  BY <1>1, <1>2, FirstIs DEF Asked
<1>4. RunType /\ MemoryType
  BY DEF IInv, Types
<1>6. PICK r \in Record : /\ r = [op.rec EXCEPT !.phase = "interrupted"]
                          /\ r.phase = "interrupted" /\ r.rev = op.rec.rev
  <2>1. [op.rec EXCEPT !.phase = "interrupted"] \in Record
    BY <1>3 DEF Record, Phases
  <2> QED BY <1>3, <2>1 DEF Record
<1>7. Steady
  BY <1>2, TaskFrameIsSteady
<1>8. Keeps(op) /\ RunType'
  <2>1. ids <= ids' /\ ids' \in 0 .. MaxIds /\ stale \subseteq stale' /\ stale' \subseteq Jobs
    BY <1>2, <1>3, <1>4 DEF RunType
  <2> QED BY <1>2, <1>4, <1>7, <2>1, NothingIsKept DEF Steady
<1>9. Due(op, r, 1)
  BY <1>1, <1>2, <1>3 DEF Due, Steps, Ends, Begins
<1>10. Fit(op, r)
  <2>1. Offers(op, r)'
    BY <1>6 DEF Offers
  <2>2. ASSUME op.job \notin stale'
        PROVE  /\ Writes(op, r)' /\ Backed(r) /\ Get(op.job) # NoJob
               /\ r.rev = Get(op.job).rev
    <3>1. op.job \notin stale /\ Get(op.job) = op.rec
      BY <1>2, <2>2
    <3>2. attempt[op.job] = 0 /\ Get(op.job) # NoJob
      BY <1>3, <3>1, AcquiredIsSaved
    <3>3. Backed(r)
      BY <1>6 DEF Backed
    <3>4. Writes(op, r)'
      BY <1>2, <1>6, <3>2 DEF Writes, Begins, Ends, Others, Active
    <3> QED BY <1>6, <3>1, <3>2, <3>3, <3>4
  <2> QED BY <2>1, <2>2 DEF Fit
<1> QED BY <1>2, <1>6, <1>7, <1>8, <1>9, <1>10, FirstIsTaken

(* A request finds a copy that is not whole.                               *)
LEMMA BrokenIsTaken ==
  ASSUME IInv, NEW j \in Jobs, TakeBroken(j)
  PROVE  IInv'
<1>1. PICK op \in Work : op = Op("broken", j, 0) /\ op.kind = "broken" /\ op.job = j /\ op.by = 0
  <2>1. Op("broken", j, 0) \in Work
    BY OpIsWork, Constants DEF Others
  <2> QED BY <2>1 DEF Op
<1>2. /\ task = NoTask /\ queue # <<>> /\ UNCHANGED queue
      /\ Get(j).phase = "acquired"
      /\ task' = Saving(op, [Get(j) EXCEPT !.phase = "interrupted"])
      /\ UNCHANGED <<flow, attempt, ids, stale>> /\ TaskFrame
  BY <1>1 DEF TakeBroken, First
<1>4. RunType /\ MemoryType
  BY DEF IInv, Types
<1>5. Get(j) \in Record
  BY <1>4, GetIsRecord
<1>6. PICK r \in Record : /\ r = [Get(j) EXCEPT !.phase = "interrupted"]
                          /\ r.phase = "interrupted" /\ r.rev = Get(j).rev
  <2>1. [Get(j) EXCEPT !.phase = "interrupted"] \in Record
    BY <1>5 DEF Record, Phases
  <2> QED BY <1>5, <2>1 DEF Record
<1>7. Steady
  BY <1>2, TaskFrameIsSteady
<1>8. Keeps(op) /\ RunType'
  <2>1. ids <= ids' /\ ids' \in 0 .. MaxIds /\ stale \subseteq stale' /\ stale' \subseteq Jobs
    BY <1>2, <1>4 DEF RunType
  <2> QED BY <1>2, <1>4, <1>7, <2>1, NothingIsKept DEF Steady
<1>9. Due(op, r, 0)
  BY <1>1, <1>2 DEF Due, Steps, Ends, Begins
<1>10. Fit(op, r)
  <2>1. Offers(op, r)'
    BY <1>6 DEF Offers
  <2>2. ASSUME j \notin stale
        PROVE  Writes(op, r)' /\ Backed(r) /\ Get(j) # NoJob
    <3>1. attempt[j] = 0 /\ Get(j) # NoJob
      BY <1>2, <2>2, AcquiredIsSaved
    <3>2. Backed(r)
      BY <1>6 DEF Backed
    <3>3. Writes(op, r)'
      BY <1>1, <1>2, <1>6, <3>1 DEF Writes, Begins, Ends, Others, Active
    <3> QED BY <3>1, <3>2, <3>3
  <2> QED BY <1>1, <1>2, <1>6, <2>1, <2>2 DEF Fit
<1> QED BY <1>1, <1>2, <1>6, <1>7, <1>8, <1>9, <1>10, MoreIsTaken

(* A job is still under way when the plugin is closed.                     *)
LEMMA CloseIsTaken ==
  ASSUME IInv, NEW j \in Jobs, TakeClose(j), service # "up"
  PROVE  IInv'
<1>1. PICK op \in Work : op = Op("closed", j, 0) /\ op.kind = "closed" /\ op.job = j /\ op.by = 0
  <2>1. Op("closed", j, 0) \in Work
    BY OpIsWork, Constants DEF Others
  <2> QED BY <2>1 DEF Op
<1>2. /\ task = NoTask /\ queue # <<>> /\ UNCHANGED queue
      /\ Active(Get(j).phase)
      /\ task' = Saving(op, [Get(j) EXCEPT !.phase = "interrupted"])
      /\ UNCHANGED <<flow, attempt, ids, stale>> /\ TaskFrame
  BY <1>1 DEF TakeClose, First
<1>4. RunType /\ MemoryType
  BY DEF IInv, Types
<1>5. Get(j) \in Record /\ Get(j) # NoJob
  BY <1>2, <1>4, GetIsRecord DEF Active, NoJob
<1>6. PICK r \in Record : /\ r = [Get(j) EXCEPT !.phase = "interrupted"]
                          /\ r.phase = "interrupted" /\ r.rev = Get(j).rev
  <2>1. [Get(j) EXCEPT !.phase = "interrupted"] \in Record
    BY <1>5 DEF Record, Phases
  <2> QED BY <1>5, <2>1 DEF Record
<1>7. Steady
  BY <1>2, TaskFrameIsSteady
<1>8. Keeps(op) /\ RunType'
  <2>1. ids <= ids' /\ ids' \in 0 .. MaxIds /\ stale \subseteq stale' /\ stale' \subseteq Jobs
    BY <1>2, <1>4 DEF RunType
  <2> QED BY <1>2, <1>4, <1>7, <2>1, NothingIsKept DEF Steady
<1>9. Due(op, r, 0)
  BY <1>1, <1>2 DEF Due, Steps, Ends, Begins
<1>10. Fit(op, r)
  <2>1. Offers(op, r)'
    BY <1>6 DEF Offers
  <2>2. Backed(r)
    BY <1>6 DEF Backed
  <2>3. Writes(op, r)'
    BY <1>1, <1>6, <1>7 DEF Writes, Begins, Ends, Others, Active, Steady
  <2> QED BY <1>1, <1>2, <1>5, <1>6, <2>1, <2>2, <2>3 DEF Fit
<1> QED BY <1>1, <1>2, <1>6, <1>7, <1>8, <1>9, <1>10, MoreIsTaken

(* No job is under way any more: the plugin is closed, and no run has a    *)
(* job.  What the queue still holds is work of runs that are over, or of   *)
(* none.                                                                   *)
LEMMA ServiceIsClosed ==
  ASSUME IInv, CloseDone
  PROVE  IInv'
<1>r. /\ DiskType /\ MemoryType /\ RunType /\ QueueType /\ TaskType
      /\ Issued /\ Owned /\ NewRun /\ OneStep /\ Unowned /\ Stops
      /\ Marks /\ Backing /\ Revisions /\ Sessions
  BY DEF IInv, Types, Names, Files
<1>f. /\ UNCHANGED <<journal, snapshots, todo, saved, volatile, task, previews>>
      /\ UNCHANGED <<flow, stopped, stale, ids>>
      /\ task = NoTask /\ queue # <<>> /\ queue' = Tail(queue) /\ service' = "closed"
      /\ attempt' = [j \in Jobs |-> 0]
  BY DEF CloseDone, First, disk, ghosts
<1>n. task.at = "none" /\ task.op.kind = "none"
  BY <1>f DEF NoTask, Op
<1>a. \A j \in Jobs : attempt'[j] = 0 /\ Get(j)' = Get(j)
  BY <1>f DEF Get
<1>q. /\ QueueType'
      /\ \A i \in Waiting' : i + 1 \in Waiting /\ queue'[i] = queue[i + 1]
  BY <1>r, <1>f, QueueShrinks DEF Waiting
<1>1. DiskType' /\ MemoryType' /\ TaskType' /\ RunType'
  BY <1>r, <1>f, Constants DEF DiskType, MemoryType, TaskType, RunType
<1>2. Issued' /\ Owned' /\ NewRun'
  <2>1. 0 <= ids
    BY <1>r, Constants DEF RunType
  <2> QED BY <1>r, <1>f, <1>n, <1>a, <1>q, <2>1 DEF Issued, Owned, NewRun, Begins, Steps, Ends
<1>3. OneStep'
  <2>1. ASSUME NEW i \in Waiting', NEW k \in Waiting', queue'[i].by = queue'[k].by,
               {queue'[i].kind, queue'[k].kind} \subseteq Steps
        PROVE  i = k
    <3>1. i + 1 = k + 1
      BY <1>r, <1>q, <2>1 DEF OneStep
    <3> QED BY <3>1 DEF Waiting
  <2> QED BY <1>r, <1>f, <1>n, <1>q, <2>1 DEF OneStep, Steps
<1>4. Unowned'
  BY <1>r, <1>f, <1>a, <1>q DEF Unowned
<1>5. Stops'
  <2>1. /\ \A t \in stopped : t # 0
        /\ \A s \in snapshots : s.by # 0
    BY <1>r, RunsAre DEF RunType, DiskType
  <2> QED BY <1>r, <1>f, <1>n, <1>a, <2>1 DEF Stops, StopHonoured
<1>6. Followed' /\ EndWaits' /\ Settled' /\ Begun'
  BY <1>f, <1>a DEF Followed, Running, EndWaits, Settled, Begun
<1>7. Written' /\ Committed'
  BY <1>f, <1>n DEF Written, Committed
<1>8. Marks'
  BY <1>r, <1>f, <1>q DEF Marks
<1>9. Sessions' /\ service \notin {"down", "loading"}
  BY <1>r, <1>f, <1>n DEF Sessions
<1>10. Backing' /\ Revisions'
  BY <1>r, <1>f, <1>n, <1>a, <1>9 DEF Backing, Backed, Revisions, Above
<1> QED BY <1>q, <1>1, <1>2, <1>3, <1>4, <1>5, <1>6, <1>7, <1>8, <1>9, <1>10
        DEF IInv, Types, Names, Course, Files

(* A run is to be tried again under a new id.                              *)
LEMMA RetryIsTaken == IInv /\ TakeRetry => IInv'
<1> SUFFICES ASSUME IInv, TakeRetry PROVE IInv'
  OBVIOUS
<1>1. PICK op \in Work : op = queue[1]
  BY FirstIs DEF TakeRetry, First
<1>4. RunType /\ MemoryType
  BY DEF IInv, Types
<1>a. PICK a \in Nat : a = ids + 1
  BY <1>4 DEF RunType
<1>2. /\ task = NoTask /\ queue # <<>> /\ queue' = Tail(queue) /\ op.kind = "retry"
      /\ Retryable(Get(op.job).phase) /\ ids < MaxIds /\ ids' = a
      /\ task' = Saving(op, [Get(op.job) EXCEPT !.phase = "queued", !.attempt = a, !.pick = 0,
                                                !.open = FALSE, !.snap = 0])
      /\ UNCHANGED <<flow, attempt, stale>> /\ TaskFrame
  BY <1>1, <1>a DEF TakeRetry, First, Next1
<1>3. op.job \in Jobs /\ op.by = 0
  BY <1>1, <1>2, FirstIs DEF Asked, Begins
<1>7. Steady
  BY <1>2, TaskFrameIsSteady
<1>u. Unused(a)' /\ a \in 0 .. MaxIds /\ ids <= ids'
  BY <1>a, <1>2, <1>7, NextIdIsUnused DEF Steady
<1>5. Get(op.job) \in Record /\ Get(op.job) # NoJob
  BY <1>2, <1>3, <1>4, GetIsRecord DEF Retryable, NoJob
<1>6. PICK r \in Record : /\ r = [Get(op.job) EXCEPT !.phase = "queued", !.attempt = a, !.pick = 0,
                                                     !.open = FALSE, !.snap = 0]
                          /\ r.phase = "queued" /\ r.rev = Get(op.job).rev /\ r.attempt = a
  <2>1. [Get(op.job) EXCEPT !.phase = "queued", !.attempt = a, !.pick = 0,
                            !.open = FALSE, !.snap = 0] \in Record
    <3>1. 0 \in 0 .. MaxIds /\ "queued" \in Phases
      BY Constants DEF Phases
    <3> QED BY <1>5, <1>u, <3>1 DEF Record
  <2> QED BY <1>5, <2>1 DEF Record
<1>8. Keeps(op) /\ RunType'
  <2>1. stale \subseteq stale' /\ stale' \subseteq Jobs /\ ids' \in 0 .. MaxIds
    BY <1>2, <1>4, <1>u DEF RunType
  <2> QED BY <1>2, <1>4, <1>7, <1>u, <2>1, NothingIsKept DEF Steady
<1>9. Due(op, r, 1)
  BY <1>1, <1>2, <1>3, <1>6, <1>u DEF Due, Steps, Ends, Begins
<1>10. Fit(op, r)
  <2>1. Offers(op, r)'
    BY <1>6 DEF Offers
  <2>2. Writes(op, r)'
    BY <1>2, <1>6 DEF Writes, Begins, Ends, Others
  <2>3. Backed(r)
    BY <1>6 DEF Backed
  <2> QED BY <1>5, <1>6, <2>1, <2>2, <2>3 DEF Fit
<1> QED BY <1>2, <1>6, <1>7, <1>8, <1>9, <1>10, FirstIsTaken

(* A job is made for a paper that has none.                                *)
LEMMA NewIsTaken ==
  ASSUME IInv, NEW j \in Jobs, TakeNew(j)
  PROVE  IInv'
<1>4. RunType /\ MemoryType
  BY DEF IInv, Types
<1>a. PICK a \in Nat : a = ids + 1
  BY <1>4 DEF RunType
<1>o. queue[1] \in Work /\ queue[1].kind \in {"start", "fresh"} /\ queue[1].by = 0
  BY FirstIs DEF TakeNew, First, Next1, Asked, Begins
<1>1. PICK op \in Work : /\ op = [queue[1] EXCEPT !.job = j] /\ op.job = j /\ op.by = 0
                         /\ op.kind = queue[1].kind
  <2>1. [queue[1] EXCEPT !.job = j] \in Work
    BY <1>o DEF Work
  <2> QED BY <1>o, <2>1 DEF Work
<1>2. /\ task = NoTask /\ queue # <<>> /\ queue' = Tail(queue) /\ op.kind \in {"start", "fresh"}
      /\ Get(j) = NoJob /\ journal[j] = <<>> /\ ids < MaxIds /\ ids' = a
      /\ task' = Saving(op, [NoJob EXCEPT !.phase = "queued", !.attempt = a])
      /\ UNCHANGED <<flow, attempt, stale>> /\ TaskFrame
  BY <1>1, <1>a, <1>o DEF TakeNew, First, Next1
<1>7. Steady
  BY <1>2, TaskFrameIsSteady
<1>u. Unused(a)' /\ a \in 0 .. MaxIds /\ ids <= ids'
  BY <1>a, <1>2, <1>7, NextIdIsUnused DEF Steady
<1>6. PICK r \in Record : /\ r = [NoJob EXCEPT !.phase = "queued", !.attempt = a]
                          /\ r.phase = "queued" /\ r.rev = NoJob.rev /\ r.attempt = a
  <2>1. [NoJob EXCEPT !.phase = "queued", !.attempt = a] \in Record
    BY Constants, <1>u DEF Record, Phases
  <2> QED BY <2>1 DEF NoJob
<1>8. Keeps(op) /\ RunType'
  <2>1. stale \subseteq stale' /\ stale' \subseteq Jobs /\ ids' \in 0 .. MaxIds
    BY <1>2, <1>4, <1>u DEF RunType
  <2> QED BY <1>2, <1>4, <1>7, <1>u, <2>1, NothingIsKept DEF Steady
<1>9. Due(op, r, 1)
  BY <1>1, <1>2, <1>6, <1>u DEF Due, Steps, Ends, Begins
<1>10. Fit(op, r)
  <2>1. Offers(op, r)'
    BY <1>6 DEF Offers
  <2>2. Writes(op, r)'
    <3>1. Get(op.job)' = NoJob
      BY <1>1, <1>2, <1>7, SteadyMemory
    <3> QED BY <1>2, <1>6, <3>1 DEF Writes, Begins, Ends, Others
  <2>3. Backed(r)
    BY <1>6 DEF Backed
  <2> QED BY <1>1, <1>2, <1>6, <2>1, <2>2, <2>3 DEF Fit
<1> QED BY <1>2, <1>6, <1>7, <1>8, <1>9, <1>10, FirstIsTaken

(* The reader chooses a candidate, while its run waits for that.           *)
LEMMA ChoiceIsTaken == IInv /\ TakeChoice => IInv'
<1> SUFFICES ASSUME IInv, TakeChoice PROVE IInv'
  OBVIOUS
<1>4. /\ RunType /\ MemoryType /\ Owned /\ Followed
  BY DEF IInv, Types, Names, Course
<1>o. /\ queue[1] \in Work /\ queue[1].job \in Jobs /\ queue[1].rec \in Record
      /\ queue[1].kind = "choose"
  BY FirstIs DEF TakeChoice, First, Next1
<1>t. PICK t \in Runs : t = attempt[queue[1].job] /\ t # 0 /\ t \in 0 .. MaxIds
  BY <1>4, <1>o, AttemptRange DEF TakeChoice, Next1
<1>1. PICK op \in Work : /\ op = [queue[1] EXCEPT !.by = t] /\ op.job = queue[1].job /\ op.by = t
                         /\ op.kind = "choose" /\ op.rec = queue[1].rec
  <2>1. [queue[1] EXCEPT !.by = t] \in Work
    BY <1>o, <1>t DEF Work
  <2> QED BY <1>o, <2>1 DEF Work
<1>2. /\ task = NoTask /\ queue # <<>> /\ queue' = Tail(queue)
      /\ Current(t) /\ Get(op.job).phase = "awaiting_selection"
      /\ task' = Saving(op, [Get(op.job) EXCEPT !.phase = "downloading", !.pick = op.rec.pick])
      /\ UNCHANGED <<flow, attempt, ids, stale>> /\ TaskFrame
  BY <1>1, <1>t DEF TakeChoice, First, Next1
<1>3. op.job \in Jobs /\ op.rec \in Record /\ attempt[op.job] = t
  BY <1>o, <1>1, <1>t
<1>5. Get(op.job) \in Record /\ Get(op.job) # NoJob
  BY <1>2, <1>3, <1>4, GetIsRecord DEF NoJob
<1>6. PICK r \in Record : /\ r = [Get(op.job) EXCEPT !.phase = "downloading", !.pick = op.rec.pick]
                          /\ r.phase = "downloading" /\ r.rev = Get(op.job).rev
                          /\ r.attempt = Get(op.job).attempt
  <2>1. [Get(op.job) EXCEPT !.phase = "downloading", !.pick = op.rec.pick] \in Record
    BY <1>3, <1>5 DEF Record, Phases
  <2> QED BY <1>5, <2>1 DEF Record
<1>7. Steady
  BY <1>2, TaskFrameIsSteady
<1>8. Keeps(op) /\ RunType'
  <2>1. ids <= ids' /\ ids' \in 0 .. MaxIds /\ stale \subseteq stale' /\ stale' \subseteq Jobs
    BY <1>2, <1>4 DEF RunType
  <2> QED BY <1>2, <1>4, <1>7, <2>1, NothingIsKept DEF Steady
<1>f. flow[t].job = op.job /\ Follows(op.job)
  <2>1. flow[t].job = op.job
    BY <1>t, <1>3, <1>4 DEF Owned
  <2>2. Running(op.job)
    BY <1>t, <1>2, <1>3 DEF Running, Current
  <2> QED BY <1>3, <1>4, <2>1, <2>2 DEF Followed
<1>p. /\ flow[t].pc = "offered"
      /\ op.job \notin stale => r.attempt = flow[t].id
  BY <1>2, <1>3, <1>6, <1>f DEF Follows, Named
<1>9. Due(op, r, 1)
  BY <1>1, <1>2, <1>o, <1>3, <1>t, <1>f, <1>p DEF Due, Steps, Ends, Begins
<1>10. Fit(op, r)
  <2>1. Offers(op, r)'
    BY <1>6 DEF Offers
  <2>2. op.job \notin stale => Writes(op, r)'
    BY <1>1, <1>2, <1>3, <1>6, <1>p DEF Writes, Begins, Ends, Others
  <2>3. Backed(r)
    BY <1>6 DEF Backed
  <2> QED BY <1>2, <1>5, <1>6, <2>1, <2>2, <2>3 DEF Fit
<1> QED BY <1>1, <1>2, <1>6, <1>7, <1>8, <1>9, <1>10, FirstIsTaken

(* A run that was aborted ends, and its job with it.                       *)
LEMMA EndIsTaken == IInv /\ TakeEnd => IInv'
<1> SUFFICES ASSUME IInv, TakeEnd PROVE IInv'
  OBVIOUS
<1>4. RunType /\ MemoryType /\ Owned
  BY DEF IInv, Types, Names
<1>1. PICK op \in Work : op = queue[1]
  BY FirstIs DEF TakeEnd, First
<1>p. PICK p \in {"cancelled", "failed"} : p = IF op.kind = "stop" THEN "cancelled" ELSE "failed"
  OBVIOUS
<1>2. /\ task = NoTask /\ queue # <<>> /\ queue' = Tail(queue) /\ op.kind \in Ends
      /\ attempt[op.job] = op.by /\ attempt' = [attempt EXCEPT ![op.job] = 0]
      /\ flow' = [flow EXCEPT ![op.by].armed = FALSE]
      /\ task' = Saving(op, [Get(op.job) EXCEPT !.phase = p])
      /\ UNCHANGED <<ids, stale>> /\ TaskFrame
  BY <1>1, <1>p DEF TakeEnd, First, Next1, Ends
<1>3. op.job \in Jobs /\ op.by \in Runs /\ op.by # 0
  BY <1>1, <1>2, FirstIs
<1>f. /\ flow[op.by].job = op.job
      /\ attempt' \in [Jobs -> 0 .. MaxIds] /\ attempt'[op.job] = 0
      /\ \A j \in Jobs : /\ j # op.job => attempt'[j] = attempt[j]
                         /\ attempt'[j] # 0 => attempt'[j] # op.by
  <2>1. flow[op.by].job = op.job
    BY <1>2, <1>3, <1>4 DEF Owned
  <2>2. /\ attempt' \in [Jobs -> 0 .. MaxIds] /\ attempt'[op.job] = 0
        /\ \A j \in Jobs : j # op.job => attempt'[j] = attempt[j]
    BY <1>2, <1>3, <1>4, Constants DEF RunType
  <2> QED BY <1>3, <1>4, <2>1, <2>2 DEF Owned
<1>5. Get(op.job) \in Record
  BY <1>3, <1>4, GetIsRecord
<1>6. PICK r \in Record : /\ r = [Get(op.job) EXCEPT !.phase = p]
                          /\ r.phase = p /\ r.rev = Get(op.job).rev
  <2>1. [Get(op.job) EXCEPT !.phase = p] \in Record
    BY <1>5 DEF Record, Phases
  <2> QED BY <1>5, <2>1 DEF Record
<1>7. Steady
  BY <1>2, TaskFrameIsSteady
<1>t. /\ flow' \in [Runs -> Flow]
      /\ \A t \in Runs : /\ flow'[t].pc = flow[t].pc /\ flow'[t].job = flow[t].job
                         /\ flow'[t].id = flow[t].id /\ flow'[t].aborted = flow[t].aborted
                         /\ flow'[t].committing = flow[t].committing
                         /\ flow[t] = Ended => flow'[t] = Ended
  <2>1. flow[op.by] \in Flow /\ flow[op.by].armed \in BOOLEAN
    BY <1>3, <1>4 DEF RunType, Flow
  <2>2. [flow[op.by] EXCEPT !.armed = FALSE] \in Flow
    BY <2>1 DEF Flow
  <2>3. flow' = [flow EXCEPT ![op.by] = [flow[op.by] EXCEPT !.armed = FALSE]]
    BY <1>2, <1>3, <1>4 DEF RunType
  <2>4. /\ \A t \in Runs : t # op.by => flow'[t] = flow[t]
        /\ flow'[op.by] = [flow[op.by] EXCEPT !.armed = FALSE]
    BY <1>3, <1>4, <2>3 DEF RunType
  <2>5. flow[op.by] # Ended
    BY <1>3, <1>f, Constants DEF Ended
  <2>6. /\ flow'[op.by].pc = flow[op.by].pc /\ flow'[op.by].job = flow[op.by].job
        /\ flow'[op.by].id = flow[op.by].id /\ flow'[op.by].aborted = flow[op.by].aborted
        /\ flow'[op.by].committing = flow[op.by].committing
    BY <2>1, <2>4 DEF Flow
  <2>7. flow' \in [Runs -> Flow]
    BY <1>3, <1>4, <2>2, <2>3 DEF RunType
  <2> QED BY <2>4, <2>5, <2>6, <2>7
<1>8. Keeps(op) /\ RunType'
  <2>1. ids <= ids' /\ ids' \in 0 .. MaxIds /\ stale \subseteq stale' /\ stale' \subseteq Jobs
        /\ stopped' \subseteq Runs
    BY <1>2, <1>4, <1>7 DEF RunType, Steady
  <2> QED BY <1>2, <1>f, <1>t, <2>1 DEF Keeps, RunType
<1>9. Due(op, r, 1)
  BY <1>1, <1>2, <1>3, <1>f DEF Due, Steps, Ends, Begins
<1>10. Fit(op, r)
  <2>1. Offers(op, r)'
    BY <1>6 DEF Offers
  <2>2. Writes(op, r)'
    BY <1>2, <1>f, <1>6 DEF Writes, Begins, Ends, Others, Active
  <2>3. Backed(r)
    BY <1>6 DEF Backed
  <2>4. op.job \notin stale => Get(op.job) # NoJob
    BY <1>2, <1>3, RunHasRecord
  <2> QED BY <1>2, <1>6, <2>1, <2>2, <2>3, <2>4 DEF Fit
<1> QED BY <1>2, <1>6, <1>7, <1>8, <1>9, <1>10, FirstIsTaken DEF Ends

(* What a stage writes.                                                    *)
StagedAs(r, q, id, to) ==
  /\ r \in Record /\ r.rev = q.rev
  /\ r.attempt = (IF to \in Renames THEN id ELSE q.attempt)
  /\ to = "verifying" => r.snap = id
  /\ to = "fallback" => r.phase = "discovering"
  /\ to = "next" => r.phase = "downloading"
  /\ to = "reoffered" => r.phase = "awaiting_selection"
  /\ to \in Failures => r.phase = Outcome[to]
  /\ to \notin {"fallback", "next", "reoffered"} \cup Failures => r.phase = to

LEMMA StagedIs ==
  ASSUME NEW t \in Runs, NEW to \in Stages, NEW q \in Record, q = Get(flow[t].job),
         NEW id \in 0 .. MaxIds, id = flow[t].id
  PROVE  StagedAs(Staged(t, to), q, id, to)
<1>0. 0 \in 0 .. MaxIds /\ 0 \in Nat /\ q.pick \in Nat /\ q.pick + 1 \in Nat
  BY Constants DEF Record
<1>p. {"verifying", "discovering", "downloading", "awaiting_selection"} \subseteq Phases
  BY DEF Phases
<1>f. Failures = {"failed", "unmatched", "conflicting", "unconfigured"}
  BY FailuresAre
<1>1. CASE to = "verifying"
  <2>1. Staged(t, to) = [q EXCEPT !.phase = to, !.snap = id]
    BY <1>1, <1>f DEF Staged
  <2>2. [q EXCEPT !.phase = to, !.snap = id] \in Record
    BY <1>1, <1>p DEF Record
  <2> QED BY <1>1, <1>f, <2>1, <2>2 DEF StagedAs, Record, Renames
<1>2. CASE to = "fallback"
  <2>1. Staged(t, to) = [q EXCEPT !.phase = "discovering"]
    BY <1>2, <1>f DEF Staged
  <2>2. [q EXCEPT !.phase = "discovering"] \in Record
    BY <1>p DEF Record
  <2> QED BY <1>2, <1>f, <2>1, <2>2 DEF StagedAs, Record, Renames
<1>3. CASE to = "next"
  <2>1. Staged(t, to) = [q EXCEPT !.phase = "downloading", !.attempt = id, !.pick = q.pick + 1,
                                  !.snap = 0]
    BY <1>3, <1>f DEF Staged
  <2>2. [q EXCEPT !.phase = "downloading", !.attempt = id, !.pick = q.pick + 1, !.snap = 0] \in Record
    BY <1>0, <1>p DEF Record
  <2> QED BY <1>3, <1>f, <2>1, <2>2 DEF StagedAs, Record, Renames
<1>4. CASE to = "reoffered"
  <2>1. Staged(t, to) = [q EXCEPT !.phase = "awaiting_selection", !.attempt = id, !.pick = 0,
                                  !.open = TRUE, !.snap = 0]
    BY <1>4, <1>f DEF Staged
  <2>2. [q EXCEPT !.phase = "awaiting_selection", !.attempt = id, !.pick = 0,
                  !.open = TRUE, !.snap = 0] \in Record
    BY <1>0, <1>p DEF Record
  <2> QED BY <1>4, <1>f, <2>1, <2>2 DEF StagedAs, Record, Renames
<1>5. CASE to \in Failures
  <2>1. to \notin {"verifying", "fallback", "next", "reoffered"}
    BY <1>5, <1>f
  <2>2. Staged(t, to) = [q EXCEPT !.phase = Outcome[to]]
    BY <1>5, <2>1 DEF Staged
  <2>3. [q EXCEPT !.phase = Outcome[to]] \in Record
    BY <1>5, FailuresAre DEF Record
  <2> QED BY <1>5, <2>1, <2>2, <2>3 DEF StagedAs, Record, Renames
<1>6. CASE to \notin {"verifying", "fallback", "next", "reoffered"} \cup Failures
  <2>1. Staged(t, to) = [q EXCEPT !.phase = to]
    BY <1>6 DEF Staged
  <2>2. to \in Phases
    BY <1>6, <1>f DEF Phases, Stages
  <2>3. [q EXCEPT !.phase = to] \in Record
    BY <2>2 DEF Record
  <2> QED BY <1>6, <2>1, <2>3 DEF StagedAs, Record, Renames
<1> QED BY <1>1, <1>2, <1>3, <1>4, <1>5, <1>6

(* A stage of the run that has the job is saved.                           *)
LEMMA StageIsTaken ==
  ASSUME IInv, TakeStage, Current(queue[1].by)
  PROVE  IInv'
<1>4. /\ RunType /\ MemoryType /\ Followed
  BY DEF IInv, Types, Course
<1>1. PICK op \in Work : op = queue[1]
  BY FirstIs DEF TakeStage, First
<1>t. PICK t \in Runs : t = op.by
  BY <1>1, FirstIs DEF TakeStage, First, Next1, Steps
<1>2. /\ task = NoTask /\ queue # <<>> /\ queue' = Tail(queue) /\ op.kind = "stage"
      /\ task' = Saving(op, Staged(t, op.to))
      /\ flow' = [flow EXCEPT ![t].armed = @ /\ ~Pauses(op.to)]
      /\ UNCHANGED <<attempt, ids, stale>> /\ TaskFrame
  BY <1>1, <1>t DEF TakeStage, First, Next1
<1>3. /\ op.job \in Jobs /\ op.to \in Stages /\ op.to # "none" /\ t # 0
      /\ flow[t].job \in {0, op.job} /\ 1 \in Waiting
  BY <1>1, <1>t, <1>2, FirstIs DEF Steps
<1>c. /\ flow[t].job = op.job /\ attempt[op.job] = t /\ ~flow[t].aborted /\ service = "up"
  BY <1>1, <1>t, <1>3 DEF Current
<1>5. PICK q \in Record : q = Get(flow[t].job) /\ q = Get(op.job)
  BY <1>3, <1>4, <1>c, GetIsRecord
<1>d. PICK id \in 0 .. MaxIds : id = flow[t].id
  BY <1>4, FlowRange
<1>6. PICK r \in Record : r = Staged(t, op.to) /\ StagedAs(r, q, id, op.to)
  <2>1. StagedAs(Staged(t, op.to), q, id, op.to)
    BY <1>3, <1>5, <1>d, StagedIs
  <2>2. Staged(t, op.to) \in Record
    BY <2>1 DEF StagedAs
  <2> QED BY <2>1, <2>2
<1>7. Steady
  BY <1>2, TaskFrameIsSteady
<1>f. /\ flow' \in [Runs -> Flow]
      /\ \A u \in Runs : /\ flow'[u].pc = flow[u].pc /\ flow'[u].job = flow[u].job
                         /\ flow'[u].id = flow[u].id /\ flow'[u].aborted = flow[u].aborted
                         /\ flow'[u].committing = flow[u].committing
                         /\ flow[u] = Ended => flow'[u] = Ended
  <2>1. PICK armed \in BOOLEAN : armed = (flow[t].armed /\ ~Pauses(op.to))
    OBVIOUS
  <2>2. flow[t] \in Flow
    BY <1>4 DEF RunType
  <2>3. [flow[t] EXCEPT !.armed = armed] \in Flow
    BY <2>2 DEF Flow
  <2>4. flow' = [flow EXCEPT ![t] = [flow[t] EXCEPT !.armed = armed]]
    BY <1>2, <1>4, <2>1 DEF RunType
  <2>5. /\ \A u \in Runs : u # t => flow'[u] = flow[u]
        /\ flow'[t] = [flow[t] EXCEPT !.armed = armed]
        /\ flow' \in [Runs -> Flow]
    BY <1>4, <2>3, <2>4 DEF RunType
  <2>6. flow[t] # Ended
    BY <1>3, <1>c, Constants DEF Ended
  <2>7. /\ flow'[t].pc = flow[t].pc /\ flow'[t].job = flow[t].job
        /\ flow'[t].id = flow[t].id /\ flow'[t].aborted = flow[t].aborted
        /\ flow'[t].committing = flow[t].committing
    BY <2>2, <2>5 DEF Flow
  <2> QED BY <2>5, <2>6, <2>7
<1>8. Keeps(op) /\ RunType'
  <2>1. ids <= ids' /\ ids' \in 0 .. MaxIds /\ stale \subseteq stale' /\ stale' \subseteq Jobs
        /\ stopped' \subseteq Runs /\ attempt' \in [Jobs -> 0 .. MaxIds]
    BY <1>2, <1>4, <1>7 DEF RunType, Steady
  <2> QED BY <1>2, <1>f, <2>1 DEF Keeps, RunType
<1>9. Due(op, r, 1)
  BY <1>1, <1>2, <1>3, <1>t, <1>c DEF Due, Steps, Ends, Begins
<1>w. Follows(op.job)
  <2>1. Running(op.job)
    BY <1>3, <1>c DEF Running
  <2> QED BY <1>3, <1>4, <2>1 DEF Followed
<1>10. Fit(op, r)
  <2>0. /\ flow'[t].id = id /\ attempt'[op.job] = t
    BY <1>2, <1>c, <1>d, <1>f
  <2>p. /\ r.phase = "awaiting_selection" <=> After(op.to) = "offered"
        /\ r.phase # "acquired"
        /\ Active(r.phase) <=> After(op.to) # "ended"
        /\ op.to = "verifying" => r.phase = "verifying"
    <3>1. CASE op.to \in {"fallback", "next", "reoffered"}
      BY <1>6, <3>1, AfterIs DEF StagedAs, Active
    <3>2. CASE op.to \in Failures
      <4>1. r.phase = Outcome[op.to] /\ op.to # "verifying"
        BY <1>6, <3>2, FailuresAre DEF StagedAs
      <4> QED BY <3>2, <4>1, AfterIs, FailuresAre DEF Active
    <3>3. CASE op.to \notin {"fallback", "next", "reoffered"} \cup Failures
      <4>1. r.phase = op.to
        BY <1>6, <3>3 DEF StagedAs
      <4> QED BY <1>3, <3>3, <4>1, AfterIs, FailuresAre DEF Stages, Active
    <3> QED BY <3>1, <3>2, <3>3
  <2>1. Offers(op, r)'
    BY <1>2, <1>t, <2>0, <2>p DEF Offers
  <2>2. ASSUME op.job \notin stale
        PROVE  Writes(op, r)' /\ q # NoJob
    <3>1. Active(q.phase)
      BY <1>5, <1>w, <2>2 DEF Follows
    <3>2. op.to \notin Renames => q.attempt = id
      BY <1>1, <1>2, <1>3, <1>5, <1>c, <1>d, <1>t, <1>w, <2>2 DEF Follows, Named
    <3>3. r.attempt = id /\ (op.to = "verifying" => r.snap = id)
      BY <1>6, <3>2 DEF StagedAs
    <3>4. OfStage(op, r)'
      BY <1>3, <1>t, <2>0, <2>p, <3>3 DEF OfStage
    <3>5. Writes(op, r)'
      BY <1>2, <3>4 DEF Writes, Begins, Ends, Others
    <3> QED BY <3>1, <3>5 DEF Active, NoJob
  <2>3. Backed(r)
    BY <2>p DEF Backed
  <2> QED BY <1>2, <1>5, <1>6, <2>1, <2>2, <2>3 DEF Fit, StagedAs
<1> QED BY <1>2, <1>6, <1>7, <1>8, <1>9, <1>10, FirstIsTaken

-----------------------------------------------------------------------------
(* What each action is of these.                                           *)

LEMMA AnswersAre ==
  ASSUME RunType, NEW t \in Runs
  PROVE  /\ Answers(flow[t].pc) # {} => flow[t].pc \in Asking
         /\ \A to \in Answers(flow[t].pc) : to \in Stages /\ to \notin Renames
<1>1. flow[t].pc \in Asking \cup {"ended", "staging", "offered"}
  BY DEF RunType, Flow
<1> QED BY <1>1, FailuresAre DEF Answers, Asking, Stages, Renames

LEMMA StageIsQueued ==
  ASSUME RunType, NEW t \in Runs, NEW to \in Stages, flow[t].job # 0
  PROVE  /\ Stage(t, to) \in Queued /\ Stage(t, to).kind = "stage"
         /\ Stage(t, to).job = flow[t].job /\ Stage(t, to).by = t /\ Stage(t, to).to = to
<1>1. flow[t].job \in Jobs /\ t \in 0 .. MaxIds
  BY FlowRange, RunsAre
<1>2. Op("stage", flow[t].job, t) \in Queued
  BY <1>1, OpIsWork DEF Steps, Others
<1>3. Stage(t, to) \in Queued
  BY <1>2 DEF Stage, Queued
<1> QED BY <1>2, <1>3 DEF Stage, Op

LEMMA FlowIsStaging ==
  ASSUME RunType, NEW t \in Runs, NEW id
  PROVE  /\ [flow EXCEPT ![t].pc = "staging", ![t].id = id] =
              [flow EXCEPT ![t] = [flow[t] EXCEPT !.pc = "staging", !.id = id]]
         /\ [flow EXCEPT ![t].pc = "staging"] =
              [flow EXCEPT ![t] = [flow[t] EXCEPT !.pc = "staging", !.id = flow[t].id]]
<1>1. [flow[t] EXCEPT !.pc = "staging", !.id = flow[t].id] = [flow[t] EXCEPT !.pc = "staging"]
  BY DEF RunType, Flow
<1> QED BY <1>1 DEF RunType

(* A run asks for a stage.                                                 *)
LEMMA RunStages ==
  ASSUME IInv, NEW t \in Runs, NEW to \in Stages, flow[t].pc \in Asking, to # "none",
         queue' = Append(queue, Stage(t, to)), RunFrame,
         \/ /\ to \notin Renames /\ flow' = [flow EXCEPT ![t].pc = "staging"] /\ ids' = ids
         \/ /\ to \in Renames /\ ids < MaxIds /\ ids' = ids + 1
            /\ flow' = [flow EXCEPT ![t].pc = "staging", ![t].id = ids + 1]
  PROVE  IInv'
<1>1. RunType /\ flow[t].job # 0
  BY DEF IInv, Types, Names, Owned, Asking
<1>2. PICK op \in Queued : /\ op = Stage(t, to) /\ op.kind = "stage" /\ op.job = flow[t].job
                           /\ op.by = t /\ op.to = to
  BY <1>1, StageIsQueued
<1>3. ids \in 0 .. MaxIds /\ ids \in Nat /\ MaxIds \in Nat
  BY <1>1, Constants DEF RunType
<1>4. CASE to \notin Renames /\ flow' = [flow EXCEPT ![t].pc = "staging"] /\ ids' = ids
  <2>1. flow[t].id \in 0 .. MaxIds
    BY <1>1, FlowRange
  <2>2. Asks(t, op, flow[t].id)
    BY <1>1, <1>2, <1>4, FlowIsStaging DEF Asks, Steps
  <2> QED BY <1>3, <1>4, <2>1, <2>2, RunAsks
<1>5. CASE /\ to \in Renames /\ ids < MaxIds /\ ids' = ids + 1
           /\ flow' = [flow EXCEPT ![t].pc = "staging", ![t].id = ids + 1]
  <2>1. PICK id \in 0 .. MaxIds : id = ids + 1
    BY <1>3, <1>5
  <2>2. Asks(t, op, id)
    BY <1>1, <1>2, <1>5, <2>1, FlowIsStaging DEF Asks, Steps
  <2> QED BY <1>5, <2>1, <2>2, RunAsks
<1> QED BY <1>4, <1>5

LEMMA NetworkActs ==
  ASSUME IInv, NEW t \in Runs, Network(t)
  PROVE  IInv'
<1>1. RunType /\ QueueType /\ Owned
  BY DEF IInv, Types, Names
<1>2. ASSUME NEW to \in Answers(flow[t].pc), Answer(t, to)
      PROVE  IInv'
  <2>1. to \in Stages /\ to \notin Renames /\ flow[t].pc \in Asking /\ to # "none"
    BY <1>1, AnswersAre DEF Stages
  <2> QED BY <1>2, <2>1, RunStages DEF Answer
<1>3. CASE Late(t)
  <2>1. flow[t].pc \in Asking
    BY <1>1, <1>3, AnswersAre DEF Late
  <2>2. QueueType' /\ Shifts(0)
    BY <1>1, <1>3, NothingShifts DEF Late
  <2>3. Drops(t, 0)
    BY <1>3, <2>1, <2>2 DEF Late, Drops
  <2> QED BY <2>2, <2>3, RunDrops
<1>4. CASE Verified(t)
  <2>1. flow[t].pc \in Asking /\ flow[t].pc = "verify"
    BY <1>4 DEF Verified, Asking
  <2>2. flow[t].job \in Jobs /\ t \in 0 .. MaxIds /\ flow[t].id \in 0 .. MaxIds
    BY <1>1, <2>1, FlowRange, RunsAre DEF Owned
  <2>3. PICK op \in Queued : /\ op = Op("commit", flow[t].job, t) /\ op.kind = "commit"
                             /\ op.job = flow[t].job /\ op.by = t
    <3>1. Op("commit", flow[t].job, t) \in Queued
      BY <2>2, OpIsWork DEF Steps, Others
    <3> QED BY <3>1 DEF Op
  <2>4. Asks(t, op, flow[t].id)
    BY <1>1, <1>4, <2>1, <2>3, FlowIsStaging DEF Asks, Steps, Verified
  <2>5. ids' \in 0 .. MaxIds
    BY <1>1, <1>4 DEF Verified, RunType
  <2> QED BY <2>2, <2>4, <2>5, RunAsks
<1>5. CASE TryNext(t)
  <2>1. flow[t].pc \in Asking /\ "next" \in Stages /\ "next" \in Renames
    BY <1>5 DEF TryNext, Asking, Stages, Renames
  <2> QED BY <1>5, <2>1, RunStages DEF TryNext
<1>6. CASE TryOpen(t)
  <2>1. flow[t].pc \in Asking /\ "fallback" \in Stages /\ "fallback" \notin Renames
    BY <1>6 DEF TryOpen, Asking, Stages, Renames
  <2> QED BY <1>6, <2>1, RunStages DEF TryOpen
<1>7. CASE Reoffer(t)
  <2>1. flow[t].pc \in Asking /\ "reoffered" \in Stages /\ "reoffered" \in Renames
    BY <1>7 DEF Reoffer, Asking, Stages, Renames
  <2> QED BY <1>7, <2>1, RunStages DEF Reoffer
<1> QED BY <1>2, <1>3, <1>4, <1>5, <1>6, <1>7 DEF Network

(* A deadline passes, or the user stops a job.                             *)
LEMMA FlowIsAborted ==
  ASSUME RunType, NEW t \in Runs
  PROVE  /\ [flow EXCEPT ![t].aborted = TRUE, ![t].armed = FALSE] =
              [flow EXCEPT ![t] = [flow[t] EXCEPT !.aborted = TRUE, !.armed = FALSE]]
         /\ [flow EXCEPT ![t].aborted = TRUE] =
              [flow EXCEPT ![t] = [flow[t] EXCEPT !.aborted = TRUE, !.armed = flow[t].armed]]
         /\ flow[t].armed \in BOOLEAN
<1>1. [flow[t] EXCEPT !.aborted = TRUE, !.armed = flow[t].armed] = [flow[t] EXCEPT !.aborted = TRUE]
  BY DEF RunType, Flow
<1> QED BY <1>1 DEF RunType, Flow

LEMMA EndIsAsked ==
  ASSUME IInv, NEW kind \in Ends, NEW j \in Jobs, NEW t \in Runs, NEW armed \in BOOLEAN,
         Loaded, attempt[j] = t, ~flow[t].committing,
         flow' = [flow EXCEPT ![t] = [flow[t] EXCEPT !.aborted = TRUE, !.armed = armed]],
         queue' = Append(queue, Op(kind, j, t)), stopped' \in {stopped, stopped \cup {t}},
         UNCHANGED <<disk, service, todo, saved, volatile, attempt, task, previews, stale, ids>>
  PROVE  IInv'
<1>1. PICK op \in Queued : /\ op = Op(kind, j, t) /\ op.kind = kind /\ op.job = j /\ op.by = t
  <2>1. Op(kind, j, t) \in Queued
    BY RunsAre, OpIsWork DEF Ends, Others
  <2> QED BY <2>1 DEF Op
<1>2. Aborts(t, j, op, armed)
  BY <1>1 DEF Aborts, disk
<1> QED BY <1>2, RunAborts

LEMMA DeadlinePasses ==
  ASSUME IInv, NEW t \in Runs, TimeOut(t)
  PROVE  IInv'
<1>1. RunType
  BY DEF IInv, Types
<1>2. flow[t].job \in Jobs /\ attempt[flow[t].job] = t /\ service = "up" /\ ~flow[t].committing
  BY <1>1, FlowRange DEF TimeOut, Current
<1>3. flow' = [flow EXCEPT ![t] = [flow[t] EXCEPT !.aborted = TRUE, !.armed = FALSE]]
  BY <1>1, FlowIsAborted DEF TimeOut
<1>4. /\ queue' = Append(queue, Op("timeout", flow[t].job, t)) /\ "timeout" \in Ends
      /\ stopped' \in {stopped, stopped \cup {t}}
      /\ UNCHANGED <<disk, service, todo, saved, volatile, attempt, task, previews, stale, ids>>
  BY DEF TimeOut, RunFrame, ghosts, Ends
<1> QED BY <1>2, <1>3, <1>4, EndIsAsked DEF Loaded

LEMMA StopIsGranted ==
  ASSUME IInv, NEW j \in Jobs, Stop(j)
  PROVE  IInv'
<1>1. RunType
  BY DEF IInv, Types
<1>2. PICK t \in Runs : t = attempt[j]
  BY <1>1, AttemptRange DEF Stop
<1>3. /\ flow' = [flow EXCEPT ![t] = [flow[t] EXCEPT !.aborted = TRUE, !.armed = flow[t].armed]]
      /\ flow[t].armed \in BOOLEAN
  BY <1>1, <1>2, FlowIsAborted DEF Stop
<1>4. /\ queue' = Append(queue, Op("stop", j, t)) /\ "stop" \in Ends
      /\ Loaded /\ ~flow[t].committing /\ stopped' \in {stopped, stopped \cup {t}}
      /\ UNCHANGED <<disk, service, todo, saved, volatile, attempt, task, previews, stale, ids>>
  BY <1>2 DEF Stop, UserFrame, Ends
<1> QED BY <1>2, <1>3, <1>4, EndIsAsked

(* The user's other requests.                                              *)
LEMMA UserAsks ==
  ASSUME IInv, NEW op \in Queued, op.kind \in Asked, op.by = 0,
         op.kind = "mark" => op.rec.phase = "acquired", service \notin {"down", "loading"},
         queue' = Append(queue, op), previews' \subseteq previews,
         UNCHANGED <<flow, stopped>>, UserFrame
  PROVE  IInv'
<1>1. Joins(op)
  BY DEF Joins, UserFrame, disk
<1> QED BY <1>1, WorkJoins

LEMMA RequestIsQueued ==
  ASSUME NEW kind \in Asked, NEW j \in Jobs
  PROVE  Op(kind, j, 0) \in Queued /\ Op(kind, j, 0).kind = kind /\ Op(kind, j, 0).by = 0
<1>1. Op(kind, j, 0) \in Queued
  BY OpIsWork, Constants DEF Asked, Begins, Others
<1> QED BY <1>1 DEF Op

LEMMA RecordIsQueued ==
  ASSUME NEW kind \in Asked, NEW j \in Jobs, NEW r \in Record
  PROVE  \E op \in Queued : /\ op = [Op(kind, j, 0) EXCEPT !.rec = r]
                            /\ op.kind = kind /\ op.by = 0 /\ op.rec = r
<1>1. [Op(kind, j, 0) EXCEPT !.rec = r] \in Queued
  BY RequestIsQueued DEF Queued
<1>2. /\ [Op(kind, j, 0) EXCEPT !.rec = r].kind = kind
      /\ [Op(kind, j, 0) EXCEPT !.rec = r].by = 0
      /\ [Op(kind, j, 0) EXCEPT !.rec = r].rec = r
  BY DEF Op
<1> QED BY <1>1, <1>2

LEMMA PickIsQueued ==
  ASSUME NEW kind \in Asked, NEW j \in Jobs, NEW c \in Nat
  PROVE  \E op \in Queued : /\ op = [Op(kind, j, 0) EXCEPT !.rec.pick = c]
                            /\ op.kind = kind /\ op.by = 0
<1>1. PICK r \in Record : r = [NoJob EXCEPT !.pick = c]
  <2>1. [NoJob EXCEPT !.pick = c] \in Record
    BY Constants DEF Record
  <2> QED BY <2>1
<1>2. [Op(kind, j, 0) EXCEPT !.rec.pick = c] = [Op(kind, j, 0) EXCEPT !.rec = r]
  BY <1>1 DEF Op
<1> QED BY <1>2, RecordIsQueued

LEMMA UserActs == IInv /\ User => IInv'
<1> SUFFICES ASSUME IInv, User PROVE IInv'
  OBVIOUS
<1>0. MemoryType /\ Marks /\ Sessions
  BY DEF IInv, Types, Files
<1>1. ASSUME NEW kind \in {"start", "fresh"}, Start(kind)
      PROVE  IInv'
  <2>1. kind \in Asked /\ kind # "mark" /\ (CHOOSE j \in Jobs : TRUE) \in Jobs
    BY Constants DEF Asked, Begins
  <2> QED BY <1>1, <2>1, RequestIsQueued, UserAsks DEF Start, Ask
<1>2. ASSUME NEW j \in Jobs, Retry(j)
      PROVE  IInv'
  <2>1. "retry" \in Asked
    BY DEF Asked, Begins
  <2> QED BY <1>2, <2>1, RequestIsQueued, UserAsks DEF Retry, Ask
<1>3. ASSUME NEW j \in Jobs, Link(j)
      PROVE  IInv'
  <2>1. "link" \in Asked
    BY DEF Asked, Begins
  <2> QED BY <1>3, <2>1, RequestIsQueued, UserAsks DEF Link, Ask, Loaded
<1>4. ASSUME NEW j \in Jobs, NEW c \in 1 .. Candidates, Pick(j, c)
      PROVE  IInv'
  <2>1. "choose" \in Asked /\ c \in Nat
    BY Constants DEF Asked, Begins
  <2>2. PICK op \in Queued : /\ op = [Op("choose", j, 0) EXCEPT !.rec.pick = c]
                             /\ op.kind = "choose" /\ op.by = 0
    BY <2>1, PickIsQueued
  <2>3. /\ service \notin {"down", "loading"} /\ queue' = Append(queue, op)
        /\ previews' \subseteq previews /\ UNCHANGED <<flow, stopped>> /\ UserFrame
    BY <1>4, <2>2 DEF Pick, Ask
  <2> QED BY <2>1, <2>2, <2>3, UserAsks
<1>5. ASSUME NEW j \in Jobs, Open(j)
      PROVE  IInv'
  <2>1. Reads
    BY <1>5 DEF Open, Reads, UserFrame, disk
  <2> QED BY <2>1, PreviewReads
<1>6. ASSUME NEW p \in previews, Shown(p)
      PROVE  IInv'
  <2>1. Reads
    BY <1>6 DEF Shown, Reads, UserFrame, disk
  <2> QED BY <2>1, PreviewReads
<1>7. ASSUME NEW p \in previews, NotShown(p)
      PROVE  IInv'
  <2>1. /\ "mark" \in Asked /\ p.job \in Jobs /\ p.rec \in Record /\ p.rec.phase = "acquired"
        /\ service \notin {"down", "loading"}
    BY <1>0 DEF Asked, MemoryType, Marks, Sessions
  <2>2. PICK op \in Queued : /\ op = [Op("mark", p.job, 0) EXCEPT !.rec = p.rec]
                             /\ op.kind = "mark" /\ op.by = 0 /\ op.rec = p.rec
    BY <2>1, RecordIsQueued
  <2>3. /\ queue' = Append(queue, op)
        /\ previews' \subseteq previews /\ UNCHANGED <<flow, stopped>> /\ UserFrame
    BY <1>7, <2>2 DEF NotShown
  <2> QED BY <2>1, <2>2, <2>3, UserAsks
<1> QED BY <1>1, <1>2, <1>3, <1>4, <1>5, <1>6, <1>7, StopIsGranted DEF User

-----------------------------------------------------------------------------
(* The plugin's last work is in the queue only when it is being closed.    *)
Closing == \A i \in Waiting : queue[i].kind = "close" => service # "up"

LEMMA ClosingStays ==
  ASSUME QueueType, Closing, UNCHANGED service,
         UNCHANGED queue \/ (queue # <<>> /\ queue' = Tail(queue))
  PROVE  Closing'
<1>1. CASE UNCHANGED queue
  BY <1>1 DEF Closing, Waiting
<1>2. CASE queue # <<>> /\ queue' = Tail(queue)
  BY <1>2, QueueShrinks DEF Closing, Waiting
<1> QED BY <1>1, <1>2

LEMMA ClosingGrows ==
  ASSUME QueueType, Closing, UNCHANGED service,
         NEW op, op.kind # "close", queue' = Append(queue, op)
  PROVE  Closing'
<1>1. queue \in Seq(Queued \cup {op})
  BY DEF QueueType
<1>2. /\ Len(queue') = Len(queue) + 1 /\ queue'[Len(queue) + 1] = op
      /\ \A i \in Waiting : queue'[i] = queue[i]
      /\ Len(queue) \in Nat
  BY <1>1 DEF Waiting
<1> QED BY <1>2 DEF Closing, Waiting

LEMMA ClosingNext == IInv /\ Closing /\ [Next]_vars => Closing'
<1> SUFFICES ASSUME IInv, Closing, [Next]_vars PROVE Closing'
  OBVIOUS
<1>0. QueueType /\ Sessions
  BY DEF IInv, Types
<1>1. CASE UNCHANGED vars
  <2>1. UNCHANGED <<service, queue>>
    BY <1>1 DEF vars, memory
  <2> QED BY <1>0, <2>1, ClosingStays
<1>2. CASE Take
  <2> USE <1>0, ClosingStays
  <2>1. CASE TakeStage
    BY <2>1 DEF TakeStage, First, TaskFrame
  <2>2. CASE TakeCommit
    BY <2>2 DEF TakeCommit, First, TaskFrame
  <2>3. CASE TakeEnd
    BY <2>3 DEF TakeEnd, First, TaskFrame
  <2>4. CASE TakeRetry
    BY <2>4 DEF TakeRetry, First, TaskFrame
  <2>5. CASE TakeChoice
    BY <2>5 DEF TakeChoice, First, TaskFrame
  <2>6. CASE TakeLink
    BY <2>6 DEF TakeLink, First, TaskFrame
  <2>7. CASE TakeMark
    BY <2>7 DEF TakeMark, First, TaskFrame
  <2>8. CASE TakeNothing
    BY <2>8 DEF TakeNothing, Skip, TaskFrame
  <2>9. CASE TakeStart
    BY <2>9 DEF TakeStart, First, Skip, TaskFrame
  <2>10. CASE CloseDone
    BY <2>10 DEF CloseDone, Closing
  <2>11. ASSUME NEW j \in Jobs, TakeBroken(j) \/ TakeNew(j) \/ TakeClose(j) PROVE Closing'
    <3>1. /\ UNCHANGED service
          /\ UNCHANGED queue \/ (queue # <<>> /\ queue' = Tail(queue))
      BY <2>11 DEF TakeBroken, TakeNew, TakeClose, First, TaskFrame
    <3> QED BY <3>1
  <2> QED BY <1>2, <2>1, <2>2, <2>3, <2>4, <2>5, <2>6, <2>7, <2>8, <2>9, <2>10, <2>11 DEF Take
<1>3. CASE KeepSnapshot \/ LoseSnapshot \/ NotSaved
  <2>1. UNCHANGED <<service, queue>>
    BY <1>3 DEF KeepSnapshot, LoseSnapshot, NotSaved, SaveFrame
  <2> QED BY <1>0, <2>1, ClosingStays
<1>4. CASE Saved
  <2>1. service' = service
    BY <1>4 DEF Saved, SaveFrame
  <2>2. Continue(task.op, task.next)
    BY <1>4 DEF Saved
  <2>3. \/ UNCHANGED queue
        \/ \E j, a : queue' = Append(queue, [Op("stage", j, a) EXCEPT !.to = "resolving"])
    BY <2>2 DEF Continue
  <2>4. \A j, a : [Op("stage", j, a) EXCEPT !.to = "resolving"].kind = "stage"
    BY DEF Op
  <2> QED BY <1>0, <2>1, <2>3, <2>4, ClosingStays, ClosingGrows
<1>5. CASE User
  <2>1. ASSUME NEW kind \in {"start", "fresh", "retry", "link"}, NEW j, Ask(Op(kind, j, 0))
        PROVE  Closing'
    <3>1. Op(kind, j, 0).kind # "close"
      BY DEF Op
    <3> QED BY <1>0, <2>1, <3>1, ClosingGrows DEF Ask, UserFrame
  <2>2. ASSUME NEW j, NEW c, Ask([Op("choose", j, 0) EXCEPT !.rec.pick = c])
        PROVE  Closing'
    <3>1. [Op("choose", j, 0) EXCEPT !.rec.pick = c].kind # "close"
      BY DEF Op
    <3> QED BY <1>0, <2>2, <3>1, ClosingGrows DEF Ask, UserFrame
  <2>3. ASSUME NEW j, Stop(j) \/ Open(j)
        PROVE  Closing'
    <3>1. \A t : Op("stop", j, t).kind # "close"
      BY DEF Op
    <3>2. CASE Stop(j)
      BY <1>0, <3>1, <3>2, ClosingGrows DEF Stop, UserFrame
    <3>3. CASE Open(j)
      BY <1>0, <3>3, ClosingStays DEF Open, UserFrame
    <3> QED BY <2>3, <3>2, <3>3
  <2>4. ASSUME NEW p, Shown(p) \/ NotShown(p)
        PROVE  Closing'
    <3>1. [Op("mark", p.job, 0) EXCEPT !.rec = p.rec].kind # "close"
      BY DEF Op
    <3>2. CASE NotShown(p)
      BY <1>0, <3>1, <3>2, ClosingGrows DEF NotShown, UserFrame
    <3>3. CASE Shown(p)
      BY <1>0, <3>3, ClosingStays DEF Shown, UserFrame
    <3> QED BY <2>4, <3>2, <3>3
  <2> QED BY <1>5, <2>1, <2>2, <2>3, <2>4 DEF User, Start, Retry, Link, Pick
<1>6. ASSUME NEW t \in Runs, Network(t)
      PROVE  Closing'
  <2>1. service' = service
    BY <1>6 DEF Network, Answer, Late, Verified, TryNext, TryOpen, Reoffer, RunFrame
  <2>2. \A to : Stage(t, to).kind = "stage"
    BY DEF Stage, Op
  <2>3. Op("commit", flow[t].job, t).kind = "commit"
    BY DEF Op
  <2>4. \/ UNCHANGED queue \/ queue' = Append(queue, Op("commit", flow[t].job, t))
        \/ \E to : queue' = Append(queue, Stage(t, to))
    BY <1>6 DEF Network, Answer, Late, Verified, TryNext, TryOpen, Reoffer
  <2>5. ASSUME NEW to, queue' = Append(queue, Stage(t, to))
        PROVE  Closing'
    <3>1. Stage(t, to).kind # "close"
      BY <2>2
    <3> QED BY <1>0, <2>1, <2>5, <3>1, ClosingGrows
  <2>6. CASE queue' = Append(queue, Op("commit", flow[t].job, t))
    <3>1. Op("commit", flow[t].job, t).kind # "close"
      BY <2>3
    <3> QED BY <1>0, <2>1, <2>6, <3>1, ClosingGrows
  <2> QED BY <1>0, <2>1, <2>4, <2>5, <2>6, ClosingStays
<1>7. ASSUME NEW t \in Runs, TimeOut(t)
      PROVE  Closing'
  <2>1. Op("timeout", flow[t].job, t).kind # "close"
    BY DEF Op
  <2> QED BY <1>0, <1>7, <2>1, ClosingGrows DEF TimeOut, RunFrame
<1>8. CASE Dispose
  BY <1>8 DEF Dispose, Closing
<1>9. CASE Crash
  BY <1>9 DEF Crash, Forgotten, Closing
<1>10. CASE Load
  BY <1>10 DEF Load, Closing
<1>11. CASE Ready
  <2>1. queue' = <<>>
    BY <1>0, <1>11 DEF Ready, Sessions
  <2> QED BY <2>1 DEF Closing, Waiting
<1>12. ASSUME NEW j \in Jobs, Recover(j)
       PROVE  Closing'
  <2>1. UNCHANGED <<service, queue>>
    BY <1>12 DEF Recover
  <2> QED BY <1>0, <2>1, ClosingStays
<1>13. ASSUME NEW s \in snapshots, Damage(s)
       PROVE  Closing'
  <2>1. UNCHANGED <<service, queue>>
    BY <1>13 DEF Damage, memory
  <2> QED BY <1>0, <2>1, ClosingStays
<1> QED BY <1>1, <1>2, <1>3, <1>4, <1>5, <1>6, <1>7, <1>8, <1>9, <1>10, <1>11, <1>12, <1>13
        DEF Next, Write

(* The work is taken out of the queue.                                     *)
LEMMA TakeActs == IInv /\ Closing /\ Take => IInv'
<1> SUFFICES ASSUME IInv, Closing, Take PROVE IInv'
  OBVIOUS
<1>0. /\ RunType /\ QueueType
  BY DEF IInv, Types
<1>1. CASE TakeStage
  <2>1. CASE Current(queue[1].by)
    BY <1>1, <2>1, StageIsTaken
  <2>2. CASE ~Current(queue[1].by)
    <3>1. PICK t \in Runs : t = queue[1].by /\ flow[t].pc = "staging" /\ queue[1].kind = "stage"
      BY <1>1, FirstIs DEF TakeStage, First, Next1, Steps
    <3>2. QueueType' /\ Shifts(1)
      BY <1>0, <1>1, FirstGoes DEF TakeStage, First
    <3>3. Drops(t, 1)
      BY <1>1, <2>2, <3>1, <3>2
         DEF TakeStage, First, Next1, Drops, Steps, RunFrame, TaskFrame, ghosts, bounds
    <3> QED BY <3>2, <3>3, RunDrops
  <2> QED BY <2>1, <2>2
<1>2. CASE TakeCommit
  <2>1. PICK t \in Runs : t = queue[1].by /\ flow[t].pc = "staging" /\ queue[1].kind = "commit"
    BY <1>2, FirstIs DEF TakeCommit, First, Next1, Steps
  <2>2. CASE Current(t)
    <3>1. PICK op \in Queued : op = queue[1]
      BY <1>2, FirstIs DEF TakeCommit, First
    <3>2. Commits(op)
      BY <1>2, <2>1, <2>2, <3>1 DEF TakeCommit, First, Next1, Commits, TaskFrame, disk
    <3> QED BY <3>2, CommitStarts
  <2>3. CASE ~Current(t)
    <3>1. QueueType' /\ Shifts(1)
      BY <1>0, <1>2, FirstGoes DEF TakeCommit, First
    <3>2. Drops(t, 1)
      BY <1>2, <2>1, <2>3, <3>1
         DEF TakeCommit, First, Next1, Drops, Steps, RunFrame, TaskFrame, ghosts, bounds
    <3> QED BY <3>1, <3>2, RunDrops
  <2> QED BY <2>2, <2>3
<1>3. CASE TakeNothing
  <2>1. queue[1].kind \in Ends => attempt[queue[1].job] # queue[1].by
    BY <1>3 DEF TakeNothing, Next1, Ends
  <2> QED BY <1>3, <2>1, WorkGoes DEF TakeNothing
<1>4. CASE TakeStart
  <2>1. queue[1].kind \notin Ends /\ queue # <<>> /\ task = NoTask
    BY <1>4 DEF TakeStart, First, Next1, Ends
  <2> QED BY <1>4, <2>1, WorkGoes DEF TakeStart
<1>5. CASE CloseDone
  <2>1. service # "up"
    BY <1>5, FirstIs DEF CloseDone, First, Next1, Closing
  <2> QED BY <1>5, <2>1, ServiceIsClosed
<1>6. ASSUME NEW j \in Jobs, TakeClose(j)
      PROVE  IInv'
  <2>1. service # "up"
    BY <1>6, FirstIs DEF TakeClose, First, Next1, Closing
  <2> QED BY <1>6, <2>1, CloseIsTaken
<1> QED BY <1>1, <1>2, <1>3, <1>4, <1>5, <1>6, EndIsTaken, RetryIsTaken, ChoiceIsTaken, LinkIsTaken,
           MarkIsTaken, BrokenIsTaken, NewIsTaken
        DEF Take

(* Every step keeps the invariant.                                         *)
LEMMA NextIInv == IInv /\ Closing /\ [Next]_vars => IInv'
<1> SUFFICES ASSUME IInv, Closing, [Next]_vars PROVE IInv'
  OBVIOUS
<1>1. CASE UNCHANGED vars
  BY <1>1, NothingHappens DEF vars, disk, memory, ghosts, Idle
<1>2. CASE KeepSnapshot
  BY <1>2, SnapshotEnds DEF KeepSnapshot, Snaps, SaveFrame, ghosts
<1>3. CASE LoseSnapshot
  <2>1. Snaps("failed")
    BY <1>3 DEF LoseSnapshot, Snaps, SaveFrame, ghosts
  <2> QED BY <2>1, SnapshotEnds
<1>4. ASSUME NEW s \in snapshots, Damage(s)
      PROVE  IInv'
  BY <1>4, NothingHappens DEF Damage, memory, ghosts, Idle
<1>5. CASE Crash
  BY <1>5, MemoryIsLost DEF Crash, Forgets
<1> QED BY <1>1, <1>2, <1>3, <1>4, <1>5, TakeActs, SaveDone, SaveFails, UserActs, NetworkActs,
           DeadlinePasses, RunsAreAborted, JournalIsRead, RecoveryIsOver, JobIsRecovered
        DEF Next, Write

LEMMA Invariant == Spec => [](IInv /\ Closing)
<1>1. Init => Closing
  BY DEF Init, Closing, Waiting
<1> QED BY <1>1, InitIInv, NextIInv, ClosingNext, PTL DEF Spec

-----------------------------------------------------------------------------
(* A stop that was granted holds: AcquisitionService.stop answers that the *)
(* job was stopped, and no snapshot of that run is ever written, because   *)
(* commitArtifact is entered by the current run alone and stop refuses a   *)
(* run that has entered it.                                                *)
THEOREM StopsHold == Spec => []StopHonoured
<1>1. IInv => StopHonoured
  BY DEF IInv, Stops
<1> QED BY <1>1, Invariant, PTL

(* What is called acquired, in memory or on the disk, names a snapshot     *)
(* that was written by the attempt it names, whatever fails or is closed   *)
(* in between (transition, commitArtifact and recover).                    *)
THEOREM AcquiredIsBacked == Spec => []AcquiredBacked
<1>1. IInv => AcquiredBacked
  <2> SUFFICES ASSUME IInv, NEW j \in Jobs \ stale, NEW r \in {Get(j)} \cup Range(journal[j]),
                      r.phase = "acquired"
               PROVE  r.snap = r.attempt /\ \E s \in snapshots : s.id = r.snap
    BY DEF AcquiredBacked
  <2>1. DiskType /\ Backing
    BY DEF IInv, Types, Files
  <2>2. CASE r = Get(j)
    BY <2>2, AcquiredIsSaved DEF Backed
  <2>3. CASE r \in Range(journal[j])
    <3>1. journal[j] \in Seq(Record)
      BY <2>1 DEF DiskType
    <3>2. PICK i \in 1 .. Len(journal[j]) : r = journal[j][i]
      BY <2>3, <3>1 DEF Range
    <3> QED BY <2>1, <3>2 DEF Backing, Backed
  <2> QED BY <2>2, <2>3
<1> QED BY <1>1, Invariant, PTL

(* A job under way has a run, and a job without one is settled: nobody     *)
(* waits for a run that is gone, and retry cannot put a second run beside  *)
(* the first (transition, stop, timeout and persist with its fallback).    *)
THEOREM RunsOrSettles == Spec => []RunnerOrSettled
<1>1. IInv => RunnerOrSettled
  <2> SUFFICES ASSUME IInv, service = "up", task = NoTask, NEW j \in Jobs \ stale
               PROVE  IF attempt[j] = 0 THEN ~Active(Get(j).phase)
                      ELSE IF flow[attempt[j]].aborted THEN Waits("stop", j) \/ Waits("timeout", j)
                           ELSE Active(Get(j).phase) /\ flow[attempt[j]].pc # "ended"
    BY DEF RunnerOrSettled
  <2>1. QueueType /\ Settled /\ EndWaits /\ Followed
    BY DEF IInv, Types, Course
  <2>2. CASE attempt[j] = 0
    <3>1. task.at # "job"
      BY DEF NoTask
    <3> QED BY <2>1, <2>2, <3>1 DEF Settled
  <2>3. CASE attempt[j] # 0 /\ flow[attempt[j]].aborted
    <3>1. PICK i \in Waiting : queue[i].kind \in Ends /\ queue[i].job = j
      BY <2>1, <2>3 DEF EndWaits
    <3>2. i \in DOMAIN queue
      BY <2>1 DEF QueueType, Waiting
    <3>3. Waits("stop", j) \/ Waits("timeout", j)
      BY <3>1, <3>2 DEF Waits, Ends
    <3> QED BY <2>3, <3>3
  <2>4. CASE attempt[j] # 0 /\ ~flow[attempt[j]].aborted
    <3>1. Follows(j)
      BY <2>1, <2>4 DEF Followed, Running
    <3> QED BY <2>4, <3>1 DEF Follows
  <2> QED BY <2>2, <2>3, <2>4
<1> QED BY <1>1, Invariant, PTL

(* The journal of a job can be read back at any time: readJob finds one    *)
(* file with the highest revision.  The save of a link is taken to         *)
(* succeed: recordLibraryLink leaves the repository as it was when its     *)
(* save fails after the marker, and the next save reuses the revision.     *)
THEOREM ReadsBack ==
  ASSUME "link" \notin CanFail
  PROVE  Spec => []HighestIsOne
<1>1. IInv => HighestIsOne
  <2> SUFFICES ASSUME IInv, NEW j \in Jobs \ stale, journal[j] # <<>>
               PROVE  Len(journal[j]) = 1
    BY DEF HighestIsOne
  <2>1. Len(journal[j]) <= 1
    BY DEF IInv, Files, Revisions, LinksSave
  <2>2. journal[j] \in Seq(Record)
    BY DEF IInv, Types, DiskType
  <2>3. Len(journal[j]) \in Nat /\ Len(journal[j]) # 0
    BY <2>2, EmptySeq
  <2>4. \A n \in Nat : n <= 1 /\ n # 0 => n = 1
    OBVIOUS
  <2> QED BY <2>1, <2>3, <2>4
<1> QED BY <1>1, Invariant, PTL
=============================================================================
