------------------------- MODULE FullTextAcquisition ------------------------
(***************************************************************************)
(* AcquisitionService: the jobs that fetch the full text of a paper, their *)
(* attempts, and the journal they are kept in.  What changes a job goes    *)
(* through one queue (serial) and is saved as a new revision; the network, *)
(* the deadlines, the stop button and the previews run beside that queue.  *)
(* A save may fail before or after its marker is on the disk, a saved file *)
(* may be damaged, the plugin may be closed or die between any two steps.  *)
(*                                                                         *)
(* One device, the production mode, and requests for the same paper.  A    *)
(* snapshot is known by the id of the attempt that made it.  Progress in   *)
(* bytes, texts and the content of the candidates are left out.            *)
(***************************************************************************)
EXTENDS Naturals, Sequences, FiniteSets, FiniteSetsExt, SequencesExt

CONSTANTS Jobs,
          Candidates,    \* how many candidates a source lists
          CanFail,       \* the saves that may fail: "job", "snapshot", "link"
          MaxIds, MaxWaiting, MaxFaults, MaxPreviews, MaxSessions \* bounds

ASSUME AcquisitionAssumption ==
  /\ Jobs # {} /\ 0 \notin Jobs       \* 0 stands for no job
  /\ Candidates \in Nat \ {0}
  /\ CanFail \subseteq {"job", "snapshot", "link"}
  /\ {MaxIds, MaxWaiting, MaxFaults, MaxPreviews, MaxSessions} \subseteq Nat

VARIABLES journal,    \* of each job the files with the highest revision whose
                      \* marker is on the disk; the others are never read
          snapshots,  \* the snapshots on the disk: their id, and the run that made them
          damaged,    \* the snapshots whose files have changed since
          service,    \* "down", "loading", "up", "closing", "closed"
          todo,       \* the jobs the recovery has still to look at
          saved,      \* repository.jobs
          volatile,   \* the jobs whose last save failed
          attempt,    \* the run each job has, 0 for none
          flow,       \* the runs, where each one is
          queue,      \* the work waiting in serial
          task,       \* the work under way
          previews,   \* the previews that have read a job
          ids,        \* the last id issued
          faults, opened, sessions,  \* what the bounds count
          stopped,    \* history: the runs whose stop was granted
          stale       \* history: the jobs that a late preview wrote over

disk   == <<journal, snapshots, damaged>>
bounds == <<faults, opened, sessions>>
ghosts == <<stopped, stale>>
memory == <<service, todo, saved, volatile, attempt, flow, queue, task, previews, ids>>
vars   == <<disk, memory, bounds, ghosts>>

Runs  == 1 .. MaxIds
NoJob == [phase |-> "none", attempt |-> 0, pick |-> 0, open |-> FALSE,
          snap |-> 0, linked |-> FALSE, rev |-> 0]
Ended == [pc |-> "ended", job |-> 0, id |-> 0, armed |-> FALSE,
          aborted |-> FALSE, committing |-> FALSE]

Op(kind, j, t) == [kind |-> kind, job |-> j, by |-> t, to |-> "none", rec |-> NoJob]
NoTask == [op |-> Op("none", 0, 0), next |-> NoJob, at |-> "none"]

Active(phase) ==
  phase \in {"queued", "resolving", "discovering", "awaiting_selection",
             "downloading", "verifying"}
Retryable(phase) == phase \in {"failed", "cancelled", "interrupted", "needs_configuration"}

Get(j) == IF volatile[j] # NoJob THEN volatile[j] ELSE saved[j]

Empty == [j \in Jobs |-> NoJob]

Init == /\ journal = [j \in Jobs |-> <<>>] /\ snapshots = {} /\ damaged = {}
        /\ service = "up" /\ todo = {} /\ saved = Empty /\ volatile = Empty
        /\ attempt = [j \in Jobs |-> 0] /\ flow = [t \in Runs |-> Ended]
        /\ queue = <<>> /\ task = NoTask /\ previews = {} /\ ids = 0
        /\ faults = 0 /\ opened = 0 /\ sessions = 1
        /\ stopped = {} /\ stale = {}

-----------------------------------------------------------------------------
(* The files.                                                              *)

(* matches, and the check of the snapshot's files: does the job's snapshot *)
(* exist, made by the attempt the job names?                               *)
Whole(r) == /\ r.snap # 0 /\ r.snap = r.attempt
            /\ \E s \in snapshots : s.id = r.snap
            /\ r.snap \notin damaged

(* readJob: the highest revision, unless two files claim it.               *)
Read(j) == IF Len(journal[j]) = 1 THEN journal[j][1] ELSE NoJob

(* write: the files of the highest revision, once one more is there.       *)
Added(files, r) ==
  CASE files = <<>> \/ files[1].rev < r.rev -> <<r>>
    [] files # <<>> /\ files[1].rev = r.rev -> Append(files, r)
    [] OTHER -> files

-----------------------------------------------------------------------------
(* The runs.                                                               *)

Current(t) == /\ service = "up" /\ flow[t].job # 0
              /\ attempt[flow[t].job] = t /\ ~flow[t].aborted

Stage(t, to)   == [Op("stage", flow[t].job, t) EXCEPT !.to = to]
Waits(kind, j) == \E i \in DOMAIN queue : queue[i].kind = kind /\ queue[i].job = j

(* fail: the error that ends a run says which phase the job ends in.       *)
Outcome  == [failed |-> "failed", unmatched |-> "no_match", conflicting |-> "conflict",
             unconfigured |-> "needs_configuration"]
Failures == DOMAIN Outcome

(* What a stage writes over the job as it finds it.                        *)
Staged(t, to) ==
  LET r == Get(flow[t].job)
  IN CASE to = "verifying" -> [r EXCEPT !.phase = to, !.snap = flow[t].id]
       [] to = "fallback"  -> [r EXCEPT !.phase = "discovering"]
       [] to = "next" ->
            [r EXCEPT !.phase = "downloading", !.attempt = flow[t].id,
                      !.pick = @ + 1, !.snap = 0]
       [] to = "reoffered" ->
            [r EXCEPT !.phase = "awaiting_selection", !.attempt = flow[t].id,
                      !.pick = 0, !.open = TRUE, !.snap = 0]
       [] to \in Failures -> [r EXCEPT !.phase = Outcome[to]]
       [] OTHER -> [r EXCEPT !.phase = to]

(* Where the run goes on once its stage is saved.                          *)
After(to) ==
  CASE to = "resolving" -> "resolve"
    [] to = "discovering" -> "discover"
    [] to \in {"awaiting_selection", "reoffered"} -> "offered"
    [] to = "next" -> "download"
    [] to = "fallback" -> "fallback"
    [] to = "verifying" -> "verify"
    [] to \in {"no_match", "conflict"} \cup Failures -> "ended"

(* Mutant: the timer is also stopped while a file is checked.              *)
PausesToVerify(to) ==
  to \in {"awaiting_selection", "reoffered", "no_match", "conflict", "verifying"} \cup Failures

(* pause: the stages that stop the timer.                                  *)
Pauses(to) == to \in {"awaiting_selection", "reoffered", "no_match", "conflict"} \cup Failures

(* The run does nothing more; it may still be the one that has the job.    *)
Over(t) == IF attempt[flow[t].job] = t THEN [flow EXCEPT ![t].pc = "ended"]
                                       ELSE [flow EXCEPT ![t] = Ended]

RunFrame == UNCHANGED <<disk, service, todo, saved, volatile, attempt, task, previews, bounds, ghosts>>

(* The backend answers a run.  When the run is no longer current, a file   *)
(* that passed its checks goes on to its commit; any other answer queues a *)
(* stage that changes nothing, and is dropped here.                        *)
Answers(pc) ==
  CASE pc = "resolve"  -> {"discovering"} \cup Failures
    [] pc = "discover" -> {"awaiting_selection", "no_match"} \cup Failures
    [] pc = "download" -> {"verifying"} \cup Failures
    [] pc = "verify"   -> {"conflict"} \cup Failures
    [] pc = "fallback" -> Failures
    [] OTHER -> {}

Answer(t, to) ==
  /\ to \in Answers(flow[t].pc) /\ Current(t)
  /\ flow' = [flow EXCEPT ![t].pc = "staging"]
  /\ queue' = Append(queue, Stage(t, to))
  /\ UNCHANGED ids /\ RunFrame

Late(t) == /\ Answers(flow[t].pc) # {} /\ ~Current(t)
           /\ flow' = Over(t) /\ UNCHANGED <<queue, ids>> /\ RunFrame

(* The file passed its checks: the snapshot can be committed.              *)
Verified(t) ==
  /\ flow[t].pc = "verify"
  /\ flow' = [flow EXCEPT ![t].pc = "staging"]
  /\ queue' = Append(queue, Op("commit", flow[t].job, t))
  /\ UNCHANGED ids /\ RunFrame

(* A source failed: the next candidate, under an attempt id of its own.    *)
TryNext(t) ==
  /\ flow[t].pc \in {"download", "verify"} /\ Current(t)
  /\ Get(flow[t].job).pick < Candidates
  /\ ids < MaxIds /\ ids' = ids + 1
  /\ flow' = [flow EXCEPT ![t].pc = "staging", ![t].id = ids + 1]
  /\ queue' = Append(queue, Stage(t, "next"))
  /\ RunFrame

(* No candidate is left: ask the open sources, once.                       *)
TryOpen(t) ==
  /\ flow[t].pc \in {"download", "verify"} /\ Current(t)
  /\ Get(flow[t].job).pick >= Candidates /\ ~Get(flow[t].job).open
  /\ flow' = [flow EXCEPT ![t].pc = "staging"]
  /\ queue' = Append(queue, Stage(t, "fallback"))
  /\ UNCHANGED ids /\ RunFrame

Reoffer(t) ==
  /\ flow[t].pc = "fallback"
  /\ ids < MaxIds /\ ids' = ids + 1
  /\ flow' = [flow EXCEPT ![t].pc = "staging", ![t].id = ids + 1]
  /\ queue' = Append(queue, Stage(t, "reoffered"))
  /\ RunFrame

(* The deadline of a run passes.                                           *)
TimeOut(t) ==
  /\ Current(t) /\ flow[t].armed /\ ~flow[t].committing
  /\ flow' = [flow EXCEPT ![t].aborted = TRUE, ![t].armed = FALSE]
  /\ queue' = Append(queue, Op("timeout", flow[t].job, t))
  /\ UNCHANGED ids /\ RunFrame

-----------------------------------------------------------------------------
(* The user.                                                               *)

UserFrame == UNCHANGED <<disk, service, todo, saved, volatile, attempt, task, ids, faults, sessions, stale>>

Ask(op) == /\ Len(queue) < MaxWaiting /\ queue' = Append(queue, op)
           /\ UNCHANGED <<flow, previews, opened, stopped>> /\ UserFrame

(* start and refreshJats; one request at a time is enough, the second one  *)
(* finds what the first has left.                                          *)
Start(kind) == /\ service = "up" /\ kind \in {"start", "fresh"}
               /\ ~\E i \in DOMAIN queue : queue[i].kind \in {"start", "fresh"}
               /\ kind = "fresh" => \E j \in Jobs : Get(j).phase = "acquired"
               /\ Ask(Op(kind, CHOOSE j \in Jobs : TRUE, 0))

Retry(j) == /\ service = "up" /\ Retryable(Get(j).phase) /\ ~Waits("retry", j)
            /\ Ask(Op("retry", j, 0))

Pick(j, c) == /\ service = "up" /\ Get(j).phase = "awaiting_selection" /\ ~Waits("choose", j)
              /\ Ask([Op("choose", j, 0) EXCEPT !.rec.pick = c])

(* linkIntake, stop and preview do not ask whether dispose was called.     *)
Loaded == service \in {"up", "closing", "closed"}

Link(j) == /\ Loaded
           /\ Get(j).phase = "acquired" /\ ~Get(j).linked /\ ~Waits("link", j)
           /\ Ask(Op("link", j, 0))

(* Granted when the run is not committing; the work follows in the queue.  *)
Stop(j) ==
  LET t == attempt[j] IN
  /\ Loaded /\ t # 0 /\ Active(Get(j).phase) /\ ~flow[t].committing /\ ~Waits("stop", j)
  /\ flow' = [flow EXCEPT ![t].aborted = TRUE]
  /\ queue' = Append(queue, Op("stop", j, t))
  /\ stopped' = stopped \cup {t}
  /\ UNCHANGED <<previews, opened>> /\ UserFrame

(* A preview keeps the job it has read while it reads the files.           *)
Open(j) == /\ Loaded /\ Get(j).phase = "acquired" /\ opened < MaxPreviews
           /\ previews' = previews \cup {[job |-> j, rec |-> Get(j)]}
           /\ opened' = opened + 1
           /\ UNCHANGED <<flow, queue, stopped>> /\ UserFrame

Shown(p) == /\ Whole(p.rec) /\ previews' = previews \ {p}
            /\ UNCHANGED <<flow, queue, opened, stopped>> /\ UserFrame

NotShown(p) ==
  /\ ~Whole(p.rec) /\ previews' = previews \ {p}
  /\ queue' = Append(queue, [Op("mark", p.job, 0) EXCEPT !.rec = p.rec])
  /\ UNCHANGED <<flow, opened, stopped>> /\ UserFrame

-----------------------------------------------------------------------------
(* The queue: one piece of work at a time, each until its save has ended.  *)

TaskFrame == UNCHANGED <<disk, service, todo, saved, volatile, previews, bounds, stopped>>
Next1 == queue[1]
First(kinds) == task = NoTask /\ queue # <<>> /\ Next1.kind \in kinds

(* Mutant: above the revision in the repository only.                      *)
RevisedSaved(r, j) == [r EXCEPT !.rev = saved[j].rev + 1]

(* persist: above the revision in the repository and above its own.        *)
Revised(r, j) == [r EXCEPT !.rev = Max({r.rev, saved[j].rev}) + 1]
Saving(op, r) == [op |-> op, next |-> Revised(r, op.job), at |-> "job"]

Skip == /\ queue' = Tail(queue) /\ UNCHANGED <<flow, attempt, task, ids, stale>> /\ TaskFrame

(* stage: a run that is no longer current changes nothing.                 *)
TakeStage ==
  LET o == Next1 IN
  /\ First({"stage"}) /\ queue' = Tail(queue)
  /\ IF Current(o.by)
     THEN /\ task' = Saving(o, Staged(o.by, o.to))
          /\ flow' = [flow EXCEPT ![o.by].armed = @ /\ ~Pauses(o.to)]
     ELSE task' = NoTask /\ flow' = Over(o.by)
  /\ UNCHANGED <<attempt, ids, stale>> /\ TaskFrame

(* Mutant: no last check.                                                  *)
TakeCommitUnchecked ==
  /\ First({"commit"}) /\ queue' = Tail(queue)
  /\ task' = [op |-> Next1, next |-> Get(Next1.job), at |-> "snapshot"]
  /\ flow' = [flow EXCEPT ![Next1.by].committing = TRUE, ![Next1.by].armed = FALSE]
  /\ UNCHANGED <<attempt, ids, stale>> /\ TaskFrame

(* The last check before the snapshot: from here on the run is committing. *)
TakeCommit ==
  LET o == Next1 IN
  /\ First({"commit"}) /\ queue' = Tail(queue)
  /\ IF Current(o.by)
     THEN /\ task' = [op |-> o, next |-> Get(o.job), at |-> "snapshot"]
          /\ flow' = [flow EXCEPT ![o.by].committing = TRUE, ![o.by].armed = FALSE]
     ELSE task' = NoTask /\ flow' = Over(o.by)
  /\ UNCHANGED <<attempt, ids, stale>> /\ TaskFrame

(* A stop or a deadline, unless the run has ended in the meantime.         *)
TakeEnd ==
  LET o == Next1 IN
  /\ First({"stop", "timeout"}) /\ attempt[o.job] = o.by
  /\ queue' = Tail(queue)
  /\ attempt' = [attempt EXCEPT ![o.job] = 0]
  /\ flow' = [flow EXCEPT ![o.by].armed = FALSE]
  /\ task' = Saving(o, [Get(o.job) EXCEPT
                          !.phase = IF o.kind = "stop" THEN "cancelled" ELSE "failed"])
  /\ UNCHANGED <<ids, stale>> /\ TaskFrame

TakeRetry ==
  LET o == Next1 IN
  /\ First({"retry"}) /\ service = "up" /\ Retryable(Get(o.job).phase)
  /\ queue' = Tail(queue)
  /\ ids < MaxIds /\ ids' = ids + 1
  /\ task' = Saving(o, [Get(o.job) EXCEPT !.phase = "queued", !.attempt = ids + 1, !.pick = 0,
                                          !.open = FALSE, !.snap = 0])
  /\ UNCHANGED <<flow, attempt, stale>> /\ TaskFrame

TakeChoice ==
  LET o == Next1  t == attempt[o.job] IN
  /\ First({"choose"}) /\ t # 0 /\ Current(t) /\ Get(o.job).phase = "awaiting_selection"
  /\ queue' = Tail(queue)
  /\ task' = Saving([o EXCEPT !.by = t],
                    [Get(o.job) EXCEPT !.phase = "downloading", !.pick = o.rec.pick])
  /\ UNCHANGED <<flow, attempt, ids, stale>> /\ TaskFrame

TakeLink ==
  LET o == Next1 IN
  /\ First({"link"}) /\ Get(o.job).phase = "acquired" /\ ~Get(o.job).linked
  /\ queue' = Tail(queue)
  /\ task' = Saving(o, [Get(o.job) EXCEPT !.linked = TRUE])
  /\ UNCHANGED <<flow, attempt, ids, stale>> /\ TaskFrame

(* The preview writes the job as it was when the preview read it.          *)
TakeMark ==
  LET o == Next1 IN
  /\ First({"mark"}) /\ queue' = Tail(queue)
  /\ task' = Saving(o, [o.rec EXCEPT !.phase = "interrupted"])
  /\ stale' = IF Get(o.job) = o.rec THEN stale ELSE stale \cup {o.job}
  /\ UNCHANGED <<flow, attempt, ids>> /\ TaskFrame

(* What is asked for no longer holds when its turn comes.                  *)
TakeNothing ==
  /\ task = NoTask /\ queue # <<>>
  /\ LET o == Next1 IN
       \/ o.kind \in {"stop", "timeout"} /\ attempt[o.job] # o.by
       \/ o.kind = "retry" /\ ~(service = "up" /\ Retryable(Get(o.job).phase))
       \/ o.kind = "choose" /\ ~(/\ attempt[o.job] # 0 /\ Current(attempt[o.job])
                                 /\ Get(o.job).phase = "awaiting_selection")
       \/ o.kind = "link" /\ (Get(o.job).phase # "acquired" \/ Get(o.job).linked)
       \/ o.kind \in {"start", "fresh"} /\ service # "up"
       \/ o.kind \in {"retry", "start", "fresh"} /\ ids = MaxIds     \* the bounds of the
       \/ /\ o.kind \in {"start", "fresh"}                          \* model are reached
          /\ \A j \in Jobs : Get(j) # NoJob \/ journal[j] # <<>>
  /\ Skip

(* startRequest.  A job under way is joined, a whole copy is returned; a   *)
(* broken one is marked, and the request looks again; else a job is made.  *)
Found(kind) == \/ \E j \in Jobs : Active(Get(j).phase)
               \/ kind = "start" /\ \E j \in Jobs : Get(j).phase = "acquired" /\ Whole(Get(j))

TakeStart ==
  LET o == Next1 IN
  /\ First({"start", "fresh"}) /\ service = "up" /\ Found(o.kind)
  /\ Skip

TakeBroken(j) ==
  LET o == Next1 IN
  /\ First({"start"}) /\ service = "up" /\ ~Found(o.kind)
  /\ Get(j).phase = "acquired"
  /\ task' = Saving(Op("broken", j, 0), [Get(j) EXCEPT !.phase = "interrupted"])
  /\ UNCHANGED <<queue, flow, attempt, ids, stale>> /\ TaskFrame

TakeNew(j) ==
  LET o == Next1 IN
  /\ First({"start", "fresh"}) /\ service = "up" /\ ~Found(o.kind)
  /\ o.kind = "start" => \A i \in Jobs : Get(i).phase # "acquired"
  /\ Get(j) = NoJob /\ journal[j] = <<>>
  /\ ids < MaxIds /\ ids' = ids + 1
  /\ queue' = Tail(queue)
  /\ task' = Saving([o EXCEPT !.job = j], [NoJob EXCEPT !.phase = "queued", !.attempt = ids + 1])
  /\ UNCHANGED <<flow, attempt, stale>> /\ TaskFrame

-----------------------------------------------------------------------------
(* The saves.                                                              *)

SaveFrame == UNCHANGED <<service, todo, previews, opened, sessions, ghosts>>

(* Writing a file and its marker is one step; when it fails, or the plugin *)
(* dies, the marker is on the disk or it is not.                           *)
WithJob == [journal EXCEPT ![task.op.job] = Added(@, task.next)]
WithSnapshot == snapshots \cup {[id |-> flow[task.op.by].id, by |-> task.op.by]}

(* The snapshot's marker is on the disk: the job is saved as acquired.     *)
KeepSnapshot ==
  /\ task.at = "snapshot"
  /\ snapshots' = WithSnapshot
  /\ task' = Saving(task.op, [task.next EXCEPT !.phase = "acquired"])
  /\ UNCHANGED <<journal, damaged, saved, volatile, attempt, flow, queue, ids, faults>> /\ SaveFrame

(* Or it is not, or nobody is told that it is.                             *)
LoseSnapshot ==
  /\ task.at = "snapshot" /\ "snapshot" \in CanFail /\ faults + Cardinality(damaged) < MaxFaults
  /\ faults' = faults + 1
  /\ snapshots' \in {snapshots, WithSnapshot}
  /\ task' = Saving(task.op, [task.next EXCEPT !.phase = "failed"])
  /\ UNCHANGED <<journal, damaged, saved, volatile, attempt, flow, queue, ids>> /\ SaveFrame

(* release: the run no longer has the job.                                 *)
Released(f, t) == [f EXCEPT ![t] = Ended]

(* launch: the run's first stage joins the queue.                          *)
Launched(t, j) == [flow EXCEPT ![t] = [Ended EXCEPT !.pc = "staging", !.job = j, !.id = t,
                                                    !.armed = TRUE]]

(* What follows a save that succeeded, by what was saved.                  *)
Continue(op, r) ==
  LET j == op.job  t == op.by IN
  CASE op.kind \in {"start", "fresh", "retry"} ->
         /\ attempt' = [attempt EXCEPT ![j] = r.attempt]
         /\ flow' = Launched(r.attempt, j)
         /\ queue' = Append(queue, [Op("stage", j, r.attempt) EXCEPT !.to = "resolving"])
    [] op.kind = "choose" ->
         /\ flow' = [flow EXCEPT ![t].pc = "download", ![t].armed = TRUE]
         /\ UNCHANGED <<attempt, queue>>
    [] op.kind = "stage" /\ After(op.to) = "ended" ->
         /\ attempt' = IF attempt[j] = t /\ ~(op.to \in Failures /\ flow[t].aborted)
                       THEN [attempt EXCEPT ![j] = 0] ELSE attempt
         /\ flow' = IF attempt'[j] = t THEN [flow EXCEPT ![t].pc = "ended"] ELSE Released(flow, t)
         /\ UNCHANGED queue
    [] op.kind = "stage" /\ After(op.to) # "ended" ->
         /\ flow' = [flow EXCEPT ![t].pc = After(op.to)]
         /\ UNCHANGED <<attempt, queue>>
    [] op.kind = "commit" ->
         /\ attempt' = [attempt EXCEPT ![j] = 0]
         /\ flow' = Released(flow, t)
         /\ UNCHANGED queue
    [] OTHER -> UNCHANGED <<attempt, flow, queue>>

Saved ==
  LET j == task.op.job IN
  /\ task.at = "job" /\ task' = NoTask
  /\ journal' = WithJob
  /\ saved' = [saved EXCEPT ![j] = task.next]
  /\ volatile' = [volatile EXCEPT ![j] = NoJob]
  /\ Continue(task.op, task.next)
  /\ UNCHANGED <<snapshots, damaged, ids, faults>> /\ SaveFrame

(* Mutant: the run is aborted and keeps the job.                           *)
NotSavedKept ==
  LET j == task.op.job  t == attempt[j] IN
  /\ task.at = "job" /\ faults + Cardinality(damaged) < MaxFaults /\ faults' = faults + 1
  /\ "job" \in CanFail /\ task' = NoTask
  /\ journal' \in {journal, WithJob}
  /\ volatile' = [volatile EXCEPT ![j] = [task.next EXCEPT !.phase = "failed"]]
  /\ flow' = IF t # 0 THEN [flow EXCEPT ![t].aborted = TRUE, ![t].armed = FALSE] ELSE flow
  /\ UNCHANGED <<snapshots, damaged, saved, attempt, queue, ids>> /\ SaveFrame

(* A save that failed, its marker on the disk or not.  A job is shown as   *)
(* failed and its run is aborted; a new job is not kept, a link is not     *)
(* made.                                                                   *)
NotSaved ==
  LET j == task.op.job  t == attempt[j] IN
  /\ task.at = "job" /\ faults + Cardinality(damaged) < MaxFaults /\ faults' = faults + 1
  /\ (IF task.op.kind = "link" THEN "link" ELSE "job") \in CanFail
  /\ task' = NoTask
  /\ journal' \in {journal, WithJob}
  /\ IF task.op.kind \in {"start", "fresh", "link"}
     THEN UNCHANGED <<volatile, attempt, flow>>
     ELSE /\ volatile' = [volatile EXCEPT ![j] = [task.next EXCEPT !.phase = "failed"]]
          /\ attempt' = [attempt EXCEPT ![j] = 0]
          /\ flow' = IF t # 0 THEN [flow EXCEPT ![t].aborted = TRUE, ![t].armed = FALSE,
                                                ![t].pc = IF t = task.op.by THEN "ended" ELSE @]
                              ELSE flow
  /\ UNCHANGED <<snapshots, damaged, saved, queue, ids>> /\ SaveFrame

-----------------------------------------------------------------------------
(* The sessions.                                                           *)

Damage(s) == /\ s \in snapshots /\ s.id \notin damaged /\ faults + Cardinality(damaged) < MaxFaults
             /\ damaged' = damaged \cup {s.id}
             /\ UNCHANGED <<journal, snapshots, memory, bounds, ghosts>>

(* dispose: every run is aborted; when its turn comes in the queue, what   *)
(* is still active is saved as interrupted and no run has a job any more.  *)
(* What is asked for later, the mark of a late preview or a link, has its  *)
(* turn all the same, until the next session begins without it.            *)
Dispose ==
  /\ service = "up" /\ service' = "closing"
  /\ flow' = [t \in Runs |-> IF \E j \in Jobs : attempt[j] = t
                             THEN [flow[t] EXCEPT !.aborted = TRUE, !.armed = FALSE] ELSE flow[t]]
  /\ queue' = Append(queue, Op("close", CHOOSE j \in Jobs : TRUE, 0))
  /\ UNCHANGED <<disk, todo, saved, volatile, attempt, task, previews, ids, bounds, ghosts>>

TakeClose(j) ==
  /\ First({"close"}) /\ attempt[j] # 0 /\ Active(Get(j).phase)
  /\ task' = Saving(Op("closed", j, 0), [Get(j) EXCEPT !.phase = "interrupted"])
  /\ UNCHANGED <<queue, flow, attempt, ids, stale>> /\ TaskFrame

Forgotten == /\ service' = "down" /\ todo' = {} /\ saved' = Empty /\ volatile' = Empty
             /\ attempt' = [j \in Jobs |-> 0] /\ flow' = [t \in Runs |-> Ended]
             /\ queue' = <<>> /\ task' = NoTask /\ previews' = {}
             /\ UNCHANGED <<damaged, ids, bounds, ghosts>>

CloseDone == /\ First({"close"}) /\ \A j \in Jobs : attempt[j] # 0 => ~Active(Get(j).phase)
             /\ service' = "closed" /\ queue' = Tail(queue)
             /\ attempt' = [j \in Jobs |-> 0]
             /\ UNCHANGED <<disk, todo, saved, volatile, flow, task, previews, ids, bounds, ghosts>>

Crash == /\ service # "down" /\ sessions < MaxSessions /\ Forgotten
         /\ \/ UNCHANGED <<journal, snapshots>>
            \/ task.at = "job" /\ journal' = WithJob /\ UNCHANGED snapshots
            \/ task.at = "snapshot" /\ snapshots' = WithSnapshot /\ UNCHANGED journal

Load == /\ service = "down" /\ sessions < MaxSessions /\ sessions' = sessions + 1
        /\ service' = "loading"
        /\ saved' = [j \in Jobs |-> Read(j)]
        /\ todo' = {j \in Jobs : Read(j) # NoJob}
        /\ UNCHANGED <<disk, volatile, attempt, flow, queue, task, previews, ids, faults, opened, ghosts>>

(* Mutant: the snapshot is not looked for.                                 *)
RecoveredByName(r) ==
  IF r.phase \in {"verifying", "acquired"} /\ r.snap # 0 THEN "acquired"
  ELSE IF Active(r.phase) \/ r.phase = "acquired" THEN "interrupted" ELSE r.phase

(* recover: a job whose snapshot is whole is acquired, any other job that  *)
(* was under way, or called acquired, is interrupted.                      *)
Recovered(r) ==
  LET complete == r.phase \in {"verifying", "acquired"} /\ Whole(r)
  IN IF complete THEN "acquired"
     ELSE IF Active(r.phase) \/ r.phase = "acquired" THEN "interrupted" ELSE r.phase

Recover(j) ==
  /\ service = "loading" /\ task = NoTask /\ j \in todo /\ todo' = todo \ {j}
  /\ task' = IF Recovered(saved[j]) = saved[j].phase THEN NoTask
             ELSE Saving(Op("recover", j, 0), [saved[j] EXCEPT !.phase = Recovered(saved[j])])
  /\ UNCHANGED <<disk, service, saved, volatile, attempt, flow, queue, previews, ids, bounds, ghosts>>

Ready == /\ service = "loading" /\ task = NoTask /\ todo = {} /\ service' = "up"
         /\ UNCHANGED <<disk, todo, saved, volatile, attempt, flow, queue, task, previews, ids, bounds, ghosts>>

-----------------------------------------------------------------------------
Take == \/ TakeStage \/ TakeCommit \/ TakeEnd \/ TakeRetry \/ TakeChoice \/ TakeLink
        \/ TakeMark \/ TakeNothing \/ TakeStart \/ CloseDone
        \/ \E j \in Jobs : TakeBroken(j) \/ TakeNew(j) \/ TakeClose(j)

Write == KeepSnapshot \/ Saved

Network(t) == \/ \E to \in Answers(flow[t].pc) : Answer(t, to)
              \/ Late(t) \/ Verified(t) \/ TryNext(t) \/ TryOpen(t) \/ Reoffer(t)

User == \/ \E k \in {"start", "fresh"} : Start(k)
        \/ \E j \in Jobs : \/ Retry(j) \/ Link(j) \/ Stop(j) \/ Open(j)
                           \/ \E c \in 1 .. Candidates : Pick(j, c)
        \/ \E p \in previews : Shown(p) \/ NotShown(p)

Next == \/ Take \/ Write \/ User
        \/ \E t \in Runs : Network(t) \/ TimeOut(t)
        \/ LoseSnapshot \/ NotSaved
        \/ \E s \in snapshots : Damage(s)
        \/ Dispose \/ Crash \/ Load \/ Ready
        \/ \E j \in Jobs : Recover(j)

Spec == Init /\ [][Next]_vars

(* The queue goes on and a write ends; deadlines pass.  Neither the        *)
(* network nor the user owes anything.                                     *)
FairSpec == /\ Spec
            /\ WF_vars(Take) /\ WF_vars(Write)
            /\ \A t \in Runs : WF_vars(TimeOut(t))

-----------------------------------------------------------------------------
(* Types of the variables that persist and of those that decide.           *)
Records == [phase : {"none", "queued", "resolving", "discovering", "awaiting_selection",
                     "downloading", "verifying", "acquired", "failed", "cancelled",
                     "interrupted", "no_match", "conflict", "needs_configuration"},
            attempt : 0 .. MaxIds, pick : 0 .. Candidates, open : BOOLEAN,
            snap : 0 .. MaxIds, linked : BOOLEAN, rev : Nat]

TypeOK == /\ \A j \in Jobs : journal[j] \in Seq(Records)
          /\ snapshots \subseteq [id : Runs, by : Runs] /\ damaged \subseteq Runs
          /\ service \in {"down", "loading", "up", "closing", "closed"} /\ todo \subseteq Jobs
          /\ saved \in [Jobs -> Records] /\ volatile \in [Jobs -> Records]
          /\ attempt \in [Jobs -> 0 .. MaxIds] /\ ids \in 0 .. MaxIds
          /\ stopped \subseteq Runs /\ stale \subseteq Jobs

(* A stop that was granted holds (stop and the commit, service.ts:130 and  *)
(* 188): no run leaves a snapshot behind after its stop, whatever the      *)
(* network, a deadline or a crash do in between.                           *)
StopHonoured == \A s \in snapshots : s.by \notin stopped

(* What is shown or stored as acquired has its snapshot, made by the very  *)
(* attempt the job names; a job that a late preview wrote over is apart.   *)
AcquiredBacked ==
  \A j \in Jobs \ stale : \A r \in {Get(j)} \cup Range(journal[j]) :
    r.phase = "acquired" => r.snap = r.attempt /\ \E s \in snapshots : s.id = r.snap

(* Between two pieces of work a job is under way exactly if a run has it:  *)
(* no job waits for a run that is gone, and none can be retried while a    *)
(* run still has it.  A run that was aborted has its end in the queue.     *)
RunnerOrSettled ==
  service = "up" /\ task = NoTask =>
    \A j \in Jobs \ stale :
      LET t == attempt[j]
      IN IF t = 0 THEN ~Active(Get(j).phase)
         ELSE IF flow[t].aborted THEN Waits("stop", j) \/ Waits("timeout", j)
              ELSE Active(Get(j).phase) /\ flow[t].pc # "ended"

(* A journal can be read back at any time: one file has the highest        *)
(* revision of a job (readJob throws if two have it).  A job that a late   *)
(* preview wrote over is apart here, too, and the saves of links must not  *)
(* fail: linkIntake counts up from the revision it finds, and a link that  *)
(* failed after its marker has used it.                                    *)
HighestIsOne == \A j \in Jobs \ stale : journal[j] # <<>> => Len(journal[j]) = 1

(* "A late event of an old attempt cannot advance a new one" (the design,  *)
(* section 8.1): the journal never goes back to an earlier attempt.        *)
AttemptsAdvance ==
  [][\A j \in Jobs : \A r \in Range(journal'[j]) : \A q \in Range(journal[j]) : q.attempt <= r.attempt]_journal

(* Whatever the network does, a job that waits for nobody's choice leaves  *)
(* its phase: the deadline ends it if nothing else does.                   *)
Underway(j) == service = "up" /\ Active(Get(j).phase) /\ Get(j).phase # "awaiting_selection"
Finishes == \A j \in Jobs : Underway(j) ~> ~Underway(j)
=============================================================================
