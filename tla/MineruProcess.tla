---------------------------- MODULE MineruProcess ---------------------------
(***************************************************************************)
(* One command run by runMineruProcessCommand: the process it spawns, the  *)
(* descendants of that process, the events that reach the plugin, and the  *)
(* two coroutines that may settle the command - the one that terminates    *)
(* the tree (abort, timeout, late error) and the one that follows a close. *)
(* Both await, so both may be under way at once and any event may arrive   *)
(* between two of their steps.                                             *)
(*                                                                         *)
(* Windows is the production path there: the command runs in a job object  *)
(* whose wrapper is the direct child.  Elsewhere the child leads a process *)
(* group of its own.                                                       *)
(***************************************************************************)
EXTENDS Integers

CONSTANT MaxKids     \* descendants ever forked (a bound of the model)

VARIABLES platform,  \* "win32" or "posix"; never changes
          leader,    \* the direct child
          kids,      \* its live descendants
          forked,    \* descendants forked so far
          held,      \* do descendants keep the child's stdio open?
          killed,    \* has a signal been sent that cannot be ignored?
          aborted,   \* request.signal.aborted
          timer,     \* is the timeout armed?
          spawnObserved, closeObserved, closeHandled, terminating,
          reason,    \* what terminateTree was called for
          tpc,       \* where the coroutine of terminateTree is
          tok,       \* its terminationCommandSucceeded
          cpc,       \* where the coroutine started by "close" is
          outcome,   \* how the promise was settled
          stopped    \* ghost: a stop was under way before the child closed

vars == <<platform, leader, kids, forked, held, killed, aborted, timer, spawnObserved,
          closeObserved, closeHandled, terminating, reason, tpc, tok, cpc,
          outcome, stopped>>

tree   == <<platform, leader, kids, forked, held>>
events == <<aborted, spawnObserved, closeObserved, closeHandled, stopped>>

Stops     == {"timeout", "cancelled"}
Resolved  == {"exited", "timeout", "cancelled"}
Rejected  == {"spawn_failed", "unconfirmed"}

Windows == platform = "win32"

HasPid == leader \in {"alive", "dead"}

(* Nothing of the tree is left: what process.kill(-pid, 0) reports.        *)
Gone == leader # "alive" /\ kids = 0

Init == /\ platform \in {"win32", "posix"}
        /\ leader = "none" /\ kids = 0 /\ forked = 0 /\ held \in BOOLEAN
        /\ killed = FALSE /\ aborted = FALSE /\ timer = FALSE
        /\ spawnObserved = FALSE /\ closeObserved = FALSE
        /\ closeHandled = FALSE /\ terminating = FALSE
        /\ reason = "none" /\ tpc = "idle" /\ tok = FALSE /\ cpc = "idle"
        /\ outcome = "none" /\ stopped = FALSE

-----------------------------------------------------------------------------
(* settle: the first caller decides, and disarms the timer.                *)
Settle(result) ==
  IF outcome = "none" THEN outcome' = result /\ timer' = FALSE
                      ELSE UNCHANGED <<outcome, timer>>

(* Run: refused before a spawn when already aborted.                       *)
Run ==
  /\ leader = "none" /\ outcome = "none"
  /\ IF aborted
     THEN outcome' = "cancelled" /\ UNCHANGED <<leader, timer>>
     ELSE leader' \in {"alive", "failed"} /\ timer' = TRUE /\ UNCHANGED outcome
  /\ UNCHANGED <<platform, kids, forked, held, killed, reason, tpc, tok, cpc,
                 terminating, events>>

(* terminateTree, up to its first await.  Only the first call has effect.  *)
TerminateTree(why) ==
  IF tpc # "idle" THEN UNCHANGED <<terminating, timer, reason, tpc, stopped>>
  ELSE /\ terminating' = TRUE /\ timer' = FALSE /\ reason' = why
       /\ tpc' = IF closeObserved THEN "afterclose"
                 ELSE IF Windows THEN "taskkill"
                 ELSE IF HasPid THEN "probe1" ELSE "close"
       /\ stopped' = ~closeObserved

(* The abort listener is removed when the command settles.                 *)
Abort ==
  /\ ~aborted /\ aborted' = TRUE
  /\ IF leader # "none" /\ outcome = "none"
     THEN TerminateTree("cancelled")
     ELSE UNCHANGED <<terminating, timer, reason, tpc, stopped>>
  /\ UNCHANGED <<tree, killed, spawnObserved, closeObserved, closeHandled, tok,
                 cpc, outcome>>

Timeout ==
  /\ timer /\ timer' = FALSE
  /\ TerminateTree("timeout")
  /\ UNCHANGED <<tree, killed, aborted, spawnObserved, closeObserved,
                 closeHandled, tok, cpc, outcome>>

Spawned ==
  /\ HasPid /\ ~spawnObserved /\ spawnObserved' = TRUE
  /\ UNCHANGED <<tree, killed, aborted, timer, closeObserved, closeHandled,
                 terminating, reason, tpc, tok, cpc, outcome, stopped>>

(* The "error" event of a child that never came to be.                     *)
SpawnError ==
  /\ leader = "failed" /\ ~closeObserved
  /\ closeObserved' = TRUE
  /\ Settle("spawn_failed")
  /\ UNCHANGED <<tree, killed, aborted, spawnObserved, closeHandled,
                 terminating, reason, tpc, tok, cpc, stopped>>

(* Any other "error", such as that of a kill, or a failing stdin.          *)
LateError ==
  /\ HasPid /\ spawnObserved /\ ~closeObserved /\ ~terminating
  /\ TerminateTree("timeout")
  /\ UNCHANGED <<tree, killed, aborted, spawnObserved, closeObserved,
                 closeHandled, tok, cpc, outcome>>

(* Faulty variant: a close ends a run whether or not it is being stopped.  *)
CloseAlways ==
  /\ ~closeHandled
  /\ \/ leader = "failed" /\ closeObserved
     \/ leader = "dead" /\ spawnObserved /\ ~(held /\ kids > 0)
  /\ closeHandled' = TRUE /\ closeObserved' = TRUE
  /\ terminating' = TRUE /\ cpc' = "confirm"
  /\ UNCHANGED <<tree, killed, aborted, timer, spawnObserved, reason, tpc, tok,
                 outcome, stopped>>

(* The "close" event: the child is dead and nobody holds its stdio.        *)
Close ==
  /\ ~closeHandled
  /\ \/ leader = "failed" /\ closeObserved
     \/ leader = "dead" /\ spawnObserved /\ ~(held /\ kids > 0)
  /\ closeHandled' = TRUE /\ closeObserved' = TRUE
  /\ IF terminating THEN UNCHANGED <<terminating, cpc>>
                    ELSE terminating' = TRUE /\ cpc' = "confirm"
  /\ UNCHANGED <<tree, killed, aborted, timer, spawnObserved, reason, tpc, tok,
                 outcome, stopped>>

-----------------------------------------------------------------------------
(* The coroutine of terminateTree.  T(from, to) moves it.                  *)
T(from, to) == tpc = from /\ tpc' = to

TFrame == UNCHANGED <<tree, aborted, spawnObserved, closeObserved,
                      closeHandled, terminating, reason, cpc, stopped>>

(* runTaskkill, which fails on an error, an exit code or its own timeout.  *)
Taskkill ==
  /\ T("taskkill", "close10")
  /\ tok' \in BOOLEAN /\ killed' = TRUE
  /\ UNCHANGED <<timer, outcome>> /\ TFrame

Close10 ==
  /\ T("close10", "close")
  /\ killed' = TRUE
  /\ UNCHANGED <<tok, timer, outcome>> /\ TFrame

(* terminatePosixProcessGroup: probe, SIGTERM and up to 3 s, SIGKILL and   *)
(* up to finalCloseTimeoutMs.  A wait may expire just as the group ends.   *)
Probe(here, term, after) ==
  /\ tpc = here
  /\ IF Gone THEN tpc' = after /\ tok' = TRUE
             ELSE tpc' = term /\ UNCHANGED tok
  /\ UNCHANGED <<killed, timer, outcome>> /\ TFrame

(* Faulty variant: no SIGKILL for a group that ignores SIGTERM.            *)
TermedOnce(here, kill, after) ==
  /\ T(here, after)
  /\ tok' = Gone
  /\ UNCHANGED <<killed, timer, outcome>> /\ TFrame

Termed(here, kill, after) ==
  /\ \/ T(here, after) /\ Gone /\ tok' = TRUE /\ UNCHANGED killed
     \/ T(here, kill) /\ killed' = TRUE /\ UNCHANGED tok
  /\ UNCHANGED <<timer, outcome>> /\ TFrame

Killed(here, after) ==
  /\ T(here, after)
  /\ tok' \in {FALSE} \cup (IF Gone THEN {TRUE} ELSE {})
  /\ UNCHANGED <<killed, timer, outcome>> /\ TFrame

(* Faulty variant: no deadline on the wait for the close event.            *)
AwaitCloseForever ==
  /\ closeObserved /\ T("close", "afterclose")
  /\ UNCHANGED <<tok, killed, timer, outcome>> /\ TFrame

(* Staging is never released while the child may hold a file open.         *)
AwaitClose ==
  /\ \/ /\ closeObserved /\ T("close", "afterclose")
        /\ UNCHANGED <<timer, outcome>>
     \/ /\ ~closeObserved /\ T("close", "done")
        /\ Settle("unconfirmed")
  /\ UNCHANGED <<tok, killed>> /\ TFrame

(* The child may have closed while its descendants run on.                 *)
AfterClose ==
  /\ tpc = "afterclose"
  /\ tpc' = IF ~Windows /\ HasPid /\ ~Gone THEN "probe2" ELSE "confirm"
  /\ UNCHANGED <<tok, killed, timer, outcome>> /\ TFrame

(* Faulty variant: the close of the child stands for that of its tree.     *)
TreeGoneOnClose == HasPid /\ closeObserved

(* confirmTreeGone, when it says yes; it may also say no after a timeout.  *)
TreeGone == HasPid /\ IF Windows THEN closeObserved ELSE Gone

Confirm ==
  /\ T("confirm", "done")
  /\ \/ TreeGone /\ (closeObserved \/ tok) /\ Settle(reason)
     \/ ~(Windows /\ TreeGone) /\ Settle("unconfirmed")
  /\ UNCHANGED <<tok, killed>> /\ TFrame

Terminating ==
  \/ Taskkill \/ Close10
  \/ Probe("probe1", "term1", "close") \/ Termed("term1", "kill1", "close")
  \/ Killed("kill1", "close")
  \/ AwaitClose \/ AfterClose
  \/ Probe("probe2", "term2", "confirm") \/ Termed("term2", "kill2", "confirm")
  \/ Killed("kill2", "confirm")
  \/ Confirm

-----------------------------------------------------------------------------
(* The coroutine started by "close".                                       *)
CFrame == UNCHANGED <<tree, events, terminating, reason, tpc, tok>>

C(from, to) == cpc = from /\ cpc' = to

CloseConfirm ==
  /\ \/ TreeGone /\ C("confirm", "done") /\ Settle("exited")
     \/ ~(Windows /\ TreeGone) /\
        IF ~Windows /\ HasPid
        THEN C("confirm", "probe") /\ UNCHANGED <<outcome, timer>>
        ELSE C("confirm", "done") /\ Settle("unconfirmed")
  /\ UNCHANGED killed /\ CFrame

(* A residual group is terminated before the result is returned.           *)
CloseProbe ==
  /\ \/ Gone /\ C("probe", "done") /\ Settle("exited")
     \/ ~Gone /\ C("probe", "term") /\ UNCHANGED <<outcome, timer>>
  /\ UNCHANGED killed /\ CFrame

CloseTermed ==
  /\ \/ Gone /\ C("term", "done") /\ Settle("exited") /\ UNCHANGED killed
     \/ C("term", "kill") /\ killed' = TRUE /\ UNCHANGED <<outcome, timer>>
  /\ CFrame

CloseKilled ==
  /\ \/ Gone /\ C("kill", "done") /\ Settle("exited")
     \/ C("kill", "done") /\ Settle("unconfirmed")
  /\ UNCHANGED killed /\ CFrame

Closing == CloseConfirm \/ CloseProbe \/ CloseTermed \/ CloseKilled

-----------------------------------------------------------------------------
(* The processes.  On Windows the wrapper exits only when its job is empty *)
(* and takes the job with it when it is killed.                            *)
Frame == UNCHANGED <<platform, held, killed, aborted, timer, spawnObserved,
                     closeObserved, closeHandled, terminating, reason, tpc,
                     tok, cpc, outcome, stopped>>

Fork == /\ ~Gone /\ ~killed /\ forked < MaxKids
        /\ kids' = kids + 1 /\ forked' = forked + 1
        /\ UNCHANGED leader /\ Frame

LeaderExit == /\ leader = "alive" /\ leader' = "dead"
              /\ IF Windows THEN (killed \/ kids = 0) /\ kids' = 0
                            ELSE UNCHANGED kids
              /\ UNCHANGED forked /\ Frame

KidExit == /\ kids > 0 /\ kids' = kids - 1
           /\ UNCHANGED <<leader, forked>> /\ Frame

Processes == Fork \/ LeaderExit \/ KidExit

Next == Run \/ Abort \/ Timeout \/ Spawned \/ SpawnError \/ LateError \/ Close
        \/ Terminating \/ Closing \/ Processes

Spec == Init /\ [][Next]_vars

(* Events and timers that are due are delivered.  Of the processes nothing *)
(* is assumed: one may run for ever, even one that has been killed.        *)
Fairness == /\ WF_vars(Run) /\ WF_vars(Timeout) /\ WF_vars(Spawned)
            /\ WF_vars(SpawnError) /\ WF_vars(Close)
            /\ WF_vars(Terminating) /\ WF_vars(Closing)

FairSpec == Spec /\ Fairness

(* A process that has been killed dies.                                    *)
Reap == killed /\ (LeaderExit \/ KidExit)

-----------------------------------------------------------------------------
(* The state the closure of one command keeps; its timer never outlives    *)
(* the command or the decision to stop it.                                 *)
TypeOK ==
  /\ platform \in {"win32", "posix"}
  /\ leader \in {"none", "failed", "alive", "dead"}
  /\ kids \in Nat /\ forked \in 0..MaxKids
  /\ held \in BOOLEAN /\ killed \in BOOLEAN /\ aborted \in BOOLEAN
  /\ timer \in BOOLEAN /\ spawnObserved \in BOOLEAN /\ closeObserved \in BOOLEAN
  /\ closeHandled \in BOOLEAN /\ terminating \in BOOLEAN
  /\ reason \in Stops \cup {"none"}
  /\ tpc \in {"idle", "taskkill", "close10", "probe1", "term1", "kill1", "close",
              "afterclose", "probe2", "term2", "kill2", "confirm", "done"}
  /\ tok \in BOOLEAN
  /\ cpc \in {"idle", "confirm", "probe", "term", "kill", "done"}
  /\ outcome \in Resolved \cup Rejected \cup {"none"}
  /\ stopped \in BOOLEAN
  /\ timer => outcome = "none" /\ tpc = "idle"

(* "staging cleanup may safely begin after this promise settles": when the *)
(* command resolves, or is rejected because it could not be spawned, no    *)
(* process of its tree is left to write into the staging directory.        *)
StagingSafe == outcome \in Resolved \cup {"spawn_failed"} => Gone

(* A command that was aborted or timed out while its child was running is  *)
(* never reported as one that exited by itself, whatever exit code the     *)
(* child leaves and however the close races the termination.               *)
StopIsReported == stopped => outcome # "exited"

(* The caller always gets an answer: the timeout bounds the command, and   *)
(* every wait of the termination is bounded, even for a tree that cannot   *)
(* be killed.                                                              *)
Settles == leader # "none" ~> outcome # "none"

(* Even when the termination is reported as unconfirmed, no process is     *)
(* left running for good, where the system reaps what has been killed.     *)
TreeReaped == WF_vars(Reap) => (outcome # "none" ~> Gone)
=============================================================================
