------------------------- MODULE MineruProcessProofs ------------------------
(***************************************************************************)
(* StagingSafe and StopIsReported for any number of descendants, on either *)
(* platform; and NothingLeft of the calls of the agent CLIs that           *)
(* MCServices runs beside them, for any number of calls.                   *)
(***************************************************************************)
EXTENDS MCServices, TLAPS

(* Only a child that was spawned has descendants; on Windows its death is  *)
(* the death of its job.                                                   *)
Family ==
  /\ leader \in {"none", "failed", "alive", "dead"} /\ kids \in Nat
  /\ leader \in {"none", "failed"} => kids = 0
  /\ Windows /\ leader = "dead" => kids = 0

(* The close of the child is never observed while it runs.                 *)
Closed == closeObserved => leader \in {"failed", "dead"}

IInv == Family /\ Closed /\ StagingSafe

LEMMA TreeGoneIsGone == IInv /\ TreeGone => Gone
  BY DEF IInv, Family, Closed, TreeGone, HasPid, Gone, Windows

(* A step that leaves the processes and closeObserved alone may settle the *)
(* command when the tree is gone.                                          *)
LEMMA QuietStep ==
  ASSUME IInv, UNCHANGED <<tree, closeObserved>>,
         \/ Gone \/ UNCHANGED outcome
         \/ outcome = "none" /\ outcome' = "unconfirmed"
  PROVE  IInv'
  BY DEF IInv, Family, Closed, StagingSafe, Gone, tree, Resolved, Windows

LEMMA Settling ==
  ASSUME NEW ending, Settle(ending)
  PROVE  UNCHANGED outcome \/ (outcome = "none" /\ outcome' = ending)
  BY DEF Settle

LEMMA TerminatingStep == IInv /\ Terminating => IInv'
<1> SUFFICES ASSUME IInv, Terminating PROVE IInv'
  OBVIOUS
<1>1. UNCHANGED <<tree, closeObserved>>
  BY DEF Terminating, Taskkill, Close10, Probe, Termed, Killed, AwaitClose,
         AfterClose, Confirm, TFrame
<1>2. CASE AwaitClose
  BY <1>1, <1>2, QuietStep, Settling DEF AwaitClose
<1>3. CASE Confirm
  BY <1>1, <1>3, QuietStep, Settling, TreeGoneIsGone DEF Confirm
<1>4. CASE UNCHANGED outcome
  BY <1>1, <1>4, QuietStep
<1> QED
  BY <1>2, <1>3, <1>4
  DEF Terminating, Taskkill, Close10, Probe, Termed, Killed, AfterClose

LEMMA ClosingStep == IInv /\ Closing => IInv'
<1> SUFFICES ASSUME IInv, Closing PROVE IInv'
  OBVIOUS
<1>1. UNCHANGED <<tree, closeObserved>>
  BY DEF Closing, CloseConfirm, CloseProbe, CloseTermed, CloseKilled, CFrame, events
<1>2. \/ Gone \/ UNCHANGED outcome
      \/ outcome = "none" /\ outcome' = "unconfirmed"
  BY Settling, TreeGoneIsGone
  DEF Closing, CloseConfirm, CloseProbe, CloseTermed, CloseKilled
<1> QED BY <1>1, <1>2, QuietStep

LEMMA ProcessStep == IInv /\ Processes => IInv'
  BY DEF Processes, Fork, LeaderExit, KidExit, Frame, IInv, Family, Closed,
         StagingSafe, Gone, Resolved, Windows

LEMMA EventStep ==
  IInv /\ (Run \/ Abort \/ Timeout \/ Spawned \/ SpawnError \/ LateError \/ Close)
    => IInv'
<1> SUFFICES ASSUME IInv,
                    Run \/ Abort \/ Timeout \/ Spawned \/ SpawnError
                        \/ LateError \/ Close
             PROVE  IInv'
  OBVIOUS
<1>1. CASE Run
  BY <1>1 DEF Run, events, IInv, Family, Closed, StagingSafe, Gone, Resolved,
     Windows
<1>2. CASE Abort \/ Timeout \/ Spawned \/ LateError
  BY <1>2, QuietStep DEF Abort, Timeout, Spawned, LateError
<1>3. CASE SpawnError
  BY <1>3, Settling
  DEF SpawnError, tree, IInv, Family, Closed, StagingSafe, Gone, Windows
<1>4. CASE Close
  BY <1>4 DEF Close, tree, IInv, Family, Closed, StagingSafe, Gone, Windows
<1> QED BY <1>1, <1>2, <1>3, <1>4

(* Whatever the interleaving of events, coroutines and processes, staging  *)
(* is released only when no process of the tree is left.                   *)
THEOREM StagingIsSafe == Spec => []StagingSafe
<1>1. Init => IInv
  BY DEF Init, IInv, Family, Closed, StagingSafe, Gone, Resolved, Windows
<1>2. IInv /\ [Next]_vars => IInv'
  <2> SUFFICES ASSUME IInv, [Next]_vars PROVE IInv'
    OBVIOUS
  <2>1. CASE UNCHANGED vars
    BY <2>1, QuietStep DEF vars, tree
  <2> QED BY <2>1, TerminatingStep, ClosingStep, ProcessStep, EventStep DEF Next
<1>3. IInv => StagingSafe
  BY DEF IInv
<1> QED BY <1>1, <1>2, <1>3, PTL DEF Spec

-----------------------------------------------------------------------------
(***************************************************************************)
(* StopIsReported: terminating is what keeps the coroutine of a close from *)
(* starting, and it is set in the step that decides to stop.  Whoever has  *)
(* exited was followed by that coroutine, whose start observed the close.  *)
(***************************************************************************)
StopHeld ==
  /\ stopped => terminating /\ cpc = "idle"
  /\ cpc # "idle" => closeObserved
  /\ outcome = "exited" => cpc # "idle"
  /\ reason # "exited"

LEMMA StepStopHeld == StopHeld /\ [Next]_vars => StopHeld'
<1> SUFFICES ASSUME StopHeld, [Next]_vars PROVE StopHeld'
  OBVIOUS
<1>1. ASSUME NEW why \in Stops, TerminateTree(why), UNCHANGED <<cpc, closeObserved>>
      PROVE  /\ stopped' => terminating' /\ cpc' = "idle"
             /\ reason' # "exited"
  BY <1>1 DEF TerminateTree, StopHeld, Stops
<1>2. ASSUME NEW ending, Settle(ending), ending # "exited" PROVE outcome' = "exited" => outcome = "exited"
  BY <1>2 DEF Settle
<1>3. CASE Run
  BY <1>3 DEF Run, events, StopHeld
<1>4. CASE Abort
  <2>1. UNCHANGED <<cpc, closeObserved, outcome>>
    BY <1>4 DEF Abort
  <2>2. TerminateTree("cancelled") \/ UNCHANGED <<terminating, reason, stopped>>
    BY <1>4, Zenon DEF Abort
  <2> QED BY <1>1, <2>1, <2>2 DEF StopHeld, Stops
<1>5. CASE Timeout \/ LateError
  <2>1. UNCHANGED <<cpc, closeObserved, outcome>> /\ TerminateTree("timeout")
    BY <1>5 DEF Timeout, LateError
  <2> QED BY <1>1, <2>1 DEF StopHeld, Stops
<1>6. CASE Spawned
  BY <1>6 DEF Spawned, StopHeld
<1>7. CASE SpawnError
  BY <1>2, <1>7 DEF SpawnError, StopHeld
<1>8. CASE Close
  BY <1>8 DEF Close, StopHeld
<1>9. CASE Terminating
  <2>1. UNCHANGED <<cpc, closeObserved, terminating, stopped, reason>>
    BY <1>9 DEF Terminating, Taskkill, Close10, Probe, Termed, Killed, AwaitClose,
       AfterClose, Confirm, TFrame
  <2>2. outcome' = "exited" => outcome = "exited"
    BY <1>2, <1>9 DEF Terminating, Taskkill, Close10, Probe, Termed, Killed, AwaitClose,
       AfterClose, Confirm, StopHeld
  <2> QED BY <2>1, <2>2 DEF StopHeld
<1>10. CASE Closing
  <2>1. /\ UNCHANGED <<closeObserved, terminating, stopped, reason>>
        /\ cpc # "idle" /\ cpc' # "idle"
    BY <1>10 DEF Closing, CloseConfirm, CloseProbe, CloseTermed, CloseKilled, CFrame, C,
       events
  <2> QED BY <2>1 DEF StopHeld
<1>11. CASE Processes
  BY <1>11 DEF Processes, Fork, LeaderExit, KidExit, Frame, StopHeld
<1>12. CASE UNCHANGED vars
  BY <1>12 DEF vars, StopHeld
<1> QED
  BY <1>3, <1>4, <1>5, <1>6, <1>7, <1>8, <1>9, <1>10, <1>11, <1>12 DEF Next

(* A command that was being stopped while its child ran is never reported  *)
(* as one that ended by itself, whichever coroutine settles it first.      *)
THEOREM StopsAreReported == Spec => []StopIsReported
<1>1. Init => StopHeld
  BY DEF Init, StopHeld
<1>2. StopHeld => StopIsReported
  BY DEF StopHeld, StopIsReported
<1> QED BY <1>1, <1>2, StepStopHeld, PTL DEF Spec

-----------------------------------------------------------------------------
(* The calls of ProcessExecutionService.  Nothing is registered, and no    *)
(* stop file written, before its program was started.                      *)

CliTypes ==
  /\ child \in [Calls -> {"none", "running", "dead", "gone"}]
  /\ clock \in [Calls -> {"off", "armed", "grace"}]
  /\ result \in [Calls -> {"none", "ok", "failed", "error", "timeout"}]
  /\ known \subseteq Calls
  /\ \A c \in known \cup stopFile : child[c] # "none"

(* Until the unload a program that runs is registered, or has its signal,  *)
(* or is a probe, whose timer kills it.                                    *)
Registered ==
  ~unloaded => \A c \in Calls : child[c] = "running" =>
    \/ c \in known \cup sig
    \/ kind[c] = "probe" /\ clock[c] = "armed"

CliInv == CliTypes /\ Registered /\ NothingLeft

(* A call that was answered leaves the registry and, if it is an action,   *)
(* takes its stop file with it.  Only calls that are known are asked.      *)
LEMMA CallStep ==
  ASSUME CliInv, NEW c \in Calls,
         \/ Cli!Call(c) \/ Cli!Refuse(c) \/ Cli!Stop(c) \/ Cli!Program(c) \/ Cli!Close(c)
         \/ Cli!Listed(c) \/ Cli!ActionTimeOut(c) \/ Cli!TimeOut(c) \/ Cli!Grace(c)
  PROVE  CliInv'
<1> USE DEF CliInv, CliTypes, Registered, NothingLeft, Cli!NoStopLeft, Cli!LeftInHand
<1>1. CASE Cli!Call(c)
  <2>1. CASE Cli!RunVaultAction(c)
    BY <2>1 DEF Cli!RunVaultAction, Cli!Spawned
  <2>2. CASE Cli!RunCodePractice(c)
    BY <2>2 DEF Cli!RunCodePractice, Cli!Spawned
  <2>3. CASE Cli!RunJsonProcess(c)
    BY <2>3 DEF Cli!RunJsonProcess, Cli!Spawned
  <2>4. CASE Cli!Probe(c)
    BY <2>4 DEF Cli!Probe, Cli!Spawned
  <2> QED BY <1>1, <2>1, <2>2, <2>3, <2>4 DEF Cli!Call
<1>2. CASE Cli!Refuse(c)
  BY <1>2 DEF Cli!Refuse
<1>3. CASE Cli!Stop(c)
  BY <1>3 DEF Cli!Stop, Cli!Askable
<1>4. CASE Cli!SpawnError(c)
  BY <1>4 DEF Cli!SpawnError, Cli!Settle
<1>5. ASSUME NEW code \in 0 .. 1, Cli!Exit(c, code) PROVE CliInv'
  BY <1>5 DEF Cli!Exit
<1>6. CASE Cli!Close(c)
  BY <1>6 DEF Cli!Close, Cli!Settle, Cli!Outcome
<1>7. CASE Cli!Listed(c)
  BY <1>7 DEF Cli!Listed, Cli!Settle, Cli!Killed
<1>8. CASE Cli!ActionTimeOut(c)
  BY <1>8 DEF Cli!ActionTimeOut, Cli!Askable
<1>9. CASE Cli!TimeOut(c)
  BY <1>9 DEF Cli!TimeOut, Cli!Settle, Cli!Killed
<1>10. CASE Cli!Grace(c)
  BY <1>10 DEF Cli!Grace, Cli!Killed
<1> QED BY <1>1, <1>2, <1>3, <1>4, <1>5, <1>6, <1>7, <1>8, <1>9, <1>10
        DEF Cli!Program, Cli!Heed

(* The unload asks or kills whatever is registered; a probe keeps its      *)
(* timer.                                                                  *)
LEMMA ShutdownStep == CliInv /\ Cli!Shutdown => CliInv'
<1> SUFFICES ASSUME CliInv, Cli!Shutdown PROVE CliInv'
  OBVIOUS
<1>1. PICK asked \in SUBSET Cli!Askable :
        /\ stopFile' = stopFile \cup asked
        /\ Cli!Killed({c \in known \ asked : kind[c] # "practice"})
        /\ stuck' = stuck \cup {c \in known \ asked : kind[c] = "practice"}
  BY DEF Cli!Shutdown
<1>2. ~unloaded /\ unloaded' = TRUE /\ known' = {} /\ UNCHANGED <<kind, child, clock, result>>
  BY DEF Cli!Shutdown
<1>3. asked \subseteq known
  BY DEF Cli!Askable
<1>4. sig' = sig \cup {c \in {c \in known \ asked : kind[c] # "practice"} :
                         child[c] \in {"running", "dead"}}
  BY <1>1 DEF Cli!Killed
<1>5. CliTypes' /\ Registered'
  BY <1>1, <1>2, <1>3 DEF CliInv, CliTypes, Registered
<1>6. Cli!NoStopLeft'
  BY <1>1, <1>2, <1>3 DEF CliInv, NothingLeft, Cli!NoStopLeft
<1>7. ASSUME NEW c \in Calls, child[c] = "running"
      PROVE  \/ c \in stopFile' \cup sig'
             \/ kind[c] = "probe" /\ clock[c] = "armed"
             \/ kind[c] = "practice" /\ c \in stuck'
  <2>1. c \in known \cup sig \/ (kind[c] = "probe" /\ clock[c] = "armed")
    BY <1>2, <1>7 DEF CliInv, Registered
  <2> QED BY <1>1, <1>4, <1>7, <2>1
<1> QED BY <1>2, <1>5, <1>6, <1>7 DEF CliInv, NothingLeft, Cli!LeftInHand

(* No stop file is left for the next action, and no program that the       *)
(* unload did not at least ask to stop (clearRunState, shutdown).          *)
THEOREM NothingIsLeft == MCSpec => []NothingLeft
<1>1. MCInit => CliInv
  BY DEF MCInit, Cli!Init, CliInv, CliTypes, Registered, NothingLeft, Cli!NoStopLeft,
     Cli!LeftInHand
<1>2. CliInv /\ [MCNext]_<<service, vars, cliState, readingState>> => CliInv'
  <2>1. CASE UNCHANGED cliState
    BY <2>1 DEF cliState, CliInv, CliTypes, Registered, NothingLeft, Cli!NoStopLeft, Cli!LeftInHand
  <2>2. CASE CliInv /\ Cli!Next
    BY <2>2, CallStep, ShutdownStep DEF Cli!Next
  <2> QED BY <2>1, <2>2 DEF MCNext
<1> QED BY <1>1, <1>2, PTL DEF MCSpec, CliInv
=============================================================================
