----------------------------- MODULE CliProcess -----------------------------
(***************************************************************************)
(* ProcessExecutionService: the command-line programs the plugin starts,   *)
(* and who ends them.  An action of the toolkit ("vault") is asked to stop *)
(* through a file and killed only when a grace period is over; a code      *)
(* practice ("practice") is only asked; a query to a CLI ("json") and the  *)
(* probes and listings of models ("probe") are killed by their timer.  A   *)
(* time limit, the user, the program itself and the unload of the plugin   *)
(* meet in any order.                                                      *)
(*                                                                         *)
(* Every call has a run id of its own.  The programs are external: one may *)
(* overlook its stop file, and one that was killed may take its time.  The *)
(* output is left out.                                                     *)
(***************************************************************************)
EXTENDS Naturals

CONSTANTS Calls

VARIABLES kind,      \* of each call; never changes
          child,     \* its process: "none", "running", "dead", "gone"
          exit,      \* how it ended: 0 or 1
          sig,       \* child.killed: the calls whose process got a signal
          stopFile,  \* the calls whose stop file exists
          known,     \* activeProcesses and activePracticeRuns
          clock,     \* of each call: "off", "armed", "grace"
          timedOut,  \* the calls whose time limit has passed
          result,    \* how the promise of each call was settled
          unloaded,  \* has shutdown run?
          stuck      \* history: the calls whose stop file could not be written
                     \* at the unload, or not be removed at the end

cliVars == <<kind, child, exit, sig, stopFile, known, clock, timedOut, result, unloaded, stuck>>

Kinds == {"vault", "practice", "json", "probe"}

Init == /\ kind \in [Calls -> Kinds]
        /\ child = [c \in Calls |-> "none"] /\ exit = [c \in Calls |-> 0]
        /\ sig = {} /\ stopFile = {} /\ known = {}
        /\ clock = [c \in Calls |-> "off"] /\ timedOut = {}
        /\ result = [c \in Calls |-> "none"]
        /\ unloaded = FALSE /\ stuck = {}

Started(c) == child[c] # "none"
Open(c)    == Started(c) /\ result[c] = "none"

-----------------------------------------------------------------------------
(* The promise is settled once; what was registered is forgotten, and the  *)
(* stop file of an action is removed, if that can be done.                 *)
Settle(c, r) ==
  /\ result' = [result EXCEPT ![c] = r]
  /\ clock' = [clock EXCEPT ![c] = IF @ = "armed" THEN "off" ELSE @]
  /\ known' = known \ {c}
  /\ \/ stopFile' = (IF kind[c] = "vault" THEN stopFile \ {c} ELSE stopFile) /\ UNCHANGED stuck
     \/ /\ kind[c] = "vault" /\ c \in stopFile
        /\ stuck' = stuck \cup {c} /\ UNCHANGED stopFile

(* A stop file is written for a registered program that was not killed; it *)
(* may be impossible to write.                                             *)
Askable == {c \in known : \/ kind[c] = "practice"
                          \/ kind[c] = "vault" /\ c \notin sig}

(* child.kill, unless it was called before.                                *)
Killed(cs) == sig' = sig \cup {c \in cs : child[c] \in {"running", "dead"}}

-----------------------------------------------------------------------------
(* A call: the program is spawned, and registered unless it is a probe.    *)
Spawned(c) == /\ child[c] = "none" /\ result[c] = "none" /\ ~unloaded
              /\ child' = [child EXCEPT ![c] = "running"]
              /\ UNCHANGED <<kind, exit, sig, timedOut, result, unloaded, stuck>>

(* A stop file left under its run id is removed first.                     *)
RunVaultAction(c) ==
  /\ kind[c] = "vault" /\ Spawned(c) /\ stopFile' = stopFile \ {c}
  /\ known' = known \cup {c} /\ clock' = [clock EXCEPT ![c] = "armed"]

RunCodePractice(c) == /\ kind[c] = "practice" /\ Spawned(c)
                      /\ known' = known \cup {c} /\ UNCHANGED <<clock, stopFile>>

RunJsonProcess(c) == /\ kind[c] = "json" /\ Spawned(c) /\ UNCHANGED stopFile
                     /\ known' = known \cup {c} /\ clock' = [clock EXCEPT ![c] = "armed"]

Probe(c) == /\ kind[c] = "probe" /\ Spawned(c)
            /\ clock' = [clock EXCEPT ![c] = "armed"] /\ UNCHANGED <<known, stopFile>>

(* Nothing is spawned: no runner, no interpreter, no directory.            *)
Refuse(c) == /\ child[c] = "none" /\ result[c] = "none"
             /\ result' = [result EXCEPT ![c] = "error"]
             /\ UNCHANGED <<kind, child, exit, sig, stopFile, known, clock, timedOut, unloaded, stuck>>

(* The "error" of a program that could not be spawned.                     *)
SpawnError(c) ==
  /\ child[c] = "running" /\ c \notin sig
  /\ child' = [child EXCEPT ![c] = "gone"]
  /\ IF result[c] = "none" THEN Settle(c, "error") ELSE UNCHANGED <<result, clock, known, stopFile, stuck>>
  /\ UNCHANGED <<kind, exit, sig, timedOut, unloaded>>

Exit(c, code) ==
  /\ child[c] = "running"
  /\ child' = [child EXCEPT ![c] = "dead"] /\ exit' = [exit EXCEPT ![c] = code]
  /\ UNCHANGED <<kind, sig, stopFile, known, clock, timedOut, result, unloaded, stuck>>

(* "close": an action whose time had passed is reported as such.           *)
Outcome(c) == IF kind[c] = "vault" /\ c \in timedOut THEN "timeout"
              ELSE IF exit[c] = 0 THEN "ok" ELSE "failed"

Close(c) ==
  /\ child[c] = "dead" /\ child' = [child EXCEPT ![c] = "gone"]
  /\ IF result[c] = "none" THEN Settle(c, Outcome(c)) ELSE UNCHANGED <<result, clock, known, stopFile, stuck>>
  /\ UNCHANGED <<kind, exit, sig, timedOut, unloaded>>

(* A probe of a server that lists models is answered while it still runs.  *)
Listed(c) ==
  /\ kind[c] = "probe" /\ child[c] = "running" /\ result[c] = "none"
  /\ Settle(c, "ok") /\ Killed({c})
  /\ UNCHANGED <<kind, child, exit, timedOut, unloaded>>

-----------------------------------------------------------------------------
(* The time limit of an action: it is asked to stop, if its file can be    *)
(* written and it is still registered.                                     *)
ActionTimeOut(c) ==
  /\ kind[c] = "vault" /\ clock[c] = "armed"
  /\ clock' = [clock EXCEPT ![c] = "grace"] /\ timedOut' = timedOut \cup {c}
  /\ stopFile' \in {stopFile, stopFile \cup ({c} \cap Askable)}
  /\ UNCHANGED <<kind, child, exit, sig, known, result, unloaded, stuck>>

(* Any other program is killed and its call is answered at once.           *)
TimeOut(c) ==
  /\ kind[c] # "vault" /\ clock[c] = "armed"
  /\ Settle(c, "timeout") /\ Killed({c})
  /\ UNCHANGED <<kind, child, exit, timedOut, unloaded>>

(* Mutant: a program that was asked is left alone.                         *)
GraceTrusts(c) ==
  /\ clock[c] = "grace" /\ clock' = [clock EXCEPT ![c] = "off"]
  /\ Killed(({c} \cap known) \ stopFile)
  /\ UNCHANGED <<kind, child, exit, stopFile, known, timedOut, result, unloaded, stuck>>

(* The grace period is over; the timer that ends it is never cleared.      *)
Grace(c) ==
  /\ clock[c] = "grace" /\ clock' = [clock EXCEPT ![c] = "off"]
  /\ Killed({c} \cap known)
  /\ UNCHANGED <<kind, child, exit, stopFile, known, timedOut, result, unloaded, stuck>>

(* Mutant: the file is written for whatever run is named.                  *)
StopAny(c) == /\ Started(c) /\ stopFile' = stopFile \cup {c}
              /\ UNCHANGED <<kind, child, exit, sig, known, clock, timedOut, result, unloaded, stuck>>

(* The user stops an action or a practice.                                 *)
Stop(c) == /\ c \in Askable /\ c \notin stopFile /\ stopFile' = stopFile \cup {c}
           /\ UNCHANGED <<kind, child, exit, sig, known, clock, timedOut, result, unloaded, stuck>>

(* The program takes notice of its stop file and ends.                     *)
Heed(c) == c \in stopFile /\ Exit(c, 1)

(* Mutant: only the actions are asked, and none is killed.                 *)
ShutdownAsks ==
  /\ ~unloaded /\ unloaded' = TRUE /\ known' = {}
  /\ \E asked \in SUBSET Askable : stopFile' = stopFile \cup asked
  /\ UNCHANGED <<stuck, kind, child, exit, sig, clock, timedOut, result>>

(* shutdown: every registered program is asked to stop, and killed if it   *)
(* cannot be asked, a practice excepted; then all of them are forgotten.   *)
Shutdown ==
  /\ ~unloaded /\ unloaded' = TRUE /\ known' = {}
  /\ \E asked \in SUBSET Askable :
       /\ stopFile' = stopFile \cup asked
       /\ Killed({c \in known \ asked : kind[c] # "practice"})
       /\ stuck' = stuck \cup {c \in known \ asked : kind[c] = "practice"}
  /\ UNCHANGED <<kind, child, exit, clock, timedOut, result>>

-----------------------------------------------------------------------------
Program(c) == SpawnError(c) \/ (\E code \in 0 .. 1 : Exit(c, code)) \/ Heed(c)

Call(c) == RunVaultAction(c) \/ RunCodePractice(c) \/ RunJsonProcess(c) \/ Probe(c)

Next == \/ \E c \in Calls : \/ Call(c) \/ Refuse(c) \/ Stop(c) \/ Program(c) \/ Close(c)
                            \/ Listed(c) \/ ActionTimeOut(c) \/ TimeOut(c) \/ Grace(c)
        \/ Shutdown

(* Timers and events are delivered, and a program that was killed ends;    *)
(* nothing is assumed of one that was only asked to stop.                  *)
Die(c)   == c \in sig /\ \E code \in 0 .. 1 : Exit(c, code)
Fairness == \A c \in Calls : /\ WF_cliVars(ActionTimeOut(c)) /\ WF_cliVars(TimeOut(c)) /\ WF_cliVars(Grace(c))
                             /\ WF_cliVars(Close(c)) /\ WF_cliVars(Die(c))

Spec == Init /\ [][Next]_cliVars /\ Fairness

-----------------------------------------------------------------------------
(* What the maps, the timers and the promises of the service may hold.     *)
TypeOK ==
  /\ kind \in [Calls -> Kinds] /\ child \in [Calls -> {"none", "running", "dead", "gone"}]
  /\ exit \in [Calls -> 0 .. 1] /\ sig \subseteq Calls /\ stopFile \subseteq Calls
  /\ known \subseteq Calls /\ clock \in [Calls -> {"off", "armed", "grace"}]
  /\ timedOut \subseteq Calls /\ unloaded \in BOOLEAN /\ stuck \subseteq Calls
  /\ result \in [Calls -> {"none", "ok", "failed", "error", "timeout"}]

(* clearRunState (process-execution.ts:738): whoever asked, and however    *)
(* late, no stop file of an action outlives the action, unless it could    *)
(* not be removed, and the stop of a run that is over is refused.          *)
NoStopLeft == \A c \in Calls : result[c] # "none" =>
                /\ c \notin known
                /\ kind[c] = "vault" => c \notin stopFile \ stuck

(* shutdown (process-execution.ts:1386): a program that still runs after   *)
(* the unload was asked to stop or killed, or will be killed by its timer; *)
(* a practice whose stop file could not be written is the exception.       *)
LeftInHand == unloaded =>
  \A c \in Calls : child[c] = "running" =>
    \/ c \in stopFile \cup sig
    \/ kind[c] = "probe" /\ clock[c] = "armed"
    \/ kind[c] = "practice" /\ c \in stuck

(* As long as the plugin is loaded, a call with a time limit is answered,  *)
(* even if its program overlooks the stop file.                            *)
Answered == \A c \in Calls : Open(c) /\ kind[c] # "practice" ~> ~Open(c) \/ unloaded
=============================================================================
