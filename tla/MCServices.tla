------------------------------ MODULE MCServices -----------------------------
(***************************************************************************)
(* Three services that wait for something that may never answer, a program *)
(* or a model, checked side by side: a behaviour is about one of them, and *)
(* the other two stay in an initial state.                                 *)
(***************************************************************************)
EXTENDS MineruProcess

CONSTANTS Calls, MaxNodes, Actions

VARIABLES service,   \* "mineru", "cli" or "reading"; never changes
          kind, child, exit, sig, stopFile, known, clock, timedOut, result,
          unloaded, stuck,
          session, queue, gen, halted, unmarked, act, advance

cliState == <<kind, child, exit, sig, stopFile, known, clock, timedOut, result,
              unloaded, stuck>>
readingState == <<session, queue, gen, halted, unmarked, act, advance>>

Cli     == INSTANCE CliProcess
Reading == INSTANCE GuidedReading

MCInit == /\ service \in {"mineru", "cli", "reading"}
          /\ Init /\ Cli!Init /\ Reading!Init
          /\ service # "cli" => kind = [c \in Calls |-> "vault"]
          /\ service # "mineru" => platform = "posix" /\ ~held

MCNext == /\ \/ service = "mineru" /\ Next /\ UNCHANGED <<cliState, readingState>>
             \/ service = "cli" /\ Cli!Next /\ UNCHANGED <<vars, readingState>>
             \/ service = "reading" /\ Reading!Next /\ UNCHANGED <<vars, cliState>>
          /\ UNCHANGED service

(* The fairness of the three.  In the initial states of CliProcess and     *)
(* GuidedReading no step that theirs is about is enabled, and in that of   *)
(* MineruProcess only Run is; nothing is awaited in any of them.           *)
InMineru(A) == service = "mineru" /\ A

MCSpec == /\ MCInit /\ [][MCNext]_<<service, vars, cliState, readingState>>
          /\ WF_vars(InMineru(Run)) /\ WF_vars(Timeout) /\ WF_vars(Spawned)
          /\ WF_vars(SpawnError) /\ WF_vars(Close)
          /\ WF_vars(Terminating) /\ WF_vars(Closing)
          /\ Cli!Fairness /\ Reading!Fairness

-----------------------------------------------------------------------------
(* No stop file is left behind, and no program that the unload did not at  *)
(* least ask to stop: see NoStopLeft and LeftInHand of CliProcess.         *)
NothingLeft == Cli!NoStopLeft /\ Cli!LeftInHand

(* Every command is answered and its process tree reaped: see Settles and  *)
(* TreeReaped of MineruProcess, Answered of CliProcess.                    *)
CommandsEnd == Settles /\ TreeReaped /\ Cli!Answered

(* Every generation of an answer ends: see GuidedReading.                  *)
GenerationEnds == Reading!GenerationEnds
=============================================================================
