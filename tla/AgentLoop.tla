------------------------------ MODULE AgentLoop ------------------------------
(***************************************************************************)
(* runBoundedAgentLoop: one run of the tool loop that drives a model.  The *)
(* loop awaits the provider or a tool; while it does, the user may stop    *)
(* the run, the caller's own budget may abort it, the deadline may pass,   *)
(* and the two interval timers may fire, in any order.                     *)
(*                                                                         *)
(* A request is a tool with its canonical arguments (toolRequestKey); what *)
(* the tools return matters only by its length and whether it is an error. *)
(* A caller that passes no isCancelled can only ever abort its signal: its *)
(* runs are those in which "user" does nothing.                            *)
(***************************************************************************)
EXTENDS Integers

CONSTANTS Known, Unknown,   \* requests for a tool of the catalog, or none
          MaxSteps,         \* maxSteps
          MaxOutput,        \* maxToolOutputChars
          MaxResult,        \* maxToolResultChars
          Note, Notice,     \* lengths of the two notices on cut output
          Lens              \* lengths of tool results considered

ASSUME LoopAssumption ==
  /\ Known \cap Unknown = {}
  /\ MaxSteps \in Nat \ {0} /\ MaxOutput \in Nat \ {0} /\ MaxResult \in Nat \ {0}
  /\ Note \in Nat /\ Notice \in Nat /\ Lens \subseteq Nat

Requests == Known \cup Unknown

VARIABLES pc,          \* what the loop is doing
          step,        \* the turn it is in
          request,     \* the request in hand
          ext,         \* who aborted request.signal first, if anybody
          aborted,     \* controller.signal.aborted
          cancelled,   \* isCancelled()
          late,        \* is the deadline past?
          registered,  \* has the provider registered its cancel?
          cancelSent,  \* has that cancel been called?
          protocol,    \* consecutiveProtocolFailures
          failures,    \* ToolFailureGuard.failures
          budget,      \* toolOutputBudget
          fed,         \* ghost: characters of tool output in the transcript
          status, error   \* the result; is there an error text?

inputs == <<ext, cancelled, late>>
call   == <<registered, cancelSent>>
output == <<budget, fed>>
vars   == <<pc, step, request, aborted, inputs, call, protocol, failures,
            output, status, error>>

(* The signal may already be aborted when the loop is entered.             *)
Init == /\ pc = "top" /\ step = 1 /\ request \in Requests
        /\ ext \in {"nobody", "user", "budget"} /\ aborted = (ext # "nobody")
        /\ cancelled = (ext = "user") /\ late = FALSE
        /\ registered = FALSE /\ cancelSent = FALSE
        /\ protocol = 0 /\ failures = [r \in Requests |-> 0]
        /\ budget = MaxOutput /\ fed = 0
        /\ status = IF aborted THEN "cancelled" ELSE "failed"
        /\ error = FALSE

-----------------------------------------------------------------------------
(* The ways out of the loop.                                               *)

(* abortForCancellation                                                    *)
AbortFor(why) ==
  /\ aborted' = TRUE
  /\ IF why = "cancelled"
     THEN status' = "cancelled" /\ UNCHANGED error
     ELSE status' = "budget-exhausted" /\ error' = TRUE

Break(s, e) ==
  /\ pc' = "returned"
  /\ IF s = "failed" /\ ~e THEN status' = "budget-exhausted" /\ error' = TRUE
                           ELSE status' = s /\ error' = e

(* The catch clause: an abort has already chosen the status.               *)
Throw ==
  /\ pc' = "returned"
  /\ status' = IF cancelled /\ status # "budget-exhausted" THEN "cancelled"
               ELSE status
  /\ error' = (error \/ (status = "failed" /\ ~cancelled))

(* if (controller.signal.aborted) { ...; break; }                          *)
BreakAborted == Break(IF cancelled THEN "cancelled" ELSE status, error)

(* Faulty variant: one repetition too many.                                *)
GiveUpLate(r) == failures[r] + 1 > 2

(* ToolFailureGuard.failed counts, and says when to give up.               *)
Failed(r) == failures' = [failures EXCEPT ![r] = @ + 1]
GiveUp(r) == failures[r] + 1 >= 2

(* succeeded                                                               *)
Succeeded(r) == failures' = [failures EXCEPT ![r] = 0]

Continue == pc' = "top" /\ step' = step + 1

-----------------------------------------------------------------------------
(* The turns.                                                              *)

(* The head of the for loop, up to the call of the provider.  It does not  *)
(* look at the signal: a run aborted by its caller's signal alone asks the *)
(* provider once more, and cancels that request when it registers.         *)
Top ==
  /\ pc = "top"
  /\ IF step > MaxSteps
     THEN Break(status, error) /\ UNCHANGED <<aborted, call>>
     ELSE IF cancelled THEN AbortFor("cancelled") /\ pc' = "returned"
                            /\ UNCHANGED call
     ELSE IF late THEN AbortFor("timeout") /\ pc' = "returned"
                       /\ UNCHANGED call
     ELSE /\ pc' = "provider" /\ registered' = FALSE /\ cancelSent' = FALSE
          /\ UNCHANGED <<aborted, status, error>>
  /\ UNCHANGED <<step, request, inputs, protocol, failures, output>>

Register ==
  /\ pc = "provider" /\ ~registered
  /\ registered' = TRUE /\ cancelSent' = aborted
  /\ UNCHANGED <<pc, step, request, aborted, inputs, protocol, failures,
                 output, status, error>>

Idle == UNCHANGED <<aborted, inputs, call, output>>

ProviderThrows ==
  /\ pc = "provider" /\ Throw
  /\ UNCHANGED <<step, request, protocol, failures>> /\ Idle

(* An answer to a run that has been aborted is dropped.                    *)
Dropped ==
  /\ pc = "provider" /\ aborted /\ BreakAborted
  /\ UNCHANGED <<step, request, protocol, failures>> /\ Idle

(* The loop goes on with an answer of the model.                           *)
Answered == pc = "provider" /\ ~aborted

Empty ==
  /\ Answered /\ Break(status, TRUE)
  /\ UNCHANGED <<step, request, protocol, failures>> /\ Idle

Unparsable ==
  /\ Answered
  /\ protocol' = protocol + 1
  /\ IF protocol' < 2 THEN Continue /\ UNCHANGED <<status, error>>
                      ELSE Break(status, TRUE) /\ UNCHANGED step
  /\ UNCHANGED <<request, failures>> /\ Idle

Final ==
  /\ Answered
  /\ Break("completed", error) /\ protocol' = 0
  /\ UNCHANGED <<step, request, failures>> /\ Idle

UnknownTool(r) ==
  /\ Answered /\ r \in Unknown
  /\ protocol' = 0 /\ Failed(r)
  /\ IF GiveUp(r) THEN Throw /\ UNCHANGED step
                  ELSE Continue /\ UNCHANGED <<status, error>>
  /\ UNCHANGED request /\ Idle

(* The call is announced through onStep, which may stop the run.           *)
Announce(r) ==
  /\ Answered /\ r \in Known
  /\ protocol' = 0 /\ request' = r /\ pc' = "announced"
  /\ UNCHANGED <<step, failures, status, error>> /\ Idle

(* Faulty variant: the signal is not looked at again.                      *)
ExecuteAnyway ==
  /\ pc = "announced" /\ pc' = "tool"
  /\ UNCHANGED <<step, request, protocol, failures, status, error>> /\ Idle

Execute ==
  /\ pc = "announced"
  /\ IF aborted THEN BreakAborted
                ELSE pc' = "tool" /\ UNCHANGED <<status, error>>
  /\ UNCHANGED <<step, request, protocol, failures>> /\ Idle

Least(m, n) == IF m < n THEN m ELSE n

(* Faulty variant: a result is cut to its own limit only.                  *)
FeedWhole(len) ==
  LET truncated == IF len > MaxResult THEN MaxResult + Note ELSE len
  IN  /\ budget' = budget - truncated
      /\ fed' = fed + (IF budget <= 0 THEN 0 ELSE truncated)

(* A result is cut to its own limit and to what the whole run has left.    *)
Feed(len) ==
  LET truncated == IF len > MaxResult THEN MaxResult + Note ELSE len
      budgeted  == IF budget <= 0 THEN Notice ELSE Least(truncated, budget)
  IN  /\ budget' = budget - budgeted
      /\ fed' = fed + (IF budget <= 0 THEN 0 ELSE budgeted)

ToolOk(len) ==
  /\ pc = "tool" /\ Succeeded(request) /\ Feed(len) /\ Continue
  /\ UNCHANGED <<request, aborted, inputs, call, protocol, status, error>>

(* The error of a tool that was aborted is not held against it.            *)
ToolFails(len) ==
  /\ pc = "tool" /\ Feed(len)
  /\ IF aborted THEN Continue /\ UNCHANGED <<failures, status, error>>
     ELSE /\ Failed(request)
          /\ IF GiveUp(request) THEN Throw /\ UNCHANGED step
             ELSE Continue /\ UNCHANGED <<status, error>>
  /\ UNCHANGED <<request, aborted, inputs, call, protocol>>

-----------------------------------------------------------------------------
(* Events around the loop.                                                 *)
Around == UNCHANGED <<pc, step, request, protocol, failures, output>>

(* The caller's signal, forwarded the first time it is aborted: by a user, *)
(* who sets isCancelled before, or by the caller's own budget.             *)
ExternalAbort(who) ==
  /\ pc # "returned"
  /\ ext = "nobody" \/ (who = "user" /\ ext = "budget")
  /\ cancelled' = (cancelled \/ who = "user")
  /\ IF ext = "nobody"
     THEN ext' = who /\ AbortFor("cancelled")
     ELSE UNCHANGED <<ext, aborted, status, error>>
  /\ UNCHANGED <<late, call>> /\ Around

Late == /\ ~late /\ late' = TRUE
        /\ UNCHANGED <<ext, aborted, cancelled, call, status, error>> /\ Around

Awaiting == pc \in {"provider", "tool"}

(* Faulty variant: the deadline is looked at first.                        *)
WatchLateFirst ==
  /\ Awaiting /\ (cancelled \/ late)
  /\ AbortFor(IF late THEN "timeout" ELSE "cancelled")
  /\ UNCHANGED <<inputs, call>> /\ Around

(* runWatcher                                                              *)
Watch ==
  /\ Awaiting /\ (cancelled \/ late)
  /\ AbortFor(IF cancelled THEN "cancelled" ELSE "timeout")
  /\ UNCHANGED <<inputs, call>> /\ Around

(* Faulty variant: the watcher leaves the request to its own timeout.      *)
CancelWatchNever == FALSE /\ UNCHANGED vars

(* cancelWatcher                                                           *)
CancelWatch ==
  /\ pc = "provider" /\ aborted /\ registered /\ ~cancelSent
  /\ cancelSent' = TRUE
  /\ UNCHANGED <<aborted, inputs, registered, status, error>> /\ Around

Model == \/ ProviderThrows \/ Dropped \/ Empty \/ Unparsable \/ Final
         \/ \E r \in Requests : UnknownTool(r) \/ Announce(r)

Tool == \E len \in Lens : ToolOk(len) \/ ToolFails(len)

Next == \/ Top \/ Register \/ Model \/ Execute \/ Tool
        \/ \E who \in {"user", "budget"} : ExternalAbort(who)
        \/ Late \/ Watch \/ CancelWatch

Spec == Init /\ [][Next]_vars

(* Synchronous code runs on, the timers fire, and the deadline comes.  A   *)
(* provider or a tool may hang: it is bound to answer only when its        *)
(* request has been cancelled, or the signal it was given aborted.         *)
Fairness == /\ WF_vars(Top) /\ WF_vars(Execute) /\ WF_vars(Register)
            /\ WF_vars(Late) /\ WF_vars(Watch) /\ WF_vars(CancelWatch)
            /\ WF_vars(cancelSent /\ Model) /\ WF_vars(aborted /\ Tool)

FairSpec == Spec /\ Fairness

-----------------------------------------------------------------------------
(* The state of a run, and what its counters may reach.                    *)
TypeOK ==
  /\ pc \in {"top", "provider", "announced", "tool", "returned"}
  /\ step \in 1..MaxSteps + 1 /\ request \in Requests
  /\ ext \in {"nobody", "user", "budget"}
  /\ aborted \in BOOLEAN /\ cancelled \in BOOLEAN /\ late \in BOOLEAN
  /\ registered \in BOOLEAN /\ cancelSent \in BOOLEAN
  /\ protocol \in 0..2 /\ failures \in [Requests -> 0..2]
  /\ budget \in Int /\ fed \in Nat
  /\ status \in {"completed", "failed", "cancelled", "budget-exhausted"}
  /\ error \in BOOLEAN

(* "Repeated identical failing operation": a tool is never executed again  *)
(* for a request that has failed twice with no success in between, in      *)
(* whatever order the model mixes its requests.                            *)
NoThirdTry == pc = "tool" => failures[request] < 2

(* "every budget is enforced here": however many tools answer, and however *)
(* long, their text in the transcript stays within the run's budget.       *)
FedBounded == fed <= MaxOutput

(* A tool is never started once the shared signal is aborted, wherever in  *)
(* the turn the abort came: tools write to the vault.                      *)
NoToolAfterAbort == [][pc' = "tool" /\ pc # "tool" => ~aborted']_vars

(* A user's stop is reported as one, although the deadline may pass, the   *)
(* watcher fire and the provider throw before or after it.  (Not when the  *)
(* caller's budget aborted the same signal before: the user's stop is then *)
(* no event for the loop.  Nor can a caller without isCancelled expect it.)*)
UserStopReported ==
  pc = "returned" /\ ext = "user" => status = "cancelled"

(* The promise made to the callers, with its liveness: the run returns     *)
(* though the provider and the tools may hang.                             *)
Promise == INSTANCE AgentRun
           WITH result <- IF pc = "returned" THEN status ELSE "none",
                stop <- aborted
KeepsPromise == Promise!Spec
=============================================================================
