---------------------------- MODULE IngestProofs ----------------------------
(***************************************************************************)
(* Proofs about runBoundedAgentLoop for every catalog of requests, every   *)
(* limit and every tool; and about the ingestion as MCPaperIngest runs it  *)
(* beside the loop, for any runs, papers and suffixes.  What PaperIngest   *)
(* does by itself is proved in PaperIngestProofs; here each behaviour of   *)
(* the composition is shown to be one of PaperIngest's own.                *)
(***************************************************************************)
EXTENDS MCPaperIngest, TLAPS

-----------------------------------------------------------------------------
(* The bounded loop.                                                       *)

(* The text a run has fed and what is left of its budget add up, until the *)
(* budget is used up and only notices are charged to it.                   *)
Accounting ==
  /\ budget \in Int /\ fed \in Int /\ fed <= MaxOutput
  /\ budget >= 0 => fed + budget = MaxOutput

(* No request has two failures behind it while the loop goes on, and the   *)
(* one in hand is a request of the catalog.                                *)
Patience ==
  /\ request \in Requests /\ failures \in [Requests -> Nat]
  /\ pc # "returned" => \A r \in Requests : failures[r] < 2

(* From the user's stop on, nothing but "cancelled" can be reported.       *)
Stopped ==
  ext = "user" => cancelled /\ aborted /\ status = "cancelled"

IInv == Accounting /\ Patience /\ Stopped

(* The two limits of Feed: what is charged is what is fed, within the      *)
(* budget as long as there is one.                                         *)
LEMMA FeedKeepsAccounting ==
  ASSUME Accounting, NEW len \in Lens, Feed(len)
  PROVE  Accounting'
<1> DEFINE t == IF len > MaxResult THEN MaxResult + Note ELSE len
           b == IF budget <= 0 THEN Notice ELSE Least(t, budget)
<1>1. len \in Nat /\ MaxResult \in Nat /\ Note \in Nat /\ Notice \in Nat
      /\ MaxOutput \in Nat
  BY LoopAssumption
<1>2. t \in Nat
  BY <1>1
<1>3. budget' = budget - b /\ fed' = fed + (IF budget <= 0 THEN 0 ELSE b)
  BY DEF Feed
<1>4. CASE budget <= 0
  <2>1. budget' = budget - Notice /\ fed' = fed
    BY <1>3, <1>4 DEF Accounting
  <2> QED BY <2>1, <1>1, <1>4 DEF Accounting
<1>5. CASE budget > 0
  <2>1. budget' = budget - Least(t, budget) /\ fed' = fed + Least(t, budget)
    BY <1>3, <1>5 DEF Accounting
  <2>2. Least(t, budget) \in Nat /\ Least(t, budget) <= budget
    BY <1>2, <1>5 DEF Least, Accounting
  <2> HIDE DEF t
  <2> QED BY <2>1, <2>2, <1>1, <1>5 DEF Accounting
<1> QED BY <1>4, <1>5 DEF Accounting

(* A failure that does not make the loop give up leaves its request with   *)
(* one failure; a success leaves it with none.                             *)
LEMMA CountingKeepsPatience ==
  ASSUME Patience, pc # "returned", NEW r \in Requests,
         request' = request \/ request' \in Requests,
         \/ Succeeded(r)
         \/ Failed(r) /\ (pc' = "returned" \/ ~GiveUp(r))
  PROVE  Patience'
BY DEF Patience, Succeeded, Failed, GiveUp

LEMMA InitIInv == Init => IInv
<1> SUFFICES ASSUME Init PROVE IInv
  OBVIOUS
<1>1. Accounting /\ Patience
  BY LoopAssumption DEF Init, Accounting, Patience
<1>2. Stopped
  BY Zenon DEF Init, Stopped
<1> QED BY <1>1, <1>2 DEF IInv

(* Every step keeps the invariant.                                         *)
LEMMA NextIInv == IInv /\ [Next]_vars => IInv'
<1> SUFFICES ASSUME IInv, [Next]_vars PROVE IInv'
  OBVIOUS
<1> USE DEF IInv
<1>1. CASE Top
  BY <1>1 DEF Top, Break, AbortFor, Accounting, Patience, Stopped, inputs, call,
     output
<1>2. CASE Register
  BY <1>2 DEF Register, Accounting, Patience, Stopped, inputs, output
<1>3. CASE ProviderThrows
  BY <1>3 DEF ProviderThrows, Throw, Idle, Accounting, Patience, Stopped,
     inputs, call, output
<1>4. CASE Dropped
  BY <1>4 DEF Dropped, BreakAborted, Break, Idle, Accounting, Patience, Stopped,
     inputs, call, output
<1>5. CASE Empty
  BY <1>5 DEF Empty, Answered, Break, Idle, Accounting, Patience, Stopped,
     inputs, call, output
<1>6. CASE Unparsable
  BY <1>6 DEF Unparsable, Answered, Break, Continue, Idle, Accounting, Patience,
     Stopped, inputs, call, output
<1>7. CASE Final
  BY <1>7 DEF Final, Answered, Break, Idle, Accounting, Patience, Stopped,
     inputs, call, output
<1>8. ASSUME NEW r \in Requests, UnknownTool(r) PROVE IInv'
  <2>1. Accounting' /\ Stopped'
    BY <1>8 DEF UnknownTool, Answered, Idle, Accounting, Stopped, inputs, output
  <2>2. Patience'
    <3>1. pc # "returned" /\ request' = request /\ Failed(r)
      BY <1>8 DEF UnknownTool, Answered
    <3>2. pc' = "returned" \/ ~GiveUp(r)
      BY <1>8 DEF UnknownTool, Throw
    <3> QED BY <3>1, <3>2, CountingKeepsPatience
  <2> QED BY <2>1, <2>2
<1>9. ASSUME NEW r \in Requests, Announce(r) PROVE IInv'
  BY <1>9 DEF Announce, Answered, Idle, Accounting, Patience, Stopped, inputs,
     call, output
<1>10. CASE Execute
  BY <1>10 DEF Execute, BreakAborted, Break, Idle, Accounting, Patience,
     Stopped, inputs, call, output
<1>11. ASSUME NEW len \in Lens, ToolOk(len) PROVE IInv'
  <2>1. Accounting'
    BY <1>11, FeedKeepsAccounting DEF ToolOk
  <2>2. Stopped'
    BY <1>11 DEF ToolOk, Stopped, inputs
  <2>3. Patience'
    <3>1. pc # "returned" /\ request' = request /\ Succeeded(request)
      BY <1>11 DEF ToolOk
    <3> QED BY <3>1, CountingKeepsPatience DEF Patience
  <2> QED BY <2>1, <2>2, <2>3
<1>12. ASSUME NEW len \in Lens, ToolFails(len) PROVE IInv'
  <2>1. Accounting'
    BY <1>12, FeedKeepsAccounting DEF ToolFails
  <2>2. Stopped'
    BY <1>12 DEF ToolFails, Throw, Stopped, inputs
  <2>3. Patience'
    <3>1. pc # "returned" /\ request' = request
      BY <1>12 DEF ToolFails
    <3>2. CASE aborted
      BY <1>12, <3>1, <3>2 DEF ToolFails, Patience
    <3>3. CASE ~aborted
      <4>1. Failed(request) /\ (pc' = "returned" \/ ~GiveUp(request))
        BY <1>12, <3>3 DEF ToolFails, Throw
      <4> QED BY <3>1, <4>1, CountingKeepsPatience DEF Patience
    <3> QED BY <3>2, <3>3
  <2> QED BY <2>1, <2>2, <2>3
<1>13. ASSUME NEW who \in {"user", "budget"}, ExternalAbort(who) PROVE IInv'
  BY <1>13 DEF ExternalAbort, AbortFor, Around, Accounting, Patience, Stopped,
     output
<1>14. CASE Late
  BY <1>14 DEF Late, Around, Accounting, Patience, Stopped, output
<1>15. CASE Watch
  BY <1>15 DEF Watch, AbortFor, Around, Accounting, Patience, Stopped, inputs,
     output
<1>16. CASE CancelWatch
  BY <1>16 DEF CancelWatch, Around, Accounting, Patience, Stopped, inputs, output
<1>17. CASE UNCHANGED vars
  BY <1>17 DEF vars, inputs, call, output, Accounting, Patience, Stopped
<1> QED
  BY <1>1, <1>2, <1>3, <1>4, <1>5, <1>6, <1>7, <1>8, <1>9, <1>10, <1>11, <1>12,
     <1>13, <1>14, <1>15, <1>16, <1>17 DEF Next, Model, Tool

LEMMA Invariance == Spec => []IInv
BY InitIInv, NextIInv, PTL DEF Spec

(* "every budget is enforced here": whatever the model asks for, the tool  *)
(* text in a run's transcript stays within maxToolOutputChars.             *)
THEOREM BudgetKept == Spec => []FedBounded
<1>1. IInv => FedBounded
  BY DEF IInv, Accounting, FedBounded
<1> QED BY Invariance, <1>1, PTL

(* No tool is executed for a request that failed twice in a row.           *)
THEOREM PatienceBounded == Spec => []NoThirdTry
<1>1. IInv => NoThirdTry
  BY DEF IInv, Patience, NoThirdTry
<1> QED BY Invariance, <1>1, PTL

(* A caller that passes isCancelled is told of the user's stop.            *)
THEOREM StopReported == Spec => []UserStopReported
<1>1. IInv => UserStopReported
  BY DEF IInv, Stopped, UserStopReported
<1> QED BY Invariance, <1>1, PTL

(* No tool is started once the shared signal is aborted: between the check *)
(* after the answer and the start there is only the callback of the step,  *)
(* after which Execute asks again.                                         *)
THEOREM ToolsStop == Spec => NoToolAfterAbort
<1> DEFINE Safe == pc' = "tool" /\ pc # "tool" => ~aborted'
<1>1. [Next]_vars => [Safe]_vars
  <2> SUFFICES ASSUME Next, pc' = "tool", pc # "tool" PROVE ~aborted'
    OBVIOUS
  <2>1. CASE Execute
    BY <2>1 DEF Execute, BreakAborted, Break, Idle
  <2>2. CASE Top \/ Register \/ Late \/ Watch \/ CancelWatch
             \/ \E who \in {"user", "budget"} : ExternalAbort(who)
    BY <2>2 DEF Top, Register, Late, Watch, CancelWatch, ExternalAbort, Around, Break, AbortFor
  <2>3. CASE Model \/ Tool
    BY <2>3 DEF Model, Tool, ProviderThrows, Dropped, Empty, Unparsable, Final, UnknownTool,
       Announce, ToolOk, ToolFails, Throw, BreakAborted, Break, Continue
  <2> QED BY <2>1, <2>2, <2>3 DEF Next
<1> QED BY <1>1, PTL DEF Spec, NoToolAfterAbort

-----------------------------------------------------------------------------
(***************************************************************************)
(* The loop and AgentRun.  The status is set where the signal is aborted,  *)
(* or where the loop is left: until then it says which of the two it was.  *)
(***************************************************************************)
Chosen ==
  pc # "returned" =>
    /\ aborted \in BOOLEAN
    /\ aborted => status \in {"cancelled", "budget-exhausted"}
    /\ ~aborted => status = "failed"
    /\ cancelled \/ ext # "nobody" => aborted

(* What a way out of the loop reports is one of the outcomes of such a run. *)
LEMMA BreakReports ==
  ASSUME Chosen, pc # "returned", NEW s, NEW e, Break(s, e),
         s \in Promise!Outcomes(aborted)
  PROVE  pc' = "returned" /\ status' \in Promise!Outcomes(aborted)
  BY DEF Break, Chosen, Promise!Outcomes

LEMMA ThrowReports ==
  ASSUME Chosen, pc # "returned", Throw
  PROVE  pc' = "returned" /\ status' \in Promise!Outcomes(aborted)
  BY DEF Throw, Chosen, Promise!Outcomes

(* The kinds of steps there are: the loop goes on, the signal is aborted,  *)
(* or the loop ends, with the signal as it is or aborted at once.          *)
LEMMA StepKinds ==
  ASSUME Chosen, [Next]_vars
  PROVE  \/ UNCHANGED <<aborted, status, cancelled, ext>> /\ (pc' = "returned" <=> pc = "returned")
         \/ /\ pc # "returned" /\ pc' # "returned" /\ aborted' = TRUE
            /\ status' \in {"cancelled", "budget-exhausted"}
         \/ /\ pc # "returned" /\ pc' = "returned"
            /\ aborted' = aborted \/ aborted' = TRUE
            /\ status' \in Promise!Outcomes(aborted')
<1> DEFINE Goal ==
         \/ UNCHANGED <<aborted, status, cancelled, ext>> /\ (pc' = "returned" <=> pc = "returned")
         \/ /\ pc # "returned" /\ pc' # "returned" /\ aborted' = TRUE
            /\ status' \in {"cancelled", "budget-exhausted"}
         \/ /\ pc # "returned" /\ pc' = "returned"
            /\ aborted' = aborted \/ aborted' = TRUE
            /\ status' \in Promise!Outcomes(aborted')
<1>e. ASSUME NEW s, NEW e, Break(s, e), pc # "returned", aborted' = aborted,
             s \in Promise!Outcomes(aborted)
      PROVE  Goal
  BY <1>e, BreakReports
<1>t. ASSUME Throw, pc # "returned", aborted' = aborted PROVE Goal
  BY <1>t, ThrowReports
<1>0. pc # "returned" => status \in Promise!Outcomes(aborted)
  BY DEF Chosen, Promise!Outcomes
<1>1. CASE Top
  <2>0. pc = "top"
    BY <1>1 DEF Top
  <2>1. CASE step > MaxSteps
    BY <1>0, <1>1, <1>e, <2>0, <2>1 DEF Top
  <2>2. CASE ~(step > MaxSteps)
    BY <1>1, <2>2 DEF Top, AbortFor, Promise!Outcomes, inputs
  <2> QED BY <2>1, <2>2
<1>2. CASE Register \/ Late \/ CancelWatch
  BY <1>2 DEF Register, Late, CancelWatch, Around, inputs
<1>3. CASE ProviderThrows
  BY <1>3, <1>t DEF ProviderThrows, Idle
<1>4. CASE Dropped
  <2> DEFINE s == IF cancelled THEN "cancelled" ELSE status
  <2>1. s \in Promise!Outcomes(aborted)
    BY <1>0, <1>4 DEF Dropped, Promise!Outcomes
  <2>2. Break(s, error) /\ pc # "returned" /\ aborted' = aborted
    BY <1>4 DEF Dropped, BreakAborted, Idle
  <2> HIDE DEF s
  <2>3. pc' = "returned" /\ status' \in Promise!Outcomes(aborted)
    BY <2>1, <2>2, BreakReports
  <2> QED BY <2>2, <2>3 DEF Promise!Outcomes
<1>5. CASE Empty \/ Unparsable
  <2>1. Break(status, TRUE) \/ (Continue /\ UNCHANGED status)
    BY <1>5 DEF Empty, Unparsable
  <2>2. pc = "provider" /\ UNCHANGED <<aborted, cancelled, ext>>
    BY <1>5 DEF Empty, Unparsable, Answered, Idle, inputs
  <2>3. CASE Break(status, TRUE)
    BY <1>0, <1>e, <2>2, <2>3
  <2>4. CASE Continue /\ UNCHANGED status
    BY <2>2, <2>4 DEF Continue
  <2> QED BY <2>1, <2>3, <2>4
<1>6. CASE Final
  <2>1. "completed" \in Promise!Outcomes(aborted) /\ pc # "returned"
    BY <1>6 DEF Final, Answered, Promise!Outcomes
  <2>2. Break("completed", error) /\ aborted' = aborted
    BY <1>6 DEF Final, Idle
  <2> QED BY <1>e, <2>1, <2>2
<1>7. CASE \E r \in Requests : UnknownTool(r)
  <2>1. Throw \/ (Continue /\ UNCHANGED <<status, error>>)
    <3> PICK r \in Requests : UnknownTool(r)
      BY <1>7
    <3> QED BY DEF UnknownTool, Throw, Continue
  <2>2. pc = "provider" /\ UNCHANGED <<aborted, cancelled, ext>>
    BY <1>7 DEF UnknownTool, Answered, Idle, inputs
  <2>3. CASE Throw
    BY <1>t, <2>2, <2>3
  <2>4. CASE Continue /\ UNCHANGED status
    BY <2>2, <2>4 DEF Continue
  <2> QED BY <2>1, <2>3, <2>4
<1>8. CASE \E r \in Requests : Announce(r)
  BY <1>8 DEF Announce, Answered, Idle, inputs
<1>9. CASE Execute
  <2> DEFINE s == IF cancelled THEN "cancelled" ELSE status
  <2>1. s \in Promise!Outcomes(aborted) \/ ~aborted
    BY <1>0, <1>9 DEF Execute, Promise!Outcomes
  <2>2. pc = "announced" /\ UNCHANGED <<aborted, cancelled, ext>>
    BY <1>9 DEF Execute, Idle, inputs
  <2>3. CASE aborted
    <3>1. Break(s, error)
      BY <1>9, <2>3 DEF Execute, BreakAborted
    <3> HIDE DEF s
    <3> QED BY <1>e, <2>1, <2>2, <2>3, <3>1
  <2>4. CASE ~aborted
    BY <1>9, <2>2, <2>4 DEF Execute
  <2> QED BY <2>3, <2>4
<1>10. CASE Tool
  <2>1. Throw \/ (Continue /\ UNCHANGED <<status, error>>)
    <3> PICK len \in Lens : ToolOk(len) \/ ToolFails(len)
      BY <1>10 DEF Tool
    <3>1. CASE ToolOk(len)
      BY <3>1, Zenon DEF ToolOk
    <3>2. CASE ToolFails(len)
      BY <3>2 DEF ToolFails, Throw, Continue
    <3> QED BY <3>1, <3>2
  <2>2. pc = "tool" /\ UNCHANGED <<aborted, cancelled, ext>>
    BY <1>10 DEF Tool, ToolOk, ToolFails, inputs
  <2>3. CASE Throw
    BY <1>t, <2>2, <2>3
  <2>4. CASE Continue /\ UNCHANGED status
    BY <2>2, <2>4 DEF Continue
  <2> QED BY <2>1, <2>3, <2>4
<1>11. CASE \E who \in {"user", "budget"} : ExternalAbort(who)
  BY <1>11 DEF ExternalAbort, AbortFor, Around, Chosen
<1>12. CASE Watch
  BY <1>12 DEF Watch, Awaiting, AbortFor, Around
<1>13. CASE UNCHANGED vars
  BY <1>13 DEF vars, inputs
<1> QED
  BY <1>1, <1>2, <1>3, <1>4, <1>5, <1>6, <1>7, <1>8, <1>9, <1>10, <1>11, <1>12, <1>13
  DEF Next, Model

LEMMA InitChosen == Init => Chosen /\ Promise!Init
<1> SUFFICES ASSUME Init PROVE Chosen /\ Promise!Init
  OBVIOUS
<1>1. pc = "top" /\ aborted \in BOOLEAN /\ (aborted <=> ext # "nobody")
      /\ (cancelled <=> ext = "user")
      /\ status = IF aborted THEN "cancelled" ELSE "failed"
  BY DEF Init
<1> QED BY <1>1 DEF Chosen, Promise!Init

LEMMA StepChosen == Chosen /\ [Next]_vars => Chosen'
  BY StepKinds DEF Chosen

(* A step of the loop is one of AgentRun, or changes nothing of it.        *)
LEMMA StepPromise ==
  ASSUME Chosen, [Next]_vars
  PROVE  [Promise!Next]_<<IF pc = "returned" THEN status ELSE "none", aborted>>
<1> DEFINE res == IF pc = "returned" THEN status ELSE "none"
<1>1. CASE UNCHANGED <<aborted, status, cancelled, ext>> /\ (pc' = "returned" <=> pc = "returned")
  BY <1>1
<1>2. CASE pc # "returned" /\ pc' # "returned" /\ aborted' = TRUE
  <2>1. res = "none" /\ res' = res /\ aborted \in BOOLEAN
    BY <1>2 DEF Chosen
  <2>2. CASE aborted
    BY <1>2, <2>1, <2>2
  <2>3. CASE ~aborted
    BY <1>2, <2>1, <2>3 DEF Promise!Next, Promise!Stop
  <2> QED BY <2>2, <2>3
<1>3. CASE /\ pc # "returned" /\ pc' = "returned"
           /\ aborted' = aborted \/ aborted' = TRUE
           /\ status' \in Promise!Outcomes(aborted')
  <2>1. res = "none" /\ res' = status' /\ aborted \in BOOLEAN
    BY <1>3 DEF Chosen
  <2>2. Promise!End
    BY <1>3, <2>1 DEF Promise!End
  <2>3. aborted' = aborted \/ Promise!Stop
    BY <1>3, <2>1 DEF Promise!Stop
  <2> QED BY <2>2, <2>3 DEF Promise!Next
<1> QED BY <1>1, <1>2, <1>3, StepKinds

(* The loop keeps its promise but for that it returns at all: one result,  *)
(* never a completion or a plain failure once the signal was aborted, and  *)
(* whatever comes after the return changes neither.                        *)
THEOREM RunReportsTruly == Spec => Promise!Safety
<1> QED BY InitChosen, StepChosen, StepPromise, PTL DEF Spec, Promise!Safety

(* In the composition the loop takes its own steps only.                   *)
LEMMA LoopBehaves == MCSpec => Spec
<1>1. MCInit => Init
  BY DEF MCInit
<1>2. [MCNext]_<<scenario, vars, ingestState, gateState>> => [Next]_vars
  BY DEF MCNext
<1> QED BY <1>1, <1>2, PTL DEF MCSpec, Spec

(* So in the composition, too, a run stays within its budget, repeats no   *)
(* failing operation a third time, starts no tool once it was aborted,     *)
(* reports the user's stop, and reports nothing that AgentRun forbids.     *)
THEOREM LoopHolds ==
  MCSpec => /\ [](FedBounded /\ NoThirdTry /\ UserStopReported)
            /\ NoToolAfterAbort /\ Promise!Safety
  BY LoopBehaves, BudgetKept, PatienceBounded, StopReported, ToolsStop, RunReportsTruly, PTL

-----------------------------------------------------------------------------
(* The ingestion.  Retrying and Stopping are the module of the proofs, at  *)
(* the variables and constants that the composition gives to Retry and to  *)
(* Stops: the same definitions.                                            *)
Retrying == INSTANCE PaperIngestProofs
            WITH pc <- at, cancelled <- stopped, late <- overdue,
                 Modes <- {"legacy"}, Catalogued <- {}, MaxActive <- 1,
                 Interrupts <- {}, MaxOthers <- 0,
                 Titles <- {Title, OtherTitle}, Dois <- {Doi, OtherDoi},
                 Registry <- {Paper(Title, Doi), Paper(Title, OtherDoi), Paper(OtherTitle, NoDoi)},
                 Answer <- Crossref,
                 Files <- {[layer |-> "wiki", key |-> "k1"], [layer |-> "papers", key |-> "k2"],
                           [layer |-> "clippings", key |-> NoCitekey]},
                 Contents <- {Paper(Title, OtherDoi), Paper(OtherTitle, Doi)},
                 Candidates <- 2, Reads <- 1, Searches <- 1,
                 Evidence <- {PdfYields({}, {Title}), PdfYields({Doi, OtherDoi}, {Title, OtherTitle}),
                              NoPdf}
Stopping == INSTANCE PaperIngestProofs
            WITH pc <- at, cancelled <- stopped, late <- overdue,
                 Runs <- {First}, Modes <- {"legacy", "source-v2"}, MaxActive <- 1,
                 Interrupts <- {"cancel", "late", "unload"}, MaxOthers <- 1,
                 Titles <- {Title, OtherTitle}, Dois <- {Doi, OtherDoi},
                 Registry <- {Paper(Title, Doi), Paper(Title, OtherDoi), Paper(OtherTitle, NoDoi)},
                 Answer <- Crossref,
                 Files <- {[layer |-> "wiki", key |-> "k1"], [layer |-> "papers", key |-> "k2"],
                           [layer |-> "clippings", key |-> NoCitekey]},
                 Contents <- {Paper(Title, OtherDoi), Paper(OtherTitle, Doi)},
                 Candidates <- 2, Reads <- 1, Searches <- 1,
                 Evidence <- {PdfYields({}, {Title}), PdfYields({Doi, OtherDoi}, {Title, OtherTitle}),
                              NoPdf}

(* What PaperIngest assumes of its constants holds of both.                *)
LEMMA IngestConstants == Retrying!IngestAssumption /\ Retrying!Alone /\ Stopping!IngestAssumption
BY CompositionAssumption
   DEF Retry!IngestAssumption, Retrying!IngestAssumption, Stops!IngestAssumption,
       Stopping!IngestAssumption, Retry!Nobody, Retrying!Nobody, Stops!Nobody, Stopping!Nobody,
       Retrying!Alone

(* To the ingestion a behaviour of the composition in which it runs is one *)
(* of its own; which part runs is decided at the start.                    *)
LEMMA RetryingBehaves == MCSpec /\ scenario = "retry" => Retrying!Spec /\ [](scenario = "retry")
<1>1. MCInit /\ scenario = "retry" => Retrying!Init
  BY DEF MCInit, Retry!Init, Retrying!Init, Retry!None, Retrying!None, Retry!Keys,
     Retrying!Keys, Retry!Citekeys, Retrying!Citekeys, Retry!Base, Retrying!Base,
     Retry!Formal, Retrying!Formal, Retry!Conversion, Retrying!Conversion, Retry!NoKey,
     Retrying!NoKey, Retry!Empty, Retrying!Empty, Retry!Nobody, Retrying!Nobody,
     Retry!NoJob, Retrying!NoJob, Retry!NoIdentity, Retrying!NoIdentity
<1>2. Retry!Next => Retrying!Next
  BY DEF Retry!Next, Retrying!Next, Retry!Nobody, Retrying!Nobody, Retry!Empty,
     Retrying!Empty, Retry!Base, Retrying!Base, Retry!Formal, Retrying!Formal,
     Retry!Conversion, Retrying!Conversion, Retry!NoKey, Retrying!NoKey, Retry!Citekeys,
     Retrying!Citekeys, Retry!Keys, Retrying!Keys, Retry!vault, Retrying!vault, Retry!flow,
     Retrying!flow, Retry!stops, Retrying!stops, Retry!ends, Retrying!ends, Retry!vars,
     Retrying!vars, Retry!None, Retrying!None, Retry!NoJob, Retrying!NoJob,
     Retry!NoIdentity, Retrying!NoIdentity, Retry!Aborted, Retrying!Aborted, Retry!Paper,
     Retrying!Paper, Retry!Wants, Retrying!Wants, Retry!LoopEnds, Retrying!LoopEnds,
     Retry!Records, Retrying!Records, Retry!LayersOf, Retrying!LayersOf, Retry!CitekeysOf,
     Retrying!CitekeysOf, Retry!At, Retrying!At, Retry!Go, Retrying!Go, Retry!Report,
     Retrying!Report, Retry!Stop, Retrying!Stop, Retry!Throw, Retrying!Throw, Retry!Begin,
     Retrying!Begin, Retry!Phase1Frame, Retrying!Phase1Frame, Retry!Authorise,
     Retrying!Authorise, Retry!ReadEvidence, Retrying!ReadEvidence, Retry!Missing,
     Retrying!Missing, Retry!Searched, Retrying!Searched, Retry!Identify, Retrying!Identify,
     Retry!Associate, Retrying!Associate, Retry!Confirmed, Retrying!Confirmed,
     Retry!Confirm, Retrying!Confirm, Retry!CloseWindow, Retrying!CloseWindow, Retry!Taken,
     Retrying!Taken, Retry!Unique, Retrying!Unique, Retry!Adopt, Retrying!Adopt,
     Retry!Existing, Retrying!Existing, Retry!MakeUnique, Retrying!MakeUnique, Retry!Intake,
     Retrying!Intake, Retry!Phase2Frame, Retrying!Phase2Frame, Retry!Extracting,
     Retrying!Extracting, Retry!Extract, Retrying!Extract, Retry!PackageKey,
     Retrying!PackageKey, Retry!Place, Retrying!Place, Retry!ExtractionFails,
     Retrying!ExtractionFails, Retry!Publish, Retrying!Publish, Retry!Bind, Retrying!Bind,
     Retry!Article, Retrying!Article, Retry!UsePdf, Retrying!UsePdf, Retry!Drafting,
     Retrying!Drafting, Retry!Blocked, Retrying!Blocked, Retry!DecideDraft,
     Retrying!DecideDraft, Retry!Draft, Retrying!Draft, Retry!Save, Retrying!Save,
     Retry!Write, Retrying!Write, Retry!Create, Retrying!Create, Retry!Readback,
     Retrying!Readback, Retry!Satisfied, Retrying!Satisfied, Retry!Failing,
     Retrying!Failing, Retry!Status, Retrying!Status, Retry!Finish, Retrying!Finish,
     Retry!Forget, Retrying!Forget, Retry!Dispose, Retrying!Dispose, Retry!Awaiting,
     Retrying!Awaiting, Retry!Cancel, Retrying!Cancel, Retry!RunLate, Retrying!RunLate,
     Retry!ShutDown, Retrying!ShutDown, Retry!ShutDownEnds, Retrying!ShutDownEnds,
     Retry!OthersCreate, Retrying!OthersCreate, Retry!Work, Retrying!Work,
     Retry!Loop!Outcomes, Retrying!Loop!Outcomes, Retry!Cardinality, Retrying!Cardinality
<1>3. UNCHANGED ingestState => UNCHANGED Retrying!vars
  BY DEF ingestState, Retrying!vars, Retrying!vault, Retrying!flow, Retrying!stops, Retrying!ends
<1>4. scenario = "retry" /\ [MCNext]_<<scenario, vars, ingestState, gateState>>
      => [Retrying!Next]_(Retrying!vars) /\ (scenario = "retry")'
  <2>1. scenario = "retry" /\ MCNext => Retry!Next /\ scenario' = scenario
    BY DEF MCNext
  <2> QED BY <1>2, <1>3, <2>1
<1> QED BY <1>1, <1>4, PTL DEF MCSpec, Retrying!Spec

LEMMA StoppingBehaves == MCSpec /\ scenario = "stops" => Stopping!Spec /\ [](scenario = "stops")
<1>1. MCInit /\ scenario = "stops" => Stopping!Init
  BY DEF MCInit, Stops!Init, Stopping!Init, Stops!None, Stopping!None, Stops!Keys,
     Stopping!Keys, Stops!Citekeys, Stopping!Citekeys, Stops!Base, Stopping!Base,
     Stops!Formal, Stopping!Formal, Stops!Conversion, Stopping!Conversion, Stops!NoKey,
     Stopping!NoKey, Stops!Empty, Stopping!Empty, Stops!Nobody, Stopping!Nobody,
     Stops!NoJob, Stopping!NoJob, Stops!NoIdentity, Stopping!NoIdentity
<1>2. Stops!Next => Stopping!Next
  BY DEF Stops!Next, Stopping!Next, Stops!Nobody, Stopping!Nobody, Stops!Empty,
     Stopping!Empty, Stops!Base, Stopping!Base, Stops!Formal, Stopping!Formal,
     Stops!Conversion, Stopping!Conversion, Stops!NoKey, Stopping!NoKey, Stops!Citekeys,
     Stopping!Citekeys, Stops!Keys, Stopping!Keys, Stops!vault, Stopping!vault, Stops!flow,
     Stopping!flow, Stops!stops, Stopping!stops, Stops!ends, Stopping!ends, Stops!vars,
     Stopping!vars, Stops!None, Stopping!None, Stops!NoJob, Stopping!NoJob,
     Stops!NoIdentity, Stopping!NoIdentity, Stops!Aborted, Stopping!Aborted, Stops!Paper,
     Stopping!Paper, Stops!Wants, Stopping!Wants, Stops!LoopEnds, Stopping!LoopEnds,
     Stops!Records, Stopping!Records, Stops!LayersOf, Stopping!LayersOf, Stops!CitekeysOf,
     Stopping!CitekeysOf, Stops!At, Stopping!At, Stops!Go, Stopping!Go, Stops!Report,
     Stopping!Report, Stops!Stop, Stopping!Stop, Stops!Throw, Stopping!Throw, Stops!Begin,
     Stopping!Begin, Stops!Phase1Frame, Stopping!Phase1Frame, Stops!Authorise,
     Stopping!Authorise, Stops!ReadEvidence, Stopping!ReadEvidence, Stops!Missing,
     Stopping!Missing, Stops!Searched, Stopping!Searched, Stops!Identify, Stopping!Identify,
     Stops!Associate, Stopping!Associate, Stops!Confirmed, Stopping!Confirmed,
     Stops!Confirm, Stopping!Confirm, Stops!CloseWindow, Stopping!CloseWindow, Stops!Taken,
     Stopping!Taken, Stops!Unique, Stopping!Unique, Stops!Adopt, Stopping!Adopt,
     Stops!Existing, Stopping!Existing, Stops!MakeUnique, Stopping!MakeUnique, Stops!Intake,
     Stopping!Intake, Stops!Phase2Frame, Stopping!Phase2Frame, Stops!Extracting,
     Stopping!Extracting, Stops!Extract, Stopping!Extract, Stops!PackageKey,
     Stopping!PackageKey, Stops!Place, Stopping!Place, Stops!ExtractionFails,
     Stopping!ExtractionFails, Stops!Publish, Stopping!Publish, Stops!Bind, Stopping!Bind,
     Stops!Article, Stopping!Article, Stops!UsePdf, Stopping!UsePdf, Stops!Drafting,
     Stopping!Drafting, Stops!Blocked, Stopping!Blocked, Stops!DecideDraft,
     Stopping!DecideDraft, Stops!Draft, Stopping!Draft, Stops!Save, Stopping!Save,
     Stops!Write, Stopping!Write, Stops!Create, Stopping!Create, Stops!Readback,
     Stopping!Readback, Stops!Satisfied, Stopping!Satisfied, Stops!Failing,
     Stopping!Failing, Stops!Status, Stopping!Status, Stops!Finish, Stopping!Finish,
     Stops!Forget, Stopping!Forget, Stops!Dispose, Stopping!Dispose, Stops!Awaiting,
     Stopping!Awaiting, Stops!Cancel, Stopping!Cancel, Stops!RunLate, Stopping!RunLate,
     Stops!ShutDown, Stopping!ShutDown, Stops!ShutDownEnds, Stopping!ShutDownEnds,
     Stops!OthersCreate, Stopping!OthersCreate, Stops!Work, Stopping!Work,
     Stops!Loop!Outcomes, Stopping!Loop!Outcomes, Stops!Cardinality, Stopping!Cardinality
<1>3. UNCHANGED ingestState => UNCHANGED Stopping!vars
  BY DEF ingestState, Stopping!vars, Stopping!vault, Stopping!flow, Stopping!stops, Stopping!ends
<1>4. scenario = "stops" /\ [MCNext]_<<scenario, vars, ingestState, gateState>>
      => [Stopping!Next]_(Stopping!vars) /\ (scenario = "stops")'
  <2>1. scenario = "stops" /\ MCNext => Stops!Next /\ scenario' = scenario
    BY DEF MCNext
  <2> QED BY <1>2, <1>3, <2>1
<1> QED BY <1>1, <1>4, PTL DEF MCSpec, Stopping!Spec

(* A behaviour in which another part runs.                                 *)
LEMMA PartStays ==
  MCSpec => /\ ~(scenario = "retry") => []~(scenario = "retry")
            /\ ~(scenario = "stops") => []~(scenario = "stops")
<1>1. [MCNext]_<<scenario, vars, ingestState, gateState>>
      => /\ ~(scenario = "retry") => (~(scenario = "retry"))'
         /\ ~(scenario = "stops") => (~(scenario = "stops"))'
  BY DEF MCNext
<1> QED BY <1>1, PTL DEF MCSpec

-----------------------------------------------------------------------------
(* The theorems about the ingestion.                                       *)

(* Runs one after the other, however they end: a paper has one record, and *)
(* no citekey has the files of two papers.                                 *)
THEOREM RecordsStayApart == MCSpec => []RecordsApart
<1>1. Retrying!Spec => [](Retrying!OneRecord /\ Retrying!Unmixed)
  BY IngestConstants, Retrying!RecordsStayApart
<1>2. Retrying!OneRecord /\ Retrying!Unmixed => RecordsApart
  BY DEF RecordsApart, Retry!OneRecord, Retrying!OneRecord, Retry!Unmixed, Retrying!Unmixed,
     Retry!Records, Retrying!Records, Retry!CitekeysOf, Retrying!CitekeysOf,
     Retry!Cardinality, Retrying!Cardinality, Retry!Empty, Retrying!Empty, Retry!Nobody,
     Retrying!Nobody, Retry!Keys, Retrying!Keys, Retry!Citekeys, Retrying!Citekeys,
     Retry!Base, Retrying!Base, Retry!Formal, Retrying!Formal, Retry!Conversion,
     Retrying!Conversion, Retry!NoKey, Retrying!NoKey
<1>3. ~(scenario = "retry") => RecordsApart
  BY DEF RecordsApart
<1> QED BY <1>1, <1>2, <1>3, PartStays, RetryingBehaves, PTL

(* A run that is stopped, overtaken by its budget or unloaded, with        *)
(* another writer in the vault, reports what is true and all it wrote.     *)
THEOREM ReportsHold == MCSpec => []ReportsTrue
<1>1. Stopping!Spec => [](Stopping!CompletedTrue /\ Stopping!Accounted)
  BY IngestConstants, Stopping!ReportsHold
<1>2. Stopping!CompletedTrue /\ Stopping!Accounted => ReportsTrue
  BY DEF ReportsTrue, Stops!CompletedTrue, Stopping!CompletedTrue, Stops!Accounted,
     Stopping!Accounted, Stops!Wants, Stopping!Wants, Stops!HasText, Stopping!HasText,
     Stops!Paper, Stopping!Paper, Stops!Wrote, Stopping!Wrote, Stops!Keys, Stopping!Keys,
     Stops!Citekeys, Stopping!Citekeys, Stops!Base, Stopping!Base, Stops!Formal,
     Stopping!Formal, Stops!Conversion, Stopping!Conversion, Stops!NoKey, Stopping!NoKey
<1>3. ~(scenario = "stops") => ReportsTrue
  BY DEF ReportsTrue
<1> QED BY <1>1, <1>2, <1>3, PartStays, StoppingBehaves, PTL

(* It writes nothing that the user has not confirmed, and no note without  *)
(* the source it was asked for.                                            *)
THEOREM WritesHold == MCSpec => []WritesBacked
<1>1. Stopping!Spec => [](Stopping!ConfirmedFirst /\ Stopping!NoteHasSource)
  BY IngestConstants, Stopping!WritesHold
<1>2. Stopping!ConfirmedFirst /\ Stopping!NoteHasSource => WritesBacked
  BY DEF WritesBacked, Stops!ConfirmedFirst, Stopping!ConfirmedFirst, Stops!NoteHasSource,
     Stopping!NoteHasSource, Stops!Wants, Stopping!Wants, Stops!HasText, Stopping!HasText,
     Stops!Paper, Stopping!Paper, Stops!Wrote, Stopping!Wrote, Stops!Keys, Stopping!Keys,
     Stops!Citekeys, Stopping!Citekeys, Stops!Base, Stopping!Base, Stops!Formal,
     Stopping!Formal, Stops!Conversion, Stopping!Conversion, Stops!NoKey, Stopping!NoKey
<1>3. ~(scenario = "stops") => WritesBacked
  BY DEF WritesBacked
<1> QED BY <1>1, <1>2, <1>3, PartStays, StoppingBehaves, PTL

(* When the plugin has been told that its runs are down, none has a copy   *)
(* of a PDF or anything left to do.                                        *)
THEOREM BarrierStands == MCSpec => []BarrierHolds
<1>1. Stopping!Spec => []Stopping!BarrierHolds
  BY IngestConstants, Stopping!BarrierStands
<1>2. Stopping!BarrierHolds => BarrierHolds
  BY DEF BarrierHolds, Stops!BarrierHolds, Stopping!BarrierHolds
<1>3. ~(scenario = "stops") => BarrierHolds
  BY DEF BarrierHolds
<1> QED BY <1>1, <1>2, <1>3, PartStays, StoppingBehaves, PTL

(* No package and no note is ever replaced, in either part.                *)
THEOREM VaultOnlyGrows == MCSpec => NothingReplaced
<1>1. Retrying!Spec => Retrying!NothingReplaced
  BY IngestConstants, Retrying!VaultOnlyGrows
<1>2. Stopping!Spec => Stopping!NothingReplaced
  BY IngestConstants, Stopping!VaultOnlyGrows
<1>3. Retrying!NothingReplaced => NothingReplaced
  BY DEF NothingReplaced, Retry!NothingReplaced, Retrying!NothingReplaced,
     Retry!Keys, Retrying!Keys, Retry!Citekeys, Retrying!Citekeys, Retry!Base,
     Retrying!Base, Retry!Formal, Retrying!Formal, Retry!Conversion, Retrying!Conversion,
     Retry!NoKey, Retrying!NoKey, Retry!Empty, Retrying!Empty, Retry!Nobody,
     Retrying!Nobody, Retry!vars, Retrying!vars, Retry!vault, Retrying!vault, Retry!flow,
     Retrying!flow, Retry!stops, Retrying!stops, Retry!ends, Retrying!ends
<1>4. Stopping!NothingReplaced => NothingReplaced
  BY DEF NothingReplaced, Retry!NothingReplaced, Stopping!NothingReplaced,
     Retry!Keys, Stopping!Keys, Retry!Citekeys, Stopping!Citekeys, Retry!Base,
     Stopping!Base, Retry!Formal, Stopping!Formal, Retry!Conversion, Stopping!Conversion,
     Retry!NoKey, Stopping!NoKey, Retry!Empty, Stopping!Empty, Retry!Nobody,
     Stopping!Nobody, Retry!vars, Stopping!vars, Retry!vault, Stopping!vault, Retry!flow,
     Stopping!flow, Retry!stops, Stopping!stops, Retry!ends, Stopping!ends
<1>5. scenario \notin {"retry", "stops"} /\ [MCNext]_<<scenario, vars, ingestState, gateState>>
      => UNCHANGED Retry!vars /\ (scenario \notin {"retry", "stops"})'
  BY DEF MCNext, ingestState, Retry!vars, Retry!vault, Retry!flow, Retry!stops, Retry!ends
<1>6. MCSpec /\ scenario \notin {"retry", "stops"} => NothingReplaced
  BY <1>5, PTL DEF MCSpec, NothingReplaced, Retry!NothingReplaced
<1>7. scenario = "retry" \/ scenario = "stops" \/ scenario \notin {"retry", "stops"}
  OBVIOUS
<1> QED BY <1>1, <1>2, <1>3, <1>4, <1>6, <1>7, RetryingBehaves, StoppingBehaves, PTL

-----------------------------------------------------------------------------
(* The identity phase, in the behaviours that are about it and in those    *)
(* where it rests.                                                         *)
LEMMA GateBehaves == MCSpec => Retrying!Gate!Spec
<1>1. MCInit => Retrying!Gate!Init
  BY DEF MCInit, Gate!Init, Retrying!Gate!Init, Gate!NoVerdict, Retrying!Gate!NoVerdict
<1>2. Gate!Next => Retrying!Gate!Next
  BY DEF Gate!Present, Retrying!Gate!Present, Gate!DoiOf, Retrying!Gate!DoiOf, Gate!TitleOf,
     Retrying!Gate!TitleOf, Gate!DoisOf, Retrying!Gate!DoisOf, Gate!NoVerdict,
     Retrying!Gate!NoVerdict, Gate!Lists, Retrying!Gate!Lists, Gate!VaultCandidates,
     Retrying!Gate!VaultCandidates, Gate!CandidateRead, Retrying!Gate!CandidateRead,
     Gate!Preflown, Retrying!Gate!Preflown, Gate!CrossrefDoi, Retrying!Gate!CrossrefDoi,
     Gate!CrossrefSearch, Retrying!Gate!CrossrefSearch, Gate!Verified,
     Retrying!Gate!Verified, Gate!VaultDoiSearch, Retrying!Gate!VaultDoiSearch,
     Gate!Claims, Retrying!Gate!Claims, Gate!Observed, Retrying!Gate!Observed,
     Gate!Matching, Retrying!Gate!Matching, Gate!LookedUp, Retrying!Gate!LookedUp,
     Gate!Selects, Retrying!Gate!Selects, Gate!Bound, Retrying!Gate!Bound, Gate!Holding,
     Retrying!Gate!Holding, Gate!Covered, Retrying!Gate!Covered, Gate!Same,
     Retrying!Gate!Same, Gate!Trusted, Retrying!Gate!Trusted, Gate!KeysOf,
     Retrying!Gate!KeysOf, Gate!ShownBy, Retrying!Gate!ShownBy, Gate!NoneSupported,
     Retrying!Gate!NoneSupported, Gate!ExactSupported, Retrying!Gate!ExactSupported,
     Gate!RecordSupported, Retrying!Gate!RecordSupported, Gate!Supported,
     Retrying!Gate!Supported, Gate!Decide, Retrying!Gate!Decide, Gate!tools,
     Retrying!Gate!tools, Gate!Cardinality, Retrying!Gate!Cardinality, Gate!Next,
     Retrying!Gate!Next
<1>3. [MCNext]_<<scenario, vars, ingestState, gateState>>
      => [Retrying!Gate!Next]_(Retrying!Gate!gateVars)
  BY <1>2 DEF MCNext, gateState, Retrying!Gate!gateVars, Retrying!Gate!tools
<1> QED BY <1>1, <1>3, PTL DEF MCSpec, Retrying!Gate!Spec

(* What the gate takes is a record of Crossref, new when it is taken for   *)
(* new, and one paper when it is taken for a duplicate.                    *)
THEOREM VerdictsStand == MCSpec => []VerdictsHold
<1>1. Retrying!Gate!GateAssumption
  BY CompositionAssumption DEF Gate!GateAssumption, Retrying!Gate!GateAssumption
<1>2. Retrying!Gate!Spec => [](/\ Retrying!Gate!IdentityGrounded /\ Retrying!Gate!NewIsNew
                               /\ Retrying!Gate!DuplicateIsOne)
  BY <1>1, Retrying!VerdictsStand, PTL
<1>3. /\ Retrying!Gate!IdentityGrounded /\ Retrying!Gate!NewIsNew
      /\ Retrying!Gate!DuplicateIsOne
      => VerdictsHold
  BY DEF VerdictsHold, Gate!IdentityGrounded, Retrying!Gate!IdentityGrounded, Gate!NewIsNew,
     Retrying!Gate!NewIsNew, Gate!DuplicateIsOne, Retrying!Gate!DuplicateIsOne,
     Gate!Accepted, Retrying!Gate!Accepted, Gate!Present, Retrying!Gate!Present,
     Gate!DoiOf, Retrying!Gate!DoiOf, Gate!TitleOf, Retrying!Gate!TitleOf, Gate!KeysOf,
     Retrying!Gate!KeysOf, Gate!Same, Retrying!Gate!Same, Gate!Cardinality,
     Retrying!Gate!Cardinality
<1> QED BY <1>2, <1>3, GateBehaves, PTL
=============================================================================
