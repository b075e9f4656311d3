------------------------------- MODULE AgentRun ------------------------------
(***************************************************************************)
(* What a bounded agent loop promises its caller, whatever the model and   *)
(* the tools do: one result, in the end; none that claims completion once  *)
(* the run was told to stop; and no plain failure then either, for the     *)
(* result says that the run was stopped or ran out of its budget.          *)
(***************************************************************************)

VARIABLES result,   \* what the loop returned, or "none"
          stop      \* has the run's shared signal been aborted?

(* The results a run may end with.                                         *)
Outcomes(stopped) == IF stopped THEN {"cancelled", "budget-exhausted"}
                     ELSE {"completed", "failed", "budget-exhausted"}

Init == result = "none" /\ stop \in BOOLEAN

(* The signal is aborted at most once, by anybody, while the run lasts.    *)
Stop == result = "none" /\ ~stop /\ stop' = TRUE

End == result = "none" /\ result' \in Outcomes(stop')

Next == \/ Stop /\ (UNCHANGED result \/ End)
        \/ UNCHANGED stop /\ End

Safety == Init /\ [][Next]_<<result, stop>>

Returned == result # "none"

Spec == Safety /\ <>Returned
=============================================================================
