--------------------------- MODULE TaskRunLedger ---------------------------
(***************************************************************************)
(* What the task history promises its user, without queues, files or       *)
(* crashes: the outcome a reload of the plugin would show for every run.   *)
(* A run enters the ledger as running, settles once, and leaves only when  *)
(* a retention or clear operation retires it.                              *)
(***************************************************************************)
EXTENDS Naturals

CONSTANT Runs

VARIABLE ledger

Settled == {"done", "failed", "interrupted"}

LedgerState == {"absent", "running", "retired"} \cup Settled

(***************************************************************************)
(* The moves one run may make.  A rejected start withdraws its running     *)
(* entry; a settled outcome is never replaced by another one, and a        *)
(* retired run never comes back.                                           *)
(***************************************************************************)
Move(old, new) ==
  \/ old = new
  \/ old = "absent" /\ new = "running"
  \/ old = "running" /\ new \in Settled \cup {"absent"}
  \/ old \in Settled /\ new = "retired"

Init == ledger = [r \in Runs |-> "absent"]

(* One write of data.json may move several runs at once.                   *)
Next == /\ ledger' \in [Runs -> LedgerState]
        /\ \A r \in Runs : Move(ledger[r], ledger'[r])

Spec == Init /\ [][Next]_ledger
=============================================================================
