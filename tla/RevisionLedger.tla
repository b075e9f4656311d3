--------------------------- MODULE RevisionLedger ---------------------------
(***************************************************************************)
(* What an append-only journal of decisions promises to those who save in  *)
(* it from several windows: nothing committed is ever changed or removed,  *)
(* and whoever is told that a decision was saved is told so at a moment at *)
(* which every other decision is an ancestor of it.  Two saves reported as *)
(* successful therefore never ignore one another.                          *)
(***************************************************************************)
EXTENDS FiniteSets

CONSTANT Revisions

VARIABLES history,   \* the committed revisions, each with its ancestors
          told       \* those whose save was reported as successful

ledger == <<history, told>>

Init == history = [i \in {} |-> {}] /\ told = {}

Commit(i, past) ==
  /\ i \notin DOMAIN history /\ past \subseteq DOMAIN history
  /\ history' = [j \in DOMAIN history \cup {i} |-> IF j = i THEN past ELSE history[j]]
  /\ UNCHANGED told

Tell(i) ==
  /\ i \in DOMAIN history
  /\ DOMAIN history \ {i} \subseteq history[i]
  /\ told' = told \cup {i} /\ UNCHANGED history

Next == \E i \in Revisions : Tell(i) \/ \E past \in SUBSET DOMAIN history : Commit(i, past)

Spec == Init /\ [][Next]_ledger

(* Of two reported saves, one was made with knowledge of the other.        *)
ToldIsChain == \A i, j \in told : i = j \/ i \in history[j] \/ j \in history[i]
=============================================================================
