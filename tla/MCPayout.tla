------------------------------ MODULE MCPayout ------------------------------
(* Instances of Payout for TLC. *)
EXTENDS Payout, TLC

(* Slots and manual-retry keys are interchangeable. *)
Symmetry == Permutations(Request) \cup Permutations(Callback) \cup Permutations(OpsKey)
=============================================================================
