--------------------------- MODULE MCIdempotency ---------------------------
(* Instances of Idempotency for TLC. *)
EXTENDS Idempotency, TLC

(* Calls, payloads and responses are interchangeable. *)
Symmetry == Permutations(Request) \cup Permutations(Response)
=============================================================================
