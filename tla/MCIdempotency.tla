--------------------------- MODULE MCIdempotency ---------------------------
(***************************************************************************)
(* Instances of Idempotency.  Keys and requests are interchangeable.        *)
(***************************************************************************)
EXTENDS Idempotency, TLC

Interchangeable == Permutations(Keys) \cup Permutations(Requests)
=============================================================================
