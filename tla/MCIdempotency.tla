--------------------------- MODULE MCIdempotency ---------------------------
(* Instances of Idempotency small enough for TLC.                          *)
EXTENDS Idempotency, TLC

Symmetry == Permutations(Senders) \union Permutations(Keys) \union Permutations(Bodies)
=============================================================================
