--------------------------- MODULE MCRateLimiter ---------------------------
(* Bounds for TLC. *)
EXTENDS RateLimiter, TLC

Symmetry == Permutations(Key)
=============================================================================
