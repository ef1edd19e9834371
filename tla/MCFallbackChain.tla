--------------------------- MODULE MCFallbackChain ---------------------------
(* FallbackChain on small instances. *)
EXTENDS FallbackChain, TLC

Symmetry == Permutations(Call)

=============================================================================
