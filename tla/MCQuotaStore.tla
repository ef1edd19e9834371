---------------------------- MODULE MCQuotaStore -----------------------------
(* QuotaStore on small instances. *)
EXTENDS QuotaStore, TLC

\* The Mongo store promises nothing after a fault: do not go on from there.
Promising == backend = "mongo" => ~fault

Symmetry == Permutations(Caller)

=============================================================================
