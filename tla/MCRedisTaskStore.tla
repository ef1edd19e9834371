------------------------- MODULE MCRedisTaskStore -------------------------
(* Bounds for TLC. *)
EXTENDS RedisTaskStore, TLC

Symmetry == Permutations(Worker)
=============================================================================
