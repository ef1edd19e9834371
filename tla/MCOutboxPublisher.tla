--------------------------- MODULE MCOutboxPublisher ---------------------------
(* OutboxPublisher on small instances. *)
EXTENDS OutboxPublisher, TLC

Symmetry == Permutations(Event) \cup Permutations(Process)

=============================================================================
