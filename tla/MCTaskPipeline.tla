---------------------------- MODULE MCTaskPipeline ----------------------------
(* TaskPipeline on small instances. *)
EXTENDS TaskPipeline, TLC

\* Ids are interchangeable: the code never orders or computes with them.
Symmetry ==
    Permutations(Task) \cup Permutations(Event) \cup Permutations(Process)
        \cup Permutations(Handler) \cup Permutations(MsgId)

=============================================================================
