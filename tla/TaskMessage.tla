----------------------------- MODULE TaskMessage -----------------------------
(***************************************************************************)
(* The identity shared by the task table, the outbox and the work queue.   *)
(* An outbox payload and a queue body are the same flat TaskMessage; of    *)
(* its fields only task_id decides anything, so a message is a task id.    *)
(***************************************************************************)
CONSTANTS
    Task,                      \* task ids
    NoTask                     \* no message here

ASSUME TaskMessageAssumption == NoTask \notin Task

=============================================================================
