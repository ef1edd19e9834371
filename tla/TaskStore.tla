------------------------------ MODULE TaskStore ------------------------------
(***************************************************************************)
(* The task table: PostgresTaskStore, and InMemoryTaskStore, which holds   *)
(* the same rows behind a lock.  Each operation is one transaction.        *)
(*                                                                         *)
(* The code compares locked_until and expires_at only with the current     *)
(* time, so a row keeps the outcome of those comparisons instead of a      *)
(* clock: lease is "live" until LeaseExpires makes locked_until <= now,    *)
(* and ttl is "expired" once TtlExpires makes expires_at <= now.  Both may *)
(* happen at any moment, which stands for every choice of lease_seconds    *)
(* and ttl_seconds, and for a statement that commits long after it read    *)
(* the time.                                                               *)
(***************************************************************************)
EXTENDS Naturals, FiniteSets, TaskMessage

CONSTANTS
    TASKS_MAX_ATTEMPTS,        \* claims after which reclaim gives up
    TASKS_RECLAIM_BATCH_SIZE,
    TASKS_CLEANUP_BATCH_SIZE

ASSUME TaskStoreAssumption ==
    /\ TASKS_MAX_ATTEMPTS \in Nat \ {0}
    /\ TASKS_RECLAIM_BATCH_SIZE \in Nat \ {0}
    /\ TASKS_CLEANUP_BATCH_SIZE \in Nat \ {0}

VARIABLE tasks                 \* the table, "none" where no row was inserted yet

Terminal == {"completed", "failed"}

Row == [status   : {"none", "queued", "processing", "purged"} \cup Terminal,
        attempts : Nat,
        lease    : {"none", "live", "expired"},   \* locked_until against now
        ttl      : {"running", "expired"}]        \* expires_at against now

NoRow == [status |-> "none", attempts |-> 0, lease |-> "none", ttl |-> "running"]

\* A row that a SELECT by id finds; a purged id never comes back (uuid4).
Exists(t) == tasks[t].status \notin {"none", "purged"}

TaskStoreInit == tasks = [t \in Task |-> NoRow]

\* create, and the row the outbox dispatcher inserts itself (new_task_row).
Create(t) ==
    /\ tasks[t].status = "none"
    /\ tasks' = [tasks EXCEPT ![t].status = "queued"]

LeaseExpired(t) == tasks[t].status = "processing" /\ tasks[t].lease = "expired"

\* Mutants of Claimable: the lease is not looked at; FAILED may be claimed.
ClaimableUnderLease(t) == tasks[t].status \in {"queued", "processing"}
ClaimableWhenFailed(t) == tasks[t].status \in {"queued", "failed"} \/ LeaseExpired(t)

Claimable(t) == tasks[t].status = "queued" \/ LeaseExpired(t)

\* mark_processing, when its compare-and-set finds the row claimable.
MarkProcessing(t) ==
    /\ Claimable(t)
    /\ tasks' = [tasks EXCEPT ![t].status = "processing",
                              ![t].lease = "live",
                              ![t].attempts = @ + 1]

\* mark_completed and mark_failed: WHERE id = task_id and nothing else.
Update(t, status) ==
    /\ Exists(t)
    /\ tasks' = [tasks EXCEPT ![t].status = status, ![t].lease = "none"]

\* The rows one reclaim transaction may settle.  Their order by locked_until
\* is below the abstraction, and SKIP LOCKED leaves out rows that another
\* transaction holds, so the batch is any non-empty set within the limit.
StaleBatch ==
    {S \in SUBSET {t \in Task : LeaseExpired(t)} :
        S # {} /\ Cardinality(S) <= TASKS_RECLAIM_BATCH_SIZE}

\* Mutant of Requeued: one claim too many.
RequeuedAtCap(S) == {t \in S : tasks[t].attempts <= TASKS_MAX_ATTEMPTS}

Requeued(S) == {t \in S : tasks[t].attempts < TASKS_MAX_ATTEMPTS}

\* Mutant of ReclaimStaleProcessing: an exhausted task keeps its status.
ReclaimKeepsExhausted(S) ==
    tasks' = [t \in Task |->
                IF t \notin S THEN tasks[t]
                ELSE [tasks[t] EXCEPT
                        !.status = IF t \in Requeued(S) THEN "queued" ELSE @,
                        !.lease = "none"]]

ReclaimStaleProcessing(S) ==
    tasks' = [t \in Task |->
                IF t \notin S THEN tasks[t]
                ELSE [tasks[t] EXCEPT
                        !.status = IF t \in Requeued(S) THEN "queued" ELSE "failed",
                        !.lease = "none"]]

ExpiredBatch ==
    {S \in SUBSET {t \in Task : Exists(t) /\ tasks[t].ttl = "expired"} :
        S # {} /\ Cardinality(S) <= TASKS_CLEANUP_BATCH_SIZE}

\* delete_expired: whatever the status of the row and its lease.
DeleteExpired(S) ==
    tasks' = [t \in Task |->
                IF t \in S
                THEN [tasks[t] EXCEPT !.status = "purged", !.lease = "none"]
                ELSE tasks[t]]

-----------------------------------------------------------------------------
(* Time passing *)

LeaseExpires(t) ==
    /\ tasks[t].lease = "live"
    /\ tasks' = [tasks EXCEPT ![t].lease = "expired"]

TtlExpires(t) ==
    /\ Exists(t)
    /\ tasks[t].ttl = "running"
    /\ tasks' = [tasks EXCEPT ![t].ttl = "expired"]

=============================================================================
