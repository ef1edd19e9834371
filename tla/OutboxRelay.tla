----------------------------- MODULE OutboxRelay -----------------------------
(***************************************************************************)
(* The transactional outbox: PostgresOutboxStore and the OutboxPublisher   *)
(* that every worker process runs in its relay loop.                       *)
(*                                                                         *)
(* A publisher claims a batch under a lock, then sends and marks its       *)
(* records one by one.  The lock may expire at any moment in between, so   *)
(* another publisher may claim, publish or give up on the same record;     *)
(* neither mark looks at the row it overwrites.  As in TaskStore, a row    *)
(* keeps the outcome of comparing locked_until, available_at and           *)
(* published_at with the time.  The pool Event bounds how many rows exist  *)
(* at a time; a deleted row's name is free again once nobody refers to it. *)
(***************************************************************************)
EXTENDS Naturals, FiniteSets, TaskMessage

CONSTANTS
    Event,                     \* pool of outbox row ids
    Process,                   \* worker processes, one publisher each
    OUTBOX_BATCH_SIZE,
    OUTBOX_MAX_ATTEMPTS,       \* RetryPolicy.max_attempts
    OUTBOX_CLEANUP_BATCH_SIZE

ASSUME OutboxAssumption ==
    /\ OUTBOX_BATCH_SIZE \in Nat \ {0}
    /\ OUTBOX_MAX_ATTEMPTS \in Nat \ {0}
    /\ OUTBOX_CLEANUP_BATCH_SIZE \in Nat \ {0}

VARIABLES
    outbox,                    \* the outbox table
    batch,                     \* records a publisher claimed and has not settled
    settling                   \* the record (at most one) it sent or failed to, yet to mark

outboxVars == <<outbox, batch, settling>>

EventRow == [status    : {"free", "pending", "published", "failed"},
             payload   : Task \cup {NoTask},
             attempts  : Nat,
             lock      : {"none", "live", "expired"},  \* locked_until against now
             due       : BOOLEAN,                      \* available_at <= now
             old       : BOOLEAN]                      \* published_at < now - retention

NoEvent == [status |-> "free", payload |-> NoTask, attempts |-> 0,
            lock |-> "none", due |-> TRUE, old |-> FALSE]

\* The part of OutboxRecord that the publisher acts on after the claim.
Record == [id : Event, payload : Task \cup {NoTask}, attempts : Nat]

\* What publish_pending remembers between a send and the mark it owes.
Settlement == [outcome : {"sent", "error"}, record : Record]

Idle(p) == batch[p] = {} /\ settling[p] = {}

OutboxInit ==
    /\ outbox = [e \in Event |-> NoEvent]
    /\ batch = [p \in Process |-> {}]
    /\ settling = [p \in Process |-> {}]

\* No publisher still holds a record of this row.
Unreferenced(e) ==
    \A p \in Process :
        /\ \A r \in batch[p] : r.id # e
        /\ \A s \in settling[p] : s.record.id # e

\* new_outbox_row, once for each e in DOMAIN f with payload f[e], all inserted
\* in the transaction of the caller.
Insert(f) ==
    /\ \A e \in DOMAIN f : outbox[e].status = "free" /\ Unreferenced(e)
    /\ outbox' = [e \in Event |->
                    IF e \in DOMAIN f
                    THEN [NoEvent EXCEPT !.status = "pending", !.payload = f[e]]
                    ELSE outbox[e]]
    /\ UNCHANGED <<batch, settling>>

\* Mutants of Pending: the lock is ignored; a PUBLISHED row matches; a lock
\* must be released, its expiry is not enough.
PendingIgnoresLock(e) == outbox[e].status = "pending" /\ outbox[e].due
PendingOrPublished(e) ==
    /\ outbox[e].status \in {"pending", "published"}
    /\ outbox[e].due
    /\ outbox[e].lock # "live"
PendingUnlocked(e) ==
    /\ outbox[e].status = "pending"
    /\ outbox[e].due
    /\ outbox[e].lock = "none"

\* _pending_stmt
Pending(e) ==
    /\ outbox[e].status = "pending"
    /\ outbox[e].due
    /\ outbox[e].lock # "live"

\* claim_pending: SKIP LOCKED leaves any batch within the limit.
ClaimPending(p, S) ==
    /\ Idle(p)
    /\ S # {} /\ Cardinality(S) <= OUTBOX_BATCH_SIZE
    /\ \A e \in S : Pending(e)
    /\ outbox' = [e \in Event |->
                    IF e \in S THEN [outbox[e] EXCEPT !.lock = "live"] ELSE outbox[e]]
    /\ batch' = [batch EXCEPT ![p] =
                    {[id |-> e, payload |-> outbox[e].payload,
                      attempts |-> outbox[e].attempts] : e \in S}]
    /\ UNCHANGED settling

\* sink.publish returned, or raised; the record is marked by a later statement.
Publish(p, r, outcome) ==
    /\ settling[p] = {}
    /\ r \in batch[p]
    /\ batch' = [batch EXCEPT ![p] = @ \ {r}]
    /\ settling' = [settling EXCEPT ![p] = {[outcome |-> outcome, record |-> r]}]
    /\ UNCHANGED outbox

\* Mutant of ShouldRetry: off by one.
ShouldRetryOneLess(r) == r.attempts + 2 < OUTBOX_MAX_ATTEMPTS

\* RetryPolicy.decision for the attempt that just failed.
ShouldRetry(r) == r.attempts + 1 < OUTBOX_MAX_ATTEMPTS

\* Mutants of Marked: the attempt is taken off; giving up marks PUBLISHED.
MarkedCountsDown(row, s) ==
    IF s.outcome = "sent"
    THEN [row EXCEPT !.status = "published", !.lock = "none", !.old = FALSE]
    ELSE [row EXCEPT !.status = IF ShouldRetry(s.record) THEN "pending" ELSE "failed",
                     !.attempts = @ - 1,
                     !.lock = "none",
                     !.due = IF ShouldRetry(s.record) THEN FALSE ELSE @]
MarkedPublishedOnGivingUp(row, s) ==
    IF s.outcome = "sent" \/ ~ShouldRetry(s.record)
    THEN [row EXCEPT !.status = "published", !.lock = "none", !.old = FALSE]
    ELSE [row EXCEPT !.status = "pending", !.attempts = @ + 1,
                     !.lock = "none", !.due = FALSE]

\* mark_published and mark_failed as publish_pending calls them: WHERE id only.
Marked(row, s) ==
    IF s.outcome = "sent"
    THEN [row EXCEPT !.status = "published", !.lock = "none", !.old = FALSE]
    ELSE [row EXCEPT !.status = IF ShouldRetry(s.record) THEN "pending" ELSE "failed",
                     !.attempts = @ + 1,
                     !.lock = "none",
                     !.due = IF ShouldRetry(s.record) THEN FALSE ELSE @]

Mark(p, s) ==
    /\ s \in settling[p]
    /\ outbox[s.record.id].status # "free"
    /\ outbox' = [outbox EXCEPT ![s.record.id] = Marked(@, s)]
    /\ settling' = [settling EXCEPT ![p] = {}]
    /\ UNCHANGED batch

\* The row is gone (KeyError), a statement failed or the process crashed: the
\* rest of the batch is abandoned and stays locked until its lock expires.
AbandonBatch(p) ==
    /\ batch' = [batch EXCEPT ![p] = {}]
    /\ settling' = [settling EXCEPT ![p] = {}]
    /\ UNCHANGED outbox

MarkMissing(p, s) ==
    /\ s \in settling[p]
    /\ outbox[s.record.id].status = "free"
    /\ AbandonBatch(p)

\* delete_published_before
DeletePublished(S) ==
    /\ S # {} /\ Cardinality(S) <= OUTBOX_CLEANUP_BATCH_SIZE
    /\ \A e \in S : outbox[e].status = "published" /\ outbox[e].old
    /\ outbox' = [e \in Event |-> IF e \in S THEN NoEvent ELSE outbox[e]]
    /\ UNCHANGED <<batch, settling>>

-----------------------------------------------------------------------------
(* Time passing *)

LockExpires(e) ==
    /\ outbox[e].lock = "live"
    /\ outbox' = [outbox EXCEPT ![e].lock = "expired"]
    /\ UNCHANGED <<batch, settling>>

BecomesDue(e) ==
    /\ ~outbox[e].due
    /\ outbox' = [outbox EXCEPT ![e].due = TRUE]
    /\ UNCHANGED <<batch, settling>>

RetentionEnds(e) ==
    /\ outbox[e].status = "published"
    /\ ~outbox[e].old
    /\ outbox' = [outbox EXCEPT ![e].old = TRUE]
    /\ UNCHANGED <<batch, settling>>

=============================================================================
