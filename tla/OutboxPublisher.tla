---------------------------- MODULE OutboxPublisher ----------------------------
(***************************************************************************)
(* The publishers of several worker processes on one outbox table, with    *)
(* any sink: the queue, or a webhook.  The sink may refuse every record;   *)
(* MAX_CRASHES bounds how often a process dies or loses the database in a  *)
(* batch.                                                                  *)
(***************************************************************************)
EXTENDS OutboxRelay

CONSTANT MAX_CRASHES

ASSUME OutboxPublisherAssumption == MAX_CRASHES \in Nat

VARIABLES
    sent,                      \* history: rows whose record the sink accepted
    overdue,                   \* history: rows whose lock ran out under a publisher
    crashes

pubVars == <<outbox, batch, settling, sent, overdue, crashes>>

PubTypeOK ==
    /\ outbox \in [Event -> EventRow]
    /\ batch \in [Process -> SUBSET Record]
    /\ settling \in [Process -> SUBSET Settlement]
    /\ sent \subseteq Event
    /\ overdue \subseteq Event
    /\ crashes \in 0..MAX_CRASHES

PubInit ==
    /\ OutboxInit
    /\ sent = {}
    /\ overdue = {}
    /\ crashes = 0

\* A name that is taken again starts a new history.
Enqueue(e, x) ==
    /\ Insert([y \in {e} |-> x])
    /\ sent' = sent \ {e}
    /\ overdue' = overdue \ {e}
    /\ UNCHANGED crashes

Claim(p, S) ==
    /\ ClaimPending(p, S)
    /\ UNCHANGED <<sent, overdue, crashes>>

SinkAccepts(p, r) ==
    /\ Publish(p, r, "sent")
    /\ sent' = sent \cup {r.id}
    /\ UNCHANGED <<overdue, crashes>>

SinkRaises(p, r) ==
    /\ Publish(p, r, "error")
    /\ UNCHANGED <<sent, overdue, crashes>>

MarkRecord(p, s) ==
    /\ Mark(p, s) \/ MarkMissing(p, s)
    /\ UNCHANGED <<sent, overdue, crashes>>

CrashInBatch(p) ==
    /\ ~Idle(p)
    /\ crashes < MAX_CRASHES
    /\ AbandonBatch(p)
    /\ crashes' = crashes + 1
    /\ UNCHANGED <<sent, overdue>>

Purge(S) ==
    /\ DeletePublished(S)
    /\ UNCHANGED <<sent, overdue, crashes>>

\* Publisher p is between the claim of row e and the mark it owes.
Holds(p, e) ==
    \/ \E r \in batch[p] : r.id = e
    \/ \E s \in settling[p] : s.record.id = e

LockRunsOut(e) ==
    /\ LockExpires(e)
    /\ overdue' = IF \E p \in Process : Holds(p, e) THEN overdue \cup {e} ELSE overdue
    /\ UNCHANGED <<sent, crashes>>

Elapse(e) ==
    /\ BecomesDue(e) \/ RetentionEnds(e)
    /\ UNCHANGED <<sent, overdue, crashes>>

PublishPending(p) ==
    \/ \E S \in SUBSET Event : Claim(p, S)
    \/ \E r \in batch[p] : SinkAccepts(p, r) \/ SinkRaises(p, r)
    \/ \E s \in settling[p] : MarkRecord(p, s)

PubNext ==
    \/ \E e \in Event, x \in Task : Enqueue(e, x)
    \/ \E p \in Process : PublishPending(p) \/ CrashInBatch(p)
    \/ \E S \in SUBSET Event : Purge(S)
    \/ \E e \in Event : LockRunsOut(e) \/ Elapse(e)

PubSpec == PubInit /\ [][PubNext]_pubVars

\* Each relay loop keeps calling publish_pending, and time passes.
PubFairness ==
    /\ \A p \in Process : WF_pubVars(PublishPending(p))
    /\ \A e \in Event : WF_pubVars(LockRunsOut(e)) /\ WF_pubVars(Elapse(e))

PubFairSpec == PubSpec /\ PubFairness

-----------------------------------------------------------------------------
(* Properties *)

\* At least once: a row is PUBLISHED, or was purged, only after the sink
\* accepted its record, even when a publisher that lost its lock marks it.
PublishedWasSent ==
    \A e \in Event : outbox[e].status = "published" => e \in sent

\* "without claiming the same row twice": two publishers hold the same row
\* only when its lock ran out while the first was still in its batch.
NoDoubleClaim ==
    \A e \in Event, p, q \in Process :
        e \notin overdue /\ Holds(p, e) /\ Holds(q, e) => p = q

\* A row is FAILED only after OUTBOX_MAX_ATTEMPTS refused publishes, although
\* the decision rests on the attempts read when the batch was claimed.
GivesUpAtCap ==
    \A e \in Event : outbox[e].status = "failed" => outbox[e].attempts >= OUTBOX_MAX_ATTEMPTS

\* The lock protects the outcome: a PUBLISHED row goes back to PENDING, and
\* its event out again, only if some publisher lost its lock on that row.
PublishedOnce ==
    [][\A e \in Event :
        outbox[e].status = "published" /\ e \notin overdue
        => outbox'[e].status \in {"published", "free"}]_pubVars

\* Every event leaves the outbox: it is handed to the sink or marked FAILED,
\* with crashed batches picked up again when their locks expire.
EventIsSettled ==
    \A e \in Event :
        outbox[e].status = "pending" ~> outbox[e].status \in {"published", "failed", "free"}

=============================================================================
