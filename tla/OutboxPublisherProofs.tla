------------------------ MODULE OutboxPublisherProofs ------------------------
(***************************************************************************)
(* Theorems about OutboxPublisher, for any tables, publishers and limits.  *)
(*                                                                         *)
(* None of the properties is inductive: they speak of rows, while a mark   *)
(* acts on what a publisher remembers of a row.  The invariant therefore   *)
(* relates the two.  A publisher remembers a send only if the sink took    *)
(* the record, the attempts it remembers are at most those of the row,     *)
(* it holds a row once, and a row it holds is still PENDING under a live   *)
(* lock as long as no lock ran out on it.                                  *)
(***************************************************************************)
EXTENDS OutboxPublisher, TLAPS

\* A settlement "sent" is backed by the sink.
SettledWasSent ==
    \A p \in Process : \A s \in settling[p] :
        s.outcome = "sent" => s.record.id \in sent

\* The attempts read at the claim are at most those of the row, if it exists.
AttemptsNotAhead ==
    \A p \in Process :
        /\ \A r \in batch[p] :
              outbox[r.id].status # "free" => r.attempts <= outbox[r.id].attempts
        /\ \A s \in settling[p] :
              outbox[s.record.id].status # "free"
                  => s.record.attempts <= outbox[s.record.id].attempts

\* A publisher holds at most one record of a row, and settles one at a time.
HeldOnce ==
    \A p \in Process :
        /\ \A r1, r2 \in batch[p] : r1.id = r2.id => r1 = r2
        /\ \A s1, s2 \in settling[p] : s1 = s2
        /\ \A r \in batch[p], s \in settling[p] : r.id # s.record.id

\* Until its lock runs out, a held row is pending and locked.
HeldIsLocked ==
    \A p \in Process, e \in Event :
        Holds(p, e) /\ e \notin overdue
            => outbox[e].status = "pending" /\ outbox[e].lock = "live"

IInv ==
    /\ PubTypeOK
    /\ PublishedWasSent
    /\ SettledWasSent
    /\ GivesUpAtCap
    /\ AttemptsNotAhead
    /\ HeldOnce
    /\ HeldIsLocked
    /\ NoDoubleClaim

-----------------------------------------------------------------------------

LEMMA InvInit == PubInit => IInv
<1> SUFFICES ASSUME PubInit PROVE IInv
  OBVIOUS
<1>1. PubTypeOK
  BY OutboxPublisherAssumption DEF PubInit, OutboxInit, PubTypeOK, NoEvent, EventRow
<1> QED
  BY <1>1 DEF PubInit, OutboxInit, IInv, PublishedWasSent, SettledWasSent, GivesUpAtCap,
     AttemptsNotAhead, HeldOnce, HeldIsLocked, NoDoubleClaim, Holds, NoEvent

\* The name of a row is taken only when nobody holds a record of it.
LEMMA EnqueueStep ==
    ASSUME IInv, NEW e \in Event, NEW x \in Task, Enqueue(e, x)
    PROVE  IInv'
<1>1. /\ outbox[e].status = "free"
      /\ Unreferenced(e)
      /\ outbox' = [y \in Event |->
                      IF y = e THEN [NoEvent EXCEPT !.status = "pending", !.payload = x]
                      ELSE outbox[y]]
      /\ batch' = batch /\ settling' = settling
      /\ sent' = sent \ {e} /\ overdue' = overdue \ {e} /\ crashes' = crashes
  <2>1. DOMAIN [y \in {e} |-> x] = {e} /\ [y \in {e} |-> x][e] = x
    OBVIOUS
  <2> QED
    BY <2>1 DEF Enqueue, Insert
<1>2. [NoEvent EXCEPT !.status = "pending", !.payload = x] \in EventRow
  BY DEF NoEvent, EventRow
<1>3. PubTypeOK'
  BY <1>1, <1>2 DEF IInv, PubTypeOK
<1>4. outbox'[e].status = "pending" /\ outbox'[e].attempts = 0
  BY <1>1 DEF NoEvent
<1>5. \A y \in Event \ {e} : outbox'[y] = outbox[y]
  BY <1>1
<1>6. \A p \in Process : ~Holds(p, e) /\ \A y \in Event : Holds(p, y)' = Holds(p, y)
  BY <1>1 DEF Unreferenced, Holds
<1>7. PublishedWasSent' /\ GivesUpAtCap'
  BY <1>1, <1>4, <1>5 DEF IInv, PublishedWasSent, GivesUpAtCap
<1>8. \A p \in Process : /\ \A r \in batch[p] : r.id \in Event \ {e}
                         /\ \A s \in settling[p] : s.record.id \in Event \ {e}
  BY <1>1 DEF Unreferenced, IInv, PubTypeOK, Record, Settlement
<1>9. SettledWasSent' /\ AttemptsNotAhead' /\ HeldOnce'
  BY <1>1, <1>5, <1>8 DEF IInv, SettledWasSent, AttemptsNotAhead, HeldOnce
<1>10. HeldIsLocked' /\ NoDoubleClaim'
  BY <1>1, <1>5, <1>6 DEF IInv, HeldIsLocked, NoDoubleClaim
<1> QED
  BY <1>3, <1>7, <1>9, <1>10 DEF IInv

LEMMA ClaimStep ==
    ASSUME IInv, NEW p \in Process, NEW S \in SUBSET Event, Claim(p, S)
    PROVE  IInv'
<1> DEFINE rec(e) == [id |-> e, payload |-> outbox[e].payload, attempts |-> outbox[e].attempts]
<1>1. /\ batch[p] = {} /\ settling[p] = {}
      /\ \A e \in S : outbox[e].status = "pending" /\ outbox[e].lock # "live"
      /\ outbox' = [e \in Event |->
                      IF e \in S THEN [outbox[e] EXCEPT !.lock = "live"] ELSE outbox[e]]
      /\ batch' = [batch EXCEPT ![p] = {rec(e) : e \in S}]
      /\ settling' = settling /\ sent' = sent /\ overdue' = overdue /\ crashes' = crashes
  BY DEF Claim, ClaimPending, Idle, Pending
<1>2. ASSUME NEW e \in Event
      PROVE  /\ [outbox[e] EXCEPT !.lock = "live"] \in EventRow
             /\ rec(e) \in Record
  BY DEF IInv, PubTypeOK, EventRow, Record
<1>3. PubTypeOK'
  BY <1>1, <1>2 DEF IInv, PubTypeOK
<1>4. ASSUME NEW e \in Event
      PROVE  /\ outbox'[e].status = outbox[e].status
             /\ outbox'[e].attempts = outbox[e].attempts
             /\ e \in S => outbox'[e].lock = "live"
             /\ e \notin S => outbox'[e] = outbox[e]
  BY <1>1 DEF IInv, PubTypeOK, EventRow
<1>5. batch'[p] = {rec(e) : e \in S} /\ \A q \in Process \ {p} : batch'[q] = batch[q]
  BY <1>1 DEF IInv, PubTypeOK
<1>6. PublishedWasSent' /\ GivesUpAtCap' /\ SettledWasSent'
  BY <1>1, <1>4 DEF IInv, PublishedWasSent, GivesUpAtCap, SettledWasSent
<1>7. \A q \in Process : /\ \A r \in batch[q] : r.id \in Event
                         /\ \A s \in settling[q] : s.record.id \in Event
  BY DEF IInv, PubTypeOK, Record, Settlement
<1>8. AttemptsNotAhead'
  <2>1. ASSUME NEW r \in batch'[p] PROVE r.attempts <= outbox'[r.id].attempts
    BY <1>4, <1>5 DEF IInv, PubTypeOK, EventRow
  <2>2. ASSUME NEW q \in Process, NEW s \in settling'[q], outbox'[s.record.id].status # "free"
        PROVE  s.record.attempts <= outbox'[s.record.id].attempts
    BY <1>1, <1>4, <1>7, <2>2 DEF IInv, AttemptsNotAhead
  <2>3. ASSUME NEW q \in Process \ {p}, NEW r \in batch'[q], outbox'[r.id].status # "free"
        PROVE  r.attempts <= outbox'[r.id].attempts
    BY <1>4, <1>5, <1>7, <2>3 DEF IInv, AttemptsNotAhead
  <2> QED
    BY <2>1, <2>2, <2>3 DEF AttemptsNotAhead
<1>9. HeldOnce'
  BY <1>1, <1>5 DEF IInv, HeldOnce
<1>10. ASSUME NEW e \in Event
       PROVE  /\ Holds(p, e)' => e \in S
              /\ \A q \in Process \ {p} : Holds(q, e)' => Holds(q, e)
  BY <1>1, <1>5 DEF Holds
<1>11. HeldIsLocked'
  <2> SUFFICES ASSUME NEW q \in Process, NEW e \in Event, Holds(q, e)', e \notin overdue'
               PROVE  outbox'[e].status = "pending" /\ outbox'[e].lock = "live"
    BY DEF HeldIsLocked
  <2>1. CASE e \in S
    BY <1>1, <1>4, <2>1
  <2>2. CASE e \notin S
    BY <1>1, <1>4, <1>10, <2>2 DEF IInv, HeldIsLocked
  <2> QED
    BY <2>1, <2>2
<1>12. NoDoubleClaim'
  <2>1. ASSUME NEW e \in S, NEW q \in Process, e \notin overdue, Holds(q, e)
        PROVE  FALSE
    BY <1>1, <2>1 DEF IInv, HeldIsLocked
  <2> QED
    BY <1>1, <1>10, <2>1 DEF IInv, NoDoubleClaim
<1> QED
  BY <1>3, <1>6, <1>8, <1>9, <1>11, <1>12 DEF IInv

\* A record moves from the batch to the settlement; the table is unchanged.
LEMMA PublishStep ==
    ASSUME IInv, NEW p \in Process, NEW r \in batch[p], NEW outcome \in {"sent", "error"},
           Publish(p, r, outcome),
           sent \subseteq sent', sent' \subseteq Event, outcome = "sent" => r.id \in sent',
           UNCHANGED <<overdue, crashes>>
    PROVE  IInv'
<1> DEFINE s0 == [outcome |-> outcome, record |-> r]
<1>1. /\ settling[p] = {}
      /\ batch'[p] = batch[p] \ {r} /\ settling'[p] = {s0}
      /\ \A q \in Process \ {p} : batch'[q] = batch[q] /\ settling'[q] = settling[q]
      /\ outbox' = outbox /\ overdue' = overdue
  BY DEF Publish, IInv, PubTypeOK
<1>2. PubTypeOK'
  <2>1. r \in Record /\ s0 \in Settlement
    BY DEF IInv, PubTypeOK, Settlement
  <2> QED
    BY <2>1 DEF Publish, IInv, PubTypeOK
<1>3. PublishedWasSent' /\ GivesUpAtCap'
  BY <1>1 DEF IInv, PublishedWasSent, GivesUpAtCap
<1>4. SettledWasSent'
  BY <1>1 DEF IInv, SettledWasSent
<1>5. AttemptsNotAhead'
  BY <1>1 DEF IInv, AttemptsNotAhead
<1>6. HeldOnce'
  BY <1>1 DEF IInv, HeldOnce
<1>7. ASSUME NEW q \in Process, NEW e \in Event PROVE Holds(q, e)' => Holds(q, e)
  BY <1>1 DEF Holds
<1>8. HeldIsLocked' /\ NoDoubleClaim'
  BY <1>1, <1>7 DEF IInv, HeldIsLocked, NoDoubleClaim
<1> QED
  BY <1>2, <1>3, <1>4, <1>5, <1>6, <1>8 DEF IInv

\* What a mark makes of a row.
LEMMA MarkedRow ==
    ASSUME OUTBOX_MAX_ATTEMPTS \in Nat,
           NEW row \in EventRow, NEW s \in Settlement, row.status # "free",
           s.record.attempts <= row.attempts
    PROVE  /\ Marked(row, s) \in EventRow
           /\ Marked(row, s).status # "free"
           /\ Marked(row, s).attempts >= row.attempts
           /\ Marked(row, s).status = "published" <=> s.outcome = "sent"
           /\ Marked(row, s).status = "failed"
                  => Marked(row, s).attempts >= OUTBOX_MAX_ATTEMPTS
<1>1. row.attempts \in Nat /\ s.record.attempts \in Nat /\ s.outcome \in {"sent", "error"}
  BY DEF EventRow, Settlement, Record
<1>2. CASE s.outcome = "sent"
  <2>1. Marked(row, s) = [row EXCEPT !.status = "published", !.lock = "none", !.old = FALSE]
    BY <1>2 DEF Marked
  <2>2. Marked(row, s) \in EventRow
    BY <2>1 DEF EventRow
  <2>3. Marked(row, s).status = "published" /\ Marked(row, s).attempts = row.attempts
    BY <2>1 DEF EventRow
  <2> QED
    BY <1>1, <1>2, <2>2, <2>3
<1>3. CASE s.outcome = "error"
  <2>1. CASE ShouldRetry(s.record)
    <3>1. Marked(row, s) = [status |-> "pending", payload |-> row.payload,
                            attempts |-> row.attempts + 1, lock |-> "none",
                            due |-> FALSE, old |-> row.old]
      BY <1>3, <2>1 DEF Marked, EventRow
    <3>2. Marked(row, s) \in EventRow
      BY <1>1, <3>1 DEF EventRow
    <3> QED
      BY <1>1, <1>3, <3>1, <3>2
  <2>2. CASE ~ShouldRetry(s.record)
    <3>1. Marked(row, s) = [status |-> "failed", payload |-> row.payload,
                            attempts |-> row.attempts + 1, lock |-> "none",
                            due |-> row.due, old |-> row.old]
      BY <1>3, <2>2 DEF Marked, EventRow
    <3>2. Marked(row, s) \in EventRow
      BY <1>1, <3>1 DEF EventRow
    <3> QED
      BY <1>1, <1>3, <2>2, <3>1, <3>2 DEF ShouldRetry
  <2> QED
    BY <2>1, <2>2
<1> QED
  BY <1>1, <1>2, <1>3

LEMMA MarkStep ==
    ASSUME IInv, NEW p \in Process, NEW s \in settling[p], Mark(p, s),
           UNCHANGED <<sent, overdue, crashes>>
    PROVE  IInv'
<1> DEFINE e0 == s.record.id
<1>1. s \in Settlement /\ e0 \in Event /\ outbox[e0] \in EventRow
  BY DEF IInv, PubTypeOK, Settlement, Record
<1>2. /\ outbox[e0].status # "free"
      /\ outbox'[e0] = Marked(outbox[e0], s)
      /\ \A e \in Event \ {e0} : outbox'[e] = outbox[e]
      /\ settling'[p] = {} /\ \A q \in Process \ {p} : settling'[q] = settling[q]
      /\ batch' = batch /\ sent' = sent /\ overdue' = overdue
  BY <1>1 DEF Mark, IInv, PubTypeOK
<1>3. s.record.attempts <= outbox[e0].attempts
  BY <1>2 DEF IInv, AttemptsNotAhead
<1>4. /\ outbox'[e0] \in EventRow
      /\ outbox'[e0].status # "free"
      /\ outbox'[e0].attempts >= outbox[e0].attempts
      /\ outbox'[e0].status = "published" <=> s.outcome = "sent"
      /\ outbox'[e0].status = "failed" => outbox'[e0].attempts >= OUTBOX_MAX_ATTEMPTS
  BY <1>1, <1>2, <1>3, MarkedRow, OutboxAssumption
<1>5. PubTypeOK'
  BY <1>1, <1>2, <1>4 DEF Mark, IInv, PubTypeOK
<1>6. PublishedWasSent' /\ GivesUpAtCap'
  BY <1>1, <1>2, <1>4 DEF IInv, PublishedWasSent, GivesUpAtCap, SettledWasSent
<1>7. SettledWasSent' /\ HeldOnce'
  BY <1>2 DEF IInv, SettledWasSent, HeldOnce
<1>8. ASSUME NEW q \in Process PROVE /\ \A r \in batch[q] : r \in Record
                                     /\ \A t \in settling[q] : t.record \in Record
  BY DEF IInv, PubTypeOK, Settlement
<1>9. AttemptsNotAhead'
  <2>1. ASSUME NEW r \in Record, outbox'[r.id].status # "free",
               outbox[r.id].status # "free" => r.attempts <= outbox[r.id].attempts
        PROVE  r.attempts <= outbox'[r.id].attempts
    <3>1. r.id \in Event /\ r.attempts \in Nat
      BY DEF Record
    <3>2. CASE r.id = e0
      BY <1>1, <1>2, <1>4, <2>1, <3>1, <3>2 DEF EventRow
    <3>3. CASE r.id # e0
      BY <1>2, <2>1, <3>1, <3>3
    <3> QED
      BY <3>2, <3>3
  <2> QED
    BY <1>2, <1>8, <2>1 DEF IInv, AttemptsNotAhead
<1>10. ASSUME NEW q \in Process, NEW e \in Event
       PROVE  /\ Holds(q, e)' => Holds(q, e)
              /\ ~Holds(p, e0)'
  BY <1>2 DEF Holds, IInv, HeldOnce
<1>11. Holds(p, e0)
  BY DEF Holds
<1>12. HeldIsLocked' /\ NoDoubleClaim'
  BY <1>1, <1>2, <1>10, <1>11 DEF IInv, HeldIsLocked, NoDoubleClaim
<1> QED
  BY <1>5, <1>6, <1>7, <1>9, <1>12 DEF IInv

LEMMA AbandonStep ==
    ASSUME IInv, NEW p \in Process, AbandonBatch(p), crashes' \in 0..MAX_CRASHES,
           UNCHANGED <<sent, overdue>>
    PROVE  IInv'
<1>1. /\ batch'[p] = {} /\ settling'[p] = {}
      /\ \A q \in Process \ {p} : batch'[q] = batch[q] /\ settling'[q] = settling[q]
      /\ outbox' = outbox
  BY DEF AbandonBatch, IInv, PubTypeOK
<1>2. PubTypeOK'
  BY DEF AbandonBatch, IInv, PubTypeOK
<1>3. ASSUME NEW q \in Process, NEW e \in Event PROVE Holds(q, e)' => Holds(q, e)
  BY <1>1 DEF Holds
<1>4. HeldIsLocked' /\ NoDoubleClaim'
  BY <1>1, <1>3 DEF IInv, HeldIsLocked, NoDoubleClaim
<1>5. PublishedWasSent' /\ GivesUpAtCap' /\ SettledWasSent' /\ AttemptsNotAhead' /\ HeldOnce'
  BY <1>1 DEF IInv, PublishedWasSent, GivesUpAtCap, SettledWasSent, AttemptsNotAhead, HeldOnce
<1> QED
  BY <1>2, <1>4, <1>5 DEF IInv

\* Purged rows are PUBLISHED, so no publisher that kept its lock holds them.
LEMMA PurgeStep ==
    ASSUME IInv, NEW S \in SUBSET Event, Purge(S)
    PROVE  IInv'
<1>1. /\ \A e \in S : outbox[e].status = "published"
      /\ outbox' = [e \in Event |-> IF e \in S THEN NoEvent ELSE outbox[e]]
      /\ batch' = batch /\ settling' = settling
      /\ sent' = sent /\ overdue' = overdue /\ crashes' = crashes
  BY DEF Purge, DeletePublished
<1>2. \A e \in Event : /\ e \in S => outbox'[e].status = "free"
                       /\ e \notin S => outbox'[e] = outbox[e]
  BY <1>1 DEF NoEvent
<1>3. PubTypeOK'
  <2>1. NoEvent \in EventRow
    BY DEF NoEvent, EventRow
  <2> QED
    BY <1>1, <2>1 DEF IInv, PubTypeOK
<1>4. PublishedWasSent' /\ GivesUpAtCap' /\ SettledWasSent' /\ HeldOnce'
  BY <1>1, <1>2 DEF IInv, PublishedWasSent, GivesUpAtCap, SettledWasSent, HeldOnce
<1>5. AttemptsNotAhead'
  <2>1. \A q \in Process : /\ \A r \in batch[q] : r.id \in Event
                           /\ \A s \in settling[q] : s.record.id \in Event
    BY DEF IInv, PubTypeOK, Record, Settlement
  <2> QED
    BY <1>1, <1>2, <2>1 DEF IInv, AttemptsNotAhead
<1>6. ASSUME NEW q \in Process, NEW e \in Event PROVE Holds(q, e)' = Holds(q, e)
  BY <1>1 DEF Holds
<1>7. HeldIsLocked' /\ NoDoubleClaim'
  BY <1>1, <1>2, <1>6 DEF IInv, HeldIsLocked, NoDoubleClaim
<1> QED
  BY <1>3, <1>4, <1>5, <1>7 DEF IInv

\* Time changes a lock, a due date or an age.
LEMMA TimeStep ==
    ASSUME IInv, NEW e0 \in Event, LockRunsOut(e0) \/ Elapse(e0)
    PROVE  IInv'
<1>1. batch' = batch /\ settling' = settling /\ sent' = sent /\ crashes' = crashes
  BY DEF LockRunsOut, Elapse, LockExpires, BecomesDue, RetentionEnds
<1>2. /\ outbox'[e0] \in EventRow
      /\ outbox'[e0].status = outbox[e0].status
      /\ outbox'[e0].attempts = outbox[e0].attempts
      /\ \A e \in Event \ {e0} : outbox'[e] = outbox[e]
      /\ outbox' \in [Event -> EventRow]
  <2>1. outbox \in [Event -> EventRow] /\ outbox[e0] \in EventRow
    BY DEF IInv, PubTypeOK
  <2>2. \/ outbox' = [outbox EXCEPT ![e0] = [@ EXCEPT !.lock = "expired"]]
        \/ outbox' = [outbox EXCEPT ![e0] = [@ EXCEPT !.due = TRUE]]
        \/ outbox' = [outbox EXCEPT ![e0] = [@ EXCEPT !.old = TRUE]]
    BY DEF LockRunsOut, Elapse, LockExpires, BecomesDue, RetentionEnds
  <2>3. /\ [outbox[e0] EXCEPT !.lock = "expired"] \in EventRow
        /\ [outbox[e0] EXCEPT !.due = TRUE] \in EventRow
        /\ [outbox[e0] EXCEPT !.old = TRUE] \in EventRow
    BY <2>1 DEF EventRow
  <2>4. \A row \in EventRow :
            /\ [row EXCEPT !.lock = "expired"].status = row.status
            /\ [row EXCEPT !.lock = "expired"].attempts = row.attempts
            /\ [row EXCEPT !.due = TRUE].status = row.status
            /\ [row EXCEPT !.due = TRUE].attempts = row.attempts
            /\ [row EXCEPT !.old = TRUE].status = row.status
            /\ [row EXCEPT !.old = TRUE].attempts = row.attempts
    BY DEF EventRow
  <2> QED
    BY <2>1, <2>2, <2>3, <2>4
<1>3. overdue \subseteq overdue' /\ overdue' \subseteq Event
  BY DEF LockRunsOut, Elapse, LockExpires, BecomesDue, RetentionEnds, IInv, PubTypeOK, EventRow
<1>4. (\E p \in Process : Holds(p, e0)) => e0 \in overdue' \/ outbox'[e0].lock = outbox[e0].lock
  BY DEF LockRunsOut, Elapse, LockExpires, BecomesDue, RetentionEnds, IInv, PubTypeOK, EventRow
<1>5. PubTypeOK'
  BY <1>1, <1>2, <1>3 DEF IInv, PubTypeOK
<1>6. PublishedWasSent' /\ GivesUpAtCap' /\ SettledWasSent' /\ HeldOnce'
  BY <1>1, <1>2 DEF IInv, PublishedWasSent, GivesUpAtCap, SettledWasSent, HeldOnce
<1>7. AttemptsNotAhead'
  <2>1. \A q \in Process : /\ \A r \in batch[q] : r.id \in Event
                           /\ \A s \in settling[q] : s.record.id \in Event
    BY DEF IInv, PubTypeOK, Record, Settlement
  <2> QED
    BY <1>1, <1>2, <2>1 DEF IInv, AttemptsNotAhead
<1>8. ASSUME NEW q \in Process, NEW e \in Event PROVE Holds(q, e)' = Holds(q, e)
  BY <1>1 DEF Holds
<1>9. HeldIsLocked' /\ NoDoubleClaim'
  BY <1>2, <1>3, <1>4, <1>8 DEF IInv, HeldIsLocked, NoDoubleClaim
<1> QED
  BY <1>5, <1>6, <1>7, <1>9 DEF IInv

LEMMA InvNext == IInv /\ [PubNext]_pubVars => IInv'
<1> SUFFICES ASSUME IInv, [PubNext]_pubVars PROVE IInv'
  OBVIOUS
<1>1. ASSUME NEW e \in Event, NEW x \in Task, Enqueue(e, x) PROVE IInv'
  BY <1>1, EnqueueStep
<1>2. ASSUME NEW p \in Process, NEW S \in SUBSET Event, Claim(p, S) PROVE IInv'
  BY <1>2, ClaimStep
<1>3. ASSUME NEW p \in Process, NEW r \in batch[p], SinkAccepts(p, r) PROVE IInv'
  <2>1. r.id \in Event
    BY DEF IInv, PubTypeOK, Record
  <2> QED
    BY <1>3, <2>1, PublishStep DEF SinkAccepts, IInv, PubTypeOK
<1>4. ASSUME NEW p \in Process, NEW r \in batch[p], SinkRaises(p, r) PROVE IInv'
  BY <1>4, PublishStep DEF SinkRaises, IInv, PubTypeOK
<1>5. ASSUME NEW p \in Process, NEW s \in settling[p], MarkRecord(p, s) PROVE IInv'
  <2>1. CASE Mark(p, s)
    BY <1>5, <2>1, MarkStep DEF MarkRecord
  <2>2. CASE MarkMissing(p, s)
    BY <1>5, <2>2, AbandonStep DEF MarkRecord, MarkMissing, IInv, PubTypeOK
  <2> QED
    BY <1>5, <2>1, <2>2 DEF MarkRecord
<1>6. ASSUME NEW p \in Process, CrashInBatch(p) PROVE IInv'
  <2>1. crashes' \in 0..MAX_CRASHES
    BY <1>6, OutboxPublisherAssumption DEF CrashInBatch, IInv, PubTypeOK
  <2> QED
    BY <1>6, <2>1, AbandonStep DEF CrashInBatch
<1>7. ASSUME NEW S \in SUBSET Event, Purge(S) PROVE IInv'
  BY <1>7, PurgeStep
<1>8. ASSUME NEW e \in Event, LockRunsOut(e) \/ Elapse(e) PROVE IInv'
  BY <1>8, TimeStep
<1>9. CASE UNCHANGED pubVars
  BY <1>9 DEF pubVars, IInv, PubTypeOK, PublishedWasSent, SettledWasSent, GivesUpAtCap,
     AttemptsNotAhead, HeldOnce, HeldIsLocked, NoDoubleClaim, Holds
<1> QED
  BY <1>1, <1>2, <1>3, <1>4, <1>5, <1>6, <1>7, <1>8, <1>9 DEF PubNext, PublishPending

-----------------------------------------------------------------------------

\* What publishers remember of the rows they hold stays true of the rows,
\* through lost locks, crashes, purges and names that are taken again.
THEOREM InductiveInvariant == PubSpec => []IInv
<1>1. PubInit => IInv
  BY InvInit
<1>2. IInv /\ [PubNext]_pubVars => IInv'
  BY InvNext
<1> QED
  BY <1>1, <1>2, PTL DEF PubSpec

\* The table, the batches and the histories keep their types.
THEOREM TypeCorrect == PubSpec => []PubTypeOK
<1>1. IInv => PubTypeOK
  BY DEF IInv
<1> QED
  BY <1>1, InductiveInvariant, PTL

\* At-least-once delivery: mark_published never runs, not even for a publisher
\* that lost its lock, on a row whose record the sink did not take.
THEOREM AtLeastOnce == PubSpec => []PublishedWasSent
<1>1. IInv => PublishedWasSent
  BY DEF IInv
<1> QED
  BY <1>1, InductiveInvariant, PTL

\* claim_pending under SKIP LOCKED and the lock column gives a row to one
\* publisher, until a lock runs out in the middle of a batch.
THEOREM ExclusiveClaims == PubSpec => []NoDoubleClaim
<1>1. IInv => NoDoubleClaim
  BY DEF IInv
<1> QED
  BY <1>1, InductiveInvariant, PTL

\* RetryPolicy's decision, taken on attempts that may be stale, never gives
\* up early.
THEOREM FailedAtCap == PubSpec => []GivesUpAtCap
<1>1. IInv => GivesUpAtCap
  BY DEF IInv
<1> QED
  BY <1>1, InductiveInvariant, PTL

\* claim_pending and the marks of a publisher whose lock still runs never put a
\* published row back.  Rows on which some publisher's lock ran out (overdue) are
\* excepted: a late mark_failed does put those back.
THEOREM PublishedStays == PubSpec => PublishedOnce
<1> DEFINE Kept == \A e \in Event :
                      outbox[e].status = "published" /\ e \notin overdue
                          => outbox'[e].status \in {"published", "free"}
<1>1. IInv /\ [PubNext]_pubVars => [Kept]_pubVars
  <2> SUFFICES ASSUME IInv, PubNext,
                      NEW e \in Event, outbox[e].status = "published", e \notin overdue
               PROVE  outbox'[e].status \in {"published", "free"}
    OBVIOUS
  <2>0. outbox \in [Event -> EventRow] /\ outbox[e] \in EventRow
    BY DEF IInv, PubTypeOK
  <2>1. \A p \in Process : ~Holds(p, e)
    BY DEF IInv, HeldIsLocked
  <2>2. ASSUME NEW y \in Event, NEW x \in Task, Enqueue(y, x) PROVE outbox'[e] = outbox[e]
    BY <2>2 DEF Enqueue, Insert
  <2>3. ASSUME NEW p \in Process, NEW S \in SUBSET Event, Claim(p, S)
        PROVE  outbox'[e] = outbox[e]
    BY <2>3 DEF Claim, ClaimPending, Pending
  <2>4. ASSUME NEW p \in Process, NEW r \in batch[p], SinkAccepts(p, r) \/ SinkRaises(p, r)
        PROVE  outbox'[e] = outbox[e]
    BY <2>4 DEF SinkAccepts, SinkRaises, Publish
  <2>5. ASSUME NEW p \in Process, NEW s \in settling[p], MarkRecord(p, s)
        PROVE  outbox'[e] = outbox[e]
    <3>1. s.record.id # e
      BY <2>1 DEF Holds
    <3> QED
      BY <2>0, <2>5, <3>1 DEF MarkRecord, Mark, MarkMissing, AbandonBatch
  <2>6. ASSUME NEW p \in Process, CrashInBatch(p) PROVE outbox'[e] = outbox[e]
    BY <2>6 DEF CrashInBatch, AbandonBatch
  <2>7. ASSUME NEW S \in SUBSET Event, Purge(S)
        PROVE  outbox'[e] = outbox[e] \/ outbox'[e].status = "free"
    BY <2>7 DEF Purge, DeletePublished, NoEvent
  <2>8. ASSUME NEW y \in Event, LockRunsOut(y) \/ Elapse(y)
        PROVE  outbox'[e].status = outbox[e].status
    BY <2>0, <2>8 DEF LockRunsOut, Elapse, LockExpires, BecomesDue, RetentionEnds, EventRow
  <2> QED
    BY <2>2, <2>3, <2>4, <2>5, <2>6, <2>7, <2>8 DEF PubNext, PublishPending
<1>2. PubSpec => [][PubNext]_pubVars
  BY PTL DEF PubSpec
<1> QED
  BY <1>1, <1>2, InductiveInvariant, PTL DEF PublishedOnce

=============================================================================
