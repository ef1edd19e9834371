-------------------------- MODULE TaskPipelineProofs --------------------------
(***************************************************************************)
(* Theorems about TaskPipeline, for any number of tasks, handlers,         *)
(* processes, messages and faults, and for both dispatch backends.         *)
(*                                                                         *)
(* AtMostOneLiveHandler does not mention the task table, so it is not      *)
(* inductive.  What makes the second claim fail is that the row of a task  *)
(* whose lease is held is barred from claims: it is PROCESSING under a     *)
(* live lease, or it is settled or purged already, and no operation but    *)
(* the expiry of that lease, which the holder loses with it, takes a row   *)
(* out of that condition.  TerminalIsFinal needs more: a handler whose     *)
(* lease never ran out still holds it, and finds its task in flight.       *)
(* QueuedIsAnnounced has an induction of its own, in the second half.      *)
(***************************************************************************)
EXTENDS TaskPipeline, TLAPS

(* The rows, entries and coroutines that occur. *)

SoundRow ==
    {r \in Row :
        /\ r.status = "none" => r.attempts = 0
        /\ r.lease # "none" => r.status = "processing"
        /\ r.status = "queued" => r.attempts < TASKS_MAX_ATTEMPTS}

SoundEvent == {v \in EventRow : v.status # "free" => v.payload \in Task}

SoundRecord == {r \in Record : r.payload \in Task}

SoundEntry == {n \in Entry : n.state # "free" => n.body \in Task}

SoundCoroutine ==
    {k \in Coroutine :
        /\ k.pc # "idle" => k.task \in Task
        /\ k.leased => k.pc \in Running}

\* A row that mark_processing refuses whatever happens, short of an expiry.
Barred(r) ==
    \/ r.status = "processing" /\ r.lease = "live"
    \/ r.status \in Terminal \cup {"purged"}

\* A row that nobody settled since it was claimed.
InFlight(r) ==
    \/ r.status = "processing" /\ r.lease = "live"
    \/ r.status = "purged"

StateOK ==
    /\ tasks \in [Task -> SoundRow]
    /\ outbox \in [Event -> SoundEvent]
    /\ batch \in [Process -> SUBSET SoundRecord]
    /\ settling \in [Process -> SUBSET Settlement]
    /\ stream \in [MsgId -> SoundEntry]
    /\ dead \subseteq Task \cup {NoTask}
    /\ handler \in [Handler -> SoundCoroutine]
    /\ submitting \subseteq Task
    /\ requeuing \in [Process -> SUBSET Task]
    /\ unsent \subseteq Task
    /\ overrun \subseteq Task
    /\ faults \in 0..MAX_FAULTS

LeaseOK ==
    /\ \A h \in Handler : handler[h].leased => Barred(tasks[handler[h].task])
    /\ \A g, h \in Handler :
        handler[g].leased /\ handler[h].leased /\ handler[g].task = handler[h].task
        => g = h
    /\ \A h \in Handler :
        handler[h].pc \in Running /\ handler[h].task \notin overrun
        => handler[h].leased /\ InFlight(tasks[handler[h].task])

IInv == StateOK /\ LeaseOK

-----------------------------------------------------------------------------
(* What a step keeps, one part of the state at a time. *)

TasksKept ==
    /\ tasks' \in [Task -> SoundRow]
    /\ \A t \in Task : Barred(tasks[t]) => Barred(tasks'[t])
    /\ \A t \in Task : InFlight(tasks[t]) => InFlight(tasks'[t])

OutboxKept ==
    /\ outbox' \in [Event -> SoundEvent]
    /\ batch' \in [Process -> SUBSET SoundRecord]
    /\ settling' \in [Process -> SUBSET Settlement]

QueueKept ==
    /\ stream' \in [MsgId -> SoundEntry]
    /\ dead' \subseteq Task \cup {NoTask}

HandlerKept ==
    /\ handler' \in [Handler -> SoundCoroutine]
    /\ \A h \in Handler : handler'[h].leased =>
        handler[h].leased /\ handler'[h].task = handler[h].task
    /\ \A h \in Handler : handler'[h].pc \in Running =>
        /\ handler[h].pc \in Running
        /\ handler'[h].task = handler[h].task
        /\ handler'[h].leased <=> handler[h].leased

DispatchKept ==
    /\ submitting' \subseteq Task
    /\ requeuing' \in [Process -> SUBSET Task]
    /\ unsent' \subseteq Task

CountersKept ==
    /\ overrun' = overrun
    /\ faults' \in 0..MAX_FAULTS

LEMMA UnchangedKept ==
    ASSUME IInv
    PROVE  /\ tasks' = tasks => TasksKept
           /\ (UNCHANGED outboxVars) => OutboxKept
           /\ (UNCHANGED queueVars) => QueueKept
           /\ handler' = handler => HandlerKept
           /\ (UNCHANGED dispatchVars) => DispatchKept
           /\ overrun' = overrun /\ faults' = faults => CountersKept
           /\ overrun' = overrun /\ Fault => CountersKept
<1> USE DEF IInv, StateOK
<1>1. tasks' = tasks => TasksKept
  BY DEF TasksKept
<1>2. (UNCHANGED outboxVars) => OutboxKept
  BY DEF OutboxKept, outboxVars
<1>3. (UNCHANGED queueVars) => QueueKept
  BY DEF QueueKept, queueVars
<1>4. handler' = handler => HandlerKept
  BY DEF HandlerKept
<1>5. (UNCHANGED dispatchVars) => DispatchKept
  BY DEF DispatchKept, dispatchVars
<1>6. overrun' = overrun /\ faults' = faults => CountersKept
  BY DEF CountersKept
<1>7. overrun' = overrun /\ Fault => CountersKept
  BY TaskPipelineAssumption DEF CountersKept, Fault
<1> QED
  BY <1>1, <1>2, <1>3, <1>4, <1>5, <1>6, <1>7

\* Kept part by part, the whole invariant is kept.
LEMMA AllKept ==
    ASSUME IInv, TasksKept, OutboxKept, QueueKept, HandlerKept, DispatchKept, CountersKept
    PROVE  IInv'
<1>1. StateOK'
  BY DEF IInv, TasksKept, OutboxKept, QueueKept, HandlerKept, DispatchKept, CountersKept,
         StateOK
<1>2. \A h \in Handler : handler[h].leased => handler[h].task \in Task
  BY DEF IInv, StateOK, SoundCoroutine, Running
<1>3. \A h \in Handler : handler[h].pc \in Running => handler[h].task \in Task
  BY DEF IInv, StateOK, SoundCoroutine, Running
<1>4. \A h \in Handler : handler'[h].leased => Barred(tasks'[handler'[h].task])
  BY <1>2 DEF IInv, LeaseOK, TasksKept, HandlerKept
<1>5. \A g, h \in Handler :
        handler'[g].leased /\ handler'[h].leased /\ handler'[g].task = handler'[h].task
        => g = h
  BY DEF IInv, LeaseOK, HandlerKept
<1>6. \A h \in Handler :
        handler'[h].pc \in Running /\ handler'[h].task \notin overrun'
        => handler'[h].leased /\ InFlight(tasks'[handler'[h].task])
  BY <1>3 DEF IInv, LeaseOK, TasksKept, HandlerKept, CountersKept
<1> QED
  BY <1>1, <1>4, <1>5, <1>6 DEF IInv, LeaseOK

-----------------------------------------------------------------------------
(* The task table *)

LEMMA CreateKeeps ==
    ASSUME IInv, NEW t \in Task, Create(t)
    PROVE  TasksKept
<1>1. tasks[t] \in SoundRow
  BY DEF IInv, StateOK
<1>2. [tasks[t] EXCEPT !.status = "queued"] \in SoundRow
  BY <1>1, TaskStoreAssumption DEF Create, SoundRow, Row
<1>3. ~Barred(tasks[t]) /\ ~InFlight(tasks[t])
  BY DEF Create, Barred, InFlight, Terminal
<1> QED
  BY <1>2, <1>3 DEF IInv, StateOK, Create, TasksKept

LEMMA UpdateBars ==
    ASSUME IInv, NEW t \in Task, NEW status \in Terminal, Update(t, status)
    PROVE  /\ tasks' \in [Task -> SoundRow]
           /\ Barred(tasks'[t])
           /\ \A u \in Task : u # t => tasks'[u] = tasks[u]
<1>1. tasks[t] \in SoundRow
  BY DEF IInv, StateOK
<1> DEFINE row == [tasks[t] EXCEPT !.status = status, !.lease = "none"]
<1>2. row \in SoundRow /\ row.status = status
  BY <1>1 DEF SoundRow, Row, Terminal
<1>3. Barred(row)
  BY <1>2 DEF Barred
<1>4. tasks' = [tasks EXCEPT ![t] = row]
  BY DEF Update
<1> QED
  BY <1>2, <1>3, <1>4 DEF IInv, StateOK

LEMMA ReclaimKeeps ==
    ASSUME IInv, NEW S \in StaleBatch, ReclaimStaleProcessing(S)
    PROVE  TasksKept
<1> SUFFICES ASSUME NEW t \in Task
             PROVE  /\ tasks'[t] \in SoundRow
                    /\ Barred(tasks[t]) => Barred(tasks'[t])
                    /\ InFlight(tasks[t]) => InFlight(tasks'[t])
  BY DEF TasksKept, ReclaimStaleProcessing
<1>1. tasks[t] \in SoundRow
  BY DEF IInv, StateOK
<1>2. CASE t \notin S
  BY <1>1, <1>2 DEF ReclaimStaleProcessing
<1>3. CASE t \in S
  <2>1. ~Barred(tasks[t]) /\ ~InFlight(tasks[t])
    BY <1>3 DEF StaleBatch, LeaseExpired, Barred, InFlight, Terminal
  <2>2. CASE t \in Requeued(S)
    <3>1. tasks[t].attempts < TASKS_MAX_ATTEMPTS
      BY <2>2 DEF Requeued
    <3>2. [tasks[t] EXCEPT !.status = "queued", !.lease = "none"] \in SoundRow
      BY <1>1, <3>1 DEF SoundRow, Row
    <3> QED
      BY <1>3, <2>1, <2>2, <3>2 DEF ReclaimStaleProcessing
  <2>3. CASE t \notin Requeued(S)
    <3>1. [tasks[t] EXCEPT !.status = "failed", !.lease = "none"] \in SoundRow
      BY <1>1 DEF SoundRow, Row, Terminal
    <3> QED
      BY <1>3, <2>1, <2>3, <3>1 DEF ReclaimStaleProcessing
  <2> QED
    BY <2>2, <2>3
<1> QED
  BY <1>2, <1>3

LEMMA DeleteKeeps ==
    ASSUME IInv, NEW S, DeleteExpired(S)
    PROVE  TasksKept
<1> SUFFICES ASSUME NEW t \in Task
             PROVE  /\ tasks'[t] \in SoundRow
                    /\ Barred(tasks[t]) => Barred(tasks'[t])
                    /\ InFlight(tasks[t]) => InFlight(tasks'[t])
  BY DEF TasksKept, DeleteExpired
<1>1. tasks[t] \in SoundRow
  BY DEF IInv, StateOK
<1> DEFINE row == [tasks[t] EXCEPT !.status = "purged", !.lease = "none"]
<1>2. row \in SoundRow /\ row.status = "purged"
  BY <1>1 DEF SoundRow, Row
<1>3. Barred(row) /\ InFlight(row)
  BY <1>2 DEF Barred, InFlight
<1> QED
  BY <1>1, <1>2, <1>3 DEF DeleteExpired

LEMMA TtlKeeps ==
    ASSUME IInv, NEW t \in Task, TtlExpires(t)
    PROVE  TasksKept
<1>1. tasks[t] \in SoundRow
  BY DEF IInv, StateOK
<1> DEFINE row == [tasks[t] EXCEPT !.ttl = "expired"]
<1>2. row \in SoundRow /\ row.status = tasks[t].status /\ row.lease = tasks[t].lease
  BY <1>1 DEF SoundRow, Row
<1>3. (Barred(tasks[t]) => Barred(row)) /\ (InFlight(tasks[t]) => InFlight(row))
  BY <1>2 DEF Barred, InFlight
<1>4. tasks' = [tasks EXCEPT ![t] = row]
  BY DEF TtlExpires
<1> QED
  BY <1>2, <1>3, <1>4 DEF IInv, StateOK, TasksKept

-----------------------------------------------------------------------------
(* The outbox *)

LEMMA InsertKeeps ==
    ASSUME IInv, NEW f, DOMAIN f \subseteq Event, \A e \in DOMAIN f : f[e] \in Task, Insert(f)
    PROVE  OutboxKept
<1>1. ASSUME NEW t \in Task
      PROVE  [NoEvent EXCEPT !.status = "pending", !.payload = t] \in SoundEvent
  BY DEF NoEvent, SoundEvent, EventRow
<1>2. outbox' \in [Event -> SoundEvent]
  BY <1>1 DEF Insert, IInv, StateOK
<1> QED
  BY <1>2 DEF Insert, IInv, StateOK, OutboxKept

LEMMA ClaimPendingKeeps ==
    ASSUME IInv, NEW p \in Process, NEW S \in SUBSET Event, ClaimPending(p, S)
    PROVE  OutboxKept
<1>1. \A e \in Event : outbox[e] \in SoundEvent
  BY DEF IInv, StateOK
<1>2. \A e \in S : [outbox[e] EXCEPT !.lock = "live"] \in SoundEvent
  BY <1>1 DEF SoundEvent, EventRow
<1>3. outbox' \in [Event -> SoundEvent]
  BY <1>1, <1>2 DEF ClaimPending
<1>4. \A e \in S : [id |-> e, payload |-> outbox[e].payload,
                    attempts |-> outbox[e].attempts] \in SoundRecord
  BY <1>1 DEF ClaimPending, Pending, SoundEvent, EventRow, SoundRecord, Record
<1>5. batch' \in [Process -> SUBSET SoundRecord]
  BY <1>4 DEF ClaimPending, IInv, StateOK
<1> QED
  BY <1>3, <1>5 DEF ClaimPending, IInv, StateOK, OutboxKept

LEMMA PublishKeeps ==
    ASSUME IInv, NEW p \in Process, NEW r \in batch[p],
           NEW outcome \in {"sent", "error"}, Publish(p, r, outcome)
    PROVE  OutboxKept
<1>1. r \in Record
  BY DEF IInv, StateOK, SoundRecord
<1>2. [outcome |-> outcome, record |-> r] \in Settlement
  BY <1>1 DEF Settlement
<1> QED
  BY <1>2 DEF Publish, IInv, StateOK, OutboxKept

LEMMA MarkKeeps ==
    ASSUME IInv, NEW p \in Process, NEW s \in settling[p], Mark(p, s)
    PROVE  OutboxKept
<1>1. s \in Settlement /\ s.record.id \in Event
  BY DEF IInv, StateOK, Settlement, Record
<1> DEFINE row == outbox[s.record.id]
<1>2. row \in SoundEvent /\ row.status # "free"
  BY <1>1 DEF Mark, IInv, StateOK
<1>3. row \in EventRow /\ row.payload \in Task
  BY <1>2 DEF SoundEvent
<1>4. Marked(row, s) \in EventRow
  <2>1. CASE s.outcome = "sent"
    BY <1>3, <2>1 DEF Marked, EventRow
  <2>2. CASE s.outcome # "sent"
    <3>1. ASSUME NEW status \in {"pending", "failed"}, NEW n \in Nat, NEW due \in BOOLEAN
          PROVE  [row EXCEPT !.status = status, !.attempts = n,
                             !.lock = "none", !.due = due] \in EventRow
      BY <1>3 DEF EventRow
    <3>2. row.attempts + 1 \in Nat /\ row.due \in BOOLEAN
      BY <1>3 DEF EventRow
    <3>3. CASE ShouldRetry(s.record)
      BY <2>2, <3>1, <3>2, <3>3 DEF Marked
    <3>4. CASE ~ShouldRetry(s.record)
      BY <2>2, <3>1, <3>2, <3>4 DEF Marked
    <3> QED
      BY <3>3, <3>4
  <2> QED
    BY <2>1, <2>2
<1>5. Marked(row, s).payload = row.payload
  BY <1>3 DEF Marked, EventRow
<1>6. Marked(row, s) \in SoundEvent
  BY <1>3, <1>4, <1>5 DEF SoundEvent
<1> QED
  BY <1>6 DEF Mark, IInv, StateOK, OutboxKept

LEMMA AbandonKeeps ==
    ASSUME IInv, NEW p \in Process, AbandonBatch(p)
    PROVE  OutboxKept
  BY DEF AbandonBatch, IInv, StateOK, OutboxKept

LEMMA DeletePublishedKeeps ==
    ASSUME IInv, NEW S, DeletePublished(S)
    PROVE  OutboxKept
<1>1. NoEvent \in SoundEvent
  BY DEF NoEvent, SoundEvent, EventRow
<1> QED
  BY <1>1 DEF DeletePublished, IInv, StateOK, OutboxKept

LEMMA OutboxTimeKeeps ==
    ASSUME IInv, NEW e \in Event, LockExpires(e) \/ BecomesDue(e) \/ RetentionEnds(e)
    PROVE  OutboxKept
<1>1. outbox[e] \in SoundEvent
  BY DEF IInv, StateOK
<1>2. /\ [outbox[e] EXCEPT !.lock = "expired"] \in SoundEvent
      /\ [outbox[e] EXCEPT !.due = TRUE] \in SoundEvent
      /\ [outbox[e] EXCEPT !.old = TRUE] \in SoundEvent
  BY <1>1 DEF SoundEvent, EventRow
<1>3. outbox' \in [Event -> SoundEvent]
  BY <1>2 DEF LockExpires, BecomesDue, RetentionEnds, IInv, StateOK
<1>4. batch' = batch /\ settling' = settling
  BY DEF LockExpires, BecomesDue, RetentionEnds
<1> QED
  BY <1>3, <1>4 DEF IInv, StateOK, OutboxKept

-----------------------------------------------------------------------------
(* The queue *)

LEMMA SendKeeps ==
    ASSUME IInv, NEW t \in Task, SendFresh(t)
    PROVE  QueueKept
<1>1. PICK m \in MsgId : Send(m, t)
  BY DEF SendFresh
<1>2. stream[m] \in SoundEntry
  BY DEF IInv, StateOK
<1>3. [stream[m] EXCEPT !.state = "new", !.body = t] \in SoundEntry
  BY <1>2 DEF SoundEntry, Entry
<1> QED
  BY <1>1, <1>3 DEF Send, IInv, StateOK, QueueKept

LEMMA DeliverKeeps ==
    ASSUME IInv, NEW m \in MsgId, ReadNew(m) \/ ClaimIdle(m) \/ BecomeIdle(m)
    PROVE  QueueKept /\ stream[m].body \in Task
<1>1. stream[m] \in SoundEntry /\ stream[m].state # "free"
  BY DEF IInv, StateOK, ReadNew, ClaimIdle, BecomeIdle
<1>2. stream[m] \in Entry /\ stream[m].body \in Task
  BY <1>1 DEF SoundEntry
<1>3. ASSUME NEW state \in {"pending", "idle"}, NEW n \in Nat
      PROVE  /\ [stream[m] EXCEPT !.state = state, !.deliveries = n] \in SoundEntry
             /\ [stream[m] EXCEPT !.state = state] \in SoundEntry
  BY <1>2 DEF SoundEntry, Entry
<1>4. stream[m].deliveries + 1 \in Nat
  BY <1>2 DEF Entry
<1>5. stream' \in [MsgId -> SoundEntry]
  <2>1. CASE ReadNew(m)
    BY <1>3, <2>1 DEF ReadNew, IInv, StateOK
  <2>2. CASE ClaimIdle(m)
    BY <1>3, <1>4, <2>2 DEF ClaimIdle, IInv, StateOK
  <2>3. CASE BecomeIdle(m)
    BY <1>3, <2>3 DEF BecomeIdle, IInv, StateOK
  <2> QED
    BY <2>1, <2>2, <2>3
<1>6. dead' = dead
  BY DEF ReadNew, ClaimIdle, BecomeIdle
<1> QED
  BY <1>2, <1>5, <1>6 DEF IInv, StateOK, QueueKept

LEMMA FinishKeeps ==
    ASSUME IInv, NEW m, NEW t \in Task \cup {NoTask},
           Ack(m) \/ NackRequeue(m) \/ DeadLetter(m, t)
    PROVE  QueueKept
<1>1. NoEntry \in SoundEntry
  BY DEF NoEntry, SoundEntry, Entry
<1>2. \A n \in MsgId : stream[n] \in SoundEntry
  BY DEF IInv, StateOK
<1>3. ASSUME NEW n \in MsgId, stream[n].state = "pending"
      PROVE  [stream[n] EXCEPT !.state = "idle"] \in SoundEntry
  BY <1>2, <1>3 DEF SoundEntry, Entry
<1>4. ASSUME NEW n \in MsgId, stream[n].state # "pending"
      PROVE  [stream[n] EXCEPT !.state = @] \in SoundEntry
  BY <1>2, <1>4 DEF SoundEntry, Entry
<1>5. CASE NackRequeue(m)
  BY <1>2, <1>3, <1>4, <1>5 DEF NackRequeue, IInv, StateOK, QueueKept
<1>6. CASE Ack(m) \/ DeadLetter(m, t)
  BY <1>1, <1>6 DEF Ack, DeadLetter, IInv, StateOK, QueueKept
<1> QED
  BY <1>5, <1>6

-----------------------------------------------------------------------------
(* The handlers *)

BusyPc ==
    {"require", "mark_processing", "complete", "mark_completed", "mark_failed",
     "ack", "nack", "nack_dead"}

LEMMA BusyCoroutine ==
    ASSUME IInv, NEW h \in Handler, handler[h].pc # "idle"
    PROVE  handler[h] \in SoundCoroutine /\ handler[h].task \in Task
  BY DEF IInv, StateOK, SoundCoroutine

\* A coroutine that goes on gains no lease.
LEMMA GotoKeeps ==
    ASSUME IInv, NEW h \in Handler, handler[h].pc # "idle", NEW pc \in BusyPc, Goto(h, pc),
           pc \in Running => handler[h].pc \in Running
    PROVE  HandlerKept
<1> DEFINE k == [handler[h] EXCEPT !.pc = pc, !.leased = @ /\ pc \in Running]
<1>1. handler[h] \in Coroutine /\ handler[h].task \in Task
  BY BusyCoroutine DEF SoundCoroutine
<1>2. handler' = [handler EXCEPT ![h] = k]
  BY DEF Goto
<1>3. /\ k.pc = pc /\ k.task = handler[h].task
      /\ k.leased <=> handler[h].leased /\ pc \in Running
  BY <1>1 DEF Coroutine
<1>4. k \in Coroutine
  BY <1>1 DEF Coroutine, BusyPc
<1>5. k \in SoundCoroutine
  BY <1>1, <1>3, <1>4 DEF SoundCoroutine
<1> QED
  BY <1>2, <1>3, <1>5 DEF HandlerKept, IInv, StateOK

LEMMA RaiseKeeps ==
    ASSUME IInv, NEW h \in Handler, handler[h].pc # "idle", Raise(h)
    PROVE  HandlerKept
  BY GotoKeeps DEF Raise, BusyPc, Running

LEMMA StopKeeps ==
    ASSUME IInv, NEW h \in Handler, handler' = [handler EXCEPT ![h] = NoCoroutine]
    PROVE  HandlerKept
<1>1. NoCoroutine \in SoundCoroutine /\ ~NoCoroutine.leased /\ NoCoroutine.pc \notin Running
  BY DEF NoCoroutine, SoundCoroutine, Coroutine, Running
<1> QED
  BY <1>1 DEF HandlerKept, IInv, StateOK

LEMMA ReceiveKeeps ==
    ASSUME IInv, NEW h \in Handler, NEW m \in MsgId, Receive(h, m)
    PROVE  HandlerKept
<1>1. stream[m].body \in Task
  BY DeliverKeeps DEF Receive
<1>2. stream[m].deliveries + 1 \in Nat
  BY DEF IInv, StateOK, SoundEntry, Entry
<1>3. \A pc \in {"nack_dead", "require"} :
        [pc |-> pc, msg |-> m, task |-> stream[m].body,
         received |-> stream[m].deliveries + 1, leased |-> FALSE] \in SoundCoroutine
  BY <1>1, <1>2 DEF SoundCoroutine, Coroutine
<1>4. "nack_dead" \notin Running /\ "require" \notin Running
  BY DEF Running
<1> QED
  BY <1>3, <1>4 DEF Receive, HandlerKept, IInv, StateOK

\* The claim of a task: no handler holds its lease, because its row is not barred.
LEMMA ClaimStep ==
    ASSUME IInv, NEW h \in Handler, Claim(h)
    PROVE  IInv'
<1> DEFINE t == handler[h].task
           row == [tasks[t] EXCEPT !.status = "processing", !.lease = "live",
                                   !.attempts = @ + 1]
           k == [handler[h] EXCEPT !.pc = "complete", !.leased = TRUE]
<1>1. handler[h] \in Coroutine /\ t \in Task
  BY BusyCoroutine DEF Claim, At, SoundCoroutine
<1>2. tasks[t] \in Row
  BY <1>1 DEF IInv, StateOK, SoundRow
<1>3. tasks' = [tasks EXCEPT ![t] = row] /\ handler' = [handler EXCEPT ![h] = k]
  BY DEF Claim, MarkProcessing
<1>4. row \in SoundRow /\ Barred(row) /\ InFlight(row)
  <2>1. ASSUME NEW n \in Nat
        PROVE  LET r == [tasks[t] EXCEPT !.status = "processing", !.lease = "live",
                                         !.attempts = n]
               IN  r \in Row /\ r.status = "processing" /\ r.lease = "live"
    BY <1>2 DEF Row
  <2>2. tasks[t].attempts + 1 \in Nat
    BY <1>2 DEF Row
  <2>3. row \in Row /\ row.status = "processing" /\ row.lease = "live"
    BY <2>1, <2>2
  <2> QED
    BY <2>3 DEF SoundRow, Barred, InFlight
<1>5. k \in SoundCoroutine /\ k.task = t /\ k.leased
  BY <1>1 DEF SoundCoroutine, Coroutine, Running
<1>6. ~Barred(tasks[t])
  BY DEF Claim, MarkProcessing, Claimable, LeaseExpired, Barred, Terminal
<1>7. \A g \in Handler : handler[g].leased => handler[g].task # t
  BY <1>6 DEF IInv, LeaseOK
<1>8. tasks' \in [Task -> SoundRow] /\ handler' \in [Handler -> SoundCoroutine]
  BY <1>3, <1>4, <1>5 DEF IInv, StateOK
<1>9. StateOK'
  BY <1>8 DEF Claim, outboxVars, queueVars, dispatchVars, IInv, StateOK
<1>10. \A g \in Handler : handler[g].leased => handler[g].task \in Task
  BY DEF IInv, StateOK, SoundCoroutine, Running
<1>11. handler'[h].task = t /\ handler'[h].leased /\ Barred(tasks'[t]) /\ InFlight(tasks'[t])
  BY <1>1, <1>3, <1>4, <1>5 DEF IInv, StateOK
<1>12. \A g \in Handler : g # h => handler'[g] = handler[g]
  BY <1>3 DEF IInv, StateOK
<1>13. \A u \in Task : u # t => tasks'[u] = tasks[u]
  BY <1>3 DEF IInv, StateOK
<1>14. overrun' = overrun
  BY DEF Claim
<1>15. LeaseOK'
  <2>1. ASSUME NEW g \in Handler, handler'[g].leased
        PROVE  Barred(tasks'[handler'[g].task])
    <3>1. CASE g = h
      BY <1>11, <3>1
    <3>2. CASE g # h
      BY <2>1, <3>2, <1>7, <1>10, <1>12, <1>13 DEF IInv, LeaseOK
    <3> QED
      BY <3>1, <3>2
  <2>2. ASSUME NEW f \in Handler, NEW g \in Handler, handler'[f].leased,
               handler'[g].leased, handler'[f].task = handler'[g].task
        PROVE  f = g
    BY <2>2, <1>7, <1>11, <1>12 DEF IInv, LeaseOK
  <2>3. ASSUME NEW g \in Handler, handler'[g].pc \in Running,
               handler'[g].task \notin overrun'
        PROVE  handler'[g].leased /\ InFlight(tasks'[handler'[g].task])
    <3>1. CASE g = h
      BY <1>11, <3>1
    <3>2. CASE g # h
      <4>1. handler[g].leased /\ InFlight(tasks[handler[g].task])
        BY <2>3, <3>2, <1>12, <1>14 DEF IInv, LeaseOK
      <4> QED
        BY <3>2, <4>1, <1>7, <1>10, <1>12, <1>13
    <3> QED
      BY <3>1, <3>2
  <2> QED
    BY <2>1, <2>2, <2>3 DEF LeaseOK
<1> QED
  BY <1>9, <1>15 DEF IInv

\* The expiry of a lease: whoever holds it loses it.
LEMMA LeaseExpiresStep ==
    ASSUME IInv, NEW t \in Task, TaskLeaseExpires(t)
    PROVE  IInv'
<1> DEFINE row == [tasks[t] EXCEPT !.lease = "expired"]
<1>1. tasks[t] \in SoundRow
  BY DEF IInv, StateOK
<1>2. row \in SoundRow
  BY <1>1 DEF TaskLeaseExpires, LeaseExpires, SoundRow, Row
<1>3. tasks' = [tasks EXCEPT ![t] = row]
  BY DEF TaskLeaseExpires, LeaseExpires
<1>4. \A h \in Handler :
        /\ handler'[h] \in SoundCoroutine
        /\ handler'[h].leased => handler'[h] = handler[h] /\ handler[h].task # t
        /\ handler'[h].pc = handler[h].pc /\ handler'[h].task = handler[h].task
        /\ handler[h].task # t => handler'[h] = handler[h]
  <2> SUFFICES ASSUME NEW h \in Handler
               PROVE  /\ handler'[h] \in SoundCoroutine
                      /\ handler'[h].leased => handler'[h] = handler[h] /\ handler[h].task # t
                      /\ handler'[h].pc = handler[h].pc /\ handler'[h].task = handler[h].task
                      /\ handler[h].task # t => handler'[h] = handler[h]
    OBVIOUS
  <2>1. handler[h] \in SoundCoroutine
    BY DEF IInv, StateOK
  <2>2. CASE handler[h].task = t
    <3>1. [handler[h] EXCEPT !.leased = FALSE] \in SoundCoroutine
      BY <2>1 DEF SoundCoroutine, Coroutine
    <3>2. /\ ~[handler[h] EXCEPT !.leased = FALSE].leased
          /\ [handler[h] EXCEPT !.leased = FALSE].pc = handler[h].pc
          /\ [handler[h] EXCEPT !.leased = FALSE].task = handler[h].task
      BY <2>1 DEF SoundCoroutine, Coroutine
    <3> QED
      BY <2>2, <3>1, <3>2 DEF TaskLeaseExpires
  <2>3. CASE handler[h].task # t
    BY <2>1, <2>3 DEF TaskLeaseExpires
  <2> QED
    BY <2>2, <2>3
<1>5. tasks' \in [Task -> SoundRow] /\ handler' \in [Handler -> SoundCoroutine]
  <2>1. tasks' \in [Task -> SoundRow]
    BY <1>2, <1>3 DEF IInv, StateOK
  <2>2. handler' \in [Handler -> SoundCoroutine]
    BY <1>4 DEF TaskLeaseExpires
  <2> QED
    BY <2>1, <2>2
<1>6. overrun' \subseteq Task
  BY DEF TaskLeaseExpires, IInv, StateOK
<1>7. StateOK'
  BY <1>5, <1>6 DEF TaskLeaseExpires, outboxVars, queueVars, dispatchVars, IInv, StateOK
<1>8. \A u \in Task : u # t => tasks'[u] = tasks[u]
  BY <1>3 DEF IInv, StateOK
<1>9. \A h \in Handler : handler[h].pc \in Running \/ handler[h].leased => handler[h].task \in Task
  BY DEF IInv, StateOK, SoundCoroutine, Running
<1>10. /\ \A h \in Handler : handler'[h].leased => Barred(tasks'[handler'[h].task])
       /\ \A g, h \in Handler :
            handler'[g].leased /\ handler'[h].leased /\ handler'[g].task = handler'[h].task
            => g = h
  BY <1>4, <1>8, <1>9 DEF IInv, LeaseOK
<1>11. ASSUME NEW h \in Handler, handler'[h].pc \in Running, handler'[h].task \notin overrun'
       PROVE  handler'[h].leased /\ InFlight(tasks'[handler'[h].task])
  <2>1. handler[h].pc \in Running /\ handler[h].task \notin overrun'
    BY <1>4, <1>11
  <2>2. handler[h].task # t /\ handler[h].task \notin overrun
    BY <2>1 DEF TaskLeaseExpires
  <2> QED
    BY <1>4, <1>8, <1>9, <2>1, <2>2 DEF IInv, LeaseOK
<1>12. LeaseOK'
  BY <1>10, <1>11 DEF LeaseOK
<1> QED
  BY <1>7, <1>12 DEF IInv

\* A settled task: the only other handler that could still run it without
\* having overrun its lease would hold the same lease.
LEMMA SettleStep ==
    ASSUME IInv, NEW h \in Handler, Settle(h)
    PROVE  IInv'
<1> DEFINE t == handler[h].task
<1>1. handler[h].pc \in {"mark_completed", "mark_failed"}
  BY DEF Settle, At
<1>2. t \in Task
  BY <1>1, BusyCoroutine
<1>3. PICK status \in Terminal : Update(t, status)
  BY DEF Settle, Terminal
<1>4. PICK pc \in {"ack", "nack_dead"} : Goto(h, pc)
  BY DEF Settle
<1>5. HandlerKept
  BY <1>1, <1>4, GotoKeeps DEF BusyPc, Running
<1>6. handler'[h].pc \notin Running /\ ~handler'[h].leased
  <2>1. handler[h] \in Coroutine
    BY <1>1, BusyCoroutine DEF SoundCoroutine
  <2>2. handler'[h].pc = pc
    BY <1>4, <2>1 DEF Goto, IInv, StateOK, Coroutine
  <2>3. handler'[h].pc \notin Running
    BY <2>2 DEF Running
  <2>4. handler'[h] \in SoundCoroutine
    BY <1>5 DEF HandlerKept
  <2> QED
    BY <2>3, <2>4 DEF SoundCoroutine
<1>7. /\ tasks' \in [Task -> SoundRow] /\ Barred(tasks'[t])
      /\ \A u \in Task : u # t => tasks'[u] = tasks[u]
  BY <1>2, <1>3, UpdateBars
<1>8. /\ UNCHANGED outboxVars /\ UNCHANGED queueVars /\ UNCHANGED dispatchVars
      /\ overrun' = overrun /\ faults' = faults
  BY DEF Settle
<1>9. StateOK'
  <2>1. OutboxKept /\ QueueKept /\ DispatchKept /\ CountersKept
    BY <1>8, UnchangedKept
  <2> QED
    BY <1>5, <1>7, <2>1
       DEF IInv, StateOK, HandlerKept, OutboxKept, QueueKept, DispatchKept, CountersKept
<1>10. \A g \in Handler : handler[g].pc \in Running \/ handler[g].leased => handler[g].task \in Task
  BY DEF IInv, StateOK, SoundCoroutine, Running
<1>11. /\ \A g \in Handler : handler'[g].leased => Barred(tasks'[handler'[g].task])
       /\ \A f, g \in Handler :
            handler'[f].leased /\ handler'[g].leased /\ handler'[f].task = handler'[g].task
            => f = g
  BY <1>5, <1>7, <1>10 DEF HandlerKept, IInv, LeaseOK
<1>12. ASSUME NEW g \in Handler, handler'[g].pc \in Running, handler'[g].task \notin overrun'
       PROVE  handler'[g].leased /\ InFlight(tasks'[handler'[g].task])
  <2>1. /\ g # h
        /\ handler[g].pc \in Running /\ handler[g].task \notin overrun
        /\ handler'[g].task = handler[g].task /\ handler'[g].leased <=> handler[g].leased
    BY <1>5, <1>6, <1>8, <1>12 DEF HandlerKept
  <2>2. handler[g].leased /\ InFlight(tasks[handler[g].task])
    BY <2>1 DEF IInv, LeaseOK
  <2>3. ASSUME handler[g].task = t PROVE FALSE
    <3>1. handler[h].leased
      BY <1>1, <2>1, <2>3 DEF IInv, LeaseOK, Running
    <3> QED
      BY <2>1, <2>2, <2>3, <3>1 DEF IInv, LeaseOK
  <2> QED
    BY <1>7, <1>10, <2>1, <2>2, <2>3
<1>13. LeaseOK'
  BY <1>11, <1>12 DEF LeaseOK
<1> QED
  BY <1>9, <1>13 DEF IInv

-----------------------------------------------------------------------------
(* The induction *)

LEMMA InvInit == Init => IInv
<1> SUFFICES ASSUME Init PROVE IInv
  OBVIOUS
<1>1. NoRow \in SoundRow
  BY TaskStoreAssumption DEF NoRow, SoundRow, Row
<1>2. NoEvent \in SoundEvent
  BY DEF NoEvent, SoundEvent, EventRow
<1>3. NoEntry \in SoundEntry
  BY DEF NoEntry, SoundEntry, Entry
<1>4. NoCoroutine \in SoundCoroutine /\ ~NoCoroutine.leased /\ NoCoroutine.pc \notin Running
  BY DEF NoCoroutine, SoundCoroutine, Coroutine, Running
<1>5. StateOK
  BY <1>1, <1>2, <1>3, <1>4, TaskPipelineAssumption
     DEF Init, TaskStoreInit, OutboxInit, QueueInit, StateOK
<1>6. LeaseOK
  BY <1>4 DEF Init, LeaseOK
<1> QED
  BY <1>5, <1>6 DEF IInv

LEMMA DispatchStep ==
    ASSUME IInv, NEW t \in Task, Dispatch(t)
    PROVE  IInv'
<1>1. CASE SubmitOutbox(t)
  <2>1. PICK e \in Event : Insert([x \in {e} |-> t])
    BY <1>1 DEF SubmitOutbox
  <2>2. OutboxKept
    BY <2>1, InsertKeeps
  <2>3. TasksKept
    BY <1>1, CreateKeeps DEF SubmitOutbox
  <2> QED
    BY <1>1, <2>2, <2>3, UnchangedKept, AllKept DEF SubmitOutbox, workVars
<1>2. CASE SubmitCreate(t)
  <2>1. TasksKept
    BY <1>2, CreateKeeps DEF SubmitCreate
  <2>2. DispatchKept
    BY <1>2 DEF SubmitCreate, DispatchKept, IInv, StateOK
  <2> QED
    BY <1>2, <2>1, <2>2, UnchangedKept, AllKept DEF SubmitCreate, workVars
<1>3. CASE SubmitSend(t)
  <2>1. QueueKept
    BY <1>3, SendKeeps DEF SubmitSend
  <2>2. DispatchKept
    BY <1>3 DEF SubmitSend, DispatchKept, IInv, StateOK
  <2> QED
    BY <1>3, <2>1, <2>2, UnchangedKept, AllKept DEF SubmitSend, workVars
<1>4. CASE SubmitFails(t)
  <2>1. DispatchKept
    BY <1>4 DEF SubmitFails, DispatchKept, IInv, StateOK
  <2> QED
    BY <1>4, <2>1, UnchangedKept, AllKept DEF SubmitFails, workVars
<1> QED
  BY <1>1, <1>2, <1>3, <1>4 DEF Dispatch

LEMMA RequeuedTasks ==
    ASSUME NEW S \in StaleBatch
    PROVE  Requeued(S) \subseteq Task
  BY DEF StaleBatch, Requeued

LEMMA ReclaimStep ==
    ASSUME IInv, Reclaim
    PROVE  IInv'
<1>1. ASSUME NEW S \in StaleBatch, ReclaimOutbox(S) PROVE IInv'
  <2>1. PICK D \in SUBSET Event : \E f \in [D -> Requeued(S)] : Insert(f)
    BY <1>1 DEF ReclaimOutbox
  <2>2. PICK f \in [D -> Requeued(S)] : Insert(f)
    BY <2>1
  <2>3. OutboxKept
    BY <2>2, InsertKeeps, RequeuedTasks
  <2>4. TasksKept
    BY <1>1, ReclaimKeeps DEF ReclaimOutbox
  <2> QED
    BY <1>1, <2>3, <2>4, UnchangedKept, AllKept DEF ReclaimOutbox, workVars
<1>2. ASSUME NEW p \in Process, NEW S \in StaleBatch, ReclaimQueue(p, S) PROVE IInv'
  <2>1. TasksKept
    BY <1>2, ReclaimKeeps DEF ReclaimQueue
  <2>2. DispatchKept
    BY <1>2, RequeuedTasks DEF ReclaimQueue, DispatchKept, IInv, StateOK
  <2> QED
    BY <1>2, <2>1, <2>2, UnchangedKept, AllKept DEF ReclaimQueue, workVars
<1>3. ASSUME NEW p \in Process, NEW t \in Task, ReclaimSend(p, t) PROVE IInv'
  <2>1. QueueKept
    BY <1>3, SendKeeps DEF ReclaimSend
  <2>2. DispatchKept
    BY <1>3 DEF ReclaimSend, DispatchKept, IInv, StateOK
  <2> QED
    BY <1>3, <2>1, <2>2, UnchangedKept, AllKept DEF ReclaimSend, workVars
<1> QED
  BY <1>1, <1>2, <1>3 DEF Reclaim

LEMMA RelayStep ==
    ASSUME IInv, NEW p \in Process, Relay(p)
    PROVE  IInv'
<1>1. ASSUME NEW S \in SUBSET Event, RelayClaim(p, S) PROVE IInv'
  BY <1>1, ClaimPendingKeeps, UnchangedKept, AllKept DEF RelayClaim, workVars
<1>2. ASSUME NEW r \in batch[p], RelaySend(p, r) PROVE IInv'
  <2>1. r.payload \in Task
    BY DEF IInv, StateOK, SoundRecord
  <2>2. OutboxKept
    BY <1>2, PublishKeeps DEF RelaySend
  <2>3. QueueKept
    BY <1>2, <2>1, SendKeeps DEF RelaySend
  <2> QED
    BY <1>2, <2>2, <2>3, UnchangedKept, AllKept DEF RelaySend, workVars
<1>3. ASSUME NEW s \in settling[p], RelayMark(p, s) PROVE IInv'
  <2>1. OutboxKept
    BY <1>3, MarkKeeps, AbandonKeeps DEF RelayMark, MarkMissing
  <2> QED
    BY <1>3, <2>1, UnchangedKept, AllKept DEF RelayMark, workVars
<1> QED
  BY <1>1, <1>2, <1>3 DEF Relay

LEMMA HandleStep ==
    ASSUME IInv, NEW h \in Handler, Handle(h)
    PROVE  IInv'
<1>1. ASSUME HandlerKept, tasks' = tasks, UNCHANGED outboxVars, UNCHANGED queueVars,
             UNCHANGED dispatchVars, overrun' = overrun, faults' = faults
      PROVE  IInv'
  BY <1>1, UnchangedKept, AllKept
<1>2. CASE Require(h)
  <2>1. HandlerKept
    BY <1>2, GotoKeeps, RaiseKeeps DEF Require, At, BusyPc, Running
  <2> QED
    BY <1>1, <1>2, <2>1 DEF Require
<1>3. CASE Skip(h)
  <2>1. HandlerKept
    BY <1>3, GotoKeeps, RaiseKeeps DEF Skip, At, BusyPc, Running
  <2> QED
    BY <1>1, <1>3, <2>1 DEF Skip
<1>4. CASE Complete(h)
  <2>1. HandlerKept
    BY <1>4, GotoKeeps DEF Complete, At, BusyPc, Running
  <2> QED
    BY <1>1, <1>4, <2>1 DEF Complete
<1>5. CASE SettleMissing(h)
  <2>1. HandlerKept
    BY <1>5, RaiseKeeps DEF SettleMissing, At
  <2> QED
    BY <1>1, <1>5, <2>1 DEF SettleMissing
<1>6. CASE Finish(h)
  <2>1. HandlerKept
    BY <1>6, StopKeeps DEF Finish
  <2>2. handler[h].task \in Task
    BY <1>6, BusyCoroutine DEF Finish, At
  <2>3. QueueKept
    BY <1>6, <2>2, FinishKeeps DEF Finish
  <2> QED
    BY <1>6, <2>1, <2>3, UnchangedKept, AllKept DEF Finish
<1> QED
  BY <1>2, <1>3, <1>4, <1>5, <1>6, ClaimStep, SettleStep DEF Handle

LEMMA FaultyStep ==
    ASSUME IInv, Faulty
    PROVE  IInv'
<1>1. ASSUME NEW p \in Process, ReclaimFails(p) PROVE IInv'
  <2>1. DispatchKept
    BY <1>1 DEF ReclaimFails, DispatchKept, IInv, StateOK
  <2> QED
    BY <1>1, <2>1, UnchangedKept, AllKept DEF ReclaimFails, workVars
<1>2. ASSUME NEW p \in Process, RelayFails(p) PROVE IInv'
  BY <1>2, AbandonKeeps, UnchangedKept, AllKept DEF RelayFails, workVars
<1>3. ASSUME NEW p \in Process, NEW r \in batch[p], RelaySendFails(p, r) PROVE IInv'
  BY <1>3, PublishKeeps, UnchangedKept, AllKept DEF RelaySendFails, workVars
<1>4. ASSUME NEW h \in Handler, CallFails(h) PROVE IInv'
  <2>1. HandlerKept
    BY <1>4, StopKeeps, RaiseKeeps DEF CallFails
  <2> QED
    BY <1>4, <2>1, UnchangedKept, AllKept DEF CallFails
<1>5. ASSUME NEW h \in Handler, Crash(h) PROVE IInv'
  BY <1>5, StopKeeps, UnchangedKept, AllKept DEF Crash
<1> QED
  BY <1>1, <1>2, <1>3, <1>4, <1>5 DEF Faulty

LEMMA CleanupStep ==
    ASSUME IInv, Cleanup
    PROVE  IInv'
<1>1. CASE /\ \E S \in ExpiredBatch : DeleteExpired(S)
           /\ UNCHANGED <<outboxVars, queueVars, workVars, dispatchVars, faults>>
  <2>1. TasksKept
    BY <1>1, DeleteKeeps
  <2> QED
    BY <1>1, <2>1, UnchangedKept, AllKept DEF workVars
<1>2. CASE /\ \E S \in SUBSET Event : DeletePublished(S)
           /\ UNCHANGED <<tasks, queueVars, workVars, dispatchVars, faults>>
  <2>1. OutboxKept
    BY <1>2, DeletePublishedKeeps
  <2> QED
    BY <1>2, <2>1, UnchangedKept, AllKept DEF workVars
<1> QED
  BY <1>1, <1>2 DEF Cleanup

LEMMA TimeStep ==
    ASSUME IInv, Time
    PROVE  IInv'
<1>1. ASSUME NEW t \in Task, TaskTtlExpires(t) PROVE IInv'
  BY <1>1, TtlKeeps, UnchangedKept, AllKept DEF TaskTtlExpires, workVars
<1>2. ASSUME NEW e \in Event, OutboxTime(e) PROVE IInv'
  BY <1>2, OutboxTimeKeeps, UnchangedKept, AllKept DEF OutboxTime, workVars
<1>3. ASSUME NEW m \in MsgId, QueueTime(m) PROVE IInv'
  BY <1>3, DeliverKeeps, UnchangedKept, AllKept DEF QueueTime, workVars
<1> QED
  BY <1>1, <1>2, <1>3, LeaseExpiresStep DEF Time

LEMMA InvNext == IInv /\ [Next]_vars => IInv'
<1> SUFFICES ASSUME IInv, [Next]_vars PROVE IInv'
  OBVIOUS
<1>1. ASSUME NEW h \in Handler, NEW m \in MsgId, Receive(h, m) PROVE IInv'
  <2>1. QueueKept
    BY <1>1, DeliverKeeps DEF Receive
  <2>2. HandlerKept
    BY <1>1, ReceiveKeeps
  <2> QED
    BY <1>1, <2>1, <2>2, UnchangedKept, AllKept DEF Receive
<1>2. CASE UNCHANGED vars
  BY <1>2, UnchangedKept, AllKept DEF vars, outboxVars, queueVars, dispatchVars
<1> QED
  BY <1>1, <1>2, DispatchStep, ReclaimStep, RelayStep, HandleStep, FaultyStep,
     CleanupStep, TimeStep DEF Next

\* The strengthening is invariant.
THEOREM InductiveInvariant == Spec => []IInv
<1>1. Init => IInv
  BY InvInit
<1>2. IInv /\ [Next]_vars => IInv'
  BY InvNext
<1> QED
  BY <1>1, <1>2, PTL DEF Spec

\* Task table, outbox, queue and handlers always have their types.
THEOREM TypeCorrect == Spec => []TypeOK
<1>1. IInv => TypeOK
  BY DEF IInv, StateOK, TypeOK, SoundRow, SoundEvent, SoundRecord, SoundEntry, SoundCoroutine
<1> QED
  BY <1>1, InductiveInvariant, PTL

\* The compare-and-set of mark_processing is mutual exclusion: with any
\* number of workers, duplicates, reclaims, late writes and crashes, no two
\* handlers hold an unexpired lease on one task.
THEOREM LeaseExclusion == Spec => []AtMostOneLiveHandler
<1>1. IInv => AtMostOneLiveHandler
  BY DEF IInv, LeaseOK, AtMostOneLiveHandler
<1> QED
  BY <1>1, InductiveInvariant, PTL

\* reclaim_stale_in never requeues a task that used up its claims.
THEOREM UnderCap == Spec => []QueuedUnderCap
<1>1. IInv => QueuedUnderCap
  BY DEF IInv, StateOK, SoundRow, QueuedUnderCap
<1> QED
  BY <1>1, InductiveInvariant, PTL

\* No step opens a settled task again, the unfenced mark_completed and
\* mark_failed of a late handler included; those change its outcome only if a
\* handler outlived its lease on it.
THEOREM TerminalStays == Spec => TerminalIsFinal
<1>1. IInv /\ [Next]_vars =>
        [\A t \in Task :
          tasks[t].status \in Terminal => tasks'[t].status \in Afterwards(t)]_vars
  <2> SUFFICES ASSUME IInv, Next, NEW t \in Task, tasks[t].status \in Terminal
               PROVE  tasks'[t].status \in Afterwards(t)
    BY DEF vars
  <2>1. tasks[t].status \in Afterwards(t) /\ "purged" \in Afterwards(t)
    BY DEF Afterwards
  <2>2. tasks \in [Task -> Row]
    BY DEF IInv, StateOK, SoundRow
  <2>3. tasks[t].status \notin {"none", "queued", "processing", "purged"}
    BY DEF Terminal
  <2>4. ASSUME NEW u \in Task, Create(u) \/ MarkProcessing(u) \/ TtlExpires(u) \/ LeaseExpires(u)
        PROVE  tasks'[t].status = tasks[t].status
    BY <2>2, <2>3, <2>4
       DEF Create, MarkProcessing, Claimable, LeaseExpired, TtlExpires, LeaseExpires, Row
  <2>5. ASSUME NEW S \in StaleBatch, ReclaimStaleProcessing(S)
        PROVE  tasks'[t].status = tasks[t].status
    BY <2>3, <2>5 DEF StaleBatch, LeaseExpired, ReclaimStaleProcessing
  <2>6. ASSUME NEW S, DeleteExpired(S)
        PROVE  tasks'[t].status \in {tasks[t].status, "purged"}
    BY <2>2, <2>6 DEF DeleteExpired, Row
  <2>7. ASSUME NEW h \in Handler, Settle(h)
        PROVE  tasks'[t].status \in Afterwards(t)
    <3>1. handler[h].pc \in Running
      BY <2>7 DEF Settle, At, Running
    <3>2. handler[h].task \in Task
      BY <3>1, BusyCoroutine DEF Running
    <3>3. handler[h].task = t => t \in overrun
      BY <2>3, <3>1 DEF IInv, LeaseOK, InFlight
    <3>4. CASE handler[h].task # t
      BY <2>2, <2>7, <2>1, <3>2, <3>4 DEF Settle, Update
    <3>5. CASE handler[h].task = t
      <4>1. tasks'[t].status \in Terminal
        BY <2>2, <2>7, <3>5 DEF Settle, Update, Terminal, Row
      <4> QED
        BY <3>3, <3>5, <4>1 DEF Afterwards
    <3> QED
      BY <3>4, <3>5
  <2>8. ASSUME NEW h \in Handler, Claim(h)
        PROVE  tasks'[t].status = tasks[t].status
    <3>1. handler[h].task \in Task
      BY <2>8, BusyCoroutine DEF Claim, At
    <3> QED
      BY <2>4, <2>8, <3>1 DEF Claim
  <2>9. CASE \E u \in Task : Dispatch(u)
    BY <2>4, <2>9, <2>1 DEF Dispatch, SubmitOutbox, SubmitCreate, SubmitSend, SubmitFails
  <2>10. CASE Reclaim
    BY <2>5, <2>10, <2>1 DEF Reclaim, ReclaimOutbox, ReclaimQueue, ReclaimSend
  <2>11. CASE \E p \in Process : Relay(p)
    BY <2>11, <2>1 DEF Relay, RelayClaim, RelaySend, RelayMark
  <2>12. CASE \E h \in Handler, m \in MsgId : Receive(h, m)
    BY <2>12, <2>1 DEF Receive
  <2>13. CASE \E h \in Handler : Handle(h)
    BY <2>7, <2>8, <2>13, <2>1
       DEF Handle, Require, Skip, Complete, SettleMissing, Finish
  <2>14. CASE Faulty
    BY <2>14, <2>1 DEF Faulty, ReclaimFails, RelayFails, RelaySendFails, CallFails, Crash
  <2>15. CASE Cleanup
    BY <2>6, <2>15, <2>1 DEF Cleanup
  <2>16. CASE Time
    BY <2>4, <2>16, <2>1 DEF Time, TaskLeaseExpires, TaskTtlExpires, OutboxTime, QueueTime
  <2> QED
    BY <2>9, <2>10, <2>11, <2>12, <2>13, <2>14, <2>15, <2>16 DEF Next
<1> QED
  BY <1>1, InductiveInvariant, PTL DEF Spec, TerminalIsFinal

-----------------------------------------------------------------------------
(* No queued task is lost.  QueuedIsAnnounced is not inductive: an event   *)
(* already sent is about to be PUBLISHED, and an entry whose handler is    *)
(* about to acknowledge it is about to go, so neither may be counted on.   *)
(* What is counted on is an event that nobody sent, or an entry that       *)
(* nobody acknowledges.  A handler acknowledges only once the task is not  *)
(* QUEUED, and whoever requeues it announces it anew.                      *)

\* A publisher sent the event and has yet to mark it.
Spoken(e) ==
    \E p \in Process : \E s \in settling[p] : s.outcome = "sent" /\ s.record.id = e

\* The event will be sent, or shows that it was given up.
Tells(e, t) ==
    /\ outbox[e].status \in {"pending", "failed"}
    /\ outbox[e].payload = t
    /\ ~Spoken(e)

\* The entry will be handled.
Carries(m, t) ==
    /\ stream[m].state # "free"
    /\ stream[m].body = t
    /\ \A h \in Handler : handler[h].msg = m => handler[h].pc # "ack"

Waits(t) == t \in dead \/ Sending(t) \/ t \in unsent

Witnessed(t) ==
    \/ \E e \in Event : Tells(e, t)
    \/ \E m \in MsgId : Carries(m, t)
    \/ Waits(t)

\* A claimed record and the row it was read from name the same task.
RecordsMatch ==
    \A p \in Process : \A r \in batch[p] :
        outbox[r.id].status # "free" => outbox[r.id].payload = r.payload

\* A coroutine and the entry it handles name the same task.
EntriesMatch ==
    \A h \in Handler, m \in MsgId :
        handler[h].msg = m /\ stream[m].state # "free"
        => stream[m].body = handler[h].task

AnnounceOK ==
    /\ RecordsMatch
    /\ EntriesMatch
    /\ \A t \in Task : tasks[t].status = "queued" => Witnessed(t)


(* What a step leaves as it was, for one task at a time. *)

EventsStay(t) == \A e \in Event : Tells(e, t) => Tells(e, t)'

EntriesStay(t) == \A m \in MsgId : Carries(m, t) => Carries(m, t)'

WaitsStay(t) == Waits(t) => Waits(t)'

QueuedBefore(t) == tasks'[t].status = "queued" => tasks[t].status = "queued"

\* A task whose witnesses stay, or that has a new one, is witnessed.
LEMMA WitnessKept ==
    ASSUME AnnounceOK, RecordsMatch', EntriesMatch',
           \A t \in Task : tasks'[t].status = "queued" =>
             \/ Witnessed(t)'
             \/ QueuedBefore(t) /\ EventsStay(t) /\ EntriesStay(t) /\ WaitsStay(t)
    PROVE  AnnounceOK'
<1> SUFFICES ASSUME NEW t \in Task, tasks'[t].status = "queued"
             PROVE  Witnessed(t)'
  BY DEF AnnounceOK
<1>1. CASE QueuedBefore(t) /\ EventsStay(t) /\ EntriesStay(t) /\ WaitsStay(t)
  BY <1>1 DEF AnnounceOK, QueuedBefore, Witnessed, EventsStay, EntriesStay, WaitsStay
<1> QED
  BY <1>1

LEMMA UnchangedStays ==
    ASSUME AnnounceOK
    PROVE  /\ (UNCHANGED outboxVars) => RecordsMatch' /\ \A t \in Task : EventsStay(t)
           /\ (UNCHANGED <<queueVars, handler>>) =>
                EntriesMatch' /\ \A t \in Task : EntriesStay(t)
           /\ (UNCHANGED <<dead, dispatchVars>>) => \A t \in Task : WaitsStay(t)
           /\ tasks' = tasks => \A t \in Task : QueuedBefore(t)
<1>1. (UNCHANGED outboxVars) => RecordsMatch' /\ \A t \in Task : EventsStay(t)
  BY DEF AnnounceOK, outboxVars, RecordsMatch, EventsStay, Tells, Spoken
<1>2. (UNCHANGED <<queueVars, handler>>) => EntriesMatch' /\ \A t \in Task : EntriesStay(t)
  BY DEF AnnounceOK, queueVars, EntriesMatch, EntriesStay, Carries
<1>3. (UNCHANGED <<dead, dispatchVars>>) => \A t \in Task : WaitsStay(t)
  BY DEF dispatchVars, WaitsStay, Waits, Sending
<1>4. tasks' = tasks => \A t \in Task : QueuedBefore(t)
  BY DEF QueuedBefore
<1> QED
  BY <1>1, <1>2, <1>3, <1>4

\* A sent message is a witness of its task, and hides no other.
LEMMA SendCarries ==
    ASSUME IInv, AnnounceOK, NEW t \in Task, SendFresh(t), handler' = handler
    PROVE  /\ EntriesMatch'
           /\ \A u \in Task : EntriesStay(u)
           /\ \E m \in MsgId : Carries(m, t)'
           /\ dead' = dead
<1>1. PICK m \in MsgId : Send(m, t) /\ \A h \in Handler : handler[h].msg # m
  BY DEF SendFresh
<1>2. stream[m] \in Entry
  BY DEF IInv, StateOK, SoundEntry
<1>3. /\ stream'[m].state = "new" /\ stream'[m].body = t
      /\ \A n \in MsgId : n # m => stream'[n] = stream[n]
  BY <1>1, <1>2 DEF Send, IInv, StateOK, Entry
<1>4. EntriesMatch'
  BY <1>1, <1>3 DEF AnnounceOK, EntriesMatch
<1>5. \A u \in Task : EntriesStay(u)
  BY <1>1, <1>3 DEF Send, EntriesStay, Carries
<1>6. Carries(m, t)'
  BY <1>1, <1>3 DEF Carries
<1> QED
  BY <1>1, <1>4, <1>5, <1>6 DEF Send

\* An inserted event is a witness of its task, and hides no other.
LEMMA InsertTells ==
    ASSUME IInv, AnnounceOK, NEW f, DOMAIN f \subseteq Event,
           \A e \in DOMAIN f : f[e] \in Task, Insert(f)
    PROVE  /\ RecordsMatch'
           /\ \A u \in Task : EventsStay(u)
           /\ \A e \in DOMAIN f : Tells(e, f[e])'
<1>1. ASSUME NEW e \in DOMAIN f
      PROVE  outbox'[e].status = "pending" /\ outbox'[e].payload = f[e]
  BY DEF Insert, NoEvent
<1>2. \A e \in Event : e \notin DOMAIN f => outbox'[e] = outbox[e]
  BY DEF Insert
<1>3. batch' = batch /\ settling' = settling
  BY DEF Insert
<1>4. \A e \in DOMAIN f : outbox[e].status = "free" /\ Unreferenced(e)
  BY DEF Insert
<1>5. \A p \in Process : \A r \in batch[p] : r.id \in Event
  BY DEF IInv, StateOK, SoundRecord, Record
<1>6. RecordsMatch'
  BY <1>2, <1>3, <1>4, <1>5 DEF AnnounceOK, RecordsMatch, Unreferenced
<1>7. \A u \in Task : EventsStay(u)
  BY <1>2, <1>3, <1>4 DEF EventsStay, Tells, Spoken
<1>8. \A e \in DOMAIN f : Tells(e, f[e])'
  BY <1>1, <1>3, <1>4 DEF Tells, Spoken, Unreferenced
<1> QED
  BY <1>6, <1>7, <1>8

-----------------------------------------------------------------------------
(* Dispatch and relay *)

LEMMA DispatchAnnounces ==
    ASSUME IInv, AnnounceOK, NEW t \in Task, Dispatch(t)
    PROVE  AnnounceOK'
<1>0. ASSUME NEW u \in Task, u # t, Create(t) \/ tasks' = tasks
      PROVE  QueuedBefore(u)
  BY <1>0 DEF Create, QueuedBefore, IInv, StateOK
<1>1. CASE SubmitOutbox(t)
  <2>1. PICK e \in Event : Insert([x \in {e} |-> t])
    BY <1>1 DEF SubmitOutbox
  <2>2. RecordsMatch' /\ (\A u \in Task : EventsStay(u)) /\ Tells(e, t)'
    BY <2>1, InsertTells
  <2>3. EntriesMatch' /\ \A u \in Task : EntriesStay(u) /\ WaitsStay(u)
    BY <1>1, UnchangedStays DEF SubmitOutbox, queueVars, workVars
  <2>4. Witnessed(t)'
    BY <2>2 DEF Witnessed
  <2> QED
    BY <1>0, <1>1, <2>2, <2>3, <2>4, WitnessKept DEF SubmitOutbox
<1>2. CASE SubmitCreate(t)
  <2>1. /\ RecordsMatch' /\ EntriesMatch'
        /\ \A u \in Task : EventsStay(u) /\ EntriesStay(u)
    BY <1>2, UnchangedStays DEF SubmitCreate, workVars
  <2>2. Witnessed(t)'
    BY <1>2 DEF SubmitCreate, Witnessed, Waits, Sending
  <2>3. \A u \in Task : WaitsStay(u)
    BY <1>2 DEF SubmitCreate, queueVars, WaitsStay, Waits, Sending
  <2> QED
    BY <1>0, <1>2, <2>1, <2>2, <2>3, WitnessKept DEF SubmitCreate
<1>3. CASE SubmitSend(t)
  <2>1. /\ EntriesMatch' /\ (\A u \in Task : EntriesStay(u))
        /\ (\E m \in MsgId : Carries(m, t)') /\ dead' = dead
    BY <1>3, SendCarries DEF SubmitSend, workVars
  <2>2. Witnessed(t)'
    BY <2>1 DEF Witnessed
  <2>3. RecordsMatch' /\ \A u \in Task : EventsStay(u)
    BY <1>3, UnchangedStays DEF SubmitSend
  <2>4. \A u \in Task : u # t => WaitsStay(u)
    BY <1>3, <2>1 DEF SubmitSend, WaitsStay, Waits, Sending
  <2> QED
    BY <1>0, <1>3, <2>1, <2>2, <2>3, <2>4, WitnessKept DEF SubmitSend
<1>4. CASE SubmitFails(t)
  <2>1. /\ RecordsMatch' /\ EntriesMatch'
        /\ \A u \in Task : EventsStay(u) /\ EntriesStay(u) /\ QueuedBefore(u)
    BY <1>4, UnchangedStays DEF SubmitFails, workVars
  <2>2. \A u \in Task : WaitsStay(u)
    BY <1>4 DEF SubmitFails, queueVars, WaitsStay, Waits, Sending
  <2> QED
    BY <2>1, <2>2, WitnessKept
<1> QED
  BY <1>1, <1>2, <1>3, <1>4 DEF Dispatch

\* reclaim_stale queues again no task outside the batch it requeues.
LEMMA RequeuedOnly ==
    ASSUME NEW S \in StaleBatch, ReclaimStaleProcessing(S), NEW t \in Task,
           t \notin Requeued(S), tasks \in [Task -> Row]
    PROVE  QueuedBefore(t)
<1>1. tasks[t] \in Row
  OBVIOUS
<1>2. t \in S => tasks'[t].status = "failed"
  BY <1>1 DEF ReclaimStaleProcessing, Row
<1>3. t \notin S => tasks'[t] = tasks[t]
  BY DEF ReclaimStaleProcessing
<1> QED
  BY <1>2, <1>3 DEF QueuedBefore

LEMMA ReclaimAnnounces ==
    ASSUME IInv, AnnounceOK, Reclaim
    PROVE  AnnounceOK'
<1>0. tasks \in [Task -> Row]
  BY DEF IInv, StateOK, SoundRow
<1>1. ASSUME NEW S \in StaleBatch, ReclaimOutbox(S) PROVE AnnounceOK'
  <2>1. PICK D \in SUBSET Event : \E f \in [D -> Requeued(S)] :
          (\A t \in Requeued(S) : \E e \in D : f[e] = t) /\ Insert(f)
    BY <1>1 DEF ReclaimOutbox
  <2>2. PICK f \in [D -> Requeued(S)] :
          (\A t \in Requeued(S) : \E e \in D : f[e] = t) /\ Insert(f)
    BY <2>1
  <2>3. RecordsMatch' /\ (\A u \in Task : EventsStay(u)) /\ \A e \in D : Tells(e, f[e])'
    BY <2>2, InsertTells, RequeuedTasks
  <2>4. \A t \in Requeued(S) : Witnessed(t)'
    <3> SUFFICES ASSUME NEW t \in Requeued(S) PROVE Witnessed(t)'
      OBVIOUS
    <3>1. PICK e \in D : f[e] = t
      BY <2>2
    <3>2. Tells(e, t)'
      BY <2>3, <3>1
    <3> QED
      BY <3>2 DEF Witnessed
  <2>5. EntriesMatch' /\ \A u \in Task : EntriesStay(u) /\ WaitsStay(u)
    BY <1>1, UnchangedStays DEF ReclaimOutbox, queueVars, workVars
  <2>6. \A t \in Task : t \notin Requeued(S) => QueuedBefore(t)
    BY <1>0, <1>1, RequeuedOnly DEF ReclaimOutbox
  <2> QED
    BY <2>3, <2>4, <2>5, <2>6, WitnessKept
<1>2. ASSUME NEW p \in Process, NEW S \in StaleBatch, ReclaimQueue(p, S) PROVE AnnounceOK'
  <2>1. /\ RecordsMatch' /\ EntriesMatch'
        /\ \A u \in Task : EventsStay(u) /\ EntriesStay(u)
    BY <1>2, UnchangedStays DEF ReclaimQueue, workVars
  <2>2. /\ requeuing'[p] = Requeued(S) /\ requeuing[p] = {}
        /\ \A q \in Process : q # p => requeuing'[q] = requeuing[q]
    BY <1>2 DEF ReclaimQueue, IInv, StateOK
  <2>3. \A t \in Requeued(S) : Witnessed(t)'
    BY <2>2 DEF Witnessed, Waits, Sending
  <2>4. \A u \in Task : WaitsStay(u)
    BY <1>2, <2>2 DEF ReclaimQueue, queueVars, WaitsStay, Waits, Sending
  <2>5. \A t \in Task : t \notin Requeued(S) => QueuedBefore(t)
    BY <1>0, <1>2, RequeuedOnly DEF ReclaimQueue
  <2> QED
    BY <2>1, <2>3, <2>4, <2>5, WitnessKept
<1>3. ASSUME NEW p \in Process, NEW t \in Task, ReclaimSend(p, t) PROVE AnnounceOK'
  <2>1. /\ EntriesMatch' /\ (\A u \in Task : EntriesStay(u))
        /\ (\E m \in MsgId : Carries(m, t)') /\ dead' = dead
    BY <1>3, SendCarries DEF ReclaimSend, workVars
  <2>2. Witnessed(t)'
    BY <2>1 DEF Witnessed
  <2>3. /\ RecordsMatch'
        /\ \A u \in Task : EventsStay(u) /\ QueuedBefore(u)
    BY <1>3, UnchangedStays DEF ReclaimSend
  <2>4. /\ requeuing'[p] = requeuing[p] \ {t}
        /\ \A q \in Process : q # p => requeuing'[q] = requeuing[q]
    BY <1>3 DEF ReclaimSend, IInv, StateOK
  <2>5. \A u \in Task : u # t => WaitsStay(u)
    BY <1>3, <2>1, <2>4 DEF ReclaimSend, WaitsStay, Waits, Sending
  <2> QED
    BY <2>1, <2>2, <2>3, <2>5, WitnessKept
<1> QED
  BY <1>1, <1>2, <1>3 DEF Reclaim


\* Sending a record silences the event of its own task only, for which the
\* message speaks from then on.
LEMMA RelaySendAnnounces ==
    ASSUME IInv, AnnounceOK, NEW p \in Process, NEW r \in batch[p], RelaySend(p, r)
    PROVE  AnnounceOK'
<1>0. r \in SoundRecord /\ r.id \in Event /\ r.payload \in Task
  BY DEF IInv, StateOK, SoundRecord, Record
<1>1. /\ EntriesMatch' /\ (\A u \in Task : EntriesStay(u))
      /\ (\E m \in MsgId : Carries(m, r.payload)') /\ dead' = dead
  BY <1>0, SendCarries DEF RelaySend, workVars
<1>2. Witnessed(r.payload)'
  BY <1>1 DEF Witnessed
<1>3. \A u \in Task : QueuedBefore(u) /\ WaitsStay(u)
  BY <1>1, UnchangedStays DEF RelaySend
<1>4. outbox' = outbox
  BY DEF RelaySend, Publish
<1>5. \A q \in Process : batch'[q] \subseteq batch[q]
  BY DEF RelaySend, Publish, IInv, StateOK
<1>6. \A q \in Process : \A s \in settling'[q] :
        s \in settling[q] \/ s.record = r
  BY DEF RelaySend, Publish, IInv, StateOK
<1>7. RecordsMatch'
  BY <1>4, <1>5 DEF AnnounceOK, RecordsMatch
<1>8. \A u \in Task : u # r.payload => EventsStay(u)
  <2> SUFFICES ASSUME NEW u \in Task, u # r.payload, NEW e \in Event, Tells(e, u)
               PROVE  Tells(e, u)'
    BY DEF EventsStay
  <2>1. e # r.id
    BY DEF AnnounceOK, RecordsMatch, Tells
  <2> QED
    BY <1>4, <1>6, <2>1 DEF Tells, Spoken
<1> QED
  BY <1>1, <1>2, <1>3, <1>7, <1>8, WitnessKept

\* A mark keeps every witness: only an event that was sent is PUBLISHED.
LEMMA MarkTells ==
    ASSUME IInv, AnnounceOK, NEW p \in Process, NEW s \in settling[p], Mark(p, s)
    PROVE  RecordsMatch' /\ \A u \in Task : EventsStay(u)
<1> DEFINE e == s.record.id
           row == outbox[e]
<1>1. s \in Settlement /\ e \in Event
  BY DEF IInv, StateOK, Settlement, Record
<1>2. row \in EventRow /\ row.status # "free"
  BY <1>1 DEF Mark, IInv, StateOK, SoundEvent
<1>3. /\ Marked(row, s).payload = row.payload
      /\ s.outcome # "sent" => Marked(row, s).status \in {"pending", "failed"}
  BY <1>2 DEF Marked, EventRow
<1>4. /\ outbox'[e] = Marked(row, s)
      /\ \A x \in Event : x # e => outbox'[x] = outbox[x]
  BY <1>1 DEF Mark, IInv, StateOK
<1>5. batch' = batch /\ \A q \in Process : settling'[q] \subseteq settling[q]
  BY DEF Mark, IInv, StateOK
<1>6. \A q \in Process : \A r \in batch[q] : r.id \in Event
  BY DEF IInv, StateOK, SoundRecord, Record
<1>7. RecordsMatch'
  <2> SUFFICES ASSUME NEW q \in Process, NEW r \in batch[q], outbox'[r.id].status # "free"
               PROVE  outbox'[r.id].payload = r.payload
    BY <1>5 DEF RecordsMatch
  <2>1. CASE r.id = e
    BY <1>2, <1>3, <1>4, <2>1 DEF AnnounceOK, RecordsMatch
  <2>2. CASE r.id # e
    BY <1>4, <1>6, <2>2 DEF AnnounceOK, RecordsMatch
  <2> QED
    BY <2>1, <2>2
<1>8. ASSUME NEW u \in Task, NEW x \in Event, Tells(x, u)
      PROVE  Tells(x, u)'
  <2>1. ~Spoken(x)'
    BY <1>5, <1>8 DEF Tells, Spoken
  <2>2. CASE x = e
    <3>1. s.outcome # "sent"
      BY <1>8, <2>2 DEF Tells, Spoken
    <3> QED
      BY <1>3, <1>4, <1>8, <2>1, <2>2, <3>1 DEF Tells
  <2>3. CASE x # e
    BY <1>4, <1>8, <2>1, <2>3 DEF Tells
  <2> QED
    BY <2>2, <2>3
<1> QED
  BY <1>7, <1>8 DEF EventsStay

LEMMA AbandonTells ==
    ASSUME IInv, AnnounceOK, NEW p \in Process, AbandonBatch(p)
    PROVE  RecordsMatch' /\ \A u \in Task : EventsStay(u)
<1>1. outbox' = outbox /\ \A q \in Process : batch'[q] \subseteq batch[q]
                                             /\ settling'[q] \subseteq settling[q]
  BY DEF AbandonBatch, IInv, StateOK
<1> QED
  BY <1>1 DEF AnnounceOK, RecordsMatch, EventsStay, Tells, Spoken

LEMMA ClaimTells ==
    ASSUME IInv, AnnounceOK, NEW p \in Process, NEW S \in SUBSET Event, ClaimPending(p, S)
    PROVE  RecordsMatch' /\ \A u \in Task : EventsStay(u)
<1>1. \A e \in Event : outbox[e] \in EventRow
  BY DEF IInv, StateOK, SoundEvent
<1>2. \A e \in Event : /\ outbox'[e].status = outbox[e].status
                       /\ outbox'[e].payload = outbox[e].payload
  BY <1>1 DEF ClaimPending, EventRow
<1>3. settling' = settling
  BY DEF ClaimPending
<1>4. \A u \in Task : EventsStay(u)
  BY <1>2, <1>3 DEF EventsStay, Tells, Spoken
<1>5. \A q \in Process : \A r \in batch'[q] :
        r \in batch[q] \/ (r.id \in Event /\ outbox[r.id].payload = r.payload)
  BY DEF ClaimPending, IInv, StateOK
<1>6. \A q \in Process : \A r \in batch[q] : r.id \in Event
  BY DEF IInv, StateOK, SoundRecord, Record
<1>7. RecordsMatch'
  BY <1>2, <1>5, <1>6 DEF AnnounceOK, RecordsMatch
<1> QED
  BY <1>4, <1>7

\* A send that failed leaves the event to be tried again or given up.
LEMMA SendFailsTells ==
    ASSUME IInv, AnnounceOK, NEW p \in Process, NEW r \in batch[p], Publish(p, r, "error")
    PROVE  RecordsMatch' /\ \A u \in Task : EventsStay(u)
<1>1. outbox' = outbox /\ \A q \in Process : batch'[q] \subseteq batch[q]
  BY DEF Publish, IInv, StateOK
<1>2. \A q \in Process : \A s \in settling'[q] : s \in settling[q] \/ s.outcome = "error"
  BY DEF Publish, IInv, StateOK
<1> QED
  BY <1>1, <1>2 DEF AnnounceOK, RecordsMatch, EventsStay, Tells, Spoken

LEMMA OutboxTimeTells ==
    ASSUME IInv, AnnounceOK, NEW x \in Event, LockExpires(x) \/ BecomesDue(x) \/ RetentionEnds(x)
    PROVE  RecordsMatch' /\ \A u \in Task : EventsStay(u)
<1>1. \A e \in Event : outbox[e] \in EventRow
  BY DEF IInv, StateOK, SoundEvent
<1>2. \A e \in Event : /\ outbox'[e].status = outbox[e].status
                       /\ outbox'[e].payload = outbox[e].payload
  BY <1>1 DEF LockExpires, BecomesDue, RetentionEnds, EventRow, IInv, StateOK
<1>3. batch' = batch /\ settling' = settling
  BY DEF LockExpires, BecomesDue, RetentionEnds
<1>4. \A q \in Process : \A r \in batch[q] : r.id \in Event
  BY DEF IInv, StateOK, SoundRecord, Record
<1> QED
  BY <1>2, <1>3, <1>4 DEF AnnounceOK, RecordsMatch, EventsStay, Tells, Spoken

\* The retention purge deletes no event that is not PUBLISHED.
LEMMA DeletePublishedTells ==
    ASSUME IInv, AnnounceOK, NEW S \in SUBSET Event, DeletePublished(S)
    PROVE  RecordsMatch' /\ \A u \in Task : EventsStay(u)
<1>1. \A e \in Event :
        \/ outbox'[e] = outbox[e]
        \/ outbox[e].status = "published" /\ outbox'[e].status = "free"
  BY DEF DeletePublished, NoEvent
<1>2. batch' = batch /\ settling' = settling
  BY DEF DeletePublished
<1>3. \A q \in Process : \A r \in batch[q] : r.id \in Event
  BY DEF IInv, StateOK, SoundRecord, Record
<1>4. RecordsMatch'
  BY <1>1, <1>2, <1>3 DEF AnnounceOK, RecordsMatch
<1>5. \A u \in Task : EventsStay(u)
  BY <1>1, <1>2 DEF EventsStay, Tells, Spoken
<1> QED
  BY <1>4, <1>5

\* A step of the outbox alone.
LEMMA OutboxAlone ==
    ASSUME AnnounceOK, RecordsMatch', \A u \in Task : EventsStay(u),
           UNCHANGED <<tasks, queueVars, workVars, dispatchVars>>
    PROVE  AnnounceOK'
<1>1. EntriesMatch' /\ \A u \in Task : EntriesStay(u) /\ WaitsStay(u) /\ QueuedBefore(u)
  BY UnchangedStays DEF queueVars, workVars
<1> QED
  BY <1>1, WitnessKept

LEMMA RelayAnnounces ==
    ASSUME IInv, AnnounceOK, NEW p \in Process, Relay(p)
    PROVE  AnnounceOK'
<1>1. ASSUME NEW S \in SUBSET Event, RelayClaim(p, S) PROVE AnnounceOK'
  BY <1>1, ClaimTells, OutboxAlone DEF RelayClaim
<1>2. ASSUME NEW s \in settling[p], RelayMark(p, s) PROVE AnnounceOK'
  <2>1. RecordsMatch' /\ \A u \in Task : EventsStay(u)
    BY <1>2, MarkTells, AbandonTells DEF RelayMark, MarkMissing
  <2> QED
    BY <1>2, <2>1, OutboxAlone DEF RelayMark
<1> QED
  BY <1>1, <1>2, RelaySendAnnounces DEF Relay

-----------------------------------------------------------------------------
(* The handlers *)

\* A coroutine that does not come to acknowledge its entry hides nothing.
LEMMA NotAcking ==
    ASSUME IInv, AnnounceOK, UNCHANGED queueVars, NEW h \in Handler,
           \A g \in Handler : g # h => handler'[g] = handler[g],
           handler'[h].pc # "ack",
           \/ handler'[h].msg = NoMsg
           \/ handler'[h].msg = handler[h].msg /\ handler'[h].task = handler[h].task
    PROVE  EntriesMatch' /\ \A u \in Task : EntriesStay(u)
<1>1. EntriesMatch'
  BY TaskPipelineAssumption DEF AnnounceOK, EntriesMatch, queueVars
<1>2. \A u \in Task : EntriesStay(u)
  BY DEF EntriesStay, Carries, queueVars
<1> QED
  BY <1>1, <1>2

LEMMA GotoMoves ==
    ASSUME IInv, NEW h \in Handler, NEW pc, Goto(h, pc)
    PROVE  /\ \A g \in Handler : g # h => handler'[g] = handler[g]
           /\ handler'[h].pc = pc
           /\ handler'[h].msg = handler[h].msg /\ handler'[h].task = handler[h].task
<1>1. handler[h] \in Coroutine
  BY DEF IInv, StateOK, SoundCoroutine
<1> QED
  BY <1>1 DEF Goto, IInv, StateOK, Coroutine

LEMMA RaiseMoves ==
    ASSUME IInv, NEW h \in Handler, Raise(h)
    PROVE  /\ \A g \in Handler : g # h => handler'[g] = handler[g]
           /\ handler'[h].pc # "ack"
           /\ handler'[h].msg = handler[h].msg /\ handler'[h].task = handler[h].task
  BY GotoMoves DEF Raise

LEMMA StopMoves ==
    ASSUME IInv, NEW h \in Handler, handler' = [handler EXCEPT ![h] = NoCoroutine]
    PROVE  /\ \A g \in Handler : g # h => handler'[g] = handler[g]
           /\ handler'[h].pc # "ack" /\ handler'[h].msg = NoMsg
  BY DEF NoCoroutine, IInv, StateOK


\* A coroutine comes to acknowledge an entry only when its task is not
\* QUEUED; entries of other tasks are not its own.
LEMMA AckingHidesOwn ==
    ASSUME IInv, AnnounceOK, UNCHANGED queueVars, NEW h \in Handler, NEW pc, Goto(h, pc),
           NEW u \in Task, u # handler[h].task
    PROVE  EntriesMatch' /\ EntriesStay(u)
<1>1. /\ \A g \in Handler : g # h => handler'[g] = handler[g]
      /\ handler'[h].msg = handler[h].msg /\ handler'[h].task = handler[h].task
  BY GotoMoves
<1>2. EntriesMatch'
  BY <1>1 DEF AnnounceOK, EntriesMatch, queueVars
<1>3. ASSUME NEW m \in MsgId, Carries(m, u)
      PROVE  Carries(m, u)'
  <2>1. handler[h].msg # m
    BY <1>3 DEF AnnounceOK, EntriesMatch, Carries
  <2> QED
    BY <1>1, <1>3, <2>1 DEF Carries, queueVars
<1> QED
  BY <1>2, <1>3 DEF EntriesStay

\* A step of one coroutine alone.
LEMMA HandlerAlone ==
    ASSUME AnnounceOK, EntriesMatch', \A u \in Task : EntriesStay(u),
           \A u \in Task : QueuedBefore(u), dead' = dead,
           UNCHANGED <<outboxVars, dispatchVars>>
    PROVE  AnnounceOK'
<1>1. RecordsMatch' /\ \A u \in Task : EventsStay(u) /\ WaitsStay(u)
  BY UnchangedStays
<1> QED
  BY <1>1, WitnessKept

LEMMA SkipAnnounces ==
    ASSUME IInv, AnnounceOK, NEW h \in Handler, Skip(h)
    PROVE  AnnounceOK'
<1>1. CASE Raise(h)
  BY <1>1, RaiseMoves, NotAcking, UnchangedStays, HandlerAlone DEF Skip, queueVars
<1>2. CASE Goto(h, "ack")
  <2>1. tasks'[handler[h].task].status # "queued"
    BY DEF Skip, Claimable
  <2>2. \A u \in Task : u # handler[h].task => EntriesMatch' /\ EntriesStay(u)
    BY <1>2, AckingHidesOwn DEF Skip
  <2>3. EntriesMatch'
    <3>1. /\ \A g \in Handler : g # h => handler'[g] = handler[g]
          /\ handler'[h].msg = handler[h].msg /\ handler'[h].task = handler[h].task
      BY <1>2, GotoMoves
    <3> QED
      BY <3>1 DEF AnnounceOK, EntriesMatch, Skip, queueVars
  <2>4. RecordsMatch' /\ \A u \in Task : EventsStay(u) /\ WaitsStay(u) /\ QueuedBefore(u)
    BY UnchangedStays DEF Skip, queueVars
  <2> QED
    BY <2>1, <2>2, <2>3, <2>4, WitnessKept
<1> QED
  BY <1>1, <1>2 DEF Skip

LEMMA SettleAnnounces ==
    ASSUME IInv, AnnounceOK, NEW h \in Handler, Settle(h)
    PROVE  AnnounceOK'
<1> DEFINE t == handler[h].task
<1>1. t \in Task
  BY BusyCoroutine DEF Settle, At
<1>2. PICK status \in Terminal : Update(t, status)
  BY DEF Settle, Terminal
<1>3. PICK pc \in {"ack", "nack_dead"} : Goto(h, pc)
  BY DEF Settle
<1>4. tasks[t] \in Row
  BY <1>1 DEF IInv, StateOK, SoundRow
<1>5. tasks'[t].status # "queued" /\ \A u \in Task : u # t => tasks'[u] = tasks[u]
  BY <1>1, <1>2, <1>4 DEF Update, Row, Terminal, IInv, StateOK
<1>6. \A u \in Task : u # t => EntriesStay(u)
  BY <1>3, AckingHidesOwn DEF Settle
<1>7. EntriesMatch'
  <2>1. /\ \A g \in Handler : g # h => handler'[g] = handler[g]
        /\ handler'[h].msg = handler[h].msg /\ handler'[h].task = handler[h].task
    BY <1>3, GotoMoves
  <2> QED
    BY <2>1 DEF AnnounceOK, EntriesMatch, Settle, queueVars
<1>8. RecordsMatch' /\ \A u \in Task : EventsStay(u) /\ WaitsStay(u)
  BY UnchangedStays DEF Settle, queueVars
<1>9. \A u \in Task : u # t => QueuedBefore(u)
  BY <1>5 DEF QueuedBefore
<1> QED
  BY <1>5, <1>6, <1>7, <1>8, <1>9, WitnessKept

LEMMA ClaimAnnounces ==
    ASSUME IInv, AnnounceOK, NEW h \in Handler, Claim(h)
    PROVE  AnnounceOK'
<1> DEFINE t == handler[h].task
<1>1. handler[h] \in Coroutine /\ t \in Task
  BY BusyCoroutine DEF Claim, At, SoundCoroutine
<1>2. tasks[t] \in Row
  BY <1>1 DEF IInv, StateOK, SoundRow
<1>3. \A u \in Task : QueuedBefore(u)
  BY <1>1, <1>2 DEF Claim, MarkProcessing, QueuedBefore, Row, IInv, StateOK
<1>4. /\ \A g \in Handler : g # h => handler'[g] = handler[g]
      /\ handler'[h].pc # "ack"
      /\ handler'[h].msg = handler[h].msg /\ handler'[h].task = t
  BY <1>1 DEF Claim, Coroutine, IInv, StateOK
<1>5. EntriesMatch' /\ \A u \in Task : EntriesStay(u)
  BY <1>4, NotAcking DEF Claim
<1> QED
  BY <1>3, <1>5, HandlerAlone DEF Claim, queueVars

\* Acknowledging removes an entry nobody counts on; a dead letter names the
\* task of the entry it removes.
LEMMA FinishAnnounces ==
    ASSUME IInv, AnnounceOK, NEW h \in Handler, Finish(h)
    PROVE  AnnounceOK'
<1> DEFINE n == handler[h].msg
           t == handler[h].task
<1>1. /\ \A g \in Handler : g # h => handler'[g] = handler[g]
      /\ handler'[h].pc # "ack" /\ handler'[h].msg = NoMsg
  BY StopMoves DEF Finish
<1>2. \A m \in MsgId : stream[m] \in Entry
  BY DEF IInv, StateOK, SoundEntry
<1>3. \A m \in MsgId : m # n => stream'[m] = stream[m]
  BY DEF Finish, Ack, NackRequeue, DeadLetter, IInv, StateOK
<1>4. n \in MsgId =>
        \/ stream'[n].state = "free"
        \/ /\ stream[n].state # "free"
           /\ stream'[n].state # "free" /\ stream'[n].body = stream[n].body
           /\ At(h, "nack")
  <2>1. CASE At(h, "ack") /\ Ack(n)
    BY <2>1 DEF Ack, NoEntry, IInv, StateOK
  <2>2. CASE At(h, "nack_dead") /\ DeadLetter(n, t)
    BY <2>2 DEF DeadLetter, NoEntry, IInv, StateOK
  <2>3. CASE At(h, "nack") /\ NackRequeue(n)
    BY <1>2, <2>3 DEF NackRequeue, Entry, IInv, StateOK
  <2> QED
    BY <2>1, <2>2, <2>3 DEF Finish
<1>5. EntriesMatch'
  BY <1>1, <1>3, <1>4, TaskPipelineAssumption DEF AnnounceOK, EntriesMatch
<1>6. dead \subseteq dead'
  BY DEF Finish, Ack, NackRequeue, DeadLetter
<1>7. \A u \in Task : WaitsStay(u)
  BY <1>6 DEF Finish, dispatchVars, WaitsStay, Waits, Sending
<1>8. ASSUME NEW u \in Task, NEW m \in MsgId, Carries(m, u)
      PROVE  Carries(m, u)' \/ u \in dead'
  <2>1. CASE m # n
    BY <1>1, <1>3, <1>8, <2>1 DEF Carries
  <2>2. CASE m = n
    <3>1. u = t /\ handler[h].pc # "ack"
      BY <1>8, <2>2 DEF AnnounceOK, EntriesMatch, Carries
    <3>2. CASE At(h, "nack") /\ NackRequeue(n)
      <4>1. stream'[m].state # "free" /\ stream'[m].body = stream[m].body
        BY <1>2, <1>8, <2>2, <3>2 DEF NackRequeue, Carries, Entry, IInv, StateOK
      <4> QED
        BY <1>1, <1>8, <4>1 DEF Carries
    <3>3. CASE At(h, "nack_dead") /\ DeadLetter(n, t)
      BY <3>1, <3>3 DEF DeadLetter
    <3> QED
      BY <3>1, <3>2, <3>3 DEF Finish, At
  <2> QED
    BY <2>1, <2>2
<1>9. \A u \in Task : EntriesStay(u) \/ Witnessed(u)'
  BY <1>8 DEF EntriesStay, Witnessed, Waits
<1>10. RecordsMatch' /\ \A u \in Task : EventsStay(u) /\ QueuedBefore(u)
  BY UnchangedStays DEF Finish
<1> QED
  BY <1>5, <1>7, <1>9, <1>10, WitnessKept

LEMMA HandleAnnounces ==
    ASSUME IInv, AnnounceOK, NEW h \in Handler, Handle(h)
    PROVE  AnnounceOK'
<1>1. CASE Require(h)
  <2>1. EntriesMatch' /\ \A u \in Task : EntriesStay(u)
    BY <1>1, GotoMoves, RaiseMoves, NotAcking DEF Require
  <2> QED
    BY <1>1, <2>1, UnchangedStays, HandlerAlone DEF Require, queueVars
<1>2. CASE Complete(h)
  <2>1. PICK pc \in {"mark_completed", "mark_failed"} : Goto(h, pc)
    BY <1>2 DEF Complete
  <2>2. EntriesMatch' /\ \A u \in Task : EntriesStay(u)
    BY <1>2, <2>1, GotoMoves, NotAcking DEF Complete
  <2> QED
    BY <1>2, <2>2, UnchangedStays, HandlerAlone DEF Complete, queueVars
<1>3. CASE SettleMissing(h)
  <2>1. EntriesMatch' /\ \A u \in Task : EntriesStay(u)
    BY <1>3, RaiseMoves, NotAcking DEF SettleMissing
  <2> QED
    BY <1>3, <2>1, UnchangedStays, HandlerAlone DEF SettleMissing, queueVars
<1> QED
  BY <1>1, <1>2, <1>3, SkipAnnounces, SettleAnnounces, ClaimAnnounces, FinishAnnounces DEF Handle

LEMMA ReceiveAnnounces ==
    ASSUME IInv, AnnounceOK, NEW h \in Handler, NEW m \in MsgId, Receive(h, m)
    PROVE  AnnounceOK'
<1>1. stream[m] \in Entry
  BY DEF IInv, StateOK, SoundEntry
<1>2. /\ \A n \in MsgId : n # m => stream'[n] = stream[n]
      /\ stream[m].state # "free"
      /\ stream'[m].state # "free" /\ stream'[m].body = stream[m].body
      /\ dead' = dead
  BY <1>1 DEF Receive, ReadNew, ClaimIdle, Entry, IInv, StateOK
<1>3. /\ \A g \in Handler : g # h => handler'[g] = handler[g]
      /\ handler'[h].pc # "ack"
      /\ handler'[h].msg = m /\ handler'[h].task = stream[m].body
  BY DEF Receive, IInv, StateOK
<1>4. EntriesMatch'
  BY <1>2, <1>3 DEF AnnounceOK, EntriesMatch
<1>5. \A u \in Task : EntriesStay(u)
  BY <1>2, <1>3 DEF EntriesStay, Carries
<1> QED
  BY <1>2, <1>4, <1>5, UnchangedStays, HandlerAlone DEF Receive

-----------------------------------------------------------------------------
(* Faults, cleanup and time *)

LEMMA FaultyAnnounces ==
    ASSUME IInv, AnnounceOK, Faulty
    PROVE  AnnounceOK'
<1>1. ASSUME NEW p \in Process, ReclaimFails(p) PROVE AnnounceOK'
  <2>1. /\ RecordsMatch' /\ EntriesMatch'
        /\ \A u \in Task : EventsStay(u) /\ EntriesStay(u) /\ QueuedBefore(u)
    BY <1>1, UnchangedStays DEF ReclaimFails, workVars
  <2>2. \A q \in Process : q # p => requeuing'[q] = requeuing[q]
    BY <1>1 DEF ReclaimFails, IInv, StateOK
  <2>3. \A u \in Task : WaitsStay(u)
    BY <1>1, <2>2 DEF ReclaimFails, queueVars, WaitsStay, Waits, Sending
  <2> QED
    BY <2>1, <2>3, WitnessKept
<1>2. ASSUME NEW p \in Process, RelayFails(p) PROVE AnnounceOK'
  BY <1>2, AbandonTells, OutboxAlone DEF RelayFails
<1>3. ASSUME NEW p \in Process, NEW r \in batch[p], RelaySendFails(p, r) PROVE AnnounceOK'
  BY <1>3, SendFailsTells, OutboxAlone DEF RelaySendFails
<1>4. ASSUME NEW h \in Handler, CallFails(h) PROVE AnnounceOK'
  <2>1. EntriesMatch' /\ \A u \in Task : EntriesStay(u)
    BY <1>4, RaiseMoves, StopMoves, NotAcking DEF CallFails
  <2> QED
    BY <1>4, <2>1, UnchangedStays, HandlerAlone DEF CallFails, queueVars
<1>5. ASSUME NEW h \in Handler, Crash(h) PROVE AnnounceOK'
  <2>1. EntriesMatch' /\ \A u \in Task : EntriesStay(u)
    BY <1>5, StopMoves, NotAcking DEF Crash
  <2> QED
    BY <1>5, <2>1, UnchangedStays, HandlerAlone DEF Crash, queueVars
<1> QED
  BY <1>1, <1>2, <1>3, <1>4, <1>5 DEF Faulty

\* A step of the task table alone that queues no task.
LEMMA TasksAlone ==
    ASSUME AnnounceOK, \A u \in Task : QueuedBefore(u),
           UNCHANGED <<outboxVars, queueVars, handler, dispatchVars>>
    PROVE  AnnounceOK'
<1>1. RecordsMatch' /\ EntriesMatch'
      /\ \A u \in Task : EventsStay(u) /\ EntriesStay(u) /\ WaitsStay(u)
  BY UnchangedStays DEF queueVars
<1> QED
  BY <1>1, WitnessKept

LEMMA CleanupAnnounces ==
    ASSUME IInv, AnnounceOK, Cleanup
    PROVE  AnnounceOK'
<1>1. ASSUME NEW S, DeleteExpired(S) PROVE \A u \in Task : QueuedBefore(u)
  <2>1. \A u \in Task : tasks[u] \in Row
    BY DEF IInv, StateOK, SoundRow
  <2> QED
    BY <1>1, <2>1 DEF DeleteExpired, QueuedBefore, Row
<1>2. CASE /\ \E S \in ExpiredBatch : DeleteExpired(S)
           /\ UNCHANGED <<outboxVars, queueVars, workVars, dispatchVars, faults>>
  BY <1>1, <1>2, TasksAlone DEF workVars
<1>3. CASE /\ \E S \in SUBSET Event : DeletePublished(S)
           /\ UNCHANGED <<tasks, queueVars, workVars, dispatchVars, faults>>
  BY <1>3, DeletePublishedTells, OutboxAlone
<1> QED
  BY <1>2, <1>3 DEF Cleanup

LEMMA TimeAnnounces ==
    ASSUME IInv, AnnounceOK, Time
    PROVE  AnnounceOK'
<1>0. tasks \in [Task -> Row]
  BY DEF IInv, StateOK, SoundRow
<1>1. ASSUME NEW t \in Task, TaskLeaseExpires(t) PROVE AnnounceOK'
  <2>1. \A u \in Task : QueuedBefore(u)
    BY <1>0, <1>1 DEF TaskLeaseExpires, LeaseExpires, QueuedBefore, Row
  <2>2. \A h \in Handler : handler[h] \in Coroutine
    BY DEF IInv, StateOK, SoundCoroutine
  <2>3. \A h \in Handler : /\ handler'[h].pc = handler[h].pc
                           /\ handler'[h].msg = handler[h].msg
                           /\ handler'[h].task = handler[h].task
    BY <1>1, <2>2 DEF TaskLeaseExpires, Coroutine
  <2>4. EntriesMatch' /\ \A u \in Task : EntriesStay(u)
    BY <1>1, <2>3 DEF TaskLeaseExpires, queueVars, AnnounceOK, EntriesMatch, EntriesStay, Carries
  <2> QED
    BY <1>1, <2>1, <2>4, HandlerAlone DEF TaskLeaseExpires, queueVars
<1>2. ASSUME NEW t \in Task, TaskTtlExpires(t) PROVE AnnounceOK'
  <2>1. \A u \in Task : QueuedBefore(u)
    BY <1>0, <1>2 DEF TaskTtlExpires, TtlExpires, QueuedBefore, Row
  <2> QED
    BY <1>2, <2>1, TasksAlone DEF TaskTtlExpires, workVars
<1>3. ASSUME NEW e \in Event, OutboxTime(e) PROVE AnnounceOK'
  BY <1>3, OutboxTimeTells, OutboxAlone DEF OutboxTime
<1>4. ASSUME NEW m \in MsgId, QueueTime(m) PROVE AnnounceOK'
  <2>1. stream[m] \in Entry
    BY DEF IInv, StateOK, SoundEntry
  <2>2. /\ \A n \in MsgId : n # m => stream'[n] = stream[n]
        /\ stream[m].state # "free"
        /\ stream'[m].state # "free" /\ stream'[m].body = stream[m].body
        /\ dead' = dead
    BY <1>4, <2>1 DEF QueueTime, BecomeIdle, Entry, IInv, StateOK
  <2>3. EntriesMatch' /\ \A u \in Task : EntriesStay(u)
    BY <1>4, <2>2 DEF QueueTime, workVars, AnnounceOK, EntriesMatch, EntriesStay, Carries
  <2> QED
    BY <1>4, <2>2, <2>3, UnchangedStays, HandlerAlone DEF QueueTime
<1> QED
  BY <1>1, <1>2, <1>3, <1>4 DEF Time

LEMMA AnnounceInit == Init => AnnounceOK
<1> SUFFICES ASSUME Init PROVE AnnounceOK
  OBVIOUS
<1>1. RecordsMatch
  BY DEF Init, OutboxInit, RecordsMatch
<1>2. EntriesMatch
  BY DEF Init, QueueInit, NoEntry, EntriesMatch
<1>3. \A t \in Task : tasks[t].status # "queued"
  BY DEF Init, TaskStoreInit, NoRow
<1> QED
  BY <1>1, <1>2, <1>3 DEF AnnounceOK

LEMMA AnnounceNext == IInv /\ AnnounceOK /\ [Next]_vars => AnnounceOK'
<1> SUFFICES ASSUME IInv, AnnounceOK, [Next]_vars PROVE AnnounceOK'
  OBVIOUS
<1>1. CASE UNCHANGED vars
  BY <1>1, UnchangedStays, TasksAlone DEF vars, outboxVars, queueVars, dispatchVars
<1> QED
  BY <1>1, DispatchAnnounces, ReclaimAnnounces, RelayAnnounces, ReceiveAnnounces,
     HandleAnnounces, FaultyAnnounces, CleanupAnnounces, TimeAnnounces DEF Next

\* No QUEUED task is lost silently, with any number of tasks, processes,
\* handlers and faults: duplicates, skipped redeliveries, unfenced marks of
\* slow publishers, reclaims and crashes leave an event, a message, a dead
\* letter, a FAILED event, or a direct send to come or never made.
THEOREM NoSilentLoss == Spec => []QueuedIsAnnounced
<1>1. Init => AnnounceOK
  BY AnnounceInit
<1>2. IInv /\ AnnounceOK /\ [Next]_vars => AnnounceOK'
  BY AnnounceNext
<1>3. AnnounceOK => QueuedIsAnnounced
  BY DEF AnnounceOK, QueuedIsAnnounced, Witnessed, Tells, Carries, Waits, Announced, GivenUp
<1> QED
  BY <1>1, <1>2, <1>3, InductiveInvariant, PTL DEF Spec

=============================================================================
