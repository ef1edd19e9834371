----------------------------- MODULE TaskPipeline -----------------------------
(***************************************************************************)
(* How a submitted task reaches a terminal state: the API that submits it, *)
(* the outbox relay or the direct send that announces it, the work queue,  *)
(* the handlers of the worker processes that run it, and the loops of      *)
(* those processes that reclaim expired leases and purge old rows.         *)
(*                                                                         *)
(* Postgres and Redis are separate systems: a step changes one of them,    *)
(* and every process may crash, or fail to reach either, between two       *)
(* steps.  MAX_FAULTS bounds the crashes and failed calls of a behaviour.  *)
(***************************************************************************)
EXTENDS TaskStore, OutboxRelay, RedisStreamQueue

CONSTANTS
    TASKS_DISPATCH_BACKEND,    \* "outbox" or "queue"
    Handler,                   \* message handlers running at a time, all processes
    NoMsg,
    WORKER_MAX_ATTEMPTS,
    MAX_FAULTS                 \* bound on crashes and failed calls

ASSUME TaskPipelineAssumption ==
    /\ TASKS_DISPATCH_BACKEND \in {"outbox", "queue"}
    /\ NoMsg \notin MsgId
    /\ WORKER_MAX_ATTEMPTS \in Nat \ {0}
    /\ MAX_FAULTS \in Nat

VARIABLES
    handler,                   \* the _dispatch coroutine of each handler
    submitting,                \* tasks created, their direct send not yet made
    requeuing,                 \* per process, requeued tasks not yet sent again
    unsent,                    \* history: tasks whose latest direct send was never made
    overrun,                   \* history: tasks whose lease ran out under a handler
    faults

dispatchVars == <<submitting, requeuing, unsent>>
workVars == <<handler, overrun>>
vars == <<tasks, outbox, batch, settling, stream, dead,
          handler, submitting, requeuing, unsent, overrun, faults>>

Outbox == TASKS_DISPATCH_BACKEND = "outbox"

\* pc names the call the coroutine awaits.  leased says that the lease it
\* took in mark_processing has not run out yet.
Coroutine == [pc       : {"idle", "require", "mark_processing", "complete",
                          "mark_completed", "mark_failed", "ack", "nack",
                          "nack_dead"},
              msg      : MsgId \cup {NoMsg},
              task     : Task \cup {NoTask},
              received : Nat,          \* receive_count
              leased   : BOOLEAN]

NoCoroutine == [pc |-> "idle", msg |-> NoMsg, task |-> NoTask,
                received |-> 0, leased |-> FALSE]

\* Handlers that claimed task t and have not settled it.
Running == {"complete", "mark_completed", "mark_failed"}

TypeOK ==
    /\ tasks \in [Task -> Row]
    /\ outbox \in [Event -> EventRow]
    /\ batch \in [Process -> SUBSET Record]
    /\ settling \in [Process -> SUBSET Settlement]
    /\ stream \in [MsgId -> Entry]
    /\ dead \subseteq Task \cup {NoTask}
    /\ handler \in [Handler -> Coroutine]
    /\ submitting \subseteq Task
    /\ requeuing \in [Process -> SUBSET Task]
    /\ unsent \subseteq Task
    /\ overrun \subseteq Task
    /\ faults \in 0..MAX_FAULTS

Init ==
    /\ TaskStoreInit
    /\ OutboxInit
    /\ QueueInit
    /\ handler = [h \in Handler |-> NoCoroutine]
    /\ submitting = {}
    /\ requeuing = [p \in Process |-> {}]
    /\ unsent = {}
    /\ overrun = {}
    /\ faults = 0

\* A crash or a failed call; every use is one of the MAX_FAULTS.
Fault ==
    /\ faults < MAX_FAULTS
    /\ faults' = faults + 1

\* An entry id nobody refers to, for XADD to use.
SendFresh(t) ==
    \E m \in MsgId :
        /\ \A h \in Handler : handler[h].msg # m
        /\ Send(m, t)

-----------------------------------------------------------------------------
(* Dispatch *)

\* PostgresTaskOutboxDispatcher.submit: row and event in one transaction.
SubmitOutbox(t) ==
    /\ Outbox
    /\ Create(t)
    /\ \E e \in Event : Insert([x \in {e} |-> t])
    /\ UNCHANGED <<queueVars, workVars, dispatchVars, faults>>

\* QueueTaskDispatcher.submit, first half: store.create.
SubmitCreate(t) ==
    /\ ~Outbox
    /\ Create(t)
    /\ submitting' = submitting \cup {t}
    /\ UNCHANGED <<outboxVars, queueVars, workVars, requeuing, unsent, faults>>

\* The second half: queue.send.
SubmitSend(t) ==
    /\ t \in submitting
    /\ SendFresh(t)
    /\ submitting' = submitting \ {t}
    /\ UNCHANGED <<tasks, outboxVars, workVars, requeuing, unsent, faults>>

\* The send raises, or the API process crashes before it.
SubmitFails(t) ==
    /\ t \in submitting
    /\ Fault
    /\ submitting' = submitting \ {t}
    /\ unsent' = unsent \cup {t}
    /\ UNCHANGED <<tasks, outboxVars, queueVars, workVars, requeuing>>

\* Mutant of ReclaimOutbox: the requeued rows get no event.
ReclaimWithoutEvents(S) ==
    /\ Outbox
    /\ ReclaimStaleProcessing(S)
    /\ UNCHANGED <<outboxVars, queueVars, workVars, dispatchVars, faults>>

\* PostgresTaskOutboxDispatcher.reclaim: the requeued rows and one event for
\* each of them in one transaction.
ReclaimOutbox(S) ==
    /\ Outbox
    /\ ReclaimStaleProcessing(S)
    /\ \E D \in SUBSET Event : \E f \in [D -> Requeued(S)] :
        /\ Cardinality(D) = Cardinality(Requeued(S))
        /\ \A t \in Requeued(S) : \E e \in D : f[e] = t
        /\ Insert(f)
    /\ UNCHANGED <<queueVars, workVars, dispatchVars, faults>>

\* QueueTaskDispatcher.reclaim in process p: the store settles the batch ...
ReclaimQueue(p, S) ==
    /\ ~Outbox
    /\ requeuing[p] = {}
    /\ ReclaimStaleProcessing(S)
    /\ requeuing' = [requeuing EXCEPT ![p] = Requeued(S)]
    /\ UNCHANGED <<outboxVars, queueVars, workVars, submitting, unsent, faults>>

\* Mutant of ReclaimSend: only the first task of the batch is sent.
ReclaimSendFirst(p, t) ==
    /\ t \in requeuing[p]
    /\ SendFresh(t)
    /\ requeuing' = [requeuing EXCEPT ![p] = {}]
    /\ unsent' = unsent \ {t}
    /\ UNCHANGED <<tasks, outboxVars, workVars, submitting, faults>>

\* ... and each requeued task is sent in turn ...
ReclaimSend(p, t) ==
    /\ t \in requeuing[p]
    /\ SendFresh(t)
    /\ requeuing' = [requeuing EXCEPT ![p] = @ \ {t}]
    /\ unsent' = unsent \ {t}
    /\ UNCHANGED <<tasks, outboxVars, workVars, submitting, faults>>

\* ... until a send raises or the process crashes, which ends the loop.
ReclaimFails(p) ==
    /\ requeuing[p] # {}
    /\ Fault
    /\ requeuing' = [requeuing EXCEPT ![p] = {}]
    /\ unsent' = unsent \cup requeuing[p]
    /\ UNCHANGED <<tasks, outboxVars, queueVars, workVars, submitting>>

-----------------------------------------------------------------------------
(* The outbox relay loop of process p *)

RelayClaim(p, S) ==
    /\ ClaimPending(p, S)
    /\ UNCHANGED <<tasks, queueVars, workVars, dispatchVars, faults>>

\* TaskQueueOutboxSink.publish
RelaySend(p, r) ==
    /\ Publish(p, r, "sent")
    /\ SendFresh(r.payload)
    /\ UNCHANGED <<tasks, workVars, dispatchVars, faults>>

RelaySendFails(p, r) ==
    /\ Publish(p, r, "error")
    /\ Fault
    /\ UNCHANGED <<tasks, queueVars, workVars, dispatchVars>>

RelayMark(p, s) ==
    /\ Mark(p, s) \/ MarkMissing(p, s)
    /\ UNCHANGED <<tasks, queueVars, workVars, dispatchVars, faults>>

\* The process crashes in the batch, or a statement of the batch fails.
RelayFails(p) ==
    /\ ~Idle(p)
    /\ Fault
    /\ AbandonBatch(p)
    /\ UNCHANGED <<tasks, queueVars, workVars, dispatchVars>>

-----------------------------------------------------------------------------
(* AsyncPollingWorker._dispatch with the handler of the worker process *)

\* gateway.receive delivers message m.  It starts a coroutine for it, or goes
\* on to dead-letter it; no coroutine runs then, but receive may fail or die
\* at the same call, so it takes the place of one.
Receive(h, m) ==
    LET delivered == stream[m].deliveries + 1 IN
    /\ handler[h].pc = "idle"
    /\ ReadNew(m) \/ ClaimIdle(m)
    /\ handler' = [handler EXCEPT ![h] =
                     [pc |-> IF Exhausted(delivered) THEN "nack_dead" ELSE "require",
                      msg |-> m, task |-> stream[m].body,
                      received |-> delivered, leased |-> FALSE]]
    /\ UNCHANGED <<tasks, outboxVars, dispatchVars, overrun, faults>>

At(h, pc) == handler[h].pc = pc

Goto(h, pc) ==
    handler' = [handler EXCEPT ![h].pc = pc, ![h].leased = @ /\ pc \in Running]

\* An exception other than NonRetryableMessageError reaches _dispatch.
Raise(h) ==
    Goto(h, IF handler[h].received < WORKER_MAX_ATTEMPTS THEN "nack" ELSE "nack_dead")

\* TaskService.require: NotFoundError when the row is gone.
Require(h) ==
    /\ At(h, "require")
    /\ IF Exists(handler[h].task) THEN Goto(h, "mark_processing") ELSE Raise(h)
    /\ UNCHANGED <<tasks, outboxVars, queueVars, dispatchVars, overrun, faults>>

Claim(h) ==
    /\ At(h, "mark_processing")
    /\ MarkProcessing(handler[h].task)
    /\ handler' = [handler EXCEPT ![h].pc = "complete", ![h].leased = TRUE]
    /\ UNCHANGED <<outboxVars, queueVars, dispatchVars, overrun, faults>>

\* mark_processing returns False, or raises KeyError when the row is gone.
Skip(h) ==
    /\ At(h, "mark_processing")
    /\ ~Claimable(handler[h].task)
    /\ IF Exists(handler[h].task) THEN Goto(h, "ack") ELSE Raise(h)
    /\ UNCHANGED <<tasks, outboxVars, queueVars, dispatchVars, overrun, faults>>

\* completion_service.complete returns, or raises.
Complete(h) ==
    /\ At(h, "complete")
    /\ \E pc \in {"mark_completed", "mark_failed"} : Goto(h, pc)
    /\ UNCHANGED <<tasks, outboxVars, queueVars, dispatchVars, overrun, faults>>

\* A failed task raises NonRetryableMessageError once it is marked.
Settle(h) ==
    /\ \/ At(h, "mark_completed") /\ Update(handler[h].task, "completed") /\ Goto(h, "ack")
       \/ At(h, "mark_failed") /\ Update(handler[h].task, "failed") /\ Goto(h, "nack_dead")
    /\ UNCHANGED <<outboxVars, queueVars, dispatchVars, overrun, faults>>

\* Either mark raises KeyError when the row was purged.
SettleMissing(h) ==
    /\ At(h, "mark_completed") \/ At(h, "mark_failed")
    /\ ~Exists(handler[h].task)
    /\ Raise(h)
    /\ UNCHANGED <<tasks, outboxVars, queueVars, dispatchVars, overrun, faults>>

\* gateway.ack or gateway.nack ends the coroutine.
Finish(h) ==
    /\ \/ At(h, "ack") /\ Ack(handler[h].msg)
       \/ At(h, "nack") /\ NackRequeue(handler[h].msg)
       \/ At(h, "nack_dead") /\ DeadLetter(handler[h].msg, handler[h].task)
    /\ handler' = [handler EXCEPT ![h] = NoCoroutine]
    /\ UNCHANGED <<tasks, outboxVars, dispatchVars, overrun, faults>>

\* The awaited call fails without effect.  Nothing catches a failing nack.
CallFails(h) ==
    /\ handler[h].pc \notin {"idle", "complete"}
    /\ Fault
    /\ IF At(h, "nack") \/ At(h, "nack_dead")
       THEN handler' = [handler EXCEPT ![h] = NoCoroutine]
       ELSE Raise(h)
    /\ UNCHANGED <<tasks, outboxVars, queueVars, dispatchVars, overrun>>

\* The worker process dies with the coroutine.
Crash(h) ==
    /\ ~At(h, "idle")
    /\ Fault
    /\ handler' = [handler EXCEPT ![h] = NoCoroutine]
    /\ UNCHANGED <<tasks, outboxVars, queueVars, dispatchVars, overrun>>

-----------------------------------------------------------------------------
(* The cleanup loop, and time passing *)

Cleanup ==
    \/ /\ \E S \in ExpiredBatch : DeleteExpired(S)
       /\ UNCHANGED <<outboxVars, queueVars, workVars, dispatchVars, faults>>
    \/ /\ \E S \in SUBSET Event : DeletePublished(S)
       /\ UNCHANGED <<tasks, queueVars, workVars, dispatchVars, faults>>

TaskLeaseExpires(t) ==
    /\ LeaseExpires(t)
    /\ handler' = [h \in Handler |->
                     IF handler[h].task = t
                     THEN [handler[h] EXCEPT !.leased = FALSE] ELSE handler[h]]
    /\ overrun' = IF \E h \in Handler : handler[h].task = t /\ handler[h].pc \in Running
                  THEN overrun \cup {t} ELSE overrun
    /\ UNCHANGED <<outboxVars, queueVars, dispatchVars, faults>>

TaskTtlExpires(t) ==
    /\ TtlExpires(t)
    /\ UNCHANGED <<outboxVars, queueVars, workVars, dispatchVars, faults>>

OutboxTime(e) ==
    /\ LockExpires(e) \/ BecomesDue(e) \/ RetentionEnds(e)
    /\ UNCHANGED <<tasks, queueVars, workVars, dispatchVars, faults>>

QueueTime(m) ==
    /\ BecomeIdle(m)
    /\ UNCHANGED <<tasks, outboxVars, workVars, dispatchVars, faults>>

-----------------------------------------------------------------------------

Dispatch(t) ==
    SubmitOutbox(t) \/ SubmitCreate(t) \/ SubmitSend(t) \/ SubmitFails(t)

Reclaim ==
    \/ \E S \in StaleBatch : ReclaimOutbox(S)
    \/ \E p \in Process :
        \/ \E S \in StaleBatch : ReclaimQueue(p, S)
        \/ \E t \in Task : ReclaimSend(p, t)

Relay(p) ==
    \/ \E S \in SUBSET Event : RelayClaim(p, S)
    \/ \E r \in batch[p] : RelaySend(p, r)
    \/ \E s \in settling[p] : RelayMark(p, s)

Handle(h) ==
    \/ Require(h) \/ Claim(h) \/ Skip(h) \/ Complete(h)
    \/ Settle(h) \/ SettleMissing(h) \/ Finish(h)

Faulty ==
    \/ \E p \in Process :
        \/ ReclaimFails(p) \/ RelayFails(p)
        \/ \E r \in batch[p] : RelaySendFails(p, r)
    \/ \E h \in Handler : CallFails(h) \/ Crash(h)

Time ==
    \/ \E t \in Task : TaskLeaseExpires(t) \/ TaskTtlExpires(t)
    \/ \E e \in Event : OutboxTime(e)
    \/ \E m \in MsgId : QueueTime(m)

Next ==
    \/ \E t \in Task : Dispatch(t)
    \/ Reclaim
    \/ \E p \in Process : Relay(p)
    \/ \E h \in Handler, m \in MsgId : Receive(h, m)
    \/ \E h \in Handler : Handle(h)
    \/ Faulty
    \/ Cleanup
    \/ Time

Spec == Init /\ [][Next]_vars

\* The loops of the worker run until it stops, each survives a failed
\* iteration, a coroutine that is not killed goes on, and time passes.
\* Submissions, faults, the end of a ttl and the purge may never happen.
Fairness ==
    /\ WF_vars(Reclaim)
    /\ \A p \in Process : WF_vars(Relay(p))
    /\ WF_vars(\E h \in Handler, m \in MsgId : Receive(h, m))
    /\ \A h \in Handler : WF_vars(Handle(h))
    /\ \A t \in Task : WF_vars(SubmitSend(t)) /\ WF_vars(TaskLeaseExpires(t))
    /\ \A e \in Event : WF_vars(OutboxTime(e))
    /\ \A m \in MsgId : WF_vars(QueueTime(m))

FairSpec == Spec /\ Fairness

-----------------------------------------------------------------------------
(* Properties *)

\* Two handlers never both hold an unexpired lease on one task, whatever
\* duplicates, redeliveries, reclaims and unfenced writes came before: the
\* compare-and-set in mark_processing is the only mutual exclusion there is.
AtMostOneLiveHandler ==
    \A h1, h2 \in Handler :
        /\ handler[h1].pc \in Running /\ handler[h1].leased
        /\ handler[h2].pc \in Running /\ handler[h2].leased
        /\ handler[h1].task = handler[h2].task
        => h1 = h2

\* A direct send, of a submit or a reclaim, is still to come.
Sending(t) == t \in submitting \/ \E p \in Process : t \in requeuing[p]

Announced(t) ==
    \/ \E e \in Event : outbox[e].status = "pending" /\ outbox[e].payload = t
    \/ \E m \in MsgId : stream[m].state # "free" /\ stream[m].body = t

\* What an operator can see of a task that will not be announced again.
GivenUp(t) ==
    \/ t \in dead
    \/ \E e \in Event : outbox[e].status = "failed" /\ outbox[e].payload = t

\* No QUEUED task is lost silently by duplicates, skipped redeliveries, late
\* handlers or crashed workers: its event is still to be published, or its
\* message is in the stream, or a dead letter or a FAILED event names it.
\* Only the direct send of queue dispatch loses one, when it is not made.
QueuedIsAnnounced ==
    \A t \in Task :
        tasks[t].status = "queued"
        => Announced(t) \/ GivenUp(t) \/ Sending(t) \/ t \in unsent

\* Reclaim requeues only tasks under the cap, so a QUEUED task always has a
\* claim left, however many workers crashed on it and however late each was.
QueuedUnderCap ==
    \A t \in Task : tasks[t].status = "queued" => tasks[t].attempts < TASKS_MAX_ATTEMPTS

\* What may become of a settled task.
Afterwards(t) == {"purged"} \cup (IF t \in overrun THEN Terminal ELSE {tasks[t].status})

\* A settled task is never opened again, by redelivery, reclaim or the late
\* mark of a handler that outlived its lease; and as long as there is no such
\* handler its outcome, COMPLETED or FAILED, is final up to the purge.
TerminalIsFinal ==
    [][\A t \in Task :
        tasks[t].status \in Terminal => tasks'[t].status \in Afterwards(t)]_vars

\* Every QUEUED task is settled: it becomes COMPLETED or FAILED, is purged
\* first, or an operator can see that it was given up.  No interleaving of
\* duplicates, expiring leases and crashes leaves it QUEUED or PROCESSING.
QueuedIsSettled ==
    \A t \in Task :
        tasks[t].status = "queued"
        ~> tasks[t].status \in Terminal \cup {"purged"} \/ GivenUp(t)

=============================================================================
