--------------------------- MODULE PollingWorker ---------------------------
(***************************************************************************)
(* AsyncPollingWorker over the in-memory, SQS and RabbitMQ gateways (the   *)
(* Redis Streams gateway is module RedisStreamQueue).  One worker process  *)
(* receives a batch, starts a coroutine per message and settles each one   *)
(* with ack or nack.  The broker is external: a copy of a message is ready *)
(* or held (in flight, invisible, unacknowledged).  The order of a queue   *)
(* is abstracted: a pull takes any ready copy.                             *)
(***************************************************************************)
EXTENDS Naturals, FiniteSets, FiniteSetsExt

CONSTANTS
    Body,            \* the payloads that are sent, once each
    MaxCopies,       \* bound: copies the broker holds
    MaxConcurrent,   \* WORKER_MAX_CONCURRENT
    MaxAttempts,     \* WORKER_MAX_ATTEMPTS
    Batch,           \* WORKER_RECEIVE_BATCH_SIZE
    MaxTag,          \* bound: deliveries on one RabbitMQ channel
    MaxFaults,       \* bound: crashes, reconnections, visibility timeouts
    Loops,           \* the background loops of the worker process
    NoBody           \* no payload: a free copy, coroutine or entry

ASSUME PollingAssumption ==
    /\ MaxCopies \in Nat /\ MaxTag \in Nat /\ MaxFaults \in Nat
    /\ MaxConcurrent \in Nat \ {0} /\ MaxAttempts \in Nat \ {0}
    /\ Batch \in Nat \ {0}
    /\ NoBody \notin Body

VARIABLES
    config,     \* the backend, its dead-letter setting, the receive wait
    sent,       \* bodies sent so far
    copies,     \* what the broker holds
    inflight,   \* RabbitMQQueueGateway._inflight, by delivery tag
    nextTag,    \* the tag of the channel's next delivery
    coros,      \* the coroutines of _dispatch
    phase,      \* where run() is
    shutdown,   \* the _shutdown event
    loops,      \* background loops still running
    over,       \* bodies handled, rejected, or lost with a process's memory
    stolen,     \* settled through the tag of another delivery: <<body, by whose handler>>
    faults

vars == <<config, sent, copies, inflight, nextTag, coros, phase, shutdown,
          loops, over, stolen, faults>>

broker == <<copies, inflight, nextTag>>
fate == <<over, stolen>>
process == <<config, phase, shutdown, loops>>

Copy == 1..MaxCopies
Tag == 1..MaxTag
MaxActive == (2 * MaxConcurrent - 1) + Batch
Coro == 1..(MaxActive + 1)   \* one more than ActiveBounded allows

memory == config.backend = "memory"
sqs == config.backend = "sqs"
rabbitmq == config.backend = "rabbitmq"

(* SQS may run without a dead-letter queue; the in-memory queue may be     *)
(* polled with a wait of zero seconds.                                     *)
Config ==
    {c \in [backend : {"memory", "sqs", "rabbitmq"}, deadLetter : BOOLEAN,
            waits : BOOLEAN] :
        /\ c.backend # "sqs" => c.deadLetter
        /\ c.backend # "memory" => c.waits}

NoCopy == [state |-> "free", body |-> NoBody, attempt |-> 0,
           redelivered |-> FALSE, fails |-> 0]

(* A message as send leaves it: QueueMessage.receive_count starts at 1 in  *)
(* memory; SQS counts receives; RabbitMQ has no x-attempt header yet.      *)
Sent(b) ==
    [state |-> "ready", body |-> b, attempt |-> IF memory THEN 1 ELSE 0,
     redelivered |-> FALSE, fails |-> 0]

NoCoro == [pc |-> "free", copy |-> 0, body |-> NoBody, tag |-> 0, channel |-> 0,
           count |-> 0, live |-> FALSE, requeue |-> FALSE]

NoEntry == [copy |-> 0, body |-> NoBody, channel |-> 0, fails |-> 0, live |-> FALSE]

Free == {c \in Copy : copies[c].state = "free"}
Ready == {c \in Copy : copies[c].state = "ready"}
Pulled == {k \in Coro : coros[k].pc = "pulled"}
Active == {k \in Coro : coros[k].pc \notin {"free", "pulled"}}

(* Coroutines inside the semaphore. *)
Holding == {k \in Active : coros[k].pc # "waiting"}

Init ==
    /\ config \in Config
    /\ sent = {}
    /\ copies = [c \in Copy |-> NoCopy]
    /\ inflight = [t \in Tag |-> NoEntry]
    /\ nextTag = 1
    /\ coros = [k \in Coro |-> NoCoro]
    /\ phase = "polling"
    /\ shutdown = FALSE
    /\ loops = Loops
    /\ over = {} /\ stolen = {}
    /\ faults = 0

-----------------------------------------------------------------------------
(* Gateways *)

Send(b) ==
    /\ b \in Body \ sent
    /\ Free # {}
    /\ copies' = [copies EXCEPT ![Min(Free)] = Sent(b)]
    /\ sent' = sent \union {b}
    /\ UNCHANGED <<process, inflight, nextTag, coros, fate, faults>>

(* Mutant: the x-attempt header is not read back. *)
ReceiveCountRedelivered(m) ==
    CASE memory -> m.attempt
      [] sqs -> m.attempt + 1
      [] rabbitmq -> IF m.redelivered THEN 2 ELSE 1

(* What receive reports: the stored count in memory, the approximate       *)
(* receive count of SQS with this receive, and for RabbitMQ the larger of  *)
(* the x-attempt header and two for a redelivery (classic queues report    *)
(* no delivery count).                                                     *)
ReceiveCount(m) ==
    CASE memory -> m.attempt
      [] sqs -> m.attempt + 1
      [] rabbitmq -> Max({1, m.attempt, IF m.redelivered THEN 2 ELSE 1})

Delivered(m) ==
    [m EXCEPT !.state = "held", !.attempt = IF sqs THEN @ + 1 ELSE @]

(* One message of a receive: the first get, or one more of the batch.      *)
(* RabbitMQ wraps it under its delivery tag, as send sets no message id;   *)
(* tags count from one on every channel, and the faults tell channels      *)
(* apart (history, for stolen).                                            *)
Pull(c) ==
    /\ phase = "receiving"
    /\ Cardinality(Pulled) < Batch
    /\ c \in Ready
    /\ rabbitmq => nextTag \in Tag
    /\ LET m == copies[c]
           k == Min({j \in Coro : coros[j].pc = "free"})
       IN
        /\ copies' = [copies EXCEPT ![c] = Delivered(m)]
        /\ coros' = [coros EXCEPT ![k] =
                [pc |-> "pulled", copy |-> c, body |-> m.body,
                 tag |-> IF rabbitmq THEN nextTag ELSE 0,
                 channel |-> IF rabbitmq THEN faults ELSE 0,
                 count |-> ReceiveCount(m), live |-> TRUE,
                 requeue |-> FALSE]]
        /\ IF rabbitmq
           THEN /\ inflight' = [inflight EXCEPT ![nextTag] =
                        [copy |-> c, body |-> m.body, channel |-> faults,
                         fails |-> m.fails, live |-> TRUE]]
                /\ nextTag' = nextTag + 1
           ELSE UNCHANGED <<inflight, nextTag>>
    /\ UNCHANGED <<process, sent, fate, faults>>

(* The coroutine ends, or goes on at pc. *)
Ends(k) == coros' = [coros EXCEPT ![k] = NoCoro]
Goes(k, pc) == coros' = [coros EXCEPT ![k].pc = pc]

(* An SQS receipt handle: the current one works; for an outdated one the   *)
(* service may ignore the call or carry it out on the message, if it still *)
(* exists.                                                                 *)
Reaches(k) == copies[coros[k].copy].body = coros[k].body
Honoured(k) == IF coros[k].live THEN {Reaches(k)} ELSE {FALSE, Reaches(k)}

(* A message made visible outdates the handles of the receives before. *)
Outdated(c) ==
    [k \in Coro |-> IF coros[k].copy = c /\ Reaches(k)
                    THEN [coros[k] EXCEPT !.live = FALSE] ELSE coros[k]]

Deleted(c) == [copies EXCEPT ![c] = NoCopy]

MemoryAck(k) ==
    /\ memory
    /\ copies' = Deleted(coros[k].copy)
    /\ Ends(k)
    /\ UNCHANGED <<inflight, nextTag, stolen>>

SqsAck(k) ==
    /\ sqs
    /\ \E done \in Honoured(k) :
        copies' = IF done THEN Deleted(coros[k].copy) ELSE copies
    /\ Ends(k)
    /\ UNCHANGED <<inflight, nextTag, stolen>>

(* A settlement through a tag that now names another delivery. *)
Stolen(k, entry) ==
    IF entry.channel # coros[k].channel
    THEN stolen \union {<<entry.body, coros[k].body>>} ELSE stolen

Pop(k) == inflight' = [inflight EXCEPT ![coros[k].tag] = NoEntry]

(* A tag that is not in flight is acknowledged by doing nothing; one of a  *)
(* closed channel raises, which _dispatch answers with a nack.             *)
RabbitAck(k) ==
    LET entry == inflight[coros[k].tag] IN
    /\ rabbitmq
    /\ Pop(k)
    /\ \/ /\ entry = NoEntry
          /\ Ends(k)
          /\ UNCHANGED <<copies, stolen>>
       \/ /\ entry # NoEntry /\ entry.live
          /\ copies' = Deleted(entry.copy)
          /\ stolen' = Stolen(k, entry)
          /\ Ends(k)
       \/ /\ entry # NoEntry /\ ~entry.live
          /\ coros' = [coros EXCEPT ![k].pc = "nacking",
                            ![k].requeue = coros[k].count < MaxAttempts]
          /\ UNCHANGED <<copies, stolen>>
    /\ UNCHANGED nextTag

Ack(k) ==
    /\ coros[k].pc = "acking"
    /\ MemoryAck(k) \/ SqsAck(k) \/ RabbitAck(k)
    /\ UNCHANGED <<process, sent, over, faults>>

(* The call fails before the broker acts on it; RabbitMQ has taken the     *)
(* entry out of _inflight by then.                                         *)
AckFails(k) ==
    /\ coros[k].pc = "acking"
    /\ ~memory
    /\ IF rabbitmq THEN Pop(k) ELSE UNCHANGED inflight
    /\ coros' = [coros EXCEPT ![k].pc = "nacking",
                      ![k].requeue = coros[k].count < MaxAttempts]
    /\ UNCHANGED <<process, sent, copies, nextTag, fate, faults>>

(* In memory the message goes back with its count incremented, or onto the *)
(* dead-letter list.                                                       *)
MemoryNack(k) ==
    LET c == coros[k].copy IN
    /\ memory
    /\ IF coros[k].requeue
       THEN /\ copies' = [copies EXCEPT ![c].state = "ready",
                               ![c].attempt = @ + 1, ![c].fails = @ + 1]
            /\ UNCHANGED over
       ELSE /\ copies' = Deleted(c)
            /\ over' = over \union {coros[k].body}
    /\ Ends(k)
    /\ UNCHANGED <<inflight, stolen>>

(* SQS makes the message visible at once; without requeue it is sent to    *)
(* the dead-letter queue first, or left in place when there is none.       *)
SqsNack(k) ==
    LET c == coros[k].copy IN
    /\ sqs
    /\ \/ /\ coros[k].requeue
          /\ \E done \in Honoured(k) :
                IF done
                THEN /\ copies' = [copies EXCEPT ![c].state = "ready",
                                                 ![c].fails = @ + 1]
                     /\ coros' = [Outdated(c) EXCEPT ![k] = NoCoro]
                ELSE Ends(k) /\ UNCHANGED copies
          /\ UNCHANGED over
       \/ /\ ~coros[k].requeue /\ config.deadLetter
          /\ over' = over \union {coros[k].body}
          /\ Goes(k, "settling")
          /\ UNCHANGED copies
       \/ /\ ~coros[k].requeue /\ ~config.deadLetter
          /\ Ends(k)
          /\ UNCHANGED <<copies, over>>
    /\ UNCHANGED <<inflight, stolen>>

(* Mutant: the original is acknowledged before it is published again. *)
RepublishedAfterAck(k, entry) == Deleted(entry.copy)

(* RabbitMQ republishes the body with the attempt number and acknowledges  *)
(* the original afterwards; without requeue the broker dead-letters it, or *)
(* drops it where no dead-letter exchange is declared.                     *)
Republished(k, entry) ==
    [copies EXCEPT ![Min(Free)] =
        [state |-> "ready", body |-> entry.body,
         attempt |-> coros[k].count + 1, redelivered |-> FALSE,
         fails |-> entry.fails + 1]]

RabbitNack(k) ==
    LET entry == inflight[coros[k].tag] IN
    /\ rabbitmq
    /\ Pop(k)
    /\ \/ /\ entry = NoEntry
          /\ Ends(k)
          /\ UNCHANGED <<copies, over, stolen>>
       \/ /\ entry # NoEntry /\ coros[k].requeue /\ Free # {}
          /\ copies' = Republished(k, entry)
          /\ coros' = [coros EXCEPT ![k].pc = "settling",
                            ![k].copy = entry.copy, ![k].live = entry.live]
          /\ stolen' = Stolen(k, entry)
          /\ UNCHANGED over
       \/ /\ entry # NoEntry /\ ~coros[k].requeue /\ entry.live
          /\ copies' = Deleted(entry.copy)
          /\ over' = over \union {entry.body}
          /\ stolen' = Stolen(k, entry)
          /\ Ends(k)

Nack(k) ==
    /\ coros[k].pc = "nacking"
    /\ MemoryNack(k) \/ SqsNack(k) \/ RabbitNack(k)
    /\ UNCHANGED <<process, sent, nextTag, faults>>

(* The second call of a nack: SQS deletes the original, RabbitMQ           *)
(* acknowledges it.                                                        *)
Settle(k) ==
    /\ coros[k].pc = "settling"
    /\ IF sqs
       THEN \E done \in Honoured(k) :
                copies' = IF done THEN Deleted(coros[k].copy) ELSE copies
       ELSE /\ coros[k].live
            /\ copies' = Deleted(coros[k].copy)
    /\ Ends(k)
    /\ UNCHANGED <<process, sent, inflight, nextTag, fate, faults>>

(* A call of nack raises: nothing catches it and the coroutine is gone,    *)
(* with the message still held by the broker.                              *)
NackFails(k) ==
    /\ coros[k].pc \in {"nacking", "settling"}
    /\ ~memory
    /\ IF rabbitmq /\ coros[k].pc = "nacking"
       THEN Pop(k) ELSE UNCHANGED inflight
    /\ Ends(k)
    /\ UNCHANGED <<process, sent, copies, nextTag, fate, faults>>

-----------------------------------------------------------------------------
(* The worker *)

(* Mutant: the limit on active coroutines is off by one. *)
TickAtLimit ==
    /\ phase = "polling"
    /\ ~shutdown
    /\ Cardinality(Active) <= 2 * MaxConcurrent
    /\ phase' = "receiving"
    /\ UNCHANGED <<config, sent, broker, coros, shutdown, loops, fate, faults>>

(* _tick receives only below twice max_concurrent active coroutines. *)
Tick ==
    /\ phase = "polling"
    /\ ~shutdown
    /\ Cardinality(Active) < 2 * MaxConcurrent
    /\ phase' = "receiving"
    /\ UNCHANGED <<config, sent, broker, coros, shutdown, loops, fate, faults>>

(* Mutant: the receive has no timeout at all. *)
DispatchUntimed ==
    /\ phase = "receiving"
    /\ Pulled # {}
    /\ coros' = [k \in Coro |-> IF k \in Pulled
                                THEN [coros[k] EXCEPT !.pc = "waiting"]
                                ELSE coros[k]]
    /\ phase' = "polling"
    /\ UNCHANGED <<config, sent, broker, shutdown, loops, fate, faults>>

(* The receive returns: a coroutine for every message.  In memory a wait   *)
(* of zero seconds means no timeout, so the get returns with a message.    *)
Dispatch ==
    /\ phase = "receiving"
    /\ config.waits \/ Pulled # {}
    /\ coros' = [k \in Coro |-> IF k \in Pulled
                                THEN [coros[k] EXCEPT !.pc = "waiting"]
                                ELSE coros[k]]
    /\ phase' = "polling"
    /\ UNCHANGED <<config, sent, broker, shutdown, loops, fate, faults>>

(* The receive raises: what it pulled so far reaches no coroutine. *)
ReceiveFails ==
    /\ phase = "receiving"
    /\ ~memory
    /\ coros' = [k \in Coro |-> IF k \in Pulled THEN NoCoro ELSE coros[k]]
    /\ phase' = "polling"
    /\ UNCHANGED <<config, sent, broker, shutdown, loops, fate, faults>>

Acquire(k) ==
    /\ coros[k].pc = "waiting"
    /\ Cardinality(Holding) < MaxConcurrent
    /\ Goes(k, "handling")
    /\ UNCHANGED <<process, sent, broker, fate, faults>>

HandlerReturns(k) ==
    /\ coros[k].pc = "handling"
    /\ Goes(k, "acking")
    /\ over' = over \union {coros[k].body}
    /\ UNCHANGED <<process, sent, broker, stolen, faults>>

(* A NonRetryableMessageError is never requeued, another exception only    *)
(* below the maximum of attempts.                                          *)
Requeue(k, retryable) == retryable /\ coros[k].count < MaxAttempts

HandlerRaises(k, retryable) ==
    /\ coros[k].pc = "handling"
    /\ coros' = [coros EXCEPT ![k].pc = "nacking",
                              ![k].requeue = Requeue(k, retryable)]
    /\ UNCHANGED <<process, sent, broker, fate, faults>>

Signal ==
    /\ phase \in {"polling", "receiving"}
    /\ ~shutdown
    /\ shutdown' = TRUE
    /\ UNCHANGED <<config, sent, broker, coros, phase, loops, fate, faults>>

Leave ==
    /\ phase = "polling"
    /\ shutdown
    /\ phase' = "draining"
    /\ UNCHANGED <<config, sent, broker, coros, shutdown, loops, fate, faults>>

(* gather waits for every active coroutine, whatever it raises. *)
Drained ==
    /\ phase = "draining"
    /\ Active = {}
    /\ phase' = "stopped"
    /\ UNCHANGED <<config, sent, broker, coros, shutdown, loops, fate, faults>>

(* The stop event of the process is set once the worker has returned. *)
LoopEnds(l) ==
    /\ phase = "stopped"
    /\ l \in loops
    /\ loops' = loops \ {l}
    /\ UNCHANGED <<config, sent, broker, coros, phase, shutdown, fate, faults>>

-----------------------------------------------------------------------------
(* Faults *)

Fault == faults < MaxFaults /\ faults' = faults + 1

(* What the broker holds goes back to the queue, marked redelivered. *)
Requeued ==
    [c \in Copy |-> IF copies[c].state = "held"
                    THEN [copies[c] EXCEPT !.state = "ready",
                                           !.redelivered = TRUE]
                    ELSE copies[c]]

(* The visibility timeout of a received SQS message runs out. *)
VisibilityTimeout(c) ==
    /\ sqs
    /\ copies[c].state = "held"
    /\ Fault
    /\ copies' = [copies EXCEPT ![c].state = "ready"]
    /\ coros' = Outdated(c)
    /\ UNCHANGED <<process, sent, inflight, nextTag, fate>>

(* The robust RabbitMQ connection reconnects: a new channel, whose         *)
(* delivery tags start at one; _inflight keeps the old messages.           *)
Reconnect ==
    /\ rabbitmq
    /\ phase # "stopped"
    /\ Fault
    /\ copies' = Requeued
    /\ inflight' = [t \in Tag |-> [inflight[t] EXCEPT !.live = FALSE,
                                                     !.copy = 0]]
    /\ coros' = [k \in Coro |-> [coros[k] EXCEPT !.live = FALSE,
                                                !.copy = 0]]
    /\ nextTag' = 1
    /\ UNCHANGED <<process, sent, fate>>

(* The process dies and is started again. *)
Crash ==
    /\ phase # "stopped"
    /\ Fault
    /\ coros' = [k \in Coro |-> NoCoro]
    /\ inflight' = [t \in Tag |-> NoEntry]
    /\ nextTag' = 1
    /\ phase' = "polling"
    /\ shutdown' = FALSE
    /\ copies' = CASE memory -> [c \in Copy |-> NoCopy]
                   [] rabbitmq -> Requeued
                   [] sqs -> copies
    /\ over' = IF memory THEN sent ELSE over
    /\ UNCHANGED <<config, sent, loops, stolen>>

Step(k) ==
    \/ Acquire(k)
    \/ HandlerReturns(k)
    \/ \E retryable \in BOOLEAN : HandlerRaises(k, retryable)
    \/ Ack(k) \/ AckFails(k)
    \/ Nack(k) \/ NackFails(k)
    \/ Settle(k)

Run == Leave \/ Dispatch \/ ReceiveFails \/ Drained

Next ==
    \/ \E b \in Body : Send(b)
    \/ Tick
    \/ \E c \in Copy : Pull(c)
    \/ Run
    \/ \E k \in Coro : Step(k)
    \/ Signal
    \/ \E l \in Loops : LoopEnds(l)
    \/ \E c \in Copy : VisibilityTimeout(c)
    \/ Reconnect
    \/ Crash

(* The event loop runs whatever can run; handlers end, for their calls     *)
(* carry timeouts.  Nothing is assumed of senders, of signals or faults.   *)
Fairness ==
    /\ WF_vars(Run)
    /\ \A k \in Coro : WF_vars(Step(k))
    /\ \A l \in Loops : WF_vars(LoopEnds(l))

Spec == Init /\ [][Next]_vars /\ Fairness

-----------------------------------------------------------------------------
(* Properties *)

Message == [state : {"free", "ready", "held"}, body : Body \union {NoBody},
            attempt : Nat, redelivered : BOOLEAN, fails : Nat]

Entry == [copy : 0..MaxCopies, body : Body \union {NoBody}, channel : 0..MaxFaults,
          fails : Nat, live : BOOLEAN]

Coroutine == [pc : {"free", "pulled", "waiting", "handling", "acking", "nacking", "settling"},
              copy : 0..MaxCopies, body : Body \union {NoBody}, tag : 0..MaxTag,
              channel : 0..MaxFaults, count : Nat, live : BOOLEAN, requeue : BOOLEAN]

TypeOK ==
    /\ config \in Config
    /\ sent \subseteq Body
    /\ copies \in [Copy -> Message]
    /\ inflight \in [Tag -> Entry]
    /\ nextTag \in 1..(MaxTag + 1)
    /\ coros \in [Coro -> Coroutine]
    /\ phase \in {"polling", "receiving", "draining", "stopped"}
    /\ shutdown \in BOOLEAN
    /\ loops \subseteq Loops
    /\ over \subseteq Body
    /\ stolen \subseteq Body \X Body
    /\ faults \in 0..MaxFaults
    \* a settled or free copy has no body, a queued one has
    /\ \A c \in Copy : copies[c].state = "free" <=> copies[c] = NoCopy

(* A message that was sent is still with the broker until its handler has  *)
(* returned, or it is dead-lettered or rejected; the exceptions are the    *)
(* in-memory queue of a process that died and a RabbitMQ delivery tag that *)
(* was used again after a reconnection while an older handler still held   *)
(* it.  Broken by settling before republishing (rabbitmq.py nack) or       *)
(* deleting before dead-lettering (sqs.py nack).                           *)
NothingLost ==
    \A b \in sent : \/ b \in over
                    \/ \E a \in Body \ {b} : <<b, a>> \in stolen
                    \/ \E c \in Copy : copies[c].body = b

(* A copy has been put back by nack fewer times than WORKER_MAX_ATTEMPTS   *)
(* on every backend, through crashes, reconnections and redeliveries: the  *)
(* count receive reports never lags behind the failures, unless a handler  *)
(* from before a reconnection settled this delivery with its own, lower    *)
(* count, by a tag that was used again.                                    *)
RetriesBounded ==
    \A c \in Copy : \/ copies[c].fails < MaxAttempts
                    \/ \E a \in Body : <<copies[c].body, a>> \in stolen

(* A worker never holds more coroutines than twice max_concurrent less one *)
(* plus a batch, and runs at most max_concurrent handlers: what is         *)
(* received and not yet started is bounded.                                *)
ActiveBounded ==
    /\ Cardinality(Active) <= MaxActive
    /\ Cardinality(Holding) <= MaxConcurrent

(* A stop signal ends the process: the receive returns, the coroutines are *)
(* drained and the loops stop, unless the process dies first or the        *)
(* in-memory queue is polled with a wait of zero seconds, which blocks.    *)
SignalStopsWorker ==
    (shutdown /\ config.waits)
        ~> ((phase = "stopped" /\ loops = {}) \/ ~shutdown)

=============================================================================
