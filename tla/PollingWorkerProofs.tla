------------------------- MODULE PollingWorkerProofs -------------------------
(***************************************************************************)
(* Theorems about PollingWorker: for any messages, batch, concurrency,     *)
(* attempts and number of faults, over each of the three gateways.         *)
(*                                                                         *)
(* Each gateway keeps the failures of a message and the counts that its    *)
(* handlers hold together in its own way, so each has its own part of the  *)
(* invariant; the message itself stays because whoever acknowledges a      *)
(* republished original leaves another copy.                               *)
(***************************************************************************)
EXTENDS PollingWorker, FiniteSetTheorems, WellFoundedInduction, TLAPS

Runs(k) == coros[k].pc # "free"

\* A RabbitMQ coroutine that is about to acknowledge what it republished.
Target(k) == coros[k].pc = "settling" /\ coros[k].live

Crossed(b) == \E a \in Body : <<b, a>> \in stolen

Excused(b) == b \in over \/ \E a \in Body \ {b} : <<b, a>> \in stolen

\* NothingLost, and not even the acknowledgement of a republished original
\* will lose the message: another copy is there.
Safe ==
    \A b \in sent :
        \/ Excused(b)
        \/ \E c \in Copy : /\ copies[c].body = b
                           /\ rabbitmq => \A k \in Coro : ~(Target(k) /\ coros[k].copy = c)

CoroSound(k) ==
    Runs(k) =>
        /\ coros[k].body \in sent
        /\ coros[k].pc = "acking" => coros[k].body \in over
        /\ coros[k].pc \in {"nacking", "settling"} /\ coros[k].requeue
             => coros[k].count < MaxAttempts

\* In memory a coroutine has its message to itself, with the count of its copy.
MemorySound ==
    /\ \A k \in Coro : Runs(k) =>
           /\ coros[k].pc # "settling" /\ coros[k].copy \in Copy
           /\ copies[coros[k].copy].state = "held"
           /\ copies[coros[k].copy].body = coros[k].body
           /\ copies[coros[k].copy].attempt = coros[k].count
    /\ \A j, k \in Coro : Runs(j) /\ Runs(k) /\ j # k => coros[j].copy # coros[k].copy
    /\ \A c \in Copy : copies[c].state # "free" =>
           copies[c].attempt = copies[c].fails + 1 /\ copies[c].fails < MaxAttempts

\* The receives of an SQS message that may still put it back.
Handles(c) ==
    {k \in Coro : /\ Runs(k) /\ coros[k].copy = c
                  /\ coros[k].body = copies[c].body /\ coros[k].count < MaxAttempts}

\* Every receive below the maximum may be put back once, now or later.
SqsSound ==
    /\ \A k \in Coro : Runs(k) =>
           /\ coros[k].copy \in Copy
           /\ coros[k].pc = "settling" => coros[k].body \in over
    /\ \A c \in Copy : copies[c].state # "free" =>
           /\ copies[c].fails + Cardinality(Handles(c)) <= copies[c].attempt
           /\ copies[c].fails + Cardinality(Handles(c)) < MaxAttempts

\* A coroutine and the entry under its tag are of one delivery if they are of
\* one channel.
Linked(k) ==
    Runs(k) =>
        /\ coros[k].tag \in Tag /\ coros[k].channel <= faults
        /\ coros[k].channel = faults => coros[k].tag < nextTag
        /\ LET entry == inflight[coros[k].tag] IN
           entry # NoEntry /\ entry.channel = coros[k].channel =>
               /\ entry.body = coros[k].body
               /\ entry.fails < coros[k].count \/ Crossed(entry.body)

\* What the broker's channel holds for the worker is held by one entry, or by
\* one coroutine that is settling it.
RabbitSound ==
    /\ \A k \in Coro : Linked(k)
    /\ \A t \in Tag : inflight[t] # NoEntry => inflight[t].body \in sent
    /\ \A t \in Tag : inflight[t].live =>
           /\ inflight[t].copy \in Copy /\ copies[inflight[t].copy].state = "held"
           /\ copies[inflight[t].copy].body = inflight[t].body
    /\ \A k \in Coro : Target(k) =>
           coros[k].copy \in Copy /\ copies[coros[k].copy].state = "held"
    /\ \A t, u \in Tag : inflight[t].live /\ inflight[u].live /\ t # u
           => inflight[t].copy # inflight[u].copy
    /\ \A t \in Tag, k \in Coro : inflight[t].live /\ Target(k)
           => inflight[t].copy # coros[k].copy
    /\ \A j, k \in Coro : Target(j) /\ Target(k) /\ j # k => coros[j].copy # coros[k].copy
    /\ \A c \in Copy : copies[c].state # "free" =>
           \/ Crossed(copies[c].body)
           \/ /\ copies[c].fails < MaxAttempts
              /\ copies[c].fails = 0 \/ copies[c].fails < copies[c].attempt

\* What is received and what runs.
Bounded ==
    /\ phase = "receiving" => /\ Cardinality(Active) < 2 * MaxConcurrent
                              /\ Cardinality(Pulled) <= Batch
    /\ phase # "receiving" => Pulled = {}
    /\ ActiveBounded

IInv ==
    /\ TypeOK
    /\ \A c \in Copy : copies[c].state # "free" => copies[c].body \in sent
    /\ Safe
    /\ \A k \in Coro : CoroSound(k)
    /\ memory => MemorySound
    /\ sqs => SqsSound
    /\ rabbitmq => RabbitSound
    /\ Bounded

-----------------------------------------------------------------------------
(* The choices of the broker and the process. *)

LEMMA LeastChosen ==
    ASSUME NEW S, S \subseteq Nat, S # {}
    PROVE  Min(S) \in S
<1>1. PICK x \in S : \A y \in S : ~(<<y, x>> \in OpToRel(<, Nat))
  BY NatLessThanWellFounded, WFMin, Zenon
<1>2. \A y \in S : ~(y < x)
  <2>1. SUFFICES ASSUME NEW y \in S, y < x PROVE FALSE
    OBVIOUS
  <2>2. x \in Nat /\ y \in Nat
    OBVIOUS
  <2>3. <<y, x>> \in {p \in Nat \X Nat : p[1] < p[2]}
    BY <2>1, <2>2, SMT
  <2> QED
    BY <2>3, <1>1, Zenon DEF OpToRel
<1>3. \A y \in S : x <= y
  BY <1>2
<1> QED
  BY <1>3 DEF Min

LEMMA LargestChosen ==
    ASSUME NEW a \in Nat, NEW r \in {1, 2}
    PROVE  LET m == Max({1, a, r}) IN m \in Nat /\ m >= 1 /\ m >= a
<1>1. \E x \in {1, a, r} : \A y \in {1, a, r} : x >= y
  OBVIOUS
<1>2. Max({1, a, r}) \in {1, a, r} /\ \A y \in {1, a, r} : Max({1, a, r}) >= y
  BY <1>1 DEF Max
<1> QED
  BY <1>2

\* The backend is one of three.
LEMMA OneBackend ==
    ASSUME TypeOK
    PROVE  /\ memory \/ sqs \/ rabbitmq
           /\ ~(memory /\ sqs) /\ ~(memory /\ rabbitmq) /\ ~(sqs /\ rabbitmq)
BY DEF TypeOK, Config, memory, sqs, rabbitmq

\* What receive reports, by backend.
LEMMA Counted ==
    ASSUME TypeOK, NEW m \in Message
    PROVE  /\ ReceiveCount(m) \in Nat
           /\ memory => ReceiveCount(m) = m.attempt
           /\ sqs => ReceiveCount(m) = m.attempt + 1
           /\ rabbitmq => ReceiveCount(m) >= 1 /\ ReceiveCount(m) >= m.attempt
<1>1. m.attempt \in Nat
  BY DEF Message
<1>2. CASE memory
  BY <1>1, <1>2, OneBackend DEF ReceiveCount
<1>3. CASE sqs
  BY <1>1, <1>3, OneBackend DEF ReceiveCount
<1>4. CASE rabbitmq
  <2> DEFINE r == IF m.redelivered THEN 2 ELSE 1
  <2>1. ReceiveCount(m) = Max({1, m.attempt, r})
    BY <1>4, OneBackend DEF ReceiveCount
  <2>2. r \in {1, 2}
    OBVIOUS
  <2> QED
    BY <2>1, <2>2, <1>1, <1>4, LargestChosen, OneBackend
<1> QED
  BY <1>2, <1>3, <1>4, OneBackend

\* There are more coroutines than a worker can hold.
LEMMA CoroFinite ==
    /\ MaxActive \in Nat
    /\ IsFiniteSet(Coro) /\ Cardinality(Coro) = MaxActive + 1
    /\ Coro \subseteq Nat /\ Copy \subseteq Nat
<1>1. MaxActive \in Nat /\ Coro = 1..(MaxActive + 1)
  BY PollingAssumption DEF MaxActive, Coro
<1>2. IsFiniteSet(Coro) /\ Cardinality(Coro) = MaxActive + 1
  BY <1>1, FS_Interval
<1> QED
  BY <1>1, <1>2, PollingAssumption DEF Copy

\* The coroutines by where they are, as finite sets.
LEMMA CoroSets ==
    /\ IsFiniteSet(Active) /\ IsFiniteSet(Holding) /\ IsFiniteSet(Pulled)
    /\ Cardinality(Active) \in Nat /\ Cardinality(Holding) \in Nat
    /\ Cardinality(Pulled) \in Nat
<1>1. /\ Active \in SUBSET Coro /\ Holding \in SUBSET Coro /\ Pulled \in SUBSET Coro
  BY DEF Active, Holding, Pulled
<1>2. IsFiniteSet(Active) /\ IsFiniteSet(Holding) /\ IsFiniteSet(Pulled)
  BY <1>1, CoroFinite, FS_Subset
<1> QED
  BY <1>2, FS_CardinalityType

\* A message that is received finds a free coroutine.
LEMMA FreeCoroutine ==
    ASSUME Bounded, phase = "receiving", Cardinality(Pulled) < Batch
    PROVE  LET k == Min({j \in Coro : coros[j].pc = "free"}) IN
           k \in Coro /\ coros[k].pc = "free"
<1> DEFINE F == {j \in Coro : coros[j].pc = "free"}
<1>1. F # {}
  <2>1. SUFFICES ASSUME F = {} PROVE FALSE
    OBVIOUS
  <2>2. Coro = Active \union Pulled /\ Active \cap Pulled = {}
    BY <2>1 DEF Active, Pulled
  <2>3. Cardinality(Active \union Pulled)
          = Cardinality(Active) + Cardinality(Pulled) - Cardinality(Active \cap Pulled)
    BY CoroSets, FS_Union
  <2>4. Cardinality(Active \cap Pulled) = 0
    BY <2>2, FS_EmptySet
  <2>5. Cardinality(Active) < 2 * MaxConcurrent
    BY DEF Bounded
  <2> HIDE DEF F
  <2> QED
    BY <2>2, <2>3, <2>4, <2>5, CoroSets, CoroFinite, PollingAssumption DEF MaxActive
<1>2. F \subseteq Nat
  BY CoroFinite
<1>3. Min(F) \in F
  BY <1>1, <1>2, LeastChosen
<1> QED
  BY <1>3

\* A coroutine that runs has a message that was sent.
LEMMA RunsOnSent ==
    ASSUME IInv, NEW k \in Coro, Runs(k)
    PROVE  /\ coros[k] \in Coroutine /\ coros[k].body \in sent /\ coros[k].body \in Body
           /\ memory \/ sqs => coros[k].copy \in Copy
           /\ rabbitmq => coros[k].tag \in Tag
<1>1. coros[k] \in Coroutine /\ sent \subseteq Body /\ CoroSound(k)
  BY DEF IInv, TypeOK
<1>2. coros[k].body \in sent
  BY <1>1 DEF CoroSound
<1>3. memory \/ sqs => coros[k].copy \in Copy
  BY DEF IInv, MemorySound, SqsSound
<1>4. rabbitmq => coros[k].tag \in Tag
  BY DEF IInv, RabbitSound, Linked
<1> QED
  BY <1>1, <1>2, <1>3, <1>4

\* The entry that a RabbitMQ coroutine settles by.
LEMMA EntryOfSent ==
    ASSUME IInv, rabbitmq, NEW t \in Tag
    PROVE  /\ inflight[t] \in Entry
           /\ inflight[t] # NoEntry => inflight[t].body \in sent /\ inflight[t].body \in Body
           /\ inflight[t].live => /\ inflight[t] # NoEntry /\ inflight[t].copy \in Copy
                                  /\ copies[inflight[t].copy].state = "held"
                                  /\ copies[inflight[t].copy].body = inflight[t].body
<1>1. inflight[t] \in Entry /\ sent \subseteq Body
  BY DEF IInv, TypeOK
<1>2. inflight[t] # NoEntry => inflight[t].body \in sent
  BY DEF IInv, RabbitSound
<1>3. inflight[t].live => /\ inflight[t].copy \in Copy
                          /\ copies[inflight[t].copy].state = "held"
                          /\ copies[inflight[t].copy].body = inflight[t].body
  BY DEF IInv, RabbitSound
<1>4. inflight[t].live => inflight[t] # NoEntry
  BY DEF NoEntry
<1> QED
  BY <1>1, <1>2, <1>3, <1>4

-----------------------------------------------------------------------------
(* Types *)

LEMMA Constants ==
    /\ NoCopy \in Message /\ NoCoro \in Coroutine /\ NoEntry \in Entry
    /\ NoCopy.state = "free" /\ NoCopy.body = NoBody
    /\ NoCoro.pc = "free" /\ NoEntry.live = FALSE
    /\ NoBody \notin Body
<1>1. 0 \in Nat /\ 0 \in 0..MaxCopies /\ 0 \in 0..MaxTag /\ 0 \in 0..MaxFaults
  BY PollingAssumption
<1>2. NoCopy \in Message
  BY <1>1 DEF NoCopy, Message
<1>3. NoCoro \in Coroutine
  BY <1>1 DEF NoCoro, Coroutine
<1>4. NoEntry \in Entry
  BY <1>1 DEF NoEntry, Entry
<1> QED
  BY <1>2, <1>3, <1>4, PollingAssumption DEF NoCopy, NoCoro, NoEntry

\* The copies a broker may hold.
Copies == {cs \in [Copy -> Message] : \A c \in Copy : cs[c].state = "free" <=> cs[c] = NoCopy}

LEMMA CopyUpdate ==
    ASSUME NEW cs \in Copies, NEW d, NEW m \in Message, m.state # "free" \/ m = NoCopy
    PROVE  [cs EXCEPT ![d] = m] \in Copies
<1>1. m.state = "free" <=> m = NoCopy
  BY Constants
<1> QED
  BY <1>1 DEF Copies

LEMMA TypedParts ==
    ASSUME TypeOK
    PROVE  /\ copies \in Copies /\ coros \in [Coro -> Coroutine] /\ inflight \in [Tag -> Entry]
           /\ \A c : Deleted(c) \in Copies
           /\ \A k : [coros EXCEPT ![k] = NoCoro] \in [Coro -> Coroutine]
           /\ \A t : [inflight EXCEPT ![t] = NoEntry] \in [Tag -> Entry]
<1>1. copies \in Copies /\ coros \in [Coro -> Coroutine] /\ inflight \in [Tag -> Entry]
  BY DEF TypeOK, Copies
<1>2. \A c : Deleted(c) \in Copies
  BY <1>1, CopyUpdate, Constants DEF Deleted
<1> QED
  BY <1>1, <1>2, Constants

\* A coroutine moves on, or is put back to nack.
LEMMA CoroMoves ==
    ASSUME NEW cs \in [Coro -> Coroutine], NEW k \in Coro,
           NEW pc \in {"waiting", "handling", "acking", "nacking", "settling"},
           NEW rq \in BOOLEAN
    PROVE  /\ [cs EXCEPT ![k].pc = pc] \in [Coro -> Coroutine]
           /\ [cs EXCEPT ![k].pc = pc, ![k].requeue = rq] \in [Coro -> Coroutine]
<1>1. cs[k] \in Coroutine
  OBVIOUS
<1>2. [cs[k] EXCEPT !.pc = pc] \in Coroutine
  BY <1>1 DEF Coroutine
<1>3. [cs[k] EXCEPT !.pc = pc, !.requeue = rq] \in Coroutine
  BY <1>1 DEF Coroutine
<1> QED
  BY <1>2, <1>3

\* A receipt handle goes out of date.
LEMMA CoroOutdated ==
    ASSUME NEW x \in Coroutine
    PROVE  [x EXCEPT !.live = FALSE] \in Coroutine
  BY DEF Coroutine

LEMMA CoroNacks ==
    ASSUME NEW cs \in [Coro -> Coroutine], NEW k \in Coro
    PROVE  [cs EXCEPT ![k].pc = "nacking", ![k].requeue = cs[k].count < MaxAttempts]
             \in [Coro -> Coroutine]
<1>1. CASE cs[k].count < MaxAttempts
  <2>1. [cs EXCEPT ![k].pc = "nacking", ![k].requeue = TRUE] \in [Coro -> Coroutine]
    BY CoroMoves
  <2> QED
    BY <1>1, <2>1
<1>2. CASE ~(cs[k].count < MaxAttempts)
  <2>1. [cs EXCEPT ![k].pc = "nacking", ![k].requeue = FALSE] \in [Coro -> Coroutine]
    BY CoroMoves
  <2>2. (cs[k].count < MaxAttempts) = FALSE
    BY <1>2
  <2> QED
    BY <2>1, <2>2, Zenon
<1> QED
  BY <1>1, <1>2

LEMMA MessageParts ==
    ASSUME NEW m \in Message
    PROVE  /\ m.state \in {"free", "ready", "held"} /\ m.body \in Body \union {NoBody}
           /\ m.attempt \in Nat /\ m.redelivered \in BOOLEAN /\ m.fails \in Nat
BY DEF Message

LEMMA CoroParts ==
    ASSUME NEW m \in Coroutine
    PROVE  /\ m.pc \in {"free", "pulled", "waiting", "handling", "acking", "nacking", "settling"}
           /\ m.copy \in 0..MaxCopies /\ m.body \in Body \union {NoBody}
           /\ m.tag \in 0..MaxTag /\ m.channel \in 0..MaxFaults /\ m.count \in Nat
           /\ m.live \in BOOLEAN /\ m.requeue \in BOOLEAN
BY DEF Coroutine

LEMMA EntryParts ==
    ASSUME NEW m \in Entry
    PROVE  /\ m.copy \in 0..MaxCopies /\ m.body \in Body \union {NoBody}
           /\ m.channel \in 0..MaxFaults /\ m.fails \in Nat /\ m.live \in BOOLEAN
BY DEF Entry

\* What the process and the broker's bookkeeping leave alone.
LEMMA TypeRest ==
    ASSUME TypeOK, copies' \in Copies, coros' \in [Coro -> Coroutine],
           inflight' \in [Tag -> Entry], config' = config, sent' \subseteq Body,
           nextTag' \in 1..(MaxTag + 1), over' \subseteq Body,
           stolen' \subseteq Body \X Body, faults' \in 0..MaxFaults,
           phase' \in {"polling", "receiving", "draining", "stopped"},
           shutdown' \in BOOLEAN, loops' \subseteq Loops
    PROVE  TypeOK'
BY Zenon DEF TypeOK, Copies

\* Steps of the broker.
LEMMA SendTyped ==
    ASSUME IInv, NEW b \in Body, Send(b)
    PROVE  TypeOK' /\ Min(Free) \in Free
<1>1. TypeOK /\ Sent(b) \in Message /\ Sent(b).state = "ready"
  <2>1. (IF memory THEN 1 ELSE 0) \in Nat /\ 0 \in Nat
    OBVIOUS
  <2> QED
    BY <2>1 DEF IInv, Sent, Message
<1>2. Min(Free) \in Free
  BY CoroFinite, LeastChosen DEF Send, Free
<1>3. copies' \in Copies
  BY <1>1, TypedParts, CopyUpdate DEF Send
<1> QED
  BY <1>1, <1>2, <1>3, TypedParts, TypeRest DEF Send, process, fate, TypeOK

LEMMA PullTyped ==
    ASSUME IInv, NEW c \in Copy, Pull(c)
    PROVE  TypeOK'
<1> DEFINE m == copies[c]
           k == Min({j \in Coro : coros[j].pc = "free"})
           x == [pc |-> "pulled", copy |-> c, body |-> m.body,
                 tag |-> IF rabbitmq THEN nextTag ELSE 0,
                 channel |-> IF rabbitmq THEN faults ELSE 0,
                 count |-> ReceiveCount(m), live |-> TRUE, requeue |-> FALSE]
           e == [copy |-> c, body |-> m.body, channel |-> faults,
                 fails |-> m.fails, live |-> TRUE]
<1>1. TypeOK /\ m \in Message /\ c \in 0..MaxCopies /\ faults \in 0..MaxFaults
      /\ 0 \in 0..MaxTag /\ 0 \in 0..MaxFaults
  BY PollingAssumption DEF IInv, TypeOK, Copy
<1>2. k \in Coro
  BY FreeCoroutine DEF IInv, Pull
<1>3. (IF rabbitmq THEN nextTag ELSE 0) \in 0..MaxTag
  BY <1>1, PollingAssumption DEF Pull, Tag
<1>4. (IF rabbitmq THEN faults ELSE 0) \in 0..MaxFaults
  BY <1>1
<1>5. ReceiveCount(m) \in Nat
  BY <1>1, Counted
<1>6. x \in Coroutine
  BY <1>1, <1>3, <1>4, <1>5, MessageParts DEF Coroutine
<1>7. e \in Entry
  BY <1>1, MessageParts DEF Entry
<1>8. Delivered(m) \in Message /\ Delivered(m).state = "held"
  <2>1. m.attempt \in Nat /\ m.attempt + 1 \in Nat
    BY <1>1, MessageParts
  <2> QED
    BY <1>1, <2>1 DEF Delivered, Message
<1>9. copies' \in Copies
  BY <1>1, <1>8, TypedParts, CopyUpdate DEF Pull
<1>10. coros' \in [Coro -> Coroutine]
  <2>1. coros' = [coros EXCEPT ![k] = x]
    BY DEF Pull
  <2> HIDE DEF x, k
  <2> QED
    BY <1>1, <1>2, <1>6, <2>1, TypedParts
<1>11. inflight' \in [Tag -> Entry] /\ nextTag' \in 1..(MaxTag + 1)
  <2>1. CASE rabbitmq
    <3>1. inflight' = [inflight EXCEPT ![nextTag] = e] /\ nextTag' = nextTag + 1 /\ nextTag \in Tag
      BY <2>1 DEF Pull
    <3> HIDE DEF e
    <3> QED
      BY <1>1, <1>7, <3>1, TypedParts, PollingAssumption DEF Tag
  <2>2. CASE ~rabbitmq
    BY <2>2, <1>1 DEF Pull, TypeOK
  <2> QED
    BY <2>1, <2>2
<1>12. config' = config /\ sent' = sent /\ over' = over /\ stolen' = stolen
       /\ phase' = phase /\ shutdown' = shutdown /\ loops' = loops /\ faults' = faults
  BY DEF Pull, process, fate
<1> HIDE DEF m, k, x, e
<1> QED
  BY <1>1, <1>9, <1>10, <1>11, <1>12, TypeRest DEF TypeOK

\* Steps of a coroutine that settles.
LEMMA AckTyped ==
    ASSUME IInv, NEW k \in Coro, Ack(k)
    PROVE  TypeOK'
<1>1. TypeOK /\ Runs(k)
  BY DEF IInv, Ack, Runs
<1>2. config' = config /\ sent' = sent /\ over' = over
      /\ phase' = phase /\ shutdown' = shutdown /\ loops' = loops /\ faults' = faults
  BY DEF Ack, process
<1>3. CASE MemoryAck(k) \/ SqsAck(k)
  BY <1>1, <1>2, <1>3, TypedParts, TypeRest DEF MemoryAck, SqsAck, Ends, TypeOK
<1>4. CASE RabbitAck(k)
  <2> DEFINE entry == inflight[coros[k].tag]
  <2>1. inflight' \in [Tag -> Entry] /\ nextTag' = nextTag
    BY <1>1, <1>4, TypedParts DEF RabbitAck, Pop
  <2>2. copies' \in Copies
    BY <1>1, <1>4, TypedParts DEF RabbitAck
  <2>3. coros' \in [Coro -> Coroutine]
    <3>1. coros' = [coros EXCEPT ![k].pc = "nacking", ![k].requeue = coros[k].count < MaxAttempts]
          \/ coros' = [coros EXCEPT ![k] = NoCoro]
      BY <1>4 DEF RabbitAck, Ends
    <3> QED
      BY <1>1, <3>1, TypedParts, CoroNacks
  <2>4. stolen' \subseteq Body \X Body
    <3>0. stolen' = stolen \/ (entry # NoEntry /\ stolen' = Stolen(k, entry))
      BY <1>4 DEF RabbitAck
    <3>1. stolen' = stolen \/ (entry # NoEntry /\ stolen' = stolen \union {<<entry.body, coros[k].body>>})
      BY <3>0 DEF Stolen
    <3>2. rabbitmq
      BY <1>4 DEF RabbitAck
    <3>3. entry # NoEntry => <<entry.body, coros[k].body>> \in Body \X Body
      BY <1>1, <3>2, RunsOnSent, EntryOfSent
    <3> QED
      BY <1>1, <3>1, <3>3 DEF TypeOK
  <2> QED
    BY <1>1, <1>2, <2>1, <2>2, <2>3, <2>4, TypeRest DEF TypeOK
<1> QED
  BY <1>3, <1>4 DEF Ack

LEMMA NackTyped ==
    ASSUME IInv, NEW k \in Coro, Nack(k)
    PROVE  TypeOK'
<1>1. TypeOK /\ Runs(k)
  BY DEF IInv, Nack, Runs
<1>2. config' = config /\ sent' = sent /\ nextTag' = nextTag
      /\ phase' = phase /\ shutdown' = shutdown /\ loops' = loops /\ faults' = faults
  BY DEF Nack, process
<1>3. coros[k].body \in Body
  BY <1>1, RunsOnSent
<1>4. CASE MemoryNack(k)
  <2> DEFINE c == coros[k].copy
  <2>1. c \in Copy /\ copies[c] \in Message
    BY <1>1, <1>4, RunsOnSent DEF MemoryNack, TypeOK
  <2>2. copies' \in Copies
    <3>1. CASE coros[k].requeue
      <4>1. copies' = [copies EXCEPT ![c].state = "ready", ![c].attempt = @ + 1, ![c].fails = @ + 1]
        BY <3>1, <1>4 DEF MemoryNack
      <4>2. PICK m : m = [state |-> "ready", body |-> copies[c].body,
                         attempt |-> copies[c].attempt + 1,
                         redelivered |-> copies[c].redelivered, fails |-> copies[c].fails + 1]
        OBVIOUS
      <4>3. m \in Message /\ m.state = "ready"
        BY <2>1, <4>2, MessageParts DEF Message
      <4>4. copies' = [copies EXCEPT ![c] = m]
        BY <4>1, <4>2, <2>1, <1>1 DEF TypeOK, Message
      <4> QED
        BY <4>3, <4>4, <1>1, TypedParts, CopyUpdate
    <3>2. CASE ~coros[k].requeue
      BY <3>2, <1>1, <1>4, TypedParts DEF MemoryNack
    <3> QED
      BY <3>1, <3>2
  <2>3. over' \subseteq Body /\ stolen' = stolen /\ inflight' = inflight
        /\ coros' = [coros EXCEPT ![k] = NoCoro]
    BY <1>4, <1>1, <1>3 DEF MemoryNack, Ends, TypeOK
  <2> QED
    BY <1>1, <1>2, <2>2, <2>3, TypedParts, TypeRest DEF TypeOK
<1>5. CASE SqsNack(k)
  <2> DEFINE c == coros[k].copy
  <2>1. c \in Copy /\ copies[c] \in Message
    BY <1>1, <1>5, RunsOnSent DEF SqsNack, TypeOK
  <2>2. over' \subseteq Body /\ stolen' = stolen /\ inflight' = inflight
    BY <1>5, <1>1, <1>3 DEF SqsNack, TypeOK
  <2>3. Outdated(c) \in [Coro -> Coroutine]
    BY <1>1, CoroOutdated DEF Outdated, TypeOK
  <2>4. copies' \in Copies
    <3>1. PICK m : m = [state |-> "ready", body |-> copies[c].body,
                       attempt |-> copies[c].attempt,
                       redelivered |-> copies[c].redelivered, fails |-> copies[c].fails + 1]
      OBVIOUS
    <3>2. m \in Message /\ m.state = "ready"
      BY <2>1, <3>1, MessageParts DEF Message
    <3>3. copies' = copies \/ copies' = [copies EXCEPT ![c].state = "ready", ![c].fails = @ + 1]
      BY <1>5 DEF SqsNack
    <3>4. copies' = copies \/ copies' = [copies EXCEPT ![c] = m]
      BY <3>1, <3>3, <2>1, <1>1 DEF TypeOK, Message
    <3> QED
      BY <3>2, <3>4, <1>1, TypedParts, CopyUpdate
  <2>5. coros' \in [Coro -> Coroutine]
    <3>1. \/ coros' = [coros EXCEPT ![k] = NoCoro]
          \/ coros' = [Outdated(c) EXCEPT ![k] = NoCoro]
          \/ coros' = [coros EXCEPT ![k].pc = "settling"]
      BY <1>5 DEF SqsNack, Ends, Goes
    <3>2. [Outdated(c) EXCEPT ![k] = NoCoro] \in [Coro -> Coroutine]
      BY <2>3, Constants
    <3>3. [coros EXCEPT ![k].pc = "settling"] \in [Coro -> Coroutine]
      BY <1>1, TypedParts, CoroMoves
    <3> QED
      BY <3>1, <3>2, <3>3, <1>1, TypedParts
  <2> QED
    BY <1>1, <1>2, <2>2, <2>4, <2>5, TypeRest DEF TypeOK
<1>6. CASE RabbitNack(k)
  <2> DEFINE entry == inflight[coros[k].tag]
  <2>1. rabbitmq /\ coros[k].tag \in Tag
    BY <1>1, <1>6, RunsOnSent DEF RabbitNack
  <2>2. entry \in Entry /\ (entry # NoEntry => entry.body \in Body)
    BY <2>1, EntryOfSent
  <2>3. inflight' \in [Tag -> Entry]
    BY <1>1, <1>6, TypedParts DEF RabbitNack, Pop
  <2>4. stolen' \subseteq Body \X Body
    <3>0. stolen' = stolen \/ (entry # NoEntry /\ stolen' = Stolen(k, entry))
      BY <1>6 DEF RabbitNack
    <3>1. stolen' = stolen \/ (entry # NoEntry /\ stolen' = stolen \union {<<entry.body, coros[k].body>>})
      BY <3>0 DEF Stolen
    <3> QED
      BY <1>1, <1>3, <2>2, <3>1 DEF TypeOK
  <2>5. over' \subseteq Body
    BY <1>6, <1>1, <2>2 DEF RabbitNack, TypeOK
  <2>6. CASE Ends(k) /\ (copies' = copies \/ copies' = Deleted(entry.copy))
    BY <1>1, <1>2, <2>3, <2>4, <2>5, <2>6, TypedParts, TypeRest DEF TypeOK, Ends
  <2>7. CASE /\ entry # NoEntry /\ Free # {} /\ copies' = Republished(k, entry)
             /\ coros' = [coros EXCEPT ![k].pc = "settling",
                               ![k].copy = entry.copy, ![k].live = entry.live]
    <3>1. coros[k] \in Coroutine /\ coros[k].count + 1 \in Nat /\ entry.fails + 1 \in Nat
          /\ entry.copy \in 0..MaxCopies /\ entry.live \in BOOLEAN /\ entry.body \in Body
      BY <1>1, <2>2, <2>7, RunsOnSent, CoroParts, EntryParts
    <3>2. PICK m : m = [state |-> "ready", body |-> entry.body, attempt |-> coros[k].count + 1,
                       redelivered |-> FALSE, fails |-> entry.fails + 1]
      OBVIOUS
    <3>3. m \in Message /\ m.state = "ready"
      BY <3>1, <3>2 DEF Message
    <3>4. copies' \in Copies
      BY <1>1, <2>7, <3>2, <3>3, TypedParts, CopyUpdate DEF Republished
    <3>5. coros' \in [Coro -> Coroutine]
      BY <1>1, <2>7, <3>1 DEF TypeOK, Coroutine
    <3> QED
      BY <1>1, <1>2, <2>3, <2>4, <2>5, <3>4, <3>5, TypeRest DEF TypeOK
  <2> QED
    BY <1>6, <2>6, <2>7 DEF RabbitNack
<1> QED
  BY <1>4, <1>5, <1>6 DEF Nack

LEMMA StepTyped ==
    ASSUME IInv, NEW k \in Coro, Step(k)
    PROVE  TypeOK'
<1>1. TypeOK
  BY DEF IInv
<1>2. CASE Acquire(k)
  BY <1>1, <1>2, TypedParts, CoroMoves, TypeRest DEF Acquire, Goes, process, broker, fate, TypeOK
<1>3. CASE HandlerReturns(k)
  <2>1. coros[k].body \in Body
    BY <1>3, RunsOnSent DEF HandlerReturns, Runs
  <2> QED
    BY <1>1, <1>3, <2>1, TypedParts, CoroMoves, TypeRest
       DEF HandlerReturns, Goes, process, broker, TypeOK
<1>4. ASSUME NEW retryable \in BOOLEAN, HandlerRaises(k, retryable) PROVE TypeOK'
  <2>1. coros' \in [Coro -> Coroutine]
    <3>1. CASE retryable = TRUE
      <4>1. Requeue(k, retryable) = (coros[k].count < MaxAttempts)
        BY <3>1 DEF Requeue
      <4> QED
        BY <1>1, <1>4, <4>1, TypedParts, CoroNacks DEF HandlerRaises
    <3>2. CASE retryable = FALSE
      <4>1. Requeue(k, retryable) = FALSE
        BY <3>2 DEF Requeue
      <4>2. [coros EXCEPT ![k].pc = "nacking", ![k].requeue = FALSE] \in [Coro -> Coroutine]
        BY <1>1, TypedParts, CoroMoves
      <4> QED
        BY <1>4, <4>1, <4>2, Zenon DEF HandlerRaises
    <3> QED
      BY <3>1, <3>2
  <2> QED
    BY <1>1, <1>4, <2>1, TypedParts, TypeRest DEF HandlerRaises, process, broker, fate, TypeOK
<1>5. CASE AckFails(k)
  <2>1. coros' \in [Coro -> Coroutine]
    BY <1>1, <1>5, TypedParts, CoroNacks DEF AckFails
  <2>2. inflight' \in [Tag -> Entry]
    BY <1>1, <1>5, TypedParts DEF AckFails, Pop
  <2> QED
    BY <1>1, <1>5, <2>1, <2>2, TypedParts, TypeRest DEF AckFails, process, fate, TypeOK
<1>6. CASE NackFails(k)
  <2>1. inflight' \in [Tag -> Entry]
    BY <1>1, <1>6, TypedParts DEF NackFails, Pop
  <2> QED
    BY <1>1, <1>6, <2>1, TypedParts, TypeRest DEF NackFails, Ends, process, fate, TypeOK
<1>7. CASE Settle(k)
  <2>1. copies' \in Copies
    BY <1>1, <1>7, TypedParts DEF Settle
  <2> QED
    BY <1>1, <1>7, <2>1, TypedParts, TypeRest DEF Settle, Ends, process, fate, TypeOK
<1> QED
  BY <1>2, <1>3, <1>4, <1>5, <1>6, <1>7, AckTyped, NackTyped DEF Step

\* Steps of run() and faults.
LEMMA RunTyped ==
    ASSUME IInv, Tick \/ Run \/ Signal \/ (\E l \in Loops : LoopEnds(l)) \/ UNCHANGED vars
    PROVE  TypeOK'
<1>1. TypeOK
  BY DEF IInv
<1>2. CASE Dispatch
  <2>1. coros' \in [Coro -> Coroutine]
    BY <1>1, <1>2 DEF Dispatch, TypeOK, Coroutine
  <2> QED
    BY <1>1, <1>2, <2>1, TypedParts, TypeRest DEF Dispatch, broker, fate, TypeOK
<1>3. CASE ReceiveFails
  <2>1. coros' \in [Coro -> Coroutine]
    BY <1>1, <1>3, Constants DEF ReceiveFails, TypeOK
  <2> QED
    BY <1>1, <1>3, <2>1, TypedParts, TypeRest DEF ReceiveFails, broker, fate, TypeOK
<1>4. CASE Tick \/ Leave \/ Drained \/ Signal \/ (\E l \in Loops : LoopEnds(l)) \/ UNCHANGED vars
  <2>1. coros' = coros /\ copies' = copies /\ inflight' = inflight /\ nextTag' = nextTag
        /\ sent' = sent /\ over' = over /\ stolen' = stolen /\ faults' = faults /\ config' = config
    BY <1>4 DEF Tick, Leave, Drained, Signal, LoopEnds, broker, fate, vars
  <2>2. phase' \in {"polling", "receiving", "draining", "stopped"}
    BY <1>1, <1>4 DEF Tick, Leave, Drained, Signal, LoopEnds, vars, TypeOK
  <2>3. loops' \subseteq Loops
    BY <1>1, <1>4 DEF Tick, Leave, Drained, Signal, LoopEnds, vars, TypeOK
  <2>4. shutdown' \in BOOLEAN
    BY <1>1, <1>4, Zenon DEF Tick, Leave, Drained, Signal, LoopEnds, vars, TypeOK
  <2> QED
    BY <1>1, <2>1, <2>2, <2>3, <2>4, TypedParts, TypeRest DEF TypeOK
<1> QED
  BY <1>2, <1>3, <1>4 DEF Run

\* What the broker takes back.
LEMMA RequeuedTyped ==
    ASSUME TypeOK
    PROVE  /\ Requeued \in Copies
           /\ \A c \in Copy : /\ Requeued[c].body = copies[c].body
                              /\ Requeued[c].attempt = copies[c].attempt
                              /\ Requeued[c].fails = copies[c].fails
                              /\ Requeued[c].state # "held"
                              /\ Requeued[c].state = "free" <=> copies[c].state = "free"
<1>1. \A c \in Copy : copies[c] \in Message
  BY DEF TypeOK
<1>2. \A c \in Copy : /\ Requeued[c] \in Message
                      /\ Requeued[c] = copies[c] \/ Requeued[c].state = "ready"
  BY <1>1 DEF Requeued, Message
<1>3. Requeued \in Copies
  BY <1>1, <1>2, Constants DEF Requeued, Copies, TypeOK
<1>4. ASSUME NEW c \in Copy
      PROVE  /\ Requeued[c].body = copies[c].body
             /\ Requeued[c].attempt = copies[c].attempt
             /\ Requeued[c].fails = copies[c].fails
             /\ Requeued[c].state # "held"
             /\ Requeued[c].state = "free" <=> copies[c].state = "free"
  BY <1>1 DEF Requeued, Message
<1> QED
  BY <1>3, <1>4

LEMMA FaultTyped ==
    ASSUME IInv, Reconnect \/ Crash \/ \E c \in Copy : VisibilityTimeout(c)
    PROVE  TypeOK'
<1>1. TypeOK /\ 1 \in 1..(MaxTag + 1) /\ 0 \in 0..MaxCopies
  BY PollingAssumption DEF IInv
<1>2. ASSUME Fault PROVE faults' \in 0..MaxFaults
  BY <1>1, <1>2, PollingAssumption DEF Fault, TypeOK
<1>3. CASE Reconnect
  <2>1. inflight' \in [Tag -> Entry]
    <3>1. ASSUME NEW x \in Entry
          PROVE  [x EXCEPT !.live = FALSE, !.copy = 0] \in Entry
      BY <1>1 DEF Entry
    <3>2. \A t \in Tag : inflight[t] \in Entry
      BY <1>1 DEF TypeOK
    <3> QED
      BY <1>3, <3>1, <3>2 DEF Reconnect
  <2>2. coros' \in [Coro -> Coroutine]
    <3>0. ASSUME NEW x \in Coroutine
          PROVE  [x EXCEPT !.live = FALSE, !.copy = 0] \in Coroutine
      BY <1>1 DEF Coroutine
    <3>1. \A k \in Coro : [coros[k] EXCEPT !.live = FALSE, !.copy = 0] \in Coroutine
      <4>1. \A k \in Coro : coros[k] \in Coroutine
        BY <1>1 DEF TypeOK
      <4> QED
        BY <3>0, <4>1
    <3> QED
      BY <1>3, <3>1 DEF Reconnect
  <2> QED
    BY <1>1, <1>2, <1>3, <2>1, <2>2, RequeuedTyped, TypeRest DEF Reconnect, process, fate, TypeOK
<1>4. CASE Crash
  <2>1. copies' \in Copies
    <3>1. [c \in Copy |-> NoCopy] \in Copies
      BY Constants DEF Copies
    <3>2. memory => copies' = [c \in Copy |-> NoCopy]
      BY <1>1, <1>4, OneBackend DEF Crash
    <3>3. rabbitmq => copies' = Requeued
      BY <1>1, <1>4, OneBackend DEF Crash
    <3>4. sqs => copies' = copies
      BY <1>1, <1>4, OneBackend DEF Crash
    <3> QED
      BY <1>1, <3>1, <3>2, <3>3, <3>4, OneBackend, RequeuedTyped, TypedParts
  <2>2. inflight' \in [Tag -> Entry] /\ coros' \in [Coro -> Coroutine]
    BY <1>4, Constants DEF Crash
  <2>3. over' \subseteq Body /\ sent' \subseteq Body /\ stolen' \subseteq Body \X Body
        /\ loops' \subseteq Loops
    BY <1>1, <1>4 DEF Crash, TypeOK
  <2>4. nextTag' = 1 /\ config' = config /\ phase' = "polling" /\ shutdown' = FALSE /\ Fault
    BY <1>4 DEF Crash
  <2>5. shutdown' \in BOOLEAN
    BY <2>4, Zenon
  <2> QED
    BY <1>1, <1>2, <2>1, <2>2, <2>3, <2>4, <2>5, TypeRest
<1>5. ASSUME NEW c \in Copy, VisibilityTimeout(c) PROVE TypeOK'
  <2>1. copies' \in Copies
    <3>1. PICK m : m = [copies[c] EXCEPT !.state = "ready"]
      OBVIOUS
    <3>2. m \in Message /\ m.state = "ready"
      BY <1>1, <3>1 DEF TypeOK, Message
    <3>3. copies' = [copies EXCEPT ![c] = m]
      BY <1>1, <1>5, <3>1 DEF VisibilityTimeout, TypeOK, Message
    <3> QED
      BY <1>1, <3>2, <3>3, TypedParts, CopyUpdate
  <2>2. coros' \in [Coro -> Coroutine]
    <3>1. \A k \in Coro : coros[k] \in Coroutine /\ [coros[k] EXCEPT !.live = FALSE] \in Coroutine
      BY <1>1, CoroOutdated DEF TypeOK
    <3> QED
      BY <1>5, <3>1 DEF VisibilityTimeout, Outdated
  <2> QED
    BY <1>1, <1>2, <1>5, <2>1, <2>2, TypeRest DEF VisibilityTimeout, process, fate, TypeOK
<1> QED
  BY <1>3, <1>4, <1>5

LEMMA TypeKept ==
    ASSUME IInv, [Next]_vars
    PROVE  TypeOK'
BY SendTyped, PullTyped, StepTyped, RunTyped, FaultTyped DEF Next

-----------------------------------------------------------------------------
(* What is received and what runs *)

Inside == {"handling", "acking", "nacking", "settling"}

\* A coroutine that starts nothing: it stays, ends or goes on inside the semaphore.
Calm(k) ==
    \/ coros'[k].pc = coros[k].pc
    \/ coros'[k].pc = "free" /\ coros[k].pc # "pulled"
    \/ coros'[k].pc \in Inside /\ coros[k].pc \in Inside

LEMMA CalmBounded ==
    ASSUME Bounded, \A k \in Coro : Calm(k),
           phase' = phase \/ (phase # "receiving" /\ phase' # "receiving")
    PROVE  Bounded'
<1>1. Active' \in SUBSET Active /\ Holding' \in SUBSET Holding /\ Pulled' = Pulled
  BY DEF Active, Holding, Pulled, Calm, Inside
<1>2. Cardinality(Active') <= Cardinality(Active) /\ Cardinality(Holding') <= Cardinality(Holding)
      /\ Cardinality(Active') \in Nat /\ Cardinality(Holding') \in Nat
  BY <1>1, CoroSets, FS_Subset, FS_CardinalityType
<1> QED
  BY <1>1, <1>2, CoroSets, CoroFinite, PollingAssumption DEF Bounded, ActiveBounded

LEMMA StepBounded ==
    ASSUME TypeOK, Bounded, NEW k \in Coro, Step(k)
    PROVE  Bounded'
<1>1. coros \in [Coro -> Coroutine] /\ \A j \in Coro : coros[j] \in Coroutine
  BY DEF TypeOK
<1>2. phase' = phase
  BY DEF Step, Acquire, HandlerReturns, HandlerRaises, Ack, AckFails, Nack, NackFails, Settle, process
<1>3. ASSUME coros[k].pc \in Inside, Ends(k) \/ (coros'[k].pc \in Inside /\ \A j \in Coro \ {k} : coros'[j] = coros[j])
      PROVE  Bounded'
  <2>1. \A j \in Coro : Calm(j)
    BY <1>1, <1>3, Constants DEF Calm, Ends, Inside
  <2> QED
    BY <1>2, <2>1, CalmBounded
<1>4. CASE Acquire(k)
  <2>1. Active' = Active /\ Pulled' = Pulled /\ Holding' = Holding \union {k} /\ k \notin Holding
    BY <1>1, <1>4 DEF Acquire, Goes, Active, Pulled, Holding
  <2>2. Cardinality(Holding') = Cardinality(Holding) + 1
    BY <2>1, CoroSets, FS_AddElement
  <2>3. Cardinality(Holding') <= MaxConcurrent
    BY <1>4, <2>2, CoroSets, PollingAssumption DEF Acquire
  <2> QED
    BY <1>2, <2>1, <2>3 DEF Bounded, ActiveBounded
<1>5. CASE HandlerReturns(k) \/ AckFails(k) \/ \E retryable \in BOOLEAN : HandlerRaises(k, retryable)
  <2>1. coros[k].pc \in Inside
    BY <1>5 DEF HandlerReturns, HandlerRaises, AckFails, Inside
  <2>2. coros'[k].pc \in Inside /\ \A j \in Coro \ {k} : coros'[j] = coros[j]
    BY <1>1, <1>5 DEF HandlerReturns, HandlerRaises, AckFails, Goes, Inside, Coroutine
  <2> QED
    BY <2>1, <2>2, <1>3
<1>6. CASE Ack(k)
  <2>1. coros[k].pc \in Inside
    BY <1>6 DEF Ack, Inside
  <2>2. Ends(k) \/ coros' = [coros EXCEPT ![k].pc = "nacking", ![k].requeue = coros[k].count < MaxAttempts]
    BY <1>6 DEF Ack, MemoryAck, SqsAck, RabbitAck
  <2>3. Ends(k) \/ (coros'[k].pc \in Inside /\ \A j \in Coro \ {k} : coros'[j] = coros[j])
    BY <1>1, <2>2 DEF Coroutine, Inside
  <2> QED
    BY <2>1, <2>3, <1>3
<1>7. CASE NackFails(k) \/ Settle(k)
  BY <1>3, <1>7 DEF NackFails, Settle, Inside
<1>8. CASE Nack(k)
  <2>1. coros[k].pc = "nacking"
    BY <1>8 DEF Nack
  <2>2. \A j \in Coro : coros'[j].pc = coros[j].pc
                        \/ (j = k /\ (coros'[k].pc = "free" \/ coros'[k].pc = "settling"))
    <3>1. CASE Ends(k)
      BY <1>1, <3>1, Constants DEF Ends
    <3>2. CASE Goes(k, "settling")
      BY <1>1, <3>2 DEF Goes, Coroutine
    <3>3. ASSUME NEW c, coros' = [Outdated(c) EXCEPT ![k] = NoCoro]
          PROVE  \A j \in Coro : coros'[j].pc = coros[j].pc \/ (j = k /\ coros'[k].pc = "free")
      <4>1. \A j \in Coro : [coros[j] EXCEPT !.live = FALSE].pc = coros[j].pc
        BY <1>1 DEF Coroutine
      <4>2. \A j \in Coro : Outdated(c)[j].pc = coros[j].pc
        BY <4>1 DEF Outdated
      <4>3. \A j \in Coro : coros'[j] = IF j = k THEN NoCoro ELSE Outdated(c)[j]
        BY <3>3 DEF Outdated
      <4> QED
        BY <4>2, <4>3, Constants
    <3>4. ASSUME NEW d, NEW v, coros' = [coros EXCEPT ![k].pc = "settling", ![k].copy = d, ![k].live = v]
          PROVE  \A j \in Coro : coros'[j].pc = coros[j].pc \/ (j = k /\ coros'[k].pc = "settling")
      BY <1>1, <3>4 DEF Coroutine
    <3>5. CASE MemoryNack(k)
      BY <3>1, <3>5 DEF MemoryNack
    <3>6. CASE SqsNack(k)
      <4>1. Ends(k) \/ Goes(k, "settling") \/ coros' = [Outdated(coros[k].copy) EXCEPT ![k] = NoCoro]
        BY <3>6 DEF SqsNack
      <4> QED
        BY <3>1, <3>2, <3>3, <4>1
    <3>7. CASE RabbitNack(k)
      <4> DEFINE entry == inflight[coros[k].tag]
      <4>1. Ends(k) \/ coros' = [coros EXCEPT ![k].pc = "settling",
                                   ![k].copy = entry.copy, ![k].live = entry.live]
        BY <3>7 DEF RabbitNack
      <4> QED
        BY <3>1, <3>4, <4>1
    <3> QED
      BY <1>8, <3>5, <3>6, <3>7 DEF Nack
  <2>3. \A j \in Coro : Calm(j)
    BY <2>1, <2>2 DEF Calm, Inside
  <2> QED
    BY <1>2, <2>3, CalmBounded
<1> QED
  BY <1>4, <1>5, <1>6, <1>7, <1>8 DEF Step

LEMMA PullBounded ==
    ASSUME TypeOK, Bounded, NEW c \in Copy, Pull(c)
    PROVE  Bounded'
<1> DEFINE k == Min({j \in Coro : coros[j].pc = "free"})
<1>1. k \in Coro /\ coros[k].pc = "free"
  BY FreeCoroutine DEF Pull
<1>2. phase = "receiving" /\ phase' = "receiving" /\ Cardinality(Pulled) < Batch
  BY DEF Pull, process
<1>3. coros'[k].pc = "pulled" /\ \A j \in Coro \ {k} : coros'[j] = coros[j]
  <2> DEFINE x == [pc |-> "pulled", copy |-> c, body |-> copies[c].body,
                   tag |-> IF rabbitmq THEN nextTag ELSE 0,
                   channel |-> IF rabbitmq THEN faults ELSE 0,
                   count |-> ReceiveCount(copies[c]), live |-> TRUE, requeue |-> FALSE]
  <2>1. coros' = [coros EXCEPT ![k] = x] /\ x.pc = "pulled"
    BY DEF Pull
  <2> HIDE DEF k, x
  <2> QED
    BY <1>1, <2>1 DEF TypeOK
<1> HIDE DEF k
<1>4. Active' = Active /\ Holding' = Holding /\ Pulled' = Pulled \union {k} /\ k \notin Pulled
  BY <1>1, <1>3 DEF Active, Holding, Pulled
<1>5. Cardinality(Pulled') = Cardinality(Pulled) + 1
  BY <1>4, CoroSets, FS_AddElement
<1> QED
  BY <1>2, <1>4, <1>5, CoroSets, PollingAssumption DEF Bounded, ActiveBounded

LEMMA RunBounded ==
    ASSUME TypeOK, Bounded, Tick \/ Dispatch \/ ReceiveFails
    PROVE  Bounded'
<1>1. CASE Tick
  <2>1. Active' = Active /\ Holding' = Holding /\ Pulled' = {}
    BY <1>1 DEF Tick, Bounded, Active, Holding, Pulled
  <2> QED
    BY <1>1, <2>1, FS_EmptySet, PollingAssumption DEF Tick, Bounded, ActiveBounded
<1>2. CASE Dispatch
  <2>1. \A k \in Coro : coros'[k].pc = IF k \in Pulled THEN "waiting" ELSE coros[k].pc
    <3>1. \A k \in Coro : [coros[k] EXCEPT !.pc = "waiting"].pc = "waiting"
      BY DEF TypeOK, Coroutine
    <3> QED
      BY <1>2, <3>1 DEF Dispatch
  <2>2. Active' = Active \union Pulled /\ Holding' = Holding /\ Pulled' = {}
        /\ Active \cap Pulled = {}
    BY <2>1 DEF Active, Holding, Pulled
  <2>3. Cardinality(Active \union Pulled)
          = Cardinality(Active) + Cardinality(Pulled) - Cardinality(Active \cap Pulled)
    BY CoroSets, FS_Union
  <2>4. Cardinality(Active \cap Pulled) = 0
    BY <2>2, FS_EmptySet
  <2>5. Cardinality(Active) < 2 * MaxConcurrent /\ Cardinality(Pulled) <= Batch
    BY <1>2 DEF Dispatch, Bounded
  <2>6. Cardinality(Active') <= MaxActive
    BY <2>2, <2>3, <2>4, <2>5, CoroSets, PollingAssumption DEF MaxActive
  <2> QED
    BY <1>2, <2>2, <2>6 DEF Dispatch, Bounded, ActiveBounded
<1>3. CASE ReceiveFails
  <2>1. \A k \in Coro : coros'[k].pc = IF k \in Pulled THEN "free" ELSE coros[k].pc
    BY <1>3, Constants DEF ReceiveFails
  <2>2. Active' = Active /\ Holding' = Holding /\ Pulled' = {}
    BY <2>1 DEF Active, Holding, Pulled
  <2> QED
    BY <1>3, <2>2 DEF ReceiveFails, Bounded, ActiveBounded
<1> QED
  BY <1>1, <1>2, <1>3

LEMMA BoundedKept ==
    ASSUME IInv, [Next]_vars
    PROVE  Bounded'
<1>1. TypeOK /\ Bounded
  BY DEF IInv
<1>2. CASE (\E b \in Body : Send(b)) \/ Leave \/ Drained \/ Signal
           \/ (\E l \in Loops : LoopEnds(l)) \/ UNCHANGED vars
  <2>1. coros' = coros /\ (phase' = phase \/ (phase # "receiving" /\ phase' # "receiving"))
    BY <1>2 DEF Send, Leave, Drained, Signal, LoopEnds, process, vars
  <2> QED
    BY <1>1, <2>1, CalmBounded DEF Calm
<1>3. ASSUME NEW c \in Copy, VisibilityTimeout(c) PROVE Bounded'
  <2>1. \A j \in Coro : [coros[j] EXCEPT !.live = FALSE].pc = coros[j].pc
    BY <1>1 DEF TypeOK, Coroutine
  <2>2. \A j \in Coro : coros'[j].pc = coros[j].pc
    BY <1>3, <2>1 DEF VisibilityTimeout, Outdated
  <2> QED
    BY <1>1, <1>3, <2>2, CalmBounded DEF Calm, VisibilityTimeout, process
<1>4. CASE Reconnect
  <2>1. \A j \in Coro : [coros[j] EXCEPT !.live = FALSE, !.copy = 0].pc = coros[j].pc
    BY <1>1 DEF TypeOK, Coroutine
  <2>2. \A j \in Coro : coros'[j].pc = coros[j].pc
    BY <1>4, <2>1 DEF Reconnect
  <2> QED
    BY <1>1, <1>4, <2>2, CalmBounded DEF Calm, Reconnect, process
<1>5. CASE Crash
  <2>1. phase' = "polling" /\ \A k \in Coro : coros'[k].pc = "free"
    BY <1>5, Constants DEF Crash
  <2>2. Active' = {} /\ Holding' = {} /\ Pulled' = {}
    BY <2>1 DEF Active, Holding, Pulled
  <2> QED
    BY <2>1, <2>2, FS_EmptySet, CoroFinite, PollingAssumption DEF Bounded, ActiveBounded
<1> QED
  BY <1>1, <1>2, <1>3, <1>4, <1>5, StepBounded, PullBounded, RunBounded DEF Next, Run

-----------------------------------------------------------------------------
(* Steps after which the broker holds less: a coroutine goes on or ends,   *)
(* copies are deleted, entries popped.                                     *)

\* The invariant without types and bounds.
Sound ==
    /\ \A c \in Copy : copies[c].state # "free" => copies[c].body \in sent
    /\ Safe
    /\ \A k \in Coro : CoroSound(k)
    /\ memory => MemorySound
    /\ sqs => SqsSound
    /\ rabbitmq => RabbitSound

LEMMA SoundOfIInv == IInv <=> TypeOK /\ Sound /\ Bounded
BY DEF IInv, Sound

\* The coroutine goes on with the same delivery, or is gone.
Stays(k) ==
    \/ coros'[k].pc = "free"
    \/ /\ coros'[k].pc # "free" /\ coros[k].pc # "free"
       /\ coros'[k].copy = coros[k].copy /\ coros'[k].body = coros[k].body
       /\ coros'[k].tag = coros[k].tag /\ coros'[k].channel = coros[k].channel
       /\ coros'[k].count = coros[k].count /\ coros'[k].live = coros[k].live
       /\ coros'[k].pc = "acking" => coros[k].body \in over'
       /\ coros'[k].pc \in {"nacking", "settling"} /\ coros'[k].requeue
            => coros[k].count < MaxAttempts
       /\ coros'[k].pc = "settling"
            => coros[k].pc = "settling" \/ (sqs /\ coros[k].body \in over')

Kept ==
    /\ config' = config /\ sent' = sent /\ faults' = faults /\ nextTag' = nextTag
    /\ over \subseteq over' /\ stolen \subseteq stolen'
    /\ \A t \in Tag : inflight'[t] = inflight[t] \/ inflight'[t] = NoEntry
    /\ \A k \in Coro : Stays(k)

\* Copy c is deleted: its message is done, or it was republished.
Gone(c) ==
    /\ copies'[c] = NoCopy
    /\ \/ copies[c].body \in over'
       \/ \E a \in Body \ {copies[c].body} : <<copies[c].body, a>> \in stolen'
       \/ rabbitmq /\ \E k \in Coro : Target(k) /\ coros[k].copy = c
    /\ memory => \A k \in Coro : coros'[k].pc # "free" => coros'[k].copy # c
    /\ rabbitmq => /\ \A t \in Tag : inflight'[t].live => inflight'[t].copy # c
                   /\ \A k \in Coro : coros'[k].pc = "settling" /\ coros'[k].live
                                        => coros'[k].copy # c

Shrinks == Kept /\ \A c \in Copy : copies'[c] = copies[c] \/ Gone(c)

LEMMA BackendKept ==
    ASSUME config' = config
    PROVE  memory' = memory /\ sqs' = sqs /\ rabbitmq' = rabbitmq
BY DEF memory, sqs, rabbitmq

LEMMA ShrinkSafe ==
    ASSUME TypeOK, Sound, Shrinks
    PROVE  /\ Safe'
           /\ \A c \in Copy : copies'[c].state # "free" => copies'[c].body \in sent'
           /\ \A k \in Coro : CoroSound(k)'
<1>1. config' = config /\ sent' = sent /\ over \subseteq over' /\ stolen \subseteq stolen'
      /\ \A k \in Coro : Stays(k)
  BY DEF Shrinks, Kept
<1>2. Safe'
  <2>1. SUFFICES ASSUME NEW b \in sent
        PROVE  Excused(b)' \/ \E c \in Copy :
                  /\ copies'[c].body = b
                  /\ rabbitmq => \A k \in Coro : ~(Target(k)' /\ coros'[k].copy = c)
    BY <1>1, BackendKept DEF Safe
  <2>2. Excused(b) => Excused(b)'
    BY <1>1 DEF Excused
  <2>3. ASSUME NEW c \in Copy, copies[c].body = b,
               rabbitmq => \A k \in Coro : ~(Target(k) /\ coros[k].copy = c)
        PROVE  Excused(b)' \/ (/\ copies'[c].body = b
                               /\ rabbitmq => \A k \in Coro : ~(Target(k)' /\ coros'[k].copy = c))
    <3>1. CASE Gone(c)
      BY <2>3, <3>1 DEF Gone, Excused
    <3>2. CASE copies'[c] = copies[c]
      <4>1. rabbitmq => \A k \in Coro : Target(k)' /\ coros'[k].copy = c
                                          => Target(k) /\ coros[k].copy = c
        <5>1. SUFFICES ASSUME rabbitmq, NEW k \in Coro, coros'[k].pc = "settling",
                              coros'[k].live, coros'[k].copy = c
              PROVE  coros[k].pc = "settling" /\ coros[k].live /\ coros[k].copy = c
          BY DEF Target
        <5>2. ~sqs
          BY <5>1, OneBackend
        <5> QED
          BY <1>1, <5>1, <5>2 DEF Stays
      <4> QED
        BY <2>3, <3>2, <4>1
    <3> QED
      BY <3>1, <3>2 DEF Shrinks
  <2>4. Excused(b) \/ \E c \in Copy :
            /\ copies[c].body = b
            /\ rabbitmq => \A k \in Coro : ~(Target(k) /\ coros[k].copy = c)
    BY DEF Sound, Safe
  <2> QED
    BY <2>2, <2>3, <2>4
<1>3. \A c \in Copy : copies'[c].state # "free" => copies'[c].body \in sent'
  BY <1>1, Constants DEF Sound, Shrinks, Gone
<1>4. ASSUME NEW k \in Coro PROVE CoroSound(k)'
  <2>1. CoroSound(k) /\ Stays(k)
    BY <1>1 DEF Sound
  <2> QED
    BY <1>1, <2>1 DEF CoroSound, Stays, Runs
<1> QED
  BY <1>2, <1>3, <1>4

LEMMA ShrinkMemory ==
    ASSUME TypeOK, Sound, Shrinks, memory
    PROVE  MemorySound'
<1>1. MemorySound /\ ~sqs /\ \A k \in Coro : Stays(k)
  BY OneBackend DEF Sound, Shrinks, Kept
<1>2. ASSUME NEW k \in Coro, coros'[k].pc # "free"
      PROVE  /\ Runs(k) /\ coros'[k].copy = coros[k].copy /\ coros[k].copy \in Copy
             /\ coros'[k].body = coros[k].body /\ coros'[k].count = coros[k].count
             /\ copies'[coros[k].copy] = copies[coros[k].copy]
             /\ coros'[k].pc # "settling"
  <2>1. /\ Runs(k) /\ coros'[k].copy = coros[k].copy
        /\ coros'[k].body = coros[k].body /\ coros'[k].count = coros[k].count
        /\ coros'[k].pc = "settling" => coros[k].pc = "settling"
    BY <1>1, <1>2 DEF Stays, Runs
  <2>2. coros[k].copy \in Copy /\ coros[k].pc # "settling"
    BY <1>1, <2>1 DEF MemorySound
  <2>3. ~Gone(coros[k].copy)
    BY <1>2, <2>1 DEF Gone
  <2> QED
    BY <2>1, <2>2, <2>3 DEF Shrinks
<1>3. \A k \in Coro : Runs(k)' =>
           /\ coros'[k].pc # "settling" /\ coros'[k].copy \in Copy
           /\ copies'[coros'[k].copy].state = "held"
           /\ copies'[coros'[k].copy].body = coros'[k].body
           /\ copies'[coros'[k].copy].attempt = coros'[k].count
  BY <1>1, <1>2 DEF MemorySound, Runs
<1>4. \A j, k \in Coro : Runs(j)' /\ Runs(k)' /\ j # k => coros'[j].copy # coros'[k].copy
  BY <1>1, <1>2 DEF MemorySound, Runs
<1>5. \A c \in Copy : copies'[c].state # "free" =>
           copies'[c].attempt = copies'[c].fails + 1 /\ copies'[c].fails < MaxAttempts
  BY <1>1, Constants DEF MemorySound, Shrinks, Gone
<1> QED
  BY <1>3, <1>4, <1>5 DEF MemorySound

\* Fewer receives of a copy keep its count ahead.
LEMMA FewerHandles ==
    ASSUME TypeOK, NEW S, S \subseteq Coro, NEW T \in SUBSET S, NEW f \in Nat, NEW a \in Nat,
           f + Cardinality(S) <= a, f + Cardinality(S) < MaxAttempts
    PROVE  f + Cardinality(T) <= a /\ f + Cardinality(T) < MaxAttempts
<1>1. IsFiniteSet(S) /\ IsFiniteSet(T) /\ Cardinality(T) <= Cardinality(S)
  BY CoroFinite, FS_Subset
<1>2. Cardinality(S) \in Nat /\ Cardinality(T) \in Nat
  BY <1>1, FS_CardinalityType
<1> QED
  BY <1>1, <1>2, PollingAssumption

LEMMA ShrinkSqs ==
    ASSUME TypeOK, Sound, Shrinks, sqs
    PROVE  SqsSound'
<1>1. SqsSound /\ over \subseteq over' /\ \A k \in Coro : Stays(k)
  BY DEF Sound, Shrinks, Kept
<1>2. ASSUME NEW k \in Coro, Runs(k)'
      PROVE  coros'[k].copy \in Copy /\ (coros'[k].pc = "settling" => coros'[k].body \in over')
  BY <1>1, <1>2 DEF SqsSound, Stays, Runs
<1>3. ASSUME NEW c \in Copy, copies'[c].state # "free"
      PROVE  /\ copies'[c].fails + Cardinality(Handles(c)') <= copies'[c].attempt
             /\ copies'[c].fails + Cardinality(Handles(c)') < MaxAttempts
  <2>1. copies'[c] = copies[c]
    BY <1>3, Constants DEF Shrinks, Gone
  <2>2. Handles(c)' \in SUBSET Handles(c) /\ Handles(c) \subseteq Coro
    BY <1>1, <2>1 DEF Handles, Stays, Runs
  <2>3. copies[c].fails \in Nat /\ copies[c].attempt \in Nat
    BY MessageParts DEF TypeOK
  <2>4. /\ copies[c].fails + Cardinality(Handles(c)) <= copies[c].attempt
        /\ copies[c].fails + Cardinality(Handles(c)) < MaxAttempts
    BY <1>1, <1>3, <2>1 DEF SqsSound
  <2> QED
    BY <2>1, <2>2, <2>3, <2>4, FewerHandles
<1> QED
  BY <1>2, <1>3 DEF SqsSound

CrossedNext(b) == \E a \in Body : <<b, a>> \in stolen'

LEMMA ShrinkRabbit ==
    ASSUME TypeOK, Sound, Shrinks, rabbitmq
    PROVE  RabbitSound'
<1>1. /\ RabbitSound /\ ~sqs /\ \A k \in Coro : Stays(k)
      /\ stolen \subseteq stolen' /\ faults' = faults /\ nextTag' = nextTag /\ sent' = sent
      /\ \A t \in Tag : inflight'[t] = inflight[t] \/ inflight'[t] = NoEntry
  BY OneBackend DEF Sound, Shrinks, Kept
<1>2. \A b : Crossed(b) => CrossedNext(b)
  BY <1>1 DEF Crossed, CrossedNext
<1>3. ASSUME NEW k \in Coro, Target(k)'
      PROVE  Target(k) /\ coros'[k].copy = coros[k].copy
  BY <1>1, <1>3 DEF Target, Stays
<1>4. ASSUME NEW t \in Tag, inflight'[t].live
      PROVE  inflight'[t] = inflight[t]
  BY <1>1, <1>4, Constants
<1>5. ASSUME NEW k \in Coro PROVE Linked(k)'
  <2>1. SUFFICES ASSUME coros'[k].pc # "free"
        PROVE  /\ coros'[k].tag \in Tag /\ coros'[k].channel <= faults'
               /\ coros'[k].channel = faults' => coros'[k].tag < nextTag'
               /\ inflight'[coros'[k].tag] # NoEntry
                    /\ inflight'[coros'[k].tag].channel = coros'[k].channel =>
                    /\ inflight'[coros'[k].tag].body = coros'[k].body
                    /\ \/ inflight'[coros'[k].tag].fails < coros'[k].count
                       \/ CrossedNext(inflight'[coros'[k].tag].body)
    BY DEF Linked, Runs, Crossed, CrossedNext
  <2>2. /\ Runs(k) /\ coros'[k].tag = coros[k].tag /\ coros'[k].channel = coros[k].channel
        /\ coros'[k].body = coros[k].body /\ coros'[k].count = coros[k].count
    BY <1>1, <2>1 DEF Stays, Runs
  <2>3. Linked(k)
    BY <1>1 DEF RabbitSound
  <2>4. /\ coros[k].tag \in Tag /\ coros[k].channel <= faults
        /\ coros[k].channel = faults => coros[k].tag < nextTag
        /\ inflight[coros[k].tag] # NoEntry
             /\ inflight[coros[k].tag].channel = coros[k].channel =>
             /\ inflight[coros[k].tag].body = coros[k].body
             /\ \/ inflight[coros[k].tag].fails < coros[k].count
                \/ Crossed(inflight[coros[k].tag].body)
    BY <2>2, <2>3 DEF Linked
  <2> QED
    BY <1>1, <1>2, <2>2, <2>4
<1>6. \A t \in Tag : inflight'[t] # NoEntry => inflight'[t].body \in sent'
  BY <1>1 DEF RabbitSound
<1>7. ASSUME NEW t \in Tag, inflight'[t].live
      PROVE  /\ inflight'[t].copy \in Copy /\ copies'[inflight'[t].copy].state = "held"
             /\ copies'[inflight'[t].copy].body = inflight'[t].body
  <2>1. inflight'[t] = inflight[t]
    BY <1>4, <1>7
  <2>2. inflight[t].copy \in Copy /\ ~Gone(inflight[t].copy)
    BY <1>1, <1>7, <2>1 DEF RabbitSound, Gone
  <2>3. copies'[inflight[t].copy] = copies[inflight[t].copy]
    BY <2>2 DEF Shrinks
  <2> QED
    BY <1>1, <1>7, <2>1, <2>3 DEF RabbitSound
<1>8. ASSUME NEW k \in Coro, Target(k)'
      PROVE  coros'[k].copy \in Copy /\ copies'[coros'[k].copy].state = "held"
  <2>1. Target(k) /\ coros'[k].copy = coros[k].copy
    BY <1>3, <1>8
  <2>2. coros[k].copy \in Copy /\ copies[coros[k].copy].state = "held"
    BY <1>1, <2>1 DEF RabbitSound
  <2>3. ~Gone(coros[k].copy)
    BY <1>8, <2>1 DEF Gone, Target
  <2> QED
    BY <2>1, <2>2, <2>3 DEF Shrinks
<1>9. \A t, u \in Tag : inflight'[t].live /\ inflight'[u].live /\ t # u
           => inflight'[t].copy # inflight'[u].copy
  BY <1>1, <1>4 DEF RabbitSound
<1>10. \A t \in Tag, k \in Coro : inflight'[t].live /\ Target(k)'
           => inflight'[t].copy # coros'[k].copy
  BY <1>1, <1>3, <1>4 DEF RabbitSound
<1>11. \A j, k \in Coro : Target(j)' /\ Target(k)' /\ j # k => coros'[j].copy # coros'[k].copy
  BY <1>1, <1>3 DEF RabbitSound
<1>12. ASSUME NEW c \in Copy, copies'[c].state # "free"
       PROVE  \/ CrossedNext(copies'[c].body)
              \/ /\ copies'[c].fails < MaxAttempts
                 /\ copies'[c].fails = 0 \/ copies'[c].fails < copies'[c].attempt
  <2>1. copies'[c] = copies[c]
    BY <1>12, Constants DEF Shrinks, Gone
  <2> QED
    BY <1>1, <1>2, <1>12, <2>1 DEF RabbitSound
<1> QED
  BY <1>5, <1>6, <1>7, <1>8, <1>9, <1>10, <1>11, <1>12 DEF RabbitSound, Crossed, CrossedNext

LEMMA ShrinkSound ==
    ASSUME TypeOK, Sound, Shrinks
    PROVE  Sound'
BY ShrinkSafe, ShrinkMemory, ShrinkSqs, ShrinkRabbit, BackendKept DEF Sound, Shrinks, Kept

LEMMA StaysSame ==
    ASSUME Sound, over \subseteq over', NEW k \in Coro, coros'[k] = coros[k]
    PROVE  Stays(k)
<1>1. CoroSound(k)
  BY DEF Sound
<1> QED
  BY <1>1 DEF CoroSound, Stays, Runs

\* One coroutine does something, the others and the process stay.
LEMMA OneMoves ==
    ASSUME TypeOK, Sound, NEW k \in Coro, Stays(k), \A j \in Coro \ {k} : coros'[j] = coros[j],
           config' = config, sent' = sent, faults' = faults, nextTag' = nextTag,
           over \subseteq over', stolen \subseteq stolen',
           \A t \in Tag : inflight'[t] = inflight[t] \/ inflight'[t] = NoEntry,
           \A c \in Copy : copies'[c] = copies[c] \/ Gone(c)
    PROVE  Sound'
<1>1. \A j \in Coro : Stays(j)
  BY StaysSame
<1> QED
  BY <1>1, ShrinkSound DEF Shrinks, Kept

\* ... and ends.
LEMMA OneEnds ==
    ASSUME TypeOK, NEW k \in Coro, Ends(k)
    PROVE  Stays(k) /\ coros'[k].pc = "free" /\ \A j \in Coro \ {k} : coros'[j] = coros[j]
BY Constants DEF TypeOK, Ends, Stays

LEMMA OneDeleted ==
    ASSUME TypeOK, NEW d, copies' = Deleted(d)
    PROVE  \A c \in Copy : IF c = d THEN copies'[c] = NoCopy ELSE copies'[c] = copies[c]
BY DEF TypeOK, Deleted

\* Another coroutine goes to nack.
LEMMA OneNacks ==
    ASSUME TypeOK, NEW k \in Coro, Runs(k),
           coros' = [coros EXCEPT ![k].pc = "nacking", ![k].requeue = coros[k].count < MaxAttempts]
    PROVE  Stays(k) /\ \A j \in Coro \ {k} : coros'[j] = coros[j]
<1>1. coros[k] \in Coroutine /\ coros \in [Coro -> Coroutine]
  BY DEF TypeOK
<1>2. coros'[k] = [coros[k] EXCEPT !.pc = "nacking", !.requeue = coros[k].count < MaxAttempts]
      /\ \A j \in Coro \ {k} : coros'[j] = coros[j]
  BY <1>1
<1>3. /\ coros'[k].pc = "nacking" /\ coros'[k].requeue = (coros[k].count < MaxAttempts)
      /\ coros'[k].copy = coros[k].copy /\ coros'[k].body = coros[k].body
      /\ coros'[k].tag = coros[k].tag /\ coros'[k].channel = coros[k].channel
      /\ coros'[k].count = coros[k].count /\ coros'[k].live = coros[k].live
  BY <1>1, <1>2 DEF Coroutine
<1> QED
  BY <1>2, <1>3 DEF Stays, Runs

\* A coroutine's pc changes.
LEMMA OneGoes ==
    ASSUME TypeOK, NEW k \in Coro, NEW pc, Goes(k, pc)
    PROVE  /\ coros'[k].pc = pc
           /\ coros'[k].copy = coros[k].copy /\ coros'[k].body = coros[k].body
           /\ coros'[k].tag = coros[k].tag /\ coros'[k].channel = coros[k].channel
           /\ coros'[k].count = coros[k].count /\ coros'[k].live = coros[k].live
           /\ coros'[k].requeue = coros[k].requeue
           /\ \A j \in Coro \ {k} : coros'[j] = coros[j]
<1>1. coros[k] \in Coroutine /\ coros \in [Coro -> Coroutine]
  BY DEF TypeOK
<1>2. coros'[k] = [coros[k] EXCEPT !.pc = pc] /\ \A j \in Coro \ {k} : coros'[j] = coros[j]
  BY <1>1 DEF Goes
<1> QED
  BY <1>1, <1>2 DEF Coroutine

LEMMA OnePops ==
    ASSUME TypeOK, NEW k, Pop(k)
    PROVE  \A t \in Tag : IF t = coros[k].tag THEN inflight'[t] = NoEntry
                                              ELSE inflight'[t] = inflight[t]
BY DEF TypeOK, Pop

LEMMA HandlerSound ==
    ASSUME TypeOK, Sound, NEW k \in Coro,
           Acquire(k) \/ HandlerReturns(k) \/ \E retryable \in BOOLEAN : HandlerRaises(k, retryable)
    PROVE  Sound'
<1>1. config' = config /\ sent' = sent /\ faults' = faults /\ nextTag' = nextTag
      /\ over \subseteq over' /\ stolen' = stolen /\ inflight' = inflight /\ copies' = copies
  BY DEF Acquire, HandlerReturns, HandlerRaises, process, broker, fate
<1>2. CASE Acquire(k)
  <2>1. Goes(k, "handling") /\ coros[k].pc # "free"
    BY <1>2 DEF Acquire
  <2> QED
    BY <1>1, <2>1, OneGoes, OneMoves DEF Stays
<1>3. CASE HandlerReturns(k)
  <2>1. Goes(k, "acking") /\ coros[k].pc # "free" /\ coros[k].body \in over'
    BY <1>3 DEF HandlerReturns
  <2> QED
    BY <1>1, <2>1, OneGoes, OneMoves DEF Stays
<1>4. ASSUME NEW retryable \in BOOLEAN, HandlerRaises(k, retryable) PROVE Sound'
  <2>1. coros[k] \in Coroutine /\ coros \in [Coro -> Coroutine]
    BY DEF TypeOK
  <2>2. coros'[k] = [coros[k] EXCEPT !.pc = "nacking", !.requeue = Requeue(k, retryable)]
        /\ \A j \in Coro \ {k} : coros'[j] = coros[j]
    BY <1>4, <2>1 DEF HandlerRaises
  <2>3. /\ coros'[k].pc = "nacking" /\ coros'[k].requeue = Requeue(k, retryable)
        /\ coros'[k].copy = coros[k].copy /\ coros'[k].body = coros[k].body
        /\ coros'[k].tag = coros[k].tag /\ coros'[k].channel = coros[k].channel
        /\ coros'[k].count = coros[k].count /\ coros'[k].live = coros[k].live
    BY <2>1, <2>2 DEF Coroutine
  <2>4. coros'[k].requeue => coros[k].count < MaxAttempts
    BY <2>3 DEF Requeue
  <2>5. coros[k].pc # "free"
    BY <1>4 DEF HandlerRaises
  <2>6. Stays(k)
    BY <2>3, <2>4, <2>5 DEF Stays
  <2> QED
    BY <1>1, <2>2, <2>6, OneMoves
<1> QED
  BY <1>2, <1>3, <1>4

LEMMA FailsSound ==
    ASSUME TypeOK, Sound, NEW k \in Coro, AckFails(k) \/ NackFails(k)
    PROVE  Sound'
<1>1. config' = config /\ sent' = sent /\ faults' = faults /\ nextTag' = nextTag
      /\ over' = over /\ stolen' = stolen /\ copies' = copies
  BY DEF AckFails, NackFails, process, fate
<1>2. \A t \in Tag : inflight'[t] = inflight[t] \/ inflight'[t] = NoEntry
  BY OnePops DEF AckFails, NackFails
<1>3. Stays(k) /\ \A j \in Coro \ {k} : coros'[j] = coros[j]
  BY OneEnds, OneNacks DEF AckFails, NackFails, Runs
<1> QED
  BY <1>1, <1>2, <1>3, OneMoves

\* The only coroutine with a message of the in-memory queue lets it go.
LEMMA MemoryGone ==
    ASSUME TypeOK, Sound, memory, NEW k \in Coro, Runs(k), Ends(k), over \subseteq over',
           coros[k].body \in over', NEW c \in Copy, c = coros[k].copy, copies'[c] = NoCopy
    PROVE  Gone(c)
<1>1. MemorySound /\ ~rabbitmq
  BY OneBackend DEF Sound
<1>2. copies[c].body = coros[k].body
  BY <1>1 DEF MemorySound
<1>3. \A j \in Coro : coros'[j].pc # "free" => coros'[j].copy # c
  BY <1>1, OneEnds DEF MemorySound, Runs
<1> QED
  BY <1>1, <1>2, <1>3 DEF Gone

\* An SQS message that is done is deleted.
LEMMA SqsGone ==
    ASSUME TypeOK, Sound, sqs, NEW k \in Coro, Reaches(k), coros[k].body \in over',
           NEW c \in Copy, c = coros[k].copy, copies'[c] = NoCopy
    PROVE  Gone(c)
BY OneBackend DEF Gone, Reaches

\* A live RabbitMQ delivery is acknowledged or rejected by the coroutine that
\* pops its entry and ends.
LEMMA RabbitGone ==
    ASSUME TypeOK, Sound, rabbitmq, NEW k \in Coro, Runs(k), Ends(k), Pop(k),
           NEW entry, entry = inflight[coros[k].tag], entry.live,
           over \subseteq over',
           \/ entry.body \in over'
           \/ \E a \in Body \ {entry.body} : <<entry.body, a>> \in stolen',
           NEW c \in Copy, c = entry.copy, copies'[c] = NoCopy
    PROVE  Gone(c)
<1>1. RabbitSound /\ ~memory /\ coros[k].tag \in Tag
  BY OneBackend DEF Sound, RabbitSound, Linked
<1>2. copies[c].body = entry.body
  BY <1>1 DEF RabbitSound
<1>3. \A t \in Tag : inflight'[t].live => inflight'[t].copy # c
  BY <1>1, OnePops, Constants DEF RabbitSound
<1>4. \A j \in Coro : coros'[j].pc = "settling" /\ coros'[j].live => coros'[j].copy # c
  BY <1>1, OneEnds DEF RabbitSound, Target
<1> QED
  BY <1>1, <1>2, <1>3, <1>4 DEF Gone

LEMMA AckSound ==
    ASSUME TypeOK, Sound, NEW k \in Coro, Ack(k)
    PROVE  Sound'
<1>1. config' = config /\ sent' = sent /\ faults' = faults /\ over' = over
      /\ coros[k].pc = "acking" /\ Runs(k)
  BY DEF Ack, process, Runs
<1>2. coros[k].body \in over
  BY <1>1 DEF Sound, CoroSound
<1>3. CASE MemoryAck(k)
  <2>1. Ends(k) /\ copies' = Deleted(coros[k].copy) /\ memory
        /\ inflight' = inflight /\ nextTag' = nextTag /\ stolen' = stolen
    BY <1>3 DEF MemoryAck
  <2>2. \A c \in Copy : copies'[c] = copies[c] \/ Gone(c)
    BY <1>1, <1>2, <2>1, OneDeleted, MemoryGone
  <2> QED
    BY <1>1, <2>1, <2>2, OneEnds, OneMoves
<1>4. CASE SqsAck(k)
  <2>1. Ends(k) /\ sqs /\ inflight' = inflight /\ nextTag' = nextTag /\ stolen' = stolen
        /\ (copies' = copies \/ (Reaches(k) /\ copies' = Deleted(coros[k].copy)))
    BY <1>4 DEF SqsAck, Honoured
  <2>2. \A c \in Copy : copies'[c] = copies[c] \/ Gone(c)
    BY <1>1, <1>2, <2>1, OneDeleted, SqsGone
  <2> QED
    BY <1>1, <2>1, <2>2, OneEnds, OneMoves
<1>5. CASE RabbitAck(k)
  <2> DEFINE entry == inflight[coros[k].tag]
  <2>1. rabbitmq /\ Pop(k) /\ nextTag' = nextTag
    BY <1>5 DEF RabbitAck
  <2>2. \A t \in Tag : inflight'[t] = inflight[t] \/ inflight'[t] = NoEntry
    BY <2>1, OnePops
  <2>3. CASE entry = NoEntry /\ Ends(k) /\ copies' = copies /\ stolen' = stolen
    BY <1>1, <2>1, <2>2, <2>3, OneEnds, OneMoves
  <2>4. CASE /\ entry # NoEntry /\ entry.live /\ copies' = Deleted(entry.copy)
             /\ stolen' = Stolen(k, entry) /\ Ends(k)
    <3>1. \/ entry.body \in over'
          \/ \E a \in Body \ {entry.body} : <<entry.body, a>> \in stolen'
      <4>1. CASE entry.channel = coros[k].channel
        <5>1. Linked(k)
          BY <2>1 DEF Sound, RabbitSound
        <5>2. entry.body = coros[k].body
          BY <1>1, <2>4, <4>1, <5>1 DEF Linked
        <5> QED
          BY <1>1, <1>2, <5>2
      <4>2. CASE entry.channel # coros[k].channel
        <5>1. <<entry.body, coros[k].body>> \in stolen'
          BY <2>4, <4>2 DEF Stolen
        <5>2. coros[k].body \in Body
          BY <1>2 DEF TypeOK
        <5> QED
          BY <1>1, <1>2, <5>1, <5>2
      <4> QED
        BY <4>1, <4>2
    <3>2. stolen \subseteq stolen'
      BY <2>4 DEF Stolen
    <3>3. \A c \in Copy : copies'[c] = copies[c] \/ Gone(c)
      <4>1. SUFFICES ASSUME NEW c \in Copy, copies'[c] # copies[c] PROVE Gone(c)
        OBVIOUS
      <4>2. c = entry.copy /\ copies'[c] = NoCopy
        BY <2>4, <4>1, OneDeleted
      <4> QED
        BY <1>1, <2>1, <2>4, <3>1, <4>2, RabbitGone
    <3> QED
      BY <1>1, <2>1, <2>2, <2>4, <3>2, <3>3, OneEnds, OneMoves
  <2>5. CASE /\ coros' = [coros EXCEPT ![k].pc = "nacking",
                                       ![k].requeue = coros[k].count < MaxAttempts]
             /\ copies' = copies /\ stolen' = stolen
    BY <1>1, <2>1, <2>2, <2>5, OneNacks, OneMoves
  <2> QED
    BY <1>5, <2>3, <2>4, <2>5 DEF RabbitAck
<1> QED
  BY <1>3, <1>4, <1>5 DEF Ack

LEMMA SettleSound ==
    ASSUME TypeOK, Sound, NEW k \in Coro, Settle(k)
    PROVE  Sound'
<1>1. config' = config /\ sent' = sent /\ faults' = faults /\ over' = over /\ stolen' = stolen
      /\ inflight' = inflight /\ nextTag' = nextTag /\ coros[k].pc = "settling" /\ Runs(k) /\ Ends(k)
  BY DEF Settle, process, fate, Runs
<1>2. CASE sqs
  <2>1. copies' = copies \/ (Reaches(k) /\ copies' = Deleted(coros[k].copy))
    BY <1>2 DEF Settle, Honoured
  <2>2. coros[k].body \in over
    BY <1>1, <1>2 DEF Sound, SqsSound
  <2>3. \A c \in Copy : copies'[c] = copies[c] \/ Gone(c)
    BY <1>1, <1>2, <2>1, <2>2, OneDeleted, SqsGone
  <2> QED
    BY <1>1, <2>3, OneEnds, OneMoves
<1>3. CASE rabbitmq
  <2>1. Target(k) /\ copies' = Deleted(coros[k].copy) /\ ~memory
    BY <1>1, <1>3, OneBackend DEF Settle, Target
  <2>2. RabbitSound
    BY <1>3 DEF Sound
  <2>3. ASSUME NEW c \in Copy, c = coros[k].copy, copies'[c] = NoCopy PROVE Gone(c)
    <3>1. \A t \in Tag : inflight'[t].live => inflight'[t].copy # c
      BY <1>1, <2>1, <2>2, <2>3 DEF RabbitSound
    <3>2. \A j \in Coro : coros'[j].pc = "settling" /\ coros'[j].live => coros'[j].copy # c
      BY <1>1, <2>1, <2>2, <2>3, OneEnds DEF RabbitSound, Target
    <3> QED
      BY <1>3, <2>1, <2>3, <3>1, <3>2 DEF Gone
  <2>4. \A c \in Copy : copies'[c] = copies[c] \/ Gone(c)
    BY <2>1, <2>3, OneDeleted
  <2> QED
    BY <1>1, <2>4, OneEnds, OneMoves
<1>4. ~memory
  BY <1>1 DEF Sound, MemorySound
<1> QED
  BY <1>2, <1>3, <1>4, OneBackend

LEMMA RunSound ==
    ASSUME TypeOK, Sound,
           Tick \/ Run \/ Signal \/ (\E l \in Loops : LoopEnds(l)) \/ UNCHANGED vars
    PROVE  Sound'
<1>1. config' = config /\ sent' = sent /\ faults' = faults /\ nextTag' = nextTag
      /\ over' = over /\ stolen' = stolen /\ inflight' = inflight /\ copies' = copies
  BY DEF Tick, Run, Leave, Dispatch, ReceiveFails, Drained, Signal, LoopEnds, broker, fate, vars
<1>2. \A k \in Coro : Stays(k)
  <2>1. TAKE k \in Coro
  <2>2. CASE coros' = coros
    BY <1>1, <2>2, StaysSame
  <2>3. CASE Dispatch
    <3>1. CASE k \in Pulled
      <4>1. coros[k] \in Coroutine /\ coros'[k] = [coros[k] EXCEPT !.pc = "waiting"]
            /\ coros[k].pc = "pulled"
        BY <2>3, <3>1 DEF Dispatch, TypeOK, Pulled
      <4>2. /\ coros'[k].pc = "waiting"
            /\ coros'[k].copy = coros[k].copy /\ coros'[k].body = coros[k].body
            /\ coros'[k].tag = coros[k].tag /\ coros'[k].channel = coros[k].channel
            /\ coros'[k].count = coros[k].count /\ coros'[k].live = coros[k].live
        BY <4>1 DEF Coroutine
      <4> QED
        BY <4>1, <4>2 DEF Stays
    <3>2. CASE k \notin Pulled
      BY <1>1, <2>3, <3>2, StaysSame DEF Dispatch
    <3> QED
      BY <3>1, <3>2
  <2>4. CASE ReceiveFails
    BY <1>1, <2>4, StaysSame, Constants DEF ReceiveFails, Stays
  <2> QED
    BY <2>2, <2>3, <2>4 DEF Tick, Run, Leave, Drained, Signal, LoopEnds, vars
<1> QED
  BY <1>1, <1>2, ShrinkSound DEF Shrinks, Kept

-----------------------------------------------------------------------------
(* Steps that put a message back or receive it *)

\* With the same bodies in the same copies, and no more of them about to be
\* acknowledged, every message is still there.
LEMMA SameBodiesSafe ==
    ASSUME TypeOK, Safe, config' = config, sent' = sent, over \subseteq over', stolen \subseteq stolen',
           \A c \in Copy : copies[c].state # "free" => copies'[c].body = copies[c].body,
           rabbitmq => \A k \in Coro : coros'[k].pc = "settling" /\ coros'[k].live
                                         => Target(k) /\ coros'[k].copy = coros[k].copy
    PROVE  Safe'
<1>1. SUFFICES ASSUME NEW b \in sent
      PROVE  Excused(b)' \/ \E c \in Copy :
                /\ copies'[c].body = b
                /\ rabbitmq => \A k \in Coro : ~(Target(k)' /\ coros'[k].copy = c)
  BY BackendKept DEF Safe
<1>2. Excused(b) => Excused(b)'
  BY DEF Excused
<1>3. \A k \in Coro : rabbitmq /\ Target(k)' => Target(k) /\ coros'[k].copy = coros[k].copy
  BY DEF Target
<1>4. \A c \in Copy : copies[c].body = b => copies'[c].body = b
  BY Constants DEF TypeOK
<1>5. Excused(b) \/ \E c \in Copy :
          /\ copies[c].body = b
          /\ rabbitmq => \A k \in Coro : ~(Target(k) /\ coros[k].copy = c)
  BY DEF Safe
<1> QED
  BY <1>2, <1>3, <1>4, <1>5

\* One copy is changed and keeps its body.
LEMMA MemoryRequeueSound ==
    ASSUME TypeOK, Sound, NEW k \in Coro, Nack(k), MemoryNack(k), coros[k].requeue
    PROVE  Sound'
<1> DEFINE c == coros[k].copy
<1>1. config' = config /\ sent' = sent /\ faults' = faults /\ nextTag' = nextTag /\ over' = over
      /\ stolen' = stolen /\ inflight' = inflight /\ coros[k].pc = "nacking" /\ Runs(k) /\ Ends(k)
      /\ memory /\ ~sqs /\ ~rabbitmq
  BY OneBackend DEF Nack, MemoryNack, process, Runs
<1>2. memory' /\ ~sqs' /\ ~rabbitmq'
  BY <1>1, BackendKept
<1>3. MemorySound /\ CoroSound(k) /\ \A j \in Coro : CoroSound(j)
  BY <1>1 DEF Sound
<1>4. c \in Copy /\ copies[c] \in Message /\ copies[c].state = "held"
      /\ copies[c].attempt = coros[k].count /\ coros[k].count < MaxAttempts
  BY <1>1, <1>3 DEF MemorySound, CoroSound, TypeOK
<1>5. /\ \A d \in Copy \ {c} : copies'[d] = copies[d]
      /\ copies'[c].state = "ready" /\ copies'[c].body = copies[c].body
      /\ copies'[c].attempt = copies[c].attempt + 1 /\ copies'[c].fails = copies[c].fails + 1
  <2>1. copies' = [copies EXCEPT ![c].state = "ready", ![c].attempt = @ + 1, ![c].fails = @ + 1]
    BY DEF MemoryNack
  <2>2. /\ \A d \in Copy \ {c} : copies'[d] = copies[d]
        /\ copies'[c] = [copies[c] EXCEPT !.state = "ready", !.attempt = @ + 1, !.fails = @ + 1]
    BY <1>4, <2>1 DEF TypeOK, Message
  <2> QED
    BY <1>4, <2>2 DEF Message
<1>6. coros'[k].pc = "free" /\ \A j \in Coro \ {k} : coros'[j] = coros[j]
  BY <1>1, OneEnds
<1>7. Safe'
  BY <1>1, <1>5, SameBodiesSafe DEF Sound
<1>8. \A d \in Copy : copies'[d].state # "free" => copies'[d].body \in sent'
  BY <1>1, <1>4, <1>5 DEF Sound
<1>9. \A j \in Coro : CoroSound(j)'
  BY <1>1, <1>3, <1>6 DEF CoroSound, Runs
<1>10. MemorySound'
  <2>1. ASSUME NEW j \in Coro, Runs(j)'
        PROVE  /\ coros'[j].pc # "settling" /\ coros'[j].copy \in Copy
               /\ copies'[coros'[j].copy].state = "held"
               /\ copies'[coros'[j].copy].body = coros'[j].body
               /\ copies'[coros'[j].copy].attempt = coros'[j].count
    <3>1. j # k /\ coros'[j] = coros[j] /\ Runs(j)
      BY <1>6, <2>1 DEF Runs
    <3>2. coros[j].copy # c /\ coros[j].copy \in Copy
      BY <1>1, <1>3, <3>1 DEF MemorySound
    <3>3. copies'[coros[j].copy] = copies[coros[j].copy]
      BY <1>5, <3>2
    <3> QED
      BY <1>3, <3>1, <3>3 DEF MemorySound
  <2>2. \A i, j \in Coro : Runs(i)' /\ Runs(j)' /\ i # j => coros'[i].copy # coros'[j].copy
    BY <1>3, <1>6 DEF MemorySound, Runs
  <2>3. ASSUME NEW d \in Copy, copies'[d].state # "free"
        PROVE  copies'[d].attempt = copies'[d].fails + 1 /\ copies'[d].fails < MaxAttempts
    <3>1. CASE d = c
      <4>1. copies[c].attempt = copies[c].fails + 1 /\ copies[c].fails \in Nat /\ copies[c].attempt \in Nat
        BY <1>3, <1>4, MessageParts DEF MemorySound
      <4> QED
        BY <1>4, <1>5, <3>1, <4>1, PollingAssumption
    <3>2. CASE d # c
      BY <1>3, <1>5, <2>3, <3>2 DEF MemorySound
    <3> QED
      BY <3>1, <3>2
  <2> QED
    BY <2>1, <2>2, <2>3 DEF MemorySound
<1> QED
  BY <1>2, <1>7, <1>8, <1>9, <1>10 DEF Sound

\* What outdating the handles of a copy leaves alone.
LEMMA OutdatedKeeps ==
    ASSUME TypeOK, NEW c, NEW j \in Coro
    PROVE  /\ Outdated(c)[j].pc = coros[j].pc /\ Outdated(c)[j].copy = coros[j].copy
           /\ Outdated(c)[j].body = coros[j].body /\ Outdated(c)[j].count = coros[j].count
           /\ Outdated(c)[j].requeue = coros[j].requeue
<1>1. coros[j] \in Coroutine
  BY DEF TypeOK
<1>2. Outdated(c)[j] = coros[j] \/ Outdated(c)[j] = [coros[j] EXCEPT !.live = FALSE]
  BY DEF Outdated
<1> QED
  BY <1>1, <1>2 DEF Coroutine

\* What putting a message back leaves alone.
LEMMA PutBack ==
    ASSUME NEW m \in Message, NEW r, r = [m EXCEPT !.state = "ready", !.fails = @ + 1]
    PROVE  /\ r.state = "ready" /\ r.body = m.body /\ r.attempt = m.attempt
           /\ r.fails = m.fails + 1
BY DEF Message

PutsBack(k, c) ==
    /\ copies' = [copies EXCEPT ![c].state = "ready", ![c].fails = @ + 1]
    /\ coros' = [Outdated(c) EXCEPT ![k] = NoCoro]

LEMMA SqsRequeueSound ==
    ASSUME TypeOK, Sound, NEW k \in Coro, Nack(k), SqsNack(k), coros[k].requeue, Reaches(k),
           NEW c, c = coros[k].copy, PutsBack(k, c)
    PROVE  Sound'
<1>1. config' = config /\ sent' = sent /\ over' = over
      /\ stolen' = stolen /\ coros[k].pc = "nacking" /\ Runs(k) /\ sqs /\ ~memory /\ ~rabbitmq
  BY OneBackend DEF Nack, SqsNack, process, Runs
<1>2. sqs' /\ ~memory' /\ ~rabbitmq'
  BY <1>1, BackendKept
<1>3. SqsSound /\ CoroSound(k)
  BY <1>1 DEF Sound
<1>4. coros[k].body \in sent /\ coros[k].count < MaxAttempts /\ c \in Copy /\ copies[c] \in Message
      /\ copies[c].body = coros[k].body /\ copies[c].state # "free"
  <2>1. coros[k].body \in sent /\ coros[k].count < MaxAttempts /\ c \in Copy
        /\ copies[c].body = coros[k].body
    BY <1>1, <1>3 DEF SqsSound, CoroSound, Reaches
  <2>2. copies[c] \in Message /\ sent \subseteq Body /\ (copies[c].state = "free" => copies[c] = NoCopy)
    BY <2>1 DEF TypeOK
  <2> QED
    BY <2>1, <2>2, Constants
<1>5. /\ \A d \in Copy \ {c} : copies'[d] = copies[d]
      /\ copies'[c].state = "ready" /\ copies'[c].body = copies[c].body
      /\ copies'[c].attempt = copies[c].attempt /\ copies'[c].fails = copies[c].fails + 1
  <2>1. /\ \A d \in Copy \ {c} : copies'[d] = copies[d]
        /\ copies'[c] = [copies[c] EXCEPT !.state = "ready", !.fails = @ + 1]
    BY <1>4 DEF TypeOK, PutsBack
  <2>2. /\ copies'[c].state = "ready" /\ copies'[c].body = copies[c].body
        /\ copies'[c].attempt = copies[c].attempt /\ copies'[c].fails = copies[c].fails + 1
    <3> DEFINE m == copies[c]
    <3>1. m \in Message
      BY <1>4
    <3>2. PICK r : r = copies'[c]
      OBVIOUS
    <3>3. r = [m EXCEPT !.state = "ready", !.fails = @ + 1]
      BY <2>1, <3>2
    <3> HIDE DEF m
    <3>4. /\ r.state = "ready" /\ r.body = m.body /\ r.attempt = m.attempt
          /\ r.fails = m.fails + 1
      BY ONLY <3>1, <3>3, PutBack
    <3> QED
      BY <3>2, <3>4 DEF m
  <2> QED
    BY <2>1, <2>2
<1>6. coros'[k].pc = "free" /\ \A j \in Coro \ {k} : coros'[j] = Outdated(c)[j]
  BY Constants DEF Outdated, PutsBack
<1>7. \A j \in Coro \ {k} :
          /\ coros'[j].pc = coros[j].pc /\ coros'[j].copy = coros[j].copy
          /\ coros'[j].body = coros[j].body /\ coros'[j].count = coros[j].count
          /\ coros'[j].requeue = coros[j].requeue
  BY <1>6, OutdatedKeeps
<1>8. Safe'
  BY <1>1, <1>5, SameBodiesSafe DEF Sound
<1>9. ASSUME NEW d \in Copy, copies'[d].state # "free" PROVE copies'[d].body \in sent'
  <2>1. CASE d = c
    BY <1>1, <1>4, <1>5, <2>1
  <2>2. CASE d # c
    <3>1. copies'[d] = copies[d]
      BY <1>5, <2>2
    <3>2. copies[d].state # "free" => copies[d].body \in sent
      BY DEF Sound
    <3> QED
      BY <1>1, <1>9, <3>1, <3>2
  <2> QED
    BY <2>1, <2>2
<1>10. ASSUME NEW j \in Coro PROVE CoroSound(j)'
  <2>1. CoroSound(j)
    BY DEF Sound
  <2> QED
    BY <1>1, <1>6, <1>7, <2>1 DEF CoroSound, Runs
<1>11. SqsSound'
  <2>1. ASSUME NEW j \in Coro, Runs(j)'
        PROVE  coros'[j].copy \in Copy /\ (coros'[j].pc = "settling" => coros'[j].body \in over')
    BY <1>1, <1>3, <1>6, <1>7, <2>1 DEF SqsSound, Runs
  <2>2. ASSUME NEW d \in Copy, copies'[d].state # "free"
        PROVE  /\ copies'[d].fails + Cardinality(Handles(d)') <= copies'[d].attempt
               /\ copies'[d].fails + Cardinality(Handles(d)') < MaxAttempts
    <3>0. copies[d].fails \in Nat /\ copies[d].attempt \in Nat
      BY MessageParts DEF TypeOK
    <3>1. CASE d = c
      <4>1. k \in Handles(c) /\ Handles(c)' \in SUBSET (Handles(c) \ {k}) /\ Handles(c) \in SUBSET Coro
        BY <1>1, <1>4, <1>5, <1>6, <1>7 DEF Handles, Runs
      <4>2. IsFiniteSet(Handles(c))
        BY <4>1, CoroFinite, FS_Subset
      <4>3. IsFiniteSet(Handles(c) \ {k}) /\ Cardinality(Handles(c) \ {k}) = Cardinality(Handles(c)) - 1
        BY <4>1, <4>2, FS_RemoveElement
      <4>4. IsFiniteSet(Handles(c)') /\ Cardinality(Handles(c)') <= Cardinality(Handles(c) \ {k})
        BY <4>1, <4>3, FS_Subset
      <4>5. Cardinality(Handles(c)) \in Nat /\ Cardinality(Handles(c)') \in Nat
        BY <4>2, <4>4, FS_CardinalityType
      <4>6. /\ copies[c].fails + Cardinality(Handles(c)) <= copies[c].attempt
            /\ copies[c].fails + Cardinality(Handles(c)) < MaxAttempts
        BY <1>3, <1>4 DEF SqsSound
      <4> QED
        BY <1>5, <3>0, <3>1, <4>3, <4>4, <4>5, <4>6, PollingAssumption
    <3>2. CASE d # c
      <4>1. copies'[d] = copies[d]
        BY <1>5, <3>2
      <4>2. Handles(d)' \in SUBSET Handles(d) /\ Handles(d) \subseteq Coro
        BY <1>6, <1>7, <4>1 DEF Handles, Runs
      <4>3. /\ copies[d].fails + Cardinality(Handles(d)) <= copies[d].attempt
            /\ copies[d].fails + Cardinality(Handles(d)) < MaxAttempts
        BY <1>3, <2>2, <4>1 DEF SqsSound
      <4> QED
        BY <3>0, <4>1, <4>2, <4>3, FewerHandles
    <3> QED
      BY <3>1, <3>2
  <2> QED
    BY <2>1, <2>2 DEF SqsSound
<1> QED
  BY <1>2, <1>8, <1>9, <1>10, <1>11 DEF Sound

\* RabbitMQ: the body is published again, and coroutine k is about to
\* acknowledge the original.
Republishes(k, entry) ==
    /\ copies' = Republished(k, entry)
    /\ coros' = [coros EXCEPT ![k].pc = "settling", ![k].copy = entry.copy, ![k].live = entry.live]
    /\ stolen' = Stolen(k, entry)
    /\ Pop(k)

LEMMA RabbitRequeueSound ==
    ASSUME TypeOK, Sound, NEW k \in Coro, coros[k].pc = "nacking", coros[k].requeue, rabbitmq,
           NEW entry, entry = inflight[coros[k].tag], entry # NoEntry, Free # {},
           Republishes(k, entry), over' = over,
           config' = config, sent' = sent, faults' = faults, nextTag' = nextTag
    PROVE  Sound'
<1> DEFINE f == Min(Free)
<1>1. rabbitmq' /\ ~memory' /\ ~sqs' /\ RabbitSound /\ Runs(k) /\ CoroSound(k) /\ Linked(k)
  BY OneBackend, BackendKept DEF Sound, RabbitSound, Runs
<1>2. coros[k].tag \in Tag /\ coros[k].body \in sent /\ coros[k].count < MaxAttempts
      /\ entry.body \in sent /\ entry \in Entry
  BY <1>1 DEF Linked, CoroSound, RabbitSound, TypeOK
<1>3. f \in Copy /\ copies[f].state = "free"
  <2>1. Free \subseteq Nat
    BY CoroFinite DEF Free
  <2>2. f \in Free
    BY <2>1, LeastChosen
  <2> QED
    BY <2>2 DEF Free
<1> HIDE DEF f
<1>4. /\ \A c \in Copy \ {f} : copies'[c] = copies[c]
      /\ copies'[f].state = "ready" /\ copies'[f].body = entry.body
      /\ copies'[f].attempt = coros[k].count + 1 /\ copies'[f].fails = entry.fails + 1
  <2>1. PICK m : m = [state |-> "ready", body |-> entry.body, attempt |-> coros[k].count + 1,
                      redelivered |-> FALSE, fails |-> entry.fails + 1]
    OBVIOUS
  <2>2. copies' = [copies EXCEPT ![f] = m]
    BY <2>1 DEF Republishes, Republished, f
  <2>3. copies'[f] = m /\ \A c \in Copy \ {f} : copies'[c] = copies[c]
    BY <1>3, <2>2 DEF TypeOK
  <2> QED
    BY <2>1, <2>3
<1>5. \A t \in Tag : IF t = coros[k].tag THEN inflight'[t] = NoEntry ELSE inflight'[t] = inflight[t]
  BY OnePops DEF Republishes
<1>6. /\ \A j \in Coro \ {k} : coros'[j] = coros[j]
      /\ coros'[k].pc = "settling" /\ coros'[k].copy = entry.copy /\ coros'[k].live = entry.live
      /\ coros'[k].body = coros[k].body /\ coros'[k].tag = coros[k].tag
      /\ coros'[k].channel = coros[k].channel /\ coros'[k].count = coros[k].count
  <2>1. coros[k] \in Coroutine /\ coros \in [Coro -> Coroutine]
    BY DEF TypeOK
  <2>2. /\ \A j \in Coro \ {k} : coros'[j] = coros[j]
        /\ coros'[k] = [coros[k] EXCEPT !.pc = "settling", !.copy = entry.copy, !.live = entry.live]
    BY <2>1 DEF Republishes
  <2>3. coros'[k].pc = "settling" /\ coros'[k].copy = entry.copy
        /\ coros'[k].body = coros[k].body /\ coros'[k].tag = coros[k].tag
    BY <2>1, <2>2 DEF Coroutine
  <2>4. coros'[k].channel = coros[k].channel /\ coros'[k].count = coros[k].count
    BY <2>1, <2>2 DEF Coroutine
  <2>5. coros'[k].live = entry.live
    BY <2>1, <2>2, Zenon DEF Coroutine
  <2> QED
    BY <2>2, <2>3, <2>4, <2>5
<1>7. stolen \subseteq stolen'
  BY DEF Republishes, Stolen
<1>8. \A b : Crossed(b) => CrossedNext(b)
  BY <1>7 DEF Crossed, CrossedNext
<1>9. entry.live => /\ entry.copy \in Copy /\ copies[entry.copy].state = "held"
                    /\ copies[entry.copy].body = entry.body
  BY <1>1, <1>2 DEF RabbitSound
<1>10. \A j \in Coro : Target(j) => coros[j].copy \in Copy /\ copies[coros[j].copy].state = "held"
  BY <1>1 DEF RabbitSound
<1>11. ASSUME NEW j \in Coro, Target(j)'
       PROVE  \/ j = k /\ coros'[j].copy = entry.copy /\ entry.live
              \/ j # k /\ Target(j) /\ coros'[j].copy = coros[j].copy
  BY <1>6, <1>11 DEF Target
<1>12. Safe'
  <2>1. SUFFICES ASSUME NEW b \in sent
        PROVE  Excused(b)' \/ \E c \in Copy :
                  copies'[c].body = b /\ \A j \in Coro : ~(Target(j)' /\ coros'[j].copy = c)
    BY <1>1 DEF Safe
  <2>2. Excused(b) => Excused(b)'
    BY <1>7 DEF Excused
  <2>3. CASE b = entry.body
    <3>1. \A j \in Coro : ~(Target(j)' /\ coros'[j].copy = f)
      BY <1>3, <1>9, <1>10, <1>11
    <3> QED
      BY <1>3, <1>4, <2>3, <3>1
  <2>4. ASSUME b # entry.body, NEW c \in Copy, copies[c].body = b,
               \A j \in Coro : ~(Target(j) /\ coros[j].copy = c)
        PROVE  copies'[c].body = b /\ \A j \in Coro : ~(Target(j)' /\ coros'[j].copy = c)
    <3>1. copies[f].body = NoBody /\ b # NoBody
      BY <1>3, Constants DEF TypeOK
    <3>2. copies'[c] = copies[c]
      BY <1>4, <2>4, <3>1
    <3>3. \A j \in Coro : ~(Target(j)' /\ coros'[j].copy = c)
      BY <1>9, <1>11, <2>4
    <3> QED
      BY <2>4, <3>2, <3>3
  <2>5. Excused(b) \/ \E c \in Copy :
            copies[c].body = b /\ \A j \in Coro : ~(Target(j) /\ coros[j].copy = c)
    BY DEF Sound, Safe
  <2> QED
    BY <2>2, <2>3, <2>4, <2>5
<1>13. ASSUME NEW c \in Copy, copies'[c].state # "free" PROVE copies'[c].body \in sent'
  <2>1. CASE c = f
    BY <1>2, <1>4, <2>1
  <2>2. CASE c # f
    BY <1>4, <1>13, <2>2 DEF Sound
  <2> QED
    BY <2>1, <2>2
<1>14. ASSUME NEW j \in Coro PROVE CoroSound(j)'
  <2>1. CoroSound(j)
    BY DEF Sound
  <2>2. CASE j = k
    BY <1>1, <1>2, <1>6, <2>2 DEF CoroSound, Runs
  <2>3. CASE j # k
    BY <1>6, <2>1, <2>3 DEF CoroSound, Runs
  <2> QED
    BY <2>2, <2>3
<1>15. ASSUME NEW j \in Coro PROVE Linked(j)'
  <2>1. SUFFICES ASSUME coros'[j].pc # "free"
        PROVE  /\ coros'[j].tag \in Tag /\ coros'[j].channel <= faults'
               /\ coros'[j].channel = faults' => coros'[j].tag < nextTag'
               /\ inflight'[coros'[j].tag] # NoEntry
                    /\ inflight'[coros'[j].tag].channel = coros'[j].channel =>
                    /\ inflight'[coros'[j].tag].body = coros'[j].body
                    /\ \/ inflight'[coros'[j].tag].fails < coros'[j].count
                       \/ CrossedNext(inflight'[coros'[j].tag].body)
    BY DEF Linked, Runs, Crossed, CrossedNext
  <2>2. /\ Runs(j) /\ coros'[j].tag = coros[j].tag /\ coros'[j].channel = coros[j].channel
        /\ coros'[j].body = coros[j].body /\ coros'[j].count = coros[j].count
    BY <1>1, <1>6, <2>1 DEF Runs
  <2>3. Linked(j)
    BY <1>1 DEF RabbitSound
  <2>4. /\ coros[j].tag \in Tag /\ coros[j].channel <= faults
        /\ coros[j].channel = faults => coros[j].tag < nextTag
        /\ inflight[coros[j].tag] # NoEntry
             /\ inflight[coros[j].tag].channel = coros[j].channel =>
             /\ inflight[coros[j].tag].body = coros[j].body
             /\ \/ inflight[coros[j].tag].fails < coros[j].count
                \/ Crossed(inflight[coros[j].tag].body)
    BY <2>2, <2>3 DEF Linked
  <2> QED
    BY <1>5, <1>8, <2>2, <2>4
<1>16. ASSUME NEW t \in Tag, inflight'[t].live PROVE t # coros[k].tag /\ inflight'[t] = inflight[t]
  BY <1>5, <1>16, Constants
<1>17. \A t \in Tag : inflight'[t] # NoEntry => inflight'[t].body \in sent'
  BY <1>1, <1>5 DEF RabbitSound
<1>18. ASSUME NEW t \in Tag, inflight'[t].live
       PROVE  /\ inflight'[t].copy \in Copy /\ copies'[inflight'[t].copy].state = "held"
              /\ copies'[inflight'[t].copy].body = inflight'[t].body
  <2>1. inflight'[t] = inflight[t]
    BY <1>16, <1>18
  <2>2. /\ inflight[t].copy \in Copy /\ copies[inflight[t].copy].state = "held"
        /\ copies[inflight[t].copy].body = inflight[t].body
    BY <1>1, <1>18, <2>1 DEF RabbitSound
  <2>3. inflight[t].copy # f
    BY <1>3, <2>2
  <2> QED
    BY <1>4, <2>1, <2>2, <2>3
<1>19. ASSUME NEW j \in Coro, Target(j)'
       PROVE  coros'[j].copy \in Copy /\ copies'[coros'[j].copy].state = "held"
  <2>1. coros'[j].copy \in Copy /\ copies[coros'[j].copy].state = "held"
    BY <1>9, <1>10, <1>11, <1>19
  <2>2. coros'[j].copy # f
    BY <1>3, <2>1
  <2> QED
    BY <1>4, <2>1, <2>2
<1>20. \A t, u \in Tag : inflight'[t].live /\ inflight'[u].live /\ t # u
           => inflight'[t].copy # inflight'[u].copy
  BY <1>1, <1>16 DEF RabbitSound
<1>21. ASSUME NEW t \in Tag, NEW j \in Coro, inflight'[t].live, Target(j)'
       PROVE  inflight'[t].copy # coros'[j].copy
  BY <1>1, <1>2, <1>11, <1>16, <1>21 DEF RabbitSound
<1>22. ASSUME NEW i \in Coro, NEW j \in Coro, Target(i)', Target(j)', i # j
       PROVE  coros'[i].copy # coros'[j].copy
  BY <1>1, <1>2, <1>11, <1>22 DEF RabbitSound
<1>23. ASSUME NEW c \in Copy, copies'[c].state # "free"
       PROVE  \/ CrossedNext(copies'[c].body)
              \/ /\ copies'[c].fails < MaxAttempts
                 /\ copies'[c].fails = 0 \/ copies'[c].fails < copies'[c].attempt
  <2>1. CASE c # f
    <3>1. copies'[c] = copies[c]
      BY <1>4, <2>1
    <3> QED
      BY <1>1, <1>8, <1>23, <3>1 DEF RabbitSound
  <2>2. CASE c = f
    <3>1. CASE entry.channel = coros[k].channel
      <4>1. entry.fails < coros[k].count \/ Crossed(entry.body)
        BY <1>1, <3>1 DEF Linked
      <4>2. entry.fails \in Nat /\ coros[k].count \in Nat
        BY <1>2, EntryParts, CoroParts DEF TypeOK
      <4> QED
        BY <1>2, <1>4, <1>8, <2>2, <4>1, <4>2, PollingAssumption
    <3>2. CASE entry.channel # coros[k].channel
      <4>1. <<entry.body, coros[k].body>> \in stolen' /\ coros[k].body \in Body
        BY <1>2, <3>2 DEF Republishes, Stolen, TypeOK
      <4> QED
        BY <1>4, <2>2, <4>1 DEF CrossedNext
    <3> QED
      BY <3>1, <3>2
  <2> QED
    BY <2>1, <2>2
<1>24. RabbitSound'
  BY <1>15, <1>17, <1>18, <1>19, <1>20, <1>21, <1>22, <1>23 DEF RabbitSound, Crossed, CrossedNext
<1> QED
  BY <1>1, <1>12, <1>13, <1>14, <1>24 DEF Sound

LEMMA NackSound ==
    ASSUME TypeOK, Sound, NEW k \in Coro, Nack(k)
    PROVE  Sound'
<1>1. config' = config /\ sent' = sent /\ faults' = faults /\ nextTag' = nextTag
      /\ coros[k].pc = "nacking" /\ Runs(k)
  BY DEF Nack, process, Runs
<1>2. CASE MemoryNack(k)
  <2>1. CASE coros[k].requeue
    BY <1>2, <2>1, MemoryRequeueSound
  <2>2. CASE ~coros[k].requeue
    <3>1. Ends(k) /\ copies' = Deleted(coros[k].copy) /\ memory /\ inflight' = inflight
          /\ stolen' = stolen /\ over \subseteq over' /\ coros[k].body \in over'
      BY <1>2, <2>2 DEF MemoryNack
    <3>2. \A c \in Copy : copies'[c] = copies[c] \/ Gone(c)
      BY <1>1, <3>1, OneDeleted, MemoryGone
    <3> QED
      BY <1>1, <3>1, <3>2, OneEnds, OneMoves
  <2> QED
    BY <2>1, <2>2
<1>3. CASE SqsNack(k)
  <2>1. sqs /\ inflight' = inflight /\ stolen' = stolen /\ over \subseteq over'
    BY <1>3 DEF SqsNack
  <2>2. CASE Ends(k) /\ copies' = copies
    BY <1>1, <2>1, <2>2, OneEnds, OneMoves
  <2>3. CASE ~coros[k].requeue /\ coros[k].body \in over' /\ Goes(k, "settling") /\ copies' = copies
    <3>1. Stays(k) /\ \A j \in Coro \ {k} : coros'[j] = coros[j]
      BY <1>1, <2>1, <2>3, OneGoes DEF Stays
    <3> QED
      BY <1>1, <2>1, <2>3, <3>1, OneMoves
  <2>4. CASE coros[k].requeue /\ Reaches(k) /\ PutsBack(k, coros[k].copy)
    BY <1>3, <2>4, SqsRequeueSound
  <2>5. \/ Ends(k) /\ copies' = copies
        \/ ~coros[k].requeue /\ coros[k].body \in over' /\ Goes(k, "settling") /\ copies' = copies
        \/ coros[k].requeue /\ Reaches(k) /\ PutsBack(k, coros[k].copy)
    BY <1>3 DEF SqsNack, Honoured, PutsBack
  <2> QED
    BY <2>2, <2>3, <2>4, <2>5
<1>4. CASE RabbitNack(k)
  <2> DEFINE entry == inflight[coros[k].tag]
  <2>1. rabbitmq /\ Pop(k)
    BY <1>4 DEF RabbitNack
  <2>2. \A t \in Tag : inflight'[t] = inflight[t] \/ inflight'[t] = NoEntry
    BY <2>1, OnePops
  <2>3. CASE entry = NoEntry /\ Ends(k) /\ copies' = copies /\ stolen' = stolen /\ over' = over
    BY <1>1, <2>1, <2>2, <2>3, OneEnds, OneMoves
  <2>4. CASE /\ entry # NoEntry /\ entry.live /\ copies' = Deleted(entry.copy)
             /\ stolen' = Stolen(k, entry) /\ Ends(k) /\ over' = over \union {entry.body}
    <3>1. stolen \subseteq stolen' /\ over \subseteq over' /\ entry.body \in over'
      BY <2>4 DEF Stolen
    <3>2. \A c \in Copy : copies'[c] = copies[c] \/ Gone(c)
      <4>1. SUFFICES ASSUME NEW c \in Copy, copies'[c] # copies[c] PROVE Gone(c)
        OBVIOUS
      <4>2. c = entry.copy /\ copies'[c] = NoCopy
        BY <2>4, <4>1, OneDeleted
      <4> QED
        BY <1>1, <2>1, <2>4, <3>1, <4>2, RabbitGone
    <3> QED
      BY <1>1, <2>1, <2>2, <2>4, <3>1, <3>2, OneEnds, OneMoves
  <2>5. CASE entry # NoEntry /\ coros[k].requeue /\ Free # {} /\ over' = over /\ Republishes(k, entry)
    BY <1>1, <2>1, <2>5, RabbitRequeueSound
  <2> QED
    BY <1>4, <2>3, <2>4, <2>5 DEF RabbitNack, Republishes
<1> QED
  BY <1>2, <1>3, <1>4 DEF Nack

\* A new message takes a free copy.
LEMMA SendSound ==
    ASSUME TypeOK, Sound, NEW b \in Body, Send(b)
    PROVE  Sound'
<1> DEFINE f == Min(Free)
<1>1. config' = config /\ sent' = sent \union {b} /\ b \notin sent /\ faults' = faults
      /\ nextTag' = nextTag /\ inflight' = inflight /\ coros' = coros /\ over' = over /\ stolen' = stolen
  BY DEF Send, process, fate
<1>2. memory' = memory /\ sqs' = sqs /\ rabbitmq' = rabbitmq
  BY <1>1, BackendKept
<1>3. f \in Copy /\ copies[f].state = "free" /\ copies[f].body = NoBody
  <2>1. Free \subseteq Nat /\ Free # {}
    BY CoroFinite DEF Free, Send
  <2>2. f \in Free
    BY <2>1, LeastChosen
  <2> QED
    BY <2>2, Constants DEF Free, TypeOK
<1>4. copies' = [copies EXCEPT ![f] = Sent(b)]
  BY DEF Send
<1> HIDE DEF f
<1>5. /\ \A c \in Copy \ {f} : copies'[c] = copies[c]
      /\ copies'[f].state = "ready" /\ copies'[f].body = b /\ copies'[f].fails = 0
      /\ copies'[f].attempt = IF memory THEN 1 ELSE 0
  <2>1. copies'[f] = Sent(b) /\ \A c \in Copy \ {f} : copies'[c] = copies[c]
    BY <1>3, <1>4 DEF TypeOK
  <2> QED
    BY <2>1 DEF Sent
<1>6. \A c \in Copy : copies'[c].state # "free" => copies'[c].body \in sent'
  BY <1>1, <1>5 DEF Sound
<1>7. \A k \in Coro : CoroSound(k)'
  BY <1>1 DEF Sound, CoroSound, Runs
<1>8. \A k \in Coro : rabbitmq /\ Target(k) => coros[k].copy \in Copy /\ coros[k].copy # f
  BY <1>3 DEF Sound, RabbitSound
<1>9. Safe'
  <2>1. SUFFICES ASSUME NEW a \in sent \union {b}
        PROVE  Excused(a)' \/ \E c \in Copy :
                  /\ copies'[c].body = a
                  /\ rabbitmq => \A k \in Coro : ~(Target(k) /\ coros[k].copy = c)
    BY <1>1, <1>2 DEF Safe, Target
  <2>2. CASE a = b
    BY <1>3, <1>5, <1>8, <2>2
  <2>3. CASE a \in sent
    <3>1. Excused(a) => Excused(a)'
      BY <1>1 DEF Excused
    <3>2. \A c \in Copy : copies[c].body = a => copies'[c].body = a
      BY <1>3, <1>5, <2>3, Constants DEF TypeOK
    <3> QED
      BY <2>3, <3>1, <3>2 DEF Sound, Safe
  <2> QED
    BY <2>2, <2>3
<1>10. ASSUME memory PROVE MemorySound'
  <2>1. MemorySound
    BY <1>10 DEF Sound
  <2>2. \A k \in Coro : Runs(k) => coros[k].copy \in Copy /\ coros[k].copy # f
    BY <1>3, <2>1 DEF MemorySound
  <2>3. \A c \in Copy : copies'[c].state # "free" =>
            copies'[c].attempt = copies'[c].fails + 1 /\ copies'[c].fails < MaxAttempts
    BY <1>5, <1>10, <2>1, PollingAssumption DEF MemorySound
  <2>4. \A k \in Coro : Runs(k) => copies'[coros[k].copy] = copies[coros[k].copy]
    BY <1>5, <2>2
  <2> QED
    BY <1>1, <2>1, <2>3, <2>4 DEF MemorySound, Runs
<1>11. ASSUME sqs PROVE SqsSound'
  <2>1. SqsSound /\ ~memory
    BY <1>11, OneBackend DEF Sound
  <2>2. ASSUME NEW c \in Copy, copies'[c].state # "free"
        PROVE  /\ copies'[c].fails + Cardinality(Handles(c)') <= copies'[c].attempt
               /\ copies'[c].fails + Cardinality(Handles(c)') < MaxAttempts
    <3>1. CASE c = f
      <4>1. \A k \in Coro : Runs(k) => coros[k].body # b
        BY <1>1 DEF Sound, CoroSound
      <4>2. Handles(c)' = {}
        BY <1>1, <1>5, <3>1, <4>1 DEF Handles, Runs
      <4> QED
        BY <1>5, <2>1, <3>1, <4>2, FS_EmptySet, PollingAssumption
    <3>2. CASE c # f
      <4>1. copies'[c] = copies[c]
        BY <1>5, <3>2
      <4>2. Handles(c)' = Handles(c)
        BY <1>1, <4>1 DEF Handles, Runs
      <4> QED
        BY <2>1, <2>2, <4>1, <4>2 DEF SqsSound
    <3> QED
      BY <3>1, <3>2
  <2>3. \A k \in Coro : Runs(k)' => /\ coros'[k].copy \in Copy
                                    /\ coros'[k].pc = "settling" => coros'[k].body \in over'
    BY <1>1, <2>1 DEF SqsSound, Runs
  <2> QED
    BY <2>2, <2>3 DEF SqsSound
<1>12. ASSUME rabbitmq PROVE RabbitSound'
  <2>1. RabbitSound
    BY <1>12 DEF Sound
  <2>2. \A k \in Coro : Linked(k)'
    BY <1>1, <2>1 DEF RabbitSound, Linked, Runs, Crossed
  <2>3. \A t \in Tag : inflight'[t].live =>
           /\ inflight'[t].copy \in Copy /\ copies'[inflight'[t].copy].state = "held"
           /\ copies'[inflight'[t].copy].body = inflight'[t].body
    <3>1. TAKE t \in Tag
    <3>2. HAVE inflight'[t].live
    <3>3. /\ inflight[t].copy \in Copy /\ copies[inflight[t].copy].state = "held"
          /\ copies[inflight[t].copy].body = inflight[t].body
      BY <1>1, <2>1, <3>2 DEF RabbitSound
    <3>4. inflight[t].copy # f
      BY <1>3, <3>3
    <3> QED
      BY <1>1, <1>5, <3>3, <3>4
  <2>4. \A k \in Coro : Target(k)' =>
           coros'[k].copy \in Copy /\ copies'[coros'[k].copy].state = "held"
    <3>1. TAKE k \in Coro
    <3>2. HAVE Target(k)'
    <3>3. Target(k)
      BY <1>1, <3>2 DEF Target
    <3>4. coros[k].copy \in Copy /\ copies[coros[k].copy].state = "held" /\ coros[k].copy # f
      BY <1>8, <1>12, <2>1, <3>3 DEF RabbitSound
    <3> QED
      BY <1>1, <1>5, <3>4
  <2>5. \A c \in Copy : copies'[c].state # "free" =>
           \/ CrossedNext(copies'[c].body)
           \/ /\ copies'[c].fails < MaxAttempts
              /\ copies'[c].fails = 0 \/ copies'[c].fails < copies'[c].attempt
    BY <1>1, <1>5, <2>1, PollingAssumption DEF RabbitSound, Crossed, CrossedNext
  <2>6. \A t \in Tag : inflight'[t] # NoEntry => inflight'[t].body \in sent'
    BY <1>1, <2>1 DEF RabbitSound
  <2>7. \A t, u \in Tag : inflight'[t].live /\ inflight'[u].live /\ t # u
            => inflight'[t].copy # inflight'[u].copy
    BY <1>1, <2>1 DEF RabbitSound
  <2>8. \A t \in Tag, k \in Coro : inflight'[t].live /\ Target(k)'
            => inflight'[t].copy # coros'[k].copy
    BY <1>1, <2>1 DEF RabbitSound, Target
  <2>9. \A j, k \in Coro : Target(j)' /\ Target(k)' /\ j # k => coros'[j].copy # coros'[k].copy
    BY <1>1, <2>1 DEF RabbitSound, Target
  <2> QED
    BY <2>2, <2>3, <2>4, <2>5, <2>6, <2>7, <2>8, <2>9 DEF RabbitSound, Crossed, CrossedNext
<1> QED
  BY <1>2, <1>6, <1>7, <1>9, <1>10, <1>11, <1>12 DEF Sound

\* A message is received by a free coroutine.
LEMMA PullSound ==
    ASSUME TypeOK, Sound, Bounded, NEW c \in Copy, Pull(c)
    PROVE  Sound'
<1> DEFINE m == copies[c]
           k == Min({j \in Coro : coros[j].pc = "free"})
<1>1. config' = config /\ sent' = sent /\ faults' = faults /\ over' = over /\ stolen' = stolen
  BY DEF Pull, process, fate
<1>2. memory' = memory /\ sqs' = sqs /\ rabbitmq' = rabbitmq
  BY <1>1, BackendKept
<1>3. k \in Coro /\ coros[k].pc = "free"
  BY FreeCoroutine DEF Pull
<1>4. /\ m \in Message /\ m.state = "ready" /\ m.body \in sent /\ m.body \in Body
      /\ m.attempt \in Nat /\ m.fails \in Nat
  <2>1. m \in Message /\ m.state = "ready" /\ sent \subseteq Body
    BY DEF Pull, Ready, TypeOK
  <2>2. m.body \in sent
    BY <2>1 DEF Sound
  <2> QED
    BY <2>1, <2>2, MessageParts
<1>5. /\ \A d \in Copy \ {c} : copies'[d] = copies[d]
      /\ copies'[c].state = "held" /\ copies'[c].body = m.body /\ copies'[c].fails = m.fails
      /\ copies'[c].attempt = IF sqs THEN m.attempt + 1 ELSE m.attempt
  <2>1. copies'[c] = Delivered(m) /\ \A d \in Copy \ {c} : copies'[d] = copies[d]
    BY DEF Pull, TypeOK
  <2> QED
    BY <1>4, <2>1 DEF Delivered, Message
<1>6. /\ \A j \in Coro \ {k} : coros'[j] = coros[j]
      /\ coros'[k].pc = "pulled" /\ coros'[k].copy = c /\ coros'[k].body = m.body
      /\ coros'[k].count = ReceiveCount(m)
      /\ rabbitmq => coros'[k].tag = nextTag /\ coros'[k].channel = faults
  <2> DEFINE x == [pc |-> "pulled", copy |-> c, body |-> m.body,
                   tag |-> IF rabbitmq THEN nextTag ELSE 0,
                   channel |-> IF rabbitmq THEN faults ELSE 0,
                   count |-> ReceiveCount(m), live |-> TRUE, requeue |-> FALSE]
  <2>1. coros' = [coros EXCEPT ![k] = x]
    BY DEF Pull
  <2>2. /\ x.pc = "pulled" /\ x.copy = c /\ x.body = m.body /\ x.count = ReceiveCount(m)
        /\ rabbitmq => x.tag = nextTag /\ x.channel = faults
    OBVIOUS
  <2> HIDE DEF k, x
  <2>3. coros'[k] = x /\ \A j \in Coro \ {k} : coros'[j] = coros[j]
    BY <1>3, <2>1 DEF TypeOK
  <2> QED
    BY <2>2, <2>3
<1> HIDE DEF k
<1>7. /\ ReceiveCount(m) \in Nat
      /\ memory => ReceiveCount(m) = m.attempt
      /\ sqs => ReceiveCount(m) = m.attempt + 1
      /\ rabbitmq => ReceiveCount(m) >= 1 /\ ReceiveCount(m) >= m.attempt
  BY <1>4, Counted
<1> HIDE DEF m
<1>8. Safe'
  <2>1. \A d \in Copy : copies'[d].body = copies[d].body
    BY <1>5 DEF m
  <2>2. \A j \in Coro : coros'[j].pc = "settling" => coros'[j] = coros[j]
    BY <1>6
  <2>3. \A j \in Coro : coros'[j].pc = "settling" /\ coros'[j].live
                          => Target(j) /\ coros'[j].copy = coros[j].copy
    BY <2>2 DEF Target
  <2> QED
    BY <1>1, <2>1, <2>3, SameBodiesSafe DEF Sound
<1>9. \A d \in Copy : copies'[d].state # "free" => copies'[d].body \in sent'
  BY <1>1, <1>4, <1>5 DEF Sound
<1>10. ASSUME NEW j \in Coro PROVE CoroSound(j)'
  <2>1. CASE j = k
    BY <1>1, <1>4, <1>6, <2>1 DEF CoroSound, Runs
  <2>2. CASE j # k
    BY <1>1, <1>6, <2>2 DEF Sound, CoroSound, Runs
  <2> QED
    BY <2>1, <2>2
<1>11. ASSUME memory PROVE MemorySound'
  <2>1. MemorySound /\ ~sqs
    BY <1>11, OneBackend DEF Sound
  <2>2. \A j \in Coro \ {k} : Runs(j) => /\ coros[j].copy \in Copy /\ coros[j].copy # c
                                         /\ copies'[coros[j].copy] = copies[coros[j].copy]
    BY <1>4, <1>5, <2>1 DEF MemorySound, m
  <2>3. ASSUME NEW j \in Coro, Runs(j)'
        PROVE  /\ coros'[j].pc # "settling" /\ coros'[j].copy \in Copy
               /\ copies'[coros'[j].copy].state = "held"
               /\ copies'[coros'[j].copy].body = coros'[j].body
               /\ copies'[coros'[j].copy].attempt = coros'[j].count
    <3>1. CASE j = k
      BY <1>5, <1>6, <1>7, <1>11, <2>1, <3>1
    <3>2. CASE j # k
      BY <1>6, <2>1, <2>2, <2>3, <3>2 DEF MemorySound, Runs
    <3> QED
      BY <3>1, <3>2
  <2>4. ASSUME NEW i \in Coro, NEW j \in Coro, Runs(i)', Runs(j)', i # j
        PROVE  coros'[i].copy # coros'[j].copy
    BY <1>6, <2>1, <2>2, <2>4 DEF MemorySound, Runs
  <2>5. \A d \in Copy : copies'[d].state # "free" =>
            copies'[d].attempt = copies'[d].fails + 1 /\ copies'[d].fails < MaxAttempts
    BY <1>4, <1>5, <2>1 DEF MemorySound, m
  <2> QED
    BY <2>3, <2>4, <2>5 DEF MemorySound
<1>12. ASSUME sqs PROVE SqsSound'
  <2>1. SqsSound
    BY <1>12 DEF Sound
  <2>2. ASSUME NEW j \in Coro, Runs(j)'
        PROVE  coros'[j].copy \in Copy /\ (coros'[j].pc = "settling" => coros'[j].body \in over')
    BY <1>1, <1>6, <2>1, <2>2 DEF SqsSound, Runs
  <2>3. ASSUME NEW d \in Copy, copies'[d].state # "free"
        PROVE  /\ copies'[d].fails + Cardinality(Handles(d)') <= copies'[d].attempt
               /\ copies'[d].fails + Cardinality(Handles(d)') < MaxAttempts
    <3>1. CASE d # c
      <4>1. copies'[d] = copies[d]
        BY <1>5, <3>1
      <4>2. Handles(d)' = Handles(d)
        BY <1>3, <1>6, <3>1, <4>1 DEF Handles, Runs
      <4> QED
        BY <2>1, <2>3, <4>1, <4>2 DEF SqsSound
    <3>2. CASE d = c
      <4>1. IsFiniteSet(Handles(c)) /\ Cardinality(Handles(c)) \in Nat
        <5>1. Handles(c) \in SUBSET Coro
          BY DEF Handles
        <5> QED
          BY <5>1, CoroFinite, FS_Subset, FS_CardinalityType
      <4>2. /\ m.fails + Cardinality(Handles(c)) <= m.attempt
            /\ m.fails + Cardinality(Handles(c)) < MaxAttempts
        BY <1>4, <2>1 DEF SqsSound, m
      <4>3. k \notin Handles(c)
        BY <1>3 DEF Handles, Runs
      <4>4. CASE ReceiveCount(m) < MaxAttempts
        <5>1. Handles(c)' = Handles(c) \union {k}
          BY <1>3, <1>5, <1>6, <4>4 DEF Handles, Runs, m
        <5>2. Cardinality(Handles(c)') = Cardinality(Handles(c)) + 1
          BY <4>1, <4>3, <5>1, FS_AddElement
        <5> QED
          BY <1>4, <1>5, <1>7, <1>12, <3>2, <4>1, <4>2, <4>4, <5>2, PollingAssumption
      <4>5. CASE ~(ReceiveCount(m) < MaxAttempts)
        <5>1. Handles(c)' = Handles(c)
          BY <1>3, <1>5, <1>6, <4>5 DEF Handles, Runs, m
        <5> QED
          BY <1>4, <1>5, <1>12, <3>2, <4>1, <4>2, <5>1, PollingAssumption
      <4> QED
        BY <4>4, <4>5
    <3> QED
      BY <3>1, <3>2
  <2> QED
    BY <2>2, <2>3 DEF SqsSound
<1>13. ASSUME rabbitmq PROVE RabbitSound'
  <2>1. RabbitSound /\ nextTag \in Tag /\ nextTag \in Nat /\ faults \in Nat /\ ~sqs
    BY <1>13, OneBackend, PollingAssumption DEF Sound, Pull, TypeOK, Tag
  <2>2. /\ \A t \in Tag \ {nextTag} : inflight'[t] = inflight[t]
        /\ inflight'[nextTag].copy = c /\ inflight'[nextTag].body = m.body
        /\ inflight'[nextTag].channel = faults /\ inflight'[nextTag].fails = m.fails
        /\ nextTag' = nextTag + 1
    <3>1. PICK e : e = [copy |-> c, body |-> m.body, channel |-> faults,
                        fails |-> m.fails, live |-> TRUE]
      OBVIOUS
    <3>2. inflight' = [inflight EXCEPT ![nextTag] = e] /\ nextTag' = nextTag + 1
      BY <1>13, <3>1 DEF Pull, m
    <3>3. inflight'[nextTag] = e /\ \A t \in Tag \ {nextTag} : inflight'[t] = inflight[t]
      BY <2>1, <3>2 DEF TypeOK
    <3> QED
      BY <3>1, <3>2, <3>3
  <2>3. m.fails < ReceiveCount(m) \/ Crossed(m.body)
    <3>1. \/ Crossed(m.body)
          \/ m.fails = 0 \/ m.fails < m.attempt
      BY <1>4, <2>1 DEF RabbitSound, m
    <3> QED
      BY <1>4, <1>7, <1>13, <3>1
  <2>4. \A b : CrossedNext(b) <=> Crossed(b)
    BY <1>1 DEF Crossed, CrossedNext
  <2>5. \A t \in Tag \ {nextTag} : inflight[t].live =>
            /\ inflight[t].copy \in Copy /\ inflight[t].copy # c
            /\ copies[inflight[t].copy].state = "held"
            /\ copies[inflight[t].copy].body = inflight[t].body
            /\ copies'[inflight[t].copy] = copies[inflight[t].copy]
    BY <1>4, <1>5, <2>1 DEF RabbitSound, m
  <2>6. ASSUME NEW j \in Coro, Target(j)'
        PROVE  /\ Target(j) /\ coros'[j].copy = coros[j].copy /\ coros[j].copy \in Copy
               /\ coros[j].copy # c /\ copies[coros[j].copy].state = "held"
    <3>1. j # k /\ coros'[j] = coros[j] /\ Target(j)
      BY <1>6, <2>6 DEF Target
    <3> QED
      BY <1>4, <2>1, <3>1 DEF RabbitSound, m
  <2>7. ASSUME NEW j \in Coro PROVE Linked(j)'
    <3>1. SUFFICES ASSUME coros'[j].pc # "free"
          PROVE  /\ coros'[j].tag \in Tag /\ coros'[j].channel <= faults'
                 /\ coros'[j].channel = faults' => coros'[j].tag < nextTag'
                 /\ inflight'[coros'[j].tag] # NoEntry
                      /\ inflight'[coros'[j].tag].channel = coros'[j].channel =>
                      /\ inflight'[coros'[j].tag].body = coros'[j].body
                      /\ \/ inflight'[coros'[j].tag].fails < coros'[j].count
                         \/ CrossedNext(inflight'[coros'[j].tag].body)
      BY DEF Linked, Runs, Crossed, CrossedNext
    <3>2. CASE j = k
      <4>1. coros'[j].tag = nextTag /\ coros'[j].channel = faults
            /\ coros'[j].body = m.body /\ coros'[j].count = ReceiveCount(m)
        BY <1>6, <1>13, <3>2
      <4> QED
        BY <1>1, <2>1, <2>2, <2>3, <2>4, <4>1
    <3>3. CASE j # k
      <4>1. coros'[j] = coros[j] /\ Runs(j) /\ Linked(j)
        BY <1>6, <2>1, <3>1, <3>3 DEF Runs, RabbitSound
      <4>2. /\ coros[j].tag \in Tag /\ coros[j].channel <= faults
            /\ coros[j].channel = faults => coros[j].tag < nextTag
            /\ inflight[coros[j].tag] # NoEntry
                 /\ inflight[coros[j].tag].channel = coros[j].channel =>
                 /\ inflight[coros[j].tag].body = coros[j].body
                 /\ \/ inflight[coros[j].tag].fails < coros[j].count
                    \/ Crossed(inflight[coros[j].tag].body)
        BY <4>1 DEF Linked
      <4>3. coros[j].tag \in Nat
        BY <4>2 DEF Tag
      <4>4. CASE coros[j].tag = nextTag
        BY <1>1, <2>1, <2>2, <4>1, <4>2, <4>3, <4>4
      <4>5. CASE coros[j].tag # nextTag
        BY <1>1, <2>1, <2>2, <2>4, <4>1, <4>2, <4>3, <4>5
      <4> QED
        BY <4>4, <4>5
    <3> QED
      BY <3>2, <3>3
  <2>8. \A t \in Tag : inflight'[t] # NoEntry => inflight'[t].body \in sent'
    BY <1>1, <1>4, <2>1, <2>2 DEF RabbitSound
  <2>9. ASSUME NEW t \in Tag, inflight'[t].live
        PROVE  /\ inflight'[t].copy \in Copy /\ copies'[inflight'[t].copy].state = "held"
               /\ copies'[inflight'[t].copy].body = inflight'[t].body
    <3>1. CASE t = nextTag
      BY <1>5, <2>2, <3>1
    <3>2. CASE t # nextTag
      <4>1. inflight'[t] = inflight[t]
        BY <2>2, <3>2
      <4> QED
        BY <2>5, <2>9, <3>2, <4>1
    <3> QED
      BY <3>1, <3>2
  <2>10. ASSUME NEW j \in Coro, Target(j)'
         PROVE  coros'[j].copy \in Copy /\ copies'[coros'[j].copy].state = "held"
    BY <1>5, <2>6, <2>10
  <2>11. ASSUME NEW t \in Tag, NEW u \in Tag, inflight'[t].live, inflight'[u].live, t # u
         PROVE  inflight'[t].copy # inflight'[u].copy
    <3>1. CASE t = nextTag
      BY <2>2, <2>5, <2>11, <3>1
    <3>2. CASE u = nextTag
      BY <2>2, <2>5, <2>11, <3>2
    <3>3. CASE t # nextTag /\ u # nextTag
      BY <2>1, <2>2, <2>11, <3>3 DEF RabbitSound
    <3> QED
      BY <3>1, <3>2, <3>3
  <2>12. ASSUME NEW t \in Tag, NEW j \in Coro, inflight'[t].live, Target(j)'
         PROVE  inflight'[t].copy # coros'[j].copy
    <3>1. CASE t = nextTag
      BY <2>2, <2>6, <2>12, <3>1
    <3>2. CASE t # nextTag
      <4>1. inflight'[t] = inflight[t] /\ inflight[t].live
        BY <2>2, <2>12, <3>2
      <4>2. Target(j) /\ coros'[j].copy = coros[j].copy
        BY <2>6, <2>12
      <4>3. inflight[t].copy # coros[j].copy
        BY <2>1, <4>1, <4>2 DEF RabbitSound
      <4> QED
        BY <4>1, <4>2, <4>3
    <3> QED
      BY <3>1, <3>2
  <2>13. \A i, j \in Coro : Target(i)' /\ Target(j)' /\ i # j => coros'[i].copy # coros'[j].copy
    BY <2>1, <2>6 DEF RabbitSound
  <2>14. ASSUME NEW d \in Copy, copies'[d].state # "free"
         PROVE  \/ CrossedNext(copies'[d].body)
                \/ /\ copies'[d].fails < MaxAttempts
                   /\ copies'[d].fails = 0 \/ copies'[d].fails < copies'[d].attempt
    <3>1. CASE d = c
      <4>1. \/ Crossed(m.body)
            \/ m.fails < MaxAttempts /\ (m.fails = 0 \/ m.fails < m.attempt)
        BY <1>4, <2>1 DEF RabbitSound, m
      <4> QED
        BY <1>5, <2>1, <2>4, <3>1, <4>1
    <3>2. CASE d # c
      <4>1. copies'[d] = copies[d]
        BY <1>5, <3>2
      <4> QED
        BY <2>1, <2>4, <2>14, <4>1 DEF RabbitSound
    <3> QED
      BY <3>1, <3>2
  <2> QED
    BY <2>7, <2>8, <2>9, <2>10, <2>11, <2>12, <2>13, <2>14 DEF RabbitSound, Crossed, CrossedNext
<1> QED
  BY <1>2, <1>8, <1>9, <1>10, <1>11, <1>12, <1>13 DEF Sound

-----------------------------------------------------------------------------
(* Faults *)

LEMMA VisibilitySound ==
    ASSUME TypeOK, Sound, NEW c \in Copy, VisibilityTimeout(c)
    PROVE  Sound'
<1>1. config' = config /\ sent' = sent /\ over' = over /\ stolen' = stolen
      /\ sqs /\ ~memory /\ ~rabbitmq /\ copies[c].state = "held" /\ coros' = Outdated(c)
  BY OneBackend DEF VisibilityTimeout, process, fate
<1>2. sqs' /\ ~memory' /\ ~rabbitmq'
  BY <1>1, BackendKept
<1>3. /\ \A d \in Copy \ {c} : copies'[d] = copies[d]
      /\ copies'[c].state = "ready" /\ copies'[c].body = copies[c].body
      /\ copies'[c].attempt = copies[c].attempt /\ copies'[c].fails = copies[c].fails
  <2>1. copies[c] \in Message
    BY DEF TypeOK
  <2>2. /\ \A d \in Copy \ {c} : copies'[d] = copies[d]
        /\ copies'[c] = [copies[c] EXCEPT !.state = "ready"]
    BY <2>1 DEF VisibilityTimeout, TypeOK, Message
  <2> QED
    BY <2>1, <2>2 DEF Message
<1>4. \A d \in Copy : /\ copies'[d].body = copies[d].body /\ copies'[d].attempt = copies[d].attempt
                      /\ copies'[d].fails = copies[d].fails
                      /\ copies'[d].state # "free" => copies[d].state # "free"
  BY <1>1, <1>3
<1>5. \A j \in Coro :
          /\ coros'[j].pc = coros[j].pc /\ coros'[j].copy = coros[j].copy
          /\ coros'[j].body = coros[j].body /\ coros'[j].count = coros[j].count
          /\ coros'[j].requeue = coros[j].requeue
  BY <1>1, OutdatedKeeps
<1>6. Safe'
  BY <1>1, <1>4, SameBodiesSafe DEF Sound
<1>7. \A d \in Copy : copies'[d].state # "free" => copies'[d].body \in sent'
  BY <1>1, <1>4 DEF Sound
<1>8. ASSUME NEW j \in Coro PROVE CoroSound(j)'
  <2>1. CoroSound(j)
    BY DEF Sound
  <2> QED
    BY <1>1, <1>5, <2>1 DEF CoroSound, Runs
<1>9. SqsSound'
  <2>1. SqsSound
    BY <1>1 DEF Sound
  <2>2. \A d \in Copy : Handles(d)' = Handles(d)
    BY <1>4, <1>5 DEF Handles, Runs
  <2> QED
    BY <1>1, <1>4, <1>5, <2>1, <2>2 DEF SqsSound, Runs
<1> QED
  BY <1>2, <1>6, <1>7, <1>8, <1>9 DEF Sound

\* The broker takes back what a channel held: no copy of this is about to be
\* acknowledged any more.
LEMMA RequeuedSound ==
    ASSUME TypeOK, Sound, rabbitmq, copies' = Requeued, config' = config, sent' = sent,
           over' = over, stolen' = stolen,
           \A k \in Coro : ~coros'[k].live
    PROVE  /\ Safe'
           /\ \A c \in Copy : copies'[c].state # "free" => copies'[c].body \in sent'
           /\ \A k \in Coro : ~Target(k)'
           /\ \A c \in Copy : copies'[c].state # "free" =>
                  \/ CrossedNext(copies'[c].body)
                  \/ /\ copies'[c].fails < MaxAttempts
                     /\ copies'[c].fails = 0 \/ copies'[c].fails < copies'[c].attempt
<1>1. \A c \in Copy : /\ copies'[c].body = copies[c].body
                      /\ copies'[c].attempt = copies[c].attempt
                      /\ copies'[c].fails = copies[c].fails
                      /\ copies'[c].state = "free" <=> copies[c].state = "free"
  BY RequeuedTyped
<1>2. \A k \in Coro : ~Target(k)'
  BY DEF Target
<1>3. Safe'
  BY <1>1, SameBodiesSafe DEF Sound
<1>4. RabbitSound /\ \A c \in Copy : copies[c].state # "free" => copies[c].body \in sent
  BY DEF Sound
<1>5. \A b : Crossed(b) => CrossedNext(b)
  BY DEF Crossed, CrossedNext
<1>6. ASSUME NEW c \in Copy, copies'[c].state # "free"
      PROVE  \/ CrossedNext(copies'[c].body)
             \/ /\ copies'[c].fails < MaxAttempts
                /\ copies'[c].fails = 0 \/ copies'[c].fails < copies'[c].attempt
  <2>1. \/ Crossed(copies[c].body)
        \/ /\ copies[c].fails < MaxAttempts
           /\ copies[c].fails = 0 \/ copies[c].fails < copies[c].attempt
    BY <1>1, <1>4, <1>6 DEF RabbitSound
  <2> QED
    BY <1>1, <1>5, <2>1
<1>7. ASSUME NEW c \in Copy, copies'[c].state # "free" PROVE copies'[c].body \in sent'
  BY <1>1, <1>4, <1>7
<1> QED
  BY <1>2, <1>3, <1>6, <1>7

LEMMA EntryOffline ==
    ASSUME NEW e \in Entry, e.live = FALSE, e.copy = 0
    PROVE  [e EXCEPT !.live = FALSE, !.copy = 0] = e
BY Zenon DEF Entry

LEMMA ReconnectSound ==
    ASSUME TypeOK, Sound, Reconnect
    PROVE  Sound'
<1>1. config' = config /\ sent' = sent /\ over' = over /\ stolen' = stolen
      /\ rabbitmq /\ ~memory /\ ~sqs /\ copies' = Requeued /\ nextTag' = 1
      /\ faults \in Nat /\ faults' = faults + 1
  <2>1. rabbitmq /\ copies' = Requeued /\ nextTag' = 1 /\ faults' = faults + 1
        /\ config' = config /\ sent' = sent /\ over' = over /\ stolen' = stolen
    BY DEF Reconnect, Fault, process, fate
  <2>2. faults \in Nat
    BY PollingAssumption DEF TypeOK
  <2> QED
    BY <2>1, <2>2, OneBackend
<1>2. rabbitmq' /\ ~memory' /\ ~sqs' /\ RabbitSound
  BY <1>1, BackendKept DEF Sound
<1>3. \A k \in Coro : coros'[k] = [coros[k] EXCEPT !.live = FALSE, !.copy = 0]
  BY DEF Reconnect
<1>4. \A k \in Coro : ~coros'[k].live
  <2>1. \A k \in Coro : coros[k] \in Coroutine
    BY DEF TypeOK
  <2> QED
    BY <1>3, <2>1 DEF Coroutine
<1>5. ASSUME NEW k \in Coro
      PROVE  /\ coros'[k].pc = coros[k].pc /\ coros'[k].body = coros[k].body
             /\ coros'[k].tag = coros[k].tag /\ coros'[k].channel = coros[k].channel
             /\ coros'[k].count = coros[k].count /\ coros'[k].requeue = coros[k].requeue
  <2>1. coros[k] \in Coroutine
    BY DEF TypeOK
  <2> QED
    BY <1>3, <2>1 DEF Coroutine
<1>6. ASSUME NEW t \in Tag
      PROVE  /\ inflight'[t].body = inflight[t].body /\ inflight'[t].channel = inflight[t].channel
             /\ inflight'[t].fails = inflight[t].fails /\ ~inflight'[t].live
             /\ inflight[t] = NoEntry => inflight'[t] = NoEntry
  <2>1. inflight[t] \in Entry /\ inflight'[t] = [inflight[t] EXCEPT !.live = FALSE, !.copy = 0]
    BY DEF Reconnect, TypeOK
  <2>2. ~inflight'[t].live
    BY <2>1 DEF Entry
  <2>3. /\ inflight'[t].body = inflight[t].body /\ inflight'[t].channel = inflight[t].channel
        /\ inflight'[t].fails = inflight[t].fails
    BY <2>1 DEF Entry
  <2>4. ASSUME inflight[t] = NoEntry PROVE inflight'[t] = NoEntry
    <3>1. NoEntry.live = FALSE /\ NoEntry.copy = 0
      BY DEF NoEntry
    <3> QED
      BY <2>1, <2>4, <3>1, EntryOffline
  <2> QED
    BY <2>2, <2>3, <2>4
<1>7. ASSUME NEW k \in Coro PROVE CoroSound(k)'
  <2>1. CoroSound(k)
    BY DEF Sound
  <2> QED
    BY <1>1, <1>5, <2>1 DEF CoroSound, Runs
<1>8. ASSUME NEW k \in Coro PROVE Linked(k)'
  <2>1. SUFFICES ASSUME coros'[k].pc # "free"
        PROVE  /\ coros'[k].tag \in Tag /\ coros'[k].channel <= faults'
               /\ coros'[k].channel = faults' => coros'[k].tag < nextTag'
               /\ inflight'[coros'[k].tag] # NoEntry
                    /\ inflight'[coros'[k].tag].channel = coros'[k].channel =>
                    /\ inflight'[coros'[k].tag].body = coros'[k].body
                    /\ \/ inflight'[coros'[k].tag].fails < coros'[k].count
                       \/ CrossedNext(inflight'[coros'[k].tag].body)
    BY DEF Linked, Runs, Crossed, CrossedNext
  <2>2. /\ coros[k].tag \in Tag /\ coros[k].channel <= faults
        /\ inflight[coros[k].tag] # NoEntry
             /\ inflight[coros[k].tag].channel = coros[k].channel =>
             /\ inflight[coros[k].tag].body = coros[k].body
             /\ \/ inflight[coros[k].tag].fails < coros[k].count
                \/ Crossed(inflight[coros[k].tag].body)
    BY <1>2, <1>5, <2>1 DEF RabbitSound, Linked, Runs
  <2>3. coros[k].channel \in Nat
    BY CoroParts, PollingAssumption DEF TypeOK
  <2>4. \A b : Crossed(b) => CrossedNext(b)
    BY <1>1 DEF Crossed, CrossedNext
  <2> QED
    BY <1>1, <1>5, <1>6, <2>2, <2>3, <2>4
<1>9. \A t \in Tag : inflight'[t] # NoEntry => inflight'[t].body \in sent'
  BY <1>1, <1>2, <1>6 DEF RabbitSound
<1>10. RabbitSound'
  BY <1>1, <1>4, <1>6, <1>8, <1>9, RequeuedSound DEF RabbitSound, Crossed, CrossedNext
<1> QED
  BY <1>1, <1>2, <1>4, <1>7, <1>10, RequeuedSound DEF Sound

LEMMA CrashSound ==
    ASSUME TypeOK, Sound, Crash
    PROVE  Sound'
<1>1. config' = config /\ sent' = sent /\ stolen' = stolen /\ over' = IF memory THEN sent ELSE over
  BY DEF Crash
<1>2. memory' = memory /\ sqs' = sqs /\ rabbitmq' = rabbitmq
  BY <1>1, BackendKept
<1>3. \A k \in Coro : coros'[k].pc = "free" /\ ~coros'[k].live
  BY DEF Crash, NoCoro
<1>4. \A t \in Tag : inflight'[t] = NoEntry /\ ~inflight'[t].live
  BY Constants DEF Crash
<1>5. \A k \in Coro : CoroSound(k)'
  BY <1>3 DEF CoroSound, Runs
<1>6. CASE memory
  <2>1. \A c \in Copy : copies'[c].state = "free"
    BY <1>6, OneBackend, Constants DEF Crash
  <2>2. Safe'
    BY <1>1, <1>6 DEF Safe, Excused
  <2>3. MemorySound'
    BY <1>3, <2>1 DEF MemorySound, Runs
  <2> QED
    BY <1>2, <1>5, <1>6, <2>1, <2>2, <2>3, OneBackend DEF Sound
<1>7. CASE sqs
  <2>1. copies' = copies /\ over' = over /\ ~memory /\ ~rabbitmq
    BY <1>1, <1>7, OneBackend DEF Crash
  <2>2. Safe'
    BY <1>1, <2>1, SameBodiesSafe DEF Sound
  <2>3. SqsSound'
    <3>1. ASSUME NEW c \in Copy, copies[c].state # "free"
          PROVE  /\ copies[c].fails + Cardinality(Handles(c)') <= copies[c].attempt
                 /\ copies[c].fails + Cardinality(Handles(c)') < MaxAttempts
      <4>1. Handles(c)' \in SUBSET Handles(c) /\ Handles(c) \subseteq Coro
        BY <1>3 DEF Handles, Runs
      <4>2. copies[c].fails \in Nat /\ copies[c].attempt \in Nat
        BY MessageParts DEF TypeOK
      <4>3. /\ copies[c].fails + Cardinality(Handles(c)) <= copies[c].attempt
            /\ copies[c].fails + Cardinality(Handles(c)) < MaxAttempts
        BY <1>7, <3>1 DEF Sound, SqsSound
      <4> QED
        BY <4>1, <4>2, <4>3, FewerHandles
    <3>2. \A k \in Coro : ~Runs(k)'
      BY <1>3 DEF Runs
    <3> QED
      BY <2>1, <3>1, <3>2 DEF SqsSound
  <2>4. \A c \in Copy : copies'[c].state # "free" => copies'[c].body \in sent'
    BY <1>1, <2>1 DEF Sound
  <2> QED
    BY <1>2, <1>5, <1>7, <2>1, <2>2, <2>3, <2>4 DEF Sound
<1>8. CASE rabbitmq
  <2>1. copies' = Requeued /\ over' = over /\ ~memory /\ ~sqs
    BY <1>1, <1>8, OneBackend DEF Crash
  <2>2. \A k \in Coro : Linked(k)'
    BY <1>3 DEF Linked, Runs
  <2>3. RabbitSound'
    BY <1>1, <1>3, <1>4, <1>8, <2>1, <2>2, RequeuedSound DEF RabbitSound, Crossed, CrossedNext
  <2> QED
    BY <1>1, <1>2, <1>3, <1>5, <1>8, <2>1, <2>3, RequeuedSound DEF Sound
<1> QED
  BY <1>6, <1>7, <1>8, OneBackend

-----------------------------------------------------------------------------
(* Theorems *)

LEMMA InitSound ==
    ASSUME Init
    PROVE  IInv
<1>1. TypeOK
  <2>1. copies \in Copies /\ coros \in [Coro -> Coroutine] /\ inflight \in [Tag -> Entry]
    BY Constants DEF Init, Copies
  <2>2. nextTag \in 1..(MaxTag + 1) /\ faults \in 0..MaxFaults
    BY PollingAssumption DEF Init
  <2>3. shutdown \in BOOLEAN
    BY Zenon DEF Init
  <2> QED
    BY <2>1, <2>2, <2>3 DEF Init, TypeOK, Copies
<1>2. /\ \A k \in Coro : coros[k].pc = "free" /\ coros[k].live = FALSE
      /\ \A c \in Copy : copies[c].state = "free"
      /\ \A t \in Tag : inflight[t] = NoEntry /\ inflight[t].live = FALSE
      /\ sent = {} /\ phase = "polling"
  BY DEF Init, NoCoro, NoCopy, NoEntry
<1>3. Sound
  BY <1>2 DEF Sound, Safe, CoroSound, MemorySound, SqsSound, RabbitSound, Linked, Runs, Target
<1>4. Bounded
  <2>1. Active = {} /\ Holding = {} /\ Pulled = {}
    BY <1>2 DEF Active, Holding, Pulled
  <2> QED
    BY <1>2, <2>1, FS_EmptySet, CoroFinite, PollingAssumption DEF Bounded, ActiveBounded
<1> QED
  BY <1>1, <1>3, <1>4, SoundOfIInv

LEMMA SoundKept ==
    ASSUME IInv, [Next]_vars
    PROVE  Sound'
<1>1. TypeOK /\ Sound /\ Bounded
  BY SoundOfIInv
<1>2. ASSUME NEW k \in Coro, Step(k) PROVE Sound'
  BY <1>1, <1>2, HandlerSound, AckSound, NackSound, FailsSound, SettleSound DEF Step
<1> QED
  BY <1>1, <1>2, SendSound, PullSound, RunSound, VisibilitySound, ReconnectSound, CrashSound DEF Next

\* The invariant, for AsyncPollingWorker over every gateway: a message is with
\* the broker until it is done, what a coroutine holds is what its gateway
\* entry names, and the count of a receive is ahead of the failures.
THEOREM InductiveInvariant == Spec => []IInv
<1>1. Init => IInv
  BY InitSound
<1>2. IInv /\ [Next]_vars => IInv'
  <2>1. SUFFICES ASSUME IInv, [Next]_vars PROVE IInv'
    OBVIOUS
  <2>2. TypeOK' /\ Sound' /\ Bounded'
    BY <2>1, TypeKept, SoundKept, BoundedKept
  <2> QED
    BY <2>2 DEF IInv, Sound
<1> QED
  BY <1>1, <1>2, PTL DEF Spec

\* The types of the worker's and the broker's state.
THEOREM TypeCorrect == Spec => []TypeOK
<1>1. IInv => TypeOK
  BY DEF IInv
<1> QED
  BY <1>1, InductiveInvariant, PTL

\* NothingLost: whatever crashes, reconnects or times out, a message that was
\* sent is with the broker until it is handled, dead-lettered or rejected
\* (nack publishes before it acknowledges, ack comes after the handler).  Two
\* kinds are excepted, which the code does lose: a RabbitMQ message settled by
\* another one's handler through a reused delivery tag (stolen), and what an
\* in-memory queue held when its process died.
THEOREM MessagesKept == Spec => []NothingLost
<1>1. IInv => NothingLost
  BY DEF IInv, Safe, Excused, NothingLost
<1> QED
  BY <1>1, InductiveInvariant, PTL

\* RetriesBounded: nack puts a message back fewer times than
\* WORKER_MAX_ATTEMPTS, for the count of receive_count is never behind.
THEOREM RetriesCapped == Spec => []RetriesBounded
<1>1. IInv => RetriesBounded
  <2>1. SUFFICES ASSUME IInv, NEW c \in Copy
        PROVE  copies[c].fails < MaxAttempts \/ Crossed(copies[c].body)
    BY DEF RetriesBounded, Crossed
  <2>2. copies[c] \in Message /\ TypeOK
    BY <2>1 DEF IInv, TypeOK
  <2>3. CASE copies[c].state = "free"
    <3>1. copies[c].fails = 0
      BY <2>2, <2>3 DEF TypeOK, NoCopy
    <3> QED
      BY <3>1, PollingAssumption
  <2>4. CASE copies[c].state # "free"
    <3>1. CASE memory
      BY <2>1, <2>4, <3>1 DEF IInv, MemorySound
    <3>2. CASE sqs
      <4>1. IsFiniteSet(Handles(c))
        <5>1. Handles(c) \in SUBSET Coro
          BY DEF Handles
        <5> QED
          BY <5>1, CoroFinite, FS_Subset
      <4>2. Cardinality(Handles(c)) \in Nat /\ copies[c].fails \in Nat
        BY <2>2, <4>1, FS_CardinalityType, MessageParts
      <4>3. copies[c].fails + Cardinality(Handles(c)) < MaxAttempts
        BY <2>1, <2>4, <3>2 DEF IInv, SqsSound
      <4> QED
        BY <4>2, <4>3, PollingAssumption
    <3>3. CASE rabbitmq
      BY <2>1, <2>4, <3>3 DEF IInv, RabbitSound
    <3> QED
      BY <2>2, <3>1, <3>2, <3>3, OneBackend
  <2> QED
    BY <2>3, <2>4
<1> QED
  BY <1>1, InductiveInvariant, PTL

\* ActiveBounded: the limit that _tick checks and the semaphore of _dispatch
\* bound what the worker holds and what it runs.
THEOREM ConcurrencyCapped == Spec => []ActiveBounded
<1>1. IInv => ActiveBounded
  BY DEF IInv, Bounded
<1> QED
  BY <1>1, InductiveInvariant, PTL

=============================================================================
