------------------------ MODULE RedisTaskStoreProofs ------------------------
(***************************************************************************)
(* Theorems about RedisTaskStore, for any tasks, workers, leases and TTLs. *)
(*                                                                         *)
(* The invariant says what a client may rely on between two commands.      *)
(* While nobody wrote the key it watches, the value it read is still       *)
(* there, and mutate accepted it; the task of a worker whose lease runs is *)
(* still locked by that lease, or settled, or purged; and such a worker is *)
(* alone.  A claim or reclaim that commits has therefore seen the value it *)
(* replaces, which no running lease protects.                              *)
(***************************************************************************)
EXTENDS RedisTaskStore, TLAPS

Owning == {"working", "ttl", "setex"}

\* A call's fields fit its place in the code.
CallShaped(x) ==
    /\ x \in Call
    /\ x.at <= now
    /\ x.lease # 0 => x.pc \in Owning
    /\ x.pc \in {"watch", "read", "exec"} \union Owning => x.task \in Task
    /\ x.pc \in {"ttl", "setex"} => x.status \in Terminal
    /\ x.pc \in {"exec", "setex"} => x.ttl > 0

\* The TTL a transaction asked for after it read the time is what is left of
\* the key, up to the time since and less than a second of rounding.
TtlSound(x) ==
    /\ x.ttl * SECOND + x.at <= x.read.ends + (SECOND - 1)
    /\ x.read.ends <= now + x.ttl * SECOND + (SECOND - 1)

\* What was read under WATCH was accepted, and is current unless dirty.
WatchSound(c, x) ==
    Watching(x) =>
        /\ c \in Worker => Claimable(x.read, x.at)
        /\ c = Reclaimer => LeaseExpired(x.read, x.at)
        /\ ~x.dirty => Exists(x.task) /\ x.read = redis[x.task]
        /\ ~x.dirty /\ x.pc = "exec" => TtlSound(x)

\* The lease of x still runs.
Live(x) == x.lease > now

\* A running lease is the one stored, until the task is settled or purged;
\* nobody else's claim comes between the worker's read and its write.
LeaseSound(x) ==
    Live(x) =>
        /\ \/ redis[x.task].status \in Terminal \union {"purged"}
           \/ redis[x.task].status = "processing" /\ redis[x.task].locked = x.lease
        /\ x.pc \in {"ttl", "setex"} /\ x.task \notin overrun
               => x.read.attempts = redis[x.task].attempts

CallSound(c, x) == CallShaped(x) /\ WatchSound(c, x) /\ (c \in Worker => LeaseSound(x))

ValueSound(t) ==
    /\ redis[t].status = "none" => redis[t] = NoValue
    /\ redis[t].status = "purged" => redis[t].locked = 0
    /\ Exists(t) => redis[t].ends > now
    /\ Exists(t) /\ redis[t].status \notin Terminal => EndsNear(t)

\* The reclaim loop visits a key only below its limit.
PassSound ==
    /\ pass \in [todo : SUBSET Task, settled : 0..TASKS_RECLAIM_BATCH_SIZE]
    /\ client[Reclaimer].pc \in {"watch", "read", "exec"}
           => pass.settled < TASKS_RECLAIM_BATCH_SIZE

IInv ==
    /\ TypeOK
    /\ PassSound
    /\ \A c \in Client : CallSound(c, client[c])
    /\ \A t \in Task : ValueSound(t)
    /\ LeaseExclusion

-----------------------------------------------------------------------------
(* Seconds and ticks *)

\* A whole number of seconds in ticks.
LEMMA TicksType ==
    ASSUME NEW n \in Nat \ {0}
    PROVE  n * SECOND \in Nat \ {0} /\ n * SECOND >= SECOND
<1>1. SECOND \in Nat \ {0}
  BY RedisTaskStoreAssumption
<1> QED
  BY <1>1

LEMMA LeaseType == LeaseTicks \in Nat \ {0}
  BY TicksType, RedisTaskStoreAssumption DEF LeaseTicks

LEMMA EndOfType ==
    ASSUME now \in Nat, NEW n \in Nat \ {0}
    PROVE  EndOf(n) \in Nat /\ EndOf(n) > now /\ EndOf(n) = now + n * SECOND
<1>1. n * SECOND \in Nat \ {0}
  BY TicksType
<1> QED
  BY <1>1 DEF EndOf

\* Division by a second.
LEMMA Division ==
    ASSUME NEW d \in Nat
    PROVE  /\ d \div SECOND \in Nat
           /\ (d \div SECOND) * SECOND <= d
           /\ d <= (d \div SECOND) * SECOND + (SECOND - 1)
<1>1. SECOND \in Nat \ {0}
  BY RedisTaskStoreAssumption
<1> QED
  BY <1>1

\* int() with a floor of one second.
LEMMA WholeSecondsBound ==
    ASSUME NEW d \in Int
    PROVE  /\ WholeSeconds(d) \in Nat \ {0}
           /\ d < SECOND => WholeSeconds(d) = 1
           /\ d >= SECOND => /\ WholeSeconds(d) * SECOND <= d
                             /\ d <= WholeSeconds(d) * SECOND + (SECOND - 1)
<1>0. SECOND \in Nat \ {0}
  BY RedisTaskStoreAssumption
<1>1. CASE d < SECOND
  BY <1>0, <1>1 DEF WholeSeconds
<1>2. CASE d >= SECOND
  <2>1. PICK k : k = d \div SECOND
    OBVIOUS
  <2>2. d \in Nat /\ WholeSeconds(d) = k
    BY <1>0, <1>2, <2>1 DEF WholeSeconds
  <2>3. k \in Nat /\ k * SECOND <= d /\ d <= k * SECOND + (SECOND - 1)
    BY <2>1, <2>2, Division
  <2>4. k # 0
    BY <1>0, <1>2, <2>3
  <2> QED
    BY <1>0, <1>2, <2>2, <2>3, <2>4
<1> QED
  BY <1>0, <1>1, <1>2

LEMMA NoValueType == NoValue \in Value
  BY DEF NoValue, Value, Terminal

LEMMA IdleType == Idle \in Call /\ Idle.pc = "idle" /\ Idle.lease = 0 /\ Idle.at = 0
  BY NoValueType DEF Idle, Call, Terminal

\* An ended call relies on nothing.
LEMMA IdleSound ==
    ASSUME TypeOK, NEW c \in Client
    PROVE  CallSound(c, Idle)
<1>1. 0 <= now /\ ~(0 > now)
  BY RedisTaskStoreAssumption DEF TypeOK
<1> QED
  BY <1>1, IdleType DEF CallSound, CallShaped, WatchSound, LeaseSound, Live, Watching, Owning, Idle

LEMMA InvInit == Init => IInv
<1> SUFFICES ASSUME Init PROVE IInv
  OBVIOUS
<1>1. TypeOK
  BY NoValueType, IdleType, RedisTaskStoreAssumption DEF Init, TypeOK
<1>2. \A c \in Client : client[c] = Idle
  BY DEF Init
<1>3. PassSound
  BY <1>2, IdleType, RedisTaskStoreAssumption DEF Init, PassSound, Client
<1>4. \A c \in Client : CallSound(c, client[c])
  BY <1>1, <1>2, IdleSound
<1>5. \A t \in Task : ValueSound(t)
  BY DEF Init, ValueSound, Exists, NoValue
<1>6. LeaseExclusion
  BY <1>2, IdleType DEF Init, LeaseExclusion, Client
<1> QED
  BY <1>1, <1>3, <1>4, <1>5, <1>6 DEF IInv

\* A command that changes nothing but the call it belongs to.
LEMMA QuietStep ==
    ASSUME IInv, NEW c \in Client, NEW x, CallSound(c, x),
           x.lease # 0 => x.lease = client[c].lease /\ x.task = client[c].task,
           client' = [client EXCEPT ![c] = x],
           PassSound', UNCHANGED <<now, redis, overrun, lag>>
    PROVE  IInv'
<1>1. x \in Call
  BY DEF CallSound, CallShaped
<1>2. TypeOK'
  BY <1>1 DEF IInv, TypeOK, PassSound
<1>3. client'[c] = x /\ \A d \in Client \ {c} : client'[d] = client[d]
  BY DEF IInv, TypeOK
<1>4. ASSUME NEW d \in Client PROVE CallSound(d, client'[d])
  BY <1>3 DEF IInv
<1>5. ASSUME NEW d \in Client PROVE CallSound(d, client[d])'
  BY <1>4 DEF CallSound, CallShaped, WatchSound, TtlSound, LeaseSound, Live, Exists
<1>6. \A t \in Task : ValueSound(t)'
  BY DEF IInv, ValueSound, Exists, EndsNear, Rewritten
<1>7. LeaseExclusion'
  <2>1. now \in Nat
    BY RedisTaskStoreAssumption DEF IInv, TypeOK
  <2>2. ASSUME NEW w \in Worker, client'[w].lease > now
        PROVE  client[w].lease > now /\ client'[w].task = client[w].task
    <3>1. w \in Client /\ client'[w].lease # 0
      BY <2>1, <2>2 DEF Client
    <3> QED
      BY <1>3, <2>2, <3>1
  <2> QED
    BY <2>2 DEF IInv, LeaseExclusion
<1> QED
  BY <1>2, <1>5, <1>6, <1>7 DEF IInv

\* A client d that does not write: when the value v is stored for task t it is
\* marked dirty if it watches t, and what it relies on still holds.
LEMMA NotedCall ==
    ASSUME IInv, NEW d \in Client, NEW t \in Task, NEW v \in Value,
           redis'[t] = v, \A u \in Task \ {t} : redis'[u] = redis[u],
           now' = now, overrun \subseteq overrun',
           client'[d] = IF client[d].task = t /\ Watching(client[d])
                        THEN [client[d] EXCEPT !.dirty = TRUE] ELSE client[d],
           d \in Worker /\ client[d].task = t /\ Live(client[d])
               => t \in overrun' /\ v.status \in Terminal
    PROVE  /\ client'[d] \in Call
           /\ client'[d].pc = client[d].pc
           /\ client'[d].task = client[d].task
           /\ client'[d].lease = client[d].lease
           /\ CallSound(d, client[d])'
<1>0. now \in Nat /\ client[d] \in Call /\ CallSound(d, client[d])
  BY RedisTaskStoreAssumption DEF IInv, TypeOK
<1>1. /\ client'[d] \in Call
      /\ client'[d].pc = client[d].pc /\ client'[d].task = client[d].task
      /\ client'[d].at = client[d].at /\ client'[d].lease = client[d].lease
      /\ client'[d].read = client[d].read /\ client'[d].ttl = client[d].ttl
      /\ client'[d].status = client[d].status
      /\ client[d].task = t /\ Watching(client[d]) => client'[d].dirty
      /\ client[d].task # t => client'[d] = client[d]
  <2>1. [client[d] EXCEPT !.dirty = TRUE] \in Call
    BY <1>0 DEF Call
  <2> QED
    BY <1>0, <2>1 DEF Call
<1>2. CallShaped(client[d])'
  BY <1>0, <1>1 DEF CallSound, CallShaped
<1>3. WatchSound(d, client[d])'
  <2> SUFFICES ASSUME Watching(client[d])' PROVE WatchSound(d, client[d])'
    BY DEF WatchSound
  <2>1. Watching(client[d]) /\ client[d].task \in Task
    BY <1>0, <1>1 DEF Watching, CallSound, CallShaped
  <2>2. CASE client[d].task = t
    BY <1>0, <1>1, <2>1, <2>2 DEF CallSound, WatchSound, Claimable, LeaseExpired
  <2>3. CASE client[d].task # t
    <3>1. client'[d] = client[d] /\ redis'[client[d].task] = redis[client[d].task]
      BY <1>1, <2>1, <2>3
    <3> QED
      BY <1>0, <2>1, <3>1 DEF CallSound, WatchSound, TtlSound, Exists, Claimable, LeaseExpired
  <2> QED
    BY <2>2, <2>3
<1>4. d \in Worker => LeaseSound(client[d])'
  <2> SUFFICES ASSUME d \in Worker, Live(client[d]) PROVE LeaseSound(client[d])'
    BY <1>1 DEF LeaseSound, Live
  <2>1. client[d].task \in Task /\ LeaseSound(client[d])
    BY <1>0 DEF CallSound, CallShaped, Live, Call
  <2>2. CASE client[d].task = t
    BY <1>1, <2>2 DEF LeaseSound
  <2>3. CASE client[d].task # t
    BY <1>1, <2>1, <2>3 DEF LeaseSound
  <2> QED
    BY <2>2, <2>3
<1> QED
  BY <1>1, <1>2, <1>3, <1>4 DEF CallSound

\* The value v is written for task t by client c, which goes on as x.  Either
\* nobody else's lease runs on t, or the write settles t after an overrun.
LEMMA WriteStep ==
    ASSUME IInv, NEW c \in Client, NEW x, NEW t \in Task, NEW v \in Value,
           Set(t, v, [client EXCEPT ![c] = x]),
           x \in Call, ~Watching(x), x.at <= now,
           x.pc \in {"idle", "scan", "working"},
           x.pc = "working" => x.task = t,
           x.lease # 0 => /\ x.pc = "working"
                          /\ v.status = "processing" /\ v.locked = x.lease
                          /\ \A d \in Worker \ {c} :
                                client[d].task = t => ~Live(client[d]),
           v.status \notin {"none", "purged"},
           v.ends > now,
           v.status \notin Terminal => EndsNear(t)',
           \/ \A d \in Worker \ {c} : client[d].task = t => ~Live(client[d])
           \/ t \in overrun' /\ v.status \in Terminal,
           overrun \subseteq overrun', overrun' \subseteq Task,
           lag' \in [Task -> Nat], \A u \in Task \ {t} : lag'[u] = lag[u],
           PassSound', now' = now
    PROVE  IInv'
<1>0. now \in Nat
  BY RedisTaskStoreAssumption DEF IInv, TypeOK
<1>1. redis'[t] = v /\ \A u \in Task \ {t} : redis'[u] = redis[u]
  BY DEF Set, IInv, TypeOK
<1>2. client'[c] = x
  BY DEF Set, Written, IInv, TypeOK
<1>3. ASSUME NEW d \in Client \ {c}
      PROVE  client'[d] = IF client[d].task = t /\ Watching(client[d])
                          THEN [client[d] EXCEPT !.dirty = TRUE] ELSE client[d]
  BY DEF Set, Written, IInv, TypeOK
<1>4. ASSUME NEW d \in Client \ {c}
      PROVE  /\ client'[d] \in Call
             /\ client'[d].task = client[d].task /\ client'[d].lease = client[d].lease
             /\ CallSound(d, client[d])'
  BY <1>1, <1>3, NotedCall
<1>5. TypeOK'
  <2>1. client' \in [Client -> Call]
    <3>1. DOMAIN client' = Client /\ client' = [d \in Client |-> client'[d]]
      BY DEF Set, Written
    <3> QED
      BY <1>2, <1>4, <3>1
  <2> QED
    BY <2>1 DEF Set, IInv, TypeOK, PassSound
<1>6. ASSUME NEW u \in Task PROVE ValueSound(u)'
  <2>1. CASE u = t
    BY <1>1, <2>1 DEF ValueSound, Exists
  <2>2. CASE u # t
    BY <1>1, <2>2 DEF IInv, ValueSound, Exists, EndsNear, Rewritten
  <2> QED
    BY <2>1, <2>2
<1>7. CallSound(c, client[c])'
  <2>1. CallShaped(client[c])'
    BY <1>0, <1>2 DEF CallShaped, Owning
  <2>2. WatchSound(c, client[c])'
    BY <1>2 DEF WatchSound, Watching
  <2>3. LeaseSound(client[c])'
    <3> SUFFICES ASSUME Live(x)' PROVE LeaseSound(client[c])'
      BY <1>2 DEF LeaseSound, Live
    <3>1. x.lease # 0
      BY <1>0 DEF Live, Call
    <3> QED
      BY <1>1, <1>2, <3>1 DEF LeaseSound
  <2> QED
    BY <2>1, <2>2, <2>3 DEF CallSound
<1>8. \A d \in Client : CallSound(d, client[d])'
  BY <1>4, <1>7
<1>9. LeaseExclusion'
  <2>1. ASSUME NEW w \in Worker \ {c} PROVE w \in Client \ {c}
    BY DEF Client
  <2>2. ASSUME NEW w \in Worker, w = c, client'[w].lease > now, NEW u \in Worker \ {c},
               client'[u].task = client'[w].task
        PROVE  ~(client'[u].lease > now)
    <3>1. x.lease # 0
      BY <1>0, <1>2, <2>2 DEF Call
    <3> QED
      BY <1>2, <1>4, <2>1, <2>2, <3>1 DEF Live
  <2>3. ASSUME NEW u \in Worker \ {c}, NEW w \in Worker \ {c}, u # w,
               client'[u].task = client'[w].task, client'[u].lease > now
        PROVE  ~(client'[w].lease > now)
    BY <1>4, <2>1, <2>3 DEF IInv, LeaseExclusion
  <2> QED
    BY <2>2, <2>3 DEF LeaseExclusion
<1> QED
  BY <1>5, <1>6, <1>8, <1>9 DEF IInv

\* PassSound depends only on the reclaim loop's own fields.
LEMMA PassKept ==
    ASSUME IInv, pass' = pass, client'[Reclaimer].pc = client[Reclaimer].pc
    PROVE  PassSound'
  BY DEF IInv, PassSound

\* A value that claim or reclaim accepts is not protected by a running lease.
LEMMA AcceptedIsFree ==
    ASSUME IInv, NEW c \in Client, Watching(client[c]), ~client[c].dirty
    PROVE  /\ client[c].task \in Task
           /\ client[c].read \in Value
           /\ client[c].read = redis[client[c].task]
           /\ Exists(client[c].task)
           /\ Claimable(client[c].read, client[c].at)
           /\ c = Reclaimer => LeaseExpired(client[c].read, client[c].at)
           /\ client[c].at <= now
           /\ \A d \in Worker : client[d].task = client[c].task => ~Live(client[d])
<1>1. CallSound(c, client[c]) /\ client[c] \in Call
  BY DEF IInv, TypeOK
<1>2. /\ client[c].task \in Task /\ client[c].read \in Value
      /\ client[c].read = redis[client[c].task]
      /\ Exists(client[c].task)
      /\ Claimable(client[c].read, client[c].at)
      /\ c = Reclaimer => LeaseExpired(client[c].read, client[c].at)
      /\ client[c].at <= now
  BY <1>1 DEF CallSound, CallShaped, WatchSound, Watching, Claimable, Client, Call
<1>3. ASSUME NEW d \in Worker, client[d].task = client[c].task, Live(client[d]) PROVE FALSE
  <2>1. CallSound(d, client[d]) /\ client[d] \in Call
    BY DEF IInv, TypeOK, Client
  <2>2. client[c].at \in Nat /\ now \in Nat /\ client[d].lease \in Nat
    BY <1>1, <2>1, RedisTaskStoreAssumption DEF Call, IInv, TypeOK
  <2> QED
    BY <1>2, <1>3, <2>1, <2>2 DEF CallSound, LeaseSound, Live, Claimable, LeaseExpired,
       Exists, Terminal
<1> QED
  BY <1>2, <1>3

\* The TTL command and the floor of one second: of a key that is there the
\* answer is off by less than a second.
LEMMA RemainingType ==
    ASSUME IInv, NEW t \in Task
    PROVE  /\ Remaining(t) \in Nat /\ Remaining(t) > 0
           /\ Exists(t) => /\ Remaining(t) * SECOND <= redis[t].ends - now + (SECOND - 1)
                           /\ redis[t].ends - now <= Remaining(t) * SECOND + (SECOND - 1)
<1>1. redis[t] \in Value /\ now \in Nat /\ ValueSound(t) /\ SECOND \in Nat \ {0}
  BY RedisTaskStoreAssumption DEF IInv, TypeOK
<1>2. CASE ~Exists(t)
  BY <1>2 DEF Remaining
<1>3. CASE Exists(t)
  <2>1. PICK d \in Nat \ {0} : d = redis[t].ends - now
    BY <1>1, <1>3 DEF ValueSound, Value
  <2>2. PICK h \in Nat : h = SECOND \div 2 /\ h < SECOND
    BY <1>1
  <2>3. PICK k : k = (d + h) \div SECOND
    OBVIOUS
  <2>4. Ttl(t) = k
    BY <2>1, <2>2, <2>3 DEF Ttl
  <2>5. d + h \in Nat
    BY <2>1, <2>2
  <2>6. k \in Nat /\ k * SECOND <= d + h /\ d + h <= k * SECOND + (SECOND - 1)
    BY <2>3, <2>5, Division
  <2>7. CASE k > 0
    <3>1. Remaining(t) = k
      BY <1>3, <2>4, <2>7 DEF Remaining
    <3>2. PICK p \in Int : p = k * SECOND
      BY <1>1, <2>6
    <3> QED
      BY <1>1, <2>1, <2>2, <2>6, <2>7, <3>1, <3>2
  <2>8. CASE ~(k > 0)
    <3>1. Remaining(t) = 1
      BY <2>4, <2>8 DEF Remaining
    <3>2. k = 0
      BY <2>6, <2>8
    <3>3. d + h <= SECOND - 1
      BY <1>1, <2>6, <3>2
    <3> QED
      BY <1>1, <2>1, <2>2, <3>1, <3>3
  <2> QED
    BY <2>7, <2>8
<1> QED
  BY <1>2, <1>3

-----------------------------------------------------------------------------
(* One lemma per command *)

LEMMA CreateStep ==
    ASSUME IInv, NEW t \in Task, NEW submitted \in 0..now, NEW at \in 0..now,
           Create(t, submitted, at)
    PROVE  IInv'
<1>0. /\ now \in Nat /\ submitted \in Nat /\ at \in Nat /\ submitted <= at /\ at <= now
      /\ TTL * SECOND \in Nat /\ TTL * SECOND >= SECOND /\ SECOND \in Nat \ {0}
  <2>1. now \in Nat /\ TTL \in Nat \ {0} /\ SECOND \in Nat \ {0}
    BY RedisTaskStoreAssumption DEF IInv, TypeOK
  <2> QED
    BY <2>1, TicksType DEF Create
<1> DEFINE expires == submitted + TTL * SECOND
           k == WholeSeconds(expires - at)
           v == [status |-> "queued", attempts |-> 0, locked |-> 0,
                 expires |-> expires, ends |-> EndOf(k)]
<1>e. expires \in Nat /\ expires - at \in Int /\ k \in Nat \ {0}
  <2>1. expires \in Nat /\ expires - at \in Int
    BY <1>0
  <2> QED
    BY <2>1, WholeSecondsBound
<1>1. EndOf(k) \in Nat /\ EndOf(k) > now /\ EndOf(k) = now + k * SECOND
  BY <1>0, <1>e, EndOfType
\* The end of the new key lies within a second below and the elapsed time above.
<1>f. /\ EndOf(k) <= expires + (now - submitted)
      /\ expires <= EndOf(k) + (SECOND - 1)
  <2>1. PICK p \in Int : p = k * SECOND
    BY <1>0, <1>e
  <2>2. PICK x \in Nat : x = expires /\ x >= submitted + SECOND
    BY <1>0, <1>e
  <2>3. CASE x - at < SECOND
    <3>1. k = 1
      BY <1>e, <2>2, <2>3, WholeSecondsBound
    <3>2. p = SECOND
      BY <1>0, <2>1, <3>1
    <3> QED
      BY <1>0, <1>1, <2>1, <2>2, <2>3, <3>2
  <2>4. CASE x - at >= SECOND
    <3>1. p <= x - at /\ x - at <= p + (SECOND - 1)
      BY <1>e, <2>1, <2>2, <2>4, WholeSecondsBound
    <3> QED
      BY <1>0, <1>1, <2>1, <2>2, <3>1
  <2> QED
    BY <1>0, <2>2, <2>3, <2>4
<1> HIDE DEF k, expires
<1>2. v \in Value /\ v.ends > now
  BY <1>1, <1>e DEF Value
<1>3. ASSUME NEW d \in Worker, client[d].task = t, Live(client[d]) PROVE FALSE
  <2>1. CallSound(d, client[d])
    BY DEF IInv, Client
  <2> QED
    BY <1>3, <2>1 DEF CallSound, LeaseSound, Create, Terminal
<1>4. /\ redis'[t] = v /\ \A u \in Task \ {t} : redis'[u] = redis[u]
      /\ client' = Written(t, client)
      /\ now' = now /\ pass' = pass /\ overrun' = overrun
      /\ redis' = [redis EXCEPT ![t] = v]
  BY DEF Create, Set, IInv, TypeOK, k, expires
<1>l. /\ lag' \in [Task -> Nat] /\ lag'[t] = now - submitted
      /\ \A u \in Task \ {t} : lag'[u] = lag[u]
  <2>1. now - submitted \in Nat
    BY <1>0
  <2> QED
    BY <2>1 DEF Create, IInv, TypeOK
<1>5. ASSUME NEW d \in Client
      PROVE  /\ client'[d] \in Call
             /\ client'[d].pc = client[d].pc /\ client'[d].task = client[d].task
             /\ client'[d].lease = client[d].lease
             /\ CallSound(d, client[d])'
  <2>1. client'[d] = IF client[d].task = t /\ Watching(client[d])
                     THEN [client[d] EXCEPT !.dirty = TRUE] ELSE client[d]
    BY <1>4 DEF Written
  <2> QED
    BY <1>2, <1>3, <1>4, <2>1, NotedCall
<1>6. TypeOK' /\ PassSound'
  <2>1. client' \in [Client -> Call]
    BY <1>4, <1>5 DEF Written
  <2>2. PassSound'
    BY <1>4, <1>5, PassKept DEF Client
  <2> QED
    BY <1>2, <1>4, <1>l, <2>1, <2>2 DEF IInv, TypeOK
<1>7. ASSUME NEW u \in Task PROVE ValueSound(u)'
  <2>1. CASE u = t
    <3>1. EndsNear(t)'
      <4>1. /\ redis'[t].ends = EndOf(k) /\ redis'[t].expires = expires
            /\ redis'[t].status = "queued" /\ redis'[t].attempts = 0
        BY <1>4
      <4>2. Rewritten(t)' = 0
        BY <4>1 DEF Rewritten
      <4>3. (SECOND - 1) * 0 = 0 /\ (SECOND - 1) * (0 + 1) = SECOND - 1
        BY <1>0
      <4>4. PICK n : n = Rewritten(t)'
        OBVIOUS
      <4>5. /\ redis'[t].ends <= redis'[t].expires + lag'[t] + (SECOND - 1) * n
            /\ redis'[t].expires <= redis'[t].ends + (SECOND - 1) * (n + 1)
        BY <1>0, <1>1, <1>e, <1>f, <1>l, <4>1, <4>2, <4>3, <4>4
      <4> QED
        BY <4>4, <4>5 DEF EndsNear
    <3> QED
      BY <1>1, <1>2, <1>4, <2>1, <3>1 DEF ValueSound, Exists
  <2>2. CASE u # t
    BY <1>4, <1>l, <2>2 DEF IInv, ValueSound, Exists, EndsNear, Rewritten
  <2> QED
    BY <2>1, <2>2
<1>8. LeaseExclusion'
  BY <1>4, <1>5 DEF IInv, LeaseExclusion, Client
<1> QED
  BY <1>5, <1>6, <1>7, <1>8 DEF IInv

LEMMA ReceiveStep ==
    ASSUME IInv, NEW w \in Worker, NEW t \in Task, Receive(w, t)
    PROVE  IInv'
<1> DEFINE x == [client[w] EXCEPT !.pc = "watch", !.task = t, !.at = now]
<1>1. w \in Client /\ client[w] \in Call /\ now \in Nat /\ CallSound(w, client[w])
  BY RedisTaskStoreAssumption DEF Client, IInv, TypeOK
<1>2. client' = [client EXCEPT ![w] = x] /\ client[w].pc = "idle" /\ w # Reclaimer
  BY RedisTaskStoreAssumption DEF Receive
<1>3. x \in Call /\ x.pc = "watch" /\ x.task = t /\ x.at = now /\ x.lease = client[w].lease
  BY <1>1 DEF Call
<1>4. client[w].lease = 0 /\ ~(0 > now)
  BY <1>1, <1>2 DEF CallSound, CallShaped, Owning
<1>5. CallSound(w, x)
  BY <1>1, <1>3, <1>4 DEF CallSound, CallShaped, WatchSound, Watching, LeaseSound, Live, Owning
<1>6. PassSound'
  <2>1. client'[Reclaimer] = client[Reclaimer]
    BY <1>1, <1>2 DEF IInv, TypeOK, Client
  <2> QED
    BY <2>1, PassKept DEF Receive
<1> QED
  BY <1>1, <1>2, <1>3, <1>4, <1>5, <1>6, QuietStep DEF Receive

\* WATCH and GET, of either caller.
LEMMA ReadStep ==
    ASSUME IInv, NEW c \in Client, client[c].pc = "watch", NEW accepts \in BOOLEAN, NEW ended,
           Read(c, accepts, ended),
           c \in Worker /\ accepts => Claimable(redis[client[c].task], client[c].at),
           c = Reclaimer /\ accepts => LeaseExpired(redis[client[c].task], client[c].at),
           CallSound(c, ended), ended.lease = 0,
           c = Reclaimer => ended.pc = "scan",
           UNCHANGED <<now, redis, pass, overrun, lag>>
    PROVE  IInv'
<1> DEFINE t == client[c].task
           x == [client[c] EXCEPT !.pc = "read", !.read = redis[t], !.dirty = FALSE]
<1>1. client[c] \in Call /\ CallSound(c, client[c]) /\ now \in Nat
  BY RedisTaskStoreAssumption DEF IInv, TypeOK
<1>2. t \in Task /\ redis[t] \in Value /\ client[c].lease = 0
  BY <1>1 DEF CallSound, CallShaped, IInv, TypeOK, Owning
<1>3. CASE Exists(t) /\ accepts
  <2>1. client' = [client EXCEPT ![c] = x]
    BY <1>3 DEF Read
  <2>2. /\ x \in Call /\ x.pc = "read" /\ x.read = redis[t] /\ ~x.dirty
        /\ x.task = t /\ x.at = client[c].at /\ x.lease = 0 /\ x.status = client[c].status
    BY <1>1, <1>2 DEF Call
  <2>3. CallSound(c, x)
    BY <1>1, <1>2, <1>3, <2>2 DEF CallSound, CallShaped, WatchSound, Watching, LeaseSound,
       Live, Owning
  <2>4. PassSound'
    <3>1. client'[Reclaimer].pc \in {"watch", "read", "exec"}
              => client[Reclaimer].pc \in {"watch", "read", "exec"}
      BY <2>1, <2>2 DEF IInv, TypeOK, Client
    <3> QED
      BY <3>1 DEF IInv, PassSound
  <2> QED
    BY <1>2, <2>1, <2>2, <2>3, <2>4, QuietStep
<1>4. CASE ~(Exists(t) /\ accepts)
  <2>1. client' = [client EXCEPT ![c] = ended]
    BY <1>4 DEF Read
  <2>2. PassSound'
    <3>1. client'[Reclaimer].pc \in {"watch", "read", "exec"}
              => client[Reclaimer].pc \in {"watch", "read", "exec"}
      BY <2>1 DEF IInv, TypeOK, Client
    <3> QED
      BY <3>1 DEF IInv, PassSound
  <2> QED
    BY <2>1, <2>2, QuietStep
<1> QED
  BY <1>3, <1>4

LEMMA TransitionTtlStep ==
    ASSUME IInv, NEW c \in Client, TransitionTtl(c)
    PROVE  IInv'
<1> DEFINE x == [client[c] EXCEPT !.pc = "exec", !.ttl = Remaining(client[c].task)]
<1>1. client[c] \in Call /\ CallSound(c, client[c]) /\ now \in Nat /\ client[c].pc = "read"
  BY RedisTaskStoreAssumption DEF IInv, TypeOK, TransitionTtl
<1>2. client[c].task \in Task /\ client[c].lease = 0
  BY <1>1 DEF CallSound, CallShaped, Owning
<1>3. Remaining(client[c].task) \in Nat /\ Remaining(client[c].task) > 0
  BY <1>2, RemainingType
<1>4. /\ x \in Call /\ x.pc = "exec" /\ x.ttl > 0 /\ x.task = client[c].task
      /\ x.at = client[c].at /\ x.lease = 0 /\ x.read = client[c].read
      /\ x.dirty = client[c].dirty
  BY <1>1, <1>2, <1>3 DEF Call
<1>s. ~x.dirty => TtlSound(x)
  <2> SUFFICES ASSUME ~x.dirty PROVE TtlSound(x)
    OBVIOUS
  <2>1. Exists(x.task) /\ x.read = redis[x.task]
    BY <1>1, <1>4 DEF CallSound, WatchSound, Watching
  <2>2. PICK k \in Nat : k = Remaining(client[c].task) /\ k = x.ttl
    BY <1>1, <1>3 DEF Call
  <2>3. PICK p \in Int : p = k * SECOND
    BY RedisTaskStoreAssumption
  <2>4. PICK e \in Nat : e = x.read.ends /\ e = redis[x.task].ends
    BY <1>2, <1>4, <2>1 DEF Value, IInv, TypeOK
  <2>5. p <= e - now + (SECOND - 1) /\ e - now <= p + (SECOND - 1)
    BY <1>2, <1>4, <2>1, <2>2, <2>3, <2>4, RemainingType
  <2>6. x.at \in Nat /\ x.at <= now /\ SECOND \in Nat
    BY <1>1, <1>4, RedisTaskStoreAssumption DEF Call, CallSound, CallShaped
  <2>7. p + x.at <= e + (SECOND - 1) /\ e <= now + p + (SECOND - 1)
    BY <1>1, <2>5, <2>6
  <2> QED
    BY <2>2, <2>3, <2>4, <2>7 DEF TtlSound
<1>5. CallSound(c, x)
  <2>1. CallShaped(x)
    BY <1>1, <1>2, <1>4 DEF CallSound, CallShaped, Owning
  <2>2. WatchSound(c, x)
    BY <1>1, <1>2, <1>4, <1>s DEF CallSound, WatchSound, Watching, Claimable, LeaseExpired
  <2>3. LeaseSound(x)
    BY <1>1, <1>4 DEF LeaseSound, Live
  <2> QED
    BY <2>1, <2>2, <2>3 DEF CallSound
<1>6. client' = [client EXCEPT ![c] = x]
  BY DEF TransitionTtl
<1>7. PassSound'
  <2>1. client'[Reclaimer].pc \in {"watch", "read", "exec"}
            => client[Reclaimer].pc \in {"watch", "read", "exec"}
    BY <1>1, <1>4, <1>6 DEF IInv, TypeOK, Client
  <2> QED
    BY <2>1 DEF IInv, PassSound, TransitionTtl
<1> QED
  BY <1>4, <1>5, <1>6, <1>7, QuietStep DEF TransitionTtl

\* WatchError: the loop starts again, with the time it had.
LEMMA RetryStep ==
    ASSUME IInv, NEW c \in Client, client[c].pc = "exec",
           client' = [client EXCEPT ![c].pc = "watch", ![c].read = NoValue,
                                    ![c].dirty = FALSE, ![c].ttl = 0],
           UNCHANGED <<now, redis, pass, overrun, lag>>
    PROVE  IInv'
<1> DEFINE x == [client[c] EXCEPT !.pc = "watch", !.read = NoValue, !.dirty = FALSE, !.ttl = 0]
<1>1. client[c] \in Call /\ CallSound(c, client[c]) /\ now \in Nat
  BY RedisTaskStoreAssumption DEF IInv, TypeOK
<1>2. client[c].task \in Task /\ client[c].lease = 0
  BY <1>1 DEF CallSound, CallShaped, Owning
<1>3. /\ x \in Call /\ x.pc = "watch" /\ x.task = client[c].task
      /\ x.at = client[c].at /\ x.lease = 0
  BY <1>1, <1>2, NoValueType DEF Call
<1>4. CallSound(c, x)
  BY <1>1, <1>2, <1>3 DEF CallSound, CallShaped, WatchSound, Watching, LeaseSound, Live, Owning
<1>5. client' = [client EXCEPT ![c] = x]
  OBVIOUS
<1>6. PassSound'
  <2>1. client'[Reclaimer].pc \in {"watch", "read", "exec"}
            => client[Reclaimer].pc \in {"watch", "read", "exec"}
    BY <1>3, <1>5 DEF IInv, TypeOK, Client
  <2> QED
    BY <2>1 DEF IInv, PassSound
<1> QED
  BY <1>3, <1>4, <1>5, <1>6, QuietStep

\* What claim and reclaim store, and what they leave of the value they read.
LEMMA ClaimedValue ==
    ASSUME NEW r \in Value, NEW at \in Nat, NEW ends \in Nat
    PROVE  LET v == [Claimed(r, at) EXCEPT !.ends = ends]
           IN  /\ v \in Value /\ v.status = "processing" /\ v.locked = at + LeaseTicks
               /\ v.attempts = r.attempts + 1 /\ v.expires = r.expires /\ v.ends = ends
<1>0. r.attempts + 1 \in Nat /\ at + LeaseTicks \in Nat /\ r.expires \in Nat /\ r.ends \in Nat
  BY LeaseType DEF Value
<1>1. Claimed(r, at) \in Value
  BY <1>0 DEF Claimed, Value
<1>2. /\ Claimed(r, at).status = "processing" /\ Claimed(r, at).locked = at + LeaseTicks
      /\ Claimed(r, at).attempts = r.attempts + 1 /\ Claimed(r, at).expires = r.expires
  BY DEF Claimed, Value
<1> QED
  BY <1>1, <1>2 DEF Value

LEMMA ReclaimedValue ==
    ASSUME NEW r \in Value, NEW ends \in Nat
    PROVE  LET v == [Reclaimed(r) EXCEPT !.ends = ends]
           IN  /\ v \in Value /\ v.locked = 0 /\ v.attempts = r.attempts
               /\ v.status = IF r.attempts >= TASKS_MAX_ATTEMPTS THEN "failed" ELSE "queued"
               /\ v.expires = r.expires /\ v.ends = ends
<1>1. Reclaimed(r) \in Value
  BY DEF Reclaimed, Value, Terminal
<1>2. /\ Reclaimed(r).status = IF r.attempts >= TASKS_MAX_ATTEMPTS THEN "failed" ELSE "queued"
      /\ Reclaimed(r).locked = 0 /\ Reclaimed(r).attempts = r.attempts
      /\ Reclaimed(r).expires = r.expires
  BY DEF Reclaimed, Value
<1> QED
  BY <1>1, <1>2 DEF Value

LEMMA MarkedValue ==
    ASSUME NEW x \in Call, x.status \in Terminal, x.ttl > 0, now \in Nat
    PROVE  /\ Marked(x) \in Value /\ Marked(x).status = x.status /\ Marked(x).locked = 0
           /\ Marked(x).attempts = x.read.attempts
           /\ Marked(x).ends = EndOf(x.ttl) /\ EndOf(x.ttl) > now
<1>1. x.read \in Value /\ x.ttl \in Nat \ {0}
  BY DEF Call
<1>2. EndOf(x.ttl) \in Nat /\ EndOf(x.ttl) > now
  BY <1>1, EndOfType
<1>v. x.read.locked \in Nat /\ x.read.attempts \in Nat /\ x.read.expires \in Nat
  BY <1>1 DEF Value
<1>3. Marked(x) \in Value
  BY <1>1, <1>2, <1>v DEF Marked, Value
<1> QED
  BY <1>1, <1>2, <1>3 DEF Marked, Value

LEMMA LagGrows ==
    ASSUME lag \in [Task -> Nat], NEW t \in Task, NEW at \in Nat, now \in Nat, at <= now,
           lag' = [lag EXCEPT ![t] = @ + now - at]
    PROVE  /\ lag' \in [Task -> Nat] /\ lag'[t] = lag[t] + (now - at)
           /\ \A u \in Task \ {t} : lag'[u] = lag[u]
<1>1. lag[t] \in Nat
  OBVIOUS
<1>2. lag[t] + now - at = lag[t] + (now - at) /\ lag[t] + now - at \in Nat
  BY <1>1
<1> QED
  BY <1>2

\* A transaction that commits moves the end of the key by less than a second
\* and the time it took, which the count of writes and lag allow for.
LEMMA ShiftedEnd ==
    ASSUME IInv, NEW c \in Client, client[c].pc = "exec", ~client[c].dirty,
           NEW t \in Task, t = client[c].task, redis[t].status \in {"queued", "processing"},
           redis'[t].ends = EndOf(client[c].ttl), redis'[t].expires = redis[t].expires,
           lag'[t] = lag[t] + (now - client[c].at),
           Rewritten(t)' \in {Rewritten(t) + 1, Rewritten(t) + 2}
    PROVE  EndsNear(t)'
<1>1. /\ client[c] \in Call /\ CallSound(c, client[c]) /\ now \in Nat
      /\ SECOND \in Nat \ {0} /\ redis[t] \in Value /\ lag[t] \in Nat
      /\ EndsNear(t)
  BY RedisTaskStoreAssumption DEF IInv, TypeOK, ValueSound, Exists, Terminal
<1>2. TtlSound(client[c]) /\ client[c].read = redis[t]
  BY <1>1 DEF CallSound, WatchSound, Watching
<1>3. /\ client[c].at \in Nat /\ client[c].ttl \in Nat \ {0}
  BY <1>1 DEF Call, CallSound, CallShaped
<1>4. EndOf(client[c].ttl) = now + client[c].ttl * SECOND
  BY DEF EndOf
<1>5. PICK p \in Int : p = client[c].ttl * SECOND
  BY <1>1, <1>3
<1>6. PICK e \in Nat : e = redis[t].ends
  BY <1>1 DEF Value
<1>7. PICK x \in Nat : x = redis[t].expires
  BY <1>1 DEF Value
<1>8. p + client[c].at <= e + (SECOND - 1) /\ e <= now + p + (SECOND - 1)
  BY <1>2, <1>5, <1>6 DEF TtlSound
<1>9. PICK n \in Int : n = Rewritten(t)
  BY <1>1 DEF Rewritten, Value
<1>10. PICK m \in Int : m = Rewritten(t)' /\ m \in {n + 1, n + 2}
  BY <1>9
<1>11. PICK a \in Int : a = (SECOND - 1) * n
  BY <1>1
<1>12. /\ (SECOND - 1) * (n + 1) = a + (SECOND - 1)
       /\ (SECOND - 1) * m >= a + (SECOND - 1)
       /\ (SECOND - 1) * (m + 1) = (SECOND - 1) * m + (SECOND - 1)
  <2>1. PICK r \in Nat : r = SECOND - 1
    BY <1>1
  <2>2. r * (n + 1) = r * n + r /\ r * (n + 2) = r * n + r + r /\ r * (m + 1) = r * m + r
    BY <2>1
  <2>3. r * m >= r * n + r
    BY <1>10, <2>1, <2>2
  <2> QED
    BY <1>11, <2>1, <2>2, <2>3
<1>13. PICK b \in Int : b = (SECOND - 1) * m
  BY <1>1
<1>14. e <= x + lag[t] + a /\ x <= e + (a + (SECOND - 1))
  BY <1>1, <1>6, <1>7, <1>9, <1>11, <1>12 DEF EndsNear
<1>15. /\ now + p <= x + (lag[t] + (now - client[c].at)) + b
       /\ x <= now + p + (b + (SECOND - 1))
  BY <1>1, <1>3, <1>8, <1>12, <1>13, <1>14
<1>16. /\ redis'[t].ends = now + p /\ redis'[t].expires = x
       /\ lag'[t] = lag[t] + (now - client[c].at)
  BY <1>4, <1>5, <1>7
<1>17. /\ redis'[t].ends <= redis'[t].expires + lag'[t] + (SECOND - 1) * m
       /\ redis'[t].expires <= redis'[t].ends + (SECOND - 1) * (m + 1)
  BY <1>12, <1>13, <1>15, <1>16
<1> QED
  BY <1>10, <1>17 DEF EndsNear

LEMMA ClaimExecStep ==
    ASSUME IInv, NEW w \in Worker, ClaimExec(w)
    PROVE  IInv'
<1> DEFINE c == client[w]
<1>1. w \in Client /\ c \in Call /\ CallSound(w, c) /\ c.pc = "exec" /\ w # Reclaimer
      /\ now \in Nat /\ LeaseTicks \in Nat /\ LeaseTicks > 0
  BY LeaseType, RedisTaskStoreAssumption DEF Client, IInv, TypeOK, ClaimExec
<1>2. client'[Reclaimer].pc = client[Reclaimer].pc /\ pass' = pass /\ now' = now
      /\ overrun' = overrun
  <2>1. CASE c.dirty
    BY <1>1, <2>1 DEF ClaimExec, Exec, IInv, TypeOK, Client
  <2>2. CASE ~c.dirty
    BY <1>1, <2>2 DEF ClaimExec, Exec, Set, Written, IInv, TypeOK, Client, Call
  <2> QED
    BY <2>1, <2>2
<1>3. CASE c.dirty
  BY <1>1, <1>3, RetryStep DEF ClaimExec, Exec
<1>4. CASE ~c.dirty
  <2>0. PICK t \in Task : t = c.task
    BY <1>1 DEF CallSound, CallShaped
  <2> DEFINE ends == EndOf(c.ttl)
             v == [Claimed(c.read, c.at) EXCEPT !.ends = ends]
             x == [Idle EXCEPT !.pc = "working", !.task = t, !.lease = c.at + LeaseTicks]
  <2>1. /\ t \in Task /\ c.read \in Value /\ c.read = redis[t] /\ Exists(t)
        /\ Claimable(c.read, c.at) /\ c.at <= now
        /\ \A d \in Worker : client[d].task = t => ~Live(client[d])
    BY <1>1, <1>4, <2>0, AcceptedIsFree DEF Watching
  <2>2. c.at \in Nat /\ c.ttl \in Nat \ {0} /\ ends \in Nat /\ ends > now
    <3>1. c.at \in Nat /\ c.ttl \in Nat \ {0}
      BY <1>1 DEF Call, CallSound, CallShaped
    <3> QED
      BY <1>1, <3>1, EndOfType
  <2>3. /\ v \in Value /\ v.status = "processing" /\ v.locked = c.at + LeaseTicks
        /\ v.expires = redis[t].expires /\ v.ends = ends
        /\ v.attempts = redis[t].attempts + 1
    BY <1>1, <2>1, <2>2, ClaimedValue
  <2>4. /\ x \in Call /\ x.pc = "working" /\ x.task = t /\ x.lease = c.at + LeaseTicks
        /\ x.at = 0 /\ x.lease # 0
    <3>1. c.at + LeaseTicks \in Nat /\ c.at + LeaseTicks # 0
      BY <1>1, <2>2
    <3>2. x \in Call
      BY <2>1, <3>1, IdleType DEF Call
    <3> QED
      BY <3>1, <3>2, IdleType DEF Call
  <2>5. /\ Set(t, v, [client EXCEPT ![w] = x])
        /\ lag' = [lag EXCEPT ![t] = @ + now - c.at]
    BY <1>4, <2>0 DEF ClaimExec, Exec
  <2>7. /\ lag' \in [Task -> Nat] /\ lag'[t] = lag[t] + (now - c.at)
        /\ \A u \in Task \ {t} : lag'[u] = lag[u]
        /\ overrun' \subseteq Task
    BY <1>1, <1>2, <2>1, <2>2, <2>5, LagGrows DEF IInv, TypeOK
  <2>6. EndsNear(t)'
    <3>1. redis'[t] = v
      BY <2>1, <2>5 DEF Set, IInv, TypeOK
    <3>2. redis[t].status \in {"queued", "processing"}
      BY <2>1 DEF Claimable, LeaseExpired
    <3>3. Rewritten(t)' \in {Rewritten(t) + 1, Rewritten(t) + 2}
      <4>1. redis[t].attempts \in Nat
        BY <2>1 DEF Value
      <4> QED
        BY <2>3, <3>1, <3>2, <4>1 DEF Rewritten
    <3> HIDE DEF v, x, ends
    <3> QED
      BY <1>1, <1>4, <2>0, <2>1, <2>3, <2>7, <3>1, <3>2, <3>3, ShiftedEnd DEF ends
  <2>8. PassSound'
    BY <1>2, PassKept
  <2> HIDE DEF v, x, ends
  <2> QED
    BY <1>1, <1>2, <2>1, <2>2, <2>3, <2>4, <2>5, <2>6, <2>7, <2>8, WriteStep DEF Watching, Terminal
<1> QED
  BY <1>3, <1>4

LEMMA ReclaimExecStep ==
    ASSUME IInv, ReclaimExec
    PROVE  IInv'
<1> DEFINE c == client[Reclaimer]
           next == NextKey
<1>1. Reclaimer \in Client /\ c \in Call /\ CallSound(Reclaimer, c) /\ c.pc = "exec"
      /\ now \in Nat /\ Reclaimer \notin Worker
  BY RedisTaskStoreAssumption DEF Client, IInv, TypeOK, ReclaimExec
<1>2. CASE c.dirty
  BY <1>1, <1>2, RetryStep DEF ReclaimExec, Exec
<1>3. CASE ~c.dirty
  <2>0. PICK t \in Task : t = c.task
    BY <1>1 DEF CallSound, CallShaped
  <2> DEFINE ends == EndOf(c.ttl)
             v == [Reclaimed(c.read) EXCEPT !.ends = ends]
  <2>1. /\ t \in Task /\ c.read \in Value /\ c.read = redis[t] /\ Exists(t)
        /\ LeaseExpired(c.read, c.at) /\ c.at <= now
        /\ \A d \in Worker : client[d].task = t => ~Live(client[d])
    BY <1>1, <1>3, <2>0, AcceptedIsFree DEF Watching
  <2>2. c.at \in Nat /\ c.ttl \in Nat \ {0} /\ ends \in Nat /\ ends > now
    <3>1. c.at \in Nat /\ c.ttl \in Nat \ {0}
      BY <1>1 DEF Call, CallSound, CallShaped
    <3> QED
      BY <1>1, <3>1, EndOfType
  <2>3. /\ v \in Value /\ v.status \in {"queued", "failed"}
        /\ v.expires = redis[t].expires /\ v.ends = ends /\ v.attempts = redis[t].attempts
    BY <2>1, <2>2, ReclaimedValue
  <2>4. next \in Call /\ next.pc = "scan" /\ next.lease = 0 /\ next.at = c.at
    <3>1. Idle \in Call
      BY IdleType
    <3> QED
      BY <2>2, <3>1, IdleType DEF Call, NextKey
  <2>5. /\ Set(t, v, [client EXCEPT ![Reclaimer] = next])
        /\ lag' = [lag EXCEPT ![t] = @ + now - c.at]
        /\ now' = now /\ overrun' = overrun
        /\ pass' = [pass EXCEPT !.settled = @ + 1]
    BY <1>3, <2>0 DEF ReclaimExec, Exec
  <2>7. /\ lag' \in [Task -> Nat] /\ lag'[t] = lag[t] + (now - c.at)
        /\ \A u \in Task \ {t} : lag'[u] = lag[u]
        /\ overrun' \subseteq Task
    BY <1>1, <2>1, <2>2, <2>5, LagGrows DEF IInv, TypeOK
  <2>6. v.status \notin Terminal => EndsNear(t)'
    <3> SUFFICES ASSUME v.status \notin Terminal PROVE EndsNear(t)'
      OBVIOUS
    <3>1. redis'[t] = v
      BY <2>1, <2>5 DEF Set, IInv, TypeOK
    <3>2. redis[t].status = "processing" /\ v.status = "queued"
      BY <2>1, <2>3 DEF LeaseExpired, Terminal
    <3>3. Rewritten(t)' = Rewritten(t) + 1
      <4>1. redis[t].attempts \in Nat
        BY <2>1 DEF Value
      <4> QED
        BY <2>3, <3>1, <3>2, <4>1 DEF Rewritten
    <3> HIDE DEF v, next, ends
    <3> QED
      BY <1>1, <1>3, <2>0, <2>1, <2>3, <2>7, <3>1, <3>2, <3>3, ShiftedEnd DEF ends
  <2>8. PassSound'
    <3>1. client'[Reclaimer] = next
      BY <1>1, <2>4, <2>5 DEF Set, Written, Watching, IInv, TypeOK
    <3>2. pass.settled < TASKS_RECLAIM_BATCH_SIZE
      BY <1>1 DEF IInv, PassSound
    <3>3. pass' \in [todo : SUBSET Task, settled : 0..TASKS_RECLAIM_BATCH_SIZE]
      BY <2>5, <3>2, RedisTaskStoreAssumption DEF IInv, PassSound
    <3> QED
      BY <2>4, <3>1, <3>3 DEF PassSound
  <2> HIDE DEF v, next, ends
  <2> QED
    BY <1>1, <2>1, <2>2, <2>3, <2>4, <2>5, <2>6, <2>7, <2>8, WriteStep DEF Watching
<1> QED
  BY <1>2, <1>3

LEMMA UpdateGetStep ==
    ASSUME IInv, NEW w \in Worker, NEW s \in Terminal, UpdateGet(w, s)
    PROVE  IInv'
<1> DEFINE t == client[w].task
           x == [client[w] EXCEPT !.pc = "ttl", !.read = redis[t], !.status = s]
<1>1. w \in Client /\ client[w] \in Call /\ CallSound(w, client[w]) /\ client[w].pc = "working"
      /\ now \in Nat /\ w # Reclaimer
  BY RedisTaskStoreAssumption DEF Client, IInv, TypeOK, UpdateGet
<1>2. t \in Task /\ redis[t] \in Value
  BY <1>1 DEF CallSound, CallShaped, Owning, IInv, TypeOK
<1>3. PassSound'
  <2>1. client'[Reclaimer] = client[Reclaimer]
    BY <1>1 DEF UpdateGet, IInv, TypeOK, Client
  <2> QED
    BY <2>1, PassKept DEF UpdateGet
<1>4. CASE Exists(t)
  <2>1. client' = [client EXCEPT ![w] = x]
    BY <1>4 DEF UpdateGet
  <2>2. /\ x \in Call /\ x.pc = "ttl" /\ x.read = redis[t] /\ x.status = s
        /\ x.task = t /\ x.at = client[w].at /\ x.lease = client[w].lease
    BY <1>1, <1>2 DEF Call
  <2>3. CallSound(w, x)
    BY <1>1, <1>2, <2>2 DEF CallSound, CallShaped, WatchSound, Watching, LeaseSound, Live, Owning
  <2> QED
    BY <1>1, <1>3, <2>1, <2>2, <2>3, QuietStep DEF UpdateGet
<1>5. CASE ~Exists(t)
  BY <1>1, <1>3, <1>5, IdleSound, IdleType, QuietStep DEF UpdateGet, IInv
<1> QED
  BY <1>4, <1>5

LEMMA UpdateTtlStep ==
    ASSUME IInv, NEW w \in Worker, UpdateTtl(w)
    PROVE  IInv'
<1> DEFINE x == [client[w] EXCEPT !.pc = "setex", !.ttl = Remaining(client[w].task)]
<1>1. w \in Client /\ client[w] \in Call /\ CallSound(w, client[w]) /\ client[w].pc = "ttl"
      /\ now \in Nat /\ w # Reclaimer
  BY RedisTaskStoreAssumption DEF Client, IInv, TypeOK, UpdateTtl
<1>2. client[w].task \in Task
  BY <1>1 DEF CallSound, CallShaped, Owning
<1>3. Remaining(client[w].task) \in Nat /\ Remaining(client[w].task) > 0
  BY <1>2, RemainingType
<1>4. /\ x \in Call /\ x.pc = "setex" /\ x.ttl > 0 /\ x.task = client[w].task
      /\ x.at = client[w].at /\ x.lease = client[w].lease /\ x.read = client[w].read
      /\ x.status = client[w].status
  BY <1>1, <1>2, <1>3 DEF Call
<1>5. CallSound(w, x)
  BY <1>1, <1>2, <1>4 DEF CallSound, CallShaped, WatchSound, Watching, LeaseSound, Live, Owning
<1>6. client' = [client EXCEPT ![w] = x]
  BY DEF UpdateTtl
<1>7. PassSound'
  <2>1. client'[Reclaimer] = client[Reclaimer]
    BY <1>1, <1>6 DEF IInv, TypeOK, Client
  <2> QED
    BY <2>1, PassKept DEF UpdateTtl
<1> QED
  BY <1>1, <1>4, <1>5, <1>6, <1>7, QuietStep DEF UpdateTtl

\* The unguarded write: under a running lease the worker is alone, otherwise
\* it is an overrun.
LEMMA UpdateSetexStep ==
    ASSUME IInv, NEW w \in Worker, UpdateSetex(w)
    PROVE  IInv'
<1> DEFINE t == client[w].task
           v == Marked(client[w])
<1>1. w \in Client /\ client[w] \in Call /\ CallSound(w, client[w]) /\ client[w].pc = "setex"
      /\ now \in Nat /\ w # Reclaimer
  BY RedisTaskStoreAssumption DEF Client, IInv, TypeOK, UpdateSetex
<1>2. t \in Task /\ client[w].status \in Terminal /\ client[w].ttl > 0 /\ client[w].ttl \in Nat
  BY <1>1 DEF CallSound, CallShaped, Owning, Call
<1>3. v \in Value /\ v.status \in Terminal /\ v.ends = EndOf(client[w].ttl) /\ v.ends > now
  BY <1>1, <1>2, MarkedValue
<1>4. /\ Set(t, v, [client EXCEPT ![w] = Idle])
      /\ overrun' = IF client[w].lease <= now THEN overrun \union {t} ELSE overrun
      /\ now' = now /\ pass' = pass /\ lag' = lag
  BY DEF UpdateSetex
<1>5. \/ \A d \in Worker \ {w} : client[d].task = t => ~Live(client[d])
      \/ t \in overrun'
  <2>1. CASE client[w].lease <= now
    BY <1>4, <2>1
  <2>2. CASE ~(client[w].lease <= now)
    BY <1>1, <2>2 DEF IInv, LeaseExclusion, Live, Call
  <2> QED
    BY <2>1, <2>2
<1>6. /\ overrun \subseteq overrun' /\ overrun' \subseteq Task
      /\ lag' \in [Task -> Nat] /\ \A u \in Task \ {t} : lag'[u] = lag[u]
  BY <1>2, <1>4 DEF IInv, TypeOK
<1>7. PassSound'
  <2>1. client'[Reclaimer].pc = client[Reclaimer].pc
    BY <1>1, <1>4 DEF Set, Written, IInv, TypeOK, Client, Call
  <2> QED
    BY <1>4, <2>1, PassKept
<1>8. v.ends > now /\ v.status \notin {"none", "purged"} /\ 0 <= now
  BY <1>1, <1>2, <1>3 DEF Terminal
<1> HIDE DEF v, t
<1> QED
  BY <1>1, <1>2, <1>3, <1>4, <1>5, <1>6, <1>7, <1>8, IdleType, WriteStep DEF Watching

LEMMA AbandonStep ==
    ASSUME IInv, NEW w \in Worker, Abandon(w)
    PROVE  IInv'
<1>1. w \in Client /\ w # Reclaimer
  BY RedisTaskStoreAssumption DEF Client
<1>2. PassSound'
  <2>1. client'[Reclaimer] = client[Reclaimer]
    BY <1>1 DEF Abandon, IInv, TypeOK, Client
  <2> QED
    BY <2>1, PassKept DEF Abandon
<1> QED
  BY <1>1, <1>2, IdleSound, IdleType, QuietStep DEF Abandon, IInv

LEMMA ClaimReadStep ==
    ASSUME IInv, NEW w \in Worker, ClaimRead(w)
    PROVE  IInv'
<1>1. w \in Client /\ w # Reclaimer
  BY RedisTaskStoreAssumption DEF Client
<1>2. CallSound(w, Idle)
  BY <1>1, IdleSound DEF IInv
<1> DEFINE accepts == Claimable(redis[client[w].task], client[w].at)
<1>3. accepts \in BOOLEAN
  BY DEF Claimable, LeaseExpired
<1>4. /\ Read(w, accepts, Idle) /\ client[w].pc = "watch"
      /\ UNCHANGED <<now, redis, pass, overrun, lag>>
      /\ accepts => Claimable(redis[client[w].task], client[w].at)
  BY DEF ClaimRead
<1> HIDE DEF accepts
<1> QED
  BY <1>1, <1>2, <1>3, <1>4, IdleType, ReadStep

\* Between two keys the reclaim loop keeps the time it read, and nothing else.
LEMMA NextKeySound ==
    ASSUME IInv
    PROVE  CallSound(Reclaimer, NextKey) /\ NextKey.pc = "scan" /\ NextKey.lease = 0
<1>1. client[Reclaimer] \in Call /\ CallSound(Reclaimer, client[Reclaimer])
      /\ Reclaimer \notin Worker
  BY RedisTaskStoreAssumption DEF Client, IInv, TypeOK
<1>2. client[Reclaimer].at \in Nat /\ client[Reclaimer].at <= now
  BY <1>1 DEF CallSound, CallShaped, Call
<1>3. NextKey \in Call
  BY <1>2, IdleType DEF NextKey, Call
<1>4. NextKey.pc = "scan" /\ NextKey.lease = 0 /\ NextKey.at = client[Reclaimer].at
  BY IdleType DEF NextKey, Call
<1> QED
  BY <1>1, <1>2, <1>3, <1>4 DEF CallSound, CallShaped, WatchSound, Watching, Owning

LEMMA ReclaimReadStep ==
    ASSUME IInv, ReclaimRead
    PROVE  IInv'
<1>1. Reclaimer \in Client /\ Reclaimer \notin Worker
  BY RedisTaskStoreAssumption DEF Client
<1> DEFINE c == client[Reclaimer]
           accepts == LeaseExpired(redis[c.task], c.at)
<1>2. accepts \in BOOLEAN
  BY DEF LeaseExpired
<1>3. /\ Read(Reclaimer, accepts, NextKey) /\ c.pc = "watch"
      /\ UNCHANGED <<now, redis, pass, overrun, lag>>
      /\ accepts => LeaseExpired(redis[c.task], c.at)
  BY DEF ReclaimRead
<1> HIDE DEF accepts
<1> QED
  BY <1>1, <1>2, <1>3, NextKeySound, ReadStep

LEMMA ScanStep ==
    ASSUME IInv, Scan
    PROVE  IInv'
<1> DEFINE c == client[Reclaimer]
           x == [c EXCEPT !.pc = "scan", !.at = now]
<1>1. Reclaimer \in Client /\ c \in Call /\ CallSound(Reclaimer, c) /\ c.pc = "idle"
      /\ now \in Nat /\ Reclaimer \notin Worker
  BY RedisTaskStoreAssumption DEF Client, IInv, TypeOK, Scan
<1>2. x \in Call /\ x.pc = "scan" /\ x.at = now /\ x.lease = c.lease /\ c.lease = 0
  BY <1>1 DEF Call, CallSound, CallShaped, Owning
<1>3. CallSound(Reclaimer, x)
  BY <1>1, <1>2 DEF CallSound, CallShaped, WatchSound, Watching, Owning
<1>4. client' = [client EXCEPT ![Reclaimer] = x]
  BY DEF Scan
<1>5. PassSound'
  BY <1>1, <1>2, <1>4, RedisTaskStoreAssumption DEF Scan, PassSound, IInv, TypeOK
<1> QED
  BY <1>1, <1>2, <1>3, <1>4, <1>5, QuietStep DEF Scan

LEMMA VisitStep ==
    ASSUME IInv, NEW t \in Task, Visit(t)
    PROVE  IInv'
<1> DEFINE c == client[Reclaimer]
           x == [c EXCEPT !.pc = "watch", !.task = t]
<1>1. Reclaimer \in Client /\ c \in Call /\ CallSound(Reclaimer, c) /\ c.pc = "scan"
      /\ Reclaimer \notin Worker
  BY RedisTaskStoreAssumption DEF Client, IInv, TypeOK, Visit
<1>2. x \in Call /\ x.pc = "watch" /\ x.at = c.at /\ x.task = t /\ x.lease = c.lease
      /\ c.lease = 0
  BY <1>1 DEF Call, CallSound, CallShaped, Owning
<1>3. CallSound(Reclaimer, x)
  BY <1>1, <1>2 DEF CallSound, CallShaped, WatchSound, Watching, Owning
<1>4. client' = [client EXCEPT ![Reclaimer] = x]
  BY DEF Visit
<1>5. PassSound'
  <2>1. pass' = [pass EXCEPT !.todo = @ \ {t}] /\ pass.settled < TASKS_RECLAIM_BATCH_SIZE
    BY DEF Visit
  <2> QED
    BY <2>1 DEF PassSound, IInv
<1> QED
  BY <1>1, <1>2, <1>3, <1>4, <1>5, QuietStep DEF Visit

LEMMA ScanEndsStep ==
    ASSUME IInv, ScanEnds
    PROVE  IInv'
<1>1. Reclaimer \in Client
  BY DEF Client
<1>2. PassSound'
  BY <1>1, IdleType, RedisTaskStoreAssumption DEF ScanEnds, PassSound, IInv, TypeOK
<1> QED
  BY <1>1, <1>2, IdleSound, IdleType, QuietStep DEF ScanEnds, IInv

\* Time passes: keys whose TTL ends are dropped, and their watchers see it.
LEMMA TickStep ==
    ASSUME IInv, Tick
    PROVE  IInv'
<1> DEFINE gone == {t \in Task : Exists(t) /\ redis[t].ends <= now + 1}
           dropped(t) == [NoValue EXCEPT !.status = "purged", !.attempts = redis[t].attempts]
<1>0. now \in Nat /\ now' = now + 1 /\ now' \in 1..MaxTime
      /\ pass' = pass /\ overrun' = overrun /\ lag' = lag
  <2>1. now \in 1..MaxTime /\ now < MaxTime /\ now' = now + 1 /\ MaxTime \in Nat
    BY RedisTaskStoreAssumption DEF Tick, IInv, TypeOK
  <2>2. pass' = pass /\ overrun' = overrun /\ lag' = lag
    BY DEF Tick
  <2> QED
    BY <2>1, <2>2
<1>1. \A t \in Task : redis[t] \in Value
  BY DEF IInv, TypeOK
<1>2. ASSUME NEW t \in gone
      PROVE  /\ redis'[t] \in Value /\ redis'[t].status = "purged" /\ redis'[t].locked = 0
             /\ redis'[t].attempts = redis[t].attempts
  <2>1. t \in Task /\ redis[t] \in Value
    BY <1>1
  <2>2. redis'[t] = dropped(t)
    BY <2>1 DEF Tick
  <2>3. dropped(t) \in Value
    BY <2>1, NoValueType DEF Value
  <2>4. dropped(t).status = "purged" /\ dropped(t).locked = 0
        /\ dropped(t).attempts = redis[t].attempts
    BY DEF NoValue
  <2> QED
    BY <2>2, <2>3, <2>4
<1>3. ASSUME NEW t \in Task \ gone PROVE redis'[t] = redis[t]
  BY DEF Tick
<1>4. redis' \in [Task -> Value]
  <2>1. DOMAIN redis' = Task /\ redis' = [t \in Task |-> redis'[t]]
    BY DEF Tick
  <2> QED
    BY <1>1, <1>2, <1>3, <2>1
<1>5. ASSUME NEW d \in Client
      PROVE  /\ client'[d] \in Call
             /\ client'[d].pc = client[d].pc /\ client'[d].task = client[d].task
             /\ client'[d].at = client[d].at /\ client'[d].lease = client[d].lease
             /\ client'[d].read = client[d].read /\ client'[d].ttl = client[d].ttl
             /\ client'[d].status = client[d].status
             /\ client[d].task \in gone /\ Watching(client[d]) => client'[d].dirty
             /\ client[d].task \notin gone => client'[d] = client[d]
  <2>1. client[d] \in Call
    BY DEF IInv, TypeOK
  <2>2. client'[d] = IF client[d].task \in gone /\ Watching(client[d])
                     THEN [client[d] EXCEPT !.dirty = TRUE] ELSE client[d]
    BY DEF Tick
  <2>3. [client[d] EXCEPT !.dirty = TRUE] \in Call
    BY <2>1 DEF Call
  <2> QED
    BY <2>1, <2>2, <2>3 DEF Call
<1>6. client' \in [Client -> Call]
  <2>1. DOMAIN client' = Client /\ client' = [d \in Client |-> client'[d]]
    BY DEF Tick
  <2> QED
    BY <1>5, <2>1
<1>7. TypeOK' /\ PassSound'
  <2>1. PassSound'
    BY <1>0, <1>5, PassKept DEF Client
  <2> QED
    BY <1>0, <1>4, <1>6, <2>1 DEF IInv, TypeOK
<1>8. ASSUME NEW d \in Client PROVE CallSound(d, client[d])'
  <2>1. client[d] \in Call /\ CallSound(d, client[d])
    BY DEF IInv, TypeOK
  <2>2. CallShaped(client[d])'
    BY <1>0, <1>5, <2>1 DEF CallSound, CallShaped, Call
  <2>3. WatchSound(d, client[d])'
    <3> SUFFICES ASSUME Watching(client[d])' PROVE WatchSound(d, client[d])'
      BY DEF WatchSound
    <3>1. Watching(client[d]) /\ client[d].task \in Task
      BY <1>5, <2>1 DEF Watching, CallSound, CallShaped
    <3>2. CASE client[d].task \in gone
      BY <1>5, <2>1, <3>1, <3>2 DEF CallSound, WatchSound, Claimable, LeaseExpired
    <3>3. CASE client[d].task \notin gone
      <4>1. client'[d] = client[d] /\ redis'[client[d].task] = redis[client[d].task]
        BY <1>3, <1>5, <3>1, <3>3
      <4>2. ASSUME TtlSound(client[d]), client[d].pc = "exec" PROVE TtlSound(client[d])'
        <5>1. client[d].read \in Value /\ client[d].ttl \in Nat /\ SECOND \in Nat
          BY <2>1, RedisTaskStoreAssumption DEF Call
        <5>2. PICK p \in Int : p = client[d].ttl * SECOND
          BY <5>1
        <5>3. PICK e \in Nat : e = client[d].read.ends
          BY <5>1 DEF Value
        <5>4. e <= now + p + (SECOND - 1)
          BY <4>2, <5>2, <5>3 DEF TtlSound
        <5>5. e <= (now + 1) + p + (SECOND - 1)
          BY <1>0, <5>1, <5>2, <5>3, <5>4
        <5> QED
          BY <1>0, <4>1, <4>2, <5>2, <5>3, <5>5 DEF TtlSound
      <4> QED
        BY <2>1, <3>1, <4>1, <4>2 DEF CallSound, WatchSound, Exists, Claimable, LeaseExpired
    <3> QED
      BY <3>2, <3>3
  <2>4. d \in Worker => LeaseSound(client[d])'
    <3> SUFFICES ASSUME d \in Worker, Live(client[d])' PROVE LeaseSound(client[d])'
      BY DEF LeaseSound
    <3>1. Live(client[d]) /\ client[d].task \in Task /\ LeaseSound(client[d])
      BY <1>0, <1>5, <2>1 DEF Live, Call, CallSound, CallShaped
    <3>2. CASE client[d].task \in gone
      BY <1>0, <1>2, <1>5, <3>1, <3>2 DEF LeaseSound
    <3>3. CASE client[d].task \notin gone
      BY <1>0, <1>3, <1>5, <3>1, <3>3 DEF LeaseSound
    <3> QED
      BY <3>2, <3>3
  <2> QED
    BY <2>2, <2>3, <2>4 DEF CallSound
<1>9. ASSUME NEW t \in Task PROVE ValueSound(t)'
  <2>1. CASE t \in gone
    BY <1>2, <2>1 DEF ValueSound, Exists
  <2>2. CASE t \notin gone
    BY <1>0, <1>1, <1>3, <2>2 DEF IInv, ValueSound, Exists, Value, EndsNear, Rewritten
  <2> QED
    BY <2>1, <2>2
<1>10. LeaseExclusion'
  <2>1. \A w \in Worker : w \in Client /\ client[w].lease \in Nat
    BY DEF Client, IInv, TypeOK, Call
  <2>2. \A w \in Worker : /\ client'[w].task = client[w].task
                          /\ client'[w].lease > now' => client[w].lease > now
    BY <1>0, <1>5, <2>1
  <2> QED
    BY <2>2 DEF IInv, LeaseExclusion
<1> QED
  BY <1>7, <1>8, <1>9, <1>10 DEF IInv

LEMMA InvNext == IInv /\ [Next]_vars => IInv'
<1> SUFFICES ASSUME IInv, [Next]_vars PROVE IInv'
  OBVIOUS
<1>1. ASSUME NEW t \in Task, NEW submitted \in 0..now, NEW at \in 0..now,
             Create(t, submitted, at)
      PROVE  IInv'
  BY <1>1, CreateStep
<1>2. ASSUME NEW t \in Task, Visit(t) PROVE IInv'
  BY <1>2, VisitStep
<1>3. ASSUME NEW w \in Worker, NEW t \in Task, Receive(w, t) PROVE IInv'
  BY <1>3, ReceiveStep
<1>4. ASSUME NEW w \in Worker, ClaimRead(w) PROVE IInv'
  BY <1>4, ClaimReadStep
<1>5. ASSUME NEW w \in Worker, ClaimExec(w) PROVE IInv'
  BY <1>5, ClaimExecStep
<1>6. ASSUME NEW w \in Worker, NEW s \in Terminal, UpdateGet(w, s) PROVE IInv'
  BY <1>6, UpdateGetStep
<1>7. ASSUME NEW w \in Worker, UpdateTtl(w) PROVE IInv'
  BY <1>7, UpdateTtlStep
<1>8. ASSUME NEW w \in Worker, UpdateSetex(w) PROVE IInv'
  BY <1>8, UpdateSetexStep
<1>9. ASSUME NEW w \in Worker, Abandon(w) PROVE IInv'
  BY <1>9, AbandonStep
<1>10. ASSUME NEW c \in Client, TransitionTtl(c) PROVE IInv'
  BY <1>10, TransitionTtlStep
<1>11. CASE Scan
  BY <1>11, ScanStep
<1>12. CASE ReclaimRead
  BY <1>12, ReclaimReadStep
<1>13. CASE ReclaimExec
  BY <1>13, ReclaimExecStep
<1>14. CASE ScanEnds
  BY <1>14, ScanEndsStep
<1>15. CASE Tick
  BY <1>15, TickStep
<1>16. CASE UNCHANGED vars
  BY <1>16 DEF vars, IInv, TypeOK, PassSound, CallSound, CallShaped, WatchSound, Watching,
     TtlSound, LeaseSound, Live, ValueSound, EndsNear, Rewritten, Exists, LeaseExclusion,
     Claimable, LeaseExpired
<1> QED
  BY <1>1, <1>2, <1>3, <1>4, <1>5, <1>6, <1>7, <1>8, <1>9, <1>10, <1>11, <1>12, <1>13,
     <1>14, <1>15, <1>16 DEF Next

\* The invariant holds in every reachable state, for every choice of tasks,
\* workers, lease, TTL and limits.
THEOREM InductiveInvariant == Spec => []IInv
  BY InvInit, InvNext, PTL DEF Spec

\* Every variable keeps its type: no client's record, and no stored value,
\* ever has a field the code could not have given it.
THEOREM TypeCorrect == Spec => []TypeOK
<1>1. IInv => TypeOK
  BY DEF IInv
<1> QED
  BY <1>1, InductiveInvariant, PTL

\* Two workers never hold running leases on one task, however mark_processing,
\* reclaim_stale_processing and the unguarded marks interleave.
THEOREM ExclusiveLeases == Spec => []LeaseExclusion
<1>1. IInv => LeaseExclusion
  BY DEF IInv
<1> QED
  BY <1>1, InductiveInvariant, PTL

\* The key of an unsettled task ends at expires_at, up to less than a second
\* of rounding for each claim and reclaim written to it (_transition's TTL and
\* SETEX), less than a second of create's int(), and the time those calls took.
THEOREM EndsKept == Spec => []EndsAsPromised
<1>1. IInv => EndsAsPromised
  BY DEF IInv, ValueSound, EndsAsPromised
<1> QED
  BY <1>1, InductiveInvariant, PTL

-----------------------------------------------------------------------------
(* The refinement: every step that changes the rows is a step of TaskStore *)
(* or one of the exceptions that ImplementsTaskStore names.                *)

\* The table under the refinement mapping is one that TaskStore may hold.
LEMMA RowsType ==
    ASSUME TypeOK
    PROVE  Rows \in [Task -> Contract!Row] /\ \A t \in Task : Rows[t] = Row(t)
<1>1. ASSUME NEW t \in Task PROVE Row(t) \in Contract!Row
  <2>1. redis[t] \in Value
    BY DEF TypeOK
  <2> QED
    BY <2>1 DEF Row, Value, Contract!Row, Terminal, Contract!Terminal
<1> QED
  BY <1>1 DEF Rows

\* Rows are equal when their fields are.
LEMMA SameRow ==
    ASSUME NEW q \in Contract!Row, NEW r \in Contract!Row, q.status = r.status,
           q.attempts = r.attempts, q.lease = r.lease, q.ttl = r.ttl
    PROVE  q = r
  BY DEF Contract!Row

\* The fields of a row before and after a step.
LEMMA RowFields ==
    ASSUME NEW t
    PROVE  /\ Row(t).status = redis[t].status /\ Row(t).attempts = redis[t].attempts
           /\ Row(t).ttl = "running"
           /\ Row(t).lease = IF redis[t].locked = 0 THEN "none"
                             ELSE IF redis[t].locked > now THEN "live" ELSE "expired"
           /\ Row(t)'.status = redis'[t].status /\ Row(t)'.attempts = redis'[t].attempts
           /\ Row(t)'.ttl = "running"
           /\ Row(t)'.lease = IF redis'[t].locked = 0 THEN "none"
                              ELSE IF redis'[t].locked > now' THEN "live" ELSE "expired"
  BY DEF Row

\* The next table is T when T differs from this one in the row of t only, as
\* the step does.
LEMMA NextRows ==
    ASSUME TypeOK, TypeOK', NEW t \in Task, NEW T \in [Task -> Contract!Row],
           \A u \in Task \ {t} : T[u] = Rows[u] /\ Row(u)' = Row(u),
           T[t].status = Row(t)'.status, T[t].attempts = Row(t)'.attempts,
           T[t].lease = Row(t)'.lease, T[t].ttl = Row(t)'.ttl
    PROVE  Rows' = T
<1>1. /\ Rows' \in [Task -> Contract!Row]
      /\ \A u \in Task : Rows[u] = Row(u) /\ (Rows')[u] = Row(u)'
  <2>1. ASSUME NEW u \in Task PROVE Row(u)' \in Contract!Row
    <3>1. redis'[u] \in Value
      BY DEF TypeOK
    <3> QED
      BY <3>1 DEF Row, Value, Contract!Row, Terminal, Contract!Terminal
  <2> QED
    BY <2>1 DEF Rows
<1>2. (Rows')[t] = T[t]
  <2>1. (Rows')[t] \in Contract!Row /\ T[t] \in Contract!Row
    BY <1>1
  <2> QED
    BY <1>1, <2>1, SameRow
<1> QED
  BY <1>1, <1>2

\* The assignments of TaskStore's actions, and what they make of a table.
StatusSet(T, t, s) == [T EXCEPT ![t].status = s]
LeaseSet(T, t, s, l) == [T EXCEPT ![t].status = s, ![t].lease = l]
ClaimSet(T, t, s, l) == [T EXCEPT ![t].status = s, ![t].lease = l, ![t].attempts = @ + 1]

LEMMA StatusAssigned ==
    ASSUME NEW T \in [Task -> Contract!Row], NEW t \in Task,
           NEW s \in {"queued", "processing"} \union Terminal,
           NEW U, U = StatusSet(T, t, s)
    PROVE  /\ U \in [Task -> Contract!Row] /\ \A u \in Task \ {t} : U[u] = T[u]
           /\ U[t].status = s /\ U[t].attempts = T[t].attempts
           /\ U[t].lease = T[t].lease /\ U[t].ttl = T[t].ttl
<1>1. T[t] \in Contract!Row
  OBVIOUS
<1>2. [T[t] EXCEPT !.status = s] \in Contract!Row
  BY <1>1 DEF Contract!Row, Contract!Terminal, Terminal
<1>3. /\ [T[t] EXCEPT !.status = s].status = s
      /\ [T[t] EXCEPT !.status = s].attempts = T[t].attempts
      /\ [T[t] EXCEPT !.status = s].lease = T[t].lease
      /\ [T[t] EXCEPT !.status = s].ttl = T[t].ttl
  BY <1>1 DEF Contract!Row
<1> QED
  BY <1>1, <1>2, <1>3 DEF StatusSet

LEMMA LeaseAssigned ==
    ASSUME NEW T \in [Task -> Contract!Row], NEW t \in Task,
           NEW s \in {"queued", "processing"} \union Terminal,
           NEW l \in {"none", "live", "expired"},
           NEW U, U = LeaseSet(T, t, s, l)
    PROVE  /\ U \in [Task -> Contract!Row] /\ \A u \in Task \ {t} : U[u] = T[u]
           /\ U[t].status = s /\ U[t].attempts = T[t].attempts
           /\ U[t].lease = l /\ U[t].ttl = T[t].ttl
<1> DEFINE r == [T[t] EXCEPT !.status = s, !.lease = l]
<1>1. T[t] \in Contract!Row
  OBVIOUS
<1>2. r \in Contract!Row
  BY <1>1 DEF Contract!Row, Contract!Terminal, Terminal
<1>3. r.status = s /\ r.attempts = T[t].attempts /\ r.lease = l /\ r.ttl = T[t].ttl
  BY <1>1 DEF Contract!Row
<1> QED
  BY <1>1, <1>2, <1>3 DEF LeaseSet

LEMMA ClaimAssigned ==
    ASSUME NEW T \in [Task -> Contract!Row], NEW t \in Task,
           NEW s \in {"queued", "processing"} \union Terminal,
           NEW l \in {"none", "live", "expired"},
           NEW U, U = ClaimSet(T, t, s, l)
    PROVE  /\ U \in [Task -> Contract!Row] /\ \A u \in Task \ {t} : U[u] = T[u]
           /\ U[t].status = s /\ U[t].attempts = T[t].attempts + 1
           /\ U[t].lease = l /\ U[t].ttl = T[t].ttl
<1> DEFINE r == [T[t] EXCEPT !.status = s, !.lease = l, !.attempts = @ + 1]
<1>1. T[t] \in Contract!Row
  OBVIOUS
<1>2. T[t].attempts + 1 \in Nat
  BY <1>1 DEF Contract!Row
<1>3. r \in Contract!Row
  BY <1>1, <1>2 DEF Contract!Row, Contract!Terminal, Terminal
<1>4. r.status = s /\ r.attempts = T[t].attempts + 1 /\ r.lease = l /\ r.ttl = T[t].ttl
  BY <1>1 DEF Contract!Row
<1> QED
  BY <1>1, <1>3, <1>4 DEF ClaimSet

\* The rows depend on the stored values and the clock only.
LEMMA QuietRows ==
    ASSUME redis' = redis, now' = now
    PROVE  Rows' = Rows
  BY DEF Rows, Row

\* SET leaves the values of the other tasks alone.
LEMMA SetRows ==
    ASSUME TypeOK, NEW t \in Task, NEW v, NEW clients, Set(t, v, clients), now' = now
    PROVE  redis'[t] = v /\ \A u \in Task \ {t} : Row(u)' = Row(u)
<1>1. redis'[t] = v /\ \A u \in Task \ {t} : redis'[u] = redis[u]
  BY DEF Set, TypeOK
<1> QED
  BY <1>1 DEF Row

LEMMA CreateRows ==
    ASSUME IInv, TypeOK', NEW t \in Task, NEW submitted, NEW at, Create(t, submitted, at)
    PROVE  TaskStoreStep
<1> DEFINE expires == submitted + TTL * SECOND
           v == [status |-> "queued", attempts |-> 0, locked |-> 0, expires |-> expires,
                 ends |-> EndOf(WholeSeconds(expires - at))]
           U == StatusSet(Rows, t, "queued")
<1>1. redis[t] = NoValue /\ TypeOK
  BY DEF Create, IInv, ValueSound
<1>2. redis'[t] = v /\ \A u \in Task \ {t} : Row(u)' = Row(u)
  BY <1>1, SetRows DEF Create
<1>3. Rows \in [Task -> Contract!Row] /\ Rows[t] = Row(t)
  BY <1>1, RowsType
<1>4. /\ U \in [Task -> Contract!Row] /\ \A u \in Task \ {t} : U[u] = Rows[u]
      /\ U[t].status = "queued" /\ U[t].attempts = Rows[t].attempts
      /\ U[t].lease = Rows[t].lease /\ U[t].ttl = Rows[t].ttl
  BY <1>3, StatusAssigned DEF Terminal
<1>5. /\ Row(t)'.status = "queued" /\ Row(t)'.attempts = Row(t).attempts
      /\ Row(t)'.lease = Row(t).lease /\ Row(t)'.ttl = Row(t).ttl
      /\ Row(t).status = "none"
  BY <1>1, <1>2, RowFields DEF NoValue
<1> HIDE DEF U
<1>6. Rows' = U
  BY <1>1, <1>2, <1>3, <1>4, <1>5, NextRows
<1>7. Contract!Create(t)
  BY <1>3, <1>5, <1>6 DEF Contract!Create, StatusSet, U
<1> QED
  BY <1>7 DEF TaskStoreStep

\* A claim of what may be claimed is a claim of the Postgres store, but for a
\* lease that has run out already.
LEMMA ClaimRows ==
    ASSUME TypeOK, TypeOK', NEW t \in Task, NEW v, NEW clients, Set(t, v, clients), now' = now,
           NEW at \in Nat, at <= now, Claimable(redis[t], at),
           v.status = "processing", v.locked \in Nat \ {0},
           v.attempts = redis[t].attempts + 1
    PROVE  TaskStoreStep
<1>1. PICK l \in {"live", "expired"} : l = IF v.locked > now THEN "live" ELSE "expired"
  OBVIOUS
<1>2. Rows \in [Task -> Contract!Row] /\ Rows[t] = Row(t) /\ redis[t] \in Value /\ now \in Nat
  BY RowsType, RedisTaskStoreAssumption DEF TypeOK
<1>3. redis'[t] = v /\ \A u \in Task \ {t} : Row(u)' = Row(u)
  BY SetRows
<1>4. PICK U : U = ClaimSet(Rows, t, "processing", l)
  OBVIOUS
<1>5. /\ U \in [Task -> Contract!Row] /\ \A u \in Task \ {t} : U[u] = Rows[u]
      /\ U[t].status = "processing" /\ U[t].attempts = Rows[t].attempts + 1
      /\ U[t].lease = l /\ U[t].ttl = Rows[t].ttl
  BY <1>1, <1>2, <1>4, ClaimAssigned
<1>6. /\ Row(t)'.status = "processing" /\ Row(t)'.attempts = Row(t).attempts + 1
      /\ Row(t)'.lease = l /\ Row(t)'.ttl = Row(t).ttl
  BY <1>1, <1>2, <1>3, RowFields
<1>7. \/ Row(t).status = "queued"
      \/ Row(t).status = "processing" /\ Row(t).lease = "expired"
  BY <1>2, RowFields DEF Claimable, LeaseExpired, Value
<1>8. Rows' = U
  BY <1>2, <1>3, <1>5, <1>6, NextRows
<1>9. Contract!Claimable(t)
  BY <1>2, <1>7 DEF Contract!Claimable, Contract!LeaseExpired
<1>10. CASE l = "live"
  BY <1>4, <1>8, <1>9, <1>10 DEF Contract!MarkProcessing, ClaimSet, TaskStoreStep
<1>11. CASE l = "expired"
  BY <1>4, <1>8, <1>9, <1>11 DEF ClaimedLate, ClaimSet, TaskStoreStep
<1> QED
  BY <1>1, <1>10, <1>11

LEMMA ReclaimRows ==
    ASSUME TypeOK, TypeOK', NEW t \in Task, NEW v, NEW clients, Set(t, v, clients), now' = now,
           NEW at \in Nat, at <= now, LeaseExpired(redis[t], at),
           v.status = IF redis[t].attempts >= TASKS_MAX_ATTEMPTS THEN "failed" ELSE "queued",
           v.locked = 0, v.attempts = redis[t].attempts
    PROVE  TaskStoreStep
<1>1. Rows \in [Task -> Contract!Row] /\ Rows[t] = Row(t) /\ redis[t] \in Value /\ now \in Nat
      /\ TASKS_MAX_ATTEMPTS \in Nat
  BY RowsType, RedisTaskStoreAssumption DEF TypeOK
<1>2. redis'[t] = v /\ \A u \in Task \ {t} : Row(u)' = Row(u)
  BY SetRows
<1>3. Row(t).status = "processing" /\ Row(t).lease = "expired"
      /\ Row(t).attempts = redis[t].attempts /\ redis[t].attempts \in Nat
  BY <1>1, RowFields DEF LeaseExpired, Value
<1>4. PICK s \in {"queued", "processing"} \union Terminal : s = v.status
  BY DEF Terminal
<1>5. s = IF t \in Contract!Requeued({t}) THEN "queued" ELSE "failed"
  BY <1>1, <1>3, <1>4 DEF Contract!Requeued
<1>6. PICK U : U = LeaseSet(Rows, t, s, "none")
  OBVIOUS
<1>7. /\ U \in [Task -> Contract!Row] /\ \A u \in Task \ {t} : U[u] = Rows[u]
      /\ U[t].status = s /\ U[t].attempts = Rows[t].attempts
      /\ U[t].lease = "none" /\ U[t].ttl = Rows[t].ttl
  BY <1>1, <1>6, LeaseAssigned
<1>8. /\ Row(t)'.status = s /\ Row(t)'.attempts = Row(t).attempts
      /\ Row(t)'.lease = "none" /\ Row(t)'.ttl = Row(t).ttl
  BY <1>2, <1>4, RowFields
<1>9. Rows' = U
  BY <1>1, <1>2, <1>7, <1>8, NextRows
<1>10. U = [u \in Task |->
              IF u \notin {t} THEN Rows[u]
              ELSE [Rows[u] EXCEPT !.status = IF u \in Contract!Requeued({t})
                                              THEN "queued" ELSE "failed",
                                   !.lease = "none"]]
  <2>1. U = [u \in Task |-> IF u \notin {t} THEN Rows[u]
                            ELSE [Rows[u] EXCEPT !.status = s, !.lease = "none"]]
    BY <1>1, <1>6 DEF LeaseSet
  <2> QED
    BY <1>5, <2>1
<1>11. Contract!LeaseExpired(t) /\ Contract!ReclaimStaleProcessing({t})
  BY <1>1, <1>3, <1>9, <1>10 DEF Contract!LeaseExpired, Contract!ReclaimStaleProcessing
<1> QED
  BY <1>11 DEF TaskStoreStep

\* A mark updates the row it finds, or revives a purged one.
LEMMA MarkRows ==
    ASSUME TypeOK, TypeOK', NEW t \in Task, NEW v, NEW clients, Set(t, v, clients), now' = now,
           redis[t].status # "none", ValueSound(t),
           v.status \in Terminal, v.locked = 0, v.attempts = redis[t].attempts
    PROVE  TaskStoreStep
<1>1. Rows \in [Task -> Contract!Row] /\ Rows[t] = Row(t)
  BY RowsType
<1>2. redis'[t] = v /\ \A u \in Task \ {t} : Row(u)' = Row(u)
  BY SetRows
<1>3. PICK s \in {"queued", "processing"} \union Terminal : s = v.status /\ s \in Terminal
  OBVIOUS
<1>4. /\ Row(t)'.status = s /\ Row(t)'.attempts = Row(t).attempts
      /\ Row(t)'.lease = "none" /\ Row(t)'.ttl = Row(t).ttl
      /\ Row(t).status = redis[t].status
  BY <1>2, <1>3, RowFields
<1>5. CASE redis[t].status = "purged"
  <2>1. PICK U : U = StatusSet(Rows, t, s)
    OBVIOUS
  <2>2. /\ U \in [Task -> Contract!Row] /\ \A u \in Task \ {t} : U[u] = Rows[u]
        /\ U[t].status = s /\ U[t].attempts = Rows[t].attempts
        /\ U[t].lease = Rows[t].lease /\ U[t].ttl = Rows[t].ttl
    BY <1>1, <2>1, StatusAssigned
  <2>3. Row(t).lease = "none"
    BY <1>5, RowFields DEF ValueSound
  <2>4. Rows' = U
    BY <1>1, <1>2, <1>4, <2>2, <2>3, NextRows
  <2>5. Revived(t)
    BY <1>1, <1>3, <1>4, <1>5, <2>1, <2>4 DEF Revived, StatusSet
  <2> QED
    BY <2>5 DEF TaskStoreStep
<1>6. CASE redis[t].status # "purged"
  <2>1. PICK U : U = LeaseSet(Rows, t, s, "none")
    OBVIOUS
  <2>2. /\ U \in [Task -> Contract!Row] /\ \A u \in Task \ {t} : U[u] = Rows[u]
        /\ U[t].status = s /\ U[t].attempts = Rows[t].attempts
        /\ U[t].lease = "none" /\ U[t].ttl = Rows[t].ttl
    BY <1>1, <2>1, LeaseAssigned
  <2>3. Rows' = U
    BY <1>1, <1>2, <1>4, <2>2, NextRows
  <2>4. Contract!Exists(t)
    BY <1>1, <1>4, <1>6 DEF Contract!Exists
  <2>5. Contract!Update(t, s)
    BY <2>1, <2>3, <2>4 DEF Contract!Update, LeaseSet
  <2> QED
    BY <1>3, <2>5 DEF TaskStoreStep
<1> QED
  BY <1>5, <1>6

LEMMA ExecEnds ==
    ASSUME IInv, NEW c \in Client, client[c].pc = "exec"
    PROVE  EndOf(client[c].ttl) \in Nat
<1>1. now \in Nat /\ client[c].ttl \in Nat \ {0}
  BY RedisTaskStoreAssumption DEF IInv, TypeOK, Call, CallSound, CallShaped
<1> QED
  BY <1>1, EndOfType

LEMMA ClaimExecRows ==
    ASSUME IInv, TypeOK', NEW w \in Worker, ClaimExec(w), ~client[w].dirty
    PROVE  TaskStoreStep
<1> DEFINE c == client[w]
<1>1. TypeOK /\ w \in Client /\ c \in Call /\ c.pc = "exec" /\ LeaseTicks \in Nat \ {0} /\ now' = now
      /\ now \in Nat
  BY LeaseType, RedisTaskStoreAssumption DEF IInv, TypeOK, Client, ClaimExec
<1>2. PICK t \in Task : t = c.task /\ c.read \in Value /\ c.read = redis[t]
                        /\ Claimable(c.read, c.at) /\ c.at <= now
  BY <1>1, AcceptedIsFree DEF Watching
<1>3. c.at \in Nat /\ EndOf(c.ttl) \in Nat /\ c.at + LeaseTicks \in Nat \ {0}
  BY <1>1, LeaseType, ExecEnds DEF Call
<1>4. PICK v : v = [Claimed(c.read, c.at) EXCEPT !.ends = EndOf(c.ttl)]
  OBVIOUS
<1>5. /\ v.status = "processing" /\ v.locked = c.at + LeaseTicks
      /\ v.attempts = redis[t].attempts + 1
  BY <1>1, <1>2, <1>3, <1>4, ClaimedValue
<1>6. Set(t, v, [client EXCEPT ![w] = [Idle EXCEPT !.pc = "working", !.task = t,
                                                   !.lease = c.at + LeaseTicks]])
  BY <1>2, <1>4 DEF ClaimExec, Exec
<1> QED
  BY <1>1, <1>2, <1>3, <1>5, <1>6, ClaimRows

LEMMA ReclaimExecRows ==
    ASSUME IInv, TypeOK', ReclaimExec, ~client[Reclaimer].dirty
    PROVE  TaskStoreStep
<1> DEFINE c == client[Reclaimer]
<1>1. TypeOK /\ Reclaimer \in Client /\ c \in Call /\ c.pc = "exec" /\ now' = now /\ now \in Nat
  BY RedisTaskStoreAssumption DEF IInv, TypeOK, Client, ReclaimExec
<1>2. PICK t \in Task : t = c.task /\ c.read \in Value /\ c.read = redis[t]
                        /\ LeaseExpired(c.read, c.at) /\ c.at <= now
  BY <1>1, AcceptedIsFree DEF Watching
<1>3. c.at \in Nat /\ EndOf(c.ttl) \in Nat
  BY <1>1, ExecEnds DEF Call
<1>4. PICK v : v = [Reclaimed(c.read) EXCEPT !.ends = EndOf(c.ttl)]
  OBVIOUS
<1>5. /\ v.status = IF redis[t].attempts >= TASKS_MAX_ATTEMPTS THEN "failed" ELSE "queued"
      /\ v.locked = 0 /\ v.attempts = redis[t].attempts
  BY <1>2, <1>3, <1>4, ReclaimedValue
<1>6. Set(t, v, [client EXCEPT ![Reclaimer] = NextKey])
  BY <1>2, <1>4 DEF ReclaimExec, Exec
<1> QED
  BY <1>1, <1>2, <1>3, <1>5, <1>6, ReclaimRows

\* Under a running lease the three calls of a mark update the row they read;
\* past it they overwrite whatever is there, which overrun records.
LEMMA UpdateSetexRows ==
    ASSUME IInv, TypeOK', NEW w \in Worker, UpdateSetex(w)
    PROVE  TaskStoreStep
<1> DEFINE c == client[w]
<1>1. TypeOK /\ w \in Client /\ c \in Call /\ CallSound(w, c) /\ c.pc = "setex" /\ now \in Nat
      /\ now' = now
  BY RedisTaskStoreAssumption DEF IInv, TypeOK, Client, UpdateSetex
<1>2. c.status \in Terminal /\ c.lease \in Nat /\ c.ttl > 0
  BY <1>1 DEF CallSound, CallShaped, Call
<1>3. PICK t \in Task : t = c.task
  BY <1>1 DEF CallSound, CallShaped, Owning
<1>4. PICK v : v = Marked(c)
  OBVIOUS
<1>5. v.status \in Terminal /\ v.locked = 0 /\ v.attempts = c.read.attempts
  BY <1>1, <1>2, <1>4, MarkedValue
<1>6. /\ Set(t, v, [client EXCEPT ![w] = Idle])
      /\ overrun' = IF c.lease <= now THEN overrun \union {t} ELSE overrun
  BY <1>3, <1>4 DEF UpdateSetex
<1>7. CASE t \in overrun'
  <2>1. \A u \in Task \ {t} : Row(u)' = Row(u)
    BY <1>1, <1>6, SetRows
  <2> QED
    BY <1>7, <2>1 DEF TaskStoreStep
<1>8. CASE t \notin overrun'
  <2>1. Live(c) /\ t \notin overrun
    BY <1>1, <1>2, <1>6, <1>8 DEF Live
  <2>2. redis[t].status # "none" /\ c.read.attempts = redis[t].attempts
    BY <1>1, <1>3, <2>1 DEF CallSound, LeaseSound, Terminal
  <2>3. ValueSound(t)
    BY DEF IInv
  <2> QED
    BY <1>1, <1>5, <1>6, <2>2, <2>3, MarkRows
<1> QED
  BY <1>7, <1>8

LEMMA TickRows ==
    ASSUME IInv, TypeOK', Tick
    PROVE  TaskStoreStep
<1>1. now \in Nat /\ now' = now + 1 /\ redis \in [Task -> Value]
  <2>1. now \in 1..MaxTime /\ redis \in [Task -> Value] /\ MaxTime \in Nat
    BY RedisTaskStoreAssumption DEF IInv, TypeOK
  <2>2. now' = now + 1
    BY DEF Tick
  <2> QED
    BY <2>1, <2>2
<1>2. ASSUME NEW t \in Task
      PROVE  Row(t)' \in {Row(t), [Row(t) EXCEPT !.lease = "expired"],
                          [Row(t) EXCEPT !.status = "purged", !.lease = "none"]}
  <2>1. redis[t] \in Value
    BY <1>1
  <2>2. CASE Exists(t) /\ redis[t].ends <= now + 1
    <3>1. redis'[t] = [NoValue EXCEPT !.status = "purged", !.attempts = redis[t].attempts]
      BY <2>2 DEF Tick
    <3>2. redis'[t].status = "purged" /\ redis'[t].locked = 0
          /\ redis'[t].attempts = redis[t].attempts
      BY <3>1 DEF NoValue
    <3>3. PICK r \in Contract!Row : r = Row(t)
      BY RowsType DEF IInv
    <3>4. PICK q : q = [r EXCEPT !.status = "purged", !.lease = "none"]
      OBVIOUS
    <3>5. /\ q \in Contract!Row /\ q.status = "purged" /\ q.lease = "none"
          /\ q.attempts = r.attempts /\ q.ttl = r.ttl
      BY <3>4 DEF Contract!Row, Contract!Terminal
    <3>6. PICK p : p = Row(t)'
      OBVIOUS
    <3>7. /\ p \in Contract!Row /\ p.status = "purged" /\ p.lease = "none"
          /\ p.attempts = r.attempts /\ p.ttl = r.ttl
      BY <2>1, <3>2, <3>3, <3>6 DEF Row, Contract!Row, Contract!Terminal, Value
    <3>8. p = q
      BY <3>5, <3>7, SameRow
    <3> QED
      BY <3>3, <3>4, <3>6, <3>8
  <2>3. CASE ~(Exists(t) /\ redis[t].ends <= now + 1)
    <3>1. redis'[t] = redis[t]
      BY <2>3 DEF Tick
    <3>2. CASE Row(t).lease = "live" /\ ~(redis[t].locked > now + 1)
      <4>1. Row(t)' = [status |-> redis[t].status, attempts |-> redis[t].attempts,
                       lease |-> "expired", ttl |-> "running"]
        BY <1>1, <2>1, <3>1, <3>2 DEF Row, Value
      <4>2. [Row(t) EXCEPT !.lease = "expired"]
                = [status |-> redis[t].status, attempts |-> redis[t].attempts,
                   lease |-> "expired", ttl |-> "running"]
        BY DEF Row
      <4> QED
        BY <4>1, <4>2
    <3>3. CASE ~(Row(t).lease = "live" /\ ~(redis[t].locked > now + 1))
      <4>1. Row(t)' = Row(t)
        BY <1>1, <2>1, <3>1, <3>3 DEF Row, Value
      <4> QED
        BY <4>1
    <3> QED
      BY <3>2, <3>3
  <2> QED
    BY <2>2, <2>3
<1> QED
  BY <1>1, <1>2 DEF TaskStoreStep, TimePasses

LEMMA StepRefines ==
    ASSUME IInv, IInv', [Next]_vars
    PROVE  [TaskStoreStep]_Rows
<1>0. TypeOK'
  BY DEF IInv
<1>1. ASSUME NEW t \in Task, NEW submitted, NEW at, Create(t, submitted, at)
      PROVE  TaskStoreStep
  BY <1>0, <1>1, CreateRows
<1>2. ASSUME NEW w \in Worker, ClaimExec(w) PROVE [TaskStoreStep]_Rows
  <2>1. CASE client[w].dirty
    BY <1>2, <2>1, QuietRows DEF ClaimExec, Exec
  <2>2. CASE ~client[w].dirty
    BY <1>0, <1>2, <2>2, ClaimExecRows
  <2> QED
    BY <2>1, <2>2
<1>3. ASSUME NEW w \in Worker, UpdateSetex(w) PROVE TaskStoreStep
  BY <1>0, <1>3, UpdateSetexRows
<1>4. ASSUME ReclaimExec PROVE [TaskStoreStep]_Rows
  <2>1. CASE client[Reclaimer].dirty
    BY <1>4, <2>1, QuietRows DEF ReclaimExec, Exec
  <2>2. CASE ~client[Reclaimer].dirty
    BY <1>0, <1>4, <2>2, ReclaimExecRows
  <2> QED
    BY <2>1, <2>2
<1>5. ASSUME Tick PROVE TaskStoreStep
  BY <1>0, <1>5, TickRows
<1>6. ASSUME \/ \E t \in Task : Visit(t)
             \/ \E w \in Worker, t \in Task : Receive(w, t)
             \/ \E w \in Worker : \/ ClaimRead(w) \/ UpdateTtl(w) \/ Abandon(w)
                                  \/ \E s \in Terminal : UpdateGet(w, s)
             \/ \E c \in Client : TransitionTtl(c)
             \/ Scan \/ ReclaimRead \/ ScanEnds \/ UNCHANGED vars
      PROVE  Rows' = Rows
  BY <1>6, QuietRows DEF Visit, Receive, ClaimRead, UpdateTtl, Abandon, UpdateGet,
     TransitionTtl, Scan, ReclaimRead, ScanEnds, vars
<1> QED
  BY <1>1, <1>2, <1>3, <1>4, <1>5, <1>6 DEF Next

\* The Redis store takes no step that the Postgres store could not take, but
\* for the overruns, late leases, revivals and clock ticks that TaskStoreStep
\* names: WATCH, GET, TTL, EXEC and GET, TTL, SETEX act as one transaction.
THEOREM RefinesTaskStore == Spec => ImplementsTaskStore
<1>1. IInv /\ IInv' /\ [Next]_vars => [TaskStoreStep]_Rows
  BY StepRefines
<1> QED
  BY <1>1, InductiveInvariant, PTL DEF Spec, ImplementsTaskStore

=============================================================================
