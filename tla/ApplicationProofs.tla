-------------------------- MODULE ApplicationProofs --------------------------
(***************************************************************************)
(* Theorems about Application: for any settings that pass the validators,  *)
(* and any number of requests.                                             *)
(*                                                                         *)
(* What is live is what the openers so far opened, and the exit stack is   *)
(* their closes in order; an opener comes after the services it uses.  The *)
(* tracker counts the requests inside, so a drain that was not cut short   *)
(* leaves none.                                                            *)
(***************************************************************************)
EXTENDS Application, FiniteSetTheorems, SequenceTheorems, TLAPS

\* The place of each feature in Order.
Place == [database |-> 1, redis |-> 2, queue |-> 3, telemetry |-> 4, rate_limit |-> 5,
          idempotency |-> 6, cache |-> 7, objects |-> 8, mongo |-> 9, quota |-> 10,
          outbox |-> 11, webhooks |-> 12, rag |-> 13, tasks |-> 14]

LEMMA Features ==
    Feature = {"database", "redis", "queue", "telemetry", "rate_limit", "idempotency",
               "cache", "objects", "mongo", "quota", "outbox", "webhooks", "rag", "tasks"}
  BY DEF Feature, Backend

LEMMA OrderLength == Len(Order) = 14
  BY DEF Order, Addons

LEMMA OrderPlaces ==
    \A k \in 1..14 : Order[k] \in Feature /\ Place[Order[k]] = k
<1>1. /\ Order[1] = "database" /\ Order[2] = "redis" /\ Order[3] = "queue"
      /\ Order[4] = "telemetry" /\ Order[5] = "rate_limit" /\ Order[6] = "idempotency"
      /\ Order[7] = "cache" /\ Order[8] = "objects" /\ Order[9] = "mongo"
      /\ Order[10] = "quota" /\ Order[11] = "outbox" /\ Order[12] = "webhooks"
      /\ Order[13] = "rag" /\ Order[14] = "tasks"
  BY DEF Order, Addons
<1> QED
  BY <1>1, Features DEF Place

LEMMA PlaceType == \A f \in Feature : Place[f] \in 1..14 /\ Order[Place[f]] = f
  BY Features, OrderPlaces DEF Place, Order, Addons

\* What an opener asks for comes before it in Order, has a close of its own
\* and, in settings that pass the validators, is enabled.
LEMMA NeedsSound ==
    ASSUME NEW s, IsSettings(s), Valid(s), NEW f \in Feature, On(s, f), NEW n \in Needs(s, f)
    PROVE  n \in Feature \ Unclosed /\ On(s, n) /\ Place[n] < Place[f]
  BY Features DEF IsSettings, Valid, MessagingValid, PlatformValid, On, Needs, Unclosed, Place,
     Backend, Option, Dispatch, Graceful, IpLimit, DatabaseNeeds, RedisNeeds, QueueNeeds, TelemetryNeeds, RateLimitNeeds,
     IdempotencyNeeds, CacheNeeds, ObjectsNeeds, MongoNeeds, QuotaNeeds, OutboxNeeds,
     WebhooksNeeds, RagNeeds, TasksNeeds

-----------------------------------------------------------------------------
(* The resources *)

OnStack == {stack[i] : i \in 1..Len(stack)}

\* While the openers run, what is open is what they were told to open so far;
\* the pending closes are those of what is open, in the order of the openers.
GraphSound ==
    /\ GraphTypeOK
    /\ Valid(settings)
    /\ phase = "opening" => live = {f \in Feature : Place[f] < next /\ On(settings, f)}
    /\ \A f \in live : On(settings, f)
    /\ live \ Unclosed = OnStack
    /\ \A i, j \in 1..Len(stack) : i < j => Place[stack[i]] < Place[stack[j]]
    /\ \A i \in 1..Len(stack) : Place[stack[i]] < next
    /\ UsersCloseFirst

LEMMA GraphInitSound ==
    ASSUME Init PROVE GraphSound
<1>1. IsSettings(settings) /\ Valid(settings) /\ next = 1 /\ live = {} /\ stack = <<>>
  BY DEF Init, GraphInit
<1>2. Len(stack) = 0
  BY <1>1
<1>3. {f \in Feature : Place[f] < next /\ On(settings, f)} = {}
  BY <1>1, PlaceType
<1> QED
  BY <1>1, <1>2, <1>3, OrderLength DEF GraphSound, GraphTypeOK, OnStack, UsersCloseFirst

\* The opener that is next finds what it asks for.
LEMMA NothingMissing ==
    ASSUME GraphSound, phase = "opening", ~Opened
    PROVE  /\ Opening \in Feature /\ Place[Opening] = next /\ Opening \notin live
           /\ On(settings, Opening) => Needs(settings, Opening) \subseteq live
<1>1. next \in 1..14 /\ IsSettings(settings)
  BY OrderLength DEF GraphSound, GraphTypeOK, Opened
<1>2. Opening \in Feature /\ Place[Opening] = next
  BY <1>1, OrderPlaces DEF Opening
<1>3. live = {f \in Feature : Place[f] < next /\ On(settings, f)}
  BY DEF GraphSound
<1>4. ASSUME On(settings, Opening), NEW n \in Needs(settings, Opening) PROVE n \in live
  BY <1>1, <1>2, <1>3, <1>4, NeedsSound DEF GraphSound
<1> QED
  BY <1>1, <1>2, <1>3, <1>4

LEMMA OpenKeepsGraph ==
    ASSUME GraphSound, Open PROVE GraphSound'
<1> DEFINE f == Opening
<1>1. /\ phase = "opening" /\ phase' = phase /\ ~Opened /\ next' = next + 1
      /\ settings' = settings
  BY DEF Open, OpenNext, server
<1>2. /\ f \in Feature /\ Place[f] = next /\ f \notin live
      /\ On(settings, f) => Needs(settings, f) \subseteq live
  BY <1>1, NothingMissing
<1>3. next \in 1..14 /\ next' \in 1..15
  BY <1>1, OrderLength DEF GraphSound, GraphTypeOK, Opened
<1>4. \A g \in Feature : Place[g] < next' <=> Place[g] < next \/ g = f
  BY <1>1, <1>2, <1>3, PlaceType
<1>5. stack \in Seq(Feature) /\ Len(stack) \in Nat
  BY DEF GraphSound, GraphTypeOK
<1>6. CASE ~On(settings, f)
  <2>1. live' = live /\ stack' = stack
    BY <1>6 DEF Open, OpenNext
  <2>2. live' = {g \in Feature : Place[g] < next' /\ On(settings', g)}
    BY <1>1, <1>4, <1>6, <2>1 DEF GraphSound
  <2>3. GraphTypeOK'
    BY <1>1, <1>3, <2>1, OrderLength DEF GraphSound, GraphTypeOK, Order, Addons
  <2>4. \A i \in 1..Len(stack') : Place[stack'[i]] < next'
    <3> SUFFICES ASSUME NEW i \in 1..Len(stack) PROVE Place[stack[i]] < next'
      BY <2>1
    <3>1. stack[i] \in Feature /\ Place[stack[i]] < next
      BY <1>5 DEF GraphSound
    <3> QED
      BY <1>4, <3>1
  <2> QED
    BY <1>1, <2>1, <2>2, <2>3, <2>4 DEF GraphSound, OnStack, UsersCloseFirst
<1>7. CASE On(settings, f)
  <2>1. /\ live' = live \cup {f}
        /\ stack' = IF f \in Unclosed THEN stack ELSE Append(stack, f)
    BY <1>7 DEF Open, OpenNext
  <2>2. live' = {g \in Feature : Place[g] < next' /\ On(settings', g)}
    BY <1>1, <1>2, <1>4, <1>7, <2>1 DEF GraphSound
  <2>3. GraphTypeOK'
    BY <1>1, <1>2, <1>3, <1>5, <2>1, OrderLength DEF GraphSound, GraphTypeOK, Order, Addons
  <2>4. \A g \in live' : On(settings', g)
    BY <1>1, <2>2
  <2>5. UsersCloseFirst'
    BY <1>1, <1>2, <1>7, <2>1 DEF GraphSound, UsersCloseFirst
  <2>6. CASE f \in Unclosed
    <3>1. stack' = stack /\ live' \ Unclosed = live \ Unclosed
      BY <2>1, <2>6
    <3>2. \A i \in 1..Len(stack') : Place[stack'[i]] < next'
      <4> SUFFICES ASSUME NEW i \in 1..Len(stack) PROVE Place[stack[i]] < next'
        BY <3>1
      <4>1. stack[i] \in Feature /\ Place[stack[i]] < next
        BY <1>5 DEF GraphSound
      <4> QED
        BY <1>4, <4>1
    <3> QED
      BY <1>1, <2>2, <2>3, <2>4, <2>5, <3>1, <3>2 DEF GraphSound, OnStack
  <2>7. CASE f \notin Unclosed
    <3>1. /\ stack' = Append(stack, f) /\ Len(stack') = Len(stack) + 1
          /\ stack'[Len(stack) + 1] = f
          /\ \A i \in 1..Len(stack) : stack'[i] = stack[i]
      BY <1>2, <1>5, <2>1, <2>7
    <3>2. live' \ Unclosed = OnStack'
      BY <1>5, <2>1, <2>7, <3>1 DEF GraphSound, OnStack
    <3>3. \A i \in 1..Len(stack') : Place[stack'[i]] < next'
      <4>1. ASSUME NEW i \in 1..Len(stack) PROVE Place[stack'[i]] < next'
        <5>1. stack[i] \in Feature /\ Place[stack[i]] < next
          BY <1>5 DEF GraphSound
        <5> QED
          BY <1>4, <3>1, <5>1
      <4>2. Place[stack'[Len(stack) + 1]] < next'
        BY <1>1, <1>2, <1>3, <3>1
      <4> QED
        BY <1>5, <3>1, <4>1, <4>2
    <3>4. \A i, j \in 1..Len(stack') : i < j => Place[stack'[i]] < Place[stack'[j]]
      BY <1>2, <1>5, <3>1 DEF GraphSound
    <3> QED
      BY <1>1, <2>2, <2>3, <2>4, <2>5, <3>2, <3>3, <3>4 DEF GraphSound
  <2> QED
    BY <2>6, <2>7
<1> QED
  BY <1>6, <1>7

\* The last close is of the resource that was opened last: nobody needs it.
LEMMA CloseKeepsGraph ==
    ASSUME GraphSound, Close PROVE GraphSound'
<1> DEFINE f == Last(stack)
           n == Len(stack)
<1>1. /\ phase \in {"closing", "failed"} /\ phase' = phase /\ stack # <<>>
      /\ stack' = Front(stack) /\ live' = live \ {f} /\ settings' = settings /\ next' = next
  BY DEF Close, CloseLast, server
<1>2. stack \in Seq(Feature) /\ n \in Nat \ {0} /\ f = stack[n] /\ f \in Feature
  BY <1>1 DEF GraphSound, GraphTypeOK, Last
<1>3. /\ stack' \in Seq(Feature) /\ Len(stack') = n - 1
      /\ \A i \in 1..(n - 1) : stack'[i] = stack[i]
  <2>1. stack' = SubSeq(stack, 1, n - 1) /\ n - 1 \in 0..n
    BY <1>1, <1>2 DEF Front
  <2>2. \A i \in 1..(n - 1) : stack[i] \in Feature
    BY <1>2
  <2>3. PICK m \in Int : m = n - 1
    BY <1>2
  <2>4. /\ SubSeq(stack, 1, m) \in Seq(Feature)
        /\ Len(SubSeq(stack, 1, m)) = IF 1 <= m THEN m - 1 + 1 ELSE 0
        /\ \A i \in 1..(m - 1 + 1) : SubSeq(stack, 1, m)[i] = stack[1 + i - 1]
    BY <2>2, <2>3, SubSeqProperties
  <2> QED
    BY <1>2, <2>1, <2>3, <2>4
<1>4. \A i \in 1..n : i < n => Place[stack[i]] < Place[f]
  BY <1>2 DEF GraphSound
<1>5. \A i \in 1..n : stack[i] \in Feature /\ Place[stack[i]] \in 1..14
  BY <1>2, PlaceType
<1>6. \A i \in 1..(n - 1) : stack[i] # f
  BY <1>2, <1>4, <1>5
<1>7. live' \ Unclosed = OnStack'
  BY <1>1, <1>2, <1>3, <1>6 DEF GraphSound, OnStack
<1>8. UsersCloseFirst'
  <2> SUFFICES ASSUME NEW g \in live' \ Unclosed, f \in Needs(settings, g) PROVE FALSE
    BY <1>1 DEF GraphSound, UsersCloseFirst
  <2>1. PICK i \in 1..(n - 1) : g = stack[i]
    BY <1>3, <1>7 DEF OnStack
  <2>2. g \in Feature /\ On(settings, g) /\ Place[g] < Place[f]
    BY <1>1, <1>2, <1>4, <1>5, <2>1 DEF GraphSound
  <2>3. Place[f] < Place[g]
    BY <2>2, NeedsSound DEF GraphSound, GraphTypeOK
  <2>4. Place[f] \in Int /\ Place[g] \in Int
    BY <1>2, <2>2, PlaceType
  <2> QED
    BY <2>2, <2>3, <2>4
<1>9. GraphTypeOK'
  BY <1>1, <1>3 DEF GraphSound, GraphTypeOK, Order, Addons
<1>10. /\ \A i, j \in 1..Len(stack') : i < j => Place[stack'[i]] < Place[stack'[j]]
       /\ \A i \in 1..Len(stack') : Place[stack'[i]] < next'
  BY <1>1, <1>2, <1>3 DEF GraphSound
<1> QED
  BY <1>1, <1>7, <1>8, <1>9, <1>10 DEF GraphSound

\* Every other step leaves the resources alone.
LEMMA KeptGraph ==
    ASSUME GraphSound, UNCHANGED graph, phase' = "opening" => phase = "opening"
    PROVE  GraphSound'
  BY DEF GraphSound, GraphTypeOK, graph, OnStack, UsersCloseFirst, Order, Addons

-----------------------------------------------------------------------------
(* The requests *)

Before == {"none", "limiter", "entered", "checking"}
InHandler == {"handling", "priming", "waiting", "sending"}

OnlyStreams == {"priming", "waiting", "sending", "last"}

\* A request has at most one response, which starts once it is known what to
\* answer; its handler is open until it is observed, and left open only by a
\* stream; and a probe that came after the signal is checked and told "ok"
\* only if the signal was lost in the startup.
RecordSound(x) ==
    /\ x \in Record
    /\ x.starts <= 1
    /\ x.pc \in Before \cup {"handling", "priming"} => x.starts = 0 /\ ~x.held
    /\ x.held => x.starts = 0
    /\ x.pc \in Before => x.handler = "none"
    /\ x.pc \in InHandler => x.handler = "open"
    /\ x.pc \in {"answering", "last"} => x.handler # "open"
    /\ x.pc \in OnlyStreams => x.kind = "stream"
    /\ x.pc = "done" /\ x.handler = "open" => x.kind = "stream"
    /\ x.observed = IF x.handler = "closed" THEN 1 ELSE 0
    /\ x.late /\ x.ready => early
    /\ x.pc = "checking" /\ x.late => early

\* A probe of after the signal that has not looked at draining yet will see it,
\* unless the signal was lost.
WillSee(x) == x.late /\ x.pc \in {"limiter", "entered"} => health.draining \/ early

InTracker == {r \in Request : request[r].pc \in Tracked}

TrackerSound ==
    /\ IsFiniteSet(InTracker)
    /\ tracker \in [count : Nat, idle : BOOLEAN]
    /\ tracker.count = Cardinality(InTracker)
    /\ tracker.idle <=> tracker.count = 0

\* Requests run only while the server serves, and are over, or unwind, before
\* the lifespan closes anything.
Quiet == {"none", "done", "unwinding"}
Serving == {"serving", "stopping"}

ServerSound ==
    /\ phase \in Phase
    /\ signals \in 0..2
    /\ timer \in {"off", "called", "armed", "cancelled"}
    /\ should_exit \in BOOLEAN
    /\ health \in [service : {"placeholder", "runtime"}, draining : BOOLEAN]
    /\ gave_up \in BOOLEAN
    /\ early \in BOOLEAN
    /\ signals = 0 => ~early
    /\ signals > 0 /\ phase = "opening" => early
    /\ signals > 0 /\ phase \in Serving => health.draining \/ early

RequestSound(r) ==
    /\ RecordSound(request[r])
    /\ WillSee(request[r])
    /\ phase \notin Serving => request[r].pc \in Quiet

IInv ==
    /\ GraphSound
    /\ ServerSound
    /\ TrackerSound
    /\ request \in [Request -> Record]
    /\ \A r \in Request : RequestSound(r)
    /\ NothingClosedUnderRequests

LEMMA NoRequestSound == RecordSound(NoRequest) /\ NoRequest.pc = "none" /\ ~NoRequest.late
  BY DEF RecordSound, NoRequest, Record, RequestPc, Running, Tracked, Before, InHandler, OnlyStreams

LEMMA InvInit == Init => IInv
<1> SUFFICES ASSUME Init PROVE IInv
  OBVIOUS
<1>1. GraphSound
  BY GraphInitSound
<1>2. ServerSound
  <2>1. health = [service |-> "placeholder", draining |-> FALSE]
    BY DEF Init
  <2>2. health \in [service : {"placeholder", "runtime"}, draining : BOOLEAN]
    BY <2>1
  <2>3. phase = "opening" /\ signals = 0 /\ timer = "off"
    BY DEF Init
  <2>4. should_exit \in BOOLEAN /\ gave_up \in BOOLEAN /\ early \in BOOLEAN /\ ~early
    BY DEF Init
  <2> QED
    BY <2>2, <2>3, <2>4 DEF ServerSound, Phase
<1>3. request \in [Request -> Record] /\ \A r \in Request : request[r] = NoRequest
  BY NoRequestSound DEF Init, RecordSound
<1>4. InTracker = {}
  BY <1>3, NoRequestSound DEF InTracker, Tracked
<1>5. TrackerSound
  BY <1>4, FS_EmptySet DEF Init, TrackerSound
<1>6. \A r \in Request : RequestSound(r)
  BY <1>3, NoRequestSound DEF RequestSound, WillSee, Quiet
<1>7. NothingClosedUnderRequests
  BY DEF Init, NothingClosedUnderRequests
<1> QED
  BY <1>1, <1>2, <1>3, <1>5, <1>6, <1>7 DEF IInv

\* How the tracker moves with a request that goes on as x.
TrackerMoves(r, x) ==
    \/ (x.pc \in Tracked <=> request[r].pc \in Tracked) /\ tracker' = tracker
    \/ request[r].pc \notin Tracked /\ x.pc \in Tracked /\ Acquire
    \/ request[r].pc \in Tracked /\ x.pc \notin Tracked /\ Release

LEMMA TrackerKept ==
    ASSUME TrackerSound, NEW r \in Request, NEW x, request \in [Request -> Record],
           Becomes(r, x), TrackerMoves(r, x)
    PROVE  TrackerSound'
<1>1. request'[r] = x /\ \A q \in Request \ {r} : request'[q] = request[q]
  BY DEF Becomes
<1>2. CASE (x.pc \in Tracked <=> request[r].pc \in Tracked) /\ tracker' = tracker
  <2>1. InTracker' = InTracker
    BY <1>1, <1>2 DEF InTracker
  <2> QED
    BY <1>2, <2>1 DEF TrackerSound
<1>3. CASE request[r].pc \notin Tracked /\ x.pc \in Tracked /\ Acquire
  <2>1. InTracker' = InTracker \cup {r} /\ r \notin InTracker
    BY <1>1, <1>3 DEF InTracker
  <2>2. IsFiniteSet(InTracker') /\ Cardinality(InTracker') = Cardinality(InTracker) + 1
    BY <2>1, FS_AddElement DEF TrackerSound
  <2>3. tracker.count \in Nat /\ tracker.count = Cardinality(InTracker)
    BY DEF TrackerSound
  <2>4. tracker' = [count |-> tracker.count + 1, idle |-> FALSE]
    BY <1>3 DEF Acquire
  <2> QED
    BY <2>2, <2>3, <2>4 DEF TrackerSound
<1>4. CASE request[r].pc \in Tracked /\ x.pc \notin Tracked /\ Release
  <2>1. InTracker' = InTracker \ {r} /\ r \in InTracker
    BY <1>1, <1>4 DEF InTracker
  <2>2. IsFiniteSet(InTracker') /\ Cardinality(InTracker') = Cardinality(InTracker) - 1
    BY <2>1, FS_RemoveElement DEF TrackerSound
  <2>3. tracker.count \in Nat /\ tracker.count = Cardinality(InTracker)
        /\ (tracker.idle <=> tracker.count = 0) /\ tracker.idle \in BOOLEAN
    BY DEF TrackerSound
  <2>4. Cardinality(InTracker') \in Nat
    BY <2>2, FS_CardinalityType
  <2>5. tracker.count > 0 /\ tracker.count - 1 \in Nat /\ ~tracker.idle
    BY <2>2, <2>3, <2>4
  <2>6. tracker' = [count |-> tracker.count - 1, idle |-> tracker.count - 1 = 0]
    BY <1>4, <2>5 DEF Release
  <2> QED
    BY <2>2, <2>3, <2>5, <2>6 DEF TrackerSound
<1> QED
  BY <1>2, <1>3, <1>4 DEF TrackerMoves

\* A step of one request, which goes on as x.
LEMMA RequestStepKeeps ==
    ASSUME IInv, NEW r \in Request, NEW x, RecordSound(x), WillSee(x),
           x.pc \in Quiet \/ phase \in Serving,
           x.pc \in Tracked => request[r].pc \in Tracked \/ phase \in Serving,
           Becomes(r, x), TrackerMoves(r, x), UNCHANGED <<graph, server>>
    PROVE  IInv'
<1>1. x \in Record /\ request \in [Request -> Record]
  BY DEF RecordSound, IInv
<1>2. /\ request'[r] = x /\ \A q \in Request \ {r} : request'[q] = request[q]
      /\ request' \in [Request -> Record]
  BY <1>1 DEF Becomes
<1>3. /\ phase' = phase /\ signals' = signals /\ timer' = timer /\ should_exit' = should_exit
      /\ health' = health /\ gave_up' = gave_up /\ early' = early /\ settings' = settings
  BY DEF server, graph
<1>4. GraphSound'
  BY <1>3, KeptGraph DEF IInv
<1>5. ServerSound'
  BY <1>3 DEF IInv, ServerSound
<1>6. TrackerSound'
  BY <1>1, TrackerKept DEF IInv
<1>7. ASSUME NEW q \in Request PROVE RequestSound(q)'
  <2>1. CASE q = r
    BY <1>2, <1>3, <2>1 DEF RequestSound, RecordSound, WillSee
  <2>2. CASE q # r
    BY <1>2, <1>3, <2>2 DEF IInv, RequestSound, RecordSound, WillSee
  <2> QED
    BY <2>1, <2>2
<1>8. NothingClosedUnderRequests'
  BY <1>2, <1>3 DEF IInv, NothingClosedUnderRequests, Serving
<1> QED
  BY <1>2, <1>4, <1>5, <1>6, <1>7, <1>8 DEF IInv

-----------------------------------------------------------------------------
(* What the actions make of a request's record *)

\* All fields but those named by the action keep their value.
LEMMA MovedRecord ==
    ASSUME NEW y \in Record, NEW p \in RequestPc, NEW x, x = [y EXCEPT !.pc = p]
    PROVE  /\ x \in Record /\ x.pc = p /\ x.kind = y.kind /\ x.held = y.held
           /\ x.starts = y.starts /\ x.handler = y.handler /\ x.observed = y.observed
           /\ x.late = y.late /\ x.ready = y.ready /\ x.expired = y.expired
<1>1. x \in Record
  BY DEF Record
<1> QED
  BY <1>1 DEF Record

LEMMA RespondRecord ==
    ASSUME NEW y \in Record, y.starts = 0, NEW x, x = Respond(y)
    PROVE  /\ x \in Record /\ x.pc = "done" /\ x.held = FALSE /\ x.starts = 1
           /\ x.handler = y.handler /\ x.observed = y.observed
           /\ x.late = y.late /\ x.ready = y.ready
<1>1. y.starts + 1 \in 0..2 /\ "done" \in RequestPc /\ FALSE \in BOOLEAN
  BY DEF RequestPc
<1>2. x \in Record
  BY <1>1 DEF Respond, Record
<1> QED
  BY <1>2 DEF Respond, Record

LEMMA RecordedRecord ==
    ASSUME NEW y \in Record, y.observed = 0, NEW x, x = Recorded(y)
    PROVE  /\ x \in Record /\ x.handler = "closed" /\ x.observed = 1
           /\ x.pc = y.pc /\ x.kind = y.kind /\ x.held = y.held /\ x.starts = y.starts
           /\ x.late = y.late /\ x.ready = y.ready /\ x.expired = y.expired
<1>1. y.observed + 1 \in 0..2
  OBVIOUS
<1>2. x \in Record
  BY <1>1 DEF Recorded, Record
<1> QED
  BY <1>2 DEF Recorded, Record

\* A response that is complete.
LEMMA RespondSound ==
    ASSUME NEW y, RecordSound(y), y.starts = 0, y.handler # "open"
    PROVE  RecordSound(Respond(y)) /\ Respond(y).pc = "done"
<1>1. PICK x : x = Respond(y)
  OBVIOUS
<1>2. /\ x \in Record /\ x.pc = "done" /\ x.held = FALSE /\ x.starts = 1
      /\ x.handler = y.handler /\ x.observed = y.observed
      /\ x.late = y.late /\ x.ready = y.ready
  BY <1>1, RespondRecord DEF RecordSound
<1>3. RecordSound(x)
  BY <1>2 DEF RecordSound, Before, InHandler, OnlyStreams
<1> QED
  BY <1>1, <1>2, <1>3

\* A request that goes on at p, where what it has done so far is in order.
LEMMA MovedSound ==
    ASSUME NEW y, RecordSound(y), NEW p \in RequestPc,
           p \in Before \cup {"handling", "priming"} => y.starts = 0 /\ ~y.held,
           p \in Before => y.handler = "none",
           p \in InHandler => y.handler = "open",
           p \in {"answering", "last"} => y.handler # "open",
           p \in OnlyStreams \/ (p = "done" /\ y.handler = "open") => y.kind = "stream",
           p = "checking" /\ y.late => early
    PROVE  LET x == [y EXCEPT !.pc = p] IN RecordSound(x) /\ x.pc = p /\ x.late = y.late
<1>1. PICK x : x = [y EXCEPT !.pc = p]
  OBVIOUS
<1>2. /\ x \in Record /\ x.pc = p /\ x.held = y.held
      /\ x.starts = y.starts /\ x.handler = y.handler /\ x.observed = y.observed
      /\ x.late = y.late /\ x.ready = y.ready /\ x.kind = y.kind
  BY <1>1, MovedRecord DEF RecordSound
<1>3. RecordSound(x)
  BY <1>2 DEF RecordSound
<1> QED
  BY <1>1, <1>2, <1>3

LEMMA RecordedSound ==
    ASSUME NEW y, RecordSound(y), y.handler = "open", y.pc \notin InHandler
    PROVE  RecordSound(Recorded(y)) /\ Recorded(y).pc = y.pc
<1>1. PICK x : x = Recorded(y)
  OBVIOUS
<1>2. /\ x \in Record /\ x.handler = "closed" /\ x.observed = 1
      /\ x.pc = y.pc /\ x.held = y.held /\ x.starts = y.starts /\ x.kind = y.kind
      /\ x.late = y.late /\ x.ready = y.ready
  BY <1>1, RecordedRecord DEF RecordSound
<1>3. RecordSound(x)
  BY <1>2 DEF RecordSound
<1> QED
  BY <1>1, <1>2, <1>3

-----------------------------------------------------------------------------
(* One lemma per request action *)

\* What is known of a request that is at a given place.
LEMMA RequestFacts ==
    ASSUME IInv, NEW r \in Request
    PROVE  /\ request[r] \in Record /\ RecordSound(request[r]) /\ WillSee(request[r])
           /\ request[r].pc \notin Quiet => phase \in Serving
  BY DEF IInv, RequestSound

\* A tracked request that goes on inside the tracker, as x.
LEMMA InsideStep ==
    ASSUME IInv, NEW r \in Request, request[r].pc \in Tracked, NEW x, RecordSound(x),
           x.pc \in Tracked \ {"entered"},
           x.pc # "unwinding" => request[r].pc # "unwinding",
           Becomes(r, x), UNCHANGED <<graph, server, tracker>>
    PROVE  IInv'
<1>1. phase \in Serving \/ x.pc \in Quiet
  BY RequestFacts DEF Quiet, Tracked
<1>2. WillSee(x)
  BY DEF WillSee, Tracked
<1>3. TrackerMoves(r, x)
  BY DEF TrackerMoves
<1> QED
  BY <1>1, <1>2, <1>3, RequestStepKeeps

\* A tracked request that is over, as x.
LEMMA OverStep ==
    ASSUME IInv, NEW r \in Request, request[r].pc \in Tracked, NEW x, RecordSound(x),
           x.pc = "done", Becomes(r, x), Release, UNCHANGED <<graph, server>>
    PROVE  IInv'
<1>1. WillSee(x) /\ x.pc \in Quiet
  BY DEF WillSee, Quiet
<1>2. TrackerMoves(r, x)
  BY DEF TrackerMoves, Tracked
<1> QED
  BY <1>1, <1>2, RequestStepKeeps DEF Tracked

LEMMA ArriveStep ==
    ASSUME IInv, NEW r \in Request, NEW kind \in {"probe", "sync", "stream"}, Arrive(r, kind)
    PROVE  IInv'
<1> DEFINE limited == kind # "probe" /\ settings.ip_limit = "on"
           x == [NoRequest EXCEPT !.kind = kind, !.late = signals > 0,
                                  !.pc = IF limited THEN "limiter" ELSE "entered"]
<1>1. (signals > 0) \in BOOLEAN /\ phase = "serving" /\ request[r].pc = "none"
  BY DEF IInv, ServerSound, Arrive, At
<1>2. NoRequest \in Record
  BY NoRequestSound DEF RecordSound
<1>3. x \in Record
  BY <1>1, <1>2 DEF Record, RequestPc, Running, Tracked
<1>4. /\ x.pc = IF limited THEN "limiter" ELSE "entered"
      /\ x.starts = 0 /\ ~x.held /\ x.handler = "none" /\ x.observed = 0 /\ ~x.ready
      /\ x.late = (signals > 0)
  BY DEF NoRequest
<1>5. RecordSound(x)
  BY <1>3, <1>4 DEF RecordSound, InHandler, OnlyStreams
<1>6. WillSee(x)
  BY <1>1, <1>4 DEF WillSee, IInv, ServerSound, Serving
<1>7. Becomes(r, x) /\ (IF limited THEN UNCHANGED tracker ELSE Acquire)
  BY DEF Arrive
<1>8. TrackerMoves(r, x)
  BY <1>1, <1>4, <1>7 DEF TrackerMoves, Tracked
<1> HIDE DEF x
<1> QED
  BY <1>1, <1>5, <1>6, <1>7, <1>8, RequestStepKeeps DEF Arrive, Serving

LEMMA CheckIPStep ==
    ASSUME IInv, NEW r \in Request, CheckIP(r)
    PROVE  IInv'
<1> DEFINE y == request[r]
<1>1. RecordSound(y) /\ WillSee(y) /\ y.pc = "limiter" /\ phase \in Serving
      /\ y.starts = 0 /\ ~y.held /\ y.handler = "none"
  BY RequestFacts DEF CheckIP, At, Quiet, RecordSound, Before
<1>2. CASE Becomes(r, [request[r] EXCEPT !.pc = "entered"]) /\ Acquire
  <2>1. PICK x : x = [y EXCEPT !.pc = "entered"]
    OBVIOUS
  <2>2. RecordSound(x) /\ x.pc = "entered" /\ x.late = y.late
    BY <1>1, <2>1, MovedSound DEF RequestPc, Running, Tracked, InHandler, OnlyStreams
  <2>3. WillSee(x) /\ TrackerMoves(r, x)
    BY <1>1, <1>2, <2>2 DEF WillSee, TrackerMoves, Tracked
  <2> QED
    BY <1>1, <1>2, <2>1, <2>2, <2>3, RequestStepKeeps DEF CheckIP
<1>3. CASE Becomes(r, Respond(request[r])) /\ UNCHANGED tracker
  <2>1. PICK x : x = Respond(y)
    OBVIOUS
  <2>2. RecordSound(x) /\ x.pc = "done"
    BY <1>1, <2>1, RespondSound
  <2>3. WillSee(x) /\ TrackerMoves(r, x) /\ x.pc \in Quiet
    BY <1>1, <1>3, <2>2 DEF WillSee, TrackerMoves, Tracked, Quiet
  <2> QED
    BY <1>1, <1>3, <2>1, <2>2, <2>3, RequestStepKeeps DEF CheckIP
<1> QED
  BY <1>2, <1>3 DEF CheckIP

LEMMA RefuseStep ==
    ASSUME IInv, NEW r \in Request, Refuse(r)
    PROVE  IInv'
<1>1. RecordSound(request[r]) /\ request[r].pc = "entered" /\ request[r].starts = 0
      /\ request[r].handler = "none"
  BY RequestFacts DEF Refuse, At, RecordSound, Before
<1>2. PICK x : x = Respond(request[r])
  OBVIOUS
<1>3. RecordSound(x) /\ x.pc = "done"
  BY <1>1, <1>2, RespondSound
<1> QED
  BY <1>1, <1>2, <1>3, OverStep DEF Refuse, Tracked

\* The answer to a late probe is decided by draining, which the signal set.
LEMMA ReadinessStep ==
    ASSUME IInv, NEW r \in Request, Readiness(r)
    PROVE  IInv'
<1> DEFINE y == request[r]
<1>1. RecordSound(y) /\ WillSee(y) /\ y.pc = "entered" /\ y.starts = 0 /\ ~y.held
      /\ y.handler = "none"
  BY RequestFacts DEF Readiness, At, RecordSound, Before
<1>2. PICK p \in {"answering", "checking"} : p = IF health.draining THEN "answering" ELSE "checking"
  OBVIOUS
<1>3. p = "checking" /\ y.late => early
  BY <1>1, <1>2 DEF WillSee
<1>4. PICK x : x = [y EXCEPT !.pc = p]
  OBVIOUS
<1>5. p \in RequestPc /\ p \notin InHandler \cup OnlyStreams /\ p # "done"
      /\ p \in Tracked \ {"entered", "unwinding"}
  BY <1>2 DEF RequestPc, Running, Tracked, InHandler, OnlyStreams
<1>6. RecordSound(x) /\ x.pc = p
  BY <1>1, <1>3, <1>4, <1>5, MovedSound
<1>7. Becomes(r, x) /\ UNCHANGED <<graph, server, tracker>>
  BY <1>2, <1>4 DEF Readiness
<1> QED
  BY <1>1, <1>5, <1>6, <1>7, InsideStep DEF Tracked

LEMMA ChecksDoneStep ==
    ASSUME IInv, NEW r \in Request, ChecksDone(r)
    PROVE  IInv'
<1> DEFINE y == request[r]
<1>1. RecordSound(y) /\ y \in Record /\ y.pc = "checking" /\ (y.late => early)
      /\ y.starts = 0 /\ y.handler = "none"
  BY RequestFacts DEF ChecksDone, At, RecordSound, Before
<1>2. PICK ok \in BOOLEAN : Becomes(r, [y EXCEPT !.pc = "answering", !.ready = ok])
  BY DEF ChecksDone
<1>3. PICK x : x = [y EXCEPT !.pc = "answering", !.ready = ok]
  OBVIOUS
<1>4. x \in Record
  BY <1>1, <1>3 DEF Record, RequestPc, Running, Tracked
<1>5. /\ x.pc = "answering" /\ x.held = y.held /\ x.starts = y.starts
      /\ x.handler = y.handler /\ x.observed = y.observed /\ x.late = y.late
  BY <1>1, <1>3, <1>4 DEF Record
<1>6. RecordSound(x)
  BY <1>1, <1>4, <1>5 DEF RecordSound, Before, InHandler, OnlyStreams
<1> QED
  BY <1>1, <1>2, <1>3, <1>5, <1>6, InsideStep DEF ChecksDone, Tracked

LEMMA HandleStep ==
    ASSUME IInv, NEW r \in Request, Handle(r)
    PROVE  IInv'
<1> DEFINE y == request[r]
<1>1. RecordSound(y) /\ y \in Record /\ y.pc = "entered" /\ y.starts = 0
      /\ ~y.held /\ y.observed = 0
  BY RequestFacts DEF Handle, At, RecordSound, Before
<1>2. PICK p \in {"handling", "priming"} : p = IF Kind(r, "sync") THEN "handling" ELSE "priming"
  OBVIOUS
<1>3. PICK x : x = [y EXCEPT !.handler = "open", !.pc = p]
  OBVIOUS
<1>4. x \in Record
  BY <1>1, <1>2, <1>3 DEF Record, RequestPc, Running, Tracked
<1>5. /\ x.pc = p /\ x.held = y.held /\ x.starts = y.starts /\ x.handler = "open"
      /\ x.observed = y.observed /\ x.late = y.late /\ x.ready = y.ready /\ x.kind = y.kind
  BY <1>1, <1>3, <1>4 DEF Record
<1>6. p = "priming" => y.kind = "stream"
  BY <1>1, <1>2 DEF Handle, Kind, Record
<1>7. RecordSound(x)
  BY <1>1, <1>2, <1>4, <1>5, <1>6 DEF RecordSound, Before, OnlyStreams
<1>8. Becomes(r, x) /\ UNCHANGED <<graph, server, tracker>>
  BY <1>2, <1>3 DEF Handle
<1> QED
  BY <1>1, <1>2, <1>5, <1>7, <1>8, InsideStep DEF Tracked

\* The finally clause closes an open handler with one observation.
LEMMA ObservedStep ==
    ASSUME IInv, NEW r \in Request, request[r].pc \in InHandler, NEW p \in {"answering", "last"},
           p = "last" => request[r].kind = "stream",
           Becomes(r, [Recorded(request[r]) EXCEPT !.pc = p]),
           UNCHANGED <<graph, server, tracker>>
    PROVE  IInv'
<1> DEFINE y == request[r]
<1>1. RecordSound(y) /\ y \in Record /\ y.handler = "open" /\ y.observed = 0
  BY RequestFacts DEF RecordSound
<1>2. PICK z : z = Recorded(y)
  OBVIOUS
<1>3. /\ z \in Record /\ z.handler = "closed" /\ z.observed = 1 /\ z.held = y.held
      /\ z.starts = y.starts /\ z.late = y.late /\ z.ready = y.ready /\ z.kind = y.kind
  BY <1>1, <1>2, RecordedRecord
<1>4. PICK x : x = [z EXCEPT !.pc = p]
  OBVIOUS
<1>5. p \in RequestPc
  BY DEF RequestPc, Running, Tracked
<1>6. /\ x \in Record /\ x.pc = p /\ x.held = z.held /\ x.starts = z.starts
      /\ x.handler = z.handler /\ x.observed = z.observed /\ x.late = z.late
      /\ x.ready = z.ready /\ x.kind = z.kind
  BY <1>3, <1>4, <1>5, MovedRecord
<1>7. RecordSound(x)
  BY <1>1, <1>3, <1>6 DEF RecordSound, Before, InHandler, OnlyStreams
<1>8. Becomes(r, x)
  BY <1>2, <1>4
<1> QED
  BY <1>6, <1>7, <1>8, InsideStep DEF Tracked, InHandler

LEMMA HandlerEndsStep ==
    ASSUME IInv, NEW r \in Request, HandlerEnds(r)
    PROVE  IInv'
  BY ObservedStep DEF HandlerEnds, At, InHandler

LEMMA StreamEndsStep ==
    ASSUME IInv, NEW r \in Request, StreamEnds(r)
    PROVE  IInv'
<1>1. request[r].kind = "stream"
  BY RequestFacts DEF StreamEnds, At, RecordSound, OnlyStreams
<1> QED
  BY <1>1, ObservedStep DEF StreamEnds, At, InHandler

LEMMA StartResponseStep ==
    ASSUME IInv, NEW r \in Request, StartResponse(r)
    PROVE  IInv'
<1> DEFINE y == request[r]
<1>1. RecordSound(y) /\ y \in Record /\ y.pc = "answering" /\ y.starts = 0 /\ ~y.held
  BY RequestFacts DEF StartResponse, At
<1>2. CASE settings.gzip = "on"
  <2>1. PICK x : x = [y EXCEPT !.held = TRUE]
    OBVIOUS
  <2>2. x \in Record
    BY <1>1, <2>1 DEF Record
  <2>3. /\ x.pc = "answering" /\ x.starts = y.starts /\ x.handler = y.handler
        /\ x.observed = y.observed /\ x.late = y.late /\ x.ready = y.ready
    BY <1>1, <2>1, <2>2 DEF Record
  <2>4. RecordSound(x)
    BY <1>1, <2>2, <2>3 DEF RecordSound, Before, InHandler, OnlyStreams
  <2>5. Becomes(r, x) /\ UNCHANGED <<graph, server, tracker>>
    BY <1>2, <2>1 DEF StartResponse
  <2> QED
    BY <1>1, <2>3, <2>4, <2>5, InsideStep DEF Tracked
<1>3. CASE settings.gzip # "on"
  <2>1. PICK x : x = [y EXCEPT !.starts = @ + 1]
    OBVIOUS
  <2>2. x \in Record
    BY <1>1, <2>1 DEF Record
  <2>3. /\ x.pc = "answering" /\ x.starts = 1 /\ x.held = y.held /\ x.handler = y.handler
        /\ x.observed = y.observed /\ x.late = y.late /\ x.ready = y.ready
    BY <1>1, <2>1, <2>2 DEF Record
  <2>4. RecordSound(x)
    BY <1>1, <2>2, <2>3 DEF RecordSound, Before, InHandler, OnlyStreams
  <2>5. Becomes(r, x) /\ UNCHANGED <<graph, server, tracker>>
    BY <1>3, <2>1 DEF StartResponse
  <2> QED
    BY <1>1, <2>3, <2>4, <2>5, InsideStep DEF Tracked
<1> QED
  BY <1>2, <1>3

LEMMA EndResponseStep ==
    ASSUME IInv, NEW r \in Request, EndResponse(r)
    PROVE  IInv'
<1> DEFINE y == request[r]
<1>1. RecordSound(y) /\ y \in Record /\ y.pc = "answering"
  BY RequestFacts DEF EndResponse, At
<1>2. PICK n \in 0..1 : n = IF y.held THEN y.starts + 1 ELSE y.starts
  BY <1>1 DEF RecordSound, Record
<1>3. PICK x : x = [y EXCEPT !.pc = "done", !.held = FALSE, !.starts = n]
  OBVIOUS
<1>4. x \in Record
  <2>1. "done" \in RequestPc /\ n \in 0..2 /\ FALSE \in BOOLEAN
    BY <1>2 DEF RequestPc
  <2> QED
    BY <1>1, <1>3, <2>1 DEF Record
<1>5. /\ x.pc = "done" /\ x.held = FALSE /\ x.starts = n /\ x.handler = y.handler
      /\ x.observed = y.observed /\ x.late = y.late /\ x.ready = y.ready
  BY <1>1, <1>3, <1>4 DEF Record
<1>6. RecordSound(x)
  BY <1>1, <1>2, <1>4, <1>5 DEF RecordSound, Before, InHandler, OnlyStreams
<1>7. Becomes(r, x) /\ Release /\ UNCHANGED <<graph, server>>
  BY <1>2, <1>3 DEF EndResponse
<1> QED
  BY <1>1, <1>5, <1>6, <1>7, OverStep DEF Tracked

LEMMA FirstEventStep ==
    ASSUME IInv, NEW r \in Request, FirstEvent(r)
    PROVE  IInv'
<1> DEFINE y == request[r]
<1>1. RecordSound(y) /\ y \in Record /\ y.pc = "priming" /\ y.starts = 0
      /\ ~y.held /\ y.handler = "open"
  BY RequestFacts DEF FirstEvent, At, RecordSound, InHandler
<1>2. PICK x : x = [y EXCEPT !.pc = "sending", !.starts = @ + 1]
  OBVIOUS
<1>3. x \in Record
  <2>1. "sending" \in RequestPc /\ y.starts + 1 \in 0..2
    BY <1>1 DEF RequestPc, Running, Tracked
  <2> QED
    BY <1>1, <1>2, <2>1 DEF Record
<1>4. /\ x.pc = "sending" /\ x.held = y.held /\ x.starts = 1 /\ x.handler = y.handler
      /\ x.observed = y.observed /\ x.late = y.late /\ x.ready = y.ready /\ x.kind = y.kind
  BY <1>1, <1>2, <1>3 DEF Record
<1>5. RecordSound(x)
  BY <1>1, <1>3, <1>4 DEF RecordSound, Before, OnlyStreams
<1>6. Becomes(r, x) /\ UNCHANGED <<graph, server, tracker>>
  BY <1>2 DEF FirstEvent
<1> QED
  BY <1>1, <1>4, <1>5, <1>6, InsideStep DEF Tracked

LEMMA FrameStep ==
    ASSUME IInv, NEW r \in Request, FrameSent(r) \/ NextFrame(r)
    PROVE  IInv'
<1> DEFINE y == request[r]
<1>1. RecordSound(y) /\ y.pc \in {"sending", "waiting"} /\ y.handler = "open"
      /\ y.kind = "stream"
  BY RequestFacts DEF FrameSent, NextFrame, At, RecordSound, InHandler, OnlyStreams
<1>2. PICK p \in {"sending", "waiting"} : Becomes(r, [y EXCEPT !.pc = p])
  BY DEF FrameSent, NextFrame
<1>3. PICK x : x = [y EXCEPT !.pc = p]
  OBVIOUS
<1>4. p \in RequestPc /\ p \notin Before \cup {"handling", "priming", "answering", "last", "done"}
  BY DEF RequestPc, Running, Tracked, Before
<1>5. RecordSound(x) /\ x.pc = p
  BY <1>1, <1>3, <1>4, MovedSound
<1> QED
  BY <1>1, <1>2, <1>3, <1>5, InsideStep DEF FrameSent, NextFrame, Tracked

LEMMA LastFrameSentStep ==
    ASSUME IInv, NEW r \in Request, LastFrameSent(r)
    PROVE  IInv'
<1> DEFINE y == request[r]
<1>1. RecordSound(y) /\ y.pc = "last" /\ y.kind = "stream"
  BY RequestFacts DEF LastFrameSent, At, RecordSound, OnlyStreams
<1>2. PICK x : x = [y EXCEPT !.pc = "done"]
  OBVIOUS
<1>3. RecordSound(x) /\ x.pc = "done"
  BY <1>1, <1>2, MovedSound DEF RequestPc, Before, InHandler
<1> QED
  BY <1>1, <1>2, <1>3, OverStep DEF LastFrameSent, Tracked

-----------------------------------------------------------------------------
(* Cancelled requests *)

\* What a cancellation leaves of a request: it is over, or unwinds, and what it
\* owes is still in order.
LEMMA CancelledSound ==
    ASSUME NEW y, RecordSound(y)
    PROVE  /\ RecordSound(Cancelled(y))
           /\ Cancelled(y).pc \in Quiet
           /\ y.pc \in {"limiter", "last", "sending"} => Cancelled(y).pc = "done"
           /\ y.pc \in Running \ {"limiter", "last", "sending"} => Cancelled(y).pc = "unwinding"
           /\ y.pc \notin Running => Cancelled(y) = y
<1>1. y.pc \in RequestPc
  BY DEF RecordSound, Record
<1>2. CASE y.pc \in {"limiter", "last", "sending"}
  <2>1. Cancelled(y) = [y EXCEPT !.pc = "done"]
    BY <1>2 DEF Cancelled
  <2>2. "done" \in RequestPc /\ "done" \notin Before /\ "done" \notin InHandler \cup OnlyStreams
    BY DEF RequestPc, Before, InHandler, OnlyStreams
  <2>3. y.handler = "open" => y.kind = "stream"
    BY <1>2 DEF RecordSound, Before, OnlyStreams
  <2>4. RecordSound(Cancelled(y)) /\ Cancelled(y).pc = "done"
    BY <2>1, <2>2, <2>3, MovedSound
  <2> QED
    BY <1>2, <2>4 DEF Quiet, Running, Tracked
<1>3. CASE y.pc \in Running \ {"limiter", "last", "sending"}
  <2>1. Cancelled(y) = [y EXCEPT !.pc = "unwinding"]
    BY <1>3 DEF Cancelled
  <2>2. /\ "unwinding" \in RequestPc /\ "unwinding" \notin Before
        /\ "unwinding" \notin InHandler \cup OnlyStreams
    BY DEF RequestPc, Running, Tracked, Before, InHandler, OnlyStreams
  <2>3. RecordSound(Cancelled(y)) /\ Cancelled(y).pc = "unwinding"
    BY <2>1, <2>2, MovedSound
  <2> QED
    BY <1>3, <2>3 DEF Quiet
<1>4. CASE y.pc \notin Running
  <2>1. Cancelled(y) = y
    BY <1>4 DEF Cancelled, Running, Tracked
  <2> QED
    BY <1>1, <1>4, <2>1 DEF RequestPc, Running, Tracked, Quiet
<1> QED
  BY <1>2, <1>3, <1>4 DEF Running, Tracked

LEMMA DisconnectStep ==
    ASSUME IInv, NEW r \in Request, Disconnect(r)
    PROVE  IInv'
<1>1. RecordSound(request[r]) /\ request[r].pc \in {"sending", "waiting", "last"}
  BY RequestFacts DEF Disconnect
<1>2. PICK x : x = Cancelled(request[r])
  OBVIOUS
<1>3. Becomes(r, x) /\ UNCHANGED <<graph, server>>
  BY <1>2 DEF Disconnect
<1>4. CASE request[r].pc = "waiting"
  <2>1. RecordSound(x) /\ x.pc = "unwinding" /\ UNCHANGED tracker
    BY <1>1, <1>2, <1>4, CancelledSound DEF Running, Tracked, Disconnect, At
  <2> QED
    BY <1>3, <1>4, <2>1, InsideStep DEF Tracked
<1>5. CASE request[r].pc # "waiting"
  <2>1. RecordSound(x) /\ x.pc = "done" /\ Release
    BY <1>1, <1>2, <1>5, CancelledSound DEF Disconnect, At
  <2> QED
    BY <1>1, <1>3, <1>5, <2>1, OverStep DEF Tracked
<1> QED
  BY <1>4, <1>5

LEMMA RequestTimeoutStep ==
    ASSUME IInv, NEW r \in Request, RequestTimeout(r)
    PROVE  IInv'
<1> DEFINE y == request[r]
<1>1. RecordSound(y) /\ y \in Record /\ y.pc \in Tracked \ {"unwinding"}
  BY RequestFacts DEF RequestTimeout
<1>2. PICK x : x = [y EXCEPT !.pc = "unwinding", !.expired = TRUE]
  OBVIOUS
<1>3. x \in Record
  BY <1>1, <1>2 DEF Record, RequestPc, Running, Tracked
<1>4. /\ x.pc = "unwinding" /\ x.held = y.held /\ x.starts = y.starts /\ x.handler = y.handler
      /\ x.observed = y.observed /\ x.late = y.late /\ x.ready = y.ready
  BY <1>1, <1>2, <1>3 DEF Record
<1>5. RecordSound(x)
  BY <1>1, <1>3, <1>4 DEF RecordSound, Before, InHandler, OnlyStreams
<1>6. Becomes(r, x) /\ UNCHANGED <<graph, server, tracker>>
  BY <1>2 DEF RequestTimeout
<1> QED
  BY <1>1, <1>4, <1>5, <1>6, InsideStep DEF Tracked

\* A cancelled request is observed if it was not, and answered if nothing was.
LEMMA UnwindStep ==
    ASSUME IInv, NEW r \in Request, Unwind(r)
    PROVE  IInv'
<1> DEFINE y == request[r]
<1>1. RecordSound(y) /\ y \in Record /\ y.pc = "unwinding"
  BY RequestFacts DEF Unwind, At
<1>2. PICK z : z = [y EXCEPT !.pc = "done", !.held = FALSE]
  OBVIOUS
<1>3. z \in Record
  <2>1. "done" \in RequestPc /\ FALSE \in BOOLEAN
    BY DEF RequestPc
  <2> QED
    BY <1>1, <1>2, <2>1 DEF Record
<1>4. /\ z.pc = "done" /\ z.held = FALSE /\ z.starts = y.starts /\ z.handler = y.handler
      /\ z.observed = y.observed /\ z.late = y.late /\ z.ready = y.ready
  BY <1>1, <1>2, <1>3 DEF Record
<1>5. z.handler = "open" => z.observed = 0
  BY <1>1, <1>4 DEF RecordSound
<1>6. PICK c : c = IF z.handler = "open" THEN Recorded(z) ELSE z
  OBVIOUS
<1>7. RecordSound(c) /\ c.pc = "done" /\ c.starts = z.starts /\ c.handler # "open"
  <2>1. /\ c \in Record /\ c.pc = "done" /\ c.held = FALSE /\ c.starts = y.starts
        /\ c.handler # "open" /\ c.late = y.late /\ c.ready = y.ready
        /\ c.observed = IF c.handler = "closed" THEN 1 ELSE 0
    <3>1. CASE z.handler = "open"
      BY <1>3, <1>4, <1>5, <1>6, <3>1, RecordedRecord
    <3>2. CASE z.handler # "open"
      BY <1>1, <1>3, <1>4, <1>6, <3>2 DEF RecordSound
    <3> QED
      BY <3>1, <3>2
  <2> QED
    BY <1>1, <1>4, <2>1 DEF RecordSound, Before, InHandler, OnlyStreams
<1>8. PICK x : x = IF TimeoutResponds(z) THEN Respond(c) ELSE c
  OBVIOUS
<1>9. RecordSound(x) /\ x.pc = "done"
  <2>1. CASE TimeoutResponds(z)
    BY <1>7, <1>8, <2>1, RespondSound DEF TimeoutResponds
  <2>2. CASE ~TimeoutResponds(z)
    BY <1>7, <1>8, <2>2
  <2> QED
    BY <2>1, <2>2
<1>10. Becomes(r, x) /\ Release /\ UNCHANGED <<graph, server>>
  BY <1>2, <1>6, <1>8 DEF Unwind
<1> QED
  BY <1>1, <1>9, <1>10, OverStep DEF Tracked

LEMMA FinalizeStep ==
    ASSUME IInv, NEW r \in Request, Finalize(r)
    PROVE  IInv'
<1>1. RecordSound(request[r]) /\ request[r].pc = "done" /\ request[r].handler = "open"
  BY RequestFacts DEF Finalize, At
<1>2. PICK x : x = Recorded(request[r])
  OBVIOUS
<1>3. RecordSound(x) /\ x.pc = "done"
  BY <1>1, <1>2, RecordedSound DEF InHandler
<1>4. WillSee(x) /\ x.pc \in Quiet /\ x.pc \notin Tracked /\ request[r].pc \notin Tracked
  BY <1>1, <1>3 DEF WillSee, Quiet, Tracked
<1>5. Becomes(r, x) /\ UNCHANGED <<graph, server, tracker>>
  BY <1>2 DEF Finalize
<1> QED
  BY <1>3, <1>4, <1>5, RequestStepKeeps DEF TrackerMoves

-----------------------------------------------------------------------------
(* The server *)

\* A step of the server that leaves the requests alone.
LEMMA ServerStepKeeps ==
    ASSUME IInv, GraphSound', ServerSound', UNCHANGED <<tracker, request>>,
           \A r \in Request : WillSee(request[r])', early => early',
           phase' \notin Serving => \A r \in Request : request[r].pc \in Quiet,
           NothingClosedUnderRequests'
    PROVE  IInv'
<1>1. TrackerSound'
  BY DEF IInv, TrackerSound, InTracker
<1>2. \A r \in Request : RequestSound(r)'
  BY DEF IInv, RequestSound, RecordSound
<1> QED
  BY <1>1, <1>2 DEF IInv

\* The signals and the timer: draining is only ever switched on.
LEMMA SignalStep ==
    ASSUME IInv, FirstSignal \/ SecondSignal \/ ArmTimer \/ TimerFires
    PROVE  IInv'
<1>1. UNCHANGED <<graph, phase, gave_up, tracker, request>>
  BY DEF FirstSignal, SecondSignal, ArmTimer, TimerFires
<1>2. GraphSound'
  BY <1>1, KeptGraph DEF IInv
<1>3. ServerSound /\ (health.draining => health'.draining) /\ (early => early')
  BY DEF IInv, FirstSignal, SecondSignal, ArmTimer, TimerFires, ServerSound
<1>4. ServerSound'
  <2>1. CASE FirstSignal
    <3>1. health' = [health EXCEPT !.draining = TRUE] /\ health'.draining
          /\ health' \in [service : {"placeholder", "runtime"}, draining : BOOLEAN]
      BY <1>3, <2>1 DEF FirstSignal, ServerSound
    <3>2. /\ signals' = 1 /\ timer' \in {timer, "called"} /\ should_exit' \in {should_exit, TRUE}
          /\ early' = (phase = "opening") /\ signals = 0
      BY <2>1 DEF FirstSignal
    <3>3. ASSUME phase' = "opening" PROVE early'
      <4>1. phase = "opening"
        BY <1>1, <3>3
      <4> QED
        BY <3>2, <4>1
    <3>4. early' \in BOOLEAN
      BY <3>2
    <3>5. should_exit' \in BOOLEAN
      <4>1. should_exit \in BOOLEAN /\ TRUE \in BOOLEAN
        BY <1>3 DEF ServerSound
      <4> QED
        BY <3>2, <4>1, Zenon
    <3>6. signals' \in 0..2
      BY <3>2
    <3> QED
      BY <1>1, <1>3, <3>1, <3>2, <3>3, <3>4, <3>5, <3>6 DEF ServerSound
  <2>2. CASE SecondSignal
    <3>1. /\ signals' = 2 /\ timer' \in {"off", "cancelled"} /\ should_exit' = TRUE
          /\ health' = health /\ early' = early /\ signals = 1
      BY <2>2 DEF SecondSignal
    <3>2. should_exit' \in BOOLEAN /\ signals' \in 0..2
      BY <3>1
    <3> QED
      BY <1>1, <1>3, <3>1, <3>2 DEF ServerSound
  <2>3. CASE ArmTimer
    BY <1>1, <1>3, <2>3 DEF ServerSound, ArmTimer
  <2>4. CASE TimerFires
    BY <1>1, <1>3, <2>4 DEF ServerSound, TimerFires
  <2> QED
    BY <2>1, <2>2, <2>3, <2>4
<1>5. \A r \in Request : WillSee(request[r])'
  BY <1>1, <1>3 DEF IInv, RequestSound, WillSee
<1>6. phase' \notin Serving => \A r \in Request : request[r].pc \in Quiet
  BY <1>1 DEF IInv, RequestSound
<1>7. NothingClosedUnderRequests'
  BY <1>1 DEF IInv, NothingClosedUnderRequests, graph
<1> QED
  BY <1>1, <1>2, <1>3, <1>4, <1>5, <1>6, <1>7, ServerStepKeeps

\* The other steps of the server are about its phase and its readiness.
LEMMA PhaseStep ==
    ASSUME IInv, UNCHANGED <<signals, timer, should_exit, early, tracker, request>>,
           GraphSound', phase' \in Phase, gave_up' \in BOOLEAN,
           health' \in [service : {"placeholder", "runtime"}, draining : BOOLEAN],
           phase' = "opening" => phase = "opening",
           signals > 0 /\ phase' \in Serving => health'.draining \/ early,
           phase' \notin Serving => \A r \in Request : request[r].pc \in Quiet,
           phase \in Serving => (health.draining => health'.draining),
           NothingClosedUnderRequests'
    PROVE  IInv'
<1>1. ServerSound'
  BY DEF IInv, ServerSound
<1>2. \A r \in Request : WillSee(request[r])'
  <2> SUFFICES ASSUME NEW r \in Request, request[r].late, request[r].pc \in {"limiter", "entered"}
               PROVE  health'.draining \/ early
    BY DEF WillSee
  <2>1. phase \in Serving /\ (health.draining \/ early)
    BY DEF IInv, RequestSound, WillSee, Quiet
  <2> QED
    BY <2>1
<1> QED
  BY <1>1, <1>2, ServerStepKeeps

LEMMA OpenStep ==
    ASSUME IInv, Open PROVE IInv'
<1>1. phase = "opening" /\ UNCHANGED <<server, tracker, request>>
  BY DEF Open
<1>2. GraphSound'
  BY OpenKeepsGraph DEF IInv
<1>3. NothingClosedUnderRequests'
  BY <1>1 DEF NothingClosedUnderRequests, server
<1> QED
  BY <1>1, <1>2, <1>3, PhaseStep DEF IInv, ServerSound, RequestSound, server

LEMMA FailOpenStep ==
    ASSUME IInv, FailOpen PROVE IInv'
<1>1. /\ phase = "opening" /\ phase' = "failed"
      /\ UNCHANGED <<graph, signals, timer, should_exit, health, gave_up, early, tracker, request>>
  BY DEF FailOpen
<1>2. GraphSound'
  BY <1>1, KeptGraph DEF IInv
<1>3. NothingClosedUnderRequests'
  BY <1>1 DEF NothingClosedUnderRequests
<1>4. phase' \in Phase /\ phase' \notin Serving /\ phase \notin Serving
  BY <1>1 DEF Phase, Serving
<1>5. ServerSound /\ \A r \in Request : RequestSound(r)
  BY DEF IInv
<1> QED
  BY <1>1, <1>2, <1>3, <1>4, <1>5, PhaseStep DEF ServerSound, RequestSound

LEMMA StartedStep ==
    ASSUME IInv, Started PROVE IInv'
<1>1. /\ phase = "opening" /\ phase' \in {"draining", "serving"}
      /\ health' = [service |-> "runtime", draining |-> should_exit]
      /\ UNCHANGED <<graph, signals, timer, should_exit, gave_up, early, tracker, request>>
  BY DEF Started
<1>2. GraphSound'
  BY <1>1, KeptGraph DEF IInv
<1>3. NothingClosedUnderRequests'
  BY <1>1 DEF NothingClosedUnderRequests
<1>4. phase' \in Phase /\ phase' # "opening" /\ phase \notin Serving
  BY <1>1 DEF Phase, Serving
<1>5. ServerSound /\ \A r \in Request : RequestSound(r)
  BY DEF IInv
<1>6. health' \in [service : {"placeholder", "runtime"}, draining : BOOLEAN]
  BY <1>1, <1>5 DEF ServerSound
<1>7. (signals > 0 => early) /\ gave_up' \in BOOLEAN
  BY <1>1, <1>5 DEF ServerSound
<1>8. \A r \in Request : request[r].pc \in Quiet
  BY <1>4, <1>5 DEF RequestSound
<1> QED
  BY <1>1, <1>2, <1>3, <1>4, <1>6, <1>7, <1>8, PhaseStep

LEMMA StopListeningStep ==
    ASSUME IInv, StopListening PROVE IInv'
<1>1. /\ phase = "serving" /\ phase' = "stopping"
      /\ UNCHANGED <<graph, signals, timer, should_exit, health, gave_up, early, tracker, request>>
  BY DEF StopListening
<1>2. GraphSound'
  BY <1>1, KeptGraph DEF IInv
<1>3. NothingClosedUnderRequests'
  BY <1>1 DEF NothingClosedUnderRequests
<1>4. phase' \in Phase /\ phase' \in Serving /\ phase \in Serving
  BY <1>1 DEF Phase, Serving
<1>5. ServerSound
  BY DEF IInv
<1> QED
  BY <1>1, <1>2, <1>3, <1>4, <1>5, PhaseStep DEF ServerSound

\* begin_draining: not ready from here on.
LEMMA DrainFacts ==
    ASSUME IInv, phase = "stopping", Drain
    PROVE  /\ GraphSound' /\ phase' = "draining" /\ health'.draining
           /\ health' \in [service : {"placeholder", "runtime"}, draining : BOOLEAN]
           /\ UNCHANGED <<signals, timer, should_exit, gave_up, early>>
           /\ NothingClosedUnderRequests' /\ ServerSound'
<1>1. /\ phase' = "draining" /\ health' = [health EXCEPT !.draining = TRUE]
      /\ UNCHANGED <<graph, signals, timer, should_exit, gave_up, early>>
  BY DEF Drain
<1>2. GraphSound'
  BY <1>1, KeptGraph DEF IInv
<1>3. NothingClosedUnderRequests'
  BY <1>1 DEF NothingClosedUnderRequests
<1>4. ServerSound
  BY DEF IInv
<1>5. /\ health' \in [service : {"placeholder", "runtime"}, draining : BOOLEAN]
      /\ health'.draining
  BY <1>1, <1>4 DEF ServerSound
<1>6. ServerSound'
  BY <1>1, <1>4, <1>5 DEF ServerSound, Phase
<1> QED
  BY <1>1, <1>2, <1>3, <1>5, <1>6

LEMMA RequestsDoneStep ==
    ASSUME IInv, RequestsDone PROVE IInv'
<1>1. phase = "stopping" /\ AllDone /\ Drain /\ UNCHANGED <<tracker, request>>
  BY DEF RequestsDone
<1>2. \A r \in Request : request[r].pc \in Quiet
  <2> SUFFICES ASSUME NEW r \in Request PROVE request[r].pc \in Quiet
    OBVIOUS
  <2>1. request[r].pc \in RequestPc /\ request[r].pc \notin Running
    BY <1>1, RequestFacts DEF AllDone, RecordSound, Record
  <2> QED
    BY <2>1 DEF RequestPc, Quiet
<1>3. \A r \in Request : WillSee(request[r])'
  BY <1>1, <1>2 DEF WillSee, Quiet
<1> QED
  BY <1>1, <1>2, <1>3, DrainFacts, ServerStepKeeps

\* A cancellation takes exactly the requests that are not left unwinding out
\* of the tracker, each once.
LEMMA CancelRequestsStep ==
    ASSUME IInv, CancelRequests PROVE IInv'
<1> DEFINE k == Cardinality(Released)
<1>1. phase = "stopping" /\ request' = [r \in Request |-> Cancelled(request[r])] /\ Drain
  BY DEF CancelRequests
<1>2. /\ TrackerSound /\ request \in [Request -> Record]
      /\ \A r \in Request : RecordSound(request[r])
  BY DEF IInv, RequestSound
<1>3. \A r \in Request : request'[r] = Cancelled(request[r])
  BY <1>1
<1>4. \A r \in Request : RecordSound(Cancelled(request[r])) /\ Cancelled(request[r]).pc \in Quiet
  BY <1>2, CancelledSound
<1>5. request' \in [Request -> Record]
  BY <1>1, <1>4 DEF RecordSound
<1>6. \A r \in Request : RequestSound(r)'
  <2> SUFFICES ASSUME NEW r \in Request PROVE RequestSound(r)'
    OBVIOUS
  <2>1. PICK x : x = Cancelled(request[r])
    OBVIOUS
  <2>2. request'[r] = x /\ RecordSound(x) /\ x.pc \in Quiet
    BY <1>3, <1>4, <2>1
  <2> QED
    BY <1>1, <2>2 DEF RequestSound, RecordSound, WillSee, Quiet, Drain
<1>7. Released \subseteq InTracker
  BY DEF Released, InTracker
<1>8. InTracker' = InTracker \ Released
  <2> SUFFICES ASSUME NEW r \in Request
               PROVE  request'[r].pc \in Tracked <=>
                        request[r].pc \in Tracked /\ Cancelled(request[r]).pc # "done"
    BY DEF InTracker, Released
  <2>1. /\ Cancelled(request[r]).pc \in Quiet
        /\ request[r].pc \in {"limiter", "last", "sending"} => Cancelled(request[r]).pc = "done"
        /\ request[r].pc \in Running \ {"limiter", "last", "sending"}
             => Cancelled(request[r]).pc = "unwinding"
        /\ request[r].pc \notin Running => Cancelled(request[r]) = request[r]
    BY <1>2, CancelledSound
  <2>2. request'[r] = Cancelled(request[r])
    BY <1>3
  <2> QED
    BY <2>1, <2>2 DEF Running, Tracked, Quiet
<1>9. /\ IsFiniteSet(InTracker) /\ tracker.count = Cardinality(InTracker)
      /\ tracker.count \in Nat /\ tracker.idle \in BOOLEAN /\ (tracker.idle <=> tracker.count = 0)
  BY <1>2 DEF TrackerSound
<1>10. IsFiniteSet(Released) /\ k \in Nat /\ k <= tracker.count
  BY <1>7, <1>9, FS_Subset, FS_CardinalityType
<1>11. InTracker \cap Released = Released
  BY <1>7
<1>12. /\ IsFiniteSet(InTracker')
       /\ Cardinality(InTracker') = tracker.count - k
  BY <1>8, <1>9, <1>11, FS_Difference
<1>13. tracker' = [count |-> tracker.count - k, idle |-> tracker.idle \/ tracker.count - k = 0]
  BY DEF CancelRequests
<1>14. tracker'.count = tracker.count - k /\ tracker.count - k \in Nat
  BY <1>9, <1>10, <1>13
<1>15. tracker'.idle <=> tracker.count - k = 0
  <2>1. tracker'.idle = (tracker.idle \/ tracker.count - k = 0)
    BY <1>13
  <2>2. tracker.count = 0 => tracker.count - k = 0
    BY <1>9, <1>10
  <2> QED
    BY <1>9, <2>1, <2>2
<1>16. tracker' \in [count : Nat, idle : BOOLEAN]
  BY <1>13, <1>14
<1>17. TrackerSound'
  BY <1>12, <1>14, <1>15, <1>16 DEF TrackerSound
<1> QED
  BY <1>1, <1>5, <1>6, <1>17, DrainFacts DEF IInv

\* With nothing tracked, nothing runs that a close could take a resource from.
LEMMA DrainedStep ==
    ASSUME IInv, Drained PROVE IInv'
<1>1. /\ phase = "draining" /\ Idle /\ phase' = "closing"
      /\ UNCHANGED <<graph, signals, timer, should_exit, health, gave_up, early, tracker, request>>
  BY DEF Drained
<1>2. GraphSound'
  BY <1>1, KeptGraph DEF IInv
<1>3. NothingClosedUnderRequests'
  <2> SUFFICES ASSUME settings.graceful = "on" PROVE \A r \in Request : request[r].pc \notin Tracked
    BY <1>1 DEF NothingClosedUnderRequests, graph
  <2>1. TrackerSound /\ tracker.count = 0
    BY <1>1 DEF Idle, IInv, TrackerSound
  <2>2. InTracker = {}
    BY <2>1, FS_EmptySet DEF TrackerSound
  <2> QED
    BY <2>2 DEF InTracker
<1>4. phase' \in Phase /\ phase' \notin Serving /\ phase \notin Serving /\ phase' # "opening"
  BY <1>1 DEF Phase, Serving
<1>5. ServerSound /\ \A r \in Request : RequestSound(r)
  BY DEF IInv
<1> QED
  BY <1>1, <1>2, <1>3, <1>4, <1>5, PhaseStep DEF ServerSound, RequestSound

LEMMA DrainTimeoutStep ==
    ASSUME IInv, DrainTimeout PROVE IInv'
<1>1. /\ phase = "draining" /\ phase' = "closing" /\ gave_up' = TRUE
      /\ UNCHANGED <<graph, signals, timer, should_exit, health, early, tracker, request>>
  BY DEF DrainTimeout
<1>2. GraphSound'
  BY <1>1, KeptGraph DEF IInv
<1>3. NothingClosedUnderRequests' /\ gave_up' \in BOOLEAN
  BY <1>1 DEF NothingClosedUnderRequests
<1>4. phase' \in Phase /\ phase' \notin Serving /\ phase \notin Serving /\ phase' # "opening"
  BY <1>1 DEF Phase, Serving
<1>5. ServerSound /\ \A r \in Request : RequestSound(r)
  BY DEF IInv
<1> QED
  BY <1>1, <1>2, <1>3, <1>4, <1>5, PhaseStep DEF ServerSound, RequestSound

LEMMA CloseStep ==
    ASSUME IInv, Close PROVE IInv'
<1>1. /\ phase \in {"closing", "failed"} /\ settings' = settings
      /\ UNCHANGED <<server, tracker, request>>
  BY DEF Close, CloseLast
<1>2. GraphSound'
  BY CloseKeepsGraph DEF IInv
<1>3. NothingClosedUnderRequests'
  BY <1>1 DEF IInv, NothingClosedUnderRequests, server
<1>4. phase' = phase /\ phase' \notin Serving /\ phase' # "opening"
  BY <1>1 DEF Serving, server
<1>5. ServerSound /\ \A r \in Request : RequestSound(r)
  BY DEF IInv
<1> QED
  BY <1>1, <1>2, <1>3, <1>4, <1>5, PhaseStep DEF ServerSound, RequestSound, server

LEMMA StopStep ==
    ASSUME IInv, Stop PROVE IInv'
<1>1. /\ phase = "closing" /\ phase' = "stopped"
      /\ health' = [service |-> "placeholder", draining |-> FALSE]
      /\ UNCHANGED <<graph, signals, timer, should_exit, gave_up, early, tracker, request>>
  BY DEF Stop
<1>2. GraphSound'
  BY <1>1, KeptGraph DEF IInv
<1>3. NothingClosedUnderRequests'
  BY <1>1 DEF IInv, NothingClosedUnderRequests, graph
<1>4. phase' \in Phase /\ phase' \notin Serving /\ phase \notin Serving /\ phase' # "opening"
  BY <1>1 DEF Phase, Serving
<1>5. ServerSound /\ \A r \in Request : RequestSound(r)
  BY DEF IInv
<1>6. health' \in [service : {"placeholder", "runtime"}, draining : BOOLEAN]
  <2>1. FALSE \in BOOLEAN
    OBVIOUS
  <2> QED
    BY <1>1, <2>1
<1> QED
  BY <1>1, <1>2, <1>3, <1>4, <1>5, <1>6, PhaseStep DEF ServerSound, RequestSound

-----------------------------------------------------------------------------
(* The theorems *)

LEMMA InvNext == IInv /\ [Next]_vars => IInv'
<1> SUFFICES ASSUME IInv, [Next]_vars PROVE IInv'
  OBVIOUS
<1>1. CASE Open
  BY <1>1, OpenStep
<1>2. CASE FailOpen
  BY <1>2, FailOpenStep
<1>3. CASE Started
  BY <1>3, StartedStep
<1>4. CASE FirstSignal \/ SecondSignal \/ ArmTimer \/ TimerFires
  BY <1>4, SignalStep
<1>5. ASSUME NEW r \in Request, NEW kind \in {"probe", "sync", "stream"}, Arrive(r, kind)
      PROVE  IInv'
  BY <1>5, ArriveStep
<1>6. ASSUME NEW r \in Request, RequestStep(r) PROVE IInv'
  BY <1>6, CheckIPStep, RefuseStep, ReadinessStep, ChecksDoneStep, HandleStep, HandlerEndsStep,
     StartResponseStep, EndResponseStep, FirstEventStep, FrameStep, StreamEndsStep,
     LastFrameSentStep DEF RequestStep
<1>7. ASSUME NEW r \in Request, Disconnect(r) \/ RequestTimeout(r) \/ Unwind(r) \/ Finalize(r)
      PROVE  IInv'
  BY <1>7, DisconnectStep, RequestTimeoutStep, UnwindStep, FinalizeStep
<1>8. CASE StopListening
  BY <1>8, StopListeningStep
<1>9. CASE RequestsDone
  BY <1>9, RequestsDoneStep
<1>10. CASE CancelRequests
  BY <1>10, CancelRequestsStep
<1>11. CASE Drained
  BY <1>11, DrainedStep
<1>12. CASE DrainTimeout
  BY <1>12, DrainTimeoutStep
<1>13. CASE Close
  BY <1>13, CloseStep
<1>14. CASE Stop
  BY <1>14, StopStep
<1>15. CASE UNCHANGED vars
  <2>1. UNCHANGED graph /\ UNCHANGED server /\ UNCHANGED <<tracker, request>>
    BY <1>15 DEF vars
  <2>2. GraphSound'
    BY <2>1, KeptGraph DEF IInv, server
  <2>3. ServerSound' /\ NothingClosedUnderRequests'
    BY <2>1 DEF IInv, ServerSound, NothingClosedUnderRequests, server, graph
  <2>4. \A r \in Request : WillSee(request[r])'
    BY <2>1 DEF IInv, RequestSound, WillSee, server
  <2>5. phase' \notin Serving => \A r \in Request : request[r].pc \in Quiet
    BY <2>1 DEF IInv, RequestSound, server
  <2> QED
    BY <2>1, <2>2, <2>3, <2>4, <2>5, ServerStepKeeps DEF server
<1> QED
  BY <1>1, <1>2, <1>3, <1>4, <1>5, <1>6, <1>7, <1>8, <1>9, <1>10, <1>11, <1>12, <1>13, <1>14,
     <1>15 DEF Next

\* The inductive invariant: the resources follow their openers' order, the
\* tracker counts the requests inside it, and each request owes at most one
\* response and one observation.
THEOREM InductiveInvariant == Spec => []IInv
  BY InvInit, InvNext, PTL DEF Spec

\* Every variable of the process keeps its type.
THEOREM TypeCorrect == Spec => []TypeOK
<1>1. IInv => TypeOK
  BY DEF IInv, GraphSound, ServerSound, TrackerSound, TypeOK
<1> QED
  BY <1>1, InductiveInvariant, PTL

\* With settings that the validators of core/config accept, no opener raises
\* because a resource it asks for is missing.
THEOREM ValidSettingsOpen == Spec => []OpenersFindTheirServices
<1>1. IInv => OpenersFindTheirServices
  BY NothingMissing DEF IInv, OpenersFindTheirServices, Missing, OpenFails
<1> QED
  BY <1>1, InductiveInvariant, PTL

\* The exit stack closes every user before what it was built on, after a
\* failed startup as after a shutdown.
THEOREM ServicesOutliveUsers == Spec => []UsersCloseFirst
<1>1. IInv => UsersCloseFirst
  BY DEF IInv, GraphSound
<1> QED
  BY <1>1, InductiveInvariant, PTL

\* The lifespan closes nothing under a tracked request, however many there are
\* and however they end, unless the drain gave up or is switched off.
THEOREM DrainsFirst == Spec => []NothingClosedUnderRequests
<1>1. IInv => NothingClosedUnderRequests
  BY DEF IInv
<1> QED
  BY <1>1, InductiveInvariant, PTL

\* A readiness probe of after the first signal is answered "ok" only if that
\* signal came before the lifespan had installed its HealthService, which then
\* knows nothing of it.
THEOREM LateProbesRefused == Spec => []DrainingIsSeen
<1>1. IInv => DrainingIsSeen
  BY DEF IInv, RequestSound, RecordSound, DrainingIsSeen
<1> QED
  BY <1>1, InductiveInvariant, PTL

\* No request gets a second response start, from gzip, the timeout, a limiter
\* or the endpoint.
THEOREM SingleResponse == Spec => []OneResponse
<1>1. IInv => OneResponse
  BY DEF IInv, RequestSound, RecordSound, OneResponse
<1> QED
  BY <1>1, InductiveInvariant, PTL

\* Never two observations of one call, and one as soon as its handler is
\* closed; a request that is over has closed its handler, unless it is a stream,
\* whose generator the event loop may still have to close.
ObservationsInOrder ==
    \A r \in Request :
        /\ request[r].observed = IF request[r].handler = "closed" THEN 1 ELSE 0
        /\ request[r].pc = "done" /\ request[r].handler = "open" => Kind(r, "stream")

\* The finally clauses of CompletionService record a call at most once, and
\* every completion that is over exactly once but for streams cut while a frame
\* was under way.  That those are closed in the end is left to model checking.
THEOREM SingleObservation == Spec => []ObservationsInOrder
<1>1. IInv => ObservationsInOrder
  BY DEF IInv, RequestSound, RecordSound, ObservationsInOrder, Kind
<1> QED
  BY <1>1, InductiveInvariant, PTL

=============================================================================
