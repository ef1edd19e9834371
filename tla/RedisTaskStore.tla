--------------------------- MODULE RedisTaskStore ---------------------------
(***************************************************************************)
(* The task store on Redis: one JSON value per task, with a TTL.  Claims   *)
(* and reclaims are optimistic transactions (WATCH, GET, MULTI, EXEC, again *)
(* on WatchError); the marks of a finished handler are GET, TTL and SETEX  *)
(* with nothing to guard them.  Time is a clock here, unlike in TaskStore, *)
(* for claim and reclaim compare the lease with a time they read before    *)
(* their first attempt.  It counts ticks of which SECOND make a second,    *)
(* because timestamps and the server's clock are finer than the whole      *)
(* seconds that TTL answers and SETEX takes.                               *)
(***************************************************************************)
EXTENDS Integers, FiniteSets

CONSTANTS
    Task, NoTask,
    Worker,                      \* worker coroutines
    Reclaimer,                   \* the reclaim loop
    SECOND,                      \* ticks in a second
    LEASE,                       \* lease_seconds
    TTL,                         \* ttl_seconds of the task service
    MaxLag,                      \* bound: ticks from a submission to its SETEX
    MaxTime,                     \* bound: the clock stops here
    MaxClaims,                   \* bound: deliveries that are claimed
    TASKS_MAX_ATTEMPTS,
    TASKS_RECLAIM_BATCH_SIZE,
    TASKS_CLEANUP_BATCH_SIZE     \* of TaskStore; Redis purges by TTL

ASSUME RedisTaskStoreAssumption ==
    /\ SECOND \in Nat \ {0} /\ LEASE \in Nat \ {0} /\ TTL \in Nat \ {0}
    /\ MaxLag \in Nat
    /\ MaxTime \in Nat \ {0} /\ MaxClaims \in Nat
    /\ TASKS_MAX_ATTEMPTS \in Nat \ {0} /\ TASKS_RECLAIM_BATCH_SIZE \in Nat \ {0}
    /\ Reclaimer \notin Worker
    /\ NoTask \notin Task

VARIABLES
    now,       \* the clock
    redis,     \* the value stored for each task, and when its TTL ends
    client,    \* where each worker and the reclaim loop is in its calls
    pass,      \* the reclaim pass: keys still to visit, tasks settled
    overrun,   \* history: tasks marked by a worker that had outlived its lease
    lag        \* history: how long the calls that wrote each task took in all

vars == <<now, redis, client, pass, overrun, lag>>

Client == Worker \union {Reclaimer}
Terminal == {"completed", "failed"}

(* locked_until and the end of the TTL are clock values, 0 for none.       *)
Value == [status : {"none", "queued", "processing", "purged"} \union Terminal,
          attempts : Nat, locked : Nat, expires : Nat, ends : Nat]

NoValue == [status |-> "none", attempts |-> 0, locked |-> 0, expires |-> 0,
            ends |-> 0]

(* read is the value of the last GET, dirty whether the watched key was    *)
(* written since, at the time the call compares leases with.               *)
Call == [pc : {"idle", "watch", "read", "exec", "working", "ttl", "setex", "scan"},
         task : Task \union {NoTask}, at : Nat, lease : Nat, read : Value,
         dirty : BOOLEAN, ttl : Nat, status : Terminal \union {"none"}]

Idle == [pc |-> "idle", task |-> NoTask, at |-> 0, lease |-> 0,
         read |-> NoValue, dirty |-> FALSE, ttl |-> 0, status |-> "none"]

Exists(t) == redis[t].status \notin {"none", "purged"}

Init ==
    /\ now = 1
    /\ redis = [t \in Task |-> NoValue]
    /\ client = [c \in Client |-> Idle]
    /\ pass = [todo |-> {}, settled |-> 0]
    /\ overrun = {}
    /\ lag = [t \in Task |-> 0]

Watching(c) == c.pc \in {"read", "exec"}

(* A write to a key dirties whoever watches it. *)
Written(t, clients) ==
    [c \in Client |-> IF clients[c].task = t /\ Watching(clients[c])
                      THEN [clients[c] EXCEPT !.dirty = TRUE]
                      ELSE clients[c]]

Set(t, value, clients) ==
    /\ redis' = [redis EXCEPT ![t] = value]
    /\ client' = Written(t, clients)

(* When a key written now with a TTL of so many seconds ends. *)
EndOf(seconds) == now + seconds * SECOND

(* int(), and never less than a second. *)
WholeSeconds(ticks) == IF ticks < SECOND THEN 1 ELSE ticks \div SECOND

(* The service stamps expires_at when the task is submitted, create turns  *)
(* what is left of it at its own time into whole seconds, and the SETEX    *)
(* arrives later still.                                                    *)
Create(t, submitted, at) ==
    LET expires == submitted + TTL * SECOND IN
    /\ redis[t].status = "none"
    /\ submitted <= at /\ at <= now /\ now <= submitted + MaxLag
    /\ Set(t, [status |-> "queued", attempts |-> 0, locked |-> 0, expires |-> expires,
               ends |-> EndOf(WholeSeconds(expires - at))], client)
    /\ lag' = [lag EXCEPT ![t] = now - submitted]
    /\ UNCHANGED <<now, pass, overrun>>

-----------------------------------------------------------------------------
(* _transition *)

LeaseExpired(value, at) ==
    value.status = "processing" /\ value.locked # 0 /\ value.locked <= at

Claimable(value, at) ==
    value.status = "queued" \/ LeaseExpired(value, at)

LeaseTicks == LEASE * SECOND

(* What the two mutate functions make of the value they read. *)
Claimed(value, at) ==
    [value EXCEPT !.status = "processing", !.attempts = @ + 1,
                  !.locked = at + LeaseTicks]

Reclaimed(value) ==
    [value EXCEPT !.locked = 0,
        !.status = IF value.attempts >= TASKS_MAX_ATTEMPTS
                   THEN "failed" ELSE "queued"]

(* WATCH and GET; accepts is the mutate function's answer.  A key that is  *)
(* gone, or that mutate leaves alone, ends the call.                       *)
Read(c, accepts, ended) ==
    LET t == client[c].task IN
    client' = [client EXCEPT ![c] =
                IF Exists(t) /\ accepts
                THEN [@ EXCEPT !.pc = "read", !.read = redis[t], !.dirty = FALSE]
                ELSE ended]

(* Redis answers TTL in seconds, rounded to the nearest. *)
Ttl(t) == (redis[t].ends - now + SECOND \div 2) \div SECOND

(* Mutant: every write gives the key a whole new lifetime. *)
RemainingRenewed(t) == TTL

(* A key that has gone meanwhile, or whose TTL is rounded to none, is      *)
(* given a second.                                                         *)
Remaining(t) == IF Exists(t) /\ Ttl(t) > 0 THEN Ttl(t) ELSE 1

TransitionTtl(c) ==
    /\ client[c].pc = "read"
    /\ client' = [client EXCEPT ![c].pc = "exec", ![c].ttl = Remaining(client[c].task)]
    /\ UNCHANGED <<now, redis, pass, overrun, lag>>

(* Mutant: the transaction does not notice that its key was written. *)
ExecUnwatched(c, value, done) ==
    LET t == client[c].task IN
    /\ Set(t, [value EXCEPT !.ends = EndOf(client[c].ttl)], [client EXCEPT ![c] = done])
    /\ lag' = [lag EXCEPT ![t] = @ + now - client[c].at]

(* MULTI, SETEX, EXEC: refused with WatchError when the key was written,   *)
(* or expired, since it was watched, and the loop starts again.  The TTL   *)
(* is the one read before, counted from now.                               *)
Exec(c, value, done) ==
    LET t == client[c].task IN
    IF client[c].dirty
    THEN /\ client' = [client EXCEPT ![c].pc = "watch", ![c].read = NoValue,
                                     ![c].dirty = FALSE, ![c].ttl = 0]
         /\ UNCHANGED <<redis, lag>>
    ELSE /\ Set(t, [value EXCEPT !.ends = EndOf(client[c].ttl)], [client EXCEPT ![c] = done])
         /\ lag' = [lag EXCEPT ![t] = @ + now - client[c].at]

-----------------------------------------------------------------------------
(* A worker's message: require, mark_processing, then a mark *)

(* require finds the task; mark_processing reads the time once. *)
Receive(w, t) ==
    /\ client[w].pc = "idle"
    /\ Exists(t)
    /\ redis[t].attempts < MaxClaims
    /\ client' = [client EXCEPT ![w].pc = "watch", ![w].task = t, ![w].at = now]
    /\ UNCHANGED <<now, redis, pass, overrun, lag>>

ClaimRead(w) ==
    /\ client[w].pc = "watch"
    /\ Read(w, Claimable(redis[client[w].task], client[w].at), Idle)
    /\ UNCHANGED <<now, redis, pass, overrun, lag>>

ClaimExec(w) ==
    /\ client[w].pc = "exec"
    /\ LET c == client[w] IN
        Exec(w, Claimed(c.read, c.at),
             [Idle EXCEPT !.pc = "working", !.task = c.task,
                          !.lease = c.at + LeaseTicks])
    /\ UNCHANGED <<now, pass, overrun>>

(* mark_completed or mark_failed: _update reads the value first. *)
UpdateGet(w, status) ==
    /\ client[w].pc = "working"
    /\ LET t == client[w].task IN
        client' = [client EXCEPT ![w] =
                    IF Exists(t)
                    THEN [@ EXCEPT !.pc = "ttl", !.read = redis[t],
                                   !.status = status]
                    ELSE Idle]
    /\ UNCHANGED <<now, redis, pass, overrun, lag>>

UpdateTtl(w) ==
    /\ client[w].pc = "ttl"
    /\ client' = [client EXCEPT ![w].pc = "setex", ![w].ttl = Remaining(client[w].task)]
    /\ UNCHANGED <<now, redis, pass, overrun, lag>>

(* Mutant: the mark keeps the lease. *)
MarkedLocked(c) == [c.read EXCEPT !.status = c.status, !.ends = EndOf(c.ttl)]

(* The value read, with the status of the mark and no lease, is written    *)
(* back whatever the key holds by now.                                     *)
Marked(c) ==
    [c.read EXCEPT !.status = c.status, !.locked = 0, !.ends = EndOf(c.ttl)]

UpdateSetex(w) ==
    /\ client[w].pc = "setex"
    /\ Set(client[w].task, Marked(client[w]), [client EXCEPT ![w] = Idle])
    /\ overrun' = IF client[w].lease <= now
                  THEN overrun \union {client[w].task} ELSE overrun
    /\ UNCHANGED <<now, pass, lag>>

(* The worker dies, or a call fails: the message will be delivered again. *)
Abandon(w) ==
    /\ client[w].pc # "idle"
    /\ client' = [client EXCEPT ![w] = Idle]
    /\ UNCHANGED <<now, redis, pass, overrun, lag>>

-----------------------------------------------------------------------------
(* reclaim_stale_processing *)

Scan ==
    /\ client[Reclaimer].pc = "idle"
    /\ \E t \in Task : Exists(t)
    /\ client' = [client EXCEPT ![Reclaimer].pc = "scan", ![Reclaimer].at = now]
    /\ pass' = [todo |-> {t \in Task : Exists(t)}, settled |-> 0]
    /\ UNCHANGED <<now, redis, overrun, lag>>

Visit(t) ==
    /\ client[Reclaimer].pc = "scan"
    /\ t \in pass.todo
    /\ pass.settled < TASKS_RECLAIM_BATCH_SIZE
    /\ client' = [client EXCEPT ![Reclaimer].pc = "watch", ![Reclaimer].task = t]
    /\ pass' = [pass EXCEPT !.todo = @ \ {t}]
    /\ UNCHANGED <<now, redis, overrun, lag>>

NextKey == [Idle EXCEPT !.pc = "scan", !.at = client[Reclaimer].at]

ReclaimRead ==
    LET c == client[Reclaimer] IN
    /\ c.pc = "watch"
    /\ Read(Reclaimer, LeaseExpired(redis[c.task], c.at), NextKey)
    /\ UNCHANGED <<now, redis, pass, overrun, lag>>

ReclaimExec ==
    LET c == client[Reclaimer] IN
    /\ c.pc = "exec"
    /\ Exec(Reclaimer, Reclaimed(c.read), NextKey)
    /\ pass' = IF c.dirty THEN pass ELSE [pass EXCEPT !.settled = @ + 1]
    /\ UNCHANGED <<now, overrun>>

(* The cursor is back at zero, or the batch is full; or the pass fails. *)
ScanEnds ==
    /\ client[Reclaimer].pc # "idle"
    /\ client' = [client EXCEPT ![Reclaimer] = Idle]
    /\ pass' = [todo |-> {}, settled |-> 0]
    /\ UNCHANGED <<now, redis, overrun, lag>>

-----------------------------------------------------------------------------

(* Time passes; Redis drops the keys whose TTL has ended. *)
Tick ==
    LET gone == {t \in Task : Exists(t) /\ redis[t].ends <= now + 1} IN
    /\ now < MaxTime
    /\ now' = now + 1
    /\ redis' = [t \in Task |-> IF t \in gone
                                THEN [NoValue EXCEPT !.status = "purged",
                                                     !.attempts = redis[t].attempts]
                                ELSE redis[t]]
    /\ client' = [c \in Client |-> IF client[c].task \in gone /\ Watching(client[c])
                                   THEN [client[c] EXCEPT !.dirty = TRUE]
                                   ELSE client[c]]
    /\ UNCHANGED <<pass, overrun, lag>>

Next ==
    \/ \E t \in Task : \/ \E submitted, at \in 0..now : Create(t, submitted, at)
                       \/ Visit(t)
    \/ \E w \in Worker, t \in Task : Receive(w, t)
    \/ \E w \in Worker : \/ ClaimRead(w) \/ ClaimExec(w)
                         \/ \E s \in Terminal : UpdateGet(w, s)
                         \/ UpdateTtl(w) \/ UpdateSetex(w) \/ Abandon(w)
    \/ \E c \in Client : TransitionTtl(c)
    \/ Scan \/ ReclaimRead \/ ReclaimExec \/ ScanEnds
    \/ Tick

Spec == Init /\ [][Next]_vars

-----------------------------------------------------------------------------
(* Properties *)

TypeOK ==
    /\ now \in 1..MaxTime
    /\ redis \in [Task -> Value]
    /\ client \in [Client -> Call]
    /\ pass \in [todo : SUBSET Task, settled : 0..TASKS_RECLAIM_BATCH_SIZE]
    /\ overrun \subseteq Task
    /\ lag \in [Task -> Nat]

(* Between its claim and its mark a worker whose own lease is still running *)
(* shares the task with no other such worker: a WatchError, a late EXEC or *)
(* a time read long before never lets two claims through (mark_processing).*)
LeaseExclusion ==
    \A v, w \in Worker :
        (/\ v # w /\ client[v].task = client[w].task
         /\ client[v].lease > now /\ client[w].lease > now) => FALSE

(* The claims and reclaims written to a task that is not settled. *)
Rewritten(t) ==
    IF redis[t].status = "processing" THEN 2 * redis[t].attempts - 1
    ELSE 2 * redis[t].attempts

(* The end of a key against expires_at: every write may shift it. *)
EndsNear(t) ==
    /\ redis[t].ends <= redis[t].expires + lag[t] + (SECOND - 1) * Rewritten(t)
    /\ redis[t].expires <= redis[t].ends + (SECOND - 1) * (Rewritten(t) + 1)

(* The key of a task that is not settled ends when its expires_at says, up *)
(* to what its writes may shift it: each claim and reclaim by less than a  *)
(* second either way, for TTL is rounded to whole seconds and never to     *)
(* none, create by less than a second downwards, for int() truncates, and  *)
(* all of them upwards by the time they took.  Nothing else keeps work     *)
(* alive past expires_at or forgets it before: of the writes only a mark   *)
(* brings back a key that has gone, and what it writes is settled.         *)
EndsAsPromised ==
    \A t \in Task : Exists(t) /\ redis[t].status \notin Terminal => EndsNear(t)

(* The row TaskStore would hold. *)
Row(t) ==
    [status |-> redis[t].status, attempts |-> redis[t].attempts,
     lease |-> IF redis[t].locked = 0 THEN "none"
               ELSE IF redis[t].locked > now THEN "live" ELSE "expired",
     ttl |-> "running"]

Rows == [t \in Task |-> Row(t)]

Contract == INSTANCE TaskStore WITH tasks <- Rows

(* The lease of a claim counts from a time read before it and may have run *)
(* out when the claim is written.                                          *)
ClaimedLate(t) ==
    /\ Contract!Claimable(t)
    /\ Rows' = [Rows EXCEPT ![t].status = "processing", ![t].lease = "expired",
                            ![t].attempts = @ + 1]

(* A mark writes a task back whose TTL has ended since it was read. *)
Revived(t) ==
    /\ Rows[t].status = "purged"
    /\ \E s \in Terminal : Rows' = [Rows EXCEPT ![t].status = s]

(* Time ends leases and purges rows, and does nothing else. *)
TimePasses ==
    /\ now' = now + 1
    /\ \A t \in Task :
        Row(t)' \in {Row(t), [Row(t) EXCEPT !.lease = "expired"],
                     [Row(t) EXCEPT !.status = "purged", !.lease = "none"]}

(* The transitions of the Postgres store, and the four ways in which this  *)
(* one goes beyond them: a mark that overran its lease, a lease that has   *)
(* run out when it is written, a revived task, and the clock.              *)
TaskStoreStep ==
    \/ \E t \in Task :
        \/ t \in overrun' /\ \A u \in Task \ {t} : Row(u)' = Row(u)
        \/ Contract!Create(t)
        \/ Contract!MarkProcessing(t)
        \/ ClaimedLate(t)
        \/ \E s \in Terminal : Contract!Update(t, s)
        \/ Revived(t)
        \/ Contract!LeaseExpired(t) /\ Contract!ReclaimStaleProcessing({t})
    \/ TimePasses

(* Until a worker marks a task after its lease has ended, every step is    *)
(* one of the transitions of the Postgres store, or brings a task back as  *)
(* settled: the three calls of a mark lose no claim, and claim and reclaim *)
(* see the row they change.                                                *)
ImplementsTaskStore == [][TaskStoreStep]_Rows

=============================================================================
