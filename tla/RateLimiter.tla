----------------------------- MODULE RateLimiter -----------------------------
(***************************************************************************)
(* The sliding-window-counter rate limiters: the in-memory one, and the    *)
(* Redis one, whose Lua script runs atomically.  Time is in ticks, Window  *)
(* of them to window_seconds; a check happens at the start of a tick.      *)
(***************************************************************************)
EXTENDS Integers, FiniteSets

CONSTANTS
    Key,
    Limit,               \* limit
    Window,              \* window_seconds, in ticks
    EvictionThreshold,   \* eviction_threshold
    MaxTime              \* bound: the clock stops here

ASSUME RateLimiterAssumption ==
    /\ Limit \in Nat \ {0} /\ Window \in Nat \ {0}
    /\ EvictionThreshold \in Nat \ {0} /\ MaxTime \in Nat

VARIABLES
    backend,   \* "memory" or "redis"
    now,       \* the clock of the process, or of the Redis server
    counts,    \* the buckets of both: a count per key and window index
    ends,      \* when a Redis bucket expires
    admitted   \* history: the requests of a key let through in the last d ticks

limiterVars == <<backend, now, counts, ends, admitted>>

Index == 0..(MaxTime \div Window)
Bucket == Key \X Index
Ago == 0..(Window - 1)

window_index == now \div Window
elapsed == now % Window

LimiterInit ==
    /\ backend \in {"memory", "redis"}
    /\ now = 0
    /\ counts = [b \in Bucket |-> 0]
    /\ ends = [b \in Bucket |-> 0]
    /\ admitted = [k \in Key |-> [d \in Ago |-> 0]]

(* Mutant: the previous window counts as expired. *)
StalePrevious(index) == {b \in Bucket : b[2] < index}

(* Buckets that no check will read again. *)
Stale(index) == {b \in Bucket : b[2] < index - 1}

(* _evict_if_needed: once the table has grown to the threshold. *)
Evicted ==
    IF backend = "memory"
       /\ Cardinality({b \in Bucket : counts[b] > 0}) >= EvictionThreshold
    THEN [b \in Bucket |-> IF b \in Stale(window_index) THEN 0 ELSE counts[b]]
    ELSE counts

Current(table, k) == table[<<k, window_index>>]
Previous(table, k) ==
    IF window_index = 0 THEN 0 ELSE table[<<k, window_index - 1>>]

(* previous * (1 - elapsed / window_seconds), truncated.  The product is   *)
(* computed in floating point: where it is a whole number it may come out  *)
(* just below, except at the very start of a window, where the weight is   *)
(* exactly one.                                                            *)
Weighted(previous) ==
    LET exact == previous * (Window - elapsed)
        whole == exact \div Window
    IN {whole} \union
       {w \in {whole - 1} : elapsed > 0 /\ exact % Window = 0 /\ w >= 0}

(* Mutant: blocked requests are counted too, in memory. *)
CountedRefusals(table, k) ==
    [table EXCEPT ![<<k, window_index>>] = IF backend = "memory" THEN @ + 1 ELSE @]

(* A refused request leaves the counters alone. *)
Refused(table, k) == table

Admit(table, k) ==
    LET b == <<k, window_index>> IN
    /\ counts' = [table EXCEPT ![b] = @ + 1]
    /\ ends' = IF backend = "redis" /\ table[b] = 0
               THEN [ends EXCEPT ![b] = now + 2 * Window] ELSE ends
    /\ admitted' = [admitted EXCEPT ![k] = [d \in Ago |-> @[d] + 1]]

Check(k) ==
    LET table == Evicted IN
    \E weighted \in Weighted(Previous(table, k)) :
        /\ IF Current(table, k) + weighted >= Limit
           THEN /\ counts' = Refused(table, k)
                /\ UNCHANGED <<ends, admitted>>
           ELSE Admit(table, k)
        /\ UNCHANGED <<backend, now>>

(* EXPIRE: twice the window after the first request of the bucket. *)
Expired(b, time) == backend = "redis" /\ ends[b] # 0 /\ ends[b] <= time

Tick ==
    /\ now < MaxTime
    /\ now' = now + 1
    /\ counts' = [b \in Bucket |-> IF Expired(b, now') THEN 0 ELSE counts[b]]
    /\ ends' = [b \in Bucket |-> IF Expired(b, now') THEN 0 ELSE ends[b]]
    /\ admitted' = [k \in Key |-> [d \in Ago |-> IF d = 0 THEN 0
                                                 ELSE admitted[k][d - 1]]]
    /\ UNCHANGED backend

LimiterNext == Tick \/ \E k \in Key : Check(k)

LimiterSpec == LimiterInit /\ [][LimiterNext]_limiterVars

-----------------------------------------------------------------------------
(* Properties *)

LimiterTypeOK ==
    /\ backend \in {"memory", "redis"}
    /\ now \in 0..MaxTime
    /\ counts \in [Bucket -> Nat]
    /\ ends \in [Bucket -> Nat]
    /\ admitted \in [Key -> [Ago -> Nat]]
    \* a Redis bucket always has a TTL, so none is left behind
    /\ \A b \in Bucket : ends[b] # 0 <=> (backend = "redis" /\ counts[b] > 0)

(* However checks straddle a window boundary, the requests of the last d   *)
(* ticks exceed the limit by no more than the share of it that the current *)
(* window has earned back, and one for the truncation of the weight: what  *)
(* smoothing promises instead of a burst of twice the limit.               *)
BurstBounded ==
    \A k \in Key, d \in Ago :
        IF d <= elapsed THEN admitted[k][d] <= Limit
        ELSE admitted[k][d] <= Limit + ((Limit * elapsed) \div Window)
                                     + (IF elapsed = 0 THEN 0 ELSE 1)

(* A key that was not admitted in the current window is admitted at any    *)
(* time after its start: refusals never feed on themselves.                *)
NotStarved ==
    \A k \in Key :
        elapsed > 0 /\ Current(counts, k) = 0
            => \A w \in Weighted(Previous(counts, k)) : w < Limit

=============================================================================
