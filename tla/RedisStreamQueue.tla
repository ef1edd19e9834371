--------------------------- MODULE RedisStreamQueue ---------------------------
(***************************************************************************)
(* The work queue on Redis Streams: RedisStreamQueueGateway, one stream    *)
(* with one consumer group and a dead-letter stream.                       *)
(*                                                                         *)
(* An entry is "new" until XREADGROUP delivers it, then "pending" in the   *)
(* group's pending list, and "idle" once it has been pending for           *)
(* min_idle_seconds: only idle entries are delivered again (XAUTOCLAIM).   *)
(* Entry ids are never reused by Redis.  The model takes a "free" id again *)
(* once nobody refers to it, which renames the entries and loses nothing;  *)
(* the pool MsgId bounds how many entries exist at a time.                 *)
(***************************************************************************)
EXTENDS Naturals, TaskMessage

CONSTANTS
    MsgId,                     \* pool of stream entry ids
    QUEUE_MAX_DELIVERIES       \* max_deliveries of the gateway

ASSUME RedisStreamQueueAssumption ==
    QUEUE_MAX_DELIVERIES \in Nat \ {0}

VARIABLES
    stream,                    \* the stream with the group's pending list
    dead                       \* bodies in <stream>:dead

queueVars == <<stream, dead>>

Entry == [state      : {"free", "new", "pending", "idle"},
          body       : Task \cup {NoTask},
          deliveries : Nat]

NoEntry == [state |-> "free", body |-> NoTask, deliveries |-> 0]

QueueInit ==
    /\ stream = [m \in MsgId |-> NoEntry]
    /\ dead = {}

\* send: XADD under a fresh id.
Send(m, b) ==
    /\ stream[m].state = "free"
    /\ stream' = [stream EXCEPT ![m].state = "new", ![m].body = b]
    /\ dead' = dead

\* receive, second half: XREADGROUP hands out an entry never delivered.
ReadNew(m) ==
    /\ stream[m].state = "new"
    /\ stream' = [stream EXCEPT ![m].state = "pending", ![m].deliveries = 1]
    /\ dead' = dead

\* XACK and XDEL in one MULTI; a no-op on an entry already gone.
Ack(m) ==
    /\ stream' = [stream EXCEPT ![m] = NoEntry]
    /\ dead' = dead

\* XADD to the dead stream, XACK and XDEL in one MULTI.
DeadLetter(m, b) ==
    /\ stream' = [stream EXCEPT ![m] = NoEntry]
    /\ dead' = dead \cup {b}

\* receive, first half: XAUTOCLAIM counts one more delivery of an idle entry.
ClaimIdle(m) ==
    /\ stream[m].state = "idle"
    /\ stream' = [stream EXCEPT ![m].state = "pending", ![m].deliveries = @ + 1]
    /\ dead' = dead

\* An entry delivered too often is dead-lettered by receive itself.
Exhausted(deliveries) == deliveries > QUEUE_MAX_DELIVERIES

\* nack(requeue=True): XCLAIM marks a pending entry idle, and an entry that
\* left the pending list stays out of it.
NackRequeue(m) ==
    /\ stream' = [stream EXCEPT ![m].state = IF @ = "pending" THEN "idle" ELSE @]
    /\ dead' = dead

-----------------------------------------------------------------------------
(* Time passing: the consumer crashed, or is slower than min_idle_seconds. *)

BecomeIdle(m) ==
    /\ stream[m].state = "pending"
    /\ stream' = [stream EXCEPT ![m].state = "idle"]
    /\ dead' = dead

=============================================================================
