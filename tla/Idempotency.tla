----------------------------- MODULE Idempotency -----------------------------
(***************************************************************************)
(* Requests that carry the same Idempotency-Key of one principal, on the   *)
(* Postgres table idempotency_keys.  A request claims the key or replays   *)
(* its stored response, runs its handler, then stores the response under   *)
(* the token of its claim.                                                 *)
(*                                                                         *)
(* Keys do not affect each other, so there is one record.  The token of a  *)
(* claim is a fresh uuid, so the request that made it stands for it, and   *)
(* so does it for the response its handler produced.  expired stands for   *)
(* expires_at <= now, stuck for a claim older than the in-progress timeout.*)
(***************************************************************************)
CONSTANTS
    Request,
    Hash,                      \* request hashes: method, path, principal and body
    None

ASSUME IdempotencyAssumption == None \notin Request \cup Hash

VARIABLES
    record,                    \* the row of the key
    request                    \* how far each request got

vars == <<record, request>>

Record == [status   : {"absent", "in_progress", "completed"},
           token    : Request \cup {None},     \* claim_token
           hash     : Hash \cup {None},        \* request_hash
           response : Request \cup {None},     \* response_body
           expired  : BOOLEAN,
           stuck    : BOOLEAN]

Absent == [status |-> "absent", token |-> None, hash |-> None,
           response |-> None, expired |-> FALSE, stuck |-> FALSE]

Claimed(r, h) == [Absent EXCEPT !.status = "in_progress", !.token = r, !.hash = h]

\* Where a request may end, without having run its handler or after.
Answered == {"replayed", "in_progress", "conflict", "vanished"}
Settled == Answered \cup {"stored", "fenced", "handler_failed", "crashed"}

\* lapsed: the record expired or counted as stuck under this request's claim.
Progress == [pc     : {"new", "insert", "find", "running", "store"} \cup Settled,
             hash   : Hash \cup {None},
             got    : Request \cup {None},     \* the response it replayed
             lapsed : BOOLEAN]

TypeOK ==
    /\ record \in Record
    /\ request \in [Request -> Progress]

Init ==
    /\ record = Absent
    /\ request = [r \in Request |->
                   [pc |-> "new", hash |-> None, got |-> None, lapsed |-> FALSE]]

At(r, pc) == request[r].pc = pc

Goto(r, pc) == request' = [request EXCEPT ![r].pc = pc]

\* Requests between their claim and the end of their handler and store.
Working(r) == At(r, "running") \/ At(r, "store")

\* A request arrives; build_request_hash may give it any hash.
Arrive(r, h) ==
    /\ At(r, "new")
    /\ request' = [request EXCEPT ![r].pc = "insert", ![r].hash = h]
    /\ UNCHANGED record

\* _try_insert: INSERT ... ON CONFLICT DO NOTHING, committed at once when it
\* inserts; a concurrent insert waits for that commit.
TryInsert(r) ==
    /\ At(r, "insert")
    /\ IF record.status = "absent"
       THEN record' = Claimed(r, request[r].hash) /\ Goto(r, "running")
       ELSE UNCHANGED record /\ Goto(r, "find")

\* Mutant of Reclaimable: an IN_PROGRESS claim is never waited for.
ReclaimableInProgress == record.expired \/ record.status = "in_progress"

\* _find_record FOR UPDATE and the decision taken under its row lock.
Reclaimable ==
    \/ record.expired
    \/ record.status = "in_progress" /\ record.stuck

ReclaimRecord(r) ==
    /\ At(r, "find")
    /\ record.status # "absent"
    /\ Reclaimable
    /\ record' = Claimed(r, request[r].hash)
    /\ Goto(r, "running")

Replay(r) ==
    request' = [request EXCEPT ![r].pc = "replayed", ![r].got = record.response]

\* The record is live: its key was taken for another request, or its response
\* is replayed, or is still being produced.
AnswerFromRecord(r) ==
    /\ At(r, "find")
    /\ \/ /\ record.status = "absent"
          /\ Goto(r, "vanished")
       \/ /\ record.status # "absent" /\ ~Reclaimable
          /\ record.hash # request[r].hash
          /\ Goto(r, "conflict")
       \/ /\ record.status = "completed" /\ ~Reclaimable
          /\ record.hash = request[r].hash
          /\ Replay(r)
       \/ /\ record.status = "in_progress" /\ ~Reclaimable
          /\ record.hash = request[r].hash
          /\ Goto(r, "in_progress")
    /\ UNCHANGED record

\* The handler returns a response to store, or raises and leaves the claim.
Handle(r) ==
    /\ At(r, "running")
    /\ Goto(r, "store") \/ Goto(r, "handler_failed")
    /\ UNCHANGED record

\* Mutants of Fence: the token is not compared; the request hash is instead.
FenceByStatus(r) == record.status = "in_progress"
FenceByHash(r) == record.status # "absent" /\ record.hash = request[r].hash

Fence(r) == record.token = r /\ record.status = "in_progress"

\* Mutant of StoreResponse: the hash lands in the response column.
StoreHashAsResponse(r) ==
    /\ At(r, "store")
    /\ IF Fence(r)
       THEN /\ record' = [record EXCEPT !.status = "completed", !.response = record.hash]
            /\ Goto(r, "stored")
       ELSE UNCHANGED record /\ Goto(r, "fenced")

\* store_idempotency_response: one UPDATE under the fence.
StoreResponse(r) ==
    /\ At(r, "store")
    /\ IF Fence(r)
       THEN /\ record' = [record EXCEPT !.status = "completed", !.response = r]
            /\ Goto(r, "stored")
       ELSE UNCHANGED record /\ Goto(r, "fenced")

\* The API process dies, or the client's request is cancelled.
Crash(r) ==
    /\ At(r, "insert") \/ At(r, "find") \/ Working(r)
    /\ Goto(r, "crashed")
    /\ UNCHANGED record

\* delete_expired_idempotency_keys of the worker's cleanup loop.
DeleteExpired ==
    /\ record.status # "absent"
    /\ record.expired
    /\ record' = Absent
    /\ UNCHANGED request

-----------------------------------------------------------------------------
(* Time passing *)

Lapse ==
    request' = [r \in Request |->
                 IF Working(r) /\ record.token = r
                 THEN [request[r] EXCEPT !.lapsed = TRUE] ELSE request[r]]

Expires ==
    /\ record.status # "absent" /\ ~record.expired
    /\ record' = [record EXCEPT !.expired = TRUE]
    /\ Lapse

BecomesStuck ==
    /\ record.status = "in_progress" /\ ~record.stuck
    /\ record' = [record EXCEPT !.stuck = TRUE]
    /\ Lapse

Step(r) ==
    TryInsert(r) \/ ReclaimRecord(r) \/ AnswerFromRecord(r) \/ Handle(r) \/ StoreResponse(r)

Next ==
    \/ \E r \in Request, h \in Hash : Arrive(r, h)
    \/ \E r \in Request : Step(r) \/ Crash(r)
    \/ DeleteExpired \/ Expires \/ BecomesStuck

Spec == Init /\ [][Next]_vars

-----------------------------------------------------------------------------
(* Properties *)

\* "exactly one retry runs": two requests work under the key at the same time
\* only if the claim of one of them expired or counted as stuck meanwhile.
OneLiveClaim ==
    \A r, s \in Request :
        /\ Working(r) /\ ~request[r].lapsed
        /\ Working(s) /\ ~request[s].lapsed
        => r = s

\* A replayed response is one that a handler produced for the very same
\* request and stored, however many reclaims and late originals came between.
ReplayMatchesRequest ==
    \A r \in Request : At(r, "replayed") =>
        /\ request[r].got \in Request
        /\ At(request[r].got, "stored")
        /\ request[request[r].got].hash = request[r].hash

\* A completed record keeps its first response until it expires: no late
\* original and no retry writes over what clients may have replayed already.
FirstResponseKept ==
    [][record.status = "completed" /\ ~record.expired
       => record'.status = "completed" /\ record'.response = record.response]_vars

=============================================================================
