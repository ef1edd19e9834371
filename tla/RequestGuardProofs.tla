-------------------------- MODULE RequestGuardProofs -------------------------
(***************************************************************************)
(* Theorems about the two guards that a request meets before its handler   *)
(* runs: Idempotency, for any set of requests and hashes, and RateLimiter, *)
(* for any limit, window and set of keys.  They share no state.            *)
(*                                                                         *)
(* OneLiveClaim says nothing about the record, so it is not inductive: a   *)
(* request that works under an unlapsed claim has to be the one the record *)
(* names, in progress, neither expired nor stuck.  Likewise a replay is    *)
(* right only because a completed record names a stored response of its    *)
(* own hash, which the fence guarantees because the token's request has    *)
(* the record's hash as long as the record is in progress.                 *)
(*                                                                         *)
(* BurstBounded counts requests, and the limiter only buckets.  LimiterInv *)
(* ties the two: the current and the previous bucket of a key hold all it  *)
(* was admitted within a window, neither more than the limit, and together *)
(* no more than the limit and what has been earned back since the window   *)
(* began, because that is all that the weight of the previous bucket lost  *)
(* when the last request was let through.                                  *)
(***************************************************************************)
EXTENDS Idempotency, RateLimiter, TLAPS

ClaimIsLive ==
    \A r \in Request : Working(r) /\ ~request[r].lapsed =>
        /\ record.status = "in_progress"
        /\ record.token = r
        /\ ~record.expired
        /\ ~record.stuck

TokenHasHash ==
    record.status = "in_progress" =>
        /\ record.token \in Request
        /\ ~At(record.token, "new")
        /\ request[record.token].hash = record.hash

CompletedIsStored ==
    record.status = "completed" =>
        /\ record.response \in Request
        /\ At(record.response, "stored")
        /\ request[record.response].hash = record.hash

IInv ==
    /\ TypeOK
    /\ ClaimIsLive
    /\ TokenHasHash
    /\ CompletedIsStored
    /\ ReplayMatchesRequest

-----------------------------------------------------------------------------

LEMMA TypeInit == Init => TypeOK
  BY DEF Init, TypeOK, Absent, Record, Progress

\* What the two ways to write the record and the request leave well typed.
LEMMA ClaimedType ==
    ASSUME NEW r \in Request, NEW h \in Hash \cup {None}
    PROVE  Claimed(r, h) \in Record
  BY DEF Claimed, Absent, Record

LEMMA GotoType ==
    ASSUME NEW r \in Request, NEW pc, TypeOK, Goto(r, pc),
           pc \in {"new", "insert", "find", "running", "store"} \cup Settled
    PROVE  request' \in [Request -> Progress]
  BY DEF TypeOK, Goto, Progress

LEMMA LapseType ==
    ASSUME TypeOK, Lapse
    PROVE  request' \in [Request -> Progress]
<1>1. ASSUME NEW r \in Request
      PROVE  [request[r] EXCEPT !.lapsed = TRUE] \in Progress
  BY DEF TypeOK, Progress
<1> QED
  BY <1>1 DEF TypeOK, Lapse

LEMMA TypeNext == TypeOK /\ [Next]_vars => TypeOK'
<1> SUFFICES ASSUME TypeOK, [Next]_vars PROVE TypeOK'
  OBVIOUS
<1>1. ASSUME NEW r \in Request, NEW h \in Hash, Arrive(r, h) PROVE TypeOK'
  <2>1. [request[r] EXCEPT !.pc = "insert", !.hash = h] \in Progress
    BY DEF TypeOK, Progress
  <2> QED
    BY <1>1, <2>1 DEF Arrive, TypeOK
<1>2. ASSUME NEW r \in Request, TryInsert(r) PROVE TypeOK'
  <2>1. request[r].hash \in Hash \cup {None}
    BY DEF TypeOK, Progress
  <2>2. record' \in Record
    BY <1>2, <2>1, ClaimedType DEF TryInsert, TypeOK
  <2>3. request' \in [Request -> Progress]
    BY <1>2, GotoType DEF TryInsert
  <2> QED
    BY <2>2, <2>3 DEF TypeOK
<1>3. ASSUME NEW r \in Request, ReclaimRecord(r) PROVE TypeOK'
  <2>1. request[r].hash \in Hash \cup {None}
    BY DEF TypeOK, Progress
  <2>2. record' \in Record
    BY <1>3, <2>1, ClaimedType DEF ReclaimRecord
  <2>3. request' \in [Request -> Progress]
    BY <1>3, GotoType DEF ReclaimRecord
  <2> QED
    BY <2>2, <2>3 DEF TypeOK
<1>4. ASSUME NEW r \in Request, AnswerFromRecord(r) PROVE TypeOK'
  <2>1. CASE Replay(r)
    <3>1. [request[r] EXCEPT !.pc = "replayed", !.got = record.response] \in Progress
      BY DEF TypeOK, Progress, Record, Settled, Answered
    <3> QED
      BY <1>4, <2>1, <3>1 DEF AnswerFromRecord, Replay, TypeOK
  <2>2. CASE ~Replay(r)
    BY <1>4, <2>2, GotoType DEF AnswerFromRecord, TypeOK, Settled, Answered
  <2> QED
    BY <2>1, <2>2
<1>5. ASSUME NEW r \in Request, Handle(r) PROVE TypeOK'
  BY <1>5, GotoType DEF Handle, TypeOK, Settled
<1>6. ASSUME NEW r \in Request, StoreResponse(r) PROVE TypeOK'
  <2>1. record' \in Record
    <3>1. [record EXCEPT !.status = "completed", !.response = r] \in Record
      BY DEF TypeOK, Record
    <3> QED
      BY <1>6, <3>1 DEF StoreResponse, TypeOK
  <2>2. request' \in [Request -> Progress]
    BY <1>6, GotoType DEF StoreResponse, Settled
  <2> QED
    BY <2>1, <2>2 DEF TypeOK
<1>7. ASSUME NEW r \in Request, Crash(r) PROVE TypeOK'
  BY <1>7, GotoType DEF Crash, TypeOK, Settled
<1>8. CASE DeleteExpired
  BY <1>8 DEF DeleteExpired, Absent, TypeOK, Record
<1>9. CASE Expires
  <2>1. record' \in Record
    BY <1>9 DEF Expires, TypeOK, Record
  <2> QED
    BY <1>9, <2>1, LapseType DEF Expires, TypeOK
<1>10. CASE BecomesStuck
  <2>1. record' \in Record
    BY <1>10 DEF BecomesStuck, TypeOK, Record
  <2> QED
    BY <1>10, <2>1, LapseType DEF BecomesStuck, TypeOK
<1>11. CASE UNCHANGED vars
  BY <1>11 DEF vars, TypeOK
<1> QED
  BY <1>1, <1>2, <1>3, <1>4, <1>5, <1>6, <1>7, <1>8, <1>9, <1>10, <1>11 DEF Next, Step

-----------------------------------------------------------------------------

\* Goto moves one request and nothing else about any of them.
LEMMA GotoFrame ==
    ASSUME TypeOK, NEW r \in Request, NEW pc, Goto(r, pc)
    PROVE  \A s \in Request :
             /\ request'[s].hash = request[s].hash
             /\ request'[s].got = request[s].got
             /\ request'[s].lapsed = request[s].lapsed
             /\ request'[s].pc = IF s = r THEN pc ELSE request[s].pc
  BY DEF TypeOK, Goto, Progress

\* Lapse moves no request, and lapses the claim the record names.
LEMMA LapseFrame ==
    ASSUME TypeOK, Lapse
    PROVE  \A s \in Request :
             /\ request'[s].hash = request[s].hash
             /\ request'[s].got = request[s].got
             /\ request'[s].pc = request[s].pc
             /\ request[s].lapsed => request'[s].lapsed
             /\ Working(s) /\ record.token = s => request'[s].lapsed
<1>1. ASSUME NEW s \in Request
      PROVE  LET q == [request[s] EXCEPT !.lapsed = TRUE] IN
             /\ q.hash = request[s].hash
             /\ q.got = request[s].got
             /\ q.pc = request[s].pc
             /\ q.lapsed = TRUE
  BY DEF TypeOK, Progress
<1> QED
  BY <1>1 DEF Lapse

LEMMA InvInit == Init => IInv
<1> SUFFICES ASSUME Init PROVE IInv
  OBVIOUS
<1>1. TypeOK
  BY TypeInit
<1> QED
  BY <1>1 DEF Init, Absent, IInv, ClaimIsLive, TokenHasHash, CompletedIsStored,
              ReplayMatchesRequest, Working, At

LEMMA InvNext == IInv /\ [Next]_vars => IInv'
<1> SUFFICES ASSUME IInv, [Next]_vars PROVE IInv'
  OBVIOUS
<1> USE DEF Working, At
<1>0. TypeOK /\ TypeOK'
  BY TypeNext DEF IInv
<1>1. ASSUME NEW r \in Request, NEW h \in Hash, Arrive(r, h) PROVE IInv'
  <2>1. \A s \in Request :
          /\ s # r => request'[s] = request[s]
          /\ request[r].pc = "new" /\ request'[r].pc = "insert"
    BY <1>0, <1>1 DEF Arrive, TypeOK, Progress
  <2>2. record' = record
    BY <1>1 DEF Arrive
  <2> QED
    BY <1>0, <2>1, <2>2
       DEF IInv, ClaimIsLive, TokenHasHash, CompletedIsStored, ReplayMatchesRequest
<1>2. ASSUME NEW r \in Request, request[r].pc \in {"insert", "find"},
             record.status = "absent" \/ record.expired \/ record.stuck,
             record' = Claimed(r, request[r].hash), Goto(r, "running")
      PROVE  IInv'
  <2>1. /\ record'.status = "in_progress"
        /\ record'.token = r
        /\ record'.hash = request[r].hash
        /\ ~record'.expired /\ ~record'.stuck
    BY <1>2 DEF Claimed, Absent
  <2>2. ClaimIsLive'
    BY <1>0, <1>2, <2>1, GotoFrame DEF IInv, ClaimIsLive
  <2>3. TokenHasHash' /\ CompletedIsStored'
    BY <1>0, <1>2, <2>1, GotoFrame DEF TokenHasHash, CompletedIsStored
  <2>4. ReplayMatchesRequest'
    BY <1>0, <1>2, GotoFrame DEF IInv, ReplayMatchesRequest
  <2> QED
    BY <1>0, <2>2, <2>3, <2>4 DEF IInv
<1>3. ASSUME NEW r \in Request, NEW pc, Goto(r, pc), record' = record,
             request[r].pc \in {"insert", "find", "running", "store"},
             pc \notin {"new", "running", "store", "replayed", "stored"}
                \/ (request[r].pc = "running" /\ pc = "store")
      PROVE  IInv'
  <2>1. ClaimIsLive' /\ TokenHasHash' /\ CompletedIsStored'
    BY <1>0, <1>3, GotoFrame DEF IInv, ClaimIsLive, TokenHasHash, CompletedIsStored
  <2>2. ReplayMatchesRequest'
    BY <1>0, <1>3, GotoFrame DEF IInv, ReplayMatchesRequest
  <2> QED
    BY <1>0, <2>1, <2>2 DEF IInv
<1>4. ASSUME NEW r \in Request, TryInsert(r) PROVE IInv'
  BY <1>2, <1>3, <1>4 DEF TryInsert
<1>5. ASSUME NEW r \in Request, ReclaimRecord(r) PROVE IInv'
  BY <1>2, <1>5 DEF ReclaimRecord, Reclaimable
<1>6. ASSUME NEW r \in Request, AnswerFromRecord(r) PROVE IInv'
  <2>1. CASE Replay(r) /\ record.status = "completed" /\ record.hash = request[r].hash
    <3>1. /\ request'[r].pc = "replayed"
          /\ request'[r].got = record.response
          /\ request'[r].hash = request[r].hash
          /\ request'[r].lapsed = request[r].lapsed
          /\ \A s \in Request : s # r => request'[s] = request[s]
      BY <1>0, <2>1 DEF Replay, TypeOK, Progress
    <3>2. record' = record /\ request[r].pc = "find"
      BY <1>6 DEF AnswerFromRecord
    <3>3. ClaimIsLive' /\ TokenHasHash' /\ CompletedIsStored'
      BY <3>1, <3>2, <2>1 DEF IInv, ClaimIsLive, TokenHasHash, CompletedIsStored
    <3>4. ReplayMatchesRequest'
      BY <3>1, <3>2, <2>1 DEF IInv, ReplayMatchesRequest, CompletedIsStored
    <3> QED
      BY <1>0, <3>3, <3>4 DEF IInv
  <2>2. CASE \E pc \in {"vanished", "conflict", "in_progress"} : Goto(r, pc)
    BY <1>3, <1>6, <2>2 DEF AnswerFromRecord
  <2> QED
    BY <1>6, <2>1, <2>2 DEF AnswerFromRecord
<1>7. ASSUME NEW r \in Request, Handle(r) PROVE IInv'
  BY <1>3, <1>7 DEF Handle
<1>8. ASSUME NEW r \in Request, StoreResponse(r) PROVE IInv'
  <2>1. CASE Fence(r)
    <3>1. /\ record'.status = "completed" /\ record'.response = r
          /\ record'.hash = record.hash
      BY <1>0, <1>8, <2>1 DEF StoreResponse, TypeOK, Record
    <3>2. Goto(r, "stored") /\ request[r].pc = "store"
      BY <1>8, <2>1 DEF StoreResponse
    <3>3. record.status = "in_progress" /\ record.token = r
      BY <2>1 DEF Fence
    <3>4. ClaimIsLive'
      BY <1>0, <3>2, <3>3, GotoFrame DEF IInv, ClaimIsLive
    <3>5. TokenHasHash' /\ CompletedIsStored'
      BY <1>0, <3>1, <3>2, <3>3, GotoFrame DEF IInv, TokenHasHash, CompletedIsStored
    <3>6. ReplayMatchesRequest'
      BY <1>0, <3>2, GotoFrame DEF IInv, ReplayMatchesRequest
    <3> QED
      BY <1>0, <3>4, <3>5, <3>6 DEF IInv
  <2>2. CASE ~Fence(r)
    BY <1>3, <1>8, <2>2 DEF StoreResponse
  <2> QED
    BY <2>1, <2>2
<1>9. ASSUME NEW r \in Request, Crash(r) PROVE IInv'
  BY <1>3, <1>9 DEF Crash
<1>10. CASE DeleteExpired
  <2>1. record.expired /\ record'.status = "absent" /\ request' = request
    BY <1>10 DEF DeleteExpired, Absent
  <2> QED
    BY <1>0, <2>1
       DEF IInv, ClaimIsLive, TokenHasHash, CompletedIsStored, ReplayMatchesRequest
<1>11. ASSUME Lapse,
              /\ record'.status = record.status
              /\ record'.token = record.token
              /\ record'.hash = record.hash
              /\ record'.response = record.response
       PROVE  IInv'
  <2>1. ClaimIsLive'
    BY <1>0, <1>11, LapseFrame DEF IInv, ClaimIsLive
  <2>2. TokenHasHash' /\ CompletedIsStored' /\ ReplayMatchesRequest'
    BY <1>0, <1>11, LapseFrame
       DEF IInv, TokenHasHash, CompletedIsStored, ReplayMatchesRequest
  <2> QED
    BY <1>0, <2>1, <2>2 DEF IInv
<1>12. CASE Expires \/ BecomesStuck
  <2>1. /\ record'.status = record.status
        /\ record'.token = record.token
        /\ record'.hash = record.hash
        /\ record'.response = record.response
    BY <1>0, <1>12 DEF Expires, BecomesStuck, TypeOK, Record
  <2> QED
    BY <1>11, <1>12, <2>1 DEF Expires, BecomesStuck
<1>13. CASE UNCHANGED vars
  BY <1>0, <1>13
     DEF vars, IInv, ClaimIsLive, TokenHasHash, CompletedIsStored, ReplayMatchesRequest
<1> QED
  BY <1>1, <1>4, <1>5, <1>6, <1>7, <1>8, <1>9, <1>10, <1>12, <1>13 DEF Next, Step

\* The record and the requests always have their types.
THEOREM TypeCorrect == Spec => []TypeOK
<1>1. Init => TypeOK
  BY TypeInit
<1>2. TypeOK /\ [Next]_vars => TypeOK'
  BY TypeNext
<1> QED
  BY <1>1, <1>2, PTL DEF Spec

\* The strengthening is invariant.
THEOREM InductiveInvariant == Spec => []IInv
<1>1. Init => IInv
  BY InvInit
<1>2. IInv /\ [Next]_vars => IInv'
  BY InvNext
<1> QED
  BY <1>1, <1>2, PTL DEF Spec

\* However many requests share a key, two of them run their handlers at the
\* same time only if a claim expired or counted as stuck in between: the
\* unique insert and the row lock in check_or_store_idempotency_key suffice.
THEOREM MutualExclusion == Spec => []OneLiveClaim
<1>1. IInv => OneLiveClaim
  BY DEF IInv, ClaimIsLive, OneLiveClaim
<1> QED
  BY <1>1, InductiveInvariant, PTL

\* A replayed response was stored by a request with the replayer's own hash:
\* no reclaim, late original or purge makes a client see another's response.
THEOREM ReplayIsOwn == Spec => []ReplayMatchesRequest
<1>1. IInv => ReplayMatchesRequest
  BY DEF IInv
<1> QED
  BY <1>1, InductiveInvariant, PTL

\* The fence in store_idempotency_response and the row lock keep the first
\* response of a live record.
THEOREM ResponseIsKept == Spec => FirstResponseKept
<1>1. TypeOK /\ [Next]_vars
      => [record.status = "completed" /\ ~record.expired
          => record'.status = "completed" /\ record'.response = record.response]_vars
  <2> SUFFICES ASSUME TypeOK, Next, record.status = "completed", ~record.expired
               PROVE  record'.status = "completed" /\ record'.response = record.response
    OBVIOUS
  <2>1. ~Reclaimable /\ \A r \in Request : ~Fence(r)
    BY DEF Reclaimable, Fence
  <2>2. CASE Expires \/ BecomesStuck
    BY <2>2 DEF Expires, BecomesStuck, TypeOK, Record
  <2>3. CASE ~Expires /\ ~BecomesStuck
    BY <2>1, <2>3
       DEF Next, Step, Arrive, TryInsert, ReclaimRecord, AnswerFromRecord, Handle,
           StoreResponse, Crash, DeleteExpired
  <2> QED
    BY <2>2, <2>3
<1> QED
  BY <1>1, TypeCorrect, PTL DEF Spec, FirstResponseKept

-----------------------------------------------------------------------------
(* RateLimiter *)

\* What the buckets of a key hold: the current and the previous one of them
\* every request of the last Window ticks, none of them more than the limit.
AdmittedIsCounted ==
    \A k \in Key, d \in Ago :
        admitted[k][d] <= Current(counts, k)
                          + (IF d <= elapsed THEN 0 ELSE Previous(counts, k))

CountsLimited == \A b \in Bucket : counts[b] <= Limit

\* The share of the limit that the current window has earned back.
EarnedBack == (Limit * elapsed) \div Window + (IF elapsed = 0 THEN 0 ELSE 1)

WindowsBounded ==
    \A k \in Key : Current(counts, k) > 0 =>
        Current(counts, k) + Previous(counts, k) <= Limit + EarnedBack

\* No bucket is written ahead of time, and Redis keeps one for as long as a
\* check may read it.
BucketsKept ==
    \A b \in Bucket : counts[b] > 0 =>
        /\ b[2] <= window_index
        /\ backend = "redis" => ends[b] >= (b[2] + 2) * Window

LimiterInv ==
    /\ LimiterTypeOK
    /\ AdmittedIsCounted
    /\ CountsLimited
    /\ WindowsBounded
    /\ BucketsKept

-----------------------------------------------------------------------------
\* Integer division.

LEMMA DivType ==
    ASSUME NEW a \in Nat, NEW n \in Nat \ {0}
    PROVE  a \div n \in Nat /\ a % n \in 0..(n - 1)
  OBVIOUS

LEMMA DivMod ==
    ASSUME NEW a \in Nat, NEW n \in Nat \ {0}
    PROVE  a % n = a - n * (a \div n)
  OBVIOUS

LEMMA DivUnique ==
    ASSUME NEW q \in Int, NEW n \in Nat \ {0}, NEW r \in 0..(n - 1)
    PROVE  (q * n + r) \div n = q /\ (q * n + r) % n = r
  OBVIOUS

LEMMA DivMonotone ==
    ASSUME NEW a \in Nat, NEW b \in Nat, NEW n \in Nat \ {0}, a <= b
    PROVE  a \div n <= b \div n
  OBVIOUS

LEMMA ProductMonotone ==
    ASSUME NEW a \in Nat, NEW b \in Nat, NEW n \in Nat, a <= b
    PROVE  a * n <= b * n /\ n * a <= n * b /\ n * a \in Nat /\ a * n \in Nat
  OBVIOUS

\* A tick stays in the window or begins the next one.
LEMMA SameWindow ==
    ASSUME NEW t \in Nat, NEW n \in Nat \ {0}, (t % n) + 1 < n
    PROVE  (t + 1) \div n = t \div n /\ (t + 1) % n = (t % n) + 1
  OBVIOUS

LEMMA NextWindow ==
    ASSUME NEW t \in Nat, NEW n \in Nat \ {0}, (t % n) + 1 = n
    PROVE  (t + 1) \div n = t \div n + 1 /\ (t + 1) % n = 0
<1> DEFINE q == t \div n
<1>1. q \in Nat  BY DivType
<1>2. t % n = t - n * q  BY DivMod
<1>3. n * q + n = (q + 1) * n  BY <1>1
<1>4. n * q \in Nat BY <1>1, ProductMonotone
<1>5. t + 1 = (q + 1) * n + 0  
  <2> HIDE DEF q
  <2>1. DEFINE m == n * q
  <2>2. t + 1 = m + n  BY <1>2, <1>4
  <2> QED  BY <1>3, <2>2, <1>1
<1>6. q + 1 \in Int /\ 0 \in 0..(n - 1) BY <1>1
<1> HIDE DEF q
<1>7. ((q + 1) * n + 0) \div n = q + 1 /\ ((q + 1) * n + 0) % n = 0  BY <1>6, DivUnique
<1> QED  BY <1>5, <1>7 DEF q

\* What the weight keeps of p requests e ticks into a window of n, in whole
\* requests: all but the floor of p * e / n, and one.
LEMMA KeptShare ==
    ASSUME NEW p \in Nat, NEW n \in Nat \ {0}, NEW e \in 0..(n - 1)
    PROVE  LET exact == p * (n - e)
               lost == (p * e) \div n
           IN \/ exact \div n = p - lost
              \/ exact \div n = p - lost - 1 /\ exact % n # 0
<1> DEFINE x == p * e
           q == x \div n
           r == x % n
<1>1. x \in Nat  OBVIOUS
<1>2. q \in Nat /\ r \in 0..(n - 1)  BY <1>1, DivType
<1>3. r = x - n * q  BY <1>1, DivMod
<1>4. p * (n - e) = p * n - x  OBVIOUS
<1> HIDE DEF x, q, r
<1>5. p * n \in Int /\ n * q \in Int  BY <1>2
<1>6. x = n * q + r  BY <1>1, <1>2, <1>3, <1>5
<1>7. CASE r = 0
  <2>1. (p - q) * n = p * n - n * q  BY <1>2
  <2>2. (p - q) * n \in Int  BY <1>2
  <2>3. p * (n - e) = (p - q) * n + 0
    BY <1>1, <1>2, <1>4, <1>5, <1>6, <1>7, <2>1, <2>2
  <2>4. p - q \in Int /\ 0 \in 0..(n - 1)  BY <1>2
  <2>5. ((p - q) * n + 0) \div n = p - q  BY <2>4, DivUnique
  <2> QED  BY <2>3, <2>5 DEF x, q
<1>8. CASE r # 0
  <2>1. (p - q - 1) * n = p * n - n * q - n  BY <1>2
  <2>2. (p - q - 1) * n \in Int  BY <1>2
  <2>3. p * (n - e) = (p - q - 1) * n + (n - r)
    BY <1>1, <1>2, <1>4, <1>5, <1>6, <2>1, <2>2
  <2>4. p - q - 1 \in Int /\ n - r \in 0..(n - 1) /\ n - r # 0  BY <1>2, <1>8
  <2>5. ((p - q - 1) * n + (n - r)) \div n = p - q - 1
        /\ ((p - q - 1) * n + (n - r)) % n = n - r
    BY <2>4, DivUnique
  <2> QED  BY <2>3, <2>4, <2>5 DEF x, q
<1> QED  BY <1>7, <1>8

\* The weight of the previous window, however its product was rounded, loses
\* no more of a count within the limit than the share of the limit that the
\* current window has earned back.
LEMMA WeightedBounds ==
    ASSUME NEW p \in 0..Limit, now \in Nat, NEW w \in Weighted(p)
    PROVE  w \in Nat /\ w <= p /\ p <= w + EarnedBack
<1> DEFINE e == elapsed
           exact == p * (Window - e)
           whole == exact \div Window
           lost == (p * e) \div Window
           earned == (Limit * e) \div Window
<1>1. Window \in Nat \ {0} /\ Limit \in Nat  BY RateLimiterAssumption
<1>2. e \in 0..(Window - 1)  BY <1>1, DivType DEF elapsed
<1>3. p \in Nat /\ p <= Limit  BY <1>1
<1> HIDE DEF e
<1>4. exact \in Nat  BY <1>1, <1>2, <1>3
<1>5. whole \in Nat  BY <1>1, <1>4, DivType
<1>6. p * e \in Nat /\ Limit * e \in Nat /\ p * e <= Limit * e
  BY <1>1, <1>2, <1>3, ProductMonotone
<1>7. lost \in Nat /\ earned \in Nat  BY <1>1, <1>6, DivType
<1>8. lost <= earned  BY <1>1, <1>6, DivMonotone
<1>9. \/ whole = p - lost
      \/ whole = p - lost - 1 /\ exact % Window # 0
  BY <1>1, <1>2, <1>3, KeptShare
<1>10. \/ w = whole
       \/ w = whole - 1 /\ e > 0 /\ exact % Window = 0 /\ w >= 0
  BY DEF Weighted, e
<1>11. EarnedBack = earned + (IF e = 0 THEN 0 ELSE 1)  BY DEF EarnedBack, e
<1>12. CASE e = 0
  <2>1. exact = p * Window + 0 /\ 0 \in 0..(Window - 1) /\ p \in Int
    BY <1>1, <1>3, <1>12
  <2>2. (p * Window + 0) \div Window = p  BY <1>1, <2>1, DivUnique
  <2>3. w = p  BY <1>10, <1>12, <2>1, <2>2
  <2> HIDE DEF earned
  <2> QED  BY <1>3, <1>7, <1>11, <1>12, <2>3
<1>13. CASE e # 0
  <2> HIDE DEF exact, whole, lost, earned
  <2> QED  BY <1>3, <1>5, <1>7, <1>8, <1>9, <1>10, <1>11, <1>13
<1> QED  BY <1>12, <1>13

-----------------------------------------------------------------------------

LEMMA ConstantTypes ==
    /\ Window \in Nat \ {0} /\ Limit \in Nat \ {0} /\ MaxTime \in Nat
    /\ Index \subseteq Nat
  BY RateLimiterAssumption DEF Index

\* The windows of the clock, and the two buckets of a key that a check reads.
LEMMA WindowTypes ==
    ASSUME now \in 0..MaxTime
    PROVE  /\ now \in Nat
           /\ window_index \in Index /\ window_index \in Nat
           /\ window_index > 0 => window_index - 1 \in Index
           /\ elapsed \in Ago /\ elapsed \in Nat /\ elapsed < Window
<1>1. now \in Nat /\ now <= MaxTime  BY ConstantTypes
<1>2. window_index \in Nat  BY <1>1, ConstantTypes, DivType DEF window_index
<1>3. window_index <= MaxTime \div Window
  BY <1>1, ConstantTypes, DivMonotone DEF window_index
<1>4. elapsed \in 0..(Window - 1)  BY <1>1, ConstantTypes, DivType DEF elapsed
<1>5. MaxTime \div Window \in Nat  BY ConstantTypes, DivType
<1> QED  BY <1>1, <1>2, <1>3, <1>4, <1>5, ConstantTypes DEF Index, Ago

\* A table's two buckets of a key are counts of it, within the limit if all are.
LEMMA BucketTypes ==
    ASSUME now \in 0..MaxTime, NEW k \in Key, NEW table \in [Bucket -> Nat]
    PROVE  /\ <<k, window_index>> \in Bucket
           /\ window_index > 0 => <<k, window_index - 1>> \in Bucket
           /\ Current(table, k) \in Nat
           /\ Previous(table, k) \in Nat
           /\ (\A b \in Bucket : table[b] <= Limit)
                => Current(table, k) <= Limit /\ Previous(table, k) <= Limit
<1>1. <<k, window_index>> \in Bucket  BY WindowTypes DEF Bucket
<1>2. window_index # 0 => <<k, window_index - 1>> \in Bucket
  BY WindowTypes DEF Bucket
<1>3. window_index \in Nat  BY WindowTypes
<1> QED  BY <1>1, <1>2, <1>3, ConstantTypes DEF Current, Previous

LEMMA EarnedType ==
    ASSUME now \in 0..MaxTime
    PROVE  EarnedBack \in Nat /\ (Limit * elapsed) \div Window \in Nat
<1>1. elapsed \in Nat  BY WindowTypes
<1>2. Limit * elapsed \in Nat  BY <1>1, ConstantTypes
<1>3. (Limit * elapsed) \div Window \in Nat  BY <1>2, ConstantTypes, DivType
<1> QED  BY <1>3 DEF EarnedBack

LEMMA LimiterInitInv == LimiterInit => LimiterInv
<1> SUFFICES ASSUME LimiterInit PROVE LimiterInv  OBVIOUS
<1>1. now \in 0..MaxTime  BY ConstantTypes DEF LimiterInit
<1>2. LimiterTypeOK  BY <1>1 DEF LimiterInit, LimiterTypeOK
<1>3. \A k \in Key : Current(counts, k) = 0 /\ Previous(counts, k) = 0
  BY <1>1, BucketTypes, WindowTypes DEF LimiterInit, Current, Previous
<1>4. AdmittedIsCounted  BY <1>3 DEF AdmittedIsCounted, LimiterInit
<1>5. CountsLimited  BY ConstantTypes DEF CountsLimited, LimiterInit
<1>6. WindowsBounded  BY <1>3 DEF WindowsBounded
<1>7. BucketsKept  BY DEF BucketsKept, LimiterInit
<1> QED  BY <1>2, <1>4, <1>5, <1>6, <1>7 DEF LimiterInv

\* _evict_if_needed drops buckets, in memory only, and none of the two that a
\* check reads.
LEMMA EvictedKeeps ==
    ASSUME LimiterTypeOK
    PROVE  /\ Evicted \in [Bucket -> Nat]
           /\ backend = "redis" => Evicted = counts
           /\ \A b \in Bucket : Evicted[b] = counts[b] \/ Evicted[b] = 0
           /\ \A k \in Key : /\ Current(Evicted, k) = Current(counts, k)
                             /\ Previous(Evicted, k) = Previous(counts, k)
<1>1. now \in 0..MaxTime /\ counts \in [Bucket -> Nat]  BY DEF LimiterTypeOK
<1>2. Evicted \in [Bucket -> Nat]  BY <1>1 DEF Evicted
<1>3. \A b \in Bucket : Evicted[b] = counts[b] \/ Evicted[b] = 0
  BY <1>1 DEF Evicted
<1>4. backend = "redis" => Evicted = counts  BY DEF Evicted
<1>5. \A b \in Bucket : b[2] >= window_index - 1 => Evicted[b] = counts[b]
  <2>1. window_index \in Nat  BY <1>1, WindowTypes
  <2>2. \A b \in Bucket : b[2] \in Nat  BY ConstantTypes DEF Bucket
  <2> QED  BY <1>1, <2>1, <2>2 DEF Evicted, Stale
<1>6. ASSUME NEW k \in Key
      PROVE  /\ Current(Evicted, k) = Current(counts, k)
             /\ Previous(Evicted, k) = Previous(counts, k)
  <2>1. window_index \in Nat  BY <1>1, WindowTypes
  <2>2. <<k, window_index>> \in Bucket
        /\ (window_index # 0 => <<k, window_index - 1>> \in Bucket)
    BY <1>1, <2>1, BucketTypes
  <2> QED  BY <1>5, <2>1, <2>2 DEF Current, Previous
<1> QED  BY <1>2, <1>3, <1>4, <1>6

\* A check leaves the clock alone, so it reads the windows of its own tick.
LEMMA CheckReads ==
    ASSUME NEW k \in Key, LimiterTypeOK, Check(k)
    PROVE  /\ backend' = backend /\ now' = now
           /\ window_index' = window_index /\ elapsed' = elapsed
           /\ EarnedBack' = EarnedBack
           /\ \A j \in Key : /\ Current(counts, j)' = Current(counts', j)
                             /\ Previous(counts, j)' = Previous(counts', j)
<1>1. backend' = backend /\ now' = now  BY DEF Check
<1>2. window_index' = window_index /\ elapsed' = elapsed
  BY <1>1 DEF window_index, elapsed
<1> QED  BY <1>1, <1>2 DEF EarnedBack, Current, Previous

\* What a request that is let through writes.
LEMMA AdmitWrites ==
    ASSUME NEW k \in Key, LimiterTypeOK, Admit(Evicted, k)
    PROVE  /\ counts' \in [Bucket -> Nat]
           /\ counts'[<<k, window_index>>] = Current(counts, k) + 1
           /\ \A b \in Bucket : b # <<k, window_index>> => counts'[b] = Evicted[b]
           /\ \A j \in Key : Previous(counts', j) = Previous(counts, j)
           /\ \A j \in Key : Current(counts', j) =
                IF j = k THEN Current(counts, j) + 1 ELSE Current(counts, j)
           /\ \A j \in Key, d \in Ago : admitted'[j][d] =
                IF j = k THEN admitted[j][d] + 1 ELSE admitted[j][d]
           /\ admitted' \in [Key -> [Ago -> Nat]]
<1> DEFINE b == <<k, window_index>>
<1>0. now \in 0..MaxTime  BY DEF LimiterTypeOK
<1>1. b \in Bucket /\ window_index \in Nat  BY <1>0, BucketTypes, WindowTypes DEF LimiterTypeOK
<1>2. PICK table : table = Evicted  OBVIOUS
<1>3. table \in [Bucket -> Nat]  BY <1>2, EvictedKeeps
<1>4. \A j \in Key : Current(table, j) = Current(counts, j)
                     /\ Previous(table, j) = Previous(counts, j)
  BY <1>2, EvictedKeeps
<1>5. counts' = [table EXCEPT ![b] = @ + 1]  BY <1>2 DEF Admit
<1>6. table[b] = Current(counts, k)  BY <1>4 DEF Current
<1>7. /\ counts' \in [Bucket -> Nat]
      /\ counts'[b] = table[b] + 1
      /\ \A c \in Bucket : c # b => counts'[c] = table[c]
  BY <1>1, <1>3, <1>5
<1>8. ASSUME NEW j \in Key
      PROVE  Previous(counts', j) = Previous(counts, j)
  <2>0. window_index > 0 => <<j, window_index - 1>> \in Bucket
    BY <1>0, <1>3, BucketTypes
  <2>1. window_index # 0 => <<j, window_index - 1>> \in Bucket
    BY <1>1, <2>0
  <2>2. <<j, window_index - 1>> # b  BY <1>1
  <2>3. Previous(counts', j) = Previous(table, j)
    BY <1>7, <2>1, <2>2 DEF Previous
  <2> QED  BY <1>4, <2>3
<1>9. ASSUME NEW j \in Key
      PROVE  Current(counts', j) =
               IF j = k THEN Current(counts, j) + 1 ELSE Current(counts, j)
  <2>1. <<j, window_index>> \in Bucket  BY <1>0, <1>3, BucketTypes
  <2>2. CASE j = k  BY <1>6, <1>7, <2>2 DEF Current
  <2>3. CASE j # k
    <3>1. <<j, window_index>> # b  BY <2>3
    <3>2. Current(counts', j) = Current(table, j)  BY <1>7, <2>1, <3>1 DEF Current
    <3> QED  BY <1>4, <2>3, <3>2
  <2> QED  BY <2>2, <2>3
<1>10. admitted \in [Key -> [Ago -> Nat]]  BY DEF LimiterTypeOK
<1>11. admitted' = [admitted EXCEPT ![k] = [d \in Ago |-> admitted[k][d] + 1]]
  BY <1>10 DEF Admit
<1>12. /\ \A j \in Key, d \in Ago : admitted'[j][d] =
            IF j = k THEN admitted[j][d] + 1 ELSE admitted[j][d]
       /\ admitted' \in [Key -> [Ago -> Nat]]
  BY <1>10, <1>11
<1> QED  BY <1>2, <1>6, <1>7, <1>8, <1>9, <1>12

LEMMA RefusedInv ==
    ASSUME NEW k \in Key, LimiterInv, Check(k),
           counts' = Evicted, UNCHANGED <<ends, admitted>>
    PROVE  LimiterInv'
<1>1. LimiterTypeOK  BY DEF LimiterInv
<1>2. /\ counts' \in [Bucket -> Nat]
      /\ backend = "redis" => counts' = counts
      /\ \A b \in Bucket : counts'[b] = counts[b] \/ counts'[b] = 0
      /\ \A j \in Key : /\ Current(counts', j) = Current(counts, j)
                        /\ Previous(counts', j) = Previous(counts, j)
  BY <1>1, EvictedKeeps
<1>3. /\ backend' = backend /\ now' = now
      /\ window_index' = window_index /\ elapsed' = elapsed
      /\ EarnedBack' = EarnedBack
      /\ \A j \in Key : /\ Current(counts, j)' = Current(counts', j)
                        /\ Previous(counts, j)' = Previous(counts', j)
  BY <1>1, CheckReads
<1>4. LimiterTypeOK'
  <2>1. \A b \in Bucket : ends'[b] # 0 <=> (backend' = "redis" /\ counts'[b] > 0)
    BY <1>1, <1>2, <1>3 DEF LimiterTypeOK
  <2> QED  BY <1>1, <1>2, <1>3, <2>1 DEF LimiterTypeOK
<1>5. AdmittedIsCounted'
  BY <1>2, <1>3 DEF LimiterInv, AdmittedIsCounted
<1>6. CountsLimited'
  BY <1>2, ConstantTypes DEF LimiterInv, CountsLimited
<1>7. WindowsBounded'
  BY <1>2, <1>3 DEF LimiterInv, WindowsBounded
<1>8. BucketsKept'
  BY <1>2, <1>3 DEF LimiterInv, BucketsKept
<1> QED  BY <1>4, <1>5, <1>6, <1>7, <1>8 DEF LimiterInv

LEMMA AdmitInv ==
    ASSUME NEW k \in Key, LimiterInv, Check(k), Admit(Evicted, k),
           NEW w \in Weighted(Previous(counts, k)),
           Current(counts, k) + w < Limit
    PROVE  LimiterInv'
<1> DEFINE b == <<k, window_index>>
<1>1. LimiterTypeOK  BY DEF LimiterInv
<1>0. now \in 0..MaxTime /\ counts \in [Bucket -> Nat]  BY <1>1 DEF LimiterTypeOK
<1>2. /\ counts' \in [Bucket -> Nat]
      /\ counts'[b] = Current(counts, k) + 1
      /\ \A c \in Bucket : c # b => counts'[c] = Evicted[c]
      /\ \A j \in Key : Previous(counts', j) = Previous(counts, j)
      /\ \A j \in Key : Current(counts', j) =
           IF j = k THEN Current(counts, j) + 1 ELSE Current(counts, j)
      /\ \A j \in Key, d \in Ago : admitted'[j][d] =
           IF j = k THEN admitted[j][d] + 1 ELSE admitted[j][d]
      /\ admitted' \in [Key -> [Ago -> Nat]]
  BY <1>1, AdmitWrites
<1>3. /\ backend' = backend /\ now' = now
      /\ window_index' = window_index /\ elapsed' = elapsed
      /\ EarnedBack' = EarnedBack
      /\ \A j \in Key : /\ Current(counts, j)' = Current(counts', j)
                        /\ Previous(counts, j)' = Previous(counts', j)
  BY <1>1, CheckReads
<1>4. /\ \A c \in Bucket : Evicted[c] = counts[c] \/ Evicted[c] = 0
      /\ backend = "redis" => Evicted = counts
      /\ Evicted[b] = Current(counts, k)
  BY <1>1, EvictedKeeps DEF Current
<1>5. \A j \in Key : /\ Current(counts, j) \in Nat /\ Previous(counts, j) \in Nat
                     /\ Current(counts, j) <= Limit /\ Previous(counts, j) <= Limit
  BY <1>0, BucketTypes DEF LimiterInv, CountsLimited
<1>6. w \in Nat /\ Previous(counts, k) <= w + EarnedBack
  BY <1>0, <1>5, WindowTypes, WeightedBounds, ConstantTypes
<1>7. b \in Bucket /\ window_index \in Nat  BY <1>0, BucketTypes, WindowTypes
<1>8. /\ ends' \in [Bucket -> Nat]
      /\ \A c \in Bucket : ends'[c] = IF backend = "redis" /\ c = b /\ Evicted[b] = 0
                                      THEN now + 2 * Window ELSE ends[c]
  <2>1. ends \in [Bucket -> Nat]  BY <1>1 DEF LimiterTypeOK
  <2>2. now + 2 * Window \in Nat  BY <1>0, ConstantTypes
  <2>3. ends' = IF backend = "redis" /\ Evicted[b] = 0
                THEN [ends EXCEPT ![b] = now + 2 * Window] ELSE ends
    BY DEF Admit
  <2> QED  BY <1>7, <2>1, <2>2, <2>3
<1>9. now + 2 * Window >= (window_index + 2) * Window
  <2> DEFINE q == window_index
  <2>1. q \in Nat /\ elapsed \in Nat  BY <1>0, WindowTypes
  <2>2. elapsed = now - Window * q
    BY <1>0, WindowTypes, ConstantTypes, DivMod DEF elapsed, window_index
  <2> HIDE DEF q
  <2>3. Window * q \in Nat /\ (q + 2) * Window = Window * q + 2 * Window
    BY <2>1, ConstantTypes
  <2> DEFINE m == Window * q
  <2>4. now >= m /\ m \in Nat /\ now \in Nat
    <3>1. now \in Nat  BY <1>0, WindowTypes
    <3> HIDE DEF m
    <3>2. elapsed = now - m /\ m \in Nat BY <2>2, <2>3 DEF m
    <3> QED  BY <2>1, <3>1, <3>2
  <2> HIDE DEF m
  <2>5. (q + 2) * Window = m + 2 * Window  BY <2>3 DEF m
  <2>6. now + 2 * Window >= (q + 2) * Window  BY <2>4, <2>5, ConstantTypes
  <2> QED  BY <2>6 DEF q
<1>10. LimiterTypeOK'
  <2>1. ASSUME NEW c \in Bucket
        PROVE  ends'[c] # 0 <=> (backend = "redis" /\ counts'[c] > 0)
    <3>1. ends[c] # 0 <=> (backend = "redis" /\ counts[c] > 0)
      BY <1>1 DEF LimiterTypeOK
    <3>2. CASE backend # "redis"  BY <1>8, <3>1, <3>2
    <3>3. CASE backend = "redis" /\ c # b  BY <1>2, <1>4, <1>8, <3>1, <3>3
    <3>4. CASE backend = "redis" /\ c = b
      <4>1. counts'[c] > 0  BY <1>2, <1>5, <3>4
      <4>2. now + 2 * Window # 0  BY <1>0, ConstantTypes
      <4>3. ends'[c] # 0  BY <1>0, <1>4, <1>8, <3>1, <3>4, <4>2
      <4> QED  BY <3>4, <4>1, <4>3
    <3> QED  BY <3>2, <3>3, <3>4
  <2> QED  BY <1>1, <1>2, <1>3, <1>8, <2>1 DEF LimiterTypeOK
<1>11. AdmittedIsCounted'
  <2> SUFFICES ASSUME NEW j \in Key, NEW d \in Ago
               PROVE  admitted'[j][d] <= Current(counts', j)
                        + (IF d <= elapsed THEN 0 ELSE Previous(counts', j))
    BY <1>3 DEF AdmittedIsCounted
  <2>1. admitted[j][d] <= Current(counts, j)
            + (IF d <= elapsed THEN 0 ELSE Previous(counts, j))
    BY DEF LimiterInv, AdmittedIsCounted
  <2>2. admitted[j][d] \in Nat  BY <1>1 DEF LimiterTypeOK
  <2> QED  BY <1>2, <1>5, <2>1, <2>2
<1>12. CountsLimited'
  <2> SUFFICES ASSUME NEW c \in Bucket PROVE counts'[c] <= Limit
    BY DEF CountsLimited
  <2>1. CASE c = b  BY <1>2, <1>5, <1>6, <2>1, ConstantTypes
  <2>2. CASE c # b
    BY <1>2, <1>4, <2>2, ConstantTypes DEF LimiterInv, CountsLimited
  <2> QED  BY <2>1, <2>2
<1>13. WindowsBounded'
  <2> SUFFICES ASSUME NEW j \in Key, Current(counts', j) > 0
               PROVE  Current(counts', j) + Previous(counts', j) <= Limit + EarnedBack
    BY <1>3 DEF WindowsBounded
  <2>1. CASE j = k
    <3>1. EarnedBack \in Nat  BY <1>0, EarnedType
    <3> QED  BY <1>2, <1>5, <1>6, <2>1, <3>1, ConstantTypes
  <2>2. CASE j # k  BY <1>2, <2>2 DEF LimiterInv, WindowsBounded
  <2> QED  BY <2>1, <2>2
<1>14. BucketsKept'
  <2> SUFFICES ASSUME NEW c \in Bucket, counts'[c] > 0
               PROVE  /\ c[2] <= window_index
                      /\ backend = "redis" => ends'[c] >= (c[2] + 2) * Window
    BY <1>3 DEF BucketsKept
  <2>1. CASE counts[c] > 0 /\ c # b
    BY <1>8, <2>1 DEF LimiterInv, BucketsKept
  <2>2. CASE counts[c] = 0 /\ c # b  BY <1>2, <1>4, <2>2
  <2>3. CASE c = b /\ backend = "redis" /\ Evicted[b] # 0
    BY <1>4, <1>7, <1>8, <1>0, <2>3 DEF LimiterInv, BucketsKept
  <2>4. CASE c = b /\ ~(backend = "redis" /\ Evicted[b] # 0)
    BY <1>7, <1>8, <1>9, <2>4
  <2> QED  BY <1>0, <2>1, <2>2, <2>3, <2>4
<1> QED  BY <1>10, <1>11, <1>12, <1>13, <1>14 DEF LimiterInv

LEMMA CheckInv ==
    ASSUME NEW k \in Key, LimiterInv, Check(k)
    PROVE  LimiterInv'
<1>1. /\ Current(Evicted, k) = Current(counts, k)
      /\ Previous(Evicted, k) = Previous(counts, k)
  BY EvictedKeeps DEF LimiterInv
<1>2. PICK w \in Weighted(Previous(counts, k)) :
        IF Current(counts, k) + w >= Limit
        THEN counts' = Evicted /\ UNCHANGED <<ends, admitted>>
        ELSE Admit(Evicted, k)
  BY <1>1 DEF Check, Refused
<1>3. CASE Current(counts, k) + w >= Limit  BY <1>2, <1>3, RefusedInv
<1>4. CASE ~(Current(counts, k) + w >= Limit)
  <2>1. counts \in [Bucket -> Nat] /\ now \in 0..MaxTime
    BY DEF LimiterInv, LimiterTypeOK
  <2>2. Current(counts, k) \in Nat /\ Previous(counts, k) \in 0..Limit
    <3>1. \A b \in Bucket : counts[b] <= Limit  BY DEF LimiterInv, CountsLimited
    <3>2. /\ Current(counts, k) \in Nat /\ Previous(counts, k) \in Nat
          /\ Previous(counts, k) <= Limit
      BY <2>1, <3>1, BucketTypes
    <3> QED  BY <3>2, ConstantTypes
  <2>3. w \in Nat  BY <2>1, <2>2, WindowTypes, WeightedBounds
  <2>4. Current(counts, k) + w < Limit  BY <1>4, <2>2, <2>3, ConstantTypes
  <2> QED  BY <1>2, <1>4, <2>4, AdmitInv
<1> QED  BY <1>3, <1>4

\* A tick within a window changes neither of the two buckets a check reads; a
\* tick into the next one makes the current bucket the previous one.
LEMMA TickBuckets ==
    ASSUME LimiterInv, Tick
    PROVE  /\ now' \in 0..MaxTime
           /\ \A b \in Bucket : b[2] >= window_index' - 1 => counts'[b] = counts[b]
           /\ \A b \in Bucket : counts'[b] = counts[b] \/ counts'[b] = 0
           /\ \/ /\ window_index' = window_index /\ elapsed' = elapsed + 1
              \/ /\ window_index' = window_index + 1 /\ elapsed' = 0
                 /\ elapsed = Window - 1
<1>1. now \in 0..MaxTime /\ counts \in [Bucket -> Nat] /\ ends \in [Bucket -> Nat]
  BY DEF LimiterInv, LimiterTypeOK
<1>2. now \in Nat /\ window_index \in Nat /\ elapsed \in Nat /\ elapsed < Window
  BY <1>1, WindowTypes
<1>3. now' = now + 1 /\ now' \in 0..MaxTime  BY <1>1, ConstantTypes DEF Tick
<1>4. \/ window_index' = window_index /\ elapsed' = elapsed + 1
      \/ window_index' = window_index + 1 /\ elapsed' = 0 /\ elapsed = Window - 1
  <2>1. CASE elapsed + 1 < Window
    BY <1>2, <1>3, <2>1, ConstantTypes, SameWindow DEF window_index, elapsed
  <2>2. CASE elapsed + 1 = Window
    <3>1. window_index' = window_index + 1 /\ elapsed' = 0
      BY <1>2, <1>3, <2>2, ConstantTypes, NextWindow DEF window_index, elapsed
    <3>2. elapsed = Window - 1  BY <1>2, <2>2, ConstantTypes
    <3> QED  BY <3>1, <3>2
  <2> QED  BY <1>2, <2>1, <2>2, ConstantTypes
<1>5. \A b \in Bucket : counts'[b] = IF Expired(b, now') THEN 0 ELSE counts[b]
  BY <1>1 DEF Tick
<1>6. ASSUME NEW b \in Bucket, b[2] >= window_index' - 1
      PROVE  counts'[b] = counts[b]
  <2>1. CASE counts[b] = 0  BY <1>5, <2>1
  <2>2. CASE counts[b] # 0 /\ Expired(b, now')
    <3>1. backend = "redis" /\ ends[b] <= now'  BY <2>2 DEF Expired
    <3>2. ends[b] >= (b[2] + 2) * Window
      BY <1>1, <2>2, <3>1 DEF LimiterInv, BucketsKept
    <3> DEFINE i == window_index'
               j == b[2]
    <3>3. i \in Nat /\ j \in Nat /\ j + 2 >= i + 1
      <4>1. j \in Nat  BY ConstantTypes DEF Bucket
      <4>2. i \in Nat  BY <1>2, <1>4
      <4>3. j >= i - 1  BY <1>6
      <4> QED  BY <4>1, <4>2, <4>3
    <3>4. i * Window + Window > now'
      <4>1. i = now' \div Window /\ now' \in Nat  BY <1>2, <1>3 DEF window_index
      <4>2. now' % Window = now' - Window * (now' \div Window)
            /\ now' % Window < Window
        <5> DEFINE t == now'
        <5>1. t \in Nat  BY <4>1
        <5> HIDE DEF t
        <5>2. t % Window = t - Window * (t \div Window) /\ t % Window \in 0..(Window - 1)
          BY <5>1, ConstantTypes, DivMod, DivType
        <5>3. t % Window < Window  BY <5>2, ConstantTypes
        <5> QED  BY <5>2, <5>3 DEF t
      <4>3. now' - Window * i < Window  BY <4>1, <4>2
      <4> HIDE DEF i
      <4>4. Window * i \in Nat /\ i * Window = Window * i  BY <3>3, ConstantTypes
      <4>5. PICK m : m = Window * i  OBVIOUS
      <4>6. m \in Nat /\ i * Window = m /\ now' - m < Window  BY <4>3, <4>4, <4>5
      <4>7. PICK t : t = now'  OBVIOUS
      <4>8. t \in Nat /\ t - m < Window  BY <4>1, <4>6, <4>7
      <4>9. m + Window > t  BY ONLY <4>6, <4>8, ConstantTypes
      <4> QED  BY <4>6, <4>7, <4>9
    <3> HIDE DEF i, j
    <3>5. (i + 1) * Window <= (j + 2) * Window
      BY <3>3, ConstantTypes, ProductMonotone
    <3>6. (i + 1) * Window = i * Window + Window /\ i * Window \in Nat
          /\ (j + 2) * Window \in Nat
      BY <3>3, ConstantTypes
    <3>7. ends[b] >= (j + 2) * Window  BY <3>2 DEF j
    <3>8. ends[b] \in Nat /\ now' \in Nat  BY <1>1, <1>2, <1>3
    <3>9. PICK x, y : x = i * Window /\ y = (j + 2) * Window  OBVIOUS
    <3>10. x \in Nat /\ y \in Nat /\ x + Window > now' /\ x + Window <= y /\ ends[b] >= y
      BY <3>4, <3>5, <3>6, <3>7, <3>9
    <3>11. FALSE  BY ONLY <3>1, <3>8, <3>10, ConstantTypes
    <3> QED  BY <3>11
  <2>3. CASE ~Expired(b, now')  BY <1>5, <2>3
  <2> QED  BY <2>1, <2>2, <2>3
<1> QED  BY <1>3, <1>4, <1>5, <1>6

LEMMA TickType ==
    ASSUME LimiterInv, Tick
    PROVE  LimiterTypeOK'
<1>1. LimiterTypeOK  BY DEF LimiterInv
<1>2. now' \in 0..MaxTime  BY TickBuckets
<1>3. counts' \in [Bucket -> Nat] /\ ends' \in [Bucket -> Nat] /\ backend' = backend
  BY <1>1 DEF LimiterTypeOK, Tick
<1>4. \A b \in Bucket : ends'[b] # 0 <=> (backend' = "redis" /\ counts'[b] > 0)
  <2> SUFFICES ASSUME NEW b \in Bucket
               PROVE  ends'[b] # 0 <=> (backend = "redis" /\ counts'[b] > 0)
    BY <1>3
  <2>1. /\ counts'[b] = IF Expired(b, now') THEN 0 ELSE counts[b]
        /\ ends'[b] = IF Expired(b, now') THEN 0 ELSE ends[b]
    BY <1>1 DEF LimiterTypeOK, Tick
  <2>2. ends[b] # 0 <=> (backend = "redis" /\ counts[b] > 0)
    BY <1>1 DEF LimiterTypeOK
  <2> QED  BY <2>1, <2>2
<1>5. admitted' \in [Key -> [Ago -> Nat]]
  <2>1. \A k \in Key, d \in Ago : (IF d = 0 THEN 0 ELSE admitted[k][d - 1]) \in Nat
    BY <1>1, ConstantTypes DEF LimiterTypeOK, Ago
  <2> QED  BY <2>1 DEF Tick
<1> QED  BY <1>1, <1>2, <1>3, <1>4, <1>5 DEF LimiterTypeOK

LEMMA TickInv ==
    ASSUME LimiterInv, Tick
    PROVE  LimiterInv'
<1>1. LimiterTypeOK /\ LimiterTypeOK'  BY TickType DEF LimiterInv
<1>2. now \in 0..MaxTime /\ counts \in [Bucket -> Nat] /\ counts' \in [Bucket -> Nat]
  BY <1>1 DEF LimiterTypeOK
<1>3. /\ now' \in 0..MaxTime
      /\ \A b \in Bucket : b[2] >= window_index' - 1 => counts'[b] = counts[b]
      /\ \A b \in Bucket : counts'[b] = counts[b] \/ counts'[b] = 0
      /\ \/ /\ window_index' = window_index /\ elapsed' = elapsed + 1
         \/ /\ window_index' = window_index + 1 /\ elapsed' = 0
            /\ elapsed = Window - 1
  BY TickBuckets
<1>4. window_index \in Nat /\ elapsed \in Nat /\ elapsed < Window
  BY <1>2, WindowTypes
<1>5. \A k \in Key : /\ <<k, window_index>> \in Bucket
                     /\ window_index # 0 => <<k, window_index - 1>> \in Bucket
                     /\ Current(counts, k) \in Nat /\ Previous(counts, k) \in Nat
  BY <1>2, <1>4, BucketTypes
<1>6. \A k \in Key, d \in Ago : /\ admitted'[k][d] = IF d = 0 THEN 0 ELSE admitted[k][d - 1]
                                /\ d # 0 => d - 1 \in Ago /\ admitted[k][d - 1] \in Nat
  BY <1>1, ConstantTypes DEF Tick, LimiterTypeOK, Ago
<1>7. CountsLimited'
  BY <1>3, ConstantTypes DEF LimiterInv, CountsLimited
<1>8. BucketsKept'
  <2> SUFFICES ASSUME NEW b \in Bucket, counts'[b] > 0
               PROVE  /\ b[2] <= window_index'
                      /\ backend' = "redis" => ends'[b] >= (b[2] + 2) * Window
    BY DEF BucketsKept
  <2>1. ~Expired(b, now') /\ backend' = backend
    BY <1>2 DEF Tick
  <2>2. ends'[b] = ends[b] /\ counts'[b] = counts[b]  BY <1>2, <2>1 DEF Tick
  <2>3. b[2] \in Nat  BY ConstantTypes DEF Bucket
  <2> QED  BY <1>3, <1>4, <2>1, <2>2, <2>3 DEF LimiterInv, BucketsKept
<1>9. CASE window_index' = window_index /\ elapsed' = elapsed + 1
  <2>1. \A k \in Key : Current(counts, k)' = Current(counts, k)
    <3> SUFFICES ASSUME NEW k \in Key
                 PROVE  counts'[<<k, window_index>>] = counts[<<k, window_index>>]
      BY <1>9 DEF Current
    <3>1. <<k, window_index>>[2] >= window_index' - 1  BY <1>4, <1>9
    <3> QED  BY <1>3, <1>5, <3>1
  <2>2. \A k \in Key : Previous(counts, k)' = Previous(counts, k)
    <3> SUFFICES ASSUME NEW k \in Key, window_index # 0
                 PROVE  counts'[<<k, window_index - 1>>] = counts[<<k, window_index - 1>>]
      BY <1>9 DEF Previous
    <3>1. <<k, window_index - 1>>[2] >= window_index' - 1  BY <1>4, <1>9
    <3> QED  BY <1>3, <1>5, <3>1
  <2>3. AdmittedIsCounted'
    <3> SUFFICES ASSUME NEW k \in Key, NEW d \in Ago
                 PROVE  admitted'[k][d] <= Current(counts, k)
                          + (IF d <= elapsed + 1 THEN 0 ELSE Previous(counts, k))
      BY <1>9, <2>1, <2>2 DEF AdmittedIsCounted
    <3>1. d \in Nat  BY ConstantTypes DEF Ago
    <3>0. Current(counts, k) \in Nat /\ Previous(counts, k) \in Nat  BY <1>5
    <3>2. CASE d = 0
      <4>1. admitted'[k][d] = 0  BY <1>6, <3>2
      <4> QED  BY <3>0, <4>1
    <3>3. CASE d # 0
      <4>1. admitted[k][d - 1] <= Current(counts, k)
              + (IF d - 1 <= elapsed THEN 0 ELSE Previous(counts, k))
        BY <1>6, <3>3 DEF LimiterInv, AdmittedIsCounted
      <4>2. d - 1 <= elapsed <=> d <= elapsed + 1  BY <1>4, <3>1
      <4> QED  BY <1>6, <3>3, <4>1, <4>2
    <3> QED  BY <3>2, <3>3
  <2>4. EarnedBack <= EarnedBack'
    <3> DEFINE e == elapsed
    <3>1. e \in Nat /\ e + 1 \in Nat /\ e <= e + 1  BY <1>4
    <3>2. elapsed' = e + 1  BY <1>9
    <3> HIDE DEF e
    <3>3. Limit * e \in Nat /\ Limit * (e + 1) \in Nat /\ Limit * e <= Limit * (e + 1)
      BY <3>1, ConstantTypes, ProductMonotone
    <3>4. (Limit * e) \div Window <= (Limit * (e + 1)) \div Window
      BY <3>3, ConstantTypes, DivMonotone
    <3>5. (Limit * e) \div Window \in Nat /\ (Limit * (e + 1)) \div Window \in Nat
      BY <3>3, ConstantTypes, DivType
    <3>6. /\ EarnedBack = (Limit * e) \div Window + (IF e = 0 THEN 0 ELSE 1)
          /\ EarnedBack' = (Limit * (e + 1)) \div Window + (IF e + 1 = 0 THEN 0 ELSE 1)
      BY <3>2 DEF EarnedBack, e
    <3>7. PICK x, y : x = (Limit * e) \div Window /\ y = (Limit * (e + 1)) \div Window
      OBVIOUS
    <3>8. /\ x \in Nat /\ y \in Nat /\ x <= y
          /\ EarnedBack = x + (IF e = 0 THEN 0 ELSE 1)
          /\ EarnedBack' = y + (IF e + 1 = 0 THEN 0 ELSE 1)
      BY <3>4, <3>5, <3>6, <3>7
    <3> QED  BY ONLY <3>1, <3>8
  <2>5. WindowsBounded'
    <3> SUFFICES ASSUME NEW k \in Key, Current(counts, k) > 0
                 PROVE  Current(counts, k) + Previous(counts, k) <= Limit + EarnedBack'
      BY <2>1, <2>2 DEF WindowsBounded
    <3>1. Current(counts, k) + Previous(counts, k) <= Limit + EarnedBack
      BY DEF LimiterInv, WindowsBounded
    <3>2. EarnedBack \in Nat /\ EarnedBack' \in Nat
      <4>1. EarnedBack \in Nat  BY <1>2, EarnedType
      <4>2. elapsed' \in Nat /\ Limit * elapsed' \in Nat  BY <1>4, <1>9, ConstantTypes
      <4>3. (Limit * elapsed') \div Window \in Nat  BY <4>2, ConstantTypes, DivType
      <4> QED  BY <4>1, <4>3 DEF EarnedBack
    <3>3. Current(counts, k) \in Nat /\ Previous(counts, k) \in Nat  BY <1>5
    <3>4. PICK x, y : x = EarnedBack /\ y = EarnedBack'  OBVIOUS
    <3>5. /\ x \in Nat /\ y \in Nat /\ x <= y
          /\ Current(counts, k) + Previous(counts, k) <= Limit + x
      BY <2>4, <3>1, <3>2, <3>4
    <3>6. Current(counts, k) + Previous(counts, k) <= Limit + y
      BY ONLY <3>3, <3>5, ConstantTypes
    <3> QED  BY <3>4, <3>6
  <2> QED  BY <1>1, <1>7, <1>8, <2>3, <2>5 DEF LimiterInv
<1>10. CASE window_index' = window_index + 1 /\ elapsed' = 0 /\ elapsed = Window - 1
  <2>1. \A k \in Key : Current(counts, k)' = 0
    <3> SUFFICES ASSUME NEW k \in Key
                 PROVE  counts'[<<k, window_index + 1>>] = 0
      BY <1>10 DEF Current
    <3>1. window_index + 1 \in Index
      <4>1. window_index' \in Nat /\ window_index' <= MaxTime \div Window
        <5> DEFINE t == now'
        <5>1. t \in Nat /\ t <= MaxTime  BY <1>3, ConstantTypes
        <5> HIDE DEF t
        <5>2. t \div Window \in Nat /\ t \div Window <= MaxTime \div Window
          BY <5>1, ConstantTypes, DivType, DivMonotone
        <5> QED  BY <5>2 DEF t, window_index
      <4>2. MaxTime \div Window \in Nat  BY ConstantTypes, DivType
      <4> QED  BY <1>10, <4>1, <4>2 DEF Index
    <3>2. <<k, window_index + 1>> \in Bucket  BY <3>1 DEF Bucket
    <3>3. ~(<<k, window_index + 1>>[2] <= window_index)  BY <1>4
    <3>4. ~(counts[<<k, window_index + 1>>] > 0)
      BY <3>2, <3>3 DEF LimiterInv, BucketsKept
    <3> QED  BY <1>2, <1>3, <3>2, <3>4
  <2>2. \A k \in Key : Previous(counts, k)' = Current(counts, k)
    <3> SUFFICES ASSUME NEW k \in Key
                 PROVE  counts'[<<k, window_index>>] = counts[<<k, window_index>>]
      <4>1. window_index' # 0 /\ window_index' - 1 = window_index  BY <1>4, <1>10
      <4> QED  BY <4>1 DEF Previous, Current
    <3>1. <<k, window_index>>[2] >= window_index' - 1  BY <1>4, <1>10
    <3> QED  BY <1>3, <1>5, <3>1
  <2>3. AdmittedIsCounted'
    <3> SUFFICES ASSUME NEW k \in Key, NEW d \in Ago
                 PROVE  admitted'[k][d] <= 0 + (IF d <= 0 THEN 0 ELSE Current(counts, k))
      BY <1>10, <2>1, <2>2 DEF AdmittedIsCounted
    <3>1. d \in Nat /\ d <= Window - 1  BY ConstantTypes DEF Ago
    <3>2. CASE d = 0  BY <1>6, <3>2
    <3>3. CASE d # 0
      <4>1. d - 1 <= elapsed  BY <1>10, <3>1, ConstantTypes
      <4>2. admitted[k][d - 1] <= Current(counts, k)
        <5>1. admitted[k][d - 1] <= Current(counts, k) + 0
          BY <1>6, <3>3, <4>1 DEF LimiterInv, AdmittedIsCounted
        <5>2. Current(counts, k) \in Nat /\ admitted[k][d - 1] \in Nat
          BY <1>5, <1>6, <3>3
        <5> QED  BY <5>1, <5>2
      <4>3. Current(counts, k) \in Nat  BY <1>5
      <4>4. admitted'[k][d] = admitted[k][d - 1]  BY <1>6, <3>3
      <4> QED  BY <3>1, <3>3, <4>2, <4>3, <4>4
    <3> QED  BY <3>2, <3>3
  <2>4. WindowsBounded'  BY <2>1 DEF WindowsBounded
  <2> QED  BY <1>1, <1>7, <1>8, <2>3, <2>4 DEF LimiterInv
<1> QED  BY <1>3, <1>9, <1>10

LEMMA LimiterNextInv == LimiterInv /\ [LimiterNext]_limiterVars => LimiterInv'
<1> SUFFICES ASSUME LimiterInv, [LimiterNext]_limiterVars PROVE LimiterInv'
  OBVIOUS
<1>1. CASE Tick  BY <1>1, TickInv
<1>2. CASE \E k \in Key : Check(k)  BY <1>2, CheckInv
<1>3. CASE UNCHANGED limiterVars
  BY <1>3 DEF limiterVars, LimiterInv, LimiterTypeOK, AdmittedIsCounted,
     CountsLimited, WindowsBounded, BucketsKept, Current, Previous,
     EarnedBack, window_index, elapsed
<1> QED  BY <1>1, <1>2, <1>3 DEF LimiterNext

\* The limiter's counters and its history are well typed, and a Redis bucket
\* has a TTL exactly as long as it counts something: EXPIRE on the first
\* request of a bucket leaves none behind.
THEOREM LimiterTypeCorrect == LimiterSpec => []LimiterTypeOK
<1>1. LimiterInv => LimiterTypeOK  BY DEF LimiterInv
<1> QED  BY <1>1, LimiterInitInv, LimiterNextInv, PTL DEF LimiterSpec

\* For every limit, window length, number of keys and eviction threshold, the
\* requests admitted in any stretch of up to a window stay within the limit
\* and what the current window has earned back of it.
THEOREM BurstsAreBounded == LimiterSpec => []BurstBounded
<1>1. ASSUME LimiterInv PROVE BurstBounded
  <2>1. now \in 0..MaxTime /\ counts \in [Bucket -> Nat]
        /\ admitted \in [Key -> [Ago -> Nat]]
    BY <1>1 DEF LimiterInv, LimiterTypeOK
  <2> SUFFICES ASSUME NEW k \in Key, NEW d \in Ago
               PROVE  IF d <= elapsed THEN admitted[k][d] <= Limit
                      ELSE admitted[k][d] <= Limit + EarnedBack
    <3>1. EarnedBack \in Nat /\ (Limit * elapsed) \div Window \in Nat
      BY <2>1, EarnedType
    <3>2. Limit + EarnedBack = Limit + ((Limit * elapsed) \div Window)
                               + (IF elapsed = 0 THEN 0 ELSE 1)
      BY <3>1, ConstantTypes DEF EarnedBack
    <3> QED  BY <3>2 DEF BurstBounded
  <2>2. \A b \in Bucket : counts[b] <= Limit  BY <1>1 DEF LimiterInv, CountsLimited
  <2>3. /\ Current(counts, k) \in Nat /\ Previous(counts, k) \in Nat
        /\ Current(counts, k) <= Limit /\ Previous(counts, k) <= Limit
    BY <2>1, <2>2, BucketTypes
  <2>4. admitted[k][d] <= Current(counts, k)
            + (IF d <= elapsed THEN 0 ELSE Previous(counts, k))
    BY <1>1 DEF LimiterInv, AdmittedIsCounted
  <2>5. Current(counts, k) > 0 =>
            Current(counts, k) + Previous(counts, k) <= Limit + EarnedBack
    BY <1>1 DEF LimiterInv, WindowsBounded
  <2>6. EarnedBack \in Nat /\ admitted[k][d] \in Nat  BY <2>1, EarnedType
  <2>7. CASE d <= elapsed  BY <2>3, <2>4, <2>6, <2>7, ConstantTypes
  <2>8. CASE ~(d <= elapsed)  BY <2>3, <2>4, <2>5, <2>6, <2>8, ConstantTypes
  <2> QED  BY <2>7, <2>8
<1> QED  BY <1>1, LimiterInitInv, LimiterNextInv, PTL DEF LimiterSpec

\* Whatever was refused before, a key with no request admitted in the current
\* window is admitted once the window has begun: the previous window never
\* counts more than the limit, and weighs less than all of it.
THEOREM RefusalsEnd == LimiterSpec => []NotStarved
<1>1. ASSUME LimiterInv PROVE NotStarved
  <2> SUFFICES ASSUME NEW k \in Key, elapsed > 0,
                      NEW w \in Weighted(Previous(counts, k))
               PROVE  w < Limit
    BY DEF NotStarved
  <2>1. now \in 0..MaxTime /\ counts \in [Bucket -> Nat]
    BY <1>1 DEF LimiterInv, LimiterTypeOK
  <2>2. \A b \in Bucket : counts[b] <= Limit  BY <1>1 DEF LimiterInv, CountsLimited
  <2>3. PICK p : p = Previous(counts, k)  OBVIOUS
  <2>4. p \in Nat /\ p <= Limit /\ p \in 0..Limit
    <3>1. p \in Nat /\ p <= Limit  BY <2>1, <2>2, <2>3, BucketTypes
    <3> QED  BY <3>1, ConstantTypes
  <2>5. elapsed \in Nat /\ elapsed < Window /\ now \in Nat  BY <2>1, WindowTypes
  <2> DEFINE e == elapsed
             exact == p * (Window - e)
  <2>6. w \in Nat /\ w <= exact \div Window
    <3>1. w \in Nat  BY <2>3, <2>4, <2>5, WeightedBounds
    <3>2. w = exact \div Window \/ w = exact \div Window - 1
      BY <2>3 DEF Weighted
    <3>3. exact \in Nat  BY <2>4, <2>5, ConstantTypes
    <3>4. exact \div Window \in Nat  BY <3>3, ConstantTypes, DivType
    <3> HIDE DEF exact
    <3> QED  BY <3>1, <3>2, <3>4
  <2>7. e \in Nat /\ e > 0 /\ e < Window  BY <2>5
  <2> HIDE DEF e
  <2>8. exact \div Window < Limit
    <3>1. CASE p = 0
      <4>1. exact = 0 * Window + 0 /\ 0 \in 0..(Window - 1)  BY <2>7, <3>1, ConstantTypes
      <4>2. (0 * Window + 0) \div Window = 0  BY <4>1, ConstantTypes, DivUnique
      <4> QED  BY <4>1, <4>2, ConstantTypes
    <3>2. CASE p # 0
      <4>1. exact \in Nat /\ exact < p * Window  BY <2>4, <2>7, <3>2, ConstantTypes
      <4>2. exact \div Window < p
        <5> HIDE DEF exact
        <5> DEFINE q == exact \div Window
        <5>1. q \in Nat /\ exact % Window \in 0..(Window - 1)
          BY <4>1, ConstantTypes, DivType
        <5>2. exact % Window = exact - Window * q  BY <4>1, ConstantTypes, DivMod
        <5> HIDE DEF q
        <5>3. SUFFICES ASSUME q >= p PROVE FALSE  BY <2>4, <5>1 DEF q
        <5>4. p * Window <= q * Window  BY <2>4, <5>1, <5>3, ConstantTypes, ProductMonotone
        <5>5. q * Window = Window * q /\ Window * q \in Nat /\ p * Window \in Nat
          BY <2>4, <5>1, ConstantTypes
        <5>6. PICK x, y : x = p * Window /\ y = Window * q  OBVIOUS
        <5>7. x \in Nat /\ y \in Nat /\ x <= y /\ exact < x /\ exact % Window = exact - y
          BY <4>1, <5>2, <5>4, <5>5, <5>6
        <5>8. exact % Window >= 0  BY <5>1
        <5> QED  BY ONLY <4>1, <5>7, <5>8
      <4>3. exact \div Window \in Nat  BY <4>1, ConstantTypes, DivType
      <4> HIDE DEF exact
      <4> QED  BY <2>4, <4>2, <4>3, ConstantTypes
    <3> QED  BY <3>1, <3>2
  <2>9. exact \div Window \in Nat
    <3>1. exact \in Nat  BY <2>4, <2>7, ConstantTypes
    <3> QED  BY <3>1, ConstantTypes, DivType
  <2> HIDE DEF exact
  <2> QED  BY <2>6, <2>8, <2>9, ConstantTypes
<1> QED  BY <1>1, LimiterInitInv, LimiterNextInv, PTL DEF LimiterSpec

=============================================================================
