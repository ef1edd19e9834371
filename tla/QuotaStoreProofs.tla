--------------------------- MODULE QuotaStoreProofs ---------------------------
(***************************************************************************)
(* Theorems about QuotaStore: for any callers, keys, costs and limit.      *)
(*                                                                         *)
(* A counter is not negative because it is at least the sum of what the    *)
(* callers may still take off it; in Postgres the caller that is about to  *)
(* change it holds its row until the commit.                               *)
(*                                                                         *)
(* The stores implement QuotaLedger: the second half proves it step by     *)
(* step, from who may still charge or refund each row (Books) and from     *)
(* what the migrations carry between two counters (Carrying).              *)
(***************************************************************************)
EXTENDS QuotaStore, FiniteSetTheorems, FunctionTheorems, TLAPS

-----------------------------------------------------------------------------
(* Totals.  That T is the sum of v over the callers is witnessed by running *)
(* totals along some enumeration of the callers: an update of v at one      *)
(* caller shifts the totals from its place on.                              *)

Runs(v, T, n, e, f) ==
    /\ e \in Bijection(1..n, Caller)
    /\ f \in [0..n -> Nat]
    /\ f[0] = 0
    /\ \A i \in 1..n : f[i] = f[i - 1] + v[e[i]]
    /\ \A i, j \in 0..n : i <= j => f[i] <= f[j]
    /\ f[n] = T

IsTotal(v, T) == \E n \in Nat : \E e, f : Runs(v, T, n, e, f)

Nothing == [c \in Caller |-> 0]

LEMMA NothingTotals == IsTotal(Nothing, 0)
<1>1. PICK n \in Nat : ExistsBijection(1..n, Caller)
  BY FS_CardinalityType, QuotaAssumption
<1>2. PICK e : e \in Bijection(1..n, Caller)
  BY <1>1 DEF ExistsBijection
<1>3. PICK f : f = [i \in 0..n |-> 0]
  OBVIOUS
<1>4. \A i \in 1..n : e[i] \in Caller
  BY <1>2 DEF Bijection, Injection
<1>5. \A i \in 1..n : Nothing[e[i]] = 0 /\ i - 1 \in 0..n
  BY <1>4 DEF Nothing
<1>6. Runs(Nothing, 0, n, e, f)
  BY <1>2, <1>3, <1>5 DEF Runs
<1> QED
  BY <1>6 DEF IsTotal

\* One summand changes, and the total changes as much.
LEMMA TotalUpdate ==
    ASSUME NEW v \in [Caller -> Nat], NEW T \in Nat, IsTotal(v, T),
           NEW p \in Caller, NEW x \in Nat
    PROVE  /\ v[p] <= T
           /\ IsTotal([v EXCEPT ![p] = x], T - v[p] + x)
<1>1. PICK n \in Nat : \E e, f : Runs(v, T, n, e, f)
  BY DEF IsTotal
<1>2. PICK e, f : Runs(v, T, n, e, f)
  BY <1>1
<1>3. e \in [1..n -> Caller] /\ f \in [0..n -> Nat]
  BY <1>2 DEF Runs, Bijection, Injection
<1>4. PICK q \in 1..n : e[q] = p
  BY <1>2 DEF Runs, Bijection, Surjection
<1>5. \A i \in 1..n : i # q => e[i] # p
  BY <1>2, <1>4 DEF Runs, Bijection, Injection, IsInjective
<1>6. /\ f[0] = 0 /\ f[n] = T /\ v[p] \in Nat
      /\ \A i \in 1..n : f[i] = f[i - 1] + v[e[i]]
      /\ \A i, j \in 0..n : i <= j => f[i] <= f[j]
  BY <1>2 DEF Runs
<1>7. q \in 0..n /\ q - 1 \in 0..n /\ 0 \in 0..n /\ n \in 0..n
  OBVIOUS
<1>8. f[q] = f[q - 1] + v[p] /\ f[q] <= T /\ f[q - 1] \in Nat /\ f[q] \in Nat
  BY <1>3, <1>4, <1>6, <1>7
<1>9. PICK g : g = [i \in 0..n |-> IF i < q THEN f[i] ELSE f[i] - v[p] + x]
  OBVIOUS
<1>10. \A i \in 0..n : i >= q => f[i] - v[p] >= f[q - 1] /\ f[i] \in Nat
  <2> SUFFICES ASSUME NEW i \in 0..n, i >= q PROVE f[i] - v[p] >= f[q - 1] /\ f[i] \in Nat
    OBVIOUS
  <2>1. f[i] \in Nat /\ v[p] \in Nat
    BY <1>3
  <2>2. f[q] <= f[i]
    BY <1>6, <1>7
  <2> QED
    BY ONLY <1>8, <2>1, <2>2
<1>11. \A i \in 0..n : /\ i < q => g[i] = f[i]
                       /\ i >= q => g[i] = f[i] - v[p] + x
                       /\ g[i] \in Nat
  <2> SUFFICES ASSUME NEW i \in 0..n
               PROVE  /\ i < q => g[i] = f[i]
                      /\ i >= q => g[i] = f[i] - v[p] + x
                      /\ g[i] \in Nat
    OBVIOUS
  <2>1. g[i] = (IF i < q THEN f[i] ELSE f[i] - v[p] + x) /\ f[i] \in Nat
    BY <1>3, <1>9
  <2>2. CASE i < q
    BY <2>1, <2>2
  <2>3. CASE i >= q
    <3>1. g[i] = f[i] - v[p] + x /\ f[i] - v[p] >= f[q - 1]
      BY <1>10, <2>1, <2>3
    <3> QED
      BY <1>6, <1>8, <2>1, <2>3, <3>1
  <2> QED
    BY <2>2, <2>3
<1>12. g \in [0..n -> Nat]
  BY <1>9, <1>11
<1>13. PICK u : u = [v EXCEPT ![p] = x]
  OBVIOUS
<1>14. u \in [Caller -> Nat] /\ u[p] = x /\ \A c \in Caller \ {p} : u[c] = v[c]
  BY <1>13
<1>15. \A i \in 1..n : g[i] = g[i - 1] + u[e[i]]
  <2> SUFFICES ASSUME NEW i \in 1..n PROVE g[i] = g[i - 1] + u[e[i]]
    OBVIOUS
  <2>1. i \in 0..n /\ i - 1 \in 0..n /\ f[i] = f[i - 1] + v[e[i]] /\ e[i] \in Caller
    BY <1>3, <1>6
  <2>2. f[i] \in Nat /\ f[i - 1] \in Nat /\ v[e[i]] \in Nat
    BY <1>3, <2>1
  <2>3. CASE i < q
    <3>1. u[e[i]] = v[e[i]]
      BY <1>5, <1>14, <2>1, <2>3
    <3> QED
      BY <1>11, <2>1, <2>3, <3>1
  <2>4. CASE i = q
    BY <1>4, <1>8, <1>11, <1>14, <2>1, <2>4
  <2>5. CASE i > q
    <3>1. u[e[i]] = v[e[i]] /\ i - 1 >= q /\ i >= q
      BY <1>5, <1>14, <2>1, <2>5
    <3> QED
      BY <1>6, <1>11, <2>1, <2>2, <3>1
  <2> QED
    BY <2>3, <2>4, <2>5
<1>16. \A i, j \in 0..n : i <= j => g[i] <= g[j]
  <2> SUFFICES ASSUME NEW i \in 0..n, NEW j \in 0..n, i <= j PROVE g[i] <= g[j]
    OBVIOUS
  <2>1. f[i] \in Nat /\ f[j] \in Nat /\ f[i] <= f[j]
    BY <1>3, <1>6
  <2>2. CASE j < q
    BY <1>11, <2>1, <2>2
  <2>3. CASE i >= q
    BY <1>6, <1>11, <2>1, <2>3
  <2>4. CASE i < q /\ j >= q
    <3>1. i <= q - 1 /\ f[i] <= f[q - 1]
      BY <1>6, <1>7, <2>4
    <3> QED
      BY <1>6, <1>8, <1>10, <1>11, <2>1, <2>4, <3>1
  <2> QED
    BY <2>2, <2>3, <2>4
<1>17. g[0] = 0 /\ g[n] = T - v[p] + x
  BY <1>6, <1>7, <1>11
<1>18. Runs(u, T - v[p] + x, n, e, g)
  BY <1>2, <1>12, <1>15, <1>16, <1>17 DEF Runs
<1> QED
  BY <1>6, <1>8, <1>13, <1>18 DEF IsTotal

\* A balance u covers what is owed, d of each caller.
CoveredBy(u, d) ==
    \E v \in [Caller -> Nat], T \in Nat :
        IsTotal(v, T) /\ T <= u /\ \A c \in Caller : d[c] <= v[c]

LEMMA CoveredNothing ==
    ASSUME NEW u \in Nat, NEW d \in [Caller -> Nat], \A c \in Caller : d[c] = 0
    PROVE  CoveredBy(u, d)
<1>1. Nothing \in [Caller -> Nat] /\ \A c \in Caller : d[c] <= Nothing[c]
  BY DEF Nothing
<1> QED
  BY <1>1, NothingTotals DEF CoveredBy

LEMMA CoveredNat == ASSUME NEW u \in Int, NEW d, CoveredBy(u, d) PROVE u >= 0
  BY DEF CoveredBy

LEMMA CoveredLess ==
    ASSUME NEW u \in Int, NEW d \in [Caller -> Nat], CoveredBy(u, d),
           NEW x \in Int, x >= u, NEW e \in [Caller -> Nat], \A c \in Caller : e[c] <= d[c]
    PROVE  CoveredBy(x, e)
<1>1. PICK v \in [Caller -> Nat], T \in Nat :
         IsTotal(v, T) /\ T <= u /\ \A c \in Caller : d[c] <= v[c]
  BY DEF CoveredBy
<1>2. \A c \in Caller : e[c] \in Nat /\ d[c] \in Nat /\ v[c] \in Nat /\ e[c] <= v[c]
  BY <1>1
<1> QED
  BY <1>1, <1>2 DEF CoveredBy

\* Caller p owes at most y more, and the balance is up by y.
LEMMA CoveredCharge ==
    ASSUME NEW u \in Int, NEW d \in [Caller -> Nat], CoveredBy(u, d), NEW p \in Caller, NEW y \in Nat,
           NEW e \in [Caller -> Nat], e[p] <= d[p] + y, \A c \in Caller \ {p} : e[c] <= d[c]
    PROVE  CoveredBy(u + y, e)
<1>1. PICK v \in [Caller -> Nat], T \in Nat :
         IsTotal(v, T) /\ T <= u /\ \A c \in Caller : d[c] <= v[c]
  BY DEF CoveredBy
<1>2. PICK w : w = [v EXCEPT ![p] = v[p] + y]
  OBVIOUS
<1>3. v[p] \in Nat /\ v[p] + y \in Nat
  OBVIOUS
<1>4. /\ w \in [Caller -> Nat] /\ w[p] = v[p] + y /\ \A c \in Caller \ {p} : w[c] = v[c]
      /\ IsTotal(w, T - v[p] + (v[p] + y))
  BY <1>1, <1>2, <1>3, TotalUpdate
<1>5. T - v[p] + (v[p] + y) = T + y /\ T + y \in Nat /\ T + y <= u + y
  BY <1>1, <1>3
<1>6. ASSUME NEW c \in Caller PROVE e[c] <= w[c]
  <2>1. e[c] \in Nat /\ d[c] \in Nat /\ v[c] \in Nat /\ d[c] <= v[c]
    BY <1>1
  <2>2. CASE c = p
    BY <1>4, <2>1, <2>2
  <2>3. CASE c # p
    BY <1>4, <2>1, <2>3
  <2> QED
    BY <2>2, <2>3
<1> QED
  BY <1>4, <1>5, <1>6 DEF CoveredBy

\* Caller p owes y less, which is taken from the balance.
LEMMA CoveredPay ==
    ASSUME NEW u \in Int, NEW d \in [Caller -> Nat], CoveredBy(u, d), NEW p \in Caller, NEW y \in Nat,
           NEW e \in [Caller -> Nat], e[p] + y <= d[p], \A c \in Caller \ {p} : e[c] <= d[c]
    PROVE  CoveredBy(u - y, e)
<1>1. PICK v \in [Caller -> Nat], T \in Nat :
         IsTotal(v, T) /\ T <= u /\ \A c \in Caller : d[c] <= v[c]
  BY DEF CoveredBy
<1>2. PICK w : w = [v EXCEPT ![p] = v[p] - y]
  OBVIOUS
<1>3. v[p] \in Nat /\ v[p] - y \in Nat /\ e[p] <= v[p] - y
  <2>1. d[p] \in Nat /\ e[p] \in Nat /\ v[p] \in Nat /\ d[p] <= v[p]
    BY <1>1
  <2> QED
    BY <2>1
<1>4. /\ w \in [Caller -> Nat] /\ w[p] = v[p] - y /\ \A c \in Caller \ {p} : w[c] = v[c]
      /\ v[p] <= T /\ IsTotal(w, T - v[p] + (v[p] - y))
  BY <1>1, <1>2, <1>3, TotalUpdate
<1>5. T - v[p] + (v[p] - y) = T - y /\ T - y \in Nat /\ T - y <= u - y
  BY <1>1, <1>3, <1>4
<1>6. ASSUME NEW c \in Caller PROVE e[c] <= w[c]
  <2>1. e[c] \in Nat /\ d[c] \in Nat /\ v[c] \in Nat /\ d[c] <= v[c]
    BY <1>1
  <2>2. CASE c = p
    BY <1>3, <1>4, <2>2
  <2>3. CASE c # p
    BY <1>4, <2>1, <2>3
  <2> QED
    BY <2>2, <2>3
<1> QED
  BY <1>4, <1>5, <1>6 DEF CoveredBy

-----------------------------------------------------------------------------
(* What the operators of QuotaStore do *)

LEMMA Records == NoRow \in Reservation /\ Fresh \in Command
  BY QuotaAssumption DEF NoRow, Fresh, Reservation, Command, Window, Idle

LEMMA CommandFacts ==
    ASSUME TypeOK, NEW c \in Caller
    PROVE  /\ caller[c] \in Command /\ row[c] \in Reservation
           /\ caller[c].window \in Window /\ row[c].window \in Window
           /\ caller[c].cost \in Nat /\ row[c].cost \in Nat
           /\ caller[c].cost \in Cost \cup {0}
           /\ caller[c].moved \in Int
           /\ caller[c].res \in Caller \cup {None}
           /\ Reserved(c) \in Reservation
<1>1. caller[c] \in Command /\ row[c] \in Reservation
  BY DEF TypeOK
<1>2. caller[c].key \in Key \cup {None} /\ caller[c].cost \in Cost \cup {0}
      /\ caller[c].window \in Window
  BY <1>1 DEF Command
<1>3. Reserved(c) \in Reservation
  BY <1>2 DEF Reserved, Reservation
<1>4. row[c].cost \in Cost \cup {0} /\ row[c].window \in Window
  BY <1>1 DEF Reservation
<1>5. caller[c].moved \in Int /\ caller[c].res \in Caller \cup {None}
  BY <1>1 DEF Command
<1>6. \A x \in Cost \cup {0} : x \in Nat
  BY QuotaAssumption
<1> QED
  BY <1>1, <1>2, <1>3, <1>4, <1>5, <1>6

LEMMA UsedType ==
    ASSUME TypeOK, NEW w \in Window PROVE UsedIn(w) \in Int
  BY DEF TypeOK, UsedIn

\* A step of c is not seen in the commands of the others.
OthersKept(c) == \A d \in Caller \ {c} : caller'[d] = caller[d]

LEMMA GotoFacts ==
    ASSUME TypeOK, NEW c \in Caller, NEW p \in Idle \cup Busy, Goto(c, p)
    PROVE  /\ caller' \in [Caller -> Command] /\ OthersKept(c)
           /\ caller'[c].pc = p /\ caller'[c].window = caller[c].window
           /\ caller'[c].cost = caller[c].cost /\ caller'[c].key = caller[c].key
           /\ caller'[c].res = caller[c].res /\ caller'[c].moved = caller[c].moved
<1>1. caller'[c] = [caller[c] EXCEPT !.pc = p] /\ OthersKept(c)
  BY DEF TypeOK, Goto, OthersKept
<1>2. caller[c] \in Command
  BY DEF TypeOK
<1>3. [caller[c] EXCEPT !.pc = p] \in Command
  BY <1>2 DEF Command
<1>4. caller' \in [Caller -> Command]
  BY <1>1, <1>3 DEF TypeOK, Goto
<1> QED
  BY <1>1, <1>2, <1>4 DEF Command

LEMMA HandFacts ==
    ASSUME TypeOK, NEW c \in Caller, NEW r \in Caller, Hand(c, r)
    PROVE  /\ caller' \in [Caller -> Command] /\ OthersKept(c)
           /\ caller'[c].pc = "holding" /\ caller'[c].res = r /\ caller'[c].window = 1
           /\ caller'[c].moved = 0
<1>1. PICK x : x = [Fresh EXCEPT !.pc = "holding", !.res = r]
  OBVIOUS
<1>2. "holding" \in Idle \cup Busy
  BY DEF Idle
<1>3. x \in Command
  BY <1>1, <1>2, Records DEF Command
<1>4. x.pc = "holding" /\ x.res = r /\ x.window = 1 /\ x.moved = 0
  BY <1>1 DEF Fresh
<1>5. caller' = [caller EXCEPT ![c] = x]
  BY <1>1 DEF Hand
<1> QED
  BY <1>3, <1>4, <1>5 DEF TypeOK, OthersKept

LEMMA EndFacts ==
    ASSUME TypeOK, NEW c \in Caller, End(c)
    PROVE  /\ caller' \in [Caller -> Command] /\ OthersKept(c)
           /\ caller'[c] = Fresh /\ caller'[c].pc = "idle" /\ caller'[c].window = 1
           /\ caller'[c].moved = 0
  BY Records DEF TypeOK, End, OthersKept, Fresh

\* MongoClaimRefund and MongoTake go on with fields of their own.
LEMMA ChangedFacts ==
    ASSUME TypeOK, NEW c \in Caller, NEW x \in Command, caller' = [caller EXCEPT ![c] = x]
    PROVE  caller' \in [Caller -> Command] /\ OthersKept(c) /\ caller'[c] = x
  BY DEF TypeOK, OthersKept

LEMMA IdempotentRows ==
    ASSUME NEW c \in Caller, NEW r \in Idempotent(c)
    PROVE  r \in Caller /\ row[r].status # "absent" /\ row[r] # NoRow
  BY DEF Idempotent, NoRow

LEMMA BeginFacts ==
    ASSUME TypeOK, NEW c \in Caller, NEW op \in {"reserve", "usage"}, NEW cost \in Cost \cup {0},
           NEW key \in Key \cup {None}, Begin(c, op, cost, key)
    PROVE  /\ caller' \in [Caller -> Command] /\ OthersKept(c)
           /\ caller'[c].pc = (IF backend = "mongo" THEN "scan" ELSE "find")
           /\ caller'[c].window = window /\ caller'[c].moved = 0
<1>1. PICK p \in Idle \cup Busy : p = IF backend = "mongo" THEN "scan" ELSE "find"
  BY DEF Busy
<1>2. PICK x : x = [Fresh EXCEPT !.pc = p, !.op = op, !.window = window, !.cost = cost, !.key = key]
  OBVIOUS
<1>3. window \in Window
  BY DEF TypeOK
<1>4. x \in Command
  BY <1>2, <1>3, Records DEF Command
<1>5. x.pc = p /\ x.window = window /\ x.moved = 0
  BY <1>2 DEF Fresh
<1>6. caller' = [caller EXCEPT ![c] = x]
  BY <1>1, <1>2 DEF Begin
<1> QED
  BY <1>1, <1>4, <1>5, <1>6, ChangedFacts

-----------------------------------------------------------------------------
(* Types *)

LEMMA MemoryType ==
    ASSUME TypeOK, NEW c \in Caller, MemoryReserve(c) PROVE TypeOK'
<1>1. UNCHANGED <<backend, window, lock, reset, fault, carried>>
  BY DEF MemoryReserve
<1>2. caller[c].window \in Window /\ UsedIn(caller[c].window) \in Int /\ caller[c].cost \in Nat
      /\ Reserved(c) \in Reservation
  BY CommandFacts, UsedType
<1>3. caller' \in [Caller -> Command]
  BY HandFacts, EndFacts, IdempotentRows DEF MemoryReserve
<1>4. counter' \in [Window -> Int \cup {None}] /\ row' \in [Caller -> Reservation]
  BY <1>2 DEF MemoryReserve, TypeOK
<1> QED
  BY <1>1, <1>3, <1>4 DEF TypeOK

LEMMA PgType ==
    ASSUME TypeOK, NEW c \in Caller, PgStep(c) PROVE TypeOK'
<1>1. UNCHANGED <<backend, window, reset, fault, carried>>
  BY DEF PgStep, PgFind, PgEnsureCounter, PgInsert, PgFindWinner, PgAbort
<1>2. caller[c].window \in Window /\ UsedIn(caller[c].window) \in Int /\ caller[c].cost \in Nat
      /\ Reserved(c) \in Reservation
  BY CommandFacts, UsedType
<1>3. {"counter", "insert", "again", "no_winner"} \subseteq Idle \cup Busy
  BY DEF Idle, Busy
<1>4. lock' \in Caller \cup {None}
  BY DEF PgStep, PgFind, PgEnsureCounter, PgInsert, PgFindWinner, PgAbort, Unlock, TypeOK
<1>5. caller' \in [Caller -> Command]
  BY <1>3, GotoFacts, HandFacts, EndFacts, IdempotentRows
     DEF PgStep, PgFind, PgEnsureCounter, PgInsert, PgFindWinner, PgAbort
<1>6. counter' \in [Window -> Int \cup {None}]
  BY <1>2 DEF PgStep, PgFind, PgEnsureCounter, PgInsert, PgFindWinner, PgAbort, TypeOK
<1>7. row' \in [Caller -> Reservation]
  BY <1>2 DEF PgStep, PgFind, PgEnsureCounter, PgInsert, PgFindWinner, PgAbort, TypeOK
<1> QED
  BY <1>1, <1>4, <1>5, <1>6, <1>7 DEF TypeOK

\* Settling a reservation changes its status, and only that.
LEMMA SettleFacts ==
    ASSUME TypeOK, NEW r \in Caller, NEW s \in {"finalized", "refunded"}, Settle(r, s)
    PROVE  /\ row' \in [Caller -> Reservation] /\ \A q \in Caller \ {r} : row'[q] = row[q]
           /\ row[r].status = "reserved" /\ row'[r].status = s /\ row'[r].cost = row[r].cost
           /\ row'[r].window = row[r].window /\ row'[r].key = row[r].key
<1>1. row'[r] = [row[r] EXCEPT !.status = s] /\ \A q \in Caller \ {r} : row'[q] = row[q]
  BY DEF TypeOK, Settle
<1>2. row[r] \in Reservation
  BY DEF TypeOK
<1>3. [row[r] EXCEPT !.status = s] \in Reservation
  BY <1>2 DEF Reservation
<1>4. row' \in [Caller -> Reservation]
  BY <1>1, <1>3 DEF TypeOK, Settle
<1> QED
  BY <1>1, <1>2, <1>4 DEF Settle, Reservation

\* Holders hold a reservation.
HoldersHold == \A c \in Caller : caller[c].pc \in {"holding", "decrement"} => caller[c].res \in Caller

LEMMA SettlingType ==
    ASSUME TypeOK, HoldersHold, NEW c \in Caller, Finalize(c) \/ Refund(c) PROVE TypeOK'
<1>1. UNCHANGED <<backend, window, caller, lock, reset, fault, carried>>
  BY DEF Finalize, Refund
<1>2. PICK r \in Caller : r = caller[c].res
  BY DEF Finalize, Refund, At, HoldersHold
<1>3. row' \in [Caller -> Reservation]
  BY <1>2, SettleFacts DEF Finalize, Refund
<1>4. counter' \in [Window -> Int \cup {None}]
  <2>1. CASE Finalize(c)
    BY <2>1 DEF Finalize, TypeOK
  <2>2. CASE Refund(c)
    <3>1. row[r].window \in Window /\ row[r].cost \in Nat /\ counter[row[r].window] \in Int
      BY <1>2, <2>2, CommandFacts DEF TypeOK, Refund
    <3>2. Decremented(counter[row[r].window], row[r].cost) \in Int
      BY <3>1 DEF Decremented
    <3> QED
      BY <1>2, <2>2, <3>1, <3>2 DEF Refund, TypeOK
  <2> QED
    BY <2>1, <2>2
<1> QED
  BY <1>1, <1>3, <1>4 DEF TypeOK

LEMMA OtherWindow ==
    ASSUME TypeOK, NEW c \in Caller PROVE Other(c) \in Window
<1>1. caller[c].window \in Window
  BY CommandFacts
<1> QED
  BY <1>1 DEF Other, Window

LEMMA MigratedFacts ==
    ASSUME TypeOK, NEW c \in Caller, Migrated(c)
    PROVE  /\ caller' \in [Caller -> Command] /\ OthersKept(c)
           /\ caller'[c].pc \in {"idle", "find"}
           /\ caller[c].window = 1 => caller'[c].window = 1
           /\ caller'[c].moved \in {0, caller[c].moved}
<1>1. "find" \in Idle \cup Busy
  BY DEF Busy
<1>2. CASE End(c)
  BY <1>2, EndFacts
<1>3. CASE Goto(c, "find")
  BY <1>1, <1>3, GotoFacts
<1> QED
  BY <1>2, <1>3 DEF Migrated

LEMMA TakeFacts ==
    ASSUME TypeOK, NEW c \in Caller, MongoTake(c)
    PROVE  /\ caller' \in [Caller -> Command] /\ OthersKept(c)
           /\ caller'[c].pc \in {"idle", "find", "inc"}
           /\ counter' \in [Window -> Int \cup {None}]
           /\ carried' \in Int
           /\ \/ /\ caller'[c].pc # "inc" /\ caller'[c].moved \in {0, caller[c].moved}
                 /\ UNCHANGED <<counter, carried>>
              \/ /\ caller'[c].pc = "inc" /\ caller'[c].moved = UsedIn(Other(c))
                 /\ counter' = [counter EXCEPT ![Other(c)] = None]
                 /\ carried' = carried + UsedIn(Other(c))
<1>1. Other(c) \in Window /\ caller[c] \in Command
  BY OtherWindow, CommandFacts
<1>2. CASE counter[Other(c)] = None
  <2>1. Migrated(c) /\ UNCHANGED <<counter, carried>>
    BY <1>2 DEF MongoTake
  <2> QED
    BY <2>1, MigratedFacts DEF TypeOK
<1>3. CASE counter[Other(c)] # None
  <2>1. counter[Other(c)] \in Int
    BY <1>1, <1>3 DEF TypeOK
  <2>2. PICK m \in Int : m = counter[Other(c)]
    BY <2>1
  <2>3. PICK x : x = [caller[c] EXCEPT !.pc = "inc", !.moved = m]
    OBVIOUS
  <2>4. "inc" \in Idle \cup Busy
    BY DEF Busy
  <2>5. x \in Command /\ x.pc = "inc" /\ x.moved = m
    BY <1>1, <2>3, <2>4 DEF Command
  <2>6. caller' = [caller EXCEPT ![c] = x]
    BY <1>3, <2>2, <2>3 DEF MongoTake, TypeOK
  <2>7. counter' \in [Window -> Int \cup {None}]
    BY <1>1, <1>3 DEF MongoTake, TypeOK
  <2>8. m = UsedIn(Other(c))
    BY <1>3, <2>2 DEF UsedIn
  <2>9. counter' = [counter EXCEPT ![Other(c)] = None] /\ carried' = carried + m
    BY <1>3, <2>2 DEF MongoTake
  <2>10. carried' \in Int
    BY <2>9 DEF TypeOK
  <2>11. caller' \in [Caller -> Command] /\ OthersKept(c) /\ caller'[c] = x
    BY <2>5, <2>6, ChangedFacts
  <2> QED
    BY <2>5, <2>7, <2>8, <2>9, <2>10, <2>11
<1> QED
  BY <1>2, <1>3

LEMMA IncFacts ==
    ASSUME TypeOK, NEW c \in Caller, MongoInc(c)
    PROVE  /\ caller' \in [Caller -> Command] /\ OthersKept(c) /\ caller'[c].pc = "move"
           /\ counter' \in [Window -> Int \cup {None}]
           /\ caller'[c].moved = 0 /\ carried' = carried - caller[c].moved /\ carried' \in Int
<1>1. /\ caller[c] \in Command /\ caller[c].window \in Window /\ caller[c].moved \in Int
      /\ UsedIn(caller[c].window) \in Int
  BY CommandFacts, UsedType
<1>2. PICK x : x = [caller[c] EXCEPT !.pc = "move", !.moved = 0]
  OBVIOUS
<1>3. "move" \in Idle \cup Busy /\ 0 \in Int
  BY DEF Busy
<1>4. x \in Command /\ x.pc = "move" /\ x.moved = 0
  BY <1>1, <1>2, <1>3 DEF Command
<1>5. caller' = [caller EXCEPT ![c] = x]
  BY <1>2 DEF MongoInc, TypeOK
<1>6. counter' \in [Window -> Int \cup {None}]
  BY <1>1 DEF MongoInc, TypeOK
<1>7. carried' = carried - caller[c].moved /\ carried' \in Int
  BY <1>1 DEF MongoInc, TypeOK
<1>8. caller' \in [Caller -> Command] /\ OthersKept(c) /\ caller'[c] = x
  BY <1>4, <1>5, ChangedFacts
<1> QED
  BY <1>4, <1>6, <1>7, <1>8

LEMMA MoveFacts ==
    ASSUME TypeOK, NEW c \in Caller, NEW rs, Move(c, rs)
    PROVE  row' \in [Caller -> Reservation]
<1>1. caller[c].window \in Window
  BY CommandFacts
<1>2. \A r \in Caller : [row[r] EXCEPT !.window = caller[c].window] \in Reservation
  BY <1>1 DEF TypeOK, Reservation
<1> QED
  BY <1>2 DEF Move, TypeOK

LEMMA ClaimFacts ==
    ASSUME TypeOK, HoldersHold, NEW c \in Caller, MongoClaimRefund(c)
    PROVE  /\ caller' \in [Caller -> Command] /\ OthersKept(c)
           /\ caller[c].res \in Caller /\ Settle(caller[c].res, "refunded")
           /\ caller'[c].pc = "decrement" /\ caller'[c].res = caller[c].res
           /\ caller'[c].window = row[caller[c].res].window
           /\ caller'[c].cost = row[caller[c].res].cost
           /\ caller'[c].moved = caller[c].moved
<1>1. PICK r \in Caller : r = caller[c].res
  BY DEF MongoClaimRefund, Mongo, At, HoldersHold
<1>2. PICK x : x = [caller[c] EXCEPT !.pc = "decrement", !.window = row[r].window, !.cost = row[r].cost]
  OBVIOUS
<1>3. "decrement" \in Idle \cup Busy
  BY DEF Busy
<1>4. row[r].window \in Window /\ row[r].cost \in Cost \cup {0} /\ caller[c] \in Command
  BY DEF TypeOK, Reservation
<1>5. x \in Command
  BY <1>2, <1>3, <1>4 DEF Command
<1>6. /\ x.pc = "decrement" /\ x.window = row[r].window /\ x.cost = row[r].cost /\ x.res = r
      /\ x.moved = caller[c].moved
  BY <1>1, <1>2, <1>4 DEF Command
<1>7. caller' = [caller EXCEPT ![c] = x]
  BY <1>1, <1>2 DEF MongoClaimRefund, TypeOK
<1> QED
  BY <1>1, <1>5, <1>6, <1>7, ChangedFacts DEF MongoClaimRefund

LEMMA MongoType ==
    ASSUME TypeOK, HoldersHold, NEW c \in Caller, MongoStep(c) PROVE TypeOK'
<1>1. UNCHANGED <<backend, window, lock, reset>>
  BY DEF MongoStep, MongoScan, MongoTake, MongoInc, MongoMove, MongoFind, MongoUpsertCounter,
     MongoInsert, MongoFindWinner, MongoCharge, MongoRelease, MongoClaimRefund, MongoDecrement,
     MongoCrash
<1>2. /\ caller[c].window \in Window /\ UsedIn(caller[c].window) \in Int /\ caller[c].cost \in Nat
      /\ Reserved(c) \in Reservation /\ NoRow \in Reservation
  BY CommandFacts, UsedType, Records
<1>3. {"take", "counter", "insert", "again", "charge", "release", "no_winner"} \subseteq Idle \cup Busy
  BY DEF Idle, Busy
<1>4. counter \in [Window -> Int \cup {None}] /\ row \in [Caller -> Reservation] /\ fault \in BOOLEAN
  BY DEF TypeOK
<1>5. CASE MongoScan(c)
  <2>1. caller' \in [Caller -> Command]
    BY <1>3, <1>5, MigratedFacts, GotoFacts DEF MongoScan
  <2> QED
    BY <1>1, <1>4, <1>5, <2>1 DEF MongoScan, TypeOK
<1>6. CASE MongoTake(c)
  BY <1>1, <1>4, <1>6, TakeFacts DEF MongoTake, TypeOK
<1>7. CASE MongoInc(c)
  BY <1>1, <1>4, <1>7, IncFacts DEF MongoInc, TypeOK
<1>8. CASE MongoMove(c)
  <2>1. caller' \in [Caller -> Command]
    BY <1>8, MigratedFacts, EndFacts DEF MongoMove
  <2>2. row' \in [Caller -> Reservation]
    BY <1>8, MoveFacts DEF MongoMove
  <2>3. fault' \in BOOLEAN /\ UNCHANGED <<counter, carried>>
    BY <1>4, <1>8 DEF MongoMove
  <2> QED
    BY <1>1, <1>4, <2>1, <2>2, <2>3 DEF TypeOK
<1>9. CASE MongoFind(c)
  <2>1. caller' \in [Caller -> Command]
    BY <1>3, <1>9, GotoFacts, HandFacts, EndFacts, IdempotentRows DEF MongoFind, MongoHand
  <2>2. fault' \in BOOLEAN
    BY <1>4, <1>9 DEF MongoFind, MongoHand
  <2> QED
    BY <1>1, <1>4, <1>9, <2>1, <2>2 DEF MongoFind, TypeOK
<1>10. CASE MongoUpsertCounter(c)
  <2>1. caller' \in [Caller -> Command]
    BY <1>3, <1>10, GotoFacts DEF MongoUpsertCounter
  <2>2. counter' \in [Window -> Int \cup {None}]
    BY <1>2, <1>4, <1>10 DEF MongoUpsertCounter
  <2> QED
    BY <1>1, <1>4, <1>10, <2>1, <2>2 DEF MongoUpsertCounter, TypeOK
<1>11. CASE MongoInsert(c)
  <2>1. caller' \in [Caller -> Command]
    BY <1>3, <1>11, GotoFacts DEF MongoInsert
  <2>2. row' \in [Caller -> Reservation]
    BY <1>2, <1>4, <1>11 DEF MongoInsert
  <2> QED
    BY <1>1, <1>4, <1>11, <2>1, <2>2 DEF MongoInsert, TypeOK
<1>12. CASE MongoFindWinner(c)
  <2>1. caller' \in [Caller -> Command]
    BY <1>3, <1>12, GotoFacts, HandFacts, EndFacts, IdempotentRows DEF MongoFindWinner, MongoHand
  <2>2. fault' \in BOOLEAN
    BY <1>4, <1>12 DEF MongoFindWinner, MongoHand
  <2> QED
    BY <1>1, <1>4, <1>12, <2>1, <2>2 DEF MongoFindWinner, TypeOK
<1>13. CASE MongoCharge(c)
  <2>1. caller' \in [Caller -> Command]
    BY <1>3, <1>13, GotoFacts, HandFacts DEF MongoCharge
  <2>2. counter' \in [Window -> Int \cup {None}]
    BY <1>2, <1>4, <1>13 DEF MongoCharge
  <2> QED
    BY <1>1, <1>4, <1>13, <2>1, <2>2 DEF MongoCharge, TypeOK
<1>14. CASE MongoRelease(c)
  <2>1. caller' \in [Caller -> Command]
    BY <1>14, EndFacts DEF MongoRelease
  <2>2. row' \in [Caller -> Reservation]
    BY <1>2, <1>4, <1>14 DEF MongoRelease
  <2> QED
    BY <1>1, <1>4, <1>14, <2>1, <2>2 DEF MongoRelease, TypeOK
<1>15. CASE MongoClaimRefund(c)
  <2>1. row' \in [Caller -> Reservation]
    BY <1>15, ClaimFacts, SettleFacts
  <2>2. fault' \in BOOLEAN
    BY <1>15 DEF MongoClaimRefund
  <2> QED
    <3>1. caller' \in [Caller -> Command]
      BY <1>15, ClaimFacts
    <3>2. UNCHANGED <<counter, carried>>
      BY <1>15 DEF MongoClaimRefund
    <3> QED
      BY <1>1, <1>4, <2>1, <2>2, <3>1, <3>2 DEF TypeOK
<1>16. CASE MongoDecrement(c)
  <2>1. caller' \in [Caller -> Command]
    BY <1>16, HandFacts DEF MongoDecrement, Mongo, At, HoldersHold
  <2>2. counter' \in [Window -> Int \cup {None}]
    BY <1>2, <1>4, <1>16 DEF MongoDecrement
  <2>3. fault' \in BOOLEAN
    BY <1>4, <1>16 DEF MongoDecrement
  <2> QED
    BY <1>1, <1>4, <1>16, <2>1, <2>2, <2>3 DEF MongoDecrement, TypeOK
<1>17. CASE MongoCrash(c)
  <2>1. caller' \in [Caller -> Command]
    BY <1>17, EndFacts DEF MongoCrash
  <2>2. fault' \in BOOLEAN
    BY <1>17 DEF MongoCrash
  <2> QED
    BY <1>1, <1>4, <1>17, <2>1, <2>2 DEF MongoCrash, TypeOK
<1> QED
  BY <1>5, <1>6, <1>7, <1>8, <1>9, <1>10, <1>11, <1>12, <1>13, <1>14, <1>15, <1>16, <1>17
     DEF MongoStep

LEMMA ResetType ==
    ASSUME TypeOK,
           \/ MemoryReset \/ MemoryClose \/ PgResetStart \/ PgResetCommit
           \/ MongoResetRows \/ MongoResetCounters \/ ChangePolicy
    PROVE  TypeOK' /\ UNCHANGED caller
<1>1. UNCHANGED <<caller, lock, carried>>
  BY DEF MemoryReset, MemoryClose, PgResetStart, PgResetCommit, MongoResetRows, MongoResetCounters,
     ChangePolicy
<1>2. NoRow \in Reservation
  BY Records
<1>3. row' \in [Caller -> Reservation]
  BY <1>2 DEF MemoryReset, MemoryClose, PgResetStart, PgResetCommit, MongoResetRows,
     MongoResetCounters, ChangePolicy, TypeOK
<1>4. counter' \in [Window -> Int \cup {None}]
  BY DEF MemoryReset, MemoryClose, PgResetStart, PgResetCommit, MongoResetRows,
     MongoResetCounters, ChangePolicy, TypeOK
<1>5. fault' \in BOOLEAN
  <2>1. CASE PgResetCommit
    BY <2>1 DEF PgResetCommit
  <2>2. CASE MongoResetRows
    BY <2>2 DEF MongoResetRows
  <2> QED
    BY <2>1, <2>2 DEF MemoryReset, MemoryClose, PgResetStart, MongoResetCounters, ChangePolicy, TypeOK
<1>6. reset' \in [on : BOOLEAN, rows : SUBSET Caller]
  <2>1. reset \in [on : BOOLEAN, rows : SUBSET Caller] /\ TRUE \in BOOLEAN /\ FALSE \in BOOLEAN
        /\ {} \in SUBSET Caller
    BY DEF TypeOK
  <2>2. CASE PgResetStart
    <3>1. {r \in Caller : row[r] # NoRow} \in SUBSET Caller
      OBVIOUS
    <3> QED
      BY <2>1, <2>2, <3>1 DEF PgResetStart
  <2>3. CASE PgResetCommit
    BY <2>1, <2>3 DEF PgResetCommit
  <2>4. CASE MongoResetRows
    BY <2>1, <2>4 DEF MongoResetRows
  <2>5. CASE MongoResetCounters
    BY <2>1, <2>5 DEF MongoResetCounters
  <2> QED
    BY <2>1, <2>2, <2>3, <2>4, <2>5 DEF MemoryReset, MemoryClose, ChangePolicy
<1>7. backend' \in {"memory", "postgres", "mongo", "closed"} /\ window' \in Window
  BY DEF MemoryReset, MemoryClose, PgResetStart, PgResetCommit, MongoResetRows,
     MongoResetCounters, ChangePolicy, TypeOK, Window
<1> QED
  BY <1>1, <1>3, <1>4, <1>5, <1>6, <1>7 DEF TypeOK

LEMMA BeginType ==
    ASSUME TypeOK, NEW c \in Caller, NEW op \in {"reserve", "usage"}, NEW cost \in Cost \cup {0},
           NEW key \in Key \cup {None}, Begin(c, op, cost, key)
    PROVE  TypeOK'
<1>1. caller' \in [Caller -> Command]
  BY BeginFacts
<1>2. fault' \in BOOLEAN
  BY DEF Begin
<1> QED
  BY <1>1, <1>2 DEF Begin, TypeOK

-----------------------------------------------------------------------------
(* The Postgres store *)

\* Who inserts, or looks for the winner of a conflict, locks the counter, and
\* under the lock the winner's row stays.
Winner(c) ==
    /\ ~At(c, "no_winner")
    /\ caller[c].pc \in {"insert", "again"} => lock = c
    /\ At(c, "again") => Idempotent(c) # {}

PgSound == backend = "postgres" => \A c \in Caller : Winner(c)

\* The rows under a command stay while rows are only added or settled.
LEMMA IdempotentKept ==
    ASSUME NEW d \in Caller, caller'[d] = caller[d], Idempotent(d) # {},
           \A r \in Caller : row[r].status # "absent" =>
               /\ row'[r].status # "absent" /\ row'[r].window = row[r].window
               /\ row'[r].key = row[r].key
    PROVE  Idempotent(d)' # {}
<1>1. PICK r \in Idempotent(d) : TRUE
  OBVIOUS
<1>2. r \in Idempotent(d)'
  BY <1>1 DEF Idempotent
<1> QED
  BY <1>2

LEMMA PgKept ==
    ASSUME TypeOK, PgSound, NEW c \in Caller, PgStep(c) PROVE PgSound'
<1> SUFFICES ASSUME NEW d \in Caller PROVE Winner(d)'
  BY DEF PgSound
<1>1. backend = "postgres" /\ Winner(c) /\ Winner(d)
  BY DEF PgSound, PgStep, PgFind, PgEnsureCounter, PgInsert, PgFindWinner, PgAbort, Postgres
<1>2. {"counter", "insert", "again", "no_winner"} \subseteq Idle \cup Busy
  BY DEF Idle, Busy
<1>3. c # None /\ d # None
  BY QuotaAssumption
<1>4. CASE PgFind(c)
  <2>1. OthersKept(c) /\ caller'[c].pc \in {"holding", "idle", "counter"} /\ UNCHANGED <<row, lock>>
    BY <1>2, <1>4, GotoFacts, HandFacts, EndFacts, IdempotentRows DEF PgFind
  <2>2. CASE d = c
    BY <2>1, <2>2 DEF Winner, At
  <2>3. CASE d # c
    <3>1. caller'[d] = caller[d]
      BY <2>1, <2>3 DEF OthersKept
    <3>2. Idempotent(d)' = Idempotent(d)
      BY <2>1, <3>1 DEF Idempotent
    <3> QED
      BY <1>1, <2>1, <3>1, <3>2 DEF Winner, At
  <2> QED
    BY <2>2, <2>3
<1>5. CASE PgEnsureCounter(c)
  <2>1. /\ OthersKept(c) /\ caller'[c].pc = "insert" /\ row' = row
        /\ lock = None /\ lock' = c
    BY <1>2, <1>5, GotoFacts DEF PgEnsureCounter
  <2>2. CASE d = c
    BY <2>1, <2>2 DEF Winner, At
  <2>3. CASE d # c
    <3>1. caller'[d] = caller[d]
      BY <2>1, <2>3 DEF OthersKept
    <3>2. caller[d].pc \notin {"insert", "again"}
      BY <1>1, <1>3, <2>1 DEF Winner
    <3> QED
      BY <1>1, <3>1, <3>2 DEF Winner, At
  <2> QED
    BY <2>2, <2>3
<1>6. CASE PgInsert(c)
  <2>1. caller[c].pc = "insert" /\ lock = c
    BY <1>1, <1>6 DEF PgInsert, Postgres, At, Winner
  <2>2. d # c => caller[d].pc \notin {"insert", "again"}
    BY <1>1, <2>1 DEF Winner
  <2>3. CASE Idempotent(c) # {} /\ Goto(c, "again") /\ UNCHANGED <<row, lock>>
    <3>1. /\ OthersKept(c) /\ caller'[c].pc = "again" /\ caller'[c].window = caller[c].window
          /\ caller'[c].key = caller[c].key
      BY <1>2, <2>3, GotoFacts
    <3>2. Idempotent(c)' # {}
      BY <2>3, <3>1 DEF Idempotent
    <3> QED
      BY <1>1, <2>1, <2>2, <2>3, <3>1, <3>2 DEF Winner, At, OthersKept
  <2>4. CASE Hand(c, c) \/ End(c)
    <3>1. OthersKept(c) /\ caller'[c].pc \in {"holding", "idle"}
      BY <2>4, HandFacts, EndFacts
    <3> QED
      BY <1>1, <2>2, <3>1 DEF Winner, At, OthersKept
  <2> QED
    BY <1>6, <2>3, <2>4 DEF PgInsert
<1>7. CASE PgFindWinner(c)
  <2>1. caller[c].pc = "again" /\ lock = c /\ Idempotent(c) # {}
    BY <1>1, <1>7 DEF PgFindWinner, Postgres, At, Winner
  <2>2. d # c => caller[d].pc \notin {"insert", "again"}
    BY <1>1, <2>1 DEF Winner
  <2>3. OthersKept(c) /\ caller'[c].pc = "holding"
    BY <1>7, <2>1, HandFacts, IdempotentRows DEF PgFindWinner
  <2> QED
    BY <1>1, <2>2, <2>3 DEF Winner, At, OthersKept
<1>8. CASE PgAbort(c)
  <2>1. OthersKept(c) /\ caller'[c].pc = "idle" /\ row' = row /\ Unlock(c)
    BY <1>8, EndFacts DEF PgAbort
  <2>2. CASE d = c
    BY <2>1, <2>2 DEF Winner, At
  <2>3. CASE d # c
    <3>1. caller'[d] = caller[d] /\ (lock = d => lock' = d)
      BY <2>1, <2>3 DEF OthersKept, Unlock
    <3>2. Idempotent(d)' = Idempotent(d)
      BY <2>1, <3>1 DEF Idempotent
    <3> QED
      BY <1>1, <3>1, <3>2 DEF Winner, At
  <2> QED
    BY <2>2, <2>3
<1> QED
  BY <1>4, <1>5, <1>6, <1>7, <1>8 DEF PgStep

LEMMA PgSettlingKept ==
    ASSUME TypeOK, HoldersHold, PgSound, NEW c \in Caller, Finalize(c) \/ Refund(c)
    PROVE  PgSound'
<1> SUFFICES ASSUME backend = "postgres", NEW d \in Caller PROVE Winner(d)'
  BY DEF PgSound, Finalize, Refund
<1>1. UNCHANGED <<backend, caller, lock>> /\ Winner(d)
  BY DEF Finalize, Refund, PgSound
<1>2. PICK r \in Caller : r = caller[c].res
  BY DEF Finalize, Refund, At, HoldersHold
<1>3. Settle(r, "finalized") \/ Settle(r, "refunded")
  BY <1>2 DEF Finalize, Refund
<1>4. \A q \in Caller : row[q].status # "absent" =>
               /\ row'[q].status # "absent" /\ row'[q].window = row[q].window
               /\ row'[q].key = row[q].key
  BY <1>3, SettleFacts
<1>5. Idempotent(d) # {} => Idempotent(d)' # {}
  BY <1>1, <1>4, IdempotentKept
<1> QED
  BY <1>1, <1>5 DEF Winner, At

LEMMA PgResetKept ==
    ASSUME PgSound, PgResetStart \/ PgResetCommit PROVE PgSound'
<1> SUFFICES ASSUME NEW d \in Caller PROVE Winner(d)'
  BY DEF PgSound
<1>1. Winner(d) /\ caller' = caller /\ lock' = lock
  BY DEF PgSound, PgResetStart, PgResetCommit
<1>2. CASE PgResetStart
  <2>1. Idempotent(d)' = Idempotent(d)
    BY <1>1, <1>2 DEF PgResetStart, Idempotent
  <2> QED
    BY <1>1, <2>1 DEF Winner, At
<1>3. CASE PgResetCommit
  <2>1. caller[d].pc \notin {"insert", "again"}
    BY <1>1, <1>3, QuotaAssumption DEF PgResetCommit, Winner
  <2> QED
    BY <1>1, <2>1 DEF Winner, At
<1> QED
  BY <1>2, <1>3

LEMMA PgBeginKept ==
    ASSUME TypeOK, PgSound, NEW c \in Caller, NEW op \in {"reserve", "usage"},
           NEW cost \in Cost \cup {0}, NEW key \in Key \cup {None}, Begin(c, op, cost, key)
    PROVE  PgSound'
<1> SUFFICES ASSUME backend = "postgres", NEW d \in Caller PROVE Winner(d)'
  BY DEF PgSound, Begin
<1>1. Winner(d) /\ UNCHANGED <<row, lock>>
  BY DEF PgSound, Begin
<1>2. OthersKept(c) /\ caller'[c].pc = "find"
  BY BeginFacts
<1>3. CASE d = c
  BY <1>2, <1>3 DEF Winner, At
<1>4. CASE d # c
  <2>1. caller'[d] = caller[d]
    BY <1>2, <1>4 DEF OthersKept
  <2>2. Idempotent(d)' = Idempotent(d)
    BY <1>1, <2>1 DEF Idempotent
  <2> QED
    BY <1>1, <2>1, <2>2 DEF Winner, At
<1> QED
  BY <1>3, <1>4

-----------------------------------------------------------------------------
(* Counters of the memory and the Postgres store: the floor keeps them *)

Floored == backend # "mongo" => \A w \in Window : UsedIn(w) >= 0

\* A counter set to a number that is not negative, or deleted.
LEMMA CounterSet ==
    ASSUME TypeOK, \A w \in Window : UsedIn(w) >= 0, NEW u \in Window, NEW x \in Nat,
           counter' = [counter EXCEPT ![u] = x]
    PROVE  \A w \in Window : UsedIn(w)' >= 0
<1> SUFFICES ASSUME NEW w \in Window PROVE UsedIn(w)' >= 0
  OBVIOUS
<1>1. x # None
  BY QuotaAssumption
<1>2. CASE w = u
  BY <1>1, <1>2 DEF TypeOK, UsedIn
<1>3. CASE w # u
  <2>1. counter'[w] = counter[w]
    BY <1>3 DEF TypeOK
  <2> QED
    BY <2>1 DEF UsedIn
<1> QED
  BY <1>2, <1>3

LEMMA FlooredKept ==
    ASSUME TypeOK, HoldersHold, Floored, NEW c \in Caller,
           MemoryReserve(c) \/ PgStep(c) \/ Finalize(c) \/ Refund(c)
    PROVE  Floored'
<1> SUFFICES ASSUME backend # "mongo" PROVE \A w \in Window : UsedIn(w)' >= 0
  BY DEF Floored, MemoryReserve, PgStep, PgFind, PgEnsureCounter, PgInsert, PgFindWinner, PgAbort,
     Finalize, Refund
<1>1. \A w \in Window : UsedIn(w) >= 0 /\ UsedIn(w) \in Int
  BY UsedType DEF Floored
<1>2. caller[c].window \in Window /\ caller[c].cost \in Nat
  BY CommandFacts
<1>3. UsedIn(caller[c].window) \in Nat /\ UsedIn(caller[c].window) + caller[c].cost \in Nat
  BY <1>1, <1>2
<1>4. CASE counter' = counter
  BY <1>1, <1>4 DEF UsedIn
<1>5. CASE counter' = [counter EXCEPT ![caller[c].window] = UsedIn(caller[c].window)]
  BY <1>1, <1>2, <1>3, <1>5, CounterSet
<1>6. CASE counter' = [counter EXCEPT ![caller[c].window] = UsedIn(caller[c].window) + caller[c].cost]
  BY <1>1, <1>2, <1>3, <1>6, CounterSet
<1>7. CASE Refund(c)
  <2>1. PICK r \in Caller : r = caller[c].res
    BY <1>7 DEF Refund, At, HoldersHold
  <2>2. PICK w \in Window : w = row[r].window
    BY CommandFacts
  <2>3. row[r].cost \in Nat
    BY CommandFacts
  <2>4. counter[w] # None /\ counter[w] \in Int /\ counter[w] = UsedIn(w)
    BY <1>7, <2>1, <2>2 DEF Refund, TypeOK, UsedIn
  <2>5. Decremented(counter[w], row[r].cost) \in Nat
    BY <1>1, <2>3, <2>4 DEF Decremented
  <2>6. counter' = [counter EXCEPT ![w] = Decremented(counter[w], row[r].cost)]
    BY <1>7, <2>1, <2>2 DEF Refund
  <2> QED
    BY <1>1, <2>5, <2>6, CounterSet
<1>8. CASE MemoryReserve(c)
  BY <1>4, <1>5, <1>6, <1>8 DEF MemoryReserve
<1>9. CASE PgStep(c)
  BY <1>4, <1>5, <1>6, <1>9 DEF PgStep, PgFind, PgEnsureCounter, PgInsert, PgFindWinner, PgAbort
<1>10. CASE Finalize(c)
  BY <1>4, <1>10 DEF Finalize
<1> QED
  BY <1>7, <1>8, <1>9, <1>10

LEMMA FlooredResetKept ==
    ASSUME Floored, MemoryReset \/ MemoryClose \/ PgResetStart \/ PgResetCommit
    PROVE  Floored'
  BY DEF Floored, UsedIn, MemoryReset, MemoryClose, PgResetStart, PgResetCommit

-----------------------------------------------------------------------------
(* The Mongo store *)

\* What the refund of a reservation may still take from the counter, and what
\* a refund under way is about to take.
Debt(r) == IF row[r].status = "reserved" /\ ~Uncharged(r) THEN row[r].cost ELSE 0
Pending(c) == IF At(c, "decrement") THEN caller[c].cost ELSE 0

Owed == [c \in Caller |-> Debt(c) + Pending(c)]

\* The counter covers every refund that can still reach it.
Covered == CoveredBy(UsedIn(1), Owed)

Stored == {"charge", "release", "holding", "decrement"}
Charged == {"holding", "decrement"}

\* While the window is the first one there is nothing to migrate.  A row is of
\* a command that is being charged or was, and who holds a reservation holds
\* one that was charged.
Unmoved(c) ==
    /\ caller[c].window = 1 /\ row[c].window = 1
    /\ caller[c].pc \notin {"take", "inc", "move"}
    /\ row[c] # NoRow => caller[c].pc \in Stored
    /\ caller[c].pc \in {"charge", "release"} => row[c].cost = caller[c].cost
    /\ caller[c].pc \in Charged => caller[caller[c].res].pc \in Charged

Wiped == reset.on => \A c \in Caller : row[c] = NoRow /\ caller[c].pc \notin Busy

MongoInv ==
    /\ counter[2] = None
    /\ \A c \in Caller : Unmoved(c)
    /\ Wiped
    /\ Covered

MongoSound == backend = "mongo" /\ ~fault /\ window = 1 => MongoInv

LEMMA Amounts ==
    ASSUME TypeOK
    PROVE  /\ UsedIn(1) \in Int /\ Owed \in [Caller -> Nat]
           /\ \A c \in Caller : Debt(c) \in Nat /\ Pending(c) \in Nat
<1>1. \A c \in Caller : Debt(c) \in Nat /\ Pending(c) \in Nat
  BY CommandFacts DEF Debt, Pending
<1>2. UsedIn(1) \in Int
  BY UsedType DEF Window
<1> QED
  BY <1>1, <1>2 DEF Owed

LEMMA AmountsNext ==
    ASSUME TypeOK'
    PROVE  /\ UsedIn(1)' \in Int /\ Owed' \in [Caller -> Nat]
           /\ \A c \in Caller : Debt(c)' \in Nat /\ Pending(c)' \in Nat
<1>1. \A x \in Cost \cup {0} : x \in Nat
  BY QuotaAssumption
<1>2. \A c \in Caller : row'[c].cost \in Cost \cup {0} /\ caller'[c].cost \in Cost \cup {0}
  BY DEF TypeOK, Reservation, Command
<1>3. \A c \in Caller : Debt(c)' \in Nat /\ Pending(c)' \in Nat
  BY <1>1, <1>2 DEF Debt, Pending
<1>4. UsedIn(1)' \in Int
  BY DEF TypeOK, UsedIn, Window
<1> QED
  BY <1>3, <1>4 DEF Owed

\* A step of c, whose row and command the others do not see change under them.
LEMMA UnmovedKept ==
    ASSUME HoldersHold, NEW c \in Caller, OthersKept(c), \A d \in Caller : Unmoved(d),
           \A d \in Caller \ {c} : /\ row'[d].window = 1 /\ row'[d].cost = row[d].cost
                                   /\ row'[d] # NoRow => row[d] # NoRow,
           Unmoved(c)', caller[c].pc \in Charged => caller'[c].pc \in Charged
    PROVE  \A d \in Caller : Unmoved(d)'
<1> SUFFICES ASSUME NEW d \in Caller, d # c PROVE Unmoved(d)'
  OBVIOUS
<1>1. caller'[d] = caller[d] /\ Unmoved(d)
  BY DEF OthersKept
<1>2. ASSUME caller[d].pc \in Charged PROVE caller'[caller[d].res].pc \in Charged
  <2>1. PICK r \in Caller : r = caller[d].res
    BY <1>2 DEF Charged, HoldersHold
  <2>2. caller[r].pc \in Charged
    BY <1>1, <1>2, <2>1 DEF Unmoved
  <2> QED
    BY <2>1, <2>2 DEF OthersKept
<1> QED
  BY <1>1, <1>2 DEF Unmoved

\* What is owed by callers other than c stays, when their rows do.
LEMMA OwedKept ==
    ASSUME NEW c \in Caller, OthersKept(c), NEW d \in Caller \ {c}, row'[d] = row[d]
    PROVE  Debt(d)' = Debt(d) /\ Pending(d)' = Pending(d)
<1>1. caller'[d] = caller[d]
  BY DEF OthersKept
<1> QED
  BY <1>1 DEF Debt, Pending, Uncharged, At

\* In a step of c that writes no row and no counter, and neither begins nor
\* ends a charge or a refund, everything stays covered.
LEMMA PassingKept ==
    ASSUME TypeOK, TypeOK', HoldersHold, MongoInv, NEW c \in Caller, OthersKept(c),
           UNCHANGED <<row, reset>>, ~reset.on, counter'[2] = None, UsedIn(1)' = UsedIn(1),
           caller[c].pc \notin Stored, caller'[c].pc \notin {"take", "inc", "move"} \cup Stored,
           caller'[c].window = 1
    PROVE  MongoInv'
<1>1. Unmoved(c)'
  BY DEF MongoInv, Unmoved, Stored, Charged
<1>2. \A d \in Caller : Unmoved(d)'
  BY <1>1, UnmovedKept DEF MongoInv, Unmoved, Stored, Charged
<1>3. Wiped'
  BY DEF Wiped
<1>4. \A d \in Caller : Debt(d)' = Debt(d) /\ Pending(d)' = Pending(d)
  <2>1. Debt(c)' = Debt(c) /\ Pending(c)' = Pending(c)
    BY DEF Debt, Pending, Uncharged, At, Stored
  <2> QED
    BY <2>1, OwedKept
<1>5. Covered'
  <2>1. Owed' = Owed
    BY <1>4 DEF Owed
  <2> QED
    BY <2>1 DEF MongoInv, Covered
<1> QED
  BY <1>2, <1>3, <1>5 DEF MongoInv

\* c is handed a reservation it found: unless it was not charged, a fault.
LEMMA HandedKept ==
    ASSUME TypeOK, TypeOK', HoldersHold, MongoInv, NEW c \in Caller, NEW r \in Idempotent(c),
           Hand(c, r), ~Uncharged(r), UNCHANGED <<row, reset>>, ~reset.on, counter' = counter,
           caller[c].pc \notin Stored
    PROVE  MongoInv'
<1>1. r \in Caller /\ row[r] # NoRow
  BY IdempotentRows
<1>2. /\ OthersKept(c) /\ caller'[c].pc = "holding" /\ caller'[c].res = r /\ caller'[c].window = 1
  BY <1>1, HandFacts
<1>3. caller[r].pc \in Charged /\ r # c
  BY <1>1 DEF MongoInv, Unmoved, Stored, Charged, Uncharged
<1>4. caller'[r].pc \in Charged
  BY <1>1, <1>2, <1>3 DEF OthersKept
<1>5. Unmoved(c) /\ row[c] = NoRow
  BY DEF MongoInv, Unmoved
<1>6. Unmoved(c)'
  BY <1>2, <1>4, <1>5 DEF Unmoved, Stored, Charged
<1>7. \A d \in Caller : Unmoved(d)'
  BY <1>2, <1>6, UnmovedKept DEF MongoInv, Unmoved, Stored, Charged
<1>8. Wiped'
  BY DEF Wiped
<1>9. \A d \in Caller : Debt(d)' = Debt(d) /\ Pending(d)' = Pending(d)
  <2>1. Debt(c)' = Debt(c) /\ Pending(c)' = Pending(c)
    BY <1>2 DEF Debt, Pending, Uncharged, At, Stored
  <2> QED
    BY <1>2, <2>1, OwedKept
<1>10. Covered'
  <2>1. Owed' = Owed /\ UsedIn(1)' = UsedIn(1)
    BY <1>9 DEF Owed, UsedIn
  <2> QED
    BY <2>1 DEF MongoInv, Covered
<1> QED
  BY <1>7, <1>8, <1>10 DEF MongoInv

\* The commands before the charge.
LEMMA LookupKept ==
    ASSUME TypeOK, TypeOK', HoldersHold, MongoInv, NEW c \in Caller, ~fault', window = 1,
           MongoScan(c) \/ MongoFind(c) \/ MongoFindWinner(c) \/ MongoUpsertCounter(c)
    PROVE  MongoInv'
<1>1. /\ caller[c].pc \in {"scan", "find", "again", "counter"} /\ caller[c].window = 1
      /\ UNCHANGED <<row, reset>>
  BY DEF MongoScan, MongoFind, MongoFindWinner, MongoUpsertCounter, Mongo, At, MongoInv, Unmoved
<1>2. ~reset.on
  BY <1>1 DEF MongoInv, Wiped, Busy
<1>3. caller[c].pc \notin Stored
  BY <1>1 DEF Stored
<1>4. {"counter", "insert", "no_winner"} \subseteq Idle \cup Busy
  BY DEF Idle, Busy
<1>5. counter[2] = None
  BY DEF MongoInv
<1>6. CASE MongoScan(c)
  <2>1. Other(c) = 2
    BY <1>1 DEF Other
  <2>2. counter' = counter /\ Migrated(c)
    BY <1>5, <1>6, <2>1 DEF MongoScan
  <2>3. OthersKept(c) /\ caller'[c].pc \in {"idle", "find"} /\ caller'[c].window = 1
    BY <1>1, <2>2, MigratedFacts
  <2>4. UsedIn(1)' = UsedIn(1) /\ counter'[2] = None
    BY <1>5, <2>2 DEF UsedIn
  <2> QED
    BY <1>1, <1>2, <1>3, <2>3, <2>4, PassingKept DEF Stored
<1>7. CASE MongoFind(c) \/ MongoFindWinner(c)
  <2>1. counter' = counter
    BY <1>7 DEF MongoFind, MongoFindWinner
  <2>2. UsedIn(1)' = UsedIn(1) /\ counter'[2] = None
    BY <1>5, <2>1 DEF UsedIn
  <2>3. CASE \E r \in Idempotent(c) : MongoHand(c, r)
    <3>1. PICK r \in Idempotent(c) : MongoHand(c, r)
      BY <2>3
    <3>2. CASE counter[row[r].window] = None
      <4>1. OthersKept(c) /\ caller'[c].pc = "idle" /\ caller'[c].window = 1
        BY <3>1, <3>2, EndFacts DEF MongoHand
      <4> QED
        BY <1>1, <1>2, <1>3, <2>2, <4>1, PassingKept DEF Stored
    <3>3. CASE counter[row[r].window] # None
      <4>1. Hand(c, r) /\ ~Uncharged(r)
        BY <3>1, <3>3 DEF MongoHand
      <4> QED
        BY <1>1, <1>2, <1>3, <2>1, <4>1, HandedKept
    <3> QED
      BY <3>2, <3>3
  <2>4. CASE Goto(c, "counter") \/ Goto(c, "no_winner")
    <3>1. OthersKept(c) /\ caller'[c].pc \in {"counter", "no_winner"} /\ caller'[c].window = 1
      BY <1>1, <1>4, <2>4, GotoFacts
    <3> QED
      BY <1>1, <1>2, <1>3, <2>2, <3>1, PassingKept DEF Stored
  <2> QED
    BY <1>7, <2>3, <2>4 DEF MongoFind, MongoFindWinner
<1>8. CASE MongoUpsertCounter(c)
  <2>1. counter' = [counter EXCEPT ![1] = UsedIn(1)]
    BY <1>1, <1>8 DEF MongoUpsertCounter
  <2>2. UsedIn(1) \in Int /\ UsedIn(1) # None
    BY Amounts, QuotaAssumption
  <2>3. UsedIn(1)' = UsedIn(1) /\ counter'[2] = None
    BY <1>5, <2>1, <2>2 DEF UsedIn, TypeOK, Window
  <2>4. OthersKept(c) /\ caller'[c].pc = "insert" /\ caller'[c].window = 1
    BY <1>1, <1>4, <1>8, GotoFacts DEF MongoUpsertCounter
  <2> QED
    BY <1>1, <1>2, <1>3, <2>3, <2>4, PassingKept DEF Stored
<1> QED
  BY <1>6, <1>7, <1>8

LEMMA InsertKept ==
    ASSUME TypeOK, TypeOK', HoldersHold, MongoInv, NEW c \in Caller, MongoInsert(c)
    PROVE  MongoInv'
<1>1. /\ caller[c].pc = "insert" /\ caller[c].window = 1 /\ Unmoved(c)
      /\ UNCHANGED <<counter, reset>> /\ counter[2] = None
  BY DEF MongoInsert, Mongo, At, MongoInv, Unmoved
<1>2. ~reset.on
  BY <1>1 DEF MongoInv, Wiped, Busy
<1>3. {"charge", "again"} \subseteq Idle \cup Busy
  BY DEF Busy
<1>4. UsedIn(1)' = UsedIn(1)
  BY <1>1 DEF UsedIn
<1>5. CASE Idempotent(c) # {}
  <2>1. row' = row /\ OthersKept(c) /\ caller'[c].pc = "again" /\ caller'[c].window = 1
    BY <1>1, <1>3, <1>5, GotoFacts DEF MongoInsert
  <2> QED
    BY <1>1, <1>2, <1>4, <2>1, PassingKept DEF Stored
<1>6. CASE Idempotent(c) = {}
  <2>1. /\ OthersKept(c) /\ caller'[c].pc = "charge" /\ caller'[c].window = 1
        /\ caller'[c].cost = caller[c].cost
    BY <1>1, <1>3, <1>6, GotoFacts DEF MongoInsert
  <2>2. row'[c] = Reserved(c) /\ \A d \in Caller \ {c} : row'[d] = row[d]
    BY <1>6 DEF MongoInsert, TypeOK
  <2>3. row'[c].window = 1 /\ row'[c].cost = caller[c].cost
    BY <1>1, <2>2 DEF Reserved
  <2>4. Unmoved(c)'
    BY <2>1, <2>3 DEF Unmoved, Stored, Charged
  <2>5. \A d \in Caller : Unmoved(d)'
    BY <1>1, <2>1, <2>2, <2>4, UnmovedKept DEF MongoInv, Unmoved, Charged
  <2>6. Debt(c)' = 0 /\ Pending(c)' = 0
    BY <2>1 DEF Debt, Pending, Uncharged, At
  <2>7. \A d \in Caller : Owed'[d] <= Owed[d]
    <3>1. \A d \in Caller \ {c} : Owed'[d] = Owed[d]
      BY <2>1, <2>2, OwedKept DEF Owed
    <3>2. Owed'[c] = 0 /\ \A d \in Caller : Owed[d] \in Nat
      BY <2>6, Amounts DEF Owed
    <3> QED
      BY <3>1, <3>2
  <2>8. Covered'
    BY <1>4, <2>7, Amounts, AmountsNext, CoveredLess DEF MongoInv, Covered
  <2> QED
    BY <1>1, <1>2, <2>5, <2>8 DEF MongoInv, Wiped
<1> QED
  BY <1>5, <1>6

LEMMA ChargeKept ==
    ASSUME TypeOK, TypeOK', HoldersHold, MongoInv, NEW c \in Caller, MongoCharge(c)
    PROVE  MongoInv'
<1>1. /\ caller[c].pc = "charge" /\ caller[c].window = 1 /\ Unmoved(c)
      /\ UNCHANGED <<row, reset>> /\ counter[2] = None /\ row[c].cost = caller[c].cost
  BY DEF MongoCharge, Mongo, At, MongoInv, Unmoved
<1>2. ~reset.on
  BY <1>1 DEF MongoInv, Wiped, Busy
<1>3. Debt(c) = 0 /\ Pending(c) = 0
  BY <1>1 DEF Debt, Pending, Uncharged, At
<1>4. CASE ~(counter[1] # None /\ Admits(c))
  <2>1. "release" \in Idle \cup Busy
    BY DEF Busy
  <2>2. /\ OthersKept(c) /\ caller'[c].pc = "release" /\ caller'[c].window = 1
        /\ caller'[c].cost = caller[c].cost /\ counter' = counter
    BY <1>1, <1>4, <2>1, GotoFacts DEF MongoCharge
  <2>3. Unmoved(c)'
    BY <1>1, <2>2 DEF Unmoved, Stored, Charged
  <2>4. \A d \in Caller : Unmoved(d)'
    BY <1>1, <2>2, <2>3, UnmovedKept DEF MongoInv, Unmoved, Charged
  <2>5. Debt(c)' = 0 /\ Pending(c)' = 0
    BY <2>2 DEF Debt, Pending, Uncharged, At
  <2>6. Owed' = Owed /\ UsedIn(1)' = UsedIn(1)
    BY <1>1, <1>3, <2>2, <2>5, OwedKept DEF Owed, UsedIn
  <2> QED
    BY <1>1, <1>2, <2>2, <2>4, <2>6 DEF MongoInv, Wiped, Covered
<1>5. CASE counter[1] # None /\ Admits(c)
  <2>1. /\ OthersKept(c) /\ caller'[c].pc = "holding" /\ caller'[c].window = 1
        /\ caller'[c].res = c
    BY <1>1, <1>5, HandFacts DEF MongoCharge
  <2>2. counter' = [counter EXCEPT ![1] = counter[1] + caller[c].cost]
    BY <1>1, <1>5 DEF MongoCharge
  <2>3. caller[c].cost \in Nat /\ counter[1] \in Int
    BY <1>5, CommandFacts DEF TypeOK, Window
  <2>4. /\ counter'[1] = counter[1] + caller[c].cost /\ counter'[2] = None
        /\ counter'[1] # None
    BY <1>1, <2>2, <2>3, QuotaAssumption DEF TypeOK, Window
  <2>5. UsedIn(1)' = UsedIn(1) + caller[c].cost
    BY <1>5, <2>4 DEF UsedIn
  <2>6. Unmoved(c)'
    BY <1>1, <2>1 DEF Unmoved, Stored, Charged
  <2>7. \A d \in Caller : Unmoved(d)'
    BY <1>1, <2>1, <2>6, UnmovedKept DEF MongoInv, Unmoved, Charged
  <2>8. Pending(c)' = 0 /\ Debt(c)' <= caller[c].cost
    BY <1>1, <2>1, <2>3 DEF Debt, Pending, Uncharged, At
  <2>9. Owed'[c] <= Owed[c] + caller[c].cost
    <3>1. Owed[c] = 0 /\ Owed'[c] = Debt(c)' + Pending(c)'
      BY <1>3 DEF Owed
    <3>2. Debt(c)' \in Nat
      BY AmountsNext
    <3> QED
      BY <2>3, <2>8, <3>1, <3>2
  <2>10. \A d \in Caller \ {c} : Owed'[d] <= Owed[d]
    <3>1. \A d \in Caller \ {c} : Owed'[d] = Owed[d]
      BY <1>1, <2>1, OwedKept DEF Owed
    <3> QED
      BY <3>1, Amounts
  <2>11. Covered'
    <3>1. CoveredBy(UsedIn(1), Owed)
      BY DEF MongoInv, Covered
    <3>2. PICK y \in Nat : y = caller[c].cost
      BY <2>3
    <3>3. CoveredBy(UsedIn(1) + y, Owed')
      BY <2>9, <2>10, <3>1, <3>2, Amounts, AmountsNext, CoveredCharge
    <3> QED
      BY <2>5, <3>2, <3>3 DEF Covered
  <2> QED
    BY <1>1, <1>2, <2>4, <2>7, <2>11 DEF MongoInv, Wiped
<1> QED
  BY <1>4, <1>5

LEMMA ReleaseKept ==
    ASSUME TypeOK, TypeOK', HoldersHold, MongoInv, NEW c \in Caller, MongoRelease(c)
    PROVE  MongoInv'
<1>1. /\ caller[c].pc = "release" /\ UNCHANGED <<counter, reset>> /\ counter[2] = None
  BY DEF MongoRelease, Mongo, At, MongoInv
<1>2. ~reset.on
  BY <1>1 DEF MongoInv, Wiped, Busy
<1>3. OthersKept(c) /\ caller'[c].pc = "idle" /\ caller'[c].window = 1
  BY EndFacts DEF MongoRelease
<1>4. row'[c] = NoRow /\ \A d \in Caller \ {c} : row'[d] = row[d]
  BY DEF MongoRelease, TypeOK
<1>5. NoRow.window = 1 /\ NoRow.status = "absent"
  BY DEF NoRow
<1>6. Unmoved(c)'
  BY <1>3, <1>4, <1>5 DEF Unmoved, Charged
<1>7. \A d \in Caller : Unmoved(d)'
  BY <1>1, <1>3, <1>4, <1>6, UnmovedKept DEF MongoInv, Unmoved, Charged
<1>8. Debt(c)' = 0 /\ Pending(c)' = 0
  BY <1>3, <1>4, <1>5 DEF Debt, Pending, At
<1>9. \A d \in Caller : Owed'[d] <= Owed[d]
  <2>1. \A d \in Caller \ {c} : Owed'[d] = Owed[d]
    BY <1>3, <1>4, OwedKept DEF Owed
  <2>2. Owed'[c] = 0 /\ \A d \in Caller : Owed[d] \in Nat
    BY <1>8, Amounts DEF Owed
  <2> QED
    BY <2>1, <2>2
<1>10. Covered'
  <2>1. UsedIn(1)' = UsedIn(1)
    BY <1>1 DEF UsedIn
  <2> QED
    BY <1>9, <2>1, Amounts, AmountsNext, CoveredLess DEF MongoInv, Covered
<1> QED
  BY <1>1, <1>2, <1>7, <1>10 DEF MongoInv, Wiped

\* The refund's claim: the reservation's debt becomes the refund's.
LEMMA ClaimKept ==
    ASSUME TypeOK, TypeOK', HoldersHold, MongoInv, NEW c \in Caller, MongoClaimRefund(c)
    PROVE  MongoInv'
<1>1. PICK r \in Caller : r = caller[c].res
  BY ClaimFacts
<1>2. /\ OthersKept(c) /\ Settle(r, "refunded") /\ caller'[c].pc = "decrement"
      /\ caller'[c].res = r /\ caller'[c].window = row[r].window /\ caller'[c].cost = row[r].cost
  BY <1>1, ClaimFacts
<1>3. /\ caller[c].pc = "holding" /\ UNCHANGED <<counter, reset>> /\ counter[2] = None
      /\ Unmoved(c) /\ Unmoved(r)
  BY DEF MongoClaimRefund, Mongo, At, MongoInv
<1>4. /\ \A q \in Caller \ {r} : row'[q] = row[q]
      /\ row[r].status = "reserved" /\ row'[r].status = "refunded" /\ row'[r].cost = row[r].cost
      /\ row'[r].window = row[r].window
  BY <1>2, SettleFacts
<1>5. row[r] # NoRow /\ ~reset.on
  BY <1>4 DEF NoRow, MongoInv, Wiped
<1>6. caller[r].pc \in Charged /\ caller'[r].pc \in Charged
  BY <1>1, <1>2, <1>3 DEF Unmoved, Charged, OthersKept
<1>7. Unmoved(c)'
  <2>1. row'[c].window = 1
    BY <1>3, <1>4 DEF Unmoved
  <2> QED
    BY <1>2, <1>3, <1>6, <2>1 DEF Unmoved, Charged, Stored
<1>8. \A d \in Caller : Unmoved(d)'
  <2>1. \A d \in Caller \ {c} : /\ row'[d].window = 1 /\ row'[d].cost = row[d].cost
                                /\ row'[d] # NoRow => row[d] # NoRow
    BY <1>4, <1>5 DEF MongoInv, Unmoved
  <2> QED
    BY <1>2, <1>7, <2>1, UnmovedKept DEF MongoInv, Charged
<1>9. PICK k \in Nat : k = row[r].cost
  BY CommandFacts
<1>10. Debt(r) = k /\ Debt(r)' = 0
  BY <1>4, <1>6, <1>9 DEF Debt, Uncharged, Charged
<1>11. Pending(c) = 0 /\ Pending(c)' = k
  BY <1>2, <1>3, <1>9 DEF Pending, At
<1>12. \A d \in Caller \ {r} : Debt(d)' = Debt(d)
  <2> SUFFICES ASSUME NEW d \in Caller \ {r} PROVE Debt(d)' = Debt(d)
    OBVIOUS
  <2>1. CASE d = c
    BY <1>2, <1>3, <1>4, <2>1 DEF Debt, Uncharged
  <2>2. CASE d # c
    BY <1>2, <1>4, <2>2 DEF Debt, Uncharged, OthersKept
  <2> QED
    BY <2>1, <2>2
<1>13. \A d \in Caller \ {c} : Pending(d)' = Pending(d)
  BY <1>2 DEF Pending, At, OthersKept
<1>14. Covered'
  <2>1. \A d \in Caller : /\ Debt(d) \in Nat /\ Pending(d) \in Nat
                          /\ Debt(d)' \in Nat /\ Pending(d)' \in Nat
    BY Amounts, AmountsNext
  <2>2. \A d \in Caller : Owed[d] = Debt(d) + Pending(d) /\ Owed'[d] = Debt(d)' + Pending(d)'
    BY DEF Owed
  <2>3. Owed[r] - k \in Nat
    BY <1>10, <2>1, <2>2
  <2>4. PICK e : e = [Owed EXCEPT ![r] = Owed[r] - k]
    OBVIOUS
  <2>5. /\ e \in [Caller -> Nat] /\ e[r] = Owed[r] - k
        /\ \A d \in Caller \ {r} : e[d] = Owed[d]
    BY <2>3, <2>4, Amounts
  <2>6. e[r] + k <= Owed[r] /\ \A d \in Caller \ {r} : e[d] <= Owed[d]
    BY <2>3, <2>5, Amounts
  <2>7. UsedIn(1) \in Int /\ UsedIn(1)' = UsedIn(1) /\ CoveredBy(UsedIn(1) - k, e)
    <3>1. UsedIn(1)' = UsedIn(1)
      BY <1>3 DEF UsedIn
    <3> QED
      BY <2>5, <2>6, <3>1, Amounts, CoveredPay DEF MongoInv, Covered
  <2>8. Owed'[c] <= e[c] + k
    <3>1. CASE c = r
      <4>1. Owed[c] = k /\ Owed'[c] = k
        BY <1>10, <1>11, <2>2, <3>1
      <4>2. e[c] = 0
        BY <2>5, <3>1, <4>1
      <4> QED
        BY <4>1, <4>2
    <3>2. CASE c # r
      BY <1>11, <1>12, <2>1, <2>2, <2>5, <3>2
    <3> QED
      BY <3>1, <3>2
  <2>9. ASSUME NEW d \in Caller \ {c} PROVE Owed'[d] <= e[d]
    <3>1. CASE d = r
      BY <1>10, <1>13, <2>1, <2>2, <2>5, <3>1
    <3>2. CASE d # r
      BY <1>12, <1>13, <2>1, <2>2, <2>5, <3>2
    <3> QED
      BY <3>1, <3>2
  <2>10. UsedIn(1) - k \in Int /\ (UsedIn(1) - k) + k = UsedIn(1)
    BY <2>7
  <2>11. CoveredBy((UsedIn(1) - k) + k, Owed')
    BY <2>5, <2>7, <2>8, <2>9, <2>10, AmountsNext, CoveredCharge
  <2> QED
    BY <2>7, <2>10, <2>11 DEF Covered
<1> QED
  BY <1>3, <1>5, <1>8, <1>14 DEF MongoInv, Wiped

LEMMA DecrementKept ==
    ASSUME TypeOK, TypeOK', HoldersHold, MongoInv, NEW c \in Caller, MongoDecrement(c), ~fault'
    PROVE  MongoInv'
<1>1. /\ caller[c].pc = "decrement" /\ UNCHANGED <<row, reset>> /\ counter[2] = None
      /\ Unmoved(c) /\ caller[c].window = 1
  BY DEF MongoDecrement, Mongo, At, MongoInv, Unmoved
<1>2. ~reset.on
  BY <1>1 DEF MongoInv, Wiped, Busy
<1>3. PICK r \in Caller : r = caller[c].res
  BY <1>1 DEF HoldersHold
<1>4. OthersKept(c) /\ caller'[c].pc = "holding" /\ caller'[c].res = r /\ caller'[c].window = 1
  BY <1>3, HandFacts DEF MongoDecrement
<1>5. PICK k \in Nat : k = caller[c].cost
  BY CommandFacts
<1>6. counter[1] # None /\ counter' = [counter EXCEPT ![1] = counter[1] - k]
  BY <1>1, <1>5 DEF MongoDecrement
<1>7. counter[1] \in Int
  BY <1>6 DEF TypeOK, Window
<1>8. counter'[1] = counter[1] - k /\ counter'[2] = None /\ counter'[1] # None
  BY <1>1, <1>6, <1>7, QuotaAssumption DEF TypeOK, Window
<1>9. UsedIn(1)' = UsedIn(1) - k
  BY <1>6, <1>8 DEF UsedIn
<1>10. caller'[r].pc \in Charged
  BY <1>1, <1>3, <1>4 DEF Unmoved, Charged, OthersKept
<1>11. Unmoved(c)'
  BY <1>1, <1>4, <1>10 DEF Unmoved, Charged, Stored
<1>12. \A d \in Caller : Unmoved(d)'
  BY <1>1, <1>4, <1>11, UnmovedKept DEF MongoInv, Unmoved, Charged
<1>13. Debt(c)' = Debt(c) /\ Pending(c) = k /\ Pending(c)' = 0
  BY <1>1, <1>4, <1>5 DEF Debt, Pending, Uncharged, At
<1>14. Owed'[c] + k <= Owed[c]
  <2>1. Debt(c) \in Nat /\ Owed[c] = Debt(c) + k /\ Owed'[c] = Debt(c) + 0
    BY <1>13, Amounts DEF Owed
  <2> QED
    BY <2>1
<1>15. \A d \in Caller \ {c} : Owed'[d] <= Owed[d]
  <2>1. \A d \in Caller \ {c} : Owed'[d] = Owed[d]
    BY <1>1, <1>4, OwedKept DEF Owed
  <2> QED
    BY <2>1, Amounts
<1>16. Covered'
  <2>1. CoveredBy(UsedIn(1), Owed)
    BY DEF MongoInv, Covered
  <2>2. CoveredBy(UsedIn(1) - k, Owed')
    BY <1>14, <1>15, <2>1, Amounts, AmountsNext, CoveredPay
  <2> QED
    BY <1>9, <2>2 DEF Covered
<1> QED
  BY <1>1, <1>2, <1>8, <1>12, <1>16 DEF MongoInv, Wiped

LEMMA CrashKept ==
    ASSUME TypeOK, TypeOK', HoldersHold, MongoInv, NEW c \in Caller, MongoCrash(c), ~fault'
    PROVE  MongoInv'
<1>1. /\ caller[c].pc \in Busy /\ UNCHANGED <<row, counter, reset>>
      /\ caller[c].pc \notin {"charge", "release", "decrement"}
  BY DEF MongoCrash
<1>2. ~reset.on /\ caller[c].pc \notin Stored /\ counter'[2] = None
  BY <1>1 DEF MongoInv, Wiped, Stored, Busy
<1>3. OthersKept(c) /\ caller'[c].pc = "idle" /\ caller'[c].window = 1
  BY EndFacts DEF MongoCrash
<1>4. UsedIn(1)' = UsedIn(1)
  BY <1>1 DEF UsedIn
<1> QED
  BY <1>1, <1>2, <1>3, <1>4, PassingKept DEF Stored

LEMMA MongoBeginKept ==
    ASSUME TypeOK, TypeOK', HoldersHold, MongoInv, NEW c \in Caller, NEW op \in {"reserve", "usage"},
           NEW cost \in Cost \cup {0}, NEW key \in Key \cup {None}, Begin(c, op, cost, key),
           backend = "mongo", ~fault', window = 1
    PROVE  MongoInv'
<1>1. ~reset.on /\ UNCHANGED <<row, counter, reset>> /\ caller[c].pc \in {"idle", "no_winner"}
  BY DEF Begin
<1>2. OthersKept(c) /\ caller'[c].pc = "scan" /\ caller'[c].window = 1
  BY BeginFacts
<1>3. UsedIn(1)' = UsedIn(1) /\ counter'[2] = None
  BY <1>1 DEF UsedIn, MongoInv
<1> QED
  BY <1>1, <1>2, <1>3, PassingKept DEF Stored

LEMMA FinalizeKept ==
    ASSUME TypeOK, TypeOK', HoldersHold, MongoInv, NEW c \in Caller, Finalize(c)
    PROVE  MongoInv'
<1>1. UNCHANGED <<counter, caller, reset>>
  BY DEF Finalize
<1>2. PICK r \in Caller : r = caller[c].res
  BY DEF Finalize, At, HoldersHold
<1>3. /\ \A q \in Caller \ {r} : row'[q] = row[q]
      /\ row[r].status = "reserved" /\ row'[r].status = "finalized" /\ row'[r].cost = row[r].cost
      /\ row'[r].window = row[r].window
  BY <1>2, SettleFacts DEF Finalize
<1>4. row[r] # NoRow /\ ~reset.on
  BY <1>3 DEF NoRow, MongoInv, Wiped
<1>5. \A d \in Caller : Unmoved(d)'
  <2> SUFFICES ASSUME NEW d \in Caller PROVE Unmoved(d)'
    OBVIOUS
  <2>1. /\ Unmoved(d) /\ row'[d].window = row[d].window /\ row'[d].cost = row[d].cost
        /\ row'[d] # NoRow => row[d] # NoRow
    BY <1>3, <1>4 DEF MongoInv
  <2> QED
    BY <1>1, <2>1 DEF Unmoved
<1>6. \A d \in Caller : Owed'[d] <= Owed[d]
  <2> SUFFICES ASSUME NEW d \in Caller PROVE Owed'[d] <= Owed[d]
    OBVIOUS
  <2>1. Pending(d)' = Pending(d) /\ (Uncharged(d)' <=> Uncharged(d))
    BY <1>1 DEF Pending, At, Uncharged
  <2>2. Debt(d) \in Nat /\ Pending(d) \in Nat
    BY Amounts
  <2>3. Debt(d)' = Debt(d) \/ Debt(d)' = 0
    BY <1>3, <2>1 DEF Debt
  <2>4. Owed'[d] = Debt(d)' + Pending(d)' /\ Owed[d] = Debt(d) + Pending(d)
    BY DEF Owed
  <2> QED
    BY <2>1, <2>2, <2>3, <2>4
<1>7. Covered'
  <2>1. UsedIn(1)' = UsedIn(1)
    BY <1>1 DEF UsedIn
  <2> QED
    BY <1>6, <2>1, Amounts, AmountsNext, CoveredLess DEF MongoInv, Covered
<1> QED
  BY <1>1, <1>4, <1>5, <1>7 DEF MongoInv, Wiped

\* A reset deletes the rows while no command is under way, or it is a fault.
LEMMA MongoResetKept ==
    ASSUME TypeOK, TypeOK', MongoInv, ~fault', MongoResetRows \/ MongoResetCounters
    PROVE  MongoInv'
<1>1. caller' = caller /\ \A c \in Caller : Unmoved(c)
  BY DEF MongoResetRows, MongoResetCounters, MongoInv
<1>2. \A c \in Caller : row'[c] = NoRow /\ caller[c].pc \notin Busy
  BY DEF MongoResetRows, MongoResetCounters, MongoInv, Wiped
<1>3. NoRow.window = 1 /\ NoRow.status = "absent"
  BY DEF NoRow
<1>4. \A c \in Caller : Unmoved(c)'
  <2> SUFFICES ASSUME NEW c \in Caller PROVE Unmoved(c)'
    OBVIOUS
  <2>1. Unmoved(c) /\ caller[c].pc \notin {"charge", "release"} /\ row'[c] = NoRow
    BY <1>1, <1>2 DEF Busy
  <2> QED
    BY <1>1, <1>3, <2>1 DEF Unmoved
<1>5. Wiped'
  BY <1>1, <1>2 DEF Wiped
<1>6. \A c \in Caller : Debt(c)' = 0 /\ Pending(c)' = 0
  BY <1>1, <1>2, <1>3 DEF Debt, Pending, At, Busy
<1>7. UsedIn(1)' \in Nat
  <2>1. UsedIn(1) >= 0 /\ UsedIn(1) \in Int
    BY Amounts, CoveredNat DEF MongoInv, Covered
  <2>2. CASE MongoResetRows
    BY <2>1, <2>2 DEF MongoResetRows, UsedIn
  <2>3. CASE MongoResetCounters
    <3>1. counter'[1] = None
      BY <2>3 DEF MongoResetCounters, Window
    <3> QED
      BY <3>1 DEF UsedIn
  <2> QED
    BY <2>2, <2>3
<1>8. Owed' \in [Caller -> Nat] /\ \A c \in Caller : Owed'[c] = 0
  BY <1>6 DEF Owed
<1>9. Covered'
  BY <1>7, <1>8, CoveredNothing DEF Covered
<1>10. counter'[2] = None
  BY DEF MongoResetRows, MongoResetCounters, MongoInv, Window
<1> QED
  BY <1>4, <1>5, <1>9, <1>10 DEF MongoInv

LEMMA MongoKept ==
    ASSUME TypeOK, TypeOK', HoldersHold, MongoSound, NEW c \in Caller, MongoStep(c)
    PROVE  MongoSound'
<1>1. backend = "mongo" /\ window' = window /\ (fault => fault')
  <2>1. backend = "mongo" /\ window' = window
    BY DEF MongoStep, MongoScan, MongoTake, MongoInc, MongoMove, MongoFind, MongoUpsertCounter,
       MongoInsert, MongoFindWinner, MongoCharge, MongoRelease, MongoClaimRefund, MongoDecrement,
       MongoCrash, Mongo
  <2>2. CASE MongoClaimRefund(c)
    BY <2>1, <2>2 DEF MongoClaimRefund
  <2>3. CASE MongoCrash(c)
    BY <2>1, <2>3 DEF MongoCrash
  <2>4. CASE MongoFind(c) \/ MongoFindWinner(c)
    <3>1. ASSUME NEW r, MongoHand(c, r) PROVE fault => fault'
      BY <3>1 DEF MongoHand
    <3> QED
      BY <2>1, <2>4, <3>1 DEF MongoFind, MongoFindWinner
  <2>5. CASE MongoMove(c) \/ MongoDecrement(c)
    BY <2>1, <2>5 DEF MongoMove, MongoDecrement
  <2> QED
    BY <2>1, <2>2, <2>3, <2>4, <2>5
       DEF MongoStep, MongoScan, MongoTake, MongoInc, MongoUpsertCounter, MongoInsert, MongoCharge,
           MongoRelease
<1> SUFFICES ASSUME ~fault', window = 1 PROVE MongoInv'
  BY <1>1 DEF MongoSound
<1>2. MongoInv
  BY <1>1 DEF MongoSound
<1>3. ~MongoTake(c) /\ ~MongoInc(c) /\ ~MongoMove(c)
  BY <1>2 DEF MongoInv, Unmoved, MongoTake, MongoInc, MongoMove, Mongo, At
<1> QED
  BY <1>2, <1>3, LookupKept, InsertKept, ChargeKept, ReleaseKept, ClaimKept, DecrementKept, CrashKept
     DEF MongoStep

-----------------------------------------------------------------------------
(* The theorems *)

IInv ==
    /\ TypeOK
    /\ HoldersHold
    /\ PgSound
    /\ Floored
    /\ MongoSound

LEMMA InvInit == Init => IInv
<1> SUFFICES ASSUME Init PROVE IInv
  OBVIOUS
<1>1. TypeOK
  <2>1. fault \in BOOLEAN /\ reset \in [on : BOOLEAN, rows : SUBSET Caller]
    BY DEF Init
  <2>2. row \in [Caller -> Reservation] /\ caller \in [Caller -> Command]
    BY Records DEF Init
  <2>3. counter \in [Window -> Int \cup {None}] /\ lock = None /\ window \in Window
    BY DEF Init, Window
  <2>4. backend \in {"memory", "postgres", "mongo", "closed"} /\ carried \in Int
    BY DEF Init
  <2> QED
    BY <2>1, <2>2, <2>3, <2>4 DEF TypeOK
<1>2. \A c \in Caller : caller[c] = Fresh /\ row[c] = NoRow /\ caller[c].pc = "idle"
  BY DEF Init, Fresh
<1>3. HoldersHold /\ PgSound
  BY <1>2 DEF HoldersHold, PgSound, Winner, At
<1>4. \A w \in Window : counter[w] = None
  BY DEF Init
<1>5. Floored /\ UsedIn(1) = 0 /\ counter[2] = None
  BY <1>4 DEF Floored, UsedIn, Window
<1>6. \A c \in Caller : Unmoved(c) /\ Debt(c) = 0 /\ Pending(c) = 0
  BY <1>2 DEF Unmoved, Debt, Pending, At, NoRow, Fresh, Charged
<1>7. Covered
  <2>1. Owed \in [Caller -> Nat] /\ \A c \in Caller : Owed[c] = 0
    BY <1>6 DEF Owed
  <2> QED
    BY <1>5, <2>1, CoveredNothing DEF Covered
<1>8. Wiped
  BY DEF Init, Wiped
<1> QED
  BY <1>1, <1>3, <1>5, <1>6, <1>7, <1>8 DEF IInv, MongoSound, MongoInv

\* Who holds a reservation after a step was handed it, or holds it still.
LEMMA HoldersKept ==
    ASSUME HoldersHold, NEW c \in Caller, OthersKept(c),
           caller'[c].pc \in {"holding", "decrement"} => caller'[c].res \in Caller
    PROVE  HoldersHold'
  BY DEF HoldersHold, OthersKept

LEMMA MongoHolders ==
    ASSUME TypeOK, HoldersHold, NEW c \in Caller, MongoStep(c) PROVE HoldersHold'
<1>1. {"take", "counter", "insert", "again", "charge", "release", "no_winner"} \subseteq Idle \cup Busy
  BY DEF Idle, Busy
<1>2. CASE \E p \in {"take", "counter", "insert", "again", "charge", "release", "no_winner"} : Goto(c, p)
  BY <1>1, <1>2, GotoFacts, HoldersKept
<1>3. CASE \E r \in Caller : Hand(c, r)
  BY <1>3, HandFacts, HoldersKept
<1>4. CASE End(c) \/ Migrated(c)
  BY <1>4, EndFacts, MigratedFacts, HoldersKept
<1>5. CASE MongoTake(c) \/ MongoInc(c)
  BY <1>5, TakeFacts, IncFacts, HoldersKept
<1>6. CASE MongoClaimRefund(c)
  BY <1>6, ClaimFacts, HoldersKept
<1>7. CASE MongoDecrement(c)
  BY <1>3, <1>7 DEF MongoDecrement, Mongo, At, HoldersHold
<1>8. CASE MongoFind(c) \/ MongoFindWinner(c)
  BY <1>2, <1>3, <1>4, <1>8, IdempotentRows DEF MongoFind, MongoFindWinner, MongoHand
<1> QED
  BY <1>2, <1>3, <1>4, <1>5, <1>6, <1>7, <1>8
     DEF MongoStep, MongoScan, MongoMove, MongoUpsertCounter, MongoInsert, MongoCharge, MongoRelease,
         MongoCrash

LEMMA OtherHolders ==
    ASSUME TypeOK, HoldersHold, NEW c \in Caller, MemoryReserve(c) \/ PgStep(c) PROVE HoldersHold'
<1>1. {"counter", "insert", "again", "no_winner"} \subseteq Idle \cup Busy
  BY DEF Idle, Busy
<1>2. CASE \E p \in {"counter", "insert", "again", "no_winner"} : Goto(c, p)
  BY <1>1, <1>2, GotoFacts, HoldersKept
<1>3. CASE \E r \in Caller : Hand(c, r)
  BY <1>3, HandFacts, HoldersKept
<1>4. CASE End(c)
  BY <1>4, EndFacts, HoldersKept
<1> QED
  BY <1>2, <1>3, <1>4, IdempotentRows
     DEF MemoryReserve, PgStep, PgFind, PgEnsureCounter, PgInsert, PgFindWinner, PgAbort

LEMMA InvNext == IInv /\ [Next]_vars => IInv'
<1> SUFFICES ASSUME IInv, [Next]_vars PROVE IInv'
  OBVIOUS
<1>1. TypeOK /\ HoldersHold /\ PgSound /\ Floored /\ MongoSound
  BY DEF IInv
<1>2. ASSUME NEW c \in Caller, NEW op \in {"reserve", "usage"}, NEW cost \in Cost \cup {0},
             NEW key \in Key \cup {None}, Begin(c, op, cost, key)
      PROVE  IInv'
  <2>1. TypeOK'
    BY <1>1, <1>2, BeginType
  <2>2. PgSound'
    BY <1>1, <1>2, PgBeginKept
  <2>3. HoldersHold'
    BY <1>1, <1>2, BeginFacts, HoldersKept
  <2>4. UNCHANGED <<backend, window, counter>> /\ (fault => fault')
    BY <1>2 DEF Begin
  <2>5. Floored'
    BY <1>1, <2>4 DEF Floored, UsedIn
  <2>6. MongoSound'
    BY <1>1, <1>2, <2>1, <2>4, MongoBeginKept DEF MongoSound
  <2> QED
    BY <2>1, <2>2, <2>3, <2>5, <2>6 DEF IInv
<1>3. ASSUME NEW c \in Caller, MemoryReserve(c) PROVE IInv'
  <2>1. backend = "memory" /\ backend' = backend
    BY <1>3 DEF MemoryReserve
  <2> QED
    BY <1>1, <1>3, <2>1, MemoryType, OtherHolders, FlooredKept DEF IInv, PgSound, MongoSound
<1>4. ASSUME NEW c \in Caller, PgStep(c) PROVE IInv'
  <2>1. backend = "postgres" /\ backend' = backend
    BY <1>4 DEF PgStep, PgFind, PgEnsureCounter, PgInsert, PgFindWinner, PgAbort, Postgres
  <2> QED
    BY <1>1, <1>4, <2>1, PgType, OtherHolders, FlooredKept, PgKept DEF IInv, MongoSound
<1>5. ASSUME NEW c \in Caller, MongoStep(c) PROVE IInv'
  <2>1. backend = "mongo" /\ backend' = backend
    BY <1>5 DEF MongoStep, MongoScan, MongoTake, MongoInc, MongoMove, MongoFind, MongoUpsertCounter,
       MongoInsert, MongoFindWinner, MongoCharge, MongoRelease, MongoClaimRefund, MongoDecrement,
       MongoCrash, Mongo
  <2> QED
    BY <1>1, <1>5, <2>1, MongoType, MongoHolders, MongoKept DEF IInv, PgSound, Floored
<1>6. ASSUME NEW c \in Caller, Finalize(c) \/ Refund(c) PROVE IInv'
  <2>1. TypeOK' /\ UNCHANGED <<backend, window, fault, caller>>
    BY <1>1, <1>6, SettlingType DEF Finalize, Refund
  <2>2. MongoSound'
    BY <1>1, <1>6, <2>1, FinalizeKept DEF MongoSound, Refund
  <2>3. HoldersHold'
    BY <1>1, <2>1 DEF HoldersHold
  <2>4. PgSound' /\ Floored'
    BY <1>1, <1>6, PgSettlingKept, FlooredKept
  <2> QED
    BY <2>1, <2>2, <2>3, <2>4 DEF IInv
<1>7. CASE MemoryReset \/ MemoryClose \/ PgResetStart \/ PgResetCommit
  <2>1. TypeOK' /\ caller' = caller
    BY <1>1, <1>7, ResetType
  <2>2. HoldersHold'
    BY <1>1, <2>1 DEF HoldersHold
  <2>3. Floored'
    BY <1>1, <1>7, FlooredResetKept
  <2>4. PgSound'
    <3>1. CASE PgResetStart \/ PgResetCommit
      BY <1>1, <3>1, PgResetKept
    <3>2. CASE MemoryReset \/ MemoryClose
      BY <3>2 DEF PgSound, MemoryReset, MemoryClose
    <3> QED
      BY <1>7, <3>1, <3>2
  <2>5. MongoSound'
    BY <1>7 DEF MongoSound, MemoryReset, MemoryClose, PgResetStart, PgResetCommit
  <2> QED
    BY <2>1, <2>2, <2>3, <2>4, <2>5 DEF IInv
<1>8. CASE MongoResetRows \/ MongoResetCounters
  <2>1. TypeOK' /\ caller' = caller
    BY <1>1, <1>8, ResetType
  <2>2. HoldersHold'
    BY <1>1, <2>1 DEF HoldersHold
  <2>3. backend = "mongo" /\ backend' = backend /\ window' = window /\ (fault => fault')
    <3>1. CASE MongoResetRows
      BY <3>1 DEF MongoResetRows
    <3>2. CASE MongoResetCounters
      BY <3>2 DEF MongoResetCounters
    <3> QED
      BY <1>8, <3>1, <3>2
  <2>4. MongoSound'
    BY <1>1, <1>8, <2>1, <2>3, MongoResetKept DEF MongoSound
  <2> QED
    BY <2>1, <2>2, <2>3, <2>4 DEF IInv, PgSound, Floored
<1>9. CASE ChangePolicy
  <2>1. TypeOK' /\ caller' = caller
    BY <1>1, <1>9, ResetType
  <2>2. HoldersHold'
    BY <1>1, <2>1 DEF HoldersHold
  <2>3. backend = "mongo" /\ backend' = backend /\ window' = 2
    BY <1>9 DEF ChangePolicy
  <2> QED
    BY <2>1, <2>2, <2>3 DEF IInv, PgSound, Floored, MongoSound
<1>10. CASE UNCHANGED vars
  <2>1. UNCHANGED <<backend, window, counter, row, caller, lock, reset, fault, carried>>
    BY <1>10 DEF vars
  <2>2. TypeOK' /\ HoldersHold' /\ Floored'
    BY <1>1, <2>1 DEF TypeOK, HoldersHold, Floored, UsedIn
  <2>3. PgSound'
    BY <1>1, <2>1 DEF PgSound, Winner, At, Idempotent
  <2>4. MongoInv => MongoInv'
    <3>1. Owed' = Owed /\ UsedIn(1)' = UsedIn(1)
      BY <2>1 DEF Owed, Debt, Pending, Uncharged, At, UsedIn
    <3> QED
      BY <2>1, <3>1 DEF MongoInv, Unmoved, Wiped, Covered
  <2> QED
    BY <1>1, <2>1, <2>2, <2>3, <2>4 DEF IInv, MongoSound
<1>11. CASE Next
  <2>1. CASE \E c \in Caller, cost \in Cost, key \in Key \cup {None} : Begin(c, "reserve", cost, key)
    BY <1>2, <2>1
  <2>2. CASE \E c \in Caller : backend = "mongo" /\ Begin(c, "usage", 0, None)
    BY <1>2, <2>2
  <2> QED
    BY <1>3, <1>4, <1>5, <1>6, <1>7, <1>8, <1>9, <1>11, <2>1, <2>2 DEF Next
<1> QED
  BY <1>10, <1>11

\* The inductive invariant: who looks for a conflict's winner locks the counter
\* that keeps the winner, and without a fault the Mongo counter covers every
\* refund that can still reach it.
THEOREM InductiveInvariant == Spec => []IInv
  BY InvInit, InvNext, PTL DEF Spec

\* Every variable keeps its type, in all three stores.
THEOREM TypeCorrect == Spec => []TypeOK
<1>1. IInv => TypeOK
  BY DEF IInv
<1> QED
  BY <1>1, InductiveInvariant, PTL

\* The Postgres store never raises "conflict without a winner", however many
\* callers share a key and however resets and lost connections interleave.
THEOREM WinnerStays == Spec => []ConflictHasWinner
<1>1. IInv => ConflictHasWinner
  BY DEF IInv, PgSound, Winner, ConflictHasWinner
<1> QED
  BY <1>1, InductiveInvariant, PTL

\* No counter becomes negative, for any costs and any number of refunds: the
\* memory and the Postgres store floor it, and the Mongo store, which does not,
\* takes back at most what it charged.
THEOREM CountersStayPositive == Spec => []NeverNegative
<1>1. IInv => NeverNegative
  <2> SUFFICES ASSUME IInv, NEW w \in Window, backend # "mongo" \/ (~fault /\ window = 1)
               PROVE  UsedIn(w) >= 0
    BY DEF NeverNegative
  <2>1. CASE backend # "mongo"
    BY <2>1 DEF IInv, Floored
  <2>2. CASE backend = "mongo"
    <3>1. TypeOK /\ counter[2] = None /\ CoveredBy(UsedIn(1), Owed)
      BY <2>2 DEF IInv, MongoSound, MongoInv, Covered
    <3>2. UsedIn(1) >= 0 /\ UsedIn(2) >= 0
      BY <3>1, Amounts, CoveredNat DEF UsedIn
    <3> QED
      BY <3>2 DEF Window
  <2> QED
    BY <2>1, <2>2
<1> QED
  BY <1>1, InductiveInvariant, PTL

-----------------------------------------------------------------------------
(* Sums.  What migrations carry is a sum of integers: running totals again, *)
(* which stay level along a stretch of callers that carry nothing.          *)

Level(v, i, j, e) == \A k \in (i + 1)..j : v[e[k]] = 0

Adds(v, T, n, e, f) ==
    /\ e \in Bijection(1..n, Caller)
    /\ f \in [0..n -> Int]
    /\ f[0] = 0
    /\ \A i \in 1..n : f[i] = f[i - 1] + v[e[i]]
    /\ \A i, j \in 0..n : i <= j /\ Level(v, i, j, e) => f[i] = f[j]
    /\ f[n] = T

IsSum(v, T) == \E n \in Nat : \E e, f : Adds(v, T, n, e, f)

LEMMA NothingAdds == IsSum(Nothing, 0)
<1>1. PICK n \in Nat : ExistsBijection(1..n, Caller)
  BY FS_CardinalityType, QuotaAssumption
<1>2. PICK e : e \in Bijection(1..n, Caller)
  BY <1>1 DEF ExistsBijection
<1>3. PICK f : f = [i \in 0..n |-> 0]
  OBVIOUS
<1>4. \A i \in 1..n : e[i] \in Caller
  BY <1>2 DEF Bijection, Injection
<1>5. \A i \in 1..n : Nothing[e[i]] = 0 /\ i - 1 \in 0..n
  BY <1>4 DEF Nothing
<1>6. Adds(Nothing, 0, n, e, f)
  BY <1>2, <1>3, <1>5 DEF Adds
<1> QED
  BY <1>6 DEF IsSum

LEMMA ZeroSum ==
    ASSUME NEW v \in [Caller -> Int], NEW T, IsSum(v, T), \A c \in Caller : v[c] = 0
    PROVE  T = 0
<1>1. PICK n \in Nat : \E e, f : Adds(v, T, n, e, f)
  BY DEF IsSum
<1>2. PICK e, f : Adds(v, T, n, e, f)
  BY <1>1
<1>3. \A i \in 1..n : e[i] \in Caller
  BY <1>2 DEF Adds, Bijection, Injection
<1>4. Level(v, 0, n, e)
  BY <1>3 DEF Level
<1>5. 0 \in 0..n /\ n \in 0..n /\ 0 <= n
  OBVIOUS
<1>6. f[0] = f[n] /\ f[0] = 0 /\ f[n] = T
  BY <1>2, <1>4, <1>5 DEF Adds
<1> QED
  BY <1>6

LEMMA SumUpdate ==
    ASSUME NEW v \in [Caller -> Int], NEW T \in Int, IsSum(v, T),
           NEW p \in Caller, NEW x \in Int
    PROVE  IsSum([v EXCEPT ![p] = x], T - v[p] + x)
<1>1. PICK n \in Nat : \E e, f : Adds(v, T, n, e, f)
  BY DEF IsSum
<1>2. PICK e, f : Adds(v, T, n, e, f)
  BY <1>1
<1>3. e \in [1..n -> Caller] /\ f \in [0..n -> Int]
  BY <1>2 DEF Adds, Bijection, Injection
<1>4. PICK q \in 1..n : e[q] = p
  BY <1>2 DEF Adds, Bijection, Surjection
<1>5. \A i \in 1..n : i # q => e[i] # p
  BY <1>2, <1>4 DEF Adds, Bijection, Injection, IsInjective
<1>6. /\ f[0] = 0 /\ f[n] = T /\ v[p] \in Int
      /\ \A i \in 1..n : f[i] = f[i - 1] + v[e[i]]
      /\ \A i, j \in 0..n : i <= j /\ Level(v, i, j, e) => f[i] = f[j]
  BY <1>2 DEF Adds
<1>7. q \in 0..n /\ q - 1 \in 0..n /\ 0 \in 0..n /\ n \in 0..n
  OBVIOUS
<1>8. f[q] = f[q - 1] + v[p] /\ f[q - 1] \in Int /\ f[q] \in Int
  BY <1>3, <1>4, <1>6, <1>7
<1>9. PICK g : g = [i \in 0..n |-> IF i < q THEN f[i] ELSE f[i] - v[p] + x]
  OBVIOUS
<1>11. \A i \in 0..n : /\ i < q => g[i] = f[i]
                       /\ i >= q => g[i] = f[i] - v[p] + x
                       /\ g[i] \in Int /\ f[i] \in Int
  <2> SUFFICES ASSUME NEW i \in 0..n
               PROVE  /\ i < q => g[i] = f[i]
                      /\ i >= q => g[i] = f[i] - v[p] + x
                      /\ g[i] \in Int /\ f[i] \in Int
    OBVIOUS
  <2>1. g[i] = (IF i < q THEN f[i] ELSE f[i] - v[p] + x) /\ f[i] \in Int /\ v[p] \in Int
    BY <1>3, <1>6, <1>9
  <2> QED
    BY ONLY <2>1, i \in 0..n, q \in 1..n, n \in Nat, x \in Int
<1>12. g \in [0..n -> Int]
  BY <1>9, <1>11
<1>13. PICK u : u = [v EXCEPT ![p] = x]
  OBVIOUS
<1>14. u \in [Caller -> Int] /\ u[p] = x /\ \A c \in Caller \ {p} : u[c] = v[c]
  BY <1>13
<1>15. \A i \in 1..n : g[i] = g[i - 1] + u[e[i]]
  <2> SUFFICES ASSUME NEW i \in 1..n PROVE g[i] = g[i - 1] + u[e[i]]
    OBVIOUS
  <2>1. i \in 0..n /\ i - 1 \in 0..n /\ f[i] = f[i - 1] + v[e[i]] /\ e[i] \in Caller
    BY <1>3, <1>6
  <2>2. f[i] \in Int /\ f[i - 1] \in Int /\ v[e[i]] \in Int
    BY <1>3, <2>1
  <2>3. CASE i < q
    <3>1. u[e[i]] = v[e[i]]
      BY <1>5, <1>14, <2>1, <2>3
    <3> QED
      BY <1>11, <2>1, <2>3, <3>1
  <2>4. CASE i = q
    BY <1>4, <1>6, <1>8, <1>11, <1>14, <2>1, <2>4
  <2>5. CASE i > q
    <3>1. u[e[i]] = v[e[i]] /\ i - 1 >= q /\ i >= q
      BY <1>5, <1>14, <2>1, <2>5
    <3> QED
      BY <1>6, <1>11, <2>1, <2>2, <3>1
  <2> QED
    BY <2>3, <2>4, <2>5
<1>16. \A i, j \in 0..n : i <= j /\ Level(u, i, j, e) => g[i] = g[j]
  <2> SUFFICES ASSUME NEW i \in 0..n, NEW j \in 0..n, i <= j, Level(u, i, j, e)
               PROVE  g[i] = g[j]
    OBVIOUS
  <2>1. ASSUME NEW a \in 0..n, NEW b \in 0..n, i <= a, a <= b, b <= j, b < q \/ q <= a
        PROVE  f[a] = f[b]
    <3>1. Level(v, a, b, e)
      <4> SUFFICES ASSUME NEW k \in (a + 1)..b PROVE v[e[k]] = 0
        BY DEF Level
      <4>1. k \in (i + 1)..j /\ k \in 1..n /\ k # q
        BY <2>1
      <4>2. u[e[k]] = 0 /\ e[k] \in Caller /\ e[k] # p
        BY <1>3, <1>5, <4>1 DEF Level
      <4> QED
        BY <1>14, <4>2
    <3> QED
      BY <1>6, <2>1, <3>1
  <2>2. CASE j < q
    <3>1. f[i] = f[j]
      BY <2>1, <2>2
    <3> QED
      BY <1>11, <2>2, <3>1
  <2>3. CASE i >= q
    <3>1. f[i] = f[j]
      BY <2>1, <2>3
    <3> QED
      BY <1>11, <2>3, <3>1
  <2>4. CASE i < q /\ j >= q
    <3>1. f[i] = f[q - 1] /\ f[q] = f[j]
      <4>1. i <= q - 1 /\ q - 1 <= j /\ q - 1 < q
        BY <2>4
      <4>2. f[i] = f[q - 1]
        BY <1>7, <2>1, <4>1
      <4>3. f[q] = f[j]
        BY <1>7, <2>1, <2>4
      <4> QED
        BY <4>2, <4>3
    <3>2. x = 0
      <4>1. q \in (i + 1)..j
        BY <2>4
      <4> QED
        BY <1>4, <1>14, <4>1 DEF Level
    <3>3. g[i] = f[i] /\ g[j] = f[j] - v[p] + x /\ f[j] \in Int
      BY <1>11, <2>4
    <3> QED
      BY <1>6, <1>8, <3>1, <3>2, <3>3
  <2> QED
    BY <2>2, <2>3, <2>4
<1>17. g[0] = 0 /\ g[n] = T - v[p] + x
  BY <1>6, <1>7, <1>11
<1>18. Adds(u, T - v[p] + x, n, e, g)
  BY <1>2, <1>12, <1>15, <1>16, <1>17 DEF Adds
<1> QED
  BY <1>13, <1>18 DEF IsSum

-----------------------------------------------------------------------------
(* The steps of the ledger, in terms of the mapped variables *)

Lasting == (fault => fault') /\ (window' = 1 => window = 1)

HeldElsewhere(r) == \A s \in Caller \ {r} : Held(s)' = Held(s)

NotHeld == [status |-> "none", cost |-> 0, key |-> None]

LEMMA LedgerVoid == ASSUME Lasting, fault' PROVE Ledger!Next
  BY DEF Ledger!Next, Lasting

LEMMA LedgerStays ==
    ASSUME Lasting, \A r \in Caller : Held(r)' = Held(r), Usage' = Usage
    PROVE  Ledger!Next
<1>1. [r \in Caller |-> Held(r)'] = [r \in Caller |-> Held(r)]
  OBVIOUS
<1> QED
  BY <1>1 DEF Ledger!Next, Ledger!Operation, Lasting

LEMMA LedgerReserves ==
    ASSUME Lasting, NEW r \in Caller, HeldElsewhere(r), Held(r) = NotHeld,
           Held(r)'.status = "reserved", Usage' = Usage + Held(r)'.cost,
           window = 1 => /\ Usage' <= Limit
                         /\ \A s \in Caller \ {r} :
                                Held(r)'.key = None \/ Held(s).key # Held(r)'.key
    PROVE  Ledger!Next
<1> DEFINE h == [s \in Caller |-> Held(s)]
           g == [s \in Caller |-> Held(s)']
<1>1. g = [h EXCEPT ![r] = g[r]]
  BY DEF HeldElsewhere
<1>2. Ledger!Reserve(r)
  BY <1>1 DEF Ledger!Reserve, Ledger!NotHeld, NotHeld
<1> QED
  BY <1>2 DEF Ledger!Next, Ledger!Operation, Lasting

LEMMA LedgerFinalizes ==
    ASSUME Lasting, NEW r \in Caller, HeldElsewhere(r), Held(r).status = "reserved",
           Held(r)' = [Held(r) EXCEPT !.status = "finalized"], Usage' = Usage
    PROVE  Ledger!Next
<1> DEFINE h == [s \in Caller |-> Held(s)]
           g == [s \in Caller |-> Held(s)']
<1>1. g = [h EXCEPT ![r] = [h[r] EXCEPT !.status = "finalized"]]
  BY DEF HeldElsewhere
<1>2. Ledger!Finalize(r)
  BY <1>1 DEF Ledger!Finalize
<1> QED
  BY <1>2 DEF Ledger!Next, Ledger!Operation, Lasting

LEMMA LedgerRefunds ==
    ASSUME Lasting, NEW r \in Caller, HeldElsewhere(r), Held(r).status = "reserved",
           Held(r)' = [Held(r) EXCEPT !.status = "refunded"], Usage' = Usage - Held(r).cost
    PROVE  Ledger!Next
<1> DEFINE h == [s \in Caller |-> Held(s)]
           g == [s \in Caller |-> Held(s)']
<1>1. g = [h EXCEPT ![r] = [h[r] EXCEPT !.status = "refunded"]]
  BY DEF HeldElsewhere
<1>2. Ledger!Refund(r)
  BY <1>1 DEF Ledger!Refund
<1> QED
  BY <1>2 DEF Ledger!Next, Ledger!Operation, Lasting

LEMMA LedgerResets ==
    ASSUME Lasting, \A r \in Caller : Held(r)' = NotHeld, Usage' = 0
    PROVE  Ledger!Next
<1>1. [r \in Caller |-> Held(r)'] = [r \in Caller |-> NotHeld]
  OBVIOUS
<1>2. Ledger!Reset
  BY <1>1 DEF Ledger!Reset, Ledger!NotHeld, NotHeld
<1> QED
  BY <1>2 DEF Ledger!Next, Ledger!Operation, Lasting

-----------------------------------------------------------------------------
(* The books: whose reservation each row is, and who may still refund it *)

Booked(c) ==
    /\ row[c].status = "absent" => row[c] = NoRow
    /\ row[c] # NoRow => caller[c].pc \in Stored
    /\ Uncharged(c) => row[c].status = "reserved" /\ row[c].cost = caller[c].cost
    /\ caller[c].pc \in Charged => caller[caller[c].res].pc \in Charged
    /\ At(c, "decrement") => /\ row[caller[c].res].status = "refunded"
                             /\ row[caller[c].res].cost = caller[c].cost

RefundOnce ==
    \A c, d \in Caller :
        At(c, "decrement") /\ At(d, "decrement") /\ caller[c].res = caller[d].res => c = d

\* A key names one row, as long as there is one window.
KeysUnique ==
    \A r, s \in Caller :
        r # s /\ row[r].status # "absent" /\ row[s].status # "absent"
            => row[r].key = None \/ row[r].key # row[s].key

Books ==
    /\ \A c \in Caller : Booked(c)
    /\ RefundOnce
    /\ window = 1 => KeysUnique

\* The two conditions that Held reads.
Refunding(r) == \E c \in Caller : At(c, "decrement") /\ caller[c].res = r

LEMMA HeldFacts ==
    ASSUME NEW r \in Caller
    PROVE  /\ row[r] = NoRow \/ Uncharged(r) => Held(r) = NotHeld
           /\ ~(row[r] = NoRow \/ Uncharged(r)) =>
                Held(r) = [status |-> IF Refunding(r) THEN "reserved" ELSE row[r].status,
                           cost |-> row[r].cost, key |-> row[r].key]
  BY DEF Held, NotHeld, Refunding

LEMMA HeldFactsNext ==
    ASSUME NEW r \in Caller
    PROVE  /\ row'[r] = NoRow \/ Uncharged(r)' => Held(r)' = NotHeld
           /\ ~(row'[r] = NoRow \/ Uncharged(r)') =>
                Held(r)' = [status |-> IF Refunding(r)' THEN "reserved" ELSE row'[r].status,
                            cost |-> row'[r].cost, key |-> row'[r].key]
  BY DEF Held, NotHeld, Refunding

LEMMA HeldSame ==
    ASSUME NEW r \in Caller, row'[r] = row[r], Uncharged(r)' = Uncharged(r),
           Refunding(r)' = Refunding(r)
    PROVE  Held(r)' = Held(r)
  BY DEF Held, Refunding

\* Nobody else's refund begins or ends in a step of c.
LEMMA RefundingKept ==
    ASSUME NEW c \in Caller, OthersKept(c), NEW r,
           (At(c, "decrement") /\ caller[c].res = r) = (At(c, "decrement")' /\ caller'[c].res = r)
    PROVE  Refunding(r)' = Refunding(r)
<1>1. \A d \in Caller : (At(d, "decrement") /\ caller[d].res = r)
                        = (At(d, "decrement")' /\ caller'[d].res = r)
  BY DEF OthersKept, At
<1> QED
  BY <1>1 DEF Refunding

LEMMA UnchargedKept ==
    ASSUME NEW c \in Caller, OthersKept(c), NEW r \in Caller \ {c}
    PROVE  Uncharged(r)' = Uncharged(r)
  BY DEF OthersKept, Uncharged

\* Who holds a reservation that was charged still does after a step of c, if c
\* does when it did.
LEMMA ChargedKept ==
    ASSUME HoldersHold, NEW c \in Caller, OthersKept(c), NEW d \in Caller \ {c}, Booked(d),
           caller[c].pc \in Charged => caller'[c].pc \in Charged
    PROVE  caller'[d].pc \in Charged => caller'[caller'[d].res].pc \in Charged
<1> SUFFICES ASSUME caller'[d].pc \in Charged PROVE caller'[caller'[d].res].pc \in Charged
  OBVIOUS
<1>1. caller'[d] = caller[d]
  BY DEF OthersKept
<1>2. PICK r \in Caller : r = caller[d].res
  BY <1>1 DEF HoldersHold, Charged
<1>3. caller[r].pc \in Charged
  BY <1>1, <1>2 DEF Booked
<1> QED
  BY <1>1, <1>2, <1>3 DEF OthersKept

\* A step of c that writes no row and is no part of a charge or a refund.
LEMMA PassingBooks ==
    ASSUME TypeOK, HoldersHold, Books, NEW c \in Caller, OthersKept(c), UNCHANGED <<row, window>>,
           caller[c].pc \notin Stored, caller'[c].pc \notin {"charge", "release", "decrement"},
           caller'[c].pc = "holding" => /\ caller'[c].res \in Caller
                                        /\ caller[caller'[c].res].pc \in Charged
    PROVE  Books' /\ (\A r \in Caller : Held(r)' = Held(r)) /\ Owed' = Owed
<1>1. row[c] = NoRow
  BY DEF Books, Booked
<1>2. ASSUME NEW d \in Caller PROVE Booked(d)'
  <2>1. CASE d = c
    <3>1. ASSUME caller'[c].pc \in Charged PROVE caller'[caller'[c].res].pc \in Charged
      <4>1. PICK r \in Caller : r = caller'[c].res /\ caller[r].pc \in Charged
        BY <3>1 DEF Charged
      <4>2. r # c
        BY <4>1 DEF Charged, Stored
      <4> QED
        BY <4>1, <4>2 DEF OthersKept
    <3> QED
      BY <1>1, <2>1, <3>1 DEF Booked, Uncharged, At
  <2>2. CASE d # c
    <3>1. Booked(d) /\ caller'[d] = caller[d]
      BY <2>2 DEF Books, OthersKept
    <3>2. caller'[d].pc \in Charged => caller'[caller'[d].res].pc \in Charged
      BY <2>2, <3>1, ChargedKept DEF Charged, Stored
    <3> QED
      BY <3>1, <3>2 DEF Booked, Uncharged, At
  <2> QED
    BY <2>1, <2>2
<1>3. RefundOnce'
  BY DEF Books, RefundOnce, At, OthersKept
<1>4. window' = 1 => KeysUnique'
  BY DEF Books, KeysUnique
<1>5. ASSUME NEW r \in Caller PROVE Held(r)' = Held(r)
  <2>1. Uncharged(r)' = Uncharged(r)
    BY UnchargedKept DEF Uncharged, Stored
  <2>2. Refunding(r)' = Refunding(r)
    BY RefundingKept DEF At, Stored
  <2> QED
    BY <2>1, <2>2, HeldSame
<1>6. Owed' = Owed
  <2>1. Debt(c)' = Debt(c) /\ Pending(c)' = Pending(c)
    BY DEF Debt, Pending, Uncharged, At, Stored
  <2>2. \A d \in Caller : Debt(d)' = Debt(d) /\ Pending(d)' = Pending(d)
    BY <2>1, OwedKept
  <2> QED
    BY <2>2 DEF Owed
<1> QED
  BY <1>2, <1>3, <1>4, <1>5, <1>6 DEF Books

\* Nobody refunds a reservation that was not charged.
LEMMA NotRefunding ==
    ASSUME HoldersHold, Books, NEW r \in Caller, caller[r].pc \notin Charged
    PROVE  ~Refunding(r)
  BY DEF Books, Booked, Refunding, At, Charged

\* A row is inserted for the command of c, which its key does not name yet.
LEMMA InsertedBooks ==
    ASSUME TypeOK, HoldersHold, Books, NEW c \in Caller, OthersKept(c), window' = window,
           row' = [row EXCEPT ![c] = Reserved(c)], Idempotent(c) = {},
           window = 1 => caller[c].window = 1 /\ \A s \in Caller : row[s].window = 1,
           caller[c].pc \notin Stored,
           \/ caller'[c].pc = "charge" /\ caller'[c].cost = caller[c].cost
           \/ caller'[c].pc = "holding" /\ caller'[c].res = c
    PROVE  /\ Books' /\ HeldElsewhere(c) /\ Held(c) = NotHeld
           /\ row'[c] = Reserved(c) /\ \A d \in Caller \ {c} : row'[d] = row[d]
           /\ caller'[c].pc = "charge" => Held(c)' = NotHeld
           /\ caller'[c].pc = "holding" =>
                Held(c)' = [status |-> "reserved", cost |-> caller[c].cost, key |-> caller[c].key]
<1>1. row'[c] = Reserved(c) /\ \A d \in Caller \ {c} : row'[d] = row[d]
  BY DEF TypeOK
<1>2. /\ row'[c].status = "reserved" /\ row'[c].cost = caller[c].cost
      /\ row'[c].key = caller[c].key /\ row'[c].window = caller[c].window
      /\ row'[c] # NoRow
  BY <1>1 DEF Reserved, NoRow
<1>3. row[c] = NoRow /\ ~Refunding(c)
  BY NotRefunding DEF Books, Booked, Charged, Stored
<1>4. ASSUME NEW d \in Caller \ {c}, At(d, "decrement") PROVE caller[d].res # c
  BY <1>4 DEF Books, Booked, At, Charged, Stored
<1>5. ASSUME NEW d \in Caller PROVE Booked(d)'
  <2>1. CASE d = c
    BY <1>2, <2>1 DEF Booked, Uncharged, At, Stored, Charged
  <2>2. CASE d # c
    <3>1. Booked(d) /\ caller'[d] = caller[d] /\ row'[d] = row[d]
      BY <1>1, <2>2 DEF Books, OthersKept
    <3>2. caller'[d].pc \in Charged => caller'[caller'[d].res].pc \in Charged
      BY <2>2, <3>1, ChargedKept DEF Charged, Stored
    <3>3. ASSUME At(d, "decrement")
          PROVE  row'[caller[d].res] = row[caller[d].res]
      <4>1. caller[d].res \in Caller
        BY <3>3 DEF HoldersHold, At
      <4> QED
        BY <1>1, <1>4, <2>2, <3>3, <4>1
    <3> QED
      BY <3>1, <3>2, <3>3 DEF Booked, Uncharged, At
  <2> QED
    BY <2>1, <2>2
<1>6. RefundOnce'
  BY DEF Books, RefundOnce, At, OthersKept
<1>7. ASSUME window' = 1 PROVE KeysUnique'
  <2>1. ASSUME NEW s \in Caller \ {c}, row'[s].status # "absent"
        PROVE  row'[c].key = None \/ row'[c].key # row'[s].key
    <3>1. row[s].status # "absent" /\ row[s].window = caller[c].window /\ row'[s] = row[s]
      BY <1>1, <1>7, <2>1
    <3>2. s \notin Idempotent(c)
      OBVIOUS
    <3> QED
      BY <1>2, <3>1, <3>2 DEF Idempotent
  <2>2. KeysUnique
    BY <1>7 DEF Books
  <2> QED
    BY <1>1, <2>1, <2>2 DEF KeysUnique
<1>8. HeldElsewhere(c)
  <2> SUFFICES ASSUME NEW r \in Caller \ {c} PROVE Held(r)' = Held(r)
    BY DEF HeldElsewhere
  <2>1. Uncharged(r)' = Uncharged(r)
    BY UnchargedKept
  <2>2. Refunding(r)' = Refunding(r)
    BY RefundingKept DEF At, Stored
  <2> QED
    BY <1>1, <2>1, <2>2, HeldSame
<1>9. Held(c) = NotHeld
  BY <1>3, HeldFacts
<1>10. caller'[c].pc = "charge" => Held(c)' = NotHeld
  BY HeldFactsNext DEF Uncharged
<1>11. ASSUME caller'[c].pc = "holding"
       PROVE  Held(c)' = [status |-> "reserved", cost |-> caller[c].cost, key |-> caller[c].key]
  <2>1. ~Uncharged(c)'
    BY <1>11 DEF Uncharged
  <2> QED
    BY <1>2, <2>1, HeldFactsNext
<1> QED
  BY <1>1, <1>5, <1>6, <1>7, <1>8, <1>9, <1>10, <1>11 DEF Books

\* MongoCharge: the reservation of c counts from now on, or is to be released.
LEMMA ChargedBooks ==
    ASSUME TypeOK, HoldersHold, Books, NEW c \in Caller, OthersKept(c), UNCHANGED <<row, window>>,
           caller[c].pc = "charge",
           \/ caller'[c].pc = "release" /\ caller'[c].cost = caller[c].cost
           \/ caller'[c].pc = "holding" /\ caller'[c].res = c
    PROVE  /\ Books' /\ HeldElsewhere(c) /\ Held(c) = NotHeld
           /\ caller'[c].pc = "release" => Held(c)' = NotHeld
           /\ caller'[c].pc = "holding" =>
                Held(c)' = [status |-> "reserved", cost |-> caller[c].cost, key |-> row[c].key]
<1>1. /\ Uncharged(c) /\ row[c].status = "reserved" /\ row[c].cost = caller[c].cost
      /\ row[c] # NoRow
  BY DEF Books, Booked, Uncharged, NoRow
<1>2. ASSUME NEW d \in Caller PROVE Booked(d)'
  <2>1. CASE d = c
    BY <1>1, <2>1 DEF Books, Booked, Uncharged, At, Stored, Charged
  <2>2. CASE d # c
    <3>1. Booked(d) /\ caller'[d] = caller[d]
      BY <2>2 DEF Books, OthersKept
    <3>2. caller'[d].pc \in Charged => caller'[caller'[d].res].pc \in Charged
      BY <2>2, <3>1, ChargedKept DEF Charged
    <3> QED
      BY <3>1, <3>2 DEF Booked, Uncharged, At
  <2> QED
    BY <2>1, <2>2
<1>3. RefundOnce'
  BY DEF Books, RefundOnce, At, OthersKept
<1>4. window' = 1 => KeysUnique'
  BY DEF Books, KeysUnique
<1>5. \A r \in Caller : Refunding(r)' = Refunding(r)
  BY RefundingKept DEF At
<1>6. HeldElsewhere(c)
  BY <1>5, UnchargedKept, HeldSame DEF HeldElsewhere
<1>7. Held(c) = NotHeld
  BY <1>1, HeldFacts
<1>8. caller'[c].pc = "release" => Held(c)' = NotHeld
  BY HeldFactsNext DEF Uncharged
<1>9. ASSUME caller'[c].pc = "holding"
      PROVE  Held(c)' = [status |-> "reserved", cost |-> caller[c].cost, key |-> row[c].key]
  <2>1. ~Uncharged(c)'
    BY <1>9 DEF Uncharged
  <2> QED
    BY <1>1, <2>1, HeldFactsNext
<1> QED
  BY <1>2, <1>3, <1>4, <1>6, <1>7, <1>8, <1>9 DEF Books

\* MongoRelease: a reservation that did not count is deleted.
LEMMA ReleasedBooks ==
    ASSUME TypeOK, HoldersHold, Books, NEW c \in Caller, OthersKept(c), window' = window,
           row' = [row EXCEPT ![c] = NoRow], caller[c].pc = "release", caller'[c].pc = "idle"
    PROVE  Books' /\ \A r \in Caller : Held(r)' = Held(r)
<1>1. row'[c] = NoRow /\ \A d \in Caller \ {c} : row'[d] = row[d]
  BY DEF TypeOK
<1>2. ASSUME NEW d \in Caller \ {c}, At(d, "decrement") PROVE caller[d].res # c
  BY <1>2 DEF Books, Booked, At, Charged
<1>3. ASSUME NEW d \in Caller PROVE Booked(d)'
  <2>1. CASE d = c
    BY <1>1, <2>1 DEF Booked, Uncharged, At, Charged
  <2>2. CASE d # c
    <3>1. Booked(d) /\ caller'[d] = caller[d] /\ row'[d] = row[d]
      BY <1>1, <2>2 DEF Books, OthersKept
    <3>2. caller'[d].pc \in Charged => caller'[caller'[d].res].pc \in Charged
      BY <2>2, <3>1, ChargedKept DEF Charged
    <3>3. ASSUME At(d, "decrement")
          PROVE  row'[caller[d].res] = row[caller[d].res]
      <4>1. caller[d].res \in Caller
        BY <3>3 DEF HoldersHold, At
      <4> QED
        BY <1>1, <1>2, <2>2, <3>3, <4>1
    <3> QED
      BY <3>1, <3>2, <3>3 DEF Booked, Uncharged, At
  <2> QED
    BY <2>1, <2>2
<1>4. RefundOnce'
  BY DEF Books, RefundOnce, At, OthersKept
<1>5. window' = 1 => KeysUnique'
  <2>1. \A d \in Caller : row'[d].status # "absent" => row'[d] = row[d]
    BY <1>1 DEF NoRow
  <2> QED
    BY <2>1 DEF Books, KeysUnique
<1>6. \A r \in Caller : Refunding(r)' = Refunding(r)
  BY RefundingKept DEF At
<1>7. \A r \in Caller \ {c} : Held(r)' = Held(r)
  BY <1>1, <1>6, UnchargedKept, HeldSame
<1>8. Held(c) = NotHeld /\ Held(c)' = NotHeld
  BY <1>1, HeldFacts, HeldFactsNext DEF Uncharged
<1> QED
  BY <1>3, <1>4, <1>5, <1>7, <1>8 DEF Books

\* A reserved row has no refund under way, so its reservation counts as such.
LEMMA ReservedHeld ==
    ASSUME HoldersHold, Books, NEW r \in Caller, row[r].status = "reserved", ~Uncharged(r)
    PROVE  /\ ~Refunding(r)
           /\ Held(r) = [status |-> "reserved", cost |-> row[r].cost, key |-> row[r].key]
<1>1. ~Refunding(r)
  BY DEF Books, Booked, Refunding
<1>2. row[r] # NoRow
  BY DEF NoRow
<1> QED
  BY <1>1, <1>2, HeldFacts

\* finalize, and refund of the memory and the Postgres store.
LEMMA SettledBooks ==
    ASSUME TypeOK, HoldersHold, Books, NEW r \in Caller, NEW s \in {"finalized", "refunded"},
           Settle(r, s), UNCHANGED <<caller, window>>, caller[r].pc \in Charged
    PROVE  /\ Books' /\ HeldElsewhere(r) /\ Held(r).status = "reserved"
           /\ Held(r).cost = row[r].cost
           /\ Held(r)' = [Held(r) EXCEPT !.status = s]
<1>1. /\ row[r].status = "reserved" /\ \A q \in Caller \ {r} : row'[q] = row[q]
      /\ row'[r].status = s /\ row'[r].cost = row[r].cost /\ row'[r].key = row[r].key
  BY SettleFacts
<1>2. ~Uncharged(r) /\ ~Uncharged(r)'
  BY DEF Uncharged, Charged
<1>3. /\ ~Refunding(r)
      /\ Held(r) = [status |-> "reserved", cost |-> row[r].cost, key |-> row[r].key]
  BY <1>1, <1>2, ReservedHeld
<1>4. \A q \in Caller : Refunding(q)' = Refunding(q) /\ Uncharged(q)' = Uncharged(q)
  BY DEF Refunding, Uncharged, At
<1>5. ASSUME NEW d \in Caller PROVE Booked(d)'
  <2>1. Booked(d)
    BY DEF Books
  <2>2. d = r \/ row'[d] = row[d]
    BY <1>1
  <2>3. ASSUME At(d, "decrement") PROVE row'[caller[d].res] = row[caller[d].res]
    <3>1. caller[d].res # r /\ caller[d].res \in Caller
      BY <1>3, <2>3 DEF Refunding, HoldersHold, At
    <3> QED
      BY <1>1, <3>1
  <2>4. row'[d].status = "absent" => row'[d] = NoRow
    BY <1>1, <2>1, <2>2 DEF Booked
  <2>5. row'[d] # NoRow => caller'[d].pc \in Stored
    BY <2>1, <2>2 DEF Booked, Charged, Stored
  <2>6. Uncharged(d)' => row'[d].status = "reserved" /\ row'[d].cost = caller'[d].cost
    BY <1>2, <2>1, <2>2 DEF Booked, Uncharged
  <2> QED
    BY <2>1, <2>3, <2>4, <2>5, <2>6 DEF Booked, At
<1>6. RefundOnce'
  BY DEF Books, RefundOnce, At
<1>7. window' = 1 => KeysUnique'
  <2>1. \A q \in Caller : /\ row'[q].key = row[q].key
                          /\ row'[q].status # "absent" => row[q].status # "absent"
    BY <1>1
  <2> QED
    BY <2>1 DEF Books, KeysUnique
<1>8. HeldElsewhere(r)
  BY <1>1, <1>4, HeldSame DEF HeldElsewhere
<1>9. row'[r] # NoRow
  BY <1>1 DEF NoRow
<1>10. Held(r)' = [status |-> s, cost |-> row[r].cost, key |-> row[r].key]
  BY <1>1, <1>2, <1>3, <1>4, <1>9, HeldFactsNext
<1> QED
  BY <1>3, <1>5, <1>6, <1>7, <1>8, <1>10 DEF Books

\* MongoClaimRefund: the reservation counts until its refund is taken off.
LEMMA ClaimedBooks ==
    ASSUME TypeOK, HoldersHold, Books, NEW c \in Caller, OthersKept(c), window' = window,
           NEW r \in Caller, r = caller[c].res, Settle(r, "refunded"), caller[c].pc = "holding",
           caller'[c].pc = "decrement", caller'[c].res = r, caller'[c].cost = row[r].cost
    PROVE  Books' /\ \A q \in Caller : Held(q)' = Held(q)
<1>1. /\ row[r].status = "reserved" /\ \A q \in Caller \ {r} : row'[q] = row[q]
      /\ row'[r].status = "refunded" /\ row'[r].cost = row[r].cost /\ row'[r].key = row[r].key
  BY SettleFacts
<1>2. caller[r].pc \in Charged /\ caller'[r].pc \in Charged
  BY DEF Books, Booked, Charged, OthersKept
<1>3. ~Uncharged(r) /\ ~Uncharged(r)'
  BY <1>2 DEF Uncharged, Charged
<1>4. /\ ~Refunding(r)
      /\ Held(r) = [status |-> "reserved", cost |-> row[r].cost, key |-> row[r].key]
  BY <1>1, <1>3, ReservedHeld
<1>5. ASSUME NEW d \in Caller \ {c} PROVE Booked(d)'
  <2>1. Booked(d) /\ caller'[d] = caller[d]
    BY DEF Books, OthersKept
  <2>2. d = r \/ row'[d] = row[d]
    BY <1>1
  <2>3. ASSUME At(d, "decrement") PROVE row'[caller[d].res] = row[caller[d].res]
    <3>1. caller[d].res # r /\ caller[d].res \in Caller
      BY <1>4, <2>3 DEF Refunding, HoldersHold, At
    <3> QED
      BY <1>1, <3>1
  <2>4. row'[d].status = "absent" => row'[d] = NoRow
    BY <1>1, <2>1, <2>2 DEF Booked
  <2>5. row'[d] # NoRow => caller'[d].pc \in Stored
    BY <1>2, <2>1, <2>2 DEF Booked, Charged, Stored
  <2>6. Uncharged(d)' => row'[d].status = "reserved" /\ row'[d].cost = caller'[d].cost
    BY <1>3, <2>1, <2>2 DEF Booked, Uncharged
  <2>7. caller'[d].pc \in Charged => caller'[caller'[d].res].pc \in Charged
    BY <2>1, ChargedKept DEF Charged
  <2> QED
    BY <2>1, <2>3, <2>4, <2>5, <2>6, <2>7 DEF Booked, At
<1>6. Booked(c)'
  <2>1. Booked(c)
    BY DEF Books
  <2>2. row'[c].status = "absent" => row'[c] = NoRow
    <3>1. c = r \/ row'[c] = row[c]
      BY <1>1
    <3> QED
      BY <1>1, <2>1, <3>1 DEF Booked
  <2> QED
    BY <1>1, <1>2, <2>2 DEF Booked, Uncharged, At, Stored
<1>7. RefundOnce'
  <2> SUFFICES ASSUME NEW a \in Caller, NEW b \in Caller, At(a, "decrement")', At(b, "decrement")',
                      caller'[a].res = caller'[b].res
               PROVE  a = b
    BY DEF RefundOnce
  <2>1. ASSUME NEW d \in Caller \ {c}, At(d, "decrement")' PROVE caller'[d].res # r
    BY <1>4, <2>1 DEF Refunding, At, OthersKept
  <2> QED
    BY <2>1 DEF Books, RefundOnce, At, OthersKept
<1>8. window' = 1 => KeysUnique'
  <2>1. \A q \in Caller : /\ row'[q].key = row[q].key
                          /\ row'[q].status # "absent" => row[q].status # "absent"
    BY <1>1
  <2> QED
    BY <2>1 DEF Books, KeysUnique
<1>9. ASSUME NEW q \in Caller, q # r PROVE Held(q)' = Held(q)
  <2>1. Refunding(q)' = Refunding(q)
    BY <1>9, RefundingKept DEF At
  <2>2. Uncharged(q)' = Uncharged(q)
    BY UnchargedKept DEF Uncharged
  <2> QED
    BY <1>1, <1>9, <2>1, <2>2, HeldSame
<1>10. Held(r)' = Held(r)
  <2>1. Refunding(r)'
    BY DEF Refunding, At
  <2>2. row'[r] # NoRow
    BY <1>1 DEF NoRow
  <2> QED
    BY <1>1, <1>3, <1>4, <2>1, <2>2, HeldFactsNext
<1> QED
  BY <1>5, <1>6, <1>7, <1>8, <1>9, <1>10 DEF Books

\* MongoDecrement: the refund is taken off.
LEMMA PaidBooks ==
    ASSUME TypeOK, HoldersHold, Books, NEW c \in Caller, OthersKept(c), UNCHANGED <<row, window>>,
           NEW r \in Caller, r = caller[c].res, caller[c].pc = "decrement",
           caller'[c].pc = "holding", caller'[c].res = r
    PROVE  /\ Books' /\ HeldElsewhere(r) /\ Held(r).status = "reserved"
           /\ Held(r).cost = caller[c].cost
           /\ Held(r)' = [Held(r) EXCEPT !.status = "refunded"]
<1>1. /\ row[r].status = "refunded" /\ row[r].cost = caller[c].cost
      /\ caller[r].pc \in Charged
  BY DEF Books, Booked, At, Charged
<1>2. row[r] # NoRow /\ Refunding(r) /\ ~Uncharged(r) /\ caller'[r].pc \in Charged
  BY <1>1 DEF Refunding, Uncharged, Charged, NoRow, At, OthersKept
<1>3. ~Uncharged(r)'
  BY <1>2 DEF Uncharged, Charged
<1>4. ~Refunding(r)'
  <2> SUFFICES ASSUME NEW d \in Caller, At(d, "decrement")', caller'[d].res = r PROVE FALSE
    BY DEF Refunding
  <2>1. d # c
    BY DEF At
  <2> QED
    BY <2>1 DEF Books, RefundOnce, At, OthersKept
<1>5. ASSUME NEW d \in Caller PROVE Booked(d)'
  <2>1. CASE d = c
    BY <1>1, <1>2, <2>1 DEF Books, Booked, Uncharged, At, Stored
  <2>2. CASE d # c
    <3>1. Booked(d) /\ caller'[d] = caller[d]
      BY <2>2 DEF Books, OthersKept
    <3>2. caller'[d].pc \in Charged => caller'[caller'[d].res].pc \in Charged
      BY <2>2, <3>1, ChargedKept DEF Charged
    <3> QED
      BY <3>1, <3>2 DEF Booked, Uncharged, At
  <2> QED
    BY <2>1, <2>2
<1>6. RefundOnce'
  BY DEF Books, RefundOnce, At, OthersKept
<1>7. window' = 1 => KeysUnique'
  BY DEF Books, KeysUnique
<1>8. HeldElsewhere(r)
  <2> SUFFICES ASSUME NEW q \in Caller \ {r} PROVE Held(q)' = Held(q)
    BY DEF HeldElsewhere
  <2>1. Refunding(q)' = Refunding(q)
    BY RefundingKept DEF At
  <2>2. Uncharged(q)' = Uncharged(q)
    BY UnchargedKept DEF Uncharged
  <2> QED
    BY <2>1, <2>2, HeldSame
<1>9. Held(r) = [status |-> "reserved", cost |-> row[r].cost, key |-> row[r].key]
  BY <1>2, HeldFacts
<1>10. Held(r)' = [status |-> "refunded", cost |-> row[r].cost, key |-> row[r].key]
  BY <1>1, <1>2, <1>3, <1>4, HeldFactsNext
<1> QED
  BY <1>1, <1>5, <1>6, <1>7, <1>8, <1>9, <1>10 DEF Books

\* MongoMove: rows move to another window, which Held does not show.
LEMMA MovedBooks ==
    ASSUME TypeOK, HoldersHold, Books, NEW c \in Caller, OthersKept(c), window' # 1,
           Move(c, Movable(c)), caller[c].pc = "move", caller'[c].pc \in {"idle", "find"}
    PROVE  Books' /\ \A r \in Caller : Held(r)' = Held(r)
<1>1. ASSUME NEW r \in Caller
      PROVE  /\ row'[r].status = row[r].status /\ row'[r].cost = row[r].cost
             /\ row'[r].key = row[r].key /\ (row[r] = NoRow <=> row'[r] = NoRow)
             /\ row'[r].status = "absent" => row'[r] = NoRow
  <2>1. row[r] \in Reservation /\ (row[r].status = "absent" => row[r] = NoRow)
    BY DEF TypeOK, Books, Booked
  <2>2. CASE r \in Movable(c)
    <3>1. row'[r] = [row[r] EXCEPT !.window = caller[c].window] /\ row[r] # NoRow
      BY <2>2 DEF Move, Movable
    <3>2. /\ row'[r].status = row[r].status /\ row'[r].cost = row[r].cost
          /\ row'[r].key = row[r].key
      BY <2>1, <3>1 DEF Reservation
    <3>3. row'[r] # NoRow
      BY <2>1, <3>1, <3>2 DEF NoRow
    <3> QED
      BY <2>1, <3>1, <3>2, <3>3
  <2>3. CASE r \notin Movable(c)
    <3>1. row'[r] = row[r]
      BY <2>3 DEF Move
    <3> QED
      BY <2>1, <3>1
  <2> QED
    BY <2>2, <2>3
<1>2. ASSUME NEW d \in Caller PROVE Booked(d)'
  <2>1. CASE d = c
    <3>1. row[c] = NoRow
      BY DEF Books, Booked, Stored
    <3> QED
      BY <1>1, <2>1, <3>1 DEF Booked, Uncharged, At, Charged
  <2>2. CASE d # c
    <3>1. Booked(d) /\ caller'[d] = caller[d]
      BY <2>2 DEF Books, OthersKept
    <3>2. caller'[d].pc \in Charged => caller'[caller'[d].res].pc \in Charged
      BY <2>2, <3>1, ChargedKept DEF Charged
    <3>3. At(d, "decrement") => caller[d].res \in Caller
      BY DEF HoldersHold, At
    <3>4. At(d, "decrement")' => /\ row'[caller'[d].res].status = "refunded"
                                 /\ row'[caller'[d].res].cost = caller'[d].cost
      BY <1>1, <3>1, <3>3 DEF Booked, At
    <3> QED
      BY <1>1, <3>1, <3>2, <3>4 DEF Booked, Uncharged
  <2> QED
    BY <2>1, <2>2
<1>3. RefundOnce'
  BY DEF Books, RefundOnce, At, OthersKept
<1>4. ASSUME NEW r \in Caller PROVE Held(r)' = Held(r)
  <2>1. Uncharged(r)' = Uncharged(r)
    BY UnchargedKept DEF Uncharged
  <2>2. Refunding(r)' = Refunding(r)
    BY RefundingKept DEF At
  <2>3. CASE row[r] = NoRow \/ Uncharged(r)
    BY <1>1, <2>1, <2>3, HeldFacts, HeldFactsNext
  <2>4. CASE ~(row[r] = NoRow \/ Uncharged(r))
    BY <1>1, <2>1, <2>2, <2>4, HeldFacts, HeldFactsNext
  <2> QED
    BY <2>3, <2>4
<1> QED
  BY <1>2, <1>3, <1>4 DEF Books

\* A reset deletes every row while nobody charges or refunds.
LEMMA WipedBooks ==
    ASSUME Books, UNCHANGED caller, \A c \in Caller : row'[c] = NoRow,
           \A c \in Caller : caller[c].pc \notin {"charge", "release", "decrement"}
    PROVE  Books' /\ \A r \in Caller : Held(r)' = NotHeld
<1>1. \A c \in Caller : Booked(c)'
  BY DEF Books, Booked, Uncharged, At
<1>2. RefundOnce' /\ KeysUnique'
  BY DEF RefundOnce, KeysUnique, At, NoRow
<1>3. \A r \in Caller : Held(r)' = NotHeld
  BY HeldFactsNext
<1> QED
  BY <1>1, <1>2, <1>3 DEF Books

-----------------------------------------------------------------------------
(* The usage, and what migrations carry of it *)

Moved == [c \in Caller |-> caller[c].moved]

\* carried is what the migrations under way took from the counters and did not
\* add to another yet.
Carrying ==
    /\ IsSum(Moved, carried)
    /\ \A c \in Caller : ~At(c, "inc") => caller[c].moved = 0

LEMMA MovedType == ASSUME TypeOK PROVE Moved \in [Caller -> Int] /\ carried \in Int
  BY CommandFacts DEF Moved, TypeOK

LEMMA CarryingStep ==
    ASSUME TypeOK, TypeOK', Carrying, NEW c \in Caller, OthersKept(c),
           carried' = carried - caller[c].moved + caller'[c].moved,
           caller'[c].pc # "inc" => caller'[c].moved = 0
    PROVE  Carrying'
<1>1. caller'[c].moved \in Int /\ Moved[c] = caller[c].moved
  BY DEF TypeOK, Command, Moved
<1>2. Moved' = [Moved EXCEPT ![c] = caller'[c].moved]
  BY DEF Moved, OthersKept
<1>3. IsSum(Moved, carried)
  BY DEF Carrying
<1>4. PICK x \in Int : x = caller'[c].moved
  BY <1>1
<1>5. IsSum([Moved EXCEPT ![c] = x], carried - Moved[c] + x)
  BY <1>3, MovedType, SumUpdate
<1>6. IsSum(Moved', carried')
  BY <1>1, <1>2, <1>4, <1>5
<1>7. \A d \in Caller : ~At(d, "inc")' => caller'[d].moved = 0
  BY DEF Carrying, At, OthersKept
<1> QED
  BY <1>6, <1>7 DEF Carrying

LEMMA CarryingSame == ASSUME Carrying, UNCHANGED <<caller, carried>> PROVE Carrying'
<1>1. Moved' = Moved
  BY DEF Moved
<1> QED
  BY <1>1 DEF Carrying, At

LEMMA CarriedNone ==
    ASSUME TypeOK, Carrying, \A c \in Caller : ~At(c, "inc") PROVE carried = 0
<1>1. \A c \in Caller : Moved[c] = 0
  BY DEF Carrying, Moved
<1> QED
  BY <1>1, MovedType, ZeroSum DEF Carrying

\* What a Mongo reset is about to delete counts no more.
Counting == ~(backend = "mongo" /\ reset.on)

LEMMA UsageCounted ==
    ASSUME TypeOK, Counting
    PROVE  Usage = UsedIn(1) + UsedIn(2) + carried /\ Usage \in Int
           /\ UsedIn(1) \in Int /\ UsedIn(2) \in Int /\ carried \in Int
<1>1. UsedIn(1) \in Int /\ UsedIn(2) \in Int
  BY UsedType DEF Window
<1>2. carried \in Int
  BY DEF TypeOK
<1> QED
  BY <1>1, <1>2 DEF Usage, Counting

LEMMA UsageSame ==
    ASSUME UNCHANGED <<backend, counter, reset, carried>> PROVE Usage' = Usage
  BY DEF Usage, UsedIn

\* One counter is set or deleted, and y more is carried.
LEMMA UsageSet ==
    ASSUME TypeOK, Counting, UNCHANGED <<backend, reset>>, NEW w \in Window,
           NEW x \in Int \cup {None}, counter' = [counter EXCEPT ![w] = x],
           NEW y \in Int, carried' = carried + y
    PROVE  Usage' = Usage - UsedIn(w) + (IF x = None THEN 0 ELSE x) + y
<1>1. /\ Usage = UsedIn(1) + UsedIn(2) + carried
      /\ UsedIn(1) \in Int /\ UsedIn(2) \in Int /\ carried \in Int
  BY UsageCounted
<1>2. Usage' = UsedIn(1)' + UsedIn(2)' + carried'
  BY DEF Usage, Counting
<1>3. /\ UsedIn(w)' = (IF x = None THEN 0 ELSE x)
      /\ \A v \in Window \ {w} : UsedIn(v)' = UsedIn(v)
  BY DEF UsedIn, TypeOK
<1>4. (IF x = None THEN 0 ELSE x) \in Int
  OBVIOUS
<1>5. CASE w = 1
  <2>1. UsedIn(2)' = UsedIn(2)
    BY <1>3, <1>5 DEF Window
  <2> QED
    BY <1>1, <1>2, <1>3, <1>4, <1>5, <2>1
<1>6. CASE w = 2
  <2>1. UsedIn(1)' = UsedIn(1)
    BY <1>3, <1>6 DEF Window
  <2> QED
    BY <1>1, <1>2, <1>3, <1>4, <1>6, <2>1
<1> QED
  BY <1>5, <1>6 DEF Window

\* An upsert that only makes sure of a counter changes no usage.
LEMMA UsageUpserted ==
    ASSUME TypeOK, Counting, UNCHANGED <<backend, reset, carried>>, NEW w \in Window,
           counter' = [counter EXCEPT ![w] = UsedIn(w)]
    PROVE  Usage' = Usage
<1>1. UsedIn(w) \in Int /\ Usage \in Int /\ carried \in Int
  BY UsedType, UsageCounted
<1>2. UsedIn(w) # None
  BY <1>1, QuotaAssumption
<1>3. carried' = carried + 0
  BY <1>1
<1>4. PICK x \in Int : x = UsedIn(w)
  BY <1>1
<1>5. Usage' = Usage - UsedIn(w) + (IF x = None THEN 0 ELSE x) + 0
  <2>1. counter' = [counter EXCEPT ![w] = x] /\ x \in Int \cup {None} /\ 0 \in Int
    BY <1>4
  <2> QED
    BY ONLY TypeOK, Counting, UNCHANGED <<backend, reset>>, w \in Window, <1>3, <2>1, UsageSet
<1> QED
  BY <1>1, <1>2, <1>4, <1>5

\* A charge, and a refund.
LEMMA UsageChanged ==
    ASSUME TypeOK, Counting, UNCHANGED <<backend, reset, carried>>, NEW w \in Window,
           NEW x \in Int, counter' = [counter EXCEPT ![w] = UsedIn(w) + x]
    PROVE  Usage' = Usage + x /\ Usage \in Int
<1>1. UsedIn(w) \in Int /\ Usage \in Int /\ carried \in Int
  BY UsedType, UsageCounted
<1>2. PICK z \in Int : z = UsedIn(w) + x
  BY <1>1
<1>3. z # None
  BY <1>2, QuotaAssumption
<1>4. carried' = carried + 0
  BY <1>1
<1>5. Usage' = Usage - UsedIn(w) + (IF z = None THEN 0 ELSE z) + 0
  <2>1. counter' = [counter EXCEPT ![w] = z] /\ z \in Int \cup {None} /\ 0 \in Int
    BY <1>2
  <2> QED
    BY ONLY TypeOK, Counting, UNCHANGED <<backend, reset>>, w \in Window, <1>4, <2>1, UsageSet
<1> QED
  BY <1>1, <1>2, <1>3, <1>5

LEMMA UsageReset ==
    ASSUME counter' = [w \in Window |-> None], carried' = 0
    PROVE  Usage' = 0
<1>1. UsedIn(1)' = 0 /\ UsedIn(2)' = 0
  BY DEF UsedIn, Window
<1> QED
  BY <1>1 DEF Usage

-----------------------------------------------------------------------------
(* The invariant of the refinement *)

MongoOnly == {"scan", "take", "inc", "move", "charge", "release", "decrement"}

\* The memory and the Postgres store know one window and none of Mongo's steps.
Plain ==
    /\ window = 1 /\ counter[2] = None
    /\ \A c \in Caller : /\ caller[c].window = 1 /\ row[c].window = 1
                         /\ caller[c].pc \notin MongoOnly

\* What holds until a fault.
Sound ==
    /\ Carrying /\ Books
    /\ backend = "mongo" => Wiped
    /\ backend # "mongo" => Plain /\ Covered

RInv == IInv /\ (~fault => Sound)

\* A command under way meets no Mongo reset.
LEMMA BusyCounting ==
    ASSUME Sound, NEW c \in Caller, caller[c].pc \in Busy PROVE Counting
  BY DEF Sound, Wiped, Counting

\* Before the window changes the first counter holds the whole usage.
LEMMA SteadyFacts ==
    ASSUME IInv, ~fault, Sound, window = 1
    PROVE  /\ counter[2] = None /\ UsedIn(2) = 0 /\ carried = 0 /\ Covered
           /\ \A c \in Caller : /\ caller[c].window = 1 /\ row[c].window = 1
                                /\ caller[c].pc \notin {"take", "inc", "move"}
<1>1. MongoInv \/ (Plain /\ Covered)
  BY DEF IInv, MongoSound, Sound
<1>2. /\ counter[2] = None /\ Covered
      /\ \A c \in Caller : /\ caller[c].window = 1 /\ row[c].window = 1
                           /\ caller[c].pc \notin {"take", "inc", "move"}
  BY <1>1 DEF MongoInv, Unmoved, Plain, MongoOnly
<1>3. carried = 0
  BY <1>2, CarriedNone DEF IInv, Sound, At
<1> QED
  BY <1>2, <1>3 DEF UsedIn

LEMMA SteadyUsage ==
    ASSUME IInv, ~fault, Sound, window = 1, Counting
    PROVE  Usage = UsedIn(1) /\ UsedIn(1) \in Int
<1>1. UsedIn(2) = 0 /\ carried = 0
  BY SteadyFacts
<1> QED
  BY <1>1, UsageCounted DEF IInv

\* Whose row is stored was charged, unless it is about to be.
LEMMA RowCharged ==
    ASSUME Books, NEW r \in Caller, row[r] # NoRow, ~Uncharged(r) PROVE caller[r].pc \in Charged
  BY DEF Books, Booked, Stored, Charged, Uncharged

\* A key that was just inserted names no other reservation.
LEMMA KeyFree ==
    ASSUME Books', window' = 1, NEW r \in Caller, NEW s \in Caller \ {r},
           row'[r].status # "absent", Held(s)' = Held(s)
    PROVE  row'[r].key = None \/ Held(s).key # row'[r].key
<1>1. CASE Held(s)' = NotHeld
  BY <1>1 DEF NotHeld
<1>2. CASE Held(s)' # NotHeld
  <2>1. row'[s] # NoRow /\ Held(s)'.key = row'[s].key
    BY <1>2, HeldFactsNext
  <2>2. row'[s].status # "absent"
    BY <2>1 DEF Books, Booked
  <2> QED
    BY <2>1, <2>2 DEF Books, KeysUnique
<1> QED
  BY <1>1, <1>2

\* A step in which no reservation changes.
LEMMA SoundStays ==
    ASSUME ~fault, window' = window, Books', \A r \in Caller : Held(r)' = Held(r), Usage' = Usage,
           Carrying', (backend = "mongo" => Wiped)', (backend # "mongo" => Plain /\ Covered)'
    PROVE  Sound' /\ Ledger!Next
<1>1. Sound'
  BY DEF Sound
<1>2. Lasting
  BY DEF Lasting
<1> QED
  BY <1>1, <1>2, LedgerStays

-----------------------------------------------------------------------------
(* The memory and the Postgres store *)

LEMMA PlainKept ==
    ASSUME Plain, NEW c \in Caller, OthersKept(c), window' = window, counter'[2] = None,
           caller'[c].window = 1, caller'[c].pc \notin MongoOnly,
           \A d \in Caller : row'[d].window = 1
    PROVE  Plain'
  BY DEF Plain, OthersKept

\* A step that carries nothing.
LEMMA CarryingNothing ==
    ASSUME TypeOK, TypeOK', Carrying, NEW c \in Caller, OthersKept(c), carried' = carried,
           caller[c].pc # "inc", caller'[c].pc # "inc", caller'[c].moved = 0
    PROVE  Carrying'
<1>1. caller[c].moved = 0 /\ carried \in Int
  BY DEF Carrying, At, TypeOK
<1>2. carried' = carried - caller[c].moved + caller'[c].moved
  BY <1>1
<1> QED
  BY <1>2, CarryingStep

Looking == {"idle", "no_winner", "find", "counter", "insert", "again"}

\* What a lookup, a refusal, a conflict or an abort leaves of the call.
LEMMA PlainPassing ==
    ASSUME IInv, IInv', ~fault, Sound, backend # "mongo", NEW c \in Caller,
           caller[c].pc \in Looking, UNCHANGED <<backend, window, row, reset, carried>>,
           \/ counter' = counter
           \/ counter' = [counter EXCEPT ![caller[c].window] = UsedIn(caller[c].window)],
           \/ \E p \in Looking : Goto(c, p)
           \/ End(c)
           \/ \E r \in Idempotent(c) : Hand(c, r)
    PROVE  Sound' /\ Ledger!Next
<1>1. /\ TypeOK /\ TypeOK' /\ HoldersHold /\ Carrying /\ Books /\ Plain /\ Covered
  BY DEF IInv, Sound
<1>2. caller[c].window = 1 /\ counter[2] = None /\ 1 \in Window /\ 2 \in Window
  BY <1>1 DEF Plain, Window
<1>3. caller[c].moved = 0 /\ caller[c].pc # "inc" /\ caller[c].pc \notin Stored
  BY <1>1 DEF Carrying, At, Looking, Stored
<1>4. /\ OthersKept(c) /\ caller'[c].pc \notin MongoOnly /\ caller'[c].window = 1
      /\ caller'[c].moved = 0
      /\ caller'[c].pc = "holding" => /\ caller'[c].res \in Caller
                                      /\ caller[caller'[c].res].pc \in Charged
  <2>1. CASE \E p \in Looking : Goto(c, p)
    <3>1. PICK p \in Looking : Goto(c, p)
      BY <2>1
    <3>2. p \in Idle \cup Busy /\ p \notin MongoOnly /\ p # "holding"
      BY DEF Looking, Idle, Busy, MongoOnly
    <3> QED
      BY <1>1, <1>2, <1>3, <3>1, <3>2, GotoFacts
  <2>2. CASE End(c)
    BY <1>1, <2>2, EndFacts DEF MongoOnly
  <2>3. CASE \E r \in Idempotent(c) : Hand(c, r)
    <3>1. PICK r \in Idempotent(c) : Hand(c, r)
      BY <2>3
    <3>2. r \in Caller /\ row[r] # NoRow
      BY IdempotentRows
    <3>3. caller[r].pc \in Charged
      BY <1>1, <3>2, RowCharged DEF Plain, MongoOnly, Uncharged
    <3> QED
      BY <1>1, <3>1, <3>2, <3>3, HandFacts DEF MongoOnly
  <2> QED
    BY <2>1, <2>2, <2>3
<1>5. Books' /\ (\A r \in Caller : Held(r)' = Held(r)) /\ Owed' = Owed
  BY <1>1, <1>3, <1>4, PassingBooks DEF MongoOnly
<1>6. Carrying'
  BY <1>1, <1>3, <1>4, CarryingNothing DEF MongoOnly
<1>7. counter'[2] = None /\ UsedIn(1)' = UsedIn(1) /\ Usage' = Usage
  <2>1. CASE counter' = counter
    BY <1>2, <2>1, UsageSame DEF UsedIn
  <2>2. CASE counter' = [counter EXCEPT ![1] = UsedIn(1)]
    <3>1. UsedIn(1) \in Int /\ UsedIn(1) # None
      BY <1>1, <1>2, UsedType, QuotaAssumption
    <3>2. counter'[1] = UsedIn(1) /\ counter'[2] = None
      BY <1>1, <1>2, <2>2 DEF TypeOK
    <3>3. UsedIn(1)' = UsedIn(1)
      BY <3>1, <3>2 DEF UsedIn
    <3> QED
      BY <1>1, <1>2, <2>2, <3>2, <3>3, UsageUpserted DEF Counting
  <2> QED
    BY <1>2, <2>1, <2>2
<1>8. Plain'
  BY <1>1, <1>4, <1>7, PlainKept DEF Plain
<1>9. Covered'
  BY <1>1, <1>5, <1>7 DEF Covered
<1> QED
  BY <1>5, <1>6, <1>7, <1>8, <1>9, SoundStays

\* A reservation is made.
LEMMA PlainReserve ==
    ASSUME IInv, IInv', ~fault, Sound, backend # "mongo", NEW c \in Caller,
           caller[c].pc \in {"find", "insert"}, UNCHANGED <<backend, window, reset, carried>>,
           Idempotent(c) = {}, Admits(c), Hand(c, c), row' = [row EXCEPT ![c] = Reserved(c)],
           counter' = [counter EXCEPT ![caller[c].window] = UsedIn(caller[c].window) + caller[c].cost]
    PROVE  Sound' /\ Ledger!Next
<1>1. /\ TypeOK /\ TypeOK' /\ HoldersHold /\ Carrying /\ Books /\ Plain /\ Covered
  BY DEF IInv, Sound
<1>2. /\ caller[c].window = 1 /\ counter[2] = None /\ 1 \in Window /\ 2 \in Window
      /\ caller[c].cost \in Nat /\ UsedIn(1) \in Int /\ window = 1
  BY <1>1, CommandFacts, UsedType DEF Plain, Window
<1>3. caller[c].pc # "inc" /\ caller[c].pc \notin Stored
  BY DEF Stored
<1>4. /\ OthersKept(c) /\ caller'[c].pc = "holding" /\ caller'[c].window = 1
      /\ caller'[c].moved = 0 /\ caller'[c].res = c
  BY <1>1, HandFacts
<1>5. /\ Books' /\ HeldElsewhere(c) /\ Held(c) = NotHeld
      /\ row'[c] = Reserved(c) /\ \A d \in Caller \ {c} : row'[d] = row[d]
      /\ Held(c)' = [status |-> "reserved", cost |-> caller[c].cost, key |-> caller[c].key]
  BY <1>1, <1>3, <1>4, InsertedBooks DEF Plain
<1>6. Carrying'
  BY <1>1, <1>3, <1>4, CarryingNothing
<1>7. counter' = [counter EXCEPT ![1] = UsedIn(1) + caller[c].cost]
  BY <1>2
<1>8. PICK y \in Nat : y = caller[c].cost
  BY <1>2
<1>9. Usage' = Usage + y /\ Usage \in Int
  <2>1. Counting /\ UNCHANGED <<backend, reset, carried>> /\ y \in Int
    BY DEF Counting
  <2>2. counter' = [counter EXCEPT ![1] = UsedIn(1) + y]
    BY <1>7, <1>8
  <2> QED
    BY ONLY <1>1, <1>2, <2>1, <2>2, UsageChanged
<1>10. counter'[2] = None /\ UsedIn(1)' = UsedIn(1) + y
  <2>1. counter'[1] = UsedIn(1) + y /\ counter'[2] = None
    BY <1>1, <1>2, <1>7, <1>8 DEF TypeOK
  <2>2. UsedIn(1) + y # None
    BY <1>2, QuotaAssumption
  <2> QED
    BY <2>1, <2>2 DEF UsedIn
<1>11. Plain'
  <2>1. row'[c].window = 1
    BY <1>2, <1>5 DEF Reserved
  <2> QED
    BY <1>1, <1>4, <1>5, <1>10, <2>1, PlainKept DEF Plain, MongoOnly
<1>12. Covered'
  <2>1. Debt(c) = 0 /\ Pending(c) = 0
    <3>1. row[c] = NoRow
      BY <1>1, <1>3 DEF Books, Booked
    <3> QED
      BY <3>1 DEF Debt, Pending, At, NoRow
  <2>2. Debt(c)' <= y /\ Pending(c)' = 0
    BY <1>2, <1>4, <1>5, <1>8 DEF Debt, Pending, At, Reserved
  <2>3. Owed'[c] <= Owed[c] + y
    <3>1. Owed[c] = Debt(c) + Pending(c) /\ Owed'[c] = Debt(c)' + Pending(c)' /\ Debt(c)' \in Nat
      BY <1>1, AmountsNext DEF Owed
    <3> QED
      BY <2>1, <2>2, <3>1
  <2>4. \A d \in Caller \ {c} : Owed'[d] <= Owed[d]
    <3>1. \A d \in Caller \ {c} : Owed'[d] = Owed[d]
      BY <1>4, <1>5, OwedKept DEF Owed
    <3> QED
      BY <1>1, <3>1, Amounts
  <2>5. CoveredBy(UsedIn(1) + y, Owed')
    BY <1>1, <2>3, <2>4, Amounts, AmountsNext, CoveredCharge DEF Covered
  <2> QED
    BY <1>10, <2>5 DEF Covered
<1>13. Sound'
  BY <1>5, <1>6, <1>11, <1>12 DEF Sound
<1>14. Usage' <= Limit
  <2>1. Usage = UsedIn(1)
    BY <1>2, SteadyUsage DEF Counting
  <2> QED
    BY <1>2, <1>8, <1>9, <2>1 DEF Admits
<1>15. \A s \in Caller \ {c} : Held(c)'.key = None \/ Held(s).key # Held(c)'.key
  <2>1. row'[c].key = Held(c)'.key /\ row'[c].status # "absent" /\ window' = 1
    BY <1>2, <1>5 DEF Reserved
  <2> QED
    BY <1>5, <2>1, KeyFree DEF HeldElsewhere
<1>16. Lasting
  BY DEF Lasting
<1>17. Ledger!Next
  BY <1>5, <1>8, <1>9, <1>14, <1>15, <1>16, LedgerReserves
<1> QED
  BY <1>13, <1>17

LEMMA MemorySound ==
    ASSUME IInv, IInv', ~fault, Sound, NEW c \in Caller, MemoryReserve(c) PROVE Sound' /\ Ledger!Next
<1>1. /\ backend # "mongo" /\ caller[c].pc = "find" /\ caller[c].pc \in Looking
      /\ UNCHANGED <<backend, window, reset, carried>>
  BY DEF MemoryReserve, At, Looking
<1>2. CASE \E r \in Idempotent(c) : Hand(c, r) /\ UNCHANGED <<counter, row>>
  BY <1>1, <1>2, PlainPassing
<1>3. CASE /\ Idempotent(c) = {} /\ Admits(c)
           /\ counter' = [counter EXCEPT ![caller[c].window] = UsedIn(caller[c].window) + caller[c].cost]
           /\ row' = [row EXCEPT ![c] = Reserved(c)]
           /\ Hand(c, c)
  BY <1>1, <1>3, PlainReserve
<1>4. CASE /\ Idempotent(c) = {} /\ ~Admits(c)
           /\ counter' = [counter EXCEPT ![caller[c].window] = UsedIn(caller[c].window)]
           /\ End(c)
           /\ UNCHANGED row
  BY <1>1, <1>4, PlainPassing
<1> QED
  BY <1>2, <1>3, <1>4 DEF MemoryReserve

LEMMA PgSoundStep ==
    ASSUME IInv, IInv', ~fault, Sound, NEW c \in Caller, PgStep(c) PROVE Sound' /\ Ledger!Next
<1>1. backend = "postgres" /\ UNCHANGED <<backend, window, reset, carried>>
  BY DEF PgStep, PgFind, PgEnsureCounter, PgInsert, PgFindWinner, PgAbort, Postgres
<1>2. Looking = {"idle", "no_winner", "find", "counter", "insert", "again"}
  BY DEF Looking
<1>3. caller[c].pc \in Looking
  <2>1. CASE PgAbort(c)
    BY <1>1, <2>1 DEF PgAbort, Sound, Plain, MongoOnly, Busy, Looking
  <2> QED
    BY <1>2, <2>1 DEF PgStep, PgFind, PgEnsureCounter, PgInsert, PgFindWinner, Postgres, At
<1>4. CASE PgFind(c) \/ PgEnsureCounter(c) \/ PgAbort(c)
  <2>1. UNCHANGED <<row, counter>>
    BY <1>4 DEF PgFind, PgEnsureCounter, PgAbort
  <2>2. (\E p \in Looking : Goto(c, p)) \/ End(c) \/ \E r \in Idempotent(c) : Hand(c, r)
    BY <1>2, <1>4 DEF PgFind, PgEnsureCounter, PgAbort
  <2> QED
    BY <1>1, <1>3, <2>1, <2>2, PlainPassing
<1>5. CASE PgFindWinner(c)
  <2>1. row' = row
    BY <1>5 DEF PgFindWinner
  <2>2. /\ counter' = counter \/ counter' = [counter EXCEPT ![caller[c].window] = UsedIn(caller[c].window)]
        /\ (\E p \in Looking : Goto(c, p)) \/ \E r \in Idempotent(c) : Hand(c, r)
    BY <1>2, <1>5 DEF PgFindWinner
  <2> QED
    BY <1>1, <1>3, <2>1, <2>2, PlainPassing
<1>6. CASE PgInsert(c)
  <2>1. CASE Goto(c, "again") /\ UNCHANGED <<counter, row, lock>>
    BY <1>1, <1>2, <1>3, <2>1, PlainPassing
  <2>2. CASE /\ Idempotent(c) = {} /\ Admits(c)
             /\ counter' = [counter EXCEPT ![caller[c].window] =
                              UsedIn(caller[c].window) + caller[c].cost]
             /\ row' = [row EXCEPT ![c] = Reserved(c)]
             /\ Hand(c, c)
    <3>1. caller[c].pc \in {"find", "insert"}
      BY <1>6 DEF PgInsert, Postgres, At
    <3> QED
      BY <1>1, <2>2, <3>1, PlainReserve
  <2>3. CASE /\ counter' = [counter EXCEPT ![caller[c].window] = UsedIn(caller[c].window)]
             /\ End(c)
             /\ UNCHANGED row
    BY <1>1, <1>3, <2>3, PlainPassing
  <2> QED
    BY <1>6, <2>1, <2>2, <2>3 DEF PgInsert
<1> QED
  BY <1>4, <1>5, <1>6 DEF PgStep

-----------------------------------------------------------------------------
(* finalize and refund *)

LEMMA SettledOwed ==
    ASSUME TypeOK, TypeOK', NEW r \in Caller, NEW s \in {"finalized", "refunded"}, Settle(r, s),
           caller' = caller, ~Uncharged(r)
    PROVE  /\ Owed'[r] + row[r].cost <= Owed[r] /\ \A d \in Caller \ {r} : Owed'[d] <= Owed[d]
           /\ \A d \in Caller : row'[d].window = row[d].window
<1>1. /\ \A q \in Caller \ {r} : row'[q] = row[q]
      /\ row[r].status = "reserved" /\ row'[r].status = s /\ row'[r].window = row[r].window
  BY SettleFacts
<1>2. \A d \in Caller : /\ Pending(d)' = Pending(d) /\ Uncharged(d)' = Uncharged(d)
                        /\ Debt(d) \in Nat /\ Pending(d) \in Nat
                        /\ Owed'[d] = Debt(d)' + Pending(d)' /\ Owed[d] = Debt(d) + Pending(d)
  BY Amounts DEF Pending, At, Uncharged, Owed
<1>3. Debt(r) = row[r].cost /\ Debt(r)' = 0
  BY <1>1 DEF Debt
<1>4. \A d \in Caller \ {r} : Debt(d)' = Debt(d)
  BY <1>1, <1>2 DEF Debt
<1>5. Owed'[r] + row[r].cost <= Owed[r]
  BY <1>2, <1>3
<1>6. \A d \in Caller \ {r} : Owed'[d] <= Owed[d]
  BY <1>2, <1>4
<1> QED
  BY <1>1, <1>5, <1>6

\* What both have in common: the row of r is claimed once.
LEMMA SettlingFacts ==
    ASSUME IInv, IInv', Sound, NEW c \in Caller, At(c, "holding"), NEW r, r = caller[c].res,
           NEW s \in {"finalized", "refunded"}, Settle(r, s),
           UNCHANGED <<backend, window, caller, reset, carried>>, counter'[2] = counter[2]
    PROVE  /\ r \in Caller /\ ~Uncharged(r) /\ Counting
           /\ Books' /\ HeldElsewhere(r) /\ Held(r).status = "reserved" /\ Held(r).cost = row[r].cost
           /\ Held(r)' = [Held(r) EXCEPT !.status = s]
           /\ Carrying' /\ (backend = "mongo" => Wiped)' /\ (backend # "mongo" => Plain')
<1>1. TypeOK /\ TypeOK' /\ HoldersHold /\ Carrying /\ Books
  BY DEF IInv, Sound
<1>2. r \in Caller
  BY <1>1 DEF HoldersHold, At
<1>3. caller[r].pc \in Charged
  BY <1>1 DEF Books, Booked, Charged, At
<1>4. ~Uncharged(r)
  BY <1>3 DEF Charged, Uncharged
<1>5. /\ Books' /\ HeldElsewhere(r) /\ Held(r).status = "reserved" /\ Held(r).cost = row[r].cost
      /\ Held(r)' = [Held(r) EXCEPT !.status = s]
  BY <1>1, <1>2, <1>3, SettledBooks
<1>6. backend = "mongo" => ~reset.on
  BY <1>2 DEF Sound, Wiped, Settle, NoRow
<1>7. Counting /\ (backend = "mongo" => Wiped)'
  BY <1>6 DEF Counting, Wiped
<1>8. Carrying'
  BY <1>1, CarryingSame
<1>9. backend # "mongo" => Plain'
  <2>1. \A d \in Caller : row'[d].window = row[d].window
    BY <1>1, <1>2, <1>4, SettledOwed
  <2> QED
    BY <2>1 DEF Sound, Plain
<1> QED
  BY <1>2, <1>4, <1>5, <1>7, <1>8, <1>9

LEMMA FinalizeSound ==
    ASSUME IInv, IInv', ~fault, Sound, NEW c \in Caller, Finalize(c) PROVE Sound' /\ Ledger!Next
<1>1. PICK r : r = caller[c].res
  OBVIOUS
<1>2. /\ At(c, "holding") /\ Settle(r, "finalized") /\ TypeOK /\ TypeOK'
      /\ UNCHANGED <<backend, window, counter, caller, reset, fault, carried>>
  BY <1>1 DEF Finalize, IInv
<1>3. /\ r \in Caller /\ ~Uncharged(r)
      /\ Books' /\ HeldElsewhere(r) /\ Held(r).status = "reserved"
      /\ Held(r)' = [Held(r) EXCEPT !.status = "finalized"]
      /\ Carrying' /\ (backend = "mongo" => Wiped)' /\ (backend # "mongo" => Plain')
  BY <1>1, <1>2, SettlingFacts
<1>4. backend # "mongo" => Covered'
  <2>1. Owed'[r] + row[r].cost <= Owed[r] /\ \A d \in Caller \ {r} : Owed'[d] <= Owed[d]
    BY <1>2, <1>3, SettledOwed
  <2>2. row[r].cost \in Nat /\ Owed[r] \in Nat /\ Owed'[r] \in Nat
    BY <1>2, <1>3, CommandFacts, Amounts, AmountsNext
  <2>3. \A d \in Caller : Owed'[d] <= Owed[d]
    BY <2>1, <2>2
  <2>4. UsedIn(1)' = UsedIn(1)
    BY <1>2 DEF UsedIn
  <2> QED
    BY <1>2, <2>3, <2>4, Amounts, AmountsNext, CoveredLess DEF Sound, Covered
<1>5. Sound'
  BY <1>2, <1>3, <1>4 DEF Sound
<1>6. Lasting /\ Usage' = Usage
  BY <1>2, UsageSame DEF Lasting
<1> QED
  BY <1>3, <1>5, <1>6, LedgerFinalizes

LEMMA RefundSound ==
    ASSUME IInv, IInv', ~fault, Sound, NEW c \in Caller, Refund(c) PROVE Sound' /\ Ledger!Next
<1>1. PICK r : r = caller[c].res
  OBVIOUS
<1>2. /\ At(c, "holding") /\ Settle(r, "refunded") /\ TypeOK /\ TypeOK' /\ backend # "mongo"
      /\ UNCHANGED <<backend, window, caller, reset, fault, carried>>
      /\ Plain /\ Covered /\ HoldersHold
  BY <1>1 DEF Refund, IInv, Sound
<1>3. r \in Caller /\ row[r].cost \in Nat /\ row[r].window = 1 /\ 1 \in Window /\ 2 \in Window
  BY <1>1, <1>2, CommandFacts DEF HoldersHold, At, Plain, Window
<1>4. /\ counter[1] # None
      /\ counter' = [counter EXCEPT ![1] = Decremented(counter[1], row[r].cost)]
  BY <1>1, <1>3 DEF Refund
<1>5. counter'[2] = counter[2] /\ counter[2] = None
  BY <1>2, <1>3, <1>4 DEF TypeOK, Plain
<1>6. /\ ~Uncharged(r) /\ Counting
      /\ Books' /\ HeldElsewhere(r) /\ Held(r).status = "reserved" /\ Held(r).cost = row[r].cost
      /\ Held(r)' = [Held(r) EXCEPT !.status = "refunded"]
      /\ Carrying' /\ Plain'
  BY <1>1, <1>2, <1>5, SettlingFacts
<1>7. PICK y \in Nat : y = row[r].cost
  BY <1>3
<1>8. UsedIn(1) \in Int /\ CoveredBy(UsedIn(1) - y, Owed')
  <2>1. Owed'[r] + y <= Owed[r] /\ \A d \in Caller \ {r} : Owed'[d] <= Owed[d]
    BY <1>2, <1>3, <1>6, <1>7, SettledOwed
  <2> QED
    BY <1>2, <1>3, <2>1, Amounts, AmountsNext, CoveredPay DEF Covered
<1>9. UsedIn(1) - y >= 0
  BY <1>8, CoveredNat
<1>10. counter' = [counter EXCEPT ![1] = UsedIn(1) + (-y)]
  <2>1. UsedIn(1) = counter[1]
    BY <1>4 DEF UsedIn
  <2>2. Decremented(counter[1], y) = UsedIn(1) + (-y)
    BY <1>8, <1>9, <2>1 DEF Decremented
  <2> QED
    BY <1>4, <1>7, <2>2
<1>11. Usage' = Usage + (-y) /\ Usage \in Int
  <2>1. -y \in Int /\ UNCHANGED <<backend, reset, carried>>
    BY <1>2
  <2> QED
    BY ONLY <1>2, <1>3, <1>6, <1>10, <2>1, UsageChanged
<1>12. Covered'
  <2>1. counter'[1] = UsedIn(1) - y /\ UsedIn(1) - y # None
    BY <1>2, <1>3, <1>8, <1>10, QuotaAssumption DEF TypeOK
  <2>2. UsedIn(1)' = UsedIn(1) - y
    BY <2>1 DEF UsedIn
  <2> QED
    BY <1>8, <2>2 DEF Covered
<1>13. Sound'
  BY <1>2, <1>6, <1>12 DEF Sound
<1>14. Lasting /\ Usage' = Usage - Held(r).cost
  BY <1>2, <1>6, <1>7, <1>11 DEF Lasting
<1> QED
  BY <1>3, <1>6, <1>13, <1>14, LedgerRefunds

-----------------------------------------------------------------------------
(* The resets, and the change of the policy *)

\* All counters and all reservations are deleted.
LEMMA PlainReset ==
    ASSUME IInv, IInv', ~fault, Sound, backend # "mongo", backend' # "mongo",
           UNCHANGED <<window, caller, carried>>, counter' = [w \in Window |-> None],
           \A r \in Caller : row'[r] = NoRow
    PROVE  Sound' /\ Ledger!Next
<1>1. TypeOK /\ TypeOK' /\ Carrying /\ Books /\ Plain /\ window = 1
  BY DEF IInv, Sound, Plain
<1>2. Books' /\ \A r \in Caller : Held(r)' = NotHeld
  BY <1>1, WipedBooks DEF Plain, MongoOnly
<1>3. Carrying' /\ carried' = 0
  BY <1>1, CarryingSame, SteadyFacts
<1>4. Usage' = 0
  BY <1>3, UsageReset
<1>5. Plain'
  BY <1>1 DEF Plain, NoRow, Window
<1>6. Covered'
  <2>1. UsedIn(1)' = 0
    BY DEF UsedIn, Window
  <2>2. \A c \in Caller : Debt(c)' = 0 /\ Pending(c)' = 0
    BY <1>1 DEF Debt, Pending, At, NoRow, Plain, MongoOnly
  <2>3. Owed' \in [Caller -> Nat] /\ \A c \in Caller : Owed'[c] = 0
    BY <2>2 DEF Owed
  <2> QED
    BY <2>1, <2>3, CoveredNothing DEF Covered
<1>7. Sound'
  BY <1>2, <1>3, <1>5, <1>6 DEF Sound
<1>8. Lasting
  BY DEF Lasting
<1> QED
  BY <1>2, <1>4, <1>7, <1>8, LedgerResets

LEMMA PlainResetSound ==
    ASSUME IInv, IInv', ~fault, ~fault', Sound,
           MemoryReset \/ MemoryClose \/ PgResetStart \/ PgResetCommit
    PROVE  Sound' /\ Ledger!Next
<1>1. CASE MemoryReset \/ MemoryClose
  BY <1>1, PlainReset DEF MemoryReset, MemoryClose
<1>2. CASE PgResetCommit
  <2>1. \A r \in Caller : row'[r] = NoRow
    BY <1>2 DEF PgResetCommit
  <2> QED
    BY <1>2, <2>1, PlainReset DEF PgResetCommit
<1>3. CASE PgResetStart
  <2>1. /\ UNCHANGED <<backend, window, counter, row, caller, fault, carried>>
        /\ backend = "postgres"
    BY <1>3 DEF PgResetStart
  <2>2. Books' /\ \A r \in Caller : Held(r)' = Held(r)
    BY <2>1 DEF Sound, Books, Booked, RefundOnce, KeysUnique, Held, Uncharged, At
  <2>3. Carrying'
    BY <2>1, CarryingSame DEF Sound
  <2>4. Plain' /\ Covered'
    <3>1. Owed' = Owed /\ UsedIn(1)' = UsedIn(1)
      BY <2>1 DEF Owed, Debt, Pending, Uncharged, At, UsedIn
    <3> QED
      BY <2>1, <3>1 DEF Sound, Plain, Covered
  <2>5. Usage' = Usage
    BY <2>1 DEF Usage, UsedIn
  <2> QED
    BY <2>1, <2>2, <2>3, <2>4, <2>5, SoundStays
<1> QED
  BY <1>1, <1>2, <1>3

\* The rows are deleted while no command is under way, or it is a fault; from
\* then on the usage counts as deleted.
LEMMA MongoResetSound ==
    ASSUME IInv, IInv', ~fault, ~fault', Sound, MongoResetRows \/ MongoResetCounters
    PROVE  Sound' /\ Ledger!Next
<1>1. /\ TypeOK /\ Carrying /\ Books /\ Wiped /\ backend = "mongo"
      /\ UNCHANGED <<backend, window, caller, carried>>
  BY DEF IInv, Sound, MongoResetRows, MongoResetCounters
<1>2. \A c \in Caller : caller[c].pc \notin Busy
  BY <1>1 DEF MongoResetRows, MongoResetCounters, Wiped
<1>3. \A c \in Caller : row'[c] = NoRow
  BY <1>1 DEF MongoResetRows, MongoResetCounters, Wiped
<1>4. Books' /\ \A r \in Caller : Held(r)' = NotHeld
  BY <1>1, <1>2, <1>3, WipedBooks DEF Busy
<1>5. Carrying' /\ carried' = 0
  BY <1>1, <1>2, CarryingSame, CarriedNone DEF Busy, At
<1>6. Wiped'
  BY <1>1, <1>2, <1>3 DEF Wiped
<1>7. Usage' = 0
  <2>1. CASE MongoResetRows
    <3>1. reset'.on
      BY <1>1, <2>1 DEF MongoResetRows, TypeOK
    <3> QED
      BY <1>1, <3>1 DEF Usage
  <2>2. CASE MongoResetCounters
    BY <1>5, <2>2, UsageReset DEF MongoResetCounters
  <2> QED
    BY <2>1, <2>2
<1>8. Sound' /\ Lasting
  BY <1>1, <1>4, <1>5, <1>6 DEF Sound, Lasting
<1> QED
  BY <1>4, <1>7, <1>8, LedgerResets

LEMMA PolicySound ==
    ASSUME IInv, IInv', ~fault, Sound, ChangePolicy PROVE Sound' /\ Ledger!Next
<1>1. /\ UNCHANGED <<backend, counter, row, caller, reset, fault, carried>>
      /\ backend = "mongo" /\ window' # 1
  BY DEF ChangePolicy
<1>2. Books' /\ \A r \in Caller : Held(r)' = Held(r)
  BY <1>1 DEF Sound, Books, Booked, RefundOnce, Held, Uncharged, At
<1>3. Carrying'
  BY <1>1, CarryingSame DEF Sound
<1>4. Usage' = Usage
  BY <1>1, UsageSame
<1>5. Sound' /\ Lasting
  BY <1>1, <1>2, <1>3 DEF Sound, Wiped, Lasting
<1> QED
  BY <1>2, <1>4, <1>5, LedgerStays

-----------------------------------------------------------------------------
(* The commands of the Mongo store *)

\* A command in which no reservation is charged, released or refunded.
LEMMA MongoPassing ==
    ASSUME IInv, IInv', ~fault, Sound, backend = "mongo", ~reset.on, NEW c \in Caller, OthersKept(c),
           UNCHANGED <<backend, window, row, reset>>,
           caller[c].pc \notin Stored, caller'[c].pc \notin {"charge", "release", "decrement"},
           caller'[c].pc = "holding" => /\ caller'[c].res \in Caller
                                        /\ caller[caller'[c].res].pc \in Charged,
           carried' = carried - caller[c].moved + caller'[c].moved,
           caller'[c].pc # "inc" => caller'[c].moved = 0,
           Usage' = Usage
    PROVE  Sound' /\ Ledger!Next
<1>1. TypeOK /\ TypeOK' /\ HoldersHold /\ Carrying /\ Books
  BY DEF IInv, Sound
<1>2. Books' /\ \A r \in Caller : Held(r)' = Held(r)
  BY <1>1, PassingBooks
<1>3. Carrying'
  BY <1>1, CarryingStep
<1>4. (backend = "mongo" => Wiped)' /\ (backend # "mongo" => Plain /\ Covered)'
  BY DEF Wiped
<1> QED
  BY <1>2, <1>3, <1>4, SoundStays

LEMMA BeginSound ==
    ASSUME IInv, IInv', ~fault, ~fault', Sound, NEW c \in Caller, NEW op \in {"reserve", "usage"},
           NEW cost \in Cost \cup {0}, NEW key \in Key \cup {None}, Begin(c, op, cost, key)
    PROVE  Sound' /\ Ledger!Next
<1>1. /\ TypeOK /\ TypeOK' /\ HoldersHold /\ Carrying /\ Books
      /\ UNCHANGED <<backend, window, counter, row, reset, carried>>
      /\ caller[c].pc \in {"idle", "no_winner"}
  BY DEF Begin, IInv, Sound
<1>2. /\ OthersKept(c) /\ caller'[c].pc = (IF backend = "mongo" THEN "scan" ELSE "find")
      /\ caller'[c].window = window /\ caller'[c].moved = 0
  BY <1>1, BeginFacts
<1>3. Usage' = Usage
  BY <1>1, UsageSame
<1>4. caller[c].moved = 0 /\ carried \in Int /\ caller[c].pc \notin Stored
  BY <1>1 DEF Carrying, At, TypeOK, Stored
<1>5. CASE backend = "mongo"
  <2>1. ~reset.on
    BY <1>5 DEF Begin
  <2>2. carried' = carried - caller[c].moved + caller'[c].moved
    BY <1>1, <1>2, <1>4
  <2> QED
    BY <1>1, <1>2, <1>3, <1>4, <1>5, <2>1, <2>2, MongoPassing
<1>6. CASE backend # "mongo"
  <2>1. Plain /\ Covered /\ caller'[c].pc = "find"
    BY <1>2, <1>6 DEF Sound
  <2>2. Books' /\ (\A r \in Caller : Held(r)' = Held(r)) /\ Owed' = Owed
    BY <1>1, <1>2, <1>4, <2>1, PassingBooks
  <2>3. Carrying'
    BY <1>1, <1>2, <1>4, <2>1, CarryingNothing
  <2>4. Plain'
    BY <1>1, <1>2, <2>1, PlainKept DEF Plain, MongoOnly
  <2>5. Covered'
    BY <1>1, <2>1, <2>2 DEF Covered, UsedIn
  <2> QED
    BY <1>1, <1>3, <1>6, <2>2, <2>3, <2>4, <2>5, SoundStays
<1> QED
  BY <1>5, <1>6

\* What holds before each command of an operation under way.
LEMMA CommandSound ==
    ASSUME IInv, ~fault, Sound, NEW c \in Caller, backend = "mongo", caller[c].pc \in Busy
    PROVE  /\ TypeOK /\ HoldersHold /\ Carrying /\ Books /\ ~reset.on /\ Counting
           /\ carried \in Int /\ caller[c].window \in Window /\ UsedIn(caller[c].window) \in Int
           /\ caller[c].moved \in Int /\ caller[c].cost \in Nat
           /\ caller[c].pc # "inc" => caller[c].moved = 0
<1>1. TypeOK /\ HoldersHold /\ Carrying /\ Books /\ Wiped
  BY DEF IInv, Sound
<1>2. ~reset.on
  BY <1>1 DEF Wiped
<1> QED
  BY <1>1, <1>2, CommandFacts, UsedType DEF Carrying, At, TypeOK, Counting

\* The migration: what it takes from one counter it carries to the other.
LEMMA MigrationSound ==
    ASSUME IInv, IInv', ~fault, Sound, NEW c \in Caller,
           MongoScan(c) \/ MongoTake(c) \/ MongoInc(c)
    PROVE  Sound' /\ Ledger!Next
<1>1. /\ backend = "mongo" /\ UNCHANGED <<backend, window, row, reset>>
      /\ caller[c].pc \in {"scan", "take", "inc"}
  BY DEF MongoScan, MongoTake, MongoInc, Mongo, At
<1>2. caller[c].pc \in Busy /\ caller[c].pc \notin Stored
  BY <1>1 DEF Busy, Stored
<1>3. /\ TypeOK /\ ~reset.on /\ Counting /\ carried \in Int /\ caller[c].window \in Window
      /\ UsedIn(caller[c].window) \in Int /\ caller[c].moved \in Int
      /\ caller[c].pc # "inc" => caller[c].moved = 0
  BY <1>1, <1>2, CommandSound
<1>4. CASE MongoScan(c)
  <2>1. UNCHANGED <<counter, carried>> /\ (Migrated(c) \/ Goto(c, "take")) /\ caller[c].moved = 0
    BY <1>3, <1>4 DEF MongoScan, Mongo, At
  <2>2. "take" \in Idle \cup Busy
    BY DEF Busy
  <2>3. /\ OthersKept(c) /\ caller'[c].pc \in {"idle", "find", "take"} /\ caller'[c].moved = 0
    BY <1>3, <2>1, <2>2, GotoFacts, MigratedFacts
  <2>4. Usage' = Usage
    BY <1>1, <2>1, UsageSame
  <2>5. carried' = carried - caller[c].moved + caller'[c].moved
    BY <1>3, <2>1, <2>3
  <2> QED
    BY <1>1, <1>2, <1>3, <2>3, <2>4, <2>5, MongoPassing
<1>5. CASE MongoTake(c)
  <2>1. caller[c].moved = 0 /\ Other(c) \in Window
    BY <1>3, <1>5, OtherWindow DEF MongoTake, Mongo, At
  <2>2. PICK w \in Window : w = Other(c)
    BY <2>1
  <2>3. PICK m \in Int : m = UsedIn(w)
    BY <1>3, UsedType
  <2>4. /\ OthersKept(c) /\ caller'[c].pc \in {"idle", "find", "inc"}
        /\ \/ caller'[c].pc # "inc" /\ caller'[c].moved = 0 /\ UNCHANGED <<counter, carried>>
           \/ /\ caller'[c].pc = "inc" /\ caller'[c].moved = m
              /\ counter' = [counter EXCEPT ![w] = None] /\ carried' = carried + m
    BY <1>3, <1>5, <2>1, <2>2, <2>3, TakeFacts
  <2>5. Usage' = Usage
    <3>1. CASE UNCHANGED <<counter, carried>>
      BY <1>1, <3>1, UsageSame
    <3>2. CASE counter' = [counter EXCEPT ![w] = None] /\ carried' = carried + m
      <4>1. PICK x \in Int \cup {None} : x = None
        OBVIOUS
      <4>2. Usage' = Usage - UsedIn(w) + (IF x = None THEN 0 ELSE x) + m
        BY <1>1, <1>3, <3>2, <4>1, UsageSet
      <4>3. Usage \in Int
        BY <1>3, UsageCounted
      <4> QED
        BY <2>3, <4>1, <4>2, <4>3
    <3> QED
      BY <2>4, <3>1, <3>2
  <2>6. carried' = carried - caller[c].moved + caller'[c].moved
    BY <1>3, <2>1, <2>4
  <2> QED
    BY <1>1, <1>2, <1>3, <2>4, <2>5, <2>6, MongoPassing
<1>6. CASE MongoInc(c)
  <2>1. PICK w \in Window : w = caller[c].window
    BY <1>3
  <2>2. PICK m \in Int : m = caller[c].moved
    BY <1>3
  <2>3. /\ OthersKept(c) /\ caller'[c].pc = "move" /\ caller'[c].moved = 0
        /\ carried' = carried - m
    BY <1>3, <1>6, <2>2, IncFacts
  <2>4. PICK x \in Int : x = UsedIn(w) + m
    BY <1>3, <2>1
  <2>5. Usage' = Usage - UsedIn(w) + (IF x = None THEN 0 ELSE x) + (-m)
    <3>1. counter' = [counter EXCEPT ![w] = x] /\ x \in Int \cup {None}
      BY <1>6, <2>1, <2>2, <2>4 DEF MongoInc
    <3>2. carried' = carried + (-m) /\ -m \in Int
      BY <1>3, <2>3
    <3> QED
      BY ONLY <1>1, <1>3, <3>1, <3>2, w \in Window, UsageSet
  <2>6. Usage' = Usage
    <3>1. x # None /\ Usage \in Int /\ UsedIn(w) \in Int
      BY <1>3, <2>1, UsageCounted, QuotaAssumption
    <3> QED
      BY <2>4, <2>5, <3>1
  <2>7. carried' = carried - caller[c].moved + caller'[c].moved
    BY <1>3, <2>2, <2>3
  <2> QED
    BY <1>1, <1>2, <1>3, <2>3, <2>6, <2>7, MongoPassing
<1> QED
  BY <1>4, <1>5, <1>6

\* Lookups, the upsert of the counter, and a crash that is no fault.
LEMMA LookupSound ==
    ASSUME IInv, IInv', ~fault, ~fault', Sound, NEW c \in Caller,
           MongoFind(c) \/ MongoFindWinner(c) \/ MongoUpsertCounter(c) \/ MongoCrash(c)
    PROVE  Sound' /\ Ledger!Next
<1>1. /\ backend = "mongo" /\ UNCHANGED <<backend, window, row, reset>>
      /\ caller[c].pc \in Busy
  BY DEF MongoFind, MongoFindWinner, MongoUpsertCounter, MongoCrash, Mongo, At, Busy
<1>2. caller[c].pc \notin Stored \cup {"inc", "move"}
  BY <1>1 DEF MongoFind, MongoFindWinner, MongoUpsertCounter, MongoCrash, Mongo, At, Busy, Stored
<1>3. /\ TypeOK /\ ~reset.on /\ Counting /\ Books /\ carried \in Int /\ caller[c].window \in Window
      /\ caller[c].moved = 0
  BY <1>1, <1>2, CommandSound
<1>4. carried' = carried
  BY <1>3 DEF MongoFind, MongoFindWinner, MongoUpsertCounter, MongoCrash
<1>5. Usage' = Usage
  <2>1. CASE MongoUpsertCounter(c)
    <3>1. PICK w \in Window : w = caller[c].window
      BY <1>3
    <3>2. counter' = [counter EXCEPT ![w] = UsedIn(w)]
      BY <2>1, <3>1 DEF MongoUpsertCounter
    <3> QED
      BY <1>1, <1>3, <1>4, <3>2, UsageUpserted
  <2>2. CASE counter' = counter
    BY <1>1, <1>4, <2>2, UsageSame
  <2> QED
    BY <2>1, <2>2 DEF MongoFind, MongoFindWinner, MongoCrash
<1>6. /\ OthersKept(c) /\ caller'[c].pc \notin {"charge", "release", "decrement", "inc"}
      /\ caller'[c].moved = 0
      /\ caller'[c].pc = "holding" => /\ caller'[c].res \in Caller
                                      /\ caller[caller'[c].res].pc \in Charged
  <2>1. CASE \E p \in {"counter", "insert", "no_winner"} : Goto(c, p)
    <3>1. {"counter", "insert", "no_winner"} \subseteq Idle \cup Busy
      BY DEF Idle, Busy
    <3> QED
      BY <1>3, <2>1, <3>1, GotoFacts
  <2>2. CASE End(c)
    BY <1>3, <2>2, EndFacts
  <2>3. CASE \E r \in Idempotent(c) : Hand(c, r) /\ ~Uncharged(r)
    <3>1. PICK r \in Idempotent(c) : Hand(c, r) /\ ~Uncharged(r)
      BY <2>3
    <3>2. r \in Caller /\ row[r] # NoRow
      BY IdempotentRows
    <3>3. caller[r].pc \in Charged
      BY <1>3, <3>1, <3>2, RowCharged
    <3> QED
      BY <1>3, <3>1, <3>2, <3>3, HandFacts
  <2>4. ASSUME NEW r, MongoHand(c, r) PROVE End(c) \/ (Hand(c, r) /\ ~Uncharged(r))
    BY <2>4 DEF MongoHand
  <2> QED
    BY <2>1, <2>2, <2>3, <2>4 DEF MongoFind, MongoFindWinner, MongoUpsertCounter, MongoCrash
<1>7. carried' = carried - caller[c].moved + caller'[c].moved
  BY <1>3, <1>4, <1>6
<1> QED
  BY <1>1, <1>2, <1>3, <1>5, <1>6, <1>7, MongoPassing

\* The rows and the commands may change, but neither usage nor reservations.
LEMMA MongoStays ==
    ASSUME IInv, IInv', ~fault, Sound, backend = "mongo", ~reset.on, NEW c \in Caller, OthersKept(c),
           UNCHANGED <<backend, window, counter, reset, carried>>, Books',
           \A r \in Caller : Held(r)' = Held(r),
           caller[c].pc # "inc", caller'[c].pc # "inc", caller'[c].moved = 0
    PROVE  Sound' /\ Ledger!Next
<1>1. Carrying'
  BY CarryingNothing DEF IInv, Sound
<1>2. (backend = "mongo" => Wiped)' /\ (backend # "mongo" => Plain /\ Covered)'
  BY DEF Wiped
<1>3. Usage' = Usage
  BY UsageSame
<1> QED
  BY <1>1, <1>2, <1>3, SoundStays

LEMMA InsertSound ==
    ASSUME IInv, IInv', ~fault, Sound, NEW c \in Caller, MongoInsert(c) PROVE Sound' /\ Ledger!Next
<1>1. /\ backend = "mongo" /\ UNCHANGED <<backend, window, counter, reset, carried>>
      /\ caller[c].pc = "insert" /\ caller[c].pc \in Busy /\ caller[c].pc \notin Stored
  BY DEF MongoInsert, Mongo, At, Busy, Stored
<1>2. TypeOK /\ HoldersHold /\ ~reset.on /\ Books /\ carried \in Int /\ caller[c].moved = 0
  BY <1>1, CommandSound
<1>3. {"charge", "again"} \subseteq Idle \cup Busy
  BY DEF Busy
<1>4. CASE Idempotent(c) # {}
  <2>1. row' = row /\ OthersKept(c) /\ caller'[c].pc = "again" /\ caller'[c].moved = 0
    BY <1>2, <1>3, <1>4, GotoFacts DEF MongoInsert
  <2>2. Usage' = Usage
    BY <1>1, UsageSame
  <2>3. carried' = carried - caller[c].moved + caller'[c].moved
    BY <1>1, <1>2, <2>1
  <2> QED
    BY <1>1, <1>2, <2>1, <2>2, <2>3, MongoPassing
<1>5. CASE Idempotent(c) = {}
  <2>1. /\ row' = [row EXCEPT ![c] = Reserved(c)] /\ OthersKept(c) /\ caller'[c].pc = "charge"
        /\ caller'[c].cost = caller[c].cost /\ caller'[c].moved = 0
    BY <1>2, <1>3, <1>5, GotoFacts DEF MongoInsert
  <2>2. window = 1 => caller[c].window = 1 /\ \A s \in Caller : row[s].window = 1
    BY SteadyFacts
  <2>3. Books' /\ HeldElsewhere(c) /\ Held(c) = NotHeld /\ Held(c)' = NotHeld
    BY <1>1, <1>2, <1>5, <2>1, <2>2, InsertedBooks
  <2>4. \A r \in Caller : Held(r)' = Held(r)
    BY <2>3 DEF HeldElsewhere
  <2> QED
    BY <1>1, <1>2, <2>1, <2>3, <2>4, MongoStays
<1> QED
  BY <1>4, <1>5

\* The reservation is made when it is charged.
LEMMA ChargeSound ==
    ASSUME IInv, IInv', ~fault, Sound, NEW c \in Caller, MongoCharge(c) PROVE Sound' /\ Ledger!Next
<1>1. /\ backend = "mongo" /\ UNCHANGED <<backend, window, row, reset, carried>>
      /\ caller[c].pc = "charge" /\ caller[c].pc \in Busy
  BY DEF MongoCharge, Mongo, At, Busy
<1>2. /\ TypeOK /\ TypeOK' /\ HoldersHold /\ ~reset.on /\ Counting /\ Carrying /\ Books
      /\ caller[c].window \in Window /\ caller[c].moved = 0 /\ caller[c].cost \in Nat
  BY <1>1, CommandSound DEF IInv
<1>3. CASE ~(counter[caller[c].window] # None /\ Admits(c))
  <2>1. counter' = counter /\ Goto(c, "release") /\ "release" \in Idle \cup Busy
    BY <1>3 DEF MongoCharge, Busy
  <2>2. /\ OthersKept(c) /\ caller'[c].pc = "release" /\ caller'[c].cost = caller[c].cost
        /\ caller'[c].moved = 0
    BY <1>2, <2>1, GotoFacts
  <2>3. Books' /\ HeldElsewhere(c) /\ Held(c) = NotHeld /\ Held(c)' = NotHeld
    BY <1>1, <1>2, <2>2, ChargedBooks
  <2>4. \A r \in Caller : Held(r)' = Held(r)
    BY <2>3 DEF HeldElsewhere
  <2> QED
    BY <1>1, <1>2, <2>1, <2>2, <2>3, <2>4, MongoStays
<1>4. CASE counter[caller[c].window] # None /\ Admits(c)
  <2>1. /\ OthersKept(c) /\ caller'[c].pc = "holding" /\ caller'[c].res = c /\ caller'[c].moved = 0
    BY <1>2, <1>4, HandFacts DEF MongoCharge
  <2>2. /\ Books' /\ HeldElsewhere(c) /\ Held(c) = NotHeld
        /\ Held(c)' = [status |-> "reserved", cost |-> caller[c].cost, key |-> row[c].key]
    BY <1>1, <1>2, <2>1, ChargedBooks
  <2>3. PICK w \in Window : w = caller[c].window
    BY <1>2
  <2>4. PICK y \in Nat : y = caller[c].cost
    BY <1>2
  <2>5. counter' = [counter EXCEPT ![w] = UsedIn(w) + y]
    BY <1>2, <1>4, <2>3, <2>4 DEF MongoCharge, UsedIn, TypeOK
  <2>6. Usage' = Usage + y
    <3>1. y \in Int /\ UNCHANGED <<backend, reset, carried>>
      BY <1>1
    <3> QED
      BY ONLY <1>2, <2>5, <3>1, w \in Window, UsageChanged
  <2>7. Carrying'
    BY <1>1, <1>2, <2>1, CarryingNothing
  <2>8. Sound'
    BY <1>1, <1>2, <2>2, <2>7 DEF Sound, Wiped
  <2>9. Lasting
    BY <1>1 DEF Lasting
  <2>10. ASSUME window = 1 PROVE Usage' <= Limit
    <3>1. Usage = UsedIn(1) /\ UsedIn(1) \in Int /\ w = 1
      BY <1>2, <2>3, <2>10, SteadyUsage, SteadyFacts
    <3> QED
      BY <1>4, <2>3, <2>4, <2>6, <3>1 DEF Admits
  <2>11. ASSUME window = 1, NEW s \in Caller \ {c}
         PROVE  Held(c)'.key = None \/ Held(s).key # Held(c)'.key
    <3>1. row'[c].key = Held(c)'.key /\ row'[c].status # "absent" /\ window' = 1
      BY <1>1, <1>2, <2>2, <2>11 DEF Books, Booked, Uncharged
    <3> QED
      BY <2>2, <3>1, KeyFree DEF HeldElsewhere
  <2>12. Ledger!Next
    BY <2>2, <2>4, <2>6, <2>9, <2>10, <2>11, LedgerReserves
  <2> QED
    BY <2>8, <2>12
<1> QED
  BY <1>3, <1>4

LEMMA ReleaseSound ==
    ASSUME IInv, IInv', ~fault, Sound, NEW c \in Caller, MongoRelease(c) PROVE Sound' /\ Ledger!Next
<1>1. /\ backend = "mongo" /\ UNCHANGED <<backend, window, counter, reset, carried>>
      /\ caller[c].pc = "release" /\ caller[c].pc \in Busy
      /\ row' = [row EXCEPT ![c] = NoRow] /\ End(c)
  BY DEF MongoRelease, Mongo, At, Busy
<1>2. TypeOK /\ HoldersHold /\ ~reset.on /\ Books
  BY <1>1, CommandSound
<1>3. OthersKept(c) /\ caller'[c].pc = "idle" /\ caller'[c].moved = 0
  BY <1>1, <1>2, EndFacts
<1>4. Books' /\ \A r \in Caller : Held(r)' = Held(r)
  BY <1>1, <1>2, <1>3, ReleasedBooks
<1> QED
  BY <1>1, <1>2, <1>3, <1>4, MongoStays

\* Rows only move after the window changed.
LEMMA MoveSound ==
    ASSUME IInv, IInv', ~fault, ~fault', Sound, NEW c \in Caller, MongoMove(c)
    PROVE  Sound' /\ Ledger!Next
<1>1. /\ backend = "mongo" /\ UNCHANGED <<backend, window, counter, reset, carried>>
      /\ caller[c].pc = "move" /\ caller[c].pc \in Busy
      /\ Move(c, Movable(c)) /\ Migrated(c)
  BY DEF MongoMove, Mongo, At, Busy
<1>2. TypeOK /\ HoldersHold /\ ~reset.on /\ Books /\ caller[c].moved = 0
  BY <1>1, CommandSound
<1>3. window # 1
  BY <1>1, SteadyFacts
<1>4. OthersKept(c) /\ caller'[c].pc \in {"idle", "find"} /\ caller'[c].moved = 0
  BY <1>1, <1>2, MigratedFacts
<1>5. Books' /\ \A r \in Caller : Held(r)' = Held(r)
  BY <1>1, <1>2, <1>3, <1>4, MovedBooks
<1> QED
  BY <1>1, <1>2, <1>4, <1>5, MongoStays

LEMMA ClaimSound ==
    ASSUME IInv, IInv', ~fault, ~fault', Sound, NEW c \in Caller, MongoClaimRefund(c)
    PROVE  Sound' /\ Ledger!Next
<1>1. /\ backend = "mongo" /\ UNCHANGED <<backend, window, counter, reset, carried>>
      /\ caller[c].pc = "holding" /\ ~reset.on
  BY DEF MongoClaimRefund, Mongo, At
<1>2. TypeOK /\ HoldersHold /\ Books /\ caller[c].moved = 0
  BY <1>1 DEF IInv, Sound, Carrying, At
<1>3. PICK r \in Caller : r = caller[c].res
  BY <1>1, <1>2 DEF HoldersHold
<1>4. /\ OthersKept(c) /\ Settle(r, "refunded") /\ caller'[c].pc = "decrement"
      /\ caller'[c].res = r /\ caller'[c].cost = row[r].cost /\ caller'[c].moved = 0
  BY <1>2, <1>3, ClaimFacts
<1>5. Books' /\ \A q \in Caller : Held(q)' = Held(q)
  BY <1>1, <1>2, <1>3, <1>4, ClaimedBooks
<1> QED
  BY <1>1, <1>2, <1>4, <1>5, MongoStays

\* The refund is made when it reaches the counter.
LEMMA DecrementSound ==
    ASSUME IInv, IInv', ~fault, ~fault', Sound, NEW c \in Caller, MongoDecrement(c)
    PROVE  Sound' /\ Ledger!Next
<1>1. /\ backend = "mongo" /\ UNCHANGED <<backend, window, row, reset, carried>>
      /\ caller[c].pc = "decrement" /\ caller[c].pc \in Busy
      /\ counter[caller[c].window] # None
      /\ counter' = [counter EXCEPT ![caller[c].window] = @ - caller[c].cost]
      /\ Hand(c, caller[c].res)
  BY DEF MongoDecrement, Mongo, At, Busy
<1>2. /\ TypeOK /\ TypeOK' /\ HoldersHold /\ ~reset.on /\ Counting /\ Carrying /\ Books
      /\ caller[c].window \in Window /\ caller[c].cost \in Nat
  BY <1>1, CommandSound DEF IInv
<1>3. PICK r \in Caller : r = caller[c].res
  BY <1>1, <1>2 DEF HoldersHold
<1>4. OthersKept(c) /\ caller'[c].pc = "holding" /\ caller'[c].res = r /\ caller'[c].moved = 0
  BY <1>1, <1>2, <1>3, HandFacts
<1>5. /\ Books' /\ HeldElsewhere(r) /\ Held(r).status = "reserved" /\ Held(r).cost = caller[c].cost
      /\ Held(r)' = [Held(r) EXCEPT !.status = "refunded"]
  BY <1>1, <1>2, <1>3, <1>4, PaidBooks
<1>6. PICK w \in Window : w = caller[c].window
  BY <1>2
<1>7. PICK y \in Nat : y = caller[c].cost
  BY <1>2
<1>8. counter' = [counter EXCEPT ![w] = UsedIn(w) + (-y)]
  <2>1. counter[w] \in Int /\ UsedIn(w) = counter[w]
    BY <1>1, <1>2, <1>6 DEF TypeOK, UsedIn
  <2>2. counter[w] - y = UsedIn(w) + (-y)
    BY <2>1
  <2> QED
    BY <1>1, <1>6, <1>7, <2>2
<1>9. Usage' = Usage + (-y) /\ Usage \in Int
  <2>1. -y \in Int /\ UNCHANGED <<backend, reset, carried>>
    BY <1>1
  <2> QED
    BY ONLY <1>2, <1>8, <2>1, w \in Window, UsageChanged
<1>10. Carrying'
  BY <1>1, <1>2, <1>4, CarryingNothing
<1>11. Sound'
  BY <1>1, <1>2, <1>5, <1>10 DEF Sound, Wiped
<1>12. Lasting /\ Usage' = Usage - Held(r).cost
  BY <1>1, <1>5, <1>7, <1>9 DEF Lasting
<1> QED
  BY <1>5, <1>11, <1>12, LedgerRefunds

-----------------------------------------------------------------------------
(* The stores implement the ledger *)

\* A fault lasts, and so does the change of the policy.
LEMMA LastingStep == ASSUME TypeOK, Next PROVE Lasting
<1>1. \A c \in Caller : Finalize(c) \/ Refund(c) \/ MemoryReserve(c) \/ PgStep(c) => Lasting
  BY DEF Lasting, Finalize, Refund, MemoryReserve, PgStep, PgFind, PgEnsureCounter, PgInsert,
     PgFindWinner, PgAbort
<1>2. ASSUME NEW c \in Caller, MongoStep(c) PROVE Lasting
  <2>1. window' = window
    BY <1>2 DEF MongoStep, MongoScan, MongoTake, MongoInc, MongoMove, MongoFind, MongoUpsertCounter,
       MongoInsert, MongoFindWinner, MongoCharge, MongoRelease, MongoClaimRefund, MongoDecrement,
       MongoCrash
  <2>2. ASSUME NEW r, MongoHand(c, r) PROVE fault => fault'
    BY <2>2 DEF MongoHand
  <2>3. CASE MongoFind(c) \/ MongoFindWinner(c)
    BY <2>1, <2>2, <2>3 DEF MongoFind, MongoFindWinner, Lasting
  <2>4. CASE MongoMove(c) \/ MongoDecrement(c)
    BY <2>1, <2>4 DEF MongoMove, MongoDecrement, Lasting
  <2>5. CASE MongoClaimRefund(c)
    BY <2>1, <2>5 DEF MongoClaimRefund, Lasting
  <2>6. CASE MongoCrash(c)
    BY <2>1, <2>6 DEF MongoCrash, Lasting
  <2> QED
    BY <1>2, <2>1, <2>3, <2>4, <2>5, <2>6
       DEF Lasting, MongoStep, MongoScan, MongoTake, MongoInc, MongoUpsertCounter, MongoInsert,
           MongoCharge, MongoRelease
<1>3. \A c, op, cost, key : Begin(c, op, cost, key) => Lasting
  BY DEF Begin, Lasting
<1>4. MemoryReset \/ MemoryClose \/ PgResetStart \/ MongoResetCounters \/ ChangePolicy => Lasting
  BY DEF Lasting, MemoryReset, MemoryClose, PgResetStart, MongoResetCounters, ChangePolicy
<1>5. PgResetCommit => Lasting
  BY DEF Lasting, PgResetCommit
<1>6. MongoResetRows => Lasting
  BY DEF Lasting, MongoResetRows
<1> QED
  BY <1>1, <1>2, <1>3, <1>4, <1>5, <1>6 DEF Next

LEMMA MongoStepSound ==
    ASSUME IInv, IInv', ~fault, ~fault', Sound, NEW c \in Caller, MongoStep(c)
    PROVE  Sound' /\ Ledger!Next
  BY MigrationSound, LookupSound, InsertSound, ChargeSound, ReleaseSound, MoveSound, ClaimSound,
     DecrementSound DEF MongoStep

LEMMA SoundStep ==
    ASSUME IInv, IInv', ~fault, ~fault', Sound, Next PROVE Sound' /\ Ledger!Next
<1>1. CASE \E c \in Caller, cost \in Cost, key \in Key \cup {None} : Begin(c, "reserve", cost, key)
  BY <1>1, BeginSound
<1>2. CASE \E c \in Caller : backend = "mongo" /\ Begin(c, "usage", 0, None)
  BY <1>2, BeginSound
<1> QED
  BY <1>1, <1>2, MemorySound, PgSoundStep, MongoStepSound, FinalizeSound, RefundSound,
     PlainResetSound, MongoResetSound, PolicySound DEF Next

LEMMA RefineNext == RInv /\ [Next]_vars => RInv' /\ [Ledger!Next]_(Ledger!ledger)
<1> SUFFICES ASSUME RInv, [Next]_vars PROVE RInv' /\ [Ledger!Next]_(Ledger!ledger)
  OBVIOUS
<1>1. IInv /\ IInv' /\ (~fault => Sound)
  BY InvNext DEF RInv
<1>2. CASE UNCHANGED vars
  <2>1. UNCHANGED <<backend, window, counter, row, caller, reset, fault, carried>>
    BY <1>2 DEF vars
  <2>2. /\ Usage' = Usage /\ \A r \in Caller : Held(r)' = Held(r)
        /\ Owed' = Owed /\ UsedIn(1)' = UsedIn(1)
    BY <2>1 DEF Usage, UsedIn, Held, Uncharged, At, Owed, Debt, Pending
  <2>3. ASSUME Sound PROVE Sound'
    <3>1. Carrying'
      BY <2>1, <2>3, CarryingSame DEF Sound
    <3>2. Books'
      BY <2>1, <2>3 DEF Sound, Books, Booked, RefundOnce, KeysUnique, Uncharged, At
    <3>3. (backend = "mongo" => Wiped)' /\ (backend # "mongo" => Plain /\ Covered)'
      BY <2>1, <2>2, <2>3 DEF Sound, Wiped, Plain, Covered
    <3> QED
      BY <3>1, <3>2, <3>3 DEF Sound
  <2>4. UNCHANGED Ledger!ledger
    BY <2>1, <2>2 DEF Ledger!ledger
  <2> QED
    BY <1>1, <2>1, <2>3, <2>4 DEF RInv
<1>3. CASE Next
  <2>1. Lasting
    BY <1>1, <1>3, LastingStep DEF IInv
  <2>2. CASE fault'
    BY <1>1, <2>1, <2>2, LedgerVoid DEF RInv
  <2>3. CASE ~fault'
    BY <1>1, <1>3, <2>1, <2>3, SoundStep DEF RInv, Lasting
  <2> QED
    BY <2>2, <2>3
<1> QED
  BY <1>2, <1>3

LEMMA RefineInit == Init => RInv /\ Ledger!Init
<1> SUFFICES ASSUME Init PROVE RInv /\ Ledger!Init
  OBVIOUS
<1>1. IInv /\ TypeOK
  BY InvInit DEF IInv
<1>2. /\ \A c \in Caller : /\ caller[c] = Fresh /\ row[c] = NoRow /\ caller[c].pc = "idle"
                           /\ caller[c].window = 1 /\ caller[c].moved = 0
      /\ ~reset.on /\ window = 1 /\ fault = FALSE /\ carried = 0
      /\ counter = [w \in Window |-> None]
  BY DEF Init, Fresh
<1>3. UsedIn(1) = 0 /\ UsedIn(2) = 0 /\ counter[2] = None
  BY <1>2 DEF UsedIn, Window
<1>4. Carrying
  <2>1. Moved = Nothing
    BY <1>2 DEF Moved, Nothing
  <2> QED
    BY <1>2, <2>1, NothingAdds DEF Carrying
<1>5. Books /\ Wiped /\ Plain
  BY <1>2, <1>3 DEF Books, Booked, RefundOnce, KeysUnique, Wiped, Plain, NoRow, Uncharged, At,
     Charged, MongoOnly
<1>6. Covered
  <2>1. \A c \in Caller : Debt(c) = 0 /\ Pending(c) = 0
    BY <1>2 DEF Debt, Pending, At, NoRow
  <2>2. Owed \in [Caller -> Nat] /\ \A c \in Caller : Owed[c] = 0
    BY <2>1 DEF Owed
  <2> QED
    BY <1>3, <2>2, CoveredNothing DEF Covered
<1>7. RInv
  BY <1>1, <1>4, <1>5, <1>6 DEF RInv, Sound
<1>8. Usage = 0 /\ \A r \in Caller : Held(r) = NotHeld
  BY <1>2, <1>3, HeldFacts DEF Usage
<1>9. Ledger!Init
  BY <1>2, <1>8 DEF Ledger!Init, Ledger!NotHeld, NotHeld
<1> QED
  BY <1>7, <1>9

\* However reserves, retries under one key, refunds, resets and migrations
\* interleave, each of the three stores acts as the atomic ledger: the usage is
\* what the live reservations cost, it stays within the limit until the window
\* changes, a key is charged once and a refund is returned once.
THEOREM StoresImplementLedger == Spec => ImplementsLedger
<1>1. Init => RInv /\ Ledger!Init
  BY RefineInit
<1>2. RInv /\ [Next]_vars => RInv' /\ [Ledger!Next]_(Ledger!ledger)
  BY RefineNext
<1> QED
  BY <1>1, <1>2, PTL DEF Spec, ImplementsLedger, Ledger!LedgerSpec

=============================================================================
