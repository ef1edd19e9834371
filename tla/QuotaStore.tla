----------------------------- MODULE QuotaStore ------------------------------
(***************************************************************************)
(* QuotaService over its three stores, for one subject and one resource.   *)
(* The store is chosen when the application opens.  The memory store works *)
(* under a lock, so an operation is one step.  A Postgres operation is one *)
(* transaction under READ COMMITTED.  The Mongo store has no transaction:  *)
(* every command is a step, and another caller may act between two of them.*)
(*                                                                         *)
(* A caller stands for the reservation id (a fresh uuid) of its command.   *)
(* Windows never meet in the memory and the Postgres store.  In the Mongo  *)
(* store a change of the policy's window length leaves a counter whose     *)
(* reset_at is still to come, and that counter is migrated.                *)
(***************************************************************************)
EXTENDS Integers, FiniteSets

CONSTANTS
    Caller,
    Key,                       \* idempotency keys
    Cost,                      \* the costs a caller may ask for
    Limit,                     \* QuotaPolicy.limit
    None

ASSUME QuotaAssumption ==
    /\ Limit \in Nat \ {0}
    /\ Cost \subseteq Nat \ {0}
    /\ IsFiniteSet(Caller)
    /\ None \notin Caller \cup Key \cup Int

Window == 1..2                 \* window keys, before and after the change

VARIABLES
    backend,
    window,                    \* the window key of commands made now
    counter,                   \* used, of each window's counter
    row,                       \* the reservations, by id
    caller,
    lock,                      \* Postgres: who locks the counter's row
    reset,                     \* a reset under way
    fault,                     \* history: a fault some store does not survive
    carried                    \* history: usage between two counters, in all

vars == <<backend, window, counter, row, caller, lock, reset, fault, carried>>

NoRow == [status |-> "absent", window |-> 1, cost |-> 0, key |-> None]

Fresh == [pc |-> "idle", op |-> "reserve", window |-> 1, cost |-> 0, key |-> None,
          res |-> None, moved |-> 0]

\* Outside an operation; in the middle of one.
Idle == {"idle", "holding", "no_winner"}
Busy == {"scan", "take", "inc", "move", "find", "counter", "insert", "again",
         "charge", "release", "decrement"}

Reservation == [status : {"absent", "reserved", "finalized", "refunded"},
                window : Window, cost : Cost \cup {0}, key : Key \cup {None}]

Command == [pc : Idle \cup Busy, op : {"reserve", "usage"}, window : Window,
            cost : Cost \cup {0}, key : Key \cup {None}, res : Caller \cup {None},
            moved : Int]

TypeOK ==
    /\ backend \in {"memory", "postgres", "mongo", "closed"}
    /\ window \in Window
    /\ counter \in [Window -> Int \cup {None}]
    /\ row \in [Caller -> Reservation]
    /\ caller \in [Caller -> Command]
    /\ lock \in Caller \cup {None}
    /\ reset \in [on : BOOLEAN, rows : SUBSET Caller]
    /\ fault \in BOOLEAN
    /\ carried \in Int

Init ==
    /\ backend \in {"memory", "postgres", "mongo"}
    /\ window = 1
    /\ counter = [w \in Window |-> None]
    /\ row = [r \in Caller |-> NoRow]
    /\ caller = [c \in Caller |-> Fresh]
    /\ lock = None
    /\ reset = [on |-> FALSE, rows |-> {}]
    /\ fault = FALSE
    /\ carried = 0

-----------------------------------------------------------------------------
(* Shared by the stores *)

At(c, pc) == caller[c].pc = pc

Goto(c, pc) == caller' = [caller EXCEPT ![c].pc = pc]

\* The call ends: with reservation r, or without one.  No property tells a
\* RateLimitError from a KeyError or a lost connection, so they end alike.
Hand(c, r) == caller' = [caller EXCEPT ![c] = [Fresh EXCEPT !.pc = "holding", !.res = r]]

End(c) == caller' = [caller EXCEPT ![c] = Fresh]

UsedIn(w) == IF counter[w] = None THEN 0 ELSE counter[w]

\* _find_idempotent_reservation: the rows under the command's window and key.
Idempotent(c) ==
    {r \in Caller : /\ caller[c].key # None
                    /\ row[r].status # "absent"
                    /\ row[r].window = caller[c].window
                    /\ row[r].key = caller[c].key}

\* The row of a command, as reserve inserts it.
Reserved(c) == [status |-> "reserved", window |-> caller[c].window,
                cost |-> caller[c].cost, key |-> caller[c].key]

Admits(c) == UsedIn(caller[c].window) + caller[c].cost <= Limit

\* QuotaService.reserve and get_usage make a command for the window of now.
\* A caller comes back with a new reservation id, unless its old one is stored.
Begin(c, op, cost, key) ==
    /\ backend # "closed"
    /\ caller[c].pc \in {"idle", "no_winner"}
    /\ row[c] = NoRow
    /\ caller' = [caller EXCEPT ![c] =
                    [Fresh EXCEPT !.pc = IF backend = "mongo" THEN "scan" ELSE "find",
                                  !.op = op, !.window = window, !.cost = cost,
                                  !.key = key]]
    /\ fault' = (fault \/ (backend = "mongo" /\ reset.on))
    /\ UNCHANGED <<backend, window, counter, row, lock, reset, carried>>

-----------------------------------------------------------------------------
(* MemoryQuotaStore *)

MemoryReserve(c) ==
    /\ backend = "memory" /\ At(c, "find")
    /\ \/ \E r \in Idempotent(c) : Hand(c, r) /\ UNCHANGED <<counter, row>>
       \/ /\ Idempotent(c) = {} /\ Admits(c)
          /\ counter' = [counter EXCEPT ![caller[c].window] = UsedIn(caller[c].window) + caller[c].cost]
          /\ row' = [row EXCEPT ![c] = Reserved(c)]
          /\ Hand(c, c)
       \/ /\ Idempotent(c) = {} /\ ~Admits(c)
          /\ counter' = [counter EXCEPT ![caller[c].window] = UsedIn(caller[c].window)]
          /\ End(c)
          /\ UNCHANGED row
    /\ UNCHANGED <<backend, window, lock, reset, fault, carried>>

MemoryReset ==
    /\ backend = "memory"
    /\ counter' = [w \in Window |-> None]
    /\ row' = [r \in Caller |-> NoRow]
    /\ UNCHANGED <<backend, window, caller, lock, reset, fault, carried>>

MemoryClose ==
    /\ backend = "memory"
    /\ backend' = "closed"
    /\ counter' = [w \in Window |-> None]
    /\ row' = [r \in Caller |-> NoRow]
    /\ UNCHANGED <<window, caller, lock, reset, fault, carried>>

-----------------------------------------------------------------------------
(* PostgresQuotaStore *)

Postgres(c, pc) == backend = "postgres" /\ At(c, pc)

\* The usage of a row that was found is read by .one(), which raises without a
\* counter.
PgFind(c) ==
    /\ Postgres(c, "find")
    /\ \/ \E r \in Idempotent(c) :
             IF counter[row[r].window] = None THEN End(c) ELSE Hand(c, r)
       \/ Idempotent(c) = {} /\ Goto(c, "counter")
    /\ UNCHANGED <<backend, window, counter, row, lock, reset, fault, carried>>

\* Mutant of PgEnsureCounter: the counter is inserted but an existing row is
\* left alone (DO NOTHING), so it is not locked.
PgEnsureCounterUnlocked(c) ==
    /\ Postgres(c, "counter")
    /\ Goto(c, "insert")
    /\ UNCHANGED <<backend, window, counter, row, lock, reset, fault, carried>>

\* The upsert locks the counter's row until the transaction ends.  What it
\* inserts is seen by others at the commit.
PgEnsureCounter(c) ==
    /\ Postgres(c, "counter")
    /\ lock = None
    /\ lock' = c
    /\ Goto(c, "insert")
    /\ UNCHANGED <<backend, window, counter, row, reset, fault, carried>>

Unlock(c) == lock' = IF lock = c THEN None ELSE lock

\* INSERT ... ON CONFLICT DO NOTHING, then the conditional increment, or the
\* deletion of the row just inserted; the commit makes it all visible at once.
PgInsert(c) ==
    /\ Postgres(c, "insert")
    /\ LET w == caller[c].window IN
       \/ /\ Idempotent(c) # {}
          /\ Goto(c, "again")
          /\ UNCHANGED <<counter, row, lock>>
       \/ /\ Idempotent(c) = {} /\ Admits(c)
          /\ counter' = [counter EXCEPT ![w] = UsedIn(w) + caller[c].cost]
          /\ row' = [row EXCEPT ![c] = Reserved(c)]
          /\ Hand(c, c)
          /\ Unlock(c)
       \/ /\ Idempotent(c) = {} /\ ~Admits(c)
          /\ counter' = [counter EXCEPT ![w] = UsedIn(w)]
          /\ End(c)
          /\ Unlock(c)
          /\ UNCHANGED row
    /\ UNCHANGED <<backend, window, reset, fault, carried>>

\* The conflict's winner is looked for again, or the RuntimeError is raised.
PgFindWinner(c) ==
    /\ Postgres(c, "again")
    /\ \/ /\ \E r \in Idempotent(c) : Hand(c, r)
          /\ counter' = [counter EXCEPT ![caller[c].window] = UsedIn(caller[c].window)]
       \/ /\ Idempotent(c) = {}
          /\ Goto(c, "no_winner")
          /\ UNCHANGED counter
    /\ Unlock(c)
    /\ UNCHANGED <<backend, window, row, reset, fault, carried>>

\* A lost connection, or the victim of a deadlock: the transaction rolls back.
PgAbort(c) ==
    /\ backend = "postgres" /\ caller[c].pc \in Busy
    /\ End(c)
    /\ Unlock(c)
    /\ UNCHANGED <<backend, window, counter, row, reset, fault, carried>>

\* reset_usage and reset_resource: the rows deleted are those committed when the
\* statement starts; the counter is deleted once nobody locks it, and both are
\* seen at the commit.
PgResetStart ==
    /\ backend = "postgres" /\ ~reset.on
    /\ reset' = [on |-> TRUE, rows |-> {r \in Caller : row[r] # NoRow}]
    /\ UNCHANGED <<backend, window, counter, row, caller, lock, fault, carried>>

PgResetCommit ==
    /\ backend = "postgres" /\ reset.on /\ lock = None
    /\ row' = [r \in Caller |-> IF r \in reset.rows THEN NoRow ELSE row[r]]
    /\ counter' = [w \in Window |-> None]
    /\ reset' = [on |-> FALSE, rows |-> {}]
    /\ fault' = (fault \/ \E r \in Caller : row'[r] # NoRow)
    /\ UNCHANGED <<backend, window, caller, lock, carried>>

-----------------------------------------------------------------------------
(* finalize and refund: one step in the memory and the Postgres store *)

\* The claim of a reserved row: another caller's claim waits for it, then
\* matches nothing.
Settle(r, status) ==
    /\ row[r].status = "reserved"
    /\ row' = [row EXCEPT ![r].status = status]

\* finalize; the stores raise, and roll back, when the counter is gone.  The
\* Mongo store claims the row before it looks for the counter.
Finalize(c) ==
    /\ At(c, "holding")
    /\ LET r == caller[c].res IN
       /\ row[r] # NoRow
       /\ backend # "mongo" => counter[row[r].window] # None
       /\ Settle(r, "finalized")
    /\ UNCHANGED <<backend, window, counter, caller, lock, reset, fault, carried>>

\* Mutant of Decremented: without the floor at zero.
DecrementedUnfloored(used, cost) == used - cost

Decremented(used, cost) == IF used >= cost THEN used - cost ELSE 0

Refund(c) ==
    /\ backend \in {"memory", "postgres"} /\ At(c, "holding") /\ lock = None
    /\ LET r == caller[c].res
           w == row[r].window IN
       /\ counter[w] # None
       /\ Settle(r, "refunded")
       /\ counter' = [counter EXCEPT ![w] = Decremented(@, row[r].cost)]
    /\ UNCHANGED <<backend, window, caller, lock, reset, fault, carried>>

-----------------------------------------------------------------------------
(* MongoQuotaStore *)

Mongo(c, pc) == backend = "mongo" /\ At(c, pc)

Other(c) == 3 - caller[c].window

\* What _migrate_active_counters returns to.
Migrated(c) == IF caller[c].op = "usage" THEN End(c) ELSE Goto(c, "find")

\* The cursor over the counters: the other window's is stale while its
\* reset_at is still to come.
MongoScan(c) ==
    /\ Mongo(c, "scan")
    /\ IF counter[Other(c)] = None THEN Migrated(c) ELSE Goto(c, "take")
    /\ UNCHANGED <<backend, window, counter, row, lock, reset, fault, carried>>

\* find_one_and_delete: only one migration gets the stale counter.
MongoTake(c) ==
    /\ Mongo(c, "take")
    /\ IF counter[Other(c)] = None
       THEN Migrated(c) /\ UNCHANGED <<counter, carried>>
       ELSE /\ caller' = [caller EXCEPT ![c].pc = "inc", ![c].moved = counter[Other(c)]]
            /\ counter' = [counter EXCEPT ![Other(c)] = None]
            /\ carried' = carried + counter[Other(c)]
    /\ UNCHANGED <<backend, window, row, lock, reset, fault>>

MongoInc(c) ==
    /\ Mongo(c, "inc")
    /\ counter' = [counter EXCEPT ![caller[c].window] =
                     UsedIn(caller[c].window) + caller[c].moved]
    /\ caller' = [caller EXCEPT ![c].pc = "move", ![c].moved = 0]
    /\ carried' = carried - caller[c].moved
    /\ UNCHANGED <<backend, window, row, lock, reset, fault>>

\* update_many over the stale window's reservations.  It raises when a key is
\* taken in the new window already, with some of them moved and some not.
Movable(c) == {r \in Caller : row[r] # NoRow /\ row[r].window = Other(c)}

Clash(c) == \E r \in Movable(c), s \in Caller :
                /\ row[s].status # "absent" /\ row[s].window = caller[c].window
                /\ row[s].key = row[r].key /\ row[r].key # None

Move(c, rs) == row' = [r \in Caller |-> IF r \in rs
                         THEN [row[r] EXCEPT !.window = caller[c].window] ELSE row[r]]

MongoMove(c) ==
    /\ Mongo(c, "move")
    /\ \/ /\ ~Clash(c)
          /\ Move(c, Movable(c))
          /\ Migrated(c)
          /\ UNCHANGED fault
       \/ /\ Clash(c)
          /\ Move(c, {r \in Movable(c) : row[r].key = None})
          /\ End(c)
          /\ fault' = TRUE
    /\ UNCHANGED <<backend, window, counter, lock, reset, carried>>

\* A reservation whose row is stored but whose cost was not charged (yet).
Uncharged(r) == caller[r].pc \in {"charge", "release"}

\* _to_reservation: without a counter it raises KeyError.
MongoHand(c, r) ==
    /\ IF counter[row[r].window] = None THEN End(c) ELSE Hand(c, r)
    /\ fault' = (fault \/ (counter[row[r].window] # None /\ Uncharged(r)))

MongoFind(c) ==
    /\ Mongo(c, "find")
    /\ \/ \E r \in Idempotent(c) : MongoHand(c, r)
       \/ Idempotent(c) = {} /\ Goto(c, "counter") /\ UNCHANGED fault
    /\ UNCHANGED <<backend, window, counter, row, lock, reset, carried>>

MongoUpsertCounter(c) ==
    /\ Mongo(c, "counter")
    /\ counter' = [counter EXCEPT ![caller[c].window] = UsedIn(caller[c].window)]
    /\ Goto(c, "insert")
    /\ UNCHANGED <<backend, window, row, lock, reset, fault, carried>>

\* Mutant of MongoInsert: the unique index over the key is missing.
MongoInsertAnyway(c) ==
    /\ Mongo(c, "insert")
    /\ row' = [row EXCEPT ![c] = Reserved(c)] /\ Goto(c, "charge")
    /\ UNCHANGED <<backend, window, counter, lock, reset, fault, carried>>

\* insert_one, against the unique index over the key.
MongoInsert(c) ==
    /\ Mongo(c, "insert")
    /\ IF Idempotent(c) = {}
       THEN row' = [row EXCEPT ![c] = Reserved(c)] /\ Goto(c, "charge")
       ELSE UNCHANGED row /\ Goto(c, "again")
    /\ UNCHANGED <<backend, window, counter, lock, reset, fault, carried>>

MongoFindWinner(c) ==
    /\ Mongo(c, "again")
    /\ \/ \E r \in Idempotent(c) : MongoHand(c, r)
       \/ Idempotent(c) = {} /\ Goto(c, "no_winner") /\ UNCHANGED fault
    /\ UNCHANGED <<backend, window, counter, row, lock, reset, carried>>

\* The conditional find_one_and_update; no counter matches as little as a full
\* one.
MongoCharge(c) ==
    /\ Mongo(c, "charge")
    /\ IF counter[caller[c].window] # None /\ Admits(c)
       THEN /\ counter' = [counter EXCEPT ![caller[c].window] = @ + caller[c].cost]
            /\ Hand(c, c)
       ELSE UNCHANGED counter /\ Goto(c, "release")
    /\ UNCHANGED <<backend, window, row, lock, reset, fault, carried>>

MongoRelease(c) ==
    /\ Mongo(c, "release")
    /\ row' = [row EXCEPT ![c] = NoRow]
    /\ End(c)
    /\ UNCHANGED <<backend, window, counter, lock, reset, fault, carried>>

\* refund claims the row, keeping the window it had then.
MongoClaimRefund(c) ==
    /\ Mongo(c, "holding")
    /\ row[caller[c].res].status = "reserved"
    /\ Settle(caller[c].res, "refunded")
    /\ caller' = [caller EXCEPT ![c].pc = "decrement", ![c].window = row[caller[c].res].window,
                                ![c].cost = row[caller[c].res].cost]
    /\ fault' = (fault \/ reset.on)
    /\ UNCHANGED <<backend, window, counter, lock, reset, carried>>

\* The counter is decremented; if it is gone, KeyError, and the refund is lost.
MongoDecrement(c) ==
    /\ Mongo(c, "decrement")
    /\ IF counter[caller[c].window] = None
       THEN UNCHANGED counter /\ fault' = TRUE
       ELSE /\ counter' = [counter EXCEPT ![caller[c].window] = @ - caller[c].cost]
            /\ UNCHANGED fault
    /\ Hand(c, caller[c].res)
    /\ UNCHANGED <<backend, window, row, lock, reset, carried>>

\* The process dies between two commands; what was written stays.
MongoCrash(c) ==
    /\ backend = "mongo" /\ caller[c].pc \in Busy
    /\ End(c)
    /\ fault' = (fault \/ caller[c].pc \in {"inc", "move", "charge", "release", "decrement"})
    /\ carried' = carried - caller[c].moved
    /\ UNCHANGED <<backend, window, counter, row, lock, reset>>

\* reset_usage and reset_resource: two deletions.
MongoResetRows ==
    /\ backend = "mongo" /\ ~reset.on
    /\ row' = [r \in Caller |-> NoRow]
    /\ reset' = [reset EXCEPT !.on = TRUE]
    /\ fault' = (fault \/ \E c \in Caller : caller[c].pc \in Busy)
    /\ UNCHANGED <<backend, window, counter, caller, lock, carried>>

MongoResetCounters ==
    /\ backend = "mongo" /\ reset.on
    /\ counter' = [w \in Window |-> None]
    /\ reset' = [reset EXCEPT !.on = FALSE]
    /\ UNCHANGED <<backend, window, row, caller, lock, fault, carried>>

\* The policy's window length is changed by a deployment.
ChangePolicy ==
    /\ backend = "mongo" /\ window = 1
    /\ window' = 2
    /\ UNCHANGED <<backend, counter, row, caller, lock, reset, fault, carried>>

-----------------------------------------------------------------------------

PgStep(c) ==
    PgFind(c) \/ PgEnsureCounter(c) \/ PgInsert(c) \/ PgFindWinner(c) \/ PgAbort(c)

MongoStep(c) ==
    \/ MongoScan(c) \/ MongoTake(c) \/ MongoInc(c) \/ MongoMove(c)
    \/ MongoFind(c) \/ MongoUpsertCounter(c) \/ MongoInsert(c) \/ MongoFindWinner(c)
    \/ MongoCharge(c) \/ MongoRelease(c)
    \/ MongoClaimRefund(c) \/ MongoDecrement(c) \/ MongoCrash(c)

Next ==
    \/ \E c \in Caller, cost \in Cost, key \in Key \cup {None} : Begin(c, "reserve", cost, key)
    \/ \E c \in Caller : backend = "mongo" /\ Begin(c, "usage", 0, None)
    \/ \E c \in Caller : MemoryReserve(c) \/ PgStep(c) \/ MongoStep(c) \/ Finalize(c) \/ Refund(c)
    \/ MemoryReset \/ MemoryClose
    \/ PgResetStart \/ PgResetCommit
    \/ MongoResetRows \/ MongoResetCounters \/ ChangePolicy

Spec == Init /\ [][Next]_vars

-----------------------------------------------------------------------------
(* Properties *)

\* A reservation counts from the moment it is charged until the moment its
\* refund reaches the counter.
Held(r) ==
    IF row[r] = NoRow \/ Uncharged(r)
    THEN [status |-> "none", cost |-> 0, key |-> None]
    ELSE [status |-> IF \E c \in Caller : At(c, "decrement") /\ caller[c].res = r
                     THEN "reserved" ELSE row[r].status,
          cost |-> row[r].cost, key |-> row[r].key]

\* Usage that a migration carries between two counters is not lost; what a
\* Mongo reset is about to delete is gone already.
Usage ==
    IF backend = "mongo" /\ reset.on THEN 0
    ELSE UsedIn(1) + UsedIn(2) + carried

Ledger == INSTANCE QuotaLedger WITH
    held <- [r \in Caller |-> Held(r)],
    used <- Usage,
    steady <- window = 1,
    void <- fault

\* Every store implements the ledger: however reserves, retries under one key,
\* refunds and migrations interleave, the usage is what the live reservations
\* cost, it stays within the limit while the window's length is unchanged, a
\* key is charged once and a refund is returned once.  The exceptions are the
\* steps that set fault.
ImplementsLedger == Ledger!LedgerSpec

\* "counter SHALL never become negative": in the memory and the Postgres store
\* not even when a reset left a reservation behind that is refunded later, in
\* the Mongo store unless a fault or a change of window came before.
NeverNegative ==
    backend # "mongo" \/ (~fault /\ window = 1)
        => \A w \in Window : UsedIn(w) >= 0

\* "quota reservation conflict without a winner" is never raised: the lock on
\* the counter keeps the winner's row until the loser has read it.
ConflictHasWinner ==
    backend = "postgres" => \A c \in Caller : ~At(c, "no_winner")

=============================================================================
