----------------------------- MODULE QuotaLedger -----------------------------
(***************************************************************************)
(* What QuotaStore promises for one subject and one resource: reserving,   *)
(* finalizing, refunding and resetting are atomic, the usage is what the   *)
(* reservations that were not refunded cost, and it never passes the limit.*)
(***************************************************************************)
EXTENDS Integers

CONSTANTS
    Caller,                    \* a caller stands for the reservation it makes
    Limit,
    None

VARIABLES
    held,                      \* the reservations: status, cost and key
    used,                      \* the usage the store reports
    steady,                    \* the length of the policy's window never changed
    void                       \* a fault the store does not promise to survive

ledger == <<held, used, steady, void>>

NotHeld == [status |-> "none", cost |-> 0, key |-> None]

Init ==
    /\ held = [r \in Caller |-> NotHeld]
    /\ used = 0
    /\ steady = TRUE
    /\ void = FALSE

\* A key names one reservation, which is charged when it is made.
Reserve(r) ==
    /\ held[r] = NotHeld
    /\ held'[r].status = "reserved"
    /\ held' = [held EXCEPT ![r] = held'[r]]
    /\ used' = used + held'[r].cost
    /\ steady => /\ used' <= Limit
                 /\ \A s \in Caller \ {r} :
                        held'[r].key = None \/ held[s].key # held'[r].key

Finalize(r) ==
    /\ held[r].status = "reserved"
    /\ held' = [held EXCEPT ![r].status = "finalized"]
    /\ UNCHANGED used

Refund(r) ==
    /\ held[r].status = "reserved"
    /\ held' = [held EXCEPT ![r].status = "refunded"]
    /\ used' = used - held[r].cost

Reset ==
    /\ held' = [r \in Caller |-> NotHeld]
    /\ used' = 0

Operation ==
    \/ \E r \in Caller : Reserve(r) \/ Finalize(r) \/ Refund(r)
    \/ Reset
    \/ UNCHANGED <<held, used>>

\* The window changes for good; after a fault nothing is promised.
Next ==
    /\ void => void'
    /\ steady' => steady
    /\ Operation \/ void'

LedgerSpec == Init /\ [][Next]_ledger

=============================================================================
