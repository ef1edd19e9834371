---------------------------- MODULE FallbackChain ----------------------------
(***************************************************************************)
(* Concurrent LLMInstance.ainvoke calls over one role's fallback chain, the*)
(* targets 1..CHAIN_LENGTH in failover order, each behind its breaker.     *)
(*                                                                         *)
(* Everything runs on one event loop, and _call is the only await: what a  *)
(* call does from one provider answer to the next await (report the        *)
(* outcome, check the deadline, walk past refusing breakers, acquire) is   *)
(* one step.  Calls admitted at different times answer in any order.       *)
(***************************************************************************)
EXTENDS CircuitBreaker

CONSTANTS Call, CHAIN_LENGTH

ASSUME ChainAssumption == CHAIN_LENGTH \in Nat \ {0}

VARIABLES
    breaker,                   \* one per target
    call,                      \* what each call awaits
    disturbed                  \* history: targets where a call that holds no probe
                               \* slot reported while the breaker was not closed
vars == <<breaker, call, disturbed>>

Target == 1..CHAIN_LENGTH

\* at is the target whose answer is awaited, 0 for none.  probe says that the
\* call was let through as a probe: "held" until its slot's lease runs out.
CallState == [at    : 0..CHAIN_LENGTH,
              probe : {"no", "held", "lapsed"},
              late  : BOOLEAN]                  \* the chain deadline has passed

NoCall == [at |-> 0, probe |-> "no", late |-> FALSE]

TypeOK ==
    /\ breaker \in [Target -> Breaker]
    /\ call \in [Call -> CallState]
    /\ disturbed \subseteq Target

Init ==
    /\ breaker = [t \in Target |-> NewBreaker]
    /\ call = [c \in Call |-> NoCall]
    /\ disturbed = {}

\* ModelRouter.try_acquire: a single-target chain is never gated.
TryAcquire(b, t) == CHAIN_LENGTH = 1 \/ Admits(b[t])

TakeSlot(b, t) ==
    IF CHAIN_LENGTH = 1 THEN b ELSE [b EXCEPT ![t] = Acquired(@)]

\* The targets from position i on that let the call through; it takes the first.
Admitting(b, i) == {t \in Target : t >= i /\ TryAcquire(b, t)}

First(S, t) == t \in S /\ \A u \in S : t <= u

\* Call c awaits target t, with the breakers b at the time it acquired.
Await(c, t, b) ==
    /\ breaker' = TakeSlot(b, t)
    /\ call' = [call EXCEPT ![c] =
                 [at |-> t,
                  probe |-> IF CHAIN_LENGTH > 1 /\ b[t].state # "closed"
                            THEN "held" ELSE "no",
                  late |-> FALSE]]

\* The walk ends: with an answer, an error or nothing left to try.
Return(c, b) ==
    /\ breaker' = b
    /\ call' = [call EXCEPT ![c] = NoCall]

\* The answer of call c reaches breaker t.
Disturb(c, t) ==
    disturbed' = IF breaker[t].state # "closed" /\ call[c].probe # "held"
                 THEN disturbed \cup {t} ELSE disturbed

\* A new call takes the first target that lets it through.
Start(c) ==
    /\ call[c].at = 0
    /\ \E t \in Target :
        /\ First(Admitting(breaker, 1), t)
        /\ Await(c, t, breaker)
    /\ UNCHANGED disturbed

\* It raises ServiceUnavailableError when every breaker refuses.
Unavailable(c) ==
    /\ call[c].at = 0
    /\ Admitting(breaker, 1) = {}
    /\ UNCHANGED vars

Succeeds(c) ==
    LET t == call[c].at IN
    /\ t # 0
    /\ Return(c, [breaker EXCEPT ![t] = Succeeded(@)])
    /\ Disturb(c, t)

\* A transient error is recorded, then the walk goes on if there is time left.
FailsTransiently(c) ==
    LET t == call[c].at
        b == [breaker EXCEPT ![t] = FailedTransiently(@)]
    IN
    /\ t # 0
    /\ IF call[c].late \/ Admitting(b, t + 1) = {}
       THEN Return(c, b)
       ELSE \E u \in Target : First(Admitting(b, t + 1), u) /\ Await(c, u, b)
    /\ Disturb(c, t)

\* A deterministic error is recorded and raised.
FailsForGood(c) ==
    LET t == call[c].at IN
    /\ t # 0
    /\ Return(c, [breaker EXCEPT ![t] = Released(@)])
    /\ Disturb(c, t)

\* asyncio.timeout cuts the attempt: the slot is released without an outcome.
CutByDeadline(c) ==
    LET t == call[c].at IN
    /\ t # 0 /\ call[c].late
    /\ Return(c, [breaker EXCEPT ![t] = Released(@)])
    /\ Disturb(c, t)

\* The caller is cancelled, or took the model with chat_model: nothing is
\* reported and a probe slot stays taken.
Cancelled(c) ==
    /\ call[c].at # 0
    /\ Return(c, breaker)
    /\ UNCHANGED disturbed

-----------------------------------------------------------------------------
(* Time passing *)

CooldownEnds(t) ==
    /\ breaker[t].cooling
    /\ breaker' = [breaker EXCEPT ![t].cooling = FALSE]
    /\ UNCHANGED <<call, disturbed>>

ProbeLeaseEnds(t) ==
    /\ breaker[t].probe = "live"
    /\ breaker' = [breaker EXCEPT ![t].probe = "expired"]
    /\ call' = [c \in Call |->
                 IF call[c].at = t /\ call[c].probe = "held"
                 THEN [call[c] EXCEPT !.probe = "lapsed"] ELSE call[c]]
    /\ UNCHANGED disturbed

DeadlinePasses(c) ==
    /\ call[c].at # 0 /\ ~call[c].late
    /\ call' = [call EXCEPT ![c].late = TRUE]
    /\ UNCHANGED <<breaker, disturbed>>

Answer(c) ==
    Succeeds(c) \/ FailsTransiently(c) \/ FailsForGood(c) \/ CutByDeadline(c)

Time(t) == CooldownEnds(t) \/ ProbeLeaseEnds(t)

Next ==
    \/ \E c \in Call : Start(c) \/ Unavailable(c) \/ Answer(c) \/ Cancelled(c) \/ DeadlinePasses(c)
    \/ \E t \in Target : Time(t)

Spec == Init /\ [][Next]_vars

\* Calls may never come and never be answered; only the clock is fair.
FairSpec == Spec /\ \A t \in Target : WF_vars(Time(t))

-----------------------------------------------------------------------------
(* Properties *)

Probing(c, t) == call[c].at = t /\ call[c].probe = "held"

\* While only the calls that hold the probe slot report to a breaker that is
\* not closed, at most one probe of a target is in flight at a time.
SingleProbeUndisturbed ==
    \A t \in Target : t \notin disturbed =>
        \A c, d \in Call : Probing(c, t) /\ Probing(d, t) => c = d

\* A closed breaker is below the threshold, whatever late answers reached it
\* while it was open or half-open.
ClosedBelowThreshold ==
    \A t \in Target : breaker[t].state = "closed" => breaker[t].failures < FAILURE_THRESHOLD

\* "the breaker cannot wedge half-open": a breaker that refuses calls admits
\* one again, even if the probe is cancelled and never reported.
NeverWedged ==
    \A t \in Target : ~Admits(breaker[t]) ~> Admits(breaker[t])

=============================================================================
