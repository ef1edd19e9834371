------------------------- MODULE FallbackChainProofs -------------------------
(***************************************************************************)
(* Theorems about FallbackChain, for any number of calls, any chain length *)
(* and any failure threshold.                                              *)
(*                                                                         *)
(* SingleProbeUndisturbed is not inductive: that a second probe is refused *)
(* rests on the breaker being half-open with a live slot as long as an     *)
(* undisturbed probe is in flight.  TypeOK alone is not inductive either:  *)
(* the count stays within the threshold because a closed breaker is below  *)
(* it.                                                                     *)
(***************************************************************************)
EXTENDS FallbackChain, TLAPS

SoundBreaker == {b \in Breaker : b.state = "closed" => b.failures < FAILURE_THRESHOLD}

\* With breakers b and disturbed targets D, every probe in flight but that of
\* call c holds the one live slot of its half-open breaker.
ProbesHold(b, D, c) ==
    \A t \in Target \ D :
        /\ \A d \in Call \ {c} : Probing(d, t) => b[t].state = "half_open" /\ b[t].probe = "live"
        /\ \A d, e \in Call \ {c} : Probing(d, t) /\ Probing(e, t) => d = e

ProbeHoldsSlot ==
    \A t \in Target \ disturbed : \A c \in Call :
        Probing(c, t) => breaker[t].state = "half_open" /\ breaker[t].probe = "live"

IInv ==
    /\ TypeOK
    /\ ClosedBelowThreshold
    /\ ProbeHoldsSlot
    /\ SingleProbeUndisturbed

-----------------------------------------------------------------------------
(* The breaker *)

\* Every operation of the breaker keeps its type and the bound on its count.
LEMMA BreakerOperations ==
    ASSUME NEW b \in SoundBreaker
    PROVE  /\ Acquired(b) \in SoundBreaker
           /\ Released(b) \in SoundBreaker
           /\ Succeeded(b) \in SoundBreaker
           /\ Opened(b) \in SoundBreaker
           /\ FailedTransiently(b) \in SoundBreaker
<1>1. Acquired(b) \in SoundBreaker
  <2>1. [b EXCEPT !.state = "half_open", !.probe = "live"] \in SoundBreaker
    BY BreakerAssumption DEF SoundBreaker, Breaker
  <2> QED
    BY <2>1 DEF Acquired
<1> USE BreakerAssumption DEF SoundBreaker, Breaker
<1>2. Released(b) \in SoundBreaker
  BY DEF Released
<1>5. Succeeded(b) \in SoundBreaker
  <2>1. 0 \in 0..FAILURE_THRESHOLD
    OBVIOUS
  <2>2. Succeeded(b) \in Breaker
    BY <2>1 DEF Succeeded
  <2>3. Succeeded(b).failures = 0
    BY DEF Succeeded
  <2> QED
    BY <2>2, <2>3
<1>3. ASSUME NEW x \in Breaker PROVE Opened(x) \in SoundBreaker
  BY DEF Opened
<1>4. FailedTransiently(b) \in SoundBreaker
  <2>1. CASE b.state = "closed"
    <3>1. [b EXCEPT !.failures = @ + 1] \in Breaker
      BY <2>1
    <3>2. [b EXCEPT !.failures = @ + 1].failures < FAILURE_THRESHOLD
          => [b EXCEPT !.failures = @ + 1] \in SoundBreaker
      BY <3>1
    <3>3. [b EXCEPT !.failures = @ + 1].failures \in Nat
      BY <3>1
    <3> QED
      BY <2>1, <3>1, <3>2, <3>3, <1>3 DEF FailedTransiently
  <2>2. CASE b.state # "closed"
    BY <2>2, <1>3 DEF FailedTransiently
  <2> QED
    BY <2>1, <2>2
<1> QED
  BY <1>1, <1>2, <1>3, <1>4, <1>5

\* An acquired breaker that was not closed is half-open with its slot taken.
LEMMA AcquiredHolds ==
    ASSUME NEW b \in SoundBreaker, b.state # "closed"
    PROVE  Acquired(b).state = "half_open" /\ Acquired(b).probe = "live"
  BY DEF Acquired, SoundBreaker, Breaker

-----------------------------------------------------------------------------
(* The steps of a call *)

LEMMA TargetPositive == 0 \notin Target /\ Target \subseteq Nat
  BY ChainAssumption DEF Target

LEMMA InvSound == IInv => breaker \in [Target -> SoundBreaker]
  BY DEF IInv, TypeOK, ClosedBelowThreshold, SoundBreaker

\* Between two steps, whatever call is left out, the others hold their slots.
LEMMA InvProbesHold ==
    ASSUME IInv, NEW c \in Call
    PROVE  ProbesHold(breaker, disturbed, c)
  BY DEF IInv, ProbeHoldsSlot, SingleProbeUndisturbed, ProbesHold

\* An answer that changes breaker t disturbs no other probe, unless Disturb
\* says so: either the call held the only slot or nobody probes t.
LEMMA ReportKeepsOthers ==
    ASSUME IInv, NEW c \in Call, NEW t \in Target, call[c].at = t,
           NEW x \in SoundBreaker, Disturb(c, t)
    PROVE  LET b == [breaker EXCEPT ![t] = x] IN
           b \in [Target -> SoundBreaker] /\ ProbesHold(b, disturbed', c)
<1> DEFINE b == [breaker EXCEPT ![t] = x]
<1>1. b \in [Target -> SoundBreaker]
  BY InvSound
<1>2. \A u \in Target : u # t => b[u] = breaker[u]
  BY DEF IInv, TypeOK
<1>3. disturbed \subseteq disturbed'
  BY DEF Disturb
<1>4. ASSUME t \notin disturbed', NEW d \in Call \ {c}, Probing(d, t) PROVE FALSE
  <2>1. breaker[t].state = "half_open"
    BY <1>3, <1>4 DEF IInv, ProbeHoldsSlot
  <2>2. call[c].probe = "held"
    BY <1>4, <2>1 DEF Disturb
  <2>3. Probing(c, t)
    BY <2>2 DEF Probing
  <2> QED
    BY <1>3, <1>4, <2>3 DEF IInv, SingleProbeUndisturbed
<1>5. ProbesHold(b, disturbed', c)
  <2> SUFFICES ASSUME NEW u \in Target \ disturbed'
               PROVE  /\ \A d \in Call \ {c} : Probing(d, u) =>
                            b[u].state = "half_open" /\ b[u].probe = "live"
                      /\ \A d, e \in Call \ {c} : Probing(d, u) /\ Probing(e, u) => d = e
    BY DEF ProbesHold
  <2>1. CASE u = t
    BY <1>4, <2>1
  <2>2. CASE u # t
    BY <1>2, <1>3, <2>2, InvProbesHold DEF ProbesHold
  <2> QED
    BY <2>1, <2>2
<1> QED
  BY <1>1, <1>5

\* The call of c ends and leaves the breakers b.
LEMMA ReturnStep ==
    ASSUME IInv, NEW c \in Call, NEW b \in [Target -> SoundBreaker], Return(c, b),
           ProbesHold(b, disturbed', c), disturbed' \subseteq Target
    PROVE  IInv'
<1>1. call'[c].at = 0 /\ \A d \in Call \ {c} : call'[d] = call[d]
  BY DEF Return, NoCall, IInv, TypeOK
<1>2. TypeOK'
  BY ChainAssumption DEF Return, NoCall, IInv, TypeOK, CallState, SoundBreaker
<1>3. ClosedBelowThreshold'
  BY DEF Return, ClosedBelowThreshold, SoundBreaker
<1>4. ProbeHoldsSlot' /\ SingleProbeUndisturbed'
  BY <1>1, TargetPositive
     DEF Return, ProbesHold, ProbeHoldsSlot, SingleProbeUndisturbed, Probing
<1> QED
  BY <1>2, <1>3, <1>4 DEF IInv

\* Call c goes on to a target that lets it through.
LEMMA AwaitStep ==
    ASSUME IInv, NEW c \in Call, NEW t \in Target, NEW b \in [Target -> SoundBreaker],
           TryAcquire(b, t), Await(c, t, b),
           ProbesHold(b, disturbed', c), disturbed' \subseteq Target
    PROVE  IInv'
<1>1. /\ call'[c].at = t
      /\ call'[c].probe = "held" <=> CHAIN_LENGTH > 1 /\ b[t].state # "closed"
      /\ \A d \in Call \ {c} : call'[d] = call[d]
  BY DEF Await, IInv, TypeOK
<1>2. breaker' \in [Target -> SoundBreaker]
  BY BreakerOperations DEF Await, TakeSlot
<1>3. TypeOK'
  <2>1. call' \in [Call -> CallState]
    BY ChainAssumption DEF Await, IInv, TypeOK, CallState, Target
  <2> QED
    BY <1>2, <2>1 DEF TypeOK, SoundBreaker
<1>4. ClosedBelowThreshold'
  BY <1>2 DEF ClosedBelowThreshold, SoundBreaker
<1>5. \A u \in Target : u # t => breaker'[u] = b[u]
  BY DEF Await, TakeSlot
<1>6. CASE b[t].state = "closed" \/ CHAIN_LENGTH = 1
  <2>1. breaker' = b
    BY <1>6 DEF Await, TakeSlot, Acquired
  <2>2. call'[c].probe # "held"
    BY <1>1, <1>6, ChainAssumption
  <2>3. ProbeHoldsSlot' /\ SingleProbeUndisturbed'
    BY <1>1, <2>1, <2>2
       DEF ProbesHold, ProbeHoldsSlot, SingleProbeUndisturbed, Probing
  <2> QED
    BY <1>3, <1>4, <2>3 DEF IInv
<1>7. CASE b[t].state # "closed" /\ CHAIN_LENGTH # 1
  <2>1. breaker'[t].state = "half_open" /\ breaker'[t].probe = "live"
    BY <1>7, AcquiredHolds DEF Await, TakeSlot
  <2>2. ASSUME t \notin disturbed', NEW d \in Call \ {c}, Probing(d, t) PROVE FALSE
    <3>1. b[t].state = "half_open" /\ b[t].probe = "live"
      BY <2>2 DEF ProbesHold
    <3> QED
      BY <1>7, <3>1 DEF TryAcquire, Admits
  <2>3. ProbeHoldsSlot' /\ SingleProbeUndisturbed'
    BY <1>1, <1>5, <2>1, <2>2
       DEF ProbesHold, ProbeHoldsSlot, SingleProbeUndisturbed, Probing
  <2> QED
    BY <1>3, <1>4, <2>3 DEF IInv
<1> QED
  BY <1>6, <1>7

-----------------------------------------------------------------------------
(* The induction *)

LEMMA InvInit == Init => IInv
  BY BreakerAssumption, ChainAssumption
     DEF Init, IInv, TypeOK, ClosedBelowThreshold, ProbeHoldsSlot,
         SingleProbeUndisturbed, Probing, NewBreaker, Breaker, NoCall, CallState

LEMMA InvNext == IInv /\ [Next]_vars => IInv'
<1> SUFFICES ASSUME IInv, [Next]_vars PROVE IInv'
  OBVIOUS
<1>1. breaker \in [Target -> SoundBreaker] /\ disturbed \subseteq Target
  BY InvSound DEF IInv, TypeOK
<1>2. ASSUME NEW c \in Call, Start(c) PROVE IInv'
  <2>1. PICK t \in Target : First(Admitting(breaker, 1), t) /\ Await(c, t, breaker)
    BY <1>2 DEF Start
  <2>2. disturbed' = disturbed
    BY <1>2 DEF Start
  <2>3. TryAcquire(breaker, t)
    BY <2>1 DEF First, Admitting
  <2> QED
    BY <1>1, <2>1, <2>2, <2>3, InvProbesHold, AwaitStep
<1>3. ASSUME NEW c \in Call, NEW x \in SoundBreaker, call[c].at # 0,
             Return(c, [breaker EXCEPT ![call[c].at] = x]), Disturb(c, call[c].at)
      PROVE  IInv'
  <2> DEFINE t == call[c].at
             b == [breaker EXCEPT ![t] = x]
  <2>1. t \in Target
    BY <1>3 DEF IInv, TypeOK, CallState, Target
  <2>2. b \in [Target -> SoundBreaker] /\ ProbesHold(b, disturbed', c)
    BY <1>3, <2>1, ReportKeepsOthers
  <2>3. disturbed' \subseteq Target
    BY <1>1, <1>3, <2>1 DEF Disturb
  <2> QED
    BY <1>3, <2>2, <2>3, ReturnStep
<1>4. ASSUME NEW c \in Call, call[c].at # 0
      PROVE  breaker[call[c].at] \in SoundBreaker /\ call[c].at \in Target
  BY <1>1, <1>4 DEF IInv, TypeOK, CallState, Target
<1>5. ASSUME NEW c \in Call, Succeeds(c) PROVE IInv'
  BY <1>3, <1>4, <1>5, BreakerOperations DEF Succeeds
<1>6. ASSUME NEW c \in Call, FailsForGood(c) PROVE IInv'
  BY <1>3, <1>4, <1>6, BreakerOperations DEF FailsForGood
<1>7. ASSUME NEW c \in Call, CutByDeadline(c) PROVE IInv'
  BY <1>3, <1>4, <1>7, BreakerOperations DEF CutByDeadline
<1>8. ASSUME NEW c \in Call, FailsTransiently(c) PROVE IInv'
  <2> DEFINE t == call[c].at
             b == [breaker EXCEPT ![t] = FailedTransiently(@)]
  <2>1. t # 0 /\ Disturb(c, t) /\ FailedTransiently(breaker[t]) \in SoundBreaker
    BY <1>4, <1>8, BreakerOperations DEF FailsTransiently
  <2>2. t \in Target
    BY <1>4, <2>1
  <2>3. CASE Return(c, b)
    BY <1>3, <2>1, <2>3
  <2>4. ASSUME NEW u \in Target, First(Admitting(b, t + 1), u), Await(c, u, b)
        PROVE  IInv'
    <3>1. b \in [Target -> SoundBreaker] /\ ProbesHold(b, disturbed', c)
      BY <2>1, <2>2, ReportKeepsOthers
    <3>2. disturbed' \subseteq Target
      BY <1>1, <2>1, <2>2 DEF Disturb
    <3>3. TryAcquire(b, u)
      BY <2>4 DEF First, Admitting
    <3> QED
      BY <2>4, <3>1, <3>2, <3>3, AwaitStep
  <2> QED
    BY <1>8, <2>3, <2>4 DEF FailsTransiently
<1>9. ASSUME NEW c \in Call, Cancelled(c) PROVE IInv'
  BY <1>1, <1>9, InvProbesHold, ReturnStep DEF Cancelled
<1>10. ASSUME NEW t \in Target, CooldownEnds(t) PROVE IInv'
  <2>1. breaker' \in [Target -> Breaker]
    BY <1>10 DEF CooldownEnds, IInv, TypeOK, Breaker
  <2>2. \A u \in Target : /\ breaker'[u].state = breaker[u].state
                          /\ breaker'[u].failures = breaker[u].failures
                          /\ breaker'[u].probe = breaker[u].probe
    BY <1>10 DEF CooldownEnds, IInv, TypeOK, Breaker
  <2>3. call' = call /\ disturbed' = disturbed
    BY <1>10 DEF CooldownEnds
  <2> QED
    BY <2>1, <2>2, <2>3
       DEF IInv, TypeOK, ClosedBelowThreshold, ProbeHoldsSlot,
           SingleProbeUndisturbed, Probing
<1>11. ASSUME NEW t \in Target, ProbeLeaseEnds(t) PROVE IInv'
  <2>1. breaker' \in [Target -> Breaker]
    BY <1>11 DEF ProbeLeaseEnds, IInv, TypeOK, Breaker
  <2>2. \A u \in Target : /\ breaker'[u].state = breaker[u].state
                          /\ breaker'[u].failures = breaker[u].failures
                          /\ u # t => breaker'[u] = breaker[u]
    BY <1>11 DEF ProbeLeaseEnds, IInv, TypeOK, Breaker
  <2>3. \A c \in Call : /\ call'[c] \in CallState
                        /\ call'[c].at = call[c].at
                        /\ call'[c].at = t => call'[c].probe # "held"
                        /\ call'[c].probe = "held" => call[c].probe = "held"
    <3> SUFFICES ASSUME NEW c \in Call
                 PROVE  /\ call'[c] \in CallState
                        /\ call'[c].at = call[c].at
                        /\ call'[c].at = t => call'[c].probe # "held"
                        /\ call'[c].probe = "held" => call[c].probe = "held"
      OBVIOUS
    <3>1. call[c] \in CallState
      BY DEF IInv, TypeOK
    <3>2. CASE call[c].at = t /\ call[c].probe = "held"
      BY <1>11, <3>1, <3>2 DEF ProbeLeaseEnds, CallState
    <3>3. CASE ~(call[c].at = t /\ call[c].probe = "held")
      BY <1>11, <3>1, <3>3 DEF ProbeLeaseEnds
    <3> QED
      BY <3>2, <3>3
  <2>4. call' \in [Call -> CallState] /\ disturbed' = disturbed
    BY <1>11, <2>3 DEF ProbeLeaseEnds
  <2> QED
    BY <2>1, <2>2, <2>3, <2>4
       DEF IInv, TypeOK, ClosedBelowThreshold, ProbeHoldsSlot,
           SingleProbeUndisturbed, Probing
<1>12. ASSUME NEW c \in Call, DeadlinePasses(c) PROVE IInv'
  <2>1. call' \in [Call -> CallState]
    BY <1>12 DEF DeadlinePasses, IInv, TypeOK, CallState
  <2>2. \A d \in Call : call'[d].at = call[d].at /\ call'[d].probe = call[d].probe
    BY <1>12 DEF DeadlinePasses, IInv, TypeOK, CallState
  <2>3. breaker' = breaker /\ disturbed' = disturbed
    BY <1>12 DEF DeadlinePasses
  <2> QED
    BY <2>1, <2>2, <2>3
       DEF IInv, TypeOK, ClosedBelowThreshold, ProbeHoldsSlot,
           SingleProbeUndisturbed, Probing
<1>13. CASE UNCHANGED vars
  BY <1>13 DEF vars, IInv, TypeOK, ClosedBelowThreshold, ProbeHoldsSlot,
               SingleProbeUndisturbed, Probing
<1>14. CASE \E c \in Call : Unavailable(c)
  BY <1>13, <1>14 DEF Unavailable
<1> QED
  BY <1>2, <1>5, <1>6, <1>7, <1>8, <1>9, <1>10, <1>11, <1>12, <1>13, <1>14
     DEF Next, Answer, Time

\* The strengthening is invariant.
THEOREM InductiveInvariant == Spec => []IInv
<1>1. Init => IInv
  BY InvInit
<1>2. IInv /\ [Next]_vars => IInv'
  BY InvNext
<1> QED
  BY <1>1, <1>2, PTL DEF Spec

\* The breakers, counts within the threshold, and the calls have their types.
THEOREM TypeCorrect == Spec => []TypeOK
<1>1. IInv => TypeOK
  BY DEF IInv
<1> QED
  BY <1>1, InductiveInvariant, PTL

\* However late answers arrive, a breaker that admits everyone has seen fewer
\* consecutive transient failures than CircuitBreaker.failure_threshold.
THEOREM BelowThreshold == Spec => []ClosedBelowThreshold
<1>1. IInv => ClosedBelowThreshold
  BY DEF IInv
<1> QED
  BY <1>1, InductiveInvariant, PTL

\* try_acquire admits one probe at a time, as long as no call that holds no
\* slot reports to the breaker while it is open or half-open.
THEOREM OneProbe == Spec => []SingleProbeUndisturbed
<1>1. IInv => SingleProbeUndisturbed
  BY DEF IInv
<1> QED
  BY <1>1, InductiveInvariant, PTL

=============================================================================
