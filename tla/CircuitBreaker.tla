---------------------------- MODULE CircuitBreaker ----------------------------
(***************************************************************************)
(* CircuitBreaker of core/resilience.py as operators on one breaker b.     *)
(* now is compared only with _open_until and _probe_lease_until, so cooling*)
(* stands for now < _open_until and probe for _probe_lease_until: "none",  *)
(* "live" while now is before it, "expired" after.                         *)
(***************************************************************************)
EXTENDS Naturals

CONSTANT FAILURE_THRESHOLD     \* LLM_BREAKER_FAILURE_THRESHOLD

ASSUME BreakerAssumption == FAILURE_THRESHOLD \in Nat \ {0}

Breaker == [state    : {"closed", "open", "half_open"},
            failures : 0..FAILURE_THRESHOLD,
            cooling  : BOOLEAN,
            probe    : {"none", "live", "expired"}]

NewBreaker == [state |-> "closed", failures |-> 0, cooling |-> FALSE, probe |-> "none"]

\* Mutants of Admits: the probe slot is not looked at; its lease never ends.
AdmitsBesideProbe(b) ==
    b.state \in {"closed", "half_open"} \/ (b.state = "open" /\ ~b.cooling)
AdmitsReportedOnly(b) ==
    \/ b.state = "closed"
    \/ b.state = "open" /\ ~b.cooling
    \/ b.state = "half_open" /\ b.probe = "none"

\* try_acquire returns True ...
Admits(b) ==
    \/ b.state = "closed"
    \/ b.state = "open" /\ ~b.cooling
    \/ b.state = "half_open" /\ b.probe # "live"

\* ... and leaves the breaker like this; a refusal leaves it alone.
Acquired(b) ==
    IF b.state = "closed" THEN b
    ELSE [b EXCEPT !.state = "half_open", !.probe = "live"]

\* release_probe, and record_failure of a deterministic error.
Released(b) == [b EXCEPT !.probe = "none"]

\* Mutant of Succeeded: the count of failures is not reset.
SucceededKeepsCount(b) == [b EXCEPT !.state = "closed", !.probe = "none"]

\* record_success
Succeeded(b) == [b EXCEPT !.state = "closed", !.failures = 0, !.probe = "none"]

\* _open
Opened(b) == [b EXCEPT !.state = "open", !.cooling = TRUE, !.probe = "none"]

\* Mutant of FailedTransiently: failures are counted while open.
FailedCountsWhileOpen(b) ==
    IF b.state = "half_open" THEN Opened(b)
    ELSE LET counted == [b EXCEPT !.failures = @ + 1] IN
         IF counted.failures >= FAILURE_THRESHOLD THEN Opened(counted) ELSE counted

\* record_failure of a transient error
FailedTransiently(b) ==
    CASE b.state = "half_open" -> Opened(b)
      [] b.state = "open" -> b
      [] OTHER ->
            LET counted == [b EXCEPT !.failures = @ + 1] IN
            IF counted.failures >= FAILURE_THRESHOLD THEN Opened(counted) ELSE counted

=============================================================================
