--------------------------- MODULE CircuitBreaker ---------------------------
(***************************************************************************)
(* _AsyncCircuitBreaker of adapter.py.  Its two critical sections hold no  *)
(* await, so each is one step: the gate before the call and the tally      *)
(* after it.  Anything may happen between the two.                         *)
(***************************************************************************)
EXTENDS Integers

CONSTANTS
  FailMax,      \* BREAKER_FAIL_MAX
  ResetTimeout  \* BREAKER_RESET_TIMEOUT_S, in ticks

ASSUME BreakerAssumption ==
  /\ FailMax \in Nat \ {0}
  /\ ResetTimeout \in Nat \ {0}

VARIABLES
  failures,  \* _failures; the code only compares it with FailMax, so it stops there
  openFor    \* ticks since _opened_at, up to ResetTimeout; NotOpen where that is None

NotOpen == -1

BreakerTypeOK ==
  /\ failures \in 0 .. FailMax
  /\ openFor \in NotOpen .. ResetTimeout

BreakerInit == failures = 0 /\ openFor = NotOpen

IsOpen == openFor \in 0 .. ResetTimeout - 1

\* The gate lets a call pass, the first one after the timeout as the probe.
Admit ==
  /\ ~ IsOpen
  /\ openFor' = NotOpen
  /\ UNCHANGED failures

\* Mutant: a failed probe is one failure among many.
CountFailureAfresh ==
  /\ failures' = (failures % FailMax) + 1
  /\ openFor' = IF failures' = FailMax THEN 0 ELSE openFor
\* An exception that is not excluded.
CountFailure ==
  /\ failures' = IF failures < FailMax THEN failures + 1 ELSE FailMax
  /\ openFor' = IF failures' = FailMax THEN 0 ELSE openFor

\* Mutant: failures are counted, in a row or not.
CountSuccessInTotal == UNCHANGED <<failures, openFor>>
\* A call that returns ends the streak of failures.
CountSuccess == failures' = 0 /\ UNCHANGED openFor

\* Mutant: a 401 counted like any other failure.
CountExcludedAsFailure == CountFailure
\* An excluded exception, a 401: neither a failure nor a success.
CountExcluded == UNCHANGED <<failures, openFor>>

Older(age, limit) == IF age < limit THEN age + 1 ELSE limit

\* time.monotonic() moves on.
BreakerTick ==
  /\ openFor' = IF openFor = NotOpen THEN NotOpen ELSE Older(openFor, ResetTimeout)
  /\ UNCHANGED failures

=============================================================================
