-------------------------- MODULE BreakerContract --------------------------
(***************************************************************************)
(* What the docstring of _AsyncCircuitBreaker promises its caller: three   *)
(* states; FailMax consecutive failures open it for ResetTimeout; the      *)
(* first call after that is a probe; success closes, any failure reopens.  *)
(* An excluded exception changes nothing.                                  *)
(***************************************************************************)
EXTENDS Integers

CONSTANTS FailMax, ResetTimeout

VARIABLES
  state,    \* "closed", "open" or "half_open"
  strikes,  \* consecutive failures while closed
  rest      \* ticks an open breaker still has to rest

vars == <<state, strikes, rest>>

Init == state = "closed" /\ strikes = 0 /\ rest = 0

Trip == state' = "open" /\ strikes' = 0 /\ rest' = ResetTimeout

Strike ==
  /\ state = "closed"
  /\ \/ strikes + 1 < FailMax /\ strikes' = strikes + 1 /\ UNCHANGED <<state, rest>>
     \/ strikes + 1 = FailMax /\ Trip

FailedProbe == state = "half_open" /\ Trip

Success ==
  /\ state # "open"
  /\ state' = "closed" /\ strikes' = 0 /\ UNCHANGED rest

Rest ==
  /\ state = "open" /\ rest > 0
  /\ rest' = rest - 1 /\ UNCHANGED <<state, strikes>>

StartProbe ==
  /\ state = "open" /\ rest = 0
  /\ state' = "half_open" /\ UNCHANGED <<strikes, rest>>

Next == Strike \/ FailedProbe \/ Success \/ Rest \/ StartProbe

Spec == Init /\ [][Next]_vars

=============================================================================
