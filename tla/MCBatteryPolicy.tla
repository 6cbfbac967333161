-------------------------- MODULE MCBatteryPolicy --------------------------
(***************************************************************************)
(* The instances on which BatteryPolicy is checked.  Days are two or three *)
(* ticks long, so that every run crosses midnight.                         *)
(***************************************************************************)
EXTENDS BatteryPolicy, TLC

\* A zone one tick ahead of UTC: local midnight is not UTC midnight.
FixedOffset == [t \in Times |-> 1]

\* The offset shrinks by an hour during the second local day: clocks fall back.
FallBack == [t \in Times |-> IF t < DayLength THEN 2 ELSE 1]

\* Two modes to flip between, which is what spends the budget.
ModeFlips == [action : {"set_mode"}, mode : {"self_consumption", "savings"}, confirm : {FALSE}]

\* Both guardrails from both sides: full backup with and without --confirm, a
\* mode that needs none, a reserve that rounds down to the floor, and one above
\* the ceiling by just more than the rounding.
GuardedRequests ==
  [action : {"set_mode"}, mode : {"full_backup"}, confirm : BOOLEAN]
    \cup [action : {"set_mode"}, mode : {"savings"}, confirm : {FALSE}]
    \cup [action : {"set_reserve"}, pct : {104, 806}]

Symmetry == Permutations(Procs)
=============================================================================
