------------------------------ MODULE LocalDay ------------------------------
(***************************************************************************)
(* The calendar arithmetic behind the daily bulkhead: policy.py's          *)
(* start_of_local_day.  Time is counted in UTC ticks; Offset[t] is the     *)
(* local zone's offset from UTC in force at tick t, so a daylight-saving   *)
(* change is a tick at which Offset changes.                               *)
(***************************************************************************)
EXTENDS Integers

CONSTANTS
  MaxTime,    \* the last instant considered
  DayLength,  \* ticks in a calendar day
  Offset      \* local time minus UTC, for every instant

Times == 0 .. MaxTime

LocalClock(t) == t + Offset[t]

\* The calendar date, as a day number, that the household's wall clock shows.
LocalDate(t) == LocalClock(t) \div DayLength

\* now.astimezone() attaches the fixed offset in force at `now`; replace(hour=0)
\* keeps that offset, whatever the offset was at midnight.
\* Mutant: midnight of the UTC day instead of the household's.
StartOfUtcDay(t) == (t \div DayLength) * DayLength
StartOfLocalDay(t) == LocalDate(t) * DayLength - Offset[t]

Dates == {LocalDate(t) : t \in Times}

ASSUME TimeAssumption ==
  /\ MaxTime \in Nat
  /\ DayLength \in Nat \ {0}
  /\ Offset \in [Times -> Int]

\* A zone change may repeat or skip hours, but it never turns the date back.
ASSUME DatesAdvance ==
  \A t, u \in Times : t <= u => LocalDate(t) <= LocalDate(u)

\* Everything that happens on t's date, or later, falls into the window the
\* bulkhead opens at t.  True of a fixed offset; false where the offset
\* shrinks between midnight and t.
WindowCoversDay ==
  \A t, u \in Times : LocalDate(t) <= LocalDate(u) => StartOfLocalDay(t) <= u

=============================================================================
