----------------------------- MODULE AuditTrail -----------------------------
(***************************************************************************)
(* What the audit ledger promises everyone who reads it, and what the      *)
(* other modules assume of it: a trail that only grows, one row at a time, *)
(* each with the next id and with a time of attempt that is not in the     *)
(* future.  A row may be older than rows before it: the order of ids is    *)
(* the order of commits, not of attempts.                                  *)
(***************************************************************************)
EXTENDS AuditLedger

VARIABLE now

TrailInit == LedgerInit /\ now = 0

AppendRow ==
  /\ \E ts \in 0 .. now, a \in Actions, o \in Outcomes : Record(ts, a, o)
  /\ UNCHANGED now

ClockAdvances == now' = now + 1 /\ UNCHANGED <<rows, lastId>>

TrailNext == AppendRow \/ ClockAdvances

TrailSpec == TrailInit /\ [][TrailNext]_<<rows, lastId, now>>

=============================================================================
