---------------------------- MODULE AuditLedger ----------------------------
(***************************************************************************)
(* The one table of ledger.py, as its committed content: a set of rows,    *)
(* each inserted and committed by one record() call, never updated or      *)
(* deleted.  SQLite hands out row ids from its AUTOINCREMENT sequence.     *)
(* target, reason and error_class are free text no query selects on and    *)
(* are left out; ts keeps the resolution of the clock of LocalDay.         *)
(***************************************************************************)
EXTENDS Integers, FiniteSets

VARIABLES
  rows,    \* committed rows of table `writes`
  lastId   \* sqlite_sequence: the last id handed out

\* "storm_guard" is in the vocabulary too, but nothing records it.
Actions  == {"set_mode", "set_reserve"}
Outcomes == {"success", "rejected", "error", "noop"}

Row == [id : Nat, ts : Nat, action : Actions, outcome : Outcomes]

LedgerTypeOK ==
  /\ rows \in SUBSET Row
  /\ IsFiniteSet(rows)
  /\ lastId \in Nat

LedgerInit == rows = {} /\ lastId = 0

\* record(): INSERT and commit one row stamped with the ledger's clock.
Record(ts, action, outcome) ==
  /\ lastId' = lastId + 1
  /\ rows' = rows \cup
       {[id |-> lastId + 1, ts |-> ts, action |-> action, outcome |-> outcome]}

Matching(action, outcome, since) ==
  {r \in rows : r.action = action /\ r.outcome = outcome /\ r.ts >= since}

\* count_since(): SELECT COUNT( * ) ... WHERE action = ? AND outcome = ? AND ts >= ?
CountSince(action, outcome, since) ==
  Cardinality(Matching(action, outcome, since))

=============================================================================
