---------------------------- MODULE SqliteLedger ----------------------------
(***************************************************************************)
(* ledger.py's connections over one SQLite file in WAL mode.  record() is  *)
(* two jobs on the connection's thread, an INSERT that opens a transaction *)
(* and takes the one write lock, and a commit; either may fail, and what a *)
(* connection leaves open is rolled back when it is closed, by close() or  *)
(* by the end of its process.  Readers see the committed rows only and     *)
(* never wait.                                                             *)
(***************************************************************************)
EXTENDS AuditLedger

VARIABLE open  \* open write transactions: who holds them, and the row inserted

LockFree == open = {}

\* Mutant: no single write lock.
InsertUnlocked(p, ts, action, outcome) ==
  /\ open' = open \cup {[by |-> p, row |-> [id |-> lastId + 1, ts |-> ts,
                                           action |-> action, outcome |-> outcome]]}
  /\ UNCHANGED <<rows, lastId>>
\* INSERT: waits for the lock up to BUSY_TIMEOUT_S; the ts is the caller's, from
\* before the wait.
Insert(p, ts, action, outcome) ==
  /\ LockFree
  /\ open' = {[by |-> p, row |-> [id |-> lastId + 1, ts |-> ts,
                                  action |-> action, outcome |-> outcome]]}
  /\ UNCHANGED <<rows, lastId>>

\* "database is locked" after the timeout, or an I/O error.
InsertFails == UNCHANGED <<open, rows, lastId>>

\* Mutant: a retention policy that drops the rows of earlier instants.
CommitAndPrune(p) ==
  \E t \in open :
    /\ t.by = p
    /\ rows' = {r \in rows : r.ts >= t.row.ts} \cup {t.row}
    /\ lastId' = t.row.id
    /\ open' = open \ {t}
Commit(p) ==
  \E t \in open :
    /\ t.by = p
    /\ rows' = rows \cup {t.row}
    /\ lastId' = t.row.id
    /\ open' = open \ {t}

Rollback(p) ==
  /\ open' = {t \in open : t.by # p}
  /\ UNCHANGED <<rows, lastId>>

\* A commit that fails may leave its transaction, and the lock, as they are.
CommitFails(p) == Rollback(p) \/ UNCHANGED <<open, rows, lastId>>

\* Mutant: ORDER BY id alone, the order of commits.
LaterCommit(r, s) == r.id > s.id
\* ORDER BY ts DESC, id DESC.
Newer(r, s) == r.ts > s.ts \/ (r.ts = s.ts /\ r.id > s.id)

\* recent(): LIMIT, a negative one meaning no limit.
Recent(limit) ==
  LET total == Cardinality(rows)
      shown == IF limit < 0 \/ limit > total THEN total ELSE limit
  IN [i \in 1 .. shown |->
        CHOOSE r \in rows : Cardinality({s \in rows : Newer(s, r)}) = i - 1]

=============================================================================
