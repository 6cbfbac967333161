----------------------------- MODULE CliProofs -----------------------------
(***************************************************************************)
(* That the commands of Cli keep the ledger a trail that only grows, that  *)
(* a row record() has returned stands, that a caller who repeats what      *)
(* failed gets one write, and that a listing shows the newest rows: for    *)
(* every number of callers, commands and rows, and every limit.            *)
(***************************************************************************)
EXTENDS Cli, RulesProofs, FiniteSetTheorems, TLAPS

-----------------------------------------------------------------------------
(* What the helpers do to one process.                                     *)

\* A set of at most one element, without a cardinality.
SingleWriter == \A t, u \in open : t = u

LEMMA SingleIsOne ==
  ASSUME SingleWriter
  PROVE  Cardinality(open) <= 1
<1>1. CASE open = {}
  BY <1>1, FS_EmptySet
<1>2. CASE open # {}
  <2>1. PICK t \in open : TRUE
    BY <1>2
  <2>2. open = {t}
    BY <2>1 DEF SingleWriter
  <2>3. Cardinality({t}) = 1
    BY FS_Singleton
  <2> QED
    BY <2>2, <2>3
<1> QED
  BY <1>1, <1>2

\* The ledger's three variables, and the others.
LedgerFine ==
  /\ rows \subseteq Row /\ IsFiniteSet(rows) /\ lastId \in Nat
  /\ open \subseteq [by : Procs, row : Row]
  /\ SingleWriter
  /\ OpenRowIsNext

Typed ==
  /\ now \in 0 .. MaxTime
  /\ run \in 0 .. MaxCommands
  /\ pc \in [Procs -> Places]
  /\ command \in [Procs -> Commands \cup {"none"}]
  /\ outcome \in [Procs -> Outcomes \cup {"none"}]
  /\ stamp \in [Procs -> 0 .. MaxTime]
  /\ job \in [Procs -> {"none", "insert", "commit"}]
  /\ status \in [Procs -> Statuses]
  /\ noted \subseteq Nat
  /\ confirmed \in [Procs -> Nat]

Invariant == LedgerFine /\ Typed /\ AttemptReady /\ ConfirmedIsSettled

LEMMA InvariantImpliesTypeOK == Invariant => TypeOK
BY SingleIsOne DEF Invariant, LedgerFine, Typed, TypeOK, LedgerTypeOK

LEMMA Start0 == Init => Invariant
<1> SUFFICES ASSUME Init PROVE Invariant
  OBVIOUS
<1>1. LedgerFine
  BY FS_EmptySet DEF Init, LedgerInit, LedgerFine, SingleWriter, OpenRowIsNext
<1>2. Typed
  BY CliAssumption DEF Init, Typed, Places, Statuses
<1>3. AttemptReady /\ ConfirmedIsSettled
  BY DEF Init, AttemptReady, ConfirmedIsSettled
<1> QED
  BY <1>1, <1>2, <1>3 DEF Invariant

-----------------------------------------------------------------------------
(* What the steps of the ledger keep.                                      *)

LEMMA InsertKeeps ==
  ASSUME LedgerFine, NEW p \in Procs, NEW ts \in 0 .. now, NEW a \in Actions,
         NEW o \in Outcomes, now \in Nat, Insert(p, ts, a, o), now' = now
  PROVE  LedgerFine'
<1> DEFINE new == [by |-> p, row |-> [id |-> lastId + 1, ts |-> ts, action |-> a, outcome |-> o]]
<1>1. open' = {new} /\ rows' = rows /\ lastId' = lastId
  BY DEF Insert
<1>2. new.row \in [id : {lastId + 1}, ts : 0 .. now, action : Actions, outcome : Outcomes]
  OBVIOUS
<1>3. new.row \in Row
  BY DEF LedgerFine, Row
<1> QED
  BY <1>1, <1>2, <1>3 DEF LedgerFine, SingleWriter, OpenRowIsNext

\* A commit is a Record of the abstract ledger.
LEMMA CommitRecords ==
  ASSUME LedgerFine, NEW p \in Procs, now \in Nat, Commit(p), now' = now
  PROVE  /\ LedgerFine'
         /\ \E ts \in 0 .. now, a \in Actions, o \in Outcomes : Record(ts, a, o)
         /\ lastId' \in Nat
         /\ \E r \in rows' : r.id = lastId'
<1>1. PICK t \in open : /\ rows' = rows \cup {t.row}
                        /\ lastId' = t.row.id
                        /\ open' = open \ {t}
  BY DEF Commit
<1>2. open' = {}
  BY <1>1 DEF LedgerFine, SingleWriter
<1>3. PICK ts \in 0 .. now, a \in Actions, o \in Outcomes :
        t.row = [id |-> lastId + 1, ts |-> ts, action |-> a, outcome |-> o]
  BY <1>1 DEF LedgerFine, OpenRowIsNext
<1>4. lastId' = lastId + 1 /\ Record(ts, a, o)
  BY <1>1, <1>3 DEF Record
<1>5. t.row \in Row /\ lastId' \in Nat
  BY <1>1, <1>4 DEF LedgerFine
<1>6. IsFiniteSet(rows')
  BY <1>1, FS_AddElement DEF LedgerFine
<1> QED
  BY <1>1, <1>2, <1>4, <1>5, <1>6 DEF LedgerFine, SingleWriter, OpenRowIsNext

LEMMA RollbackKeeps ==
  ASSUME LedgerFine, NEW p, Rollback(p), now' = now
  PROVE  LedgerFine'
BY DEF LedgerFine, Rollback, SingleWriter, OpenRowIsNext

LEMMA ClockKeeps ==
  ASSUME LedgerFine, now \in Nat, now' \in {now, now + 1}, UNCHANGED ledger
  PROVE  LedgerFine'
<1>1. 0 .. now \subseteq 0 .. now'
  OBVIOUS
<1> QED
  BY <1>1 DEF LedgerFine, SingleWriter, OpenRowIsNext, ledger

\* What a step of a process does to the trail, and to the ids it has returned.
TrailStep ==
  \/ UNCHANGED <<rows, lastId, noted>>
  \/ /\ \E ts \in 0 .. now, a \in Actions, o \in Outcomes : Record(ts, a, o)
     /\ lastId' \in Nat
     /\ \E r \in rows' : r.id = lastId'
     /\ noted' \in {noted, noted \cup {lastId'}}

-----------------------------------------------------------------------------
(* Starting.                                                               *)

LEMMA StartKeeps ==
  ASSUME Invariant, NEW p \in Procs, Start(p)
  PROVE  Invariant' /\ TrailStep /\ now' = now
<1> USE DEF GoTo
<1>1. PICK c \in Commands, place \in {"open", "adapter", "print"} :
        Begin(p, c) /\ GoTo(p, place)
  BY DEF Start, BeginStatus, BeginWithLedger, BeginPlan, Begin
<1>2. UNCHANGED <<ledger, now, noted>> /\ TrailStep
  BY <1>1 DEF Begin, TrailStep, ledger
<1>3. LedgerFine'
  BY <1>2, ClockKeeps, CliAssumption DEF Invariant, Typed
<1>4. Typed'
  BY <1>1, CliAssumption DEF Invariant, Typed, Begin, Places, ledger
<1>5. AttemptReady'
  BY <1>1 DEF Invariant, Typed, AttemptReady, Begin
<1>6. "none" \notin Commands
  BY CliAssumption DEF Actions
<1>7. ConfirmedIsSettled'
  BY <1>1, <1>6 DEF Invariant, Typed, ConfirmedIsSettled, Begin
<1> QED
  BY <1>2, <1>3, <1>4, <1>5, <1>7 DEF Invariant

LEMMA OpenKeeps ==
  ASSUME Invariant, NEW p \in Procs, Open(p)
  PROVE  Invariant' /\ TrailStep /\ now' = now
<1> USE DEF GoTo, ExitWith, End, LeaveAdapter
<1>1. UNCHANGED <<ledger, now, noted>> /\ TrailStep
  BY DEF Open, TrailStep, ledger, history
<1>2. LedgerFine'
  BY <1>1, ClockKeeps, CliAssumption DEF Invariant, Typed
<1>3. Typed'
  BY CliAssumption DEF Invariant, Typed, Open, Places, Statuses, history, ledger
<1>4. AttemptReady'
  BY CliAssumption DEF Invariant, Typed, AttemptReady, Open, Actions, ledger
<1>5. ConfirmedIsSettled'
  BY DEF Invariant, Typed, ConfirmedIsSettled, Open, Actions, history
<1> QED
  BY <1>1, <1>2, <1>3, <1>4, <1>5 DEF Invariant

LEMMA EnterAdapterKeeps ==
  ASSUME Invariant, NEW p \in Procs, EnterAdapter(p)
  PROVE  Invariant' /\ TrailStep /\ now' = now
<1> USE DEF GoTo, ExitWith, End, LeaveAdapter
<1>1. UNCHANGED <<ledger, now, noted>> /\ TrailStep
  BY DEF EnterAdapter, TrailStep, ledger, history
<1>2. LedgerFine'
  BY <1>1, ClockKeeps, CliAssumption DEF Invariant, Typed
<1>3. Typed'
  BY CliAssumption DEF Invariant, Typed, EnterAdapter, Places, Statuses, history, ledger
<1>4. AttemptReady'
  BY CliAssumption DEF Invariant, Typed, AttemptReady, EnterAdapter, Actions, ledger
<1>5. ConfirmedIsSettled'
  BY DEF Invariant, Typed, ConfirmedIsSettled, EnterAdapter, Actions, history
<1> QED
  BY <1>1, <1>2, <1>3, <1>4, <1>5 DEF Invariant

-----------------------------------------------------------------------------
(* The work.                                                               *)

LEMMA ReadStateKeeps ==
  ASSUME Invariant, NEW p \in Procs, ReadState(p)
  PROVE  Invariant' /\ TrailStep /\ now' = now
<1> USE DEF GoTo, ExitWith, End, LeaveAdapter
<1>1. UNCHANGED <<ledger, now, noted>> /\ TrailStep
  BY DEF ReadState, TrailStep, ledger, history
<1>2. LedgerFine'
  BY <1>1, ClockKeeps, CliAssumption DEF Invariant, Typed
<1>3. Typed'
  BY CliAssumption DEF Invariant, Typed, ReadState, Places, Statuses, history, ledger
<1>4. AttemptReady'
  BY CliAssumption DEF Invariant, Typed, AttemptReady, ReadState, ledger
<1>5. ConfirmedIsSettled'
  BY DEF Invariant, Typed, ConfirmedIsSettled, ReadState, history
<1> QED
  BY <1>1, <1>2, <1>3, <1>4, <1>5 DEF Invariant

LEMMA WorkKeeps ==
  ASSUME Invariant, NEW p \in Procs, Work(p)
  PROVE  Invariant' /\ TrailStep /\ now' = now
<1> USE DEF GoTo, ExitWith, End, LeaveAdapter
<1>1. UNCHANGED <<ledger, now, noted>> /\ TrailStep
  BY DEF Work, TrailStep, ledger, history
<1>2. LedgerFine'
  BY <1>1, ClockKeeps, CliAssumption DEF Invariant, Typed
<1>3. Typed'
  BY CliAssumption DEF Invariant, Typed, Work, Places, Statuses, history, ledger
<1>4. AttemptReady'
  BY CliAssumption DEF Invariant, Typed, AttemptReady, Work, ledger
<1>5. ConfirmedIsSettled'
  BY DEF Invariant, Typed, ConfirmedIsSettled, Work, history
<1> QED
  BY <1>1, <1>2, <1>3, <1>4, <1>5 DEF Invariant

LEMMA QueryKeeps ==
  ASSUME Invariant, NEW p \in Procs, Query(p)
  PROVE  Invariant' /\ TrailStep /\ now' = now
<1> USE DEF GoTo, ExitWith, End, LeaveAdapter
<1>1. UNCHANGED <<ledger, now, noted>> /\ TrailStep
  BY DEF Query, TrailStep, ledger, history
<1>2. LedgerFine'
  BY <1>1, ClockKeeps, CliAssumption DEF Invariant, Typed
<1>3. Typed'
  BY CliAssumption DEF Invariant, Typed, Query, Places, Statuses, history, ledger
<1>4. AttemptReady'
  BY CliAssumption DEF Invariant, Typed, AttemptReady, Query, ledger
<1>5. ConfirmedIsSettled'
  BY DEF Invariant, Typed, ConfirmedIsSettled, Query, history
<1> QED
  BY <1>1, <1>2, <1>3, <1>4, <1>5 DEF Invariant

LEMMA InsertRowKeeps ==
  ASSUME Invariant, NEW p \in Procs, InsertRow(p)
  PROVE  Invariant' /\ TrailStep /\ now' = now
<1> USE DEF GoTo, ForgetAttempt, AfterInsert, GoOnUnaudited
<1>1. UNCHANGED <<rows, lastId, now, noted>> /\ TrailStep
  BY DEF InsertRow, Insert, InsertFails, TrailStep
<1>2. LedgerFine'
  <2>1. /\ stamp[p] \in 0 .. now /\ now \in Nat
        /\ command[p] \in Actions /\ outcome[p] \in Outcomes
    BY CliAssumption DEF Invariant, Typed, AttemptReady, InsertRow
  <2>2. CASE Insert(p, stamp[p], command[p], outcome[p])
    BY <1>1, <2>1, <2>2, InsertKeeps DEF Invariant
  <2>3. CASE InsertFails
    BY <1>1, <2>1, <2>3, ClockKeeps DEF Invariant, InsertFails, ledger
  <2> QED
    BY <2>2, <2>3 DEF InsertRow
<1>3. Typed'
  <2>1. pc' \in [Procs -> Places]
    BY DEF Invariant, Typed, InsertRow, Places
  <2>2. UNCHANGED <<now, run, command, job, status, noted, confirmed>>
    BY <1>1 DEF InsertRow
  <2>3. /\ outcome' \in [Procs -> Outcomes \cup {"none"}]
        /\ stamp' \in [Procs -> 0 .. MaxTime]
    BY CliAssumption DEF Invariant, Typed, InsertRow
  <2> QED
    BY <2>1, <2>2, <2>3 DEF Invariant, Typed
<1>4. AttemptReady'
  BY CliAssumption DEF Invariant, Typed, AttemptReady, InsertRow
<1>5. ConfirmedIsSettled'
  BY DEF Invariant, Typed, ConfirmedIsSettled, InsertRow
<1> QED
  BY <1>1, <1>2, <1>3, <1>4, <1>5 DEF Invariant

\* What a commit, done or failed, does to the ledger.
LEMMA CommitKeeps ==
  ASSUME Invariant, NEW p \in Procs, now' = now,
         \/ Commit(p) /\ noted' \in {noted, noted \cup {lastId'}}
         \/ CommitFails(p) /\ noted' = noted
  PROVE  LedgerFine' /\ TrailStep
<1>0. now \in Nat
  BY CliAssumption DEF Invariant, Typed
<1>1. CASE Commit(p) /\ noted' \in {noted, noted \cup {lastId'}}
  BY <1>0, <1>1, CommitRecords DEF Invariant, TrailStep
<1>2. CASE Rollback(p) /\ noted' = noted
  BY <1>2, RollbackKeeps DEF Invariant, TrailStep, Rollback
<1>3. CASE UNCHANGED <<open, rows, lastId>> /\ noted' = noted
  BY <1>0, <1>3, ClockKeeps DEF Invariant, TrailStep, ledger
<1> QED
  BY <1>1, <1>2, <1>3 DEF CommitFails

LEMMA CommitRowKeeps ==
  ASSUME Invariant, NEW p \in Procs, CommitRow(p)
  PROVE  Invariant' /\ TrailStep /\ now' = now
<1> USE DEF GoTo, GoOnUnaudited
<1>1. LedgerFine' /\ TrailStep /\ now' = now
  BY CommitKeeps DEF CommitRow
<1>2. noted' \subseteq Nat
  BY <1>1 DEF TrailStep, Invariant, Typed
<1>3. Typed'
  BY <1>2 DEF Invariant, Typed, CommitRow, Places
<1>4. AttemptReady'
  BY CliAssumption DEF Invariant, Typed, AttemptReady, CommitRow
<1>5. ConfirmedIsSettled'
  BY DEF Invariant, Typed, ConfirmedIsSettled, CommitRow
<1> QED
  BY <1>1, <1>3, <1>4, <1>5 DEF Invariant

-----------------------------------------------------------------------------
(* Ending.                                                                 *)

LEMMA LeaveKeeps ==
  ASSUME Invariant, NEW p \in Procs, Leave(p)
  PROVE  Invariant' /\ TrailStep /\ now' = now
<1> USE DEF GoTo, ExitWith, End, LeaveAdapter
<1>1. UNCHANGED <<ledger, now, noted>> /\ TrailStep
  BY DEF Leave, TrailStep, ledger, history
<1>2. LedgerFine'
  BY <1>1, ClockKeeps, CliAssumption DEF Invariant, Typed
<1>3. Typed'
  BY CliAssumption DEF Invariant, Typed, Leave, Places, Statuses, history, ledger
<1>4. AttemptReady'
  BY CliAssumption DEF Invariant, Typed, AttemptReady, Leave, Actions, ledger
<1>5. ConfirmedIsSettled'
  BY DEF Invariant, Typed, ConfirmedIsSettled, Leave, Actions, history
<1> QED
  BY <1>1, <1>2, <1>3, <1>4, <1>5 DEF Invariant

LEMMA PrintKeeps ==
  ASSUME Invariant, NEW p \in Procs, PrintTable(p)
  PROVE  Invariant' /\ TrailStep /\ now' = now
<1> USE DEF GoTo, ExitWith, End, LeaveAdapter
<1>1. UNCHANGED <<ledger, now, noted>> /\ TrailStep
  BY DEF PrintTable, TrailStep, ledger, history
<1>2. LedgerFine'
  BY <1>1, ClockKeeps, CliAssumption DEF Invariant, Typed
<1>3. Typed'
  BY CliAssumption DEF Invariant, Typed, PrintTable, Places, Statuses, history, ledger
<1>4. AttemptReady'
  BY CliAssumption DEF Invariant, Typed, AttemptReady, PrintTable, ledger
<1>5. ConfirmedIsSettled'
  BY DEF Invariant, Typed, ConfirmedIsSettled, PrintTable, history
<1> QED
  BY <1>1, <1>2, <1>3, <1>4, <1>5 DEF Invariant

LEMMA InterruptKeeps ==
  ASSUME Invariant, NEW p \in Procs, Interrupt(p)
  PROVE  Invariant' /\ TrailStep /\ now' = now
<1> USE DEF GoTo, ExitWith, End, LeaveAdapter
<1>1. UNCHANGED <<ledger, now, noted>> /\ TrailStep
  BY DEF Interrupt, TrailStep, ledger, history
<1>2. LedgerFine'
  BY <1>1, ClockKeeps, CliAssumption DEF Invariant, Typed
<1>3. Typed'
  BY CliAssumption DEF Invariant, Typed, Interrupt, Places, Statuses, history, ledger, LeftInQueue
<1>4. AttemptReady'
  BY CliAssumption DEF Invariant, Typed, AttemptReady, Interrupt, Actions, ledger, LeftInQueue
<1>5. ConfirmedIsSettled'
  BY DEF Invariant, Typed, ConfirmedIsSettled, Interrupt, Actions, history, LeftInQueue
<1> QED
  BY <1>1, <1>2, <1>3, <1>4, <1>5 DEF Invariant

LEMMA RunJobKeeps ==
  ASSUME Invariant, NEW p \in Procs, RunJob(p)
  PROVE  Invariant' /\ TrailStep /\ now' = now
<1> USE DEF ForgetAttempt
<1>0. now \in Nat /\ now' = now /\ noted' = noted
  BY CliAssumption DEF Invariant, Typed, RunJob, history
<1>1. LedgerFine' /\ TrailStep
  <2>1. CASE job[p] = "insert" /\ Insert(p, stamp[p], command[p], outcome[p])
    <3>1. stamp[p] \in 0 .. now /\ command[p] \in Actions /\ outcome[p] \in Outcomes
      BY <2>1, CliAssumption DEF Invariant, Typed, AttemptReady
    <3> QED
      BY <1>0, <2>1, <3>1, InsertKeeps DEF Invariant, TrailStep, Insert
  <2>2. CASE InsertFails
    BY <1>0, <2>2, ClockKeeps DEF Invariant, TrailStep, InsertFails, ledger
  <2>3. CASE Commit(p) \/ CommitFails(p)
    BY <1>0, <2>3, CommitKeeps
  <2> QED
    BY <2>1, <2>2, <2>3 DEF RunJob
<1>2. Typed'
  BY <1>0, CliAssumption DEF Invariant, Typed, RunJob, history
<1>3. AttemptReady'
  BY CliAssumption DEF Invariant, Typed, AttemptReady, RunJob
<1>4. ConfirmedIsSettled'
  BY DEF Invariant, Typed, ConfirmedIsSettled, RunJob, history
<1> QED
  BY <1>0, <1>1, <1>2, <1>3, <1>4 DEF Invariant

LEMMA CloseKeeps ==
  ASSUME Invariant, NEW p \in Procs, Close(p)
  PROVE  Invariant' /\ TrailStep /\ now' = now
<1> USE DEF GoTo, ExitWith, End
<1>1. LedgerFine' /\ TrailStep /\ now' = now
  BY RollbackKeeps DEF Close, Invariant, Rollback, TrailStep, history
<1>2. Typed'
  BY DEF Invariant, Typed, Close, Places, Statuses, history
<1>3. AttemptReady'
  BY CliAssumption DEF Invariant, Typed, AttemptReady, Close, Actions
<1>4. ConfirmedIsSettled'
  BY DEF Invariant, Typed, ConfirmedIsSettled, Close, Actions, history
<1> QED
  BY <1>1, <1>2, <1>3, <1>4 DEF Invariant

LEMMA KillKeeps ==
  ASSUME Invariant, NEW p \in Procs, Kill(p)
  PROVE  Invariant' /\ TrailStep /\ now' = now
<1> USE DEF GoTo, ExitWith, End, ForgetAttempt
<1>1. LedgerFine' /\ TrailStep /\ now' = now
  BY RollbackKeeps DEF Kill, Invariant, Rollback, TrailStep, history
<1>2. Typed'
  BY CliAssumption DEF Invariant, Typed, Kill, Places, Statuses, history
<1>3. AttemptReady'
  BY CliAssumption DEF Invariant, Typed, AttemptReady, Kill
<1>4. ConfirmedIsSettled'
  BY DEF Invariant, Typed, ConfirmedIsSettled, Kill, history
<1> QED
  BY <1>1, <1>2, <1>3, <1>4 DEF Invariant

LEMMA TickKeeps ==
  ASSUME Invariant, Tick
  PROVE  Invariant' /\ UNCHANGED <<rows, lastId, noted>>
<1>1. LedgerFine'
  BY ClockKeeps, CliAssumption DEF Invariant, Typed, Tick
<1>2. Typed'
  BY CliAssumption DEF Invariant, Typed, Tick, process, history
<1>3. AttemptReady'
  BY CliAssumption DEF Invariant, Typed, AttemptReady, Tick, process
<1>4. ConfirmedIsSettled'
  BY DEF Invariant, ConfirmedIsSettled, Tick, process, history
<1> QED
  BY <1>1, <1>2, <1>3, <1>4 DEF Invariant, Tick, ledger, history

-----------------------------------------------------------------------------
(* The whole.                                                              *)

\* Every step keeps the invariant, and does to the trail what AuditTrail allows.
LEMMA StepKeeps ==
  ASSUME Invariant, [Next]_vars
  PROVE  /\ Invariant'
         /\ \/ TrailStep /\ now' = now
            \/ Tick /\ UNCHANGED <<rows, lastId, noted>>
<1>1. ASSUME NEW p \in Procs, Start(p) \/ Step(p) \/ Interrupt(p) \/ Kill(p)
      PROVE  Invariant' /\ TrailStep /\ now' = now
  BY <1>1, StartKeeps, OpenKeeps, EnterAdapterKeeps, ReadStateKeeps, WorkKeeps,
     InsertRowKeeps, CommitRowKeeps, QueryKeeps, LeaveKeeps, RunJobKeeps, CloseKeeps,
     PrintKeeps, InterruptKeeps, KillKeeps DEF Step
<1>2. CASE Tick
  BY <1>2, TickKeeps
<1>3. CASE UNCHANGED vars
  <2>1. LedgerFine' /\ TrailStep /\ now' = now
    BY <1>3, ClockKeeps, CliAssumption DEF Invariant, Typed, TrailStep, vars, ledger, history
  <2>2. Typed' /\ AttemptReady' /\ ConfirmedIsSettled'
    BY <1>3 DEF Invariant, Typed, AttemptReady, ConfirmedIsSettled, vars, process, history
  <2> QED
    BY <2>1, <2>2 DEF Invariant
<1> QED
  BY <1>1, <1>2, <1>3 DEF Next

\* The conjunction that is inductive: the ledger's open transaction holds the next
\* row, a pending INSERT has its parameters, a confirmed write is on its way out.
THEOREM InvariantHolds == Spec => []Invariant
BY Start0, StepKeeps, PTL DEF Spec

\* Every reachable state of the commands and their ledger is typed, and no two
\* write transactions are ever open (ledger.py, record).
THEOREM TypeCorrect == Spec => []TypeOK
BY InvariantHolds, InvariantImpliesTypeOK, PTL

\* The same conjunction as the run checks it: a cancelled INSERT keeps its parameters
\* in its connection's thread, the row of an open transaction is the next one, and a
\* command that wrote ends with zero or by its interrupt (ledger.py, record; policy.py,
\* _audit).
THEOREM CliInductive == Spec => []CliInvariant
<1>1. Invariant => CliInvariant
  BY InvariantImpliesTypeOK DEF Invariant, LedgerFine, CliInvariant
<1> QED
  BY <1>1, InvariantHolds, PTL

\* The ledger's file is the trail the other modules take it for: whatever is
\* interrupted, killed or rolled back, it grows by one row with the next id
\* (ledger.py, record and close).
THEOREM TrailGrows == Spec => TrailOnlyGrows
<1>1. Init => Trail!TrailInit
  BY DEF Init, LedgerInit, Trail!TrailInit, Trail!LedgerInit
<1>2. ASSUME Invariant, [Next]_vars
      PROVE  [Trail!TrailNext]_<<rows, lastId, now>>
  <2>1. CASE TrailStep /\ now' = now
    BY <2>1 DEF TrailStep, Trail!TrailNext, Trail!AppendRow, Trail!Record, Record,
                Trail!Actions, Trail!Outcomes, Actions, Outcomes
  <2>2. CASE Tick /\ UNCHANGED <<rows, lastId>>
    BY <2>2 DEF Tick, Trail!TrailNext, Trail!ClockAdvances
  <2> QED
    BY <1>2, <2>1, <2>2, StepKeeps
<1> QED
  BY <1>1, <1>2, InvariantHolds, PTL DEF Spec, TrailOnlyGrows, Trail!TrailSpec

\* A row whose id record() has returned is in the ledger for good (ledger.py,
\* record: "Append one row and commit; returns the new row id").
THEOREM NotedStand == Spec => []NotedRowsStand
<1>1. Init => NotedRowsStand
  BY DEF Init, NotedRowsStand
<1>2. ASSUME Invariant, NotedRowsStand, [Next]_vars
      PROVE  NotedRowsStand'
  <2>1. rows \subseteq rows'
    BY <1>2, StepKeeps DEF TrailStep, Record
  <2>2. \/ noted' = noted
        \/ noted' = noted \cup {lastId'} /\ \E r \in rows' : r.id = lastId'
    BY <1>2, StepKeeps DEF TrailStep
  <2> QED
    BY <1>2, <2>1, <2>2 DEF NotedRowsStand
<1> QED
  BY <1>1, <1>2, InvariantHolds, PTL DEF Spec

\* A caller who repeats what failed makes one confirmed write (policy.py, _audit).
THEOREM OneWrite == Spec => []OneWritePerIntent
<1>1. Invariant => OneWritePerIntent
  BY DEF Invariant, Typed, ConfirmedIsSettled, OneWritePerIntent
<1> QED
  BY <1>1, InvariantHolds, PTL

-----------------------------------------------------------------------------
(* What `ledger` prints.  The rank of a row is the number of rows newer than *)
(* it: ids are unique, so that ranks are, and each position has its row.     *)

UniqueIds ==
  /\ \A r \in rows : r.id <= lastId
  /\ \A r, s \in rows : r.id = s.id => r = s

Above(r) == {s \in rows : Newer(s, r)}
Rank(r) == Cardinality(Above(r))

\* Newest first is a total order of the rows.
LEMMA NewerOrders ==
  ASSUME rows \subseteq Row, UniqueIds
  PROVE  /\ \A r \in rows : ~ Newer(r, r)
         /\ \A r, s \in rows : r # s => Newer(r, s) \/ Newer(s, r)
         /\ \A r, s, u \in rows : Newer(r, s) /\ Newer(s, u) => Newer(r, u)
<1>1. \A r \in rows : r.id \in Nat /\ r.ts \in Nat
  BY DEF Row
<1> QED
  BY <1>1 DEF Newer, UniqueIds

LEMMA RankOrders ==
  ASSUME rows \subseteq Row, IsFiniteSet(rows), UniqueIds
  PROVE  /\ \A r \in rows : Rank(r) \in 0 .. Cardinality(rows) - 1
         /\ \A r, s \in rows : Rank(s) < Rank(r) <=> Newer(s, r)
         /\ \A r, s \in rows : Rank(s) = Rank(r) => s = r
<1>1. \A r \in rows : IsFiniteSet(Above(r)) /\ Rank(r) \in Nat
  <2> SUFFICES ASSUME NEW r \in rows PROVE IsFiniteSet(Above(r)) /\ Rank(r) \in Nat
    OBVIOUS
  <2>1. Above(r) \subseteq rows
    BY DEF Above
  <2>2. IsFiniteSet(Above(r))
    BY <2>1, FS_Subset
  <2> QED
    BY <2>2, FS_CardinalityType DEF Rank
<1>2. ASSUME NEW r \in rows PROVE Rank(r) \in 0 .. Cardinality(rows) - 1
  <2>1. Above(r) \subseteq rows \ {r}
    BY NewerOrders DEF Above
  <2>2. /\ IsFiniteSet(rows \ {r})
        /\ Cardinality(rows \ {r}) = Cardinality(rows) - 1
    BY FS_RemoveElement
  <2>3. Rank(r) <= Cardinality(rows \ {r})
    BY <2>1, <2>2, FS_Subset DEF Rank
  <2>4. Cardinality(rows) \in Nat
    BY FS_CardinalityType
  <2> QED
    BY <1>1, <2>2, <2>3, <2>4
<1>3. ASSUME NEW r \in rows, NEW s \in rows, Newer(s, r) PROVE Rank(s) < Rank(r)
  <2>1. Above(s) \cup {s} \subseteq Above(r)
    BY <1>3, NewerOrders DEF Above
  <2>2. s \notin Above(s) /\ IsFiniteSet(Above(s)) /\ IsFiniteSet(Above(r))
    BY <1>1, NewerOrders DEF Above
  <2>3. Cardinality(Above(s) \cup {s}) = Cardinality(Above(s)) + 1
    BY <2>2, FS_AddElement
  <2>4. Cardinality(Above(s) \cup {s}) <= Cardinality(Above(r))
    BY <2>1, <2>2, FS_Subset
  <2>5. Rank(s) + 1 <= Rank(r)
    BY <2>3, <2>4 DEF Rank
  <2> QED
    BY <1>1, <2>5
<1>4. \A r, s \in rows : s = r \/ Newer(s, r) \/ Newer(r, s)
  BY NewerOrders
<1> QED
  BY <1>1, <1>2, <1>3, <1>4

\* Every position has its row.
LEMMA RanksFilled ==
  ASSUME rows \subseteq Row, IsFiniteSet(rows), UniqueIds,
         NEW k \in 0 .. Cardinality(rows) - 1
  PROVE  \E r \in rows : Rank(r) = k
<1> DEFINE n == Cardinality(rows)
           rank == [r \in rows |-> Rank(r)]
<1>1. n \in Nat
  BY FS_CardinalityType
<1>2. IsFiniteSet(0 .. n - 1) /\ Cardinality(0 .. n - 1) = n
  <2>1. /\ IsFiniteSet(0 .. n - 1)
        /\ Cardinality(0 .. n - 1) = IF 0 > n - 1 THEN 0 ELSE (n - 1) - 0 + 1
    <3>1. 0 \in Int /\ n - 1 \in Int
      BY <1>1
    <3> HIDE DEF n
    <3> QED
      BY <3>1, FS_Interval
  <2> QED
    BY <1>1, <2>1
<1>3. rank \in Injection(rows, 0 .. n - 1)
  <2>1. rank \in [rows -> 0 .. n - 1]
    BY RankOrders
  <2>2. IsInjective(rank)
    BY RankOrders DEF IsInjective
  <2> QED
    BY <2>1, <2>2 DEF Injection
<1>4. rank \in Surjection(rows, 0 .. n - 1)
  BY <1>2, <1>3, FS_Injection
<1> QED
  BY <1>4 DEF Surjection

\* SELECT ... ORDER BY ts DESC, id DESC LIMIT ?
LEMMA RecentNewest ==
  ASSUME rows \subseteq Row, IsFiniteSet(rows), UniqueIds, NEW limit \in Int
  PROVE  ListsNewest(Recent(limit), limit, rows)
<1> DEFINE n == Cardinality(rows)
           size == IF limit < 0 \/ limit > n THEN n ELSE limit
           listed == Recent(limit)
<1>1. n \in Nat /\ size \in Nat /\ size <= n
  BY FS_CardinalityType
<1>2. listed = [i \in 1 .. size |-> CHOOSE r \in rows : Rank(r) = i - 1]
  BY DEF Recent, Rank, Above
<1>3. size < 0 \/ size >= 0
  BY <1>1
<1>4. DOMAIN listed = 1 .. size /\ Len(listed) = size
  BY <1>1, <1>2
<1>5. \A i \in 1 .. size : listed[i] \in rows /\ Rank(listed[i]) = i - 1
  <2> SUFFICES ASSUME NEW i \in 1 .. size
               PROVE  listed[i] \in rows /\ Rank(listed[i]) = i - 1
    OBVIOUS
  <2>1. i - 1 \in 0 .. n - 1
    BY <1>1
  <2>2. \E r \in rows : Rank(r) = i - 1
    BY <2>1, RanksFilled
  <2>3. listed[i] = CHOOSE r \in rows : Rank(r) = i - 1
    BY <1>2
  <2> HIDE DEF listed
  <2> QED
    BY <2>2, <2>3
<1> HIDE DEF listed
<1>6. ASSUME NEW r \in rows, Rank(r) < size PROVE r \in Shown(listed)
  <2>1. Rank(r) \in Nat
    BY RankOrders, <1>1
  <2>2. Rank(r) + 1 \in 1 .. size /\ (Rank(r) + 1) - 1 = Rank(r)
    BY <1>1, <1>6, <2>1
  <2>3. listed[Rank(r) + 1] = r
    BY <1>5, <2>2, RankOrders
  <2> QED
    BY <1>4, <2>2, <2>3 DEF Shown
<1>7. \A i \in 1 .. Len(listed) - 1 : Newer(listed[i], listed[i + 1])
  <2> SUFFICES ASSUME NEW i \in 1 .. size - 1 PROVE Newer(listed[i], listed[i + 1])
    BY <1>4
  <2>1. i \in 1 .. size /\ i + 1 \in 1 .. size /\ i - 1 < (i + 1) - 1
    BY <1>1
  <2> QED
    BY <1>5, <2>1, RankOrders
<1>8. ASSUME limit < 0 PROVE Shown(listed) = rows
  <2>1. \A r \in rows : Rank(r) < size
    BY <1>1, <1>8, RankOrders
  <2>2. Shown(listed) \subseteq rows
    BY <1>4, <1>5 DEF Shown
  <2> QED
    BY <1>6, <2>1, <2>2
<1>9. ASSUME limit >= 0 PROVE Len(listed) = IF n < limit THEN n ELSE limit
  BY <1>1, <1>4, <1>9
<1>10. ASSUME NEW r \in rows \ Shown(listed), NEW s \in Shown(listed) PROVE Newer(s, r)
  <2>1. PICK i \in 1 .. size : s = listed[i]
    BY <1>4 DEF Shown
  <2>2. s \in rows /\ Rank(s) = i - 1
    BY <1>5, <2>1
  <2>3. Rank(r) \in Nat /\ ~ Rank(r) < size
    BY <1>1, <1>6, <1>10, RankOrders
  <2>4. Rank(s) < Rank(r)
    BY <1>1, <2>2, <2>3
  <2> QED
    BY <2>2, <2>4, RankOrders
<1> QED
  BY <1>7, <1>8, <1>9, <1>10 DEF ListsNewest, Newer, listed

Planned(new) ==
  \E c \in Contexts : new = [kind |-> "plan", context |-> c, entries |-> PlanDay(c)]

Queried(new) ==
  \E limit \in Limits :
    new = [kind |-> "ledger", limit |-> limit, listed |-> Recent(limit), all |-> rows]

Listing ==
  /\ UniqueIds
  /\ table = [p \in Procs |-> table[p]]
  /\ NewestFirst
  /\ PlanFollowsRules

LEMMA RowsStayUnique ==
  ASSUME Invariant, UniqueIds, [Next]_vars
  PROVE  UniqueIds'
<1>1. rows \subseteq Row /\ lastId \in Nat /\ \A r \in rows : r.id \in Nat
  BY DEF Invariant, LedgerFine, Row
<1>2. CASE UNCHANGED <<rows, lastId>>
  BY <1>2 DEF UniqueIds
<1>3. ASSUME NEW ts, NEW a, NEW o, Record(ts, a, o) PROVE UniqueIds'
  BY <1>1, <1>3 DEF UniqueIds, Record
<1> QED
  BY <1>2, <1>3, StepKeeps DEF TrailStep

\* A table is printed as it was made.
LEMMA TableStep ==
  ASSUME Listing, [Next]_vars
  PROVE  /\ table' = [p \in Procs |-> table'[p]]
         /\ \A q \in Procs :
              \/ table'[q] \in {table[q], Blank}
              \/ Planned(table'[q])
              \/ Queried(table'[q])
<1> USE DEF Listing
<1> DEFINE Made(new) == new = Blank \/ Planned(new) \/ Queried(new)
           Goal == /\ table' = [p \in Procs |-> table'[p]]
                   /\ \A q \in Procs : table'[q] = table[q] \/ Made(table'[q])
<1> SUFFICES Goal
  OBVIOUS
<1> HIDE DEF Made
<1>1. ASSUME NEW p \in Procs, NEW new, table' = [table EXCEPT ![p] = new], Made(new) PROVE Goal
  BY <1>1
<1>2. CASE UNCHANGED table
  BY <1>2
<1>3. ASSUME NEW p \in Procs, table' = [table EXCEPT ![p] = Blank] PROVE Goal
  <2>1. Made(Blank)
    BY DEF Made
  <2> QED
    BY <1>1, <1>3, <2>1
<1>4. ASSUME NEW p \in Procs, BeginPlan(p) PROVE Goal
  <2>1. PICK c \in Contexts :
          table' = [table EXCEPT ![p] = [kind |-> "plan", context |-> c, entries |-> PlanDay(c)]]
    BY <1>4 DEF BeginPlan
  <2>2. Made([kind |-> "plan", context |-> c, entries |-> PlanDay(c)])
    BY DEF Made, Planned
  <2> QED
    BY <1>1, <2>1, <2>2
<1>5. ASSUME NEW p \in Procs, Query(p) PROVE Goal
  <2>1. CASE UNCHANGED table
    BY <1>2, <2>1
  <2>2. ASSUME NEW limit \in Limits,
               table' = [table EXCEPT ![p] = [kind |-> "ledger", limit |-> limit,
                                              listed |-> Recent(limit), all |-> rows]]
        PROVE  Goal
    <3>1. Made([kind |-> "ledger", limit |-> limit, listed |-> Recent(limit), all |-> rows])
      BY DEF Made, Queried
    <3> QED
      BY <1>1, <2>2, <3>1
  <2> QED
    BY <1>5, <2>1, <2>2 DEF Query
<1>6. ASSUME NEW p \in Procs, Start(p) PROVE Goal
  BY <1>2, <1>4, <1>6 DEF Start, BeginStatus, BeginWithLedger
<1>7. ASSUME NEW p \in Procs, Close(p) \/ PrintTable(p) \/ Kill(p) PROVE Goal
  BY <1>2, <1>3, <1>7 DEF Close, PrintTable, Kill
<1>8. ASSUME NEW p \in Procs,
             \/ Open(p) \/ EnterAdapter(p) \/ ReadState(p) \/ Work(p) \/ InsertRow(p)
             \/ CommitRow(p) \/ Leave(p) \/ RunJob(p) \/ Interrupt(p)
      PROVE  Goal
  <2>1. UNCHANGED table
    BY <1>8 DEF Open, EnterAdapter, ReadState, Work, InsertRow, CommitRow, Leave, RunJob, Interrupt
  <2> QED
    BY <1>2, <2>1
<1>9. CASE Tick \/ UNCHANGED vars
  BY <1>2, <1>9 DEF Tick, vars, process
<1> QED
  BY <1>5, <1>6, <1>7, <1>8, <1>9 DEF Next, Step

LEMMA ListingHolds == Spec => []Listing
<1>1. Init => Listing
  BY DEF Init, LedgerInit, Listing, UniqueIds, NewestFirst, PlanFollowsRules, Blank
<1>2. ASSUME Invariant, Listing, [Next]_vars PROVE Listing'
  <2>1. UniqueIds'
    BY <1>2, RowsStayUnique DEF Listing
  <2>2. rows \subseteq Row /\ IsFiniteSet(rows) /\ UniqueIds
    BY <1>2 DEF Invariant, LedgerFine, Listing
  <2>3. \A limit \in Limits : ListsNewest(Recent(limit), limit, rows)
    BY <2>2, RecentNewest, CliAssumption
  <2>4. NewestFirst'
    <3> SUFFICES ASSUME NEW p \in Procs, table'[p].kind = "ledger"
                 PROVE  ListsNewest(table'[p].listed, table'[p].limit, table'[p].all)
      BY DEF NewestFirst, ListsNewest, Shown
    <3>1. CASE table'[p] = table[p]
      BY <1>2, <3>1 DEF Listing, NewestFirst
    <3>2. CASE Queried(table'[p])
      BY <2>3, <3>2 DEF Queried
    <3>3. table'[p] # Blank /\ ~ Planned(table'[p])
      <4>1. Blank.kind # "ledger"
        BY DEF Blank
      <4>2. \A c : [kind |-> "plan", context |-> c, entries |-> PlanDay(c)].kind # "ledger"
        OBVIOUS
      <4> QED
        BY <4>1, <4>2 DEF Planned
    <3> QED
      BY <1>2, <3>1, <3>2, <3>3, TableStep
  <2>5. PlanFollowsRules'
    <3> SUFFICES ASSUME NEW p \in Procs, table'[p].kind = "plan"
                 PROVE  FollowsRules(table'[p].entries, table'[p].context)
      BY DEF PlanFollowsRules, FollowsRules
    <3>1. CASE table'[p] = table[p]
      BY <1>2, <3>1 DEF Listing, PlanFollowsRules
    <3>2. CASE Planned(table'[p])
      <4>1. PICK c \in Contexts : table'[p] = [kind |-> "plan", context |-> c, entries |-> PlanDay(c)]
        BY <3>2 DEF Planned
      <4>2. FollowsRules(PlanDay(c), c)
        BY PlanDayFollows, CliAssumption DEF Context
      <4> QED
        BY <4>1, <4>2
    <3>3. table'[p] # Blank /\ ~ Queried(table'[p])
      <4>1. Blank.kind # "plan"
        BY DEF Blank
      <4>2. \A limit : [kind |-> "ledger", limit |-> limit,
                        listed |-> Recent(limit), all |-> rows].kind # "plan"
        OBVIOUS
      <4> QED
        BY <4>1, <4>2 DEF Queried
    <3> QED
      BY <1>2, <3>1, <3>2, <3>3, TableStep
  <2> QED
    BY <1>2, <2>1, <2>4, <2>5, TableStep DEF Listing
<1> QED
  BY <1>1, <1>2, InvariantHolds, PTL DEF Spec

\* ledger.py, recent: "Newest first.  Ordered by ts, with id as the tiebreaker", for
\* every number of rows and every limit, rows committed out of order included.
THEOREM ListsNewestFirst == Spec => []NewestFirst
<1>1. Listing => NewestFirst
  BY DEF Listing
<1> QED
  BY <1>1, ListingHolds, PTL

\* cli.py, plan: the schedule it prints is the one the rules give hour by hour
\* for the state of charge and the forecast it was asked about, for every choice
\* of these, whatever other commands run and are interrupted meanwhile.
THEOREM PlansFollowRules == Spec => []PlanFollowsRules
<1>1. Listing => PlanFollowsRules
  BY DEF Listing
<1> QED
  BY <1>1, ListingHolds, PTL

=============================================================================
