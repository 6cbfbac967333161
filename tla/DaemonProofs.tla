---------------------------- MODULE DaemonProofs ----------------------------
(***************************************************************************)
(* That the daemon is typed, that the audit view it publishes is never     *)
(* ahead of the ledger, and that the age it shows is never too large: for  *)
(* every window, clock, number of crashes and every set of attempts other  *)
(* processes may record.                                                   *)
(***************************************************************************)
EXTENDS Daemon, FiniteSetTheorems, TLAPS

USE DaemonAssumption

-----------------------------------------------------------------------------
(* The ledger the daemon reads.                                            *)

RowsLabelled(label) == {r \in rows : <<r.action, r.outcome>> = label}

\* A query counts some of the rows with its labels (ledger.py, count_since).
LEMMA CountsOnlyRows ==
  ASSUME LedgerTypeOK, NEW action, NEW outcome, NEW from
  PROVE  /\ CountSince(action, outcome, from) \in Nat
         /\ Cardinality(RowsLabelled(<<action, outcome>>)) \in Nat
         /\ CountSince(action, outcome, from) <= Cardinality(RowsLabelled(<<action, outcome>>))
<1> DEFINE counted == Matching(action, outcome, from)
           labelled == RowsLabelled(<<action, outcome>>)
<1>1. counted \subseteq labelled /\ labelled \subseteq rows
  BY DEF Matching, RowsLabelled
<1>2. IsFiniteSet(labelled)
  BY <1>1, FS_Subset DEF LedgerTypeOK
<1>3. IsFiniteSet(counted) /\ Cardinality(counted) <= Cardinality(labelled)
  BY <1>1, <1>2, FS_Subset
<1>4. Cardinality(counted) \in Nat /\ Cardinality(labelled) \in Nat
  BY <1>2, <1>3, FS_CardinalityType
<1> QED
  BY <1>3, <1>4 DEF CountSince

\* A record adds a row and takes none away (ledger.py, record).
LEMMA RecordAdds ==
  ASSUME LedgerTypeOK, NEW ts \in Nat, NEW action \in Actions, NEW outcome \in Outcomes,
         Record(ts, action, outcome)
  PROVE  LedgerTypeOK' /\ rows \subseteq rows'
<1>1. IsFiniteSet(rows')
  BY FS_AddElement DEF Record, LedgerTypeOK
<1> QED
  BY <1>1 DEF Record, LedgerTypeOK, Row

\* More rows, and no label has fewer.
LEMMA LabelsGrow ==
  ASSUME LedgerTypeOK, LedgerTypeOK', rows \subseteq rows', NEW label
  PROVE  /\ Cardinality(RowsLabelled(label)) \in Nat
         /\ Cardinality(RowsLabelled(label)') \in Nat
         /\ Cardinality(RowsLabelled(label)) <= Cardinality(RowsLabelled(label)')
<1>1. RowsLabelled(label) \subseteq RowsLabelled(label)' /\ RowsLabelled(label)' \subseteq rows'
  BY DEF RowsLabelled
<1>2. IsFiniteSet(RowsLabelled(label)')
  BY <1>1, FS_Subset DEF LedgerTypeOK
<1> QED
  BY <1>1, <1>2, FS_Subset, FS_CardinalityType

-----------------------------------------------------------------------------
(* Types.                                                                  *)

LEMMA InitTyped == Init => TypeOK
<1> SUFFICES ASSUME Init
             PROVE  TypeOK
  OBVIOUS
<1>1. LedgerTypeOK
  BY FS_EmptySet DEF Init, LedgerInit, LedgerTypeOK
<1>2. now \in 0 .. MaxTime /\ crashes \in 0 .. MaxCrashes /\ ageGauge \in 0 .. now
  BY DEF Init
<1>3. cacheTs \in Never .. now /\ lastRead \in Never .. now
  BY DEF Init, Never
<1> QED
  BY <1>1, <1>2, <1>3 DEF Init, TypeOK

\* What a query that succeeds publishes.
LEMMA CountsTyped == TypeOK => TrailingCounts \in [Labels -> Nat]
<1> SUFFICES ASSUME TypeOK, NEW label \in Labels
             PROVE  CountSince(label[1], label[2], now - Window) \in Nat
  BY DEF TrailingCounts
<1> QED
  BY CountsOnlyRows DEF TypeOK

LEMMA AttemptTyped ==
  ASSUME TypeOK, Attempt
  PROVE  LedgerTypeOK' /\ rows \subseteq rows'
<1>1. PICK a \in Attempts, ts \in 0 .. now : Record(ts, a[1], a[2])
  BY DEF Attempt
<1>2. ts \in Nat /\ a[1] \in Actions /\ a[2] \in Outcomes
  BY <1>1 DEF TypeOK
<1> QED
  BY <1>1, <1>2, RecordAdds DEF TypeOK

LEMMA StepTyped ==
  ASSUME TypeOK, [Next]_vars
  PROVE  TypeOK'
<1>1. CASE Boot \/ Loop \/ Sleep \/ Finish \/ Signal
  <2>1. /\ pc' \in {"loop", "scrape", "finish", "exited", pc}
        /\ stop' \in {TRUE, stop} /\ cacheTs' \in {Never, cacheTs}
        /\ UNCHANGED <<rows, lastId, now, ageGauge, view, lastRead, crashes>>
    BY <1>1 DEF Boot, Loop, LoopTest, Sleep, Finish, Signal
  <2>2. cacheTs' \in Never .. now' /\ ageGauge' \in 0 .. now' /\ lastRead' \in Never .. now'
    <3>1. now' = now /\ now \in Nat
      BY <2>1 DEF TypeOK
    <3> QED
      BY <2>1, <3>1 DEF TypeOK, Never
  <2>3. stop' \in BOOLEAN
    BY <2>1 DEF TypeOK
  <2>4. LedgerTypeOK'
    BY <2>1 DEF TypeOK, LedgerTypeOK
  <2>5. pc' \in {"boot", "loop", "scrape", "publish", "sleep", "finish", "exited"}
    BY <2>1 DEF TypeOK
  <2> QED
    BY <2>1, <2>2, <2>3, <2>4, <2>5 DEF TypeOK
<1>2. CASE Scrape
  <2>1. ageGauge' \in 0 .. now /\ cacheTs' \in Never .. now /\ lastRead' \in Never .. now
    BY <1>2 DEF Scrape, PublishState, Age, TypeOK, Never
  <2> QED
    BY <1>2, <2>1 DEF Scrape, AfterError, TypeOK, LedgerTypeOK
<1>3. CASE Publish
  <2>1. view' = Absent \/ view' \in [Labels -> Nat]
    BY <1>3, CountsTyped DEF Publish, PublishCounts, TypeOK
  <2>2. LedgerTypeOK'
    BY <1>3 DEF Publish, TypeOK, LedgerTypeOK
  <2> QED
    BY <1>3, <2>1, <2>2 DEF Publish, TypeOK
<1>4. CASE Crash
  <2>1. LedgerTypeOK'
    BY <1>4 DEF Crash, TypeOK, LedgerTypeOK
  <2>2. cacheTs' \in Never .. now' /\ ageGauge' \in 0 .. now' /\ lastRead' \in Never .. now'
    <3>1. now' = now /\ now \in Nat
      BY <1>4 DEF Crash, TypeOK
    <3> QED
      BY <1>4, <3>1 DEF Crash, Fresh, TypeOK, Never
  <2>3. crashes' \in 0 .. MaxCrashes
    BY <1>4 DEF Crash, TypeOK
  <2> QED
    BY <1>4, <2>1, <2>2, <2>3 DEF Crash, Fresh, TypeOK
<1>5. CASE Attempt
  BY <1>5, AttemptTyped DEF Attempt, TypeOK, process
<1>6. CASE Tick
  BY <1>6 DEF Tick, TypeOK, LedgerTypeOK, process, Never
<1>7. CASE UNCHANGED vars
  BY <1>7 DEF TypeOK, LedgerTypeOK, vars, process
<1> QED
  BY <1>1, <1>2, <1>3, <1>4, <1>5, <1>6, <1>7 DEF Next

\* Every reachable state of the daemon is typed: no age is negative, and the view
\* has a count for each label pair once it has one for any (daemon.py, metrics.py).
THEOREM TypeCorrect == Spec => []TypeOK
BY InitTyped, StepTyped, PTL DEF Spec

-----------------------------------------------------------------------------
(* The view.                                                               *)

\* What is published is the count of rows that are there, and rows stay: no label
\* pair ever shows more writes than were committed, across failed queries, crashes
\* and restarts (daemon.py, _publish_ledger).
THEOREM ViewBehind == Spec => []ViewNeverAhead
<1>1. Init => ViewNeverAhead
  BY DEF Init, ViewNeverAhead
<1>2. ASSUME TypeOK, TypeOK', ViewNeverAhead, [Next]_vars
      PROVE  ViewNeverAhead'
  <2>1. rows \subseteq rows'
    BY <1>2, AttemptTyped DEF Next, Boot, Loop, Scrape, Publish, Sleep, Finish, Signal, Crash,
                              Tick, vars
  <2>2. \A label : /\ Cardinality(RowsLabelled(label)) \in Nat
                   /\ Cardinality(RowsLabelled(label)') \in Nat
                   /\ Cardinality(RowsLabelled(label)) <= Cardinality(RowsLabelled(label)')
    BY <1>2, <2>1, LabelsGrow DEF TypeOK
  <2>3. CASE view' = view \/ view' = Absent
    <3>1. view # Absent /\ view' # Absent => view' = view /\ view \in [Labels -> Nat]
      BY <1>2, <2>3 DEF TypeOK
    <3>2. ASSUME view' # Absent, NEW label \in Labels
          PROVE  view'[label] <= Cardinality(RowsLabelled(label)')
      <4>1. view'[label] \in Nat /\ view'[label] <= Cardinality(RowsLabelled(label))
        BY <1>2, <2>3, <3>1, <3>2 DEF ViewNeverAhead, RowsLabelled
      <4> QED
        BY <2>2, <4>1
    <3> QED
      BY <3>2 DEF ViewNeverAhead, RowsLabelled
  <2>4. CASE Publish /\ view' = TrailingCounts
    <3>1. \A label \in Labels : view'[label] <= Cardinality(RowsLabelled(label))
      BY <1>2, <2>4, CountsOnlyRows DEF TrailingCounts, Labels, TypeOK
    <3> QED
      BY <2>2, <2>4, <3>1 DEF ViewNeverAhead, Publish, RowsLabelled
  <2> QED
    BY <1>2, <2>3, <2>4 DEF Next, Boot, Loop, Scrape, Publish, PublishCounts, Sleep, Finish,
                            Signal, Crash, Fresh, Attempt, Tick, vars, process
<1> QED
  BY <1>1, <1>2, TypeCorrect, PTL DEF Spec

\* The safety half of ViewCatchesUp: a view that has caught up stays so for as long as no
\* row is committed, the clock rests and the process is not replaced.  No failing scrape,
\* no repeated one and no shutdown takes it back (daemon.py, _publish_ledger).
THEOREM ViewStays ==
  Spec => []( /\ view = TrailingCounts
              /\ [][UNCHANGED <<rows, now, crashes>>]_vars
              => [](view = TrailingCounts) )
<1>1. ASSUME TypeOK, [Next]_vars, [UNCHANGED <<rows, now, crashes>>]_vars, view = TrailingCounts
      PROVE  (view = TrailingCounts)'
  <2>1. UNCHANGED <<rows, now, crashes>>
    BY <1>1 DEF vars
  <2>2. TrailingCounts' = TrailingCounts
    BY <2>1 DEF TrailingCounts, CountSince, Matching
  <2>3. view' \in {view, TrailingCounts}
    BY <1>1, <2>1 DEF TypeOK, Next, Boot, Loop, Scrape, Publish, PublishCounts, Sleep, Finish,
                      Signal, Crash, Attempt, Tick, vars, process
  <2> QED
    BY <1>1, <2>2, <2>3
<1> QED
  BY <1>1, TypeCorrect, PTL DEF Spec

-----------------------------------------------------------------------------
(* The age of what is shown.                                               *)

\* The process has no snapshot but the one of the last read.
AgeInvariant ==
  /\ cacheTs # Never => cacheTs = lastRead
  /\ AgeNeverOverstated

\* A scrape publishes the age of a snapshot the adapter holds, which is the last one that
\* was read; a restart begins with neither.
LEMMA AgeStep ==
  ASSUME TypeOK, AgeInvariant, [Next]_vars
  PROVE  AgeInvariant'
<1> USE DEF AgeInvariant, AgeNeverOverstated
<1>0. /\ now \in Nat /\ ageGauge \in 0 .. now
      /\ cacheTs \in Never .. now /\ lastRead \in Never .. now
  BY DEF TypeOK
<1>1. CASE UNCHANGED <<now, cacheTs, lastRead, ageGauge>>
  BY <1>1
<1>2. CASE Scrape
  BY <1>0, <1>2 DEF Scrape, PublishState, Age, Never
<1>3. CASE Finish \/ Crash
  BY <1>0, <1>3 DEF Finish, Crash, Fresh, Never
<1>4. CASE Tick
  BY <1>0, <1>4 DEF Tick, process
<1> QED
  BY <1>1, <1>2, <1>3, <1>4 DEF Next, Boot, Loop, Publish, Sleep, Signal, Attempt, vars, process

\* What the age gauge rests on, across scrapes, failures and restarts (daemon.py,
\* scrape_once; adapter.py, get_state).
LEMMA AgeInductive == Spec => []AgeInvariant
<1>1. Init => AgeInvariant
  BY DEF Init, AgeInvariant, AgeNeverOverstated, Never
<1> QED
  BY <1>1, AgeStep, TypeCorrect, PTL DEF Spec

\* The gauge never says more than the age of the last successful read: when it disagrees
\* with metrics.py's "seconds since the last successful gateway read", it is too small.
THEOREM AgeBounded == Spec => []AgeNeverOverstated
BY AgeInductive, PTL DEF AgeInvariant

\* ... and a scrape that brings a snapshot, fresh or cached, sets it right, so that the
\* scrapes that raise are the only ones after which it may disagree: daemon_state_age
\* needs one of them.
AgeRight ==
  pc = "scrape" /\ pc' = "publish" =>
    \/ lastRead' # Never /\ ageGauge' = now - lastRead'
    \/ UNCHANGED <<cacheTs, lastRead, ageGauge>>

THEOREM AgeHonestUnlessRaised == Spec => [][AgeRight]_vars
<1>1. ASSUME TypeOK, AgeInvariant, [Next]_vars
      PROVE  [AgeRight]_vars
  <2>1. CASE Scrape
    <3>1. now \in Nat /\ now # Never /\ cacheTs <= now
      BY <1>1 DEF TypeOK, Never
    <3>2. Age(now) = 0 /\ now - now = 0 /\ Age(cacheTs) = now - cacheTs
      BY <1>1, <3>1 DEF Age, TypeOK, Never
    <3> QED
      BY <1>1, <2>1, <3>1, <3>2 DEF Scrape, PublishState, AgeInvariant, AgeRight
  <2>2. CASE ~ Scrape
    BY <1>1, <2>2 DEF Next, Boot, Loop, LoopTest, Publish, Sleep, Finish, Signal, Crash, Attempt,
                      Tick, vars, process, AgeRight
  <2> QED
    BY <2>1, <2>2
<1> QED
  BY <1>1, TypeCorrect, AgeInductive, PTL DEF Spec

-----------------------------------------------------------------------------
(* The ledger as a trail.                                                  *)

Trail == INSTANCE AuditTrail

\* The rows that appear under the daemon, committed as late as the write lock lets
\* them, and its own crashes and restarts, leave it the trail that the ledger file
\* implements: what the daemon is checked against is what the commands produce
\* (ledger.py, record; daemon.py, _publish_ledger only queries).
THEOREM LedgerIsTrail == Spec => Trail!TrailSpec
<1>1. Init => Trail!TrailInit
  BY DEF Init, LedgerInit, Trail!TrailInit, Trail!LedgerInit
<1>2. ASSUME [Next]_vars PROVE [Trail!TrailNext]_<<rows, lastId, now>>
  <2>1. CASE Attempt
    <3>1. PICK a \in Attempts, ts \in 0 .. now : Record(ts, a[1], a[2])
      BY <2>1 DEF Attempt
    <3>2. a[1] \in Actions /\ a[2] \in Outcomes /\ now' = now
      BY <2>1 DEF Attempt
    <3>3. Trail!Record(ts, a[1], a[2])
      BY <3>1 DEF Record, Trail!Record
    <3> QED
      BY <3>2, <3>3 DEF Trail!TrailNext, Trail!AppendRow, Trail!Actions, Trail!Outcomes,
                        Actions, Outcomes
  <2>2. CASE Tick
    BY <2>2 DEF Tick, Trail!TrailNext, Trail!ClockAdvances
  <2>3. CASE \/ Boot \/ Loop \/ Scrape \/ Publish \/ Sleep \/ Finish \/ Signal \/ Crash
             \/ UNCHANGED vars
    BY <2>3 DEF Boot, Loop, Scrape, PublishState, AfterError, Publish, Sleep, Finish, Signal,
                Crash, vars
  <2> QED
    BY <1>2, <2>1, <2>2, <2>3 DEF Next
<1> QED
  BY <1>1, <1>2, PTL DEF Spec, Trail!TrailSpec

=============================================================================
