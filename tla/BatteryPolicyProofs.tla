------------------------ MODULE BatteryPolicyProofs ------------------------
(***************************************************************************)
(* Type correctness of BatteryPolicy, and its daily bulkhead, for every    *)
(* number of processes, every budget and every zone whose days the query's *)
(* window covers.                                                          *)
(***************************************************************************)
EXTENDS BatteryPolicy, FiniteSetTheorems, TLAPS

-----------------------------------------------------------------------------
(* The calendar.                                                           *)

\* The calendar's operators are integers on every instant.
LEMMA CalendarType ==
  ASSUME NEW t \in Times
  PROVE  /\ t \in Int
         /\ Offset[t] \in Int
         /\ LocalDate(t) \in Int
         /\ LocalDate(t) \in Dates
         /\ StartOfLocalDay(t) \in Int
<1>1. t \in Int /\ Offset[t] \in Int
  BY TimeAssumption DEF Times
<1>2. LocalClock(t) \in Int
  BY <1>1 DEF LocalClock
<1>3. LocalDate(t) \in Int
  BY <1>2, TimeAssumption DEF LocalDate
<1>4. StartOfLocalDay(t) \in Int
  BY <1>1, <1>3, TimeAssumption DEF StartOfLocalDay
<1> QED
  BY <1>1, <1>3, <1>4 DEF Dates

\* Dates are integers.
LEMMA DatesInt == Dates \subseteq Int
  BY CalendarType DEF Dates

\* No clock goes back within a day.
NoFallBack ==
  \A u, t \in Times : u <= t /\ LocalDate(u) = LocalDate(t) => Offset[u] <= Offset[t]

\* The query's window never misses a part of the day, unless the clocks go back after
\* midnight (policy.py, start_of_local_day): a spring day is covered as well, although
\* its midnight is computed with an offset that was not in force then.
THEOREM ForwardClocksCover ==
  ASSUME NoFallBack
  PROVE  WindowCoversDay
<1> SUFFICES ASSUME NEW t \in Times, NEW u \in Times, LocalDate(t) <= LocalDate(u)
             PROVE  StartOfLocalDay(t) <= u
  BY DEF WindowCoversDay
<1>1. ASSUME NEW v \in Times
      PROVE  LocalDate(v) * DayLength - Offset[v] <= v
  <2>1. v + Offset[v] \in Int /\ LocalDate(v) = (v + Offset[v]) \div DayLength
    BY <1>1, CalendarType DEF LocalDate, LocalClock
  <2>2. LocalDate(v) * DayLength <= v + Offset[v]
    BY <2>1, TimeAssumption
  <2>3. LocalDate(v) * DayLength \in Int
    BY <1>1, CalendarType, TimeAssumption
  <2> QED
    BY <1>1, <2>2, <2>3, CalendarType
<1>2. t \in Int /\ u \in Int /\ Offset[t] \in Int /\ Offset[u] \in Int
  BY CalendarType
<1>3. StartOfLocalDay(t) = LocalDate(t) * DayLength - Offset[t] /\ StartOfLocalDay(t) \in Int
  BY CalendarType DEF StartOfLocalDay
<1>4. CASE t <= u
  BY <1>1, <1>2, <1>3, <1>4
<1>5. CASE u <= t
  <2>1. LocalDate(u) = LocalDate(t)
    BY <1>5, CalendarType, DatesAdvance
  <2>2. Offset[u] <= Offset[t]
    BY <1>5, <2>1 DEF NoFallBack
  <2>3. LocalDate(t) * DayLength - Offset[u] <= u
    BY <1>1, <2>1
  <2>4. LocalDate(t) * DayLength \in Int
    BY CalendarType, TimeAssumption
  <2> QED
    BY <1>2, <1>3, <2>2, <2>3, <2>4
<1> QED
  BY <1>2, <1>4, <1>5

\* ... and so in a zone that never changes its offset.
THEOREM FixedOffsetCovers ==
  ASSUME NEW c \in Int, Offset = [t \in Times |-> c]
  PROVE  WindowCoversDay
<1>1. NoFallBack
  BY DEF NoFallBack
<1> QED
  BY <1>1, ForwardClocksCover

-----------------------------------------------------------------------------
(* Type correctness.  The type invariant is inductive once it is known that  *)
(* a process that is not idle has a request, and one that is about to record *)
(* an outcome.                                                               *)

CallsTyped ==
  \A p \in Procs :
    /\ pc[p] # "idle" => request[p] \in Requests
    /\ pc[p] = "record" => outcome[p] \in Outcomes

\* A request names an action of the ledger's vocabulary.
LEMMA RequestActions == \A r \in Requests : r.action \in Actions
  BY PolicyAssumption DEF ModeRequests, ReserveRequests, Actions

\* Concluding a call keeps the counter and the process variables typed.
LEMMA ConcludeType ==
  ASSUME TypeOK, CallsTyped, NEW p \in Procs, NEW a \in Actions, NEW o \in Outcomes,
         Conclude(p, a, o)
  PROVE  /\ counted' \in [Actions \X Outcomes -> Nat]
         /\ pc' \in [Procs -> Places]
         /\ outcome' \in [Procs -> Outcomes \cup {"none"}]
         /\ stamp' \in [Procs -> Times]
         /\ pc' = [pc EXCEPT ![p] = "record"]
         /\ outcome' = [outcome EXCEPT ![p] = o]
  BY DEF TypeOK, Conclude, GoTo, Places

\* A process that has proceeded or concluded: what CallsTyped asks of it.
Advanced(p) ==
  /\ counted' \in [Actions \X Outcomes -> Nat]
  /\ pc' \in [Procs -> Places]
  /\ outcome' \in [Procs -> Outcomes \cup {"none"}]
  /\ stamp' \in [Procs -> Times]
  /\ pc'[p] # "idle"
  /\ pc'[p] = "record" => outcome'[p] \in Outcomes
  /\ \A q \in Procs \ {p} : pc'[q] = pc[q] /\ outcome'[q] = outcome[q]

LEMMA ConcludeAdvances ==
  ASSUME TypeOK, CallsTyped, NEW p \in Procs, NEW a \in Actions, NEW o \in Outcomes,
         Conclude(p, a, o)
  PROVE  Advanced(p)
<1>1. /\ counted' \in [Actions \X Outcomes -> Nat]
      /\ pc' \in [Procs -> Places]
      /\ outcome' \in [Procs -> Outcomes \cup {"none"}]
      /\ stamp' \in [Procs -> Times]
      /\ pc' = [pc EXCEPT ![p] = "record"]
      /\ outcome' = [outcome EXCEPT ![p] = o]
  BY ConcludeType
<1> QED
  BY <1>1 DEF Advanced, TypeOK

LEMMA ProceedAdvances ==
  ASSUME TypeOK, CallsTyped, NEW p \in Procs, NEW place \in {"count", "read", "write"},
         Proceed(p, place)
  PROVE  Advanced(p)
  BY DEF Advanced, Proceed, GoTo, TypeOK, Places

\* A write that nobody will record leaves wire and history typed.
LEMMA AbandonType ==
  ASSUME TypeOK, CallsTyped, NEW p \in Procs, Abandon(p)
  PROVE  /\ late' \in [Requests -> Nat]
         /\ changed' \in [Dates -> Nat]
         /\ owed' \in [Dates -> SUBSET Procs]
         /\ lost' \in [Dates -> Nat]
<1>1. late' \in [Requests -> Nat]
  BY DEF Abandon, TypeOK, CallsTyped
<1>2. changed' \in [Dates -> Nat] /\ lost' \in [Dates -> Nat]
  BY DEF Abandon, TypeOK
<1>3. owed' \in [Dates -> SUBSET Procs]
  BY DEF Abandon, TypeOK
<1> QED
  BY <1>1, <1>2, <1>3

LEMMA ExitType ==
  ASSUME TypeOK, CallsTyped, NEW p \in Procs, Exit(p)
  PROVE  /\ pc' \in [Procs -> Places]
         /\ request' \in [Procs -> Requests \cup {NoRequest}]
         /\ since' \in [Procs -> Int]
         /\ outcome' \in [Procs -> Outcomes \cup {"none"}]
         /\ stamp' \in [Procs -> Times]
         /\ CallsTyped'
<1>1. 0 \in Times
  BY TimeAssumption DEF Times
<1> QED
  BY <1>1 DEF Exit, GoTo, TypeOK, CallsTyped, Places

\* A process that ends without a row leaves everything typed.
LEMMA ExitUnrecordedType ==
  ASSUME TypeOK, CallsTyped, NEW p \in Procs, ExitUnrecorded(p),
         UNCHANGED <<now, gateway, counted, begun>>
  PROVE  TypeOK' /\ CallsTyped'
<1>1. Exit(p) /\ Abandon(p) /\ UNCHANGED <<rows, lastId, now, mode, reserve, counted, begun>>
  BY DEF ExitUnrecorded, ledger, gateway
<1>2. /\ late' \in [Requests -> Nat]
      /\ changed' \in [Dates -> Nat]
      /\ owed' \in [Dates -> SUBSET Procs]
      /\ lost' \in [Dates -> Nat]
  BY <1>1, AbandonType
<1>3. /\ pc' \in [Procs -> Places]
      /\ request' \in [Procs -> Requests \cup {NoRequest}]
      /\ since' \in [Procs -> Int]
      /\ outcome' \in [Procs -> Outcomes \cup {"none"}]
      /\ stamp' \in [Procs -> Times]
      /\ CallsTyped'
  BY <1>1, ExitType
<1> QED
  BY <1>1, <1>2, <1>3 DEF TypeOK, LedgerTypeOK

LEMMA TypeInit == Init => TypeOK /\ CallsTyped
<1> SUFFICES ASSUME Init PROVE TypeOK /\ CallsTyped
  OBVIOUS
<1>1. 0 \in Times
  BY TimeAssumption DEF Times
<1>2. LedgerTypeOK
  BY FS_EmptySet DEF Init, LedgerInit, LedgerTypeOK
<1>3. 0 \in 0 .. MaxCalls
  BY PolicyAssumption
<1> QED
  BY <1>1, <1>2, <1>3 DEF Init, TypeOK, CallsTyped, Places

LEMMA BeginType ==
  ASSUME TypeOK, CallsTyped, NEW p \in Procs, Begin(p)
  PROVE  TypeOK' /\ CallsTyped'
<1>1. PICK r \in Requests :
        /\ request' = [request EXCEPT ![p] = r]
        /\ BeginSetMode(p, r) \/ BeginSetReserve(p, r)
  BY DEF Begin
<1>2. begun' \in 0 .. MaxCalls
  BY PolicyAssumption DEF Begin, TypeOK
<1>3. StartOfLocalDay(now) \in Int
  BY CalendarType DEF TypeOK
<1>4. since' \in [Procs -> Int]
  BY <1>1, <1>3 DEF BeginSetMode, BeginSetReserve, TypeOK
<1>5. \/ \E place \in {"count", "read"} : Proceed(p, place)
      \/ \E a \in Actions : Conclude(p, a, "rejected")
  BY <1>1 DEF BeginSetMode, BeginSetReserve, Actions
<1>6. Advanced(p)
  <2>1. "rejected" \in Outcomes
    BY DEF Outcomes
  <2> QED
    BY <1>5, <2>1, ConcludeAdvances, ProceedAdvances
<1>7. request' \in [Procs -> Requests \cup {NoRequest}]
  BY <1>1 DEF TypeOK
<1>8. CallsTyped'
  BY <1>1, <1>6 DEF CallsTyped, Advanced, TypeOK
<1> QED
  BY <1>2, <1>4, <1>6, <1>7, <1>8
     DEF Begin, Advanced, TypeOK, LedgerTypeOK, gateway, ledger, history

LEMMA CountType ==
  ASSUME TypeOK, CallsTyped, NEW p \in Procs, Count(p)
  PROVE  TypeOK' /\ CallsTyped'
<1>1. since' \in [Procs -> Int]
  BY DEF Count, TypeOK
<1>2. Advanced(p)
  <2>1. "error" \in Outcomes /\ "rejected" \in Outcomes /\ "set_mode" \in Actions
    BY DEF Outcomes, Actions
  <2> QED
    BY <2>1, ConcludeAdvances, ProceedAdvances DEF Count
<1>3. CallsTyped'
  BY <1>2 DEF CallsTyped, Advanced, TypeOK, Count
<1> QED
  BY <1>1, <1>2, <1>3 DEF Count, Advanced, TypeOK, LedgerTypeOK, gateway, ledger, history

LEMMA ReadType ==
  ASSUME TypeOK, CallsTyped, NEW p \in Procs, Read(p)
  PROVE  TypeOK' /\ CallsTyped'
<1>1. request[p] \in Requests /\ request[p].action \in Actions
  BY RequestActions DEF Read, CallsTyped
<1>2. Advanced(p)
  <2>1. "error" \in Outcomes /\ OutcomeOf(FALSE) \in Outcomes
    BY DEF OutcomeOf, Outcomes
  <2> QED
    BY <1>1, <2>1, ConcludeAdvances, ProceedAdvances DEF Read
<1>3. CallsTyped'
  BY <1>1, <1>2 DEF CallsTyped, Advanced, TypeOK, Read
<1> QED
  BY <1>2, <1>3 DEF Read, Advanced, TypeOK, LedgerTypeOK, gateway, ledger, history

\* What an executed write leaves in the gateway.
LEMMA ApplyType ==
  ASSUME TypeOK, NEW r \in Requests, Apply(r)
  PROVE  mode' \in Modes /\ reserve' \in 0 .. 100
  BY PolicyAssumption DEF Apply, RoundedPercent, TypeOK, ModeRequests, ReserveRequests

LEMMA ExecuteType ==
  ASSUME TypeOK, CallsTyped, NEW p \in Procs, Execute(p)
  PROVE  TypeOK' /\ CallsTyped'
<1>1. /\ request[p] \in Requests /\ Apply(request[p])
      /\ UNCHANGED <<now, rows, lastId, counted, begun, request, since, outcome, stamp,
                     late, lost>>
      /\ pc' = [pc EXCEPT ![p] = "answer"]
  BY DEF Execute, CallsTyped, GoTo, ledger
<1>2. mode' \in Modes /\ reserve' \in 0 .. 100
  BY <1>1, ApplyType
<1>3. LocalDate(now) \in Dates
  BY CalendarType DEF TypeOK
<1>4. changed' \in [Dates -> Nat] /\ owed' \in [Dates -> SUBSET Procs]
  <2>1. CASE request[p].action = "set_mode"
    BY <1>3, <2>1 DEF Execute, TypeOK
  <2>2. CASE request[p].action # "set_mode"
    BY <2>2 DEF Execute, TypeOK
  <2> QED
    BY <2>1, <2>2
<1>5. pc' \in [Procs -> Places] /\ CallsTyped'
  BY <1>1 DEF TypeOK, CallsTyped, Places
<1> QED
  BY <1>1, <1>2, <1>4, <1>5 DEF TypeOK, LedgerTypeOK

LEMMA ExecuteLateType ==
  ASSUME TypeOK, CallsTyped, NEW r \in Requests, ExecuteLate(r)
  PROVE  TypeOK' /\ CallsTyped'
<1>1. /\ Apply(r)
      /\ UNCHANGED <<now, rows, lastId, counted, begun, pc, request, since, outcome, stamp,
                     owed>>
  BY DEF ExecuteLate, process, ledger
<1>2. mode' \in Modes /\ reserve' \in 0 .. 100
  BY <1>1, ApplyType
<1>3. LocalDate(now) \in Dates
  BY CalendarType DEF TypeOK
<1>4. changed' \in [Dates -> Nat] /\ lost' \in [Dates -> Nat]
  <2>1. CASE r.action = "set_mode"
    BY <1>3, <2>1 DEF ExecuteLate, TypeOK
  <2>2. CASE r.action # "set_mode"
    BY <2>2 DEF ExecuteLate, TypeOK
  <2> QED
    BY <2>1, <2>2
<1>5. late' \in [Requests -> Nat]
  <2>1. late \in [Requests -> Nat] /\ late[r] > 0 /\ late' = [late EXCEPT ![r] = @ - 1]
    BY DEF ExecuteLate, TypeOK
  <2>2. late[r] - 1 \in Nat
    BY <2>1
  <2> QED
    BY <2>1, <2>2
<1>6. CallsTyped'
  BY <1>1 DEF CallsTyped
<1> QED
  BY <1>1, <1>2, <1>4, <1>5, <1>6 DEF TypeOK, LedgerTypeOK

LEMMA AnswerType ==
  ASSUME TypeOK, CallsTyped, NEW p \in Procs, Answer(p)
  PROVE  TypeOK' /\ CallsTyped'
<1>1. /\ request[p] \in Requests /\ request[p].action \in Actions
      /\ UNCHANGED <<now, mode, reserve, rows, lastId, begun, request, since>>
  BY RequestActions DEF Answer, CallsTyped, gateway, ledger
<1>2. Advanced(p)
  <2>1. "error" \in Outcomes /\ OutcomeOf(TRUE) \in Outcomes
    BY DEF OutcomeOf, Outcomes
  <2> QED
    BY <1>1, <2>1, ConcludeAdvances DEF Answer
<1>3. /\ late' \in [Requests -> Nat]
      /\ changed' \in [Dates -> Nat]
      /\ owed' \in [Dates -> SUBSET Procs]
      /\ lost' \in [Dates -> Nat]
  <2>1. CASE UNCHANGED <<late, history>>
    BY <2>1 DEF history, TypeOK
  <2>2. CASE Abandon(p)
    BY <2>2, AbandonType
  <2> QED
    BY <2>1, <2>2 DEF Answer
<1>4. CallsTyped'
  BY <1>1, <1>2 DEF CallsTyped, Advanced, TypeOK
<1> QED
  BY <1>1, <1>2, <1>3, <1>4 DEF Advanced, TypeOK, LedgerTypeOK

LEMMA AuditType ==
  ASSUME TypeOK, CallsTyped, NEW p \in Procs, Audit(p)
  PROVE  TypeOK' /\ CallsTyped'
<1>1. CASE ExitUnrecorded(p)
  BY <1>1, ExitUnrecordedType DEF Audit
<1>2. CASE /\ Record(stamp[p], request[p].action, outcome[p])
           /\ Exit(p)
           /\ owed' = [d \in Dates |-> owed[d] \ {p}]
           /\ UNCHANGED <<late, changed, lost>>
  <2>1. request[p].action \in Actions /\ outcome[p] \in Outcomes /\ stamp[p] \in Nat
    BY RequestActions, TimeAssumption DEF Audit, CallsTyped, TypeOK, Times
  <2>2. LedgerTypeOK'
    <3> DEFINE row == [id |-> lastId + 1, ts |-> stamp[p], action |-> request[p].action,
                       outcome |-> outcome[p]]
    <3>1. row \in Row
      BY <2>1 DEF Row, TypeOK, LedgerTypeOK
    <3>2. rows' = rows \cup {row} /\ lastId' = lastId + 1
      BY <1>2 DEF Record
    <3> HIDE DEF row
    <3>3. IsFiniteSet(rows')
      BY <3>2, FS_AddElement DEF TypeOK, LedgerTypeOK
    <3> QED
      BY <3>1, <3>2, <3>3 DEF TypeOK, LedgerTypeOK
  <2>3. /\ pc' \in [Procs -> Places]
        /\ request' \in [Procs -> Requests \cup {NoRequest}]
        /\ since' \in [Procs -> Int]
        /\ outcome' \in [Procs -> Outcomes \cup {"none"}]
        /\ stamp' \in [Procs -> Times]
        /\ CallsTyped'
    BY <1>2, ExitType
  <2>4. owed' \in [Dates -> SUBSET Procs]
    BY <1>2 DEF TypeOK
  <2> QED
    BY <1>2, <2>2, <2>3, <2>4 DEF Audit, TypeOK, gateway
<1> QED
  BY <1>1, <1>2 DEF Audit

LEMMA TypeNext == TypeOK /\ CallsTyped /\ [Next]_vars => TypeOK' /\ CallsTyped'
<1> SUFFICES ASSUME TypeOK, CallsTyped, [Next]_vars
             PROVE  TypeOK' /\ CallsTyped'
  OBVIOUS
<1>1. ASSUME NEW p \in Procs, Begin(p) PROVE TypeOK' /\ CallsTyped'
  BY <1>1, BeginType
<1>2. ASSUME NEW p \in Procs, Count(p) PROVE TypeOK' /\ CallsTyped'
  BY <1>2, CountType
<1>3. ASSUME NEW p \in Procs, Read(p) PROVE TypeOK' /\ CallsTyped'
  BY <1>3, ReadType
<1>4. ASSUME NEW p \in Procs, Execute(p) PROVE TypeOK' /\ CallsTyped'
  BY <1>4, ExecuteType
<1>5. ASSUME NEW p \in Procs, Answer(p) PROVE TypeOK' /\ CallsTyped'
  BY <1>5, AnswerType
<1>6. ASSUME NEW p \in Procs, Audit(p) PROVE TypeOK' /\ CallsTyped'
  BY <1>6, AuditType
<1>7. ASSUME NEW p \in Procs, Kill(p) PROVE TypeOK' /\ CallsTyped'
  BY <1>7, ExitUnrecordedType DEF Kill
<1>8. ASSUME NEW r \in Requests, ExecuteLate(r) PROVE TypeOK' /\ CallsTyped'
  BY <1>8, ExecuteLateType
<1>9. CASE Tick
  <2>1. now' \in Times
    BY <1>9, TimeAssumption DEF Tick, TypeOK, Times
  <2> QED
    BY <1>9, <2>1
       DEF Tick, TypeOK, CallsTyped, LedgerTypeOK, gateway, ledger, process, history
<1>10. CASE AppChange
  BY <1>10, PolicyAssumption
     DEF AppChange, TypeOK, CallsTyped, LedgerTypeOK, ledger, process, history
<1>11. CASE UNCHANGED vars
  BY <1>11 DEF vars, gateway, ledger, process, history, TypeOK, CallsTyped, LedgerTypeOK
<1> QED
  BY <1>1, <1>2, <1>3, <1>4, <1>5, <1>6, <1>7, <1>8, <1>9, <1>10, <1>11 DEF Next

\* TypeOK holds in every state, for every set of processes and every budget.
THEOREM TypeCorrect == Spec => []TypeOK
<1>1. Init => TypeOK /\ CallsTyped
  BY TypeInit
<1>2. TypeOK /\ CallsTyped /\ [Next]_vars => (TypeOK /\ CallsTyped)'
  BY TypeNext
<1> QED
  BY <1>1, <1>2, PTL DEF Spec

-----------------------------------------------------------------------------
(* The daily bulkhead.  What one step does to the calls that may still spend *)
(* budget, to today's rows and to what is owed to them.                      *)

\* The sets that are counted are finite.
CountsFinite ==
  /\ IsFiniteSet(Spenders) /\ Cardinality(Spenders) \in Nat
  /\ Cardinality(Spenders) <= Cardinality(Procs)
  /\ Cardinality(Procs) \in Nat
  /\ \A d : IsFiniteSet(ByDate(d)) /\ Cardinality(ByDate(d)) \in Nat
  /\ \A d \in Dates : IsFiniteSet(owed[d]) /\ Cardinality(owed[d]) \in Nat
  /\ Today \in Dates /\ Today \in Int

LEMMA Counted == TypeOK => CountsFinite
<1> SUFFICES ASSUME TypeOK PROVE CountsFinite
  OBVIOUS
<1>1. IsFiniteSet(Procs) /\ Cardinality(Procs) \in Nat
  BY PolicyAssumption, FS_CardinalityType
<1>2. Spenders \subseteq Procs
  BY DEF Spenders
<1>3. /\ IsFiniteSet(Spenders) /\ Cardinality(Spenders) \in Nat
      /\ Cardinality(Spenders) <= Cardinality(Procs)
  BY <1>1, <1>2, FS_Subset, FS_CardinalityType
<1>4. ASSUME NEW d PROVE IsFiniteSet(ByDate(d)) /\ Cardinality(ByDate(d)) \in Nat
  <2>1. ByDate(d) \subseteq rows /\ IsFiniteSet(rows)
    BY DEF ByDate, SuccessRows, TypeOK, LedgerTypeOK
  <2> QED
    BY <2>1, FS_Subset, FS_CardinalityType
<1>5. ASSUME NEW d \in Dates PROVE IsFiniteSet(owed[d]) /\ Cardinality(owed[d]) \in Nat
  <2>1. owed[d] \subseteq Procs
    BY DEF TypeOK
  <2> QED
    BY <1>1, <2>1, FS_Subset, FS_CardinalityType
<1>6. Today \in Dates /\ Today \in Int
  BY CalendarType DEF Today, TypeOK
<1> QED
  BY <1>1, <1>3, <1>4, <1>5, <1>6 DEF CountsFinite

LEMMA CountedNext == TypeOK' => CountsFinite'
  BY Counted, PTL

\* The bound is kept where it is not today's, and today's follows from the rest.
LEMMA BoundStep ==
  ASSUME TypeOK, TypeOK', BulkheadBound,
         OwedBySpenders', BudgetShared', TodaySettled',
         \A d \in Dates : d # Today' => changed'[d] = changed[d] /\ lost'[d] >= lost[d]
  PROVE  BulkheadBound'
<1> SUFFICES ASSUME NEW d \in Dates
             PROVE  changed'[d] <= MaxModeChangesPerDay + (Cardinality(Procs) - 1) + lost'[d]
  BY DEF BulkheadBound
<1>1. /\ Cardinality(Procs) \in Nat /\ MaxModeChangesPerDay \in Nat
      /\ changed[d] \in Nat /\ lost[d] \in Nat /\ changed'[d] \in Nat /\ lost'[d] \in Nat
  BY Counted, PolicyAssumption DEF CountsFinite, TypeOK
<1>2. CASE d # Today'
  BY <1>1, <1>2 DEF BulkheadBound
<1>3. CASE d = Today'
  <2>1. /\ IsFiniteSet(Spenders') /\ Cardinality(Spenders') \in Nat
        /\ Cardinality(ByDate(Today)') \in Nat
        /\ Cardinality(owed'[d]) \in Nat
    BY <1>3, CountedNext DEF CountsFinite
  <2>2. owed'[d] \subseteq Spenders'
    BY <1>3 DEF OwedBySpenders
  <2>3. Cardinality(owed'[d]) <= Cardinality(Spenders')
    BY <2>1, <2>2, FS_Subset
  <2>4. changed'[d] <= Cardinality(ByDate(Today)') + Cardinality(owed'[d]) + lost'[d]
    BY <1>3 DEF TodaySettled
  <2>5. Cardinality(ByDate(Today)') + Cardinality(Spenders')
          <= MaxModeChangesPerDay + (Cardinality(Procs) - 1)
    BY DEF BudgetShared
  <2> QED
    BY <1>1, <2>1, <2>3, <2>4, <2>5
<1> QED
  BY <1>2, <1>3

\* A step that leaves clock, ledger and history alone has only to keep the shared
\* budget and to leave what is owed with those who owe it.
LEMMA HistoryStep ==
  ASSUME TypeOK, TypeOK', BulkheadInvariant, CallsOK', OwedBySpenders', BudgetShared',
         UNCHANGED <<now, ledger, history>>
  PROVE  BulkheadInvariant'
<1>1. UNCHANGED <<now, rows, lastId, changed, owed, lost>>
  BY DEF ledger, history
<1>2. Today' = Today /\ ByDate(Today)' = ByDate(Today)
  BY <1>1 DEF Today, ByDate, SuccessRows
<1>3. RowsPast'
  BY <1>1 DEF BulkheadInvariant, RowsPast
<1>4. NothingAhead'
  BY <1>1, <1>2 DEF BulkheadInvariant, NothingAhead
<1>5. TodaySettled'
  BY <1>1, <1>2 DEF BulkheadInvariant, TodaySettled
<1>6. BulkheadBound'
  BY <1>1 DEF BulkheadInvariant, BulkheadBound
<1> QED
  BY <1>3, <1>4, <1>5, <1>6 DEF BulkheadInvariant

\* A step of one process that leaves nothing new owed, and nothing to be owed by it.
LEMMA OwedByOthers ==
  ASSUME TypeOK, BulkheadInvariant, UNCHANGED now,
         NEW p \in Procs, \A d \in Dates : owed'[d] \subseteq owed[d] \ {p},
         \A q \in Procs \ {p} : /\ pc'[q] = pc[q] /\ request'[q] = request[q]
                                /\ outcome'[q] = outcome[q] /\ stamp'[q] = stamp[q]
  PROVE  OwedBySpenders'
<1> SUFFICES ASSUME NEW d \in Dates, NEW q \in owed'[d]
             PROVE  /\ q \in Spenders'
                    /\ d <= Today'
                    /\ \/ pc'[q] = "answer"
                       \/ /\ pc'[q] = "record" /\ outcome'[q] = "success"
                          /\ d <= LocalDate(stamp'[q])
  BY DEF OwedBySpenders
<1>1. q \in owed[d] /\ q \in Procs \ {p}
  BY DEF TypeOK
<1>2. /\ q \in Spenders
      /\ d <= Today
      /\ \/ pc[q] = "answer"
         \/ pc[q] = "record" /\ outcome[q] = "success" /\ d <= LocalDate(stamp[q])
  BY <1>1 DEF BulkheadInvariant, OwedBySpenders
<1>3. Today' = Today
  BY DEF Today
<1>4. q \in Spenders'
  BY <1>1, <1>2 DEF Spenders
<1> QED
  BY <1>1, <1>2, <1>3, <1>4

\* Only a mode write that was executed is owed.
LEMMA NotOwed ==
  ASSUME BulkheadInvariant, NEW p,
         pc[p] \notin {"answer", "record"} \/ request[p].action # "set_mode"
  PROVE  \A d \in Dates : p \notin owed[d]
  BY DEF BulkheadInvariant, OwedBySpenders, Spenders

\* A step that leaves clock, ledger and history alone, and moves one process that
\* owes nothing: it has only to keep the shared budget.
LEMMA QuietStep ==
  ASSUME TypeOK, TypeOK', BulkheadInvariant, CallsOK', BudgetShared',
         UNCHANGED <<now, ledger, history>>,
         NEW p \in Procs, \A d \in Dates : p \notin owed[d],
         \A q \in Procs \ {p} : /\ pc'[q] = pc[q] /\ request'[q] = request[q]
                                /\ outcome'[q] = outcome[q] /\ stamp'[q] = stamp[q]
  PROVE  BulkheadInvariant'
<1>1. \A d \in Dates : owed'[d] \subseteq owed[d] \ {p}
  BY DEF history
<1>2. OwedBySpenders'
  BY <1>1, OwedByOthers
<1> QED
  BY <1>2, HistoryStep

\* The shared budget is kept where nothing is added to either of its parts.
LEMMA BudgetKept ==
  ASSUME TypeOK, TypeOK', BudgetShared,
         ByDate(Today)' = ByDate(Today), Spenders' \subseteq Spenders
  PROVE  BudgetShared'
<1>1. Cardinality(Spenders') <= Cardinality(Spenders)
  BY Counted, FS_Subset DEF CountsFinite
<1>2. Cardinality(Spenders) \in Nat /\ Cardinality(Spenders') \in Nat
      /\ Cardinality(ByDate(Today)) \in Nat /\ Cardinality(Procs) \in Nat
      /\ MaxModeChangesPerDay \in Nat
  BY Counted, CountedNext, PolicyAssumption DEF CountsFinite
<1> QED
  BY <1>1, <1>2 DEF BudgetShared

LEMMA BeginKeeps ==
  ASSUME TypeOK, TypeOK', BulkheadInvariant, NEW p \in Procs, Begin(p)
  PROVE  BulkheadInvariant'
<1>1. PICK r \in Requests :
        /\ request' = [request EXCEPT ![p] = r]
        /\ BeginSetMode(p, r) \/ BeginSetReserve(p, r)
  BY DEF Begin
<1>2. UNCHANGED <<now, ledger, history>> /\ pc[p] = "idle"
  BY DEF Begin
<1>3. \/ /\ pc' = [pc EXCEPT ![p] = "count"] /\ outcome' = outcome /\ stamp' = stamp
         /\ r.action = "set_mode"
         /\ since' = [since EXCEPT ![p] = StartOfLocalDay(now)]
      \/ /\ pc' = [pc EXCEPT ![p] = "read"] /\ outcome' = outcome /\ stamp' = stamp
         /\ r.action = "set_reserve" /\ since' = since
      \/ /\ pc' = [pc EXCEPT ![p] = "record"]
         /\ outcome' = [outcome EXCEPT ![p] = "rejected"]
         /\ stamp' = [stamp EXCEPT ![p] = now]
         /\ \A q \in Procs \ {p} : since'[q] = since[q]
  BY <1>1 DEF BeginSetMode, BeginSetReserve, Proceed, Conclude, GoTo, TypeOK
<1>4. /\ pc \in [Procs -> Places]
      /\ since \in [Procs -> Int]
      /\ request \in [Procs -> Requests \cup {NoRequest}]
      /\ outcome \in [Procs -> Outcomes \cup {"none"}]
      /\ stamp \in [Procs -> Times]
      /\ now \in 0 .. now /\ now' = now /\ now <= now
  BY <1>2, TimeAssumption DEF TypeOK, Times
<1>5. \A q \in Procs : stamp[q] <= now
  BY DEF BulkheadInvariant, CallsOK
<1>6. CallsOK'
  <2> SUFFICES ASSUME NEW q \in Procs
               PROVE  /\ pc'[q] # "idle" => request'[q] \in Requests
                      /\ pc'[q] = "count" =>
                           /\ request'[q].action = "set_mode"
                           /\ \E t \in 0 .. now' : since'[q] = StartOfLocalDay(t)
                      /\ pc'[q] = "record" => outcome'[q] \in Outcomes
                      /\ stamp'[q] <= now'
    BY DEF CallsOK
  <2>1. CASE q = p
    BY <1>1, <1>3, <1>4, <1>5, <2>1 DEF Outcomes
  <2>2. CASE q # p
    BY <1>1, <1>3, <1>4, <1>5, <2>2 DEF BulkheadInvariant, CallsOK
  <2> QED
    BY <2>1, <2>2
<1>7. \A q \in Procs \ {p} : /\ pc'[q] = pc[q] /\ request'[q] = request[q]
                             /\ outcome'[q] = outcome[q] /\ stamp'[q] = stamp[q]
  BY <1>1, <1>3, <1>4
<1>8. Spenders' \subseteq Spenders
  BY <1>1, <1>3, <1>4, <1>7 DEF Spenders
<1>9. ByDate(Today)' = ByDate(Today)
  BY <1>2 DEF Today, ByDate, SuccessRows, ledger
<1>10. BudgetShared'
  BY <1>8, <1>9, BudgetKept DEF BulkheadInvariant
<1>11. \A d \in Dates : p \notin owed[d]
  BY <1>2, NotOwed
<1> QED
  BY <1>2, <1>6, <1>7, <1>10, <1>11, QuietStep

\* The query sees all of today's successes, if the window covers the day: it opens
\* at the start of a day that is today, or earlier.
LEMMA QuerySeesToday ==
  ASSUME WindowCoversDay, TypeOK, BulkheadInvariant, NEW p \in Procs, pc[p] = "count"
  PROVE  ByDate(Today) \subseteq Matching("set_mode", "success", since[p])
<1>1. PICK t \in 0 .. now : since[p] = StartOfLocalDay(t)
  BY DEF BulkheadInvariant, CallsOK
<1>2. t \in Times /\ now \in Times /\ t <= now
  BY TimeAssumption DEF TypeOK, Times
<1> SUFFICES ASSUME NEW r \in ByDate(Today)
             PROVE  r \in Matching("set_mode", "success", since[p])
  OBVIOUS
<1>3. /\ r \in rows /\ r.action = "set_mode" /\ r.outcome = "success"
      /\ LocalDate(r.ts) = LocalDate(now)
  BY DEF ByDate, SuccessRows, Today
<1>4. r.ts \in Times
  <2>1. r.ts \in Nat /\ r.ts <= now
    BY <1>3 DEF TypeOK, LedgerTypeOK, Row, BulkheadInvariant, RowsPast
  <2> QED
    BY <1>2, <2>1, TimeAssumption DEF Times
<1>5. LocalDate(t) <= LocalDate(r.ts)
  BY <1>2, <1>3, DatesAdvance
<1>6. StartOfLocalDay(t) <= r.ts
  BY <1>2, <1>4, <1>5 DEF WindowCoversDay
<1>7. StartOfLocalDay(t) \in Int /\ r.ts \in Int
  BY <1>2, <1>4, CalendarType
<1> QED
  BY <1>1, <1>3, <1>6, <1>7 DEF Matching

LEMMA CountKeeps ==
  ASSUME WindowCoversDay, TypeOK, TypeOK', BulkheadInvariant, NEW p \in Procs, Count(p)
  PROVE  BulkheadInvariant'
<1>1. /\ pc[p] = "count" /\ UNCHANGED <<now, ledger, history>> /\ request' = request
      /\ request[p] \in Requests /\ request[p].action = "set_mode"
      /\ since' = [since EXCEPT ![p] = 0]
  BY DEF Count, BulkheadInvariant, CallsOK
<1>2. \/ /\ pc' = [pc EXCEPT ![p] = "read"] /\ outcome' = outcome /\ stamp' = stamp
         /\ BudgetLeft(p)
      \/ /\ pc' = [pc EXCEPT ![p] = "record"]
         /\ \E o \in {"error", "rejected"} : outcome' = [outcome EXCEPT ![p] = o]
         /\ stamp' = [stamp EXCEPT ![p] = now]
  BY DEF Count, Proceed, Conclude, GoTo
<1>3. \A q \in Procs \ {p} :
        /\ pc'[q] = pc[q] /\ request'[q] = request[q] /\ outcome'[q] = outcome[q]
        /\ since'[q] = since[q] /\ stamp'[q] = stamp[q]
  BY <1>1, <1>2 DEF TypeOK
<1>4. CallsOK'
  <2>1. now \in Int /\ now' = now /\ \A q \in Procs : stamp[q] <= now
    BY <1>1, TimeAssumption DEF BulkheadInvariant, CallsOK, TypeOK, Times
  <2>2. stamp'[p] = now \/ stamp'[p] = stamp[p]
    BY <1>2 DEF TypeOK
  <2>3. \A q \in Procs : stamp'[q] <= now'
    BY <1>3, <2>1, <2>2
  <2> QED
    BY <1>1, <1>2, <1>3, <2>3 DEF BulkheadInvariant, CallsOK, TypeOK, Outcomes
<1>5. ByDate(Today)' = ByDate(Today)
  BY <1>1 DEF Today, ByDate, SuccessRows, ledger
<1>6. BudgetShared'
  <2>1. CASE BudgetLeft(p)
    <3>1. Cardinality(ByDate(Today))
            <= Cardinality(Matching("set_mode", "success", since[p]))
          /\ Cardinality(Matching("set_mode", "success", since[p])) \in Nat
      <4>1. IsFiniteSet(Matching("set_mode", "success", since[p]))
        BY FS_Subset DEF Matching, TypeOK, LedgerTypeOK
      <4> QED
        BY <1>1, <4>1, QuerySeesToday, FS_Subset, FS_CardinalityType
    <3>2. Cardinality(Matching("set_mode", "success", since[p])) < MaxModeChangesPerDay
      BY <2>1 DEF BudgetLeft, CountSince
    <3>3. /\ Cardinality(Spenders') <= Cardinality(Procs)
          /\ Cardinality(Spenders') \in Nat /\ Cardinality(Procs) \in Nat
          /\ Cardinality(ByDate(Today)) \in Nat /\ MaxModeChangesPerDay \in Nat
      BY Counted, CountedNext, PolicyAssumption DEF CountsFinite
    <3> QED
      BY <1>5, <3>1, <3>2, <3>3 DEF BudgetShared
  <2>2. CASE ~ BudgetLeft(p)
    <3>1. Spenders' \subseteq Spenders
      BY <1>1, <1>2, <1>3, <2>2 DEF Spenders, TypeOK
    <3> QED
      BY <1>5, <3>1, BudgetKept DEF BulkheadInvariant
  <2> QED
    BY <2>1, <2>2
<1>7. \A d \in Dates : p \notin owed[d]
  BY <1>1, NotOwed
<1> QED
  BY <1>1, <1>3, <1>4, <1>6, <1>7, QuietStep

LEMMA ReadKeeps ==
  ASSUME TypeOK, TypeOK', BulkheadInvariant, NEW p \in Procs, Read(p)
  PROVE  BulkheadInvariant'
<1>1. /\ pc[p] = "read" /\ UNCHANGED <<now, ledger, history, request, since>>
      /\ request[p] \in Requests
  BY DEF Read, BulkheadInvariant, CallsOK
<1>2. \/ pc' = [pc EXCEPT ![p] = "write"] /\ outcome' = outcome /\ stamp' = stamp
      \/ /\ pc' = [pc EXCEPT ![p] = "record"]
         /\ \E o \in {"error", "noop"} : outcome' = [outcome EXCEPT ![p] = o]
         /\ stamp' = [stamp EXCEPT ![p] = now]
  BY DEF Read, Proceed, Conclude, GoTo, OutcomeOf
<1>3. \A q \in Procs \ {p} : /\ pc'[q] = pc[q] /\ request'[q] = request[q]
                             /\ outcome'[q] = outcome[q] /\ stamp'[q] = stamp[q]
  BY <1>1, <1>2 DEF TypeOK
<1>4. CallsOK'
  <2>1. now \in Int /\ now' = now /\ \A q \in Procs : stamp[q] <= now
    BY <1>1, TimeAssumption DEF BulkheadInvariant, CallsOK, TypeOK, Times
  <2>2. stamp'[p] = now \/ stamp'[p] = stamp[p]
    BY <1>2 DEF TypeOK
  <2>3. \A q \in Procs : stamp'[q] <= now'
    BY <1>3, <2>1, <2>2
  <2> QED
    BY <1>1, <1>2, <1>3, <2>3 DEF BulkheadInvariant, CallsOK, TypeOK, Outcomes
<1>5. ByDate(Today)' = ByDate(Today)
  BY <1>1 DEF Today, ByDate, SuccessRows, ledger
<1>6. Spenders' \subseteq Spenders
  BY <1>1, <1>2, <1>3 DEF Spenders, TypeOK
<1>7. BudgetShared'
  BY <1>5, <1>6, BudgetKept DEF BulkheadInvariant
<1>8. \A d \in Dates : p \notin owed[d]
  BY <1>1, NotOwed
<1> QED
  BY <1>1, <1>3, <1>4, <1>7, <1>8, QuietStep

\* The gateway executes the reserve write of a call, which no day's budget is about.
LEMMA ReserveWriteKeeps ==
  ASSUME TypeOK, TypeOK', BulkheadInvariant, NEW p \in Procs, Execute(p),
         request[p].action # "set_mode"
  PROVE  BulkheadInvariant'
<1>1. /\ pc[p] = "write" /\ pc' = [pc EXCEPT ![p] = "answer"]
      /\ UNCHANGED <<now, ledger, history, request, since, outcome, stamp>>
  BY DEF Execute, GoTo, history
<1>2. \A q \in Procs \ {p} : /\ pc'[q] = pc[q] /\ request'[q] = request[q]
                             /\ outcome'[q] = outcome[q] /\ stamp'[q] = stamp[q]
  BY <1>1 DEF TypeOK
<1>3. CallsOK'
  BY <1>1, <1>2 DEF BulkheadInvariant, CallsOK, TypeOK
<1>4. ByDate(Today)' = ByDate(Today)
  BY <1>1 DEF Today, ByDate, SuccessRows, ledger
<1>5. Spenders' \subseteq Spenders
  BY <1>1, <1>2 DEF Spenders, TypeOK
<1>6. BudgetShared'
  BY <1>4, <1>5, BudgetKept DEF BulkheadInvariant
<1>7. \A d \in Dates : p \notin owed[d]
  BY NotOwed
<1> QED
  BY <1>1, <1>2, <1>3, <1>6, <1>7, QuietStep

\* A mode write that the gateway executes is owed to the ledger from then on.
LEMMA ModeWriteKeeps ==
  ASSUME TypeOK, TypeOK', BulkheadInvariant, NEW p \in Procs, Execute(p),
         request[p].action = "set_mode"
  PROVE  BulkheadInvariant'
<1> DEFINE d == LocalDate(now)
<1>1. /\ pc[p] = "write" /\ pc' = [pc EXCEPT ![p] = "answer"]
      /\ UNCHANGED <<now, rows, lastId, request, since, outcome, stamp, lost>>
      /\ changed' = [changed EXCEPT ![d] = @ + 1]
      /\ owed' = [owed EXCEPT ![d] = @ \cup {p}]
  BY DEF Execute, GoTo, ledger
<1>2. /\ d = Today /\ d \in Dates /\ d \in Int /\ d <= d
      /\ IsFiniteSet(owed[d]) /\ Cardinality(owed[d]) \in Nat
      /\ Cardinality(ByDate(Today)) \in Nat
  BY Counted DEF CountsFinite, Today
<1> HIDE DEF d
<1>3. Today' = Today /\ ByDate(Today)' = ByDate(Today)
  BY <1>1 DEF Today, ByDate, SuccessRows
<1>4. \A q \in Procs \ {p} : /\ pc'[q] = pc[q] /\ request'[q] = request[q]
                             /\ outcome'[q] = outcome[q] /\ stamp'[q] = stamp[q]
  BY <1>1 DEF TypeOK
<1>5. pc'[p] = "answer" /\ request'[p].action = "set_mode"
  BY <1>1 DEF TypeOK
<1>6. CallsOK'
  BY <1>1, <1>4, <1>5 DEF BulkheadInvariant, CallsOK
<1>7. RowsPast'
  BY <1>1 DEF BulkheadInvariant, RowsPast
<1>8. Spenders' \subseteq Spenders /\ p \in Spenders'
  BY <1>1, <1>4, <1>5 DEF Spenders
<1>9. \A e \in Dates : p \notin owed[e]
  BY <1>1, NotOwed
<1>10. OwedBySpenders'
  <2> SUFFICES ASSUME NEW e \in Dates, NEW q \in owed'[e]
               PROVE  /\ q \in Spenders'
                      /\ e <= Today'
                      /\ \/ pc'[q] = "answer"
                         \/ /\ pc'[q] = "record" /\ outcome'[q] = "success"
                            /\ e <= LocalDate(stamp'[q])
    BY DEF OwedBySpenders
  <2>1. CASE q = p
    <3>1. e = d
      BY <1>1, <1>2, <1>9, <2>1 DEF TypeOK
    <3> QED
      BY <1>2, <1>3, <1>5, <1>8, <2>1, <3>1
  <2>2. CASE q # p
    <3>1. q \in owed[e] /\ q \in Procs
      BY <1>1, <1>2, <2>2 DEF TypeOK
    <3>2. /\ q \in Spenders /\ e <= Today
          /\ \/ pc[q] = "answer"
             \/ pc[q] = "record" /\ outcome[q] = "success" /\ e <= LocalDate(stamp[q])
      BY <3>1 DEF BulkheadInvariant, OwedBySpenders
    <3>3. q \in Spenders'
      BY <1>4, <2>2, <3>1, <3>2 DEF Spenders
    <3> QED
      BY <1>3, <1>4, <2>2, <3>1, <3>2, <3>3
  <2> QED
    BY <2>1, <2>2
<1>11. NothingAhead'
  BY <1>1, <1>2, <1>3 DEF BulkheadInvariant, NothingAhead, TypeOK
<1>12. BudgetShared'
  BY <1>3, <1>8, BudgetKept DEF BulkheadInvariant
<1>13. TodaySettled'
  <2>1. changed[d] <= Cardinality(ByDate(Today)) + Cardinality(owed[d]) + lost[d]
    BY <1>2 DEF BulkheadInvariant, TodaySettled
  <2>2. changed[d] \in Nat /\ lost[d] \in Nat
    BY <1>2 DEF TypeOK
  <2>3. /\ changed'[d] = changed[d] + 1 /\ lost'[d] = lost[d]
        /\ owed'[d] = owed[d] \cup {p}
    BY <1>1, <1>2 DEF TypeOK
  <2>4. Cardinality(owed[d] \cup {p}) = Cardinality(owed[d]) + 1
    BY <1>2, <1>9, FS_AddElement
  <2>5. changed'[d] <= Cardinality(ByDate(Today)) + Cardinality(owed'[d]) + lost'[d]
    BY <1>2, <2>1, <2>2, <2>3, <2>4
  <2> QED
    BY <1>2, <1>3, <2>5 DEF TodaySettled
<1>14. \A e \in Dates : e # Today' => changed'[e] = changed[e] /\ lost'[e] >= lost[e]
  BY <1>1, <1>2, <1>3 DEF TypeOK
<1>15. BulkheadBound'
  BY <1>10, <1>12, <1>13, <1>14, BoundStep DEF BulkheadInvariant
<1> QED
  BY <1>6, <1>7, <1>10, <1>11, <1>12, <1>13, <1>15 DEF BulkheadInvariant

\* A write that is executed after it was given up is lost at once.
LEMMA ExecuteLateKeeps ==
  ASSUME TypeOK, TypeOK', BulkheadInvariant, NEW r \in Requests, ExecuteLate(r)
  PROVE  BulkheadInvariant'
<1> DEFINE d == LocalDate(now)
<1>1. UNCHANGED <<now, rows, lastId, pc, request, since, outcome, stamp, owed>>
  BY DEF ExecuteLate, process, ledger
<1>2. /\ Today' = Today /\ ByDate(Today)' = ByDate(Today) /\ Spenders' = Spenders
      /\ d = Today /\ d \in Dates /\ d \in Int /\ Cardinality(ByDate(d)) \in Nat
      /\ Cardinality(owed[d]) \in Nat
  BY <1>1, Counted DEF CountsFinite, Today, ByDate, SuccessRows, Spenders
<1>3. CallsOK' /\ RowsPast' /\ OwedBySpenders'
  BY <1>1, <1>2 DEF BulkheadInvariant, CallsOK, RowsPast, OwedBySpenders
<1>4. BudgetShared'
  BY <1>2, BudgetKept DEF BulkheadInvariant
<1>5. CASE r.action # "set_mode"
  <2>1. UNCHANGED <<now, ledger, history>>
    BY <1>1, <1>5 DEF ExecuteLate, ledger, history
  <2> QED
    BY <1>3, <1>4, <2>1, HistoryStep
<1>6. CASE r.action = "set_mode"
  <2>1. changed' = [changed EXCEPT ![d] = @ + 1] /\ lost' = [lost EXCEPT ![d] = @ + 1]
    BY <1>6 DEF ExecuteLate
  <2> HIDE DEF d
  <2>2. NothingAhead'
    BY <1>2, <2>1 DEF BulkheadInvariant, NothingAhead, TypeOK
  <2>3. TodaySettled'
    <3>1. changed[d] <= Cardinality(ByDate(d)) + Cardinality(owed[d]) + lost[d]
      BY <1>2 DEF BulkheadInvariant, TodaySettled
    <3>2. changed'[d] = changed[d] + 1 /\ lost'[d] = lost[d] + 1 /\ owed'[d] = owed[d]
      BY <1>1, <1>2, <2>1 DEF TypeOK
    <3>3. changed[d] \in Nat /\ lost[d] \in Nat
      BY <1>2 DEF TypeOK
    <3>4. changed'[d] <= Cardinality(ByDate(d)) + Cardinality(owed'[d]) + lost'[d]
      BY <1>2, <3>1, <3>2, <3>3
    <3> QED
      BY <1>2, <3>4 DEF TodaySettled
  <2>4. \A e \in Dates : e # Today' => changed'[e] = changed[e] /\ lost'[e] >= lost[e]
    BY <1>2, <2>1 DEF TypeOK
  <2>5. BulkheadBound'
    BY <1>3, <1>4, <2>3, <2>4, BoundStep DEF BulkheadInvariant
  <2> QED
    BY <1>3, <1>4, <2>2, <2>3, <2>5 DEF BulkheadInvariant
<1> QED
  BY <1>5, <1>6

\* What a process gives up was owed by it, and is lost.
LEMMA AbandonKeeps ==
  ASSUME TypeOK, TypeOK', BulkheadInvariant, NEW p \in Procs, Abandon(p),
         UNCHANGED <<now, ledger>>,
         CallsOK', OwedBySpenders', Spenders' \subseteq Spenders
  PROVE  BulkheadInvariant'
<1> DEFINE d == Today
<1>1. UNCHANGED <<now, rows, lastId, changed>>
  BY DEF Abandon, ledger
<1>2. \A e \in Dates : /\ owed'[e] = owed[e] \ {p}
                       /\ lost'[e] = IF p \in owed[e] THEN lost[e] + 1 ELSE lost[e]
  BY DEF Abandon
<1>3. Today' = d /\ ByDate(Today)' = ByDate(d)
  BY <1>1 DEF Today, ByDate, SuccessRows
<1>4. RowsPast' /\ NothingAhead'
  BY <1>1, <1>3 DEF BulkheadInvariant, RowsPast, NothingAhead
<1>5. BudgetShared'
  BY <1>3, BudgetKept DEF BulkheadInvariant
<1>6. TodaySettled'
  <2>1. /\ d \in Dates /\ IsFiniteSet(owed[d]) /\ Cardinality(owed[d]) \in Nat
        /\ Cardinality(ByDate(d)) \in Nat /\ lost[d] \in Nat /\ changed[d] \in Nat
        /\ changed[d] <= Cardinality(ByDate(d)) + Cardinality(owed[d]) + lost[d]
    BY Counted DEF CountsFinite, TypeOK, BulkheadInvariant, TodaySettled
  <2>2. changed'[d] = changed[d]
    BY <1>1
  <2> HIDE DEF d
  <2>3. CASE p \in owed[d]
    <3>1. Cardinality(owed'[d]) = Cardinality(owed[d]) - 1 /\ lost'[d] = lost[d] + 1
      BY <1>2, <2>1, <2>3, FS_RemoveElement
    <3> QED
      BY <1>3, <2>1, <2>2, <3>1 DEF TodaySettled
  <2>4. CASE p \notin owed[d]
    <3>1. owed'[d] = owed[d] /\ lost'[d] = lost[d]
      BY <1>2, <2>1, <2>4
    <3> QED
      BY <1>3, <2>1, <2>2, <3>1 DEF TodaySettled
  <2> QED
    BY <2>3, <2>4
<1>7. \A e \in Dates : e # Today' => changed'[e] = changed[e] /\ lost'[e] >= lost[e]
  <2>1. \A e \in Dates : lost[e] \in Nat
    BY DEF TypeOK
  <2>2. \A e \in Dates : lost'[e] >= lost[e]
    BY <1>2, <2>1
  <2> QED
    BY <1>1, <2>2
<1>8. BulkheadBound'
  BY <1>5, <1>6, <1>7, BoundStep DEF BulkheadInvariant
<1> QED
  BY <1>4, <1>5, <1>6, <1>8 DEF BulkheadInvariant

LEMMA AnswerKeeps ==
  ASSUME TypeOK, TypeOK', BulkheadInvariant, NEW p \in Procs, Answer(p)
  PROVE  BulkheadInvariant'
<1>1. /\ pc[p] \in {"write", "answer"} /\ UNCHANGED <<now, ledger, request, since>>
      /\ request[p] \in Requests
  BY DEF Answer, BulkheadInvariant, CallsOK
<1>2. /\ pc' = [pc EXCEPT ![p] = "record"]
      /\ stamp' = [stamp EXCEPT ![p] = now]
      /\ \E o \in {"success", "error"} : outcome' = [outcome EXCEPT ![p] = o]
  BY DEF Answer, Conclude, GoTo, OutcomeOf
<1>3. \A q \in Procs \ {p} : /\ pc'[q] = pc[q] /\ request'[q] = request[q]
                             /\ outcome'[q] = outcome[q] /\ stamp'[q] = stamp[q]
  BY <1>1, <1>2 DEF TypeOK
<1>4. CallsOK'
  <2>1. now \in Int /\ now' = now /\ \A q \in Procs : stamp[q] <= now
    BY <1>1, TimeAssumption DEF BulkheadInvariant, CallsOK, TypeOK, Times
  <2>2. stamp'[p] = now \/ stamp'[p] = stamp[p]
    BY <1>2 DEF TypeOK
  <2>3. \A q \in Procs : stamp'[q] <= now'
    BY <1>3, <2>1, <2>2
  <2> QED
    BY <1>1, <1>2, <1>3, <2>3 DEF BulkheadInvariant, CallsOK, TypeOK, Outcomes
<1>5. Spenders' \subseteq Spenders
  BY <1>1, <1>2, <1>3 DEF Spenders, TypeOK
<1>6. CASE /\ pc[p] = "answer" /\ Conclude(p, request[p].action, "success")
           /\ UNCHANGED <<late, history>>
  <2>1. /\ pc'[p] = "record" /\ outcome'[p] = "success" /\ stamp'[p] = now
        /\ UNCHANGED <<changed, owed, lost>>
    BY <1>6 DEF Conclude, GoTo, TypeOK, history
  <2>2. Today' = Today /\ LocalDate(now) = Today /\ ByDate(Today)' = ByDate(Today)
    BY <1>1 DEF Today, ByDate, SuccessRows, ledger
  <2>3. OwedBySpenders'
    <3> SUFFICES ASSUME NEW d \in Dates, NEW q \in owed'[d]
                 PROVE  /\ q \in Spenders'
                        /\ d <= Today'
                        /\ \/ pc'[q] = "answer"
                           \/ /\ pc'[q] = "record" /\ outcome'[q] = "success"
                              /\ d <= LocalDate(stamp'[q])
      BY DEF OwedBySpenders
    <3>1. /\ q \in Procs /\ q \in Spenders /\ d <= Today
          /\ \/ pc[q] = "answer"
             \/ pc[q] = "record" /\ outcome[q] = "success" /\ d <= LocalDate(stamp[q])
      BY <2>1 DEF BulkheadInvariant, OwedBySpenders, TypeOK
    <3>2. CASE q = p
      BY <1>1, <2>1, <2>2, <3>1, <3>2 DEF Spenders
    <3>3. CASE q # p
      <4>1. q \in Spenders'
        BY <1>3, <3>1, <3>3 DEF Spenders
      <4> QED
        BY <1>3, <2>2, <3>1, <3>3, <4>1
    <3> QED
      BY <3>2, <3>3
  <2>4. BudgetShared'
    BY <1>5, <2>2, BudgetKept DEF BulkheadInvariant
  <2> QED
    BY <1>1, <1>4, <1>6, <2>3, <2>4, HistoryStep
<1>7. CASE Abandon(p)
  <2>1. OwedBySpenders'
    BY <1>1, <1>3, <1>7, OwedByOthers DEF Abandon
  <2> QED
    BY <1>1, <1>4, <1>5, <1>7, <2>1, AbandonKeeps
<1> QED
  BY <1>6, <1>7 DEF Answer, OutcomeOf

\* What a process leaves behind when it ends, whether it recorded its outcome or not.
LEMMA ExitLeaves ==
  ASSUME TypeOK, BulkheadInvariant, NEW p \in Procs, Exit(p), UNCHANGED now,
         \A d \in Dates : owed'[d] = owed[d] \ {p}
  PROVE  /\ CallsOK'
         /\ OwedBySpenders'
         /\ Spenders' = Spenders \ {p}
<1>1. /\ pc' = [pc EXCEPT ![p] = "idle"]
      /\ request' = [request EXCEPT ![p] = NoRequest]
      /\ since' = [since EXCEPT ![p] = 0]
      /\ outcome' = [outcome EXCEPT ![p] = "none"]
      /\ stamp' = [stamp EXCEPT ![p] = 0]
  BY DEF Exit, GoTo
<1>2. \A q \in Procs \ {p} :
        /\ pc'[q] = pc[q] /\ request'[q] = request[q] /\ outcome'[q] = outcome[q]
        /\ since'[q] = since[q] /\ stamp'[q] = stamp[q]
  BY <1>1 DEF TypeOK
<1>3. pc'[p] = "idle" /\ stamp'[p] = 0 /\ now \in Nat
  BY <1>1, TimeAssumption DEF TypeOK, Times
<1>4. CallsOK'
  BY <1>2, <1>3 DEF BulkheadInvariant, CallsOK
<1>5. Spenders' = Spenders \ {p}
  BY <1>2, <1>3 DEF Spenders
<1>6. OwedBySpenders'
  BY <1>2, OwedByOthers
<1> QED
  BY <1>4, <1>5, <1>6

LEMMA ExitUnrecordedKeeps ==
  ASSUME TypeOK, TypeOK', BulkheadInvariant, NEW p \in Procs, ExitUnrecorded(p),
         UNCHANGED now
  PROVE  BulkheadInvariant'
<1>1. Exit(p) /\ Abandon(p) /\ UNCHANGED ledger
  BY DEF ExitUnrecorded
<1>2. \A d \in Dates : owed'[d] = owed[d] \ {p}
  BY <1>1 DEF Abandon
<1>3. CallsOK' /\ OwedBySpenders' /\ Spenders' \subseteq Spenders
  BY <1>1, <1>2, ExitLeaves
<1> QED
  BY <1>1, <1>3, AbandonKeeps

\* A row that is recorded turns a spender into a row, and what is owed into what
\* is settled.
LEMMA RecordKeeps ==
  ASSUME TypeOK, TypeOK', BulkheadInvariant, NEW p \in Procs, pc[p] = "record",
         Record(stamp[p], request[p].action, outcome[p]), Exit(p),
         owed' = [d \in Dates |-> owed[d] \ {p}],
         UNCHANGED <<now, changed, lost>>
  PROVE  BulkheadInvariant'
<1> DEFINE d == Today
           row == [id |-> lastId + 1, ts |-> stamp[p], action |-> request[p].action,
                   outcome |-> outcome[p]]
           spent == request[p].action = "set_mode" /\ outcome[p] = "success"
           dated == spent /\ LocalDate(stamp[p]) = d
<1>1. /\ rows' = rows \cup {row} /\ lastId' = lastId + 1 /\ lastId \in Nat
      /\ now \in Nat /\ stamp[p] \in Times /\ stamp[p] \in Nat /\ stamp[p] <= now
  BY TimeAssumption
     DEF Record, TypeOK, LedgerTypeOK, Times, BulkheadInvariant, CallsOK
<1>2. /\ CallsOK' /\ OwedBySpenders' /\ Spenders' = Spenders \ {p}
      /\ \A e \in Dates : owed'[e] = owed[e] \ {p}
  BY ExitLeaves
<1>3. Today' = d /\ d = LocalDate(now)
  BY DEF Today
<1>4. row \notin rows
  BY <1>1 DEF BulkheadInvariant, RowsPast
<1>5. RowsPast'
  <2> SUFFICES ASSUME NEW r \in rows' PROVE r.id <= lastId' /\ r.ts <= now'
    BY DEF RowsPast
  <2>1. CASE r \in rows
    <3>1. r.id \in Nat /\ r.id <= lastId /\ r.ts <= now
      BY <2>1 DEF BulkheadInvariant, RowsPast, TypeOK, LedgerTypeOK, Row
    <3> QED
      BY <1>1, <3>1
  <2>2. CASE r = row
    BY <1>1, <2>2
  <2> QED
    BY <1>1, <2>1, <2>2
<1>6. NothingAhead'
  BY <1>3 DEF BulkheadInvariant, NothingAhead
<1>7. /\ d \in Dates /\ IsFiniteSet(owed[d]) /\ Cardinality(owed[d]) \in Nat
      /\ IsFiniteSet(ByDate(d)) /\ Cardinality(ByDate(d)) \in Nat
      /\ IsFiniteSet(Spenders) /\ Cardinality(Spenders) \in Nat
      /\ Cardinality(Procs) \in Nat /\ MaxModeChangesPerDay \in Nat
      /\ lost[d] \in Nat /\ changed[d] \in Nat
      /\ changed[d] <= Cardinality(ByDate(d)) + Cardinality(owed[d]) + lost[d]
      /\ Cardinality(ByDate(d)) + Cardinality(Spenders)
           <= MaxModeChangesPerDay + (Cardinality(Procs) - 1)
  BY Counted, PolicyAssumption
     DEF CountsFinite, TypeOK, BulkheadInvariant, TodaySettled, BudgetShared
<1>8. p \in owed[d] => dated
  <2> SUFFICES ASSUME p \in owed[d] PROVE dated
    OBVIOUS
  <2>1. p \in Spenders /\ outcome[p] = "success" /\ d <= LocalDate(stamp[p])
    BY <1>7 DEF BulkheadInvariant, OwedBySpenders
  <2>2. LocalDate(stamp[p]) <= LocalDate(now)
    BY <1>1, DatesAdvance DEF TypeOK
  <2>3. LocalDate(stamp[p]) \in Int /\ LocalDate(now) \in Int
    BY <1>1, CalendarType DEF TypeOK
  <2> QED
    BY <1>3, <2>1, <2>2, <2>3 DEF Spenders
<1>9. ByDate(Today)' = IF dated THEN ByDate(d) \cup {row} ELSE ByDate(d)
  BY <1>1, <1>3 DEF ByDate, SuccessRows
<1>10. row \notin ByDate(d)
  BY <1>4 DEF ByDate, SuccessRows
<1>11. spent => p \in Spenders
  BY DEF Spenders
<1> HIDE DEF d, row
<1>12. /\ dated => Cardinality(ByDate(Today)') = Cardinality(ByDate(d)) + 1
       /\ ~ dated => Cardinality(ByDate(Today)') = Cardinality(ByDate(d))
  <2>1. Cardinality(ByDate(d) \cup {row}) = Cardinality(ByDate(d)) + 1
    BY <1>7, <1>10, FS_AddElement
  <2> HIDE DEF dated
  <2> QED
    BY <1>9, <2>1
<1>13. /\ spent => Cardinality(Spenders') = Cardinality(Spenders) - 1
       /\ Cardinality(Spenders') <= Cardinality(Spenders)
  <2>1. spent => Cardinality(Spenders') = Cardinality(Spenders) - 1
    BY <1>2, <1>7, <1>11, FS_RemoveElement
  <2>2. Cardinality(Spenders') <= Cardinality(Spenders)
    BY <1>2, <1>7, FS_Subset
  <2> QED
    BY <2>1, <2>2
<1>14. dated => spent
  OBVIOUS
<1>15. /\ p \in owed[d] => Cardinality(owed'[d]) = Cardinality(owed[d]) - 1
       /\ p \notin owed[d] => owed'[d] = owed[d]
  <2>1. owed'[d] = owed[d] \ {p}
    BY <1>2, <1>7
  <2>2. CASE p \in owed[d]
    BY <1>7, <2>1, <2>2, FS_RemoveElement
  <2>3. CASE p \notin owed[d]
    BY <2>1, <2>3
  <2> QED
    BY <2>2, <2>3
<1>16. Cardinality(Spenders') \in Nat
  BY CountedNext DEF CountsFinite
<1> HIDE DEF spent, dated
<1>17. BudgetShared'
  <2>1. Cardinality(ByDate(Today)') + Cardinality(Spenders')
          <= MaxModeChangesPerDay + (Cardinality(Procs) - 1)
    BY <1>7, <1>12, <1>13, <1>14, <1>16
  <2> QED
    BY <2>1 DEF BudgetShared
<1>18. TodaySettled'
  <2>1. changed[d] <= Cardinality(ByDate(Today)') + Cardinality(owed'[d]) + lost[d]
    <3>1. CASE p \in owed[d]
      BY <1>7, <1>8, <1>12, <1>15, <3>1
    <3>2. CASE p \notin owed[d]
      <4>1. Cardinality(owed'[d]) = Cardinality(owed[d])
        BY <1>15, <3>2
      <4>2. Cardinality(ByDate(Today)') >= Cardinality(ByDate(d))
        BY <1>7, <1>12
      <4>3. Cardinality(ByDate(Today)') \in Nat
        BY <1>7, <1>12
      <4> QED
        BY <1>7, <4>1, <4>2, <4>3
    <3> QED
      BY <3>1, <3>2
  <2> QED
    BY <1>3, <2>1 DEF TodaySettled
<1>19. \A e \in Dates : e # Today' => changed'[e] = changed[e] /\ lost'[e] >= lost[e]
  BY DEF TypeOK
<1>20. BulkheadBound'
  BY <1>2, <1>17, <1>18, <1>19, BoundStep DEF BulkheadInvariant
<1> QED
  BY <1>2, <1>5, <1>6, <1>17, <1>18, <1>20 DEF BulkheadInvariant

\* A tick may bring a new day, on which nothing has been changed or recorded.
LEMMA TickKeeps ==
  ASSUME TypeOK, TypeOK', BulkheadInvariant, Tick
  PROVE  BulkheadInvariant'
<1>1. /\ now' = now + 1 /\ now \in Times /\ now' \in Times /\ now \in Nat
      /\ UNCHANGED <<rows, lastId, pc, request, since, outcome, stamp, changed, owed, lost>>
  BY TimeAssumption DEF Tick, TypeOK, Times, ledger, process, history
<1>2. CallsOK'
  <2>1. \A t \in 0 .. now : t \in 0 .. now'
    BY <1>1
  <2>2. \A q \in Procs : stamp[q] <= now'
    BY <1>1, TimeAssumption DEF BulkheadInvariant, CallsOK, TypeOK, Times
  <2> QED
    BY <1>1, <2>1, <2>2 DEF BulkheadInvariant, CallsOK
<1>3. RowsPast'
  BY <1>1 DEF BulkheadInvariant, RowsPast, TypeOK, LedgerTypeOK, Row
<1>4. Spenders' = Spenders
  BY <1>1 DEF Spenders
<1>5. /\ Today = LocalDate(now) /\ Today' = LocalDate(now')
      /\ Today \in Int /\ Today' \in Int /\ Today \in Dates /\ Today' \in Dates
  BY <1>1, CalendarType DEF Today
<1>6. Today <= Today'
  BY <1>1, <1>5, DatesAdvance
<1>7. OwedBySpenders'
  BY <1>1, <1>4, <1>5, <1>6, DatesInt DEF BulkheadInvariant, OwedBySpenders
<1>8. NothingAhead'
  BY <1>1, <1>5, <1>6, DatesInt DEF BulkheadInvariant, NothingAhead
<1>9. CASE Today' = Today
  <2>1. ByDate(Today)' = ByDate(Today)
    BY <1>1, <1>9 DEF ByDate, SuccessRows
  <2>2. BudgetShared'
    BY <1>4, <2>1 DEF BulkheadInvariant, BudgetShared
  <2>3. TodaySettled'
    BY <1>1, <1>9, <2>1 DEF BulkheadInvariant, TodaySettled
  <2>4. BulkheadBound'
    BY <1>1 DEF BulkheadInvariant, BulkheadBound
  <2> QED
    BY <1>2, <1>3, <1>7, <1>8, <2>2, <2>3, <2>4 DEF BulkheadInvariant
<1>10. CASE Today' # Today
  <2>1. ByDate(Today)' = {}
    <3> SUFFICES ASSUME NEW r \in rows, LocalDate(r.ts) = Today' PROVE FALSE
      BY <1>1 DEF ByDate, SuccessRows
    <3>1. r.ts \in Times /\ r.ts <= now
      BY <1>1, TimeAssumption
         DEF BulkheadInvariant, RowsPast, TypeOK, LedgerTypeOK, Row, Times
    <3>2. LocalDate(r.ts) <= Today
      BY <1>1, <1>5, <3>1, DatesAdvance
    <3> QED
      BY <1>5, <1>6, <1>10, <3>2
  <2>2. Cardinality(ByDate(Today)') = 0
    BY <2>1, FS_EmptySet
  <2>3. /\ Cardinality(Spenders) <= Cardinality(Procs) /\ Cardinality(Spenders) \in Nat
        /\ Cardinality(Procs) \in Nat /\ MaxModeChangesPerDay \in Nat \ {0}
        /\ Cardinality(owed[Today']) \in Nat /\ lost[Today'] \in Nat
    BY <1>5, Counted, PolicyAssumption DEF CountsFinite, TypeOK
  <2>4. BudgetShared'
    BY <1>4, <2>2, <2>3 DEF BudgetShared
  <2>5. changed'[Today'] = 0
    BY <1>1, <1>5, <1>6, <1>10 DEF BulkheadInvariant, NothingAhead
  <2>6. TodaySettled'
    BY <1>1, <2>2, <2>3, <2>5 DEF TodaySettled
  <2>7. BulkheadBound'
    BY <1>1 DEF BulkheadInvariant, BulkheadBound
  <2> QED
    BY <1>2, <1>3, <1>7, <1>8, <2>4, <2>6, <2>7 DEF BulkheadInvariant
<1> QED
  BY <1>9, <1>10

LEMMA BulkheadInit == Init => BulkheadInvariant
<1> SUFFICES ASSUME Init PROVE BulkheadInvariant
  OBVIOUS
<1>1. TypeOK
  BY TypeInit
<1>2. CallsOK /\ RowsPast /\ OwedBySpenders
  BY DEF Init, LedgerInit, CallsOK, RowsPast, OwedBySpenders
<1>3. NothingAhead
  BY DEF Init, NothingAhead
<1>4. /\ Cardinality(Spenders) <= Cardinality(Procs) /\ Cardinality(Spenders) \in Nat
      /\ Cardinality(Procs) \in Nat /\ MaxModeChangesPerDay \in Nat \ {0}
      /\ Today \in Dates
  BY <1>1, Counted, PolicyAssumption DEF CountsFinite
<1>5. ByDate(Today) = {}
  BY DEF Init, LedgerInit, ByDate, SuccessRows
<1>6. Cardinality(ByDate(Today)) = 0
  BY <1>5, FS_EmptySet
<1>7. BudgetShared
  BY <1>4, <1>6 DEF BudgetShared
<1>8. Procs # {} /\ Cardinality(Procs) >= 1
  <2>1. Cardinality(Procs) # 0
    BY PolicyAssumption, FS_EmptySet
  <2> QED
    BY <1>4, <2>1, PolicyAssumption
<1>9. TodaySettled
  BY <1>4, <1>6, FS_EmptySet DEF Init, TodaySettled
<1>10. BulkheadBound
  BY <1>4, <1>8 DEF Init, BulkheadBound
<1> QED
  BY <1>2, <1>3, <1>7, <1>9, <1>10 DEF BulkheadInvariant

LEMMA BulkheadNext ==
  ASSUME WindowCoversDay, TypeOK, TypeOK', BulkheadInvariant, [Next]_vars
  PROVE  BulkheadInvariant'
<1>1. ASSUME NEW p \in Procs, Begin(p) PROVE BulkheadInvariant'
  BY <1>1, BeginKeeps
<1>2. ASSUME NEW p \in Procs, Count(p) PROVE BulkheadInvariant'
  BY <1>2, CountKeeps
<1>3. ASSUME NEW p \in Procs, Read(p) PROVE BulkheadInvariant'
  BY <1>3, ReadKeeps
<1>4. ASSUME NEW p \in Procs, Execute(p) PROVE BulkheadInvariant'
  BY <1>4, ReserveWriteKeeps, ModeWriteKeeps
<1>5. ASSUME NEW p \in Procs, Answer(p) PROVE BulkheadInvariant'
  BY <1>5, AnswerKeeps
<1>6. ASSUME NEW p \in Procs, Audit(p) PROVE BulkheadInvariant'
  BY <1>6, RecordKeeps, ExitUnrecordedKeeps DEF Audit
<1>7. ASSUME NEW p \in Procs, Kill(p) PROVE BulkheadInvariant'
  BY <1>7, ExitUnrecordedKeeps DEF Kill
<1>8. ASSUME NEW r \in Requests, ExecuteLate(r) PROVE BulkheadInvariant'
  BY <1>8, ExecuteLateKeeps
<1>9. CASE Tick
  BY <1>9, TickKeeps
<1>10. CASE UNCHANGED <<now, ledger, process, history>>
  <2>1. UNCHANGED <<now, rows, lastId, pc, request, since, outcome, stamp,
                    changed, owed, lost>>
    BY <1>10 DEF ledger, process, history
  <2> QED
    BY <2>1 DEF BulkheadInvariant, CallsOK, RowsPast, OwedBySpenders,
                NothingAhead, BudgetShared, TodaySettled, BulkheadBound,
                Spenders, Today, ByDate, SuccessRows
<1> QED
  BY <1>1, <1>2, <1>3, <1>4, <1>5, <1>6, <1>7, <1>8, <1>9, <1>10
     DEF Next, AppChange, vars

\* What the bulkhead rests on (policy.py, set_battery_mode and _mode_changes_today):
\* today's rows and the calls on their way to one share the budget, and today's
\* changes are rows, rows to come, or lost, whatever is killed or given up.
THEOREM BulkheadInductive ==
  ASSUME WindowCoversDay
  PROVE  Spec => []BulkheadInvariant
<1>1. Init => TypeOK /\ CallsTyped /\ BulkheadInvariant
  BY TypeInit, BulkheadInit
<1>2. TypeOK /\ CallsTyped /\ BulkheadInvariant /\ [Next]_vars
        => (TypeOK /\ CallsTyped /\ BulkheadInvariant)'
  BY TypeNext, BulkheadNext
<1> QED
  BY <1>1, <1>2, PTL DEF Spec

\* The daily bulkhead, for every number of processes and every budget: on no local
\* day more mode changes than the budget, one for each further process, and the
\* unrecorded ones, provided the query's window covers the day.
THEOREM BulkheadHolds ==
  ASSUME WindowCoversDay
  PROVE  Spec => []BulkheadBound
<1>1. BulkheadInvariant => BulkheadBound
  BY DEF BulkheadInvariant
<1> QED
  BY <1>1, BulkheadInductive, PTL

\* README: "Max 4 mode changes per day" is true of a household whose commands run
\* one at a time and whose zone's window covers the day: those are the two
\* conditions that policy_race and policy_fall_back drop, one each.
THEOREM LimitWhenAlone ==
  ASSUME WindowCoversDay, NEW p, Procs = {p}
  PROVE  Spec => []DailyLimit
<1>1. Cardinality(Procs) = 1
  BY FS_Singleton
<1>2. TypeOK /\ BulkheadBound => DailyLimit
  <2> SUFFICES ASSUME TypeOK, BulkheadBound, NEW d \in Dates
               PROVE  changed[d] <= MaxModeChangesPerDay + lost[d]
    BY DEF DailyLimit
  <2>1. changed[d] <= MaxModeChangesPerDay + (Cardinality(Procs) - 1) + lost[d]
    BY DEF BulkheadBound
  <2>2. MaxModeChangesPerDay \in Nat
    BY PolicyAssumption
  <2>3. changed[d] \in Nat /\ lost[d] \in Nat
    BY DEF TypeOK
  <2> QED
    BY <1>1, <2>1, <2>2, <2>3
<1> QED
  BY <1>2, BulkheadHolds, TypeCorrect, PTL

-----------------------------------------------------------------------------
(* The guardrails.  A request does not change while it is carried out, so a  *)
(* call that reaches the gateway is one that passed its guardrail.           *)

\* Only Begin brings a process to an await before the write, and only a write that
\* was waited for is given up.
LEMMA GatesNext ==
  ASSUME TypeOK, CallsTyped, GatesPassed, [Next]_vars
  PROVE  GatesPassed'
<1>1. ASSUME NEW p \in Procs, Begin(p) PROVE GatesPassed'
  <2>1. PICK r \in Requests :
          /\ request' = [request EXCEPT ![p] = r]
          /\ BeginSetMode(p, r) \/ BeginSetReserve(p, r)
    BY <1>1 DEF Begin
  <2>2. /\ \A q \in Procs \ {p} : pc'[q] = pc[q] /\ request'[q] = request[q]
        /\ late' = late
    BY <1>1, <2>1 DEF Begin, BeginSetMode, BeginSetReserve, Proceed, Conclude, GoTo, TypeOK
  <2>3. request'[p] = r
    BY <2>1 DEF TypeOK
  <2>4. pc'[p] \in {"count", "read", "write"} => Guarded(r)
    BY <2>1
       DEF BeginSetMode, BeginSetReserve, Proceed, Conclude, GoTo, TypeOK, Guarded
  <2> QED
    BY <2>2, <2>3, <2>4 DEF GatesPassed
<1>2. ASSUME NEW p \in Procs, Count(p) \/ Read(p) \/ Execute(p) PROVE GatesPassed'
  <2>1. request' = request /\ late' = late /\ pc[p] \in {"count", "read", "write"}
    BY <1>2 DEF Count, Read, Execute
  <2>2. \A q \in Procs \ {p} : pc'[q] = pc[q]
    BY <1>2 DEF Count, Read, Execute, Proceed, Conclude, GoTo, TypeOK
  <2> QED
    BY <2>1, <2>2 DEF GatesPassed
<1>3. ASSUME NEW p \in Procs, Abandon(p), pc[p] # "idle",
             pc'[p] \in {"record", "idle"},
             \A q \in Procs \ {p} : pc'[q] = pc[q] /\ request'[q] = request[q]
      PROVE  GatesPassed'
  <2>1. \A r \in Requests :
          \/ late'[r] = late[r]
          \/ r = request[p] /\ pc[p] = "write"
    BY <1>3 DEF Abandon, TypeOK, CallsTyped
  <2>2. \A r \in Requests : late'[r] > 0 => Guarded(r)
    BY <2>1 DEF GatesPassed
  <2>3. \A q \in Procs : pc'[q] \in {"count", "read", "write"} => Guarded(request'[q])
    BY <1>3 DEF GatesPassed
  <2> QED
    BY <2>2, <2>3 DEF GatesPassed
<1>4. ASSUME NEW p \in Procs, Exit(p), late' = late PROVE GatesPassed'
  BY <1>4 DEF Exit, GoTo, GatesPassed, TypeOK
<1>5. ASSUME NEW p \in Procs, ExitUnrecorded(p), pc[p] # "idle" PROVE GatesPassed'
  BY <1>3, <1>5 DEF ExitUnrecorded, Exit, GoTo, TypeOK
<1>6. ASSUME NEW p \in Procs, Audit(p) \/ Kill(p) PROVE GatesPassed'
  BY <1>4, <1>5, <1>6 DEF Audit, Kill
<1>7. ASSUME NEW p \in Procs, Answer(p) PROVE GatesPassed'
  <2>1. /\ pc[p] # "idle" /\ pc'[p] = "record" /\ request' = request
        /\ \A q \in Procs \ {p} : pc'[q] = pc[q]
        /\ late' = late \/ Abandon(p)
    BY <1>7 DEF Answer, Conclude, GoTo, TypeOK
  <2>2. CASE Abandon(p)
    BY <1>3, <2>1, <2>2
  <2>3. CASE late' = late
    BY <2>1, <2>3 DEF GatesPassed
  <2> QED
    BY <2>1, <2>2, <2>3
<1>8. ASSUME NEW r \in Requests, ExecuteLate(r) PROVE GatesPassed'
  <2>1. \A s \in Requests : late'[s] > 0 => late[s] > 0
    BY <1>8 DEF ExecuteLate, TypeOK
  <2> QED
    BY <1>8, <2>1 DEF ExecuteLate, process, GatesPassed
<1>9. CASE UNCHANGED <<pc, request, late>>
  BY <1>9 DEF GatesPassed
<1> QED
  BY <1>1, <1>2, <1>6, <1>7, <1>8, <1>9 DEF Next, Tick, AppChange, vars, process

\* What one step may do to the gateway.
LEMMA GatewayStep ==
  ASSUME TypeOK, [Next]_vars
  PROVE  \/ UNCHANGED gateway
         \/ mode' \in AppModes /\ reserve' = reserve
         \/ \E p \in Procs :
              pc[p] = "write" /\ pc'[p] = "answer" /\ Apply(request[p])
         \/ \E r \in Requests :
              late[r] > 0 /\ late'[r] < late[r] /\ Apply(r)
<1>1. ASSUME NEW p \in Procs, Execute(p)
      PROVE  pc[p] = "write" /\ pc'[p] = "answer" /\ Apply(request[p])
  BY <1>1 DEF Execute, GoTo, TypeOK
<1>2. ASSUME NEW r \in Requests, ExecuteLate(r)
      PROVE  late[r] > 0 /\ late'[r] < late[r] /\ Apply(r)
  BY <1>2 DEF ExecuteLate, TypeOK
<1>3. ASSUME NEW p \in Procs, Begin(p) \/ Count(p) \/ Read(p) \/ Answer(p) \/ Audit(p) \/ Kill(p)
      PROVE  UNCHANGED gateway
  BY <1>3 DEF Begin, Count, Read, Answer, Audit, Kill
<1>4. Tick \/ UNCHANGED vars => UNCHANGED gateway
  BY DEF Tick, vars
<1>5. AppChange => mode' \in AppModes /\ reserve' = reserve
  BY DEF AppChange
<1> QED
  BY <1>1, <1>2, <1>3, <1>4, <1>5 DEF Next

\* The human-in-the-loop gate (policy.py, set_battery_mode): the battery is sent
\* into FULL_BACKUP by a confirmed call for it, or by the homeowner.
THEOREM BackupConfirmed == Spec => HumanInTheLoop
<1>1. Init => TypeOK /\ CallsTyped /\ GatesPassed
  <2> SUFFICES ASSUME Init PROVE GatesPassed
    BY TypeInit
  <2> QED
    BY DEF Init, GatesPassed
<1>2. TypeOK /\ CallsTyped /\ GatesPassed /\ [Next]_vars
        => (TypeOK /\ CallsTyped /\ GatesPassed)'
  BY TypeNext, GatesNext
<1>3. TypeOK /\ CallsTyped /\ GatesPassed /\ [Next]_vars => BackupIsConfirmed
  <2> SUFFICES ASSUME TypeOK, CallsTyped, GatesPassed, [Next]_vars,
                      mode' = "full_backup", mode # "full_backup",
                      "full_backup" \notin AppModes
               PROVE  \/ \E p \in Procs : /\ pc[p] = "write" /\ pc'[p] = "answer"
                                          /\ request[p] = ConfirmedBackup
                      \/ /\ ConfirmedBackup \in Requests
                         /\ late'[ConfirmedBackup] < late[ConfirmedBackup]
    BY DEF BackupIsConfirmed
  <2>1. ASSUME NEW r \in Requests, Apply(r), Guarded(r) PROVE r = ConfirmedBackup
    <3>1. r.action = "set_mode" /\ r.mode = "full_backup"
      BY <2>1 DEF Apply
    <3>2. r.confirm
      BY <2>1, <3>1 DEF Guarded, Confirmed
    <3>3. r \in ModeRequests
      BY <3>1, PolicyAssumption DEF ReserveRequests
    <3> QED
      BY <3>1, <3>2, <3>3 DEF ModeRequests, ConfirmedBackup
  <2>2. \/ \E p \in Procs : pc[p] = "write" /\ pc'[p] = "answer" /\ Apply(request[p])
        \/ \E r \in Requests : late[r] > 0 /\ late'[r] < late[r] /\ Apply(r)
    BY GatewayStep DEF gateway
  <2>3. CASE \E p \in Procs : pc[p] = "write" /\ pc'[p] = "answer" /\ Apply(request[p])
    <3>1. PICK p \in Procs : pc[p] = "write" /\ pc'[p] = "answer" /\ Apply(request[p])
      BY <2>3
    <3>2. request[p] \in Requests /\ Guarded(request[p])
      BY <3>1 DEF CallsTyped, GatesPassed
    <3> QED
      BY <2>1, <3>1, <3>2
  <2>4. CASE \E r \in Requests : late[r] > 0 /\ late'[r] < late[r] /\ Apply(r)
    <3>1. PICK r \in Requests : late[r] > 0 /\ late'[r] < late[r] /\ Apply(r)
      BY <2>4
    <3>2. r = ConfirmedBackup
      BY <2>1, <3>1 DEF GatesPassed
    <3> QED
      BY <3>1, <3>2
  <2> QED
    BY <2>2, <2>3, <2>4
<1> QED
  BY <1>1, <1>2, <1>3, PTL DEF Spec, HumanInTheLoop

\* Rounding to whole percents does not leave bounds that are whole percents.
LEMMA RoundingKeepsBounds ==
  ASSUME NEW pct \in 100 .. 800, NEW q \in RoundedPercent(pct)
  PROVE  q \in 10 .. 80
<1>1. q \in Int /\ 10 * q - pct \in -5 .. 5
  BY DEF RoundedPercent
<1>2. 10 * q - pct >= -5 /\ 10 * q - pct <= 5
  BY <1>1
<1>3. 10 * q >= 95 /\ 10 * q <= 805
  BY <1>1, <1>2
<1> QED
  BY <1>1, <1>3

\* The reserve bounds (policy.py, set_reserve_soc, and the rounding in adapter.py):
\* what the gateway holds is between the floor and the ceiling, in whole percents.
THEOREM ReserveBounded == Spec => []ReserveWithinBounds
<1>1. Init => TypeOK /\ CallsTyped /\ GatesPassed /\ ReserveWithinBounds
  <2> SUFFICES ASSUME Init PROVE GatesPassed /\ ReserveWithinBounds
    BY TypeInit
  <2> QED
    BY DEF Init, GatesPassed, ReserveWithinBounds
<1>2. TypeOK /\ CallsTyped /\ GatesPassed /\ ReserveWithinBounds /\ [Next]_vars
        => (TypeOK /\ CallsTyped /\ GatesPassed /\ ReserveWithinBounds)'
  <2> SUFFICES ASSUME TypeOK, CallsTyped, GatesPassed, ReserveWithinBounds, [Next]_vars
               PROVE  reserve' \in 10 .. 80
    BY TypeNext, GatesNext DEF ReserveWithinBounds
  <2>1. CASE reserve' = reserve
    BY <2>1 DEF ReserveWithinBounds
  <2>2. CASE reserve' # reserve
    <3>1. \/ \E p \in Procs : pc[p] = "write" /\ Apply(request[p])
          \/ \E r \in Requests : late[r] > 0 /\ Apply(r)
      BY <2>2, GatewayStep DEF gateway
    <3>2. PICK r : Guarded(r) /\ Apply(r)
      BY <3>1 DEF GatesPassed
    <3>3. r.action = "set_reserve" /\ reserve' \in RoundedPercent(r.pct)
      BY <2>2, <3>2 DEF Apply
    <3>4. r.pct \in 100 .. 800
      BY <3>2, <3>3 DEF Guarded, WithinBounds, ReserveBounds
    <3>5. \A pct \in 100 .. 800 : \A q \in RoundedPercent(pct) : q \in 10 .. 80
      BY RoundingKeepsBounds, Zenon
    <3> QED
      BY <3>3, <3>4, <3>5
  <2> QED
    BY <2>1, <2>2
<1> QED
  BY <1>1, <1>2, PTL DEF Spec

-----------------------------------------------------------------------------
(* The two audit sinks.  Each attempt is counted before it is recorded, so   *)
(* the counter covers the rows and the attempts that await theirs.           *)

\* The sets compared with the counter are finite.
SinksFinite ==
  \A a \in Actions, o \in Outcomes :
    /\ IsFiniteSet(RowsOf(a, o)) /\ Cardinality(RowsOf(a, o)) \in Nat
    /\ IsFiniteSet(Awaiting(a, o)) /\ Cardinality(Awaiting(a, o)) \in Nat
    /\ counted[<<a, o>>] \in Nat

LEMMA SinksCounted == TypeOK => SinksFinite
<1> SUFFICES ASSUME TypeOK, NEW a \in Actions, NEW o \in Outcomes
             PROVE  /\ IsFiniteSet(RowsOf(a, o)) /\ Cardinality(RowsOf(a, o)) \in Nat
                    /\ IsFiniteSet(Awaiting(a, o)) /\ Cardinality(Awaiting(a, o)) \in Nat
                    /\ counted[<<a, o>>] \in Nat
  BY DEF SinksFinite
<1>1. RowsOf(a, o) \subseteq rows /\ IsFiniteSet(rows)
  BY DEF RowsOf, TypeOK, LedgerTypeOK
<1>2. Awaiting(a, o) \subseteq Procs /\ IsFiniteSet(Procs)
  BY PolicyAssumption DEF Awaiting
<1>3. counted[<<a, o>>] \in Nat
  BY DEF TypeOK
<1> QED
  BY <1>1, <1>2, <1>3, FS_Subset, FS_CardinalityType

LEMMA SinksCountedNext == TypeOK' => SinksFinite'
  BY SinksCounted, PTL

\* Concluding an attempt counts it, and makes it the one more that awaits its row.
LEMMA ConcludeCovers ==
  ASSUME TypeOK, CounterCovers, NEW p \in Procs, pc[p] # "record",
         NEW a0 \in Actions, NEW o0 \in Outcomes, Conclude(p, a0, o0),
         request'[p].action = a0, UNCHANGED rows,
         \A q \in Procs \ {p} : request'[q] = request[q]
  PROVE  CounterCovers'
<1> SUFFICES ASSUME NEW a \in Actions, NEW o \in Outcomes
             PROVE  Cardinality(RowsOf(a, o)') + Cardinality(Awaiting(a, o)')
                      <= counted'[<<a, o>>]
  BY DEF CounterCovers
<1>1. RowsOf(a, o)' = RowsOf(a, o)
  BY DEF RowsOf
<1>2. /\ IsFiniteSet(Awaiting(a, o)) /\ Cardinality(Awaiting(a, o)) \in Nat
      /\ Cardinality(RowsOf(a, o)) \in Nat /\ counted[<<a, o>>] \in Nat
      /\ Cardinality(RowsOf(a, o)) + Cardinality(Awaiting(a, o)) <= counted[<<a, o>>]
  BY SinksCounted DEF SinksFinite, CounterCovers
<1>3. /\ pc' = [pc EXCEPT ![p] = "record"] /\ outcome' = [outcome EXCEPT ![p] = o0]
      /\ counted' = [counted EXCEPT ![<<a0, o0>>] = @ + 1]
  BY DEF Conclude, GoTo
<1>4. CASE a = a0 /\ o = o0
  <2>1. Awaiting(a, o)' = Awaiting(a, o) \cup {p} /\ p \notin Awaiting(a, o)
    BY <1>3, <1>4 DEF Awaiting, TypeOK
  <2>2. Cardinality(Awaiting(a, o)') = Cardinality(Awaiting(a, o)) + 1
    <3>1. Cardinality(Awaiting(a, o) \cup {p}) = Cardinality(Awaiting(a, o)) + 1
      BY <1>2, <2>1, FS_AddElement
    <3> QED
      BY <2>1, <3>1
  <2>3. counted'[<<a, o>>] = counted[<<a, o>>] + 1
    BY <1>3, <1>4 DEF TypeOK
  <2> QED
    BY <1>1, <1>2, <2>2, <2>3
<1>5. CASE ~ (a = a0 /\ o = o0)
  <2>1. Awaiting(a, o)' = Awaiting(a, o)
    BY <1>3, <1>5 DEF Awaiting, TypeOK
  <2>2. counted'[<<a, o>>] = counted[<<a, o>>]
    BY <1>3, <1>5 DEF TypeOK
  <2> QED
    BY <1>1, <1>2, <2>1, <2>2
<1> QED
  BY <1>4, <1>5

\* A step that concludes nothing, and at which no attempt stops awaiting its row.
LEMMA ProceedCovers ==
  ASSUME TypeOK, CounterCovers, UNCHANGED <<rows, counted>>,
         \A q \in Procs :
           \/ pc'[q] = pc[q] /\ request'[q] = request[q] /\ outcome'[q] = outcome[q]
           \/ pc'[q] # "record"
  PROVE  CounterCovers'
<1> SUFFICES ASSUME NEW a \in Actions, NEW o \in Outcomes
             PROVE  Cardinality(RowsOf(a, o)') + Cardinality(Awaiting(a, o)')
                      <= counted'[<<a, o>>]
  BY DEF CounterCovers
<1>1. RowsOf(a, o)' = RowsOf(a, o) /\ counted' = counted
  BY DEF RowsOf
<1>2. /\ IsFiniteSet(Awaiting(a, o)) /\ Cardinality(Awaiting(a, o)) \in Nat
      /\ Cardinality(RowsOf(a, o)) \in Nat /\ counted[<<a, o>>] \in Nat
      /\ Cardinality(RowsOf(a, o)) + Cardinality(Awaiting(a, o)) <= counted[<<a, o>>]
  BY SinksCounted DEF SinksFinite, CounterCovers
<1>3. Awaiting(a, o)' \subseteq Awaiting(a, o)
  BY DEF Awaiting
<1>4. /\ Cardinality(Awaiting(a, o)') <= Cardinality(Awaiting(a, o))
      /\ Cardinality(Awaiting(a, o)') \in Nat
  BY <1>2, <1>3, FS_Subset, FS_CardinalityType
<1> QED
  BY <1>1, <1>2, <1>4

\* A row takes the place of the attempt that awaited it.
LEMMA RecordCovers ==
  ASSUME TypeOK, TypeOK', CallsTyped, CounterInvariant, NEW p \in Procs, pc[p] = "record",
         Record(stamp[p], request[p].action, outcome[p]), Exit(p), UNCHANGED counted
  PROVE  CounterCovers'
<1> DEFINE row == [id |-> lastId + 1, ts |-> stamp[p], action |-> request[p].action,
                   outcome |-> outcome[p]]
<1> SUFFICES ASSUME NEW a \in Actions, NEW o \in Outcomes
             PROVE  Cardinality(RowsOf(a, o)') + Cardinality(Awaiting(a, o)')
                      <= counted'[<<a, o>>]
  BY DEF CounterCovers
<1>1. rows' = rows \cup {row} /\ row \notin rows
  BY DEF Record, CounterInvariant, TypeOK, LedgerTypeOK
<1>2. /\ IsFiniteSet(Awaiting(a, o)) /\ Cardinality(Awaiting(a, o)) \in Nat
      /\ IsFiniteSet(RowsOf(a, o)) /\ Cardinality(RowsOf(a, o)) \in Nat
      /\ counted[<<a, o>>] \in Nat
      /\ Cardinality(RowsOf(a, o)) + Cardinality(Awaiting(a, o)) <= counted[<<a, o>>]
  BY SinksCounted DEF SinksFinite, CounterInvariant, CounterCovers
<1>3. Awaiting(a, o)' = Awaiting(a, o) \ {p}
  BY DEF Exit, GoTo, Awaiting, TypeOK
<1>4. CASE request[p].action = a /\ outcome[p] = o
  <2>1. RowsOf(a, o)' = RowsOf(a, o) \cup {row} /\ row \notin RowsOf(a, o)
    BY <1>1, <1>4 DEF RowsOf
  <2> HIDE DEF row
  <2>2. Cardinality(RowsOf(a, o) \cup {row}) = Cardinality(RowsOf(a, o)) + 1
    BY <1>2, <2>1, FS_AddElement
  <2>3. Cardinality(RowsOf(a, o)') = Cardinality(RowsOf(a, o)) + 1
    BY <2>1, <2>2
  <2>4. p \in Awaiting(a, o)
    BY <1>4 DEF Awaiting
  <2>5. Cardinality(Awaiting(a, o)') = Cardinality(Awaiting(a, o)) - 1
    <3>1. IsFiniteSet(Awaiting(a, o))
      BY <1>2
    <3>2. Cardinality(Awaiting(a, o) \ {p}) = Cardinality(Awaiting(a, o)) - 1
      BY <2>4, <3>1, FS_RemoveElement
    <3> QED
      BY <1>3, <3>2
  <2>6. counted'[<<a, o>>] = counted[<<a, o>>]
    OBVIOUS
  <2> DEFINE rowsOf == Cardinality(RowsOf(a, o))
             awaiting == Cardinality(Awaiting(a, o))
             count == counted[<<a, o>>]
  <2>7. rowsOf \in Nat /\ awaiting \in Nat /\ count \in Nat /\ rowsOf + awaiting <= count
    BY <1>2
  <2> HIDE DEF rowsOf, awaiting, count
  <2>8. (rowsOf + 1) + (awaiting - 1) <= count
    BY <2>7
  <2> QED
    BY <2>3, <2>5, <2>6, <2>8 DEF rowsOf, awaiting, count
<1>5. CASE ~ (request[p].action = a /\ outcome[p] = o)
  <2>1. RowsOf(a, o)' = RowsOf(a, o)
    BY <1>1, <1>5 DEF RowsOf
  <2>2. Awaiting(a, o)' = Awaiting(a, o)
    BY <1>3, <1>5 DEF Awaiting
  <2> QED
    BY <1>2, <2>1, <2>2
<1> QED
  BY <1>4, <1>5

LEMMA CounterNext ==
  ASSUME TypeOK, TypeOK', CallsTyped, CounterInvariant, [Next]_vars
  PROVE  CounterInvariant'
<1> USE DEF CounterInvariant
<1>1. ASSUME NEW p \in Procs, Begin(p) PROVE CounterInvariant'
  <2>1. PICK r \in Requests :
          /\ request' = [request EXCEPT ![p] = r]
          /\ BeginSetMode(p, r) \/ BeginSetReserve(p, r)
    BY <1>1 DEF Begin
  <2>2. /\ pc[p] = "idle" /\ UNCHANGED <<rows, lastId>> /\ request'[p] = r
        /\ \A q \in Procs \ {p} : request'[q] = request[q]
    BY <1>1, <2>1 DEF Begin, ledger, TypeOK
  <2>3. CASE \E place \in {"count", "read"} :
               /\ Proceed(p, place)
               /\ place = "count" => r.action = "set_mode"
    <3>1. PICK place \in {"count", "read"} :
            /\ Proceed(p, place)
            /\ place = "count" => r.action = "set_mode"
      BY <2>3
    <3>2. /\ pc'[p] = place /\ outcome' = outcome /\ counted' = counted
          /\ \A q \in Procs \ {p} : pc'[q] = pc[q]
      BY <3>1 DEF Proceed, GoTo, TypeOK
    <3>3. CounterCovers'
      BY <2>2, <3>2, ProceedCovers
    <3> QED
      BY <2>2, <3>1, <3>2, <3>3
  <2>4. CASE Conclude(p, r.action, "rejected")
    <3>1. r.action \in Actions /\ "rejected" \in Outcomes
      BY RequestActions DEF Outcomes
    <3>2. CounterCovers'
      BY <2>2, <2>4, <3>1, ConcludeCovers
    <3> QED
      BY <2>2, <2>4, <3>2 DEF Conclude, GoTo, TypeOK
  <2> QED
    BY <2>1, <2>3, <2>4 DEF BeginSetMode, BeginSetReserve
<1>2. ASSUME NEW p \in Procs, Count(p) \/ Read(p) \/ Execute(p) \/ Answer(p)
      PROVE  CounterInvariant'
  <2>1. /\ pc[p] \in {"count", "read", "write", "answer"} /\ UNCHANGED <<rows, lastId>>
        /\ request' = request
    BY <1>2 DEF Count, Read, Execute, Answer, ledger
  <2>2. \/ \E place \in {"read", "write"} : Proceed(p, place)
        \/ GoTo(p, "answer") /\ UNCHANGED <<outcome, counted>>
        \/ \E o \in Outcomes : Conclude(p, request[p].action, o)
    <3>1. CASE Count(p)
      BY <3>1 DEF Count, Outcomes
    <3>2. CASE Read(p)
      BY <3>2 DEF Read, OutcomeOf, Outcomes
    <3>3. CASE Execute(p)
      BY <3>3 DEF Execute
    <3>4. CASE Answer(p)
      BY <3>4 DEF Answer, OutcomeOf, Outcomes
    <3> QED
      BY <1>2, <3>1, <3>2, <3>3, <3>4
  <2>3. CASE \E place \in {"read", "write"} : Proceed(p, place)
    <3>1. CounterCovers'
      BY <2>1, <2>3, ProceedCovers DEF Proceed, GoTo, TypeOK
    <3> QED
      BY <2>1, <2>3, <3>1 DEF Proceed, GoTo, TypeOK
  <2>4. CASE \E o \in Outcomes : Conclude(p, request[p].action, o)
    <3>1. request[p].action \in Actions
      BY <2>1, RequestActions DEF CallsTyped
    <3>2. CounterCovers'
      BY <2>1, <2>4, <3>1, ConcludeCovers
    <3> QED
      BY <2>1, <2>4, <3>2 DEF Conclude, GoTo, TypeOK
  <2>5. CASE GoTo(p, "answer") /\ UNCHANGED <<outcome, counted>>
    <3>1. CounterCovers'
      BY <2>1, <2>5, ProceedCovers DEF GoTo, TypeOK
    <3> QED
      BY <2>1, <2>5, <3>1 DEF GoTo, TypeOK
  <2> QED
    BY <2>2, <2>3, <2>4, <2>5
<1>3. ASSUME NEW p \in Procs, ExitUnrecorded(p), UNCHANGED counted PROVE CounterInvariant'
  <2>1. /\ Exit(p) /\ UNCHANGED <<rows, lastId>>
    BY <1>3 DEF ExitUnrecorded, ledger
  <2>2. CounterCovers'
    BY <1>3, <2>1, ProceedCovers DEF Exit, GoTo, TypeOK
  <2> QED
    BY <2>1, <2>2 DEF Exit, GoTo, TypeOK
<1>4. ASSUME NEW p \in Procs, Audit(p) PROVE CounterInvariant'
  <2>1. CASE ExitUnrecorded(p)
    BY <1>3, <1>4, <2>1 DEF Audit
  <2>2. CASE Record(stamp[p], request[p].action, outcome[p]) /\ Exit(p)
    <3>1. CounterCovers'
      BY <1>4, <2>2, RecordCovers DEF Audit
    <3>2. \A r \in rows' : r.id <= lastId'
      BY <2>2 DEF Record, TypeOK, LedgerTypeOK, Row
    <3>3. \A q \in Procs : pc'[q] = "count" => request'[q].action = "set_mode"
      BY <2>2 DEF Exit, GoTo, TypeOK
    <3> QED
      BY <3>1, <3>2, <3>3
  <2> QED
    BY <1>4, <2>1, <2>2 DEF Audit
<1>5. ASSUME NEW p \in Procs, Kill(p) PROVE CounterInvariant'
  BY <1>3, <1>5 DEF Kill
<1>6. CASE UNCHANGED <<rows, lastId, counted, pc, request, outcome>>
  BY <1>6 DEF CounterCovers, RowsOf, Awaiting
<1>7. ASSUME NEW r \in Requests, ExecuteLate(r) PROVE CounterInvariant'
  BY <1>6, <1>7 DEF ExecuteLate, ledger, process
<1> QED
  BY <1>1, <1>2, <1>4, <1>5, <1>6, <1>7 DEF Next, Tick, AppChange, vars, ledger, process

\* The counter leads the ledger (policy.py, _audit): no row without its increment,
\* whichever sink fails and whenever a process is killed.
THEOREM CounterLeads == Spec => []CounterLeadsLedger
<1>1. Init => TypeOK /\ CallsTyped /\ CounterInvariant
  <2> SUFFICES ASSUME Init PROVE CounterInvariant
    BY TypeInit
  <2>1. CounterCovers
    <3> SUFFICES ASSUME NEW a \in Actions, NEW o \in Outcomes
                 PROVE  Cardinality(RowsOf(a, o)) + Cardinality(Awaiting(a, o))
                          <= counted[<<a, o>>]
      BY DEF CounterCovers
    <3>1. RowsOf(a, o) = {} /\ Awaiting(a, o) = {} /\ counted[<<a, o>>] = 0
      BY DEF Init, LedgerInit, RowsOf, Awaiting
    <3> QED
      BY <3>1, FS_EmptySet
  <2> QED
    BY <2>1 DEF Init, LedgerInit, CounterInvariant
<1>2. TypeOK /\ CallsTyped /\ CounterInvariant /\ [Next]_vars
        => (TypeOK /\ CallsTyped /\ CounterInvariant)'
  BY TypeNext, CounterNext
<1>3. TypeOK /\ CounterInvariant => CounterLeadsLedger
  <2> SUFFICES ASSUME TypeOK, CounterInvariant, NEW a \in Actions, NEW o \in Outcomes
               PROVE  Cardinality(RowsOf(a, o)) <= counted[<<a, o>>]
    BY DEF CounterLeadsLedger
  <2> QED
    BY SinksCounted DEF SinksFinite, CounterInvariant, CounterCovers
<1> QED
  BY <1>1, <1>2, <1>3, PTL DEF Spec

=============================================================================
