--------------------------- MODULE AccountProofs ---------------------------
(***************************************************************************)
(* That the ledger accounts for every mode change of the battery: each     *)
(* change is one "success" row, one call still to record it, or one loss,  *)
(* for every number of processes, every budget and every zone.             *)
(***************************************************************************)
EXTENDS BatteryPolicyProofs

\* Counts by date, and the sets that are counted, are finite.
AccountFinite ==
  /\ IsFiniteSet(Events(changed)) /\ IsFiniteSet(Events(lost))
  /\ IsFiniteSet(SuccessRows) /\ IsFiniteSet(OwedCalls)

\* EveryChangeAccounted is inductive together with who is owed a row.
Account ==
  /\ AccountInvariant
  /\ IsFiniteSet(Events(changed)) /\ IsFiniteSet(Events(lost))

LEMMA AccountCounted == TypeOK /\ Account => AccountFinite
<1> SUFFICES ASSUME TypeOK, Account PROVE IsFiniteSet(SuccessRows) /\ IsFiniteSet(OwedCalls)
  BY DEF AccountFinite, Account
<1>1. SuccessRows \subseteq rows /\ IsFiniteSet(rows)
  BY DEF SuccessRows, TypeOK, LedgerTypeOK
<1>2. OwedCalls \subseteq Procs /\ IsFiniteSet(Procs)
  BY PolicyAssumption DEF OwedCalls
<1> QED
  BY <1>1, <1>2, FS_Subset

\* One more on a date is one more in all.
LEMMA OneMore ==
  ASSUME NEW count \in [Dates -> Nat], NEW d \in Dates, IsFiniteSet(Events(count)),
         NEW more, more = [count EXCEPT ![d] = @ + 1]
  PROVE  /\ IsFiniteSet(Events(more))
         /\ Total(more) = Total(count) + 1
<1> DEFINE event == <<d, count[d] + 1>>
<1>1. count[d] \in Nat /\ more[d] = count[d] + 1 /\ \A e \in Dates \ {d} : more[e] = count[e]
  OBVIOUS
<1>2. \A n \in Nat : 1 .. n + 1 = (1 .. n) \cup {n + 1}
  OBVIOUS
<1>3. {d} \X (1 .. more[d]) = ({d} \X (1 .. count[d])) \cup {event}
  BY <1>1, <1>2
<1>4. Events(more) \subseteq Events(count) \cup {event}
  BY <1>1, <1>3 DEF Events
<1>5. Events(count) \cup {event} \subseteq Events(more)
  BY <1>1, <1>3 DEF Events
<1>6. Events(more) = Events(count) \cup {event}
  BY <1>4, <1>5
<1>7. event \notin Events(count)
  <2> SUFFICES ASSUME NEW e \in Dates, event \in {e} \X (1 .. count[e]) PROVE FALSE
    BY DEF Events
  <2>1. e = d /\ count[d] + 1 \in 1 .. count[d]
    OBVIOUS
  <2> QED
    BY <1>1, <2>1
<1> HIDE DEF event
<1>8. /\ IsFiniteSet(Events(count) \cup {event})
      /\ Cardinality(Events(count) \cup {event}) = Cardinality(Events(count)) + 1
  BY <1>7, FS_AddElement
<1> QED
  BY <1>6, <1>8 DEF Total

LEMMA TotalNat == ASSUME NEW count, IsFiniteSet(Events(count)) PROVE Total(count) \in Nat
BY FS_CardinalityType DEF Total

-----------------------------------------------------------------------------
(* What one step does to the account.                                      *)

\* A step that neither changes the battery nor records or loses a change.
LEMMA QuietAccount ==
  ASSUME TypeOK, Account, UNCHANGED <<ledger, changed, owed, lost>>, Settling' = Settling
  PROVE  Account'
BY DEF Account, AccountInvariant, OwedOnce, EveryChangeAccounted, OwedCalls, SuccessRows,
       Events, Total, ledger

\* One call advances, and is as much a settling one as before.
LEMMA SettlingStep ==
  ASSUME TypeOK, NEW p \in Procs,
         \A q \in Procs \ {p} : pc'[q] = pc[q] /\ outcome'[q] = outcome[q] /\ request'[q] = request[q],
         p \in Settling' <=> p \in Settling
  PROVE  Settling' = Settling
BY DEF Settling

\* A call that is given up: its change, if it made one, is lost.
LEMMA AbandonAccount ==
  ASSUME TypeOK, Account, NEW p \in Procs, Abandon(p), UNCHANGED ledger,
         \A q \in Procs \ {p} : pc'[q] = pc[q] /\ outcome'[q] = outcome[q] /\ request'[q] = request[q],
         p \notin Settling'
  PROVE  Account'
<1> USE DEF Account, AccountInvariant
<1>1. /\ owed' = [d \in Dates |-> owed[d] \ {p}]
      /\ lost' = [d \in Dates |-> IF p \in owed[d] THEN lost[d] + 1 ELSE lost[d]]
      /\ changed' = changed /\ rows' = rows /\ lastId' = lastId
  BY DEF Abandon, ledger
<1>2. Settling' = Settling \ {p}
  BY DEF Settling
<1>3. OwedCalls' = OwedCalls \ {p}
  BY <1>1 DEF OwedCalls
<1>4. OwedOnce'
  <2>1. \A d, e \in Dates : owed'[d] \cap owed'[e] # {} => d = e
    BY <1>1 DEF OwedOnce
  <2> QED
    BY <1>2, <1>3, <2>1 DEF OwedOnce
<1>5. AccountFinite
  BY AccountCounted
<1>6. SuccessRows' = SuccessRows /\ Total(changed)' = Total(changed) /\ Events(changed)' = Events(changed)
  BY <1>1 DEF SuccessRows, Total, Events
<1>7. CASE p \in OwedCalls
  <2>1. PICK d \in Dates : p \in owed[d]
    BY <1>7 DEF OwedCalls
  <2>2. lost' = [lost EXCEPT ![d] = @ + 1]
    <3>1. \A e \in Dates \ {d} : p \notin owed[e]
      BY <2>1 DEF OwedOnce
    <3> QED
      BY <1>1, <2>1, <3>1 DEF TypeOK
  <2>3. lost \in [Dates -> Nat]
    BY DEF TypeOK
  <2>4. IsFiniteSet(Events(lost')) /\ Total(lost') = Total(lost) + 1
    BY <2>2, <2>3, OneMore
  <2>5. Cardinality(OwedCalls') = Cardinality(OwedCalls) - 1
    BY <1>3, <1>5, <1>7, FS_RemoveElement DEF AccountFinite
  <2>6. EveryChangeAccounted'
    <3>1. /\ Total(lost) \in Nat /\ Total(changed) \in Nat /\ Cardinality(SuccessRows) \in Nat
          /\ Cardinality(OwedCalls) \in Nat
      BY <1>5, TotalNat, FS_CardinalityType DEF AccountFinite
    <3> QED
      BY <1>1, <1>6, <2>4, <2>5, <3>1 DEF EveryChangeAccounted
  <2> QED
    BY <1>1, <1>4, <1>6, <2>4, <2>6
<1>8. CASE p \notin OwedCalls
  <2>1. OwedCalls' = OwedCalls
    BY <1>3, <1>8
  <2>2. lost' = lost
    BY <1>1, <1>8 DEF OwedCalls, TypeOK
  <2> QED
    BY <1>1, <1>4, <1>6, <2>1, <2>2 DEF EveryChangeAccounted
<1> QED
  BY <1>7, <1>8

\* A row for a change, or for an attempt that made none.
LEMMA RecordAccount ==
  ASSUME TypeOK, TypeOK', Account, NEW p \in Procs, pc[p] = "record",
         Record(stamp[p], request[p].action, outcome[p]), Exit(p),
         owed' = [d \in Dates |-> owed[d] \ {p}], UNCHANGED <<changed, lost>>
  PROVE  Account'
<1> USE DEF Account, AccountInvariant
<1> DEFINE row == [id |-> lastId + 1, ts |-> stamp[p], action |-> request[p].action,
                   outcome |-> outcome[p]]
<1>1. /\ rows' = rows \cup {row} /\ row \notin rows
      /\ \A r \in rows' : r.id <= lastId'
  BY DEF Record, TypeOK, LedgerTypeOK, Row
<1>2. Settling' = Settling \ {p}
  BY DEF Exit, GoTo, Settling, TypeOK, NoRequest
<1>3. OwedCalls' = OwedCalls \ {p}
  BY DEF OwedCalls
<1>4. OwedOnce'
  <2>1. \A d, e \in Dates : owed'[d] \cap owed'[e] # {} => d = e
    BY DEF OwedOnce
  <2> QED
    BY <1>2, <1>3, <2>1 DEF OwedOnce
<1>5. AccountFinite
  BY AccountCounted
<1>6. /\ Total(changed)' = Total(changed) /\ Events(changed)' = Events(changed)
      /\ Total(lost)' = Total(lost) /\ Events(lost)' = Events(lost)
  BY DEF Total, Events
<1>7. /\ Total(lost) \in Nat /\ Total(changed) \in Nat /\ Cardinality(SuccessRows) \in Nat
      /\ Cardinality(OwedCalls) \in Nat
  BY <1>5, TotalNat, FS_CardinalityType DEF AccountFinite
<1>8. CASE p \in Settling
  <2>1. row.action = "set_mode" /\ row.outcome = "success"
    BY <1>8 DEF Settling
  <2>2. SuccessRows' = SuccessRows \cup {row} /\ row \notin SuccessRows
    BY <1>1, <2>1 DEF SuccessRows
  <2> HIDE DEF row
  <2>3. Cardinality(SuccessRows') = Cardinality(SuccessRows) + 1
    BY <1>5, <2>2, FS_AddElement DEF AccountFinite
  <2>4. Cardinality(OwedCalls') = Cardinality(OwedCalls) - 1
    BY <1>3, <1>5, <1>8, FS_RemoveElement DEF AccountFinite, OwedOnce
  <2>5. EveryChangeAccounted'
    BY <1>6, <1>7, <2>3, <2>4 DEF EveryChangeAccounted
  <2> QED
    BY <1>1, <1>4, <1>6, <2>5
<1>9. CASE p \notin Settling
  <2>1. ~ (row.action = "set_mode" /\ row.outcome = "success")
    BY <1>9 DEF Settling
  <2>2. SuccessRows' = SuccessRows
    BY <1>1, <2>1 DEF SuccessRows
  <2>3. OwedCalls' = OwedCalls
    BY <1>3, <1>9 DEF OwedOnce
  <2> QED
    BY <1>1, <1>4, <1>6, <2>2, <2>3 DEF EveryChangeAccounted
<1> QED
  BY <1>8, <1>9

\* The gateway executes a mode write whose caller waits.
LEMMA ExecuteAccount ==
  ASSUME TypeOK, Account, NEW p \in Procs, Execute(p), request[p].action = "set_mode"
  PROVE  Account'
<1> USE DEF Account, AccountInvariant
<1> DEFINE d == LocalDate(now)
<1>1. /\ changed' = [changed EXCEPT ![d] = @ + 1] /\ owed' = [owed EXCEPT ![d] = @ \cup {p}]
      /\ lost' = lost /\ rows' = rows /\ lastId' = lastId
  BY DEF Execute, ledger
<1>2. d \in Dates
  BY CalendarType DEF TypeOK
<1> HIDE DEF d
<1>3. pc[p] = "write" /\ pc' = [pc EXCEPT ![p] = "answer"] /\ request' = request /\ outcome' = outcome
  BY DEF Execute, GoTo
<1>4. p \notin Settling /\ Settling' = Settling \cup {p}
  BY <1>3 DEF Settling, TypeOK
<1>5. p \notin OwedCalls
  BY <1>4 DEF OwedOnce
<1>6. OwedCalls' = OwedCalls \cup {p}
  BY <1>1, <1>2 DEF OwedCalls, TypeOK
<1>7. OwedOnce'
  <2>1. \A e \in Dates : owed'[e] = IF e = d THEN owed[e] \cup {p} ELSE owed[e]
    BY <1>1 DEF TypeOK
  <2>2. \A e \in Dates : p \notin owed[e]
    BY <1>5 DEF OwedCalls
  <2>3. ASSUME NEW e \in Dates, NEW f \in Dates, owed'[e] \cap owed'[f] # {} PROVE e = f
    <3>1. PICK q : q \in owed'[e] /\ q \in owed'[f]
      BY <2>3
    <3>2. CASE q = p
      BY <2>1, <2>2, <3>1, <3>2
    <3>3. CASE q # p
      <4>1. q \in owed[e] \cap owed[f]
        BY <2>1, <3>1, <3>3
      <4> QED
        BY <4>1 DEF OwedOnce
    <3> QED
      BY <3>2, <3>3
  <2> QED
    BY <1>4, <1>6, <2>3 DEF OwedOnce
<1>8. AccountFinite
  BY AccountCounted
<1>9. SuccessRows' = SuccessRows /\ Total(lost)' = Total(lost) /\ Events(lost)' = Events(lost)
  BY <1>1 DEF SuccessRows, Total, Events
<1>10. changed \in [Dates -> Nat]
  BY DEF TypeOK
<1>11. IsFiniteSet(Events(changed')) /\ Total(changed') = Total(changed) + 1
  BY <1>1, <1>2, <1>10, OneMore
<1>12. Cardinality(OwedCalls') = Cardinality(OwedCalls) + 1
  BY <1>5, <1>6, <1>8, FS_AddElement DEF AccountFinite
<1>13. /\ Total(lost) \in Nat /\ Total(changed) \in Nat /\ Cardinality(SuccessRows) \in Nat
       /\ Cardinality(OwedCalls) \in Nat
  BY <1>8, TotalNat, FS_CardinalityType DEF AccountFinite
<1>14. EveryChangeAccounted'
  BY <1>9, <1>11, <1>12, <1>13 DEF EveryChangeAccounted
<1> QED
  BY <1>1, <1>7, <1>9, <1>11, <1>14

\* ... or a mode write that was given up: a change that is lost at once.
LEMMA ExecuteLateAccount ==
  ASSUME TypeOK, Account, NEW r \in Requests, ExecuteLate(r), r.action = "set_mode"
  PROVE  Account'
<1> USE DEF Account, AccountInvariant
<1> DEFINE d == LocalDate(now)
<1>1. /\ changed' = [changed EXCEPT ![d] = @ + 1] /\ lost' = [lost EXCEPT ![d] = @ + 1]
      /\ owed' = owed /\ rows' = rows /\ lastId' = lastId
      /\ pc' = pc /\ request' = request /\ outcome' = outcome
  BY DEF ExecuteLate, ledger, process
<1>2. d \in Dates
  BY CalendarType DEF TypeOK
<1> HIDE DEF d
<1>3. Settling' = Settling /\ OwedCalls' = OwedCalls /\ SuccessRows' = SuccessRows
  BY <1>1 DEF Settling, OwedCalls, SuccessRows
<1>4. OwedOnce'
  BY <1>1, <1>3 DEF OwedOnce
<1>5. changed \in [Dates -> Nat] /\ lost \in [Dates -> Nat]
  BY DEF TypeOK
<1>6. IsFiniteSet(Events(changed')) /\ Total(changed') = Total(changed) + 1
  BY <1>1, <1>2, <1>5, OneMore
<1>7. IsFiniteSet(Events(lost')) /\ Total(lost') = Total(lost) + 1
  BY <1>1, <1>2, <1>5, OneMore
<1>8. AccountFinite
  BY AccountCounted
<1>9. /\ Total(lost) \in Nat /\ Total(changed) \in Nat /\ Cardinality(SuccessRows) \in Nat
      /\ Cardinality(OwedCalls) \in Nat
  BY <1>8, TotalNat, FS_CardinalityType DEF AccountFinite
<1>10. EveryChangeAccounted'
  BY <1>3, <1>6, <1>7, <1>9 DEF EveryChangeAccounted
<1> QED
  BY <1>1, <1>4, <1>6, <1>7, <1>10

-----------------------------------------------------------------------------
LEMMA AccountInit == Init => Account
<1> SUFFICES ASSUME Init PROVE Account
  OBVIOUS
<1>1. \A d \in Dates : 1 .. changed[d] = {} /\ 1 .. lost[d] = {}
  BY DEF Init
<1>2. Events(changed) = {} /\ Events(lost) = {}
  BY <1>1 DEF Events
<1>3. OwedCalls = {} /\ SuccessRows = {} /\ Settling = {}
  BY DEF Init, LedgerInit, OwedCalls, SuccessRows, Settling, NoRequest
<1>4. OwedOnce
  BY <1>3 DEF OwedOnce, Init
<1>5. EveryChangeAccounted
  BY <1>2, <1>3, FS_EmptySet DEF EveryChangeAccounted, Total
<1>6. \A r \in rows : r.id <= lastId
  BY DEF Init, LedgerInit
<1> QED
  BY <1>2, <1>4, <1>5, <1>6, FS_EmptySet DEF Account, AccountInvariant

LEMMA AccountNext ==
  ASSUME TypeOK, TypeOK', CallsTyped, Account, [Next]_vars
  PROVE  Account'
<1>1. ASSUME NEW p \in Procs, Begin(p) PROVE Account'
  <2>1. PICK r \in Requests :
          /\ request' = [request EXCEPT ![p] = r]
          /\ BeginSetMode(p, r) \/ BeginSetReserve(p, r)
    BY <1>1 DEF Begin
  <2>2. /\ pc[p] = "idle" /\ UNCHANGED <<ledger, changed, owed, lost>>
        /\ \A q \in Procs \ {p} : request'[q] = request[q]
    BY <1>1, <2>1 DEF Begin, history, TypeOK
  <2>3. \/ \E place \in {"count", "read"} : Proceed(p, place)
        \/ \E a \in Actions : Conclude(p, a, "rejected")
    BY <2>1 DEF BeginSetMode, BeginSetReserve, Actions
  <2>4. /\ \A q \in Procs \ {p} : pc'[q] = pc[q] /\ outcome'[q] = outcome[q]
        /\ pc'[p] # "answer"
        /\ pc'[p] = "record" => outcome'[p] # "success"
    <3>1. ASSUME NEW place \in {"count", "read"}, Proceed(p, place)
          PROVE  /\ \A q \in Procs \ {p} : pc'[q] = pc[q] /\ outcome'[q] = outcome[q]
                 /\ pc'[p] = place
      BY <3>1 DEF Proceed, GoTo, TypeOK
    <3>2. ASSUME NEW a, Conclude(p, a, "rejected")
          PROVE  /\ \A q \in Procs \ {p} : pc'[q] = pc[q] /\ outcome'[q] = outcome[q]
                 /\ pc'[p] = "record" /\ outcome'[p] = "rejected"
      BY <3>2 DEF Conclude, GoTo, TypeOK
    <3> QED
      BY <2>3, <3>1, <3>2
  <2>5. p \notin Settling /\ p \notin Settling'
    BY <2>2, <2>4 DEF Settling
  <2> QED
    BY <2>2, <2>4, <2>5, SettlingStep, QuietAccount
<1>2. ASSUME NEW p \in Procs, Count(p) PROVE Account'
  <2>2. /\ pc[p] = "count" /\ UNCHANGED <<ledger, changed, owed, lost>>
        /\ \A q \in Procs \ {p} : request'[q] = request[q]
    BY <1>2 DEF Count, history
  <2>3. \/ Proceed(p, "read")
        \/ \E o \in {"error", "rejected"} : Conclude(p, "set_mode", o)
    BY <1>2 DEF Count
  <2>4. /\ \A q \in Procs \ {p} : pc'[q] = pc[q] /\ outcome'[q] = outcome[q]
        /\ pc'[p] # "answer"
        /\ pc'[p] = "record" => outcome'[p] # "success"
    BY <2>3 DEF Proceed, Conclude, GoTo, TypeOK
  <2>5. p \notin Settling /\ p \notin Settling'
    BY <2>2, <2>4 DEF Settling
  <2> QED
    BY <2>2, <2>4, <2>5, SettlingStep, QuietAccount
<1>3. ASSUME NEW p \in Procs, Read(p) PROVE Account'
  <2>2. /\ pc[p] = "read" /\ UNCHANGED <<ledger, changed, owed, lost>>
        /\ \A q \in Procs \ {p} : request'[q] = request[q]
    BY <1>3 DEF Read, history
  <2>3. \/ Proceed(p, "write")
        \/ \E o \in {"error", "noop"} : Conclude(p, request[p].action, o)
    BY <1>3 DEF Read, OutcomeOf
  <2>4. /\ \A q \in Procs \ {p} : pc'[q] = pc[q] /\ outcome'[q] = outcome[q]
        /\ pc'[p] # "answer"
        /\ pc'[p] = "record" => outcome'[p] # "success"
    BY <2>3 DEF Proceed, Conclude, GoTo, TypeOK
  <2>5. p \notin Settling /\ p \notin Settling'
    BY <2>2, <2>4 DEF Settling
  <2> QED
    BY <2>2, <2>4, <2>5, SettlingStep, QuietAccount
<1>4. ASSUME NEW p \in Procs, Execute(p) PROVE Account'
  <2>1. CASE request[p].action = "set_mode"
    BY <1>4, <2>1, ExecuteAccount
  <2>2. CASE request[p].action # "set_mode"
    <3>1. /\ UNCHANGED <<ledger, changed, owed, lost>> /\ request' = request
          /\ \A q \in Procs \ {p} : pc'[q] = pc[q] /\ outcome'[q] = outcome[q] /\ request'[q] = request[q]
      BY <1>4, <2>2 DEF Execute, GoTo, TypeOK
    <3>2. p \notin Settling /\ p \notin Settling'
      BY <2>2, <3>1 DEF Settling
    <3> QED
      BY <3>1, <3>2, SettlingStep, QuietAccount
  <2> QED
    BY <2>1, <2>2
<1>5. ASSUME NEW p \in Procs, Answer(p) PROVE Account'
  <2>1. /\ UNCHANGED ledger /\ request' = request
    BY <1>5 DEF Answer
  <2>2. CASE pc[p] = "answer" /\ Conclude(p, request[p].action, "success") /\ UNCHANGED history
    <3>1. /\ UNCHANGED <<changed, owed, lost>>
          /\ \A q \in Procs \ {p} : pc'[q] = pc[q] /\ outcome'[q] = outcome[q] /\ request'[q] = request[q]
          /\ pc'[p] = "record" /\ outcome'[p] = "success"
      BY <2>1, <2>2 DEF Conclude, GoTo, history, TypeOK
    <3>2. p \in Settling' <=> p \in Settling
      BY <2>1, <2>2, <3>1 DEF Settling
    <3> QED
      BY <2>1, <3>1, <3>2, SettlingStep, QuietAccount
  <2>3. CASE Conclude(p, request[p].action, "error") /\ Abandon(p)
    <3>1. /\ \A q \in Procs \ {p} : pc'[q] = pc[q] /\ outcome'[q] = outcome[q] /\ request'[q] = request[q]
          /\ pc'[p] = "record" /\ outcome'[p] = "error"
      BY <2>1, <2>3 DEF Conclude, GoTo, TypeOK
    <3>2. p \notin Settling'
      BY <3>1 DEF Settling
    <3> QED
      BY <2>1, <2>3, <3>1, <3>2, AbandonAccount
  <2> QED
    BY <1>5, <2>2, <2>3 DEF Answer, OutcomeOf
<1>6. ASSUME NEW p \in Procs, ExitUnrecorded(p) PROVE Account'
  <2>1. /\ Abandon(p) /\ UNCHANGED ledger
        /\ \A q \in Procs \ {p} : pc'[q] = pc[q] /\ outcome'[q] = outcome[q] /\ request'[q] = request[q]
        /\ pc'[p] = "idle"
    BY <1>6 DEF ExitUnrecorded, Exit, GoTo, TypeOK
  <2>2. p \notin Settling'
    BY <2>1 DEF Settling
  <2> QED
    BY <2>1, <2>2, AbandonAccount
<1>7. ASSUME NEW p \in Procs, Audit(p) PROVE Account'
  <2>1. CASE ExitUnrecorded(p)
    BY <1>6, <2>1
  <2>2. CASE /\ Record(stamp[p], request[p].action, outcome[p])
             /\ Exit(p)
             /\ owed' = [d \in Dates |-> owed[d] \ {p}]
             /\ UNCHANGED <<late, changed, lost>>
    BY <1>7, <2>2, RecordAccount DEF Audit
  <2> QED
    BY <1>7, <2>1, <2>2 DEF Audit
<1>8. ASSUME NEW p \in Procs, Kill(p) PROVE Account'
  BY <1>6, <1>8 DEF Kill
<1>9. CASE UNCHANGED <<ledger, process, history>>
  <2>1. Settling' = Settling
    BY <1>9 DEF process, Settling
  <2> QED
    BY <1>9, <2>1, QuietAccount DEF history
<1>10. ASSUME NEW r \in Requests, ExecuteLate(r) PROVE Account'
  <2>1. CASE r.action = "set_mode"
    BY <1>10, <2>1, ExecuteLateAccount
  <2>2. CASE r.action # "set_mode"
    BY <1>9, <1>10, <2>2 DEF ExecuteLate, history
  <2> QED
    BY <2>1, <2>2
<1> QED
  BY <1>1, <1>2, <1>3, <1>4, <1>5, <1>7, <1>8, <1>9, <1>10 DEF Next, Tick, AppChange, vars

\* What makes the account inductive (policy.py, _audit): which calls a "success" row is
\* still owed to, each for the change of one date, and that ids are not reused, so that
\* no row takes the place of another.
THEOREM AccountInductive == Spec => []AccountInvariant
<1>1. Init => TypeOK /\ CallsTyped /\ Account
  BY TypeInit, AccountInit
<1>2. TypeOK /\ CallsTyped /\ Account /\ [Next]_vars => (TypeOK /\ CallsTyped /\ Account)'
  BY TypeNext, AccountNext
<1>3. Account => AccountInvariant
  BY DEF Account
<1> QED
  BY <1>1, <1>2, <1>3, PTL DEF Spec

\* The ledger as a record of what happened to the battery (policy.py, _audit): every
\* mode change the gateway executed is one row, one call that will write it, or one
\* loss, and no row stands for anything else, whatever is killed, lost or late.
THEOREM ChangesAccounted == Spec => []EveryChangeAccounted
<1>1. AccountInvariant => EveryChangeAccounted
  BY DEF AccountInvariant
<1> QED
  BY <1>1, AccountInductive, PTL

-----------------------------------------------------------------------------
(* The ledger as a trail.                                                  *)

Trail == INSTANCE AuditTrail

StampsPast == \A p \in Procs : stamp[p] <= now

\* A row's ts is taken where the outcome is learnt, and the clock goes on.
LEMMA StampsStayPast ==
  ASSUME TypeOK, StampsPast, [Next]_vars
  PROVE  StampsPast'
<1> USE DEF StampsPast
<1>1. now \in Nat /\ \A p \in Procs : stamp[p] \in Nat
  BY TimeAssumption DEF TypeOK, Times
<1>2. ASSUME NEW p \in Procs, NEW t \in {0, now}, stamp' = [stamp EXCEPT ![p] = t], now' = now
      PROVE  StampsPast'
  BY <1>1, <1>2 DEF TypeOK
<1>3. ASSUME stamp' = stamp, now' \in {now, now + 1} PROVE StampsPast'
  BY <1>1, <1>3
<1>4. ASSUME NEW p \in Procs, Begin(p) \/ Count(p) \/ Read(p) \/ Answer(p) PROVE StampsPast'
  <2>1. now' = now /\ (stamp' = stamp \/ stamp' = [stamp EXCEPT ![p] = now])
    BY <1>4 DEF Begin, BeginSetMode, BeginSetReserve, Count, Read, Answer, Conclude, Proceed
  <2> QED
    BY <1>2, <1>3, <2>1
<1>5. ASSUME NEW p \in Procs, Audit(p) \/ Kill(p) PROVE StampsPast'
  <2>1. now' = now /\ stamp' = [stamp EXCEPT ![p] = 0]
    BY <1>5 DEF Audit, Kill, ExitUnrecorded, Exit
  <2> QED
    BY <1>2, <2>1
<1>6. ASSUME NEW p \in Procs, Execute(p) PROVE StampsPast'
  BY <1>3, <1>6 DEF Execute
<1>7. CASE Tick \/ AppChange \/ (\E r \in Requests : ExecuteLate(r)) \/ UNCHANGED vars
  BY <1>3, <1>7 DEF Tick, AppChange, ExecuteLate, process, vars
<1> QED
  BY <1>4, <1>5, <1>6, <1>7 DEF Next

\* Recording an attempt (policy.py, _audit) appends the next row, with an action and
\* an outcome of the vocabulary and a ts that is not in the future; nothing else
\* touches the ledger.  So what the policy assumes of it is what the ledger file is
\* shown to implement by the commands' own refinement of the same trail.
THEOREM LedgerIsTrail == Spec => Trail!TrailSpec
<1> DEFINE Inv == TypeOK /\ CallsTyped /\ StampsPast
<1>1. Init => Inv /\ Trail!TrailInit
  <2> SUFFICES ASSUME Init PROVE StampsPast /\ Trail!TrailInit
    BY TypeInit
  <2> QED
    BY DEF Init, StampsPast, LedgerInit, Trail!TrailInit, Trail!LedgerInit
<1>2. Inv /\ [Next]_vars => Inv'
  BY TypeNext, StampsStayPast
<1>3. ASSUME Inv, [Next]_vars PROVE [Trail!TrailNext]_<<rows, lastId, now>>
  <2>1. CASE UNCHANGED <<rows, lastId, now>>
    BY <2>1
  <2>2. ASSUME NEW p \in Procs, Audit(p), Record(stamp[p], request[p].action, outcome[p])
        PROVE  Trail!AppendRow
    <3>1. request[p].action \in Actions /\ outcome[p] \in Outcomes
      BY <1>3, <2>2, RequestActions DEF CallsTyped, Audit
    <3>2. stamp[p] \in 0 .. now
      BY <1>3, TimeAssumption DEF StampsPast, TypeOK, Times
    <3>3. now' = now
      BY <2>2 DEF Audit
    <3>4. Trail!Record(stamp[p], request[p].action, outcome[p])
      BY <2>2 DEF Record, Trail!Record
    <3> QED
      BY <3>1, <3>2, <3>3, <3>4
      DEF Trail!AppendRow, Trail!Actions, Trail!Outcomes, Actions, Outcomes
  <2>3. ASSUME NEW p \in Procs,
               \/ Begin(p) \/ Count(p) \/ Read(p) \/ Execute(p) \/ Answer(p)
               \/ Audit(p) /\ ExitUnrecorded(p)
               \/ Kill(p)
        PROVE  UNCHANGED <<rows, lastId, now>>
    BY <2>3 DEF Begin, Count, Read, Execute, Answer, Audit, ExitUnrecorded, Kill, ledger
  <2>4. ASSUME NEW p \in Procs, Audit(p)
        PROVE  Record(stamp[p], request[p].action, outcome[p]) \/ ExitUnrecorded(p)
    BY <2>4 DEF Audit
  <2>5. CASE Tick
    BY <2>5 DEF Tick, ledger, Trail!TrailNext, Trail!ClockAdvances
  <2>6. CASE AppChange \/ (\E r \in Requests : ExecuteLate(r)) \/ UNCHANGED vars
    BY <2>1, <2>6 DEF AppChange, ExecuteLate, ledger, vars
  <2> QED
    BY <1>3, <2>1, <2>2, <2>3, <2>4, <2>5, <2>6 DEF Next, Trail!TrailNext
<1> QED
  BY <1>1, <1>2, <1>3, PTL DEF Spec, Trail!TrailSpec

=============================================================================
