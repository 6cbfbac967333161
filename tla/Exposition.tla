----------------------------- MODULE Exposition -----------------------------
(***************************************************************************)
(* metrics.py between its two threads: the scrape loop publishes a state   *)
(* as a sequence of set() calls, one series each, and the HTTP server that *)
(* prometheus_client runs beside it answers a collection by walking the    *)
(* registry, one collector after the other.  Nothing holds both up.  Of    *)
(* each group of series that behave alike one is modelled: `soc` for the   *)
(* plain gauges, `energy` for the optional accumulators.                   *)
(***************************************************************************)
EXTENDS Integers, Sequences, FiniteSets

CONSTANTS
  ModeOrder,   \* BatteryMode, in its order of definition
  LabelOrder,  \* label pairs of writes_last_24h, in the order the vocabulary is walked
  States,      \* snapshots get_state() may return
  Counts,      \* counts the ledger may return, zero for a pair it has no row of
  None,        \* a reading the gateway did not give
  MaxRounds    \* bound on the publications

Elements(seq) == {seq[i] : i \in DOMAIN seq}

\* A series that is not exposed.
Absent == -1

Family(f) == <<f, "">>
ModeSeries(m) == <<"mode", m>>
CountSeries(l) == <<"count", l>>

Gauges == {Family("soc"), Family("age")}
LazyGauges == {Family("energy"), Family("import"), Family("export")}
ModeLabels == {ModeSeries(m) : m \in Elements(ModeOrder)}
CountLabels == {CountSeries(l) : l \in Elements(LabelOrder)}
Series == Gauges \cup LazyGauges \cup ModeLabels \cup CountLabels

\* What get_state() may return of the optional readings, too, or leave out.
SystemState == [soc : Nat, mode : Elements(ModeOrder), age : Nat,
                energy : Nat \cup {None}, net : Int \cup {None}]

ASSUME ExpositionAssumption ==
  /\ None \notin Int
  /\ ModeOrder \in Seq(STRING)
  /\ LabelOrder \in Seq(STRING)
  /\ States \subseteq SystemState
  /\ Counts \subseteq [Elements(LabelOrder) -> Nat]
  /\ MaxRounds \in Nat

VARIABLES
  gauge,    \* what each series would be sampled as
  todo,     \* what is left of the publication in progress: series and value
  round,    \* publications begun
  at,       \* collectors the current collection has visited, or "none"
  sample,   \* what that collection has read
  \* History, for the properties only:
  told,     \* for each series, the value last reported for it
  earlier,  \* ... and the one the publication in progress replaces
  current,  \* ... and all that were told, or still shown, during this collection
  known     \* some mode was shown active when this collection began

loop == <<gauge, todo, round, told, earlier>>
collection == <<at, sample, current, known>>
vars == <<loop, collection>>

-----------------------------------------------------------------------------
(* What a snapshot, or the ledger's answer, says of each series.           *)

\* Mutant: the signed reading itself.
SignedExport(net) == IF net = None THEN None ELSE - net
Export(net) == IF net = None THEN None ELSE IF net < 0 THEN - net ELSE 0
Import(net) == IF net = None THEN None ELSE IF net > 0 THEN net ELSE 0

StateReport(s) ==
  [x \in Series |->
     CASE x = Family("soc")    -> s.soc
       [] x \in ModeLabels     -> IF x = ModeSeries(s.mode) THEN 1 ELSE 0
       [] x = Family("energy") -> s.energy
       [] x = Family("import") -> Import(s.net)
       [] x = Family("export") -> Export(s.net)
       [] x = Family("age")    -> s.age
       [] OTHER                -> None]

\* Zero-filled: every pair of the vocabulary is set.
CountReport(c) == [x \in Series |-> IF x \in CountLabels THEN c[x[2]] ELSE None]

Modes == [i \in DOMAIN ModeOrder |-> ModeSeries(ModeOrder[i])]
Labels == [i \in DOMAIN LabelOrder |-> CountSeries(LabelOrder[i])]
Grid == <<Family("import"), Family("export")>>

\* Mutant: a reading of zero skipped like one that is missing.
SetsTruthy(value) == value \notin {None, 0}
\* publish_optional_state: "None means skip".
Sets(value) == value # None

\* Mutant: the label of the mode that was active is left as it is.
StateOrderActiveOnly(s) ==
  <<Family("soc"), ModeSeries(s.mode), Family("energy")>> \o Grid \o <<Family("age")>>
\* _publish_state, from the plain gauges to the age.
StateOrder(s) ==
  <<Family("soc")>> \o Modes \o <<Family("energy")>> \o Grid \o <<Family("age")>>

\* The registry, in order of registration: each entry is read at one stroke.  A
\* LazyGauge is a family, the labels of a Gauge are children read one by one.
CollectOrder ==
  <<{Family("soc")}>>
    \o [i \in DOMAIN Modes |-> {Modes[i]}]
    \o <<{Family("age")}, {Family("energy")}, {Family("import")}, {Family("export")},
         CountLabels>>

Collected == at = Len(CollectOrder) + 1

-----------------------------------------------------------------------------
Value == Nat \cup {Absent}

TypeOK ==
  /\ gauge \in [Series -> Value]
  /\ todo \in Seq(Series \X (Nat \cup {None}))
  /\ round \in 0 .. MaxRounds
  /\ at \in 0 .. Len(CollectOrder) + 1
  /\ sample \in [Series -> Value]
  /\ told \in [Series -> Value]
  /\ earlier \in [Series -> Value]
  /\ \A x \in Series : current[x] \subseteq Value
  /\ known \in BOOLEAN

\* A Gauge, and each label build_metrics seeds, is 0 from the start; a LazyGauge
\* has nothing to say until its first set().
Initial == [x \in Series |-> IF x \in LazyGauges \cup CountLabels THEN Absent ELSE 0]
Unread == [x \in Series |-> Absent]

Init ==
  /\ gauge = Initial
  /\ todo = << >>
  /\ round = 0
  /\ at = 0
  /\ sample = Unread
  /\ told = Initial
  /\ earlier = Initial
  /\ current = [x \in Series |-> {}]
  /\ known = FALSE

\* A collection in progress may read the new value from here on.
Publish(order, report) ==
  /\ todo = << >>
  /\ round < MaxRounds
  /\ round' = round + 1
  /\ todo' = [i \in DOMAIN order |-> <<order[i], report[order[i]]>>]
  /\ told' = [x \in Series |-> IF report[x] = None THEN told[x] ELSE report[x]]
  /\ earlier' = told
  /\ current' = [x \in Series |-> IF at = 0 THEN {} ELSE current[x] \cup {told'[x]}]
  /\ UNCHANGED <<gauge, at, sample, known>>

\* A scrape that raises, and a ledger query that does, publish nothing.
PublishState == \E s \in States : Publish(StateOrder(s), StateReport(s))
PublishCounts == \E c \in Counts : Publish(Labels, CountReport(c))

\* One set() call, or none if there is nothing to set.
SetNext ==
  /\ todo # << >>
  /\ LET series == Head(todo)[1]
         value  == Head(todo)[2]
     IN gauge' = IF Sets(value) THEN [gauge EXCEPT ![series] = value] ELSE gauge
  /\ todo' = Tail(todo)
  /\ earlier' = IF Len(todo) = 1 THEN told ELSE earlier
  /\ UNCHANGED <<round, told, collection>>

StartCollecting ==
  /\ at = 0
  /\ at' = 1
  /\ current' = [x \in Series |-> {told[x], earlier[x]}]
  /\ known' = \E x \in ModeLabels : gauge[x] = 1
  /\ UNCHANGED <<loop, sample>>

CollectNext ==
  /\ at \in DOMAIN CollectOrder
  /\ sample' = [x \in Series |-> IF x \in CollectOrder[at] THEN gauge[x] ELSE sample[x]]
  /\ at' = at + 1
  /\ UNCHANGED <<loop, current, known>>

\* The answer goes out to Prometheus.
Respond ==
  /\ Collected
  /\ at' = 0
  /\ sample' = Unread
  /\ current' = [x \in Series |-> {}]
  /\ known' = FALSE
  /\ UNCHANGED loop

Next == PublishState \/ PublishCounts \/ SetNext \/ StartCollecting \/ CollectNext \/ Respond

Spec == Init /\ [][Next]_vars

-----------------------------------------------------------------------------
(* What a collection may tell Prometheus.                                  *)

\* Each series by itself is right, however the threads interleave: it reads a
\* value that was the last one reported at some moment of the collection, or was
\* being replaced; a reading the gateway did not give keeps the series absent, or
\* at its last value, and never makes it zero.
SeriesRegular ==
  \A i \in 1 .. at - 1 : \A x \in CollectOrder[i] : sample[x] \in current[x]

ActiveModes == {x \in ModeLabels : sample[x] = 1}

\* Between the series there is consistency only if no publication touched them
\* meanwhile: then one mode is active and the grid has one direction.
Undisturbed == \A x \in Series : Cardinality(current[x]) <= 1

ConsistentUndisturbed ==
  Collected /\ Undisturbed /\ known =>
    /\ Cardinality(ActiveModes) = 1
    /\ sample[Family("import")] <= 0 \/ sample[Family("export")] <= 0

\* set_battery_mode: "exactly one mode label carries 1, the rest 0", as Prometheus
\* sees it once a first state has been published.
OneModeActive == Collected /\ known => Cardinality(ActiveModes) = 1

-----------------------------------------------------------------------------
(* Why they hold, as invariants that every step preserves.                 *)

\* What is still to be set is what was told, and what is not is set.
TodoTold ==
  \A i \in DOMAIN todo : Sets(todo[i][2]) => todo[i][2] = told[todo[i][1]]

GaugesFollow ==
  \A x \in Series :
    \/ gauge[x] = told[x]
    \/ gauge[x] = earlier[x] /\ \E i \in DOMAIN todo : todo[i] = <<x, told[x]>>

\* A collection may read whatever a gauge holds while it lasts.
CurrentCovers ==
  /\ todo = << >> => earlier = told
  /\ at # 0 => \A x \in Series : {told[x], earlier[x]} \subseteq current[x]

RegularInvariant ==
  /\ TypeOK
  /\ TodoTold
  /\ GaugesFollow
  /\ CurrentCovers
  /\ SeriesRegular

\* What is told is consistent, whatever is shown.
ModeTold ==
  \/ \A x \in ModeLabels : told[x] = 0
  \/ \E x \in ModeLabels : told[x] = 1 /\ \A y \in ModeLabels \ {x} : told[y] = 0

GridTold == told[Family("import")] <= 0 \/ told[Family("export")] <= 0

KnownMode ==
  /\ \A x \in Series : IsFiniteSet(current[x])
  /\ known => at # 0 /\ \E x \in ModeLabels : 1 \in current[x]

ConsistencyInvariant ==
  /\ RegularInvariant
  /\ ModeTold
  /\ GridTold
  /\ KnownMode

=============================================================================
