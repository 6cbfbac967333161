-------------------------- MODULE ExpositionProofs --------------------------
(***************************************************************************)
(* That every series Prometheus collects shows a value that was in force,  *)
(* and that a collection no publication touches is consistent: for every   *)
(* set of modes, labels and snapshots, and any number of publications.     *)
(***************************************************************************)
EXTENDS Exposition, SequenceTheorems, FiniteSetTheorems, TLAPS

USE ExpositionAssumption

-----------------------------------------------------------------------------
(* Series, reports and the orders they are set and read in.                *)

\* Modes and grid directions are series of their own.
LEMMA SeriesKinds ==
  /\ Family("soc") \in Series /\ Family("age") \in Series /\ Family("energy") \in Series
  /\ Family("import") \in Series /\ Family("export") \in Series
  /\ ModeLabels \subseteq Series /\ CountLabels \subseteq Series
  /\ {Family("soc"), Family("age"), Family("energy"), Family("import"), Family("export")}
       \cap (ModeLabels \cup CountLabels) = {}
  /\ ModeLabels \cap CountLabels = {}
<1>1. \A x \in ModeLabels : x[1] = "mode"
  BY DEF ModeLabels, ModeSeries
<1>2. \A x \in CountLabels : x[1] = "count"
  BY DEF CountLabels, CountSeries
<1>3. /\ Family("soc")[1] = "soc" /\ Family("age")[1] = "age" /\ Family("energy")[1] = "energy"
      /\ Family("import")[1] = "import" /\ Family("export")[1] = "export"
  BY DEF Family
<1>4. ModeLabels \cap CountLabels = {}
  BY <1>1, <1>2
<1>5. {Family("soc"), Family("age"), Family("energy"), Family("import"), Family("export")}
        \cap (ModeLabels \cup CountLabels) = {}
  BY <1>1, <1>2, <1>3
<1> QED
  BY <1>4, <1>5 DEF Series, Gauges, LazyGauges

LEMMA ModesSeq ==
  /\ Modes \in Seq(Series) /\ Len(Modes) = Len(ModeOrder)
  /\ \A i \in 1 .. Len(Modes) : Modes[i] = ModeSeries(ModeOrder[i])
  /\ \A x \in ModeLabels : \E i \in 1 .. Len(Modes) : Modes[i] = x
<1>1. \A i \in 1 .. Len(ModeOrder) : ModeSeries(ModeOrder[i]) \in Series
  BY SeriesKinds DEF ModeLabels, Elements
<1>2. Modes \in Seq(Series) /\ Len(Modes) = Len(ModeOrder)
  BY <1>1 DEF Modes
<1> QED
  BY <1>2 DEF Modes, ModeLabels, Elements

LEMMA LabelsSeq == Labels \in Seq(Series)
<1>1. \A i \in 1 .. Len(LabelOrder) : CountSeries(LabelOrder[i]) \in Series
  BY SeriesKinds DEF CountLabels, Elements
<1> QED
  BY <1>1 DEF Labels

\* A reading that is there is a natural number (adapter.py, _to_state).
LEMMA ReadingsTyped ==
  ASSUME NEW net \in Int \cup {None}
  PROVE  /\ Import(net) \in Nat \cup {None} /\ Export(net) \in Nat \cup {None}
         /\ Import(net) = None <=> Export(net) = None
         /\ Import(net) # None => Import(net) = 0 \/ Export(net) = 0
BY DEF Import, Export

LEMMA StateReportTyped ==
  ASSUME NEW s \in States
  PROVE  StateReport(s) \in [Series -> Nat \cup {None}]
<1> SUFFICES ASSUME NEW x \in Series
             PROVE  StateReport(s)[x] \in Nat \cup {None}
  BY DEF StateReport
<1>1. s \in SystemState
  OBVIOUS
<1> QED
  BY <1>1, ReadingsTyped DEF StateReport, SystemState

LEMMA CountReportTyped ==
  ASSUME NEW c \in Counts
  PROVE  CountReport(c) \in [Series -> Nat \cup {None}]
<1> SUFFICES ASSUME NEW x \in Series
             PROVE  CountReport(c)[x] \in Nat \cup {None}
  BY DEF CountReport
<1>1. x \in CountLabels => x[2] \in Elements(LabelOrder)
  BY DEF CountLabels, CountSeries
<1> QED
  BY <1>1 DEF CountReport

\* What a publication sets, and where in its order.
LEMMA StateOrderCovers ==
  ASSUME NEW s \in States
  PROVE  /\ StateOrder(s) \in Seq(Series)
         /\ \A x \in Series : StateReport(s)[x] # None =>
              \E i \in 1 .. Len(StateOrder(s)) : StateOrder(s)[i] = x
<1> DEFINE n == Len(Modes)
           order == StateOrder(s)
<1>1. n \in Nat /\ \A i \in 1 .. n : Modes[i] \in Series
  BY ModesSeq, LenProperties, ElementOfSeq
<1>2. order = <<Family("soc")>> \o Modes
                \o <<Family("energy")>> \o <<Family("import"), Family("export")>>
                \o <<Family("age")>>
  BY DEF StateOrder, Grid
<1>3. /\ order \in Seq(Series)
      /\ Len(order) = n + 5
      /\ order[1] = Family("soc")
      /\ \A i \in 1 .. n : order[i + 1] = Modes[i]
      /\ order[n + 2] = Family("energy")
      /\ order[n + 3] = Family("import")
      /\ order[n + 4] = Family("export")
      /\ order[n + 5] = Family("age")
  BY <1>1, <1>2, ModesSeq, SeriesKinds
<1>4. \A x \in Series : StateReport(s)[x] # None =>
        x \in ModeLabels \cup {Family("soc"), Family("energy"), Family("import"),
                               Family("export"), Family("age")}
  BY DEF StateReport
<1> HIDE DEF order
<1>5. ASSUME NEW x \in ModeLabels
      PROVE  \E i \in 1 .. Len(order) : order[i] = x
  <2>1. PICK i \in 1 .. n : Modes[i] = x
    BY ModesSeq
  <2>2. order[i + 1] = x
    BY <1>3, <2>1
  <2>3. i + 1 \in 1 .. n + 5
    BY <1>1
  <2> QED
    BY <1>3, <2>2, <2>3
<1>6. ASSUME NEW x \in {Family("soc"), Family("energy"), Family("import"),
                        Family("export"), Family("age")}
      PROVE  \E i \in 1 .. Len(order) : order[i] = x
  <2>1. /\ 1 \in 1 .. Len(order) /\ n + 2 \in 1 .. Len(order) /\ n + 3 \in 1 .. Len(order)
        /\ n + 4 \in 1 .. Len(order) /\ n + 5 \in 1 .. Len(order)
    BY <1>1, <1>3
  <2> QED
    BY <1>3, <2>1
<1>7. ASSUME NEW x \in Series, StateReport(s)[x] # None
      PROVE  \E i \in 1 .. Len(order) : order[i] = x
  BY <1>4, <1>5, <1>6, <1>7
<1> QED
  BY <1>3, <1>7 DEF order

LEMMA LabelOrderCovers ==
  ASSUME NEW c \in Counts, NEW x \in Series, CountReport(c)[x] # None
  PROVE  \E i \in 1 .. Len(Labels) : Labels[i] = x
<1>1. x \in CountLabels
  BY DEF CountReport
<1>2. PICK i \in DOMAIN LabelOrder : x = CountSeries(LabelOrder[i])
  BY <1>1 DEF CountLabels, Elements
<1>3. Labels[i] = x
  BY <1>2 DEF Labels
<1>4. Labels = [j \in 1 .. Len(LabelOrder) |-> CountSeries(LabelOrder[j])]
      /\ DOMAIN LabelOrder = 1 .. Len(LabelOrder) /\ Len(LabelOrder) \in Nat
  <2>1. DOMAIN LabelOrder = 1 .. Len(LabelOrder) /\ Len(LabelOrder) \in Nat
    BY ExpositionAssumption, LenProperties
  <2> QED
    BY <2>1 DEF Labels
<1>5. Len(Labels) = Len(LabelOrder)
  <2> HIDE DEF Labels
  <2> QED
    BY <1>4
<1> QED
  BY <1>2, <1>3, <1>4, <1>5

\* What a collection reads: series, and each of them at some stroke.
LEMMA CollectOrderTyped ==
  /\ CollectOrder \in Seq(SUBSET Series)
  /\ Len(CollectOrder) \in Nat
  /\ \A x \in ModeLabels \cup {Family("import"), Family("export")} :
       \E i \in 1 .. Len(CollectOrder) : x \in CollectOrder[i]
<1> DEFINE n == Len(Modes)
           singles == [i \in DOMAIN Modes |-> {Modes[i]}]
           order == CollectOrder
<1>1. n \in Nat /\ DOMAIN Modes = 1 .. n /\ \A i \in 1 .. n : Modes[i] \in Series
  BY ModesSeq, LenProperties, ElementOfSeq
<1>2. \A i \in 1 .. n : singles[i] \in SUBSET Series /\ singles[i] = {Modes[i]}
  BY <1>1
<1>3. singles \in Seq(SUBSET Series) /\ Len(singles) = n
  BY <1>1, <1>2
<1>4. order = <<{Family("soc")}>> \o singles
                \o <<{Family("age")}, {Family("energy")}, {Family("import")},
                     {Family("export")}, CountLabels>>
  BY DEF CollectOrder
<1> HIDE DEF singles, order
<1>5. /\ order \in Seq(SUBSET Series)
      /\ Len(order) = n + 6
      /\ \A i \in 1 .. n : order[i + 1] = singles[i]
      /\ order[n + 4] = {Family("import")}
      /\ order[n + 5] = {Family("export")}
  <2>1. {Family("soc")} \in SUBSET Series /\ {Family("age")} \in SUBSET Series
        /\ {Family("energy")} \in SUBSET Series /\ {Family("import")} \in SUBSET Series
        /\ {Family("export")} \in SUBSET Series /\ CountLabels \in SUBSET Series
    BY SeriesKinds
  <2> DEFINE S == SUBSET Series
             a == <<{Family("soc")}>>
             z == <<{Family("age")}, {Family("energy")}, {Family("import")},
                    {Family("export")}, CountLabels>>
  <2>2. a \in Seq(S) /\ Len(a) = 1
    BY <2>1
  <2>3. /\ z \in Seq(S) /\ Len(z) = 5
        /\ z[3] = {Family("import")} /\ z[4] = {Family("export")}
    BY <2>1
  <2>4. order = a \o singles \o z
    BY <1>4
  <2> HIDE DEF S, a, z
  <2>5. singles \in Seq(S)
    BY <1>3 DEF S
  <2> DEFINE front == a \o singles
  <2>6. /\ front \in Seq(S) /\ Len(front) = Len(a) + Len(singles)
        /\ \A i \in 1 .. Len(a) + Len(singles) :
             front[i] = IF i <= Len(a) THEN a[i] ELSE singles[i - Len(a)]
    BY <2>2, <2>5, ConcatProperties
  <2> HIDE DEF front
  <2>7. /\ front \o z \in Seq(S) /\ Len(front \o z) = Len(front) + Len(z)
        /\ \A i \in 1 .. Len(front) + Len(z) :
             (front \o z)[i] = IF i <= Len(front) THEN front[i] ELSE z[i - Len(front)]
    <3>1. front \in Seq(S)
      BY <2>6
    <3>2. z \in Seq(S)
      BY <2>3
    <3> QED
      BY <3>1, <3>2, ConcatProperties
  <2>8. /\ order = front \o z
        /\ Len(a) = 1 /\ Len(singles) = n /\ Len(front) = 1 + n /\ Len(z) = 5
    <3>1. order = front \o z
      BY <2>4 DEF front
    <3>2. Len(a) = 1 /\ Len(singles) = n /\ Len(z) = 5 /\ Len(front) = Len(a) + Len(singles)
      BY <1>3, <2>2, <2>3, <2>6
    <3> QED
      BY <3>1, <3>2
  <2>9. ASSUME NEW i \in 1 .. n PROVE order[i + 1] = singles[i]
    <3>1. /\ i + 1 \in 1 .. (1 + n) + 5 /\ i + 1 <= 1 + n
          /\ i + 1 \in 1 .. 1 + n /\ ~ (i + 1 <= 1) /\ (i + 1) - 1 = i
      BY <1>1
    <3>2. order[i + 1] = front[i + 1]
      BY <2>7, <2>8, <3>1
    <3>3. front[i + 1] = singles[i]
      BY <2>6, <2>8, <3>1
    <3> QED
      BY <3>2, <3>3
  <2>10. order[n + 4] = z[3] /\ order[n + 5] = z[4]
    <3>1. /\ n + 4 \in 1 .. (1 + n) + 5 /\ ~ (n + 4 <= 1 + n) /\ (n + 4) - (1 + n) = 3
          /\ n + 5 \in 1 .. (1 + n) + 5 /\ ~ (n + 5 <= 1 + n) /\ (n + 5) - (1 + n) = 4
      BY <1>1
    <3> QED
      BY <2>7, <2>8, <3>1
  <2>11. (1 + n) + 5 = n + 6
    BY <1>1
  <2>12. order \in Seq(S) /\ Len(order) = n + 6
    BY <2>7, <2>8, <2>11
  <2> QED
    BY <2>3, <2>9, <2>10, <2>12 DEF S
<1>6. ASSUME NEW x \in ModeLabels
      PROVE  \E i \in 1 .. Len(order) : x \in order[i]
  <2>1. PICK i \in 1 .. n : Modes[i] = x
    BY ModesSeq
  <2>2. i + 1 \in 1 .. n + 6
    BY <1>1
  <2>3. x \in order[i + 1]
    BY <1>2, <1>5, <2>1
  <2> QED
    BY <1>5, <2>2, <2>3
<1>7. \A x \in {Family("import"), Family("export")} : \E i \in 1 .. Len(order) : x \in order[i]
  <2>1. n + 4 \in 1 .. Len(order) /\ n + 5 \in 1 .. Len(order)
    BY <1>1, <1>5
  <2> QED
    BY <1>5, <2>1
<1>8. Len(order) \in Nat
  BY <1>1, <1>5
<1> QED
  BY <1>5, <1>6, <1>7, <1>8 DEF order

-----------------------------------------------------------------------------
(* Each series by itself.                                                  *)

LEMMA InitialTyped == Initial \in [Series -> Value] /\ Unread \in [Series -> Value]
BY DEF Initial, Unread, Value, Absent

LEMMA RegularFromInit == Init => RegularInvariant
<1> SUFFICES ASSUME Init PROVE RegularInvariant
  OBVIOUS
<1>1. TypeOK
  <2>1. 0 \in 0 .. Len(CollectOrder) + 1 /\ 0 \in 0 .. MaxRounds
    BY CollectOrderTyped
  <2>2. todo \in Seq(Series \X (Nat \cup {None}))
    BY DEF Init
  <2>4. known \in BOOLEAN
    BY DEF Init
  <2>3. \A x \in Series : current[x] \subseteq Value
    BY DEF Init
  <2> QED
    BY <2>1, <2>2, <2>3, <2>4, InitialTyped DEF Init, TypeOK
<1>2. TodoTold /\ GaugesFollow /\ CurrentCovers
  BY DEF Init, TodoTold, GaugesFollow, CurrentCovers
<1>3. SeriesRegular
  BY DEF Init, SeriesRegular
<1> QED
  BY <1>1, <1>2, <1>3 DEF RegularInvariant

\* A publication tells its report first, and then has it to set.
LEMMA PublishKeepsRegular ==
  ASSUME RegularInvariant,
         NEW order \in Seq(Series),
         NEW report \in [Series -> Nat \cup {None}],
         \A x \in Series : report[x] # None => \E i \in 1 .. Len(order) : order[i] = x,
         Publish(order, report)
  PROVE  RegularInvariant'
<1> USE DEF RegularInvariant
<1>1. told' \in [Series -> Value] /\ \A x \in Series : told'[x] = IF report[x] = None THEN told[x] ELSE report[x]
  BY DEF Publish, TypeOK, Value
<1>2. DOMAIN order = 1 .. Len(order) /\ Len(order) \in Nat /\ \A i \in 1 .. Len(order) : order[i] \in Series
  BY LenProperties, ElementOfSeq
<1>3. /\ Len(todo') = Len(order) /\ DOMAIN todo' = 1 .. Len(order)
      /\ todo' \in Seq(Series \X (Nat \cup {None}))
      /\ \A i \in 1 .. Len(order) : todo'[i] = <<order[i], report[order[i]]>>
  BY <1>2 DEF Publish
<1>4. earlier = told /\ earlier' = told
  BY DEF Publish, CurrentCovers
<1>5. \A x \in Series : current'[x] = IF at = 0 THEN {} ELSE current[x] \cup {told'[x]}
  BY DEF Publish
<1>6. TypeOK'
  <2>1. round' \in 0 .. MaxRounds
    BY DEF Publish, TypeOK
  <2>2. \A x \in Series : current'[x] \subseteq Value
    <3> SUFFICES ASSUME NEW x \in Series PROVE current'[x] \subseteq Value
      OBVIOUS
    <3>1. current[x] \subseteq Value
      BY DEF TypeOK
    <3>2. told'[x] \in Value
      BY <1>1
    <3>3. CASE at = 0
      BY <1>5, <3>3
    <3>4. CASE at # 0
      BY <1>5, <3>1, <3>2, <3>4
    <3> QED
      BY <3>3, <3>4
  <2>3. UNCHANGED <<gauge, at, sample, known, CollectOrder>>
    BY DEF Publish, CollectOrder, Modes, ModeSeries
  <2> QED
    BY <1>1, <1>3, <1>4, <2>1, <2>2, <2>3 DEF TypeOK
<1>7. TodoTold'
  BY <1>1, <1>2, <1>3 DEF TodoTold, Sets
<1>8. GaugesFollow'
  <2> SUFFICES ASSUME NEW x \in Series, gauge'[x] # told'[x]
               PROVE  /\ gauge'[x] = earlier'[x]
                      /\ \E i \in DOMAIN todo' : todo'[i] = <<x, told'[x]>>
    BY DEF GaugesFollow
  <2>1. gauge'[x] = told[x]
    BY DEF Publish, GaugesFollow
  <2>2. report[x] # None /\ told'[x] = report[x]
    BY <1>1, <2>1
  <2>3. PICK i \in 1 .. Len(order) : order[i] = x
    BY <2>2
  <2>4. i \in DOMAIN todo' /\ todo'[i] = <<x, told'[x]>>
    BY <1>3, <2>2, <2>3
  <2> QED
    BY <1>4, <2>1, <2>4
<1>9. CurrentCovers'
  <2>1. ASSUME todo' = << >> PROVE earlier' = told'
    <3>1. \A x \in Series : report[x] = None
      BY <1>2, <1>3, <2>1
    <3> QED
      BY <1>1, <1>4, <3>1 DEF TypeOK
  <2>2. ASSUME at' # 0, NEW x \in Series PROVE {told'[x], earlier'[x]} \subseteq current'[x]
    BY <1>4, <1>5, <2>2 DEF Publish, CurrentCovers
  <2> QED
    BY <2>1, <2>2 DEF CurrentCovers
<1>10. SeriesRegular'
  <2>1. \A i \in 1 .. at - 1 : i \in 1 .. Len(CollectOrder) /\ CollectOrder[i] \subseteq Series
    BY CollectOrderTyped, ElementOfSeq DEF TypeOK
  <2>2. at' = at /\ sample' = sample /\ CollectOrder' = CollectOrder
    BY DEF Publish, CollectOrder, Modes, ModeSeries
  <2>3. \A i \in 1 .. at - 1 : at # 0
    BY DEF TypeOK
  <2> QED
    BY <1>5, <2>1, <2>2, <2>3 DEF SeriesRegular
<1> QED
  BY <1>6, <1>7, <1>8, <1>9, <1>10

LEMMA SetNextKeepsRegular ==
  ASSUME RegularInvariant, SetNext
  PROVE  RegularInvariant'
<1> USE DEF RegularInvariant
<1> DEFINE series == Head(todo)[1]
           value == Head(todo)[2]
           n == Len(todo)
<1>1. /\ n \in Nat \ {0} /\ todo[1] = <<series, value>> /\ DOMAIN todo = 1 .. n
      /\ series \in Series /\ value \in Nat \cup {None}
  BY DEF SetNext, TypeOK
<1>2. /\ todo' \in Seq(Series \X (Nat \cup {None})) /\ Len(todo') = n - 1
      /\ DOMAIN todo' = 1 .. n - 1
      /\ \A i \in 1 .. n - 1 : todo'[i] = todo[i + 1]
  BY <1>1 DEF SetNext, TypeOK
<1>3. Sets(value) => value = told[series]
  <2>1. 1 \in DOMAIN todo /\ todo[1][1] = series /\ todo[1][2] = value
    BY <1>1
  <2> QED
    BY <2>1 DEF TodoTold
<1>11. gauge' = IF Sets(value) THEN [gauge EXCEPT ![series] = value] ELSE gauge
  BY DEF SetNext
<1>4. earlier' = IF n = 1 THEN told ELSE earlier
  BY DEF SetNext
<1>5. UNCHANGED <<round, told, at, sample, current, known, CollectOrder>>
  BY DEF SetNext, collection, CollectOrder, Modes, ModeSeries
<1> HIDE DEF series, value
<1>6. TypeOK'
  <2>1. gauge' \in [Series -> Value]
    BY <1>1, <1>11 DEF TypeOK, Value, Sets
  <2>2. earlier' \in [Series -> Value]
    BY <1>4 DEF TypeOK
  <2> QED
    BY <1>2, <1>5, <2>1, <2>2 DEF TypeOK
<1>7. TodoTold'
  <2> SUFFICES ASSUME NEW i \in 1 .. n - 1, Sets(todo'[i][2])
               PROVE  todo'[i][2] = told[todo'[i][1]]
    BY <1>2, <1>5 DEF TodoTold, Sets
  <2>1. i + 1 \in DOMAIN todo /\ todo'[i] = todo[i + 1]
    BY <1>1, <1>2
  <2> QED
    BY <2>1 DEF TodoTold
<1>8. GaugesFollow'
  <2> SUFFICES ASSUME NEW x \in Series, gauge'[x] # told[x]
               PROVE  /\ gauge'[x] = earlier'[x]
                      /\ \E i \in DOMAIN todo' : todo'[i] = <<x, told[x]>>
    BY <1>5 DEF GaugesFollow
  <2>1. gauge'[x] = gauge[x]
    BY <1>1, <1>3, <1>11 DEF TypeOK
  <2>2. PICK i \in 1 .. n : todo[i] = <<x, told[x]>>
    BY <1>1, <2>1 DEF GaugesFollow
  <2>3. gauge[x] = earlier[x]
    BY <2>1 DEF GaugesFollow
  <2>4. i # 1
    <3>1. SUFFICES ASSUME i = 1 PROVE FALSE
      OBVIOUS
    <3>2. series = x /\ value = told[x] /\ value # None
      BY <1>1, <2>2, <3>1 DEF TypeOK, Value, Absent
    <3> QED
      BY <1>1, <1>11, <3>2, <2>1 DEF TypeOK, Sets
  <2>5. i - 1 \in DOMAIN todo' /\ todo'[i - 1] = <<x, told[x]>> /\ n # 1
    <3>1. i \in Int /\ 1 <= i /\ i <= n /\ i # 1
      BY <2>2, <2>4, <1>1
    <3>2. i - 1 \in 1 .. n - 1 /\ (i - 1) + 1 = i /\ n # 1
      BY <1>1, <3>1
    <3> QED
      BY <1>2, <2>2, <3>2
  <2> QED
    BY <1>4, <2>1, <2>3, <2>5
<1>9. CurrentCovers'
  <2>1. todo' = << >> => n = 1
    <3>1. Len(<< >>) = 0
      OBVIOUS
    <3>2. \A m \in Nat : m - 1 = 0 => m = 1
      OBVIOUS
    <3> QED
      BY <1>1, <1>2, <3>1, <3>2, Zenon
  <2> QED
    BY <1>4, <1>5, <2>1 DEF CurrentCovers
<1>10. SeriesRegular'
  BY <1>5 DEF SeriesRegular
<1> QED
  BY <1>6, <1>7, <1>8, <1>9, <1>10
LEMMA StartCollectingKeepsRegular ==
  ASSUME RegularInvariant, StartCollecting
  PROVE  RegularInvariant'
<1> USE DEF RegularInvariant
<1>1. UNCHANGED <<gauge, todo, round, told, earlier, sample, CollectOrder>> /\ at' = 1
  BY DEF StartCollecting, loop, CollectOrder, Modes, ModeSeries
<1>2. \A x \in Series : current'[x] = {told[x], earlier[x]}
  BY DEF StartCollecting
<1>3. TypeOK'
  <2>1. at' \in 0 .. Len(CollectOrder) + 1
    BY <1>1, CollectOrderTyped
  <2>2. \A x \in Series : current'[x] \subseteq Value
    <3>1. \A x \in Series : told[x] \in Value /\ earlier[x] \in Value
      BY DEF TypeOK
    <3> QED
      BY <1>2, <3>1
  <2>3. known' \in BOOLEAN
    <3>1. known' = \E x \in ModeLabels : gauge[x] = 1
      BY DEF StartCollecting
    <3> QED
      BY <3>1 DEF StartCollecting
  <2> QED
    BY <1>1, <2>1, <2>2, <2>3 DEF TypeOK
<1>4. TodoTold' /\ GaugesFollow'
  BY <1>1 DEF TodoTold, GaugesFollow
<1>5. CurrentCovers'
  BY <1>1, <1>2 DEF CurrentCovers
<1>6. SeriesRegular'
  BY <1>1 DEF SeriesRegular
<1> QED
  BY <1>3, <1>4, <1>5, <1>6

\* What a gauge holds is what was told or what that replaces.
LEMMA CollectNextKeepsRegular ==
  ASSUME RegularInvariant, CollectNext
  PROVE  RegularInvariant'
<1> USE DEF RegularInvariant
<1>1. UNCHANGED <<gauge, todo, round, told, earlier, current, known, CollectOrder>>
  BY DEF CollectNext, loop, CollectOrder, Modes, ModeSeries
<1>2. at \in 1 .. Len(CollectOrder) /\ at' = at + 1 /\ at # 0
  BY CollectOrderTyped DEF CollectNext
<1>3. \A x \in Series : sample'[x] = IF x \in CollectOrder[at] THEN gauge[x] ELSE sample[x]
  BY DEF CollectNext
<1>4. TypeOK'
  <2>1. at' \in 0 .. Len(CollectOrder) + 1
    BY <1>2, CollectOrderTyped
  <2>2. sample' \in [Series -> Value]
    BY DEF CollectNext, TypeOK
  <2> QED
    BY <1>1, <2>1, <2>2 DEF TypeOK
<1>5. TodoTold' /\ GaugesFollow'
  BY <1>1 DEF TodoTold, GaugesFollow
<1>6. CurrentCovers'
  BY <1>1, <1>2 DEF CurrentCovers
<1>7. SeriesRegular'
  <2>1. \A x \in Series : gauge[x] \in current[x]
    BY <1>2 DEF GaugesFollow, CurrentCovers
  <2> SUFFICES ASSUME NEW i \in 1 .. at, NEW x \in CollectOrder[i]
               PROVE  sample'[x] \in current[x]
    BY <1>1, <1>2 DEF SeriesRegular
  <2>2. i \in 1 .. Len(CollectOrder)
    BY <1>2, CollectOrderTyped
  <2>3. x \in Series
    BY <2>2, CollectOrderTyped, ElementOfSeq
  <2>4. CASE x \in CollectOrder[at]
    BY <1>3, <2>1, <2>3, <2>4
  <2>5. CASE x \notin CollectOrder[at]
    <3>1. i \in 1 .. at - 1
      BY <1>2, <2>5, CollectOrderTyped
    <3> QED
      BY <1>3, <2>3, <2>5, <3>1 DEF SeriesRegular
  <2> QED
    BY <2>4, <2>5
<1> QED
  BY <1>4, <1>5, <1>6, <1>7

LEMMA RespondKeepsRegular ==
  ASSUME RegularInvariant, Respond
  PROVE  RegularInvariant'
<1> USE DEF RegularInvariant
<1>1. UNCHANGED <<gauge, todo, round, told, earlier, CollectOrder>> /\ at' = 0
  BY DEF Respond, loop, CollectOrder, Modes, ModeSeries
<1>2. TypeOK'
  <2>1. at' \in 0 .. Len(CollectOrder) + 1
    BY <1>1, CollectOrderTyped
  <2>2. \A x \in Series : current'[x] \subseteq Value
    BY DEF Respond
  <2>3. known' \in BOOLEAN
    BY DEF Respond
  <2>4. sample' \in [Series -> Value]
    BY InitialTyped DEF Respond
  <2> QED
    BY <1>1, <2>1, <2>2, <2>3, <2>4 DEF TypeOK
<1>3. TodoTold' /\ GaugesFollow' /\ CurrentCovers'
  BY <1>1 DEF TodoTold, GaugesFollow, CurrentCovers
<1>4. SeriesRegular'
  BY <1>1 DEF SeriesRegular
<1> QED
  BY <1>2, <1>3, <1>4

LEMMA StutterKeepsRegular ==
  ASSUME RegularInvariant, UNCHANGED vars
  PROVE  RegularInvariant'
BY DEF RegularInvariant, vars, loop, collection, TypeOK, TodoTold, GaugesFollow, CurrentCovers,
       SeriesRegular

LEMMA PublishStateKeepsRegular ==
  ASSUME RegularInvariant, PublishState
  PROVE  RegularInvariant'
<1>1. PICK s \in States : Publish(StateOrder(s), StateReport(s))
  BY DEF PublishState
<1> QED
  BY <1>1, StateOrderCovers, StateReportTyped, PublishKeepsRegular

LEMMA PublishCountsKeepsRegular ==
  ASSUME RegularInvariant, PublishCounts
  PROVE  RegularInvariant'
<1>1. PICK c \in Counts : Publish(Labels, CountReport(c))
  BY DEF PublishCounts
<1>2. \A x \in Series : CountReport(c)[x] # None => \E i \in 1 .. Len(Labels) : Labels[i] = x
  BY LabelOrderCovers
<1> QED
  BY <1>1, <1>2, LabelsSeq, CountReportTyped, PublishKeepsRegular

LEMMA StepKeepsRegular ==
  RegularInvariant /\ [Next]_vars => RegularInvariant'
BY PublishStateKeepsRegular, PublishCountsKeepsRegular, SetNextKeepsRegular,
   StartCollectingKeepsRegular, CollectNextKeepsRegular, RespondKeepsRegular,
   StutterKeepsRegular DEF Next

\* Every gauge holds what the loop last told for it, or what that is about to replace.
THEOREM RegularHolds == Spec => []RegularInvariant
<1>1. Init => RegularInvariant
  BY RegularFromInit
<1>2. RegularInvariant /\ [Next]_vars => RegularInvariant'
  BY StepKeepsRegular
<1> QED
  BY <1>1, <1>2, PTL DEF Spec

\* The variables stay in their types, whatever the modes, labels and snapshots.
THEOREM TypeCorrect == Spec => []TypeOK
<1>1. RegularInvariant => TypeOK
  BY DEF RegularInvariant
<1> QED
  BY <1>1, RegularHolds, PTL

\* metrics.py, the two threads: no series ever reads a value that was not in force
\* at some moment of its collection, and a missing reading never reads zero.
THEOREM ShownWasTold == Spec => []SeriesRegular
<1>1. RegularInvariant => SeriesRegular
  BY DEF RegularInvariant
<1> QED
  BY <1>1, RegularHolds, PTL

-----------------------------------------------------------------------------
(* The series together.                                                    *)

LEMMA ConsistentFromInit == Init => ConsistencyInvariant
<1> SUFFICES ASSUME Init PROVE ConsistencyInvariant
  OBVIOUS
<1>1. RegularInvariant
  BY RegularFromInit
<1>2. ModeTold
  BY SeriesKinds DEF Init, ModeTold, Initial, LazyGauges
<1>3. GridTold
  BY SeriesKinds DEF Init, GridTold, Initial, LazyGauges, Absent
<1>4. KnownMode
  <2>1. \A x \in Series : IsFiniteSet(current[x])
    BY FS_EmptySet DEF Init
  <2> QED
    BY <2>1 DEF Init, KnownMode
<1> QED
  BY <1>1, <1>2, <1>3, <1>4 DEF ConsistencyInvariant

\* A report of a state is consistent, or says nothing of the grid.
LEMMA StateReportConsistent ==
  ASSUME NEW s \in States
  PROVE  /\ ModeSeries(s.mode) \in ModeLabels
         /\ \A x \in ModeLabels : StateReport(s)[x] = IF x = ModeSeries(s.mode) THEN 1 ELSE 0
         /\ StateReport(s)[Family("import")] = Import(s.net)
         /\ StateReport(s)[Family("export")] = Export(s.net)
<1>1. s.mode \in Elements(ModeOrder)
  BY DEF SystemState
<1>2. ModeSeries(s.mode) \in ModeLabels
  BY <1>1 DEF ModeLabels
<1>3. /\ Family("import") \notin ModeLabels /\ Family("export") \notin ModeLabels
      /\ Family("soc") \notin ModeLabels
  BY SeriesKinds
<1>4. \A x \in ModeLabels : StateReport(s)[x] = IF x = ModeSeries(s.mode) THEN 1 ELSE 0
  BY <1>3, SeriesKinds DEF StateReport
<1>5. /\ Family("soc")[1] = "soc" /\ Family("energy")[1] = "energy"
      /\ Family("import")[1] = "import" /\ Family("export")[1] = "export"
      /\ Family("age")[1] = "age"
  BY DEF Family
<1>6. /\ Family("import") # Family("soc") /\ Family("import") # Family("energy")
      /\ Family("export") # Family("soc") /\ Family("export") # Family("energy")
      /\ Family("import") # Family("export") /\ Family("import") # Family("age")
      /\ Family("export") # Family("age")
  BY <1>5
<1>7. Family("import") \in Series /\ Family("export") \in Series
  BY SeriesKinds
<1>8. StateReport(s)[Family("import")] = Import(s.net)
  BY <1>3, <1>6, <1>7 DEF StateReport
<1>9. StateReport(s)[Family("export")] = Export(s.net)
  BY <1>3, <1>6, <1>7 DEF StateReport
<1> QED
  BY <1>2, <1>4, <1>8, <1>9

\* What follows for what is told, whichever of the two was published.
LEMMA PublishKeepsConsistent ==
  ASSUME ConsistencyInvariant, RegularInvariant',
         NEW order, NEW report \in [Series -> Nat \cup {None}],
         Publish(order, report),
         \/ \A x \in ModeLabels : report[x] = None
         \/ \E x \in ModeLabels : report[x] = 1 /\ \A y \in ModeLabels \ {x} : report[y] = 0,
         \E net \in Int \cup {None} : /\ report[Family("import")] = Import(net)
                                      /\ report[Family("export")] = Export(net)
  PROVE  ConsistencyInvariant'
<1> USE DEF ConsistencyInvariant
<1>1. \A x \in Series : told'[x] = IF report[x] = None THEN told[x] ELSE report[x]
  BY DEF Publish
<1>2. ModeTold'
  <2>1. CASE \A x \in ModeLabels : report[x] = None
    <3>1. \A x \in ModeLabels : told'[x] = told[x]
      BY <1>1, <2>1, SeriesKinds
    <3> QED
      BY <3>1 DEF ModeTold, ModeLabels, ModeSeries
  <2>2. CASE \E x \in ModeLabels : report[x] = 1 /\ \A y \in ModeLabels \ {x} : report[y] = 0
    <3>1. \A x \in ModeLabels : report[x] # None => told'[x] = report[x]
      BY <1>1, SeriesKinds
    <3>2. 1 # None /\ 0 # None
      OBVIOUS
    <3>3. PICK x \in ModeLabels : report[x] = 1 /\ \A y \in ModeLabels \ {x} : report[y] = 0
      BY <2>2
    <3>4. told'[x] = 1 /\ \A y \in ModeLabels \ {x} : told'[y] = 0
      BY <3>1, <3>2, <3>3
    <3> QED
      BY <3>4 DEF ModeTold, ModeLabels, ModeSeries
  <2> QED
    BY <2>1, <2>2
<1>3. GridTold'
  <2>1. PICK net \in Int \cup {None} : /\ report[Family("import")] = Import(net)
                                       /\ report[Family("export")] = Export(net)
    OBVIOUS
  <2> DEFINE import == Family("import")
             export == Family("export")
  <2>2. /\ told'[import] = IF Import(net) = None THEN told[import] ELSE Import(net)
        /\ told'[export] = IF Export(net) = None THEN told[export] ELSE Export(net)
    BY <1>1, <2>1, SeriesKinds
  <2>3. /\ Import(net) = None <=> Export(net) = None
        /\ Import(net) # None => Import(net) = 0 \/ Export(net) = 0
    BY <2>1, ReadingsTyped, Zenon
  <2>4. told[import] <= 0 \/ told[export] <= 0
    BY DEF GridTold
  <2> HIDE DEF import, export
  <2>5. told'[import] <= 0 \/ told'[export] <= 0
    BY <2>2, <2>3, <2>4
  <2> QED
    BY <2>5 DEF GridTold, import, export
<1>4. KnownMode'
  <2>1. \A x \in Series : current'[x] = IF at = 0 THEN {} ELSE current[x] \cup {told'[x]}
    BY DEF Publish
  <2>2. \A x \in Series : IsFiniteSet(current'[x])
    <3> SUFFICES ASSUME NEW x \in Series PROVE IsFiniteSet(current'[x])
      OBVIOUS
    <3>1. IsFiniteSet(current[x])
      BY DEF KnownMode
    <3>2. IsFiniteSet({}) /\ IsFiniteSet(current[x] \cup {told'[x]})
      BY <3>1, FS_EmptySet, FS_AddElement
    <3> QED
      BY <2>1, <3>2
  <2>3. known' = known /\ at' = at
    BY DEF Publish
  <2>4. known => at # 0 /\ \E x \in ModeLabels : 1 \in current'[x]
    BY <2>1, SeriesKinds DEF KnownMode
  <2> QED
    BY <2>2, <2>3, <2>4 DEF KnownMode, Series, Gauges, LazyGauges, Family, ModeLabels,
                            ModeSeries, CountLabels, CountSeries
<1> QED
  BY <1>2, <1>3, <1>4

LEMMA PublishStateKeepsConsistent ==
  ASSUME ConsistencyInvariant, PublishState
  PROVE  ConsistencyInvariant'
<1>1. RegularInvariant'
  BY PublishStateKeepsRegular DEF ConsistencyInvariant
<1>2. PICK s \in States : Publish(StateOrder(s), StateReport(s))
  BY DEF PublishState
<1>3. s.net \in Int \cup {None}
  BY DEF SystemState
<1> DEFINE report == StateReport(s)
<1>4. \E x \in ModeLabels : report[x] = 1 /\ \A y \in ModeLabels \ {x} : report[y] = 0
  BY StateReportConsistent
<1>5. \E net \in Int \cup {None} : /\ report[Family("import")] = Import(net)
                                   /\ report[Family("export")] = Export(net)
  BY <1>3, StateReportConsistent
<1>6. report \in [Series -> Nat \cup {None}]
  BY StateReportTyped
<1> QED
  BY <1>1, <1>2, <1>4, <1>5, <1>6, PublishKeepsConsistent

LEMMA PublishCountsKeepsConsistent ==
  ASSUME ConsistencyInvariant, PublishCounts
  PROVE  ConsistencyInvariant'
<1>1. RegularInvariant'
  BY PublishCountsKeepsRegular DEF ConsistencyInvariant
<1>2. PICK c \in Counts : Publish(Labels, CountReport(c))
  BY DEF PublishCounts
<1> DEFINE report == CountReport(c)
<1>3. \A x \in ModeLabels : report[x] = None
  BY SeriesKinds DEF CountReport
<1>4. report[Family("import")] = None /\ report[Family("export")] = None
  BY SeriesKinds DEF CountReport
<1>5. \E net \in Int \cup {None} : /\ report[Family("import")] = Import(net)
                                   /\ report[Family("export")] = Export(net)
  BY <1>4 DEF Import, Export
<1>6. report \in [Series -> Nat \cup {None}]
  BY CountReportTyped
<1> QED
  BY <1>1, <1>2, <1>3, <1>5, <1>6, PublishKeepsConsistent

\* A mode shown active was told, or is being replaced: it is what a collection may read.
LEMMA StartCollectingKeepsConsistent ==
  ASSUME ConsistencyInvariant, StartCollecting
  PROVE  ConsistencyInvariant'
<1> USE DEF ConsistencyInvariant
<1>1. RegularInvariant'
  BY StartCollectingKeepsRegular
<1>2. ModeTold' /\ GridTold'
  BY DEF StartCollecting, loop, ModeTold, GridTold
<1>3. KnownMode'
  <2>1. \A x \in Series : current'[x] = {told[x], earlier[x]}
    BY DEF StartCollecting
  <2>2. \A x \in Series : IsFiniteSet(current'[x])
    <3> SUFFICES ASSUME NEW x \in Series PROVE IsFiniteSet(current'[x])
      OBVIOUS
    <3>1. IsFiniteSet({told[x]})
      BY FS_Singleton
    <3>2. IsFiniteSet({told[x]} \cup {earlier[x]})
      BY <3>1, FS_AddElement
    <3>3. {told[x], earlier[x]} = {told[x]} \cup {earlier[x]}
      OBVIOUS
    <3> QED
      BY <2>1, <3>2, <3>3
  <2>3. \A x \in ModeLabels : gauge[x] \in current'[x]
    BY <2>1, SeriesKinds DEF RegularInvariant, GaugesFollow
  <2>4. known' => \E x \in ModeLabels : 1 \in current'[x]
    BY <2>3 DEF StartCollecting
  <2>5. at' # 0
    BY DEF StartCollecting
  <2> QED
    BY <2>2, <2>4, <2>5 DEF KnownMode
<1> QED
  BY <1>1, <1>2, <1>3

LEMMA OthersKeepConsistent ==
  ASSUME ConsistencyInvariant, SetNext \/ CollectNext \/ Respond \/ UNCHANGED vars
  PROVE  ConsistencyInvariant'
<1> USE DEF ConsistencyInvariant
<1>1. RegularInvariant'
  BY SetNextKeepsRegular, CollectNextKeepsRegular, RespondKeepsRegular, StutterKeepsRegular
<1>2. told' = told
  BY DEF SetNext, CollectNext, Respond, vars, loop
<1>3. ModeTold' /\ GridTold'
  BY <1>2 DEF ModeTold, GridTold
<1>4. KnownMode'
  <2>1. CASE Respond
    <3>1. \A x \in Series : IsFiniteSet(current'[x])
      BY <2>1, FS_EmptySet DEF Respond
    <3> QED
      BY <2>1, <3>1 DEF Respond, KnownMode
  <2>2. CASE SetNext
    BY <2>2 DEF SetNext, collection, KnownMode
  <2>3. CASE CollectNext
    <3>1. at' # 0 /\ UNCHANGED <<current, known>>
      BY <2>3, CollectOrderTyped DEF CollectNext
    <3> QED
      BY <3>1 DEF KnownMode
  <2>4. CASE UNCHANGED vars
    BY <2>4 DEF vars, collection, KnownMode
  <2> QED
    BY <2>1, <2>2, <2>3, <2>4
<1> QED
  BY <1>1, <1>3, <1>4

\* What is told is consistent at every moment, whatever the series show.
THEOREM ToldConsistent == Spec => []ConsistencyInvariant
<1>1. Init => ConsistencyInvariant
  BY ConsistentFromInit
<1>2. ConsistencyInvariant /\ [Next]_vars => ConsistencyInvariant'
  BY PublishStateKeepsConsistent, PublishCountsKeepsConsistent,
     StartCollectingKeepsConsistent, OthersKeepConsistent DEF Next
<1> QED
  BY <1>1, <1>2, PTL DEF Spec

\* A finite set of at most one element has no two.
LEMMA AtMostOne ==
  ASSUME NEW S, IsFiniteSet(S), Cardinality(S) <= 1, NEW a \in S, NEW b \in S
  PROVE  a = b
<1> SUFFICES ASSUME a # b PROVE FALSE
  OBVIOUS
<1>1. IsFiniteSet({a}) /\ Cardinality({a}) = 1
  BY FS_Singleton
<1>2. Cardinality({a} \cup {b}) = 2
  <2> DEFINE A == {a}
  <2>1. b \notin A
    OBVIOUS
  <2>2. IsFiniteSet(A) /\ Cardinality(A) = 1
    BY <1>1
  <2> HIDE DEF A
  <2>3. Cardinality(A \cup {b}) = Cardinality(A) + 1
    BY <2>1, <2>2, FS_AddElement
  <2>4. Cardinality(A \cup {b}) = 2
    BY <2>2, <2>3
  <2> QED
    BY <2>4 DEF A
<1> DEFINE pair == {a} \cup {b}
<1>3. pair \subseteq S
  OBVIOUS
<1> HIDE DEF pair
<1>4. Cardinality(pair) <= Cardinality(S)
  BY <1>3, FS_Subset
<1>5. Cardinality(S) \in Nat /\ Cardinality(pair) = 2
  BY <1>2, FS_CardinalityType DEF pair
<1> QED
  BY <1>4, <1>5

\* A collection that no publication touched reads exactly what was told.
LEMMA UndisturbedReadsTold ==
  ASSUME ConsistencyInvariant, Collected, Undisturbed,
         NEW x \in ModeLabels \cup {Family("import"), Family("export")}
  PROVE  /\ sample[x] = told[x]
         /\ \A v \in current[x] : v = told[x]
<1> USE DEF ConsistencyInvariant, RegularInvariant
<1>1. x \in Series
  BY SeriesKinds
<1>2. PICK i \in 1 .. Len(CollectOrder) : x \in CollectOrder[i]
  BY CollectOrderTyped
<1>3. i \in 1 .. at - 1
  BY CollectOrderTyped DEF Collected
<1>4. sample[x] \in current[x]
  BY <1>2, <1>3 DEF SeriesRegular
<1>5. told[x] \in current[x]
  BY <1>1, CollectOrderTyped DEF CurrentCovers, Collected
<1>6. IsFiniteSet(current[x]) /\ Cardinality(current[x]) <= 1
  BY <1>1 DEF KnownMode, Undisturbed
<1> QED
  BY <1>4, <1>5, <1>6, AtMostOne

\* metrics.py, _publish_state beside the HTTP server: a collection that falls between
\* publications shows exactly one active mode and one direction of the grid.
THEOREM Consistent == Spec => []ConsistentUndisturbed
<1>1. ASSUME ConsistencyInvariant PROVE ConsistentUndisturbed
  <2> SUFFICES ASSUME Collected, Undisturbed, known
               PROVE  /\ Cardinality(ActiveModes) = 1
                      /\ sample[Family("import")] <= 0 \/ sample[Family("export")] <= 0
    BY DEF ConsistentUndisturbed
  <2>1. \A x \in ModeLabels : sample[x] = told[x] /\ \A v \in current[x] : v = told[x]
    BY <1>1, UndisturbedReadsTold
  <2>2. \E x \in ModeLabels : told[x] = 1
    BY <1>1, <2>1 DEF ConsistencyInvariant, KnownMode
  <2>3. PICK x \in ModeLabels : told[x] = 1 /\ \A y \in ModeLabels \ {x} : told[y] = 0
    BY <1>1, <2>2 DEF ConsistencyInvariant, ModeTold
  <2>4. ActiveModes = {x}
    BY <2>1, <2>3 DEF ActiveModes
  <2>5. Cardinality(ActiveModes) = 1
    BY <2>4, FS_Singleton
  <2>6. /\ sample[Family("import")] = told[Family("import")]
        /\ sample[Family("export")] = told[Family("export")]
    BY <1>1, UndisturbedReadsTold
  <2> QED
    BY <1>1, <2>5, <2>6 DEF ConsistencyInvariant, GridTold
<1> QED
  BY <1>1, ToldConsistent, PTL

=============================================================================
