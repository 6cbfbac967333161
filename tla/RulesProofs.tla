---------------------------- MODULE RulesProofs ----------------------------
(***************************************************************************)
(* That the table plan_day() makes is the rules read hour by hour, for     *)
(* every state of charge and every forecast.  The loop over the hours is a *)
(* recursive function: what it computes is proved by the least hour at     *)
(* which it would compute something else.                                  *)
(***************************************************************************)
EXTENDS Rules, SequenceTheorems, WellFoundedInduction, TLAPS

\* Induction, without an operator for what is proved: a set has a least element.
LEMMA Smallest ==
  ASSUME NEW S \in SUBSET Nat, S # {}
  PROVE  \E n \in S : \A m \in S : n <= m
<1> DEFINE R == OpToRel(<, Nat)
<1>1. IsWellFoundedOn(R, Nat)
  BY NatLessThanWellFounded
<1>2. \A m, n \in Nat : m < n => <<m, n>> \in R
  BY DEF OpToRel
<1> HIDE DEF R
<1>3. \E n \in S : \A m \in S : ~ (<<m, n>> \in R)
  BY <1>1, WFMin
<1>4. PICK n \in S : \A m \in S : ~ (<<m, n>> \in R)
  BY <1>3
<1>5. \A m \in S : ~ (m < n)
  BY <1>2, <1>4
<1>6. \A m \in S : n <= m
  BY <1>5
<1> QED
  BY <1>6

-----------------------------------------------------------------------------
(* One hour.                                                               *)

Context == [soc : Nat, storm : BOOLEAN]
RuleNames == {"storm-prep", "low-soc-guard", "peak-discharge", "offpeak-recharge",
              "default-self-consumption"}

LEMMA DueNames == ASSUME NEW context, NEW hour PROVE Due(context, hour) \in RuleNames
BY DEF Due, RuleNames

\* First match wins: the rule that governs an hour is the one its urgency puts first.
LEMMA EvaluateDue ==
  ASSUME NEW context \in Context, NEW hour \in Int
  PROVE  Evaluate(context, hour) = Due(context, hour)
<1> DEFINE t == RULES(context, hour)
           First(i) == t[i].when /\ \A j \in 1 .. i - 1 : ~ t[j].when
<1>1. DOMAIN t = 1 .. 5
  BY DEF RULES
<1>2. /\ t[1].name = "storm-prep" /\ t[2].name = "low-soc-guard" /\ t[3].name = "peak-discharge"
      /\ t[4].name = "offpeak-recharge" /\ t[5].name = "default-self-consumption"
  BY DEF RULES
<1>3. /\ t[1].when <=> context.storm
      /\ t[2].when <=> context.soc < LowSocFloor
      /\ t[3].when <=> hour \in DefaultPeakHours
      /\ t[4].when <=> hour \in DefaultOffPeakHours
      /\ t[5].when
  BY DEF RULES
<1> HIDE DEF t
<1>4. Evaluate(context, hour) = t[CHOOSE i \in 1 .. 5 : First(i)].name
  BY <1>1 DEF Evaluate, t
<1>5. \A i, j \in 1 .. 5 : First(i) /\ First(j) => i = j
  <2> SUFFICES ASSUME NEW i \in 1 .. 5, NEW j \in 1 .. 5, First(i), First(j), i < j
               PROVE  FALSE
    OBVIOUS
  <2>1. i \in 1 .. j - 1
    OBVIOUS
  <2> QED
    BY <2>1
<1>6. ASSUME NEW k \in 1 .. 5, First(k) PROVE Evaluate(context, hour) = t[k].name
  <2>1. (CHOOSE i \in 1 .. 5 : First(i)) = k
    BY <1>5, <1>6
  <2> QED
    BY <1>4, <2>1
<1>7. \A k \in 1 .. 5 : \A j \in 1 .. k - 1 : j \in {1, 2, 3, 4} /\ j < k
  OBVIOUS
<1>8. CASE t[1].when
  BY <1>2, <1>3, <1>6, <1>7, <1>8 DEF Due
<1>9. CASE ~ t[1].when /\ t[2].when
  BY <1>2, <1>3, <1>6, <1>7, <1>9 DEF Due
<1>10. CASE ~ t[1].when /\ ~ t[2].when /\ t[3].when
  BY <1>2, <1>3, <1>6, <1>7, <1>10 DEF Due
<1>11. CASE ~ t[1].when /\ ~ t[2].when /\ ~ t[3].when /\ t[4].when
  BY <1>2, <1>3, <1>6, <1>7, <1>11 DEF Due
<1>12. CASE ~ t[1].when /\ ~ t[2].when /\ ~ t[3].when /\ ~ t[4].when
  BY <1>2, <1>3, <1>6, <1>7, <1>12 DEF Due
<1> QED
  BY <1>8, <1>9, <1>10, <1>11, <1>12

-----------------------------------------------------------------------------
(* The loop.                                                               *)

\* A plan of the first n hours, from the plans of fewer.
Rounds(context, n, f) ==
  [h \in 0 .. n |-> IF h = 0 THEN << >> ELSE Enter(f[h - 1], h - 1, Evaluate(context, h - 1))]

\* The recursive definition defines something.
LEMMA RoundsExist ==
  ASSUME NEW context
  PROVE  \A n \in Nat : \E f : f = Rounds(context, n, f)
<1> DEFINE S == {n \in Nat : ~ \E f : f = Rounds(context, n, f)}
<1> SUFFICES ASSUME S # {} PROVE FALSE
  OBVIOUS
<1>1. S \in SUBSET Nat
  OBVIOUS
<1>2. PICK n \in S : \A m \in S : n <= m
  <2> HIDE DEF S
  <2> QED
    BY <1>1, Smallest
<1>3. n # 0
  <2> DEFINE f == [h \in 0 .. 0 |-> << >>]
  <2>1. f = Rounds(context, 0, f)
    BY DEF Rounds
  <2> QED
    BY <2>1
<1>4. n - 1 \in Nat /\ ~ (n <= n - 1)
  BY <1>3
<1>5. PICK f : f = Rounds(context, n - 1, f)
  BY <1>2, <1>4
<1> DEFINE g == [h \in 0 .. n |-> IF h = n THEN Enter(f[h - 1], h - 1, Evaluate(context, h - 1))
                                  ELSE f[h]]
<1>6. \A h \in 0 .. n - 1 :
        f[h] = IF h = 0 THEN << >> ELSE Enter(f[h - 1], h - 1, Evaluate(context, h - 1))
  BY <1>5 DEF Rounds
<1>7. \A h \in 0 .. n : h # 0 => h - 1 \in 0 .. n /\ h - 1 # n
  OBVIOUS
<1>8. \A h \in 0 .. n : h # 0 => g[h - 1] = f[h - 1]
  BY <1>7
<1>9. \A h \in 0 .. n : h # n => h \in 0 .. n - 1
  OBVIOUS
<1>10. \A h \in 0 .. n :
         g[h] = IF h = 0 THEN << >> ELSE Enter(g[h - 1], h - 1, Evaluate(context, h - 1))
  BY <1>3, <1>6, <1>8, <1>9
<1>11. g = Rounds(context, n, g)
  BY <1>10 DEF Rounds
<1> QED
  BY <1>11

\* What a plan of the first n hours is, to be good enough to go on with.
Entries(n) == [hour : 0 .. n - 1, rule : RuleNames]

FollowsUpTo(plan, context, n) ==
  /\ plan \in Seq(Entries(n))
  /\ Len(plan) \in Nat \ {0}
  /\ plan[Len(plan)].rule = Due(context, n - 1)
  /\ \A h \in 0 .. n - 1 :
       \E i \in 1 .. Len(plan) :
         /\ plan[i].hour <= h
         /\ i < Len(plan) => plan[i + 1].hour > h
         /\ plan[i].rule = Due(context, h)
  /\ \A i \in 1 .. Len(plan) - 1 :
       plan[i].hour < plan[i + 1].hour /\ plan[i].rule # plan[i + 1].rule

\* The first hour is entered whatever governs it.
LEMMA FirstRound ==
  ASSUME NEW context
  PROVE  FollowsUpTo(Enter(<< >>, 0, Due(context, 0)), context, 1)
<1> DEFINE entry == [hour |-> 0, rule |-> Due(context, 0)]
<1>1. Enter(<< >>, 0, Due(context, 0)) = <<entry>>
  BY DEF Enter, Governs
<1>2. Due(context, 0) \in RuleNames
  BY DueNames
<1>3. <<entry>> \in Seq(Entries(1))
  <2>1. entry \in Entries(1)
    BY <1>2 DEF Entries
  <2> QED
    BY <2>1
<1>4. Len(<<entry>>) = 1 /\ <<entry>>[1] = entry
  OBVIOUS
<1>5. 0 .. 1 - 1 = {0} /\ 1 .. 1 - 1 = {} /\ 1 \in 1 .. 1
  OBVIOUS
<1>6. entry.hour = 0 /\ entry.rule = Due(context, 0)
  OBVIOUS
<1>7. \A h \in 0 .. 1 - 1 : h = 0 /\ 0 <= h
  OBVIOUS
<1> HIDE DEF entry
<1> DEFINE plan == <<entry>>
<1>8. /\ plan \in Seq(Entries(1)) /\ Len(plan) = 1 /\ plan[1] = entry
  BY <1>3, <1>4
<1> HIDE DEF plan
<1>9. FollowsUpTo(plan, context, 1)
  BY <1>5, <1>6, <1>7, <1>8 DEF FollowsUpTo
<1> QED
  BY <1>1, <1>9 DEF plan

\* An hour is entered when its rule is not the one that governs already.
LEMMA NextRound ==
  ASSUME NEW context, NEW n \in Nat \ {0}, NEW plan, FollowsUpTo(plan, context, n)
  PROVE  FollowsUpTo(Enter(plan, n, Due(context, n)), context, n + 1)
<1> DEFINE entry == [hour |-> n, rule |-> Due(context, n)]
           len == Len(plan)
           new == Enter(plan, n, Due(context, n))
<1>1. /\ len \in Nat \ {0} /\ plan \in Seq(Entries(n))
      /\ DOMAIN plan = 1 .. len
      /\ \A i \in 1 .. len : plan[i] \in Entries(n)
  <2>1. len \in Nat \ {0} /\ plan \in Seq(Entries(n))
    BY DEF FollowsUpTo
  <2> QED
    BY <2>1, LenProperties, ElementOfSeq
<1>2. Due(context, n) \in RuleNames
  BY DueNames
<1>3. \A h \in 0 .. n : h = n \/ h \in 0 .. n - 1
  OBVIOUS
<1>4. 0 .. (n + 1) - 1 = 0 .. n /\ (n + 1) - 1 = n
  OBVIOUS
<1>5. \A i \in 1 .. len : plan[i] \in Entries(n + 1) /\ plan[i].hour \in Int /\ plan[i].hour < n
  BY <1>1 DEF Entries
<1>8. plan \in Seq(Entries(n + 1))
  BY <1>1, <1>5
<1>9. plan # << >>
  BY <1>1
<1>6. CASE plan[len].rule = Due(context, n)
  <2>1. new = plan
    BY <1>1, <1>6, <1>9 DEF Enter, Governs
  <2>3. ASSUME NEW h \in 0 .. n
        PROVE  \E i \in 1 .. len : /\ plan[i].hour <= h
                                   /\ i < len => plan[i + 1].hour > h
                                   /\ plan[i].rule = Due(context, h)
    <3>1. CASE h \in 0 .. n - 1
      BY <3>1 DEF FollowsUpTo
    <3>2. CASE h = n
      <4>1. len \in 1 .. len /\ plan[len].hour <= n
        BY <1>1, <1>5
      <4> QED
        BY <1>6, <3>2, <4>1
    <3> QED
      BY <1>3, <3>1, <3>2
  <2> QED
    BY <1>1, <1>4, <1>6, <1>8, <2>1, <2>3 DEF FollowsUpTo
<1>7. CASE plan[len].rule # Due(context, n)
  <2>1. new = Append(plan, entry)
    BY <1>7 DEF Enter, Governs
  <2> HIDE DEF new
  <2>2. entry \in Entries(n + 1) /\ entry.hour = n /\ entry.rule = Due(context, n)
    BY <1>2 DEF Entries
  <2> HIDE DEF entry
  <2>4. /\ new \in Seq(Entries(n + 1))
        /\ Len(new) = len + 1
        /\ new[len + 1] = entry
        /\ \A i \in 1 .. len : new[i] = plan[i]
    BY <1>1, <1>8, <2>1, <2>2, AppendProperties
  <2>5. ASSUME NEW h \in 0 .. n
        PROVE  \E i \in 1 .. len + 1 : /\ new[i].hour <= h
                                       /\ i < len + 1 => new[i + 1].hour > h
                                       /\ new[i].rule = Due(context, h)
    <3>1. CASE h \in 0 .. n - 1
      <4>1. PICK i \in 1 .. len : /\ plan[i].hour <= h
                                  /\ i < len => plan[i + 1].hour > h
                                  /\ plan[i].rule = Due(context, h)
        BY <3>1 DEF FollowsUpTo
      <4>2. CASE i < len
        <5>1. i \in 1 .. len + 1 /\ i + 1 \in 1 .. len
          BY <1>1, <4>2
        <5> QED
          BY <2>4, <4>1, <4>2, <5>1
      <4>3. CASE i = len
        <5>1. i \in 1 .. len + 1 /\ new[i + 1].hour = n /\ n > h
          BY <1>1, <2>2, <2>4, <3>1, <4>3
        <5>2. new[i] = plan[i]
          BY <2>4
        <5>3. new[i].hour <= h /\ new[i].rule = Due(context, h)
          BY <4>1, <5>2
        <5>4. new[i + 1].hour > h
          BY <5>1
        <5> QED
          BY <5>1, <5>3, <5>4
      <4>4. len \in Nat
        BY <1>1
      <4>5. i < len \/ i = len
        BY <4>4
      <4> QED
        BY <4>2, <4>3, <4>5
    <3>2. CASE h = n
      <4>1. len + 1 \in 1 .. len + 1 /\ ~ (len + 1 < len + 1)
        BY <1>1
      <4>2. new[len + 1].hour = n /\ new[len + 1].rule = Due(context, n) /\ n <= n
        BY <2>2, <2>4
      <4> QED
        BY <3>2, <4>1, <4>2
    <3> QED
      BY <1>3, <3>1, <3>2
  <2>6. ASSUME NEW i \in 1 .. len
        PROVE  new[i].hour < new[i + 1].hour /\ new[i].rule # new[i + 1].rule
    <3>1. CASE i = len
      <4>1. new[i] = plan[len] /\ new[i + 1] = entry /\ plan[len].hour < n
        <5>1. len \in 1 .. len
          BY <1>1
        <5> QED
          BY <1>5, <2>4, <3>1, <5>1
      <4>2. new[i].hour < new[i + 1].hour
        BY <2>2, <4>1
      <4>3. new[i].rule # new[i + 1].rule
        BY <1>7, <2>2, <4>1
      <4> QED
        BY <4>2, <4>3
    <3>2. CASE i # len
      <4>1. i \in 1 .. len - 1 /\ i + 1 \in 1 .. len
        <5>1. len \in Nat
          BY <1>1
        <5> HIDE DEF len
        <5> QED
          BY <3>2, <5>1
      <4> QED
        BY <2>4, <4>1 DEF FollowsUpTo
    <3> QED
      BY <3>1, <3>2
  <2>7. (len + 1) - 1 = len /\ len + 1 \in Nat \ {0}
    BY <1>1
  <2>8. new[Len(new)].rule = Due(context, n)
    BY <2>2, <2>4
  <2> QED
    BY <1>4, <2>4, <2>5, <2>6, <2>7, <2>8 DEF FollowsUpTo, new
<1> QED
  BY <1>6, <1>7

\* The schedule `plan` prints is the table of rules read hour by hour (rules.py,
\* plan_day), for every context it may be asked about.
THEOREM PlanDayFollows ==
  ASSUME NEW context \in Context
  PROVE  FollowsRules(PlanDay(context), context)
<1> DEFINE f == CHOOSE f : f = Rounds(context, 24, f)
<1>1. PlanDay(context) = f[24]
  BY DEF PlanDay, Rounds
<1>2. f = Rounds(context, 24, f)
  BY RoundsExist
<1> HIDE DEF f
<1>3. f[0] = << >> /\ \A h \in 1 .. 24 : f[h] = Enter(f[h - 1], h - 1, Due(context, h - 1))
  <2>1. \A h \in 0 .. 24 :
          f[h] = IF h = 0 THEN << >> ELSE Enter(f[h - 1], h - 1, Evaluate(context, h - 1))
    BY <1>2 DEF Rounds
  <2> QED
    BY <2>1, EvaluateDue
<1>4. \A n \in 1 .. 24 : FollowsUpTo(f[n], context, n)
  <2> DEFINE S == {n \in 1 .. 24 : ~ FollowsUpTo(f[n], context, n)}
  <2> SUFFICES ASSUME S # {} PROVE FALSE
    OBVIOUS
  <2>1. S \in SUBSET Nat
    OBVIOUS
  <2>2. PICK n \in S : \A m \in S : n <= m
    <3> HIDE DEF S
    <3> QED
      BY <2>1, Smallest
  <2>3. n # 1
    <3>1. 1 \in 1 .. 24 /\ 1 - 1 = 0
      OBVIOUS
    <3>2. f[1] = Enter(f[0], 0, Due(context, 0))
      BY <1>3, <3>1
    <3>3. f[1] = Enter(<< >>, 0, Due(context, 0))
      BY <1>3, <3>2
    <3> QED
      BY <3>3, FirstRound
  <2>4. n - 1 \in 1 .. 24 /\ n - 1 \in Nat \ {0} /\ ~ (n <= n - 1) /\ (n - 1) + 1 = n
    BY <2>3
  <2>5. FollowsUpTo(f[n - 1], context, n - 1)
    BY <2>2, <2>4
  <2>6. FollowsUpTo(Enter(f[n - 1], n - 1, Due(context, n - 1)), context, (n - 1) + 1)
    BY <2>4, <2>5, NextRound
  <2>7. FollowsUpTo(f[n], context, n)
    BY <1>3, <2>4, <2>6
  <2> QED
    BY <2>7
<1>5. FollowsUpTo(f[24], context, 24)
  BY <1>4
<1>6. DOMAIN f[24] = 1 .. Len(f[24])
  <2>1. f[24] \in Seq(Entries(24))
    BY <1>5 DEF FollowsUpTo
  <2> QED
    BY <2>1, LenProperties
<1> DEFINE plan == f[24]
<1>7. FollowsUpTo(plan, context, 24) /\ DOMAIN plan = 1 .. Len(plan)
  BY <1>5, <1>6
<1>8. 24 - 1 = 23
  OBVIOUS
<1> HIDE DEF plan
<1>9. FollowsRules(plan, context)
  BY <1>7, <1>8 DEF FollowsUpTo, FollowsRules
<1> QED
  BY <1>1, <1>9 DEF plan

=============================================================================
