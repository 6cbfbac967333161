------------------------------- MODULE Rules -------------------------------
(***************************************************************************)
(* rules.py: a table of rules of which the first that matches governs, and *)
(* the day's schedule, one entry for each hour at which another rule takes *)
(* over.  The context `plan` hands in is a state of charge, in percent,    *)
(* and a storm forecast; the tariff windows keep their defaults.           *)
(***************************************************************************)
EXTENDS Integers, Sequences

DefaultPeakHours == 16 .. 20
DefaultOffPeakHours == 0 .. 5
LowSocFloor == 15

\* RULES, with each `when` evaluated in its context.
RULES(context, hour) ==
  << [name |-> "storm-prep",               when |-> context.storm],
     [name |-> "low-soc-guard",            when |-> context.soc < LowSocFloor],
     [name |-> "peak-discharge",           when |-> hour \in DefaultPeakHours],
     [name |-> "offpeak-recharge",         when |-> hour \in DefaultOffPeakHours],
     [name |-> "default-self-consumption", when |-> TRUE] >>

\* evaluate(): first match wins.
Evaluate(context, hour) ==
  LET table == RULES(context, hour)
      first == CHOOSE i \in DOMAIN table :
                 table[i].when /\ \A j \in 1 .. i - 1 : ~ table[j].when
  IN table[first].name

\* Mutant: a rule that is in the plan already is not entered again.
PlannedBefore(plan, rule) == \E i \in DOMAIN plan : plan[i].rule = rule
Governs(plan, rule) == plan # << >> /\ plan[Len(plan)].rule = rule

\* plan_day(): the loop over the hours, and one round of it.
Enter(plan, hour, rule) ==
  IF Governs(plan, rule) THEN plan ELSE Append(plan, [hour |-> hour, rule |-> rule])

PlanDay(context) ==
  LET plan[h \in 0 .. 24] ==
        IF h = 0 THEN << >> ELSE Enter(plan[h - 1], h - 1, Evaluate(context, h - 1))
  IN plan[24]

-----------------------------------------------------------------------------
(* What a reader of the printed table may conclude from it.                *)

\* The battery's needs come before the tariff, and a storm before either.
Due(context, hour) ==
  IF context.storm THEN "storm-prep"
  ELSE IF context.soc < LowSocFloor THEN "low-soc-guard"
  ELSE IF hour \in DefaultPeakHours THEN "peak-discharge"
  ELSE IF hour \in DefaultOffPeakHours THEN "offpeak-recharge"
  ELSE "default-self-consumption"

\* At every hour of the day exactly one entry is the latest, and it names the rule
\* due; every entry after the first is a change.
FollowsRules(plan, context) ==
  /\ \A h \in 0 .. 23 :
       \E i \in DOMAIN plan :
         /\ plan[i].hour <= h
         /\ i < Len(plan) => plan[i + 1].hour > h
         /\ plan[i].rule = Due(context, h)
  /\ \A i \in 1 .. Len(plan) - 1 :
       plan[i].hour < plan[i + 1].hour /\ plan[i].rule # plan[i + 1].rule

=============================================================================
