--------------------------- MODULE BatteryPolicy ---------------------------
(***************************************************************************)
(* policy.py as the CLI drives it: every `set-mode` and `set-reserve` is a *)
(* process of its own, with its own adapter and metrics registry, that     *)
(* shares the gateway and the SQLite ledger with the other processes.  A   *)
(* call runs to its next await in one action: gate and window, budget      *)
(* query, read of the battery, write, audit.  Each await may raise, the    *)
(* process may be killed at each of them, and other processes and the      *)
(* clock move in between.  The gateway executes a write at some moment     *)
(* before its answer arrives, or after nobody waits for one any more.      *)
(***************************************************************************)
EXTENDS LocalDay, AuditLedger

CONSTANTS
  Procs,                \* CLI invocations that may run at the same time
  MaxModeChangesPerDay, \* BatteryPolicy.MAX_MODE_CHANGES_PER_DAY
  Requests,             \* command lines the household runs
  AppModes,             \* modes the homeowner may choose in Enphase's own app
  MaxCalls              \* bound on the number of invocations

Modes == {"self_consumption", "savings", "full_backup"}

\* set-mode with or without --confirm; set-reserve, its fraction in thousandths.
ModeRequests    == [action : {"set_mode"}, mode : Modes, confirm : BOOLEAN]
ReserveRequests == [action : {"set_reserve"}, pct : 0 .. 1000]
NoRequest       == [action |-> "none"]

ASSUME PolicyAssumption ==
  /\ IsFiniteSet(Procs) /\ Procs # {}
  /\ MaxModeChangesPerDay \in Nat \ {0}
  /\ Requests \subseteq ModeRequests \cup ReserveRequests
  /\ AppModes \subseteq Modes
  /\ MaxCalls \in Nat

VARIABLES
  now,      \* the clock all processes of the host share
  mode,     \* the gateway's storage mode
  reserve,  \* the gateway's reserve, in percent
  counted,  \* enphase_writes_total, summed over all processes
  begun,    \* invocations so far
  pc,       \* the await each process is at
  request,  \* what its command line asked for
  since,    \* start of the window its budget query uses
  outcome,  \* the outcome it is about to audit
  stamp,    \* the ts of the row it is about to append
  late,     \* for each request, the writes of it on the wire that were given up
  \* History, for the properties only, all by local date:
  changed,  \* mode writes the gateway executed
  owed,     \* processes whose write was executed and may still be recorded
  lost      \* executed mode writes that will never be a "success" row

gateway == <<mode, reserve>>
ledger  == <<rows, lastId>>
history == <<changed, owed, lost>>
process == <<pc, request, since, outcome, stamp>>
vars == <<now, gateway, ledger, counted, begun, process, late, history>>

Places == {"idle", "count", "read", "write", "answer", "record"}

\* RESERVE_BOUNDS, in thousandths.
ReserveBounds == 100 .. 800

TypeOK ==
  /\ LedgerTypeOK
  /\ now \in Times
  /\ mode \in Modes
  /\ reserve \in 0 .. 100
  /\ counted \in [Actions \X Outcomes -> Nat]
  /\ begun \in 0 .. MaxCalls
  /\ pc \in [Procs -> Places]
  /\ request \in [Procs -> Requests \cup {NoRequest}]
  /\ since \in [Procs -> Int]
  /\ outcome \in [Procs -> Outcomes \cup {"none"}]
  /\ stamp \in [Procs -> Times]
  /\ late \in [Requests -> Nat]
  /\ changed \in [Dates -> Nat]
  /\ owed \in [Dates -> SUBSET Procs]
  /\ lost \in [Dates -> Nat]

Init ==
  /\ LedgerInit
  /\ now = 0
  /\ mode \in Modes
  /\ reserve = 20
  /\ counted = [key \in Actions \X Outcomes |-> 0]
  /\ begun = 0
  /\ pc = [p \in Procs |-> "idle"]
  /\ request = [p \in Procs |-> NoRequest]
  /\ since = [p \in Procs |-> 0]
  /\ outcome = [p \in Procs |-> "none"]
  /\ stamp = [p \in Procs |-> 0]
  /\ late = [r \in Requests |-> 0]
  /\ changed = [d \in Dates |-> 0]
  /\ owed = [d \in Dates |-> {}]
  /\ lost = [d \in Dates |-> 0]

-----------------------------------------------------------------------------
(* What the handlers share.                                                *)

GoTo(p, place) == pc' = [pc EXCEPT ![p] = place]

\* Mutant: a refusal is audited in the ledger but not counted.
ConcludeUncounted(p, action, result) ==
  /\ GoTo(p, "record")
  /\ outcome' = [outcome EXCEPT ![p] = result]
  /\ stamp' = [stamp EXCEPT ![p] = now]
  /\ counted' = IF result = "rejected" THEN counted
                ELSE [counted EXCEPT ![<<action, result>>] = @ + 1]

\* The except clauses and _audit's first half: the counter is bumped in the
\* step that learns the outcome, and so is the row's ts, before the ledger is
\* awaited.
Conclude(p, action, result) ==
  /\ GoTo(p, "record")
  /\ outcome' = [outcome EXCEPT ![p] = result]
  /\ stamp' = [stamp EXCEPT ![p] = now]
  /\ counted' = [counted EXCEPT ![<<action, result>>] = @ + 1]

Proceed(p, place) == GoTo(p, place) /\ UNCHANGED <<outcome, stamp, counted>>

\* Nobody will record the write of p: one the gateway has executed is lost, one
\* on the wire may still be executed.
Abandon(p) ==
  /\ late' = IF pc[p] = "write" THEN [late EXCEPT ![request[p]] = @ + 1] ELSE late
  /\ owed' = [d \in Dates |-> owed[d] \ {p}]
  /\ lost' = [d \in Dates |-> IF p \in owed[d] THEN lost[d] + 1 ELSE lost[d]]
  /\ UNCHANGED changed

\* The process ends, its local variables with it.
Exit(p) ==
  /\ GoTo(p, "idle")
  /\ request' = [request EXCEPT ![p] = NoRequest]
  /\ since' = [since EXCEPT ![p] = 0]
  /\ outcome' = [outcome EXCEPT ![p] = "none"]
  /\ stamp' = [stamp EXCEPT ![p] = 0]

\* ... without having recorded the mode change it made, if it made one.
ExitUnrecorded(p) == Exit(p) /\ Abandon(p) /\ UNCHANGED ledger

-----------------------------------------------------------------------------
(* set_battery_mode and set_reserve_soc.                                   *)

\* Mutant: the human-in-the-loop gate dropped.
AlwaysConfirmed(r) == TRUE
Confirmed(r) == r.mode = "full_backup" => r.confirm

\* Mutant: the bounds checked on the percentage before it is rounded.
TruncatedWithinBounds(r) == r.pct \div 10 \in 10 .. 80
WithinBounds(r) == r.pct \in ReserveBounds

\* _mode_changes_today takes its window from the clock before it queries.
BeginSetMode(p, r) ==
  /\ r.action = "set_mode"
  /\ IF Confirmed(r) THEN Proceed(p, "count")
                     ELSE Conclude(p, "set_mode", "rejected")
  /\ since' = [since EXCEPT ![p] = IF Confirmed(r) THEN StartOfLocalDay(now) ELSE 0]

BeginSetReserve(p, r) ==
  /\ r.action = "set_reserve"
  /\ IF WithinBounds(r) THEN Proceed(p, "read")
                        ELSE Conclude(p, "set_reserve", "rejected")
  /\ UNCHANGED since

Begin(p) ==
  /\ pc[p] = "idle"
  /\ begun < MaxCalls
  /\ begun' = begun + 1
  /\ \E r \in Requests :
       /\ request' = [request EXCEPT ![p] = r]
       /\ BeginSetMode(p, r) \/ BeginSetReserve(p, r)
  /\ UNCHANGED <<now, gateway, ledger, late, history>>

\* Mutant: `>` in place of `>=`.
BudgetLeftOffByOne(p) ==
  CountSince("set_mode", "success", since[p]) <= MaxModeChangesPerDay
BudgetLeft(p) ==
  CountSince("set_mode", "success", since[p]) < MaxModeChangesPerDay

\* The bulkhead's query; a ledger that cannot be read refuses the write.
Count(p) ==
  /\ pc[p] = "count"
  /\ \/ Conclude(p, "set_mode", "error")
     \/ ~ BudgetLeft(p) /\ Conclude(p, "set_mode", "rejected")
     \/ BudgetLeft(p) /\ Proceed(p, "read")
  /\ since' = [since EXCEPT ![p] = 0]
  /\ UNCHANGED <<now, gateway, ledger, begun, request, late, history>>

\* Mutant: `wrote` ignored, a redundant call audited as a change.
SuccessEitherWay(wrote) == "success"
OutcomeOf(wrote) == IF wrote THEN "success" ELSE "noop"

\* _require_fresh_state: a process this young has no cache to fall back on, so
\* it learns the gateway's own answer or raises.
Read(p) ==
  /\ pc[p] = "read"
  /\ LET r == request[p]
         same == r.action = "set_mode" /\ r.mode = mode
     IN \/ Conclude(p, r.action, "error")
        \/ same /\ Conclude(p, r.action, OutcomeOf(FALSE))
        \/ ~ same /\ Proceed(p, "write")
  /\ UNCHANGED <<now, gateway, ledger, begun, request, since, late, history>>

\* Mutant: the fraction reaches the gateway without its unit translation.
UntranslatedPercent(pct) == {pct}
\* round(pct * 100): the nearest integer, either one of two at a tie.
RoundedPercent(pct) == {q \in 0 .. 100 : 10 * q - pct \in -5 .. 5}

Apply(r) ==
  \/ r.action = "set_mode" /\ mode' = r.mode /\ UNCHANGED reserve
  \/ /\ r.action = "set_reserve"
     /\ \E q \in RoundedPercent(r.pct) : reserve' = q
     /\ UNCHANGED mode

\* The gateway executes the write p still waits for.
Execute(p) ==
  /\ pc[p] = "write"
  /\ Apply(request[p])
  /\ GoTo(p, "answer")
  /\ IF request[p].action = "set_mode"
     THEN LET d == LocalDate(now)
          IN /\ changed' = [changed EXCEPT ![d] = @ + 1]
             /\ owed' = [owed EXCEPT ![d] = @ \cup {p}]
     ELSE UNCHANGED <<changed, owed>>
  /\ UNCHANGED <<now, ledger, counted, begun, request, since, outcome, stamp, late, lost>>

\* ... or one that was given up: its answer reaches nobody.
ExecuteLate(r) ==
  /\ late[r] > 0
  /\ late' = [late EXCEPT ![r] = @ - 1]
  /\ Apply(r)
  /\ IF r.action = "set_mode"
     THEN LET d == LocalDate(now)
          IN /\ changed' = [changed EXCEPT ![d] = @ + 1]
             /\ lost' = [lost EXCEPT ![d] = @ + 1]
     ELSE UNCHANGED <<changed, lost>>
  /\ UNCHANGED <<now, ledger, counted, begun, process, owed>>

\* set_storage_mode / set_reserve_soc comes back; or raises, whatever became of
\* the request: refused, unreachable, or its answer lost or late.
Answer(p) ==
  /\ pc[p] \in {"write", "answer"}
  /\ LET r == request[p]
     IN \/ /\ pc[p] = "answer" /\ Conclude(p, r.action, OutcomeOf(TRUE))
           /\ UNCHANGED <<late, history>>
        \/ Conclude(p, r.action, "error") /\ Abandon(p)
  /\ UNCHANGED <<now, gateway, ledger, begun, request, since>>

\* _audit's second half: append the row, or log that it could not be appended.
Audit(p) ==
  /\ pc[p] = "record"
  /\ \/ /\ Record(stamp[p], request[p].action, outcome[p])
        /\ Exit(p)
        /\ owed' = [d \in Dates |-> owed[d] \ {p}]
        /\ UNCHANGED <<late, changed, lost>>
     \/ ExitUnrecorded(p)
  /\ UNCHANGED <<now, gateway, counted, begun>>

\* Ctrl-C, SIGKILL or an OOM kill: no except clause of the policy catches it.
Kill(p) ==
  /\ pc[p] # "idle"
  /\ ExitUnrecorded(p)
  /\ UNCHANGED <<now, gateway, counted, begun>>

Tick ==
  /\ now < MaxTime
  /\ now' = now + 1
  /\ UNCHANGED <<gateway, ledger, counted, begun, process, late, history>>

\* The homeowner uses Enphase's app, past any policy of ours.
AppChange ==
  /\ mode' \in AppModes \ {mode}
  /\ UNCHANGED <<now, reserve, ledger, counted, begun, process, late, history>>

Next ==
  \/ \E p \in Procs :
       Begin(p) \/ Count(p) \/ Read(p) \/ Execute(p) \/ Answer(p) \/ Audit(p) \/ Kill(p)
  \/ \E r \in Requests : ExecuteLate(r)
  \/ Tick
  \/ AppChange

Spec == Init /\ [][Next]_vars

-----------------------------------------------------------------------------
(* What the guardrails promise.                                            *)

\* Per-day bulkhead, with everything the code does to it accounted for: on no
\* local day does the gateway execute more mode writes than the budget, plus one
\* for each further process that can pass the query before the first records,
\* plus those whose success was never recorded.
BulkheadBound ==
  \A d \in Dates :
    changed[d] <= MaxModeChangesPerDay + (Cardinality(Procs) - 1) + lost[d]

\* README: "Max 4 mode changes per day".  Writes whose record was lost are
\* granted; the query must still hold back everybody else.
DailyLimit ==
  \A d \in Dates : changed[d] <= MaxModeChangesPerDay + lost[d]

SuccessRows == {r \in rows : r.action = "set_mode" /\ r.outcome = "success"}
ByDate(d) == {r \in SuccessRows : LocalDate(r.ts) = d}

\* What a count by date counts: the first, the second, ... of each date.
Events(count) == UNION {{d} \X (1 .. count[d]) : d \in Dates}
Total(count) == Cardinality(Events(count))

OwedCalls == {p \in Procs : \E d \in Dates : p \in owed[d]}

\* The ledger as a record of what happened to the battery: "success" rows, the
\* successes still on their way to it and the lost ones are exactly the mode
\* writes the gateway executed, so a no-op, a refusal or an error never spends
\* budget and no change spends it twice.
EveryChangeAccounted ==
  Total(changed) = Cardinality(SuccessRows) + Cardinality(OwedCalls) + Total(lost)

\* The counter is the first of the two sinks: no row exists for an attempt that
\* was not counted, whatever is killed and whichever sink fails.
RowsOf(a, o) == {r \in rows : r.action = a /\ r.outcome = o}

CounterLeadsLedger ==
  \A a \in Actions, o \in Outcomes : Cardinality(RowsOf(a, o)) <= counted[<<a, o>>]

\* The agent itself never sends the battery into FULL_BACKUP without a
\* confirmed call: not on a retry, not on another process's confirmation, and not
\* by a write that outlives its call.
ConfirmedBackup == [action |-> "set_mode", mode |-> "full_backup", confirm |-> TRUE]

BackupIsConfirmed ==
  mode' = "full_backup" /\ mode # "full_backup" =>
    \/ "full_backup" \in AppModes
    \/ \E p \in Procs :
         pc[p] = "write" /\ pc'[p] = "answer" /\ request[p] = ConfirmedBackup
    \/ ConfirmedBackup \in Requests /\ late'[ConfirmedBackup] < late[ConfirmedBackup]

HumanInTheLoop == [][BackupIsConfirmed]_vars

\* The reserve the gateway holds stays between the backup floor and the
\* self-consumption ceiling, after the rounding to whole percents too.
ReserveWithinBounds == reserve \in 10 .. 80

-----------------------------------------------------------------------------
(* Why they hold, as invariants that every step preserves.                 *)

\* A request that may still reach the gateway has passed its guardrail.
Guarded(r) ==
  /\ r.action = "set_mode" => Confirmed(r)
  /\ r.action = "set_reserve" => WithinBounds(r)

GatesPassed ==
  /\ \A p \in Procs : pc[p] \in {"count", "read", "write"} => Guarded(request[p])
  /\ \A r \in Requests : late[r] > 0 => Guarded(r)

\* Attempts that are counted and have not been recorded.
Awaiting(a, o) ==
  {p \in Procs : pc[p] = "record" /\ request[p].action = a /\ outcome[p] = o}

CounterCovers ==
  \A a \in Actions, o \in Outcomes :
    Cardinality(RowsOf(a, o)) + Cardinality(Awaiting(a, o)) <= counted[<<a, o>>]

CounterInvariant ==
  /\ \A p \in Procs : pc[p] = "count" => request[p].action = "set_mode"
  /\ \A r \in rows : r.id <= lastId
  /\ CounterCovers

\* Calls whose change is made and whose row is to come.
Settling ==
  {p \in Procs : /\ request[p].action = "set_mode"
                 /\ \/ pc[p] = "answer"
                    \/ pc[p] = "record" /\ outcome[p] = "success"}

\* Exactly those are owed a row, each for one change.
OwedOnce ==
  /\ OwedCalls = Settling
  /\ \A d, e \in Dates : owed[d] \cap owed[e] # {} => d = e

AccountInvariant ==
  /\ \A r \in rows : r.id <= lastId
  /\ OwedOnce
  /\ EveryChangeAccounted

Today == LocalDate(now)

\* Calls that passed the query and may still put a "success" row into the ledger.
Spenders ==
  {p \in Procs : /\ request[p].action = "set_mode"
                 /\ \/ pc[p] \in {"read", "write", "answer"}
                    \/ pc[p] = "record" /\ outcome[p] = "success"}

CallsOK ==
  \A p \in Procs :
    /\ pc[p] # "idle" => request[p] \in Requests
    /\ pc[p] = "count" => /\ request[p].action = "set_mode"
                          /\ \E t \in 0 .. now : since[p] = StartOfLocalDay(t)
    /\ pc[p] = "record" => outcome[p] \in Outcomes
    /\ stamp[p] <= now

RowsPast == \A r \in rows : r.id <= lastId /\ r.ts <= now

\* The row that settles a change bears its date, or a later one.
OwedBySpenders ==
  \A d \in Dates : \A p \in owed[d] :
    /\ p \in Spenders
    /\ d <= Today
    /\ \/ pc[p] = "answer"
       \/ pc[p] = "record" /\ outcome[p] = "success" /\ d <= LocalDate(stamp[p])

NothingAhead == \A d \in Dates : d > Today => changed[d] = 0

\* Today's rows and the calls on their way to one share the budget; all but one
\* of those calls may have passed the query on the same count.
BudgetShared ==
  Cardinality(ByDate(Today)) + Cardinality(Spenders)
    <= MaxModeChangesPerDay + (Cardinality(Procs) - 1)

\* Today's changes are today's rows, the rows to come, and the lost ones.
TodaySettled ==
  changed[Today] <= Cardinality(ByDate(Today)) + Cardinality(owed[Today]) + lost[Today]

\* BulkheadBound is inductive together with what it rests on: who may still spend,
\* which rows today's query sees, and what today's changes turn into.
BulkheadInvariant ==
  /\ CallsOK
  /\ RowsPast
  /\ OwedBySpenders
  /\ NothingAhead
  /\ BudgetShared
  /\ TodaySettled
  /\ BulkheadBound

=============================================================================
