# enphase-agent in TLA+

TLA+ models of `enphase-agent`: the guardrails, the gateway adapter, the audit
ledger and the commands that write it, the rules, the metrics daemon and what it
exposes. They are model-checked with TLC on small instances, and every safety
property the passing runs check is proved with TLAPS for every size, the two
refinements included. Where a run shows that a documented claim fails, a theorem
says when it holds. Liveness is model-checked.

    tlc -workers 2 -config policy.cfg MCBatteryPolicy     # one line per run, see below
    tlapm BatteryPolicyProofs.tla                         # and AccountProofs, CliProofs,
                                                          # RulesProofs, AdapterProofs,
                                                          # DaemonProofs, ExpositionProofs

`PROJECT.json` maps every definition that stands for code to the lines it
stands for, and lists runs, mutants, hazards, findings and theorems.

## 1. The system

The agent controls a home battery through an Enphase IQ Gateway. Two kinds of
process share one SQLite file and one gateway:

* **CLI commands** (`set-mode`, `set-reserve`, `status`, `ledger`, `plan`), one
  process per command, each with its own adapter, policy and metrics registry.
  The first two are the only writers.
* **the daemon**, one long-running process that reads the gateway in a loop and
  republishes the ledger's last 24 hours to Prometheus, from an HTTP server in a
  thread of its own.

| component | state it keeps | operations | talks to | hard behaviour |
|---|---|---|---|---|
| `policy.py` `BatteryPolicy` | none across processes; a list of changes if it has no ledger | `set_battery_mode`, `set_reserve_soc`, `_mode_changes_today`, `_audit` | adapter (awaits), ledger (awaits), counter | races between processes, lost and late answers, failed records, kills, midnight, daylight saving |
| `ledger.py` `Ledger` | table `writes`, one connection and one thread per process | `open`, `record`, `count_since`, `counts_by_label_last_24h`, `recent`, `close` | SQLite in WAL mode | one write lock, inserts without their commit, a thread that outlives its coroutine |
| `adapter.py` `EnphaseAdapter` | `_authenticated`, `_cache`, limiter, breaker | `get_state`, `set_battery_mode`, `set_reserve_soc`, `close` | gateway and cloud login | outages at every await, 401s mid-session, stale snapshots, the breaker's rest |
| `adapter.py` `_AsyncCircuitBreaker` | `_failures`, `_opened_at` | `call_async` | the call it wraps | three states in two variables; what happens between gate and tally |
| `adapter.py` `_TokenBucket` | `_next_free` | `acquire` | the clock | the login goes past it |
| `cli.py` | its nested `async with` blocks | the subcommands, their exit statuses | ledger, adapter, policy, rules | Ctrl-C at an await, blocks left in order, commands repeated by their caller |
| `daemon.py` | stop event, and through its adapter the cache | `run_daemon`, `scrape_once`, signal handler | adapter, ledger, metrics | failing scrapes, signals at any await, restarts |
| `metrics.py` | counters and gauges | `record_write`, `publish_write_counts`, `publish_optional_state`, `LazyGauge.collect` | Prometheus scrapes them | two threads without a common lock; which gauge is absent, zero, or left at its last value |
| `rules.py` | none | `evaluate`, `plan_day` | nobody executes a plan | first match wins, neighbouring hours merge |

What makes each correct:

* policy: never more mode changes on a household's day than the budget, as far
  as concurrency and failures allow that at all; every change audited once and a
  redundant call not at all; no way around confirmation and bounds.
* ledger: rows are appended, never lost once committed, counted by the window
  that was asked for, listed newest first.
* adapter: the breaker keeps its contract and an open breaker keeps the gateway
  at rest; a write never acts on a stale snapshot, nor is one skipped on the word
  of one; a read degrades instead of failing; the session recovers by itself.
* CLI: a command that could not be audited is not reported as failed; every
  command ends and leaves no lock behind.
* daemon: what Prometheus sees is what the ledger holds; a failing gateway does
  not hide writes; SIGTERM ends the process.
* metrics: every series shows a value that was in force; what the gateway does
  not report is absent, not zero.
* rules: at each hour the plan names the rule that is due, and only changes.

## 2. The modules

| module | models | state | actions |
|---|---|---|---|
| `LocalDay` | `start_of_local_day` and the zone it runs in | none; `Offset` is the zone | operators `LocalDate`, `StartOfLocalDay` |
| `AuditLedger` | table `writes`, committed | `rows`, `lastId` | operators `Record`, `CountSince` |
| `AuditTrail` | what readers of the ledger rely on, as an abstract specification | `rows`, `lastId`, `now` | `AppendRow`, `ClockAdvances` |
| `SqliteLedger` | the connections under it: INSERT, commit, rollback, the write lock, `recent()` | `rows`, `lastId`, `open` (transactions) | operators `Insert`, `Commit`, `Rollback`, and their failures |
| `Rules` | the table, first match, the day's schedule | none | operators `Evaluate`, `PlanDay` |
| `Cli` | one-shot commands as processes over `SqliteLedger` and `Rules` | per process `pc`, `command`, `outcome`, `stamp`, `job`, `status`, `table` | one per await, see below |
| `BatteryPolicy` | `set-mode` and `set-reserve` processes over gateway and ledger | clock, gateway mode and reserve, counter, per process `pc`, `request`, `since`, `outcome`, `stamp`; writes left on the wire, `late` | `Begin`, `Count`, `Read`, `Execute`, `ExecuteLate`, `Answer`, `Audit`, `Kill`, `Tick`, `AppChange` |
| `CircuitBreaker` | `_AsyncCircuitBreaker`, its two critical sections | `failures`, `openFor` | operators `Admit`, `CountFailure`, `CountSuccess`, `CountExcluded` |
| `BreakerContract` | its docstring, as an abstract specification | closed, open, half open | `Strike`, `FailedProbe`, `Success`, `Rest`, `StartProbe` |
| `EnphaseAdapter` | the adapter under one sequential caller, composed with `CircuitBreaker` | gateway, session, cache, limiter, the await of the operation | `Begin`, `Authenticate`, `Dispatch`, `ReadReply`, `WriteReply`, `Close`, and the environment's |
| `Daemon` | `run_daemon`, its scrape, the materialized view, next to writers | loop position, stop event, cache age, gauges, ledger | `Boot`, `Loop`, `Scrape`, `Publish`, `Sleep`, `Finish`, `Signal`, `Crash`, `Attempt`, `Tick` |
| `Exposition` | the metrics between the scrape loop and the HTTP thread | `gauge`, `todo` (set() calls left), `at` and `sample` of a collection | `PublishState`, `PublishCounts`, `SetNext`, `StartCollecting`, `CollectNext`, `Respond` |
| `MCBatteryPolicy`, `MCCli`, `MCDaemon`, `MCExposition` | instances for TLC | | |
| `BatteryPolicyProofs`, `AccountProofs` | theorems about the policy: types, bulkhead, gates, counter; the account of every change, and the ledger as a trail | | |
| `RulesProofs`, `CliProofs` | theorems about the schedule; about the commands, the ledger file, and their two tables | | |
| `AdapterProofs`, `DaemonProofs`, `ExpositionProofs` | theorems about these three | | |

`BatteryPolicy` and `Daemon` extend `AuditLedger`, the ledger as its readers see
it; `Cli` extends `SqliteLedger`, the ledger as it is made, and is shown to
implement `AuditTrail`, which is `AuditLedger` with a specification. That is what
lets the two others append a row in one step. `BatteryPolicy` also extends
`LocalDay`; `EnphaseAdapter` extends `CircuitBreaker` and instantiates
`BreakerContract`.

**One await, one step.** Python code between two awaits runs without
interference from its own process, and other processes act only on the gateway
and the ledger, which are reached by awaiting. So an action runs from one await
to the next, and everything else may happen in between.

* `BatteryPolicy`: `count` is the query, `read` is `get_state`, `write` and
  `answer` the gateway call before and after the gateway has executed it,
  `record` the row. The counter is bumped and the row's ts taken in the step
  that learns the outcome, before the row is awaited, as `_audit` does.
* `Cli`: `open` is `Ledger.open()`, `adapter` the construction of the adapter
  between the two blocks, `work` the policy or `get_state`, `insert` and
  `commit` the two awaits of `record()`, `query` `recent()`, `leave` the end of
  the adapter's block, `close` that of the ledger's, `print` the printing that
  follows it. `job` is what the connection's thread still has in its queue when
  Ctrl-C has cancelled the coroutine that waited for it.
* `Exposition` is the exception: its two threads are preempted anywhere, so a
  step is one `set()`, or one registry entry sampled.

**Failures.** Every await may raise. A gateway write may be executed although its
answer is lost, before its call gives up or at any time after it, after the
process has been killed, on a later day: `late` holds such writes. An INSERT or a
commit may fail, which the code swallows; a commit that fails may leave its
transaction, and SQLite's only write lock, on the connection until `close()`. A
process may be killed at each await, which no `except Exception` catches, and a
one-shot command may get Ctrl-C at each of them. Who ran a write command repeats
it until it exits with zero, gives up, or wants something else.

**History variables.** `changed`, `owed`, `lost` (policy), `noted`, `confirmed`
(CLI), `basisAge`, `sinceCall`, `outage`, `sinceHeld` (adapter), `lastRead`
(daemon), `told`, `earlier`, `current`, `known` (exposition) record what happened,
for the properties. No guard reads them.

**Abstractions.**

* Ledger rows keep the columns some query selects on: `action`, `outcome`, `ts`.
* In `BatteryPolicy` the adapter is what a process that has just started sees of
  it: no cache, so `get_state` answers freshly or raises.
* A reserve is counted in thousandths, to leave something for `round(pct * 100)`
  to round; at a tie both neighbours are possible, since the product is binary.
* In `Cli` the policy comes to one outcome in one step: `BatteryPolicy` has its
  inside. A committed row and the rows a listing is made of are the whole
  content of the file.
* In `EnphaseAdapter` a snapshot is its battery mode, and ages are counted up to
  the threshold they are compared with. `_failures` is compared with its limit
  only, so it is counted up to it.
* In `Daemon` the adapter is what `get_state` may give its caller, and a row is
  committed up to `CommitLag` ticks after its ts, the wait for the write lock.
* In `Exposition` one series stands for each group that behaves alike.

## 3. The runs

| run | question | result |
|---|---|---|
| `policy` | two processes, budget 1, midnight in between, every failure: is the budget exceeded by more than the other process and the unrecorded changes? is every change accounted for? can a gate be passed? | holds (1.3 million states) |
| `policy_race` | "Max 4 mode changes per day" without any failure | violated |
| `policy_fall_back` | the same with one process at a time, on the day the clocks fall back | violated |
| `cli` | do commands that fail, are interrupted and are repeated leave the ledger a trail that only grows, and their caller with one write? are listings and plans right? does every command end? | holds (246 thousand) |
| `adapter` | breaker contract, rest, no false alarm, recent actuation, degradation, recovery | holds (259 thousand) |
| `adapter_spacing` | "a 2-second floor between outbound calls" | violated |
| `adapter_outage` | "after 5 consecutive failures the breaker opens" | violated |
| `adapter_meter` | "an absent meter must degrade to absent fields, not crash the daemon" | violated |
| `daemon` | does the published view ever exceed the ledger, does it catch up, is the age ever overstated, does SIGTERM end the loop? | holds (93 thousand) |
| `daemon_state_age` | "seconds since the last successful gateway read" | violated |
| `exposition` | is every series right by itself, and which collections are consistent? | holds (281 thousand) |
| `exposition_mode` | "exactly one mode label carries 1" in every collection | violated |

The properties:

* `BulkheadBound`: on no local day more executed mode changes than the budget,
  plus one for each other process, plus the changes whose success was never
  recorded: the answer or the row was lost, or the write came late.
  `BulkheadInvariant` is its inductive strengthening.
* `EveryChangeAccounted`: executed changes = rows + rows on their way + lost
  ones. A no-op or a refusal audited as a change would break it, and so would a
  change audited twice. `AccountInvariant` is what makes it inductive.
* `CounterLeadsLedger`: no row without its increment of the counter, whichever
  sink fails and whenever the process dies.
* `ReserveWithinBounds`, `HumanInTheLoop`: the guardrails, stated of the gateway
  and not of the request; a write that outlives its call is held to them too.
* `TrailOnlyGrows`: the file refines `AuditTrail`. To every reader it grows by one
  row with the next id at a time, whoever is interrupted, killed or rolled back.
  Ids follow commits, not attempts: a row may be older than the rows before it.
* `NotedRowsStand`: an id that `record()` has returned names a committed row.
* `CliInvariant`: what the commands' safety rests on. The row of an open transaction
  is the next one; an INSERT left to a connection's thread has what it inserts; a
  command that wrote ends with zero or by its interrupt.
* `OneWritePerIntent`: "an audit sink going away must not turn a completed control
  action into an error the caller retries" (`policy.py`, `_audit`). A caller that
  repeats a command until it exits with zero makes one confirmed write. The one
  exception the code has, an adapter whose `close()` raises after the write, ends
  the count.
* `NewestFirst`, `PlanFollowsRules`: what the two tables say to their reader.
* `CommandsEnd`: no command waits for ever, the lock held by another or not.
* `KeepsContract`: the breaker inside the adapter refines `BreakerContract`.
  The state of the contract is computed from the two variables of the code:
  open where `_opened_at` is set, otherwise half open where the failure count is
  still at its limit.
* `RestWhileOpen`: with an open breaker nothing is in flight and nothing can go
  out, although the login does not pass the breaker. It holds because only an
  authenticated call can open it, and a 401 never does.
* `OpensOnlyOnOutage`: no false alarm. The breaker opens on no less than its limit of
  calls and logins in a row that found the gateway unreachable (one operation may make
  several): a success in between starts the count anew, and a 401 counts for neither
  side. (`BreakerOpensOnOutage` is the converse, which fails.)
* `ActsOnRecentState`: no write rests on a snapshot that was older than `STALE_AFTER`
  when `_require_fresh_state` checked it. What time passes between that check and the
  write, for the limiter and perhaps a login, is not counted: the code does not bound
  the login's.
  `NoopOnRecentMode` is the other half: no write refreshes the cache, so a call may
  find "nothing to do" on the word of a snapshot from before the adapter's own
  write; but the battery was in that mode at most `STALE_AFTER` ago.
* `DegradesGracefully`: see section 1. `AdapterInvariant` is what makes the
  adapter's safety properties inductive.
* `Recovers`: if the gateway stays well, tokens do not keep expiring and nobody
  closes the adapter, then fresh reads happen again and again.
* `ViewNeverAhead`, `ViewCatchesUp`, `StopsCleanly`: see section 1. The view may
  lag; once the ledger and the clock have come to rest it equals the trailing
  window.
* `AgeNeverOverstated`: scrapes that raise and restarts may leave the age gauge
  behind, but it is never more than the time since the last successful read, so an
  alert on it is never a false one.
* `SeriesRegular`: however the two threads interleave, each series is read at a
  value that was in force, or being replaced, during the collection; a series of a
  reading the gateway did not give stays absent, or at its last value.
  `ConsistentUndisturbed`: series that exclude one another (modes, import and
  export) are consistent in collections no publication touches. `exposition_mode`
  shows that in the others they are not. `ConsistencyInvariant` is what makes both
  inductive.

### Bounds

* `policy`: two processes, three commands, a budget of one, three ticks with
  midnight between the first and the second, and the homeowner's app. Two
  processes are enough for a race and the third command for a budget that is spent
  before it.
* `policy_fall_back`: one process, two commands, days of six ticks; the offset
  shrinks by a tick within the second day.
* `cli`: two callers and three commands: one of them repeated while another
  command holds or wants the lock. The clock moves once, which is enough for a row
  that is stamped first and committed second. One write command stands for both,
  which take the same path through `cli.py`; it is `set-reserve`, where a repetition is a second
  write, while `set-mode` would find its mode set. Outcomes are `success` and
  `error`: `noop` leaves the process as `success` does, `rejected` as `error` does.
  Limits: all rows and one; contexts: the floor and just below it, with
  and without a storm.
* `adapter`: the breaker opens at two failures and rests two ticks, less than a
  snapshot's life of three, as 300 s is less than ten minutes; two failures
  distinguish one, the limit, and beyond. Its counters saturate, so the clock
  needs no bound.
* `daemon`: four ticks, a window of one, so that rows enter it and leave it; rows
  committed up to one tick after their ts; two rows under two label pairs; one
  crash.
* `exposition`: three publications, so that one collection may span two of them
  and a value may come back after it was replaced; three modes, two label pairs,
  snapshots that import, export, and lack their meters. Any number of
  collections.

### Fairness

`adapter`: `WF(Step)`, the caller calls again and every await ends in an answer
or an exception (pyenphase's requests have timeouts); `WF(Tick)`, time passes.
`daemon`: weak fairness of each step of the loop, which is the event loop
running what is ready and `wait_for` timing out; and strong fairness of a query
that succeeds, since a ledger whose every query fails publishes nothing. Nothing
is assumed of signals, crashes, writers or the gateway. `cli`: weak fairness of each process's
`Step`. Every await of a command ends: the gateway's requests have timeouts, an
INSERT that finds the lock taken fails after `BUSY_TIMEOUT_S`, and the thread of a
connection works its queue off. That the lock becomes free is not assumed.
The safety properties need no fairness.

The bounds on clocks and numbers of calls are constants: the theorems below hold
for every value of them.

## 4. What is proved

`BatteryPolicyProofs`, for every finite set of processes, every budget, every
set of requests and every calendar that satisfies the assumptions of `LocalDay`
(dates never go backwards) and `BatteryPolicy`:

* `TypeCorrect`: `Spec => []TypeOK`. `TypeOK` is inductive together with
  `CallsTyped`: a process that is not idle has a request, and one that is about
  to record has an outcome.
* `BulkheadInductive` and `BulkheadHolds`: if `WindowCoversDay`, then
  `Spec => []BulkheadInvariant`, and `[]BulkheadBound`.
* `ForwardClocksCover`: `WindowCoversDay` holds unless clocks go back within a day
  (`NoFallBack`). The day they go forward is covered too, although its midnight is
  then computed with an offset that was not in force; `FixedOffsetCovers` is the case
  of a fixed offset. A zone that falls back does not satisfy it, and
  `policy_fall_back` shows what follows.
* `LimitWhenAlone`: if there is one process and `WindowCoversDay`, then
  `Spec => []DailyLimit`. The two runs in which the documented limit is violated
  drop one of these conditions each.
* `BackupConfirmed`: `Spec => HumanInTheLoop`, and `ReserveBounded`:
  `Spec => []ReserveWithinBounds`. Both rest on `GatesPassed`: a call that may
  still reach the gateway, and a write that outlived its call, has passed its
  guardrail, because a request does not change while it is carried out. For the
  reserve, `RoundingKeepsBounds` says that rounding to whole percents does not
  leave bounds that are whole percents.
* `CounterLeads`: `Spec => []CounterLeadsLedger`. The counter covers the rows
  *and* the attempts that await theirs (`CounterCovers`); recording turns one into
  the other, a failed record or a kill only loses one.

The argument for the bound. Call a process a *spender* if it has passed the query
and may still put a "success" row into the ledger. The invariant
`BudgetShared` says that today's rows and the spenders together stay within the
budget plus all processes but one. A process joins the spenders only after its
query found fewer rows than the budget, and the window the query used contains
every row of today (`QuerySeesToday`; this is where the window matters, and where
a window taken yesterday is as good); at that moment the spenders are at most all
processes. A spender that records turns into a row, and the sum does not grow. At
midnight the rows of the new day are none. `TodaySettled` says that today's
changes are at most today's rows, the rows still owed by spenders and the lost
ones, which gives the bound. A change's row bears the date of its ts, which is
taken after the gateway's answer: it may be a later date than the change's
(`OwedBySpenders`), which is why past days are bounded by the invariant on the day
they were today, and `NothingAhead` says that later days have no changes. A late
write counts as a change and as a lost one in the same step.

`CliProofs`, for every finite set of callers, any subset of commands, any bounds:

* `InvariantHolds`: `Spec => []Invariant`, the inductive invariant, and
  `CliInductive`: `Spec => []CliInvariant`, the same as the run states it. Three parts
  carry it besides types. `OpenRowIsNext`: the row of an open transaction has
  the id after the last committed one, which holds because there is at most one
  transaction (`SingleWriter`). `AttemptReady`: whoever is about to insert,
  the thread of a cancelled coroutine included, has an outcome, an action and a
  ts that is not in the future. `ConfirmedIsSettled`: a process with a confirmed
  write is on its way to exit with zero or by an interrupt, or has ended with
  nothing to repeat.
* `TypeCorrect`: in every reachable state types are right and at most one write
  transaction is open.
* `TrailGrows`: `Spec => TrailOnlyGrows`, the refinement. A commit, by the
  coroutine or by the thread it left behind, is `AppendRow` by `OpenRowIsNext`;
  the clock's step is `ClockAdvances`; every other step stutters.
* `NotedStand`, `OneWrite`: as above; a noted id was the last one when it was
  noted, and rows are only added.

* `ListsNewestFirst`: `Spec => []NewestFirst`. The *rank* of a row is the number
  of newer ones. Since ids are unique (`RowsStayUnique`), "newer" is a strict total
  order, ranks are different, and a set with as many different ranks below `n` as
  it has elements has them all (`RanksFilled`). So each place of the listing has
  exactly one row, and a limit cuts off the rows of the highest ranks. A table is
  printed as it was made (`TableStep`), whatever is committed meanwhile.
* `PlansFollowRules`: `Spec => []PlanFollowsRules`, from `RulesProofs`.

`RulesProofs`, for every state of charge and both forecasts, `PlanDayFollows`: the
schedule follows the rules. `EvaluateDue` says what the first match is;
`NextRound`, that a round of the loop turns a plan that is right up to an hour into
one that is right up to the next. The loop is a recursive function over the hours;
that it exists (`RoundsExist`) and what it computes are proved by the least hour at
which it would go wrong (`Smallest`: a non-empty set of numbers has a least
element), since the library's induction takes an operator the provers cannot
instantiate.

`AccountProofs`, under the assumptions of `BatteryPolicy` alone:

* `AccountInductive`: `Spec => []AccountInvariant`, and from it `ChangesAccounted`:
  `Spec => []EveryChangeAccounted`. A count by date is the
  cardinality of the set of its events, so "one more on some date" adds one element
  whatever the other dates hold. `OwedOnce` says which calls a row is still owed to:
  exactly those whose change is made and whose "success" row is to come, each on
  one date. Recording moves one from the owed to the rows; giving up, being killed
  or a record that fails moves it to the lost; a late write adds to both sides.
* `LedgerIsTrail`: `Spec => Trail!TrailSpec`. The policy's ledger is a behaviour of
  `AuditTrail`, the specification that the file is shown to implement by
  `TrailGrows`. It needs that a row's ts is not in the future when the row is
  recorded, and that what is recorded is in the vocabulary. `DaemonProofs` has the
  same of the daemon. So the three modules assume and guarantee one ledger.

`AdapterProofs`, for every failure limit, rest, age of the cache, interval and set
of ways a gateway fails:

* `InvariantHolds`: `Spec => []AdapterInvariant`, which has four parts besides types
  and `RestWhileOpen`. `BreakerSettled`: while a call is in flight the breaker is
  not open, and while it is open its count is at the limit. `WriteHasBasis`: a write
  phase belongs to a write and rests on a recent snapshot. `CacheWasHeld`: the
  gateway was in the mode of the cache when the cache was taken. `FailuresHappened`:
  the breaker has counted no failure that did not happen.
* `TypeCorrect`, `RestHolds`, `ActuationRecent` are parts of it. `NoFalseAlarm`,
  `Spec => []OpensOnlyOnOutage`, combines two of them: an open breaker's count is at
  its limit, and so many calls or logins in a row have failed. `NoopRecent` adds
  that a snapshot served to a write is fresh or not stale yet; `Degrades`, that
  every end of a read with a cache is an answer or one of the named exceptions.
* `ContractKept`: `Spec => KeepsContract`. The mapping reads the contract's state
  off the code's two variables; strikes are the failures of a closed breaker, the
  rest what is left of `ResetTimeout`. A tally maps to `Strike`, `FailedProbe` or
  `Success`, the gate that finds the rest over to `StartProbe`, a tick to `Rest`;
  `BreakerSettled` is what rules out a tally of an open breaker.
* `SnapshotsServed`: what `get_state` gives its callers at each of its ends: the
  snapshot just taken; or the previous one, called stale exactly if it is old or the
  breaker open; or an exception that leaves it alone. `Daemon`'s `Scrape` assumes just
  that of the adapter, and `BatteryPolicy`'s `Read` the case without a snapshot.
* Three theorems say when the claims of section 5 hold. `OutageOpens`: if no login
  ever finds the gateway unreachable, `BreakerOpensOnOutage` holds, because then every
  failure reaches the tally. `SpacedInSession`: from any call on, `CallsSpaced` holds
  until the next login, because what is left of the limiter's interval and what has
  passed since the call make up an interval. `MetersPresent`: if meters and batteries
  answer, `AbsentMeterDegrades` holds, and a read with a cache fails on rejected
  credentials only. Their conditions are what the violating behaviours of the three
  runs have: a login during an outage, a login before a call, a missing meter.

`DaemonProofs`, for every window, lag of commits and number of crashes:
`TypeCorrect`; `ViewBehind`, `Spec => []ViewNeverAhead`, since a query counts a
subset of the rows of its label, rows are only added, and a restart starts with no
view; `LedgerIsTrail`. Besides:

* `ViewStays`, the safety half of `ViewCatchesUp`: from any state in which the view
  equals the trailing window it does so until a row is committed, the clock moves
  or the process is replaced, whatever scrapes, queries and signals do.
* `AgeBounded`: `Spec => []AgeNeverOverstated`, inductive together with the fact that
  the cache holds the snapshot of the last read or none. Time only adds to the right-hand side, and a scrape that
  sets the gauge uses the age of a snapshot that is the last one read.
* `AgeHonestUnlessRaised`: a scrape either sets the gauge to the age of the last
  successful read or leaves gauge and cache alone, which is the scrape that raises. So
  only such a scrape can make `StateAgeHonest` false, as in `daemon_state_age`.

`ExpositionProofs`, for every vocabulary of modes and labels, every set of snapshots
and counts and any number of publications:

* `RegularHolds` and `ShownWasTold`: `Spec => []SeriesRegular`. What is still to be
  set is what was told (`TodoTold`); a gauge shows what was told, or what that
  replaces and then its `set()` is still to come (`GaugesFollow`); and the history
  of a collection covers both (`CurrentCovers`). That every series told by a
  publication is in its order is what makes `GaugesFollow` inductive.
* `ToldConsistent` and `Consistent`: `Spec => []ConsistentUndisturbed`. What is
  *told* always has at most one mode and one direction of the grid (`ModeTold`,
  `GridTold`), whatever is *shown*; if nothing was told meanwhile, a collection
  reads what was told. `KnownMode` keeps an active mode among what a collection may
  read.
* `TypeCorrect`: no series is negative, which the split of the signed reading has to
  ensure.

`AdapterInvariant`, `AccountInvariant`, `BulkheadInvariant`, `CliInvariant` and
`ConsistencyInvariant` are invariants of the runs too, so a change to a model that
breaks one shows up as a counterexample before it does as a failed proof.

Only model-checked: the liveness properties `Recovers`, `ViewCatchesUp`,
`StopsCleanly` and `CommandsEnd`, as the prover has no fairness reasoning for them
(`ViewStays` is the part of `ViewCatchesUp` that needs none); and the violations of
section 5, which are single behaviours.

## 5. Where code and documents disagree

1. **The daily limit is not a limit across processes** (`policy_race`). The
   count is awaited before the write and the row after it; `n` concurrent
   commands may exceed the budget by `n - 1`. `BulkheadBound` is what holds, and
   `LimitWhenAlone` when the claim does.
2. **The day starts an hour late when the clocks fall back**
   (`policy_fall_back`). `astimezone().replace(hour=0)` keeps the offset of now.
   Without such a day the window is right (`ForwardClocksCover`).
3. **The login passes neither limiter nor breaker** (`adapter_spacing`,
   `adapter_outage`). Between two logins calls are spaced (`SpacedInSession`), and if no
   login meets the outage the breaker opens (`OutageOpens`).
4. **An absent meter raises** (`adapter_meter`): two reads of `_to_state` do not
   go through the helpers its comment names. Where both are there a read does
   not raise (`MetersPresent`).
5. **The age gauge freezes when scrapes raise** (`daemon_state_age`). It is then too
   small, never too large (`AgeBounded`, `AgeHonestUnlessRaised`).
6. **A collection may show two modes as active, or none** (`exposition_mode`):
   the labels are set, and read, one after the other in two threads.

Not given a run: "the counter and the ledger can never disagree" (`policy.py:10`)
fails when a row cannot be appended, as the code's own except clause says;
`CounterLeadsLedger` is the half that holds. "Never pyenphase's"
(`errors.py:1`) fails for a first read without a cache (result `raw`).

## 6. Not modelled

* The budget of a policy without a ledger: no program of the repository builds
  one, only its tests.
* Several tasks on one adapter: the locks of breaker and limiter exist for them,
  no program of the repository has them. So an overlapping success that wipes
  another call's failures, and callers queueing behind a sleeping limiter, cannot
  happen as the code is used.
* The loss of the last commits in an OS crash, which `synchronous = NORMAL`
  allows; a ledger whose `close()` raises; a connection that is still being opened
  when Ctrl-C arrives, which is taken to be released.
* The target and reason columns of a row, and the layout of tables and exit messages.
* The scrape counters, the duration histogram and the breaker's gauge: one call
  each, tied to no other state. `enable_storm_guard`, which only raises and which
  nothing calls.
* A host clock that is set back: the `max(0.0, ...)` of the age is modelled (`Age`),
  but only such a clock would need it. How long the daemon takes to stop, which
  Docker's grace period bounds: `StopsCleanly` says that it does stop.
* Prometheus, Grafana and Docker, except that Docker restarts the daemon.

## 7. State of the plan

Done: all modules of section 2 with their runs; a theorem for every safety property
and every inductive invariant the passing runs check, and for both refinements; a
theorem for each documented claim about policy, adapter and daemon that a run
violates, which names the condition under which it is true.

Left, each for its reason:

1. Proofs of the four liveness properties: the installed provers have neither
   fairness nor `ENABLED`.
2. The composition of the three users of the ledger as one specification. It is
   done by theorem instead: `TrailGrows` and the two `LedgerIsTrail` meet at
   `AuditTrail`; that `get_state` is what its callers assume of it is
   `SnapshotsServed`, which is compared with their actions by reading.
3. What section 6 lists, as long as no program of the repository uses it.
