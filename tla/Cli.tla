-------------------------------- MODULE Cli --------------------------------
(***************************************************************************)
(* cli.py: the one-shot commands as processes that share the ledger file.  *)
(* A write command opens its ledger, then its adapter, runs the policy     *)
(* (BatteryPolicy has its inside: here it comes to one outcome), records   *)
(* the attempt, and leaves its two `async with` blocks inside out.  Ctrl-C *)
(* cancels the coroutine at an await but not the job its connection's      *)
(* thread has been given; a kill ends everything at once.  Whoever runs a  *)
(* write command runs it again when it exits with an error.                *)
(***************************************************************************)
EXTENDS SqliteLedger, Rules

CONSTANTS
  Procs,       \* command lines that may run at the same time
  Commands,    \* subcommands they run
  Results,     \* outcomes the policy may come to
  Limits,      \* values of --limit
  Contexts,    \* values of --soc and --storm
  MaxTime,     \* bound on the clock
  MaxCommands  \* bound on the number of commands

ASSUME CliAssumption ==
  /\ IsFiniteSet(Procs) /\ Procs # {}
  /\ Commands \subseteq Actions \cup {"status", "ledger", "plan"}
  /\ Results \subseteq Outcomes
  /\ Limits \subseteq Int
  /\ Contexts \subseteq [soc : Nat, storm : BOOLEAN]
  /\ MaxTime \in Nat
  /\ MaxCommands \in Nat

VARIABLES
  now,       \* the clock of the host
  run,       \* commands run so far
  pc,        \* the await each process is at
  command,   \* what it runs, or what its caller would repeat
  outcome,   \* what the policy came to
  stamp,     \* the ts of the row it is about to append
  job,       \* what its ledger thread still has to do for a cancelled coroutine
  status,    \* how it is going to exit
  table,     \* the table it is going to print
  \* History, for the properties only:
  noted,     \* ids record() has returned
  confirmed  \* writes confirmed to a caller since it last wanted something new, or
             \* was told that an adapter failed to close

ledger == <<rows, lastId, open>>
process == <<pc, command, outcome, stamp, job, status, table>>
history == <<noted, confirmed>>
vars == <<ledger, now, run, process, history>>

Places == {"idle", "open", "adapter", "work", "insert", "commit", "query",
           "leave", "close", "print"}
Statuses == {"zero", "one", "two", "interrupted"}
Blank == [kind |-> "none"]

TypeOK ==
  /\ LedgerTypeOK
  /\ now \in 0 .. MaxTime
  /\ run \in 0 .. MaxCommands
  /\ pc \in [Procs -> Places]
  /\ command \in [Procs -> Commands \cup {"none"}]
  /\ outcome \in [Procs -> Outcomes \cup {"none"}]
  /\ stamp \in [Procs -> 0 .. MaxTime]
  /\ job \in [Procs -> {"none", "insert", "commit"}]
  /\ status \in [Procs -> Statuses]
  /\ noted \subseteq Nat
  /\ confirmed \in [Procs -> Nat]
  /\ open \subseteq [by : Procs, row : Row]
  /\ Cardinality(open) <= 1

Init ==
  /\ LedgerInit
  /\ open = {}
  /\ now = 0
  /\ run = 0
  /\ pc = [p \in Procs |-> "idle"]
  /\ command = [p \in Procs |-> "none"]
  /\ outcome = [p \in Procs |-> "none"]
  /\ stamp = [p \in Procs |-> 0]
  /\ job = [p \in Procs |-> "none"]
  /\ status = [p \in Procs |-> "zero"]
  /\ table = [p \in Procs |-> Blank]
  /\ noted = {}
  /\ confirmed = [p \in Procs |-> 0]

GoTo(p, place) == pc' = [pc EXCEPT ![p] = place]
ExitWith(p, code) == status' = [status EXCEPT ![p] = code]

\* The process ends with this exit status: whoever ran a write command repeats it
\* until the status is zero, or gives up on it with Ctrl-C.
End(p, code) ==
  /\ GoTo(p, "idle")
  /\ ExitWith(p, "zero")
  /\ command' = [command EXCEPT ![p] =
       IF code \in {"one", "two"} /\ @ \in Actions THEN @ ELSE "none"]

-----------------------------------------------------------------------------
(* Starting: open the ledger, then the adapter.                            *)

\* A caller repeats the write command that failed, or wants something new.
Begin(p, c) ==
  /\ pc[p] = "idle"
  /\ run < MaxCommands
  /\ c \in Commands
  /\ run' = run + 1
  /\ command' = [command EXCEPT ![p] = c]
  /\ confirmed' = [confirmed EXCEPT ![p] = IF c = command[p] THEN @ ELSE 0]
  /\ UNCHANGED <<ledger, now, outcome, stamp, job, status, noted>>

\* _run and _with_adapter: no ledger.
BeginStatus(p) == Begin(p, "status") /\ GoTo(p, "adapter") /\ UNCHANGED table

BeginWithLedger(p) ==
  /\ \E c \in Actions \cup {"ledger"} : Begin(p, c)
  /\ GoTo(p, "open")
  /\ UNCHANGED table

\* plan_day() awaits nothing.
BeginPlan(p) ==
  /\ Begin(p, "plan")
  /\ GoTo(p, "print")
  /\ \E c \in Contexts :
       table' = [table EXCEPT ![p] = [kind |-> "plan", context |-> c, entries |-> PlanDay(c)]]

\* Ledger.open(): a LedgerError is reported, and nothing else has been touched.
Open(p) ==
  /\ pc[p] = "open"
  /\ \/ /\ GoTo(p, IF command[p] = "ledger" THEN "query" ELSE "adapter")
        /\ UNCHANGED <<command, status>>
     \/ End(p, "one")
  /\ UNCHANGED <<ledger, now, run, outcome, stamp, job, table, history>>

\* The adapter's block is left, then the ledger's if the command has one.
LeaveAdapter(p, code) ==
  IF command[p] = "status" THEN End(p, code)
  ELSE GoTo(p, "close") /\ ExitWith(p, code) /\ UNCHANGED command

\* _adapter(): a missing environment variable, with the ledger open already.
EnterAdapter(p) ==
  /\ pc[p] = "adapter"
  /\ \/ GoTo(p, "work") /\ UNCHANGED <<command, status>>
     \/ LeaveAdapter(p, "two")
  /\ UNCHANGED <<ledger, now, run, outcome, stamp, job, table, history>>

-----------------------------------------------------------------------------
(* The work.                                                               *)

\* get_state() returns a snapshot to print, or raises.
ReadState(p) ==
  /\ pc[p] = "work"
  /\ command[p] = "status"
  /\ GoTo(p, "leave")
  /\ \E code \in {"zero", "one"} : ExitWith(p, code)
  /\ UNCHANGED <<ledger, now, run, command, outcome, stamp, job, table, history>>

\* The policy comes to an outcome, and awaits record() whatever it is.
Work(p) ==
  /\ pc[p] = "work"
  /\ command[p] \in Actions
  /\ \E o \in Results :
       /\ outcome' = [outcome EXCEPT ![p] = o]
       /\ ExitWith(p, IF o \in {"success", "noop"} THEN "zero" ELSE "one")
       /\ confirmed' = [confirmed EXCEPT ![p] = IF o = "success" THEN @ + 1 ELSE @]
  /\ stamp' = [stamp EXCEPT ![p] = now]
  /\ GoTo(p, "insert")
  /\ UNCHANGED <<ledger, now, run, command, job, table, noted>>

\* The INSERT has been tried: its parameters are of no more use.
ForgetAttempt(p) ==
  /\ outcome' = [outcome EXCEPT ![p] = "none"]
  /\ stamp' = [stamp EXCEPT ![p] = 0]

\* Mutant: an attempt that could not be audited is reported as failed.
ReportUnaudited(p) == GoTo(p, "leave") /\ ExitWith(p, "one")
\* Mutant: the commit is tried until it succeeds.
CommitAgain(p) == GoTo(p, "commit") /\ UNCHANGED status
\* _audit's except clause: logged, and the command goes on as if it had been.
GoOnUnaudited(p) == GoTo(p, "leave") /\ UNCHANGED status

\* Mutant: record() returns without the commit.
ReturnAfterInsert(p) == GoTo(p, "leave") /\ noted' = noted \cup {lastId + 1}
AfterInsert(p) == GoTo(p, "commit") /\ UNCHANGED noted

InsertRow(p) ==
  /\ pc[p] = "insert"
  /\ \/ /\ Insert(p, stamp[p], command[p], outcome[p])
        /\ AfterInsert(p)
        /\ UNCHANGED status
     \/ InsertFails /\ GoOnUnaudited(p) /\ UNCHANGED noted
  /\ ForgetAttempt(p)
  /\ UNCHANGED <<now, run, command, job, table, confirmed>>

CommitRow(p) ==
  /\ pc[p] = "commit"
  /\ \/ /\ Commit(p)
        /\ noted' = noted \cup {lastId'}
        /\ GoTo(p, "leave")
        /\ UNCHANGED status
     \/ CommitFails(p) /\ GoOnUnaudited(p) /\ UNCHANGED noted
  /\ UNCHANGED <<now, run, command, outcome, stamp, job, table, confirmed>>

\* `ledger`: recent(), or an sqlite3.Error nobody translates.
Query(p) ==
  /\ pc[p] = "query"
  /\ GoTo(p, "close")
  /\ \/ /\ \E limit \in Limits :
             table' = [table EXCEPT ![p] =
                         [kind |-> "ledger", limit |-> limit, listed |-> Recent(limit), all |-> rows]]
        /\ UNCHANGED status
     \/ ExitWith(p, "one") /\ UNCHANGED table
  /\ UNCHANGED <<ledger, now, run, command, outcome, stamp, job, history>>

-----------------------------------------------------------------------------
(* Ending.                                                                 *)

\* adapter.close(), first: it comes back, or raises past everything.
Leave(p) ==
  /\ pc[p] = "leave"
  /\ \/ LeaveAdapter(p, status[p]) /\ UNCHANGED confirmed
     \/ LeaveAdapter(p, "one") /\ confirmed' = [confirmed EXCEPT ![p] = 0]
  /\ UNCHANGED <<ledger, now, run, outcome, stamp, job, table, noted>>

\* The ledger's thread runs what a cancelled coroutine has left in its queue.
RunJob(p) ==
  /\ \/ /\ job[p] = "insert"
        /\ Insert(p, stamp[p], command[p], outcome[p]) \/ InsertFails
        /\ ForgetAttempt(p)
     \/ /\ job[p] = "commit"
        /\ Commit(p) \/ CommitFails(p)
        /\ UNCHANGED <<outcome, stamp>>
  /\ job' = [job EXCEPT ![p] = "none"]
  /\ UNCHANGED <<now, run, pc, command, status, table, history>>

\* Ledger.close() queues up behind that job, and rolls back what is left open.
Close(p) ==
  /\ pc[p] = "close"
  /\ job[p] = "none"
  /\ Rollback(p)
  /\ IF command[p] = "ledger" /\ status[p] = "zero"
     THEN GoTo(p, "print") /\ UNCHANGED <<command, status, table>>
     ELSE End(p, status[p]) /\ table' = [table EXCEPT ![p] = Blank]
  /\ UNCHANGED <<now, run, outcome, stamp, job, history>>

PrintTable(p) ==
  /\ pc[p] = "print"
  /\ End(p, "zero")
  /\ table' = [table EXCEPT ![p] = Blank]
  /\ UNCHANGED <<ledger, now, run, outcome, stamp, job, history>>

LeftInQueue(place) ==
  IF place = "insert" THEN {"insert"}
  ELSE IF place = "commit" THEN {"none", "commit"}
  ELSE {"none"}

\* Ctrl-C: the coroutine is cancelled at its await and leaves its blocks.  INSERT
\* and commit are in the thread's queue by then, unless the commit's turn had not
\* come when the INSERT's answer was cancelled.
Interrupt(p) ==
  /\ status[p] # "interrupted"
  /\ \/ pc[p] = "open" /\ End(p, "interrupted") /\ UNCHANGED job
     \/ /\ pc[p] \in {"query", "close"}
        /\ GoTo(p, "close")
        /\ ExitWith(p, "interrupted")
        /\ UNCHANGED <<command, job>>
     \/ /\ pc[p] \in {"work", "insert", "commit"}
        /\ GoTo(p, "leave")
        /\ ExitWith(p, "interrupted")
        /\ \E left \in LeftInQueue(pc[p]) : job' = [job EXCEPT ![p] = left]
        /\ UNCHANGED command
     \/ pc[p] = "leave" /\ LeaveAdapter(p, "interrupted") /\ UNCHANGED job
  /\ UNCHANGED <<ledger, now, run, outcome, stamp, table, history>>

\* SIGKILL, an OOM kill, a second Ctrl-C: no block is left, no job is run.
Kill(p) ==
  /\ pc[p] # "idle"
  /\ End(p, "interrupted")
  /\ ForgetAttempt(p)
  /\ job' = [job EXCEPT ![p] = "none"]
  /\ table' = [table EXCEPT ![p] = Blank]
  /\ Rollback(p)
  /\ UNCHANGED <<now, run, history>>

Tick ==
  /\ now < MaxTime
  /\ now' = now + 1
  /\ UNCHANGED <<ledger, run, process, history>>

Start(p) == BeginStatus(p) \/ BeginWithLedger(p) \/ BeginPlan(p)

\* What a process does by itself once it runs.
Step(p) ==
  \/ Open(p) \/ EnterAdapter(p)
  \/ ReadState(p) \/ Work(p) \/ InsertRow(p) \/ CommitRow(p) \/ Query(p)
  \/ Leave(p) \/ RunJob(p) \/ Close(p) \/ PrintTable(p)

Next ==
  \/ \E p \in Procs : Start(p) \/ Step(p) \/ Interrupt(p) \/ Kill(p)
  \/ Tick

Spec == Init /\ [][Next]_vars

\* Every await ends: the gateway's client has timeouts, SQLite's lock has one, and
\* the thread works its queue off.
FairSpec == Spec /\ \A p \in Procs : WF_vars(Step(p))

-----------------------------------------------------------------------------
(* What the commands promise together.                                     *)

\* The other modules' view of the ledger: to everyone who reads it, whatever is
\* interrupted, killed or rolled back, it is a trail that grows by one row with
\* the next id at a time.
Trail == INSTANCE AuditTrail
TrailOnlyGrows == Trail!TrailSpec

\* record(): "Append one row and commit; returns the new row id": a row whose id
\* it has returned is in the ledger, and stays there.
NotedRowsStand == \A id \in noted : \E r \in rows : r.id = id

\* policy.py: "an audit sink going away must not turn a completed control action
\* into an error the caller retries".  Who repeats a command until it exits with
\* zero makes one confirmed write, unless an adapter that failed to close made it
\* repeat one.
OneWritePerIntent == \A p \in Procs : confirmed[p] <= 1

Shown(listed) == {listed[i] : i \in DOMAIN listed}

ListsNewest(listed, limit, all) ==
  /\ \A i \in 1 .. Len(listed) - 1 :
       \/ listed[i].ts > listed[i + 1].ts
       \/ listed[i].ts = listed[i + 1].ts /\ listed[i].id > listed[i + 1].id
  /\ limit < 0 => Shown(listed) = all
  /\ limit >= 0 => Len(listed) = IF Cardinality(all) < limit THEN Cardinality(all) ELSE limit
  /\ \A r \in all \ Shown(listed), s \in Shown(listed) :
       s.ts > r.ts \/ (s.ts = r.ts /\ s.id > r.id)

\* recent(): "Newest first.  Ordered by ts, with id as the tiebreaker".  What
\* `ledger` prints descends, and no row it leaves out is newer than one it shows.
NewestFirst ==
  \A p \in Procs : table[p].kind = "ledger" =>
    ListsNewest(table[p].listed, table[p].limit, table[p].all)

\* The schedule `plan` prints is the table of rules read hour by hour.
PlanFollowsRules ==
  \A p \in Procs : table[p].kind = "plan" =>
    FollowsRules(table[p].entries, table[p].context)

\* Every command ends by itself, the lock it waits for held by another or not.
CommandsEnd == \A p \in Procs : pc[p] # "idle" ~> pc[p] = "idle"

-----------------------------------------------------------------------------
(* Why they hold, as invariants that every step preserves.                 *)

\* The row of an open transaction is the next one of the trail.
OpenRowIsNext ==
  \A t \in open :
    t.row \in [id : {lastId + 1}, ts : 0 .. now, action : Actions, outcome : Outcomes]

\* What an INSERT still to come is going to insert.
AttemptReady ==
  \A p \in Procs :
    /\ stamp[p] <= now
    /\ job[p] # "none" => pc[p] \in {"leave", "close"}
    /\ pc[p] \in {"insert", "commit"} \/ job[p] # "none" => command[p] \in Actions
    /\ pc[p] = "insert" \/ job[p] = "insert" => outcome[p] \in Outcomes

\* A confirmed write is on its way to exit with zero, or has.
ConfirmedIsSettled ==
  \A p \in Procs :
    confirmed[p] # 0 =>
      /\ confirmed[p] = 1
      /\ \/ pc[p] = "idle" /\ command[p] = "none"
         \/ /\ pc[p] \in {"insert", "commit", "leave", "close"}
            /\ status[p] \in {"zero", "interrupted"}
            /\ command[p] \in Actions

CliInvariant == TypeOK /\ OpenRowIsNext /\ AttemptReady /\ ConfirmedIsSettled

=============================================================================
