------------------------------- MODULE Daemon -------------------------------
(***************************************************************************)
(* daemon.py: one long-running process that scrapes the gateway in a loop, *)
(* republishes the audit ledger's trailing-24h counts and serves both to   *)
(* Prometheus, next to CLI processes that append to the same ledger.  The  *)
(* adapter appears as what get_state gives its caller (EnphaseAdapter):    *)
(* a fresh snapshot, the cached one, or an exception, and with a snapshot  *)
(* in its cache only a few exceptions are left.                            *)
(***************************************************************************)
EXTENDS AuditLedger

CONSTANTS
  Window,      \* the 24 hours of counts_by_label_last_24h, in ticks
  Attempts,    \* <<action, outcome>> pairs the CLI processes record
  CommitLag,   \* ticks a row's commit may come after its ts
  MaxTime,     \* bound on the clock
  MaxRows,     \* bound on the CLI's attempts
  MaxCrashes   \* bound on the daemon's crashes

ASSUME DaemonAssumption ==
  /\ Window \in Nat /\ CommitLag \in Nat
  /\ MaxTime \in Nat /\ MaxRows \in Nat /\ MaxCrashes \in Nat
  /\ Attempts \subseteq Actions \X Outcomes

Labels == Actions \X Outcomes
Absent == <<>>   \* a LazyGauge before its first set()
Never  == -1

VARIABLES
  now,       \* the clock of the host
  pc,        \* where the process is: see Boot, LoopTest, Scrape, Publish, Sleep, Finish
  stop,      \* the stop event the signal handlers set
  cacheTs,   \* the timestamp of the adapter's cached snapshot, or Never
  ageGauge,  \* enphase_state_age_seconds
  view,      \* enphase_writes_last_24h, by label pair
  lastRead,  \* when the gateway was last read successfully (history)
  crashes    \* crashes so far

process == <<pc, stop, cacheTs, ageGauge, view>>
vars == <<rows, lastId, now, process, lastRead, crashes>>

TypeOK ==
  /\ LedgerTypeOK
  /\ now \in 0 .. MaxTime
  /\ pc \in {"boot", "loop", "scrape", "publish", "sleep", "finish", "exited"}
  /\ stop \in BOOLEAN
  /\ cacheTs \in Never .. now
  /\ ageGauge \in 0 .. now
  /\ view = Absent \/ view \in [Labels -> Nat]
  /\ lastRead \in Never .. now
  /\ crashes \in 0 .. MaxCrashes

\* What a new process starts with: an empty cache, and a gauge that reads 0.
Fresh == stop' = FALSE /\ cacheTs' = Never /\ ageGauge' = 0 /\ view' = Absent

Init ==
  /\ LedgerInit
  /\ now = 0
  /\ pc = "boot" /\ stop = FALSE /\ cacheTs = Never /\ ageGauge = 0 /\ view = Absent
  /\ lastRead = Never /\ crashes = 0

-----------------------------------------------------------------------------
\* counts_by_label_last_24h, zero-filled by publish_write_counts.
TrailingCounts ==
  [label \in Labels |-> CountSince(label[1], label[2], now - Window)]

\* Mutant: no zero-fill, only the label pairs that have rows.
PublishNonZero(counts) ==
  view' = [label \in {l \in Labels : counts[l] > 0} |-> counts[label]]
\* Mutant: inc() instead of set(), a Counter in place of the Gauge.
AddCounts(counts) ==
  view' = IF view = Absent THEN counts
          ELSE [label \in Labels |-> view[label] + counts[label]]
PublishCounts(counts) == view' = counts

\* The ledger is opened before /metrics is served; a ledger that cannot be opened
\* ends the process, and Docker starts it again.
Boot ==
  /\ pc = "boot"
  /\ pc' = "loop"
  /\ UNCHANGED <<rows, lastId, now, stop, cacheTs, ageGauge, view, lastRead, crashes>>

\* Mutant: `while True`.
NextRound == pc' = "scrape"
\* while not stop.is_set()
LoopTest == pc' = IF stop THEN "finish" ELSE "scrape"

Loop ==
  /\ pc = "loop"
  /\ LoopTest
  /\ UNCHANGED <<rows, lastId, now, stop, cacheTs, ageGauge, view, lastRead, crashes>>

\* No age is negative, should the snapshot be stamped later than the clock reads.
Age(ts) == IF ts > now THEN 0 ELSE now - ts

\* Mutant: the age of the snapshot before, if there was one.
PublishCacheAge(ts) == ageGauge' = IF cacheTs = Never THEN Age(ts) ELSE Age(cacheTs)
\* _publish_state: the age of the snapshot, not of the call.
PublishState(ts) == ageGauge' = Age(ts)

\* Mutant: a failed scrape skips the rest of its round.
SkipTheRest == "sleep"
\* The finally clause refreshes the audit view whatever the gateway did.
AfterError == "publish"

\* get_state answers from the gateway, or from its cache; or raises, which leaves
\* every gauge of the state as it is.
Scrape ==
  /\ pc = "scrape"
  /\ \/ /\ cacheTs' = now /\ lastRead' = now
        /\ PublishState(now) /\ pc' = "publish"
     \/ /\ cacheTs # Never
        /\ PublishState(cacheTs) /\ pc' = "publish"
        /\ UNCHANGED <<cacheTs, lastRead>>
     \/ pc' = AfterError /\ UNCHANGED <<cacheTs, lastRead, ageGauge>>
  /\ UNCHANGED <<rows, lastId, now, stop, view, crashes>>

\* _publish_ledger; a failed query keeps the last value.
Publish ==
  /\ pc = "publish"
  /\ pc' = "sleep"
  /\ PublishCounts(TrailingCounts) \/ UNCHANGED view
  /\ UNCHANGED <<rows, lastId, now, stop, cacheTs, ageGauge, lastRead, crashes>>

\* wait_for(stop.wait(), timeout): the interval is over, or the event is set.
Sleep ==
  /\ pc = "sleep"
  /\ pc' = "loop"
  /\ UNCHANGED <<rows, lastId, now, stop, cacheTs, ageGauge, view, lastRead, crashes>>

\* The finally clause closes the adapter, the CLI's context manager the ledger.
Finish ==
  /\ pc = "finish"
  /\ pc' = "exited" /\ cacheTs' = Never
  /\ UNCHANGED <<rows, lastId, now, stop, ageGauge, view, lastRead, crashes>>

\* SIGTERM or SIGINT: the handler only sets the event.
Signal ==
  /\ pc \in {"loop", "scrape", "publish", "sleep"} /\ ~ stop
  /\ stop' = TRUE
  /\ UNCHANGED <<rows, lastId, now, pc, cacheTs, ageGauge, view, lastRead, crashes>>

\* The process dies and `restart: unless-stopped` starts another.
Crash ==
  /\ pc # "exited"
  /\ crashes < MaxCrashes /\ crashes' = crashes + 1
  /\ pc' = "boot" /\ Fresh
  /\ UNCHANGED <<rows, lastId, now, lastRead>>

\* A CLI process commits the row of an attempt, which it stamped before it waited
\* for SQLite's write lock.
Attempt ==
  /\ lastId < MaxRows
  /\ \E a \in Attempts, ts \in 0 .. now :
       ts >= now - CommitLag /\ Record(ts, a[1], a[2])
  /\ UNCHANGED <<now, process, lastRead, crashes>>

Tick ==
  /\ now < MaxTime
  /\ now' = now + 1
  /\ UNCHANGED <<rows, lastId, process, lastRead, crashes>>

Next == Boot \/ Loop \/ Scrape \/ Publish \/ Sleep \/ Finish
          \/ Signal \/ Crash \/ Attempt \/ Tick

Spec == Init /\ [][Next]_vars

\* The event loop runs what is ready, the interval ends, and a ledger that is
\* queried again and again does not fail every time.
FairSpec ==
  /\ Spec
  /\ WF_vars(Boot) /\ WF_vars(Loop) /\ WF_vars(Scrape) /\ WF_vars(Publish)
  /\ WF_vars(Sleep) /\ WF_vars(Finish)
  /\ SF_vars(Publish /\ PublishCounts(TrailingCounts))

-----------------------------------------------------------------------------
\* The materialized view invents nothing: no label pair ever shows more writes
\* than CLI processes committed, across restarts and repeated scrapes.
ViewNeverAhead ==
  view # Absent =>
    \A label \in Labels :
      view[label] <= Cardinality({r \in rows : <<r.action, r.outcome>> = label})

\* ... and omits nothing for good: once writes and clock have come to rest, the
\* view of a running daemon is the ledger's trailing window, rows that left the
\* window included.
ViewCatchesUp == <>[](pc = "exited" \/ view = TrailingCounts)

\* The age gauge errs on one side only: scrapes that raise and restarts may leave it
\* behind the age of the last successful read, but it never says more than that, so
\* an alert on it is never a false one.
AgeNeverOverstated == ageGauge <= now - lastRead

\* SIGTERM ends the loop by itself: the iteration in flight finishes, the session
\* is closed and the process leaves, unless it is killed first.
StopsCleanly == stop ~> (pc = "exited" \/ ~ stop)

\* metrics.py and README: enphase_state_age_seconds is "Seconds since the last
\* successful gateway read", at the end of every scrape that follows one.
StateAgeHonest ==
  [][ pc = "scrape" /\ pc' = "publish" /\ lastRead' # Never =>
        ageGauge' = now - lastRead' ]_vars

=============================================================================
