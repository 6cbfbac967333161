---------------------------- MODULE AdapterProofs ----------------------------
(***************************************************************************)
(* That the adapter is typed, leaves the gateway alone while its breaker   *)
(* is open, acts on recent state, degrades to its cache, and that the      *)
(* breaker inside it keeps its contract: for every limit, timeout and      *)
(* interval, and every way the gateway may behave.  And when the documents *)
(* are right about it where runs show that in general they are not.        *)
(***************************************************************************)
EXTENDS EnphaseAdapter, TLAPS

USE BreakerAssumption, AdapterAssumption

-----------------------------------------------------------------------------
(* How an operation moves on from one await to the next.                   *)

\* What every move of the operation has in common: it goes to the next await, with
\* a login if it needs one, and a write phase it enters has a basis.
Moves ==
  /\ pc' \in {"idle", "auth", "limit"}
  /\ pc' = "limit" => authenticated
  /\ pc' = "auth" => ~ authenticated
  /\ phase' \in {"read", "write"}
  /\ phase' = "write" => op.kind # "get_state" /\ basisAge' <= StaleAfter
  /\ result' \in Results
  /\ basisAge' \in 0 .. StaleAfter + 1
  /\ sinceCall' \in 0 .. MinInterval

\* The operation ends (adapter.py, every return and raise).
LEMMA ReturnMoves ==
  ASSUME AdapterInvariant, NEW r \in Results, Return(r), UNCHANGED sinceCall
  PROVE  Moves
BY DEF AdapterInvariant, TypeOK, WriteHasBasis, Return, Moves

\* A snapshot is handed out, or acted on if it is not stale (adapter.py,
\* _require_fresh_state).
LEMMA ServeMoves ==
  ASSUME AdapterInvariant, NEW m \in Modes, NEW age \in 0 .. StaleAfter + 1,
         NEW stale \in BOOLEAN, NEW label \in {"fresh", "cached", "stale"},
         ~ stale => age <= StaleAfter, Serve(m, age, stale, label)
  PROVE  Moves /\ (stale => pc' = "idle")
<1>1. CASE \E r \in Results : Return(r) /\ UNCHANGED sinceCall
  BY <1>1, ReturnMoves DEF Return
<1>2. CASE op.kind # "get_state" /\ ~ stale /\ Approach("write") /\ basisAge' = age
             /\ UNCHANGED result
  BY <1>2 DEF AdapterInvariant, TypeOK, Approach, Moves
<1> QED
  BY <1>1, <1>2 DEF Serve, FreshEnough, Results

\* A failing read falls back to the cache; nothing acts on it while the breaker is
\* open (adapter.py, get_state).
LEMMA FallBackMoves ==
  ASSUME AdapterInvariant, NEW forceStale \in BOOLEAN, NEW e \in Results,
         FallBack(forceStale, e)
  PROVE  Moves /\ (forceStale => pc' = "idle")
<1>1. CASE phase = "read" /\ cache # NoCache
  <2>1. cache \in Modes /\ cacheAge \in 0 .. StaleAfter + 1 /\ Stale(forceStale) \in BOOLEAN
    BY <1>1 DEF AdapterInvariant, TypeOK, Stale
  <2>2. /\ ~ Stale(forceStale) => cacheAge <= StaleAfter
        /\ forceStale => Stale(forceStale)
    BY <2>1 DEF Stale
  <2>3. Serve(cache, cacheAge, Stale(forceStale),
              IF Stale(forceStale) THEN "stale" ELSE "cached")
    BY <1>1 DEF FallBack
  <2> QED
    BY <2>1, <2>2, <2>3, ServeMoves
<1>2. CASE ~ (phase = "read" /\ cache # NoCache)
  BY <1>2, ReturnMoves DEF FallBack, Return
<1> QED
  BY <1>1, <1>2

-----------------------------------------------------------------------------
(* The invariant.                                                          *)

LEMMA InitInvariant == Init => AdapterInvariant
<1> SUFFICES ASSUME Init
             PROVE  AdapterInvariant
  OBVIOUS
<1>1. [kind |-> "get_state"] \in Operations
  BY DEF Operations
<1>2. /\ sinceHeld \in [Modes -> 0 .. StaleAfter + 1]
      /\ sinceHeld[mode] = 0
  BY DEF Init
<1>3. BreakerTypeOK
  BY DEF Init, BreakerInit, BreakerTypeOK, NotOpen
<1>4. op \in Operations /\ result \in Results
  BY <1>1 DEF Init, Results
<1>5. wait \in 0 .. MinInterval /\ sinceCall \in 0 .. MinInterval /\ outage \in 0 .. FailMax
  BY DEF Init
<1>6. cacheAge \in 0 .. StaleAfter + 1 /\ basisAge \in 0 .. StaleAfter + 1
  BY DEF Init
<1>7. TypeOK
  BY <1>2, <1>3, <1>4, <1>5, <1>6 DEF Init, TypeOK
<1> QED
  BY <1>2, <1>7 DEF Init, BreakerInit, AdapterInvariant, RestWhileOpen, IsOpen, BreakerSettled,
                    FailuresHappened, WriteHasBasis, CacheWasHeld, NotOpen

LEMMA BeginKeeps ==
  ASSUME AdapterInvariant, NEW o \in Operations, Begin(o)
  PROVE  AdapterInvariant'
BY DEF Begin, Approach, AdapterInvariant, TypeOK, BreakerTypeOK, RestWhileOpen, IsOpen,
       BreakerSettled, FailuresHappened, WriteHasBasis, CacheWasHeld, Results, gateway, breaker,
              session

LEMMA AuthenticateKeeps ==
  ASSUME AdapterInvariant, Authenticate
  PROVE  AdapterInvariant'
<1>0. UNCHANGED <<health, mode, breaker, cache, cacheAge, wait, op, sinceHeld>>
  BY DEF Authenticate
<1>1. CASE pc' = "limit" /\ authenticated' = TRUE /\ tokenGood' = TRUE
             /\ UNCHANGED <<phase, result, basisAge, sinceCall, outage>>
  BY <1>0, <1>1 DEF Authenticate, AdapterInvariant, TypeOK, BreakerTypeOK, RestWhileOpen, IsOpen,
                    BreakerSettled, FailuresHappened, WriteHasBasis, CacheWasHeld, breaker
<1>2. CASE Moves /\ UNCHANGED <<authenticated, tokenGood>> /\ outage' \in outage .. FailMax
  BY <1>0, <1>2 DEF Authenticate, Moves, AdapterInvariant, TypeOK, BreakerTypeOK, RestWhileOpen,
                    IsOpen, BreakerSettled, FailuresHappened, WriteHasBasis, CacheWasHeld, breaker
<1>3. outage' = outage \/ Unreachable => outage' \in outage .. FailMax
  BY DEF Unreachable, Older, AdapterInvariant, TypeOK
<1> QED
  BY <1>1, <1>2, <1>3, ReturnMoves, FallBackMoves DEF Authenticate, Results

LEMMA DispatchKeeps ==
  ASSUME AdapterInvariant, Dispatch
  PROVE  AdapterInvariant'
<1>1. CASE Admit /\ pc' = "reply" /\ sinceCall' = 0 /\ UNCHANGED <<phase, result, basisAge>>
  BY <1>1 DEF Dispatch, Admit, AdapterInvariant, TypeOK, BreakerTypeOK, RestWhileOpen, IsOpen,
              BreakerSettled, FailuresHappened, WriteHasBasis, CacheWasHeld, gateway, NotOpen
<1>2. CASE IsOpen /\ FallBack(TRUE, "CircuitOpen") /\ UNCHANGED breaker
  <2>1. Moves /\ pc' = "idle"
    BY <1>2, FallBackMoves DEF Results
  <2> QED
    BY <1>2, <2>1 DEF Dispatch, Moves, AdapterInvariant, TypeOK, BreakerTypeOK, RestWhileOpen,
                      IsOpen, BreakerSettled, FailuresHappened, WriteHasBasis, CacheWasHeld,
                             gateway, breaker
<1> QED
  BY <1>1, <1>2 DEF Dispatch

\* A tally settles the breaker again, and moves no one else.
LEMMA TallyKeeps ==
  ASSUME AdapterInvariant, openFor = NotOpen, CountSuccess \/ CountFailure \/ CountExcluded
  PROVE  /\ BreakerTypeOK'
         /\ (openFor # NotOpen => failures = FailMax)'
         /\ openFor' \in {NotOpen, 0}
BY DEF AdapterInvariant, TypeOK, BreakerTypeOK, CountSuccess, CountFailure, CountExcluded, NotOpen

\* What a tally counts is counted as part of the outage too, and a success ends both.
LEMMA TallyHappened ==
  ASSUME AdapterInvariant,
         \/ CountSuccess /\ outage' = 0
         \/ CountFailure /\ Unreachable
         \/ CountExcluded /\ UNCHANGED outage
  PROVE  outage' \in 0 .. FailMax /\ FailuresHappened'
BY DEF AdapterInvariant, TypeOK, BreakerTypeOK, FailuresHappened, CountSuccess, CountFailure,
       CountExcluded, Unreachable, Older

LEMMA ReadReplyKeeps ==
  ASSUME AdapterInvariant, ReadReply
  PROVE  AdapterInvariant'
<1>0. /\ pc = "reply" /\ phase = "read" /\ openFor = NotOpen /\ authenticated
      /\ UNCHANGED <<health, mode, tokenGood, wait, op, sinceHeld>>
  BY DEF ReadReply, AdapterInvariant, TypeOK, BreakerSettled, FailuresHappened, gateway
<1>1. CASE /\ CountSuccess /\ cache' = mode /\ cacheAge' = 0
           /\ Serve(mode, 0, FALSE, "fresh") /\ outage' = 0 /\ UNCHANGED authenticated
  <2>0. mode \in Modes /\ 0 \in 0 .. StaleAfter + 1 /\ 0 <= StaleAfter
    BY DEF AdapterInvariant, TypeOK
  <2>1. Moves
    BY <1>1, <2>0, ServeMoves
  <2>2. BreakerTypeOK' /\ openFor' = NotOpen /\ FailuresHappened'
    BY <1>0, <1>1, TallyKeeps, TallyHappened DEF CountSuccess
  <2>3. TypeOK'
    BY <1>0, <1>1, <2>1, <2>2 DEF Moves, AdapterInvariant, TypeOK
  <2>4. CacheWasHeld'
    BY <1>0, <1>1 DEF AdapterInvariant, TypeOK, CacheWasHeld
  <2> QED
    BY <1>0, <2>1, <2>2, <2>3, <2>4 DEF Moves, AdapterInvariant, RestWhileOpen, IsOpen,
       BreakerSettled, WriteHasBasis, NotOpen
<1>2. CASE /\ CountSuccess \/ CountFailure
           /\ Moves /\ outage' \in 0 .. FailMax /\ FailuresHappened'
           /\ UNCHANGED <<authenticated, cache, cacheAge>>
  BY <1>0, <1>2, TallyKeeps DEF Moves, AdapterInvariant, TypeOK, RestWhileOpen, IsOpen,
     BreakerSettled, WriteHasBasis, CacheWasHeld, NotOpen
<1>3. CASE /\ ForgetSession /\ CountExcluded /\ Return("AuthError")
           /\ UNCHANGED <<cache, cacheAge, sinceCall, outage>>
  BY <1>0, <1>3, TallyKeeps, TallyHappened, ReturnMoves DEF Return, ForgetSession, CountExcluded,
     AdapterInvariant, TypeOK, RestWhileOpen, IsOpen, BreakerSettled, FailuresHappened,
     WriteHasBasis, CacheWasHeld, NotOpen, Results
<1>4. /\ CountSuccess /\ outage' = 0 => outage' \in 0 .. FailMax /\ FailuresHappened'
      /\ CountFailure /\ Unreachable => outage' \in 0 .. FailMax /\ FailuresHappened'
  BY TallyHappened
<1> QED
  BY <1>1, <1>2, <1>3, <1>4, ReturnMoves, FallBackMoves DEF ReadReply, Results

LEMMA WriteReplyKeeps ==
  ASSUME AdapterInvariant, WriteReply
  PROVE  AdapterInvariant'
<1>0. /\ pc = "reply" /\ phase = "write" /\ openFor = NotOpen /\ authenticated
      /\ UNCHANGED <<health, tokenGood, cache, cacheAge, wait, op, sinceCall>>
      /\ sinceHeld' = [sinceHeld EXCEPT ![mode'] = 0]
  BY DEF WriteReply, Held, AdapterInvariant, TypeOK, BreakerSettled
<1>1. pc' = "idle" /\ UNCHANGED <<phase, basisAge>> /\ result' \in Results
  BY DEF WriteReply, Return, Results
<1>2. authenticated' \in BOOLEAN /\ outage' \in 0 .. FailMax /\ FailuresHappened'
  <2>1. authenticated' = authenticated \/ authenticated' = FALSE
    BY DEF WriteReply, ForgetSession
  <2>2. outage' \in 0 .. FailMax /\ FailuresHappened'
    BY TallyHappened DEF WriteReply
  <2> QED
    BY <2>1, <2>2 DEF AdapterInvariant, TypeOK
<1>3. mode' \in Modes
  BY DEF WriteReply, Execute, AdapterInvariant, TypeOK, Operations
<1>4. BreakerTypeOK' /\ (openFor # NotOpen => failures = FailMax)' /\ openFor' \in {NotOpen, 0}
  BY <1>0, TallyKeeps DEF WriteReply
<1>5. openFor' # NotOpen => UNCHANGED authenticated
  BY <1>0 DEF WriteReply, CountSuccess, CountExcluded
<1>6. TypeOK'
  BY <1>0, <1>1, <1>2, <1>3, <1>4 DEF AdapterInvariant, TypeOK
<1>7. CacheWasHeld'
  BY <1>0, <1>3 DEF AdapterInvariant, TypeOK, CacheWasHeld, Modes, NoCache
<1> QED
  BY <1>0, <1>1, <1>2, <1>4, <1>5, <1>6, <1>7 DEF AdapterInvariant, RestWhileOpen, IsOpen,
     BreakerSettled, WriteHasBasis, NotOpen

LEMMA CloseKeeps ==
  ASSUME AdapterInvariant, Close
  PROVE  AdapterInvariant'
BY DEF Close, AdapterInvariant, TypeOK, BreakerTypeOK, RestWhileOpen, IsOpen, BreakerSettled,
       FailuresHappened, WriteHasBasis, CacheWasHeld, gateway, breaker

LEMMA TickKeeps ==
  ASSUME AdapterInvariant, Tick
  PROVE  AdapterInvariant'
<1>1. /\ BreakerTypeOK' /\ BreakerSettled' /\ FailuresHappened'
      /\ IsOpen' => IsOpen
  BY DEF Tick, BreakerTick, Older, AdapterInvariant, TypeOK, BreakerTypeOK, BreakerSettled,
         FailuresHappened, IsOpen, NotOpen, caller
<1>2. /\ cacheAge' \in 0 .. StaleAfter + 1
      /\ wait' \in 0 .. MinInterval
      /\ sinceCall' \in 0 .. MinInterval
      /\ sinceHeld' \in [Modes -> 0 .. StaleAfter + 1]
  BY DEF Tick, Older, AdapterInvariant, TypeOK
<1>3. CacheWasHeld'
  BY DEF Tick, Older, AdapterInvariant, TypeOK, CacheWasHeld, gateway, Modes, NoCache
<1> QED
  BY <1>1, <1>2, <1>3 DEF Tick, AdapterInvariant, TypeOK, RestWhileOpen, WriteHasBasis, gateway,
     caller

LEMMA EnvironmentKeeps ==
  ASSUME AdapterInvariant, HealthChange \/ TokenExpires \/ AppChange
  PROVE  AdapterInvariant'
<1>0. UNCHANGED <<breaker, session, caller, sinceCall, outage>>
  BY DEF HealthChange, TokenExpires, AppChange
<1>1. health' \in Healths /\ tokenGood' \in BOOLEAN
  BY DEF HealthChange, TokenExpires, AppChange, AdapterInvariant, TypeOK
<1>2. \/ UNCHANGED <<mode, sinceHeld>>
      \/ mode' \in Modes /\ sinceHeld' = [sinceHeld EXCEPT ![mode'] = 0]
  BY DEF HealthChange, TokenExpires, AppChange, Held
<1>3. TypeOK'
  BY <1>0, <1>1, <1>2 DEF AdapterInvariant, TypeOK, BreakerTypeOK, breaker, session, caller
<1>4. CacheWasHeld'
  BY <1>0, <1>2 DEF AdapterInvariant, TypeOK, CacheWasHeld, session, Modes, NoCache
<1> QED
  BY <1>0, <1>3, <1>4 DEF AdapterInvariant, RestWhileOpen, IsOpen, BreakerSettled,
                          FailuresHappened, WriteHasBasis, breaker, session, caller

LEMMA StepKeeps ==
  ASSUME AdapterInvariant, [Next]_vars
  PROVE  AdapterInvariant'
<1>1. CASE UNCHANGED vars
  BY <1>1 DEF AdapterInvariant, TypeOK, BreakerTypeOK, RestWhileOpen, IsOpen, BreakerSettled,
              FailuresHappened, WriteHasBasis, CacheWasHeld, vars, gateway, breaker, session,
              caller
<1> QED
  BY <1>1, BeginKeeps, AuthenticateKeeps, DispatchKeeps, ReadReplyKeeps, WriteReplyKeeps,
     CloseKeeps, TickKeeps, EnvironmentKeeps DEF Next, Step

\* The conjunction that is inductive: what the breaker's two variables mean between
\* a call's gate and its tally, what a write phase rests on, how old the cache is.
THEOREM InvariantHolds == Spec => []AdapterInvariant
BY InitInvariant, StepKeeps, PTL DEF Spec

\* Every reachable state of the adapter is typed, and the client it asserts before a
\* call is there (adapter.py, _call).
THEOREM TypeCorrect == Spec => []TypeOK
BY InvariantHolds, PTL DEF AdapterInvariant

\* While the breaker is open nothing is in flight and nothing can go out, whatever
\* the login does past it (adapter.py, _ready_envoy and call_async).
THEOREM RestHolds == Spec => []RestWhileOpen
BY InvariantHolds, PTL DEF AdapterInvariant

\* The breaker opens on nothing less than FailMax unreachable calls or logins in a row
\* (adapter.py, call_async): no success is overlooked, no 401 counted.
THEOREM NoFalseAlarm == Spec => []OpensOnlyOnOutage
<1>1. AdapterInvariant => OpensOnlyOnOutage
  BY DEF AdapterInvariant, TypeOK, BreakerSettled, FailuresHappened, OpensOnlyOnOutage
<1> QED
  BY <1>1, InvariantHolds, PTL

\* A write on its way rests on a snapshot no older than STALE_AFTER (adapter.py,
\* _require_fresh_state).
THEOREM ActuationRecent == Spec => []ActsOnRecentState
<1>1. AdapterInvariant => ActsOnRecentState
  BY DEF AdapterInvariant, WriteHasBasis, ActsOnRecentState
<1> QED
  BY <1>1, InvariantHolds, PTL

-----------------------------------------------------------------------------
(* What single steps may do.                                               *)

\* A snapshot that makes a write redundant is recent, and so is the mode's presence.
LEMMA ServeNoop ==
  ASSUME AdapterInvariant, NEW m \in Modes, NEW age \in 0 .. StaleAfter + 1,
         NEW stale \in BOOLEAN, NEW label \in {"fresh", "cached", "stale"},
         ~ stale => age <= StaleAfter, sinceHeld[m] <= age,
         Serve(m, age, stale, label), result # "noop", result' = "noop"
  PROVE  sinceHeld[op.mode] <= StaleAfter
BY DEF Serve, FreshEnough, Return, Approach, AdapterInvariant, TypeOK

\* ... and so it is when the cache stands in for the gateway.
LEMMA FallBackNoop ==
  ASSUME AdapterInvariant, NEW forceStale \in BOOLEAN, NEW e \in Results \ {"noop"},
         FallBack(forceStale, e), result # "noop", result' = "noop"
  PROVE  sinceHeld[op.mode] <= StaleAfter
<1>1. phase = "read" /\ cache # NoCache
  BY DEF FallBack, Return
<1>2. /\ cache \in Modes /\ cacheAge \in 0 .. StaleAfter + 1 /\ Stale(forceStale) \in BOOLEAN
      /\ sinceHeld[cache] <= cacheAge
  BY <1>1 DEF AdapterInvariant, TypeOK, CacheWasHeld, Stale
<1>3. ~ Stale(forceStale) => cacheAge <= StaleAfter
  BY <1>2 DEF Stale
<1>4. Serve(cache, cacheAge, Stale(forceStale),
            IF Stale(forceStale) THEN "stale" ELSE "cached")
  BY <1>1 DEF FallBack
<1> QED
  BY <1>2, <1>3, <1>4, ServeNoop

\* A write is skipped as redundant only if the battery was in its mode at most
\* STALE_AFTER ago (adapter.py, set_battery_mode).
THEOREM NoopRecent == Spec => NoopOnRecentMode
<1>1. ASSUME AdapterInvariant, [Next]_vars, result # "noop", result' = "noop"
      PROVE  sinceHeld[op.mode] <= StaleAfter
  <2>1. CASE Authenticate
    BY <1>1, <2>1, FallBackNoop DEF Authenticate, Return, Results
  <2>2. CASE Dispatch
    BY <1>1, <2>2, FallBackNoop DEF Dispatch, Results
  <2>3. CASE ReadReply
    <3>1. CASE Serve(mode, 0, FALSE, "fresh")
      <4>1. /\ mode \in Modes /\ 0 \in 0 .. StaleAfter + 1 /\ 0 <= StaleAfter
            /\ sinceHeld[mode] <= 0
        BY <1>1 DEF AdapterInvariant, TypeOK, CacheWasHeld
      <4> QED
        BY <1>1, <3>1, <4>1, ServeNoop
    <3> QED
      BY <1>1, <2>3, <3>1, FallBackNoop DEF ReadReply, Return, Results
  <2>4. CASE ~ (Authenticate \/ Dispatch \/ ReadReply)
    BY <1>1, <2>4 DEF Next, Step, Begin, WriteReply, Return, Close, Tick, HealthChange,
                      TokenExpires, AppChange, vars, caller
  <2> QED
    BY <2>1, <2>2, <2>3, <2>4
<1>2. ASSUME AdapterInvariant, [Next]_vars
      PROVE  [result # "noop" /\ result' = "noop" => sinceHeld[op.mode] <= StaleAfter]_vars
  BY <1>1, <1>2
<1> QED
  BY <1>2, InvariantHolds, PTL DEF Spec, NoopOnRecentMode

\* What a get_state with a snapshot in hand may come to.
Degraded ==
  pc # "idle" /\ pc' = "idle" /\ op.kind = "get_state" /\ cache # NoCache =>
    \/ result' \in {"fresh", "cached", "stale", "AuthError"}
    \/ health = "partial" /\ result' = "data"

\* With a snapshot in hand, get_state answers whatever the gateway does, rejected
\* credentials and missing meters excepted (adapter.py, get_state).
THEOREM Degrades == Spec => DegradesGracefully
<1>1. ASSUME AdapterInvariant, [Next]_vars
      PROVE  Degraded
  <2> SUFFICES ASSUME pc # "idle", pc' = "idle", op.kind = "get_state", cache # NoCache
               PROVE  \/ result' \in {"fresh", "cached", "stale", "AuthError"}
                      \/ health = "partial" /\ result' = "data"
    BY DEF Degraded
  <2>1. phase = "read"
    BY <1>1 DEF AdapterInvariant, TypeOK, WriteHasBasis
  <2>2. Authenticate \/ Dispatch \/ ReadReply
    BY <1>1, <2>1 DEF Next, Step, Begin, WriteReply, Close, Tick, HealthChange, TokenExpires,
                      AppChange, vars, caller
  <2>3. ASSUME NEW forceStale, NEW e, FallBack(forceStale, e)
        PROVE  result' \in {"cached", "stale"}
    BY <2>1, <2>3 DEF FallBack, Serve, Return
  <2> QED
    BY <2>2, <2>3 DEF Authenticate, Dispatch, ReadReply, Serve, Return, Admit
<1>2. ASSUME AdapterInvariant, [Next]_vars
      PROVE  [Degraded]_vars
  BY <1>1, <1>2
<1> QED
  BY <1>2, InvariantHolds, PTL DEF Spec, DegradesGracefully, Degraded

\* What a read comes to, as its caller sees it.
Served ==
  /\ cache' # cache => cache' = mode /\ cacheAge' = 0
  /\ pc # "idle" /\ pc' = "idle" /\ op.kind = "get_state" =>
       \/ result' = "fresh" /\ cache' = mode /\ cacheAge' = 0
       \/ /\ result' \in {"cached", "stale"}
          /\ cache # NoCache /\ UNCHANGED <<cache, cacheAge>>
          /\ result' = "stale" <=> IsOpen \/ cacheAge > StaleAfter
       \/ /\ result' \in {"AuthError", "CircuitOpen", "raw", "data"}
          /\ UNCHANGED <<cache, cacheAge>>

\* adapter.py, get_state, for its callers: it comes back with the snapshot it has just
\* taken, or with the one it took before, its age and all, called stale if it is old or
\* the breaker open; or it raises and leaves that snapshot alone.  Nothing but a fresh
\* read replaces it.  This is the adapter that Daemon's Scrape assumes, and, with no
\* snapshot yet, that BatteryPolicy's Read does.
THEOREM SnapshotsServed == Spec => [][Served]_vars
<1>1. ASSUME AdapterInvariant, [Next]_vars
      PROVE  Served
  <2>0. cache \in Modes \cup {NoCache} /\ cacheAge \in 0 .. StaleAfter + 1
    BY <1>1 DEF AdapterInvariant, TypeOK
  <2>1. CASE UNCHANGED cache /\ ~ (pc # "idle" /\ pc' = "idle" /\ op.kind = "get_state")
    BY <2>1 DEF Served
  <2>2. ASSUME NEW forceStale \in BOOLEAN, NEW e \in {"CircuitOpen", "raw"},
               FallBack(forceStale, e), forceStale <=> IsOpen,
               UNCHANGED <<cache, cacheAge>>
        PROVE  Served
    <3>1. CASE phase = "read" /\ cache # NoCache
      BY <2>0, <2>2, <3>1 DEF FallBack, Serve, Return, Stale, Served
    <3>2. CASE ~ (phase = "read" /\ cache # NoCache)
      BY <2>2, <3>2 DEF FallBack, Return, Served
    <3> QED
      BY <3>1, <3>2
  <2>3. CASE Authenticate
    <3>1. ~ IsOpen /\ UNCHANGED <<cache, cacheAge>>
      BY <1>1, <2>3 DEF Authenticate, AdapterInvariant, RestWhileOpen
    <3> QED
      BY <2>2, <2>3, <3>1 DEF Authenticate, Return, Served
  <2>4. CASE Dispatch
    BY <2>2, <2>4 DEF Dispatch, Served
  <2>5. CASE ReadReply
    <3>1. ~ IsOpen
      BY <1>1, <2>5 DEF ReadReply, AdapterInvariant, BreakerSettled, IsOpen, NotOpen
    <3>2. CASE Answers /\ health # "partial"
      BY <2>5, <3>2 DEF ReadReply, Answers, Unauthorized, Serve, FreshEnough, Return, Approach,
                        Served
    <3>3. CASE ~ (Answers /\ health # "partial")
      BY <2>2, <2>5, <3>1, <3>3 DEF ReadReply, Return, Served
    <3> QED
      BY <3>2, <3>3
  <2>6. CASE WriteReply
    BY <1>1, <2>1, <2>6 DEF WriteReply, AdapterInvariant, WriteHasBasis
  <2>7. CASE ~ (Authenticate \/ Dispatch \/ ReadReply \/ WriteReply)
    BY <1>1, <2>1, <2>7 DEF Next, Step, Begin, Close, Tick, HealthChange, TokenExpires, AppChange,
                            vars, session, caller
  <2> QED
    BY <2>3, <2>4, <2>5, <2>6, <2>7
<1>2. ASSUME AdapterInvariant, [Next]_vars
      PROVE  [Served]_vars
  BY <1>1, <1>2
<1> QED
  BY <1>2, InvariantHolds, PTL DEF Spec

-----------------------------------------------------------------------------
(* When the documented claims that fail are true.                          *)

LoginReachesGateway == pc = "auth" => health # "offline"

OutageCounted == outage <= failures

LEMMA OutageStaysCounted ==
  ASSUME AdapterInvariant, LoginReachesGateway, OutageCounted, [Next]_vars
  PROVE  OutageCounted'
<1> USE DEF OutageCounted
<1>1. CASE UNCHANGED <<outage, failures>>
  BY <1>1
<1>2. CASE Authenticate
  BY <1>2 DEF Authenticate, LoginReachesGateway, breaker
<1>3. CASE ReadReply \/ WriteReply
  <2>1. \/ CountSuccess /\ outage' = 0
        \/ CountFailure /\ Unreachable
        \/ CountExcluded /\ UNCHANGED outage
    BY <1>3 DEF ReadReply, WriteReply
  <2> QED
    BY <2>1 DEF AdapterInvariant, TypeOK, BreakerTypeOK, CountSuccess, CountFailure, CountExcluded,
                Unreachable, Older
<1> QED
  BY <1>1, <1>2, <1>3 DEF Next, Step, Begin, Dispatch, Admit, Close, Tick, BreakerTick,
     HealthChange, TokenExpires, AppChange, vars, breaker

\* README: "After 5 consecutive failures the breaker opens" is true as long as no login
\* finds the gateway unreachable, since only the login goes past the breaker
\* (adapter.py, _ready_envoy): that is what adapter_outage drops.
THEOREM OutageOpens ==
  Spec /\ []LoginReachesGateway => []BreakerOpensOnOutage
<1>1. Init => OutageCounted
  BY DEF Init, BreakerInit, OutageCounted
<1>2. AdapterInvariant /\ OutageCounted => BreakerOpensOnOutage
  BY DEF AdapterInvariant, TypeOK, BreakerTypeOK, OutageCounted, BreakerOpensOnOutage
<1> QED
  BY <1>1, <1>2, OutageStaysCounted, InvariantHolds, PTL DEF Spec

\* What is left of the interval, and what has passed since the last call, make up an
\* interval.
Paced == sinceCall + wait >= MinInterval

LEMMA StepPaced ==
  ASSUME AdapterInvariant, AdapterInvariant', [Next]_vars
  PROVE  /\ Paced /\ pc' # "auth" => Paced'
         /\ pc' = "reply" /\ pc # "reply" => Paced' /\ (Paced => sinceCall = MinInterval)
<1> USE DEF Paced
<1>0. /\ sinceCall \in 0 .. MinInterval /\ wait \in 0 .. MinInterval
      /\ sinceCall' \in 0 .. MinInterval /\ wait' \in 0 .. MinInterval
      /\ MinInterval \in Nat /\ sinceCall' \in Nat
  BY DEF AdapterInvariant, TypeOK
<1>1. CASE Dispatch
  <2>1. wait = 0 /\ wait' = MinInterval
    BY <1>1 DEF Dispatch
  <2>2. Paced'
    <3>1. \A t \in Nat : t + MinInterval >= MinInterval
      BY <1>0
    <3> QED
      BY <1>0, <2>1, <3>1
  <2>3. Paced => sinceCall = MinInterval
    BY <1>0, <2>1
  <2> QED
    BY <2>2, <2>3
<1>2. CASE Tick
  BY <1>0, <1>2 DEF Tick, Older, caller
<1>3. CASE ~ (Dispatch \/ Tick)
  <2>1. ASSUME NEW forceStale, NEW e, FallBack(forceStale, e), pc' # "auth"
        PROVE  UNCHANGED sinceCall /\ pc' # "reply"
    BY <2>1 DEF FallBack, Serve, Return, Approach
  <2>2. wait' = wait /\ (pc' # "auth" => sinceCall' = sinceCall)
    BY <1>3, <2>1 DEF Next, Step, Begin, Approach, Authenticate, ReadReply, Serve, Return,
       WriteReply, Close, HealthChange, TokenExpires, AppChange, vars, session
  <2>3. pc' = "reply" => pc = "reply"
    BY <1>3, <2>1 DEF Next, Step, Begin, Approach, Authenticate, ReadReply, Serve, Return,
       WriteReply, Close, HealthChange, TokenExpires, AppChange, vars, caller
  <2> QED
    BY <2>2, <2>3
<1> QED
  BY <1>1, <1>2, <1>3

\* README: "A 2-second floor between outbound calls" is true from any call on, for as
\* long as its session lasts (adapter.py, acquire): what adapter_spacing shows is the
\* login, which does not wait and is not waited for.
THEOREM SpacedInSession ==
  Spec => [](pc = "reply" /\ [](pc # "auth") => CallsSpaced)
<1> DEFINE CallIsPaced == pc = "reply" => Paced
<1>1. Init => CallIsPaced
  BY DEF Init
<1>2. ASSUME AdapterInvariant, AdapterInvariant', CallIsPaced, [Next]_vars
      PROVE  CallIsPaced'
  BY <1>2, StepPaced
<1>3. ASSUME AdapterInvariant, AdapterInvariant', Paced, pc' # "auth", [Next]_vars
      PROVE  /\ Paced'
             /\ [pc' # pc /\ pc' \in {"auth", "reply"} => sinceCall = MinInterval]_vars
  BY <1>3, StepPaced
<1>4. (pc # "auth")' => pc' # "auth"
  OBVIOUS
<1> QED
  BY <1>1, <1>2, <1>3, <1>4, InvariantHolds, PTL DEF Spec, CallsSpaced

MetersAnswer == health # "partial"

\* adapter.py, _to_state: "an absent meter must degrade to absent fields, not crash the
\* daemon".  Where meters and batteries are all there nothing else raises in the
\* translation, and a read with a snapshot in hand fails on rejected credentials only.
THEOREM MetersPresent ==
  Spec /\ []MetersAnswer =>
    /\ []AbsentMeterDegrades
    /\ [][ pc # "idle" /\ pc' = "idle" /\ op.kind = "get_state" /\ cache # NoCache =>
             result' \in {"fresh", "cached", "stale", "AuthError"} ]_vars
<1>1. Init => AbsentMeterDegrades
  BY DEF Init, AbsentMeterDegrades
<1>2. ASSUME MetersAnswer, AbsentMeterDegrades, [Next]_vars
      PROVE  AbsentMeterDegrades'
  <2>1. ASSUME NEW forceStale, NEW e \in {"raw", "CircuitOpen"}, FallBack(forceStale, e)
        PROVE  result' # "data"
    BY <1>2, <2>1 DEF AbsentMeterDegrades, FallBack, Serve, Return
  <2> QED
    BY <1>2, <2>1 DEF MetersAnswer, AbsentMeterDegrades, Next, Step, Begin, Authenticate, Dispatch,
       ReadReply, Serve, Return, WriteReply, Close, Tick, HealthChange, TokenExpires, AppChange,
       vars, caller
<1>3. ASSUME MetersAnswer, [Degraded]_vars
      PROVE  [ pc # "idle" /\ pc' = "idle" /\ op.kind = "get_state" /\ cache # NoCache =>
                 result' \in {"fresh", "cached", "stale", "AuthError"} ]_vars
  BY <1>3 DEF MetersAnswer, Degraded
<1>4. Spec => [][Degraded]_vars
  BY Degrades DEF DegradesGracefully, Degraded
<1> QED
  BY <1>1, <1>2, <1>3, <1>4, PTL DEF Spec

-----------------------------------------------------------------------------
(* The breaker keeps its contract.                                         *)

\* What the breaker's two variables may do in a step, and when.
BreakerStep ==
  \/ UNCHANGED breaker
  \/ Admit
  \/ BreakerTick
  \/ openFor = NotOpen /\ (CountFailure \/ CountSuccess)

LEMMA BreakerSteps ==
  ASSUME AdapterInvariant, [Next]_vars
  PROVE  BreakerStep
BY DEF AdapterInvariant, BreakerSettled, Next, Step, Begin, Authenticate, Dispatch, ReadReply,
       WriteReply, Close, Tick, HealthChange, TokenExpires, AppChange, CountExcluded, BreakerStep,
       breaker, vars

\* The breaker inside the adapter implements what its docstring promises
\* (adapter.py, _AsyncCircuitBreaker).
THEOREM ContractKept == Spec => KeepsContract
<1> DEFINE strikes == IF BreakerState = "closed" THEN failures ELSE 0
           rest == IF openFor = NotOpen THEN 0 ELSE ResetTimeout - openFor
<1>1. Init => Contract!Init
  BY DEF Init, BreakerInit, Contract!Init, BreakerState
<1>2. ASSUME AdapterInvariant, AdapterInvariant', [Next]_vars
      PROVE  [Contract!Next]_<<BreakerState, strikes, rest>>
  <2>0. /\ failures \in 0 .. FailMax /\ openFor \in NotOpen .. ResetTimeout
        /\ openFor # NotOpen => failures = FailMax
    BY <1>2 DEF AdapterInvariant, TypeOK, BreakerTypeOK, BreakerSettled
  <2>1. CASE UNCHANGED breaker
    BY <2>1 DEF breaker, BreakerState
  <2>2. CASE Admit
    <3>1. openFor = NotOpen \/ openFor = ResetTimeout
      BY <2>0, <2>2 DEF Admit, IsOpen, NotOpen
    <3>2. CASE openFor = NotOpen
      BY <2>2, <3>2 DEF Admit, BreakerState
    <3>3. CASE openFor = ResetTimeout
      BY <2>0, <2>2, <3>3 DEF Admit, BreakerState, NotOpen, Contract!Next, Contract!StartProbe
    <3> QED
      BY <3>1, <3>2, <3>3
  <2>3. CASE BreakerTick
    <3>1. CASE openFor \in {NotOpen, ResetTimeout}
      BY <2>3, <3>1 DEF BreakerTick, Older, BreakerState, NotOpen
    <3>2. CASE openFor \in 0 .. ResetTimeout - 1
      BY <2>0, <2>3, <3>2 DEF BreakerTick, Older, BreakerState, NotOpen, Contract!Next,
                              Contract!Rest
    <3> QED
      BY <2>0, <3>1, <3>2 DEF NotOpen
  <2>4. CASE openFor = NotOpen /\ CountSuccess
    BY <2>0, <2>4 DEF CountSuccess, BreakerState, NotOpen, Contract!Next, Contract!Success
  <2>5. CASE openFor = NotOpen /\ CountFailure
    <3>1. CASE failures = FailMax
      BY <2>5, <3>1 DEF CountFailure, BreakerState, NotOpen, Contract!Next,
                        Contract!FailedProbe, Contract!Trip
    <3>2. CASE failures < FailMax
      BY <2>0, <2>5, <3>2 DEF CountFailure, BreakerState, NotOpen, Contract!Next,
                              Contract!Strike, Contract!Trip
    <3> QED
      BY <2>0, <3>1, <3>2
  <2> QED
    BY <1>2, <2>1, <2>2, <2>3, <2>4, <2>5, BreakerSteps DEF BreakerStep
<1> QED
  BY <1>1, <1>2, InvariantHolds, PTL DEF Spec, KeepsContract, Contract!Spec, Contract!vars

=============================================================================
