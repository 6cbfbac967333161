--------------------------- MODULE EnphaseAdapter ---------------------------
(***************************************************************************)
(* The adapter as one sequential caller drives it, the daemon's loop or a  *)
(* CLI command: get_state and the two write operations, each a read        *)
(* followed by a write, every gateway call going authentication, limiter,  *)
(* breaker, call.  The gateway and its cloud login, which are not code of  *)
(* this repository, appear as what they answer: `health`, and whether the  *)
(* token the login issued is still good.                                   *)
(***************************************************************************)
EXTENDS CircuitBreaker

CONSTANTS
  StaleAfter,   \* STALE_AFTER, in ticks
  MinInterval,  \* MIN_CALL_INTERVAL_S, in ticks
  Healths,      \* the moods of the gateway considered
  AppModes      \* modes the homeowner may choose in Enphase's own app

Modes == {"self_consumption", "savings"}
NoCache == "none"

\* "partial": it answers, without the consumption meter or the batteries;
\* "rejects_login": the cloud turns the credentials down.
ASSUME AdapterAssumption ==
  /\ StaleAfter \in Nat
  /\ MinInterval \in Nat \ {0}
  /\ Healths \subseteq {"ok", "offline", "rejects_login", "partial"}
  /\ AppModes \subseteq Modes

Operations ==
  [kind : {"get_state", "set_reserve_soc"}] \cup
  [kind : {"set_battery_mode"}, mode : Modes]

\* What an operation returned or raised: "raw" is an exception of pyenphase or
\* aiohttp, "data" one raised while translating the answer.
Results == {"none", "fresh", "cached", "stale", "noop", "written",
            "AuthError", "CircuitOpen", "StaleStateError", "raw", "data"}

VARIABLES
  health, mode,        \* the gateway
  tokenGood,           \* it still accepts the token of the last login
  authenticated,       \* _authenticated
  cache, cacheAge,     \* the mode in _cache, and the ticks since its ts
  wait,                \* ticks until the limiter's _next_free
  pc,                  \* the await the operation is at
  phase,               \* the read of an operation, or the write that follows it
  op, result,          \* the operation, and what it came to
  \* History, for the properties only:
  basisAge,            \* age of the snapshot the write phase acts on, when checked
  sinceCall,           \* ticks since the last outbound call began
  outage,              \* calls and logins in a row that found the gateway unreachable
  sinceHeld            \* for each mode, ticks since the gateway last was in it

gateway == <<health, mode, tokenGood>>
breaker == <<failures, openFor>>
session == <<authenticated, cache, cacheAge, wait>>
caller  == <<pc, phase, op, result, basisAge>>
vars == <<gateway, breaker, session, caller, sinceCall, outage, sinceHeld>>

TypeOK ==
  /\ BreakerTypeOK
  /\ health \in Healths /\ mode \in Modes
  /\ authenticated \in BOOLEAN /\ tokenGood \in BOOLEAN
  /\ cache \in Modes \cup {NoCache}
  /\ cacheAge \in 0 .. StaleAfter + 1
  /\ wait \in 0 .. MinInterval
  /\ pc \in {"idle", "auth", "limit", "reply", "closed"}
  /\ phase \in {"read", "write"}
  /\ op \in Operations
  /\ result \in Results
  /\ basisAge \in 0 .. StaleAfter + 1
  /\ sinceCall \in 0 .. MinInterval
  /\ outage \in 0 .. FailMax
  /\ sinceHeld \in [Modes -> 0 .. StaleAfter + 1]
  \* assert self._envoy is not None
  /\ pc \in {"limit", "reply"} => authenticated

Init ==
  /\ BreakerInit
  /\ health \in Healths /\ mode \in Modes
  /\ authenticated = FALSE /\ tokenGood = FALSE
  /\ cache = NoCache /\ cacheAge = 0
  /\ wait = 0
  /\ pc = "idle" /\ phase = "read"
  /\ op = [kind |-> "get_state"] /\ result = "none"
  /\ basisAge = 0
  /\ sinceCall = MinInterval
  /\ outage = 0
  /\ sinceHeld = [m \in Modes |-> IF m = mode THEN 0 ELSE StaleAfter + 1]

-----------------------------------------------------------------------------
(* How an operation moves on from one await to the next.                   *)

\* Mutant: the write phase takes the login of the read phase for granted.
ApproachLoggedIn(p) ==
  /\ phase' = p
  /\ IF authenticated \/ p = "write" THEN pc' = "limit" /\ UNCHANGED sinceCall
                                     ELSE pc' = "auth" /\ sinceCall' = 0
\* _ready_envoy: setup() and authenticate() go out at once, past the limiter.
Approach(p) ==
  /\ phase' = p
  /\ IF authenticated THEN pc' = "limit" /\ UNCHANGED sinceCall
                      ELSE pc' = "auth" /\ sinceCall' = 0

Return(r) == pc' = "idle" /\ result' = r /\ UNCHANGED <<phase, basisAge>>

\* _require_fresh_state.
FreshEnough(stale) == ~ stale

\* get_state hands a snapshot to its caller; a write operation goes on from it.
Serve(m, age, stale, label) ==
  \/ /\ op.kind = "get_state"
     /\ Return(label) /\ UNCHANGED sinceCall
  \/ /\ op.kind # "get_state" /\ ~ FreshEnough(stale)
     /\ Return("StaleStateError") /\ UNCHANGED sinceCall
  \/ /\ op.kind # "get_state" /\ FreshEnough(stale)
     /\ IF op.kind = "set_battery_mode" /\ op.mode = m
        THEN Return("noop") /\ UNCHANGED sinceCall
        ELSE Approach("write") /\ basisAge' = age /\ UNCHANGED result

\* Mutant: the cache never expires.
NeverExpires(forceStale) == forceStale
\* _cached: stale on demand, or once older than STALE_AFTER.
Stale(forceStale) == forceStale \/ cacheAge > StaleAfter

\* Mutant: an open breaker is not degraded to the cache.
FallBackUnlessOpen(forceStale, e) ==
  IF phase = "read" /\ cache # NoCache /\ ~ forceStale
  THEN Serve(cache, cacheAge, Stale(forceStale),
             IF Stale(forceStale) THEN "stale" ELSE "cached")
  ELSE Return(e) /\ UNCHANGED sinceCall
\* A gateway call of this phase failed with e: a read falls back to the cache,
\* if there is one; a write just fails.
FallBack(forceStale, e) ==
  IF phase = "read" /\ cache # NoCache
  THEN Serve(cache, cacheAge, Stale(forceStale),
             IF Stale(forceStale) THEN "stale" ELSE "cached")
  ELSE Return(e) /\ UNCHANGED sinceCall

\* Mutant: an expired session is kept.
KeepSession == UNCHANGED authenticated
\* _call: force a re-auth on the next call.
ForgetSession == authenticated' = FALSE

\* The answer to a call is a 401; a success; or does not come.
Unauthorized == health # "offline" /\ ~ tokenGood
Answers      == health # "offline" /\ tokenGood
Unreachable == outage' = Older(outage, FailMax)

-----------------------------------------------------------------------------
(* One action per await.                                                   *)

Begin(o) ==
  /\ pc = "idle"
  /\ op' = o /\ result' = "none" /\ basisAge' = 0
  /\ Approach("read")
  /\ UNCHANGED <<gateway, breaker, session, outage, sinceHeld>>

\* _ensure_auth comes back.  Rejected credentials are never degraded.
Authenticate ==
  /\ pc = "auth"
  /\ \/ /\ health \in {"ok", "partial"}
        /\ authenticated' = TRUE /\ tokenGood' = TRUE
        /\ pc' = "limit" /\ UNCHANGED <<phase, result, basisAge, sinceCall, outage>>
     \/ /\ health = "rejects_login"
        /\ Return("AuthError")
        /\ UNCHANGED <<authenticated, tokenGood, sinceCall, outage>>
     \/ /\ health = "offline"
        /\ FallBack(FALSE, "raw") /\ Unreachable
        /\ UNCHANGED <<authenticated, tokenGood>>
  /\ UNCHANGED <<health, mode, breaker, cache, cacheAge, wait, op, sinceHeld>>

\* The limiter grants its token, then the breaker lets the call out or not.
Dispatch ==
  /\ pc = "limit" /\ wait = 0
  /\ wait' = MinInterval
  /\ \/ /\ Admit
        /\ pc' = "reply" /\ sinceCall' = 0
        /\ UNCHANGED <<phase, result, basisAge>>
     \/ /\ IsOpen
        /\ FallBack(TRUE, "CircuitOpen")
        /\ UNCHANGED breaker
  /\ UNCHANGED <<gateway, authenticated, cache, cacheAge, op, outage, sinceHeld>>

\* Envoy.update() comes back.
ReadReply ==
  /\ pc = "reply" /\ phase = "read"
  /\ \/ /\ Answers /\ health # "partial"
        /\ CountSuccess
        /\ cache' = mode /\ cacheAge' = 0
        /\ Serve(mode, 0, FALSE, "fresh")
        /\ outage' = 0 /\ UNCHANGED authenticated
     \/ \* _to_state reads the missing parts unguarded, past every except clause.
        /\ Answers /\ health = "partial"
        /\ CountSuccess
        /\ Return("data")
        /\ outage' = 0 /\ UNCHANGED <<authenticated, cache, cacheAge, sinceCall>>
     \/ /\ health = "offline"
        /\ CountFailure
        /\ FallBack(FALSE, "raw")
        /\ Unreachable /\ UNCHANGED <<authenticated, cache, cacheAge>>
     \/ /\ Unauthorized
        /\ ForgetSession /\ CountExcluded
        /\ Return("AuthError")
        /\ UNCHANGED <<cache, cacheAge, sinceCall, outage>>
  /\ UNCHANGED <<gateway, wait, op, sinceHeld>>

Held(m) == sinceHeld' = [sinceHeld EXCEPT ![m] = 0]

Execute == mode' = IF op.kind = "set_battery_mode" THEN op.mode ELSE mode

\* set_storage_mode() or set_reserve_soc() comes back, or fails to come back
\* after the gateway executed it.  The cache is left as the read phase left it.
WriteReply ==
  /\ pc = "reply" /\ phase = "write"
  /\ \/ /\ Answers
        /\ Execute /\ CountSuccess
        /\ Return("written")
        /\ outage' = 0 /\ UNCHANGED authenticated
     \/ /\ health = "offline"
        /\ Execute \/ UNCHANGED mode
        /\ CountFailure
        /\ Return("raw")
        /\ Unreachable /\ UNCHANGED authenticated
     \/ /\ Unauthorized
        /\ ForgetSession /\ CountExcluded
        /\ Return("AuthError")
        /\ UNCHANGED <<mode, outage>>
  /\ Held(mode')
  /\ UNCHANGED <<health, tokenGood, cache, cacheAge, wait, op, sinceCall>>

\* __aexit__: the owner is done with the adapter.
Close ==
  /\ pc = "idle"
  /\ pc' = "closed" /\ authenticated' = FALSE
  /\ UNCHANGED <<gateway, breaker, cache, cacheAge, wait, phase, op, result,
                 basisAge, sinceCall, outage, sinceHeld>>

Tick ==
  /\ BreakerTick
  /\ wait' = IF wait > 0 THEN wait - 1 ELSE 0
  /\ cacheAge' = IF cache = NoCache THEN 0 ELSE Older(cacheAge, StaleAfter + 1)
  /\ sinceCall' = Older(sinceCall, MinInterval)
  /\ sinceHeld' = [m \in Modes |->
                     IF m = mode THEN 0 ELSE Older(sinceHeld[m], StaleAfter + 1)]
  /\ UNCHANGED <<gateway, authenticated, cache, caller, outage>>

HealthChange ==
  /\ health' \in Healths \ {health}
  /\ UNCHANGED <<mode, tokenGood, breaker, session, caller, sinceCall, outage, sinceHeld>>

TokenExpires ==
  /\ tokenGood /\ tokenGood' = FALSE
  /\ UNCHANGED <<health, mode, breaker, session, caller, sinceCall, outage, sinceHeld>>

AppChange ==
  /\ mode' \in AppModes \ {mode}
  /\ Held(mode')
  /\ UNCHANGED <<health, tokenGood, breaker, session, caller, sinceCall, outage>>

Step == (\E o \in Operations : Begin(o)) \/ Authenticate \/ Dispatch
          \/ ReadReply \/ WriteReply

Next == Step \/ Close \/ Tick \/ HealthChange \/ TokenExpires \/ AppChange

Spec == Init /\ [][Next]_vars

\* The daemon's loop calls again and again until it is stopped, every call is
\* answered or times out, and time passes.
FairSpec == Spec /\ WF_vars(Step) /\ WF_vars(Tick)

-----------------------------------------------------------------------------
(* What the adapter promises.                                              *)

\* The breaker behind the adapter keeps its contract, whatever the login, the
\* limiter and the cache do around it.
BreakerState == IF openFor # NotOpen THEN "open"
                ELSE IF failures = FailMax THEN "half_open" ELSE "closed"
Contract == INSTANCE BreakerContract WITH
  state   <- BreakerState,
  strikes <- IF BreakerState = "closed" THEN failures ELSE 0,
  rest    <- IF openFor = NotOpen THEN 0 ELSE ResetTimeout - openFor
KeepsContract == Contract!Spec

\* While the breaker is open the gateway is left alone: no call is out and none
\* can go out, although the login bypasses the breaker altogether.
RestWhileOpen ==
  IsOpen => pc \notin {"auth", "reply"} /\ (pc # "closed" => authenticated)

\* No false alarm: the breaker opens on no less than FailMax calls or logins in a row
\* that found the gateway unreachable, of which one operation may make several.  A 401
\* among them is none of them.
OpensOnlyOnOutage == openFor # NotOpen => outage = FailMax

\* Reads may be old, actuation on old data may not: a write that is on its way
\* rests on a snapshot that was no older than STALE_AFTER when it was checked.
ActsOnRecentState == phase = "write" /\ pc # "idle" => basisAge <= StaleAfter

\* A write skipped as redundant was redundant at most STALE_AFTER ago: a cache that
\* no write refreshes may answer for a mode the battery has left since, the
\* adapter's own write included, but not for longer than actuation trusts it.
NoopOnRecentMode ==
  [][ result # "noop" /\ result' = "noop" => sinceHeld[op.mode] <= StaleAfter ]_vars

\* Graceful degradation: with a snapshot in hand, get_state answers whatever the
\* gateway does, rejected credentials (and, as the code stands, an answer without
\* the meters) excepted.
DegradesGracefully ==
  [][ pc # "idle" /\ pc' = "idle" /\ op.kind = "get_state" /\ cache # NoCache =>
        \/ result' \in {"fresh", "cached", "stale", "AuthError"}
        \/ health = "partial" /\ result' = "data" ]_vars

\* The outage ends: a gateway that is well again is read again and again, past the
\* breaker's rest and an expired session, as long as tokens do not expire faster
\* than they are used and nobody closes the adapter.
Recovers ==
  /\ <>[](health = "ok")
  /\ <>[][tokenGood => tokenGood']_vars
  /\ [](pc # "closed")
  => []<>(cache # NoCache /\ cacheAge = 0)

\* README: "a 2-second floor between outbound calls".
CallsSpaced ==
  [][ pc' # pc /\ pc' \in {"auth", "reply"} => sinceCall = MinInterval ]_vars

\* README: "After 5 consecutive failures the breaker opens".
BreakerOpensOnOutage ==
  outage = FailMax /\ pc = "idle" => openFor # NotOpen \/ failures = FailMax

\* adapter.py, _to_state: "an absent meter must degrade to absent fields, not
\* crash the daemon".
AbsentMeterDegrades == result # "data"

-----------------------------------------------------------------------------
(* Why they hold, as invariants that every step preserves.                 *)

\* Between a call's gate and its tally the breaker is not open: nobody else calls.
\* While it is, the failure count stays at its limit, which makes the first failure
\* after the rest open it again.
BreakerSettled ==
  /\ pc = "reply" => openFor = NotOpen
  /\ openFor # NotOpen => failures = FailMax

\* The breaker counts no failure that did not happen.  It may miss some: those of the
\* login.
FailuresHappened == failures <= outage

\* A write phase belongs to a write operation, and rests on a recent snapshot, as
\* long as its phase is remembered.
WriteHasBasis ==
  phase = "write" => op.kind # "get_state" /\ basisAge <= StaleAfter

\* The gateway was in the mode of the cache when the cache was taken, if not since.
CacheWasHeld ==
  /\ sinceHeld[mode] = 0
  /\ cache # NoCache => sinceHeld[cache] <= cacheAge

AdapterInvariant ==
  /\ TypeOK
  /\ RestWhileOpen
  /\ BreakerSettled
  /\ FailuresHappened
  /\ WriteHasBasis
  /\ CacheWasHeld

=============================================================================
