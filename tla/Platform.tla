------------------------------ MODULE Platform ------------------------------
(***************************************************************************)
(* What keeps the load off the database and its answers recent: the rate   *)
(* limiters (rate-limiter.middleware.ts in the process,                    *)
(* advanced-rate-limiter.middleware.ts in Redis), the public figures       *)
(* (public-stats.service.ts), cache-aside and locks over Redis             *)
(* (cache.util.ts, redis.service.ts).  All of it is about time, so there   *)
(* is a clock; one visitor and one key of each kind stand for the rest,    *)
(* since no two keys meet.                                                 *)
(***************************************************************************)
EXTENDS Service, Sequences, FiniteSets

CONSTANTS
  MaxTime,        \* bound: the clock stops here
  WindowMs,       \* windowMs of a limiter
  MaxPerWindow,   \* maxRequests of a limiter
  TTL             \* CACHE_TTL_MS, and the ttl of every key

ASSUME PlatformAssumption ==
  MaxTime \in Nat /\ WindowMs \in Nat /\ MaxPerWindow \in Nat \ {0} /\ TTL \in Nat \ {0}

VARIABLES
  clock,          \* Date.now()
  store,          \* the visitor's window in the RateLimiter, or Nil
  passes,         \* history: the times of the requests the RateLimiter let pass
  figures,        \* PublicStatsService.cache, or Nil
  shown,          \* history: when the last answer of getStats was asked for and read
  connected,      \* isConnected of RedisService
  redis,          \* the keys in Redis, Nil for one that is not there
  platformCall

platformState == <<clock, store, passes, figures, shown, connected, redis, platformCall>>

platformVars == <<platformState, budgetVars>>

RedisKeys == {"statistics", "counter", "lock"}

Never == MaxTime + TTL + 1

Windows == [count : Nat, resetTime : Nat]

ASSUME WindowsAssumption == Nil \notin Windows

PlatformOps == {"none", "public", "statistics", "limit", "acquire", "extend", "release"}

PlatformStages ==
  {"idle", "querying", "storing", "getting", "fetching", "fetchingAgain", "setting",
   "looking", "incrementing", "expiring", "locking"}

PlatformCalls ==
  [op : PlatformOps, at : PlatformStages, start : 0..MaxTime, read : 0..MaxTime]

NoPlatformCall == [op |-> "none", at |-> "idle", start |-> 0, read |-> 0]

PlatformTypeOK ==
  /\ clock \in 0..MaxTime
  /\ store \in {Nil} \cup Windows
  /\ passes \in Seq(0..MaxTime)
  /\ figures = Nil \/ figures \in [at : 0..MaxTime, read : 0..MaxTime]
  /\ shown \in [start : 0..MaxTime, read : 0..MaxTime]
  /\ connected \in BOOLEAN
  /\ \A key \in RedisKeys : redis[key] = Nil \/ redis[key] \in [value : Nat, expires : 0..Never]
  /\ platformCall \in [Calls -> PlatformCalls]
  /\ BudgetOK

PlatformInit ==
  /\ clock = 0 /\ store = Nil /\ passes = <<>> /\ figures = Nil /\ shown = [start |-> 0, read |-> 0]
  /\ connected = TRUE
  /\ redis = [key \in RedisKeys |-> Nil]
  /\ platformCall = [k \in Calls |-> NoPlatformCall]
  /\ BudgetInit

-----------------------------------------------------------------------------

SetCall(k, state) == platformCall' = [platformCall EXCEPT ![k] = state]

Advance(k, stage) == SetCall(k, [platformCall[k] EXCEPT !.at = stage])

Return(k) == SetCall(k, NoPlatformCall)

Serve(k, op, stage) ==
  /\ platformCall[k].at = "idle" /\ Arriving
  /\ SetCall(k, [NoPlatformCall EXCEPT !.op = op, !.at = stage,
                                      !.start = IF op = "public" THEN clock ELSE 0])

InProcess == <<clock, store, passes, figures, shown>>

\* A command to Redis is executed; or it fails, always while the connection is down.
Command(key, entry) ==
  connected /\ Working /\ redis' = [redis EXCEPT ![key] = entry]

CommandFails == ((~ connected /\ Working) \/ Failing) /\ UNCHANGED redis

\* Mutant of SetEx: the seconds are given in milliseconds.
SetExInMillis(key, value) == Command(key, [value |-> value, expires |-> clock + 1000 * TTL])

SetEx(key, value) == Command(key, [value |-> value, expires |-> clock + TTL])

\* Redis drops a key when its time is over.
Tick ==
  /\ clock < MaxTime /\ clock' = clock + 1
  /\ redis' = [key \in RedisKeys |->
                 IF redis[key] # Nil /\ redis[key].expires <= clock' THEN Nil ELSE redis[key]]
  /\ Working /\ UNCHANGED <<store, passes, figures, shown, connected, platformCall>>

-----------------------------------------------------------------------------
(* RateLimiter: the handler runs without an await                          *)

\* Mutant of NewWindow: a window ends a moment too early.
NewWindowEarly == store = Nil \/ store.resetTime <= clock

NewWindow == store = Nil \/ store.resetTime < clock

RateLimit ==
  LET counted == [store EXCEPT !.count = @ + 1]
  IN  /\ Arriving
      /\ store' = IF NewWindow THEN [count |-> 1, resetTime |-> clock + WindowMs] ELSE counted
      /\ passes' = IF NewWindow \/ counted.count <= MaxPerWindow THEN Append(passes, clock)
                   ELSE passes
      /\ UNCHANGED <<clock, figures, shown, connected, redis, platformCall>>

Expired(window) == window.resetTime < clock

\* Every minute.
Cleanup ==
  /\ store # Nil /\ Expired(store) /\ store' = Nil
  /\ Working /\ UNCHANGED <<clock, passes, figures, shown, connected, redis, platformCall>>

-----------------------------------------------------------------------------
(* PublicStatsService.getStats                                             *)

Fresh(now) == figures # Nil /\ now - figures.at < TTL

Show(start, read) == shown' = [start |-> start, read |-> read]

GetStats(k) ==
  /\ IF Fresh(clock)
     THEN /\ platformCall[k].at = "idle" /\ Arriving
          /\ Show(clock, figures.read) /\ UNCHANGED platformCall
     ELSE Serve(k, "public", "querying") /\ UNCHANGED shown
  /\ UNCHANGED <<clock, store, passes, figures, connected, redis>>

Query(k) ==
  /\ platformCall[k].at = "querying" /\ Working
  /\ SetCall(k, [platformCall[k] EXCEPT !.at = "storing", !.read = clock])
  /\ UNCHANGED <<InProcess, connected, redis>>

\* Mutant of Cached: stamped when the queries are done.
CachedAtEnd(k) == [at |-> clock, read |-> platformCall[k].read]

Cached(k) == [at |-> platformCall[k].start, read |-> platformCall[k].read]

\* The cache is as old as the request that filled it, not as its queries.
Store(k) ==
  /\ platformCall[k].at = "storing" /\ Working
  /\ figures' = Cached(k)
  /\ Show(platformCall[k].start, platformCall[k].read)
  /\ Return(k)
  /\ UNCHANGED <<clock, store, passes, connected, redis>>

-----------------------------------------------------------------------------
(* getMaterialStatistics: cacheAside                                       *)

GetMaterialStatistics(k) ==
  Serve(k, "statistics", IF connected THEN "getting" ELSE "fetching")
  /\ UNCHANGED <<InProcess, connected, redis>>

GetCached(k) ==
  /\ platformCall[k].at = "getting"
  /\ \/ connected /\ redis["statistics"] # Nil /\ Return(k) /\ Working
     \/ connected /\ redis["statistics"] = Nil /\ Advance(k, "fetching") /\ Working
     \/ CommandFails /\ Advance(k, "fetching")
  /\ UNCHANGED <<InProcess, connected, redis>>

\* What was fetched is answered at once and stored in the background.  A failed
\* query is tried once more, and what that brings is not stored.
ComputeMaterialStatistics(k) ==
  /\ \/ /\ platformCall[k].at = "fetching" /\ Working
        /\ IF connected THEN Advance(k, "setting") ELSE Return(k)
     \/ platformCall[k].at = "fetching" /\ Failing /\ Advance(k, "fetchingAgain")
     \/ platformCall[k].at = "fetchingAgain" /\ (Working \/ Failing) /\ Return(k)
  /\ UNCHANGED <<InProcess, connected, redis>>

SetCached(k) ==
  /\ platformCall[k].at = "setting" /\ platformCall[k].op = "statistics"
  /\ SetEx("statistics", 1) \/ CommandFails
  /\ Return(k)
  /\ UNCHANGED <<InProcess, connected>>

-----------------------------------------------------------------------------
(* AdvancedRateLimiter: what checkLimit reads never refuses a request, for *)
(* remaining is at least 0; then the counter is incremented                *)

AdvancedLimit(k) ==
  /\ connected /\ Serve(k, "limit", "looking")
  /\ UNCHANGED <<InProcess, connected, redis>>

LookAtCounter(k) ==
  /\ platformCall[k].at = "looking"
  /\ \/ connected /\ Working /\ Advance(k, IF redis["counter"] = Nil THEN "setting" ELSE "incrementing")
     \/ CommandFails /\ Advance(k, "setting")
  /\ UNCHANGED <<InProcess, connected, redis>>

SetCounter(k) ==
  /\ platformCall[k].at = "setting" /\ platformCall[k].op = "limit"
  /\ SetEx("counter", 1) \/ CommandFails
  /\ Return(k)
  /\ UNCHANGED <<InProcess, connected>>

\* Mutant of SetsExpiry: the count of a new counter is 1, not 0.
SetsExpiryNever(count) == count = 0

SetsExpiry(count) == count = 1

\* incr starts a counter that has no expiry; the first to count sets one.
IncrementRateLimit(k) ==
  LET entry == redis["counter"]
      counted == IF entry = Nil THEN [value |-> 1, expires |-> Never]
                 ELSE [entry EXCEPT !.value = @ + 1]
  IN  /\ platformCall[k].at = "incrementing"
      /\ \/ /\ Command("counter", counted)
            /\ IF SetsExpiry(counted.value) THEN Advance(k, "expiring") ELSE Return(k)
         \/ CommandFails /\ Return(k)
      /\ UNCHANGED <<InProcess, connected>>

Extended(key) == IF redis[key] = Nil THEN Nil ELSE [redis[key] EXCEPT !.expires = clock + TTL]

Expire(k) ==
  /\ platformCall[k].at = "expiring"
  /\ Command("counter", Extended("counter")) \/ CommandFails
  /\ Return(k)
  /\ UNCHANGED <<InProcess, connected>>

-----------------------------------------------------------------------------
(* LockCache                                                               *)

UseLock(k) ==
  /\ connected
  /\ \E op \in {"acquire", "extend", "release"} : Serve(k, op, "locking")
  /\ UNCHANGED <<InProcess, connected, redis>>

\* acquire overwrites whatever is there.
LockCommand(k) ==
  /\ platformCall[k].at = "locking"
  /\ \/ platformCall[k].op = "acquire" /\ SetEx("lock", 1)
     \/ platformCall[k].op = "extend" /\ Command("lock", Extended("lock"))
     \/ platformCall[k].op = "release" /\ Command("lock", Nil)
     \/ CommandFails
  /\ Return(k)
  /\ UNCHANGED <<InProcess, connected>>

-----------------------------------------------------------------------------

\* The events 'error', 'close' and 'ready' of the client.
ConnectionChanges ==
  /\ connected' = ~ connected
  /\ IF connected THEN Failing ELSE Working
  /\ UNCHANGED <<InProcess, redis, platformCall>>

QueriesFail(k) ==
  /\ platformCall[k].at = "querying" /\ Failing /\ Return(k)
  /\ UNCHANGED <<InProcess, connected, redis>>

\* What the process holds is gone, what is in Redis stays.  The server also starts
\* without Redis.
RestartPlatform ==
  /\ Crashing
  /\ store' = Nil /\ figures' = Nil /\ connected' \in BOOLEAN
  /\ platformCall' = [k \in Calls |-> NoPlatformCall]
  /\ UNCHANGED <<clock, passes, shown, redis>>

PlatformNext ==
  \/ Tick \/ RateLimit \/ Cleanup \/ ConnectionChanges \/ RestartPlatform
  \/ \E k \in Calls :
       \/ GetStats(k) \/ Query(k) \/ Store(k) \/ QueriesFail(k)
       \/ GetMaterialStatistics(k) \/ GetCached(k) \/ ComputeMaterialStatistics(k) \/ SetCached(k)
       \/ AdvancedLimit(k) \/ LookAtCounter(k) \/ SetCounter(k)
       \/ IncrementRateLimit(k) \/ Expire(k)
       \/ UseLock(k) \/ LockCommand(k)

PlatformSpec == PlatformInit /\ [][PlatformNext]_platformVars

-----------------------------------------------------------------------------
(* Properties                                                              *)

PassesWithin(from, to) == Cardinality({i \in 1..Len(passes) : passes[i] \in from..to})

\* Windows are fixed, not sliding, but the first request starts one: an interval
\* as long as a window meets the end of one and the beginning of the next, which
\* may hold all but one of two limits; every restart empties the store and may
\* add one limit (middleware, cleanup).
LimiterHolds ==
  \A t \in 0..MaxTime : PassesWithin(t, t + WindowMs) < MaxPerWindow * (2 + crashes)

\* However long the queries take and in whatever order they end, the public
\* figures one is shown were read less than the lifetime of the cache before one
\* asked (getStats stamps them with the start of the request, line 144).
PublicFiguresAreRecent == shown.start - shown.read < TTL

\* No key stays in Redis for good, where it would refuse or mislead for ever: one
\* without an expiry is about to get it, or the command that sets it was lost.
KeysExpire ==
  \A key \in RedisKeys :
    redis[key] # Nil /\ redis[key].expires = Never =>
      \/ \E k \in Calls : platformCall[k].at = "expiring"
      \/ faults + crashes > 0
=============================================================================
