--------------------------- MODULE Platform_proofs ---------------------------
(***************************************************************************)
(* Theorems about Platform, for every length of a window and of the        *)
(* lifetime of a cache, every limit, and every number of requests,         *)
(* failures and restarts.                                                  *)
(***************************************************************************)
EXTENDS Platform, FiniteSetTheorems, TLAPS

USE ServiceAssumption, PlatformAssumption

-----------------------------------------------------------------------------
(* The inductive invariant.                                                *)

CacheEntries == [value : Nat, expires : 0..Never]

Figures == [at : 0..MaxTime, read : 0..MaxTime]

Shown == [start : 0..MaxTime, read : 0..MaxTime]

TypeInv == PlatformTypeOK /\ redis \in [RedisKeys -> {Nil} \cup CacheEntries]

\* A request for the figures came before it queries, and queries before it stores; so do those
\* that were stored.
PlatformCallFits(c) ==
  /\ c.at = "querying" => c.start <= clock
  /\ c.at = "storing" => c.start <= c.read

RecentInv ==
  /\ \A k \in Calls : PlatformCallFits(platformCall[k])
  /\ figures # Nil => figures.at <= figures.read
  /\ PublicFiguresAreRecent

\* Only the counter is ever without an end.
OthersEnd ==
  \A key \in RedisKeys \ {"counter"} : redis[key] # Nil => redis[key].expires # Never

\* The connection goes down only by a failure or a restart.
ExpiryInv == KeysExpire /\ (~ connected => faults + crashes > 0)

-----------------------------------------------------------------------------
(* The steps of a request.                                                 *)

AtWork(k) ==
  \/ GetStats(k) \/ Query(k) \/ Store(k) \/ QueriesFail(k)
  \/ GetMaterialStatistics(k) \/ GetCached(k) \/ ComputeMaterialStatistics(k) \/ SetCached(k)
  \/ AdvancedLimit(k) \/ LookAtCounter(k) \/ SetCounter(k)
  \/ IncrementRateLimit(k) \/ Expire(k)
  \/ UseLock(k) \/ LockCommand(k)

\* From c, a step of the request k makes d.
CallFollows(k, c, d) ==
  /\ d.at = "querying" => d.start = clock \/ d = c
  /\ d.at = "storing" => d = c \/ (c.at = "querying" /\ d.start = c.start /\ d.read = clock)
  /\ c.at = "expiring" => d.at = "expiring" \/ Expire(k)

\* What is at a variable is a number.
LEMMA Numbers ==
  ASSUME TypeInv
  PROVE  /\ clock \in Nat /\ faults \in Nat /\ crashes \in Nat /\ requests \in Nat
         /\ clock <= MaxTime /\ clock + TTL \in 0..Never /\ clock + TTL # Never
         /\ Never \in 0..Never
BY DEF TypeInv, PlatformTypeOK, BudgetOK, Never

\* A step of one request, that makes of it d.
LEMMA SetCallMoves ==
  ASSUME TypeInv, NEW k \in Calls, NEW d \in PlatformCalls, SetCall(k, d)
  PROVE  /\ platformCall' \in [Calls -> PlatformCalls] /\ platformCall'[k] = d
         /\ \A j \in Calls \ {k} : platformCall'[j] = platformCall[j]
BY DEF TypeInv, PlatformTypeOK, SetCall

\* The request that is over, field by field.
LEMMA NoneCalls ==
  /\ NoPlatformCall \in PlatformCalls /\ NoPlatformCall.op = "none" /\ NoPlatformCall.at = "idle"
  /\ NoPlatformCall.start = 0 /\ NoPlatformCall.read = 0
BY DEF NoPlatformCall, PlatformCalls, PlatformOps, PlatformStages

\* The next stage of a request that neither reads nor stores the figures.
LEMMA AdvanceFollows ==
  ASSUME TypeInv, NEW k \in Calls, NEW stage \in PlatformStages \ {"querying", "storing"},
         Advance(k, stage), NEW c \in PlatformCalls, c = platformCall[k], c.at # "expiring"
  PROVE  \E d \in PlatformCalls : SetCall(k, d) /\ CallFollows(k, c, d) /\ d.at = stage
<1> DEFINE d == [c EXCEPT !.at = stage]
<1>1. d \in PlatformCalls /\ d.at = stage
  BY DEF PlatformCalls, PlatformStages
<1>2. SetCall(k, d)
  BY DEF Advance
<1> HIDE DEF d
<1> QED
  BY <1>1, <1>2 DEF CallFollows

\* The end of a request.
LEMMA ReturnFollows ==
  ASSUME NEW k, Return(k), NEW c, c.at = "expiring" => Expire(k)
  PROVE  \E d \in PlatformCalls : SetCall(k, d) /\ CallFollows(k, c, d) /\ d.at = "idle"
BY NoneCalls DEF Return, CallFollows

\* Its beginning.
LEMMA ServeFollows ==
  ASSUME TypeInv, NEW k \in Calls,
         NEW op \in {"public", "statistics", "limit", "acquire", "extend", "release"},
         NEW stage \in PlatformStages \ {"storing"}, op # "public" => stage # "querying",
         Serve(k, op, stage), NEW c \in PlatformCalls, c = platformCall[k]
  PROVE  \E d \in PlatformCalls : SetCall(k, d) /\ CallFollows(k, c, d) /\ d.at = stage
<1>1. PICK start \in 0..MaxTime : start = IF op = "public" THEN clock ELSE 0
  BY DEF TypeInv, PlatformTypeOK
<1>2. PICK n \in PlatformCalls : n = NoPlatformCall
  BY NoneCalls
<1> DEFINE d == [n EXCEPT !.op = op, !.at = stage, !.start = start]
<1>3. d \in PlatformCalls /\ d.at = stage /\ d.start = start
  <2>1. op \in PlatformOps /\ stage \in PlatformStages
    BY DEF PlatformOps, PlatformStages
  <2> QED
    BY <1>1, <2>1 DEF PlatformCalls
<1>4. SetCall(k, d)
  BY <1>1, <1>2 DEF Serve
<1> HIDE DEF d
<1>5. d.at = "querying" => d.start = clock
  BY <1>1, <1>3
<1>6. c.at # "expiring"
  BY DEF Serve
<1> QED
  BY <1>3, <1>4, <1>5, <1>6 DEF CallFollows

\* Every step of a request.
LEMMA ServingFollows ==
  ASSUME TypeInv, NEW k \in Calls, AtWork(k), NEW c \in PlatformCalls, c = platformCall[k]
  PROVE  \/ platformCall' = platformCall
         \/ \E d \in PlatformCalls : SetCall(k, d) /\ CallFollows(k, c, d)
<1>1. CASE GetStats(k)
  <2>1. CASE Fresh(clock)
    BY <1>1, <2>1 DEF GetStats
  <2>2. CASE ~ Fresh(clock)
    BY <1>1, <2>2, ServeFollows DEF GetStats, PlatformStages
  <2> QED
    BY <2>1, <2>2
<1>2. CASE Query(k)
  <2> DEFINE d == [c EXCEPT !.at = "storing", !.read = clock]
  <2>1. d \in PlatformCalls /\ d.at = "storing" /\ d.start = c.start /\ d.read = clock
    BY DEF PlatformCalls, PlatformStages, TypeInv, PlatformTypeOK
  <2>2. SetCall(k, d) /\ c.at = "querying"
    BY <1>2 DEF Query
  <2> HIDE DEF d
  <2> QED
    BY <2>1, <2>2 DEF CallFollows
<1>3. CASE Store(k) \/ QueriesFail(k) \/ SetCached(k) \/ SetCounter(k) \/ Expire(k) \/ LockCommand(k)
  <2>1. Return(k) /\ (c.at = "expiring" => Expire(k))
    BY <1>3 DEF Store, QueriesFail, SetCached, SetCounter, Expire, LockCommand
  <2> QED
    BY <2>1, ReturnFollows
<1>4. CASE GetMaterialStatistics(k)
  <2>1. PICK stage \in {"getting", "fetching"} : Serve(k, "statistics", stage)
    BY <1>4 DEF GetMaterialStatistics
  <2> QED
    BY <2>1, ServeFollows DEF PlatformStages
<1>5. CASE GetCached(k)
  <2>1. c.at = "getting" /\ (Return(k) \/ Advance(k, "fetching"))
    BY <1>5 DEF GetCached
  <2> QED
    BY <2>1, ReturnFollows, AdvanceFollows DEF PlatformStages
<1>6. CASE ComputeMaterialStatistics(k)
  <2>1. /\ c.at # "expiring"
        /\ Return(k) \/ \E stage \in {"setting", "fetchingAgain"} : Advance(k, stage)
    BY <1>6 DEF ComputeMaterialStatistics
  <2> QED
    BY <2>1, ReturnFollows, AdvanceFollows DEF PlatformStages
<1>7. CASE AdvancedLimit(k)
  BY <1>7, ServeFollows DEF AdvancedLimit, PlatformStages
<1>8. CASE LookAtCounter(k)
  <2>1. c.at # "expiring" /\ \E stage \in {"setting", "incrementing"} : Advance(k, stage)
    BY <1>8 DEF LookAtCounter
  <2> QED
    BY <2>1, AdvanceFollows DEF PlatformStages
<1>9. CASE IncrementRateLimit(k)
  <2>1. c.at # "expiring" /\ (Return(k) \/ Advance(k, "expiring"))
    BY <1>9 DEF IncrementRateLimit
  <2> QED
    BY <2>1, ReturnFollows, AdvanceFollows DEF PlatformStages
<1>10. CASE UseLock(k)
  <2>1. PICK op \in {"acquire", "extend", "release"} : Serve(k, op, "locking")
    BY <1>10 DEF UseLock
  <2> QED
    BY <2>1, ServeFollows DEF PlatformStages
<1> QED
  BY <1>1, <1>2, <1>3, <1>4, <1>5, <1>6, <1>7, <1>8, <1>9, <1>10 DEF AtWork

\* The requests after a step of one of them.
LEMMA ServingMoves ==
  ASSUME TypeInv, NEW k \in Calls, AtWork(k), NEW c \in PlatformCalls, c = platformCall[k]
  PROVE  /\ platformCall' \in [Calls -> PlatformCalls]
         /\ \E d \in PlatformCalls : platformCall'[k] = d /\ (d = c \/ CallFollows(k, c, d))
         /\ \A j \in Calls \ {k} : platformCall'[j] = platformCall[j]
<1>1. CASE platformCall' = platformCall
  BY <1>1 DEF TypeInv, PlatformTypeOK
<1>2. ASSUME NEW d \in PlatformCalls, SetCall(k, d), CallFollows(k, c, d)
      PROVE  /\ platformCall' \in [Calls -> PlatformCalls] /\ platformCall'[k] = d
             /\ \A j \in Calls \ {k} : platformCall'[j] = platformCall[j]
  BY <1>2, SetCallMoves
<1> QED
  BY <1>1, <1>2, ServingFollows

-----------------------------------------------------------------------------
(* What a step of a request leaves in Redis and in the process.            *)

\* A command writes an entry that ends, takes one away, or counts.
Commanded(k, key, entry) ==
  /\ redis' = [redis EXCEPT ![key] = entry]
  /\ entry # Nil /\ entry.expires = Never =>
       /\ key = "counter"
       /\ platformCall'[k].at = "expiring"
            \/ (redis[key] # Nil /\ redis[key].expires = Never)

\* What is set ends, and what is extended.
LEMMA SetEnds ==
  ASSUME TypeInv, NEW k \in Calls, NEW key \in RedisKeys,
         \/ SetEx(key, 1)
         \/ Command(key, Extended(key))
         \/ Command(key, Nil)
  PROVE  \E entry \in {Nil} \cup CacheEntries : Commanded(k, key, entry)
<1>1. CASE SetEx(key, 1)
  <2> DEFINE entry == [value |-> 1, expires |-> clock + TTL]
  <2>1. entry \in CacheEntries /\ entry.expires # Never
    BY Numbers DEF CacheEntries
  <2> QED
    BY <1>1, <2>1 DEF SetEx, Command, Commanded
<1>2. CASE Command(key, Extended(key))
  <2>1. PICK entry \in {Nil} \cup CacheEntries :
          entry = Extended(key) /\ (entry # Nil => entry.expires # Never)
    <3>1. CASE redis[key] = Nil
      BY <3>1 DEF Extended
    <3>2. CASE redis[key] # Nil
      <4>1. PICK old \in CacheEntries : old = redis[key]
        BY <3>2 DEF TypeInv
      <4>2. [old EXCEPT !.expires = clock + TTL] \in CacheEntries
        BY Numbers DEF CacheEntries
      <4>3. [old EXCEPT !.expires = clock + TTL].expires # Never
        BY Numbers DEF CacheEntries
      <4> QED
        BY <3>2, <4>1, <4>2, <4>3 DEF Extended
    <3> QED
      BY <3>1, <3>2
  <2> QED
    BY <1>2, <2>1 DEF Command, Commanded
<1>3. CASE Command(key, Nil)
  BY <1>3 DEF Command, Commanded
<1> QED
  BY <1>1, <1>2, <1>3

\* What a request writes to Redis.
LEMMA RedisMoves ==
  ASSUME TypeInv, NEW k \in Calls, AtWork(k)
  PROVE  \/ redis' = redis
         \/ \E key \in RedisKeys, entry \in {Nil} \cup CacheEntries : Commanded(k, key, entry)
<1>1. CASE SetCached(k) \/ SetCounter(k) \/ Expire(k) \/ LockCommand(k)
  <2>1. \/ \E key \in RedisKeys : SetEx(key, 1) \/ Command(key, Extended(key)) \/ Command(key, Nil)
        \/ CommandFails
    BY <1>1 DEF SetCached, SetCounter, Expire, LockCommand, RedisKeys
  <2> QED
    BY <2>1, SetEnds DEF CommandFails
<1>2. CASE IncrementRateLimit(k)
  <2> SUFFICES ASSUME ~ CommandFails
               PROVE  \E entry \in {Nil} \cup CacheEntries : Commanded(k, "counter", entry)
    BY <1>2 DEF CommandFails, IncrementRateLimit, RedisKeys
  <2>1. CASE redis["counter"] = Nil
    <3> DEFINE entry == [value |-> 1, expires |-> Never]
    <3>1. entry \in CacheEntries /\ entry.value = 1
      BY Numbers DEF CacheEntries
    <3>2. Command("counter", entry) /\ Advance(k, "expiring")
      BY <1>2, <2>1 DEF IncrementRateLimit, SetsExpiry
    <3> HIDE DEF entry
    <3>3. platformCall'[k].at = "expiring"
      BY <3>2 DEF Advance, SetCall, TypeInv, PlatformTypeOK, PlatformCalls
    <3> QED
      BY <3>1, <3>2, <3>3 DEF Commanded, Command
  <2>2. CASE redis["counter"] # Nil
    <3>1. PICK old \in CacheEntries : old = redis["counter"]
      BY <2>2 DEF TypeInv, RedisKeys
    <3> DEFINE entry == [old EXCEPT !.value = @ + 1]
    <3>2. entry \in CacheEntries /\ entry.expires = old.expires
      BY DEF CacheEntries
    <3>3. Command("counter", entry)
      BY <1>2, <2>2, <3>1 DEF IncrementRateLimit
    <3> HIDE DEF entry
    <3> QED
      BY <2>2, <3>1, <3>2, <3>3 DEF Commanded, Command
  <2> QED
    BY <2>1, <2>2
<1>3. CASE ~ (SetCached(k) \/ SetCounter(k) \/ Expire(k) \/ LockCommand(k) \/ IncrementRateLimit(k))
  BY <1>3 DEF AtWork, GetStats, Query, Store, QueriesFail, GetMaterialStatistics, GetCached,
     ComputeMaterialStatistics, AdvancedLimit, LookAtCounter, UseLock, CommandFails
<1> QED
  BY <1>1, <1>2, <1>3

\* What it leaves of the rest.
LEMMA ServingKeeps ==
  ASSUME TypeInv, NEW k \in Calls, AtWork(k)
  PROVE  /\ clock' = clock /\ store' = store /\ passes' = passes /\ connected' = connected
         /\ Arriving \/ Failing \/ Working
         /\ GetStats(k) \/ Store(k) \/ shown' = shown
         /\ Store(k) \/ figures' = figures
<1>1. CASE GetStats(k)
  BY <1>1 DEF GetStats, Serve
<1>2. CASE Query(k) \/ Store(k) \/ QueriesFail(k)
  BY <1>2 DEF Query, Store, QueriesFail, InProcess
<1>3. CASE GetMaterialStatistics(k) \/ AdvancedLimit(k) \/ UseLock(k)
  BY <1>3 DEF GetMaterialStatistics, AdvancedLimit, UseLock, Serve, InProcess
<1>4. CASE GetCached(k) \/ ComputeMaterialStatistics(k) \/ LookAtCounter(k)
  BY <1>4 DEF GetCached, ComputeMaterialStatistics, LookAtCounter, CommandFails, InProcess
<1>5. CASE SetCached(k) \/ SetCounter(k) \/ IncrementRateLimit(k) \/ Expire(k) \/ LockCommand(k)
  BY <1>5 DEF SetCached, SetCounter, IncrementRateLimit, Expire, LockCommand, SetEx, Command,
     CommandFails, InProcess
<1> QED
  BY <1>1, <1>2, <1>3, <1>4, <1>5 DEF AtWork

\* The figures, and the answer that is shown, over the same step.
LEMMA FiguresMove ==
  ASSUME TypeInv, RecentInv, NEW k \in Calls, AtWork(k)
  PROVE  /\ \/ figures' = figures
            \/ \E new \in Figures : figures' = new /\ new.at <= new.read
         /\ \/ shown' = shown
            \/ \E new \in Shown : shown' = new /\ new.start - new.read < TTL
<1>1. CASE GetStats(k) /\ Fresh(clock)
  <2>1. PICK f \in Figures : f = figures /\ f.at <= f.read
    BY <1>1 DEF Fresh, RecentInv, TypeInv, PlatformTypeOK, Figures
  <2>2. clock \in 0..MaxTime /\ clock - f.at < TTL
    BY <1>1, <2>1 DEF Fresh, TypeInv, PlatformTypeOK
  <2>3. f.at \in 0..MaxTime /\ f.read \in 0..MaxTime
    BY DEF Figures
  <2> DEFINE new == [start |-> clock, read |-> f.read]
  <2>4. new \in Shown /\ new.start - new.read < TTL
    BY <2>1, <2>2, <2>3 DEF Shown
  <2>5. shown' = new /\ figures' = figures
    BY <1>1, <2>1 DEF GetStats, Show
  <2> QED
    BY <2>4, <2>5
<1>2. CASE Store(k)
  <2>1. PICK c \in PlatformCalls : c = platformCall[k] /\ PlatformCallFits(c)
    BY DEF TypeInv, PlatformTypeOK, RecentInv
  <2>2. c.start \in 0..MaxTime /\ c.read \in 0..MaxTime /\ c.start <= c.read
    BY <1>2, <2>1 DEF Store, PlatformCallFits, PlatformCalls
  <2>3. figures' = [at |-> c.start, read |-> c.read] /\ shown' = [start |-> c.start, read |-> c.read]
    BY <1>2, <2>1 DEF Store, Cached, Show
  <2>4. [at |-> c.start, read |-> c.read] \in Figures /\ [start |-> c.start, read |-> c.read] \in Shown
    BY <2>2 DEF Figures, Shown
  <2>5. c.start - c.read < TTL
    BY <2>2
  <2> QED
    BY <2>2, <2>3, <2>4, <2>5
<1>3. CASE GetStats(k) /\ ~ Fresh(clock)
  BY <1>3 DEF GetStats
<1> QED
  BY <1>1, <1>2, <1>3, ServingKeeps DEF GetStats

-----------------------------------------------------------------------------
(* The types.                                                              *)

\* The bounds of Service are kept by every step.
LEMMA PlatformBudgetKept ==
  ASSUME BudgetOK, Arriving \/ Failing \/ Crashing \/ Working
  PROVE  /\ BudgetOK' /\ faults' \in Nat /\ faults <= faults' /\ crashes' \in Nat
         /\ crashes <= crashes'
BY DEF BudgetOK, Arriving, Failing, Crashing, Working, budgetVars

\* A step of a request keeps the types.
LEMMA ServingTypes ==
  ASSUME TypeInv, NEW k \in Calls, AtWork(k)
  PROVE  TypeInv'
<1>1. PICK c \in PlatformCalls : c = platformCall[k]
  BY DEF TypeInv, PlatformTypeOK
<1>2. platformCall' \in [Calls -> PlatformCalls]
  BY <1>1, ServingMoves
<1>3. redis' \in [RedisKeys -> {Nil} \cup CacheEntries]
  BY RedisMoves DEF TypeInv, Commanded
<1>4. \A key \in RedisKeys :
        redis'[key] = Nil \/ redis'[key] \in [value : Nat, expires : 0..Never]
  BY <1>3 DEF CacheEntries
<1>5. BudgetOK' /\ clock' = clock /\ store' = store /\ passes' = passes /\ connected' = connected
  BY ServingKeeps, PlatformBudgetKept DEF TypeInv, PlatformTypeOK
<1>6. figures' = Nil \/ figures' \in [at : 0..MaxTime, read : 0..MaxTime]
  <2>1. CASE Store(k)
    <3>1. c.start \in 0..MaxTime /\ c.read \in 0..MaxTime
      BY DEF PlatformCalls
    <3> QED
      BY <1>1, <2>1, <3>1 DEF Store, Cached
  <2> QED
    BY <2>1, ServingKeeps DEF TypeInv, PlatformTypeOK
<1>7. shown' \in [start : 0..MaxTime, read : 0..MaxTime]
  <2>1. CASE Store(k)
    <3>1. c.start \in 0..MaxTime /\ c.read \in 0..MaxTime
      BY DEF PlatformCalls
    <3> QED
      BY <1>1, <2>1, <3>1 DEF Store, Show
  <2>2. CASE GetStats(k) /\ Fresh(clock)
    <3>1. PICK f \in Figures : f = figures
      BY <2>2 DEF Fresh, TypeInv, PlatformTypeOK, Figures
    <3>2. clock \in 0..MaxTime /\ f.read \in 0..MaxTime
      BY DEF Figures, TypeInv, PlatformTypeOK
    <3> QED
      BY <2>2, <3>1, <3>2 DEF GetStats, Show
  <2>3. CASE GetStats(k) /\ ~ Fresh(clock)
    BY <2>3 DEF GetStats, TypeInv, PlatformTypeOK
  <2> QED
    BY <2>1, <2>2, <2>3, ServingKeeps DEF TypeInv, PlatformTypeOK
<1> QED
  BY <1>2, <1>3, <1>4, <1>5, <1>6, <1>7 DEF TypeInv, PlatformTypeOK

\* So does the clock, which takes what has ended out of Redis.
LEMMA TickTypes ==
  ASSUME TypeInv, Tick
  PROVE  TypeInv' /\ clock' = clock + 1
<1>1. clock \in Nat /\ clock' = clock + 1 /\ clock' \in 0..MaxTime
  BY Numbers DEF Tick
<1>2. redis' \in [RedisKeys -> {Nil} \cup CacheEntries]
  BY DEF Tick, TypeInv
<1>3. \A key \in RedisKeys :
        redis'[key] = Nil \/ redis'[key] \in [value : Nat, expires : 0..Never]
  BY <1>2 DEF CacheEntries
<1>4. BudgetOK'
  BY PlatformBudgetKept DEF Tick, TypeInv, PlatformTypeOK
<1> QED
  BY <1>1, <1>2, <1>3, <1>4 DEF Tick, TypeInv, PlatformTypeOK

\* So do the limiter, and what happens to the process.
LEMMA ProcessTypes ==
  ASSUME TypeInv, RateLimit \/ Cleanup \/ ConnectionChanges \/ RestartPlatform
  PROVE  TypeInv' /\ clock' = clock
<1>1. BudgetOK'
  BY PlatformBudgetKept
     DEF TypeInv, PlatformTypeOK, RateLimit, Cleanup, ConnectionChanges, RestartPlatform
<1>2. CASE RateLimit
  <2>1. clock + WindowMs \in Nat /\ clock \in 0..MaxTime
    BY Numbers DEF TypeInv, PlatformTypeOK
  <2>2. store' \in {Nil} \cup Windows
    <3>1. CASE NewWindow
      BY <1>2, <2>1, <3>1 DEF RateLimit, Windows
    <3>2. CASE ~ NewWindow
      <4>1. PICK w \in Windows : w = store
        BY <3>2 DEF NewWindow, TypeInv, PlatformTypeOK
      <4>2. [w EXCEPT !.count = @ + 1] \in Windows
        BY DEF Windows
      <4> QED
        BY <1>2, <3>2, <4>1, <4>2 DEF RateLimit
    <3> QED
      BY <3>1, <3>2
  <2>3. passes' \in Seq(0..MaxTime)
    <3>1. passes \in Seq(0..MaxTime)
      BY DEF TypeInv, PlatformTypeOK
    <3>2. Append(passes, clock) \in Seq(0..MaxTime)
      BY <2>1, <3>1
    <3> QED
      BY <1>2, <3>1, <3>2 DEF RateLimit
  <2> QED
    BY <1>1, <1>2, <2>2, <2>3 DEF RateLimit, TypeInv, PlatformTypeOK
<1>3. CASE Cleanup
  BY <1>1, <1>3 DEF Cleanup, TypeInv, PlatformTypeOK
<1>4. CASE ConnectionChanges
  BY <1>1, <1>4 DEF ConnectionChanges, InProcess, TypeInv, PlatformTypeOK
<1>5. CASE RestartPlatform
  BY <1>1, <1>5, NoneCalls DEF RestartPlatform, TypeInv, PlatformTypeOK
<1> QED
  BY <1>2, <1>3, <1>4, <1>5

\* The steps, as they are told apart here.
LEMMA Steps ==
  ASSUME PlatformNext
  PROVE  \/ Tick \/ RateLimit \/ Cleanup \/ ConnectionChanges \/ RestartPlatform
         \/ \E k \in Calls : AtWork(k)
BY DEF PlatformNext, AtWork

\* Every step keeps the types.
LEMMA TypesKept == TypeInv /\ [PlatformNext]_platformVars => TypeInv'
<1> SUFFICES ASSUME TypeInv, [PlatformNext]_platformVars PROVE TypeInv'
  OBVIOUS
<1>1. CASE UNCHANGED platformVars
  BY <1>1 DEF platformVars, platformState, budgetVars, TypeInv, PlatformTypeOK, BudgetOK
<1> QED
  BY <1>1, Steps, ServingTypes, TickTypes, ProcessTypes

\* They are right at the start.
LEMMA TypesAtStart == PlatformInit => TypeInv
<1> SUFFICES ASSUME PlatformInit PROVE TypeInv
  OBVIOUS
<1>1. BudgetOK
  BY DEF PlatformInit, BudgetInit, BudgetOK
<1>2. 0 \in 0..MaxTime
  OBVIOUS
<1>3. passes \in Seq(0..MaxTime)
  BY DEF PlatformInit
<1> QED
  BY <1>1, <1>2, <1>3, NoneCalls DEF PlatformInit, TypeInv, PlatformTypeOK

\* Every variable of Platform keeps its type.
THEOREM PlatformTypes == PlatformSpec => []PlatformTypeOK
<1>1. TypeInv => PlatformTypeOK
  BY DEF TypeInv
<1> QED
  BY <1>1, TypesAtStart, TypesKept, PTL DEF PlatformSpec

-----------------------------------------------------------------------------
(* How recent the public figures are.                                      *)

\* Every step keeps what is known of the figures and of the requests for them.
LEMMA RecentKept == TypeInv /\ RecentInv /\ [PlatformNext]_platformVars => RecentInv'
<1> SUFFICES ASSUME TypeInv, RecentInv, [PlatformNext]_platformVars PROVE RecentInv'
  OBVIOUS
<1>1. CASE UNCHANGED platformVars
  BY <1>1 DEF platformVars, platformState, RecentInv, PlatformCallFits, PublicFiguresAreRecent
<1>2. CASE Tick
  <2>1. clock' = clock + 1 /\ clock \in Nat
    BY <1>2, Numbers, TickTypes
  <2>2. \A k \in Calls : platformCall[k].start \in Nat
    BY DEF TypeInv, PlatformTypeOK, PlatformCalls
  <2>3. \A k \in Calls : PlatformCallFits(platformCall[k])'
    BY <1>2, <2>1, <2>2 DEF Tick, RecentInv, PlatformCallFits
  <2> QED
    BY <1>2, <2>3 DEF Tick, RecentInv, PublicFiguresAreRecent
<1>3. CASE RateLimit \/ Cleanup \/ ConnectionChanges
  BY <1>3 DEF RateLimit, Cleanup, ConnectionChanges, InProcess, RecentInv, PlatformCallFits,
     PublicFiguresAreRecent
<1>4. CASE RestartPlatform
  <2>1. \A k \in Calls : PlatformCallFits(platformCall'[k])
    BY <1>4, NoneCalls DEF RestartPlatform, PlatformCallFits
  <2> QED
    BY <1>4, <2>1 DEF RestartPlatform, RecentInv, PlatformCallFits, PublicFiguresAreRecent
<1>5. ASSUME NEW k \in Calls, AtWork(k) PROVE RecentInv'
  <2>1. PICK c \in PlatformCalls : c = platformCall[k] /\ PlatformCallFits(c)
    BY DEF TypeInv, PlatformTypeOK, RecentInv
  <2>2. PICK d \in PlatformCalls : platformCall'[k] = d /\ (d = c \/ CallFollows(k, c, d))
    BY <1>5, <2>1, ServingMoves
  <2>3. clock' = clock /\ clock \in Nat
    BY <1>5, ServingKeeps, Numbers
  <2>4. PlatformCallFits(platformCall'[k])
    BY <2>1, <2>2, <2>3 DEF PlatformCallFits, CallFollows
  <2>5. \A j \in Calls \ {k} : PlatformCallFits(platformCall'[j])
    BY <1>5, <2>1, ServingMoves DEF RecentInv
  <2>6. \A j \in Calls : PlatformCallFits(platformCall[j])'
    BY <2>3, <2>4, <2>5 DEF PlatformCallFits
  <2>7. figures' # Nil => figures'.at <= figures'.read
    BY <1>5, FiguresMove DEF RecentInv
  <2>8. shown'.start - shown'.read < TTL
    BY <1>5, FiguresMove DEF RecentInv, PublicFiguresAreRecent
  <2> QED
    BY <2>6, <2>7, <2>8 DEF RecentInv, PublicFiguresAreRecent
<1> QED
  BY <1>1, <1>2, <1>3, <1>4, <1>5, Steps

\* In whatever order queries end, nobody is shown figures older than the lifetime of the cache
\* (PublicFiguresAreRecent).
THEOREM FiguresAreRecent == PlatformSpec => []PublicFiguresAreRecent
<1>1. PlatformInit => RecentInv
  BY NoneCalls DEF PlatformInit, RecentInv, PlatformCallFits, PublicFiguresAreRecent
<1>2. RecentInv => PublicFiguresAreRecent
  BY DEF RecentInv
<1> QED
  BY <1>1, <1>2, TypesAtStart, TypesKept, RecentKept, PTL DEF PlatformSpec

-----------------------------------------------------------------------------
(* The keys in Redis.                                                      *)

\* Every step leaves an end to all but the counter.
LEMMA OthersEndKept == TypeInv /\ OthersEnd /\ [PlatformNext]_platformVars => OthersEnd'
<1> SUFFICES ASSUME TypeInv, OthersEnd, [PlatformNext]_platformVars PROVE OthersEnd'
  OBVIOUS
<1>1. CASE redis' = redis
  BY <1>1 DEF OthersEnd
<1>2. CASE Tick
  BY <1>2 DEF Tick, OthersEnd
<1>3. ASSUME NEW k \in Calls, NEW key \in RedisKeys, NEW entry \in {Nil} \cup CacheEntries,
             Commanded(k, key, entry)
      PROVE  OthersEnd'
  BY <1>3 DEF Commanded, OthersEnd, TypeInv
<1>4. ASSUME ~ Tick, ~ \E k \in Calls : AtWork(k) PROVE redis' = redis
  BY <1>4, Steps DEF platformVars, platformState, RateLimit, Cleanup, ConnectionChanges,
     RestartPlatform
<1> QED
  BY <1>1, <1>2, <1>3, <1>4, RedisMoves

\* Every step keeps what is known of them.
LEMMA ExpiryKept == TypeInv /\ OthersEnd /\ ExpiryInv /\ [PlatformNext]_platformVars => ExpiryInv'
<1> SUFFICES ASSUME TypeInv, OthersEnd, ExpiryInv, [PlatformNext]_platformVars PROVE ExpiryInv'
  OBVIOUS
<1>1. faults \in Nat /\ crashes \in Nat
  BY Numbers
<1>2. CASE UNCHANGED platformVars
  BY <1>2 DEF platformVars, platformState, budgetVars, ExpiryInv, KeysExpire
<1>3. CASE Tick
  BY <1>3 DEF Tick, Working, budgetVars, ExpiryInv, KeysExpire
<1>4. CASE RateLimit \/ Cleanup
  BY <1>4 DEF RateLimit, Cleanup, Arriving, Working, budgetVars, ExpiryInv, KeysExpire
<1>5. CASE ConnectionChanges
  <2>1. CASE connected
    <3>1. faults' + crashes' > 0
      BY <1>1, <1>5, <2>1 DEF ConnectionChanges, Failing
    <3> QED
      BY <3>1 DEF ExpiryInv, KeysExpire
  <2>2. CASE ~ connected
    BY <1>5, <2>2 DEF ConnectionChanges, Working, budgetVars, ExpiryInv, KeysExpire
  <2> QED
    BY <2>1, <2>2
<1>6. CASE RestartPlatform
  <2>1. faults' + crashes' > 0
    BY <1>1, <1>6 DEF RestartPlatform, Crashing
  <2> QED
    BY <2>1 DEF ExpiryInv, KeysExpire
<1>7. ASSUME NEW k \in Calls, AtWork(k) PROVE ExpiryInv'
  <2> SUFFICES ASSUME ~ (faults' + crashes' > 0)
               PROVE  ExpiryInv'
    BY DEF ExpiryInv, KeysExpire
  <2>1. /\ faults' = faults /\ crashes' = crashes /\ ~ (faults + crashes > 0) /\ ~ Failing
    BY <1>1, <1>7, ServingKeeps DEF Arriving, Failing, Working, budgetVars
  <2>2. connected /\ connected' /\ ~ CommandFails
    BY <1>7, <2>1, ServingKeeps DEF ExpiryInv, CommandFails
  <2>3. PICK c \in PlatformCalls : c = platformCall[k]
    BY DEF TypeInv, PlatformTypeOK
  <2>4. PICK d \in PlatformCalls : platformCall'[k] = d /\ (d = c \/ CallFollows(k, c, d))
    BY <1>7, <2>3, ServingMoves
  <2>5. \A j \in Calls : platformCall[j].at = "expiring" /\ ~ Expire(k) =>
          platformCall'[j].at = "expiring"
    BY <1>7, <2>3, <2>4, ServingMoves DEF CallFollows
  <2>6. ASSUME NEW key \in RedisKeys, redis'[key] # Nil, redis'[key].expires = Never
        PROVE  \E j \in Calls : platformCall'[j].at = "expiring"
    <3>1. Expire(k) => key # "counter"
      <4> SUFFICES ASSUME Expire(k) PROVE redis'["counter"] = Nil \/ redis'["counter"].expires # Never
        BY <2>6
      <4>1. Command("counter", Extended("counter"))
        BY <2>2 DEF Expire
      <4>2. redis'["counter"] = Extended("counter")
        BY <4>1 DEF Command, TypeInv, RedisKeys
      <4>3. CASE redis["counter"] = Nil
        BY <4>2, <4>3 DEF Extended
      <4>4. CASE redis["counter"] # Nil
        <5>1. PICK old \in CacheEntries : old = redis["counter"]
          BY <4>4 DEF TypeInv, RedisKeys
        <5>2. [old EXCEPT !.expires = clock + TTL].expires # Never
          BY Numbers DEF CacheEntries
        <5> QED
          BY <4>2, <4>4, <5>1, <5>2 DEF Extended
      <4> QED
        BY <4>3, <4>4
    <3>2. CASE redis[key] # Nil /\ redis[key].expires = Never
      <4>1. PICK j \in Calls : platformCall[j].at = "expiring"
        BY <2>1, <3>2 DEF ExpiryInv, KeysExpire
      <4>2. key = "counter"
        BY <3>2 DEF OthersEnd
      <4> QED
        BY <2>5, <3>1, <4>1, <4>2
    <3>3. CASE ~ (redis[key] # Nil /\ redis[key].expires = Never)
      BY <1>7, <2>6, <3>3, RedisMoves DEF Commanded, TypeInv
    <3> QED
      BY <3>2, <3>3
  <2> QED
    BY <2>2, <2>6 DEF ExpiryInv, KeysExpire
<1> QED
  BY <1>2, <1>3, <1>4, <1>5, <1>6, <1>7, Steps

\* As long as nothing failed, no key stays in Redis for good (KeysExpire).
THEOREM EveryKeyExpires == PlatformSpec => []KeysExpire
<1>1. PlatformInit => ExpiryInv /\ OthersEnd
  BY DEF PlatformInit, ExpiryInv, OthersEnd, KeysExpire
<1>2. ExpiryInv => KeysExpire
  BY DEF ExpiryInv
<1> QED
  BY <1>1, <1>2, TypesAtStart, TypesKept, OthersEndKept, ExpiryKept, PTL DEF PlatformSpec

-----------------------------------------------------------------------------
(* How many requests the limiter lets pass.                                *)

\* The requests that the window that is open let pass.
Taken == IF store.count <= MaxPerWindow THEN store.count ELSE MaxPerWindow

\* The most that an interval which is not over yet has seen: nothing but the rest of a limit
\* before a window that began earlier than the interval; and if all of the window is in it, what
\* one window before it and one for each restart may have added.
PassesSoFar(t) ==
  IF store = Nil THEN MaxPerWindow - 1 + MaxPerWindow * crashes
  ELSE IF t + WindowMs <= store.resetTime THEN MaxPerWindow - 1 + MaxPerWindow * crashes + Taken
  ELSE Taken - 1

WindowOK ==
  /\ \A i \in 1..Len(passes) : passes[i] <= clock
  /\ store # Nil =>
       store.count >= 1 /\ WindowMs <= store.resetTime /\ store.resetTime <= clock + WindowMs

LimitInv ==
  /\ WindowOK
  /\ \A t \in 0..MaxTime :
       PassesWithin(t, t + WindowMs) <=
         IF t + WindowMs < clock THEN MaxPerWindow * (2 + crashes) - 1 ELSE PassesSoFar(t)

\* The requests that passed in an interval can be counted.
LEMMA PassesCount ==
  ASSUME TypeInv, NEW from, NEW to
  PROVE  /\ IsFiniteSet({i \in 1..Len(passes) : passes[i] \in from..to})
         /\ PassesWithin(from, to) \in Nat
<1> DEFINE count == Len(passes)
<1>1. count \in Nat
  BY DEF TypeInv, PlatformTypeOK
<1> HIDE DEF count
<1>2. IsFiniteSet(1..count)
  BY <1>1, FS_Interval
<1>3. IsFiniteSet({i \in 1..Len(passes) : passes[i] \in from..to})
  BY <1>2, FS_Subset DEF count
<1> QED
  BY <1>3, FS_CardinalityType DEF PassesWithin

\* One more is one more in the intervals that hold the time.
LEMMA OneMorePass ==
  ASSUME TypeInv, passes' = Append(passes, clock), NEW from, NEW to
  PROVE  /\ PassesWithin(from, to)' \in Nat /\ PassesWithin(from, to)' <= PassesWithin(from, to) + 1
         /\ clock \notin from..to => PassesWithin(from, to)' = PassesWithin(from, to)
<1> DEFINE Old == {i \in 1..Len(passes) : passes[i] \in from..to}
           New == {i \in 1..Len(passes') : passes'[i] \in from..to}
<1>1. /\ Len(passes) \in Nat /\ Len(passes') = Len(passes) + 1
      /\ \A i \in 1..Len(passes) : passes'[i] = passes[i]
      /\ passes'[Len(passes) + 1] = clock
  <2>1. passes \in Seq(0..MaxTime) /\ clock \in 0..MaxTime
    BY DEF TypeInv, PlatformTypeOK
  <2> QED
    BY <2>1
<1>2. \A i \in 1..Len(passes') : i \in 1..Len(passes) \/ i = Len(passes) + 1
  BY <1>1
<1>3. New \subseteq Old \cup {Len(passes) + 1} /\ (clock \notin from..to => New = Old)
  BY <1>1, <1>2
<1>4. IsFiniteSet(Old) /\ Cardinality(Old) = PassesWithin(from, to) /\ Cardinality(Old) \in Nat
  BY PassesCount DEF PassesWithin
<1>5. PassesWithin(from, to)' = Cardinality(New)
  BY DEF PassesWithin
<1> HIDE DEF Old, New
<1>6. /\ IsFiniteSet(Old \cup {Len(passes) + 1})
      /\ Cardinality(Old \cup {Len(passes) + 1}) \in {Cardinality(Old), Cardinality(Old) + 1}
  BY <1>4, FS_AddElement
<1>7. /\ IsFiniteSet(New) /\ Cardinality(New) \in Nat
      /\ Cardinality(New) <= Cardinality(Old \cup {Len(passes) + 1})
  BY <1>3, <1>6, FS_Subset, FS_CardinalityType
<1> QED
  BY <1>3, <1>4, <1>5, <1>6, <1>7

\* Nothing passed later than now.
LEMMA NoLaterPass ==
  ASSUME TypeInv, WindowOK, NEW t \in Nat, t > clock
  PROVE  PassesWithin(t, t + WindowMs) = 0
<1>1. \A i \in 1..Len(passes) : passes[i] \in Nat /\ passes[i] <= clock
  BY DEF WindowOK, TypeInv, PlatformTypeOK
<1>2. clock \in Nat
  BY Numbers
<1>3. {i \in 1..Len(passes) : passes[i] \in t..(t + WindowMs)} = {}
  BY <1>1, <1>2
<1> QED
  BY <1>3, FS_EmptySet DEF PassesWithin

\* Neither will one have after a step.
LEMMA PassesAreOver ==
  ASSUME TypeInv, WindowOK, clock' \in {clock, clock + 1},
         passes' = passes \/ passes' = Append(passes, clock)
  PROVE  \A i \in 1..Len(passes') : passes'[i] <= clock'
<1>1. clock \in Nat /\ passes \in Seq(0..MaxTime) /\ clock \in 0..MaxTime
  BY Numbers DEF TypeInv, PlatformTypeOK
<1>2. \A i \in 1..Len(passes) : passes[i] \in Nat /\ passes[i] <= clock
  BY <1>1 DEF WindowOK
<1>3. CASE passes' = passes
  BY <1>1, <1>2, <1>3
<1>4. CASE passes' = Append(passes, clock)
  <2>1. /\ Len(passes') = Len(passes) + 1 /\ Len(passes) \in Nat
        /\ \A i \in 1..Len(passes) : passes'[i] = passes[i]
        /\ passes'[Len(passes) + 1] = clock
    BY <1>1, <1>4
  <2>2. \A i \in 1..Len(passes') : i \in 1..Len(passes) \/ i = Len(passes) + 1
    BY <2>1
  <2> QED
    BY <1>1, <1>2, <2>1, <2>2
<1> QED
  BY <1>3, <1>4

\* What may have been let pass is a number.
LEMMA LimitNumbers ==
  ASSUME TypeInv
  PROVE  /\ MaxPerWindow \in Nat /\ MaxPerWindow >= 1 /\ WindowMs \in Nat /\ clock \in Nat
         /\ crashes \in Nat /\ MaxPerWindow * crashes \in Nat
         /\ MaxPerWindow * (2 + crashes) = MaxPerWindow * crashes + 2 * MaxPerWindow
         /\ store # Nil => store \in Windows /\ store.count \in Nat /\ store.resetTime \in Nat
<1>1. store # Nil => store \in Windows
  BY DEF TypeInv, PlatformTypeOK
<1> QED
  BY <1>1, Numbers DEF Windows

\* The first request of a window.
LEMMA WindowOpens ==
  ASSUME TypeInv, LimitInv, RateLimit, NewWindow
  PROVE  LimitInv'
<1>1. PICK v \in Windows : v = [count |-> 1, resetTime |-> clock + WindowMs]
  <2>1. clock + WindowMs \in Nat
    BY LimitNumbers
  <2>2. [count |-> 1, resetTime |-> clock + WindowMs] \in Windows
    BY <2>1 DEF Windows
  <2> QED
    BY <2>2
<1>2. v # Nil /\ v.count = 1 /\ v.resetTime = clock + WindowMs
  BY <1>1, WindowsAssumption
<1>3. /\ clock' = clock /\ crashes' = crashes /\ store' = v /\ passes' = Append(passes, clock)
      /\ clock \in 0..MaxTime /\ passes \in Seq(0..MaxTime)
  BY <1>1 DEF RateLimit, Arriving, TypeInv, PlatformTypeOK
<1>4. WindowOK'
  <2>1. \A i \in 1..Len(passes') : passes'[i] <= clock'
    BY <1>3, PassesAreOver DEF LimitInv
  <2>2. store'.count >= 1 /\ WindowMs <= store'.resetTime /\ store'.resetTime <= clock' + WindowMs
    BY <1>2, <1>3, LimitNumbers, SMTT(30)
  <2> QED
    BY <2>1, <2>2 DEF WindowOK
<1> SUFFICES ASSUME NEW t \in 0..MaxTime
             PROVE  PassesWithin(t, t + WindowMs)' <=
                      IF t + WindowMs < clock' THEN MaxPerWindow * (2 + crashes') - 1
                      ELSE PassesSoFar(t)'
  BY <1>4 DEF LimitInv
<1>5. PICK n \in Nat, m \in Nat : n = PassesWithin(t, t + WindowMs) /\ m = MaxPerWindow * crashes
  BY PassesCount, LimitNumbers
<1>6. PICK o \in Nat : o = PassesWithin(t, t + WindowMs)' /\ o <= n + 1
  BY <1>3, <1>5, OneMorePass
<1>7. clock \notin t..(t + WindowMs) => o = n
  BY <1>3, <1>5, <1>6, OneMorePass
<1>8. n <= IF t + WindowMs < clock THEN MaxPerWindow * (2 + crashes) - 1 ELSE PassesSoFar(t)
  BY <1>5 DEF LimitInv
<1>9. CASE t + WindowMs < clock
  <2>1. o = n
    BY <1>3, <1>7, <1>9
  <2> QED
    BY <1>3, <1>6, <1>8, <1>9, <2>1
<1>10. CASE ~ (t + WindowMs < clock) /\ t <= clock
  <2>1. n <= MaxPerWindow - 1 + m
    <3>1. CASE store = Nil
      BY <1>5, <1>8, <1>10, <3>1 DEF PassesSoFar
    <3>2. CASE store # Nil
      <4>1. store.resetTime < clock /\ Taken <= MaxPerWindow /\ Taken \in Nat
        BY <3>2, LimitNumbers DEF NewWindow, Taken
      <4>2. ~ (t + WindowMs <= store.resetTime)
        BY <1>10, <3>2, <4>1, LimitNumbers
      <4>3. n <= Taken - 1
        BY <1>8, <1>10, <3>2, <4>2 DEF PassesSoFar
      <4> QED
        BY <1>5, <4>1, <4>3, LimitNumbers
    <3> QED
      BY <3>1, <3>2
  <2>2. PassesSoFar(t)' = MaxPerWindow - 1 + m + 1
    <3>1. t + WindowMs <= clock + WindowMs
      BY <1>10, LimitNumbers
    <3>2. Taken' = 1
      BY <1>2, <1>3, LimitNumbers DEF Taken
    <3> QED
      BY <1>2, <1>3, <1>5, <3>1, <3>2 DEF PassesSoFar
  <2>3. o <= MaxPerWindow - 1 + m + 1
    BY <1>6, <2>1, LimitNumbers
  <2> QED
    BY <1>3, <1>6, <1>10, <2>2, <2>3
<1>11. CASE t > clock
  <2>1. o = 0
    BY <1>3, <1>5, <1>7, <1>11, NoLaterPass DEF LimitInv
  <2>2. PassesSoFar(t)' = 0
    <3>1. ~ (t + WindowMs <= clock + WindowMs)
      BY <1>11, LimitNumbers
    <3>2. Taken' = 1
      BY <1>2, <1>3, LimitNumbers DEF Taken
    <3> QED
      BY <1>2, <1>3, <3>1, <3>2 DEF PassesSoFar
  <2>3. ~ (t + WindowMs < clock)
    BY <1>11, LimitNumbers
  <2> QED
    BY <1>3, <1>6, <2>1, <2>2, <2>3
<1> QED
  BY <1>3, <1>9, <1>10, <1>11

\* One more request in the window that is open.
LEMMA WindowGoesOn ==
  ASSUME TypeInv, LimitInv, RateLimit, ~ NewWindow
  PROVE  LimitInv'
<1>1. PICK w \in Windows : w = store /\ w # Nil
  BY DEF NewWindow, TypeInv, PlatformTypeOK
<1>2. PICK count \in Nat, reset \in Nat : count = w.count /\ reset = w.resetTime
  BY DEF Windows
<1>3. PICK v \in Windows : v = [w EXCEPT !.count = @ + 1]
  <2>1. [w EXCEPT !.count = @ + 1] \in Windows
    BY DEF Windows
  <2> QED
    BY <2>1
<1>4. v # Nil /\ v.count = count + 1 /\ v.resetTime = reset
  BY <1>2, <1>3, WindowsAssumption DEF Windows
<1>5. /\ clock' = clock /\ crashes' = crashes /\ store' = v
      /\ passes' = IF count + 1 <= MaxPerWindow THEN Append(passes, clock) ELSE passes
      /\ clock \in 0..MaxTime /\ passes \in Seq(0..MaxTime)
  BY <1>1, <1>3, <1>4 DEF RateLimit, Arriving, TypeInv, PlatformTypeOK
<1>6. count >= 1 /\ WindowMs <= reset /\ reset <= clock + WindowMs
  BY <1>1, <1>2 DEF LimitInv, WindowOK
<1>7. WindowOK'
  <2>1. \A i \in 1..Len(passes') : passes'[i] <= clock'
    BY <1>5, PassesAreOver DEF LimitInv
  <2>2. store'.count >= 1 /\ WindowMs <= store'.resetTime /\ store'.resetTime <= clock' + WindowMs
    BY <1>4, <1>5, <1>6
  <2> QED
    BY <2>1, <2>2 DEF WindowOK
<1> SUFFICES ASSUME NEW t \in 0..MaxTime
             PROVE  PassesWithin(t, t + WindowMs)' <=
                      IF t + WindowMs < clock' THEN MaxPerWindow * (2 + crashes') - 1
                      ELSE PassesSoFar(t)'
  BY <1>7 DEF LimitInv
<1>8. PICK n \in Nat, m \in Nat : n = PassesWithin(t, t + WindowMs) /\ m = MaxPerWindow * crashes
  BY PassesCount, LimitNumbers
<1>9. n <= IF t + WindowMs < clock THEN MaxPerWindow * (2 + crashes) - 1 ELSE PassesSoFar(t)
  BY <1>8 DEF LimitInv
<1>10. PICK taken \in Nat : taken = IF count <= MaxPerWindow THEN count ELSE MaxPerWindow
  BY LimitNumbers
<1>11. PassesSoFar(t) = IF t + WindowMs <= reset THEN MaxPerWindow - 1 + m + taken ELSE taken - 1
  BY <1>1, <1>2, <1>8, <1>10 DEF PassesSoFar, Taken
<1>12. CASE count + 1 <= MaxPerWindow
  <2>1. PICK o \in Nat : /\ o = PassesWithin(t, t + WindowMs)' /\ o <= n + 1
                         /\ clock \notin t..(t + WindowMs) => o = n
    BY <1>5, <1>8, <1>12, OneMorePass
  <2>2. PassesSoFar(t)'
          = IF t + WindowMs <= reset THEN MaxPerWindow - 1 + m + (taken + 1) ELSE (taken + 1) - 1
    <3>1. Taken' = taken + 1
      BY <1>4, <1>5, <1>10, <1>12, LimitNumbers DEF Taken
    <3> QED
      BY <1>4, <1>5, <1>8, <3>1 DEF PassesSoFar
  <2>3. CASE t + WindowMs < clock
    <3>1. o = n
      BY <1>5, <2>1, <2>3
    <3> QED
      BY <1>5, <1>9, <2>1, <2>3, <3>1
  <2>4. CASE ~ (t + WindowMs < clock)
    BY <1>5, <1>9, <1>11, <2>1, <2>2, <2>4, LimitNumbers, SMTT(30)
  <2> QED
    BY <2>3, <2>4
<1>13. CASE ~ (count + 1 <= MaxPerWindow)
  <2>1. passes' = passes /\ PassesWithin(t, t + WindowMs)' = n
    BY <1>5, <1>8, <1>13 DEF PassesWithin
  <2>2. PassesSoFar(t)' = PassesSoFar(t)
    <3>1. Taken' = taken
      <4>1. taken = MaxPerWindow /\ ~ (v.count <= MaxPerWindow)
        BY <1>4, <1>10, <1>13, LimitNumbers
      <4> QED
        BY <1>5, <4>1 DEF Taken
    <3> QED
      BY <1>4, <1>5, <1>8, <1>11, <3>1 DEF PassesSoFar
  <2> QED
    BY <1>5, <1>9, <2>1, <2>2
<1> QED
  BY <1>12, <1>13

\* The window is forgotten, once it is over or by a restart.
LEMMA WindowForgotten ==
  ASSUME TypeInv, LimitInv, Cleanup \/ RestartPlatform
  PROVE  LimitInv'
<1>1. clock' = clock /\ passes' = passes /\ store' = Nil /\ clock \in Nat
  BY LimitNumbers DEF Cleanup, RestartPlatform
<1>2. WindowOK'
  BY <1>1 DEF LimitInv, WindowOK
<1> SUFFICES ASSUME NEW t \in 0..MaxTime
             PROVE  PassesWithin(t, t + WindowMs)' <=
                      IF t + WindowMs < clock' THEN MaxPerWindow * (2 + crashes') - 1
                      ELSE MaxPerWindow - 1 + MaxPerWindow * crashes'
  BY <1>1, <1>2 DEF LimitInv, PassesSoFar
<1>3. PICK n \in Nat, m \in Nat :
        /\ n = PassesWithin(t, t + WindowMs) /\ n = PassesWithin(t, t + WindowMs)'
        /\ m = MaxPerWindow * crashes /\ MaxPerWindow * (2 + crashes) = m + 2 * MaxPerWindow
  BY <1>1, PassesCount, LimitNumbers DEF PassesWithin
<1>4. PICK r \in Nat : /\ r = MaxPerWindow * crashes' /\ m <= r
                       /\ MaxPerWindow * (2 + crashes') = r + 2 * MaxPerWindow
                       /\ RestartPlatform => r = m + MaxPerWindow
  <2>1. CASE crashes' = crashes /\ ~ RestartPlatform
    BY <1>3, <2>1
  <2>2. CASE RestartPlatform
    <3>1. crashes' = crashes + 1 /\ crashes \in Nat
      BY <2>2, LimitNumbers DEF RestartPlatform, Crashing
    <3>2. /\ MaxPerWindow * (crashes + 1) = m + MaxPerWindow
          /\ MaxPerWindow * (2 + (crashes + 1)) = m + MaxPerWindow + 2 * MaxPerWindow
      BY <1>3, <3>1, LimitNumbers
    <3> QED
      BY <1>3, <2>2, <3>1, <3>2, LimitNumbers
  <2> QED
    BY <2>1, <2>2 DEF Cleanup, Working, budgetVars
<1>5. n <= IF t + WindowMs < clock THEN MaxPerWindow * (2 + crashes) - 1 ELSE PassesSoFar(t)
  BY <1>3 DEF LimitInv
<1>6. store # Nil => Taken \in Nat /\ Taken <= MaxPerWindow
  BY LimitNumbers DEF Taken
<1>7. CASE t + WindowMs < clock
  BY <1>1, <1>3, <1>4, <1>5, <1>7, LimitNumbers
<1>8. CASE ~ (t + WindowMs < clock)
  <2>1. n <= MaxPerWindow - 1 + r
    <3>1. CASE store = Nil
      BY <1>3, <1>4, <1>5, <1>8, <3>1, LimitNumbers DEF PassesSoFar
    <3>2. CASE store # Nil /\ t + WindowMs <= store.resetTime
      <4>1. n <= MaxPerWindow - 1 + m + Taken
        BY <1>3, <1>5, <1>8, <3>2 DEF PassesSoFar
      <4>2. RestartPlatform
        BY <1>1, <1>8, <3>2, LimitNumbers DEF Cleanup, Expired
      <4> QED
        BY <1>4, <1>6, <3>2, <4>1, <4>2, LimitNumbers
    <3>3. CASE store # Nil /\ ~ (t + WindowMs <= store.resetTime)
      <4>1. n <= Taken - 1
        BY <1>5, <1>8, <3>3 DEF PassesSoFar
      <4> QED
        BY <1>6, <3>3, <4>1, LimitNumbers
    <3> QED
      BY <3>1, <3>2, <3>3
  <2> QED
    BY <1>1, <1>3, <1>4, <1>8, <2>1
<1> QED
  BY <1>7, <1>8

\* Time goes by.
LEMMA WindowAges ==
  ASSUME TypeInv, LimitInv, Tick
  PROVE  LimitInv'
<1>1. /\ clock' = clock + 1 /\ passes' = passes /\ store' = store /\ crashes' = crashes
      /\ clock \in Nat /\ passes \in Seq(0..MaxTime)
  BY LimitNumbers DEF Tick, Working, budgetVars, TypeInv, PlatformTypeOK
<1>2. WindowOK'
  <2>1. \A i \in 1..Len(passes') : passes'[i] <= clock'
    BY <1>1, PassesAreOver DEF LimitInv
  <2>2. store # Nil =>
          store.count >= 1 /\ WindowMs <= store.resetTime /\ store.resetTime <= clock + 1 + WindowMs
    BY <1>1, LimitNumbers, SMTT(30) DEF LimitInv, WindowOK
  <2> QED
    BY <1>1, <2>1, <2>2 DEF WindowOK
<1> SUFFICES ASSUME NEW t \in 0..MaxTime
             PROVE  PassesWithin(t, t + WindowMs)' <=
                      IF t + WindowMs < clock + 1 THEN MaxPerWindow * (2 + crashes) - 1
                      ELSE PassesSoFar(t)
  BY <1>1, <1>2 DEF LimitInv, PassesSoFar, Taken
<1>3. PICK n \in Nat, m \in Nat :
        /\ n = PassesWithin(t, t + WindowMs) /\ n = PassesWithin(t, t + WindowMs)'
        /\ m = MaxPerWindow * crashes /\ MaxPerWindow * (2 + crashes) = m + 2 * MaxPerWindow
  BY <1>1, PassesCount, LimitNumbers DEF PassesWithin
<1>4. n <= IF t + WindowMs < clock THEN MaxPerWindow * (2 + crashes) - 1 ELSE PassesSoFar(t)
  BY <1>3 DEF LimitInv
<1>5. PassesSoFar(t) <= m + 2 * MaxPerWindow - 1
  <2>1. store # Nil => Taken \in Nat /\ Taken <= MaxPerWindow
    BY LimitNumbers DEF Taken
  <2>2. CASE store = Nil
    BY <1>3, <2>2, LimitNumbers DEF PassesSoFar
  <2>3. CASE store # Nil
    BY <1>3, <2>1, <2>3, LimitNumbers DEF PassesSoFar
  <2> QED
    BY <2>2, <2>3
<1>6. CASE t + WindowMs < clock
  BY <1>1, <1>3, <1>4, <1>6, LimitNumbers
<1>7. CASE ~ (t + WindowMs < clock) /\ t + WindowMs < clock + 1
  <2>1. PassesSoFar(t) \in Int
    BY LimitNumbers DEF PassesSoFar, Taken
  <2> QED
    BY <1>3, <1>4, <1>5, <1>7, <2>1, LimitNumbers
<1>8. CASE ~ (t + WindowMs < clock + 1)
  BY <1>1, <1>3, <1>4, <1>8, LimitNumbers
<1> QED
  BY <1>6, <1>7, <1>8

\* Every step keeps what is known of the windows.
LEMMA LimitKept == TypeInv /\ LimitInv /\ [PlatformNext]_platformVars => LimitInv'
<1> SUFFICES ASSUME TypeInv, LimitInv, [PlatformNext]_platformVars PROVE LimitInv'
  OBVIOUS
<1>1. CASE clock' = clock /\ store' = store /\ passes' = passes /\ crashes' = crashes
  BY <1>1 DEF LimitInv, WindowOK, PassesWithin, PassesSoFar, Taken
<1>2. CASE UNCHANGED platformVars \/ ConnectionChanges
  BY <1>1, <1>2 DEF platformVars, platformState, budgetVars, ConnectionChanges, InProcess, Failing,
     Working
<1>3. ASSUME NEW k \in Calls, AtWork(k) PROVE LimitInv'
  BY <1>1, <1>3, ServingKeeps DEF Arriving, Failing, Working, budgetVars
<1> QED
  BY <1>2, <1>3, Steps, WindowOpens, WindowGoesOn, WindowForgotten, WindowAges

\* In no interval as long as a window does the limiter let pass twice its limit, and one limit
\* more for every restart (LimiterHolds).
THEOREM LimiterAlwaysHolds == PlatformSpec => []LimiterHolds
<1>1. PlatformInit => LimitInv
  <2> SUFFICES ASSUME PlatformInit, NEW t \in 0..MaxTime
               PROVE  /\ WindowOK
                      /\ PassesWithin(t, t + WindowMs) <=
                           IF t + WindowMs < clock THEN MaxPerWindow * (2 + crashes) - 1
                           ELSE PassesSoFar(t)
    BY 0 \in 0..MaxTime DEF LimitInv
  <2>1. clock = 0 /\ store = Nil /\ passes = <<>> /\ crashes = 0
    BY DEF PlatformInit, BudgetInit
  <2>2. PassesWithin(t, t + WindowMs) = 0
    BY <2>1, FS_EmptySet DEF PassesWithin
  <2>3. ~ (t + WindowMs < 0)
    OBVIOUS
  <2> QED
    BY <2>1, <2>2, <2>3 DEF WindowOK, PassesSoFar
<1>2. TypeInv /\ LimitInv => LimiterHolds
  <2> SUFFICES ASSUME TypeInv, LimitInv, NEW t \in 0..MaxTime
               PROVE  PassesWithin(t, t + WindowMs) < MaxPerWindow * (2 + crashes)
    BY DEF LimiterHolds
  <2>1. PICK n \in Nat, m \in Nat :
          /\ n = PassesWithin(t, t + WindowMs)
          /\ m = MaxPerWindow * crashes /\ MaxPerWindow * (2 + crashes) = m + 2 * MaxPerWindow
    BY PassesCount, LimitNumbers
  <2>2. n <= IF t + WindowMs < clock THEN MaxPerWindow * (2 + crashes) - 1 ELSE PassesSoFar(t)
    BY <2>1 DEF LimitInv
  <2>3. PassesSoFar(t) \in Int /\ PassesSoFar(t) <= m + 2 * MaxPerWindow - 1
    <3>1. store # Nil => Taken \in Nat /\ Taken <= MaxPerWindow
      BY LimitNumbers DEF Taken
    <3>2. CASE store = Nil
      BY <2>1, <3>2, LimitNumbers DEF PassesSoFar
    <3>3. CASE store # Nil
      BY <2>1, <3>1, <3>3, LimitNumbers DEF PassesSoFar
    <3> QED
      BY <3>2, <3>3
  <2> QED
    BY <2>1, <2>2, <2>3, LimitNumbers
<1> QED
  BY <1>1, <1>2, TypesAtStart, TypesKept, LimitKept, PTL DEF PlatformSpec
=============================================================================
