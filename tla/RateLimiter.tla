----------------------------- MODULE RateLimiter -----------------------------
(***************************************************************************)
(* The sliding window of backend/server/security/rate-limiter.ts over the  *)
(* stores it may use: the memory of the process, Upstash, or Redis with    *)
(* the memory to fall back on.                                             *)
(*                                                                         *)
(* Time counts ticks, Second of them in a second.  An operator here is     *)
(* one call of a store: its effect on the sorted times of a key.           *)
(***************************************************************************)
EXTENDS Integers, FiniteSets, SequencesExt

CONSTANTS
  Key,         \* prefix and identifier of what is limited
  Limit,       \* maxRequests of a window
  Window,      \* its length in ticks: a number of seconds
  Retention,   \* what the memory keeps at least, in ticks
  Second,      \* ticks of a second
  MaxLatency,  \* bound: how long a call of a shared store is under way
  MaxTime,     \* bound: the clock
  Null

ASSUME LimiterAssumption ==
  /\ Limit \in Nat \ {0} /\ Second \in Nat \ {0}
  /\ Window \in Nat \ {0} /\ Window % Second = 0
  /\ Retention \in Nat /\ Retention >= Window
  /\ MaxLatency \in 0..Window /\ MaxTime \in Nat /\ Null \notin Nat

VARIABLES
  now,       \* the clock
  store,     \* which store the process was configured with
  memory,    \* times of a key in the memory of the process
  shared,    \* times of a key in Upstash or Redis
  granted,   \* history: the times a key was let through
  promise    \* history: when the last refusal of a key said it will be let through

limiter == <<store, memory, shared, granted, promise>>

LimiterInit ==
  /\ now = 0
  /\ store \in {"memory", "upstash", "redis"}
  /\ memory = [k \in Key |-> <<>>]
  /\ shared = [k \in Key |-> <<>>]
  /\ granted = [k \in Key |-> <<>>]
  /\ promise = [k \in Key |-> Null]

\* The times of a key are in order: a sorted set keeps them so, and the memory
\* appends the clock.  So those up to t come first, and a filter or a removal by
\* score leaves the rest.
UpTo(times, t) == Cardinality({i \in DOMAIN times : times[i] <= t})
After(times, t) == SubSeq(times, UpTo(times, t) + 1, Len(times))

\* A definition with a suffix is a mistake the code could have made in place of
\* the one it precedes.
Recent_Whole(times, t) == After(times, t - Window - 1)
Recent_Short(times, t) == After(times, t - Window + 1)
Recent(times, t) == After(times, t - Window)

\* Waiting for a reset, in whole seconds: Math.max(1, Math.ceil(ms / 1000)).
RetrySeconds(ticks) ==
  IF ticks <= 0 THEN 1 ELSE (ticks + Second - 1) \div Second

\* What the caller is told, for the record.
Granted(k) ==
  /\ granted' = [granted EXCEPT ![k] = Append(@, now)]
  /\ promise' = [promise EXCEPT ![k] = Null]
Refused(k, retry) ==
  /\ promise' = [promise EXCEPT ![k] = now + retry * Second]
  /\ UNCHANGED granted

\* The retention of the memory: at most once a minute, for every key.
Kept(cleans, times) ==
  IF cleans THEN After(times, now - Retention) ELSE times

\* MemoryRateLimiterStore.consume.  Only a request let through is counted.
ConsumeMemory(k, ok) ==
  \E cleans \in BOOLEAN :
    LET kept == [j \in Key |-> Kept(cleans, memory[j])]
        recent == Recent(kept[k], now)
    IN
    /\ ok <=> Len(recent) < Limit
    /\ IF ok
       THEN /\ memory' = [kept EXCEPT ![k] = Append(recent, now)]
            /\ Granted(k)
       ELSE /\ memory' = kept
            /\ Refused(k, RetrySeconds(Head(recent) + Window - now))

\* The sorted set of a key at a shared store, with the time t of a caller.
Inserted(times, t) == InsertAt(times, UpTo(times, t) + 1, t)

\* UpstashRateLimiterStore.consume: the script runs alone at the store, with the
\* time t at which the caller sent it.
ScriptRuns(k, t, ok) ==
  LET recent == Recent(shared[k], t) IN
  /\ ok <=> Len(recent) < Limit
  /\ shared' = [shared EXCEPT ![k] = IF ok THEN Inserted(recent, t) ELSE recent]

ConsumeUpstash(k, t, ok) ==
  /\ ScriptRuns(k, t, ok)
  /\ IF ok THEN Granted(k)
     ELSE Refused(k, RetrySeconds(Head(Recent(shared[k], t)) + Window - t))

\* RedisRateLimiterStore.consume: a refused request is counted as well, and
\* the wait it is told is the window.
TransactionRuns(k, t) ==
  shared' = [shared EXCEPT ![k] = Inserted(Recent(@, t), t)]

ConsumeRedis(k, t, ok) ==
  /\ TransactionRuns(k, t)
  /\ ok <=> Len(Recent(shared[k], t)) < Limit
  /\ IF ok THEN Granted(k) ELSE Refused(k, Window \div Second)

\* RateLimiter.check: a call that lets through or refuses what asked at time t.
\* Without an answer from Redis the memory decides, whether or not the request
\* was counted there.
Consume(k, t, ok) ==
  /\ \/ store = "memory" /\ ConsumeMemory(k, ok) /\ UNCHANGED shared
     \/ store = "upstash" /\ ConsumeUpstash(k, t, ok) /\ UNCHANGED memory
     \/ store = "redis" /\ ConsumeRedis(k, t, ok) /\ UNCHANGED memory
     \/ store = "redis" /\ ConsumeMemory(k, ok) /\ UNCHANGED shared
     \/ store = "redis" /\ ConsumeMemory(k, ok) /\ TransactionRuns(k, t)
  /\ UNCHANGED <<now, store>>

\* Without an answer from Upstash the call fails, counted there or not.
StoreFails(k, t) ==
  /\ store = "upstash"
  /\ \/ UNCHANGED <<shared, promise>>
     \/ /\ \E ok \in BOOLEAN : ScriptRuns(k, t, ok)
        /\ promise' = [promise EXCEPT ![k] = Null]
  /\ UNCHANGED <<now, store, memory, granted>>

Tick ==
  /\ now < MaxTime
  /\ now' = now + 1
  /\ UNCHANGED limiter

-----------------------------------------------------------------------------
\* In no window more requests of a key are let through than its limit, the time
\* a call is under way to a shared store apart: two calls may overtake one
\* another and carry the time they were sent.  Twice as many when Redis comes
\* and goes, as the memory counts for itself.
Covered == IF store = "memory" THEN Window ELSE Window - MaxLatency
WindowHeld ==
  \A k \in Key : \A i \in DOMAIN granted[k] :
    LET within == {j \in DOMAIN granted[k] :
                     j >= i /\ granted[k][j] < granted[k][i] + Covered}
    IN Cardinality(within) <= IF store = "redis" THEN 2 * Limit ELSE Limit
=============================================================================
