------------------------------ MODULE Admission ------------------------------
(***************************************************************************)
(* How a run or a submission of a student gets through one process of the  *)
(* web server (runStudentDraft and submitStudentDraft, with what           *)
(* executeStudentDraft awaits): past the rate limiter, the guard of the    *)
(* session, the transaction that prepares the run, the line for the        *)
(* provider, and the transaction that records the result.                  *)
(*                                                                         *)
(* An action is what the process does between two awaits.  What is stored  *)
(* is in InlineAttempts; here it is who may be where at the same time.     *)
(***************************************************************************)
EXTENDS RateLimiter, ConcurrencyQueue, RequestGuard

Kind == {"run", "submit"}

ASSUME AdmissionAssumption == Key \subseteq Kind \X Session /\ Request \subseteq Nat

VARIABLES
  pc,          \* where a request is
  key,         \* its kind and session
  stamp,       \* when it asked the rate limiter
  lastStart    \* history: when the last run of a session got past the guard

requests == <<pc, key, stamp>>
vars == <<now, limiter, queueVars, guard, requests, lastStart>>

Init ==
  /\ LimiterInit /\ QueueInit /\ GuardInit
  /\ pc = [q \in Request |-> "idle"]
  /\ key = [q \in Request |-> Null]
  /\ stamp = [q \in Request |-> Null]
  /\ lastStart = [s \in Session |-> None]

SessionOf(q) == key[q][2]
Goes(q, place) == pc' = [pc EXCEPT ![q] = place]
Leaves(q) == /\ Goes(q, "done")
             /\ key' = [key EXCEPT ![q] = Null]
             /\ stamp' = [stamp EXCEPT ![q] = Null]

\* A request asks a shared store, with the time of the process; requests are
\* numbered as they come.
Comes(q) == pc[q] = "idle" /\ \A r \in Request : r < q => pc[r] # "idle"

Asks(q, k) ==
  /\ Comes(q) /\ store # "memory"
  /\ Goes(q, "checking")
  /\ key' = [key EXCEPT ![q] = k]
  /\ stamp' = [stamp EXCEPT ![q] = now]
  /\ UNCHANGED <<now, limiter, queueVars, guard, lastStart>>

\* The store lets request q of kind and session k through, which goes on at once
\* to the guard of the session ...
Enters(q, k, t) ==
  /\ Consume(k, t, TRUE)
  /\ Starts(k[2], k[1], now)
  /\ Goes(q, "preparing")
  /\ key' = [key EXCEPT ![q] = k]
  /\ stamp' = [stamp EXCEPT ![q] = Null]
  /\ lastStart' = IF k[1] = "run" THEN [lastStart EXCEPT ![k[2]] = now] ELSE lastStart
  /\ UNCHANGED queueVars

\* ... which may keep it out; or the store refuses it, or fails.
IsRefused(q, k, t) ==
  /\ \/ Consume(k, t, TRUE) /\ ~MayStart(k[2], k[1], now)
     \/ Consume(k, t, FALSE)
     \/ StoreFails(k, t)
  /\ Leaves(q)
  /\ UNCHANGED <<queueVars, guard, lastStart>>

\* The memory answers at once.
Arrives(q, k) ==
  /\ Comes(q) /\ store = "memory"
  /\ Enters(q, k, now) \/ IsRefused(q, k, now)

IsAnswered(q) ==
  /\ pc[q] = "checking"
  /\ Enters(q, key[q], stamp[q]) \/ IsRefused(q, key[q], stamp[q])

\* The run is prepared; the request gets a slot, waits in line, or is turned
\* away, which is recorded as a result like any other.
IsPrepared(q) ==
  /\ pc[q] = "preparing"
  /\ \/ RunsNow(q) /\ Goes(q, "executing")
     \/ Waits(q) /\ Goes(q, "queued")
     \/ TurnedAway /\ Goes(q, "recording")
  /\ UNCHANGED <<key, stamp, now, limiter, guard, lastStart>>

\* The provider answers or fails; who is first in line gets the slot.
Executed(q) ==
  /\ pc[q] = "executing"
  /\ Finishes(q)
  /\ pc' = [r \in Request |-> IF r = q THEN "recording"
                              ELSE IF r \in executing' THEN "executing" ELSE pc[r]]
  /\ UNCHANGED <<key, stamp, now, limiter, guard, lastStart>>

WaitedTooLong(q) ==
  /\ pc[q] = "queued"
  /\ TimesOut(q)
  /\ Goes(q, "recording")
  /\ UNCHANGED <<key, stamp, now, limiter, guard, lastStart>>

\* The guard is released when the result is recorded or a transaction failed;
\* a repeated submission is answered from its first transaction.
Ends(q) ==
  /\ pc[q] \in {"preparing", "recording"}
  /\ Releases(SessionOf(q), now)
  /\ Leaves(q)
  /\ UNCHANGED <<now, limiter, queueVars, lastStart>>

Collects(s) ==
  /\ TimerFires(s, now)
  /\ UNCHANGED <<now, limiter, queueVars, requests, lastStart>>

\* Time passes; calls of the shared store are answered within MaxLatency.
Passing ==
  /\ \A q \in Request : pc[q] = "checking" => now - stamp[q] < MaxLatency
  /\ Tick
  /\ UNCHANGED <<queueVars, guard, requests, lastStart>>

\* Every request was answered: the process has nothing to do.
Quiet == (\A q \in Request : pc[q] = "done") /\ UNCHANGED vars

Next ==
  \/ \E q \in Request, k \in Key : Asks(q, k) \/ Arrives(q, k)
  \/ \E q \in Request : \/ IsAnswered(q) \/ IsPrepared(q) \/ Executed(q)
                        \/ WaitedTooLong(q) \/ Ends(q)
  \/ \E s \in Session : Collects(s)
  \/ Passing
  \/ Quiet

Spec == Init /\ [][Next]_vars

-----------------------------------------------------------------------------
Inside == {"preparing", "queued", "executing", "recording"}
TypeOK ==
  /\ pc \in [Request -> Inside \cup {"idle", "checking", "done"}]
  /\ activeCount \in Nat /\ queue \in Seq(Request) /\ executing \subseteq Request

\* The guard of a session, the line and the slots agree on who is where: a
\* session is in use exactly while one request of it is past the guard, however
\* that ends, and never two; and an unused entry of the guard is about to be collected.
OnePerSession ==
  /\ EntriesCollected
  /\ \A s \in Session :
       LET inside == {q \in Request : pc[q] \in Inside /\ SessionOf(q) = s}
       IN  /\ Cardinality(inside) <= 1
           /\ inside # {} <=> guard[s] # None /\ guard[s].active
  /\ \A q \in Request : /\ pc[q] = "executing" <=> q \in executing
                        /\ pc[q] = "queued" <=> q \in ToSet(queue)

\* A refusal does not name too short a wait: who asks again as late as told,
\* while no other request of the key is let through, is let through.  (Not with
\* Redis, which renews the window for what it refuses.)
RetryHonest ==
  [][\A k \in Key, q \in Request :
       (/\ store # "redis" /\ pc[q] # "done" /\ pc'[q] = "done"
        /\ promise[k] # Null /\ promise'[k] \notin {promise[k], Null})
         => (IF pc[q] = "idle" THEN now ELSE stamp[q]) < promise[k]]_vars

\* Two runs of a session start at least the cooldown apart, whatever the timer
\* of its entry did in between.
CooldownHeld ==
  [][\A s \in Session :
       lastStart[s] # None /\ lastStart'[s] # lastStart[s]
         => now - lastStart[s] >= Cooldown]_vars
=============================================================================
