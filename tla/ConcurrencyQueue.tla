--------------------------- MODULE ConcurrencyQueue ---------------------------
(***************************************************************************)
(* backend/server/execution/concurrency-queue.ts: at most maxConcurrent    *)
(* executions of the web process at a time; the others wait in line, each  *)
(* with a timer.  Every operator is what runs between two awaits.          *)
(***************************************************************************)
EXTENDS Integers, FiniteSets, SequencesExt

CONSTANTS
  Request,
  Capacities,    \* values of LABRIX_MAX_CONCURRENT_RUNNERS
  MaxQueueSize

ASSUME QueueAssumption == Capacities \subseteq Int /\ MaxQueueSize \in Nat

VARIABLES
  maxConcurrent,
  activeCount,
  queue,      \* the waiting requests, each with its timer
  executing   \* requests whose task was started and has not ended

queueVars == <<maxConcurrent, activeCount, queue, executing>>

\* options.maxConcurrent || 6
QueueInit ==
  /\ \E c \in Capacities : maxConcurrent = IF c = 0 THEN 6 ELSE c
  /\ activeCount = 0
  /\ queue = <<>>
  /\ executing = {}

\* run: there is a slot.
RunsNow(q) ==
  /\ activeCount < maxConcurrent
  /\ activeCount' = activeCount + 1
  /\ executing' = executing \cup {q}
  /\ UNCHANGED <<maxConcurrent, queue>>

\* run: there is none; the request waits in line ...
Waits(q) ==
  /\ activeCount >= maxConcurrent /\ Len(queue) < MaxQueueSize
  /\ queue' = Append(queue, q)
  /\ UNCHANGED <<maxConcurrent, activeCount, executing>>

\* ... or is turned away.
TurnedAway ==
  /\ activeCount >= maxConcurrent /\ Len(queue) >= MaxQueueSize
  /\ UNCHANGED queueVars

\* A task ends: its slot goes to the first in line, whose timer is cleared.  A
\* definition with a suffix is a mistake the code could have made instead.
Dequeues_BeforeRelease(count) ==
  IF activeCount >= maxConcurrent \/ queue = <<>>
  THEN activeCount' = count /\ UNCHANGED queue
  ELSE activeCount' = count + 1 /\ queue' = Tail(queue)
Dequeues(count) ==
  IF count >= maxConcurrent \/ queue = <<>>
  THEN activeCount' = count /\ UNCHANGED queue
  ELSE activeCount' = count + 1 /\ queue' = Tail(queue)

Finishes(q) ==
  /\ q \in executing
  /\ Dequeues(activeCount - 1)
  /\ executing' = (executing \ {q}) \cup (ToSet(queue) \ ToSet(queue'))
  /\ UNCHANGED maxConcurrent

\* The timer of a waiting request fires: queue.splice(index, 1).
TimesOut(q) ==
  /\ \E i \in DOMAIN queue : queue[i] = q /\ queue' = RemoveAt(queue, i)
  /\ UNCHANGED <<maxConcurrent, activeCount, executing>>

-----------------------------------------------------------------------------
\* The slots that are counted are those in use, within the capacity, and nobody
\* waits for a slot that is free: also after tasks failed and waits timed out.
SlotsExact ==
  /\ activeCount = Cardinality(executing)
  /\ activeCount <= IF maxConcurrent < 0 THEN 0 ELSE maxConcurrent
  /\ queue # <<>> => activeCount >= maxConcurrent
  /\ IsInjective(queue) /\ ToSet(queue) \cap executing = {}
=============================================================================
