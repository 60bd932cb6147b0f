--------------------------- MODULE AdmissionProofs ---------------------------
(***************************************************************************)
(* Theorems about Admission, for any number of requests, sessions and      *)
(* slots, any limit, window and cooldown.                                  *)
(*                                                                         *)
(* The invariant has a part for each thing a request passes: the line for  *)
(* the provider (Line), the guard of its session (Guarded, Cool) and the   *)
(* windows of the rate limiter.                                            *)
(***************************************************************************)
EXTENDS Admission, FiniteSetTheorems, FunctionTheorems, SequenceTheorems, TLAPS

-----------------------------------------------------------------------------
(* Sequences *)

\* The beginning and the end of a sequence.
LEMMA Parts ==
  ASSUME NEW S, NEW s \in Seq(S), NEW i \in 0 .. Len(s)
  PROVE  /\ SubSeq(s, 1, i) \in Seq(S) /\ Len(SubSeq(s, 1, i)) = i
         /\ \A j \in 1 .. i : SubSeq(s, 1, i)[j] = s[j]
         /\ SubSeq(s, i + 1, Len(s)) \in Seq(S) /\ Len(SubSeq(s, i + 1, Len(s))) = Len(s) - i
         /\ \A j \in 1 .. Len(s) - i : SubSeq(s, i + 1, Len(s))[j] = s[i + j]
<1>1. Len(s) \in Nat /\ i \in Nat /\ i <= Len(s) /\ \A j \in 1 .. Len(s) : s[j] \in S
  BY ElementOfSeq
<1>2. /\ SubSeq(s, 1, i) \in Seq(S)
      /\ Len(SubSeq(s, 1, i)) = IF 1 <= i THEN i - 1 + 1 ELSE 0
      /\ \A j \in 1 .. i - 1 + 1 : SubSeq(s, 1, i)[j] = s[1 + j - 1]
  <2>1. \A j \in 1 .. i : s[j] \in S
    BY <1>1
  <2>. QED
    BY <1>1, <2>1, SubSeqProperties
<1>3. /\ SubSeq(s, i + 1, Len(s)) \in Seq(S)
      /\ Len(SubSeq(s, i + 1, Len(s)))
           = IF i + 1 <= Len(s) THEN Len(s) - (i + 1) + 1 ELSE 0
      /\ \A j \in 1 .. Len(s) - (i + 1) + 1 : SubSeq(s, i + 1, Len(s))[j] = s[(i + 1) + j - 1]
  <2>1. i + 1 \in Int /\ \A j \in i + 1 .. Len(s) : s[j] \in S
    BY <1>1
  <2>. QED
    BY <1>1, <2>1, SubSeqProperties
<1>. QED
  BY <1>1, <1>2, <1>3

\* A sequence without its i-th element.
LEMMA RemoveAtFacts ==
  ASSUME NEW S, NEW s \in Seq(S), NEW i \in 1 .. Len(s)
  PROVE  /\ RemoveAt(s, i) \in Seq(S) /\ Len(RemoveAt(s, i)) = Len(s) - 1
         /\ \A j \in 1 .. Len(s) - 1 : RemoveAt(s, i)[j] = s[IF j < i THEN j ELSE j + 1]
<1>. DEFINE a == SubSeq(s, 1, i - 1)
            b == SubSeq(s, i + 1, Len(s))
<1>1. Len(s) \in Nat /\ i \in Nat /\ i <= Len(s) /\ i >= 1
  OBVIOUS
<1>2. a \in Seq(S) /\ Len(a) = i - 1 /\ \A j \in 1 .. i - 1 : a[j] = s[j]
  BY <1>1, Parts, i - 1 \in 0 .. Len(s)
<1>3. b \in Seq(S) /\ Len(b) = Len(s) - i /\ \A j \in 1 .. Len(s) - i : b[j] = s[i + j]
  BY <1>1, Parts, i \in 0 .. Len(s)
<1>4. RemoveAt(s, i) = a \o b
  BY DEF RemoveAt
<1>. HIDE DEF a, b
<1>5. /\ a \o b \in Seq(S) /\ Len(a \o b) = Len(a) + Len(b)
      /\ \A j \in 1 .. Len(a) + Len(b) :
           (a \o b)[j] = IF j <= Len(a) THEN a[j] ELSE b[j - Len(a)]
  BY <1>2, <1>3, ConcatProperties
<1>6. Len(a) + Len(b) = Len(s) - 1
  BY <1>1, <1>2, <1>3
<1>7. ASSUME NEW j \in 1 .. Len(s) - 1
      PROVE  (a \o b)[j] = s[IF j < i THEN j ELSE j + 1]
  <2>1. ASSUME j < i PROVE (a \o b)[j] = s[j]
    BY <1>1, <1>2, <1>5, <1>6, <2>1
  <2>2. ASSUME j >= i PROVE (a \o b)[j] = s[j + 1]
    <3>1. (a \o b)[j] = b[j - (i - 1)]
      BY <1>1, <1>2, <1>5, <1>6, <2>2
    <3>2. j - (i - 1) \in 1 .. Len(s) - i /\ i + (j - (i - 1)) = j + 1
      BY <1>1, <2>2
    <3>3. b[j - (i - 1)] = s[i + (j - (i - 1))]
      BY <1>3, <3>2
    <3>. QED
      BY <1>1, <2>2, <3>1, <3>2, <3>3
  <2>3. CASE j < i
    BY <2>1, <2>3, Zenon
  <2>4. CASE ~(j < i)
    <3>1. j >= i
      BY <1>1, <2>4
    <3>. QED
      BY <2>2, <2>4, <3>1, Zenon
  <2>. QED
    BY <2>3, <2>4, Zenon
<1>. QED
  BY <1>4, <1>5, <1>6, <1>7

-----------------------------------------------------------------------------
(* The line *)

Capacity == IF maxConcurrent < 0 THEN 0 ELSE maxConcurrent

\* The counter and the line agree with the executions.
Line ==
  /\ maxConcurrent \in Int /\ activeCount \in Nat
  /\ queue \in Seq(Request) /\ executing \in SUBSET Request
  /\ IsFiniteSet(executing) /\ activeCount = Cardinality(executing)
  /\ activeCount <= Capacity
  /\ queue # <<>> => activeCount >= maxConcurrent
  /\ \A i, j \in 1 .. Len(queue) : queue[i] = queue[j] => i = j
  /\ \A i \in 1 .. Len(queue) : queue[i] \notin executing

Waiting == {queue[i] : i \in 1 .. Len(queue)}

LEMMA LineExact == Line => SlotsExact
BY DEF Line, Capacity, SlotsExact, IsInjective, ToSet

LEMMA RunsNowLine ==
  ASSUME Line, NEW q \in Request, q \notin executing, q \notin Waiting, RunsNow(q)
  PROVE  Line' /\ executing' = executing \cup {q} /\ Waiting' = Waiting
<1>1. /\ activeCount < maxConcurrent /\ activeCount' = activeCount + 1
      /\ executing' = executing \cup {q} /\ UNCHANGED <<maxConcurrent, queue>>
  BY DEF RunsNow
<1>2. /\ IsFiniteSet(executing \cup {q})
      /\ Cardinality(executing \cup {q})
           = IF q \in executing THEN Cardinality(executing) ELSE Cardinality(executing) + 1
  BY FS_AddElement DEF Line
<1>3. queue = <<>>
  BY <1>1 DEF Line
<1>4. \A i \in 1 .. Len(queue) : queue[i] \notin executing \cup {q}
  BY DEF Line, Waiting
<1>5. activeCount' = Cardinality(executing') /\ IsFiniteSet(executing')
  BY <1>1, <1>2 DEF Line
<1>6. activeCount' <= Capacity' /\ activeCount' \in Nat
  BY <1>1 DEF Line, Capacity
<1>. QED
  BY <1>1, <1>3, <1>4, <1>5, <1>6 DEF Line, Waiting

LEMMA WaitsLine ==
  ASSUME Line, NEW q \in Request, q \notin executing, q \notin Waiting, Waits(q)
  PROVE  Line' /\ executing' = executing /\ Waiting' = Waiting \cup {q}
<1>1. /\ activeCount >= maxConcurrent /\ queue' = Append(queue, q)
      /\ UNCHANGED <<maxConcurrent, activeCount, executing>>
  BY DEF Waits
<1>2. queue \in Seq(Request) /\ Len(queue) \in Nat
  BY DEF Line
<1>3. /\ queue' \in Seq(Request) /\ Len(queue') = Len(queue) + 1
      /\ \A j \in 1 .. Len(queue) : queue'[j] = queue[j]
      /\ queue'[Len(queue) + 1] = q
  BY <1>1, <1>2, AppendProperties
<1>4. /\ \A j \in 1 .. Len(queue') : j \in 1 .. Len(queue) \/ j = Len(queue) + 1
      /\ \A j \in 1 .. Len(queue) : j \in 1 .. Len(queue')
      /\ Len(queue) + 1 \in 1 .. Len(queue')
  BY <1>2, <1>3
<1>5. \A i, j \in 1 .. Len(queue') : queue'[i] = queue'[j] => i = j
  BY <1>3, <1>4 DEF Line, Waiting
<1>6. \A i \in 1 .. Len(queue') : queue'[i] \notin executing
  BY <1>3, <1>4 DEF Line
<1>7. Waiting' = Waiting \cup {q}
  BY <1>3, <1>4 DEF Waiting
<1>. QED
  BY <1>1, <1>3, <1>5, <1>6, <1>7 DEF Line, Capacity

LEMMA TimesOutLine ==
  ASSUME Line, NEW q \in Request, TimesOut(q)
  PROVE  Line' /\ executing' = executing /\ q \in Waiting /\ Waiting' = Waiting \ {q}
<1>1. PICK i \in DOMAIN queue : queue[i] = q /\ queue' = RemoveAt(queue, i)
  BY DEF TimesOut
<1>2. queue \in Seq(Request) /\ Len(queue) \in Nat /\ i \in 1 .. Len(queue)
  BY <1>1 DEF Line
<1>3. UNCHANGED <<maxConcurrent, activeCount, executing>>
  BY DEF TimesOut
<1>4. /\ queue' \in Seq(Request) /\ Len(queue') = Len(queue) - 1
      /\ \A j \in 1 .. Len(queue) - 1 : queue'[j] = queue[IF j < i THEN j ELSE j + 1]
  BY <1>1, <1>2, RemoveAtFacts
<1>5. \A j, k \in 1 .. Len(queue) : queue[j] = queue[k] => j = k
  BY DEF Line
<1>6. ASSUME NEW j \in 1 .. Len(queue')
      PROVE  \E k \in 1 .. Len(queue) : /\ k # i /\ queue'[j] = queue[k]
                                        /\ k = IF j < i THEN j ELSE j + 1
  <2>1. (IF j < i THEN j ELSE j + 1) \in 1 .. Len(queue) /\ (IF j < i THEN j ELSE j + 1) # i
    BY <1>2, <1>4
  <2>. QED
    BY <1>2, <1>4, <2>1
<1>7. \A j, k \in 1 .. Len(queue') : queue'[j] = queue'[k] => j = k
  <2>. SUFFICES ASSUME NEW j \in 1 .. Len(queue'), NEW k \in 1 .. Len(queue'),
                       queue'[j] = queue'[k]
                PROVE  j = k
    OBVIOUS
  <2>1. (IF j < i THEN j ELSE j + 1) = (IF k < i THEN k ELSE k + 1)
    BY <1>5, <1>6
  <2>. QED
    BY <1>2, <1>4, <2>1
<1>8. \A j \in 1 .. Len(queue') : queue'[j] \in Waiting \ {q} /\ queue'[j] \notin executing
  <2>. TAKE j \in 1 .. Len(queue')
  <2>1. PICK k \in 1 .. Len(queue) : k # i /\ queue'[j] = queue[k]
    BY <1>6
  <2>. QED
    BY <1>1, <1>2, <1>5, <2>1 DEF Line, Waiting
<1>9. \A x \in Waiting \ {q} : \E j \in 1 .. Len(queue') : queue'[j] = x
  <2>. TAKE x \in Waiting \ {q}
  <2>1. PICK k \in 1 .. Len(queue) : queue[k] = x
    BY DEF Waiting
  <2>2. CASE k < i
    BY <1>2, <1>4, <2>1, <2>2
  <2>3. CASE k > i
    <3>1. k - 1 \in 1 .. Len(queue') /\ queue'[k - 1] = queue[k]
      BY <1>2, <1>4, <2>1, <2>3
    <3>. QED
      BY <2>1, <3>1
  <2>. QED
    BY <1>1, <1>2, <2>1, <2>2, <2>3
<1>10. Waiting' = Waiting \ {q}
  BY <1>8, <1>9 DEF Waiting
<1>11. queue # <<>>
  BY <1>2, EmptySeq
<1>. QED
  BY <1>1, <1>2, <1>3, <1>4, <1>7, <1>8, <1>10, <1>11 DEF Line, Capacity, Waiting

LEMMA FinishesLine ==
  ASSUME Line, NEW q \in Request, Finishes(q)
  PROVE  /\ Line' /\ q \in executing
         /\ \/ executing' = executing \ {q} /\ Waiting' = Waiting
            \/ \E h \in Waiting : /\ executing' = (executing \ {q}) \cup {h}
                                  /\ Waiting' = Waiting \ {h}
<1>1. /\ q \in executing /\ Dequeues(activeCount - 1)
      /\ executing' = (executing \ {q}) \cup (ToSet(queue) \ ToSet(queue'))
      /\ UNCHANGED maxConcurrent
  BY DEF Finishes
<1>2. /\ queue \in Seq(Request) /\ Len(queue) \in Nat /\ DOMAIN queue = 1 .. Len(queue)
      /\ maxConcurrent \in Int /\ activeCount \in Nat
  BY DEF Line
<1>3. IsFiniteSet(executing \ {q}) /\ Cardinality(executing \ {q}) = activeCount - 1
  BY <1>1, FS_RemoveElement DEF Line
<1>4. activeCount - 1 \in Nat /\ activeCount - 1 < maxConcurrent
  <2>1. activeCount - 1 \in Nat
    BY <1>3, FS_CardinalityType
  <2>. QED
    BY <1>2, <2>1 DEF Line, Capacity
<1>5. CASE queue = <<>>
  <2>1. activeCount' = activeCount - 1 /\ queue' = queue
    BY <1>1, <1>5 DEF Dequeues
  <2>2. executing' = executing \ {q}
    BY <1>1, <2>1
  <2>3. activeCount' <= Capacity' /\ activeCount' \in Nat
    BY <1>1, <1>2, <1>4, <2>1 DEF Line, Capacity
  <2>4. \A i \in 1 .. Len(queue) : queue[i] \notin executing'
    BY <2>2 DEF Line
  <2>5. IsFiniteSet(executing') /\ activeCount' = Cardinality(executing')
    BY <1>3, <2>1, <2>2
  <2>6. executing' \in SUBSET Request
    BY <2>2 DEF Line
  <2>. QED
    BY <1>1, <1>5, <2>1, <2>2, <2>3, <2>4, <2>5, <2>6 DEF Line, Waiting
<1>6. CASE queue # <<>>
  <2>1. activeCount' = activeCount /\ queue' = Tail(queue)
    BY <1>1, <1>2, <1>4, <1>6 DEF Dequeues
  <2>2. /\ queue' \in Seq(Request) /\ Len(queue') = Len(queue) - 1
        /\ \A j \in 1 .. Len(queue') : queue'[j] = queue[j + 1]
        /\ Len(queue) >= 1
    BY <1>2, <1>6, <2>1, HeadTailProperties, EmptySeq
  <2>. DEFINE h == queue[1]
  <2>3. \A j, k \in 1 .. Len(queue) : queue[j] = queue[k] => j = k
    BY DEF Line
  <2>4. h \in Waiting /\ h \notin executing /\ h \in Request
    BY <1>2, <2>2 DEF Line, Waiting
  <2>5. Waiting' = Waiting \ {h}
    <3>1. ASSUME NEW j \in 1 .. Len(queue') PROVE queue'[j] \in Waiting \ {h}
      <4>1. j + 1 \in 1 .. Len(queue) /\ j + 1 # 1 /\ 1 \in 1 .. Len(queue)
        BY <1>2, <2>2
      <4>. QED
        BY <2>2, <2>3, <4>1 DEF Waiting
    <3>2. ASSUME NEW k \in 1 .. Len(queue), queue[k] # h
          PROVE  \E j \in 1 .. Len(queue') : queue'[j] = queue[k]
      <4>1. k - 1 \in 1 .. Len(queue') /\ (k - 1) + 1 = k
        BY <1>2, <2>2, <3>2
      <4>. QED
        BY <2>2, <4>1
    <3>. QED
      BY <3>1, <3>2 DEF Waiting
  <2>6. ToSet(queue) = Waiting /\ ToSet(queue') = Waiting'
    BY <1>2, <2>2 DEF ToSet, Waiting
  <2>7. executing' = (executing \ {q}) \cup {h}
    BY <1>1, <2>4, <2>5, <2>6
  <2>8. IsFiniteSet(executing') /\ Cardinality(executing') = activeCount
    <3>1. /\ IsFiniteSet((executing \ {q}) \cup {h})
          /\ Cardinality((executing \ {q}) \cup {h})
               = IF h \in executing \ {q} THEN Cardinality(executing \ {q})
                 ELSE Cardinality(executing \ {q}) + 1
      BY <1>3, FS_AddElement
    <3>. QED
      BY <1>2, <1>3, <2>4, <2>7, <3>1
  <2>9. \A i, j \in 1 .. Len(queue') : queue'[i] = queue'[j] => i = j
    <3>. SUFFICES ASSUME NEW i \in 1 .. Len(queue'), NEW j \in 1 .. Len(queue'),
                         queue'[i] = queue'[j]
                  PROVE  i = j
      OBVIOUS
    <3>1. i + 1 \in 1 .. Len(queue) /\ j + 1 \in 1 .. Len(queue)
      BY <1>2, <2>2
    <3>2. i + 1 = j + 1
      BY <2>2, <2>3, <3>1
    <3>. QED
      BY <1>2, <2>2, <3>2
  <2>10. \A i \in 1 .. Len(queue') : queue'[i] \notin executing'
    <3>1. \A x \in Waiting' : x \notin executing'
      BY <2>5, <2>7 DEF Line, Waiting
    <3>. QED
      BY <3>1 DEF Waiting
  <2>. QED
    BY <1>1, <1>2, <1>6, <2>1, <2>2, <2>4, <2>5, <2>7, <2>8, <2>9, <2>10 DEF Line, Capacity
<1>. QED
  BY <1>5, <1>6

-----------------------------------------------------------------------------
(* The invariant *)

\* Where a request is, the line knows.
Places ==
  /\ pc \in [Request -> Inside \cup {"idle", "checking", "done"}]
  /\ \A q \in Request : /\ pc[q] = "executing" <=> q \in executing
                        /\ pc[q] = "queued" <=> q \in Waiting

\* The sessions in use are those of the requests inside, one each.
Guarded ==
  /\ key \in [Request -> Key \cup {Null}]
  /\ guard \in [Session -> GuardEntry \cup {None}]
  /\ EntriesCollected
  /\ \A s \in Session :
       guard[s] # None /\ guard[s].timer # None => guard[s].lastRun # None
  /\ \A q \in Request : pc[q] \in Inside \cup {"checking"} => key[q] \in Key
  /\ \A q \in Request : pc[q] \in Inside =>
       guard[SessionOf(q)] # None /\ guard[SessionOf(q)].active
  /\ \A q, r \in Request :
       pc[q] \in Inside /\ pc[r] \in Inside /\ SessionOf(q) = SessionOf(r) => q = r
  /\ \A s \in Session : guard[s] # None /\ guard[s].active =>
       \E q \in Request : pc[q] \in Inside /\ SessionOf(q) = s

\* Until its cooldown is over, the last run of a session is on record.
Cool ==
  /\ now \in Nat
  /\ lastStart \in [Session -> Nat \cup {None}]
  /\ \A s \in Session : lastStart[s] # None =>
       \/ now - lastStart[s] >= Cooldown
       \/ guard[s] # None /\ guard[s].lastRun = lastStart[s]

\* A request under way carries the time it was sent.
Stamped ==
  /\ stamp \in [Request -> Nat \cup {Null}]
  /\ \A q \in Request :
       pc[q] = "checking" => stamp[q] \in Nat /\ stamp[q] <= now /\ now <= stamp[q] + MaxLatency

\* Times in order, none of them later than n.
InOrder(times, n) ==
  /\ times \in Seq(Nat)
  /\ \A i \in 1 .. Len(times) : times[i] <= n
  /\ \A i, j \in 1 .. Len(times) : i <= j => times[i] <= times[j]

\* At time n, the grants I of g that may share a window with a grant to come are
\* within the limit, and a store has a time for each that is late by at most slack.
NotBefore(I, i) == {j \in I : j >= i}
AsLate(times, c) == {p \in 1 .. Len(times) : times[p] >= c}
Counted(I, g, times, slack, n) ==
  \A i \in I : g[i] > n - Covered =>
    /\ Cardinality(NotBefore(I, i)) <= Limit
    /\ Cardinality(NotBefore(I, i)) <= Cardinality(AsLate(times, g[i] - slack))

\* The grants g of a key were counted by the memory, in mem, or by the shared
\* store, in sh.
SplitAs(M, g, mem, sh, n) ==
  /\ store = "memory" => M = 1 .. Len(g)
  /\ store = "upstash" => M = {}
  /\ Counted(M, g, mem, 0, n)
  /\ Counted((1 .. Len(g)) \ M, g, sh, MaxLatency, n)

\* WindowHeld, of the grants of one key.
Held(g) ==
  \A i \in 1 .. Len(g) :
    Cardinality({j \in 1 .. Len(g) : j >= i /\ g[j] < g[i] + Covered})
      <= IF store = "redis" THEN 2 * Limit ELSE Limit

\* A store that counts no refusals is full at most, and when it is, its oldest
\* time will have left the window at the time promised.
KeepsPromise(times, p) ==
  /\ Len(times) <= Limit
  /\ p # Null /\ Len(times) = Limit => times[1] + Window <= p

\* What is known of one key.
Accounted(g, mem, sh, p, n) ==
  /\ InOrder(g, n) /\ InOrder(mem, n) /\ InOrder(sh, n) /\ p \in Nat \cup {Null}
  /\ \E M \in SUBSET (1 .. Len(g)) : SplitAs(M, g, mem, sh, n)
  /\ Held(g)
  /\ store = "memory" => KeepsPromise(mem, p)
  /\ store = "upstash" => KeepsPromise(sh, p)

Limiter ==
  /\ now \in Nat
  /\ store \in {"memory", "upstash", "redis"}
  /\ memory \in [Key -> Seq(Nat)] /\ shared \in [Key -> Seq(Nat)]
  /\ granted \in [Key -> Seq(Nat)] /\ promise \in [Key -> Nat \cup {Null}]
  /\ \A k \in Key : Accounted(granted[k], memory[k], shared[k], promise[k], now)

Inv == Line /\ Places /\ Guarded /\ Cool /\ Stamped /\ Limiter

-----------------------------------------------------------------------------
(* Times in order *)

\* A set of numbers has a smallest one.
LEMMA Least ==
  ASSUME NEW S \in SUBSET Nat, S # {}
  PROVE  \E m \in S : \A n \in S : m <= n
<1>1. PICK m \in S : \A n \in S : ~(<<n, m>> \in OpToRel(<, Nat))
  BY NatLessThanWellFounded, WFMin
<1>2. \A n \in S : ~(n < m)
  BY <1>1 DEF OpToRel
<1>. QED
  BY <1>2

\* How many they are when the times from c on are the last ones.
LEMMA CountFrom ==
  ASSUME NEW T \in Seq(Nat), NEW c \in Int, NEW a \in 1 .. Len(T) + 1,
         \A p \in 1 .. Len(T) : T[p] >= c <=> p >= a
  PROVE  IsFiniteSet(AsLate(T, c)) /\ Cardinality(AsLate(T, c)) = Len(T) + 1 - a
<1>1. Len(T) \in Nat
  OBVIOUS
<1>2. AsLate(T, c) = a .. Len(T)
  BY <1>1 DEF AsLate
<1>3. a \in Int /\ Len(T) \in Int /\ a <= Len(T) + 1
  BY <1>1
<1>4. /\ IsFiniteSet(a .. Len(T))
      /\ Cardinality(a .. Len(T)) = IF a > Len(T) THEN 0 ELSE Len(T) - a + 1
  BY <1>3, FS_Interval
<1>. QED
  BY <1>2, <1>3, <1>4

\* In a list in order they are the last ones.
LEMMA Threshold ==
  ASSUME NEW n, NEW T, InOrder(T, n), NEW c \in Int
  PROVE  \E a \in 1 .. Len(T) + 1 :
           /\ \A p \in 1 .. Len(T) : T[p] >= c <=> p >= a
           /\ Cardinality(AsLate(T, c)) = Len(T) + 1 - a
           /\ IsFiniteSet(AsLate(T, c))
<1>1. Len(T) \in Nat /\ \A p \in 1 .. Len(T) : T[p] \in Nat
  BY ElementOfSeq DEF InOrder
<1>. DEFINE S == AsLate(T, c) \cup {Len(T) + 1}
<1>2. S \in SUBSET Nat /\ S # {} /\ S \subseteq 1 .. Len(T) + 1
  BY <1>1 DEF AsLate
<1>3. PICK a \in S : \A m \in S : a <= m
  BY <1>2, Least
<1>4. \A p \in 1 .. Len(T) : T[p] >= c <=> p >= a
  <2>. TAKE p \in 1 .. Len(T)
  <2>1. ASSUME T[p] >= c PROVE p >= a
    BY <1>1, <1>2, <1>3, <2>1 DEF AsLate
  <2>2. ASSUME p >= a PROVE T[p] >= c
    <3>1. a \in 1 .. Len(T) /\ T[a] >= c
      BY <1>1, <1>2, <1>3, <2>2 DEF AsLate
    <3>2. T[a] <= T[p]
      BY <2>2, <3>1 DEF InOrder
    <3>. QED
      BY <1>1, <3>1, <3>2
  <2>. QED
    BY <2>1, <2>2
<1>5. a \in 1 .. Len(T) + 1
  BY <1>2
<1>. QED
  BY <1>4, <1>5, CountFrom DEF InOrder

\* The first UpTo(T, u) times are those up to u.
LEMMA UpToFacts ==
  ASSUME NEW n, NEW T, InOrder(T, n), NEW u \in Int
  PROVE  /\ UpTo(T, u) \in 0 .. Len(T)
         /\ \A p \in 1 .. Len(T) : T[p] <= u <=> p <= UpTo(T, u)
<1>1. Len(T) \in Nat /\ DOMAIN T = 1 .. Len(T) /\ \A p \in 1 .. Len(T) : T[p] \in Nat
  BY ElementOfSeq DEF InOrder
<1>2. PICK a \in 1 .. Len(T) + 1 : \A p \in 1 .. Len(T) : T[p] >= u + 1 <=> p >= a
  BY Threshold, u + 1 \in Int
<1>3. {p \in DOMAIN T : T[p] <= u} = 1 .. a - 1
  BY <1>1, <1>2
<1>4. Cardinality(1 .. a - 1) = a - 1
  <2>1. a - 1 \in Int /\ 1 \in Int /\ a - 1 >= 0
    BY <1>1
  <2>2. Cardinality(1 .. a - 1) = IF 1 > a - 1 THEN 0 ELSE a - 1 - 1 + 1
    BY <2>1, FS_Interval
  <2>. QED
    BY <2>1, <2>2
<1>5. UpTo(T, u) = a - 1
  BY <1>3, <1>4 DEF UpTo
<1>. QED
  BY <1>1, <1>2, <1>5

\* Whole seconds, rounded up.
LEMMA RetryFacts ==
  ASSUME NEW x \in Int
  PROVE  /\ RetrySeconds(x) \in Nat
         /\ RetrySeconds(x) * Second \in Nat
         /\ RetrySeconds(x) * Second >= x
<1>1. Second \in Nat /\ Second > 0
  BY LimiterAssumption
<1>2. CASE x <= 0
  BY <1>1, <1>2 DEF RetrySeconds
<1>3. CASE x > 0
  <2>. DEFINE y == x + Second - 1
              d == y \div Second
  <2>1. y \in Nat /\ RetrySeconds(x) = d
    BY <1>1, <1>3 DEF RetrySeconds
  <2>. HIDE DEF y
  <2>2. d \in Nat /\ y = Second * d + (y % Second) /\ y % Second \in 0 .. Second - 1
    BY <1>1, <2>1
  <2>3. d * Second \in Nat /\ d * Second = Second * d
    BY <1>1, <2>2
  <2>4. y = x + Second - 1
    BY DEF y
  <2>. QED
    BY <1>1, <1>3, <2>1, <2>2, <2>3, <2>4
<1>. QED
  BY <1>2, <1>3

\* What is left when the times up to u are dropped.
LEMMA AfterFacts ==
  ASSUME NEW n \in Nat, NEW T, InOrder(T, n), NEW u \in Int
  PROVE  /\ InOrder(After(T, u), n)
         /\ Len(After(T, u)) <= Len(T)
         /\ \A j \in 1 .. Len(After(T, u)) : After(T, u)[j] > u
         /\ Len(After(T, u)) = Len(T) => \A j \in 1 .. Len(T) : After(T, u)[j] = T[j]
         /\ \A c \in Int : c > u =>
              Cardinality(AsLate(After(T, u), c)) = Cardinality(AsLate(T, c))
<1>. DEFINE m == UpTo(T, u)
            A == After(T, u)
<1>1. /\ T \in Seq(Nat) /\ Len(T) \in Nat /\ \A p \in 1 .. Len(T) : T[p] \in Nat
      /\ \A p \in 1 .. Len(T) : T[p] <= n
  BY ElementOfSeq DEF InOrder
<1>2. m \in 0 .. Len(T) /\ \A p \in 1 .. Len(T) : T[p] <= u <=> p <= m
  BY UpToFacts
<1>. HIDE DEF m
<1>3. /\ A \in Seq(Nat) /\ Len(A) = Len(T) - m
      /\ \A j \in 1 .. Len(T) - m : A[j] = T[m + j]
  <2>1. A = SubSeq(T, m + 1, Len(T))
    BY DEF After, m
  <2>. HIDE DEF A
  <2>. QED
    BY <1>1, <1>2, <2>1, Parts
<1>. HIDE DEF A
<1>4. \A j \in 1 .. Len(A) : m + j \in 1 .. Len(T) /\ m + j > m
  BY <1>1, <1>2, <1>3
<1>5. InOrder(A, n)
  <2>1. \A j \in 1 .. Len(A) : A[j] <= n
    BY <1>1, <1>3, <1>4
  <2>2. ASSUME NEW i \in 1 .. Len(A), NEW j \in 1 .. Len(A), i <= j
        PROVE  A[i] <= A[j]
    <3>1. m + i <= m + j
      BY <1>1, <1>2, <2>2
    <3>2. T[m + i] <= T[m + j]
      BY <1>4, <3>1 DEF InOrder
    <3>. QED
      BY <1>3, <3>2
  <2>. QED
    BY <1>3, <2>1, <2>2 DEF InOrder
<1>6. \A j \in 1 .. Len(A) : A[j] > u
  <2>. TAKE j \in 1 .. Len(A)
  <2>1. m + j \in 1 .. Len(T) /\ ~(m + j <= m)
    BY <1>1, <1>2, <1>3
  <2>2. ~(T[m + j] <= u) /\ A[j] = T[m + j] /\ T[m + j] \in Nat
    BY <1>1, <1>2, <1>3, <2>1
  <2>. QED
    BY <2>2
<1>7. Len(A) <= Len(T)
  BY <1>1, <1>2, <1>3
<1>8. Len(A) = Len(T) => \A j \in 1 .. Len(T) : A[j] = T[j]
  <2>1. Len(A) = Len(T) => m = 0
    BY <1>1, <1>2, <1>3
  <2>. QED
    BY <1>1, <1>3, <2>1
<1>9. ASSUME NEW c \in Int, c > u
      PROVE  Cardinality(AsLate(A, c)) = Cardinality(AsLate(T, c))
  <2>1. PICK a \in 1 .. Len(T) + 1 :
          /\ \A p \in 1 .. Len(T) : T[p] >= c <=> p >= a
          /\ Cardinality(AsLate(T, c)) = Len(T) + 1 - a
    BY Threshold
  <2>2. PICK b \in 1 .. Len(A) + 1 :
          /\ \A p \in 1 .. Len(A) : A[p] >= c <=> p >= b
          /\ Cardinality(AsLate(A, c)) = Len(A) + 1 - b
    BY <1>5, Threshold
  <2>3. a > m
    <3>1. ASSUME a <= m PROVE FALSE
      <4>1. a \in 1 .. Len(T)
        BY <1>1, <1>2, <3>1
      <4>2. T[a] <= u /\ T[a] >= c /\ T[a] \in Nat
        BY <1>1, <1>2, <2>1, <3>1, <4>1
      <4>. QED
        BY <1>9, <4>2
    <3>. QED
      BY <1>1, <1>2, <3>1
  <2>4. \A p \in 1 .. Len(A) : p >= b <=> m + p >= a
    BY <1>3, <1>4, <2>1, <2>2
  <2>5. b = a - m
    <3>1. ASSUME b < a - m PROVE FALSE
      <4>1. b \in 1 .. Len(A)
        BY <1>1, <1>2, <1>3, <3>1
      <4>. QED
        BY <1>1, <1>2, <2>4, <3>1, <4>1
    <3>2. ASSUME b > a - m PROVE FALSE
      <4>1. a - m \in 1 .. Len(A)
        BY <1>1, <1>2, <1>3, <2>3, <3>2
      <4>2. m + (a - m) = a /\ ~(a - m >= b)
        BY <1>1, <1>2, <1>3, <3>2
      <4>3. a - m >= b <=> m + (a - m) >= a
        BY <2>4, <4>1
      <4>. QED
        BY <1>1, <4>2, <4>3
    <3>. QED
      BY <1>1, <1>2, <1>3, <3>1, <3>2
  <2>. QED
    BY <1>1, <1>2, <1>3, <2>1, <2>2, <2>5
<1>. QED
  BY <1>5, <1>6, <1>7, <1>8, <1>9 DEF A

\* A sequence with e at place i.
LEMMA InsertAtFacts ==
  ASSUME NEW S, NEW s \in Seq(S), NEW i \in 1 .. Len(s) + 1, NEW e \in S
  PROVE  /\ InsertAt(s, i, e) \in Seq(S) /\ Len(InsertAt(s, i, e)) = Len(s) + 1
         /\ \A j \in 1 .. i - 1 : InsertAt(s, i, e)[j] = s[j]
         /\ InsertAt(s, i, e)[i] = e
         /\ \A j \in i .. Len(s) : InsertAt(s, i, e)[j + 1] = s[j]
<1>. DEFINE a == SubSeq(s, 1, i - 1)
            b == SubSeq(s, i, Len(s))
            ae == a \o <<e>>
<1>1. Len(s) \in Nat /\ i \in Nat /\ i - 1 \in 0 .. Len(s) /\ (i - 1) + 1 = i
  OBVIOUS
<1>2. a \in Seq(S) /\ Len(a) = i - 1 /\ \A j \in 1 .. i - 1 : a[j] = s[j]
  BY <1>1, Parts
<1>3. /\ b \in Seq(S) /\ Len(b) = Len(s) - (i - 1)
      /\ \A j \in 1 .. Len(s) - (i - 1) : b[j] = s[(i - 1) + j]
  BY <1>1, Parts
<1>4. InsertAt(s, i, e) = ae \o b
  BY DEF InsertAt
<1>. HIDE DEF a, b
<1>5. /\ ae \in Seq(S) /\ Len(ae) = i
      /\ \A j \in 1 .. i - 1 : ae[j] = s[j]
      /\ ae[i] = e
  <2>1. ae = Append(a, e)
    BY <1>2, AppendIsConcat
  <2>2. /\ Append(a, e) \in Seq(S) /\ Len(Append(a, e)) = Len(a) + 1
        /\ \A j \in 1 .. Len(a) : Append(a, e)[j] = a[j]
        /\ Append(a, e)[Len(a) + 1] = e
    BY <1>2, AppendProperties
  <2>. QED
    BY <1>1, <1>2, <2>1, <2>2
<1>. HIDE DEF ae
<1>6. /\ ae \o b \in Seq(S) /\ Len(ae \o b) = Len(ae) + Len(b)
      /\ \A j \in 1 .. Len(ae) + Len(b) :
           (ae \o b)[j] = IF j <= Len(ae) THEN ae[j] ELSE b[j - Len(ae)]
  BY <1>3, <1>5, ConcatProperties
<1>7. Len(ae) + Len(b) = Len(s) + 1
  BY <1>1, <1>3, <1>5
<1>8. \A j \in 1 .. i : (ae \o b)[j] = ae[j]
  BY <1>1, <1>5, <1>6, <1>7
<1>9. ASSUME NEW j \in i .. Len(s)
      PROVE  (ae \o b)[j + 1] = s[j]
  <2>1. (ae \o b)[j + 1] = b[(j + 1) - i]
    BY <1>1, <1>5, <1>6, <1>7
  <2>2. (j + 1) - i \in 1 .. Len(s) - (i - 1) /\ (i - 1) + ((j + 1) - i) = j
    BY <1>1
  <2>3. b[(j + 1) - i] = s[(i - 1) + ((j + 1) - i)]
    BY <1>3, <2>2
  <2>. QED
    BY <2>1, <2>2, <2>3
<1>. QED
  BY <1>1, <1>4, <1>5, <1>6, <1>7, <1>8, <1>9

\* A time more, in its place.
LEMMA InsertedFacts ==
  ASSUME NEW n \in Nat, NEW T, InOrder(T, n), NEW t \in Nat, t <= n
  PROVE  /\ InOrder(Inserted(T, t), n)
         /\ Len(Inserted(T, t)) = Len(T) + 1
         /\ \A c \in Int : Cardinality(AsLate(Inserted(T, t), c))
                             = Cardinality(AsLate(T, c)) + IF t >= c THEN 1 ELSE 0
<1>. DEFINE x == UpTo(T, t) + 1
            I == Inserted(T, t)
<1>1. /\ T \in Seq(Nat) /\ Len(T) \in Nat /\ \A p \in 1 .. Len(T) : T[p] \in Nat
      /\ \A p \in 1 .. Len(T) : T[p] <= n
      /\ \A i, j \in 1 .. Len(T) : i <= j => T[i] <= T[j]
  BY ElementOfSeq DEF InOrder
<1>2. x \in 1 .. Len(T) + 1 /\ \A p \in 1 .. Len(T) : T[p] <= t <=> p < x
  <2>1. /\ UpTo(T, t) \in 0 .. Len(T)
        /\ \A p \in 1 .. Len(T) : T[p] <= t <=> p <= UpTo(T, t)
    BY UpToFacts, t \in Int
  <2>. QED
    BY <1>1, <2>1
<1>3. I = InsertAt(T, x, t)
  BY DEF Inserted
<1>. HIDE DEF x, I
<1>4. /\ InsertAt(T, x, t) \in Seq(Nat) /\ Len(InsertAt(T, x, t)) = Len(T) + 1
      /\ \A j \in 1 .. x - 1 : InsertAt(T, x, t)[j] = T[j]
      /\ InsertAt(T, x, t)[x] = t
      /\ \A j \in x .. Len(T) : InsertAt(T, x, t)[j + 1] = T[j]
  <2>. DEFINE N == Nat
  <2>1. T \in Seq(N) /\ x \in 1 .. Len(T) + 1 /\ t \in N
    BY <1>1, <1>2
  <2>. SUFFICES /\ InsertAt(T, x, t) \in Seq(N) /\ Len(InsertAt(T, x, t)) = Len(T) + 1
                /\ \A j \in 1 .. x - 1 : InsertAt(T, x, t)[j] = T[j]
                /\ InsertAt(T, x, t)[x] = t
                /\ \A j \in x .. Len(T) : InsertAt(T, x, t)[j + 1] = T[j]
    OBVIOUS
  <2>. HIDE DEF N
  <2>. QED
    BY <2>1, InsertAtFacts
<1>5. /\ I \in Seq(Nat) /\ Len(I) = Len(T) + 1
      /\ \A j \in 1 .. x - 1 : I[j] = T[j]
      /\ I[x] = t
      /\ \A j \in x .. Len(T) : I[j + 1] = T[j]
  BY <1>3, <1>4
<1>6. ASSUME NEW p \in 1 .. Len(I)
      PROVE  \/ p < x /\ p \in 1 .. Len(T) /\ I[p] = T[p]
             \/ p = x /\ I[p] = t
             \/ p > x /\ p - 1 \in 1 .. Len(T) /\ p - 1 >= x /\ I[p] = T[p - 1]
  <2>1. CASE p < x
    BY <1>1, <1>2, <1>5, <2>1
  <2>2. CASE p = x
    BY <1>5, <2>2
  <2>3. CASE p > x
    <3>1. p - 1 \in x .. Len(T) /\ p - 1 \in 1 .. Len(T) /\ (p - 1) + 1 = p /\ p - 1 >= x
      BY <1>1, <1>2, <1>5, <2>3
    <3>2. I[(p - 1) + 1] = T[p - 1]
      BY <1>5, <3>1
    <3>. QED
      BY <2>3, <3>1, <3>2
  <2>. QED
    BY <1>1, <1>2, <1>5, <2>1, <2>2, <2>3
<1>7. InOrder(I, n)
  <2>1. \A p \in 1 .. Len(I) : I[p] <= n
    BY <1>1, <1>6
  <2>2. ASSUME NEW i \in 1 .. Len(I), NEW j \in 1 .. Len(I), i <= j
        PROVE  I[i] <= I[j]
    <3>1. CASE i < x
      <4>1. i \in 1 .. Len(T) /\ I[i] = T[i] /\ T[i] <= t
        BY <1>2, <1>6, <3>1
      <4>2. CASE j < x
        <5>1. j \in 1 .. Len(T) /\ I[j] = T[j]
          BY <1>2, <1>6, <4>2
        <5>. QED
          BY <1>1, <2>2, <4>1, <5>1
      <4>3. CASE j = x
        BY <1>5, <4>1, <4>3
      <4>4. CASE j > x
        <5>1. j - 1 \in 1 .. Len(T) /\ I[j] = T[j - 1] /\ i <= j - 1
          BY <1>2, <1>6, <3>1, <4>4
        <5>. QED
          BY <1>1, <4>1, <5>1
      <4>. QED
        BY <1>2, <4>2, <4>3, <4>4
    <3>2. CASE i = x
      <4>1. CASE j = x
        BY <1>5, <3>2, <4>1
      <4>2. CASE j > x
        <5>1. j - 1 \in 1 .. Len(T) /\ I[j] = T[j - 1] /\ ~(j - 1 < x)
          BY <1>2, <1>6, <4>2
        <5>2. ~(T[j - 1] <= t)
          BY <1>2, <5>1
        <5>. QED
          BY <1>1, <1>5, <3>2, <5>1, <5>2
      <4>. QED
        BY <1>2, <2>2, <3>2, <4>1, <4>2
    <3>3. CASE i > x
      <4>1. j > x
        BY <1>2, <2>2, <3>3
      <4>2. /\ i - 1 \in 1 .. Len(T) /\ I[i] = T[i - 1]
            /\ j - 1 \in 1 .. Len(T) /\ I[j] = T[j - 1] /\ i - 1 <= j - 1
        BY <1>2, <1>6, <2>2, <3>3, <4>1
      <4>. QED
        BY <1>1, <4>2
    <3>. QED
      BY <1>2, <3>1, <3>2, <3>3
  <2>. QED
    BY <1>5, <2>1, <2>2 DEF InOrder
<1>8. ASSUME NEW c \in Int
      PROVE  Cardinality(AsLate(I, c)) = Cardinality(AsLate(T, c)) + IF t >= c THEN 1 ELSE 0
  <2>1. PICK a \in 1 .. Len(T) + 1 :
          /\ \A p \in 1 .. Len(T) : T[p] >= c <=> p >= a
          /\ Cardinality(AsLate(T, c)) = Len(T) + 1 - a
    BY Threshold
  <2>2. CASE t >= c
    <3>1. a <= x
      <4>1. ASSUME a > x PROVE FALSE
        <5>1. x \in 1 .. Len(T) /\ ~(x < x) /\ ~(x >= a)
          BY <1>1, <1>2, <4>1
        <5>2. ~(T[x] <= t) /\ ~(T[x] >= c) /\ T[x] \in Nat
          BY <1>1, <1>2, <2>1, <5>1
        <5>. QED
          BY <2>2, <5>2
      <4>. QED
        BY <1>1, <1>2, <4>1
    <3>2. \A p \in 1 .. Len(I) : I[p] >= c <=> p >= a
      <4>. TAKE p \in 1 .. Len(I)
      <4>1. CASE p < x
        <5>1. p \in 1 .. Len(T) /\ I[p] = T[p]
          BY <1>2, <1>6, <4>1
        <5>. QED
          BY <2>1, <5>1
      <4>2. CASE p = x
        BY <1>5, <2>2, <3>1, <4>2
      <4>3. CASE p > x
        <5>1. p - 1 \in 1 .. Len(T) /\ p - 1 >= x /\ I[p] = T[p - 1]
          BY <1>2, <1>6, <4>3
        <5>2. p - 1 >= a /\ p >= a
          BY <1>2, <2>1, <3>1, <5>1
        <5>. QED
          BY <2>1, <5>1, <5>2
      <4>. QED
        BY <1>2, <4>1, <4>2, <4>3
    <3>3. a \in 1 .. Len(I) + 1
      BY <1>1, <1>5
    <3>4. Cardinality(AsLate(I, c)) = Len(I) + 1 - a
      BY <1>5, <3>2, <3>3, CountFrom
    <3>. QED
      BY <1>1, <1>5, <2>1, <2>2, <3>4
  <2>3. CASE t < c
    <3>1. x <= a
      <4>1. ASSUME a < x PROVE FALSE
        <5>1. a \in 1 .. Len(T)
          BY <1>1, <1>2, <4>1
        <5>2. T[a] <= t /\ T[a] >= c /\ T[a] \in Nat
          BY <1>1, <1>2, <2>1, <4>1, <5>1
        <5>. QED
          BY <2>3, <5>2
      <4>. QED
        BY <1>1, <1>2, <4>1
    <3>2. \A p \in 1 .. Len(I) : I[p] >= c <=> p >= a + 1
      <4>. TAKE p \in 1 .. Len(I)
      <4>1. CASE p < x
        BY <1>2, <1>6, <2>1, <3>1, <4>1
      <4>2. CASE p = x
        BY <1>2, <1>5, <2>3, <3>1, <4>2
      <4>3. CASE p > x
        <5>1. p - 1 \in 1 .. Len(T) /\ I[p] = T[p - 1]
          BY <1>2, <1>6, <4>3
        <5>2. p - 1 >= a <=> p >= a + 1
          BY <1>2, <2>1
        <5>. QED
          BY <2>1, <5>1, <5>2
      <4>. QED
        BY <1>2, <4>1, <4>2, <4>3
    <3>3. a + 1 \in 1 .. Len(I) + 1
      BY <1>1, <1>5
    <3>4. Cardinality(AsLate(I, c)) = Len(I) + 1 - (a + 1)
      BY <1>5, <3>2, <3>3, CountFrom
    <3>. QED
      BY <1>1, <1>5, <2>1, <2>3, <3>4
  <2>. QED
    BY <2>2, <2>3
<1>. QED
  BY <1>5, <1>7, <1>8 DEF I

\* The clock appended.
LEMMA AppendedFacts ==
  ASSUME NEW n \in Nat, NEW T, InOrder(T, n)
  PROVE  /\ InOrder(Append(T, n), n)
         /\ Len(Append(T, n)) = Len(T) + 1
         /\ \A c \in Int : c <= n =>
              Cardinality(AsLate(Append(T, n), c)) = Cardinality(AsLate(T, c)) + 1
<1>. DEFINE A == Append(T, n)
<1>1. T \in Seq(Nat) /\ Len(T) \in Nat /\ \A p \in 1 .. Len(T) : T[p] <= n /\ T[p] \in Nat
  BY ElementOfSeq DEF InOrder
<1>2. /\ A \in Seq(Nat) /\ Len(A) = Len(T) + 1
      /\ \A p \in 1 .. Len(T) : A[p] = T[p]
      /\ A[Len(T) + 1] = n
  BY <1>1, AppendProperties
<1>. HIDE DEF A
<1>3. \A p \in 1 .. Len(A) : p \in 1 .. Len(T) \/ p = Len(T) + 1
  BY <1>1, <1>2
<1>4. InOrder(A, n)
  <2>1. \A p \in 1 .. Len(A) : A[p] <= n
    BY <1>1, <1>2, <1>3
  <2>2. ASSUME NEW i \in 1 .. Len(A), NEW j \in 1 .. Len(A), i <= j
        PROVE  A[i] <= A[j]
    <3>1. CASE j \in 1 .. Len(T)
      <4>1. i \in 1 .. Len(T)
        BY <1>1, <2>2, <3>1
      <4>. QED
        BY <1>2, <2>2, <3>1, <4>1 DEF InOrder
    <3>2. CASE j = Len(T) + 1
      BY <1>2, <2>1, <3>2
    <3>. QED
      BY <1>3, <3>1, <3>2
  <2>. QED
    BY <1>2, <2>1, <2>2 DEF InOrder
<1>5. ASSUME NEW c \in Int, c <= n
      PROVE  Cardinality(AsLate(A, c)) = Cardinality(AsLate(T, c)) + 1
  <2>1. PICK a \in 1 .. Len(T) + 1 :
          /\ \A p \in 1 .. Len(T) : T[p] >= c <=> p >= a
          /\ Cardinality(AsLate(T, c)) = Len(T) + 1 - a
    BY Threshold
  <2>2. \A p \in 1 .. Len(A) : A[p] >= c <=> p >= a
    BY <1>1, <1>2, <1>3, <1>5, <2>1
  <2>3. a \in 1 .. Len(A) + 1
    BY <1>1, <1>2
  <2>4. Cardinality(AsLate(A, c)) = Len(A) + 1 - a
    BY <1>2, <2>2, <2>3, CountFrom
  <2>. QED
    BY <1>1, <1>2, <2>1, <2>4
<1>. QED
  BY <1>2, <1>4, <1>5 DEF A

-----------------------------------------------------------------------------
(* Grants and the times that count them *)

LEMMA Constants ==
  /\ Covered \in Int /\ Window \in Nat /\ Limit \in Nat /\ Limit >= 1
  /\ MaxLatency \in Nat /\ Retention \in Nat /\ Retention >= Window
  /\ Covered <= Window
  /\ store # "memory" => Covered = Window - MaxLatency
  /\ store = "memory" => Covered = Window
BY LimiterAssumption DEF Covered

LEMMA NotBeforeFacts ==
  ASSUME NEW L \in Nat, NEW I \in SUBSET (1 .. L), NEW i \in 1 .. L
  PROVE  /\ IsFiniteSet(NotBefore(I, i)) /\ Cardinality(NotBefore(I, i)) \in Nat
         /\ Cardinality(NotBefore(I \cup {L + 1}, i)) = Cardinality(NotBefore(I, i)) + 1
         /\ Cardinality(NotBefore(I \cup {L + 1}, L + 1)) = 1
<1>1. IsFiniteSet(1 .. L)
  BY FS_Interval
<1>2. IsFiniteSet(NotBefore(I, i))
  BY <1>1, FS_Subset DEF NotBefore
<1>3. NotBefore(I \cup {L + 1}, i) = NotBefore(I, i) \cup {L + 1} /\ L + 1 \notin NotBefore(I, i)
  BY DEF NotBefore
<1>4. Cardinality(NotBefore(I, i) \cup {L + 1}) = Cardinality(NotBefore(I, i)) + 1
  BY <1>2, <1>3, FS_AddElement
<1>5. NotBefore(I \cup {L + 1}, L + 1) = {L + 1}
  <2>1. (\A j \in I : ~(j >= L + 1)) /\ L + 1 >= L + 1
    OBVIOUS
  <2>. QED
    BY <2>1, Zenon DEF NotBefore
<1>. QED
  BY <1>2, <1>3, <1>4, <1>5, FS_CardinalityType, FS_Singleton

LEMMA AsLateFinite ==
  ASSUME NEW T \in Seq(Nat), NEW c
  PROVE  /\ IsFiniteSet(AsLate(T, c)) /\ Cardinality(AsLate(T, c)) \in Nat
         /\ Cardinality(AsLate(T, c)) <= Len(T)
<1>1. Len(T) \in Nat /\ IsFiniteSet(1 .. Len(T)) /\ Cardinality(1 .. Len(T)) = Len(T)
  <2>1. Len(T) \in Nat /\ 1 \in Int /\ Len(T) \in Int
    OBVIOUS
  <2>2. /\ IsFiniteSet(1 .. Len(T))
        /\ Cardinality(1 .. Len(T)) = IF 1 > Len(T) THEN 0 ELSE Len(T) - 1 + 1
    BY <2>1, FS_Interval
  <2>. QED
    BY <2>1, <2>2
<1>2. AsLate(T, c) \in SUBSET (1 .. Len(T))
  BY DEF AsLate
<1>. QED
  BY <1>1, <1>2, FS_Subset, FS_CardinalityType

\* Times dropped no longer count.
LEMMA CountedAfter ==
  ASSUME NEW n \in Nat, NEW g \in Seq(Nat), NEW I \in SUBSET (1 .. Len(g)),
         NEW T, InOrder(T, n), NEW slack \in Nat, NEW u \in Int, u <= n - Covered - slack,
         Counted(I, g, T, slack, n)
  PROVE  Counted(I, g, After(T, u), slack, n)
<1>. SUFFICES ASSUME NEW i \in I, g[i] > n - Covered
              PROVE  Cardinality(AsLate(After(T, u), g[i] - slack))
                       = Cardinality(AsLate(T, g[i] - slack))
  BY DEF Counted
<1>1. g[i] \in Nat /\ Covered \in Int
  BY Constants, ElementOfSeq
<1>2. g[i] - slack \in Int /\ g[i] - slack > u
  BY <1>1
<1>. QED
  BY <1>2, AfterFacts

\* A store may have counted what was not granted.
LEMMA CountedMore ==
  ASSUME NEW n, NEW g \in Seq(Nat), NEW I \in SUBSET (1 .. Len(g)),
         NEW T \in Seq(Nat), NEW T2 \in Seq(Nat), NEW slack \in Nat,
         \A c \in Int : Cardinality(AsLate(T, c)) <= Cardinality(AsLate(T2, c)),
         Counted(I, g, T, slack, n)
  PROVE  Counted(I, g, T2, slack, n)
<1>. SUFFICES ASSUME NEW i \in I, g[i] > n - Covered
              PROVE  Cardinality(NotBefore(I, i)) <= Cardinality(AsLate(T2, g[i] - slack))
  BY DEF Counted
<1>1. g[i] - slack \in Int /\ i \in 1 .. Len(g) /\ Len(g) \in Nat
  BY ElementOfSeq
<1>2. /\ Cardinality(NotBefore(I, i)) \in Nat
      /\ Cardinality(AsLate(T, g[i] - slack)) \in Nat
      /\ Cardinality(AsLate(T2, g[i] - slack)) \in Nat
  BY <1>1, NotBeforeFacts, AsLateFinite
<1>3. Cardinality(NotBefore(I, i)) <= Cardinality(AsLate(T, g[i] - slack))
  BY DEF Counted
<1>4. Cardinality(AsLate(T, g[i] - slack)) <= Cardinality(AsLate(T2, g[i] - slack))
  BY <1>1
<1>. QED
  BY <1>2, <1>3, <1>4

\* Who is granted is counted, by a store with fewer times than the limit.
LEMMA CountedGrant ==
  ASSUME NEW n \in Nat, NEW g \in Seq(Nat), NEW I \in SUBSET (1 .. Len(g)),
         \A j \in 1 .. Len(g) : g[j] <= n,
         NEW T \in Seq(Nat), NEW T2 \in Seq(Nat), NEW slack \in Nat, NEW t \in Nat,
         n <= t + slack, Len(T) < Limit,
         \A c \in Int : c <= t =>
           Cardinality(AsLate(T2, c)) = Cardinality(AsLate(T, c)) + 1,
         Counted(I, g, T, slack, n)
  PROVE  Counted(I \cup {Len(g) + 1}, Append(g, n), T2, slack, n)
<1>. DEFINE L == Len(g)
            g2 == Append(g, n)
<1>1. L \in Nat /\ (\A j \in 1 .. L : g2[j] = g[j]) /\ g2[L + 1] = n
  BY AppendProperties
<1>2. Limit \in Nat /\ Limit >= 1
  BY Constants
<1>. SUFFICES ASSUME NEW i \in I \cup {L + 1}, g2[i] > n - Covered
              PROVE  /\ Cardinality(NotBefore(I \cup {L + 1}, i)) <= Limit
                     /\ Cardinality(NotBefore(I \cup {L + 1}, i))
                          <= Cardinality(AsLate(T2, g2[i] - slack))
  BY DEF Counted
<1>. HIDE DEF g2
<1>3. CASE i = L + 1
  <2>1. Cardinality(NotBefore(I \cup {L + 1}, i)) = 1
    <3>1. CASE L = 0
      <4>1. I \cup {L + 1} = {L + 1}
        <5>1. 1 .. L = {}
          BY <3>1
        <5>. QED
          BY <5>1
      <4>2. NotBefore({L + 1}, L + 1) = {L + 1}
        BY <1>1 DEF NotBefore
      <4>. QED
        BY <1>3, <4>1, <4>2, FS_Singleton
    <3>2. CASE L > 0
      <4>1. L \in 1 .. L
        BY <1>1, <3>2
      <4>. QED
        BY <1>1, <1>3, <4>1, NotBeforeFacts
    <3>. QED
      BY <1>1, <3>1, <3>2
  <2>2. n - slack \in Int /\ n - slack <= t
    OBVIOUS
  <2>3. /\ Cardinality(AsLate(T2, n - slack)) = Cardinality(AsLate(T, n - slack)) + 1
        /\ Cardinality(AsLate(T, n - slack)) \in Nat
    BY <2>2, AsLateFinite
  <2>. QED
    BY <1>1, <1>2, <1>3, <2>1, <2>3
<1>4. CASE i \in I
  <2>1. i \in 1 .. L /\ g2[i] = g[i] /\ g[i] \in Nat /\ g[i] <= n
    BY <1>1, <1>4, ElementOfSeq
  <2>2. /\ Cardinality(NotBefore(I, i)) \in Nat
        /\ Cardinality(NotBefore(I \cup {L + 1}, i)) = Cardinality(NotBefore(I, i)) + 1
    BY <1>1, <2>1, NotBeforeFacts
  <2>3. Cardinality(NotBefore(I, i)) <= Cardinality(AsLate(T, g[i] - slack))
    BY <1>4, <2>1 DEF Counted
  <2>4. g[i] - slack \in Int /\ g[i] - slack <= t
    BY <2>1
  <2>5. /\ Cardinality(AsLate(T2, g[i] - slack)) = Cardinality(AsLate(T, g[i] - slack)) + 1
        /\ Cardinality(AsLate(T, g[i] - slack)) \in Nat
        /\ Cardinality(AsLate(T, g[i] - slack)) <= Len(T)
    BY <2>4, AsLateFinite
  <2>. QED
    BY <1>2, <2>1, <2>2, <2>3, <2>5, Len(T) \in Nat
<1>. QED
  BY <1>3, <1>4

\* A grant that another store counted, and a tick, change nothing.
LEMMA CountedElsewhere ==
  ASSUME NEW n, NEW g \in Seq(Nat), NEW I \in SUBSET (1 .. Len(g)), NEW T, NEW slack,
         NEW m \in Nat, Counted(I, g, T, slack, n)
  PROVE  Counted(I, Append(g, m), T, slack, n)
<1>1. \A i \in I : Append(g, m)[i] = g[i]
  BY AppendProperties
<1>. QED
  BY <1>1, Zenon DEF Counted

LEMMA CountedTick ==
  ASSUME NEW n \in Nat, NEW m \in Nat, m = n + 1,
         NEW g \in Seq(Nat), NEW I \in SUBSET (1 .. Len(g)), NEW T, NEW slack \in Nat,
         Counted(I, g, T, slack, n)
  PROVE  Counted(I, g, T, slack, m)
<1>1. \A i \in I : g[i] \in Nat
  BY ElementOfSeq
<1>2. Covered \in Int
  BY Constants
<1>3. \A i \in I : g[i] > m - Covered => g[i] > n - Covered
  BY <1>1, <1>2
<1>. QED
  BY <1>3, Zenon DEF Counted

\* The grants not before one that may share a window with a grant to come: within
\* the limit when one store counted them, within twice the limit when two did.
LEMMA Within ==
  ASSUME NEW n \in Nat, NEW g, InOrder(g, n), NEW M \in SUBSET (1 .. Len(g)), NEW T1, NEW T2,
         Counted(M, g, T1, 0, n), Counted((1 .. Len(g)) \ M, g, T2, MaxLatency, n),
         NEW i \in 1 .. Len(g), g[i] > n - Covered, NEW W \in SUBSET {j \in 1 .. Len(g) : j >= i}
  PROVE  /\ IsFiniteSet(W) /\ Cardinality(W) \in Nat
         /\ Cardinality(W) <= 2 * Limit
         /\ M = {} \/ M = 1 .. Len(g) => Cardinality(W) <= Limit
<1>. DEFINE N == (1 .. Len(g)) \ M
            all == {j \in 1 .. Len(g) : j >= i}
<1>1. Limit \in Nat /\ Covered \in Int /\ Len(g) \in Nat /\ \A j \in 1 .. Len(g) : g[j] \in Nat
  BY Constants, ElementOfSeq DEF InOrder
<1>2. ASSUME NEW I \in SUBSET (1 .. Len(g)), NEW T, NEW slack, Counted(I, g, T, slack, n)
      PROVE  IsFiniteSet(NotBefore(I, i)) /\ Cardinality(NotBefore(I, i)) <= Limit
  <2>1. IsFiniteSet(NotBefore(I, i))
    BY <1>1, NotBeforeFacts
  <2>2. CASE NotBefore(I, i) = {}
    BY <1>1, <2>1, <2>2, FS_EmptySet
  <2>3. CASE NotBefore(I, i) # {}
    <3>1. PICK m \in NotBefore(I, i) : \A j \in NotBefore(I, i) : m <= j
      <4>1. NotBefore(I, i) \in SUBSET Nat
        <5>1. I \subseteq Nat /\ NotBefore(I, i) \subseteq I
          BY <1>1 DEF NotBefore
        <5>. QED
          BY <5>1
      <4>. QED
        BY <2>3, <4>1, Least
    <3>2. m \in I /\ m \in 1 .. Len(g) /\ m >= i
      BY <3>1 DEF NotBefore
    <3>3. g[m] > n - Covered
      <4>1. g[i] <= g[m]
        BY <3>2 DEF InOrder
      <4>. QED
        BY <1>1, <3>2, <4>1
    <3>4. NotBefore(I, i) = NotBefore(I, m)
      <4>1. \A j \in I : j >= i <=> j >= m
        <5>1. ASSUME NEW j \in I, j >= i PROVE j >= m
          BY <1>1, <3>1, <3>2, <5>1 DEF NotBefore
        <5>2. ASSUME NEW j \in I, j >= m PROVE j >= i
          BY <1>1, <3>2, <5>2
        <5>. QED
          BY <5>1, <5>2
      <4>. QED
        BY <4>1, Zenon DEF NotBefore
    <3>. QED
      BY <1>2, <2>1, <3>2, <3>3, <3>4 DEF Counted
  <2>. QED
    BY <2>2, <2>3
<1>3. IsFiniteSet(NotBefore(M, i)) /\ Cardinality(NotBefore(M, i)) <= Limit
  BY <1>2
<1>4. IsFiniteSet(NotBefore(N, i)) /\ Cardinality(NotBefore(N, i)) <= Limit
  BY <1>2
<1>5. all = NotBefore(M, i) \cup NotBefore(N, i)
  BY DEF NotBefore
<1>6. /\ Cardinality(NotBefore(M, i)) \in Nat /\ Cardinality(NotBefore(N, i)) \in Nat
      /\ IsFiniteSet(all) /\ Cardinality(all) \in Nat
      /\ Cardinality(all) <= Cardinality(NotBefore(M, i)) + Cardinality(NotBefore(N, i))
  <2>1. NotBefore(M, i) \cap NotBefore(N, i) = {}
    BY DEF NotBefore
  <2>2. /\ IsFiniteSet(NotBefore(M, i) \cup NotBefore(N, i))
        /\ Cardinality(NotBefore(M, i) \cup NotBefore(N, i))
             = Cardinality(NotBefore(M, i)) + Cardinality(NotBefore(N, i))
               - Cardinality(NotBefore(M, i) \cap NotBefore(N, i))
    BY <1>3, <1>4, FS_Union
  <2>3. Cardinality(NotBefore(M, i)) \in Nat /\ Cardinality(NotBefore(N, i)) \in Nat
    BY <1>3, <1>4, FS_CardinalityType
  <2>4. Cardinality(NotBefore(M, i) \cap NotBefore(N, i)) = 0
    BY <2>1, FS_EmptySet
  <2>5. IsFiniteSet(all) /\ Cardinality(all) = Cardinality(NotBefore(M, i))
                             + Cardinality(NotBefore(N, i))
                             - Cardinality(NotBefore(M, i) \cap NotBefore(N, i))
    BY <1>5, <2>2
  <2>. HIDE DEF all
  <2>. QED
    BY <2>3, <2>4, <2>5
<1>7. IsFiniteSet(W) /\ Cardinality(W) <= Cardinality(all) /\ Cardinality(W) \in Nat
  BY <1>6, FS_Subset, FS_CardinalityType
<1>8. ASSUME M = {} \/ M = 1 .. Len(g) PROVE Cardinality(W) <= Limit
  <2>1. all = NotBefore(M, i) \/ all = NotBefore(N, i)
    BY <1>8 DEF NotBefore
  <2>2. Cardinality(all) <= Limit
    BY <1>3, <1>4, <2>1, Zenon
  <2>. HIDE DEF all
  <2>. QED
    BY <1>1, <1>6, <1>7, <2>2
<1>. QED
  BY <1>1, <1>3, <1>4, <1>6, <1>7, <1>8

-----------------------------------------------------------------------------
(* One key *)

\* One grant more does not exceed what a window may hold.
LEMMA HeldGrant ==
  ASSUME NEW n \in Nat, NEW g, InOrder(g, n), Held(g),
         NEW M, NEW T1, NEW T2, NEW g2, g2 = Append(g, n), InOrder(g2, n),
         M \in SUBSET (1 .. Len(g2)), SplitAs(M, g2, T1, T2, n),
         store \in {"memory", "upstash", "redis"}
  PROVE  Held(g2)
<1>1. /\ Len(g) \in Nat /\ Len(g2) = Len(g) + 1 /\ g2[Len(g) + 1] = n
      /\ \A j \in 1 .. Len(g) : g2[j] = g[j]
      /\ \A j \in 1 .. Len(g) : g[j] \in Nat /\ g[j] <= n
  BY AppendProperties, ElementOfSeq DEF InOrder
<1>2. Covered \in Int /\ Limit \in Nat
  BY Constants
<1>. SUFFICES ASSUME NEW i \in 1 .. Len(g2)
              PROVE  Cardinality({j \in 1 .. Len(g2) : j >= i /\ g2[j] < g2[i] + Covered})
                       <= IF store = "redis" THEN 2 * Limit ELSE Limit
  BY DEF Held
<1>. DEFINE W == {j \in 1 .. Len(g2) : j >= i /\ g2[j] < g2[i] + Covered}
<1>3. CASE g2[i] > n - Covered
  <2>1. W \in SUBSET {j \in 1 .. Len(g2) : j >= i}
    OBVIOUS
  <2>2. Counted(M, g2, T1, 0, n) /\ Counted((1 .. Len(g2)) \ M, g2, T2, MaxLatency, n)
    BY DEF SplitAs
  <2>. HIDE DEF W
  <2>3. /\ Cardinality(W) \in Nat /\ Cardinality(W) <= 2 * Limit
        /\ M = {} \/ M = 1 .. Len(g2) => Cardinality(W) <= Limit
    BY <1>3, <2>1, <2>2, Within
  <2>4. store # "redis" => Cardinality(W) <= Limit
    BY <2>3 DEF SplitAs
  <2>5. Cardinality(W) <= IF store = "redis" THEN 2 * Limit ELSE Limit
    BY <2>3, <2>4
  <2>. QED
    BY <2>5 DEF W
<1>4. CASE ~(g2[i] > n - Covered)
  <2>1. CASE i = Len(g) + 1
    <3>1. W = {}
      BY <1>1, <1>2, <1>4, <2>1
    <3>2. Cardinality(W) = 0
      BY <3>1, FS_EmptySet
    <3>. HIDE DEF W
    <3>3. Cardinality(W) <= IF store = "redis" THEN 2 * Limit ELSE Limit
      BY <1>2, <3>2
    <3>. QED
      BY <3>3 DEF W
  <2>2. CASE i \in 1 .. Len(g)
    <3>1. W = {j \in 1 .. Len(g) : j >= i /\ g[j] < g[i] + Covered}
      <4>1. ~(g2[Len(g) + 1] < g2[i] + Covered)
        BY <1>1, <1>2, <1>4, <2>2
      <4>2. \A j \in 1 .. Len(g2) : j \in 1 .. Len(g) \/ j = Len(g) + 1
        BY <1>1
      <4>3. \A j \in 1 .. Len(g) : j \in 1 .. Len(g2)
        BY <1>1
      <4>4. \A j \in 1 .. Len(g) : g2[j] < g2[i] + Covered <=> g[j] < g[i] + Covered
        BY <1>1, <2>2
      <4>. QED
        BY <4>1, <4>2, <4>3, <4>4
    <3>. QED
      BY <2>2, <3>1 DEF Held
  <2>3. i = Len(g) + 1 \/ i \in 1 .. Len(g)
    BY <1>1
  <2>. QED
    BY <2>1, <2>2, <2>3, Zenon
<1>. QED
  BY <1>3, <1>4

\* The memory forgets what is older than its retention.
LEMMA Forgotten ==
  ASSUME NEW g, NEW T1, NEW T2, NEW p, Accounted(g, T1, T2, p, now), now \in Nat,
         NEW cleans \in BOOLEAN
  PROVE  Accounted(g, Kept(cleans, T1), T2, p, now)
<1>1. CASE ~cleans
  BY <1>1 DEF Kept
<1>2. CASE cleans
  <2>. DEFINE u == now - Retention
              A == After(T1, u)
  <2>1. u \in Int /\ u <= now - Covered - 0
    BY Constants
  <2>. HIDE DEF u
  <2>2. Kept(cleans, T1) = A
    BY <1>2 DEF Kept, u
  <2>3. KeepsPromise(T1, p) => KeepsPromise(A, p)
    <3>. SUFFICES ASSUME KeepsPromise(T1, p) PROVE KeepsPromise(A, p)
      OBVIOUS
    <3>1. InOrder(T1, now) /\ Limit \in Nat
      BY Constants DEF Accounted
    <3>2. Len(A) \in Nat /\ Len(T1) \in Nat /\ Len(A) <= Len(T1)
      BY <2>1, <3>1, AfterFacts DEF InOrder
    <3>3. Len(A) = Limit => Len(A) = Len(T1) /\ A[1] = T1[1]
      BY <2>1, <3>1, <3>2, Constants, AfterFacts DEF KeepsPromise
    <3>. HIDE DEF A
    <3>. QED
      BY <3>1, <3>2, <3>3 DEF KeepsPromise
  <2>4. InOrder(A, now)
    BY <2>1, AfterFacts DEF Accounted
  <2>5. PICK M \in SUBSET (1 .. Len(g)) : SplitAs(M, g, T1, T2, now)
    BY DEF Accounted
  <2>6. Counted(M, g, A, 0, now)
    <3>1. g \in Seq(Nat) /\ InOrder(T1, now) /\ 0 \in Nat
      BY DEF Accounted, InOrder
    <3>2. Counted(M, g, T1, 0, now)
      BY <2>5 DEF SplitAs
    <3>. QED
      BY <2>1, <3>1, <3>2, CountedAfter
  <2>. HIDE DEF A
  <2>7. SplitAs(M, g, A, T2, now)
    BY <2>5, <2>6 DEF SplitAs
  <2>. QED
    BY <2>2, <2>3, <2>4, <2>7 DEF Accounted
<1>. QED
  BY <1>1, <1>2

\* Two lists in order, and the set of the grants that the first one counted.
LEMMA Grant ==
  ASSUME NEW n \in Nat, NEW g, NEW T1, NEW T2, NEW p, Accounted(g, T1, T2, p, n),
         store \in {"memory", "upstash", "redis"},
         NEW S1, NEW S2, InOrder(S1, n), InOrder(S2, n),
         NEW M \in SUBSET (1 .. Len(Append(g, n))), SplitAs(M, Append(g, n), S1, S2, n),
         store = "memory" => Len(S1) <= Limit,
         store = "upstash" => Len(S2) <= Limit
  PROVE  Accounted(Append(g, n), S1, S2, Null, n)
<1>1. InOrder(g, n) /\ Held(g)
  BY DEF Accounted
<1>2. InOrder(Append(g, n), n)
  BY <1>1, AppendedFacts
<1>3. Held(Append(g, n))
  BY <1>1, <1>2, HeldGrant
<1>. QED
  BY <1>2, <1>3 DEF Accounted, KeepsPromise

\* The memory lets a request through.
LEMMA MemoryGrants ==
  ASSUME NEW n \in Nat, NEW g, NEW T1, NEW T2, NEW p, Accounted(g, T1, T2, p, n),
         store \in {"memory", "redis"}, Len(Recent(T1, n)) < Limit
  PROVE  Accounted(Append(g, n), Append(Recent(T1, n), n), T2, Null, n)
<1>. DEFINE R == Recent(T1, n)
            L == Len(g)
            g2 == Append(g, n)
            S == Append(R, n)
<1>1. /\ InOrder(g, n) /\ g \in Seq(Nat) /\ L \in Nat /\ InOrder(T1, n) /\ InOrder(T2, n)
      /\ \A j \in 1 .. L : g[j] <= n
  BY DEF Accounted, InOrder
<1>2. PICK M \in SUBSET (1 .. L) : SplitAs(M, g, T1, T2, n)
  BY DEF Accounted
<1>3. n - Window \in Int /\ n - Window <= n - Covered - 0 /\ Limit \in Nat
  BY Constants
<1>4. R = After(T1, n - Window)
  BY DEF Recent
<1>5. InOrder(R, n)
  BY <1>1, <1>3, <1>4, AfterFacts
<1>6. Counted(M, g, R, 0, n)
  <2>1. Counted(M, g, T1, 0, n)
    BY <1>2 DEF SplitAs
  <2>. QED
    BY <1>1, <1>3, <1>4, <2>1, CountedAfter
<1>7. /\ InOrder(S, n) /\ Len(S) = Len(R) + 1
      /\ \A c \in Int : c <= n => Cardinality(AsLate(S, c)) = Cardinality(AsLate(R, c)) + 1
  BY <1>5, AppendedFacts
<1>. HIDE DEF R, S
<1>8. Counted(M \cup {L + 1}, g2, S, 0, n)
  <2>1. R \in Seq(Nat) /\ S \in Seq(Nat) /\ n <= n + 0 /\ Len(R) < Limit
    BY <1>5, <1>7 DEF InOrder, R
  <2>. QED
    BY <1>1, <1>6, <1>7, <2>1, CountedGrant
<1>9. Len(g2) = L + 1
  BY <1>1, AppendProperties
<1>10. M \cup {L + 1} \in SUBSET (1 .. Len(g2))
  <2>1. 1 .. L \subseteq 1 .. L + 1 /\ L + 1 \in 1 .. L + 1
    BY <1>1
  <2>. HIDE DEF L, g2
  <2>. QED
    BY <1>9, <2>1
<1>11. (1 .. Len(g2)) \ (M \cup {L + 1}) = (1 .. L) \ M
  BY <1>1, <1>9
<1>12. Counted((1 .. L) \ M, g2, T2, MaxLatency, n)
  <2>1. Counted((1 .. L) \ M, g, T2, MaxLatency, n)
    BY <1>2 DEF SplitAs
  <2>. QED
    BY <1>1, <2>1, CountedElsewhere
<1>13. store = "memory" => M \cup {L + 1} = 1 .. Len(g2)
  <2>1. store = "memory" => M = 1 .. L
    BY <1>2 DEF SplitAs
  <2>. QED
    BY <1>1, <1>9, <2>1
<1>14. SplitAs(M \cup {L + 1}, g2, S, T2, n)
  BY <1>8, <1>11, <1>12, <1>13 DEF SplitAs
<1>15. Len(S) <= Limit
  BY <1>3, <1>5, <1>7 DEF InOrder, R
<1>. HIDE DEF g2, L
<1>16. g2 = Append(g, n) /\ S = Append(Recent(T1, n), n)
  BY DEF g2, S, R
<1>. QED
  BY <1>1, <1>7, <1>10, <1>14, <1>15, <1>16, Grant

\* The memory refuses a request.
LEMMA MemoryRefuses ==
  ASSUME NEW n \in Nat, NEW g, NEW T1, NEW T2, NEW p, Accounted(g, T1, T2, p, n),
         store \in {"memory", "redis"}, ~(Len(Recent(T1, n)) < Limit),
         NEW p2, p2 = n + RetrySeconds(Head(Recent(T1, n)) + Window - n) * Second
  PROVE  /\ Accounted(g, T1, T2, p2, n)
         /\ store = "memory" /\ p # Null => n < p
<1>. DEFINE R == Recent(T1, n)
<1>1. InOrder(T1, n) /\ Limit \in Nat /\ Limit >= 1 /\ Window \in Nat /\ n - Window \in Int
  BY Constants DEF Accounted
<1>2. R = After(T1, n - Window)
  BY DEF Recent
<1>3. /\ InOrder(R, n) /\ Len(R) <= Len(T1)
      /\ \A j \in 1 .. Len(R) : R[j] > n - Window
      /\ Len(R) = Len(T1) => \A j \in 1 .. Len(T1) : R[j] = T1[j]
  BY <1>1, <1>2, AfterFacts
<1>4. ~(Len(R) < Limit)
  OBVIOUS
<1>. HIDE DEF R
<1>5. /\ Len(R) \in Nat /\ Len(T1) \in Nat /\ Len(R) >= 1 /\ 1 \in 1 .. Len(R)
      /\ R[1] \in Nat /\ Head(R) = R[1]
  <2>1. R \in Seq(Nat) /\ T1 \in Seq(Nat)
    BY <1>1, <1>3 DEF InOrder
  <2>2. Len(R) \in Nat /\ Len(T1) \in Nat /\ Len(R) >= 1
    BY <1>1, <1>4, <2>1
  <2>. QED
    BY <2>1, <2>2, ElementOfSeq, Head(R) = R[1]
<1>6. p2 \in Nat /\ p2 >= R[1] + Window
  <2>1. R[1] + Window - n \in Int
    BY <1>1, <1>5
  <2>. DEFINE x == R[1] + Window - n
  <2>2. x \in Int /\ p2 = n + RetrySeconds(x) * Second
    BY <1>5, <2>1 DEF R
  <2>. HIDE DEF x
  <2>3. RetrySeconds(x) * Second \in Nat /\ RetrySeconds(x) * Second >= x
    BY <2>2, RetryFacts
  <2>4. x = R[1] + Window - n
    BY DEF x
  <2>. QED
    BY <1>1, <1>5, <2>2, <2>3, <2>4
<1>7. ASSUME store = "memory"
      PROVE  Len(T1) = Limit /\ T1[1] = R[1]
  <2>1. Len(T1) <= Limit
    BY <1>7 DEF Accounted, KeepsPromise
  <2>2. Len(T1) = Limit /\ Len(R) = Len(T1)
    BY <1>1, <1>3, <1>4, <1>5, <2>1
  <2>. QED
    BY <1>3, <1>5, <2>2
<1>8. store = "memory" => KeepsPromise(T1, p2)
  BY <1>1, <1>6, <1>7 DEF KeepsPromise
<1>9. ASSUME store = "memory", p # Null PROVE n < p
  <2>1. T1[1] + Window <= p /\ p \in Nat
    BY <1>7, <1>9 DEF Accounted, KeepsPromise
  <2>2. R[1] > n - Window
    BY <1>3, <1>5
  <2>. QED
    BY <1>1, <1>5, <1>7, <1>9, <2>1, <2>2
<1>. QED
  BY <1>6, <1>8, <1>9 DEF Accounted

\* What a shared store has of a key after the times that left the window of a
\* request sent at t, which was under way for MaxLatency at most, were removed.
LEMMA SharedRecent ==
  ASSUME NEW n \in Nat, NEW g, NEW T1, NEW T2, NEW p, Accounted(g, T1, T2, p, n),
         store # "memory", NEW t \in Nat, t <= n, n <= t + MaxLatency
  PROVE  LET R == Recent(T2, t) IN
         /\ InOrder(R, n) /\ Len(R) <= Len(T2) /\ Len(R) \in Nat /\ Len(T2) \in Nat
         /\ \A j \in 1 .. Len(R) : R[j] > t - Window
         /\ Len(R) = Len(T2) => \A j \in 1 .. Len(T2) : R[j] = T2[j]
         /\ \A M \in SUBSET (1 .. Len(g)) :
              SplitAs(M, g, T1, T2, n) => SplitAs(M, g, T1, R, n)
<1>. DEFINE R == Recent(T2, t)
<1>1. InOrder(g, n) /\ g \in Seq(Nat) /\ InOrder(T2, n) /\ MaxLatency \in Nat
  BY Constants DEF Accounted, InOrder
<1>2. t - Window \in Int /\ t - Window <= n - Covered - MaxLatency
  BY Constants
<1>3. R = After(T2, t - Window)
  BY DEF Recent
<1>4. /\ InOrder(R, n) /\ Len(R) <= Len(T2)
      /\ \A j \in 1 .. Len(R) : R[j] > t - Window
      /\ Len(R) = Len(T2) => \A j \in 1 .. Len(T2) : R[j] = T2[j]
  BY <1>1, <1>2, <1>3, AfterFacts
<1>5. ASSUME NEW M \in SUBSET (1 .. Len(g)), SplitAs(M, g, T1, T2, n)
      PROVE  SplitAs(M, g, T1, R, n)
  <2>1. Counted((1 .. Len(g)) \ M, g, T2, MaxLatency, n)
    BY <1>5 DEF SplitAs
  <2>2. Counted((1 .. Len(g)) \ M, g, R, MaxLatency, n)
    BY <1>1, <1>2, <1>3, <2>1, CountedAfter
  <2>. HIDE DEF R
  <2>. QED
    BY <1>5, <2>2 DEF SplitAs
<1>6. Len(R) \in Nat /\ Len(T2) \in Nat
  BY <1>1, <1>4 DEF InOrder
<1>. HIDE DEF R
<1>7. SUFFICES
         /\ InOrder(R, n) /\ Len(R) <= Len(T2) /\ Len(R) \in Nat /\ Len(T2) \in Nat
         /\ \A j \in 1 .. Len(R) : R[j] > t - Window
         /\ Len(R) = Len(T2) => \A j \in 1 .. Len(T2) : R[j] = T2[j]
         /\ \A M \in SUBSET (1 .. Len(g)) :
              SplitAs(M, g, T1, T2, n) => SplitAs(M, g, T1, R, n)
  BY DEF R
<1>. QED
  BY <1>4, <1>5, <1>6

\* A shared store counts a request: more times do no harm.
LEMMA SharedCounts ==
  ASSUME NEW n \in Nat, NEW g, NEW T1, NEW T2, NEW p, Accounted(g, T1, T2, p, n),
         store # "memory", NEW t \in Nat, t <= n, n <= t + MaxLatency
  PROVE  LET S == Inserted(Recent(T2, t), t) IN
         /\ InOrder(S, n) /\ Len(S) = Len(Recent(T2, t)) + 1
         /\ \A M \in SUBSET (1 .. Len(g)) :
              SplitAs(M, g, T1, T2, n) => SplitAs(M, g, T1, S, n)
<1>. DEFINE R == Recent(T2, t)
            S == Inserted(R, t)
<1>1. /\ InOrder(R, n)
      /\ \A M \in SUBSET (1 .. Len(g)) :
           SplitAs(M, g, T1, T2, n) => SplitAs(M, g, T1, R, n)
  BY SharedRecent
<1>. HIDE DEF R
<1>2. /\ InOrder(S, n) /\ Len(S) = Len(R) + 1
      /\ \A c \in Int : Cardinality(AsLate(S, c))
                          = Cardinality(AsLate(R, c)) + IF t >= c THEN 1 ELSE 0
  BY <1>1, InsertedFacts
<1>. HIDE DEF S
<1>3. g \in Seq(Nat) /\ R \in Seq(Nat) /\ S \in Seq(Nat) /\ MaxLatency \in Nat
  BY <1>1, <1>2, Constants DEF Accounted, InOrder
<1>4. \A c \in Int : Cardinality(AsLate(R, c)) <= Cardinality(AsLate(S, c))
  <2>. TAKE c \in Int
  <2>1. Cardinality(AsLate(R, c)) \in Nat
    BY <1>3, AsLateFinite
  <2>. QED
    BY <1>2, <2>1
<1>5. ASSUME NEW M \in SUBSET (1 .. Len(g)), SplitAs(M, g, T1, T2, n)
      PROVE  SplitAs(M, g, T1, S, n)
  <2>1. SplitAs(M, g, T1, R, n)
    BY <1>1, <1>5
  <2>2. Counted((1 .. Len(g)) \ M, g, R, MaxLatency, n)
    BY <2>1 DEF SplitAs
  <2>3. Counted((1 .. Len(g)) \ M, g, S, MaxLatency, n)
    BY <1>3, <1>4, <2>2, CountedMore
  <2>. QED
    BY <2>1, <2>3 DEF SplitAs
<1>6. S = Inserted(Recent(T2, t), t) /\ R = Recent(T2, t)
  BY DEF S, R
<1>. QED
  BY <1>2, <1>5, <1>6

\* A shared store lets a request through.
LEMMA SharedGrants ==
  ASSUME NEW n \in Nat, NEW g, NEW T1, NEW T2, NEW p, Accounted(g, T1, T2, p, n),
         store \in {"upstash", "redis"}, NEW t \in Nat, t <= n, n <= t + MaxLatency,
         Len(Recent(T2, t)) < Limit
  PROVE  Accounted(Append(g, n), T1, Inserted(Recent(T2, t), t), Null, n)
<1>. DEFINE R == Recent(T2, t)
            L == Len(g)
            g2 == Append(g, n)
            S == Inserted(R, t)
<1>1. /\ InOrder(g, n) /\ g \in Seq(Nat) /\ L \in Nat /\ InOrder(T1, n) /\ InOrder(T2, n)
      /\ \A j \in 1 .. L : g[j] <= n
  BY DEF Accounted, InOrder
<1>2. PICK M \in SUBSET (1 .. L) : SplitAs(M, g, T1, T2, n)
  BY DEF Accounted
<1>3. InOrder(R, n) /\ Len(R) \in Nat /\ SplitAs(M, g, T1, R, n)
  BY <1>2, SharedRecent
<1>4. Len(R) < Limit /\ Limit \in Nat /\ MaxLatency \in Nat
  BY Constants
<1>. HIDE DEF R
<1>5. /\ InOrder(S, n) /\ Len(S) = Len(R) + 1
      /\ \A c \in Int : Cardinality(AsLate(S, c))
                          = Cardinality(AsLate(R, c)) + IF t >= c THEN 1 ELSE 0
  BY <1>3, InsertedFacts
<1>. HIDE DEF S
<1>6. Len(g2) = L + 1 /\ \A j \in 1 .. L : g2[j] = g[j]
  BY <1>1, AppendProperties
<1>7. Counted(((1 .. L) \ M) \cup {L + 1}, g2, S, MaxLatency, n)
  <2>1. R \in Seq(Nat) /\ S \in Seq(Nat)
    BY <1>3, <1>5 DEF InOrder
  <2>2. \A c \in Int : c <= t => Cardinality(AsLate(S, c)) = Cardinality(AsLate(R, c)) + 1
    BY <1>5
  <2>3. Counted((1 .. L) \ M, g, R, MaxLatency, n)
    BY <1>3 DEF SplitAs
  <2>. QED
    BY <1>1, <1>4, <2>1, <2>2, <2>3, CountedGrant
<1>8. (1 .. Len(g2)) \ M = ((1 .. L) \ M) \cup {L + 1}
  <2>1. 1 .. L + 1 = (1 .. L) \cup {L + 1} /\ L + 1 \notin 1 .. L
    BY <1>1
  <2>. HIDE DEF L, g2
  <2>. QED
    BY <1>2, <1>6, <2>1
<1>9. Counted(M, g2, T1, 0, n)
  <2>1. Counted(M, g, T1, 0, n)
    BY <1>2 DEF SplitAs
  <2>. QED
    BY <1>1, <2>1, CountedElsewhere
<1>10. store = "upstash" => M = {}
  BY <1>2 DEF SplitAs
<1>11. SplitAs(M, g2, T1, S, n)
  BY <1>7, <1>8, <1>9, <1>10 DEF SplitAs
<1>12. M \in SUBSET (1 .. Len(g2))
  <2>1. 1 .. L \subseteq 1 .. L + 1
    BY <1>1
  <2>. HIDE DEF L, g2
  <2>. QED
    BY <1>2, <1>6, <2>1
<1>13. Len(S) <= Limit
  BY <1>3, <1>4, <1>5
<1>. HIDE DEF g2, L
<1>14. g2 = Append(g, n) /\ S = Inserted(Recent(T2, t), t)
  BY DEF g2, S, R
<1>. QED
  BY <1>1, <1>5, <1>11, <1>12, <1>13, <1>14, Grant

\* Upstash refuses a request.
LEMMA UpstashRefuses ==
  ASSUME NEW n \in Nat, NEW g, NEW T1, NEW T2, NEW p, Accounted(g, T1, T2, p, n),
         store = "upstash", NEW t \in Nat, t <= n, n <= t + MaxLatency,
         ~(Len(Recent(T2, t)) < Limit),
         NEW p2, p2 = n + RetrySeconds(Head(Recent(T2, t)) + Window - t) * Second
  PROVE  /\ Accounted(g, T1, Recent(T2, t), p2, n)
         /\ Accounted(g, T1, Recent(T2, t), Null, n)
         /\ p # Null => t < p
<1>. DEFINE R == Recent(T2, t)
<1>1. Limit \in Nat /\ Limit >= 1 /\ Window \in Nat
  BY Constants
<1>2. /\ InOrder(R, n) /\ Len(R) <= Len(T2) /\ Len(R) \in Nat /\ Len(T2) \in Nat
      /\ \A j \in 1 .. Len(R) : R[j] > t - Window
      /\ Len(R) = Len(T2) => \A j \in 1 .. Len(T2) : R[j] = T2[j]
      /\ \A M \in SUBSET (1 .. Len(g)) :
           SplitAs(M, g, T1, T2, n) => SplitAs(M, g, T1, R, n)
  BY SharedRecent
<1>3. ~(Len(R) < Limit) /\ Len(T2) <= Limit
  BY DEF Accounted, KeepsPromise
<1>. HIDE DEF R
<1>4. Len(R) = Limit /\ Len(T2) = Limit /\ 1 \in 1 .. Len(R)
  BY <1>1, <1>2, <1>3
<1>5. R[1] \in Nat /\ Head(R) = R[1] /\ R[1] > t - Window /\ R[1] = T2[1]
  <2>1. R \in Seq(Nat)
    BY <1>2 DEF InOrder
  <2>. QED
    BY <1>2, <1>4, <2>1, ElementOfSeq, Head(R) = R[1]
<1>6. p2 \in Nat /\ p2 >= R[1] + Window
  <2>. DEFINE x == R[1] + Window - t
  <2>1. x \in Int /\ p2 = n + RetrySeconds(x) * Second
    BY <1>1, <1>5 DEF R
  <2>. HIDE DEF x
  <2>2. RetrySeconds(x) * Second \in Nat /\ RetrySeconds(x) * Second >= x
    BY <2>1, RetryFacts
  <2>3. x = R[1] + Window - t
    BY DEF x
  <2>. QED
    BY <1>1, <1>5, <2>1, <2>2, <2>3
<1>7. KeepsPromise(R, p2) /\ KeepsPromise(R, Null)
  BY <1>1, <1>4, <1>6 DEF KeepsPromise
<1>8. ASSUME p # Null PROVE t < p
  <2>1. T2[1] + Window <= p /\ p \in Nat
    BY <1>4, <1>8 DEF Accounted, KeepsPromise
  <2>. QED
    BY <1>1, <1>5, <2>1
<1>9. ASSUME NEW x \in {p2, Null} PROVE Accounted(g, T1, R, x, n)
  <2>1. PICK M \in SUBSET (1 .. Len(g)) : SplitAs(M, g, T1, T2, n)
    BY DEF Accounted
  <2>2. SplitAs(M, g, T1, R, n)
    BY <1>2, <2>1
  <2>3. InOrder(g, n) /\ InOrder(T1, n) /\ Held(g)
    BY DEF Accounted
  <2>4. x \in Nat \cup {Null} /\ KeepsPromise(R, x)
    BY <1>6, <1>7
  <2>. QED
    BY <1>2, <2>2, <2>3, <2>4 DEF Accounted
<1>. QED
  BY <1>8, <1>9 DEF R

\* Upstash lets a request through, but its answer is lost.
LEMMA UpstashLost ==
  ASSUME NEW n \in Nat, NEW g, NEW T1, NEW T2, NEW p, Accounted(g, T1, T2, p, n),
         store = "upstash", NEW t \in Nat, t <= n, n <= t + MaxLatency,
         Len(Recent(T2, t)) < Limit
  PROVE  Accounted(g, T1, Inserted(Recent(T2, t), t), Null, n)
<1>. DEFINE S == Inserted(Recent(T2, t), t)
<1>1. /\ InOrder(S, n) /\ Len(S) = Len(Recent(T2, t)) + 1
      /\ \A M \in SUBSET (1 .. Len(g)) :
           SplitAs(M, g, T1, T2, n) => SplitAs(M, g, T1, S, n)
  BY SharedCounts
<1>2. Len(Recent(T2, t)) \in Nat /\ Limit \in Nat
  BY Constants, SharedRecent
<1>. HIDE DEF S
<1>3. KeepsPromise(S, Null)
  BY <1>1, <1>2 DEF KeepsPromise
<1>4. Accounted(g, T1, S, Null, n)
  BY <1>1, <1>3 DEF Accounted
<1>. QED
  BY <1>4 DEF S

\* Redis counts a request, let through or not, whatever is then promised.
LEMMA RedisCounts ==
  ASSUME NEW n \in Nat, NEW g, NEW T1, NEW T2, NEW p, Accounted(g, T1, T2, p, n),
         store = "redis", NEW t \in Nat, t <= n, n <= t + MaxLatency,
         NEW p2 \in Nat \cup {Null}
  PROVE  Accounted(g, T1, Inserted(Recent(T2, t), t), p2, n)
<1>. DEFINE S == Inserted(Recent(T2, t), t)
<1>1. /\ InOrder(S, n)
      /\ \A M \in SUBSET (1 .. Len(g)) :
           SplitAs(M, g, T1, T2, n) => SplitAs(M, g, T1, S, n)
  BY SharedCounts
<1>. HIDE DEF S
<1>2. Accounted(g, T1, S, p2, n)
  BY <1>1 DEF Accounted
<1>. QED
  BY <1>2 DEF S

\* Time passes.
LEMMA Later ==
  ASSUME NEW n \in Nat, NEW m \in Nat, m = n + 1,
         NEW g, NEW T1, NEW T2, NEW p, Accounted(g, T1, T2, p, n)
  PROVE  Accounted(g, T1, T2, p, m)
<1>1. ASSUME NEW T, InOrder(T, n) PROVE InOrder(T, m)
  <2>1. Len(T) \in Nat /\ \A i \in 1 .. Len(T) : T[i] \in Nat
    BY <1>1, ElementOfSeq DEF InOrder
  <2>. QED
    BY <1>1, <2>1 DEF InOrder
<1>2. PICK M \in SUBSET (1 .. Len(g)) : SplitAs(M, g, T1, T2, n)
  BY DEF Accounted
<1>3. SplitAs(M, g, T1, T2, m)
  <2>1. g \in Seq(Nat) /\ MaxLatency \in Nat /\ 0 \in Nat
    BY Constants DEF Accounted, InOrder
  <2>2. Counted(M, g, T1, 0, n) /\ Counted((1 .. Len(g)) \ M, g, T2, MaxLatency, n)
    BY <1>2 DEF SplitAs
  <2>3. Counted(M, g, T1, 0, m)
    BY <2>1, <2>2, CountedTick
  <2>4. Counted((1 .. Len(g)) \ M, g, T2, MaxLatency, m)
    BY <2>1, <2>2, CountedTick
  <2>. QED
    BY <1>2, <2>3, <2>4 DEF SplitAs
<1>. QED
  BY <1>1, <1>3 DEF Accounted

-----------------------------------------------------------------------------
(* The steps of the limiter *)

\* What is known of a key depends on the kind of store, which does not change.
LEMMA LimiterNext ==
  ASSUME store' = store, now' \in Nat, store \in {"memory", "upstash", "redis"},
         memory' \in [Key -> Seq(Nat)], shared' \in [Key -> Seq(Nat)],
         granted' \in [Key -> Seq(Nat)], promise' \in [Key -> Nat \cup {Null}],
         \A k \in Key : Accounted(granted'[k], memory'[k], shared'[k], promise'[k], now')
  PROVE  Limiter'
<1>1. Covered' = Covered
  BY DEF Covered
<1>2. ASSUME NEW k \in Key
      PROVE  Accounted(granted[k], memory[k], shared[k], promise[k], now)'
  <2>1. Accounted(granted'[k], memory'[k], shared'[k], promise'[k], now')
    OBVIOUS
  <2>. QED
    BY <1>1, <2>1 DEF Accounted, SplitAs, Held, KeepsPromise, Counted, InOrder
<1>. QED
  BY <1>2 DEF Limiter

\* What the caller of a key is told.
LEMMA ToldFacts ==
  ASSUME granted \in [Key -> Seq(Nat)], promise \in [Key -> Nat \cup {Null}], now \in Nat,
         NEW k \in Key
  PROVE  /\ Granted(k) =>
              /\ granted' \in [Key -> Seq(Nat)] /\ promise' \in [Key -> Nat \cup {Null}]
              /\ granted'[k] = Append(granted[k], now) /\ promise'[k] = Null
              /\ \A j \in Key : j # k => granted'[j] = granted[j] /\ promise'[j] = promise[j]
         /\ \A r : r * Second \in Nat /\ Refused(k, r) =>
              /\ promise' \in [Key -> Nat \cup {Null}] /\ granted' = granted
              /\ promise'[k] = now + r * Second
              /\ \A j \in Key : j # k => promise'[j] = promise[j]
<1>1. ASSUME Granted(k)
      PROVE  /\ granted' \in [Key -> Seq(Nat)] /\ promise' \in [Key -> Nat \cup {Null}]
             /\ granted'[k] = Append(granted[k], now) /\ promise'[k] = Null
             /\ \A j \in Key : j # k => granted'[j] = granted[j] /\ promise'[j] = promise[j]
  <2>1. Append(granted[k], now) \in Seq(Nat)
    BY AppendProperties
  <2>. QED
    BY <1>1, <2>1 DEF Granted
<1>2. ASSUME NEW r, r * Second \in Nat, Refused(k, r)
      PROVE  /\ promise' \in [Key -> Nat \cup {Null}] /\ granted' = granted
             /\ promise'[k] = now + r * Second
             /\ \A j \in Key : j # k => promise'[j] = promise[j]
  <2>1. now + r * Second \in Nat
    BY <1>2
  <2>. QED
    BY <1>2, <2>1 DEF Refused
<1>. QED
  BY <1>1, <1>2

\* The memory answers a request of key k.
LEMMA MemoryStep ==
  ASSUME Limiter, NEW k \in Key, NEW ok \in BOOLEAN, store \in {"memory", "redis"},
         ConsumeMemory(k, ok)
  PROVE  /\ memory' \in [Key -> Seq(Nat)] /\ granted' \in [Key -> Seq(Nat)]
         /\ promise' \in [Key -> Nat \cup {Null}]
         /\ \A j \in Key : Accounted(granted'[j], memory'[j], shared[j], promise'[j], now)
         /\ \A j \in Key : j # k => promise'[j] = promise[j]
         /\ ok => promise'[k] = Null
         /\ ~ok /\ store = "memory" /\ promise[k] # Null => now < promise[k]
<1>. DEFINE kept(cleans) == [j \in Key |-> Kept(cleans, memory[j])]
<1>1. PICK cleans \in BOOLEAN :
        LET recent == Recent(kept(cleans)[k], now) IN
        /\ ok <=> Len(recent) < Limit
        /\ IF ok
           THEN memory' = [kept(cleans) EXCEPT ![k] = Append(recent, now)] /\ Granted(k)
           ELSE /\ memory' = kept(cleans)
                /\ Refused(k, RetrySeconds(Head(recent) + Window - now))
  BY DEF ConsumeMemory
<1>. DEFINE K == kept(cleans)
            R == Recent(K[k], now)
<1>2. \A j \in Key : K[j] = Kept(cleans, memory[j])
  OBVIOUS
<1>3. /\ now \in Nat /\ granted \in [Key -> Seq(Nat)] /\ promise \in [Key -> Nat \cup {Null}]
      /\ \A j \in Key : Accounted(granted[j], memory[j], shared[j], promise[j], now)
  BY DEF Limiter
<1>4. \A j \in Key : Accounted(granted[j], K[j], shared[j], promise[j], now)
  BY <1>2, <1>3, Forgotten
<1>5. K \in [Key -> Seq(Nat)]
  BY <1>2, <1>4 DEF Accounted, InOrder
<1>6. /\ ok <=> Len(R) < Limit
      /\ ok => memory' = [K EXCEPT ![k] = Append(R, now)] /\ Granted(k)
      /\ ~ok => memory' = K /\ Refused(k, RetrySeconds(Head(R) + Window - now))
  BY <1>1
<1>. HIDE DEF K
<1>7. CASE ok
  <2>1. /\ granted' \in [Key -> Seq(Nat)] /\ promise' \in [Key -> Nat \cup {Null}]
        /\ granted'[k] = Append(granted[k], now) /\ promise'[k] = Null
        /\ \A j \in Key : j # k => granted'[j] = granted[j] /\ promise'[j] = promise[j]
    BY <1>3, <1>6, <1>7, ToldFacts
  <2>2. Accounted(Append(granted[k], now), Append(R, now), shared[k], Null, now)
    BY <1>3, <1>4, <1>6, <1>7, MemoryGrants
  <2>3. Append(R, now) \in Seq(Nat)
    BY <2>2 DEF Accounted, InOrder
  <2>4. memory' = [K EXCEPT ![k] = Append(R, now)]
    BY <1>6, <1>7
  <2>. HIDE DEF R
  <2>5. /\ memory' \in [Key -> Seq(Nat)] /\ memory'[k] = Append(R, now)
        /\ \A j \in Key : j # k => memory'[j] = K[j]
    BY <1>5, <2>3, <2>4
  <2>6. ASSUME NEW j \in Key
        PROVE  Accounted(granted'[j], memory'[j], shared[j], promise'[j], now)
    <3>1. CASE j = k
      BY <2>1, <2>2, <2>5, <3>1
    <3>2. CASE j # k
      BY <1>4, <2>1, <2>5, <3>2
    <3>. QED
      BY <3>1, <3>2
  <2>. QED
    BY <1>7, <2>1, <2>5, <2>6
<1>8. CASE ~ok
  <2>. DEFINE x == Head(R) + Window - now
  <2>1. x \in Int
    <3>1. R \in Seq(Nat) /\ Len(R) >= 1 /\ Len(R) \in Nat
      <4>1. InOrder(K[k], now)
        BY <1>4 DEF Accounted
      <4>2. R \in Seq(Nat)
        BY <1>3, <4>1, AfterFacts, Constants, now - Window \in Int DEF Recent, InOrder
      <4>. QED
        BY <1>6, <1>8, <4>2, Constants
    <3>2. Head(R) \in Nat
      BY <3>1, ElementOfSeq, Head(R) = R[1]
    <3>. HIDE DEF R
    <3>. QED
      BY <1>3, <3>2, Constants
  <2>2. /\ promise' \in [Key -> Nat \cup {Null}] /\ granted' = granted
        /\ promise'[k] = now + RetrySeconds(x) * Second
        /\ \A j \in Key : j # k => promise'[j] = promise[j]
    <3>1. Refused(k, RetrySeconds(x))
      BY <1>6, <1>8
    <3>. HIDE DEF x
    <3>2. RetrySeconds(x) * Second \in Nat
      BY <2>1, RetryFacts
    <3>. QED
      BY <1>3, <3>1, <3>2, ToldFacts
  <2>3. /\ Accounted(granted[k], K[k], shared[k], promise'[k], now)
        /\ store = "memory" /\ promise[k] # Null => now < promise[k]
    BY <1>3, <1>4, <1>6, <1>8, <2>2, MemoryRefuses
  <2>4. memory' = K
    BY <1>6, <1>8
  <2>5. ASSUME NEW j \in Key
        PROVE  Accounted(granted'[j], memory'[j], shared[j], promise'[j], now)
    <3>1. CASE j = k
      BY <2>2, <2>3, <2>4, <3>1
    <3>2. CASE j # k
      BY <1>4, <2>2, <2>4, <3>2
    <3>. QED
      BY <3>1, <3>2
  <2>6. granted' \in [Key -> Seq(Nat)] /\ memory' \in [Key -> Seq(Nat)]
    BY <1>3, <1>5, <2>2, <2>4
  <2>. QED
    BY <1>8, <2>2, <2>3, <2>5, <2>6
<1>. QED
  BY <1>7, <1>8

\* Redis counts a request of key k.
LEMMA RedisStep ==
  ASSUME now \in Nat, shared \in [Key -> Seq(Nat)], store = "redis",
         NEW g, NEW mem, NEW p,
         \A j \in Key : Accounted(g[j], mem[j], shared[j], p[j], now),
         NEW k \in Key, NEW t \in Nat, t <= now, now <= t + MaxLatency, TransactionRuns(k, t)
  PROVE  /\ shared' \in [Key -> Seq(Nat)]
         /\ \A j \in Key : Accounted(g[j], mem[j], shared'[j], p[j], now)
<1>. DEFINE S == Inserted(Recent(shared[k], t), t)
<1>1. p[k] \in Nat \cup {Null}
  BY DEF Accounted
<1>2. Accounted(g[k], mem[k], S, p[k], now)
  BY <1>1, RedisCounts
<1>3. shared' = [shared EXCEPT ![k] = S]
  BY DEF TransactionRuns
<1>4. S \in Seq(Nat)
  BY <1>2 DEF Accounted, InOrder
<1>. HIDE DEF S
<1>5. /\ shared' \in [Key -> Seq(Nat)] /\ shared'[k] = S
      /\ \A j \in Key : j # k => shared'[j] = shared[j]
  BY <1>3, <1>4
<1>6. ASSUME NEW j \in Key PROVE Accounted(g[j], mem[j], shared'[j], p[j], now)
  <2>1. CASE j = k
    BY <1>2, <1>5, <2>1
  <2>2. CASE j # k
    BY <1>5, <2>2
  <2>. QED
    BY <2>1, <2>2
<1>. QED
  BY <1>5, <1>6

\* Upstash answers a request of key k, sent at t.
LEMMA UpstashStep ==
  ASSUME Limiter, NEW k \in Key, NEW ok \in BOOLEAN, store = "upstash",
         NEW t \in Nat, t <= now, now <= t + MaxLatency, ConsumeUpstash(k, t, ok)
  PROVE  /\ shared' \in [Key -> Seq(Nat)] /\ granted' \in [Key -> Seq(Nat)]
         /\ promise' \in [Key -> Nat \cup {Null}]
         /\ \A j \in Key : Accounted(granted'[j], memory[j], shared'[j], promise'[j], now)
         /\ \A j \in Key : j # k => promise'[j] = promise[j]
         /\ ok => promise'[k] = Null
         /\ ~ok /\ promise[k] # Null => t < promise[k]
<1>. DEFINE R == Recent(shared[k], t)
<1>1. /\ ok <=> Len(R) < Limit
      /\ shared' = [shared EXCEPT ![k] = IF ok THEN Inserted(R, t) ELSE R]
      /\ ok => Granted(k)
      /\ ~ok => Refused(k, RetrySeconds(Head(R) + Window - t))
  BY DEF ConsumeUpstash, ScriptRuns
<1>2. /\ now \in Nat /\ granted \in [Key -> Seq(Nat)] /\ promise \in [Key -> Nat \cup {Null}]
      /\ shared \in [Key -> Seq(Nat)]
      /\ \A j \in Key : Accounted(granted[j], memory[j], shared[j], promise[j], now)
  BY DEF Limiter
<1>3. CASE ok
  <2>1. /\ granted' \in [Key -> Seq(Nat)] /\ promise' \in [Key -> Nat \cup {Null}]
        /\ granted'[k] = Append(granted[k], now) /\ promise'[k] = Null
        /\ \A j \in Key : j # k => granted'[j] = granted[j] /\ promise'[j] = promise[j]
    BY <1>1, <1>2, <1>3, ToldFacts
  <2>2. Accounted(Append(granted[k], now), memory[k], Inserted(R, t), Null, now)
    BY <1>1, <1>2, <1>3, SharedGrants
  <2>. DEFINE S == Inserted(R, t)
  <2>3. S \in Seq(Nat)
    BY <2>2 DEF Accounted, InOrder
  <2>4. shared' = [shared EXCEPT ![k] = S]
    BY <1>1, <1>3
  <2>. HIDE DEF S
  <2>5. /\ shared' \in [Key -> Seq(Nat)] /\ shared'[k] = S
        /\ \A j \in Key : j # k => shared'[j] = shared[j]
    BY <1>2, <2>3, <2>4
  <2>6. ASSUME NEW j \in Key
        PROVE  Accounted(granted'[j], memory[j], shared'[j], promise'[j], now)
    <3>1. CASE j = k
      BY <2>1, <2>2, <2>5, <3>1 DEF S
    <3>2. CASE j # k
      BY <1>2, <2>1, <2>5, <3>2
    <3>. QED
      BY <3>1, <3>2
  <2>. QED
    BY <1>3, <2>1, <2>5, <2>6
<1>4. CASE ~ok
  <2>. DEFINE x == Head(R) + Window - t
  <2>1. ~(Len(R) < Limit) /\ Refused(k, RetrySeconds(x))
    BY <1>1, <1>4
  <2>2. R \in Seq(Nat)
    <3>1. InOrder(R, now)
      BY <1>2, SharedRecent
    <3>. QED
      BY <3>1 DEF InOrder
  <2>3. x \in Int
    <3>. HIDE DEF R
    <3>1. Len(R) >= 1 /\ Len(R) \in Nat
      BY <2>1, <2>2, Constants
    <3>2. Head(R) \in Nat
      BY <2>2, <3>1, ElementOfSeq, Head(R) = R[1]
    <3>. QED
      BY <3>2, Constants
  <2>4. /\ promise' \in [Key -> Nat \cup {Null}] /\ granted' = granted
        /\ promise'[k] = now + RetrySeconds(x) * Second
        /\ \A j \in Key : j # k => promise'[j] = promise[j]
    <3>. HIDE DEF x
    <3>1. RetrySeconds(x) * Second \in Nat
      BY <2>3, RetryFacts
    <3>. QED
      BY <1>2, <2>1, <3>1, ToldFacts
  <2>5. /\ Accounted(granted[k], memory[k], R, promise'[k], now)
        /\ promise[k] # Null => t < promise[k]
    BY <1>2, <2>1, <2>4, UpstashRefuses
  <2>6. shared' = [shared EXCEPT ![k] = R]
    BY <1>1, <1>4
  <2>. HIDE DEF R
  <2>7. /\ shared' \in [Key -> Seq(Nat)] /\ shared'[k] = R
        /\ \A j \in Key : j # k => shared'[j] = shared[j]
    BY <1>2, <2>2, <2>6
  <2>8. ASSUME NEW j \in Key
        PROVE  Accounted(granted'[j], memory[j], shared'[j], promise'[j], now)
    <3>1. CASE j = k
      BY <2>4, <2>5, <2>7, <3>1
    <3>2. CASE j # k
      BY <1>2, <2>4, <2>7, <3>2
    <3>. QED
      BY <3>1, <3>2
  <2>9. granted' \in [Key -> Seq(Nat)]
    BY <1>2, <2>4
  <2>. QED
    BY <1>4, <2>4, <2>5, <2>7, <2>8, <2>9
<1>. QED
  BY <1>3, <1>4

\* Redis answers a request of key k, sent at t.
LEMMA RedisAnswers ==
  ASSUME Limiter, NEW k \in Key, NEW ok \in BOOLEAN, store = "redis",
         NEW t \in Nat, t <= now, now <= t + MaxLatency, ConsumeRedis(k, t, ok)
  PROVE  /\ shared' \in [Key -> Seq(Nat)] /\ granted' \in [Key -> Seq(Nat)]
         /\ promise' \in [Key -> Nat \cup {Null}]
         /\ \A j \in Key : Accounted(granted'[j], memory[j], shared'[j], promise'[j], now)
<1>. DEFINE S == Inserted(Recent(shared[k], t), t)
<1>1. /\ ok <=> Len(Recent(shared[k], t)) < Limit
      /\ shared' = [shared EXCEPT ![k] = S]
      /\ ok => Granted(k)
      /\ ~ok => Refused(k, Window \div Second)
  BY DEF ConsumeRedis, TransactionRuns
<1>2. /\ now \in Nat /\ granted \in [Key -> Seq(Nat)] /\ promise \in [Key -> Nat \cup {Null}]
      /\ shared \in [Key -> Seq(Nat)]
      /\ \A j \in Key : Accounted(granted[j], memory[j], shared[j], promise[j], now)
  BY DEF Limiter
<1>3. /\ granted' \in [Key -> Seq(Nat)] /\ promise' \in [Key -> Nat \cup {Null}]
      /\ \A j \in Key : j # k => granted'[j] = granted[j] /\ promise'[j] = promise[j]
      /\ Accounted(granted'[k], memory[k], S, promise'[k], now)
  <2>1. CASE ok
    <3>1. /\ granted' \in [Key -> Seq(Nat)] /\ promise' \in [Key -> Nat \cup {Null}]
          /\ granted'[k] = Append(granted[k], now) /\ promise'[k] = Null
          /\ \A j \in Key : j # k => granted'[j] = granted[j] /\ promise'[j] = promise[j]
      BY <1>1, <1>2, <2>1, ToldFacts
    <3>2. Accounted(Append(granted[k], now), memory[k], S, Null, now)
      BY <1>1, <1>2, <2>1, SharedGrants
    <3>. QED
      BY <3>1, <3>2
  <2>2. CASE ~ok
    <3>1. (Window \div Second) * Second \in Nat
      BY LimiterAssumption
    <3>2. /\ promise' \in [Key -> Nat \cup {Null}] /\ granted' = granted
          /\ \A j \in Key : j # k => promise'[j] = promise[j]
      BY <1>1, <1>2, <2>2, <3>1, ToldFacts
    <3>3. promise'[k] \in Nat \cup {Null}
      BY <3>2
    <3>4. Accounted(granted[k], memory[k], S, promise'[k], now)
      BY <1>2, <3>3, RedisCounts
    <3>. QED
      BY <1>2, <3>2, <3>4
  <2>. QED
    BY <2>1, <2>2
<1>4. S \in Seq(Nat)
  BY <1>3 DEF Accounted, InOrder
<1>5. shared' = [shared EXCEPT ![k] = S]
  BY <1>1
<1>. HIDE DEF S
<1>6. /\ shared' \in [Key -> Seq(Nat)] /\ shared'[k] = S
      /\ \A j \in Key : j # k => shared'[j] = shared[j]
  BY <1>2, <1>4, <1>5
<1>7. ASSUME NEW j \in Key
      PROVE  Accounted(granted'[j], memory[j], shared'[j], promise'[j], now)
  <2>1. CASE j = k
    BY <1>3, <1>6, <2>1
  <2>2. CASE j # k
    BY <1>2, <1>3, <1>6, <2>2
  <2>. QED
    BY <2>1, <2>2
<1>. QED
  BY <1>3, <1>6, <1>7

\* RateLimiter.check, answered: whichever store decides.
LEMMA ConsumeStep ==
  ASSUME Limiter, NEW k \in Key, NEW ok \in BOOLEAN, NEW t \in Nat, t <= now,
         store # "memory" => now <= t + MaxLatency, Consume(k, t, ok)
  PROVE  /\ Limiter'
         /\ store # "redis" => \A j \in Key : j # k => promise'[j] = promise[j]
         /\ store # "redis" /\ ok => promise'[k] = Null
         /\ store # "redis" /\ ~ok /\ promise[k] # Null => t < promise[k]
<1>1. /\ now \in Nat /\ memory \in [Key -> Seq(Nat)] /\ shared \in [Key -> Seq(Nat)]
      /\ store \in {"memory", "upstash", "redis"} /\ promise \in [Key -> Nat \cup {Null}]
  BY DEF Limiter
<1>2. now' = now /\ store' = store
  BY DEF Consume
<1>. DEFINE Goal == /\ Limiter'
                    /\ store # "redis" => \A j \in Key : j # k => promise'[j] = promise[j]
                    /\ store # "redis" /\ ok => promise'[k] = Null
                    /\ store # "redis" /\ ~ok /\ promise[k] # Null => t < promise[k]
<1>3. ASSUME store = "memory", ConsumeMemory(k, ok), UNCHANGED shared PROVE Goal
  <2>1. /\ memory' \in [Key -> Seq(Nat)] /\ granted' \in [Key -> Seq(Nat)]
        /\ promise' \in [Key -> Nat \cup {Null}]
        /\ \A j \in Key : Accounted(granted'[j], memory'[j], shared[j], promise'[j], now)
        /\ \A j \in Key : j # k => promise'[j] = promise[j]
        /\ ok => promise'[k] = Null
        /\ ~ok /\ promise[k] # Null => now < promise[k]
    BY <1>3, MemoryStep
  <2>2. Limiter'
    BY <1>1, <1>2, <1>3, <2>1, LimiterNext
  <2>3. promise[k] # Null => promise[k] \in Nat
    BY <1>1
  <2>. QED
    BY <1>1, <2>1, <2>2, <2>3
<1>4. ASSUME store = "upstash", ConsumeUpstash(k, t, ok), UNCHANGED memory PROVE Goal
  <2>1. /\ shared' \in [Key -> Seq(Nat)] /\ granted' \in [Key -> Seq(Nat)]
        /\ promise' \in [Key -> Nat \cup {Null}]
        /\ \A j \in Key : Accounted(granted'[j], memory[j], shared'[j], promise'[j], now)
        /\ \A j \in Key : j # k => promise'[j] = promise[j]
        /\ ok => promise'[k] = Null
        /\ ~ok /\ promise[k] # Null => t < promise[k]
    BY <1>4, UpstashStep
  <2>2. Limiter'
    BY <1>1, <1>2, <1>4, <2>1, LimiterNext
  <2>. QED
    BY <2>1, <2>2
<1>5. ASSUME store = "redis", ConsumeRedis(k, t, ok), UNCHANGED memory PROVE Goal
  <2>1. /\ shared' \in [Key -> Seq(Nat)] /\ granted' \in [Key -> Seq(Nat)]
        /\ promise' \in [Key -> Nat \cup {Null}]
        /\ \A j \in Key : Accounted(granted'[j], memory[j], shared'[j], promise'[j], now)
    BY <1>5, RedisAnswers
  <2>2. Limiter'
    BY <1>1, <1>2, <1>5, <2>1, LimiterNext
  <2>. QED
    BY <1>5, <2>2
<1>6. ASSUME store = "redis", ConsumeMemory(k, ok), UNCHANGED shared \/ TransactionRuns(k, t)
      PROVE  Goal
  <2>1. /\ memory' \in [Key -> Seq(Nat)] /\ granted' \in [Key -> Seq(Nat)]
        /\ promise' \in [Key -> Nat \cup {Null}]
        /\ \A j \in Key : Accounted(granted'[j], memory'[j], shared[j], promise'[j], now)
    BY <1>6, MemoryStep
  <2>2. /\ shared' \in [Key -> Seq(Nat)]
        /\ \A j \in Key : Accounted(granted'[j], memory'[j], shared'[j], promise'[j], now)
    <3>1. CASE UNCHANGED shared
      BY <1>1, <2>1, <3>1
    <3>2. CASE TransactionRuns(k, t)
      BY <1>1, <1>6, <2>1, <3>2, RedisStep
    <3>. QED
      BY <1>6, <3>1, <3>2
  <2>3. Limiter'
    BY <1>1, <1>2, <2>1, <2>2, LimiterNext
  <2>. QED
    BY <1>6, <2>3
<1>. HIDE DEF Goal
<1>7. Goal
  BY <1>3, <1>4, <1>5, <1>6 DEF Consume
<1>. QED
  BY <1>7 DEF Goal

\* Upstash fails, the request of key k counted or not.
LEMMA StoreFailsStep ==
  ASSUME Limiter, NEW k \in Key, NEW t \in Nat, t <= now, now <= t + MaxLatency,
         StoreFails(k, t)
  PROVE  /\ Limiter' /\ now' = now /\ store' = store
         /\ \A j \in Key : promise'[j] \in {promise[j], Null}
<1>1. /\ now \in Nat /\ memory \in [Key -> Seq(Nat)] /\ shared \in [Key -> Seq(Nat)]
      /\ granted \in [Key -> Seq(Nat)] /\ promise \in [Key -> Nat \cup {Null}]
      /\ \A j \in Key : Accounted(granted[j], memory[j], shared[j], promise[j], now)
  BY DEF Limiter
<1>2. store = "upstash" /\ UNCHANGED <<now, store, memory, granted>>
  BY DEF StoreFails
<1>3. CASE UNCHANGED <<shared, promise>>
  <2>1. Limiter'
    BY <1>1, <1>2, <1>3, LimiterNext
  <2>. QED
    BY <1>2, <1>3, <2>1
<1>4. CASE (\E ok \in BOOLEAN : ScriptRuns(k, t, ok)) /\ promise' = [promise EXCEPT ![k] = Null]
  <2>. DEFINE R == Recent(shared[k], t)
  <2>1. PICK S : /\ S \in {R, Inserted(R, t)} /\ shared' = [shared EXCEPT ![k] = S]
                 /\ S = R => ~(Len(R) < Limit)
                 /\ S # R => S = Inserted(R, t) /\ Len(R) < Limit
    <3>1. PICK ok \in BOOLEAN : ScriptRuns(k, t, ok)
      BY <1>4
    <3>2. Len(Inserted(R, t)) = Len(R) + 1 /\ Len(R) \in Nat
      BY <1>1, <1>2, SharedCounts, SharedRecent
    <3>3. Inserted(R, t) # R
      BY <3>2
    <3>. QED
      BY <3>1, <3>3 DEF ScriptRuns
  <2>2. Accounted(granted[k], memory[k], S, Null, now)
    <3>1. CASE S = R
      BY <1>1, <1>2, <2>1, <3>1, UpstashRefuses
    <3>2. CASE S # R
      BY <1>1, <1>2, <2>1, <3>2, UpstashLost
    <3>. QED
      BY <3>1, <3>2
  <2>3. S \in Seq(Nat)
    BY <2>2 DEF Accounted, InOrder
  <2>4. /\ shared' \in [Key -> Seq(Nat)] /\ shared'[k] = S
        /\ \A j \in Key : j # k => shared'[j] = shared[j]
    BY <1>1, <2>1, <2>3
  <2>5. /\ promise' \in [Key -> Nat \cup {Null}] /\ promise'[k] = Null
        /\ \A j \in Key : j # k => promise'[j] = promise[j]
    BY <1>1, <1>4
  <2>6. ASSUME NEW j \in Key
        PROVE  Accounted(granted'[j], memory'[j], shared'[j], promise'[j], now)
    <3>1. CASE j = k
      BY <1>2, <2>2, <2>4, <2>5, <3>1
    <3>2. CASE j # k
      BY <1>1, <1>2, <2>4, <2>5, <3>2
    <3>. QED
      BY <3>1, <3>2
  <2>7. Limiter'
    BY <1>1, <1>2, <2>4, <2>5, <2>6, LimiterNext
  <2>. QED
    BY <1>2, <2>5, <2>7
<1>. QED
  BY <1>3, <1>4 DEF StoreFails

LEMMA TickStep ==
  ASSUME Limiter, Tick
  PROVE  Limiter'
<1>1. /\ now \in Nat /\ memory \in [Key -> Seq(Nat)] /\ shared \in [Key -> Seq(Nat)]
      /\ granted \in [Key -> Seq(Nat)] /\ promise \in [Key -> Nat \cup {Null}]
      /\ store \in {"memory", "upstash", "redis"}
      /\ \A j \in Key : Accounted(granted[j], memory[j], shared[j], promise[j], now)
  BY DEF Limiter
<1>2. now' = now + 1 /\ now' \in Nat /\ UNCHANGED <<store, memory, shared, granted, promise>>
  BY <1>1 DEF Tick, limiter
<1>3. \A j \in Key : Accounted(granted[j], memory[j], shared[j], promise[j], now')
  BY <1>1, <1>2, Later
<1>. QED
  BY <1>1, <1>2, <1>3, LimiterNext

LEMMA LimiterStarts == LimiterInit => Limiter
<1>. SUFFICES ASSUME LimiterInit PROVE Limiter
  OBVIOUS
<1>1. <<>> \in Seq(Nat) /\ Len(<<>>) = 0
  BY EmptySeq
<1>2. InOrder(<<>>, 0)
  BY <1>1 DEF InOrder
<1>3. SplitAs({}, <<>>, <<>>, <<>>, 0)
  <2>1. 1 .. Len(<<>>) = {}
    BY <1>1
  <2>. QED
    BY <2>1 DEF SplitAs, Counted
<1>4. Held(<<>>) /\ KeepsPromise(<<>>, Null)
  BY <1>1, Constants DEF Held, KeepsPromise
<1>5. Accounted(<<>>, <<>>, <<>>, Null, 0)
  BY <1>1, <1>2, <1>3, <1>4 DEF Accounted
<1>. QED
  BY <1>1, <1>5 DEF LimiterInit, Limiter

-----------------------------------------------------------------------------
(* The guard of a session *)

LEMMA Keys == \A k \in Key : k[1] \in Kind /\ k[2] \in Session
BY AdmissionAssumption

LEMMA StartsFacts ==
  ASSUME guard \in [Session -> GuardEntry \cup {None}], NEW s \in Session, NEW kind,
         NEW t \in Nat, Starts(s, kind, t)
  PROVE  /\ guard' \in [Session -> GuardEntry \cup {None}]
         /\ guard'[s] # None /\ guard'[s].active /\ guard'[s].timer = None
         /\ ~(guard[s] # None /\ guard[s].active)
         /\ kind = "run" => guard'[s].lastRun = t
         /\ kind # "run" /\ guard[s] # None => guard'[s].lastRun = guard[s].lastRun
         /\ kind = "run" /\ guard[s] # None /\ guard[s].lastRun # None
              => t - guard[s].lastRun >= Cooldown
         /\ \A r \in Session : r # s => guard'[r] = guard[r]
<1>1. Entry(s) \in GuardEntry
  BY DEF Entry, Fresh, GuardEntry
<1>. DEFINE e == [active |-> TRUE, timer |-> None,
                  lastRun |-> IF kind = "run" THEN t ELSE Entry(s).lastRun]
<1>2. guard' = [guard EXCEPT ![s] = e] /\ MayStart(s, kind, t)
  BY DEF Starts
<1>3. e \in GuardEntry /\ e # None
  <2>1. e \in GuardEntry
    BY <1>1 DEF GuardEntry
  <2>. HIDE DEF e
  <2>. QED
    BY <2>1, GuardAssumption
<1>4. /\ e.active /\ e.timer = None
      /\ e.lastRun = IF kind = "run" THEN t ELSE Entry(s).lastRun
  OBVIOUS
<1>. HIDE DEF e
<1>5. guard' \in [Session -> GuardEntry \cup {None}] /\ guard'[s] = e
  BY <1>2, <1>3
<1>6. \A r \in Session : r # s => guard'[r] = guard[r]
  BY <1>2
<1>7. guard[s] # None => Entry(s) = guard[s]
  BY DEF Entry
<1>. QED
  BY <1>2, <1>3, <1>4, <1>5, <1>6, <1>7 DEF MayStart

\* An entry that is no longer in use goes at once, if it has no cooldown, or
\* waits for its timer.
LEMMA CleanupFacts ==
  ASSUME NEW e \in GuardEntry, NEW t \in Nat
  PROVE  \/ e.lastRun = None /\ Cleanup(e, t) = None
         \/ /\ e.lastRun # None
            /\ Cleanup(e, t) \in GuardEntry /\ Cleanup(e, t) # None
            /\ ~Cleanup(e, t).active /\ Cleanup(e, t).timer # None
            /\ Cleanup(e, t).lastRun = e.lastRun
<1>1. CASE e.lastRun = None
  BY <1>1 DEF Cleanup
<1>2. CASE e.lastRun # None
  <2>. DEFINE rest == Cooldown - (t - e.lastRun)
              w == t + IF rest > 1 THEN rest ELSE 1
              c == [e EXCEPT !.active = FALSE, !.timer = w]
  <2>1. Cleanup(e, t) = c
    BY <1>2 DEF Cleanup
  <2>2. w \in Nat
    BY <1>2, GuardAssumption DEF GuardEntry
  <2>. HIDE DEF w
  <2>3. c \in GuardEntry /\ ~c.active /\ c.timer = w /\ c.lastRun = e.lastRun
    BY <2>2 DEF GuardEntry
  <2>. HIDE DEF c
  <2>4. c # None /\ c.timer # None
    BY <2>2, <2>3, GuardAssumption
  <2>. QED
    BY <1>2, <2>1, <2>3, <2>4
<1>. QED
  BY <1>1, <1>2

LEMMA ReleasesFacts ==
  ASSUME guard \in [Session -> GuardEntry \cup {None}], NEW s \in Session,
         NEW t \in Nat, Releases(s, t)
  PROVE  /\ guard' \in [Session -> GuardEntry \cup {None}]
         /\ guard[s] # None
         /\ \/ guard[s].lastRun = None /\ guard'[s] = None
            \/ /\ guard[s].lastRun # None
               /\ guard'[s] # None /\ ~guard'[s].active /\ guard'[s].timer # None
               /\ guard'[s].lastRun = guard[s].lastRun
         /\ \A r \in Session : r # s => guard'[r] = guard[r]
<1>. DEFINE c == Cleanup(guard[s], t)
<1>1. guard[s] # None /\ guard[s] \in GuardEntry /\ guard' = [guard EXCEPT ![s] = c]
  BY DEF Releases
<1>2. \/ guard[s].lastRun = None /\ c = None
      \/ /\ guard[s].lastRun # None /\ c \in GuardEntry
         /\ c # None /\ ~c.active /\ c.timer # None /\ c.lastRun = guard[s].lastRun
  BY <1>1, CleanupFacts
<1>. HIDE DEF c
<1>3. guard'[s] = c /\ \A r \in Session : r # s => guard'[r] = guard[r]
  BY <1>1
<1>4. guard' \in [Session -> GuardEntry \cup {None}]
  BY <1>1, <1>2
<1>. QED
  BY <1>1, <1>2, <1>3, <1>4

LEMMA TimerFacts ==
  ASSUME guard \in [Session -> GuardEntry \cup {None}], NEW s \in Session,
         NEW t \in Nat, TimerFires(s, t), guard[s].lastRun # None
  PROVE  /\ guard' \in [Session -> GuardEntry \cup {None}]
         /\ guard[s] # None /\ guard[s].timer # None
         /\ \/ t - guard[s].lastRun >= Cooldown /\ guard'[s] = None
            \/ /\ guard'[s] # None /\ ~guard'[s].active /\ guard'[s].timer # None
               /\ guard'[s].lastRun = guard[s].lastRun
         /\ \A r \in Session : r # s => guard'[r] = guard[r]
<1>. DEFINE c == Cleanup(guard[s], t)
            d == IF Expired(guard[s], t) THEN None ELSE c
<1>1. /\ guard[s] # None /\ guard[s].timer # None /\ guard[s] \in GuardEntry
      /\ guard' = [guard EXCEPT ![s] = d]
  BY DEF TimerFires
<1>2. /\ c \in GuardEntry
      /\ c # None /\ ~c.active /\ c.timer # None /\ c.lastRun = guard[s].lastRun
  BY <1>1, CleanupFacts
<1>. HIDE DEF c
<1>3. \/ t - guard[s].lastRun >= Cooldown /\ d = None
      \/ d = c
  BY DEF Expired
<1>. HIDE DEF d
<1>4. guard'[s] = d /\ \A r \in Session : r # s => guard'[r] = guard[r]
  BY <1>1
<1>5. guard' \in [Session -> GuardEntry \cup {None}]
  BY <1>1, <1>2, <1>3
<1>. QED
  BY <1>1, <1>2, <1>3, <1>4, <1>5

-----------------------------------------------------------------------------
(* What a step leaves alone *)

LEMMA LimiterSame == Limiter /\ UNCHANGED <<now, limiter>> => Limiter'
<1>. SUFFICES ASSUME Limiter, UNCHANGED <<now, limiter>> PROVE Limiter'
  OBVIOUS
<1>1. UNCHANGED <<now, store, memory, shared, granted, promise>>
  BY DEF limiter
<1>. QED
  BY <1>1, LimiterNext DEF Limiter

LEMMA LineSame == Line /\ UNCHANGED queueVars => Line' /\ Waiting' = Waiting /\ executing' = executing
BY DEF Line, Capacity, Waiting, queueVars

\* A request that goes on, or others that do, without one coming in or going out.
LEMMA GuardedSame ==
  ASSUME Guarded, UNCHANGED <<key, guard>>,
         \A q \in Request : /\ pc'[q] \in Inside <=> pc[q] \in Inside
                            /\ pc'[q] = "checking" => pc[q] = "checking"
  PROVE  Guarded'
BY DEF Guarded, SessionOf, EntriesCollected

LEMMA CoolSame == Cool /\ UNCHANGED <<now, guard, lastStart>> => Cool'
BY DEF Cool

LEMMA StampedSame ==
  ASSUME Stamped, UNCHANGED <<now, stamp>>,
         \A q \in Request : pc'[q] = "checking" => pc[q] = "checking"
  PROVE  Stamped'
BY DEF Stamped

-----------------------------------------------------------------------------
(* The steps of a request *)

LEMMA InsideFacts ==
  /\ "preparing" \in Inside /\ "queued" \in Inside /\ "executing" \in Inside
  /\ "recording" \in Inside
  /\ "idle" \notin Inside /\ "checking" \notin Inside /\ "done" \notin Inside
BY DEF Inside

\* A request leaves from outside the guard.
LEMMA LeavesOutside ==
  ASSUME Places, Guarded, NEW q \in Request, pc[q] \notin Inside, Leaves(q), UNCHANGED guard
  PROVE  /\ pc' = [pc EXCEPT ![q] = "done"] /\ pc'[q] = "done"
         /\ \A r \in Request : r # q => pc'[r] = pc[r] /\ key'[r] = key[r] /\ stamp'[r] = stamp[r]
         /\ Guarded'
<1>1. /\ pc' = [pc EXCEPT ![q] = "done"] /\ key' = [key EXCEPT ![q] = Null]
      /\ stamp' = [stamp EXCEPT ![q] = Null]
  BY DEF Leaves, Goes
<1>2. pc \in [Request -> Inside \cup {"idle", "checking", "done"}]
      /\ key \in [Request -> Key \cup {Null}]
  BY DEF Places, Guarded
<1>3. pc'[q] = "done" /\ \A r \in Request : r # q => pc'[r] = pc[r] /\ key'[r] = key[r]
  BY <1>1, <1>2
<1>4. key' \in [Request -> Key \cup {Null}]
  BY <1>1, <1>2
<1>5. \A r \in Request : /\ pc'[r] \in Inside <=> pc[r] \in Inside
                         /\ pc'[r] \in Inside \cup {"checking"} => r # q
  BY <1>3, InsideFacts
<1>6. \A r \in Request : pc'[r] \in Inside =>
        SessionOf(r)' = SessionOf(r) /\ pc[r] \in Inside
  BY <1>3, <1>5 DEF SessionOf
<1>7. \A r \in Request : pc[r] \in Inside =>
        SessionOf(r)' = SessionOf(r) /\ pc'[r] \in Inside
  BY <1>5, <1>6
<1>8. \A r \in Request : pc'[r] \in Inside \cup {"checking"} => key'[r] \in Key
  BY <1>3, <1>5 DEF Guarded
<1>9. \A r \in Request : pc'[r] \in Inside =>
        guard[SessionOf(r)'] # None /\ guard[SessionOf(r)'].active
  BY <1>6 DEF Guarded
<1>10. \A r, u \in Request :
         pc'[r] \in Inside /\ pc'[u] \in Inside /\ SessionOf(r)' = SessionOf(u)' => r = u
  BY <1>6 DEF Guarded
<1>11. \A s \in Session : guard[s] # None /\ guard[s].active =>
         \E r \in Request : pc'[r] \in Inside /\ SessionOf(r)' = s
  <2>. TAKE s \in Session
  <2>. HAVE guard[s] # None /\ guard[s].active
  <2>1. PICK r \in Request : pc[r] \in Inside /\ SessionOf(r) = s
    BY DEF Guarded
  <2>. QED
    BY <1>7, <2>1
<1>12. Guarded'
  BY <1>4, <1>8, <1>9, <1>10, <1>11 DEF Guarded, EntriesCollected
<1>13. \A r \in Request : r # q => stamp'[r] = stamp[r]
  BY <1>1
<1>. QED
  BY <1>1, <1>3, <1>12, <1>13

\* Outside the guard nobody is in the line.
LEMMA OutsideLine ==
  ASSUME Places, NEW q \in Request, pc[q] \notin Inside
  PROVE  q \notin executing /\ q \notin Waiting
BY InsideFacts DEF Places

LEMMA PlacesMoves ==
  ASSUME Places, NEW q \in Request, pc[q] \notin Inside,
         NEW place \in {"preparing", "checking", "done"},
         pc' = [pc EXCEPT ![q] = place], Waiting' = Waiting, executing' = executing
  PROVE  Places'
<1>1. pc' \in [Request -> Inside \cup {"idle", "checking", "done"}]
  BY InsideFacts DEF Places
<1>2. pc'[q] = place /\ \A r \in Request : r # q => pc'[r] = pc[r]
  BY DEF Places
<1>3. q \notin executing /\ q \notin Waiting
  BY OutsideLine
<1>. QED
  BY <1>1, <1>2, <1>3 DEF Places

LEMMA AsksInv ==
  ASSUME Inv, NEW q \in Request, NEW k \in Key, Asks(q, k)
  PROVE  Inv'
<1>1. /\ pc[q] = "idle" /\ pc' = [pc EXCEPT ![q] = "checking"]
      /\ key' = [key EXCEPT ![q] = k] /\ stamp' = [stamp EXCEPT ![q] = now]
      /\ UNCHANGED <<now, limiter, queueVars, guard, lastStart>>
  BY DEF Asks, Comes, Goes
<1>2. Line' /\ Waiting' = Waiting /\ executing' = executing
  BY <1>1, LineSame DEF Inv
<1>3. Limiter' /\ Cool'
  BY <1>1, LimiterSame, CoolSame DEF Inv
<1>4. Places'
  BY <1>1, <1>2, InsideFacts, PlacesMoves DEF Inv
<1>5. /\ pc'[q] = "checking" /\ key'[q] = k /\ stamp'[q] = now
      /\ \A r \in Request : r # q =>
           pc'[r] = pc[r] /\ key'[r] = key[r] /\ stamp'[r] = stamp[r]
      /\ key' \in [Request -> Key \cup {Null}] /\ stamp' \in [Request -> Nat \cup {Null}]
  BY <1>1 DEF Inv, Places, Guarded, Stamped, Cool
<1>6. Guarded'
  <2>1. \A r \in Request : /\ pc'[r] \in Inside <=> pc[r] \in Inside
                           /\ pc[r] \in Inside => SessionOf(r)' = SessionOf(r)
    BY <1>1, <1>5, InsideFacts DEF SessionOf
  <2>2. \A r \in Request : pc'[r] \in Inside \cup {"checking"} => key'[r] \in Key
    BY <1>5 DEF Inv, Guarded
  <2>3. UNCHANGED guard /\ Guarded
    BY <1>1 DEF Inv
  <2>4. \A r \in Request : pc'[r] \in Inside =>
          guard[SessionOf(r)'] # None /\ guard[SessionOf(r)'].active
    BY <2>1, <2>3 DEF Guarded
  <2>5. \A r, u \in Request :
          pc'[r] \in Inside /\ pc'[u] \in Inside /\ SessionOf(r)' = SessionOf(u)' => r = u
    BY <2>1, <2>3 DEF Guarded
  <2>6. \A s \in Session : guard[s] # None /\ guard[s].active =>
          \E r \in Request : pc'[r] \in Inside /\ SessionOf(r)' = s
    <3>. TAKE s \in Session
    <3>. HAVE guard[s] # None /\ guard[s].active
    <3>1. PICK r \in Request : pc[r] \in Inside /\ SessionOf(r) = s
      BY <2>3 DEF Guarded
    <3>. QED
      BY <2>1, <3>1
  <2>. QED
    BY <1>5, <2>2, <2>3, <2>4, <2>5, <2>6 DEF Guarded, EntriesCollected
<1>7. Stamped'
  <2>1. now \in Nat /\ MaxLatency \in Nat /\ now' = now
    BY <1>1, Constants DEF Inv, Cool
  <2>2. ASSUME NEW r \in Request, pc'[r] = "checking"
        PROVE  stamp'[r] \in Nat /\ stamp'[r] <= now /\ now <= stamp'[r] + MaxLatency
    <3>1. CASE r = q
      BY <1>5, <2>1, <3>1
    <3>2. CASE r # q
      BY <1>5, <2>2, <3>2 DEF Inv, Stamped
    <3>. QED
      BY <3>1, <3>2
  <2>. QED
    BY <1>5, <2>1, <2>2 DEF Stamped
<1>. QED
  BY <1>2, <1>3, <1>4, <1>6, <1>7 DEF Inv

\* A request that was let through passes the guard.
LEMMA EntersInv ==
  ASSUME Inv, NEW q \in Request, pc[q] \in {"idle", "checking"}, NEW k \in Key,
         NEW t \in Nat, t <= now, store # "memory" => now <= t + MaxLatency, Enters(q, k, t)
  PROVE  Inv'
<1>. DEFINE s == k[2]
<1>1. /\ Consume(k, t, TRUE) /\ Starts(s, k[1], now)
      /\ pc' = [pc EXCEPT ![q] = "preparing"] /\ key' = [key EXCEPT ![q] = k]
      /\ stamp' = [stamp EXCEPT ![q] = Null]
      /\ lastStart' = IF k[1] = "run" THEN [lastStart EXCEPT ![s] = now] ELSE lastStart
      /\ UNCHANGED queueVars
  BY DEF Enters, Goes
<1>2. now' = now /\ now \in Nat /\ s \in Session
  BY <1>1, Keys DEF Consume, Inv, Cool
<1>3. Limiter'
  <2>1. Limiter /\ TRUE \in BOOLEAN
    BY DEF Inv
  <2>. QED
    BY <1>1, <2>1, ConsumeStep
<1>4. Line' /\ Waiting' = Waiting /\ executing' = executing
  BY <1>1, LineSame DEF Inv
<1>5. pc[q] \notin Inside
  BY InsideFacts
<1>6. Places'
  BY <1>1, <1>4, <1>5, PlacesMoves DEF Inv
<1>7. /\ guard' \in [Session -> GuardEntry \cup {None}]
      /\ guard'[s] # None /\ guard'[s].active /\ guard'[s].timer = None
      /\ ~(guard[s] # None /\ guard[s].active)
      /\ k[1] = "run" => guard'[s].lastRun = now
      /\ k[1] # "run" /\ guard[s] # None => guard'[s].lastRun = guard[s].lastRun
      /\ \A r \in Session : r # s => guard'[r] = guard[r]
  <2>1. guard \in [Session -> GuardEntry \cup {None}]
    BY DEF Inv, Guarded
  <2>. HIDE DEF s
  <2>. QED
    BY <1>1, <1>2, <2>1, StartsFacts
<1>8. /\ pc'[q] = "preparing" /\ key'[q] = k /\ stamp'[q] = Null
      /\ \A r \in Request : r # q =>
           pc'[r] = pc[r] /\ key'[r] = key[r] /\ stamp'[r] = stamp[r]
      /\ key' \in [Request -> Key \cup {Null}] /\ stamp' \in [Request -> Nat \cup {Null}]
  BY <1>1 DEF Inv, Places, Guarded, Stamped
<1>9. Guarded'
  <2>1. Guarded
    BY DEF Inv
  <2>2. SessionOf(q)' = s /\ \A r \in Request : r # q => SessionOf(r)' = SessionOf(r)
    BY <1>8 DEF SessionOf
  <2>. HIDE DEF s
  <2>3. \A r \in Request : r # q /\ pc'[r] \in Inside => pc[r] \in Inside /\ SessionOf(r) # s
    BY <1>7, <1>8, <2>1 DEF Guarded
  <2>4. \A r \in Request : pc'[r] \in Inside \cup {"checking"} => key'[r] \in Key
    BY <1>8, <2>1 DEF Guarded
  <2>5. ASSUME NEW r \in Request, pc'[r] \in Inside
        PROVE  guard'[SessionOf(r)'] # None /\ guard'[SessionOf(r)'].active
    <3>1. CASE r = q
      BY <1>7, <2>2, <3>1
    <3>2. CASE r # q
      <4>1. /\ guard[SessionOf(r)] # None /\ guard[SessionOf(r)].active
            /\ SessionOf(r) # s /\ key[r] \in Key
        BY <2>1, <2>3, <2>5, <3>2 DEF Guarded
      <4>2. SessionOf(r) \in Session
        BY <4>1, Keys DEF SessionOf
      <4>. QED
        BY <1>7, <2>2, <3>2, <4>1, <4>2
    <3>. QED
      BY <3>1, <3>2
  <2>6. \A r, u \in Request :
          pc'[r] \in Inside /\ pc'[u] \in Inside /\ SessionOf(r)' = SessionOf(u)' => r = u
    BY <2>1, <2>2, <2>3 DEF Guarded
  <2>7. ASSUME NEW x \in Session, guard'[x] # None, guard'[x].active
        PROVE  \E r \in Request : pc'[r] \in Inside /\ SessionOf(r)' = x
    <3>1. CASE x = s
      BY <1>8, <2>2, <3>1, InsideFacts
    <3>2. CASE x # s
      <4>1. PICK r \in Request : pc[r] \in Inside /\ SessionOf(r) = x
        BY <1>7, <2>1, <2>7, <3>2 DEF Guarded
      <4>. QED
        BY <1>5, <1>8, <2>2, <4>1
    <3>. QED
      BY <3>1, <3>2
  <2>8. EntriesCollected'
    <3>. SUFFICES ASSUME NEW x \in Session, guard'[x] # None
                  PROVE  guard'[x].active <=> guard'[x].timer = None
      BY DEF EntriesCollected
    <3>. QED
      BY <1>7, <2>1 DEF Guarded, EntriesCollected
  <2>9. \A x \in Session :
          guard'[x] # None /\ guard'[x].timer # None => guard'[x].lastRun # None
    BY <1>7, <2>1 DEF Guarded
  <2>. QED
    BY <1>7, <1>8, <2>4, <2>5, <2>6, <2>7, <2>8, <2>9 DEF Guarded
<1>10. Cool'
  <2>1. lastStart \in [Session -> Nat \cup {None}] /\ Cool
    BY DEF Inv, Cool
  <2>2. CASE k[1] = "run"
    <3>1. lastStart' = [lastStart EXCEPT ![s] = now]
      BY <1>1, <2>2
    <3>. HIDE DEF s
    <3>2. /\ lastStart' \in [Session -> Nat \cup {None}] /\ lastStart'[s] = now
          /\ \A x \in Session : x # s => lastStart'[x] = lastStart[x]
      BY <1>2, <2>1, <3>1
    <3>. QED
      BY <1>2, <1>7, <2>1, <2>2, <3>2 DEF Cool
  <2>3. CASE k[1] # "run"
    <3>1. lastStart' = lastStart
      BY <1>1, <2>3
    <3>. HIDE DEF s
    <3>. QED
      BY <1>2, <1>7, <2>1, <2>3, <3>1 DEF Cool
  <2>. QED
    BY <2>2, <2>3
<1>11. Stamped'
  BY <1>2, <1>8 DEF Inv, Stamped
<1>. QED
  BY <1>3, <1>4, <1>6, <1>9, <1>10, <1>11 DEF Inv

\* A request that the store or the guard keeps out.
LEMMA IsRefusedInv ==
  ASSUME Inv, NEW q \in Request, pc[q] \in {"idle", "checking"}, NEW k \in Key,
         NEW t \in Nat, t <= now, store # "memory" => now <= t + MaxLatency,
         IsRefused(q, k, t)
  PROVE  Inv'
<1>1. /\ \/ Consume(k, t, TRUE) \/ Consume(k, t, FALSE) \/ StoreFails(k, t)
      /\ Leaves(q) /\ UNCHANGED <<queueVars, guard, lastStart>>
  BY DEF IsRefused
<1>2. Limiter /\ TRUE \in BOOLEAN /\ FALSE \in BOOLEAN
  BY DEF Inv
<1>3. Limiter' /\ now' = now
  <2>1. CASE Consume(k, t, TRUE)
    BY <1>2, <2>1, ConsumeStep DEF Consume
  <2>2. CASE Consume(k, t, FALSE)
    BY <1>2, <2>2, ConsumeStep DEF Consume
  <2>3. CASE StoreFails(k, t)
    BY <1>2, <2>3, StoreFailsStep DEF StoreFails
  <2>. QED
    BY <1>1, <2>1, <2>2, <2>3
<1>4. Line' /\ Waiting' = Waiting /\ executing' = executing
  BY <1>1, LineSame DEF Inv
<1>5. pc[q] \notin Inside
  BY InsideFacts
<1>6. /\ pc' = [pc EXCEPT ![q] = "done"] /\ pc'[q] = "done"
      /\ \A r \in Request : r # q => pc'[r] = pc[r] /\ stamp'[r] = stamp[r]
      /\ Guarded'
  BY <1>1, <1>5, LeavesOutside DEF Inv
<1>7. Places'
  BY <1>4, <1>5, <1>6, PlacesMoves DEF Inv
<1>8. Cool'
  BY <1>1, <1>3, CoolSame DEF Inv
<1>9. Stamped'
  <2>1. stamp' \in [Request -> Nat \cup {Null}]
    BY <1>1 DEF Leaves, Inv, Stamped
  <2>. QED
    BY <1>3, <1>6, <2>1 DEF Inv, Stamped
<1>. QED
  BY <1>3, <1>4, <1>6, <1>7, <1>8, <1>9 DEF Inv

\* Inside the guard a request moves on, in the line and to its result.
LEMMA MovesInv ==
  ASSUME Inv, UNCHANGED <<key, stamp, now, limiter, guard, lastStart>>, Line', Places',
         \A q \in Request : /\ pc'[q] \in Inside <=> pc[q] \in Inside
                            /\ pc'[q] = "checking" => pc[q] = "checking"
  PROVE  Inv'
<1>1. Limiter' /\ Cool'
  BY LimiterSame, CoolSame DEF Inv
<1>2. Guarded'
  BY GuardedSame DEF Inv
<1>3. Stamped'
  BY StampedSame DEF Inv
<1>. QED
  BY <1>1, <1>2, <1>3 DEF Inv

LEMMA IsPreparedInv ==
  ASSUME Inv, NEW q \in Request, IsPrepared(q)
  PROVE  Inv'
<1>1. /\ pc[q] = "preparing" /\ UNCHANGED <<key, stamp, now, limiter, guard, lastStart>>
      /\ \/ RunsNow(q) /\ pc' = [pc EXCEPT ![q] = "executing"]
         \/ Waits(q) /\ pc' = [pc EXCEPT ![q] = "queued"]
         \/ UNCHANGED queueVars /\ pc' = [pc EXCEPT ![q] = "recording"]
  BY DEF IsPrepared, Goes, TurnedAway
<1>2. q \notin executing /\ q \notin Waiting
  BY <1>1 DEF Inv, Places
<1>3. PICK place \in {"executing", "queued", "recording"} :
        /\ pc' = [pc EXCEPT ![q] = place] /\ Line'
        /\ executing' = IF place = "executing" THEN executing \cup {q} ELSE executing
        /\ Waiting' = IF place = "queued" THEN Waiting \cup {q} ELSE Waiting
  <2>1. CASE RunsNow(q) /\ pc' = [pc EXCEPT ![q] = "executing"]
    BY <1>2, <2>1, RunsNowLine DEF Inv
  <2>2. CASE Waits(q) /\ pc' = [pc EXCEPT ![q] = "queued"]
    BY <1>2, <2>2, WaitsLine DEF Inv
  <2>3. CASE UNCHANGED queueVars /\ pc' = [pc EXCEPT ![q] = "recording"]
    BY <2>3, LineSame DEF Inv
  <2>. QED
    BY <1>1, <2>1, <2>2, <2>3
<1>4. /\ pc'[q] = place /\ \A r \in Request : r # q => pc'[r] = pc[r]
      /\ pc' \in [Request -> Inside \cup {"idle", "checking", "done"}]
  BY <1>3, InsideFacts DEF Inv, Places
<1>5. Places'
  BY <1>2, <1>3, <1>4 DEF Inv, Places
<1>6. \A r \in Request : /\ pc'[r] \in Inside <=> pc[r] \in Inside
                         /\ pc'[r] = "checking" => pc[r] = "checking"
  BY <1>1, <1>3, <1>4, InsideFacts
<1>. QED
  BY <1>1, <1>3, <1>5, <1>6, MovesInv

LEMMA ExecutedInv ==
  ASSUME Inv, NEW q \in Request, Executed(q)
  PROVE  Inv'
<1>1. /\ pc[q] = "executing" /\ Finishes(q)
      /\ pc' = [r \in Request |-> IF r = q THEN "recording"
                                  ELSE IF r \in executing' THEN "executing" ELSE pc[r]]
      /\ UNCHANGED <<key, stamp, now, limiter, guard, lastStart>>
  BY DEF Executed
<1>2. /\ Line' /\ q \in executing
      /\ \/ executing' = executing \ {q} /\ Waiting' = Waiting
         \/ \E h \in Waiting : /\ executing' = (executing \ {q}) \cup {h}
                               /\ Waiting' = Waiting \ {h}
  BY <1>1, FinishesLine DEF Inv
<1>3. /\ pc'[q] = "recording"
      /\ \A r \in Request : r # q /\ r \in executing' => pc'[r] = "executing"
      /\ \A r \in Request : r # q /\ r \notin executing' => pc'[r] = pc[r]
  BY <1>1
<1>4. /\ \A r \in Request : pc[r] = "executing" <=> r \in executing
      /\ \A r \in Request : pc[r] = "queued" <=> r \in Waiting
      /\ pc \in [Request -> Inside \cup {"idle", "checking", "done"}]
  BY DEF Inv, Places
<1>5. q \notin executing' /\ q \notin Waiting'
  BY <1>1, <1>2, <1>4
<1>6. ASSUME NEW r \in Request
      PROVE  /\ pc'[r] \in Inside \cup {"idle", "checking", "done"}
             /\ pc'[r] = "executing" <=> r \in executing'
             /\ pc'[r] = "queued" <=> r \in Waiting'
             /\ pc'[r] \in Inside <=> pc[r] \in Inside
             /\ pc'[r] = "checking" => pc[r] = "checking"
  <2>1. CASE r = q
    BY <1>1, <1>3, <1>5, <2>1, InsideFacts
  <2>2. CASE r # q /\ r \in executing'
    <3>1. pc'[r] = "executing" /\ pc[r] \in {"executing", "queued"} /\ r \notin Waiting'
      BY <1>2, <1>3, <1>4, <2>2
    <3>. QED
      BY <2>2, <3>1, InsideFacts
  <2>3. CASE r # q /\ r \notin executing'
    <3>1. /\ pc'[r] = pc[r] /\ r \notin executing /\ (r \in Waiting' <=> r \in Waiting)
      BY <1>2, <1>3, <1>4, <2>3
    <3>. QED
      BY <1>4, <2>3, <3>1
  <2>. QED
    BY <2>1, <2>2, <2>3
<1>7. Places'
  <2>1. pc' \in [Request -> Inside \cup {"idle", "checking", "done"}]
    BY <1>1, <1>6
  <2>. QED
    BY <1>6, <2>1 DEF Places
<1>. QED
  BY <1>1, <1>2, <1>6, <1>7, MovesInv

LEMMA WaitedTooLongInv ==
  ASSUME Inv, NEW q \in Request, WaitedTooLong(q)
  PROVE  Inv'
<1>1. /\ pc[q] = "queued" /\ TimesOut(q) /\ pc' = [pc EXCEPT ![q] = "recording"]
      /\ UNCHANGED <<key, stamp, now, limiter, guard, lastStart>>
  BY DEF WaitedTooLong, Goes
<1>2. Line' /\ executing' = executing /\ q \in Waiting /\ Waiting' = Waiting \ {q}
  BY <1>1, TimesOutLine DEF Inv
<1>3. /\ pc'[q] = "recording" /\ \A r \in Request : r # q => pc'[r] = pc[r]
      /\ pc' \in [Request -> Inside \cup {"idle", "checking", "done"}]
  BY <1>1, InsideFacts DEF Inv, Places
<1>4. q \notin executing
  BY <1>1 DEF Inv, Places
<1>5. Places'
  BY <1>2, <1>3, <1>4 DEF Inv, Places
<1>6. \A r \in Request : /\ pc'[r] \in Inside <=> pc[r] \in Inside
                         /\ pc'[r] = "checking" => pc[r] = "checking"
  BY <1>1, <1>3, InsideFacts
<1>. QED
  BY <1>1, <1>2, <1>5, <1>6, MovesInv

LEMMA EndsInv ==
  ASSUME Inv, NEW q \in Request, Ends(q)
  PROVE  Inv'
<1>. DEFINE s == SessionOf(q)
<1>1. /\ pc[q] \in {"preparing", "recording"} /\ Releases(s, now)
      /\ pc' = [pc EXCEPT ![q] = "done"] /\ key' = [key EXCEPT ![q] = Null]
      /\ stamp' = [stamp EXCEPT ![q] = Null]
      /\ UNCHANGED <<now, limiter, queueVars, lastStart>>
  BY DEF Ends, Leaves, Goes
<1>2. Guarded /\ pc[q] \in Inside /\ now \in Nat
  BY <1>1, InsideFacts DEF Inv, Cool
<1>3. s \in Session
  BY <1>2, Keys DEF Guarded, SessionOf
<1>4. Limiter'
  BY <1>1, LimiterSame DEF Inv
<1>5. Line' /\ Waiting' = Waiting /\ executing' = executing
  BY <1>1, LineSame DEF Inv
<1>6. q \notin executing /\ q \notin Waiting
  BY <1>1 DEF Inv, Places
<1>7. /\ pc'[q] = "done" /\ key'[q] = Null /\ stamp'[q] = Null
      /\ \A r \in Request : r # q =>
           pc'[r] = pc[r] /\ key'[r] = key[r] /\ stamp'[r] = stamp[r]
      /\ pc' \in [Request -> Inside \cup {"idle", "checking", "done"}]
      /\ key' \in [Request -> Key \cup {Null}] /\ stamp' \in [Request -> Nat \cup {Null}]
  BY <1>1 DEF Inv, Places, Guarded, Stamped
<1>8. Places'
  BY <1>5, <1>6, <1>7 DEF Inv, Places
<1>9. /\ guard' \in [Session -> GuardEntry \cup {None}]
      /\ guard[s] # None
      /\ \/ guard[s].lastRun = None /\ guard'[s] = None
         \/ /\ guard[s].lastRun # None
            /\ guard'[s] # None /\ ~guard'[s].active /\ guard'[s].timer # None
            /\ guard'[s].lastRun = guard[s].lastRun
      /\ \A r \in Session : r # s => guard'[r] = guard[r]
  <2>1. guard \in [Session -> GuardEntry \cup {None}]
    BY <1>2 DEF Guarded
  <2>. HIDE DEF s
  <2>. QED
    BY <1>1, <1>2, <1>3, <2>1, ReleasesFacts
<1>10. Guarded'
  <2>1. \A r \in Request : pc'[r] \in Inside \cup {"checking"} => r # q
    BY <1>7, InsideFacts
  <2>2. \A r \in Request : r # q => SessionOf(r)' = SessionOf(r)
    BY <1>7 DEF SessionOf
  <2>3. \A r \in Request : r # q /\ pc[r] \in Inside => SessionOf(r) # s
    BY <1>2 DEF Guarded
  <2>. HIDE DEF s
  <2>4. \A r \in Request : pc'[r] \in Inside \cup {"checking"} => key'[r] \in Key
    BY <1>2, <1>7, <2>1 DEF Guarded
  <2>5. ASSUME NEW r \in Request, pc'[r] \in Inside
        PROVE  guard'[SessionOf(r)'] # None /\ guard'[SessionOf(r)'].active
    <3>1. /\ guard[SessionOf(r)] # None /\ guard[SessionOf(r)].active
          /\ SessionOf(r) # s /\ key[r] \in Key
      BY <1>2, <1>7, <2>1, <2>3, <2>5 DEF Guarded
    <3>2. SessionOf(r) \in Session
      BY <3>1, Keys DEF SessionOf
    <3>. QED
      BY <1>9, <2>1, <2>2, <2>5, <3>1, <3>2
  <2>6. \A r, u \in Request :
          pc'[r] \in Inside /\ pc'[u] \in Inside /\ SessionOf(r)' = SessionOf(u)' => r = u
    BY <1>2, <1>7, <2>1, <2>2 DEF Guarded
  <2>7. ASSUME NEW x \in Session, guard'[x] # None, guard'[x].active
        PROVE  \E r \in Request : pc'[r] \in Inside /\ SessionOf(r)' = x
    <3>1. x # s
      BY <1>9, <2>7
    <3>2. PICK r \in Request : pc[r] \in Inside /\ SessionOf(r) = x
      BY <1>2, <1>9, <2>7, <3>1 DEF Guarded
    <3>3. r # q
      BY <3>1, <3>2 DEF s
    <3>. QED
      BY <1>7, <2>2, <3>2, <3>3
  <2>8. EntriesCollected'
    <3>. SUFFICES ASSUME NEW x \in Session, guard'[x] # None
                  PROVE  guard'[x].active <=> guard'[x].timer = None
      BY DEF EntriesCollected
    <3>. QED
      BY <1>2, <1>9 DEF Guarded, EntriesCollected
  <2>9. \A x \in Session :
          guard'[x] # None /\ guard'[x].timer # None => guard'[x].lastRun # None
    BY <1>2, <1>9 DEF Guarded
  <2>. QED
    BY <1>7, <1>9, <2>4, <2>5, <2>6, <2>7, <2>8, <2>9 DEF Guarded
<1>11. Cool'
  <2>. HIDE DEF s
  <2>. QED
    BY <1>1, <1>9 DEF Inv, Cool
<1>12. Stamped'
  BY <1>1, <1>7 DEF Inv, Stamped
<1>. QED
  BY <1>4, <1>5, <1>8, <1>10, <1>11, <1>12 DEF Inv

LEMMA CollectsInv ==
  ASSUME Inv, NEW s \in Session, Collects(s)
  PROVE  Inv'
<1>1. /\ TimerFires(s, now) /\ UNCHANGED <<now, limiter, queueVars, requests, lastStart>>
      /\ UNCHANGED <<pc, key, stamp>>
  BY DEF Collects, requests
<1>2. Guarded /\ now \in Nat /\ guard \in [Session -> GuardEntry \cup {None}]
  BY DEF Inv, Cool, Guarded
<1>3. guard[s] # None /\ guard[s].timer # None /\ guard[s].lastRun # None /\ ~guard[s].active
  BY <1>1, <1>2 DEF TimerFires, Guarded, EntriesCollected
<1>4. /\ guard' \in [Session -> GuardEntry \cup {None}]
      /\ \/ now - guard[s].lastRun >= Cooldown /\ guard'[s] = None
         \/ /\ guard'[s] # None /\ ~guard'[s].active /\ guard'[s].timer # None
            /\ guard'[s].lastRun = guard[s].lastRun
      /\ \A r \in Session : r # s => guard'[r] = guard[r]
  BY <1>1, <1>2, <1>3, TimerFacts
<1>5. Limiter'
  BY <1>1, LimiterSame DEF Inv
<1>6. Line' /\ Waiting' = Waiting /\ executing' = executing
  BY <1>1, LineSame DEF Inv
<1>7. Places'
  BY <1>1, <1>6 DEF Inv, Places
<1>8. Guarded'
  <2>1. ASSUME NEW r \in Request, pc[r] \in Inside
        PROVE  guard'[SessionOf(r)] # None /\ guard'[SessionOf(r)].active
    <3>1. /\ guard[SessionOf(r)] # None /\ guard[SessionOf(r)].active /\ key[r] \in Key
      BY <1>2, <2>1 DEF Guarded
    <3>2. SessionOf(r) \in Session /\ SessionOf(r) # s
      BY <1>3, <3>1, Keys DEF SessionOf
    <3>. QED
      BY <1>4, <3>1, <3>2
  <2>2. \A r \in Request : SessionOf(r)' = SessionOf(r) /\ pc'[r] = pc[r] /\ key' = key
    BY <1>1 DEF SessionOf
  <2>3. ASSUME NEW x \in Session, guard'[x] # None, guard'[x].active
        PROVE  \E r \in Request : pc[r] \in Inside /\ SessionOf(r) = x
    BY <1>2, <1>4, <2>3 DEF Guarded
  <2>4. EntriesCollected'
    <3>. SUFFICES ASSUME NEW x \in Session, guard'[x] # None
                  PROVE  guard'[x].active <=> guard'[x].timer = None
      BY DEF EntriesCollected
    <3>. QED
      BY <1>2, <1>4 DEF Guarded, EntriesCollected
  <2>5. \A x \in Session :
          guard'[x] # None /\ guard'[x].timer # None => guard'[x].lastRun # None
    BY <1>2, <1>3, <1>4 DEF Guarded
  <2>6. /\ key' \in [Request -> Key \cup {Null}]
        /\ \A q \in Request : pc'[q] \in Inside \cup {"checking"} => key'[q] \in Key
        /\ \A q, r \in Request :
             pc'[q] \in Inside /\ pc'[r] \in Inside /\ SessionOf(q)' = SessionOf(r)' => q = r
    BY <1>1, <1>2, <2>2 DEF Guarded
  <2>7. \A r \in Request : pc'[r] \in Inside =>
          guard'[SessionOf(r)'] # None /\ guard'[SessionOf(r)'].active
    BY <2>1, <2>2
  <2>8. \A x \in Session : guard'[x] # None /\ guard'[x].active =>
          \E r \in Request : pc'[r] \in Inside /\ SessionOf(r)' = x
    <3>. TAKE x \in Session
    <3>. HAVE guard'[x] # None /\ guard'[x].active
    <3>1. PICK r \in Request : pc[r] \in Inside /\ SessionOf(r) = x
      BY <2>3
    <3>. QED
      BY <2>2, <3>1
  <2>. QED
    BY <1>4, <2>4, <2>5, <2>6, <2>7, <2>8 DEF Guarded
<1>9. Cool'
  BY <1>1, <1>4 DEF Inv, Cool
<1>10. Stamped'
  BY <1>1, StampedSame DEF Inv
<1>. QED
  BY <1>5, <1>6, <1>7, <1>8, <1>9, <1>10 DEF Inv

LEMMA PassingInv ==
  ASSUME Inv, Passing
  PROVE  Inv'
<1>1. /\ \A q \in Request : pc[q] = "checking" => now - stamp[q] < MaxLatency
      /\ Tick /\ now' = now + 1
      /\ UNCHANGED <<queueVars, guard, pc, key, stamp, lastStart>>
  BY DEF Passing, Tick, requests
<1>2. Limiter'
  BY <1>1, TickStep DEF Inv
<1>3. Line' /\ Waiting' = Waiting /\ executing' = executing
  BY <1>1, LineSame DEF Inv
<1>4. Places'
  BY <1>1, <1>3 DEF Inv, Places
<1>5. Guarded'
  BY <1>1, GuardedSame DEF Inv
<1>6. Cool'
  BY <1>1, GuardAssumption DEF Inv, Cool
<1>7. Stamped'
  <2>1. now \in Nat /\ MaxLatency \in Nat
    BY Constants DEF Inv, Cool
  <2>. QED
    BY <1>1, <2>1 DEF Inv, Stamped
<1>. QED
  BY <1>2, <1>3, <1>4, <1>5, <1>6, <1>7 DEF Inv

LEMMA UnchangedInv == Inv /\ UNCHANGED vars => Inv'
<1>. SUFFICES ASSUME Inv, UNCHANGED vars PROVE Inv'
  OBVIOUS
<1>1. UNCHANGED <<now, limiter, queueVars, guard, pc, key, stamp, lastStart>>
  BY DEF vars, requests
<1>2. Line' /\ Waiting' = Waiting /\ executing' = executing
  BY <1>1, LineSame DEF Inv
<1>3. Places'
  BY <1>1, <1>2 DEF Inv, Places
<1>. QED
  BY <1>1, <1>2, <1>3, MovesInv

LEMMA InitInv == Init => Inv
<1>. SUFFICES ASSUME Init PROVE Inv
  OBVIOUS
<1>1. Limiter
  BY LimiterStarts DEF Init
<1>2. Line /\ Waiting = {} /\ executing = {}
  <2>1. maxConcurrent \in Int /\ activeCount = 0 /\ queue = <<>> /\ executing = {}
    BY QueueAssumption DEF Init, QueueInit
  <2>2. IsFiniteSet({}) /\ Cardinality({}) = 0
    BY FS_EmptySet
  <2>3. <<>> \in Seq(Request) /\ 1 .. Len(<<>>) = {}
    BY EmptySeq
  <2>. QED
    BY <2>1, <2>2, <2>3 DEF Line, Capacity, Waiting
<1>3. Places
  BY <1>2, InsideFacts DEF Init, Places
<1>4. Guarded
  BY InsideFacts DEF Init, GuardInit, Guarded, EntriesCollected
<1>5. Cool
  BY DEF Init, LimiterInit, Cool
<1>6. Stamped
  BY DEF Init, Stamped
<1>. QED
  BY <1>1, <1>2, <1>3, <1>4, <1>5, <1>6 DEF Inv

\* The answer to a request that asked a shared store comes in time.
LEMMA AnsweredInTime ==
  ASSUME Inv, NEW q \in Request, pc[q] = "checking"
  PROVE  /\ key[q] \in Key /\ stamp[q] \in Nat /\ stamp[q] <= now
         /\ now <= stamp[q] + MaxLatency
BY DEF Inv, Guarded, Stamped

LEMMA NextInv ==
  ASSUME Inv, [Next]_vars
  PROVE  Inv'
<1>1. ASSUME NEW q \in Request, NEW k \in Key, Arrives(q, k) PROVE Inv'
  <2>1. /\ pc[q] = "idle" /\ store = "memory" /\ now \in Nat /\ now <= now
        /\ Enters(q, k, now) \/ IsRefused(q, k, now)
    BY <1>1 DEF Arrives, Comes, Inv, Cool
  <2>2. CASE Enters(q, k, now)
    BY <2>1, <2>2, EntersInv
  <2>3. CASE IsRefused(q, k, now)
    BY <2>1, <2>3, IsRefusedInv
  <2>. QED
    BY <2>1, <2>2, <2>3
<1>2. ASSUME NEW q \in Request, IsAnswered(q) PROVE Inv'
  <2>1. /\ pc[q] = "checking"
        /\ Enters(q, key[q], stamp[q]) \/ IsRefused(q, key[q], stamp[q])
    BY <1>2 DEF IsAnswered
  <2>2. key[q] \in Key /\ stamp[q] \in Nat /\ stamp[q] <= now /\ now <= stamp[q] + MaxLatency
    BY <2>1, AnsweredInTime
  <2>3. CASE Enters(q, key[q], stamp[q])
    BY <2>1, <2>2, <2>3, EntersInv
  <2>4. CASE IsRefused(q, key[q], stamp[q])
    BY <2>1, <2>2, <2>4, IsRefusedInv
  <2>. QED
    BY <2>1, <2>3, <2>4
<1>3. CASE Next
  BY <1>1, <1>2, <1>3, AsksInv, IsPreparedInv, ExecutedInv, WaitedTooLongInv, EndsInv,
     CollectsInv, PassingInv, UnchangedInv DEF Next, Quiet
<1>4. CASE UNCHANGED vars
  BY <1>4, UnchangedInv
<1>. QED
  BY <1>3, <1>4

-----------------------------------------------------------------------------
(* The theorems *)

\* The parts of the invariant hold in every reachable state.
THEOREM Invariance == Spec => []Inv
<1>1. Init => Inv
  BY InitInv
<1>2. Inv /\ [Next]_vars => Inv'
  BY NextInv
<1>. QED
  BY <1>1, <1>2, PTL DEF Spec

\* The state has its type: the place of every request, the counter of the slots,
\* the line and the executions.
THEOREM TypeCorrect == Spec => []TypeOK
<1>1. Inv => TypeOK
  BY DEF Inv, Line, Places, TypeOK
<1>. QED
  BY <1>1, Invariance, PTL

\* The counter of the concurrency queue is exact, within the capacity, and nobody
\* waits for a free slot, however tasks end and waits time out.
THEOREM SlotsAreExact == Spec => []SlotsExact
<1>1. Inv => SlotsExact
  BY LineExact DEF Inv
<1>. QED
  BY <1>1, Invariance, PTL

LEMMA AtMostOne ==
  ASSUME NEW S, \A x, y \in S : x = y
  PROVE  Cardinality(S) <= 1
<1>1. CASE S = {}
  BY <1>1, FS_EmptySet
<1>2. CASE S # {}
  <2>1. PICK x \in S : S = {x}
    BY <1>2
  <2>2. Cardinality({x}) = 1
    BY FS_Singleton
  <2>. QED
    BY <2>1, <2>2
<1>. QED
  BY <1>1, <1>2

\* The guard, the line and the slots agree on who is where, and no session has two
\* requests past its guard.
THEOREM OneRequestPerSession == Spec => []OnePerSession
<1>1. Inv => OnePerSession
  <2>. SUFFICES ASSUME Inv PROVE OnePerSession
    OBVIOUS
  <2>1. EntriesCollected
    BY DEF Inv, Guarded
  <2>2. ASSUME NEW s \in Session
        PROVE  LET inside == {q \in Request : pc[q] \in Inside /\ SessionOf(q) = s}
               IN  /\ Cardinality(inside) <= 1
                   /\ inside # {} <=> guard[s] # None /\ guard[s].active
    <3>. DEFINE inside == {q \in Request : pc[q] \in Inside /\ SessionOf(q) = s}
    <3>1. \A x, y \in inside : x = y
      BY DEF Inv, Guarded
    <3>2. inside # {} <=> guard[s] # None /\ guard[s].active
      BY DEF Inv, Guarded
    <3>3. Cardinality(inside) <= 1
      <4>. HIDE DEF inside
      <4>. QED
        BY <3>1, AtMostOne
    <3>. QED
      BY <3>2, <3>3
  <2>3. \A q \in Request : /\ pc[q] = "executing" <=> q \in executing
                           /\ pc[q] = "queued" <=> q \in ToSet(queue)
    <3>1. ToSet(queue) = Waiting
      BY DEF Inv, Line, ToSet, Waiting
    <3>. QED
      BY <3>1 DEF Inv, Places
  <2>. QED
    BY <2>1, <2>2, <2>3 DEF OnePerSession
<1>. QED
  BY <1>1, Invariance, PTL

\* No window holds more grants of a key than the limit allows.
THEOREM WindowsHold == Spec => []WindowHeld
<1>1. Inv => WindowHeld
  <2>. SUFFICES ASSUME Inv, NEW k \in Key PROVE Held(granted[k]) /\ granted[k] \in Seq(Nat)
    BY DEF WindowHeld, Held
  <2>. QED
    BY DEF Inv, Limiter, Accounted
<1>. QED
  BY <1>1, Invariance, PTL

\* What changes the start of the last run of a session.
LEMMA EntersCool ==
  ASSUME Inv, NEW k \in Key, NEW q, NEW t, Enters(q, k, t), NEW s \in Session,
         lastStart[s] # None, lastStart'[s] # lastStart[s]
  PROVE  now - lastStart[s] >= Cooldown
<1>1. Starts(k[2], k[1], now) /\ k[1] = "run" /\ k[2] = s
  <2>1. k[2] \in Session /\ lastStart \in [Session -> Nat \cup {None}]
    BY Keys DEF Inv, Cool
  <2>2. /\ Starts(k[2], k[1], now)
        /\ lastStart' = IF k[1] = "run" THEN [lastStart EXCEPT ![k[2]] = now] ELSE lastStart
    BY DEF Enters
  <2>. QED
    BY <2>1, <2>2
<1>2. guard \in [Session -> GuardEntry \cup {None}] /\ now \in Nat
  BY DEF Inv, Guarded, Cool
<1>3. guard[s] # None /\ guard[s].lastRun # None => now - guard[s].lastRun >= Cooldown
  BY <1>1, <1>2, StartsFacts
<1>. QED
  BY <1>3 DEF Inv, Cool

\* Two runs of a session start at least the cooldown apart, whatever the timer of
\* its entry did in between.
THEOREM RunsAreApart == Spec => CooldownHeld
<1>1. ASSUME Inv, [Next]_vars
      PROVE  [\A s \in Session : lastStart[s] # None /\ lastStart'[s] # lastStart[s]
                                   => now - lastStart[s] >= Cooldown]_vars
  <2>. SUFFICES ASSUME NEW s \in Session, lastStart[s] # None, lastStart'[s] # lastStart[s],
                       Next
                PROVE  now - lastStart[s] >= Cooldown
    BY <1>1
  <2>1. PICK q \in Request, k \in Key, t \in Nat : Enters(q, k, t)
    <3>1. \/ \E q \in Request, k \in Key : Arrives(q, k)
          \/ \E q \in Request : IsAnswered(q)
      BY DEF Next, Asks, IsPrepared, Executed, WaitedTooLong, Ends, Collects, Passing,
         Quiet, vars
    <3>2. ASSUME NEW q \in Request, NEW k \in Key, Arrives(q, k)
          PROVE  Enters(q, k, now)
      BY <3>2 DEF Arrives, IsRefused
    <3>3. ASSUME NEW q \in Request, IsAnswered(q)
          PROVE  key[q] \in Key /\ stamp[q] \in Nat /\ Enters(q, key[q], stamp[q])
      BY <1>1, <3>3, AnsweredInTime DEF IsAnswered, IsRefused
    <3>4. now \in Nat
      BY <1>1 DEF Inv, Cool
    <3>. QED
      BY <3>1, <3>2, <3>3, <3>4
  <2>. QED
    BY <1>1, <2>1, EntersCool
<1>. QED
  BY <1>1, Invariance, PTL DEF Spec, CooldownHeld

\* Who is told another time to come back did not come as late as told before.
LEMMA RefusedEarly ==
  ASSUME Inv, NEW q \in Request, NEW k0 \in Key, NEW t \in Nat, t <= now,
         store # "memory" => now <= t + MaxLatency, IsRefused(q, k0, t),
         NEW k \in Key, store # "redis", promise[k] # Null,
         promise'[k] \notin {promise[k], Null}
  PROVE  t < promise[k]
<1>1. Limiter /\ TRUE \in BOOLEAN /\ FALSE \in BOOLEAN
  BY DEF Inv
<1>2. ~Consume(k0, t, TRUE)
  <2>. SUFFICES ASSUME Consume(k0, t, TRUE) PROVE FALSE
    OBVIOUS
  <2>1. /\ \A j \in Key : j # k0 => promise'[j] = promise[j]
        /\ promise'[k0] = Null
    BY <1>1, ConsumeStep
  <2>. QED
    BY <2>1
<1>3. ~StoreFails(k0, t)
  <2>. SUFFICES ASSUME StoreFails(k0, t) PROVE FALSE
    OBVIOUS
  <2>1. store = "upstash"
    BY DEF StoreFails
  <2>2. promise'[k] \in {promise[k], Null}
    BY <1>1, <2>1, StoreFailsStep
  <2>. QED
    BY <2>2
<1>4. Consume(k0, t, FALSE)
  BY <1>2, <1>3 DEF IsRefused
<1>5. /\ \A j \in Key : j # k0 => promise'[j] = promise[j]
      /\ promise[k0] # Null => t < promise[k0]
  BY <1>1, <1>4, ConsumeStep
<1>. QED
  BY <1>5

\* A refusal of the memory or of Upstash never names too short a wait.
THEOREM RefusalsAreHonest == Spec => RetryHonest
<1>1. ASSUME Inv, [Next]_vars
      PROVE  [\A k \in Key, q \in Request :
               (/\ store # "redis" /\ pc[q] # "done" /\ pc'[q] = "done"
                /\ promise[k] # Null /\ promise'[k] \notin {promise[k], Null})
                 => (IF pc[q] = "idle" THEN now ELSE stamp[q]) < promise[k]]_vars
  <2>. SUFFICES ASSUME NEW k \in Key, NEW q \in Request, store # "redis", pc[q] # "done",
                       pc'[q] = "done", promise[k] # Null,
                       promise'[k] \notin {promise[k], Null}, Next
                PROVE  (IF pc[q] = "idle" THEN now ELSE stamp[q]) < promise[k]
    BY <1>1
  <2>1. pc \in [Request -> Inside \cup {"idle", "checking", "done"}] /\ now \in Nat
    BY <1>1 DEF Inv, Places, Cool
  <2>2. \/ \E r \in Request, j \in Key : Arrives(r, j)
        \/ \E r \in Request : IsAnswered(r)
    BY DEF Next, Asks, IsPrepared, Executed, WaitedTooLong, Ends, Collects, Passing,
       Quiet, vars, Tick, limiter
  <2>3. ASSUME NEW r \in Request, NEW j, NEW t, Enters(r, j, t) \/ IsRefused(r, j, t)
        PROVE  r = q /\ IsRefused(r, j, t)
    <3>1. CASE Enters(r, j, t)
      BY <2>1, <3>1 DEF Enters, Goes
    <3>2. CASE IsRefused(r, j, t)
      BY <2>1, <3>2 DEF IsRefused, Leaves, Goes
    <3>. QED
      BY <2>3, <3>1, <3>2
  <2>4. ASSUME NEW r \in Request, NEW j \in Key, Arrives(r, j)
        PROVE  (IF pc[q] = "idle" THEN now ELSE stamp[q]) < promise[k]
    <3>1. /\ pc[r] = "idle" /\ store = "memory"
          /\ Enters(r, j, now) \/ IsRefused(r, j, now)
      BY <2>4 DEF Arrives, Comes
    <3>2. r = q /\ IsRefused(r, j, now)
      BY <2>3, <3>1
    <3>3. now < promise[k]
      BY <1>1, <2>1, <3>1, <3>2, now <= now, RefusedEarly
    <3>. QED
      BY <3>1, <3>2, <3>3
  <2>5. ASSUME NEW r \in Request, IsAnswered(r)
        PROVE  (IF pc[q] = "idle" THEN now ELSE stamp[q]) < promise[k]
    <3>1. /\ pc[r] = "checking"
          /\ Enters(r, key[r], stamp[r]) \/ IsRefused(r, key[r], stamp[r])
      BY <2>5 DEF IsAnswered
    <3>2. r = q /\ IsRefused(r, key[r], stamp[r])
      BY <2>3, <3>1
    <3>3. key[r] \in Key /\ stamp[r] \in Nat /\ stamp[r] <= now /\ now <= stamp[r] + MaxLatency
      BY <1>1, <3>1, AnsweredInTime
    <3>4. stamp[r] < promise[k]
      BY <1>1, <3>2, <3>3, RefusedEarly
    <3>. QED
      BY <3>1, <3>2, <3>4
  <2>. QED
    BY <2>2, <2>4, <2>5
<1>. QED
  BY <1>1, Invariance, PTL DEF Spec, RetryHonest
=============================================================================
