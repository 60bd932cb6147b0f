------------------------- MODULE RunnerServerProofs -------------------------
(***************************************************************************)
(* Theorems about RunnerServer, for any number of requests, workers and    *)
(* places.                                                                 *)
(*                                                                         *)
(* The counter, the queue and the tracked containers are updated together  *)
(* by processNext; what it does is stated once (ProcessNextFacts), and the *)
(* invariant has a part for each of them: the books (Books), the answers   *)
(* (Answers) and the containers (Containers).                              *)
(***************************************************************************)
EXTENDS RunnerServer, FiniteSetTheorems, FunctionTheorems, SequenceTheorems, TLAPS

-----------------------------------------------------------------------------
(* Numbers and sequences *)

\* A set of numbers has a smallest one.
LEMMA MinExists ==
  ASSUME NEW S \in SUBSET Nat, S # {}
  PROVE  Min(S) \in S /\ \A n \in S : Min(S) <= n
<1>1. PICK m \in S : \A n \in S : ~(<<n, m>> \in OpToRel(<, Nat))
  BY NatLessThanWellFounded, WFMin
<1>2. \A n \in S : ~(n < m)
  BY <1>1 DEF OpToRel
<1>3. \A n \in S : m <= n
  BY <1>2
<1>4. \E x \in S : \A y \in S : x <= y
  BY <1>3
<1>. QED
  BY <1>4 DEF Min

\* FirstLive is the first entry whose client is there, or behind the last one.
LEMMA FirstLiveFacts ==
  ASSUME NEW q \in Seq(Request)
  PROVE  /\ FirstLive(q) \in 1 .. Len(q) + 1
         /\ \A j \in 1 .. FirstLive(q) - 1 : q[j] \in gone
         /\ FirstLive(q) <= Len(q) => q[FirstLive(q)] \notin gone
<1>. DEFINE S == {i \in DOMAIN q : q[i] \notin gone} \cup {Len(q) + 1}
<1>1. Len(q) \in Nat /\ DOMAIN q = 1 .. Len(q)
  OBVIOUS
<1>2. S \in SUBSET Nat /\ S # {} /\ S \subseteq 1 .. Len(q) + 1
  BY <1>1
<1>3. FirstLive(q) = Min(S)
  BY DEF FirstLive
<1>. HIDE DEF S
<1>4. FirstLive(q) \in S /\ \A n \in S : FirstLive(q) <= n
  BY <1>2, <1>3, MinExists
<1>. USE DEF S
<1>5. \A j \in 1 .. FirstLive(q) - 1 : q[j] \in gone
  BY <1>1, <1>2, <1>4
<1>. QED
  BY <1>1, <1>2, <1>4, <1>5

\* A part of a sequence.
LEMMA SubSeqFacts ==
  ASSUME NEW q \in Seq(Request), NEW m \in 1 .. Len(q) + 1, NEW n \in 0 .. Len(q),
         m <= n + 1
  PROVE  /\ SubSeq(q, m, n) \in Seq(Request)
         /\ Len(SubSeq(q, m, n)) = n + 1 - m
         /\ \A j \in 1 .. n + 1 - m : SubSeq(q, m, n)[j] = q[m + j - 1]
<1>1. Len(q) \in Nat
  OBVIOUS
<1>2. \A j \in m .. n : q[j] \in Request
  BY <1>1, ElementOfSeq
<1>3. /\ SubSeq(q, m, n) \in Seq(Request)
      /\ Len(SubSeq(q, m, n)) = IF m <= n THEN n - m + 1 ELSE 0
      /\ \A j \in 1 .. n - m + 1 : SubSeq(q, m, n)[j] = q[m + j - 1]
  BY <1>1, <1>2, SubSeqProperties, m \in Int, n \in Int
<1>. QED
  BY <1>1, <1>3

\* No entry is in the queue twice.
Once(q) == \A i, j \in 1 .. Len(q) : q[i] = q[j] => i = j
Entries(q) == {q[i] : i \in 1 .. Len(q)}

\* The queue without entry r: the others, in their order.
LEMMA DequeuedFacts ==
  ASSUME queue \in Seq(Request), Once(queue), NEW r \in Entries(queue)
  PROVE  /\ Dequeued(r) \in Seq(Request)
         /\ Len(Dequeued(r)) = Len(queue) - 1
         /\ Once(Dequeued(r))
         /\ Entries(Dequeued(r)) = Entries(queue) \ {r}
<1>. DEFINE i == CHOOSE i \in DOMAIN queue : queue[i] = r
            d == SubSeq(queue, 1, i - 1) \o SubSeq(queue, i + 1, Len(queue))
<1>1. i \in 1 .. Len(queue) /\ queue[i] = r /\ Len(queue) \in Nat
  BY DEF Entries
<1>2. Dequeued(r) = d
  BY DEF Dequeued
<1>. HIDE DEF i
<1>. DEFINE a == SubSeq(queue, 1, i - 1)
            b == SubSeq(queue, i + 1, Len(queue))
<1>3. /\ a \in Seq(Request) /\ Len(a) = i - 1
      /\ \A j \in 1 .. i - 1 : a[j] = queue[j]
  BY <1>1, SubSeqFacts, i - 1 \in Int
<1>4. /\ b \in Seq(Request) /\ Len(b) = Len(queue) - i
      /\ \A j \in 1 .. Len(queue) - i : b[j] = queue[i + j]
  BY <1>1, SubSeqFacts
<1>5. d = a \o b
  OBVIOUS
<1>. HIDE DEF a, b, d
<1>6. /\ a \o b \in Seq(Request)
      /\ Len(a \o b) = Len(a) + Len(b)
      /\ \A j \in 1 .. Len(a) + Len(b) :
           (a \o b)[j] = IF j <= Len(a) THEN a[j] ELSE b[j - Len(a)]
  BY <1>3, <1>4, ConcatProperties
<1>7. d \in Seq(Request) /\ Len(d) = Len(queue) - 1
  BY <1>1, <1>3, <1>4, <1>6, <1>5
<1>8. \A j \in 1 .. Len(d) : d[j] = queue[IF j < i THEN j ELSE j + 1]
  <2>. TAKE j \in 1 .. Len(d)
  <2>1. CASE j < i
    BY <1>1, <1>7, <1>3, <1>4, <1>6, <1>5, <2>1
  <2>2. CASE j >= i
    <3>1. d[j] = b[j - (i - 1)]
      BY <1>1, <1>7, <1>3, <1>4, <1>6, <1>5, <2>2
    <3>2. j - (i - 1) \in 1 .. Len(queue) - i
      BY <1>1, <1>7, <2>2
    <3>3. b[j - (i - 1)] = queue[i + (j - (i - 1))]
      BY <1>4, <3>2
    <3>. QED
      BY <1>1, <2>2, <3>1, <3>3
  <2>. QED
    BY <1>1, <2>1, <2>2
<1>9. Once(d)
  BY <1>1, <1>7, <1>8 DEF Once
<1>10. Entries(d) = Entries(queue) \ {r}
  <2>1. ASSUME NEW x \in Entries(d) PROVE x \in Entries(queue) \ {r}
    BY <1>1, <1>7, <1>8 DEF Once, Entries
  <2>2. ASSUME NEW x \in Entries(queue), x # r PROVE x \in Entries(d)
    <3>1. PICK k \in 1 .. Len(queue) : queue[k] = x
      BY DEF Entries
    <3>2. CASE k < i
      BY <1>1, <1>7, <1>8, <3>1, <3>2 DEF Entries
    <3>3. CASE k > i
      <4>1. k - 1 \in 1 .. Len(d) /\ d[k - 1] = queue[k]
        BY <1>1, <1>7, <1>8, <3>1, <3>3
      <4>. QED
        BY <3>1, <4>1 DEF Entries
    <3>. QED
      BY <1>1, <2>2, <3>1, <3>2, <3>3
  <2>. QED
    BY <2>1, <2>2
<1>. QED
  BY <1>2, <1>7, <1>9, <1>10

-----------------------------------------------------------------------------
(* The invariant *)

Running(st) == {r \in Request : st[r] \in Executing}

\* A queue q, a counter n and stages st that agree.
Agree(q, n, st) ==
  /\ q \in Seq(Request) /\ n \in Nat /\ st \in [Request -> Stage]
  /\ Once(q)
  /\ \A r \in Request : st[r] = "queued" <=> r \in Entries(q)
  /\ IsFiniteSet(Running(st))
  /\ n = Cardinality(Running(st))

Books ==
  /\ Agree(queue, activeWorkers, stage)
  /\ activeWorkers <= MaxConcurrency
  /\ Len(queue) <= MaxQueueSize
  /\ queue # <<>> => activeWorkers = MaxConcurrency
  /\ \A r \in gone : stage[r] # "none"

\* Docker never heard of the request.
Unheard(r) == r \notin tracked \cup late \cup cleanup /\ container[r] = "absent"

\* The answer to a request is its only one, and true.
Honest(r) ==
  /\ Len(answers[r]) <= 1
  /\ answers[r] # <<>> => stage[r] = "done"
  /\ stage[r] \in {"none", "queued"} \/ answers[r] \in {<<503>>, <<504>>} => Unheard(r)

Answers == \A r \in Request : Honest(r)

Stray == {r \in Request : container[r] # "absent"} \ tracked

Containers ==
  server = "up" =>
    /\ cleanup = {}
    /\ Running(stage) \subseteq tracked
    /\ IsFiniteSet(Stray) /\ IsFiniteSet(late)
    /\ Cardinality(Stray) + Cardinality(late) <= lateCreates

Inv == TypeOK /\ Books /\ Answers /\ Containers

-----------------------------------------------------------------------------
(* What processNext does *)

\* Of the requests that wait according to st, some stay, some end because their
\* client is gone, and some are started and tracked; nothing else changes.
Admits(st, tr) ==
  /\ \A r \in Request : st[r] # "queued" => stage'[r] = st[r]
  /\ \A r \in Request : st[r] = "queued" =>
       \/ stage'[r] = "queued"
       \/ stage'[r] = "done" /\ r \in gone
       \/ stage'[r] = "create" /\ r \notin gone /\ r \in tracked'
  /\ tracked' \in SUBSET Request /\ tr \subseteq tracked'
  /\ \A r \in tracked' \ tr : st[r] = "queued" /\ stage'[r] = "create"

LEMMA ProcessNextFacts ==
  ASSUME NEW q, NEW n, NEW st, NEW tr \in SUBSET Request,
         Agree(q, n, st),
         n <= MaxConcurrency,
         Len(q) > 1 => n >= MaxConcurrency - 1,
         ProcessNext(q, n, st, tr)
  PROVE  /\ Agree(queue', activeWorkers', stage')
         /\ activeWorkers' <= MaxConcurrency
         /\ Len(queue') <= Len(q)
         /\ queue' # <<>> => activeWorkers' = MaxConcurrency
         /\ Admits(st, tr)
<1>1. /\ q \in Seq(Request) /\ n \in Nat /\ st \in [Request -> Stage]
      /\ Len(q) \in Nat /\ DOMAIN q = 1 .. Len(q)
      /\ MaxConcurrency \in Nat
  BY RunnerAssumption DEF Agree
<1>2. CASE ~HasRoom(n)
  <2>1. queue' = q /\ activeWorkers' = n /\ stage' = st /\ tracked' = tr
    BY <1>2 DEF ProcessNext
  <2>2. n = MaxConcurrency
    BY <1>1, <1>2 DEF HasRoom
  <2>. QED
    BY <1>1, <2>1, <2>2 DEF Admits
<1>3. CASE HasRoom(n)
  <2>. DEFINE i == FirstLive(q)
              skipped == {q[j] : j \in 1 .. i - 1}
              started == {q[j] : j \in {i} \cap DOMAIN q}
  <2>1. /\ queue' = SubSeq(q, i + 1, Len(q))
        /\ activeWorkers' = n + Cardinality(started)
        /\ stage' = [r \in Request |-> IF r \in skipped THEN "done"
                                       ELSE IF r \in started THEN "create" ELSE st[r]]
        /\ tracked' = tr \cup started
    BY <1>3 DEF ProcessNext
  <2>2. /\ i \in 1 .. Len(q) + 1
        /\ \A r \in skipped : r \in gone
        /\ \A r \in started : r \notin gone
    BY <1>1, FirstLiveFacts
  <2>3. /\ i <= Len(q) => started = {q[i]}
        /\ i = Len(q) + 1 => started = {}
    BY <1>1, <2>2
  <2>4. /\ queue' \in Seq(Request)
        /\ i <= Len(q) => Len(queue') = Len(q) - i
        /\ i = Len(q) + 1 => Len(queue') = 0
        /\ \A j \in 1 .. Len(queue') : queue'[j] = q[i + j]
    <3>1. CASE i <= Len(q)
      <4>1. i + 1 \in 1 .. Len(q) + 1 /\ Len(q) \in 0 .. Len(q) /\ i + 1 <= Len(q) + 1
        BY <1>1, <2>2, <3>1
      <4>2. /\ SubSeq(q, i + 1, Len(q)) \in Seq(Request)
            /\ Len(SubSeq(q, i + 1, Len(q))) = Len(q) + 1 - (i + 1)
            /\ \A j \in 1 .. Len(q) + 1 - (i + 1) :
                 SubSeq(q, i + 1, Len(q))[j] = q[(i + 1) + j - 1]
        BY <1>1, <4>1, SubSeqFacts
      <4>. QED
        BY <1>1, <2>1, <2>2, <3>1, <4>2
    <3>2. CASE i = Len(q) + 1
      <4>1. queue' = <<>>
        BY <1>1, <2>1, <3>2, SubSeqEmpty
      <4>. QED
        BY <1>1, <3>2, <4>1
    <3>. QED
      BY <1>1, <2>2, <3>1, <3>2
  <2>. HIDE DEF i
  <2>5. Len(queue') \in Nat /\ \A j \in 1 .. Len(queue') : i + j \in 1 .. Len(q) /\ i + j > i
    <3>1. i \in Int /\ Len(q) \in Nat /\ (i <= Len(q) \/ i = Len(q) + 1)
      BY <1>1, <2>2
    <3>2. CASE i <= Len(q)
      <4>1. Len(queue') = Len(q) - i
        BY <2>4, <3>2
      <4>2. Len(q) - i \in Nat
        BY <3>1, <3>2
      <4>3. \A j \in 1 .. Len(q) - i : i + j \in 1 .. Len(q) /\ i + j > i
        BY <1>1, <2>2, <3>1
      <4>. QED
        BY <4>1, <4>2, <4>3
    <3>3. CASE i = Len(q) + 1
      BY <2>4, <3>1, <3>3
    <3>. QED
      BY <3>1, <3>2, <3>3
  <2>6. \A j, k \in 1 .. Len(q) : q[j] = q[k] => j = k
    BY DEF Agree, Once
  <2>7. /\ skipped \subseteq Entries(q) /\ started \subseteq Entries(q)
        /\ Entries(queue') \subseteq Entries(q)
    <3>1. /\ skipped \subseteq Entries(q) /\ started \subseteq Entries(q)
      BY <1>1, <2>2 DEF Entries
    <3>2. Entries(queue') \subseteq Entries(q)
      BY <2>4, <2>5 DEF Entries
    <3>. QED
      BY <3>1, <3>2
  <2>8. Entries(q) \subseteq skipped \cup started \cup Entries(queue')
    <3>. SUFFICES ASSUME NEW k \in 1 .. Len(q)
                  PROVE  q[k] \in skipped \cup started \cup Entries(queue')
      BY DEF Entries
    <3>1. CASE k < i
      BY <1>1, <2>2, <3>1
    <3>2. CASE k = i
      BY <1>1, <2>2, <3>2
    <3>3. CASE k > i
      <4>1. k - i \in 1 .. Len(queue') /\ i + (k - i) = k
        <5>1. i \in Int /\ k \in Int /\ Len(q) \in Nat /\ i <= Len(q) /\ k <= Len(q)
          BY <1>1, <2>2, <3>3
        <5>. QED
          BY <2>4, <3>3, <5>1
      <4>2. queue'[k - i] = q[k]
        BY <2>4, <4>1
      <4>. QED
        BY <4>1, <4>2 DEF Entries
    <3>. QED
      BY <1>1, <2>2, <3>1, <3>2, <3>3
  <2>9. /\ skipped \cap started = {}
        /\ skipped \cap Entries(queue') = {}
        /\ started \cap Entries(queue') = {}
    <3>1. skipped \cap started = {}
      BY <1>1, <2>2, <2>6
    <3>2. ASSUME NEW j \in 1 .. Len(queue'), NEW k \in 1 .. i, k \in 1 .. Len(q)
          PROVE  queue'[j] # q[k]
      <4>1. i + j \in 1 .. Len(q) /\ i + j # k
        BY <1>1, <2>2, <2>5, <3>2
      <4>. QED
        BY <2>4, <2>6, <3>2, <4>1
    <3>3. skipped \cap Entries(queue') = {}
      BY <1>1, <2>2, <3>2 DEF Entries
    <3>4. started \cap Entries(queue') = {}
      BY <1>1, <2>2, <3>2 DEF Entries
    <3>. QED
      BY <3>1, <3>3, <3>4
  <2>10. Once(queue')
    <3>. SUFFICES ASSUME NEW j \in 1 .. Len(queue'), NEW k \in 1 .. Len(queue'),
                         queue'[j] = queue'[k]
                  PROVE  j = k
      BY DEF Once
    <3>1. i + j = i + k
      BY <2>4, <2>5, <2>6
    <3>. QED
      BY <1>1, <2>2, <2>5, <3>1
  <2>. HIDE DEF skipped, started
  <2>11. Entries(q) \subseteq Request /\ \A r \in Request : st[r] = "queued" <=> r \in Entries(q)
    BY <1>1 DEF Entries, Agree
  <2>12. /\ stage' \in [Request -> Stage]
         /\ \A r \in Request : stage'[r] = "queued" <=> r \in Entries(queue')
    BY <1>1, <2>1, <2>7, <2>8, <2>9, <2>11 DEF Stage, Executing
  <2>13. /\ \A r \in Request : st[r] # "queued" => stage'[r] = st[r]
         /\ \A r \in Request : st[r] = "queued" =>
              \/ stage'[r] = "queued"
              \/ stage'[r] = "done" /\ r \in gone
              \/ stage'[r] = "create" /\ r \notin gone /\ r \in tracked'
    BY <1>1, <2>1, <2>2, <2>7, <2>8, <2>9, <2>11
  <2>14. /\ tracked' \in SUBSET Request /\ tr \subseteq tracked'
         /\ \A r \in tracked' \ tr : st[r] = "queued" /\ stage'[r] = "create"
    BY <1>1, <2>1, <2>7, <2>9, <2>11
  <2>15. /\ Running(stage') = Running(st) \cup started
         /\ started \cap Running(st) = {}
    BY <1>1, <2>1, <2>7, <2>9, <2>11 DEF Running, Executing
  <2>16. IsFiniteSet(Running(st)) /\ n = Cardinality(Running(st))
    BY DEF Agree
  <2>17. CASE i <= Len(q)
    <3>1. started = {q[i]} /\ q[i] \notin Running(st)
      BY <2>3, <2>15, <2>17
    <3>2. /\ IsFiniteSet(Running(stage'))
          /\ Cardinality(Running(stage')) = n + 1
      <4>1. Running(stage') = Running(st) \cup {q[i]}
        BY <2>15, <3>1
      <4>2. /\ IsFiniteSet(Running(st) \cup {q[i]})
            /\ Cardinality(Running(st) \cup {q[i]})
                 = IF q[i] \in Running(st) THEN Cardinality(Running(st))
                   ELSE Cardinality(Running(st)) + 1
        BY <2>16, FS_AddElement
      <4>. QED
        BY <2>16, <3>1, <4>1, <4>2
    <3>3. activeWorkers' = n + 1
      BY <1>1, <2>1, <3>1, FS_Singleton
    <3>4. queue' # <<>> => n + 1 = MaxConcurrency
      <4>1. queue' # <<>> => Len(q) > 1
        BY <1>1, <2>2, <2>4, <2>17
      <4>. QED
        BY <1>1, <1>3, <4>1 DEF HasRoom
    <3>. QED
      BY <1>1, <1>3, <2>2, <2>4, <2>10, <2>12, <2>13, <2>14, <2>17, <3>2, <3>3, <3>4
         DEF Agree, HasRoom, Admits
  <2>18. CASE i = Len(q) + 1
    <3>1. started = {}
      BY <2>3, <2>18
    <3>2. activeWorkers' = n /\ Running(stage') = Running(st)
      BY <1>1, <2>1, <2>15, <3>1, FS_EmptySet
    <3>3. queue' = <<>> /\ Len(queue') = 0
      BY <1>1, <2>4, <2>18, EmptySeq
    <3>. QED
      BY <1>1, <2>4, <2>10, <2>12, <2>13, <2>14, <2>16, <3>2, <3>3
         DEF Agree, Admits
  <2>. QED
    BY <1>1, <2>2, <2>17, <2>18
<1>. QED
  BY <1>2, <1>3

\* A request that arrives and finds a place.
LEMMA ArriveFacts ==
  ASSUME Inv, NEW r \in Request, Arrive(r), Len(queue) < MaxQueueSize
  PROVE  /\ Agree(queue', activeWorkers', stage')
         /\ activeWorkers' <= MaxConcurrency
         /\ Len(queue') <= MaxQueueSize
         /\ queue' # <<>> => activeWorkers' = MaxConcurrency
         /\ Admits([stage EXCEPT ![r] = "queued"], tracked)
         /\ answers' = answers
<1>. DEFINE q == Append(queue, r)
            st == [stage EXCEPT ![r] = "queued"]
<1>1. /\ queue \in Seq(Request) /\ Len(queue) \in Nat /\ stage \in [Request -> Stage]
      /\ stage[r] = "none" /\ tracked \in SUBSET Request
      /\ Agree(queue, activeWorkers, stage)
      /\ MaxQueueSize \in Nat
  BY RunnerAssumption DEF Inv, TypeOK, Books, Arrive
<1>2. ProcessNext(q, activeWorkers, st, tracked) /\ answers' = answers
  BY <1>1 DEF Arrive
<1>3. /\ q \in Seq(Request) /\ Len(q) = Len(queue) + 1
      /\ \A j \in 1 .. Len(queue) : q[j] = queue[j]
      /\ q[Len(queue) + 1] = r
  BY <1>1, AppendProperties
<1>4. r \notin Entries(queue)
  BY <1>1 DEF Agree
<1>. HIDE DEF q
<1>5. Once(q) /\ Entries(q) = Entries(queue) \cup {r}
  <2>1. \A j \in 1 .. Len(q) : j \in 1 .. Len(queue) \/ j = Len(queue) + 1
    BY <1>1, <1>3
  <2>2. /\ 1 .. Len(queue) \subseteq 1 .. Len(q)
        /\ Len(queue) + 1 \in 1 .. Len(q)
    BY <1>1, <1>3
  <2>3. Once(q)
    BY <1>1, <1>3, <1>4, <2>1 DEF Agree, Once, Entries
  <2>4. Entries(q) = Entries(queue) \cup {r}
    BY <1>1, <1>3, <2>1, <2>2 DEF Entries
  <2>. QED
    BY <2>3, <2>4
<1>6. Running(st) = Running(stage)
  BY <1>1 DEF Running, Executing
<1>7. Agree(q, activeWorkers, st)
  <2>1. st \in [Request -> Stage]
    BY <1>1 DEF Stage
  <2>2. \A s \in Request : st[s] = "queued" <=> s \in Entries(q)
    BY <1>1, <1>5 DEF Agree
  <2>. HIDE DEF st
  <2>. QED
    BY <1>1, <1>3, <1>5, <1>6, <2>1, <2>2 DEF Agree
<1>8. activeWorkers <= MaxConcurrency /\ (Len(q) > 1 => activeWorkers = MaxConcurrency)
  <2>1. Len(q) > 1 => queue # <<>>
    BY <1>1, <1>3, EmptySeq
  <2>. QED
    BY <2>1 DEF Inv, Books
<1>. HIDE DEF st
<1>9. /\ Agree(queue', activeWorkers', stage')
      /\ activeWorkers' <= MaxConcurrency
      /\ Len(queue') <= Len(q)
      /\ queue' # <<>> => activeWorkers' = MaxConcurrency
      /\ Admits(st, tracked)
  <2>1. MaxConcurrency \in Nat /\ (Len(q) > 1 => activeWorkers >= MaxConcurrency - 1)
    BY <1>8, RunnerAssumption
  <2>. QED
    BY <1>1, <1>2, <1>7, <1>8, <2>1, ProcessNextFacts
<1>10. Len(queue') <= MaxQueueSize
  <2>1. Len(queue') \in Nat
    BY <1>9 DEF Agree
  <2>. QED
    BY <1>1, <1>3, <1>9, <2>1
<1>. QED
  BY <1>2, <1>9, <1>10 DEF st

\* An execution that ends leaves its worker to the next request.
LEMMA RemoveFacts ==
  ASSUME Inv, NEW r \in Request, Remove(r)
  PROVE  /\ Agree(queue', activeWorkers', stage')
         /\ activeWorkers' <= MaxConcurrency
         /\ Len(queue') <= MaxQueueSize
         /\ queue' # <<>> => activeWorkers' = MaxConcurrency
         /\ \E removed \in BOOLEAN :
              /\ RemoveContainer(r, removed)
              /\ Admits([stage EXCEPT ![r] = "done"], Untracked(r, removed))
<1>. DEFINE st == [stage EXCEPT ![r] = "done"]
            n == Released(activeWorkers)
<1>1. /\ queue \in Seq(Request) /\ Len(queue) \in Nat /\ stage \in [Request -> Stage]
      /\ stage[r] = "remove" /\ tracked \in SUBSET Request
      /\ Agree(queue, activeWorkers, stage)
      /\ activeWorkers <= MaxConcurrency /\ Len(queue) <= MaxQueueSize
      /\ queue # <<>> => activeWorkers = MaxConcurrency
      /\ MaxQueueSize \in Nat
      /\ MaxConcurrency \in Nat
  BY RunnerAssumption DEF Inv, TypeOK, Books, Remove
<1>2. PICK removed \in BOOLEAN :
        /\ RemoveContainer(r, removed)
        /\ ProcessNext(queue, n, st, Untracked(r, removed))
  BY DEF Remove
<1>3. Untracked(r, removed) \in SUBSET Request
  BY <1>1 DEF Untracked
<1>4. Running(st) = Running(stage) \ {r} /\ r \in Running(stage)
  BY <1>1 DEF Running, Executing
<1>5. /\ IsFiniteSet(Running(st)) /\ n = Cardinality(Running(st))
      /\ n \in Nat /\ n = activeWorkers - 1
  <2>1. IsFiniteSet(Running(stage)) /\ activeWorkers = Cardinality(Running(stage))
    BY <1>1 DEF Agree
  <2>2. /\ IsFiniteSet(Running(stage) \ {r})
        /\ Cardinality(Running(stage) \ {r}) = Cardinality(Running(stage)) - 1
    BY <1>4, <2>1, FS_RemoveElement
  <2>3. n = Cardinality(Running(st))
    BY <1>4, <2>1, <2>2 DEF Released
  <2>. HIDE DEF n
  <2>. QED
    BY <1>4, <2>1, <2>2, <2>3, FS_CardinalityType
<1>. HIDE DEF n
<1>6. Agree(queue, n, st)
  <2>1. st \in [Request -> Stage]
    BY <1>1 DEF Stage
  <2>2. \A s \in Request : st[s] = "queued" <=> s \in Entries(queue)
    BY <1>1 DEF Agree
  <2>. HIDE DEF st
  <2>. QED
    BY <1>1, <1>5, <2>1, <2>2 DEF Agree
<1>7. n <= MaxConcurrency /\ (Len(queue) > 1 => n >= MaxConcurrency - 1)
  <2>1. activeWorkers \in Nat
    BY <1>1 DEF Agree
  <2>2. Len(queue) > 1 => queue # <<>>
    BY <1>1, EmptySeq
  <2>. QED
    BY <1>1, <1>5, <2>1, <2>2
<1>. HIDE DEF st
<1>8. /\ Agree(queue', activeWorkers', stage')
      /\ activeWorkers' <= MaxConcurrency
      /\ Len(queue') <= Len(queue)
      /\ queue' # <<>> => activeWorkers' = MaxConcurrency
      /\ Admits(st, Untracked(r, removed))
  BY <1>2, <1>3, <1>6, <1>7, ProcessNextFacts
<1>9. Len(queue') <= MaxQueueSize
  <2>1. Len(queue') \in Nat
    BY <1>8 DEF Agree
  <2>. QED
    BY <1>1, <1>8, <2>1
<1>. QED
  BY <1>2, <1>8, <1>9 DEF st

-----------------------------------------------------------------------------
(* Every step keeps the invariant *)

LEMMA InitInv == Init => Inv
<1>. SUFFICES ASSUME Init PROVE Inv
  OBVIOUS
<1>1. TypeOK
  BY DEF Init, TypeOK, Stage
<1>2. Running(stage) = {} /\ Stray = {} /\ Entries(queue) = {}
  BY EmptySeq DEF Init, Running, Executing, Stray, Entries
<1>3. Agree(queue, activeWorkers, stage)
  BY <1>1, <1>2, FS_EmptySet, EmptySeq, RunnerAssumption DEF Init, TypeOK, Agree, Once
<1>4. Books
  BY <1>3, RunnerAssumption DEF Init, Books
<1>5. Answers
  BY DEF Init, Answers, Honest, Unheard
<1>6. Containers
  BY <1>2, FS_EmptySet DEF Init, Containers, Running
<1>. QED
  BY <1>1, <1>4, <1>5, <1>6 DEF Inv

\* A request moves on, neither into nor out of the queue or the workers.
LEMMA MoveAgrees ==
  ASSUME Inv, NEW r \in Request, NEW s \in Stage,
         stage[r] # "queued", s # "queued", stage[r] \in Executing <=> s \in Executing,
         stage' = [stage EXCEPT ![r] = s], queue' = queue, activeWorkers' = activeWorkers
  PROVE  Agree(queue', activeWorkers', stage')
<1>1. stage \in [Request -> Stage] /\ Agree(queue, activeWorkers, stage)
  BY DEF Inv, TypeOK, Books
<1>2. Running(stage') = Running(stage)
  BY <1>1 DEF Running
<1>. QED
  BY <1>1, <1>2 DEF Agree

LEMMA TypeStep ==
  ASSUME Inv, [Next]_vars
  PROVE  TypeOK'
<1>. USE DEF TypeOK
<1>1. TypeOK /\ Stage = {"none", "queued", "done", "create", "start", "work", "remove"}
  BY DEF Inv, Stage, Executing
<1>2. ASSUME NEW r \in Request, Arrive(r) PROVE TypeOK'
  <2>1. CASE Len(queue) >= MaxQueueSize
    <3>1. Append(answers[r], 503) \in Seq({200, 503, 504})
      BY <1>1, AppendProperties
    <3>2. /\ Answer(r, 503)
          /\ stage' = [stage EXCEPT ![r] = "done"]
          /\ UNCHANGED <<server, queue, activeWorkers, gone, container, tracked, cleanup,
                        late, lateCreates>>
      BY <1>2, <2>1 DEF Arrive
    <3>3. answers' \in [Request -> Seq({200, 503, 504})]
      BY <1>1, <3>1, <3>2 DEF Answer
    <3>4. stage' \in [Request -> Stage]
      BY <1>1, <3>2
    <3>. QED
      BY <1>1, <3>2, <3>3, <3>4
  <2>2. CASE Len(queue) < MaxQueueSize
    <3>1. /\ Agree(queue', activeWorkers', stage') /\ tracked' \in SUBSET Request
          /\ answers' = answers
      BY <1>2, <2>2, ArriveFacts DEF Admits
    <3>. QED
      BY <1>1, <1>2, <3>1 DEF Arrive, Agree
  <2>. QED
    BY <1>1, <2>1, <2>2, RunnerAssumption
<1>3. ASSUME NEW r \in Request, TimeOut(r) PROVE TypeOK'
  <2>1. Dequeued(r) \in Seq(Request)
    BY <1>3, DequeuedFacts DEF Inv, Books, Agree, TimeOut
  <2>. QED
    BY <1>1, <1>3, <2>1 DEF TimeOut, Answer, docker
<1>4. ASSUME NEW r \in Request, Disconnect(r) PROVE TypeOK'
  BY <1>1, <1>4 DEF Disconnect, docker
<1>5. ASSUME NEW r \in Request, Create(r) PROVE TypeOK'
  BY <1>1, <1>5, RunnerAssumption DEF Create, GoTo, Become
<1>6. ASSUME NEW r \in Request, Start(r) PROVE TypeOK'
  <2>1. container' \in [Request -> {"absent", "created", "running"}]
    BY <1>1, <1>6 DEF Start, Become
  <2>2. GoTo(r, "work") \/ GoTo(r, "remove")
    BY <1>6 DEF Start
  <2>3. UNCHANGED <<late, lateCreates>>
    BY <1>6 DEF Start
  <2>. QED
    BY <1>1, <2>1, <2>2, <2>3, RunnerAssumption DEF GoTo
<1>7. ASSUME NEW r \in Request, Work(r) PROVE TypeOK'
  BY <1>1, <1>7 DEF Work, GoTo
<1>8. ASSUME NEW r \in Request, Remove(r) PROVE TypeOK'
  <2>1. Agree(queue', activeWorkers', stage')
    BY <1>8, RemoveFacts
  <2>2. /\ container' \in [Request -> {"absent", "created", "running"}]
        /\ tracked' \in SUBSET Request
    <3>1. PICK removed \in BOOLEAN :
            /\ RemoveContainer(r, removed)
            /\ Admits([stage EXCEPT ![r] = "done"], Untracked(r, removed))
      BY <1>8, RemoveFacts
    <3>. QED
      BY <1>1, <3>1 DEF RemoveContainer, Become, Admits
  <2>3. answers' \in [Request -> Seq({200, 503, 504})]
    BY <1>1, <1>8 DEF Remove, Answer
  <2>. QED
    BY <1>1, <1>8, <2>1, <2>2, <2>3 DEF Remove, Agree
<1>9. ASSUME NEW r \in Request, CleanUp(r) PROVE TypeOK'
  BY <1>1, <1>9 DEF CleanUp, RemoveContainer, Become, Untracked, http
<1>10. ASSUME NEW r \in Request, CreatedLate(r) PROVE TypeOK'
  BY <1>1, <1>10 DEF CreatedLate, Become, http
<1>11. ASSUME NEW r \in Request, LifetimeEnds(r) PROVE TypeOK'
  BY <1>1, <1>11 DEF LifetimeEnds, Become, http
<1>12. CASE Shutdown
  BY <1>1, <1>12 DEF Shutdown, http, docker
<1>13. CASE Kill
  BY <1>1, <1>13 DEF Kill
<1>14. CASE UNCHANGED vars
  BY <1>1, <1>14 DEF vars
<1>. QED
  BY <1>2, <1>3, <1>4, <1>5, <1>6, <1>7, <1>8, <1>9, <1>10, <1>11, <1>12, <1>13, <1>14
     DEF Next, Command

LEMMA BooksStep ==
  ASSUME Inv, [Next]_vars
  PROVE  Books'
<1>1. /\ stage \in [Request -> Stage] /\ Books /\ gone \in SUBSET Request
      /\ Agree(queue, activeWorkers, stage)
  BY DEF Inv, TypeOK, Books
<1>2. ASSUME NEW r \in Request, Arrive(r) PROVE Books'
  <2>1. CASE Len(queue) >= MaxQueueSize
    <3>1. /\ stage' = [stage EXCEPT ![r] = "done"] /\ stage[r] = "none"
          /\ queue' = queue /\ activeWorkers' = activeWorkers /\ gone' = gone
      BY <1>2, <2>1 DEF Arrive
    <3>2. Agree(queue', activeWorkers', stage')
      BY <3>1, MoveAgrees DEF Stage, Executing
    <3>. QED
      BY <1>1, <3>1, <3>2 DEF Books
  <2>2. CASE Len(queue) < MaxQueueSize
    <3>1. gone' = gone /\ stage[r] = "none"
      BY <1>2 DEF Arrive
    <3>2. \A s \in Request : stage[s] # "none" => stage'[s] # "none"
      BY <1>1, <1>2, <2>2, <3>1, ArriveFacts DEF Admits
    <3>. QED
      BY <1>1, <1>2, <2>2, <3>1, <3>2, ArriveFacts DEF Books
  <2>. QED
    <3>1. Len(queue) \in Nat
      BY <1>1 DEF Agree
    <3>. QED
      BY <2>1, <2>2, <3>1, RunnerAssumption
<1>3. ASSUME NEW r \in Request, TimeOut(r) PROVE Books'
  <2>1. /\ stage[r] = "queued" /\ stage' = [stage EXCEPT ![r] = "done"]
        /\ queue' = Dequeued(r) /\ activeWorkers' = activeWorkers /\ gone' = gone
    BY <1>3 DEF TimeOut
  <2>2. r \in Entries(queue) /\ queue \in Seq(Request) /\ Once(queue) /\ queue # <<>>
    BY <1>1, <2>1, EmptySeq DEF Agree, Entries
  <2>3. /\ queue' \in Seq(Request) /\ Len(queue') = Len(queue) - 1
        /\ Once(queue') /\ Entries(queue') = Entries(queue) \ {r}
    BY <2>1, <2>2, DequeuedFacts
  <2>4. Running(stage') = Running(stage)
    BY <1>1, <2>1 DEF Running, Executing
  <2>5. Agree(queue', activeWorkers', stage')
    <3>1. stage' \in [Request -> Stage]
      BY <1>1, <2>1 DEF Stage
    <3>2. \A s \in Request : stage'[s] = "queued" <=> s \in Entries(queue')
      BY <1>1, <2>1, <2>3 DEF Agree
    <3>. QED
      BY <1>1, <2>1, <2>3, <2>4, <3>1, <3>2 DEF Agree
  <2>6. Len(queue) \in Nat /\ Len(queue) <= MaxQueueSize
    BY <1>1, <2>2 DEF Books
  <2>7. Len(queue') <= MaxQueueSize
    BY <2>3, <2>6, RunnerAssumption
  <2>. QED
    BY <1>1, <2>1, <2>2, <2>5, <2>7 DEF Books
<1>4. ASSUME NEW r \in Request, Disconnect(r) PROVE Books'
  BY <1>1, <1>4 DEF Disconnect, Books
<1>5. ASSUME NEW r \in Request, NEW s \in Executing,
             stage[r] \in Executing, GoTo(r, s)
      PROVE  Books'
  <2>1. Agree(queue', activeWorkers', stage')
    BY <1>5, MoveAgrees DEF GoTo, Stage, Executing
  <2>. QED
    BY <1>1, <1>5, <2>1 DEF GoTo, Books, Executing
<1>6. ASSUME NEW r \in Request, Create(r) PROVE Books'
  BY <1>5, <1>6 DEF Create, Executing
<1>7. ASSUME NEW r \in Request, Start(r) PROVE Books'
  BY <1>5, <1>7 DEF Start, Executing
<1>8. ASSUME NEW r \in Request, Work(r) PROVE Books'
  BY <1>5, <1>8 DEF Work, Executing
<1>9. ASSUME NEW r \in Request, Remove(r) PROVE Books'
  <2>1. gone' = gone /\ stage[r] = "remove"
    BY <1>9 DEF Remove
  <2>2. \A s \in Request : stage[s] # "none" => stage'[s] # "none"
    BY <1>1, <1>9, <2>1, RemoveFacts DEF Admits
  <2>. QED
    BY <1>1, <1>9, <2>1, <2>2, RemoveFacts DEF Books
<1>10. CASE UNCHANGED http
  BY <1>1, <1>10 DEF http, Books
<1>11. CASE Kill
  <2>1. /\ queue' = <<>> /\ activeWorkers' = 0 /\ gone' = {}
        /\ stage' = [r \in Request |-> IF stage[r] = "none" THEN "none" ELSE "done"]
    BY <1>11 DEF Kill
  <2>2. Running(stage') = {} /\ Entries(queue') = {} /\ Once(queue')
    BY <2>1, EmptySeq DEF Running, Executing, Entries, Once
  <2>3. /\ stage' \in [Request -> Stage]
        /\ \A r \in Request : stage'[r] # "queued"
    BY <2>1 DEF Stage
  <2>4. Agree(queue', activeWorkers', stage')
    BY <2>1, <2>2, <2>3, FS_EmptySet, EmptySeq DEF Agree
  <2>. QED
    BY <2>1, <2>4, EmptySeq, RunnerAssumption DEF Books
<1>. QED
  BY <1>2, <1>3, <1>4, <1>6, <1>7, <1>8, <1>9, <1>10, <1>11
     DEF Next, Command, CleanUp, CreatedLate, LifetimeEnds, Shutdown, vars, http

\* No answer is no refusal, and neither is a verdict.
LEMMA AnswersDiffer ==
  ASSUME NEW a
  PROVE  /\ a = <<>> => Len(a) <= 1 /\ a \notin {<<503>>, <<504>>}
         /\ \A code : a = <<code>> => Len(a) <= 1
         /\ a = <<200>> => a \notin {<<503>>, <<504>>}
<1>1. Len(<<>>) = 0
  OBVIOUS
<1>2. \A code : Len(<<code>>) = 1 /\ <<code>>[1] = code
  OBVIOUS
<1>3. ASSUME a = <<>> PROVE Len(a) <= 1 /\ a \notin {<<503>>, <<504>>}
  <2>1. Len(a) = 0
    BY <1>1, <1>3
  <2>2. ASSUME NEW code PROVE a # <<code>>
    <3>1. Len(a) # Len(<<code>>)
      BY <1>2, <2>1
    <3>. QED
      BY <3>1
  <2>. QED
    BY <2>1, <2>2
<1>4. ASSUME NEW code, a = <<code>> PROVE Len(a) <= 1
  BY <1>2, <1>4
<1>5. a = <<200>> => a \notin {<<503>>, <<504>>}
  <2>. HAVE a = <<200>>
  <2>1. a[1] = 200
    BY <1>2
  <2>2. ASSUME NEW code, code # 200 PROVE a # <<code>>
    BY <1>2, <2>1, <2>2
  <2>3. 503 # 200 /\ 504 # 200
    OBVIOUS
  <2>. QED
    BY <2>2, <2>3
<1>. QED
  BY <1>3, <1>4, <1>5

\* The first answer to a request.
LEMMA FirstAnswer ==
  ASSUME TypeOK, NEW r \in Request, NEW code \in {200, 503, 504},
         answers[r] = <<>>, Answer(r, code)
  PROVE  /\ Len(answers'[r]) <= 1
         /\ code = 200 => answers'[r] \notin {<<503>>, <<504>>}
         /\ \A s \in Request \ {r} : answers'[s] = answers[s]
<1>1. answers'[r] = <<>> \/ answers'[r] = <<code>>
  BY DEF TypeOK, Answer
<1>2. \A s \in Request \ {r} : answers'[s] = answers[s]
  BY DEF TypeOK, Answer
<1>3. Len(answers'[r]) <= 1
  BY <1>1, AnswersDiffer
<1>4. CASE code = 200
  <2>1. answers'[r] = <<>> \/ answers'[r] = <<200>>
    BY <1>1, <1>4
  <2>. QED
    BY <1>2, <1>3, <2>1, AnswersDiffer
<1>. QED
  BY <1>2, <1>3, <1>4

\* processNext leaves the answers true.
LEMMA AdmitsHonest ==
  ASSUME Inv, NEW st, NEW tr, NEW s \in Request, Admits(st, tr),
         tr \subseteq tracked, st[s] = stage[s],
         answers'[s] = answers[s], container'[s] = container[s],
         late' = late, cleanup' = cleanup
  PROVE  Honest(s)'
<1>1. Honest(s)
  BY DEF Inv, Answers
<1>2. stage'[s] \in {"none", "queued"} => stage[s] \in {"none", "queued"}
  BY DEF Admits
<1>3. stage[s] = "done" => stage'[s] = "done"
  BY DEF Admits
<1>4. s \in tracked' \ tracked => stage[s] = "queued" /\ stage'[s] = "create"
  BY DEF Admits
<1>5. answers[s] \in {<<503>>, <<504>>} => stage[s] = "done"
  BY <1>1, AnswersDiffer DEF Honest
<1>. QED
  BY <1>1, <1>2, <1>3, <1>4, <1>5 DEF Honest, Unheard

LEMMA AnswersStep ==
  ASSUME Inv, [Next]_vars
  PROVE  Answers'
<1>. SUFFICES ASSUME NEW s \in Request PROVE Honest(s)'
  BY DEF Answers
<1>1. /\ TypeOK /\ Honest(s) /\ stage \in [Request -> Stage]
      /\ container \in [Request -> {"absent", "created", "running"}]
      /\ answers \in [Request -> Seq({200, 503, 504})]
  BY DEF Inv, Answers, TypeOK
<1>2. \A r \in Request : stage[r] # "done" => answers[r] = <<>>
  BY DEF Inv, Answers, Honest
<1>3. <<>> \notin {<<503>>, <<504>>} /\ Len(<<>>) = 0
  <2>1. Len(<<>>) = 0 /\ Len(<<503>>) = 1 /\ Len(<<504>>) = 1
    OBVIOUS
  <2>. QED
    BY <2>1
<1>4. ASSUME NEW r \in Request, Arrive(r) PROVE Honest(s)'
  <2>1. /\ stage[r] = "none" /\ answers[r] = <<>>
        /\ UNCHANGED <<container, cleanup, late>>
    BY <1>2, <1>4 DEF Arrive
  <2>2. CASE Len(queue) >= MaxQueueSize
    <3>1. /\ Answer(r, 503) /\ stage' = [stage EXCEPT ![r] = "done"]
          /\ tracked' = tracked
      BY <1>4, <2>2 DEF Arrive
    <3>2. Len(answers'[r]) <= 1 /\ \A t \in Request \ {r} : answers'[t] = answers[t]
      BY <1>1, <2>1, <3>1, FirstAnswer
    <3>. QED
      BY <1>1, <2>1, <3>1, <3>2 DEF Honest, Unheard
  <2>3. CASE Len(queue) < MaxQueueSize
    <3>1. /\ Admits([stage EXCEPT ![r] = "queued"], tracked)
          /\ answers' = answers
      BY <1>4, <2>3, ArriveFacts
    <3>2. CASE s = r
      <4>1. /\ s \notin tracked => stage'[s] = "create" \/ s \notin tracked'
            /\ stage'[s] \in {"queued", "done", "create"}
        BY <1>1, <3>1, <3>2 DEF Admits
      <4>. QED
        BY <1>1, <1>3, <2>1, <3>1, <3>2, <4>1 DEF Honest, Unheard
    <3>3. CASE s # r
      <4>1. [stage EXCEPT ![r] = "queued"][s] = stage[s]
        BY <1>1, <3>3
      <4>. QED
        BY <2>1, <3>1, <4>1, AdmitsHonest
    <3>. QED
      BY <3>2, <3>3
  <2>. QED
    <3>1. Len(queue) \in Nat /\ MaxQueueSize \in Nat
      BY <1>1, RunnerAssumption DEF TypeOK
    <3>. QED
      BY <2>2, <2>3, <3>1
<1>5. ASSUME NEW r \in Request, TimeOut(r) PROVE Honest(s)'
  <2>1. /\ stage[r] = "queued" /\ answers[r] = <<>> /\ Answer(r, 504)
        /\ stage' = [stage EXCEPT ![r] = "done"]
        /\ UNCHANGED <<container, tracked, cleanup, late>>
    BY <1>2, <1>5 DEF TimeOut, docker
  <2>2. Len(answers'[r]) <= 1 /\ \A t \in Request \ {r} : answers'[t] = answers[t]
    BY <1>1, <2>1, FirstAnswer
  <2>. QED
    BY <1>1, <2>1, <2>2 DEF Honest, Unheard
<1>6. ASSUME NEW r \in Request, Disconnect(r) PROVE Honest(s)'
  BY <1>1, <1>6 DEF Disconnect, docker, Honest, Unheard
<1>7. ASSUME NEW r \in Request, NEW st \in Executing, stage[r] \in Executing,
             stage' = [stage EXCEPT ![r] = st],
             answers' = answers, tracked' = tracked, cleanup' = cleanup,
             late' \subseteq late \cup {r},
             \A t \in Request \ {r} : container'[t] = container[t]
      PROVE  Honest(s)'
  <2>1. CASE s = r
    <3>1. answers'[s] = <<>> /\ stage'[s] \in Executing
      BY <1>1, <1>2, <1>7, <2>1 DEF Executing
    <3>. QED
      BY <1>3, <3>1 DEF Honest, Executing
  <2>2. CASE s # r
    BY <1>1, <1>7, <2>2 DEF Honest, Unheard
  <2>. QED
    BY <2>1, <2>2
<1>8. ASSUME NEW r \in Request, Create(r) PROVE Honest(s)'
  <2>1. /\ stage[r] \in Executing
        /\ GoTo(r, "start") \/ GoTo(r, "remove")
        /\ Become(r, "created") \/ UNCHANGED container
        /\ late' \subseteq late \cup {r}
    BY <1>8 DEF Create, Executing
  <2>2. \A t \in Request \ {r} : container'[t] = container[t]
    BY <1>1, <2>1 DEF Become
  <2>. QED
    BY <1>7, <2>1, <2>2 DEF GoTo, Executing
<1>9. ASSUME NEW r \in Request, Start(r) PROVE Honest(s)'
  <2>1. /\ stage[r] \in Executing
        /\ GoTo(r, "work") \/ GoTo(r, "remove")
        /\ Become(r, "running") \/ UNCHANGED container
        /\ late' = late
    BY <1>9 DEF Start, Executing
  <2>2. \A t \in Request \ {r} : container'[t] = container[t]
    BY <1>1, <2>1 DEF Become
  <2>. QED
    BY <1>7, <2>1, <2>2 DEF GoTo, Executing
<1>10. ASSUME NEW r \in Request, Work(r) PROVE Honest(s)'
  <2>1. /\ stage[r] \in Executing /\ GoTo(r, "remove")
        /\ container' = container /\ late' = late
    BY <1>10 DEF Work, Executing
  <2>. QED
    BY <1>7, <2>1 DEF GoTo, Executing
<1>11. ASSUME NEW r \in Request, Remove(r) PROVE Honest(s)'
  <2>1. /\ stage[r] = "remove" /\ answers[r] = <<>> /\ Answer(r, 200)
        /\ UNCHANGED <<cleanup, late>>
    BY <1>2, <1>11 DEF Remove
  <2>2. PICK removed \in BOOLEAN :
          /\ RemoveContainer(r, removed)
          /\ Admits([stage EXCEPT ![r] = "done"], Untracked(r, removed))
    BY <1>11, RemoveFacts
  <2>3. /\ Len(answers'[r]) <= 1 /\ answers'[r] \notin {<<503>>, <<504>>}
        /\ \A t \in Request \ {r} : answers'[t] = answers[t]
    BY <1>1, <2>1, FirstAnswer
  <2>4. CASE s = r
    <3>1. stage'[s] = "done"
      BY <1>1, <2>2, <2>4 DEF Admits
    <3>. QED
      BY <2>3, <2>4, <3>1 DEF Honest
  <2>5. CASE s # r
    <3>1. /\ [stage EXCEPT ![r] = "done"][s] = stage[s]
          /\ container'[s] = container[s]
          /\ Untracked(r, removed) \subseteq tracked
      BY <1>1, <2>2, <2>5 DEF RemoveContainer, Become, Untracked
    <3>. QED
      BY <2>1, <2>2, <2>3, <2>5, <3>1, AdmitsHonest
  <2>. QED
    BY <2>4, <2>5
<1>12. ASSUME NEW r \in Request, CleanUp(r) PROVE Honest(s)'
  <2>1. /\ UNCHANGED <<stage, answers, late>> /\ cleanup' \subseteq cleanup
        /\ tracked' \subseteq tracked
        /\ container'[s] = "absent" \/ container'[s] = container[s]
    BY <1>1, <1>12 DEF CleanUp, http, RemoveContainer, Become, Untracked
  <2>. QED
    BY <1>1, <2>1 DEF Honest, Unheard
<1>13. ASSUME NEW r \in Request, CreatedLate(r) PROVE Honest(s)'
  <2>1. /\ UNCHANGED <<stage, answers, tracked, cleanup>> /\ r \in late
        /\ late' = late \ {r} /\ container' = [container EXCEPT ![r] = "created"]
    BY <1>13 DEF CreatedLate, http, Become
  <2>. QED
    BY <1>1, <2>1 DEF Honest, Unheard
<1>14. ASSUME NEW r \in Request, LifetimeEnds(r) PROVE Honest(s)'
  BY <1>1, <1>14 DEF LifetimeEnds, http, Become, Honest, Unheard
<1>15. CASE Shutdown
  BY <1>1, <1>15 DEF Shutdown, http, docker, Honest, Unheard
<1>16. CASE Kill
  <2>1. /\ container'[s] \in AfterKill(s) /\ answers' = answers /\ late' = late
        /\ stage'[s] = (IF stage[s] = "none" THEN "none" ELSE "done")
        /\ tracked' = {} /\ cleanup' = {}
    BY <1>16 DEF Kill
  <2>2. answers[s] # <<>> => stage[s] = "done"
    BY <1>1 DEF Honest
  <2>3. Unheard(s) /\ stage[s] \in {"none", "queued", "done"} => container'[s] = "absent"
    BY <2>1 DEF Unheard, AfterKill
  <2>. QED
    BY <1>1, <1>3, <2>1, <2>2, <2>3 DEF Honest, Unheard
<1>17. CASE UNCHANGED vars
  BY <1>1, <1>17 DEF vars, Honest, Unheard
<1>. QED
  BY <1>4, <1>5, <1>6, <1>8, <1>9, <1>10, <1>11, <1>12, <1>13, <1>14, <1>15, <1>16, <1>17
     DEF Next, Command

\* While the executions stay tracked and no container gets lost, the books of
\* the containers stay right.
LEMMA ContainersHold ==
  ASSUME Inv, server' = "up" => server = "up", cleanup' = cleanup, late' = late,
         lateCreates' = lateCreates,
         server = "up" => Running(stage') \subseteq tracked' /\ Stray' \subseteq Stray
  PROVE  Containers'
<1>. SUFFICES ASSUME server' = "up"
              PROVE  /\ cleanup' = {}
                     /\ Running(stage') \subseteq tracked'
                     /\ IsFiniteSet(Stray') /\ IsFiniteSet(late')
                     /\ Cardinality(Stray') + Cardinality(late') <= lateCreates'
  BY DEF Containers
<1>1. /\ cleanup = {}
      /\ IsFiniteSet(Stray) /\ IsFiniteSet(late)
      /\ Cardinality(Stray) + Cardinality(late) <= lateCreates
      /\ lateCreates \in Nat
  BY DEF Inv, Containers, TypeOK
<1>2. IsFiniteSet(Stray') /\ Cardinality(Stray') <= Cardinality(Stray)
  BY <1>1, FS_Subset
<1>3. /\ Cardinality(Stray) \in Nat /\ Cardinality(late) \in Nat
      /\ Cardinality(Stray') \in Nat
  BY <1>1, <1>2, FS_CardinalityType
<1>. QED
  BY <1>1, <1>2, <1>3

\* The requests processNext starts are tracked.
LEMMA AdmitsTracked ==
  ASSUME NEW st, NEW tr, Admits(st, tr), Running(st) \subseteq tr
  PROVE  Running(stage') \subseteq tracked'
BY DEF Admits, Running, Executing

LEMMA ContainersStep ==
  ASSUME Inv, [Next]_vars
  PROVE  Containers'
<1>1. /\ stage \in [Request -> Stage]
      /\ container \in [Request -> {"absent", "created", "running"}]
      /\ tracked \in SUBSET Request /\ lateCreates \in Nat
  BY DEF Inv, TypeOK
<1>2. server = "up" =>
        /\ cleanup = {}
        /\ Running(stage) \subseteq tracked
        /\ IsFiniteSet(Stray) /\ IsFiniteSet(late)
        /\ Cardinality(Stray) + Cardinality(late) <= lateCreates
  BY DEF Inv, Containers
<1>3. ASSUME NEW r \in Request, Arrive(r) PROVE Containers'
  <2>1. UNCHANGED <<server, container, cleanup, late, lateCreates>> /\ stage[r] = "none"
    BY <1>3 DEF Arrive
  <2>2. CASE Len(queue) >= MaxQueueSize
    <3>1. stage' = [stage EXCEPT ![r] = "done"] /\ tracked' = tracked
      BY <1>3, <2>2 DEF Arrive
    <3>2. Running(stage') = Running(stage) /\ Stray' = Stray
      BY <1>1, <2>1, <3>1 DEF Running, Executing, Stray
    <3>. QED
      BY <1>2, <2>1, <3>1, <3>2, ContainersHold
  <2>3. CASE Len(queue) < MaxQueueSize
    <3>1. Admits([stage EXCEPT ![r] = "queued"], tracked)
      BY <1>3, <2>3, ArriveFacts
    <3>2. Running([stage EXCEPT ![r] = "queued"]) \subseteq Running(stage)
      BY <1>1 DEF Running, Executing
    <3>3. server = "up" => Running(stage') \subseteq tracked'
      BY <1>2, <3>1, <3>2, AdmitsTracked
    <3>4. Stray' \subseteq Stray
      BY <2>1, <3>1 DEF Stray, Admits
    <3>. QED
      BY <2>1, <3>3, <3>4, ContainersHold
  <2>. QED
    <3>1. Len(queue) \in Nat /\ MaxQueueSize \in Nat
      BY RunnerAssumption DEF Inv, TypeOK
    <3>. QED
      BY <2>2, <2>3, <3>1
<1>4. ASSUME NEW r \in Request, TimeOut(r) PROVE Containers'
  <2>1. /\ UNCHANGED <<server, container, tracked, cleanup, late, lateCreates>>
        /\ stage[r] = "queued" /\ stage' = [stage EXCEPT ![r] = "done"]
    BY <1>4 DEF TimeOut, docker
  <2>2. Running(stage') = Running(stage) /\ Stray' = Stray
    BY <1>1, <2>1 DEF Running, Executing, Stray
  <2>. QED
    BY <1>2, <2>1, <2>2, ContainersHold
<1>5. ASSUME NEW r \in Request, Disconnect(r) PROVE Containers'
  <2>1. UNCHANGED <<server, stage, container, tracked, cleanup, late, lateCreates>>
    BY <1>5 DEF Disconnect, docker
  <2>2. Running(stage') = Running(stage) /\ Stray' = Stray
    BY <2>1 DEF Stray
  <2>. QED
    BY <1>2, <2>1, <2>2, ContainersHold
<1>6. ASSUME NEW r \in Request, NEW st \in Executing, stage[r] \in Executing, GoTo(r, st),
             \A t \in Request \ {r} : container'[t] = container[t]
      PROVE  /\ UNCHANGED <<server, tracked, cleanup>>
             /\ Running(stage') = Running(stage)
             /\ server = "up" => Stray' \subseteq Stray
  <2>1. /\ UNCHANGED <<server, tracked, cleanup>>
        /\ stage' = [stage EXCEPT ![r] = st]
    BY <1>6 DEF GoTo
  <2>2. Running(stage') = Running(stage) /\ r \in Running(stage)
    BY <1>1, <1>6, <2>1 DEF Running
  <2>3. server = "up" => r \in tracked
    BY <1>2, <2>2
  <2>. QED
    BY <1>6, <2>1, <2>2, <2>3 DEF Stray
<1>7. ASSUME NEW r \in Request, Create(r) PROVE Containers'
  <2>1. /\ stage[r] \in Executing
        /\ GoTo(r, "start") \/ GoTo(r, "remove")
        /\ \A t \in Request \ {r} : container'[t] = container[t]
    BY <1>1, <1>7 DEF Create, Executing, Become
  <2>2. /\ UNCHANGED <<server, tracked, cleanup>>
        /\ Running(stage') = Running(stage)
        /\ server = "up" => Stray' \subseteq Stray
    BY <1>6, <2>1 DEF Executing
  <2>3. CASE UNCHANGED <<late, lateCreates>>
    BY <1>2, <2>2, <2>3, ContainersHold
  <2>4. CASE late' = late \cup {r} /\ lateCreates' = lateCreates + 1
    <3>. SUFFICES ASSUME server = "up"
                  PROVE  /\ IsFiniteSet(Stray') /\ IsFiniteSet(late')
                         /\ Cardinality(Stray') + Cardinality(late') <= lateCreates'
      BY <1>2, <2>2 DEF Containers
    <3>1. IsFiniteSet(Stray') /\ Cardinality(Stray') <= Cardinality(Stray)
      BY <1>2, <2>2, FS_Subset
    <3>2. /\ IsFiniteSet(late \cup {r})
          /\ Cardinality(late \cup {r})
               = IF r \in late THEN Cardinality(late) ELSE Cardinality(late) + 1
      BY <1>2, FS_AddElement
    <3>3. /\ Cardinality(Stray) \in Nat /\ Cardinality(late) \in Nat
          /\ Cardinality(Stray') \in Nat
      BY <1>2, <3>1, FS_CardinalityType
    <3>4. IsFiniteSet(late') /\ Cardinality(late') \in Nat
          /\ Cardinality(late') <= Cardinality(late) + 1
      BY <2>4, <3>2, <3>3
    <3>. QED
      BY <1>1, <1>2, <2>4, <3>1, <3>3, <3>4
  <2>. QED
    BY <1>7, <2>3, <2>4 DEF Create
<1>8. ASSUME NEW r \in Request, Start(r) PROVE Containers'
  <2>1. /\ stage[r] \in Executing
        /\ GoTo(r, "work") \/ GoTo(r, "remove")
        /\ Become(r, "running") \/ UNCHANGED container
        /\ UNCHANGED <<late, lateCreates>>
    BY <1>8 DEF Start, Executing
  <2>2. \A t \in Request \ {r} : container'[t] = container[t]
    BY <1>1, <2>1 DEF Become
  <2>3. /\ UNCHANGED <<server, tracked, cleanup>>
        /\ Running(stage') = Running(stage)
        /\ server = "up" => Stray' \subseteq Stray
    BY <1>6, <2>1, <2>2 DEF Executing
  <2>. QED
    BY <1>2, <2>1, <2>3, ContainersHold
<1>9. ASSUME NEW r \in Request, Work(r) PROVE Containers'
  <2>1. /\ stage[r] \in Executing /\ GoTo(r, "remove")
        /\ UNCHANGED <<container, late, lateCreates>>
    BY <1>9 DEF Work, Executing
  <2>2. /\ UNCHANGED <<server, tracked, cleanup>>
        /\ Running(stage') = Running(stage)
        /\ server = "up" => Stray' \subseteq Stray
    BY <1>6, <2>1 DEF Executing
  <2>. QED
    BY <1>2, <2>1, <2>2, ContainersHold
<1>10. ASSUME NEW r \in Request, Remove(r) PROVE Containers'
  <2>1. stage[r] = "remove" /\ UNCHANGED <<server, cleanup, late, lateCreates>>
    BY <1>10 DEF Remove
  <2>2. PICK removed \in BOOLEAN :
          /\ RemoveContainer(r, removed)
          /\ Admits([stage EXCEPT ![r] = "done"], Untracked(r, removed))
    BY <1>10, RemoveFacts
  <2>3. r \in Running(stage) /\ Running([stage EXCEPT ![r] = "done"]) = Running(stage) \ {r}
    BY <1>1, <2>1 DEF Running, Executing
  <2>4. server = "up" => Running([stage EXCEPT ![r] = "done"]) \subseteq Untracked(r, removed)
    BY <1>2, <2>3 DEF Untracked
  <2>5. server = "up" => Running(stage') \subseteq tracked'
    BY <2>2, <2>4, AdmitsTracked
  <2>6. server = "up" => Stray' \subseteq Stray
    <3>. SUFFICES ASSUME server = "up", NEW x \in Request, container'[x] # "absent",
                         x \notin tracked'
                  PROVE  container[x] # "absent" /\ x \notin tracked
      BY DEF Stray
    <3>1. x \notin Untracked(r, removed)
      BY <2>2 DEF Admits
    <3>2. x # r
      BY <1>1, <1>2, <2>2, <2>3, <3>1 DEF RemoveContainer, Become, Untracked
    <3>. QED
      BY <1>1, <2>2, <3>1, <3>2 DEF RemoveContainer, Become, Untracked
  <2>. QED
    BY <2>1, <2>5, <2>6, ContainersHold
<1>11. ASSUME NEW r \in Request, CleanUp(r) PROVE Containers'
  <2>1. server # "up" /\ server' = server
    BY <1>2, <1>11 DEF CleanUp
  <2>. QED
    BY <2>1 DEF Containers
<1>12. ASSUME NEW r \in Request, CreatedLate(r) PROVE Containers'
  <2>1. /\ r \in late /\ late' = late \ {r}
        /\ container' = [container EXCEPT ![r] = "created"]
        /\ UNCHANGED <<server, stage, tracked, cleanup, lateCreates>>
    BY <1>12 DEF CreatedLate, Become, http
  <2>. SUFFICES ASSUME server = "up"
                PROVE  /\ IsFiniteSet(Stray') /\ IsFiniteSet(late')
                       /\ Cardinality(Stray') + Cardinality(late') <= lateCreates'
    BY <1>2, <2>1 DEF Containers
  <2>2. Stray' \subseteq Stray \cup {r}
    BY <1>1, <2>1 DEF Stray
  <2>3. /\ IsFiniteSet(Stray \cup {r})
        /\ Cardinality(Stray \cup {r})
             = IF r \in Stray THEN Cardinality(Stray) ELSE Cardinality(Stray) + 1
    BY <1>2, FS_AddElement
  <2>4. IsFiniteSet(Stray') /\ Cardinality(Stray') <= Cardinality(Stray \cup {r})
    BY <2>2, <2>3, FS_Subset
  <2>5. /\ IsFiniteSet(late \ {r})
        /\ Cardinality(late \ {r}) = Cardinality(late) - 1
    BY <1>2, <2>1, FS_RemoveElement
  <2>6. /\ Cardinality(Stray) \in Nat /\ Cardinality(late) \in Nat
        /\ Cardinality(Stray') \in Nat
    BY <1>2, <2>4, FS_CardinalityType
  <2>7. Cardinality(Stray') <= Cardinality(Stray) + 1
    BY <2>3, <2>4, <2>6
  <2>. QED
    BY <1>1, <1>2, <2>1, <2>4, <2>5, <2>6, <2>7
<1>13. ASSUME NEW r \in Request, LifetimeEnds(r) PROVE Containers'
  <2>1. /\ container' = [container EXCEPT ![r] = "absent"]
        /\ UNCHANGED <<server, stage, tracked, cleanup, late, lateCreates>>
    BY <1>13 DEF LifetimeEnds, Become, http
  <2>2. Running(stage') = Running(stage) /\ Stray' \subseteq Stray
    BY <1>1, <2>1 DEF Stray
  <2>. QED
    BY <1>2, <2>1, <2>2, ContainersHold
<1>14. CASE Shutdown
  BY <1>14 DEF Shutdown, Containers
<1>15. CASE Kill
  BY <1>15 DEF Kill, Containers
<1>16. CASE UNCHANGED vars
  <2>1. UNCHANGED <<server, stage, container, tracked, cleanup, late, lateCreates>>
    BY <1>16 DEF vars
  <2>2. Running(stage') = Running(stage) /\ Stray' = Stray
    BY <2>1 DEF Stray
  <2>. QED
    BY <1>2, <2>1, <2>2, ContainersHold
<1>. QED
  BY <1>3, <1>4, <1>5, <1>7, <1>8, <1>9, <1>10, <1>11, <1>12, <1>13, <1>14, <1>15, <1>16
     DEF Next, Command

-----------------------------------------------------------------------------
(* Theorems *)

THEOREM Invariance == Spec => []Inv
<1>1. Init => Inv
  BY InitInv
<1>2. Inv /\ [Next]_vars => Inv'
  BY TypeStep, BooksStep, AnswersStep, ContainersStep DEF Inv
<1>. QED
  BY <1>1, <1>2, PTL DEF Spec

\* The state of a runner service has its types.
THEOREM TypeCorrect == Spec => []TypeOK
<1>1. Inv => TypeOK
  BY DEF Inv
<1>. QED
  BY <1>1, Invariance, PTL

\* The counter of active workers and the queue agree with the requests, whatever
\* the number of workers and places: neither limit is ever passed, and no request
\* waits while a worker is free.
THEOREM BooksAreExact == Spec => []BooksExact
<1>1. Inv => BooksExact
  <2>. SUFFICES ASSUME Inv PROVE BooksExact
    OBVIOUS
  <2>. DEFINE Waiting == {r \in Request : stage[r] = "queued"}
  <2>1. /\ queue \in Seq(Request) /\ Once(queue) /\ Len(queue) \in Nat
        /\ DOMAIN queue = 1 .. Len(queue)
        /\ \A r \in Request : stage[r] = "queued" <=> r \in Entries(queue)
    BY DEF Inv, Books, Agree
  <2>2. Entries(queue) = Waiting
    BY <2>1 DEF Entries
  <2>3. queue \in Bijection(1 .. Len(queue), Waiting)
    <3>1. queue \in [1 .. Len(queue) -> Waiting]
      BY <2>1, <2>2 DEF Entries
    <3>2. \A a, b \in 1 .. Len(queue) : queue[a] = queue[b] => a = b
      BY <2>1 DEF Once
    <3>3. \A r \in Waiting : \E a \in 1 .. Len(queue) : queue[a] = r
      BY <2>2 DEF Entries
    <3>. QED
      BY <3>1, <3>2, <3>3, Fun_IsBij
  <2>4. Len(queue) = Cardinality(Waiting)
    <3>1. IsFiniteSet(1 .. Len(queue)) /\ Cardinality(1 .. Len(queue)) = Len(queue)
      BY <2>1, FS_Interval
    <3>. QED
      BY <2>3, <3>1, FS_Bijection DEF ExistsBijection
  <2>5. {queue[i] : i \in DOMAIN queue} = Waiting
    BY <2>1, <2>2 DEF Entries
  <2>. QED
    BY <2>4, <2>5 DEF Inv, Books, Agree, BooksExact, Running
<1>. QED
  BY <1>1, Invariance, PTL

\* A response is written at most once, and a refused request (the queue was full,
\* or it waited too long) never got a container.
THEOREM AnswersAreTrue == Spec => []AnsweredOnce
<1>1. Inv => AnsweredOnce
  BY DEF Inv, Answers, Honest, Unheard, AnsweredOnce
<1>. QED
  BY <1>1, Invariance, PTL

\* While the server is up it tracks every container that exists, but for one for
\* each creation that took effect after its command was killed.
THEOREM ContainersAreTracked == Spec => []ContainersTracked
<1>1. Inv => ContainersTracked
  <2>. SUFFICES ASSUME Inv, server = "up"
                PROVE  /\ \A r \in Request : stage[r] \in Executing => r \in tracked
                       /\ Cardinality(Stray) <= lateCreates - Cardinality(late)
    BY DEF ContainersTracked, Stray
  <2>1. /\ IsFiniteSet(Stray) /\ IsFiniteSet(late)
        /\ Cardinality(Stray) + Cardinality(late) <= lateCreates
        /\ Running(stage) \subseteq tracked /\ lateCreates \in Nat
    BY DEF Inv, Containers, TypeOK
  <2>2. Cardinality(Stray) \in Nat /\ Cardinality(late) \in Nat
    BY <2>1, FS_CardinalityType
  <2>3. Cardinality(Stray) <= lateCreates - Cardinality(late)
    BY <2>1, <2>2
  <2>. QED
    BY <2>1, <2>3 DEF Running
<1>. QED
  BY <1>1, Invariance, PTL

\* No step starts work for a request whose client is gone: it only ends, or goes
\* to the removal of its container.
THEOREM NothingForTheGone == Spec => NoWorkForTheGone
<1>1. Inv /\ [Next]_vars =>
        [\A r \in gone : stage'[r] \in {stage[r], "remove", "done"}]_vars
  <2>. SUFFICES ASSUME Inv, Next, NEW s \in gone
                PROVE  stage'[s] \in {stage[s], "remove", "done"}
    OBVIOUS
  <2>1. stage \in [Request -> Stage] /\ s \in Request /\ stage[s] # "none"
    BY DEF Inv, TypeOK, Books
  <2>2. ASSUME NEW r \in Request, NEW st, NEW tr, Admits(st, tr),
               st[s] \in {stage[s], "done"}
        PROVE  stage'[s] \in {stage[s], "remove", "done"}
    BY <2>1, <2>2 DEF Admits
  <2>3. ASSUME NEW r \in Request, Arrive(r)
        PROVE  stage'[s] \in {stage[s], "remove", "done"}
    <3>1. r # s /\ stage[r] = "none"
      BY <2>1, <2>3 DEF Arrive
    <3>2. CASE Len(queue) >= MaxQueueSize
      BY <2>1, <2>3, <3>2 DEF Arrive
    <3>3. CASE Len(queue) < MaxQueueSize
      <4>1. Admits([stage EXCEPT ![r] = "queued"], tracked)
        BY <2>3, <3>3, ArriveFacts
      <4>2. [stage EXCEPT ![r] = "queued"][s] = stage[s]
        BY <2>1, <3>1
      <4>. QED
        BY <2>2, <4>1, <4>2
    <3>. QED
      <4>1. Len(queue) \in Nat /\ MaxQueueSize \in Nat
        BY RunnerAssumption DEF Inv, TypeOK
      <4>. QED
        BY <3>2, <3>3, <4>1
  <2>4. ASSUME NEW r \in Request, Remove(r)
        PROVE  stage'[s] \in {stage[s], "remove", "done"}
    <3>1. PICK removed \in BOOLEAN :
            Admits([stage EXCEPT ![r] = "done"], Untracked(r, removed))
      BY <2>4, RemoveFacts
    <3>2. [stage EXCEPT ![r] = "done"][s] \in {stage[s], "done"}
      BY <2>1
    <3>. QED
      BY <2>2, <3>1, <3>2
  <2>5. ASSUME NEW r \in Request, Create(r) \/ Start(r) \/ Work(r)
        PROVE  stage'[s] \in {stage[s], "remove", "done"}
    BY <2>1, <2>5 DEF Create, Start, Work, GoTo, Proceeds
  <2>6. ASSUME NEW r \in Request, TimeOut(r)
        PROVE  stage'[s] \in {stage[s], "remove", "done"}
    BY <2>1, <2>6 DEF TimeOut
  <2>7. CASE Kill
    BY <2>1, <2>7 DEF Kill
  <2>8. CASE stage' = stage
    BY <2>8
  <2>. QED
    BY <2>3, <2>4, <2>5, <2>6, <2>7, <2>8
       DEF Next, Command, Disconnect, CleanUp, CreatedLate, LifetimeEnds, Shutdown, http
<1>. QED
  BY <1>1, Invariance, PTL DEF Spec, NoWorkForTheGone
=============================================================================
