---------------------------- MODULE AlgorithmProofs ----------------------------
(***************************************************************************)
(* The algorithms, for inputs of any size: the live pulse, hints and the   *)
(* panel that offers them, the deployment checks, scores and answers of    *)
(* the runner services and what is shown of them, verdicts on programs,    *)
(* evidence, where visitors get and what the pages tell of a school; and   *)
(* with them every invariant of the cases that MCAlgorithms enumerates.    *)
(***************************************************************************)
EXTENDS AlgorithmFacts, FiniteSetTheorems, FunctionTheorems, SequenceTheorems, TLAPS

-----------------------------------------------------------------------------
(* The live pulse (LivePulse.tla).                                          *)

LEMMA LeastOf ==
  ASSUME NEW S \in SUBSET Nat, S # {}
  PROVE  L!Min(S) \in S /\ \A n \in S : L!Min(S) <= n
<1>1. PICK m \in S : \A n \in S : ~(<<n, m>> \in OpToRel(<, Nat)) BY NatLessThanWellFounded, WFMin
<1>2. \A n \in S : ~(n < m) BY <1>1 DEF OpToRel
<1>3. \A n \in S : m <= n BY <1>2
<1>4. \E x \in S : \A y \in S : x <= y BY <1>3
<1>. QED BY <1>4 DEF L!Min

\* Cardinality is the same operator whichever module it is used in.
LEMMA OneCardinality ==
  ASSUME NEW S
  PROVE  L!Cardinality(S) = Cardinality(S)
BY DEF L!Cardinality, Cardinality

LEMMA LatestFacts ==
  ASSUME NEW Row, NEW rows \in Seq(Row), NEW n \in Nat \ {0}
  PROVE  /\ L!Latest(rows, n) \subseteq DOMAIN rows
         /\ L!Latest(rows, n) = {} => rows = <<>>
         /\ L!Latest(rows, n) # {} => 1 \in L!Latest(rows, n)
         /\ L!Latest(rows, n) \in SUBSET Nat /\ IsFiniteSet(L!Latest(rows, n))
         /\ \A i \in DOMAIN rows, j \in L!Latest(rows, n) : i <= j => i \in L!Latest(rows, n)
<1>. DEFINE m == IF Len(rows) < n THEN Len(rows) ELSE n
<1>1. L!Latest(rows, n) = 1 .. m /\ m \in Nat /\ m <= Len(rows) /\ DOMAIN rows = 1 .. Len(rows)
  BY DEF L!Latest
<1>2. IsFiniteSet(1 .. m) BY <1>1, FS_Interval
<1>. QED BY <1>1, <1>2

\* The runs that count as failed are a number of runs; if it is not 0, the latest run
\* that ended is one of them.
LEMMA FailedFacts ==
  ASSUME NEW End, NEW runs \in Seq(End)
  PROVE  /\ L!ConsecutiveFailed(runs) \in Nat
         /\ L!ConsecutiveFailed(runs) # 0 =>
              LET ended == {r \in DOMAIN runs : runs[r] # None} IN
              ended # {} /\ runs[L!Min(ended)] # "passed"
<1>. DEFINE recent == {i \in L!Latest(runs, 5) : runs[i] # None}
            failed == {i \in recent : \A j \in recent : runs[j] = "passed" => i < j}
            ended == {r \in DOMAIN runs : runs[r] # None}
<1>1. /\ recent \in SUBSET ended /\ ended \in SUBSET Nat
      /\ \A i \in ended, j \in recent : i <= j => i \in recent
      /\ IsFiniteSet(L!Latest(runs, 5))
  BY LatestFacts
<1>2. failed \in SUBSET L!Latest(runs, 5) OBVIOUS
<1>3. /\ L!ConsecutiveFailed(runs) = Cardinality(failed)
      /\ Cardinality(failed) \in Nat /\ (Cardinality(failed) # 0 => failed # {})
  <2>1. L!ConsecutiveFailed(runs) = L!Cardinality(failed) BY DEF L!ConsecutiveFailed
  <2>2. IsFiniteSet(failed) BY <1>1, <1>2, FS_Subset
  <2>. QED BY <2>1, <2>2, OneCardinality, FS_CardinalityType, FS_EmptySet
<1>4. ASSUME failed # {} PROVE ended # {} /\ runs[L!Min(ended)] # "passed"
  <2>1. PICK i \in failed : TRUE BY <1>4
  <2>2. i \in ended /\ i \in recent BY <1>1, <2>1
  <2>3. L!Min(ended) \in ended /\ L!Min(ended) <= i BY <1>1, <2>2, LeastOf
  <2>4. L!Min(ended) \in recent BY <1>1, <2>2, <2>3
  <2>. QED BY <1>1, <2>1, <2>2, <2>3, <2>4
<1>. HIDE DEF recent, failed, ended
<1>5. QED BY <1>3, <1>4 DEF ended

LEMMA LatestDateFacts ==
  ASSUME NEW a \in Int \cup {None}, NEW b \in Int \cup {None}, NEW c \in Int \cup {None},
         None \notin Int
  PROVE  LET t == L!LatestDate({None, a, b, c}) IN
         /\ t \in {None, a, b, c}
         /\ \A x \in {a, b, c} \ {None} : t # None /\ x <= t
<1>. DEFINE times == {None, a, b, c}
            t == L!LatestDate(times)
<1>1. CASE times = {None}
  <2>1. t = None BY <1>1 DEF L!LatestDate
  <2>. QED BY <1>1, <2>1
<1>2. CASE times # {None}
  <2>1. t = CHOOSE x \in times \ {None} : \A u \in times \ {None} : u <= x BY <1>2 DEF L!LatestDate
  <2>2. \E x \in times \ {None} : \A u \in times \ {None} : u <= x
    <3>1. \A x, y, z \in Int : \E m \in {x, y, z} : \A u \in {x, y, z} : u <= m OBVIOUS
    <3>2. \E x, y, z \in Int : times \ {None} = {x, y, z} BY <1>2
    <3>. QED BY <3>1, <3>2
  <2>3. t \in times \ {None} /\ \A u \in times \ {None} : u <= t BY <2>1, <2>2
  <2>. QED BY <2>3
<1>. QED BY <1>1, <1>2

\* The session looked at is one of the latest, the only active one if there is one.
LEMMA LookedFacts ==
  ASSUME NEW Row, NEW student, student.sessions \in Seq(Row),
         \A i \in DOMAIN student.sessions : student.sessions[i] # None
  PROVE  /\ L!Looked(student) # None =>
              \E i \in DOMAIN student.sessions : L!Looked(student) = student.sessions[i]
         /\ \A s \in L!Latest(student.sessions, 3) :
              /\ student.sessions[s].status = "ACTIVE"
              /\ \A o \in DOMAIN student.sessions \ {s} : student.sessions[o].status # "ACTIVE"
              => L!Looked(student) = student.sessions[s]
<1>. DEFINE latest == L!Latest(student.sessions, 3)
            active == {i \in latest : student.sessions[i].status = "ACTIVE"}
<1>1. /\ latest \subseteq DOMAIN student.sessions /\ active \subseteq latest
      /\ latest \in SUBSET Nat
      /\ latest # {} => 1 \in latest
  BY LatestFacts
<1>2. active # {} => L!Min(active) \in active BY <1>1, LeastOf
<1>3. L!Looked(student) =
        IF latest = {} THEN None ELSE student.sessions[IF active = {} THEN 1 ELSE L!Min(active)]
  BY DEF L!Looked
<1>. HIDE DEF latest
<1>4. L!Looked(student) # None =>
        \E i \in DOMAIN student.sessions : L!Looked(student) = student.sessions[i]
  BY <1>1, <1>2, <1>3
<1>5. ASSUME NEW s \in latest, student.sessions[s].status = "ACTIVE",
             \A o \in DOMAIN student.sessions \ {s} : student.sessions[o].status # "ACTIVE"
      PROVE  L!Looked(student) = student.sessions[s]
  <2>1. active = {s} BY <1>1, <1>5
  <2>2. L!Min(active) = s BY <1>2, <2>1
  <2>. QED BY <1>3, <2>1, <2>2
<1>. QED BY <1>4, <1>5 DEF latest

\* What the page takes from the rows of a student.
LEMMA SignalFacts ==
  ASSUME NEW Status, NEW End, NEW Choice, NEW student \in PulseStudent(Status, End, Choice),
         NEW now \in Int, None \notin Int, Past(student, now),
         \A i \in DOMAIN student.sessions : student.sessions[i] # None
  PROVE  LET signal == L!Signal(student)
             session == L!Looked(student)
         IN /\ signal.executing \in BOOLEAN /\ signal.active \in BOOLEAN
            /\ signal.failed \in Nat
            /\ signal.submitted = student.submitted
            /\ signal.submitted # None =>
                 signal.submitted \in Int /\ signal.last # None /\ signal.submitted <= signal.last
            /\ signal.last # None => signal.last \in Int /\ signal.last <= now
            /\ session # None =>
                 /\ signal.active = (session.status = "ACTIVE")
                 /\ signal.last # None /\ session.touched <= signal.last
                 /\ session.runs \in Seq(End)
                 /\ signal.failed = L!ConsecutiveFailed(session.runs)
            /\ session = None => signal.failed = 0
<1>. DEFINE session == L!Looked(student)
            touched == IF session = None THEN None ELSE session.touched
<1>1. /\ student.sessions \in Seq(PulseSession(Status, End))
      /\ student.submitted \in Int \cup {None} /\ student.hinted \in Int \cup {None}
  BY DEF PulseStudent
<1>2. session # None => session \in PulseSession(Status, End) /\ session.touched <= now
  <2>1. session # None => \E i \in DOMAIN student.sessions : session = student.sessions[i]
    BY <1>1, LookedFacts
  <2>2. \A i \in DOMAIN student.sessions : student.sessions[i] \in PulseSession(Status, End) BY <1>1
  <2>. QED BY <2>1, <2>2 DEF Past
<1>3. session # None => /\ session.touched \in Int /\ session.queued \in BOOLEAN
                        /\ session.runs \in Seq(End)
  BY <1>2 DEF PulseSession
<1>. HIDE DEF session
<1>4. L!Signal(student) =
        [executing |-> session # None /\ session.queued,
         active |-> session # None /\ session.status = "ACTIVE",
         failed |-> IF session = None THEN 0 ELSE L!ConsecutiveFailed(session.runs),
         submitted |-> student.submitted,
         last |-> L!LatestDate({None, student.submitted, student.hinted, touched})]
  BY DEF L!Signal, session
<1>5. touched \in Int \cup {None} /\ (touched # None => touched <= now) BY <1>2, <1>3
<1>. HIDE DEF touched
<1>6. LET t == L!LatestDate({None, student.submitted, student.hinted, touched}) IN
      /\ t \in {None, student.submitted, student.hinted, touched}
      /\ \A x \in {student.submitted, student.hinted, touched} \ {None} : t # None /\ x <= t
  BY <1>1, <1>5, LatestDateFacts
<1>7. session # None => touched # None /\ touched = session.touched BY <1>3 DEF touched
<1>8. session # None => L!ConsecutiveFailed(session.runs) \in Nat BY <1>3, FailedFacts
<1>. DEFINE signal == L!Signal(student)
<1>9. /\ signal.executing = (session # None /\ session.queued)
      /\ signal.active = (session # None /\ session.status = "ACTIVE")
      /\ signal.failed = IF session = None THEN 0 ELSE L!ConsecutiveFailed(session.runs)
      /\ signal.submitted = student.submitted
      /\ signal.last = L!LatestDate({None, student.submitted, student.hinted, touched})
  BY <1>4
<1>. HIDE DEF signal
<1>10. signal.executing \in BOOLEAN /\ signal.active \in BOOLEAN /\ signal.failed \in Nat
  BY <1>3, <1>8, <1>9
<1>11. signal.last # None => signal.last \in Int /\ signal.last <= now
  <2>1. \A x \in {student.submitted, student.hinted, touched} \ {None} : x \in Int /\ x <= now
    BY <1>1, <1>5 DEF Past
  <2>. QED BY <1>6, <1>9, <2>1
<1>12. signal.submitted # None =>
         signal.submitted \in Int /\ signal.last # None /\ signal.submitted <= signal.last
  BY <1>1, <1>6, <1>9
<1>13. session # None => signal.last # None /\ session.touched <= signal.last BY <1>6, <1>7, <1>9
<1>. QED BY <1>3, <1>9, <1>10, <1>11, <1>12, <1>13 DEF session, signal

\* What the pulse tells of one student.
LEMMA OnePulse ==
  ASSUME NEW Status, NEW End, NEW Choice, NEW student \in PulseStudent(Status, End, Choice),
         NEW policy, NEW now \in Int, NEW later \in Int, now <= later, None \notin Int,
         Past(student, now), \A i \in DOMAIN student.sessions : student.sessions[i] # None
  PROVE  L!StudentToldFairly(student, policy, now, later)
<1>. DEFINE signal == L!Signal(student)
            session == L!Looked(student)
            status(t) == L!Classify(signal, t)
<1>1. \A t : L!Pulse(student, policy, t).status = status(t) BY DEF L!Pulse
<1>2. /\ signal.executing \in BOOLEAN /\ signal.active \in BOOLEAN
      /\ signal.failed \in Nat
      /\ signal.submitted = student.submitted
      /\ signal.submitted # None =>
           signal.submitted \in Int /\ signal.last # None /\ signal.submitted <= signal.last
      /\ signal.last # None => signal.last \in Int /\ signal.last <= now
      /\ session # None =>
           /\ signal.active = (session.status = "ACTIVE")
           /\ signal.last # None /\ session.touched <= signal.last
           /\ session.runs \in Seq(End)
           /\ signal.failed = L!ConsecutiveFailed(session.runs)
      /\ session = None => signal.failed = 0
  BY SignalFacts
<1>. HIDE DEF signal
<1>. DEFINE just(t) == L!OccurredWithin(signal.submitted, t, 10)
            within(t, minutes) == L!OccurredWithin(signal.last, t, minutes)
<1>7. ASSUME NEW t \in {now, later}
      PROVE  /\ just(t) <=> signal.submitted # None /\ t - signal.submitted <= 10
             /\ \A m \in {5, 30} : within(t, m) <=> signal.last # None /\ t - signal.last <= m
  <2>1. t \in Int /\ now <= t OBVIOUS
  <2>2. signal.submitted # None => signal.submitted \in Int /\ signal.submitted <= t BY <1>2, <2>1
  <2>3. signal.last # None => signal.last \in Int /\ signal.last <= t BY <1>2, <2>1
  <2>. QED BY <2>1, <2>2, <2>3 DEF L!OccurredWithin
<1>8. ASSUME NEW t
      PROVE  status(t) = IF signal.executing THEN "RUNNING_TESTS"
                         ELSE IF just(t) THEN "RECENTLY_SUBMITTED"
                         ELSE IF signal.failed >= 2 /\ within(t, 30) THEN "NEEDS_ATTENTION"
                         ELSE IF signal.active /\ within(t, 5) THEN "CODING_NOW" ELSE "INACTIVE"
  BY DEF L!Classify
<1>9. /\ just(later) => just(now)
      /\ \A m \in {5, 30} : within(later, m) => within(now, m)
  BY <1>2, <1>7
<1>10. (just(later) \/ within(later, 30) \/ within(later, 5)) => later - signal.last <= 30
  BY <1>2, <1>7
<1>. HIDE DEF status, just, within
<1>3. status(now) = "INACTIVE" => status(later) = "INACTIVE" BY <1>8, <1>9
<1>4. status(later) \notin {"INACTIVE", "RUNNING_TESTS"} => later - signal.last <= 30 BY <1>8, <1>10
<1>5. ASSUME status(now) = "NEEDS_ATTENTION"
      PROVE  LET ended == {r \in DOMAIN session.runs : session.runs[r] # None} IN
             /\ ended # {} /\ session.runs[L!Min(ended)] # "passed"
             /\ student.submitted = None \/ now - student.submitted > 10
  <2>1. /\ signal.failed >= 2
        /\ student.submitted = None \/ now - student.submitted > 10
    <3>1. signal.failed >= 2 /\ ~just(now) BY <1>5, <1>8
    <3>2. student.submitted # None => student.submitted \in Int BY <1>2
    <3>. QED BY <1>2, <1>7, <3>1, <3>2
  <2>2. session # None /\ session.runs \in Seq(End) /\ L!ConsecutiveFailed(session.runs) # 0
    BY <1>2, <2>1
  <2>. HIDE DEF session
  <2>. QED BY <2>1, <2>2, FailedFacts
<1>6. ASSUME NEW s \in L!Latest(student.sessions, 3),
             student.sessions[s].status = "ACTIVE", now - student.sessions[s].touched <= 5,
             \A o \in DOMAIN student.sessions \ {s} : student.sessions[o].status # "ACTIVE"
      PROVE  status(now) # "INACTIVE"
  <2>1. student.sessions \in Seq(PulseSession(Status, End)) BY DEF PulseStudent
  <2>2. session = student.sessions[s] BY <1>6, <2>1, LookedFacts
  <2>3. s \in DOMAIN student.sessions BY <2>1, LatestFacts
  <2>4. session # None /\ session.touched \in Int
    <3>1. student.sessions[s] \in PulseSession(Status, End) BY <2>1, <2>3
    <3>. QED BY <2>2, <2>3, <3>1 DEF PulseSession
  <2>5. signal.active /\ signal.last \in Int /\ signal.last <= now /\ now - signal.last <= 5
    BY <1>2, <1>6, <2>2, <2>4
  <2>6. within(now, 5) BY <1>2, <1>7, <2>5
  <2>. QED BY <1>8, <2>5, <2>6
<1>. QED BY <1>1, <1>3, <1>4, <1>5, <1>6 DEF signal, L!StudentToldFairly

\* Two sets with nothing in common.
LEMMA Apart ==
  ASSUME NEW S, NEW T, IsFiniteSet(S), IsFiniteSet(T), S \cap T = {}
  PROVE  /\ IsFiniteSet(S \cup T)
         /\ Cardinality(S \cup T) = Cardinality(S) + Cardinality(T)
         /\ Cardinality(S) \in Nat /\ Cardinality(T) \in Nat
BY FS_Union, FS_EmptySet, FS_CardinalityType

\* Everybody is counted once.
LEMMA AllCounted ==
  ASSUME NEW Row, NEW students \in Seq(Row), NEW policy, NEW now
  PROVE  LET counts == L!Counts(students, policy, now) IN
         counts["RUNNING_TESTS"] + counts["CODING_NOW"] + counts["RECENTLY_SUBMITTED"]
           + counts["NEEDS_ATTENTION"] + counts["INACTIVE"] = Len(students)
<1>. DEFINE status(i) == L!Pulse(students[i], policy, now).status
            of(x) == {i \in DOMAIN students : status(i) = x}
            counts == L!Counts(students, policy, now)
            all == 1 .. Len(students)
<1>1. \A x \in L!Statuses : counts[x] = Cardinality(of(x)) BY OneCardinality DEF L!Counts
<1>2. \A i : status(i) \in L!Statuses BY DEF L!Pulse, L!Classify, L!Statuses
<1>3. DOMAIN students = all /\ Len(students) \in Nat /\ IsFiniteSet(all)
      /\ Cardinality(all) = Len(students)
  <2>1. DOMAIN students = all /\ Len(students) \in Nat OBVIOUS
  <2>2. IsFiniteSet(all) /\ Cardinality(all) = IF 1 > Len(students) THEN 0 ELSE Len(students) - 1 + 1
    BY <2>1, FS_Interval
  <2>. QED BY <2>1, <2>2
<1>4. \A x : IsFiniteSet(of(x)) BY <1>3, FS_Subset
<1>5. \A x, y : x # y => of(x) \cap of(y) = {} OBVIOUS
<1>6. all = (((of("RUNNING_TESTS") \cup of("CODING_NOW")) \cup of("RECENTLY_SUBMITTED"))
             \cup of("NEEDS_ATTENTION")) \cup of("INACTIVE")
  BY <1>2, <1>3 DEF L!Statuses
<1>. HIDE DEF of, counts, all
<1>. DEFINE two == of("RUNNING_TESTS") \cup of("CODING_NOW")
            three == two \cup of("RECENTLY_SUBMITTED")
            four == three \cup of("NEEDS_ATTENTION")
<1>7. IsFiniteSet(two)
      /\ Cardinality(two) = Cardinality(of("RUNNING_TESTS")) + Cardinality(of("CODING_NOW"))
      /\ two \cap of("RECENTLY_SUBMITTED") = {}
  BY <1>4, <1>5, Apart
<1>8. IsFiniteSet(three)
      /\ Cardinality(three) = Cardinality(two) + Cardinality(of("RECENTLY_SUBMITTED"))
      /\ three \cap of("NEEDS_ATTENTION") = {}
  BY <1>4, <1>5, <1>7, Apart
<1>9. IsFiniteSet(four)
      /\ Cardinality(four) = Cardinality(three) + Cardinality(of("NEEDS_ATTENTION"))
      /\ four \cap of("INACTIVE") = {}
  BY <1>4, <1>5, <1>8, Apart
<1>10. Cardinality(all) = Cardinality(four) + Cardinality(of("INACTIVE")) BY <1>4, <1>6, <1>9, Apart
<1>11. \A x : Cardinality(of(x)) \in Nat BY <1>4, FS_CardinalityType
<1>. HIDE DEF two, three, four
<1>12. counts["RUNNING_TESTS"] + counts["CODING_NOW"] + counts["RECENTLY_SUBMITTED"]
         + counts["NEEDS_ATTENTION"] + counts["INACTIVE"] = Cardinality(all)
  BY <1>1, <1>7, <1>8, <1>9, <1>10, <1>11 DEF L!Statuses
<1>. QED BY <1>3, <1>12 DEF counts

\* The pulse of a class, with any number of students, sessions and runs.
THEOREM PulseHonest ==
  ASSUME NEW Status, NEW End, NEW Choice,
         NEW students \in Seq(PulseStudent(Status, End, Choice)),
         NEW policy, NEW now \in Int, NEW later \in Int, now <= later, None \notin Int,
         \A i \in DOMAIN students :
            /\ Past(students[i], now)
            /\ \A j \in DOMAIN students[i].sessions : students[i].sessions[j] # None
  PROVE  L!PulseIsHonest(students, policy, now, later)
<1>1. \A i \in DOMAIN students : students[i] \in PulseStudent(Status, End, Choice) OBVIOUS
<1>2. LET counts == L!Counts(students, policy, now) IN
      counts["RUNNING_TESTS"] + counts["CODING_NOW"] + counts["RECENTLY_SUBMITTED"]
        + counts["NEEDS_ATTENTION"] + counts["INACTIVE"] = Len(students)
  BY AllCounted
<1>3. ASSUME NEW i \in DOMAIN students
      PROVE  L!StudentToldFairly(students[i], policy, now, later)
  <2>1. students[i] \in PulseStudent(Status, End, Choice) BY <1>1
  <2>2. Past(students[i], now) /\ \A j \in DOMAIN students[i].sessions : students[i].sessions[j] # None
    OBVIOUS
  <2>. QED BY <2>1, <2>2, OnePulse
<1>. QED BY <1>2, <1>3 DEF L!PulseIsHonest

-----------------------------------------------------------------------------
(* Hints and the roster (Hints.tla).                                        *)

LEMMA AllowedFacts ==
  ASSUME NEW override \in {None, TRUE, FALSE}, NEW policy \in {None, TRUE, FALSE},
         None \notin BOOLEAN
  PROVE  H!Allowed(override, policy) \in BOOLEAN
BY DEF H!Allowed

LEMMA LevelFacts ==
  ASSUME NEW Run, NEW Task, NEW session \in HintSession(Run, Task), InOrder(session)
  PROVE  /\ H!CurrentLevel(session) \in 0 .. 3
         /\ H!CurrentLevel(session) <= Len(session.levels)
         /\ \A i \in DOMAIN session.levels : session.levels[i] <= H!CurrentLevel(session)
         /\ H!NextLevel(session) = Len(session.levels) + 1
         /\ Len(session.levels) \in Nat /\ DOMAIN session.levels = 1 .. Len(session.levels)
<1>. DEFINE rows == session.levels
            is(l) == /\ \E i \in DOMAIN rows : rows[i] = l
                     /\ \A i \in DOMAIN rows : rows[i] <= l
<1>1. rows \in Seq(1 .. 3) /\ Len(rows) \in Nat /\ DOMAIN rows = 1 .. Len(rows) BY DEF HintSession
<1>2. CASE rows = <<>> BY <1>1, <1>2 DEF H!CurrentLevel, H!NextLevel
<1>3. CASE rows # <<>>
  <2>1. \A i \in DOMAIN rows : rows[i] \in 1 .. 3 BY <1>1
  <2>2. 1 \in DOMAIN rows BY <1>1, <1>3
  <2>3. is(1) \/ is(2) \/ is(3) BY <2>1, <2>2
  <2>4. H!CurrentLevel(session) = CHOOSE l \in 1 .. 3 : is(l) BY <1>3 DEF H!CurrentLevel
  <2>5. H!CurrentLevel(session) \in 1 .. 3 /\ is(H!CurrentLevel(session)) BY <2>3, <2>4
  <2>. QED BY <1>1, <2>5 DEF InOrder, H!NextLevel
<1>. QED BY <1>2, <1>3

\* A step of a session keeps its hints in order, also when two requests gave one level.
LEMMA StoredFacts ==
  ASSUME NEW Run, NEW Task, NEW session \in HintSession(Run, Task), InOrder(session),
         H!NextLevel(session) <= 3, NEW n \in Nat
  PROVE  LET stored == H!Stored(session, n) IN
         /\ stored \in HintSession(Run, Task) /\ InOrder(stored)
         /\ stored.override = session.override /\ stored.policy = session.policy
         /\ Len(stored.levels) = Len(session.levels) + n
         /\ \A i \in 1 .. n : stored.levels[Len(session.levels) + i] = Len(session.levels) + 1
<1>. DEFINE rows == session.levels
            more == [i \in 1 .. n |-> H!NextLevel(session)]
            stored == H!Stored(session, n)
<1>1. rows \in Seq(1 .. 3) /\ Len(rows) \in Nat /\ DOMAIN rows = 1 .. Len(rows)
      /\ H!NextLevel(session) = Len(rows) + 1
  BY LevelFacts DEF HintSession
<1>2. more \in Seq(1 .. 3) /\ Len(more) = n BY <1>1
<1>3. stored = [session EXCEPT !.levels = rows \o more] BY DEF H!Stored
<1>4. /\ rows \o more \in Seq(1 .. 3) /\ Len(rows \o more) = Len(rows) + n
      /\ \A i \in 1 .. Len(rows) : (rows \o more)[i] = rows[i]
      /\ \A i \in 1 .. n : (rows \o more)[Len(rows) + i] = Len(rows) + 1
  BY <1>1, <1>2
<1>5. /\ stored \in HintSession(Run, Task) /\ stored.levels = rows \o more
      /\ stored.override = session.override /\ stored.policy = session.policy
  BY <1>3, <1>4 DEF HintSession
<1>6. ASSUME NEW i \in 1 .. Len(rows) + n PROVE (rows \o more)[i] <= i
  <2>1. CASE i \in 1 .. Len(rows) BY <1>1, <1>4, <2>1 DEF InOrder
  <2>2. CASE i \notin 1 .. Len(rows)
    <3>1. i - Len(rows) \in 1 .. n /\ Len(rows) + (i - Len(rows)) = i BY <1>1, <2>2
    <3>2. (rows \o more)[i] = Len(rows) + 1 BY <1>4, <3>1
    <3>. QED BY <1>1, <2>2, <3>2
  <2>. QED BY <2>1, <2>2
<1>7. DOMAIN (rows \o more) = 1 .. Len(rows) + n BY <1>4
<1>. QED BY <1>4, <1>5, <1>6, <1>7 DEF InOrder

\* What the generator quotes is what it was told: the title and the compiler's error.
LEMMA TextFacts ==
  ASSUME NEW task, NEW run, NEW level \in 1 .. 3,
         ~H!Safe(H!Generated(task, run, level).text, level)
  PROVE  LET quoted == task.title \cup (IF H!NotCompiled(run) /\ run.error # None
                                        THEN run.error ELSE {})
         IN quoted # {} /\ level \in {1, 2}
<1>1. \A l : H!Safe({}, l) BY DEF H!Safe
<1>2. CASE level = 1
  <2>1. H!Generated(task, run, 1) = H!Nudge(task, run) BY DEF H!Generated
  <2>2. H!Nudge(task, run).text \in {{}, task.title} BY DEF H!Nudge, H!Hint
  <2>. QED BY <1>1, <1>2, <2>1, <2>2
<1>3. CASE level = 2
  <2>1. H!Generated(task, run, 2) = H!Diagnosis(task, run) BY DEF H!Generated
  <2>2. \/ H!NotCompiled(run) /\ run.error # None /\ H!Diagnosis(task, run).text = run.error
        \/ H!Diagnosis(task, run).text = {}
    BY DEF H!Diagnosis, H!Hint
  <2>. QED BY <1>1, <1>3, <2>1, <2>2
<1>4. CASE level = 3
  <2>1. H!Generated(task, run, 3).text = {} BY DEF H!Generated, H!Hint
  <2>. QED BY <1>1, <1>4, <2>1
<1>. QED BY <1>2, <1>3, <1>4

\* What the panel shows of a state.
LEMMA PanelFacts ==
  ASSUME NEW state, state # None, state.allowed \in BOOLEAN, state.canRequest \in BOOLEAN,
         state.canRequest => state.allowed
  PROVE  /\ (H!Panel(state).view = "locked") = ~state.allowed
         /\ (H!Panel(state).view = "open") = (state.allowed /\ state.canRequest)
         /\ state.allowed => H!Panel(state).used = state.current
         /\ H!Panel(state).view = "open" => H!Panel(state).button = state.current + 1
<1>1. ~state.allowed => H!Panel(state) = [view |-> "locked"] BY DEF H!Panel
<1>2. state.allowed /\ state.canRequest =>
        H!Panel(state) = [view |-> "open", used |-> state.current, button |-> state.current + 1]
  BY DEF H!Panel
<1>3. state.allowed /\ ~state.canRequest =>
        H!Panel(state) = [view |-> "usedUp", used |-> state.current]
  BY DEF H!Panel
<1>4. CASE ~state.allowed
  <2>1. H!Panel(state).view = "locked" BY <1>1, <1>4
  <2>. QED BY <1>4, <2>1
<1>5. CASE state.allowed /\ state.canRequest
  <2>1. /\ H!Panel(state).view = "open" /\ H!Panel(state).used = state.current
        /\ H!Panel(state).button = state.current + 1
    BY <1>2, <1>5
  <2>. QED BY <1>5, <2>1
<1>6. CASE state.allowed /\ ~state.canRequest
  <2>1. H!Panel(state).view = "usedUp" /\ H!Panel(state).used = state.current BY <1>3, <1>6
  <2>. QED BY <1>6, <2>1
<1>. QED BY <1>4, <1>5, <1>6

\* The panel of a session: what it shows, and what a request makes of it.
LEMMA StateFacts ==
  ASSUME NEW Run, NEW Task, NEW session \in HintSession(Run, Task), InOrder(session),
         None \notin BOOLEAN, NoState
  PROVE  LET state == H!WorkspaceState(session) IN
         /\ state # None /\ state.allowed = H!Allowed(session.override, session.policy)
         /\ state.allowed \in BOOLEAN /\ state.canRequest \in BOOLEAN
         /\ state.current = H!CurrentLevel(session)
         /\ state.canRequest = (state.allowed /\ H!CurrentLevel(session) < 3)
<1>. DEFINE state == H!WorkspaceState(session)
<1>1. /\ H!Allowed(session.override, session.policy) \in BOOLEAN
      /\ H!CurrentLevel(session) \in Nat /\ Len(session.levels) \in Nat
  <2>1. session.override \in {None, TRUE, FALSE} /\ session.policy \in {None, TRUE, FALSE}
    BY DEF HintSession
  <2>2. H!Allowed(session.override, session.policy) \in BOOLEAN BY <2>1, AllowedFacts
  <2>. QED BY <2>2, LevelFacts
<1>2. state = [allowed |-> H!Allowed(session.override, session.policy),
               current |-> H!CurrentLevel(session),
               canRequest |-> H!Allowed(session.override, session.policy)
                                /\ H!CurrentLevel(session) < 3,
               hints |-> Len(session.levels)]
  BY DEF H!WorkspaceState
<1>. HIDE DEF state
<1>3. state \in [allowed : BOOLEAN, current : Nat, canRequest : BOOLEAN, hints : Nat] BY <1>1, <1>2
<1>4. /\ state.allowed = H!Allowed(session.override, session.policy)
      /\ state.current = H!CurrentLevel(session)
      /\ state.canRequest = (H!Allowed(session.override, session.policy)
                               /\ H!CurrentLevel(session) < 3)
  BY <1>2
<1>5. state # None BY <1>3 DEF NoState
<1>6. state.allowed \in BOOLEAN /\ state.canRequest \in BOOLEAN BY <1>1, <1>4
<1>. QED BY <1>4, <1>5, <1>6 DEF state

\* The panel offers what the next request gives, for any session, title and run, when each
\* request saw the hints of those before; when requests overlapped and repeated a level it
\* may name a lower level than the next or be refused, never a higher one.
THEOREM OfferKept ==
  ASSUME NEW Run, NEW Task, NEW session \in HintSession(Run, Task), InOrder(session),
         None \notin BOOLEAN, NoState
  PROVE  H!OfferIsKept(session)
<1>. DEFINE state == H!WorkspaceState(session)
            panel == H!Panel(state)
            after == H!Panel(H!AfterAnswer(state, H!Answered(session)))
            ordered == \A i \in DOMAIN session.levels : session.levels[i] = i
            next == H!NextLevel(session)
            allowed == H!Allowed(session.override, session.policy)
            quoted == session.task.title \cup
                        (IF H!NotCompiled(session.run) /\ session.run.error # None
                         THEN session.run.error ELSE {})
<1>1. /\ H!CurrentLevel(session) \in 0 .. 3 /\ H!CurrentLevel(session) <= Len(session.levels)
      /\ \A i \in DOMAIN session.levels : session.levels[i] <= H!CurrentLevel(session)
      /\ next = Len(session.levels) + 1
      /\ Len(session.levels) \in Nat /\ DOMAIN session.levels = 1 .. Len(session.levels)
  BY LevelFacts
<1>2. /\ state # None /\ state.allowed = allowed
      /\ state.allowed \in BOOLEAN /\ state.canRequest \in BOOLEAN
      /\ state.current = H!CurrentLevel(session)
      /\ state.canRequest = (state.allowed /\ H!CurrentLevel(session) < 3)
  BY StateFacts
<1>3. /\ (panel.view = "locked") = ~state.allowed
      /\ (panel.view = "open") = (state.allowed /\ state.canRequest)
      /\ state.allowed => panel.used = state.current
      /\ panel.view = "open" => panel.button = state.current + 1
  BY <1>2, PanelFacts
<1>4. H!Refused(session) <=>
        (~allowed \/ next > 3
           \/ ~H!Safe(H!Generated(session.task, session.run, next).text, next))
  BY DEF H!Refused
<1>5. H!Refused(session) => after = panel
  <2>1. H!Refused(session) => H!Answered(session) = [ok |-> FALSE] BY DEF H!Answered
  <2>. QED BY <2>1 DEF H!AfterAnswer
<1>6. ~H!Refused(session) => after.used = next /\ panel.view = "open"
  <2>. SUFFICES ASSUME ~H!Refused(session) PROVE after.used = next /\ panel.view = "open" OBVIOUS
  <2>. DEFINE stored == H!Stored(session, 1)
              then == H!WorkspaceState(stored)
  <2>1. allowed /\ next <= 3
    <3>1. allowed \in BOOLEAN /\ next \in Nat BY <1>1, <1>2
    <3>. HIDE DEF allowed, next
    <3>. QED BY <1>4, <3>1
  <2>2. /\ stored \in HintSession(Run, Task) /\ InOrder(stored)
        /\ stored.override = session.override /\ stored.policy = session.policy
        /\ Len(stored.levels) = Len(session.levels) + 1
        /\ stored.levels[Len(session.levels) + 1] = Len(session.levels) + 1
    BY <1>1, <2>1, StoredFacts
  <2>3. H!Answered(session) = [ok |-> TRUE, state |-> then] BY DEF H!Answered
  <2>4. H!AfterAnswer(state, H!Answered(session)) = then BY <2>3 DEF H!AfterAnswer
  <2>. HIDE DEF stored
  <2>5. /\ then # None /\ then.allowed = H!Allowed(stored.override, stored.policy)
        /\ then.allowed \in BOOLEAN /\ then.canRequest \in BOOLEAN
        /\ then.canRequest => then.allowed
        /\ then.current = H!CurrentLevel(stored)
    BY <2>2, StateFacts
  <2>6. after.used = H!CurrentLevel(stored)
    <3>1. then.allowed BY <2>1, <2>2, <2>5
    <3>2. H!Panel(then).used = then.current BY <2>5, <3>1, PanelFacts
    <3>. QED BY <2>4, <2>5, <3>2
  <2>7. /\ H!CurrentLevel(stored) \in 0 .. 3 /\ H!CurrentLevel(stored) <= Len(stored.levels)
        /\ \A i \in DOMAIN stored.levels : stored.levels[i] <= H!CurrentLevel(stored)
        /\ Len(stored.levels) \in Nat /\ DOMAIN stored.levels = 1 .. Len(stored.levels)
    BY <2>2, LevelFacts
  <2>8. H!CurrentLevel(stored) = next BY <1>1, <2>2, <2>7
  <2>9. H!CurrentLevel(session) < 3 BY <1>1, <2>1
  <2>. HIDE DEF panel, after, state, next, allowed
  <2>. QED BY <1>2, <1>3, <2>1, <2>6, <2>8, <2>9
<1>. HIDE DEF panel, after, state, allowed
<1>7. ordered => H!CurrentLevel(session) = Len(session.levels)
  <2>1. CASE Len(session.levels) = 0 BY <1>1, <2>1
  <2>2. CASE Len(session.levels) # 0
    <3>1. Len(session.levels) \in DOMAIN session.levels BY <1>1, <2>2
    <3>. QED BY <1>1, <3>1
  <2>. QED BY <2>1, <2>2
<1>8. /\ panel.view = "open" => panel.button <= next /\ (ordered => panel.button = next /\ next <= 3)
      /\ panel.view = "usedUp" => next > 3
  <2>. HIDE DEF next, ordered
  <2>1. (panel.view = "open") = (state.allowed /\ H!CurrentLevel(session) < 3) BY <1>2, <1>3
  <2>2. panel.view = "usedUp" => H!CurrentLevel(session) >= 3
    <3>1. panel.view = "usedUp" => panel.view # "open" /\ panel.view # "locked" OBVIOUS
    <3>. QED BY <1>1, <1>3, <2>1, <3>1
  <2>. QED BY <1>1, <1>2, <1>3, <1>7, <2>1, <2>2
<1>9. panel.view = "open" /\ H!Refused(session) =>
        /\ after = panel
        /\ IF next > 3 THEN ~ordered ELSE quoted # {} /\ next \in {1, 2}
  <2>. SUFFICES ASSUME panel.view = "open", H!Refused(session), ~(next > 3)
                PROVE  quoted # {} /\ next \in {1, 2}
    BY <1>1, <1>5, <1>8
  <2>1. allowed /\ next \in 1 .. 3 BY <1>1, <1>2, <1>3
  <2>2. ~H!Safe(H!Generated(session.task, session.run, next).text, next)
    <3>. HIDE DEF next
    <3>. QED BY <1>4, <2>1
  <2>. HIDE DEF next
  <2>. QED BY <2>1, <2>2, TextFacts
<1>10. \A i \in DOMAIN session.levels : session.levels[i] \in 1 .. 3 BY DEF HintSession
<1>. QED BY <1>2, <1>3, <1>6, <1>8, <1>9, <1>10 DEF H!OfferIsKept, panel, after, state, allowed

\* The switches of the roster say and change what the server decides, for any number
\* of students.
THEOREM RosterHonest ==
  ASSUME NEW S, None \notin BOOLEAN,
         NEW class \in [policy : {None, TRUE, FALSE}, overrides : [S -> {None, TRUE, FALSE}]]
  PROVE  H!RosterIsHonest(class)
<1>. SUFFICES ASSUME NEW s \in S
              PROVE  LET may(c, t) == H!Allowed(c.overrides[t], c.policy) IN
                     /\ H!OnRoster(H!Overview(class), s) = may(class, s)
                     /\ may(H!ToggledStudent(class, s), s) = ~may(class, s)
                     /\ \A t \in S \ {s} : may(H!ToggledStudent(class, s), t) = may(class, t)
                     /\ may(H!ToggledPolicy(class), s) =
                          IF class.overrides[s] = None THEN ~may(class, s) ELSE may(class, s)
  BY DEF H!RosterIsHonest
<1>1. /\ class.policy \in {None, TRUE, FALSE} /\ class.overrides \in [S -> {None, TRUE, FALSE}]
  OBVIOUS
<1>. DEFINE shown == H!OnRoster(H!Overview(class), s)
            may(t) == H!Allowed(class.overrides[t], class.policy)
<1>2. /\ H!Overview(class).permissions = class.overrides
      /\ H!Overview(class).classDefault = (class.policy # None /\ class.policy)
  BY DEF H!Overview
<1>3. shown = may(s) /\ shown \in BOOLEAN BY <1>1, <1>2 DEF H!OnRoster, H!Allowed
<1>4. /\ H!ToggledStudent(class, s).policy = class.policy
      /\ H!ToggledStudent(class, s).overrides = [class.overrides EXCEPT ![s] = ~shown]
      /\ H!ToggledPolicy(class).overrides = class.overrides
      /\ H!ToggledPolicy(class).policy = ~(class.policy # None /\ class.policy)
  BY <1>1, <1>2 DEF H!ToggledStudent, H!ToggledPolicy
<1>. QED BY <1>1, <1>3, <1>4 DEF H!Allowed

-----------------------------------------------------------------------------
(* Providers and deployment (Providers.tla, Deployment.tla).                *)

\* getServerExecutionProvider, in any environment: no mode with a provider of another
\* language, no simulation in production, no token without HTTPS.
LEMMA ChoiceSafe ==
  ASSUME NEW env, NEW language \in {"JAVA", "CPP"}
  PROVE  ChoiceIsSafe(env, language)
BY DEF ChoiceIsSafe, Provider, Refused, LocalAllowed, Local, Remote, Hosted

\* Which provider each mode means.
LEMMA ProviderOfMode ==
  ASSUME NEW env, NEW l
  PROVE  /\ env.mode \in {"judge0", "wandbox"} => D!Provider(env, l) = D!Hosted(env)
         /\ env.mode = "local-docker" => D!Provider(env, l) = D!Local(env, l)
         /\ env.mode = "remote-docker" => D!Provider(env, l) = D!Remote(env, l)
<1>1. env.mode \in {"judge0", "wandbox"} => D!Provider(env, l) = D!Hosted(env) BY DEF D!Provider
<1>2. env.mode = "local-docker" => D!Provider(env, l) = D!Local(env, l) BY DEF D!Provider
<1>3. env.mode = "remote-docker" => D!Provider(env, l) = D!Remote(env, l) BY DEF D!Provider
<1>. QED BY <1>1, <1>2, <1>3

LEMMA WellFormedMode ==
  ASSUME NEW env, D!WellFormed(env)
  PROVE  /\ env.mode = "remote-docker" => env.javaUrl = "https" /\ env.cppUrl = "https"
         /\ env.mode = "local-docker" =>
              env.javaUrl = "loopback" /\ env.cppUrl = "loopback" /\ D!LocalAllowed(env)
         /\ env.mode = "judge0" => env.judgeUrl = "https"
         /\ env.mode = "wandbox" => env.judgeUrl \in {"none", "https"}
BY DEF D!WellFormed

LEMMA IdentityOf ==
  ASSUME NEW env, env.production \in BOOLEAN, env.allowDemo \in BOOLEAN
  PROVE  /\ env.identity = "clerk" => D!V!IdentityMode(env) = "clerk"
         /\ env.identity = "demo" /\ env.allowDemo => D!V!IdentityMode(env) = "demo"
<1>1. env.identity = "clerk" => D!V!IdentityMode(env) = "clerk" BY DEF D!V!IdentityMode
<1>2. env.identity = "demo" /\ env.allowDemo => D!V!IdentityMode(env) = "demo"
  BY DEF D!V!IdentityMode
<1>. QED BY <1>1, <1>2

\* A valid production environment lacks nothing.
LEMMA ValidFacts ==
  ASSUME NEW env, Switches(env), env.production, D!Valid(env)
  PROVE  /\ D!RunnerConfigured(env)
         /\ \/ env.identity = "clerk"
            \/ env.identity = "demo" /\ env.allowDemo /\ ~D!Deployed(env)
         /\ D!Deployed(env) =>
              env.dispatch = IF D!HostedMode(env) THEN "inline" ELSE "queued"
<1>1. D!Gaps(env) = {} /\ (~D!RunnerConfigured(env) => D!RunnerGaps(env) = {}) BY DEF D!Valid
<1>2. "identity" \notin D!Gaps(env) /\ "dispatch" \notin D!Gaps(env) BY <1>1
<1>3. \/ env.identity = "clerk"
      \/ env.identity = "demo" /\ env.allowDemo /\ ~D!Deployed(env)
  BY <1>2 DEF D!Gaps, D!Deployed, D!Supervised, Switches
<1>4. D!Deployed(env) => env.dispatch = IF D!HostedMode(env) THEN "inline" ELSE "queued"
  BY <1>2 DEF D!Gaps
<1>5. D!RunnerConfigured(env)
  <2>. SUFFICES ASSUME ~D!RunnerConfigured(env) PROVE FALSE OBVIOUS
  <2>1. /\ "provider" \notin D!RunnerGaps(env) /\ "url" \notin D!RunnerGaps(env)
        /\ "key" \notin D!RunnerGaps(env) /\ "token" \notin D!RunnerGaps(env)
    BY <1>1
  <2>2. D!SupportedProvider(env) BY <2>1 DEF D!RunnerGaps
  <2>3. env.mode = "judge0" => env.judgeUrl # "none" /\ env.judgeKey
    BY <2>1 DEF D!RunnerGaps, Switches
  <2>4. env.mode \in D!Docker => env.javaUrl # "none" /\ env.cppUrl # "none"
    BY <2>1 DEF D!RunnerGaps, D!Docker
  <2>5. env.mode = "remote-docker" => env.token BY <2>1 DEF D!RunnerGaps, Switches
  <2>. QED BY <2>2, <2>3, <2>4, <2>5 DEF D!RunnerConfigured
<1>. QED BY <1>3, <1>4, <1>5

\* With a runner configured and well-formed URLs, programs run for real.
LEMMA RunsForReal ==
  ASSUME NEW env, Switches(env), D!RunnerConfigured(env), D!WellFormed(env),
         NEW l \in {"JAVA", "CPP"}
  PROVE  /\ D!Provider(env, l).provider = IF D!HostedMode(env) THEN env.mode ELSE l
         /\ env.mode \in {"judge0", "wandbox", "local-docker", "remote-docker"}
<1>1. env.mode \in {"judge0", "wandbox", "local-docker", "remote-docker"}
  BY DEF D!RunnerConfigured, D!SupportedProvider
<1>2. CASE env.mode \in {"judge0", "wandbox"}
  <2>1. env.mode = "judge0" => env.judgeUrl = "https" /\ env.judgeKey
    BY WellFormedMode DEF D!RunnerConfigured
  <2>2. env.mode = "wandbox" => env.judgeUrl \in {"none", "https"} BY WellFormedMode
  <2>3. D!Hosted(env).provider = env.mode BY <1>2, <2>1, <2>2 DEF D!Hosted
  <2>. QED BY <1>2, <2>3, ProviderOfMode DEF D!HostedMode
<1>3. CASE env.mode = "local-docker"
  <2>1. D!Local(env, l).provider = l BY <1>3, WellFormedMode DEF D!Local
  <2>. QED BY <1>3, <2>1, ProviderOfMode DEF D!HostedMode
<1>4. CASE env.mode = "remote-docker"
  <2>1. env.token BY <1>4 DEF D!RunnerConfigured
  <2>2. D!Remote(env, l).provider = l BY <1>4, <2>1, WellFormedMode DEF D!Remote
  <2>. QED BY <1>4, <2>2, ProviderOfMode DEF D!HostedMode
<1>. QED BY <1>1, <1>2, <1>3, <1>4

\* An environment the process calls valid, and a page that calls it healthy, tell the
\* truth: of any environment, whatever its names and URLs, and of any world.
THEOREM DeploymentHonest ==
  ASSUME NEW env, NEW world, Switches(env), world.database \in BOOLEAN, world.workers \in BOOLEAN
  PROVE  D!DeploymentIsHonest(env, world)
<1>1. ASSUME env.production, D!Valid(env)
      PROVE  /\ D!RunnerConfigured(env) /\ D!V!IdentityMode(env) # "forbidden"
             /\ D!Deployed(env) => D!V!IdentityMode(env) = "clerk"
             /\ D!WellFormed(env) => \A language \in D!Languages :
                  D!Provider(env, language).provider \notin {"none", "simulated"}
  <2>1. /\ D!RunnerConfigured(env)
        /\ \/ env.identity = "clerk"
           \/ env.identity = "demo" /\ env.allowDemo /\ ~D!Deployed(env)
    BY <1>1, ValidFacts
  <2>2. D!V!IdentityMode(env) # "forbidden" /\ (D!Deployed(env) => D!V!IdentityMode(env) = "clerk")
    BY <2>1, IdentityOf DEF Switches
  <2>3. ASSUME D!WellFormed(env), NEW language \in D!Languages
        PROVE  D!Provider(env, language).provider \notin {"none", "simulated"}
    <3>1. language \in {"JAVA", "CPP"} BY DEF D!Languages
    <3>. QED BY <2>1, <2>3, <3>1, RunsForReal
  <2>. QED BY <2>1, <2>2, <2>3
<1>2. ASSUME D!Deployed(env)
      PROVE  D!Health(env, world) = D!Details(env, world)
  <2>1. env.production BY <1>2 DEF D!Deployed, Switches
  <2>2. D!Valid(env) => /\ D!RunnerConfigured(env)
                        /\ env.dispatch = IF D!HostedMode(env) THEN "inline" ELSE "queued"
    BY <1>2, <2>1, ValidFacts
  <2>. QED BY <2>1, <2>2 DEF D!Health, D!Details, D!QueueEnabled, Switches
<1>3. ASSUME D!Deployed(env), D!Health(env, world), D!WellFormed(env)
      PROVE  /\ {D!Provider(env, language).provider : language \in D!Languages} \subseteq world.up
             /\ env.dispatch = "queued" => world.workers
  <2>1. env.production /\ D!Valid(env) BY <1>3 DEF D!Deployed, D!Health, Switches
  <2>2. /\ D!RunnerConfigured(env)
        /\ env.dispatch = IF D!HostedMode(env) THEN "inline" ELSE "queued"
    BY <1>3, <2>1, ValidFacts
  <2>3. env.dispatch = "queued" => world.workers BY <1>3, <2>1 DEF D!Health, D!QueueEnabled
  <2>4. ASSUME NEW language \in D!Languages
        PROVE  D!Provider(env, language).provider \in world.up
    <3>1. /\ language \in {"JAVA", "CPP"}
          /\ D!Provider(env, language).provider = IF D!HostedMode(env) THEN env.mode ELSE language
      BY <1>3, <2>2, RunsForReal DEF D!Languages
    <3>2. CASE D!HostedMode(env)
      <4>1. D!HostedUp(env, world) BY <1>3, <3>2 DEF D!Health
      <4>2. env.mode \in world.up BY <3>2, <4>1 DEF D!HostedUp, D!Connected, D!HostedMode
      <4>. QED BY <3>1, <3>2, <4>2
    <3>3. CASE ~D!HostedMode(env)
      <4>1. D!RunnersUp(env, world) BY <1>3, <2>1, <2>2, <3>3 DEF D!Health
      <4>. QED BY <3>1, <3>3, <4>1 DEF D!RunnersUp, D!Connected
    <3>. QED BY <3>2, <3>3
  <2>. QED BY <2>3, <2>4
<1>4. ~D!HostedMode(env) /\ D!Details(env, world) => D!Health(env, world) BY DEF D!Details, D!Health
<1>. QED BY <1>1, <1>2, <1>3, <1>4 DEF D!DeploymentIsHonest

-----------------------------------------------------------------------------
(* Scores and answers (Results.tla, Providers.tla).                         *)

LEMMA Division ==
  ASSUME NEW a \in Nat, NEW b \in Nat \ {0}
  PROVE  /\ a \div b \in Nat
         /\ b * (a \div b) <= a /\ a < b * (a \div b) + b
OBVIOUS

\* Rounding tells no lie about fewer than 200 tests.
THEOREM ScoreHonest ==
  ASSUME NEW state, NEW total \in 0 .. 199, NEW passed \in 0 .. total
  PROVE  ScoreIsHonest(state, passed, total)
<1>. DEFINE score(p) == (200 * p + total) \div (2 * total)
<1>1. CASE state # "completed" \/ total = 0 BY <1>1 DEF ScoreIsHonest, SuggestedScore
<1>2. CASE state = "completed" /\ total # 0
  <2>1. \A p : SuggestedScore(state, p, total) = score(p) BY <1>2 DEF SuggestedScore
  <2>2. ASSUME NEW p \in 0 .. total
        PROVE  /\ score(p) \in Nat
               /\ 2 * total * score(p) <= 200 * p + total
               /\ 200 * p + total < 2 * total * score(p) + 2 * total
    <3>1. 200 * p + total \in Nat /\ 2 * total \in Nat \ {0} BY <1>2
    <3>. QED BY <3>1, Division
  <2>. HIDE DEF score
  <2>0. score(passed) \in Nat /\ total \in Nat /\ total > 0 /\ passed \in Nat BY <1>2, <2>2
  <2>3. score(passed) <= 100
    <3>1. 2 * total * score(passed) < 2 * total * 101 BY <1>2, <2>2
    <3>. QED BY <1>2, <2>2, <3>1
  <2>4. score(passed) = 100 <=> passed = total
    <3>1. passed = total => 2 * total * 100 < 2 * total * score(passed) + 2 * total BY <1>2, <2>2
    <3>2. passed = total => score(passed) > 99 BY <1>2, <2>2, <3>1
    <3>3. score(passed) = 100 => 200 * total <= 200 * passed + total BY <1>2, <2>2
    <3>4. score(passed) = 100 => passed = total BY <1>2, <2>2, <3>3
    <3>. QED BY <2>2, <2>3, <3>2, <3>4
  <2>5. score(passed) = 0 <=> passed = 0
    <3>1. score(passed) = 0 => 200 * passed + total < 2 * total BY <1>2, <2>2
    <3>2. passed = 0 => 2 * total * score(passed) < 2 * total * 1 BY <1>2, <2>2
    <3>3. passed = 0 => score(passed) < 1 BY <1>2, <2>2, <3>2
    <3>4. passed # 0 => 200 * passed + total >= 2 * total BY <2>0
    <3>. QED BY <2>0, <3>1, <3>3, <3>4
  <2>6. passed < total => score(passed) <= score(passed + 1)
    <3>. SUFFICES ASSUME passed < total PROVE score(passed) <= score(passed + 1) OBVIOUS
    <3>1. passed + 1 \in 0 .. total OBVIOUS
    <3>2. 2 * total * score(passed) < 2 * total * (score(passed + 1) + 1) BY <1>2, <2>2, <3>1
    <3>3. score(passed) < score(passed + 1) + 1 BY <1>2, <2>2, <3>1, <3>2
    <3>. QED BY <2>2, <3>1, <3>3
  <2>7. /\ SuggestedScore(state, passed, total) = score(passed)
        /\ SuggestedScore(state, passed + 1, total) = score(passed + 1)
        /\ score(passed) \in 0 .. 100 /\ total > 0
    BY <2>0, <2>1, <2>3
  <2>. QED BY <1>2, <2>4, <2>5, <2>6, <2>7 DEF ScoreIsHonest
<1>. QED BY <1>1, <1>2

\* As many results as tests, each of another test that was asked for: every test has one.
LEMMA EachAnswered ==
  ASSUME NEW n \in Nat, NEW asked, NEW answered,
         AllDiffer(answered, n), AreAmong(answered, asked, n)
  PROVE  AreAmong(asked, answered, n)
<1>. DEFINE f == [i \in 1 .. n |-> CHOOSE k \in 1 .. n : answered[i] = asked[k]]
<1>1. f \in [1 .. n -> 1 .. n] /\ \A i \in 1 .. n : answered[i] = asked[f[i]] BY DEF AreAmong
<1>2. IsFiniteSet(1 .. n) BY FS_Interval
<1>. HIDE DEF f
<1>3. f \in Injection(1 .. n, 1 .. n)
  <2>1. ASSUME NEW a \in 1 .. n, NEW b \in 1 .. n, f[a] = f[b]
        PROVE  a = b
    <3>1. answered[a] = asked[f[a]] /\ answered[b] = asked[f[b]] BY <1>1
    <3>2. answered[a] = answered[b] BY <2>1, <3>1
    <3>. QED BY <3>2 DEF AllDiffer
  <2>. QED BY <1>1, <2>1 DEF Injection, IsInjective
<1>4. f \in Surjection(1 .. n, 1 .. n) BY <1>2, <1>3, FS_Injection
<1>5. ASSUME NEW j \in 1 .. n
      PROVE  \E i \in 1 .. n : asked[j] = answered[i]
  <2>1. PICK i \in 1 .. n : f[i] = j BY <1>4 DEF Surjection
  <2>. QED BY <1>1, <2>1
<1>. QED BY <1>5 DEF AreAmong

\* A visibility that is found is that of a test asked for.
LEMMA VisibilityFacts ==
  ASSUME NEW request, NEW id, VisibilityIn(request, id) # "unknown"
  PROVE  \E j \in DOMAIN request :
            request[j].id = id /\ request[j].visibility = VisibilityIn(request, id)
BY DEF VisibilityIn

LEMMA NothingPassed == Passed(<<>>) = 0
<1>1. {i \in DOMAIN <<>> : <<>>[i].passed} = {} OBVIOUS
<1>. QED BY <1>1, FS_EmptySet DEF Passed

\* Whatever a runner service answers, and to whatever request: an answer that is passed
\* on has results of tests that were asked for, with their visibility, counts no more
\* passes than it has, and when it is completed has exactly one result for each test.
THEOREM AnswerAboutRequest ==
  ASSUME NEW Id, NEW Vis, "unknown" \notin Vis, NEW State,
         NEW request \in Seq([id : Id, visibility : Vis]), AsksForTests(request),
         NEW response \in AnyResponse(State, Id, Vis) \cup {NoResponse}, NEW sent, NEW language
  PROVE  AnswerIsAboutRequest(request, HttpAnswer(language, sent, request, response))
<1>. DEFINE answer == HttpAnswer(language, sent, request, response)
            n == Len(request)
<1>1. n \in Nat /\ DOMAIN request = 1 .. n OBVIOUS
<1>2. CASE answer = InternalError(request)
  <2>1. /\ answer.state = "internal_error" /\ answer.passed = 0 /\ answer.total = n
        /\ answer.tests = <<>>
    BY <1>2 DEF InternalError
  <2>. HIDE DEF answer
  <2>2. AnswerIsAboutRequest(request, answer) BY <1>1, <2>1, NothingPassed DEF AnswerIsAboutRequest
  <2>. QED BY <2>2 DEF answer
<1>3. CASE answer # InternalError(request)
  <2>1. /\ answer = response /\ response # NoResponse
        /\ MeetsSchema(response) /\ Matches(response, request)
    BY <1>3 DEF HttpAnswer
  <2>. HIDE DEF answer
  <2>. DEFINE tests == response.tests
  <2>2. response \in AnyResponse(State, Id, Vis) BY <2>1
  <2>3. /\ response.passed \in Nat /\ response.total \in Nat
        /\ tests \in Seq([id : Id, passed : BOOLEAN, visibility : Vis])
    BY <2>2 DEF AnyResponse
  <2>4. /\ Len(tests) \in Nat /\ DOMAIN tests = 1 .. Len(tests)
        /\ \A i \in DOMAIN tests : tests[i].visibility \in Vis
    <3>. HIDE DEF tests
    <3>. DEFINE Res == [id : Id, passed : BOOLEAN, visibility : Vis]
    <3>0. tests \in Seq(Res) BY <2>3
    <3>. HIDE DEF Res
    <3>1. ASSUME NEW i \in DOMAIN tests
          PROVE  tests[i] \in Res
      <4>1. tests \in [1 .. Len(tests) -> Res] BY <3>0, LenProperties
      <4>. QED BY <4>1
    <3>. QED BY <2>3, <3>1 DEF Res
  <2>5. /\ response.passed <= response.total /\ response.total = n
        /\ \A i \in DOMAIN tests :
             /\ \A j \in 1 .. i - 1 : tests[j].id # tests[i].id
             /\ VisibilityIn(request, tests[i].id) = tests[i].visibility
        /\ IF response.state = "completed"
           THEN Len(tests) = n /\ response.passed = Passed(tests)
           ELSE response.passed <= Passed(tests)
    BY <2>1 DEF MeetsSchema, Matches
  <2>6. \A i \in DOMAIN tests : \E j \in DOMAIN request :
          tests[i].id = request[j].id /\ tests[i].visibility = request[j].visibility
    <3>. SUFFICES ASSUME NEW i \in DOMAIN tests
                  PROVE  \E j \in DOMAIN request :
                    tests[i].id = request[j].id /\ tests[i].visibility = request[j].visibility
      OBVIOUS
    <3>1. VisibilityIn(request, tests[i].id) # "unknown" BY <2>4, <2>5
    <3>. QED BY <2>5, <3>1, VisibilityFacts
  <2>7. \A i, j \in DOMAIN tests : tests[i].id = tests[j].id => i = j BY <2>4, <2>5
  <2>8. response.passed <= Passed(tests) BY <2>3, <2>5
  <2>9. ASSUME response.state = "completed", NEW j \in DOMAIN request
        PROVE  Cardinality({i \in DOMAIN tests : tests[i].id = request[j].id}) = 1
    <3>. DEFINE asked == [i \in 1 .. n |-> request[i].id]
                answered == [i \in 1 .. n |-> tests[i].id]
    <3>1. DOMAIN tests = 1 .. n BY <2>4, <2>5, <2>9
    <3>2. AllDiffer(answered, n) /\ AreAmong(answered, asked, n)
      BY <1>1, <2>6, <2>7, <3>1 DEF AllDiffer, AreAmong
    <3>. HIDE DEF asked, answered
    <3>3. PICK i \in 1 .. n : asked[j] = answered[i]
      <4>1. AreAmong(asked, answered, n) BY <1>1, <3>2, EachAnswered
      <4>. QED BY <1>1, <4>1 DEF AreAmong
    <3>4. i \in DOMAIN tests /\ tests[i].id = request[j].id BY <1>1, <3>1, <3>3 DEF asked, answered
    <3>5. {k \in DOMAIN tests : tests[k].id = request[j].id} = {i} BY <2>7, <3>4
    <3>. QED BY <3>5, FS_Singleton
  <2>10. AnswerIsAboutRequest(request, answer)
    BY <2>1, <2>5, <2>6, <2>8, <2>9 DEF AnswerIsAboutRequest
  <2>. QED BY <2>10 DEF answer
<1>. QED BY <1>2, <1>3

-----------------------------------------------------------------------------
(* What is stored and shown of an answer (Results.tla).                     *)

\* A function on the first n numbers is a sequence of length n.
LEMMA IsSequence ==
  ASSUME NEW n \in Nat, NEW f, f = [i \in 1 .. n |-> f[i]]
  PROVE  f \in Seq({f[i] : i \in 1 .. n}) /\ Len(f) = n /\ DOMAIN f = 1 .. n
<1>. DEFINE S == {f[i] : i \in 1 .. n}
<1>1. f \in [1 .. n -> S] OBVIOUS
<1>. HIDE DEF S
<1>2. f \in Seq(S) /\ Len(f) = n BY <1>1
<1>. QED BY <1>1, <1>2 DEF S

LEMMA NumberedSet ==
  ASSUME NEW n \in Nat, NEW S \in SUBSET (1 .. n)
  PROVE  IsFiniteSet(S) /\ Cardinality(S) \in Nat
<1>1. IsFiniteSet(1 .. n) BY FS_Interval
<1>. QED BY <1>1, FS_Subset, FS_CardinalityType

LEMMA Ranks ==
  ASSUME NEW n \in Nat, NEW S \in SUBSET (1 .. n)
  PROVE  \E g \in [1 .. Cardinality(S) -> S] :
            /\ \A i \in 1 .. Cardinality(S) : Rank(S, g[i]) = i
            /\ \A i, j \in 1 .. Cardinality(S) : i < j => g[i] < g[j]
            /\ \A j \in S : \E i \in 1 .. Cardinality(S) : g[i] = j
            /\ \A s : Kept(s, S) = [i \in 1 .. Cardinality(S) |-> s[g[i]]]
<1>. DEFINE m == Cardinality(S)
            below(j) == {k \in S : k <= j}
            g == [i \in 1 .. m |-> CHOOSE j \in S : Rank(S, j) = i]
            r == [j \in S |-> Rank(S, j)]
<1>0. S \subseteq Nat OBVIOUS
<1>1. IsFiniteSet(S) /\ m \in Nat /\ S \subseteq Nat BY <1>0, NumberedSet
<1>2. ASSUME NEW j \in S PROVE IsFiniteSet(below(j)) /\ Rank(S, j) \in 1 .. m
  <2>1. below(j) \in SUBSET S /\ j \in below(j) /\ {j} \in SUBSET below(j) BY <1>1
  <2>2. IsFiniteSet(below(j)) /\ Cardinality(below(j)) <= m /\ Cardinality(below(j)) \in Nat
    BY <1>1, <2>1, FS_Subset, FS_CardinalityType
  <2>3. Cardinality({j}) <= Cardinality(below(j)) /\ Cardinality({j}) = 1
    BY <2>1, <2>2, FS_Subset, FS_Singleton
  <2>. QED BY <1>1, <2>2, <2>3 DEF Rank
<1>3. ASSUME NEW j \in S, NEW k \in S, j < k PROVE Rank(S, j) < Rank(S, k)
  <2>0. j \in Nat /\ k \in Nat /\ j < k /\ ~(k <= j) BY <1>0, <1>3
  <2>1. below(j) \in SUBSET below(k) /\ k \in below(k) /\ k \notin below(j)
    <3>1. \A l \in S : l <= j => l <= k BY <1>0, <2>0
    <3>2. below(j) \subseteq below(k) BY <3>1
    <3>3. k <= k BY <2>0
    <3>4. k \in below(k) /\ k \notin below(j) BY <2>0, <3>3, Zenon
    <3>. QED BY <3>2, <3>4
  <2>2. Cardinality(below(j)) <= Cardinality(below(k)) /\ Cardinality(below(j)) # Cardinality(below(k))
    BY <1>2, <2>1, FS_Subset
  <2>. QED BY <1>2, <2>2 DEF Rank
<1>4. \A j, k \in S : Rank(S, j) = Rank(S, k) => j = k
  <2>1. ASSUME NEW j \in S, NEW k \in S, Rank(S, j) = Rank(S, k) PROVE j = k
    <3>0. Rank(S, j) \in 1 .. m /\ j \in Nat /\ k \in Nat BY <1>0, <1>2
    <3>1. Rank(S, j) \in Nat /\ j \in Nat /\ k \in Nat BY <1>1, <3>0
    <3>2. j < k => Rank(S, j) < Rank(S, k) BY <1>3
    <3>3. k < j => Rank(S, k) < Rank(S, j) BY <1>3
    <3>. QED BY <2>1, <3>1, <3>2, <3>3
  <2>. QED BY <2>1
<1>5. r \in [S -> 1 .. m] /\ \A j \in S : r[j] = Rank(S, j) BY <1>2
<1>6. IsFiniteSet(1 .. m) /\ Cardinality(1 .. m) = m BY <1>1, FS_Interval
<1>. HIDE DEF r
<1>7. r \in Injection(S, 1 .. m) BY <1>4, <1>5 DEF Injection, IsInjective
<1>8. r \in Surjection(S, 1 .. m) BY <1>6, <1>7, FS_Injection
<1>9. ASSUME NEW i \in 1 .. m PROVE g[i] \in S /\ Rank(S, g[i]) = i
  <2>1. \E j \in S : Rank(S, j) = i BY <1>5, <1>8 DEF Surjection
  <2>. QED BY <2>1
<1>10. \A s : Kept(s, S) = [i \in 1 .. m |-> s[g[i]]] BY DEF Kept, Rank
<1>. DOMAIN g = 1 .. m OBVIOUS
<1>11. g \in [1 .. m -> S] BY <1>9
<1>. HIDE DEF g
<1>12. ASSUME NEW i \in 1 .. m, NEW j \in 1 .. m, i < j PROVE g[i] < g[j]
  <2>1. g[i] \in S /\ g[j] \in S /\ Rank(S, g[i]) = i /\ Rank(S, g[j]) = j BY <1>9
  <2>2. g[j] < g[i] => j < i BY <1>3, <2>1
  <2>3. i \in Nat /\ j \in Nat /\ i < j BY <1>1, <1>12
  <2>4. g[i] # g[j] BY <2>1, <2>3
  <2>5. g[i] \in Nat /\ g[j] \in Nat BY <1>0, <2>1
  <2>. QED BY <2>2, <2>3, <2>4, <2>5
<1>13. ASSUME NEW j \in S PROVE \E i \in 1 .. m : g[i] = j
  <2>1. Rank(S, j) \in 1 .. m /\ g[Rank(S, j)] = j BY <1>2, <1>4, <1>9
  <2>. QED BY <2>1
<1>. QED BY <1>9, <1>10, <1>11, <1>12, <1>13

\* Nothing is left out of what is kept whole.
LEMMA KeptWhole ==
  ASSUME NEW Row, NEW s \in Seq(Row)
  PROVE  Kept(s, DOMAIN s) = s
<1>. DEFINE n == Len(s)
<1>1. n \in Nat /\ DOMAIN s = 1 .. n OBVIOUS
<1>2. \A j \in 1 .. n : Cardinality({k \in 1 .. n : k <= j}) = j
  <2>1. ASSUME NEW j \in 1 .. n PROVE Cardinality({k \in 1 .. n : k <= j}) = j
    <3>1. {k \in 1 .. n : k <= j} = 1 .. j OBVIOUS
    <3>2. Cardinality(1 .. j) = IF 1 > j THEN 0 ELSE j - 1 + 1 BY FS_Interval
    <3>3. j \in Nat /\ 1 <= j /\ j - 1 + 1 = j OBVIOUS
    <3>4. Cardinality(1 .. j) = j BY <3>2, <3>3
    <3>. QED BY <3>1, <3>4
  <2>. QED BY <2>1
<1>3. Cardinality(1 .. n) = n BY <1>1, FS_Interval
<1>4. Kept(s, 1 .. n) = [i \in 1 .. n |-> s[i]]
  <2>1. ASSUME NEW i \in 1 .. n
        PROVE  (CHOOSE j \in 1 .. n : Cardinality({k \in 1 .. n : k <= j}) = i) = i
    BY <1>2
  <2>2. Kept(s, 1 .. n)
          = [i \in 1 .. n |-> s[CHOOSE j \in 1 .. n : Cardinality({k \in 1 .. n : k <= j}) = i]]
    BY <1>3 DEF Kept
  <2>. QED BY <2>1, <2>2
<1>. QED BY <1>1, <1>4

LEMMA CountFacts ==
  ASSUME NEW s, NEW n, Rows(s, n)
  PROVE  /\ \A v : Count(s, v) \in Nat /\ CountPassed(s, v) \in Nat
         /\ \A v : CountPassed(s, v) <= Count(s, v)
         /\ Count(s, "VISIBLE") + Count(s, "HIDDEN") = n
         /\ CountPassed(s, "VISIBLE") + CountPassed(s, "HIDDEN") = Passed(s)
<1>. DEFINE of(v) == {i \in 1 .. n : s[i].visibility = v}
            passed(v) == {i \in 1 .. n : s[i].visibility = v /\ s[i].passed}
<1>1. n \in Nat /\ DOMAIN s = 1 .. n BY DEF Rows
<1>2. \A v : /\ Count(s, v) = Cardinality(of(v)) /\ CountPassed(s, v) = Cardinality(passed(v))
             /\ of(v) \in SUBSET (1 .. n) /\ passed(v) \in SUBSET of(v)
  BY <1>1 DEF Count, CountPassed
<1>3. \A v : /\ IsFiniteSet(of(v)) /\ IsFiniteSet(passed(v))
             /\ Cardinality(of(v)) \in Nat /\ Cardinality(passed(v)) \in Nat
             /\ Cardinality(passed(v)) <= Cardinality(of(v))
  <2>. SUFFICES ASSUME NEW v
                PROVE  /\ IsFiniteSet(of(v)) /\ IsFiniteSet(passed(v))
                       /\ Cardinality(of(v)) \in Nat /\ Cardinality(passed(v)) \in Nat
                       /\ Cardinality(passed(v)) <= Cardinality(of(v))
    OBVIOUS
  <2>1. of(v) \in SUBSET (1 .. n) /\ passed(v) \in SUBSET of(v) BY <1>2
  <2>. HIDE DEF of, passed
  <2>2. IsFiniteSet(of(v)) /\ Cardinality(of(v)) \in Nat BY <1>1, <2>1, NumberedSet
  <2>. QED BY <2>1, <2>2, FS_Subset, FS_CardinalityType
<1>4. /\ of("VISIBLE") \cap of("HIDDEN") = {} /\ of("VISIBLE") \cup of("HIDDEN") = 1 .. n
      /\ passed("VISIBLE") \cap passed("HIDDEN") = {}
      /\ passed("VISIBLE") \cup passed("HIDDEN") = {i \in DOMAIN s : s[i].passed}
  BY <1>1 DEF Rows, Visibilities
<1>5. Cardinality(1 .. n) = n BY <1>1, FS_Interval
<1>. HIDE DEF of, passed
<1>6. Cardinality(of("VISIBLE")) + Cardinality(of("HIDDEN")) = n BY <1>3, <1>4, <1>5, Apart
<1>7. Cardinality(passed("VISIBLE")) + Cardinality(passed("HIDDEN")) = Passed(s)
  BY <1>3, <1>4, Apart DEF Passed
<1>. QED BY <1>2, <1>3, <1>6, <1>7

LEMMA Among ==
  ASSUME NEW answer, NEW request, NEW n, NEW m, Credible(answer, request, n, m), NEW v
  PROVE  Count(answer.tests, v) <= Count(request, v)
<1>. DEFINE tests == answer.tests
            S == {i \in 1 .. m : tests[i].visibility = v}
            T == {j \in 1 .. n : request[j].visibility = v}
            f == [i \in S |-> CHOOSE j \in T : request[j].id = tests[i].id]
<1>1. /\ n \in Nat /\ m \in Nat /\ DOMAIN request = 1 .. n /\ DOMAIN tests = 1 .. m
      /\ \A i \in 1 .. m : tests[i].visibility \in Visibilities
  BY DEF Credible, Rows
<1>2. Count(tests, v) = Cardinality(S) /\ Count(request, v) = Cardinality(T) BY <1>1 DEF Count
<1>3. ASSUME NEW i \in S PROVE \E j \in T : request[j].id = tests[i].id
  <2>1. VisibilityIn(request, tests[i].id) = v /\ v \in Visibilities BY <1>1 DEF Credible
  <2>2. v # "unknown" BY <2>1 DEF Visibilities
  <2>. QED BY <1>1, <2>1, <2>2, VisibilityFacts
<1>4. ASSUME NEW i \in S PROVE f[i] \in T /\ request[f[i]].id = tests[i].id BY <1>3
<1>. DOMAIN f = S OBVIOUS
<1>5. f \in [S -> T] BY <1>4
<1>. HIDE DEF f
<1>6. \A i, j \in S : f[i] = f[j] => i = j BY <1>4 DEF Credible
<1>7. f \in Injection(S, T) BY <1>5, <1>6 DEF Injection, IsInjective
<1>8. IsFiniteSet(T) BY <1>1, NumberedSet
<1>9. Cardinality(S) <= Cardinality(T) BY <1>7, <1>8, FS_Injection
<1>. QED BY <1>2, <1>9 DEF tests

\* Whatever is stored of it is what the provider said.
LEMMA StoredAsSaid ==
  ASSUME NEW answer, NEW request, NEW n, NEW m, Credible(answer, request, n, m)
  PROVE  Normalized(answer, request) = answer
<1>. DEFINE tests == answer.tests
            known == {i \in DOMAIN tests : VisibilityIn(request, tests[i].id) # "unknown"}
<1>0. PICK Id : tests \in Seq([id : Id, passed : BOOLEAN, visibility : Visibilities])
  BY DEF Credible
<1>. DEFINE Row == [id : Id, passed : BOOLEAN, visibility : Visibilities]
<1>1. /\ DOMAIN tests = 1 .. m
      /\ \A i \in 1 .. m : /\ VisibilityIn(request, tests[i].id) = tests[i].visibility
                           /\ tests[i].visibility \in Visibilities
  BY DEF Credible, Rows
<1>2. known = DOMAIN tests BY <1>1 DEF Visibilities
<1>3. Kept(tests, known) = tests BY <1>0, <1>2, KeptWhole
<1>4. Normalized(answer, request)
        = [answer EXCEPT !.tests =
             [i \in 1 .. m |-> [tests[i] EXCEPT !.visibility = VisibilityIn(request, tests[i].id)]]]
  BY <1>1, <1>3 DEF Normalized
<1>5. ASSUME NEW i \in 1 .. m
      PROVE  [tests[i] EXCEPT !.visibility = VisibilityIn(request, tests[i].id)] = tests[i]
  <2>1. tests[i] \in Row
    <3>. HIDE DEF Row
    <3>1. \A s \in Seq(Row) : \A k \in DOMAIN s : s[k] \in Row OBVIOUS
    <3>. QED BY <1>0, <1>1, <3>1 DEF Row
  <2>2. \A row \in Row : [row EXCEPT !.visibility = row.visibility] = row OBVIOUS
  <2>. QED BY <1>1, <2>1, <2>2
<1>6. tests = [i \in 1 .. m |-> tests[i]]
  <2>. HIDE DEF Row
  <2>1. \A s \in Seq(Row) : s = [i \in DOMAIN s |-> s[i]] OBVIOUS
  <2>. QED BY <1>0, <1>1, <2>1 DEF Row
<1>7. [answer EXCEPT !.tests = tests] = answer BY DEF Credible
<1>. QED BY <1>4, <1>5, <1>6, <1>7

\* What is stored of it: its results and counts, and no more is credited than was asked for.
LEMMA SnapshotFacts ==
  ASSUME NEW answer, NEW request, NEW n, NEW m, Credible(answer, request, n, m)
  PROVE  LET b == Breakdown(answer, request)
             said == answer.state = "completed"
         IN
         /\ Snapshot(answer, request)
              = [state |-> answer.state, passed |-> answer.passed, total |-> answer.total,
                 breakdown |-> b, tests |-> answer.tests]
         /\ b.visibleTotal = Count(request, "VISIBLE") /\ b.hiddenTotal = Count(request, "HIDDEN")
         /\ b.visibleTotal + b.hiddenTotal = n
         /\ b.visiblePassed = IF said THEN CountPassed(answer.tests, "VISIBLE") ELSE 0
         /\ b.hiddenPassed = IF said THEN CountPassed(answer.tests, "HIDDEN") ELSE 0
         /\ ~said => b.score = 0
<1>1. /\ n \in Nat /\ n = Len(request) /\ Rows(request, n) /\ Rows(answer.tests, m)
  BY DEF Credible, Rows
<1>2. /\ Count(request, "VISIBLE") \in Nat /\ Count(request, "HIDDEN") \in Nat
      /\ Count(request, "VISIBLE") + Count(request, "HIDDEN") = n
  BY <1>1, CountFacts
<1>3. /\ Breakdown(answer, request).visibleTotal = Count(request, "VISIBLE")
      /\ Breakdown(answer, request).hiddenTotal = n - Count(request, "VISIBLE")
  BY <1>1 DEF Breakdown
<1>4. /\ Breakdown(answer, request).visiblePassed
           = IF answer.state = "completed" THEN CountPassed(answer.tests, "VISIBLE") ELSE 0
      /\ Breakdown(answer, request).hiddenPassed
           = IF answer.state = "completed" THEN CountPassed(answer.tests, "HIDDEN") ELSE 0
      /\ answer.state # "completed" => Breakdown(answer, request).score = 0
  BY DEF Breakdown, SuggestedScore
<1>5. Snapshot(answer, request)
        = [state |-> answer.state, passed |-> answer.passed, total |-> answer.total,
           breakdown |-> Breakdown(answer, request), tests |-> answer.tests]
  BY StoredAsSaid DEF Snapshot
<1>. QED BY <1>2, <1>3, <1>4, <1>5

\* Of a completed run, a visible test has its result and a hidden test has.
LEMMA AllAnswered ==
  ASSUME NEW answer, NEW request, NEW n, NEW m, Credible(answer, request, n, m),
         answer.state = "completed"
  PROVE  /\ Count(answer.tests, "VISIBLE") = Count(request, "VISIBLE")
         /\ Count(answer.tests, "HIDDEN") = Count(request, "HIDDEN")
<1>1. Rows(request, n) /\ Rows(answer.tests, m) /\ m = n /\ n \in Nat BY DEF Credible, Rows
<1>2. \A v : Count(answer.tests, v) \in Nat /\ Count(request, v) \in Nat BY <1>1, CountFacts
<1>3. /\ Count(answer.tests, "VISIBLE") + Count(answer.tests, "HIDDEN") = n
      /\ Count(request, "VISIBLE") + Count(request, "HIDDEN") = n
  BY <1>1, CountFacts
<1>4. /\ Count(answer.tests, "VISIBLE") <= Count(request, "VISIBLE")
      /\ Count(answer.tests, "HIDDEN") <= Count(request, "HIDDEN")
  BY Among
<1>. QED BY <1>2, <1>3, <1>4

LEMMA CredibleFits ==
  ASSUME NEW answer, NEW request, NEW n, NEW m, Credible(answer, request, n, m)
  PROVE  NumbersFit(answer, request)
<1>. DEFINE b == Breakdown(answer, request)
            tests == answer.tests
<1>1. /\ Snapshot(answer, request).breakdown = b
      /\ b.visibleTotal = Count(request, "VISIBLE") /\ b.hiddenTotal = Count(request, "HIDDEN")
      /\ b.visibleTotal + b.hiddenTotal = n
      /\ b.visiblePassed = IF answer.state = "completed" THEN CountPassed(tests, "VISIBLE") ELSE 0
      /\ b.hiddenPassed = IF answer.state = "completed" THEN CountPassed(tests, "HIDDEN") ELSE 0
      /\ answer.state # "completed" => b.score = 0
  BY SnapshotFacts
<1>2. /\ Rows(request, n) /\ Rows(tests, m) /\ answer.total = n
      /\ answer.state = "completed" => answer.passed = Passed(tests)
  BY DEF Credible
<1>. HIDE DEF b
<1>3. /\ \A v : Count(request, v) \in Nat /\ Count(tests, v) \in Nat /\ CountPassed(tests, v) \in Nat
      /\ \A v : CountPassed(tests, v) <= Count(tests, v) /\ Count(tests, v) <= Count(request, v)
      /\ CountPassed(tests, "VISIBLE") + CountPassed(tests, "HIDDEN") = Passed(tests)
  BY <1>2, CountFacts, Among
<1>4. \A v : CountPassed(tests, v) <= Count(request, v) BY <1>3
<1>5. b.visiblePassed <= b.visibleTotal /\ b.hiddenPassed <= b.hiddenTotal BY <1>1, <1>3, <1>4
<1>6. IF answer.state = "completed" THEN b.visiblePassed + b.hiddenPassed = answer.passed
      ELSE b.visiblePassed + b.hiddenPassed = 0 /\ b.score = 0
  BY <1>1, <1>2, <1>3
<1>. QED BY <1>1, <1>2, <1>5, <1>6 DEF NumbersFit

LEMMA ShownFields == \A r : ShownOf(r).id = r.id /\ ShownOf(r).passed = r.passed
BY DEF ShownOf
LEMMA PublicFacts ==
  ASSUME NEW results, NEW m \in Nat, DOMAIN results = 1 .. m
  PROVE  LET public == {k \in 1 .. m : results[k].visibility \in {None, "VISIBLE"}}
             shown == PublicTestResults(results)
         IN /\ \A i \in DOMAIN shown : \E k \in public : shown[i] = ShownOf(results[k])
            /\ \A k \in public : \E i \in DOMAIN shown : shown[i] = ShownOf(results[k])
            /\ shown = <<>> => public = {}
<1>. DEFINE public == {k \in 1 .. m : results[k].visibility \in {None, "VISIBLE"}}
            c == Cardinality(public)
            shown == PublicTestResults(results)
<1>1. public \in SUBSET (1 .. m) OBVIOUS
<1>. HIDE DEF public
<1>2. PICK g \in [1 .. c -> public] :
        /\ \A j \in public : \E i \in 1 .. c : g[i] = j
        /\ \A s : Kept(s, public) = [i \in 1 .. c |-> s[g[i]]]
  BY <1>1, Ranks
<1>3. shown = [i \in 1 .. c |-> ShownOf(results[g[i]])]
  <2>1. Kept(results, public) = [i \in 1 .. c |-> results[g[i]]] BY <1>2
  <2>2. shown = [i \in DOMAIN Kept(results, public) |->
                   [id |-> Kept(results, public)[i].id, passed |-> Kept(results, public)[i].passed]]
    BY DEF PublicTestResults, public
  <2>. QED BY <2>1, <2>2 DEF ShownOf
<1>. HIDE DEF shown
<1>4. DOMAIN shown = 1 .. c /\ \A i \in 1 .. c : shown[i] = ShownOf(results[g[i]]) BY <1>3
<1>5. \A i \in DOMAIN shown : \E k \in public : shown[i] = ShownOf(results[k]) BY <1>2, <1>4
<1>6. \A k \in public : \E i \in DOMAIN shown : shown[i] = ShownOf(results[k]) BY <1>2, <1>4
<1>7. shown = <<>> => public = {}
  <2>1. DOMAIN <<>> = {} OBVIOUS
  <2>. QED BY <1>6, <2>1
<1>. QED BY <1>5, <1>6, <1>7 DEF public, shown

LEMMA SecretsKept ==
  ASSUME NEW snapshot, NEW m, Stored(snapshot, m), NEW tests
  PROVE  HiddenStayHidden(snapshot, tests)
<1>. DEFINE rows == snapshot.tests
            hidden == {rows[i].id : i \in {j \in DOMAIN rows : rows[j].visibility = "HIDDEN"}}
            public == {k \in 1 .. m : rows[k].visibility \in {None, "VISIBLE"}}
            shown == PublicTestResults(rows)
            page == ForStudent(snapshot, tests).tests
<1>1. /\ m \in Nat /\ DOMAIN rows = 1 .. m
      /\ \A i, j \in 1 .. m : rows[i].id = rows[j].id => i = j
  BY DEF Stored
<1>2. \A i \in DOMAIN shown : \E k \in public : shown[i] = ShownOf(rows[k]) BY <1>1, PublicFacts
<1>3. ASSUME NEW k \in public PROVE rows[k].id \notin hidden
  <2>1. rows[k].visibility # "HIDDEN" BY ResultsAssumption
  <2>. QED BY <1>1, <2>1
<1>. HIDE DEF public, hidden
<1>4. \A i \in DOMAIN shown : shown[i].id \notin hidden BY <1>2, <1>3, ShownFields
<1>5. PersistedResult(snapshot).tests = shown BY DEF PersistedResult
<1>6. page = [i \in DOMAIN shown |->
                [id |-> shown[i].id, passed |-> shown[i].passed,
                 details |-> VisibilityIn(tests, shown[i].id) = "VISIBLE"]]
  BY DEF ForStudent
<1>. HIDE DEF shown
<1>7. \A i \in DOMAIN page : page[i].id \notin hidden BY <1>4, <1>6
<1>. QED BY <1>4, <1>5, <1>7 DEF HiddenStayHidden, hidden

LEMMA PagesTellAlike ==
  ASSUME NEW snapshot, NEW m, Stored(snapshot, m), NEW tests
  PROVE  PagesAgree(snapshot, tests)
<1>. DEFINE rows == snapshot.tests
            public == {k \in 1 .. m : rows[k].visibility \in {None, "VISIBLE"}}
            shown == PublicTestResults(rows)
            student == ForStudent(snapshot, tests)
            teacher == ForTeacher(snapshot, tests)
<1>1. m \in Nat /\ DOMAIN rows = 1 .. m BY DEF Stored
<1>2. \A i \in DOMAIN shown : \E k \in public : shown[i] = ShownOf(rows[k]) BY <1>1, PublicFacts
<1>3. student.breakdown = teacher.breakdown BY DEF ForStudent, ForTeacher
<1>4. student.tests = [i \in DOMAIN shown |->
                [id |-> shown[i].id, passed |-> shown[i].passed,
                 details |-> VisibilityIn(tests, shown[i].id) = "VISIBLE"]]
  BY DEF ForStudent
<1>5. DOMAIN teacher.tests = 1 .. m
      /\ \A k \in 1 .. m : /\ teacher.tests[k].id = rows[k].id
                          /\ teacher.tests[k].passed = rows[k].passed
                          /\ teacher.tests[k].details
                               = (VisibilityIn(tests, rows[k].id) # "unknown")
                          /\ teacher.tests[k].visibility
                               = IF rows[k].visibility # None THEN rows[k].visibility
                                 ELSE IF VisibilityIn(tests, rows[k].id) = "HIDDEN" THEN "HIDDEN"
                                 ELSE "VISIBLE"
  BY <1>1 DEF ForTeacher
<1>. HIDE DEF shown, student, teacher
<1>6. ASSUME NEW i \in DOMAIN student.tests
      PROVE  \E j \in DOMAIN teacher.tests :
               /\ teacher.tests[j].id = student.tests[i].id
               /\ teacher.tests[j].passed = student.tests[i].passed
               /\ student.tests[i].details => teacher.tests[j].details
               /\ teacher.tests[j].visibility = "HIDDEN" =>
                    rows[j].visibility = None /\ ~student.tests[i].details
  <2>1. i \in DOMAIN shown BY <1>4
  <2>2. PICK k \in public : shown[i] = ShownOf(rows[k]) BY <1>2, <2>1
  <2>3. /\ student.tests[i].id = rows[k].id /\ student.tests[i].passed = rows[k].passed
        /\ student.tests[i].details = (VisibilityIn(tests, rows[k].id) = "VISIBLE")
    BY <1>4, <2>1, <2>2 DEF ShownOf
  <2>. QED BY <1>5, <2>3
<1>. QED BY <1>3, <1>6 DEF PagesAgree, student, teacher

LEMMA PanelTrue ==
  ASSUME NEW answer, NEW request, NEW n, NEW m, Credible(answer, request, n, m),
         NEW running \in BOOLEAN, NEW failure \in BOOLEAN
  PROVE  PanelIsHonest(running, failure, Snapshot(answer, request))
<1>. DEFINE snapshot == Snapshot(answer, request)
            rows == answer.tests
            b == Breakdown(answer, request)
            result == PersistedResult(snapshot)
            panel == Panel(running, failure, result)
            public == {k \in 1 .. m : rows[k].visibility \in {None, "VISIBLE"}}
            good == {k \in 1 .. m : rows[k].visibility = "VISIBLE" /\ rows[k].passed}
            shown == PublicTestResults(rows)
<1>1. /\ snapshot = [state |-> answer.state, passed |-> answer.passed, total |-> answer.total,
                      breakdown |-> b, tests |-> rows]
      /\ b.visibleTotal = Count(request, "VISIBLE")
      /\ b.visiblePassed = IF answer.state = "completed" THEN CountPassed(rows, "VISIBLE") ELSE 0
  BY SnapshotFacts
<1>2. /\ m \in Nat /\ DOMAIN rows = 1 .. m /\ answer.state \in States
      /\ \A k \in 1 .. m : rows[k].visibility \in Visibilities
  BY DEF Credible, Rows
<1>3. b # None
  <2>1. Rows(request, n) /\ Rows(rows, m) BY DEF Credible
  <2>2. \A v : Count(request, v) \in Nat /\ CountPassed(rows, v) \in Nat BY <2>1, CountFacts
  <2>3. Len(request) \in Nat BY DEF Credible, Rows
  <2>4. SuggestedScore(answer.state, answer.passed, answer.total) \in Int
    <3>1. answer.total \in Nat /\ (answer.state = "completed" => answer.passed \in Nat)
      <4>1. Passed(rows) \in Nat BY <2>1, <2>2, CountFacts
      <4>. QED BY <4>1 DEF Credible, Rows
    <3>2. CASE answer.state = "completed" /\ answer.total > 0
      <4>1. 200 * answer.passed + answer.total \in Nat /\ 2 * answer.total \in Nat \ {0}
        BY <3>1, <3>2
      <4>2. (200 * answer.passed + answer.total) \div (2 * answer.total) \in Nat BY <4>1, Division
      <4>. QED BY <3>1, <3>2, <4>2 DEF SuggestedScore
    <3>3. CASE ~(answer.state = "completed" /\ answer.total > 0) BY <3>1, <3>3 DEF SuggestedScore
    <3>. QED BY <3>2, <3>3
  <2>5. b \in [visiblePassed : Int, visibleTotal : Int, hiddenPassed : Int, hiddenTotal : Int,
               score : Int]
    BY <2>2, <2>3, <2>4 DEF Breakdown
  <2>. QED BY <2>5, ResultsAssumption
<1>4. result = [state |-> answer.state, passed |-> answer.passed, total |-> answer.total,
                breakdown |-> b, tests |-> shown]
  BY <1>1, <1>3 DEF PersistedResult, SnapshotBreakdown
<1>5. /\ \A i \in DOMAIN shown : \E k \in public : shown[i] = ShownOf(rows[k])
      /\ \A k \in public : \E i \in DOMAIN shown : shown[i] = ShownOf(rows[k])
      /\ shown = <<>> => public = {}
  BY <1>2, PublicFacts
<1>6. public = {k \in 1 .. m : rows[k].visibility = "VISIBLE"}
  BY <1>2, ResultsAssumption DEF Visibilities
<1>7. /\ Count(rows, "VISIBLE") = Cardinality(public)
      /\ CountPassed(rows, "VISIBLE") = Cardinality(good) /\ good \in SUBSET public
      /\ \A k \in good : rows[k].passed
      /\ \A k \in public : rows[k].passed => k \in good
  BY <1>2, <1>6 DEF Count, CountPassed
<1>8. IsFiniteSet(public) /\ Cardinality(public) \in Nat BY <1>2, <1>6, NumberedSet
<1>. HIDE DEF snapshot, b, public, good, shown
<1>9. result.state = answer.state /\ result.breakdown = b /\ result.tests = shown BY <1>4
<1>. HIDE DEF result
<1>10. ASSUME panel \in {"all passed", "some failed"}
       PROVE  /\ answer.state = "completed" /\ ~running /\ ~failure
              /\ panel = "all passed" => public # {} /\ good = public
              /\ panel = "some failed" => good # public
  <2>1. ~running /\ ~failure /\ panel = Outcome(result) BY <1>10 DEF Panel
  <2>2. answer.state = "completed" /\ panel = CompletedOutcome(b)
    BY <1>2, <1>9, <1>10, <2>1 DEF Outcome, States
  <2>3. Count(rows, "VISIBLE") = Count(request, "VISIBLE") BY <2>2, AllAnswered
  <2>4. b.visibleTotal = Cardinality(public) /\ b.visiblePassed = Cardinality(good)
    BY <1>1, <1>7, <2>2, <2>3
  <2>5. /\ panel = "all passed" => Cardinality(public) # 0 /\ Cardinality(good) = Cardinality(public)
        /\ panel = "some failed" => Cardinality(good) # Cardinality(public)
    BY <2>2, <2>4 DEF CompletedOutcome
  <2>6. Cardinality(good) = Cardinality(public) => good = public BY <1>7, <1>8, FS_Subset
  <2>7. Cardinality(public) # 0 => public # {} BY FS_EmptySet
  <2>. QED BY <2>1, <2>2, <2>5, <2>6, <2>7
<1>11. panel = "all passed" =>
         answer.state = "completed" /\ shown # <<>> /\ \A i \in DOMAIN shown : shown[i].passed
  <2>. SUFFICES ASSUME panel = "all passed"
                PROVE  /\ answer.state = "completed" /\ shown # <<>>
                       /\ \A i \in DOMAIN shown : shown[i].passed
    OBVIOUS
  <2>1. answer.state = "completed" /\ public # {} /\ good = public BY <1>10
  <2>2. ASSUME NEW i \in DOMAIN shown PROVE shown[i].passed
    <3>1. PICK k \in public : shown[i] = ShownOf(rows[k]) BY <1>5
    <3>2. rows[k].passed /\ shown[i].passed = rows[k].passed BY <1>7, <2>1, <3>1, ShownFields
    <3>. QED BY <3>2
  <2>3. shown # <<>> BY <1>5, <2>1
  <2>. QED BY <2>1, <2>2, <2>3
<1>12. panel = "some failed" => \E i \in DOMAIN shown : ~shown[i].passed
  <2>. SUFFICES ASSUME panel = "some failed" PROVE \E i \in DOMAIN shown : ~shown[i].passed OBVIOUS
  <2>1. good # public BY <1>10
  <2>2. PICK k \in public : ~rows[k].passed BY <1>7, <2>1
  <2>3. PICK i \in DOMAIN shown : shown[i] = ShownOf(rows[k]) BY <1>5
  <2>4. shown[i].passed = rows[k].passed BY <2>3, ShownFields
  <2>. QED BY <2>2, <2>4
<1>13. running \/ failure => panel \in {"running", "request error"} BY DEF Panel
<1>14. snapshot.state = answer.state BY <1>1
<1>. QED BY <1>9, <1>11, <1>12, <1>13, <1>14 DEF PanelIsHonest, result, snapshot

\* Whatever a runner service answers: what the provider passes on is credible.
LEMMA HttpFacts ==
  ASSUME NEW Id, NEW request \in Seq([id : Id, visibility : Visibilities]), AsksForTests(request),
         NEW response \in AnyResponse(States, Id, Visibilities) \cup {NoResponse},
         NEW sent, NEW language
  PROVE  LET answer == HttpAnswer(language, sent, request, response) IN
         Credible(answer, request, Len(request), Len(answer.tests))
<1>. DEFINE answer == HttpAnswer(language, sent, request, response)
            n == Len(request)
            Res == [id : Id, passed : BOOLEAN, visibility : Visibilities]
            Ask == [id : Id, visibility : Visibilities]
<1>1. /\ n \in Nat /\ DOMAIN request = 1 .. n /\ \A i \in 1 .. n : request[i] \in Ask
  <2>. HIDE DEF Ask
  <2>1. request \in Seq(Ask) BY DEF Ask
  <2>. QED BY <2>1
<1>2. Rows(request, n) BY <1>1 DEF Rows
<1>3. CASE answer = InternalError(request)
  <2>1. answer = [state |-> "internal_error", passed |-> 0, total |-> n, tests |-> <<>>]
    BY <1>3 DEF InternalError
  <2>. HIDE DEF answer
  <2>2. /\ answer.tests = <<>> /\ answer.state = "internal_error" /\ answer.total = n
        /\ answer.passed = 0
    BY <2>1
  <2>3. <<>> \in Seq(Res) /\ Len(<<>>) = 0 /\ DOMAIN <<>> = 1 .. 0 /\ 1 .. 0 = {} OBVIOUS
  <2>4. Rows(answer.tests, 0) BY <2>2, <2>3 DEF Rows
  <2>5. Credible(answer, request, n, 0) BY <1>2, <2>1, <2>2, <2>3, <2>4 DEF Credible, States
  <2>. QED BY <2>2, <2>3, <2>5 DEF answer
<1>4. CASE answer # InternalError(request)
  <2>1. /\ answer = response /\ response # NoResponse
        /\ MeetsSchema(response) /\ Matches(response, request)
    BY <1>4 DEF HttpAnswer
  <2>. HIDE DEF answer
  <2>. DEFINE tests == response.tests
              m == Len(tests)
  <2>2. response \in AnyResponse(States, Id, Visibilities) BY <2>1
  <2>3. /\ response.passed \in Nat /\ response.total \in Nat /\ response.state \in States
        /\ tests \in Seq(Res)
        /\ response = [state |-> response.state, passed |-> response.passed,
                       total |-> response.total, tests |-> tests]
    BY <2>2 DEF AnyResponse
  <2>4. m \in Nat /\ DOMAIN tests = 1 .. m /\ \A i \in 1 .. m : tests[i] \in Res
    <3>. HIDE DEF tests, Res
    <3>. QED BY <2>3
  <2>5. Rows(tests, m) BY <2>4 DEF Rows
  <2>6. /\ response.total = n
        /\ \A i \in DOMAIN tests :
             /\ \A j \in 1 .. i - 1 : tests[j].id # tests[i].id
             /\ VisibilityIn(request, tests[i].id) = tests[i].visibility
        /\ response.state = "completed" => m = n /\ response.passed = Passed(tests)
    BY <2>1 DEF Matches
  <2>. HIDE DEF m
  <2>7. \A i, j \in 1 .. m : tests[i].id = tests[j].id => i = j BY <2>4, <2>6
  <2>8. Credible(response, request, n, m) BY <1>2, <2>3, <2>4, <2>5, <2>6, <2>7 DEF Credible
  <2>. QED BY <2>1, <2>8 DEF m, answer
<1>. QED BY <1>3, <1>4

\* The numbers of what is stored fit, of any run of any tests and whatever the runner service
\* answered (result-grading.ts, http providers).
THEOREM NumbersAlwaysFit ==
  ASSUME NEW Id, NEW request \in Seq([id : Id, visibility : Visibilities]), AsksForTests(request),
         NEW response \in AnyResponse(States, Id, Visibilities) \cup {NoResponse},
         NEW sent, NEW language
  PROVE  NumbersFit(HttpAnswer(language, sent, request, response), request)
BY HttpFacts, CredibleFits

\* What is stored of an answer is shown to a student without the tests it calls hidden, to
\* student and teacher alike, and under the heading that is true; a result from before there
\* were visibilities without the input and expected output of tests that are hidden now;
\* however the tests of the practical changed since (attempts/service.ts,
\* run-result-view-model.ts).
THEOREM ResultsAreShownTruly ==
  ASSUME NEW Id, NEW request \in Seq([id : Id, visibility : Visibilities]), AsksForTests(request),
         NEW response \in AnyResponse(States, Id, Visibilities) \cup {NoResponse},
         NEW sent, NEW language
  PROVE  LET snapshot == Snapshot(HttpAnswer(language, sent, request, response), request) IN
         /\ \A stored \in {snapshot, Legacy(snapshot)} : \A tests :
              HiddenStayHidden(stored, tests) /\ PagesAgree(stored, tests)
         /\ \A running, failure \in BOOLEAN : PanelIsHonest(running, failure, snapshot)
<1>. DEFINE answer == HttpAnswer(language, sent, request, response)
            snapshot == Snapshot(answer, request)
            rows == answer.tests
            m == Len(rows)
<1>1. Credible(answer, request, Len(request), m) BY HttpFacts
<1>. HIDE DEF answer, m
<1>2. /\ m \in Nat /\ DOMAIN rows = 1 .. m
      /\ \A i, j \in 1 .. m : rows[i].id = rows[j].id => i = j
  BY <1>1 DEF Credible, Rows
<1>3. snapshot.tests = rows
      /\ snapshot = [state |-> answer.state, passed |-> answer.passed, total |-> answer.total,
                     breakdown |-> Breakdown(answer, request), tests |-> rows]
  BY <1>1, SnapshotFacts
<1>4. Stored(snapshot, m) BY <1>2, <1>3 DEF Stored
<1>5. Stored(Legacy(snapshot), m)
  <2>1. Legacy(snapshot).tests = [i \in DOMAIN rows |-> [rows[i] EXCEPT !.visibility = None]]
    BY <1>3 DEF Legacy
  <2>2. \A i \in 1 .. m : Legacy(snapshot).tests[i].id = rows[i].id
    <3>1. PICK Key : rows \in Seq([id : Key, passed : BOOLEAN, visibility : Visibilities])
      BY <1>1 DEF Credible
    <3>. DEFINE Row == [id : Key, passed : BOOLEAN, visibility : Visibilities]
    <3>2. \A row \in Row : [row EXCEPT !.visibility = None].id = row.id OBVIOUS
    <3>3. \A i \in 1 .. m : rows[i] \in Row
      <4>. HIDE DEF Row
      <4>1. rows \in Seq(Row) BY <3>1 DEF Row
      <4>. QED BY <1>2, <4>1
    <3>. HIDE DEF Row
    <3>. QED BY <1>2, <2>1, <3>2, <3>3
  <2>3. DOMAIN Legacy(snapshot).tests = 1 .. m BY <1>2, <2>1
  <2>. QED BY <1>2, <2>2, <2>3 DEF Stored
<1>6. \A stored \in {snapshot, Legacy(snapshot)} : \A tests :
        HiddenStayHidden(stored, tests) /\ PagesAgree(stored, tests)
  BY <1>4, <1>5, SecretsKept, PagesTellAlike
<1>7. \A running, failure \in BOOLEAN : PanelIsHonest(running, failure, snapshot) BY <1>1, PanelTrue
<1>. QED BY <1>6, <1>7 DEF answer

-----------------------------------------------------------------------------
(* Verdicts on programs (Sandbox.tla, Providers.tla).                       *)

\* What holds at first and after each step holds throughout.
LEMMA StepByStep ==
  ASSUME NEW n \in Nat, NEW P, 0 \in P, \A i \in 1 .. n : i - 1 \in P => i \in P
  PROVE  \A i \in 0 .. n : i \in P
<1>. DEFINE Bad == {i \in 0 .. n : i \notin P}
<1>1. SUFFICES ASSUME Bad # {} PROVE FALSE OBVIOUS
<1>2. Bad \in SUBSET Nat OBVIOUS
<1>3. PICK m \in Bad : \A i \in Bad : m <= i BY <1>1, <1>2, LeastOf
<1>4. m \in 1 .. n /\ m - 1 \in 0 .. n /\ ~(m <= m - 1) BY <1>3
<1>5. m - 1 \in P BY <1>3, <1>4
<1>. QED BY <1>3, <1>4, <1>5

LEMMA TotalsFacts ==
  ASSUME NEW n \in Nat, NEW f, \A i \in 1 .. n : f[i] \in Nat
  PROVE  /\ Totals(f, n)[0] = 0
         /\ \A i \in 1 .. n : Totals(f, n)[i] = Totals(f, n)[i - 1] + f[i]
         /\ \A i \in 0 .. n : Totals(f, n)[i] \in Nat
<1>. DEFINE Adds(s, m) == s = [i \in 0 .. m |-> IF i = 0 THEN 0 ELSE s[i - 1] + f[i]]
            P == {m \in 0 .. n : \E s : Adds(s, m)}
            total == Totals(f, n)
<1>1. 0 \in P
  <2>1. Adds([i \in 0 .. 0 |-> 0], 0) OBVIOUS
  <2>. HIDE DEF Adds
  <2>. QED BY <2>1
<1>2. ASSUME NEW m \in 1 .. n, m - 1 \in P PROVE m \in P
  <2>1. PICK s : Adds(s, m - 1) BY <1>2
  <2>. DEFINE t == [i \in 0 .. m |-> IF i = m THEN s[m - 1] + f[m] ELSE s[i]]
  <2>2. /\ \A i \in 0 .. m - 1 : s[i] = IF i = 0 THEN 0 ELSE s[i - 1] + f[i]
        /\ \A i \in 0 .. m - 1 : t[i] = s[i]
        /\ t[m] = s[m - 1] + f[m]
    BY <2>1
  <2>. DOMAIN t = 0 .. m OBVIOUS
  <2>3. t = [i \in 0 .. m |-> t[i]] OBVIOUS
  <2>. HIDE DEF t
  <2>4. ASSUME NEW i \in 0 .. m PROVE t[i] = IF i = 0 THEN 0 ELSE t[i - 1] + f[i]
    <3>1. CASE i = m
      <4>1. m - 1 \in 0 .. m - 1 /\ t[m - 1] = s[m - 1] /\ m # 0 BY <2>2
      <4>. QED BY <2>2, <3>1, <4>1
    <3>2. CASE i # m
      <4>1. i \in 0 .. m - 1 /\ (i # 0 => i - 1 \in 0 .. m - 1) BY <3>2
      <4>. QED BY <2>2, <4>1
    <3>. QED BY <3>1, <3>2
  <2>5. Adds(t, m) BY <2>3, <2>4
  <2>. QED BY <2>5
<1>3. n \in P
  <2>. HIDE DEF P
  <2>1. \A i \in 0 .. n : i \in P BY <1>1, <1>2, StepByStep
  <2>. QED BY <2>1
<1>4. Adds(total, n)
  <2>1. total = CHOOSE s : Adds(s, n) BY Zenon DEF Totals
  <2>2. \E s : Adds(s, n) BY <1>3
  <2>. QED BY <2>1, <2>2, Zenon
<1>. HIDE DEF total
<1>5. total[0] = 0 /\ \A i \in 1 .. n : total[i] = total[i - 1] + f[i] BY <1>4
<1>. DEFINE Q == {i \in 0 .. n : total[i] \in Nat}
<1>6. 0 \in Q BY <1>5
<1>7. \A i \in 1 .. n : i - 1 \in Q => i \in Q BY <1>5
<1>. HIDE DEF Q
<1>8. \A i \in 0 .. n : i \in Q BY <1>6, <1>7, StepByStep
<1>. QED BY <1>5, <1>8 DEF Q, total

LEMMA CourseFacts ==
  ASSUME NEW limits, NEW program, NEW trouble, Len(program.tests) \in Nat
  PROVE  LET run == Course(limits, program, trouble) IN
         /\ run[0] = AtFirst(program)
         /\ \A i \in 1 .. Len(program.tests) :
              run[i] = Tested(limits, trouble, run[i - 1], program.tests[i])
<1>. DEFINE n == Len(program.tests)
            next(run, i) == Tested(limits, trouble, run, program.tests[i])
            Goes(s, m) == s = [i \in 0 .. m |-> IF i = 0 THEN AtFirst(program) ELSE next(s[i - 1], i)]
            P == {m \in 0 .. n : \E s : Goes(s, m)}
            run == Course(limits, program, trouble)
<1>0. run = CHOOSE s : Goes(s, n) BY Zenon DEF Course, AtFirst
<1>. HIDE DEF next, n, run
<1>a. n \in Nat BY DEF n
<1>1. 0 \in P
  <2>1. Goes([i \in 0 .. 0 |-> AtFirst(program)], 0) OBVIOUS
  <2>. HIDE DEF Goes
  <2>. QED BY <1>a, <2>1
<1>2. ASSUME NEW m \in 1 .. n, m - 1 \in P PROVE m \in P
  <2>1. PICK s : Goes(s, m - 1) BY <1>2
  <2>. DEFINE t == [i \in 0 .. m |-> IF i = m THEN next(s[m - 1], m) ELSE s[i]]
  <2>2. /\ \A i \in 0 .. m - 1 : s[i] = IF i = 0 THEN AtFirst(program) ELSE next(s[i - 1], i)
        /\ \A i \in 0 .. m - 1 : t[i] = s[i]
        /\ t[m] = next(s[m - 1], m)
    BY <1>a, <2>1
  <2>. DOMAIN t = 0 .. m OBVIOUS
  <2>3. t = [i \in 0 .. m |-> t[i]] OBVIOUS
  <2>. HIDE DEF t
  <2>4. ASSUME NEW i \in 0 .. m PROVE t[i] = IF i = 0 THEN AtFirst(program) ELSE next(t[i - 1], i)
    <3>1. CASE i = m
      <4>1. m - 1 \in 0 .. m - 1 /\ t[m - 1] = s[m - 1] /\ m # 0 BY <1>a, <2>2
      <4>. QED BY <2>2, <3>1, <4>1
    <3>2. CASE i # m
      <4>1. i \in 0 .. m - 1 /\ (i # 0 => i - 1 \in 0 .. m - 1) BY <1>a, <3>2
      <4>. QED BY <2>2, <4>1
    <3>. QED BY <3>1, <3>2
  <2>5. Goes(t, m) BY <2>3, <2>4
  <2>. QED BY <1>a, <2>5
<1>3. n \in P
  <2>. HIDE DEF P
  <2>1. \A i \in 0 .. n : i \in P BY <1>a, <1>1, <1>2, StepByStep
  <2>. QED BY <1>a, <2>1
<1>4. Goes(run, n)
  <2>1. \E s : Goes(s, n) BY <1>3
  <2>. QED BY <1>0, <2>1, Zenon
<1>5. run[0] = AtFirst(program) /\ \A i \in 1 .. n : run[i] = next(run[i - 1], i) BY <1>a, <1>4
<1>. QED BY <1>5 DEF n, next, run

LEMMA OneLonger ==
  ASSUME NEW k \in Nat, NEW f
  PROVE  Append([j \in 1 .. k |-> f[j]], f[k + 1]) = [j \in 1 .. k + 1 |-> f[j]]
<1>. DEFINE S == {f[j] : j \in 1 .. k + 1}
            s == [j \in 1 .. k |-> f[j]]
<1>1. s \in [1 .. k -> S] /\ \A j \in 1 .. k : s[j] = f[j] OBVIOUS
<1>2. f[k + 1] \in S OBVIOUS
<1>. HIDE DEF s, S
<1>3. s \in Seq(S) /\ Len(s) = k BY <1>1
<1>4. /\ Append(s, f[k + 1]) \in Seq(S) /\ Len(Append(s, f[k + 1])) = k + 1
      /\ \A j \in 1 .. k + 1 : Append(s, f[k + 1])[j] = f[j]
  BY <1>1, <1>2, <1>3
<1>. DEFINE more == Append(s, f[k + 1])
<1>. HIDE DEF more
<1>5. more = [j \in 1 .. k + 1 |-> more[j]] /\ \A j \in 1 .. k + 1 : more[j] = f[j] BY <1>4 DEF more
<1>6. more = [j \in 1 .. k + 1 |-> f[j]] BY <1>5
<1>. QED BY <1>6 DEF more, s

LEMMA OneTest ==
  ASSUME NEW limits, AreLimits(limits), NEW program, NEW request, NEW n, Runs(program, request, n),
         NEW trouble, NEW i \in 1 .. n, NEW run, Told(run, program, i - 1)
  PROVE  GoesOn(limits, trouble, run, program, i, Tested(limits, trouble, run, program.tests[i]))
<1>. DEFINE test == program.tests[i]
            next == Tested(limits, trouble, run, test)
            passes == Passes(limits, trouble, run, test)
            stopped(state) == [state |-> state, number |-> run.number, spent |-> run.spent,
                               returned |-> run.returned, began |-> run.began,
                               results |-> run.results]
<1>1. /\ n \in Nat /\ i \in Nat /\ i - 1 \in Nat /\ test.seconds \in Nat /\ test.bytes \in Nat
      /\ limits.wall \in Nat /\ limits.output \in Nat /\ limits.total \in Nat
  BY DEF Runs, AreLimits
<1>2. /\ run.began = program.staged + program.compileTime /\ run.spent \in Nat /\ run.returned \in Nat
      /\ run.number \in 0 .. i - 1 /\ run.state \in States \ {"compilation_error"}
      /\ run.results = [j \in 1 .. run.number |-> Verdict(program.tests[j])]
      /\ run.state = "completed" => run.number = i - 1
      /\ run = stopped(run.state)
  BY DEF Told
<1>3. \A state : [run EXCEPT !.state = state] = stopped(state) BY <1>2
<1>4. OutputLeft(limits, run.returned) \in Int BY <1>1, <1>2 DEF OutputLeft, Least, Most
<1>5. CASE run.state # "completed"
  <2>1. next = run BY <1>5 DEF Tested
  <2>. HIDE DEF next
  <2>2. Told(next, program, i) BY <1>1, <1>2, <1>5, <2>1 DEF Told
  <2>. QED BY <1>5, <2>1, <2>2 DEF next, GoesOn
<1>6. CASE run.state = "completed" /\ passes
  <2>1. run.number = i - 1 /\ run.number + 1 = i BY <1>1, <1>2, <1>6
  <2>2. next = [run EXCEPT !.number = i, !.spent = @ + test.seconds, !.returned = @ + test.bytes,
                           !.results = Append(@, Verdict(test))]
    <3>1. /\ ~(limits.wall - run.spent <= 0)
          /\ ~(trouble.at = "test" /\ trouble.test = run.number + 1)
          /\ ~Gone(limits, run.began + run.spent, test.seconds, limits.wall - run.spent)
          /\ ~Late(test.seconds, limits.wall - run.spent)
          /\ ~(test.bytes > OutputLeft(limits, run.returned)) /\ test.does # "crash"
      BY <1>1, <1>2, <1>4, <1>6 DEF Passes
    <3>. HIDE DEF test
    <3>2. next = [run EXCEPT !.number = run.number + 1, !.spent = @ + test.seconds,
                             !.returned = @ + test.bytes, !.results = Append(@, Verdict(test))]
      BY <1>6, <3>1, Zenon DEF Tested, test
    <3>. QED BY <2>1, <3>2
  <2>3. next = [state |-> run.state, number |-> i, spent |-> run.spent + test.seconds,
                returned |-> run.returned + test.bytes, began |-> run.began,
                results |-> Append(run.results, Verdict(test))]
    BY <1>2, <2>2
  <2>. HIDE DEF next, passes
  <2>4. Append(run.results, Verdict(test)) = [j \in 1 .. i |-> Verdict(program.tests[j])]
    <3>. DEFINE f == [j \in 1 .. i |-> Verdict(program.tests[j])]
    <3>1. \A j \in 1 .. i : f[j] = Verdict(program.tests[j]) OBVIOUS
    <3>2. f = [j \in 1 .. i |-> f[j]] /\ i - 1 + 1 = i BY <1>1
    <3>. HIDE DEF f
    <3>3. run.results = [j \in 1 .. i - 1 |-> f[j]] /\ Verdict(test) = f[i]
      BY <1>1, <1>2, <2>1, <3>1
    <3>4. Append([j \in 1 .. i - 1 |-> f[j]], f[i - 1 + 1]) = [j \in 1 .. i - 1 + 1 |-> f[j]]
      BY <1>1, OneLonger
    <3>. QED BY <3>2, <3>3, <3>4 DEF f
  <2>5. /\ next.state = "completed" /\ next.number = i /\ next.spent = run.spent + test.seconds
        /\ next.returned = run.returned + test.bytes /\ next.began = run.began
        /\ next.results = [j \in 1 .. i |-> Verdict(program.tests[j])]
        /\ next = [state |-> next.state, number |-> next.number, spent |-> next.spent,
                   returned |-> next.returned, began |-> next.began, results |-> next.results]
    BY <1>6, <2>3, <2>4
  <2>6. next.spent \in Nat /\ next.returned \in Nat /\ i \in 0 .. i
    <3>1. run.spent \in Nat /\ run.returned \in Nat BY <1>2
    <3>2. next.spent = run.spent + test.seconds /\ next.returned = run.returned + test.bytes BY <2>5
    <3>. HIDE DEF test
    <3>. QED BY <1>1, <3>1, <3>2
  <2>7. Told(next, program, i) BY <1>2, <2>5, <2>6 DEF Told, States
  <2>. QED BY <1>6, <2>1, <2>5, <2>7 DEF next, passes, GoesOn
<1>7. CASE run.state = "completed" /\ ~passes
  <2>1. run.number = i - 1 /\ run.number + 1 = i BY <1>1, <1>2, <1>7
  <2>2. NoTrouble.at # "test" BY DEF NoTrouble
  <2>3. PICK state \in {"time_limit_exceeded", "internal_error", "runtime_error"} :
          /\ next = [run EXCEPT !.state = state]
          /\ trouble = NoTrouble => state # "internal_error"
    <3>. DEFINE left == limits.wall - run.spent
                ends(state) == [run EXCEPT !.state = state]
                troubled == trouble.at = "test" /\ trouble.test = i
    <3>1. Ending(trouble.how) \in {"time_limit_exceeded", "internal_error", "runtime_error"}
      BY DEF Ending
    <3>2. trouble = NoTrouble => ~troubled BY <2>2
    <3>3. CASE left <= 0
      <4>1. next = ends("time_limit_exceeded") BY <1>7, <3>3 DEF Tested
      <4>. QED BY <4>1
    <3>4. CASE ~(left <= 0) /\ troubled
      <4>1. next = ends(Ending(trouble.how)) BY <1>7, <2>1, <3>4 DEF Tested
      <4>. QED BY <3>1, <3>2, <3>4, <4>1
    <3>5. CASE ~(left <= 0) /\ ~troubled
      <4>. HIDE DEF test
      <4>1. left > 0 /\ (~(test.bytes <= OutputLeft(limits, run.returned)) =>
                           test.bytes > OutputLeft(limits, run.returned))
        BY <1>1, <1>2, <1>4, <3>5 DEF test
      <4>2. \/ Gone(limits, run.began + run.spent, test.seconds, left) \/ Late(test.seconds, left)
            \/ test.bytes > OutputLeft(limits, run.returned) \/ test.does = "crash"
        BY <1>7, <2>1, <3>5, <4>1 DEF Passes
      <4>3. next = ends("runtime_error") \/ next = ends("time_limit_exceeded")
        BY <1>7, <2>1, <3>5, <4>2, Zenon DEF Tested
      <4>. QED BY <4>3
    <3>. QED BY <3>3, <3>4, <3>5
  <2>4. next = stopped(state) BY <1>3, <2>3
  <2>. HIDE DEF next, passes
  <2>5. Told(next, program, i) BY <1>1, <1>2, <2>1, <2>3, <2>4 DEF Told, States
  <2>. QED BY <1>7, <2>1, <2>3, <2>4, <2>5 DEF next, passes, GoesOn
<1>. QED BY <1>5, <1>6, <1>7

\* After so many tests, whatever went wrong.
LEMMA CourseTold ==
  ASSUME NEW limits, AreLimits(limits), NEW program, NEW request, NEW n, Runs(program, request, n),
         NEW trouble
  PROVE  \A i \in 0 .. n : Told(Course(limits, program, trouble)[i], program, i)
<1>. DEFINE run == Course(limits, program, trouble)
            P == {i \in 0 .. n : Told(run[i], program, i)}
<1>1. n \in Nat /\ n = Len(program.tests) BY DEF Runs
<1>2. /\ run[0] = AtFirst(program)
      /\ \A i \in 1 .. n : run[i] = Tested(limits, trouble, run[i - 1], program.tests[i])
  BY <1>1, CourseFacts
<1>. HIDE DEF run
<1>3. Told(AtFirst(program), program, 0)
  <2>1. program.staged + program.compileTime \in Nat BY DEF Runs
  <2>2. <<>> = [j \in 1 .. 0 |-> Verdict(program.tests[j])] OBVIOUS
  <2>. QED BY <2>1, <2>2 DEF Told, AtFirst, States
<1>4. 0 \in P BY <1>1, <1>2, <1>3
<1>5. \A i \in 1 .. n : i - 1 \in P => i \in P
  <2>. SUFFICES ASSUME NEW i \in 1 .. n, i - 1 \in P PROVE i \in P OBVIOUS
  <2>1. Told(run[i - 1], program, i - 1) OBVIOUS
  <2>2. Told(run[i], program, i)
    <3>. HIDE DEF P
    <3>1. Told(Tested(limits, trouble, run[i - 1], program.tests[i]), program, i)
      BY <2>1, OneTest DEF GoesOn
    <3>. QED BY <1>2, <3>1
  <2>. QED BY <1>1, <2>2
<1>. HIDE DEF P
<1>6. \A i \in 0 .. n : i \in P BY <1>1, <1>4, <1>5, StepByStep
<1>. QED BY <1>6 DEF P, run

LEMMA NumberedIs ==
  ASSUME NEW request, AsksForTests(request), NEW j \in DOMAIN request
  PROVE  VisibilityIn(request, request[j].id) = request[j].visibility
BY DEF VisibilityIn, AsksForTests

LEMMA SpentFacts ==
  ASSUME NEW program, NEW request, NEW n, Runs(program, request, n)
  PROVE  /\ Spent(program, n)[0] = 0 /\ Returned(program, n)[0] = 0
         /\ \A i \in 0 .. n : Spent(program, n)[i] \in Nat /\ Returned(program, n)[i] \in Nat
         /\ \A i \in 1 .. n :
              /\ Spent(program, n)[i] = Spent(program, n)[i - 1] + program.tests[i].seconds
              /\ Returned(program, n)[i] = Returned(program, n)[i - 1] + program.tests[i].bytes
<1>. DEFINE f == [i \in 1 .. n |-> program.tests[i].seconds]
            g == [i \in 1 .. n |-> program.tests[i].bytes]
<1>1. n \in Nat /\ \A i \in 1 .. n : /\ f[i] = program.tests[i].seconds /\ f[i] \in Nat
                                    /\ g[i] = program.tests[i].bytes /\ g[i] \in Nat
  BY DEF Runs
<1>2. Spent(program, n) = Totals(f, n) /\ Returned(program, n) = Totals(g, n) BY DEF Spent, Returned
<1>. HIDE DEF f, g
<1>. QED BY <1>1, <1>2, TotalsFacts

LEMMA StopsAre ==
  ASSUME NEW limits, NEW program, NEW request, NEW n, Runs(program, request, n)
  PROVE  Stops(limits, program)
           = {i \in 1 .. n :
                \/ program.tests[i].does = "crash"
                \/ Spent(program, n)[i] > limits.wall \/ Spent(program, n)[i - 1] >= limits.wall
                \/ program.tests[i].bytes > limits.output
                \/ Returned(program, n)[i] > limits.total /\ program.tests[i].bytes > 1}
<1>1. Len(program.tests) = n BY DEF Runs
<1>. QED BY <1>1, Zenon DEF Stops, Spent, Returned

\* What is got through are no stops, and undisturbed all that are none.
LEMMA PassesOrStops ==
  ASSUME NEW limits, AreLimits(limits), NEW program, NEW request, NEW n, Runs(program, request, n),
         NEW trouble, NEW i \in 1 .. n, NEW run, Told(run, program, i - 1), run.state = "completed",
         run.spent = Spent(program, n)[i - 1], run.returned = Returned(program, n)[i - 1]
  PROVE  LET passes == Passes(limits, trouble, run, program.tests[i])
             stops == i \in Stops(limits, program)
         IN
         (passes => ~stops) /\ (Undisturbed(limits, program, trouble) => (passes <=> ~stops))
<1>. DEFINE test == program.tests[i]
            left == limits.wall - run.spent
            stops == \/ test.does = "crash"
                     \/ run.spent + test.seconds > limits.wall \/ run.spent >= limits.wall
                     \/ test.bytes > limits.output
                     \/ run.returned + test.bytes > limits.total /\ test.bytes > 1
<1>1. /\ run.spent \in Nat /\ run.returned \in Nat /\ test.seconds \in Nat /\ test.bytes \in Nat
      /\ limits.wall \in Nat /\ limits.output \in Nat /\ limits.total \in Nat
      /\ limits.lifetime \in Nat /\ limits.compile \in Nat
      /\ program.staged \in Nat /\ program.compileTime \in Nat
      /\ run.began = program.staged + program.compileTime
  BY DEF Told, Runs, AreLimits
<1>2. i \in Stops(limits, program) <=> stops
  <2>1. /\ Spent(program, n)[i] = run.spent + test.seconds
        /\ Returned(program, n)[i] = run.returned + test.bytes
    BY SpentFacts
  <2>. QED BY <2>1, StopsAre
<1>3. OutputLeft(limits, run.returned) \in Int
        /\ (test.bytes <= OutputLeft(limits, run.returned)
              <=> /\ test.bytes <= limits.output
                  /\ test.bytes <= 1 \/ test.bytes <= limits.total - run.returned)
  BY <1>1 DEF OutputLeft, Least, Most
<1>4. /\ left > 0 <=> ~(run.spent >= limits.wall)
      /\ Late(test.seconds, left) <=> run.spent + test.seconds > limits.wall
      /\ test.bytes <= limits.output <=> ~(test.bytes > limits.output)
      /\ test.bytes <= 1 \/ test.bytes <= limits.total - run.returned
           <=> ~(run.returned + test.bytes > limits.total /\ test.bytes > 1)
  BY <1>1 DEF Late
<1>5. Passes(limits, trouble, run, test) => ~stops BY <1>3, <1>4 DEF Passes
<1>6. ASSUME Undisturbed(limits, program, trouble), ~stops PROVE Passes(limits, trouble, run, test)
  <2>1. program.staged + program.compileTime + limits.wall <= limits.lifetime
    BY <1>1, <1>6 DEF LivesLongEnough, Least, Undisturbed
  <2>2. left > 0 => ~Gone(limits, run.began + run.spent, test.seconds, left)
    BY <1>1, <2>1 DEF Gone, Least
  <2>3. trouble.at # "test" BY <1>6 DEF Undisturbed, NoTrouble
  <2>. QED BY <1>3, <1>4, <1>6, <2>2, <2>3 DEF Passes
<1>. QED BY <1>2, <1>5, <1>6

LEMMA CourseClean ==
  ASSUME NEW limits, AreLimits(limits), NEW program, NEW request, NEW n, Runs(program, request, n),
         NEW trouble
  PROVE  Clean(Course(limits, program, trouble)[n], limits, program, trouble, n, n)
<1>. DEFINE run == Course(limits, program, trouble)
            stops == Stops(limits, program)
            undisturbed == Undisturbed(limits, program, trouble)
            P == {i \in 0 .. n : Clean(run[i], limits, program, trouble, n, i)}
<1>1. n \in Nat /\ n = Len(program.tests) BY DEF Runs
<1>2. /\ run[0] = AtFirst(program)
      /\ \A i \in 1 .. n : run[i] = Tested(limits, trouble, run[i - 1], program.tests[i])
  BY <1>1, CourseFacts
<1>3. \A i \in 0 .. n : Told(run[i], program, i) BY CourseTold
<1>4. stops \in SUBSET (1 .. n)
  <2>1. \A s \in stops : s \in 1 .. n BY StopsAre
  <2>. QED BY <2>1
<1>. HIDE DEF run, stops, undisturbed
<1>5. 0 \in P
  <2>1. run[0].state = "completed" /\ run[0].number = 0 /\ run[0].spent = 0 /\ run[0].returned = 0
    BY <1>2 DEF AtFirst
  <2>2. \A s \in stops : 0 < s BY <1>4
  <2>3. Told(run[0], program, 0) /\ 0 \in 0 .. n BY <1>1, <1>3
  <2>4. Spent(program, n)[0] = 0 /\ Returned(program, n)[0] = 0 BY SpentFacts
  <2>. QED BY <2>1, <2>2, <2>3, <2>4 DEF Clean, stops, undisturbed
<1>6. \A i \in 1 .. n : i - 1 \in P => i \in P
  <2>. SUFFICES ASSUME NEW i \in 1 .. n, Clean(run[i - 1], limits, program, trouble, n, i - 1)
                PROVE  Clean(run[i], limits, program, trouble, n, i)
    BY <1>1
  <2>. DEFINE old == run[i - 1]
              new == run[i]
              test == program.tests[i]
              passes == Passes(limits, trouble, old, test)
  <2>1. /\ Told(old, program, i - 1)
        /\ \A s \in stops : old.number < s
        /\ old.state = "completed" =>
             old.spent = Spent(program, n)[i - 1] /\ old.returned = Returned(program, n)[i - 1]
        /\ old.state # "completed" =>
             /\ trouble = NoTrouble => old.state # "internal_error"
             /\ undisturbed => old.number + 1 \in stops
    BY DEF Clean, stops, undisturbed
  <2>2. old.state = "completed" => old.number = i - 1 BY <2>1 DEF Told
  <2>3. /\ Told(new, program, i)
        /\ old.state # "completed" => new = old
        /\ old.state = "completed" /\ passes =>
             /\ new.state = "completed" /\ new.spent = old.spent + test.seconds
             /\ new.returned = old.returned + test.bytes
        /\ old.state = "completed" /\ ~passes =>
             /\ new.state # "completed" /\ new.number = i - 1
             /\ trouble = NoTrouble => new.state \in {"time_limit_exceeded", "runtime_error"}
    <3>1. new = Tested(limits, trouble, old, test) BY <1>2
    <3>. HIDE DEF new, old, test, passes
    <3>2. GoesOn(limits, trouble, old, program, i,
                 Tested(limits, trouble, old, program.tests[i]))
      <4>1. Told(old, program, i - 1) BY <2>1
      <4>. QED BY <4>1, OneTest
    <3>3. GoesOn(limits, trouble, old, program, i, new) BY <3>1, <3>2 DEF test
    <3>. QED BY <3>3 DEF GoesOn, test, passes
  <2>4. old.state = "completed" =>
          (passes => i \notin stops) /\ (undisturbed => (passes <=> i \notin stops))
    <3>. HIDE DEF old
    <3>1. SUFFICES ASSUME old.state = "completed"
                   PROVE  (passes => i \notin stops) /\ (undisturbed => (passes <=> i \notin stops))
      OBVIOUS
    <3>2. /\ Told(old, program, i - 1)
          /\ old.spent = Spent(program, n)[i - 1] /\ old.returned = Returned(program, n)[i - 1]
      BY <2>1, <3>1
    <3>. QED BY <3>1, <3>2, PassesOrStops, Zenon DEF stops, undisturbed
  <2>5. Spent(program, n)[i] = Spent(program, n)[i - 1] + test.seconds
        /\ Returned(program, n)[i] = Returned(program, n)[i - 1] + test.bytes
    BY SpentFacts
  <2>6. i \in Nat /\ i - 1 \in Nat /\ i - 1 + 1 = i BY <1>1
  <2>. HIDE DEF new, old, test, passes
  <2>7. CASE old.state # "completed" BY <2>1, <2>3, <2>7 DEF Clean, stops, undisturbed, new
  <2>8. CASE old.state = "completed" /\ passes
    <3>1. new.number = i BY <2>3, <2>8 DEF Told
    <3>2. \A s \in stops : i < s
      <4>. SUFFICES ASSUME NEW s \in stops PROVE i < s OBVIOUS
      <4>1. s \in Nat /\ i - 1 < s /\ s # i BY <1>1, <1>4, <2>1, <2>2, <2>4, <2>8
      <4>. QED BY <2>6, <4>1
    <3>. QED BY <2>1, <2>3, <2>5, <2>8, <3>1, <3>2 DEF Clean, stops, undisturbed, new
  <2>9. CASE old.state = "completed" /\ ~passes
    BY <2>1, <2>2, <2>3, <2>4, <2>6, <2>9 DEF Clean, stops, undisturbed, new
  <2>. QED BY <2>7, <2>8, <2>9
<1>. HIDE DEF P
<1>7. \A i \in 0 .. n : i \in P BY <1>1, <1>5, <1>6, StepByStep
<1>. QED BY <1>1, <1>7 DEF P, run

\* What an executor answers, whatever goes wrong.
LEMMA AnswerFacts ==
  ASSUME NEW limits, AreLimits(limits), NEW program, NEW request, NEW n, Runs(program, request, n),
         NEW trouble
  PROVE  Answers(Executed(limits, program, request, trouble), limits, program, request, trouble, n)
<1>. DEFINE answer == Executed(limits, program, request, trouble)
            run == Course(limits, program, trouble)[n]
            undisturbed == Undisturbed(limits, program, trouble)
<1>1. /\ limits.lifetime \in Nat /\ limits.compile \in Nat /\ limits.wall \in Nat
      /\ program.staged \in Nat /\ program.compileTime \in Nat /\ program.compiles \in BOOLEAN
      /\ n \in Nat
  BY DEF AreLimits, Runs
<1>2. Compiled(limits, program) => program.compiles /\ program.compileTime <= limits.compile
  BY <1>1 DEF Compiled, Late
<1>3. undisturbed => Compiled(limits, program) /\ trouble = NoTrouble
  BY <1>1 DEF Undisturbed, Compiled, Late, Gone, Least, LivesLongEnough
<1>4. AllTested(limits, program, trouble) = run BY DEF AllTested, Runs
<1>5. NoTrouble.at = "none" BY DEF NoTrouble
<1>6. Clean(run, limits, program, trouble, n, n) BY CourseClean
<1>. HIDE DEF run, undisturbed
<1>7. /\ run.results = ResultsOf(program, run.number) /\ run.number \in 0 .. n
      /\ run.state \in States \ {"compilation_error"}
      /\ (run.state = "completed" => run.number = n)
      /\ \A s \in Stops(limits, program) : run.number < s
      /\ run.state # "completed" =>
           /\ trouble = NoTrouble => run.state # "internal_error"
           /\ undisturbed => run.number + 1 \in Stops(limits, program)
  BY <1>6 DEF Clean, Told, ResultsOf, undisturbed
<1>8. \/ answer = InternalError(request) /\ trouble # NoTrouble
      \/ answer = Answer("compilation_error", request, <<>>) /\ ~undisturbed
      \/ /\ Compiled(limits, program) /\ run.state # "internal_error"
         /\ answer = Answer(run.state, request, ResultsOf(program, run.number))
  BY <1>3, <1>4, <1>5, <1>7 DEF Executed
<1>. HIDE DEF answer
<1>9. ASSUME Compiled(limits, program), run.state # "internal_error",
             answer = Answer(run.state, request, ResultsOf(program, run.number))
      PROVE  \E k \in 0 .. n, state \in {"completed", "time_limit_exceeded", "runtime_error"} :
               Ran(answer, limits, program, request, trouble, n, k, state)
  <2>1. run.state \in {"completed", "time_limit_exceeded", "runtime_error"} BY <1>7, <1>9 DEF States
  <2>2. Ran(answer, limits, program, request, trouble, n, run.number, run.state)
    BY <1>7, <1>9 DEF Ran, undisturbed
  <2>. QED BY <1>7, <2>1, <2>2
<1>. QED BY <1>2, <1>8, <1>9 DEF Answers, answer, undisturbed

\* A runner is believed, whatever went wrong in its sandbox.
LEMMA Believed ==
  ASSUME NEW limits, AreLimits(limits), NEW program, NEW request, NEW n, Runs(program, request, n),
         NEW trouble
  PROVE  RunnerIsBelieved(limits, program, request, trouble)
<1>. DEFINE response == Served(limits, program, request, trouble)
            sent(language) == [language |-> language, fits |-> TRUE]
<1>1. /\ n \in Nat /\ Len(request) = n /\ DOMAIN request = 1 .. n /\ AsksForTests(request)
      /\ \A i \in 1 .. n : program.tests[i].id = request[i].id
                         /\ program.tests[i].visibility = request[i].visibility
  BY DEF Runs
<1>2. ASSUME response # InternalError(request)
      PROVE  MeetsSchema(response) /\ Matches(response, request) /\ response # NoResponse
  <2>1. PICK k \in 0 .. n, state \in States :
          response = Answer(state, request, ResultsOf(program, k)) /\ (state = "completed" => k = n)
    <3>. DEFINE executed == Executed(limits, program, request, trouble)
    <3>1. ResultsOf(program, 0) = <<>> /\ 0 \in 0 .. n /\ "compilation_error" \in States
      BY <1>1 DEF ResultsOf, States
    <3>2. response = executed /\ Answers(executed, limits, program, request, trouble, n)
      BY <1>2, AnswerFacts DEF Served
    <3>3. {"completed", "time_limit_exceeded", "runtime_error"} \subseteq States BY DEF States
    <3>. HIDE DEF response, executed
    <3>. QED BY <1>2, <3>1, <3>2, <3>3 DEF Answers, Ran
  <2>. DEFINE rows == ResultsOf(program, k)
  <2>2. /\ DOMAIN rows = 1 .. k /\ k \in Nat /\ k <= n
        /\ \A i \in 1 .. k : rows[i].id = request[i].id /\ rows[i].visibility = request[i].visibility
    BY <1>1 DEF ResultsOf, Verdict
  <2>3. Len(rows) = k
    <3>1. rows = [i \in 1 .. k |-> rows[i]] BY DEF ResultsOf
    <3>. HIDE DEF rows
    <3>. QED BY <2>2, <3>1, IsSequence
  <2>. HIDE DEF rows, response
  <2>4. Passed(rows) <= k
    <3>1. {i \in 1 .. k : rows[i].passed} \in SUBSET (1 .. k) /\ Cardinality(1 .. k) = k
          /\ IsFiniteSet(1 .. k)
      BY <2>2, FS_Interval
    <3>. QED BY <2>2, <3>1, FS_Subset DEF Passed
  <2>5. /\ response.state = state /\ response.passed = Passed(rows) /\ response.total = n
        /\ response.tests = rows
    BY <1>1, <2>1 DEF Answer, rows
  <2>6. Passed(rows) \in Nat
    <3>1. {i \in 1 .. k : rows[i].passed} \in SUBSET (1 .. k) OBVIOUS
    <3>. QED BY <2>2, <3>1, NumberedSet DEF Passed
  <2>7. \A i \in 1 .. k : VisibilityIn(request, rows[i].id) = rows[i].visibility
    <3>. SUFFICES ASSUME NEW i \in 1 .. k
                  PROVE  VisibilityIn(request, rows[i].id) = rows[i].visibility
      OBVIOUS
    <3>1. i \in DOMAIN request BY <1>1, <2>2
    <3>2. VisibilityIn(request, request[i].id) = request[i].visibility BY <1>1, <3>1, NumberedIs
    <3>. QED BY <2>2, <3>2
  <2>8. \A i \in 1 .. k : \A j \in 1 .. i - 1 : rows[j].id # rows[i].id
    BY <1>1, <2>2 DEF AsksForTests
  <2>9. MeetsSchema(response) BY <1>1, <2>2, <2>4, <2>5, <2>6 DEF MeetsSchema
  <2>10. Matches(response, request) BY <1>1, <2>1, <2>2, <2>3, <2>5, <2>6, <2>7, <2>8 DEF Matches
  <2>11. response # NoResponse BY <2>5 DEF NoResponse, States
  <2>. QED BY <2>9, <2>10, <2>11
<1>. HIDE DEF response
<1>3. \A language : HttpAnswer(language, sent(language), request, response) = response
  BY <1>2 DEF HttpAnswer
<1>. QED BY <1>3 DEF RunnerIsBelieved, JavaHttpAnswer, CppHttpAnswer, response

\* A verdict is about the program.
LEMMA Judges ==
  ASSUME NEW limits, AreLimits(limits), NEW program, NEW request, NEW n, Runs(program, request, n),
         NEW trouble
  PROVE  JudgedByItself(limits, program, request, trouble)
<1>. DEFINE executed == Executed(limits, program, request, trouble)
            answer == Served(limits, program, request, trouble)
            stops == Stops(limits, program)
            compiles == program.compiles /\ program.compileTime <= limits.compile
            undisturbed == Undisturbed(limits, program, trouble)
            long == Bytes(program, executed) > limits.response
<1>1. Answers(executed, limits, program, request, trouble, n) BY AnswerFacts
<1>2. answer = IF long THEN InternalError(request) ELSE executed BY DEF Served
<1>3. stops \in SUBSET (1 .. n)
  <2>1. \A s \in stops : s \in 1 .. n BY StopsAre
  <2>. QED BY <2>1
<1>4. /\ n \in Nat /\ DOMAIN program.tests = 1 .. n /\ DOMAIN request = 1 .. n
      /\ \A i \in 1 .. n : program.tests[i].id = request[i].id
  BY DEF Runs
<1>5. undisturbed => compiles /\ trouble = NoTrouble BY DEF Undisturbed
<1>. HIDE DEF executed, answer, stops, compiles, undisturbed, long
<1>. DEFINE about == /\ \A i \in DOMAIN answer.tests :
                          /\ \A s \in stops : i < s
                          /\ answer.tests[i].id = request[i].id
                          /\ answer.tests[i].passed <=> program.tests[i].does = "right"
                     /\ answer.tests # <<>> \/ answer.state = "completed" => compiles
                     /\ answer.state = "completed" =>
                          stops = {} /\ DOMAIN answer.tests = DOMAIN request
            exact == answer.state # "internal_error" /\ undisturbed =>
                       /\ answer.state = "completed" <=> stops = {}
                       /\ answer.state # "compilation_error"
                       /\ \A i \in DOMAIN program.tests :
                            (\A s \in stops : i < s) => i \in DOMAIN answer.tests
            silent == /\ trouble = NoTrouble /\ answer.state = "internal_error" => long
                      /\ trouble = NoTrouble /\ ~compiles =>
                           answer.state \in {"compilation_error", "internal_error"}
<1>6. ASSUME answer = InternalError(request), long \/ trouble # NoTrouble
      PROVE  about /\ exact /\ silent
  <2>1. answer.state = "internal_error" /\ answer.tests = <<>> /\ DOMAIN answer.tests = {}
    BY <1>6 DEF InternalError
  <2>. QED BY <1>6, <2>1
<1>7. ASSUME answer = Answer("compilation_error", request, <<>>), ~undisturbed
      PROVE  about /\ exact /\ silent
  <2>1. answer.state = "compilation_error" /\ answer.tests = <<>> /\ DOMAIN answer.tests = {}
    BY <1>7 DEF Answer
  <2>. QED BY <1>7, <2>1
<1>8. ASSUME compiles,
             \E k \in 0 .. n, state \in {"completed", "time_limit_exceeded", "runtime_error"} :
               Ran(answer, limits, program, request, trouble, n, k, state)
      PROVE  about /\ exact /\ silent
  <2>1. PICK k \in 0 .. n, state \in {"completed", "time_limit_exceeded", "runtime_error"} :
          /\ answer = Answer(state, request, ResultsOf(program, k))
          /\ \A s \in stops : k < s
          /\ state = "completed" => k = n
          /\ state # "completed" /\ undisturbed => k + 1 \in stops
    BY <1>8 DEF Ran, stops, undisturbed
  <2>2. answer.state = state /\ answer.tests = ResultsOf(program, k) BY <2>1 DEF Answer
  <2>3. DOMAIN answer.tests = 1 .. k /\ \A i \in 1 .. k : answer.tests[i] = Verdict(program.tests[i])
    BY <2>2 DEF ResultsOf
  <2>4. \A i \in 1 .. k : /\ answer.tests[i].id = request[i].id
                          /\ answer.tests[i].passed <=> program.tests[i].does = "right"
    <3>1. \A i \in 1 .. k : /\ Verdict(program.tests[i]).passed <=> program.tests[i].does = "right"
                            /\ Verdict(program.tests[i]).id = program.tests[i].id
      BY DEF Verdict
    <3>2. \A i \in 1 .. k : i \in 1 .. n BY <1>4, <2>1
    <3>. QED BY <1>4, <2>3, <3>1, <3>2
  <2>5. state = "completed" => stops = {}
    <3>1. ASSUME state = "completed", NEW s \in stops PROVE FALSE BY <1>3, <1>4, <2>1, <3>1
    <3>. QED BY <3>1
  <2>6. \A i \in 1 .. k : \A s \in stops : i < s BY <1>3, <1>4, <2>1
  <2>7. about BY <1>4, <1>8, <2>1, <2>2, <2>3, <2>4, <2>5, <2>6
  <2>8. ASSUME undisturbed, NEW i \in 1 .. n, \A s \in stops : i < s PROVE i \in 1 .. k
    <3>1. CASE state = "completed" BY <1>4, <2>1, <3>1
    <3>2. CASE state # "completed"
      <4>1. i < k + 1 BY <2>1, <2>8, <3>2
      <4>. QED BY <1>4, <4>1
    <3>. QED BY <3>1, <3>2
  <2>9. undisturbed => (state = "completed" <=> stops = {}) BY <2>1, <2>5
  <2>10. exact BY <1>4, <2>2, <2>3, <2>8, <2>9
  <2>11. silent BY <1>8, <2>2
  <2>. QED BY <2>7, <2>10, <2>11
<1>9. about /\ exact /\ silent
  <2>. HIDE DEF about, exact, silent
  <2>2. \/ answer = InternalError(request) /\ (long \/ trouble # NoTrouble)
        \/ answer = Answer("compilation_error", request, <<>>) /\ ~undisturbed
        \/ compiles /\ \E k \in 0 .. n, state \in {"completed", "time_limit_exceeded", "runtime_error"} :
                         Ran(answer, limits, program, request, trouble, n, k, state)
    BY <1>1, <1>2 DEF Answers, compiles, undisturbed
  <2>. QED BY <1>6, <1>7, <1>8, <2>2
<1>. QED BY <1>9 DEF JudgedByItself, executed, answer, stops, compiles, undisturbed, long

\* The two sandboxes go through the tests of a program alike.
LEMMA SameTest ==
  ASSUME NEW program, NEW request, NEW n, Runs(program, request, n),
         LivesLongEnough(Java, program), program.compileTime <= Cpp.compile,
         NEW i \in 1 .. n, NEW run, Told(run, program, i - 1)
  PROVE  Tested(Java, NoTrouble, run, program.tests[i]) = Tested(Cpp, NoTrouble, run, program.tests[i])
<1>. DEFINE test == program.tests[i]
            left == 5 - run.spent
<1>1. /\ Java.wall = 5 /\ Cpp.wall = 5 /\ Java.lifetime = 15 /\ Cpp.lifetime = 30
      /\ Java.output = Cpp.output /\ Java.total = Cpp.total /\ Java.compile = 15 /\ Cpp.compile = 10
  BY DEF Java, Cpp
<1>2. /\ run.spent \in Nat /\ test.seconds \in Nat /\ program.staged \in Nat
      /\ program.compileTime \in Nat /\ run.began = program.staged + program.compileTime
  BY DEF Told, Runs
<1>3. program.staged + program.compileTime + 5 <= 15 BY <1>1, <1>2 DEF LivesLongEnough, Least
<1>4. ASSUME left > 0
      PROVE  /\ ~Gone(Java, run.began + run.spent, test.seconds, left)
             /\ ~Gone(Cpp, run.began + run.spent, test.seconds, left)
  BY <1>1, <1>2, <1>3, <1>4 DEF Gone, Least
<1>5. OutputLeft(Java, run.returned) = OutputLeft(Cpp, run.returned) BY <1>1 DEF OutputLeft
<1>6. left > 0 \/ left <= 0 BY <1>2
<1>7. Java.wall - run.spent = left /\ Cpp.wall - run.spent = left BY <1>1
<1>. HIDE DEF test, left
<1>8. Tested(Java, NoTrouble, run, test) = Tested(Cpp, NoTrouble, run, test)
  <2>1. CASE left <= 0 BY <1>7, <2>1 DEF Tested
  <2>2. CASE left > 0 BY <1>4, <1>5, <1>7, <2>2 DEF Tested
  <2>. QED BY <1>6, <2>1, <2>2
<1>. QED BY <1>8 DEF test

LEMMA SameVerdict ==
  ASSUME NEW program, NEW request, NEW n, Runs(program, request, n),
         LivesLongEnough(Java, program), program.compileTime <= Cpp.compile
  PROVE  ExecuteJava(program, request, NoTrouble) = ExecuteCpp(program, request, NoTrouble)
<1>. DEFINE java == Course(Java, program, NoTrouble)
            cpp == Course(Cpp, program, NoTrouble)
            P == {i \in 0 .. n : java[i] = cpp[i]}
<1>1. n \in Nat /\ n = Len(program.tests) BY DEF Runs
<1>2. AreLimits(Java) /\ AreLimits(Cpp) BY DEF AreLimits, Java, Cpp
<1>3. /\ java[0] = AtFirst(program) /\ cpp[0] = AtFirst(program)
      /\ \A i \in 1 .. n : /\ java[i] = Tested(Java, NoTrouble, java[i - 1], program.tests[i])
                           /\ cpp[i] = Tested(Cpp, NoTrouble, cpp[i - 1], program.tests[i])
  BY <1>1, CourseFacts
<1>4. \A i \in 0 .. n : Told(java[i], program, i) BY <1>2, CourseTold
<1>. HIDE DEF java, cpp
<1>5. 0 \in P BY <1>1, <1>3
<1>6. \A i \in 1 .. n : i - 1 \in P => i \in P
  <2>. SUFFICES ASSUME NEW i \in 1 .. n, java[i - 1] = cpp[i - 1] PROVE java[i] = cpp[i] BY <1>1
  <2>1. Told(java[i - 1], program, i - 1) BY <1>1, <1>4
  <2>2. Tested(Java, NoTrouble, java[i - 1], program.tests[i])
          = Tested(Cpp, NoTrouble, java[i - 1], program.tests[i])
    BY <2>1, SameTest
  <2>. QED BY <1>3, <2>2
<1>. HIDE DEF P
<1>7. n \in P
  <2>1. \A i \in 0 .. n : i \in P BY <1>1, <1>5, <1>6, StepByStep
  <2>. QED BY <1>1, <2>1
<1>8. AllTested(Java, program, NoTrouble) = AllTested(Cpp, program, NoTrouble)
  BY <1>1, <1>7 DEF AllTested, P, java, cpp
<1>9. Compiled(Java, program) <=> Compiled(Cpp, program)
  <2>1. program.compileTime \in Nat /\ program.staged \in Nat BY DEF Runs
  <2>. QED BY <2>1 DEF Compiled, Late, Gone, Least, LivesLongEnough, Java, Cpp
<1>. QED BY <1>8, <1>9 DEF ExecuteJava, ExecuteCpp, Executed

\* A run is completed when all its tests are.
LEMMA AllCompleted ==
  ASSUME NEW n \in Nat, NEW states, DOMAIN states = 1 .. n
  PROVE  FirstFailure(states) = "completed" <=> \A i \in 1 .. n : states[i] = "completed"
<1>. DEFINE failures == {i \in 1 .. n : states[i] # "completed"}
            first == CHOOSE i \in failures : \A j \in failures : i <= j
<1>1. FirstFailure(states) = IF failures = {} THEN "completed" ELSE states[first]
  BY DEF FirstFailure
<1>2. ASSUME failures # {} PROVE first \in failures
  <2>1. failures \in SUBSET Nat OBVIOUS
  <2>2. \E i \in failures : \A j \in failures : i <= j BY <1>2, <2>1, LeastOf
  <2>. QED BY <2>2
<1>. HIDE DEF first
<1>. QED BY <1>1, <1>2

LEMMA JudgedFares ==
  ASSUME NEW limits, AreLimits(limits), NEW program, NEW request, NEW n, Runs(program, request, n),
         NEW stopped, AreEnds(stopped, n)
  PROVE  Fares(Judged(limits, program, request, stopped), limits, program, request, stopped, n)
<1>. DEFINE outcomes == [i \in 1 .. n |->
              [status |-> JudgeStatus(limits, program, stopped, i),
               same |-> program.tests[i].does = "right" /\ program.tests[i].bytes <= limits.output]]
            states == [i \in 1 .. n |-> StateForStatus(outcomes[i].status)]
            rows == [i \in 1 .. n |->
              [id |-> request[i].id, passed |-> outcomes[i].status = 3 /\ outcomes[i].same,
               visibility |-> request[i].visibility]]
<1>1. /\ n \in Nat /\ DOMAIN request = 1 .. n /\ Len(request) = n /\ limits.wall \in Nat
      /\ \A i \in 1 .. n : /\ program.tests[i].does \in {"right", "wrong", "crash"}
                           /\ program.tests[i].seconds \in Nat
  BY DEF Runs, AreLimits
<1>2. Judged(limits, program, request, stopped) = Judge0Answer(request, outcomes) BY <1>1 DEF Judged
<1>3. \A i \in 1 .. n : /\ outcomes[i].status = JudgeStatus(limits, program, stopped, i)
                        /\ outcomes[i].same <=> /\ program.tests[i].does = "right"
                                                /\ program.tests[i].bytes <= limits.output
  OBVIOUS
<1>4. DOMAIN outcomes = 1 .. n OBVIOUS
<1>. HIDE DEF outcomes
<1>5. ~(outcomes = <<>> /\ request # <<>>)
  <2>1. SUFFICES ASSUME outcomes = <<>> PROVE request = <<>> OBVIOUS
  <2>2. DOMAIN request = {} BY <1>1, <1>4, <2>1
  <2>. QED BY <1>1, <2>2
<1>6. Judge0Answer(request, outcomes) = Answer(FirstFailure(states), request, rows)
  BY <1>1, <1>5, Zenon DEF Judge0Answer, Results
<1>7. DOMAIN states = 1 .. n /\ DOMAIN rows = 1 .. n OBVIOUS
<1>8. ASSUME NEW i \in 1 .. n
      PROVE  /\ states[i] = "completed" => Fine(program, stopped, i)
             /\ Fine(program, stopped, i) /\ program.tests[i].seconds <= limits.wall =>
                  states[i] = "completed"
             /\ rows[i].passed <=> /\ states[i] = "completed" /\ program.tests[i].does = "right"
                                   /\ program.tests[i].bytes <= limits.output
  <2>1. /\ states[i] = StateForStatus(JudgeStatus(limits, program, stopped, i))
        /\ rows[i].passed <=> outcomes[i].status = 3 /\ outcomes[i].same
    BY <1>3
  <2>. HIDE DEF states, rows
  <2>2. /\ states[i] = "completed" => Fine(program, stopped, i)
        /\ states[i] = "completed" /\ program.tests[i].does = "right" <=>
             JudgeStatus(limits, program, stopped, i) = 3
    BY <1>1, <2>1 DEF StateForStatus, JudgeStatus, Fine, AreEnds
  <2>3. Fine(program, stopped, i) /\ program.tests[i].seconds <= limits.wall =>
          states[i] = "completed"
    BY <1>1, <2>1 DEF StateForStatus, JudgeStatus, Fine
  <2>. QED BY <1>3, <2>1, <2>2, <2>3
<1>. HIDE DEF states, rows
<1>. QED BY <1>2, <1>6, <1>7, <1>8 DEF Fares

LEMMA WandboxedFares ==
  ASSUME NEW limits, AreLimits(limits), NEW program, NEW request, NEW n, Runs(program, request, n),
         NEW stopped, NEW silent
  PROVE  Fares(Wandboxed(limits, program, request, stopped, silent), limits, program, request,
               stopped, n)
<1>. DEFINE crashes(i) == program.compiles /\ program.tests[i].does = "crash"
            ended(i) == program.compiles /\ stopped[i] # "no"
            runs(i) == program.compiles /\ ~crashes(i) /\ ~ended(i)
            response(i) ==
              [status |-> IF runs(i) THEN 0 ELSE 1,
               compilerError |-> ~program.compiles,
               programError |-> crashes(i) /\ ~silent,
               signal |-> ended(i) /\ ~silent,
               calls |-> <<"ok", "ok">>,
               same |-> program.tests[i].does = "right" /\ program.tests[i].bytes <= limits.output]
            responses == [i \in 1 .. n |-> response(i)]
            states == [i \in 1 .. n |-> ResponseState(responses[i])]
            rows == [i \in 1 .. n |->
              [id |-> request[i].id,
               passed |-> ResponseState(responses[i]) = "completed" /\ responses[i].same,
               visibility |-> request[i].visibility]]
<1>1. /\ n \in Nat /\ DOMAIN request = 1 .. n /\ Len(request) = n BY DEF Runs
<1>2. Wandboxed(limits, program, request, stopped, silent) = WandboxAnswer(request, responses)
  BY <1>1 DEF Wandboxed
<1>3. \A i \in 1 .. n : /\ responses[i].status = 0 <=> runs(i)
                        /\ responses[i].same <=> /\ program.tests[i].does = "right"
                                                 /\ program.tests[i].bytes <= limits.output
                        /\ responses[i].calls[1] = "ok"
  <2>. SUFFICES ASSUME NEW i \in 1 .. n
                PROVE  /\ responses[i].status = 0 <=> runs(i)
                       /\ responses[i].same <=> /\ program.tests[i].does = "right"
                                                /\ program.tests[i].bytes <= limits.output
                       /\ responses[i].calls[1] = "ok"
    OBVIOUS
  <2>1. responses[i] = response(i) OBVIOUS
  <2>2. response(i).status = 0 <=> runs(i)
    <3>1. response(i).status = IF runs(i) THEN 0 ELSE 1 OBVIOUS
    <3>. HIDE DEF response, runs
    <3>. QED BY <3>1
  <2>3. response(i).same <=> /\ program.tests[i].does = "right"
                             /\ program.tests[i].bytes <= limits.output
    OBVIOUS
  <2>4. response(i).calls[1] = "ok"
    <3>1. response(i).calls = <<"ok", "ok">> OBVIOUS
    <3>. HIDE DEF response, runs
    <3>. QED BY <3>1
  <2>. HIDE DEF responses, response
  <2>. QED BY <2>1, <2>2, <2>3, <2>4
<1>. HIDE DEF responses
<1>4. \A i \in 1 .. n : RunTest(responses[i].calls) = "ok" BY <1>3 DEF RunTest, Retryable
<1>5. WandboxAnswer(request, responses) = Answer(FirstFailure(states), request, rows)
  BY <1>1, <1>4, Zenon DEF WandboxAnswer, Results
<1>6. DOMAIN states = 1 .. n /\ DOMAIN rows = 1 .. n OBVIOUS
<1>7. ASSUME NEW i \in 1 .. n
      PROVE  /\ states[i] = "completed" => Fine(program, stopped, i)
             /\ Fine(program, stopped, i) /\ program.tests[i].seconds <= limits.wall =>
                  states[i] = "completed"
             /\ rows[i].passed <=> /\ states[i] = "completed" /\ program.tests[i].does = "right"
                                   /\ program.tests[i].bytes <= limits.output
  <2>1. /\ states[i] = ResponseState(responses[i])
        /\ rows[i].passed <=> ResponseState(responses[i]) = "completed" /\ responses[i].same
    OBVIOUS
  <2>. HIDE DEF states, rows
  <2>2. ResponseState(responses[i]) = "completed" <=> Fine(program, stopped, i)
    BY <1>3 DEF ResponseState, Fine
  <2>. QED BY <1>3, <2>1, <2>2
<1>. HIDE DEF states, rows
<1>. QED BY <1>2, <1>5, <1>6, <1>7 DEF Fares

\* What a hosted provider makes of a program that got through here, or could not.
LEMMA HostedAgrees ==
  ASSUME NEW limits, AreLimits(limits), NEW program, NEW request, NEW n, Runs(program, request, n),
         NEW stopped, NEW answer, Fares(answer, limits, program, request, stopped, n)
  PROVE  LET here == Executed(limits, program, request, NoTrouble) IN
         /\ \A i \in DOMAIN answer.tests :
              answer.tests[i].passed =>
                program.compiles /\ program.tests[i].does = "right" /\ stopped[i] = "no"
         /\ (\E i \in 1 .. n : ~Fine(program, stopped, i)) => answer.state # "completed"
         /\ (\A i \in 1 .. n : stopped[i] = "no") /\ here.state = "completed" =>
              answer.state = "completed" /\ answer.passed = here.passed
<1>. DEFINE here == Executed(limits, program, request, NoTrouble)
            stops == Stops(limits, program)
            right == {i \in 1 .. n : program.tests[i].does = "right"}
<1>1. PICK states, rows :
        /\ answer = Answer(FirstFailure(states), request, rows)
        /\ DOMAIN states = 1 .. n /\ DOMAIN rows = 1 .. n
        /\ \A i \in 1 .. n :
             /\ states[i] = "completed" => Fine(program, stopped, i)
             /\ Fine(program, stopped, i) /\ program.tests[i].seconds <= limits.wall =>
                  states[i] = "completed"
             /\ rows[i].passed <=> /\ states[i] = "completed" /\ program.tests[i].does = "right"
                                   /\ program.tests[i].bytes <= limits.output
  BY DEF Fares
<1>2. /\ n \in Nat /\ limits.wall \in Nat /\ limits.output \in Nat
      /\ \A i \in 1 .. n : program.tests[i].seconds \in Nat /\ program.tests[i].bytes \in Nat
  BY DEF Runs, AreLimits
<1>3. answer.state = FirstFailure(states) /\ answer.passed = Passed(rows) /\ answer.tests = rows
  BY <1>1 DEF Answer
<1>4. answer.state = "completed" <=> \A i \in 1 .. n : states[i] = "completed"
  BY <1>1, <1>2, <1>3, AllCompleted
<1>5. ASSUME here.state = "completed", \A i \in 1 .. n : stopped[i] = "no"
      PROVE  answer.state = "completed" /\ answer.passed = here.passed
  <2>1. Answers(here, limits, program, request, NoTrouble, n) BY AnswerFacts
  <2>. HIDE DEF here
  <2>2. PICK k \in 0 .. n, state \in {"completed", "time_limit_exceeded", "runtime_error"} :
          program.compiles /\ Ran(here, limits, program, request, NoTrouble, n, k, state)
    <3>1. Answer("compilation_error", request, <<>>).state # "completed" BY DEF Answer
    <3>. QED BY <1>5, <2>1, <3>1 DEF Answers
  <2>3. here.state = state /\ here.passed = Passed(ResultsOf(program, k)) BY <2>2 DEF Ran, Answer
  <2>4. k = n /\ \A s \in stops : n < s BY <1>5, <2>2, <2>3 DEF Ran
  <2>. HIDE DEF stops
  <2>5. \A i \in 1 .. n : i \notin stops
    <3>1. \A i \in 1 .. n : ~(n < i) BY <1>2
    <3>. QED BY <2>4, <3>1
  <2>6. \A i \in 1 .. n : states[i] = "completed" /\ program.tests[i].bytes <= limits.output
    <3>. SUFFICES ASSUME NEW i \in 1 .. n
                  PROVE  states[i] = "completed" /\ program.tests[i].bytes <= limits.output
      OBVIOUS
    <3>1. /\ program.tests[i].does # "crash" /\ ~(Spent(program, n)[i] > limits.wall)
          /\ ~(program.tests[i].bytes > limits.output)
      BY <2>5, StopsAre DEF stops
    <3>2. /\ Spent(program, n)[i] = Spent(program, n)[i - 1] + program.tests[i].seconds
          /\ Spent(program, n)[i - 1] \in Nat
      <4>1. i - 1 \in 0 .. n BY <1>2
      <4>. QED BY <4>1, SpentFacts
    <3>3. program.tests[i].seconds <= limits.wall /\ program.tests[i].bytes <= limits.output
      BY <1>2, <3>1, <3>2
    <3>. QED BY <1>1, <1>5, <2>2, <3>1, <3>3 DEF Fine
  <2>7. Passed(rows) = Cardinality(right)
    <3>1. {i \in DOMAIN rows : rows[i].passed} = right BY <1>1, <2>6
    <3>. QED BY <3>1 DEF Passed
  <2>8. Passed(ResultsOf(program, n)) = Cardinality(right)
    <3>. DEFINE mine == ResultsOf(program, n)
    <3>1. DOMAIN mine = 1 .. n /\ \A i \in 1 .. n : mine[i] = Verdict(program.tests[i])
      BY DEF ResultsOf
    <3>2. \A i \in 1 .. n : Verdict(program.tests[i]).passed <=> program.tests[i].does = "right"
      BY DEF Verdict
    <3>. HIDE DEF mine
    <3>3. {i \in DOMAIN mine : mine[i].passed} = right BY <3>1, <3>2
    <3>. QED BY <3>3 DEF Passed, mine
  <2>. HIDE DEF right
  <2>. QED BY <1>3, <1>4, <2>3, <2>4, <2>6, <2>7, <2>8
<1>6. (\E i \in 1 .. n : ~Fine(program, stopped, i)) => answer.state # "completed" BY <1>1, <1>4
<1>7. \A i \in DOMAIN answer.tests :
        answer.tests[i].passed =>
          program.compiles /\ program.tests[i].does = "right" /\ stopped[i] = "no"
  BY <1>1, <1>3 DEF Fine
<1>. QED BY <1>5, <1>6, <1>7

\* Marks do not depend on the provider.
LEMMA Agree ==
  ASSUME NEW limits, AreLimits(limits), NEW program, NEW request, NEW n, Runs(program, request, n),
         NEW stopped, AreEnds(stopped, n), NEW silent
  PROVE  ProvidersAgree(limits, program, request, stopped, silent)
<1>. DEFINE here == Executed(limits, program, request, NoTrouble)
            judged == Judged(limits, program, request, stopped)
            boxed == Wandboxed(limits, program, request, stopped, silent)
            fails(i) == program.tests[i].does = "crash" \/ stopped[i] # "no"
            spoilt == ~program.compiles \/ \E i \in 1 .. n : fails(i)
            free == \A i \in 1 .. n : stopped[i] = "no"
            earned(answer, i) == answer.tests[i].passed =>
              program.compiles /\ program.tests[i].does = "right" /\ stopped[i] = "no"
<1>1. n \in Nat /\ DOMAIN request = 1 .. n /\ Len(request) = n BY DEF Runs
<1>2. LivesLongEnough(Java, program) /\ program.compileTime <= Cpp.compile =>
        ExecuteJava(program, request, NoTrouble) = ExecuteCpp(program, request, NoTrouble)
  BY SameVerdict
<1>3. request # <<>> /\ spoilt => \E i \in 1 .. n : ~Fine(program, stopped, i)
  <2>1. request # <<>> => 1 \in 1 .. n
    <3>1. request = <<>> <=> DOMAIN request = {} BY <1>1, IsSequence
    <3>. QED BY <1>1, <3>1
  <2>. QED BY <2>1 DEF Fine
<1>4. ASSUME NEW answer, Fares(answer, limits, program, request, stopped, n)
      PROVE  /\ \A i \in DOMAIN answer.tests : earned(answer, i)
             /\ request # <<>> /\ spoilt => answer.state # "completed"
             /\ free /\ here.state = "completed" =>
                  answer.state = "completed" /\ answer.passed = here.passed
  BY <1>3, <1>4, HostedAgrees
<1>5. /\ Fares(judged, limits, program, request, stopped, n)
      /\ Fares(boxed, limits, program, request, stopped, n)
  BY JudgedFares, WandboxedFares
<1>. HIDE DEF here, judged, boxed, spoilt, free, earned
<1>6. \A answer \in {judged, boxed} :
        /\ \A i \in DOMAIN answer.tests : earned(answer, i)
        /\ request # <<>> /\ spoilt => answer.state # "completed"
        /\ free /\ here.state = "completed" =>
             answer.state = "completed" /\ answer.passed = here.passed
  BY <1>4, <1>5
<1>7. /\ \A answer \in {judged, boxed} : \A i \in DOMAIN answer.tests : earned(answer, i)
      /\ request # <<>> /\ spoilt => \A answer \in {judged, boxed} : answer.state # "completed"
      /\ free /\ here.state = "completed" =>
           \A answer \in {judged, boxed} : answer.state = "completed" /\ answer.passed = here.passed
  BY <1>6
<1>. QED BY <1>1, <1>2, <1>7 DEF ProvidersAgree, here, judged, boxed, spoilt, free, earned

\* A verdict is the program's, for any limits, program and request: whatever goes wrong in
\* a sandbox, the container's end included, passes no test and completes no run that the
\* program does not; undisturbed, the verdict tells how the first failing test ended, with
\* every test before it answered; the provider passes the runner service's answer on; and
\* what completes in a sandbox completes with the same marks at Judge0 and Wandbox unless
\* these stop it (executeJavaInDocker, executeCppInDocker, boundedResponse,
\* responseMatchesRequest, judge0-provider.ts, wandbox-provider.ts).
THEOREM VerdictsAlwaysHonest ==
  ASSUME NEW limits, AreLimits(limits), NEW program, NEW request, NEW n, Runs(program, request, n)
  PROVE  /\ \A trouble : /\ JudgedByItself(limits, program, request, trouble)
                         /\ RunnerIsBelieved(limits, program, request, trouble)
         /\ \A stopped, silent :
              AreEnds(stopped, n) => ProvidersAgree(limits, program, request, stopped, silent)
BY Judges, Believed, Agree

-----------------------------------------------------------------------------
(* Evidence (Evidence.tla).                                                 *)

\* Who answers a request, if a model does.
LEMMA OneAnswers ==
  ASSUME NEW answers, NEW S, S = {m \in E!Called(answers) : answers[m] = "valid"}, S # {}
  PROVE  (CHOOSE m \in S : TRUE) \in {"groq", "gemini"}
BY DEF E!Called

LEMMA BeginKept == KeptAnswers(<<>>) /\ IsLog(<<>>)
BY DEF KeptAnswers, IsLog

LEMMA Logged ==
  ASSUME NEW log, IsLog(log), NEW entry
  PROVE  /\ IsLog(log \o <<entry>>) /\ IsLog(log \o <<>>) /\ log \o <<>> = log
         /\ Len(log \o <<entry>>) = Len(log) + 1 /\ Len(log) \in Nat
         /\ (log \o <<entry>>)[Len(log) + 1] = entry
         /\ \A i \in DOMAIN log : i \in DOMAIN (log \o <<entry>>) /\ (log \o <<entry>>)[i] = log[i]
<1>1. PICK Row : log \in Seq(Row) BY DEF IsLog
<1>. DEFINE More == Row \cup {entry}
<1>2. log \in Seq(More) /\ entry \in More BY <1>1
<1>3. log \o <<entry>> \in Seq(More) /\ log \o <<>> \in Seq(More) BY <1>2
<1>. QED BY <1>2, <1>3 DEF IsLog

LEMMA EntryNoted ==
  ASSUME NEW request, NEW model, NEW cached
  PROVE  Noted(E!Entry(request, model, cached), request.teacher, model, cached)
<1>. DEFINE e == [by |-> request.teacher, model |-> model, cached |-> cached]
<1>1. e.by = request.teacher /\ e.model = model /\ e.cached = cached OBVIOUS
<1>2. E!Entry(request, model, cached) = <<e>> BY DEF E!Entry
<1>. HIDE DEF e
<1>. QED BY <1>1, <1>2 DEF Noted

LEMMA NotedIsLogged ==
  ASSUME NEW log, IsLog(log), NEW due, NEW by, NEW model, NEW cached, Noted(due, by, model, cached)
  PROVE  Extends(log \o due, log) /\ InLog(log \o due, log, by, model, cached)
<1>1. PICK e : due = <<e>> /\ e.by = by /\ e.model = model /\ e.cached = cached BY DEF Noted
<1>. DEFINE after == log \o <<e>>
<1>2. /\ IsLog(after) /\ Len(after) = Len(log) + 1 /\ after[Len(log) + 1] = e
      /\ \A i \in DOMAIN log : i \in DOMAIN after /\ after[i] = log[i]
  BY Logged
<1>. HIDE DEF after
<1>3. Extends(after, log) /\ InLog(after, log, by, model, cached) BY <1>1, <1>2 DEF Extends, InLog
<1>. QED BY <1>1, <1>3 DEF after

\* Nothing is sent without its owner asking and the limiter's leave, nor without an entry
\* unless its write failed; and what is shown was written about this program within the
\* hour, from whatever the cache kept before (ai-evidence-provider.ts, ai-audit.ts).
THEOREM AiAccountable ==
  ASSUME NEW cache, KeptAnswers(cache), NEW log, IsLog(log), NEW request, NEW answers,
         NEW now \in Int, NEW written \in BOOLEAN
  PROVE  /\ E!AiIsAccountable(cache, log, request, answers, now, written)
         /\ \A later : KeptAnswers(later) =>
              KeptAnswers(E!Remembered(later, request, E!Request(cache, request, answers, now), now))
         /\ \A by : LET due == E!Request(cache, request, answers, now).due IN
              IsLog(E!LogAiGeneration(log, due, by))
<1>. DEFINE asked == E!Request(cache, request, answers, now)
            key == E!Key(request)
            mine == request.owner /\ request.enabled
            answer == asked.answer
            external == answer.model \in {"groq", "gemini"}
            noted(cached) == Noted(asked.due, request.teacher, answer.model, cached)
            Alone == /\ asked.sent = {} /\ asked.due = <<>>
                     /\ answer.model = IF mine THEN "heuristic" ELSE "refused"
            Found == /\ mine /\ asked.sent = {} /\ noted(TRUE) /\ external
                     /\ answer.about = key /\ now < answer.made + E!Hour /\ answer.made \in Int
            Sent == /\ mine /\ request.admitted /\ noted(FALSE)
                    /\ \/ answer.model = "heuristic"
                       \/ asked.sent # {} /\ external /\ answer.about = key /\ answer.made = now
<1>1. Alone \/ Found \/ Sent
  <2>1. \A p, passed, total, match : E!Viva(p, passed, total, match).model = "heuristic"
    BY DEF E!Viva
  <2>2. CASE ~mine
    <3>1. asked = [sent |-> {}, answer |-> [model |-> "refused"], due |-> <<>>]
      BY <2>2 DEF E!Request
    <3>2. asked.sent = {} /\ asked.due = <<>> /\ answer.model = "refused" BY <3>1
    <3>. HIDE DEF asked
    <3>. QED BY <2>2, <3>2
  <2>3. CASE mine
    <3>. DEFINE own == E!Viva(request.process, request.passed, request.total, None)
                valid == {m \in E!Called(answers) : answers[m] = "valid"}
                by == CHOOSE m \in valid : TRUE
                model == IF valid = {} THEN "heuristic" ELSE by
    <3>1. asked = E!Generate(cache, request, answers, now) BY <2>3 DEF E!Request
    <3>2. CASE E!Cached(cache, request, now)
      <4>. DEFINE found == cache[key].answer
                  due == E!Entry(request, found.model, TRUE)
      <4>1. asked = [sent |-> {}, answer |-> found, due |-> due] BY <3>1, <3>2 DEF E!Generate
      <4>2. key \in DOMAIN cache /\ now < cache[key].expires BY <3>2 DEF E!Cached, E!Fresh
      <4>3. /\ found.about = key /\ found.model \in {"groq", "gemini"}
            /\ found.made \in Int /\ now < found.made + E!Hour
        BY <4>2 DEF KeptAnswers
      <4>5. Noted(due, request.teacher, found.model, TRUE) BY EntryNoted
      <4>. HIDE DEF found, key, due
      <4>4. asked.sent = {} /\ answer = found /\ asked.due = due BY <4>1
      <4>. HIDE DEF asked
      <4>. QED BY <2>3, <4>3, <4>4, <4>5
    <3>3. CASE ~E!Cached(cache, request, now) /\ ~request.admitted
      <4>1. asked = [sent |-> {}, answer |-> own, due |-> <<>>] BY <3>1, <3>3 DEF E!Generate
      <4>2. own.model = "heuristic" BY <2>1
      <4>. HIDE DEF own
      <4>3. asked.sent = {} /\ asked.due = <<>> /\ answer = own BY <4>1
      <4>. HIDE DEF asked
      <4>. QED BY <2>3, <4>2, <4>3
    <3>4. CASE ~E!Cached(cache, request, now) /\ request.admitted
      <4>. DEFINE told == IF valid = {} THEN own ELSE [model |-> by, about |-> key, made |-> now]
                  due == E!Entry(request, model, FALSE)
      <4>1. asked = [sent |-> E!Called(answers), answer |-> told, due |-> due]
        BY <3>1, <3>4 DEF E!Generate
      <4>2. own.model = "heuristic" BY <2>1
      <4>3. valid # {} => by \in {"groq", "gemini"} BY OneAnswers
      <4>4. /\ told.model = model
            /\ valid # {} => told.model \in {"groq", "gemini"} /\ told.about = key /\ told.made = now
        BY <4>2, <4>3
      <4>8. Noted(due, request.teacher, model, FALSE) BY EntryNoted
      <4>. HIDE DEF told, model, key, by, own, due
      <4>5. answer = told /\ asked.due = due /\ asked.sent = E!Called(answers) BY <4>1
      <4>7. valid # {} => E!Called(answers) # {} OBVIOUS
      <4>. HIDE DEF asked, valid
      <4>6. valid = {} => told.model = "heuristic" BY <4>4 DEF model
      <4>. QED BY <2>3, <3>4, <4>4, <4>5, <4>6, <4>7, <4>8
    <3>. QED BY <3>2, <3>3, <3>4
  <2>. QED BY <2>2, <2>3
<1>. HIDE DEF asked, key
<1>2. ASSUME NEW later, KeptAnswers(later)
      PROVE  /\ KeptAnswers(E!Remembered(later, request, asked, now))
             /\ ~mine => E!Remembered(later, request, asked, now) = later
  <2>1. CASE asked.sent # {} /\ external
    <3>1. mine /\ answer.about = key /\ answer.made = now BY <1>1, <2>1
    <3>. DEFINE kept == [answer |-> answer, expires |-> now + E!Hour]
    <3>2. E!Remembered(later, request, asked, now)
            = [k \in DOMAIN later \cup {key} |-> IF k = key THEN kept ELSE later[k]]
      BY <2>1 DEF E!Remembered, E!Entered, key
    <3>3. kept.answer = answer /\ kept.expires = now + E!Hour OBVIOUS
    <3>. HIDE DEF kept
    <3>. QED BY <1>2, <2>1, <3>1, <3>2, <3>3 DEF KeptAnswers
  <2>2. CASE ~(asked.sent # {} /\ external) BY <1>2, <2>2 DEF E!Remembered
  <2>. QED BY <2>1, <2>2
<1>3. ASSUME NEW by
      PROVE  /\ Extends(E!LogAiGeneration(log, asked.due, by), log)
             /\ ~mine => E!LogAiGeneration(log, asked.due, by) = log
  <2>1. CASE ~by \/ Alone
    <3>1. E!LogAiGeneration(log, asked.due, by) = log BY <2>1, Logged DEF E!LogAiGeneration
    <3>. QED BY <3>1 DEF Extends
  <2>2. CASE by /\ ~Alone
    <3>1. mine /\ (noted(TRUE) \/ noted(FALSE)) BY <1>1, <2>2
    <3>2. Extends(log \o asked.due, log) BY <3>1, NotedIsLogged
    <3>. QED BY <2>2, <3>1, <3>2 DEF E!LogAiGeneration
  <2>. QED BY <2>1, <2>2
<1>4. ASSUME asked.sent # {} \/ external, written
      PROVE  InLog(E!LogAiGeneration(log, asked.due, written), log, request.teacher, answer.model,
                   asked.sent = {} /\ external)
  <2>1. E!LogAiGeneration(log, asked.due, written) = log \o asked.due BY <1>4 DEF E!LogAiGeneration
  <2>2. CASE Found
    <3>1. InLog(log \o asked.due, log, request.teacher, answer.model, TRUE) BY <2>2, NotedIsLogged
    <3>2. (asked.sent = {} /\ external) = TRUE BY <2>2
    <3>. QED BY <2>1, <3>1, <3>2
  <2>3. CASE Sent
    <3>1. InLog(log \o asked.due, log, request.teacher, answer.model, FALSE) BY <2>3, NotedIsLogged
    <3>2. (asked.sent = {} /\ external) = FALSE BY <1>4, <2>3
    <3>. QED BY <2>1, <3>1, <3>2
  <2>4. ~Alone BY <1>4
  <2>. QED BY <1>1, <2>2, <2>3, <2>4
<1>5. /\ asked.sent # {} => mine /\ request.admitted
      /\ external => answer.about = key /\ now - answer.made < E!Hour
      /\ answer.model = "refused" <=> ~mine
  <2>1. now - now < E!Hour BY DEF E!Hour
  <2>2. ASSUME answer.made \in Int, now < answer.made + E!Hour
        PROVE  now - answer.made < E!Hour
    BY <2>2 DEF E!Hour
  <2>3. CASE Alone BY <2>3
  <2>4. CASE Found BY <2>2, <2>4
  <2>5. CASE Sent BY <2>1, <2>5
  <2>. QED BY <1>1, <2>3, <2>4, <2>5
<1>6. E!AiIsAccountable(cache, log, request, answers, now, written)
  BY <1>2, <1>3, <1>4, <1>5 DEF E!AiIsAccountable, Extends, InLog, asked, key
<1>. QED BY <1>2, <1>3, <1>6 DEF asked, Extends

LEMMA OneCardinalityOfEvidence ==
  ASSUME NEW S
  PROVE  E!Cardinality(S) = Cardinality(S)
BY DEF E!Cardinality, Cardinality

\* One more event is counted with those before it.
LEMMA MoreCounted ==
  ASSUME NEW Type, NEW history \in Seq(Event(Type)), NEW event \in Event(Type), NEW types
  PROVE  /\ E!CountOf(history, types) \in Nat
         /\ E!CountOf(Append(history, event), types) \in Nat
         /\ E!CountOf(history, types) <= E!CountOf(Append(history, event), types)
<1>. DEFINE more == Append(history, event)
            those == {i \in DOMAIN history : history[i].type \in types}
            all == {i \in DOMAIN more : more[i].type \in types}
<1>1. /\ Len(more) = Len(history) + 1 /\ Len(history) \in Nat
      /\ DOMAIN history = 1 .. Len(history) /\ DOMAIN more = 1 .. Len(history) + 1
      /\ \A i \in DOMAIN history : more[i] = history[i]
  OBVIOUS
<1>2. those \subseteq all BY <1>1
<1>3. IsFiniteSet(DOMAIN more) BY <1>1, FS_Interval
<1>4. IsFiniteSet(all) /\ IsFiniteSet(those) BY <1>2, <1>3, FS_Subset
<1>5. /\ Cardinality(those) \in Nat /\ Cardinality(all) \in Nat
      /\ Cardinality(those) <= Cardinality(all)
  BY <1>2, <1>4, FS_Subset, FS_CardinalityType
<1>. QED BY <1>5, OneCardinalityOfEvidence DEF E!CountOf

LEMMA DurationFacts ==
  ASSUME NEW Type, NEW history \in Seq(Event(Type)), NEW event \in Event(Type),
         Ordered(Append(history, event))
  PROVE  /\ E!Duration(history) \in Nat /\ E!Duration(Append(history, event)) \in Nat
         /\ E!Duration(history) <= E!Duration(Append(history, event))
<1>. DEFINE more == Append(history, event)
            n == Len(history)
<1>1. /\ Len(more) = n + 1 /\ n \in Nat /\ DOMAIN more = 1 .. n + 1 /\ more \in Seq(Event(Type))
      /\ more # <<>> /\ more[n + 1] = event /\ history = <<>> <=> n = 0
      /\ \A i \in 1 .. n : more[i] = history[i]
  OBVIOUS
<1>2. \A i \in 1 .. n + 1 : more[i].at \in Int
  <2>1. \A i \in 1 .. n + 1 : more[i] \in Event(Type) BY <1>1
  <2>. QED BY <2>1 DEF Event
<1>3. \A i, j \in 1 .. n + 1 : i <= j => more[i].at <= more[j].at BY <1>1 DEF Ordered
<1>4. E!Duration(more) = more[n + 1].at - more[1].at BY <1>1 DEF E!Duration, E!Last
<1>5. n # 0 => E!Duration(history) = more[n].at - more[1].at BY <1>1 DEF E!Duration, E!Last
<1>6. n = 0 => E!Duration(history) = 0 BY <1>1 DEF E!Duration
<1>. HIDE DEF more, n
<1>7. more[1].at <= more[n + 1].at /\ more[1].at \in Int /\ more[n + 1].at \in Int
  BY <1>1, <1>2, <1>3
<1>8. n # 0 => more[1].at <= more[n].at /\ more[n].at <= more[n + 1].at /\ more[n].at \in Int
  BY <1>1, <1>2, <1>3
<1>. QED BY <1>4, <1>5, <1>6, <1>7, <1>8 DEF more, n

LEMMA Joined ==
  ASSUME NEW a, NEW b, NEW c, NEW d
  PROVE  <<a, b, c>> \o <<d>> = <<a, b, c, d>>
<1>. DEFINE S == {a, b, c, d}
            joined == <<a, b, c>> \o <<d>>
<1>1. <<a, b, c>> \in Seq(S) /\ <<d>> \in Seq(S) /\ <<a, b, c, d>> \in Seq(S) OBVIOUS
<1>2. joined \in Seq(S) /\ Len(joined) = 4 BY <1>1
<1>3. \A i \in 1 .. 4 : joined[i] = <<a, b, c, d>>[i] BY <1>1
<1>. QED BY <1>1, <1>2, <1>3, SeqEqual

\* The timeline and the signals agree, and more work makes no signal worse, for a session
\* of any length (integrity-engine.ts, student-journey-timeline.tsx).
THEOREM ProcessAgreesAlways ==
  ASSUME NEW Type, NEW history \in Seq(Event(Type)), NEW event \in Event(Type),
         Ordered(Append(history, event)), NEW lines \in Nat, NEW runs \in Nat \ {0}
  PROVE  E!ProcessAgrees(history, lines, runs, event)
<1>. DEFINE drafts == E!CountOf(history, {"DRAFT_SAVED"})
            later == E!CountOf(Append(history, event), {"DRAFT_SAVED"})
            spent == E!Duration(history)
            longer == E!Duration(Append(history, event))
            analysis == E!Analysis(history, lines, runs, 1, 2)
            more == E!Analysis(Append(history, event), lines, runs + 1, 2, 2)
            timeline == E!Timeline(history, runs)
            ran(n) == IF n = 0 THEN "zero-runs" ELSE IF n = 1 THEN "single-run" ELSE "iterative-runs"
            drafted(n) == IF n <= 1 /\ lines > 25 THEN "single-burst"
                          ELSE IF n >= 3 THEN "incremental-drafts" ELSE "moderate-drafts"
            took(n) == IF n < 45 /\ lines > 30 THEN "rapid-velocity"
                       ELSE IF n > 180 THEN "standard-duration" ELSE "paced-session"
            rank(signal) == CASE signal \in {"zero-runs", "single-burst", "rapid-velocity"} -> 0
                              [] signal \in {"single-run", "moderate-drafts", "paced-session",
                                             "tests-partial"} -> 1
                              [] OTHER -> 2
<1>1. /\ drafts \in Nat /\ later \in Nat /\ drafts <= later
      /\ spent \in Nat /\ longer \in Nat /\ spent <= longer
  BY MoreCounted, DurationFacts
<1>2. /\ analysis.drafts = drafts /\ analysis.runs = runs /\ analysis.duration = spent
      /\ analysis.signals = <<ran(runs), drafted(drafts), took(spent), "tests-partial">>
  <2>. HIDE DEF drafts, spent
  <2>1. analysis = [drafts |-> drafts, runs |-> runs, duration |-> spent, signals |->
          <<ran(runs), drafted(drafts), took(spent)>> \o <<"tests-partial">>]
    BY DEF E!Analysis, drafts, spent
  <2>. HIDE DEF analysis, ran, drafted, took
  <2>. QED BY <2>1, Joined
<1>3. more.signals = <<ran(runs + 1), drafted(later), took(longer), "tests-all-passed">>
  <2>. DEFINE again == runs + 1
  <2>0. again > 0 /\ ~(2 = 0) OBVIOUS
  <2>. HIDE DEF later, longer, again
  <2>1. E!Analysis(Append(history, event), lines, again, 2, 2) =
          [drafts |-> later, runs |-> again, duration |-> longer, signals |->
            <<ran(again), drafted(later), took(longer)>> \o <<"tests-all-passed">>]
    BY <2>0 DEF E!Analysis, later, longer
  <2>2. more = [drafts |-> later, runs |-> runs + 1, duration |-> longer, signals |->
          <<ran(runs + 1), drafted(later), took(longer)>> \o <<"tests-all-passed">>]
    BY <2>1 DEF again
  <2>. HIDE DEF more, ran, drafted, took
  <2>. QED BY <2>2, Joined
<1>4. timeline.drafts = drafts /\ timeline.runs = runs /\ timeline.duration = spent
  BY DEF E!Timeline
<1>5. /\ rank(ran(runs)) <= rank(ran(runs + 1))
      /\ rank(drafted(drafts)) <= rank(drafted(later))
      /\ rank(took(spent)) <= rank(took(longer))
      /\ rank("tests-partial") <= rank("tests-all-passed")
  <2>. HIDE DEF drafts, later, spent, longer
  <2>1. rank(ran(runs)) <= rank(ran(runs + 1)) OBVIOUS
  <2>2. rank(drafted(drafts)) <= rank(drafted(later)) BY <1>1
  <2>3. rank(took(spent)) <= rank(took(longer)) BY <1>1
  <2>4. rank("tests-partial") <= rank("tests-all-passed") OBVIOUS
  <2>. QED BY <2>1, <2>2, <2>3, <2>4
<1>6. drafted(drafts) = "single-burst" => drafts <= 1 OBVIOUS
<1>7. drafts <= 1 => E!Viva(analysis, 1, 2, None).probe = "walkthrough" BY <1>2 DEF E!Viva
<1>. HIDE DEF drafts, later, spent, longer, analysis, more, timeline, rank, ran, drafted, took
<1>8. \A i \in DOMAIN analysis.signals : rank(analysis.signals[i]) <= rank(more.signals[i])
  BY <1>2, <1>3, <1>5
<1>9. analysis.signals[2] = "single-burst" => E!Viva(analysis, 1, 2, None).probe = "walkthrough"
  BY <1>2, <1>6, <1>7
<1>. QED BY <1>2, <1>4, <1>8, <1>9 DEF E!ProcessAgrees, analysis, more, timeline, rank

LEMMA GramFacts ==
  ASSUME NEW source, IsProgram(source), NEW k \in Nat \ {0}
  PROVE  LET n == Len(source.tokens)
             m == IF n >= k THEN n - k + 1 ELSE 0
             grams == E!Grams(E!Canonical(source), k)
         IN /\ n \in Nat /\ m \in Nat /\ DOMAIN source.tokens = 1 .. n
            /\ source.tokens = <<>> <=> n = 0
            /\ Len(grams) = m /\ DOMAIN grams = 1 .. m
<1>. DEFINE t == source.tokens
            n == Len(t)
            c == E!Canonical(source)
            m == IF n >= k THEN n - k + 1 ELSE 0
            grams == E!Grams(c, k)
<1>1. PICK Token : t \in Seq(Token) BY DEF IsProgram
<1>2. n \in Nat /\ DOMAIN t = 1 .. n /\ (t = <<>> <=> n = 0) BY <1>1
<1>3. c = [i \in DOMAIN t |-> c[i]] BY DEF E!Canonical
<1>. HIDE DEF c, t, n
<1>4. Len(c) = n BY <1>2, <1>3, IsSequence
<1>5. 1 .. n - k + 1 = 1 .. m /\ m \in Nat BY <1>2
<1>6. grams = [i \in 1 .. m |-> grams[i]] BY <1>4, <1>5 DEF E!Grams
<1>. HIDE DEF m, grams
<1>7. Len(grams) = m /\ DOMAIN grams = 1 .. m BY <1>5, <1>6, IsSequence
<1>. QED BY <1>2, <1>5, <1>7 DEF c, t, n, m, grams

LEMMA Rounded ==
  ASSUME NEW matched \in Nat, NEW longer \in Nat \ {0}, matched <= longer
  PROVE  (200 * matched + longer) \div (2 * longer) \in 0 .. 100
<1>. DEFINE q == (200 * matched + longer) \div (2 * longer)
<1>1. 2 * longer \in Nat \ {0} /\ 200 * matched + longer \in Nat OBVIOUS
<1>2. q \in Nat /\ 2 * longer * q <= 200 * matched + longer BY <1>1, Division
<1>. HIDE DEF q
<1>3. q <= 100
  <2>. SUFFICES ASSUME q >= 101 PROVE FALSE BY <1>2
  <2>1. 2 * longer * q >= 2 * longer * 101 BY <1>2
  <2>. QED BY <1>2, <2>1
<1>. QED BY <1>2, <1>3 DEF q

LEMMA SimilarFacts ==
  ASSUME NEW a, NEW b, IsProgram(a), IsProgram(b), NEW k \in Nat \ {0}
  PROVE  LET is == E!Similar(a, b, k) IN
         /\ is.percent \in 0 .. 100 /\ is.verdict \in Verdicts
         /\ is.verdict = "STRUCTURAL_COLLUSION_FLAG" <=> is.percent >= 78
         /\ is.verdict = "SUSPICIOUS_SIMILARITY" => is.percent >= 48
         /\ is \in [percent : 0 .. 100, blocks : Nat, verdict : Verdicts, renamed : BOOLEAN]
<1>. DEFINE x == E!Grams(E!Canonical(a), k)
            y == E!Grams(E!Canonical(b), k)
            S == {i \in DOMAIN x : x[i] \in E!ToSet(y)}
            matched == E!Cardinality(S)
            longer == IF Len(x) > Len(y) THEN Len(x) ELSE Len(y)
            percent == IF a.tokens = <<>> \/ b.tokens = <<>> \/ longer = 0 THEN 0
                       ELSE (200 * matched + longer) \div (2 * longer)
            verdict == IF percent >= 78 THEN "STRUCTURAL_COLLUSION_FLAG"
                       ELSE IF percent >= 48 THEN "SUSPICIOUS_SIMILARITY" ELSE "AUTHENTIC"
            renamed == percent >= 65 /\ a # b
<1>1. /\ Len(x) \in Nat /\ Len(y) \in Nat /\ DOMAIN x = 1 .. Len(x) BY GramFacts
<1>2. matched \in Nat /\ matched <= Len(x)
  <2>1. \A n \in Nat : IsFiniteSet(1 .. n) /\ Cardinality(1 .. n) = n BY FS_Interval
  <2>2. S \subseteq 1 .. Len(x) BY <1>1
  <2>. HIDE DEF S, x
  <2>3. ASSUME NEW n \in Nat, S \subseteq 1 .. n
        PROVE  Cardinality(S) \in Nat /\ Cardinality(S) <= n
    <3>. DEFINE T == 1 .. n
    <3>0. S \in SUBSET T /\ IsFiniteSet(T) /\ Cardinality(T) = n BY <2>1, <2>3
    <3>. HIDE DEF T
    <3>1. IsFiniteSet(S) /\ Cardinality(S) <= n BY <3>0, FS_Subset
    <3>. QED BY <3>1, FS_CardinalityType
  <2>. QED BY <1>1, <2>2, <2>3, OneCardinalityOfEvidence
<1>. HIDE DEF matched
<1>3. longer \in Nat /\ matched <= longer BY <1>1, <1>2
<1>. HIDE DEF longer
<1>4. percent \in 0 .. 100 BY <1>2, <1>3, Rounded
<1>5. E!Similar(a, b, k) = [percent |-> percent, blocks |-> matched, verdict |-> verdict,
                            renamed |-> renamed]
  BY Zenon DEF E!Similar, matched, longer
<1>6. renamed \in BOOLEAN OBVIOUS
<1>. HIDE DEF percent, renamed
<1>7. verdict \in Verdicts BY DEF Verdicts
<1>8. (verdict = "STRUCTURAL_COLLUSION_FLAG" <=> percent >= 78)
      /\ (verdict = "SUSPICIOUS_SIMILARITY" => percent >= 48)
  BY <1>4
<1>. HIDE DEF verdict
<1>9. E!Similar(a, b, k) \in [percent : 0 .. 100, blocks : Nat, verdict : Verdicts, renamed : BOOLEAN]
  BY <1>2, <1>4, <1>5, <1>6, <1>7
<1>. QED BY <1>4, <1>5, <1>7, <1>8, <1>9

\* A finite set has no more images than elements.
LEMMA Images ==
  ASSUME NEW S, IsFiniteSet(S), NEW f, DOMAIN f = S
  PROVE  IsFiniteSet({f[x] : x \in S}) /\ Cardinality({f[x] : x \in S}) <= Cardinality(S)
<1>. DEFINE g == [x \in S |-> f[x]]
            T == {f[x] : x \in S}
<1>1. g \in Surjection(S, T) BY DEF Surjection
<1>. QED BY <1>1, FS_Surjection

LEMMA ReportPairs ==
  ASSUME NEW attempts, AreAttempts(attempts), NEW asked, NEW k
  PROVE  LET pairs == E!Report(attempts, asked, k).pairs IN
         \A p : p \in pairs <=>
           \E i, j \in DOMAIN attempts :
             Compared(attempts, asked, i, j) /\ p = Pair(attempts, k, i, j) /\ p.is.percent >= 40
<1>. DEFINE chosen == {i \in DOMAIN attempts : asked = None \/ attempts[i].task = asked}
            of(task) == {i \in chosen : attempts[i].task = task}
            pairs == E!Report(attempts, asked, k).pairs
<1>1. pairs = UNION {E!Audited(attempts, of(attempts[i].task), k) : i \in chosen} BY DEF E!Report
<1>2. ASSUME NEW group, NEW p
      PROVE  p \in E!Audited(attempts, group, k) <=>
               \E i, j \in group :
                 /\ i < j /\ attempts[i].language = attempts[j].language
                 /\ attempts[i].student # attempts[j].student
                 /\ p = Pair(attempts, k, i, j) /\ p.is.percent >= 40
  <2>. DEFINE q(i, j) == /\ i < j /\ attempts[i].language = attempts[j].language
                         /\ attempts[i].student # attempts[j].student
  <2>1. p \in E!Audited(attempts, group, k) <=>
          (\E x \in group \X group : q(x[1], x[2]) /\ p = Pair(attempts, k, x[1], x[2]))
          /\ p.is.percent >= 40
    BY Zenon DEF E!Audited, E!Audit, Pair
  <2>. HIDE DEF q
  <2>2. (\E x \in group \X group : q(x[1], x[2]) /\ p = Pair(attempts, k, x[1], x[2]))
        <=> \E i, j \in group : q(i, j) /\ p = Pair(attempts, k, i, j)
    <3>1. ASSUME NEW i \in group, NEW j \in group, q(i, j), p = Pair(attempts, k, i, j)
          PROVE  \E x \in group \X group : q(x[1], x[2]) /\ p = Pair(attempts, k, x[1], x[2])
      <4>1. <<i, j>> \in group \X group /\ <<i, j>>[1] = i /\ <<i, j>>[2] = j OBVIOUS
      <4>. QED BY <3>1, <4>1
    <3>2. \A x \in group \X group : x[1] \in group /\ x[2] \in group OBVIOUS
    <3>. QED BY <3>1, <3>2
  <2>. QED BY <2>1, <2>2 DEF q
<1>3. ASSUME NEW p, p \in pairs
      PROVE  \E i, j \in DOMAIN attempts :
               Compared(attempts, asked, i, j) /\ p = Pair(attempts, k, i, j) /\ p.is.percent >= 40
  <2>1. PICK c \in chosen : p \in E!Audited(attempts, of(attempts[c].task), k) BY <1>1, <1>3
  <2>2. PICK i \in of(attempts[c].task), j \in of(attempts[c].task) :
          /\ i < j /\ attempts[i].language = attempts[j].language
          /\ attempts[i].student # attempts[j].student
          /\ p = Pair(attempts, k, i, j) /\ p.is.percent >= 40
    BY <1>2, <2>1
  <2>. QED BY <2>2 DEF Compared
<1>4. ASSUME NEW p, NEW i \in DOMAIN attempts, NEW j \in DOMAIN attempts,
             Compared(attempts, asked, i, j), p = Pair(attempts, k, i, j), p.is.percent >= 40
      PROVE  p \in pairs
  <2>1. i \in chosen /\ i \in of(attempts[i].task) /\ j \in of(attempts[i].task)
    BY <1>4 DEF Compared
  <2>2. p \in E!Audited(attempts, of(attempts[i].task), k) BY <1>2, <1>4, <2>1 DEF Compared
  <2>. QED BY <1>1, <2>1, <2>2
<1>. QED BY <1>3, <1>4

\* The attempt whose page is opened has a match there at least as high as any pair's.
LEMMA TopFacts ==
  ASSUME NEW attempts, AreAttempts(attempts), NEW k \in Nat \ {0},
         NEW a, IsProgram(a.source), NEW b \in E!Peers(attempts, a),
         None \notin [percent : 0 .. 100, blocks : Nat, verdict : Verdicts, renamed : BOOLEAN]
  PROVE  LET top == E!TopMatch(attempts, a, k) IN
         /\ top # None /\ top.percent \in 0 .. 100
         /\ top.percent >= E!Similar(a.source, b.source, k).percent
<1>. DEFINE Peers == E!Peers(attempts, a)
            percent(c) == E!Similar(a.source, c.source, k).percent
            best == CHOOSE c \in Peers : \A d \in Peers : percent(d) <= percent(c)
            Short == {100 - percent(c) : c \in Peers}
<1>1. ASSUME NEW c \in Peers
      PROVE  /\ percent(c) \in 0 .. 100
             /\ E!Similar(a.source, c.source, k) # None
  <2>1. IsProgram(c.source) BY DEF E!Peers, E!ToSet, AreAttempts
  <2>. QED BY <2>1, SimilarFacts
<1>. HIDE DEF percent
<1>2. \E c \in Peers : \A d \in Peers : percent(d) <= percent(c)
  <2>1. Short \in SUBSET Nat /\ Short # {} BY <1>1
  <2>2. PICK s \in Short : \A t \in Short : s <= t BY <2>1, LeastOf
  <2>3. PICK c \in Peers : s = 100 - percent(c) BY <2>2
  <2>4. \A d \in Peers : percent(d) <= percent(c)
    <3>. SUFFICES ASSUME NEW d \in Peers PROVE percent(d) <= percent(c) OBVIOUS
    <3>1. 100 - percent(d) \in Short OBVIOUS
    <3>2. 100 - percent(c) <= 100 - percent(d) BY <2>2, <2>3, <3>1
    <3>3. percent(c) \in 0 .. 100 /\ percent(d) \in 0 .. 100 BY <1>1
    <3>. HIDE DEF Peers
    <3>. QED BY <3>2, <3>3
  <2>. QED BY <2>4
<1>3. best \in Peers /\ \A d \in Peers : percent(d) <= percent(best) BY <1>2
<1>4. E!TopMatch(attempts, a, k) = E!Similar(a.source, best.source, k) BY DEF E!TopMatch, percent
<1>. QED BY Zenon, <1>1, <1>3, <1>4 DEF percent

\* The report of a teacher's attempts, however many, and the pages of the submissions in it
\* agree (cohort-service.ts, attempts/service.ts).
THEOREM ReportAgreesAlways ==
  ASSUME NEW attempts, AreAttempts(attempts), NEW k \in Nat \ {0},
         None \notin [percent : 0 .. 100, blocks : Nat, verdict : Verdicts, renamed : BOOLEAN]
  PROVE  E!ReportAgrees(attempts, k)
<1>. DEFINE all == E!Report(attempts, None, k)
            pairs == all.pairs
            count(verdict) == {p \in pairs : p.is.verdict = verdict}
            Places == DOMAIN attempts
<1>0. PICK Row : attempts \in Seq(Row) BY DEF AreAttempts
<1>1. \A p : p \in pairs <=>
        \E i, j \in Places :
          Compared(attempts, None, i, j) /\ p = Pair(attempts, k, i, j) /\ p.is.percent >= 40
  BY ReportPairs
<1>2. \A i \in Places : IsProgram(attempts[i].source) /\ attempts[i].task # None BY DEF AreAttempts
<1>3. ASSUME NEW p \in pairs
      PROVE  /\ p.is.percent \in 0 .. 100 /\ p.is.verdict \in Verdicts
             /\ p.is.verdict = "STRUCTURAL_COLLUSION_FLAG" => p.is.percent >= 78
             /\ p.is.verdict = "SUSPICIOUS_SIMILARITY" => p.is.percent >= 48
  <2>1. PICK i \in Places, j \in Places : p = Pair(attempts, k, i, j) BY <1>1
  <2>2. p.is = E!Similar(attempts[i].source, attempts[j].source, k) BY <2>1 DEF Pair
  <2>. QED BY <2>2, <1>2, SimilarFacts
<1>4. all.flagged + all.suspicious + all.authentic = Cardinality(pairs)
  <2>1. IsFiniteSet(pairs)
    <3>. DEFINE f == [x \in Places \X Places |-> Pair(attempts, k, x[1], x[2])]
    <3>1. Places = 1 .. Len(attempts) /\ Len(attempts) \in Nat BY <1>0
    <3>2. IsFiniteSet(Places \X Places)
      <4>1. \A n \in Nat : IsFiniteSet(1 .. n) BY FS_Interval
      <4>2. IsFiniteSet(Places) BY <3>1, <4>1
      <4>. QED BY <4>2, FS_Product
    <3>3. IsFiniteSet({f[x] : x \in Places \X Places})
      <4>1. DOMAIN f = Places \X Places OBVIOUS
      <4>. HIDE DEF f
      <4>. QED BY <3>2, <4>1, Images
    <3>4. pairs \subseteq {f[x] : x \in Places \X Places}
      <4>. SUFFICES ASSUME NEW p \in pairs PROVE p \in {f[x] : x \in Places \X Places} OBVIOUS
      <4>1. PICK i \in Places, j \in Places : p = Pair(attempts, k, i, j) BY <1>1
      <4>2. <<i, j>> \in Places \X Places /\ f[<<i, j>>] = p BY <4>1
      <4>. QED BY <4>2
    <3>. QED BY <3>3, <3>4, FS_Subset
  <2>2. /\ all.flagged = Cardinality(count("STRUCTURAL_COLLUSION_FLAG"))
        /\ all.suspicious = Cardinality(count("SUSPICIOUS_SIMILARITY"))
        /\ all.authentic = Cardinality(count("AUTHENTIC"))
    BY OneCardinalityOfEvidence DEF E!Report
  <2>. DEFINE F == count("STRUCTURAL_COLLUSION_FLAG")
              S == count("SUSPICIOUS_SIMILARITY")
              A == count("AUTHENTIC")
  <2>3. /\ pairs = (F \cup S) \cup A /\ F \cap S = {} /\ (F \cup S) \cap A = {}
        /\ F \subseteq pairs /\ S \subseteq pairs /\ A \subseteq pairs
    BY <1>3 DEF Verdicts
  <2>. HIDE DEF F, S, A, pairs, all
  <2>4. IsFiniteSet(F) /\ IsFiniteSet(S) /\ IsFiniteSet(A) BY <2>1, <2>3, FS_Subset
  <2>5. IsFiniteSet(F \cup S) /\ Cardinality(F \cup S) = Cardinality(F) + Cardinality(S)
    BY <2>3, <2>4, Apart
  <2>6. Cardinality(pairs) = Cardinality(F \cup S) + Cardinality(A) BY <2>3, <2>4, <2>5, Apart
  <2>. QED BY <2>2, <2>5, <2>6 DEF F, S, A
<1>5. ASSUME NEW c \in Places
      PROVE  E!Report(attempts, attempts[c].task, k).pairs
               = {p \in pairs : p.a.task = attempts[c].task}
  <2>. DEFINE task == attempts[c].task
              own == E!Report(attempts, task, k).pairs
  <2>1. \A p : p \in own <=>
          \E i, j \in Places :
            Compared(attempts, task, i, j) /\ p = Pair(attempts, k, i, j) /\ p.is.percent >= 40
    BY ReportPairs
  <2>2. task # None BY <1>2
  <2>3. \A i, j \in Places : Compared(attempts, task, i, j)
          <=> Compared(attempts, None, i, j) /\ Pair(attempts, k, i, j).a.task = task
    BY <2>2 DEF Compared, Pair
  <2>. HIDE DEF task, own, pairs
  <2>4. \A p : p \in own <=> p \in pairs /\ p.a.task = task BY <1>1, <2>1, <2>3
  <2>. QED BY <2>4 DEF task, own
<1>6. ASSUME NEW p \in pairs
      PROVE  LET top == E!TopMatch(attempts, p.a, k) IN
             /\ p.a.task = p.b.task /\ p.a.student # p.b.student
             /\ top # None /\ top.percent >= p.is.percent
             /\ E!PairLabel(p.is) = "high" => E!PanelLabel(top) = "high"
             /\ E!PairLabel(p.is) = "moderate" /\ E!PanelLabel(top) = "low" => p.is.percent \in 40 .. 44
  <2>. DEFINE top == E!TopMatch(attempts, p.a, k)
  <2>1. PICK i \in Places, j \in Places : Compared(attempts, None, i, j) /\ p = Pair(attempts, k, i, j)
    BY <1>1
  <2>2. /\ p.a = attempts[i] /\ p.b = attempts[j]
        /\ p.is = E!Similar(attempts[i].source, attempts[j].source, k)
    BY <2>1 DEF Pair
  <2>3. p.b \in E!Peers(attempts, p.a) BY <2>1, <2>2 DEF E!Peers, E!ToSet, Compared
  <2>4. top # None /\ top.percent \in 0 .. 100 /\ top.percent >= p.is.percent
    BY <1>2, <2>2, <2>3, TopFacts
  <2>5. p.a.task = p.b.task /\ p.a.student # p.b.student BY <2>1, <2>2 DEF Compared
  <2>. HIDE DEF top
  <2>6. E!PairLabel(p.is) = "high" => p.is.percent >= 78 BY <1>3 DEF E!PairLabel
  <2>7. top.percent >= 78 => E!PanelLabel(top) = "high" BY <2>4 DEF E!PanelLabel
  <2>8. top.percent >= 45 => E!PanelLabel(top) # "low" BY <2>4 DEF E!PanelLabel
  <2>9. p.is.percent \in 0 .. 100 /\ p.is.percent >= 40 BY <1>1, <1>3
  <2>10. (E!PairLabel(p.is) = "high" => E!PanelLabel(top) = "high")
         /\ (E!PanelLabel(top) = "low" => p.is.percent \in 40 .. 44)
    BY <2>4, <2>6, <2>7, <2>8, <2>9
  <2>. QED BY <2>4, <2>5, <2>10 DEF top
<1>. HIDE DEF all
<1>7. \A task \in {a.task : a \in E!ToSet(attempts)} :
        E!Report(attempts, task, k).pairs = {p \in pairs : p.a.task = task}
  BY <1>5 DEF E!ToSet
<1>. QED BY <1>4, <1>6, <1>7, OneCardinalityOfEvidence DEF E!ReportAgrees, all

LEMMA TokenFacts ==
  ASSUME NEW Name, NEW Text
  PROVE  /\ \A token \in Tokened(Name, Text) :
              /\ E!IsName(token) => token = [name |-> token.name] /\ token.name \in Name
              /\ ~E!IsName(token) => token = [text |-> token.text] /\ token.text \in Text
         /\ \A x : E!IsName([name |-> x]) /\ ~E!IsName([text |-> x])
BY DEF Tokened, E!IsName

LEMMA CanonicalFacts ==
  ASSUME NEW source
  PROVE  LET t == source.tokens IN
         E!Canonical(source) =
           [i \in DOMAIN t |-> IF E!IsName(t[i]) THEN <<"VAR", Cardinality(Names(t, First(t, t[i].name)))>>
                               ELSE <<t[i].text, 0>>]
BY OneCardinalityOfEvidence DEF E!Canonical, First, Names

LEMMA FirstFacts ==
  ASSUME NEW Name, NEW Text, NEW t \in Seq(Tokened(Name, Text)),
         NEW m \in DOMAIN t, E!IsName(t[m])
  PROVE  LET x == t[m].name  n == First(t, x) IN
         /\ n \in DOMAIN t /\ E!IsName(t[n]) /\ t[n].name = x
         /\ \A j \in 1 .. n - 1 : t[j] # t[n]
         /\ \A i \in DOMAIN t :
              E!IsName(t[i]) /\ t[i].name = x /\ (\A j \in 1 .. i - 1 : t[j] # t[i]) => i = n
<1>. DEFINE x == t[m].name
            Here == {i \in DOMAIN t : E!IsName(t[i]) /\ t[i].name = x}
            IsFirst(i) == E!IsName(t[i]) /\ t[i].name = x /\ \A j \in 1 .. i - 1 : t[j] # t[i]
            n == First(t, x)
<1>1. DOMAIN t = 1 .. Len(t) /\ Len(t) \in Nat OBVIOUS
<1>2. \A i \in Here : t[i] = [name |-> x]
  <2>1. \A i \in DOMAIN t : t[i] \in Tokened(Name, Text) OBVIOUS
  <2>. QED BY <2>1, TokenFacts
<1>3. m \in Here /\ Here \in SUBSET Nat BY <1>1
<1>4. PICK i \in Here : \A j \in Here : i <= j BY <1>3, LeastOf
<1>5. ASSUME NEW j \in 1 .. i - 1, t[j] = t[i]
      PROVE  FALSE
  <2>1. j \in DOMAIN t /\ j < i BY <1>1, <1>4
  <2>2. j \in Here BY <1>4, <1>5, <2>1
  <2>. QED BY <1>1, <1>4, <2>1, <2>2
<1>6. i \in DOMAIN t /\ IsFirst(i) BY <1>4, <1>5
<1>7. n \in DOMAIN t /\ IsFirst(n)
  <2>. HIDE DEF IsFirst
  <2>1. n = CHOOSE k \in DOMAIN t : IsFirst(k) BY DEF First, IsFirst
  <2>. QED BY <1>6, <2>1
<1>8. ASSUME NEW k \in DOMAIN t, IsFirst(k), NEW l \in DOMAIN t, IsFirst(l), k < l
      PROVE  FALSE
  <2>1. k \in Here /\ l \in Here BY <1>8
  <2>2. k \in 1 .. l - 1 BY <1>1, <1>8
  <2>. QED BY <1>2, <1>8, <2>1, <2>2
<1>. HIDE DEF n, IsFirst
<1>9. \A k \in DOMAIN t : IsFirst(k) => k = n BY <1>1, <1>7, <1>8
<1>. QED BY <1>7, <1>9 DEF n, IsFirst

\* As many images as elements, where no two have the same.
LEMMA SameCount ==
  ASSUME NEW S, IsFiniteSet(S), NEW f, S \subseteq DOMAIN f,
         \A x, y \in S : f[x] = f[y] => x = y
  PROVE  Cardinality({f[x] : x \in S}) = Cardinality(S)
<1>. DEFINE g == [x \in S |-> f[x]]
            T == {f[x] : x \in S}
<1>1. g \in Surjection(S, T) /\ g \in Injection(S, T)
  <2>1. g \in Surjection(S, T) BY DEF Surjection
  <2>2. g \in [S -> T] /\ \A x, y \in S : g[x] = g[y] => x = y OBVIOUS
  <2>. HIDE DEF g, T
  <2>3. g \in Injection(S, T) BY <2>2 DEF Injection, IsInjective
  <2>. QED BY <2>1, <2>3
<1>. HIDE DEF g, T
<1>2. Cardinality(T) = Cardinality(S) BY <1>1, FS_Surjection
<1>. QED BY <1>2 DEF T

LEMMA UsedFacts ==
  ASSUME NEW source, NEW i \in DOMAIN source.tokens, E!IsName(source.tokens[i])
  PROVE  source.tokens[i].name \in Used(source)
BY DEF Used, E!ToSet

LEMMA CopyCanonical ==
  ASSUME NEW Name, NEW Text, NEW New,
         NEW source, IsTokened(source, Name, Text),
         NEW f \in Renamings(source, New),
         NEW copy, IsCopy(copy, source, f)
  PROVE  /\ E!Canonical(copy) = E!Canonical(source)
         /\ Len(copy.tokens) = Len(source.tokens)
         /\ copy.tokens = <<>> <=> source.tokens = <<>>
<1>. DEFINE t == source.tokens
            c == copy.tokens
<1>0. f \in [Used(source) -> New] /\ \A x, y \in Used(source) : f[x] = f[y] => x = y
  BY DEF Renamings
<1>1. /\ DOMAIN t = 1 .. Len(t) /\ Len(t) \in Nat /\ t \in Seq(Tokened(Name, Text))
      /\ \A i \in DOMAIN t : t[i] \in Tokened(Name, Text)
  BY DEF IsTokened
<1>2. DOMAIN c = DOMAIN t
      /\ \A i \in DOMAIN t : c[i] = IF E!IsName(t[i]) THEN [name |-> f[t[i].name]] ELSE t[i]
  BY DEF Copy, IsCopy
<1>3. \A i \in DOMAIN t : E!IsName(t[i]) => t[i].name \in Used(source) /\ f[t[i].name] \in New
  BY <1>0, UsedFacts
<1>4. \A i \in DOMAIN t : c[i] \in Tokened(New, Text)
  <2>. SUFFICES ASSUME NEW i \in DOMAIN t PROVE c[i] \in Tokened(New, Text) OBVIOUS
  <2>1. CASE E!IsName(t[i])
    <3>1. \A x \in New : [name |-> x] \in Tokened(New, Text) BY DEF Tokened
    <3>. QED BY <2>1, <3>1, <1>2, <1>3
  <2>2. CASE ~E!IsName(t[i])
    <3>1. \A x \in Text : [text |-> x] \in Tokened(New, Text) BY DEF Tokened
    <3>2. c[i] = t[i] /\ t[i] = [text |-> t[i].text] /\ t[i].text \in Text
      BY <2>2, <1>1, <1>2, TokenFacts
    <3>. QED BY <3>1, <3>2
  <2>. QED BY <2>1, <2>2
<1>5. c \in Seq(Tokened(New, Text)) /\ Len(c) = Len(t)
  <2>1. c \in [1 .. Len(t) -> Tokened(New, Text)] BY <1>1, <1>2, <1>4 DEF Copy, IsCopy
  <2>. QED BY <1>1, <2>1
<1>6. \A i \in DOMAIN t : /\ E!IsName(c[i]) <=> E!IsName(t[i])
                          /\ E!IsName(t[i]) => c[i].name = f[t[i].name] /\ t[i] = [name |-> t[i].name]
                          /\ ~E!IsName(t[i]) => c[i] = t[i]
  <2>. SUFFICES ASSUME NEW i \in DOMAIN t
                PROVE  /\ E!IsName(c[i]) <=> E!IsName(t[i])
                       /\ E!IsName(t[i]) => c[i].name = f[t[i].name] /\ t[i] = [name |-> t[i].name]
                       /\ ~E!IsName(t[i]) => c[i] = t[i]
    OBVIOUS
  <2>1. CASE E!IsName(t[i])
    <3>1. c[i] = [name |-> f[t[i].name]] /\ t[i] = [name |-> t[i].name]
      BY <2>1, <1>1, <1>2, TokenFacts
    <3>2. E!IsName(c[i]) BY <3>1, TokenFacts
    <3>3. c[i].name = f[t[i].name] BY <3>1
    <3>. QED BY <2>1, <3>1, <3>2, <3>3
  <2>2. CASE ~E!IsName(t[i]) BY <2>2, <1>2
  <2>. QED BY <2>1, <2>2
<1>. HIDE DEF t, c
<1>7. ASSUME NEW i \in DOMAIN t, NEW j \in DOMAIN t, E!IsName(t[i])
      PROVE  c[j] = c[i] => t[j] = t[i]
  <2>. SUFFICES ASSUME c[j] = c[i] PROVE t[j] = t[i] OBVIOUS
  <2>1. E!IsName(t[j]) /\ f[t[j].name] = f[t[i].name] BY <1>6, <1>7
  <2>2. t[j].name = t[i].name BY <1>0, <1>3, <1>7, <2>1 DEF t
  <2>. QED BY <1>6, <1>7, <2>1, <2>2
<1>8. ASSUME NEW m \in DOMAIN t, E!IsName(t[m])
      PROVE  LET n == First(t, t[m].name) IN
             First(c, c[m].name) = n /\ n \in DOMAIN t
  <2>. DEFINE x == t[m].name
              n == First(t, x)
  <2>1. /\ n \in DOMAIN t /\ E!IsName(t[n]) /\ t[n].name = x
        /\ \A j \in 1 .. n - 1 : t[j] # t[n]
    BY <1>1, <1>8, FirstFacts
  <2>. HIDE DEF n
  <2>2. c[m].name = f[x] /\ E!IsName(c[m]) /\ m \in DOMAIN c BY <1>2, <1>6, <1>8
  <2>3. E!IsName(c[n]) /\ c[n].name = c[m].name /\ n \in DOMAIN c BY <1>2, <1>6, <2>1, <2>2
  <2>4. \A j \in 1 .. n - 1 : c[j] # c[n]
    <3>1. \A j \in 1 .. n - 1 : j \in DOMAIN t BY <1>1, <2>1 DEF t
    <3>. QED BY <1>7, <2>1, <3>1
  <2>5. First(c, c[m].name) = n BY <1>5, <2>2, <2>3, <2>4, FirstFacts
  <2>. QED BY <2>1, <2>5 DEF n
<1>9. ASSUME NEW n \in DOMAIN t
      PROVE  Cardinality(Names(c, n)) = Cardinality(Names(t, n))
  <2>. DEFINE these == {j \in 1 .. n : E!IsName(t[j])}
              name == [j \in 1 .. n |-> t[j].name]
  <2>1. 1 .. n \subseteq DOMAIN t /\ n \in Nat BY <1>1 DEF t
  <2>2. IsFiniteSet(these)
    <3>1. IsFiniteSet(1 .. n) BY <2>1, FS_Interval
    <3>. QED BY <3>1, FS_Subset
  <2>3. Names(t, n) = {t[j].name : j \in these} BY DEF Names
  <2>4. Names(c, n) = {f[x] : x \in Names(t, n)}
    <3>1. Names(c, n) = {c[j].name : j \in these} BY <1>6, <2>1 DEF Names
    <3>2. \A j \in these : c[j].name = f[t[j].name] BY <1>6, <2>1
    <3>. QED BY <2>3, <3>1, <3>2
  <2>5. IsFiniteSet(Names(t, n))
    <3>. DEFINE g == [j \in these |-> t[j].name]
    <3>1. IsFiniteSet({g[j] : j \in these})
      <4>1. DOMAIN g = these OBVIOUS
      <4>. HIDE DEF g, these
      <4>. QED BY <2>2, <4>1, Images
    <3>2. {g[j] : j \in these} = Names(t, n) BY <2>3
    <3>. QED BY <3>1, <3>2
  <2>6. Names(t, n) \subseteq Used(source) BY <1>3, <2>1, <2>3 DEF t
  <2>. QED BY <1>0, <2>4, <2>5, <2>6, SameCount
<1>10. E!Canonical(copy) = E!Canonical(source)
  <2>1. \A i \in DOMAIN t :
          (IF E!IsName(c[i]) THEN <<"VAR", Cardinality(Names(c, First(c, c[i].name)))>>
           ELSE <<c[i].text, 0>>)
          = (IF E!IsName(t[i]) THEN <<"VAR", Cardinality(Names(t, First(t, t[i].name)))>>
             ELSE <<t[i].text, 0>>)
    BY <1>6, <1>8, <1>9
  <2>. QED BY <1>2, <2>1, CanonicalFacts DEF t, c
<1>11. c = <<>> <=> t = <<>> BY <1>1, <1>5 DEF t
<1>. QED BY <1>5, <1>10, <1>11 DEF t, c

\* A copy is seen however it is renamed and whatever is written beside it, in programs of
\* any length (structural-ast-comparator.ts).
THEOREM RenamingHidesNothing ==
  ASSUME NEW Name, NEW Text, NEW New, NEW k \in Nat \ {0},
         NEW a, IsTokened(a, Name, Text), NEW b, IsProgram(b),
         NEW f \in Renamings(a, New),
         NEW copy, IsCopy(copy, a, f)
  PROVE  /\ E!Similar(copy, b, k).percent = E!Similar(a, b, k).percent
         /\ E!Similar(b, copy, k).percent = E!Similar(b, a, k).percent
         /\ Len(a.tokens) >= k /\ copy # a =>
              LET match == E!Similar(a, copy, k) IN
              match.percent = 100 /\ match.verdict = "STRUCTURAL_COLLUSION_FLAG" /\ match.renamed
<1>1. /\ E!Canonical(copy) = E!Canonical(a)
      /\ copy.tokens = <<>> <=> a.tokens = <<>>
  <2>1. E!Canonical(copy) = E!Canonical(a) BY CopyCanonical
  <2>2. copy.tokens = <<>> <=> a.tokens = <<>> BY CopyCanonical
  <2>. QED BY <2>1, <2>2
<1>2. E!Similar(copy, b, k).percent = E!Similar(a, b, k).percent BY <1>1 DEF E!Similar
<1>3. E!Similar(b, copy, k).percent = E!Similar(b, a, k).percent BY <1>1 DEF E!Similar
<1>4. ASSUME Len(a.tokens) >= k, copy # a
      PROVE  LET match == E!Similar(a, copy, k) IN
             match.percent = 100 /\ match.verdict = "STRUCTURAL_COLLUSION_FLAG" /\ match.renamed
  <2>. DEFINE x == E!Grams(E!Canonical(a), k)
              n == Len(x)
              matched == Cardinality({i \in DOMAIN x : x[i] \in E!ToSet(x)})
  <2>1. IsProgram(a) BY DEF IsProgram, IsTokened
  <2>2. /\ n \in Nat \ {0} /\ DOMAIN x = 1 .. n /\ a.tokens # <<>> BY <1>4, <2>1, GramFacts
  <2>3. matched = n
    <3>1. {i \in DOMAIN x : x[i] \in E!ToSet(x)} = 1 .. n BY <2>2 DEF E!ToSet
    <3>. HIDE DEF n
    <3>2. Cardinality(1 .. n) = n BY <2>2, FS_Interval
    <3>. QED BY <3>1, <3>2
  <2>4. (200 * n + n) \div (2 * n) = 100
    <3>. HIDE DEF n
    <3>1. /\ 200 * n + n \in Nat /\ 2 * n \in Nat \ {0} BY <2>2
    <3>. DEFINE q == (200 * n + n) \div (2 * n)
    <3>2. q \in Nat /\ 2 * n * q <= 200 * n + n /\ 200 * n + n < 2 * n * q + 2 * n BY <3>1, Division
    <3>. HIDE DEF q
    <3>3. q <= 100
      <4>. SUFFICES ASSUME q >= 101 PROVE FALSE BY <3>2
      <4>1. 2 * n * q >= 2 * n * 101 BY <2>2, <3>2
      <4>. QED BY <2>2, <3>2, <4>1
    <3>4. q >= 100
      <4>. SUFFICES ASSUME q <= 99 PROVE FALSE BY <3>2
      <4>1. 2 * n * q <= 2 * n * 99 BY <2>2, <3>2
      <4>. QED BY <2>2, <3>2, <4>1
    <3>. QED BY <3>2, <3>3, <3>4 DEF q
  <2>5. E!Similar(a, copy, k).percent = 100
    <3>1. E!Similar(a, copy, k).percent
            = IF a.tokens = <<>> \/ copy.tokens = <<>> \/ n = 0 THEN 0
              ELSE (200 * matched + n) \div (2 * n)
      BY <1>1, OneCardinalityOfEvidence DEF E!Similar
    <3>. QED BY <1>1, <2>2, <2>3, <2>4, <3>1
  <2>6. LET match == E!Similar(a, copy, k) IN
        /\ match.verdict = IF match.percent >= 78 THEN "STRUCTURAL_COLLUSION_FLAG"
                           ELSE IF match.percent >= 48 THEN "SUSPICIOUS_SIMILARITY" ELSE "AUTHENTIC"
        /\ match.renamed = (match.percent >= 65 /\ a # copy)
    BY Zenon DEF E!Similar
  <2>. DEFINE match == E!Similar(a, copy, k)
  <2>7. match.percent >= 78 /\ match.percent >= 65 /\ a # copy BY <1>4, <2>5
  <2>. HIDE DEF match
  <2>8. match.verdict = "STRUCTURAL_COLLUSION_FLAG" /\ match.renamed BY <2>6, <2>7 DEF match
  <2>. QED BY <2>5, <2>8 DEF match
<1>. QED BY <1>2, <1>3, <1>4

\* Of two programs that do not repeat themselves each shares as much with the other.
LEMMA OrderMakesNoDifference ==
  ASSUME NEW a, NEW b, IsProgram(a), IsProgram(b), NEW k \in Nat \ {0},
         E!IsInjective(E!Grams(E!Canonical(a), k)), E!IsInjective(E!Grams(E!Canonical(b), k))
  PROVE  E!Similar(a, b, k).percent = E!Similar(b, a, k).percent
<1>. DEFINE x == E!Grams(E!Canonical(a), k)
            y == E!Grams(E!Canonical(b), k)
            S == {i \in DOMAIN x : x[i] \in E!ToSet(y)}
            R == {j \in DOMAIN y : y[j] \in E!ToSet(x)}
            longer(v, w) == IF Len(v) > Len(w) THEN Len(v) ELSE Len(w)
            g == [i \in S |-> CHOOSE j \in DOMAIN y : y[j] = x[i]]
<1>1. /\ Len(x) \in Nat /\ Len(y) \in Nat /\ DOMAIN x = 1 .. Len(x)
      /\ DOMAIN y = 1 .. Len(y)
  BY GramFacts
<1>2. longer(x, y) = longer(y, x) BY <1>1
<1>3. Cardinality(S) = Cardinality(R)
  <2>1. /\ \A i, j \in DOMAIN x : x[i] = x[j] => i = j
        /\ \A i, j \in DOMAIN y : y[i] = y[j] => i = j
    BY DEF E!IsInjective
  <2>2. IsFiniteSet(S)
    <3>1. \A n \in Nat : IsFiniteSet(1 .. n) BY FS_Interval
    <3>2. IsFiniteSet(DOMAIN x) /\ S \subseteq DOMAIN x BY <1>1, <3>1
    <3>. QED BY <3>2, FS_Subset
  <2>. HIDE DEF x, y
  <2>3. \A i \in S : g[i] \in DOMAIN y /\ y[g[i]] = x[i] BY DEF E!ToSet
  <2>. HIDE DEF g
  <2>4. \A i, j \in S : g[i] = g[j] => i = j BY <2>1, <2>3
  <2>5. R = {g[i] : i \in S}
    <3>1. ASSUME NEW j \in R PROVE \E i \in S : j = g[i]
      <4>1. PICK i \in DOMAIN x : y[j] = x[i] BY DEF E!ToSet
      <4>2. i \in S BY <4>1 DEF E!ToSet
      <4>. QED BY <2>1, <2>3, <4>1, <4>2
    <3>2. \A i \in S : g[i] \in R BY <2>3 DEF E!ToSet
    <3>. QED BY <3>1, <3>2
  <2>6. DOMAIN g = S BY DEF g
  <2>. QED BY <2>2, <2>4, <2>5, <2>6, SameCount
<1>4. /\ E!Similar(a, b, k).percent
           = IF a.tokens = <<>> \/ b.tokens = <<>> \/ longer(x, y) = 0 THEN 0
             ELSE (200 * Cardinality(S) + longer(x, y)) \div (2 * longer(x, y))
      /\ E!Similar(b, a, k).percent
           = IF b.tokens = <<>> \/ a.tokens = <<>> \/ longer(y, x) = 0 THEN 0
             ELSE (200 * Cardinality(R) + longer(y, x)) \div (2 * longer(y, x))
  BY OneCardinalityOfEvidence DEF E!Similar
<1>. HIDE DEF S, R, longer, x, y
<1>. QED BY <1>2, <1>3, <1>4

\* How the property of the cases says it, of a program of any length.
THEOREM CopySeenAlways ==
  ASSUME NEW Name, NEW Text, NEW k \in Nat \ {0},
         NEW a, IsTokened(a, Name, Text), a.remarks # "other",
         NEW b, IsProgram(b)
  PROVE  E!CopyIsSeen(a, b, k)
<1>. DEFINE renamings == Renamings(a, {"u", "v", "w"})
            copy(f) == [tokens |-> Copy(a, f), remarks |-> "other"]
            once(s) == E!IsInjective(E!Grams(E!Canonical(s), k))
<1>1. ASSUME NEW f \in renamings
      PROVE  /\ E!Similar(copy(f), b, k).percent = E!Similar(a, b, k).percent
             /\ E!Similar(b, copy(f), k).percent = E!Similar(b, a, k).percent
             /\ Len(a.tokens) >= k =>
                  LET match == E!Similar(a, copy(f), k) IN
                  match.percent = 100 /\ match.verdict = "STRUCTURAL_COLLUSION_FLAG" /\ match.renamed
  <2>. DEFINE c == copy(f)
  <2>1. c.tokens = Copy(a, f) /\ c # a OBVIOUS
  <2>. HIDE DEF c
  <2>3. /\ E!Similar(c, b, k).percent = E!Similar(a, b, k).percent
        /\ E!Similar(b, c, k).percent = E!Similar(b, a, k).percent
        /\ Len(a.tokens) >= k =>
             LET match == E!Similar(a, c, k) IN
             match.percent = 100 /\ match.verdict = "STRUCTURAL_COLLUSION_FLAG" /\ match.renamed
    BY <2>1, RenamingHidesNothing DEF IsCopy
  <2>. QED BY <2>3 DEF c
<1>2. IsProgram(a) BY DEF IsProgram, IsTokened
<1>3. once(a) /\ once(b) => E!Similar(a, b, k).percent = E!Similar(b, a, k).percent
  BY <1>2, OrderMakesNoDifference
<1>4. ~E!Similar(a, a, k).renamed BY DEF E!Similar
<1>. HIDE DEF once
<1>5. /\ \A f \in renamings :
          /\ E!Similar(copy(f), b, k).percent = E!Similar(a, b, k).percent
          /\ E!Similar(b, copy(f), k).percent = E!Similar(b, a, k).percent
          /\ Len(a.tokens) >= k =>
               LET match == E!Similar(a, copy(f), k) IN
               match.percent = 100 /\ match.verdict = "STRUCTURAL_COLLUSION_FLAG" /\ match.renamed
      /\ once(a) /\ once(b) => E!Similar(a, b, k).percent = E!Similar(b, a, k).percent
      /\ ~E!Similar(a, a, k).renamed
  BY <1>1, <1>3, <1>4
<1>. QED BY Zenon, <1>5 DEF E!CopyIsSeen, Renamings, Used, Copy, once

-----------------------------------------------------------------------------
(* Where visitors get (Visitors.tla).                                       *)

LEMMA NoName ==
  /\ None # "TEACHER" /\ None # "STUDENT" /\ None # "configuration"
  /\ None # "unauthenticated" /\ None # "invalid" /\ None # "unlinked"
  /\ None # "disabled" /\ None # "denied"
BY VisitorsAssumption, SMT DEF Roles

LEMMA WorkFacts ==
  ASSUME NEW page \in DOMAIN D!V!WorkPages
  PROVE  LET work == D!V!WorkPages[page] IN
         /\ work.demo \in Roles
         /\ work.requires \in {None, work.demo}
         /\ (work.bridges <=> page \in D!V!RolePreview)
         /\ page \in D!V!RolePreview => work.requires = None
BY DEF D!V!WorkPages, D!V!Work, D!V!RolePreview, D!V!DashboardPage, D!V!ClassesPage,
  D!V!ClassroomPage, D!V!PracticalsOverviewPage, D!V!SubmissionsPage, D!V!TeacherProgressPage,
  D!V!ClassroomStudentsPage, D!V!ClassroomPulseRoute, D!V!NewTaskPage, D!V!EditPracticalPage,
  D!V!TaskWorkspacePage, D!V!StudentPracticalPage, D!V!SubmissionReviewPage, Roles

\* What a page with work answers in the demo.
LEMMA DemoWork ==
  ASSUME NEW env, NEW v, NEW page \in DOMAIN D!V!WorkPages, D!V!IdentityMode(env) = "demo"
  PROVE  LET end == D!V!Worked(env, v, page) IN
         end.settled /\ end.page = page /\ end.content = end.shell
<1>. DEFINE work == D!V!WorkPages[page]
            actor == D!V!Actor(work.demo, "seeded-demo-session")
<1>1. /\ work.demo \in Roles /\ work.requires \in {None, work.demo}
      /\ (work.bridges <=> page \in D!V!RolePreview)
      /\ page \in D!V!RolePreview => work.requires = None
  BY WorkFacts
<1>. HIDE DEF work
<1>2. D!V!PageActor(env, v, work) = actor
  BY <1>1 DEF D!V!PageActor, D!V!CurrentActor, D!V!RequireRole, D!V!SeededActor, D!V!Actor
<1>3. actor.error = None /\ actor.role = work.demo /\ actor.source = "seeded-demo-session"
  BY DEF D!V!Actor
<1>. HIDE DEF actor
<1>4. D!V!Bridge(env, v, page, actor) = D!V!ShellRole(env, v, page, actor)
  BY <1>1, <1>3 DEF D!V!Bridge, D!V!ShellRole, work
<1>. QED BY <1>2, <1>3, <1>4 DEF D!V!Worked, work, D!V!Shows, D!V!At

\* What a page with work answers where people sign in.
LEMMA ClerkWork ==
  ASSUME NEW env, NEW v \in Visitor, NEW page \in DOMAIN D!V!WorkPages,
         D!V!IdentityMode(env) = "clerk"
  PROVE  LET end == D!V!Worked(env, v, page) IN
         \/ v.session = "none" /\ end = D!V!At("sign-in", None)
         \/ v.session = "invalid" /\ end = D!V!At("unauthorized", None)
         \/ v.session = "user" /\ v.account = None /\ end = D!V!At("unlinked-account", None)
         \/ /\ v.session = "user" /\ v.account # None /\ v.account.status = "DISABLED"
            /\ end = D!V!At("disabled-account", None)
         \/ /\ v.session = "user" /\ v.account # None /\ v.account.status = "ACTIVE"
            /\ D!V!WorkPages[page].requires \notin {None, v.account.role}
            /\ end = D!V!At("unauthorized", None)
         \/ /\ v.session = "user" /\ v.account # None /\ v.account.status = "ACTIVE"
            /\ D!V!WorkPages[page].requires \in {None, v.account.role}
            /\ end.settled /\ end.page = page
            /\ end.content = v.account.role /\ end.shell = v.account.role
<1>. DEFINE work == D!V!WorkPages[page]
            actor == D!V!PageActor(env, v, work)
            end == D!V!Worked(env, v, page)
<1>1. /\ work.demo \in Roles /\ work.requires \in {None, work.demo}
      /\ (work.bridges <=> page \in D!V!RolePreview)
      /\ page \in D!V!RolePreview => work.requires = None
  BY WorkFacts
<1>2. v.session \in {"none", "invalid", "user"} /\ v.account \in {None} \cup Account BY DEF Visitor
<1>. HIDE DEF work
<1>a. ASSUME NEW error, actor = D!V!NoActor(error), error # None,
             D!V!ErrorPage(error) # "error"
      PROVE  end = D!V!At(D!V!ErrorPage(error), None)
  BY <1>a DEF D!V!Worked, D!V!NoActor, work
<1>3. CASE v.session = "none"
  <2>1. actor = D!V!NoActor("unauthenticated")
    BY <1>3, NoName DEF D!V!PageActor, D!V!CurrentActor, D!V!RequireRole, D!V!NoActor
  <2>2. D!V!ErrorPage("unauthenticated") = "sign-in" BY DEF D!V!ErrorPage
  <2>. QED BY <1>3, <2>1, <2>2, <1>a, NoName
<1>4. CASE v.session = "invalid"
  <2>1. actor = D!V!NoActor("invalid")
    BY <1>4, NoName DEF D!V!PageActor, D!V!CurrentActor, D!V!RequireRole, D!V!NoActor
  <2>2. D!V!ErrorPage("invalid") = "unauthorized" BY DEF D!V!ErrorPage
  <2>. QED BY <1>4, <2>1, <2>2, <1>a, NoName
<1>5. CASE v.session = "user" /\ v.account = None
  <2>1. actor = D!V!NoActor("unlinked")
    BY <1>5, NoName DEF D!V!PageActor, D!V!CurrentActor, D!V!RequireRole, D!V!NoActor
  <2>2. D!V!ErrorPage("unlinked") = "unlinked-account" BY DEF D!V!ErrorPage
  <2>. QED BY <1>5, <2>1, <2>2, <1>a, NoName
<1>6. CASE v.session = "user" /\ v.account # None /\ v.account.status = "DISABLED"
  <2>1. actor = D!V!NoActor("disabled")
    BY <1>6, NoName DEF D!V!PageActor, D!V!CurrentActor, D!V!RequireRole, D!V!NoActor
  <2>2. D!V!ErrorPage("disabled") = "disabled-account" BY DEF D!V!ErrorPage
  <2>. QED BY <1>6, <2>1, <2>2, <1>a, NoName
<1>7. CASE /\ v.session = "user" /\ v.account # None /\ v.account.status = "ACTIVE"
           /\ work.requires \notin {None, v.account.role}
  <2>1. actor = D!V!NoActor("denied")
    BY <1>7, NoName DEF D!V!PageActor, D!V!CurrentActor, D!V!RequireRole, D!V!NoActor, D!V!Actor
  <2>2. D!V!ErrorPage("denied") = "unauthorized" BY DEF D!V!ErrorPage
  <2>. QED BY <1>7, <2>1, <2>2, <1>a, NoName DEF work
<1>8. CASE /\ v.session = "user" /\ v.account # None /\ v.account.status = "ACTIVE"
           /\ work.requires \in {None, v.account.role}
  <2>1. actor = D!V!Actor(v.account.role, "external-identity")
    BY <1>8, NoName DEF D!V!PageActor, D!V!CurrentActor, D!V!RequireRole, D!V!NoActor, D!V!Actor
  <2>2. /\ actor.error = None /\ actor.role = v.account.role
        /\ actor.source = "external-identity"
    BY <2>1 DEF D!V!Actor
  <2>. HIDE DEF actor
  <2>3. /\ D!V!ShellRole(env, v, page, actor) = v.account.role
        /\ D!V!Bridge(env, v, page, actor) = v.account.role
    BY <1>8, <2>2 DEF D!V!Bridge, D!V!ShellRole, work
  <2>4. end.settled /\ end.page = page /\ end.content = v.account.role /\ end.shell = v.account.role
    BY <2>2, <2>3 DEF D!V!Worked, work, D!V!Shows, D!V!At, actor
  <2>. QED BY <1>8, <2>4 DEF work
<1>9. v.account # None => v.account.status \in {"ACTIVE", "DISABLED"} BY <1>2 DEF Account
<1>. QED BY <1>2, <1>3, <1>4, <1>5, <1>6, <1>7, <1>8, <1>9 DEF work
LEMMA WorkNames ==
  DOMAIN D!V!WorkPages =
    {"dashboard", "classes", "classroom", "practicals", "submissions", "progress", "students",
     "pulse", "newTask", "editPractical", "task", "practical", "submission", "ownSubmission"}
BY DEF D!V!WorkPages

\* The next page, from each page there is.
LEMMA Nexts ==
  ASSUME NEW env, NEW v, NEW intent
  PROVE  LET next(page) == D!V!Onward(env, v, D!V!At(page, intent)) IN
         /\ next("root") = D!V!At("dashboard", None)
         /\ \A page \in {"sign-in", "sign-up"} :
              next(page) = IF env.identity = "demo" THEN D!V!At("dashboard", None)
                           ELSE D!V!InClerkOnly(env, page, intent)
         /\ next("auth-complete") = D!V!AuthComplete(env, v, intent)
         /\ next("account-setup") = D!V!InClerkOnly(env, "account-setup", intent)
         /\ next("unlinked-account") = D!V!UnlinkedAccount(env, v)
         /\ \A page \in {"disabled-account", "unauthorized"} : next(page) = D!V!Shows(page, None)
         /\ \A page \in DOMAIN D!V!WorkPages : next(page) = D!V!Worked(env, v, page)
<1>. DEFINE next(page) == D!V!Onward(env, v, D!V!At(page, intent))
<1>1. \A page : /\ next(page) = D!V!Visit(env, v, D!V!At(page, intent))
                /\ D!V!At(page, intent).page = page /\ D!V!At(page, intent).intent = intent
  BY DEF D!V!Onward, D!V!At
<1>2. \A page : page \notin {"sign-in", "sign-up"} => ~D!V!Proxied(env, page) BY DEF D!V!Proxied
<1>. HIDE DEF next
<1>3. next("root") = D!V!At("dashboard", None) BY <1>1, <1>2, WorkNames DEF D!V!Visit, D!V!RootPage
<1>4. next("sign-in") = IF env.identity = "demo" THEN D!V!At("dashboard", None)
                        ELSE D!V!InClerkOnly(env, "sign-in", intent)
  BY <1>1, <1>2, WorkNames DEF D!V!Visit, D!V!Proxied, D!V!SignIn
<1>5. next("sign-up") = IF env.identity = "demo" THEN D!V!At("dashboard", None)
                        ELSE D!V!InClerkOnly(env, "sign-up", intent)
  BY <1>1, <1>2, WorkNames DEF D!V!Visit, D!V!Proxied, D!V!SignUp
<1>6. next("auth-complete") = D!V!AuthComplete(env, v, intent)
  BY <1>1, <1>2, WorkNames DEF D!V!Visit
<1>7. next("account-setup") = D!V!InClerkOnly(env, "account-setup", intent)
  BY <1>1, <1>2, WorkNames DEF D!V!Visit, D!V!AccountSetup
<1>8. next("unlinked-account") = D!V!UnlinkedAccount(env, v) BY <1>1, <1>2, WorkNames DEF D!V!Visit
<1>9. \A page \in {"disabled-account", "unauthorized"} : next(page) = D!V!Shows(page, None)
  BY <1>1, <1>2, WorkNames DEF D!V!Visit
<1>10. \A page \in DOMAIN D!V!WorkPages : next(page) = D!V!Worked(env, v, page)
  BY <1>1, <1>2, WorkNames DEF D!V!Visit
<1>. QED BY <1>3, <1>4, <1>5, <1>6, <1>7, <1>8, <1>9, <1>10 DEF next

\* A page that settled is where the visitor stays.
LEMMA Stays ==
  ASSUME NEW env, NEW v
  PROVE  /\ \A page, intent : /\ D!V!At(page, intent).page = page
                              /\ D!V!At(page, intent).intent = intent
                              /\ D!V!Shows(page, intent).page = page
                              /\ D!V!Shows(page, intent).intent = intent
                              /\ D!V!Shows(page, intent).settled
         /\ D!V!Fails.page = "error" /\ D!V!Fails.settled
         /\ \A here : here.settled => D!V!Onward(env, v, here) = here
BY DEF D!V!At, D!V!Shows, D!V!Fails, D!V!Onward

LEMMA Ends ==
  ASSUME NEW env, NEW v, NEW here, NEW b, b = D!V!Onward(env, v, here),
         NEW c, c = D!V!Onward(env, v, b), NEW d, d = D!V!Onward(env, v, c),
         d.settled \/ D!V!Onward(env, v, d).settled
  PROVE  /\ D!V!Follow(env, v, here) = D!V!Onward(env, v, d)
         /\ D!V!Follow(env, v, here).settled
         /\ d.settled => D!V!Follow(env, v, here) = d
         /\ c.settled => D!V!Follow(env, v, here) = c
         /\ b.settled => D!V!Follow(env, v, here) = b
BY Stays DEF D!V!Follow
\* In a forbidden environment every page fails or says who is not let in.
LEMMA ForbiddenEnds ==
  ASSUME NEW env, NEW v, D!V!IdentityMode(env) = "forbidden",
         NEW page \in D!V!Pages, NEW intent
  PROVE  LET end == D!V!Follow(env, v, D!V!At(page, intent)) IN
         end.settled /\ end.page \notin DOMAIN D!V!WorkPages
<1>. DEFINE next(here) == D!V!Onward(env, v, here)
            start == D!V!At(page, intent)
            end == D!V!Follow(env, v, start)
<1>1. \A demo : D!V!CurrentActor(env, v, demo) = D!V!NoActor("configuration")
  BY DEF D!V!CurrentActor
<1>2. ~(D!V!IdentityMode(env) = "clerk") /\ ~(D!V!IdentityMode(env) = "demo") OBVIOUS
<1>3. \A p \in DOMAIN D!V!WorkPages : D!V!Worked(env, v, p) = D!V!Fails
  BY <1>1, <1>2, NoName DEF D!V!Worked, D!V!PageActor, D!V!RequireRole, D!V!NoActor
<1>4. \A p : D!V!InClerkOnly(env, p, intent) = D!V!Fails BY DEF D!V!InClerkOnly
<1>5. D!V!AuthComplete(env, v, intent) = D!V!Fails /\ D!V!UnlinkedAccount(env, v) = D!V!Fails
  BY <1>1, NoName DEF D!V!AuthComplete, D!V!UnlinkedAccount, D!V!NoActor, D!V!PostSignInPage
<1>6. next(D!V!At("dashboard", None)) = D!V!Fails BY <1>3, Nexts, WorkNames
<1>7. "error" \notin DOMAIN D!V!WorkPages /\ "disabled-account" \notin DOMAIN D!V!WorkPages
      /\ "unauthorized" \notin DOMAIN D!V!WorkPages
  BY WorkNames
<1>8. ASSUME next(start) = D!V!Fails \/ next(start) = D!V!At("dashboard", None)
      PROVE  end.settled /\ end.page \notin DOMAIN D!V!WorkPages
  <2>1. CASE next(start) = D!V!Fails BY <2>1, <1>7, Stays, Ends
  <2>2. CASE next(start) = D!V!At("dashboard", None) BY <2>2, <1>6, <1>7, Stays, Ends
  <2>. QED BY <1>8, <2>1, <2>2
<1>9. CASE page \in DOMAIN D!V!WorkPages
  <2>1. next(start) = D!V!Worked(env, v, page) BY <1>9, Nexts
  <2>. QED BY <2>1, <1>9, <1>3, <1>8
<1>10. CASE page \in {"disabled-account", "unauthorized"}
  <2>1. next(start) = D!V!Shows(page, None) BY <1>10, Nexts
  <2>. QED BY <1>10, <2>1, <1>7, Stays, Ends
<1>11. CASE page \in {"root", "sign-in", "sign-up", "auth-complete", "account-setup", "unlinked-account"}
  <2>1. next(start) = D!V!Fails \/ next(start) = D!V!At("dashboard", None)
    BY <1>11, <1>4, <1>5, Nexts
  <2>. QED BY <2>1, <1>8
<1>. QED BY <1>9, <1>10, <1>11 DEF D!V!Pages

\* In the demo every page leads to one that is shown, and content and shell agree.
LEMMA DemoEnds ==
  ASSUME NEW env, NEW v, D!V!IdentityMode(env) = "demo",
         NEW page \in D!V!Pages, NEW intent \in {None} \cup Roles
  PROVE  LET end == D!V!Follow(env, v, D!V!At(page, intent)) IN
         /\ end.settled /\ end.page # "error"
         /\ end.page \in DOMAIN D!V!WorkPages => end.content = end.shell
         /\ page \in DOMAIN D!V!WorkPages => end.page = page
<1>. DEFINE next(here) == D!V!Onward(env, v, here)
            start == D!V!At(page, intent)
            end == D!V!Follow(env, v, start)
            dashboard == D!V!Worked(env, v, "dashboard")
<1>1. \A p \in DOMAIN D!V!WorkPages : LET there == D!V!Worked(env, v, p) IN
        there.settled /\ there.page = p /\ there.content = there.shell
  BY DemoWork
<1>2. next(D!V!At("dashboard", None)) = dashboard /\ "dashboard" \in DOMAIN D!V!WorkPages
  BY Nexts, WorkNames
<1>3. dashboard.settled /\ dashboard.page = "dashboard" /\ dashboard.content = dashboard.shell
  BY <1>1, <1>2
<1>4. \A p : D!V!InClerkOnly(env, p, intent) = D!V!At("dashboard", None) BY DEF D!V!InClerkOnly
<1>5. D!V!UnlinkedAccount(env, v) = D!V!Shows("unlinked-account", None)
  BY NoName DEF D!V!UnlinkedAccount, D!V!CurrentActor, D!V!SeededActor, D!V!Actor
<1>6. \/ D!V!AuthComplete(env, v, intent) = D!V!At("dashboard", None)
      \/ D!V!AuthComplete(env, v, intent) = D!V!At("account-setup", intent)
  BY NoName DEF D!V!AuthComplete, D!V!CurrentActor, D!V!SeededActor, D!V!Actor
<1>7. \A p \in {"disabled-account", "unauthorized", "unlinked-account"} :
         p # "error" /\ p \notin DOMAIN D!V!WorkPages
  BY WorkNames
<1>8. next(D!V!At("account-setup", intent)) = D!V!At("dashboard", None) BY <1>4, Nexts
<1>9. page \in DOMAIN D!V!WorkPages => page # "error" BY WorkNames
<1>. HIDE DEF dashboard
<1>10. CASE page \in DOMAIN D!V!WorkPages
  <2>1. next(start) = D!V!Worked(env, v, page) BY <1>10, Nexts
  <2>. QED BY <2>1, <1>1, <1>9, <1>10, Stays, Ends
<1>11. CASE page \in {"disabled-account", "unauthorized", "unlinked-account"}
  <2>1. next(start) = D!V!Shows(page, None) BY <1>11, <1>5, Nexts
  <2>. QED BY <1>11, <2>1, <1>7, Stays, Ends
<1>12. ASSUME page \notin DOMAIN D!V!WorkPages,
              \/ next(start) = D!V!At("dashboard", None)
              \/ next(next(start)) = D!V!At("dashboard", None)
       PROVE  /\ end.settled /\ end.page # "error"
              /\ end.page \in DOMAIN D!V!WorkPages => end.content = end.shell
  <2>1. CASE next(start) = D!V!At("dashboard", None) BY <2>1, <1>2, <1>3, Stays, Ends
  <2>2. CASE next(next(start)) = D!V!At("dashboard", None) BY <2>2, <1>2, <1>3, Stays, Ends
  <2>. QED BY <1>12, <2>1, <2>2
<1>13. CASE page \in {"root", "sign-in", "sign-up", "auth-complete", "account-setup"}
  <2>1. \/ next(start) = D!V!At("dashboard", None)
        \/ next(next(start)) = D!V!At("dashboard", None)
    BY <1>13, <1>4, <1>6, <1>8, Nexts
  <2>2. page \notin DOMAIN D!V!WorkPages BY <1>13, WorkNames
  <2>. QED BY <2>1, <2>2, <1>12
<1>. QED BY <1>10, <1>11, <1>13 DEF D!V!Pages

LEMMA ClerkLeaf ==
  ASSUME NEW env, NEW v, D!V!IdentityMode(env) = "clerk", NEW intent
  PROVE  /\ \A page \in {"sign-in", "sign-up", "account-setup"} :
              D!V!Onward(env, v, D!V!At(page, intent)) = D!V!Shows(page, intent)
         /\ \A page \in {"disabled-account", "unauthorized"} :
              D!V!Onward(env, v, D!V!At(page, intent)) = D!V!Shows(page, None)
         /\ \A page \in {"sign-in", "sign-up", "account-setup", "disabled-account", "unauthorized"} :
              \A wanted : IsEnd(v, D!V!Shows(page, wanted))
<1>1. env.identity # "demo" BY DEF D!V!IdentityMode
<1>2. \A page : D!V!InClerkOnly(env, page, intent) = D!V!Shows(page, intent) BY DEF D!V!InClerkOnly
<1>3. \A page \in {"sign-in", "sign-up", "account-setup", "disabled-account", "unauthorized"} :
        page \notin DOMAIN D!V!WorkPages /\ page # "error"
  BY WorkNames
<1>4. \A page \in {"sign-in", "sign-up", "account-setup"} :
        D!V!Onward(env, v, D!V!At(page, intent)) = D!V!Shows(page, intent)
  BY <1>1, <1>2, Nexts
<1>5. \A page \in {"disabled-account", "unauthorized"} :
        D!V!Onward(env, v, D!V!At(page, intent)) = D!V!Shows(page, None)
  BY Nexts
<1>6. \A page \in {"sign-in", "sign-up", "account-setup", "disabled-account", "unauthorized"} :
              \A wanted : IsEnd(v, D!V!Shows(page, wanted))
  BY <1>3, Stays DEF IsEnd
<1>. QED BY <1>4, <1>5, <1>6

LEMMA ClerkUnlinked ==
  ASSUME NEW env, NEW v \in Visitor, D!V!IdentityMode(env) = "clerk"
  PROVE  D!V!UnlinkedAccount(env, v) = D!V!At(
           IF v.session = "none" THEN "sign-in" ELSE IF v.session = "invalid" THEN "unauthorized"
           ELSE IF v.account = None THEN "account-setup"
           ELSE IF v.account.status = "DISABLED" THEN "disabled-account" ELSE "classes", None)
<1>. DEFINE actor == D!V!CurrentActor(env, v, "TEACHER")
            page == CASE actor.error = None -> "classes"
                      [] actor.error = "unlinked" -> "account-setup"
                      [] OTHER -> D!V!ErrorPage(actor.error)
<1>1. actor.error = IF v.session = "none" THEN "unauthenticated"
                    ELSE IF v.session = "invalid" THEN "invalid"
                    ELSE IF v.account = None THEN "unlinked"
                    ELSE IF v.account.status = "DISABLED" THEN "disabled" ELSE None
  BY DEF D!V!CurrentActor, D!V!NoActor, D!V!Actor
<1>. HIDE DEF actor
<1>2. D!V!UnlinkedAccount(env, v) = D!V!At(page, None)
  BY <1>1, NoName DEF D!V!UnlinkedAccount, actor
<1>3. page = IF v.session = "none" THEN "sign-in" ELSE IF v.session = "invalid" THEN "unauthorized"
           ELSE IF v.account = None THEN "account-setup"
           ELSE IF v.account.status = "DISABLED" THEN "disabled-account" ELSE "classes"
  <2>1. /\ D!V!ErrorPage("unauthenticated") = "sign-in" /\ D!V!ErrorPage("invalid") = "unauthorized"
        /\ D!V!ErrorPage("disabled") = "disabled-account"
    BY DEF D!V!ErrorPage
  <2>. QED BY <1>1, <2>1, NoName
<1>. QED BY <1>2, <1>3

LEMMA ClerkCompletes ==
  ASSUME NEW env, NEW v \in Visitor, D!V!IdentityMode(env) = "clerk", NEW intent \in {None} \cup Roles
  PROVE  D!V!AuthComplete(env, v, intent) =
           IF v.session = "none" THEN D!V!At("sign-in", intent)
           ELSE IF v.session = "invalid" THEN D!V!At("unauthorized", None)
           ELSE IF v.account = None THEN D!V!At("account-setup", intent)
           ELSE IF v.account.status = "DISABLED" THEN D!V!At("disabled-account", None)
           ELSE IF intent \notin {None, v.account.role} THEN D!V!At("account-setup", intent)
           ELSE D!V!At("dashboard", None)
<1>. DEFINE actor == D!V!CurrentActor(env, v, "TEACHER")
<1>1. actor = IF v.session = "none" THEN D!V!NoActor("unauthenticated")
              ELSE IF v.session = "invalid" THEN D!V!NoActor("invalid")
              ELSE IF v.account = None THEN D!V!NoActor("unlinked")
              ELSE IF v.account.status = "DISABLED" THEN D!V!NoActor("disabled")
              ELSE D!V!Actor(v.account.role, "external-identity")
  BY DEF D!V!CurrentActor
<1>2. /\ \A error : D!V!NoActor(error).error = error
      /\ \A role, source : D!V!Actor(role, source).error = None /\ D!V!Actor(role, source).role = role
  BY DEF D!V!NoActor, D!V!Actor
<1>3. /\ D!V!PostSignInPage("unauthenticated", intent) = D!V!At("sign-in", intent)
      /\ D!V!PostSignInPage("invalid", intent) = D!V!At("unauthorized", None)
      /\ D!V!PostSignInPage("unlinked", intent) = D!V!At("account-setup", intent)
      /\ D!V!PostSignInPage("disabled", intent) = D!V!At("disabled-account", None)
  BY DEF D!V!PostSignInPage
<1>. HIDE DEF actor
<1>. QED BY <1>1, <1>2, <1>3, NoName DEF D!V!AuthComplete, actor

\* Where people sign in every page leads to one that is shown; with work to those only
\* who have an active account, and then it is that of their role.
LEMMA ClerkEnds ==
  ASSUME NEW env, NEW v \in Visitor, D!V!IdentityMode(env) = "clerk",
         NEW page \in D!V!Pages, NEW intent \in {None} \cup Roles
  PROVE  LET end == D!V!Follow(env, v, D!V!At(page, intent)) IN
         /\ IsEnd(v, end)
         /\ MayWork(v) /\ page \in D!V!Navigation =>
              end.page = page /\ end.content = v.account.role
<1>. DEFINE next(here) == D!V!Onward(env, v, here)
            start == D!V!At(page, intent)
            end == D!V!Follow(env, v, start)
            Leaves == {"sign-in", "account-setup", "disabled-account", "unauthorized"}
            Leaf(here) == \E p \in Leaves : \E wanted : here = D!V!At(p, wanted)
            unlinked == D!V!At("unlinked-account", None)
<1>1. \A here : IsEnd(v, here) => next(here) = here BY Stays DEF IsEnd
<1>2. ASSUME NEW here, Leaf(here) PROVE IsEnd(v, next(here)) BY <1>2, ClerkLeaf
<1>3. end = next(next(next(next(start)))) BY DEF D!V!Follow
<1>4. v.session \in {"none", "invalid", "user"} /\ v.account \in {None} \cup Account BY DEF Visitor
<1>5. v.account # None => v.account.status \in {"ACTIVE", "DISABLED"} BY <1>4 DEF Account
<1>6. ASSUME NEW p \in DOMAIN D!V!WorkPages, NEW wanted
      PROVE  LET there == next(D!V!At(p, wanted)) IN
             /\ IsEnd(v, there) \/ Leaf(there)
                \/ (there = unlinked /\ v.session = "user" /\ v.account = None)
             /\ MayWork(v) /\ D!V!WorkPages[p].requires = None =>
                  IsEnd(v, there) /\ there.page = p /\ there.content = v.account.role
  <2>. DEFINE there == D!V!Worked(env, v, p)
  <2>1. next(D!V!At(p, wanted)) = there BY Nexts
  <2>2. p # "error" BY WorkNames
  <2>3. \/ v.session = "none" /\ there = D!V!At("sign-in", None)
        \/ v.session = "invalid" /\ there = D!V!At("unauthorized", None)
        \/ v.session = "user" /\ v.account = None /\ there = unlinked
        \/ /\ v.session = "user" /\ v.account # None /\ v.account.status = "DISABLED"
           /\ there = D!V!At("disabled-account", None)
        \/ /\ MayWork(v) /\ D!V!WorkPages[p].requires \notin {None, v.account.role}
           /\ there = D!V!At("unauthorized", None)
        \/ /\ MayWork(v) /\ D!V!WorkPages[p].requires \in {None, v.account.role}
           /\ there.settled /\ there.page = p
           /\ there.content = v.account.role /\ there.shell = v.account.role
    BY ClerkWork DEF MayWork
  <2>. HIDE DEF there
  <2>4. /\ Leaf(D!V!At("sign-in", None)) /\ Leaf(D!V!At("unauthorized", None))
        /\ Leaf(D!V!At("disabled-account", None))
    OBVIOUS
  <2>. HIDE DEF Leaf
  <2>5. ASSUME MayWork(v), there.settled, there.page = p,
               there.content = v.account.role, there.shell = v.account.role
        PROVE  IsEnd(v, there)
    BY <2>2, <2>5 DEF IsEnd
  <2>6. IsEnd(v, there) \/ Leaf(there)
        \/ (there = unlinked /\ v.session = "user" /\ v.account = None)
    BY <2>3, <2>4, <2>5
  <2>7. ASSUME MayWork(v), D!V!WorkPages[p].requires = None
        PROVE  IsEnd(v, there) /\ there.page = p /\ there.content = v.account.role
    <3>1. /\ v.session # "none" /\ v.session # "invalid" /\ v.account # None
          /\ v.account.status # "DISABLED"
      BY <2>7 DEF MayWork
    <3>2. /\ there.settled /\ there.page = p
          /\ there.content = v.account.role /\ there.shell = v.account.role
      BY <2>3, <2>7, <3>1
    <3>. QED BY <3>2, <2>5, <2>7
  <2>. QED BY <2>1, <2>6, <2>7
<1>. HIDE DEF Leaf
<1>7. Leaf(next(unlinked)) \/ (MayWork(v) /\ next(unlinked) = D!V!At("classes", None))
  <2>1. next(unlinked) = D!V!UnlinkedAccount(env, v) BY Nexts
  <2>. QED BY <2>1, <1>4, <1>5, ClerkUnlinked DEF Leaf, MayWork
<1>8. \A p \in D!V!Navigation : p \in DOMAIN D!V!WorkPages /\ D!V!WorkPages[p].requires = None
  <2>1. D!V!Navigation \subseteq D!V!RolePreview BY DEF D!V!Navigation, D!V!RolePreview
  <2>2. D!V!Navigation \subseteq DOMAIN D!V!WorkPages BY WorkNames DEF D!V!Navigation
  <2>. QED BY <2>1, <2>2, WorkFacts
<1>9. "classes" \in D!V!Navigation /\ "dashboard" \in D!V!Navigation BY DEF D!V!Navigation
\* From the page for those without an account.
<1>10. IsEnd(v, next(next(unlinked)))
       /\ (v.session = "user" /\ v.account = None => Leaf(next(unlinked)))
  BY <1>2, <1>6, <1>7, <1>8, <1>9 DEF MayWork
\* From a page with work.
<1>11. ASSUME NEW p \in DOMAIN D!V!WorkPages, NEW wanted
       PROVE  IsEnd(v, next(next(next(D!V!At(p, wanted)))))
  BY <1>1, <1>2, <1>6, <1>10
<1>12. CASE page \in DOMAIN D!V!WorkPages
  <2>1. IsEnd(v, end) BY <1>1, <1>3, <1>11, <1>12
  <2>2. ASSUME MayWork(v), page \in D!V!Navigation
        PROVE  end.page = page /\ end.content = v.account.role
    BY <2>2, <1>1, <1>3, <1>6, <1>8
  <2>. QED BY <2>1, <2>2
<1>13. page \in D!V!Navigation => page \in DOMAIN D!V!WorkPages BY <1>8
<1>14. CASE page \in Leaves \cup {"sign-up"}
  <2>1. IsEnd(v, next(start)) BY <1>14, ClerkLeaf
  <2>2. page \notin DOMAIN D!V!WorkPages BY <1>14, WorkNames
  <2>. QED BY <2>1, <2>2, <1>1, <1>3, <1>13
<1>15. CASE page = "root"
  <2>1. next(start) = D!V!At("dashboard", None) BY <1>15, Nexts
  <2>2. page \notin DOMAIN D!V!WorkPages BY <1>15, WorkNames
  <2>. QED BY <2>1, <2>2, <1>3, <1>8, <1>9, <1>11, <1>13
<1>16. CASE page = "unlinked-account"
  <2>1. next(start) = next(unlinked) BY <1>16, Nexts
  <2>2. page \notin DOMAIN D!V!WorkPages BY <1>16, WorkNames
  <2>. QED BY <2>1, <2>2, <1>1, <1>3, <1>10, <1>13
<1>17. CASE page = "auth-complete"
  <2>1. next(start) = D!V!AuthComplete(env, v, intent) BY <1>17, Nexts
  <2>2. Leaf(next(start)) \/ (next(start) = D!V!At("dashboard", None))
    BY <2>1, <1>4, ClerkCompletes DEF Leaf
  <2>3. page \notin DOMAIN D!V!WorkPages BY <1>17, WorkNames
  <2>4. CASE Leaf(next(start)) BY <2>3, <2>4, <1>1, <1>2, <1>3, <1>13
  <2>5. CASE next(start) = D!V!At("dashboard", None) BY <2>3, <2>5, <1>3, <1>8, <1>9, <1>11, <1>13
  <2>. QED BY <2>2, <2>4, <2>5
<1>. QED BY <1>12, <1>14, <1>15, <1>16, <1>17 DEF D!V!Pages

\* The account setup of a role, however it is answered.
LEMMA AllSetUp ==
  ASSUME NEW env, NEW v \in Visitor, D!V!IdentityMode(env) = "clerk", v.session = "user",
         v.account # None => v.account.status # "DISABLED",
         NEW role \in Roles, NEW answer \in D!V!Answers
  PROVE  SetUp(env, v, role, answer)
<1>. DEFINE setup == D!V!SubmitRole(env, v, role, answer)
            end == D!V!Follow(env, setup.visitor, setup.at)
            to(here) == [visitor |-> v, at |-> here]
<1>1. ASSUME NEW u, NEW here, D!V!Onward(env, u, here).settled
      PROVE  D!V!Follow(env, u, here) = D!V!Onward(env, u, here)
  BY <1>1, Ends, Stays
<1>2. ASSUME answer = "gone" PROVE SetUp(env, v, role, answer)
  <2>1. setup = to(D!V!At("sign-in", role)) BY <1>2 DEF D!V!SubmitRole
  <2>2. D!V!Onward(env, v, D!V!At("sign-in", role)) = D!V!Shows("sign-in", role) BY ClerkLeaf
  <2>3. setup.visitor = v /\ end = D!V!Shows("sign-in", role) BY <1>1, <2>1, <2>2, Stays
  <2>. QED BY <1>2, <2>3, Stays DEF SetUp
<1>3. ASSUME answer = "unanswered" PROVE SetUp(env, v, role, answer)
  <2>1. setup = to(D!V!Fails) BY <1>3 DEF D!V!SubmitRole
  <2>2. setup.visitor = v /\ end = D!V!Fails /\ D!V!Fails.page = "error"
    BY <1>1, <2>1, Stays DEF D!V!Fails
  <2>. QED BY <1>3, <2>2 DEF SetUp
<1>4. ASSUME answer \in {"unverified", "failed"} PROVE SetUp(env, v, role, answer)
  <2>1. setup = to(D!V!Shows("account-setup", role)) BY <1>4 DEF D!V!SubmitRole
  <2>2. setup.visitor = v /\ end = D!V!Shows("account-setup", role) BY <1>1, <2>1, Stays
  <2>. QED BY <1>4, <2>2, Stays DEF SetUp
<1>5. ASSUME answer = "owned", v.account = None PROVE SetUp(env, v, role, answer)
  <2>1. setup = to(D!V!At("disabled-account", None)) BY <1>5 DEF D!V!SubmitRole
  <2>2. D!V!Onward(env, v, D!V!At("disabled-account", None)) = D!V!Shows("disabled-account", None)
    BY ClerkLeaf
  <2>3. setup.visitor = v /\ end = D!V!Shows("disabled-account", None) BY <1>1, <2>1, <2>2, Stays
  <2>. QED BY <1>5, <2>3, Stays DEF SetUp
<1>6. ASSUME answer = "verified" \/ (answer = "owned" /\ v.account # None)
      PROVE  SetUp(env, v, role, answer)
  <2>. DEFINE after == [v EXCEPT !.account = [status |-> "ACTIVE", role |-> role]]
              done == D!V!Worked(env, after, "dashboard")
  <2>1. setup = [visitor |-> after, at |-> D!V!At("dashboard", None)] BY <1>6 DEF D!V!SubmitRole
  <2>2. /\ after \in Visitor /\ after.session = "user" /\ after.account # None
        /\ after.account = [status |-> "ACTIVE", role |-> role]
    BY VisitorsAssumption DEF Visitor, Account
  <2>3. "dashboard" \in DOMAIN D!V!WorkPages /\ D!V!WorkPages["dashboard"].requires = None
    BY WorkFacts, WorkNames DEF D!V!RolePreview
  <2>. HIDE DEF after
  <2>4. done.settled /\ done.page = "dashboard" /\ done.content = role BY <2>2, <2>3, ClerkWork
  <2>5. D!V!Onward(env, after, D!V!At("dashboard", None)) = done BY <2>3, Nexts
  <2>6. setup.visitor = after /\ setup.at = D!V!At("dashboard", None) BY <2>1
  <2>. HIDE DEF done, setup
  <2>7. D!V!Follow(env, after, D!V!At("dashboard", None)) = done BY <1>1, <2>4, <2>5
  <2>8. end.page = "dashboard" /\ end.content = role BY <2>4, <2>6, <2>7
  <2>. QED BY <2>8 DEF SetUp, setup
<1>. QED BY <1>2, <1>3, <1>4, <1>5, <1>6 DEF D!V!Answers

\* Nobody is sent in circles, and everyone gets where the page says, whatever the
\* environment, whoever they are, wherever they start and whatever the account setup is
\* answered (server/actors, role-onboarding-actions.ts, app/**/page.tsx).
THEOREM ArrivesAlways ==
  ASSUME NEW env, NEW v \in Visitor
  PROVE  D!V!Arrives(env, v, {None} \cup Roles)
<1>. DEFINE Intents == {None} \cup Roles
            from(page, intent) == D!V!Follow(env, v, D!V!At(page, intent))
            clerk == D!V!IdentityMode(env) = "clerk"
            dashboard(end, role) == end.page = "dashboard" /\ end.content = role
            Reached(end) ==
              /\ end.settled /\ (end.page = "error" => D!V!IdentityMode(env) = "forbidden")
              /\ end.page \in DOMAIN D!V!WorkPages =>
                   /\ end.content = end.shell
                   /\ clerk => /\ v.session = "user" /\ v.account # None
                               /\ v.account.status = "ACTIVE" /\ end.content = v.account.role
                   /\ \A link \in D!V!Navigation :
                        /\ from(link, None).page = link
                        /\ clerk => from(link, None).content = end.content
            SignsIn(role) ==
              LET first == from("auth-complete", role) IN
              \/ dashboard(first, role)
              \/ first.page = "disabled-account" /\ v.account.status = "DISABLED"
              \/ /\ first.page = "account-setup" /\ first.intent = role
                 /\ \A answer \in D!V!Answers : SetUp(env, v, role, answer)
<1>1. D!V!IdentityMode(env) \in {"forbidden", "demo", "clerk"} BY DEF D!V!IdentityMode
<1>2. D!V!Navigation \subseteq DOMAIN D!V!WorkPages /\ DOMAIN D!V!WorkPages \subseteq D!V!Pages
      /\ "dashboard" \in D!V!Navigation
  BY WorkNames DEF D!V!Navigation, D!V!Pages
<1>3. \A page \in D!V!Pages, intent \in Intents : Reached(from(page, intent))
  <2>. SUFFICES ASSUME NEW page \in D!V!Pages, NEW intent \in Intents
                PROVE  Reached(from(page, intent))
    OBVIOUS
  <2>1. CASE D!V!IdentityMode(env) = "forbidden" BY <2>1, ForbiddenEnds
  <2>2. CASE D!V!IdentityMode(env) = "demo"
    <3>1. \A link \in D!V!Navigation : from(link, None).page = link BY <2>2, <1>2, DemoEnds
    <3>2. LET end == from(page, intent) IN
          /\ end.settled /\ end.page # "error"
          /\ end.page \in DOMAIN D!V!WorkPages => end.content = end.shell
      BY <2>2, DemoEnds
    <3>3. ~clerk BY <2>2
    <3>. HIDE DEF from, clerk
    <3>. QED BY <3>1, <3>2, <3>3
  <2>3. CASE D!V!IdentityMode(env) = "clerk"
    <3>1. MayWork(v) => \A link \in D!V!Navigation :
            from(link, None).page = link /\ from(link, None).content = v.account.role
      BY <2>3, <1>2, ClerkEnds
    <3>2. IsEnd(v, from(page, intent)) BY <2>3, ClerkEnds
    <3>. HIDE DEF from, clerk
    <3>. QED BY <3>1, <3>2 DEF IsEnd, MayWork
  <2>. QED BY <1>1, <2>1, <2>2, <2>3
<1>4. ASSUME clerk, v.session = "user", NEW role \in Roles
      PROVE  SignsIn(role)
  <2>. DEFINE start == D!V!At("auth-complete", role)
              next(here) == D!V!Onward(env, v, here)
              first == from("auth-complete", role)
              work == D!V!Worked(env, v, "dashboard")
  <2>1. v.account \in {None} \cup Account /\ v.session # "none" /\ v.session # "invalid"
    BY <1>4 DEF Visitor
  <2>2. v.account # None => v.account.status \in {"ACTIVE", "DISABLED"} /\ v.account.role \in Roles
    BY <2>1 DEF Account
  <2>3. next(start) = IF v.account = None THEN D!V!At("account-setup", role)
           ELSE IF v.account.status = "DISABLED" THEN D!V!At("disabled-account", None)
           ELSE IF role \notin {None, v.account.role} THEN D!V!At("account-setup", role)
           ELSE D!V!At("dashboard", None)
    BY <1>4, <2>1, Nexts, ClerkCompletes
  <2>4. "dashboard" \in DOMAIN D!V!WorkPages /\ D!V!WorkPages["dashboard"].requires = None
    BY WorkFacts, WorkNames DEF D!V!RolePreview
  <2>5. CASE v.account # None /\ v.account.status = "DISABLED"
    <3>1. next(D!V!At("disabled-account", None)) = D!V!Shows("disabled-account", None)
      BY <1>4, ClerkLeaf
    <3>2. first = D!V!Shows("disabled-account", None) BY <2>3, <2>5, <3>1, Stays, Ends
    <3>. QED BY <2>5, <3>2, Stays
  <2>6. CASE v.account # None /\ v.account.status = "ACTIVE" /\ v.account.role = role
    <3>1. next(start) = D!V!At("dashboard", None) BY <2>3, <2>6
    <3>2. next(D!V!At("dashboard", None)) = work BY <2>4, Nexts
    <3>3. work.settled /\ work.page = "dashboard" /\ work.content = role
      BY <1>4, <2>1, <2>4, <2>6, ClerkWork
    <3>4. first = work BY <3>1, <3>2, <3>3, Stays, Ends
    <3>. QED BY <3>3, <3>4
  <2>7. CASE v.account = None \/ (v.account.status = "ACTIVE" /\ v.account.role # role)
    <3>1. role # None /\ (v.account # None => v.account.status # "DISABLED")
      BY <2>7, NoName DEF Roles
    <3>2. next(start) = D!V!At("account-setup", role) BY <2>3, <2>7, <3>1
    <3>3. next(D!V!At("account-setup", role)) = D!V!Shows("account-setup", role) BY <1>4, ClerkLeaf
    <3>4. first = D!V!Shows("account-setup", role) BY <3>2, <3>3, Stays, Ends
    <3>5. \A answer \in D!V!Answers : SetUp(env, v, role, answer) BY <1>4, <3>1, AllSetUp
    <3>6. first.page = "account-setup" /\ first.intent = role BY <3>4, Stays
    <3>. QED BY <3>5, <3>6
  <2>. QED BY <2>2, <2>5, <2>6, <2>7
<1>5. Intents \ {None} = Roles BY NoName DEF Roles
<1>. QED BY <1>3, <1>4, <1>5 DEF D!V!Arrives, SetUp

-----------------------------------------------------------------------------
(* What a class is told (Overviews.tla).                                    *)

\* In a finite set of numbered things, one has the highest number.
LEMMA SomeHighest ==
  ASSUME NEW S, IsFiniteSet(S), S # {}, \A a \in S : a.number \in Nat
  PROVE  Highest(S) \in S /\ \A b \in S : b.number <= Highest(S).number
<1>1. PICK n \in Nat : ExistsBijection(1 .. n, S) BY FS_NatBijection
<1>2. PICK e \in Bijection(1 .. n, S) : TRUE BY <1>1 DEF ExistsBijection
<1>3. e \in [1 .. n -> S] /\ \A a \in S : \E i \in 1 .. n : e[i] = a
  BY <1>2 DEF Bijection, Surjection
<1>. DEFINE Tops(i, k) == k \in 1 .. i /\ \A j \in 1 .. i : e[j].number <= e[k].number
            P == {0} \cup {i \in 1 .. n : \E k \in 1 .. i : Tops(i, k)}
<1>4. ASSUME NEW i \in 1 .. n, i - 1 \in P PROVE i \in P
  <2>1. \A j \in 1 .. n : e[j].number \in Nat BY <1>3
  <2>2. CASE i = 1 BY <2>1, <2>2
  <2>3. CASE i # 1
    <3>1. PICK k \in 1 .. i - 1 : Tops(i - 1, k) BY <1>4, <2>3
    <3>2. \A j \in 1 .. i : j = i \/ j \in 1 .. i - 1 OBVIOUS
    <3>3. CASE e[i].number <= e[k].number
      <4>1. \A j \in 1 .. i : e[j].number <= e[k].number BY <3>1, <3>2, <3>3
      <4>2. k \in 1 .. i BY <3>1
      <4>. QED BY <4>1, <4>2
    <3>4. CASE ~(e[i].number <= e[k].number)
      <4>1. \A j \in 1 .. i : e[j].number <= e[i].number
        <5>. SUFFICES ASSUME NEW j \in 1 .. i PROVE e[j].number <= e[i].number OBVIOUS
        <5>1. e[j].number \in Nat /\ e[i].number \in Nat /\ e[k].number \in Nat BY <2>1
        <5>2. j = i \/ e[j].number <= e[k].number BY <3>1, <3>2
        <5>. QED BY <3>4, <5>1, <5>2
      <4>. QED BY <4>1
    <3>. QED BY <3>3, <3>4
  <2>. QED BY <2>2, <2>3
<1>5. 0 \in P OBVIOUS
<1>. HIDE DEF P
<1>6. n \in P
  <2>1. \A i \in 0 .. n : i \in P BY <1>4, <1>5, StepByStep
  <2>. QED BY <2>1
<1>7. n # 0 BY <1>3
<1>8. PICK k \in 1 .. n : \A j \in 1 .. n : e[j].number <= e[k].number BY <1>6, <1>7 DEF P
<1>9. e[k] \in S /\ \A b \in S : b.number <= e[k].number BY <1>3, <1>8
<1>10. \E a \in S : \A b \in S : b.number <= a.number BY <1>9
<1>. QED BY <1>10, Zenon DEF Highest

LEMMA KeptFacts ==
  ASSUME NEW n \in Nat, NEW s, NEW S \in SUBSET (1 .. n)
  PROVE  \E m, g : KeptBy(s, S, Kept(s, S), m, g)
<1>. DEFINE m == Cardinality(S)
            kept == Kept(s, S)
<1>1. IsFiniteSet(S) /\ m \in Nat BY NumberedSet
<1>2. PICK g \in [1 .. m -> S] :
        /\ \A i \in 1 .. m : Rank(S, g[i]) = i
        /\ \A i, j \in 1 .. m : i < j => g[i] < g[j]
        /\ \A j \in S : \E i \in 1 .. m : g[i] = j
        /\ \A t : Kept(t, S) = [i \in 1 .. m |-> t[g[i]]]
  BY Ranks
<1>3. kept = [i \in 1 .. m |-> s[g[i]]] BY <1>2
<1>4. m = 0 <=> S = {} BY <1>1, FS_EmptySet
<1>. HIDE DEF kept, m
<1>5. DOMAIN kept = 1 .. m /\ \A i \in 1 .. m : kept[i] = s[g[i]] BY <1>3
<1>6. Len(kept) = m /\ kept \in Seq(ToSet(kept))
  <2>1. kept = [i \in 1 .. m |-> kept[i]] BY <1>3, <1>5
  <2>. QED BY <1>1, <1>5, <2>1, IsSequence DEF ToSet
<1>11. g \in [1 .. m -> S] OBVIOUS
<1>12. S \subseteq Nat OBVIOUS
<1>7. \A i, j \in 1 .. m : g[i] = g[j] => i = j
  <2>1. ASSUME NEW i \in 1 .. m, NEW j \in 1 .. m, g[i] = g[j] PROVE i = j
    <3>1. i < j => g[i] < g[j] BY <1>2
    <3>2. j < i => g[j] < g[i] BY <1>2
    <3>3. g[i] \in Nat /\ g[j] \in Nat BY <1>11, <1>12
    <3>. QED BY <1>1, <2>1, <3>1, <3>2, <3>3
  <2>. QED BY <2>1
<1>8. kept = <<>> <=> S = {}
  <2>1. kept = <<>> => m = 0 BY <1>1, <1>5
  <2>2. m = 0 => kept = <<>> BY <1>3
  <2>. QED BY <1>4, <2>1, <2>2
<1>9. S # {} => Head(kept) = kept[1] /\ 1 \in 1 .. m
  <2>. SUFFICES ASSUME S # {} PROVE Head(kept) = kept[1] /\ 1 \in 1 .. m OBVIOUS
  <2>1. kept # <<>> BY <1>8
  <2>2. m # 0 BY <1>4
  <2>3. 1 \in 1 .. m BY <1>1, <2>2
  <2>. QED BY <1>6, <2>1, <2>3
<1>10. KeptBy(s, S, kept, m, g) BY <1>1, <1>2, <1>3, <1>5, <1>6, <1>7, <1>8, <1>9 DEF KeptBy, m
<1>. QED BY <1>10 DEF kept

LEMMA ClassFacts ==
  ASSUME NEW class, IsClass(class)
  PROVE  LET tasks == Published(class) IN
         /\ Active(class) \subseteq DOMAIN class.members
         /\ Len(tasks) \in Nat /\ DOMAIN tasks = 1 .. Len(tasks)
         /\ tasks = <<>> <=> Len(tasks) = 0
         /\ tasks # <<>> => Head(tasks) = tasks[1] /\ 1 \in DOMAIN tasks
         /\ \A i \in DOMAIN tasks : /\ IsTask(tasks[i]) /\ tasks[i] \in ToSet(class.tasks)
                                    /\ tasks[i].status = "PUBLISHED"
         /\ \A i, j \in DOMAIN tasks : tasks[i].id = tasks[j].id => i = j
         /\ \A task \in ToSet(class.tasks) :
              /\ IsTask(task)
              /\ task.status = "PUBLISHED" => \E i \in DOMAIN tasks : tasks[i] = task
         /\ \A s, t \in ToSet(class.tasks) : s.id = t.id => s = t
         /\ ToSet(tasks) = {task \in ToSet(class.tasks) : task.status = "PUBLISHED"}
<1>. DEFINE n == Len(class.tasks)
            S == {i \in DOMAIN class.tasks : class.tasks[i].status = "PUBLISHED"}
            tasks == Published(class)
<1>1. /\ n \in Nat /\ DOMAIN class.tasks = 1 .. n
      /\ \A i \in 1 .. n : IsTask(class.tasks[i])
      /\ \A i, j \in 1 .. n : class.tasks[i].id = class.tasks[j].id => i = j
  BY DEF IsClass
<1>2. S \in SUBSET (1 .. n) BY <1>1
<1>3. PICK k, g : KeptBy(class.tasks, S, tasks, k, g) BY <1>1, <1>2, KeptFacts DEF Published
<1>. HIDE DEF tasks, S
<1>6. k \in Nat /\ Len(tasks) = k /\ DOMAIN tasks = 1 .. k /\ \A i \in 1 .. k : tasks[i] = class.tasks[g[i]]
  BY <1>3 DEF KeptBy
<1>4. \A j \in S : \E i \in 1 .. k : g[i] = j BY <1>3 DEF KeptBy
<1>7. \A i \in 1 .. k : g[i] \in 1 .. n /\ class.tasks[g[i]].status = "PUBLISHED"
  BY <1>1, <1>3 DEF KeptBy, S
<1>9. \A i, j \in 1 .. k : g[i] = g[j] => i = j BY <1>3 DEF KeptBy
<1>10. \A task : task \in ToSet(class.tasks) <=> \E i \in 1 .. n : class.tasks[i] = task
  BY <1>1 DEF ToSet
<1>11. \A task : task \in ToSet(tasks) <=> \E i \in 1 .. k : tasks[i] = task BY <1>6 DEF ToSet
<1>12. \A i \in 1 .. k : /\ IsTask(tasks[i]) /\ tasks[i] \in ToSet(class.tasks)
                         /\ tasks[i].status = "PUBLISHED"
  BY <1>1, <1>6, <1>7, <1>10
<1>13. \A i, j \in 1 .. k : tasks[i].id = tasks[j].id => i = j BY <1>1, <1>6, <1>7, <1>9
<1>14. \A task \in ToSet(class.tasks) :
         /\ IsTask(task)
         /\ task.status = "PUBLISHED" => \E i \in 1 .. k : tasks[i] = task
  <2>. SUFFICES ASSUME NEW task \in ToSet(class.tasks)
                PROVE  /\ IsTask(task)
                       /\ task.status = "PUBLISHED" => \E i \in 1 .. k : tasks[i] = task
    OBVIOUS
  <2>1. PICK j \in 1 .. n : class.tasks[j] = task BY <1>10
  <2>2. task.status = "PUBLISHED" => j \in S BY <1>1, <2>1 DEF S
  <2>. QED BY <1>1, <1>4, <1>6, <2>1, <2>2
<1>15. \A s, t \in ToSet(class.tasks) : s.id = t.id => s = t BY <1>1, <1>10
<1>16. ToSet(tasks) = {task \in ToSet(class.tasks) : task.status = "PUBLISHED"}
  BY <1>11, <1>12, <1>14
<1>17. (tasks = <<>> <=> k = 0) /\ (tasks # <<>> => Head(tasks) = tasks[1] /\ 1 \in DOMAIN tasks)
  BY <1>3 DEF KeptBy
<1>18. Active(class) \subseteq DOMAIN class.members BY DEF Active
<1>. QED BY <1>6, <1>12, <1>13, <1>14, <1>15, <1>16, <1>17, <1>18 DEF tasks

\* The latest published task is one of the class.
LEMMA NewestPublished ==
  ASSUME NEW class, IsClass(class), LatestPublished(class) # None
  PROVE  /\ Published(class) # <<>> /\ LatestPublished(class) = Published(class)[1]
         /\ IsTask(LatestPublished(class)) /\ LatestPublished(class) \in ToSet(class.tasks)
<1>1. Published(class) # <<>> /\ LatestPublished(class) = Head(Published(class))
  BY DEF LatestPublished
<1>2. Head(Published(class)) = Published(class)[1] /\ 1 \in DOMAIN Published(class)
  BY <1>1, ClassFacts
<1>3. IsTask(Published(class)[1]) /\ Published(class)[1] \in ToSet(class.tasks) BY <1>2, ClassFacts
<1>. QED BY <1>1, <1>2, <1>3

LEMMA AnalyticsFacts ==
  ASSUME NEW S, NEW X
  PROVE  /\ Analytics(S, X).submitted = Cardinality({a.student : a \in X})
         /\ Analytics(S, X).pending = Cardinality(S) - Cardinality({a.student : a \in X})
         /\ Analytics(S, X).attention =
              [s \in {x \in S : ReasonsOf(S, X, x) # {}} |-> ReasonsOf(S, X, s)]
<1>1. Analytics(S, X).submitted = Cardinality({a.student : a \in X}) BY DEF Analytics
<1>2. Analytics(S, X).pending = Cardinality(S) - Cardinality({a.student : a \in X}) BY DEF Analytics
<1>3. Analytics(S, X).attention =
        [s \in {x \in S : ReasonsOf(S, X, x) # {}} |-> ReasonsOf(S, X, s)]
  BY DEF Analytics, ReasonsOf
<1>. QED BY <1>1, <1>2, <1>3

\* A student without a submission is said to have none, and nobody else is.
LEMMA NoSubmission ==
  ASSUME NEW S, NEW X, NEW s \in S
  PROVE  "NO_SUBMISSION" \in ReasonsOf(S, X, s) <=> Of(s, X) = {}
BY DEF ReasonsOf

\* The attention a student needs is decided by the attempts of the students asked for.
LEMMA SameReasons ==
  ASSUME NEW S, NEW X, NEW Y, \A s \in S : Of(s, X) = Of(s, Y)
  PROVE  Analytics(S, X).attention = Analytics(S, Y).attention
<1>1. {x \in S : Of(x, X) # {}} = {x \in S : Of(x, Y) # {}} OBVIOUS
<1>2. [x \in {x \in S : Of(x, X) # {}} |-> Highest(Of(x, X))]
        = [x \in {x \in S : Of(x, Y) # {}} |-> Highest(Of(x, Y))]
  BY <1>1
<1>3. \A s : ReasonsOf(S, X, s) = ReasonsOf(S, Y, s) BY <1>1, <1>2 DEF ReasonsOf
<1>4. {x \in S : ReasonsOf(S, X, x) # {}} = {x \in S : ReasonsOf(S, Y, x) # {}} BY <1>3
<1>5. [s \in {x \in S : ReasonsOf(S, X, x) # {}} |-> ReasonsOf(S, X, s)]
        = [s \in {x \in S : ReasonsOf(S, Y, x) # {}} |-> ReasonsOf(S, Y, s)]
  BY <1>3, <1>4
<1>6. Analytics(S, X).attention = [s \in {x \in S : ReasonsOf(S, X, x) # {}} |-> ReasonsOf(S, X, s)]
  BY AnalyticsFacts
<1>7. Analytics(S, Y).attention = [s \in {x \in S : ReasonsOf(S, Y, x) # {}} |-> ReasonsOf(S, Y, s)]
  BY AnalyticsFacts
<1>. QED BY <1>5, <1>6, <1>7

\* The attempts at a task of a class, found among the attempts at all tasks by their
\* task, are those stored with it.
LEMMA AttemptsOfTask ==
  ASSUME NEW class, IsClass(class), NEW task \in ToSet(class.tasks), NEW M
  PROVE  {a \in {b \in UNION {t.attempts : t \in ToSet(class.tasks)} : b.student \in M} :
            a.task = task.id} = {a \in task.attempts : a.student \in M}
<1>1. IsTask(task) BY ClassFacts
<1>2. \A t \in ToSet(class.tasks) : \A a \in t.attempts : a.task = task.id => t = task
  <2>. SUFFICES ASSUME NEW t \in ToSet(class.tasks), NEW a \in t.attempts, a.task = task.id
                PROVE  t = task
    OBVIOUS
  <2>1. a.task = t.id BY ClassFacts DEF IsTask
  <2>. QED BY <2>1, ClassFacts
<1>3. \A a \in task.attempts : a.task = task.id BY <1>1 DEF IsTask
<1>. QED BY <1>2, <1>3

LEMMA OneRow ==
  ASSUME NEW S, NEW x \in S, NEW p, OneOrNone(p, x)
  PROVE  p \in Seq(S) /\ Len(p) \in Nat /\ DOMAIN p = 1 .. Len(p) /\ \A i \in DOMAIN p : p[i] = x
<1>1. CASE p = <<>> BY <1>1
<1>2. CASE p = <<x>> BY <1>2
<1>. QED BY <1>1, <1>2 DEF OneOrNone

LEMMA ThreeRows ==
  ASSUME NEW x, NEW y, NEW z, NEW p, NEW q, NEW r,
         OneOrNone(p, x), OneOrNone(q, y), OneOrNone(r, z)
  PROVE  LET rows == p \o q \o r IN
         /\ \A i \in DOMAIN rows : (p # <<>> /\ rows[i] = x) \/ rows[i] = y \/ rows[i] = z
         /\ p # <<>> => 1 \in DOMAIN rows /\ rows[1] = x
<1>. DEFINE S == {x, y, z}
            rows == p \o q \o r
<1>1. p \in Seq(S) /\ q \in Seq(S) /\ r \in Seq(S)
  <2>1. x \in S /\ y \in S /\ z \in S OBVIOUS
  <2>. HIDE DEF S
  <2>. QED BY <2>1, OneRow
<1>2. Len(p) \in Nat /\ Len(q) \in Nat /\ Len(r) \in Nat BY <1>1
<1>3. /\ \A i \in 1 .. Len(p) : p[i] = x
      /\ \A i \in 1 .. Len(q) : q[i] = y
      /\ \A i \in 1 .. Len(r) : r[i] = z
  BY OneRow
<1>. HIDE DEF S
<1>4. p \o q \in Seq(S) /\ Len(p \o q) = Len(p) + Len(q) BY <1>1
<1>5. Len(rows) = Len(p) + Len(q) + Len(r) /\ DOMAIN rows = 1 .. Len(rows) BY <1>1, <1>4
<1>6. \A i \in 1 .. Len(rows) :
        rows[i] = IF i <= Len(p) THEN p[i]
                  ELSE IF i <= Len(p) + Len(q) THEN q[i - Len(p)] ELSE r[i - Len(p) - Len(q)]
  BY <1>1, <1>2, <1>4, <1>5
<1>7. Len(p) = 0 <=> p = <<>> BY OneRow DEF OneOrNone
<1>8. ASSUME NEW i \in DOMAIN rows
      PROVE  (p # <<>> /\ rows[i] = x) \/ rows[i] = y \/ rows[i] = z
  <2>1. i \in 1 .. Len(rows) BY <1>5
  <2>. HIDE DEF rows
  <2>2. CASE i <= Len(p) BY <1>2, <1>3, <1>6, <1>7, <2>1, <2>2
  <2>3. CASE ~(i <= Len(p)) /\ i <= Len(p) + Len(q)
    <3>1. rows[i] = q[i - Len(p)] /\ i - Len(p) \in 1 .. Len(q) BY <1>2, <1>6, <2>1, <2>3
    <3>. QED BY <1>3, <3>1
  <2>4. CASE ~(i <= Len(p)) /\ ~(i <= Len(p) + Len(q))
    <3>1. rows[i] = r[i - Len(p) - Len(q)] /\ i - Len(p) - Len(q) \in 1 .. Len(r)
      BY <1>2, <1>5, <1>6, <2>1, <2>4
    <3>. QED BY <1>3, <3>1
  <2>. QED BY <2>2, <2>3, <2>4
<1>9. p # <<>> => 1 \in DOMAIN rows /\ rows[1] = x
  <2>. HIDE DEF rows
  <2>. QED BY <1>2, <1>3, <1>5, <1>6, <1>7
<1>. QED BY <1>8, <1>9

\* The row about missing submissions is there when some are missing, and counts them.
LEMMA MissingRow ==
  ASSUME NEW class, LatestPublished(class) # None
  PROVE  LET rows == Attention(class)
             missing == {i \in DOMAIN rows : rows[i].about = "missing"}
             outstanding == Active(class) \ Submitters(LatestPublished(class)) IN
         /\ missing = {} <=> outstanding = {}
         /\ \A i \in missing : rows[i].count = Cardinality(outstanding)
<1>. DEFINE task == LatestPublished(class)
            out == Active(class) \ Submitters(task)
            drafts == Len(class.tasks) - Len(Published(class))
            x == [about |-> "missing", class |-> class.id, count |-> Cardinality(out)]
            y == [about |-> "deadline", class |-> class.id, count |-> RemainingDays(task)]
            z == [about |-> "drafts", class |-> class.id, count |-> drafts]
            p == IF task # None /\ out # {} THEN <<x>> ELSE <<>>
            q == IF task # None /\ task.deadline # None /\ RemainingDays(task) \in 0 .. 7
                 THEN <<y>> ELSE <<>>
            r == IF drafts > 0 THEN <<z>> ELSE <<>>
            rows == Attention(class)
<1>1. rows = p \o q \o r BY DEF Attention
<1>2. OneOrNone(p, x) /\ OneOrNone(q, y) /\ OneOrNone(r, z) BY DEF OneOrNone
<1>3. p # <<>> <=> out # {} OBVIOUS
<1>4. /\ x.about = "missing" /\ y.about # "missing" /\ z.about # "missing"
      /\ x.count = Cardinality(out)
  OBVIOUS
<1>. HIDE DEF p, q, r, x, y, z, rows, out
<1>5. /\ \A i \in DOMAIN rows : (p # <<>> /\ rows[i] = x) \/ rows[i] = y \/ rows[i] = z
      /\ p # <<>> => 1 \in DOMAIN rows /\ rows[1] = x
  BY <1>1, <1>2, ThreeRows
<1>. QED BY <1>3, <1>4, <1>5 DEF rows, out

\* The pages of a class tell alike: whom the page of a class calls outstanding, how many
\* its card, roster and analytics say have submitted, and who is without a submission, for
\* any class, also when students who submitted have lost access (teacher/overview.ts,
\* classrooms/service.ts, submission-review).
THEOREM ClassAlwaysToldAlike ==
  ASSUME NEW class, IsClass(class)
  PROVE  ClassToldAlike(class)
<1>. DEFINE task == LatestPublished(class)
            A == Active(class)
            U == Submitters(task)
            X == {a \in task.attempts : a.student \in A}
            page == ClassroomPage(class, "TEACHER", None)
            progress == ClassroomProgress(class)
            analytics == PracticalAnalytics(class, task)
            rows == Attention(class)
            missing == {i \in DOMAIN rows : rows[i].about = "missing"}
<1>. SUFFICES ASSUME task # None PROVE ClassToldAlike(class) BY DEF ClassToldAlike
<1>1. /\ Published(class) # <<>> /\ task = Published(class)[1] /\ 1 \in DOMAIN Published(class)
      /\ IsTask(task) /\ task \in ToSet(class.tasks)
  <2>1. Published(class) # <<>> /\ task = Published(class)[1]
        /\ IsTask(task) /\ task \in ToSet(class.tasks)
    BY NewestPublished
  <2>2. 1 \in DOMAIN Published(class) BY <2>1, ClassFacts
  <2>. QED BY <2>1, <2>2
<1>2. analytics = Analytics(A, X) BY DEF PracticalAnalytics
<1>3. {a.student : a \in X} = U \cap A BY DEF Submitters
<1>4. page.summary = Summarized(A, U) /\ page.outstanding = A \ U BY DEF ClassroomPage
<1>5. Card(class, "TEACHER").latest = page.summary BY <1>4 DEF Card
<1>6. /\ page.summary.submitted = Cardinality(U \cap A)
      /\ page.summary.pending = Cardinality(A) - Cardinality(U \cap A)
      /\ page.summary.completion = Percent(Cardinality(U \cap A), Cardinality(A))
  BY <1>4 DEF Summarized
<1>7. \A s \in A : s \in U <=> Of(s, X) # {} BY DEF Submitters, Of
<1>8. \A s \in A : s \in U <=> Of(s, task.attempts) # {} BY DEF Submitters, Of
<1>9. page.outstanding = {s \in DOMAIN progress : progress[s].latest = None}
  <2>1. DOMAIN progress = A BY DEF ClassroomProgress
  <2>2. ASSUME NEW s \in A PROVE progress[s].latest = None <=> s \notin U
    <3>1. progress[s].latest = IF Of(s, task.attempts) = {} THEN None
                               ELSE Highest(Of(s, task.attempts))
      BY <1>1 DEF ClassroomProgress
    <3>2. Of(s, task.attempts) # {} => Highest(Of(s, task.attempts)) # None
      <4>1. Of(s, task.attempts) \subseteq task.attempts BY DEF Of
      <4>2. IsFiniteSet(Of(s, task.attempts)) BY <1>1, <4>1, FS_Subset DEF IsTask
      <4>3. \A a \in task.attempts : a # None /\ a.number \in Nat BY <1>1 DEF IsTask
      <4>4. Of(s, task.attempts) # {} => Highest(Of(s, task.attempts)) \in Of(s, task.attempts)
        BY <4>1, <4>2, <4>3, SomeHighest
      <4>. QED BY <4>1, <4>3, <4>4
    <3>. QED BY <1>8, <3>1, <3>2
  <2>. HIDE DEF progress, page, A, U
  <2>3. page.outstanding = A \ U BY <1>4 DEF page, A, U
  <2>. QED BY <2>1, <2>2, <2>3
<1>18. /\ analytics.submitted = Cardinality({a.student : a \in X})
       /\ analytics.pending = Cardinality(A) - Cardinality({a.student : a \in X})
       /\ analytics.attention =
            [s \in {x \in A : ReasonsOf(A, X, x) # {}} |-> ReasonsOf(A, X, s)]
  <2>. HIDE DEF analytics, X, A
  <2>. QED BY <1>2, AnalyticsFacts
<1>10. page.outstanding = {s \in DOMAIN analytics.attention :
                             "NO_SUBMISSION" \in analytics.attention[s]}
  <2>1. analytics.attention = [s \in {x \in A : ReasonsOf(A, X, x) # {}} |-> ReasonsOf(A, X, s)]
    BY <1>18
  <2>2. \A s \in A : "NO_SUBMISSION" \in ReasonsOf(A, X, s) <=> s \notin U BY <1>7, NoSubmission
  <2>3. page.outstanding = A \ U BY <1>4
  <2>. HIDE DEF analytics, page, A, U, X
  <2>4. DOMAIN analytics.attention = {x \in A : ReasonsOf(A, X, x) # {}} BY <2>1
  <2>5. \A s \in DOMAIN analytics.attention : analytics.attention[s] = ReasonsOf(A, X, s)
    BY <2>1, <2>4
  <2>6. \A s \in A : s \notin U => s \in DOMAIN analytics.attention BY <2>2, <2>4
  <2>. QED BY <2>2, <2>3, <2>4, <2>5, <2>6
<1>11. analytics.submitted = page.summary.submitted /\ analytics.pending = page.summary.pending
  BY <1>3, <1>6, <1>18
<1>12. /\ missing = {} <=> page.outstanding = {}
       /\ \A i \in missing : rows[i].count = Cardinality(page.outstanding)
  <2>1. /\ missing = {} <=> A \ U = {}
        /\ \A i \in missing : rows[i].count = Cardinality(A \ U)
    BY MissingRow
  <2>2. page.outstanding = A \ U BY <1>4
  <2>. HIDE DEF missing, page, A, U, rows
  <2>. QED BY <2>1, <2>2
<1>. DEFINE members == {s \in DOMAIN class.members : class.members[s] # "none"}
            all == {b \in UNION {t.attempts : t \in ToSet(class.tasks)} : b.student \in members}
            Y == {a \in all : a.task = task.id}
<1>13. Management(class).analytics = Analytics(A, Y) BY DEF Management
<1>14. Y = {a \in task.attempts : a.student \in members} BY <1>1, AttemptsOfTask
<1>15. A \subseteq members BY DEF Active
<1>16. Management(class).analytics.attention = analytics.attention
  <2>1. \A s \in A : Of(s, Y) = Of(s, X) BY <1>14, <1>15 DEF Of
  <2>. HIDE DEF X, Y, A
  <2>. QED BY <1>2, <1>13, <2>1, SameReasons
<1>17. ASSUME Stayed(class)
       PROVE  /\ Management(class).analytics = analytics
              /\ ClassroomRow(class).outstanding = page.summary.pending
              /\ ClassroomRow(class).completion = page.summary.completion
  <2>1. U \subseteq A BY <1>1, <1>17 DEF Stayed
  <2>2. X = Y BY <1>14, <1>15, <2>1 DEF Submitters
  <2>3. U \cap A = U BY <2>1
  <2>4. /\ ClassroomRow(class).outstanding = Cardinality(A) - Cardinality(U)
        /\ ClassroomRow(class).completion = Percent(Cardinality(U), Cardinality(A))
    BY DEF ClassroomRow, PracticalRow
  <2>5. Management(class).analytics = analytics BY <1>2, <1>13, <2>2
  <2>. QED BY <1>6, <2>3, <2>4, <2>5
<1>. HIDE DEF page, progress, analytics, rows
<1>. QED
  BY <1>5, <1>9, <1>10, <1>11, <1>12, <1>16, <1>17
     DEF ClassToldAlike, page, progress, analytics, rows

-----------------------------------------------------------------------------
(* Schools, and the queue of reviews.                                       *)

LEMMA ArrangedFacts ==
  ASSUME NEW S, NEW R, IsFiniteSet(S), IsOrder(S, R)
  PROVE  \E m : ArrangedBy(S, R, Arranged(S, R), m)
<1>. DEFINE m == Cardinality(S)
            below(x) == Below(S, R, x)
            rank(x) == Cardinality(below(x))
            list == Arranged(S, R)
            r == [x \in S |-> rank(x)]
<1>1. m \in Nat BY FS_CardinalityType
<1>2. ASSUME NEW x \in S PROVE IsFiniteSet(below(x)) /\ rank(x) \in 1 .. m
  <2>1. below(x) \in SUBSET S /\ x \in below(x) /\ {x} \in SUBSET below(x) BY DEF Below
  <2>2. IsFiniteSet(below(x)) /\ rank(x) <= m /\ rank(x) \in Nat
    BY <2>1, FS_Subset, FS_CardinalityType
  <2>3. Cardinality({x}) <= rank(x) /\ Cardinality({x}) = 1 BY <2>1, <2>2, FS_Subset, FS_Singleton
  <2>. QED BY <1>1, <2>2, <2>3
<1>3. ASSUME NEW x \in S, NEW y \in S, <<x, y>> \in R PROVE rank(x) < rank(y)
  <2>1. below(x) \in SUBSET below(y) /\ y \in below(y) /\ y \notin below(x)
    <3>1. \A z \in S : <<z, x>> \in R => <<z, y>> \in R BY <1>3 DEF IsOrder
    <3>2. <<y, x>> \notin R /\ x # y BY <1>3 DEF IsOrder
    <3>. QED BY <1>3, <3>1, <3>2 DEF Below
  <2>2. rank(x) <= rank(y) /\ rank(x) # rank(y) BY <1>2, <2>1, FS_Subset
  <2>3. rank(x) \in Nat /\ rank(y) \in Nat BY <1>1, <1>2
  <2>. HIDE DEF rank
  <2>. QED BY <2>2, <2>3
<1>. HIDE DEF rank
<1>4. \A x, y \in S : rank(x) = rank(y) => x = y
  <2>1. ASSUME NEW x \in S, NEW y \in S, rank(x) = rank(y) PROVE x = y
    <3>1. rank(x) \in Nat BY <1>1, <1>2
    <3>2. x = y \/ <<x, y>> \in R \/ <<y, x>> \in R BY DEF IsOrder
    <3>. QED BY <1>3, <2>1, <3>1, <3>2
  <2>. QED BY <2>1
<1>5. r \in [S -> 1 .. m] /\ \A x \in S : r[x] = rank(x) BY <1>2
<1>6. IsFiniteSet(1 .. m) /\ Cardinality(1 .. m) = m BY <1>1, FS_Interval
<1>. HIDE DEF r
<1>7. r \in Injection(S, 1 .. m) BY <1>4, <1>5 DEF Injection, IsInjective
<1>8. r \in Surjection(S, 1 .. m) BY <1>6, <1>7, FS_Injection
<1>9. list = [n \in 1 .. m |-> CHOOSE x \in S : rank(x) = n] BY DEF Arranged, rank, Below
<1>10. ASSUME NEW n \in 1 .. m PROVE list[n] \in S /\ rank(list[n]) = n
  <2>1. \E x \in S : rank(x) = n BY <1>5, <1>8 DEF Surjection
  <2>. HIDE DEF list
  <2>2. list[n] = CHOOSE x \in S : rank(x) = n BY <1>9
  <2>. QED BY <2>1, <2>2
<1>. HIDE DEF list
<1>11. DOMAIN list = 1 .. m /\ list = [n \in 1 .. m |-> list[n]] BY <1>9
<1>12. list \in [1 .. m -> S] BY <1>10, <1>11
<1>13. \A x \in S : \E n \in 1 .. m : list[n] = x
  <2>1. ASSUME NEW x \in S PROVE rank(x) \in 1 .. m /\ list[rank(x)] = x BY <1>2, <1>4, <1>10
  <2>. QED BY <2>1
<1>14. ToSet(list) = S BY <1>11, <1>12, <1>13 DEF ToSet
<1>15. Len(list) = m /\ list \in Seq(S)
  <2>1. list \in Seq({list[n] : n \in 1 .. m}) /\ Len(list) = m BY <1>1, <1>11, IsSequence
  <2>2. {list[n] : n \in 1 .. m} = S BY <1>11, <1>14 DEF ToSet
  <2>. QED BY <2>1, <2>2
<1>16. IsInjective(list)
  <2>1. \A i, j \in 1 .. m : list[i] = list[j] => i = j BY <1>10
  <2>. QED BY <1>11, <2>1 DEF IsInjective
<1>17. ASSUME NEW i \in 1 .. m, NEW j \in 1 .. m, i < j PROVE <<list[i], list[j]>> \in R
  <2>1. /\ list[i] \in S /\ list[j] \in S
        /\ rank(list[i]) = i /\ rank(list[j]) = j /\ i \in Nat /\ j \in Nat
    BY <1>1, <1>10
  <2>2. list[i] # list[j] BY <1>17, <2>1
  <2>3. <<list[i], list[j]>> \in R \/ <<list[j], list[i]>> \in R BY <2>1, <2>2 DEF IsOrder
  <2>4. <<list[j], list[i]>> \in R => j < i BY <1>3, <2>1
  <2>. QED BY <1>17, <2>1, <2>3, <2>4
<1>18. list = <<>> <=> S = {}
  <2>1. m = 0 <=> S = {} BY FS_EmptySet
  <2>2. list = <<>> => m = 0 BY <1>15
  <2>3. m = 0 => list = <<>> BY <1>1, <1>15
  <2>. QED BY <2>1, <2>2, <2>3
<1>19. ArrangedBy(S, R, list, m)
  BY <1>1, <1>12, <1>11, <1>14, <1>15, <1>16, <1>17, <1>18 DEF ArrangedBy
<1>. QED BY <1>19 DEF list

\* Submissions at different times are listed once each, and the later before the earlier.
LEMMA NewestFacts ==
  ASSUME NEW S, IsFiniteSet(S), \A a \in S : a.at \in Int,
         \A a, b \in S : a.at = b.at => a = b
  PROVE  LET list == NewestFirst(S) IN
         /\ list \in Seq(S) /\ ToSet(list) = S /\ IsInjective(list)
         /\ Len(list) = Cardinality(S) /\ Len(list) \in Nat /\ DOMAIN list = 1 .. Len(list)
         /\ \A i, j \in DOMAIN list : i < j => list[i].at > list[j].at
         /\ list = <<>> <=> S = {}
<1>. DEFINE R == {pair \in S \X S : pair[1].at > pair[2].at}
            list == NewestFirst(S)
<1>1. \A a, b \in S : <<a, b>> \in R <=> a.at > b.at OBVIOUS
<1>. HIDE DEF R
<1>2. IsOrder(S, R)
  <2>1. \A x \in S : <<x, x>> \notin R BY <1>1
  <2>2. \A x, y \in S : x # y => <<x, y>> \in R \/ <<y, x>> \in R BY <1>1
  <2>3. \A x, y, z \in S : <<x, y>> \in R /\ <<y, z>> \in R => <<x, z>> \in R
    <3>. SUFFICES ASSUME NEW x \in S, NEW y \in S, NEW z \in S, x.at > y.at, y.at > z.at
                  PROVE  x.at > z.at
      BY <1>1
    <3>. QED OBVIOUS
  <2>. QED BY <2>1, <2>2, <2>3 DEF IsOrder
<1>3. PICK m : ArrangedBy(S, R, list, m)
  <2>1. list = Arranged(S, R) BY DEF NewestFirst, R
  <2>. QED BY <1>2, <2>1, ArrangedFacts
<1>. HIDE DEF list
<1>4. \A i, j \in 1 .. m : i < j => list[i].at > list[j].at BY <1>1, <1>3 DEF ArrangedBy
<1>. QED BY <1>3, <1>4 DEF ArrangedBy, list

LEMMA FiniteImage ==
  ASSUME NEW n \in Nat, NEW f, DOMAIN f = 1 .. n
  PROVE  IsFiniteSet({f[i] : i \in 1 .. n})
<1>1. IsFiniteSet(1 .. n) BY FS_Interval
<1>. DEFINE g == [i \in 1 .. n |-> f[i]]
            S == {f[i] : i \in 1 .. n}
<1>2. g \in Surjection(1 .. n, S) BY DEF Surjection
<1>. QED BY <1>1, <1>2, FS_Surjection

LEMMA FiniteTasks ==
  ASSUME NEW class, IsClass(class)
  PROVE  /\ IsFiniteSet(ToSet(class.tasks)) /\ Len(class.tasks) \in Nat
         /\ DOMAIN class.tasks = 1 .. Len(class.tasks)
<1>1. Len(class.tasks) \in Nat /\ DOMAIN class.tasks = 1 .. Len(class.tasks) BY DEF IsClass
<1>2. IsFiniteSet({class.tasks[i] : i \in 1 .. Len(class.tasks)}) BY <1>1, FiniteImage
<1>. QED BY <1>1, <1>2 DEF ToSet

LEMMA SchoolFacts ==
  ASSUME NEW classes, IsSchool(classes)
  PROVE  /\ Len(classes) \in Nat /\ DOMAIN classes = 1 .. Len(classes)
         /\ IsFiniteSet(AllTasks(classes)) /\ IsFiniteSet(AllAttempts(classes))
<1>. DEFINE n == Len(classes)
            tasks(i) == ToSet(classes[i].tasks)
            f == [i \in 1 .. n |-> tasks(i)]
<1>1. n \in Nat /\ DOMAIN classes = 1 .. n BY DEF IsSchool
<1>2. \A i \in 1 .. n : IsFiniteSet(tasks(i)) /\ \A task \in tasks(i) : IsTask(task)
  BY <1>1, FiniteTasks, ClassFacts DEF IsSchool
<1>3. IsFiniteSet({f[i] : i \in 1 .. n}) BY <1>1, FiniteImage
<1>4. \A T \in {f[i] : i \in 1 .. n} : IsFiniteSet(T) BY <1>2
<1>5. AllTasks(classes) = UNION {f[i] : i \in 1 .. n} BY <1>1 DEF AllTasks
<1>6. IsFiniteSet(AllTasks(classes)) BY <1>3, <1>4, <1>5, FS_UNION
<1>7. \A task \in AllTasks(classes) : IsFiniteSet(task.attempts) BY <1>1, <1>2 DEF AllTasks, IsTask
<1>8. IsFiniteSet({task.attempts : task \in AllTasks(classes)})
  <2>. DEFINE T == AllTasks(classes)
              U == {task.attempts : task \in T}
              g == [task \in T |-> task.attempts]
  <2>1. g \in Surjection(T, U) BY DEF Surjection
  <2>. HIDE DEF g
  <2>. QED BY <1>6, <2>1, FS_Surjection
<1>9. IsFiniteSet(AllAttempts(classes))
  <2>1. \A T \in {task.attempts : task \in AllTasks(classes)} : IsFiniteSet(T) BY <1>7
  <2>. QED BY <1>8, <2>1, FS_UNION DEF AllAttempts
<1>. QED BY <1>1, <1>6, <1>9

LEMMA FirstNumbers ==
  ASSUME NEW n \in Nat
  PROVE  IsFiniteSet(1 .. n) /\ Cardinality(1 .. n) = n
BY FS_Interval

LEMMA StatusOf ==
  ASSUME NEW a
  PROVE  QueueStatus(a) \in {"NEEDS_REVIEW", "DRAFT_SAVED", "PUBLISHED_FEEDBACK"}
<1>1. CASE a.review = "DRAFT" BY <1>1 DEF QueueStatus
<1>2. CASE a.review = "PUBLISHED" BY <1>2 DEF QueueStatus
<1>3. CASE a.review # "DRAFT" /\ a.review # "PUBLISHED" BY <1>3 DEF QueueStatus
<1>. QED BY <1>1, <1>2, <1>3

\* Each tab counts the submissions in its state of review.
LEMMA TabFacts ==
  ASSUME NEW rows, IsQueue(rows)
  PROVE  /\ Tabs(rows)["NEW"] = Cardinality(Waiting(rows, "NEEDS_REVIEW"))
         /\ Tabs(rows)["DRAFT"] = Cardinality(Waiting(rows, "DRAFT_SAVED"))
         /\ Tabs(rows)["PUBLISHED"] = Cardinality(Waiting(rows, "PUBLISHED_FEEDBACK"))
         /\ Tabs(rows)["ALL"] = Len(rows)
<1>1. ASSUME NEW status PROVE Len(Kept(rows, Waiting(rows, status))) = Cardinality(Waiting(rows, status))
  <2>1. Waiting(rows, status) \in SUBSET (1 .. Len(rows)) /\ Len(rows) \in Nat
    BY DEF Waiting, IsQueue
  <2>2. PICK m, g : KeptBy(rows, Waiting(rows, status), Kept(rows, Waiting(rows, status)), m, g)
    BY <2>1, KeptFacts
  <2>. QED BY <2>2 DEF KeptBy
<1>2. /\ Filtered(rows, "NEW") = Kept(rows, Waiting(rows, "NEEDS_REVIEW"))
      /\ Filtered(rows, "DRAFT") = Kept(rows, Waiting(rows, "DRAFT_SAVED"))
      /\ Filtered(rows, "PUBLISHED") = Kept(rows, Waiting(rows, "PUBLISHED_FEEDBACK"))
      /\ Filtered(rows, "ALL") = rows
  BY DEF Filtered, Waiting
<1>. QED BY <1>1, <1>2 DEF Tabs

\* Every submission is in one of the tabs.
LEMMA TabsPartition ==
  ASSUME NEW rows, IsQueue(rows)
  PROVE  LET Fresh == Waiting(rows, "NEEDS_REVIEW")
             Drafts == Waiting(rows, "DRAFT_SAVED")
             Settled == Waiting(rows, "PUBLISHED_FEEDBACK") IN
         /\ Cardinality(Fresh) + Cardinality(Drafts) + Cardinality(Settled) = Len(rows)
         /\ Cardinality({i \in DOMAIN rows : QueueStatus(rows[i]) # "PUBLISHED_FEEDBACK"})
              = Cardinality(Fresh) + Cardinality(Drafts)
         /\ Cardinality(Fresh) \in Nat /\ Cardinality(Drafts) \in Nat
<1>. DEFINE Fresh == Waiting(rows, "NEEDS_REVIEW")
            Drafts == Waiting(rows, "DRAFT_SAVED")
            Settled == Waiting(rows, "PUBLISHED_FEEDBACK")
            W == {i \in DOMAIN rows : QueueStatus(rows[i]) # "PUBLISHED_FEEDBACK"}
<1>1. DOMAIN rows = Fresh \cup Drafts \cup Settled /\ W = Fresh \cup Drafts
  <2>1. \A i : QueueStatus(rows[i]) \in {"NEEDS_REVIEW", "DRAFT_SAVED", "PUBLISHED_FEEDBACK"}
    BY StatusOf
  <2>. QED BY <2>1 DEF Waiting
<1>2. Fresh \cap Drafts = {} /\ (Fresh \cup Drafts) \cap Settled = {} BY DEF Waiting
<1>3. IsFiniteSet(DOMAIN rows) /\ Cardinality(DOMAIN rows) = Len(rows) BY FirstNumbers DEF IsQueue
<1>4. IsFiniteSet(Fresh) /\ IsFiniteSet(Drafts) /\ IsFiniteSet(Settled) BY <1>1, <1>3, FS_Subset
<1>5. /\ IsFiniteSet(Fresh \cup Drafts) /\ Cardinality(Fresh \cup Drafts) = Cardinality(Fresh) + Cardinality(Drafts)
      /\ Cardinality(Fresh) \in Nat /\ Cardinality(Drafts) \in Nat
  BY <1>2, <1>4, Apart
<1>6. Cardinality((Fresh \cup Drafts) \cup Settled) = Cardinality(Fresh \cup Drafts) + Cardinality(Settled)
  BY <1>2, <1>4, <1>5, Apart
<1>. HIDE DEF Fresh, Drafts, Settled, W
<1>. QED BY <1>1, <1>3, <1>5, <1>6 DEF Fresh, Drafts, Settled, W

\* The submission offered as the next review awaits one, as long as any does.
LEMMA NextAwaits ==
  ASSUME NEW rows, IsQueue(rows),
         Waiting(rows, "NEEDS_REVIEW") # {} \/ Waiting(rows, "DRAFT_SAVED") # {}
  PROVE  QueueStatus(NextReview(rows)) # "PUBLISHED_FEEDBACK"
<1>. DEFINE first(status) == Kept(rows, Waiting(rows, status))
<1>1. ASSUME NEW status
      PROVE  /\ first(status) = <<>> <=> Waiting(rows, status) = {}
             /\ Waiting(rows, status) # {} => QueueStatus(Head(first(status))) = status
  <2>1. Waiting(rows, status) \in SUBSET (1 .. Len(rows)) /\ Len(rows) \in Nat
    BY DEF Waiting, IsQueue
  <2>2. PICK m, g : KeptBy(rows, Waiting(rows, status), first(status), m, g) BY <2>1, KeptFacts
  <2>. HIDE DEF first
  <2>3. Waiting(rows, status) # {} => 1 \in 1 .. m /\ Head(first(status)) = rows[g[1]]
    BY <2>2 DEF KeptBy
  <2>4. Waiting(rows, status) # {} => g[1] \in Waiting(rows, status) BY <2>2, <2>3 DEF KeptBy
  <2>5. first(status) = <<>> <=> Waiting(rows, status) = {} BY <2>2 DEF KeptBy
  <2>6. \A i \in Waiting(rows, status) : QueueStatus(rows[i]) = status BY DEF Waiting
  <2>. QED BY <2>3, <2>4, <2>5, <2>6
<1>2. NextReview(rows) = IF first("NEEDS_REVIEW") # <<>> THEN Head(first("NEEDS_REVIEW"))
                         ELSE IF first("DRAFT_SAVED") # <<>> THEN Head(first("DRAFT_SAVED"))
                         ELSE IF rows # <<>> THEN Head(rows) ELSE None
  BY DEF NextReview, Waiting
<1>. HIDE DEF first
<1>3. CASE first("NEEDS_REVIEW") # <<>> BY <1>1, <1>2, <1>3
<1>4. CASE first("NEEDS_REVIEW") = <<>> BY <1>1, <1>2, <1>4
<1>. QED BY <1>3, <1>4

\* The rows of the dashboard open tabs with as many submissions as they say.
LEMMA RowsOpenTabs ==
  ASSUME NEW overview, IsQueue(overview.submissions)
  PROVE  LET rows == ReviewRows(overview) IN
         \A i \in DOMAIN rows : rows[i].count = Tabs(overview.submissions)[QueueFilter(rows[i].filter)]
<1>. DEFINE list == overview.submissions
            n == Cardinality(Waiting(list, "NEEDS_REVIEW"))
            d == Cardinality(Waiting(list, "DRAFT_SAVED"))
            x == [count |-> n, filter |-> "NEW"]
            y == [count |-> d, filter |-> "DRAFT"]
            p == IF n > 0 THEN <<x>> ELSE <<>>
            q == IF d > 0 THEN <<y>> ELSE <<>>
            rows == ReviewRows(overview)
<1>1. rows = p \o q BY DEF ReviewRows, Waiting
<1>2. OneOrNone(p, x) /\ OneOrNone(q, y) /\ OneOrNone(<<>>, y) BY DEF OneOrNone
<1>3. QueueFilter("NEW") = "NEW" /\ QueueFilter("DRAFT") = "DRAFT" BY DEF QueueFilter
<1>4. Tabs(list)["NEW"] = n /\ Tabs(list)["DRAFT"] = d BY TabFacts
<1>5. x.count = n /\ x.filter = "NEW" /\ y.count = d /\ y.filter = "DRAFT" OBVIOUS
<1>. HIDE DEF x, y, p, q, rows, n, d
<1>6. \A i \in DOMAIN rows : rows[i] = x \/ rows[i] = y
  <2>1. p \o q \o <<>> = p \o q BY <1>2 DEF OneOrNone
  <2>. QED BY <1>1, <1>2, <2>1, ThreeRows
<1>. QED BY <1>3, <1>4, <1>5, <1>6 DEF rows

LEMMA TwoJoined ==
  ASSUME NEW S, NEW p \in Seq(S), NEW q \in Seq(S), Len(p) = 1, Len(q) = 1
  PROVE  /\ Len(p \o q) = 2 /\ DOMAIN (p \o q) = 1 .. 2
         /\ (p \o q)[1] = p[1] /\ (p \o q)[2] = q[1]
<1>1. p \o q \in Seq(S) /\ Len(p \o q) = 2 OBVIOUS
<1>2. (p \o q)[1] = p[1] /\ (p \o q)[2] = q[1] OBVIOUS
<1>3. DOMAIN (p \o q) = 1 .. Len(p \o q) BY <1>1
<1>. QED BY <1>1, <1>2, <1>3

\* The sidebar of a review shows that submission and no other twice.
LEMMA SidebarFacts ==
  ASSUME NEW S, NEW rows \in Seq(S), IsInjective(rows), NEW a \in ToSet(rows)
  PROVE  LET sidebar == Sidebar(rows, a, 2) IN
         a \in ToSet(sidebar) /\ Len(sidebar) <= 2 /\ IsInjective(sidebar)
<1>. DEFINE n == Len(rows)
            k == IF n < 2 THEN n ELSE 2
            recent == SubSeq(rows, 1, k)
            J == {i \in DOMAIN rows : rows[i] = a}
            row == Kept(rows, J)
            l == IF Len(recent) < 2 - 1 THEN Len(recent) ELSE 2 - 1
            sidebar == Sidebar(rows, a, 2)
<1>1. n \in Nat /\ DOMAIN rows = 1 .. n /\ \A i \in 1 .. n : rows[i] \in S OBVIOUS
<1>2. PICK j \in 1 .. n : rows[j] = a BY <1>1 DEF ToSet
<1>3. J = {j} BY <1>1, <1>2 DEF IsInjective
<1>4. Len(row) = 1 /\ row[1] = a /\ row \in Seq(S) /\ row # <<>>
  <2>1. J \in SUBSET (1 .. n) BY <1>1
  <2>2. PICK m, g : KeptBy(rows, J, row, m, g) BY <1>1, <2>1, KeptFacts
  <2>3. Cardinality(J) = 1 BY <1>3, FS_Singleton
  <2>. HIDE DEF J, row, n
  <2>4. m = 1 /\ g[1] \in J /\ Len(row) = 1 /\ row[1] = rows[g[1]] /\ row = [i \in 1 .. 1 |-> rows[g[i]]]
    BY <2>2, <2>3 DEF KeptBy
  <2>5. row[1] = a /\ a \in S BY <1>1, <1>2, <1>3, <2>4
  <2>6. row = <<a>> BY <2>4, <2>5
  <2>7. <<a>> # <<>> OBVIOUS
  <2>8. <<a>> \in Seq(S) BY <2>5
  <2>. QED BY <2>4, <2>5, <2>6, <2>7, <2>8
<1>5. k \in 1 .. n /\ k <= 2 BY <1>1, <1>2
<1>6. /\ recent \in Seq(S) /\ Len(recent) = k /\ DOMAIN recent = 1 .. k
      /\ \A i \in 1 .. k : recent[i] = rows[i]
  <2>. HIDE DEF k
  <2>. QED BY <1>1, <1>5
<1>7. sidebar = IF a \in ToSet(recent) \/ row = <<>> THEN recent ELSE row \o SubSeq(recent, 1, l)
  BY DEF Sidebar
<1>. HIDE DEF sidebar, k, recent, row, n
<1>8. row # <<>> BY <1>4
<1>9. l = 1 BY <1>5, <1>6
<1>10. CASE a \in ToSet(recent)
  <2>1. sidebar = recent BY <1>7, <1>10
  <2>2. IsInjective(recent) BY <1>1, <1>5, <1>6 DEF IsInjective
  <2>. QED BY <1>5, <1>6, <1>10, <2>1, <2>2 DEF sidebar
<1>11. CASE a \notin ToSet(recent)
  <2>. DEFINE tail == SubSeq(recent, 1, 1)
  <2>1. tail \in Seq(S) /\ Len(tail) = 1 /\ tail[1] = recent[1] BY <1>5, <1>6
  <2>2. sidebar = row \o tail BY <1>7, <1>8, <1>9, <1>11
  <2>. HIDE DEF tail
  <2>3. Len(sidebar) = 2 /\ DOMAIN sidebar = 1 .. 2 /\ sidebar[1] = a /\ sidebar[2] = recent[1]
    BY <1>4, <2>1, <2>2, TwoJoined
  <2>4. recent[1] \in ToSet(recent) BY <1>5, <1>6 DEF ToSet
  <2>5. sidebar[1] # sidebar[2] BY <1>11, <2>3, <2>4
  <2>6. \A i \in 1 .. 2 : i = 1 \/ i = 2 OBVIOUS
  <2>7. IsInjective(sidebar) BY <2>3, <2>5, <2>6 DEF IsInjective
  <2>8. a \in ToSet(sidebar) BY <2>3 DEF ToSet
  <2>. QED BY <2>3, <2>7, <2>8 DEF sidebar
<1>. QED BY <1>10, <1>11

\* A submission matches one of the filters of results.
LEMMA OneResult ==
  ASSUME NEW a
  PROVE  Cardinality({r \in {"PASSED", "INCOMPLETE", "ERROR"} : ResultMatches(a, r)}) = 1
<1>. DEFINE S == {r \in {"PASSED", "INCOMPLETE", "ERROR"} : ResultMatches(a, r)}
            M == IF PassedAll(a) THEN "PASSED" ELSE IF a.state = "completed" THEN "INCOMPLETE" ELSE "ERROR"
<1>1. /\ ResultMatches(a, "PASSED") <=> PassedAll(a)
      /\ ResultMatches(a, "ERROR") <=> a.state # "completed"
      /\ ResultMatches(a, "INCOMPLETE") <=> a.state = "completed" /\ ~PassedAll(a)
  BY DEF ResultMatches
<1>2. PassedAll(a) => a.state = "completed" BY DEF PassedAll
<1>3. S = {M} BY <1>1, <1>2
<1>. QED BY <1>3, FS_Singleton

\* The review queue, its tabs, its sidebar and the dashboard tell alike of the submissions
\* of a teacher's classrooms: each is in one tab, the dashboard's rows open tabs with as
\* many as they say, and what is offered next awaits a review as long as anything does
\* (review-queue.ts, dashboard-view-model.ts, app/submissions).
THEOREM QueueAlwaysToldAlike ==
  ASSUME NEW classes, IsSchool(classes)
  PROVE  QueueToldAlike(classes)
<1>. DEFINE overview == TeacherOverview(classes)
            S == AllAttempts(classes)
            rows == overview.submissions
<1>1. rows = NewestFirst(S) BY DEF TeacherOverview, AllAttempts, AllTasks
<1>2. /\ rows \in Seq(S) /\ ToSet(rows) = S /\ IsInjective(rows)
      /\ Len(rows) \in Nat /\ DOMAIN rows = 1 .. Len(rows)
  <2>1. IsFiniteSet(S) BY SchoolFacts
  <2>2. (\A a \in S : a.at \in Int) /\ (\A a, b \in S : a.at = b.at => a = b) BY DEF IsSchool
  <2>. HIDE DEF S, rows
  <2>. QED BY <1>1, <2>1, <2>2, NewestFacts
<1>3. overview.needsReview =
        Cardinality({i \in DOMAIN rows : QueueStatus(rows[i]) # "PUBLISHED_FEEDBACK"})
  BY DEF TeacherOverview
<1>. HIDE DEF S, overview
<1>4. IsQueue(rows) BY <1>2 DEF IsQueue
<1>5. /\ Tabs(rows)["NEW"] + Tabs(rows)["DRAFT"] + Tabs(rows)["PUBLISHED"] = Tabs(rows)["ALL"]
      /\ overview.needsReview = Tabs(rows)["NEW"] + Tabs(rows)["DRAFT"]
  BY <1>3, <1>4, TabFacts, TabsPartition
<1>6. overview.needsReview > 0 => QueueStatus(NextReview(rows)) # "PUBLISHED_FEEDBACK"
  <2>1. ASSUME Waiting(rows, "NEEDS_REVIEW") = {}, Waiting(rows, "DRAFT_SAVED") = {}
        PROVE  ~(overview.needsReview > 0)
    <3>1. Cardinality({}) = 0 BY FS_EmptySet
    <3>2. Tabs(rows)["NEW"] = 0 /\ Tabs(rows)["DRAFT"] = 0 BY <1>4, <2>1, <3>1, TabFacts
    <3>. QED BY <1>5, <3>2
  <2>. QED BY <1>4, <2>1, NextAwaits
<1>7. LET shown == ReviewRows(overview) IN
      \A i \in DOMAIN shown : shown[i].count = Tabs(rows)[QueueFilter(shown[i].filter)]
  BY <1>4, RowsOpenTabs
<1>8. \A a \in ToSet(rows) :
        LET sidebar == Sidebar(rows, a, 2) IN
        /\ a \in ToSet(sidebar) /\ Len(sidebar) <= 2 /\ IsInjective(sidebar)
        /\ Cardinality({r \in {"PASSED", "INCOMPLETE", "ERROR"} : ResultMatches(a, r)}) = 1
  BY <1>2, SidebarFacts, OneResult
<1>. QED BY <1>5, <1>6, <1>7, <1>8, Zenon DEF QueueToldAlike, overview

-----------------------------------------------------------------------------
(* The progress of a class.                                                 *)

\* A finite set has an order.
LEMMA SomeOrder ==
  ASSUME NEW S, IsFiniteSet(S)
  PROVE  /\ SetToSeq(S) \in [1 .. Cardinality(S) -> S] /\ Cardinality(S) \in Nat
         /\ Len(SetToSeq(S)) = Cardinality(S)
         /\ DOMAIN SetToSeq(S) = 1 .. Cardinality(S)
<1>. DEFINE m == Cardinality(S)
<1>1. m \in Nat BY FS_CardinalityType
<1>2. ExistsBijection(1 .. m, S) BY FS_CardinalityType
<1>. HIDE DEF m
<1>3. PICK f \in Bijection(1 .. m, S) : TRUE BY <1>2 DEF ExistsBijection
<1>4. f \in [1 .. m -> S] /\ IsInjective(f) BY <1>3 DEF Bijection, Injection, IsInjective
<1>5. SetToSeq(S) \in [1 .. m -> S] BY <1>4, Zenon DEF SetToSeq, m
<1>6. DOMAIN SetToSeq(S) = 1 .. m /\ SetToSeq(S) = [i \in 1 .. m |-> SetToSeq(S)[i]] BY <1>5
<1>7. Len(SetToSeq(S)) = m BY <1>1, <1>6, IsSequence
<1>. QED BY <1>1, <1>5, <1>6, <1>7 DEF m

\* The sum of differences is the difference of the sums.
LEMMA SumsDiffer ==
  ASSUME NEW S, IsFiniteSet(S), NEW f, NEW g, NEW h,
         \A s \in S : /\ f[s] \in Nat /\ g[s] \in Nat /\ g[s] <= f[s]
                      /\ h[s] = f[s] - g[s]
  PROVE  /\ Sum(f, S) \in Nat /\ Sum(g, S) \in Nat /\ Sum(g, S) <= Sum(f, S)
         /\ Sum(h, S) = Sum(f, S) - Sum(g, S)
<1>. DEFINE n == Cardinality(S)
            order == SetToSeq(S)
            Fs == [i \in 1 .. n |-> f[order[i]]]
            Gs == [i \in 1 .. n |-> g[order[i]]]
            Hs == [i \in 1 .. n |-> h[order[i]]]
            tf == Totals(Fs, n)
            tg == Totals(Gs, n)
            th == Totals(Hs, n)
<1>1. n \in Nat /\ Len(order) = n /\ DOMAIN order = 1 .. n /\ \A i \in 1 .. n : order[i] \in S
  BY SomeOrder
<1>2. \A i \in 1 .. n : /\ Fs[i] \in Nat /\ Gs[i] \in Nat /\ Hs[i] \in Nat
                        /\ Gs[i] <= Fs[i] /\ Hs[i] = Fs[i] - Gs[i]
  <2>. SUFFICES ASSUME NEW i \in 1 .. n
                PROVE  /\ Fs[i] \in Nat /\ Gs[i] \in Nat /\ Hs[i] \in Nat
                       /\ Gs[i] <= Fs[i] /\ Hs[i] = Fs[i] - Gs[i]
    OBVIOUS
  <2>1. order[i] \in S /\ Fs[i] = f[order[i]] /\ Gs[i] = g[order[i]] /\ Hs[i] = h[order[i]] BY <1>1
  <2>. HIDE DEF order, Fs, Gs, Hs
  <2>. QED BY <2>1
<1>3. Sum(f, S) = tf[n] /\ Sum(g, S) = tg[n] /\ Sum(h, S) = th[n]
  <2>. HIDE DEF n
  <2>. QED BY <1>1 DEF Sum
<1>. HIDE DEF n, order, Fs, Gs, Hs
<1>4. /\ tf[0] = 0 /\ tg[0] = 0 /\ th[0] = 0
      /\ \A i \in 1 .. n : tf[i] = tf[i - 1] + Fs[i] /\ tg[i] = tg[i - 1] + Gs[i]
                           /\ th[i] = th[i - 1] + Hs[i]
      /\ \A i \in 0 .. n : tf[i] \in Nat /\ tg[i] \in Nat /\ th[i] \in Nat
  BY <1>1, <1>2, TotalsFacts
<1>. DEFINE P == {i \in 0 .. n : tg[i] <= tf[i] /\ th[i] = tf[i] - tg[i]}
<1>. HIDE DEF tf, tg, th
<1>5. 0 \in P BY <1>1, <1>4
<1>6. ASSUME NEW i \in 1 .. n, i - 1 \in P PROVE i \in P
  <2>1. i \in 0 .. n /\ i - 1 \in 0 .. n BY <1>1
  <2>2. tg[i - 1] <= tf[i - 1] /\ th[i - 1] = tf[i - 1] - tg[i - 1] BY <1>6
  <2>3. /\ tf[i] = tf[i - 1] + Fs[i] /\ tg[i] = tg[i - 1] + Gs[i] /\ th[i] = th[i - 1] + Hs[i]
        /\ tf[i - 1] \in Nat /\ tg[i - 1] \in Nat
    BY <1>4, <2>1
  <2>4. Fs[i] \in Nat /\ Gs[i] \in Nat /\ Gs[i] <= Fs[i] /\ Hs[i] = Fs[i] - Gs[i] BY <1>2
  <2>5. tg[i] <= tf[i] /\ th[i] = tf[i] - tg[i] BY <2>2, <2>3, <2>4
  <2>. QED BY <2>1, <2>5
<1>. HIDE DEF P
<1>7. n \in P
  <2>1. \A i \in 0 .. n : i \in P BY <1>1, <1>5, <1>6, StepByStep
  <2>. QED BY <1>1, <2>1
<1>8. tg[n] <= tf[n] /\ th[n] = tf[n] - tg[n] BY <1>7 DEF P
<1>9. tf[n] \in Nat /\ tg[n] \in Nat BY <1>1, <1>4
<1>. QED BY <1>3, <1>8, <1>9

LEMMA ProgressFacts ==
  ASSUME NEW overview, NEW c, c # None
  PROVE  /\ TeacherProgress(overview, c).practicals
              = {ProgressRow(overview, c, p) : p \in RowsIn(overview, c)}
         /\ LET completed == Sum(DoneIn(overview, c), ScopeOf(overview, c))
                total == Sum(DueIn(overview, c), ScopeOf(overview, c)) IN
            TeacherProgress(overview, c).incomplete
              = IF total > completed THEN total - completed ELSE 0
<1>1. TeacherProgress(overview, c).practicals
        = {ProgressRow(overview, c, p) : p \in RowsIn(overview, c)}
  BY DEF TeacherProgress, ProgressRow, RowsIn, LatestIn
<1>. DEFINE completed == IF c = None THEN overview.done
                         ELSE Sum(DoneIn(overview, c), ScopeOf(overview, c))
            total == IF c = None THEN overview.due
                     ELSE Sum(DueIn(overview, c), ScopeOf(overview, c))
<1>2. TeacherProgress(overview, c).incomplete
        = IF total > completed THEN total - completed ELSE 0
  BY DEF TeacherProgress, RowsIn, LatestIn, ScopeOf, DoneIn, DueIn
<1>3. /\ completed = Sum(DoneIn(overview, c), ScopeOf(overview, c))
      /\ total = Sum(DueIn(overview, c), ScopeOf(overview, c))
  OBVIOUS
<1>. HIDE DEF completed, total
<1>. QED BY <1>1, <1>2, <1>3

\* The attempts of a student at a task: the latest is one of them.
LEMMA HighestFacts ==
  ASSUME NEW task, IsTask(task), NEW s \in Submitters(task)
  PROVE  LET a == Highest(Of(s, task.attempts)) IN
         /\ a \in task.attempts /\ a.student = s /\ a # None /\ a.task = task.id
         /\ \A b \in task.attempts : b.student = s => b.number <= a.number
<1>. DEFINE S == Of(s, task.attempts)
<1>1. S \subseteq task.attempts /\ S # {} /\ \A b \in S : b.student = s BY DEF Of, Submitters
<1>2. IsFiniteSet(S) /\ \A b \in S : b.number \in Nat BY <1>1, FS_Subset DEF IsTask
<1>3. \A b \in task.attempts : b.student = s => b \in S BY DEF Of
<1>. HIDE DEF S
<1>4. Highest(S) \in S /\ \A b \in S : b.number <= Highest(S).number BY <1>1, <1>2, SomeHighest
<1>5. Highest(S) # None /\ Highest(S).task = task.id BY <1>1, <1>4 DEF IsTask
<1>. QED BY <1>1, <1>3, <1>4, <1>5 DEF S

\* What the overview of a teacher lists.
LEMMA OverviewFacts ==
  ASSUME NEW classes, IsSchool(classes)
  PROVE  LET overview == TeacherOverview(classes) IN
         /\ overview.practicals = UNION {{PracticalRow(classes[i], task) : task \in ToSet(classes[i].tasks)}
                                           : i \in DOMAIN classes}
         /\ ToSet(overview.submissions) = AllAttempts(classes)
         /\ overview.students = [s \in UNION {Active(classes[i]) : i \in DOMAIN classes} |-> StudentRow(classes, s)]
<1>. DEFINE S == AllAttempts(classes)
            overview == TeacherOverview(classes)
<1>1. overview.submissions = NewestFirst(S) BY DEF TeacherOverview, AllAttempts, AllTasks
<1>2. ToSet(NewestFirst(S)) = S
  <2>1. IsFiniteSet(S) BY SchoolFacts
  <2>2. (\A a \in S : a.at \in Int) /\ (\A a, b \in S : a.at = b.at => a = b) BY DEF IsSchool
  <2>. HIDE DEF S
  <2>. QED BY <2>1, <2>2, NewestFacts
<1>3. overview.practicals = UNION {{PracticalRow(classes[i], task) : task \in ToSet(classes[i].tasks)}
                                     : i \in DOMAIN classes}
  BY DEF TeacherOverview
<1>4. overview.students = [s \in UNION {Active(classes[i]) : i \in DOMAIN classes} |-> StudentRow(classes, s)]
  BY DEF TeacherOverview
<1>. HIDE DEF overview
<1>. QED BY <1>1, <1>2, <1>3, <1>4 DEF overview

\* The rows, the students and the attempts of one class among those of all.
LEMMA OneClass ==
  ASSUME NEW classes, IsSchool(classes), NEW k \in DOMAIN classes
  PROVE  LET class == classes[k]
             overview == TeacherOverview(classes) IN
         /\ RowsIn(overview, class.id) = {PracticalRow(class, task) : task \in ToSet(Published(class))}
         /\ ScopeOf(overview, class.id) = Active(class)
<1>. DEFINE class == classes[k]
            overview == TeacherOverview(classes)
<1>1. class.id # None /\ IsClass(class) /\ \A i \in DOMAIN classes : classes[i].id = class.id => i = k
  BY DEF IsSchool
<1>2. /\ overview.practicals = UNION {{PracticalRow(classes[i], task) : task \in ToSet(classes[i].tasks)}
                                        : i \in DOMAIN classes}
      /\ overview.students = [s \in UNION {Active(classes[i]) : i \in DOMAIN classes} |-> StudentRow(classes, s)]
  BY OverviewFacts
<1>. HIDE DEF overview
<1>3. \A c, task : PracticalRow(c, task).class = c.id /\ PracticalRow(c, task).status = task.status
  BY DEF PracticalRow
<1>4. ToSet(Published(class)) = {task \in ToSet(class.tasks) : task.status = "PUBLISHED"}
  BY <1>1, ClassFacts
<1>5. RowsIn(overview, class.id) = {PracticalRow(class, task) : task \in ToSet(Published(class))}
  <2>1. ASSUME NEW p \in RowsIn(overview, class.id)
        PROVE  p \in {PracticalRow(class, task) : task \in ToSet(Published(class))}
    <3>1. p \in overview.practicals /\ p.status = "PUBLISHED" /\ p.class = class.id
      BY <1>1 DEF RowsIn
    <3>2. PICK i \in DOMAIN classes : \E task \in ToSet(classes[i].tasks) : p = PracticalRow(classes[i], task)
      BY <1>2, <3>1
    <3>3. PICK task \in ToSet(classes[i].tasks) : p = PracticalRow(classes[i], task) BY <3>2
    <3>4. classes[i].id = class.id /\ task.status = "PUBLISHED" BY <1>3, <3>1, <3>3
    <3>5. i = k BY <1>1, <3>4
    <3>6. task \in ToSet(Published(class)) BY <1>4, <3>4, <3>5
    <3>. QED BY <3>3, <3>5, <3>6
  <2>2. ASSUME NEW task \in ToSet(Published(class))
        PROVE  PracticalRow(class, task) \in RowsIn(overview, class.id)
    <3>1. task \in ToSet(class.tasks) /\ task.status = "PUBLISHED" BY <1>4
    <3>2. PracticalRow(class, task) \in overview.practicals BY <1>2, <3>1
    <3>. QED BY <1>3, <3>1, <3>2 DEF RowsIn
  <2>. QED BY <2>1, <2>2
<1>6. ScopeOf(overview, class.id) = Active(class)
  <2>1. \A s : StudentRow(classes, s).classes = {classes[i].id : i \in {j \in DOMAIN classes : s \in Active(classes[j])}}
    BY DEF StudentRow
  <2>2. DOMAIN overview.students = UNION {Active(classes[i]) : i \in DOMAIN classes} BY <1>2
  <2>3. \A s \in DOMAIN overview.students :
          overview.students[s].classes = {classes[i].id : i \in {j \in DOMAIN classes : s \in Active(classes[j])}}
    BY <1>2, <2>1, <2>2
  <2>4. ASSUME NEW s \in DOMAIN overview.students
        PROVE  class.id \in overview.students[s].classes <=> s \in Active(class)
    <3>1. class.id \in overview.students[s].classes
            <=> \E i \in DOMAIN classes : s \in Active(classes[i]) /\ class.id = classes[i].id
      BY <2>3
    <3>. QED BY <1>1, <3>1
  <2>5. Active(class) \subseteq DOMAIN overview.students BY <2>2
  <2>. HIDE DEF class
  <2>. QED BY <1>1, <2>4, <2>5 DEF ScopeOf
<1>. QED BY <1>5, <1>6 DEF overview

\* The latest attempts at a task of a class, as the progress page finds them, are those of
\* its submitters with the highest numbers.
LEMMA LatestAttempts ==
  ASSUME NEW classes, IsSchool(classes), NEW k \in DOMAIN classes,
         NEW task \in ToSet(Published(classes[k]))
  PROVE  LET latest == LatestIn(TeacherOverview(classes), classes[k].id) IN
         {a \in latest : a.task = task.id}
           = {Highest(Of(s, task.attempts)) : s \in Submitters(task)}
<1>. DEFINE class == classes[k]
            overview == TeacherOverview(classes)
            latest == LatestIn(overview, class.id)
            rows == RowsIn(overview, class.id)
            all == AllAttempts(classes)
<1>1. IsClass(class) /\ task \in ToSet(class.tasks) /\ IsTask(task)
  <2>1. IsClass(class) BY DEF IsSchool
  <2>2. task \in ToSet(class.tasks) BY <2>1, ClassFacts
  <2>. QED BY <2>1, <2>2, ClassFacts
<1>2. rows = {PracticalRow(class, t) : t \in ToSet(Published(class))} /\ ToSet(overview.submissions) = all
  <2>1. rows = {PracticalRow(class, t) : t \in ToSet(Published(class))} BY OneClass
  <2>2. ToSet(overview.submissions) = all BY OverviewFacts
  <2>. QED BY <2>1, <2>2
<1>3. \A t : PracticalRow(class, t).id = t.id BY DEF PracticalRow
<1>4. latest = {a \in all : /\ \E t \in ToSet(Published(class)) : t.id = a.task
                            /\ \A b \in all : b.task = a.task /\ b.student = a.student => b.number <= a.number}
  <2>. HIDE DEF overview, class, all, rows
  <2>1. latest = {a \in all : /\ \E p \in rows : p.id = a.task
                              /\ \A b \in all : b.task = a.task /\ b.student = a.student => b.number <= a.number}
    BY <1>2 DEF LatestIn, rows
  <2>2. \A a : (\E p \in rows : p.id = a.task) <=> \E t \in ToSet(Published(class)) : t.id = a.task
    BY <1>2, <1>3
  <2>. QED BY <2>1, <2>2
<1>5. \A a \in all : a.task = task.id <=> a \in task.attempts
  <2>1. ASSUME NEW a \in all, a.task = task.id PROVE a \in task.attempts
    <3>1. PICK i \in DOMAIN classes : \E t \in ToSet(classes[i].tasks) : a \in t.attempts
      BY DEF AllAttempts, AllTasks
    <3>2. PICK t \in ToSet(classes[i].tasks) : a \in t.attempts BY <3>1
    <3>3. IsTask(t) BY ClassFacts DEF IsSchool
    <3>4. a.task = t.id BY <3>2, <3>3 DEF IsTask
    <3>5. t = task
      <4>1. \A u \in ToSet(classes[i].tasks), v \in ToSet(class.tasks) : u.id = v.id => u = v
        BY DEF IsSchool
      <4>. QED BY <1>1, <2>1, <3>4, <4>1
    <3>. QED BY <3>2, <3>5
  <2>2. \A a \in task.attempts : a.task = task.id BY <1>1 DEF IsTask
  <2>. QED BY <2>1, <2>2
<1>6. task.attempts \subseteq all BY <1>1 DEF AllAttempts, AllTasks
<1>10. task \in ToSet(Published(class)) OBVIOUS
<1>. HIDE DEF latest, all, class
<1>7. ASSUME NEW a \in latest, a.task = task.id
      PROVE  a \in {Highest(Of(s, task.attempts)) : s \in Submitters(task)}
  <2>. DEFINE h == Highest(Of(a.student, task.attempts))
  <2>1. a \in task.attempts /\ a.student \in Submitters(task) BY <1>4, <1>5, <1>7 DEF Submitters
  <2>2. h \in task.attempts /\ h.student = a.student /\ h.task = task.id /\ a.number <= h.number
    BY <1>1, <2>1, HighestFacts
  <2>3. h.number <= a.number BY <1>4, <1>6, <1>7, <2>2
  <2>4. h.number \in Nat /\ a.number \in Nat BY <1>1, <2>1, <2>2 DEF IsTask
  <2>. HIDE DEF h
  <2>5. h.number = a.number BY <2>2, <2>3, <2>4
  <2>6. h = a BY <1>1, <2>1, <2>2, <2>5 DEF IsTask
  <2>. QED BY <2>1, <2>6 DEF h
<1>8. ASSUME NEW s \in Submitters(task)
      PROVE  Highest(Of(s, task.attempts)) \in latest /\ Highest(Of(s, task.attempts)).task = task.id
  <2>. DEFINE h == Highest(Of(s, task.attempts))
  <2>1. /\ h \in task.attempts /\ h.student = s /\ h.task = task.id
        /\ \A b \in task.attempts : b.student = s => b.number <= h.number
    BY <1>1, HighestFacts
  <2>. HIDE DEF h
  <2>2. \A b \in all : b.task = h.task /\ b.student = h.student => b.number <= h.number
    BY <1>5, <2>1
  <2>3. h \in all /\ \E t \in ToSet(Published(class)) : t.id = h.task BY <1>6, <1>10, <2>1
  <2>4. h \in latest BY <1>4, <2>2, <2>3
  <2>. QED BY <2>1, <2>4 DEF h
<1>9. {a \in latest : a.task = task.id} = {Highest(Of(s, task.attempts)) : s \in Submitters(task)}
  BY <1>7, <1>8
<1>. QED BY <1>9 DEF latest, class

LEMMA SubmittersFinite ==
  ASSUME NEW task, IsTask(task)
  PROVE  IsFiniteSet(Submitters(task))
<1>. DEFINE g == [a \in task.attempts |-> a.student]
<1>1. g \in Surjection(task.attempts, Submitters(task)) BY DEF Surjection, Submitters
<1>2. IsFiniteSet(task.attempts) BY DEF IsTask
<1>. HIDE DEF g
<1>. QED BY <1>1, <1>2, FS_Surjection

\* What the progress of a class says of a student.
LEMMA OneStudent ==
  ASSUME NEW class, IsClass(class), NEW s \in Active(class)
  PROVE  /\ DOMAIN ClassroomProgress(class) = Active(class)
         /\ ClassroomProgress(class)[s].total = Len(Published(class))
         /\ ClassroomProgress(class)[s].submitted = Cardinality(Handed(class, s))
         /\ ClassroomProgress(class)[s].latest =
              IF Published(class) = <<>> \/ s \notin Submitters(Published(class)[1]) THEN None
              ELSE Highest(Of(s, Published(class)[1].attempts))
<1>. DEFINE tasks == Published(class)
            latest(task) == IF Of(s, task.attempts) = {} THEN None ELSE Highest(Of(s, task.attempts))
            shown == [i \in DOMAIN tasks |-> latest(tasks[i])]
            row == [practicals |-> shown, latest |-> IF tasks = <<>> THEN None ELSE shown[1],
                    submitted |-> Cardinality({i \in DOMAIN tasks : shown[i] # None}), total |-> Len(tasks)]
<1>1. ClassroomProgress(class)[s] = row /\ DOMAIN ClassroomProgress(class) = Active(class)
  BY DEF ClassroomProgress
<1>2. tasks # <<>> => 1 \in DOMAIN tasks BY ClassFacts
<1>3. \A i \in DOMAIN tasks : IsTask(tasks[i]) BY ClassFacts
<1>4. \A task : s \in Submitters(task) <=> Of(s, task.attempts) # {} BY DEF Submitters, Of
<1>. HIDE DEF tasks
<1>5. \A i \in DOMAIN tasks : latest(tasks[i]) # None <=> s \in Submitters(tasks[i])
  BY <1>3, <1>4, HighestFacts
<1>6. {i \in DOMAIN tasks : shown[i] # None} = Handed(class, s) BY <1>5 DEF Handed, tasks
<1>7. tasks # <<>> => shown[1] = IF s \notin Submitters(tasks[1]) THEN None
                                 ELSE Highest(Of(s, tasks[1].attempts))
  BY <1>2, <1>4
<1>8. /\ row.total = Len(tasks) /\ row.submitted = Cardinality({i \in DOMAIN tasks : shown[i] # None})
      /\ row.latest = IF tasks = <<>> THEN None ELSE shown[1]
  OBVIOUS
<1>. HIDE DEF row, shown
<1>. QED BY <1>1, <1>6, <1>7, <1>8 DEF tasks

\* The analytics of a task whose submitters kept access count its latest attempts.
LEMMA ReviewedFacts ==
  ASSUME NEW class, NEW task, IsTask(task), Submitters(task) \subseteq Active(class)
  PROVE  LET U == Submitters(task)
             U1 == {s \in U : Highest(Of(s, task.attempts)).review = "PUBLISHED"}
             U2 == {s \in U : Highest(Of(s, task.attempts)).review # "PUBLISHED"}
             analytics == PracticalAnalytics(class, task) IN
         /\ analytics.submitted = Cardinality(U)
         /\ analytics.reviewed = Cardinality(U1)
         /\ analytics.needsReview = Cardinality(U2)
<1>. DEFINE A == Active(class)
            X == {a \in task.attempts : a.student \in A}
            U == Submitters(task)
            best(s) == Highest(Of(s, task.attempts))
            U1 == {s \in U : best(s).review = "PUBLISHED"}
            U2 == {s \in U : best(s).review # "PUBLISHED"}
            by == {s \in A : Of(s, X) # {}}
            latest == [s \in by |-> Highest(Of(s, X))]
            R == {s \in by : latest[s].review = "PUBLISHED"}
            n == Cardinality({a.student : a \in X})
            analytics == Analytics(A, X)
<1>1. X = task.attempts BY DEF Submitters
<1>2. /\ analytics.submitted = n /\ analytics.reviewed = Cardinality(R)
      /\ analytics.needsReview = n - Cardinality(R)
  BY DEF Analytics
<1>3. PracticalAnalytics(class, task) = analytics BY DEF PracticalAnalytics
<1>4. {a.student : a \in X} = U BY <1>1 DEF Submitters
<1>5. by = U BY <1>1 DEF Submitters, Of
<1>6. R = U1 BY <1>1, <1>5
<1>7. IsFiniteSet(U) BY SubmittersFinite
<1>8. U = U1 \cup U2 /\ U1 \cap U2 = {} /\ U1 \subseteq U /\ U2 \subseteq U OBVIOUS
<1>9. IsFiniteSet(U1) /\ IsFiniteSet(U2)
  <2>. HIDE DEF U1, U2
  <2>. QED BY <1>7, <1>8, FS_Subset
<1>. HIDE DEF U, U1, U2, R, by, X, analytics, n
<1>10. /\ Cardinality(U) = Cardinality(U1) + Cardinality(U2)
       /\ Cardinality(U1) \in Nat /\ Cardinality(U2) \in Nat
  BY <1>8, <1>9, Apart
<1>11. n = Cardinality(U) BY <1>4 DEF n
<1>12. analytics.needsReview = Cardinality(U2) BY <1>2, <1>6, <1>10, <1>11
<1>. QED BY <1>2, <1>3, <1>6, <1>11, <1>12 DEF U, U1, U2

\* The row of a task on the progress page counts the latest attempts of its submitters.
LEMMA RowCounts ==
  ASSUME NEW classes, IsSchool(classes), NEW k \in DOMAIN classes,
         NEW task \in ToSet(Published(classes[k]))
  PROVE  LET class == classes[k]
             row == ProgressRow(TeacherOverview(classes), class.id, PracticalRow(class, task))
             U == Submitters(task) IN
         /\ row.id = task.id /\ row.submitted = Cardinality(U)
         /\ row.reviewed = Cardinality({s \in U : Highest(Of(s, task.attempts)).review = "PUBLISHED"})
         /\ row.needsReview = Cardinality({s \in U : Highest(Of(s, task.attempts)).review # "PUBLISHED"})
<1>. DEFINE class == classes[k]
            overview == TeacherOverview(classes)
            p == PracticalRow(class, task)
            row == ProgressRow(overview, class.id, p)
            latest == LatestIn(overview, class.id)
            U == Submitters(task)
            h == [s \in U |-> Highest(Of(s, task.attempts))]
            U1 == {s \in U : h[s].review = "PUBLISHED"}
            U2 == {s \in U : h[s].review # "PUBLISHED"}
<1>1. p.id = task.id /\ p.submitted = Cardinality(U) BY DEF PracticalRow
<1>2. /\ row.id = p.id /\ row.submitted = p.submitted
      /\ row.reviewed = Cardinality({a \in latest : a.task = p.id /\ a.review = "PUBLISHED"})
      /\ row.needsReview = Cardinality({a \in latest : a.task = p.id /\ a.review # "PUBLISHED"})
  <2>. HIDE DEF p, overview, class
  <2>. QED BY DEF ProgressRow
<1>3. {a \in latest : a.task = task.id} = {h[s] : s \in U}
  <2>1. {a \in latest : a.task = task.id} = {Highest(Of(s, task.attempts)) : s \in U}
    BY LatestAttempts
  <2>. QED BY <2>1
<1>4. IsTask(task) BY ClassFacts DEF IsSchool
<1>5. \A s \in U : h[s].student = s BY <1>4, HighestFacts
<1>6. IsFiniteSet(U) /\ U1 \subseteq U /\ U2 \subseteq U BY <1>4, SubmittersFinite
<1>7. DOMAIN h = U OBVIOUS
<1>. HIDE DEF p, row, latest, U, h
<1>8. /\ {a \in latest : a.task = task.id /\ a.review = "PUBLISHED"} = {h[s] : s \in U1}
      /\ {a \in latest : a.task = task.id /\ a.review # "PUBLISHED"} = {h[s] : s \in U2}
  BY <1>3
<1>9. Cardinality({h[s] : s \in U1}) = Cardinality(U1) /\ Cardinality({h[s] : s \in U2}) = Cardinality(U2)
  <2>1. IsFiniteSet(U1) /\ IsFiniteSet(U2) BY <1>6, FS_Subset
  <2>2. /\ U1 \subseteq DOMAIN h /\ \A x, y \in U1 : h[x] = h[y] => x = y
        /\ U2 \subseteq DOMAIN h /\ \A x, y \in U2 : h[x] = h[y] => x = y
    BY <1>5, <1>7
  <2>. HIDE DEF U1, U2
  <2>. QED BY <2>1, <2>2, SameCount
<1>10. U1 = {s \in U : Highest(Of(s, task.attempts)).review = "PUBLISHED"}
       /\ U2 = {s \in U : Highest(Of(s, task.attempts)).review # "PUBLISHED"}
  BY DEF h
<1>. HIDE DEF U1, U2
<1>11. /\ row.id = task.id /\ row.submitted = Cardinality(U)
       /\ row.reviewed = Cardinality(U1) /\ row.needsReview = Cardinality(U2)
  BY <1>1, <1>2, <1>8, <1>9
<1>. QED BY <1>10, <1>11 DEF row, p, U

\* What the progress page counts as due and done in a class, student by student.
LEMMA DueAndDone ==
  ASSUME NEW classes, IsSchool(classes), NEW k \in DOMAIN classes, NEW s \in Active(classes[k])
  PROVE  LET class == classes[k]
             overview == TeacherOverview(classes) IN
         /\ DueIn(overview, class.id)[s] = Len(Published(class))
         /\ DoneIn(overview, class.id)[s] = Cardinality(Handed(class, s))
<1>. DEFINE class == classes[k]
            overview == TeacherOverview(classes)
            tasks == Published(class)
            n == Len(tasks)
            rows == RowsIn(overview, class.id)
            latest == LatestIn(overview, class.id)
            f == [i \in 1 .. n |-> PracticalRow(class, tasks[i])]
            g == [i \in 1 .. n |-> tasks[i].id]
            J == Handed(class, s)
<1>1. IsClass(class) /\ class.id # None BY DEF IsSchool
<1>2. /\ n \in Nat /\ DOMAIN tasks = 1 .. n
      /\ \A i, j \in 1 .. n : tasks[i].id = tasks[j].id => i = j
      /\ \A i \in 1 .. n : IsTask(tasks[i])
  <2>. HIDE DEF class
  <2>. QED BY <1>1, ClassFacts
<1>3. rows = {PracticalRow(class, task) : task \in ToSet(tasks)} /\ ScopeOf(overview, class.id) = Active(class)
  BY OneClass
<1>4. \A task : PracticalRow(class, task).id = task.id BY DEF PracticalRow
<1>5. \A i \in 1 .. n : {a \in latest : a.task = tasks[i].id}
                          = {Highest(Of(x, tasks[i].attempts)) : x \in Submitters(tasks[i])}
  <2>1. \A i \in 1 .. n : tasks[i] \in ToSet(tasks) BY <1>2 DEF ToSet
  <2>. QED BY <2>1, LatestAttempts
<1>6. \A a \in latest : \E i \in 1 .. n : a.task = tasks[i].id
  <2>1. \A a \in latest : \E p \in rows : p.id = a.task BY DEF LatestIn
  <2>. HIDE DEF latest, rows, class, overview, tasks, n
  <2>2. \A p \in rows : \E i \in 1 .. n : p = PracticalRow(class, tasks[i]) BY <1>2, <1>3 DEF ToSet
  <2>. QED BY <1>4, <2>1, <2>2
<1>7. DueIn(overview, class.id)[s] = Cardinality(rows)
      /\ DoneIn(overview, class.id)[s] = Cardinality({a.task : a \in Of(s, latest)})
  <2>. HIDE DEF class, overview
  <2>1. s \in ScopeOf(overview, class.id) BY <1>3 DEF class
  <2>. QED BY <1>1, <2>1 DEF DueIn, DoneIn
<1>8. \A i \in 1 .. n : f[i] = PracticalRow(class, tasks[i]) /\ g[i] = tasks[i].id OBVIOUS
<1>9. DOMAIN f = 1 .. n /\ DOMAIN g = 1 .. n OBVIOUS
<1>10. J \subseteq 1 .. n /\ \A i \in 1 .. n : i \in J <=> s \in Submitters(tasks[i])
  BY <1>2 DEF Handed
<1>. HIDE DEF f, g, latest, rows, class, overview, tasks, n, J
<1>11. rows = {f[i] : i \in 1 .. n}
  <2>1. \A task : task \in ToSet(tasks) <=> \E i \in 1 .. n : task = tasks[i] BY <1>2 DEF ToSet
  <2>. QED BY <1>3, <1>8, <2>1
<1>12. Cardinality(rows) = n
  <2>1. \A i, j \in 1 .. n : f[i] = f[j] => i = j BY <1>2, <1>4, <1>8
  <2>2. IsFiniteSet(1 .. n) /\ Cardinality(1 .. n) = n BY <1>2, FirstNumbers
  <2>. DEFINE S == 1 .. n
  <2>3. S \subseteq DOMAIN f /\ IsFiniteSet(S) /\ Cardinality(S) = n /\ rows = {f[i] : i \in S}
        /\ \A i, j \in S : f[i] = f[j] => i = j
    BY <1>9, <1>11, <2>1, <2>2
  <2>. HIDE DEF S
  <2>. QED BY <2>3, SameCount
<1>13. {a.task : a \in Of(s, latest)} = {g[i] : i \in J}
  <2>1. ASSUME NEW a \in Of(s, latest) PROVE \E i \in J : a.task = g[i]
    <3>1. a \in latest /\ a.student = s BY DEF Of
    <3>2. PICK i \in 1 .. n : a.task = tasks[i].id BY <1>6, <3>1
    <3>3. PICK x \in Submitters(tasks[i]) : a = Highest(Of(x, tasks[i].attempts))
      BY <1>5, <3>1, <3>2
    <3>4. x = s BY <1>2, <3>1, <3>3, HighestFacts
    <3>. QED BY <1>8, <1>10, <3>2, <3>3, <3>4
  <2>2. ASSUME NEW i \in J PROVE \E a \in Of(s, latest) : a.task = g[i]
    <3>. DEFINE a == Highest(Of(s, tasks[i].attempts))
    <3>1. i \in 1 .. n /\ s \in Submitters(tasks[i]) BY <1>10
    <3>2. a \in latest /\ a.task = tasks[i].id BY <1>5, <3>1
    <3>3. a.student = s BY <1>2, <3>1, HighestFacts
    <3>. HIDE DEF a
    <3>. QED BY <1>8, <3>1, <3>2, <3>3 DEF Of
  <2>. QED BY <2>1, <2>2
<1>14. Cardinality({g[i] : i \in J}) = Cardinality(J)
  <2>1. \A i, j \in J : g[i] = g[j] => i = j BY <1>2, <1>8, <1>10
  <2>2. IsFiniteSet(J) BY <1>2, <1>10, FirstNumbers, FS_Subset
  <2>. QED BY <1>9, <1>10, <2>1, <2>2, SameCount
<1>. QED BY <1>7, <1>12, <1>13, <1>14 DEF class, overview, tasks, n, J

LEMMA ActiveFinite ==
  ASSUME NEW class, IsClass(class)
  PROVE  IsFiniteSet(Active(class))
<1>1. Active(class) \subseteq DOMAIN class.members BY DEF Active
<1>2. DOMAIN class.members = 1 .. Len(class.members) /\ Len(class.members) \in Nat BY DEF IsClass
<1>. QED BY <1>1, <1>2, FirstNumbers, FS_Subset

LEMMA HandedFacts ==
  ASSUME NEW class, IsClass(class), NEW s
  PROVE  /\ Handed(class, s) \subseteq 1 .. Len(Published(class)) /\ IsFiniteSet(Handed(class, s))
         /\ Cardinality(Handed(class, s)) \in Nat /\ Len(Published(class)) \in Nat
         /\ Cardinality(Handed(class, s)) <= Len(Published(class))
<1>. DEFINE n == Len(Published(class))
            J == Handed(class, s)
<1>1. n \in Nat /\ DOMAIN Published(class) = 1 .. n BY ClassFacts
<1>2. J \subseteq 1 .. n BY <1>1 DEF Handed
<1>3. IsFiniteSet(1 .. n) /\ Cardinality(1 .. n) = n BY <1>1, FirstNumbers
<1>. HIDE DEF n, J
<1>4. IsFiniteSet(J) /\ Cardinality(J) <= Cardinality(1 .. n) BY <1>2, <1>3, FS_Subset
<1>5. Cardinality(J) \in Nat BY <1>4, FS_CardinalityType
<1>. QED BY <1>1, <1>2, <1>3, <1>4, <1>5 DEF n, J

\* The progress page of a class counts the reviews of each practical as its analytics do,
\* and as incomplete exactly what the students of the class still have to submit, for any
\* classrooms, students and submissions (teacher-progress-view-model.ts,
\* practical-analytics.ts, classrooms/service.ts).
THEOREM ProgressAlwaysToldAlike ==
  ASSUME NEW classes, IsSchool(classes), NEW k \in DOMAIN classes
  PROVE  ProgressToldAlike(classes, classes[k])
<1>. DEFINE class == classes[k]
            overview == TeacherOverview(classes)
            progress == TeacherProgress(overview, class.id)
            A == Active(class)
<1>1. IsClass(class) /\ class.id # None BY DEF IsSchool
<1>2. ASSUME Stayed(class), NEW task \in ToSet(Published(class))
      PROVE  LET analytics == PracticalAnalytics(class, task) IN
             \E row \in progress.practicals :
               /\ row.id = task.id /\ row.reviewed = analytics.reviewed
               /\ row.needsReview = analytics.needsReview /\ row.submitted = analytics.submitted
  <2>. DEFINE p == PracticalRow(class, task)
              row == ProgressRow(overview, class.id, p)
              analytics == PracticalAnalytics(class, task)
              U == Submitters(task)
  <2>1. task \in ToSet(class.tasks) /\ IsTask(task)
    <3>1. task \in ToSet(class.tasks) BY <1>1, ClassFacts
    <3>. QED BY <1>1, <3>1, ClassFacts
  <2>2. U \subseteq A BY <1>2, <2>1 DEF Stayed
  <2>3. /\ analytics.submitted = Cardinality(U)
        /\ analytics.reviewed = Cardinality({s \in U : Highest(Of(s, task.attempts)).review = "PUBLISHED"})
        /\ analytics.needsReview = Cardinality({s \in U : Highest(Of(s, task.attempts)).review # "PUBLISHED"})
    BY <2>1, <2>2, ReviewedFacts
  <2>4. /\ row.id = task.id /\ row.submitted = Cardinality(U)
        /\ row.reviewed = Cardinality({s \in U : Highest(Of(s, task.attempts)).review = "PUBLISHED"})
        /\ row.needsReview = Cardinality({s \in U : Highest(Of(s, task.attempts)).review # "PUBLISHED"})
    BY RowCounts
  <2>5. p \in RowsIn(overview, class.id) BY OneClass
  <2>. HIDE DEF p, class, overview
  <2>6. row \in progress.practicals BY <1>1, <2>5, ProgressFacts
  <2>. HIDE DEF row, analytics, U, progress
  <2>. QED BY <2>3, <2>4, <2>6 DEF analytics
<1>. DEFINE due == DueIn(overview, class.id)
            done == DoneIn(overview, class.id)
            left == [s \in A |-> ClassroomProgress(class)[s].total - ClassroomProgress(class)[s].submitted]
<1>3. progress.incomplete = Sum(left, A)
  <2>1. \A s \in A : due[s] = Len(Published(class)) /\ done[s] = Cardinality(Handed(class, s))
    BY DueAndDone
  <2>2. ScopeOf(overview, class.id) = A BY OneClass
  <2>. HIDE DEF class, overview
  <2>3. \A s \in A : left[s] = Len(Published(class)) - Cardinality(Handed(class, s))
    BY <1>1, OneStudent
  <2>4. progress.incomplete = IF Sum(due, A) > Sum(done, A) THEN Sum(due, A) - Sum(done, A) ELSE 0
    <3>. HIDE DEF A
    <3>. QED BY <1>1, <2>2, ProgressFacts
  <2>. HIDE DEF progress, left, due, done
  <2>5. \A s \in A : /\ due[s] \in Nat /\ done[s] \in Nat /\ done[s] <= due[s]
                     /\ left[s] = due[s] - done[s]
    BY <1>1, <2>1, <2>3, HandedFacts
  <2>6. IsFiniteSet(A) BY <1>1, ActiveFinite
  <2>. HIDE DEF A
  <2>7. /\ Sum(due, A) \in Nat /\ Sum(done, A) \in Nat /\ Sum(done, A) <= Sum(due, A)
        /\ Sum(left, A) = Sum(due, A) - Sum(done, A)
    BY <2>5, <2>6, SumsDiffer
  <2>. QED BY <2>4, <2>7
<1>. HIDE DEF progress
<1>4. ProgressToldAlike(classes, class) BY <1>2, <1>3 DEF ProgressToldAlike, progress
<1>. QED BY <1>4

-----------------------------------------------------------------------------
(* What a student is told.                                                  *)

LEMMA BeforeIs ==
  ASSUME NEW list, NEW i, NEW j
  PROVE  Before(list, i, j) <=>
           \/ Overdue(list[j]) /\ ~Overdue(list[i])
           \/ /\ Overdue(list[i]) <=> Overdue(list[j])
              /\ \/ Sooner(list[i], list[j])
                 \/ list[i].deadline = list[j].deadline /\ i < j
<1>1. CASE Overdue(list[i]) /\ Overdue(list[j])
  <2>1. ~(Overdue(list[i]) # Overdue(list[j])) BY <1>1
  <2>. QED BY <1>1, <2>1 DEF Before
<1>2. CASE Overdue(list[i]) /\ ~Overdue(list[j])
  <2>1. Overdue(list[i]) # Overdue(list[j]) BY <1>2
  <2>. QED BY <1>2, <2>1 DEF Before
<1>3. CASE ~Overdue(list[i]) /\ Overdue(list[j])
  <2>1. Overdue(list[i]) # Overdue(list[j]) BY <1>3
  <2>. QED BY <1>3, <2>1 DEF Before
<1>4. CASE ~Overdue(list[i]) /\ ~Overdue(list[j])
  <2>1. ~(Overdue(list[i]) # Overdue(list[j])) BY <1>4 DEF Overdue
  <2>. QED BY <1>4, <2>1 DEF Before
<1>. QED BY <1>1, <1>2, <1>3, <1>4

LEMMA BeforeOrders ==
  ASSUME NEW list, IsList(list), NEW S \in SUBSET DOMAIN list
  PROVE  IsOrder(S, {pair \in S \X S : Before(list, pair[1], pair[2])})
<1>. DEFINE R == {pair \in S \X S : Before(list, pair[1], pair[2])}
            late(i) == Overdue(list[i])
            due(i) == list[i].deadline
            sooner(i, j) == Sooner(list[i], list[j])
<1>1. \A i, j \in S : <<i, j>> \in R <=> Before(list, i, j) OBVIOUS
<1>2. \A i \in S : i \in Nat BY DEF IsList
<1>3. \A i \in S : due(i) \in Int \/ due(i) = None BY DEF IsList
<1>4. \A i, j \in S : sooner(i, j) <=> due(i) # None /\ (due(j) = None \/ due(i) < due(j))
  BY DEF Sooner
<1>5. \A i, j \in S : <<i, j>> \in R <=>
        \/ late(j) /\ ~late(i)
        \/ (late(i) <=> late(j)) /\ (sooner(i, j) \/ (due(i) = due(j) /\ i < j))
  BY <1>1, BeforeIs
<1>. HIDE DEF R, late, due, sooner
<1>6. ASSUME NEW i \in S, NEW j \in S
      PROVE  /\ sooner(i, j) \/ sooner(j, i) \/ due(i) = due(j)
             /\ due(i) = due(j) => ~sooner(i, j)
  <2>1. CASE due(i) = None \/ due(j) = None BY <1>4, <2>1
  <2>2. CASE due(i) # None /\ due(j) # None
    <3>1. due(i) \in Int /\ due(j) \in Int BY <1>3, <2>2
    <3>. QED BY <1>4, <2>2, <3>1
  <2>. QED BY <2>1, <2>2
<1>7. ASSUME NEW i \in S, NEW j \in S, NEW k \in S, sooner(i, j), sooner(j, k)
      PROVE  sooner(i, k)
  <2>1. due(i) # None /\ due(j) # None /\ due(i) \in Int /\ due(j) \in Int /\ due(i) < due(j)
    BY <1>3, <1>4, <1>7
  <2>2. CASE due(k) = None BY <1>4, <2>1, <2>2
  <2>3. CASE due(k) # None
    <3>1. due(k) \in Int /\ due(j) < due(k) BY <1>3, <1>4, <1>7, <2>3
    <3>2. due(i) < due(k) BY <2>1, <3>1
    <3>. QED BY <1>4, <2>1, <3>2
  <2>. QED BY <2>2, <2>3
<1>8. ASSUME NEW i \in S, NEW j \in S, NEW k \in S
      PROVE  /\ due(i) = due(j) /\ sooner(j, k) => sooner(i, k)
             /\ sooner(i, j) /\ due(j) = due(k) => sooner(i, k)
  BY <1>4
<1>9. \A i \in S : <<i, i>> \notin R BY <1>2, <1>5, <1>6
<1>10. ASSUME NEW i \in S, NEW j \in S, i # j PROVE <<i, j>> \in R \/ <<j, i>> \in R
  <2>1. i < j \/ j < i BY <1>2, <1>10
  <2>2. sooner(i, j) \/ sooner(j, i) \/ due(i) = due(j) BY <1>6
  <2>. QED BY <1>5, <2>1, <2>2
<1>11. ASSUME NEW i \in S, NEW j \in S, NEW k \in S, <<i, j>> \in R, <<j, k>> \in R
       PROVE  <<i, k>> \in R
  <2>1. i < j /\ j < k => i < k BY <1>2
  <2>2. \/ late(j) /\ ~late(i)
        \/ (late(i) <=> late(j)) /\ (sooner(i, j) \/ (due(i) = due(j) /\ i < j))
    BY <1>5, <1>11
  <2>3. \/ late(k) /\ ~late(j)
        \/ (late(j) <=> late(k)) /\ (sooner(j, k) \/ (due(j) = due(k) /\ j < k))
    BY <1>5, <1>11
  <2>4. (sooner(i, j) \/ (due(i) = due(j) /\ i < j)) /\ (sooner(j, k) \/ (due(j) = due(k) /\ j < k))
          => sooner(i, k) \/ (due(i) = due(k) /\ i < k)
    BY <1>7, <1>8, <2>1
  <2>5. \/ late(k) /\ ~late(i)
        \/ (late(i) <=> late(k)) /\ (sooner(i, k) \/ (due(i) = due(k) /\ i < k))
    BY <2>2, <2>3, <2>4
  <2>. QED BY <1>5, <2>5
<1>. QED BY <1>9, <1>10, <1>11 DEF IsOrder, R

LEMMA ActionableFacts ==
  ASSUME NEW list, IsList(list)
  PROVE  \E m, o : ActsBy(list, Actionable(list), m, o)
<1>. DEFINE S == Open(list)
            R == {pair \in S \X S : Before(list, pair[1], pair[2])}
            o == Arranged(S, R)
            act == Actionable(list)
            m == Cardinality(S)
<1>1. S \subseteq DOMAIN list /\ IsFiniteSet(S)
  <2>1. S \subseteq 1 .. Len(list) /\ Len(list) \in Nat BY DEF Open, IsList
  <2>. QED BY <2>1, FirstNumbers, FS_Subset DEF IsList
<1>2. IsOrder(S, R) BY <1>1, BeforeOrders
<1>3. ArrangedBy(S, R, o, m)
  <2>. HIDE DEF S, R
  <2>1. PICK n : ArrangedBy(S, R, o, n) BY <1>1, <1>2, ArrangedFacts
  <2>2. n = m BY <2>1 DEF ArrangedBy
  <2>. QED BY <2>1, <2>2
<1>4. act = [n \in DOMAIN o |-> list[o[n]]] BY DEF Actionable, Open
<1>5. \A i, j \in S : <<i, j>> \in R => (Overdue(list[i]) => Overdue(list[j])) BY BeforeIs
<1>. HIDE DEF S, R, o, act, m
<1>6. /\ m \in Nat /\ o \in [1 .. m -> S] /\ DOMAIN o = 1 .. m
      /\ \A i, j \in 1 .. m : i < j => <<o[i], o[j]>> \in R
      /\ \A i \in S : \E n \in 1 .. m : o[n] = i
      /\ o = <<>> <=> S = {}
  BY <1>3 DEF ArrangedBy, ToSet
<1>7. act = [n \in 1 .. m |-> act[n]] /\ \A n \in 1 .. m : act[n] = list[o[n]] BY <1>4, <1>6
<1>8. /\ act \in Seq({act[n] : n \in 1 .. m}) /\ Len(act) = m /\ DOMAIN act = 1 .. m
  BY <1>6, <1>7, IsSequence
<1>9. act \in Seq(ToSet(list))
  <2>1. \A n \in 1 .. m : act[n] \in ToSet(list) BY <1>1, <1>6, <1>7 DEF ToSet
  <2>2. act \in [1 .. m -> ToSet(list)] BY <1>7, <2>1
  <2>. QED BY <1>6, <2>2
<1>10. \A i, j \in 1 .. m : i < j /\ Overdue(act[i]) => Overdue(act[j])
  <2>. SUFFICES ASSUME NEW i \in 1 .. m, NEW j \in 1 .. m, i < j, Overdue(act[i]) PROVE Overdue(act[j])
    OBVIOUS
  <2>1. o[i] \in S /\ o[j] \in S /\ <<o[i], o[j]>> \in R BY <1>6
  <2>2. act[i] = list[o[i]] /\ act[j] = list[o[j]] BY <1>7
  <2>. QED BY <1>5, <2>1, <2>2
<1>11. act = <<>> <=> S = {}
  <2>1. act = <<>> => m = 0 BY <1>8
  <2>2. m = 0 => act = <<>> BY <1>7
  <2>3. m = 0 <=> S = {} BY <1>1, FS_EmptySet DEF m
  <2>. QED BY <2>1, <2>2, <2>3
<1>12. ActsBy(list, act, m, o) BY <1>6, <1>7, <1>8, <1>9, <1>10, <1>11 DEF ActsBy, m, S
<1>. QED BY <1>12 DEF act

\* Two lists of the elements at the places in S and in T, one after the other.
LEMMA JoinedLists ==
  ASSUME NEW Elem, NEW p \in Seq(Elem), NEW q \in Seq(Elem)
  PROVE  /\ p \o q \in Seq(Elem) /\ Len(p \o q) = Len(p) + Len(q)
         /\ DOMAIN (p \o q) = 1 .. Len(p) + Len(q)
         /\ \A i \in 1 .. Len(p) : (p \o q)[i] = p[i]
         /\ \A i \in 1 .. Len(q) : (p \o q)[Len(p) + i] = q[i]
         /\ ToSet(p \o q) = ToSet(p) \cup ToSet(q)
<1>. DEFINE m == Len(p)
            n == Len(q)
            s == p \o q
<1>1. m \in Nat /\ n \in Nat /\ DOMAIN p = 1 .. m /\ DOMAIN q = 1 .. n OBVIOUS
<1>2. s \in Seq(Elem) /\ Len(s) = m + n OBVIOUS
<1>3. DOMAIN s = 1 .. m + n BY <1>2
<1>4. \A i \in 1 .. m + n : s[i] = IF i <= m THEN p[i] ELSE q[i - m] OBVIOUS
<1>. HIDE DEF m, n, s
<1>5. \A i \in 1 .. m : s[i] = p[i] BY <1>1, <1>4
<1>6. \A i \in 1 .. n : s[m + i] = q[i]
  <2>. SUFFICES ASSUME NEW i \in 1 .. n PROVE s[m + i] = q[i] OBVIOUS
  <2>1. m + i \in 1 .. m + n /\ ~(m + i <= m) /\ (m + i) - m = i BY <1>1
  <2>. QED BY <1>4, <2>1
<1>7. ASSUME NEW i \in 1 .. m + n PROVE s[i] \in ToSet(p) \cup ToSet(q)
  <2>1. CASE i <= m
    <3>1. i \in 1 .. m BY <1>1, <2>1
    <3>. QED BY <1>1, <1>5, <3>1 DEF ToSet
  <2>2. CASE ~(i <= m)
    <3>1. i - m \in 1 .. n /\ s[i] = q[i - m] BY <1>1, <1>4, <2>2
    <3>. QED BY <1>1, <3>1 DEF ToSet
  <2>. QED BY <2>1, <2>2
<1>8. \A x \in ToSet(p) : x \in ToSet(s)
  <2>1. \A i \in 1 .. m : i \in 1 .. m + n BY <1>1
  <2>. QED BY <1>1, <1>3, <1>5, <2>1 DEF ToSet
<1>9. \A x \in ToSet(q) : x \in ToSet(s)
  <2>1. \A i \in 1 .. n : m + i \in 1 .. m + n BY <1>1
  <2>. QED BY <1>1, <1>3, <1>6, <2>1 DEF ToSet
<1>10. ToSet(s) = ToSet(p) \cup ToSet(q)
  <2>1. \A x \in ToSet(s) : x \in ToSet(p) \cup ToSet(q) BY <1>3, <1>7 DEF ToSet
  <2>. QED BY <1>8, <1>9, <2>1
<1>. QED BY <1>2, <1>3, <1>5, <1>6, <1>10 DEF m, n, s

\* What is to do and what was submitted are all, and each is counted once.
LEMMA OpenOrHanded ==
  ASSUME NEW list, IsList(list)
  PROVE  /\ Open(list) \cup HandedIn(list) = DOMAIN list /\ Open(list) \cap HandedIn(list) = {}
         /\ IsFiniteSet(Open(list)) /\ IsFiniteSet(HandedIn(list))
         /\ Cardinality(Open(list)) + Cardinality(HandedIn(list)) = Len(list)
         /\ Cardinality(Open(list)) \in Nat /\ Cardinality(HandedIn(list)) \in Nat
         /\ Open(list) = {} <=> Cardinality(Open(list)) = 0
<1>. DEFINE S == Open(list)
            U == HandedIn(list)
<1>1. S \cup U = DOMAIN list /\ S \cap U = {} BY DEF Open, HandedIn
<1>2. IsFiniteSet(DOMAIN list) /\ Cardinality(DOMAIN list) = Len(list) BY FirstNumbers DEF IsList
<1>. HIDE DEF S, U
<1>3. S \subseteq DOMAIN list /\ U \subseteq DOMAIN list BY <1>1
<1>4. IsFiniteSet(S) /\ IsFiniteSet(U) BY <1>2, <1>3, FS_Subset
<1>5. /\ Cardinality(S \cup U) = Cardinality(S) + Cardinality(U)
      /\ Cardinality(S) \in Nat /\ Cardinality(U) \in Nat
  BY <1>1, <1>4, Apart
<1>6. S = {} <=> Cardinality(S) = 0 BY <1>4, FS_EmptySet
<1>. QED BY <1>1, <1>2, <1>4, <1>5, <1>6 DEF S, U

\* Nothing is missing from the list or on it twice, and what is to do comes first.
LEMMA ListedFacts ==
  ASSUME NEW overview, IsList(overview.practicals),
         \A i \in DOMAIN overview.practicals :
           overview.practicals[i].latest # None => overview.practicals[i].latest.at \in Int
  PROVE  LET list == overview.practicals
             listed == PracticalsList(overview) IN
         /\ Len(listed) = Len(list) /\ ToSet(listed) = ToSet(list)
         /\ \A i \in 1 .. Len(Actionable(list)) : listed[i] = Actionable(list)[i]
<1>. DEFINE list == overview.practicals
            U == HandedIn(list)
            at2(i) == list[i].latest.at
            later(i, j) == list[i].latest.at > list[j].latest.at
                           \/ (list[i].latest.at = list[j].latest.at /\ i < j)
            R == {pair \in U \X U : later(pair[1], pair[2])}
            order == Arranged(U, R)
            tail == [n \in DOMAIN order |-> list[order[n]]]
            act == Actionable(list)
<1>1. PracticalsList(overview) = act \o tail BY DEF PracticalsList, HandedIn
<1>2. /\ Open(list) \cup U = DOMAIN list /\ Open(list) \cap U = {}
      /\ IsFiniteSet(U) /\ Cardinality(Open(list)) + Cardinality(U) = Len(list)
  BY OpenOrHanded
<1>3. \A i \in U : i \in Nat /\ list[i].latest.at \in Int BY DEF HandedIn, IsList
<1>4. \A i, j \in U : <<i, j>> \in R <=> later(i, j) OBVIOUS
<1>5. IsOrder(U, R)
  <2>. HIDE DEF U, R, list
  <2>1. \A i \in U : <<i, i>> \notin R BY <1>3, <1>4
  <2>2. ASSUME NEW i \in U, NEW j \in U, i # j PROVE <<i, j>> \in R \/ <<j, i>> \in R
    <3>1. i \in Nat /\ j \in Nat /\ at2(i) \in Int /\ at2(j) \in Int BY <1>3
    <3>. HIDE DEF at2
    <3>2. i < j \/ j < i BY <2>2, <3>1
    <3>3. at2(i) > at2(j) \/ at2(j) > at2(i) \/ at2(i) = at2(j) BY <3>1
    <3>. QED BY <1>4, <3>2, <3>3 DEF at2
  <2>3. ASSUME NEW i \in U, NEW j \in U, NEW k \in U, <<i, j>> \in R, <<j, k>> \in R
        PROVE  <<i, k>> \in R
    <3>1. /\ i \in Nat /\ j \in Nat /\ k \in Nat
          /\ at2(i) \in Int /\ at2(j) \in Int /\ at2(k) \in Int
      BY <1>3
    <3>2. at2(i) > at2(j) \/ (at2(i) = at2(j) /\ i < j) BY <1>4, <2>3
    <3>3. at2(j) > at2(k) \/ (at2(j) = at2(k) /\ j < k) BY <1>4, <2>3
    <3>. HIDE DEF at2
    <3>4. at2(i) > at2(k) \/ (at2(i) = at2(k) /\ i < k) BY <3>1, <3>2, <3>3
    <3>5. later(i, k) BY <3>4 DEF at2
    <3>. QED BY <1>4, <3>5
  <2>. QED BY <2>1, <2>2, <2>3 DEF IsOrder
<1>6. PICK m : ArrangedBy(U, R, order, m)
  <2>. HIDE DEF U, R
  <2>. QED BY <1>2, <1>5, ArrangedFacts
<1>. HIDE DEF U, R, order
<1>7. m \in Nat /\ m = Cardinality(U) /\ DOMAIN order = 1 .. m
      /\ \A n \in 1 .. m : order[n] \in U /\ \A i \in U : \E k \in 1 .. m : order[k] = i
  BY <1>6 DEF ArrangedBy, ToSet
<1>8. \A i \in U : i \in DOMAIN list BY <1>2
<1>. HIDE DEF list
<1>9. /\ DOMAIN tail = 1 .. m /\ \A n \in 1 .. m : tail[n] = list[order[n]]
      /\ tail = [n \in 1 .. m |-> tail[n]]
  BY <1>7
<1>. HIDE DEF tail
<1>10. tail \in Seq(ToSet(list)) /\ Len(tail) = m
  <2>1. \A n \in 1 .. m : tail[n] \in ToSet(list) BY <1>7, <1>8, <1>9 DEF ToSet
  <2>2. tail \in [1 .. m -> ToSet(list)] BY <1>9, <2>1
  <2>. QED BY <1>7, <2>2
<1>11. PICK k, o : ActsBy(list, act, k, o) BY ActionableFacts DEF list
<1>. HIDE DEF act
<1>12. act \in Seq(ToSet(list)) /\ Len(act) = k /\ k = Cardinality(Open(list)) /\ k \in Nat
  BY <1>11 DEF ActsBy
<1>13. /\ Len(act \o tail) = k + m /\ \A i \in 1 .. k : (act \o tail)[i] = act[i]
       /\ ToSet(act \o tail) = ToSet(act) \cup ToSet(tail)
  BY <1>10, <1>12, JoinedLists
<1>14. ToSet(act) \cup ToSet(tail) = ToSet(list)
  <2>1. ToSet(act) \subseteq ToSet(list) /\ ToSet(tail) \subseteq ToSet(list)
    BY <1>10, <1>12 DEF ToSet
  <2>2. ASSUME NEW i \in DOMAIN list PROVE list[i] \in ToSet(act) \cup ToSet(tail)
    <3>1. CASE i \in U
      <4>1. \E n \in 1 .. m : order[n] = i BY <1>6, <3>1 DEF ArrangedBy, ToSet
      <4>. QED BY <1>9, <4>1 DEF ToSet
    <3>2. CASE i \in Open(list)
      <4>1. PICK n \in 1 .. k : o[n] = i BY <1>11, <3>2 DEF ActsBy
      <4>2. act[n] = list[i] /\ n \in DOMAIN act BY <1>11, <4>1 DEF ActsBy
      <4>. QED BY <4>2 DEF ToSet
    <3>. QED BY <1>2, <3>1, <3>2
  <2>. QED BY <2>1, <2>2 DEF ToSet
<1>15. k + m = Len(list) BY <1>2, <1>7, <1>12
<1>. QED BY <1>1, <1>12, <1>13, <1>14, <1>15 DEF list, act

\* A sequence of sequences, one after the other.
LEMMA ConcatSteps ==
  ASSUME NEW seqs, Len(seqs) \in Nat
  PROVE  \E all : /\ all[0] = <<>> /\ all[Len(seqs)] = Concat(seqs)
                  /\ \A i \in 1 .. Len(seqs) : all[i] = all[i - 1] \o seqs[i]
<1>. DEFINE n == Len(seqs)
            Joins(s, m) == s = [i \in 0 .. m |-> IF i = 0 THEN <<>> ELSE s[i - 1] \o seqs[i]]
            P == {m \in 0 .. n : \E s : Joins(s, m)}
            all == CHOOSE s : Joins(s, n)
<1>1. 0 \in P
  <2>1. Joins([i \in 0 .. 0 |-> <<>>], 0) OBVIOUS
  <2>. HIDE DEF Joins
  <2>. QED BY <2>1
<1>2. ASSUME NEW m \in 1 .. n, m - 1 \in P PROVE m \in P
  <2>1. PICK s : Joins(s, m - 1) BY <1>2
  <2>. DEFINE t == [i \in 0 .. m |-> IF i = m THEN s[m - 1] \o seqs[m] ELSE s[i]]
  <2>2. /\ \A i \in 0 .. m - 1 : s[i] = IF i = 0 THEN <<>> ELSE s[i - 1] \o seqs[i]
        /\ \A i \in 0 .. m - 1 : t[i] = s[i]
        /\ t[m] = s[m - 1] \o seqs[m]
    BY <2>1
  <2>. DOMAIN t = 0 .. m OBVIOUS
  <2>3. t = [i \in 0 .. m |-> t[i]] OBVIOUS
  <2>. HIDE DEF t
  <2>4. ASSUME NEW i \in 0 .. m PROVE t[i] = IF i = 0 THEN <<>> ELSE t[i - 1] \o seqs[i]
    <3>1. CASE i = m
      <4>1. m - 1 \in 0 .. m - 1 /\ t[m - 1] = s[m - 1] /\ m # 0 BY <2>2
      <4>. QED BY <2>2, <3>1, <4>1
    <3>2. CASE i # m
      <4>1. i \in 0 .. m - 1 /\ (i # 0 => i - 1 \in 0 .. m - 1) BY <3>2
      <4>. QED BY <2>2, <4>1
    <3>. QED BY <3>1, <3>2
  <2>5. Joins(t, m) BY <2>3, <2>4
  <2>. QED BY <2>5
<1>3. n \in P
  <2>. HIDE DEF P
  <2>1. \A i \in 0 .. n : i \in P BY <1>1, <1>2, StepByStep
  <2>. QED BY <2>1
<1>4. Concat(seqs) = all[n] BY Zenon DEF Concat
<1>5. Joins(all, n)
  <2>1. \E s : Joins(s, n) BY <1>3
  <2>. QED BY <2>1, Zenon
<1>. HIDE DEF all
<1>6. all[0] = <<>> /\ \A i \in 1 .. n : all[i] = all[i - 1] \o seqs[i] BY <1>5
<1>. QED BY <1>4, <1>6

LEMMA OnePlacedMore ==
  ASSUME NEW Elem, NEW seqs, NEW m \in Nat, NEW p \in Seq(Elem), seqs[m + 1] \in Seq(Elem),
         \E c, j : PlacedBy(seqs, p, m, c, j)
  PROVE  \E c, j : PlacedBy(seqs, p \o seqs[m + 1], m + 1, c, j)
<1>. DEFINE q == seqs[m + 1]
            k == Len(p)
            n == Len(q)
            all == p \o q
<1>1. PICK c, j : PlacedBy(seqs, p, m, c, j) OBVIOUS
<1>2. k \in Nat /\ n \in Nat OBVIOUS
<1>3. /\ Len(all) = k + n
      /\ \A i \in 1 .. k : all[i] = p[i]
      /\ \A i \in 1 .. n : all[k + i] = q[i]
  BY JoinedLists
<1>. DEFINE c2 == [x \in 1 .. k + n |-> IF x <= k THEN c[x] ELSE m + 1]
            j2 == [x \in 1 .. k + n |-> IF x <= k THEN j[x] ELSE x - k]
<1>4. \A x \in 1 .. k : x \in 1 .. k + n /\ c2[x] = c[x] /\ j2[x] = j[x] BY <1>2
<1>5. \A i \in 1 .. n : k + i \in 1 .. k + n /\ c2[k + i] = m + 1 /\ j2[k + i] = i BY <1>2
<1>. HIDE DEF c2, j2, all, k, n, q
<1>6. \A x \in 1 .. k + n : x \in 1 .. k \/ \E i \in 1 .. n : x = k + i
  <2>. SUFFICES ASSUME NEW x \in 1 .. k + n, ~(x \in 1 .. k) PROVE \E i \in 1 .. n : x = k + i
    OBVIOUS
  <2>1. x - k \in 1 .. n /\ x = k + (x - k) BY <1>2
  <2>. QED BY <2>1
<1>7. /\ \A x \in 1 .. k : /\ c[x] \in 1 .. m /\ j[x] \in 1 .. Len(seqs[c[x]])
                           /\ p[x] = seqs[c[x]][j[x]]
      /\ \A x, y \in 1 .. k : c[x] = c[y] /\ j[x] = j[y] => x = y
      /\ \A i \in 1 .. m : \A z \in 1 .. Len(seqs[i]) : \E x \in 1 .. k : c[x] = i /\ j[x] = z
  BY <1>1 DEF PlacedBy, k
<1>8. \A i \in 1 .. m : i \in 1 .. m + 1 /\ i # m + 1 OBVIOUS
<1>9. m + 1 \in 1 .. m + 1 /\ Len(seqs[m + 1]) = n /\ seqs[m + 1] = q BY DEF n, q
<1>10. ASSUME NEW x \in 1 .. k + n
       PROVE  /\ c2[x] \in 1 .. m + 1 /\ j2[x] \in 1 .. Len(seqs[c2[x]])
              /\ all[x] = seqs[c2[x]][j2[x]]
  <2>1. CASE x \in 1 .. k BY <1>3, <1>4, <1>7, <1>8, <2>1
  <2>2. ASSUME NEW i \in 1 .. n, x = k + i
        PROVE  /\ c2[x] \in 1 .. m + 1 /\ j2[x] \in 1 .. Len(seqs[c2[x]])
               /\ all[x] = seqs[c2[x]][j2[x]]
    BY <1>3, <1>5, <1>9, <2>2
  <2>. QED BY <1>6, <2>1, <2>2
<1>11. ASSUME NEW x \in 1 .. k + n, NEW y \in 1 .. k + n, c2[x] = c2[y], j2[x] = j2[y]
       PROVE  x = y
  <2>1. CASE x \in 1 .. k /\ y \in 1 .. k BY <1>4, <1>7, <1>11, <2>1
  <2>2. CASE x \in 1 .. k /\ ~(y \in 1 .. k)
    <3>1. c2[x] # m + 1 BY <1>4, <1>7, <1>8, <2>2
    <3>2. c2[y] = m + 1 BY <1>5, <1>6, <2>2
    <3>. QED BY <1>11, <3>1, <3>2
  <2>3. CASE ~(x \in 1 .. k) /\ y \in 1 .. k
    <3>1. c2[y] # m + 1 BY <1>4, <1>7, <1>8, <2>3
    <3>2. c2[x] = m + 1 BY <1>5, <1>6, <2>3
    <3>. QED BY <1>11, <3>1, <3>2
  <2>4. CASE ~(x \in 1 .. k) /\ ~(y \in 1 .. k)
    <3>1. PICK i \in 1 .. n : x = k + i BY <1>6, <2>4
    <3>2. PICK l \in 1 .. n : y = k + l BY <1>6, <2>4
    <3>3. i = l BY <1>5, <1>11, <3>1, <3>2
    <3>. QED BY <3>1, <3>2, <3>3
  <2>. QED BY <2>1, <2>2, <2>3, <2>4
<1>12. ASSUME NEW i \in 1 .. m + 1, NEW z \in 1 .. Len(seqs[i])
       PROVE  \E x \in 1 .. k + n : c2[x] = i /\ j2[x] = z
  <2>1. CASE i = m + 1
    <3>1. z \in 1 .. n BY <1>9, <2>1
    <3>. QED BY <1>5, <2>1, <3>1
  <2>2. CASE i # m + 1
    <3>1. i \in 1 .. m BY <2>2
    <3>2. PICK x \in 1 .. k : c[x] = i /\ j[x] = z BY <1>7, <3>1
    <3>. QED BY <1>4, <3>2
  <2>. QED BY <2>1, <2>2
<1>13. PlacedBy(seqs, all, m + 1, c2, j2) BY <1>3, <1>10, <1>11, <1>12 DEF PlacedBy
<1>. QED BY <1>13 DEF all, q

LEMMA ConcatFacts ==
  ASSUME NEW Elem, NEW seqs, Len(seqs) \in Nat, \A i \in 1 .. Len(seqs) : seqs[i] \in Seq(Elem)
  PROVE  /\ Concat(seqs) \in Seq(Elem)
         /\ \E c, j : PlacedBy(seqs, Concat(seqs), Len(seqs), c, j)
<1>. DEFINE n == Len(seqs)
<1>1. PICK all : /\ all[0] = <<>> /\ all[n] = Concat(seqs)
                 /\ \A i \in 1 .. n : all[i] = all[i - 1] \o seqs[i]
  BY ConcatSteps
<1>. HIDE DEF n
<1>. DEFINE P == {i \in 0 .. n : all[i] \in Seq(Elem) /\ \E c, j : PlacedBy(seqs, all[i], i, c, j)}
<1>2. n \in Nat BY DEF n
<1>3. 0 \in P
  <2>1. all[0] \in Seq(Elem) /\ Len(all[0]) = 0 BY <1>1
  <2>2. PlacedBy(seqs, all[0], 0, <<>>, <<>>) BY <2>1 DEF PlacedBy
  <2>. QED BY <1>2, <2>1, <2>2
<1>4. ASSUME NEW i \in 1 .. n, i - 1 \in P PROVE i \in P
  <2>. DEFINE m == i - 1
  <2>1. m \in Nat /\ m + 1 = i BY <1>2
  <2>2. all[m] \in Seq(Elem) /\ \E c, j : PlacedBy(seqs, all[m], m, c, j) BY <1>4
  <2>3. all[i] = all[m] \o seqs[i] BY <1>1
  <2>4. seqs[i] \in Seq(Elem) BY DEF n
  <2>. HIDE DEF m
  <2>5. \E c, j : PlacedBy(seqs, all[m] \o seqs[m + 1], m + 1, c, j)
    BY <2>1, <2>2, <2>4, OnePlacedMore
  <2>6. all[i] \in Seq(Elem) BY <2>2, <2>3, <2>4
  <2>7. \E c, j : PlacedBy(seqs, all[i], i, c, j) BY <2>1, <2>3, <2>5
  <2>8. i \in 0 .. n BY <1>2
  <2>. QED BY <2>6, <2>7, <2>8
<1>. HIDE DEF P
<1>5. n \in P
  <2>1. \A i \in 0 .. n : i \in P BY <1>2, <1>3, <1>4, StepByStep
  <2>. QED BY <1>2, <2>1
<1>. QED BY <1>1, <1>5 DEF P, n

LEMMA ListFacts ==
  ASSUME NEW classes, IsSchool(classes), NEW s
  PROVE  \E cl, ta : ListedBy(classes, s, StudentOverview(classes, s).practicals, cl, ta)
<1>. DEFINE I == {i \in DOMAIN classes : s \in Active(classes[i])}
            joined == Kept(classes, I)
            of(class) ==
              [i \in DOMAIN Published(class) |-> StudentPractical(class, Published(class)[i], s)]
            seqs == [i \in DOMAIN joined |-> of(joined[i])]
            list == StudentOverview(classes, s).practicals
<1>1. list = Concat(seqs) BY DEF StudentOverview
<1>2. /\ Len(classes) \in Nat /\ DOMAIN classes = 1 .. Len(classes)
      /\ \A i \in DOMAIN classes : IsClass(classes[i])
  BY SchoolFacts DEF IsSchool
<1>3. PICK m, g : KeptBy(classes, I, joined, m, g)
  <2>1. I \in SUBSET (1 .. Len(classes)) BY <1>2
  <2>. HIDE DEF I
  <2>. QED BY <1>2, <2>1, KeptFacts
<1>4. \A i \in I : i \in DOMAIN classes /\ s \in Active(classes[i]) OBVIOUS
<1>. HIDE DEF joined, I, list
<1>5. /\ m \in Nat /\ DOMAIN joined = 1 .. m
      /\ \A i \in 1 .. m : joined[i] = classes[g[i]] /\ g[i] \in I /\ IsClass(joined[i])
      /\ \A i, j \in 1 .. m : g[i] = g[j] => i = j
      /\ \A i \in I : \E k \in 1 .. m : g[k] = i
  BY <1>2, <1>3, <1>4 DEF KeptBy
<1>. DEFINE Elem == {StudentPractical(classes[i], task, s) :
                       i \in DOMAIN classes, task \in AllTasks(classes)}
            size(i) == Len(Published(joined[i]))
<1>6. ASSUME NEW i \in 1 .. m
      PROVE  /\ seqs[i] \in Seq(Elem) /\ Len(seqs[i]) = size(i)
             /\ size(i) \in Nat /\ DOMAIN Published(joined[i]) = 1 .. size(i)
             /\ \A k \in 1 .. size(i) :
                  seqs[i][k] = StudentPractical(joined[i], Published(joined[i])[k], s)
  <2>. DEFINE tasks == Published(joined[i])
              p == seqs[i]
  <2>1. /\ size(i) \in Nat /\ DOMAIN tasks = 1 .. size(i)
        /\ \A k \in 1 .. size(i) : tasks[k] \in ToSet(joined[i].tasks)
    BY <1>5, ClassFacts
  <2>2. p = [k \in DOMAIN tasks |-> StudentPractical(joined[i], tasks[k], s)] BY <1>5
  <2>3. \A k \in 1 .. size(i) : tasks[k] \in AllTasks(classes) BY <1>4, <1>5, <2>1 DEF AllTasks
  <2>. HIDE DEF p, tasks, size
  <2>4. p = [k \in 1 .. size(i) |-> p[k]] /\ DOMAIN p = 1 .. size(i)
        /\ \A k \in 1 .. size(i) : p[k] = StudentPractical(joined[i], tasks[k], s)
    BY <2>1, <2>2
  <2>5. \A k \in 1 .. size(i) : p[k] \in Elem BY <1>4, <1>5, <2>3, <2>4
  <2>. HIDE DEF Elem
  <2>6. p \in [1 .. size(i) -> Elem] BY <2>4, <2>5
  <2>7. p \in Seq(Elem) /\ Len(p) = size(i) BY <2>1, <2>6
  <2>. QED BY <2>1, <2>4, <2>7 DEF p, tasks
<1>7. Len(seqs) = m
  <2>1. seqs = [i \in 1 .. m |-> seqs[i]] BY <1>5
  <2>. HIDE DEF seqs
  <2>. QED BY <1>5, <2>1, IsSequence
<1>. HIDE DEF seqs, Elem
<1>8. list \in Seq(Elem) /\ \E c, j : PlacedBy(seqs, list, m, c, j)
  BY <1>1, <1>5, <1>6, <1>7, ConcatFacts
<1>9. PICK c, j : PlacedBy(seqs, list, m, c, j) BY <1>8
<1>10. Len(list) \in Nat /\ DOMAIN list = 1 .. Len(list) BY <1>8
<1>. DEFINE cl == [x \in DOMAIN list |-> g[c[x]]]
            ta == [x \in DOMAIN list |-> Published(classes[g[c[x]]])[j[x]]]
<1>11. ASSUME NEW x \in DOMAIN list
       PROVE  /\ cl[x] = g[c[x]] /\ c[x] \in 1 .. m /\ j[x] \in 1 .. size(c[x])
              /\ cl[x] \in I /\ joined[c[x]] = classes[cl[x]]
              /\ ta[x] = Published(classes[cl[x]])[j[x]]
              /\ list[x] = StudentPractical(classes[cl[x]], ta[x], s)
  <2>1. cl[x] = g[c[x]] /\ ta[x] = Published(classes[cl[x]])[j[x]] OBVIOUS
  <2>. HIDE DEF cl, ta
  <2>2. c[x] \in 1 .. m /\ j[x] \in 1 .. Len(seqs[c[x]]) /\ list[x] = seqs[c[x]][j[x]]
    BY <1>9, <1>10 DEF PlacedBy
  <2>3. joined[c[x]] = classes[cl[x]] /\ cl[x] \in I BY <1>5, <2>1, <2>2
  <2>4. j[x] \in 1 .. size(c[x]) BY <1>6, <2>2
  <2>5. list[x] = StudentPractical(joined[c[x]], Published(joined[c[x]])[j[x]], s)
    BY <1>6, <2>2, <2>4
  <2>. QED BY <2>1, <2>2, <2>3, <2>4, <2>5
<1>. HIDE DEF cl, ta
<1>12. \A x \in DOMAIN list : ta[x] \in ToSet(Published(classes[cl[x]]))
  <2>. SUFFICES ASSUME NEW x \in DOMAIN list PROVE ta[x] \in ToSet(Published(classes[cl[x]]))
    OBVIOUS
  <2>1. DOMAIN Published(classes[cl[x]]) = 1 .. size(c[x]) /\ j[x] \in 1 .. size(c[x])
    BY <1>6, <1>11
  <2>. QED BY <1>11, <2>1 DEF ToSet
<1>13. ASSUME NEW x \in DOMAIN list, NEW y \in DOMAIN list, ta[x].id = ta[y].id PROVE x = y
  <2>1. cl[x] \in DOMAIN classes /\ cl[y] \in DOMAIN classes BY <1>4, <1>11
  <2>2. /\ ta[x] \in ToSet(classes[cl[x]].tasks) /\ ta[y] \in ToSet(classes[cl[y]].tasks)
    BY <1>2, <1>12, <2>1, ClassFacts
  <2>3. cl[x] = cl[y] BY <1>13, <2>1, <2>2 DEF IsSchool
  <2>4. c[x] = c[y] BY <1>5, <1>11, <2>3
  <2>5. DOMAIN Published(classes[cl[x]]) = 1 .. size(c[x]) BY <1>6, <1>11
  <2>6. j[x] = j[y]
    <3>1. /\ j[x] \in DOMAIN Published(classes[cl[x]]) /\ j[y] \in DOMAIN Published(classes[cl[x]])
          /\ ta[x] = Published(classes[cl[x]])[j[x]] /\ ta[y] = Published(classes[cl[x]])[j[y]]
      BY <1>11, <2>3, <2>4, <2>5
    <3>. QED BY <1>2, <1>13, <2>1, <3>1, ClassFacts
  <2>. QED BY <1>9, <1>10, <2>4, <2>6 DEF PlacedBy
<1>14. ASSUME NEW i \in DOMAIN classes, s \in Active(classes[i]),
              NEW task \in ToSet(Published(classes[i]))
       PROVE  \E x \in DOMAIN list : cl[x] = i /\ ta[x] = task
  <2>1. i \in I BY <1>14 DEF I
  <2>2. PICK k \in 1 .. m : g[k] = i BY <1>5, <2>1
  <2>3. joined[k] = classes[i] BY <1>5, <2>2
  <2>4. PICK z \in DOMAIN Published(classes[i]) : Published(classes[i])[z] = task BY DEF ToSet
  <2>5. z \in 1 .. Len(seqs[k]) BY <1>6, <2>3, <2>4
  <2>6. PICK x \in 1 .. Len(list) : c[x] = k /\ j[x] = z BY <1>9, <2>5 DEF PlacedBy
  <2>7. x \in DOMAIN list BY <1>10
  <2>. QED BY <1>11, <2>2, <2>4, <2>6, <2>7
<1>15. ListedBy(classes, s, list, cl, ta) BY <1>4, <1>10, <1>11, <1>12, <1>13, <1>14 DEF ListedBy
<1>. QED BY <1>15 DEF list

\* What a student is told of one task.
LEMMA ToldOfTask ==
  ASSUME NEW class, NEW task, IsTask(task), NEW s, None # "shown"
  PROVE  LET p == StudentPractical(class, task, s) IN
         /\ p.class = class.id /\ p.id = task.id /\ p.deadline = task.deadline
         /\ p.latest = IF s \in Submitters(task) THEN Highest(Of(s, task.attempts)) ELSE None
         /\ p.latest # None <=> s \in Submitters(task)
         /\ p.latest # None => p.latest \in task.attempts
         /\ p.feedback => \E a \in p.attempts : a.number = p.latest.number /\ a.marks # None
<1>. DEFINE mine == Of(s, task.attempts)
            latest == Highest(mine)
            p == StudentPractical(class, task, s)
            told(a) == [number |-> a.number, feedback |-> a.review = "PUBLISHED",
                        marks |-> IF a.review = "PUBLISHED" THEN "shown" ELSE None]
<1>1. /\ p.class = class.id /\ p.id = task.id /\ p.deadline = task.deadline
      /\ p.latest = IF mine = {} THEN None ELSE latest
      /\ p.attempts = {told(a) : a \in mine}
  BY DEF StudentPractical
<1>2. p.feedback <=> mine # {} /\ latest.review = "PUBLISHED"
  <2>1. p.feedback = (mine # {} /\ latest.review = "PUBLISHED") BY DEF StudentPractical
  <2>. QED BY <2>1
<1>3. s \in Submitters(task) <=> mine # {} BY DEF Submitters, Of
<1>4. mine # {} => latest \in mine /\ latest \in task.attempts /\ latest # None
  <2>1. mine # {} => latest \in task.attempts /\ latest.student = s /\ latest # None
    BY <1>3, HighestFacts
  <2>. QED BY <2>1 DEF Of
<1>5. \A a : told(a).number = a.number /\ (a.review = "PUBLISHED" => told(a).marks = "shown")
  OBVIOUS
<1>. HIDE DEF p, told, mine, latest
<1>6. p.feedback => \E a \in p.attempts : a.number = p.latest.number /\ a.marks # None
  <2>. SUFFICES ASSUME p.feedback PROVE \E a \in p.attempts : a.number = p.latest.number /\ a.marks # None
    OBVIOUS
  <2>1. mine # {} /\ latest.review = "PUBLISHED" /\ latest \in mine /\ p.latest = latest
    BY <1>1, <1>2, <1>4
  <2>2. told(latest) \in p.attempts /\ told(latest).number = latest.number /\ told(latest).marks = "shown"
    BY <1>1, <1>5, <2>1
  <2>. QED BY <2>1, <2>2
<1>. QED BY <1>1, <1>3, <1>4, <1>6 DEF p, mine, latest

\* A practical is under one filter of the list.
LEMMA OneFilter ==
  ASSUME NEW p
  PROVE  Cardinality({f \in {"TO_DO", "IN_PROGRESS", "SUBMITTED", "FEEDBACK"} : Shown(StateFor(p), f)}) = 1
<1>. DEFINE S == {f \in {"TO_DO", "IN_PROGRESS", "SUBMITTED", "FEEDBACK"} : Shown(StateFor(p), f)}
            state == StateFor(p)
<1>1. state \in {"FEEDBACK_AVAILABLE", "SUBMITTED", "IN_PROGRESS", "NOT_SUBMITTED"} BY DEF StateFor
<1>2. /\ Shown(state, "TO_DO") <=> state = "NOT_SUBMITTED"
      /\ Shown(state, "FEEDBACK") <=> state = "FEEDBACK_AVAILABLE"
      /\ Shown(state, "SUBMITTED") <=> state = "SUBMITTED"
      /\ Shown(state, "IN_PROGRESS") <=> state = "IN_PROGRESS"
  BY DEF Shown
<1>. HIDE DEF state
<1>3. \E f : S = {f}
  <2>0. S = {f \in {"TO_DO", "IN_PROGRESS", "SUBMITTED", "FEEDBACK"} : Shown(state, f)} BY DEF state
  <2>. HIDE DEF S
  <2>1. CASE state = "FEEDBACK_AVAILABLE"
    <3>1. S = {"FEEDBACK"} BY <1>2, <2>0, <2>1
    <3>. QED BY <3>1
  <2>2. CASE state = "SUBMITTED"
    <3>1. S = {"SUBMITTED"} BY <1>2, <2>0, <2>2
    <3>. QED BY <3>1
  <2>3. CASE state = "IN_PROGRESS"
    <3>1. S = {"IN_PROGRESS"} BY <1>2, <2>0, <2>3
    <3>. QED BY <3>1
  <2>4. CASE state = "NOT_SUBMITTED"
    <3>1. S = {"TO_DO"} BY <1>2, <2>0, <2>4
    <3>. QED BY <3>1
  <2>. QED BY <1>1, <2>1, <2>2, <2>3, <2>4
<1>. QED BY <1>3, FS_Singleton

\* The dashboard, the progress page and the links of a list of practicals agree.
LEMMA ToDoFacts ==
  ASSUME NEW overview, IsList(overview.practicals), overview.total = Len(overview.practicals),
         overview.submitted = Cardinality(HandedIn(overview.practicals))
  PROVE  LET list == overview.practicals
             act == Actionable(list)
             todo == Dashboard(overview).todo
             progress == StudentProgress(overview) IN
         /\ Len(todo) = Len(act) /\ DOMAIN todo = 1 .. Len(act)
         /\ \A i \in DOMAIN todo : todo[i].id = act[i].id
         /\ \A i \in DOMAIN todo : todo[i].opens = ~Overdue(act[i])
         /\ \A i \in DOMAIN todo : todo[i].label = "Overdue" <=> Overdue(act[i])
         /\ progress.awaiting = Len(todo) /\ progress.awaiting + progress.submitted = progress.total
         /\ overview.classes # <<>> /\ list # <<>> =>
              (Dashboard(overview).state = "ALL_SUBMITTED" <=> progress.allSubmitted)
<1>. DEFINE list == overview.practicals
            act == Actionable(list)
            todo == Dashboard(overview).todo
            progress == StudentProgress(overview)
            label(p) == IF Overdue(p) THEN "Overdue" ELSE IF p.working THEN "In progress" ELSE "Not started"
            row(p) == [id |-> p.id, label |-> label(p), opens |-> ~Overdue(p)]
            k == Cardinality(Open(list))
            d == Cardinality(HandedIn(list))
<1>1. todo = [i \in DOMAIN act |-> row(act[i])] BY DEF Dashboard
<1>2. /\ Len(act) = k /\ DOMAIN act = 1 .. k /\ (act = <<>> <=> Open(list) = {})
  <2>1. PICK m, o : ActsBy(list, act, m, o) BY ActionableFacts
  <2>. QED BY <2>1 DEF ActsBy
<1>3. /\ k + d = Len(list) /\ k \in Nat /\ d \in Nat /\ (Open(list) = {} <=> k = 0) BY OpenOrHanded
<1>4. \A p : row(p).id = p.id /\ row(p).label = label(p) /\ row(p).opens = ~Overdue(p) OBVIOUS
<1>5. \A p : label(p) = "Overdue" <=> Overdue(p) OBVIOUS
<1>6. /\ progress.total = overview.total /\ progress.submitted = overview.submitted
      /\ progress.awaiting = IF overview.total > overview.submitted
                             THEN overview.total - overview.submitted ELSE 0
  BY DEF StudentProgress
<1>7. progress.allSubmitted <=> overview.total > 0 /\ overview.submitted = overview.total
  <2>1. progress.allSubmitted = (overview.total > 0 /\ overview.submitted = overview.total)
    BY DEF StudentProgress
  <2>. QED BY <2>1
<1>8. Dashboard(overview).state
        = IF overview.classes = <<>> THEN "NO_CLASSES"
          ELSE IF list = <<>> THEN "NO_PRACTICALS"
          ELSE IF act = <<>> THEN "ALL_SUBMITTED" ELSE "ACTIONABLE"
  BY DEF Dashboard
<1>9. list # <<>> => Len(list) > 0
  <2>1. list # <<>> => Len(list) # 0 BY DEF IsList
  <2>. QED BY <2>1 DEF IsList
<1>. HIDE DEF todo, act, progress, k, d, list
<1>10. Len(todo) = k /\ DOMAIN todo = 1 .. k
  <2>1. DOMAIN todo = 1 .. k /\ todo = [i \in 1 .. k |-> todo[i]] BY <1>1, <1>2
  <2>. QED BY <1>3, <2>1, IsSequence
<1>11. \A i \in DOMAIN todo : todo[i] = row(act[i]) BY <1>1, <1>2, <1>10
<1>. HIDE DEF row, label
<1>12. /\ \A i \in DOMAIN todo : todo[i].id = act[i].id
       /\ \A i \in DOMAIN todo : todo[i].opens = ~Overdue(act[i])
       /\ \A i \in DOMAIN todo : todo[i].label = "Overdue" <=> Overdue(act[i])
  <2>1. \A i \in DOMAIN todo : todo[i].id = act[i].id BY <1>4, <1>11
  <2>2. \A i \in DOMAIN todo : todo[i].opens = ~Overdue(act[i]) BY <1>4, <1>11
  <2>3. \A i \in DOMAIN todo : todo[i].label = label(act[i]) BY <1>4, <1>11
  <2>. QED BY <1>5, <2>1, <2>2, <2>3
<1>13. overview.total = Len(list) /\ overview.submitted = d BY DEF list, d
<1>14. progress.awaiting = k /\ progress.awaiting + progress.submitted = progress.total
  BY <1>3, <1>6, <1>13
<1>15. overview.classes # <<>> /\ list # <<>> =>
         (Dashboard(overview).state = "ALL_SUBMITTED" <=> progress.allSubmitted)
  <2>. SUFFICES ASSUME overview.classes # <<>>, list # <<>>
                PROVE  Dashboard(overview).state = "ALL_SUBMITTED" <=> progress.allSubmitted
    OBVIOUS
  <2>1. Dashboard(overview).state = "ALL_SUBMITTED" <=> k = 0 BY <1>2, <1>3, <1>8
  <2>2. progress.allSubmitted <=> k = 0 BY <1>3, <1>7, <1>9, <1>13
  <2>. QED BY <2>1, <2>2
<1>. QED BY <1>2, <1>10, <1>12, <1>14, <1>15 DEF todo, act, progress, list

LEMMA ToldFacts ==
  ASSUME NEW classes, IsSchool(classes), NEW s, None # "shown"
  PROVE  \E cl, ta : ToldBy(classes, s, StudentOverview(classes, s).practicals, cl, ta)
<1>. DEFINE list == StudentOverview(classes, s).practicals
<1>1. PICK cl, ta : ListedBy(classes, s, list, cl, ta) BY ListFacts
<1>. HIDE DEF list
<1>2. ASSUME NEW x \in DOMAIN list
      PROVE  /\ IsTask(ta[x]) /\ ta[x] \in ToSet(classes[cl[x]].tasks)
             /\ list[x].class = classes[cl[x]].id /\ list[x].id = ta[x].id
             /\ list[x].deadline \in Int \/ list[x].deadline = None
             /\ list[x].latest = IF s \in Submitters(ta[x]) THEN Highest(Of(s, ta[x].attempts)) ELSE None
             /\ list[x].latest # None <=> s \in Submitters(ta[x])
             /\ list[x].latest # None => list[x].latest.at \in Int
             /\ list[x].feedback =>
                  \E a \in list[x].attempts : a.number = list[x].latest.number /\ a.marks # None
  <2>. DEFINE class == classes[cl[x]]
              task == ta[x]
  <2>1. /\ cl[x] \in DOMAIN classes /\ task \in ToSet(Published(class))
        /\ list[x] = StudentPractical(class, task, s)
    BY <1>1 DEF ListedBy
  <2>2. IsClass(class) BY <2>1 DEF IsSchool
  <2>. HIDE DEF class, task
  <2>3. task \in ToSet(class.tasks)
    <3>1. ToSet(Published(class)) = {t \in ToSet(class.tasks) : t.status = "PUBLISHED"}
      BY <2>2, ClassFacts
    <3>. QED BY <2>1, <3>1
  <2>4. IsTask(task)
    <3>1. \A t \in ToSet(class.tasks) : IsTask(t) BY <2>2, ClassFacts
    <3>. QED BY <2>3, <3>1
  <2>5. task \in AllTasks(classes) BY <2>1, <2>3 DEF AllTasks, class
  <2>6. \A a \in task.attempts : a.at \in Int
    <3>1. \A a \in task.attempts : a \in AllAttempts(classes) BY <2>5 DEF AllAttempts
    <3>. QED BY <3>1 DEF IsSchool
  <2>7. task.deadline \in Int \/ task.deadline = None BY <2>4 DEF IsTask
  <2>. DEFINE p == StudentPractical(class, task, s)
  <2>8. /\ p.class = class.id /\ p.id = task.id /\ p.deadline = task.deadline
        /\ p.latest = IF s \in Submitters(task) THEN Highest(Of(s, task.attempts)) ELSE None
        /\ p.latest # None <=> s \in Submitters(task)
        /\ p.latest # None => p.latest \in task.attempts
        /\ p.feedback => \E a \in p.attempts : a.number = p.latest.number /\ a.marks # None
    BY <2>4, ToldOfTask
  <2>9. list[x] = p BY <2>1
  <2>. HIDE DEF p
  <2>10. p.latest # None => p.latest.at \in Int BY <2>6, <2>8
  <2>. QED BY <2>3, <2>4, <2>7, <2>8, <2>9, <2>10 DEF class, task
<1>3. IsList(list)
  <2>1. Len(list) \in Nat /\ DOMAIN list = 1 .. Len(list) BY <1>1 DEF ListedBy
  <2>. QED BY <1>2, <2>1 DEF IsList
<1>4. ToldBy(classes, s, list, cl, ta) BY <1>1, <1>2, <1>3 DEF ToldBy
<1>. QED BY <1>4 DEF list

\* The totals a student is told.
LEMMA StudentTotals ==
  ASSUME NEW classes, NEW s
  PROVE  LET overview == StudentOverview(classes, s) IN
         /\ overview.total = Len(overview.practicals)
         /\ overview.submitted = Cardinality(HandedIn(overview.practicals))
         /\ overview.completion = Percent(overview.submitted, overview.total)
BY DEF StudentOverview, HandedIn

\* The pages of a student agree on what is left to do and what was submitted.
LEMMA StudentPages ==
  ASSUME NEW classes, IsSchool(classes), NEW s, None # "shown"
  PROVE  LET overview == StudentOverview(classes, s)
             list == overview.practicals
             todo == Dashboard(overview).todo
             listed == PracticalsList(overview)
             progress == StudentProgress(overview)
             filters(p) == {f \in {"TO_DO", "IN_PROGRESS", "SUBMITTED", "FEEDBACK"} : Shown(StateFor(p), f)} IN
         /\ Len(listed) = Len(list) /\ ToSet(listed) = ToSet(list)
         /\ \A p \in ToSet(list) : Cardinality(filters(p)) = 1
         /\ progress.awaiting = Len(todo) /\ progress.awaiting + progress.submitted = progress.total
         /\ overview.classes # <<>> /\ list # <<>> =>
              (Dashboard(overview).state = "ALL_SUBMITTED" <=> progress.allSubmitted)
         /\ \A i \in DOMAIN todo :
              /\ todo[i].id = listed[i].id
              /\ todo[i].opens <=> WorkspaceAction(listed[i]) # "closed"
              /\ \A j \in 1 .. i : todo[j].label = "Overdue" => todo[i].label = "Overdue"
         /\ \A p \in ToSet(list) : p.feedback =>
              \E a \in p.attempts : a.number = p.latest.number /\ a.marks # None
<1>. DEFINE overview == StudentOverview(classes, s)
            list == overview.practicals
            act == Actionable(list)
            todo == Dashboard(overview).todo
            listed == PracticalsList(overview)
            progress == StudentProgress(overview)
            filters(p) == {f \in {"TO_DO", "IN_PROGRESS", "SUBMITTED", "FEEDBACK"} : Shown(StateFor(p), f)}
<1>1. PICK cl, ta : ToldBy(classes, s, list, cl, ta) BY ToldFacts
<1>2. overview.total = Len(list) /\ overview.submitted = Cardinality(HandedIn(list))
  BY StudentTotals
<1>. HIDE DEF overview
<1>3. IsList(list) /\ \A i \in DOMAIN list : list[i].latest # None => list[i].latest.at \in Int
  BY <1>1 DEF ToldBy
<1>4. /\ Len(listed) = Len(list) /\ ToSet(listed) = ToSet(list)
      /\ \A i \in 1 .. Len(act) : listed[i] = act[i]
  BY <1>3, ListedFacts
<1>5. \A p : Cardinality(filters(p)) = 1 BY OneFilter
<1>6. /\ Len(todo) = Len(act) /\ DOMAIN todo = 1 .. Len(act)
      /\ \A i \in DOMAIN todo : todo[i].id = act[i].id
      /\ \A i \in DOMAIN todo : todo[i].opens = ~Overdue(act[i])
      /\ \A i \in DOMAIN todo : todo[i].label = "Overdue" <=> Overdue(act[i])
      /\ progress.awaiting = Len(todo) /\ progress.awaiting + progress.submitted = progress.total
      /\ overview.classes # <<>> /\ list # <<>> =>
           (Dashboard(overview).state = "ALL_SUBMITTED" <=> progress.allSubmitted)
  BY <1>2, <1>3, ToDoFacts
<1>7. PICK m, o : ActsBy(list, act, m, o) BY <1>3, ActionableFacts
<1>8. \A p : WorkspaceAction(p) # "closed" <=> ~Overdue(p) BY DEF WorkspaceAction
<1>9. \A p \in ToSet(list) : p.feedback =>
        \E a \in p.attempts : a.number = p.latest.number /\ a.marks # None
  <2>1. \A i \in DOMAIN list : list[i].feedback =>
          \E a \in list[i].attempts : a.number = list[i].latest.number /\ a.marks # None
    BY <1>1 DEF ToldBy
  <2>2. ToSet(list) = {list[i] : i \in DOMAIN list} BY DEF ToSet
  <2>. QED BY <2>1, <2>2
<1>. HIDE DEF list, act, todo, listed, progress, filters
<1>10. ASSUME NEW i \in DOMAIN todo
       PROVE  /\ todo[i].id = listed[i].id
              /\ todo[i].opens <=> WorkspaceAction(listed[i]) # "closed"
              /\ \A j \in 1 .. i : todo[j].label = "Overdue" => todo[i].label = "Overdue"
  <2>1. i \in 1 .. m /\ listed[i] = act[i] /\ m \in Nat /\ DOMAIN todo = 1 .. m
    BY <1>4, <1>6, <1>7 DEF ActsBy
  <2>2. \A a, b \in 1 .. m : a < b /\ Overdue(act[a]) => Overdue(act[b]) BY <1>7 DEF ActsBy
  <2>3. todo[i].id = listed[i].id BY <1>6, <2>1
  <2>4. todo[i].opens <=> WorkspaceAction(listed[i]) # "closed" BY <1>6, <1>8, <2>1
  <2>5. ASSUME NEW j \in 1 .. i, todo[j].label = "Overdue"
        PROVE  todo[i].label = "Overdue"
    <3>1. j \in 1 .. m /\ (j = i \/ j < i) BY <2>1
    <3>2. Overdue(act[j]) BY <1>6, <2>1, <2>5, <3>1
    <3>3. Overdue(act[i]) BY <2>1, <2>2, <3>1, <3>2
    <3>. QED BY <1>6, <3>3
  <2>. QED BY <2>3, <2>4, <2>5
<1>. QED BY <1>4, <1>5, <1>6, <1>9, <1>10 DEF overview, list, todo, listed, progress, filters

\* A student has submitted as many practicals of a class as the class counts.
LEMMA ClassPlaces ==
  ASSUME NEW classes, IsSchool(classes), NEW s, NEW list, NEW cl, NEW ta,
         ToldBy(classes, s, list, cl, ta), NEW i \in DOMAIN classes, s \in Active(classes[i])
  PROVE  LET done == {x \in PlacesOf(list, classes[i].id) : list[x].latest # None} IN
         IsFiniteSet(done) /\ Cardinality(done) = Cardinality(Handed(classes[i], s))
<1>. DEFINE class == classes[i]
            tasks == Published(class)
            P == PlacesOf(list, class.id)
            done == {x \in P : list[x].latest # None}
            f == [x \in DOMAIN list |-> ta[x]]
            T == {tasks[k] : k \in Handed(class, s)}
<1>1. IsClass(class) BY DEF IsSchool
<1>2. /\ Handed(class, s) \subseteq DOMAIN tasks
      /\ \A k \in DOMAIN tasks : k \in Handed(class, s) <=> s \in Submitters(tasks[k])
  BY DEF Handed
<1>3. IsFiniteSet(Handed(class, s)) BY <1>1, HandedFacts
<1>4. /\ \A k, l \in DOMAIN tasks : tasks[k].id = tasks[l].id => k = l
      /\ ToSet(tasks) = {tasks[k] : k \in DOMAIN tasks}
  <2>1. \A k, l \in DOMAIN tasks : tasks[k].id = tasks[l].id => k = l BY <1>1, ClassFacts
  <2>. QED BY <2>1 DEF ToSet
<1>5. /\ DOMAIN list = 1 .. Len(list) /\ Len(list) \in Nat
      /\ \A x \in DOMAIN list : list[x].latest # None <=> s \in Submitters(ta[x])
  BY DEF ToldBy, IsList
<1>6. \A x \in P : x \in DOMAIN list /\ cl[x] = i /\ ta[x] \in ToSet(tasks)
  <2>1. \A x \in DOMAIN list : list[x].class = classes[cl[x]].id BY DEF ToldBy
  <2>2. \A x \in DOMAIN list : cl[x] \in DOMAIN classes /\ ta[x] \in ToSet(Published(classes[cl[x]]))
    BY DEF ToldBy, ListedBy
  <2>3. \A j \in DOMAIN classes : classes[j].id = classes[i].id => j = i BY DEF IsSchool
  <2>. QED BY <2>1, <2>2, <2>3 DEF PlacesOf
<1>7. \A t \in ToSet(tasks) : \E x \in P : ta[x] = t
  <2>1. \A t \in ToSet(tasks) : \E x \in DOMAIN list : cl[x] = i /\ ta[x] = t
    BY DEF ToldBy, ListedBy
  <2>2. \A x \in DOMAIN list : list[x].class = classes[cl[x]].id BY DEF ToldBy
  <2>. QED BY <2>1, <2>2 DEF PlacesOf
<1>8. \A x, y \in DOMAIN list : ta[x].id = ta[y].id => x = y BY DEF ToldBy, ListedBy
<1>9. P \subseteq DOMAIN list BY DEF PlacesOf
<1>10. DOMAIN f = DOMAIN list /\ \A x \in DOMAIN list : f[x] = ta[x] OBVIOUS
<1>11. \A x \in done : x \in P /\ list[x].latest # None OBVIOUS
<1>12. \A x \in P : list[x].latest # None => x \in done OBVIOUS
<1>. HIDE DEF class, tasks, P, done, f
<1>13. IsFiniteSet(done)
  <2>1. done \subseteq 1 .. Len(list) /\ IsFiniteSet(1 .. Len(list))
    BY <1>5, <1>9, <1>11, FS_Interval
  <2>. QED BY <2>1, FS_Subset
<1>14. {f[x] : x \in done} = T
  <2>1. \A x \in done : f[x] \in T
    <3>. TAKE x \in done
    <3>1. x \in DOMAIN list /\ ta[x] \in ToSet(tasks) /\ s \in Submitters(ta[x])
      BY <1>5, <1>6, <1>11
    <3>2. PICK k \in DOMAIN tasks : tasks[k] = ta[x] BY <1>4, <3>1
    <3>3. k \in Handed(class, s) BY <1>2, <3>1, <3>2
    <3>. QED BY <1>10, <3>1, <3>2, <3>3
  <2>2. \A k \in Handed(class, s) : \E x \in done : f[x] = tasks[k]
    <3>. TAKE k \in Handed(class, s)
    <3>1. k \in DOMAIN tasks /\ tasks[k] \in ToSet(tasks) /\ s \in Submitters(tasks[k])
      BY <1>2, <1>4
    <3>2. PICK x \in P : ta[x] = tasks[k] BY <1>7, <3>1
    <3>3. x \in DOMAIN list /\ list[x].latest # None BY <1>5, <1>6, <3>1, <3>2
    <3>. QED BY <1>10, <1>12, <3>2, <3>3
  <2>. QED BY <2>1, <2>2
<1>15. Cardinality({f[x] : x \in done}) = Cardinality(done)
  <2>1. done \subseteq DOMAIN f /\ \A x, y \in done : f[x] = f[y] => x = y
    BY <1>6, <1>8, <1>10, <1>11
  <2>. QED BY <1>13, <2>1, SameCount
<1>16. Cardinality(T) = Cardinality(Handed(class, s))
  <2>1. \A k, l \in Handed(class, s) : tasks[k] = tasks[l] => k = l BY <1>2, <1>4
  <2>. QED BY <1>2, <1>3, <2>1, SameCount
<1>17. Cardinality(done) = Cardinality(Handed(class, s)) BY <1>14, <1>15, <1>16
<1>. QED BY <1>13, <1>17 DEF class, P, done

\* The latest attempt on the page of a class is the one on the teacher's progress page.
LEMMA LatestOnPages ==
  ASSUME NEW class, IsClass(class), NEW s \in Active(class)
  PROVE  ClassroomProgress(class)[s].latest = ClassroomPage(class, "STUDENT", s).latest
<1>. DEFINE tasks == Published(class)
            task == LatestPublished(class)
            mine == IF task = None THEN {} ELSE Of(s, task.attempts)
<1>1. ClassroomProgress(class)[s].latest =
        IF tasks = <<>> \/ s \notin Submitters(tasks[1]) THEN None
        ELSE Highest(Of(s, tasks[1].attempts))
  BY OneStudent
<1>2. ClassroomPage(class, "STUDENT", s).latest = IF mine # {} THEN Highest(mine) ELSE None
  BY DEF ClassroomPage
<1>3. task = IF tasks = <<>> THEN None ELSE Head(tasks) BY DEF LatestPublished
<1>4. tasks # <<>> => Head(tasks) = tasks[1] /\ IsTask(tasks[1])
  <2>1. /\ tasks # <<>> => Head(tasks) = tasks[1] /\ 1 \in DOMAIN tasks
        /\ \A i \in DOMAIN tasks : IsTask(tasks[i])
    BY ClassFacts
  <2>. QED BY <2>1
<1>5. \A t : s \in Submitters(t) <=> Of(s, t.attempts) # {} BY DEF Submitters, Of
<1>6. mine = IF tasks = <<>> THEN {} ELSE Of(s, tasks[1].attempts)
  <2>. HIDE DEF tasks
  <2>1. CASE tasks = <<>>
    <3>1. task = None BY <1>3, <2>1
    <3>. QED BY <2>1, <3>1
  <2>2. CASE tasks # <<>>
    <3>1. task = tasks[1] /\ task # None BY <1>3, <1>4, <2>2 DEF IsTask
    <3>. QED BY <2>2, <3>1
  <2>. QED BY <2>1, <2>2
<1>. HIDE DEF tasks, task, mine
<1>7. CASE tasks = <<>> BY <1>1, <1>2, <1>6, <1>7
<1>8. CASE tasks # <<>> BY <1>1, <1>2, <1>5, <1>6, <1>8
<1>. QED BY <1>7, <1>8

\* What is left to do in a class follows from the practicals of the class.
LEMMA WorkOfList ==
  ASSUME NEW overview, NEW class,
         NEW mine, mine = Kept(overview.practicals, PlacesOf(overview.practicals, class)),
         IsList(mine), mine = <<>> => Len(mine) = 0
  PROVE  LET todo == Actionable(mine)
             work == ClassWork(overview, class) IN
         /\ work.submitted = Cardinality(HandedIn(mine))
         /\ work.state = "IN_PROGRESS" <=> todo # <<>>
         /\ work.next = IF todo = <<>> THEN None ELSE todo[1].id
         /\ todo # <<>> => work.opens = ~Overdue(todo[1])
<1>. DEFINE todo == Actionable(mine)
            work == ClassWork(overview, class)
<1>1. /\ work.submitted = Cardinality(HandedIn(mine))
      /\ work.next = IF todo = <<>> THEN None ELSE todo[1].id
      /\ work.opens = (todo # <<>> /\ ~Overdue(todo[1]))
  BY DEF ClassWork, HandedIn, PlacesOf
<1>2. work.state = IF mine = <<>> THEN "NO_PRACTICALS"
                   ELSE IF Cardinality(HandedIn(mine)) = Len(mine) THEN "UP_TO_DATE" ELSE "IN_PROGRESS"
  BY DEF ClassWork, HandedIn, PlacesOf
<1>3. IsList(mine) /\ (mine = <<>> => Len(mine) = 0) OBVIOUS
<1>. HIDE DEF work
<1>4. PICK m, o : ActsBy(mine, todo, m, o) BY <1>3, ActionableFacts
<1>5. todo = <<>> <=> Open(mine) = {} BY <1>4 DEF ActsBy
<1>6. /\ Cardinality(Open(mine)) + Cardinality(HandedIn(mine)) = Len(mine)
      /\ Cardinality(Open(mine)) \in Nat /\ Cardinality(HandedIn(mine)) \in Nat
      /\ Open(mine) = {} <=> Cardinality(Open(mine)) = 0
  BY <1>3, OpenOrHanded
<1>. HIDE DEF todo
<1>7. mine = <<>> => Open(mine) = {} BY <1>3, <1>6
<1>8. Open(mine) = {} <=> Cardinality(HandedIn(mine)) = Len(mine) BY <1>6
<1>9. work.state = "IN_PROGRESS" <=> todo # <<>> BY <1>2, <1>5, <1>7, <1>8
<1>10. todo # <<>> => work.opens = ~Overdue(todo[1])
  <2>. SUFFICES ASSUME todo # <<>> PROVE work.opens = ~Overdue(todo[1]) OBVIOUS
  <2>1. (todo # <<>> /\ ~Overdue(todo[1])) = ~Overdue(todo[1]) BY DEF Overdue
  <2>. QED BY <1>1, <2>1
<1>. QED BY <1>1, <1>9, <1>10 DEF todo, work

\* The page of the classes and that of the progress tell a student of each class what
\* the teacher's page does, and open what the dashboard opens.
LEMMA ClassWorkFacts ==
  ASSUME NEW classes, IsSchool(classes), NEW s, None # "shown",
         NEW i \in DOMAIN classes, s \in Active(classes[i])
  PROVE  LET overview == StudentOverview(classes, s)
             todo == Dashboard(overview).todo
             progress == StudentProgress(overview)
             class == classes[i]
             work == ClassWork(overview, class.id) IN
         /\ work.submitted = ClassroomProgress(class)[s].submitted
         /\ work.state = "IN_PROGRESS" <=> work.next # None
         /\ \A n \in DOMAIN todo : todo[n].id = work.next => work.opens = todo[n].opens
         /\ \A c \in DOMAIN progress.classes : c = class.id =>
              progress.classes[c].submitted = ClassroomProgress(class)[s].submitted
<1>. DEFINE overview == StudentOverview(classes, s)
            list == overview.practicals
            act == Actionable(list)
            todo == Dashboard(overview).todo
            progress == StudentProgress(overview)
            class == classes[i]
            work == ClassWork(overview, class.id)
            P == PlacesOf(list, class.id)
            done == {x \in P : list[x].latest # None}
            mine == Kept(list, P)
            next == Actionable(mine)
<1>1. PICK cl, ta : ToldBy(classes, s, list, cl, ta) BY ToldFacts
<1>2. overview.total = Len(list) /\ overview.submitted = Cardinality(HandedIn(list))
  BY StudentTotals
<1>3. IsFiniteSet(done) /\ Cardinality(done) = Cardinality(Handed(class, s)) BY <1>1, ClassPlaces
<1>4. ClassroomProgress(class)[s].submitted = Cardinality(Handed(class, s))
  <2>1. IsClass(class) BY DEF IsSchool
  <2>. QED BY <2>1, OneStudent
<1>. HIDE DEF overview, class
<1>5. P \subseteq DOMAIN list /\ P = PlacesOf(list, class.id) /\ P = {x \in DOMAIN list : list[x].class = class.id}
  BY DEF PlacesOf
<1>6. IsList(list) BY <1>1 DEF ToldBy
<1>7. Len(list) \in Nat /\ DOMAIN list = 1 .. Len(list) BY <1>6 DEF IsList
<1>. HIDE DEF P
<1>8. PICK m, g : KeptBy(list, P, mine, m, g) BY <1>5, <1>7, KeptFacts
<1>. HIDE DEF list, act, todo, progress, mine
<1>9. /\ m \in Nat /\ Len(mine) = m /\ DOMAIN mine = 1 .. m
      /\ \A k \in 1 .. m : g[k] \in P /\ g[k] \in DOMAIN list /\ mine[k] = list[g[k]]
      /\ mine = <<>> <=> P = {}
  BY <1>5, <1>8 DEF KeptBy
<1>10. IsList(mine)
  <2>1. \A k \in 1 .. m : mine[k].deadline \in Int \/ mine[k].deadline = None
    BY <1>6, <1>9 DEF IsList
  <2>. QED BY <1>9, <2>1 DEF IsList
<1>11. mine = <<>> => Len(mine) = 0 OBVIOUS
<1>12. /\ work.submitted = Cardinality(HandedIn(mine))
       /\ work.state = "IN_PROGRESS" <=> next # <<>>
       /\ work.next = IF next = <<>> THEN None ELSE next[1].id
       /\ next # <<>> => work.opens = ~Overdue(next[1])
  BY <1>5, <1>10, <1>11, WorkOfList DEF mine, list, work, next
<1>13. Cardinality(HandedIn(mine)) = Cardinality(done)
  <2>1. /\ \A k \in HandedIn(mine) : k \in 1 .. m /\ g[k] \in done
        /\ \A x \in done : \E k \in HandedIn(mine) : g[k] = x
    <3>1. \A x \in P : \E k \in 1 .. m : g[k] = x BY <1>8 DEF KeptBy
    <3>2. \A k \in 1 .. m : k \in HandedIn(mine) <=> list[g[k]].latest # None BY <1>9 DEF HandedIn
    <3>3. HandedIn(mine) \subseteq 1 .. m BY <1>9 DEF HandedIn
    <3>4. \A k \in HandedIn(mine) : k \in 1 .. m /\ g[k] \in done BY <1>9, <3>2, <3>3
    <3>5. \A x \in done : \E k \in HandedIn(mine) : g[k] = x BY <3>1, <3>2
    <3>. QED BY <3>4, <3>5
  <2>2. {g[k] : k \in HandedIn(mine)} = done BY <2>1
  <2>3. /\ HandedIn(mine) \subseteq DOMAIN g
        /\ \A k, l \in HandedIn(mine) : g[k] = g[l] => k = l
    BY <1>8, <2>1 DEF KeptBy
  <2>4. IsFiniteSet(HandedIn(mine)) BY <1>10, OpenOrHanded
  <2>. HIDE DEF done
  <2>5. Cardinality({g[k] : k \in HandedIn(mine)}) = Cardinality(HandedIn(mine))
    BY <2>3, <2>4, SameCount
  <2>. QED BY <2>2, <2>5
<1>14. work.submitted = ClassroomProgress(class)[s].submitted BY <1>3, <1>4, <1>12, <1>13
<1>15. PICK k, q : ActsBy(mine, next, k, q) BY <1>10, ActionableFacts
<1>16. next # <<>> => \E x \in DOMAIN list : next[1] = list[x]
  <2>1. next # <<>> => 1 \in 1 .. k
    <3>1. Open(mine) # {} => Cardinality(Open(mine)) # 0 BY <1>10, OpenOrHanded
    <3>2. next # <<>> => k # 0 /\ k \in Nat BY <1>15, <3>1 DEF ActsBy
    <3>. QED BY <3>2
  <2>2. \A n \in 1 .. k : q[n] \in Open(mine) /\ next[n] = mine[q[n]] BY <1>15 DEF ActsBy
  <2>3. \A x \in Open(mine) : x \in 1 .. m BY <1>9 DEF Open
  <2>. HIDE DEF next
  <2>. QED BY <1>9, <2>1, <2>2, <2>3
<1>17. \A x \in DOMAIN list : list[x].id = ta[x].id /\ list[x].id # None BY <1>1 DEF ToldBy, IsTask
<1>18. \A x, y \in DOMAIN list : list[x].id = list[y].id => x = y
  <2>1. \A x, y \in DOMAIN list : ta[x].id = ta[y].id => x = y BY <1>1 DEF ToldBy, ListedBy
  <2>. QED BY <1>17, <2>1
<1>. HIDE DEF next, work
<1>19. work.state = "IN_PROGRESS" <=> work.next # None BY <1>12, <1>16, <1>17
<1>20. ASSUME NEW n \in DOMAIN todo, todo[n].id = work.next PROVE work.opens = todo[n].opens
  <2>1. PICK p, o : ActsBy(list, act, p, o) BY <1>6, ActionableFacts DEF act
  <2>2. /\ DOMAIN todo = 1 .. Len(act)
        /\ \A j \in DOMAIN todo : todo[j].id = act[j].id
        /\ \A j \in DOMAIN todo : todo[j].opens = ~Overdue(act[j])
    BY <1>2, <1>6, ToDoFacts DEF todo, act, list
  <2>3. n \in 1 .. p /\ o[n] \in Open(list) /\ act[n] = list[o[n]] BY <2>1, <2>2 DEF ActsBy
  <2>4. o[n] \in DOMAIN list BY <2>3 DEF Open
  <2>5. todo[n].id = list[o[n]].id /\ todo[n].opens = ~Overdue(list[o[n]]) BY <2>2, <2>3
  <2>6. next # <<>> BY <1>12, <1>17, <1>20, <2>4, <2>5
  <2>7. PICK x \in DOMAIN list : next[1] = list[x] BY <1>16, <2>6
  <2>8. list[x].id = list[o[n]].id BY <1>12, <1>20, <2>5, <2>6, <2>7
  <2>9. x = o[n] BY <1>18, <2>4, <2>8
  <2>. QED BY <1>12, <2>5, <2>6, <2>7, <2>9
<1>21. ASSUME NEW c \in DOMAIN progress.classes, c = class.id
       PROVE  progress.classes[c].submitted = ClassroomProgress(class)[s].submitted
  <2>. DEFINE of(d) == {x \in DOMAIN list : list[x].class = d}
              row(d) == [total |-> Cardinality(of(d)),
                         submitted |-> Cardinality({x \in of(d) : list[x].latest # None})]
  <2>1. progress.classes = [d \in {list[x].class : x \in DOMAIN list} |-> row(d)]
    BY DEF progress, StudentProgress, list
  <2>2. \A d : row(d).submitted = Cardinality({x \in of(d) : list[x].latest # None}) OBVIOUS
  <2>3. of(c) = P BY <1>5, <1>21
  <2>. HIDE DEF row, of
  <2>4. progress.classes[c] = row(c) BY <2>1
  <2>5. progress.classes[c].submitted = Cardinality(done) BY <2>2, <2>3, <2>4
  <2>. QED BY <1>3, <1>4, <2>5
<1>. QED BY <1>14, <1>19, <1>20, <1>21 DEF overview, todo, progress, class, work

\* The teacher's row of a student counts what the student is told, if the student
\* submitted nothing in classes that they have left.
LEMMA RowOfStudent ==
  ASSUME NEW classes, IsSchool(classes), NEW s, None # "shown",
         NEW n \in DOMAIN classes, s \in Active(classes[n]),
         \A i \in DOMAIN classes : s \notin Active(classes[i]) =>
           \A task \in ToSet(classes[i].tasks) : s \notin Submitters(task)
  PROVE  LET overview == StudentOverview(classes, s)
             row == TeacherOverview(classes).students[s] IN
         /\ row.available = overview.total /\ row.submitted = overview.submitted
         /\ row.completion = overview.completion
<1>. DEFINE overview == StudentOverview(classes, s)
            list == overview.practicals
            row == TeacherOverview(classes).students[s]
            all == {task \in UNION {ToSet(Published(classes[i])) : i \in DOMAIN classes} : TRUE}
            mine == {i \in DOMAIN classes : s \in Active(classes[i])}
            available == UNION {ToSet(Published(classes[i])) : i \in mine}
            submitted == {task \in all : s \in Submitters(task)}
<1>1. PICK cl, ta : ToldBy(classes, s, list, cl, ta) BY ToldFacts
<1>2. /\ overview.total = Len(list) /\ overview.submitted = Cardinality(HandedIn(list))
      /\ overview.completion = Percent(overview.submitted, overview.total)
  BY StudentTotals
<1>3. /\ row.available = Cardinality(available) /\ row.submitted = Cardinality(submitted)
      /\ row.completion = Percent(Cardinality(submitted), Cardinality(available))
  <2>1. TeacherOverview(classes).students
          = [x \in UNION {Active(classes[i]) : i \in DOMAIN classes} |-> StudentRow(classes, x)]
    BY OverviewFacts
  <2>2. s \in UNION {Active(classes[i]) : i \in DOMAIN classes} OBVIOUS
  <2>3. row = StudentRow(classes, s) BY <2>1, <2>2
  <2>. HIDE DEF row
  <2>. QED BY <2>3 DEF StudentRow
<1>4. \A task : task \in available <=>
                \E i \in DOMAIN classes : s \in Active(classes[i]) /\ task \in ToSet(Published(classes[i]))
  OBVIOUS
<1>5. \A task : task \in submitted <=>
                \E i \in DOMAIN classes : task \in ToSet(Published(classes[i])) /\ s \in Submitters(task)
  OBVIOUS
<1>. DEFINE f == [x \in DOMAIN list |-> ta[x]]
<1>6. DOMAIN f = DOMAIN list /\ \A x \in DOMAIN list : f[x] = ta[x] OBVIOUS
<1>. HIDE DEF overview, list, row, available, submitted, f
<1>7. \A x, y \in DOMAIN list : ta[x].id = ta[y].id => x = y BY <1>1 DEF ToldBy, ListedBy
<1>8. \A x \in DOMAIN list : list[x].latest # None <=> s \in Submitters(ta[x]) BY <1>1 DEF ToldBy
<1>9. IsList(list) /\ DOMAIN list = 1 .. Len(list) /\ Len(list) \in Nat BY <1>1 DEF ToldBy, IsList
<1>10. \A x \in DOMAIN list : ta[x] \in available
  <2>1. \A x \in DOMAIN list : /\ cl[x] \in DOMAIN classes /\ s \in Active(classes[cl[x]])
                               /\ ta[x] \in ToSet(Published(classes[cl[x]]))
    BY <1>1 DEF ToldBy, ListedBy
  <2>. QED BY <1>4, <2>1
<1>11. \A task \in available : \E x \in DOMAIN list : ta[x] = task
  <2>1. \A i \in DOMAIN classes : s \in Active(classes[i]) =>
          \A task \in ToSet(Published(classes[i])) : \E x \in DOMAIN list : ta[x] = task
    BY <1>1 DEF ToldBy, ListedBy
  <2>. QED BY <1>4, <2>1
<1>12. submitted = {task \in available : s \in Submitters(task)}
  <2>1. \A task \in submitted : task \in available /\ s \in Submitters(task)
    <3>. TAKE task \in submitted
    <3>1. PICK i \in DOMAIN classes : task \in ToSet(Published(classes[i])) /\ s \in Submitters(task)
      BY <1>5
    <3>2. IsClass(classes[i]) BY DEF IsSchool
    <3>3. task \in ToSet(classes[i].tasks)
      <4>1. ToSet(Published(classes[i])) = {t \in ToSet(classes[i].tasks) : t.status = "PUBLISHED"}
        BY <3>2, ClassFacts
      <4>. QED BY <3>1, <4>1
    <3>4. s \in Active(classes[i]) BY <3>1, <3>3
    <3>. QED BY <1>4, <3>1, <3>4
  <2>2. \A task \in available : s \in Submitters(task) => task \in submitted BY <1>4, <1>5
  <2>. QED BY <2>1, <2>2
<1>13. Cardinality(available) = Len(list)
  <2>1. {f[x] : x \in DOMAIN list} = available BY <1>6, <1>10, <1>11
  <2>2. \A x, y \in DOMAIN list : f[x] = f[y] => x = y BY <1>6, <1>7
  <2>3. IsFiniteSet(DOMAIN list) /\ Cardinality(DOMAIN list) = Len(list)
    <3>. DEFINE m == Len(list)
    <3>1. DOMAIN list = 1 .. m /\ m \in Nat BY <1>9
    <3>. HIDE DEF m
    <3>2. IsFiniteSet(1 .. m) /\ Cardinality(1 .. m) = m BY <3>1, FS_Interval
    <3>. QED BY <3>1, <3>2 DEF m
  <2>4. Cardinality({f[x] : x \in DOMAIN list}) = Cardinality(DOMAIN list)
    BY <1>6, <2>2, <2>3, SameCount
  <2>. QED BY <2>1, <2>3, <2>4
<1>14. Cardinality(submitted) = Cardinality(HandedIn(list))
  <2>1. /\ HandedIn(list) \subseteq DOMAIN list
        /\ \A x \in DOMAIN list : x \in HandedIn(list) <=> s \in Submitters(ta[x])
    BY <1>8 DEF HandedIn
  <2>2. {f[x] : x \in HandedIn(list)} = submitted
    <3>1. \A x \in HandedIn(list) : f[x] \in submitted BY <1>6, <1>10, <1>12, <2>1
    <3>2. \A task \in submitted : \E x \in HandedIn(list) : f[x] = task BY <1>6, <1>11, <1>12, <2>1
    <3>. QED BY <3>1, <3>2
  <2>3. HandedIn(list) \subseteq DOMAIN f /\ \A x, y \in HandedIn(list) : f[x] = f[y] => x = y
    BY <1>6, <1>7, <2>1
  <2>4. IsFiniteSet(HandedIn(list)) BY <1>9, OpenOrHanded
  <2>5. Cardinality({f[x] : x \in HandedIn(list)}) = Cardinality(HandedIn(list))
    BY <2>3, <2>4, SameCount
  <2>. QED BY <2>2, <2>5
<1>15. /\ row.available = overview.total /\ row.submitted = overview.submitted
       /\ row.completion = overview.completion
  BY <1>2, <1>3, <1>13, <1>14
<1>. QED BY <1>15 DEF overview, row

\* Every student of every school is told the same on all pages, and the teacher of the
\* student (student/overview.ts, teacher/overview.ts, features/student).
THEOREM StudentAlwaysToldAlike ==
  ASSUME NEW classes, IsSchool(classes), NEW s, None # "shown",
         \E i \in DOMAIN classes : s \in Active(classes[i])
  PROVE  StudentToldAlike(classes, s)
<1>. DEFINE overview == StudentOverview(classes, s)
            list == overview.practicals
            todo == Dashboard(overview).todo
            listed == PracticalsList(overview)
            progress == StudentProgress(overview)
            row == TeacherOverview(classes).students[s]
            filters(p) == {f \in {"TO_DO", "IN_PROGRESS", "SUBMITTED", "FEEDBACK"} : Shown(StateFor(p), f)}
<1>1. /\ Len(listed) = Len(list) /\ ToSet(listed) = ToSet(list)
      /\ \A p \in ToSet(list) : Cardinality(filters(p)) = 1
      /\ progress.awaiting = Len(todo) /\ progress.awaiting + progress.submitted = progress.total
      /\ overview.classes # <<>> /\ list # <<>> =>
           (Dashboard(overview).state = "ALL_SUBMITTED" <=> progress.allSubmitted)
      /\ \A i \in DOMAIN todo :
           /\ todo[i].id = listed[i].id
           /\ todo[i].opens <=> WorkspaceAction(listed[i]) # "closed"
           /\ \A j \in 1 .. i : todo[j].label = "Overdue" => todo[i].label = "Overdue"
      /\ \A p \in ToSet(list) : p.feedback =>
           \E a \in p.attempts : a.number = p.latest.number /\ a.marks # None
  BY StudentPages
<1>2. ASSUME NEW i \in DOMAIN classes, s \in Active(classes[i])
      PROVE  ClassroomProgress(classes[i])[s].latest = ClassroomPage(classes[i], "STUDENT", s).latest
  <2>1. IsClass(classes[i]) BY DEF IsSchool
  <2>. QED BY <1>2, <2>1, LatestOnPages
<1>3. ASSUME NEW i \in DOMAIN classes, s \in Active(classes[i])
      PROVE  LET class == classes[i]
                 work == ClassWork(overview, class.id) IN
             /\ work.submitted = ClassroomProgress(class)[s].submitted
             /\ work.state = "IN_PROGRESS" <=> work.next # None
             /\ \A n \in DOMAIN todo : todo[n].id = work.next => work.opens = todo[n].opens
             /\ \A c \in DOMAIN progress.classes : c = class.id =>
                  progress.classes[c].submitted = ClassroomProgress(class)[s].submitted
  BY <1>3, ClassWorkFacts
<1>4. ASSUME \A i \in DOMAIN classes : s \notin Active(classes[i]) =>
               \A task \in ToSet(classes[i].tasks) : s \notin Submitters(task)
      PROVE  /\ row.available = overview.total /\ row.submitted = overview.submitted
             /\ row.completion = overview.completion
  <2>1. PICK n \in DOMAIN classes : s \in Active(classes[n]) OBVIOUS
  <2>. QED BY <1>4, <2>1, RowOfStudent
<1>. HIDE DEF overview, list, todo, listed, progress, row, filters
<1>5. \A i \in DOMAIN classes : s \in Active(classes[i]) =>
        LET class == classes[i] IN
        /\ ClassroomProgress(class)[s].latest = ClassroomPage(class, "STUDENT", s).latest
        /\ LET work == ClassWork(overview, class.id) IN
           /\ work.submitted = ClassroomProgress(class)[s].submitted
           /\ work.state = "IN_PROGRESS" <=> work.next # None
           /\ \A n \in DOMAIN todo : todo[n].id = work.next => work.opens = todo[n].opens
        /\ \A c \in DOMAIN progress.classes : c = class.id =>
             progress.classes[c].submitted = ClassroomProgress(class)[s].submitted
  BY <1>2, <1>3
<1>6. overview.classes # <<>> /\ (\A i \in DOMAIN classes : s \notin Active(classes[i]) =>
          \A task \in ToSet(classes[i].tasks) : s \notin Submitters(task)) =>
        /\ row.available = overview.total /\ row.submitted = overview.submitted
        /\ row.completion = overview.completion
  BY <1>4
<1>. QED
  BY <1>1, <1>5, <1>6 DEF StudentToldAlike, overview, list, todo, listed, progress, row, filters

-----------------------------------------------------------------------------
(* The invariants of the cases.                                             *)

\* An invariant of the cases needs to hold of each alone: a case never changes.
LEMMA Unchanged ==
  ASSUME UNCHANGED at
  PROVE  /\ HelpIsHonest => HelpIsHonest'
         /\ ChoicesAreSafe => ChoicesAreSafe'
         /\ EveryoneArrives => EveryoneArrives'
         /\ EvidenceIsFair => EvidenceIsFair'
         /\ ResultsAreTrue => ResultsAreTrue'
         /\ VerdictsAreHonest => VerdictsAreHonest'
         /\ OverviewsAgree => OverviewsAgree'
BY DEF HelpIsHonest, ChoicesAreSafe, EveryoneArrives, EvidenceIsFair, FirstAsked, Caches, Logs,
       MarksAreEarned, Given, ResultsAgree, ResultsAreTrue, Snapshots, VerdictsAreHonest, OverviewsAgree

\* The part each case is of.
LEMMA Parts ==
  ASSUME Init
  PROVE  /\ at.part = "pulse" => PulseCase
         /\ at.part = "hints" => HintCase
         /\ at.part = "roster" => RosterCase
         /\ at.part = "choice" => ChoiceCase
         /\ at.part = "deployment" => DeploymentCase
         /\ at.part = "visitor" => VisitorCase
         /\ at.part = "copy" => CopyCase
         /\ at.part = "report" => ReportCase
         /\ at.part = "process" => ProcessCase
         /\ at.part = "ai" => AiCase
         /\ at.part = "answer" => AnswerCase
         /\ at.part = "score" => ScoreCase
         /\ at.part = "program" => ProgramCase
         /\ at.part = "school" => OneClassCase \/ TwoClassesCase
         /\ at.part = "cache" => CacheCase
<1>1. /\ ProgramCase => at.part = "program"
      /\ AnswerCase => at.part = "answer"
      /\ ScoreCase => at.part = "score"
      /\ ChoiceCase => at.part = "choice"
  BY DEF ProgramCase, AnswerCase, ScoreCase, ChoiceCase
<1>2. OneClassCase \/ TwoClassesCase => at.part = "school"
  <2>1. OneClassCase => \E c : at = [part |-> "school", classes |-> c] BY Zenon DEF OneClassCase
  <2>2. TwoClassesCase => at.part = "school" BY DEF TwoClassesCase
  <2>. QED BY <2>1, <2>2
<1>3. /\ CopyCase => at.part = "copy"
      /\ ReportCase => at.part = "report"
      /\ ProcessCase => at.part = "process"
      /\ AiCase => at.part = "ai"
  <2>1. CopyCase => at.part = "copy" BY DEF CopyCase
  <2>2. ReportCase => at.part = "report" BY DEF ReportCase
  <2>3. ProcessCase => at.part = "process" BY DEF ProcessCase
  <2>4. ASSUME AiCase PROVE at.part = "ai" BY <2>4, SMTT(30) DEF AiCase
  <2>. QED BY <2>1, <2>2, <2>3, <2>4
<1>4. PulseCase => at.part = "pulse" BY DEF PulseCase
<1>5. HintCase => at.part = "hints" BY DEF HintCase
<1>6. RosterCase => at.part = "roster" BY DEF RosterCase
<1>7. VisitorCase => at.part = "visitor" BY DEF VisitorCase
<1>8. DeploymentCase => at.part = "deployment" BY DEF DeploymentCase
<1>9. CacheCase => at.part = "cache" BY DEF CacheCase
<1>. QED BY <1>1, <1>2, <1>3, <1>4, <1>5, <1>6, <1>7, <1>8, <1>9 DEF Init, ViewCase

LEMMA AtMostOne ==
  ASSUME NEW S
  PROVE  <<>> \in Seq(S) /\ \A s \in S : <<s>> \in Seq(S)
OBVIOUS

\* The sessions, the requests for hints and the rosters of the cases are among those
\* that the theorems above are about.
LEMMA PulseHeld ==
  ASSUME PulseCase
  PROVE  L!PulseIsHonest(at.students, at.policy, 100, at.later)
<1>. DEFINE End == {"failed", "passed", "crashed", None}
            Status == {"ACTIVE", "SUBMITTED"}
            Choice == {None, TRUE, FALSE}
            Ended == PulseSession(Status, End)
<1>1. PICK first \in {<<>>} \cup {<<s>> : s \in Session},
           second \in {<<>>} \cup {<<s>> : s \in {x \in Session : ~x.queued /\ x.runs = <<>>}},
           submitted \in {None, 75, 92}, hinted \in {None, 98}, override \in {None, FALSE},
           policy \in {None, FALSE}, later \in {102, 108, 131} :
        at = [part |-> "pulse", policy |-> policy, later |-> later, students |->
               <<[sessions |-> first \o second, submitted |-> submitted, hinted |-> hinted,
                  override |-> override],
                 [sessions |-> <<>>, submitted |-> None, hinted |-> None, override |-> TRUE]>>]
  BY DEF PulseCase
<1>2. SomeRuns \subseteq Seq(End) BY DEF SomeRuns
<1>3. ASSUME NEW s \in Session
      PROVE  s \in Ended /\ s.touched <= 100 /\ s # None
  <2>1. s # None BY ViewsAssumption
  <2>2. s \in Ended BY <1>2 DEF Session, PulseSession
  <2>3. s.touched \in {70, 92, 97, 100} BY DEF Session
  <2>. QED BY <2>1, <2>2, <2>3
<1>. HIDE DEF Ended, End
<1>4. first \in Seq(Session) /\ second \in Seq(Session)
  <2>1. <<>> \in Seq(Session) /\ \A s \in Session : <<s>> \in Seq(Session) BY AtMostOne
  <2>. DEFINE Idle == {x \in Session : ~x.queued /\ x.runs = <<>>}
  <2>2. first = <<>> \/ \E s \in Session : first = <<s>> OBVIOUS
  <2>3. second = <<>> \/ \E s \in Idle : second = <<s>> OBVIOUS
  <2>4. Idle \subseteq Session OBVIOUS
  <2>. HIDE DEF Session, Idle
  <2>5. first \in Seq(Session)
    <3>1. CASE first = <<>> BY <2>1, <3>1
    <3>2. ASSUME NEW s \in Session, first = <<s>> PROVE first \in Seq(Session) BY <2>1, <3>2
    <3>. QED BY <2>2, <3>1, <3>2
  <2>6. second = <<>> \/ \E s \in Session : second = <<s>> BY <2>3, <2>4
  <2>7. second \in Seq(Session)
    <3>1. CASE second = <<>> BY <2>1, <3>1
    <3>2. ASSUME NEW s \in Session, second = <<s>> PROVE second \in Seq(Session) BY <2>1, <3>2
    <3>. QED BY <2>6, <3>1, <3>2
  <2>. QED BY <2>5, <2>7
<1>5. first \o second \in Seq(Session) BY <1>4
<1>6. ASSUME NEW i \in DOMAIN (first \o second)
      PROVE  (first \o second)[i] \in Session
  BY <1>5
<1>7. first \o second \in Seq(Ended) BY <1>3, <1>5
<1>. DEFINE one == [sessions |-> first \o second, submitted |-> submitted, hinted |-> hinted,
                    override |-> override]
            other == [sessions |-> <<>>, submitted |-> None, hinted |-> None, override |-> TRUE]
            students == <<one, other>>
<1>8. /\ one \in PulseStudent(Status, End, Choice) /\ Past(one, 100)
      /\ \A j \in DOMAIN one.sessions : one.sessions[j] # None
  <2>1. one \in PulseStudent(Status, End, Choice)
    <3>1. /\ submitted \in Int \cup {None} /\ hinted \in Int \cup {None}
          /\ override \in Choice
      <4>1. submitted = None \/ submitted = 75 \/ submitted = 92 OBVIOUS
      <4>2. hinted = None \/ hinted = 98 OBVIOUS
      <4>3. override = None \/ override = FALSE OBVIOUS
      <4>4. override \in Choice BY <4>3, Zenon
      <4>5. submitted \in Int \cup {None} /\ hinted \in Int \cup {None} BY <4>1, <4>2
      <4>. QED BY <4>4, <4>5, Zenon
    <3>2. first \o second \in Seq(PulseSession(Status, End)) BY <1>7 DEF Ended
    <3>. DEFINE sessions == first \o second
    <3>. HIDE DEF sessions
    <3>3. [sessions |-> sessions, submitted |-> submitted, hinted |-> hinted,
           override |-> override] \in PulseStudent(Status, End, Choice)
      BY <3>1, <3>2 DEF PulseStudent, sessions
    <3>. QED BY <3>3 DEF sessions
  <2>2. \A t \in {submitted, hinted} \ {None} : t <= 100 OBVIOUS
  <2>3. \A j \in DOMAIN (first \o second) :
          (first \o second)[j].touched <= 100 /\ (first \o second)[j] # None
    BY <1>3, <1>6
  <2>. QED BY <2>1, <2>2, <2>3 DEF Past
<1>9. /\ other \in PulseStudent(Status, End, Choice) /\ Past(other, 100)
      /\ \A j \in DOMAIN other.sessions : other.sessions[j] # None
  <2>1. <<>> \in Seq(PulseSession(Status, End)) /\ DOMAIN <<>> = {} OBVIOUS
  <2>. QED BY <2>1 DEF PulseStudent, Past
<1>. HIDE DEF one, other
<1>10. students \in Seq(PulseStudent(Status, End, Choice)) /\ DOMAIN students = {1, 2} BY <1>8, <1>9
<1>11. \A i \in DOMAIN students :
         /\ Past(students[i], 100)
         /\ \A j \in DOMAIN students[i].sessions : students[i].sessions[j] # None
  BY <1>8, <1>9, <1>10
<1>12. at.students = students /\ at.policy = policy /\ at.later = later BY <1>1 DEF one, other
<1>. HIDE DEF students
<1>13. later \in Int /\ 100 <= later /\ None \notin Int BY ViewsAssumption
<1>14. L!PulseIsHonest(students, policy, 100, later) BY <1>10, <1>11, <1>13, PulseHonest
<1>. QED BY <1>12, <1>14

LEMMA AfterFacts ==
  ASSUME NEW Run, NEW Task, NEW session \in HintSession(Run, Task), InOrder(session),
         None \notin BOOLEAN, NEW n \in Nat
  PROVE  AfterSome(session, n) \in HintSession(Run, Task) /\ InOrder(AfterSome(session, n))
<1>1. CASE H!Refused(session) BY <1>1 DEF AfterSome
<1>2. CASE ~H!Refused(session)
  <2>1. H!NextLevel(session) <= 3
    <3>1. H!NextLevel(session) \in Nat BY LevelFacts
    <3>2. ~(H!NextLevel(session) > 3) BY <1>2 DEF H!Refused
    <3>. QED BY <3>1, <3>2
  <2>. QED BY <1>2, <2>1, StoredFacts DEF AfterSome
<1>. QED BY <1>1, <1>2

LEMMA HintsKept ==
  ASSUME NEW o \in {None, TRUE, FALSE}, NEW p \in {None, TRUE, FALSE}, NEW run, NEW task,
         NEW asked \in [1 .. 3 -> 0 .. 2]
  PROVE  H!OfferIsKept(After([override |-> o, policy |-> p, levels |-> <<>>, run |-> run,
                              task |-> task], asked))
<1>. DEFINE first == [override |-> o, policy |-> p, levels |-> <<>>, run |-> run, task |-> task]
            Ready(s) == s \in HintSession({run}, {task}) /\ InOrder(s)
            second == AfterSome(first, asked[1])
            third == AfterSome(second, asked[2])
            last == AfterSome(third, asked[3])
<1>1. None \notin BOOLEAN /\ NoState BY ViewsAssumption DEF NoState
<1>2. asked[1] \in Nat /\ asked[2] \in Nat /\ asked[3] \in Nat OBVIOUS
<1>3. Ready(first)
  <2>1. <<>> \in Seq(1 .. 3) /\ DOMAIN <<>> = {} OBVIOUS
  <2>2. first \in HintSession({run}, {task}) BY <2>1 DEF HintSession
  <2>3. InOrder(first) BY <2>1 DEF InOrder
  <2>. QED BY <2>2, <2>3
<1>. HIDE DEF first
<1>4. Ready(second) BY <1>1, <1>2, <1>3, AfterFacts
<1>. HIDE DEF second
<1>5. Ready(third) BY <1>1, <1>2, <1>4, AfterFacts
<1>. HIDE DEF third
<1>6. Ready(last) BY <1>1, <1>2, <1>5, AfterFacts
<1>7. After(first, asked) = last BY DEF After, second, third
<1>. HIDE DEF last
<1>8. H!OfferIsKept(last) BY <1>1, <1>6, OfferKept
<1>. QED BY <1>7, <1>8 DEF first

LEMMA HintsHeld ==
  ASSUME HintCase
  PROVE  H!OfferIsKept(After(at.session, at.asked))
<1>1. PICK o \in {None, TRUE, FALSE}, p \in {None, TRUE, FALSE}, asked \in [1 .. 3 -> 0 .. 2],
           title \in SUBSET Features, topic \in {"brackets", "pairs", "hashes", "other"},
           run \in HintRuns :
        /\ asked[1] = 0 => asked[2] = 0
        /\ asked[2] = 0 => asked[3] = 0
        /\ at = [part |-> "hints", asked |-> asked, session |->
             [override |-> o, policy |-> p, levels |-> <<>>, run |-> run,
              task |-> [title |-> title, topic |-> topic, tests |-> <<"t1">>]]]
  BY DEF HintCase
<1>. DEFINE task == [title |-> title, topic |-> topic, tests |-> <<"t1">>]
            first == [override |-> o, policy |-> p, levels |-> <<>>, run |-> run, task |-> task]
<1>2. at.session = first /\ at.asked = asked BY <1>1
<1>3. H!OfferIsKept(After(first, asked)) BY HintsKept
<1>. QED BY <1>2, <1>3

LEMMA RosterHeld ==
  ASSUME RosterCase
  PROVE  H!RosterIsHonest(at.class)
<1>1. PICK p \in {None, TRUE, FALSE}, o \in [1 .. 3 -> {None, TRUE, FALSE}] :
        at = [part |-> "roster", class |-> [policy |-> p, overrides |-> o]]
  BY DEF RosterCase
<1>2. at.class \in [policy : {None, TRUE, FALSE}, overrides : [1 .. 3 -> {None, TRUE, FALSE}]]
  BY <1>1
<1>. QED BY <1>2, RosterHonest, ViewsAssumption

\* The programs, histories and requests of the cases are among those that the theorems
\* above are about.
LEMMA CopyHeld ==
  ASSUME CopyCase
  PROVE  E!CopyIsSeen(at.a, at.b, 2)
<1>. DEFINE Name == {"x", "y"}
            Text == {"+"}
<1>1. Tokens \subseteq Tokened(Name, Text) BY DEF Tokens, Tokened
<1>2. ASSUME NEW n \in Nat, NEW source \in Sources(n)
      PROVE  IsTokened(source, Name, Text) /\ source.remarks = "own"
  <2>0. PICK t \in UNION {[1 .. m -> Tokens] : m \in 0 .. n} :
          source = [tokens |-> t, remarks |-> "own"]
    BY DEF Sources
  <2>1. PICK m \in 0 .. n : t \in [1 .. m -> Tokens] OBVIOUS
  <2>. HIDE DEF Name, Text
  <2>2. t \in [1 .. m -> Tokened(Name, Text)] BY <1>1, <2>1
  <2>3. t \in Seq(Tokened(Name, Text)) BY <2>2
  <2>. QED BY <2>0, <2>3 DEF IsTokened
<1>3. PICK a \in Sources(4), b \in Sources(3) : at = [part |-> "copy", a |-> a, b |-> b]
  BY DEF CopyCase
<1>. HIDE DEF Name, Text
<1>4. IsTokened(a, Name, Text) /\ a.remarks # "other" /\ IsTokened(b, Name, Text) BY <1>2
<1>5. IsProgram(b) BY <1>4 DEF IsTokened, IsProgram
<1>6. at.a = a /\ at.b = b BY <1>3
<1>. QED BY <1>4, <1>5, <1>6, CopySeenAlways

LEMMA ReportHeld ==
  ASSUME ReportCase
  PROVE  E!ReportAgrees(at.attempts, 2)
<1>1. PICK s \in [1 .. 3 -> Wide], who \in [1 .. 3 -> 1 .. 2], task \in [1 .. 3 -> 1 .. 2],
           l \in {"CPP", "JAVA"} :
        at = [part |-> "report", attempts |->
               [i \in 1 .. 3 |-> [number |-> i, student |-> who[i], task |-> task[i], source |-> s[i],
                                  language |-> IF i = 1 THEN l ELSE "CPP"]]]
  BY DEF ReportCase
<1>2. \A source \in Wide : IsProgram(source)
  <2>. DEFINE x == [name |-> "x"]
              y == [name |-> "y"]
              op == [text |-> "+"]
  <2>0. x \in Tokens /\ y \in Tokens /\ op \in Tokens BY DEF Tokens
  <2>2. \A source \in Wide : source.tokens \in
          {<<>>, <<x, op, y>>, <<x, op, y, op, y>>, <<x, op, x, op, x, op, y>>, <<op, op, op>>,
           <<x, op, y, x, x>>, <<x, op, y, y, y, x>>}
    BY DEF Wide
  <2>. HIDE DEF x, y, op
  <2>3. /\ <<>> \in Seq(Tokens) /\ <<x, op, y>> \in Seq(Tokens)
        /\ <<x, op, y, op, y>> \in Seq(Tokens) /\ <<x, op, x, op, x, op, y>> \in Seq(Tokens)
        /\ <<op, op, op>> \in Seq(Tokens) /\ <<x, op, y, x, x>> \in Seq(Tokens)
        /\ <<x, op, y, y, y, x>> \in Seq(Tokens)
    BY <2>0
  <2>1. \A source \in Wide : source.tokens \in Seq(Tokens) BY Zenon, <2>2, <2>3
  <2>. QED BY <2>1 DEF IsProgram
<1>. DEFINE attempts == at.attempts
<1>3. attempts = [i \in 1 .. 3 |-> attempts[i]]
      /\ \A i \in 1 .. 3 : attempts[i].source \in Wide /\ attempts[i].task \in 1 .. 2
  BY <1>1
<1>. HIDE DEF attempts
<1>4. AreAttempts(attempts)
  <2>1. attempts \in Seq({attempts[i] : i \in 1 .. 3}) /\ DOMAIN attempts = 1 .. 3
    BY <1>3, IsSequence
  <2>2. \A i \in DOMAIN attempts : IsProgram(attempts[i].source) /\ attempts[i].task # None
    BY <1>2, <1>3, <2>1, ViewsAssumption
  <2>. QED BY <2>1, <2>2 DEF AreAttempts
<1>. QED BY <1>4, ReportAgreesAlways, EvidenceAssumption DEF attempts, Verdicts

LEMMA ProcessHeld ==
  ASSUME ProcessCase
  PROVE  E!ProcessAgrees(at.history, at.lines, at.runs, at.event)
<1>. DEFINE Type == {"DRAFT_SAVED", "RUN_REQUESTED"}
<1>1. PICK n \in 1 .. 3, runs \in 1 .. 3, gap \in {10, 20, 60, 90}, lines \in {20, 26, 31} :
        \E types \in [1 .. n + 1 -> Type] :
          LET all == [i \in 1 .. n + 1 |-> [type |-> types[i], at |-> gap * i]] IN
          at = [part |-> "process", history |-> SubSeq(all, 1, n), event |-> all[n + 1],
                lines |-> lines, runs |-> runs]
  BY Zenon DEF ProcessCase
<1>1a. PICK types \in [1 .. n + 1 -> Type] :
        LET all == [i \in 1 .. n + 1 |-> [type |-> types[i], at |-> gap * i]] IN
        at = [part |-> "process", history |-> SubSeq(all, 1, n), event |-> all[n + 1],
              lines |-> lines, runs |-> runs]
  BY <1>1
<1>. DEFINE seq == [i \in 1 .. n + 1 |-> [type |-> types[i], at |-> gap * i]]
            history == SubSeq(seq, 1, n)
<1>2. \A i \in 1 .. n + 1 : seq[i] \in Event(Type) /\ seq[i].at = gap * i BY DEF Event
<1>3. seq \in Seq(Event(Type)) /\ Len(seq) = n + 1 /\ DOMAIN seq = 1 .. n + 1
  <2>1. seq \in [1 .. n + 1 -> Event(Type)] BY <1>2
  <2>. HIDE DEF seq, Type
  <2>. QED BY <2>1
<1>. HIDE DEF seq, Type
<1>4. /\ history \in Seq(Event(Type)) /\ Len(history) = n
      /\ \A i \in 1 .. n : history[i] = seq[i]
  BY <1>3
<1>. HIDE DEF history
<1>5. Append(history, seq[n + 1]) \in Seq(Event(Type))
      /\ Len(Append(history, seq[n + 1])) = n + 1
      /\ \A i \in 1 .. n + 1 : Append(history, seq[n + 1])[i] = seq[i]
  BY <1>2, <1>3, <1>4
<1>6. Ordered(Append(history, seq[n + 1]))
  <2>1. \A i, j \in 1 .. n + 1 : i <= j => gap * i <= gap * j OBVIOUS
  <2>. DEFINE more == Append(history, seq[n + 1])
  <2>2. DOMAIN more = 1 .. n + 1 /\ \A i \in 1 .. n + 1 : more[i].at = gap * i BY <1>2, <1>5
  <2>. HIDE DEF more
  <2>3. Ordered(more) BY <2>1, <2>2 DEF Ordered
  <2>. QED BY <2>3 DEF more
<1>7. at.history = history /\ at.event = seq[n + 1] /\ at.lines = lines /\ at.runs = runs
  BY <1>1a DEF history, seq
<1>8. lines \in Nat /\ runs \in Nat \ {0} /\ seq[n + 1] \in Event(Type) BY <1>2
<1>. QED BY <1>4, <1>6, <1>7, <1>8, ProcessAgreesAlways

LEMMA AiHeld ==
  ASSUME AiCase
  PROVE  /\ \A written \in BOOLEAN : E!AiIsAccountable(<<>>, <<>>, at.first, at.m1, 0, written)
         /\ \A written \in BOOLEAN, cache \in Caches, log \in Logs :
              E!AiIsAccountable(cache, log, at.second, at.m2, at.gap, written)
<1>1. at.gap \in Int BY SMTT(30) DEF AiCase
<1>2. /\ KeptAnswers(E!Remembered(<<>>, at.first, FirstAsked, 0))
      /\ IsLog(E!LogAiGeneration(<<>>, FirstAsked.due, TRUE))
  BY BeginKept, AiAccountable, 0 \in Int, TRUE \in BOOLEAN DEF FirstAsked
<1>3. \A cache \in Caches, log \in Logs : KeptAnswers(cache) /\ IsLog(log)
  BY <1>2, BeginKept DEF Caches, Logs
<1>. QED BY <1>1, <1>3, BeginKept, AiAccountable

\* The requests of the cases, and what a runner service may answer to them.
LEMMA AnswerCases ==
  ASSUME AnswerCase
  PROVE  LET Id == {"t1", "t2", "t3"} IN
         /\ at.request \in Seq([id : Id, visibility : Visibilities]) /\ AsksForTests(at.request)
         /\ at.response \in AnyResponse(States, Id, Visibilities) \cup {NoResponse}
<1>. DEFINE Id == {"t1", "t2", "t3"}
            Ask == [id : Id, visibility : Visibilities]
<1>1. at.request \in Requests /\ at.response \in Responses \cup {NoResponse}
  <2>1. PICK request \in Requests, response \in Responses \cup {NoResponse} :
          at = [part |-> "answer", request |-> request, response |-> response]
    BY Zenon DEF AnswerCase
  <2>2. at.request = request /\ at.response = response BY <2>1
  <2>. QED BY <2>2
<1>2. ASSUME NEW request \in Requests PROVE request \in Seq(Ask) /\ AsksForTests(request)
  <2>1. CASE request = <<>> BY <2>1 DEF AsksForTests
  <2>2. ASSUME NEW v \in Visibilities, request = <<[id |-> "t1", visibility |-> v]>>
        PROVE  request \in Seq(Ask) /\ AsksForTests(request)
    BY <2>2 DEF AsksForTests
  <2>3. ASSUME NEW v \in Visibilities, NEW w \in Visibilities,
               request = <<[id |-> "t1", visibility |-> v], [id |-> "t2", visibility |-> w]>>
        PROVE  request \in Seq(Ask) /\ AsksForTests(request)
    BY <2>3 DEF AsksForTests
  <2>. HIDE DEF Ask
  <2>4. \/ request = <<>>
        \/ \E v \in Visibilities : request = <<[id |-> "t1", visibility |-> v]>>
        \/ \E v, w \in Visibilities :
              request = <<[id |-> "t1", visibility |-> v], [id |-> "t2", visibility |-> w]>>
    BY DEF Requests
  <2>5. CASE \E v \in Visibilities : request = <<[id |-> "t1", visibility |-> v]>> BY <2>2, <2>5
  <2>6. CASE \E v, w \in Visibilities :
               request = <<[id |-> "t1", visibility |-> v], [id |-> "t2", visibility |-> w]>>
    BY <2>3, <2>6
  <2>. QED BY <2>1, <2>4, <2>5, <2>6
<1>3. ASSUME NEW tests \in ResultLists PROVE tests \in Seq(Result)
  <2>1. <<>> \in Seq(Result) OBVIOUS
  <2>2. ASSUME NEW a \in Result PROVE <<a>> \in Seq(Result) OBVIOUS
  <2>3. ASSUME NEW a \in Result, NEW b \in Result PROVE <<a, b>> \in Seq(Result) OBVIOUS
  <2>. HIDE DEF Result
  <2>4. \/ tests = <<>> \/ \E a \in Result : tests = <<a>>
        \/ \E a, b \in Result : tests = <<a, b>>
    BY DEF ResultLists
  <2>5. CASE \E a \in Result : tests = <<a>> BY <2>2, <2>5
  <2>6. CASE \E a, b \in Result : tests = <<a, b>> BY <2>3, <2>6
  <2>. QED BY <2>1, <2>4, <2>5, <2>6
<1>4. Responses \subseteq AnyResponse(States, Id, Visibilities)
  <2>1. ASSUME NEW response \in Responses
        PROVE  response \in AnyResponse(States, Id, Visibilities)
    <3>1. /\ response.tests \in ResultLists /\ response.state \in {"completed", "runtime_error"}
          /\ response.passed \in 0 .. 3 /\ response.total \in 0 .. 2
          /\ response = [state |-> response.state, passed |-> response.passed,
                         total |-> response.total, tests |-> response.tests]
      BY DEF Responses
    <3>2. response.state \in States /\ response.passed \in Nat /\ response.total \in Nat
      BY <3>1 DEF States
    <3>3. response.tests \in Seq([id : Id, passed : BOOLEAN, visibility : Visibilities])
      BY <1>3, <3>1, Zenon DEF Result
    <3>. QED BY <3>1, <3>2, <3>3 DEF AnyResponse
  <2>. QED BY <2>1
<1>. QED BY <1>1, <1>2, <1>4

LEMMA AnswerHeld ==
  ASSUME AnswerCase
  PROVE  /\ \A sent \in Spoken :
              /\ AnswerIsAboutRequest(at.request, JavaHttpAnswer(sent, at.request, at.response))
              /\ AnswerIsAboutRequest(at.request, CppHttpAnswer(sent, at.request, at.response))
         /\ NumbersFit(Given, at.request)
<1>. DEFINE Id == {"t1", "t2", "t3"}
<1>1. /\ at.request \in Seq([id : Id, visibility : Visibilities]) /\ AsksForTests(at.request)
      /\ at.response \in AnyResponse(States, Id, Visibilities) \cup {NoResponse}
  BY AnswerCases
<1>2. "unknown" \notin Visibilities BY DEF Visibilities
<1>. HIDE DEF Id
<1>3. \A sent, language :
        /\ AnswerIsAboutRequest(at.request, HttpAnswer(language, sent, at.request, at.response))
        /\ NumbersFit(HttpAnswer(language, sent, at.request, at.response), at.request)
  BY <1>1, <1>2, AnswerAboutRequest, NumbersAlwaysFit
<1>. QED BY <1>3 DEF JavaHttpAnswer, CppHttpAnswer, Given

LEMMA ShownHeld ==
  ASSUME AnswerCase
  PROVE  /\ \A snapshot \in Snapshots : \A tests \in Requests :
              HiddenStayHidden(snapshot, tests) /\ PagesAgree(snapshot, tests)
         /\ \A running, failure \in BOOLEAN :
              PanelIsHonest(running, failure, Snapshot(Given, at.request))
<1>. DEFINE Id == {"t1", "t2", "t3"}
            sent == [language |-> "JAVA", fits |-> TRUE]
<1>1. /\ at.request \in Seq([id : Id, visibility : Visibilities]) /\ AsksForTests(at.request)
      /\ at.response \in AnyResponse(States, Id, Visibilities) \cup {NoResponse}
  BY AnswerCases
<1>. HIDE DEF Id, sent
<1>2. LET snapshot == Snapshot(HttpAnswer("JAVA", sent, at.request, at.response), at.request) IN
      /\ \A stored \in {snapshot, Legacy(snapshot)} : \A tests :
           HiddenStayHidden(stored, tests) /\ PagesAgree(stored, tests)
      /\ \A running, failure \in BOOLEAN : PanelIsHonest(running, failure, snapshot)
  BY <1>1, ResultsAreShownTruly
<1>3. Given = HttpAnswer("JAVA", sent, at.request, at.response) BY DEF Given, JavaHttpAnswer, sent
<1>. QED BY <1>2, <1>3 DEF Snapshots

LEMMA ScoreHeld ==
  ASSUME ScoreCase
  PROVE  ScoreIsHonest(at.state, at.passed, at.total)
<1>1. at.total \in 0 .. 199 /\ at.passed \in 0 .. at.total BY DEF ScoreCase
<1>. QED BY <1>1, ScoreHonest

\* The programs of the runs.
LEMMA ProgramFits ==
  ASSUME ProgramCase
  PROVE  /\ at.part = "program" /\ AreLimits(at.limits)
         /\ Runs(at.program, Asked(Len(at.program.tests)), Len(at.program.tests))
<1>1. PICK limits \in {Small(Java), Small(Cpp)}, trouble \in Troubles, p \in Programs :
        at = [part |-> "program", limits |-> limits, trouble |-> trouble, program |-> WithTests(p)]
  BY DEF ProgramCase, Bothered
<1>a. /\ p.compiles \in BOOLEAN /\ p.compileTime \in {1, 12, 16} /\ p.staged \in {0, 2}
      /\ p.tests \in Behaviours /\ p = [p EXCEPT !.tests = p.tests]
  BY DEF Programs
<1>. DEFINE program == WithTests(p)
<1>2. at.part = "program" /\ at.limits = limits /\ at.program = program BY <1>1
<1>3. AreLimits(limits)
  <2>1. /\ Small(Java).lifetime = 15 /\ Small(Java).compile = 15 /\ Small(Java).wall = 5
        /\ Small(Java).output = 2 /\ Small(Java).total = 3
    BY DEF Small, Java
  <2>2. /\ Small(Cpp).lifetime = 30 /\ Small(Cpp).compile = 10 /\ Small(Cpp).wall = 5
        /\ Small(Cpp).output = 2 /\ Small(Cpp).total = 3
    BY DEF Small, Cpp
  <2>. QED BY <2>1, <2>2 DEF AreLimits
<1>4. PICK n \in 0 .. 2 : /\ p.tests \in Seq(Behaviour) /\ Len(p.tests) = n
                          /\ \A i \in 1 .. n : p.tests[i] \in Behaviour
  <2>1. \/ p.tests = <<>>
        \/ \E a \in Behaviour : p.tests = <<a>>
        \/ \E a, b \in Behaviour : p.tests = <<a, b>>
    BY <1>a DEF Behaviours
  <2>2. CASE p.tests = <<>> BY <2>2
  <2>3. CASE \E a \in Behaviour : p.tests = <<a>>
    <3>1. PICK a \in Behaviour : p.tests = <<a>> BY <2>3
    <3>. QED BY <3>1
  <2>4. CASE \E a, b \in Behaviour : p.tests = <<a, b>>
    <3>1. PICK a \in Behaviour, b \in Behaviour : p.tests = <<a, b>> BY <2>4
    <3>. QED BY <3>1
  <2>. QED BY <2>1, <2>2, <2>3, <2>4
<1>. DEFINE tests == [i \in 1 .. n |->
              [does |-> p.tests[i].does, seconds |-> p.tests[i].seconds, bytes |-> p.tests[i].bytes,
               json |-> 4 * p.tests[i].bytes, id |-> Ids[i], visibility |-> Asked(2)[i].visibility]]
<1>5. /\ program.tests = tests /\ program.compiles \in BOOLEAN
      /\ program.compileTime \in Nat /\ program.staged \in Nat
  <2>1. DOMAIN p.tests = 1 .. n BY <1>4
  <2>2. program = [p EXCEPT !.tests = tests] BY <2>1, Zenon DEF WithTests
  <2>. HIDE DEF tests, program
  <2>3. /\ program.tests = tests /\ program.compiles = p.compiles
        /\ program.compileTime = p.compileTime /\ program.staged = p.staged
    BY <1>a, <2>2 DEF Programs
  <2>. QED BY <1>a, <2>3
<1>6. Len(tests) = n /\ DOMAIN tests = 1 .. n
  <2>1. tests = [i \in 1 .. n |-> tests[i]] OBVIOUS
  <2>. HIDE DEF tests
  <2>. QED BY <2>1, IsSequence
<1>7. \A i \in 1 .. n : /\ tests[i].does = p.tests[i].does /\ tests[i].seconds = p.tests[i].seconds
                        /\ tests[i].bytes = p.tests[i].bytes /\ tests[i].id = Ids[i]
                        /\ tests[i].visibility = Asked(2)[i].visibility
  OBVIOUS
<1>. DEFINE asked == Asked(n)
<1>8. /\ Len(asked) = n /\ DOMAIN asked = 1 .. n
      /\ \A i \in 1 .. n : /\ asked[i].id = Ids[i]
                           /\ asked[i].visibility = Asked(2)[i].visibility
                           /\ asked[i].visibility \in Visibilities
  <2>1. asked = [i \in 1 .. n |-> asked[i]] /\ DOMAIN asked = 1 .. n BY DEF Asked
  <2>2. \A i \in 1 .. n :
          /\ asked[i].id = Ids[i] /\ asked[i].visibility = Asked(2)[i].visibility
          /\ asked[i].visibility \in Visibilities
    BY DEF Asked, Visibilities
  <2>. HIDE DEF asked
  <2>. QED BY <2>1, <2>2, IsSequence
<1>9. AsksForTests(asked)
  <2>1. \A i, j \in 1 .. n : Ids[i] = Ids[j] => i = j BY DEF Ids
  <2>. HIDE DEF asked
  <2>. QED BY <1>8, <2>1 DEF AsksForTests
<1>10. \A i \in 1 .. n : /\ p.tests[i].does \in {"right", "wrong", "crash"}
                         /\ p.tests[i].seconds \in Nat /\ p.tests[i].bytes \in Nat
  BY <1>4 DEF Behaviour
<1>. HIDE DEF tests, asked, program
<1>11. Runs(program, asked, n) BY <1>5, <1>6, <1>7, <1>8, <1>9, <1>10 DEF Runs
<1>12. Len(at.program.tests) = n BY <1>2, <1>5, <1>6
<1>. QED BY <1>2, <1>3, <1>11, <1>12 DEF asked

LEMMA ProgramHeld == ASSUME ProgramCase PROVE VerdictsAreHonest
<1>1. /\ AreLimits(at.limits)
      /\ Runs(at.program, Asked(Len(at.program.tests)), Len(at.program.tests))
  BY ProgramFits
<1>. QED BY <1>1, VerdictsAlwaysHonest DEF VerdictsAreHonest, AreEnds, Runs

LEMMA VisitorHeld ==
  ASSUME VisitorCase
  PROVE  D!V!Arrives(at.env, at.visitor, {None} \cup Roles)
<1>1. at.visitor \in Visitor BY DEF VisitorCase, Visitor
<1>. QED BY <1>1, ArrivesAlways

\* The classrooms of the cases are schools that the theorems above are about.
LEMMA WorkShapes ==
  ASSUME NEW work \in Many
  PROVE  IsWork(work)
<1>1. ASSUME NEW a, a[1] \in {"all", "hidden", "crash"}, a[2] \in {None, "DRAFT", "PUBLISHED"},
             work = <<a>>
      PROVE  IsWork(work)
  <2>1. DOMAIN work = 1 .. 1 /\ work[1] = a BY <1>1
  <2>. QED BY <1>1, <2>1 DEF IsWork
<1>2. ASSUME NEW a, a[1] \in {"all", "hidden", "crash"}, a[2] \in {None, "DRAFT", "PUBLISHED"},
             NEW b, b[1] \in {"all", "hidden", "crash"}, b[2] \in {None, "DRAFT", "PUBLISHED"},
             work = <<a, b>>
      PROVE  IsWork(work)
  <2>1. DOMAIN work = 1 .. 2 /\ work[1] = a /\ work[2] = b BY <1>2
  <2>2. \A n \in 1 .. 2 : n = 1 \/ n = 2 OBVIOUS
  <2>. QED BY <1>2, <2>1, <2>2 DEF IsWork
<1>3. CASE work = <<>> BY <1>3 DEF IsWork
<1>4. CASE work = <<<<"hidden", "DRAFT">>>>
  <2>. DEFINE a == <<"hidden", "DRAFT">>
  <2>1. a[1] = "hidden" /\ a[2] = "DRAFT" /\ work = <<a>> BY <1>4
  <2>. HIDE DEF a
  <2>. QED BY <1>1, <2>1
<1>5. CASE work = <<<<"crash", "PUBLISHED">>, <<"all", None>>>>
  <2>. DEFINE a == <<"crash", "PUBLISHED">>
              b == <<"all", None>>
  <2>1. a[1] = "crash" /\ a[2] = "PUBLISHED" /\ b[1] = "all" /\ b[2] = None /\ work = <<a, b>>
    BY <1>5
  <2>. HIDE DEF a, b
  <2>. QED BY <1>2, <2>1
<1>6. CASE work = <<<<"all", None>>, <<"hidden", "PUBLISHED">>>>
  <2>. DEFINE a == <<"all", None>>
              b == <<"hidden", "PUBLISHED">>
  <2>1. a[1] = "all" /\ a[2] = None /\ b[1] = "hidden" /\ b[2] = "PUBLISHED" /\ work = <<a, b>>
    BY <1>6
  <2>. HIDE DEF a, b
  <2>. QED BY <1>2, <2>1
<1>7. ASSUME NEW a \in Once, work = <<a>> PROVE IsWork(work)
  <2>1. a[1] \in {"all", "hidden", "crash"} /\ a[2] \in {None, "DRAFT", "PUBLISHED"} BY DEF Once
  <2>. QED BY <1>1, <1>7, <2>1
<1>. QED BY <1>3, <1>4, <1>5, <1>6, <1>7 DEF Many, Few

LEMMA StampTells ==
  ASSUME NEW a, NEW b, Stamped(a), Stamped(b), a.at = b.at
  PROVE  a.task = b.task /\ a.student = b.student /\ a.number = b.number
BY DEF Stamped

LEMMA AttemptedFacts ==
  ASSUME NEW id \in 1 .. 3, NEW s \in 1 .. 2, NEW work \in Many, NEW n \in DOMAIN work
  PROVE  LET a == Attempted(id, s, n, work) IN
         /\ a.task = id /\ a.student = s /\ a.number = n /\ n \in 1 .. 2 /\ Stamped(a) /\ a # None /\ a \in Attempts
<1>. DEFINE a == Attempted(id, s, n, work)
            kind == work[n][1]
            g == Grade(kind)
<1>1. n \in 1 .. 2 /\ kind \in {"all", "hidden", "crash"} /\ work[n][2] \in {None, "DRAFT", "PUBLISHED"}
  BY WorkShapes DEF IsWork
<1>2. /\ g.state \in {"completed", "runtime_error"} /\ g.passed \in Nat /\ g.total \in Nat
      /\ g.breakdown \in {Grade(k).breakdown : k \in {"all", "hidden", "crash"}}
  <2>1. g.state \in {"completed", "runtime_error"} /\ g.passed \in Nat /\ g.total \in Nat
    <3>1. CASE kind = "all" BY <3>1 DEF Grade
    <3>2. CASE kind = "hidden" BY <3>2 DEF Grade
    <3>3. CASE kind = "crash" BY <3>3 DEF Grade
    <3>. QED BY <1>1, <3>1, <3>2, <3>3
  <2>. HIDE DEF kind
  <2>. QED BY <1>1, <2>1
<1>. HIDE DEF kind, g
<1>3. a = [task |-> id, student |-> s, number |-> n, at |-> 100 * n + 10 * id + s,
           review |-> work[n][2], state |-> g.state, passed |-> g.passed, total |-> g.total,
           breakdown |-> g.breakdown]
  BY DEF Attempted, g, kind
<1>. HIDE DEF a
<1>4. a.task = id /\ a.student = s /\ a.number = n /\ Stamped(a) BY <1>1, <1>3 DEF Stamped
<1>5. 100 * n + 10 * id + s \in Nat BY <1>1
<1>6. a \in Attempts BY <1>1, <1>2, <1>3, <1>5 DEF Attempts
<1>7. a # None BY <1>6, SchoolAssumption
<1>. QED BY <1>1, <1>4, <1>6, <1>7 DEF a

LEMMA SchoolTaskFacts ==
  ASSUME NEW id \in 1 .. 3, NEW status \in {"DRAFT", "PUBLISHED"}, NEW deadline \in {None} \cup Int,
         NEW working \in SUBSET Nat, NEW w1 \in Many, NEW w2 \in Many
  PROVE  IsStampedTask(SchoolTask(id, status, deadline, working, <<w1, w2>>), id)
<1>. DEFINE works == <<w1, w2>>
            task == SchoolTask(id, status, deadline, working, works)
            A == UNION {{Attempted(id, s, n, works[s]) : n \in DOMAIN works[s]} : s \in DOMAIN works}
<1>1. /\ task = [id |-> id, status |-> status, deadline |-> deadline, working |-> working,
                 attempts |-> A]
  BY DEF SchoolTask
<1>2. DOMAIN works = 1 .. 2 /\ \A s \in 1 .. 2 : works[s] \in Many OBVIOUS
<1>. HIDE DEF works
<1>3. ASSUME NEW a \in A
      PROVE  \E s \in 1 .. 2, n \in 1 .. 2 : n \in DOMAIN works[s] /\ a = Attempted(id, s, n, works[s])
  <2>0. PICK s \in 1 .. 2 : \E n \in DOMAIN works[s] : a = Attempted(id, s, n, works[s]) BY <1>2
  <2>1. PICK n \in DOMAIN works[s] : a = Attempted(id, s, n, works[s]) BY <2>0
  <2>2. works[s] \in Many BY <1>2
  <2>3. n \in 1 .. 2 BY <2>2, AttemptedFacts
  <2>. QED BY <2>1, <2>3
<1>4. \A s \in 1 .. 2, n \in 1 .. 2 : n \in DOMAIN works[s] =>
        LET a == Attempted(id, s, n, works[s]) IN
        a.task = id /\ a.student = s /\ a.number = n /\ Stamped(a) /\ a # None /\ a \in Attempts
  <2>. TAKE s \in 1 .. 2, n \in 1 .. 2
  <2>1. works[s] \in Many BY <1>2
  <2>. QED BY <2>1, AttemptedFacts
<1>5. IsFiniteSet(A)
  <2>. DEFINE All == {Attempted(id, pair[1], pair[2], works[pair[1]]) : pair \in (1 .. 2) \X (1 .. 2)}
  <2>1. IsFiniteSet((1 .. 2) \X (1 .. 2))
    <3>1. IsFiniteSet(1 .. 2)
      <4>. DEFINE a == 1
                  b == 2
      <4>1. a \in Int /\ b \in Int OBVIOUS
      <4>. HIDE DEF a, b
      <4>2. IsFiniteSet(a .. b) BY <4>1, FS_Interval
      <4>. QED BY <4>2 DEF a, b
    <3>. QED BY <3>1, FS_Product
  <2>2. IsFiniteSet(All)
    <3>. DEFINE P == (1 .. 2) \X (1 .. 2)
                f == [pair \in P |-> Attempted(id, pair[1], pair[2], works[pair[1]])]
    <3>1. f \in Surjection(P, All) BY DEF Surjection
    <3>. QED BY <2>1, <3>1, FS_Surjection
  <2>3. A \subseteq All
    <3>. SUFFICES ASSUME NEW a \in A PROVE a \in All OBVIOUS
    <3>1. PICK s \in 1 .. 2, n \in 1 .. 2 : a = Attempted(id, s, n, works[s]) BY <1>3
    <3>. DEFINE pair == <<s, n>>
    <3>2. pair \in (1 .. 2) \X (1 .. 2) /\ pair[1] = s /\ pair[2] = n OBVIOUS
    <3>. HIDE DEF pair
    <3>. QED BY <3>1, <3>2
  <2>. HIDE DEF A, All
  <2>. QED BY <2>2, <2>3, FS_Subset
<1>6. A \in SUBSET Attempts BY <1>3, <1>4
<1>. HIDE DEF A, task
<1>7. task # None BY <1>1, <1>6, SchoolAssumption
<1>8. id # None BY ViewsAssumption
<1>9. \A a \in A : a # None /\ a.task = id /\ a.number \in Nat /\ Stamped(a) BY <1>3, <1>4
<1>10. ASSUME NEW a \in A, NEW b \in A, a.student = b.student, a.number = b.number
       PROVE  a = b
  <2>1. PICK s \in 1 .. 2, n \in 1 .. 2 : n \in DOMAIN works[s] /\ a = Attempted(id, s, n, works[s])
    BY <1>3
  <2>2. PICK t \in 1 .. 2, m \in 1 .. 2 : m \in DOMAIN works[t] /\ b = Attempted(id, t, m, works[t])
    BY <1>3
  <2>3. a.student = s /\ a.number = n /\ b.student = t /\ b.number = m BY <1>4, <2>1, <2>2
  <2>. QED BY <1>10, <2>1, <2>2, <2>3
<1>11. task.id = id /\ task.attempts = A /\ task.deadline = deadline BY <1>1
<1>12. IsTask(task) BY <1>5, <1>7, <1>8, <1>9, <1>10, <1>11 DEF IsTask
<1>. QED BY <1>9, <1>11, <1>12 DEF task, works, IsStampedTask

\* Classes whose attempts are stamped are a school: no two attempts are of one time.
LEMMA StampedSchool ==
  ASSUME NEW classes, \E Class : classes \in Seq(Class),
         \A i \in DOMAIN classes : IsClass(classes[i]) /\ classes[i].id # None,
         \A i, j \in DOMAIN classes : classes[i].id = classes[j].id => i = j,
         \A i, j \in DOMAIN classes : \A s \in ToSet(classes[i].tasks), t \in ToSet(classes[j].tasks) :
           s.id = t.id => i = j /\ s = t,
         \A i \in DOMAIN classes : \A t \in ToSet(classes[i].tasks) :
           IsStampedTask(t, t.id)
  PROVE  IsSchool(classes)
<1>1. \A a \in AllAttempts(classes) :
        \E i \in DOMAIN classes : \E t \in ToSet(classes[i].tasks) : a \in t.attempts
  BY DEF AllAttempts, AllTasks
<1>2. \A a \in AllAttempts(classes) : Stamped(a) BY <1>1 DEF IsStampedTask
<1>3. \A a \in AllAttempts(classes) : a.at \in Int BY <1>2 DEF Stamped
<1>4. ASSUME NEW a \in AllAttempts(classes), NEW b \in AllAttempts(classes), a.at = b.at
      PROVE  a = b
  <2>1. a.task = b.task /\ a.student = b.student /\ a.number = b.number BY <1>2, <1>4, StampTells
  <2>2. PICK i \in DOMAIN classes : \E t \in ToSet(classes[i].tasks) : a \in t.attempts BY <1>1
  <2>3. PICK t \in ToSet(classes[i].tasks) : a \in t.attempts BY <2>2
  <2>4. PICK j \in DOMAIN classes : \E u \in ToSet(classes[j].tasks) : b \in u.attempts BY <1>1
  <2>5. PICK u \in ToSet(classes[j].tasks) : b \in u.attempts BY <2>4
  <2>6. a.task = t.id /\ b.task = u.id BY <2>3, <2>5 DEF IsTask, IsStampedTask
  <2>7. t.id = u.id BY <2>1, <2>6
  <2>8. t = u BY Zenon, <2>2, <2>3, <2>4, <2>5, <2>7
  <2>. QED BY <2>1, <2>3, <2>5, <2>8 DEF IsTask, IsStampedTask
<1>. QED BY <1>3, <1>4 DEF IsSchool

\* A class of the cases.
LEMMA ClassOf ==
  ASSUME NEW class, NEW m \in {"active", "inactive"}, NEW n \in {"active", "none"},
         class.members = <<m, n>>, \E Task : class.tasks \in Seq(Task),
         \A t \in ToSet(class.tasks) : IsTask(t),
         \A i, j \in DOMAIN class.tasks : class.tasks[i].id = class.tasks[j].id => i = j
  PROVE  IsClass(class)
<1>1. class.members \in Seq({"active", "inactive", "none"}) OBVIOUS
<1>2. \A i \in DOMAIN class.tasks : IsTask(class.tasks[i]) BY DEF ToSet
<1>. QED BY <1>1, <1>2 DEF IsClass

LEMMA ManyWork == <<>> \in Many /\ <<<<"all", None>>>> \in Many /\ Few \subseteq Many
<1>1. <<>> \in Few /\ Few \subseteq Many BY DEF Few, Many
<1>2. <<"all", None>> \in Once BY DEF Once
<1>3. \A a \in Once : <<a>> \in Many BY DEF Many
<1>. QED BY <1>1, <1>2, <1>3

LEMMA OneClassHeld ==
  ASSUME OneClassCase
  PROVE  IsSchool(at.classes)
<1>1. PICK w1 \in Many, w2 \in Many, m \in {"active", "inactive"}, working \in {{}, {2}} :
        at = [part |-> "school", classes |->
          <<[id |-> "c1", members |-> <<m, "active">>,
             tasks |-> <<SchoolTask(1, "PUBLISHED", 30, working, <<w1, w2>>)>>]>>]
  BY DEF OneClassCase
<1>. DEFINE t == SchoolTask(1, "PUBLISHED", 30, working, <<w1, w2>>)
            c == [id |-> "c1", members |-> <<m, "active">>, tasks |-> <<t>>]
            classes == <<c>>
<1>2. at.classes = classes BY <1>1
<1>3. IsStampedTask(t, 1)
  <2>1. /\ working \in SUBSET Nat /\ 1 \in 1 .. 3 /\ "PUBLISHED" \in {"DRAFT", "PUBLISHED"}
        /\ 30 \in {None} \cup Int
    OBVIOUS
  <2>. HIDE DEF t
  <2>. QED BY <2>1, SchoolTaskFacts DEF t
<1>. HIDE DEF t
<1>4. /\ c.id = "c1" /\ c.members = <<m, "active">> /\ c.tasks = <<t>> OBVIOUS
<1>. HIDE DEF c
<1>5. c.tasks \in Seq({t}) /\ ToSet(c.tasks) = {t} /\ DOMAIN c.tasks = 1 .. 1 BY <1>4 DEF ToSet
<1>6. IsClass(c)
  <2>1. \A i, j \in DOMAIN c.tasks : i = j BY <1>5
  <2>. QED BY <1>3, <1>4, <1>5, <2>1, ClassOf DEF IsStampedTask
<1>7. classes \in Seq({c}) /\ DOMAIN classes = 1 .. 1 /\ classes[1] = c OBVIOUS
<1>8. c.id # None BY <1>4, SchoolAssumption
<1>. HIDE DEF classes
<1>9. \A i \in DOMAIN classes : i = 1 /\ classes[i] = c BY <1>7
<1>10. IsSchool(classes)
  <2>1. \A i, j \in DOMAIN classes : \A s \in ToSet(classes[i].tasks), u \in ToSet(classes[j].tasks) :
          s.id = u.id => i = j /\ s = u
    BY <1>5, <1>9
  <2>2. \A i \in DOMAIN classes : \A u \in ToSet(classes[i].tasks) :
          IsStampedTask(u, u.id)
    BY <1>3, <1>5, <1>9 DEF IsStampedTask
  <2>. QED BY <1>6, <1>7, <1>8, <1>9, <2>1, <2>2, StampedSchool
<1>. QED BY <1>2, <1>10

LEMMA TwoClassesHeld ==
  ASSUME TwoClassesCase
  PROVE  IsSchool(at.classes)
<1>1. PICK s1 \in {"DRAFT", "PUBLISHED"}, s3 \in {"DRAFT", "PUBLISHED"},
           m1 \in {"active", "inactive"}, m2 \in {"active", "inactive"},
           d1 \in {None, 0 - 30, 50}, d2 \in {None, 0 - 30, 50},
           w1 \in Few, w2 \in Few, w3 \in Few, other \in {<<>>, <<<<"all", None>>>>} :
        at = [part |-> "school", classes |->
          <<[id |-> "c1", members |-> <<m1, "active">>,
             tasks |-> <<SchoolTask(2, s1, d1, {}, <<IF s1 = "DRAFT" THEN <<>> ELSE w1, <<>>>>),
                         SchoolTask(1, "PUBLISHED", d2, {1}, <<w2, other>>)>>],
            [id |-> "c2", members |-> <<m2, "none">>,
             tasks |-> <<SchoolTask(3, s3, 7, {}, <<IF s3 = "DRAFT" THEN <<>> ELSE w3, <<>>>>)>>]>>]
  BY DEF TwoClassesCase
<1>. DEFINE nobody == {}
            nothing == <<>>
            v1 == IF s1 = "DRAFT" THEN <<>> ELSE w1
            v3 == IF s3 = "DRAFT" THEN <<>> ELSE w3
            t1 == SchoolTask(1, "PUBLISHED", d2, {1}, <<w2, other>>)
            t2 == SchoolTask(2, s1, d1, nobody, <<v1, nothing>>)
            t3 == SchoolTask(3, s3, 7, nobody, <<v3, nothing>>)
            c == [id |-> "c1", members |-> <<m1, "active">>, tasks |-> <<t2, t1>>]
            d == [id |-> "c2", members |-> <<m2, "none">>, tasks |-> <<t3>>]
            classes == <<c, d>>
<1>2. at.classes = classes BY <1>1
<1>3. v1 \in Many /\ v3 \in Many /\ w2 \in Many /\ other \in Many /\ nothing \in Many
  <2>1. v1 \in Many BY ManyWork
  <2>2. v3 \in Many BY ManyWork
  <2>3. other \in Many BY ManyWork
  <2>. QED BY <2>1, <2>2, <2>3, ManyWork
<1>. HIDE DEF v1, v3
<1>4. d1 \in {None} \cup Int /\ d2 \in {None} \cup Int /\ {1} \in SUBSET Nat /\ nobody \in SUBSET Nat
  OBVIOUS
<1>. HIDE DEF nobody, nothing
<1>5. IsStampedTask(t1, 1)
  <2>1. 1 \in 1 .. 3 /\ "PUBLISHED" \in {"DRAFT", "PUBLISHED"} /\ d2 \in {None} \cup Int BY <1>4
  <2>. HIDE DEF t1
  <2>. QED BY <1>3, <1>4, <2>1, SchoolTaskFacts DEF t1
<1>6. IsStampedTask(t2, 2)
  <2>. DEFINE id == 2
              deadline == d1
  <2>1. id \in 1 .. 3 /\ deadline \in {None} \cup Int /\ s1 \in {"DRAFT", "PUBLISHED"} BY <1>4
  <2>2. t2 = SchoolTask(id, s1, deadline, nobody, <<v1, nothing>>) OBVIOUS
  <2>. HIDE DEF id, deadline, t2
  <2>3. IsStampedTask(t2, id) BY <1>3, <1>4, <2>1, <2>2, SchoolTaskFacts
  <2>. QED BY <2>3 DEF id
<1>7. IsStampedTask(t3, 3)
  <2>. DEFINE id == 3
              deadline == 7
  <2>1. id \in 1 .. 3 /\ deadline \in {None} \cup Int /\ s3 \in {"DRAFT", "PUBLISHED"} BY <1>4
  <2>2. t3 = SchoolTask(id, s3, deadline, nobody, <<v3, nothing>>) OBVIOUS
  <2>. HIDE DEF id, deadline, t3
  <2>3. IsStampedTask(t3, id) BY <1>3, <1>4, <2>1, <2>2, SchoolTaskFacts
  <2>. QED BY <2>3 DEF id
<1>. HIDE DEF t1, t2, t3
<1>8. /\ c.id = "c1" /\ c.members = <<m1, "active">> /\ c.tasks = <<t2, t1>>
      /\ d.id = "c2" /\ d.members = <<m2, "none">> /\ d.tasks = <<t3>>
  OBVIOUS
<1>. HIDE DEF c, d
<1>9. /\ c.tasks \in Seq({t1, t2}) /\ DOMAIN c.tasks = 1 .. 2 /\ c.tasks[1] = t2 /\ c.tasks[2] = t1
      /\ d.tasks \in Seq({t3}) /\ DOMAIN d.tasks = 1 .. 1 /\ d.tasks[1] = t3
  BY <1>8
<1>10. ToSet(c.tasks) = {t1, t2} /\ ToSet(d.tasks) = {t3} BY <1>9 DEF ToSet
<1>11. IsClass(c)
  <2>1. \A i, j \in DOMAIN c.tasks : c.tasks[i].id = c.tasks[j].id => i = j
    <3>1. \A i \in 1 .. 2 : i = 1 \/ i = 2 OBVIOUS
    <3>. QED BY <1>5, <1>6, <1>9, <3>1 DEF IsStampedTask
  <2>. QED BY <1>5, <1>6, <1>8, <1>9, <1>10, <2>1, ClassOf DEF IsStampedTask
<1>12. IsClass(d)
  <2>1. \A i, j \in DOMAIN d.tasks : i = j BY <1>9
  <2>. QED BY <1>7, <1>8, <1>9, <1>10, <2>1, ClassOf DEF IsStampedTask
<1>13. classes \in Seq({c, d}) /\ DOMAIN classes = 1 .. 2 /\ classes[1] = c /\ classes[2] = d
  OBVIOUS
<1>14. c.id # None /\ d.id # None /\ c.id # d.id BY <1>8, SchoolAssumption
<1>. HIDE DEF classes
<1>15. \A i \in DOMAIN classes : (i = 1 /\ classes[i] = c) \/ (i = 2 /\ classes[i] = d)
  <2>1. \A i \in 1 .. 2 : i = 1 \/ i = 2 OBVIOUS
  <2>. QED BY <1>13, <2>1
<1>16. IsSchool(classes)
  <2>1. \A i, j \in DOMAIN classes : \A s \in ToSet(classes[i].tasks), u \in ToSet(classes[j].tasks) :
          s.id = u.id => i = j /\ s = u
    <3>. SUFFICES ASSUME NEW i \in DOMAIN classes, NEW j \in DOMAIN classes,
                         NEW s \in ToSet(classes[i].tasks), NEW u \in ToSet(classes[j].tasks),
                         s.id = u.id
                  PROVE  i = j /\ s = u
      OBVIOUS
    <3>1. (i = 1 /\ s \in {t1, t2}) \/ (i = 2 /\ s = t3) BY <1>10, <1>15
    <3>2. (j = 1 /\ u \in {t1, t2}) \/ (j = 2 /\ u = t3) BY <1>10, <1>15
    <3>. QED BY <1>5, <1>6, <1>7, <3>1, <3>2 DEF IsStampedTask
  <2>2. \A i \in DOMAIN classes : \A u \in ToSet(classes[i].tasks) :
          IsStampedTask(u, u.id)
    BY <1>5, <1>6, <1>7, <1>10, <1>15 DEF IsStampedTask
  <2>3. \A i \in DOMAIN classes : IsClass(classes[i]) /\ classes[i].id # None
    BY <1>11, <1>12, <1>14, <1>15
  <2>4. \A i, j \in DOMAIN classes : classes[i].id = classes[j].id => i = j BY <1>14, <1>15
  <2>. QED BY <1>13, <2>1, <2>2, <2>3, <2>4, StampedSchool
<1>. QED BY <1>2, <1>16

\* Help is honest in every case (HelpIsHonest): the pulse, the offer of hints and the
\* switches of the roster.
THEOREM HelpHeld == Spec => []HelpIsHonest
<1>1. Init => HelpIsHonest BY Parts, PulseHeld, HintsHeld, RosterHeld DEF HelpIsHonest
<1>2. HelpIsHonest /\ [Next]_at => HelpIsHonest' BY Unchanged DEF Next
<1>. QED BY <1>1, <1>2, PTL DEF Spec

\* Choices of a provider are safe and a deployment is what it says, in every case
\* (ChoicesAreSafe).
THEOREM ChoicesHeld == Spec => []ChoicesAreSafe
<1>1. ChoiceCase => ChoiceIsSafe(at.env, at.language)
  <2>. SUFFICES ASSUME ChoiceCase PROVE ChoiceIsSafe(at.env, at.language) OBVIOUS
  <2>1. at.language \in {"JAVA", "CPP"} BY DEF ChoiceCase
  <2>. QED BY <2>1, ChoiceSafe
<1>2. DeploymentCase => D!DeploymentIsHonest(at.env, at.world)
  <2>. SUFFICES ASSUME DeploymentCase PROVE D!DeploymentIsHonest(at.env, at.world) OBVIOUS
  <2>1. Switches(at.env) /\ at.world.database \in BOOLEAN /\ at.world.workers \in BOOLEAN
    BY DEF DeploymentCase, Switches
  <2>. QED BY <2>1, DeploymentHonest
<1>3. Init => ChoicesAreSafe BY <1>1, <1>2, Parts DEF ChoicesAreSafe
<1>4. ChoicesAreSafe /\ [Next]_at => ChoicesAreSafe' BY Unchanged DEF Next
<1>. QED BY <1>3, <1>4, PTL DEF Spec

\* Everyone arrives in every case (EveryoneArrives).
THEOREM ArrivalsHeld == Spec => []EveryoneArrives
<1>1. Init => EveryoneArrives BY Parts, VisitorHeld DEF EveryoneArrives
<1>2. EveryoneArrives /\ [Next]_at => EveryoneArrives' BY Unchanged DEF Next
<1>. QED BY <1>1, <1>2, PTL DEF Spec

\* Evidence is fair in every case (EvidenceIsFair).
THEOREM EvidenceHeld == Spec => []EvidenceIsFair
<1>1. Init => EvidenceIsFair BY Parts, CopyHeld, ReportHeld, ProcessHeld, AiHeld DEF EvidenceIsFair
<1>2. EvidenceIsFair /\ [Next]_at => EvidenceIsFair' BY Unchanged DEF Next
<1>. QED BY <1>1, <1>2, PTL DEF Spec

\* Results are true in every case (ResultsAreTrue): marks are earned and shown as they are.
THEOREM ResultsHeld == Spec => []ResultsAreTrue
<1>1. Init => MarksAreEarned BY Parts, AnswerHeld, ScoreHeld DEF MarksAreEarned
<1>2. Init => ResultsAgree BY Parts, ShownHeld DEF ResultsAgree
<1>3. Init => ResultsAreTrue BY <1>1, <1>2 DEF ResultsAreTrue
<1>4. ResultsAreTrue /\ [Next]_at => ResultsAreTrue' BY Unchanged DEF Next
<1>. QED BY <1>3, <1>4, PTL DEF Spec

\* Verdicts are the program's in every case (VerdictsAreHonest).
THEOREM VerdictsHeld == Spec => []VerdictsAreHonest
<1>1. Init => VerdictsAreHonest
  <2>1. at.part # "program" => VerdictsAreHonest BY DEF VerdictsAreHonest
  <2>. QED BY <2>1, Parts, ProgramHeld
<1>2. VerdictsAreHonest /\ [Next]_at => VerdictsAreHonest' BY Unchanged DEF Next
<1>. QED BY <1>1, <1>2, PTL DEF Spec

\* A page that is kept catches up with its rows, whenever it is visited.
LEMMA CatchesUp ==
  ASSUME None \notin Nat, NEW now \in Nat, NEW kept \in {None} \cup 0 .. now, NEW later \in Nat,
         later >= now, NEW seconds \in Nat \ {0}, NEW change \in Change, NEW next \in Change
  PROVE  PageCatchesUp(kept, change, now, next, later, seconds)
<1>. DEFINE before == Dropped(kept, change)
            after == KeptAfter(before, now, seconds)
<1>1. now # None /\ later # None /\ (before = None \/ before \in 0 .. now)
      /\ (change = "action" => before = None) BY DEF Dropped
<1>. HIDE DEF before
<1>2. CASE before = None
  <2>1. after = now /\ ReadAt(before, now) = now BY <1>2 DEF KeptAfter, ReadAt
  <2>. QED BY <1>1, <1>2, <2>1 DEF PageCatchesUp, ReadAt, Dropped, before, after
<1>3. CASE before \in 0 .. now
  <2>1. before # None /\ ReadAt(before, now) = before BY <1>3 DEF ReadAt
  <2>2. after \in 0 .. now /\ after > now - seconds /\ before <= after BY <1>3, <2>1 DEF KeptAfter
  <2>. HIDE DEF after
  <2>3. after # None BY <2>2
  <2>. QED BY <1>1, <1>3, <2>1, <2>2, <2>3 DEF PageCatchesUp, ReadAt, Dropped, before, after
<1>. QED BY <1>1, <1>2, <1>3

\* Pages agree in every case (OverviewsAgree).
THEOREM OverviewsHeld == Spec => []OverviewsAgree
<1>0. ASSUME Init, at.part = "cache" PROVE OverviewsAgree
  <2>1. CacheCase BY <1>0, Parts
  <2>. QED BY <2>1, ViewsAssumption, CatchesUp DEF CacheCase, OverviewsAgree
<1>1. Init => OverviewsAgree
  <2>. SUFFICES ASSUME Init, at.part = "school" PROVE OverviewsAgree BY <1>0 DEF OverviewsAgree
  <2>1. IsSchool(at.classes) BY Parts, OneClassHeld, TwoClassesHeld
  <2>2. QueueToldAlike(at.classes) BY <2>1, QueueAlwaysToldAlike
  <2>3. \A i \in DOMAIN at.classes : ClassToldAlike(at.classes[i])
    BY <2>1, ClassAlwaysToldAlike DEF IsSchool
  <2>4. \A i \in DOMAIN at.classes : ProgressToldAlike(at.classes, at.classes[i])
    BY <2>1, ProgressAlwaysToldAlike
  <2>5. None # "shown" BY SchoolAssumption
  <2>6. \A s \in 1 .. 2 : (\E i \in DOMAIN at.classes : s \in Active(at.classes[i])) =>
          StudentToldAlike(at.classes, s)
    BY <2>1, <2>5, StudentAlwaysToldAlike
  <2>. QED BY <2>2, <2>3, <2>4, <2>6 DEF OverviewsAgree
<1>2. OverviewsAgree /\ [Next]_at => OverviewsAgree' BY Unchanged DEF Next
<1>. QED BY <1>1, <1>2, PTL DEF Spec
=============================================================================
