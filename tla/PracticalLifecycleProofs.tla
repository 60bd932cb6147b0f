---------------------- MODULE PracticalLifecycleProofs ----------------------
(***************************************************************************)
(* Theorems about PracticalLifecycle, for any number of students, page     *)
(* loads and review saves at a time.                                       *)
(*                                                                         *)
(* Saves of the practical, sessions and reviews meet in one fact: a review *)
(* needs a submission, hence student activity, after which a save of the   *)
(* practical leaves the tests, the rubric and the maximum alone.           *)
(***************************************************************************)
EXTENDS PracticalLifecycle, TLAPS

USE LifecycleAssumption

\* The task the steps below leave alone.
Judged == <<task.tests, task.rubric, task.maximum>>

LEMMA InitInv == Init => LifecycleInv
<1> SUFFICES ASSUME Init PROVE LifecycleInv
  OBVIOUS
<1>1. /\ task \in Task
      /\ session = [a \in Attempt |-> [status |-> "none", startedWith |-> task.tests]]
  BY DEF Init, Task
<1>2. Opened = {}
  BY <1>1 DEF Opened
<1>3. TypeOK
  BY <1>1 DEF Init, TypeOK, Session, Task
<1>4. WorkProtected /\ AttemptsInOrder
  BY <1>2 DEF WorkProtected, AttemptsInOrder
<1>5. ReviewsFitRubric /\ ReviewIsLatestRevision /\ ReviewersOK
  BY DEF Init, ReviewsFitRubric, ReviewIsLatestRevision, ReviewersOK, IdleReviewer
<1>6. PublishedDated
  BY DEF Init, PublishedDated
<1>. QED
  BY <1>3, <1>4, <1>5, <1>6 DEF LifecycleInv

-----------------------------------------------------------------------------
(* How a step may change what the invariant speaks about. *)

\* What a session is judged by stays, and submitted sessions stay submitted:
\* then the reviews and the saves under way still fit.
Keeps ==
  /\ Judged' = Judged
  /\ \A a \in Attempt : session[a].status = "SUBMITTED" => session'[a] = session[a]

LEMMA AcceptableStays ==
  ASSUME Keeps, NEW r
  PROVE  Acceptable(r, task') <=> Acceptable(r, task)
BY DEF Keeps, Judged, Acceptable

LEMMA GradesStillFit ==
  ASSUME LifecycleInv, Keeps, UNCHANGED grades
  PROVE  (ReviewsFitRubric /\ ReviewIsLatestRevision /\ ReviewersOK)'
<1>. UNCHANGED review /\ UNCHANGED revisions /\ UNCHANGED reviewer
  BY DEF grades
<1>. task'.maximum = task.maximum
  BY DEF Keeps, Judged
<1>1. ReviewsFitRubric'
  <2> SUFFICES ASSUME NEW a \in Attempt,
                      NEW r \in {review[a]} \cup {revisions[a][i] : i \in DOMAIN revisions[a]},
                      r # Null
               PROVE  /\ session'[a].status = "SUBMITTED" /\ r.outOf = task'.maximum
                      /\ Acceptable(r, task')
    BY DEF ReviewsFitRubric
  <2>1. session[a].status = "SUBMITTED" /\ r.outOf = task.maximum /\ Acceptable(r, task)
    BY DEF LifecycleInv, ReviewsFitRubric
  <2>. QED
    BY <2>1, AcceptableStays DEF Keeps
<1>2. ReviewIsLatestRevision'
  BY DEF LifecycleInv, ReviewIsLatestRevision
<1>3. ReviewersOK'
  <2> SUFFICES ASSUME NEW v \in Reviewer, reviewer[v].pc # "idle"
               PROVE  /\ reviewer[v].attempt \in Attempt
                      /\ session'[reviewer[v].attempt].status = "SUBMITTED"
                      /\ reviewer[v].review \in Review
                      /\ reviewer[v].review.outOf = task'.maximum
                      /\ Acceptable(reviewer[v].review, task')
    BY DEF ReviewersOK
  <2>1. /\ reviewer[v].attempt \in Attempt
        /\ session[reviewer[v].attempt].status = "SUBMITTED"
        /\ reviewer[v].review \in Review /\ reviewer[v].review.outOf = task.maximum
        /\ Acceptable(reviewer[v].review, task)
    BY DEF LifecycleInv, ReviewersOK
  <2>. QED
    BY <2>1, AcceptableStays DEF Keeps
<1>. QED
  BY <1>1, <1>2, <1>3

\* The sessions and the task alone: what a step of a review leaves alone.
LEMMA SessionsStill ==
  ASSUME LifecycleInv, UNCHANGED <<task, session>>
  PROVE  WorkProtected' /\ AttemptsInOrder' /\ PublishedDated'
<1>1. Opened' = Opened
  BY DEF Opened
<1>. QED
  BY <1>1 DEF LifecycleInv, WorkProtected, AttemptsInOrder, PublishedDated

-----------------------------------------------------------------------------
LEMMA SavePracticalStep ==
  ASSUME LifecycleInv,
         NEW publish \in BOOLEAN, NEW t \in Tests, NEW r \in Rubrics, NEW m \in Maxima,
         SavePractical(publish, t, r, m)
  PROVE  LifecycleInv'
<1>. UNCHANGED members /\ UNCHANGED work /\ UNCHANGED grades
  BY DEF SavePractical
<1>. /\ UNCHANGED session /\ UNCHANGED opening
     /\ UNCHANGED review /\ UNCHANGED revisions /\ UNCHANGED reviewer
  BY DEF work, grades
<1>1. Opened' = Opened
  BY DEF Opened
<1>2. task \in Task /\ edits \in Nat
  BY DEF LifecycleInv, TypeOK
<1>3. task' \in Task
  <2>1. Status(publish) \in {"DRAFT", "PUBLISHED"}
    BY DEF Status
  <2>2. \A p \in Nat, rub \in Rubrics :
          [status |-> Status(publish), publishedAt |-> p, tests |-> t, rubric |-> rub,
           maximum |-> m] \in Task
    BY <2>1 DEF Task
  <2>3. task.rubric \in Rubrics /\ task.publishedAt \in Nat
    BY <1>2 DEF Task
  <2>. DEFINE p == IF Status(publish) # "PUBLISHED" THEN 0
                   ELSE IF task.publishedAt # 0 THEN task.publishedAt ELSE edits + 1
              rub == IF HasStudentActivity THEN task.rubric ELSE r
  <2>4. p \in Nat /\ rub \in Rubrics
    BY <1>2, <2>3
  <2>5. task' = [status |-> Status(publish), publishedAt |-> p, tests |-> t,
                 rubric |-> rub, maximum |-> m]
    BY DEF SavePractical
  <2>. HIDE DEF p, rub
  <2>. QED
    BY <2>2, <2>4, <2>5
<1>4. TypeOK'
  BY <1>2, <1>3 DEF LifecycleInv, TypeOK, SavePractical
<1>5. Opened # {} => task.status = "PUBLISHED"
  BY DEF LifecycleInv, WorkProtected
<1>8. PublishedDated'
  <2>1. edits + 1 # 0 /\ Status(publish) \in {"DRAFT", "PUBLISHED"}
    BY <1>2 DEF Status
  <2>. QED
    BY <2>1 DEF SavePractical, PublishedDated
<1>6. CASE Opened = {}
  <2>1. \A a \in Attempt : session[a].status # "SUBMITTED"
    BY <1>6 DEF Opened
  <2>2. \A a \in Attempt : review[a] = Null /\ revisions[a] = <<>>
    <3> SUFFICES ASSUME NEW a \in Attempt PROVE review[a] = Null /\ revisions[a] = <<>>
      OBVIOUS
    <3>1. review[a] = Null
      BY <2>1 DEF LifecycleInv, ReviewsFitRubric
    <3>2. revisions[a] \in Seq(Review)
      BY DEF LifecycleInv, TypeOK
    <3>3. ASSUME revisions[a] # <<>> PROVE FALSE
      <4>1. Len(revisions[a]) \in DOMAIN revisions[a]
        BY <3>2, <3>3
      <4>2. revisions[a][Len(revisions[a])] \in Review
        BY <3>2, <4>1
      <4>. QED
        BY <3>1, <3>3, <4>2 DEF LifecycleInv, ReviewIsLatestRevision
    <3>. QED
      BY <3>1, <3>3
  <2>3. \A v \in Reviewer : reviewer[v].pc = "idle"
    BY <2>1 DEF LifecycleInv, ReviewersOK
  <2>. QED
    BY <1>1, <1>4, <1>6, <1>8, <2>2, <2>3 DEF LifecycleInv, WorkProtected,
       AttemptsInOrder, ReviewsFitRubric, ReviewIsLatestRevision, ReviewersOK
<1>7. CASE Opened # {}
  <2>1. HasStudentActivity /\ task.status = "PUBLISHED"
    BY <1>5, <1>7 DEF HasStudentActivity
  <2>2. t = task.tests /\ r = task.rubric /\ m = task.maximum
    BY <2>1 DEF SavePractical, RubricChanged
  <2>3. Status(publish) = "PUBLISHED"
    BY <2>1 DEF Status
  <2>4. /\ task'.status = "PUBLISHED" /\ task'.tests = task.tests
        /\ task'.rubric = task.rubric /\ task'.maximum = task.maximum
    BY <2>1, <2>2, <2>3 DEF SavePractical
  <2>5. Keeps
    BY <2>4 DEF Keeps, Judged
  <2>6. WorkProtected' /\ AttemptsInOrder'
    BY <1>1, <2>4 DEF LifecycleInv, WorkProtected, AttemptsInOrder
  <2>. QED
    BY <1>4, <1>8, <2>5, <2>6, GradesStillFit DEF LifecycleInv
<1>. QED
  BY <1>6, <1>7

LEMMA CreateSessionStep ==
  ASSUME LifecycleInv, NEW q \in Request, CreateSession(q)
  PROVE  LifecycleInv'
<1>. UNCHANGED task /\ UNCHANGED edits /\ UNCHANGED members /\ UNCHANGED grades
  BY DEF CreateSession
<1>. UNCHANGED review /\ UNCHANGED revisions /\ UNCHANGED reviewer
  BY DEF grades
<1>0. /\ opening' \in [Request -> Student \cup {Null}]
      /\ session \in [Attempt -> Session] /\ task \in Task
  BY DEF LifecycleInv, TypeOK, CreateSession
<1>1. CASE UNCHANGED session
  <2>1. Keeps
    BY <1>1 DEF Keeps, Judged
  <2>2. TypeOK'
    BY <1>0, <1>1 DEF LifecycleInv, TypeOK
  <2>. QED
    BY <1>1, <2>1, <2>2, SessionsStill, GradesStillFit DEF LifecycleInv
<1>2. ASSUME NEW a \in Attempt, a[1] = opening[q], NextAttempt(a), MayCreate(opening[q]),
             session' = [session EXCEPT ![a] =
                           [status |-> "ACTIVE", startedWith |-> task.tests]]
      PROVE  LifecycleInv'
  <2>1. \A b \in Opened : b[1] = a[1] => b[2] < a[2]
    BY <1>2 DEF NextAttempt
  <2>2. a \notin Opened
    <3>1. a[2] \in Nat
      BY DEF Attempt
    <3>. QED
      BY <2>1, <3>1
  <2>3. session[a].status = "none"
    BY <2>2 DEF Opened
  <2>4. \A b \in Attempt \ {a} : session'[b] = session[b]
    BY <1>0, <1>2
  <2>5. session'[a] = [status |-> "ACTIVE", startedWith |-> task.tests]
    BY <1>0, <1>2
  <2>6. Opened' = Opened \cup {a}
    BY <2>4, <2>5 DEF Opened
  <2>7. TypeOK'
    <3>1. [status |-> "ACTIVE", startedWith |-> task.tests] \in Session
      BY <1>0 DEF Session, Task
    <3>2. session' \in [Attempt -> Session]
      BY <1>0, <1>2, <3>1
    <3>. QED
      BY <1>0, <3>2 DEF LifecycleInv, TypeOK
  <2>8. WorkProtected'
    <3>1. task.status = "PUBLISHED"
      BY <1>2 DEF MayCreate, Accessible
    <3>2. \A b \in Opened : session[b].startedWith = task.tests
      BY DEF LifecycleInv, WorkProtected
    <3>3. \A b \in Opened' : session'[b].startedWith = task.tests
      BY <2>2, <2>4, <2>5, <2>6, <3>2 DEF Opened
    <3>. QED
      BY <3>1, <3>3 DEF WorkProtected
  <2>9. AttemptsInOrder'
    <3> SUFFICES ASSUME NEW b \in Attempt, NEW c \in Attempt, b[1] = c[1], b[2] < c[2],
                        c \in Opened'
                 PROVE  session'[b].status = "SUBMITTED"
      BY DEF AttemptsInOrder
    <3>1. /\ b[2] \in Nat /\ c[2] \in Nat /\ a[2] \in Nat
          /\ b = <<b[1], b[2]>> /\ c = <<c[1], c[2]>> /\ a = <<a[1], a[2]>>
      BY DEF Attempt
    <3>2. CASE c # a
      <4>1. c \in Opened
        BY <2>6, <3>2
      <4>2. session[b].status = "SUBMITTED"
        BY <4>1 DEF LifecycleInv, AttemptsInOrder
      <4>. QED
        BY <4>2, <2>3, <2>4
    <3>3. CASE c = a
      <4>1. a[2] # 1
        BY <3>1, <3>3 DEF Attempt
      <4>2. <<a[1], a[2] - 1>> \in Opened
        BY <1>2, <4>1 DEF NextAttempt
      <4>3. b # a
        BY <3>1, <3>3
      <4>4. CASE b[2] = a[2] - 1
        <5>1. b \in Opened
          BY <3>1, <3>3, <4>2, <4>4
        <5>2. session[b].status # "ACTIVE"
          BY <1>2, <3>3 DEF MayCreate, Active
        <5>3. session[b] \in Session
          BY <1>0
        <5>4. session[b].status = "SUBMITTED"
          BY <5>1, <5>2, <5>3 DEF Opened, Session
        <5>. QED
          BY <2>4, <4>3, <5>4
      <4>5. CASE b[2] # a[2] - 1
        <5>. DEFINE d == <<a[1], a[2] - 1>>
        <5>1. d \in Opened /\ d \in Attempt /\ b[1] = d[1] /\ b[2] < d[2]
          BY <3>1, <3>3, <4>2, <4>5 DEF Opened
        <5>2. session[b].status = "SUBMITTED"
          BY <5>1 DEF LifecycleInv, AttemptsInOrder
        <5>. QED
          BY <2>4, <4>3, <5>2
      <4>. QED
        BY <4>4, <4>5
    <3>. QED
      BY <3>2, <3>3
  <2>10. Keeps
    BY <2>3, <2>4 DEF Keeps, Judged
  <2>11. PublishedDated'
    BY DEF LifecycleInv, PublishedDated
  <2>. QED
    BY <2>7, <2>8, <2>9, <2>10, <2>11, GradesStillFit DEF LifecycleInv
<1>. QED
  BY <1>1, <1>2 DEF CreateSession

LEMMA SubmitStep ==
  ASSUME LifecycleInv, NEW a \in Attempt, Submit(a)
  PROVE  LifecycleInv'
<1>. UNCHANGED task /\ UNCHANGED edits /\ UNCHANGED members /\ UNCHANGED opening
     /\ UNCHANGED grades
  BY DEF Submit
<1>. UNCHANGED review /\ UNCHANGED revisions /\ UNCHANGED reviewer
  BY DEF grades
<1>1. /\ session \in [Attempt -> Session] /\ session[a].status = "ACTIVE"
      /\ session' = [session EXCEPT ![a].status = "SUBMITTED"]
  BY DEF LifecycleInv, TypeOK, Submit
<1>2. \A b \in Attempt \ {a} : session'[b] = session[b]
  BY <1>1
<1>3. session'[a] = [session[a] EXCEPT !.status = "SUBMITTED"]
  BY <1>1
<1>4. session[a] \in Session
  BY <1>1
<1>5. /\ session'[a].status = "SUBMITTED" /\ session'[a].startedWith = session[a].startedWith
      /\ session'[a] \in Session
  BY <1>3, <1>4 DEF Session
<1>6. Opened' = Opened
  BY <1>1, <1>2, <1>5 DEF Opened
<1>7. TypeOK'
  <2>1. session' \in [Attempt -> Session]
    BY <1>1, <1>2, <1>5
  <2>. QED
    BY <2>1 DEF LifecycleInv, TypeOK
<1>8. WorkProtected'
  BY <1>2, <1>5, <1>6 DEF LifecycleInv, WorkProtected, Opened
<1>9. AttemptsInOrder'
  BY <1>2, <1>5, <1>6 DEF LifecycleInv, AttemptsInOrder
<1>10. Keeps
  BY <1>1, <1>2 DEF Keeps, Judged
<1>11. PublishedDated'
  BY DEF LifecycleInv, PublishedDated
<1>. QED
  BY <1>7, <1>8, <1>9, <1>10, <1>11, GradesStillFit DEF LifecycleInv

LEMMA BeginReviewStep ==
  ASSUME LifecycleInv, NEW v \in Reviewer, NEW a \in Attempt, NEW marks \in Marks,
         NEW scores \in ScoreSheets, NEW intent \in {"DRAFT", "PUBLISHED"},
         BeginReview(v, a, marks, scores, intent)
  PROVE  LifecycleInv'
<1>. DEFINE r == [marks |-> marks, outOf |-> task.maximum, scores |-> scores,
                  status |-> intent]
<1>. UNCHANGED <<task, edits, members, session, opening, review, revisions>>
  BY DEF BeginReview, work
<1>1. /\ session[a].status = "SUBMITTED" /\ Acceptable(r, task)
      /\ reviewer' = [reviewer EXCEPT ![v] = [pc |-> "write", attempt |-> a, review |-> r]]
  BY DEF BeginReview
<1>2. r \in Review
  <2>1. task.maximum \in Maxima
    BY DEF LifecycleInv, TypeOK, Task
  <2>2. marks \in Nat /\ scores \in Seq(Nat)
    <3>1. PICK rub \in Rubrics : scores \in [1 .. Len(rub) -> Marks]
      BY DEF ScoreSheets
    <3>2. Len(rub) \in Nat
      OBVIOUS
    <3>3. Marks \subseteq Nat
      BY DEF Marks
    <3>4. scores \in [1 .. Len(rub) -> Nat]
      BY <3>1, <3>3
    <3>5. scores \in Seq(Nat)
      BY <3>2, <3>4
    <3>. QED
      BY <3>3, <3>5
  <2>. QED
    BY <2>1, <2>2 DEF Review
<1>. HIDE DEF r
<1>3. Acceptable(r, task') <=> Acceptable(r, task)
  BY DEF Acceptable
<1>4. r.outOf = task.maximum
  BY DEF r
<1>5. Keeps
  BY DEF Keeps, Judged
<1>6. TypeOK'
  BY DEF LifecycleInv, TypeOK, Opened
<1>7. ReviewsFitRubric' /\ ReviewIsLatestRevision'
  BY DEF LifecycleInv, ReviewsFitRubric, ReviewIsLatestRevision, Acceptable
<1>8. ReviewersOK'
  <2> SUFFICES ASSUME NEW w \in Reviewer, reviewer'[w].pc # "idle"
               PROVE  /\ reviewer'[w].attempt \in Attempt
                      /\ session'[reviewer'[w].attempt].status = "SUBMITTED"
                      /\ reviewer'[w].review \in Review
                      /\ reviewer'[w].review.outOf = task'.maximum
                      /\ Acceptable(reviewer'[w].review, task')
    BY DEF ReviewersOK
  <2>1. CASE reviewer'[w] = reviewer[w]
    BY <2>1, <1>5, AcceptableStays DEF LifecycleInv, ReviewersOK
  <2>2. CASE reviewer'[w] = [pc |-> "write", attempt |-> a, review |-> r]
    BY <1>1, <1>2, <1>3, <1>4, <2>2
  <2>3. v \in DOMAIN reviewer /\ w = v => reviewer'[w] = [pc |-> "write", attempt |-> a, review |-> r]
    BY <1>1
  <2>4. w # v \/ v \notin DOMAIN reviewer => reviewer'[w] = reviewer[w]
    BY <1>1
  <2>. QED
    BY <2>1, <2>2, <2>3, <2>4
<1>. QED
  BY <1>6, <1>7, <1>8, SessionsStill DEF LifecycleInv

LEMMA WriteReviewStep ==
  ASSUME LifecycleInv, NEW v \in Reviewer, WriteReview(v)
  PROVE  LifecycleInv'
<1>. DEFINE a == reviewer[v].attempt
            r == reviewer[v].review
<1>. UNCHANGED <<task, edits, members, session, opening>>
  BY DEF WriteReview, work
<1>1. /\ a \in Attempt /\ session[a].status = "SUBMITTED"
      /\ r \in Review /\ r.outOf = task.maximum /\ Acceptable(r, task)
  BY DEF LifecycleInv, ReviewersOK, WriteReview
<1>2. /\ review \in [Attempt -> Review \cup {Null}] /\ revisions \in [Attempt -> Seq(Review)]
  BY DEF LifecycleInv, TypeOK
<1>3. Keeps
  BY DEF Keeps, Judged
<1>4. ReviewersOK'
  <2> SUFFICES ASSUME NEW w \in Reviewer, reviewer'[w].pc # "idle"
               PROVE  /\ reviewer'[w].attempt \in Attempt
                      /\ session'[reviewer'[w].attempt].status = "SUBMITTED"
                      /\ reviewer'[w].review \in Review
                      /\ reviewer'[w].review.outOf = task'.maximum
                      /\ Acceptable(reviewer'[w].review, task')
    BY DEF ReviewersOK
  <2>1. reviewer'[w] = reviewer[w] \/ reviewer'[w] = IdleReviewer
    BY DEF WriteReview
  <2>2. reviewer'[w] = reviewer[w]
    BY <2>1 DEF IdleReviewer
  <2>. QED
    BY <2>2, <1>3, AcceptableStays DEF LifecycleInv, ReviewersOK
<1>5. CASE UNCHANGED <<review, revisions>>
  <2>1. TypeOK'
    BY <1>5 DEF LifecycleInv, TypeOK
  <2>2. ReviewsFitRubric' /\ ReviewIsLatestRevision'
    BY <1>5 DEF LifecycleInv, ReviewsFitRubric, ReviewIsLatestRevision, Acceptable
  <2>. QED
    BY <1>4, <2>1, <2>2, SessionsStill DEF LifecycleInv
<1>6. CASE /\ review' = [review EXCEPT ![a] = r]
           /\ revisions' = [revisions EXCEPT ![a] = Append(@, r)]
  <2>. HIDE DEF a, r
  <2>1. /\ review'[a] = r /\ revisions'[a] = Append(revisions[a], r)
        /\ \A b \in Attempt \ {a} : review'[b] = review[b] /\ revisions'[b] = revisions[b]
    BY <1>1, <1>2, <1>6
  <2>2. TypeOK'
    <3>1. /\ review' \in [Attempt -> Review \cup {Null}]
          /\ revisions' \in [Attempt -> Seq(Review)]
      BY <1>1, <1>2, <1>6
    <3>. QED
      BY <3>1 DEF LifecycleInv, TypeOK
  <2>3. ReviewsFitRubric'
    <3> SUFFICES ASSUME NEW b \in Attempt,
                        NEW s \in {review'[b]} \cup {revisions'[b][i] : i \in DOMAIN revisions'[b]},
                        s # Null
                 PROVE  /\ session'[b].status = "SUBMITTED" /\ s.outOf = task'.maximum
                        /\ Acceptable(s, task')
      BY DEF ReviewsFitRubric
    <3>1. CASE s = r /\ b = a
      BY <1>1, <1>3, <3>1, AcceptableStays
    <3>2. CASE s \in {review[b]} \cup {revisions[b][i] : i \in DOMAIN revisions[b]}
      <4>1. session[b].status = "SUBMITTED" /\ s.outOf = task.maximum /\ Acceptable(s, task)
        BY <3>2 DEF LifecycleInv, ReviewsFitRubric
      <4>. QED
        BY <1>3, <4>1, AcceptableStays
    <3>3. CASE b # a
      BY <2>1, <3>2, <3>3
    <3>4. CASE b = a
      <4>1. revisions[a] \in Seq(Review)
        BY <1>1, <1>2
      <4>2. ASSUME NEW i \in DOMAIN Append(revisions[a], r)
            PROVE  \/ Append(revisions[a], r)[i] = r
                   \/ i \in DOMAIN revisions[a] /\ Append(revisions[a], r)[i] = revisions[a][i]
        BY <1>1, <4>1, <4>2
      <4>3. s = r \/ s \in {revisions[b][i] : i \in DOMAIN revisions[b]}
        <5>1. CASE s = review'[b]
          BY <2>1, <3>4, <5>1
        <5>2. CASE s \in {revisions'[b][i] : i \in DOMAIN revisions'[b]}
          <6>1. PICK i \in DOMAIN Append(revisions[a], r) : s = Append(revisions[a], r)[i]
            BY <2>1, <3>4, <5>2
          <6>. QED
            BY <3>4, <4>2, <6>1
        <5>. QED
          BY <5>1, <5>2
      <4>. QED
        BY <3>1, <3>2, <3>4, <4>3
    <3>. QED
      BY <3>3, <3>4
  <2>4. ReviewIsLatestRevision'
    <3> SUFFICES ASSUME NEW b \in Attempt
                 PROVE  IF revisions'[b] = <<>> THEN review'[b] = Null
                        ELSE review'[b] = revisions'[b][Len(revisions'[b])]
      BY DEF ReviewIsLatestRevision
    <3>1. CASE b # a
      BY <2>1, <3>1 DEF LifecycleInv, ReviewIsLatestRevision
    <3>2. CASE b = a
      <4>1. revisions[a] \in Seq(Review)
        BY <1>1, <1>2
      <4>2. /\ Append(revisions[a], r) # <<>>
            /\ Append(revisions[a], r)[Len(Append(revisions[a], r))] = r
        BY <1>1, <4>1
      <4>. QED
        BY <2>1, <3>2, <4>2
    <3>. QED
      BY <3>1, <3>2
  <2>. QED
    BY <1>4, <2>2, <2>3, <2>4, SessionsStill DEF LifecycleInv
<1>. QED
  BY <1>5, <1>6 DEF WriteReview, Revised

\* Memberships, page loads that found no session, and stuttering.
LEMMA OtherStep ==
  ASSUME LifecycleInv, UNCHANGED <<task, edits, session, grades>>,
         members' \subseteq Student, opening' \in [Request -> Student \cup {Null}]
  PROVE  LifecycleInv'
<1>. UNCHANGED review /\ UNCHANGED revisions /\ UNCHANGED reviewer
  BY DEF grades
<1>1. Keeps
  BY DEF Keeps, Judged
<1>2. TypeOK'
  BY DEF LifecycleInv, TypeOK
<1>. QED
  BY <1>1, <1>2, SessionsStill, GradesStillFit DEF LifecycleInv

LEMMA NextInv ==
  ASSUME LifecycleInv, [Next]_vars
  PROVE  LifecycleInv'
<1>0. members \subseteq Student /\ opening \in [Request -> Student \cup {Null}]
  BY DEF LifecycleInv, TypeOK
<1>1. CASE \E publish \in BOOLEAN, t \in Tests, r \in Rubrics, m \in Maxima :
             SavePractical(publish, t, r, m)
  BY <1>1, SavePracticalStep
<1>2. CASE \E u \in Student : MembershipChanges(u)
  <2>1. members' \subseteq Student /\ UNCHANGED <<task, edits, session, opening, grades>>
    BY <1>0, <1>2 DEF MembershipChanges, work
  <2>. QED
    BY <1>0, <2>1, OtherStep
<1>3. CASE \E q \in Request : CreateSession(q) \/ \E u \in Student : FindNoSession(q, u)
  <2>1. ASSUME NEW q \in Request, NEW u \in Student, FindNoSession(q, u)
        PROVE  LifecycleInv'
    <3>1. /\ UNCHANGED <<task, edits, members, session, grades>>
          /\ opening' \in [Request -> Student \cup {Null}]
      BY <1>0, <2>1 DEF FindNoSession
    <3>. QED
      BY <1>0, <3>1, OtherStep
  <2>. QED
    BY <1>3, <2>1, CreateSessionStep
<1>4. CASE \E a \in Attempt : Submit(a)
  BY <1>4, SubmitStep
<1>5. CASE \E v \in Reviewer :
       \/ \E a \in Attempt, m \in Marks, s \in ScoreSheets, i \in {"DRAFT", "PUBLISHED"} :
            BeginReview(v, a, m, s, i)
       \/ WriteReview(v)
  BY <1>5, BeginReviewStep, WriteReviewStep
<1>6. CASE UNCHANGED vars
  BY <1>0, <1>6, OtherStep DEF vars, grades
<1>. QED
  BY <1>1, <1>2, <1>3, <1>4, <1>5, <1>6 DEF Next

-----------------------------------------------------------------------------
\* The invariant of the whole life of a practical: what the code below
\* getOrCreateStudentWorkspace, saveTeacherPractical and saveSubmissionReview
\* keeps true together.
THEOREM Invariance == Spec => []LifecycleInv
<1>. QED
  BY InitInv, NextInv, PTL DEF Spec

\* Once a student began, the practical stays published and its tests stay those
\* the student began with (the locks of saveTeacherPractical).
THEOREM StudentWorkIsProtected == Spec => []WorkProtected
<1>1. LifecycleInv => WorkProtected
  BY DEF LifecycleInv
<1>. QED
  BY Invariance, <1>1, PTL

\* Attempts are numbered in order and at most the last one is active, however
\* many pages open the practical at once (getOrCreateStudentWorkspace).
THEOREM AttemptsStayInOrder == Spec => []AttemptsInOrder
<1>1. LifecycleInv => AttemptsInOrder
  BY DEF LifecycleInv
<1>. QED
  BY Invariance, <1>1, PTL

\* Every review and every revision of it fits the rubric and the maximum of its
\* practical (saveSubmissionReview against saveTeacherPractical).
THEOREM ReviewsAlwaysFit == Spec => []ReviewsFitRubric
<1>1. LifecycleInv => ReviewsFitRubric
  BY DEF LifecycleInv
<1>. QED
  BY Invariance, <1>1, PTL

\* The review is always its latest revision (saveSubmissionReview).
THEOREM ReviewsAreRecorded == Spec => []ReviewIsLatestRevision
<1>1. LifecycleInv => ReviewIsLatestRevision
  BY DEF LifecycleInv
<1>. QED
  BY Invariance, <1>1, PTL

\* A published practical is not unpublished or redated, and submitted sessions and
\* recorded revisions stay as they are (saveTeacherPractical, saveSubmissionReview).
THEOREM RecordsAreKept == Spec => RecordsKept
<1>. DEFINE Kept == /\ task.status = "PUBLISHED" =>
                         task'.status = "PUBLISHED" /\ task'.publishedAt = task.publishedAt
                    /\ \A a \in Attempt :
                         /\ session[a].status = "SUBMITTED" => session'[a] = session[a]
                         /\ IsPrefix(revisions[a], revisions'[a])
<1>1. ASSUME LifecycleInv, [Next]_vars PROVE Kept
  <2>1. /\ session \in [Attempt -> Session] /\ revisions \in [Attempt -> Seq(Review)]
        /\ task \in Task
    BY <1>1 DEF LifecycleInv, TypeOK
  <2>2. task.status = "PUBLISHED" =>
          task'.status = "PUBLISHED" /\ task'.publishedAt = task.publishedAt
    <3>1. CASE UNCHANGED task
      BY <3>1
    <3>2. ASSUME NEW publish \in BOOLEAN, NEW t \in Tests, NEW r \in Rubrics,
                 NEW m \in Maxima, SavePractical(publish, t, r, m),
                 task.status = "PUBLISHED"
          PROVE  task'.status = "PUBLISHED" /\ task'.publishedAt = task.publishedAt
      <4>1. Status(publish) = "PUBLISHED"
        BY <3>2 DEF Status
      <4>2. task.publishedAt # 0
        BY <1>1, <3>2 DEF LifecycleInv, PublishedDated
      <4>. QED
        BY <3>2, <4>1, <4>2 DEF SavePractical
    <3>. QED
      BY <1>1, <3>1, <3>2 DEF Next, vars, MembershipChanges, FindNoSession, CreateSession,
         Submit, BeginReview, WriteReview
  <2>3. ASSUME NEW a \in Attempt, session[a].status = "SUBMITTED"
        PROVE  session'[a] = session[a]
    <3>1. CASE UNCHANGED session
      BY <3>1
    <3>2. ASSUME NEW q \in Request, CreateSession(q) PROVE session'[a] = session[a]
      <4>1. ASSUME NEW b \in Attempt, NextAttempt(b) PROVE b # a
        <5>1. a \in Opened /\ b[2] \in Nat
          BY <2>3 DEF Opened, Attempt
        <5>. QED
          BY <4>1, <5>1 DEF NextAttempt
      <4>. QED
        BY <2>1, <3>2, <4>1 DEF CreateSession
    <3>3. ASSUME NEW b \in Attempt, Submit(b) PROVE session'[a] = session[a]
      BY <2>1, <2>3, <3>3 DEF Submit
    <3>. QED
      BY <1>1, <3>1, <3>2, <3>3 DEF Next, vars, work, MembershipChanges, FindNoSession,
         SavePractical, BeginReview, WriteReview
  <2>4. ASSUME NEW a \in Attempt PROVE IsPrefix(revisions[a], revisions'[a])
    <3>0. revisions[a] \in Seq(Review)
      BY <2>1
    <3>1. CASE revisions'[a] = revisions[a]
      BY <3>0, <3>1 DEF IsPrefix
    <3>2. ASSUME NEW v \in Reviewer, WriteReview(v), revisions'[a] # revisions[a]
          PROVE  IsPrefix(revisions[a], revisions'[a])
      <4>1. revisions'[a] = Append(revisions[a], reviewer[v].review)
        BY <2>1, <3>2 DEF WriteReview, Revised
      <4>2. reviewer[v].review \in Review
        BY <1>1, <3>2 DEF LifecycleInv, ReviewersOK, WriteReview
      <4>. QED
        BY <3>0, <4>1, <4>2 DEF IsPrefix
    <3>. QED
      BY <1>1, <3>1, <3>2 DEF Next, vars, grades, MembershipChanges, FindNoSession,
         SavePractical, BeginReview, CreateSession, Submit
  <2>. QED
    BY <2>2, <2>3, <2>4
<1>. QED
  BY Invariance, <1>1, PTL DEF Spec, RecordsKept
=============================================================================
