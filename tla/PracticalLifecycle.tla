------------------------- MODULE PracticalLifecycle -------------------------
(***************************************************************************)
(* One practical from its first draft to its reviews: the teacher saves it *)
(* (backend/server/practicals/authoring.ts), students open numbered        *)
(* attempts and submit them (backend/server/attempts/service.ts), and the  *)
(* teacher reviews the submissions                                         *)
(* (backend/server/reviews/submission-review.ts).                          *)
(*                                                                         *)
(* The serializable transactions are one step.  A transaction at READ      *)
(* COMMITTED is two: what it read may have changed when it writes, from    *)
(* where on it holds the lock of the row it updates first.                 *)
(*                                                                         *)
(* Left out: texts of the practical and the feedback, the drafts           *)
(* (Workspace) and the runs (InlineAttempts, ExecutionQueue).          *)
(***************************************************************************)
EXTENDS Naturals, SequencesExt

CONSTANTS
  Student,
  Request,       \* page loads being handled
  Reviewer,      \* review saves being handled, of the owning teacher
  Tests,         \* lists of test cases, positions and visibility included
  Rubrics,       \* sequences of the criteria's maximum marks
  Maxima,        \* maximum marks
  Null,
  MaxAttempts,   \* bound: attempts of a student
  MaxEdits,      \* bound: saves of the practical
  MaxReviews     \* bound: revisions there are when a review save begins

Attempt == Student \X (1 .. MaxAttempts)
Task == [status : {"none", "DRAFT", "PUBLISHED"}, publishedAt : Nat,
         tests : Tests, rubric : Rubrics, maximum : Maxima]
Session == [status : {"none", "ACTIVE", "SUBMITTED"}, startedWith : Tests]
Review == [marks : Nat, outOf : Maxima, scores : Seq(Nat),
           status : {"DRAFT", "PUBLISHED"}]
Marks == 0 .. CHOOSE m \in Maxima : \A n \in Maxima : n <= m

ASSUME LifecycleAssumption ==
  /\ Maxima \subseteq Nat \ {0} /\ Maxima # {} /\ IsFiniteSet(Maxima)
  /\ Rubrics \subseteq Seq(Nat \ {0}) /\ <<>> \in Rubrics
  /\ \A b \in {MaxAttempts, MaxEdits, MaxReviews} : b \in Nat
  /\ Null \notin Student \cup Review

VARIABLES
  task,       \* the Task with its TestCases and RubricCriteria
  edits,      \* the time, as the number of saves of the task
  members,    \* students with an active membership
  session,    \* CodingSession of an attempt; a SUBMITTED one has its SubmissionAttempt
  opening,    \* page loads that found no active session: for which student
  review,     \* SubmissionReview with its criterion scores
  revisions,  \* SubmissionReviewRevision rows of a review
  reviewer    \* review saves between two of their awaits

vars == <<task, edits, members, session, opening, review, revisions, reviewer>>
work == <<session, opening>>
grades == <<review, revisions, reviewer>>

-----------------------------------------------------------------------------
IdleReviewer == [pc |-> "idle", attempt |-> Null, review |-> Null]

Opened == {a \in Attempt : session[a].status # "none"}
Active(u) == {a \in Attempt : a[1] = u /\ session[a].status = "ACTIVE"}

Init ==
  /\ task \in [status : {"none"}, publishedAt : {0}, tests : Tests,
               rubric : {<<>>}, maximum : Maxima]
  /\ edits = 0
  /\ members = Student
  /\ session = [a \in Attempt |-> [status |-> "none", startedWith |-> task.tests]]
  /\ opening = [q \in Request |-> Null]
  /\ review = [a \in Attempt |-> Null]
  /\ revisions = [a \in Attempt |-> <<>>]
  /\ reviewer = [v \in Reviewer |-> IdleReviewer]

\* The membership ends or is restored (see Classroom).
MembershipChanges(u) ==
  /\ members' = IF u \in members THEN members \ {u} ELSE members \cup {u}
  /\ UNCHANGED <<task, edits, work, grades>>

-----------------------------------------------------------------------------
(* Authoring.  A definition with a suffix is a mistake the code could have  *)
(* made in place of the one it precedes.                                    *)

Total(s) == FoldFunction(+, 0, s)

\* createPracticalPublishSchema
Publishable(rubric, maximum) ==
  /\ Len(rubric) # 1
  /\ rubric # <<>> => Total(rubric) = maximum

HasStudentActivity == Opened # {}

RubricChanged_Criteria(rubric, maximum) == rubric # task.rubric
RubricChanged(rubric, maximum) == rubric # task.rubric \/ maximum # task.maximum

Status_AsRequested(publish) == IF publish THEN "PUBLISHED" ELSE "DRAFT"
Status(publish) ==
  IF publish \/ task.status = "PUBLISHED" THEN "PUBLISHED" ELSE "DRAFT"

\* saveTeacherPractical.  A refused save changes nothing.
SavePractical(publish, tests, rubric, maximum) ==
  /\ edits < MaxEdits
  /\ publish => Publishable(rubric, maximum)
  /\ task.status = "PUBLISHED" /\ HasStudentActivity => tests = task.tests
  /\ task.status # "none" /\ HasStudentActivity => ~RubricChanged(rubric, maximum)
  /\ edits' = edits + 1
  /\ task' =
       [status |-> Status(publish),
        publishedAt |-> IF Status(publish) # "PUBLISHED" THEN 0
                        ELSE IF task.publishedAt # 0 THEN task.publishedAt
                        ELSE edits + 1,
        tests |-> tests,
        rubric |-> IF HasStudentActivity THEN task.rubric ELSE rubric,
        maximum |-> maximum]
  /\ UNCHANGED <<members, work, grades>>

-----------------------------------------------------------------------------
(* Attempts *)

\* requirePublishedTaskForStudent
Accessible(u) == task.status = "PUBLISHED" /\ u \in members

\* getOrCreateStudentWorkspace finds no active session ...
FindNoSession(q, u) ==
  /\ opening[q] = Null
  /\ Accessible(u)
  /\ Active(u) = {}
  /\ opening' = [opening EXCEPT ![q] = u]
  /\ UNCHANGED <<task, edits, members, session, grades>>

\* a has the number after the last one.
NextAttempt(a) ==
  /\ \A b \in Opened : b[1] = a[1] => b[2] < a[2]
  /\ a[2] = 1 \/ <<a[1], a[2] - 1>> \in Opened

MayCreate_Unchecked(u) == Accessible(u)
MayCreate(u) == Accessible(u) /\ Active(u) = {}

\* ... and creates one in a serializable transaction, which looks again.  When
\* it is refused, meets another page's session or fails, it creates nothing.
CreateSession(q) ==
  /\ opening[q] # Null
  /\ opening' = [opening EXCEPT ![q] = Null]
  /\ \/ \E a \in Attempt :
          /\ a[1] = opening[q]
          /\ NextAttempt(a)
          /\ MayCreate(opening[q])
          /\ session' = [session EXCEPT ![a] =
               [status |-> "ACTIVE", startedWith |-> task.tests]]
     \/ UNCHANGED session
  /\ UNCHANGED <<task, edits, members, grades>>

\* A submit closes the session: InlineAttempts and ExecutionQueue say how.
Submit(a) ==
  /\ session[a].status = "ACTIVE" /\ Accessible(a[1])
  /\ session' = [session EXCEPT ![a].status = "SUBMITTED"]
  /\ UNCHANGED <<task, edits, members, opening, grades>>

-----------------------------------------------------------------------------
(* Reviews *)

\* What saveSubmissionReview accepts, given the task it reads.
Acceptable(r, of) ==
  /\ r.marks <= of.maximum
  /\ Len(r.scores) = Len(of.rubric)
  /\ \A i \in DOMAIN r.scores : r.scores[i] <= of.rubric[i]
  /\ of.rubric # <<>> => Total(r.scores) = r.marks

ScoreSheets == UNION {[1 .. n -> Marks] : n \in {Len(r) : r \in Rubrics}}

BeginReview(v, a, marks, scores, intent) ==
  LET r == [marks |-> marks, outOf |-> task.maximum, scores |-> scores,
            status |-> intent]
  IN
  /\ reviewer[v].pc = "idle"
  /\ session[a].status = "SUBMITTED"
  /\ FoldFunction(LAMBDA revs, n : Len(revs) + n, 0, revisions) < MaxReviews
  /\ Acceptable(r, task)
  /\ reviewer' = [reviewer EXCEPT ![v] = [pc |-> "write", attempt |-> a, review |-> r]]
  /\ UNCHANGED <<task, edits, members, work, review, revisions>>

Revised(revs, r) == Append(revs, r)

\* The upsert waits for another save of the review and then holds its row: the
\* scores and the next version follow from what was committed before.
WriteReview(v) ==
  LET a == reviewer[v].attempt
      r == reviewer[v].review
  IN
  /\ reviewer[v].pc = "write"
  /\ reviewer' = [reviewer EXCEPT ![v] = IdleReviewer]
  /\ \/ /\ review' = [review EXCEPT ![a] = r]
        /\ revisions' = [revisions EXCEPT ![a] = Revised(@, r)]
     \/ UNCHANGED <<review, revisions>>       \* the transaction fails
  /\ UNCHANGED <<task, edits, members, work>>

-----------------------------------------------------------------------------
Next ==
  \/ \E publish \in BOOLEAN, t \in Tests, r \in Rubrics, m \in Maxima :
       SavePractical(publish, t, r, m)
  \/ \E u \in Student : MembershipChanges(u)
  \/ \E q \in Request : CreateSession(q) \/ \E u \in Student : FindNoSession(q, u)
  \/ \E a \in Attempt : Submit(a)
  \/ \E v \in Reviewer :
       \/ \E a \in Attempt, m \in Marks, s \in ScoreSheets, i \in {"DRAFT", "PUBLISHED"} :
            BeginReview(v, a, m, s, i)
       \/ WriteReview(v)

Spec == Init /\ [][Next]_vars

-----------------------------------------------------------------------------
TypeOK ==
  /\ task \in Task
  /\ edits \in Nat
  /\ members \subseteq Student
  /\ session \in [Attempt -> Session]
  /\ opening \in [Request -> Student \cup {Null}]
  /\ review \in [Attempt -> Review \cup {Null}]
  /\ revisions \in [Attempt -> Seq(Review)]

\* The practical has a publication date exactly while it is published.
PublishedDated == task.status = "PUBLISHED" <=> task.publishedAt # 0

\* Once a student began, what the work is judged by stays: the practical is
\* published and its tests are those every session started with, although saves
\* of the practical, page loads and membership changes interleave.
WorkProtected ==
  Opened # {} =>
    /\ task.status = "PUBLISHED"
    /\ \A a \in Opened : session[a].startedWith = task.tests

\* A student has at most one active attempt, also when several pages open the
\* practical at once; attempts are numbered from 1 without a gap, and each one
\* but the active one was submitted.
AttemptsInOrder ==
  \A a, b \in Attempt :
    a[1] = b[1] /\ a[2] < b[2] /\ b \in Opened => session[a].status = "SUBMITTED"

\* Every review, and every revision of it, is out of the practical's maximum and
\* scores exactly its criteria, none above the criterion's marks, to a total that
\* is the mark awarded: also when the save began before another one ended.
ReviewsFitRubric ==
  \A a \in Attempt :
    \A r \in {review[a]} \cup {revisions[a][i] : i \in DOMAIN revisions[a]} :
      r # Null =>
        session[a].status = "SUBMITTED" /\ r.outOf = task.maximum /\ Acceptable(r, task)

\* The review is its latest revision: no save goes unrecorded.
ReviewIsLatestRevision ==
  \A a \in Attempt :
    IF revisions[a] = <<>> THEN review[a] = Null
    ELSE review[a] = revisions[a][Len(revisions[a])]

\* What a review save remembers still fits when it writes.
ReviewersOK ==
  \A v \in Reviewer :
    LET r == reviewer[v].review IN
    reviewer[v].pc # "idle" =>
      /\ reviewer[v].attempt \in Attempt
      /\ session[reviewer[v].attempt].status = "SUBMITTED"
      /\ r \in Review /\ r.outOf = task.maximum /\ Acceptable(r, task)

\* The inductive invariant: the properties above together.
LifecycleInv ==
  /\ TypeOK /\ WorkProtected /\ AttemptsInOrder /\ ReviewsFitRubric
  /\ ReviewIsLatestRevision /\ ReviewersOK /\ PublishedDated

\* A published practical stays published since the same moment, and what was
\* submitted and every recorded revision stays as it was.
RecordsKept ==
  [][/\ task.status = "PUBLISHED" =>
          task'.status = "PUBLISHED" /\ task'.publishedAt = task.publishedAt
     /\ \A a \in Attempt :
          /\ session[a].status = "SUBMITTED" => session'[a] = session[a]
          /\ IsPrefix(revisions[a], revisions'[a])]_vars

\* "optional ordered 2-5 criterion task-owned grading contract whose marks total
\* the practical maximum" (documentation/04-ARCHITECTURE.md:63).
RubricTotals ==
  task.status = "PUBLISHED" /\ task.rubric # <<>> => Total(task.rubric) = task.maximum
=============================================================================
