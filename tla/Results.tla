------------------------------- MODULE Results -------------------------------
(***************************************************************************)
(* From the answer of a provider to what students and teachers are shown:  *)
(* grading (backend/server/execution/result-grading.ts), the result        *)
(* snapshot and its views (backend/server/attempts/service.ts), and the    *)
(* result panel (frontend/features/workspace/run-result-view-model.ts).    *)
(*                                                                         *)
(* Scores are in tenths.  Outputs, errors and times are left out.  A       *)
(* result has no visibility when it was stored before there was one; a     *)
(* snapshot from then has no breakdown.                                    *)
(***************************************************************************)
EXTENDS Providers

CONSTANT None

\* What is missing is no visibility and no breakdown.
ASSUME ResultsAssumption ==
  /\ None \notin {"VISIBLE", "HIDDEN"}
  /\ None \notin [visiblePassed : Int, visibleTotal : Int, hiddenPassed : Int, hiddenTotal : Int,
                  score : Int]

-----------------------------------------------------------------------------
(* result-grading.ts.  A definition with a suffix is a mistake the code     *)
(* could have made in place of the one it precedes.                        *)

\* calculateSuggestedScore: Math.round of a share of 100, half up.
SuggestedScore(state, passed, total) ==
  IF state # "completed" \/ total <= 0 THEN 0 ELSE (200 * passed + total) \div (2 * total)

\* countByVisibility
Count(results, visibility) ==
  Cardinality({i \in DOMAIN results : results[i].visibility = visibility})
CountPassed(results, visibility) ==
  Cardinality({i \in DOMAIN results : results[i].visibility = visibility /\ results[i].passed})

\* buildResultBreakdown
Breakdown(answer, request) ==
  LET counted(visibility) ==
        IF answer.state = "completed" THEN CountPassed(answer.tests, visibility) ELSE 0
  IN [visiblePassed |-> counted("VISIBLE"),
      visibleTotal |-> Count(request, "VISIBLE"),
      hiddenPassed |-> counted("HIDDEN"),
      hiddenTotal |-> Len(request) - Count(request, "VISIBLE"),
      score |-> SuggestedScore(answer.state, answer.passed, answer.total)]

\* A suggested score is full exactly when all tests passed, nothing exactly when
\* none did, and grows with the tests passed: rounding tells no lie.
ScoreIsHonest(state, passed, total) ==
  LET score == SuggestedScore(state, passed, total) IN
  /\ score \in 0 .. 100
  /\ score = 100 <=> state = "completed" /\ passed = total /\ total > 0
  /\ score = 0 <=> state # "completed" \/ passed = 0
  /\ passed < total => score <= SuggestedScore(state, passed + 1, total)

-----------------------------------------------------------------------------
(* The result snapshot of a run.                                            *)

\* The elements of a sequence at the places in S, in their order.
Kept(s, S) ==
  [i \in 1 .. Cardinality(S) |-> s[CHOOSE j \in S : Cardinality({k \in S : k <= j}) = i]]

\* The tests a run asks for: a student's own run leaves the hidden ones out.
Requested(tests, scope) ==
  Kept(tests, {i \in DOMAIN tests : scope = "ALL" \/ tests[i].visibility = "VISIBLE"})

\* What executeStudentDraft and the worker take from an answer: results of tests
\* that were asked for, with the visibility those have now.
Normalized(answer, request) ==
  LET known == Kept(answer.tests, {i \in DOMAIN answer.tests :
                                     VisibilityIn(request, answer.tests[i].id) # "unknown"})
  IN [answer EXCEPT !.tests =
        [i \in DOMAIN known |->
           [known[i] EXCEPT !.visibility = VisibilityIn(request, known[i].id)]]]

Snapshot(answer, request) ==
  LET normalized == Normalized(answer, request) IN
  [state |-> answer.state, passed |-> answer.passed, total |-> answer.total,
   breakdown |-> Breakdown(normalized, request), tests |-> normalized.tests]

\* snapshotBreakdown, for a snapshot without a breakdown too.
SnapshotBreakdown(snapshot) ==
  IF snapshot.breakdown # None THEN snapshot.breakdown
  ELSE [visiblePassed |-> snapshot.passed, visibleTotal |-> snapshot.total,
        hiddenPassed |-> 0, hiddenTotal |-> 0,
        score |-> SuggestedScore(snapshot.state, snapshot.passed, snapshot.total)]

\* publicTestResults
PublicTestResults_NotHidden(results) == results
PublicTestResults(results) ==
  LET public == Kept(results, {i \in DOMAIN results : results[i].visibility \in {None, "VISIBLE"}}) IN
  [i \in DOMAIN public |-> [id |-> public[i].id, passed |-> public[i].passed]]

\* persistedSubmissionResult, and the answer to a run.
PersistedResult(snapshot) ==
  [state |-> snapshot.state, passed |-> snapshot.passed, total |-> snapshot.total,
   breakdown |-> SnapshotBreakdown(snapshot), tests |-> PublicTestResults(snapshot.tests)]

-----------------------------------------------------------------------------
(* The pages of a submission.  tests are those of the practical when the    *)
(* page is shown; they may have changed since.                              *)

\* getSubmissionForStudent: the input and the expected output of a result are
\* those of a visible test.
ForStudent(snapshot, tests) ==
  LET shown == PublicTestResults(snapshot.tests) IN
  [breakdown |-> SnapshotBreakdown(snapshot),
   tests |-> [i \in DOMAIN shown |->
                [id |-> shown[i].id, passed |-> shown[i].passed,
                 details |-> VisibilityIn(tests, shown[i].id) = "VISIBLE"]]]

\* getSubmissionForTeacher
ForTeacher(snapshot, tests) ==
  [breakdown |-> SnapshotBreakdown(snapshot),
   tests |-> [i \in DOMAIN snapshot.tests |->
                LET r == snapshot.tests[i]
                    now == VisibilityIn(tests, r.id)
                IN [id |-> r.id, passed |-> r.passed,
                    visibility |-> IF r.visibility # None THEN r.visibility
                                   ELSE IF now = "HIDDEN" THEN "HIDDEN" ELSE "VISIBLE",
                    details |-> now # "unknown"]]]

\* A student sees nothing of a test that the stored result calls hidden: neither in
\* the answer of the workspace nor on the page of the submission, however the tests of
\* the practical change afterwards.  A result from before there were visibilities calls
\* no test hidden; what a student sees of those is said in PagesAgree.
HiddenStayHidden(snapshot, tests) ==
  LET hidden == {snapshot.tests[i].id : i \in {j \in DOMAIN snapshot.tests :
                                                 snapshot.tests[j].visibility = "HIDDEN"}}
      page == ForStudent(snapshot, tests).tests
  IN
  /\ \A i \in DOMAIN PersistedResult(snapshot).tests :
       PersistedResult(snapshot).tests[i].id \notin hidden
  /\ \A i \in DOMAIN page : page[i].id \notin hidden

\* Both pages tell one story: the same breakdown, and every result a student sees is
\* one the teacher sees, passed alike.  A student sees a result that the teacher's page
\* calls hidden only when it was stored before there were visibilities and the test is
\* hidden now, and then without the input and the expected output of the test.
PagesAgree(snapshot, tests) ==
  LET student == ForStudent(snapshot, tests)
      teacher == ForTeacher(snapshot, tests)
  IN
  /\ student.breakdown = teacher.breakdown
  /\ \A i \in DOMAIN student.tests : \E j \in DOMAIN teacher.tests :
       /\ teacher.tests[j].id = student.tests[i].id
       /\ teacher.tests[j].passed = student.tests[i].passed
       /\ student.tests[i].details => teacher.tests[j].details
       /\ teacher.tests[j].visibility = "HIDDEN" =>
            snapshot.tests[j].visibility = None /\ ~student.tests[i].details

\* The numbers of a snapshot fit: of a completed run, the visible and the hidden
\* passes are all passes and the totals are all tests; of any other, nothing is
\* credited.  answer is any answer a provider passes on.
NumbersFit(answer, request) ==
  LET b == Snapshot(answer, request).breakdown IN
  /\ b.visibleTotal + b.hiddenTotal = answer.total
  /\ b.visiblePassed <= b.visibleTotal /\ b.hiddenPassed <= b.hiddenTotal
  /\ IF answer.state = "completed" THEN b.visiblePassed + b.hiddenPassed = answer.passed
     ELSE b.visiblePassed + b.hiddenPassed = 0 /\ b.score = 0

-----------------------------------------------------------------------------
(* run-result-view-model.ts                                                 *)

\* completedOutcome, executionOutcome
CompletedOutcome(b) ==
  IF b.visibleTotal = 0 THEN "nothing to show"
  ELSE IF b.visiblePassed = b.visibleTotal THEN "all passed" ELSE "some failed"
Outcome(result) ==
  IF result.state = "completed" THEN CompletedOutcome(result.breakdown) ELSE result.state

\* createStudentRunResultViewModel: a label is the position of the test, or the
\* place of the result when the test is not among those of the page.
Label(result, i, tests) ==
  LET at == {p \in DOMAIN tests : tests[p].id = result.tests[i].id} IN
  IF at = {} THEN i ELSE CHOOSE p \in at : TRUE

\* createRunPanelState
Panel(running, failure, result) ==
  IF running THEN "running"
  ELSE IF failure THEN "request error"
  ELSE IF result = None THEN "idle" ELSE Outcome(result)

\* "All visible tests passed" is shown of a completed run that ran visible tests
\* and failed none of those it lists; whatever is shown while a run is under way
\* or failed to start is not an outcome.
PanelIsHonest(running, failure, snapshot) ==
  LET result == PersistedResult(snapshot)
      panel == Panel(running, failure, result)
  IN
  /\ panel = "all passed" =>
       /\ snapshot.state = "completed" /\ result.tests # <<>>
       /\ \A i \in DOMAIN result.tests : result.tests[i].passed
  /\ panel = "some failed" => \E i \in DOMAIN result.tests : ~result.tests[i].passed
  /\ running \/ failure => panel \in {"running", "request error"}
=============================================================================
