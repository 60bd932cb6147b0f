------------------------------ MODULE Overviews ------------------------------
(***************************************************************************)
(* What teachers and students are told of one another's work: the queries  *)
(* and calculations behind the overviews (backend/server/teacher and       *)
(* backend/server/student, and the view models of the frontend), each a    *)
(* function of the rows of the database as they were when it read them.    *)
(* Some pages are kept for a while, so that two pages may have been read   *)
(* at different times: see "When the rows are read".                       *)
(*                                                                         *)
(* classes is a sequence of a teacher's classrooms, newest first: its      *)
(* members (each "active", "inactive" or "none"), and its tasks, newest    *)
(* first, with a status, a deadline (hours from now, or None), the         *)
(* students whose latest session is ACTIVE, and the attempts submitted.    *)
(* Names, texts and dates that are only printed are left out.              *)
(***************************************************************************)
EXTENDS Results

\* percent, percentage, completion: Math.round of a share.
Percent(part, total) == IF total = 0 THEN 0 ELSE (200 * part + total) \div (2 * total)

\* The elements of a set, ordered by a relation: each comes after those before it.
Arranged(S, R) ==
  [n \in 1 .. Cardinality(S) |->
     CHOOSE x \in S : Cardinality({y \in S : y = x \/ <<y, x>> \in R}) = n]

NewestFirst(attempts) ==
  Arranged(attempts, {pair \in attempts \X attempts : pair[1].at > pair[2].at})
Highest(attempts) == CHOOSE a \in attempts : \A b \in attempts : b.number <= a.number
Of(student, attempts) == {a \in attempts : a.student = student}
Submitters(task) == {a.student : a \in task.attempts}
Published(class) ==
  Kept(class.tasks, {i \in DOMAIN class.tasks : class.tasks[i].status = "PUBLISHED"})
LatestPublished(class) == IF Published(class) = <<>> THEN None ELSE Head(Published(class))

\* The memberships a page includes: role STUDENT and active.
Active(class) == {s \in DOMAIN class.members : class.members[s] = "active"}

Concat(seqs) ==
  LET all[i \in 0 .. Len(seqs)] == IF i = 0 THEN <<>> ELSE all[i - 1] \o seqs[i]
  IN all[Len(seqs)]
Sum(f, S) ==
  LET order == SetToSeq(S) IN Totals([i \in DOMAIN order |-> f[order[i]]], Len(order))[Len(order)]

\* describeSubmissionOutcome
PassedAll(attempt) ==
  attempt.state = "completed" /\ attempt.total > 0 /\ attempt.passed = attempt.total

-----------------------------------------------------------------------------
(* The review queue (submission-review/review-queue.ts, app/submissions).   *)

\* toTeacherReviewQueueStatus
QueueStatus(attempt) ==
  CASE attempt.review = "DRAFT" -> "DRAFT_SAVED"
    [] attempt.review = "PUBLISHED" -> "PUBLISHED_FEEDBACK"
    [] OTHER -> "NEEDS_REVIEW"

\* normalizeTeacherReviewQueueFilter
QueueFilter(asked) ==
  CASE asked = "NEEDS_REVIEW" -> "NEW" [] asked = "REVIEWED" -> "PUBLISHED"
    [] asked \in {"NEW", "DRAFT", "PUBLISHED"} -> asked [] OTHER -> "ALL"

\* filterTeacherReviewQueue
Filtered(rows, filter) ==
  LET status == CASE filter = "NEW" -> "NEEDS_REVIEW" [] filter = "DRAFT" -> "DRAFT_SAVED"
                  [] OTHER -> "PUBLISHED_FEEDBACK"
  IN IF filter = "ALL" THEN rows
     ELSE Kept(rows, {i \in DOMAIN rows : QueueStatus(rows[i]) = status})

\* buildTeacherReviewSidebarQueue
Sidebar(rows, selected, limit) ==
  LET recent == SubSeq(rows, 1, IF Len(rows) < limit THEN Len(rows) ELSE limit)
      row == Kept(rows, {i \in DOMAIN rows : rows[i] = selected})
  IN IF selected \in ToSet(recent) \/ row = <<>> THEN recent
     ELSE row \o SubSeq(recent, 1, IF Len(recent) < limit - 1 THEN Len(recent) ELSE limit - 1)

\* The results a filter of the page lets through, and the "Review next" link.
ResultMatches(attempt, result) ==
  CASE result = "PASSED" -> PassedAll(attempt)
    [] result = "ERROR" -> attempt.state # "completed"
    [] result = "INCOMPLETE" -> attempt.state = "completed" /\ ~PassedAll(attempt)
    [] OTHER -> TRUE
NextReview(rows) ==
  LET first(status) == Kept(rows, {i \in DOMAIN rows : QueueStatus(rows[i]) = status}) IN
  IF first("NEEDS_REVIEW") # <<>> THEN Head(first("NEEDS_REVIEW"))
  ELSE IF first("DRAFT_SAVED") # <<>> THEN Head(first("DRAFT_SAVED"))
  ELSE IF rows # <<>> THEN Head(rows) ELSE None

\* The counts of the tabs of the page.
Tabs(rows) == [filter \in {"NEW", "DRAFT", "PUBLISHED", "ALL"} |-> Len(Filtered(rows, filter))]

-----------------------------------------------------------------------------
(* The teacher's overview (teacher/overview.ts).  Note that it counts       *)
(* everyone who submitted, also those whose access has ended since.         *)

PracticalRow(class, task) ==
  [class |-> class.id, id |-> task.id, status |-> task.status,
   students |-> Cardinality(Active(class)),
   submitted |-> Cardinality(Submitters(task)),
   completion |-> Percent(Cardinality(Submitters(task)), Cardinality(Active(class)))]

\* Math.ceil of the days left until the deadline
RemainingDays(task) == -((-task.deadline) \div 24)

Attention(class) ==
  LET task == LatestPublished(class)
      missing == Active(class) \ Submitters(task)
      drafts == Len(class.tasks) - Len(Published(class))
  IN (IF task # None /\ missing # {}
      THEN <<[about |-> "missing", class |-> class.id, count |-> Cardinality(missing)]>> ELSE <<>>)
     \o (IF task # None /\ task.deadline # None /\ RemainingDays(task) \in 0 .. 7
         THEN <<[about |-> "deadline", class |-> class.id, count |-> RemainingDays(task)]>> ELSE <<>>)
     \o (IF drafts > 0 THEN <<[about |-> "drafts", class |-> class.id, count |-> drafts]>> ELSE <<>>)

ClassroomRow(class) ==
  LET task == LatestPublished(class)
      row == PracticalRow(class, task)
  IN [id |-> class.id, students |-> Cardinality(Active(class)), published |-> Len(Published(class)),
      completion |-> IF task = None THEN 0 ELSE row.completion,
      outstanding |-> IF task = None THEN 0 ELSE row.students - row.submitted]

StudentRow(classes, s) ==
  LET published == {task \in UNION {ToSet(Published(classes[i])) : i \in DOMAIN classes} : TRUE}
      mine == {i \in DOMAIN classes : s \in Active(classes[i])}
      available == UNION {ToSet(Published(classes[i])) : i \in mine}
      submitted == {task \in published : s \in Submitters(task)}
  IN [id |-> s, classes |-> {classes[i].id : i \in mine},
      submitted |-> Cardinality(submitted), available |-> Cardinality(available),
      completion |-> Percent(Cardinality(submitted), Cardinality(available))]

TeacherOverview(classes) ==
  LET people == UNION {Active(classes[i]) : i \in DOMAIN classes}
      tasks == UNION {ToSet(classes[i].tasks) : i \in DOMAIN classes}
      rows == [s \in people |-> StudentRow(classes, s)]
      attention == Concat([i \in DOMAIN classes |-> Attention(classes[i])])
      submissions == NewestFirst(UNION {task.attempts : task \in tasks})
      done == Sum([s \in people |-> rows[s].submitted], people)
      due == Sum([s \in people |-> rows[s].available], people)
  IN [classrooms |-> [i \in DOMAIN classes |-> ClassroomRow(classes[i])],
      practicals |-> UNION {{PracticalRow(classes[i], task) : task \in ToSet(classes[i].tasks)}
                              : i \in DOMAIN classes},
      submissions |-> submissions,
      attention |-> SubSeq(attention, 1, IF Len(attention) < 4 THEN Len(attention) ELSE 4),
      people |-> Cardinality(people), students |-> rows,
      needsReview |-> Cardinality({i \in DOMAIN submissions :
                                     QueueStatus(submissions[i]) # "PUBLISHED_FEEDBACK"}),
      done |-> done, due |-> due, completion |-> Percent(done, due)]

\* The rows of the dashboard about reviews (dashboard-view-model.ts), each with the
\* filter its link opens the queue with.
ReviewRows(overview) ==
  LET rows == overview.submissions
      waiting(status) == Cardinality({i \in DOMAIN rows : QueueStatus(rows[i]) = status})
      row(status, filter) ==
        IF waiting(status) > 0 THEN <<[count |-> waiting(status), filter |-> filter]>> ELSE <<>>
  IN row("NEEDS_REVIEW", "NEW") \o row("DRAFT_SAVED", "DRAFT")

\* teacher-progress-view-model.ts, for one class or (None) for all.
TeacherProgress(overview, class) ==
  LET practicals == {p \in overview.practicals :
                       p.status = "PUBLISHED" /\ (class = None \/ p.class = class)}
      latest == {a \in ToSet(overview.submissions) :
                   /\ \E p \in practicals : p.id = a.task
                   /\ \A b \in ToSet(overview.submissions) :
                        b.task = a.task /\ b.student = a.student => b.number <= a.number}
      scoped == {s \in DOMAIN overview.students :
                   class = None \/ class \in overview.students[s].classes}
      done == [s \in scoped |-> IF class = None THEN overview.students[s].submitted
                                ELSE Cardinality({a.task : a \in Of(s, latest)})]
      due == [s \in scoped |-> IF class = None THEN overview.students[s].available
                               ELSE Cardinality(practicals)]
      completed == IF class = None THEN overview.done ELSE Sum(done, scoped)
      total == IF class = None THEN overview.due ELSE Sum(due, scoped)
  IN [latest |-> latest,
      practicals |->
        {[id |-> p.id, submitted |-> p.submitted, students |-> p.students,
          passed |-> Cardinality({a \in latest : a.task = p.id /\ PassedAll(a)}),
          reviewed |-> Cardinality({a \in latest : a.task = p.id /\ a.review = "PUBLISHED"}),
          needsReview |-> Cardinality({a \in latest : a.task = p.id /\ a.review # "PUBLISHED"})]
            : p \in practicals},
      students |-> [s \in scoped |-> [done |-> done[s], due |-> due[s],
                                      completion |-> Percent(done[s], due[s])]],
      completed |-> completed, total |-> total,
      incomplete |-> IF total > completed THEN total - completed ELSE 0,
      completion |-> Percent(completed, total)]

-----------------------------------------------------------------------------
(* The pages of one classroom.                                              *)

\* summarizePracticalCompletion
Summarized_Everyone(active, submitted) ==
  [submitted |-> Cardinality(submitted), pending |-> Cardinality(active) - Cardinality(submitted),
   completion |-> Percent(Cardinality(submitted), Cardinality(active))]
Summarized(active, submitted) ==
  LET done == Cardinality(submitted \cap active) IN
  [submitted |-> done, pending |-> Cardinality(active) - done,
   completion |-> Percent(done, Cardinality(active))]

\* countVisiblePracticals, toCard: a student's card counts one practical at most.
Card(class, role) ==
  LET task == LatestPublished(class)
      published == Len(Published(class))
  IN [id |-> class.id, students |-> Cardinality(Active(class)),
      practicals |-> IF role = "STUDENT" /\ published > 1 THEN 1 ELSE published,
      latest |-> IF task = None THEN None ELSE Summarized(Active(class), Submitters(task))]

\* getClassroomOverviewViewModel
ClassroomPage(class, role, user) ==
  LET task == LatestPublished(class)
      mine == IF task = None THEN {} ELSE Of(user, task.attempts)
  IN [summary |-> Summarized(Active(class), IF task = None THEN {} ELSE Submitters(task)),
      outstanding |-> IF task = None THEN {} ELSE Active(class) \ Submitters(task),
      practicals |-> [i \in DOMAIN class.tasks |-> PracticalRow(class, class.tasks[i])],
      latest |-> IF role = "STUDENT" /\ mine # {} THEN Highest(mine) ELSE None]

\* getTeacherClassroomProgress: of active students and published tasks, the attempt
\* with the highest number.
ClassroomProgress(class) ==
  LET latest(s, task) == IF Of(s, task.attempts) = {} THEN None
                         ELSE Highest(Of(s, task.attempts))
      tasks == Published(class)
      shown(s) == [i \in DOMAIN tasks |-> latest(s, tasks[i])]
  IN [s \in Active(class) |->
        [practicals |-> shown(s), latest |-> IF tasks = <<>> THEN None ELSE shown(s)[1],
         submitted |-> Cardinality({i \in DOMAIN tasks : shown(s)[i] # None}), total |-> Len(tasks)]]

\* buildPracticalAnalytics.  The sums run over the students it is given; whoever
\* submitted is counted, a student or not.
Analytics(students, attempts) ==
  LET by == {s \in students : Of(s, attempts) # {}}
      latest == [s \in by |-> Highest(Of(s, attempts))]
      of(s) == SnapshotBreakdown(latest[s])
      total(part) == Sum([s \in by |-> of(s)[part]], by)
      reviewed == Cardinality({s \in by : latest[s].review = "PUBLISHED"})
      reasons(s) ==
        IF s \notin by THEN {"NO_SUBMISSION"}
        ELSE (IF of(s).score < 50 THEN {"LOW_SUGGESTED_SCORE"} ELSE {})
             \cup (IF of(s).hiddenPassed < of(s).hiddenTotal THEN {"FAILED_HIDDEN_TESTS"} ELSE {})
             \cup (IF latest[s].review # "PUBLISHED" THEN {"NEEDS_REVIEW"} ELSE {})
      n == Cardinality({a.student : a \in attempts})
  IN [students |-> Cardinality(students), submitted |-> n, pending |-> Cardinality(students) - n,
      average |-> IF n = 0 THEN None ELSE (2 * total("score") + n) \div (2 * n),
      visible |-> <<total("visiblePassed"), total("visibleTotal")>>,
      hidden |-> <<total("hiddenPassed"), total("hiddenTotal")>>,
      reviewed |-> reviewed, needsReview |-> n - reviewed,
      attention |-> [s \in {x \in students : reasons(x) # {}} |-> reasons(s)]]

\* getTeacherPracticalAnalytics
PracticalAnalytics(class, task) ==
  Analytics(Active(class), {a \in task.attempts : a.student \in Active(class)})

\* buildTeacherClassroomManagement: of all members, also those whose access ended,
\* the attempts at all tasks of the class; analytics of the latest published task.
Management(class) ==
  LET members == {s \in DOMAIN class.members : class.members[s] # "none"}
      attempts == {a \in UNION {task.attempts : task \in ToSet(class.tasks)} : a.student \in members}
      mine(s) == NewestFirst(Of(s, attempts))
      task == LatestPublished(class)
  IN [roster |-> [s \in members |->
        [active |-> s \in Active(class), count |-> Len(mine(s)),
         drafts |-> Cardinality({a \in Of(s, attempts) : a.review = "DRAFT"}),
         published |-> Cardinality({a \in Of(s, attempts) : a.review = "PUBLISHED"}),
         latest |-> IF mine(s) = <<>> THEN None ELSE Head(mine(s))]],
      analytics |-> IF task = None THEN None
                    ELSE Analytics(Active(class), {a \in attempts : a.task = task.id})]

-----------------------------------------------------------------------------
(* The student's overview (student/overview.ts) and its pages               *)
(* (features/student).                                                      *)

StudentPractical(class, task, s) ==
  LET mine == Of(s, task.attempts)
      latest == Highest(mine)
  IN [class |-> class.id, id |-> task.id, deadline |-> task.deadline,
      working |-> s \in task.working,
      latest |-> IF mine = {} THEN None ELSE latest,
      feedback |-> mine # {} /\ latest.review = "PUBLISHED",
      attempts |-> {[number |-> a.number, feedback |-> a.review = "PUBLISHED",
                     marks |-> IF a.review = "PUBLISHED" THEN "shown" ELSE None] : a \in mine}]

StudentOverview(classes, s) ==
  LET joined == Kept(classes, {i \in DOMAIN classes : s \in Active(classes[i])})
      of(class) ==
        [i \in DOMAIN Published(class) |-> StudentPractical(class, Published(class)[i], s)]
      practicals == Concat([i \in DOMAIN joined |-> of(joined[i])])
      submitted(list) == Cardinality({i \in DOMAIN list : list[i].latest # None})
  IN [classes |-> [i \in DOMAIN joined |->
        [id |-> joined[i].id, practicals |-> Len(of(joined[i])), submitted |-> submitted(of(joined[i]))]],
      practicals |-> practicals,
      total |-> Len(practicals), submitted |-> submitted(practicals),
      completion |-> Percent(submitted(practicals), Len(practicals))]

\* isStudentPracticalOverdue
Overdue(p) == p.deadline # None /\ p.latest = None /\ p.deadline < 0

\* orderStudentActionablePracticals: what has no deadline is due after all that has.
Sooner(p, q) ==
  p.deadline # None /\ (q.deadline = None \/ p.deadline < q.deadline)
Before(list, i, j) ==
  IF Overdue(list[i]) # Overdue(list[j]) THEN Overdue(list[j])
  ELSE Sooner(list[i], list[j]) \/ (list[i].deadline = list[j].deadline /\ i < j)
Actionable(list) ==
  LET open == {i \in DOMAIN list : list[i].latest = None}
      order == Arranged(open, {pair \in open \X open : Before(list, pair[1], pair[2])})
  IN [n \in DOMAIN order |-> list[order[n]]]

\* stateFor
StateFor(p) ==
  IF p.feedback THEN "FEEDBACK_AVAILABLE"
  ELSE IF p.latest # None THEN "SUBMITTED"
  ELSE IF p.working THEN "IN_PROGRESS" ELSE "NOT_SUBMITTED"

\* buildStudentDashboardViewModel
Dashboard(overview) ==
  LET todo == Actionable(overview.practicals)
      label(p) == IF Overdue(p) THEN "Overdue" ELSE IF p.working THEN "In progress" ELSE "Not started"
  IN [state |-> IF overview.classes = <<>> THEN "NO_CLASSES"
                ELSE IF overview.practicals = <<>> THEN "NO_PRACTICALS"
                ELSE IF todo = <<>> THEN "ALL_SUBMITTED" ELSE "ACTIONABLE",
      todo |-> [i \in DOMAIN todo |-> [id |-> todo[i].id, label |-> label(todo[i]),
                                       opens |-> ~Overdue(todo[i])]]]

\* buildStudentClassesViewModel: a class and what to do next in it.
ClassWork(overview, class) ==
  LET list == overview.practicals
      mine == Kept(list, {i \in DOMAIN list : list[i].class = class})
      submitted == Cardinality({i \in DOMAIN mine : mine[i].latest # None})
      todo == Actionable(mine)
  IN [state |-> IF mine = <<>> THEN "NO_PRACTICALS"
                ELSE IF submitted = Len(mine) THEN "UP_TO_DATE" ELSE "IN_PROGRESS",
      submitted |-> submitted,
      next |-> IF todo = <<>> THEN None ELSE todo[1].id,
      opens |-> todo # <<>> /\ ~Overdue(todo[1])]

\* buildStudentPracticalsViewModel: what is to do, and then what was submitted,
\* newest first.
PracticalsList(overview) ==
  LET list == overview.practicals
      done == {i \in DOMAIN list : list[i].latest # None}
      later(i, j) == \/ list[i].latest.at > list[j].latest.at
                     \/ list[i].latest.at = list[j].latest.at /\ i < j
      order == Arranged(done, {pair \in done \X done : later(pair[1], pair[2])})
  IN Actionable(list) \o [n \in DOMAIN order |-> list[order[n]]]

\* matchesStudentPracticalFilter
Shown(state, filter) ==
  CASE filter = "ALL" -> TRUE [] filter = "TO_DO" -> state = "NOT_SUBMITTED"
    [] filter = "FEEDBACK" -> state = "FEEDBACK_AVAILABLE" [] OTHER -> state = filter

\* buildStudentPracticalDetailViewModel: the link to the workspace.
WorkspaceAction(p) ==
  IF Overdue(p) THEN "closed" ELSE IF p.working THEN "continue" ELSE "start"

\* buildStudentProgressViewModel
StudentProgress(overview) ==
  LET list == overview.practicals
  IN [submitted |-> overview.submitted, total |-> overview.total,
      awaiting |-> IF overview.total > overview.submitted THEN overview.total - overview.submitted
                   ELSE 0,
      passed |-> Cardinality({i \in DOMAIN list :
                                list[i].latest # None /\ PassedAll(list[i].latest)}),
      reviews |-> Cardinality({i \in DOMAIN list : list[i].feedback}),
      classes |-> [c \in {list[i].class : i \in DOMAIN list} |->
        LET of == {i \in DOMAIN list : list[i].class = c} IN
        [total |-> Cardinality(of), submitted |-> Cardinality({i \in of : list[i].latest # None})]],
      allSubmitted |-> overview.total > 0 /\ overview.submitted = overview.total]

-----------------------------------------------------------------------------
(* When the rows are read.  The overviews of teachers and of students and   *)
(* the cards of classes are kept for 60 seconds, the roster and analytics   *)
(* of a class for 30 (unstable_cache); kept is when the rows of the page    *)
(* that is kept were read, or None.                                         *)

\* A visit shows the page that is kept, however old it is; when it is too old, the rows
\* are read anew behind the visit.
ReadAt(kept, now) == IF kept = None THEN now ELSE kept
KeptAfter(kept, now, seconds) == IF kept = None \/ now - kept >= seconds THEN now ELSE kept

\* updateTag: server actions drop what is kept; what the worker, a webhook or an autosave
\* changes leaves it.
Dropped(kept, change) == IF change = "action" THEN None ELSE kept

\* A page catches up, visited now and later with one change before each: after a server
\* action the next visit shows the rows as they are, after any other change the second
\* visit shows them as they were less than so many seconds before the first; and no
\* visit shows older rows than the visit before it.
PageCatchesUp(kept, change, now, next, later, seconds) ==
  LET before == Dropped(kept, change)
      first == ReadAt(before, now)
      second == ReadAt(Dropped(KeptAfter(before, now, seconds), next), later)
  IN /\ change = "action" => first = now
     /\ next = "action" => second = later
     /\ second > now - seconds /\ second >= first

-----------------------------------------------------------------------------
(* What the pages must agree on, read from the same rows.  Pages that count  *)
(* the active students of a class always agree; those that count everyone    *)
(* who submitted agree with them only as long as nobody who submitted has    *)
(* lost access (Stayed): then they differ.                                   *)

Stayed(class) == \A task \in ToSet(class.tasks) : Submitters(task) \subseteq Active(class)

\* Whom a page calls outstanding, how many it says have submitted and whose review
\* it counts is the same on the card of a class, its page, its roster, its progress
\* and the analytics of its latest practical; on the teacher's overview and in the
\* roster's analytics as long as nobody who submitted has lost access.
ClassToldAlike(class) ==
  LET task == LatestPublished(class)
      page == ClassroomPage(class, "TEACHER", None)
      progress == ClassroomProgress(class)
      analytics == PracticalAnalytics(class, task)
      rows == Attention(class)
      missing == {i \in DOMAIN rows : rows[i].about = "missing"}
  IN task # None =>
     /\ Card(class, "TEACHER").latest = page.summary
     /\ analytics.submitted = page.summary.submitted /\ analytics.pending = page.summary.pending
     /\ page.outstanding = {s \in DOMAIN analytics.attention :
                              "NO_SUBMISSION" \in analytics.attention[s]}
     /\ page.outstanding = {s \in DOMAIN progress : progress[s].latest = None}
     /\ missing = {} <=> page.outstanding = {}
     /\ \A i \in missing : rows[i].count = Cardinality(page.outstanding)
     /\ Management(class).analytics.attention = analytics.attention
     /\ Stayed(class) =>
          /\ Management(class).analytics = analytics
          /\ ClassroomRow(class).outstanding = page.summary.pending
          /\ ClassroomRow(class).completion = page.summary.completion

\* As long as nobody who submitted has lost access, the progress page counts the latest
\* attempts the analytics of each practical count, and its incomplete work is what its
\* students still have to do.
ProgressToldAlike(classes, class) ==
  LET progress == TeacherProgress(TeacherOverview(classes), class.id) IN
  Stayed(class) =>
    /\ \A task \in ToSet(Published(class)) :
         LET analytics == PracticalAnalytics(class, task) IN
         \E row \in progress.practicals :
           /\ row.id = task.id /\ row.reviewed = analytics.reviewed
           /\ row.needsReview = analytics.needsReview /\ row.submitted = analytics.submitted
    /\ progress.incomplete =
         Sum([s \in Active(class) |->
                ClassroomProgress(class)[s].total - ClassroomProgress(class)[s].submitted],
             Active(class))

\* Every submission is in one of the tabs of the review queue; the dashboard's rows
\* open tabs with as many submissions as they say; and the page offers something
\* published as the next review only when nothing else is left.
QueueToldAlike(classes) ==
  LET overview == TeacherOverview(classes)
      tabs == Tabs(overview.submissions)
      next == NextReview(overview.submissions)
      rows == ReviewRows(overview)
  IN /\ tabs["NEW"] + tabs["DRAFT"] + tabs["PUBLISHED"] = tabs["ALL"]
     /\ overview.needsReview = tabs["NEW"] + tabs["DRAFT"]
     /\ \A i \in DOMAIN rows : rows[i].count = tabs[QueueFilter(rows[i].filter)]
     /\ overview.needsReview > 0 => QueueStatus(next) # "PUBLISHED_FEEDBACK"
     /\ \A a \in ToSet(overview.submissions) :
          LET sidebar == Sidebar(overview.submissions, a, 2) IN
          /\ a \in ToSet(sidebar) /\ Len(sidebar) <= 2 /\ IsInjective(sidebar)
          /\ Cardinality({r \in {"PASSED", "INCOMPLETE", "ERROR"} : ResultMatches(a, r)}) = 1

\* A student is told the same on the dashboard, the list of practicals, its filters,
\* the progress page and the classroom, and the teacher, unless the student has lost
\* access to a class they submitted in, is told it of the student:
\* no practical is missing or listed twice, what is overdue comes last and opens
\* nowhere, and feedback appears exactly with the published review of the latest
\* attempt.
StudentToldAlike(classes, s) ==
  LET overview == StudentOverview(classes, s)
      list == overview.practicals
      todo == Dashboard(overview).todo
      listed == PracticalsList(overview)
      progress == StudentProgress(overview)
      row == TeacherOverview(classes).students[s]
      filters(p) == {f \in {"TO_DO", "IN_PROGRESS", "SUBMITTED", "FEEDBACK"} : Shown(StateFor(p), f)}
  IN /\ Len(listed) = Len(list) /\ ToSet(listed) = ToSet(list)
     /\ \A p \in ToSet(list) : Cardinality(filters(p)) = 1
     /\ progress.awaiting = Len(todo) /\ progress.awaiting + progress.submitted = progress.total
     /\ overview.classes # <<>> /\ list # <<>> =>
          (Dashboard(overview).state = "ALL_SUBMITTED" <=> progress.allSubmitted)
     /\ \A i \in DOMAIN todo :
          /\ todo[i].id = listed[i].id
          /\ todo[i].opens <=> WorkspaceAction(listed[i]) # "closed"
          /\ \A j \in 1 .. i : todo[j].label = "Overdue" => todo[i].label = "Overdue"
     /\ \A p \in ToSet(list) : p.feedback =>
          \E a \in p.attempts : a.number = p.latest.number /\ a.marks # None
     /\ \A i \in DOMAIN classes : s \in Active(classes[i]) =>
          LET class == classes[i] IN
          /\ ClassroomProgress(class)[s].latest = ClassroomPage(class, "STUDENT", s).latest
          /\ LET work == ClassWork(overview, class.id) IN
             /\ work.submitted = ClassroomProgress(class)[s].submitted
             /\ work.state = "IN_PROGRESS" <=> work.next # None
             /\ \A n \in DOMAIN todo : todo[n].id = work.next => work.opens = todo[n].opens
          /\ \A c \in DOMAIN progress.classes : c = class.id =>
               progress.classes[c].submitted = ClassroomProgress(class)[s].submitted
     /\ overview.classes # <<>> /\ (\A i \in DOMAIN classes : s \notin Active(classes[i]) =>
          \A task \in ToSet(classes[i].tasks) : s \notin Submitters(task)) =>
          /\ row.available = overview.total /\ row.submitted = overview.submitted
          /\ row.completion = overview.completion
=============================================================================
