------------------------------ MODULE LivePulse ------------------------------
(***************************************************************************)
(* The live lab pulse (backend/domain/classrooms/live-lab-pulse.ts and     *)
(* backend/server/teacher/live-lab-pulse.ts): what a teacher is told, from *)
(* the rows of the database, that each student of a class does now.        *)
(*                                                                         *)
(* A student is [sessions, submitted, hinted, override]: the sessions in   *)
(* the class, the latest started first, the times of the latest submission *)
(* and hint (or None), and the teacher's choice of hints for the student.  *)
(* A session is [status, touched, queued, runs]: touched is the latest of  *)
(* its update, its events and its runs, and runs are how its runs ended,   *)
(* newest first (None: not yet).  Times are minutes.                       *)
(***************************************************************************)
EXTENDS Integers, FiniteSets, Sequences, SequencesExt

CONSTANT None

Statuses == {"RUNNING_TESTS", "CODING_NOW", "RECENTLY_SUBMITTED", "NEEDS_ATTENTION", "INACTIVE"}

\* Which rows a query with a limit returns.
Latest(rows, n) == 1 .. IF Len(rows) < n THEN Len(rows) ELSE n

\* The session the page looks at: the first active one of the latest three.
Looked(student) ==
  LET latest == Latest(student.sessions, 3)
      active == {i \in latest : student.sessions[i].status = "ACTIVE"}
  IN IF latest = {} THEN None ELSE student.sessions[IF active = {} THEN 1 ELSE Min(active)]

\* latestDate
LatestDate(times) == IF times = {None} THEN None
                     ELSE CHOOSE t \in times \ {None} : \A u \in times \ {None} : u <= t

\* occurredWithin
OccurredWithin_Ever(time, now, minutes) == time # None
OccurredWithin(time, now, minutes) == time # None /\ now - time \in 0 .. minutes

\* consecutiveFailedRunCount, of the latest five runs: those before the first that
\* passed all visible tests, without those that have no result yet.
ConsecutiveFailed(runs) ==
  LET ended == {i \in Latest(runs, 5) : runs[i] # None}
  IN Cardinality({i \in ended : \A j \in ended : runs[j] = "passed" => i < j})

\* classifyLiveLabPulseStudent
Classify(signal, now) ==
  IF signal.executing THEN "RUNNING_TESTS"
  ELSE IF OccurredWithin(signal.submitted, now, 10) THEN "RECENTLY_SUBMITTED"
  ELSE IF signal.failed >= 2 /\ OccurredWithin(signal.last, now, 30) THEN "NEEDS_ATTENTION"
  ELSE IF signal.active /\ OccurredWithin(signal.last, now, 5) THEN "CODING_NOW"
  ELSE "INACTIVE"

\* getTeacherLiveLabPulse, of one student
Signal(student) ==
  LET session == Looked(student) IN
  [executing |-> session # None /\ session.queued,
   active |-> session # None /\ session.status = "ACTIVE",
   failed |-> IF session = None THEN 0 ELSE ConsecutiveFailed(session.runs),
   submitted |-> student.submitted,
   last |-> LatestDate({None, student.submitted, student.hinted,
                        IF session = None THEN None ELSE session.touched})]
Pulse(student, policy, now) ==
  [status |-> Classify(Signal(student), now),
   hints |-> IF student.override # None THEN student.override
             ELSE IF policy # None THEN policy ELSE FALSE]

\* ... and the counts of the page
Counts(students, policy, now) ==
  [status \in Statuses |->
     Cardinality({i \in DOMAIN students : Pulse(students[i], policy, now).status = status})]

-----------------------------------------------------------------------------
\* Time alone makes nobody busier: whoever is inactive stays so until there is
\* something new, and who is not inactive has done something within half an hour or
\* has tests running.  Nobody needs attention whose last run of the session passed,
\* or who has submitted within ten minutes; and who has just saved in the only active
\* session is not called inactive.
StudentToldFairly(student, policy, now, later) ==
  LET status(t) == Pulse(student, policy, t).status
      session == Looked(student)
      ended == {r \in DOMAIN session.runs : session.runs[r] # None}
  IN
  /\ status(now) = "INACTIVE" => status(later) = "INACTIVE"
  /\ status(later) \notin {"INACTIVE", "RUNNING_TESTS"} => later - Signal(student).last <= 30
  /\ status(now) = "NEEDS_ATTENTION" =>
       /\ ended # {} /\ session.runs[Min(ended)] # "passed"
       /\ student.submitted = None \/ now - student.submitted > 10
  /\ \A s \in Latest(student.sessions, 3) :
       /\ student.sessions[s].status = "ACTIVE" /\ now - student.sessions[s].touched <= 5
       /\ \A o \in DOMAIN student.sessions \ {s} : student.sessions[o].status # "ACTIVE"
       => status(now) # "INACTIVE"

\* ... and each student is counted once.
PulseIsHonest(students, policy, now, later) ==
  /\ \A i \in DOMAIN students : StudentToldFairly(students[i], policy, now, later)
  /\ LET counts == Counts(students, policy, now) IN
     counts["RUNNING_TESTS"] + counts["CODING_NOW"] + counts["RECENTLY_SUBMITTED"]
       + counts["NEEDS_ATTENTION"] + counts["INACTIVE"] = Len(students)
=============================================================================
