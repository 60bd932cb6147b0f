--------------------------- MODULE ExecutionQueue ---------------------------
(***************************************************************************)
(* The durable execution queue of the platform: student requests turn into *)
(* ExecutionJob rows (backend/server/attempts/service.ts), and the worker  *)
(* processes of backend/worker/execution-worker.ts claim the rows under a  *)
(* lease, run the source at an external provider and store the result and, *)
(* for a SUBMIT job, the submission that closes the coding session.        *)
(*                                                                         *)
(* A job row and the run attempt it belongs to are created together and    *)
(* reference each other one to one, so both are named by the same number;  *)
(* numbers grow with createdAt.  A statement or a transaction is one step: *)
(* the transactions whose reads may be stale when they write are two.      *)
(*                                                                         *)
(* Left out: result contents beyond their identity, the languages, the     *)
(* time stamps shown to users, lastError, and the events other than the    *)
(* two that report results (RUN_COMPLETED, SUBMISSION_CREATED).            *)
(***************************************************************************)
EXTENDS Naturals, FiniteSets

CONSTANTS
  Session,           \* coding sessions, one student and one practical each
  Source,            \* source texts
  Result,            \* what a provider answers about a source, but for ...
  InternalError,     \* ... its internal_error answer
  Worker,            \* worker processes
  Handler,           \* submit requests the web tier may handle at one time
  AccessState,       \* what teachers and the deadline may make of a session
  Null,
  Concurrency,       \* EXECUTION_WORKER_CONCURRENCY
  MaxAttempts,       \* EXECUTION_JOB_MAX_ATTEMPTS
  MaxJobs,           \* bound: jobs ever created
  MaxPages,          \* bound: workspace pages, hence keys, per session
  MaxResubmits,      \* bound: FAILED jobs put back by a repeated submit
  MaxEarlyExpiries,  \* bound: leases that end while a task still works
  MaxCrashes         \* bound: worker process exits

Job == 1 .. MaxJobs
NoJob == 0
Slot == 1 .. Concurrency
Place == Worker \X Slot      \* the promises in a work loop's `active` set
Name == Worker \X Slot       \* the lock names `${workerId}:${slot}`
Key == Session \X (1 .. MaxPages)
Run == [session : Session, kind : {"RUN", "SUBMIT"},
        key : Key \cup {Null}, source : Source]
Row == [status : {"none", "QUEUED", "RUNNING", "COMPLETED", "FAILED"},
        attempts : Nat, lockedBy : Name \cup {Null},
        expired : BOOLEAN, backoff : BOOLEAN]
Request == [key : Key \cup {Null}, source : Source \cup {Null},
            pc : {"idle", "admit", "resubmit"}, job : Job \cup {NoJob}]
Task == [pc : {"idle", "claimed", "read", "requeue", "finish", "commit", "failing"},
         job : Job \cup {NoJob}, name : Name \cup {Null}, attempt : Nat,
         seen : BOOLEAN, result : Result \cup {InternalError, Null}]

ASSUME ConstantsAssumption ==
  /\ \A b \in {MaxJobs, MaxPages, MaxResubmits, MaxEarlyExpiries, MaxCrashes} :
        b \in Nat
  /\ Concurrency \in Nat \ {0}
  /\ MaxAttempts \in Nat \ {0}
  /\ AccessState \subseteq {"open", "late", "closed"}
  /\ Null \notin Run \cup Name \cup Key \cup Source \cup Result \cup {InternalError}
  /\ InternalError \notin Result

VARIABLES
  \* the database
  sessionStatus,     \* CodingSession.status
  draft,             \* Draft.sourceCode
  access,            \* publication, membership and deadline of the practical
  run,               \* RunAttempt and the columns of ExecutionJob never updated
  job,               \* the columns of ExecutionJob that claims and results update
  snapshot,          \* ResultSnapshot of the run
  submission,        \* SubmissionAttempt: the run it was made from
  runCompleted,      \* RUN_COMPLETED events of the run
  submissionCreated, \* SUBMISSION_CREATED events of the session
  \* the processes
  handler,           \* submit requests in the web tier
  task,              \* processOneJob promises, by the place they occupy
  nextSlot,          \* nextSlot of the worker process
  \* history and bounds
  asked,             \* the source of the last submit request accepted as the job
  resubmits, earlyExpiries, crashes,
  lateRepeats        \* repeated submits that put back a job which was FAILED no more

session_vars == <<sessionStatus, draft, access>>
result_vars  == <<snapshot, submission, runCompleted, submissionCreated>>
bound_vars   == <<resubmits, earlyExpiries, crashes, lateRepeats>>
vars == <<session_vars, run, job, result_vars, handler, task, nextSlot, asked,
          bound_vars>>

-----------------------------------------------------------------------------
(* Rows and local state.  A definition with a suffix (Claimable_AnyLease) is *)
(* a mistake the code could have made in place of the one it precedes; the   *)
(* README says which property each of them breaks.                           *)

NoRow == [status |-> "none", attempts |-> 0, lockedBy |-> Null,
          expired |-> FALSE, backoff |-> FALSE]

\* A row as enqueueing and re-enqueueing write it.
NewRow == [NoRow EXCEPT !.status = "QUEUED"]

\* `expired` stands for lockedAt < staleBefore, `backoff` for availableAt > NOW().
ClaimedRow(row, name) ==
  [row EXCEPT !.status = "RUNNING", !.lockedBy = name, !.expired = FALSE,
              !.backoff = FALSE, !.attempts = row.attempts + 1]

RequeuedRow(row) ==
  [row EXCEPT !.status = "QUEUED", !.lockedBy = Null, !.expired = FALSE,
              !.backoff = TRUE]

SettledRow(row, status) ==
  [row EXCEPT !.status = status, !.lockedBy = Null, !.expired = FALSE]

IdleHandler == [key |-> Null, source |-> Null, pc |-> "idle", job |-> NoJob]

IdleTask == [pc |-> "idle", job |-> NoJob, name |-> Null, attempt |-> 0,
             seen |-> FALSE, result |-> Null]

Created == {j \in Job : job[j].status # "none"}

ActiveJobs(s) ==
  {j \in Created : job[j].status \in {"QUEUED", "RUNNING"} /\ run[j].session = s}

Init ==
  /\ sessionStatus = [s \in Session |-> "ACTIVE"]
  /\ draft \in [Session -> Source]
  /\ access = [s \in Session |-> "open"]
  /\ run = [j \in Job |-> Null]
  /\ job = [j \in Job |-> NoRow]
  /\ snapshot = [j \in Job |-> Null]
  /\ submission = [s \in Session |-> NoJob]
  /\ runCompleted = [j \in Job |-> 0]
  /\ submissionCreated = [s \in Session |-> 0]
  /\ handler = [h \in Handler |-> IdleHandler]
  /\ task = [p \in Place |-> IdleTask]
  /\ nextSlot = [w \in Worker |-> 0]
  /\ asked = [j \in Job |-> Null]
  /\ resubmits = 0 /\ earlyExpiries = 0 /\ crashes = 0 /\ lateRepeats = 0

-----------------------------------------------------------------------------
(* The students, and what surrounds them. *)

\* The deadline passes or moves, the membership ends or is restored.
AccessChanges(s, a) ==
  /\ access[s] # a
  /\ access' = [access EXCEPT ![s] = a]
  /\ UNCHANGED <<sessionStatus, draft, run, job, result_vars, handler, task,
                 nextSlot, asked, bound_vars>>

\* requireActiveStudentSession
ActiveSession_AnyStatus(s) == access[s] # "closed"
ActiveSession(s) == sessionStatus[s] = "ACTIVE" /\ access[s] # "closed"

SaveDraft(s, src) ==
  /\ ActiveSession(s)
  /\ draft[s] # src
  /\ draft' = [draft EXCEPT ![s] = src]
  /\ UNCHANGED <<sessionStatus, access, run, job, result_vars, handler, task,
                 nextSlot, asked, bound_vars>>

\* The serializable transaction of enqueueStudentExecution: it is refused when
\* the session already has a queued or running job.
CanEnqueue(s) == ActiveSession(s) /\ ActiveJobs(s) = {}

NextJob(j) == j \notin Created /\ \A i \in Job \ Created : j <= i

Enqueue(r) ==
  \E j \in Job :
    /\ NextJob(j)
    /\ run' = [run EXCEPT ![j] = r]
    /\ job' = [job EXCEPT ![j] = NewRow]
    /\ draft' = [draft EXCEPT ![r.session] = r.source]
    /\ asked' = [asked EXCEPT ![j] = r.source]
    /\ UNCHANGED <<sessionStatus, access, result_vars, task, nextSlot, bound_vars>>

EnqueueRun(s, src) ==
  /\ CanEnqueue(s)
  /\ Enqueue([session |-> s, kind |-> "RUN", key |-> Null, source |-> src])
  /\ UNCHANGED handler

\* Whether the partial unique index accepts row j as active.
IndexAccepts_All(j) == TRUE
IndexAccepts(j) == ActiveJobs(run[j].session) \subseteq {j}

Repeatable_NotActive(j) == job[j].status \notin {"QUEUED", "RUNNING"}
Repeatable(j) == job[j].status = "FAILED"

\* A submit request first looks its idempotency key up, outside a transaction.
\* A key with a job that has not FAILED is answered with that job: no step.
LookUpKey(h, key, src) ==
  LET repeated == {j \in Created : run[j].key = key} IN
  /\ handler[h].pc = "idle"
  /\ \/ /\ repeated = {}
        /\ handler' = [handler EXCEPT ![h] =
             [key |-> key, source |-> src, pc |-> "admit", job |-> NoJob]]
        /\ UNCHANGED resubmits
     \/ \E j \in repeated :
          /\ Repeatable(j)
          /\ resubmits < MaxResubmits
          /\ resubmits' = resubmits + 1
          /\ handler' = [handler EXCEPT ![h] =
               [key |-> key, source |-> src, pc |-> "resubmit", job |-> j]]
  /\ UNCHANGED <<session_vars, run, job, result_vars, task, nextSlot, asked,
                 earlyExpiries, crashes, lateRepeats>>

\* The unique key makes the second of two first requests fail.  (Past MaxJobs
\* requests are refused: the bound.)
CanAdmit(key) ==
  /\ CanEnqueue(key[1])
  /\ access[key[1]] = "open"
  /\ \A j \in Created : run[j].key # key
  /\ Created # Job

AdmitSubmission(h) ==
  LET key == handler[h].key IN
  /\ handler[h].pc = "admit"
  /\ handler' = [handler EXCEPT ![h] = IdleHandler]
  /\ IF CanAdmit(key)
     THEN Enqueue([session |-> key[1], kind |-> "SUBMIT", key |-> key,
                   source |-> handler[h].source])
     ELSE UNCHANGED <<session_vars, run, job, result_vars, task, nextSlot, asked,
                      bound_vars>>

\* The FAILED job seen before is put back by an unconditional update, which
\* only the unique index on active jobs of a session may refuse.  The source
\* and the language of the request are dropped.
ResubmitFailed(h) ==
  LET j == handler[h].job IN
  /\ handler[h].pc = "resubmit"
  /\ handler' = [handler EXCEPT ![h] = IdleHandler]
  /\ IF IndexAccepts(j)
     THEN /\ job' = [job EXCEPT ![j] = NewRow]
          /\ asked' = [asked EXCEPT ![j] = handler[h].source]
          /\ lateRepeats' = IF Repeatable(j) THEN lateRepeats ELSE lateRepeats + 1
     ELSE UNCHANGED <<job, asked, lateRepeats>>
  /\ UNCHANGED <<session_vars, run, result_vars, task, nextSlot, resubmits,
                 earlyExpiries, crashes>>

-----------------------------------------------------------------------------
(* The worker processes. *)

Claimable_QueuedOnly(j) == job[j].status = "QUEUED" /\ ~job[j].backoff
Claimable_AnyLease(j) == Claimable_QueuedOnly(j) \/ job[j].status = "RUNNING"
Claimable(j) ==
  \/ job[j].status = "QUEUED" /\ ~job[j].backoff
  \/ job[j].status = "RUNNING" /\ job[j].expired

\* `nextSlot` advances on every call, whether a place is free under that name
\* or not: two tasks of a process may come to hold the same lock name.
SlotAfter(w) == (nextSlot[w] % Concurrency) + 1

\* The work loop awaits each claim, and has room for another task.  Places are
\* interchangeable, so the first free one is taken.
Polls(w, n) ==
  /\ task[<<w, n>>].pc = "idle"
  /\ \A m \in Slot : task[<<w, m>>].pc # "claimed"
  /\ \A m \in Slot : m < n => task[<<w, m>>].pc # "idle"

\* The UPDATE of claimNextExecutionJob takes the oldest claimable row.
Claim(w, n, j) ==
  /\ Polls(w, n)
  /\ Claimable(j)
  /\ \A i \in Job : Claimable(i) => j <= i
  /\ job' = [job EXCEPT ![j] = ClaimedRow(job[j], <<w, SlotAfter(w)>>)]
  /\ task' = [task EXCEPT ![<<w, n>>] = [IdleTask EXCEPT !.pc = "claimed", !.job = j]]
  /\ nextSlot' = [nextSlot EXCEPT ![w] = SlotAfter(w)]
  /\ UNCHANGED <<session_vars, run, result_vars, handler, asked, bound_vars>>

PollNothing(w, n) ==
  /\ Polls(w, n)
  /\ \A j \in Job : ~Claimable(j)
  /\ nextSlot' = [nextSlot EXCEPT ![w] = SlotAfter(w)]
  /\ UNCHANGED <<session_vars, run, job, result_vars, handler, task, asked,
                 bound_vars>>

HasResult(j) == snapshot[j] # Null

\* The row claimed is read back by a statement of its own.
ReadClaimed(p) ==
  LET j == task[p].job IN
  /\ task[p].pc = "claimed"
  /\ task' = [task EXCEPT ![p] =
       [pc |-> "read", job |-> j, name |-> job[j].lockedBy,
        attempt |-> job[j].attempts, seen |-> HasResult(j), result |-> Null]]
  /\ UNCHANGED <<session_vars, run, job, result_vars, handler, nextSlot, asked,
                 bound_vars>>

EndTask(p) == task' = [task EXCEPT ![p] = IdleTask]

\* The run already has its result: the job is completed, whoever holds it.
CompleteStored(p) ==
  LET j == task[p].job IN
  /\ task[p].pc = "read" /\ task[p].seen
  /\ job' = [job EXCEPT ![j] = SettledRow(job[j], "COMPLETED")]
  /\ EndTask(p)
  /\ UNCHANGED <<session_vars, run, result_vars, handler, nextSlot, asked,
                 bound_vars>>

MayRetry_OneMore(attempt) == attempt <= MaxAttempts
MayRetry(attempt) == attempt < MaxAttempts

\* The provider answers.
Execute(p, answer) ==
  /\ task[p].pc = "read" /\ ~task[p].seen
  /\ task' = [task EXCEPT ![p].result = answer,
       ![p].pc = IF answer = InternalError /\ MayRetry(task[p].attempt)
                 THEN "requeue" ELSE "finish"]
  /\ UNCHANGED <<session_vars, run, job, result_vars, handler, nextSlot, asked,
                 bound_vars>>

\* An internal_error answer puts the job back, whoever holds it by now; when
\* the session has another active job the index refuses and the update throws.
Requeue(p) ==
  LET j == task[p].job IN
  /\ task[p].pc = "requeue"
  /\ IF IndexAccepts(j)
     THEN /\ job' = [job EXCEPT ![j] = RequeuedRow(job[j])]
          /\ EndTask(p)
     ELSE /\ task' = [task EXCEPT ![p].pc = "failing"]
          /\ UNCHANGED job
  /\ UNCHANGED <<session_vars, run, result_vars, handler, nextSlot, asked,
                 bound_vars>>

Owns(p) ==
  /\ job[task[p].job].status = "RUNNING"
  /\ job[task[p].job].lockedBy = task[p].name

\* The completion transaction reads the row first and gives up when the lock
\* is no longer the task's ...
CheckOwnership(p) ==
  /\ task[p].pc = "finish"
  /\ IF Owns(p) THEN task' = [task EXCEPT ![p].pc = "commit"] ELSE EndTask(p)
  /\ UNCHANGED <<session_vars, run, job, result_vars, handler, nextSlot, asked,
                 bound_vars>>

StoredResult_Upsert(j, result) == result
StoredResult(j, result) == IF snapshot[j] = Null THEN result ELSE snapshot[j]

Submits(j) == run[j].kind = "SUBMIT" /\ submission[run[j].session] = NoJob

\* ... but nothing locks the row until the transaction's last statement: it
\* may commit after another claim.  A result or a submission stored meanwhile
\* is kept (or makes the insert fail, see Throw).
Complete(p) ==
  LET j == task[p].job
      s == run[j].session
  IN
  /\ task[p].pc = "commit"
  /\ snapshot' = [snapshot EXCEPT ![j] = StoredResult(j, task[p].result)]
  /\ runCompleted' = [runCompleted EXCEPT ![j] = @ + 1]
  /\ IF Submits(j)
     THEN /\ submission' = [submission EXCEPT ![s] = j]
          /\ sessionStatus' = [sessionStatus EXCEPT ![s] = "SUBMITTED"]
          /\ submissionCreated' = [submissionCreated EXCEPT ![s] = @ + 1]
     ELSE UNCHANGED <<submission, sessionStatus, submissionCreated>>
  /\ job' = [job EXCEPT ![j] = SettledRow(job[j], "COMPLETED")]
  /\ EndTask(p)
  /\ UNCHANGED <<draft, access, run, handler, nextSlot, asked, bound_vars>>

\* Any statement after the claim may throw: a provider, a unique index, a
\* transaction that times out.  The transaction rolls back.
Throw(p) ==
  /\ task[p].pc \in {"read", "requeue", "finish", "commit"}
  /\ task' = [task EXCEPT ![p].pc = "failing"]
  /\ UNCHANGED <<session_vars, run, job, result_vars, handler, nextSlot, asked,
                 bound_vars>>

\* retryOrFailClaimedExecutionJob: fenced by the lock and the attempt read.
RetryOrFail(p) ==
  LET j == task[p].job IN
  /\ task[p].pc = "failing"
  /\ job' = [job EXCEPT ![j] =
       IF ~Owns(p) \/ job[j].attempts # task[p].attempt THEN @
       ELSE IF MayRetry(task[p].attempt) THEN RequeuedRow(job[j])
       ELSE SettledRow(job[j], "FAILED")]
  /\ EndTask(p)
  /\ UNCHANGED <<session_vars, run, result_vars, handler, nextSlot, asked,
                 bound_vars>>

\* The process exits (a signal, an error of the unguarded claim, the host) and
\* is started again under the same LABRIX_EXECUTION_WORKER_ID.
Crash(w) ==
  /\ crashes < MaxCrashes
  /\ crashes' = crashes + 1
  /\ task' = [p \in Place |-> IF p[1] = w THEN IdleTask ELSE task[p]]
  /\ nextSlot' = [nextSlot EXCEPT ![w] = 0]
  /\ UNCHANGED <<session_vars, run, job, result_vars, handler, asked, resubmits,
                 earlyExpiries, lateRepeats>>

-----------------------------------------------------------------------------
(* Time. *)

InHand(j) == \E p \in Place : task[p].pc # "idle" /\ task[p].job = j

Expire(j) == job' = [job EXCEPT ![j].expired = TRUE]

Held(j) == job[j].status = "RUNNING" /\ ~job[j].expired

LeaseExpires(j) ==
  /\ Held(j) /\ ~InHand(j)
  /\ Expire(j)
  /\ UNCHANGED <<session_vars, run, result_vars, handler, task, nextSlot, asked,
                 bound_vars>>

\* leaseMs is measured with the worker's clock and is not renewed: a slow task
\* can outlive its lease.
LeaseExpiresEarly(j) ==
  /\ Held(j) /\ InHand(j)
  /\ earlyExpiries < MaxEarlyExpiries
  /\ earlyExpiries' = earlyExpiries + 1
  /\ Expire(j)
  /\ UNCHANGED <<session_vars, run, result_vars, handler, task, nextSlot, asked,
                 resubmits, crashes, lateRepeats>>

BackoffElapses(j) ==
  /\ job[j].backoff
  /\ job' = [job EXCEPT ![j].backoff = FALSE]
  /\ UNCHANGED <<session_vars, run, result_vars, handler, task, nextSlot, asked,
                 bound_vars>>

-----------------------------------------------------------------------------
StudentStep ==
  \/ \E s \in Session, a \in AccessState : AccessChanges(s, a)
  \/ \E s \in Session, src \in Source : SaveDraft(s, src) \/ EnqueueRun(s, src)
  \/ \E h \in Handler, key \in Key, src \in Source : LookUpKey(h, key, src)
  \/ \E h \in Handler : AdmitSubmission(h) \/ ResubmitFailed(h)

TaskStep(p) ==
  \/ ReadClaimed(p)
  \/ CompleteStored(p)
  \/ \E answer \in Result \cup {InternalError} : Execute(p, answer)
  \/ Requeue(p)
  \/ CheckOwnership(p)
  \/ Complete(p)
  \/ RetryOrFail(p)

ClaimStep(w) == \E n \in Slot, j \in Job : Claim(w, n, j)

WorkerStep ==
  \/ \E p \in Place : TaskStep(p) \/ Throw(p)
  \/ \E w \in Worker : ClaimStep(w) \/ Crash(w)
  \/ \E w \in Worker, n \in Slot : PollNothing(w, n)

TimeStep ==
  \E j \in Job : LeaseExpires(j) \/ LeaseExpiresEarly(j) \/ BackoffElapses(j)

Next == StudentStep \/ WorkerStep \/ TimeStep

Spec == Init /\ [][Next]_vars

\* A worker process runs: its loop polls, and every await of a task settles
\* (providers time out, transactions too).  Time passes.
Fairness ==
  /\ \A p \in Place : WF_vars(TaskStep(p))
  /\ \A w \in Worker : WF_vars(ClaimStep(w))
  /\ \A j \in Job : WF_vars(LeaseExpires(j)) /\ WF_vars(BackoffElapses(j))

FairSpec == Spec /\ Fairness
-----------------------------------------------------------------------------
(* Properties. *)

TypeOK ==
  /\ sessionStatus \in [Session -> {"ACTIVE", "SUBMITTED"}]
  /\ draft \in [Session -> Source]
  /\ access \in [Session -> {"open", "late", "closed"}]
  /\ run \in [Job -> Run \cup {Null}]
  /\ job \in [Job -> Row]
  /\ snapshot \in [Job -> Result \cup {InternalError, Null}]
  /\ submission \in [Session -> Job \cup {NoJob}]
  /\ runCompleted \in [Job -> Nat]
  /\ submissionCreated \in [Session -> Nat]
  /\ handler \in [Handler -> Request]
  /\ task \in [Place -> Task]
  /\ nextSlot \in [Worker -> 0 .. Concurrency]
  /\ asked \in [Job -> Source \cup {Null}]
  /\ resubmits \in Nat /\ earlyExpiries \in Nat /\ crashes \in Nat /\ lateRepeats \in Nat

\* What tasks and handlers remember still describes rows that exist: a row in
\* hand was created, a result seen in the claimed row is (still) stored, and a
\* task about to store one has one.
LocalStateOK ==
  /\ \A p \in Place :
       /\ task[p].pc # "idle" => task[p].job \in Created
       /\ task[p].pc = "read" /\ task[p].seen => snapshot[task[p].job] # Null
       /\ task[p].pc \in {"finish", "commit"} => task[p].result # Null
  /\ \A h \in Handler :
       /\ handler[h].pc = "admit" => handler[h].key # Null /\ handler[h].source # Null
       /\ handler[h].pc = "resubmit" => handler[h].job \in Created

\* A row and its run attempt exist together, and only a run that exists has a
\* result, an event or a request.
RowsPaired ==
  \A j \in Job :
    /\ j \in Created <=> run[j] # Null
    /\ j \notin Created => job[j] = NoRow /\ snapshot[j] = Null

\* A stored result of a SUBMIT run left no session open.
AnsweredSubmitCloses ==
  \A j \in Created :
    run[j].kind = "SUBMIT" /\ snapshot[j] # Null => submission[run[j].session] # NoJob

\* A session has at most one queued or running job, whoever puts jobs back:
\* new requests, repeated submits, tasks that saw an internal error (the
\* partial unique index, and what its refusal makes each of them do).
OneActiveJob ==
  \A i, j \in Created :
    /\ i # j /\ run[i].session = run[j].session
    /\ job[i].status \in {"QUEUED", "RUNNING"}
    => job[j].status \notin {"QUEUED", "RUNNING"}

\* A session is closed exactly when it has its submission, which was announced
\* once and was made from a SUBMIT run of that session with a stored result.
ClosedBySubmission ==
  \A s \in Session :
    LET j == submission[s] IN
    /\ sessionStatus[s] = "SUBMITTED" <=> j # NoJob
    /\ submissionCreated[s] = IF j = NoJob THEN 0 ELSE 1
    /\ j # NoJob => /\ j \in Created
                    /\ run[j].session = s /\ run[j].kind = "SUBMIT"
                    /\ snapshot[j] # Null

\* A job is reported COMPLETED only with a stored result, and a SUBMIT job only
\* after its session was closed by a submission: also when the claim took the
\* shortcut for a result that was already there.
CompletedHasResult ==
  \A j \in Created :
    job[j].status = "COMPLETED" =>
      /\ snapshot[j] # Null
      /\ run[j].kind = "SUBMIT" => submission[run[j].session] # NoJob

\* A stored result was announced to the event log, and an announced one stored.
ResultsReported ==
  \A j \in Job : snapshot[j] # Null <=> runCompleted[j] > 0

\* A lock name is on a row exactly while the row is RUNNING: a row put back or
\* settled is never left looking owned, and a RUNNING row always has an owner
\* whose lease will end.
LockedWhileRunning ==
  \A j \in Job : job[j].status = "RUNNING" <=> job[j].lockedBy # Null

\* The inductive invariant: the properties above together.
IInv ==
  /\ TypeOK /\ LocalStateOK /\ RowsPaired /\ AnsweredSubmitCloses /\ OneActiveJob
  /\ ClosedBySubmission /\ CompletedHasResult /\ ResultsReported /\ LockedWhileRunning

\* However often claims, retries, crashes and expired leases repeat a run, its
\* first stored result and the session's first submission stay as they are.
ResultsImmutable ==
  [][/\ \A j \in Job : snapshot[j] # Null => snapshot'[j] = snapshot[j]
     /\ \A s \in Session : submission[s] # NoJob => submission'[s] = submission[s]]_vars

\* Retries are bounded: a claim beyond the budget takes an exit of a process, a
\* lease that ended under a working task, or a repeated submit that came late.
RetryBudget ==
  \A j \in Created :
    job[j].attempts <= MaxAttempts + crashes + earlyExpiries + lateRepeats

\* Every lease outlived the work it was for, and no repeated submit put back a job
\* that another one had put back before.
Timely == earlyExpiries = 0 /\ lateRepeats = 0

\* Claims are exclusive: no two tasks have the same job in hand, and the one that
\* has it holds its lock.
ExclusiveWork ==
  /\ \A p, q \in Place :
       p # q /\ task[p].pc # "idle" /\ task[q].pc # "idle"
       => task[p].job # task[q].job
  /\ \A p \in Place :
       task[p].pc \notin {"idle", "claimed"} => Owns(p) /\ job[task[p].job].attempts = task[p].attempt

\* A run is announced as completed once.
CompletedOnce == \A j \in Job : runCompleted[j] <= 1

\* A student is told that a job FAILED only if no result of it was stored.
FailedHasNoResult ==
  \A j \in Created : job[j].status = "FAILED" => snapshot[j] = Null

\* As long as leases outlive the work they are for and repeated submits do not
\* overtake one another, also across process exits: nobody repeats the work of
\* another, announces it twice or reports a failure that was none.
TimelyWork == Timely => ExclusiveWork /\ CompletedOnce /\ FailedHasNoResult

\* As long as work is timely, a COMPLETED job is never put back into the queue.
CompletedIsFinal ==
  [][Timely' => \A j \in Job : job[j].status = "COMPLETED" => job'[j].status = "COMPLETED"]_vars

\* Every queued job is eventually answered: it completes or it fails.
JobsSettle ==
  \A j \in Job : job[j].status = "QUEUED" ~> job[j].status \in {"COMPLETED", "FAILED"}

\* The submission holds the source the student last asked to submit.
SubmittedAsAsked ==
  \A s \in Session : submission[s] # NoJob =>
    run[submission[s]].source = asked[submission[s]]
=============================================================================
