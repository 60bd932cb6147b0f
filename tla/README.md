# Specifications of the TRACE / Labrix practical-work platform

TLA+ modules, TLC configurations and TLAPS proofs kept beside the code of this
repository. The students of a classroom write programs in a browser workspace; a
Next.js web tier stores drafts, runs and submissions in PostgreSQL; a worker process
executes durable jobs at authenticated Java and C++ runner services (or the web
process executes them itself); teachers write practicals, manage rosters and grade.
The specifications follow a program from the editor to its grade, and the people
around it: who may see what, who is told what, and what happens when steps overlap,
fail or repeat.

Paths below are relative to `src/`. `service.ts` is
`backend/server/attempts/service.ts`, `worker` is
`backend/worker/execution-worker.ts`.

## 1. Inventory

| Component | State it keeps | Operations | What makes it correct | Module |
|---|---|---|---|---|
| **Durable execution queue** (`service.ts` 868-1236, `worker`) | `ExecutionJob`, `RunAttempt`, `ResultSnapshot`, `SubmissionAttempt`, `CodingSession.status`; the worker's running tasks | enqueue, repeat, claim under a lease, complete, re-queue, fail | one active job per session; results and submissions written once; a session closes with its submission; jobs are answered | `ExecutionQueue` |
| **Inline execution** (`service.ts` 513-858) | the same tables without `ExecutionJob` | run, submit, answer a repeated submit | repeated requests get the same submission, made from its own source | `InlineAttempts` |
| **Runner services** (`backend/runner/{java,cpp}`) | queue and counter of the HTTP server; set of containers | execute, time out, abort, clean up, shut down | bounded concurrency; every request answered; every container removed; verdicts are the program's | `RunnerServer`, `Sandbox` |
| **Concurrency queue, request guard, rate limiter** (`backend/server/{execution,security}`) | counters, lines with timers, map of sessions, time stamps in memory or a shared store | consume, execute, wait, time out, clean up | windows, slots, exclusion and cool-down hold | `ConcurrencyQueue`, `RequestGuard`, `RateLimiter`, `Admission` |
| **Providers, grading, results** (`backend/server/execution`, `service.ts` views, `frontend/features/workspace`) | none | choose a provider, check its answer, score, store, show | answers are about their request; hidden tests stay hidden; no simulated result in production | `Providers`, `Results` |
| **Sessions, authoring, reviews** (`service.ts` 200-320, `backend/server/{practicals,reviews}`) | numbered attempts; practical, tests, rubric; reviews and revisions | open, submit, save, publish, grade | work is judged by what it began with; numbered histories have no gaps | `PracticalLifecycle` |
| **Roster, joining, hints' permissions** (`backend/server/{classrooms,hints}`, `classroom-actions.ts`) | memberships and audit trail, join codes, policies, hint rows | join, rotate, end, restore, grant, ask | access ends as the trail says; locks take effect | `Classroom` |
| **Hints' contents and panel** (`backend/server/hints`, `student-hint-panel.tsx`, roster controls) | what the panel and switches hold | generate, guard, show, toggle | what is told is what was earned and no solution | `Hints` |
| **Onboarding and identity** (`backend/server/{onboarding,actors}`, webhook) | `User`, `ExternalIdentity` | onboard, link, follow events | one person per account; disabled stays disabled | `Identity`, `Visitors` |
| **Workspace client** (`persisted-workspace.tsx`) | editor, save state, offline mirror, polling, dialog | edit, autosave, run, submit, poll, reopen | an unsaved buffer is not shown as saved, nor lost while the browser can keep a copy; a busy page has something under way (two cases apart, section 7) | `Workspace` |
| **Overviews, progress, analytics** (`backend/server/{teacher,student}`, view models) | pages kept for 30 or 60 seconds | count, rank, summarise | pages read from the same rows tell the same; kept ones catch up | `Overviews` |
| **Evidence** (`backend/server/evidence`) | cache and rate limit of questions, audit log | compare, report, ask models, log | depends only on the pair compared; calls are accounted for, as far as the log can be written | `Evidence` |
| **Live lab pulse** (`domain/classrooms`, `server/teacher`) | none (reads) | classify students | says what happened, and recently | `LivePulse` |
| **Pages, routing, shell** (`frontend/app`) | the demo's role switch | redirect, show, fail | everyone arrives where they belong | `Visitors` |
| **Configuration and health** (`env-validator.ts`, `api/health`) | none | validate, report | valid and healthy mean that people sign in and programs run | `Deployment` |
| Design system, landing page, scripts, seed, an unused copy of the attempt service | | | | not modelled (section 8) |

How they interact: server actions of the pages call the services of `backend/server`
after resolving an actor; the services talk only through the database (shared rows,
unique indexes, serializable transactions); the worker claims rows the web tier
inserted and calls a provider over HTTP, which calls a runner service. Nothing else
is shared between processes. Inside a process the interleavings are those of
JavaScript promises and timers.

Hard behaviours: tasks and requests interleave at every `await`; transactions at
READ COMMITTED read rows that change before they write; leases end by the clock of
another machine; processes exit between a claim and its result; statements throw
after earlier ones took effect; people repeat requests; answers come late or never;
and a dozen pages compute the same numbers from the same rows, each in its own way.

`PROJECT.json` lists every component and, under "hazards", what is hard to test,
each at its line with the properties that cover it.

## 2. Modules

| Module | What it is |
|---|---|
| `ExecutionQueue` | the durable queue: requests, rows, workers, leases, crashes |
| `ExecutionContract`, `ExecutionRefinement` | what students are promised, without a queue; the mapping under which the queue implements it |
| `InlineAttempts`, `SubmissionContract` | run and submit in web processes with a guard; what is promised about repeated submits |
| `RunnerServer` | a runner service: its queue, its executions and their containers |
| `PracticalLifecycle` | one practical from its first draft to its reviews |
| `Classroom`, `Identity` | one classroom's access and hints; accounts and their identities |
| `RateLimiter`, `ConcurrencyQueue`, `RequestGuard` | what stands between a request and its execution in a web process |
| `Admission` | composes the three: how a request gets through |
| `Workspace` | the student's page against the server actions it calls |
| `Sandbox`, `Providers`, `Results`, `Overviews` | from a program to verdict, answer, stored result, and what the pages make of it |
| `Evidence`, `LivePulse`, `Hints`, `Visitors`, `Deployment` | further algorithms over rows, texts and configurations |
| `MCExecutionQueue`, `MCInlineAttempts`, `MCRunnerServer`, `MCPracticalLifecycle`, `MCAccess`, `MCAdmission`, `MCWorkspace` | small instances for TLC |
| `MCViews`, `MCAlgorithms` | the bounded inputs of the algorithms, one a state |
| `ExecutionQueueProofs`, `InlineAttemptsProofs`, `PracticalLifecycleProofs`, `RunnerServerProofs`, `AdmissionProofs`, `WorkspaceProofs` | theorems, checked by TLAPS, each about the module it is named after |
| `AlgorithmFacts` | what the theorems about the algorithms suppose of inputs, and the facts their proofs carry along |
| `AccessProofs`, `AlgorithmProofs` | theorems about `Classroom` and `Identity`, and about the algorithms of `MCAlgorithms` |

`ExecutionQueue` and `InlineAttempts` are alternatives (`LABRIX_EXECUTION_DISPATCH`);
both see a provider as a step that answers or fails: `Providers` says what it may
answer, `Sandbox` what a runner makes of a program, `RunnerServer` that every
request to one is answered. `PracticalLifecycle` takes `Submit` as one step; the
other two say how it is done. `Admission` leaves out what is stored, `InlineAttempts`
who waits for whom.

A definition with a suffix (`Claimable_AnyLease`) is a mistake the code could have
made in place of the definition it precedes; see section 5.

### ExecutionQueue

A statement or a transaction is one step; where a transaction reads something that
may change before it writes, it is two.

| State | Code |
|---|---|
| `sessionStatus`, `draft` | `CodingSession.status`, `Draft.sourceCode` |
| `access` | publication, membership and deadline, as `requireActiveStudentSession` reads them: `open`, `late`, `closed` |
| `run[j]` | `RunAttempt` and the never-updated columns of `ExecutionJob` |
| `job[j]` | `status`, `attemptCount`, `lockedBy`; `expired` stands for `lockedAt < staleBefore`, `backoff` for `availableAt > NOW()` |
| `snapshot[j]`, `submission[s]` | `ResultSnapshot`, `SubmissionAttempt` (the run it was made from) |
| `runCompleted`, `submissionCreated` | counts of the two events |
| `handler[h]`, `task[p]`, `nextSlot[w]` | a submit request between its lookup and its write; a `processOneJob` promise; `nextSlot` |
| `asked[j]`, `lateRepeats` | history: the source of the last submit request accepted as job j; repeated submits that put back a job another one had put back since they read it |

| Action | Code |
|---|---|
| `LookUpKey`, then `AdmitSubmission` or `ResubmitFailed` | `enqueueStudentExecution` for a SUBMIT: the lookup of the key is outside the transaction; a FAILED job is put back by an unconditional update |
| `EnqueueRun`, `SaveDraft` | the same function for a RUN; `saveStudentDraft` |
| `Claim`, `PollNothing`, `ReadClaimed` | `claimNextExecutionJob`: the UPDATE and the read of the row it returned are two statements |
| `CompleteStored`, `Execute`, `Requeue` | `processClaimedExecutionJob` up to its transaction |
| `CheckOwnership`, `Complete` | the completion transaction: nothing locks the row between the check of the lock and the last update |
| `Throw`, `RetryOrFail` | the `catch` of `processOneJob` |
| `Crash`, `LeaseExpires`, `LeaseExpiresEarly`, `BackoffElapses`, `AccessChanges` | the environment |

The admission transaction is one step although it is serializable only among
serializable transactions: everything that closes a session appends an event, and
`@@unique([codingSessionId, sequence])` (schema.prisma 354) makes one of two
concurrent appenders fail. The same index may make a completion fail: `Throw`.
A result is a model value; languages, `lastError` and the other events are left out.

### InlineAttempts

The sessions are the numbered attempts of one student at one practical.

| State | Code |
|---|---|
| `status`, `access` | as `sessionStatus` and `access` above |
| `run`, `stored`, `submission` | `RunAttempt`; those with a `ResultSnapshot`; `SubmissionAttempt`: key, source, run |
| `call[q]`, `guarded[w]` | a request between two of its awaits; the active entries of `executionRequestGuard` in a process |
| `replies[k]` | history: whose submissions answered requests with key k |

| Action | Code |
|---|---|
| `OpenWorkspace` | `getOrCreateStudentWorkspace` (its race is in `PracticalLifecycle`) |
| `BeginRun`, `BeginSubmit` | `runStudentDraft`, `submitStudentDraft` up to the guard |
| `LookUp` | `findIdempotentSubmission` before the run |
| `CheckSession`, `CreateRun` | first transaction of `executeStudentDraft`: reads and writes are two steps at READ COMMITTED |
| `StoreResult` | execution and the second transaction, which does not look at the session |
| `Submit`, `Recover` | the serializable transaction (a commit may be reported as a failure), and its `catch`: the submission of the key, else that of the session |
| `Throw`, `Crash`, `AccessChanges` | errors of any statement, process exits, teachers and deadlines |

`MCInlineAttempts` adds a history variable, `worked`: the processes that worked on a
session. What the process-local guard promises (`OneProcessSuffices`) is stated of
the sessions only one process ever saw; the run has two processes, the theorem any number.

### RunnerServer

Both runner services are the same program. A docker command is one step; what runs in
the callbacks of a settled promise happens before any other event, in the same step.

| State | Code |
|---|---|
| `stage[r]` | where the request is: in `queue`, in which await of `executeJavaInDocker`, ended |
| `queue`, `activeWorkers` | the variables of `createJavaRunnerServer` |
| `gone`, `answers[r]` | `controller.signal.aborted`; history: status codes written |
| `tracked`, `cleanup` | `activeContainers`; removals the shutdown has begun |
| `container[r]`, `late` | the Docker daemon: containers, and creations it has yet to do |

| Action | Code |
|---|---|
| `Arrive`, `TimeOut` | `enqueue`, with 503 when the queue is full; its timer, 504 |
| `ProcessNext` (part of `Arrive` and `Remove`) | `processNext`, skipping departed clients |
| `Disconnect` | `abortExecution` |
| `Create`, `Start`, `Work`, `Remove` (together `Command`) | the commands of `executeJavaInDocker`; `Work` is all `docker exec` |
| `Shutdown`, `CleanUp` | `shutdown`, `cleanupActiveJavaContainers` |
| `Kill`, `CreatedLate`, `LifetimeEnds` | abrupt end; the daemon; the container's `sleep` |

### PracticalLifecycle

Serializable transactions are one step. A transaction at READ COMMITTED is two.

| State | Code |
|---|---|
| `task` | `Task` with its tests (one value), criteria (their marks) and maximum |
| `members`, `session`, `opening` | active memberships; `CodingSession` of an attempt, with the tests it began with; page loads that found no active session |
| `review`, `revisions`, `reviewer` | `SubmissionReview`, its numbered revisions, review saves between awaits |
| `edits` | the time, as the number of saves |

| Action | Code |
|---|---|
| `SavePractical` | `saveTeacherPractical` with its schemas, locks and publication date |
| `FindNoSession`, `CreateSession` | `getOrCreateStudentWorkspace`: the lookup, and the serializable transaction that looks again |
| `Submit`, `MembershipChanges` | the other modules' steps |
| `BeginReview`, `WriteReview` | `saveSubmissionReview`: what it reads and checks; the upsert, scores and next version under the row's lock |

### Classroom and Identity (composed by MCAccess)

They share nothing but the ids of students, so TLC explores one and then the other
instead of interleavings that say nothing about either.

| Classroom | Code |
|---|---|
| `code`, `used`, `expiry`, `rules` | `Classroom.joinCode`, its expiry, flags |
| `member`, `audit` | `ClassMembership`, `MembershipAuditEntry` |
| `policy`, `permission`, `hints`, `request` | `ClassroomHintPolicy`, `StudentHintPermission`, levels of `HintInteraction`; server actions between awaits |
| `touched[q]` | history: which of the rows it works on others wrote while a request checked its permission or had its hint generated |
| `RegenerateJoinCode`, `RotateJoinCode`, `CodeExpires` | `regenerateClassroomJoinCode`, `rotateJoinCode`; the clock |
| `JoinFindsClassroom`, `JoinReadsMembership`, `JoinUpserts` | `joinClassroom` |
| `RosterReads`, `RosterWrites` | ending and restoring access in `roster.ts`, a READ COMMITTED transaction |
| `SetClassroomHintPolicy`, `GrantReads`, `GrantWrites` | `permissions.ts` |
| `HintAsked`, `HintReads`, `HintAllowed`, `HintCounts`, `HintStored` | `requestSocraticHintForSession`, await by await; permission and policy are two queries, answered in either order, between which a teacher may write one of the rows (`permissions.ts` 31-45) |
| `Fails` | any query of a request |

| Identity | Code |
|---|---|
| `account`, `identity` | `User`, `ExternalIdentity` |
| `profile`, `event`, `handling` | Clerk's side; webhook events, delivered late, repeatedly, in any order; what a handler has read |
| `OnboardRole`, `OnboardStudent` | serializable transactions: one step, or none. The profile at Clerk is read by an await before (role-onboarding-actions.ts 36, 45), here in the same step |
| `LinkReads`, `LinkCreates` | `linkExternalIdentity`, no transaction |
| `WebhookReads`, `WebhookWrites` | `api/webhooks/clerk/route.ts` |
| `ClerkDeletes`, `ClerkChangesEmail`, `HandlerEnds` | the provider; a request that fails |

### Admission (RateLimiter, ConcurrencyQueue, RequestGuard)

The three modules have their state and an operator per operation; `Admission` owns
the requests and makes actions of them.

| Action | Code |
|---|---|
| `Asks`, `IsAnswered`; `Arrives` | a shared store asked and answering (or failing); the memory store, which answers at once |
| `IsPrepared` | the first transaction, then `queue.run`: a slot, a place in line, or a refusal |
| `Executed`, `WaitedTooLong` | the provider is done and the first in line gets the slot; the timer of an entry |
| `Ends`, `Collects` | the guard's `finally`; its clean-up timer, late or a tick early |
| `Passing`, `Quiet` | the clock; every request answered |

`ConsumeUpstash` is a script that runs alone at the store, `ConsumeRedis` counts
refusals as well and falls back on the memory, whether or not it had counted.

### Workspace

| State | Code |
|---|---|
| `editor`, `persisted`, `saveState`, `timer`, `latest`, `template` | source and language, `lastPersisted`, the pill, the debounced autosave and its number, `latestSave`, `templateSwitchAllowed` |
| `busy`, `dialog`, `shown`, `polls`, `failures`, `closed` | which of `running` and `submitting` are set, the dialog of a submission and "Try again", `executionJob`, its polling, `statusPollFailures`, read-only |
| `online`, `mirror`, `storage`, `calls` | the connection; `localStorage` and whether it takes another write; server actions under way, in order |
| `draft`, `session`, `revised`, `jobs`, `own`, `dispatch` | the server: the last job of each kind, and whether the submission's has this page's key |
| `mishaps`, `faults`, `edits` | history and bounds: what went wrong so far |

| Action | Code |
|---|---|
| `Edit`, `ChangeLanguage` | handlers with the effects their render runs (autosave, mirror, poll) |
| `TimerFires`, `SaveKey`, `GoesOffline`, `GoesOnline`, `StorageFills` | the debounce; Ctrl+S; the two events; `setItem` throws from now on |
| `Asks`, `SubmitsNothing` | the buttons that open the dialog; the refusal of a blank source |
| `Starts`, `Polls` | `runCode`, and `submitCode`, which does not ask whether a run is under way; both drop the job shown and with it the poll under way; the status request of a queued job after its delay |
| `Handles`, `Refuses`, `IsLost`, `JobSettles` | the server: effect, refusal (also of a job beside an active one), failure, loss before or after the effect; the worker. A queued run or submission is stored first and its status read afterwards |
| `Answered` | what each call does with its answer |
| `Reopens` | the page loaded again: `reconcileDraftVersions`, which restores no blank source |

The constant `Blank` is the sources `trim()` leaves nothing of, `PollFailures` the failed
status requests the page gives up after: 3 in the code, 1 in the runs, any number in the proofs.

### The algorithms

`Sandbox` (both docker executors), `Providers` (selection, HTTP and hosted providers),
`Results` (grading, snapshots, student's and teacher's views, result panel),
`Overviews` (counts and lists of the overview, queue, progress and class pages), `Evidence`, `LivePulse`, `Hints`,
`Visitors` (current actor, every page's answer, sign-in, setup, shell) and
`Deployment` are operators without variables. `MCViews` and `MCAlgorithms` let the
variable `at` be one bounded input; an invariant says what holds of it.

Data is abstracted to what the algorithms tell apart: a program is what the compiler
and each test make of it with seconds and bytes; a source is a sequence of tokens; a
text is the set of features the leakage guard looks for; scores are in tenths, times in
minutes or hours; a visitor is a session with the provider, an account and a stored role.

In the sandbox anything may go wrong at any command: it fails, is late or is aborted, and
the container may end under a test. `Executed` answers as the code does (a compiler that
is late or fails for whatever reason is a compilation error, a failing `docker exec` of a test a
runtime error), and `Served` adds the runner service's bound on an answer (`boundedResponse`).
Judge0 is sent limits of its own (2 seconds of processor time, 128000 KB) and Wandbox has its own:
which tests they stop is an input.

The overview pages are functions of rows. Those of teachers and students and the
cards of classes are kept for 60 seconds, the roster and analytics of a class for 30
(`unstable_cache`), so two pages may show rows of different times: `ReadAt`, `KeptAfter` and
`Dropped` say of which. `OverviewsAgree` therefore has two parts: pages read from the
same rows agree, and a page that is kept catches up with its rows.

## 3. Runs

| Run | Instance | Shows |
|---|---|---|
| `queue_core` | 1 session, 2 worker processes of 1 slot, 2 handlers, `MaxAttempts` 2, 2 jobs, 2 repeated submits, 1 early lease end, 1 exit; requests about one source, drafts of two (`OneSource`) | `IInv` (the inductive invariant), `ResultsImmutable`; with timely leases `TimelyWork` and `CompletedIsFinal`; `RetryBudget` |
| `queue_liveness` | `FairSpec`; 1 session, 1 worker process of 2 slots, 1 handler, `MaxAttempts` 2, 2 jobs, access may close, 1 early lease end, 1 exit | `JobsSettle`; the queue implements `ExecutionContract` (`KeepsContract`) |
| `attempts` | 2 processes, 2 requests at a time, 2 sessions, 2 pages, 2 sources, 2 runs, 1 exit | `SubmissionMatchesRun`, `RepliesAgree`, `OneProcessSuffices`, `KeepsSubmissionContract` |
| `service` | `FairSpec`; 1 place, queue of 1, 3 requests, 1 late creation | `BooksExact`, `AnsweredOnce`, `ContainersTracked`, `NoWorkForTheGone`, `EveryoneAnswered` |
| `practical_work` | 1 student, 2 page loads, 2 reviewers, 2 lists of tests, maxima 1 and 2, 2 attempts, 3 saves, 2 revisions | `LifecycleInv`, `RecordsKept` |
| `access` | 1 student, 2 requests, 2 codes, 2 audit entries; 2 accounts, 2 identities, 3 addresses, 2 handlers | `AuditAgrees`, `JoinNeverRestores`, `HintsEarned`; `AccountsApart`, `AccountsKept` |
| `web_process` | 3 requests, 3 sessions, limit 1, window 2, retention 2, latency 1, clock to 2, capacities -1 and 1, line of 2, cool-down 2 | `WindowHeld`, `RetryHonest`, `SlotsExact`, `OnePerSession`, `CooldownHeld` |
| `page` | 3 sources (one of them blank), 2 languages, 2 edits, 2 calls at a time, 1 fault (a failed or lost call, a closed page, a lost connection, a full storage), giving up after 1 failed status request | `SettledIsSaved`, `SourceRecoverable`, `NeverStuck` |
| `algorithms` | 530,238 inputs | `VerdictsAreHonest`, `ResultsAreTrue` (`MarksAreEarned`, `ResultsAgree`), `OverviewsAgree`, `ChoicesAreSafe`, `EvidenceIsFair`, `HelpIsHonest`, `EveryoneArrives` |
| `exact_source`, `rubric`, `undo` | | the findings of section 7 |

Why the bounds are enough. *Queue*: two jobs of one session are what the partial index
and the one-submission rule are about, two workers what leases are about, two slots of one
process what shared lock names are about (`queue_liveness`: after an early end of a lease or
an exit both slots' tasks may compare equal in the fences), two attempts
tell a retry from the last try, two handlers and two repeats are a repeat that overtakes
another; no property relates three. No property of this run compares the sources of two
requests, hence one of them (`exact_source` has two). *Attempts*: two concurrent
requests, two processes, and a second session for the first one's late answers.
*Service*: three requests fill the place and the queue of one and have the third refused
(503); one that waits may time out (504) or be passed over because its client departed. *Practical*: a save before, between and after two attempts; two
reviewers whose reads precede each other's writes; criteria that do and do not add up.
*Access*: two audit entries are an end and a restoration; two requests overlap in
every way the awaits allow, which suffices for 1, 1, 3; three addresses let one identity change to another's.
*Web process*: three requests against limit 1 give one admitted, one waiting, one
overtaking; the clock passes the window and the cool-down once. *Page*: two edits are
one and its successor or the way back (`undo` has three); one fault at a time (a second one in
the same page load is like a page opened in its state); after one failed status request as
after three the page gives up. *Algorithms*: one and two elements of every
list the code loops over, every branch of every configuration.

The `page` run ends when its edits and faults are used up, the `service` run when every
request did, `access` when codes and entries are used up: those have deadlock checking
off. The others check it.

Conditions the properties state, because the code does not enforce them:
`TimelyWork` and `CompletedIsFinal` assume that no lease ends under a working task (the
lease is a configuration value) and that no repeated submit that saw FAILED writes after
another one put the job back; `RetryBudget` allows an attempt per exit, early end and late
repeat; `OneProcessSuffices` is about sessions one
process saw; `ContainersTracked` excepts a container per creation that took effect after
its CLI was killed; `WindowHeld` allows two calls to a shared store to overtake one
another, and twice the limit while Redis comes and goes; `RetryHonest` excepts Redis,
which renews the window for what it refuses; `HintsEarned` lets a request repeat a level when
another one stored a hint while its own was generated, and pass a lock that was written between
its two queries; `SettledIsSaved` excepts undone edits and failed or lost calls,
`SourceRecoverable` a storage that is full, undone edits, the save after a lost connection,
blank sources and starter codes, and `NeverStuck` lost calls, a submission started while a run is waited for
("dropped") and an answer with a job that is settled already ("settled"), which stay busy for
ever in the code; `JudgedByItself` (in `VerdictsAreHonest`) promises the exact verdict only of
an undisturbed execution, and of any other that nothing passes or completes that should
not; `ProvidersAgree` speaks of tests the hosts' own limits do not stop; `AiIsAccountable`
of writes to the audit log that succeed; `OfferIsKept` of requests that saw the hints of
those before them, and of the others that the panel is at most behind; `ClassToldAlike`,
`ProgressToldAlike` and the teacher's row in `StudentToldAlike` need that nobody who submitted
has lost access wherever a page counts everyone who submitted.

## 4. Fairness

`ExecutionQueue!FairSpec` assumes that a worker process keeps running (after the bounded
exits, it is started again): its loop polls (`ClaimStep`), every `await` of a task settles because
providers and transactions have timeouts (`TaskStep`), and clocks advance
(`LeaseExpires`, `BackoffElapses`). None on requests, throws, exits, early expiries or on
which answer a provider gives. A claim takes the oldest claimable row, so one fair
claim step per worker suffices.

`RunnerServer!FairSpec` assumes that docker commands end (each is killed after its timeout),
that the queue's timer fires and that a started container's `sleep` ends. None on arrivals,
departures, shutdown or kill.

The other specifications state safety only. `NeverStuck` is the safety form of the
page's progress: while it is busy, something that ends the wait is under way.

## 5. Mutants

Each of the 38 properties is checked against a plausible mistake written next to the
definition it replaces; `PROJECT.json` lists the pairs. Among them:

| Mistake | Breaks |
|---|---|
| `IndexAccepts_All`: no partial unique index | `IInv` |
| `Claimable_AnyLease`, `Claimable_QueuedOnly`: the lease is not compared; stale rows are not recovered | `TimelyWork`, `JobsSettle` |
| `Guards_RunsOnly`: submits are not guarded | `OneProcessSuffices` |
| `Recovered_AnySession`, `SubmittedRun_Latest` | `RepliesAgree`, `SubmissionMatchesRun` |
| `RubricChanged_Criteria`: a changed maximum is not a changed rubric | `LifecycleInv` |
| `Joined_Active`: joining again restores access | `JoinNeverRestores` |
| `Allows_Either`: the classroom's policy beats a student's own lock | `HintsEarned` |
| `IsLatest_Any`, `Rearmed_Never`: an older answer is not ignored; no further status request | `SourceRecoverable`, `NeverStuck` |
| `OutputLeft_Total`: a test may print what the total allows | `VerdictsAreHonest` |
| `Cached_Any`: a cached answer never expires | `EvidenceIsFair` |
| `Relinked_Kept`: the old identity keeps the account | `AccountsApart` |
| `Recent_Whole`, `Recent_Short`: off by one tick at the window's edge | `RetryHonest`, `WindowHeld` |
| `Changed_Source`: a change of the language alone is no change | `SettledIsSaved` |
| `Matches_Repeated`: a result may be given twice for one test | `ResultsAreTrue` |
| `PublicTestResults_NotHidden`: results without a visibility are shown | `ResultsAreTrue` |
| `Summarized_Everyone`: submissions of students who lost access are counted | `OverviewsAgree` |
| `PostSignInPage_Plain`: who has no account yet is not sent to set one up | `EveryoneArrives` |

## 6. Proofs

Theorems hold for every value of the constants that satisfies the assumption named in the
module (`ConstantsAssumption`, `InlineAssumption`, `LifecycleAssumption`, `RunnerAssumption`,
`LimiterAssumption`, `QueueAssumption`, `GuardAssumption`, `AdmissionAssumption`,
`ClassroomAssumption`, `IdentityAssumption`, `WorkspaceAssumption`, `ResultsAssumption`,
`ViewsAssumption`, `SchoolAssumption`, `VisitorsAssumption`, `EvidenceAssumption`). They say that null is none
of the values it stands beside, that bounds are natural numbers, limits and windows at least
one, and of the code's configuration only what the code makes sure of: the memory of the rate
limiter keeps times for at least a window, and an answer of a shared store is not older than
one. The bounds of the models are arbitrary numbers, so a theorem about them all is one
about executions of any length.

Every invariant below is stronger than the properties that follow from it, because these
are not inductive. `IInv` and `LifecycleInv` are invariants of runs as well.

**`ExecutionQueueProofs`** (any number of sessions, workers, slots, handlers, jobs, exits,
early ends, repeats): `Invariance` (`Spec => []IInv`), `TypeCorrectness`,
`OneActiveJobPerSession`, `SessionsClosedBySubmission`, `CompletedJobsHaveResults`,
`LocksMatchStatus`, `ResultsNeverChange`, `QueueKeepsContract`, `WorkIsTimely`,
`CompletedStaysCompleted`, `RetriesAreBounded`.

Every step has one of four effects on the database (`NothingWritten`, `JobCreated`,
`RowWritten`, `ResultStored`), and each conjunct of `IInv` is proved per effect instead
of per action. The properties are not inductive alone: `ClosedBySubmission` needs that a
submission names a created, answered run; `CompletedHasResult` needs that an answered
SUBMIT run left its session closed (`AnsweredSubmitCloses`), because a reclaimed job
takes the shortcut for stored results; and the shortcut needs what the task remembers to
be still true (`LocalStateOK`), which holds because rows and results only grow. A pair
of theorems per effect then gives the refinement: `JobCreated` is a request,
`ResultStored` an answer, the other two stutter.

While work is timely (`TimelyInv`), a task that has a job in hand finds its row RUNNING, under
its lock and with its attempt, and a stored result means COMPLETED; so nothing can claim
the row, and the unconditional updates of the code write what a conditional one would.
For `RetriesAreBounded` nothing of that is left: a task whose lease was lost may still put its
job back. `RetryInv` counts them. A job has at most one more task than there were delays
(exits, early ends, late repeats), and from `MaxAttempts` on its attempts, the tasks that may
put it back and a claim that is possible already fit into `MaxAttempts` and the delays.

**`InlineAttemptsProofs`** (any number of processes, requests, attempts, pages, runs,
exits): `SubmissionsMatchRuns`, `RepeatedRequestsAgree`, `GuardIsExact`,
`SubmissionsNeverChange`, `InlineKeepsContract`, `OneProcessIsEnough`.

The strengthening is `CallOK`, what a request remembers between its awaits: one about to
submit remembers a run of its own session and source that has its result, which stays
true whatever others do because every action satisfies `Grows`. So
`SubmissionMatchesRun` is preserved although the transaction that creates the
submission does not read the source again, and it makes whatever is found under a key
the submission of the key's own session (`KeyedIsOwn`), which `RepliesAgree` and the
refinement need. `OneProcessIsEnough` is where the guard is needed: of a session that one
process did all the work of, at most one request is under way (`OneAtATime`), so one that
found the session open still finds it open when it writes (`Solo`).

**`PracticalLifecycleProofs`** (any number of students, page loads, reviewers, attempts, saves,
revisions, any rubrics and maxima): `Invariance` (`Spec => []LifecycleInv`),
`StudentWorkIsProtected`, `AttemptsStayInOrder`, `ReviewsAlwaysFit`,
`ReviewsAreRecorded`, `RecordsAreKept`.

Saves, sessions and reviews are three kinds of transactions that never look at one
another's locks; they meet in one fact: a review needs a submission, hence student
activity, after which a save leaves tests, criteria and maximum alone
(`GradesStillFit`). So what a reviewer checked before an await still fits when it is
written (`ReviewersOK`), and one lemma per action shows that the invariant is preserved.

**`RunnerServerProofs`** (any number of requests, workers, places, late creations):
`BooksAreExact`, `AnswersAreTrue`, `ContainersAreTracked`, `NothingForTheGone`.

Three invariants, one for each thing the server keeps. `Books`: the counter is the number of
requests in execution, the queue the waiting ones, and it is empty unless all workers work.
`Answers`: who has an answer is done, and Docker never heard of who was refused.
`Containers`: every request in execution is tracked, and the containers nobody knows are
at most those that late creations made. `processNext` runs inside three handlers;
what it does to queue, counter and stages is one lemma (`ProcessNextFacts`).

**`AdmissionProofs`** (any number of requests, sessions, slots; any limit, window, retention,
latency, cool-down): `SlotsAreExact`, `OneRequestPerSession`, `WindowsHold`, `RunsAreApart`,
`RefusalsAreHonest`.

`Line`, `Places` and `Guarded` say that counter, line, guard and requests agree on who is
where; `Cool`, that the guard knows the last run of a session until the cool-down is over,
although its timer may be a tick early; `Stamped`, that a shared store answers within its
latency. `Limiter` is about one key at a time: its grants are split into those counted by
the memory and those counted by the shared store, and of each kind, those from any grant on
that may share a window with a later one are at most `Limit` and at most the times the store
still has for them (`Counted`). With one store that is the limit, with a Redis that comes
and goes twice the limit.

**`AccessProofs`** (any number of students, requests, codes, accounts, subjects, addresses,
handlers): `TrailAgrees`, `AccessIsGivenBack`, `HintsAreEarned`; `AccountsStayApart`,
`AccountsStay`.

Of a classroom, the invariant adds to types and `AuditAgrees` what requests remember of their
reads (`ReadsHold`): what one read of the permission or the policy is still so unless that
row was touched since, and a level counted before an await is the next one unless another hint
was stored since, and lower otherwise: rows of hints are only added. Of the
accounts: a subject's account is there and is no other subject's (`Mapped`), addresses differ
(`Addressed`), and the account a handler found before an await is still there (`Found`),
because accounts are disabled, not deleted.

**`WorkspaceProofs`** (any sources, languages, starter codes, number of edits, calls and
faults): `PageSettlesSaved`, `TypedIsRecoverable`, `BusyForSomething`.

The three properties are about a page at rest; the invariant is about what is under
way. Calls carry the version and number the page had when it made them (`Sent`); an answer that
has not arrived yet still tells the truth (`Told`), since calls are handled one at a time.
Unless a call was lost or refused or an edit undone, the editor's version is stored or some
call will store it, and no later call stores another one (`Carried`): of each such call,
what happens when it is handled, answered or overtaken. `Recoverable` says that the local copy
is the editor's, or that the server has the editor's source and every call under way carries
it. `Waiting`: each of running and submitting that is set has its own call under way, or a
request for the status is armed or under way and not cancelled, unless what happened is excused.

**`AlgorithmProofs`** (inputs of any size, as `AlgorithmFacts` describes them). For each part a theorem about any input and, from
it, the invariant of the `algorithms` run, whose cases are among those inputs (one lemma per
case shows it, so no theorem is about an empty set of inputs):

| Part | For any input | The run's invariant |
|---|---|---|
| Programs | `VerdictsAlwaysHonest` | `VerdictsHeld` (`VerdictsAreHonest`) |
| Answers, scores, views of a result | `AnswerAboutRequest`, `NumbersAlwaysFit`, `ScoreHonest`, `ResultsAreShownTruly` | `ResultsHeld` (`ResultsAreTrue`) |
| Choices, deployment | `DeploymentHonest` | `ChoicesHeld` (`ChoicesAreSafe`) |
| Evidence | `CopySeenAlways`, `RenamingHidesNothing`, `ReportAgreesAlways`, `ProcessAgreesAlways`, `AiAccountable` | `EvidenceHeld` (`EvidenceIsFair`) |
| Pulse, hints, roster | `PulseHonest`, `OfferKept`, `RosterHonest` | `HelpHeld` (`HelpIsHonest`) |
| What the pages tell | `ClassAlwaysToldAlike`, `QueueAlwaysToldAlike`, `ProgressAlwaysToldAlike`, `StudentAlwaysToldAlike` | `OverviewsHeld` (`OverviewsAgree`) |
| Visitors | `ArrivesAlways` | `ArrivalsHeld` (`EveryoneArrives`) |

A case never changes, so an invariant holds because it holds of each input. Each theorem names
what it needs of the input: rows of the pulse are not from the future; the level of a hint is at
most its number (`InOrder`, which every request keeps, overlapping ones included: `StoredFacts`); a switch is on or off; the tests of a request have ids of their own
(`AsksForTests`); a program and its limits are made of numbers (`Runs`, `AreLimits`); a
school (`IsSchool`, `IsClass`) has classrooms and practicals with ids of their own, attempts of
a student have numbers of their own, and no two attempts were submitted at one time, which the
queue is sorted by.
`ScoreHonest` is about fewer than 200 tests, because from 200 on rounding would show
0 or 100 too early (every provider takes at most 100). `AnswerAboutRequest` leaves the runner service
free to answer anything: that a completed answer has a result for each test follows from
counting, as many results as tests, no id twice and each one asked for (`EachAnswered`).
Of the constant `None`, the theorems use that it is none of the values it stands beside.

Four arguments are worth knowing.

- *Verdicts.* What the loop over the tests computes is a recursive function. That it satisfies
  its equation (`CourseFacts`, `TotalsFacts`) and what holds after each test (`StepByStep`) are
  proved by way of a least counterexample, which needs no induction theorem. The loop
  invariants are `Told`, what is true whatever goes wrong in the sandbox, from which the provider
  passes every answer on and nothing is passed that the program does not do, and `Clean`: a run
  that goes on has spent and returned exactly what its tests take together, and one that ended
  undisturbed did so at the first test that is not got through. `PassesOrStops` is where the container's life is needed:
  a limit is noticed exactly when the tests reach it. The Java and the C++ sandbox go
  through the same tests because then neither notices the end of its container (`SameTest`).
- *Filtered lists.* `Kept` selects the elements of a sequence at a set of places by their rank;
  ranks are a bijection (`Ranks`), so nothing is lost, repeated or out of order (`KeptWhole`).
  A count over results is then one over places.
- *Copies.* The fingerprints of a program are the hashes of its windows of canonical tokens,
  in which identifiers are numbered over the whole program. Renaming them apart leaves the
  canonical tokens as they are (`RenamingHidesNothing`), so a renamed copy of a whole program
  has its fingerprints (`CopySeenAlways`). Of a passage copied into another program this says
  nothing: there the same identifiers may have other numbers. The cache of answers keeps what was answered
  for a piece of work under that work alone, whatever was asked before (`AiAccountable`).

- *Pages.* Two pages agree when they count or list the same set. `Arranged` puts a set in
  order by a relation and is defined by rank, like `Kept`: for a strict total order ranks are a
  bijection (`ArrangedFacts`), so a sorted list has every row once, and two lists sorted alike
  have the same first element. A joined list (`ConcatFacts`) has each practical of the
  student's classes once, because ids differ; a student's rows are then in bijection with the
  published practicals the teacher's page counts (`SameCount`), and a count over a list is one
  over a set. What the pages of a student make of one list is `ToldFacts`; that the class page,
  the progress page and the teacher's row start from the same practicals and the same latest
  attempts is `ClassWorkFacts` and `RowOfStudent`. All of this is about pages read from the same
  rows; that a kept page catches up with them is `CatchesUp`.

Every invariant and action property of the passing runs is thus the subject of a theorem. Only
model-checked is liveness (`JobsSettle`, `EveryoneAnswered`), which is out of the prover's
reach like ENABLED.

## 7. Findings

1. `exact_source`: a submit repeated after its job FAILED re-queues the *old* source
   (`service.ts` 879-892), while the dialog promises the code in the editor.
2. `rubric`: "Save changes" of a published practical goes through the draft's schema, so
   that it stays published with criteria that do not add up to its marks.
3. `undo`: undoing an edit while its autosave is under way leaves "All changes saved"
   over another version than the stored one.

`PROJECT.json` has the quotations.

### Observations without a run

Met while modelling; the models contain them, no run is about them.

*Queue and attempts.* Attempts exceed the budget after exits and ended leases. Two repeated
submits of a FAILED job that overlap put it back twice, with fresh attempts, also while a
worker has it or after it completed (`service.ts` 879-892). A COMPLETED
submit job may not be the session's submission when two pages submit. Two tasks of one
process may hold the same lock name (`execution-worker.ts` 64), which the fences cannot tell apart. With two web
processes a run may be recorded in a session the other just closed
(documentation/04-ARCHITECTURE.md 84 says the guard is process-local). A negative
`LABRIX_MAX_CONCURRENT_RUNNERS` lets nothing start. The Redis store counts refusals.

*Runners and providers.* A runner process that ends between `docker create` and
`docker start` leaves a container behind (documentation/09-JAVA-RUNNER-SPIKE.md 94 says
abrupt loss is covered). The life of a container is shorter than the longest
compilation and the longest run together. The time-limit text says 2000 ms, the limit is 5000.
The error text of a hidden test is shown to the student. A Java program is blamed for what the sandbox does: the container lives 15 seconds, as long as a
compilation may take, and its end under a test, or a failing `docker exec`, is told as a runtime
error, a compiler that could not be started as a compilation error (docker-executor.ts 301-322,
372-401). Judge0's and Wandbox's own limits fail programs that complete in the sandboxes.
Wandbox reports a
silent crash as an internal error and a timeout as a runtime error; Judge0 and
Wandbox complete without compiling when there are no tests. In the `java-http` and
`cpp-http` modes the language of the task is not looked at.

*Page.* A submission started from the open dialog or from "Try again" while a run is waited for
drops the run's status request and is refused beside the active job; then only `submitting` is
reset (persisted-workspace.tsx 305-340), and the page says "Running tests" until it is loaded
again. So it does when the answer to a run or a submission brings a job that is settled already,
which no status request follows. A local copy that could not be written (full or forbidden storage)
is lost without a word, and a blank source is not restored.
`statusPollFailures` is not reset by a new run; the local mirror does not restore
the language; `handleSave` of the practical form has no `catch`; a criterion of 0 marks is
"ready" in the form and refused by the server.

*Access.* Onboarding relinks an account by its e-mail address
(documentation/04-ARCHITECTURE.md 38, 07-DECISIONS.md 57 speak of explicit links);
`PENDING_TEACHER_APPROVAL` is never set. With `LABRIX_IDENTITY_MODE` unset the proxy
uses Clerk and the server the demo. In the demo, on pages without the role preview, the
shell shows the actor's role while links open the stored role's content.

*Hints.* Two requests at once repeat a level and the next one skips one: 1, 1, 3. After 1, 1 the
panel offers level 2 and the server stores 3; after 1, 2, 2 it offers 3 and the server refuses
(hints/service.ts 75 and 119 say strict progression). A lock written between the two queries of
the check may be passed. Stored results have no
position, so the failed visible tests of a hint are never any. The first line of g++'s messages
names `int main()`, which the leakage guard takes for boilerplate: the level-2 hint of
most compilation errors is refused although the panel offers it. A title with the syntax of a
statement blocks level 1. The panel's load has no `catch`.

*Results.* Of results stored before visibilities were, a student sees whether a test that is hidden
now was passed and what the program printed (`service.ts` 501-503), not its input or
expected output.

*Overviews.* The teacher's overview and the analytics of the roster count submitters whose access ended
(completion over 100 %, negative outstanding work; teacher/overview.ts 166, 186, 299) while
`practical-completion.ts` 7-10 and documentation/02-MVP.md 23 count active students. Pages kept for 30 or 60 seconds
show older rows than others after what the worker, a webhook or an autosave changed, which drop
no cache, however long ago they were last visited; "due today" lasts up to 24 hours past the
deadline; tab counts of the submissions page ignore filters that its links keep.

*Evidence and pulse.* Similarity depends on the order of the two programs when parts repeat;
programs shorter than four tokens never match. The panel calls 45 % and more "Moderate", the
audit list every unflagged pair, so a pair of 40 to 44 % may be low on one and moderate on the
other. The audit entry is written after the models answered and a failed write is only logged
(ai-audit.ts 42-49): a program may have been sent with no entry. A submission's own run counts as a run, so "unverified
submission" never shows. The cache of questions is keyed by source, language and title: a
second student with the same source gets questions grounded in the first one's process. When
models fail the log names the deterministic engine alone although the source was sent. The
pulse looks only at the latest active one of three sessions, and takes a provider's internal
errors for the student's failures.

*Configuration.* The validator checks neither HTTPS nor loopback of the runners, which the
selection then refuses. In development with Judge0 and queued dispatch the details page says healthy
without a worker while the health page does not; the details page requires workers even for inline
dispatch.

## 8. Not modelled, and why

- `src/server/attempts/service.ts`: an earlier copy of the attempt service that neither the
  application nor the worker imports.
- Design system, landing page, themes, layout, wording: no state to be right about.
- `scripts`, `deployment`, `prisma/seed.ts`: tooling run by hand around the program.
- Loggers, release names, and warnings of the validator: nothing depends on them.
- Parsing, byte limits and authorization headers of the runner services: a request fits or is
  refused before it has any effect.
- Creating, renaming and archiving classrooms: single statements of one owner; the models
  take their flags in every combination.
- The regular expressions over program texts (evidence, hints): the models take the features
  they look for, so what they match is not examined.
- Texts, dates and row orders no property is about.

## 9. Running

    tlc -workers 2 -config ExecutionQueue_core.cfg MCExecutionQueue
    tlapm ExecutionQueueProofs.tla

A run's module is the one `PROJECT.json` names for its configuration. Each ends within five
minutes on two workers.
