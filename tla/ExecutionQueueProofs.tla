------------------------ MODULE ExecutionQueueProofs ------------------------
(***************************************************************************)
(* Theorems about ExecutionQueue, for any number of sessions, workers,     *)
(* slots, handlers, jobs and exits.                                        *)
(*                                                                         *)
(* A step writes the database in one of four ways, and IInv is preserved   *)
(* by each of them; that they are steps of the contract gives the          *)
(* refinement.  Two more invariants are about time: what holds as long as  *)
(* no lease ends under its task (TimelyInv), and how often a job is        *)
(* claimed when some do (RetryInv).                                        *)
(***************************************************************************)
EXTENDS ExecutionRefinement, FiniteSetTheorems, TLAPS

USE DEF HasResult, MayRetry, StoredResult, Submits, IndexAccepts

-----------------------------------------------------------------------------
(* What the row operators write. *)

LEMMA NewRowFields ==
  /\ NewRow \in Row
  /\ NewRow.status = "QUEUED" /\ NewRow.lockedBy = Null
  BY DEF NewRow, NoRow, Row

LEMMA ClaimedRowFields ==
  ASSUME NEW row \in Row, NEW name \in Name
  PROVE  /\ ClaimedRow(row, name) \in Row
         /\ ClaimedRow(row, name).status = "RUNNING"
         /\ ClaimedRow(row, name).lockedBy = name
<1>1. row.attempts \in Nat /\ row.attempts + 1 \in Nat
  BY DEF Row
<1>2. QED
  BY <1>1, ZenonT(30) DEF ClaimedRow, Row

LEMMA RequeuedRowFields ==
  ASSUME NEW row \in Row
  PROVE  /\ RequeuedRow(row) \in Row
         /\ RequeuedRow(row).status = "QUEUED"
         /\ RequeuedRow(row).lockedBy = Null
  BY DEF RequeuedRow, Row

LEMMA SettledRowFields ==
  ASSUME NEW row \in Row, NEW status \in {"COMPLETED", "FAILED"}
  PROVE  /\ SettledRow(row, status) \in Row
         /\ SettledRow(row, status).status = status
         /\ SettledRow(row, status).lockedBy = Null
  BY DEF SettledRow, Row

LEMMA SlotAfterType ==
  ASSUME TypeOK, NEW w \in Worker
  PROVE  SlotAfter(w) \in Slot
  BY ConstantsAssumption DEF SlotAfter, TypeOK, Slot

LEMMA InitTypeOK == Init => TypeOK
  BY ConstantsAssumption DEF Init, TypeOK, Row, Task, Request, NoRow, IdleHandler,
         IdleTask, NoJob

-----------------------------------------------------------------------------
(* Type correctness, one action at a time. *)

LEMMA IdleTypes == IdleTask \in Task /\ IdleHandler \in Request
  BY DEF IdleTask, IdleHandler, Task, Request

LEMMA EnqueueTypes ==
  ASSUME TypeOK, NEW r \in Run, Enqueue(r), handler' \in [Handler -> Request]
  PROVE  TypeOK'
<1>1. PICK j \in Job : Enqueue(r)!(j)
  BY DEF Enqueue
<1>2. r.session \in Session /\ r.source \in Source
  BY DEF Run
<1>. QED
  BY <1>1, <1>2, NewRowFields DEF TypeOK, session_vars, result_vars, bound_vars

LEMMA StudentTypes ==
  ASSUME IInv, StudentStep
  PROVE  TypeOK'
<1> USE DEF session_vars, result_vars, bound_vars
<1>. TypeOK /\ LocalStateOK
  BY DEF IInv
<1>1. ASSUME NEW s \in Session, NEW a \in AccessState, AccessChanges(s, a)
      PROVE  TypeOK'
  BY <1>1, ConstantsAssumption DEF AccessChanges, TypeOK
<1>2. ASSUME NEW s \in Session, NEW src \in Source, SaveDraft(s, src)
      PROVE  TypeOK'
  BY <1>2 DEF SaveDraft, TypeOK
<1>3. ASSUME NEW s \in Session, NEW src \in Source, EnqueueRun(s, src)
      PROVE  TypeOK'
  <2>1. [session |-> s, kind |-> "RUN", key |-> Null, source |-> src] \in Run
    BY DEF Run
  <2>2. handler' \in [Handler -> Request]
    BY <1>3 DEF EnqueueRun, TypeOK
  <2>. QED
    BY <1>3, <2>1, <2>2, EnqueueTypes DEF EnqueueRun
<1>4. ASSUME NEW h \in Handler, NEW key \in Key, NEW src \in Source,
             LookUpKey(h, key, src)
      PROVE  TypeOK'
  <2>1. handler' \in [Handler -> Request] /\ resubmits' \in Nat
    <3>1. \A pc \in {"admit", "resubmit"}, j \in Job \cup {NoJob} :
            [pc |-> pc, key |-> key, source |-> src, job |-> j] \in Request
      BY DEF Request
    <3>2. Created \subseteq Job /\ NoJob \in Job \cup {NoJob}
      BY DEF Created
    <3>. QED
      BY <1>4, <3>1, <3>2 DEF LookUpKey, TypeOK
  <2>. QED
    BY <1>4, <2>1 DEF LookUpKey, TypeOK
<1>5. ASSUME NEW h \in Handler, AdmitSubmission(h)
      PROVE  TypeOK'
  <2>1. handler' \in [Handler -> Request]
    BY <1>5, IdleTypes DEF AdmitSubmission, TypeOK
  <2>2. handler[h].key \in Key /\ handler[h].source \in Source
    BY <1>5 DEF AdmitSubmission, LocalStateOK, TypeOK, Request
  <2>3. [session |-> handler[h].key[1], kind |-> "SUBMIT", key |-> handler[h].key,
         source |-> handler[h].source] \in Run
    BY <2>2 DEF Run, Key
  <2>4. CASE CanAdmit(handler[h].key)
    BY <1>5, <2>1, <2>3, <2>4, EnqueueTypes DEF AdmitSubmission
  <2>5. CASE ~CanAdmit(handler[h].key)
    BY <1>5, <2>1, <2>5 DEF AdmitSubmission, TypeOK
  <2>. QED
    BY <2>4, <2>5
<1>6. ASSUME NEW h \in Handler, ResubmitFailed(h)
      PROVE  TypeOK'
  <2>1. handler' \in [Handler -> Request]
    BY <1>6, IdleTypes DEF ResubmitFailed, TypeOK
  <2>2. handler[h].source \in Source \cup {Null}
    BY DEF TypeOK, Request
  <2>. QED
    BY <1>6, <2>1, <2>2, NewRowFields DEF ResubmitFailed, TypeOK
<1>. QED
  BY <1>1, <1>2, <1>3, <1>4, <1>5, <1>6 DEF StudentStep

LEMMA TaskTypes ==
  ASSUME IInv, NEW p \in Place, TaskStep(p) \/ Throw(p)
  PROVE  TypeOK'
<1> USE DEF session_vars, result_vars, bound_vars
<1>. TypeOK /\ LocalStateOK /\ RowsPaired
  BY DEF IInv
<1>1. /\ task[p] \in Task
      /\ EndTask(p) => task' \in [Place -> Task]
  BY IdleTypes DEF EndTask, TypeOK
<1>2. task[p].pc # "idle" => task[p].job \in Job /\ job[task[p].job] \in Row
  BY DEF LocalStateOK, Created, TypeOK
<1>3. CASE ReadClaimed(p)
  <2>1. [pc |-> "read", job |-> task[p].job, name |-> job[task[p].job].lockedBy,
         attempt |-> job[task[p].job].attempts,
         seen |-> snapshot[task[p].job] # Null, result |-> Null] \in Task
    BY <1>2, <1>3 DEF ReadClaimed, Task, Row
  <2>. QED
    BY <1>3, <2>1 DEF ReadClaimed, TypeOK
<1>4. CASE CompleteStored(p)
  BY <1>1, <1>2, <1>4, SettledRowFields DEF CompleteStored, TypeOK
<1>5. ASSUME NEW answer \in Result \cup {InternalError}, Execute(p, answer)
      PROVE  TypeOK'
  <2>1. task' \in [Place -> Task]
    BY <1>5 DEF Execute, TypeOK, Task
  <2>. QED
    BY <1>5, <2>1 DEF Execute, TypeOK
<1>6. CASE Requeue(p)
  <2>1. task' \in [Place -> Task]
    BY <1>1, <1>6 DEF Requeue, TypeOK, Task
  <2>2. job' \in [Job -> Row]
    BY <1>2, <1>6, RequeuedRowFields DEF Requeue, TypeOK
  <2>. QED
    BY <1>6, <2>1, <2>2 DEF Requeue, TypeOK
<1>7. CASE CheckOwnership(p)
  <2>1. task' \in [Place -> Task]
    BY <1>1, <1>7 DEF CheckOwnership, TypeOK, Task
  <2>. QED
    BY <1>7, <2>1 DEF CheckOwnership, TypeOK
<1>8. CASE Complete(p)
  <2>1. task[p].job \in Job /\ run[task[p].job] \in Run
    BY <1>8 DEF Complete, LocalStateOK, RowsPaired, Created, TypeOK
  <2>2. run[task[p].job].session \in Session
    BY <2>1 DEF Run
  <2>3. snapshot' \in [Job -> Result \cup {InternalError, Null}]
    BY <1>8 DEF Complete, TypeOK, Task
  <2>4. runCompleted' \in [Job -> Nat]
    <3>1. runCompleted[task[p].job] + 1 \in Nat
      BY <2>1 DEF TypeOK
    <3>. QED
      BY <1>8, <3>1 DEF Complete, TypeOK
  <2>5. /\ submission' \in [Session -> Job \cup {NoJob}]
        /\ sessionStatus' \in [Session -> {"ACTIVE", "SUBMITTED"}]
        /\ submissionCreated' \in [Session -> Nat]
    BY <1>8, <2>1, <2>2 DEF Complete, TypeOK
  <2>6. job' \in [Job -> Row] /\ task' \in [Place -> Task]
    BY <1>1, <1>2, <1>8, SettledRowFields DEF Complete, TypeOK
  <2>. QED
    BY <1>8, <2>3, <2>4, <2>5, <2>6 DEF Complete, TypeOK
<1>9. CASE RetryOrFail(p)
  <2>1. job' \in [Job -> Row]
    BY <1>2, <1>9, RequeuedRowFields, SettledRowFields DEF RetryOrFail, TypeOK
  <2>. QED
    BY <1>1, <1>9, <2>1 DEF RetryOrFail, TypeOK
<1>10. CASE Throw(p)
  <2>1. [task[p] EXCEPT !.pc = "failing"] \in Task
    BY <1>1 DEF Task
  <2>2. task' = [task EXCEPT ![p] = [task[p] EXCEPT !.pc = "failing"]]
    BY <1>10 DEF Throw
  <2>3. task' \in [Place -> Task]
    BY <2>1, <2>2 DEF TypeOK
  <2>. QED
    BY <1>10, <2>3 DEF Throw, TypeOK
<1>. QED
  BY <1>3, <1>4, <1>5, <1>6, <1>7, <1>8, <1>9, <1>10 DEF TaskStep

LEMMA ClaimTypes ==
  ASSUME TypeOK, NEW w \in Worker, NEW n \in Slot, NEW j \in Job, Claim(w, n, j)
  PROVE  TypeOK'
<1>1. SlotAfter(w) \in Slot /\ SlotAfter(w) \in 0 .. Concurrency
  BY SlotAfterType DEF Slot
<1>2. <<w, SlotAfter(w)>> \in Name
  BY <1>1 DEF Name
<1>3. job' \in [Job -> Row]
  BY <1>2, ClaimedRowFields DEF Claim, TypeOK
<1>4. [IdleTask EXCEPT !.pc = "claimed", !.job = j] \in Task
  BY DEF IdleTask, Task
<1>. QED
  BY <1>1, <1>3, <1>4 DEF Claim, TypeOK, session_vars, result_vars, bound_vars

LEMMA IdleWorkerTypes ==
  ASSUME TypeOK, NEW w \in Worker, Crash(w) \/ \E n \in Slot : PollNothing(w, n)
  PROVE  TypeOK'
<1> USE DEF session_vars, result_vars, bound_vars
<1>1. SlotAfter(w) \in 0 .. Concurrency /\ 0 \in 0 .. Concurrency
  BY SlotAfterType, ConstantsAssumption DEF Slot
<1>2. CASE Crash(w)
  BY <1>1, <1>2, IdleTypes DEF Crash, TypeOK
<1>3. ASSUME NEW n \in Slot, PollNothing(w, n)
      PROVE  TypeOK'
  BY <1>1, <1>3 DEF PollNothing, TypeOK
<1>. QED
  BY <1>2, <1>3

LEMMA TimeTypes ==
  ASSUME TypeOK, TimeStep
  PROVE  TypeOK'
<1> USE DEF session_vars, result_vars, bound_vars
<1>1. ASSUME NEW j \in Job,
             LeaseExpires(j) \/ LeaseExpiresEarly(j) \/ BackoffElapses(j)
      PROVE  TypeOK'
  <2>1. /\ [job[j] EXCEPT !.expired = TRUE] \in Row
        /\ [job[j] EXCEPT !.backoff = FALSE] \in Row
    BY DEF TypeOK, Row
  <2>2. job' \in [Job -> Row]
    BY <1>1, <2>1 DEF LeaseExpires, LeaseExpiresEarly, BackoffElapses, Expire, TypeOK
  <2>. QED
    BY <1>1, <2>2 DEF LeaseExpires, LeaseExpiresEarly, BackoffElapses, TypeOK
<1>. QED
  BY <1>1 DEF TimeStep

-----------------------------------------------------------------------------
(* What a step does to the database.  Of the invariants, all but type         *)
(* correctness and LocalStateOK speak about the database only.                *)

NothingWritten == UNCHANGED <<sessionStatus, run, job, result_vars>>

JobCreated(j, r) ==
  /\ NextJob(j) /\ sessionStatus[r.session] = "ACTIVE" /\ ActiveJobs(r.session) = {}
  /\ run' = [run EXCEPT ![j] = r]
  /\ job' = [job EXCEPT ![j] = NewRow]
  /\ UNCHANGED <<sessionStatus, result_vars>>

RowWritten(j, row) ==
  /\ row.status # "none"
  /\ row.status = "RUNNING" <=> row.lockedBy # Null
  /\ row.status \in {"QUEUED", "RUNNING"} => ActiveJobs(run[j].session) \subseteq {j}
  /\ row.status = "COMPLETED" => snapshot[j] # Null
  /\ job' = [job EXCEPT ![j] = row]
  /\ UNCHANGED <<sessionStatus, run, result_vars>>

ResultStored(j, a) ==
  LET s == run[j].session IN
  /\ snapshot' = [snapshot EXCEPT ![j] = StoredResult(j, a)]
  /\ runCompleted' = [runCompleted EXCEPT ![j] = @ + 1]
  /\ IF Submits(j)
     THEN /\ submission' = [submission EXCEPT ![s] = j]
          /\ sessionStatus' = [sessionStatus EXCEPT ![s] = "SUBMITTED"]
          /\ submissionCreated' = [submissionCreated EXCEPT ![s] = @ + 1]
     ELSE UNCHANGED <<submission, sessionStatus, submissionCreated>>
  /\ job' = [job EXCEPT ![j] = SettledRow(job[j], "COMPLETED")]
  /\ UNCHANGED run

DatabaseStep ==
  \/ NothingWritten
  \/ \E j \in Job, r \in Run : JobCreated(j, r)
  \/ \E j \in Created, row \in Row : RowWritten(j, row)
  \/ \E j \in Created, a \in Result \cup {InternalError} : ResultStored(j, a)

\* A row keeps its place in the index when it stays active.
LEMMA ActiveAlone ==
  ASSUME OneActiveJob, NEW j \in Created, job[j].status \in {"QUEUED", "RUNNING"}
  PROVE  ActiveJobs(run[j].session) \subseteq {j}
  BY DEF OneActiveJob, ActiveJobs

LEMMA StudentDatabase ==
  ASSUME IInv, StudentStep
  PROVE  DatabaseStep
<1>. TypeOK /\ LocalStateOK
  BY DEF IInv
<1>1. ASSUME NEW r \in Run, CanEnqueue(r.session), Enqueue(r)
      PROVE  DatabaseStep
  <2>1. PICK j \in Job : Enqueue(r)!(j)
    BY <1>1 DEF Enqueue
  <2>2. JobCreated(j, r)
    BY <1>1, <2>1 DEF JobCreated, CanEnqueue, ActiveSession
  <2>. QED
    BY <2>2 DEF DatabaseStep
<1>2. ASSUME NEW s \in Session, NEW a \in AccessState, AccessChanges(s, a)
      PROVE  DatabaseStep
  BY <1>2 DEF AccessChanges, DatabaseStep, NothingWritten
<1>3. ASSUME NEW s \in Session, NEW src \in Source, SaveDraft(s, src)
      PROVE  DatabaseStep
  BY <1>3 DEF SaveDraft, DatabaseStep, NothingWritten
<1>4. ASSUME NEW s \in Session, NEW src \in Source, EnqueueRun(s, src)
      PROVE  DatabaseStep
  <2>1. [session |-> s, kind |-> "RUN", key |-> Null, source |-> src] \in Run
    BY DEF Run
  <2>. QED
    BY <1>1, <1>4, <2>1 DEF EnqueueRun
<1>5. ASSUME NEW h \in Handler, NEW key \in Key, NEW src \in Source,
             LookUpKey(h, key, src)
      PROVE  DatabaseStep
  BY <1>5 DEF LookUpKey, DatabaseStep, NothingWritten, session_vars
<1>6. ASSUME NEW h \in Handler, AdmitSubmission(h)
      PROVE  DatabaseStep
  <2>1. handler[h].key \in Key /\ handler[h].source \in Source
    BY <1>6 DEF AdmitSubmission, LocalStateOK, TypeOK, Request
  <2>2. [session |-> handler[h].key[1], kind |-> "SUBMIT", key |-> handler[h].key,
         source |-> handler[h].source] \in Run
    BY <2>1 DEF Run, Key
  <2>3. CASE CanAdmit(handler[h].key)
    BY <1>1, <1>6, <2>2, <2>3 DEF AdmitSubmission, CanAdmit
  <2>4. CASE ~CanAdmit(handler[h].key)
    BY <1>6, <2>4 DEF AdmitSubmission, DatabaseStep, NothingWritten, session_vars
  <2>. QED
    BY <2>3, <2>4
<1>7. ASSUME NEW h \in Handler, ResubmitFailed(h)
      PROVE  DatabaseStep
  <2>. DEFINE j == handler[h].job
  <2>1. j \in Created
    BY <1>7 DEF ResubmitFailed, LocalStateOK
  <2>2. CASE ActiveJobs(run[j].session) \subseteq {j}
    <3>1. RowWritten(j, NewRow)
      BY <1>7, <2>2, NewRowFields DEF ResubmitFailed, RowWritten, session_vars
    <3>. QED
      BY <2>1, <3>1, NewRowFields DEF DatabaseStep
  <2>3. CASE ~(ActiveJobs(run[j].session) \subseteq {j})
    BY <1>7, <2>3 DEF ResubmitFailed, DatabaseStep, NothingWritten, session_vars
  <2>. QED
    BY <2>2, <2>3
<1>. QED
  BY <1>2, <1>3, <1>4, <1>5, <1>6, <1>7 DEF StudentStep

LEMMA TaskDatabase ==
  ASSUME IInv, NEW p \in Place, TaskStep(p) \/ Throw(p)
  PROVE  DatabaseStep
<1>. DEFINE j == task[p].job
<1>. TypeOK /\ LocalStateOK /\ OneActiveJob /\ CompletedHasResult /\ LockedWhileRunning
  BY DEF IInv
<1>1. task[p].pc # "idle" => j \in Created /\ j \in Job /\ job[j] \in Row
  BY DEF LocalStateOK, Created, TypeOK
<1>2. CASE ReadClaimed(p) \/ Throw(p) \/ CheckOwnership(p)
  BY <1>2 DEF ReadClaimed, Throw, CheckOwnership, DatabaseStep, NothingWritten, session_vars
<1>3. ASSUME NEW answer \in Result \cup {InternalError}, Execute(p, answer)
      PROVE  DatabaseStep
  BY <1>3 DEF Execute, DatabaseStep, NothingWritten, session_vars
<1>4. CASE CompleteStored(p)
  <2>1. snapshot[j] # Null
    BY <1>4 DEF CompleteStored, LocalStateOK
  <2>2. RowWritten(j, SettledRow(job[j], "COMPLETED"))
    BY <1>1, <1>4, <2>1, SettledRowFields DEF CompleteStored, RowWritten, session_vars
  <2>. QED
    BY <1>1, <1>4, <2>2, SettledRowFields DEF CompleteStored, DatabaseStep
<1>5. CASE Requeue(p)
  <2>1. CASE ActiveJobs(run[j].session) \subseteq {j}
    <3>1. RowWritten(j, RequeuedRow(job[j]))
      BY <1>1, <1>5, <2>1, RequeuedRowFields DEF Requeue, RowWritten, session_vars
    <3>. QED
      BY <1>1, <1>5, <3>1, RequeuedRowFields DEF Requeue, DatabaseStep
  <2>2. CASE ~(ActiveJobs(run[j].session) \subseteq {j})
    BY <1>5, <2>2 DEF Requeue, DatabaseStep, NothingWritten, session_vars
  <2>. QED
    BY <2>1, <2>2
<1>6. CASE Complete(p)
  <2>1. task[p].result \in Result \cup {InternalError}
    BY <1>6 DEF Complete, LocalStateOK, TypeOK, Task
  <2>2. ResultStored(j, task[p].result)
    BY <1>6 DEF Complete, ResultStored
  <2>. QED
    BY <1>1, <1>6, <2>1, <2>2 DEF Complete, DatabaseStep
<1>7. CASE RetryOrFail(p)
  <2>1. CASE Owns(p) /\ job[j].attempts = task[p].attempt
    <3>1. ActiveJobs(run[j].session) \subseteq {j}
      BY <1>1, <1>7, <2>1, ActiveAlone DEF RetryOrFail, Owns
    <3>2. CASE task[p].attempt < MaxAttempts
      <4>1. RowWritten(j, RequeuedRow(job[j]))
        BY <1>1, <1>7, <2>1, <3>1, <3>2, RequeuedRowFields
           DEF RetryOrFail, RowWritten, session_vars
      <4>. QED
        BY <1>1, <1>7, <4>1, RequeuedRowFields DEF RetryOrFail, DatabaseStep
    <3>3. CASE ~(task[p].attempt < MaxAttempts)
      <4>1. RowWritten(j, SettledRow(job[j], "FAILED"))
        BY <1>1, <1>7, <2>1, <3>3, SettledRowFields
           DEF RetryOrFail, RowWritten, session_vars
      <4>. QED
        BY <1>1, <1>7, <4>1, SettledRowFields DEF RetryOrFail, DatabaseStep
    <3>. QED
      BY <3>2, <3>3
  <2>2. CASE ~(Owns(p) /\ job[j].attempts = task[p].attempt)
    <3>1. job' = job
      BY <1>7, <2>2 DEF RetryOrFail, TypeOK
    <3>. QED
      BY <1>7, <3>1 DEF RetryOrFail, DatabaseStep, NothingWritten, session_vars
  <2>. QED
    BY <2>1, <2>2
<1>. QED
  BY <1>2, <1>3, <1>4, <1>5, <1>6, <1>7 DEF TaskStep

LEMMA ClaimDatabase ==
  ASSUME IInv, NEW w \in Worker, NEW n \in Slot, NEW j \in Job, Claim(w, n, j)
  PROVE  DatabaseStep
<1>. TypeOK /\ OneActiveJob
  BY DEF IInv
<1>1. <<w, SlotAfter(w)>> \in Name
  BY SlotAfterType DEF Name
<1>2. <<w, SlotAfter(w)>> # Null
  BY <1>1, ConstantsAssumption
<1>3. job[j] \in Row /\ job[j].status \in {"QUEUED", "RUNNING"}
  BY DEF Claim, Claimable, TypeOK
<1>4. j \in Created
  BY <1>3 DEF Created
<1>5. ActiveJobs(run[j].session) \subseteq {j}
  BY <1>3, <1>4, ActiveAlone
<1>6. RowWritten(j, ClaimedRow(job[j], <<w, SlotAfter(w)>>))
  BY <1>1, <1>2, <1>3, <1>5, ClaimedRowFields DEF Claim, RowWritten, session_vars
<1>. QED
  BY <1>1, <1>3, <1>4, <1>6, ClaimedRowFields DEF DatabaseStep

LEMMA IdleWorkerDatabase ==
  ASSUME NEW w \in Worker, Crash(w) \/ \E n \in Slot : PollNothing(w, n)
  PROVE  DatabaseStep
  BY DEF PollNothing, Crash, DatabaseStep, NothingWritten, session_vars

LEMMA TimeDatabase ==
  ASSUME IInv, TimeStep
  PROVE  DatabaseStep
<1>. TypeOK /\ RowsPaired /\ OneActiveJob /\ CompletedHasResult /\ LockedWhileRunning
  BY DEF IInv
<1>. PICK j \in Job : LeaseExpires(j) \/ LeaseExpiresEarly(j) \/ BackoffElapses(j)
  BY DEF TimeStep
<1>1. job[j] \in Row
  BY DEF TypeOK
<1>2. ASSUME NEW row \in Row, row.status = job[j].status, row.lockedBy = job[j].lockedBy,
             job' = [job EXCEPT ![j] = row], j \in Created,
             UNCHANGED <<sessionStatus, run, result_vars>>
      PROVE  DatabaseStep
  <2>1. RowWritten(j, row)
    BY <1>2, ActiveAlone DEF RowWritten, Created, CompletedHasResult, LockedWhileRunning
  <2>. QED
    BY <1>2, <2>1 DEF DatabaseStep
<1>3. CASE LeaseExpires(j) \/ LeaseExpiresEarly(j)
  <2>. DEFINE row == [job[j] EXCEPT !.expired = TRUE]
  <2>1. row \in Row /\ row.status = job[j].status /\ row.lockedBy = job[j].lockedBy
    BY <1>1 DEF Row
  <2>2. job' = [job EXCEPT ![j] = row] /\ j \in Created
    BY <1>3 DEF LeaseExpires, LeaseExpiresEarly, Expire, Held, Created
  <2>. QED
    BY <1>2, <1>3, <2>1, <2>2 DEF LeaseExpires, LeaseExpiresEarly, session_vars
<1>4. CASE BackoffElapses(j)
  <2>. DEFINE row == [job[j] EXCEPT !.backoff = FALSE]
  <2>1. row \in Row /\ row.status = job[j].status /\ row.lockedBy = job[j].lockedBy
    BY <1>1 DEF Row
  <2>2. job' = [job EXCEPT ![j] = row]
    BY <1>4 DEF BackoffElapses
  <2>3. CASE j \in Created
    BY <1>2, <1>4, <2>1, <2>2, <2>3 DEF BackoffElapses, session_vars
  <2>4. j \in Created
    BY <1>4 DEF BackoffElapses, RowsPaired, NoRow
  <2>. QED
    BY <2>3, <2>4
<1>. QED
  BY <1>3, <1>4

-----------------------------------------------------------------------------
(* The database invariants survive each kind of database step. *)

DatabaseInv ==
  /\ RowsPaired /\ AnsweredSubmitCloses /\ OneActiveJob /\ ClosedBySubmission
  /\ CompletedHasResult /\ ResultsReported /\ LockedWhileRunning

LEMMA CreatedRuns ==
  ASSUME TypeOK, RowsPaired, NEW j \in Created
  PROVE  j \in Job /\ job[j] \in Row /\ run[j] \in Run /\ run[j].session \in Session
  BY DEF RowsPaired, Created, TypeOK, Run

LEMMA JobCreatedKeeps ==
  ASSUME TypeOK, DatabaseInv, NEW j \in Job, NEW r \in Run, JobCreated(j, r)
  PROVE  DatabaseInv'
<1> USE DEF DatabaseInv, result_vars
<1>1. j \notin Created /\ snapshot[j] = Null
  BY DEF JobCreated, NextJob, RowsPaired
<1>2. Created' = Created \cup {j}
  BY NewRowFields DEF JobCreated, Created, TypeOK
<1>3. \A i \in Job : i # j => job'[i] = job[i] /\ run'[i] = run[i]
  BY DEF JobCreated, TypeOK
<1>4. job'[j] = NewRow /\ run'[j] = r
  BY DEF JobCreated, TypeOK
<1>5. /\ snapshot' = snapshot /\ submission' = submission
      /\ runCompleted' = runCompleted /\ submissionCreated' = submissionCreated
      /\ sessionStatus' = sessionStatus
  BY DEF JobCreated
<1>6. RowsPaired'
  <2>1. r # Null
    BY ConstantsAssumption
  <2>. QED
    BY <1>1, <1>2, <1>3, <1>4, <1>5, <2>1 DEF RowsPaired
<1>7. AnsweredSubmitCloses'
  BY <1>1, <1>2, <1>3, <1>4, <1>5, CreatedRuns DEF AnsweredSubmitCloses
<1>8. OneActiveJob'
  <2>1. ActiveJobs(r.session) = {}
    BY DEF JobCreated
  <2>2. \A i \in Created : run[i].session = r.session
          => job[i].status \notin {"QUEUED", "RUNNING"}
    BY <2>1 DEF ActiveJobs
  <2>3. \A i \in Created : i \in Job /\ i # j
    BY <1>1 DEF Created
  <2>. QED
    BY <1>2, <1>3, <1>4, <2>2, <2>3 DEF OneActiveJob
<1>9. ClosedBySubmission'
  <2>1. \A i \in Created : i \in Job /\ i # j
    BY <1>1 DEF Created
  <2>. QED
    BY <1>2, <1>3, <1>5, <2>1 DEF ClosedBySubmission
<1>10. CompletedHasResult'
  BY <1>1, <1>2, <1>3, <1>4, <1>5, NewRowFields, CreatedRuns DEF CompletedHasResult
<1>11. ResultsReported'
  BY <1>5 DEF ResultsReported
<1>12. LockedWhileRunning'
  BY <1>3, <1>4, NewRowFields DEF LockedWhileRunning
<1>. QED
  BY <1>6, <1>7, <1>8, <1>9, <1>10, <1>11, <1>12

LEMMA RowWrittenKeeps ==
  ASSUME TypeOK, DatabaseInv, NEW j \in Created, NEW row \in Row, RowWritten(j, row)
  PROVE  DatabaseInv'
<1> USE DEF DatabaseInv, result_vars
<1>1. j \in Job
  BY DEF Created
<1>2. Created' = Created
  BY <1>1 DEF RowWritten, Created, TypeOK
<1>3. \A i \in Job : job'[i] = IF i = j THEN row ELSE job[i]
  BY DEF RowWritten, TypeOK
<1>4. /\ snapshot' = snapshot /\ submission' = submission /\ run' = run
      /\ runCompleted' = runCompleted /\ submissionCreated' = submissionCreated
      /\ sessionStatus' = sessionStatus
  BY DEF RowWritten
<1>5. RowsPaired'
  BY <1>2, <1>3, <1>4 DEF RowsPaired
<1>6. AnsweredSubmitCloses'
  BY <1>2, <1>4 DEF AnsweredSubmitCloses
<1>7. OneActiveJob'
  <2>1. row.status \in {"QUEUED", "RUNNING"} =>
          \A i \in Created : i # j /\ run[i].session = run[j].session
                             => job[i].status \notin {"QUEUED", "RUNNING"}
    BY DEF RowWritten, ActiveJobs
  <2>2. Created \subseteq Job
    BY DEF Created
  <2>. QED
    BY <1>2, <1>3, <1>4, <2>1, <2>2 DEF OneActiveJob
<1>8. ClosedBySubmission'
  BY <1>2, <1>4 DEF ClosedBySubmission
<1>9. CompletedHasResult'
  <2>1. row.status = "COMPLETED" => snapshot[j] # Null
    BY DEF RowWritten
  <2>2. \A i \in Created : i \in Job
    BY DEF Created
  <2>. QED
    BY <1>2, <1>3, <1>4, <2>1, <2>2 DEF CompletedHasResult, AnsweredSubmitCloses
<1>10. ResultsReported'
  BY <1>4 DEF ResultsReported
<1>11. LockedWhileRunning'
  BY <1>3 DEF LockedWhileRunning, RowWritten
<1>. QED
  BY <1>5, <1>6, <1>7, <1>8, <1>9, <1>10, <1>11

LEMMA ResultStoredKeeps ==
  ASSUME TypeOK, DatabaseInv, NEW j \in Created, NEW a \in Result \cup {InternalError},
         ResultStored(j, a)
  PROVE  DatabaseInv'
<1> USE DEF DatabaseInv
<1>. DEFINE s == run[j].session
            row == SettledRow(job[j], "COMPLETED")
            closes == run[j].kind = "SUBMIT" /\ submission[s] = NoJob
<1>1. j \in Job /\ job[j] \in Row /\ run[j] \in Run /\ s \in Session
  BY CreatedRuns
<1>2. row.status = "COMPLETED" /\ row.lockedBy = Null
  BY <1>1, SettledRowFields
<1>3. \A i \in Job : job'[i] = IF i = j THEN row ELSE job[i]
  BY DEF ResultStored, TypeOK
<1>4. Created' = Created /\ run' = run
  BY <1>2, <1>3 DEF ResultStored, Created
<1>5. \A i \in Job :
        /\ i # j => snapshot'[i] = snapshot[i] /\ runCompleted'[i] = runCompleted[i]
        /\ snapshot[i] # Null => snapshot'[i] = snapshot[i]
  BY <1>1 DEF ResultStored, TypeOK
<1>6. snapshot'[j] # Null /\ runCompleted'[j] > 0
  <2>1. a # Null
    BY ConstantsAssumption
  <2>2. snapshot'[j] # Null
    BY <1>1, <2>1 DEF ResultStored, TypeOK
  <2>3. runCompleted'[j] = runCompleted[j] + 1 /\ runCompleted[j] \in Nat
    BY <1>1 DEF ResultStored, TypeOK
  <2>. QED
    BY <2>2, <2>3
<1>7. \A t \in Session :
        /\ submission'[t] = IF closes /\ t = s THEN j ELSE submission[t]
        /\ sessionStatus'[t] = IF closes /\ t = s THEN "SUBMITTED" ELSE sessionStatus[t]
        /\ submissionCreated'[t] =
             IF closes /\ t = s THEN submissionCreated[t] + 1 ELSE submissionCreated[t]
  BY <1>1 DEF ResultStored, TypeOK
<1>8. j # NoJob /\ \A i \in Created : i \in Job
  BY <1>1 DEF Job, NoJob, Created
<1>9. run[j].kind = "SUBMIT" => submission'[s] # NoJob
  BY <1>1, <1>7, <1>8
<1>10. \A t \in Session : submission[t] # NoJob => submission'[t] = submission[t]
  BY <1>7
<1>11. RowsPaired'
  BY <1>3, <1>4, <1>5 DEF RowsPaired
<1>12. AnsweredSubmitCloses'
  BY <1>4, <1>5, <1>8, <1>9, <1>10, CreatedRuns DEF AnsweredSubmitCloses
<1>13. OneActiveJob'
  BY <1>2, <1>3, <1>4, <1>8 DEF OneActiveJob
<1>14. ClosedBySubmission'
  BY <1>1, <1>4, <1>5, <1>6, <1>7, <1>8 DEF ClosedBySubmission
<1>15. CompletedHasResult'
  BY <1>3, <1>4, <1>5, <1>6, <1>8, <1>9, <1>10, CreatedRuns DEF CompletedHasResult
<1>16. ResultsReported'
  BY <1>5, <1>6 DEF ResultsReported
<1>17. LockedWhileRunning'
  BY <1>2, <1>3 DEF LockedWhileRunning
<1>. QED
  BY <1>11, <1>12, <1>13, <1>14, <1>15, <1>16, <1>17

-----------------------------------------------------------------------------
(* Every step writes the database in one of these ways.  Rows are never      *)
(* deleted and results never change.                                         *)

LEMMA NextDatabase ==
  ASSUME IInv, Next
  PROVE  DatabaseStep /\ TypeOK'
<1>. TypeOK
  BY DEF IInv
<1>1. CASE StudentStep
  BY <1>1, StudentDatabase, StudentTypes
<1>2. CASE WorkerStep
  <2>1. ASSUME NEW p \in Place, TaskStep(p) \/ Throw(p)
        PROVE  DatabaseStep /\ TypeOK'
    BY <2>1, TaskDatabase, TaskTypes
  <2>2. ASSUME NEW w \in Worker, NEW n \in Slot, NEW j \in Job, Claim(w, n, j)
        PROVE  DatabaseStep /\ TypeOK'
    BY <2>2, ClaimDatabase, ClaimTypes
  <2>3. ASSUME NEW w \in Worker, Crash(w) \/ \E n \in Slot : PollNothing(w, n)
        PROVE  DatabaseStep /\ TypeOK'
    BY <2>3, IdleWorkerDatabase, IdleWorkerTypes
  <2>. QED
    BY <1>2, <2>1, <2>2, <2>3 DEF WorkerStep, ClaimStep
<1>3. CASE TimeStep
  BY <1>3, TimeDatabase, TimeTypes
<1>. QED
  BY <1>1, <1>2, <1>3 DEF Next

DatabaseGrows ==
  /\ Created \subseteq Created'
  /\ \A j \in Created : run'[j] = run[j]
  /\ \A j \in Job : snapshot[j] # Null => snapshot'[j] = snapshot[j]
  /\ \A s \in Session : submission[s] # NoJob => submission'[s] = submission[s]

LEMMA StepGrows ==
  ASSUME TypeOK, DatabaseInv, DatabaseStep
  PROVE  DatabaseGrows
<1> USE DEF DatabaseInv, DatabaseGrows, result_vars
<1>1. CASE NothingWritten
  BY <1>1 DEF NothingWritten, Created
<1>2. ASSUME NEW j \in Job, NEW r \in Run, JobCreated(j, r)
      PROVE  DatabaseGrows
  <2>1. j \notin Created
    BY <1>2 DEF JobCreated, NextJob
  <2>. QED
    BY <1>2, <2>1, NewRowFields DEF JobCreated, Created, TypeOK
<1>3. ASSUME NEW j \in Created, NEW row \in Row, RowWritten(j, row)
      PROVE  DatabaseGrows
  BY <1>3 DEF RowWritten, Created, TypeOK
<1>4. ASSUME NEW j \in Created, NEW a \in Result \cup {InternalError}, ResultStored(j, a)
      PROVE  DatabaseGrows
  <2>1. j \in Job /\ job[j] \in Row /\ run[j] \in Run /\ run[j].session \in Session
    BY CreatedRuns
  <2>2. SettledRow(job[j], "COMPLETED").status # "none"
    BY <2>1, SettledRowFields
  <2>. QED
    BY <1>4, <2>1, <2>2 DEF ResultStored, Created, TypeOK
<1>. QED
  BY <1>1, <1>2, <1>3, <1>4 DEF DatabaseStep

-----------------------------------------------------------------------------
(* What tasks and handlers remember.                                         *)

TaskStateOK(p) ==
  /\ task[p].pc # "idle" => task[p].job \in Created
  /\ task[p].pc = "read" /\ task[p].seen => snapshot[task[p].job] # Null
  /\ task[p].pc \in {"finish", "commit"} => task[p].result # Null

HandlerStateOK(h) ==
  /\ handler[h].pc = "admit" => handler[h].key # Null /\ handler[h].source # Null
  /\ handler[h].pc = "resubmit" => handler[h].job \in Created

LEMMA LocalParts ==
  (/\ \A p \in Place : TaskStateOK(p)'
   /\ \A h \in Handler : HandlerStateOK(h)') => LocalStateOK'
  BY DEF LocalStateOK, TaskStateOK, HandlerStateOK

\* Rows are never deleted and results never vanish, so what is remembered of
\* them stays true while the task or handler itself does not move.
LEMMA OthersKeepState ==
  ASSUME TypeOK, LocalStateOK, DatabaseGrows
  PROVE  /\ \A p \in Place : task'[p] = task[p] => TaskStateOK(p)'
         /\ \A h \in Handler : handler'[h] = handler[h] => HandlerStateOK(h)'
<1>1. \A p \in Place : task'[p] = task[p] => TaskStateOK(p)'
  BY DEF LocalStateOK, TaskStateOK, DatabaseGrows, Created
<1>2. \A h \in Handler : handler'[h] = handler[h] => HandlerStateOK(h)'
  BY DEF LocalStateOK, HandlerStateOK, DatabaseGrows
<1>. QED
  BY <1>1, <1>2

LEMMA IdleStateOK ==
  /\ \A p \in Place : task'[p] = IdleTask => TaskStateOK(p)'
  /\ \A h \in Handler : handler'[h] = IdleHandler => HandlerStateOK(h)'
  BY DEF TaskStateOK, HandlerStateOK, IdleTask, IdleHandler

LEMMA StudentState ==
  ASSUME TypeOK, LocalStateOK, DatabaseGrows, StudentStep
  PROVE  LocalStateOK'
<1>1. ASSUME NEW h \in Handler, HandlerStateOK(h)', task' = task,
             \A i \in Handler : i # h => handler'[i] = handler[i]
      PROVE  LocalStateOK'
  BY <1>1, OthersKeepState, LocalParts
<1>2. ASSUME handler' = handler, task' = task
      PROVE  LocalStateOK'
  BY <1>2, OthersKeepState, LocalParts
<1>3. ASSUME NEW s \in Session, NEW a \in AccessState, AccessChanges(s, a)
      PROVE  LocalStateOK'
  BY <1>2, <1>3 DEF AccessChanges
<1>4. ASSUME NEW s \in Session, NEW src \in Source,
             SaveDraft(s, src) \/ EnqueueRun(s, src)
      PROVE  LocalStateOK'
  BY <1>2, <1>4 DEF SaveDraft, EnqueueRun, Enqueue
<1>5. ASSUME NEW h \in Handler, NEW key \in Key, NEW src \in Source,
             LookUpKey(h, key, src)
      PROVE  LocalStateOK'
  <2>1. key # Null /\ src # Null
    BY ConstantsAssumption
  <2>2. HandlerStateOK(h)'
    BY <1>5, <2>1 DEF LookUpKey, HandlerStateOK, TypeOK, DatabaseGrows
  <2>. QED
    BY <1>1, <1>5, <2>2 DEF LookUpKey, TypeOK
<1>6. ASSUME NEW h \in Handler, AdmitSubmission(h) \/ ResubmitFailed(h)
      PROVE  LocalStateOK'
  <2>1. handler' = [handler EXCEPT ![h] = IdleHandler]
    BY <1>6 DEF AdmitSubmission, ResubmitFailed
  <2>2. task' = task
    BY <1>6 DEF AdmitSubmission, ResubmitFailed, Enqueue
  <2>. QED
    BY <1>1, <2>1, <2>2, IdleStateOK DEF TypeOK
<1>. QED
  BY <1>3, <1>4, <1>5, <1>6 DEF StudentStep

LEMMA TaskState ==
  ASSUME TypeOK, LocalStateOK, DatabaseGrows, NEW p \in Place, TaskStep(p) \/ Throw(p)
  PROVE  LocalStateOK'
<1>1. handler' = handler /\ \A q \in Place : q # p => task'[q] = task[q]
  <2>1. ASSUME NEW answer \in Result \cup {InternalError}, Execute(p, answer)
        PROVE  <1>1
    BY <2>1 DEF Execute, TypeOK
  <2>2. CASE ReadClaimed(p) \/ CompleteStored(p) \/ Requeue(p) \/ Throw(p)
    BY <2>2 DEF ReadClaimed, CompleteStored, Requeue, Throw, EndTask, TypeOK
  <2>3. CASE CheckOwnership(p) \/ Complete(p) \/ RetryOrFail(p)
    BY <2>3 DEF CheckOwnership, Complete, RetryOrFail, EndTask, TypeOK
  <2>. QED
    BY <2>1, <2>2, <2>3 DEF TaskStep
<1>2. SUFFICES TaskStateOK(p)'
  BY <1>1, OthersKeepState, LocalParts
<1>3. EndTask(p) => TaskStateOK(p)'
  BY IdleStateOK DEF EndTask, TypeOK
<1>4. CASE ReadClaimed(p)
  BY <1>4 DEF ReadClaimed, TaskStateOK, LocalStateOK, TypeOK, DatabaseGrows, result_vars
<1>5. ASSUME NEW answer \in Result \cup {InternalError}, Execute(p, answer)
      PROVE  TaskStateOK(p)'
  <2>1. answer # Null
    BY ConstantsAssumption
  <2>2. /\ task'[p].pc \in {"requeue", "finish"} /\ task'[p].result = answer
        /\ task'[p].job = task[p].job
    BY <1>5 DEF Execute, TypeOK, Task
  <2>. QED
    BY <1>5, <2>1, <2>2 DEF Execute, TaskStateOK, LocalStateOK, DatabaseGrows
<1>6. ASSUME task[p].pc # "idle", task' = [task EXCEPT ![p].pc = "failing"]
      PROVE  TaskStateOK(p)'
  BY <1>6 DEF TaskStateOK, LocalStateOK, TypeOK, Task, DatabaseGrows
<1>7. CASE Requeue(p) \/ Throw(p)
  BY <1>3, <1>6, <1>7 DEF Requeue, Throw
<1>8. CASE CheckOwnership(p)
  <2>1. CASE Owns(p)
    <3>1. /\ task'[p].pc = "commit" /\ task'[p].result = task[p].result
          /\ task'[p].job = task[p].job
      BY <1>8, <2>1 DEF CheckOwnership, TypeOK, Task
    <3>. QED
      BY <1>8, <3>1 DEF CheckOwnership, TaskStateOK, LocalStateOK, DatabaseGrows
  <2>2. CASE ~Owns(p)
    BY <1>3, <1>8, <2>2 DEF CheckOwnership
  <2>. QED
    BY <2>1, <2>2
<1>9. CASE CompleteStored(p) \/ Complete(p) \/ RetryOrFail(p)
  BY <1>3, <1>9 DEF CompleteStored, Complete, RetryOrFail
<1>. QED
  BY <1>4, <1>5, <1>7, <1>8, <1>9 DEF TaskStep

LEMMA NextState ==
  ASSUME TypeOK, LocalStateOK, DatabaseGrows, Next
  PROVE  LocalStateOK'
<1>1. CASE StudentStep
  BY <1>1, StudentState
<1>2. ASSUME NEW p \in Place, TaskStep(p) \/ Throw(p)
      PROVE  LocalStateOK'
  BY <1>2, TaskState
<1>3. ASSUME NEW w \in Worker, NEW n \in Slot, NEW j \in Job, Claim(w, n, j)
      PROVE  LocalStateOK'
  <2>1. <<w, n>> \in Place /\ handler' = handler
    BY <1>3 DEF Claim, Place
  <2>2. \A q \in Place : q # <<w, n>> => task'[q] = task[q]
    BY <1>3 DEF Claim, TypeOK
  <2>3. task'[<<w, n>>] = [IdleTask EXCEPT !.pc = "claimed", !.job = j]
    BY <1>3, <2>1 DEF Claim, TypeOK
  <2>4. j \in Created'
    BY <1>3 DEF Claim, Claimable, Created, DatabaseGrows
  <2>5. TaskStateOK(<<w, n>>)'
    BY <2>3, <2>4 DEF TaskStateOK, IdleTask
  <2>. QED
    BY <2>1, <2>2, <2>5, OthersKeepState, LocalParts
<1>4. ASSUME NEW w \in Worker, NEW n \in Slot, PollNothing(w, n)
      PROVE  LocalStateOK'
  BY <1>4, OthersKeepState, LocalParts DEF PollNothing
<1>5. ASSUME NEW w \in Worker, Crash(w)
      PROVE  LocalStateOK'
  <2>1. \A q \in Place : task'[q] = IdleTask \/ task'[q] = task[q]
    BY <1>5 DEF Crash
  <2>. QED
    BY <1>5, <2>1, OthersKeepState, IdleStateOK, LocalParts DEF Crash
<1>6. CASE TimeStep
  BY <1>6, OthersKeepState, LocalParts
     DEF TimeStep, LeaseExpires, LeaseExpiresEarly, BackoffElapses
<1>. QED
  BY <1>1, <1>2, <1>3, <1>4, <1>5, <1>6 DEF Next, WorkerStep, ClaimStep

-----------------------------------------------------------------------------
(* The inductive invariant.                                                  *)

LEMMA InvParts ==
  /\ IInv <=> TypeOK /\ LocalStateOK /\ DatabaseInv
  /\ IInv' <=> TypeOK' /\ LocalStateOK' /\ DatabaseInv'
  BY DEF IInv, DatabaseInv

LEMMA InitInv == Init => IInv
<1>. SUFFICES ASSUME Init PROVE IInv
  OBVIOUS
<1>1. TypeOK
  BY InitTypeOK
<1>2. Created = {}
  BY DEF Init, Created, NoRow
<1>3. LocalStateOK
  BY DEF Init, LocalStateOK, IdleTask, IdleHandler
<1>4. RowsPaired /\ AnsweredSubmitCloses /\ OneActiveJob /\ CompletedHasResult
  BY <1>2 DEF Init, RowsPaired, AnsweredSubmitCloses, OneActiveJob, CompletedHasResult
<1>5. ClosedBySubmission /\ ResultsReported /\ LockedWhileRunning
  BY DEF Init, ClosedBySubmission, ResultsReported, LockedWhileRunning, NoRow
<1>. QED
  BY <1>1, <1>3, <1>4, <1>5 DEF IInv

LEMMA NextInv ==
  ASSUME IInv, Next
  PROVE  IInv' /\ DatabaseStep /\ DatabaseGrows
<1>1. TypeOK /\ LocalStateOK /\ DatabaseInv
  BY InvParts
<1>2. DatabaseStep /\ TypeOK'
  BY NextDatabase
<1>3. DatabaseGrows
  BY <1>1, <1>2, StepGrows
<1>4. LocalStateOK'
  BY <1>1, <1>3, NextState
<1>5. DatabaseInv'
  <2>1. CASE NothingWritten
    BY <1>1, <2>1 DEF NothingWritten, DatabaseInv, RowsPaired, AnsweredSubmitCloses,
       OneActiveJob, ClosedBySubmission, CompletedHasResult, ResultsReported,
       LockedWhileRunning, Created, result_vars
  <2>. QED
    BY <1>1, <1>2, <2>1, JobCreatedKeeps, RowWrittenKeeps, ResultStoredKeeps
       DEF DatabaseStep
<1>. QED
  BY <1>2, <1>3, <1>4, <1>5, InvParts

LEMMA StutterInv == IInv /\ UNCHANGED vars => IInv'
  BY DEF IInv, vars, session_vars, result_vars, bound_vars, TypeOK, LocalStateOK,
     RowsPaired, AnsweredSubmitCloses, OneActiveJob, ClosedBySubmission,
     CompletedHasResult, ResultsReported, LockedWhileRunning, Created, Owns

\* Every reachable state satisfies the inductive invariant.
THEOREM Invariance == Spec => []IInv
<1>1. Init => IInv
  BY InitInv
<1>2. IInv /\ [Next]_vars => IInv'
  BY NextInv, StutterInv
<1>. QED
  BY <1>1, <1>2, PTL DEF Spec

-----------------------------------------------------------------------------
(* Theorems.                                                                 *)

\* The variables keep their types: rows, tasks and submit requests are only
\* ever what the handlers and the worker write.
THEOREM TypeCorrectness == Spec => []TypeOK
<1>1. IInv => TypeOK
  BY DEF IInv
<1>. QED
  BY <1>1, Invariance, PTL

\* For any number of workers, requests, retries, crashes and expired leases, a
\* session has at most one queued or running job: no writer of ExecutionJob
\* puts a second row into the partial unique index.
THEOREM OneActiveJobPerSession == Spec => []OneActiveJob
<1>1. IInv => OneActiveJob
  BY DEF IInv
<1>. QED
  BY <1>1, Invariance, PTL

\* A session is SUBMITTED exactly when it has its one submission, announced
\* once, made from a SUBMIT run of its own with a stored result.
THEOREM SessionsClosedBySubmission == Spec => []ClosedBySubmission
<1>1. IInv => ClosedBySubmission
  BY DEF IInv
<1>. QED
  BY <1>1, Invariance, PTL

\* What getStudentExecutionJob reports as COMPLETED has its result, and a
\* COMPLETED SUBMIT job has closed its session.
THEOREM CompletedJobsHaveResults == Spec => []CompletedHasResult
<1>1. IInv => CompletedHasResult
  BY DEF IInv
<1>. QED
  BY <1>1, Invariance, PTL

\* A row carries a lock name exactly while it is RUNNING.
THEOREM LocksMatchStatus == Spec => []LockedWhileRunning
<1>1. IInv => LockedWhileRunning
  BY DEF IInv
<1>. QED
  BY <1>1, Invariance, PTL

\* Stored results and submissions never change, although the completion
\* transaction may commit for a lease another task has taken over.
THEOREM ResultsNeverChange == Spec => ResultsImmutable
<1>. DEFINE Kept == /\ \A j \in Job : snapshot[j] # Null => snapshot'[j] = snapshot[j]
                    /\ \A s \in Session :
                         submission[s] # NoJob => submission'[s] = submission[s]
<1>1. IInv /\ [Next]_vars => [Kept]_vars
  BY NextInv DEF DatabaseGrows
<1>. QED
  BY <1>1, Invariance, PTL DEF Spec, ResultsImmutable

-----------------------------------------------------------------------------
(* Refinement: a database step is a step of the contract or stutters.        *)

LEMMA ContractStep ==
  ASSUME IInv, DatabaseStep
  PROVE  [Contract!Next]_(Contract!vars)
<1>. TypeOK /\ RowsPaired /\ ClosedBySubmission
  BY DEF IInv
<1> USE DEF Contract!vars, result_vars
<1>1. CASE NothingWritten
  BY <1>1 DEF NothingWritten
<1>2. ASSUME NEW j \in Job, NEW r \in Run, JobCreated(j, r)
      PROVE  Contract!Next
  <2>1. run[j] = Null
    BY <1>2 DEF JobCreated, NextJob, RowsPaired
  <2>2. r.session \in Session
    BY DEF Run
  <2>3. submission[r.session] = NoJob
    BY <1>2, <2>2 DEF JobCreated, ClosedBySubmission
  <2>4. Contract!Request(j, r)
    BY <1>2, <2>1, <2>3 DEF JobCreated, Contract!Request
  <2>. QED
    BY <2>4 DEF Contract!Next
<1>3. ASSUME NEW j \in Created, NEW row \in Row, RowWritten(j, row)
      PROVE  UNCHANGED Contract!vars
  BY <1>3 DEF RowWritten
<1>4. ASSUME NEW j \in Created, NEW a \in Result \cup {InternalError}, ResultStored(j, a)
      PROVE  [Contract!Next]_(Contract!vars)
  <2>. DEFINE s == run[j].session
  <2>1. j \in Job /\ run[j] # Null /\ s \in Session
    BY CreatedRuns, ConstantsAssumption
  <2>2. CASE snapshot[j] # Null
    <3>1. snapshot' = snapshot
      BY <1>4, <2>2 DEF ResultStored, TypeOK
    <3>2. run[j].kind = "SUBMIT" => submission[s] # NoJob
      BY <2>2 DEF IInv, AnsweredSubmitCloses
    <3>. QED
      BY <1>4, <3>1, <3>2 DEF ResultStored
  <2>3. CASE snapshot[j] = Null
    <3>1. snapshot' = [snapshot EXCEPT ![j] = a] /\ run' = run
      BY <1>4, <2>3 DEF ResultStored, TypeOK
    <3>2. Contract!AnswerOnce(j, a)
      BY <2>1, <2>3, <3>1 DEF Contract!AnswerOnce
    <3>3. Contract!AnswerRun(j, a) \/ Contract!AnswerSubmit(j, a)
      BY <1>4, <3>2 DEF ResultStored, Contract!AnswerRun, Contract!AnswerSubmit, NoJob
    <3>. QED
      BY <2>1, <3>3 DEF Contract!Next
  <2>. QED
    BY <2>2, <2>3
<1>. QED
  BY <1>1, <1>2, <1>3, <1>4 DEF DatabaseStep

\* The queue implements the contract: whatever workers, leases and retries do,
\* a run is answered at most once, and the first SUBMIT answer and the
\* session's only submission are one step.
THEOREM QueueKeepsContract == Spec => KeepsContract
<1>1. Init => Contract!Init
  BY DEF Init, Contract!Init
<1>2. IInv /\ [Next]_vars => [Contract!Next]_(Contract!vars)
  <2>1. ASSUME IInv, Next PROVE [Contract!Next]_(Contract!vars)
    BY <2>1, NextInv, ContractStep
  <2>2. UNCHANGED vars => UNCHANGED Contract!vars
    BY DEF vars, result_vars, Contract!vars
  <2>. QED
    BY <2>1, <2>2
<1>. QED
  BY <1>1, <1>2, Invariance, PTL DEF Spec, KeepsContract, Contract!Spec

-----------------------------------------------------------------------------
(* Timely work.  While no lease ended under a task and no repeated submit     *)
(* came late, a task that has a job in hand holds its row, which is RUNNING   *)
(* and cannot be claimed.                                                     *)

LEMMA ClaimedRowCounts ==
  ASSUME NEW row \in Row, NEW name \in Name
  PROVE  /\ ClaimedRow(row, name).expired = FALSE
         /\ ClaimedRow(row, name).attempts = row.attempts + 1
BY ZenonT(30) DEF ClaimedRow, Row

\* What a task in hand knows of its row.
InTime(p) ==
  task[p].pc # "idle" =>
    /\ job[task[p].job].status = "RUNNING" /\ ~job[task[p].job].expired
    /\ task[p].pc # "claimed" => /\ job[task[p].job].lockedBy = task[p].name
                                 /\ job[task[p].job].attempts = task[p].attempt

Apart(p, q) ==
  p # q /\ task[p].pc # "idle" /\ task[q].pc # "idle" => task[p].job # task[q].job

StoredIsCompleted == \A j \in Job : snapshot[j] # Null => job[j].status = "COMPLETED"

WorkInTime ==
  /\ \A p \in Place : InTime(p) /\ \A q \in Place : Apart(p, q)
  /\ StoredIsCompleted /\ CompletedOnce

TimelyInv == Timely => WorkInTime

\* What a step keeps while work is in time.
CompletedStays == \A j \in Job : job[j].status = "COMPLETED" => job'[j].status = "COMPLETED"

LEMMA InTimeFacts ==
  ASSUME IInv, WorkInTime, NEW p \in Place, task[p].pc # "idle"
  PROVE  /\ task[p].job \in Job /\ task[p].job \in Created /\ task[p] \in Task
         /\ job[task[p].job].status = "RUNNING" /\ ~job[task[p].job].expired
         /\ snapshot[task[p].job] = Null
         /\ task[p].pc # "claimed" => Owns(p) /\ job[task[p].job].attempts = task[p].attempt
<1>1. task[p].job \in Created /\ task[p].job \in Job /\ task[p] \in Task
  BY DEF IInv, LocalStateOK, Created, TypeOK
<1>2. InTime(p) /\ StoredIsCompleted
  BY DEF WorkInTime
<1>. QED
  BY <1>1, <1>2 DEF InTime, StoredIsCompleted, Owns

\* A step that stores no result and takes no COMPLETED row back.
LEMMA StoredStill ==
  ASSUME WorkInTime, CompletedStays, UNCHANGED <<snapshot, runCompleted>>
  PROVE  StoredIsCompleted' /\ CompletedOnce'
BY DEF WorkInTime, StoredIsCompleted, CompletedOnce, CompletedStays

\* No task moves, and the rows they have in hand stay as they are.
LEMMA NobodyMoves ==
  ASSUME IInv, WorkInTime, UNCHANGED <<task, snapshot, runCompleted>>, CompletedStays,
         \A p \in Place : task[p].pc # "idle" => job'[task[p].job] = job[task[p].job]
  PROVE  WorkInTime'
<1>1. \A p \in Place : InTime(p)' /\ \A q \in Place : Apart(p, q)'
  BY DEF WorkInTime, InTime, Apart
<1>. QED
  BY <1>1, StoredStill DEF WorkInTime

\* A task goes on with its job, and nothing is written.
LEMMA TaskGoesOn ==
  ASSUME IInv, WorkInTime, UNCHANGED <<job, snapshot, runCompleted>>,
         NEW p \in Place, task[p].pc # "idle", task'[p].job = task[p].job,
         \A q \in Place : q # p => task'[q] = task[q],
         InTime(p)'
  PROVE  WorkInTime' /\ CompletedStays
<1>1. CompletedStays
  BY DEF CompletedStays
<1>2. \A q \in Place : InTime(q)'
  BY DEF WorkInTime, InTime
<1>3. \A q, r \in Place : Apart(q, r)'
  <2>. SUFFICES ASSUME NEW q \in Place, NEW r \in Place, q # r,
                       task'[q].pc # "idle", task'[r].pc # "idle"
                PROVE  task'[q].job # task'[r].job
    BY DEF Apart
  <2>1. /\ task[q].pc # "idle" /\ task'[q].job = task[q].job
        /\ task[r].pc # "idle" /\ task'[r].job = task[r].job
    OBVIOUS
  <2>. QED
    BY <2>1 DEF WorkInTime, Apart
<1>. QED
  BY <1>1, <1>2, <1>3, StoredStill DEF WorkInTime

\* A task ends, and no row but the one it had in hand is written.
LEMMA TaskEnds ==
  ASSUME IInv, WorkInTime, NEW p \in Place, task[p].pc # "idle", EndTask(p),
         \A i \in Job : i # task[p].job => job'[i] = job[i],
         StoredIsCompleted', CompletedOnce'
  PROVE  WorkInTime'
<1>1. task'[p].pc = "idle" /\ \A q \in Place : q # p => task'[q] = task[q]
  BY DEF IInv, TypeOK, EndTask, IdleTask
<1>2. ASSUME NEW q \in Place, task'[q].pc # "idle"
      PROVE  q # p /\ task'[q] = task[q] /\ job'[task[q].job] = job[task[q].job]
  <2>1. q # p /\ task'[q] = task[q] /\ task[q].pc # "idle"
    BY <1>1, <1>2
  <2>2. task[q].job # task[p].job /\ task[q].job \in Job
    BY <2>1, InTimeFacts DEF WorkInTime, Apart
  <2>. QED
    BY <2>1, <2>2
<1>3. \A q \in Place : InTime(q)'
  BY <1>2 DEF WorkInTime, InTime
<1>4. \A q, r \in Place : Apart(q, r)'
  BY <1>2 DEF WorkInTime, Apart
<1>. QED
  BY <1>3, <1>4 DEF WorkInTime

LEMMA StudentInTime ==
  ASSUME IInv, WorkInTime, StudentStep, lateRepeats = 0, lateRepeats' = 0
  PROVE  WorkInTime' /\ CompletedStays
<1>. TypeOK /\ LocalStateOK /\ RowsPaired
  BY DEF IInv
<1>1. ASSUME UNCHANGED <<job, task, snapshot, runCompleted>>
      PROVE  WorkInTime' /\ CompletedStays
  BY <1>1, NobodyMoves DEF CompletedStays
<1>2. ASSUME NEW j \in Job, job' = [job EXCEPT ![j] = NewRow],
             UNCHANGED <<task, snapshot, runCompleted>>,
             job[j].status \notin {"RUNNING", "COMPLETED"}
      PROVE  WorkInTime' /\ CompletedStays
  <2>1. CompletedStays
    BY <1>2 DEF TypeOK, CompletedStays
  <2>2. ASSUME NEW p \in Place, task[p].pc # "idle"
        PROVE  job'[task[p].job] = job[task[p].job]
    <3>1. task[p].job \in Job /\ task[p].job # j
      BY <1>2, <2>2, InTimeFacts
    <3>. QED
      BY <1>2, <3>1 DEF TypeOK
  <2>. QED
    BY <1>2, <2>1, <2>2, NobodyMoves
<1>3. ASSUME NEW r, Enqueue(r)
      PROVE  WorkInTime' /\ CompletedStays
  <2>1. PICK j \in Job : Enqueue(r)!(j)
    BY <1>3 DEF Enqueue
  <2>2. job[j].status = "none"
    BY <2>1 DEF NextJob, Created
  <2>. QED
    BY <1>2, <2>1, <2>2 DEF result_vars
<1>4. ASSUME NEW s \in Session, NEW a \in AccessState, AccessChanges(s, a)
      PROVE  WorkInTime' /\ CompletedStays
  BY <1>1, <1>4 DEF AccessChanges, result_vars
<1>5. ASSUME NEW s \in Session, NEW src \in Source, SaveDraft(s, src)
      PROVE  WorkInTime' /\ CompletedStays
  BY <1>1, <1>5 DEF SaveDraft, result_vars
<1>6. ASSUME NEW s \in Session, NEW src \in Source, EnqueueRun(s, src)
      PROVE  WorkInTime' /\ CompletedStays
  BY <1>3, <1>6 DEF EnqueueRun
<1>7. ASSUME NEW h \in Handler, NEW key \in Key, NEW src \in Source, LookUpKey(h, key, src)
      PROVE  WorkInTime' /\ CompletedStays
  BY <1>1, <1>7 DEF LookUpKey, result_vars
<1>8. ASSUME NEW h \in Handler, AdmitSubmission(h)
      PROVE  WorkInTime' /\ CompletedStays
  BY <1>1, <1>3, <1>8 DEF AdmitSubmission, result_vars
<1>9. ASSUME NEW h \in Handler, ResubmitFailed(h)
      PROVE  WorkInTime' /\ CompletedStays
  <2>. DEFINE j == handler[h].job
  <2>1. j \in Job /\ UNCHANGED <<task, snapshot, runCompleted>>
    BY <1>9 DEF ResubmitFailed, LocalStateOK, Created, result_vars
  <2>2. CASE IndexAccepts(j)
    <3>1. job' = [job EXCEPT ![j] = NewRow]
      BY <1>9, <2>2 DEF ResubmitFailed
    <3>2. job[j].status = "FAILED"
      BY <1>9, <2>2 DEF ResubmitFailed, Repeatable
    <3>. QED
      BY <1>2, <2>1, <3>1, <3>2
  <2>3. CASE ~IndexAccepts(j)
    BY <1>1, <1>9, <2>1, <2>3 DEF ResubmitFailed
  <2>. QED
    BY <2>2, <2>3
<1>. QED
  BY <1>4, <1>5, <1>6, <1>7, <1>8, <1>9 DEF StudentStep

LEMMA TaskInTime ==
  ASSUME IInv, WorkInTime, NEW p \in Place, TaskStep(p) \/ Throw(p)
  PROVE  WorkInTime' /\ CompletedStays
<1>. DEFINE j == task[p].job
<1>. TypeOK /\ LocalStateOK /\ ResultsReported
  BY DEF IInv
<1>1. task[p].pc # "idle"
  BY DEF TaskStep, Throw, ReadClaimed, CompleteStored, Execute, Requeue, CheckOwnership,
     Complete, RetryOrFail
<1>2. /\ j \in Job /\ j \in Created /\ task[p] \in Task /\ job[j] \in Row
      /\ job[j].status = "RUNNING" /\ ~job[j].expired /\ snapshot[j] = Null
      /\ task[p].pc # "claimed" => Owns(p) /\ job[j].attempts = task[p].attempt
  BY <1>1, InTimeFacts DEF TypeOK
\* The task goes on in another place of its code.
<1>3. ASSUME UNCHANGED <<job, snapshot, runCompleted>>, task[p].pc # "claimed",
             NEW t \in Task, task' = [task EXCEPT ![p] = t], t.job = j,
             t.pc # "idle", t.name = task[p].name, t.attempt = task[p].attempt
      PROVE  WorkInTime' /\ CompletedStays
  <2>1. task'[p] = t /\ \A q \in Place : q # p => task'[q] = task[q]
    BY <1>3 DEF TypeOK
  <2>2. InTime(p)'
    BY <1>2, <1>3, <2>1 DEF InTime, Owns
  <2>. QED
    BY <1>1, <1>3, <2>1, <2>2, TaskGoesOn
\* The task ends, and its row is one that is not in hand.
<1>4. ASSUME EndTask(p), NEW row, job' = [job EXCEPT ![j] = row],
             UNCHANGED <<snapshot, runCompleted>>
      PROVE  WorkInTime' /\ CompletedStays
  <2>1. CompletedStays /\ \A i \in Job : i # j => job'[i] = job[i]
    BY <1>2, <1>4 DEF TypeOK, CompletedStays
  <2>. QED
    BY <1>1, <1>4, <2>1, TaskEnds, StoredStill
<1>5. ASSUME EndTask(p), UNCHANGED <<job, snapshot, runCompleted>>
      PROVE  WorkInTime' /\ CompletedStays
  <2>1. CompletedStays
    BY <1>5 DEF CompletedStays
  <2>. QED
    BY <1>1, <1>5, <2>1, TaskEnds, StoredStill
<1>6. CASE ReadClaimed(p)
  <2>1. task'[p] = [pc |-> "read", job |-> j, name |-> job[j].lockedBy,
                    attempt |-> job[j].attempts, seen |-> HasResult(j), result |-> Null]
    BY <1>6 DEF ReadClaimed, TypeOK
  <2>2. task'[p].job = j /\ task'[p].name = job[j].lockedBy /\ task'[p].attempt = job[j].attempts
    BY <2>1
  <2>3. UNCHANGED <<job, snapshot, runCompleted>> /\ \A q \in Place : q # p => task'[q] = task[q]
    BY <1>6 DEF ReadClaimed, TypeOK, result_vars
  <2>4. InTime(p)'
    BY <1>2, <2>2, <2>3 DEF InTime
  <2>. QED
    BY <1>1, <2>2, <2>3, <2>4, TaskGoesOn
<1>7. CASE CompleteStored(p)
  BY <1>2, <1>7 DEF CompleteStored, LocalStateOK
<1>8. ASSUME NEW answer \in Result \cup {InternalError}, Execute(p, answer)
      PROVE  WorkInTime' /\ CompletedStays
  <2>. DEFINE t == [task[p] EXCEPT !.result = answer,
                      !.pc = IF answer = InternalError /\ MayRetry(task[p].attempt)
                             THEN "requeue" ELSE "finish"]
  <2>1. t \in Task /\ t.job = j /\ t.pc # "idle" /\ t.name = task[p].name
        /\ t.attempt = task[p].attempt
    BY <1>2 DEF Task
  <2>2. task' = [task EXCEPT ![p] = t]
    BY <1>8 DEF Execute, TypeOK
  <2>3. UNCHANGED <<job, snapshot, runCompleted>> /\ task[p].pc # "claimed"
    BY <1>8 DEF Execute, result_vars
  <2>. HIDE DEF t
  <2>. QED
    BY <1>3, <2>1, <2>2, <2>3
<1>9. ASSUME task[p].pc # "claimed", UNCHANGED <<job, snapshot, runCompleted>>,
             NEW pc \in {"failing", "commit"}, task' = [task EXCEPT ![p].pc = pc]
      PROVE  WorkInTime' /\ CompletedStays
  <2>. DEFINE t == [task[p] EXCEPT !.pc = pc]
  <2>1. t \in Task /\ t.job = j /\ t.pc # "idle" /\ t.name = task[p].name
        /\ t.attempt = task[p].attempt
    BY <1>2 DEF Task
  <2>2. task' = [task EXCEPT ![p] = t]
    BY <1>9 DEF TypeOK
  <2>. HIDE DEF t
  <2>. QED
    BY <1>3, <1>9, <2>1, <2>2
<1>10. CASE Throw(p)
  BY <1>9, <1>10 DEF Throw, result_vars
<1>11. CASE Requeue(p)
  BY <1>4, <1>9, <1>11 DEF Requeue, result_vars
<1>12. CASE CheckOwnership(p)
  BY <1>5, <1>9, <1>12 DEF CheckOwnership, result_vars
<1>13. CASE RetryOrFail(p)
  BY <1>4, <1>13 DEF RetryOrFail, result_vars
<1>14. CASE Complete(p)
  <2>1. /\ EndTask(p) /\ job' = [job EXCEPT ![j] = SettledRow(job[j], "COMPLETED")]
        /\ \E a : snapshot' = [snapshot EXCEPT ![j] = a]
        /\ runCompleted' = [runCompleted EXCEPT ![j] = @ + 1]
    BY <1>14 DEF Complete
  <2>2. SettledRow(job[j], "COMPLETED").status = "COMPLETED"
    BY <1>2, SettledRowFields
  <2>3. job'[j].status = "COMPLETED" /\ \A i \in Job : i # j => job'[i] = job[i]
    BY <1>2, <2>1, <2>2 DEF TypeOK
  <2>4. CompletedStays /\ StoredIsCompleted'
    BY <2>1, <2>3 DEF CompletedStays, WorkInTime, StoredIsCompleted, TypeOK
  <2>5. runCompleted[j] = 0
    BY <1>2 DEF ResultsReported, TypeOK
  <2>6. CompletedOnce'
    BY <1>2, <2>1, <2>5 DEF WorkInTime, CompletedOnce, TypeOK
  <2>. QED
    BY <1>1, <2>1, <2>3, <2>4, <2>6, TaskEnds
<1>. QED
  BY <1>6, <1>7, <1>8, <1>10, <1>11, <1>12, <1>13, <1>14 DEF TaskStep

LEMMA ClaimInTime ==
  ASSUME IInv, WorkInTime, NEW w \in Worker, NEW n \in Slot, NEW j \in Job, Claim(w, n, j)
  PROVE  WorkInTime' /\ CompletedStays
<1>. DEFINE p == <<w, n>>
            row == ClaimedRow(job[j], <<w, SlotAfter(w)>>)
            t == [IdleTask EXCEPT !.pc = "claimed", !.job = j]
<1>1. /\ TypeOK /\ p \in Place /\ task[p].pc = "idle" /\ job[j].status \in {"QUEUED", "RUNNING"}
      /\ job' = [job EXCEPT ![j] = row] /\ task' = [task EXCEPT ![p] = t]
      /\ UNCHANGED <<snapshot, runCompleted>>
  BY DEF IInv, Claim, Polls, Claimable, Place, result_vars
<1>2. t.pc = "claimed" /\ t.job = j
  BY DEF IdleTask
<1>3. row.status = "RUNNING" /\ ~row.expired
  <2>1. <<w, SlotAfter(w)>> \in Name /\ job[j] \in Row
    BY <1>1, SlotAfterType DEF Name, TypeOK
  <2>. QED
    BY <2>1, ClaimedRowFields, ClaimedRowCounts
<1>4. \A q \in Place : task[q].pc # "idle" => task[q].job # j /\ task[q].job \in Job
  BY InTimeFacts DEF Claim, Claimable
<1>. HIDE DEF p, row, t
<1>5. /\ task'[p] = t /\ \A q \in Place : q # p => task'[q] = task[q]
      /\ job'[j] = row /\ \A i \in Job : i # j => job'[i] = job[i]
  BY <1>1 DEF TypeOK
<1>6. \A q \in Place : InTime(q)'
  BY <1>2, <1>3, <1>4, <1>5 DEF WorkInTime, InTime
<1>7. \A q, r \in Place : Apart(q, r)'
  BY <1>2, <1>4, <1>5 DEF WorkInTime, Apart
<1>8. CompletedStays
  BY <1>1, <1>5 DEF CompletedStays
<1>. QED
  BY <1>1, <1>6, <1>7, <1>8, StoredStill DEF WorkInTime

LEMMA NextInTime ==
  ASSUME IInv, WorkInTime, Next, Timely, Timely'
  PROVE  WorkInTime' /\ CompletedStays
<1>. TypeOK
  BY DEF IInv
<1>1. CASE StudentStep
  BY <1>1, StudentInTime DEF Timely
<1>2. ASSUME NEW p \in Place, TaskStep(p) \/ Throw(p)
      PROVE  WorkInTime' /\ CompletedStays
  BY <1>2, TaskInTime
<1>3. ASSUME NEW w \in Worker, NEW n \in Slot, NEW j \in Job, Claim(w, n, j)
      PROVE  WorkInTime' /\ CompletedStays
  BY <1>3, ClaimInTime
<1>4. ASSUME NEW w \in Worker, NEW n \in Slot, PollNothing(w, n)
      PROVE  WorkInTime' /\ CompletedStays
  BY <1>4, NobodyMoves DEF PollNothing, result_vars, CompletedStays
<1>5. ASSUME NEW w \in Worker, Crash(w)
      PROVE  WorkInTime' /\ CompletedStays
  <2>1. /\ UNCHANGED <<job, snapshot, runCompleted>>
        /\ \A q \in Place : task'[q].pc # "idle" => task'[q] = task[q]
    BY <1>5 DEF Crash, IdleTask, result_vars
  <2>2. \A q \in Place : InTime(q)' /\ \A r \in Place : Apart(q, r)'
    BY <2>1 DEF WorkInTime, InTime, Apart
  <2>3. CompletedStays
    BY <2>1 DEF CompletedStays
  <2>. QED
    BY <2>1, <2>2, <2>3, StoredStill DEF WorkInTime
<1>6. ASSUME NEW j \in Job, LeaseExpires(j)
      PROVE  WorkInTime' /\ CompletedStays
  <2>1. job' = [job EXCEPT ![j].expired = TRUE] /\ UNCHANGED <<task, snapshot, runCompleted>>
    BY <1>6 DEF LeaseExpires, Expire, result_vars
  <2>2. \A q \in Place : task[q].pc # "idle" => task[q].job # j /\ task[q].job \in Job
    BY <1>6, InTimeFacts DEF LeaseExpires, InHand
  <2>3. CompletedStays
    BY <1>6, <2>1 DEF LeaseExpires, Held, TypeOK, CompletedStays
  <2>. QED
    BY <2>1, <2>2, <2>3, NobodyMoves DEF TypeOK
<1>7. ASSUME NEW j \in Job, LeaseExpiresEarly(j)
      PROVE  FALSE
  BY <1>7 DEF LeaseExpiresEarly, Timely
<1>8. ASSUME NEW j \in Job, BackoffElapses(j)
      PROVE  WorkInTime' /\ CompletedStays
  <2>1. job' = [job EXCEPT ![j].backoff = FALSE] /\ UNCHANGED <<task, snapshot, runCompleted>>
    BY <1>8 DEF BackoffElapses, result_vars
  <2>2. /\ \A i \in Job : i # j => job'[i] = job[i]
        /\ job'[j] = [job[j] EXCEPT !.backoff = FALSE]
    BY <2>1 DEF TypeOK
  <2>3. /\ job'[j].status = job[j].status /\ job'[j].expired = job[j].expired
        /\ job'[j].lockedBy = job[j].lockedBy /\ job'[j].attempts = job[j].attempts
    BY <2>2 DEF TypeOK, Row
  <2>4. CompletedStays
    BY <2>2, <2>3 DEF CompletedStays
  <2>5. ASSUME NEW q \in Place PROVE InTime(q)'
    <3>1. task[q].pc # "idle" => task[q].job \in Job
      BY InTimeFacts
    <3>. QED
      BY <2>1, <2>2, <2>3, <3>1 DEF WorkInTime, InTime
  <2>6. \A q, r \in Place : Apart(q, r)'
    BY <2>1 DEF WorkInTime, Apart
  <2>. QED
    BY <2>1, <2>4, <2>5, <2>6, StoredStill DEF WorkInTime
<1>. QED
  BY <1>1, <1>2, <1>3, <1>4, <1>5, <1>6, <1>7, <1>8
     DEF Next, WorkerStep, ClaimStep, TimeStep

\* What was late once stays so.
LEMMA TimelyBefore ==
  ASSUME TypeOK, [Next]_vars, Timely'
  PROVE  Timely
<1>1. earlyExpiries' = earlyExpiries \/ earlyExpiries' = earlyExpiries + 1
  BY DEF Next, StudentStep, WorkerStep, TimeStep, TaskStep, ClaimStep, AccessChanges, SaveDraft,
     EnqueueRun, Enqueue, LookUpKey, AdmitSubmission, ResubmitFailed, ReadClaimed,
     CompleteStored, Execute, Requeue, CheckOwnership, Complete, RetryOrFail, Throw, Claim,
     Crash, PollNothing, LeaseExpires, LeaseExpiresEarly, BackoffElapses, vars, bound_vars
<1>2. lateRepeats' = lateRepeats \/ lateRepeats' = lateRepeats + 1
  BY DEF Next, StudentStep, WorkerStep, TimeStep, TaskStep, ClaimStep, AccessChanges, SaveDraft,
     EnqueueRun, Enqueue, LookUpKey, AdmitSubmission, ResubmitFailed, ReadClaimed,
     CompleteStored, Execute, Requeue, CheckOwnership, Complete, RetryOrFail, Throw, Claim,
     Crash, PollNothing, LeaseExpires, LeaseExpiresEarly, BackoffElapses, vars, bound_vars
<1>. QED
  BY <1>1, <1>2 DEF Timely, TypeOK

LEMMA InitInTime == Init => WorkInTime
BY DEF Init, WorkInTime, InTime, Apart, StoredIsCompleted, CompletedOnce, IdleTask

LEMMA StutterInTime ==
  ASSUME WorkInTime, UNCHANGED vars
  PROVE  WorkInTime' /\ CompletedStays
BY DEF WorkInTime, InTime, Apart, StoredIsCompleted, CompletedOnce, CompletedStays, vars,
   result_vars

THEOREM TimelyInvariance == Spec => []TimelyInv
<1>1. Init => TimelyInv
  BY InitInTime DEF TimelyInv
<1>2. IInv /\ TimelyInv /\ [Next]_vars => TimelyInv'
  BY NextInTime, StutterInTime, TimelyBefore DEF TimelyInv, IInv
<1>. QED
  BY <1>1, <1>2, Invariance, PTL DEF Spec

\* As long as leases outlive the work they are for and repeated submits do not overtake
\* one another: nobody repeats the work of another, announces it twice or reports a
\* failure that was none, however many processes exit and take over.
THEOREM WorkIsTimely == Spec => []TimelyWork
<1>1. IInv /\ TimelyInv => TimelyWork
  <2>. SUFFICES ASSUME IInv, WorkInTime
                PROVE  ExclusiveWork /\ CompletedOnce /\ FailedHasNoResult
    BY DEF TimelyInv, TimelyWork
  <2>1. ExclusiveWork
    BY InTimeFacts DEF WorkInTime, Apart, ExclusiveWork
  <2>2. CompletedOnce /\ FailedHasNoResult
    BY DEF WorkInTime, StoredIsCompleted, FailedHasNoResult, Created
  <2>. QED
    BY <2>1, <2>2
<1>. QED
  BY <1>1, Invariance, TimelyInvariance, PTL

\* As long as that is so, a COMPLETED job is never put back into the queue.
THEOREM CompletedStaysCompleted == Spec => CompletedIsFinal
<1>1. IInv /\ TimelyInv /\ [Next]_vars =>
        [Timely' => \A j \in Job :
                      job[j].status = "COMPLETED" => job'[j].status = "COMPLETED"]_vars
  BY NextInTime, StutterInTime, TimelyBefore DEF TimelyInv, IInv, CompletedStays
<1>. QED
  BY <1>1, Invariance, TimelyInvariance, PTL DEF Spec, CompletedIsFinal

-----------------------------------------------------------------------------
(* The retry budget.  A task whose lease was lost may still put its job back, *)
(* because the re-queue after an internal error is not fenced.  Whatever      *)
(* takes a lease from a task is counted as a delay; the invariant counts, for *)
(* each job, the tasks that are about it and those that may put it back.      *)

Delays == crashes + earlyExpiries + lateRepeats

TasksOf(j) == {p \in Place : task[p].pc # "idle" /\ task[p].job = j}

MayRequeue(j) == {p \in TasksOf(j) : task[p].pc # "claimed" /\ task[p].attempt < MaxAttempts}

\* The job has a task that will settle it or put it back.
Attended(j) ==
  \E p \in TasksOf(j) :
    task[p].pc = "claimed" \/ (Owns(p) /\ job[j].attempts = task[p].attempt)

\* It may come to be claimed without another delay.
MayBeClaimed(j) ==
  \/ job[j].status = "QUEUED"
  \/ job[j].status = "RUNNING" /\ (job[j].expired \/ ~Attended(j))

\* No more tasks than delays, but for the one that holds the job.
Crowd(j) ==
  /\ IsFiniteSet(TasksOf(j))
  /\ Cardinality(TasksOf(j)) <= Delays + 1
  /\ ~Held(j) => Cardinality(TasksOf(j)) <= Delays

\* Past the budget, every further claim is paid for by a delay.
Budget(j) ==
  job[j].attempts >= MaxAttempts =>
    /\ job[j].attempts + Cardinality(MayRequeue(j)) <= MaxAttempts + Delays
    /\ MayBeClaimed(j) =>
         job[j].attempts + Cardinality(MayRequeue(j)) + 1 <= MaxAttempts + Delays

RetryInv ==
  /\ \A j \in Created : Crowd(j) /\ Budget(j)
  /\ \A p \in Place : task[p].pc = "requeue" => task[p].attempt < MaxAttempts

LEMMA Fewer ==
  ASSUME NEW S, NEW T, IsFiniteSet(S), T \subseteq S
  PROVE  /\ IsFiniteSet(T) /\ Cardinality(T) \in Nat /\ Cardinality(S) \in Nat
         /\ Cardinality(T) <= Cardinality(S)
BY FS_Subset, FS_CardinalityType

LEMMA OneMore ==
  ASSUME NEW S, NEW p, IsFiniteSet(S), p \notin S
  PROVE  IsFiniteSet(S \cup {p}) /\ Cardinality(S \cup {p}) = Cardinality(S) + 1
BY FS_AddElement

LEMMA OneLess ==
  ASSUME NEW S, NEW p, IsFiniteSet(S), p \in S
  PROVE  IsFiniteSet(S \ {p}) /\ Cardinality(S \ {p}) = Cardinality(S) - 1
BY FS_RemoveElement

LEMMA Numbers ==
  ASSUME TypeOK
  PROVE  /\ Delays \in Nat /\ MaxAttempts \in Nat /\ MaxAttempts >= 1
         /\ \A j \in Job : job[j].attempts \in Nat
         /\ \A p \in Place : task[p].attempt \in Nat
BY ConstantsAssumption DEF TypeOK, Delays, Row, Task

LEMMA NumbersNext ==
  ASSUME TypeOK'
  PROVE  Delays' \in Nat /\ \A j \in Job : job'[j].attempts \in Nat
<1>1. crashes' \in Nat /\ earlyExpiries' \in Nat /\ lateRepeats' \in Nat
  BY DEF TypeOK
<1>2. Delays' = crashes' + earlyExpiries' + lateRepeats'
  BY DEF Delays
<1>3. \A j \in Job : job'[j] \in Row
  BY DEF TypeOK
<1>4. Delays' \in Nat
  <2>1. \A a, b, c \in Nat : a + b + c \in Nat
    OBVIOUS
  <2>2. crashes' + earlyExpiries' + lateRepeats' \in Nat
    BY <1>1, <2>1
  <2>. QED
    BY <1>2, <2>2
<1>. QED
  BY <1>3, <1>4 DEF Row

\* What counts about the tasks of a job.
LEMMA Counts ==
  ASSUME TypeOK, NEW j, Crowd(j)
  PROVE  /\ Cardinality(TasksOf(j)) \in Nat /\ Cardinality(MayRequeue(j)) \in Nat
         /\ IsFiniteSet(MayRequeue(j)) /\ MayRequeue(j) \subseteq TasksOf(j)
         /\ Cardinality(MayRequeue(j)) <= Cardinality(TasksOf(j))
<1>1. MayRequeue(j) \subseteq TasksOf(j)
  BY DEF MayRequeue
<1>. QED
  BY <1>1, Fewer DEF Crowd

\* A job whose tasks and row do not change in what counts, however many delays there are.
LEMMA Untouched ==
  ASSUME TypeOK, TypeOK', NEW j \in Job, Crowd(j), Budget(j), Delays' >= Delays,
         job'[j].status = job[j].status, job'[j].expired = job[j].expired,
         job'[j].lockedBy = job[j].lockedBy, job'[j].attempts = job[j].attempts,
         TasksOf(j)' = TasksOf(j), \A q \in TasksOf(j) : task'[q] = task[q]
  PROVE  Crowd(j)' /\ Budget(j)'
<1>1. MayRequeue(j)' = MayRequeue(j)
  BY DEF MayRequeue
<1>2. (Attended(j) <=> Attended(j)') /\ (Held(j) <=> Held(j)')
  BY DEF Attended, Owns, TasksOf, Held
<1>3. MayBeClaimed(j)' <=> MayBeClaimed(j)
  BY <1>2 DEF MayBeClaimed
<1>4. /\ Delays \in Nat /\ Delays' \in Nat /\ MaxAttempts \in Nat
      /\ job[j].attempts \in Nat /\ Cardinality(TasksOf(j)) \in Nat
      /\ Cardinality(MayRequeue(j)) \in Nat
  BY Counts, Numbers, NumbersNext
<1>5. Crowd(j)'
  BY <1>2, <1>4 DEF Crowd
<1>6. Budget(j)'
  BY <1>1, <1>3, <1>4 DEF Budget
<1>. QED
  BY <1>5, <1>6

\* A row that was put into the queue with no attempts.
LEMMA FreshRow ==
  ASSUME TypeOK, TypeOK', NEW j \in Job, job'[j] = NewRow, TasksOf(j)' = TasksOf(j),
         IsFiniteSet(TasksOf(j)), Cardinality(TasksOf(j)) <= Delays'
  PROVE  Crowd(j)' /\ Budget(j)'
<1>1. job'[j].attempts = 0
  BY DEF NewRow, NoRow
<1>2. Cardinality(TasksOf(j)) \in Nat
  BY FS_CardinalityType
<1>3. Crowd(j)'
  BY <1>2, NumbersNext DEF Crowd
<1>4. Budget(j)'
  BY <1>1, Numbers DEF Budget
<1>. QED
  BY <1>3, <1>4

\* A job that loses tasks to one more delay, or none to it: the delay pays.
LEMMA DelayPays ==
  ASSUME TypeOK, TypeOK', NEW j \in Job, Crowd(j), Budget(j), Delays' = Delays + 1,
         job'[j].attempts = job[j].attempts,
         TasksOf(j)' \subseteq TasksOf(j), \A q \in TasksOf(j)' : task'[q] = task[q]
  PROVE  Crowd(j)' /\ Budget(j)'
<1>. DEFINE T1 == TasksOf(j)'
            Q1 == MayRequeue(j)'
<1>1. Q1 \subseteq MayRequeue(j)
  BY DEF MayRequeue
<1>2. /\ IsFiniteSet(T1) /\ Cardinality(T1) \in Nat
      /\ Cardinality(T1) <= Cardinality(TasksOf(j))
  BY Fewer DEF Crowd
<1>3. Cardinality(Q1) \in Nat /\ Cardinality(Q1) <= Cardinality(MayRequeue(j))
  BY <1>1, Counts, Fewer
<1>4. Crowd(j)'
  BY <1>2, Counts, Numbers DEF Crowd
<1>5. Budget(j)'
  BY <1>3, Counts, Numbers DEF Budget
<1>. QED
  BY <1>4, <1>5

\* A task moves on in its code, and does not leave its job alone.
LEMMA MovesOn ==
  ASSUME TypeOK, TypeOK', LocalStateOK, RetryInv, UNCHANGED <<job, bound_vars>>,
         NEW p \in Place, task[p].pc # "idle", task'[p].pc \notin {"idle", "claimed"},
         task'[p].job = task[p].job,
         \A q \in Place : q # p => task'[q] = task[q],
         \/ task[p].pc = "claimed" /\ task'[p].name = job[task[p].job].lockedBy
                                   /\ task'[p].attempt = job[task[p].job].attempts
         \/ task[p].pc # "claimed" /\ task'[p].name = task[p].name
                                   /\ task'[p].attempt = task[p].attempt
  PROVE  \A j \in Created : Crowd(j)' /\ Budget(j)'
<1>. TAKE j \in Created
<1>1. j \in Job /\ Crowd(j) /\ Budget(j) /\ Delays' = Delays
  BY DEF RetryInv, Created, Delays, bound_vars
<1>2. TasksOf(j)' = TasksOf(j)
  BY DEF TasksOf
<1>3. CASE j # task[p].job
  <2>1. \A q \in TasksOf(j) : task'[q] = task[q]
    BY <1>3 DEF TasksOf
  <2>. QED
    BY <1>1, <1>2, <2>1, Numbers, Untouched
<1>4. CASE j = task[p].job
  <2>1. Crowd(j)'
    BY <1>1, <1>2 DEF Crowd, Held
  <2>2. ASSUME job[j].attempts >= MaxAttempts
        PROVE  MayRequeue(j)' \subseteq MayRequeue(j)
    <3>1. ASSUME NEW q \in MayRequeue(j)' PROVE q \in MayRequeue(j)
      <4>1. CASE q # p
        BY <3>1, <4>1, <1>2 DEF MayRequeue, TasksOf
      <4>2. CASE q = p
        <5>1. task[p].pc # "claimed"
          BY <1>1, <1>4, <2>2, <3>1, <4>2, Numbers DEF MayRequeue
        <5>. QED
          BY <1>2, <3>1, <4>2, <5>1 DEF MayRequeue
      <4>. QED
        BY <4>1, <4>2
    <3>. QED
      BY <3>1
  <2>3. job[j].status = "RUNNING" /\ Attended(j) => Attended(j)'
    <3>. SUFFICES ASSUME job[j].status = "RUNNING", NEW q \in TasksOf(j),
                         task[q].pc = "claimed" \/ (Owns(q) /\ job[j].attempts = task[q].attempt)
                  PROVE  Attended(j)'
      BY DEF Attended
    <3>1. q \in Place /\ q \in TasksOf(j)' /\ task[q].job = j
      BY <1>2 DEF TasksOf
    <3>2. CASE q # p
      BY <1>2, <3>1, <3>2 DEF Attended, Owns
    <3>3. CASE q = p
      BY <1>2, <1>4, <3>1, <3>3 DEF Attended, Owns
    <3>. QED
      BY <3>2, <3>3
  <2>4. MayBeClaimed(j)' => MayBeClaimed(j)
    BY <2>3 DEF MayBeClaimed
  <2>5. Budget(j)'
    <3>. SUFFICES ASSUME job[j].attempts >= MaxAttempts PROVE Budget(j)'
      BY DEF Budget
    <3>. DEFINE Q1 == MayRequeue(j)'
    <3>1. Cardinality(Q1) \in Nat /\ Cardinality(Q1) <= Cardinality(MayRequeue(j))
      BY <1>1, <2>2, Counts, Fewer
    <3>. QED
      BY <1>1, <2>4, <3>1, Counts, Numbers DEF Budget
  <2>. QED
    BY <2>1, <2>5
<1>. QED
  BY <1>3, <1>4

\* A task ends, having written its row or not.
LEMMA LeavesJob ==
  ASSUME TypeOK, TypeOK', LocalStateOK, RetryInv, UNCHANGED bound_vars,
         NEW p \in Place, task[p].pc \notin {"idle", "claimed"}, EndTask(p),
         \A i \in Job : i # task[p].job => job'[i] = job[i],
         job'[task[p].job].attempts = job[task[p].job].attempts,
         \/ /\ job'[task[p].job] = job[task[p].job]
            /\ ~(Owns(p) /\ job[task[p].job].attempts = task[p].attempt)
         \/ /\ job'[task[p].job].status = "QUEUED"
            /\ task[p].attempt < MaxAttempts \/ job[task[p].job].attempts < MaxAttempts
         \/ job'[task[p].job].status \in {"COMPLETED", "FAILED"}
  PROVE  \A j \in Created : Crowd(j)' /\ Budget(j)'
<1>. TAKE j \in Created
<1>1. j \in Job /\ Crowd(j) /\ Budget(j) /\ Delays' = Delays
  BY DEF RetryInv, Created, Delays, bound_vars
<1>2. task'[p].pc = "idle" /\ \A q \in Place : q # p => task'[q] = task[q]
  BY DEF TypeOK, EndTask, IdleTask
<1>3. CASE j # task[p].job
  <2>1. TasksOf(j)' = TasksOf(j) /\ \A q \in TasksOf(j) : task'[q] = task[q]
    BY <1>2, <1>3 DEF TasksOf
  <2>. QED
    BY <1>1, <1>3, <2>1, Numbers, Untouched
<1>4. CASE j = task[p].job
  <2>. DEFINE T == TasksOf(j)
              T1 == TasksOf(j)'
              Q == MayRequeue(j)
              Q1 == MayRequeue(j)'
  <2>1. T1 = T \ {p} /\ p \in T
    BY <1>2, <1>4 DEF TasksOf
  <2>2. Q1 = Q \ {p}
    BY <1>2, <2>1 DEF MayRequeue, TasksOf
  <2>3. /\ IsFiniteSet(T) /\ IsFiniteSet(Q) /\ IsFiniteSet(T1)
        /\ Cardinality(T1) = Cardinality(T) - 1
        /\ Cardinality(T) \in Nat /\ Cardinality(Q) \in Nat
    BY <1>1, <2>1, Counts, OneLess DEF Crowd
  <2>4. Cardinality(Q1) \in Nat /\ Cardinality(Q1) <= Cardinality(Q)
    BY <2>2, <2>3, Fewer
  <2>5. p \in Q => Cardinality(Q1) = Cardinality(Q) - 1
    BY <2>2, <2>3, OneLess
  <2>. HIDE DEF T, T1, Q, Q1
  <2>6. Crowd(j)'
    BY <1>1, <2>3, Numbers DEF Crowd, T, T1
  <2>7. Budget(j)'
    <3>. SUFFICES ASSUME job[j].attempts >= MaxAttempts
                  PROVE  /\ job[j].attempts + Cardinality(Q1) <= MaxAttempts + Delays
                         /\ MayBeClaimed(j)' =>
                              job[j].attempts + Cardinality(Q1) + 1 <= MaxAttempts + Delays
      BY <1>1, <1>4 DEF Budget, Q1
    <3>1. /\ job[j].attempts + Cardinality(Q) <= MaxAttempts + Delays
          /\ MayBeClaimed(j) => job[j].attempts + Cardinality(Q) + 1 <= MaxAttempts + Delays
      BY <1>1 DEF Budget, Q
    <3>2. job[j].attempts \in Nat /\ MaxAttempts \in Nat /\ Delays \in Nat
      BY <1>1, Numbers
    <3>3. job[j].attempts + Cardinality(Q1) <= MaxAttempts + Delays
      BY <2>3, <2>4, <3>1, <3>2
    <3>4. CASE /\ job'[j] = job[j]
               /\ ~(Owns(p) /\ job[j].attempts = task[p].attempt)
      <4>1. Attended(j) => Attended(j)'
        <5>. SUFFICES ASSUME NEW q \in TasksOf(j),
                             \/ task[q].pc = "claimed"
                             \/ Owns(q) /\ job[j].attempts = task[q].attempt
                      PROVE  Attended(j)'
          BY DEF Attended
        <5>1. q # p
          BY <3>4
        <5>2. q \in TasksOf(j)' /\ task'[q] = task[q] /\ task[q].job = j
          BY <1>2, <2>1, <5>1 DEF T, T1, TasksOf
        <5>. QED
          BY <3>4, <5>2 DEF Attended, Owns
      <4>2. MayBeClaimed(j)' => MayBeClaimed(j)
        BY <3>4, <4>1 DEF MayBeClaimed
      <4>. QED
        BY <2>3, <2>4, <3>1, <3>2, <3>3, <4>2
    <3>5. CASE job'[j].status = "QUEUED" /\ task[p].attempt < MaxAttempts
      <4>1. p \in Q
        BY <2>1, <3>5 DEF T, Q, MayRequeue
      <4>. QED
        BY <2>3, <2>4, <2>5, <3>1, <3>2, <3>3, <4>1
    <3>6. CASE job'[j].status \in {"COMPLETED", "FAILED"}
      BY <3>3, <3>6 DEF MayBeClaimed
    <3>7. ~(job[j].attempts < MaxAttempts)
      BY <3>2
    <3>. QED
      BY <1>4, <3>4, <3>5, <3>6, <3>7
  <2>. QED
    BY <2>6, <2>7
<1>. QED
  BY <1>3, <1>4

\* What a step of a task does to the budget of the jobs there are.
TaskKeeps(p) ==
  /\ \A i \in Created : Crowd(i)' /\ Budget(i)'
  /\ task'[p].pc = "requeue" => task'[p].attempt < MaxAttempts
  /\ \A q \in Place : q # p => task'[q] = task[q]

LEMMA TaskBudget ==
  ASSUME IInv, TypeOK', RetryInv, NEW p \in Place, TaskStep(p) \/ Throw(p)
  PROVE  TaskKeeps(p)
<1>. DEFINE j == task[p].job
<1>. TypeOK /\ LocalStateOK
  BY DEF IInv
<1>1. task[p].pc # "idle"
  BY DEF TaskStep, Throw, ReadClaimed, CompleteStored, Execute, Requeue, CheckOwnership,
     Complete, RetryOrFail
<1>2. j \in Job /\ j \in Created /\ task[p] \in Task /\ job[j] \in Row
  BY <1>1 DEF LocalStateOK, TypeOK, Created
\* The task goes on.
<1>3. ASSUME UNCHANGED <<job, bound_vars>>, task[p].pc # "claimed",
             NEW t \in Task, task' = [task EXCEPT ![p] = t], t.job = j,
             t.pc \notin {"idle", "claimed"}, t.name = task[p].name, t.attempt = task[p].attempt,
             t.pc = "requeue" => t.attempt < MaxAttempts
      PROVE  TaskKeeps(p)
  <2>1. task'[p] = t /\ \A q \in Place : q # p => task'[q] = task[q]
    BY <1>3 DEF TypeOK
  <2>2. \A i \in Created : Crowd(i)' /\ Budget(i)'
    BY <1>1, <1>3, <2>1, MovesOn
  <2>. QED
    BY <1>3, <2>1, <2>2 DEF TaskKeeps
\* It ends.
<1>4. ASSUME EndTask(p), UNCHANGED bound_vars, task[p].pc # "claimed",
             NEW row \in Row, job' = [job EXCEPT ![j] = row], row.attempts = job[j].attempts,
             \/ row = job[j] /\ ~(Owns(p) /\ job[j].attempts = task[p].attempt)
             \/ row.status = "QUEUED"
                /\ (task[p].attempt < MaxAttempts \/ job[j].attempts < MaxAttempts)
             \/ row.status \in {"COMPLETED", "FAILED"}
      PROVE  TaskKeeps(p)
  <2>1. task'[p] = IdleTask /\ \A q \in Place : q # p => task'[q] = task[q]
    BY <1>4 DEF EndTask, TypeOK
  <2>2. job'[j] = row /\ \A i \in Job : i # j => job'[i] = job[i]
    BY <1>2, <1>4 DEF TypeOK
  <2>3. \A i \in Created : Crowd(i)' /\ Budget(i)'
    BY <1>1, <1>4, <2>2, LeavesJob
  <2>. QED
    BY <2>1, <2>3 DEF TaskKeeps, IdleTask
<1>5. CASE ReadClaimed(p)
  <2>1. task'[p] = [pc |-> "read", job |-> j, name |-> job[j].lockedBy,
                    attempt |-> job[j].attempts, seen |-> HasResult(j), result |-> Null]
    BY <1>5 DEF ReadClaimed, TypeOK
  <2>2. /\ task'[p].pc = "read" /\ task'[p].job = j
        /\ task'[p].name = job[j].lockedBy /\ task'[p].attempt = job[j].attempts
    BY <2>1
  <2>3. /\ UNCHANGED <<job, bound_vars>> /\ \A q \in Place : q # p => task'[q] = task[q]
        /\ task[p].pc = "claimed"
    BY <1>5 DEF ReadClaimed, TypeOK
  <2>4. \A i \in Created : Crowd(i)' /\ Budget(i)'
    BY <1>1, <2>2, <2>3, MovesOn
  <2>. QED
    BY <2>2, <2>3, <2>4 DEF TaskKeeps
<1>6. ASSUME NEW answer \in Result \cup {InternalError}, Execute(p, answer)
      PROVE  TaskKeeps(p)
  <2>. DEFINE pc == IF answer = InternalError /\ task[p].attempt < MaxAttempts
                    THEN "requeue" ELSE "finish"
              t == [task[p] EXCEPT !.result = answer, !.pc = pc]
  <2>1. /\ t \in Task /\ t.job = j /\ t.pc = pc /\ t.name = task[p].name
        /\ t.attempt = task[p].attempt
    BY <1>2 DEF Task
  <2>2. task' = [task EXCEPT ![p] = t]
    BY <1>6 DEF Execute, TypeOK
  <2>3. UNCHANGED <<job, bound_vars>> /\ task[p].pc # "claimed"
    BY <1>6 DEF Execute
  <2>4. pc \notin {"idle", "claimed"} /\ (pc = "requeue" => task[p].attempt < MaxAttempts)
    OBVIOUS
  <2>. HIDE DEF t, pc
  <2>. QED
    BY <1>3, <2>1, <2>2, <2>3, <2>4
<1>7. ASSUME task[p].pc # "claimed", UNCHANGED <<job, bound_vars>>,
             NEW pc \in {"failing", "commit"}, task' = [task EXCEPT ![p].pc = pc]
      PROVE  TaskKeeps(p)
  <2>. DEFINE t == [task[p] EXCEPT !.pc = pc]
  <2>1. t \in Task /\ t.job = j /\ t.pc = pc /\ t.name = task[p].name
        /\ t.attempt = task[p].attempt
    BY <1>2 DEF Task
  <2>2. task' = [task EXCEPT ![p] = t]
    BY <1>7 DEF TypeOK
  <2>. HIDE DEF t
  <2>. QED
    BY <1>3, <1>7, <2>1, <2>2
<1>8. ASSUME NEW status \in {"COMPLETED", "FAILED"}, EndTask(p), UNCHANGED bound_vars,
             task[p].pc # "claimed", job' = [job EXCEPT ![j] = SettledRow(job[j], status)]
      PROVE  TaskKeeps(p)
  <2>. DEFINE row == SettledRow(job[j], status)
  <2>1. row \in Row /\ row.status = status
    BY <1>2, SettledRowFields
  <2>2. row.attempts = job[j].attempts
    BY <1>2 DEF SettledRow, Row
  <2>. HIDE DEF row
  <2>3. job' = [job EXCEPT ![j] = row]
    BY <1>8 DEF row
  <2>. QED
    BY <1>4, <1>8, <2>1, <2>2, <2>3
<1>9. ASSUME EndTask(p), UNCHANGED bound_vars, task[p].pc # "claimed",
             task[p].attempt < MaxAttempts, job' = [job EXCEPT ![j] = RequeuedRow(job[j])]
      PROVE  TaskKeeps(p)
  <2>. DEFINE row == RequeuedRow(job[j])
  <2>1. row \in Row /\ row.status = "QUEUED"
    BY <1>2, RequeuedRowFields
  <2>2. row.attempts = job[j].attempts
    BY <1>2 DEF RequeuedRow, Row
  <2>. HIDE DEF row
  <2>3. job' = [job EXCEPT ![j] = row]
    BY <1>9 DEF row
  <2>. QED
    BY <1>4, <1>9, <2>1, <2>2, <2>3
<1>10. ASSUME EndTask(p), UNCHANGED <<job, bound_vars>>, task[p].pc # "claimed",
              ~(Owns(p) /\ job[j].attempts = task[p].attempt)
       PROVE  TaskKeeps(p)
  <2>1. job' = [job EXCEPT ![j] = job[j]]
    BY <1>10 DEF TypeOK
  <2>. QED
    BY <1>2, <1>4, <1>10, <2>1
<1>11. CASE CompleteStored(p)
  BY <1>8, <1>11 DEF CompleteStored
<1>12. CASE Throw(p)
  BY <1>7, <1>12 DEF Throw
<1>13. CASE Requeue(p)
  <2>1. task[p].attempt < MaxAttempts
    BY <1>13 DEF Requeue, RetryInv
  <2>. QED
    BY <1>7, <1>9, <1>13, <2>1 DEF Requeue
<1>14. CASE CheckOwnership(p)
  BY <1>7, <1>10, <1>14 DEF CheckOwnership
<1>15. CASE Complete(p)
  BY <1>8, <1>15 DEF Complete
<1>16. CASE RetryOrFail(p)
  <2>1. EndTask(p) /\ UNCHANGED bound_vars /\ task[p].pc # "claimed"
    BY <1>16 DEF RetryOrFail
  <2>2. CASE ~Owns(p) \/ job[j].attempts # task[p].attempt
    <3>1. job' = [job EXCEPT ![j] = job[j]]
      BY <1>16, <2>2 DEF RetryOrFail
    <3>2. job' = job
      BY <3>1 DEF TypeOK
    <3>. QED
      BY <1>10, <2>1, <2>2, <3>2
  <2>3. CASE ~(~Owns(p) \/ job[j].attempts # task[p].attempt) /\ MayRetry(task[p].attempt)
    <3>1. job' = [job EXCEPT ![j] = RequeuedRow(job[j])]
      BY <1>16, <2>3 DEF RetryOrFail
    <3>. QED
      BY <1>9, <2>1, <2>3, <3>1
  <2>4. CASE ~(~Owns(p) \/ job[j].attempts # task[p].attempt) /\ ~MayRetry(task[p].attempt)
    <3>1. job' = [job EXCEPT ![j] = SettledRow(job[j], "FAILED")]
      BY <1>16, <2>4 DEF RetryOrFail
    <3>. QED
      BY <1>8, <2>1, <3>1
  <2>. QED
    BY <2>2, <2>3, <2>4
<1>. QED
  BY <1>5, <1>6, <1>11, <1>12, <1>13, <1>14, <1>15, <1>16 DEF TaskStep

\* The tasks stay, and so do the attempts of the rows.
LEMMA NobodyBudget ==
  ASSUME TypeOK, TypeOK', RetryInv, UNCHANGED <<job, task, bound_vars>>
  PROVE  RetryInv'
<1>1. Created' = Created /\ Delays' = Delays
  BY DEF Created, Delays, bound_vars
<1>2. ASSUME NEW j \in Created PROVE Crowd(j)' /\ Budget(j)'
  <2>1. TasksOf(j)' = TasksOf(j) /\ \A q \in TasksOf(j) : task'[q] = task[q]
    BY DEF TasksOf
  <2>. QED
    BY <1>1, <2>1, Numbers, Untouched DEF RetryInv, Created
<1>. QED
  BY <1>1, <1>2 DEF RetryInv

\* Nobody has anything to do with a job that is not there.
LEMMA NoTasksBefore ==
  ASSUME LocalStateOK, NEW j, j \notin Created
  PROVE  TasksOf(j) = {}
BY DEF LocalStateOK, TasksOf

LEMMA StudentBudget ==
  ASSUME IInv, TypeOK', RetryInv, StudentStep
  PROVE  RetryInv'
<1>. TypeOK /\ LocalStateOK
  BY DEF IInv
\* A row is put into the queue with no attempts.
<1>1. ASSUME NEW j \in Job, job' = [job EXCEPT ![j] = NewRow], UNCHANGED task,
             Delays' >= Delays, j \in Created => Cardinality(TasksOf(j)) <= Delays'
      PROVE  RetryInv'
  <2>1. TasksOf(j)' = TasksOf(j) /\ job'[j] = NewRow
    BY <1>1 DEF TasksOf, TypeOK
  <2>2. IsFiniteSet(TasksOf(j)) /\ Cardinality(TasksOf(j)) <= Delays'
    <3>1. CASE j \in Created
      BY <1>1, <3>1 DEF RetryInv, Crowd
    <3>2. CASE j \notin Created
      <4>1. TasksOf(j) = {}
        BY <3>2, NoTasksBefore
      <4>2. IsFiniteSet(TasksOf(j)) /\ Cardinality(TasksOf(j)) = 0
        BY <4>1, FS_EmptySet
      <4>. QED
        BY <4>2, NumbersNext
    <3>. QED
      BY <3>1, <3>2
  <2>3. Crowd(j)' /\ Budget(j)'
    BY <2>1, <2>2, FreshRow
  <2>4. ASSUME NEW i \in Created, i # j PROVE Crowd(i)' /\ Budget(i)'
    <3>1. /\ i \in Job /\ Crowd(i) /\ Budget(i)
          /\ TasksOf(i)' = TasksOf(i) /\ \A q \in TasksOf(i) : task'[q] = task[q]
      BY <1>1 DEF RetryInv, Created, TasksOf
    <3>2. job'[i] = job[i]
      BY <1>1, <2>4, <3>1 DEF TypeOK
    <3>. QED
      BY <1>1, <3>1, <3>2, Untouched
  <2>5. Created' \subseteq Created \cup {j}
    BY <1>1 DEF Created, TypeOK
  <2>. QED
    BY <1>1, <2>3, <2>4, <2>5 DEF RetryInv
<1>2. ASSUME NEW r, Enqueue(r)
      PROVE  RetryInv'
  <2>1. PICK j \in Job : Enqueue(r)!(j)
    BY <1>2 DEF Enqueue
  <2>2. j \notin Created /\ Delays' = Delays
    BY <2>1 DEF NextJob, Delays, bound_vars
  <2>3. job' = [job EXCEPT ![j] = NewRow] /\ UNCHANGED task
    BY <2>1
  <2>4. Delays' >= Delays
    BY <2>2, Numbers
  <2>. QED
    BY <1>1, <2>2, <2>3, <2>4
<1>3. ASSUME NEW s \in Session, NEW a \in AccessState, AccessChanges(s, a)
      PROVE  RetryInv'
  BY <1>3, NobodyBudget DEF AccessChanges
<1>4. ASSUME NEW s \in Session, NEW src \in Source, SaveDraft(s, src)
      PROVE  RetryInv'
  BY <1>4, NobodyBudget DEF SaveDraft
<1>5. ASSUME NEW s \in Session, NEW src \in Source, EnqueueRun(s, src)
      PROVE  RetryInv'
  BY <1>2, <1>5 DEF EnqueueRun
<1>6. ASSUME NEW h \in Handler, NEW key \in Key, NEW src \in Source, LookUpKey(h, key, src)
      PROVE  RetryInv'
  <2>1. /\ UNCHANGED <<job, task>> /\ Created' = Created /\ Delays' = Delays
    BY <1>6 DEF LookUpKey, Created, Delays
  <2>2. ASSUME NEW j \in Created PROVE Crowd(j)' /\ Budget(j)'
    <3>1. TasksOf(j)' = TasksOf(j) /\ \A q \in TasksOf(j) : task'[q] = task[q]
      BY <2>1 DEF TasksOf
    <3>. QED
      BY <2>1, <3>1, Numbers, Untouched DEF RetryInv, Created
  <2>. QED
    BY <2>1, <2>2 DEF RetryInv
<1>7. ASSUME NEW h \in Handler, AdmitSubmission(h)
      PROVE  RetryInv'
  BY <1>2, <1>7, NobodyBudget DEF AdmitSubmission
<1>8. ASSUME NEW h \in Handler, ResubmitFailed(h)
      PROVE  RetryInv'
  <2>. DEFINE j == handler[h].job
  <2>1. j \in Job /\ j \in Created /\ UNCHANGED task
    BY <1>8 DEF ResubmitFailed, LocalStateOK, Created
  <2>2. CASE IndexAccepts(j)
    <3>1. /\ job' = [job EXCEPT ![j] = NewRow]
          /\ lateRepeats' = IF Repeatable(j) THEN lateRepeats ELSE lateRepeats + 1
          /\ UNCHANGED <<earlyExpiries, crashes>>
      BY <1>8, <2>2 DEF ResubmitFailed
    <3>2. Delays' = IF Repeatable(j) THEN Delays ELSE Delays + 1
      BY <3>1 DEF Delays, TypeOK
    <3>3. Crowd(j)
      BY <2>1 DEF RetryInv
    <3>4. Repeatable(j) => ~Held(j)
      BY DEF Repeatable, Held
    <3>5. Cardinality(TasksOf(j)) <= Delays' /\ Delays' >= Delays
      BY <3>2, <3>3, <3>4, Numbers DEF Crowd
    <3>. QED
      BY <1>1, <2>1, <3>1, <3>5
  <2>3. CASE ~IndexAccepts(j)
    BY <1>8, <2>1, <2>3, NobodyBudget DEF ResubmitFailed, bound_vars
  <2>. QED
    BY <2>2, <2>3
<1>. QED
  BY <1>3, <1>4, <1>5, <1>6, <1>7, <1>8 DEF StudentStep

LEMMA ClaimBudget ==
  ASSUME IInv, TypeOK', RetryInv, NEW w \in Worker, NEW n \in Slot, NEW j \in Job,
         Claim(w, n, j)
  PROVE  RetryInv'
<1>. DEFINE p == <<w, n>>
            row == ClaimedRow(job[j], <<w, SlotAfter(w)>>)
            t == [IdleTask EXCEPT !.pc = "claimed", !.job = j]
            T == TasksOf(j)
            T1 == TasksOf(j)'
            Q == MayRequeue(j)
            Q1 == MayRequeue(j)'
<1>1. /\ TypeOK /\ p \in Place /\ task[p].pc = "idle"
      /\ job[j].status = "QUEUED" \/ (job[j].status = "RUNNING" /\ job[j].expired)
      /\ job' = [job EXCEPT ![j] = row] /\ task' = [task EXCEPT ![p] = t]
      /\ Delays' = Delays
  BY DEF IInv, Claim, Polls, Claimable, Place, Delays, bound_vars
<1>2. t.pc = "claimed" /\ t.job = j
  BY DEF IdleTask
<1>3. row.status = "RUNNING" /\ ~row.expired /\ row.attempts = job[j].attempts + 1
  <2>1. <<w, SlotAfter(w)>> \in Name /\ job[j] \in Row
    BY <1>1, SlotAfterType DEF Name, TypeOK
  <2>. QED
    BY <2>1, ClaimedRowFields, ClaimedRowCounts
<1>. HIDE DEF p, row, t
<1>4. /\ task'[p] = t /\ \A q \in Place : q # p => task'[q] = task[q]
      /\ job'[j] = row /\ \A i \in Job : i # j => job'[i] = job[i]
  BY <1>1 DEF TypeOK
<1>5. j \in Created /\ Created' = Created
  BY <1>1, <1>3, <1>4 DEF Created
<1>6. ASSUME NEW i \in Created, i # j PROVE Crowd(i)' /\ Budget(i)'
  <2>1. i \in Job /\ TasksOf(i)' = TasksOf(i) /\ \A q \in TasksOf(i) : task'[q] = task[q]
    BY <1>1, <1>2, <1>4, <1>6 DEF TasksOf, Created
  <2>. QED
    BY <1>1, <1>4, <1>6, <2>1, Numbers, Untouched DEF RetryInv
<1>7. T1 = T \cup {p} /\ p \notin T /\ Q1 = Q
  BY <1>1, <1>2, <1>4 DEF TasksOf, MayRequeue
<1>8. Crowd(j) /\ Budget(j)
  BY <1>5 DEF RetryInv
<1>9. /\ IsFiniteSet(T1) /\ Cardinality(T1) = Cardinality(T) + 1
      /\ Cardinality(T) \in Nat /\ Cardinality(T) <= Delays
      /\ Cardinality(Q) \in Nat /\ Cardinality(Q) <= Cardinality(T)
  BY <1>1, <1>7, <1>8, Counts, OneMore DEF Crowd, Held
<1>10. Crowd(j)'
  <2>1. Held(j)'
    BY <1>3, <1>4 DEF Held
  <2>. QED
    BY <1>1, <1>9, <2>1, Numbers DEF Crowd
<1>11. ~MayBeClaimed(j)'
  <2>1. p \in TasksOf(j)' /\ task'[p].pc = "claimed"
    BY <1>2, <1>4, <1>7
  <2>. QED
    BY <1>3, <1>4, <2>1 DEF MayBeClaimed, Attended
<1>12. MayBeClaimed(j)
  BY <1>1 DEF MayBeClaimed
<1>. HIDE DEF T, T1, Q, Q1
<1>13. Budget(j)'
  <2>. SUFFICES ASSUME job[j].attempts + 1 >= MaxAttempts
                PROVE  job[j].attempts + 1 + Cardinality(Q1) <= MaxAttempts + Delays
    BY <1>1, <1>3, <1>4, <1>11 DEF Budget, Q1
  <2>1. job[j].attempts \in Nat /\ MaxAttempts \in Nat /\ Delays \in Nat
    BY <1>1, Numbers
  <2>2. CASE job[j].attempts >= MaxAttempts
    <3>1. job[j].attempts + Cardinality(Q) + 1 <= MaxAttempts + Delays
      BY <1>8, <1>12, <2>2 DEF Budget, Q
    <3>. QED
      BY <1>7, <1>9, <2>1, <3>1
  <2>3. CASE job[j].attempts + 1 = MaxAttempts
    BY <1>7, <1>9, <2>1, <2>3
  <2>. QED
    BY <2>1, <2>2, <2>3
<1>14. \A q \in Place : task'[q].pc = "requeue" => task'[q].attempt < MaxAttempts
  BY <1>2, <1>4 DEF RetryInv
<1>. QED
  BY <1>5, <1>6, <1>10, <1>13, <1>14 DEF RetryInv

LEMMA CrashBudget ==
  ASSUME IInv, TypeOK', RetryInv, NEW w \in Worker, Crash(w)
  PROVE  RetryInv'
<1>1. /\ TypeOK /\ UNCHANGED job /\ Delays' = Delays + 1 /\ Created' = Created
      /\ \A q \in Place : task'[q].pc # "idle" => task'[q] = task[q]
  BY DEF IInv, Crash, Delays, Created, IdleTask, TypeOK
<1>2. ASSUME NEW j \in Created PROVE Crowd(j)' /\ Budget(j)'
  <2>1. TasksOf(j)' \subseteq TasksOf(j) /\ \A q \in TasksOf(j)' : task'[q] = task[q]
    BY <1>1 DEF TasksOf
  <2>. QED
    BY <1>1, <1>2, <2>1, DelayPays DEF RetryInv, Created
<1>. QED
  BY <1>1, <1>2 DEF RetryInv

LEMMA TimeBudget ==
  ASSUME IInv, TypeOK', RetryInv, NEW j \in Job,
         LeaseExpires(j) \/ LeaseExpiresEarly(j) \/ BackoffElapses(j)
  PROVE  RetryInv'
<1>. TypeOK
  BY DEF IInv
<1>1. UNCHANGED task /\ \A i \in Job : i # j => job'[i] = job[i]
  BY DEF LeaseExpires, LeaseExpiresEarly, BackoffElapses, Expire, TypeOK
<1>2. /\ job'[j].status = job[j].status /\ job'[j].lockedBy = job[j].lockedBy
      /\ job'[j].attempts = job[j].attempts
      /\ BackoffElapses(j) => job'[j].expired = job[j].expired
  BY DEF LeaseExpires, LeaseExpiresEarly, BackoffElapses, Expire, TypeOK, Row
<1>3. Created' = Created
  BY <1>1, <1>2 DEF Created
<1>4. \A i \in Created : /\ i \in Job /\ Crowd(i) /\ Budget(i) /\ TasksOf(i)' = TasksOf(i)
                         /\ \A q \in TasksOf(i) : task'[q] = task[q]
  BY <1>1 DEF RetryInv, Created, TasksOf
<1>5. Delays' >= Delays
  BY Numbers DEF LeaseExpires, LeaseExpiresEarly, BackoffElapses, Delays, bound_vars, TypeOK
<1>6. ASSUME NEW i \in Created, i # j PROVE Crowd(i)' /\ Budget(i)'
  BY <1>1, <1>4, <1>5, <1>6, Untouched
<1>7. ASSUME j \in Created PROVE Crowd(j)' /\ Budget(j)'
  <2>1. CASE BackoffElapses(j)
    BY <1>2, <1>4, <1>5, <1>7, <2>1, Untouched
  <2>2. CASE LeaseExpiresEarly(j)
    <3>1. Delays' = Delays + 1
      BY <2>2 DEF LeaseExpiresEarly, Delays, TypeOK
    <3>. QED
      BY <1>2, <1>4, <1>7, <3>1, DelayPays
  <2>3. CASE LeaseExpires(j)
    <3>1. TasksOf(j) = {} /\ TasksOf(j)' = {} /\ Delays' = Delays
      BY <1>4, <1>7, <2>3 DEF LeaseExpires, InHand, TasksOf, Delays, bound_vars
    <3>2. MayRequeue(j) = {} /\ MayRequeue(j)' = {}
      BY <3>1 DEF MayRequeue
    <3>3. MayBeClaimed(j)
      BY <2>3, <3>1 DEF LeaseExpires, Held, MayBeClaimed, Attended
    <3>4. Cardinality({}) = 0 /\ IsFiniteSet({})
      BY FS_EmptySet
    <3>5. Crowd(j)'
      BY <3>1, <3>4, Numbers DEF Crowd
    <3>6. Budget(j)'
      BY <1>2, <1>4, <1>7, <3>1, <3>2, <3>3, <3>4, Numbers DEF Budget
    <3>. QED
      BY <3>5, <3>6
  <2>. QED
    BY <2>1, <2>2, <2>3
<1>. QED
  BY <1>1, <1>3, <1>6, <1>7 DEF RetryInv

LEMMA NextBudget ==
  ASSUME IInv, TypeOK', RetryInv, [Next]_vars
  PROVE  RetryInv'
<1>. TypeOK
  BY DEF IInv
<1>1. ASSUME NEW p \in Place, TaskStep(p) \/ Throw(p) PROVE RetryInv'
  <2>1. TaskKeeps(p) /\ Next
    BY <1>1, TaskBudget DEF Next, WorkerStep
  <2>2. Created' \subseteq Created
    <3>1. \A j \in Job : job[j].status = "none" => job'[j].status = "none"
      <4>1. task[p].pc # "idle" => task[p].job \in Created
        BY DEF IInv, LocalStateOK
      <4>. QED
        BY <1>1, <4>1 DEF TaskStep, Throw, ReadClaimed, CompleteStored, Execute, Requeue,
           CheckOwnership, Complete, RetryOrFail, Created, TypeOK
    <3>. QED
      BY <3>1 DEF Created
  <2>. QED
    BY <2>1, <2>2 DEF TaskKeeps, RetryInv
<1>2. ASSUME NEW w \in Worker, NEW n \in Slot, PollNothing(w, n) PROVE RetryInv'
  BY <1>2, NobodyBudget DEF PollNothing
<1>3. CASE UNCHANGED vars
  BY <1>3, NobodyBudget DEF vars
<1>4. CASE Next
  BY <1>1, <1>2, <1>4, StudentBudget, ClaimBudget, CrashBudget, TimeBudget
     DEF Next, WorkerStep, ClaimStep, TimeStep
<1>. QED
  BY <1>3, <1>4

THEOREM RetryInvariance == Spec => []RetryInv
<1>1. Init => RetryInv
  BY DEF Init, RetryInv, Created, NoRow, IdleTask
<1>2. IInv /\ IInv' /\ RetryInv /\ [Next]_vars => RetryInv'
  BY NextBudget DEF IInv
<1>. QED
  BY <1>1, <1>2, Invariance, PTL DEF Spec

\* Retries are bounded: every claim beyond the budget is paid for by an exit of a
\* process, a lease that ended under a working task or a repeated submit that came late.
THEOREM RetriesAreBounded == Spec => []RetryBudget
<1>1. IInv /\ RetryInv => RetryBudget
  <2>. SUFFICES ASSUME IInv, RetryInv, NEW j \in Created
                PROVE  job[j].attempts <= MaxAttempts + crashes + earlyExpiries + lateRepeats
    BY DEF RetryBudget
  <2>1. TypeOK /\ j \in Job /\ Crowd(j) /\ Budget(j)
    BY DEF IInv, RetryInv, Created
  <2>2. job[j].attempts <= MaxAttempts + Delays
    BY <2>1, Counts, Numbers DEF Budget
  <2>. QED
    BY <2>1, <2>2, ConstantsAssumption DEF Delays, TypeOK
<1>. QED
  BY <1>1, Invariance, RetryInvariance, PTL
=============================================================================
