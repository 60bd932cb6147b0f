--------------------------- MODULE InlineAttempts ---------------------------
(***************************************************************************)
(* Run and submit when LABRIX_EXECUTION_DISPATCH is inline: the web        *)
(* process executes the source itself, between a transaction that records  *)
(* the run and one that stores its result; a submit then links the result  *)
(* in a third, serializable one (backend/server/attempts/service.ts).  The *)
(* executionRequestGuard of a process lets it handle one run or submit per *)
(* session at a time; between processes there is only the database.        *)
(*                                                                         *)
(* The sessions are the numbered attempts of one student at one practical. *)
(* A submission is named by its session, which it is unique in.            *)
(*                                                                         *)
(* Left out: drafts (see ExecutionQueue), results beyond their existence,  *)
(* the cool-down of runs, which only refuses requests, and events.         *)
(***************************************************************************)
EXTENDS Naturals

CONSTANTS
  Source,
  Process,       \* web processes
  Request,       \* run or submit requests they may handle at one time
  AccessState,   \* what teachers and the deadline may make of the practical
  Null,
  MaxSessions,   \* bound: attempts opened
  MaxPages,      \* bound: workspace pages, hence keys, per session
  MaxRuns,       \* bound: runs recorded
  MaxCrashes     \* bound: process exits

Session == 1 .. MaxSessions
RunId == 1 .. MaxRuns
Key == Session \X (1 .. MaxPages)
Call == [pc : {"idle", "lookup", "check", "create", "store", "submit", "recover"},
         process : Process \cup {Null}, session : Session \cup {Null},
         key : Key \cup {Null}, source : Source \cup {Null},
         run : RunId \cup {Null}]
Run == [session : Session, source : Source]
Submission == [key : Key, source : Source, run : RunId]

ASSUME InlineAssumption ==
  /\ \A b \in {MaxSessions, MaxPages, MaxRuns, MaxCrashes} : b \in Nat
  /\ AccessState \subseteq {"open", "late", "closed"}
  /\ Null \notin Process \cup Source \cup Session \cup Key \cup RunId
                   \cup Run \cup Submission

VARIABLES
  status,      \* CodingSession.status of an attempt
  access,      \* publication, membership and deadline of the practical
  run,         \* RunAttempt
  stored,      \* the runs with a ResultSnapshot
  submission,  \* SubmissionAttempt of a session
  call,        \* the requests being handled
  guarded,     \* the entries of a process's guard that are active
  replies,     \* history: the submissions that answered requests with a key
  crashes

vars == <<status, access, run, stored, submission, call, guarded, replies, crashes>>

database == <<status, run, stored, submission>>

IdleCall == [pc |-> "idle", process |-> Null, session |-> Null, key |-> Null,
             source |-> Null, run |-> Null]

Init ==
  /\ status = [s \in Session |-> "none"]
  /\ access = "open"
  /\ run = [r \in RunId |-> Null]
  /\ stored = {}
  /\ submission = [s \in Session |-> Null]
  /\ call = [q \in Request |-> IdleCall]
  /\ guarded = [w \in Process |-> {}]
  /\ replies = [k \in Key |-> {}]
  /\ crashes = 0

-----------------------------------------------------------------------------
AccessChanges(a) ==
  /\ access # a
  /\ access' = a
  /\ UNCHANGED <<database, call, guarded, replies, crashes>>

\* getOrCreateStudentWorkspace: a workspace whose session was submitted opens
\* the next numbered attempt.
OpenWorkspace(s) ==
  /\ access # "closed"
  /\ \A t \in Session : status[t] # "ACTIVE" /\ (status[t] = "none" <=> s <= t)
  /\ status' = [status EXCEPT ![s] = "ACTIVE"]
  /\ UNCHANGED <<access, run, stored, submission, call, guarded, replies, crashes>>

\* executionRequestGuard.execute
Guards_RunsOnly(w, s, kind) == kind = "run" => s \notin guarded[w]
Guards(w, s, kind) == s \notin guarded[w]

Begin(q, w, s, kind, c) ==
  /\ call[q].pc = "idle"
  /\ status[s] # "none"
  /\ Guards(w, s, kind)
  /\ guarded' = [guarded EXCEPT ![w] = @ \cup {s}]
  /\ call' = [call EXCEPT ![q] = c]
  /\ UNCHANGED <<database, access, replies, crashes>>

BeginRun(q, w, s, src) ==
  Begin(q, w, s, "run",
        [pc |-> "check", process |-> w, session |-> s, key |-> Null,
         source |-> src, run |-> Null])

BeginSubmit(q, w, key, src) ==
  Begin(q, w, key[1], "submit",
        [pc |-> "lookup", process |-> w, session |-> key[1], key |-> key,
         source |-> src, run |-> Null])

\* The request ends; the guard's `finally` releases the session.
End(q) ==
  /\ call' = [call EXCEPT ![q] = IdleCall]
  /\ guarded' = [guarded EXCEPT ![call[q].process] = @ \ {call[q].session}]

Fail(q) == End(q) /\ UNCHANGED replies

Reply(q, s) ==
  /\ End(q)
  /\ replies' = [replies EXCEPT ![call[q].key] = @ \cup {s}]

GoTo(q, pc) ==
  /\ call' = [call EXCEPT ![q].pc = pc]
  /\ UNCHANGED <<guarded, replies>>

\* findIdempotentSubmission
Keyed(key) == {s \in Session : submission[s] # Null /\ submission[s].key = key}

LookUp(q) ==
  /\ call[q].pc = "lookup"
  /\ \/ \E s \in Keyed(call[q].key) : Reply(q, s)
     \/ Keyed(call[q].key) = {} /\ GoTo(q, "check")
  /\ UNCHANGED <<database, access, crashes>>

-----------------------------------------------------------------------------
(* executeStudentDraft *)

\* requireActiveStudentSession
ActiveSession(s) == status[s] = "ACTIVE" /\ access # "closed"

\* The first transaction reads the session ...
CheckSession(q) ==
  LET c == call[q] IN
  /\ c.pc = "check"
  /\ IF ActiveSession(c.session) /\ (c.key # Null => access = "open")
     THEN GoTo(q, "create")
     ELSE Fail(q)
  /\ UNCHANGED <<database, access, crashes>>

\* ... and creates the run later, at READ COMMITTED: another process may have
\* closed the session in between.
CreateRun(q) ==
  LET c == call[q] IN
  /\ c.pc = "create"
  /\ \E r \in RunId :
       /\ run[r] = Null /\ \A i \in RunId : run[i] = Null => r <= i
       /\ run' = [run EXCEPT ![r] = [session |-> c.session, source |-> c.source]]
       /\ call' = [call EXCEPT ![q].run = r, ![q].pc = "store"]
  /\ UNCHANGED <<status, access, stored, submission, guarded, replies, crashes>>

\* The source was executed (or the provider failed, which is a result too); the
\* second transaction stores the result and does not look at the session.
StoreResult(q) ==
  LET c == call[q] IN
  /\ c.pc = "store"
  /\ stored' = stored \cup {c.run}
  /\ IF c.key = Null THEN Fail(q) ELSE GoTo(q, "submit")
  /\ UNCHANGED <<status, access, run, submission, crashes>>

-----------------------------------------------------------------------------
(* submitStudentDraftWithoutGuard *)

\* Whose result the submission takes.
SubmittedRun_Latest(q) ==
  CHOOSE r \in stored :
    /\ run[r].session = call[q].session
    /\ \A i \in stored : run[i].session = call[q].session => i <= r
SubmittedRun(q) == call[q].run

MaySubmit(q) == ActiveSession(call[q].session) /\ access = "open"

CreateSubmission(q) ==
  LET c == call[q] IN
  /\ submission' = [submission EXCEPT ![c.session] =
       [key |-> c.key, source |-> c.source, run |-> SubmittedRun(q)]]
  /\ status' = [status EXCEPT ![c.session] = "SUBMITTED"]

\* The serializable transaction.  When it commits and the process does not
\* learn of it, the request goes the way of a failed one.
Submit(q) ==
  LET c == call[q] IN
  /\ c.pc = "submit"
  /\ \/ /\ \E s \in Keyed(c.key) : Reply(q, s)
        /\ UNCHANGED <<status, submission>>
     \/ /\ Keyed(c.key) = {} /\ MaySubmit(q)
        /\ CreateSubmission(q)
        /\ Reply(q, c.session) \/ GoTo(q, "recover")
     \/ /\ Keyed(c.key) = {} /\ ~MaySubmit(q)
        /\ IF ActiveSession(c.session)
           THEN Fail(q)                  \* SubmissionDeadlineError
           ELSE GoTo(q, "recover")       \* AccessDeniedError
        /\ UNCHANGED <<status, submission>>
  /\ UNCHANGED <<access, run, stored, crashes>>

\* Where a failed submit looks for a submission: under its key, else that of
\* its session.
Recovered_AnySession(q) == {s \in Session : submission[s] # Null}
Recovered_Unfound(q) ==
  IF Keyed(call[q].key) # {} THEN Keyed(call[q].key)
  ELSE {IF submission[call[q].session] # Null THEN call[q].session ELSE Null}
Recovered(q) ==
  IF Keyed(call[q].key) # {} THEN Keyed(call[q].key)
  ELSE {s \in {call[q].session} : submission[s] # Null}

Recover(q) ==
  /\ call[q].pc = "recover"
  /\ \/ \E s \in Recovered(q) : Reply(q, s)
     \/ Recovered(q) = {} /\ Fail(q)
  /\ UNCHANGED <<database, access, crashes>>

\* A statement throws: only the submitting transaction has a catch.
Throw(q) ==
  /\ call[q].pc # "idle"
  /\ IF call[q].pc = "submit" THEN GoTo(q, "recover") ELSE Fail(q)
  /\ UNCHANGED <<database, access, crashes>>

\* A web process exits: its requests and its guard are gone.
Crash(w) ==
  /\ crashes < MaxCrashes
  /\ crashes' = crashes + 1
  /\ call' = [q \in Request |-> IF call[q].process = w THEN IdleCall ELSE call[q]]
  /\ guarded' = [guarded EXCEPT ![w] = {}]
  /\ UNCHANGED <<database, access, replies>>

-----------------------------------------------------------------------------
CallStep(q) ==
  \/ LookUp(q) \/ CheckSession(q) \/ CreateRun(q) \/ StoreResult(q)
  \/ Submit(q) \/ Recover(q) \/ Throw(q)

Next ==
  \/ \E a \in AccessState : AccessChanges(a)
  \/ \E s \in Session : OpenWorkspace(s)
  \/ \E q \in Request, w \in Process, src \in Source :
       \/ \E s \in Session : BeginRun(q, w, s, src)
       \/ \E key \in Key : BeginSubmit(q, w, key, src)
  \/ \E q \in Request : CallStep(q)
  \/ \E w \in Process : Crash(w)

Spec == Init /\ [][Next]_vars

-----------------------------------------------------------------------------
TypeOK ==
  /\ status \in [Session -> {"none", "ACTIVE", "SUBMITTED"}]
  /\ access \in {"open", "late", "closed"}
  /\ run \in [RunId -> Run \cup {Null}]
  /\ stored \subseteq RunId
  /\ submission \in [Session -> Submission \cup {Null}]
  /\ call \in [Request -> Call]
  /\ guarded \in [Process -> SUBSET Session]
  /\ replies \in [Key -> SUBSET Session]
  /\ crashes \in Nat

\* A session is closed exactly when it has a submission, and the submission's
\* source is the one its result was computed from, by a run of that session:
\* also when two processes submit the session with different sources.
SubmissionMatchesRun ==
  \A s \in Session :
    LET sub == submission[s] IN
    /\ status[s] = "SUBMITTED" <=> sub # Null
    /\ sub # Null =>
         /\ sub.run \in stored
         /\ run[sub.run] = [session |-> s, source |-> sub.source]
         /\ sub.key[1] = s

\* A repeated request gets the same submission, whatever else was submitted or
\* failed in between, and it is one of the page's own session.
RepliesAgree ==
  \A k \in Key : replies[k] \subseteq {s \in {k[1]} : submission[s] # Null}

\* The guard holds exactly the sessions being worked on: at most one request of
\* a process works on a session, and no entry outlives its request.
GuardExact ==
  \A w \in Process, s \in Session :
    LET working == {q \in Request : call[q].process = w /\ call[q].session = s} IN
    /\ s \in guarded[w] <=> working # {}
    /\ \A q, p \in working : q = p

\* Submissions are never replaced and sessions never reopened.
SubmissionsImmutable ==
  [][\A s \in Session :
       /\ submission[s] # Null => submission'[s] = submission[s]
       /\ status[s] = "SUBMITTED" => status'[s] = "SUBMITTED"]_vars

\* The submissions and the answers keep SubmissionContract.
SessionOf(k) == k[1]
Contract ==
  INSTANCE SubmissionContract WITH
    submitted <- submission, answers <- replies, Entry <- Submission, None <- Null
KeepsSubmissionContract == Contract!Spec
=============================================================================
