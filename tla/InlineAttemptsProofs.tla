------------------------ MODULE InlineAttemptsProofs ------------------------
(***************************************************************************)
(* Theorems about InlineAttempts, for any number of web processes,         *)
(* requests, sessions, pages, runs and crashes.                            *)
(*                                                                         *)
(* What a request remembers between its awaits has to stay true: CallOK    *)
(* says so, and it does because runs and results only grow.  From it a     *)
(* submission is of the run its request made (SubmissionMatchesRun).       *)
(* The last part is about the sessions one process did all the work of.    *)
(***************************************************************************)
EXTENDS MCInlineAttempts, TLAPS

RequestOK(q) ==
  LET c == call[q] IN
    /\ c.pc = "idle" <=> c.process = Null
    /\ c.pc # "idle" =>
         /\ c.process \in Process /\ c.session \in Session /\ c.source \in Source
         /\ status[c.session] # "none"
         /\ c.key # Null => c.key \in Key /\ c.key[1] = c.session
    /\ c.pc \in {"lookup", "submit", "recover"} => c.key # Null
    /\ c.pc \in {"store", "submit"} =>
         /\ c.run \in RunId
         /\ run[c.run] = [session |-> c.session, source |-> c.source]
    /\ c.pc = "submit" => c.run \in stored

CallOK == \A q \in Request : RequestOK(q)

InlineInv ==
  /\ TypeOK
  /\ CallOK
  /\ SubmissionMatchesRun
  /\ RepliesAgree
  /\ GuardExact

USE InlineAssumption

LEMMA NullFresh ==
  /\ Null \notin Process /\ Null \notin Source /\ Null \notin Session
  /\ Null \notin Key /\ Null \notin RunId /\ Null \notin Run /\ Null \notin Submission
BY DEF InlineAssumption

LEMMA InitInv == Init => InlineInv
<1> SUFFICES ASSUME Init PROVE InlineInv
  OBVIOUS
<1>. /\ IdleCall \in Call /\ IdleCall.pc = "idle" /\ IdleCall.process = Null
     /\ IdleCall.session = Null
  BY DEF IdleCall, Call
<1>1. TypeOK
  BY DEF Init, TypeOK
<1>2. CallOK
  BY DEF Init, CallOK, RequestOK
<1>3. SubmissionMatchesRun /\ RepliesAgree
  BY DEF Init, SubmissionMatchesRun, RepliesAgree
<1>4. GuardExact
  BY NullFresh DEF Init, GuardExact
<1>. QED
  BY <1>1, <1>2, <1>3, <1>4 DEF InlineInv

-----------------------------------------------------------------------------
(* What a request relies on never goes away. *)
Grows ==
  /\ \A s \in Session : status[s] # "none" => status'[s] # "none"
  /\ \A r \in RunId : run[r] # Null => run'[r] = run[r]
  /\ stored \subseteq stored'
  /\ \A s \in Session :
       /\ submission[s] # Null => submission'[s] = submission[s]
       /\ status[s] = "SUBMITTED" => status'[s] = "SUBMITTED"

LEMMA OthersOK ==
  ASSUME InlineInv, Grows, NEW p \in Request, call'[p] = call[p]
  PROVE  RequestOK(p)'
<1>1. RequestOK(p)
  BY DEF InlineInv, CallOK
<1>. DEFINE c == call[p]
<1>2. c.pc \in {"store", "submit"} => c.run \in RunId /\ run[c.run] # Null
  BY <1>1, NullFresh DEF RequestOK, Run
<1>3. c.pc \in {"store", "submit"} => run'[c.run] = run[c.run]
  BY <1>2 DEF Grows
<1>4. c.pc # "idle" => status'[c.session] # "none"
  BY <1>1 DEF RequestOK, Grows
<1>5. c.pc = "submit" => c.run \in stored'
  BY <1>1 DEF RequestOK, Grows
<1>6. RequestOK(p)' <=>
        /\ c.pc = "idle" <=> c.process = Null
        /\ c.pc # "idle" =>
             /\ c.process \in Process /\ c.session \in Session /\ c.source \in Source
             /\ status'[c.session] # "none"
             /\ c.key # Null => c.key \in Key /\ c.key[1] = c.session
        /\ c.pc \in {"lookup", "submit", "recover"} => c.key # Null
        /\ c.pc \in {"store", "submit"} =>
             /\ c.run \in RunId
             /\ run'[c.run] = [session |-> c.session, source |-> c.source]
        /\ c.pc = "submit" => c.run \in stored'
  BY DEF RequestOK
<1>. HIDE DEF c
<1>7. /\ c.pc = "idle" <=> c.process = Null
      /\ c.pc # "idle" =>
           /\ c.process \in Process /\ c.session \in Session /\ c.source \in Source
           /\ c.key # Null => c.key \in Key /\ c.key[1] = c.session
      /\ c.pc \in {"lookup", "submit", "recover"} => c.key # Null
      /\ c.pc \in {"store", "submit"} =>
           /\ c.run \in RunId
           /\ run[c.run] = [session |-> c.session, source |-> c.source]
  BY <1>1 DEF RequestOK, c
<1>. QED
  BY <1>3, <1>4, <1>5, <1>6, <1>7

\* The submissions stay right when runs and results are added.
LEMMA MatchesStill ==
  ASSUME InlineInv, Grows, UNCHANGED <<status, submission>>
  PROVE  SubmissionMatchesRun'
<1>1. ASSUME NEW s \in Session, submission[s] # Null
      PROVE  /\ submission[s].run \in stored
             /\ run'[submission[s].run] = [session |-> s, source |-> submission[s].source]
             /\ submission[s].key[1] = s
  <2>1. submission[s] \in Submission
    BY <1>1 DEF InlineInv, TypeOK
  <2>2. /\ submission[s].run \in stored
        /\ run[submission[s].run] = [session |-> s, source |-> submission[s].source]
        /\ submission[s].key[1] = s
    BY <1>1 DEF InlineInv, SubmissionMatchesRun
  <2>3. submission[s].run \in RunId /\ submission[s].source \in Source
    BY <2>1 DEF Submission
  <2>4. run[submission[s].run] \in Run
    BY <2>2, <2>3 DEF Run
  <2>5. run[submission[s].run] # Null
    BY <2>4, NullFresh
  <2>. QED
    BY <2>2, <2>3, <2>5 DEF Grows
<1>2. \A s \in Session : status[s] = "SUBMITTED" <=> submission[s] # Null
  BY DEF InlineInv, SubmissionMatchesRun
<1>. QED
  BY <1>1, <1>2 DEF SubmissionMatchesRun, Grows

LEMMA RepliesStill ==
  ASSUME InlineInv, Grows, UNCHANGED replies
  PROVE  RepliesAgree'
BY DEF InlineInv, RepliesAgree, Grows, Key

\* A step that lets every request keep its process and session keeps the guard.
LEMMA GuardStill ==
  ASSUME InlineInv, UNCHANGED guarded,
         \A p \in Request : /\ call'[p].process = call[p].process
                            /\ call'[p].session = call[p].session
  PROVE  GuardExact'
BY DEF InlineInv, GuardExact

\* Request q moves on, with call c.
LEMMA Moves ==
  ASSUME InlineInv, Grows, NEW q \in Request, NEW c \in Call,
         call' = [call EXCEPT ![q] = c], UNCHANGED guarded,
         c.process = call[q].process, c.session = call[q].session,
         RequestOK(q)'
  PROVE  CallOK' /\ GuardExact' /\ call' \in [Request -> Call]
<1>. call \in [Request -> Call]
  BY DEF InlineInv, TypeOK
<1>1. \A p \in Request \ {q} : call'[p] = call[p]
  OBVIOUS
<1>2. call'[q] = c
  OBVIOUS
<1>3. CallOK'
  BY <1>1, OthersOK DEF CallOK
<1>4. GuardExact'
  BY <1>1, <1>2, GuardStill
<1>. QED
  BY <1>3, <1>4

\* Request q ends and the guard lets go of its session, which no other request
\* of the process works on.
LEMMA Ends ==
  ASSUME InlineInv, Grows, NEW q \in Request, call[q].pc # "idle", End(q)
  PROVE  /\ CallOK' /\ GuardExact'
         /\ call' \in [Request -> Call] /\ guarded' \in [Process -> SUBSET Session]
<1>. DEFINE w == call[q].process
            s == call[q].session
<1>1. /\ call \in [Request -> Call] /\ guarded \in [Process -> SUBSET Session]
      /\ w \in Process /\ s \in Session
  BY DEF InlineInv, TypeOK, CallOK, RequestOK
<1>2. IdleCall \in Call /\ IdleCall.process = Null /\ IdleCall.pc = "idle"
      /\ IdleCall.session = Null /\ IdleCall.key = Null
  BY DEF IdleCall, Call
<1>3. /\ call'[q] = IdleCall
      /\ \A p \in Request \ {q} : call'[p] = call[p]
      /\ call' \in [Request -> Call]
  BY <1>1, <1>2 DEF End
<1>4. /\ guarded'[w] = guarded[w] \ {s}
      /\ \A v \in Process \ {w} : guarded'[v] = guarded[v]
      /\ guarded' \in [Process -> SUBSET Session]
  BY <1>1 DEF End
<1>5. RequestOK(q)'
  BY <1>2, <1>3 DEF RequestOK
<1>6. CallOK'
  BY <1>3, <1>5, OthersOK DEF CallOK
<1>7. ASSUME NEW v \in Process, NEW x \in Session
      PROVE  /\ x \in guarded'[v] <=>
                  {p \in Request : call'[p].process = v /\ call'[p].session = x} # {}
             /\ \A p, r \in {p \in Request : call'[p].process = v /\ call'[p].session = x} :
                  p = r
  <2>. DEFINE Now == {p \in Request : call[p].process = v /\ call[p].session = x}
              Then == {p \in Request : call'[p].process = v /\ call'[p].session = x}
  <2>1. x \in guarded[v] <=> Now # {}
    BY DEF InlineInv, GuardExact
  <2>2. \A p, r \in Now : p = r
    BY DEF InlineInv, GuardExact
  <2>3. Then = Now \ {q}
    BY <1>2, <1>3, NullFresh
  <2>4. CASE v = w /\ x = s
    <3>1. q \in Now
      BY <2>4
    <3>2. Then = {}
      BY <2>2, <2>3, <3>1
    <3>. QED
      BY <1>4, <2>4, <3>2
  <2>5. CASE ~(v = w /\ x = s)
    <3>1. q \notin Now
      BY <2>5
    <3>2. Then = Now
      BY <2>3, <3>1
    <3>3. x \in guarded'[v] <=> x \in guarded[v]
      BY <1>4, <2>5
    <3>. QED
      BY <2>1, <2>2, <3>2, <3>3
  <2>. QED
    BY <2>4, <2>5
<1>8. GuardExact'
  BY <1>7 DEF GuardExact
<1>. QED
  BY <1>3, <1>4, <1>6, <1>8

-----------------------------------------------------------------------------
(* The ways a request goes on: what they leave of the invariant to prove is *)
(* about the database.                                                      *)
Handling ==
  /\ CallOK
  /\ GuardExact
  /\ RepliesAgree
  /\ call \in [Request -> Call]
  /\ guarded \in [Process -> SUBSET Session]
  /\ replies \in [Key -> SUBSET Session]

LEMMA Failing ==
  ASSUME InlineInv, Grows, NEW q \in Request, call[q].pc # "idle", Fail(q)
  PROVE  Handling'
<1>1. End(q) /\ UNCHANGED replies
  BY DEF Fail
<1>2. replies' \in [Key -> SUBSET Session]
  BY <1>1 DEF InlineInv, TypeOK
<1>. QED
  BY <1>1, <1>2, Ends, RepliesStill DEF Handling

\* An answer is the submission of the request's own session.
LEMMA Replying ==
  ASSUME InlineInv, Grows, NEW q \in Request, call[q].pc # "idle",
         call[q].key # Null, Reply(q, call[q].session),
         submission'[call[q].session] # Null
  PROVE  Handling'
<1>. DEFINE k == call[q].key
            s == call[q].session
<1>1. k \in Key /\ k[1] = s /\ s \in Session
  BY DEF InlineInv, CallOK, RequestOK
<1>2. End(q) /\ replies' = [replies EXCEPT ![k] = @ \cup {s}]
  BY DEF Reply
<1>3. replies \in [Key -> SUBSET Session]
  BY DEF InlineInv, TypeOK
<1>4. replies' \in [Key -> SUBSET Session]
  BY <1>1, <1>2, <1>3
<1>5. ASSUME NEW i \in Key
      PROVE  replies'[i] \subseteq {t \in {i[1]} : submission'[t] # Null}
  <2>1. replies[i] \subseteq {t \in {i[1]} : submission[t] # Null}
    BY DEF InlineInv, RepliesAgree
  <2>2. i[1] \in Session
    BY DEF Key
  <2>3. replies[i] \subseteq {t \in {i[1]} : submission'[t] # Null}
    BY <2>1, <2>2 DEF Grows
  <2>4. CASE i = k
    <3>1. replies'[i] = replies[i] \cup {s}
      BY <1>1, <1>2, <1>3, <2>4
    <3>. QED
      BY <1>1, <2>3, <2>4, <3>1
  <2>5. CASE i # k
    BY <1>2, <1>3, <2>3, <2>5
  <2>. QED
    BY <2>4, <2>5
<1>6. RepliesAgree'
  BY <1>5 DEF RepliesAgree
<1>. QED
  BY <1>2, <1>4, <1>6, Ends DEF Handling

LEMMA Going ==
  ASSUME InlineInv, Grows, NEW q \in Request, call[q].pc # "idle",
         NEW pc \in {"check", "create", "submit", "recover"}, GoTo(q, pc),
         pc \in {"submit", "recover"} => call[q].key # Null,
         pc = "submit" => call[q].pc = "store" /\ call[q].run \in stored'
  PROVE  Handling'
<1>. DEFINE c == [call[q] EXCEPT !.pc = pc]
<1>1. call[q] \in Call /\ replies \in [Key -> SUBSET Session]
      /\ guarded \in [Process -> SUBSET Session] /\ call \in [Request -> Call]
  BY DEF InlineInv, TypeOK
<1>2. /\ c \in Call /\ c.pc = pc
      /\ c.process = call[q].process /\ c.session = call[q].session
      /\ c.key = call[q].key /\ c.source = call[q].source /\ c.run = call[q].run
  BY <1>1 DEF Call
<1>3. call' = [call EXCEPT ![q] = c] /\ UNCHANGED <<guarded, replies>>
  BY DEF GoTo
<1>. HIDE DEF c
<1>4. call'[q] = c
  BY <1>1, <1>3
<1>5. RequestOK(q)
  BY DEF InlineInv, CallOK
<1>6. /\ c.process \in Process /\ c.session \in Session /\ c.source \in Source
      /\ status[c.session] # "none"
      /\ c.key # Null => c.key \in Key /\ c.key[1] = c.session
  BY <1>2, <1>5 DEF RequestOK
<1>7. pc = "submit" => /\ c.run \in RunId
                       /\ run[c.run] = [session |-> c.session, source |-> c.source]
                       /\ c.run \in stored'
  BY <1>2, <1>5 DEF RequestOK
<1>8. pc = "submit" => run'[c.run] = run[c.run]
  <2>1. pc = "submit" => run[c.run] \in Run
    BY <1>6, <1>7 DEF Run
  <2>. QED
    BY <1>7, <2>1, NullFresh DEF Grows
<1>9. RequestOK(q)'
  <2>1. status'[c.session] # "none" /\ c.process # Null
    BY <1>6, NullFresh DEF Grows
  <2>2. pc \in {"submit", "recover"} => c.key # Null
    BY <1>2
  <2>. QED
    BY <1>2, <1>4, <1>6, <1>7, <1>8, <2>1, <2>2 DEF RequestOK
<1>10. CallOK' /\ GuardExact' /\ call' \in [Request -> Call]
  BY <1>2, <1>3, <1>9, Moves
<1>. QED
  BY <1>1, <1>3, <1>10, RepliesStill DEF Handling

\* A step that only reads the database.
LEMMA Reading ==
  ASSUME InlineInv, UNCHANGED <<database, access, crashes>>, Grows => Handling'
  PROVE  InlineInv' /\ Grows
<1>1. Grows
  BY DEF Grows, database
<1>2. SubmissionMatchesRun'
  BY <1>1, MatchesStill DEF database
<1>3. TypeOK'
  BY <1>1 DEF InlineInv, TypeOK, Handling, database
<1>. QED
  BY <1>1, <1>2, <1>3 DEF InlineInv, Handling

-----------------------------------------------------------------------------
(* One lemma for each action. *)
LEMMA AccessChangesInv ==
  ASSUME InlineInv, NEW a \in AccessState, AccessChanges(a)
  PROVE  InlineInv' /\ Grows
<1>1. Grows
  BY DEF AccessChanges, Grows, database
<1>2. SubmissionMatchesRun' /\ RepliesAgree' /\ GuardExact'
  BY <1>1, MatchesStill, RepliesStill, GuardStill DEF AccessChanges, database
<1>3. CallOK'
  BY <1>1, OthersOK DEF AccessChanges, CallOK
<1>4. TypeOK'
  BY DEF AccessChanges, InlineInv, TypeOK, database
<1>. QED
  BY <1>1, <1>2, <1>3, <1>4 DEF InlineInv

\* The session that is opened had no attempt before.
LEMMA OpenWorkspaceInv ==
  ASSUME InlineInv, NEW s \in Session, OpenWorkspace(s)
  PROVE  InlineInv' /\ Grows
<1>1. status[s] = "none"
  BY DEF OpenWorkspace, InlineInv, TypeOK, Session
<1>2. /\ status' = [status EXCEPT ![s] = "ACTIVE"]
      /\ status \in [Session -> {"none", "ACTIVE", "SUBMITTED"}]
      /\ UNCHANGED <<access, run, stored, submission, call, guarded, replies, crashes>>
  BY DEF OpenWorkspace, InlineInv, TypeOK
<1>3. Grows
  BY <1>1, <1>2 DEF Grows
<1>4. submission[s] = Null
  BY <1>1 DEF InlineInv, SubmissionMatchesRun
<1>5. SubmissionMatchesRun'
  <2>. SUFFICES ASSUME NEW t \in Session
                PROVE  /\ status'[t] = "SUBMITTED" <=> submission[t] # Null
                       /\ submission[t] # Null =>
                            /\ submission[t].run \in stored
                            /\ run[submission[t].run] =
                                 [session |-> t, source |-> submission[t].source]
                            /\ submission[t].key[1] = t
    BY <1>2 DEF SubmissionMatchesRun
  <2>. QED
    BY <1>2, <1>4 DEF InlineInv, SubmissionMatchesRun
<1>6. RepliesAgree' /\ GuardExact'
  BY <1>2, <1>3, RepliesStill, GuardStill
<1>7. CallOK'
  BY <1>2, <1>3, OthersOK DEF CallOK
<1>8. TypeOK'
  BY <1>2 DEF InlineInv, TypeOK
<1>. QED
  BY <1>3, <1>5, <1>6, <1>7, <1>8 DEF InlineInv

\* The guard lets in a request whose session no other request of the process
\* works on.
LEMMA BeginInv ==
  ASSUME InlineInv, NEW q \in Request, NEW w \in Process, NEW s \in Session,
         NEW kind, NEW c \in Call, Begin(q, w, s, kind, c),
         c.process = w, c.session = s, c.source \in Source,
         c.key # Null => c.key \in Key /\ c.key[1] = s,
         c.pc = "check" \/ (c.pc = "lookup" /\ c.key # Null)
  PROVE  InlineInv' /\ Grows
<1>1. /\ call \in [Request -> Call] /\ guarded \in [Process -> SUBSET Session]
      /\ call[q].pc = "idle" /\ status[s] # "none" /\ s \notin guarded[w]
      /\ guarded' = [guarded EXCEPT ![w] = @ \cup {s}]
      /\ call' = [call EXCEPT ![q] = c]
      /\ UNCHANGED <<database, access, replies, crashes>>
  BY DEF InlineInv, TypeOK, Begin, Guards
<1>2. Grows
  BY <1>1 DEF Grows, database
<1>3. /\ call'[q] = c
      /\ \A p \in Request \ {q} : call'[p] = call[p]
      /\ call' \in [Request -> Call]
  BY <1>1
<1>4. /\ guarded'[w] = guarded[w] \cup {s}
      /\ \A v \in Process \ {w} : guarded'[v] = guarded[v]
      /\ guarded' \in [Process -> SUBSET Session]
  BY <1>1
<1>5. call[q].process = Null
  BY <1>1 DEF InlineInv, CallOK, RequestOK
<1>6. RequestOK(q)'
  <2>1. c.process # Null /\ status'[s] # "none"
    BY <1>1, NullFresh DEF database
  <2>. QED
    BY <1>3, <2>1 DEF RequestOK
<1>7. CallOK'
  BY <1>2, <1>3, <1>6, OthersOK DEF CallOK
<1>8. ASSUME NEW v \in Process, NEW x \in Session
      PROVE  /\ x \in guarded'[v] <=>
                  {p \in Request : call'[p].process = v /\ call'[p].session = x} # {}
             /\ \A p, r \in {p \in Request : call'[p].process = v /\ call'[p].session = x} :
                  p = r
  <2>. DEFINE Now == {p \in Request : call[p].process = v /\ call[p].session = x}
              Then == {p \in Request : call'[p].process = v /\ call'[p].session = x}
  <2>1. x \in guarded[v] <=> Now # {}
    BY DEF InlineInv, GuardExact
  <2>2. \A p, r \in Now : p = r
    BY DEF InlineInv, GuardExact
  <2>3. q \notin Now
    BY <1>5, NullFresh
  <2>4. CASE v = w /\ x = s
    <3>1. Now = {}
      BY <1>1, <2>1, <2>4
    <3>2. Then = {q}
      BY <1>3, <2>4, <3>1
    <3>. QED
      BY <1>4, <2>4, <3>2
  <2>5. CASE ~(v = w /\ x = s)
    <3>1. Then = Now
      BY <1>3, <2>3, <2>5
    <3>2. x \in guarded'[v] <=> x \in guarded[v]
      BY <1>4, <2>5
    <3>. QED
      BY <2>1, <2>2, <3>1, <3>2
  <2>. QED
    BY <2>4, <2>5
<1>9. GuardExact'
  BY <1>8 DEF GuardExact
<1>10. SubmissionMatchesRun' /\ RepliesAgree'
  BY <1>1, <1>2, MatchesStill, RepliesStill DEF database
<1>11. TypeOK'
  BY <1>1, <1>3, <1>4 DEF InlineInv, TypeOK, database
<1>. QED
  BY <1>2, <1>7, <1>9, <1>10, <1>11 DEF InlineInv

LEMMA BeginRunInv ==
  ASSUME InlineInv, NEW q \in Request, NEW w \in Process, NEW s \in Session,
         NEW src \in Source, BeginRun(q, w, s, src)
  PROVE  InlineInv' /\ Grows
<1>. DEFINE c == [pc |-> "check", process |-> w, session |-> s, key |-> Null,
                  source |-> src, run |-> Null]
<1>1. c \in Call /\ c.process = w /\ c.session = s /\ c.source \in Source
      /\ c.pc = "check"
  BY DEF Call
<1>2. c.key # Null => c.key \in Key /\ c.key[1] = s
  OBVIOUS
<1>3. Begin(q, w, s, "run", c)
  BY DEF BeginRun
<1>. HIDE DEF c
<1>. QED
  BY <1>1, <1>2, <1>3, BeginInv

LEMMA BeginSubmitInv ==
  ASSUME InlineInv, NEW q \in Request, NEW w \in Process, NEW key \in Key,
         NEW src \in Source, BeginSubmit(q, w, key, src)
  PROVE  InlineInv' /\ Grows
<1>. DEFINE s == key[1]
            c == [pc |-> "lookup", process |-> w, session |-> s, key |-> key,
                  source |-> src, run |-> Null]
<1>1. s \in Session /\ key # Null
  BY NullFresh DEF Key
<1>2. c \in Call /\ c.process = w /\ c.session = s /\ c.source \in Source
      /\ c.key = key /\ c.pc = "lookup"
  BY <1>1 DEF Call
<1>3. Begin(q, w, s, "submit", c)
  BY DEF BeginSubmit
<1>4. c.key # Null => c.key \in Key /\ c.key[1] = s
  BY <1>2
<1>. HIDE DEF c, s
<1>. QED
  BY <1>1, <1>2, <1>3, <1>4, BeginInv

\* What is found under the key of a request is the submission of its session.
LEMMA KeyedIsOwn ==
  ASSUME InlineInv, NEW q \in Request, call[q].pc # "idle", call[q].key # Null,
         NEW s \in Keyed(call[q].key)
  PROVE  s = call[q].session /\ s \in Session /\ submission[s] # Null
<1>1. call[q].key[1] = call[q].session
  BY DEF InlineInv, CallOK, RequestOK
<1>2. s \in Session /\ submission[s] # Null /\ submission[s].key = call[q].key
  BY DEF Keyed
<1>3. submission[s].key[1] = s
  BY <1>2 DEF InlineInv, SubmissionMatchesRun
<1>. QED
  BY <1>1, <1>2, <1>3

LEMMA LookUpInv ==
  ASSUME InlineInv, NEW q \in Request, LookUp(q)
  PROVE  InlineInv' /\ Grows
<1>1. call[q].pc = "lookup" /\ UNCHANGED <<database, access, crashes>>
  BY DEF LookUp
<1>2. call[q].key # Null
  BY <1>1 DEF InlineInv, CallOK, RequestOK
<1>3. ASSUME Grows PROVE Handling'
  <2>1. CASE \E s \in Keyed(call[q].key) : Reply(q, s)
    <3>1. PICK s \in Keyed(call[q].key) : Reply(q, s)
      BY <2>1
    <3>2. s = call[q].session /\ submission'[s] # Null
      BY <1>1, <1>2, KeyedIsOwn DEF database
    <3>. QED
      BY <1>1, <1>2, <1>3, <3>1, <3>2, Replying
  <2>2. CASE GoTo(q, "check")
    BY <1>1, <1>3, <2>2, Going
  <2>. QED
    BY <2>1, <2>2 DEF LookUp
<1>. QED
  BY <1>1, <1>3, Reading

LEMMA CheckSessionInv ==
  ASSUME InlineInv, NEW q \in Request, CheckSession(q)
  PROVE  InlineInv' /\ Grows
<1>1. /\ call[q].pc = "check" /\ UNCHANGED <<database, access, crashes>>
      /\ GoTo(q, "create") \/ Fail(q)
  BY DEF CheckSession
<1>2. ASSUME Grows PROVE Handling'
  BY <1>1, <1>2, Going, Failing
<1>. QED
  BY <1>1, <1>2, Reading

\* The run is recorded in a free row, for the request's session and source.
LEMMA CreateRunInv ==
  ASSUME InlineInv, NEW q \in Request, CreateRun(q)
  PROVE  InlineInv' /\ Grows
<1>1. PICK r \in RunId :
        /\ run[r] = Null
        /\ run' = [run EXCEPT ![r] = [session |-> call[q].session, source |-> call[q].source]]
        /\ call' = [call EXCEPT ![q].run = r, ![q].pc = "store"]
  BY DEF CreateRun
<1>2. /\ call[q].pc = "create"
      /\ UNCHANGED <<status, access, stored, submission, guarded, replies, crashes>>
  BY DEF CreateRun
<1>3. call[q] \in Call /\ call \in [Request -> Call] /\ run \in [RunId -> Run \cup {Null}]
  BY DEF InlineInv, TypeOK
<1>4. RequestOK(q)
  BY DEF InlineInv, CallOK
<1>. DEFINE new == [session |-> call[q].session, source |-> call[q].source]
            c == [call[q] EXCEPT !.run = r, !.pc = "store"]
<1>5. new \in Run
  BY <1>2, <1>4 DEF RequestOK, Run
<1>6. run' \in [RunId -> Run \cup {Null}] /\ run'[r] = new
  BY <1>1, <1>3, <1>5
<1>7. Grows
  BY <1>1, <1>2, <1>3 DEF Grows
<1>8. call' = [call EXCEPT ![q] = c]
  BY <1>1, <1>3
<1>9. /\ c \in Call /\ c.pc = "store" /\ c.run = r
      /\ c.process = call[q].process /\ c.session = call[q].session
      /\ c.key = call[q].key /\ c.source = call[q].source
  BY <1>3 DEF Call
<1>10. run'[r] = [session |-> c.session, source |-> c.source]
  BY <1>6, <1>9
<1>. HIDE DEF c, new
<1>11. call'[q] = c
  BY <1>3, <1>8
<1>12. RequestOK(q)'
  <2>1. /\ c.process \in Process /\ c.session \in Session /\ c.source \in Source
        /\ status'[c.session] # "none" /\ c.process # Null
        /\ c.key # Null => c.key \in Key /\ c.key[1] = c.session
    BY <1>2, <1>4, <1>9, NullFresh DEF RequestOK
  <2>. QED
    BY <1>9, <1>10, <1>11, <2>1 DEF RequestOK
<1>13. CallOK' /\ GuardExact' /\ call' \in [Request -> Call]
  BY <1>2, <1>7, <1>8, <1>9, <1>12, Moves
<1>14. SubmissionMatchesRun' /\ RepliesAgree'
  BY <1>2, <1>7, MatchesStill, RepliesStill
<1>15. TypeOK'
  BY <1>2, <1>6, <1>13 DEF InlineInv, TypeOK
<1>. QED
  BY <1>7, <1>13, <1>14, <1>15 DEF InlineInv

LEMMA StoreResultInv ==
  ASSUME InlineInv, NEW q \in Request, StoreResult(q)
  PROVE  InlineInv' /\ Grows
<1>. DEFINE c == call[q]
<1>1. /\ c.pc = "store" /\ stored' = stored \cup {c.run}
      /\ UNCHANGED <<status, access, run, submission, crashes>>
      /\ Fail(q) \/ (c.key # Null /\ GoTo(q, "submit"))
  BY DEF StoreResult
<1>2. c.run \in RunId
  BY <1>1 DEF InlineInv, CallOK, RequestOK
<1>3. Grows
  BY <1>1 DEF Grows
<1>4. Handling'
  BY <1>1, <1>3, Failing, Going
<1>5. SubmissionMatchesRun'
  BY <1>1, <1>3, MatchesStill
<1>6. TypeOK'
  BY <1>1, <1>2, <1>4 DEF InlineInv, TypeOK, Handling
<1>. QED
  BY <1>3, <1>4, <1>5, <1>6 DEF InlineInv, Handling

LEMMA RecoverInv ==
  ASSUME InlineInv, NEW q \in Request, Recover(q)
  PROVE  InlineInv' /\ Grows
<1>1. call[q].pc = "recover" /\ UNCHANGED <<database, access, crashes>>
  BY DEF Recover
<1>2. call[q].key # Null /\ call[q].session \in Session
  BY <1>1 DEF InlineInv, CallOK, RequestOK
<1>3. ASSUME Grows PROVE Handling'
  <2>1. ASSUME NEW s \in Recovered(q), Reply(q, s) PROVE Handling'
    <3>1. s = call[q].session /\ submission[s] # Null
      BY <1>1, <1>2, KeyedIsOwn DEF Recovered
    <3>2. submission'[s] # Null
      BY <1>1, <3>1 DEF database
    <3>. QED
      BY <1>1, <1>2, <1>3, <2>1, <3>1, <3>2, Replying
  <2>2. CASE Fail(q)
    BY <1>1, <1>3, <2>2, Failing
  <2>. QED
    BY <2>1, <2>2 DEF Recover
<1>. QED
  BY <1>1, <1>3, Reading

LEMMA ThrowInv ==
  ASSUME InlineInv, NEW q \in Request, Throw(q)
  PROVE  InlineInv' /\ Grows
<1>1. /\ call[q].pc # "idle" /\ UNCHANGED <<database, access, crashes>>
      /\ Fail(q) \/ (call[q].pc = "submit" /\ GoTo(q, "recover"))
  BY DEF Throw
<1>2. call[q].pc = "submit" => call[q].key # Null
  BY DEF InlineInv, CallOK, RequestOK
<1>3. ASSUME Grows PROVE Handling'
  BY <1>1, <1>2, <1>3, Going, Failing
<1>. QED
  BY <1>1, <1>3, Reading

\* The submission that is created is of the run the request recorded, which has
\* its result, and closes a session that was ACTIVE, hence had none.
LEMMA CreatedSubmission ==
  ASSUME InlineInv, NEW q \in Request, call[q].pc = "submit", MaySubmit(q),
         CreateSubmission(q), UNCHANGED <<access, run, stored, crashes>>
  PROVE  /\ Grows /\ SubmissionMatchesRun'
         /\ status' \in [Session -> {"none", "ACTIVE", "SUBMITTED"}]
         /\ submission' \in [Session -> Submission \cup {Null}]
         /\ call[q].session \in Session
         /\ submission[call[q].session] = Null
         /\ submission'[call[q].session] \in Submission
         /\ submission' = [submission EXCEPT ![call[q].session] =
                                submission'[call[q].session]]
<1>. DEFINE c == call[q]
            s == c.session
            new == [key |-> c.key, source |-> c.source, run |-> c.run]
<1>1. RequestOK(q)
  BY DEF InlineInv, CallOK
<1>2. /\ s \in Session /\ c.key \in Key /\ c.key[1] = s /\ c.source \in Source
      /\ c.run \in RunId /\ c.run \in stored
      /\ run[c.run] = [session |-> s, source |-> c.source]
  BY <1>1 DEF RequestOK
<1>3. status[s] = "ACTIVE"
  BY DEF MaySubmit, ActiveSession
<1>4. submission[s] = Null
  BY <1>2, <1>3 DEF InlineInv, SubmissionMatchesRun
<1>5. /\ status \in [Session -> {"none", "ACTIVE", "SUBMITTED"}]
      /\ submission \in [Session -> Submission \cup {Null}]
  BY DEF InlineInv, TypeOK
<1>6. /\ submission' = [submission EXCEPT ![s] = new]
      /\ status' = [status EXCEPT ![s] = "SUBMITTED"]
  BY DEF CreateSubmission, SubmittedRun
<1>7. new \in Submission /\ new # Null
      /\ new.key = c.key /\ new.source = c.source /\ new.run = c.run
  <2>1. new \in Submission
    BY <1>2 DEF Submission
  <2>. QED
    BY <2>1, NullFresh
<1>. HIDE DEF new
<1>8. /\ submission'[s] = new /\ status'[s] = "SUBMITTED"
      /\ \A t \in Session \ {s} : submission'[t] = submission[t] /\ status'[t] = status[t]
      /\ status' \in [Session -> {"none", "ACTIVE", "SUBMITTED"}]
      /\ submission' \in [Session -> Submission \cup {Null}]
  BY <1>2, <1>5, <1>6, <1>7
<1>9. Grows
  BY <1>3, <1>4, <1>8 DEF Grows
<1>10. ASSUME NEW t \in Session
       PROVE  /\ status'[t] = "SUBMITTED" <=> submission'[t] # Null
              /\ submission'[t] # Null =>
                   /\ submission'[t].run \in stored
                   /\ run[submission'[t].run] =
                        [session |-> t, source |-> submission'[t].source]
                   /\ submission'[t].key[1] = t
  <2>1. CASE t = s
    BY <1>2, <1>7, <1>8, <2>1
  <2>2. CASE t # s
    BY <1>8, <2>2 DEF InlineInv, SubmissionMatchesRun
  <2>. QED
    BY <2>1, <2>2
<1>11. SubmissionMatchesRun'
  BY <1>10 DEF SubmissionMatchesRun
<1>. QED
  BY <1>2, <1>4, <1>6, <1>7, <1>8, <1>9, <1>11

LEMMA SubmitInv ==
  ASSUME InlineInv, NEW q \in Request, Submit(q)
  PROVE  InlineInv' /\ Grows
<1>. DEFINE c == call[q]
<1>1. c.pc = "submit" /\ UNCHANGED <<access, run, stored, crashes>>
  BY DEF Submit
<1>2. c.key # Null
  BY <1>1 DEF InlineInv, CallOK, RequestOK
<1>3. CASE UNCHANGED <<status, submission>>
  <2>1. UNCHANGED <<database, access, crashes>>
    BY <1>1, <1>3 DEF database
  <2>2. ASSUME Grows PROVE Handling'
    <3>1. CASE \E s \in Keyed(c.key) : Reply(q, s)
      <4>1. PICK s \in Keyed(c.key) : Reply(q, s)
        BY <3>1
      <4>2. s = c.session /\ submission'[s] # Null
        BY <1>1, <1>2, <1>3, KeyedIsOwn
      <4>. QED
        BY <1>1, <1>2, <2>2, <4>1, <4>2, Replying
    <3>2. CASE Fail(q) \/ GoTo(q, "recover")
      BY <1>1, <1>2, <2>2, <3>2, Failing, Going
    <3>3. CASE CreateSubmission(q) /\ Reply(q, c.session) /\ MaySubmit(q)
      <4>1. submission'[c.session] # Null
        BY <1>1, <3>3, CreatedSubmission, NullFresh
      <4>. QED
        BY <1>1, <1>2, <2>2, <3>3, <4>1, Replying
    <3>. QED
      BY <3>1, <3>2, <3>3 DEF Submit
  <2>. QED
    BY <2>1, <2>2, Reading
<1>4. CASE ~UNCHANGED <<status, submission>>
  <2>1. /\ MaySubmit(q) /\ CreateSubmission(q)
        /\ Reply(q, c.session) \/ GoTo(q, "recover")
    BY <1>4 DEF Submit
  <2>2. /\ Grows /\ SubmissionMatchesRun'
        /\ status' \in [Session -> {"none", "ACTIVE", "SUBMITTED"}]
        /\ submission' \in [Session -> Submission \cup {Null}]
        /\ submission'[c.session] # Null
    BY <1>1, <2>1, CreatedSubmission, NullFresh
  <2>3. Handling'
    BY <1>1, <1>2, <2>1, <2>2, Replying, Going
  <2>4. TypeOK'
    BY <1>1, <2>2, <2>3 DEF InlineInv, TypeOK, Handling
  <2>. QED
    BY <2>2, <2>3, <2>4 DEF InlineInv, Handling
<1>. QED
  BY <1>3, <1>4

\* The requests of the process are gone and so is its guard.
LEMMA CrashInv ==
  ASSUME InlineInv, NEW w \in Process, Crash(w)
  PROVE  InlineInv' /\ Grows
<1>1. /\ call \in [Request -> Call] /\ guarded \in [Process -> SUBSET Session]
      /\ crashes' = crashes + 1 /\ crashes \in Nat
      /\ call' = [q \in Request |-> IF call[q].process = w THEN IdleCall ELSE call[q]]
      /\ guarded' = [guarded EXCEPT ![w] = {}]
      /\ UNCHANGED <<database, access, replies>>
  BY DEF Crash, InlineInv, TypeOK
<1>2. IdleCall \in Call /\ IdleCall.process = Null /\ IdleCall.pc = "idle"
      /\ IdleCall.session = Null /\ IdleCall.key = Null
  BY DEF IdleCall, Call
<1>3. Grows
  BY <1>1 DEF Grows, database
<1>4. CallOK'
  <2>. SUFFICES ASSUME NEW q \in Request PROVE RequestOK(q)'
    BY DEF CallOK
  <2>1. CASE call[q].process = w
    <3>1. call'[q] = IdleCall
      BY <1>1, <2>1
    <3>. QED
      BY <1>2, <3>1 DEF RequestOK
  <2>2. CASE call[q].process # w
    <3>1. call'[q] = call[q]
      BY <1>1, <2>2
    <3>. QED
      BY <1>3, <3>1, OthersOK
  <2>. QED
    BY <2>1, <2>2
<1>5. ASSUME NEW v \in Process, NEW x \in Session
      PROVE  /\ x \in guarded'[v] <=>
                  {p \in Request : call'[p].process = v /\ call'[p].session = x} # {}
             /\ \A p, r \in {p \in Request : call'[p].process = v /\ call'[p].session = x} :
                  p = r
  <2>. DEFINE Now == {p \in Request : call[p].process = v /\ call[p].session = x}
              Then == {p \in Request : call'[p].process = v /\ call'[p].session = x}
  <2>1. CASE v = w
    <3>1. Then = {}
      BY <1>1, <1>2, <2>1, NullFresh
    <3>. QED
      BY <1>1, <2>1, <3>1
  <2>2. CASE v # w
    <3>1. Then = Now
      BY <1>1, <1>2, <2>2, NullFresh
    <3>2. guarded'[v] = guarded[v]
      BY <1>1, <2>2
    <3>. QED
      BY <3>1, <3>2 DEF InlineInv, GuardExact
  <2>. QED
    BY <2>1, <2>2
<1>6. GuardExact'
  BY <1>5 DEF GuardExact
<1>7. SubmissionMatchesRun' /\ RepliesAgree'
  BY <1>1, <1>3, MatchesStill, RepliesStill DEF database
<1>8. TypeOK'
  BY <1>1, <1>2 DEF InlineInv, TypeOK, database
<1>. QED
  BY <1>3, <1>4, <1>6, <1>7, <1>8 DEF InlineInv

-----------------------------------------------------------------------------
LEMMA NextInv == InlineInv /\ Next => InlineInv' /\ Grows
<1> SUFFICES ASSUME InlineInv, Next PROVE InlineInv' /\ Grows
  OBVIOUS
<1>1. CASE \E a \in AccessState : AccessChanges(a)
  BY <1>1, AccessChangesInv
<1>2. CASE \E s \in Session : OpenWorkspace(s)
  BY <1>2, OpenWorkspaceInv
<1>3. ASSUME NEW q \in Request, NEW w \in Process, NEW src \in Source,
             \/ \E s \in Session : BeginRun(q, w, s, src)
             \/ \E key \in Key : BeginSubmit(q, w, key, src)
      PROVE  InlineInv' /\ Grows
  BY <1>3, BeginRunInv, BeginSubmitInv
<1>4. ASSUME NEW q \in Request, CallStep(q) PROVE InlineInv' /\ Grows
  BY <1>4, LookUpInv, CheckSessionInv, CreateRunInv, StoreResultInv, SubmitInv,
     RecoverInv, ThrowInv DEF CallStep
<1>5. CASE \E w \in Process : Crash(w)
  BY <1>5, CrashInv
<1>. QED
  BY <1>1, <1>2, <1>3, <1>4, <1>5 DEF Next

LEMMA StutterInv == InlineInv /\ UNCHANGED vars => InlineInv'
<1> SUFFICES ASSUME InlineInv, UNCHANGED vars PROVE InlineInv'
  OBVIOUS
<1>1. TypeOK'
  BY DEF vars, InlineInv, TypeOK
<1>2. CallOK'
  BY DEF vars, InlineInv, CallOK, RequestOK
<1>3. SubmissionMatchesRun' /\ RepliesAgree' /\ GuardExact'
  BY DEF vars, InlineInv, SubmissionMatchesRun, RepliesAgree, GuardExact
<1>. QED
  BY <1>1, <1>2, <1>3 DEF InlineInv

\* The invariant of InlineAttempts: types, what requests remember between their
\* awaits, and the three invariants the runs check.
THEOREM Invariance == Spec => []InlineInv
<1>1. InlineInv /\ [Next]_vars => InlineInv'
  BY NextInv, StutterInv
<1>. QED
  BY InitInv, <1>1, PTL DEF Spec

\* Variables keep their types.
THEOREM TypeCorrectness == Spec => []TypeOK
<1>1. InlineInv => TypeOK
  BY DEF InlineInv
<1>. QED
  BY <1>1, Invariance, PTL

\* A session is closed exactly when it has a submission, whose source is the one
\* its result was computed from, by a run of that session, although the session
\* is checked, the source executed and the result linked in three transactions
\* that requests of other processes come between.
THEOREM SubmissionsMatchRuns == Spec => []SubmissionMatchesRun
<1>1. InlineInv => SubmissionMatchesRun
  BY DEF InlineInv
<1>. QED
  BY <1>1, Invariance, PTL

\* All answers to requests with a key name the submission of the key's session.
THEOREM RepeatedRequestsAgree == Spec => []RepliesAgree
<1>1. InlineInv => RepliesAgree
  BY DEF InlineInv
<1>. QED
  BY <1>1, Invariance, PTL

\* The guard of a process holds the sessions it works on, each for one request.
THEOREM GuardIsExact == Spec => []GuardExact
<1>1. InlineInv => GuardExact
  BY DEF InlineInv
<1>. QED
  BY <1>1, Invariance, PTL

\* A submission is never replaced and its session never reopened.
THEOREM SubmissionsNeverChange == Spec => SubmissionsImmutable
<1>. DEFINE Kept == \A s \in Session :
                      /\ submission[s] # Null => submission'[s] = submission[s]
                      /\ status[s] = "SUBMITTED" => status'[s] = "SUBMITTED"
<1>1. InlineInv /\ [Next]_vars => [Kept]_vars
  BY NextInv DEF Grows
<1>. QED
  BY <1>1, Invariance, PTL DEF Spec, SubmissionsImmutable

-----------------------------------------------------------------------------
(* The submissions and answers keep SubmissionContract: a step answers a    *)
(* request with the submission of its session, adds a submission where      *)
(* there was none, or changes neither.                                      *)
LEMMA AnswerStep ==
  ASSUME InlineInv, NEW q \in Request, call[q].pc # "idle", call[q].key # Null,
         submission[call[q].session] # Null,
         Reply(q, call[q].session), UNCHANGED submission
  PROVE  Contract!Next
<1>. DEFINE k == call[q].key
<1>1. k \in Key /\ k[1] = call[q].session
  BY DEF InlineInv, CallOK, RequestOK
<1>2. Contract!Answer(k)
  BY <1>1 DEF Contract!Answer, Contract!Answered, SessionOf, Reply
<1>. QED
  BY <1>1, <1>2 DEF Contract!Next

LEMMA SubmitStep ==
  ASSUME InlineInv, NEW q \in Request, call[q].pc = "submit", MaySubmit(q),
         CreateSubmission(q), UNCHANGED <<access, run, stored, crashes>>,
         Reply(q, call[q].session) \/ UNCHANGED replies
  PROVE  Contract!Next
<1>. DEFINE k == call[q].key
            e == submission'[call[q].session]
<1>1. k \in Key /\ k[1] = call[q].session
  BY DEF InlineInv, CallOK, RequestOK
<1>2. /\ submission[k[1]] = Null /\ e \in Submission
      /\ submission' = [submission EXCEPT ![k[1]] = e]
  BY <1>1, CreatedSubmission
<1>3. replies' = [replies EXCEPT ![k] = @ \cup {k[1]}] \/ UNCHANGED replies
  BY <1>1 DEF Reply
<1>. HIDE DEF e
<1>4. Contract!Submit(k, e)
  BY <1>2, <1>3 DEF Contract!Submit, Contract!Answered, SessionOf
<1>. QED
  BY <1>1, <1>2, <1>4 DEF Contract!Next

LEMMA ContractStep == InlineInv /\ Next => Contract!Next \/ UNCHANGED <<submission, replies>>
<1> SUFFICES ASSUME InlineInv, Next, ~UNCHANGED <<submission, replies>>
             PROVE  Contract!Next
  OBVIOUS
<1>1. PICK q \in Request : LookUp(q) \/ Submit(q) \/ Recover(q)
  BY DEF Next, AccessChanges, OpenWorkspace, BeginRun, BeginSubmit, Begin, CallStep,
     CheckSession, CreateRun, StoreResult, Throw, Crash, Fail, GoTo, database
<1>2. call[q].pc \in {"lookup", "submit", "recover"}
  BY <1>1 DEF LookUp, Submit, Recover
<1>3. call[q].key # Null /\ call[q].session \in Session
  BY <1>2 DEF InlineInv, CallOK, RequestOK
<1>4. CASE UNCHANGED submission
  <2>1. PICK s : Reply(q, s) /\ s = call[q].session /\ submission[s] # Null
    <3>1. CASE LookUp(q)
      BY <1>2, <1>3, <1>4, <3>1, KeyedIsOwn DEF LookUp, GoTo
    <3>2. CASE Submit(q)
      BY <1>2, <1>3, <1>4, <3>2, KeyedIsOwn, CreatedSubmission, NullFresh
         DEF Submit, GoTo, Fail
    <3>3. CASE Recover(q)
      BY <1>2, <1>3, <1>4, <3>3, KeyedIsOwn DEF Recover, Recovered, Fail
    <3>. QED
      BY <1>1, <3>1, <3>2, <3>3
  <2>. QED
    BY <1>2, <1>3, <1>4, <2>1, AnswerStep
<1>5. CASE ~UNCHANGED submission
  <2>1. /\ call[q].pc = "submit" /\ MaySubmit(q) /\ CreateSubmission(q)
        /\ UNCHANGED <<access, run, stored, crashes>>
        /\ Reply(q, call[q].session) \/ UNCHANGED replies
    BY <1>1, <1>5 DEF LookUp, Submit, Recover, GoTo, database
  <2>. QED
    BY <2>1, SubmitStep
<1>. QED
  BY <1>4, <1>5

\* Inline run and submit implement SubmissionContract: whatever is repeated,
\* fails or is recovered, a session gets one submission, for good, and a request
\* about the session is answered with it or not at all.
THEOREM InlineKeepsContract == Spec => KeepsSubmissionContract
<1>1. Init => Contract!Init
  BY DEF Init, Contract!Init
<1>2. InlineInv /\ [Next]_vars => [Contract!Next]_(Contract!vars)
  BY ContractStep DEF vars, Contract!vars
<1>. QED
  BY <1>1, <1>2, Invariance, PTL DEF Spec, KeepsSubmissionContract, Contract!Spec

-----------------------------------------------------------------------------
(* The sessions one process did all the work of.  The guard keeps their       *)
(* requests apart, so that what a request read of the session stays so until  *)
(* it writes.                                                                 *)

Writing == {"create", "store", "submit"}

Solo ==
  /\ \A q \in Request :
       LET c == call[q] IN
       /\ c.pc # "idle" => c.process \in worked[c.session]
       /\ c.pc \in Writing /\ Alone(c.session) => status[c.session] = "ACTIVE"
       /\ c.pc = "recover" /\ Alone(c.session) /\ submission[c.session] # Null
            => submission[c.session].key = c.key
  /\ \A k \in Key : Alone(k[1]) => replies[k] \subseteq Keyed(k)

\* Nobody else is at work on a session like that.
LEMMA OneAtATime ==
  ASSUME InlineInv, Solo, NEW q \in Request, NEW p \in Request,
         call[q].pc # "idle", call[p].pc # "idle",
         call[p].session = call[q].session, Alone(call[q].session)
  PROVE  p = q
<1>. DEFINE s == call[q].session
            w == call[q].process
<1>1. w \in Process /\ s \in Session /\ call[p].process = w
  BY DEF InlineInv, CallOK, RequestOK, Solo, Alone
<1>. QED
  BY <1>1 DEF InlineInv, GuardExact

LEMMA AloneBefore ==
  ASSUME MCNext, NEW s \in Session, Alone(s)'
  PROVE  Alone(s)
<1>1. worked[s] \subseteq worked'[s]
  BY DEF MCNext
<1>. QED
  BY <1>1 DEF Alone

\* How a session is written to, a run recorded and a request answered.
LEMMA SessionSteps ==
  ASSUME InlineInv, Next, NEW s \in Session
  PROVE  \/ status'[s] = status[s] /\ submission'[s] = submission[s]
         \/ status'[s] = "ACTIVE" /\ submission'[s] = submission[s]
         \/ \E p \in Request :
              /\ Submit(p) /\ call[p].pc = "submit" /\ call[p].session = s
              /\ submission'[s].key = call[p].key
<1>1. ASSUME NEW p \in Request, Submit(p), ~UNCHANGED <<status, submission>>
      PROVE  \/ status'[s] = status[s] /\ submission'[s] = submission[s]
             \/ /\ call[p].pc = "submit" /\ call[p].session = s
                /\ submission'[s].key = call[p].key
  <2>1. call[p].pc = "submit" /\ CreateSubmission(p)
    BY <1>1 DEF Submit
  <2>2. status \in [Session -> {"none", "ACTIVE", "SUBMITTED"}] /\ submission \in [Session -> Submission \cup {Null}]
    BY DEF InlineInv, TypeOK
  <2>. QED
    BY <2>1, <2>2 DEF CreateSubmission
<1>2. ASSUME NEW t \in Session, OpenWorkspace(t)
      PROVE  /\ status'[s] = status[s] \/ status'[s] = "ACTIVE"
             /\ submission'[s] = submission[s]
  BY <1>2 DEF OpenWorkspace, InlineInv, TypeOK
<1>3. CASE UNCHANGED <<status, submission>>
  BY <1>3
<1>4. CASE ~UNCHANGED <<status, submission>>
  <2>1. \/ \E t \in Session : OpenWorkspace(t)
        \/ \E p \in Request : Submit(p)
    BY <1>4 DEF Next, AccessChanges, BeginRun, BeginSubmit, Begin, CallStep, LookUp,
       CheckSession, CreateRun, StoreResult, Recover, Throw, Crash, database
  <2>. QED
    BY <1>1, <1>2, <1>4, <2>1
<1>. QED
  BY <1>3, <1>4

LEMMA RunSteps ==
  ASSUME InlineInv, Next, NEW r \in RunId, run'[r] # run[r]
  PROVE  \E q \in Request : call[q].pc = "create" /\ run'[r].session = call[q].session
<1>1. PICK q \in Request : CreateRun(q)
  BY DEF Next, AccessChanges, OpenWorkspace, BeginRun, BeginSubmit, Begin, CallStep, LookUp,
     CheckSession, StoreResult, Submit, Recover, Throw, Crash, database
<1>2. PICK i \in RunId :
        run' = [run EXCEPT ![i] = [session |-> call[q].session, source |-> call[q].source]]
  BY <1>1 DEF CreateRun
<1>. QED
  BY <1>1, <1>2 DEF CreateRun, InlineInv, TypeOK

LEMMA ReplySteps ==
  ASSUME InlineInv, Next
  PROVE  \/ replies' = replies
         \/ \E q \in Request : \E s \in Session :
              /\ Reply(q, s) /\ call[q].pc # "idle"
              /\ \/ s \in Keyed(call[q].key) /\ submission' = submission
                 \/ call[q].pc = "submit" /\ CreateSubmission(q) /\ s = call[q].session
                 \/ /\ call[q].pc = "recover" /\ s = call[q].session
                    /\ submission[s] # Null /\ submission' = submission
<1>1. CASE \E q \in Request : LookUp(q) \/ Submit(q) \/ Recover(q)
  <2>1. PICK q \in Request : LookUp(q) \/ Submit(q) \/ Recover(q)
    BY <1>1
  <2>2. CASE LookUp(q)
    BY <2>2 DEF LookUp, GoTo, Keyed, database
  <2>3. CASE Recover(q)
    <3>1. call[q].pc = "recover" /\ call[q].session \in Session
      BY <2>3 DEF Recover, InlineInv, CallOK, RequestOK
    <3>2. replies' # replies => \E s \in Recovered(q) : Reply(q, s)
      BY <2>3 DEF Recover, Fail
    <3>3. \A s \in Recovered(q) :
            s \in Keyed(call[q].key) \/ (s = call[q].session /\ submission[s] # Null)
      BY DEF Recovered
    <3>4. submission' = submission
      BY <2>3 DEF Recover, database
    <3>. QED
      BY <3>1, <3>2, <3>3, <3>4 DEF Keyed
  <2>4. CASE Submit(q)
    <3>1. call[q].pc = "submit" /\ call[q].session \in Session
      BY <2>4 DEF Submit, InlineInv, CallOK, RequestOK
    <3>. QED
      BY <2>4, <3>1 DEF Submit, GoTo, Fail, Keyed
  <2>. QED
    BY <2>1, <2>2, <2>3, <2>4
<1>. QED
  BY <1>1 DEF Next, AccessChanges, OpenWorkspace, BeginRun, BeginSubmit, Begin, CallStep,
     CheckSession, CreateRun, StoreResult, Throw, Crash, Fail, GoTo

\* How a request gets to write, or to look for a submission that was refused.
LEMMA CallSteps ==
  ASSUME InlineInv, Next, NEW q \in Request,
         call'[q] # call[q], call'[q].pc \in Writing \cup {"recover"}
  PROVE  /\ call[q].pc # "idle"
         /\ call'[q].session = call[q].session /\ call'[q].key = call[q].key
         /\ \/ /\ call[q].pc \in Writing /\ call'[q].pc # "recover"
               /\ status' = status
            \/ /\ call[q].pc = "check" /\ call'[q].pc # "recover"
               /\ status[call[q].session] = "ACTIVE" /\ status' = status
            \/ /\ call[q].pc = "submit" /\ call'[q].pc = "recover"
               /\ submission' = submission \/ CreateSubmission(q)
<1>1. call \in [Request -> Call]
  BY DEF InlineInv, TypeOK
<1>2. IdleCall.pc = "idle"
  BY DEF IdleCall
<1>3. ASSUME NEW p \in Request, NEW w, NEW s, NEW kind, NEW c, Begin(p, w, s, kind, c),
             c.pc \in {"check", "lookup"}
      PROVE  FALSE
  BY <1>1, <1>3 DEF Begin, Writing
<1>4. ASSUME NEW w \in Process, Crash(w) PROVE FALSE
  BY <1>2, <1>4 DEF Crash, Writing
<1>5. PICK p \in Request : CallStep(p)
  <2>1. ASSUME NEW p \in Request, NEW w, NEW s, NEW src, BeginRun(p, w, s, src) PROVE FALSE
    BY <1>3, <2>1 DEF BeginRun
  <2>2. ASSUME NEW p \in Request, NEW w, NEW k, NEW src, BeginSubmit(p, w, k, src) PROVE FALSE
    BY <1>3, <2>2 DEF BeginSubmit
  <2>3. call' # call
    OBVIOUS
  <2>. QED
    BY <1>4, <2>1, <2>2, <2>3 DEF Next, AccessChanges, OpenWorkspace
<1>6. p = q
  BY <1>1, <1>5 DEF CallStep, LookUp, CheckSession, CreateRun, StoreResult, Submit, Recover,
     Throw, Fail, Reply, End, GoTo
<1>7. ~End(q)
  BY <1>1, <1>2 DEF End, Writing
<1>8. ASSUME NEW pc, GoTo(q, pc)
      PROVE  /\ call'[q].pc = pc
             /\ call'[q].session = call[q].session /\ call'[q].key = call[q].key
  BY <1>1, <1>8 DEF GoTo, Call
<1>9. CASE LookUp(q)
  BY <1>7, <1>8, <1>9 DEF LookUp, Reply, Writing
<1>10. CASE CheckSession(q)
  BY <1>7, <1>8, <1>10 DEF CheckSession, Fail, ActiveSession, Writing, database
<1>11. CASE CreateRun(q)
  <2>1. PICK r \in RunId : call' = [call EXCEPT ![q].run = r, ![q].pc = "store"]
    BY <1>11 DEF CreateRun
  <2>2. /\ call'[q].pc = "store"
        /\ call'[q].session = call[q].session /\ call'[q].key = call[q].key
    BY <1>1, <2>1 DEF Call
  <2>. QED
    BY <1>11, <2>2 DEF CreateRun, Writing
<1>12. CASE StoreResult(q)
  BY <1>7, <1>8, <1>12 DEF StoreResult, Fail, Writing
<1>13. CASE Submit(q)
  BY <1>7, <1>8, <1>13 DEF Submit, Fail, Reply, Writing
<1>14. CASE Recover(q)
  BY <1>7, <1>14 DEF Recover, Fail, Reply
<1>15. CASE Throw(q)
  BY <1>7, <1>8, <1>15 DEF Throw, Fail, database
<1>. QED
  BY <1>5, <1>6, <1>9, <1>10, <1>11, <1>12, <1>13, <1>14, <1>15 DEF CallStep

LEMMA SoloCalls ==
  ASSUME InlineInv, Grows, Solo, MCNext, NEW q \in Request,
         NEW s \in Session, call'[q].session = s
  PROVE  LET c == call'[q] IN
         /\ c.process \in worked'[s]
         /\ c.pc \in Writing /\ Alone(s)' => status'[s] = "ACTIVE"
         /\ c.pc = "recover" /\ Alone(s)' /\ submission'[s] # Null
              => submission'[s].key = c.key
<1>. DEFINE c == call'[q]
<1>. Next
  BY DEF MCNext
<1>2. c.process \in worked'[s]
  BY DEF MCNext
<1>3. ASSUME c.pc \in Writing, Alone(s)' PROVE status'[s] = "ACTIVE"
  <2>1. Alone(s)
    BY <1>3, AloneBefore
  <2>2. CASE c = call[q]
    <3>1. status[s] = "ACTIVE" /\ call[q].pc # "idle" /\ call[q].session = s
      BY <1>3, <2>1, <2>2 DEF Solo, Writing
    <3>2. ASSUME NEW p \in Request, Submit(p), call[p].pc = "submit", call[p].session = s
          PROVE  FALSE
      <4>1. p = q
        BY <2>1, <3>1, <3>2, OneAtATime
      <4>2. call \in [Request -> Call] /\ IdleCall.pc = "idle"
        BY DEF InlineInv, TypeOK, IdleCall
      <4>3. End(q) \/ GoTo(q, "recover")
        BY <3>2, <4>1 DEF Submit, Reply, Fail
      <4>4. call'[q].pc \in {"idle", "recover"}
        BY <4>2, <4>3 DEF End, GoTo, Call
      <4>. QED
        BY <2>2, <3>2, <4>1, <4>4
    <3>. QED
      BY <2>1, <3>1, <3>2, SessionSteps
  <2>3. CASE c # call[q]
    BY <1>3, <2>1, <2>3, CallSteps DEF Solo, Writing
  <2>. QED
    BY <2>2, <2>3
<1>4. ASSUME c.pc = "recover", Alone(s)', submission'[s] # Null PROVE submission'[s].key = c.key
  <2>1. Alone(s)
    BY <1>4, AloneBefore
  <2>2. CASE c = call[q]
    <3>1. CASE submission[s] # Null
      BY <1>4, <2>1, <2>2, <3>1 DEF Solo, Grows
    <3>2. CASE submission[s] = Null
      <4>1. PICK p \in Request : call[p].pc = "submit" /\ call[p].session = s
        BY <1>4, <2>1, <3>2, SessionSteps
      <4>. QED
        BY <1>4, <2>1, <2>2, <4>1, OneAtATime
    <3>. QED
      BY <3>1, <3>2
  <2>3. CASE c # call[q]
    <3>1. /\ call[q].pc = "submit" /\ call[q].session = s /\ call[q].key = c.key
          /\ submission' = submission \/ CreateSubmission(q)
      BY <1>4, <2>3, CallSteps DEF Writing
    <3>2. submission[s] = Null
      <4>1. status[s] = "ACTIVE"
        BY <2>1, <3>1 DEF Solo, Writing
      <4>. QED
        BY <4>1 DEF InlineInv, SubmissionMatchesRun
    <3>. QED
      BY <1>4, <2>1, <3>1, <3>2 DEF CreateSubmission, InlineInv, TypeOK
  <2>. QED
    BY <2>2, <2>3
<1>. QED
  BY <1>2, <1>3, <1>4

LEMMA SoloReplies ==
  ASSUME InlineInv, Grows, Solo, MCNext, NEW k \in Key, Alone(k[1])'
  PROVE  replies'[k] \subseteq Keyed(k)'
<1>. Next /\ k[1] \in Session
  BY DEF MCNext, Key
<1>1. Keyed(k) \subseteq Keyed(k)' /\ replies[k] \subseteq Keyed(k)
  BY AloneBefore DEF Keyed, Grows, Solo
<1>2. ASSUME NEW q \in Request, NEW s \in Session, Reply(q, s), call[q].pc # "idle",
             \/ s \in Keyed(call[q].key) /\ submission' = submission
             \/ call[q].pc = "submit" /\ CreateSubmission(q) /\ s = call[q].session
             \/ /\ call[q].pc = "recover" /\ s = call[q].session
                /\ submission[s] # Null /\ submission' = submission,
             call[q].key = k
      PROVE  s \in Keyed(k)'
  <2>1. CASE s \in Keyed(k) /\ submission' = submission
    BY <1>1, <2>1
  <2>2. CASE call[q].pc = "submit" /\ CreateSubmission(q) /\ s = call[q].session
    <3>1. submission'[s] = [key |-> k, source |-> call[q].source, run |-> SubmittedRun(q)]
      BY <1>2, <2>2 DEF CreateSubmission, InlineInv, TypeOK
    <3>2. k \in Key /\ call[q].source \in Source /\ SubmittedRun(q) \in RunId
      BY <1>2, <2>2 DEF SubmittedRun, InlineInv, CallOK, RequestOK
    <3>3. submission'[s] # Null
      BY <3>1, <3>2, NullFresh DEF Submission
    <3>. QED
      BY <3>1, <3>3 DEF Keyed
  <2>3. CASE call[q].pc = "recover" /\ s = call[q].session
             /\ submission[s] # Null /\ submission' = submission
    <3>1. s = k[1]
      BY <1>2, <2>3, NullFresh DEF InlineInv, CallOK, RequestOK
    <3>2. submission[s].key = k
      BY <1>2, <2>3, <3>1, AloneBefore DEF Solo
    <3>. QED
      BY <2>3, <3>2 DEF Keyed
  <2>. QED
    BY <1>2, <2>1, <2>2, <2>3
<1>3. CASE replies' = replies
  BY <1>1, <1>3
<1>4. CASE replies' # replies
  <2>1. PICK q \in Request, s \in Session :
          /\ Reply(q, s) /\ call[q].pc # "idle"
          /\ \/ s \in Keyed(call[q].key) /\ submission' = submission
             \/ call[q].pc = "submit" /\ CreateSubmission(q) /\ s = call[q].session
             \/ /\ call[q].pc = "recover" /\ s = call[q].session
                /\ submission[s] # Null /\ submission' = submission
    BY <1>4, ReplySteps
  <2>2. replies'[k] = IF call[q].key = k THEN replies[k] \cup {s} ELSE replies[k]
    BY <2>1 DEF Reply, InlineInv, TypeOK
  <2>. QED
    BY <1>1, <1>2, <2>1, <2>2
<1>. QED
  BY <1>3, <1>4

LEMMA SoloNext ==
  ASSUME InlineInv, Solo, MCNext
  PROVE  Solo'
<1>1. InlineInv' /\ Grows
  BY NextInv DEF MCNext
<1>2. ASSUME NEW q \in Request
      PROVE  LET c == call'[q] IN
             /\ c.pc # "idle" => c.process \in worked'[c.session]
             /\ \A s \in Session : s = c.session =>
                  /\ c.pc \in Writing /\ Alone(s)' => status'[s] = "ACTIVE"
                  /\ c.pc = "recover" /\ Alone(s)' /\ submission'[s] # Null
                       => submission'[s].key = c.key
             /\ c.pc # "idle" => c.session \in Session
  <2>1. call'[q].pc # "idle" => call'[q].session \in Session
    BY <1>1 DEF InlineInv, CallOK, RequestOK
  <2>. QED
    BY <1>1, <2>1, SoloCalls
<1>3. \A k \in Key : Alone(k[1])' => replies'[k] \subseteq Keyed(k)'
  BY <1>1, SoloReplies
<1>. QED
  BY <1>2, <1>3 DEF Solo, Writing, Alone, Keyed

LEMMA SoloInit == MCInit => Solo
BY DEF MCInit, Init, Solo, IdleCall, Writing

LEMMA SoloStutter == Solo /\ UNCHANGED <<vars, worked>> => Solo'
BY DEF Solo, vars, Writing, Alone, Keyed

\* One web process suffices: of a session that only one ever worked on, no request
\* is answered with a submission made under the key of another page, and no run is
\* recorded once the session is closed, although the session is checked, the run
\* recorded and the submission written in transactions of their own.
THEOREM OneProcessIsEnough == MCSpec => OneProcessSuffices
<1>. DEFINE Both == InlineInv /\ Solo
            Kept == /\ \A k \in Key : Alone(k[1])' => replies'[k] \subseteq Keyed(k)'
                    /\ \A r \in RunId :
                         (run[r] = Null /\ run'[r] # Null /\ Alone(run'[r].session))
                           => status[run'[r].session] = "ACTIVE"
<1>1. MCInit => Both
  BY InitInv, SoloInit DEF MCInit
<1>2. Both /\ MCNext => Both' /\ Kept
  <2>. SUFFICES ASSUME Both, MCNext PROVE Both' /\ Kept
    OBVIOUS
  <2>1. Both' /\ Grows
    BY NextInv, SoloNext DEF MCNext
  <2>2. ASSUME NEW r \in RunId, run[r] = Null, run'[r] # Null, Alone(run'[r].session)
        PROVE  status[run'[r].session] = "ACTIVE"
    BY <2>2, RunSteps DEF Solo, Writing, MCNext
  <2>. QED
    BY <2>1, <2>2, SoloReplies
<1>3. Both /\ UNCHANGED <<vars, worked>> => Both'
  BY StutterInv, SoloStutter
<1>4. Both /\ [MCNext]_<<vars, worked>> => Both' /\ [Kept]_<<vars, worked>>
  BY <1>2, <1>3
<1>. QED
  BY <1>1, <1>4, PTL DEF MCSpec, OneProcessSuffices
=============================================================================
