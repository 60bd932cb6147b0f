------------------------------ MODULE Classroom ------------------------------
(***************************************************************************)
(* One classroom: its join code and enrollment                             *)
(* (frontend/features/classes/classroom-actions.ts), its memberships and   *)
(* their audit trail (backend/server/classrooms/roster.ts), and who may    *)
(* ask for Socratic hints and gets which (backend/server/hints/).          *)
(*                                                                         *)
(* Every server action is a request that awaits its queries one by one:    *)
(* what it read may have changed when it writes.  A transaction of the     *)
(* roster runs at READ COMMITTED; it holds the row of the membership from  *)
(* its update to its commit.                                               *)
(*                                                                         *)
(* Left out: the rate limit of joins (RateLimiter), the accounts           *)
(* (Identity) and the texts of hints.                                      *)
(***************************************************************************)
EXTENDS Naturals, FiniteSets, SequencesExt

CONSTANTS
  Student,
  Request,    \* server actions being handled
  Code,       \* join codes; a new one is never one that was in use
  Null,
  MaxAudit,   \* bound: audit entries there are when a roster action begins
  MaxCodes    \* bound: codes handed out

ASSUME ClassroomAssumption ==
  /\ IsFiniteSet(Request) /\ IsFiniteSet(Code)
  /\ MaxAudit \in Nat /\ MaxCodes \in Nat
  /\ Null \notin Student \cup Code

VARIABLES
  code,        \* Classroom.joinCode
  used,        \* codes of the classroom so far
  expiry,      \* of the code, against the clock: "none", "ahead", "past"
  rules,       \* the classroom is active; its enrollment is open
  member,      \* ClassMembership of a student
  audit,       \* MembershipAuditEntry rows, in the order of their commits
  policy,      \* ClassroomHintPolicy: "none" when there is no row
  permission,  \* StudentHintPermission rows: "none", "on", "off"
  hints,       \* levels of the HintInteraction rows of a student's session
  request,     \* the server actions between two of their awaits
  touched      \* history: what others wrote of the rows a request works on: the rows that
               \* permit hints ("own", "class") while it checks them, another hint ("hint")
               \* while its own is generated

vars ==
  <<code, used, expiry, rules, member, audit, policy, permission, hints, request, touched>>
enrollment == <<code, used, expiry, rules>>
roster == <<member, audit>>
hinting == <<policy, permission, hints, touched>>

Entry == [student : Student, action : {"DEACTIVATED", "REACTIVATED"}]
Idle == [pc |-> "idle", student |-> Null, what |-> Null]
At(pc, s, what) == [pc |-> pc, student |-> s, what |-> what]

Init ==
  /\ code \in Code /\ used = {code}
  /\ expiry = "none"
  /\ rules \in [active : BOOLEAN, open : BOOLEAN]
  /\ member = [s \in Student |-> "none"]
  /\ audit = <<>>
  /\ policy = "none"
  /\ permission = [s \in Student |-> "none"]
  /\ hints = [s \in Student |-> <<>>]
  /\ request = [q \in Request |-> Idle]
  /\ touched = [q \in Request |-> {}]

\* A request goes on, or ends, having changed nothing.
GoesTo(q, r) == request' = [request EXCEPT ![q] = r]
Ends(q) == GoesTo(q, Idle)

Fails(q) ==
  /\ request[q] # Idle
  /\ Ends(q)
  /\ touched' = [touched EXCEPT ![q] = {}]
  /\ UNCHANGED <<enrollment, roster, policy, permission, hints>>

-----------------------------------------------------------------------------
(* Join codes.  A definition with a suffix is a mistake the code could have *)
(* made in place of the one it precedes.                                    *)

NewCode(c) ==
  /\ c \notin used /\ Cardinality(used) < MaxCodes
  /\ code' = c
  /\ used' = used \cup {c}
  /\ UNCHANGED <<rules, roster, hinting, request>>

\* rotateJoinCode: with or without an expiry.
RotateJoinCode(c, e) == NewCode(c) /\ expiry' = e

\* regenerateClassroomJoinCode leaves the expiry as it is.
RegenerateJoinCode(c) == NewCode(c) /\ expiry' = expiry

CodeExpires ==
  /\ expiry = "ahead"
  /\ expiry' = "past"
  /\ UNCHANGED <<code, used, rules, roster, hinting, request>>

\* checkEnrollmentEligibility
Eligible == rules.active /\ rules.open /\ expiry # "past"

-----------------------------------------------------------------------------
(* joinClassroom *)

\* The classroom is found by its code, and takes students.
JoinFindsClassroom(q, s, c) ==
  /\ request[q] = Idle
  /\ c = code /\ Eligible
  /\ GoesTo(q, At("join", s, Null))
  /\ UNCHANGED <<enrollment, roster, hinting>>

\* The membership it reads then is not inactive.
JoinReadsMembership(q) ==
  /\ request[q].pc = "join"
  /\ member[request[q].student] # "inactive"
  /\ GoesTo(q, At("upsert", request[q].student, Null))
  /\ UNCHANGED <<enrollment, roster, hinting>>

\* The upsert creates a missing membership and leaves one there is alone.
Joined_Active(m) == "active"
Joined(m) == IF m = "none" THEN "active" ELSE m

JoinUpserts(q) ==
  /\ request[q].pc = "upsert"
  /\ member' = [member EXCEPT ![request[q].student] = Joined(@)]
  /\ Ends(q)
  /\ UNCHANGED <<enrollment, audit, hinting>>

-----------------------------------------------------------------------------
(* deactivateStudentMembership, reactivateStudentMembership *)

Change == {"DEACTIVATED", "REACTIVATED"}
From(change) == IF change = "DEACTIVATED" THEN "active" ELSE "inactive"
To(change) == IF change = "DEACTIVATED" THEN "inactive" ELSE "active"

RosterReads(q, s, change) ==
  /\ request[q] = Idle
  /\ Len(audit) < MaxAudit
  /\ member[s] = From(change)
  /\ GoesTo(q, At("roster", s, change))
  /\ UNCHANGED <<enrollment, roster, hinting>>

\* The update does not look at the state again: it and its audit entry commit
\* together, after those of a request that took the row first.
Audited_Deactivation(s, change) ==
  IF change = "REACTIVATED" THEN audit
  ELSE Append(audit, [student |-> s, action |-> change])
Audited(s, change) == Append(audit, [student |-> s, action |-> change])

RosterWrites(q) ==
  LET s == request[q].student
      change == request[q].what
  IN
  /\ request[q].pc = "roster"
  /\ member' = [member EXCEPT ![s] = To(change)]
  /\ audit' = Audited(s, change)
  /\ Ends(q)
  /\ UNCHANGED <<enrollment, hinting>>

-----------------------------------------------------------------------------
(* Hint permissions *)

Checking == {"asks", "own", "class"}
Touches(row, students) ==
  touched' = [q \in Request |->
                IF request[q].pc \in Checking /\ request[q].student \in students
                THEN touched[q] \cup {row} ELSE touched[q]]

\* setClassroomHintPolicy
SetClassroomHintPolicy(p) ==
  /\ policy' = p
  /\ Touches("class", Student)
  /\ UNCHANGED <<enrollment, roster, permission, hints, request>>

\* setStudentHintPermission reads the membership ...
GrantReads(q, s, p) ==
  /\ request[q] = Idle
  /\ member[s] = "active"
  /\ GoesTo(q, At("grant", s, p))
  /\ UNCHANGED <<enrollment, roster, hinting>>

\* ... and writes the permission.
GrantWrites(q) ==
  /\ request[q].pc = "grant"
  /\ permission' = [permission EXCEPT ![request[q].student] = request[q].what]
  /\ Touches("own", {request[q].student})
  /\ Ends(q)
  /\ UNCHANGED <<enrollment, roster, policy, hints>>

\* getEffectiveStudentHintPermission: the student's own permission, if there is
\* one, else the policy of the classroom, else locked.
Allows_Either(own, class) == own = "on" \/ class = "on"
Allows(own, class) == own = "on" \/ (own = "none" /\ class = "on")

-----------------------------------------------------------------------------
(* requestSocraticHintForSession *)

\* requirePublishedTaskForStudent: the student is a member ...
HintAsked(q, s) ==
  /\ request[q] = Idle
  /\ member[s] = "active"
  /\ GoesTo(q, At("asks", s, Null))
  /\ touched' = [touched EXCEPT ![q] = {}]
  /\ UNCHANGED <<enrollment, roster, policy, permission, hints>>

\* ... who may have hints: two queries, which either of may be answered first ...
HintReads(q) ==
  LET s == request[q].student IN
  /\ request[q].pc = "asks"
  /\ GoesTo(q, At("own", s, permission[s])) \/ GoesTo(q, At("class", s, policy))
  /\ UNCHANGED <<enrollment, roster, hinting>>

\* ... and what they answer together.
HintAllowed(q) ==
  LET s == request[q].student
      read == request[q].what
  IN
  /\ \/ request[q].pc = "own" /\ Allows(read, policy)
     \/ request[q].pc = "class" /\ Allows(permission[s], read)
  /\ GoesTo(q, At("allowed", s, Null))
  /\ touched' = [touched EXCEPT ![q] = {}]
  /\ UNCHANGED <<enrollment, roster, policy, permission, hints>>

\* The next level follows from the number of hints there are.
NextLevel(s) == Len(hints[s]) + 1

HintCounts(q) ==
  LET s == request[q].student IN
  /\ request[q].pc = "allowed"
  /\ NextLevel(s) <= 3
  /\ GoesTo(q, At("generate", s, NextLevel(s)))
  /\ UNCHANGED <<enrollment, roster, hinting>>

\* The generated hint passed the leakage guard and is stored.
HintStored(q) ==
  LET s == request[q].student IN
  /\ request[q].pc = "generate"
  /\ hints' = [hints EXCEPT ![s] = Append(@, request[q].what)]
  /\ Ends(q)
  /\ touched' = [r \in Request |->
                   IF r = q THEN {}
                   ELSE IF request[r].pc = "generate" /\ request[r].student = s
                   THEN touched[r] \cup {"hint"} ELSE touched[r]]
  /\ UNCHANGED <<enrollment, roster, policy, permission>>

-----------------------------------------------------------------------------
Next ==
  \/ \E c \in Code : RegenerateJoinCode(c) \/ \E e \in {"none", "ahead"} : RotateJoinCode(c, e)
  \/ CodeExpires
  \/ \E p \in {"on", "off"} : SetClassroomHintPolicy(p)
  \/ \E q \in Request :
       \/ \E s \in Student :
            \/ \E c \in Code : JoinFindsClassroom(q, s, c)
            \/ \E change \in Change : RosterReads(q, s, change)
            \/ \E p \in {"on", "off"} : GrantReads(q, s, p)
            \/ HintAsked(q, s)
       \/ JoinReadsMembership(q) \/ JoinUpserts(q)
       \/ RosterWrites(q)
       \/ GrantWrites(q)
       \/ HintReads(q) \/ HintAllowed(q) \/ HintCounts(q) \/ HintStored(q)
       \/ Fails(q)

Spec == Init /\ [][Next]_vars

-----------------------------------------------------------------------------
Requests ==
  UNION {[pc : {"idle"}, student : {Null}, what : {Null}],
         [pc : {"join", "upsert", "asks", "allowed"}, student : Student, what : {Null}],
         [pc : {"roster"}, student : Student, what : Change],
         [pc : {"grant"}, student : Student, what : {"on", "off"}],
         [pc : {"own", "class"}, student : Student, what : {"none", "on", "off"}],
         [pc : {"generate"}, student : Student, what : 1 .. 3]}

TypeOK ==
  /\ code \in used /\ used \subseteq Code
  /\ expiry \in {"none", "ahead", "past"}
  /\ rules \in [active : BOOLEAN, open : BOOLEAN]
  /\ member \in [Student -> {"none", "active", "inactive"}]
  /\ audit \in Seq(Entry)
  /\ policy \in {"none", "on", "off"}
  /\ permission \in [Student -> {"none", "on", "off"}]
  /\ hints \in [Student -> Seq(1 .. 3)]
  /\ request \in [Request -> Requests]
  /\ touched \in [Request -> SUBSET {"own", "class", "hint"}]

EntriesOf(s) == {i \in DOMAIN audit : audit[i].student = s}

\* The audit trail tells who has access: a member is inactive exactly when the
\* last entry about it says so, however requests of the roster overlap.
AuditAgrees ==
  \A s \in Student :
    \/ EntriesOf(s) = {} /\ member[s] # "inactive"
    \/ \E i \in EntriesOf(s) :
         /\ \A j \in EntriesOf(s) : j <= i
         /\ member[s] = To(audit[i].action)

\* A student whose access ended gets it back from the teacher alone: a join does
\* not restore it, also when it began before the access ended.
JoinNeverRestores ==
  [][\A s \in Student :
       member[s] = "inactive" /\ member'[s] = "active" =>
         /\ Len(audit') = Len(audit) + 1
         /\ Last(audit') = [student |-> s, action |-> "REACTIVATED"]]_vars

\* Hints are earned.  Only a request that passed the check of permission stores one.
\* Its level follows the hints there are, unless another request of the student stored
\* one while it was generated: then it repeats a level (and the next one skips one, as
\* levels follow from the number of hints).  A lock holds however requests overlap: who
\* has a lock of their own passes the check only if that row was written while it was
\* being made, and who is locked by the classroom only if one of the two rows was.
HintsEarned ==
  [][/\ \A s \in Student : hints'[s] # hints[s] =>
          \E q \in Request :
            /\ request[q].student = s /\ request[q].pc = "generate"
            /\ IF "hint" \in touched[q] THEN Last(hints'[s]) < Len(hints'[s])
               ELSE Last(hints'[s]) = Len(hints'[s])
     /\ \A q \in Request :
          LET s == request'[q].student IN
          request[q].pc # "allowed" /\ request'[q].pc = "allowed" =>
            /\ permission[s] = "off" => "own" \in touched[q]
            /\ permission[s] = "none" /\ policy # "on" => touched[q] # {}]_vars
=============================================================================
