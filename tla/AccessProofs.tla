---------------------------- MODULE AccessProofs ----------------------------
(***************************************************************************)
(* Theorems about the two components of MCAccess, for any users, subjects, *)
(* addresses, students, requests and codes.                                *)
(*                                                                         *)
(* Classroom: the audit trail and the memberships agree, a join never      *)
(* gives access back, and hints are earned.  What a request read may be    *)
(* stale when it writes.  The invariant says what nevertheless stays true  *)
(* of it: a row that was read is as it was, unless somebody wrote it, and  *)
(* a level that was counted follows the hints there are, unless another    *)
(* hint was stored.                                                        *)
(*                                                                         *)
(* Identity: accounts stay apart (AccountsApart) and what an account is    *)
(* stays (AccountsKept).  A link and a webhook write to the account they   *)
(* found earlier.  The invariant needs that this account is still there:   *)
(* an account is never removed, only disabled.                             *)
(***************************************************************************)
EXTENDS MCAccess, FiniteSetTheorems, SequenceTheorems, TLAPS

-----------------------------------------------------------------------------
(* Classroom.                                                               *)

\* What a request read or counted is so, unless it was touched.
ReadsHold ==
  \A q \in Request :
    LET s == request[q].student
        read == request[q].what
    IN
    /\ request[q].pc = "own" => read = permission[s] \/ "own" \in touched[q]
    /\ request[q].pc = "class" => read = policy \/ "class" \in touched[q]
    /\ IF "hint" \in touched[q]
       THEN request[q].pc = "generate" /\ read <= Len(hints[s])
       ELSE request[q].pc = "generate" => read = Len(hints[s]) + 1

ClassInv == TypeOK /\ AuditAgrees /\ ReadsHold

-----------------------------------------------------------------------------
\* The student of a request and what it is about, by where it is.
LEMMA RequestFacts ==
  ASSUME NEW r \in Requests
  PROVE  /\ r # Idle => r.student \in Student
         /\ r = Idle => r.pc = "idle" /\ r.student = Null
         /\ r.pc = "roster" => r.student \in Student /\ r.what \in Change
         /\ r.pc = "grant" => r.student \in Student /\ r.what \in {"on", "off"}
         /\ r.pc = "generate" => r.student \in Student /\ r.what \in 1 .. 3
         /\ r.pc \in {"own", "class"} => r.student \in Student /\ r.what \in {"none", "on", "off"}
         /\ r.pc \in {"join", "upsert", "asks", "allowed"} => r.student \in Student
BY DEF Requests, Idle

\* Where a request goes is a state of a request.
LEMMA AtFacts ==
  ASSUME NEW s \in Student
  PROVE  /\ \A pc \in {"join", "upsert", "asks", "allowed"} :
              At(pc, s, Null) \in Requests /\ At(pc, s, Null).pc = pc
         /\ \A change \in Change :
              At("roster", s, change) \in Requests /\ At("roster", s, change).pc = "roster"
         /\ \A p \in {"on", "off"} :
              At("grant", s, p) \in Requests /\ At("grant", s, p).pc = "grant"
         /\ \A p \in {"none", "on", "off"} :
              At("own", s, p) \in Requests /\ At("class", s, p) \in Requests
         /\ \A l \in 1 .. 3 :
              At("generate", s, l) \in Requests /\ At("generate", s, l).pc = "generate"
BY DEF At, Requests

LEMMA IdleFacts == Idle \in Requests /\ Idle.pc = "idle" /\ Idle.student = Null
BY DEF Idle, Requests

\* A row or the hints of a student, as a request finds them.
FoundNow(r) ==
  /\ r.pc = "own" => r.what = permission[r.student]
  /\ r.pc = "class" => r.what = policy
  /\ r.pc = "generate" => r.what = Len(hints[r.student]) + 1

\* A request goes on, with what it found, and nothing else changes.
LEMMA GoesOnReads ==
  ASSUME TypeOK, ReadsHold, NEW q \in Request, NEW r, FoundNow(r), GoesTo(q, r),
         UNCHANGED <<policy, permission, hints>>,
         touched' \in [Request -> SUBSET {"own", "class", "hint"}],
         "hint" \notin touched'[q],
         \A p \in Request : p # q => touched'[p] = touched[p]
  PROVE  ReadsHold'
<1>1. /\ request'[q] = r
      /\ \A p \in Request : p # q => request'[p] = request[p] /\ touched'[p] = touched[p]
  BY DEF GoesTo, TypeOK
<1>2. /\ r.pc = "own" => r.what = permission'[r.student]
      /\ r.pc = "class" => r.what = policy'
      /\ r.pc = "generate" => r.what = Len(hints'[r.student]) + 1
  BY DEF FoundNow
<1>3. policy' = policy /\ permission' = permission /\ hints' = hints
  OBVIOUS
<1>. QED
  BY <1>1, <1>2, <1>3 DEF ReadsHold

LEMMA GoesOn ==
  ASSUME ClassInv, NEW q \in Request, NEW r \in Requests, FoundNow(r), GoesTo(q, r),
         UNCHANGED <<enrollment, roster, policy, permission, hints>>,
         touched' \in [Request -> SUBSET {"own", "class", "hint"}],
         "hint" \notin touched'[q],
         \A p \in Request : p # q => touched'[p] = touched[p]
  PROVE  ClassInv'
<1>1. /\ UNCHANGED <<code, used, expiry, rules, member, audit, policy, permission, hints>>
      /\ request' = [request EXCEPT ![q] = r]
  BY DEF enrollment, roster, GoesTo
<1>2. request' \in [Request -> Requests]
  BY <1>1 DEF ClassInv, TypeOK
<1>3. TypeOK'
  BY <1>1, <1>2 DEF ClassInv, TypeOK
<1>4. AuditAgrees'
  BY <1>1 DEF ClassInv, AuditAgrees, EntriesOf
<1>5. ReadsHold'
  BY GoesOnReads DEF ClassInv
<1>. QED
  BY <1>3, <1>4, <1>5 DEF ClassInv

\* A request that generates no hint goes on, and nobody touches anything.
LEMMA GoesOnUntouched ==
  ASSUME ClassInv, NEW q \in Request, request[q].pc # "generate",
         NEW r \in Requests, FoundNow(r), GoesTo(q, r),
         UNCHANGED <<enrollment, roster, hinting>>
  PROVE  ClassInv'
<1>1. "hint" \notin touched[q] /\ touched \in [Request -> SUBSET {"own", "class", "hint"}]
  BY DEF ClassInv, ReadsHold, TypeOK
<1>2. UNCHANGED <<policy, permission, hints, touched>>
  BY DEF hinting
<1>. QED
  BY <1>1, <1>2, GoesOn

\* The enrollment changes, and nobody's request.
LEMMA EnrollmentInv ==
  ASSUME ClassInv, UNCHANGED <<rules, roster, hinting, request>>,
         code' \in used' /\ used' \subseteq Code /\ expiry' \in {"none", "ahead", "past"}
  PROVE  ClassInv'
<1>1. UNCHANGED <<rules, member, audit, policy, permission, hints, request, touched>>
  BY DEF roster, hinting
<1>2. TypeOK'
  BY <1>1 DEF ClassInv, TypeOK
<1>3. AuditAgrees' /\ ReadsHold'
  BY <1>1 DEF ClassInv, AuditAgrees, EntriesOf, ReadsHold
<1>. QED
  BY <1>2, <1>3 DEF ClassInv

\* Somebody writes a row that permits hints: the requests that check it are touched.
LEMMA TouchedReads ==
  ASSUME TypeOK, ReadsHold, hints' = hints,
         NEW row \in {"own", "class"}, NEW students \in SUBSET Student, Touches(row, students),
         row = "own" => policy' = policy /\ \A s \in Student \ students : permission'[s] = permission[s],
         row = "class" => permission' = permission /\ students = Student,
         \A q \in Request : request'[q] = request[q] \/ (request'[q] = Idle /\ request[q].pc = "grant")
  PROVE  ReadsHold' /\ touched' \in [Request -> SUBSET {"own", "class", "hint"}]
<1>1. ASSUME NEW q \in Request
      PROVE  /\ touched'[q] = IF request[q].pc \in Checking /\ request[q].student \in students
                               THEN touched[q] \cup {row} ELSE touched[q]
             /\ touched[q] \in SUBSET {"own", "class", "hint"}
  BY DEF Touches, TypeOK
<1>2. touched' \in [Request -> SUBSET {"own", "class", "hint"}]
  <2>1. \A q \in Request : touched'[q] \in SUBSET {"own", "class", "hint"}
    BY <1>1
  <2>. QED
    BY <2>1 DEF Touches
<1>3. ASSUME NEW q \in Request, request'[q] = Idle, request[q].pc = "grant"
      PROVE  "hint" \notin touched'[q] /\ request'[q].pc = "idle"
  BY <1>1, <1>3, IdleFacts DEF ReadsHold, Checking
<1>4. ASSUME NEW q \in Request, request'[q] = request[q]
      PROVE  /\ request[q].pc = "own" =>
                  request[q].what = permission'[request[q].student] \/ "own" \in touched'[q]
             /\ request[q].pc = "class" => request[q].what = policy' \/ "class" \in touched'[q]
             /\ "hint" \in touched'[q] <=> "hint" \in touched[q]
  <2>1. request[q].pc \in {"own", "class"} => request[q].student \in Student
    BY RequestFacts DEF TypeOK
  <2>5. row # "hint" /\ touched'[q] \in {touched[q], touched[q] \cup {row}}
    BY <1>1
  <2>2. "hint" \in touched'[q] <=> "hint" \in touched[q]
    BY <2>5
  <2>3. CASE request[q].pc = "own"
    <3>1. request[q].what = permission[request[q].student] \/ "own" \in touched[q]
      BY <2>3 DEF ReadsHold
    <3>. QED
      BY <1>1, <2>1, <2>2, <2>3, <3>1 DEF Checking
  <2>4. CASE request[q].pc = "class"
    <3>1. request[q].what = policy \/ "class" \in touched[q]
      BY <2>4 DEF ReadsHold
    <3>. QED
      BY <1>1, <2>1, <2>2, <2>4, <3>1 DEF Checking
  <2>. QED
    BY <2>2, <2>3, <2>4
<1>5. ReadsHold'
  <2>. SUFFICES ASSUME NEW q \in Request
                PROVE  /\ request'[q].pc = "own" =>
                            request'[q].what = permission'[request'[q].student] \/ "own" \in touched'[q]
                       /\ request'[q].pc = "class" => request'[q].what = policy' \/ "class" \in touched'[q]
                       /\ IF "hint" \in touched'[q]
                          THEN request'[q].pc = "generate"
                                 /\ request'[q].what <= Len(hints'[request'[q].student])
                          ELSE request'[q].pc = "generate" =>
                                 request'[q].what = Len(hints'[request'[q].student]) + 1
    BY DEF ReadsHold
  <2>1. CASE request'[q] = request[q]
    BY <1>4, <2>1 DEF ReadsHold
  <2>2. CASE request'[q] = Idle /\ request[q].pc = "grant"
    BY <1>3, <2>2
  <2>. QED
    BY <2>1, <2>2
<1>. QED
  BY <1>2, <1>5

LEMMA JoinUpsertsInv ==
  ASSUME ClassInv, NEW q \in Request, JoinUpserts(q)
  PROVE  ClassInv'
<1>. DEFINE s == request[q].student
<1>1. /\ request[q].pc = "upsert" /\ member' = [member EXCEPT ![s] = Joined(@)]
      /\ request' = [request EXCEPT ![q] = Idle]
      /\ UNCHANGED <<code, used, expiry, rules, audit, policy, permission, hints, touched>>
  BY DEF JoinUpserts, Ends, GoesTo, enrollment, hinting
<1>2. s \in Student /\ TypeOK
  BY <1>1, RequestFacts DEF ClassInv, TypeOK
<1>3. /\ member[s] \in {"none", "active", "inactive"}
      /\ member' \in [Student -> {"none", "active", "inactive"}]
      /\ member'[s] = Joined(member[s])
      /\ \A t \in Student : t # s => member'[t] = member[t]
  BY <1>1, <1>2 DEF TypeOK, Joined
<1>4. TypeOK'
  BY <1>1, <1>3, IdleFacts DEF ClassInv, TypeOK
<1>5. AuditAgrees'
  <2>1. \A t \in Student : EntriesOf(t)' = EntriesOf(t)
    BY <1>1 DEF EntriesOf
  <2>. SUFFICES ASSUME NEW t \in Student
                PROVE  \/ EntriesOf(t) = {} /\ member'[t] # "inactive"
                       \/ \E i \in EntriesOf(t) :
                            /\ \A j \in EntriesOf(t) : j <= i
                            /\ member'[t] = To(audit[i].action)
    BY <1>1, <2>1 DEF AuditAgrees
  <2>2. CASE t = s /\ member[s] = "none"
    <3>1. EntriesOf(t) = {}
      BY <2>2 DEF ClassInv, AuditAgrees, To
    <3>. QED
      BY <1>3, <2>2, <3>1 DEF Joined
  <2>3. CASE ~(t = s /\ member[s] = "none")
    <3>1. member'[t] = member[t]
      BY <1>3, <2>3 DEF Joined
    <3>. QED
      BY <3>1 DEF ClassInv, AuditAgrees
  <2>. QED
    BY <2>2, <2>3
<1>6. ReadsHold'
  BY <1>1, IdleFacts DEF ClassInv, TypeOK, ReadsHold
<1>. QED
  BY <1>4, <1>5, <1>6 DEF ClassInv

LEMMA RosterWritesInv ==
  ASSUME ClassInv, NEW q \in Request, RosterWrites(q)
  PROVE  ClassInv'
<1>. DEFINE s == request[q].student
            change == request[q].what
            e == [student |-> s, action |-> change]
            n == Len(audit) + 1
<1>1. /\ request[q].pc = "roster" /\ member' = [member EXCEPT ![s] = To(change)]
      /\ audit' = Append(audit, e) /\ request' = [request EXCEPT ![q] = Idle]
      /\ UNCHANGED <<code, used, expiry, rules, policy, permission, hints, touched>>
  BY DEF RosterWrites, Ends, GoesTo, enrollment, hinting, Audited
<1>2. s \in Student /\ change \in Change /\ TypeOK
  BY <1>1, RequestFacts DEF ClassInv, TypeOK
<1>3. e \in Entry /\ e.student = s /\ e.action = change
  BY <1>2 DEF Entry, Change
<1>4. /\ audit' \in Seq(Entry) /\ Len(audit') = n /\ audit'[n] = e /\ Len(audit) \in Nat
      /\ \A i \in 1 .. Len(audit) : audit'[i] = audit[i]
  <2>. HIDE DEF e
  <2>. QED
    BY <1>1, <1>2, <1>3, AppendProperties DEF TypeOK
<1>5. /\ To(change) \in {"active", "inactive"} /\ member'[s] = To(change)
      /\ member' \in [Student -> {"none", "active", "inactive"}]
      /\ \A t \in Student : t # s => member'[t] = member[t]
  BY <1>1, <1>2 DEF TypeOK, To
<1>6. TypeOK'
  BY <1>1, <1>4, <1>5, IdleFacts DEF ClassInv, TypeOK
<1>7. DOMAIN audit = 1 .. Len(audit) /\ DOMAIN audit' = 1 .. n
  BY <1>2, <1>4 DEF TypeOK
<1>. HIDE DEF e, s, change
<1>8. ASSUME NEW t \in Student
      PROVE  EntriesOf(t)' = IF t = s THEN EntriesOf(t) \cup {n} ELSE EntriesOf(t)
  BY <1>3, <1>4, <1>7 DEF EntriesOf
<1>9. AuditAgrees'
  <2>. SUFFICES ASSUME NEW t \in Student
                PROVE  \/ EntriesOf(t)' = {} /\ member'[t] # "inactive"
                       \/ \E i \in EntriesOf(t)' :
                            /\ \A j \in EntriesOf(t)' : j <= i
                            /\ member'[t] = To(audit'[i].action)
    BY DEF AuditAgrees
  <2>1. EntriesOf(t) \subseteq 1 .. Len(audit)
    BY <1>7 DEF EntriesOf
  <2>2. CASE t = s
    <3>1. EntriesOf(t)' = EntriesOf(t) \cup {n}
      BY <1>8, <2>2
    <3>2. \A j \in EntriesOf(t)' : j <= n
      BY <1>4, <2>1, <3>1
    <3>3. member'[t] = To(audit'[n].action)
      BY <1>3, <1>4, <1>5, <2>2
    <3>. QED
      BY <3>1, <3>2, <3>3
  <2>3. CASE t # s
    <3>1. EntriesOf(t)' = EntriesOf(t) /\ member'[t] = member[t]
      BY <1>5, <1>8, <2>3
    <3>2. \A i \in EntriesOf(t) : audit'[i] = audit[i]
      BY <1>4, <2>1
    <3>. QED
      BY <3>1, <3>2 DEF ClassInv, AuditAgrees
  <2>. QED
    BY <2>2, <2>3
<1>10. ReadsHold'
  BY <1>1, IdleFacts DEF ClassInv, TypeOK, ReadsHold
<1>. QED
  BY <1>6, <1>9, <1>10 DEF ClassInv

LEMMA HintStoredInv ==
  ASSUME ClassInv, NEW q \in Request, HintStored(q)
  PROVE  /\ ClassInv'
         /\ IF "hint" \in touched[q]
            THEN Last(hints'[request[q].student]) < Len(hints'[request[q].student])
            ELSE Last(hints'[request[q].student]) = Len(hints'[request[q].student])
         /\ \A t \in Student : t # request[q].student => hints'[t] = hints[t]
<1>. DEFINE s == request[q].student
            l == request[q].what
<1>1. /\ request[q].pc = "generate" /\ hints' = [hints EXCEPT ![s] = Append(@, l)]
      /\ request' = [request EXCEPT ![q] = Idle]
      /\ UNCHANGED <<code, used, expiry, rules, member, audit, policy, permission>>
  BY DEF HintStored, Ends, GoesTo, enrollment, roster
<1>2. /\ s \in Student /\ l \in 1 .. 3 /\ TypeOK
      /\ IF "hint" \in touched[q] THEN l <= Len(hints[s]) ELSE l = Len(hints[s]) + 1
  BY <1>1, RequestFacts DEF ClassInv, TypeOK, ReadsHold
<1>3. /\ Append(hints[s], l) \in Seq(1 .. 3)
      /\ Len(Append(hints[s], l)) = Len(hints[s]) + 1 /\ Len(hints[s]) \in Nat
      /\ Append(hints[s], l)[Len(hints[s]) + 1] = l
  <2>. DEFINE S == 1 .. 3
  <2>1. hints[s] \in Seq(S) /\ l \in S
    BY <1>2 DEF TypeOK
  <2>. HIDE DEF S, l, s
  <2>2. Append(hints[s], l) \in Seq(S)
    BY <2>1, AppendProperties
  <2>. QED
    BY <2>1, <2>2, AppendProperties DEF S
<1>9. /\ touched' \in [Request -> SUBSET {"own", "class", "hint"}] /\ touched'[q] = {}
      /\ \A r \in Request : r # q =>
           touched'[r] = IF request[r].pc = "generate" /\ request[r].student = s
                         THEN touched[r] \cup {"hint"} ELSE touched[r]
  <2>1. touched' = [r \in Request |->
                      IF r = q THEN {}
                      ELSE IF request[r].pc = "generate" /\ request[r].student = s
                      THEN touched[r] \cup {"hint"} ELSE touched[r]]
    BY DEF HintStored
  <2>2. \A r \in Request : touched[r] \in SUBSET {"own", "class", "hint"}
    BY <1>2 DEF TypeOK
  <2>3. \A r \in Request : touched[r] \cup {"hint"} \in SUBSET {"own", "class", "hint"}
    BY <2>2
  <2>. HIDE DEF s
  <2>. QED
    BY <2>1, <2>2, <2>3
<1>. HIDE DEF s, l
<1>4. /\ hints' \in [Student -> Seq(1 .. 3)] /\ hints'[s] = Append(hints[s], l)
      /\ \A t \in Student : t # s => hints'[t] = hints[t]
  BY <1>1, <1>2, <1>3 DEF TypeOK
<1>5. TypeOK'
  BY <1>1, <1>4, <1>9, IdleFacts DEF ClassInv, TypeOK
<1>6. AuditAgrees'
  BY <1>1 DEF ClassInv, AuditAgrees, EntriesOf
<1>7. ReadsHold'
  <2>. DEFINE Held(r) ==
                /\ request'[r].pc = "own" =>
                     request'[r].what = permission'[request'[r].student] \/ "own" \in touched'[r]
                /\ request'[r].pc = "class" => request'[r].what = policy' \/ "class" \in touched'[r]
                /\ IF "hint" \in touched'[r]
                   THEN request'[r].pc = "generate"
                          /\ request'[r].what <= Len(hints'[request'[r].student])
                   ELSE request'[r].pc = "generate" =>
                          request'[r].what = Len(hints'[request'[r].student]) + 1
  <2>1. Held(q)
    BY <1>1, <1>2, <1>9, IdleFacts DEF TypeOK
  <2>2. ASSUME NEW r \in Request, r # q PROVE Held(r)
    <3>1. request'[r] = request[r]
      BY <1>1, <1>2, <2>2 DEF TypeOK
    <3>2. request[r].pc = "generate" => request[r].what \in 1 .. 3 /\ request[r].student \in Student
      BY <1>2, RequestFacts DEF TypeOK
    <3>3. CASE request[r].pc = "generate" /\ request[r].student = s
      <4>1. "hint" \in touched'[r]
        BY <1>9, <2>2, <3>3
      <4>2. request[r].what <= Len(hints[s]) + 1 /\ Len(hints'[s]) = Len(hints[s]) + 1
        BY <1>3, <1>4, <3>2, <3>3 DEF ClassInv, ReadsHold
      <4>. QED
        BY <3>1, <3>3, <4>1, <4>2
    <3>4. CASE request[r].pc = "generate" /\ request[r].student # s
      <4>1. touched'[r] = touched[r] /\ hints'[request[r].student] = hints[request[r].student]
        BY <1>4, <1>9, <2>2, <3>2, <3>4
      <4>. QED
        BY <3>1, <3>4, <4>1 DEF ClassInv, ReadsHold
    <3>5. CASE request[r].pc # "generate"
      <4>1. touched'[r] = touched[r] /\ policy' = policy /\ permission' = permission
        BY <1>1, <1>9, <2>2, <3>5
      <4>. QED
        BY <3>1, <3>5, <4>1 DEF ClassInv, ReadsHold
    <3>. QED
      BY <3>3, <3>4, <3>5
  <2>3. \A r \in Request : Held(r)
    BY <2>1, <2>2
  <2>. QED
    BY <2>3 DEF ReadsHold
<1>8. IF "hint" \in touched[q] THEN Last(hints'[s]) < Len(hints'[s])
      ELSE Last(hints'[s]) = Len(hints'[s])
  <2>1. Last(hints'[s]) = l /\ Len(hints'[s]) = Len(hints[s]) + 1
    BY <1>3, <1>4 DEF Last
  <2>. QED
    BY <1>2, <1>3, <2>1
<1>. QED
  BY <1>4, <1>5, <1>6, <1>7, <1>8 DEF ClassInv, s

-----------------------------------------------------------------------------
LEMMA ClassInitInv == Init => ClassInv
<1>. SUFFICES ASSUME Init PROVE ClassInv
  OBVIOUS
<1>1. <<>> \in Seq(Entry) /\ <<>> \in Seq(1 .. 3) /\ DOMAIN <<>> = {}
  BY EmptySeq
<1>2. TypeOK
  BY <1>1, IdleFacts DEF Init, TypeOK
<1>3. AuditAgrees
  BY <1>1 DEF Init, AuditAgrees, EntriesOf
<1>4. ReadsHold
  BY IdleFacts DEF Init, ReadsHold
<1>. QED
  BY <1>2, <1>3, <1>4 DEF ClassInv

LEMMA ClassNextInv ==
  ASSUME ClassInv, [Next]_vars
  PROVE  ClassInv'
<1>1. TypeOK /\ ReadsHold
  BY DEF ClassInv
<1>2. ASSUME NEW c \in Code, NewCode(c), expiry' \in {expiry, "none", "ahead"} PROVE ClassInv'
  BY <1>1, <1>2, EnrollmentInv DEF NewCode, TypeOK
<1>3. ASSUME NEW c \in Code, NEW e \in {"none", "ahead"}, RotateJoinCode(c, e) PROVE ClassInv'
  BY <1>2, <1>3 DEF RotateJoinCode
<1>4. ASSUME NEW c \in Code, RegenerateJoinCode(c) PROVE ClassInv'
  BY <1>2, <1>4 DEF RegenerateJoinCode
<1>5. CASE CodeExpires
  BY <1>1, <1>5, EnrollmentInv DEF CodeExpires, TypeOK
<1>6. ASSUME NEW p \in {"on", "off"}, SetClassroomHintPolicy(p) PROVE ClassInv'
  <2>1. /\ UNCHANGED <<code, used, expiry, rules, member, audit, permission, hints, request>>
        /\ policy' = p /\ Touches("class", Student)
    BY <1>6 DEF SetClassroomHintPolicy, enrollment, roster
  <2>2. ReadsHold' /\ touched' \in [Request -> SUBSET {"own", "class", "hint"}]
    BY <1>1, <2>1, TouchedReads
  <2>3. TypeOK'
    BY <1>1, <2>1, <2>2 DEF TypeOK
  <2>. QED
    BY <2>1, <2>2, <2>3 DEF ClassInv, AuditAgrees, EntriesOf
<1>20. ASSUME NEW q \in Request, NEW r \in Requests, request[q].pc # "generate",
              r.pc \notin {"own", "class", "generate"}, GoesTo(q, r),
              UNCHANGED <<enrollment, roster, hinting>>
       PROVE  ClassInv'
  BY <1>20, GoesOnUntouched DEF FoundNow
<1>21. ASSUME NEW q \in Request, request[q] = Idle PROVE request[q].pc # "generate"
  BY <1>21, IdleFacts
<1>7. ASSUME NEW q \in Request, NEW s \in Student, NEW c \in Code, JoinFindsClassroom(q, s, c)
      PROVE  ClassInv'
  BY <1>7, <1>20, <1>21, AtFacts DEF JoinFindsClassroom
<1>8. ASSUME NEW q \in Request, NEW s \in Student, NEW change \in Change,
             RosterReads(q, s, change)
      PROVE  ClassInv'
  BY <1>8, <1>20, <1>21, AtFacts DEF RosterReads
<1>9. ASSUME NEW q \in Request, NEW s \in Student, NEW p \in {"on", "off"}, GrantReads(q, s, p)
      PROVE  ClassInv'
  BY <1>9, <1>20, <1>21, AtFacts DEF GrantReads
<1>22. ASSUME NEW q \in Request, NEW r \in Requests, r.pc \notin {"own", "class", "generate"},
              GoesTo(q, r), touched' = [touched EXCEPT ![q] = {}],
              UNCHANGED <<enrollment, roster, policy, permission, hints>>
       PROVE  ClassInv'
  <2>1. /\ touched' \in [Request -> SUBSET {"own", "class", "hint"}]
        /\ touched'[q] = {} /\ \A p \in Request : p # q => touched'[p] = touched[p]
    BY <1>1, <1>22 DEF TypeOK
  <2>2. FoundNow(r)
    BY <1>22 DEF FoundNow
  <2>. QED
    BY <1>22, <2>1, <2>2, GoesOn
<1>10. ASSUME NEW q \in Request, NEW s \in Student, HintAsked(q, s) PROVE ClassInv'
  BY <1>10, <1>22, AtFacts DEF HintAsked
<1>11. ASSUME NEW q \in Request, JoinReadsMembership(q) PROVE ClassInv'
  <2>1. request[q].student \in Student
    BY <1>1, <1>11, RequestFacts DEF JoinReadsMembership, TypeOK
  <2>. QED
    BY <1>11, <1>20, <2>1, AtFacts DEF JoinReadsMembership
<1>12. ASSUME NEW q \in Request, GrantWrites(q) PROVE ClassInv'
  <2>. DEFINE s == request[q].student
  <2>1. /\ s \in Student /\ request[q].what \in {"on", "off"} /\ request[q].pc = "grant"
        /\ permission' = [permission EXCEPT ![s] = request[q].what]
        /\ Touches("own", {s}) /\ request' = [request EXCEPT ![q] = Idle]
        /\ UNCHANGED <<code, used, expiry, rules, member, audit, policy, hints>>
    BY <1>1, <1>12, RequestFacts DEF GrantWrites, Ends, GoesTo, TypeOK, enrollment, roster
  <2>. HIDE DEF s
  <2>2. /\ permission' \in [Student -> {"none", "on", "off"}]
        /\ \A t \in Student \ {s} : permission'[t] = permission[t]
        /\ \A p \in Request : request'[p] = request[p] \/ (request'[p] = Idle /\ request[p].pc = "grant")
        /\ request' \in [Request -> Requests] /\ {s} \in SUBSET Student
    BY <1>1, <2>1, IdleFacts DEF TypeOK
  <2>3. ReadsHold' /\ touched' \in [Request -> SUBSET {"own", "class", "hint"}]
    BY <1>1, <2>1, <2>2, TouchedReads
  <2>4. TypeOK'
    BY <1>1, <2>1, <2>2, <2>3 DEF TypeOK
  <2>. QED
    BY <2>1, <2>3, <2>4 DEF ClassInv, AuditAgrees, EntriesOf
<1>19. ASSUME NEW q \in Request, HintReads(q) PROVE ClassInv'
  <2>. DEFINE s == request[q].student
              own == At("own", s, permission[s])
              class == At("class", s, policy)
  <2>1. s \in Student /\ request[q].pc = "asks" /\ UNCHANGED <<enrollment, roster, hinting>>
        /\ (GoesTo(q, own) \/ GoesTo(q, class))
    BY <1>1, <1>19, RequestFacts DEF HintReads, TypeOK
  <2>2. own \in Requests /\ class \in Requests
    BY <1>1, <2>1, AtFacts DEF TypeOK
  <2>3. FoundNow(own) /\ FoundNow(class)
    BY DEF FoundNow, At
  <2>. HIDE DEF own, class
  <2>. QED
    BY <2>1, <2>2, <2>3, GoesOnUntouched
<1>13. ASSUME NEW q \in Request, HintAllowed(q) PROVE ClassInv'
  <2>1. request[q].student \in Student
    BY <1>1, <1>13, RequestFacts DEF HintAllowed, TypeOK
  <2>. QED
    BY <1>13, <1>22, <2>1, AtFacts DEF HintAllowed
<1>14. ASSUME NEW q \in Request, HintCounts(q) PROVE ClassInv'
  <2>. DEFINE s == request[q].student
              r == At("generate", s, NextLevel(s))
  <2>1. s \in Student /\ GoesTo(q, r) /\ NextLevel(s) <= 3 /\ request[q].pc = "allowed"
        /\ UNCHANGED <<enrollment, roster, hinting>>
    BY <1>1, <1>14, RequestFacts DEF HintCounts, TypeOK
  <2>2. NextLevel(s) \in 1 .. 3
    <3>. HIDE DEF s, r
    <3>1. hints[s] \in Seq(1 .. 3)
      BY <1>1, <2>1 DEF TypeOK
    <3>2. Len(hints[s]) \in Nat
      BY <3>1
    <3>. QED
      BY <2>1, <3>2 DEF NextLevel
  <2>3. r \in Requests
    BY <2>1, <2>2, AtFacts
  <2>4. FoundNow(r)
    BY DEF At, NextLevel, FoundNow
  <2>. HIDE DEF r
  <2>. QED
    BY <2>1, <2>3, <2>4, GoesOnUntouched
<1>15. ASSUME NEW q \in Request, Fails(q) PROVE ClassInv'
  BY <1>15, <1>22, IdleFacts DEF Fails, Ends
<1>16. CASE UNCHANGED vars
  <2>1. UNCHANGED <<code, used, expiry, rules, member, audit, policy, permission, hints, request,
                    touched>>
    BY <1>16 DEF vars
  <2>2. TypeOK'
    BY <1>1, <2>1 DEF TypeOK
  <2>3. AuditAgrees'
    BY <2>1 DEF ClassInv, AuditAgrees, EntriesOf
  <2>4. ReadsHold'
    BY <1>1, <2>1 DEF ReadsHold
  <2>. QED
    BY <2>2, <2>3, <2>4 DEF ClassInv
<1>17. CASE Next
  BY <1>3, <1>4, <1>5, <1>6, <1>7, <1>8, <1>9, <1>10, <1>11, <1>12, <1>13, <1>14, <1>15,
     <1>17, <1>19, JoinUpsertsInv, RosterWritesInv, HintStoredInv DEF Next
<1>. QED
  BY <1>16, <1>17

-----------------------------------------------------------------------------
(* The theorems *)

\* The type of the classroom's state, and the two invariants, at all times.
THEOREM ClassInvariance == Spec => []ClassInv
<1>1. Init => ClassInv
  BY ClassInitInv
<1>2. ClassInv /\ [Next]_vars => ClassInv'
  BY ClassNextInv
<1>. QED
  BY <1>1, <1>2, PTL DEF Spec

\* The rows of the classroom, its students and the requests have their types.
THEOREM TypeCorrect == Spec => []TypeOK
<1>1. ClassInv => TypeOK
  BY DEF ClassInv
<1>. QED
  BY <1>1, ClassInvariance, PTL

\* A member is inactive exactly when the last audit entry about it says so, however
\* requests of the roster overlap at READ COMMITTED.
THEOREM TrailAgrees == Spec => []AuditAgrees
<1>1. ClassInv => AuditAgrees
  BY DEF ClassInv
<1>. QED
  BY <1>1, ClassInvariance, PTL

-----------------------------------------------------------------------------
(* The action properties *)

\* A member who becomes active without having been one before was made one by the
\* teacher: the step is the write of a reactivation.
LEMMA RestoredByTeacher ==
  ASSUME ClassInv, [Next]_vars, NEW s \in Student, member[s] = "inactive", member'[s] = "active"
  PROVE  /\ Len(audit') = Len(audit) + 1
         /\ Last(audit') = [student |-> s, action |-> "REACTIVATED"]
<1>1. TypeOK
  BY DEF ClassInv
<1>2. member' # member
  OBVIOUS
<1>3. PICK q \in Request : JoinUpserts(q) \/ RosterWrites(q)
  BY <1>2 DEF Next, vars, roster, NewCode, RegenerateJoinCode, RotateJoinCode, CodeExpires,
     SetClassroomHintPolicy, JoinFindsClassroom, RosterReads, GrantReads, HintAsked,
     JoinReadsMembership, GrantWrites, HintReads, HintAllowed, HintCounts, HintStored, Fails
<1>4. ~JoinUpserts(q)
  <2>. SUFFICES ASSUME JoinUpserts(q) PROVE FALSE
    OBVIOUS
  <2>1. member' = [member EXCEPT ![request[q].student] = Joined(@)]
    BY DEF JoinUpserts
  <2>2. member'[s] = member[s] \/ member'[s] = Joined(member[s])
    BY <1>1, <2>1 DEF TypeOK
  <2>. QED
    BY <2>2 DEF Joined
<1>. DEFINE e == [student |-> request[q].student, action |-> request[q].what]
<1>5. /\ request[q].pc = "roster" /\ audit' = Append(audit, e)
      /\ member' = [member EXCEPT ![request[q].student] = To(request[q].what)]
  BY <1>3, <1>4 DEF RosterWrites, Audited
<1>6. request[q].student \in Student /\ request[q].what \in Change
  BY <1>1, <1>5, RequestFacts DEF TypeOK
<1>7. request[q].student = s /\ request[q].what = "REACTIVATED"
  BY <1>1, <1>5, <1>6 DEF TypeOK, To, Change
<1>8. e \in Entry /\ e = [student |-> s, action |-> "REACTIVATED"]
  BY <1>7 DEF Entry
<1>. HIDE DEF e
<1>9. Len(audit') = Len(audit) + 1 /\ audit'[Len(audit) + 1] = e
  BY <1>1, <1>5, <1>8, AppendProperties DEF TypeOK
<1>. QED
  BY <1>8, <1>9 DEF Last

\* A student whose access ended gets it back from the teacher alone, also when a join
\* began before the access ended.
THEOREM AccessIsGivenBack == Spec => JoinNeverRestores
<1>1. ClassInv /\ [Next]_vars =>
        [\A s \in Student :
           member[s] = "inactive" /\ member'[s] = "active" =>
             /\ Len(audit') = Len(audit) + 1
             /\ Last(audit') = [student |-> s, action |-> "REACTIVATED"]]_vars
  BY RestoredByTeacher
<1>. QED
  BY <1>1, ClassInvariance, PTL DEF Spec, JoinNeverRestores

\* Hints are stored by the last step of a request for them.
LEMMA StoredByRequest ==
  ASSUME ClassInv, [Next]_vars, NEW s \in Student, hints'[s] # hints[s]
  PROVE  \E q \in Request :
           /\ request[q].student = s /\ request[q].pc = "generate"
           /\ IF "hint" \in touched[q] THEN Last(hints'[s]) < Len(hints'[s])
              ELSE Last(hints'[s]) = Len(hints'[s])
<1>1. hints' # hints
  OBVIOUS
<1>2. PICK q \in Request : HintStored(q)
  BY <1>1 DEF Next, vars, hinting, NewCode, RegenerateJoinCode, RotateJoinCode, CodeExpires,
     SetClassroomHintPolicy, JoinFindsClassroom, RosterReads, GrantReads, HintAsked,
     JoinReadsMembership, JoinUpserts, RosterWrites, GrantWrites, HintReads, HintAllowed,
     HintCounts, Fails
<1>3. s = request[q].student
  BY <1>2, HintStoredInv
<1>. QED
  BY <1>2, <1>3, HintStoredInv DEF HintStored

\* A request that passes the check of a student who may not have hints was touched.
LEMMA LockedPassesNone ==
  ASSUME ClassInv, [Next]_vars, NEW q \in Request,
         request[q].pc # "allowed", request'[q].pc = "allowed",
         NEW s, s = request'[q].student
  PROVE  /\ permission[s] = "off" => "own" \in touched[q]
         /\ permission[s] = "none" /\ policy # "on" => touched[q] # {}
<1>1. request \in [Request -> Requests] /\ ReadsHold
  BY DEF ClassInv, TypeOK
<1>2. request' # request
  OBVIOUS
<1>3. PICK p \in Request : HintAllowed(p) \/ \E r : GoesTo(p, r) /\ r.pc # "allowed"
  <2>1. CASE \E p \in Request : HintAllowed(p)
    BY <2>1
  <2>2. CASE ~ \E p \in Request : HintAllowed(p)
    <3>. DEFINE Places == {"join", "upsert", "roster", "grant", "asks", "own", "class", "generate"}
    <3>1. PICK p \in Request :
            \/ Ends(p)
            \/ \E t, w : \E pc \in Places : GoesTo(p, At(pc, t, w))
      BY <1>2, <2>2 DEF Next, vars, NewCode, RegenerateJoinCode, RotateJoinCode, CodeExpires,
         SetClassroomHintPolicy, JoinFindsClassroom, RosterReads, GrantReads, HintAsked,
         JoinReadsMembership, JoinUpserts, RosterWrites, GrantWrites, HintReads, HintCounts,
         HintStored, Fails
    <3>2. CASE Ends(p)
      BY <3>2, IdleFacts DEF Ends
    <3>3. ASSUME NEW t, NEW w, NEW pc \in Places, GoesTo(p, At(pc, t, w))
          PROVE  \E r : GoesTo(p, r) /\ r.pc # "allowed"
      <4>1. At(pc, t, w).pc # "allowed"
        BY DEF At
      <4>. QED
        BY <3>3, <4>1
    <3>. QED
      BY <3>1, <3>2, <3>3
  <2>. QED
    BY <2>1, <2>2
<1>4. HintAllowed(q)
  <2>1. ASSUME NEW r, GoesTo(p, r), r.pc # "allowed" PROVE FALSE
    BY <1>1, <2>1 DEF GoesTo
  <2>2. HintAllowed(p)
    BY <1>3, <2>1
  <2>3. p = q
    BY <1>1, <2>2 DEF HintAllowed, GoesTo
  <2>. QED
    BY <2>2, <2>3
<1>5. s = request[q].student
  BY <1>1, <1>4 DEF HintAllowed, GoesTo, At
<1>6. CASE request[q].pc = "own" /\ Allows(request[q].what, policy)
  BY <1>1, <1>5, <1>6 DEF ReadsHold, Allows
<1>7. CASE request[q].pc = "class" /\ Allows(permission[s], request[q].what)
  BY <1>1, <1>5, <1>7 DEF ReadsHold, Allows
<1>. QED
  BY <1>4, <1>5, <1>6, <1>7 DEF HintAllowed

\* Hints are earned: only a request that passed the check stores one, at the level
\* that follows the hints there are unless another one overtook it; and a lock
\* is passed only if the row that locks was written during the check.
THEOREM HintsAreEarned == Spec => HintsEarned
<1>1. ClassInv /\ [Next]_vars =>
        [/\ \A s \in Student : hints'[s] # hints[s] =>
              \E q \in Request :
                /\ request[q].student = s /\ request[q].pc = "generate"
                /\ IF "hint" \in touched[q] THEN Last(hints'[s]) < Len(hints'[s])
                   ELSE Last(hints'[s]) = Len(hints'[s])
         /\ \A q \in Request :
              LET s == request'[q].student IN
              request[q].pc # "allowed" /\ request'[q].pc = "allowed" =>
                /\ permission[s] = "off" => "own" \in touched[q]
                /\ permission[s] = "none" /\ policy # "on" => touched[q] # {}]_vars
  BY StoredByRequest, LockedPassesNone
<1>. QED
  BY <1>1, ClassInvariance, PTL DEF Spec, HintsEarned

-----------------------------------------------------------------------------
(* Identity.                                                                *)

\* A subject signs in to an account there is, and to one no other subject signs in to.
Mapped ==
  \A s \in Subject : identity[s] # None =>
    /\ identity[s] \in Accounts
    /\ \A t \in Subject : identity[t] = identity[s] => t = s

\* No two accounts have one address.
Addressed == \A u, v \in Accounts : account[u].email = account[v].email => u = v

\* The account that a link or a webhook has found is there.
Found == \A q \in Handler : handling[q].pc \in {"link", "webhook"} => handling[q].user \in Accounts

AccountsInv == AccountsTypeOK /\ Mapped /\ Addressed /\ Found

\* What a step keeps of the accounts (AccountsKept).
Keeps ==
  /\ \A u \in Accounts : account[u].status = "DISABLED" => account'[u].status = "DISABLED"
  /\ \A u \in User : SubjectsOf(u) # {} => SubjectsOf(u)' # {}
  /\ \A q \in Handler :
       LET r == handling'[q] IN
       r # handling[q] /\ r.pc = "answered" /\ r.ok => identity'[r.subject] = r.user

-----------------------------------------------------------------------------
\* A set of which any two elements are equal has at most one.
LEMMA AtMostOne ==
  ASSUME NEW S, \A x, y \in S : x = y
  PROVE  Cardinality(S) <= 1
<1>1. CASE S = {}
  BY <1>1, FS_EmptySet
<1>2. CASE S # {}
  <2>1. PICK x : x \in S
    BY <1>2
  <2>2. S = {x}
    BY <2>1
  <2>3. Cardinality({x}) = 1
    BY FS_Singleton
  <2>. QED
    BY <2>2, <2>3
<1>. QED
  BY <1>1, <1>2

\* The parts of a request, by where it is.
LEMMA HandlingFacts ==
  ASSUME NEW r \in Handlings
  PROVE  /\ r.pc = "link" => r.subject \in Subject /\ r.user \in User
         /\ r.pc = "webhook" => r.event \in Event /\ r.user \in User
BY DEF Handlings, Free

LEMMA EventFacts ==
  ASSUME NEW v \in Event
  PROVE  /\ v.subject \in Subject /\ v.type \in {"updated", "deleted"}
         /\ v.type = "updated" => v.email \in Email
BY DEF Event

LEMMA FreeFacts == Free \in Handlings /\ Free.pc = "idle"
BY DEF Free, Handlings

\* An account that is active, and one that follows an event, are accounts.
LEMMA AccountFacts ==
  /\ \A a \in Account : a # None /\ a.email \in Email /\ a.role \in Role
                        /\ a.status \in {"ACTIVE", "DISABLED"}
  /\ \A e \in Email, r \in Role :
       Active(e, r) \in Account /\ Active(e, r).email = e /\ Active(e, r).status = "ACTIVE"
BY IdentityAssumption DEF Account, Active

-----------------------------------------------------------------------------
(* The ways in which a step may change accounts and identities             *)

\* Neither changes; a request reads, ends, or is answered with what is there.
LEMMA ReadsOnly ==
  ASSUME AccountsInv, UNCHANGED <<account, identity>>,
         profile' \in [Subject -> Email \cup {None}], event' \subseteq Event,
         NEW q \in Handler, NEW r \in Handlings, handling' = [handling EXCEPT ![q] = r],
         r.pc \in {"link", "webhook"} => r.user \in Accounts,
         r.pc = "answered" /\ r.ok => identity[r.subject] = r.user
  PROVE  AccountsInv' /\ Keeps
<1>1. AccountsTypeOK /\ Accounts' = Accounts
  BY DEF AccountsInv, Accounts
<1>2. AccountsTypeOK'
  BY <1>1 DEF AccountsTypeOK
<1>3. Mapped' /\ Addressed'
  BY <1>1 DEF AccountsInv, Mapped, Addressed
<1>4. Found'
  BY <1>1 DEF AccountsInv, AccountsTypeOK, Found
<1>5. Keeps
  BY <1>1 DEF AccountsTypeOK, Keeps, SubjectsOf
<1>. QED
  BY <1>2, <1>3, <1>4, <1>5 DEF AccountsInv

\* Only Clerk's side changes.
LEMMA ClerkOnly ==
  ASSUME AccountsInv, UNCHANGED <<account, identity, handling>>,
         profile' \in [Subject -> Email \cup {None}], event' \subseteq Event
  PROVE  AccountsInv' /\ Keeps
<1>1. AccountsTypeOK /\ Accounts' = Accounts
  BY DEF AccountsInv, Accounts
<1>. QED
  BY <1>1 DEF AccountsInv, AccountsTypeOK, Mapped, Addressed, Found, Keeps, SubjectsOf

\* One account changes its parts, but is not given back, and its address is no
\* other's.
LEMMA AccountChanges ==
  ASSUME AccountsInv, UNCHANGED <<identity, profile, event>>,
         NEW u \in User, NEW a \in Account, account' = [account EXCEPT ![u] = a],
         u \in Accounts /\ account[u].status = "DISABLED" => a.status = "DISABLED",
         \A v \in Accounts : account[v].email = a.email => v = u,
         NEW q \in Handler, NEW r \in Handlings, handling' = [handling EXCEPT ![q] = r],
         r.pc \notin {"link", "webhook"},
         r.pc = "answered" /\ r.ok => identity[r.subject] = r.user
  PROVE  AccountsInv' /\ Keeps
<1>1. AccountsTypeOK
  BY DEF AccountsInv
<1>2. account'[u] = a /\ \A v \in User : v # u => account'[v] = account[v]
  BY <1>1 DEF AccountsTypeOK
<1>3. Accounts' = Accounts \cup {u}
  BY <1>2, AccountFacts DEF Accounts
<1>4. AccountsTypeOK'
  BY <1>1 DEF AccountsTypeOK
<1>5. Mapped'
  BY <1>3 DEF AccountsInv, Mapped
<1>6. Addressed'
  <2>. SUFFICES ASSUME NEW v \in Accounts \cup {u}, NEW w \in Accounts \cup {u},
                       account'[v].email = account'[w].email
                PROVE  v = w
    BY <1>3 DEF Addressed
  <2>1. v \in User /\ w \in User
    BY DEF Accounts
  <2>. QED
    BY <1>2, <2>1 DEF AccountsInv, Addressed
<1>7. Found'
  BY <1>1, <1>3 DEF AccountsInv, AccountsTypeOK, Found
<1>8. Keeps
  <2>1. \A v \in Accounts : v \in User
    BY DEF Accounts
  <2>. QED
    BY <1>1, <1>2, <2>1 DEF AccountsTypeOK, Keeps, SubjectsOf
<1>. QED
  BY <1>4, <1>5, <1>6, <1>7, <1>8 DEF AccountsInv

\* A subject that has no account gets one that no other subject has, or that the
\* other subject loses; the accounts that change keep their addresses apart.
LEMMA IdentityMoves ==
  ASSUME AccountsInv, UNCHANGED <<profile, event>>,
         NEW s \in Subject, identity[s] = None, NEW u \in User,
         identity' = Relinked(s, u),
         account' \in [User -> Account \cup {None}],
         Accounts \subseteq Accounts', u \in Accounts', Addressed',
         \A v \in Accounts : account[v].status = "DISABLED" => account'[v].status = "DISABLED",
         NEW q \in Handler, NEW r \in Handlings, handling' = [handling EXCEPT ![q] = r],
         r.pc = "answered", r.subject = s, r.user = u
  PROVE  AccountsInv' /\ Keeps
<1>1. AccountsTypeOK
  BY DEF AccountsInv
<1>2. /\ identity' \in [Subject -> User \cup {None}] /\ identity'[s] = u
      /\ \A t \in Subject : t # s /\ identity[t] # u => identity'[t] = identity[t]
      /\ \A t \in Subject : t # s /\ identity[t] = u => identity'[t] = None
  BY <1>1 DEF Relinked, AccountsTypeOK
<1>3. u # None
  BY IdentityAssumption
<1>4. AccountsTypeOK'
  BY <1>1, <1>2 DEF AccountsTypeOK
<1>5. Mapped'
  <2>. SUFFICES ASSUME NEW t \in Subject, identity'[t] # None
                PROVE  /\ identity'[t] \in Accounts'
                       /\ \A w \in Subject : identity'[w] = identity'[t] => w = t
    BY DEF Mapped
  <2>1. CASE t = s
    BY <1>2, <1>3, <2>1
  <2>2. CASE t # s
    <3>1. identity[t] # u /\ identity'[t] = identity[t]
      BY <1>2, <2>2
    <3>2. \A w \in Subject : identity'[w] = identity[t] => identity[w] = identity[t]
      BY <1>2, <3>1
    <3>. QED
      BY <3>1, <3>2 DEF AccountsInv, Mapped
  <2>. QED
    BY <2>1, <2>2
<1>6. Found'
  BY <1>1 DEF AccountsInv, AccountsTypeOK, Found
<1>7. \A v \in User : SubjectsOf(v) # {} => SubjectsOf(v)' # {}
  <2>. SUFFICES ASSUME NEW v \in User, NEW t \in Subject, identity[t] = v
                PROVE  \E w \in Subject : identity'[w] = v
    BY DEF SubjectsOf
  <2>1. t # s
    BY IdentityAssumption
  <2>. QED
    BY <1>2, <2>1
<1>8. Keeps
  BY <1>1, <1>2, <1>7 DEF AccountsTypeOK, Keeps
<1>. QED
  BY <1>4, <1>5, <1>6, <1>8 DEF AccountsInv

-----------------------------------------------------------------------------
(* The steps                                                               *)

\* The answer to a request, when it is a yes, a no, or either.
LEMMA AnswerFacts ==
  ASSUME NEW q \in Handler, NEW s \in Subject, NEW ok \in BOOLEAN, NEW u \in User,
         Answers(q, s, ok, u)
  PROVE  \E r \in Handlings :
           /\ handling' = [handling EXCEPT ![q] = r]
           /\ r.pc = "answered" /\ r.subject = s /\ r.user = u /\ (r.ok => ok)
<1>. DEFINE r == [pc |-> "answered", subject |-> s, ok |-> ok, user |-> u]
<1>1. r \in Handlings
  BY DEF Handlings
<1>2. r.pc = "answered" /\ r.subject = s /\ r.user = u /\ (r.ok => ok)
  OBVIOUS
<1>3. handling' = [handling EXCEPT ![q] = r]
  BY DEF Answers
<1>. QED
  BY <1>1, <1>2, <1>3

Yes(s, u) == [pc |-> "answered", subject |-> s, ok |-> TRUE, user |-> u]
No(s, u) == [pc |-> "answered", subject |-> s, ok |-> FALSE, user |-> u]

LEMMA YesNoFacts ==
  ASSUME NEW s \in Subject, NEW u \in User
  PROVE  /\ Yes(s, u) \in Handlings /\ Yes(s, u).pc = "answered"
         /\ Yes(s, u).subject = s /\ Yes(s, u).user = u
         /\ No(s, u) \in Handlings /\ No(s, u).pc = "answered" /\ ~No(s, u).ok
         /\ No(s, u).subject = s /\ No(s, u).user = u
BY DEF Handlings, Yes, No

\* A mapping is made for a subject and an account that have none: nothing moves.
LEMMA NothingToMove ==
  ASSUME AccountsTypeOK, NEW s \in Subject, NEW u \in User, SubjectsOf(u) = {}
  PROVE  [identity EXCEPT ![s] = u] = Relinked(s, u)
BY DEF AccountsTypeOK, SubjectsOf, Relinked

LEMMA CreatesInv ==
  ASSUME AccountsInv, NEW q \in Handler, NEW s \in Subject, NEW r \in Role, profile[s] # None,
         identity[s] = None, Creates(q, s, r), UNCHANGED <<profile, event>>
  PROVE  AccountsInv' /\ Keeps
<1>1. AccountsTypeOK /\ profile[s] \in Email
  BY DEF AccountsInv, AccountsTypeOK
<1>2. PICK u \in User \ Accounts :
        /\ Owner(profile[s]) = {}
        /\ account' = [account EXCEPT ![u] = Active(profile[s], r)]
        /\ identity' = [identity EXCEPT ![s] = u]
        /\ Answers(q, s, TRUE, u)
  BY DEF Creates
<1>3. SubjectsOf(u) = {}
  BY <1>2, IdentityAssumption DEF AccountsInv, Mapped, SubjectsOf
<1>4. identity' = Relinked(s, u)
  BY <1>1, <1>2, <1>3, NothingToMove
<1>. DEFINE a == Active(profile[s], r)
<1>5. a \in Account /\ a # None /\ a.email = profile[s]
  BY <1>1, AccountFacts
<1>. HIDE DEF a
<1>6. /\ account' \in [User -> Account \cup {None}] /\ account'[u] = a
      /\ \A v \in User : v # u => account'[v] = account[v]
  BY <1>1, <1>2, <1>5 DEF AccountsTypeOK, a
<1>7. Accounts' = Accounts \cup {u}
  BY <1>5, <1>6 DEF Accounts
<1>8. \A v \in Accounts : v \in User /\ v # u /\ account[v].email # profile[s]
  BY <1>2 DEF Owner, Accounts
<1>9. Addressed'
  BY <1>5, <1>6, <1>7, <1>8 DEF AccountsInv, Addressed
<1>10. \A v \in Accounts : account'[v] = account[v]
  BY <1>6, <1>8
<1>11. PICK w \in Handlings :
       /\ handling' = [handling EXCEPT ![q] = w]
       /\ w.pc = "answered" /\ w.subject = s /\ w.user = u
  <2>1. handling' = [handling EXCEPT ![q] = Yes(s, u)]
    BY <1>2 DEF Answers, Yes
  <2>2. s \in Subject /\ u \in User
    BY <1>2
  <2>3. /\ Yes(s, u) \in Handlings /\ Yes(s, u).pc = "answered"
        /\ Yes(s, u).subject = s /\ Yes(s, u).user = u
    BY <2>2, YesNoFacts
  <2>. QED
    BY <2>1, <2>3
<1>. QED
  BY <1>4, <1>6, <1>7, <1>9, <1>10, <1>11, IdentityMoves

LEMMA RoleOfMappedInv ==
  ASSUME AccountsInv, NEW q \in Handler, NEW s \in Subject, NEW r \in Role,
         RoleOfMapped(q, s, r), UNCHANGED <<profile, event>>
  PROVE  AccountsInv' /\ Keeps
<1>. DEFINE u == identity[s]
<1>1. AccountsTypeOK /\ u \in User /\ u \in Accounts
  BY DEF AccountsInv, AccountsTypeOK, RoleOfMapped, Mapped
<1>2. account[u] \in Account
  BY <1>1 DEF AccountsTypeOK, Accounts
<1>. HIDE DEF u
<1>3. CASE account[u].status = "DISABLED"
  <2>1. UNCHANGED <<account, identity>> /\ Answers(q, s, FALSE, u)
    BY <1>3 DEF RoleOfMapped, u
  <2>2. PICK w \in Handlings :
         /\ handling' = [handling EXCEPT ![q] = w]
         /\ w.pc = "answered" /\ w.subject = s /\ w.user = u /\ ~w.ok
    <3>1. handling' = [handling EXCEPT ![q] = No(s, u)]
      BY <1>1, <2>1 DEF Answers, No
    <3>2. s \in Subject /\ u \in User
      BY <1>1, <2>1
    <3>. QED
      BY <3>1, <3>2, YesNoFacts
  <2>. QED
    BY <1>1, <2>1, <2>2, ReadsOnly DEF AccountsTypeOK
<1>4. CASE account[u].status # "DISABLED"
  <2>. DEFINE a == [account[u] EXCEPT !.role = r]
  <2>1. /\ account' = [account EXCEPT ![u].role = r] /\ Answers(q, s, TRUE, u)
        /\ UNCHANGED identity
    BY <1>4 DEF RoleOfMapped, u
  <2>2. a \in Account /\ a.email = account[u].email
    BY <1>2 DEF Account
  <2>3. account' = [account EXCEPT ![u] = a]
    BY <2>1
  <2>4. \A v \in Accounts : account[v].email = a.email => v = u
    BY <1>1, <2>2 DEF AccountsInv, Addressed
  <2>5. PICK w \in Handlings :
         /\ handling' = [handling EXCEPT ![q] = w]
         /\ w.pc = "answered" /\ w.subject = s /\ w.user = u
    <3>1. handling' = [handling EXCEPT ![q] = Yes(s, u)]
      BY <1>1, <2>1 DEF Answers, Yes
    <3>2. s \in Subject /\ u \in User
      BY <1>1, <2>1
    <3>. QED
      BY <3>1, <3>2, YesNoFacts
  <2>6. identity[s] = u
    BY DEF u
  <2>. HIDE DEF a
  <2>. QED
    BY <1>1, <1>4, <2>1, <2>2, <2>3, <2>4, <2>5, <2>6, AccountChanges
<1>. QED
  BY <1>3, <1>4

LEMMA RoleOfOwnerInv ==
  ASSUME AccountsInv, NEW q \in Handler, NEW s \in Subject, NEW r \in Role, profile[s] # None,
         RoleOfOwner(q, s, r), UNCHANGED <<profile, event>>
  PROVE  AccountsInv' /\ Keeps
<1>1. AccountsTypeOK /\ profile[s] \in Email /\ identity[s] = None
  BY DEF AccountsInv, AccountsTypeOK, RoleOfOwner
<1>2. PICK u \in Owner(profile[s]) :
       IF Enabled(u)
       THEN /\ identity' = Relinked(s, u)
            /\ account' = [account EXCEPT ![u] = Active(profile[s], r)]
            /\ Answers(q, s, TRUE, u)
       ELSE Answers(q, s, FALSE, u) /\ UNCHANGED <<account, identity>>
  BY DEF RoleOfOwner
<1>3. u \in User /\ u \in Accounts /\ account[u].email = profile[s]
  BY DEF Owner, Accounts
<1>4. CASE ~Enabled(u)
  <2>1. PICK w \in Handlings :
         /\ handling' = [handling EXCEPT ![q] = w]
         /\ w.pc = "answered" /\ w.subject = s /\ w.user = u /\ ~w.ok
    <3>1. handling' = [handling EXCEPT ![q] = No(s, u)]
      BY <1>2, <1>3, <1>4 DEF Answers, No
    <3>2. s \in Subject /\ u \in User
      BY <1>2, <1>3, <1>4
    <3>. QED
      BY <3>1, <3>2, YesNoFacts
  <2>. QED
    BY <1>1, <1>2, <1>4, <2>1, ReadsOnly DEF AccountsTypeOK
<1>5. CASE Enabled(u)
  <2>. DEFINE a == Active(profile[s], r)
  <2>1. a \in Account /\ a # None /\ a.email = profile[s]
    BY <1>1, AccountFacts
  <2>8. account' = [account EXCEPT ![u] = a] /\ identity' = Relinked(s, u)
        /\ Answers(q, s, TRUE, u)
    BY <1>2, <1>5
  <2>. HIDE DEF a
  <2>2. /\ account' \in [User -> Account \cup {None}] /\ account'[u] = a
        /\ \A v \in User : v # u => account'[v] = account[v]
    BY <1>1, <1>3, <2>1, <2>8 DEF AccountsTypeOK
  <2>3. Accounts' = Accounts
    BY <1>3, <2>1, <2>2 DEF Accounts
  <2>4. \A v \in Accounts : v \in User /\ account'[v].email = account[v].email
    BY <1>3, <2>1, <2>2 DEF Accounts
  <2>5. Addressed'
    BY <2>3, <2>4 DEF AccountsInv, Addressed
  <2>6. \A v \in Accounts : account[v].status = "DISABLED" => account'[v].status = "DISABLED"
    BY <1>5, <2>2, <2>4 DEF Enabled
  <2>7. PICK w \in Handlings :
         /\ handling' = [handling EXCEPT ![q] = w]
         /\ w.pc = "answered" /\ w.subject = s /\ w.user = u
    <3>1. handling' = [handling EXCEPT ![q] = Yes(s, u)]
      BY <1>3, <2>8 DEF Answers, Yes
    <3>2. s \in Subject /\ u \in User
      BY <1>3, <2>8
    <3>3. /\ Yes(s, u) \in Handlings /\ Yes(s, u).pc = "answered"
          /\ Yes(s, u).subject = s /\ Yes(s, u).user = u
      BY <3>2, YesNoFacts
    <3>. QED
      BY <3>1, <3>3
  <2>. QED
    BY <1>1, <1>3, <2>2, <2>3, <2>5, <2>6, <2>7, <2>8, IdentityMoves
<1>. QED
  BY <1>4, <1>5

LEMMA OnboardRoleInv ==
  ASSUME AccountsInv, NEW q \in Handler, NEW s \in Subject, NEW r \in Role, OnboardRole(q, s, r)
  PROVE  AccountsInv' /\ Keeps
BY CreatesInv, RoleOfMappedInv, RoleOfOwnerInv DEF OnboardRole

LEMMA OnboardStudentInv ==
  ASSUME AccountsInv, NEW q \in Handler, NEW s \in Subject, OnboardStudent(q, s)
  PROVE  AccountsInv' /\ Keeps
<1>1. AccountsTypeOK /\ profile[s] # None /\ UNCHANGED <<profile, event>>
  BY DEF AccountsInv, OnboardStudent
<1>2. ASSUME NEW u \in User, NEW ok \in BOOLEAN, Answers(q, s, ok, u),
             ok => identity[s] = u, UNCHANGED <<account, identity>>
      PROVE  AccountsInv' /\ Keeps
  <2>1. PICK w \in Handlings :
          /\ handling' = [handling EXCEPT ![q] = w]
          /\ w.pc = "answered" /\ w.subject = s /\ w.user = u /\ (w.ok => ok)
    BY <1>2, AnswerFacts
  <2>. QED
    BY <1>1, <1>2, <2>1, ReadsOnly DEF AccountsTypeOK
<1>3. CASE /\ identity[s] # None
           /\ Answers(q, s, account[identity[s]].status = "ACTIVE", identity[s])
           /\ UNCHANGED <<account, identity>>
  BY <1>1, <1>2, <1>3 DEF AccountsTypeOK
<1>4. CASE identity[s] = None /\ Creates(q, s, "STUDENT")
  BY <1>1, <1>4, CreatesInv DEF Role
<1>5. CASE /\ identity[s] = None
           /\ \E u \in Owner(profile[s]) : Answers(q, s, FALSE, u)
           /\ UNCHANGED <<account, identity>>
  BY <1>2, <1>5 DEF Owner, Accounts
<1>. QED
  BY <1>3, <1>4, <1>5 DEF OnboardStudent

LEMMA LinkCreatesInv ==
  ASSUME AccountsInv, NEW q \in Handler, LinkCreates(q)
  PROVE  AccountsInv' /\ Keeps
<1>. DEFINE s == handling[q].subject
            u == handling[q].user
<1>1. AccountsTypeOK /\ handling[q].pc = "link" /\ UNCHANGED <<account, profile, event>>
  BY DEF AccountsInv, LinkCreates
<1>2. s \in Subject /\ u \in User /\ u \in Accounts
  BY <1>1, HandlingFacts DEF AccountsInv, AccountsTypeOK, Found
<1>3. Accounts' = Accounts /\ Addressed'
  BY <1>1 DEF AccountsInv, Accounts, Addressed
<1>4. CASE identity[s] = None /\ SubjectsOf(u) = {}
  <2>1. identity' = [identity EXCEPT ![s] = u] /\ Answers(q, s, TRUE, u)
    BY <1>4 DEF LinkCreates
  <2>. HIDE DEF s, u
  <2>2. identity' = Relinked(s, u)
    BY <1>1, <1>2, <1>4, <2>1, NothingToMove
  <2>3. PICK w \in Handlings :
         /\ handling' = [handling EXCEPT ![q] = w]
         /\ w.pc = "answered" /\ w.subject = s /\ w.user = u
    <3>1. handling' = [handling EXCEPT ![q] = Yes(s, u)]
      BY <1>2, <2>1 DEF Answers, Yes
    <3>2. s \in Subject /\ u \in User
      BY <1>2, <2>1
    <3>. QED
      BY <3>1, <3>2, YesNoFacts
  <2>. QED
    BY <1>1, <1>2, <1>3, <1>4, <2>2, <2>3, IdentityMoves DEF AccountsTypeOK
<1>5. CASE ~(identity[s] = None /\ SubjectsOf(u) = {})
  <2>1. UNCHANGED identity /\ Answers(q, s, FALSE, u)
    BY <1>5 DEF LinkCreates
  <2>. HIDE DEF s, u
  <2>2. PICK w \in Handlings :
         /\ handling' = [handling EXCEPT ![q] = w]
         /\ w.pc = "answered" /\ w.subject = s /\ w.user = u /\ ~w.ok
    <3>1. handling' = [handling EXCEPT ![q] = No(s, u)]
      BY <1>2, <2>1 DEF Answers, No
    <3>2. s \in Subject /\ u \in User
      BY <1>2, <2>1
    <3>. QED
      BY <3>1, <3>2, YesNoFacts
  <2>. QED
    BY <1>1, <2>1, <2>2, ReadsOnly DEF AccountsTypeOK
<1>. QED
  BY <1>4, <1>5

LEMMA WebhookWritesInv ==
  ASSUME AccountsInv, NEW q \in Handler, WebhookWrites(q)
  PROVE  AccountsInv' /\ Keeps
<1>. DEFINE u == handling[q].user
            v == handling[q].event
            a == Followed(account[u], v)
<1>1. /\ AccountsTypeOK /\ handling[q].pc = "webhook" /\ UNCHANGED <<identity, profile, event>>
      /\ handling' = [handling EXCEPT ![q] = Free]
  BY DEF AccountsInv, WebhookWrites
<1>2. v \in Event /\ u \in User /\ u \in Accounts
  BY <1>1, HandlingFacts DEF AccountsInv, AccountsTypeOK, Found
<1>3. account[u] \in Account
  BY <1>2 DEF AccountsInv, AccountsTypeOK, Accounts
<1>4. CASE v.type = "updated" /\ Owner(v.email) \ {u} # {}
  <2>1. UNCHANGED account
    BY <1>4 DEF WebhookWrites
  <2>. HIDE DEF u, v
  <2>. QED
    BY <1>1, <2>1, FreeFacts, ReadsOnly DEF AccountsTypeOK
<1>5. CASE ~(v.type = "updated" /\ Owner(v.email) \ {u} # {})
  <2>1. account' = [account EXCEPT ![u] = a]
    BY <1>1, <1>2, <1>5 DEF WebhookWrites, AccountsTypeOK
  <2>. HIDE DEF u, v
  <2>2. /\ a \in Account /\ (account[u].status = "DISABLED" => a.status = "DISABLED")
        /\ a.email = account[u].email \/ (v.type = "updated" /\ a.email = v.email)
    <3>1. CASE v.type = "deleted"
      <4>1. a = [account[u] EXCEPT !.status = "DISABLED"]
        BY <3>1 DEF Followed
      <4>. QED
        BY <1>3, <4>1 DEF Account
    <3>2. CASE v.type = "updated"
      <4>1. a = [account[u] EXCEPT !.email = v.email] /\ v.email \in Email
        BY <1>2, <3>2, EventFacts DEF Followed
      <4>. QED
        BY <1>3, <3>2, <4>1 DEF Account
    <3>. QED
      BY <1>2, <3>1, <3>2, EventFacts
  <2>3. \A w \in Accounts : account[w].email = a.email => w = u
    <3>1. ASSUME NEW w \in Accounts, account[w].email = v.email, v.type = "updated" PROVE w = u
      BY <1>5, <3>1 DEF Owner
    <3>. QED
      BY <1>2, <2>2, <3>1 DEF AccountsInv, Addressed
  <2>. HIDE DEF a
  <2>. QED
    BY <1>1, <1>2, <2>1, <2>2, <2>3, FreeFacts, AccountChanges
<1>. QED
  BY <1>4, <1>5

LEMMA AccountsInitInv == AccountsInit => AccountsInv
<1>. SUFFICES ASSUME AccountsInit PROVE AccountsInv
  OBVIOUS
<1>1. AccountsTypeOK
  BY FreeFacts DEF AccountsInit, AccountsTypeOK
<1>2. Mapped /\ Addressed
  BY DEF AccountsInit, Mapped, Addressed
<1>3. Found
  BY FreeFacts DEF AccountsInit, Found
<1>. QED
  BY <1>1, <1>2, <1>3 DEF AccountsInv

LEMMA AccountsNextInv ==
  ASSUME AccountsInv, [AccountsNext]_accounts_vars
  PROVE  AccountsInv' /\ Keeps
<1>1. AccountsTypeOK
  BY DEF AccountsInv
<1>2. ASSUME NEW s \in Subject, ClerkDeletes(s) PROVE AccountsInv' /\ Keeps
  BY <1>1, <1>2, ClerkOnly DEF ClerkDeletes, AccountsTypeOK, Event
<1>3. ASSUME NEW s \in Subject, NEW e \in Email, ClerkChangesEmail(s, e) PROVE AccountsInv' /\ Keeps
  BY <1>1, <1>3, ClerkOnly DEF ClerkChangesEmail, AccountsTypeOK, Event
<1>4. ASSUME NEW q \in Handler, NEW s \in Subject, NEW u \in User, LinkReads(q, s, u)
      PROVE  AccountsInv' /\ Keeps
  <2>. DEFINE r == [pc |-> "link", subject |-> s, user |-> u]
  <2>1. r \in Handlings /\ r.pc = "link" /\ r.user = u
    BY DEF Handlings
  <2>2. handling' = [handling EXCEPT ![q] = r] /\ u \in Accounts
    BY <1>4 DEF LinkReads
  <2>. HIDE DEF r
  <2>. QED
    BY <1>1, <1>4, <2>1, <2>2, ReadsOnly DEF LinkReads, AccountsTypeOK
<1>5. ASSUME NEW q \in Handler, NEW v \in event, WebhookReads(q, v) PROVE AccountsInv' /\ Keeps
  <2>. DEFINE u == identity[v.subject]
              r == [pc |-> "webhook", event |-> v, user |-> u]
  <2>1. v \in Event /\ v.subject \in Subject
    BY <1>1, EventFacts DEF AccountsTypeOK
  <2>2. u \in User /\ u \in Accounts
    BY <1>1, <1>5, <2>1 DEF WebhookReads, AccountsTypeOK, AccountsInv, Mapped
  <2>3. r \in Handlings /\ r.pc = "webhook" /\ r.user = u
    BY <2>1, <2>2 DEF Handlings
  <2>4. handling' = [handling EXCEPT ![q] = r]
    BY <1>5 DEF WebhookReads
  <2>. HIDE DEF r, u
  <2>. QED
    BY <1>1, <1>5, <2>2, <2>3, <2>4, ReadsOnly DEF WebhookReads, AccountsTypeOK
<1>6. ASSUME NEW q \in Handler, HandlerEnds(q) PROVE AccountsInv' /\ Keeps
  BY <1>1, <1>6, FreeFacts, ReadsOnly DEF HandlerEnds, AccountsTypeOK
<1>7. CASE UNCHANGED accounts_vars
  BY <1>1, <1>7, ClerkOnly DEF accounts_vars, AccountsTypeOK
<1>8. CASE AccountsNext
  BY <1>2, <1>3, <1>4, <1>5, <1>6, <1>8, OnboardRoleInv, OnboardStudentInv, LinkCreatesInv,
     WebhookWritesInv DEF AccountsNext
<1>. QED
  BY <1>7, <1>8

-----------------------------------------------------------------------------
(* The theorems *)

\* The type of the accounts' state, and what keeps them apart, at all times.
THEOREM AccountsInvariance == AccountsSpec => []AccountsInv
<1>1. AccountsInit => AccountsInv
  BY AccountsInitInv
<1>2. AccountsInv /\ [AccountsNext]_accounts_vars => AccountsInv'
  BY AccountsNextInv
<1>. QED
  BY <1>1, <1>2, PTL DEF AccountsSpec

\* A subject signs in to an account there is, an account has at most one subject, and
\* no two accounts have one address, whatever onboardings, links and late webhooks
\* overlap.
THEOREM AccountsStayApart == AccountsSpec => []AccountsApart
<1>1. AccountsInv => AccountsApart
  <2>. SUFFICES ASSUME AccountsInv PROVE AccountsApart
    OBVIOUS
  <2>1. \A s \in Subject : identity[s] # None => identity[s] \in Accounts
    BY DEF AccountsInv, Mapped
  <2>2. ASSUME NEW u \in User PROVE Cardinality(SubjectsOf(u)) <= 1
    <3>1. \A s, t \in SubjectsOf(u) : s = t
      BY IdentityAssumption DEF AccountsInv, Mapped, SubjectsOf
    <3>. QED
      BY <3>1, AtMostOne
  <2>3. ASSUME NEW e \in Email PROVE Cardinality(Owner(e)) <= 1
    <3>1. \A u, v \in Owner(e) : u = v
      BY DEF AccountsInv, Addressed, Owner
    <3>. QED
      BY <3>1, AtMostOne
  <2>. QED
    BY <2>1, <2>2, <2>3 DEF AccountsApart
<1>. QED
  BY <1>1, AccountsInvariance, PTL

\* A disabled account is never given back, one that had a subject is never left
\* without, and an onboarding is answered with the account its subject signs in to.
THEOREM AccountsStay == AccountsSpec => AccountsKept
<1>1. AccountsInv /\ [AccountsNext]_accounts_vars => [Keeps]_accounts_vars
  BY AccountsNextInv
<1>2. [Keeps]_accounts_vars =>
       [/\ \A u \in Accounts :
             account[u].status = "DISABLED" => account'[u].status = "DISABLED"
        /\ \A u \in User : SubjectsOf(u) # {} => SubjectsOf(u)' # {}
        /\ \A q \in Handler :
             LET r == handling'[q] IN
             r # handling[q] /\ r.pc = "answered" /\ r.ok => identity'[r.subject] = r.user]_accounts_vars
  BY DEF Keeps
<1>. QED
  BY <1>1, <1>2, AccountsInvariance, PTL DEF AccountsSpec, AccountsKept
=============================================================================
