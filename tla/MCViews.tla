------------------------------- MODULE MCViews -------------------------------
(***************************************************************************)
(* Cases of what people are shown of one another's work: a state is one    *)
(* school, pair of programs, history or request, and part names which.     *)
(***************************************************************************)
EXTENDS Overviews, TLC

VARIABLE at

E == INSTANCE Evidence
L == INSTANCE LivePulse
H == INSTANCE Hints
D == INSTANCE Deployment

-----------------------------------------------------------------------------
(* Classrooms.                                                              *)

Grade(kind) ==
  CASE kind = "all" -> [state |-> "completed", passed |-> 2, total |-> 2, breakdown |->
         [visiblePassed |-> 1, visibleTotal |-> 1, hiddenPassed |-> 1, hiddenTotal |-> 1, score |-> 100]]
    [] kind = "hidden" -> [state |-> "completed", passed |-> 1, total |-> 2, breakdown |->
         [visiblePassed |-> 1, visibleTotal |-> 1, hiddenPassed |-> 0, hiddenTotal |-> 1, score |-> 50]]
    [] kind = "crash" -> [state |-> "runtime_error", passed |-> 0, total |-> 2, breakdown |-> None]
\* The n-th attempt of a student at a task; times are of no student's choice alone.
Attempted(task, s, n, work) ==
  LET g == Grade(work[n][1]) IN
  [task |-> task, student |-> s, number |-> n, at |-> 100 * n + 10 * task + s, review |-> work[n][2],
   state |-> g.state, passed |-> g.passed, total |-> g.total, breakdown |-> g.breakdown]
SchoolTask(id, status, deadline, working, works) ==
  [id |-> id, status |-> status, deadline |-> deadline, working |-> working,
   attempts |-> UNION {{Attempted(id, s, n, works[s]) : n \in DOMAIN works[s]} : s \in DOMAIN works}]

Once == {"all", "hidden", "crash"} \X {None, "DRAFT", "PUBLISHED"}
Few == {<<>>, <<<<"hidden", "DRAFT">>>>, <<<<"crash", "PUBLISHED">>, <<"all", None>>>>,
        <<<<"all", None>>, <<"hidden", "PUBLISHED">>>>}
Many == Few \cup {<<a>> : a \in Once}
Attempts ==
  [task : Nat, student : Nat, number : Nat, at : Nat, review : {None, "DRAFT", "PUBLISHED"},
   state : {"completed", "runtime_error"}, passed : Nat, total : Nat,
   breakdown : {Grade(kind).breakdown : kind \in {"all", "hidden", "crash"}}]
\* None is no attempt, no task, no class and no mark.
ASSUME SchoolAssumption ==
  /\ None \notin Attempts \cup {"c1", "c2", "shown"}
  /\ None \notin [id : Nat, status : {"DRAFT", "PUBLISHED"}, deadline : {None} \cup Int,
                  working : SUBSET Nat, attempts : SUBSET Attempts]

OneClassCase ==
  \E w1, w2 \in Many, m \in {"active", "inactive"}, working \in {{}, {2}} :
    at = [part |-> "school", classes |->
      <<[id |-> "c1", members |-> <<m, "active">>,
         tasks |-> <<SchoolTask(1, "PUBLISHED", 30, working, <<w1, w2>>)>>]>>]
TwoClassesCase ==
  \E s1, s3 \in {"DRAFT", "PUBLISHED"}, m1, m2 \in {"active", "inactive"},
     d1, d2 \in {None, 0 - 30, 50},
     w1, w2, w3 \in Few, other \in {<<>>, <<<<"all", None>>>>} :
    at = [part |-> "school", classes |->
      <<[id |-> "c1", members |-> <<m1, "active">>,
         tasks |-> <<SchoolTask(2, s1, d1, {}, <<IF s1 = "DRAFT" THEN <<>> ELSE w1, <<>>>>),
                     SchoolTask(1, "PUBLISHED", d2, {1}, <<w2, other>>)>>],
        [id |-> "c2", members |-> <<m2, "none">>,
         tasks |-> <<SchoolTask(3, s3, 7, {}, <<IF s3 = "DRAFT" THEN <<>> ELSE w3, <<>>>>)>>]>>]

Change == {"action", "other"}
CacheCase ==
  \E seconds \in {30, 60}, kept \in {None, 0, 40, 69, 70, 71, 100}, gap \in {0, 29, 30, 60, 90},
     change, next \in Change :
    at = [part |-> "cache", seconds |-> seconds, kept |-> kept, change |-> change,
          now |-> 100, next |-> next, later |-> 100 + gap]

\* Pages agree: read from the same rows, the pages a teacher or a student opens tell the
\* same of who has submitted, what is reviewed and what is left to do, also after
\* resubmissions, and those that count active students also when students have lost
\* access; and a page that is kept catches up with its rows (teacher/overview.ts,
\* student/overview.ts, classroom-management.ts, view models).
OverviewsAgree ==
  /\ at.part = "school" =>
       /\ QueueToldAlike(at.classes)
       /\ \A i \in DOMAIN at.classes :
            ClassToldAlike(at.classes[i]) /\ ProgressToldAlike(at.classes, at.classes[i])
       /\ \A s \in 1 .. 2 : (\E i \in DOMAIN at.classes : s \in Active(at.classes[i])) =>
            StudentToldAlike(at.classes, s)
  /\ at.part = "cache" =>
       PageCatchesUp(at.kept, at.change, at.now, at.next, at.later, at.seconds)

-----------------------------------------------------------------------------
(* Programs of different students, their histories, and requests to models. *)

Tokens == {[name |-> "x"], [name |-> "y"], [text |-> "+"]}
Sources(n) == {[tokens |-> t, remarks |-> "own"] : t \in UNION {[1 .. m -> Tokens] : m \in 0 .. n}}
Wide == LET x == [name |-> "x"] y == [name |-> "y"] op == [text |-> "+"] IN
  {[tokens |-> t, remarks |-> "own"] : t \in
    {<<>>, <<x, op, y>>, <<x, op, y, op, y>>, <<x, op, x, op, x, op, y>>, <<op, op, op>>,
     <<x, op, y, x, x>>, <<x, op, y, y, y, x>>}}
CopyCase == \E a \in Sources(4), b \in Sources(3) : at = [part |-> "copy", a |-> a, b |-> b]
ReportCase ==
  \E s \in [1 .. 3 -> Wide], who, task \in [1 .. 3 -> 1 .. 2], l \in {"CPP", "JAVA"} :
    at = [part |-> "report", attempts |->
            [i \in 1 .. 3 |-> [number |-> i, student |-> who[i], task |-> task[i], source |-> s[i],
                               language |-> IF i = 1 THEN l ELSE "CPP"]]]
ProcessCase ==
  \E n, runs \in 1 .. 3, gap \in {10, 20, 60, 90}, lines \in {20, 26, 31} :
  \E types \in [1 .. n + 1 -> {"DRAFT_SAVED", "RUN_REQUESTED"}] :
    LET all == [i \in 1 .. n + 1 |-> [type |-> types[i], at |-> gap * i]] IN
    at = [part |-> "process", history |-> SubSeq(all, 1, n), event |-> all[n + 1],
          lines |-> lines, runs |-> runs]
Asking == [source : {"a", "b"}, language : {"CPP"}, title : {"t"}, teacher : {"t1", "t2"},
           owner : BOOLEAN, enabled : BOOLEAN, admitted : BOOLEAN, drafts : {1, 3}]
Question(r) == r @@ [process |-> [drafts |-> r.drafts], passed |-> 0, total |-> 1]
Models == [{"groq", "gemini"} -> {"valid", "invalid", "off"}]
AiCase ==
  \E r1, r2 \in {r \in Asking : r.drafts = 1 \/ r.source = "a"}, m1, m2 \in Models, gap \in {0, 59, 60} :
    /\ r1.owner /\ r1.enabled /\ r1.admitted /\ r1.teacher = "t1"
    /\ at = [part |-> "ai", first |-> Question(r1), second |-> Question(r2),
             m1 |-> m1, m2 |-> m2, gap |-> gap]
SomeRuns == {<<>>, <<"failed">>, <<"failed", None, "failed">>, <<None, "passed", "failed">>,
             <<"failed", "crashed", "passed">>}
Session == [status : {"ACTIVE", "SUBMITTED"}, touched : {70, 92, 97, 100}, queued : BOOLEAN,
            runs : SomeRuns]
\* None is no time, no choice and no row.
ASSUME ViewsAssumption ==
  /\ None \notin Int \cup BOOLEAN /\ None \notin Session
  /\ None \notin [allowed : BOOLEAN, current : Nat, canRequest : BOOLEAN, hints : Nat]
PulseCase ==
  \E first \in {<<>>} \cup {<<s>> : s \in Session},
     second \in {<<>>} \cup {<<s>> : s \in {x \in Session : ~x.queued /\ x.runs = <<>>}},
     submitted \in {None, 75, 92}, hinted \in {None, 98}, override, policy \in {None, FALSE},
     later \in {102, 108, 131} :
    at = [part |-> "pulse", policy |-> policy, later |-> later, students |->
           <<[sessions |-> first \o second, submitted |-> submitted, hinted |-> hinted,
              override |-> override],
             [sessions |-> <<>>, submitted |-> None, hinted |-> None, override |-> TRUE]>>]

Features == {"boilerplate", "fence", "statement", "function"}
HintRuns == {None} \cup
  {[state |-> s, error |-> e, tests |-> <<[position |-> None, passed |-> FALSE]>>] :
     s \in {"COMPLETED", "RUNTIME_ERROR", "COMPILATION_ERROR"},
     e \in {None, {}, {"boilerplate"}, {"statement"}, {"longFunction"}}}
HintCase ==
  \E o, p \in {None, TRUE, FALSE}, asked \in [1 .. 3 -> 0 .. 2],
     title \in SUBSET Features, topic \in {"brackets", "pairs", "hashes", "other"},
     run \in HintRuns :
    /\ asked[1] = 0 => asked[2] = 0
    /\ asked[2] = 0 => asked[3] = 0
    /\ at = [part |-> "hints", asked |-> asked, session |->
           [override |-> o, policy |-> p, levels |-> <<>>, run |-> run,
            task |-> [title |-> title, topic |-> topic, tests |-> <<"t1">>]]]
\* A session after requests of which one or two at a time saw the same rows.
AfterSome(session, n) == IF H!Refused(session) THEN session ELSE H!Stored(session, n)
After(session, asked) ==
  AfterSome(AfterSome(AfterSome(session, asked[1]), asked[2]), asked[3])
RosterCase ==
  \E p \in {None, TRUE, FALSE}, o \in [1 .. 3 -> {None, TRUE, FALSE}] :
    at = [part |-> "roster", class |-> [policy |-> p, overrides |-> o]]

Roles == {"TEACHER", "STUDENT"}
Account == [status : {"ACTIVE", "DISABLED"}, role : Roles]
\* None is no role, no error and no account.
ASSUME VisitorsAssumption ==
  None \notin Roles \cup Account
    \cup {"configuration", "unauthenticated", "invalid", "unlinked", "disabled", "denied"}
VisitorCase ==
  \E identity \in {"demo", "clerk", "unset", "other"}, production, allowDemo \in BOOLEAN,
     session \in {"none", "invalid", "user"}, stored \in {None, "student", "teacher"},
     account \in {None} \cup Account :
    at = [part |-> "visitor",
          env |-> [identity |-> identity, production |-> production, allowDemo |-> allowDemo],
          visitor |-> [session |-> session, account |-> account, stored |-> stored]]

UrlOf(mode, of) == IF mode \in of THEN {"none", "loopback", "https", "other"} ELSE {"https"}
DeploymentCase ==
  \E mode \in {"mock", "judge0", "wandbox", "java-http", "local-docker", "remote-docker"},
     production, allowLocal, allowDemo, localReal, secret, database, workers \in BOOLEAN,
     dispatch \in {"queued", "inline"}, identity \in {"demo", "clerk", "unset"},
     lacks \in {"nothing", "database", "keys", "webhook", "shared"},
     up \in {{}, {"JAVA", "CPP"}, {"JAVA"}, {"judge0"}, {"wandbox"}} :
   \E java \in UrlOf(mode, D!Docker), judge \in UrlOf(mode, {"judge0", "wandbox"}) :
    \E cpp \in IF mode \in D!Docker THEN {java, "none"} ELSE {java} :
     /\ lacks # "nothing" => up = {"JAVA", "CPP"} /\ workers
     /\ ~production => lacks \in {"nothing", "keys"} /\ allowDemo /\ ~localReal
     /\ mode # "local-docker" => ~allowLocal
     /\ mode \in {"mock", "java-http", "wandbox"} => ~secret
     /\ ~database => up = {"JAVA", "CPP"} /\ workers
     /\ at = [part |-> "deployment",
              env |-> [mode |-> mode, production |-> production, allowLocal |-> allowLocal,
                       javaUrl |-> java, cppUrl |-> cpp, judgeUrl |-> judge,
                       token |-> secret, judgeKey |-> secret,
                       identity |-> identity, allowDemo |-> allowDemo, localReal |-> localReal,
                       dispatch |-> dispatch, lacks |-> lacks],
              world |-> [database |-> database, up |-> up, workers |-> workers]]

\* None is no match of two programs.
ASSUME EvidenceAssumption ==
  None \notin [percent : 0 .. 100, blocks : Nat, renamed : BOOLEAN, verdict :
                {"STRUCTURAL_COLLUSION_FLAG", "SUSPICIOUS_SIMILARITY", "AUTHENTIC"}]

\* What the second of two requests finds: the first may have answered or not, and
\* its entry may be in the log, not yet, or lost.
FirstAsked == E!Request(<<>>, at.first, at.m1, 0)
Caches == {<<>>, E!Remembered(<<>>, at.first, FirstAsked, 0)}
Logs == {<<>>, E!LogAiGeneration(<<>>, FirstAsked.due, TRUE)}

\* Evidence is fair: renaming every identifier of a program hides no copy of it, the
\* report is borne out by the page of the newer submission, signals and timeline agree,
\* and a model is sent nothing that its owner did not ask for, nor, as long as writes
\* to the audit log succeed, without an entry there (backend/server/evidence).
EvidenceIsFair ==
  /\ at.part = "copy" => E!CopyIsSeen(at.a, at.b, 2)
  /\ at.part = "report" => E!ReportAgrees(at.attempts, 2)
  /\ at.part = "process" => E!ProcessAgrees(at.history, at.lines, at.runs, at.event)
  /\ at.part = "ai" =>
       /\ \A written \in BOOLEAN : E!AiIsAccountable(<<>>, <<>>, at.first, at.m1, 0, written)
       /\ \A written \in BOOLEAN, cache \in Caches, log \in Logs :
            E!AiIsAccountable(cache, log, at.second, at.m2, at.gap, written)

\* Help is honest: time alone makes nobody on the pulse busier, nobody needs attention
\* whose last run passed, and everybody is counted once; the hint panel offers what the
\* next request gives unless two requests saw the same hints, when it may be a level
\* behind; and the teacher's switches say and change what the server decides
\* (live-lab-pulse.ts, hints/service.ts, student-hint-panel.tsx).
HelpIsHonest ==
  /\ at.part = "pulse" => L!PulseIsHonest(at.students, at.policy, 100, at.later)
  /\ at.part = "hints" => H!OfferIsKept(After(at.session, at.asked))
  /\ at.part = "roster" => H!RosterIsHonest(at.class)

\* Everyone arrives: no page sends a visitor in circles or fails, who sees work sees
\* that of their own role, and who signs in for a role gets to the dashboard of that
\* role, after the account setup if there is one to do, or, when the setup is refused or
\* fails, ends where they are told so with nothing changed (server/actors,
\* role-onboarding-actions.ts, app/**/page.tsx).
EveryoneArrives ==
  at.part = "visitor" => D!V!Arrives(at.env, at.visitor, {None} \cup Roles)

ViewCase ==
  CacheCase \/ OneClassCase \/ TwoClassesCase \/ CopyCase \/ ReportCase \/ ProcessCase
  \/ AiCase \/ PulseCase \/ HintCase \/ RosterCase \/ VisitorCase \/ DeploymentCase
=============================================================================
