---------------------------- MODULE AlgorithmFacts ----------------------------
(***************************************************************************)
(* What the theorems about the algorithms (AlgorithmProofs) suppose of     *)
(* their inputs, whatever the size of these: the shapes of pulses, hints,  *)
(* answers, programs, logs, visitors and schools that the code stores or   *)
(* is given.  And the facts their proofs carry along: loop invariants,     *)
(* what a list has of another, what pages have in common.                  *)
(***************************************************************************)
EXTENDS MCAlgorithms

-----------------------------------------------------------------------------
(* The live pulse (LivePulse.tla).                                          *)

\* The students the pulse is about, of sessions and runs of whatever kinds; and that
\* nothing is known of them but what has happened.
PulseSession(Status, End) ==
  [status : Status, touched : Int, queued : BOOLEAN, runs : Seq(End)]
PulseStudent(Status, End, Choice) ==
  [sessions : Seq(PulseSession(Status, End)), submitted : Int \cup {None},
   hinted : Int \cup {None}, override : Choice]
Past(student, now) ==
  /\ \A t \in {student.submitted, student.hinted} \ {None} : t <= now
  /\ \A i \in DOMAIN student.sessions : student.sessions[i].touched <= now

-----------------------------------------------------------------------------
(* Hints and the roster (Hints.tla).                                        *)

\* A session with hints in the order in which they were given, of which some may
\* repeat a level but none has one too early.
HintSession(Run, Task) ==
  [override : {None, TRUE, FALSE}, policy : {None, TRUE, FALSE}, levels : Seq(1 .. 3),
   run : Run, task : Task]
InOrder(session) == \A i \in DOMAIN session.levels : session.levels[i] <= i

\* None is no state the panel is answered with.
NoState == None \notin [allowed : BOOLEAN, current : Nat, canRequest : BOOLEAN, hints : Nat]

-----------------------------------------------------------------------------
(* Providers and deployment (Providers.tla, Deployment.tla).                *)

\* An environment whose switches are on or off; everything else may be anything.
Switches(env) ==
  /\ env.production \in BOOLEAN /\ env.allowLocal \in BOOLEAN /\ env.allowDemo \in BOOLEAN
  /\ env.localReal \in BOOLEAN /\ env.token \in BOOLEAN /\ env.judgeKey \in BOOLEAN

-----------------------------------------------------------------------------
(* Scores and answers (Results.tla, Providers.tla).                         *)

\* Values that differ from each other, and values of which each is among others.
AllDiffer(f, n) == \A i, j \in 1 .. n : f[i] = f[j] => i = j
AreAmong(f, g, n) == \A i \in 1 .. n : \E j \in 1 .. n : f[i] = g[j]

\* The tests of a request have ids of their own; a runner service may answer anything.
AsksForTests(request) == \A i, j \in DOMAIN request : request[i].id = request[j].id => i = j
AnyResponse(State, Id, Vis) ==
  [state : State, passed : Nat, total : Nat,
   tests : Seq([id : Id, passed : BOOLEAN, visibility : Vis])]

-----------------------------------------------------------------------------
(* What is stored and shown of an answer (Results.tla).                     *)

\* The rank of a place in a set of places.
Rank(S, j) == Cardinality({k \in S : k <= j})

\* Rows with a visibility.
Rows(s, n) == /\ DOMAIN s = 1 .. n /\ n \in Nat
              /\ \A i \in 1 .. n : s[i].visibility \in Visibilities

\* What a provider passes on about a request (HttpFacts): results of tests asked for, each of
\* another one, with its visibility, and when completed, of all of them.
Credible(answer, request, n, m) ==
  /\ Rows(request, n) /\ n = Len(request) /\ Rows(answer.tests, m) /\ AsksForTests(request)
  /\ answer = [state |-> answer.state, passed |-> answer.passed, total |-> answer.total,
               tests |-> answer.tests]
  /\ \E Id : answer.tests \in Seq([id : Id, passed : BOOLEAN, visibility : Visibilities])
  /\ answer.total = n /\ answer.state \in States
  /\ \A i \in 1 .. m : VisibilityIn(request, answer.tests[i].id) = answer.tests[i].visibility
  /\ \A i, j \in 1 .. m : answer.tests[i].id = answer.tests[j].id => i = j
  /\ answer.state = "completed" => m = n /\ answer.passed = Passed(answer.tests)

\* What a student is shown: a row for each result that is not hidden.
ShownOf(r) == [id |-> r.id, passed |-> r.passed]

\* Stored results with ids of their own; those of an old snapshot have no visibility.
Stored(snapshot, m) ==
  /\ m \in Nat /\ DOMAIN snapshot.tests = 1 .. m
  /\ \A i, j \in 1 .. m : snapshot.tests[i].id = snapshot.tests[j].id => i = j

-----------------------------------------------------------------------------
(* Verdicts on programs (Sandbox.tla, Providers.tla).                       *)

\* A run before its first test.
AtFirst(program) ==
  [state |-> "completed", number |-> 0, spent |-> 0, returned |-> 0,
   began |-> program.staged + program.compileTime, results |-> <<>>]

\* Limits of a sandbox, and a program with the tests it is asked to run.
AreLimits(limits) ==
  /\ limits.lifetime \in Nat /\ limits.compile \in Nat /\ limits.wall \in Nat
  /\ limits.output \in Nat /\ limits.total \in Nat
Runs(program, request, n) ==
  /\ n \in Nat /\ Len(program.tests) = n /\ DOMAIN program.tests = 1 .. n
  /\ Len(request) = n /\ DOMAIN request = 1 .. n /\ AsksForTests(request)
  /\ program.compiles \in BOOLEAN /\ program.compileTime \in Nat /\ program.staged \in Nat
  /\ \A i \in 1 .. n :
       /\ program.tests[i].does \in {"right", "wrong", "crash"}
       /\ program.tests[i].seconds \in Nat /\ program.tests[i].bytes \in Nat
       /\ program.tests[i].id = request[i].id
       /\ program.tests[i].visibility = request[i].visibility
       /\ request[i].visibility \in Visibilities

\* A test that is got through, and what is true of a run after so many tests whatever
\* goes wrong in the sandbox.
Passes(limits, trouble, run, test) ==
  LET left == limits.wall - run.spent IN
  /\ left > 0 /\ ~(trouble.at = "test" /\ trouble.test = run.number + 1)
  /\ ~Gone(limits, run.began + run.spent, test.seconds, left) /\ ~Late(test.seconds, left)
  /\ test.bytes <= OutputLeft(limits, run.returned) /\ test.does # "crash"
Told(run, program, i) ==
  /\ run.began = program.staged + program.compileTime /\ run.spent \in Nat /\ run.returned \in Nat
  /\ run.number \in 0 .. i /\ run.state \in States \ {"compilation_error"}
  /\ run.results = [j \in 1 .. run.number |-> Verdict(program.tests[j])]
  /\ run.state = "completed" => run.number = i
  /\ run = [state |-> run.state, number |-> run.number, spent |-> run.spent,
             returned |-> run.returned, began |-> run.began, results |-> run.results]

\* What one more test makes of a run.
GoesOn(limits, trouble, run, program, i, next) ==
  LET test == program.tests[i] IN
  /\ Told(next, program, i)
  /\ run.state # "completed" => next = run
  /\ run.state = "completed" /\ Passes(limits, trouble, run, test) =>
       /\ next.state = "completed" /\ next.spent = run.spent + test.seconds
       /\ next.returned = run.returned + test.bytes
  /\ run.state = "completed" /\ ~Passes(limits, trouble, run, test) =>
       /\ next.state # "completed" /\ next.number = i - 1
       /\ trouble = NoTrouble => next.state \in {"time_limit_exceeded", "runtime_error"}

\* The results of the first tests of a program.
ResultsOf(program, k) == [j \in 1 .. k |-> Verdict(program.tests[j])]

\* What the tests take together, and which are not got through (Stops).
Spent(program, n) == Totals([i \in 1 .. n |-> program.tests[i].seconds], n)
Returned(program, n) == Totals([i \in 1 .. n |-> program.tests[i].bytes], n)

\* After so many tests: the run has got through the tests it has results of; without
\* trouble it has not broken off, and undisturbed it has ended at the first test that is
\* not got through, or not at all.
Clean(run, limits, program, trouble, n, i) ==
  /\ Told(run, program, i)
  /\ \A s \in Stops(limits, program) : run.number < s
  /\ run.state = "completed" =>
       run.spent = Spent(program, n)[i] /\ run.returned = Returned(program, n)[i]
  /\ run.state # "completed" =>
       /\ trouble = NoTrouble => run.state # "internal_error"
       /\ Undisturbed(limits, program, trouble) => run.number + 1 \in Stops(limits, program)

\* What an executor answers: of the tests that were got through, one after another.
Ran(answer, limits, program, request, trouble, n, k, state) ==
  /\ answer = Answer(state, request, ResultsOf(program, k))
  /\ \A s \in Stops(limits, program) : k < s
  /\ state = "completed" => k = n
  /\ state # "completed" /\ Undisturbed(limits, program, trouble) =>
       k + 1 \in Stops(limits, program)
Answers(answer, limits, program, request, trouble, n) ==
  \/ answer = InternalError(request) /\ trouble # NoTrouble
  \/ /\ answer = Answer("compilation_error", request, <<>>)
     /\ ~Undisturbed(limits, program, trouble)
  \/ /\ program.compiles /\ program.compileTime <= limits.compile
     /\ \E k \in 0 .. n, state \in {"completed", "time_limit_exceeded", "runtime_error"} :
          Ran(answer, limits, program, request, trouble, n, k, state)

\* What a hosted provider makes of a program: it stops no test, or what it completes and
\* passes is done right.
AreEnds(stopped, n) == \A i \in 1 .. n : stopped[i] \in {"no", "time", "memory"}
Fine(program, stopped, i) ==
  program.compiles /\ program.tests[i].does # "crash" /\ stopped[i] = "no"
Fares(answer, limits, program, request, stopped, n) ==
  \E states, rows :
    /\ answer = Answer(FirstFailure(states), request, rows)
    /\ DOMAIN states = 1 .. n /\ DOMAIN rows = 1 .. n
    /\ \A i \in 1 .. n :
         /\ states[i] = "completed" => Fine(program, stopped, i)
         /\ Fine(program, stopped, i) /\ program.tests[i].seconds <= limits.wall =>
              states[i] = "completed"
         /\ rows[i].passed <=> /\ states[i] = "completed" /\ program.tests[i].does = "right"
                               /\ program.tests[i].bytes <= limits.output

-----------------------------------------------------------------------------
(* Evidence (Evidence.tla).                                                 *)

\* The audit log of what was asked.
IsLog(log) == \E Entry : log \in Seq(Entry)

\* What the cache of answers can be: an answer is about what it is kept under, and
\* kept for an hour after it was made.
KeptAnswers(cache) ==
  \A key \in DOMAIN cache :
    LET entry == cache[key] IN
    /\ entry.answer.about = key /\ entry.answer.model \in {"groq", "gemini"}
    /\ entry.answer.made \in Int /\ entry.expires = entry.answer.made + E!Hour

\* What is due to the log, what is in it after one entry, and that nothing before is lost.
Noted(due, by, model, cached) ==
  \E e : due = <<e>> /\ e.by = by /\ e.model = model /\ e.cached = cached
InLog(after, log, by, model, cached) ==
  /\ Len(after) = Len(log) + 1
  /\ after[Len(after)].by = by /\ after[Len(after)].model = model
  /\ after[Len(after)].cached = cached
Extends(after, log) == IsLog(after) /\ \A i \in DOMAIN log : i \in DOMAIN after /\ after[i] = log[i]

\* A session's events, oldest first.
Ordered(history) ==
  \A i, j \in DOMAIN history : i <= j => history[i].at <= history[j].at
Event(Type) == [type : Type, at : Int]

\* A program, a sequence of tokens, and what a comparison may say of two.
IsProgram(source) == \E Token : source.tokens \in Seq(Token)
Verdicts == {"STRUCTURAL_COLLUSION_FLAG", "SUSPICIOUS_SIMILARITY", "AUTHENTIC"}

\* Attempts, newest first: each of a program, and at a practical.
AreAttempts(attempts) ==
  /\ \E Row : attempts \in Seq(Row)
  /\ \A i \in DOMAIN attempts : IsProgram(attempts[i].source) /\ attempts[i].task # None
Pair(attempts, k, i, j) ==
  [a |-> attempts[i], b |-> attempts[j],
   is |-> E!Similar(attempts[i].source, attempts[j].source, k)]

\* The i-th and the j-th attempt are compared, in a report of the practical asked for.
Compared(attempts, asked, i, j) ==
  /\ asked = None \/ attempts[i].task = asked
  /\ attempts[i].task = attempts[j].task /\ i < j
  /\ attempts[i].language = attempts[j].language
  /\ attempts[i].student # attempts[j].student

\* Tokens with identifiers and other texts among these.
Tokened(Name, Text) == [name : Name] \cup [text : Text]

\* Where an identifier occurs first, and the identifiers that occur until then.
First(t, x) ==
  CHOOSE i \in DOMAIN t : E!IsName(t[i]) /\ t[i].name = x /\ \A j \in 1 .. i - 1 : t[j] # t[i]
Names(t, n) == {t[i].name : i \in {j \in 1 .. n : E!IsName(t[j])}}

\* A program with its identifiers renamed.
Copy(source, f) ==
  [i \in DOMAIN source.tokens |->
     IF E!IsName(source.tokens[i]) THEN [name |-> f[source.tokens[i].name]] ELSE source.tokens[i]]
IsCopy(copy, source, f) == copy.tokens = Copy(source, f)
IsTokened(source, Name, Text) == source.tokens \in Seq(Tokened(Name, Text))
Used(source) == {t.name : t \in {u \in E!ToSet(source.tokens) : E!IsName(u)}}
Renamings(source, New) ==
  {f \in [Used(source) -> New] : \A x, y \in Used(source) : f[x] = f[y] => x = y}

-----------------------------------------------------------------------------
(* Where visitors get (Visitors.tla).                                       *)

\* Whoever comes: with a session or none, with an account or none.
Visitor == [session : {"none", "invalid", "user"}, account : {None} \cup Account,
            stored : {None, "student", "teacher"}]

\* Someone who has an active account, and a page that someone gets to at last.
MayWork(v) == v.session = "user" /\ v.account # None /\ v.account.status = "ACTIVE"
IsEnd(v, end) ==
  /\ end.settled /\ end.page # "error"
  /\ end.page \in DOMAIN D!V!WorkPages =>
       MayWork(v) /\ end.content = v.account.role /\ end.shell = v.account.role

\* What follows when someone sends the form of the account setup.
SetUp(env, v, role, answer) ==
  LET setup == D!V!SubmitRole(env, v, role, answer)
      end == D!V!Follow(env, setup.visitor, setup.at)
  IN \/ end.page = "dashboard" /\ end.content = role
     \/ /\ answer # "verified" /\ setup.visitor = v
        /\ CASE answer = "gone" -> end.page = "sign-in"
             [] answer = "unanswered" -> end.page = "error"
             [] answer = "owned" -> end.page = "disabled-account" /\ v.account = None
             [] OTHER -> end.page = "account-setup" /\ end.intent = role

-----------------------------------------------------------------------------
(* What a class is told (Overviews.tla).                                    *)

\* A practical with its attempts, of which a student has no two with one number, and a
\* class with its members and practicals.
IsTask(task) ==
  /\ task # None /\ task.id # None /\ (task.deadline \in Int \/ task.deadline = None)
  /\ IsFiniteSet(task.attempts)
  /\ \A a \in task.attempts : a # None /\ a.task = task.id /\ a.number \in Nat
  /\ \A a, b \in task.attempts : a.student = b.student /\ a.number = b.number => a = b
IsClass(class) ==
  /\ class.members \in Seq({"active", "inactive", "none"})
  /\ \E Task : class.tasks \in Seq(Task)
  /\ \A i \in DOMAIN class.tasks : IsTask(class.tasks[i])
  /\ \A i, j \in DOMAIN class.tasks : class.tasks[i].id = class.tasks[j].id => i = j

\* What is kept of a sequence, the elements at the places in S, in their order (g).
KeptBy(s, S, kept, m, g) ==
  /\ m \in Nat /\ m = Cardinality(S) /\ g \in [1 .. m -> S]
  /\ kept = [i \in 1 .. m |-> s[g[i]]] /\ Len(kept) = m /\ DOMAIN kept = 1 .. m
  /\ \A i \in 1 .. m : kept[i] = s[g[i]]
  /\ \A i, j \in 1 .. m : i < j => g[i] < g[j]
  /\ \A i, j \in 1 .. m : g[i] = g[j] => i = j
  /\ \A j \in S : \E i \in 1 .. m : g[i] = j
  /\ kept = <<>> <=> S = {}
  /\ kept \in Seq(ToSet(kept)) /\ (S # {} => Head(kept) = kept[1] /\ 1 \in 1 .. m)

\* Why a student needs attention, as the analytics say it.
ReasonsOf(students, attempts, s) ==
  LET by == {x \in students : Of(x, attempts) # {}}
      latest == [x \in by |-> Highest(Of(x, attempts))]
      of == SnapshotBreakdown(latest[s])
  IN IF s \notin by THEN {"NO_SUBMISSION"}
     ELSE (IF of.score < 50 THEN {"LOW_SUGGESTED_SCORE"} ELSE {})
          \cup (IF of.hiddenPassed < of.hiddenTotal THEN {"FAILED_HIDDEN_TESTS"} ELSE {})
          \cup (IF latest[s].review # "PUBLISHED" THEN {"NEEDS_REVIEW"} ELSE {})

\* A list of one row or none.
OneOrNone(p, x) == p = <<>> \/ p = <<x>>

-----------------------------------------------------------------------------
(* Schools, and the queue of reviews.                                       *)

\* A relation that orders a set, and a list with each element of the set once, in that order.
IsOrder(S, R) ==
  /\ \A x \in S : <<x, x>> \notin R
  /\ \A x, y \in S : x # y => <<x, y>> \in R \/ <<y, x>> \in R
  /\ \A x, y, z \in S : <<x, y>> \in R /\ <<y, z>> \in R => <<x, z>> \in R
ArrangedBy(S, R, list, m) ==
  /\ m \in Nat /\ m = Cardinality(S) /\ list \in [1 .. m -> S]
  /\ Len(list) = m /\ DOMAIN list = 1 .. m
  /\ list \in Seq(S) /\ ToSet(list) = S /\ IsInjective(list)
  /\ \A i, j \in 1 .. m : i < j => <<list[i], list[j]>> \in R
  /\ list = <<>> <=> S = {}
Below(S, R, x) == {y \in S : y = x \/ <<y, x>> \in R}

\* The classrooms of a teacher: each practical is of one class, and no two submissions were
\* made at one moment.
AllTasks(classes) == UNION {ToSet(classes[i].tasks) : i \in DOMAIN classes}
AllAttempts(classes) == UNION {task.attempts : task \in AllTasks(classes)}
IsSchool(classes) ==
  /\ \E Class : classes \in Seq(Class)
  /\ \A i \in DOMAIN classes : IsClass(classes[i])
  /\ \A i, j \in DOMAIN classes : classes[i].id = classes[j].id => i = j
  /\ \A i \in DOMAIN classes : classes[i].id # None
  /\ \A i, j \in DOMAIN classes : \A s \in ToSet(classes[i].tasks), t \in ToSet(classes[j].tasks) :
       s.id = t.id => i = j /\ s = t
  /\ \A a \in AllAttempts(classes) : a.at \in Int
  /\ \A a, b \in AllAttempts(classes) : a.at = b.at => a = b

\* The places of the submissions in a state of review, in a queue of submissions.
Waiting(rows, status) == {i \in DOMAIN rows : QueueStatus(rows[i]) = status}
IsQueue(rows) == Len(rows) \in Nat /\ DOMAIN rows = 1 .. Len(rows)

-----------------------------------------------------------------------------
(* The progress of a class.                                                 *)

\* The parts of the progress page of a class, or (None) of all classes.
RowsIn(overview, c) ==
  {p \in overview.practicals : p.status = "PUBLISHED" /\ (c = None \/ p.class = c)}
LatestIn(overview, c) ==
  {a \in ToSet(overview.submissions) :
     /\ \E p \in RowsIn(overview, c) : p.id = a.task
     /\ \A b \in ToSet(overview.submissions) :
          b.task = a.task /\ b.student = a.student => b.number <= a.number}
ScopeOf(overview, c) ==
  {s \in DOMAIN overview.students : c = None \/ c \in overview.students[s].classes}
DoneIn(overview, c) ==
  [s \in ScopeOf(overview, c) |->
     IF c = None THEN overview.students[s].submitted
     ELSE Cardinality({a.task : a \in Of(s, LatestIn(overview, c))})]
DueIn(overview, c) ==
  [s \in ScopeOf(overview, c) |->
     IF c = None THEN overview.students[s].available ELSE Cardinality(RowsIn(overview, c))]
ProgressRow(overview, c, p) ==
  [id |-> p.id, submitted |-> p.submitted, students |-> p.students,
   passed |-> Cardinality({a \in LatestIn(overview, c) : a.task = p.id /\ PassedAll(a)}),
   reviewed |-> Cardinality({a \in LatestIn(overview, c) : a.task = p.id /\ a.review = "PUBLISHED"}),
   needsReview |-> Cardinality({a \in LatestIn(overview, c) : a.task = p.id /\ a.review # "PUBLISHED"})]

\* The places of the published tasks a student submitted.
Handed(class, s) == {i \in DOMAIN Published(class) : s \in Submitters(Published(class)[i])}

-----------------------------------------------------------------------------
(* What a student is told.                                                  *)

\* A list of practicals, each with a deadline or none.
IsList(list) ==
  /\ Len(list) \in Nat /\ DOMAIN list = 1 .. Len(list)
  /\ \A i \in DOMAIN list : list[i].deadline \in Int \/ list[i].deadline = None
Open(list) == {i \in DOMAIN list : list[i].latest = None}

\* The practicals to do, in the order of o: what is overdue comes last.
ActsBy(list, act, m, o) ==
  /\ m \in Nat /\ m = Cardinality(Open(list)) /\ Len(act) = m /\ DOMAIN act = 1 .. m
  /\ act \in Seq(ToSet(list))
  /\ o \in [1 .. m -> Open(list)] /\ \A n \in 1 .. m : act[n] = list[o[n]]
  /\ \A i \in Open(list) : \E n \in 1 .. m : o[n] = i
  /\ \A i, j \in 1 .. m : i < j /\ Overdue(act[i]) => Overdue(act[j])
  /\ act = <<>> <=> Open(list) = {}

\* The places of the practicals a student submitted.
HandedIn(list) == {i \in DOMAIN list : list[i].latest # None}

\* Each place of the whole is a place of one of the parts, and each of those is there once.
PlacedBy(seqs, all, m, c, j) ==
  /\ \A x \in 1 .. Len(all) : /\ c[x] \in 1 .. m /\ j[x] \in 1 .. Len(seqs[c[x]])
                              /\ all[x] = seqs[c[x]][j[x]]
  /\ \A x, y \in 1 .. Len(all) : c[x] = c[y] /\ j[x] = j[y] => x = y
  /\ \A i \in 1 .. m : \A k \in 1 .. Len(seqs[i]) :
       \E x \in 1 .. Len(all) : c[x] = i /\ j[x] = k

\* The practicals of a student: each published task of each class the student is in, once.
ListedBy(classes, s, list, cl, ta) ==
  /\ Len(list) \in Nat /\ DOMAIN list = 1 .. Len(list)
  /\ \A x \in DOMAIN list :
       /\ cl[x] \in DOMAIN classes /\ s \in Active(classes[cl[x]])
       /\ ta[x] \in ToSet(Published(classes[cl[x]]))
       /\ list[x] = StudentPractical(classes[cl[x]], ta[x], s)
  /\ \A x, y \in DOMAIN list : ta[x].id = ta[y].id => x = y
  /\ \A i \in DOMAIN classes : s \in Active(classes[i]) =>
       \A task \in ToSet(Published(classes[i])) :
         \E x \in DOMAIN list : cl[x] = i /\ ta[x] = task

\* What a student is told of the practicals in the list.
ToldBy(classes, s, list, cl, ta) ==
  /\ ListedBy(classes, s, list, cl, ta) /\ IsList(list)
  /\ \A x \in DOMAIN list :
       /\ IsTask(ta[x]) /\ ta[x] \in ToSet(classes[cl[x]].tasks)
       /\ list[x].class = classes[cl[x]].id /\ list[x].id = ta[x].id
       /\ list[x].latest = IF s \in Submitters(ta[x]) THEN Highest(Of(s, ta[x].attempts)) ELSE None
       /\ list[x].latest # None <=> s \in Submitters(ta[x])
       /\ list[x].latest # None => list[x].latest.at \in Int
       /\ list[x].feedback =>
            \E a \in list[x].attempts : a.number = list[x].latest.number /\ a.marks # None

\* The places of the practicals of a class in a student's list.
PlacesOf(list, c) == {x \in DOMAIN list : list[x].class = c}

-----------------------------------------------------------------------------
(* The invariants of the cases.                                             *)

\* The work of a case: up to two attempts, each with an end and a review.
IsWork(work) ==
  /\ DOMAIN work \subseteq 1 .. 2
  /\ \A n \in DOMAIN work : /\ work[n][1] \in {"all", "hidden", "crash"}
                            /\ work[n][2] \in {None, "DRAFT", "PUBLISHED"}

\* A stamp tells the task, the number and the student of an attempt.
Stamped(a) ==
  /\ a.task \in 1 .. 3 /\ a.student \in 1 .. 2 /\ a.number \in 1 .. 2
  /\ a.at = 100 * a.number + 10 * a.task + a.student
IsStampedTask(task, id) == IsTask(task) /\ task.id = id /\ \A a \in task.attempts : Stamped(a)
===============================================================================
