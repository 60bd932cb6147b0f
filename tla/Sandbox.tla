------------------------------- MODULE Sandbox -------------------------------
(***************************************************************************)
(* What a runner makes of a program: executeJavaInDocker and               *)
(* executeCppInDocker (backend/runner/java/docker-executor.ts and          *)
(* backend/runner/cpp/docker-executor.ts).                                 *)
(*                                                                         *)
(* A program is what the compiler and each test make of it, with the       *)
(* seconds and the bytes this takes (json: of the test's result in the     *)
(* answer; around: of what surrounds the results, an error text included). *)
(* trouble is [at, test, how], what goes wrong in Docker: the command at   *)
(* "create", "start", "write", "compile" or a "test" (and which) "fails",  *)
(* is "late" or is "aborted".  The life of the container itself is in      *)
(* RunnerServer; here it ends lifetime seconds after its start.            *)
(***************************************************************************)
EXTENDS Integers, SequencesExt

Java == [lifetime |-> 15, compile |-> 15, wall |-> 5, output |-> 16384, total |-> 65536,
         response |-> 131072]
Cpp == [lifetime |-> 30, compile |-> 10, wall |-> 5, output |-> 16384, total |-> 65536,
        response |-> 131072]

States == {"completed", "compilation_error", "runtime_error", "time_limit_exceeded",
           "internal_error"}
Least(a, b) == IF a < b THEN a ELSE b
Most(a, b) == IF a > b THEN a ELSE b

NoTrouble == [at |-> "none", test |-> 0, how |-> "none"]

Passed(results) == Cardinality({i \in DOMAIN results : results[i].passed})

\* Nothing is known of the program.
InternalError(request) ==
  [state |-> "internal_error", passed |-> 0, total |-> Len(request), tests |-> <<>>]

Answer(state, request, results) ==
  [state |-> state, passed |-> Passed(results), total |-> Len(request), tests |-> results]

\* A command that would take so many seconds, started at the given one: whether
\* the container is gone before it ends, or its deadline passes first.
Gone(limits, at, seconds, deadline) == at + Least(seconds, deadline) > limits.lifetime
Late(seconds, deadline) == seconds > deadline

Compiled(limits, program) ==
  /\ program.compiles
  /\ ~Late(program.compileTime, limits.compile)
  /\ ~Gone(limits, program.staged, program.compileTime, limits.compile)

\* The output a test may still produce.  A definition with a suffix is a mistake
\* the code could have made in place of the one it precedes.
OutputLeft_Total(limits, returned) == Most(1, limits.total - returned)
OutputLeft(limits, returned) == Least(limits.output, Most(1, limits.total - returned))

Verdict(test) == [id |-> test.id, passed |-> test.does = "right", visibility |-> test.visibility]

\* How a run ends whose command was aborted, is late, or fails although the program
\* does nothing wrong (docker exec's own exit code is taken for the program's).
Ending(how) ==
  IF how = "aborted" THEN "internal_error"
  ELSE IF how = "late" THEN "time_limit_exceeded" ELSE "runtime_error"

\* One more test, run after what went before: how the loop goes on.
Tested(limits, trouble, run, test) ==
  LET i == run.number + 1
      left == limits.wall - run.spent
      ends(state) == [run EXCEPT !.state = state]
  IN
  IF run.state # "completed" THEN run
  ELSE IF left <= 0 THEN ends("time_limit_exceeded")
  ELSE IF trouble.at = "test" /\ trouble.test = i THEN ends(Ending(trouble.how))
  ELSE IF Gone(limits, run.began + run.spent, test.seconds, left) THEN ends("runtime_error")
  ELSE IF Late(test.seconds, left) THEN ends("time_limit_exceeded")
  ELSE IF test.bytes > OutputLeft(limits, run.returned) THEN ends("runtime_error")
  ELSE IF test.does = "crash" THEN ends("runtime_error")
  ELSE [run EXCEPT !.number = i, !.spent = @ + test.seconds, !.returned = @ + test.bytes,
                   !.results = Append(@, Verdict(test))]

\* The run after so many tests.
Course(limits, program, trouble) ==
  LET before == [state |-> "completed", number |-> 0, spent |-> 0, returned |-> 0,
                 began |-> program.staged + program.compileTime, results |-> <<>>]
      run[i \in 0 .. Len(program.tests)] ==
        IF i = 0 THEN before ELSE Tested(limits, trouble, run[i - 1], program.tests[i])
  IN run
AllTested(limits, program, trouble) == Course(limits, program, trouble)[Len(program.tests)]

\* The answer of an executor to a request, a sequence of tests.  Before the compiler
\* runs any trouble ends the execution; a compiler that is late or fails, for whatever
\* reason, is a compilation error.
Executed(limits, program, request, trouble) ==
  IF \/ trouble.at \in {"create", "start", "write"}
     \/ trouble.at = "compile" /\ trouble.how = "aborted"
  THEN InternalError(request)
  ELSE IF trouble.at = "compile" \/ ~Compiled(limits, program)
  THEN Answer("compilation_error", request, <<>>)
  ELSE LET run == AllTested(limits, program, trouble) IN
       IF run.state = "internal_error" THEN InternalError(request)
       ELSE Answer(run.state, request, run.results)

ExecuteJava(program, request, trouble) == Executed(Java, program, request, trouble)
ExecuteCpp(program, request, trouble) == Executed(Cpp, program, request, trouble)

\* What the first i of n tests take together.
Totals(f, n) == LET total[i \in 0 .. n] == IF i = 0 THEN 0 ELSE total[i - 1] + f[i] IN total

\* boundedResponse: what the runner service says of an execution; an answer that is
\* too long says nothing of the program.
Bytes(program, answer) ==
  LET n == Len(program.tests) IN
  program.around[answer.state]
    + Totals([i \in 1 .. n |-> program.tests[i].json], n)[Len(answer.tests)]
Served(limits, program, request, trouble) ==
  LET answer == Executed(limits, program, request, trouble) IN
  IF Bytes(program, answer) > limits.response THEN InternalError(request) ELSE answer

-----------------------------------------------------------------------------
(* What a verdict should be.                                                *)

\* Tests that a program does not get through.
Stops(limits, program) ==
  LET n == Len(program.tests)
      spent == Totals([i \in 1 .. n |-> program.tests[i].seconds], n)
      returned == Totals([i \in 1 .. n |-> program.tests[i].bytes], n)
  IN {i \in 1 .. n :
        \/ program.tests[i].does = "crash"
        \/ spent[i] > limits.wall \/ spent[i - 1] >= limits.wall
        \/ program.tests[i].bytes > limits.output
        \/ returned[i] > limits.total /\ program.tests[i].bytes > 1}

\* The container lives as long as the commands in it.
LivesLongEnough(limits, program) ==
  program.staged + Least(program.compileTime, limits.compile) + limits.wall <= limits.lifetime

\* Nothing but the program decides: no trouble, and a container that outlives it.
Undisturbed(limits, program, trouble) ==
  /\ trouble = NoTrouble /\ LivesLongEnough(limits, program)
  /\ program.compiles /\ program.compileTime <= limits.compile

\* A verdict is about the program.  Whatever goes wrong, the container's end included, no
\* test is answered that the program does not get through, none as passed that it does not
\* do right, and a completed run is of a program that got through them all.  Undisturbed,
\* every test before the first it does not get through is answered, and the state tells
\* of that one.
JudgedByItself(limits, program, request, trouble) ==
  LET answer == Served(limits, program, request, trouble)
      stops == Stops(limits, program)
      compiles == program.compiles /\ program.compileTime <= limits.compile
  IN
  /\ \A i \in DOMAIN answer.tests :
       /\ \A s \in stops : i < s
       /\ answer.tests[i].id = request[i].id
       /\ answer.tests[i].passed <=> program.tests[i].does = "right"
  /\ answer.tests # <<>> \/ answer.state = "completed" => compiles
  /\ answer.state = "completed" => stops = {} /\ DOMAIN answer.tests = DOMAIN request
  /\ answer.state # "internal_error" /\ Undisturbed(limits, program, trouble) =>
       /\ answer.state = "completed" <=> stops = {}
       /\ answer.state # "compilation_error"
       /\ \A i \in DOMAIN program.tests :
            (\A s \in stops : i < s) => i \in DOMAIN answer.tests
  /\ trouble = NoTrouble /\ answer.state = "internal_error" =>
       Bytes(program, Executed(limits, program, request, trouble)) > limits.response
  /\ trouble = NoTrouble /\ ~compiles => answer.state \in {"compilation_error", "internal_error"}
=============================================================================
