------------------------------ MODULE Providers ------------------------------
(***************************************************************************)
(* The execution providers of the web process and of the worker            *)
(* (backend/server/execution/): which one runs a program, and what each    *)
(* makes of the answer of the service behind it.                           *)
(*                                                                         *)
(* A request is a sequence of tests, with distinct ids.  Sources, inputs   *)
(* and outputs are left out: a request fits the byte limits or not, an     *)
(* output is the expected one or not.                                      *)
(***************************************************************************)
EXTENDS Sandbox

-----------------------------------------------------------------------------
(* The runner services over HTTP (java-http-provider.ts and                *)
(* cpp-http-provider.ts).  A definition with a suffix is a mistake the code *)
(* could have made in place of the one it precedes.                        *)

\* javaRunnerResponseSchema, cppRunnerResponseSchema: of the well-formed answers.
MeetsSchema(response) == response.passed <= response.total

\* responseMatchesRequest
VisibilityIn(request, id) ==
  IF \E i \in DOMAIN request : request[i].id = id
  THEN request[CHOOSE i \in DOMAIN request : request[i].id = id].visibility ELSE "unknown"

Matches_Repeated(response, request) ==
  /\ response.total = Len(request)
  /\ \A i \in DOMAIN response.tests :
       VisibilityIn(request, response.tests[i].id) = response.tests[i].visibility
  /\ IF response.state = "completed"
     THEN Len(response.tests) = Len(request) /\ response.passed = Passed(response.tests)
     ELSE response.passed <= Passed(response.tests)

Matches(response, request) ==
  /\ response.total = Len(request)
  /\ \A i \in DOMAIN response.tests :
       /\ \A j \in 1 .. i - 1 : response.tests[j].id # response.tests[i].id
       /\ VisibilityIn(request, response.tests[i].id) = response.tests[i].visibility
  /\ IF response.state = "completed"
     THEN Len(response.tests) = Len(request) /\ response.passed = Passed(response.tests)
     ELSE response.passed <= Passed(response.tests)

\* What arrives: a response, or none that could be read in time and in bounds.
\* A request is sent when it is in the language and fits the limits of the runner.
NoResponse == [state |-> "none"]

HttpAnswer(language, sent, request, response) ==
  IF sent.language = language /\ sent.fits /\ response # NoResponse
       /\ MeetsSchema(response) /\ Matches(response, request)
  THEN response ELSE InternalError(request)

JavaHttpAnswer(sent, request, response) == HttpAnswer("JAVA", sent, request, response)
CppHttpAnswer(sent, request, response) == HttpAnswer("CPP", sent, request, response)

\* An answer that is passed on is about the request: a completed one has one
\* result for each of its tests, no more passes are counted than there are, and
\* no test appears with another visibility.
AnswerIsAboutRequest(request, answer) ==
  /\ answer.total = Len(request) /\ answer.passed <= Len(request)
  /\ answer.passed <= Passed(answer.tests)
  /\ \A i \in DOMAIN answer.tests : \E j \in DOMAIN request :
       /\ answer.tests[i].id = request[j].id
       /\ answer.tests[i].visibility = request[j].visibility
  /\ answer.state = "completed" =>
       \A j \in DOMAIN request :
         Cardinality({i \in DOMAIN answer.tests : answer.tests[i].id = request[j].id}) = 1

\* The two sides agree on the protocol: whatever a runner service answers, and
\* whatever went wrong in its sandbox, the provider passes the answer on.
RunnerIsBelieved(limits, program, request, trouble) ==
  LET response == Served(limits, program, request, trouble)
      sent(language) == [language |-> language, fits |-> TRUE]
  IN
  /\ JavaHttpAnswer(sent("JAVA"), request, response) = response
  /\ CppHttpAnswer(sent("CPP"), request, response) = response

-----------------------------------------------------------------------------
(* Judge0 (judge0-provider.ts): every test is a submission of its own.      *)

\* stateForStatus
StateForStatus(status) ==
  IF status = 6 THEN "compilation_error"
  ELSE IF status = 5 THEN "time_limit_exceeded"
  ELSE IF status \in 7 .. 12 THEN "runtime_error"
  ELSE IF status \in {3, 4} THEN "completed" ELSE "internal_error"

\* The state of a run is that of its first test which is not completed.
FirstFailure(states) ==
  LET failures == {i \in DOMAIN states : states[i] # "completed"} IN
  IF failures = {} THEN "completed"
  ELSE states[CHOOSE i \in failures : \A j \in failures : i <= j]

Results(request, passed(_)) ==
  [i \in DOMAIN request |-> [id |-> request[i].id, passed |-> passed(i),
                             visibility |-> request[i].visibility]]

\* outcomes: the status of each submission and whether its output, cut at the
\* limit, is the expected one; none when a call failed or the time was over.
Judge0Answer(request, outcomes) ==
  IF outcomes = <<>> /\ request # <<>> THEN InternalError(request)
  ELSE LET right(i) == outcomes[i].status = 3 /\ outcomes[i].same
           states == [i \in DOMAIN request |-> StateForStatus(outcomes[i].status)]
       IN Answer(FirstFailure(states), request, Results(request, right))

\* What Judge0 makes of a program: it has limits of its own, 2 seconds of processor time
\* and 128000 KB of memory, and stopped tells at which of them it ends each test ("no",
\* "time" or "memory").
JudgeStatus(limits, program, stopped, i) ==
  IF ~program.compiles THEN 6
  ELSE IF program.tests[i].seconds > limits.wall \/ stopped[i] = "time" THEN 5
  ELSE IF program.tests[i].does = "crash" \/ stopped[i] = "memory" THEN 11
  ELSE IF program.tests[i].does = "right" THEN 3 ELSE 4

Judged(limits, program, request, stopped) ==
  Judge0Answer(request,
    [i \in DOMAIN request |->
       [status |-> JudgeStatus(limits, program, stopped, i),
        same |-> program.tests[i].does = "right" /\ program.tests[i].bytes <= limits.output]])

-----------------------------------------------------------------------------
(* Wandbox (wandbox-provider.ts).                                           *)

\* responseState
ResponseState(response) ==
  IF response.status = 0 THEN "completed"
  ELSE IF response.compilerError THEN "compilation_error"
  ELSE IF response.programError \/ response.signal THEN "runtime_error" ELSE "internal_error"

\* runTest: a call that fails is made once more, unless the time is over
\* ("aborted") or the status says that it would fail again ("refused").
Retryable(call) == call \in {"unreachable", "busy"}
RunTest(calls) == IF Retryable(calls[1]) THEN calls[2] ELSE calls[1]

WandboxAnswer(request, responses) ==
  IF \E i \in DOMAIN request : RunTest(responses[i].calls) # "ok" THEN InternalError(request)
  ELSE LET state(i) == ResponseState(responses[i])
           right(i) == state(i) = "completed" /\ responses[i].same
       IN Answer(FirstFailure([i \in DOMAIN request |-> state(i)]), request,
                 Results(request, right))

\* What Wandbox makes of a program; it too has limits of its own, and neither a crash
\* nor an end by a limit need leave anything but a status.
Wandboxed(limits, program, request, stopped, silent) ==
  WandboxAnswer(request,
    [i \in DOMAIN request |->
       LET crashes == program.compiles /\ program.tests[i].does = "crash"
           ended == program.compiles /\ stopped[i] # "no"
       IN [status |-> IF program.compiles /\ ~crashes /\ ~ended THEN 0 ELSE 1,
           compilerError |-> ~program.compiles,
           programError |-> crashes /\ ~silent,
           signal |-> ended /\ ~silent,
           calls |-> <<"ok", "ok">>,
           same |-> program.tests[i].does = "right" /\ program.tests[i].bytes <= limits.output]])

\* Marks do not depend on the provider, as far as the hosts' own limits allow: both
\* sandboxes give one verdict; a test passed at Judge0 or Wandbox is done right; a program
\* that is not compiled, crashes or is stopped is completed at neither; and what completes
\* in a sandbox completes there, with as many tests passed, if the host stops no test.
ProvidersAgree(limits, program, request, stopped, silent) ==
  LET here == Executed(limits, program, request, NoTrouble)
      hosted == {Judged(limits, program, request, stopped),
                 Wandboxed(limits, program, request, stopped, silent)}
      fails(i) == program.tests[i].does = "crash" \/ stopped[i] # "no"
  IN
  /\ LivesLongEnough(Java, program) /\ program.compileTime <= Cpp.compile =>
       ExecuteJava(program, request, NoTrouble) = ExecuteCpp(program, request, NoTrouble)
  /\ \A answer \in hosted : \A i \in DOMAIN answer.tests :
       answer.tests[i].passed =>
         program.compiles /\ program.tests[i].does = "right" /\ stopped[i] = "no"
  /\ request # <<>> /\ (~program.compiles \/ \E i \in DOMAIN request : fails(i)) =>
       \A answer \in hosted : answer.state # "completed"
  /\ (\A i \in DOMAIN request : stopped[i] = "no") /\ here.state = "completed" =>
       \A answer \in hosted : answer.state = "completed" /\ answer.passed = here.passed

-----------------------------------------------------------------------------
(* The choice of a provider (index.ts).  A URL is "none", "loopback" (HTTP  *)
(* to this host), "https", or "other".  Without an answer the choice fails. *)

Refused == [provider |-> "none", url |-> "none", token |-> FALSE]

LocalAllowed_Always(env) == TRUE
LocalAllowed(env) == ~env.production \/ env.allowLocal

Local(env, language) ==
  LET url == IF language = "JAVA" THEN env.javaUrl ELSE env.cppUrl IN
  IF LocalAllowed(env) /\ url = "loopback"
  THEN [provider |-> language, url |-> url, token |-> FALSE] ELSE Refused

Remote(env, language) ==
  LET url == IF language = "JAVA" THEN env.javaUrl ELSE env.cppUrl IN
  IF env.token /\ url = "https"
  THEN [provider |-> language, url |-> url, token |-> TRUE] ELSE Refused

Hosted(env) ==
  IF env.mode = "judge0"
  THEN IF env.judgeUrl = "https" /\ env.judgeKey
       THEN [provider |-> "judge0", url |-> "https", token |-> TRUE] ELSE Refused
  ELSE IF env.judgeUrl \in {"none", "https"}       \* WANDBOX_API_URL has a default
       THEN [provider |-> "wandbox", url |-> "https", token |-> FALSE] ELSE Refused

\* getServerExecutionProvider, for the language of a task.
Provider(env, language) ==
  CASE env.mode = "mock" ->
         IF env.production THEN Refused
         ELSE [provider |-> "simulated", url |-> "none", token |-> FALSE]
    [] env.mode \in {"judge0", "wandbox"} -> Hosted(env)
    [] env.mode = "java-http" -> Local(env, "JAVA")
    [] env.mode = "cpp-http" -> Local(env, "CPP")
    [] env.mode = "local-docker" -> Local(env, language)
    [] env.mode = "remote-docker" -> Remote(env, language)
    [] OTHER -> Refused

\* In production no result is simulated and no local runner is used that was not
\* accepted; the bearer token travels over HTTPS only; and in the Docker modes the
\* runner that answers is the one of the language.
ChoiceIsSafe(env, language) ==
  LET p == Provider(env, language) IN
  /\ env.production => p.provider # "simulated" /\ (p.url = "loopback" => env.allowLocal)
  /\ p.token => p.url = "https"
  /\ env.mode \in {"local-docker", "remote-docker"} => p.provider \in {language, "none"}
=============================================================================
