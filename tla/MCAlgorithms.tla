----------------------------- MODULE MCAlgorithms -----------------------------
(***************************************************************************)
(* The algorithms of Results, Providers, Sandbox and of what MCViews       *)
(* covers, over bounded inputs: a state is one input (at; at.part says of  *)
(* what), and an invariant says what holds of it.                          *)
(***************************************************************************)
EXTENDS MCViews

-----------------------------------------------------------------------------
(* Programs in a sandbox.                                                   *)

Small(limits) == [limits EXCEPT !.output = 2, !.total = 3, !.response = 10]
Behaviour == [does : {"right", "wrong", "crash"}, seconds : {0, 3, 6}, bytes : {1, 2, 3}]
Behaviours == {<<>>} \cup {<<a>> : a \in Behaviour} \cup {<<a, b>> : a, b \in Behaviour}
Ids == <<"t1", "t2", "t3">>
Visibilities == {"VISIBLE", "HIDDEN"}

\* The second test is hidden.
Asked(n) == [i \in 1 .. n |-> [id |-> Ids[i], visibility |-> IF i = 2 THEN "HIDDEN" ELSE "VISIBLE"]]
\* A result may be several times as long as the output in it, which is escaped.
WithTests(p) ==
  [p EXCEPT !.tests = [i \in DOMAIN p.tests |->
     [does |-> p.tests[i].does, seconds |-> p.tests[i].seconds, bytes |-> p.tests[i].bytes,
      json |-> 4 * p.tests[i].bytes, id |-> Ids[i], visibility |-> Asked(2)[i].visibility]]]

Troubles == {NoTrouble}
  \cup [at : {"create", "compile"}, test : {0}, how : {"fails", "late", "aborted"}]
  \cup [at : {"test"}, test : 1 .. 2, how : {"fails", "late", "aborted"}]
Programs == [compiles : BOOLEAN, compileTime : {1, 12, 16}, staged : {0, 2}, tests : Behaviours,
             around : {[s \in States |-> IF s = "completed" THEN 1 ELSE long] : long \in {1, 8, 11}}]
\* Programs to meet trouble are compiled quickly or not at all.
Bothered == {p \in Programs : p.compileTime = 1 /\ p.staged = 0}
ProgramCase ==
  \E limits \in {Small(Java), Small(Cpp)}, trouble \in Troubles :
    \E p \in IF trouble = NoTrouble THEN Programs ELSE Bothered :
      at = [part |-> "program", limits |-> limits, trouble |-> trouble, program |-> WithTests(p)]

\* Verdicts are the program's (executeJavaInDocker, executeCppInDocker): no trouble in a
\* sandbox passes a test or completes a run that the program does not; undisturbed, the
\* verdict tells how the first failing test ended, with every test before it answered; what
\* a runner service answers passes the provider's check; and what completes in a sandbox
\* completes with the same marks at Judge0 and Wandbox unless these stop it.
VerdictsAreHonest ==
  at.part = "program" =>
    LET asked == Asked(Len(at.program.tests)) IN
    /\ JudgedByItself(at.limits, at.program, asked, at.trouble)
    /\ RunnerIsBelieved(at.limits, at.program, asked, at.trouble)
    /\ at.trouble = NoTrouble =>
         \A silent \in BOOLEAN, stopped \in [DOMAIN asked -> {"no", "time", "memory"}] :
           ProvidersAgree(at.limits, at.program, asked, stopped, silent)

-----------------------------------------------------------------------------
(* Answers of a runner service, and what becomes of them.                   *)

Requests == {<<>>} \cup {<<[id |-> "t1", visibility |-> v]>> : v \in Visibilities}
  \cup {<<[id |-> "t1", visibility |-> v], [id |-> "t2", visibility |-> w]>> : v, w \in Visibilities}
Result == [id : {"t1", "t2", "t3"}, passed : BOOLEAN, visibility : Visibilities]
ResultLists == {<<>>} \cup {<<a>> : a \in Result} \cup {<<a, b>> : a, b \in Result}
Responses == [state : {"completed", "runtime_error"}, passed : 0 .. 3, total : 0 .. 2,
              tests : ResultLists]

AnswerCase ==
  \E request \in Requests, response \in Responses \cup {NoResponse} :
    at = [part |-> "answer", request |-> request, response |-> response]

Spoken == [language : {"JAVA", "CPP"}, fits : BOOLEAN]
\* The answer the provider passes on; the run of a program at Judge0 or Wandbox
\* may answer tests after the one that failed.
Given == JavaHttpAnswer([language |-> "JAVA", fits |-> TRUE], at.request, at.response)

\* Marks are earned: a completed answer has one result for each test asked for and
\* counts that are theirs, whatever the runner service said; what is stored of it
\* adds up; and a suggested score is full exactly when everything passed, nothing
\* exactly when no test did, and never falls with more passed tests.
MarksAreEarned ==
  /\ at.part = "answer" =>
       /\ \A sent \in Spoken :
            /\ AnswerIsAboutRequest(at.request, JavaHttpAnswer(sent, at.request, at.response))
            /\ AnswerIsAboutRequest(at.request, CppHttpAnswer(sent, at.request, at.response))
       /\ NumbersFit(Given, at.request)
  /\ at.part = "score" => ScoreIsHonest(at.state, at.passed, at.total)

\* Snapshots with and without visibilities, and the practical as it is later.
Legacy(snapshot) ==
  [snapshot EXCEPT !.breakdown = None,
                   !.tests = [i \in DOMAIN @ |-> [@[i] EXCEPT !.visibility = None]]]
Snapshots == {Snapshot(Given, at.request), Legacy(Snapshot(Given, at.request))}

\* Results are shown truly, also when the practical's tests changed since: a student sees
\* nothing of a test the stored result calls hidden, and of a result from before there were
\* visibilities, whose test is hidden now, neither input nor expected output (whether it
\* passed is shown); the student's and the teacher's page show the same marks; and the
\* panel says "all passed" of a completed run alone (attempts/service.ts,
\* run-result-view-model.ts).
ResultsAgree ==
  at.part = "answer" =>
    /\ \A snapshot \in Snapshots, tests \in Requests :
         HiddenStayHidden(snapshot, tests) /\ PagesAgree(snapshot, tests)
    /\ \A running, failure \in BOOLEAN :
         PanelIsHonest(running, failure, Snapshot(Given, at.request))

\* A result is true from the runner's answer to the page: its marks are earned
\* (responseMatchesRequest, calculateSuggestedScore), and it is shown as it was stored, tests
\* stored as hidden to the teacher alone (publicTestResults, persistedSubmissionResult).
ResultsAreTrue == MarksAreEarned /\ ResultsAgree

-----------------------------------------------------------------------------
(* Scores, and choices of a provider.                                       *)

ScoreCase ==
  \E state \in {"completed", "runtime_error"}, total \in 0 .. 100 : \E passed \in 0 .. total :
    at = [part |-> "score", state |-> state, passed |-> passed, total |-> total]
Url == {"none", "loopback", "https", "other"}
ChoiceCase ==
  \E env \in [mode : {"mock", "judge0", "wandbox", "java-http", "cpp-http", "local-docker",
                      "remote-docker", "unknown"},
              production : BOOLEAN, allowLocal : BOOLEAN, javaUrl : Url, cppUrl : Url,
              judgeUrl : Url, token : BOOLEAN, judgeKey : BOOLEAN],
     language \in {"JAVA", "CPP"} :
    at = [part |-> "choice", env |-> env, language |-> language]
\* In production no result is simulated and no local runner used that was not
\* accepted, tokens travel over HTTPS only, and the Docker modes answer in the
\* language of the task (getServerExecutionProvider); and an environment the process
\* calls valid or healthy is one in which people sign in and programs run.
ChoicesAreSafe ==
  /\ at.part = "choice" => ChoiceIsSafe(at.env, at.language)
  /\ at.part = "deployment" => D!DeploymentIsHonest(at.env, at.world)

-----------------------------------------------------------------------------
Init == ProgramCase \/ AnswerCase \/ ScoreCase \/ ChoiceCase \/ ViewCase
Next == UNCHANGED at
Spec == Init /\ [][Next]_at
=============================================================================
