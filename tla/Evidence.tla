------------------------------- MODULE Evidence -------------------------------
(***************************************************************************)
(* What a teacher is shown as evidence beside a submission                 *)
(* (backend/server/evidence): how the student worked, how much the program *)
(* shares with those of other students, and questions for an oral defence, *)
(* some of them written by an external model.                              *)
(*                                                                         *)
(* A source is [tokens, remarks]: its tokens in order, each either         *)
(* [name |-> x] for an identifier or [text |-> t] for a keyword, an        *)
(* operator or a kind of literal; remarks stands for comments and spaces.  *)
(* Tokens that collide in the rolling hash are left out.                   *)
(***************************************************************************)
EXTENDS Integers, FiniteSets, Sequences, SequencesExt

CONSTANT None

-----------------------------------------------------------------------------
(* How much two programs share (structural-ast-comparator.ts).              *)

\* normalizeSourceToASTTokens: identifiers are numbered as they first occur.
IsName(token) == "name" \in DOMAIN token
Canonical(source) ==
  LET t == source.tokens
      first(x) == CHOOSE i \in DOMAIN t :
                    IsName(t[i]) /\ t[i].name = x /\ \A j \in 1 .. i - 1 : t[j] # t[i]
      number(x) == Cardinality({t[i].name : i \in {j \in 1 .. first(x) : IsName(t[j])}})
  IN [i \in DOMAIN t |-> IF IsName(t[i]) THEN <<"VAR", number(t[i].name)>> ELSE <<t[i].text, 0>>]

\* generateKGramHashes
Grams(tokens, k) == [i \in 1 .. Len(tokens) - k + 1 |-> SubSeq(tokens, i, i + k - 1)]

\* computeStructuralSimilarity.  What is counted are the parts of a that occur
\* in b, a repeated part each time, so that the order of the two may matter.
Similar(a, b, k) ==
  LET x == Grams(Canonical(a), k)
      y == Grams(Canonical(b), k)
      matched == Cardinality({i \in DOMAIN x : x[i] \in ToSet(y)})
      longer == IF Len(x) > Len(y) THEN Len(x) ELSE Len(y)
      percent == IF a.tokens = <<>> \/ b.tokens = <<>> \/ longer = 0 THEN 0
                 ELSE (200 * matched + longer) \div (2 * longer)
  IN [percent |-> percent, blocks |-> matched,
      verdict |-> IF percent >= 78 THEN "STRUCTURAL_COLLUSION_FLAG"
                  ELSE IF percent >= 48 THEN "SUSPICIOUS_SIMILARITY" ELSE "AUTHENTIC",
      renamed |-> percent >= 65 /\ a # b]

\* auditCohortPlagiarism, for the attempts of a group, newest first: those at one practical
Audit(attempts, group, k) ==
  {[a |-> attempts[p[1]], b |-> attempts[p[2]],
    is |-> Similar(attempts[p[1]].source, attempts[p[2]].source, k)]
     : p \in {q \in group \X group :
                /\ q[1] < q[2]
                /\ attempts[q[1]].language = attempts[q[2]].language
                /\ attempts[q[1]].student # attempts[q[2]].student}}
Audited(attempts, group, k) == {pair \in Audit(attempts, group, k) : pair.is.percent >= 40}

\* getCohortPlagiarismReport of the teacher's attempts, of one practical if asked.
Report(attempts, asked, k) ==
  LET chosen == {i \in DOMAIN attempts : asked = None \/ attempts[i].task = asked}
      of(task) == {i \in chosen : attempts[i].task = task}
      pairs == UNION {Audited(attempts, of(attempts[i].task), k) : i \in chosen}
      count(verdict) == Cardinality({p \in pairs : p.is.verdict = verdict})
  IN [analyzed |-> Cardinality(chosen), pairs |-> pairs,
      flagged |-> count("STRUCTURAL_COLLUSION_FLAG"),
      suspicious |-> count("SUSPICIOUS_SIMILARITY"), authentic |-> count("AUTHENTIC")]

\* getSubmissionForTeacher: the most similar attempt of another student
Peers(attempts, a) ==
  {b \in ToSet(attempts) : b.task = a.task /\ b.student # a.student /\ b.language = a.language}
TopMatch(attempts, a, k) ==
  IF Peers(attempts, a) = {} THEN None
  ELSE LET match(b) == Similar(a.source, b.source, k) IN
       match(CHOOSE b \in Peers(attempts, a) :
               \A c \in Peers(attempts, a) : match(c).percent <= match(b).percent)

\* The words of the panel beside a submission and of the list of pairs.
PanelLabel(match) ==
  IF match = None THEN "low"
  ELSE IF match.percent >= 78 THEN "high" ELSE IF match.percent >= 45 THEN "moderate" ELSE "low"
PairLabel(match) == IF match.verdict = "STRUCTURAL_COLLUSION_FLAG" THEN "high" ELSE "moderate"

-----------------------------------------------------------------------------
(* How the student worked (integrity-engine.ts).  history is the session's  *)
(* events, oldest first: [type, at], at in seconds.                         *)

CountOf(history, types) == Cardinality({i \in DOMAIN history : history[i].type \in types})
RunEvents == {"RUN_REQUESTED", "RUN_COMPLETED"}
Duration(history) == IF history = <<>> THEN 0 ELSE Last(history).at - Head(history).at

\* analyzeAttemptProcess
Analysis(history, lines, runs, passed, total) ==
  LET drafts == CountOf(history, {"DRAFT_SAVED"})
      counted == IF runs > 0 THEN runs ELSE (CountOf(history, RunEvents) + 1) \div 2
      spent == Duration(history)
  IN [drafts |-> drafts, runs |-> counted, duration |-> spent,
      signals |->
        <<IF counted = 0 THEN "zero-runs" ELSE IF counted = 1 THEN "single-run" ELSE "iterative-runs",
          IF drafts <= 1 /\ lines > 25 THEN "single-burst"
          ELSE IF drafts >= 3 THEN "incremental-drafts" ELSE "moderate-drafts",
          IF spent < 45 /\ lines > 30 THEN "rapid-velocity"
          ELSE IF spent > 180 THEN "standard-duration" ELSE "paced-session">>
        \o (IF total = 0 THEN <<>>
            ELSE <<IF passed = total THEN "tests-all-passed" ELSE "tests-partial">>)]

\* StudentJourneyTimeline
Timeline(history, runs) ==
  [drafts |-> CountOf(history, {"DRAFT_SAVED"}), duration |-> Duration(history),
   runs |-> IF runs # 0 THEN runs ELSE CountOf(history, RunEvents)]

-----------------------------------------------------------------------------
(* Questions for an oral defence.                                           *)

\* generateVivaDefense: the question about the process, and the draft of a feedback.
Viva(process, passed, total, match) ==
  [model |-> "heuristic",
   probe |-> IF match # None /\ (match.percent >= 75 \/ match.renamed) THEN "authorial"
             ELSE IF process.drafts <= 1 THEN "walkthrough" ELSE "debugging",
   feedback |-> IF total > 0 /\ passed = 0 THEN "did not pass" ELSE "counts"]

\* generateVivaDefenseWithAI up to its audit entry, which is awaited after the models
\* have answered: what it sends to which models, what it shows, and the entry due.
\* cache is that of the process as the request finds it; answers says of each model
\* whether it answers as the schema asks ("valid"), not ("invalid": an error, a timeout
\* too) or is not configured ("off"); request.admitted is what the rate limiter says.
Hour == 60
Key(request) == <<request.source, request.language, request.title>>
Called(answers) ==
  {m \in {"groq", "gemini"} : answers[m] # "off" /\ (m = "groq" \/ answers["groq"] # "valid")}
Fresh(cache, request, now) == Key(request) \in DOMAIN cache /\ now < cache[Key(request)].expires

Cached_Any(cache, request, now) == Key(request) \in DOMAIN cache
Cached(cache, request, now) == Fresh(cache, request, now)

Entry(request, model, cached) == <<[by |-> request.teacher, model |-> model, cached |-> cached]>>

Generate(cache, request, answers, now) ==
  LET valid == {m \in Called(answers) : answers[m] = "valid"}
      by == CHOOSE m \in valid : TRUE
      own == Viva(request.process, request.passed, request.total, None)
      found == cache[Key(request)].answer
  IN IF Cached(cache, request, now)
     THEN [sent |-> {}, answer |-> found, due |-> Entry(request, found.model, TRUE)]
     ELSE IF ~request.admitted THEN [sent |-> {}, answer |-> own, due |-> <<>>]
     ELSE [sent |-> Called(answers),
           answer |-> IF valid = {} THEN own
                      ELSE [model |-> by, about |-> Key(request), made |-> now],
           due |-> Entry(request, IF valid = {} THEN "heuristic" ELSE by, FALSE)]

\* requestAiVivaDefense: the teacher's own classroom, where assistance is enabled.
Request(cache, request, answers, now) ==
  IF ~request.owner \/ ~request.enabled
  THEN [sent |-> {}, answer |-> [model |-> "refused"], due |-> <<>>]
  ELSE Generate(cache, request, answers, now)

\* The cache once a model has answered; others may have asked meanwhile.
Entered(cache, key, entry) ==
  [k \in DOMAIN cache \cup {key} |-> IF k = key THEN entry ELSE cache[k]]
Remembered(cache, request, asked, now) ==
  IF asked.sent # {} /\ asked.answer.model \in {"groq", "gemini"}
  THEN Entered(cache, Key(request), [answer |-> asked.answer, expires |-> now + Hour]) ELSE cache

\* logAiGeneration: a write that fails is reported to nobody.
LogAiGeneration(log, due, written) == IF written THEN log \o due ELSE log

-----------------------------------------------------------------------------
(* What must hold of them.                                                  *)

\* Renaming identifiers and changing comments makes no difference to what a program
\* shares with another, a copy of a whole program of at least k tokens is flagged
\* however it is renamed or commented, and the order of two programs that do not
\* repeat themselves makes no difference either.
CopyIsSeen(a, b, k) ==
  LET names == {t.name : t \in {u \in ToSet(a.tokens) : IsName(u)}}
      renamings == {f \in [names -> {"u", "v", "w"}] : \A x, y \in names : f[x] = f[y] => x = y}
      copy(f) == [tokens |-> [i \in DOMAIN a.tokens |->
                               IF IsName(a.tokens[i]) THEN [name |-> f[a.tokens[i].name]] ELSE a.tokens[i]],
                  remarks |-> "other"]
      once(s) == IsInjective(Grams(Canonical(s), k))
  IN /\ \A f \in renamings :
          /\ Similar(copy(f), b, k).percent = Similar(a, b, k).percent
          /\ Similar(b, copy(f), k).percent = Similar(b, a, k).percent
          /\ Len(a.tokens) >= k =>
               LET match == Similar(a, copy(f), k) IN
               match.percent = 100 /\ match.verdict = "STRUCTURAL_COLLUSION_FLAG" /\ match.renamed
     /\ once(a) /\ once(b) => Similar(a, b, k).percent = Similar(b, a, k).percent
     /\ ~Similar(a, a, k).renamed

\* The report counts each of its pairs once, compares only different students at one
\* practical, and is for each practical the report of that practical.  The page of the
\* newer attempt of a pair shows a match at least as high, with a label as high but
\* for pairs of 40 to 44 percent, which the list calls moderate and the page may call
\* low.
ReportAgrees(attempts, k) ==
  LET all == Report(attempts, None, k) IN
  /\ all.flagged + all.suspicious + all.authentic = Cardinality(all.pairs)
  /\ \A task \in {a.task : a \in ToSet(attempts)} :
       Report(attempts, task, k).pairs = {p \in all.pairs : p.a.task = task}
  /\ \A p \in all.pairs :
       LET top == TopMatch(attempts, p.a, k) IN
       /\ p.a.task = p.b.task /\ p.a.student # p.b.student
       /\ top # None /\ top.percent >= p.is.percent
       /\ PairLabel(p.is) = "high" => PanelLabel(top) = "high"
       /\ PairLabel(p.is) = "moderate" /\ PanelLabel(top) = "low" => p.is.percent \in 40 .. 44

\* The timeline and the signals beside it tell the same of one session (whose
\* submission has a run of its own), more work makes no signal worse, and the oral
\* defence walks through the program of a student who hardly saved a draft.
ProcessAgrees(history, lines, runs, event) ==
  LET analysis == Analysis(history, lines, runs, 1, 2)
      timeline == Timeline(history, runs)
      more == Analysis(Append(history, event), lines, runs + 1, 2, 2)
      rank(signal) == CASE signal \in {"zero-runs", "single-burst", "rapid-velocity"} -> 0
                        [] signal \in {"single-run", "moderate-drafts", "paced-session",
                                       "tests-partial"} -> 1
                        [] OTHER -> 2
  IN /\ analysis.drafts = timeline.drafts /\ analysis.runs = timeline.runs
     /\ analysis.duration = timeline.duration
     /\ \A i \in DOMAIN analysis.signals : rank(analysis.signals[i]) <= rank(more.signals[i])
     /\ analysis.signals[2] = "single-burst" => Viva(analysis, 1, 2, None).probe = "walkthrough"

\* A model is sent a program only for its owner, with assistance enabled, within the
\* rate limit.  What is sent, and what is answered from the cache, is in the audit log
\* under the teacher and the model that answered, unless the write of its one entry
\* failed: nothing else is left out or overwritten, however requests overlap.  What a
\* teacher is shown was written about this program and practical, within the hour; and
\* there is always an answer unless the request was refused, which leaves no trace.
AiIsAccountable(cache, log, request, answers, now, written) ==
  LET asked == Request(cache, request, answers, now)
      after == LogAiGeneration(log, asked.due, written)
      mine == request.owner /\ request.enabled
      external == asked.answer.model \in {"groq", "gemini"}
  IN /\ asked.sent # {} => mine /\ request.admitted
     /\ (asked.sent # {} \/ external) /\ written =>
          /\ Len(after) = Len(log) + 1
          /\ after[Len(after)].by = request.teacher /\ after[Len(after)].model = asked.answer.model
          /\ after[Len(after)].cached = (asked.sent = {} /\ external)
     /\ \A i \in DOMAIN log : i \in DOMAIN after /\ after[i] = log[i]
     /\ external => asked.answer.about = Key(request) /\ now - asked.answer.made < Hour
     /\ asked.answer.model = "refused" <=> ~mine
     /\ ~mine => after = log /\ Remembered(cache, request, asked, now) = cache
=============================================================================
