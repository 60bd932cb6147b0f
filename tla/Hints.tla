-------------------------------- MODULE Hints --------------------------------
(***************************************************************************)
(* What a hint is made of and who is told what of it: the generator and    *)
(* the leakage guard (backend/server/hints), the student's panel and the   *)
(* teacher's roster.  Classroom has the order of requests and rows.        *)
(*                                                                         *)
(* A text is the set of what the guard looks for in it:                    *)
(*   "boilerplate"   int main(, a class, an include or an import,          *)
(*   "fence", "longFence"        code in a fence, of more than 3 lines,    *)
(*   "statement", "function", "longFunction".                              *)
(* A session has the student's override and the class's policy (None, TRUE *)
(* or FALSE), the levels of the hints stored, the practical (title, topic  *)
(* and visible tests) and the latest run (None, or state, error, tests).   *)
(***************************************************************************)
EXTENDS Naturals, Sequences, FiniteSets

CONSTANT None

\* getEffectiveStudentHintPermission
Allowed(override, policy) ==
  IF override # None THEN override ELSE policy # None /\ policy

-----------------------------------------------------------------------------
(* Generating a hint.  A definition with a suffix is a mistake the code     *)
(* could have made in place of the one it precedes.                         *)

Hint(level, category, text) == [level |-> level, category |-> category, text |-> text]

\* buildHintContext looks for results by position; what is stored of a result has none.
FailedVisible(task, run) ==
  IF run = None THEN {}
  ELSE {i \in DOMAIN task.tests : \E j \in DOMAIN run.tests :
          run.tests[j].position = i /\ ~run.tests[j].passed}

Broken(run) == run # None /\ run.state \in {"RUNTIME_ERROR", "TIME_LIMIT_EXCEEDED"}
NotCompiled(run) == run # None /\ run.state = "COMPILATION_ERROR"

Nudge(task, run) ==
  IF NotCompiled(run) THEN Hint(1, "compiler-error", {})
  ELSE IF task.topic = "brackets" THEN Hint(1, "data-structure", {})
  ELSE Hint(1, "conceptual", IF task.topic \in {"pairs", "hashes"} THEN {} ELSE task.title)

Diagnosis(task, run) ==
  IF NotCompiled(run) /\ run.error # None THEN Hint(2, "compiler-error", run.error)
  ELSE IF Broken(run) /\ run.error # None THEN Hint(2, "runtime-error", {})
  ELSE Hint(2, IF FailedVisible(task, run) # {} THEN "boundary-condition" ELSE "loop-condition", {})

\* generateHint: what is told is the teacher's title at level 1 and the first line of
\* the compiler's message at level 2; the rest is text of the generator.
Generated(task, run, level) ==
  CASE level = 1 -> Nudge(task, run)
    [] level = 2 -> Diagnosis(task, run)
    [] OTHER -> Hint(3, "structural", {})

\* verifyNoSolutionLeakage
Safe(text, level) ==
  /\ "boilerplate" \notin text
  /\ level = 1 => text \cap {"fence", "longFence", "statement"} = {}
  /\ level = 2 => text \cap {"longFence", "longFunction"} = {}
  /\ level = 3 => "function" \notin text

-----------------------------------------------------------------------------
(* Asking for one.                                                          *)

\* getStudentHintWorkspaceState: the rows come in the order of their levels.
CurrentLevel(session) ==
  IF session.levels = <<>> THEN 0
  ELSE CHOOSE l \in 1 .. 3 : /\ \E i \in DOMAIN session.levels : session.levels[i] = l
                             /\ \A i \in DOMAIN session.levels : session.levels[i] <= l
WorkspaceState(session) ==
  LET allowed == Allowed(session.override, session.policy) IN
  [allowed |-> allowed, current |-> CurrentLevel(session),
   canRequest |-> allowed /\ CurrentLevel(session) < 3, hints |-> Len(session.levels)]

\* requestSocraticHintForSession: refused, or the level given.
NextLevel(session) == Len(session.levels) + 1
Refused(session) ==
  \/ ~Allowed(session.override, session.policy)
  \/ NextLevel(session) > 3
  \/ ~Safe(Generated(session.task, session.run, NextLevel(session)).text, NextLevel(session))
Stored(session, n) ==
  [session EXCEPT !.levels = @ \o [i \in 1 .. n |-> NextLevel(session)]]

\* fetchWorkspaceHintStateAction, requestWorkspaceHintAction
Answered(session) ==
  IF Refused(session) THEN [ok |-> FALSE]
  ELSE [ok |-> TRUE, state |-> WorkspaceState(Stored(session, 1))]

\* StudentHintPanel
Panel(state) ==
  IF state = None \/ ~state.allowed THEN [view |-> "locked"]
  ELSE IF state.canRequest
  THEN [view |-> "open", used |-> state.current, button |-> state.current + 1]
  ELSE [view |-> "usedUp", used |-> state.current]
AfterAnswer(state, answer) == IF answer.ok THEN answer.state ELSE state

-----------------------------------------------------------------------------
(* The teacher's roster (StudentTable) and its two switches.                *)

\* getClassroomHintOverview
Overview(class) ==
  [classDefault |-> class.policy # None /\ class.policy, permissions |-> class.overrides]
OnRoster(overview, s) ==
  IF overview.permissions[s] # None THEN overview.permissions[s] ELSE overview.classDefault

\* StudentHintToggle, ClassroomHintPolicyControls
ToggledStudent(class, s) == [class EXCEPT !.overrides[s] = ~OnRoster(Overview(class), s)]
ToggledPolicy(class) == [class EXCEPT !.policy = ~Overview(class).classDefault]

-----------------------------------------------------------------------------
\* The panel offers what a request gives: where each request saw the hints of those
\* before it, its button is for the level that comes next, it has one as long as one of
\* the three is left, and the request fails only when the practical's title or the
\* compiler's message has code in it.  After requests that saw the same hints the panel
\* is behind: its button may name a lower level than the one it gets, or be refused when
\* three hints are stored; it never hides a level that is left or names one too high.
OfferIsKept(session) ==
  LET state == WorkspaceState(session)
      panel == Panel(state)
      after == Panel(AfterAnswer(state, Answered(session)))
      next == NextLevel(session)
      ordered == \A i \in DOMAIN session.levels : session.levels[i] = i
      quoted == session.task.title \cup (IF NotCompiled(session.run) /\ session.run.error # None
                                         THEN session.run.error ELSE {})
  IN /\ (panel.view = "locked") = ~Allowed(session.override, session.policy)
     /\ panel.view = "open" => panel.button <= next /\ (ordered => panel.button = next)
     /\ panel.view = "usedUp" => next > 3
     /\ ~Refused(session) => after.used = next /\ panel.view = "open"
     /\ panel.view = "open" /\ Refused(session) =>
          /\ after = panel
          /\ IF next > 3 THEN ~ordered ELSE quoted # {} /\ next \in {1, 2}
     /\ \A i \in DOMAIN session.levels : session.levels[i] \in 1 .. 3

\* The switch of a student says and changes what the server decides for that student,
\* the switch of the class for those without a switch of their own.
RosterIsHonest(class) ==
  LET may(c, s) == Allowed(c.overrides[s], c.policy)
      students == DOMAIN class.overrides
  IN \A s \in students :
       /\ OnRoster(Overview(class), s) = may(class, s)
       /\ may(ToggledStudent(class, s), s) = ~may(class, s)
       /\ \A t \in students \ {s} : may(ToggledStudent(class, s), t) = may(class, t)
       /\ may(ToggledPolicy(class), s) =
            IF class.overrides[s] = None THEN ~may(class, s) ELSE may(class, s)
=============================================================================
