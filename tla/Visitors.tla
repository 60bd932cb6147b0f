------------------------------- MODULE Visitors -------------------------------
(***************************************************************************)
(* Where a visitor of the web process gets: whom it takes them for         *)
(* (backend/server/actors), what each page of frontend/app answers - it    *)
(* shows something, sends them on, or fails -, the account setup, and the  *)
(* shell around the pages with the role it shows.                          *)
(*                                                                         *)
(* env is the environment: identity (LABRIX_IDENTITY_MODE), production,    *)
(* allowDemo.  A visitor has a session with the identity provider          *)
(* ("none", "invalid" or "user"), an account linked to it (None, or a      *)
(* status and a role) and the role stored by the demo's switch.  Whether   *)
(* a classroom or practical may be seen is left to the other modules.      *)
(***************************************************************************)
EXTENDS Naturals, FiniteSets

CONSTANT None

\* resolveIdentityMode, getIdentityMode: unset is the demo, anything unknown Clerk.
IdentityMode(env) ==
  IF env.identity \notin {"demo", "unset"} THEN "clerk"
  ELSE IF env.production /\ ~env.allowDemo THEN "forbidden" ELSE "demo"

-----------------------------------------------------------------------------
(* The current actor.  A definition with a suffix is a mistake the code     *)
(* could have made in place of the one it precedes.                         *)

Actor(role, source) == [error |-> None, role |-> role, source |-> source]
NoActor(error) == [error |-> error, role |-> None, source |-> None]

\* resolveSeededActor: also without such a user there is an actor.
SeededActor(role) == Actor(role, "seeded-demo-session")

\* resolveCurrentActor
CurrentActor(env, v, demoRole) ==
  IF IdentityMode(env) = "forbidden" THEN NoActor("configuration")
  ELSE IF IdentityMode(env) = "demo" THEN SeededActor(demoRole)
  ELSE IF v.session = "none" THEN NoActor("unauthenticated")
  ELSE IF v.session = "invalid" THEN NoActor("invalid")
  ELSE IF v.account = None THEN NoActor("unlinked")
  ELSE IF v.account.status = "DISABLED" THEN NoActor("disabled")
  ELSE Actor(v.account.role, "external-identity")

\* requireActorRole
RequireRole(actor, role) ==
  IF actor.error = None /\ role \notin {None, actor.role} THEN NoActor("denied") ELSE actor

-----------------------------------------------------------------------------
(* What a page answers: it settles with content and a shell, or sends the   *)
(* visitor to another page, with the role they wanted, if any.              *)

At(page, intent) ==
  [page |-> page, intent |-> intent, settled |-> FALSE, content |-> None, shell |-> None]
Shows(page, intent) == [At(page, intent) EXCEPT !.settled = TRUE]
Fails == Shows("error", None)

\* actorErrorDestination
ErrorPage(error) ==
  CASE error = "unauthenticated" -> "sign-in" [] error = "unlinked" -> "unlinked-account"
    [] error = "disabled" -> "disabled-account" [] error \in {"invalid", "denied"} -> "unauthorized"
    [] OTHER -> "error"

\* postSignInErrorDestination
PostSignInPage_Plain(error, intent) == At(ErrorPage(error), intent)
PostSignInPage(error, intent) ==
  CASE error = "unauthenticated" -> At("sign-in", intent)
    [] error = "unlinked" -> At("account-setup", intent)
    [] error = "disabled" -> At("disabled-account", None)
    [] error = "invalid" -> At("unauthorized", None)
    [] OTHER -> Fails

\* AuthCompletePage
AuthComplete(env, v, intent) ==
  LET actor == CurrentActor(env, v, "TEACHER") IN
  IF actor.error # None THEN PostSignInPage(actor.error, intent)
  ELSE IF intent \notin {None, actor.role} THEN At("account-setup", intent)
  ELSE At("dashboard", None)

\* SignInPage, SignUpPage, AccountSetupPage
InClerkOnly(env, page, intent) ==
  CASE IdentityMode(env) = "forbidden" -> Fails
    [] IdentityMode(env) = "demo" -> At("dashboard", None)
    [] OTHER -> Shows(page, intent)
SignIn(env, intent) == InClerkOnly(env, "sign-in", intent)
SignUp(env, intent) == InClerkOnly(env, "sign-up", intent)
AccountSetup(env, intent) == InClerkOnly(env, "account-setup", intent)

\* UnlinkedAccountPage
UnlinkedAccount(env, v) ==
  LET actor == CurrentActor(env, v, "TEACHER") IN
  IF actor.error = "configuration" THEN Fails
  ELSE IF IdentityMode(env) = "demo" THEN Shows("unlinked-account", None)
  ELSE At(CASE actor.error = None -> "classes" [] actor.error = "unlinked" -> "account-setup"
            [] OTHER -> ErrorPage(actor.error), None)

\* The middleware takes visitors of the demo away from signing in and up.
Proxied(env, page) == env.identity = "demo" /\ page \in {"sign-in", "sign-up"}

-----------------------------------------------------------------------------
(* The pages with work: the actor each asks for in the demo, the role it    *)
(* requires, and whether it shows the demo both roles' content (a bridge).  *)

Work(demo, requires, bridges) == [demo |-> demo, requires |-> requires, bridges |-> bridges]

DashboardPage == Work("TEACHER", None, TRUE)
ClassesPage == Work("TEACHER", None, TRUE)
ClassroomPage == Work("TEACHER", None, TRUE)
PracticalsOverviewPage == Work("TEACHER", None, TRUE)
SubmissionsPage == Work("TEACHER", None, TRUE)
TeacherProgressPage == Work("TEACHER", None, TRUE)
ClassroomStudentsPage == Work("TEACHER", "TEACHER", FALSE)
ClassroomPulseRoute == Work("TEACHER", "TEACHER", FALSE)
NewTaskPage == Work("TEACHER", "TEACHER", FALSE)
EditPracticalPage == Work("TEACHER", "TEACHER", FALSE)
TaskWorkspacePage == Work("STUDENT", "STUDENT", FALSE)
StudentPracticalPage == Work("STUDENT", "STUDENT", FALSE)
SubmissionReviewPage(view) == Work(IF view = "student" THEN "STUDENT" ELSE "TEACHER", None, FALSE)

WorkPages ==
  [dashboard |-> DashboardPage, classes |-> ClassesPage, classroom |-> ClassroomPage,
   practicals |-> PracticalsOverviewPage, submissions |-> SubmissionsPage,
   progress |-> TeacherProgressPage, students |-> ClassroomStudentsPage,
   pulse |-> ClassroomPulseRoute, newTask |-> NewTaskPage, editPractical |-> EditPracticalPage,
   task |-> TaskWorkspacePage, practical |-> StudentPracticalPage,
   submission |-> SubmissionReviewPage(None), ownSubmission |-> SubmissionReviewPage("student")]

\* resolveCurrentActorForPage
PageActor(env, v, work) == RequireRole(CurrentActor(env, v, work.demo), work.requires)

\* supportsDemoRolePreview, getStoredDemoRole
RolePreview == {"dashboard", "classes", "practicals", "submissions", "progress", "classroom"}
StoredRole(v) == IF v.stored = "student" THEN "STUDENT" ELSE "TEACHER"

\* DemoShell: the role chosen
ChosenRole(env, v, actor) == IF IdentityMode(env) = "clerk" THEN actor.role ELSE StoredRole(v)

\* AppShell: the role of the navigation and of useDemoRole
ShellRole(env, v, page, actor) ==
  IF IdentityMode(env) = "demo" /\ page \in RolePreview
  THEN ChosenRole(env, v, actor) ELSE actor.role

\* RoleContentBridge, MyClassesBridge, ClassroomOverviewBridge
Bridge(env, v, page, actor) ==
  IF WorkPages[page].bridges /\ actor.source = "seeded-demo-session"
  THEN ShellRole(env, v, page, actor)
  ELSE IF WorkPages[page].requires # None THEN WorkPages[page].requires ELSE actor.role

Worked(env, v, page) ==
  LET actor == PageActor(env, v, WorkPages[page]) IN
  IF actor.error = None
  THEN [Shows(page, None) EXCEPT !.content = Bridge(env, v, page, actor),
                                 !.shell = ShellRole(env, v, page, actor)]
  ELSE IF IdentityMode(env) = "clerk" /\ ErrorPage(actor.error) # "error"
  THEN At(ErrorPage(actor.error), None) ELSE Fails

Pages == DOMAIN WorkPages \cup {"root", "sign-in", "sign-up", "auth-complete", "account-setup",
                                "unlinked-account", "disabled-account", "unauthorized"}

RootPage == At("dashboard", None)

Visit(env, v, at) ==
  IF Proxied(env, at.page) THEN At("dashboard", None) ELSE
  CASE at.page = "root" -> RootPage
    [] at.page = "sign-in" -> SignIn(env, at.intent)
    [] at.page = "sign-up" -> SignUp(env, at.intent)
    [] at.page = "auth-complete" -> AuthComplete(env, v, at.intent)
    [] at.page = "account-setup" -> AccountSetup(env, at.intent)
    [] at.page = "unlinked-account" -> UnlinkedAccount(env, v)
    [] at.page \in DOMAIN WorkPages -> Worked(env, v, at.page)
    [] OTHER -> Shows(at.page, None)

\* Where a visitor is after at most four redirects.
Onward(env, v, at) == IF at.settled THEN at ELSE Visit(env, v, at)
Follow(env, v, at) == Onward(env, v, Onward(env, v, Onward(env, v, Onward(env, v, at))))

\* teacherNavigation, studentNavigation: two names for one set of links.
Navigation == {"dashboard", "classes", "practicals", "submissions", "progress"}

\* submitRoleOnboarding, the form of the account setup: who sends it and where they get.
\* answer is what the identity provider and the database say: the primary address is
\* verified and all goes well, it is not, the session is over meanwhile ("gone"), nothing
\* comes back, the address is that of a disabled account ("owned", asked only of those
\* without an account), or the transaction fails or conflicts.
Answers == {"verified", "unverified", "gone", "unanswered", "owned", "failed"}
SubmitRole(env, v, role, answer) ==
  LET to(at) == [visitor |-> v, at |-> at]
      message == Shows("account-setup", role)
      linked == v.account # None
  IN IF IdentityMode(env) = "forbidden" THEN to(Fails)
     ELSE IF IdentityMode(env) = "demo" THEN to(message)
     ELSE IF v.session = "none" \/ answer = "gone" THEN to(At("sign-in", role))
     ELSE IF answer = "unanswered" THEN to(Fails)
     ELSE IF answer \in {"unverified", "failed"} \/ v.session = "invalid" THEN to(message)
     ELSE IF (linked /\ v.account.status = "DISABLED") \/ (~linked /\ answer = "owned")
     THEN to(At("disabled-account", None))
     ELSE [visitor |-> [v EXCEPT !.account = [status |-> "ACTIVE", role |-> role]],
           at |-> At("dashboard", None)]

-----------------------------------------------------------------------------
\* No redirects go in circles, and none of them fails unless the environment is
\* forbidden; who sees work has an active account and sees that of their own role,
\* in a shell of the same role, whose links open; and who signs in for a role gets
\* to the dashboard of that role, after the account setup if there is one to do.  If
\* the setup is refused or fails they end on its page, or where they are told why, with
\* the account they had: with none, if they had none.
Arrives(env, v, intents) ==
  LET from(page, intent) == Follow(env, v, At(page, intent))
      clerk == IdentityMode(env) = "clerk"
      dashboard(end, role) == end.page = "dashboard" /\ end.content = role
  IN /\ \A page \in Pages, intent \in intents :
          LET end == from(page, intent) IN
          /\ end.settled /\ (end.page = "error" => IdentityMode(env) = "forbidden")
          /\ end.page \in DOMAIN WorkPages =>
               /\ end.content = end.shell
               /\ clerk => /\ v.session = "user" /\ v.account # None /\ v.account.status = "ACTIVE"
                           /\ end.content = v.account.role
               /\ \A link \in Navigation :
                    /\ from(link, None).page = link
                    /\ clerk => from(link, None).content = end.content
     /\ clerk /\ v.session = "user" => \A role \in intents \ {None} :
          LET first == from("auth-complete", role) IN
          \/ dashboard(first, role)
          \/ first.page = "disabled-account" /\ v.account.status = "DISABLED"
          \/ /\ first.page = "account-setup" /\ first.intent = role
             /\ \A answer \in Answers :
                  LET setup == SubmitRole(env, v, role, answer)
                      end == Follow(env, setup.visitor, setup.at)
                  IN \/ dashboard(end, role)
                     \/ /\ answer # "verified" /\ setup.visitor = v
                        /\ CASE answer = "gone" -> end.page = "sign-in"
                             [] answer = "unanswered" -> end.page = "error"
                             [] answer = "owned" -> end.page = "disabled-account" /\ v.account = None
                             [] OTHER -> end.page = "account-setup" /\ end.intent = role
=============================================================================
