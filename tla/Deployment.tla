------------------------------ MODULE Deployment ------------------------------
(***************************************************************************)
(* Which environments the web process calls valid (env-validator.ts), and  *)
(* when its health pages call it healthy (frontend/app/api/health).        *)
(*                                                                         *)
(* An environment is one of Providers and of Visitors together, with       *)
(*   dispatch  "queued" or "inline", localReal (the demo's runtime),       *)
(*   lacks     what is not set of {"database", "keys", "webhook",          *)
(*             "shared"}: DATABASE_URL, Clerk's keys, its webhook's        *)
(*             secret, the shared store of the rate limiter.               *)
(* A world says what answers: the database, the services that are up, and  *)
(* whether a worker sent a heartbeat within 30 s.                          *)
(***************************************************************************)
EXTENDS Providers

CONSTANT None

V == INSTANCE Visitors

Docker == {"local-docker", "remote-docker"}
HostedMode(env) == env.mode \in {"judge0", "wandbox"}

-----------------------------------------------------------------------------
(* validateEnvironment *)

Supervised(env) == env.production /\ env.identity # "clerk" /\ env.allowDemo /\ env.localReal
Deployed(env) == env.production /\ ~Supervised(env)

SupportedProvider(env) ==
  \/ env.mode \in {"remote-docker", "judge0", "wandbox"}
  \/ env.mode = "local-docker" /\ (env.production => Supervised(env))

RunnerConfigured(env) ==
  /\ SupportedProvider(env)
  /\ env.mode = "judge0" => env.judgeUrl # "none" /\ env.judgeKey
  /\ env.mode \in Docker => env.javaUrl # "none" /\ env.cppUrl # "none"
  /\ env.mode = "remote-docker" => env.token

\* What is said to be missing when no runner is configured.
RunnerGaps(env) ==
  {gap \in {"provider", "url", "key", "token"} :
    \/ gap = "provider" /\ ~SupportedProvider(env)
    \/ gap = "url" /\ IF env.mode = "judge0" THEN env.judgeUrl = "none"
                      ELSE env.mode # "wandbox" /\ "none" \in {env.javaUrl, env.cppUrl}
    \/ gap = "key" /\ env.mode = "judge0" /\ ~env.judgeKey
    \/ gap = "token" /\ env.mode = "remote-docker" /\ ~env.token}

\* What everything but the runners lacks.
Gaps(env) ==
  {gap \in {"database", "keys", "webhook", "shared", "identity", "dispatch"} :
    \/ gap = "database" /\ env.lacks = gap
    \/ gap = "keys" /\ env.lacks = gap /\ env.identity = "clerk"
    \/ gap = "webhook" /\ env.lacks = gap /\ env.identity = "clerk" /\ env.production
    \/ gap = "shared" /\ env.lacks = gap /\ Deployed(env)
    \/ gap = "identity" /\ env.production /\ env.identity # "clerk"
         /\ (Deployed(env) \/ env.identity # "demo")
    \/ gap = "dispatch" /\ Deployed(env)
         /\ env.dispatch # IF HostedMode(env) THEN "inline" ELSE "queued"}

Valid(env) ==
  Gaps(env) = {} /\ (env.production /\ ~RunnerConfigured(env) => RunnerGaps(env) = {})

-----------------------------------------------------------------------------
(* The two pages: for a load balancer, and for an operator with a token.    *)

\* checkRunner, checkJudge0, checkWandbox
Connected(url, service, world) == url # "none" /\ service \in world.up
HostedUp(env, world) ==
  IF env.mode = "judge0" THEN Connected(env.judgeUrl, "judge0", world) ELSE "wandbox" \in world.up
RunnersUp(env, world) ==
  Connected(env.javaUrl, "JAVA", world) /\ Connected(env.cppUrl, "CPP", world)

\* GET /api/health
QueueEnabled(env) == Valid(env) /\ env.dispatch = "queued"
Health(env, world) ==
  /\ world.database /\ Valid(env)
  /\ IF HostedMode(env) THEN HostedUp(env, world)
     ELSE env.production /\ RunnerConfigured(env) => RunnersUp(env, world)
  /\ QueueEnabled(env) => world.workers

\* GET /api/health/details, to whom sends its token
Details(env, world) ==
  /\ world.database /\ Valid(env)
  /\ IF HostedMode(env) THEN HostedUp(env, world) ELSE RunnersUp(env, world) /\ world.workers

-----------------------------------------------------------------------------
(* The URLs the validator does not look at are what the providers demand.   *)
WellFormed(env) ==
  CASE env.mode = "remote-docker" -> env.javaUrl = "https" /\ env.cppUrl = "https"
    [] env.mode = "local-docker" ->
         env.javaUrl = "loopback" /\ env.cppUrl = "loopback" /\ LocalAllowed(env)
    [] env.mode = "judge0" -> env.judgeUrl = "https"
    [] OTHER -> env.judgeUrl \in {"none", "https"}

Languages == {"JAVA", "CPP"}

\* A valid production environment has a runner and people who must sign in, unless it
\* is the supervised demo; with URLs as the providers demand, programs of either
\* language run for real; and healthy means that they can, now.
DeploymentIsHonest(env, world) ==
  /\ env.production /\ Valid(env) =>
       /\ RunnerConfigured(env) /\ V!IdentityMode(env) # "forbidden"
       /\ Deployed(env) => V!IdentityMode(env) = "clerk"
       /\ WellFormed(env) => \A language \in Languages :
            Provider(env, language).provider \notin {"none", "simulated"}
  /\ Deployed(env) =>
       /\ Health(env, world) = Details(env, world)
       /\ Health(env, world) /\ WellFormed(env) =>
            /\ {Provider(env, language).provider : language \in Languages} \subseteq world.up
            /\ env.dispatch = "queued" => world.workers
  /\ ~HostedMode(env) /\ Details(env, world) => Health(env, world)
=============================================================================
