---------------------------- MODULE RunnerServer ----------------------------
(***************************************************************************)
(* A runner service: the HTTP server that queues execution requests        *)
(* (backend/runner/java/server.ts) and the executor that runs each in a    *)
(* Docker container of its own (backend/runner/java/docker-executor.ts).   *)
(* The C++ service is the same program with other limits.                  *)
(*                                                                         *)
(* A request is a POST that passed authorization and parsing; its          *)
(* container is named by it.  A docker command is one step, whose effect   *)
(* and outcome may differ when the CLI is killed by its timeout or by the  *)
(* client's departure.  What follows in promise callbacks belongs to the   *)
(* step that settles the promise.                                          *)
(*                                                                         *)
(* Left out: what the answers of an execution say, hence the single step   *)
(* for staging, compilation and tests.                                     *)
(***************************************************************************)
EXTENDS Naturals, Sequences, FiniteSets, FiniteSetsExt

CONSTANTS
  Request,
  MaxConcurrency,   \* RUNNER_MAX_CONCURRENCY
  MaxQueueSize,     \* RUNNER_MAX_QUEUE_SIZE
  MaxLateCreates    \* bound: creations the daemon does after their CLI's end

Executing == {"create", "start", "work", "remove"}
Stage == {"none", "queued", "done"} \cup Executing

ASSUME RunnerAssumption ==
  /\ MaxConcurrency \in Nat \ {0}
  /\ MaxQueueSize \in Nat \ {0}
  /\ MaxLateCreates \in Nat

VARIABLES
  server,        \* the process: up, closing after a signal, or gone
  stage,         \* how far a request is
  queue,         \* queue of createJavaRunnerServer
  activeWorkers,
  gone,          \* requests aborted by their client's departure
  answers,       \* history: the status codes written to a response
  container,     \* what the Docker daemon has
  tracked,       \* activeContainers
  cleanup,       \* removals begun by the shutdown
  late,          \* creations the daemon has yet to do, their CLI being dead
  lateCreates

vars == <<server, stage, queue, activeWorkers, gone, answers, container, tracked,
          cleanup, late, lateCreates>>

http == <<stage, queue, activeWorkers, gone, answers>>
docker == <<container, tracked, late, lateCreates>>

Init ==
  /\ server = "up"
  /\ stage = [r \in Request |-> "none"]
  /\ queue = <<>>
  /\ activeWorkers = 0
  /\ gone = {}
  /\ answers = [r \in Request |-> <<>>]
  /\ container = [r \in Request |-> "absent"]
  /\ tracked = {}
  /\ cleanup = {}
  /\ late = {}
  /\ lateCreates = 0

-----------------------------------------------------------------------------
(* The queue *)

\* writeJson, unless the response is destroyed
Answer_NoTimeout(r, code) ==
  answers' = IF r \in gone \/ code = 504
             THEN answers ELSE [answers EXCEPT ![r] = Append(@, code)]
Answer(r, code) ==
  answers' = IF r \in gone THEN answers ELSE [answers EXCEPT ![r] = Append(@, code)]

\* The position of the first request in q whose client is still there.
FirstLive(q) == Min({i \in DOMAIN q : q[i] \notin gone} \cup {Len(q) + 1})

HasRoom_OneLess(n) == n + 1 < MaxConcurrency
HasRoom(n) == n < MaxConcurrency

\* processNext, called with queue q, n active workers, stages st and tracked
\* containers tr.  A task whose client is gone returns at once, its `finally`
\* calling processNext again.
ProcessNext(q, n, st, tr) ==
  LET i == FirstLive(q)
      skipped == {q[j] : j \in 1 .. i - 1}
      started == {q[j] : j \in {i} \cap DOMAIN q}
  IN  IF HasRoom(n)
      THEN /\ queue' = SubSeq(q, i + 1, Len(q))
           /\ activeWorkers' = n + Cardinality(started)
           /\ stage' = [r \in Request |-> IF r \in skipped THEN "done"
                                          ELSE IF r \in started THEN "create" ELSE st[r]]
           /\ tracked' = tr \cup started
      ELSE /\ queue' = q
           /\ activeWorkers' = n
           /\ stage' = st
           /\ tracked' = tr

Arrive(r) ==
  /\ server = "up"
  /\ stage[r] = "none"
  /\ IF Len(queue) >= MaxQueueSize
     THEN /\ stage' = [stage EXCEPT ![r] = "done"]
          /\ Answer(r, 503)
          /\ UNCHANGED <<queue, activeWorkers, tracked>>
     ELSE /\ ProcessNext(Append(queue, r), activeWorkers,
                         [stage EXCEPT ![r] = "queued"], tracked)
          /\ UNCHANGED answers
  /\ UNCHANGED <<server, gone, container, cleanup, late, lateCreates>>

\* QUEUE_TIMEOUT: queue.splice(queue.indexOf(wrappedTask), 1)
Dequeued_Kept(r) == queue
Dequeued(r) ==
  LET i == CHOOSE i \in DOMAIN queue : queue[i] = r
  IN  SubSeq(queue, 1, i - 1) \o SubSeq(queue, i + 1, Len(queue))

TimeOut(r) ==
  /\ stage[r] = "queued"
  /\ queue' = Dequeued(r)
  /\ stage' = [stage EXCEPT ![r] = "done"]
  /\ Answer(r, 504)
  /\ UNCHANGED <<server, activeWorkers, gone, docker, cleanup>>

\* abortExecution: the entry of a queued request stays where it is.
Disconnect(r) ==
  /\ stage[r] \notin {"none", "done"}
  /\ r \notin gone
  /\ gone' = gone \cup {r}
  /\ UNCHANGED <<server, stage, queue, activeWorkers, answers, docker, cleanup>>

-----------------------------------------------------------------------------
(* executeJavaInDocker *)

GoTo(r, st) ==
  /\ stage' = [stage EXCEPT ![r] = st]
  /\ UNCHANGED <<server, queue, activeWorkers, gone, answers, tracked, cleanup>>

Become(r, c) == container' = [container EXCEPT ![r] = c]

\* docker create.  A killed CLI does not say whether the daemon created the
\* container, nor whether it still will.
Proceeds_Always(r) == TRUE
Proceeds(r) == r \notin gone

Create(r) ==
  /\ stage[r] = "create"
  /\ \/ /\ Proceeds(r) /\ Become(r, "created")
        /\ GoTo(r, "start")
        /\ UNCHANGED <<late, lateCreates>>
     \/ /\ Become(r, "created") \/ UNCHANGED container
        /\ GoTo(r, "remove")
        /\ UNCHANGED <<late, lateCreates>>
     \/ /\ lateCreates < MaxLateCreates
        /\ lateCreates' = lateCreates + 1
        /\ late' = late \cup {r}
        /\ GoTo(r, "remove")
        /\ UNCHANGED container

\* docker start
Start(r) ==
  /\ stage[r] = "start"
  /\ \/ /\ Proceeds(r) /\ container[r] = "created"
        /\ Become(r, "running")
        /\ GoTo(r, "work")
     \/ /\ \/ container[r] = "created" /\ Become(r, "running")
           \/ UNCHANGED container
        /\ GoTo(r, "remove")
  /\ UNCHANGED <<late, lateCreates>>

\* The docker exec commands: whatever they report, removal is next.
Work(r) ==
  /\ stage[r] = "work"
  /\ GoTo(r, "remove")
  /\ UNCHANGED <<container, late, lateCreates>>

\* docker rm --force.  It may fail, with or without having removed the
\* container.
Untracked_Always(r, removed) == tracked \ {r}
Untracked(r, removed) == IF removed THEN tracked \ {r} ELSE tracked

RemoveContainer(r, removed) ==
  Become(r, "absent") \/ (~removed /\ UNCHANGED container)

\* nextTask().finally
Released(n) == n - 1

\* The `finally` of the executor, the answer, and the end of the worker's task.
\* 200 stands also for the 500 that follows when the command cannot be spawned.
Remove(r) ==
  /\ stage[r] = "remove"
  /\ Answer(r, 200)
  /\ \E removed \in BOOLEAN :
       /\ RemoveContainer(r, removed)
       /\ ProcessNext(queue, Released(activeWorkers), [stage EXCEPT ![r] = "done"],
                      Untracked(r, removed))
  /\ UNCHANGED <<server, gone, cleanup, late, lateCreates>>

-----------------------------------------------------------------------------
(* Shutdown and the environment *)

\* SIGINT, SIGTERM
Shutdown ==
  /\ server = "up"
  /\ server' = "closing"
  /\ cleanup' = tracked
  /\ UNCHANGED <<http, docker>>

\* cleanupActiveJavaContainers
CleanUp(r) ==
  /\ r \in cleanup
  /\ cleanup' = cleanup \ {r}
  /\ \E removed \in BOOLEAN :
       /\ RemoveContainer(r, removed)
       /\ tracked' = Untracked(r, removed)
  /\ UNCHANGED <<server, http, late, lateCreates>>

\* The process ends abruptly, whether a command under way takes effect or not.
AfterKill(r) ==
  {container[r]}
  \cup (IF stage[r] = "create" THEN {"created"} ELSE {})
  \cup (IF stage[r] = "start" /\ container[r] = "created" THEN {"running"} ELSE {})
  \cup (IF stage[r] = "remove" \/ r \in cleanup THEN {"absent"} ELSE {})

Kill ==
  /\ server # "gone"
  /\ server' = "gone"
  /\ container' \in {c \in [Request -> {"absent", "created", "running"}] :
                       \A r \in Request : c[r] \in AfterKill(r)}
  /\ gone' = {}
  /\ stage' = [r \in Request |-> IF stage[r] = "none" THEN "none" ELSE "done"]
  /\ queue' = <<>>
  /\ activeWorkers' = 0
  /\ tracked' = {}
  /\ cleanup' = {}
  /\ UNCHANGED <<answers, late, lateCreates>>

\* A creation overtaken by the end of its CLI takes effect.
CreatedLate(r) ==
  /\ r \in late
  /\ late' = late \ {r}
  /\ Become(r, "created")
  /\ UNCHANGED <<server, http, tracked, cleanup, lateCreates>>

\* `sleep`, the container's command, ends; the container has --rm.
LifetimeEnds(r) ==
  /\ container[r] = "running"
  /\ Become(r, "absent")
  /\ UNCHANGED <<server, http, tracked, cleanup, late, lateCreates>>

-----------------------------------------------------------------------------
Command(r) == Create(r) \/ Start(r) \/ Work(r) \/ Remove(r)

Next ==
  \/ \E r \in Request :
       \/ Arrive(r) \/ TimeOut(r) \/ Disconnect(r) \/ Command(r)
       \/ CleanUp(r) \/ CreatedLate(r) \/ LifetimeEnds(r)
  \/ Shutdown
  \/ Kill

Spec == Init /\ [][Next]_vars

\* Docker commands are killed after their timeouts, the queue's timer fires and
\* containers end; nothing makes clients come or go, or signals arrive.
Fairness ==
  \A r \in Request :
    /\ WF_vars(Command(r))
    /\ WF_vars(TimeOut(r))
    /\ WF_vars(LifetimeEnds(r))

FairSpec == Spec /\ Fairness

-----------------------------------------------------------------------------
TypeOK ==
  /\ server \in {"up", "closing", "gone"}
  /\ stage \in [Request -> Stage]
  /\ queue \in Seq(Request)
  /\ activeWorkers \in Nat
  /\ gone \subseteq Request
  /\ answers \in [Request -> Seq({200, 503, 504})]
  /\ container \in [Request -> {"absent", "created", "running"}]
  /\ tracked \subseteq Request /\ cleanup \subseteq Request
  /\ late \subseteq Request
  /\ lateCreates \in Nat

\* The counter and the queue agree with the requests: never more executions than
\* workers nor more waiting requests than places, and no entry without a request.
\* No request waits while a worker is free, although departed clients leave their
\* entries in the queue and tasks end in any order.
BooksExact ==
  /\ activeWorkers = Cardinality({r \in Request : stage[r] \in Executing})
  /\ activeWorkers <= MaxConcurrency
  /\ {queue[i] : i \in DOMAIN queue} = {r \in Request : stage[r] = "queued"}
  /\ Len(queue) = Cardinality({r \in Request : stage[r] = "queued"})
  /\ Len(queue) <= MaxQueueSize
  /\ queue # <<>> => activeWorkers = MaxConcurrency

\* A response is written once, and one that refuses the request (queue full,
\* waited too long) is the truth: no container was ever made for it.
AnsweredOnce ==
  \A r \in Request :
    /\ Len(answers[r]) <= 1
    /\ answers[r] # <<>> => stage[r] = "done"
    /\ answers[r] \in {<<503>>, <<504>>} =>
         r \notin tracked \cup late /\ container[r] = "absent"

\* While the server is up, it knows every container that exists or may come to
\* exist, for the shutdown to remove, also after a removal failed; except one for
\* each creation that took effect after the end of its CLI.
ContainersTracked ==
  server = "up" =>
    /\ \A r \in Request : stage[r] \in Executing => r \in tracked
    /\ Cardinality({r \in Request : container[r] # "absent"} \ tracked)
         <= lateCreates - Cardinality(late)

\* Once its client is gone a request only gets cleaned up.
NoWorkForTheGone ==
  [][\A r \in gone : stage'[r] \in {stage[r], "remove", "done"}]_vars

\* A request that waits or runs is answered, unless its client leaves or the
\* process ends.
EveryoneAnswered ==
  \A r \in Request :
    stage[r] \in {"queued"} \cup Executing
      ~> answers[r] # <<>> \/ r \in gone \/ server = "gone"
=============================================================================
