-------------------------- MODULE ExecutionContract --------------------------
(***************************************************************************)
(* What the platform promises about durable runs and submissions           *)
(* (documentation/04-ARCHITECTURE.md, "Execution and evidence boundaries", *)
(* and documentation/07-DECISIONS.md, D-012), without queue, leases or     *)
(* workers: a run is requested in an open session, is answered at most     *)
(* once, and the answer to the first SUBMIT run creates the session's only *)
(* submission and closes the session in the same step.                     *)
(***************************************************************************)
CONSTANTS Session, Job, Run, Answer, Null, NoJob

VARIABLES
  requests,   \* the requested run, by its number
  answers,    \* its stored result
  closedBy    \* the run a session was closed with

vars == <<requests, answers, closedBy>>

Init ==
  /\ requests = [j \in Job |-> Null]
  /\ answers = [j \in Job |-> Null]
  /\ closedBy = [s \in Session |-> NoJob]

Request(j, r) ==
  /\ requests[j] = Null
  /\ closedBy[r.session] = NoJob
  /\ requests' = [requests EXCEPT ![j] = r]
  /\ UNCHANGED <<answers, closedBy>>

AnswerOnce(j, a) ==
  /\ requests[j] # Null /\ answers[j] = Null
  /\ answers' = [answers EXCEPT ![j] = a]
  /\ UNCHANGED requests

\* A RUN, or a SUBMIT that comes second, leaves the session as it is.
AnswerRun(j, a) ==
  /\ AnswerOnce(j, a)
  /\ requests[j].kind = "SUBMIT" => closedBy[requests[j].session] # NoJob
  /\ UNCHANGED closedBy

AnswerSubmit(j, a) ==
  /\ AnswerOnce(j, a)
  /\ requests[j].kind = "SUBMIT" /\ closedBy[requests[j].session] = NoJob
  /\ closedBy' = [closedBy EXCEPT ![requests[j].session] = j]

Next ==
  \E j \in Job :
    \/ \E r \in Run : Request(j, r)
    \/ \E a \in Answer : AnswerRun(j, a) \/ AnswerSubmit(j, a)

Spec == Init /\ [][Next]_vars
=============================================================================
