------------------------- MODULE ExecutionRefinement -------------------------
(***************************************************************************)
(* The queue keeps the promises of ExecutionContract: its run attempts are *)
(* the requests, the result snapshots the answers, and the submission      *)
(* names the run a session was closed with.  Everything else of the queue  *)
(* (rows, leases, retries, crashes, tasks) is stuttering.                  *)
(***************************************************************************)
EXTENDS ExecutionQueue

Contract ==
  INSTANCE ExecutionContract WITH
    requests <- run, answers <- snapshot, closedBy <- submission,
    Answer <- Result \cup {InternalError}

\* Each step of the queue is a step of the contract or changes none of what it
\* speaks about: no run is answered twice or before it was requested, none is
\* requested in a closed session, and a SUBMIT answer and the submission come
\* in one step (processClaimedExecutionJob, enqueueStudentExecution).
KeepsContract == Contract!Spec
=============================================================================
