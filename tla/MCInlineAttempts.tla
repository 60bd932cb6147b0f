-------------------------- MODULE MCInlineAttempts --------------------------
(***************************************************************************)
(* A small instance of InlineAttempts for TLC, with a record of which      *)
(* processes worked on a session: what holds for a single web process is   *)
(* stated of the sessions that only one ever saw.                          *)
(***************************************************************************)
EXTENDS InlineAttempts, TLC

VARIABLE worked   \* history: the processes that worked on a session

MCInit == Init /\ worked = [s \in Session |-> {}]

MCNext ==
  /\ Next
  /\ worked' = [s \in Session |->
       worked[s] \cup {call'[q].process : q \in {r \in Request : call'[r].session = s}}]

MCSpec == MCInit /\ [][MCNext]_<<vars, worked>>

Alone(s) == \A v, w \in worked[s] : v = w

\* Of a session that one process did all the work of, no request is ever answered
\* with a submission made under another key, so that a student never gets the other
\* page's, and no run is recorded once the session is closed: the in-memory guard of
\* one process suffices for both (service.ts submitStudentDraft, executeStudentDraft).
OneProcessSuffices ==
  [][/\ \A k \in Key : Alone(k[1])' => replies'[k] \subseteq Keyed(k)'
     /\ \A r \in RunId :
          (run[r] = Null /\ run'[r] # Null /\ Alone(run'[r].session))
            => status[run'[r].session] = "ACTIVE"]_<<vars, worked>>

\* Sources, processes and requests are interchangeable.
Symmetry == Permutations(Source) \cup Permutations(Process) \cup Permutations(Request)
=============================================================================
