------------------------- MODULE SubmissionContract -------------------------
(***************************************************************************)
(* What a student may rely on when a submit request is repeated, by the    *)
(* page or by a second page (documentation/03-USER-FLOWS.md, item 7, and   *)
(* documentation/07-DECISIONS.md, D-016): a session gets one submission,   *)
(* which never changes, and every request about the session is answered    *)
(* with it or with an error.                                               *)
(***************************************************************************)
CONSTANTS Session, Entry, Key, SessionOf(_), None

VARIABLES
  submitted,   \* the submission of a session
  answers      \* the sessions whose submission answered requests with a key

vars == <<submitted, answers>>

Init ==
  /\ submitted = [s \in Session |-> None]
  /\ answers = [k \in Key |-> {}]

Answered(k) == answers' = [answers EXCEPT ![k] = @ \cup {SessionOf(k)}]

Submit(k, e) ==
  /\ submitted[SessionOf(k)] = None
  /\ submitted' = [submitted EXCEPT ![SessionOf(k)] = e]
  /\ Answered(k) \/ UNCHANGED answers

Answer(k) ==
  /\ submitted[SessionOf(k)] # None
  /\ Answered(k)
  /\ UNCHANGED submitted

Next == \E k \in Key : Answer(k) \/ \E e \in Entry : Submit(k, e)

Spec == Init /\ [][Next]_vars
=============================================================================
