------------------------------- MODULE MCAccess -------------------------------
(***************************************************************************)
(* Small instances of Identity and Classroom for TLC.  The two share       *)
(* nothing but the ids of students, so that an interleaving of their steps *)
(* says nothing about either: TLC explores one, and then the other.        *)
(***************************************************************************)
EXTENDS Classroom, Identity

VARIABLE part    \* what is explored: "accounts" or "classroom"

MCInit ==
  /\ Init /\ code = CHOOSE c \in Code : TRUE
  /\ \/ /\ part = "accounts" /\ AccountsInit
        /\ rules = [active |-> TRUE, open |-> TRUE]
     \/ /\ part = "classroom"
        /\ account = [u \in User |-> None] /\ identity = [s \in Subject |-> None]
        /\ profile = [s \in Subject |-> None] /\ event = {}
        /\ handling = [h \in Handler |-> Free]

MCNext ==
  /\ \/ part = "accounts" /\ AccountsNext /\ UNCHANGED vars
     \/ part = "classroom" /\ Next /\ UNCHANGED accounts_vars
  /\ UNCHANGED part

MCSpec == MCInit /\ [][MCNext]_<<vars, accounts_vars, part>>

\* Students, requests, accounts, subjects and addresses are interchangeable.
Symmetry ==
  Permutations(Student) \cup Permutations(Request) \cup Permutations(User)
    \cup Permutations(Subject) \cup Permutations(Email) \cup Permutations(Handler)
=============================================================================
