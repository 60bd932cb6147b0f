------------------------ MODULE MCPracticalLifecycle ------------------------
(* Small instances of PracticalLifecycle for TLC. *)
EXTENDS PracticalLifecycle

\* No rubric, and one that fits the maximum 2 but not the maximum 1.
SmallRubrics == {<<>>, <<1, 1>>}

\* Students, requests and reviewers are interchangeable.
Symmetry ==
  Permutations(Student) \cup Permutations(Request)
    \cup Permutations(Reviewer) \cup Permutations(Tests)
=============================================================================
