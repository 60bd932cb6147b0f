----------------------------- MODULE MCAdmission -----------------------------
(* A small instance of Admission for TLC. *)
EXTENDS Admission, TLC

CONSTANTS s1, s2, s3

\* One session runs and submits, the others submit.
SmallKeys == {<<"run", s1>>, <<"submit", s1>>, <<"submit", s2>>, <<"submit", s3>>}

\* A capacity that lets nothing start, and one.
SmallCapacities == {-1, 1}

\* The sessions that submit are interchangeable.
Symmetry == Permutations({s2, s3})
=============================================================================
