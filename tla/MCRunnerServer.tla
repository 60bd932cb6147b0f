--------------------------- MODULE MCRunnerServer ---------------------------
(* Small instances of RunnerServer for TLC. *)
EXTENDS RunnerServer, TLC

\* Requests are interchangeable (not for the runs that check liveness).
Symmetry == Permutations(Request)
=============================================================================
