-------------------------- MODULE MCExecutionQueue --------------------------
(* Small instances of ExecutionQueue and ExecutionRefinement for TLC. *)
EXTENDS ExecutionRefinement, TLC

\* Sources, results, handlers and workers are interchangeable: no action and
\* no invariant tells two of them apart.  (Not for the liveness run.)
Symmetry ==
  Permutations(Source) \cup Permutations(Result) \cup Permutations(Handler)
  \cup Permutations(Worker)

\* Bound: all requests of an instance are about one source, while drafts of another
\* one may be saved in between.
OneSource ==
  \A v, w \in {run[j].source : j \in Created} \cup {handler[h].source : h \in Handler} :
    v = w \/ v = Null \/ w = Null
=============================================================================
