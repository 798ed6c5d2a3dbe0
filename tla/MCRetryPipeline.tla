-------------------------- MODULE MCRetryPipeline --------------------------
(***************************************************************************)
(* Instances of RetryPipeline for TLC.                                     *)
(***************************************************************************)
EXTENDS RetryPipeline, TLC

\* Events are interchangeable, and so are the workers.
Symmetry == Permutations(Events) \cup Permutations(Workers)
=============================================================================
