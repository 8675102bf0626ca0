-------------------------- MODULE MCBackgroundJobs --------------------------
(* Instances of BackgroundJobs for TLC. *)
EXTENDS BackgroundJobs, TLC

CONSTANTS j1, j2, c1, c2

\* The callers and the jobs are interchangeable.
Interchangeable == Permutations(Jobs) \union Permutations(Callers)
=============================================================================
