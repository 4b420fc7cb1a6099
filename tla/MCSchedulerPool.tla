--------------------------- MODULE MCSchedulerPool ---------------------------
(* Instances of SchedulerPool for TLC.                                       *)
EXTENDS SchedulerPool, TLC

\* Firings and workers are interchangeable: no action singles one out.
Symmetry == Permutations(Firings) \cup Permutations(Workers)
=============================================================================
