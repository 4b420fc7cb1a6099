--------------------------- MODULE MCSchedulerOnce ---------------------------
(* Instances of SchedulerOnce for TLC.                                       *)
EXTENDS SchedulerOnce

\* One name is another with spaces around it, the rest have none.
CONSTANTS Bare, Spaced
Trimmed == [n \in Names |-> IF n = Spaced THEN Bare ELSE n]
=============================================================================
