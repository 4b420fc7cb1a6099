--------------------------- MODULE MCSchedulerDefs ---------------------------
(* Instances of SchedulerDefs for TLC.                                       *)
EXTENDS SchedulerDefs

\* append doubles the capacity of the array it leaves: 0, 1, 2, 4, ...
Doubled == [g \in 1 .. MaxAdds + 1 |-> IF g = 1 THEN 0 ELSE 2 ^ (g - 2)]

\* One name is another with spaces around it, the rest have none.
CONSTANTS Bare, Spaced
Trimmed == [n \in Names |-> IF n = Spaced THEN Bare ELSE n]
=============================================================================
