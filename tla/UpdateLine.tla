----------------------------- MODULE UpdateLine -----------------------------
(***************************************************************************)
(* What the way of an update promises, whatever channels, loops and queues *)
(* it is made of: the updates that wait for a handler stand in one line of *)
(* bounded length, in the order in which they arrived.  An update may be   *)
(* turned away when it arrives or leave the line without a handler, but    *)
(* never overtakes another in it and never comes twice, and each worker    *)
(* has one at a time (the first-in first-out queues of telegram.go and     *)
(* commands.go).  In which order the handlers of updates that two workers  *)
(* have taken begin is left open.  App implements it.                      *)
(***************************************************************************)
EXTENDS Naturals, SequencesExt

CONSTANTS
  Updates, Workers, None,
  Places       \* how many can wait

VARIABLES
  seen,        \* the updates that have arrived
  line,        \* those that wait for a handler, the first to arrive first
  hands        \* hands[w]: the update worker w has taken, or None

lineVars == <<seen, line, hands>>

Init ==
  /\ seen = {} /\ line = <<>>
  /\ hands = [w \in Workers |-> None]

TurnAway(u) ==
  /\ u \notin seen
  /\ seen' = seen \cup {u}
  /\ UNCHANGED <<line, hands>>

LineUp(u) ==
  /\ u \notin seen /\ Len(line) < Places
  /\ seen' = seen \cup {u}
  /\ line' = Append(line, u)
  /\ UNCHANGED hands

Leave(i) ==
  /\ line' = RemoveAt(line, i)
  /\ UNCHANGED <<seen, hands>>

Take(w) ==
  /\ hands[w] = None /\ line # <<>>
  /\ hands' = [hands EXCEPT ![w] = Head(line)]
  /\ line' = Tail(line)
  /\ UNCHANGED seen

End(w) ==
  /\ hands[w] # None
  /\ hands' = [hands EXCEPT ![w] = None]
  /\ UNCHANGED <<seen, line>>

Next ==
  \/ \E u \in Updates : TurnAway(u) \/ LineUp(u)
  \/ \E i \in DOMAIN line : Leave(i)
  \/ \E w \in Workers : Take(w) \/ End(w)

Spec == Init /\ [][Next]_lineVars
=============================================================================
