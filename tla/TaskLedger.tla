----------------------------- MODULE TaskLedger -----------------------------
(***************************************************************************)
(* What the scheduler promises about a firing of a schedule: it is refused *)
(* or accepted by one run; an accepted firing is executed at most once, by *)
(* one worker of the run that accepted it; and workers of two runs never   *)
(* execute at the same time (the comments of service.go on double worker   *)
(* pools and on the fresh queue per run).  SchedulerPool implements it.    *)
(***************************************************************************)
CONSTANTS Firings, Runs, Workers, Nobody

VARIABLES
  entry,   \* entry[f]: "open", "accepted", "begun" or "over"
  home,    \* home[f]: the run that accepted f; meaningful once it is accepted
  hands    \* hands[f]: the run and worker that execute f, or Nobody

ledgerVars == <<entry, home, hands>>

Init ==
  /\ entry = [f \in Firings |-> "open"]
  /\ home \in [Firings -> Runs \cup {0}]
  /\ hands = [f \in Firings |-> Nobody]

\* The home of a firing is settled at the latest when it is accepted.
Settle(f) ==
  /\ entry[f] = "open"
  /\ \E r \in Runs \cup {0} : home' = [home EXCEPT ![f] = r]
  /\ UNCHANGED <<hands>>

Refuse(f) == Settle(f) /\ entry' = [entry EXCEPT ![f] = "over"]
Prepare(f) == Settle(f) /\ entry' = entry

Accept(f) ==
  /\ entry[f] = "open"
  /\ home[f] \in Runs
  /\ entry' = [entry EXCEPT ![f] = "accepted"]
  /\ UNCHANGED <<home, hands>>

Begin(f, w) ==
  /\ entry[f] = "accepted"
  /\ \A g \in Firings : entry[g] = "begun" => home[g] = home[f]
  /\ entry' = [entry EXCEPT ![f] = "begun"]
  /\ hands' = [hands EXCEPT ![f] = <<home[f], w>>]
  /\ UNCHANGED home

End(f) ==
  /\ entry[f] = "begun"
  /\ entry' = [entry EXCEPT ![f] = "over"]
  /\ hands' = [hands EXCEPT ![f] = Nobody]
  /\ UNCHANGED home

Next ==
  \E f \in Firings :
    \/ Refuse(f)
    \/ Prepare(f)
    \/ Accept(f)
    \/ \E w \in Workers : Begin(f, w)
    \/ End(f)

Spec == Init /\ [][Next]_ledgerVars
=============================================================================
