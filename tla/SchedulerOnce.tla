--------------------------- MODULE SchedulerOnce ---------------------------
(***************************************************************************)
(* The scheduler's one-shot schedules (AddOnce, Remove and                 *)
(* rebuildOnceTimersLocked of api.go): definitions that survive a stop,    *)
(* the timers made for them, and the timers' callbacks, which may already  *)
(* have been started when somebody stops, replaces or removes their timer. *)
(*                                                                         *)
(* onceAt, onceTimeout, onceJob and onceVer always have the same keys:     *)
(* job[n] stands for the first three, 0 when n is no key.  Workers are     *)
(* SchedulerPool's: here any queue may be full, and a task that was sent   *)
(* is left to them.                                                        *)
(***************************************************************************)
EXTENDS SchedulerLifecycle, Sequences, FiniteSets, Functions

CONSTANTS
  Names,      \* names of one-shot schedules, none of them blank
  Trim,       \* Trim[n]: the name n without the spaces around it
  MaxAdds,    \* bound: number of registrations
  MaxTimers   \* bound: number of timers made

ASSUME OnceAssumption ==
  MaxAdds \in Nat /\ MaxTimers \in Nat /\ Trim \in [Names -> Names]

VARIABLES
  adds,       \* number of registrations so far; the n-th one registers job n
  job,        \* job[n]: s.onceJob[n], 0 when n has no definition
  ver,        \* ver[n]: s.onceVer[n], 0 when n has no definition
  timerOf,    \* timerOf[n]: the timer in s.timers[n], 0 when there is none
  timers      \* all timers ever made

onceVars == <<adds, job, ver, timerOf, timers>>
vars == <<lifecycleVars, onceVars>>

Jobs == 1 .. MaxAdds
TimerStates == {"armed", "stopped", "fired", "ignored", "claimed", "send", "dropped", "sent"}

\* A timer: the name, version and job it was made for, the job its callback
\* took, and whether the version of its name was deleted since (history).
Timer == [name : Names, ver : Nat, made : Jobs, state : TimerStates,
          took : Jobs \cup {0}, forgotten : BOOLEAN]

Defined == {n \in Names : job[n] # 0}

TypeOK ==
  /\ LifecycleTypeOK
  /\ adds \in 0 .. MaxAdds
  /\ job \in [Names -> Jobs \cup {0}]
  /\ ver \in [Names -> Nat]
  /\ \A n \in Names : ver[n] = 0 <=> job[n] = 0
  /\ timerOf \in [Names -> 0 .. Len(timers)]
  /\ timers \in Seq(Timer) /\ Len(timers) <= MaxTimers

Init ==
  /\ LifecycleInit
  /\ adds = 0
  /\ job = [n \in Names |-> 0]
  /\ ver = [n \in Names |-> 0]
  /\ timerOf = [n \in Names |-> 0]
  /\ timers = <<>>

---------------------------------------------------------------------------
(* Operations on timers                                                    *)

\* time.AfterFunc for the definition j, v of name n.
NewTimer(n, v, j) ==
  [name |-> n, ver |-> v, made |-> j, state |-> "armed", took |-> 0, forgotten |-> FALSE]

\* Timer.Stop on each of ts: it has no effect on a timer that has fired.
Stopped(ts) ==
  [t \in 1 .. Len(timers) |->
     IF t \in ts /\ timers[t].state = "armed" THEN [timers[t] EXCEPT !.state = "stopped"]
                                              ELSE timers[t]]

\* The definition of n is deleted, and with it the version.
Forget(tms, n) ==
  [t \in DOMAIN tms |-> IF tms[t].name = n THEN [tms[t] EXCEPT !.forgotten = TRUE] ELSE tms[t]]

---------------------------------------------------------------------------
(* AddOnce and Remove                                                      *)

\* Mutant: an upsert does not bump the version.
AddOnce_NoBump(n) ==
  /\ mu = "free"
  /\ adds < MaxAdds
  /\ Len(timers) < MaxTimers
  /\ adds' = adds + 1
  /\ job' = [job EXCEPT ![n] = adds + 1]
  /\ ver' = [ver EXCEPT ![n] = 1]
  /\ timers' = Append(Stopped({timerOf[n]}), NewTimer(n, ver'[n], adds + 1))
  /\ timerOf' = [timerOf EXCEPT ![n] = Len(timers) + 1]
  /\ UNCHANGED lifecycleVars

\* Mutant: the timer of the name is stopped after the new one was stored.
AddOnce_StopsLast(n) ==
  /\ mu = "free"
  /\ adds < MaxAdds
  /\ Len(timers) < MaxTimers
  /\ adds' = adds + 1
  /\ job' = [job EXCEPT ![n] = adds + 1]
  /\ ver' = [ver EXCEPT ![n] = @ + 1]
  /\ timers' = Append(timers, [NewTimer(n, ver'[n], adds + 1) EXCEPT !.state = "stopped"])
  /\ timerOf' = [timerOf EXCEPT ![n] = Len(timers) + 1]
  /\ UNCHANGED lifecycleVars

\* AddOnce makes a timer whether the service runs or not.
AddOnce(n) ==
  /\ mu = "free"
  /\ adds < MaxAdds
  /\ Len(timers) < MaxTimers
  /\ adds' = adds + 1
  /\ job' = [job EXCEPT ![n] = adds + 1]
  /\ ver' = [ver EXCEPT ![n] = @ + 1]
  /\ timers' = Append(Stopped({timerOf[n]}), NewTimer(n, ver'[n], adds + 1))
  /\ timerOf' = [timerOf EXCEPT ![n] = Len(timers) + 1]
  /\ UNCHANGED lifecycleVars

\* The definition of n is removed, if there is one.
Delete(n) ==
  /\ mu = "free"
  /\ n \in Defined
  /\ job' = [job EXCEPT ![n] = 0]
  /\ ver' = [ver EXCEPT ![n] = 0]
  /\ timers' = Forget(Stopped({timerOf[n]}), n)
  /\ timerOf' = [timerOf EXCEPT ![n] = 0]
  /\ UNCHANGED <<lifecycleVars, adds>>

\* Remove, as far as one-shot schedules go.  It trims the name, which AddOnce
\* does not: a schedule whose name has spaces around it cannot be removed.
Remove(n) == Delete(Trim[n])

---------------------------------------------------------------------------
(* A timer and its callback                                                *)

\* The timer is due: its callback starts and waits for s.tmu.
Fire(t) ==
  /\ timers[t].state = "armed"
  /\ timers' = [timers EXCEPT ![t].state = "fired"]
  /\ UNCHANGED <<lifecycleVars, adds, job, ver, timerOf>>

\* Mutant: the callback leaves the definition in place.
Claim_KeepsDefinition(t) ==
  LET n == timers[t].name IN
  /\ timers[t].state = "fired"
  /\ timers[t].ver = ver[n]
  /\ timers' = [timers EXCEPT ![t].state = "claimed", ![t].took = job[n]]
  /\ timerOf' = [timerOf EXCEPT ![n] = 0]
  /\ UNCHANGED <<lifecycleVars, adds, job, ver>>

\* The callback's critical section, past its check: the definition of the name
\* is deleted, its job is the one to enqueue.
Claim(t) ==
  LET n == timers[t].name IN
  /\ timers[t].state = "fired"
  /\ timers[t].ver = ver[n]
  /\ timers' = [Forget(timers, n) EXCEPT
                 ![t] = [timers[t] EXCEPT !.state = "claimed", !.took = job[n]]]
  /\ job' = [job EXCEPT ![n] = 0]
  /\ ver' = [ver EXCEPT ![n] = 0]
  /\ timerOf' = [timerOf EXCEPT ![n] = 0]
  /\ UNCHANGED <<lifecycleVars, adds>>

\* The check fails: the schedule was removed, replaced or claimed.
Ignore(t) ==
  /\ timers[t].state = "fired"
  /\ timers[t].ver # ver[timers[t].name]
  /\ timers' = [timers EXCEPT ![t].state = "ignored"]
  /\ UNCHANGED <<lifecycleVars, adds, job, ver, timerOf>>

\* The callback reads s.cfg and enqueue s.queue, each under s.mu.  A task for
\* which there is no queue is dropped.
ReadQueue(t) ==
  /\ timers[t].state = "claimed"
  /\ mu = "free"
  /\ timers' = [timers EXCEPT ![t].state = IF queue = 0 THEN "dropped" ELSE "send"]
  /\ UNCHANGED <<lifecycleVars, adds, job, ver, timerOf>>

\* It is sent, or dropped if the queue is full.
Send(t) ==
  /\ timers[t].state = "send"
  /\ \E s \in {"sent", "dropped"} : timers' = [timers EXCEPT ![t].state = s]
  /\ UNCHANGED <<lifecycleVars, adds, job, ver, timerOf>>

Callback(t) == Claim(t) \/ Ignore(t) \/ ReadQueue(t) \/ Send(t)

---------------------------------------------------------------------------
(* Start, Stop and Apply                                                   *)

\* Mutant: Start makes no timers for the definitions it finds.
Rebuild_Nothing ==
  /\ timers' = timers
  /\ timerOf' = [n \in Names |-> 0]
  /\ UNCHANGED <<adds, job, ver>>

\* rebuildOnceTimersLocked: all timers are stopped and each definition gets a
\* new one, in the order in which the map is ranged over.
Rebuild ==
  \E order \in Bijection(Defined, 1 .. Cardinality(Defined)) :
    /\ Len(timers) + Cardinality(Defined) <= MaxTimers
    /\ timers' = Stopped({timerOf[n] : n \in Names}) \o
         [i \in 1 .. Cardinality(Defined) |->
            LET n == CHOOSE m \in Defined : order[m] = i IN NewTimer(n, ver[n], job[n])]
    /\ timerOf' = [n \in Names |-> IF n \in Defined THEN Len(timers) + order[n] ELSE 0]
    /\ UNCHANGED <<adds, job, ver>>

Start == StartRun /\ Rebuild

\* Stop's part: the timers are stopped and forgotten, the definitions stay.
StopAllTimers ==
  /\ StopTimers
  /\ timers' = Stopped({timerOf[n] : n \in Names})
  /\ timerOf' = [n \in Names |-> 0]
  /\ UNCHANGED <<adds, job, ver>>

Lifecycle ==
  /\ \/ StopBegin
     \/ StopClose
     \/ StopCancel
     \/ StopHalt
     \/ StopDrain({})
     \/ Finalize(FALSE)
     \/ ApplyRestart
     \/ ApplyResume({})
  /\ UNCHANGED onceVars

Next ==
  \/ \E n \in Names : AddOnce(n) \/ Remove(n)
  \/ \E t \in 1 .. Len(timers) : Fire(t) \/ Callback(t)
  \/ Start
  \/ StopAllTimers
  \/ Lifecycle

Spec == Init /\ [][Next]_vars

\* Timers fire, their callbacks get on, and an Apply lets go of s.mu.
FairSpec ==
  /\ Spec
  /\ \A t \in 1 .. MaxTimers : WF_vars(t <= Len(timers) /\ Fire(t))
  /\ \A t \in 1 .. MaxTimers : WF_vars(t <= Len(timers) /\ Callback(t))
  /\ WF_vars(ApplyResume({}) /\ Lifecycle)

---------------------------------------------------------------------------
(* Properties                                                              *)

\* A registration is taken by one callback at most, though its first timer and
\* the one Start made may both be under way (api.go:181, "prevents double-exec
\* on restart"), and once taken it is defined no more.
TakenAtMostOnce ==
  \A t \in 1 .. Len(timers) : timers[t].took # 0 =>
    /\ \A u \in 1 .. Len(timers) : timers[u].took = timers[t].took => u = t
    /\ \A n \in Names : job[n] # timers[t].took

\* While the service runs every definition has a timer that will fire and pass
\* the callback's check: no schedule is forgotten (api.go:341-404).
DefinitionHasTimer ==
  /\ TypeOK
  /\ cur # 0 /\ stopPC = "idle" =>
       \A n \in Defined : \E t \in 1 .. Len(timers) :
         /\ timers[t].name = n
         /\ timers[t].ver = ver[n]
         /\ timers[t].made = job[n]
         /\ timers[t].state \in {"armed", "fired"}

\* A callback that takes another job than its timer was made for has seen the
\* version of its name deleted: upserts alone are told apart (api.go:157-159).
StaleOnlyAfterDelete ==
  \A t \in 1 .. Len(timers) :
    timers[t].took \notin {0, timers[t].made} => timers[t].forgotten

\* A schedule that is defined while the service runs is taken, replaced or
\* removed, unless the service is stopped.
OnceServed ==
  \A n \in Names, j \in Jobs :
    job[n] = j /\ cur # 0 /\ stopPC = "idle" ~> job[n] # j \/ stopPC # "idle"

=============================================================================
