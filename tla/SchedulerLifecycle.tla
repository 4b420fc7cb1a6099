------------------------ MODULE SchedulerLifecycle ------------------------
(***************************************************************************)
(* The life cycle of the task scheduler (internal/services/scheduler):     *)
(* Start, Stop and Apply of service.go, and restartLocked of api.go.       *)
(*                                                                         *)
(* This module owns the variables of the life cycle and defines one action *)
(* per critical section of those methods.  It has no Next of its own: the  *)
(* modules that know what the workers and the cron jobs do conjoin these   *)
(* actions with theirs, and pass in what Stop and Apply have to wait for.  *)
(*                                                                         *)
(* A run is what one successful Start creates: a stop channel, a context,  *)
(* a queue and a worker pool.  Runs are numbered from 1; 0 stands for nil. *)
(* The crons are numbered the same way, one for each cron.New.             *)
(***************************************************************************)
EXTENDS Naturals

CONSTANTS
  MaxRuns,     \* bound: number of Starts that create a run
  MaxApplies   \* bound: number of Applies that change the time zone

ASSUME LifecycleAssumption == MaxRuns \in Nat /\ MaxApplies \in Nat

VARIABLES
  runs,        \* number of runs created so far
  cur,         \* the run whose channel is s.stopCh, 0 when it is nil
  queue,       \* the run whose channel is s.queue, 0 when it is nil
  closed,      \* runs whose stop channel is closed
  cancelled,   \* runs whose context was cancelled by runCancel
  appDone,     \* the application context, parent of every run's, is cancelled
  stopPC,      \* where the Stop in progress is; "idle" iff s.stopDone is nil
  stopCron,    \* the cron that Stop took from s.c
  crons,       \* number of crons created so far
  c,           \* s.c, 0 when it is nil
  ticking,     \* crons that have been started and not stopped
  applies,     \* number of time zone changes applied so far
  mu           \* holder of s.mu across a blocking call: "free" or "apply"

lifecycleVars == <<runs, cur, queue, closed, cancelled, appDone, stopPC,
                   stopCron, crons, c, ticking, applies, mu>>

Runs   == 1 .. MaxRuns
Crons  == 1 .. (MaxRuns + MaxApplies)
StopPC == {"idle", "close", "cancel", "halt", "drain", "timers", "wait"}

LifecycleTypeOK ==
  /\ runs \in 0 .. MaxRuns
  /\ cur \in Runs \cup {0}
  /\ queue \in Runs \cup {0}
  /\ closed \subseteq Runs
  /\ cancelled \subseteq Runs
  /\ appDone \in BOOLEAN
  /\ stopPC \in StopPC
  /\ stopCron \in Crons \cup {0}
  /\ crons \in 0 .. (MaxRuns + MaxApplies)
  /\ c \in Crons \cup {0}
  /\ ticking \subseteq Crons
  /\ applies \in 0 .. MaxApplies
  /\ mu \in {"free", "apply"}

LifecycleInit ==
  /\ runs = 0 /\ cur = 0 /\ queue = 0
  /\ closed = {} /\ cancelled = {} /\ appDone = FALSE
  /\ stopPC = "idle" /\ stopCron = 0
  /\ crons = 0 /\ c = 0 /\ ticking = {}
  /\ applies = 0 /\ mu = "free"

\* What a worker or a waiting job of run r sees: its stop channel is closed
\* or its context is done.
ToldToStop(r) == r \in closed \cup cancelled \/ appDone

---------------------------------------------------------------------------
(* Start and the cancellation of the application's context                 *)

\* cron.New and c.Start: a new cron becomes s.c and ticks.
NewCron ==
  /\ crons' = crons + 1
  /\ c' = crons + 1
  /\ ticking' = ticking \cup {crons + 1}

\* Start past its waiting loop: s.stopCh is nil.  A Start that finds a run
\* returns, one that finds a Stop in progress waits for it: neither changes
\* anything.
StartRun ==
  /\ mu = "free"
  /\ cur = 0
  /\ runs < MaxRuns
  /\ runs' = runs + 1
  /\ cur' = runs + 1
  /\ queue' = runs + 1
  /\ NewCron
  /\ UNCHANGED <<closed, cancelled, appDone, stopPC, stopCron, applies, mu>>

\* The context every run's context derives from is cancelled.
CancelApp ==
  /\ ~appDone
  /\ appDone' = TRUE
  /\ UNCHANGED <<runs, cur, queue, closed, cancelled, stopPC, stopCron, crons,
                 c, ticking, applies, mu>>

---------------------------------------------------------------------------
(* Stop                                                                    *)

\* The critical section that starts a stop.  A Stop that finds no run or
\* another Stop in progress changes nothing.
StopBegin ==
  /\ mu = "free"
  /\ cur # 0
  /\ stopPC = "idle"
  /\ stopPC' = "close"
  /\ stopCron' = c
  /\ c' = 0
  /\ UNCHANGED <<runs, cur, queue, closed, cancelled, appDone, crons, ticking,
                 applies, mu>>

StopClose ==
  /\ stopPC = "close"
  /\ stopPC' = "cancel"
  /\ closed' = closed \cup {cur}
  /\ UNCHANGED <<runs, cur, queue, cancelled, appDone, stopCron, crons, c,
                 ticking, applies, mu>>

StopCancel ==
  /\ stopPC = "cancel"
  /\ stopPC' = "halt"
  /\ cancelled' = cancelled \cup {cur}
  /\ UNCHANGED <<runs, cur, queue, closed, appDone, stopCron, crons, c,
                 ticking, applies, mu>>

\* The call c.Stop: no new cron job is spawned.
StopHalt ==
  /\ stopPC = "halt"
  /\ stopPC' = "drain"
  /\ ticking' = ticking \ {stopCron}
  /\ UNCHANGED <<runs, cur, queue, closed, cancelled, appDone, stopCron, crons,
                 c, applies, mu>>

\* Mutant: Stop does not wait for the context that c.Stop returns.
StopDrain_NoWait(busy) ==
  /\ stopPC = "drain"
  /\ stopPC' = "timers"
  /\ stopCron' = 0
  /\ UNCHANGED <<runs, cur, queue, closed, cancelled, appDone, crons, c,
                 ticking, applies, mu>>

\* The wait for the cron's jobs; busy is the set of crons with a job under way.
StopDrain(busy) ==
  /\ stopPC = "drain"
  /\ stopCron \notin busy
  /\ stopPC' = "timers"
  /\ stopCron' = 0
  /\ UNCHANGED <<runs, cur, queue, closed, cancelled, appDone, crons, c,
                 ticking, applies, mu>>

\* The one-shot timers are stopped; what that means is SchedulerOnce's.
StopTimers ==
  /\ stopPC = "timers"
  /\ stopPC' = "wait"
  /\ UNCHANGED <<runs, cur, queue, closed, cancelled, appDone, stopCron, crons,
                 c, ticking, applies, mu>>

\* The finalizer goroutine, past workerWG.Wait: alive says that a worker of
\* any run has not returned yet.
Finalize(alive) ==
  /\ stopPC = "wait"
  /\ ~alive
  /\ mu = "free"
  /\ stopPC' = "idle"
  /\ cur' = 0
  /\ queue' = 0
  /\ UNCHANGED <<runs, closed, cancelled, appDone, stopCron, crons, c, ticking,
                 applies, mu>>

---------------------------------------------------------------------------
(* Apply with a new time zone while s.stopCh is not nil                    *)

\* Apply enters restartLocked with s.mu held.  When s.c is nil, which it is
\* from the start of a Stop on, there is nothing to wait for.
ApplyRestart ==
  /\ mu = "free"
  /\ cur # 0
  /\ applies < MaxApplies
  /\ applies' = applies + 1
  /\ \/ /\ c # 0
        /\ mu' = "apply"
        /\ ticking' = ticking \ {c}
        /\ UNCHANGED <<crons, c>>
     \/ /\ c = 0
        /\ NewCron
        /\ UNCHANGED mu
  /\ UNCHANGED <<runs, cur, queue, closed, cancelled, appDone, stopPC, stopCron>>

\* restartLocked past its wait for the old cron's jobs.
ApplyResume(busy) ==
  /\ mu = "apply"
  /\ c \notin busy
  /\ mu' = "free"
  /\ NewCron
  /\ UNCHANGED <<runs, cur, queue, closed, cancelled, appDone, stopPC,
                 stopCron, applies>>

=============================================================================
