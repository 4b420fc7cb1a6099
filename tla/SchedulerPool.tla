--------------------------- MODULE SchedulerPool ---------------------------
(***************************************************************************)
(* The task scheduler's worker pool: cron jobs put tasks on the queue of   *)
(* the current run, workers take and execute them with retries, while      *)
(* Start, Stop and Apply come and go (worker.go, api.go, service.go).      *)
(*                                                                         *)
(* A firing is one tick of a schedule: it lives as a cron job goroutine    *)
(* that checks the overlap policy and enqueues, then as a task in a queue, *)
(* then in the hands of a worker.  The schedules are fixed here; module    *)
(* SchedulerDefs is about adding and removing them.                        *)
(***************************************************************************)
EXTENDS SchedulerLifecycle, FiniteSets, Sequences

CONSTANTS
  Names,       \* the registered schedules
  SkipNames,   \* those whose overlap policy is OverlapSkipIfRunning
  PanicNames,  \* those whose job may panic
  Workers,     \* the workers of a run (s.cfg.Workers of them)
  Firings,     \* bound: the ticks of all schedules
  QueueCap,    \* capacity of a queue (256 in the code)
  RetryMax,    \* retries after a failed attempt
  None         \* no firing

ASSUME PoolAssumption ==
  /\ SkipNames \subseteq Names
  /\ PanicNames \subseteq Names
  /\ QueueCap \in Nat \ {0}
  /\ RetryMax \in Nat
  /\ None \notin Firings
  /\ None \notin Names
  /\ IsFiniteSet(Workers) /\ IsFiniteSet(Firings)

VARIABLES
  stage,    \* stage[f]: how far the firing f is
  nameOf,   \* nameOf[f]: the schedule that ticked
  cronOf,   \* cronOf[f]: the cron that spawned the job
  chanOf,   \* chanOf[f]: the run whose queue the job read from s.queue
  bornIn,   \* bornIn[f]: the run that was current at the tick (history)
  chan,     \* chan[r]: the contents of run r's queue
  wk,       \* wk[r][w]: where worker w of run r is
  task,     \* task[r][w]: the firing it executes
  attempt,  \* attempt[r][w]: the attempts made at it
  late,     \* late[r][w]: tasks it took after its stop channel was closed (history)
  running   \* running[n]: the running flag of n's runState

firingVars == <<stage, nameOf, cronOf, chanOf, bornIn>>
workerVars == <<wk, task, attempt, late, running>>
vars == <<lifecycleVars, firingVars, chan, workerVars>>

JobStages  == {"check", "enqueue", "send"}
EndStages  == {"skipped", "dropped", "ok", "failed", "panicked"}
Stages     == {"new", "queued", "taken"} \cup JobStages \cup EndStages
BusyStates == {"config", "attempt", "backoff"}
LiveStates == {"loop", "select"} \cup BusyStates

Busy(r, w) == wk[r][w] \in BusyStates
Live(r, w) == wk[r][w] \in LiveStates
AnyLive    == \E r \in Runs, w \in Workers : Live(r, w)

\* The crons that a job still works for: what c.Stop().Done() waits for.
BusyCrons == {cronOf[f] : f \in {g \in Firings : stage[g] \in JobStages}}

TypeOK ==
  /\ LifecycleTypeOK
  /\ stage \in [Firings -> Stages]
  /\ nameOf \in [Firings -> Names \cup {None}]
  /\ cronOf \in [Firings -> Crons \cup {0}]
  /\ chanOf \in [Firings -> Runs \cup {0}]
  /\ bornIn \in [Firings -> Runs \cup {0}]
  /\ chan \in [Runs -> Seq(Firings)]
  /\ \A r \in Runs : Len(chan[r]) <= QueueCap
  /\ wk \in [Runs -> [Workers -> LiveStates \cup {"absent", "gone"}]]
  /\ task \in [Runs -> [Workers -> Firings \cup {None}]]
  /\ attempt \in [Runs -> [Workers -> 0 .. RetryMax + 1]]
  /\ late \in [Runs -> [Workers -> Nat]]
  /\ running \in [Names -> BOOLEAN]

Init ==
  /\ LifecycleInit
  /\ stage = [f \in Firings |-> "new"]
  /\ nameOf = [f \in Firings |-> None]
  /\ cronOf = [f \in Firings |-> 0]
  /\ chanOf = [f \in Firings |-> 0]
  /\ bornIn = [f \in Firings |-> 0]
  /\ chan = [r \in Runs |-> <<>>]
  /\ wk = [r \in Runs |-> [w \in Workers |-> "absent"]]
  /\ task = [r \in Runs |-> [w \in Workers |-> None]]
  /\ attempt = [r \in Runs |-> [w \in Workers |-> 0]]
  /\ late = [r \in Runs |-> [w \in Workers |-> 0]]
  /\ running = [n \in Names |-> FALSE]

---------------------------------------------------------------------------
(* The life cycle: what Start, Stop and Apply do to the pool               *)

\* Mutant: the queue of the previous run is kept.
Start_KeepsQueue ==
  /\ StartRun
  /\ wk' = [wk EXCEPT ![runs + 1] = [w \in Workers |-> "loop"]]
  /\ chan' = IF runs > 0 THEN [chan EXCEPT ![runs + 1] = chan[runs]] ELSE chan
  /\ UNCHANGED <<firingVars, task, attempt, late, running>>

\* Start creates the run with an empty queue and spawns its workers.
Start ==
  /\ StartRun
  /\ wk' = [wk EXCEPT ![runs + 1] = [w \in Workers |-> "loop"]]
  /\ UNCHANGED <<firingVars, chan, task, attempt, late, running>>

\* Mutant: the finalizer does not wait for the workers.
StopFinish_NoWait ==
  /\ Finalize(FALSE)
  /\ UNCHANGED <<firingVars, chan, workerVars>>

StopFinish ==
  /\ Finalize(AnyLive)
  /\ UNCHANGED <<firingVars, chan, workerVars>>

\* The steps of Stop and Apply that touch neither workers nor cron jobs.
Lifecycle ==
  /\ \/ CancelApp
     \/ StopBegin
     \/ StopClose
     \/ StopCancel
     \/ StopHalt
     \/ StopDrain(BusyCrons)
     \/ StopTimers
     \/ ApplyRestart
     \/ ApplyResume(BusyCrons)
  /\ UNCHANGED <<firingVars, chan, workerVars>>

---------------------------------------------------------------------------
(* A firing: the closure of addCronLocked, and enqueue                     *)

\* Cron k ticks for schedule n and spawns a goroutine for the job.
Tick(k, n, f) ==
  /\ k \in ticking
  /\ stage[f] = "new"
  /\ stage' = [stage EXCEPT ![f] = IF n \in SkipNames THEN "check" ELSE "enqueue"]
  /\ nameOf' = [nameOf EXCEPT ![f] = n]
  /\ cronOf' = [cronOf EXCEPT ![f] = k]
  /\ bornIn' = [bornIn EXCEPT ![f] = cur]
  /\ UNCHANGED <<lifecycleVars, chanOf, chan, workerVars>>

\* OverlapSkipIfRunning: skip when the previous run's flag is still set.
CheckOverlap(f) ==
  /\ stage[f] = "check"
  /\ stage' = [stage EXCEPT ![f] = IF running[nameOf[f]] THEN "skipped" ELSE "enqueue"]
  /\ UNCHANGED <<lifecycleVars, nameOf, cronOf, chanOf, bornIn, chan, workerVars>>

\* enqueue reads s.queue under s.mu and drops the task when it is nil.
ReadQueue(f) ==
  /\ stage[f] = "enqueue"
  /\ mu = "free"
  /\ stage' = [stage EXCEPT ![f] = IF queue = 0 THEN "dropped" ELSE "send"]
  /\ chanOf' = [chanOf EXCEPT ![f] = queue]
  /\ UNCHANGED <<lifecycleVars, nameOf, cronOf, bornIn, chan, workerVars>>

\* The send that does not block: a full queue drops the task.
Send(f) ==
  /\ stage[f] = "send"
  /\ \/ /\ Len(chan[chanOf[f]]) < QueueCap
        /\ chan' = [chan EXCEPT ![chanOf[f]] = Append(@, f)]
        /\ stage' = [stage EXCEPT ![f] = "queued"]
     \/ /\ Len(chan[chanOf[f]]) = QueueCap
        /\ stage' = [stage EXCEPT ![f] = "dropped"]
        /\ UNCHANGED chan
  /\ UNCHANGED <<lifecycleVars, nameOf, cronOf, chanOf, bornIn, workerVars>>

---------------------------------------------------------------------------
(* A worker: worker and execOne                                            *)

\* Mutant: no fast-exit check in front of the select.
WorkerLoop_NoFastExit(r, w) ==
  /\ wk[r][w] = "loop"
  /\ wk' = [wk EXCEPT ![r][w] = "select"]
  /\ UNCHANGED <<lifecycleVars, firingVars, chan, task, attempt, late, running>>

\* Mutant: a worker that finds nothing to do at the top of its loop returns.
WorkerLoop_ExitWhenIdle(r, w) ==
  /\ wk[r][w] = "loop"
  /\ wk' = [wk EXCEPT ![r][w] = IF ToldToStop(r) \/ chan[r] = <<>> THEN "gone" ELSE "select"]
  /\ UNCHANGED <<lifecycleVars, firingVars, chan, task, attempt, late, running>>

\* The fast-exit check at the top of the loop.
WorkerLoop(r, w) ==
  /\ wk[r][w] = "loop"
  /\ wk' = [wk EXCEPT ![r][w] = IF ToldToStop(r) THEN "gone" ELSE "select"]
  /\ UNCHANGED <<lifecycleVars, firingVars, chan, task, attempt, late, running>>

\* Mutant: the select has no stop and no done case.
WorkerExit_Never(r, w) == FALSE /\ UNCHANGED vars

\* The select takes the done or the stop case.
WorkerExit(r, w) ==
  /\ wk[r][w] = "select"
  /\ ToldToStop(r)
  /\ wk' = [wk EXCEPT ![r][w] = "gone"]
  /\ UNCHANGED <<lifecycleVars, firingVars, chan, task, attempt, late, running>>

\* The select receives a task, even when a stop case is ready too, and
\* execOne sets the running flag of the task's schedule.
WorkerTake(r, w) ==
  /\ wk[r][w] = "select"
  /\ chan[r] # <<>>
  /\ LET f == Head(chan[r]) IN
       /\ stage' = [stage EXCEPT ![f] = "taken"]
       /\ task' = [task EXCEPT ![r][w] = f]
       /\ running' = [running EXCEPT ![nameOf[f]] = TRUE]
  /\ chan' = [chan EXCEPT ![r] = Tail(@)]
  /\ wk' = [wk EXCEPT ![r][w] = "config"]
  /\ late' = [late EXCEPT ![r][w] = IF r \in closed THEN @ + 1 ELSE @]
  /\ UNCHANGED <<lifecycleVars, nameOf, cronOf, chanOf, bornIn, attempt>>

\* execOne copies the configuration under s.mu and starts the first attempt.
ReadConfig(r, w) ==
  /\ wk[r][w] = "config"
  /\ mu = "free"
  /\ wk' = [wk EXCEPT ![r][w] = "attempt"]
  /\ attempt' = [attempt EXCEPT ![r][w] = 1]
  /\ UNCHANGED <<lifecycleVars, firingVars, chan, task, late, running>>

\* Mutant: the running flag is reset only when the job succeeds.
Leave_ResetOnSuccess(r, w, outcome, to) ==
  /\ stage' = [stage EXCEPT ![task[r][w]] = outcome]
  /\ running' = [running EXCEPT ![nameOf[task[r][w]]] = @ /\ outcome # "ok"]
  /\ wk' = [wk EXCEPT ![r][w] = to]
  /\ task' = [task EXCEPT ![r][w] = None]
  /\ attempt' = [attempt EXCEPT ![r][w] = 0]
  /\ UNCHANGED <<lifecycleVars, nameOf, cronOf, chanOf, bornIn, chan, late>>

\* Mutant: the running flag is reset by a statement, not by a defer.
Leave_NoDefer(r, w, outcome, to) ==
  /\ stage' = [stage EXCEPT ![task[r][w]] = outcome]
  /\ running' = [running EXCEPT ![nameOf[task[r][w]]] = outcome = "panicked"]
  /\ wk' = [wk EXCEPT ![r][w] = to]
  /\ task' = [task EXCEPT ![r][w] = None]
  /\ attempt' = [attempt EXCEPT ![r][w] = 0]
  /\ UNCHANGED <<lifecycleVars, nameOf, cronOf, chanOf, bornIn, chan, late>>

\* execOne ends with an outcome: the history item is appended (unless the
\* job panicked) and the deferred function resets the running flag.
Leave(r, w, outcome, to) ==
  /\ stage' = [stage EXCEPT ![task[r][w]] = outcome]
  /\ running' = [running EXCEPT ![nameOf[task[r][w]]] = FALSE]
  /\ wk' = [wk EXCEPT ![r][w] = to]
  /\ task' = [task EXCEPT ![r][w] = None]
  /\ attempt' = [attempt EXCEPT ![r][w] = 0]
  /\ UNCHANGED <<lifecycleVars, nameOf, cronOf, chanOf, bornIn, chan, late>>

Succeed(r, w) ==
  /\ wk[r][w] = "attempt"
  /\ Leave(r, w, "ok", "loop")

\* Mutant: the bound on the attempts is off by one.
Fail_OneMore(r, w) ==
  /\ wk[r][w] = "attempt"
  /\ \/ /\ attempt[r][w] > RetryMax + 1
        /\ Leave(r, w, "failed", "loop")
     \/ /\ attempt[r][w] <= RetryMax + 1
        /\ wk' = [wk EXCEPT ![r][w] = "backoff"]
        /\ UNCHANGED <<lifecycleVars, firingVars, chan, task, attempt, late, running>>

\* Mutant: a task that failed goes back to the queue, and is retried as well.
Fail_Requeues(r, w) ==
  /\ wk[r][w] = "attempt"
  /\ attempt[r][w] < RetryMax + 1
  /\ Len(chan[r]) < QueueCap
  /\ wk' = [wk EXCEPT ![r][w] = "backoff"]
  /\ chan' = [chan EXCEPT ![r] = Append(@, task[r][w])]
  /\ UNCHANGED <<lifecycleVars, firingVars, task, attempt, late, running>>

\* Mutant: a worker returns when its task has failed.
Fail_Exits(r, w) ==
  /\ wk[r][w] = "attempt"
  /\ \/ /\ attempt[r][w] >= RetryMax + 1
        /\ Leave(r, w, "failed", "gone")
     \/ /\ attempt[r][w] < RetryMax + 1
        /\ wk' = [wk EXCEPT ![r][w] = "backoff"]
        /\ UNCHANGED <<lifecycleVars, firingVars, chan, task, attempt, late, running>>

\* The attempt returns an error: the last one ends the task, any other is
\* followed by a backoff.
Fail(r, w) ==
  /\ wk[r][w] = "attempt"
  /\ \/ /\ attempt[r][w] >= RetryMax + 1
        /\ Leave(r, w, "failed", "loop")
     \/ /\ attempt[r][w] < RetryMax + 1
        /\ wk' = [wk EXCEPT ![r][w] = "backoff"]
        /\ UNCHANGED <<lifecycleVars, firingVars, chan, task, attempt, late, running>>

\* The job panics: the deferred calls run, the worker goroutine ends.
Panic(r, w) ==
  /\ wk[r][w] = "attempt"
  /\ nameOf[task[r][w]] \in PanicNames
  /\ Leave(r, w, "panicked", "gone")

\* The backoff's select takes the done or the stop case.
BackoffAbort(r, w) ==
  /\ wk[r][w] = "backoff"
  /\ ToldToStop(r)
  /\ Leave(r, w, "failed", "loop")

\* The backoff's timer fires, even when a stop case is ready too.
Retry(r, w) ==
  /\ wk[r][w] = "backoff"
  /\ wk' = [wk EXCEPT ![r][w] = "attempt"]
  /\ attempt' = [attempt EXCEPT ![r][w] = @ + 1]
  /\ UNCHANGED <<lifecycleVars, firingVars, chan, task, late, running>>

WorkerStep(r, w) ==
  \/ WorkerLoop(r, w)
  \/ WorkerExit(r, w)
  \/ WorkerTake(r, w)
  \/ ReadConfig(r, w)
  \/ Succeed(r, w)
  \/ Fail(r, w)
  \/ Panic(r, w)
  \/ BackoffAbort(r, w)
  \/ Retry(r, w)

JobStep(f) == CheckOverlap(f) \/ ReadQueue(f) \/ Send(f)

Next ==
  \/ Start
  \/ StopFinish
  \/ Lifecycle
  \/ \E k \in Crons, n \in Names, f \in Firings : Tick(k, n, f)
  \/ \E f \in Firings : JobStep(f)
  \/ \E r \in Runs, w \in Workers : WorkerStep(r, w)

Spec == Init /\ [][Next]_vars

\* Every goroutine that can run is eventually run by the Go runtime, jobs
\* return (they are given a context with a timeout) and timers fire.  Nothing
\* makes a schedule tick, or anybody call Start, Stop or Apply.
FairSpec ==
  /\ Spec
  /\ WF_vars(StopClose /\ Lifecycle)
  /\ WF_vars(StopCancel /\ Lifecycle)
  /\ WF_vars(StopHalt /\ Lifecycle)
  /\ WF_vars(StopDrain(BusyCrons) /\ Lifecycle)
  /\ WF_vars(StopTimers /\ Lifecycle)
  /\ WF_vars(StopFinish)
  /\ WF_vars(ApplyResume(BusyCrons) /\ Lifecycle)
  /\ \A f \in Firings : WF_vars(JobStep(f))
  /\ \A r \in Runs, w \in Workers : WF_vars(WorkerStep(r, w))

---------------------------------------------------------------------------
(* Properties                                                              *)

\* Live workers belong to the run whose stop channel is s.stopCh: Start's wait
\* for a Stop in progress "prevents double worker pools" (service.go:59).
OneWorkerPool == \A r \in Runs, w \in Workers : Live(r, w) => r = cur

\* A queue holds no firing twice, and holds only what was sent to it.
QueuedOnce ==
  \A r \in Runs : \A i \in 1 .. Len(chan[r]) :
    /\ stage[chan[r][i]] = "queued"
    /\ chanOf[chan[r][i]] = r
    /\ \A j \in 1 .. Len(chan[r]) : chan[r][i] = chan[r][j] => i = j

\* A worker that executes holds a firing it took from its run's queue, and no
\* other worker holds the same one.
TakenOnce ==
  \A r \in Runs, w \in Workers : Busy(r, w) =>
    /\ task[r][w] \in Firings
    /\ stage[task[r][w]] = "taken"
    /\ chanOf[task[r][w]] = r
    /\ \A s \in Runs, v \in Workers :
         Busy(s, v) /\ task[s][v] = task[r][w] => s = r /\ v = w

\* A firing is in one place only: in one queue once, or with one worker.
\* Otherwise a task would be executed twice (worker.go: enqueue, worker).
HeldOnce == QueuedOnce /\ TakenOnce

\* A running flag that is set is backed by a worker: no error, panic or stop
\* leaves it set, which would make the schedule skip for ever (worker.go:57-66).
RunningHasWorker ==
  \A n \in Names : running[n] =>
    \E r \in Runs, w \in Workers : Busy(r, w) /\ nameOf[task[r][w]] = n

\* The parts of the inductive invariant that are no goals of their own: the
\* counters agree, a firing that has ticked has a schedule and, from the send
\* on, a queue, and a worker that backs off has an attempt left.
Counters ==
  /\ cur \in {0, runs}
  /\ queue = cur
  /\ stopPC # "idle" => cur # 0
  /\ crons + (IF mu = "apply" THEN 1 ELSE 0) = runs + applies
FiringsNamed ==
  \A f \in Firings :
    /\ stage[f] # "new" => nameOf[f] \in Names
    /\ stage[f] = "send" => chanOf[f] \in Runs
BackoffLeft ==
  \A r \in Runs, w \in Workers : wk[r][w] = "backoff" => attempt[r][w] <= RetryMax

\* The inductive invariant: what the theorems on this module rest on
\* (the critical sections of service.go and worker.go together).
PoolInv ==
  /\ TypeOK
  /\ Counters
  /\ FiringsNamed
  /\ BackoffLeft
  /\ OneWorkerPool
  /\ HeldOnce
  /\ RunningHasWorker

\* Until a run is told to stop its pool loses a worker for each panic of a job
\* and for nothing else (service.go:104-118: recover ends the goroutine).
PoolShrinksOnlyByPanic ==
  \A r \in Runs : ~ToldToStop(r) =>
    Cardinality({w \in Workers : wk[r][w] = "gone"}) =
      Cardinality({f \in Firings : stage[f] = "panicked" /\ chanOf[f] = r})

\* After the stop channel is closed a worker takes at most one more task: the
\* select may still choose the queue, the fast-exit check then ends the worker
\* (worker.go:33-49).
OneLateTask == \A r \in Runs, w \in Workers : late[r][w] <= 1

\* A worker only executes firings of schedules that ticked during its own run:
\* Start makes a "fresh queue per run to avoid executing stale enqueued tasks"
\* and Stop waits for the cron's jobs (service.go:87, 161-163).
FreshOnly ==
  \A r \in Runs, w \in Workers : Busy(r, w) => bornIn[task[r][w]] = r

\* Once a Stop has completed nothing of the run is left: no cron ticks and no
\* cron job is under way (service.go:150, "prevent new cron enqueues").
StoppedIsQuiet == cur = 0 => ticking = {} /\ BusyCrons = {}

\* A Stop that has begun completes, whatever the workers are doing: the
\* finalizer closes stopDone (service.go:173-184).
StopCompletes == stopPC # "idle" ~> stopPC = "idle"

\* A queued task is taken by a worker unless its run is told to stop
\* (doc.go:27, "Jobs run on a worker pool").
QueueServed ==
  \A f \in Firings :
    stage[f] = "queued" ~> stage[f] # "queued" \/ ToldToStop(chanOf[f])

\* A running flag that is set is reset, so that a schedule with the skip policy
\* runs again (api.go:308-316, worker.go:57-66).
FlagFalls == \A n \in Names : running[n] ~> ~running[n]

\* doc.go:27: the overlap policy can "skip a run if the previous run is still
\* executing": two workers never execute such a schedule at the same time.
NoOverlap ==
  \A r, s \in Runs, v, w \in Workers :
    /\ Busy(r, v) /\ Busy(s, w)
    /\ nameOf[task[r][v]] = nameOf[task[s][w]]
    /\ nameOf[task[r][v]] \in SkipNames
    => r = s /\ v = w

\* service.go:27, 48: Apply may run concurrently and restarts the cron: an
\* Apply that holds s.mu lets it go.
ApplyReturns == mu = "apply" ~> mu = "free"

\* The pool implements the ledger of firings: a firing's home is the run whose
\* queue its job read, its hands the worker that holds it (service.go:59, 87).
Entry == [f \in Firings |->
            CASE stage[f] \in {"new"} \cup JobStages -> "open"
              [] stage[f] = "queued" -> "accepted"
              [] stage[f] = "taken" -> "begun"
              [] stage[f] \in EndStages -> "over"]
Holders(f) == {p \in Runs \X Workers : Busy(p[1], p[2]) /\ task[p[1]][p[2]] = f}
Hands == [f \in Firings |->
            IF Holders(f) = {} THEN None ELSE CHOOSE p \in Holders(f) : TRUE]
Ledger == INSTANCE TaskLedger
            WITH entry <- Entry, home <- chanOf, hands <- Hands, Nobody <- None
LedgerSpec == Ledger!Spec
=============================================================================
