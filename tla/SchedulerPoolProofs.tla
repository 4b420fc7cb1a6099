------------------------ MODULE SchedulerPoolProofs ------------------------
(***************************************************************************)
(* Proofs about SchedulerPool: its inductive invariant, and from it type   *)
(* correctness, the single worker pool, the single execution of a firing   *)
(* and the running flags; then, with one strengthening each, the late      *)
(* task, the shrinking pool, the fresh tasks and the quiet after a stop,   *)
(* when the overlap policy fails, what an Apply that is stuck holds up and *)
(* how many steps a worker has left that is told to stop; and last that    *)
(* the pool implements TaskLedger.                                         *)
(***************************************************************************)
EXTENDS SchedulerPool, FiniteSetTheorems, TLAPS

(* The steps of the life cycle                                             *)

\* The life cycle's part of the invariant, which its steps keep by themselves.
LifecycleInv == LifecycleTypeOK /\ Counters

\* Every step of Stop, Apply and the application's cancellation keeps it.
LEMMA LifecycleKeepsInv ==
  ASSUME LifecycleInv, Lifecycle
  PROVE  LifecycleInv'
<1> USE LifecycleAssumption
<1> USE DEF LifecycleInv, LifecycleTypeOK, Counters, Runs, Crons, StopPC
<1>1. CASE CancelApp
  BY <1>1 DEF CancelApp
<1>2. CASE StopBegin
  BY <1>2 DEF StopBegin
<1>3. CASE StopClose
  BY <1>3 DEF StopClose
<1>4. CASE StopCancel
  BY <1>4 DEF StopCancel
<1>5. CASE StopHalt
  BY <1>5 DEF StopHalt
<1>6. CASE StopDrain(BusyCrons)
  BY <1>6 DEF StopDrain
<1>7. CASE StopTimers
  BY <1>7 DEF StopTimers
<1>8. CASE ApplyRestart
  <2>1. CASE c # 0
    <3>1. /\ crons = runs + applies /\ crons' = crons /\ applies' = applies + 1
          /\ c' = c /\ ticking' = ticking \ {c} /\ mu' = "apply"
      BY <1>8, <2>1 DEF ApplyRestart
    <3>2. UNCHANGED <<runs, cur, queue, closed, cancelled, appDone, stopPC, stopCron>>
      BY <1>8 DEF ApplyRestart
    <3>3. Counters'
      BY <3>1, <3>2
    <3>. QED
      BY <1>8, <3>1, <3>2, <3>3 DEF ApplyRestart
  <2>2. CASE c = 0
    <3>1. /\ crons = runs + applies /\ crons' = crons + 1 /\ applies' = applies + 1
          /\ c' = crons + 1 /\ ticking' = ticking \cup {crons + 1}
          /\ mu' = "free" /\ mu = "free"
      BY <1>8, <2>2 DEF ApplyRestart, NewCron
    <3>2. crons + 1 \in Crons
      BY <1>8, <3>1 DEF ApplyRestart
    <3>. QED
      BY <1>8, <3>1, <3>2 DEF ApplyRestart
  <2>. QED
    BY <2>1, <2>2
<1>9. CASE ApplyResume(BusyCrons)
  BY <1>9 DEF ApplyResume, NewCron
<1>. QED
  BY <1>1, <1>2, <1>3, <1>4, <1>5, <1>6, <1>7, <1>8, <1>9 DEF Lifecycle

\* Start makes a run of its own, with a new cron.
LEMMA StartKeepsLifecycleInv ==
  ASSUME LifecycleInv, StartRun
  PROVE  LifecycleInv'
BY LifecycleAssumption
   DEF LifecycleInv, LifecycleTypeOK, Counters, Runs, Crons, StopPC, StartRun, NewCron

\* The end of a Stop leaves no run.
LEMMA FinalizeKeepsLifecycleInv ==
  ASSUME LifecycleInv, Finalize(AnyLive)
  PROVE  LifecycleInv'
BY LifecycleAssumption
   DEF LifecycleInv, LifecycleTypeOK, Counters, Runs, Crons, StopPC, Finalize

\* The life cycle leaves cur, which the pool's invariants mention, alone.
LEMMA LifecycleKeepsCur ==
  ASSUME Lifecycle
  PROVE  cur' = cur
BY DEF Lifecycle, CancelApp, StopBegin, StopClose, StopCancel, StopHalt, StopDrain,
       StopTimers, ApplyRestart, ApplyResume

---------------------------------------------------------------------------
(* The inductive invariant                                                 *)

\* There is no run, no worker and no task at first.
LEMMA InitPoolInv == Init => PoolInv
<1> SUFFICES ASSUME Init PROVE PoolInv
  OBVIOUS
<1> USE LifecycleAssumption, PoolAssumption
<1>1. TypeOK
  <2>1. LifecycleTypeOK
    <3>1. runs \in 0 .. MaxRuns /\ crons \in 0 .. (MaxRuns + MaxApplies) /\ applies \in 0 .. MaxApplies
      BY DEF Init, LifecycleInit
    <3>. QED
      BY <3>1 DEF Init, LifecycleInit, LifecycleTypeOK, StopPC
  <2>2. chan \in [Runs -> Seq(Firings)] /\ \A r \in Runs : Len(chan[r]) = 0
    BY DEF Init
  <2>3. /\ stage \in [Firings -> Stages]
        /\ wk \in [Runs -> [Workers -> LiveStates \cup {"absent", "gone"}]]
        /\ attempt \in [Runs -> [Workers -> 0 .. RetryMax + 1]]
        /\ late \in [Runs -> [Workers -> Nat]]
    BY DEF Init, Stages
  <2>4. QueueCap \in Nat /\ 0 <= QueueCap
    OBVIOUS
  <2>. QED
    BY <2>1, <2>2, <2>3, <2>4 DEF Init, TypeOK
<1>2. Counters /\ FiringsNamed /\ BackoffLeft /\ OneWorkerPool /\ HeldOnce
  BY DEF Init, LifecycleInit, Counters, FiringsNamed, BackoffLeft, OneWorkerPool,
         HeldOnce, QueuedOnce, TakenOnce, Live, Busy, LiveStates, BusyStates
<1>3. RunningHasWorker
  BY DEF Init, RunningHasWorker
<1>. QED
  BY <1>1, <1>2, <1>3 DEF PoolInv

\* Lifecycle steps of other goroutines leave firings, queues and workers alone.
LEMMA LifecyclePoolInv ==
  ASSUME PoolInv, Lifecycle
  PROVE  PoolInv'
<1>1. LifecycleInv'
  BY LifecycleKeepsInv DEF PoolInv, TypeOK, LifecycleInv
<1>2. UNCHANGED <<firingVars, chan, workerVars, cur>>
  BY LifecycleKeepsCur DEF Lifecycle
<1>. QED
  BY <1>1, <1>2 DEF LifecycleInv, PoolInv, TypeOK, FiringsNamed, BackoffLeft, OneWorkerPool,
     HeldOnce, QueuedOnce, TakenOnce, RunningHasWorker, Live, Busy, firingVars, workerVars

\* Start finds no live worker, because the current run is none: the workers it
\* spawns are the only ones.
LEMMA StartPoolInv ==
  ASSUME PoolInv, Start
  PROVE  PoolInv'
<1> USE LifecycleAssumption
<1>1. LifecycleInv'
  BY StartKeepsLifecycleInv DEF PoolInv, TypeOK, LifecycleInv, Start
<1>2. /\ UNCHANGED <<firingVars, chan, task, attempt, late, running>>
      /\ runs + 1 \in Runs /\ cur = 0 /\ cur' = runs + 1
      /\ wk' = [wk EXCEPT ![runs + 1] = [w \in Workers |-> "loop"]]
  BY DEF Start, StartRun, PoolInv, TypeOK, LifecycleTypeOK, Runs
<1>3. \A r \in Runs, w \in Workers : ~Live(r, w) /\ ~Busy(r, w)
  BY <1>2 DEF PoolInv, OneWorkerPool, Live, Busy, LiveStates, Runs
<1>4. wk' \in [Runs -> [Workers -> LiveStates \cup {"absent", "gone"}]]
  BY <1>2 DEF PoolInv, TypeOK, LiveStates
<1>5. \A r \in Runs, w \in Workers :
        wk'[r][w] = IF r = runs + 1 THEN "loop" ELSE wk[r][w]
  BY <1>2 DEF PoolInv, TypeOK
<1>6. \A r \in Runs, w \in Workers : ~Busy(r, w)' /\ wk'[r][w] # "backoff"
  BY <1>3, <1>5 DEF Busy, BusyStates
<1>7. TypeOK' /\ FiringsNamed' /\ QueuedOnce'
  BY <1>1, <1>2, <1>4
     DEF LifecycleInv, PoolInv, TypeOK, FiringsNamed, HeldOnce, QueuedOnce, firingVars
<1>8. BackoffLeft' /\ TakenOnce'
  BY <1>6 DEF BackoffLeft, TakenOnce
<1>9. OneWorkerPool'
  BY <1>2, <1>3, <1>5 DEF OneWorkerPool, Live
<1>10. RunningHasWorker'
  BY <1>2, <1>3 DEF PoolInv, RunningHasWorker
<1>. QED
  BY <1>1, <1>7, <1>8, <1>9, <1>10 DEF PoolInv, LifecycleInv, HeldOnce

\* The finalizer clears the current run only when no worker is left.
LEMMA StopFinishPoolInv ==
  ASSUME PoolInv, StopFinish
  PROVE  PoolInv'
<1>1. LifecycleInv'
  BY FinalizeKeepsLifecycleInv DEF PoolInv, TypeOK, LifecycleInv, StopFinish
<1>2. UNCHANGED <<firingVars, chan, workerVars>> /\ ~AnyLive
  BY DEF StopFinish, Finalize
<1>. QED
  BY <1>1, <1>2 DEF LifecycleInv, PoolInv, TypeOK, FiringsNamed, BackoffLeft, OneWorkerPool,
     HeldOnce, QueuedOnce, TakenOnce, RunningHasWorker, Live, Busy, AnyLive,
     firingVars, workerVars

---------------------------------------------------------------------------
(* The steps of a firing                                                   *)

\* A firing whose stage is not "queued" is in no queue.
LEMMA NotInQueue ==
  ASSUME PoolInv, NEW f \in Firings, stage[f] # "queued"
  PROVE  \A r \in Runs : \A i \in 1 .. Len(chan[r]) : chan[r][i] \in Firings \ {f}
BY DEF PoolInv, HeldOnce, QueuedOnce, TypeOK

\* A firing whose stage is not "taken" is with no worker.
LEMMA NotWithWorker ==
  ASSUME PoolInv, NEW f \in Firings, stage[f] # "taken"
  PROVE  \A r \in Runs, w \in Workers : Busy(r, w) => task[r][w] \in Firings \ {f}
BY DEF PoolInv, HeldOnce, TakenOnce

\* A tick gives a firing that was not used yet a name, and sends it on its way.
LEMMA TickPoolInv ==
  ASSUME PoolInv, NEW k \in Crons, NEW n \in Names, NEW f \in Firings, Tick(k, n, f)
  PROVE  PoolInv'
<1>1. /\ UNCHANGED <<lifecycleVars, chanOf, chan, wk, task, attempt, late, running>>
      /\ \A g \in Firings : g # f => stage'[g] = stage[g] /\ nameOf'[g] = nameOf[g]
      /\ stage[f] = "new" /\ stage'[f] \in {"check", "enqueue"} /\ nameOf'[f] = n
  BY DEF Tick, PoolInv, TypeOK, workerVars
<1>2. TypeOK' /\ Counters'
  BY LifecycleAssumption DEF Tick, PoolInv, TypeOK, Counters, Stages, JobStages,
     lifecycleVars, LifecycleTypeOK, workerVars, Runs
<1>3. FiringsNamed' /\ BackoffLeft'
  BY <1>1 DEF PoolInv, FiringsNamed, BackoffLeft
<1>4. OneWorkerPool'
  BY <1>1 DEF PoolInv, OneWorkerPool, Live, lifecycleVars
<1>5. QueuedOnce'
  BY <1>1, NotInQueue DEF PoolInv, HeldOnce, QueuedOnce
<1>6. TakenOnce'
  BY <1>1, NotWithWorker DEF PoolInv, HeldOnce, TakenOnce, Busy
<1>7. RunningHasWorker'
  BY <1>1, NotWithWorker DEF PoolInv, RunningHasWorker, Busy
<1>. QED
  BY <1>2, <1>3, <1>4, <1>5, <1>6, <1>7 DEF PoolInv, HeldOnce

\* The overlap check lets a task go on or ends it.
LEMMA CheckOverlapPoolInv ==
  ASSUME PoolInv, NEW f \in Firings, CheckOverlap(f)
  PROVE  PoolInv'
<1>1. /\ UNCHANGED <<lifecycleVars, nameOf, chanOf, chan, wk, task, attempt, late, running>>
      /\ \A g \in Firings : g # f => stage'[g] = stage[g]
      /\ stage[f] = "check" /\ stage'[f] \in {"skipped", "enqueue"}
  BY DEF CheckOverlap, PoolInv, TypeOK, workerVars
<1>2. TypeOK' /\ Counters'
  BY <1>1 DEF CheckOverlap, PoolInv, TypeOK, Counters, Stages, JobStages, EndStages,
     lifecycleVars, LifecycleTypeOK
<1>3. FiringsNamed' /\ BackoffLeft' /\ OneWorkerPool'
  BY <1>1 DEF PoolInv, FiringsNamed, BackoffLeft, OneWorkerPool, Live, lifecycleVars
<1>4. QueuedOnce'
  BY <1>1, NotInQueue DEF PoolInv, HeldOnce, QueuedOnce
<1>5. TakenOnce'
  BY <1>1 DEF PoolInv, HeldOnce, TakenOnce, Busy
<1>6. RunningHasWorker'
  BY <1>1 DEF PoolInv, RunningHasWorker, Busy
<1>. QED
  BY <1>2, <1>3, <1>4, <1>5, <1>6 DEF PoolInv, HeldOnce

\* What has read s.q holds the queue of some run, or none.
LEMMA ReadQueuePoolInv ==
  ASSUME PoolInv, NEW f \in Firings, ReadQueue(f)
  PROVE  PoolInv'
<1>1. /\ UNCHANGED <<lifecycleVars, nameOf, chan, wk, task, attempt, late, running>>
      /\ \A g \in Firings : g # f => stage'[g] = stage[g] /\ chanOf'[g] = chanOf[g]
      /\ stage[f] = "enqueue" /\ stage'[f] \in {"dropped", "send"}
      /\ chanOf'[f] = queue /\ (stage'[f] = "send" => queue # 0)
      /\ queue \in Runs \cup {0}
  BY DEF ReadQueue, PoolInv, TypeOK, LifecycleTypeOK, workerVars
<1>2. TypeOK' /\ Counters'
  BY <1>1 DEF ReadQueue, PoolInv, TypeOK, Counters, Stages, JobStages, EndStages,
     lifecycleVars, LifecycleTypeOK
<1>3. FiringsNamed' /\ BackoffLeft' /\ OneWorkerPool'
  BY <1>1 DEF PoolInv, FiringsNamed, BackoffLeft, OneWorkerPool, Live, lifecycleVars
<1>4. QueuedOnce'
  BY <1>1, NotInQueue DEF PoolInv, HeldOnce, QueuedOnce
<1>5. TakenOnce'
  BY <1>1 DEF PoolInv, HeldOnce, TakenOnce, Busy
<1>6. RunningHasWorker'
  BY <1>1 DEF PoolInv, RunningHasWorker, Busy
<1>. QED
  BY <1>2, <1>3, <1>4, <1>5, <1>6 DEF PoolInv, HeldOnce

\* What is appended was in no queue: its stage was not "queued".
LEMMA SendPoolInv ==
  ASSUME PoolInv, NEW f \in Firings, Send(f)
  PROVE  PoolInv'
<1> DEFINE q == chanOf[f]
<1>1. /\ UNCHANGED <<lifecycleVars, nameOf, chanOf, wk, task, attempt, late, running>>
      /\ \A g \in Firings : g # f => stage'[g] = stage[g]
      /\ stage[f] = "send" /\ stage'[f] \in {"dropped", "queued"}
      /\ q \in Runs /\ chan[q] \in Seq(Firings)
  BY DEF Send, PoolInv, TypeOK, FiringsNamed, workerVars
<1>2. \/ /\ Len(chan[q]) < QueueCap
         /\ chan' = [chan EXCEPT ![q] = Append(chan[q], f)]
         /\ stage'[f] = "queued"
      \/ UNCHANGED chan
  BY DEF Send, PoolInv, TypeOK
<1>3. chan' \in [Runs -> Seq(Firings)] /\ \A r \in Runs : Len(chan'[r]) <= QueueCap
  <2>1. Len(Append(chan[q], f)) = Len(chan[q]) + 1 /\ Append(chan[q], f) \in Seq(Firings)
    BY <1>1
  <2>2. Len(chan[q]) \in Nat
    BY <1>1
  <2>3. \A r \in Runs : chan[r] \in Seq(Firings) /\ Len(chan[r]) <= QueueCap
    BY DEF PoolInv, TypeOK
  <2>4. CASE UNCHANGED chan
    BY <2>4 DEF PoolInv, TypeOK
  <2>5. CASE Len(chan[q]) < QueueCap /\ chan' = [chan EXCEPT ![q] = Append(chan[q], f)]
    <3>1. \A r \in Runs : chan'[r] = IF r = q THEN Append(chan[q], f) ELSE chan[r]
      BY <2>5 DEF PoolInv, TypeOK
    <3>2. chan' \in [Runs -> Seq(Firings)]
      BY <2>1, <2>5 DEF PoolInv, TypeOK
    <3>3. Len(chan[q]) + 1 <= QueueCap
      BY <2>2, <2>5, PoolAssumption
    <3>. QED
      BY <2>1, <2>3, <3>1, <3>2, <3>3
  <2>. QED
    BY <1>2, <2>4, <2>5
<1>4. TypeOK' /\ Counters'
  BY <1>1, <1>3 DEF Send, PoolInv, TypeOK, Counters, Stages, EndStages,
     lifecycleVars, LifecycleTypeOK
<1>5. FiringsNamed' /\ BackoffLeft' /\ OneWorkerPool'
  BY <1>1 DEF PoolInv, FiringsNamed, BackoffLeft, OneWorkerPool, Live, lifecycleVars
<1>6. QueuedOnce'
  <2>1. CASE UNCHANGED chan
    BY <1>1, <2>1, NotInQueue DEF PoolInv, HeldOnce, QueuedOnce
  <2>2. CASE /\ chan' = [chan EXCEPT ![q] = Append(chan[q], f)]
             /\ stage'[f] = "queued"
    <3>1. \A r \in Runs : \A i \in 1 .. Len(chan[r]) :
            chan[r][i] \in Firings /\ chan[r][i] # f
      BY <1>1, NotInQueue
    <3>2. SUFFICES ASSUME NEW r \in Runs, NEW i \in 1 .. Len(chan'[r])
                   PROVE  /\ stage'[chan'[r][i]] = "queued"
                          /\ chanOf[chan'[r][i]] = r
                          /\ \A j \in 1 .. Len(chan'[r]) : chan'[r][i] = chan'[r][j] => i = j
      BY <1>1 DEF QueuedOnce
    <3>3. CASE r # q
      <4>1. chan'[r] = chan[r]
        BY <2>2, <3>3 DEF PoolInv, TypeOK
      <4>. QED
        BY <1>1, <3>1, <4>1 DEF PoolInv, HeldOnce, QueuedOnce
    <3>4. CASE r = q
      <4>1. chan'[r] = Append(chan[q], f)
        BY <1>1, <2>2, <3>4 DEF PoolInv, TypeOK
      <4>2. /\ Len(chan'[r]) = Len(chan[q]) + 1
            /\ \A j \in 1 .. Len(chan[q]) : chan'[r][j] = chan[q][j]
            /\ chan'[r][Len(chan[q]) + 1] = f
            /\ Len(chan[q]) \in Nat
        BY <1>1, <4>1
      <4>3. \A j \in 1 .. Len(chan'[r]) : j \in 1 .. Len(chan[q]) \/ j = Len(chan[q]) + 1
        BY <4>2
      <4>4. CASE i = Len(chan[q]) + 1
        BY <1>1, <2>2, <3>1, <3>4, <4>2, <4>3, <4>4
      <4>5. CASE i \in 1 .. Len(chan[q])
        <5>1. /\ stage[chan[q][i]] = "queued" /\ chanOf[chan[q][i]] = q
              /\ \A j \in 1 .. Len(chan[q]) : chan[q][i] = chan[q][j] => i = j
          BY <1>1, <4>5 DEF PoolInv, HeldOnce, QueuedOnce
        <5>2. chan'[r][i] = chan[q][i] /\ chan[q][i] \in Firings /\ chan[q][i] # f
          BY <1>1, <3>1, <4>2, <4>5
        <5>. QED
          BY <1>1, <3>4, <4>2, <4>3, <5>1, <5>2
      <4>. QED
        BY <4>3, <4>4, <4>5
    <3>. QED
      BY <3>3, <3>4
  <2>. QED
    BY <1>2, <2>1, <2>2
<1>7. TakenOnce'
  BY <1>1 DEF PoolInv, HeldOnce, TakenOnce, Busy
<1>8. RunningHasWorker'
  BY <1>1 DEF PoolInv, RunningHasWorker, Busy
<1>. QED
  BY <1>4, <1>5, <1>6, <1>7, <1>8 DEF PoolInv, HeldOnce

---------------------------------------------------------------------------
(* The steps of a worker                                                   *)

\* A step that moves a worker without giving it a task or taking its task.
LEMMA MovePoolInv ==
  ASSUME PoolInv, NEW r \in Runs, NEW w \in Workers,
         NEW to \in LiveStates \cup {"gone"}, NEW n \in 0 .. RetryMax + 1,
         UNCHANGED <<lifecycleVars, firingVars, chan, task, late, running>>,
         wk' = [wk EXCEPT ![r][w] = to],
         attempt' = [attempt EXCEPT ![r][w] = n],
         Live(r, w), Busy(r, w) <=> to \in BusyStates,
         to = "backoff" => n <= RetryMax
  PROVE  PoolInv'
<1>1. /\ \A s \in Runs, v \in Workers :
           wk'[s][v] = IF s = r /\ v = w THEN to ELSE wk[s][v]
      /\ \A s \in Runs, v \in Workers :
           attempt'[s][v] = IF s = r /\ v = w THEN n ELSE attempt[s][v]
      /\ wk' \in [Runs -> [Workers -> LiveStates \cup {"absent", "gone"}]]
      /\ attempt' \in [Runs -> [Workers -> 0 .. RetryMax + 1]]
  BY DEF PoolInv, TypeOK
<1>2. \A s \in Runs, v \in Workers : Busy(s, v)' <=> Busy(s, v)
  BY <1>1 DEF Busy
<1>3. \A s \in Runs, v \in Workers : Live(s, v)' => Live(s, v)
  BY <1>1 DEF Live
<1>4. TypeOK' /\ Counters' /\ FiringsNamed'
  BY <1>1 DEF PoolInv, TypeOK, Counters, FiringsNamed, lifecycleVars, firingVars, LifecycleTypeOK
<1>5. BackoffLeft'
  BY <1>1 DEF PoolInv, BackoffLeft
<1>6. OneWorkerPool'
  BY <1>3 DEF PoolInv, OneWorkerPool, lifecycleVars
<1>7. QueuedOnce' /\ TakenOnce'
  BY <1>2 DEF PoolInv, HeldOnce, QueuedOnce, TakenOnce, firingVars
<1>8. RunningHasWorker'
  BY <1>2 DEF PoolInv, RunningHasWorker, firingVars
<1>. QED
  BY <1>4, <1>5, <1>6, <1>7, <1>8 DEF PoolInv, HeldOnce

\* The end of execOne: the firing is over and in nobody's hands; flags of other
\* schedules keep their workers.
LEMMA LeavePoolInv ==
  ASSUME PoolInv, NEW r \in Runs, NEW w \in Workers, Busy(r, w),
         NEW outcome \in EndStages, NEW to \in {"loop", "gone"},
         Leave(r, w, outcome, to)
  PROVE  PoolInv'
<1> DEFINE f == task[r][w]
<1>1. f \in Firings /\ stage[f] = "taken" /\ nameOf[f] \in Names
  BY DEF PoolInv, HeldOnce, TakenOnce, FiringsNamed
<1>2. /\ UNCHANGED <<lifecycleVars, nameOf, cronOf, chanOf, bornIn, chan, late>>
      /\ \A g \in Firings : stage'[g] = IF g = f THEN outcome ELSE stage[g]
      /\ \A n \in Names : running'[n] = IF n = nameOf[f] THEN FALSE ELSE running[n]
      /\ \A s \in Runs, v \in Workers : s # r \/ v # w =>
           wk'[s][v] = wk[s][v] /\ task'[s][v] = task[s][v] /\ attempt'[s][v] = attempt[s][v]
      /\ wk'[r][w] = to
  BY <1>1 DEF Leave, PoolInv, TypeOK
<1>3. TypeOK'
  BY <1>1, <1>2, PoolAssumption DEF Leave, PoolInv, TypeOK, Stages, LiveStates,
     lifecycleVars, LifecycleTypeOK
<1>4. ~Busy(r, w)' /\ \A s \in Runs, v \in Workers : s # r \/ v # w => (Busy(s, v)' <=> Busy(s, v))
  BY <1>2 DEF Busy, BusyStates
<1>5. \A s \in Runs, v \in Workers : Live(s, v)' => Live(s, v)
  BY <1>2 DEF Live, Busy, LiveStates
<1>6. Counters' /\ FiringsNamed' /\ OneWorkerPool'
  BY <1>1, <1>2, <1>5 DEF PoolInv, Counters, FiringsNamed, OneWorkerPool, lifecycleVars, EndStages
<1>7. BackoffLeft'
  BY <1>2 DEF PoolInv, BackoffLeft
<1>8. QueuedOnce'
  BY <1>1, <1>2, NotInQueue DEF PoolInv, HeldOnce, QueuedOnce
<1>9. TakenOnce'
  BY <1>1, <1>2, <1>4 DEF PoolInv, HeldOnce, TakenOnce
<1>10. RunningHasWorker'
  <2> SUFFICES ASSUME NEW n \in Names, running'[n]
               PROVE  \E s \in Runs, v \in Workers : Busy(s, v)' /\ nameOf'[task'[s][v]] = n
    BY DEF RunningHasWorker
  <2>1. n # nameOf[f] /\ running[n]
    BY <1>2
  <2>2. PICK s \in Runs, v \in Workers : Busy(s, v) /\ nameOf[task[s][v]] = n
    BY <2>1 DEF PoolInv, RunningHasWorker
  <2>3. s # r \/ v # w
    BY <2>1, <2>2
  <2>. QED
    BY <1>2, <1>4, <2>2, <2>3
<1>. QED
  BY <1>3, <1>6, <1>7, <1>8, <1>9, <1>10 DEF PoolInv, HeldOnce

\* A receive: the head of the queue passes into the hands of the worker.
LEMMA WorkerTakePoolInv ==
  ASSUME PoolInv, NEW r \in Runs, NEW w \in Workers, WorkerTake(r, w)
  PROVE  PoolInv'
<1> DEFINE f == Head(chan[r])
<1>1. /\ chan[r] \in Seq(Firings) /\ chan[r] # <<>>
      /\ Len(chan[r]) \in Nat \ {0} /\ f = chan[r][1]
      /\ Tail(chan[r]) \in Seq(Firings) /\ Len(Tail(chan[r])) = Len(chan[r]) - 1
      /\ \A i \in 1 .. Len(Tail(chan[r])) : Tail(chan[r])[i] = chan[r][i + 1]
  BY DEF WorkerTake, PoolInv, TypeOK
<1>2. f \in Firings /\ stage[f] = "queued" /\ chanOf[f] = r /\ nameOf[f] \in Names
  BY <1>1 DEF PoolInv, HeldOnce, QueuedOnce, FiringsNamed
<1>3. /\ UNCHANGED <<lifecycleVars, nameOf, cronOf, chanOf, bornIn, attempt>>
      /\ \A g \in Firings : stage'[g] = IF g = f THEN "taken" ELSE stage[g]
      /\ \A n \in Names : n # nameOf[f] => running'[n] = running[n]
      /\ \A s \in Runs, v \in Workers : s # r \/ v # w =>
           wk'[s][v] = wk[s][v] /\ task'[s][v] = task[s][v]
      /\ wk[r][w] = "select" /\ wk'[r][w] = "config" /\ task'[r][w] = f
      /\ \A s \in Runs : chan'[s] = IF s = r THEN Tail(chan[r]) ELSE chan[s]
  BY <1>2 DEF WorkerTake, PoolInv, TypeOK
<1>4. TypeOK'
  <2>1. /\ stage' \in [Firings -> Stages]
        /\ wk' \in [Runs -> [Workers -> LiveStates \cup {"absent", "gone"}]]
        /\ task' \in [Runs -> [Workers -> Firings \cup {None}]]
    BY <1>2 DEF WorkerTake, PoolInv, TypeOK, Stages, LiveStates, BusyStates
  <2>2. running' \in [Names -> BOOLEAN]
    BY DEF WorkerTake, PoolInv, TypeOK
  <2>3. chan' \in [Runs -> Seq(Firings)]
    BY <1>1 DEF WorkerTake, PoolInv, TypeOK
  <2>4. \A s \in Runs : Len(chan'[s]) <= QueueCap
    <3>1. \A s \in Runs : Len(chan[s]) <= QueueCap
      BY DEF PoolInv, TypeOK
    <3>2. Len(Tail(chan[r])) <= QueueCap
      BY <1>1, <3>1, PoolAssumption
    <3>. QED
      BY <1>3, <3>1, <3>2
  <2>5. late' \in [Runs -> [Workers -> Nat]]
    BY DEF WorkerTake, PoolInv, TypeOK
  <2>. QED
    BY <1>3, <2>1, <2>2, <2>3, <2>4, <2>5 DEF PoolInv, TypeOK, lifecycleVars, LifecycleTypeOK
<1>5. /\ Busy(r, w)' /\ ~Busy(r, w) /\ Live(r, w)
      /\ \A s \in Runs, v \in Workers : s # r \/ v # w =>
           (Busy(s, v)' <=> Busy(s, v)) /\ (Live(s, v)' <=> Live(s, v))
  BY <1>3 DEF Busy, Live, LiveStates, BusyStates
<1>6. Counters' /\ FiringsNamed' /\ OneWorkerPool'
  BY <1>2, <1>3, <1>5 DEF PoolInv, Counters, FiringsNamed, OneWorkerPool, lifecycleVars
<1>7. BackoffLeft'
  BY <1>3 DEF PoolInv, BackoffLeft
<1>8. QueuedOnce'
  <2> SUFFICES ASSUME NEW s \in Runs, NEW i \in 1 .. Len(chan'[s])
               PROVE  /\ stage'[chan'[s][i]] = "queued"
                      /\ chanOf[chan'[s][i]] = s
                      /\ \A j \in 1 .. Len(chan'[s]) : chan'[s][i] = chan'[s][j] => i = j
    BY <1>3 DEF QueuedOnce
  <2>1. CASE s # r
    <3>1. chan'[s] = chan[s] /\ chan[s][i] \in Firings
      BY <1>3, <2>1 DEF PoolInv, TypeOK
    <3>2. /\ stage[chan[s][i]] = "queued" /\ chanOf[chan[s][i]] = s
          /\ \A j \in 1 .. Len(chan[s]) : chan[s][i] = chan[s][j] => i = j
      BY <3>1 DEF PoolInv, HeldOnce, QueuedOnce
    <3>. QED
      BY <1>2, <1>3, <2>1, <3>1, <3>2
  <2>2. CASE s = r
    <3>1. /\ i + 1 \in 1 .. Len(chan[r]) /\ chan'[s][i] = chan[r][i + 1]
          /\ \A j \in 1 .. Len(chan'[s]) :
               j + 1 \in 1 .. Len(chan[r]) /\ chan'[s][j] = chan[r][j + 1]
      <4>1. chan'[s] = Tail(chan[r])
        BY <1>3, <2>2
      <4>2. \A j \in 1 .. Len(Tail(chan[r])) : j + 1 \in 1 .. Len(chan[r])
        BY <1>1
      <4>. QED
        BY <1>1, <4>1, <4>2
    <3>2. /\ stage[chan[r][i + 1]] = "queued" /\ chanOf[chan[r][i + 1]] = r
          /\ \A j \in 1 .. Len(chan[r]) : chan[r][i + 1] = chan[r][j] => i + 1 = j
      BY <3>1 DEF PoolInv, HeldOnce, QueuedOnce
    <3>3. 1 \in 1 .. Len(chan[r]) /\ i \in Nat /\ i + 1 # 1
      BY <1>1
    <3>4. chan[r][i + 1] # f /\ chan[r][i + 1] \in Firings
      BY <1>1, <3>1, <3>2, <3>3
    <3>5. \A j \in 1 .. Len(chan'[s]) : chan'[s][i] = chan'[s][j] => i = j
      BY <3>1, <3>2
    <3>. QED
      BY <1>3, <2>2, <3>1, <3>2, <3>4, <3>5
  <2>. QED
    BY <2>1, <2>2
<1>9. TakenOnce'
  <2>1. \A s \in Runs, v \in Workers : Busy(s, v) => task[s][v] \in Firings \ {f}
    BY <1>2, NotWithWorker
  <2>. QED
    BY <1>2, <1>3, <1>5, <2>1 DEF PoolInv, HeldOnce, TakenOnce
<1>10. RunningHasWorker'
  <2> SUFFICES ASSUME NEW n \in Names, running'[n]
               PROVE  \E s \in Runs, v \in Workers : Busy(s, v)' /\ nameOf'[task'[s][v]] = n
    BY DEF RunningHasWorker
  <2>1. CASE n = nameOf[f]
    BY <1>3, <1>5, <2>1
  <2>2. CASE n # nameOf[f]
    <3>1. PICK s \in Runs, v \in Workers : Busy(s, v) /\ nameOf[task[s][v]] = n
      BY <1>3, <2>2 DEF PoolInv, RunningHasWorker
    <3>2. s # r \/ v # w
      BY <1>5, <3>1
    <3>. QED
      BY <1>3, <1>5, <3>1, <3>2
  <2>. QED
    BY <2>1, <2>2
<1>. QED
  BY <1>4, <1>6, <1>7, <1>8, <1>9, <1>10 DEF PoolInv, HeldOnce

\* The other steps of a worker are moves or leave execOne.
LEMMA WorkerStepPoolInv ==
  ASSUME PoolInv, NEW r \in Runs, NEW w \in Workers, WorkerStep(r, w)
  PROVE  PoolInv'
<1> DEFINE a == attempt[r][w]
<1>1. /\ a \in 0 .. RetryMax + 1 /\ RetryMax \in Nat
      /\ attempt = [attempt EXCEPT ![r][w] = a]
  BY PoolAssumption DEF PoolInv, TypeOK
<1>2. \A s \in LiveStates : wk[r][w] = s => Live(r, w) /\ (Busy(r, w) <=> s \in BusyStates)
  BY DEF Live, Busy
<1>3. CASE WorkerLoop(r, w) \/ WorkerExit(r, w)
  <2>1. PICK to \in {"gone", "select"} : wk' = [wk EXCEPT ![r][w] = to]
    BY <1>3 DEF WorkerLoop, WorkerExit
  <2>2. /\ wk[r][w] \in {"loop", "select"} /\ attempt' = [attempt EXCEPT ![r][w] = a]
        /\ UNCHANGED <<lifecycleVars, firingVars, chan, task, late, running>>
    BY <1>1, <1>3 DEF WorkerLoop, WorkerExit
  <2>. QED
    <3>1. /\ to \in LiveStates \cup {"gone"} /\ to \notin BusyStates /\ to # "backoff"
          /\ Live(r, w) /\ ~Busy(r, w)
      BY <2>2 DEF Live, Busy, LiveStates, BusyStates
    <3>. QED
      BY <1>1, <2>1, <2>2, <3>1, MovePoolInv
<1>4. CASE WorkerTake(r, w)
  BY <1>4, WorkerTakePoolInv
<1>5. CASE ReadConfig(r, w)
  <2>1. 1 \in 0 .. RetryMax + 1
    BY <1>1
  <2>. QED
    <3>1. Live(r, w) /\ Busy(r, w) /\ "attempt" \in BusyStates /\ "attempt" \in LiveStates
      BY <1>5 DEF ReadConfig, Live, Busy, LiveStates, BusyStates
    <3>2. /\ UNCHANGED <<lifecycleVars, firingVars, chan, task, late, running>>
          /\ wk' = [wk EXCEPT ![r][w] = "attempt"]
          /\ attempt' = [attempt EXCEPT ![r][w] = 1]
      BY <1>5 DEF ReadConfig
    <3>. QED
      BY <2>1, <3>1, <3>2, MovePoolInv
<1>6. CASE Succeed(r, w)
  BY <1>2, <1>6, LeavePoolInv DEF Succeed, LiveStates, BusyStates, EndStages
<1>7. CASE Fail(r, w)
  <2>1. CASE Leave(r, w, "failed", "loop")
    BY <1>2, <1>7, <2>1, LeavePoolInv DEF Fail, LiveStates, BusyStates, EndStages
  <2>2. CASE /\ a < RetryMax + 1
             /\ wk' = [wk EXCEPT ![r][w] = "backoff"]
             /\ UNCHANGED <<lifecycleVars, firingVars, chan, task, attempt, late, running>>
    <3>1. a <= RetryMax /\ attempt' = [attempt EXCEPT ![r][w] = a]
      BY <1>1, <2>2
    <3>. QED
      BY <1>1, <1>2, <1>7, <2>2, <3>1, MovePoolInv DEF Fail, LiveStates, BusyStates
  <2>. QED
    BY <1>7, <2>1, <2>2 DEF Fail
<1>8. CASE Panic(r, w)
  BY <1>2, <1>8, LeavePoolInv DEF Panic, LiveStates, BusyStates, EndStages
<1>9. CASE BackoffAbort(r, w)
  BY <1>2, <1>9, LeavePoolInv DEF BackoffAbort, LiveStates, BusyStates, EndStages
<1>10. CASE Retry(r, w)
  <2>1. a <= RetryMax
    BY <1>10 DEF Retry, PoolInv, BackoffLeft
  <2>2. a + 1 \in 0 .. RetryMax + 1 /\ attempt' = [attempt EXCEPT ![r][w] = a + 1]
    BY <1>1, <1>10, <2>1 DEF Retry
  <2>. QED
    <3>1. Live(r, w) /\ Busy(r, w) /\ "attempt" \in BusyStates /\ "attempt" \in LiveStates
      BY <1>10 DEF Retry, Live, Busy, LiveStates, BusyStates
    <3>2. /\ UNCHANGED <<lifecycleVars, firingVars, chan, task, late, running>>
          /\ wk' = [wk EXCEPT ![r][w] = "attempt"]
      BY <1>10 DEF Retry
    <3>. QED
      BY <2>2, <3>1, <3>2, MovePoolInv
<1>. QED
  BY <1>3, <1>4, <1>5, <1>6, <1>7, <1>8, <1>9, <1>10 DEF WorkerStep

---------------------------------------------------------------------------
(* The theorems                                                            *)

\* No step of the pool, of cron or of the callers breaks the invariant.
LEMMA NextPoolInv == PoolInv /\ [Next]_vars => PoolInv'
<1> SUFFICES ASSUME PoolInv, [Next]_vars PROVE PoolInv'
  OBVIOUS
<1>1. CASE Start
  BY <1>1, StartPoolInv
<1>2. CASE StopFinish
  BY <1>2, StopFinishPoolInv
<1>3. CASE Lifecycle
  BY <1>3, LifecyclePoolInv
<1>4. CASE \E k \in Crons, n \in Names, f \in Firings : Tick(k, n, f)
  BY <1>4, TickPoolInv
<1>5. CASE \E f \in Firings : JobStep(f)
  BY <1>5, CheckOverlapPoolInv, ReadQueuePoolInv, SendPoolInv DEF JobStep
<1>6. CASE \E r \in Runs, w \in Workers : WorkerStep(r, w)
  BY <1>6, WorkerStepPoolInv
<1>7. CASE UNCHANGED vars
  BY <1>7 DEF vars, lifecycleVars, firingVars, workerVars, PoolInv, TypeOK, LifecycleTypeOK,
     Counters, FiringsNamed, BackoffLeft, OneWorkerPool, HeldOnce, QueuedOnce, TakenOnce,
     RunningHasWorker, Live, Busy
<1>. QED
  BY <1>1, <1>2, <1>3, <1>4, <1>5, <1>6, <1>7 DEF Next

\* The inductive invariant of the scheduler's pool (service.go, worker.go).
THEOREM PoolInvariant == Spec => []PoolInv
<1>1. Init => PoolInv
  BY InitPoolInv
<1>2. PoolInv /\ [Next]_vars => PoolInv'
  BY NextPoolInv
<1>. QED
  BY <1>1, <1>2, PTL DEF Spec

\* Every variable keeps its type; in particular a queue never exceeds its
\* capacity and a task is never attempted more than RetryMax + 1 times.
THEOREM TypeCorrect == Spec => []TypeOK
<1>1. PoolInv => TypeOK
  BY DEF PoolInv
<1>. QED
  BY <1>1, PoolInvariant, PTL

\* Start never creates a second worker pool beside a living one, however its
\* calls interleave with those of Stop and Apply (service.go:59).
THEOREM SingleWorkerPool == Spec => []OneWorkerPool
<1>1. PoolInv => OneWorkerPool
  BY DEF PoolInv
<1>. QED
  BY <1>1, PoolInvariant, PTL

\* No firing is in two places, so that no task is executed twice (worker.go).
THEOREM ExecutedOnce == Spec => []HeldOnce
<1>1. PoolInv => HeldOnce
  BY DEF PoolInv
<1>. QED
  BY <1>1, PoolInvariant, PTL

\* No error, panic or stop leaves a running flag set (worker.go:57-66).
THEOREM FlagsAreBacked == Spec => []RunningHasWorker
<1>1. PoolInv => RunningHasWorker
  BY DEF PoolInv
<1>. QED
  BY <1>1, PoolInvariant, PTL

---------------------------------------------------------------------------
(* What a step of a worker is                                              *)

\* A worker goes on without taking a firing or leaving one: to its select only
\* when it is not told to stop, and away only when it is.
Moves(r, w) ==
  /\ UNCHANGED <<stage, chan, task, late>>
  /\ Live(r, w)
  /\ Busy(r, w)' <=> Busy(r, w)
  /\ wk'[r][w] = "select" => ~ToldToStop(r)
  /\ wk'[r][w] = "gone" => ToldToStop(r)

\* The worker leaves execOne, and its loop too when the job has panicked.
Leaves(r, w) ==
  /\ Busy(r, w)
  /\ \E outcome \in {"ok", "failed", "panicked"} :
       Leave(r, w, outcome, IF outcome = "panicked" THEN "gone" ELSE "loop")

\* A step of a worker is one of three kinds and leaves all other workers alone.
LEMMA WorkerStepKinds ==
  ASSUME PoolInv, NEW r \in Runs, NEW w \in Workers, WorkerStep(r, w)
  PROVE  /\ Moves(r, w) \/ WorkerTake(r, w) \/ Leaves(r, w)
         /\ UNCHANGED <<lifecycleVars, nameOf, cronOf, chanOf, bornIn>>
         /\ \A s \in Runs, v \in Workers : s # r \/ v # w =>
              wk'[s][v] = wk[s][v] /\ task'[s][v] = task[s][v] /\ late'[s][v] = late[s][v]
<1>1. /\ wk \in [Runs -> [Workers -> LiveStates \cup {"absent", "gone"}]]
      /\ task \in [Runs -> [Workers -> Firings \cup {None}]]
      /\ late \in [Runs -> [Workers -> Nat]]
  BY DEF PoolInv, TypeOK
<1>2. ASSUME NEW to, wk' = [wk EXCEPT ![r][w] = to]
      PROVE  /\ wk'[r][w] = to
             /\ \A s \in Runs, v \in Workers : s # r \/ v # w => wk'[s][v] = wk[s][v]
  BY <1>1, <1>2
<1>3. CASE WorkerLoop(r, w) \/ WorkerExit(r, w)
  <2>1. wk[r][w] \in {"loop", "select"} /\ UNCHANGED <<lifecycleVars, firingVars, chan, task, late>>
    BY <1>3 DEF WorkerLoop, WorkerExit
  <2>2. wk' = [wk EXCEPT ![r][w] = IF ToldToStop(r) THEN "gone" ELSE "select"]
    BY <1>3 DEF WorkerLoop, WorkerExit
  <2>3. CASE ToldToStop(r)
    <3>1. wk'[r][w] = "gone" /\ \A s \in Runs, v \in Workers : s # r \/ v # w => wk'[s][v] = wk[s][v]
      BY <1>2, <2>2, <2>3
    <3>. QED
      BY <2>1, <2>3, <3>1 DEF Moves, Live, Busy, LiveStates, BusyStates, firingVars
  <2>4. CASE ~ToldToStop(r)
    <3>1. wk'[r][w] = "select" /\ \A s \in Runs, v \in Workers : s # r \/ v # w => wk'[s][v] = wk[s][v]
      BY <1>2, <2>2, <2>4
    <3>. QED
      BY <2>1, <2>4, <3>1 DEF Moves, Live, Busy, LiveStates, BusyStates, firingVars
  <2>. QED
    BY <2>3, <2>4
<1>4. CASE ReadConfig(r, w) \/ Retry(r, w)
  <2>1. /\ wk[r][w] \in {"config", "backoff"} /\ wk' = [wk EXCEPT ![r][w] = "attempt"]
        /\ UNCHANGED <<lifecycleVars, firingVars, chan, task, late>>
    BY <1>4 DEF ReadConfig, Retry
  <2>2. Moves(r, w)
    BY <1>2, <2>1 DEF Moves, Live, Busy, LiveStates, BusyStates, firingVars
  <2>. QED
    BY <1>2, <2>1, <2>2 DEF firingVars
<1>5. CASE /\ wk[r][w] = "attempt" /\ wk' = [wk EXCEPT ![r][w] = "backoff"]
           /\ UNCHANGED <<lifecycleVars, firingVars, chan, task, attempt, late, running>>
  <2>1. Moves(r, w)
    BY <1>2, <1>5 DEF Moves, Live, Busy, LiveStates, BusyStates, firingVars
  <2>. QED
    BY <1>2, <1>5, <2>1 DEF firingVars
<1>6. ASSUME NEW outcome \in {"ok", "failed", "panicked"}, Busy(r, w),
             Leave(r, w, outcome, IF outcome = "panicked" THEN "gone" ELSE "loop")
      PROVE  /\ Leaves(r, w)
             /\ UNCHANGED <<lifecycleVars, nameOf, cronOf, chanOf, bornIn, late>>
             /\ \A s \in Runs, v \in Workers : s # r \/ v # w =>
                  wk'[s][v] = wk[s][v] /\ task'[s][v] = task[s][v]
  BY <1>1, <1>6 DEF Leaves, Leave
<1>7. CASE Succeed(r, w) \/ Panic(r, w) \/ BackoffAbort(r, w)
           \/ (wk[r][w] = "attempt" /\ Leave(r, w, "failed", "loop"))
  <2>1. Busy(r, w)
    BY <1>7 DEF Succeed, Panic, BackoffAbort, Busy, BusyStates
  <2>2. \/ Leave(r, w, "ok", "loop") \/ Leave(r, w, "failed", "loop")
        \/ Leave(r, w, "panicked", "gone")
    BY <1>7 DEF Succeed, Panic, BackoffAbort
  <2>. QED
    BY <1>6, <2>1, <2>2
<1>8. CASE WorkerTake(r, w)
  BY <1>1, <1>8 DEF WorkerTake
<1>. QED
  BY <1>3, <1>4, <1>5, <1>7, <1>8 DEF WorkerStep, Fail

\* Steps that are no worker's and not Start's leave the workers alone.
LEMMA OthersLeaveWorkers ==
  ASSUME \/ StopFinish \/ Lifecycle
         \/ \E k \in Crons, n \in Names, f \in Firings : Tick(k, n, f)
         \/ \E f \in Firings : JobStep(f)
         \/ UNCHANGED vars
  PROVE  UNCHANGED workerVars
BY DEF StopFinish, Lifecycle, Tick, JobStep, CheckOverlap, ReadQueue, Send, vars

\* A run that was told to stop stays told, and a closed one closed.
LEMMA ToldForGood ==
  ASSUME PoolInv, [Next]_vars
  PROVE  /\ closed \subseteq closed' /\ runs <= runs'
         /\ \A r \in Runs : ToldToStop(r) => ToldToStop(r)'
<1>1. CASE Start
  BY <1>1 DEF Start, StartRun, ToldToStop, PoolInv, TypeOK, LifecycleTypeOK
<1>2. CASE StopFinish
  BY <1>2 DEF StopFinish, Finalize, ToldToStop, PoolInv, TypeOK, LifecycleTypeOK
<1>3. CASE Lifecycle
  BY <1>3 DEF Lifecycle, CancelApp, StopBegin, StopClose, StopCancel, StopHalt, StopDrain,
     StopTimers, ApplyRestart, ApplyResume, ToldToStop, PoolInv, TypeOK, LifecycleTypeOK
<1>4. CASE UNCHANGED lifecycleVars
  BY <1>4 DEF lifecycleVars, ToldToStop, PoolInv, TypeOK, LifecycleTypeOK
<1>5. ASSUME \/ \E k \in Crons, n \in Names, f \in Firings : Tick(k, n, f)
             \/ \E f \in Firings : JobStep(f)
             \/ \E r \in Runs, w \in Workers : WorkerStep(r, w)
             \/ UNCHANGED vars
      PROVE  UNCHANGED lifecycleVars
  BY <1>5, WorkerStepKinds DEF Tick, JobStep, CheckOverlap, ReadQueue, Send, vars
<1>. QED
  BY <1>1, <1>2, <1>3, <1>4, <1>5 DEF Next

---------------------------------------------------------------------------
(* One late task                                                           *)

\* A worker that has taken a task late is past its select for good.
LateIsPastSelect ==
  \A r \in Runs, w \in Workers : late[r][w] # 0 =>
    late[r][w] = 1 /\ r \in closed /\ wk[r][w] # "select"

\* WorkerLoop looks at the stop channel before every select, so a worker comes
\* to it once at most after the channel is closed.
LEMMA NextLate == PoolInv /\ LateIsPastSelect /\ [Next]_vars => LateIsPastSelect'
<1> SUFFICES ASSUME PoolInv, LateIsPastSelect, [Next]_vars,
                    NEW r \in Runs, NEW w \in Workers, late'[r][w] # 0
             PROVE  late'[r][w] = 1 /\ r \in closed' /\ wk'[r][w] # "select"
  BY DEF LateIsPastSelect
<1>1. closed \subseteq closed'
  BY ToldForGood
<1>2. CASE late'[r][w] = late[r][w] /\ (wk'[r][w] = "select" => wk[r][w] = "select")
  BY <1>1, <1>2 DEF LateIsPastSelect
<1>3. CASE Start
  <2>1. late' = late /\ wk'[r][w] \in {"loop", wk[r][w]}
    BY <1>3 DEF Start, PoolInv, TypeOK
  <2>. QED
    BY <1>2, <2>1
<1>4. CASE UNCHANGED workerVars
  BY <1>2, <1>4 DEF workerVars
<1>5. ASSUME NEW s \in Runs, NEW v \in Workers, WorkerStep(s, v)
      PROVE  late'[r][w] = 1 /\ r \in closed' /\ wk'[r][w] # "select"
  <2>1. CASE r # s \/ w # v
    BY <1>2, <1>5, <2>1, WorkerStepKinds
  <2>2. CASE r = s /\ w = v /\ Moves(r, w)
    BY <1>1, <2>2 DEF Moves, ToldToStop, LateIsPastSelect
  <2>3. CASE r = s /\ w = v /\ WorkerTake(r, w)
    <3>1. /\ late[r][w] = 0 /\ wk'[r][w] = "config"
          /\ late'[r][w] = IF r \in closed THEN late[r][w] + 1 ELSE late[r][w]
      BY <2>3 DEF WorkerTake, LateIsPastSelect, PoolInv, TypeOK
    <3>. QED
      BY <1>1, <3>1
  <2>4. CASE r = s /\ w = v /\ Leaves(r, w)
    <3>1. late'[r][w] = late[r][w] /\ wk'[r][w] \in {"loop", "gone"}
      BY <2>4 DEF Leaves, Leave, PoolInv, TypeOK
    <3>. QED
      BY <1>2, <3>1
  <2>. QED
    BY <1>5, <2>1, <2>2, <2>3, <2>4, WorkerStepKinds
<1>. QED
  BY <1>3, <1>4, <1>5, OthersLeaveWorkers DEF Next

\* The select may choose the queue over a closed stop channel, but once only for
\* each worker (worker.go:33-49).
THEOREM LateOnce == Spec => []OneLateTask
<1>1. Init => LateIsPastSelect
  BY DEF Init, LateIsPastSelect
<1>2. LateIsPastSelect => OneLateTask
  <2>1. \A n : (n # 0 => n = 1) => n <= 1
    OBVIOUS
  <2>. QED
    BY <2>1 DEF LateIsPastSelect, OneLateTask
<1>. QED
  BY <1>1, <1>2, NextLate, PoolInvariant, PTL DEF Spec

---------------------------------------------------------------------------
(* The pool shrinks only by panics                                         *)

\* A run that has not been started has no workers.
ToComeIsAbsent == \A r \in Runs, w \in Workers : r > runs => wk[r][w] = "absent"

\* Only Start makes a worker out of an absent one, and only of the next run.
LEMMA NextToCome == PoolInv /\ ToComeIsAbsent /\ [Next]_vars => ToComeIsAbsent'
<1> SUFFICES ASSUME PoolInv, ToComeIsAbsent, [Next]_vars,
                    NEW r \in Runs, NEW w \in Workers, r > runs'
             PROVE  wk'[r][w] = "absent"
  BY DEF ToComeIsAbsent
<1>1. r > runs /\ wk[r][w] = "absent"
  <2>1. runs <= runs' /\ runs \in Nat /\ runs' \in Nat /\ r \in Nat
    <3>1. runs \in Nat
      BY LifecycleAssumption DEF PoolInv, TypeOK, LifecycleTypeOK
    <3>2. runs' \in Nat
      BY NextPoolInv, LifecycleAssumption DEF PoolInv, TypeOK, LifecycleTypeOK
    <3>. QED
      BY <3>1, <3>2, ToldForGood, LifecycleAssumption DEF Runs
  <2>2. r > runs
    BY <2>1
  <2>. QED
    BY <2>2 DEF ToComeIsAbsent
<1>2. CASE Start
  <2>1. runs' = runs + 1 /\ wk' = [wk EXCEPT ![runs + 1] = [v \in Workers |-> "loop"]]
    BY <1>2 DEF Start, StartRun
  <2>2. r # runs + 1
    BY <2>1, LifecycleAssumption DEF Runs, PoolInv, TypeOK, LifecycleTypeOK
  <2>. QED
    BY <1>1, <2>1, <2>2 DEF PoolInv, TypeOK
<1>3. CASE UNCHANGED workerVars
  BY <1>1, <1>3 DEF workerVars
<1>4. ASSUME NEW s \in Runs, NEW v \in Workers, WorkerStep(s, v)
      PROVE  wk'[r][w] = "absent"
  <2>1. Live(s, v)
    <3>1. CASE Moves(s, v)
      BY <3>1 DEF Moves
    <3>2. CASE WorkerTake(s, v)
      BY <3>2 DEF WorkerTake, Live, LiveStates
    <3>3. CASE Leaves(s, v)
      BY <3>3 DEF Leaves, Busy, Live, LiveStates
    <3>. QED
      BY <1>4, <3>1, <3>2, <3>3, WorkerStepKinds
  <2>2. s # r \/ v # w
    BY <1>1, <2>1 DEF Live, LiveStates, BusyStates
  <2>. QED
    BY <1>1, <1>4, <2>2, WorkerStepKinds
<1>. QED
  BY <1>2, <1>3, <1>4, OthersLeaveWorkers DEF Next

GoneOf(r) == {w \in Workers : wk[r][w] = "gone"}
PanickedOf(r) == {f \in Firings : stage[f] = "panicked" /\ chanOf[f] = r}

\* Steps of firings, which are before their end, do not make one panicked.
LEMMA OthersPanicNothing ==
  ASSUME PoolInv,
         \/ Start \/ StopFinish \/ Lifecycle
         \/ \E k \in Crons, n \in Names, f \in Firings : Tick(k, n, f)
         \/ \E f \in Firings : JobStep(f)
         \/ UNCHANGED vars
  PROVE  \A r \in Runs : PanickedOf(r)' = PanickedOf(r)
<1>1. SUFFICES ASSUME NEW g \in Firings
               PROVE  /\ stage'[g] = "panicked" <=> stage[g] = "panicked"
                      /\ stage[g] = "panicked" => chanOf'[g] = chanOf[g]
  BY DEF PanickedOf
<1>2. CASE Start \/ StopFinish \/ Lifecycle \/ UNCHANGED vars
  BY <1>2 DEF Start, StopFinish, Lifecycle, firingVars, vars
<1>3. ASSUME NEW k \in Crons, NEW n \in Names, NEW f \in Firings, Tick(k, n, f)
      PROVE  /\ stage'[g] = "panicked" <=> stage[g] = "panicked"
             /\ stage[g] = "panicked" => chanOf'[g] = chanOf[g]
  BY <1>3 DEF Tick, PoolInv, TypeOK
<1>4. ASSUME NEW f \in Firings, JobStep(f)
      PROVE  /\ stage'[g] = "panicked" <=> stage[g] = "panicked"
             /\ stage[g] = "panicked" => chanOf'[g] = chanOf[g]
  BY <1>4 DEF JobStep, CheckOverlap, ReadQueue, Send, PoolInv, TypeOK
<1>. QED
  BY <1>2, <1>3, <1>4

\* A panic takes one worker and ends one firing of the same run; any other way
\* out is for a worker that is told to stop.
LEMMA NextShrinks ==
  PoolInv /\ ToComeIsAbsent /\ PoolShrinksOnlyByPanic /\ [Next]_vars => PoolShrinksOnlyByPanic'
<1> SUFFICES ASSUME PoolInv, ToComeIsAbsent, PoolShrinksOnlyByPanic, [Next]_vars,
                    NEW r \in Runs, ~ToldToStop(r)'
             PROVE  Cardinality(GoneOf(r)') = Cardinality(PanickedOf(r)')
  BY DEF PoolShrinksOnlyByPanic, GoneOf, PanickedOf
<1>1. ~ToldToStop(r) /\ Cardinality(GoneOf(r)) = Cardinality(PanickedOf(r))
  BY ToldForGood DEF PoolShrinksOnlyByPanic, GoneOf, PanickedOf
<1>2. IsFiniteSet(GoneOf(r)) /\ IsFiniteSet(PanickedOf(r))
  <2>1. GoneOf(r) \in SUBSET Workers /\ PanickedOf(r) \in SUBSET Firings
    BY DEF GoneOf, PanickedOf
  <2>. QED
    BY <2>1, FS_Subset, PoolAssumption
<1>3. CASE GoneOf(r)' = GoneOf(r) /\ PanickedOf(r)' = PanickedOf(r)
  BY <1>1, <1>3
<1>4. CASE Start
  <2>1. GoneOf(r)' = GoneOf(r)
    <3>1. wk' = [wk EXCEPT ![runs + 1] = [w \in Workers |-> "loop"]]
      BY <1>4 DEF Start
    <3>2. CASE r = runs + 1
      <4>1. \A w \in Workers : wk[r][w] = "absent"
        BY <3>2 DEF ToComeIsAbsent, PoolInv, TypeOK, LifecycleTypeOK
      <4>2. \A w \in Workers : wk'[r][w] = "loop"
        BY <3>1, <3>2 DEF PoolInv, TypeOK
      <4>. QED
        BY <4>1, <4>2 DEF GoneOf
    <3>3. CASE r # runs + 1
      <4>1. wk'[r] = wk[r]
        BY <3>1, <3>3 DEF PoolInv, TypeOK
      <4>. QED
        BY <4>1 DEF GoneOf
    <3>. QED
      BY <3>2, <3>3
  <2>. QED
    BY <1>3, <1>4, <2>1, OthersPanicNothing
<1>5. CASE \/ StopFinish \/ Lifecycle
           \/ \E k \in Crons, n \in Names, f \in Firings : Tick(k, n, f)
           \/ \E f \in Firings : JobStep(f)
           \/ UNCHANGED vars
  <2>1. wk' = wk
    BY <1>5, OthersLeaveWorkers DEF workerVars
  <2>2. GoneOf(r)' = GoneOf(r)
    BY <2>1 DEF GoneOf
  <2>. QED
    BY <1>3, <1>5, <2>2, OthersPanicNothing
<1>6. ASSUME NEW s \in Runs, NEW v \in Workers, WorkerStep(s, v)
      PROVE  Cardinality(GoneOf(r)') = Cardinality(PanickedOf(r)')
  <2>1. chanOf' = chanOf /\ \A x \in Runs, w \in Workers : x # s \/ w # v => wk'[x][w] = wk[x][w]
    BY <1>6, WorkerStepKinds
  <2>2. CASE Moves(s, v)
    <3>1. r = s => wk'[s][v] # "gone" /\ wk[s][v] # "gone"
      BY <1>1, <2>2 DEF Moves, Live, LiveStates, BusyStates
    <3>2. GoneOf(r)' = GoneOf(r)
      BY <2>1, <3>1 DEF GoneOf
    <3>3. PanickedOf(r)' = PanickedOf(r)
      BY <2>1, <2>2 DEF Moves, PanickedOf
    <3>. QED
      BY <1>3, <3>2, <3>3
  <2>3. CASE WorkerTake(s, v)
    <3>1. wk[s][v] # "gone" /\ wk'[s][v] # "gone"
      BY <2>3 DEF WorkerTake, PoolInv, TypeOK
    <3>2. GoneOf(r)' = GoneOf(r)
      BY <2>1, <3>1 DEF GoneOf
    <3>3. /\ Head(chan[s]) = chan[s][1] /\ 1 \in 1 .. Len(chan[s]) /\ chan[s][1] \in Firings
          /\ stage' = [stage EXCEPT ![Head(chan[s])] = "taken"]
      BY <2>3 DEF WorkerTake, PoolInv, TypeOK
    <3>4. stage[Head(chan[s])] = "queued"
      BY <3>3 DEF PoolInv, HeldOnce, QueuedOnce
    <3>5. \A g \in Firings : stage'[g] = "panicked" <=> stage[g] = "panicked"
      BY <3>3, <3>4 DEF PoolInv, TypeOK
    <3>6. PanickedOf(r)' = PanickedOf(r)
      BY <2>1, <3>5 DEF PanickedOf
    <3>. QED
      BY <1>3, <3>2, <3>6
  <2>4. ASSUME NEW outcome \in {"ok", "failed", "panicked"}, Busy(s, v),
               Leave(s, v, outcome, IF outcome = "panicked" THEN "gone" ELSE "loop")
        PROVE  Cardinality(GoneOf(r)') = Cardinality(PanickedOf(r)')
    <3> DEFINE f == task[s][v]
    <3>1. f \in Firings /\ stage[f] = "taken" /\ chanOf[f] = s /\ wk[s][v] # "gone"
      BY <2>4 DEF PoolInv, HeldOnce, TakenOnce, Busy, BusyStates
    <3>2. /\ \A g \in Firings : stage'[g] = IF g = f THEN outcome ELSE stage[g]
          /\ wk'[s][v] = IF outcome = "panicked" THEN "gone" ELSE "loop"
      BY <2>4, <3>1 DEF Leave, PoolInv, TypeOK
    <3>3. CASE r # s \/ outcome # "panicked"
      <4>1. GoneOf(r)' = GoneOf(r)
        BY <2>1, <3>1, <3>2, <3>3 DEF GoneOf
      <4>2. PanickedOf(r)' = PanickedOf(r)
        BY <2>1, <3>1, <3>2, <3>3 DEF PanickedOf
      <4>. QED
        BY <1>3, <4>1, <4>2
    <3>4. CASE r = s /\ outcome = "panicked"
      <4>1. GoneOf(r)' = GoneOf(r) \cup {v} /\ v \notin GoneOf(r)
        BY <2>1, <3>1, <3>2, <3>4 DEF GoneOf
      <4>2. PanickedOf(r)' = PanickedOf(r) \cup {f} /\ f \notin PanickedOf(r)
        BY <2>1, <3>1, <3>2, <3>4 DEF PanickedOf
      <4>3. Cardinality(GoneOf(r)') = Cardinality(GoneOf(r)) + 1
        BY <1>2, <4>1, FS_AddElement
      <4>4. Cardinality(PanickedOf(r)') = Cardinality(PanickedOf(r)) + 1
        BY <1>2, <4>2, FS_AddElement
      <4>. QED
        BY <1>1, <4>3, <4>4
    <3>. QED
      BY <3>3, <3>4
  <2>. QED
    BY <1>6, <2>2, <2>3, <2>4, WorkerStepKinds DEF Leaves
<1>. QED
  BY <1>4, <1>5, <1>6 DEF Next

\* Until it is told to stop, a run has lost as many workers as firings of it have
\* panicked: nothing restarts a worker, and nothing else ends one (service.go:104-118).
THEOREM PanicsAlone == Spec => []PoolShrinksOnlyByPanic
<1>1. Init => ToComeIsAbsent
  BY DEF Init, ToComeIsAbsent
<1>2. Init => PoolShrinksOnlyByPanic
  <2> SUFFICES ASSUME Init, NEW r \in Runs PROVE Cardinality(GoneOf(r)) = Cardinality(PanickedOf(r))
    BY DEF PoolShrinksOnlyByPanic, GoneOf, PanickedOf
  <2>1. GoneOf(r) = {} /\ PanickedOf(r) = {}
    BY DEF Init, GoneOf, PanickedOf
  <2>. QED
    BY <2>1
<1>. QED
  BY <1>1, <1>2, NextToCome, NextShrinks, PoolInvariant, PTL DEF Spec

---------------------------------------------------------------------------
(* Unless the time zone changes during a Stop: fresh tasks, quiet after one *)

\* What breaks both: Apply restarts the cron while a Stop is in progress, which
\* has taken s.c, so that no Stop will find the new cron (service.go:44).
RestartsInStop == stopPC # "idle" /\ ApplyRestart

\* The cron of the current run: s.c until Stop takes it.
OwnCron == IF stopPC = "idle" THEN c ELSE stopCron

\* No other cron ticks, and this one does not while Apply replaces it or once Stop
\* has halted it.
CronOfRun ==
  /\ ticking \subseteq {OwnCron} /\ 0 \notin ticking
  /\ mu = "apply" \/ stopPC \notin {"idle", "close", "cancel", "halt"} => ticking = {}
  /\ c # 0 <=> cur # 0 /\ stopPC = "idle"
  /\ mu = "apply" => c # 0

\* A cron job under way is one of the current run's cron.
JobsOfRun ==
  \A f \in Firings : stage[f] \in JobStages =>
    /\ cur # 0 /\ cronOf[f] = OwnCron /\ bornIn[f] = cur
    /\ stopPC \in {"idle", "close", "cancel", "halt", "drain"}

\* A firing is sent to the queue of the run in which it ticked.
QueuedWhereBorn ==
  \A f \in Firings : stage[f] \in {"send", "queued", "taken"} => chanOf[f] = bornIn[f]

RunInv == CronOfRun /\ JobsOfRun /\ QueuedWhereBorn

\* No step but a restart during a Stop breaks it.
LEMMA NextRunInv ==
  ASSUME PoolInv, RunInv, [Next]_vars, ~RestartsInStop
  PROVE  RunInv'
<1>1. /\ runs \in Nat /\ crons \in Nat /\ cur \in Nat /\ c \in Nat /\ queue = cur
      /\ (stopPC # "idle" => cur # 0)
  BY LifecycleAssumption DEF PoolInv, TypeOK, LifecycleTypeOK, Counters, Runs, Crons
<1>2. CASE UNCHANGED firingVars /\ CronOfRun' /\ JobsOfRun'
  BY <1>2 DEF RunInv, QueuedWhereBorn, firingVars
<1>3. CASE Start
  <2>1. /\ cur = 0 /\ mu = "free" /\ cur' = runs + 1 /\ c' = crons + 1 /\ stopPC' = stopPC
        /\ ticking' = ticking \cup {crons + 1} /\ mu' = mu /\ UNCHANGED firingVars
    BY <1>3 DEF Start, StartRun, NewCron
  <2>2. stopPC = "idle" /\ ticking = {}
    BY <1>1, <2>1 DEF RunInv, CronOfRun, OwnCron
  <2>3. CronOfRun'
    BY <1>1, <2>1, <2>2 DEF CronOfRun, OwnCron
  <2>4. JobsOfRun'
    BY <2>1 DEF RunInv, JobsOfRun, firingVars
  <2>. QED
    BY <1>2, <2>1, <2>3, <2>4
<1>4. CASE StopFinish
  <2>1. /\ stopPC = "wait" /\ stopPC' = "idle" /\ cur' = 0 /\ mu = "free"
        /\ UNCHANGED <<c, ticking, mu, firingVars>>
    BY <1>4 DEF StopFinish, Finalize
  <2>2. c = 0 /\ ticking = {}
    BY <1>1, <2>1 DEF RunInv, CronOfRun
  <2>3. CronOfRun'
    BY <2>1, <2>2 DEF CronOfRun, OwnCron
  <2>4. JobsOfRun'
    BY <2>1 DEF RunInv, JobsOfRun, firingVars
  <2>. QED
    BY <1>2, <2>1, <2>3, <2>4
<1>5. CASE Lifecycle
  <2>1. UNCHANGED firingVars
    BY <1>5 DEF Lifecycle
  <2>2. CASE CancelApp \/ StopClose \/ StopCancel \/ StopHalt \/ StopTimers
    BY <2>1, <2>2 DEF RunInv, CronOfRun, OwnCron, JobsOfRun, QueuedWhereBorn, firingVars,
       CancelApp, StopClose, StopCancel, StopHalt, StopTimers
  <2>3. CASE StopBegin
    <3>1. /\ mu = "free" /\ cur # 0 /\ stopPC = "idle" /\ stopPC' = "close"
          /\ stopCron' = c /\ c' = 0 /\ UNCHANGED <<cur, ticking, mu>>
      BY <2>3 DEF StopBegin
    <3>2. OwnCron' = OwnCron
      BY <3>1 DEF OwnCron
    <3>3. CronOfRun'
      BY <3>1, <3>2 DEF RunInv, CronOfRun
    <3>4. JobsOfRun'
      BY <2>1, <3>1, <3>2 DEF RunInv, JobsOfRun, firingVars
    <3>. QED
      BY <1>2, <2>1, <3>3, <3>4
  <2>4. CASE StopDrain(BusyCrons)
    <3>1. stopPC = "drain" /\ stopCron \notin BusyCrons /\ stopPC' = "timers"
          /\ UNCHANGED <<cur, c, ticking, mu>>
      BY <2>4 DEF StopDrain
    <3>2. \A f \in Firings : stage[f] \notin JobStages
      BY <3>1 DEF BusyCrons, RunInv, JobsOfRun, OwnCron
    <3>3. CronOfRun'
      BY <3>1 DEF RunInv, CronOfRun
    <3>4. JobsOfRun'
      BY <2>1, <3>2 DEF JobsOfRun, firingVars
    <3>. QED
      BY <1>2, <2>1, <3>3, <3>4
  <2>5. CASE ApplyRestart
    <3>1. stopPC = "idle" /\ mu = "free" /\ cur # 0 /\ UNCHANGED <<cur, stopPC, stopCron>>
      BY <2>5 DEF ApplyRestart, RestartsInStop
    <3>2. c # 0
      BY <3>1 DEF RunInv, CronOfRun
    <3>3. mu' = "apply" /\ ticking' = ticking \ {c} /\ c' = c
      BY <2>5, <3>2 DEF ApplyRestart
    <3>4. OwnCron = c /\ OwnCron' = c
      BY <3>1, <3>3 DEF OwnCron
    <3>5. CronOfRun'
      BY <3>1, <3>2, <3>3, <3>4 DEF RunInv, CronOfRun
    <3>6. JobsOfRun'
      BY <2>1, <3>1, <3>4 DEF RunInv, JobsOfRun, firingVars
    <3>. QED
      BY <1>2, <2>1, <3>5, <3>6
  <2>6. CASE ApplyResume(BusyCrons)
    <3>1. /\ mu = "apply" /\ c \notin BusyCrons /\ mu' = "free" /\ c' = crons + 1
          /\ ticking' = ticking \cup {crons + 1} /\ UNCHANGED <<cur, stopPC, stopCron>>
      BY <2>6 DEF ApplyResume, NewCron
    <3>2. c # 0 /\ cur # 0 /\ stopPC = "idle" /\ ticking = {}
      BY <3>1 DEF RunInv, CronOfRun
    <3>3. \A f \in Firings : stage[f] \notin JobStages
      BY <3>1, <3>2 DEF BusyCrons, RunInv, JobsOfRun, OwnCron
    <3>4. CronOfRun'
      BY <1>1, <3>1, <3>2 DEF CronOfRun, OwnCron
    <3>5. JobsOfRun'
      BY <2>1, <3>3 DEF JobsOfRun, firingVars
    <3>. QED
      BY <1>2, <2>1, <3>4, <3>5
  <2>. QED
    BY <1>5, <2>2, <2>3, <2>4, <2>5, <2>6 DEF Lifecycle
<1>6. CASE UNCHANGED <<lifecycleVars, nameOf, cronOf, chanOf, bornIn>>
           /\ \A f \in Firings : /\ stage'[f] \in JobStages => stage[f] \in JobStages
                                 /\ stage'[f] \in {"send", "queued", "taken"} =>
                                      stage[f] \in {"send", "queued", "taken"}
  BY <1>6 DEF RunInv, CronOfRun, OwnCron, JobsOfRun, QueuedWhereBorn, lifecycleVars
<1>7. ASSUME NEW k \in Crons, NEW n \in Names, NEW f \in Firings, Tick(k, n, f)
      PROVE  RunInv'
  <2>1. /\ k \in ticking /\ UNCHANGED <<lifecycleVars, chanOf>>
        /\ \A g \in Firings : g # f =>
             stage'[g] = stage[g] /\ cronOf'[g] = cronOf[g] /\ bornIn'[g] = bornIn[g]
        /\ stage'[f] \in {"check", "enqueue"} /\ cronOf'[f] = k /\ bornIn'[f] = cur
    BY <1>7 DEF Tick, PoolInv, TypeOK
  <2>2. k = OwnCron /\ k # 0 /\ stopPC \in {"idle", "close", "cancel", "halt"}
    BY <2>1 DEF RunInv, CronOfRun
  <2>3. cur # 0
    BY <1>1, <2>2 DEF RunInv, CronOfRun, OwnCron
  <2>4. CronOfRun' /\ JobsOfRun'
    BY <2>1, <2>2, <2>3 DEF RunInv, CronOfRun, OwnCron, JobsOfRun, lifecycleVars
  <2>5. QueuedWhereBorn'
    BY <2>1 DEF RunInv, QueuedWhereBorn
  <2>. QED
    BY <2>4, <2>5 DEF RunInv
<1>8. ASSUME NEW f \in Firings, JobStep(f)
      PROVE  RunInv'
  <2>1. CASE CheckOverlap(f)
    BY <1>6, <2>1 DEF CheckOverlap, JobStages, PoolInv, TypeOK
  <2>2. CASE ReadQueue(f)
    <3>1. /\ stage[f] = "enqueue" /\ stage'[f] \in {"dropped", "send"} /\ chanOf'[f] = cur
          /\ UNCHANGED <<lifecycleVars, cronOf, bornIn>>
          /\ \A g \in Firings : g # f => stage'[g] = stage[g] /\ chanOf'[g] = chanOf[g]
      BY <1>1, <2>2 DEF ReadQueue, PoolInv, TypeOK
    <3>2. bornIn[f] = cur
      BY <3>1 DEF RunInv, JobsOfRun, JobStages
    <3>3. CronOfRun' /\ JobsOfRun'
      BY <3>1 DEF RunInv, CronOfRun, OwnCron, JobsOfRun, JobStages, lifecycleVars
    <3>4. QueuedWhereBorn'
      BY <3>1, <3>2 DEF RunInv, QueuedWhereBorn
    <3>. QED
      BY <3>3, <3>4 DEF RunInv
  <2>3. CASE Send(f)
    <3>1. /\ stage[f] = "send" /\ stage'[f] \in {"dropped", "queued"}
          /\ \A g \in Firings : g # f => stage'[g] = stage[g]
          /\ UNCHANGED <<lifecycleVars, nameOf, cronOf, chanOf, bornIn>>
      BY <2>3 DEF Send, PoolInv, TypeOK
    <3>. QED
      BY <1>6, <3>1 DEF JobStages
  <2>. QED
    BY <1>8, <2>1, <2>2, <2>3 DEF JobStep
<1>9. ASSUME NEW r \in Runs, NEW w \in Workers, WorkerStep(r, w)
      PROVE  RunInv'
  <2>1. UNCHANGED <<lifecycleVars, nameOf, cronOf, chanOf, bornIn>>
    BY <1>9, WorkerStepKinds
  <2>2. CASE Moves(r, w)
    BY <1>6, <2>1, <2>2 DEF Moves
  <2>3. CASE WorkerTake(r, w)
    <3>1. /\ Head(chan[r]) = chan[r][1] /\ 1 \in 1 .. Len(chan[r]) /\ chan[r][1] \in Firings
          /\ stage' = [stage EXCEPT ![Head(chan[r])] = "taken"]
      BY <2>3 DEF WorkerTake, PoolInv, TypeOK
    <3>2. stage[Head(chan[r])] = "queued"
      BY <3>1 DEF PoolInv, HeldOnce, QueuedOnce
    <3>. QED
      BY <1>6, <2>1, <3>1, <3>2 DEF JobStages, PoolInv, TypeOK
  <2>4. CASE Leaves(r, w)
    BY <1>6, <2>1, <2>4 DEF Leaves, Leave, JobStages, PoolInv, TypeOK
  <2>. QED
    BY <1>9, <2>2, <2>3, <2>4, WorkerStepKinds
<1>10. CASE UNCHANGED vars
  BY <1>6, <1>10 DEF vars, firingVars
<1>. QED
  BY <1>3, <1>4, <1>5, <1>7, <1>8, <1>9, <1>10 DEF Next

\* A change of the time zone is counted.
LEMMA RestartsAreCounted ==
  ASSUME PoolInv, [Next]_vars
  PROVE  applies \in Nat /\ (applies' = 0 => applies = 0 /\ ~RestartsInStop)
<1>1. applies \in Nat
  BY LifecycleAssumption DEF PoolInv, TypeOK, LifecycleTypeOK
<1>2. CASE ApplyRestart
  <2>1. applies' = applies + 1
    BY <1>2 DEF ApplyRestart
  <2>. QED
    BY <1>1, <2>1
<1>3. CASE applies' = applies /\ ~ApplyRestart
  BY <1>1, <1>3 DEF RestartsInStop
<1>4. CASE ~ApplyRestart
  <2>1. CASE Start \/ StopFinish
    BY <1>3, <1>4, <2>1 DEF Start, StartRun, StopFinish, Finalize
  <2>2. CASE Lifecycle
    BY <1>3, <1>4, <2>2 DEF Lifecycle, CancelApp, StopBegin, StopClose, StopCancel, StopHalt,
       StopDrain, StopTimers, ApplyResume
  <2>3. ASSUME \/ \E k \in Crons, n \in Names, f \in Firings : Tick(k, n, f)
               \/ \E f \in Firings : JobStep(f)
               \/ \E r \in Runs, w \in Workers : WorkerStep(r, w)
               \/ UNCHANGED vars
        PROVE  UNCHANGED lifecycleVars
    BY <2>3, WorkerStepKinds DEF Tick, JobStep, CheckOverlap, ReadQueue, Send, vars
  <2>. QED
    BY <1>3, <1>4, <2>1, <2>2, <2>3 DEF Next, lifecycleVars
<1>. QED
  BY <1>2, <1>4

\* At first there is no cron, and nothing has ticked.
LEMMA InitRunInv == Init => RunInv
BY DEF Init, LifecycleInit, RunInv, CronOfRun, OwnCron, JobsOfRun, QueuedWhereBorn, JobStages

\* As long as no Apply restarts the cron during a Stop, the life cycle keeps to one
\* cron at a time, whose jobs Stop and Apply wait for (service.go:150-163,
\* api.go: restartLocked).
LEMMA RunInvariant == Spec /\ [][~RestartsInStop]_vars => []RunInv
<1>1. PoolInv /\ RunInv /\ [Next]_vars /\ [~RestartsInStop]_vars => RunInv'
  <2>1. CASE UNCHANGED vars
    BY <2>1 DEF RunInv, CronOfRun, OwnCron, JobsOfRun, QueuedWhereBorn, vars, lifecycleVars, firingVars
  <2>. QED
    BY <2>1, NextRunInv
<1>. QED
  BY <1>1, InitRunInv, PoolInvariant, PTL DEF Spec

\* So it is until the first change of the time zone.
LEMMA RunInvariantAtFirst == Spec => [](applies = 0 => RunInv)
<1>1. PoolInv /\ (applies = 0 => RunInv) /\ [Next]_vars => (applies = 0 => RunInv)'
  BY NextRunInv, RestartsAreCounted
<1>. QED
  BY <1>1, InitRunInv, PoolInvariant, PTL DEF Spec

\* What it says of the workers and of the time between two runs.
LEMMA RunInvTells == PoolInv /\ RunInv => FreshOnly /\ StoppedIsQuiet
<1>1. PoolInv /\ RunInv => FreshOnly
  BY DEF PoolInv, HeldOnce, TakenOnce, RunInv, QueuedWhereBorn, FreshOnly
<1>2. PoolInv /\ RunInv => StoppedIsQuiet
  BY DEF PoolInv, Counters, RunInv, CronOfRun, OwnCron, JobsOfRun, StoppedIsQuiet, BusyCrons
<1>. QED
  BY <1>1, <1>2

\* However often the time zone changes, as long as it does not while a Stop is in
\* progress, a worker executes only what has ticked during its own run: queues are
\* fresh, and no job of an earlier run is left to send to one (service.go:87, 161-163).
THEOREM TasksAreFresh == Spec /\ [][~RestartsInStop]_vars => []FreshOnly
BY RunInvTells, PoolInvariant, RunInvariant, PTL

\* Under the same condition nothing ticks and no cron job is under way between a
\* completed Stop and the next Start (service.go:150).
THEOREM QuietBetweenRuns == Spec /\ [][~RestartsInStop]_vars => []StoppedIsQuiet
BY RunInvTells, PoolInvariant, RunInvariant, PTL

\* Without any condition both hold until the first change of the time zone.
THEOREM FreshAndQuietAtFirst == Spec => [](applies = 0 => FreshOnly /\ StoppedIsQuiet)
BY RunInvTells, PoolInvariant, RunInvariantAtFirst, PTL

---------------------------------------------------------------------------
(* What the overlap policy keeps, and where it fails                       *)

\* A firing between its check and the worker that sets the running flag.
OnItsWay(f) == stage[f] \in {"enqueue", "send", "queued"}

\* A check lets a firing pass while another one of the same schedule has passed
\* its own and no worker has taken it yet.
PassesInWindow ==
  \E f, g \in Firings :
    /\ CheckOverlap(f) /\ ~running[nameOf[f]]
    /\ g # f /\ nameOf[g] = nameOf[f] /\ OnItsWay(g)

\* Of a schedule with the skip policy one firing at most is past its check and
\* not over, and the flag is set from the moment that a worker takes it.
OneAtATime ==
  \A f \in Firings : nameOf[f] \in SkipNames =>
    /\ stage[f] = "taken" => running[nameOf[f]]
    /\ \A g \in Firings : g # f /\ nameOf[g] = nameOf[f] =>
         ~((OnItsWay(f) \/ stage[f] = "taken") /\ (OnItsWay(g) \/ stage[g] = "taken"))

\* No other step than such a check breaks it.
LEMMA NextOneAtATime ==
  ASSUME PoolInv, OneAtATime, [Next]_vars, ~PassesInWindow
  PROVE  OneAtATime'
<1> DEFINE Past(f) == OnItsWay(f) \/ stage[f] = "taken"
<1>1. /\ stage \in [Firings -> Stages] /\ running \in [Names -> BOOLEAN]
      /\ nameOf \in [Firings -> Names \cup {None}]
      /\ None \notin Names /\ SkipNames \subseteq Names
  BY PoolAssumption DEF PoolInv, TypeOK
<1>2. CASE /\ nameOf' = nameOf /\ running' = running
           /\ \A f \in Firings : /\ Past(f)' => Past(f)
                                 /\ stage'[f] = "taken" => stage[f] = "taken"
  BY <1>2 DEF OneAtATime
<1>3. CASE UNCHANGED <<stage, nameOf, running>>
  BY <1>2, <1>3 DEF OnItsWay
<1>4. CASE Start \/ StopFinish \/ Lifecycle \/ UNCHANGED vars
  BY <1>3, <1>4 DEF Start, StopFinish, Lifecycle, firingVars, workerVars, vars
<1>5. ASSUME NEW k \in Crons, NEW n \in Names, NEW f \in Firings, Tick(k, n, f)
      PROVE  OneAtATime'
  <2>1. /\ stage[f] = "new" /\ running' = running /\ nameOf'[f] = n
        /\ stage'[f] = (IF n \in SkipNames THEN "check" ELSE "enqueue")
        /\ \A g \in Firings : g # f => stage'[g] = stage[g] /\ nameOf'[g] = nameOf[g]
    BY <1>1, <1>5 DEF Tick, workerVars
  <2>2. ASSUME NEW g \in Firings, nameOf'[g] \in SkipNames
        PROVE  /\ stage'[g] = "taken" => running'[nameOf'[g]]
               /\ Past(g)' => g # f /\ Past(g)
    BY <2>1, <2>2 DEF OneAtATime, OnItsWay
  <2>. QED
    BY <2>1, <2>2 DEF OneAtATime
<1>6. ASSUME NEW f \in Firings, CheckOverlap(f)
      PROVE  OneAtATime'
  <2>1. /\ stage[f] = "check" /\ UNCHANGED <<nameOf, running>>
        /\ stage'[f] = (IF running[nameOf[f]] THEN "skipped" ELSE "enqueue")
        /\ \A g \in Firings : g # f => stage'[g] = stage[g]
    BY <1>1, <1>6 DEF CheckOverlap, workerVars
  <2>2. CASE running[nameOf[f]]
    <3>1. \A g \in Firings : (Past(g)' => Past(g)) /\ (stage'[g] = "taken" => stage[g] = "taken")
      BY <2>1, <2>2 DEF OnItsWay
    <3>. QED
      BY <1>2, <2>1, <3>1
  <2>3. CASE ~running[nameOf[f]]
    <3>1. \A g \in Firings : g # f /\ nameOf[g] = nameOf[f] => ~OnItsWay(g)
      BY <1>6, <2>3 DEF PassesInWindow
    <3>2. ASSUME nameOf[f] \in SkipNames
          PROVE  \A g \in Firings : g # f /\ nameOf[g] = nameOf[f] => ~Past(g)
      BY <2>3, <3>1, <3>2 DEF OneAtATime
    <3>3. \A g \in Firings : g # f => (Past(g)' <=> Past(g))
      BY <2>1 DEF OnItsWay
    <3>4. \A g \in Firings : stage'[g] = "taken" => stage[g] = "taken"
      BY <2>1
    <3> HIDE DEF Past
    <3>5. ASSUME NEW g \in Firings, NEW h \in Firings, g # h, nameOf[g] = nameOf[h],
                 nameOf[g] \in SkipNames
          PROVE  ~(Past(g)' /\ Past(h)')
      <4>1. ~(Past(g) /\ Past(h))
        BY <3>5 DEF OneAtATime, Past
      <4>. QED
        BY <3>2, <3>3, <3>5, <4>1
    <3>. QED
      BY <2>1, <3>4, <3>5 DEF OneAtATime, Past
  <2>. QED
    BY <2>2, <2>3
<1>7. ASSUME NEW f \in Firings, ReadQueue(f) \/ Send(f)
      PROVE  OneAtATime'
  <2>1. /\ OnItsWay(f) /\ stage'[f] \in {"dropped", "send", "queued"}
        /\ UNCHANGED <<nameOf, running>>
        /\ \A g \in Firings : g # f => stage'[g] = stage[g]
    BY <1>1, <1>7 DEF ReadQueue, Send, OnItsWay, workerVars
  <2>2. \A g \in Firings : (Past(g)' => Past(g)) /\ (stage'[g] = "taken" => stage[g] = "taken")
    BY <2>1 DEF OnItsWay
  <2>. QED
    BY <1>2, <2>1, <2>2
<1>8. ASSUME NEW r \in Runs, NEW w \in Workers, WorkerTake(r, w)
      PROVE  OneAtATime'
  <2> DEFINE f == Head(chan[r])
  <2>1. f = chan[r][1] /\ 1 \in 1 .. Len(chan[r]) /\ f \in Firings
    BY <1>8 DEF WorkerTake, PoolInv, TypeOK
  <2>2. stage[f] = "queued"
    BY <2>1 DEF PoolInv, HeldOnce, QueuedOnce
  <2> HIDE DEF f
  <2>3. /\ stage' = [stage EXCEPT ![f] = "taken"] /\ nameOf' = nameOf
        /\ running' = [running EXCEPT ![nameOf[f]] = TRUE]
    BY <1>8 DEF WorkerTake, f
  <2>4. \A g \in Firings : /\ Past(g)' => Past(g)
                           /\ stage'[g] = "taken" => g = f \/ stage[g] = "taken"
    BY <1>1, <2>1, <2>2, <2>3 DEF OnItsWay
  <2>5. \A n \in Names : /\ running[n] \/ n = nameOf[f] => running'[n]
    BY <1>1, <2>3
  <2>6. \A g \in Firings : nameOf[g] \in SkipNames /\ stage'[g] = "taken" => running'[nameOf[g]]
    BY <1>1, <2>4, <2>5 DEF OneAtATime
  <2>. QED
    BY <2>3, <2>4, <2>6 DEF OneAtATime
<1>9. ASSUME NEW r \in Runs, NEW w \in Workers, Leaves(r, w)
      PROVE  OneAtATime'
  <2> DEFINE f == task[r][w]
  <2>1. f \in Firings /\ stage[f] = "taken"
    BY <1>9 DEF Leaves, PoolInv, HeldOnce, TakenOnce
  <2>2. PICK outcome \in {"ok", "failed", "panicked"} :
          /\ stage' = [stage EXCEPT ![f] = outcome] /\ nameOf' = nameOf
          /\ running' = [running EXCEPT ![nameOf[f]] = FALSE]
    BY <1>9 DEF Leaves, Leave
  <2> HIDE DEF f
  <2>3. /\ stage'[f] \in {"ok", "failed", "panicked"}
        /\ \A g \in Firings : g # f => stage'[g] = stage[g]
    BY <1>1, <2>1, <2>2
  <2>4. \A n \in Names : n # nameOf[f] => running'[n] = running[n]
    BY <1>1, <2>2
  <2>5. ASSUME NEW g \in Firings, nameOf[g] \in SkipNames, stage'[g] = "taken"
        PROVE  running'[nameOf[g]]
    <3>1. g # f /\ stage[g] = "taken" /\ running[nameOf[g]]
      BY <2>3, <2>5 DEF OneAtATime
    <3>2. nameOf[g] # nameOf[f]
      BY <2>1, <2>5, <3>1 DEF OneAtATime
    <3>. QED
      BY <1>1, <2>4, <2>5, <3>1, <3>2
  <2>6. ASSUME NEW g \in Firings, Past(g)' PROVE Past(g)
    <3>1. stage'[g] \in {"enqueue", "send", "queued", "taken"}
      BY <2>6 DEF OnItsWay
    <3>2. stage'[g] = stage[g]
      BY <2>3, <3>1
    <3>. QED
      BY <3>1, <3>2 DEF OnItsWay
  <2>. QED
    BY <2>2, <2>5, <2>6 DEF OneAtATime
<1>10. ASSUME NEW r \in Runs, NEW w \in Workers, Moves(r, w), ~Leaves(r, w), WorkerStep(r, w)
       PROVE  OneAtATime'
  <2>1. ASSUME NEW outcome \in {"ok", "failed", "panicked"}, Busy(r, w)
        PROVE  ~Leave(r, w, outcome, IF outcome = "panicked" THEN "gone" ELSE "loop")
    BY <1>10, <2>1 DEF Leaves
  <2>2. wk[r][w] \in {"attempt", "backoff"} =>
          ~(Leave(r, w, "ok", "loop") \/ Leave(r, w, "failed", "loop") \/ Leave(r, w, "panicked", "gone"))
    BY <2>1 DEF Busy, BusyStates
  <2>3. ~WorkerTake(r, w)
    BY <1>10 DEF WorkerTake, Moves, Busy, BusyStates, PoolInv, TypeOK
  <2>4. UNCHANGED running
    BY <1>10, <2>2, <2>3 DEF WorkerStep, WorkerLoop, WorkerExit, ReadConfig, Succeed, Fail, Panic,
       BackoffAbort, Retry
  <2>. QED
    BY <1>3, <1>10, <2>4, WorkerStepKinds DEF Moves
<1>. QED
  BY <1>4, <1>5, <1>6, <1>7, <1>8, <1>9, <1>10, WorkerStepKinds DEF Next, JobStep

\* The skip policy keeps two workers from executing the same schedule (doc.go:27)
\* as long as no tick is checked between an earlier tick's check and the moment
\* that a worker takes its task: the flag that the check reads is set there, not
\* in enqueue (worker.go:57-66, api.go:308-316). That window is the only gap.
THEOREM OverlapsOnlyInWindow == Spec /\ [][~PassesInWindow]_vars => []NoOverlap
<1>1. Init => OneAtATime
  BY DEF Init, OneAtATime, OnItsWay
<1>2. PoolInv /\ OneAtATime /\ [Next]_vars /\ [~PassesInWindow]_vars => OneAtATime'
  <2>1. CASE UNCHANGED vars
    BY <2>1 DEF OneAtATime, OnItsWay, vars, firingVars, workerVars
  <2>. QED
    BY <2>1, NextOneAtATime
<1>3. PoolInv /\ OneAtATime => NoOverlap
  <2> SUFFICES ASSUME PoolInv, OneAtATime,
                      NEW r \in Runs, NEW s \in Runs, NEW v \in Workers, NEW w \in Workers,
                      Busy(r, v), Busy(s, w), nameOf[task[r][v]] = nameOf[task[s][w]],
                      nameOf[task[r][v]] \in SkipNames
               PROVE  r = s /\ v = w
    BY DEF NoOverlap
  <2>1. /\ task[r][v] \in Firings /\ stage[task[r][v]] = "taken"
        /\ task[s][w] \in Firings /\ stage[task[s][w]] = "taken"
    BY DEF PoolInv, HeldOnce, TakenOnce
  <2>2. task[r][v] = task[s][w]
    BY <2>1 DEF OneAtATime
  <2>. QED
    BY <2>2 DEF PoolInv, HeldOnce, TakenOnce
<1>. QED
  BY <1>1, <1>2, <1>3, PoolInvariant, PTL DEF Spec

---------------------------------------------------------------------------
(* An Apply that does not return                                           *)

\* Apply waits, with s.mu, for a cron job that is about to take s.mu.
ApplyIsStuck ==
  mu = "apply" /\ \E f \in Firings : stage[f] = "enqueue" /\ cronOf[f] = c

\* No step of anybody gets it on: the job needs s.mu, which Apply keeps until the
\* job is done.
LEMMA NextStuck ==
  ASSUME PoolInv, [Next]_vars, ApplyIsStuck
  PROVE  /\ ApplyIsStuck' /\ UNCHANGED <<mu, runs, cur, c>>
         /\ stopPC = "idle" => stopPC' = "idle"
         /\ \A r \in Runs, w \in Workers : wk[r][w] = "config" => wk'[r][w] = "config"
<1>1. PICK f \in Firings : mu = "apply" /\ stage[f] = "enqueue" /\ cronOf[f] = c
  BY DEF ApplyIsStuck
<1>2. c \in BusyCrons
  BY <1>1 DEF BusyCrons, JobStages
<1>3. CASE Start \/ StopFinish
  BY <1>1, <1>3 DEF Start, StartRun, StopFinish, Finalize
<1>4. CASE Lifecycle
  <2>1. UNCHANGED <<firingVars, workerVars>>
    BY <1>4 DEF Lifecycle
  <2>2. UNCHANGED <<mu, runs, cur, c>> /\ (stopPC = "idle" => stopPC' = "idle")
    BY <1>1, <1>2, <1>4 DEF Lifecycle, CancelApp, StopBegin, StopClose, StopCancel, StopHalt,
       StopDrain, StopTimers, ApplyRestart, ApplyResume
  <2>. QED
    BY <1>1, <2>1, <2>2 DEF ApplyIsStuck, firingVars, workerVars
<1>5. ASSUME NEW k \in Crons, NEW n \in Names, NEW g \in Firings, Tick(k, n, g)
      PROVE  ApplyIsStuck' /\ UNCHANGED <<lifecycleVars, workerVars>>
  <2>1. UNCHANGED <<lifecycleVars, workerVars>> /\ stage'[f] = stage[f] /\ cronOf'[f] = cronOf[f]
    BY <1>1, <1>5 DEF Tick, PoolInv, TypeOK
  <2>. QED
    BY <1>1, <2>1 DEF ApplyIsStuck, lifecycleVars
<1>6. ASSUME NEW g \in Firings, JobStep(g)
      PROVE  ApplyIsStuck' /\ UNCHANGED <<lifecycleVars, workerVars>>
  <2>1. ~ReadQueue(g)
    BY <1>1 DEF ReadQueue
  <2>2. UNCHANGED <<lifecycleVars, workerVars, cronOf>> /\ stage'[f] = stage[f]
    BY <1>1, <1>6, <2>1 DEF JobStep, CheckOverlap, Send, PoolInv, TypeOK
  <2>. QED
    BY <1>1, <2>2 DEF ApplyIsStuck, lifecycleVars
<1>7. ASSUME NEW r \in Runs, NEW w \in Workers, WorkerStep(r, w)
      PROVE  /\ ApplyIsStuck' /\ UNCHANGED lifecycleVars
             /\ \A s \in Runs, v \in Workers : wk[s][v] = "config" => wk'[s][v] = "config"
  <2>1. UNCHANGED <<lifecycleVars, cronOf>>
    BY <1>7, WorkerStepKinds
  <2>2. stage'[f] = stage[f]
    <3>1. CASE Moves(r, w)
      BY <3>1 DEF Moves
    <3>2. CASE WorkerTake(r, w)
      <4>1. /\ Head(chan[r]) = chan[r][1] /\ 1 \in 1 .. Len(chan[r]) /\ chan[r][1] \in Firings
            /\ stage' = [stage EXCEPT ![Head(chan[r])] = "taken"]
        BY <3>2 DEF WorkerTake, PoolInv, TypeOK
      <4>2. stage[Head(chan[r])] = "queued"
        BY <4>1 DEF PoolInv, HeldOnce, QueuedOnce
      <4>. QED
        BY <1>1, <4>1, <4>2 DEF PoolInv, TypeOK
    <3>3. CASE Leaves(r, w)
      <4>1. stage[task[r][w]] = "taken" /\ \E outcome : stage' = [stage EXCEPT ![task[r][w]] = outcome]
        BY <3>3 DEF Leaves, Leave, PoolInv, HeldOnce, TakenOnce
      <4>. QED
        BY <1>1, <4>1 DEF PoolInv, TypeOK
    <3>. QED
      BY <1>7, <3>1, <3>2, <3>3, WorkerStepKinds
  <2>3. wk[r][w] # "config"
    BY <1>1, <1>7 DEF WorkerStep, WorkerLoop, WorkerExit, WorkerTake, ReadConfig, Succeed, Fail,
       Panic, BackoffAbort, Retry
  <2>4. \A s \in Runs, v \in Workers : s # r \/ v # w => wk'[s][v] = wk[s][v]
    BY <1>7, WorkerStepKinds
  <2>. QED
    BY <1>1, <2>1, <2>2, <2>3, <2>4 DEF ApplyIsStuck, lifecycleVars
<1>. QED
  BY <1>3, <1>4, <1>5, <1>6, <1>7 DEF Next, lifecycleVars, workerVars, vars, firingVars, ApplyIsStuck

\* An Apply that waits for a job in front of enqueue waits for ever, whatever the
\* others do, and while it does nobody enters another section of s.mu: no Start,
\* no Stop and no worker that has just taken a task gets on (service.go:44-52,
\* api.go: restartLocked).
THEOREM StuckForGood ==
  Spec => [][ApplyIsStuck => /\ ApplyIsStuck' /\ UNCHANGED <<mu, runs, cur, c>>
                             /\ stopPC = "idle" => stopPC' = "idle"
                             /\ \A r \in Runs, w \in Workers :
                                  wk[r][w] = "config" => wk'[r][w] = "config"]_vars
<1>1. PoolInv /\ [Next]_vars =>
        [ApplyIsStuck => /\ ApplyIsStuck' /\ UNCHANGED <<mu, runs, cur, c>>
                         /\ stopPC = "idle" => stopPC' = "idle"
                         /\ \A r \in Runs, w \in Workers :
                              wk[r][w] = "config" => wk'[r][w] = "config"]_vars
  BY NextStuck
<1>. QED
  BY <1>1, PoolInvariant, PTL DEF Spec

---------------------------------------------------------------------------
(* What a Stop has to wait for                                             *)

\* The steps that a worker has left at most, once it is told to stop: a late task,
\* its attempts and the back-offs between them.
StepsLeft(r, w) ==
  CASE wk[r][w] = "loop" -> 1
    [] wk[r][w] = "select" -> 2 * RetryMax + 4
    [] wk[r][w] = "config" -> 2 * RetryMax + 3
    [] wk[r][w] = "attempt" -> 2 * (RetryMax + 1 - attempt[r][w]) + 2
    [] wk[r][w] = "backoff" -> 2 * (RetryMax + 1 - attempt[r][w]) + 1
    [] OTHER -> 0

\* The number is none for a worker that is away, and bounded for the others.
LEMMA StepsLeftIs ==
  ASSUME PoolInv, NEW r \in Runs, NEW w \in Workers
  PROVE  /\ StepsLeft(r, w) \in 0 .. 2 * RetryMax + 4
         /\ Live(r, w) => StepsLeft(r, w) > 0
<1>1. RetryMax \in Nat /\ attempt[r][w] \in 0 .. RetryMax + 1
      /\ wk[r][w] \in LiveStates \cup {"absent", "gone"}
  BY PoolAssumption DEF PoolInv, TypeOK
<1>. QED
  BY <1>1 DEF StepsLeft, Live, LiveStates, BusyStates, PoolInv, BackoffLeft

\* A step of a worker that is told to stop takes one of them at least.
LEMMA StepsAreTaken ==
  ASSUME PoolInv, NEW r \in Runs, NEW w \in Workers, WorkerStep(r, w), ToldToStop(r)
  PROVE  StepsLeft(r, w)' < StepsLeft(r, w)
<1>1. /\ RetryMax \in Nat /\ attempt[r][w] \in 0 .. RetryMax + 1
      /\ wk \in [Runs -> [Workers -> LiveStates \cup {"absent", "gone"}]]
      /\ attempt \in [Runs -> [Workers -> 0 .. RetryMax + 1]]
      /\ wk[r][w] = "backoff" => attempt[r][w] <= RetryMax
  BY PoolAssumption DEF PoolInv, TypeOK, BackoffLeft
<1>2. ASSUME NEW to, wk' = [wk EXCEPT ![r][w] = to]
      PROVE  wk'[r][w] = to
  BY <1>1, <1>2
<1>3. ASSUME NEW n, attempt' = [attempt EXCEPT ![r][w] = n]
      PROVE  attempt'[r][w] = n
  BY <1>1, <1>3
<1>4. CASE WorkerLoop(r, w) \/ WorkerExit(r, w)
  <2>1. wk[r][w] \in {"loop", "select"} /\ wk'[r][w] = "gone"
    BY <1>2, <1>4 DEF WorkerLoop, WorkerExit
  <2>. QED
    BY <1>1, <2>1 DEF StepsLeft
<1>5. CASE WorkerTake(r, w)
  <2>1. wk[r][w] = "select" /\ wk'[r][w] = "config"
    BY <1>2, <1>5 DEF WorkerTake
  <2>. QED
    BY <1>1, <2>1 DEF StepsLeft
<1>6. CASE ReadConfig(r, w)
  <2>1. wk[r][w] = "config" /\ wk'[r][w] = "attempt" /\ attempt'[r][w] = 1
    BY <1>2, <1>3, <1>6 DEF ReadConfig
  <2>. QED
    BY <1>1, <2>1 DEF StepsLeft
<1>7. CASE Retry(r, w)
  <2>1. /\ wk[r][w] = "backoff" /\ wk'[r][w] = "attempt"
        /\ attempt'[r][w] = attempt[r][w] + 1
    BY <1>1, <1>2, <1>7 DEF Retry
  <2>. QED
    BY <1>1, <2>1 DEF StepsLeft
<1>8. CASE /\ wk[r][w] = "attempt" /\ attempt[r][w] < RetryMax + 1
           /\ wk' = [wk EXCEPT ![r][w] = "backoff"] /\ attempt' = attempt
  <2>1. wk'[r][w] = "backoff"
    BY <1>2, <1>8
  <2>. QED
    BY <1>1, <1>8, <2>1 DEF StepsLeft
<1>9. ASSUME NEW outcome, NEW to \in {"loop", "gone"}, Leave(r, w, outcome, to),
             wk[r][w] \in {"attempt", "backoff"}
      PROVE  StepsLeft(r, w)' < StepsLeft(r, w)
  <2>1. wk'[r][w] = to
    BY <1>2, <1>9 DEF Leave
  <2>2. StepsLeft(r, w)' <= 1
    BY <1>9, <2>1 DEF StepsLeft
  <2>3. StepsLeft(r, w) > 1
    BY <1>1, <1>9 DEF StepsLeft
  <2>. QED
    BY <2>2, <2>3, <1>1, <1>9, <2>1 DEF StepsLeft
<1>. QED
  BY <1>4, <1>5, <1>6, <1>7, <1>8, <1>9 DEF WorkerStep, Succeed, Fail, Panic, BackoffAbort

\* A worker that is told to stop is gone after 2 * RetryMax + 4 of its own steps at
\* most, whatever the others do: each takes one of those it has left, and nobody
\* gives it any. What a Stop waits for is therefore bounded; that the worker's
\* steps are taken is the fairness of the Go runtime (service.go:173-184,
\* worker.go:33-143).
THEOREM ToldWorkersLeave ==
  Spec => /\ [](\A r \in Runs, w \in Workers : Live(r, w) => StepsLeft(r, w) \in 1 .. 2 * RetryMax + 4)
          /\ [][\A r \in Runs, w \in Workers : Live(r, w) /\ ToldToStop(r) =>
                  /\ StepsLeft(r, w)' <= StepsLeft(r, w)
                  /\ WorkerStep(r, w) => StepsLeft(r, w)' < StepsLeft(r, w)]_vars
<1>1. PoolInv => \A r \in Runs, w \in Workers : Live(r, w) => StepsLeft(r, w) \in 1 .. 2 * RetryMax + 4
  BY StepsLeftIs, PoolAssumption
<1>2. ASSUME PoolInv, [Next]_vars, NEW r \in Runs, NEW w \in Workers, Live(r, w), ToldToStop(r)
      PROVE  /\ StepsLeft(r, w)' <= StepsLeft(r, w)
             /\ WorkerStep(r, w) => StepsLeft(r, w)' < StepsLeft(r, w)
  <2>1. StepsLeft(r, w) \in Nat
    BY <1>2, StepsLeftIs, PoolAssumption
  <2>2. CASE wk'[r][w] = wk[r][w] /\ attempt'[r][w] = attempt[r][w]
    <3>1. StepsLeft(r, w)' = StepsLeft(r, w)
      BY <2>2 DEF StepsLeft
    <3>. QED
      BY <1>2, <2>1, <3>1, StepsAreTaken
  <2>3. CASE Start
    <3>1. cur = 0
      BY <2>3 DEF Start, StartRun
    <3>2. r = 0
      BY <1>2, <3>1 DEF PoolInv, OneWorkerPool
    <3>. QED
      BY <3>2, LifecycleAssumption DEF Runs
  <2>4. CASE StopFinish \/ Lifecycle \/ (\E f \in Firings : JobStep(f)) \/ UNCHANGED vars
             \/ (\E k \in Crons, n \in Names, f \in Firings : Tick(k, n, f))
    BY <2>2, <2>4, OthersLeaveWorkers DEF workerVars
  <2>5. ASSUME NEW s \in Runs, NEW v \in Workers, WorkerStep(s, v)
        PROVE  StepsLeft(r, w)' <= StepsLeft(r, w) /\ (WorkerStep(r, w) => StepsLeft(r, w)' < StepsLeft(r, w))
    <3>1. CASE s = r /\ v = w
      <4>1. StepsLeft(r, w)' < StepsLeft(r, w)
        BY <1>2, <2>5, <3>1, StepsAreTaken
      <4>2. StepsLeft(r, w)' \in Int
        <5>1. PoolInv'
          BY <1>2, NextPoolInv
        <5>2. (StepsLeft(r, w) \in 0 .. 2 * RetryMax + 4)'
          BY <5>1, StepsLeftIs, PTL
        <5>. QED
          BY <5>2, PoolAssumption
      <4>. QED
        BY <2>1, <4>1, <4>2
    <3>2. CASE s # r \/ v # w
      <4>1. wk'[r][w] = wk[r][w]
        BY <1>2, <2>5, <3>2, WorkerStepKinds
      <4>2. attempt'[r][w] = attempt[r][w]
        <5>1. attempt \in [Runs -> [Workers -> 0 .. RetryMax + 1]]
          BY <1>2 DEF PoolInv, TypeOK
        <5>2. \A n : attempt' = [attempt EXCEPT ![s][v] = n] => attempt'[r][w] = attempt[r][w]
          BY <3>2, <5>1
        <5>3. \/ attempt' = attempt
              \/ attempt' = [attempt EXCEPT ![s][v] = 0]
              \/ attempt' = [attempt EXCEPT ![s][v] = 1]
              \/ attempt' = [attempt EXCEPT ![s][v] = attempt[s][v] + 1]
          BY <2>5, <5>1 DEF WorkerStep, WorkerLoop, WorkerExit, WorkerTake, ReadConfig, Succeed,
             Fail, Panic, BackoffAbort, Retry, Leave
        <5>. QED
          BY <5>2, <5>3
      <4>. QED
        BY <2>2, <4>1, <4>2
    <3>. QED
      BY <3>1, <3>2
  <2>. QED
    BY <1>2, <2>3, <2>4, <2>5 DEF Next
<1>3. PoolInv /\ [Next]_vars =>
        \A r \in Runs, w \in Workers : Live(r, w) /\ ToldToStop(r) =>
          /\ StepsLeft(r, w)' <= StepsLeft(r, w)
          /\ WorkerStep(r, w) => StepsLeft(r, w)' < StepsLeft(r, w)
  BY <1>2
<1>. QED
  BY <1>1, <1>3, PoolInvariant, PTL DEF Spec

---------------------------------------------------------------------------
(* The pool implements the ledger                                          *)

\* A firing that was taken is still in the hands of a worker: no task gets lost
\* between the queue and its end.
TakenIsHeld ==
  \A f \in Firings : stage[f] = "taken" =>
    \E r \in Runs, w \in Workers : Busy(r, w) /\ task[r][w] = f

\* WorkerTake puts it there, Leave is its end, nothing else touches either.
LEMMA NextTakenIsHeld == PoolInv /\ TakenIsHeld /\ [Next]_vars => TakenIsHeld'
<1> SUFFICES ASSUME PoolInv, TakenIsHeld, [Next]_vars, NEW f \in Firings, stage'[f] = "taken"
             PROVE  \E r \in Runs, w \in Workers : Busy(r, w)' /\ task'[r][w] = f
  BY DEF TakenIsHeld
<1>1. CASE stage[f] = "taken" /\ UNCHANGED workerVars
  BY <1>1 DEF TakenIsHeld, Busy, workerVars
<1>2. CASE Start
  <2>1. stage[f] = "taken" /\ cur = 0
    BY <1>2 DEF Start, StartRun, firingVars
  <2>2. PICK r \in Runs, w \in Workers : Busy(r, w)
    BY <2>1 DEF TakenIsHeld
  <2>3. r = 0
    BY <2>1, <2>2 DEF PoolInv, OneWorkerPool, Busy, Live, LiveStates
  <2>. QED
    BY <2>3, LifecycleAssumption DEF Runs
<1>3. CASE StopFinish \/ Lifecycle \/ UNCHANGED vars
  BY <1>1, <1>3, OthersLeaveWorkers DEF StopFinish, Lifecycle, firingVars, vars
<1>4. ASSUME NEW k \in Crons, NEW n \in Names, NEW g \in Firings, Tick(k, n, g)
      PROVE  stage[f] = "taken" /\ UNCHANGED workerVars
  BY <1>4 DEF Tick, PoolInv, TypeOK
<1>5. ASSUME NEW g \in Firings, JobStep(g)
      PROVE  stage[f] = "taken" /\ UNCHANGED workerVars
  BY <1>5 DEF JobStep, CheckOverlap, ReadQueue, Send, PoolInv, TypeOK
<1>6. ASSUME NEW r \in Runs, NEW w \in Workers, WorkerStep(r, w)
      PROVE  \E s \in Runs, v \in Workers : Busy(s, v)' /\ task'[s][v] = f
  <2>1. CASE WorkerTake(r, w) /\ f = Head(chan[r])
    BY <2>1 DEF WorkerTake, Busy, BusyStates, PoolInv, TypeOK
  <2>2. CASE \/ Moves(r, w)
             \/ WorkerTake(r, w) /\ f # Head(chan[r])
             \/ Leaves(r, w)
    <3>1. stage[f] = "taken" /\ (Leaves(r, w) => task[r][w] # f)
      BY <2>2 DEF Moves, WorkerTake, Leaves, Leave, PoolInv, TypeOK
    <3>2. PICK s \in Runs, v \in Workers : Busy(s, v) /\ task[s][v] = f
      BY <3>1 DEF TakenIsHeld
    <3>3. WorkerTake(r, w) => s # r \/ v # w
      BY <3>2 DEF WorkerTake, Busy, BusyStates
    <3>4. Busy(s, v)' /\ task'[s][v] = f
      <4>1. CASE s # r \/ v # w
        BY <1>6, <3>2, <4>1, WorkerStepKinds DEF Busy
      <4>2. CASE s = r /\ v = w
        BY <2>2, <3>1, <3>2, <3>3, <4>2 DEF Moves
      <4>. QED
        BY <4>1, <4>2
    <3>. QED
      BY <3>4
  <2>. QED
    BY <1>6, <2>1, <2>2, WorkerStepKinds
<1>. QED
  BY <1>1, <1>2, <1>3, <1>4, <1>5, <1>6 DEF Next

\* What the mapping of the refinement makes of a firing.
EntryMap ==
  /\ Entry \in [Firings -> {"open", "accepted", "begun", "over"}]
  /\ \A f \in Firings :
       /\ stage[f] \in {"new", "check", "enqueue", "send"} => Entry[f] = "open"
       /\ stage[f] = "queued" => Entry[f] = "accepted"
       /\ stage[f] = "taken" => Entry[f] = "begun"
       /\ stage[f] \in EndStages => Entry[f] = "over"
HandsMap ==
  /\ Hands = [f \in Firings |-> Hands[f]]
  /\ \A r \in Runs, w \in Workers : Busy(r, w) => Hands[task[r][w]] = <<r, w>>
  /\ \A f \in Firings : stage[f] # "taken" => Hands[f] = None

\* The mapping is these two, in every state of the pool ...
LEMMA MapIs == PoolInv => EntryMap /\ HandsMap
<1> SUFFICES ASSUME PoolInv PROVE EntryMap /\ HandsMap
  OBVIOUS
<1>1. EntryMap
  <2>1. Entry \in [Firings -> {"open", "accepted", "begun", "over"}]
    <3>1. \A f \in Firings : stage[f] \in Stages
      BY DEF PoolInv, TypeOK
    <3>. QED
      BY <3>1 DEF Entry, Stages, JobStages, EndStages
  <2>2. ASSUME NEW f \in Firings
        PROVE  /\ stage[f] \in {"new", "check", "enqueue", "send"} => Entry[f] = "open"
               /\ stage[f] = "queued" => Entry[f] = "accepted"
               /\ stage[f] = "taken" => Entry[f] = "begun"
               /\ stage[f] \in EndStages => Entry[f] = "over"
    BY DEF Entry, JobStages, EndStages
  <2>. QED
    BY <2>1, <2>2 DEF EntryMap
<1>2. Hands = [f \in Firings |-> Hands[f]]
  BY DEF Hands
<1>3. ASSUME NEW f \in Firings, stage[f] # "taken"
      PROVE  Hands[f] = None
  <2>1. Holders(f) = {}
    BY <1>3 DEF Holders, PoolInv, HeldOnce, TakenOnce
  <2>. QED
    BY <2>1 DEF Hands
<1>4. ASSUME NEW r \in Runs, NEW w \in Workers, Busy(r, w)
      PROVE  Hands[task[r][w]] = <<r, w>>
  <2>1. task[r][w] \in Firings /\ \A s \in Runs, v \in Workers :
          Busy(s, v) /\ task[s][v] = task[r][w] => s = r /\ v = w
    BY <1>4 DEF PoolInv, HeldOnce, TakenOnce
  <2>2. \A p \in Runs \X Workers :
          p \in Holders(task[r][w]) <=> p = <<r, w>>
    BY <1>4, <2>1 DEF Holders
  <2>3. Holders(task[r][w]) = {<<r, w>>}
    BY <2>2 DEF Holders
  <2>4. (CHOOSE p \in Holders(task[r][w]) : TRUE) = <<r, w>>
    BY <2>3
  <2>. QED
    BY <2>1, <2>3, <2>4 DEF Hands
<1>. QED
  BY <1>1, <1>2, <1>3, <1>4 DEF HandsMap

\* ... the next one too.
LEMMA MapIsNext == PoolInv' => (EntryMap /\ HandsMap)'
BY MapIs, PTL

\* The hands stay when no firing changes its holder.
LEMMA SameHands ==
  ASSUME PoolInv, PoolInv', TakenIsHeld,
         \A f \in Firings : stage'[f] = "taken" <=> stage[f] = "taken",
         \A r \in Runs, w \in Workers : Busy(r, w) => Busy(r, w)' /\ task'[r][w] = task[r][w]
  PROVE  Hands' = Hands
<1>1. HandsMap /\ HandsMap'
  BY MapIs, MapIsNext
<1>2. ASSUME NEW f \in Firings
      PROVE  Hands'[f] = Hands[f]
  <2>1. CASE stage[f] # "taken"
    BY <1>1, <2>1 DEF HandsMap
  <2>2. CASE stage[f] = "taken"
    <3>1. PICK r \in Runs, w \in Workers : Busy(r, w) /\ task[r][w] = f
      BY <2>2 DEF TakenIsHeld
    <3>2. Busy(r, w)' /\ task'[r][w] = f
      BY <3>1
    <3>3. Hands[f] = <<r, w>>
      BY <1>1, <3>1 DEF HandsMap
    <3>4. Hands'[f] = <<r, w>>
      BY <1>1, <3>2 DEF HandsMap
    <3>. QED
      BY <3>3, <3>4
  <2>. QED
    BY <2>1, <2>2
<1>. QED
  BY <1>1, <1>2 DEF HandsMap

\* The entry of a firing follows its stage.
LEMMA EntryMoves ==
  ASSUME PoolInv, PoolInv', NEW f \in Firings,
         \A g \in Firings : g # f => stage'[g] = stage[g]
  PROVE  Entry' = [Entry EXCEPT ![f] = Entry'[f]]
<1>1. EntryMap /\ EntryMap'
  BY MapIs, MapIsNext
<1>2. ASSUME NEW g \in Firings, g # f
      PROVE  Entry'[g] = Entry[g]
  <2>1. stage[g] \in Stages /\ stage'[g] = stage[g]
    BY <1>2 DEF PoolInv, TypeOK
  <2>. QED
    BY <1>1, <2>1 DEF EntryMap, Stages, JobStages
<1>. QED
  BY <1>1, <1>2 DEF EntryMap

\* A worker of the current run is the only one to hold a firing, so what is
\* begun is at home in the current run.
LEMMA BegunAtHome ==
  ASSUME PoolInv, TakenIsHeld, NEW f \in Firings, stage[f] = "taken"
  PROVE  chanOf[f] = cur
<1>1. PICK r \in Runs, w \in Workers : Busy(r, w) /\ task[r][w] = f
  BY DEF TakenIsHeld
<1>. QED
  BY <1>1 DEF PoolInv, HeldOnce, TakenOnce, OneWorkerPool, Busy, Live, LiveStates

\* Every step of the pool is a step of the ledger or none.
LEMMA StepOfLedger ==
  ASSUME PoolInv, PoolInv', TakenIsHeld, TakenIsHeld', [Next]_vars
  PROVE  [Ledger!Next]_<<Entry, chanOf, Hands>>
<1>1. EntryMap /\ HandsMap /\ EntryMap' /\ HandsMap'
  BY MapIs, MapIsNext
<1>2. \A f \in Firings : stage[f] \in Stages /\ stage'[f] \in Stages
  BY DEF PoolInv, TypeOK
<1>3. CASE UNCHANGED <<stage, chanOf, task, wk>>
  <2>1. Entry' = Entry
    BY <1>1, <1>2, <1>3 DEF EntryMap, Stages, JobStages
  <2>2. Hands' = Hands
    BY <1>3, SameHands DEF Busy
  <2>. QED
    BY <1>3, <2>1, <2>2
<1>4. CASE Start
  <2>1. UNCHANGED <<stage, chanOf, task>> /\ cur = 0
    BY <1>4 DEF Start, StartRun, firingVars
  <2>2. \A r \in Runs, w \in Workers : ~Busy(r, w)
    BY <2>1, LifecycleAssumption DEF Runs, PoolInv, OneWorkerPool, Busy, Live, LiveStates
  <2>3. Entry' = Entry
    BY <1>1, <1>2, <2>1 DEF EntryMap, Stages, JobStages
  <2>4. Hands' = Hands
    BY <2>1, <2>2, SameHands
  <2>. QED
    BY <2>1, <2>3, <2>4
<1>5. CASE StopFinish \/ Lifecycle \/ UNCHANGED vars
  BY <1>3, <1>5 DEF StopFinish, Lifecycle, firingVars, workerVars, vars
<1>6. ASSUME NEW f \in Firings, stage[f] \in {"new", "check", "enqueue", "send"},
             stage'[f] \in {"new", "check", "enqueue", "send", "queued", "skipped", "dropped"},
             \A g \in Firings : g # f => stage'[g] = stage[g],
             UNCHANGED workerVars
      PROVE  /\ Hands' = Hands
             /\ Entry[f] = "open"
             /\ stage'[f] \in {"check", "enqueue", "send"} => Entry' = Entry
             /\ stage'[f] = "queued" => Entry' = [Entry EXCEPT ![f] = "accepted"]
             /\ stage'[f] \in {"skipped", "dropped"} => Entry' = [Entry EXCEPT ![f] = "over"]
  <2>1. \A g \in Firings : stage'[g] = "taken" <=> stage[g] = "taken"
    BY <1>6
  <2>2. Hands' = Hands
    BY <1>6, <2>1, SameHands DEF workerVars, Busy
  <2>3. Entry' = [Entry EXCEPT ![f] = Entry'[f]] /\ Entry[f] = "open"
    BY <1>1, <1>6, EntryMoves DEF EntryMap
  <2>4. Entry' = [Entry EXCEPT ![f] = "open"] => Entry' = Entry
    BY <1>1, <2>3 DEF EntryMap
  <2>. QED
    BY <1>1, <1>6, <2>2, <2>3, <2>4 DEF EntryMap, EndStages
<1>7. ASSUME NEW k \in Crons, NEW n \in Names, NEW f \in Firings, Tick(k, n, f)
      PROVE  UNCHANGED <<Entry, chanOf, Hands>>
  <2>1. /\ stage[f] = "new" /\ stage'[f] \in {"check", "enqueue"} /\ chanOf' = chanOf
        /\ \A g \in Firings : g # f => stage'[g] = stage[g]
        /\ UNCHANGED workerVars
    BY <1>7 DEF Tick, PoolInv, TypeOK
  <2>. QED
    BY <1>6, <2>1
<1>8. ASSUME NEW f \in Firings, CheckOverlap(f)
      PROVE  UNCHANGED <<Entry, chanOf, Hands>> \/ Ledger!Refuse(f)
  <2>1. /\ stage[f] = "check" /\ stage'[f] \in {"skipped", "enqueue"} /\ chanOf' = chanOf
        /\ \A g \in Firings : g # f => stage'[g] = stage[g]
        /\ UNCHANGED workerVars
    BY <1>8 DEF CheckOverlap, PoolInv, TypeOK
  <2>2. chanOf' = [chanOf EXCEPT ![f] = chanOf[f]] /\ chanOf[f] \in Runs \cup {0}
    BY <2>1 DEF PoolInv, TypeOK
  <2>. QED
    BY <1>6, <2>1, <2>2 DEF Ledger!Refuse, Ledger!Settle
<1>9. ASSUME NEW f \in Firings, ReadQueue(f)
      PROVE  Ledger!Refuse(f) \/ Ledger!Prepare(f)
  <2>1. /\ stage[f] = "enqueue" /\ stage'[f] \in {"dropped", "send"}
        /\ chanOf' = [chanOf EXCEPT ![f] = queue] /\ queue \in Runs \cup {0}
        /\ \A g \in Firings : g # f => stage'[g] = stage[g]
        /\ UNCHANGED workerVars
    BY <1>9 DEF ReadQueue, PoolInv, TypeOK, LifecycleTypeOK
  <2>. QED
    BY <1>6, <2>1 DEF Ledger!Refuse, Ledger!Prepare, Ledger!Settle
<1>10. ASSUME NEW f \in Firings, Send(f)
       PROVE  Ledger!Accept(f) \/ Ledger!Refuse(f)
  <2>1. /\ stage[f] = "send" /\ stage'[f] \in {"dropped", "queued"} /\ chanOf' = chanOf
        /\ \A g \in Firings : g # f => stage'[g] = stage[g]
        /\ UNCHANGED workerVars
    BY <1>10 DEF Send, PoolInv, TypeOK
  <2>2. chanOf' = [chanOf EXCEPT ![f] = chanOf[f]] /\ chanOf[f] \in Runs
    BY <2>1 DEF PoolInv, TypeOK, FiringsNamed
  <2>. QED
    BY <1>6, <2>1, <2>2 DEF Ledger!Refuse, Ledger!Accept, Ledger!Settle
<1>11. ASSUME NEW r \in Runs, NEW w \in Workers, Moves(r, w), WorkerStep(r, w)
       PROVE  UNCHANGED <<Entry, chanOf, Hands>>
  <2>1. UNCHANGED <<stage, chanOf, task>>
    BY <1>11, WorkerStepKinds DEF Moves
  <2>2. \A s \in Runs, v \in Workers : Busy(s, v) => Busy(s, v)'
    BY <1>11, WorkerStepKinds DEF Moves, Busy
  <2>3. Entry' = Entry
    BY <1>1, <1>2, <2>1 DEF EntryMap, Stages, JobStages
  <2>4. Hands' = Hands
    BY <2>1, <2>2, SameHands
  <2>. QED
    BY <2>1, <2>3, <2>4
<1>12. ASSUME NEW r \in Runs, NEW w \in Workers, WorkerTake(r, w)
       PROVE  \E f \in Firings : Ledger!Begin(f, w)
  <2> DEFINE f == Head(chan[r])
  <2>1. f = chan[r][1] /\ 1 \in 1 .. Len(chan[r]) /\ f \in Firings
    BY <1>12 DEF WorkerTake, PoolInv, TypeOK
  <2>2. stage[f] = "queued" /\ chanOf[f] = r /\ chanOf' = chanOf
    BY <1>12, <2>1 DEF WorkerTake, PoolInv, HeldOnce, QueuedOnce
  <2> HIDE DEF f
  <2>3. /\ stage' = [stage EXCEPT ![f] = "taken"]
        /\ task' = [task EXCEPT ![r][w] = f]
        /\ wk' = [wk EXCEPT ![r][w] = "config"] /\ wk[r][w] = "select"
    BY <1>12 DEF WorkerTake, f
  <2>4. /\ stage'[f] = "taken" /\ \A g \in Firings : g # f => stage'[g] = stage[g]
        /\ Busy(r, w)' /\ task'[r][w] = f /\ ~Busy(r, w) /\ Live(r, w)
        /\ \A s \in Runs, v \in Workers : s # r \/ v # w =>
             (Busy(s, v)' <=> Busy(s, v)) /\ task'[s][v] = task[s][v]
    <3>1. stage \in [Firings -> Stages]
      BY DEF PoolInv, TypeOK
    <3>2. task \in [Runs -> [Workers -> Firings \cup {None}]]
      BY DEF PoolInv, TypeOK
    <3>3. wk \in [Runs -> [Workers -> LiveStates \cup {"absent", "gone"}]]
      BY DEF PoolInv, TypeOK
    <3>4. stage'[f] = "taken" /\ \A g \in Firings : g # f => stage'[g] = stage[g]
      BY <2>1, <2>3, <3>1
    <3>5. /\ task'[r][w] = f
          /\ \A s \in Runs, v \in Workers : s # r \/ v # w => task'[s][v] = task[s][v]
      BY <2>3, <3>2
    <3>6. /\ wk'[r][w] = "config"
          /\ \A s \in Runs, v \in Workers : s # r \/ v # w => wk'[s][v] = wk[s][v]
      BY <2>3, <3>3
    <3>7. Busy(r, w)' /\ ~Busy(r, w) /\ Live(r, w)
      BY <2>3, <3>6 DEF Busy, Live, LiveStates, BusyStates
    <3>. QED
      BY <3>4, <3>5, <3>6, <3>7 DEF Busy
  <2>5. \A g \in Firings : Entry[g] = "begun" => chanOf[g] = chanOf[f]
    <3>1. r = cur
      BY <2>4 DEF PoolInv, OneWorkerPool
    <3>2. ASSUME NEW g \in Firings, Entry[g] = "begun" PROVE stage[g] = "taken"
      BY <1>1, <1>2, <3>2 DEF EntryMap, Stages, JobStages
    <3>. QED
      BY <2>2, <3>1, <3>2, BegunAtHome
  <2>6. Entry[f] = "accepted" /\ Entry' = [Entry EXCEPT ![f] = "begun"]
    BY <1>1, <2>1, <2>2, <2>4, EntryMoves DEF EntryMap
  <2>7. Hands' = [Hands EXCEPT ![f] = <<chanOf[f], w>>]
    <3>1. Hands'[f] = <<chanOf[f], w>>
      BY <1>1, <2>2, <2>4 DEF HandsMap
    <3>2. ASSUME NEW g \in Firings, g # f PROVE Hands'[g] = Hands[g]
      <4>1. CASE stage[g] # "taken"
        BY <1>1, <2>4, <3>2, <4>1 DEF HandsMap
      <4>2. CASE stage[g] = "taken"
        <5>1. PICK s \in Runs, v \in Workers : Busy(s, v) /\ task[s][v] = g
          BY <4>2 DEF TakenIsHeld
        <5>2. Busy(s, v)' /\ task'[s][v] = g
          BY <2>4, <5>1
        <5>. QED
          BY <1>1, <5>1, <5>2 DEF HandsMap
      <4>. QED
        BY <4>1, <4>2
    <3>. QED
      BY <1>1, <2>1, <3>1, <3>2 DEF HandsMap
  <2>. QED
    BY <2>1, <2>2, <2>5, <2>6, <2>7 DEF Ledger!Begin
<1>13. ASSUME NEW r \in Runs, NEW w \in Workers, Leaves(r, w), WorkerStep(r, w)
       PROVE  \E f \in Firings : Ledger!End(f)
  <2> DEFINE f == task[r][w]
  <2>1. /\ f \in Firings /\ stage[f] = "taken" /\ Busy(r, w)
        /\ \A s \in Runs, v \in Workers : Busy(s, v) /\ task[s][v] = f => s = r /\ v = w
    BY <1>13 DEF Leaves, PoolInv, HeldOnce, TakenOnce
  <2>2. stage'[f] \in {"ok", "failed", "panicked"} /\ \A g \in Firings : g # f => stage'[g] = stage[g]
    BY <1>13, <2>1 DEF Leaves, Leave, PoolInv, TypeOK
  <2>3. /\ chanOf' = chanOf
        /\ \A s \in Runs, v \in Workers : s # r \/ v # w =>
             (Busy(s, v)' <=> Busy(s, v)) /\ task'[s][v] = task[s][v]
    BY <1>13, WorkerStepKinds DEF Busy
  <2> HIDE DEF f
  <2>4. Entry[f] = "begun" /\ Entry' = [Entry EXCEPT ![f] = "over"]
    BY <1>1, <2>1, <2>2, EntryMoves DEF EntryMap, EndStages
  <2>5. Hands' = [Hands EXCEPT ![f] = None]
    <3>1. Hands'[f] = None
      BY <1>1, <2>1, <2>2 DEF HandsMap
    <3>2. ASSUME NEW g \in Firings, g # f PROVE Hands'[g] = Hands[g]
      <4>1. CASE stage[g] # "taken"
        BY <1>1, <2>2, <3>2, <4>1 DEF HandsMap
      <4>2. CASE stage[g] = "taken"
        <5>1. PICK s \in Runs, v \in Workers : Busy(s, v) /\ task[s][v] = g
          BY <4>2 DEF TakenIsHeld
        <5>2. s # r \/ v # w
          BY <3>2, <5>1 DEF f
        <5>3. Busy(s, v)' /\ task'[s][v] = g
          BY <2>3, <5>1, <5>2
        <5>. QED
          BY <1>1, <5>1, <5>3 DEF HandsMap
      <4>. QED
        BY <4>1, <4>2
    <3>. QED
      BY <1>1, <2>1, <3>1, <3>2 DEF HandsMap
  <2>. QED
    BY <2>1, <2>3, <2>4, <2>5 DEF Ledger!End
<1>14. ASSUME NEW r \in Runs, NEW w \in Workers, WorkerStep(r, w)
       PROVE  UNCHANGED <<Entry, chanOf, Hands>> \/ Ledger!Next
  BY <1>11, <1>12, <1>13, <1>14, WorkerStepKinds DEF Ledger!Next
<1>. QED
  BY <1>4, <1>5, <1>7, <1>8, <1>9, <1>10, <1>14 DEF Next, JobStep, Ledger!Next

\* The pool keeps the ledger: a firing is refused or accepted by one run, and an
\* accepted one is executed at most once, by a worker of that run, never while a
\* worker of another run executes (service.go:59, 87).
THEOREM PoolKeepsLedger == Spec => LedgerSpec
<1>1. Init => TakenIsHeld
  BY DEF Init, TakenIsHeld
<1>2. Init => Ledger!Init
  <2> SUFFICES ASSUME Init PROVE Ledger!Init
    OBVIOUS
  <2>1. Entry = [f \in Firings |-> "open"]
    <3>1. \A f \in Firings : stage[f] = "new"
      BY DEF Init
    <3>. QED
      BY <3>1, InitPoolInv, MapIs DEF EntryMap
  <2>2. Hands = [f \in Firings |-> None]
    <3>1. \A f \in Firings : Holders(f) = {}
      BY DEF Init, Holders, Busy, BusyStates
    <3>. QED
      BY <3>1 DEF Hands
  <2>. QED
    BY <2>1, <2>2 DEF Init, Ledger!Init
<1>3. PoolInv /\ PoolInv' /\ TakenIsHeld /\ TakenIsHeld' /\ [Next]_vars
        => [Ledger!Next]_<<Entry, chanOf, Hands>>
  BY StepOfLedger
<1>. QED
  BY <1>1, <1>2, <1>3, NextTakenIsHeld, PoolInvariant, PTL
     DEF Spec, LedgerSpec, Ledger!Spec, Ledger!ledgerVars
=============================================================================
