----------------------------- MODULE AppProofs -----------------------------
(***************************************************************************)
(* Proofs about App: its three invariants, and that it implements          *)
(* UpdateLine, for any number of updates and of workers, any capacities,   *)
(* and whatever goroutines and handlers hang.                              *)
(***************************************************************************)
EXTENDS App, SequenceTheorems, FiniteSetTheorems, TLAPS

---------------------------------------------------------------------------
(* The inductive invariant                                                 *)

Fates == {"new"} \cup Pending \cup Settled

\* The queue s holds the updates whose fate is x, each once.
Holds(s, f, x) ==
  /\ \A i \in 1 .. Len(s) : f[s[i]] = x
  /\ \A i, j \in 1 .. Len(s) : s[i] = s[j] => i = j
  /\ \A u \in Updates : f[u] = x => \E i \in 1 .. Len(s) : s[i] = u

\* The update in the loop's hands and those in the workers'.
InHands ==
  /\ \A u \in Updates : fate[u] = "routing" <=> loop = "route" /\ cur = u
  /\ loop = "route" => cur \in Updates
  /\ \A w \in Workers : worker[w] \in {"got", "busy"} <=> has[w] # None
  /\ \A w \in Workers : has[w] # None => fate[has[w]] = "taken"
  /\ \A u \in Updates : fate[u] = "taken" => \E w \in Workers : has[w] = u
  /\ \A v, w \in Workers : has[v] = has[w] /\ has[v] # None => v = w

\* Where the updates are.
Located == Holds(updates, fate, "accepted") /\ Holds(jobs, fate, "queued") /\ InHands

\* How far the dispatcher, its workers and main are.
Phases ==
  /\ loop = "off" <=> goro["dispatch"] = "new"
  /\ loop = "gone" <=> goro["dispatch"] \in {"failed", "gone"}
  /\ loop = "off" => \A w \in Workers : worker[w] = "off"
  /\ loop = "gone" => \A w \in Workers : worker[w] = "gone"
  /\ main \in {"loops", "select", "stopping", "stop"} => loop # "off"
  /\ main = "stop" => step # 0
  /\ joined => main = "exited" /\ goro["dispatch"] \in {"new", "gone"}

\* The supervisor's context is cancelled for a reason.
Reasons ==
  /\ \A g \in Goroutines : goro[g] = "failed" => firstErr # None
  /\ ctxDone => sig = "cancelled" \/ main \in {"stop", "exited"} \/ firstErr # None
  /\ FatalIsTold

AppInv ==
  /\ TypeOK
  /\ Phases
  /\ Reasons
  /\ Located

---------------------------------------------------------------------------
(* The queues                                                              *)

\* An update of another fate that is appended is one more of this fate.
LEMMA Pushed ==
  ASSUME NEW s \in Seq(Updates), NEW f \in [Updates -> Fates], NEW x \in Fates,
         NEW u \in Updates, f[u] # x, Holds(s, f, x)
  PROVE  Holds(Append(s, u), [f EXCEPT ![u] = x], x)
<1> DEFINE t == Append(s, u)
<1> DEFINE g == [f EXCEPT ![u] = x]
<1>1. /\ Len(t) = Len(s) + 1 /\ Len(s) \in Nat
      /\ \A i \in 1 .. Len(s) : t[i] = s[i] /\ s[i] \in Updates
      /\ t[Len(s) + 1] = u
  BY AppendProperties, LenProperties, ElementOfSeq
<1>2. g[u] = x /\ \A v \in Updates : v # u => g[v] = f[v]
  OBVIOUS
<1> HIDE DEF t, g
<1>3. \A i \in 1 .. Len(t) : i \in 1 .. Len(s) \/ i = Len(s) + 1
  BY <1>1
<1>4. \A i \in 1 .. Len(s) : i \in 1 .. Len(t) /\ i # Len(s) + 1
  BY <1>1
<1>5. Len(s) + 1 \in 1 .. Len(t)
  BY <1>1
<1>6. \A i \in 1 .. Len(s) : s[i] # u
  BY DEF Holds
<1>7. \A i \in 1 .. Len(t) : g[t[i]] = x
  BY <1>1, <1>2, <1>3, <1>6 DEF Holds
<1>8. \A i, j \in 1 .. Len(t) : t[i] = t[j] => i = j
  <2>1. \A i, j \in 1 .. Len(s) : t[i] = t[j] => i = j
    BY <1>1 DEF Holds
  <2>2. \A i \in 1 .. Len(s) : t[i] # t[Len(s) + 1]
    BY <1>1, <1>6
  <2>. QED
    BY <1>3, <2>1, <2>2
<1>9. \A v \in Updates : g[v] = x => \E i \in 1 .. Len(t) : t[i] = v
  <2> SUFFICES ASSUME NEW v \in Updates, g[v] = x PROVE \E i \in 1 .. Len(t) : t[i] = v
    OBVIOUS
  <2>1. CASE v = u
    BY <2>1, <1>1, <1>5
  <2>2. CASE v # u
    BY <2>2, <1>1, <1>2, <1>4 DEF Holds
  <2>. QED
    BY <2>1, <2>2
<1>10. Holds(t, g, x)
  BY <1>7, <1>8, <1>9 DEF Holds
<1>. QED
  BY <1>10 DEF t, g

\* The head that is taken is one less.
LEMMA Popped ==
  ASSUME NEW s \in Seq(Updates), NEW f \in [Updates -> Fates], NEW x \in Fates,
         NEW y \in Fates \ {x}, s # <<>>, Holds(s, f, x)
  PROVE  /\ Head(s) \in Updates /\ f[Head(s)] = x
         /\ Holds(Tail(s), [f EXCEPT ![Head(s)] = y], x)
<1> DEFINE t == Tail(s)
<1> DEFINE g == [f EXCEPT ![Head(s)] = y]
<1>1. /\ Len(s) \in Nat \ {0} /\ Len(t) = Len(s) - 1
      /\ \A i \in 1 .. Len(t) : t[i] = s[i + 1]
      /\ Head(s) = s[1] /\ Head(s) \in Updates
      /\ \A i \in 1 .. Len(s) : s[i] \in Updates
  BY HeadTailProperties, LenProperties, ElementOfSeq, EmptySeq
<1>2. g[s[1]] = y /\ \A v \in Updates : v # s[1] => g[v] = f[v]
  BY <1>1
<1> HIDE DEF t, g
<1>3. 1 \in 1 .. Len(s)
  BY <1>1
<1>4. \A i \in 1 .. Len(t) : i + 1 \in 1 .. Len(s) /\ i + 1 # 1
  BY <1>1
<1>5. \A i \in 1 .. Len(s) : i # 1 => i - 1 \in 1 .. Len(t) /\ (i - 1) + 1 = i
  BY <1>1
<1>6. f[s[1]] = x
  BY <1>3 DEF Holds
<1>7. \A i \in 1 .. Len(t) : s[i + 1] # s[1] /\ s[i + 1] \in Updates /\ f[s[i + 1]] = x
  BY <1>1, <1>3, <1>4 DEF Holds
<1>8. \A i \in 1 .. Len(t) : g[t[i]] = x
  BY <1>1, <1>2, <1>7
<1>9. \A i, j \in 1 .. Len(t) : t[i] = t[j] => i = j
  <2> SUFFICES ASSUME NEW i \in 1 .. Len(t), NEW j \in 1 .. Len(t), t[i] = t[j] PROVE i = j
    OBVIOUS
  <2>1. i + 1 = j + 1
    BY <1>1, <1>4 DEF Holds
  <2>. QED
    BY <2>1, <1>1
<1>10. \A v \in Updates : g[v] = x => \E i \in 1 .. Len(t) : t[i] = v
  <2> SUFFICES ASSUME NEW v \in Updates, g[v] = x PROVE \E i \in 1 .. Len(t) : t[i] = v
    OBVIOUS
  <2>1. v # s[1] /\ f[v] = x
    BY <1>2
  <2>2. PICK i \in 1 .. Len(s) : s[i] = v
    BY <2>1 DEF Holds
  <2>3. t[i - 1] = v /\ i - 1 \in 1 .. Len(t)
    BY <2>1, <2>2, <1>1, <1>5
  <2>. QED
    BY <2>3
<1>11. Holds(t, g, x)
  BY <1>8, <1>9, <1>10 DEF Holds
<1>. QED
  BY <1>1, <1>6, <1>11 DEF t, g

\* What becomes of an update of another fate does not concern the queue.
LEMMA LeftAlone ==
  ASSUME NEW s \in Seq(Updates), NEW f \in [Updates -> Fates], NEW x \in Fates,
         NEW u \in Updates, f[u] # x, NEW y \in Fates \ {x}, Holds(s, f, x)
  PROVE  Holds(s, [f EXCEPT ![u] = y], x)
<1>1. \A i \in 1 .. Len(s) : s[i] \in Updates
  BY ElementOfSeq, LenProperties
<1>. QED
  BY <1>1 DEF Holds

\* What Count counts.
LEMMA CountOfHeld ==
  ASSUME NEW s \in Seq(Updates), NEW f \in [Updates -> Fates], NEW x \in Fates,
         NEW u \in Updates, Holds(s, f, x)
  PROVE  Count(s, u) = IF f[u] = x THEN 1 ELSE 0
<1> DEFINE I == {i \in DOMAIN s : s[i] = u}
<1>1. DOMAIN s = 1 .. Len(s)
  BY LenProperties
<1>2. CASE f[u] = x
  <2>1. PICK i \in 1 .. Len(s) : s[i] = u
    BY <1>2 DEF Holds
  <2>2. I = {i}
    BY <2>1, <1>1 DEF Holds
  <2>. QED
    BY <2>2, <1>2, FS_Singleton DEF Count
<1>3. CASE f[u] # x
  <2>1. I = {}
    BY <1>1, <1>3 DEF Holds
  <2>. QED
    BY <2>1, <1>3, FS_EmptySet DEF Count
<1>. QED
  BY <1>2, <1>3

---------------------------------------------------------------------------
(* The steps, by layer                                                     *)

\* The supervisor's step of Stop is the last.
LEMMA LastStep == Len(Steps) = 6 /\ \A i \in 1 .. 6 : Steps[i] = "supervisor" => i = 6
  BY DEF Steps

\* Each goroutine and each worker goes through its phases, and main through its.
LEMMA NextPhases ==
  ASSUME TypeOK, Phases, [Next]_vars
  PROVE  Phases'
<1> USE DispatchAssumption, AppAssumption, SupervisorAssumption
<1> USE DEF supVars, dispatchVars, chanVars, loopVars, jobVars, workerVars, mainVars, TypeOK, SupervisorTypeOK, DispatchTypeOK, Phases
<1>1. ASSUME NEW u \in Updates, main # "exited" /\ SendUpdate(u) /\ UNCHANGED <<mainVars, sig>> PROVE Phases'
  <2>1. UNCHANGED <<supVars, loopVars, workerVars, mainVars, sig>>
    BY <1>1 DEF SendUpdate
  <2>. QED
    BY <1>1, <2>1
<1>2. CASE main # "exited" /\ Signal
  BY <1>2 DEF Signal
<1>3. CASE main # "exited" /\ SecondSignal
  BY <1>3 DEF SecondSignal
<1>4. ASSUME NEW g \in Goroutines, main # "exited" /\ GoroutineFails(g) PROVE Phases'
  BY <1>4 DEF GoroutineFails, SetErr
<1>5. CASE main # "exited" /\ StartAdapter
  BY <1>5 DEF StartAdapter, AdapterStart, Main
<1>6. CASE main # "exited" /\ StartFails
  BY <1>6 DEF StartFails, Main
<1>7. CASE main # "exited" /\ StartServices
  BY <1>7 DEF StartServices, Main
<1>8. CASE main # "exited" /\ GoDispatch
  BY <1>8 DEF GoDispatch, StartDispatch, Main, Go
<1>9. ASSUME NEW g \in Goroutines, main # "exited" /\ GoLoop(g) PROVE Phases'
  BY <1>9 DEF GoLoop, Main, Go
<1>10. CASE main # "exited" /\ SignalCancels
  BY <1>10 DEF SignalCancels
<1>11. ASSUME NEW g \in Goroutines, main # "exited" /\ FailureCancels(g) PROVE Phases'
  BY <1>11 DEF FailureCancels, CancelOnError
<1>12. ASSUME NEW g \in Goroutines, main # "exited" /\ GoroutineReturns(g) PROVE Phases'
  BY <1>12 DEF GoroutineReturns, Return
<1>13. CASE main # "exited" /\ Select
  BY <1>13 DEF Select
<1>14. CASE main # "exited" /\ AdapterStops
  BY <1>14 DEF AdapterStops, AdapterStop
<1>15. CASE main # "exited" /\ NextStep
  <2>1. main' = "stop" => joined' = FALSE /\ step' # 0
    BY <1>15, LastStep DEF NextStep, StepReturns, StepDeadline
  <2>2. joined' => main' = "exited" /\ goro["dispatch"] \in {"new", "gone"}
    <3> SUFFICES ASSUME joined' PROVE main' = "exited" /\ goro["dispatch"] \in {"new", "gone"}
      OBVIOUS
    <3>1. Steps[step] = "supervisor" /\ AllReturned
      BY <1>15 DEF NextStep, StepReturns, StepDeadline
    <3>2. step = 6
      BY <1>15, <3>1, LastStep DEF NextStep
    <3>. QED
      BY <1>15, <3>1, <3>2, LastStep DEF NextStep, AllReturned
  <2>3. main' \in {"stop", "exited"} /\ main = "stop" /\ UNCHANGED <<supVars, dispatchVars>>
    BY <1>15 DEF NextStep
  <2>. QED
    BY <2>1, <2>2, <2>3
<1>16. CASE main # "exited" /\ TakeUpdate /\ UNCHANGED <<mainVars, sig>>
  BY <1>16 DEF TakeUpdate, Becomes
<1>17. CASE main # "exited" /\ Answer /\ UNCHANGED <<mainVars, sig>>
  BY <1>17 DEF Answer, Routed, Becomes
<1>18. CASE main # "exited" /\ Enqueue /\ UNCHANGED <<mainVars, sig>>
  BY <1>18 DEF Enqueue, Routed, Becomes
<1>19. CASE main # "exited" /\ RoutePanics /\ UNCHANGED <<mainVars, sig>>
  BY <1>19 DEF RoutePanics, Becomes
<1>20. CASE main # "exited" /\ SeeDone /\ UNCHANGED <<mainVars, sig>>
  BY <1>20 DEF SeeDone
<1>21. CASE main # "exited" /\ CloseJobs /\ UNCHANGED <<mainVars, sig>>
  BY <1>21 DEF CloseJobs
<1>22. CASE main # "exited" /\ Joined /\ UNCHANGED <<mainVars, sig>>
  BY <1>22 DEF Joined, Return, SetErr
<1>23. ASSUME NEW w \in Workers, main # "exited" /\ TakeJob(w) /\ UNCHANGED <<mainVars, sig>> PROVE Phases'
  BY <1>23 DEF TakeJob, Becomes
<1>24. ASSUME NEW w \in Workers, main # "exited" /\ WorkerReturns(w) /\ UNCHANGED <<mainVars, sig>> PROVE Phases'
  BY <1>24 DEF WorkerReturns
<1>25. ASSUME NEW w \in Workers, main # "exited" /\ HandlerReturns(w) /\ UNCHANGED <<mainVars, sig>> PROVE Phases'
  BY <1>25 DEF HandlerReturns, Becomes
<1>27. CASE main # "exited" /\ ReloadJams
  BY <1>27 DEF ReloadJams, LoggerJams
<1>28. CASE main # "exited" /\ Started
  BY <1>28 DEF Started, Main
<1>29. CASE main # "exited" /\ StopBegins
  BY <1>29 DEF StopBegins
<1>30. ASSUME NEW w \in Workers, main # "exited" /\ CallJob(w) /\ UNCHANGED <<mainVars, sig>> PROVE Phases'
  BY <1>30 DEF CallJob
<1>26. CASE UNCHANGED vars
  BY <1>26 DEF vars
<1>. QED
  BY <1>1, <1>2, <1>3, <1>4, <1>5, <1>6, <1>7, <1>8, <1>9, <1>10, <1>11, <1>12, <1>13,
     <1>14, <1>15, <1>16, <1>17, <1>18, <1>19, <1>20, <1>21, <1>22, <1>23, <1>24, <1>25, <1>26,
     <1>27, <1>28, <1>29, <1>30
  DEF Next, Environment, Start, Dispatch, LoopStep, Work, WorkerStep

\* Nobody cancels the context without a reason that can be told.
LEMMA NextReasons ==
  ASSUME TypeOK, Phases, Reasons, [Next]_vars
  PROVE  Reasons'
<1> USE DispatchAssumption, AppAssumption, SupervisorAssumption
<1> USE DEF supVars, dispatchVars, chanVars, loopVars, jobVars, workerVars, mainVars, TypeOK, SupervisorTypeOK, DispatchTypeOK, Phases, Reasons, FatalIsTold
<1>1. ASSUME NEW u \in Updates, main # "exited" /\ SendUpdate(u) /\ UNCHANGED <<mainVars, sig>> PROVE Reasons'
  <2>1. UNCHANGED <<supVars, loopVars, workerVars, mainVars, sig>>
    BY <1>1 DEF SendUpdate
  <2>. QED
    BY <1>1, <2>1
<1>2. CASE main # "exited" /\ Signal
  BY <1>2 DEF Signal
<1>3. CASE main # "exited" /\ SecondSignal
  BY <1>3 DEF SecondSignal
<1>4. ASSUME NEW g \in Goroutines, main # "exited" /\ GoroutineFails(g) PROVE Reasons'
  BY <1>4 DEF GoroutineFails, SetErr
<1>5. CASE main # "exited" /\ StartAdapter
  BY <1>5 DEF StartAdapter, AdapterStart, Main
<1>6. CASE main # "exited" /\ StartFails
  BY <1>6 DEF StartFails, Main
<1>7. CASE main # "exited" /\ StartServices
  BY <1>7 DEF StartServices, Main
<1>8. CASE main # "exited" /\ GoDispatch
  BY <1>8 DEF GoDispatch, StartDispatch, Main, Go
<1>9. ASSUME NEW g \in Goroutines, main # "exited" /\ GoLoop(g) PROVE Reasons'
  BY <1>9 DEF GoLoop, Main, Go
<1>10. CASE main # "exited" /\ SignalCancels
  BY <1>10 DEF SignalCancels
<1>11. ASSUME NEW g \in Goroutines, main # "exited" /\ FailureCancels(g) PROVE Reasons'
  BY <1>11 DEF FailureCancels, CancelOnError
<1>12. ASSUME NEW g \in Goroutines, main # "exited" /\ GoroutineReturns(g) PROVE Reasons'
  BY <1>12 DEF GoroutineReturns, Return
<1>13. CASE main # "exited" /\ Select
  BY <1>13 DEF Select
<1>14. CASE main # "exited" /\ AdapterStops
  BY <1>14 DEF AdapterStops, AdapterStop
<1>15. CASE main # "exited" /\ NextStep
  BY <1>15 DEF NextStep, StepReturns, StepDeadline, AllReturned
<1>16. CASE main # "exited" /\ TakeUpdate /\ UNCHANGED <<mainVars, sig>>
  BY <1>16 DEF TakeUpdate, Becomes
<1>17. CASE main # "exited" /\ Answer /\ UNCHANGED <<mainVars, sig>>
  BY <1>17 DEF Answer, Routed, Becomes
<1>18. CASE main # "exited" /\ Enqueue /\ UNCHANGED <<mainVars, sig>>
  BY <1>18 DEF Enqueue, Routed, Becomes
<1>19. CASE main # "exited" /\ RoutePanics /\ UNCHANGED <<mainVars, sig>>
  BY <1>19 DEF RoutePanics, Becomes
<1>20. CASE main # "exited" /\ SeeDone /\ UNCHANGED <<mainVars, sig>>
  BY <1>20 DEF SeeDone
<1>21. CASE main # "exited" /\ CloseJobs /\ UNCHANGED <<mainVars, sig>>
  BY <1>21 DEF CloseJobs
<1>22. CASE main # "exited" /\ Joined /\ UNCHANGED <<mainVars, sig>>
  BY <1>22 DEF Joined, Return, SetErr
<1>23. ASSUME NEW w \in Workers, main # "exited" /\ TakeJob(w) /\ UNCHANGED <<mainVars, sig>> PROVE Reasons'
  BY <1>23 DEF TakeJob, Becomes
<1>24. ASSUME NEW w \in Workers, main # "exited" /\ WorkerReturns(w) /\ UNCHANGED <<mainVars, sig>> PROVE Reasons'
  BY <1>24 DEF WorkerReturns
<1>25. ASSUME NEW w \in Workers, main # "exited" /\ HandlerReturns(w) /\ UNCHANGED <<mainVars, sig>> PROVE Reasons'
  BY <1>25 DEF HandlerReturns, Becomes
<1>27. CASE main # "exited" /\ ReloadJams
  BY <1>27 DEF ReloadJams, LoggerJams
<1>28. CASE main # "exited" /\ Started
  BY <1>28 DEF Started, Main
<1>29. CASE main # "exited" /\ StopBegins
  BY <1>29 DEF StopBegins
<1>30. ASSUME NEW w \in Workers, main # "exited" /\ CallJob(w) /\ UNCHANGED <<mainVars, sig>> PROVE Reasons'
  BY <1>30 DEF CallJob
<1>26. CASE UNCHANGED vars
  BY <1>26 DEF vars
<1>. QED
  BY <1>1, <1>2, <1>3, <1>4, <1>5, <1>6, <1>7, <1>8, <1>9, <1>10, <1>11, <1>12, <1>13,
     <1>14, <1>15, <1>16, <1>17, <1>18, <1>19, <1>20, <1>21, <1>22, <1>23, <1>24, <1>25, <1>26,
     <1>27, <1>28, <1>29, <1>30
  DEF Next, Environment, Start, Dispatch, LoopStep, Work, WorkerStep

\* Every step that moves an update tells what becomes of it.
LEMMA NextLocated ==
  ASSUME TypeOK, Phases, Located, [Next]_vars
  PROVE  Located'
<1> USE DispatchAssumption, AppAssumption, SupervisorAssumption
<1> USE DEF supVars, dispatchVars, chanVars, loopVars, jobVars, workerVars, mainVars, TypeOK, SupervisorTypeOK, DispatchTypeOK
<1>a. fate \in [Updates -> Fates]
  BY DEF Fates
<1>b. Holds(updates, fate, "accepted") /\ Holds(jobs, fate, "queued") /\ InHands
  BY DEF Located
<1> USE <1>a, <1>b DEF Fates, Pending, Settled
<1>1. ASSUME NEW u \in Updates, main # "exited" /\ SendUpdate(u) /\ UNCHANGED <<mainVars, sig>> PROVE Located'
  <2>1. UNCHANGED <<jobs, loop, cur, worker, has>> /\ fate[u] = "new"
    BY <1>1 DEF SendUpdate
  <2>2. CASE updates' = Append(updates, u) /\ fate' = [fate EXCEPT ![u] = "accepted"]
    <3>1. Holds(updates', fate', "accepted")
      BY <2>1, <2>2, Pushed
    <3>2. Holds(jobs', fate', "queued")
      BY <2>1, <2>2, LeftAlone
    <3>3. InHands'
      BY <2>1, <2>2 DEF InHands
    <3>. QED
      BY <3>1, <3>2, <3>3 DEF Located
  <2>3. CASE updates' = updates /\ fate' = [fate EXCEPT ![u] = "dropped"]
    <3>1. Holds(updates', fate', "accepted") /\ Holds(jobs', fate', "queued")
      BY <2>1, <2>3, LeftAlone
    <3>2. InHands'
      BY <2>1, <2>3 DEF InHands
    <3>. QED
      BY <3>1, <3>2 DEF Located
  <2>. QED
    BY <1>1, <2>2, <2>3 DEF SendUpdate, Becomes
<1>2. CASE main # "exited" /\ Signal
  <2>1. UNCHANGED <<updates, jobs, loop, cur, worker, has, fate>>
    BY <1>2 DEF Signal
  <2>. QED
    BY <2>1 DEF Located, InHands
<1>3. CASE main # "exited" /\ SecondSignal
  <2>1. UNCHANGED <<updates, jobs, loop, cur, worker, has, fate>>
    BY <1>3 DEF SecondSignal
  <2>. QED
    BY <2>1 DEF Located, InHands
<1>4. ASSUME NEW g \in Goroutines, main # "exited" /\ GoroutineFails(g) PROVE Located'
  <2>1. UNCHANGED <<updates, jobs, loop, cur, worker, has, fate>>
    BY <1>4 DEF GoroutineFails, SetErr
  <2>. QED
    BY <2>1 DEF Located, InHands
<1>5. CASE main # "exited" /\ StartAdapter
  <2>1. UNCHANGED <<updates, jobs, loop, cur, worker, has, fate>>
    BY <1>5 DEF StartAdapter, AdapterStart, Main
  <2>. QED
    BY <2>1 DEF Located, InHands
<1>6. CASE main # "exited" /\ StartFails
  <2>1. UNCHANGED <<updates, jobs, loop, cur, worker, has, fate>>
    BY <1>6 DEF StartFails, Main
  <2>. QED
    BY <2>1 DEF Located, InHands
<1>7. CASE main # "exited" /\ StartServices
  <2>1. UNCHANGED <<updates, jobs, loop, cur, worker, has, fate>>
    BY <1>7 DEF StartServices, Main
  <2>. QED
    BY <2>1 DEF Located, InHands
<1>8. CASE main # "exited" /\ GoDispatch
  <2>1. UNCHANGED <<updates, jobs, cur, has, fate>> /\ loop = "off" /\ loop' = "wait"
    BY <1>8 DEF GoDispatch, StartDispatch
  <2>2. \A w \in Workers : worker[w] \notin {"got", "busy"} /\ worker'[w] \notin {"got", "busy"}
    BY <1>8 DEF GoDispatch, StartDispatch, Phases
  <2>. QED
    BY <2>1, <2>2 DEF Located, InHands
<1>9. ASSUME NEW g \in Goroutines, main # "exited" /\ GoLoop(g) PROVE Located'
  <2>1. UNCHANGED <<updates, jobs, loop, cur, worker, has, fate>>
    BY <1>9 DEF GoLoop, Main, Go
  <2>. QED
    BY <2>1 DEF Located, InHands
<1>10. CASE main # "exited" /\ SignalCancels
  <2>1. UNCHANGED <<updates, jobs, loop, cur, worker, has, fate>>
    BY <1>10 DEF SignalCancels
  <2>. QED
    BY <2>1 DEF Located, InHands
<1>11. ASSUME NEW g \in Goroutines, main # "exited" /\ FailureCancels(g) PROVE Located'
  <2>1. UNCHANGED <<updates, jobs, loop, cur, worker, has, fate>>
    BY <1>11 DEF FailureCancels, CancelOnError
  <2>. QED
    BY <2>1 DEF Located, InHands
<1>12. ASSUME NEW g \in Goroutines, main # "exited" /\ GoroutineReturns(g) PROVE Located'
  <2>1. UNCHANGED <<updates, jobs, loop, cur, worker, has, fate>>
    BY <1>12 DEF GoroutineReturns, Return
  <2>. QED
    BY <2>1 DEF Located, InHands
<1>13. CASE main # "exited" /\ Select
  <2>1. UNCHANGED <<updates, jobs, loop, cur, worker, has, fate>>
    BY <1>13 DEF Select
  <2>. QED
    BY <2>1 DEF Located, InHands
<1>14. CASE main # "exited" /\ AdapterStops
  <2>1. UNCHANGED <<updates, jobs, loop, cur, worker, has, fate>>
    BY <1>14 DEF AdapterStops, AdapterStop
  <2>. QED
    BY <2>1 DEF Located, InHands
<1>15. CASE main # "exited" /\ NextStep
  <2>1. UNCHANGED <<updates, jobs, loop, cur, worker, has, fate>>
    BY <1>15 DEF NextStep, StepReturns, StepDeadline, AllReturned
  <2>. QED
    BY <2>1 DEF Located, InHands
<1>16. CASE main # "exited" /\ TakeUpdate /\ UNCHANGED <<mainVars, sig>>
  <2>1. /\ updates # <<>> /\ updates' = Tail(updates)
        /\ fate' = [fate EXCEPT ![Head(updates)] = "routing"]
        /\ loop = "wait" /\ loop' = "route" /\ cur' = Head(updates)
        /\ UNCHANGED <<jobs, worker, has>>
    BY <1>16 DEF TakeUpdate, Becomes
  <2>2. /\ Head(updates) \in Updates /\ fate[Head(updates)] = "accepted"
        /\ Holds(updates', fate', "accepted")
    BY <2>1, Popped
  <2>3. Holds(jobs', fate', "queued")
    BY <2>1, <2>2, LeftAlone
  <2>4. InHands'
    BY <2>1, <2>2 DEF InHands
  <2>. QED
    BY <2>2, <2>3, <2>4 DEF Located
<1>17. CASE main # "exited" /\ Answer /\ UNCHANGED <<mainVars, sig>>
  <2>1. loop = "route" /\ cur \in Updates /\ fate[cur] = "routing"
    BY <1>17 DEF Answer, Routed, Becomes, InHands
  <2>2. /\ fate' = [fate EXCEPT ![cur] = "answered"] /\ loop' = "wait"
        /\ UNCHANGED <<updates, jobs, worker, has>>
    BY <1>17 DEF Answer, Routed, Becomes
  <2>3. Holds(updates', fate', "accepted") /\ Holds(jobs', fate', "queued")
    BY <2>1, <2>2, LeftAlone
  <2>4. InHands'
    BY <2>1, <2>2 DEF InHands
  <2>. QED
    BY <2>3, <2>4 DEF Located
<1>18. CASE main # "exited" /\ Enqueue /\ UNCHANGED <<mainVars, sig>>
  <2>1. /\ loop = "route" /\ cur \in Updates /\ fate[cur] = "routing" /\ loop' = "wait"
        /\ UNCHANGED <<updates, worker, has>>
    BY <1>18 DEF Enqueue, Routed, InHands
  <2>2. CASE jobs' = Append(jobs, cur) /\ fate' = [fate EXCEPT ![cur] = "queued"]
    <3>1. Holds(updates', fate', "accepted")
      BY <2>1, <2>2, LeftAlone
    <3>2. Holds(jobs', fate', "queued")
      BY <2>1, <2>2, Pushed
    <3>3. InHands'
      BY <2>1, <2>2 DEF InHands
    <3>. QED
      BY <3>1, <3>2, <3>3 DEF Located
  <2>3. CASE jobs' = jobs /\ fate' = [fate EXCEPT ![cur] = "busy"]
    <3>1. Holds(updates', fate', "accepted") /\ Holds(jobs', fate', "queued")
      BY <2>1, <2>3, LeftAlone
    <3>2. InHands'
      BY <2>1, <2>3 DEF InHands
    <3>. QED
      BY <3>1, <3>2 DEF Located
  <2>. QED
    BY <1>18, <2>2, <2>3 DEF Enqueue, Routed, Becomes
<1>19. CASE main # "exited" /\ RoutePanics /\ UNCHANGED <<mainVars, sig>>
  <2>1. loop = "route" /\ cur \in Updates /\ fate[cur] = "routing"
    BY <1>19 DEF RoutePanics, Becomes, InHands
  <2>2. /\ fate' = [fate EXCEPT ![cur] = "dropped"] /\ loop' = "close"
        /\ UNCHANGED <<updates, jobs, worker, has>>
    BY <1>19 DEF RoutePanics, Becomes
  <2>3. Holds(updates', fate', "accepted") /\ Holds(jobs', fate', "queued")
    BY <2>1, <2>2, LeftAlone
  <2>4. InHands'
    BY <2>1, <2>2 DEF InHands
  <2>. QED
    BY <2>3, <2>4 DEF Located
<1>20. CASE main # "exited" /\ SeeDone /\ UNCHANGED <<mainVars, sig>>
  <2>1. UNCHANGED <<updates, jobs, cur, worker, has, fate>> /\ loop # "route" /\ loop' # "route"
    BY <1>20 DEF SeeDone
  <2>. QED
    BY <2>1 DEF Located, InHands
<1>21. CASE main # "exited" /\ CloseJobs /\ UNCHANGED <<mainVars, sig>>
  <2>1. UNCHANGED <<updates, jobs, cur, worker, has, fate>> /\ loop # "route" /\ loop' # "route"
    BY <1>21 DEF CloseJobs
  <2>. QED
    BY <2>1 DEF Located, InHands
<1>22. CASE main # "exited" /\ Joined /\ UNCHANGED <<mainVars, sig>>
  <2>1. UNCHANGED <<updates, jobs, cur, worker, has, fate>> /\ loop # "route" /\ loop' # "route"
    BY <1>22 DEF Joined, Return, SetErr
  <2>. QED
    BY <2>1 DEF Located, InHands
<1>23. ASSUME NEW w \in Workers, main # "exited" /\ TakeJob(w) /\ UNCHANGED <<mainVars, sig>> PROVE Located'
  <2>1. /\ worker[w] = "idle" /\ worker' = [worker EXCEPT ![w] = "got"]
        /\ jobs # <<>> /\ jobs' = Tail(jobs)
        /\ has' = [has EXCEPT ![w] = Head(jobs)]
        /\ fate' = [fate EXCEPT ![Head(jobs)] = "taken"]
        /\ UNCHANGED <<updates, loop, cur>>
    BY <1>23 DEF TakeJob, Becomes
  <2>2. /\ Head(jobs) \in Updates /\ fate[Head(jobs)] = "queued"
        /\ Holds(jobs', fate', "queued")
    BY <2>1, Popped
  <2>3. Holds(updates', fate', "accepted")
    BY <2>1, <2>2, LeftAlone
  <2>4. InHands'
    <3> DEFINE u == Head(jobs)
    <3>1. /\ u \in Updates /\ fate[u] = "queued" /\ has[w] = None /\ \A v \in Workers : has[v] # u
          /\ has'[w] = u /\ \A v \in Workers : v # w => has'[v] = has[v] /\ worker'[v] = worker[v]
          /\ worker'[w] = "got" /\ fate'[u] = "taken"
          /\ \A v \in Updates : v # u => fate'[v] = fate[v]
          /\ loop' = loop /\ cur' = cur
      BY <2>1, <2>2 DEF InHands
    <3> HIDE DEF u
    <3>. QED
      BY <3>1 DEF InHands
  <2>. QED
    BY <2>2, <2>3, <2>4 DEF Located
<1>24. ASSUME NEW w \in Workers, main # "exited" /\ WorkerReturns(w) /\ UNCHANGED <<mainVars, sig>> PROVE Located'
  <2>1. /\ worker[w] = "idle" /\ worker' = [worker EXCEPT ![w] = "gone"]
        /\ UNCHANGED <<updates, jobs, loop, cur, has, fate>>
    BY <1>24 DEF WorkerReturns
  <2>. QED
    BY <2>1 DEF Located, InHands
<1>25. ASSUME NEW w \in Workers, main # "exited" /\ HandlerReturns(w) /\ UNCHANGED <<mainVars, sig>> PROVE Located'
  <2>1. /\ worker[w] = "busy" /\ worker' = [worker EXCEPT ![w] = "idle"]
        /\ has' = [has EXCEPT ![w] = None]
        /\ fate' = [fate EXCEPT ![has[w]] = "done"]
        /\ UNCHANGED <<updates, jobs, loop, cur>>
    BY <1>25 DEF HandlerReturns, Becomes
  <2>2. has[w] \in Updates /\ fate[has[w]] = "taken"
    BY <2>1 DEF InHands
  <2>3. Holds(updates', fate', "accepted") /\ Holds(jobs', fate', "queued")
    BY <2>1, <2>2, LeftAlone
  <2>4. InHands'
    BY <2>1, <2>2 DEF InHands
  <2>. QED
    BY <2>3, <2>4 DEF Located
<1>27. CASE main # "exited" /\ ReloadJams
  <2>1. UNCHANGED <<updates, jobs, loop, cur, worker, has, fate>>
    BY <1>27 DEF ReloadJams, LoggerJams
  <2>. QED
    BY <2>1 DEF Located, InHands
<1>28. CASE main # "exited" /\ Started
  <2>1. UNCHANGED <<updates, jobs, loop, cur, worker, has, fate>>
    BY <1>28 DEF Started, Main
  <2>. QED
    BY <2>1 DEF Located, InHands
<1>29. CASE main # "exited" /\ StopBegins
  <2>1. UNCHANGED <<updates, jobs, loop, cur, worker, has, fate>>
    BY <1>29 DEF StopBegins
  <2>. QED
    BY <2>1 DEF Located, InHands
<1>30. ASSUME NEW w \in Workers, main # "exited" /\ CallJob(w) /\ UNCHANGED <<mainVars, sig>> PROVE Located'
  <2>1. /\ worker[w] = "got" /\ worker' = [worker EXCEPT ![w] = "busy"]
        /\ UNCHANGED <<updates, jobs, loop, cur, has, fate>>
    BY <1>30 DEF CallJob
  <2>. QED
    BY <2>1 DEF Located, InHands
<1>26. CASE UNCHANGED vars
  <2>1. UNCHANGED <<updates, jobs, loop, cur, worker, has, fate>>
    BY <1>26 DEF vars
  <2>. QED
    BY <2>1 DEF Located, InHands
<1>. QED
  BY <1>1, <1>2, <1>3, <1>4, <1>5, <1>6, <1>7, <1>8, <1>9, <1>10, <1>11, <1>12, <1>13,
     <1>14, <1>15, <1>16, <1>17, <1>18, <1>19, <1>20, <1>21, <1>22, <1>23, <1>24, <1>25, <1>26,
     <1>27, <1>28, <1>29, <1>30
  DEF Next, Environment, Start, Dispatch, LoopStep, Work, WorkerStep

\* Types: only updates that were in a queue or sent to it are in the other places.
LEMMA NextTypeOK ==
  ASSUME TypeOK, Located, [Next]_vars
  PROVE  TypeOK'
<1> USE DispatchAssumption, AppAssumption, SupervisorAssumption
<1> USE DEF supVars, dispatchVars, chanVars, loopVars, jobVars, workerVars, mainVars, TypeOK, SupervisorTypeOK, DispatchTypeOK, Fates, Pending, Settled
<1>1. ASSUME NEW u \in Updates, main # "exited" /\ SendUpdate(u) /\ UNCHANGED <<mainVars, sig>> PROVE TypeOK'
  <2>1. Append(updates, u) \in Seq(Updates) /\ Len(Append(updates, u)) = Len(updates) + 1
        /\ Len(updates) \in Nat
    BY AppendProperties, LenProperties
  <2>2. CASE Len(updates) < UpdatesCap /\ updates' = Append(updates, u) /\ Becomes(u, "accepted")
    BY <1>1, <2>1, <2>2 DEF SendUpdate, Becomes
  <2>3. CASE updates' = updates /\ Becomes(u, "dropped")
    BY <1>1, <2>3 DEF SendUpdate, Becomes
  <2>. QED
    BY <1>1, <2>2, <2>3 DEF SendUpdate
<1>2. CASE main # "exited" /\ Signal
  BY <1>2 DEF Signal
<1>3. CASE main # "exited" /\ SecondSignal
  BY <1>3 DEF SecondSignal
<1>4. ASSUME NEW g \in Goroutines, main # "exited" /\ GoroutineFails(g) PROVE TypeOK'
  BY <1>4 DEF GoroutineFails, SetErr
<1>5. CASE main # "exited" /\ StartAdapter
  BY <1>5 DEF StartAdapter, AdapterStart, Main
<1>6. CASE main # "exited" /\ StartFails
  BY <1>6 DEF StartFails, Main
<1>7. CASE main # "exited" /\ StartServices
  BY <1>7 DEF StartServices, Main
<1>8. CASE main # "exited" /\ GoDispatch
  BY <1>8 DEF GoDispatch, StartDispatch, Main, Go
<1>9. ASSUME NEW g \in Goroutines, main # "exited" /\ GoLoop(g) PROVE TypeOK'
  BY <1>9 DEF GoLoop, Main, Go
<1>10. CASE main # "exited" /\ SignalCancels
  BY <1>10 DEF SignalCancels
<1>11. ASSUME NEW g \in Goroutines, main # "exited" /\ FailureCancels(g) PROVE TypeOK'
  BY <1>11 DEF FailureCancels, CancelOnError
<1>12. ASSUME NEW g \in Goroutines, main # "exited" /\ GoroutineReturns(g) PROVE TypeOK'
  BY <1>12 DEF GoroutineReturns, Return
<1>13. CASE main # "exited" /\ Select
  BY <1>13 DEF Select
<1>14. CASE main # "exited" /\ AdapterStops
  <2>1. out' = FALSE /\ UNCHANGED <<supVars, updates, loopVars, jobVars, workerVars, fate, mainVars, sig>>
    BY <1>14 DEF AdapterStops, AdapterStop
  <2>2. SupervisorTypeOK' /\ DispatchTypeOK'
    BY <2>1
  <2>. QED
    BY <2>1, <2>2
<1>15. CASE main # "exited" /\ NextStep
  <2>1. joined' \in BOOLEAN
    BY <1>15 DEF NextStep, StepReturns, StepDeadline
  <2>2. step' \in 0 .. Len(Steps) /\ main' \in {"stop", "exited"}
    BY <1>15, LastStep DEF NextStep
  <2>. QED
    BY <1>15, <2>1, <2>2 DEF NextStep
<1>16. CASE main # "exited" /\ TakeUpdate /\ UNCHANGED <<mainVars, sig>>
  <2>1. /\ Head(updates) \in Updates /\ Tail(updates) \in Seq(Updates)
        /\ Len(Tail(updates)) \in Nat /\ Len(updates) \in Nat /\ Len(Tail(updates)) <= Len(updates)
    BY <1>16, HeadTailProperties, LenProperties, EmptySeq DEF TakeUpdate
  <2>2. updates' \in Seq(Updates) /\ Len(updates') <= UpdatesCap /\ cur' \in Updates /\ loop' = "route"
    BY <1>16, <2>1 DEF TakeUpdate
  <2>3. fate' \in [Updates -> {"new"} \cup Pending \cup Settled]
    BY <1>16, <2>1 DEF TakeUpdate, Becomes
  <2>4. UNCHANGED <<supVars, out, jobVars, workerVars, mainVars, sig>>
    BY <1>16 DEF TakeUpdate
  <2>. QED
    BY <2>2, <2>3, <2>4
<1>17. CASE main # "exited" /\ Answer /\ UNCHANGED <<mainVars, sig>>
  <2>1. loop' = "wait" /\ cur' = None /\ UNCHANGED <<supVars, chanVars, jobVars, workerVars, mainVars, sig>>
    BY <1>17 DEF Answer, Routed
  <2>2. fate' \in [Updates -> {"new"} \cup Pending \cup Settled]
    BY <1>17 DEF Answer, Routed, Becomes
  <2>3. SupervisorTypeOK' /\ DispatchTypeOK'
    BY <2>1, <2>2
  <2>. QED
    BY <2>1, <2>3
<1>18. CASE main # "exited" /\ Enqueue /\ UNCHANGED <<mainVars, sig>>
  <2>1. cur \in Updates
    BY <1>18 DEF Enqueue, Routed, Located, InHands
  <2>2. Append(jobs, cur) \in Seq(Updates) /\ Len(Append(jobs, cur)) = Len(jobs) + 1
        /\ Len(jobs) \in Nat
    BY <2>1, AppendProperties, LenProperties
  <2>3. CASE Len(jobs) < JobsCap /\ Routed("queued") /\ jobs' = Append(jobs, cur)
    BY <1>18, <2>1, <2>2, <2>3 DEF Enqueue, Routed, Becomes
  <2>4. CASE Routed("busy") /\ jobs' = jobs
    BY <1>18, <2>1, <2>4 DEF Enqueue, Routed, Becomes
  <2>. QED
    BY <1>18, <2>3, <2>4 DEF Enqueue
<1>19. CASE main # "exited" /\ RoutePanics /\ UNCHANGED <<mainVars, sig>>
  <2>1. cur \in Updates
    BY <1>19 DEF RoutePanics, Located, InHands
  <2>. QED
    BY <1>19, <2>1 DEF RoutePanics, Becomes
<1>20. CASE main # "exited" /\ SeeDone /\ UNCHANGED <<mainVars, sig>>
  BY <1>20 DEF SeeDone
<1>21. CASE main # "exited" /\ CloseJobs /\ UNCHANGED <<mainVars, sig>>
  BY <1>21 DEF CloseJobs
<1>22. CASE main # "exited" /\ Joined /\ UNCHANGED <<mainVars, sig>>
  <2>1. SupervisorTypeOK'
    BY <1>22 DEF Joined, Return, SetErr
  <2>2. DispatchTypeOK'
    BY <1>22 DEF Joined
  <2>3. UNCHANGED <<mainVars, sig>>
    BY <1>22
  <2>. QED
    BY <2>1, <2>2, <2>3
<1>23. ASSUME NEW w \in Workers, main # "exited" /\ TakeJob(w) /\ UNCHANGED <<mainVars, sig>> PROVE TypeOK'
  <2>1. /\ Head(jobs) \in Updates /\ Tail(jobs) \in Seq(Updates)
        /\ Len(Tail(jobs)) \in Nat /\ Len(jobs) \in Nat /\ Len(Tail(jobs)) <= Len(jobs)
    BY <1>23, HeadTailProperties, LenProperties, EmptySeq DEF TakeJob
  <2>. QED
    BY <1>23, <2>1 DEF TakeJob, Becomes
<1>24. ASSUME NEW w \in Workers, main # "exited" /\ WorkerReturns(w) /\ UNCHANGED <<mainVars, sig>> PROVE TypeOK'
  BY <1>24 DEF WorkerReturns
<1>25. ASSUME NEW w \in Workers, main # "exited" /\ HandlerReturns(w) /\ UNCHANGED <<mainVars, sig>> PROVE TypeOK'
  <2>1. has[w] \in Updates
    BY <1>25 DEF HandlerReturns, Located, InHands
  <2>. QED
    BY <1>25, <2>1 DEF HandlerReturns, Becomes
<1>27. CASE main # "exited" /\ ReloadJams
  BY <1>27 DEF ReloadJams, LoggerJams
<1>28. CASE main # "exited" /\ Started
  BY <1>28 DEF Started, Main
<1>29. CASE main # "exited" /\ StopBegins
  <2>1. step' \in 0 .. Len(Steps)
    BY <1>29, LastStep DEF StopBegins
  <2>2. main' = "stop" /\ ctxDone' = TRUE
    BY <1>29 DEF StopBegins
  <2>3. SupervisorTypeOK'
    BY <1>29, <2>2 DEF StopBegins
  <2>4. DispatchTypeOK'
    BY <1>29 DEF StopBegins
  <2>5. UNCHANGED <<sig, reason, joined>>
    BY <1>29 DEF StopBegins
  <2>. QED
    BY <2>1, <2>2, <2>3, <2>4, <2>5
<1>30. ASSUME NEW w \in Workers, main # "exited" /\ CallJob(w) /\ UNCHANGED <<mainVars, sig>> PROVE TypeOK'
  BY <1>30 DEF CallJob
<1>26. CASE UNCHANGED vars
  BY <1>26 DEF vars
<1>. QED
  BY <1>1, <1>2, <1>3, <1>4, <1>5, <1>6, <1>7, <1>8, <1>9, <1>10, <1>11, <1>12, <1>13,
     <1>14, <1>15, <1>16, <1>17, <1>18, <1>19, <1>20, <1>21, <1>22, <1>23, <1>24, <1>25, <1>26,
     <1>27, <1>28, <1>29, <1>30
  DEF Next, Environment, Start, Dispatch, LoopStep, Work, WorkerStep

---------------------------------------------------------------------------
(* The theorems                                                            *)

\* Before main has started anything, every update is new.
LEMMA InitAppInv == Init => AppInv
<1> SUFFICES ASSUME Init PROVE AppInv
  OBVIOUS
<1> USE DispatchAssumption, SupervisorAssumption DEF Init, SupervisorInit, DispatchInit
<1>1. SupervisorTypeOK
  BY DEF SupervisorTypeOK
<1>2. updates \in Seq(Updates) /\ Len(updates) = 0 /\ jobs \in Seq(Updates) /\ Len(jobs) = 0
  BY EmptySeq
<1>3. DispatchTypeOK
  <2>1. /\ worker \in [Workers -> {"off", "idle", "got", "busy", "gone"}]
        /\ has \in [Workers -> Updates \cup {None}]
        /\ fate \in [Updates -> {"new"} \cup Pending \cup Settled]
    OBVIOUS
  <2>2. Len(updates) <= UpdatesCap /\ Len(jobs) <= JobsCap
    <3> HIDE DEF Init, DispatchInit
    <3>. QED
      BY <1>2
  <2>3. /\ out \in BOOLEAN /\ closed \in BOOLEAN
        /\ loop \in {"off", "wait", "route", "close", "join", "gone"}
        /\ cur \in Updates \cup {None}
    OBVIOUS
  <2> HIDE DEF Init, DispatchInit
  <2>. QED
    BY <1>2, <2>1, <2>2, <2>3 DEF DispatchTypeOK
<1>4. TypeOK
  <2>1. step \in 0 .. Len(Steps)
    BY LastStep
  <2>. QED
    BY <1>1, <1>3, <2>1 DEF TypeOK
<1>5. Phases /\ Reasons
  BY DEF Phases, Reasons, FatalIsTold
<1>6. Holds(updates, fate, "accepted") /\ Holds(jobs, fate, "queued")
  BY <1>2 DEF Holds
<1>7. InHands
  BY DEF InHands
<1>. QED
  BY <1>4, <1>5, <1>6, <1>7 DEF AppInv, Located

\* The inductive invariant holds in every state the application reaches.
THEOREM AppInvariant == Spec => []AppInv
<1>1. Init => AppInv
  BY InitAppInv
<1>2. AppInv /\ [Next]_vars => AppInv'
  BY NextTypeOK, NextPhases, NextReasons, NextLocated DEF AppInv
<1>. QED
  BY <1>1, <1>2, PTL DEF Spec

\* No update is lost between the channel, the loop, the queue and the workers,
\* and none is in two places (commands.go:313-326, 454-458, 285-294).
THEOREM EachInOnePlace == Spec => []InOnePlace
<1>1. ASSUME AppInv PROVE InOnePlace
  <2>1. TypeOK /\ Located /\ InHands
    BY <1>1 DEF AppInv, Located
  <2>2. /\ updates \in Seq(Updates) /\ jobs \in Seq(Updates)
        /\ fate \in [Updates -> Fates] /\ has \in [Workers -> Updates \cup {None}]
    BY <2>1 DEF TypeOK, DispatchTypeOK, Fates
  <2>3. ASSUME NEW u \in Updates
        PROVE  /\ Count(updates, u) = IF fate[u] = "accepted" THEN 1 ELSE 0
               /\ Count(jobs, u) = IF fate[u] = "queued" THEN 1 ELSE 0
    BY <2>1, <2>2, CountOfHeld DEF Located, Fates, Pending
  <2>4. ASSUME NEW u \in Updates
        PROVE  /\ (loop = "route" /\ cur = u) <=> fate[u] = "routing"
               /\ {w \in Workers : has[w] = u} = {} <=> fate[u] # "taken"
               /\ \A v, w \in Workers : has[v] = u /\ has[w] = u => v = w
    BY <2>1, DispatchAssumption DEF InHands
  <2>. QED
    BY <2>1, <2>3, <2>4 DEF InOnePlace
<1>. QED
  BY <1>1, AppInvariant, PTL

\* Once the dispatcher has ended, and so once Stop has joined the supervisor,
\* no handler is in the middle of its work (commands.go:303-309, app.go:432-433).
THEOREM JoinedIsQuiet == Spec => []QuietWhenJoined
<1>1. AppInv => QuietWhenJoined
  BY DEF AppInv, Phases, QuietWhenJoined
<1>. QED
  BY <1>1, AppInvariant, PTL

\* Without a signal main stops for a fatal error and names it
\* (main.go:79-83, supervisor.go:83-86).
THEOREM FatalTold == Spec => []FatalIsTold
<1>1. AppInv => FatalIsTold
  BY DEF AppInv, Reasons
<1>. QED
  BY <1>1, AppInvariant, PTL

---------------------------------------------------------------------------
(* The way of an update implements UpdateLine                              *)

\* What comes to the end of the channel comes to the end of the line.
LEMMA EndOfLine ==
  ASSUME NEW j \in Seq(Updates), NEW m \in Seq(Updates), NEW s \in Seq(Updates),
         NEW u \in Updates
  PROVE  (j \o m) \o Append(s, u) = Append((j \o m) \o s, u)
<1>1. <<u>> \in Seq(Updates) /\ j \o m \in Seq(Updates) /\ (j \o m) \o s \in Seq(Updates)
  BY ConcatProperties
<1>2. Append(s, u) = s \o <<u>> /\ Append((j \o m) \o s, u) = ((j \o m) \o s) \o <<u>>
  BY <1>1, AppendIsConcat
<1>. QED
  BY <1>1, <1>2, ConcatAssociative

\* A sequence is its head and its tail.
LEMMA HeadAndTail ==
  ASSUME NEW s \in Seq(Updates), s # <<>>
  PROVE  /\ Head(s) \in Updates /\ Tail(s) \in Seq(Updates)
         /\ s = <<Head(s)>> \o Tail(s)
<1>1. /\ Head(s) \in Updates /\ Tail(s) \in Seq(Updates) /\ Head(s) = s[1]
      /\ Len(s) \in Nat \ {0} /\ Len(Tail(s)) = Len(s) - 1
      /\ \A i \in 1 .. Len(Tail(s)) : Tail(s)[i] = s[i + 1]
  BY HeadTailProperties, LenProperties, EmptySeq
<1> DEFINE h == <<Head(s)>>
<1>2. h \in Seq(Updates) /\ Len(h) = 1 /\ h[1] = s[1]
  BY <1>1
<1> HIDE DEF h
<1>3. /\ h \o Tail(s) \in Seq(Updates) /\ Len(h \o Tail(s)) = Len(s)
      /\ \A i \in 1 .. Len(s) : (h \o Tail(s))[i] = IF i <= 1 THEN h[i] ELSE Tail(s)[i - 1]
  <2>1. 1 = Len(h) /\ Len(s) = 1 + Len(Tail(s))
    BY <1>1, <1>2
  <2>2. /\ h \o Tail(s) \in Seq(Updates) /\ Len(h \o Tail(s)) = Len(h) + Len(Tail(s))
        /\ \A i \in 1 .. Len(h) + Len(Tail(s)) :
             (h \o Tail(s))[i] = IF i <= Len(h) THEN h[i] ELSE Tail(s)[i - Len(h)]
    BY <1>1, <1>2, ConcatProperties
  <2>. QED
    BY <1>1, <1>2, <2>1, <2>2
<1>4. ASSUME NEW i \in 1 .. Len(s) PROVE (h \o Tail(s))[i] = s[i]
  <2>1. CASE i = 1
    BY <2>1, <1>2, <1>3
  <2>2. CASE i # 1
    <3>1. i - 1 \in 1 .. Len(Tail(s)) /\ (i - 1) + 1 = i /\ ~(i <= 1)
      BY <2>2, <1>1
    <3>. QED
      BY <3>1, <1>1, <1>3
  <2>. QED
    BY <2>1, <2>2
<1>5. s = h \o Tail(s)
  BY <1>3, <1>4, SeqEqual
<1>. QED
  BY <1>1, <1>5 DEF h

\* The head of the first part is the head of the line.
LEMMA HeadOfLine ==
  ASSUME NEW j \in Seq(Updates), NEW m \in Seq(Updates), NEW s \in Seq(Updates), j # <<>>
  PROVE  /\ (j \o m) \o s # <<>>
         /\ Head((j \o m) \o s) = Head(j)
         /\ Tail((j \o m) \o s) = (Tail(j) \o m) \o s
<1>1. Head(j) \in Updates /\ Tail(j) \in Seq(Updates) /\ j = <<Head(j)>> \o Tail(j)
  BY HeadAndTail
<1> DEFINE h == <<Head(j)>>
<1> DEFINE t == (Tail(j) \o m) \o s
<1>2. /\ h \in Seq(Updates) /\ t \in Seq(Updates) /\ Tail(j) \o m \in Seq(Updates)
      /\ m \o s \in Seq(Updates) /\ j \o m \in Seq(Updates)
  BY <1>1, ConcatProperties
<1>3. Len(h) = 1 /\ h[1] = Head(j)
  OBVIOUS
<1>4. (j \o m) \o s = h \o t
  <2> HIDE DEF h
  <2>1. j \o m = h \o (Tail(j) \o m)
    BY <1>1, <1>2, ConcatAssociative DEF h
  <2>2. (h \o (Tail(j) \o m)) \o s = h \o ((Tail(j) \o m) \o s)
    <3> DEFINE r == Tail(j) \o m
    <3>1. h \in Seq(Updates) /\ r \in Seq(Updates)
      BY <1>2
    <3> HIDE DEF r
    <3>2. (h \o r) \o s = h \o (r \o s)
      BY <3>1, ConcatAssociative, SMTT(30)
    <3>. QED
      BY <3>2 DEF r
  <2>. QED
    BY <2>1, <2>2
<1> DEFINE l == h \o t
<1> HIDE DEF h, t
<1>5. /\ l \in Seq(Updates) /\ Len(l) = 1 + Len(t) /\ Len(t) \in Nat
      /\ \A i \in 1 .. Len(l) : l[i] = IF i <= 1 THEN h[i] ELSE t[i - 1]
  <2>1. Len(t) \in Nat
    BY <1>2, LenProperties
  <2>2. /\ h \o t \in Seq(Updates) /\ Len(h \o t) = Len(h) + Len(t)
        /\ \A i \in 1 .. Len(h) + Len(t) :
             (h \o t)[i] = IF i <= Len(h) THEN h[i] ELSE t[i - Len(h)]
    BY <1>2, ConcatProperties
  <2>. QED
    BY <1>3, <2>1, <2>2
<1> HIDE DEF l
<1>6. l # <<>> /\ 1 \in 1 .. Len(l)
  BY <1>5, EmptySeq
<1>7. /\ Head(l) = l[1] /\ Tail(l) \in Seq(Updates) /\ Len(Tail(l)) = Len(l) - 1
      /\ \A i \in 1 .. Len(Tail(l)) : Tail(l)[i] = l[i + 1]
  BY <1>5, <1>6, HeadTailProperties
<1>8. ASSUME NEW i \in 1 .. Len(t) PROVE Tail(l)[i] = t[i]
  <2>1. i \in 1 .. Len(Tail(l)) /\ i + 1 \in 1 .. Len(l) /\ ~(i + 1 <= 1) /\ (i + 1) - 1 = i
    BY <1>5, <1>7
  <2>. QED
    BY <2>1, <1>5, <1>7
<1>9. Tail(l) = t
  BY <1>2, <1>5, <1>7, <1>8, SeqEqual
<1>10. Head(l) = Head(j)
  BY <1>3, <1>5, <1>6, <1>7
<1>. QED
  BY <1>4, <1>6, <1>9, <1>10 DEF l, t

\* What the loop has in its hands and lets go leaves the line at its place.
LEMMA OutOfLine ==
  ASSUME NEW j \in Seq(Updates), NEW s \in Seq(Updates), NEW c \in Updates
  PROVE  /\ Len(j) + 1 \in DOMAIN ((j \o <<c>>) \o s)
         /\ (j \o <<>>) \o s = Way!RemoveAt((j \o <<c>>) \o s, Len(j) + 1)
<1> DEFINE m == <<c>>
<1> DEFINE l == (j \o m) \o s
<1>1. m \in Seq(Updates) /\ Len(m) = 1
  OBVIOUS
<1> HIDE DEF m
<1>2. Len(j) \in Nat /\ Len(s) \in Nat
  BY LenProperties
<1>3. /\ j \o m \in Seq(Updates) /\ Len(j \o m) = Len(j) + 1
      /\ \A i \in 1 .. Len(j) + 1 : (j \o m)[i] = IF i <= Len(j) THEN j[i] ELSE m[i - Len(j)]
  <2>1. /\ j \o m \in Seq(Updates) /\ Len(j \o m) = Len(j) + Len(m)
        /\ \A i \in 1 .. Len(j) + Len(m) :
             (j \o m)[i] = IF i <= Len(j) THEN j[i] ELSE m[i - Len(j)]
    BY <1>1, ConcatProperties
  <2>. QED
    BY <1>1, <2>1
<1>4. /\ l \in Seq(Updates) /\ Len(l) = Len(j) + 1 + Len(s)
      /\ \A i \in 1 .. Len(l) :
           l[i] = IF i <= Len(j) + 1 THEN (j \o m)[i] ELSE s[i - (Len(j) + 1)]
  <2> DEFINE r == j \o m
  <2>2. r \in Seq(Updates) /\ Len(r) = Len(j) + 1
    BY <1>3 DEF r
  <2> HIDE DEF r
  <2>1. /\ r \o s \in Seq(Updates) /\ Len(r \o s) = Len(r) + Len(s)
        /\ \A i \in 1 .. Len(r) + Len(s) :
             (r \o s)[i] = IF i <= Len(r) THEN r[i] ELSE s[i - Len(r)]
    BY <2>2, ConcatProperties
  <2>3. l = r \o s
    BY DEF r
  <2>. QED
    BY <2>1, <2>2, <2>3 DEF r
<1> HIDE DEF l
<1>5. DOMAIN l = 1 .. Len(l)
  BY <1>4, LenProperties
<1>6. /\ Len(SubSeq(l, 1, Len(j))) = Len(j) /\ SubSeq(l, 1, Len(j)) \in Seq(Updates)
      /\ \A i \in 1 .. Len(j) : SubSeq(l, 1, Len(j))[i] = l[i]
  BY <1>2, <1>4
<1>7. SubSeq(l, 1, Len(j)) = j
  <2>1. ASSUME NEW i \in 1 .. Len(j) PROVE SubSeq(l, 1, Len(j))[i] = j[i]
    <3>1. i \in 1 .. Len(l) /\ i \in 1 .. Len(j) + 1 /\ i <= Len(j) /\ i <= Len(j) + 1
      BY <1>2, <1>4
    <3>. QED
      BY <3>1, <1>3, <1>4, <1>6
  <2>. QED
    BY <2>1, <1>6, SeqEqual
<1>8. /\ SubSeq(l, Len(j) + 2, Len(l)) \in Seq(Updates)
      /\ Len(SubSeq(l, Len(j) + 2, Len(l))) = Len(s)
      /\ \A i \in 1 .. Len(s) : SubSeq(l, Len(j) + 2, Len(l))[i] = l[i + (Len(j) + 1)]
  BY <1>2, <1>4
<1>9. SubSeq(l, Len(j) + 2, Len(l)) = s
  <2>1. ASSUME NEW i \in 1 .. Len(s) PROVE SubSeq(l, Len(j) + 2, Len(l))[i] = s[i]
    <3>1. /\ i + (Len(j) + 1) \in 1 .. Len(l) /\ ~(i + (Len(j) + 1) <= Len(j) + 1)
          /\ (i + (Len(j) + 1)) - (Len(j) + 1) = i
      BY <1>2, <1>4
    <3>. QED
      BY <3>1, <1>4, <1>8
  <2>. QED
    BY <2>1, <1>8, SeqEqual
<1>10. (Len(j) + 1) - 1 = Len(j) /\ (Len(j) + 1) + 1 = Len(j) + 2 /\ Len(j) + 1 \in 1 .. Len(l)
  BY <1>2, <1>4
<1>11. Way!RemoveAt(l, Len(j) + 1) = j \o s
  BY <1>7, <1>9, <1>10 DEF Way!RemoveAt
<1>12. j \o <<>> = j
  BY ConcatEmptySeq
<1>. QED
  BY <1>5, <1>10, <1>11, <1>12 DEF l, m

\* An action either leaves the line, the workers' hands and the fates alone, or
\* is one of those that move an update.
LEMMA StepsOfWay ==
  ASSUME [Next]_vars
  PROVE  \/ UNCHANGED <<updates, jobs, InHand, has, fate>>
         \/ \E u \in Updates : SendUpdate(u)
         \/ TakeUpdate \/ Answer \/ Enqueue \/ RoutePanics
         \/ \E w \in Workers : TakeJob(w) \/ HandlerReturns(w)
<1> DEFINE Still == UNCHANGED <<updates, jobs, InHand, has, fate>>
<1> DEFINE Kept == UNCHANGED <<updates, loop, cur, jobs, has, fate>>
<1>1. Kept => Still
  BY DEF InHand
<1> USE DEF dispatchVars, chanVars, loopVars, jobVars, workerVars
<1>2. Signal \/ SecondSignal \/ SignalCancels \/ ReloadJams => Kept
  BY DEF Signal, SecondSignal, SignalCancels, ReloadJams
<1>9. Started \/ Select \/ StopBegins \/ NextStep => Kept
  BY DEF Started, Select, StopBegins, NextStep
<1>3. ASSUME NEW g \in Goroutines,
             GoroutineFails(g) \/ FailureCancels(g) \/ GoroutineReturns(g) \/ GoLoop(g)
      PROVE  Kept
  BY <1>3 DEF GoroutineFails, FailureCancels, GoroutineReturns, GoLoop
<1>4. StartAdapter \/ StartFails \/ StartServices \/ AdapterStops => Kept
  BY DEF StartAdapter, AdapterStart, StartFails, StartServices, AdapterStops, AdapterStop
<1>5. GoDispatch => Still
  BY DEF GoDispatch, StartDispatch, InHand
<1>6. SeeDone \/ CloseJobs \/ Joined => Still
  BY DEF SeeDone, CloseJobs, Joined, InHand
<1>7. ASSUME NEW w \in Workers, WorkerReturns(w) \/ CallJob(w) PROVE Kept
  BY <1>7 DEF WorkerReturns, CallJob
<1>8. UNCHANGED vars => Kept
  BY DEF vars
<1> HIDE DEF Kept, Still
<1>. QED
  BY <1>1, <1>2, <1>3, <1>4, <1>5, <1>6, <1>7, <1>8, <1>9
  DEF Next, Environment, Start, Dispatch, LoopStep, Work, WorkerStep, Still

\* While there is room in the channel there is in the line.
LEMMA RoomInLine ==
  ASSUME NEW j \in Nat, NEW m \in 0 .. 1, NEW s \in Nat, j <= JobsCap, s < UpdatesCap
  PROVE  j + m + s < UpdatesCap + 1 + JobsCap
BY DispatchAssumption

\* Every step of the application is a step of the line or none.
LEMMA StepOfWay ==
  ASSUME AppInv, [Next]_vars
  PROVE  [Way!Next]_<<Arrived, Waiting, has>>
<1> USE DispatchAssumption
<1>1. /\ updates \in Seq(Updates) /\ jobs \in Seq(Updates)
      /\ Len(updates) \in Nat /\ Len(jobs) \in Nat
      /\ Len(updates) <= UpdatesCap /\ Len(jobs) <= JobsCap
      /\ has \in [Workers -> Updates \cup {None}]
      /\ fate \in [Updates -> Fates]
  BY LenProperties DEF AppInv, TypeOK, DispatchTypeOK, Fates
<1>2. /\ loop = "route" => cur \in Updates /\ fate[cur] = "routing"
      /\ \A w \in Workers : worker[w] \in {"got", "busy"} <=> has[w] # None
      /\ \A w \in Workers : has[w] # None => fate[has[w]] = "taken"
  BY DEF AppInv, Located, InHands
<1>3. /\ \A i \in 1 .. Len(updates) : fate[updates[i]] = "accepted"
      /\ \A i \in 1 .. Len(jobs) : fate[jobs[i]] = "queued"
  BY DEF AppInv, Located, Holds
<1>4. InHand \in Seq(Updates) /\ Len(InHand) \in {0, 1}
  BY <1>2, EmptySeq DEF InHand
<1>5. ASSUME NEW u \in Updates, NEW x, x # "new", fate[u] # "new", Becomes(u, x)
      PROVE  Arrived' = Arrived
  BY <1>1, <1>5 DEF Arrived, Becomes
<1>6. CASE UNCHANGED <<updates, jobs, InHand, has, fate>>
  BY <1>6 DEF Arrived, Waiting
<1>7. ASSUME NEW u \in Updates, SendUpdate(u)
      PROVE  Way!TurnAway(u) \/ Way!LineUp(u)
  <2>1. /\ fate[u] = "new" /\ fate' \in {[fate EXCEPT ![u] = "accepted"], [fate EXCEPT ![u] = "dropped"]}
        /\ UNCHANGED <<jobs, InHand, has>>
    BY <1>7 DEF SendUpdate, Becomes, loopVars, jobVars, workerVars, InHand
  <2>2. u \notin Arrived /\ Arrived' = Arrived \cup {u}
    BY <1>1, <2>1 DEF Arrived
  <2>3. CASE Len(updates) < UpdatesCap /\ updates' = Append(updates, u)
    <3>1. Waiting' = Append(Waiting, u)
      <4>1. (jobs \o InHand) \o Append(updates, u) = Append((jobs \o InHand) \o updates, u)
        <5>1. updates \in Seq(Updates) /\ jobs \in Seq(Updates) /\ InHand \in Seq(Updates)
          BY <1>1, <1>4
        <5>. QED
          BY <5>1, EndOfLine, SMTT(30)
      <4>2. Waiting' = (jobs \o InHand) \o Append(updates, u)
        BY <2>1, <2>3 DEF Waiting
      <4>. QED
        BY <4>1, <4>2, Zenon DEF Waiting
    <3>2. jobs \o InHand \in Seq(Updates) /\ Len(jobs \o InHand) = Len(jobs) + Len(InHand)
      BY <1>1, <1>4, ConcatProperties
    <3>3. Len(Waiting) = Len(jobs \o InHand) + Len(updates)
      BY <1>1, <3>2, ConcatProperties DEF Waiting
    <3>4. Len(Waiting) < UpdatesCap + 1 + JobsCap
      <4>1. Len(Waiting) = Len(jobs) + Len(InHand) + Len(updates)
        BY <3>2, <3>3, Zenon
      <4>2. Len(jobs) + Len(InHand) + Len(updates) < UpdatesCap + 1 + JobsCap
        <5>1. Len(updates) < UpdatesCap
          BY <2>3
        <5>2. /\ Len(jobs) \in Nat /\ Len(jobs) <= JobsCap
              /\ Len(updates) \in Nat /\ Len(InHand) \in 0 .. 1
          BY <1>1, <1>4
        <5>. QED
          BY <5>1, <5>2, RoomInLine
      <4>. QED
        BY <4>1, <4>2, Zenon
    <3>. QED
      BY <2>1, <2>2, <3>1, <3>4 DEF Way!LineUp
  <2>4. CASE updates' = updates
    BY <2>1, <2>2, <2>4 DEF Way!TurnAway, Waiting
  <2>. QED
    BY <1>7, <2>3, <2>4 DEF SendUpdate
<1>8. CASE TakeUpdate
  <2>1. /\ loop = "wait" /\ updates # <<>> /\ cur' = Head(updates) /\ updates' = Tail(updates)
        /\ loop' = "route" /\ Becomes(Head(updates), "routing")
        /\ UNCHANGED <<jobs, has>>
    BY <1>8 DEF TakeUpdate, jobVars, workerVars
  <2>2. /\ Head(updates) \in Updates /\ Tail(updates) \in Seq(Updates)
        /\ updates = <<Head(updates)>> \o Tail(updates)
    BY <1>1, <2>1, HeadAndTail
  <2>3. Head(updates) = updates[1] /\ 1 \in 1 .. Len(updates)
    BY <1>1, <2>1, HeadTailProperties, EmptySeq
  <2>4. Arrived' = Arrived
    <3>1. fate[Head(updates)] = "accepted"
      BY <1>3, <2>3
    <3>. QED
      BY <1>1, <2>1, <2>2, <3>1 DEF Arrived, Becomes
  <2>5. InHand = <<>> /\ InHand' = <<Head(updates)>>
    BY <2>1 DEF InHand
  <2>6. <<Head(updates)>> \in Seq(Updates)
    BY <2>2
  <2>7. (jobs \o <<Head(updates)>>) \o Tail(updates) = (jobs \o <<>>) \o updates
    <3> DEFINE h == <<Head(updates)>>
    <3> DEFINE t == Tail(updates)
    <3>1. h \in Seq(Updates) /\ t \in Seq(Updates) /\ updates = h \o t
      BY <2>2, <2>6
    <3> HIDE DEF h, t
    <3>2. (jobs \o h) \o t = jobs \o (h \o t)
      BY <1>1, <3>1, ConcatAssociative, SMTT(30)
    <3>3. jobs \o <<>> = jobs
      BY <1>1, ConcatEmptySeq
    <3>. QED
      BY <3>1, <3>2, <3>3 DEF h, t
  <2>8. Waiting' = Waiting
    BY <2>1, <2>5, <2>7 DEF Waiting
  <2>. QED
    BY <2>1, <2>4, <2>8
<1>9. ASSUME NEW x \in Settled, loop = "route", Becomes(cur, x), loop' # "route",
             UNCHANGED <<updates, jobs, has>>
      PROVE  \E i \in DOMAIN Waiting : Way!Leave(i)
  <2>1. cur \in Updates /\ InHand = <<cur>> /\ InHand' = <<>>
    BY <1>2, <1>9 DEF InHand
  <2>2. Arrived' = Arrived
    BY <1>2, <1>5, <1>9, <2>1 DEF Settled
  <2>3. /\ Len(jobs) + 1 \in DOMAIN ((jobs \o <<cur>>) \o updates)
        /\ (jobs \o <<>>) \o updates = Way!RemoveAt((jobs \o <<cur>>) \o updates, Len(jobs) + 1)
    BY <1>1, <2>1, OutOfLine
  <2>4. Len(jobs) + 1 \in DOMAIN Waiting /\ Waiting' = Way!RemoveAt(Waiting, Len(jobs) + 1)
    BY <1>9, <2>1, <2>3 DEF Waiting
  <2>5. Way!Leave(Len(jobs) + 1)
    BY <1>9, <2>2, <2>4 DEF Way!Leave
  <2>. QED
    BY <2>4, <2>5
<1>10. CASE Answer
  BY <1>9, <1>10 DEF Answer, Routed, Settled, chanVars, jobVars, workerVars, Way!Next
<1>11. CASE RoutePanics
  BY <1>9, <1>11 DEF RoutePanics, Settled, chanVars, jobVars, workerVars, Way!Next
<1>12. CASE Enqueue
  <2>1. CASE Routed("busy") /\ UNCHANGED jobs
    BY <1>9, <1>12, <2>1 DEF Enqueue, Routed, Settled, chanVars, workerVars, Way!Next
  <2>2. CASE Routed("queued") /\ jobs' = Append(jobs, cur)
    <3>1. /\ loop = "route" /\ loop' = "wait" /\ Becomes(cur, "queued")
          /\ UNCHANGED <<updates, has>> /\ cur \in Updates
      BY <1>2, <1>12, <2>2 DEF Enqueue, Routed, chanVars, workerVars
    <3>2. Arrived' = Arrived
      BY <1>2, <1>5, <3>1
    <3>3. InHand = <<cur>> /\ InHand' = <<>>
      BY <3>1 DEF InHand
    <3>4. Append(jobs, cur) \in Seq(Updates) /\ Append(jobs, cur) = jobs \o <<cur>>
      BY <1>1, <3>1, AppendProperties, AppendIsConcat
    <3>5. Append(jobs, cur) \o <<>> = Append(jobs, cur)
      BY <3>4, ConcatEmptySeq
    <3>6. Waiting' = Waiting
      BY <2>2, <3>1, <3>3, <3>4, <3>5 DEF Waiting
    <3>. QED
      BY <3>1, <3>2, <3>6
  <2>. QED
    BY <1>12, <2>1, <2>2 DEF Enqueue
<1>13. ASSUME NEW w \in Workers, TakeJob(w)
       PROVE  Way!Take(w)
  <2>1. /\ worker[w] = "idle" /\ jobs # <<>> /\ has' = [has EXCEPT ![w] = Head(jobs)]
        /\ jobs' = Tail(jobs) /\ Becomes(Head(jobs), "taken")
        /\ UNCHANGED <<updates, InHand>>
    BY <1>13 DEF TakeJob, chanVars, loopVars, InHand
  <2>2. has[w] = None
    BY <1>2, <2>1
  <2>3. Head(jobs) \in Updates /\ Head(jobs) = jobs[1] /\ 1 \in 1 .. Len(jobs)
    BY <1>1, <2>1, HeadTailProperties, EmptySeq
  <2>4. Arrived' = Arrived
    <3>1. fate[Head(jobs)] = "queued"
      BY <1>3, <2>3
    <3>. QED
      BY <1>1, <2>1, <2>3, <3>1 DEF Arrived, Becomes
  <2>5. Waiting # <<>> /\ Head(Waiting) = Head(jobs) /\ Waiting' = Tail(Waiting)
    <3>1. /\ (jobs \o InHand) \o updates # <<>>
          /\ Head((jobs \o InHand) \o updates) = Head(jobs)
          /\ Tail((jobs \o InHand) \o updates) = (Tail(jobs) \o InHand) \o updates
      <4>1. updates \in Seq(Updates) /\ jobs \in Seq(Updates) /\ InHand \in Seq(Updates)
        BY <1>1, <1>4
      <4>. QED
        BY <4>1, <2>1, HeadOfLine, SMTT(30)
    <3>2. Waiting' = (Tail(jobs) \o InHand) \o updates
      BY <2>1 DEF Waiting
    <3>. QED
      BY <3>1, <3>2, Zenon DEF Waiting
  <2>. QED
    BY <2>1, <2>2, <2>4, <2>5 DEF Way!Take
<1>14. ASSUME NEW w \in Workers, HandlerReturns(w)
       PROVE  Way!End(w)
  <2>1. /\ worker[w] = "busy" /\ has' = [has EXCEPT ![w] = None] /\ Becomes(has[w], "done")
        /\ UNCHANGED <<updates, jobs, InHand>>
    BY <1>14 DEF HandlerReturns, chanVars, loopVars, jobVars, InHand
  <2>2. has[w] # None /\ has[w] \in Updates /\ fate[has[w]] = "taken"
    BY <1>1, <1>2, <2>1
  <2>3. Arrived' = Arrived
    BY <1>5, <2>1, <2>2
  <2>. QED
    BY <2>1, <2>2, <2>3 DEF Way!End, Waiting
<1>. QED
  BY <1>6, <1>7, <1>8, <1>10, <1>11, <1>12, <1>13, <1>14, StepsOfWay DEF Way!Next

\* The application implements UpdateLine: whatever the loop answers, refuses or
\* drops, the workers take the updates in the order in which they came into the
\* channel, and no more than the two capacities and one update wait
\* (telegram.go:112-123, commands.go:317-326, 285-294, 454-458).
THEOREM TakenInOrder == Spec => WaySpec
<1>1. Init => Way!Init
  <2> SUFFICES ASSUME Init PROVE Way!Init
    OBVIOUS
  <2>1. Arrived = {} /\ InHand = <<>> /\ updates = <<>> /\ jobs = <<>>
    BY DEF Init, DispatchInit, Arrived, InHand
  <2>2. Waiting = <<>>
    BY <2>1, EmptySeq, ConcatEmptySeq DEF Waiting
  <2>. QED
    BY <2>1, <2>2 DEF Init, DispatchInit, Way!Init
<1>2. AppInv /\ [Next]_vars => [Way!Next]_<<Arrived, Waiting, has>>
  BY StepOfWay
<1>. QED
  BY <1>1, <1>2, AppInvariant, PTL DEF Spec, WaySpec, Way!Spec, Way!lineVars

=============================================================================
