------------------------ MODULE SchedulerOnceProofs ------------------------
(***************************************************************************)
(* Proofs about SchedulerOnce: the inductive invariant that ties timers,   *)
(* definitions and versions together, and from it the three invariants of  *)
(* the one-shot schedules.                                                 *)
(***************************************************************************)
EXTENDS SchedulerOnce, FiniteSetTheorems, SequenceTheorems, TLAPS

\* A timer that waits: for its time, or in its callback for s.tmu.
Waiting == {"armed", "fired"}
TimerIds == 1 .. Len(timers)

\* A registration is the definition of one name at most.
JobsApart ==
  /\ IsFiniteSet(Defined)
  /\ \A n \in Names : job[n] <= adds
  /\ \A n, m \in Names : job[n] = job[m] /\ job[n] # 0 => n = m

\* Timers are made for registrations, and with a version.
TimersRegistered ==
  \A t \in TimerIds : timers[t].made <= adds /\ timers[t].took <= adds /\ timers[t].ver # 0

\* The timer of a name waits, for what is defined under the name.
TimerIsCurrent ==
  \A n \in Names : timerOf[n] # 0 =>
    /\ n \in Defined
    /\ timers[timerOf[n]].name = n
    /\ timers[timerOf[n]].ver = ver[n]
    /\ timers[timerOf[n]].made = job[n]
    /\ timers[timerOf[n]].state \in Waiting

\* While the service runs every definition has its timer.
EveryoneHasTimer == cur # 0 /\ stopPC = "idle" => \A n \in Defined : timerOf[n] # 0

\* As long as no version of its name is deleted, a timer that waits is of an
\* earlier version, or for what is defined.
VersionTells ==
  \A t \in TimerIds :
    timers[t].state \in Waiting /\ ~timers[t].forgotten =>
      /\ timers[t].ver <= ver[timers[t].name]
      /\ timers[t].ver = ver[timers[t].name] => timers[t].made = job[timers[t].name]

\* Every start and every restart makes one cron, and a stop is the run's.
LifecycleAgrees ==
  /\ crons + (IF mu = "apply" THEN 1 ELSE 0) = runs + applies
  /\ stopPC # "idle" => cur # 0

\* The inductive invariant.
OnceInv ==
  /\ TypeOK
  /\ LifecycleAgrees
  /\ JobsApart
  /\ TimersRegistered
  /\ TimerIsCurrent
  /\ EveryoneHasTimer
  /\ VersionTells
  /\ TakenAtMostOnce
  /\ StaleOnlyAfterDelete

---------------------------------------------------------------------------
(* The timers after an operation                                           *)

\* A function on 1 .. n is a sequence of length n.
LEMMA FunctionIsSeq ==
  ASSUME NEW S, NEW n \in Nat, NEW f \in [1 .. n -> S]
  PROVE  f \in Seq(S) /\ Len(f) = n
BY SeqDef

\* Timer t is as it was, but for its state.
SameTimer(u, t) ==
  u.name = t.name /\ u.ver = t.ver /\ u.made = t.made /\ u.took = t.took
  /\ u.forgotten = t.forgotten

\* What the invariant says of the types, with the sequence's elements.
LEMMA Types ==
  ASSUME TypeOK
  PROVE  /\ adds \in Nat /\ Len(timers) \in Nat
         /\ \A t \in TimerIds : timers[t] \in Timer
         /\ \A n \in Names : ver[n] \in Nat /\ job[n] \in Nat /\ timerOf[n] \in Nat
         /\ \A n \in Names : timerOf[n] # 0 => timerOf[n] \in TimerIds
BY OnceAssumption, LenProperties, ElementOfSeq DEF TypeOK, TimerIds, Jobs

\* Stopping timers changes the state of those that are armed.
LEMMA StoppedTimers ==
  ASSUME TypeOK, NEW ts
  PROVE  /\ Stopped(ts) \in Seq(Timer) /\ Len(Stopped(ts)) = Len(timers)
         /\ \A t \in TimerIds :
              /\ SameTimer(Stopped(ts)[t], timers[t])
              /\ Stopped(ts)[t].state \in Waiting => timers[t].state \in Waiting
              /\ t \notin ts => Stopped(ts)[t] = timers[t]
<1>1. \A t \in TimerIds : timers[t] \in Timer
  BY Types
<1>2. ASSUME NEW t \in TimerIds
      PROVE  /\ Stopped(ts)[t] \in Timer
             /\ SameTimer(Stopped(ts)[t], timers[t])
             /\ Stopped(ts)[t].state \in Waiting => timers[t].state \in Waiting
             /\ t \notin ts => Stopped(ts)[t] = timers[t]
  BY <1>1, <1>2 DEF Stopped, TimerIds, Timer, TimerStates, SameTimer, Waiting
<1>3. Stopped(ts) \in [1 .. Len(timers) -> Timer]
  BY <1>2 DEF Stopped, TimerIds
<1>4. Stopped(ts) \in Seq(Timer) /\ Len(Stopped(ts)) = Len(timers)
  BY <1>3, FunctionIsSeq, Types
<1>. QED
  BY <1>2, <1>4

---------------------------------------------------------------------------
(* AddOnce and Remove                                                      *)

\* The new timer has the new version, which no older timer of the name has.
LEMMA AddOnceInv ==
  ASSUME OnceInv, NEW n \in Names, AddOnce(n)
  PROVE  OnceInv'
<1> DEFINE N == Len(timers) + 1
           stop == Stopped({timerOf[n]})
           new == NewTimer(n, ver[n] + 1, adds + 1)
<1> USE DEF OnceInv
<1>1. /\ TypeOK /\ adds \in Nat /\ Len(timers) \in Nat /\ N \in Nat
      /\ \A m \in Names : ver[m] \in Nat /\ job[m] \in Nat /\ timerOf[m] \in Nat
      /\ adds < MaxAdds /\ Len(timers) < MaxTimers
  BY Types DEF AddOnce
<1>2. /\ stop \in Seq(Timer) /\ Len(stop) = Len(timers)
      /\ \A t \in TimerIds :
           /\ SameTimer(stop[t], timers[t])
           /\ stop[t].state \in Waiting => timers[t].state \in Waiting
           /\ t # timerOf[n] => stop[t] = timers[t]
  BY <1>1, StoppedTimers
<1>3. /\ adds' = adds + 1 /\ UNCHANGED lifecycleVars
      /\ \A m \in Names : /\ job'[m] = IF m = n THEN adds + 1 ELSE job[m]
                          /\ ver'[m] = IF m = n THEN ver[n] + 1 ELSE ver[m]
                          /\ timerOf'[m] = IF m = n THEN N ELSE timerOf[m]
  BY DEF AddOnce, TypeOK
<1>4. adds + 1 \in Jobs /\ new \in Timer
  BY <1>1, OnceAssumption DEF Jobs, NewTimer, Timer, TimerStates
<1>5. timers' = Append(stop, new)
  BY <1>1 DEF AddOnce, TypeOK
<1> HIDE DEF stop
<1>6. /\ timers' \in Seq(Timer) /\ Len(timers') = N /\ timers'[N] = new
      /\ \A t \in TimerIds : timers'[t] = stop[t]
  BY <1>1, <1>2, <1>4, <1>5, AppendProperties DEF TimerIds
<1>7. /\ timers'[N].name = n /\ timers'[N].ver = ver[n] + 1 /\ timers'[N].made = adds + 1
      /\ timers'[N].state = "armed" /\ timers'[N].took = 0 /\ timers'[N].forgotten = FALSE
  BY <1>6 DEF NewTimer
<1>8. \A t \in TimerIds :
        /\ SameTimer(timers'[t], timers[t])
        /\ timers'[t].state \in Waiting => timers[t].state \in Waiting
        /\ t # timerOf[n] => timers'[t] = timers[t]
  BY <1>2, <1>6
<1>9. \A t \in TimerIds' : t \in TimerIds \/ t = N
  BY <1>1, <1>6 DEF TimerIds
<1> HIDE DEF N, new
<1>10. TypeOK'
  <2>1. /\ job' = [job EXCEPT ![n] = adds + 1] /\ ver' = [ver EXCEPT ![n] = @ + 1]
        /\ timerOf' = [timerOf EXCEPT ![n] = Len(timers) + 1]
    BY DEF AddOnce
  <2>2. LifecycleTypeOK'
    BY <1>3 DEF TypeOK, LifecycleTypeOK, lifecycleVars
  <2>3. adds' \in 0 .. MaxAdds /\ Len(timers') <= MaxTimers
    BY <1>1, <1>3, <1>6, OnceAssumption DEF N
  <2>4. job' \in [Names -> Jobs \cup {0}] /\ ver' \in [Names -> Nat]
    BY <1>1, <1>4, <2>1 DEF TypeOK
  <2>5. timerOf' \in [Names -> 0 .. Len(timers')]
    BY <1>1, <1>6, <2>1 DEF TypeOK, N
  <2>6. \A m \in Names : ver'[m] = 0 <=> job'[m] = 0
    <3>1. \A m \in Names : ver[m] = 0 <=> job[m] = 0
      BY DEF TypeOK
    <3>. QED
      BY <3>1, <1>1, <1>3
  <2>. QED
    BY <1>6, <2>2, <2>3, <2>4, <2>5, <2>6 DEF TypeOK
<1>11. JobsApart'
  <2>1. Defined' = Defined \cup {n}
    BY <1>1, <1>3 DEF Defined
  <2>2. IsFiniteSet(Defined')
    BY <2>1, FS_AddElement DEF JobsApart
  <2>. QED
    BY <1>1, <1>3, <2>2 DEF JobsApart
<1>12. TimersRegistered'
  <2>1. \A t \in TimerIds : timers[t].made \in Nat /\ timers[t].took \in Nat
    BY Types DEF Timer, Jobs
  <2>2. ASSUME NEW t \in TimerIds
        PROVE  timers'[t].made <= adds' /\ timers'[t].took <= adds' /\ timers'[t].ver # 0
    <3>1. /\ timers'[t].made = timers[t].made /\ timers'[t].took = timers[t].took
          /\ timers'[t].ver = timers[t].ver
      BY <1>8 DEF SameTimer
    <3>2. timers[t].made <= adds /\ timers[t].took <= adds /\ timers[t].ver # 0
      BY DEF TimersRegistered
    <3>. QED
      BY <3>1, <3>2, <2>1, <1>1, <1>3
  <2>3. timers'[N].made <= adds' /\ timers'[N].took <= adds' /\ timers'[N].ver # 0
    BY <1>1, <1>3, <1>7
  <2>. QED
    BY <1>9, <2>2, <2>3 DEF TimersRegistered
<1>13. TimerIsCurrent'
  <2> SUFFICES ASSUME NEW m \in Names, timerOf'[m] # 0
               PROVE  /\ job'[m] # 0
                      /\ timers'[timerOf'[m]].name = m
                      /\ timers'[timerOf'[m]].ver = ver'[m]
                      /\ timers'[timerOf'[m]].made = job'[m]
                      /\ timers'[timerOf'[m]].state \in Waiting
    BY DEF TimerIsCurrent, Defined
  <2>1. CASE m = n
    BY <1>1, <1>3, <1>7, <2>1 DEF Waiting
  <2>2. CASE m # n
    <3>1. timerOf'[m] = timerOf[m] /\ timerOf[m] \in TimerIds
      BY <1>3, <2>2, Types
    <3>2. timerOf[m] # timerOf[n]
      BY <2>2, <3>1 DEF TimerIsCurrent
    <3>. QED
      BY <1>3, <1>8, <2>2, <3>1, <3>2 DEF TimerIsCurrent, Defined
  <2>. QED
    BY <2>1, <2>2
<1>14. EveryoneHasTimer'
  BY <1>1, <1>3 DEF EveryoneHasTimer, Defined, lifecycleVars, N
<1>15. VersionTells'
  <2> SUFFICES ASSUME NEW t \in TimerIds', timers'[t].state \in Waiting, ~timers'[t].forgotten
               PROVE  /\ timers'[t].ver <= ver'[timers'[t].name]
                      /\ timers'[t].ver = ver'[timers'[t].name] => timers'[t].made = job'[timers'[t].name]
    BY DEF VersionTells
  <2>1. CASE t = N
    BY <1>1, <1>3, <1>7, <2>1
  <2>2. CASE t \in TimerIds
    <3>1. /\ timers[t].ver <= ver[timers[t].name]
          /\ timers[t].ver = ver[timers[t].name] => timers[t].made = job[timers[t].name]
      BY <1>8, <2>2 DEF VersionTells, SameTimer
    <3>2. timers[t].name \in Names /\ timers[t].ver \in Nat
      BY <2>2, Types DEF Timer
    <3>3. timers'[t].name = timers[t].name /\ timers'[t].ver = timers[t].ver
          /\ timers'[t].made = timers[t].made
      BY <1>8, <2>2 DEF SameTimer
    <3>4. CASE timers[t].name = n
      BY <1>1, <1>3, <3>1, <3>2, <3>3, <3>4
    <3>5. CASE timers[t].name # n
      BY <1>3, <3>1, <3>2, <3>3, <3>5
    <3>. QED
      BY <3>4, <3>5
  <2>. QED
    BY <1>9, <2>1, <2>2
<1>16. TakenAtMostOnce'
  <2>1. \A t \in TimerIds : timers'[t].took = timers[t].took /\ timers[t].took <= adds
    BY <1>8 DEF SameTimer, TimersRegistered
  <2>2. \A t \in TimerIds : timers[t].took \in Nat
    BY Types DEF Timer, Jobs
  <2> SUFFICES ASSUME NEW t \in TimerIds', timers'[t].took # 0
               PROVE  /\ \A u \in TimerIds' : timers'[u].took = timers'[t].took => u = t
                      /\ \A m \in Names : job'[m] # timers'[t].took
    BY DEF TakenAtMostOnce, TimerIds
  <2>3. t \in TimerIds
    BY <1>7, <1>9
  <2>4. \A u \in TimerIds' : timers'[u].took = timers'[t].took => u = t
    BY <1>7, <1>9, <2>1, <2>3 DEF TakenAtMostOnce, TimerIds
  <2>5. \A m \in Names : job'[m] # timers'[t].took
    BY <1>1, <1>3, <2>1, <2>2, <2>3 DEF TakenAtMostOnce, TimerIds
  <2>. QED
    BY <2>4, <2>5
<1>17. StaleOnlyAfterDelete'
  BY <1>7, <1>8, <1>9 DEF StaleOnlyAfterDelete, SameTimer, TimerIds
<1>18. LifecycleAgrees'
  BY <1>3 DEF LifecycleAgrees, lifecycleVars
<1>. QED
  BY <1>10, <1>11, <1>12, <1>13, <1>14, <1>15, <1>16, <1>17, <1>18

\* An operation that makes no timer and starts none, and deletes a definition
\* only together with the version its waiting timers were made for.
LEMMA NothingNew ==
  ASSUME OnceInv, TypeOK', Len(timers') = Len(timers), adds' = adds,
         \A t \in TimerIds :
           /\ timers'[t].name = timers[t].name /\ timers'[t].ver = timers[t].ver
           /\ timers'[t].made = timers[t].made
           /\ timers'[t].state \in Waiting => timers[t].state \in Waiting
           /\ timers[t].forgotten => timers'[t].forgotten,
         \A n \in Names :
           \/ job'[n] = job[n] /\ ver'[n] = ver[n]
           \/ /\ job'[n] = 0
              /\ \A t \in TimerIds : timers[t].name = n =>
                   timers'[t].forgotten \/ timers'[t].state \notin Waiting
  PROVE  JobsApart' /\ VersionTells'
<1>1. JobsApart'
  <2>1. Defined' \subseteq Defined
    BY DEF Defined
  <2>2. IsFiniteSet(Defined')
    BY <2>1, FS_Subset DEF OnceInv, JobsApart
  <2>3. \A n \in Names : job'[n] # 0 => job'[n] = job[n]
    OBVIOUS
  <2>4. adds \in Nat
    BY Types DEF OnceInv
  <2>5. \A n \in Names : job'[n] <= adds'
    BY <2>3, <2>4 DEF OnceInv, JobsApart
  <2>6. \A n, m \in Names : job'[n] = job'[m] /\ job'[n] # 0 => n = m
    BY <2>3 DEF OnceInv, JobsApart
  <2>. QED
    BY <2>2, <2>5, <2>6 DEF JobsApart
<1>2. VersionTells'
  <2> SUFFICES ASSUME NEW t \in TimerIds, timers'[t].state \in Waiting, ~timers'[t].forgotten
               PROVE  /\ timers'[t].ver <= ver'[timers'[t].name]
                      /\ timers'[t].ver = ver'[timers'[t].name] => timers'[t].made = job'[timers'[t].name]
    BY DEF VersionTells, TimerIds
  <2>1. timers[t].name \in Names
    BY Types DEF OnceInv, Timer
  <2>2. job'[timers[t].name] = job[timers[t].name] /\ ver'[timers[t].name] = ver[timers[t].name]
    BY <2>1
  <2>3. /\ timers[t].ver <= ver[timers[t].name]
        /\ timers[t].ver = ver[timers[t].name] => timers[t].made = job[timers[t].name]
    BY DEF OnceInv, VersionTells
  <2>. QED
    BY <2>2, <2>3
<1>. QED
  BY <1>1, <1>2

\* If, besides, no callback takes a job.
LEMMA NothingTaken ==
  ASSUME OnceInv, Len(timers') = Len(timers), adds' = adds,
         \A t \in TimerIds :
           /\ timers'[t].made = timers[t].made /\ timers'[t].ver = timers[t].ver
           /\ timers'[t].took = timers[t].took
           /\ timers[t].forgotten => timers'[t].forgotten,
         \A n \in Names : job'[n] \in {job[n], 0}
  PROVE  TimersRegistered' /\ TakenAtMostOnce' /\ StaleOnlyAfterDelete'
<1>1. TimersRegistered'
  BY DEF OnceInv, TimersRegistered, TimerIds
<1>2. TakenAtMostOnce'
  BY DEF OnceInv, TakenAtMostOnce, TimerIds
<1>3. StaleOnlyAfterDelete'
  BY DEF OnceInv, StaleOnlyAfterDelete, TimerIds
<1>. QED
  BY <1>1, <1>2, <1>3

\* What Forget does to a sequence of timers.
LEMMA Forgotten ==
  ASSUME NEW tms \in Seq(Timer), NEW n
  PROVE  /\ Forget(tms, n) \in Seq(Timer) /\ Len(Forget(tms, n)) = Len(tms)
         /\ \A t \in 1 .. Len(tms) :
              /\ Forget(tms, n)[t].name = tms[t].name /\ Forget(tms, n)[t].ver = tms[t].ver
              /\ Forget(tms, n)[t].made = tms[t].made /\ Forget(tms, n)[t].took = tms[t].took
              /\ Forget(tms, n)[t].state = tms[t].state
              /\ tms[t].forgotten => Forget(tms, n)[t].forgotten
              /\ tms[t].name = n => Forget(tms, n)[t].forgotten
              /\ tms[t].name # n => Forget(tms, n)[t] = tms[t]
<1>1. DOMAIN tms = 1 .. Len(tms) /\ Len(tms) \in Nat /\ \A t \in 1 .. Len(tms) : tms[t] \in Timer
  BY LenProperties, ElementOfSeq
<1>2. ASSUME NEW t \in 1 .. Len(tms)
      PROVE  /\ Forget(tms, n)[t] \in Timer
             /\ Forget(tms, n)[t].name = tms[t].name /\ Forget(tms, n)[t].ver = tms[t].ver
             /\ Forget(tms, n)[t].made = tms[t].made /\ Forget(tms, n)[t].took = tms[t].took
             /\ Forget(tms, n)[t].state = tms[t].state
             /\ tms[t].forgotten => Forget(tms, n)[t].forgotten
             /\ tms[t].name = n => Forget(tms, n)[t].forgotten
             /\ tms[t].name # n => Forget(tms, n)[t] = tms[t]
  BY <1>1, <1>2 DEF Forget, Timer
<1>3. Forget(tms, n) \in [1 .. Len(tms) -> Timer]
  BY <1>1, <1>2 DEF Forget
<1>. QED
  BY <1>1, <1>2, <1>3, FunctionIsSeq

\* A removal deletes a version, and all timers of the name have seen it.
LEMMA DeleteInv ==
  ASSUME OnceInv, NEW n \in Names, Delete(n)
  PROVE  OnceInv'
<1> DEFINE stop == Stopped({timerOf[n]})
<1>1. /\ TypeOK
      /\ \A m \in Names : timerOf[m] # 0 => timerOf[m] \in TimerIds
      /\ Len(timers) \in Nat
  BY Types DEF OnceInv
<1>2. /\ stop \in Seq(Timer) /\ Len(stop) = Len(timers)
      /\ \A t \in TimerIds :
           /\ SameTimer(stop[t], timers[t])
           /\ stop[t].state \in Waiting => timers[t].state \in Waiting
           /\ t # timerOf[n] => stop[t] = timers[t]
  BY <1>1, StoppedTimers
<1>3. timers' = Forget(stop, n)
  BY DEF Delete
<1> HIDE DEF stop
<1>4. /\ adds' = adds /\ UNCHANGED lifecycleVars
      /\ \A m \in Names : /\ job'[m] = IF m = n THEN 0 ELSE job[m]
                          /\ ver'[m] = IF m = n THEN 0 ELSE ver[m]
                          /\ timerOf'[m] = IF m = n THEN 0 ELSE timerOf[m]
  BY <1>1 DEF Delete, TypeOK
<1>5. timers' \in Seq(Timer) /\ Len(timers') = Len(timers)
  BY <1>2, <1>3, Forgotten
<1>6. \A t \in TimerIds :
        /\ timers'[t].name = timers[t].name /\ timers'[t].ver = timers[t].ver
        /\ timers'[t].made = timers[t].made /\ timers'[t].took = timers[t].took
        /\ timers'[t].state \in Waiting => timers[t].state \in Waiting
        /\ timers[t].forgotten => timers'[t].forgotten
        /\ timers[t].name = n => timers'[t].forgotten
  <2>1. \A t \in TimerIds : t \in 1 .. Len(stop)
    BY <1>2 DEF TimerIds
  <2>. QED
    BY <1>2, <1>3, <2>1, Forgotten DEF SameTimer
<1>7. \A t \in TimerIds : t # timerOf[n] /\ timers[t].name # n => timers'[t] = timers[t]
  <2>1. \A t \in TimerIds : t \in 1 .. Len(stop)
    BY <1>2 DEF TimerIds
  <2>. QED
    BY <1>2, <1>3, <2>1, Forgotten DEF SameTimer
<1>8. TypeOK'
  <2>1. /\ job' = [job EXCEPT ![n] = 0] /\ ver' = [ver EXCEPT ![n] = 0]
        /\ timerOf' = [timerOf EXCEPT ![n] = 0]
    BY DEF Delete
  <2>2. LifecycleTypeOK'
    BY <1>1, <1>4 DEF TypeOK, LifecycleTypeOK, lifecycleVars
  <2>3. job' \in [Names -> Jobs \cup {0}] /\ ver' \in [Names -> Nat] /\ timerOf' \in [Names -> 0 .. Len(timers')]
    BY <1>1, <1>5, <2>1 DEF TypeOK
  <2>4. \A m \in Names : ver'[m] = 0 <=> job'[m] = 0
    BY <1>1, <1>4 DEF TypeOK
  <2>. QED
    BY <1>1, <1>4, <1>5, <2>2, <2>3, <2>4 DEF TypeOK
<1>9. JobsApart' /\ VersionTells'
  BY <1>4, <1>5, <1>6, <1>8, NothingNew
<1>10. TimersRegistered' /\ TakenAtMostOnce' /\ StaleOnlyAfterDelete'
  BY <1>4, <1>5, <1>6, NothingTaken
<1>11. TimerIsCurrent'
  <2> SUFFICES ASSUME NEW m \in Names, timerOf'[m] # 0
               PROVE  /\ job'[m] # 0
                      /\ timers'[timerOf'[m]].name = m
                      /\ timers'[timerOf'[m]].ver = ver'[m]
                      /\ timers'[timerOf'[m]].made = job'[m]
                      /\ timers'[timerOf'[m]].state \in Waiting
    BY DEF TimerIsCurrent, Defined
  <2>1. m # n /\ timerOf'[m] = timerOf[m] /\ timerOf[m] \in TimerIds
    BY <1>1, <1>4
  <2>2. timerOf[m] # timerOf[n] /\ timers[timerOf[m]].name # n
    BY <2>1 DEF OnceInv, TimerIsCurrent
  <2>. QED
    BY <1>4, <1>7, <2>1, <2>2 DEF OnceInv, TimerIsCurrent, Defined
<1>12. EveryoneHasTimer'
  BY <1>4 DEF OnceInv, EveryoneHasTimer, Defined, lifecycleVars
<1>13. LifecycleAgrees'
  BY <1>4 DEF OnceInv, LifecycleAgrees, lifecycleVars
<1>. QED
  BY <1>8, <1>9, <1>10, <1>11, <1>12, <1>13 DEF OnceInv

---------------------------------------------------------------------------
(* A timer and its callback                                                *)

\* A timer that moves on, from waiting for good unless it is no name's.
LEMMA TimerMovesInv ==
  ASSUME OnceInv, NEW t \in TimerIds, NEW s \in TimerStates,
         timers' = [timers EXCEPT ![t].state = s],
         UNCHANGED <<lifecycleVars, adds, job, ver, timerOf>>,
         s \in Waiting => timers[t].state \in Waiting,
         \A n \in Names : timerOf[n] = t => s \in Waiting
  PROVE  OnceInv'
<1>1. /\ TypeOK /\ Len(timers) \in Nat
      /\ \A u \in TimerIds : timers[u] \in Timer
      /\ \A m \in Names : timerOf[m] # 0 => timerOf[m] \in TimerIds
  BY Types DEF OnceInv
<1>2. [timers[t] EXCEPT !.state = s] \in Timer
  BY <1>1 DEF Timer
<1>3. /\ timers' \in Seq(Timer) /\ Len(timers') = Len(timers)
      /\ \A u \in TimerIds : timers'[u] = IF u = t THEN [timers[t] EXCEPT !.state = s] ELSE timers[u]
  <2>1. timers \in Seq(Timer) /\ t \in 1 .. Len(timers)
    BY <1>1 DEF TypeOK, TimerIds
  <2>. QED
    BY <1>2, <2>1, ExceptSeq DEF TimerIds
<1>4. \A u \in TimerIds :
        /\ timers'[u].name = timers[u].name /\ timers'[u].ver = timers[u].ver
        /\ timers'[u].made = timers[u].made /\ timers'[u].took = timers[u].took
        /\ timers'[u].forgotten = timers[u].forgotten
        /\ timers'[u].state = IF u = t THEN s ELSE timers[u].state
  BY <1>1, <1>3 DEF Timer
<1>5. TypeOK'
  BY <1>1, <1>3 DEF TypeOK, LifecycleTypeOK, lifecycleVars
<1>6. JobsApart' /\ VersionTells'
  BY <1>3, <1>4, <1>5, NothingNew
<1>7. TimersRegistered' /\ TakenAtMostOnce' /\ StaleOnlyAfterDelete'
  BY <1>3, <1>4, NothingTaken
<1>8. TimerIsCurrent'
  BY <1>1, <1>4 DEF OnceInv, TimerIsCurrent, Defined
<1>9. EveryoneHasTimer'
  BY DEF OnceInv, EveryoneHasTimer, Defined, lifecycleVars
<1>10. LifecycleAgrees'
  BY DEF OnceInv, LifecycleAgrees, lifecycleVars
<1>. QED
  BY <1>5, <1>6, <1>7, <1>8, <1>9, <1>10 DEF OnceInv

\* The callback takes what is defined, and defines it no more.
LEMMA ClaimInv ==
  ASSUME OnceInv, NEW t \in TimerIds, Claim(t)
  PROVE  OnceInv'
<1> DEFINE n == timers[t].name
           forget == Forget(timers, n)
           claimed == [timers[t] EXCEPT !.state = "claimed", !.took = job[n]]
<1>1. /\ TypeOK /\ Len(timers) \in Nat
      /\ \A u \in TimerIds : timers[u] \in Timer
      /\ \A m \in Names : timerOf[m] # 0 => timerOf[m] \in TimerIds
  BY Types DEF OnceInv
<1>2. /\ timers[t].state = "fired" /\ timers[t].ver = ver[n]
      /\ timers' = [forget EXCEPT ![t] = claimed]
      /\ job' = [job EXCEPT ![n] = 0] /\ ver' = [ver EXCEPT ![n] = 0]
      /\ timerOf' = [timerOf EXCEPT ![n] = 0]
      /\ UNCHANGED <<lifecycleVars, adds>>
  BY DEF Claim
<1>3. /\ n \in Names /\ job[n] \in Jobs \cup {0} /\ ver[n] # 0 /\ job[n] # 0
  BY <1>1, <1>2 DEF Timer, TypeOK, OnceInv, TimersRegistered
<1>4. claimed \in Timer
  BY <1>1, <1>3 DEF Timer, TimerStates
<1>5. forget \in Seq(Timer) /\ Len(forget) = Len(timers) /\ t \in 1 .. Len(forget)
  BY <1>1, Forgotten DEF TypeOK, TimerIds
<1>6. /\ timers' \in Seq(Timer) /\ Len(timers') = Len(timers)
      /\ \A u \in TimerIds : timers'[u] = IF u = t THEN claimed ELSE forget[u]
  <2> HIDE DEF claimed, forget
  <2>. QED
    BY <1>2, <1>4, <1>5, ExceptSeq DEF TimerIds
<1>7. \A u \in TimerIds : u # t =>
        /\ timers'[u].name = timers[u].name /\ timers'[u].ver = timers[u].ver
        /\ timers'[u].made = timers[u].made /\ timers'[u].took = timers[u].took
        /\ timers'[u].state = timers[u].state
        /\ timers[u].forgotten => timers'[u].forgotten
        /\ timers[u].name = n => timers'[u].forgotten
        /\ timers[u].name # n => timers'[u] = timers[u]
  <2>1. timers \in Seq(Timer)
    BY <1>1 DEF TypeOK
  <2> HIDE DEF n
  <2>. QED
    BY <1>6, <2>1, Forgotten DEF TimerIds
<1>8. /\ timers'[t].name = timers[t].name /\ timers'[t].ver = timers[t].ver
      /\ timers'[t].made = timers[t].made /\ timers'[t].took = job[n]
      /\ timers'[t].state = "claimed"
      /\ timers'[t].forgotten = timers[t].forgotten
  BY <1>1, <1>6 DEF Timer
<1> HIDE DEF n, forget, claimed
<1>9. \A m \in Names : /\ job'[m] = IF m = n THEN 0 ELSE job[m]
                       /\ ver'[m] = IF m = n THEN 0 ELSE ver[m]
                       /\ timerOf'[m] = IF m = n THEN 0 ELSE timerOf[m]
  BY <1>1, <1>2 DEF TypeOK
<1>10. TypeOK'
  <2>1. LifecycleTypeOK'
    BY <1>1, <1>2 DEF TypeOK, LifecycleTypeOK, lifecycleVars
  <2>2. /\ job' \in [Names -> Jobs \cup {0}] /\ ver' \in [Names -> Nat]
        /\ timerOf' \in [Names -> 0 .. Len(timers')]
    <3>1. job' \in [Names -> Jobs \cup {0}] /\ ver' \in [Names -> Nat]
      BY <1>1, <1>2 DEF TypeOK
    <3>2. timerOf \in [Names -> 0 .. Len(timers)] /\ 0 \in 0 .. Len(timers)
      BY <1>1 DEF TypeOK
    <3>3. timerOf' \in [Names -> 0 .. Len(timers)]
      BY <1>2, <3>2
    <3>. QED
      BY <1>6, <3>1, <3>3
  <2>3. \A m \in Names : ver'[m] = 0 <=> job'[m] = 0
    BY <1>1, <1>9 DEF TypeOK
  <2>. QED
    BY <1>1, <1>2, <1>6, <2>1, <2>2, <2>3 DEF TypeOK
<1>11. JobsApart' /\ VersionTells'
  <2>1. ASSUME NEW u \in TimerIds
        PROVE  /\ timers'[u].name = timers[u].name /\ timers'[u].ver = timers[u].ver
               /\ timers'[u].made = timers[u].made
               /\ timers'[u].state \in Waiting => timers[u].state \in Waiting
               /\ timers[u].forgotten => timers'[u].forgotten
               /\ timers[u].name = n => timers'[u].forgotten \/ timers'[u].state \notin Waiting
    BY <1>7, <1>8 DEF Waiting
  <2>. QED
    BY <1>2, <1>6, <1>9, <1>10, <2>1, NothingNew
<1>12. TimersRegistered'
  <2>1. job[n] <= adds
    BY <1>3 DEF OnceInv, JobsApart
  <2>. QED
    BY <1>2, <1>6, <1>7, <1>8, <2>1 DEF OnceInv, TimersRegistered, TimerIds
<1>13. TakenAtMostOnce'
  <2> SUFFICES ASSUME NEW u \in TimerIds, timers'[u].took # 0
               PROVE  /\ \A v \in TimerIds : timers'[v].took = timers'[u].took => v = u
                      /\ \A m \in Names : job'[m] # timers'[u].took
    BY <1>6 DEF TakenAtMostOnce, TimerIds
  <2>1. \A v \in TimerIds : timers[v].took # job[n]
    BY <1>3 DEF OnceInv, TakenAtMostOnce, TimerIds
  <2>2. CASE u = t
    <3>1. \A v \in TimerIds : timers'[v].took = timers'[u].took => v = u
      BY <1>7, <1>8, <2>1, <2>2
    <3>2. \A m \in Names : job'[m] # timers'[u].took
      BY <1>3, <1>8, <1>9, <2>2 DEF OnceInv, JobsApart
    <3>. QED
      BY <3>1, <3>2
  <2>3. CASE u # t
    <3>1. timers'[u].took = timers[u].took /\ timers[u].took # 0
      BY <1>7, <2>3
    <3>2. \A v \in TimerIds : timers'[v].took = timers'[u].took => v = u
      BY <1>7, <1>8, <2>1, <3>1 DEF OnceInv, TakenAtMostOnce, TimerIds
    <3>3. \A m \in Names : job'[m] # timers'[u].took
      BY <1>9, <3>1 DEF OnceInv, TakenAtMostOnce, TimerIds
    <3>. QED
      BY <3>2, <3>3
  <2>. QED
    BY <2>2, <2>3
<1>14. StaleOnlyAfterDelete'
  <2>1. job[n] # timers[t].made => timers[t].forgotten
    BY <1>2, <1>3 DEF OnceInv, VersionTells, Waiting, n
  <2>. QED
    BY <1>6, <1>7, <1>8, <2>1 DEF OnceInv, StaleOnlyAfterDelete, TimerIds
<1>15. TimerIsCurrent'
  <2> SUFFICES ASSUME NEW m \in Names, timerOf'[m] # 0
               PROVE  /\ job'[m] # 0
                      /\ timers'[timerOf'[m]].name = m
                      /\ timers'[timerOf'[m]].ver = ver'[m]
                      /\ timers'[timerOf'[m]].made = job'[m]
                      /\ timers'[timerOf'[m]].state \in Waiting
    BY DEF TimerIsCurrent, Defined
  <2>1. m # n /\ timerOf'[m] = timerOf[m] /\ timerOf[m] \in TimerIds
    BY <1>1, <1>9
  <2>2. timers[timerOf[m]].name = m /\ timerOf[m] # t
    BY <2>1 DEF OnceInv, TimerIsCurrent, n
  <2>. QED
    BY <1>7, <1>9, <2>1, <2>2 DEF OnceInv, TimerIsCurrent, Defined
<1>16. EveryoneHasTimer'
  BY <1>2, <1>9 DEF OnceInv, EveryoneHasTimer, Defined, lifecycleVars
<1>17. LifecycleAgrees'
  BY <1>2 DEF OnceInv, LifecycleAgrees, lifecycleVars
<1>. QED
  BY <1>10, <1>11, <1>12, <1>13, <1>14, <1>15, <1>16, <1>17 DEF OnceInv

---------------------------------------------------------------------------
(* Start and Stop                                                          *)

\* Stop stops the timers and keeps the definitions.
LEMMA StopAllTimersInv ==
  ASSUME OnceInv, StopAllTimers
  PROVE  OnceInv'
<1>1. TypeOK /\ Len(timers) \in Nat
  BY Types DEF OnceInv
<1>2. /\ UNCHANGED <<adds, job, ver>> /\ timerOf' = [n \in Names |-> 0]
      /\ timers' = Stopped({timerOf[n] : n \in Names})
      /\ stopPC' = "wait"
  BY DEF StopAllTimers, StopTimers
<1>3. /\ timers' \in Seq(Timer) /\ Len(timers') = Len(timers)
      /\ \A t \in TimerIds :
           /\ SameTimer(timers'[t], timers[t])
           /\ timers'[t].state \in Waiting => timers[t].state \in Waiting
  BY <1>1, <1>2, StoppedTimers
<1>4. TypeOK'
  <2>1. LifecycleTypeOK'
    BY <1>1 DEF StopAllTimers, StopTimers, TypeOK, LifecycleTypeOK, StopPC
  <2>. QED
    BY <1>1, <1>2, <1>3, <2>1 DEF TypeOK
<1>5. JobsApart' /\ VersionTells'
  BY <1>2, <1>3, <1>4, NothingNew DEF SameTimer
<1>6. TimersRegistered' /\ TakenAtMostOnce' /\ StaleOnlyAfterDelete'
  BY <1>2, <1>3, NothingTaken DEF SameTimer
<1>7. TimerIsCurrent' /\ EveryoneHasTimer'
  BY <1>2 DEF TimerIsCurrent, EveryoneHasTimer
<1>8. LifecycleAgrees'
  BY DEF StopAllTimers, StopTimers, OnceInv, LifecycleAgrees
<1>. QED
  BY <1>4, <1>5, <1>6, <1>7, <1>8 DEF OnceInv

\* The counters agree, so a cron's number stays within the bound.
LEMMA LifecycleKeepsTypes ==
  ASSUME LifecycleTypeOK, LifecycleAgrees, Lifecycle
  PROVE  LifecycleTypeOK' /\ LifecycleAgrees'
<1> USE LifecycleAssumption
<1> USE DEF LifecycleTypeOK, LifecycleAgrees, Runs, Crons, StopPC
<1>1. CASE StopBegin \/ StopClose \/ StopCancel \/ StopHalt \/ StopDrain({}) \/ Finalize(FALSE)
  <2>1. CASE StopBegin
    BY <2>1 DEF StopBegin
  <2>2. CASE StopClose
    BY <2>2 DEF StopClose
  <2>3. CASE StopCancel
    BY <2>3 DEF StopCancel
  <2>4. CASE StopHalt \/ StopDrain({}) \/ Finalize(FALSE)
    BY <2>4 DEF StopHalt, StopDrain, Finalize
  <2>. QED
    BY <1>1, <2>1, <2>2, <2>3, <2>4
<1>2. CASE ApplyRestart
  <2>1. CASE c # 0
    <3>1. /\ crons = runs + applies /\ crons' = crons /\ applies' = applies + 1
          /\ c' = c /\ ticking' = ticking \ {c} /\ mu' = "apply"
          /\ UNCHANGED <<runs, cur, queue, closed, cancelled, appDone, stopPC, stopCron>>
      BY <1>2, <2>1 DEF ApplyRestart
    <3>2. LifecycleAgrees'
      BY <3>1
    <3>. QED
      BY <1>2, <3>1, <3>2 DEF ApplyRestart
  <2>2. CASE c = 0
    <3>1. /\ crons = runs + applies /\ crons' = crons + 1 /\ applies' = applies + 1
          /\ c' = crons + 1 /\ ticking' = ticking \cup {crons + 1}
          /\ mu' = "free" /\ mu = "free"
      BY <1>2, <2>2 DEF ApplyRestart, NewCron
    <3>2. crons + 1 \in Crons
      BY <1>2, <3>1 DEF ApplyRestart
    <3>. QED
      BY <1>2, <3>1, <3>2 DEF ApplyRestart
  <2>. QED
    BY <2>1, <2>2
<1>3. CASE ApplyResume({})
  BY <1>3 DEF ApplyResume, NewCron
<1>. QED
  BY <1>1, <1>2, <1>3 DEF Lifecycle

\* So does the cron of a start.
LEMMA StartKeepsLifecycle ==
  ASSUME LifecycleTypeOK, LifecycleAgrees, StartRun
  PROVE  LifecycleTypeOK' /\ LifecycleAgrees'
BY LifecycleAssumption
   DEF LifecycleTypeOK, LifecycleAgrees, Runs, Crons, StopPC, StartRun, NewCron

\* What rebuildOnceTimersLocked makes: the old timers, stopped as far as Stop can,
\* and after them one new timer for each definition.
LEMMA Rebuilt ==
  ASSUME OnceInv, Rebuild
  PROVE  /\ Len(timers) <= Len(timers') /\ Len(timers') <= MaxTimers
         /\ timers' \in Seq(Timer)
         /\ timerOf' \in [Names -> 0 .. Len(timers')]
         /\ \A t \in TimerIds :
              /\ SameTimer(timers'[t], timers[t])
              /\ timers'[t].state \in Waiting => timers[t].state \in Waiting
         /\ \A t \in TimerIds' : t \in TimerIds \/
              \E n \in Defined : timerOf'[n] = t /\ timers'[t] = NewTimer(n, ver[n], job[n])
         /\ \A n \in Defined : timerOf'[n] \in TimerIds' /\ timerOf'[n] # 0
              /\ timers'[timerOf'[n]] = NewTimer(n, ver[n], job[n])
         /\ \A n \in Names \ Defined : timerOf'[n] = 0
<1> DEFINE size == Cardinality(Defined)
           stop == Stopped({timerOf[n] : n \in Names})
<1>1. /\ TypeOK /\ Len(timers) \in Nat
      /\ \A n \in Names : ver[n] \in Nat /\ job[n] \in Nat
  BY Types DEF OnceInv
<1>2. size \in Nat
  BY FS_CardinalityType DEF OnceInv, JobsApart
<1>3. PICK order \in Bijection(Defined, 1 .. size) :
        /\ Len(timers) + size <= MaxTimers
        /\ timers' = stop \o [i \in 1 .. size |->
             LET n == CHOOSE m \in Defined : order[m] = i IN NewTimer(n, ver[n], job[n])]
        /\ timerOf' = [n \in Names |-> IF n \in Defined THEN Len(timers) + order[n] ELSE 0]
  BY DEF Rebuild
<1> DEFINE at(i) == CHOOSE m \in Defined : order[m] = i
           made == [i \in 1 .. size |-> NewTimer(at(i), ver[at(i)], job[at(i)])]
<1>4. /\ order \in [Defined -> 1 .. size]
      /\ \A n, m \in Defined : order[n] = order[m] => n = m
      /\ \A i \in 1 .. size : \E n \in Defined : order[n] = i
  BY DEF Bijection, Injection, Surjection, IsInjective
<1>5. \A i \in 1 .. size : at(i) \in Defined /\ order[at(i)] = i
  BY <1>4
<1>6. \A n \in Defined : order[n] \in 1 .. size /\ at(order[n]) = n
  BY <1>4, <1>5
<1> HIDE DEF at
<1>7. /\ stop \in Seq(Timer) /\ Len(stop) = Len(timers)
      /\ \A t \in TimerIds :
           /\ SameTimer(stop[t], timers[t])
           /\ stop[t].state \in Waiting => timers[t].state \in Waiting
  BY <1>1, StoppedTimers
<1>8. made \in Seq(Timer) /\ Len(made) = size
  <2>1. \A n \in Defined : NewTimer(n, ver[n], job[n]) \in Timer
    BY <1>1 DEF TypeOK, Defined, NewTimer, Timer, TimerStates
  <2>2. made \in [1 .. size -> Timer]
    BY <1>5, <2>1
  <2>. QED
    BY <1>2, <2>2, FunctionIsSeq
<1>9. timers' = stop \o made
  BY <1>3 DEF at
<1>10. \A i \in 1 .. size : made[i] = NewTimer(at(i), ver[at(i)], job[at(i)])
  OBVIOUS
<1> HIDE DEF stop, made, size
<1>11. /\ timers' \in Seq(Timer) /\ Len(timers') = Len(timers) + size
       /\ \A t \in 1 .. Len(timers) + size :
            timers'[t] = IF t <= Len(timers) THEN stop[t] ELSE made[t - Len(timers)]
  <2>1. /\ stop \o made \in Seq(Timer)
        /\ Len(stop \o made) = Len(stop) + Len(made)
        /\ \A t \in 1 .. Len(stop) + Len(made) :
             (stop \o made)[t] = IF t <= Len(stop) THEN stop[t] ELSE made[t - Len(stop)]
    BY <1>7, <1>8, ConcatProperties
  <2>. QED
    BY <1>7, <1>8, <1>9, <2>1
<1>12. \A t \in TimerIds : timers'[t] = stop[t]
  BY <1>1, <1>2, <1>11 DEF TimerIds
<1>13. ASSUME NEW n \in Defined
       PROVE  /\ timerOf'[n] = Len(timers) + order[n] /\ timerOf'[n] \in TimerIds' /\ timerOf'[n] # 0
              /\ timers'[timerOf'[n]] = NewTimer(n, ver[n], job[n])
  <2>1. n \in Names /\ timerOf'[n] = Len(timers) + order[n]
    BY <1>3 DEF Defined
  <2>2. order[n] \in 1 .. size
    BY <1>6
  <2>3. timerOf'[n] \in 1 .. Len(timers) + size /\ ~(timerOf'[n] <= Len(timers))
        /\ timerOf'[n] - Len(timers) = order[n]
    BY <1>1, <1>2, <2>1, <2>2
  <2>4. timers'[timerOf'[n]] = made[order[n]]
    BY <1>11, <2>3
  <2>5. made[order[n]] = NewTimer(n, ver[n], job[n])
    BY <1>6, <1>10, <2>2
  <2>. QED
    BY <1>11, <2>1, <2>3, <2>4, <2>5 DEF TimerIds
<1>14. ASSUME NEW t \in TimerIds', t \notin TimerIds
       PROVE  \E n \in Defined : timerOf'[n] = t /\ timers'[t] = NewTimer(n, ver[n], job[n])
  <2>1. t - Len(timers) \in 1 .. size
    BY <1>1, <1>2, <1>11, <1>14 DEF TimerIds
  <2>2. at(t - Len(timers)) \in Defined /\ order[at(t - Len(timers))] = t - Len(timers)
    BY <1>5, <2>1
  <2>3. timerOf'[at(t - Len(timers))] = t
    BY <1>1, <1>2, <1>13, <1>11, <2>2 DEF TimerIds
  <2>. QED
    BY <1>13, <2>2, <2>3
<1>15. \A n \in Names \ Defined : timerOf'[n] = 0
  BY <1>3
<1>16. timerOf' \in [Names -> 0 .. Len(timers')]
  <2>1. \A n \in Names : timerOf'[n] \in 0 .. Len(timers')
    BY <1>1, <1>2, <1>11, <1>13, <1>15 DEF TimerIds
  <2>2. timerOf' = [n \in Names |-> timerOf'[n]]
    BY <1>3
  <2>. QED
    BY <2>1, <2>2
<1>17. Len(timers) <= Len(timers') /\ Len(timers') <= MaxTimers
  BY <1>1, <1>2, <1>3, <1>11 DEF size
<1>. QED
  BY <1>7, <1>11, <1>12, <1>13, <1>14, <1>15, <1>16, <1>17

\* Start's new timers are made for what is defined, the old ones keep running.
LEMMA StartInv ==
  ASSUME OnceInv, Start
  PROVE  OnceInv'
<1>1. /\ TypeOK /\ Len(timers) \in Nat
      /\ \A n \in Names : ver[n] \in Nat /\ job[n] \in Nat
  BY Types DEF OnceInv
<1>2. UNCHANGED <<adds, job, ver>>
  BY DEF Start, Rebuild
<1>3. /\ Len(timers) <= Len(timers') /\ Len(timers') <= MaxTimers
      /\ timers' \in Seq(Timer)
      /\ timerOf' \in [Names -> 0 .. Len(timers')]
      /\ \A t \in TimerIds :
           /\ SameTimer(timers'[t], timers[t])
           /\ timers'[t].state \in Waiting => timers[t].state \in Waiting
      /\ \A t \in TimerIds' : t \in TimerIds \/
           \E n \in Defined : timerOf'[n] = t /\ timers'[t] = NewTimer(n, ver[n], job[n])
      /\ \A n \in Defined : timerOf'[n] \in TimerIds' /\ timerOf'[n] # 0
           /\ timers'[timerOf'[n]] = NewTimer(n, ver[n], job[n])
      /\ \A n \in Names \ Defined : timerOf'[n] = 0
  BY Rebuilt DEF Start
<1>4. ASSUME NEW t \in TimerIds', t \notin TimerIds
      PROVE  \E n \in Defined :
               /\ timers'[t].name = n /\ timers'[t].ver = ver[n] /\ timers'[t].made = job[n]
               /\ timers'[t].state = "armed" /\ timers'[t].took = 0 /\ timers'[t].forgotten = FALSE
  <2>1. PICK n \in Defined : timers'[t] = NewTimer(n, ver[n], job[n])
    BY <1>3, <1>4
  <2>. QED
    BY <2>1 DEF NewTimer
<1>5. TypeOK' /\ LifecycleAgrees'
  <2>1. LifecycleTypeOK /\ LifecycleAgrees
    BY <1>1 DEF TypeOK, OnceInv
  <2>2. LifecycleTypeOK' /\ LifecycleAgrees'
    BY <2>1, StartKeepsLifecycle DEF Start
  <2>. QED
    BY <1>1, <1>2, <1>3, <2>2 DEF TypeOK
<1>6. JobsApart'
  BY <1>2 DEF OnceInv, JobsApart, Defined
<1>7. TimersRegistered'
  <2> SUFFICES ASSUME NEW t \in TimerIds'
               PROVE  timers'[t].made <= adds /\ timers'[t].took <= adds /\ timers'[t].ver # 0
    BY <1>2 DEF TimersRegistered
  <2>1. CASE t \in TimerIds
    BY <1>3, <2>1 DEF SameTimer, OnceInv, TimersRegistered
  <2>2. CASE t \notin TimerIds
    <3>1. adds \in Nat /\ \A n \in Defined : ver[n] # 0 /\ job[n] <= adds
      BY <1>1, Types DEF TypeOK, Defined, OnceInv, JobsApart
    <3>2. PICK n \in Defined :
            /\ timers'[t].name = n /\ timers'[t].ver = ver[n] /\ timers'[t].made = job[n]
            /\ timers'[t].state = "armed" /\ timers'[t].took = 0 /\ timers'[t].forgotten = FALSE
      BY <1>4, <2>2
    <3>3. 0 <= adds
      BY <3>1
    <3>. QED
      BY <3>1, <3>2, <3>3
  <2>. QED
    BY <2>1, <2>2
<1>8. TimerIsCurrent'
  <2> SUFFICES ASSUME NEW n \in Names, timerOf'[n] # 0
               PROVE  /\ job[n] # 0
                      /\ timers'[timerOf'[n]].name = n
                      /\ timers'[timerOf'[n]].ver = ver[n]
                      /\ timers'[timerOf'[n]].made = job[n]
                      /\ timers'[timerOf'[n]].state \in Waiting
    BY <1>2 DEF TimerIsCurrent, Defined
  <2>1. n \in Defined /\ timers'[timerOf'[n]] = NewTimer(n, ver[n], job[n])
    BY <1>3
  <2>. QED
    BY <2>1 DEF Defined, NewTimer, Waiting
<1>9. EveryoneHasTimer'
  BY <1>2, <1>3 DEF EveryoneHasTimer, Defined
<1>10. VersionTells'
  <2> SUFFICES ASSUME NEW t \in TimerIds', timers'[t].state \in Waiting, ~timers'[t].forgotten
               PROVE  /\ timers'[t].ver <= ver[timers'[t].name]
                      /\ timers'[t].ver = ver[timers'[t].name] => timers'[t].made = job[timers'[t].name]
    BY <1>2 DEF VersionTells
  <2>1. CASE t \in TimerIds
    BY <1>3, <2>1 DEF SameTimer, OnceInv, VersionTells
  <2>2. CASE t \notin TimerIds
    <3>1. \A n \in Defined : ver[n] <= ver[n]
      BY <1>1 DEF Defined
    <3>. QED
      BY <1>4, <2>2, <3>1
  <2>. QED
    BY <2>1, <2>2
<1>11. \A t \in TimerIds' : timers'[t].took # 0 => t \in TimerIds /\ timers'[t].took = timers[t].took
  BY <1>3, <1>4 DEF SameTimer
<1>12. TakenAtMostOnce'
  <2> SUFFICES ASSUME NEW t \in TimerIds', timers'[t].took # 0
               PROVE  /\ \A u \in TimerIds' : timers'[u].took = timers'[t].took => u = t
                      /\ \A n \in Names : job[n] # timers'[t].took
    BY <1>2 DEF TakenAtMostOnce, TimerIds
  <2>. QED
    BY <1>11 DEF OnceInv, TakenAtMostOnce, TimerIds
<1>13. StaleOnlyAfterDelete'
  <2> SUFFICES ASSUME NEW t \in TimerIds', timers'[t].took \notin {0, timers'[t].made}
               PROVE  timers'[t].forgotten
    BY DEF StaleOnlyAfterDelete, TimerIds
  <2>. QED
    BY <1>3, <1>11 DEF OnceInv, StaleOnlyAfterDelete, TimerIds, SameTimer
<1>. QED
  BY <1>5, <1>6, <1>7, <1>8, <1>9, <1>10, <1>12, <1>13 DEF OnceInv

\* The other steps of Stop and Apply touch neither definitions nor timers.
LEMMA LifecycleOnceInv ==
  ASSUME OnceInv, Lifecycle \/ UNCHANGED vars
  PROVE  OnceInv'
<1>1. UNCHANGED onceVars
  BY DEF Lifecycle, vars
<1>2. LifecycleTypeOK' /\ LifecycleAgrees'
  <2>1. LifecycleTypeOK /\ LifecycleAgrees
    BY DEF OnceInv, TypeOK
  <2>2. CASE Lifecycle
    BY <2>1, <2>2, LifecycleKeepsTypes
  <2>3. CASE UNCHANGED vars
    BY <2>1, <2>3 DEF vars, lifecycleVars, LifecycleTypeOK, LifecycleAgrees
  <2>. QED
    BY <2>2, <2>3
<1>3. EveryoneHasTimer'
  <2>1. CASE cur' # 0 /\ stopPC' = "idle"
    <3>1. cur # 0 /\ stopPC = "idle"
      BY <2>1 DEF Lifecycle, StopBegin, StopClose, StopCancel, StopHalt, StopDrain, Finalize,
         ApplyRestart, ApplyResume, vars, lifecycleVars
    <3>. QED
      BY <1>1, <3>1 DEF onceVars, OnceInv, EveryoneHasTimer, Defined
  <2>. QED
    BY <2>1 DEF EveryoneHasTimer
<1>. QED
  BY <1>1, <1>2, <1>3 DEF OnceInv, TypeOK, JobsApart, TimersRegistered, TimerIsCurrent, VersionTells,
     TakenAtMostOnce, StaleOnlyAfterDelete, Defined, TimerIds, onceVars

---------------------------------------------------------------------------
(* The theorems                                                            *)

\* Nothing is defined at first.
LEMMA InitOnceInv == Init => OnceInv
<1> SUFFICES ASSUME Init PROVE OnceInv
  OBVIOUS
<1>1. TypeOK
  <2>1. LifecycleTypeOK
    <3>1. 0 \in 0 .. MaxRuns /\ 0 \in 0 .. (MaxRuns + MaxApplies) /\ 0 \in 0 .. MaxApplies
      BY LifecycleAssumption
    <3>. QED
      BY <3>1 DEF Init, LifecycleInit, LifecycleTypeOK, StopPC
  <2>2. timers \in Seq(Timer) /\ Len(timers) = 0
    BY EmptySeq DEF Init
  <2>. QED
    BY <2>1, <2>2, OnceAssumption DEF Init, TypeOK
<1>2. JobsApart
  <2>1. Defined = {}
    BY DEF Init, Defined
  <2>. QED
    BY <2>1, FS_EmptySet DEF Init, JobsApart
<1>3. \A t \in TimerIds : FALSE
  BY DEF Init, TimerIds
<1>. QED
  BY <1>1, <1>2, <1>3 DEF OnceInv, Init, LifecycleInit, LifecycleAgrees, TimersRegistered, TimerIsCurrent,
     EveryoneHasTimer, VersionTells, TakenAtMostOnce, StaleOnlyAfterDelete, TimerIds

\* All steps together.
LEMMA NextOnceInv == OnceInv /\ [Next]_vars => OnceInv'
<1> SUFFICES ASSUME OnceInv, [Next]_vars PROVE OnceInv'
  OBVIOUS
<1>1. ASSUME NEW t \in TimerIds, Fire(t) \/ Ignore(t) \/ ReadQueue(t) \/ Send(t)
      PROVE  OnceInv'
  <2>1. CASE Fire(t)
    BY <2>1, TimerMovesInv DEF Fire, Waiting, TimerStates
  <2>2. CASE Ignore(t)
    <3>1. \A n \in Names : timerOf[n] # t
      BY <2>2 DEF Ignore, OnceInv, TimerIsCurrent, TimerIds
    <3>2. /\ timers' = [timers EXCEPT ![t].state = "ignored"]
          /\ UNCHANGED <<lifecycleVars, adds, job, ver, timerOf>>
      BY <2>2 DEF Ignore
    <3>3. "ignored" \in TimerStates /\ "ignored" \notin Waiting
      BY DEF Waiting, TimerStates
    <3>. QED
      BY <3>1, <3>2, <3>3, TimerMovesInv
  <2>3. CASE ReadQueue(t)
    <3>1. \A n \in Names : timerOf[n] # t
      BY <2>3 DEF ReadQueue, OnceInv, TimerIsCurrent, TimerIds, Waiting
    <3>. QED
      BY <2>3, <3>1, TimerMovesInv DEF ReadQueue, Waiting, TimerStates
  <2>4. CASE Send(t)
    <3>1. \A n \in Names : timerOf[n] # t
      BY <2>4 DEF Send, OnceInv, TimerIsCurrent, TimerIds, Waiting
    <3>. QED
      BY <2>4, <3>1, TimerMovesInv DEF Send, Waiting, TimerStates
  <2>. QED
    BY <1>1, <2>1, <2>2, <2>3, <2>4
<1>2. ASSUME NEW n \in Names, Remove(n) PROVE OnceInv'
  <2>1. Trim[n] \in Names
    BY OnceAssumption
  <2>. QED
    BY <1>2, <2>1, DeleteInv DEF Remove
<1>. QED
  BY <1>1, <1>2, AddOnceInv, ClaimInv, StartInv, StopAllTimersInv, LifecycleOnceInv
     DEF Next, Callback, TimerIds

\* The invariant of the one-shot schedules: what the theorems below rest on
\* (the critical sections of api.go under s.tmu).
THEOREM OnceInvariant == Spec => []OnceInv
BY InitOnceInv, NextOnceInv, PTL DEF Spec

\* No registration is executed twice, whatever timers of it are under way when
\* Start makes new ones, and none is defined once it was taken (api.go:181).
THEOREM OnceTakenOnce == Spec => []TakenAtMostOnce
<1>1. OnceInv => TakenAtMostOnce
  BY DEF OnceInv
<1>. QED
  BY <1>1, OnceInvariant, PTL

\* While the service runs every definition has a timer that waits and will pass
\* its callback's check: a start forgets no schedule (api.go:341-404).
THEOREM NoneForgotten == Spec => []DefinitionHasTimer
<1>1. OnceInv => DefinitionHasTimer
  <2> SUFFICES ASSUME OnceInv, cur # 0, stopPC = "idle", NEW n \in Defined
               PROVE  \E t \in 1 .. Len(timers) :
                        /\ timers[t].name = n
                        /\ timers[t].ver = ver[n]
                        /\ timers[t].made = job[n]
                        /\ timers[t].state \in {"armed", "fired"}
    BY DEF DefinitionHasTimer, OnceInv
  <2>1. n \in Names /\ timerOf[n] # 0
    BY DEF OnceInv, EveryoneHasTimer, Defined
  <2>2. timerOf[n] \in 1 .. Len(timers)
    BY <2>1, Types DEF OnceInv, TimerIds
  <2>. QED
    BY <2>1, <2>2 DEF OnceInv, TimerIsCurrent, Waiting
<1>. QED
  BY <1>1, OnceInvariant, PTL

\* A callback takes a job its timer was not made for only when the version of its
\* name was deleted meanwhile: the versions tell upserts apart (api.go:157-159).
THEOREM VersionsTellUpserts == Spec => []StaleOnlyAfterDelete
<1>1. OnceInv => StaleOnlyAfterDelete
  BY DEF OnceInv
<1>. QED
  BY <1>1, OnceInvariant, PTL
=============================================================================
