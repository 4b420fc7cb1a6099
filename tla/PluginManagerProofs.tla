------------------------ MODULE PluginManagerProofs ------------------------
(***************************************************************************)
(* Proofs about PluginManager: its four invariants, for any number of      *)
(* plugins and of reconciles, whatever order App.Stop's stopOne and the    *)
(* reload loop's come in; and how many steps a reconcile and a StopAll     *)
(* have left at most.                                                      *)
(***************************************************************************)
EXTENDS PluginManager, FiniteSetTheorems, TLAPS

---------------------------------------------------------------------------
(* The inductive invariant, in four layers                                 *)

Starting == {"init", "config", "start", "record"}

\* Where reconcile and the two callers of stopOne are.
Places ==
  /\ pc \in {"idle", "ops"} <=> at = None
  /\ pc \in Starting <=> ctx # 0
  /\ pc = "idle" => todo = {}
  /\ at \notin todo
  /\ \A t \in Threads : stopper[t] # "none" => target[t] \in Plugins
  /\ stopper["reload"] # "none" => pc = "stop" /\ target["reload"] = at
  /\ stopper["app"] # "none" => stopAll = "on"
  /\ lateStarts \cup lateStops \subseteq slow

\* What the op under way, and those to come, may rely on: nothing but reconcile
\* adds to the record, and the configuration is reconcile's own.
Ops ==
  /\ todo \cap run \subseteq wasRunning
  /\ pc \in Starting => at \notin run
  /\ pc \in Starting \cup {"reconfig"} => conf[at] # Off
  /\ pc = "stop" /\ stopper["reload"] = "none" => at \notin run
  /\ \A p \in run \ {at} : quarantine[p] = Off
  /\ \A p \in run \ (todo \cup {at}) :
       conf[p] # Off /\ (p \in Configurable => lastHash[p] = conf[p])

\* While nobody stops the application, the record and the plugin under way ...
Agreement ==
  stopAll = "no" =>
    /\ \A p \in Plugins \ (slow \cup {at}) : p \in run <=> p \in up
    /\ at \notin slow =>
         /\ pc \in {"init", "config", "start"} => at \notin up
         /\ pc = "record" => at \in up
         /\ pc = "reconfig" => (at \in run <=> at \in up)
         /\ pc = "stop" => IF stopper["reload"] = "record" THEN at \notin up
                                                            ELSE at \in run <=> at \in up

\* ... and the contexts: the reload loop's stopOne holds the plugin's own.
Contexts ==
  stopAll = "no" =>
    /\ \A i \in (1 .. ctxs) \ cancelled : i = ctx \/ \E p \in run : pctx[p] = i
    /\ stopper["reload"] \in {"cancel", "wait", "record"} => stopCtx["reload"] = pctx[at]
    /\ stopper["reload"] \in {"wait", "record"} => stopCtx["reload"] \in cancelled \cup {0}

PluginInv ==
  /\ TypeOK
  /\ Places
  /\ Ops
  /\ Agreement
  /\ Contexts
  /\ RegistryIsRunning

---------------------------------------------------------------------------
(* What a step of reconcile, of stopOne or of the rest keeps, by layer     *)

\* Types and places: what holds without the other layers.
LEMMA NextPlaces ==
  ASSUME TypeOK, Places, [Next]_vars
  PROVE  TypeOK' /\ Places'
<1> USE PluginAssumption
<1> USE DEF TypeOK, Places, Starting, PC, Threads, mgrVars, reconVars, allVars, stopVars, lateVars
<1>1. CASE Reconcile
  BY <1>1 DEF Reconcile
<1>2. CASE ReconcileEnds
  <2>1. registry' \subseteq Plugins /\ pc' = "idle" /\ wasRunning' = {} /\ touched' = FALSE
    BY <1>2 DEF ReconcileEnds
  <2>2. UNCHANGED <<mgrVars, ctxs, cancelled, conf, updates, todo, at, ctx, allVars, stopVars, up,
                    lateVars, appDone>>
    BY <1>2 DEF ReconcileEnds
  <2>3. TypeOK'
    BY <2>1, <2>2
  <2>4. Places'
    BY <1>2, <2>1, <2>2 DEF ReconcileEnds
  <2>. QED
    BY <2>3, <2>4
<1>3. ASSUME NEW p \in Plugins, SkipEnable(p) \/ SkipUpdate(p)
      PROVE  TypeOK' /\ Places'
  BY <1>3 DEF SkipEnable, SkipUpdate
<1>4. ASSUME NEW p \in Plugins, Enable(p)
      PROVE  TypeOK' /\ Places'
  BY <1>4 DEF Enable
<1>5. ASSUME NEW p \in Plugins, Disable(p)
      PROVE  TypeOK' /\ Places'
  BY <1>5 DEF Disable, BeginStop
<1>6. ASSUME NEW p \in Plugins, Update(p)
      PROVE  TypeOK' /\ Places'
  BY <1>6 DEF Update
<1>7. CASE InitReturns
  <2>1. CASE pc' = "config" /\ UNCHANGED <<at, ctx, cancelled>>
    BY <1>7, <2>1 DEF InitReturns
  <2>2. CASE GiveUp
    BY <1>7, <2>2 DEF InitReturns, GiveUp, Continue
  <2>. QED
    BY <1>7, <2>1, <2>2 DEF InitReturns
<1>8. CASE ConfigReturns
  <2>1. CASE pc' = "start" /\ UNCHANGED <<at, ctx, cancelled, quarantine>>
    BY <1>8, <2>1 DEF ConfigReturns
  <2>2. CASE quarantine' = [quarantine EXCEPT ![at] = conf[at]] /\ GiveUp
    BY <1>8, <2>2 DEF ConfigReturns, GiveUp, Continue
  <2>. QED
    BY <1>8, <2>1, <2>2 DEF ConfigReturns
<1>9. CASE StartReturns
  <2>1. CASE up' = up \cup {at} /\ pc' = "record" /\ UNCHANGED <<at, ctx, cancelled>>
    BY <1>9, <2>1 DEF StartReturns
  <2>2. CASE up' = up /\ GiveUp
    BY <1>9, <2>2 DEF StartReturns, GiveUp, Continue
  <2>. QED
    BY <1>9, <2>1, <2>2 DEF StartReturns
<1>10. CASE StartTimesOut
  BY <1>10 DEF StartTimesOut, GiveUp, Continue
<1>11. CASE RecordStarted
  BY <1>11 DEF RecordStarted, Continue
<1>12. CASE Disabled
  BY <1>12 DEF Disabled, Continue
<1>13. CASE ReconfigReturns
  BY <1>13 DEF ReconfigReturns, Continue, BeginStop
<1>14. CASE AppStop
  BY <1>14 DEF AppStop
<1>15. CASE StopAllEnds
  BY <1>15 DEF StopAllEnds
<1>16. ASSUME NEW p \in Plugins, StopNext(p)
       PROVE  TypeOK' /\ Places'
  BY <1>16 DEF StopNext, BeginStop
<1>17. ASSUME NEW p \in Plugins, LateReturn(p)
       PROVE  TypeOK' /\ Places'
  BY <1>17 DEF LateReturn
<1>18. ASSUME NEW t \in Threads, ReadRunning(t)
       PROVE  TypeOK' /\ Places'
  BY <1>18 DEF ReadRunning
<1>19. ASSUME NEW t \in Threads, CancelAndCall(t)
       PROVE  TypeOK' /\ Places'
  <2>1. stopCtx[t] \in 0 .. ctxs /\ cancelled' = cancelled \cup ({stopCtx[t]} \ {0})
    BY <1>19 DEF CancelAndCall
  <2>2. \A n \in Nat : \A x \in 0 .. n : x # 0 => x \in 1 .. n
    OBVIOUS
  <2>3. stopCtx[t] # 0 => stopCtx[t] \in 1 .. ctxs
    BY <2>1, <2>2
  <2>4. cancelled' \subseteq 1 .. ctxs
    BY <2>1, <2>3
  <2>. QED
    BY <1>19, <2>4 DEF CancelAndCall
<1>20. ASSUME NEW t \in Threads, StopReturns(t)
       PROVE  TypeOK' /\ Places'
  BY <1>20 DEF StopReturns
<1>21. ASSUME NEW t \in Threads, StopTimesOut(t)
       PROVE  TypeOK' /\ Places'
  BY <1>21 DEF StopTimesOut
<1>22. ASSUME NEW t \in Threads, RecordStopped(t)
       PROVE  TypeOK' /\ Places'
  BY <1>22 DEF RecordStopped
<1>23. CASE UNCHANGED vars
  BY <1>23 DEF vars
<1>. QED
  BY <1>1, <1>2, <1>3, <1>4, <1>5, <1>6, <1>7, <1>8, <1>9, <1>10, <1>11, <1>12, <1>13, <1>14, <1>15,
     <1>16, <1>17, <1>18, <1>19, <1>20, <1>21, <1>22, <1>23 DEF Next, ReconcileGoesOn, StopGoesOn

\* The ops: reconcile finds the plugins as it left them.
LEMMA NextOps ==
  ASSUME TypeOK, Places, Ops, [Next]_vars
  PROVE  Ops'
<1> USE PluginAssumption
<1> USE DEF TypeOK, Places, Ops, Starting, PC, Threads, mgrVars, reconVars, allVars, stopVars, lateVars
<1>1. CASE Reconcile
  BY <1>1 DEF Reconcile
<1>2. CASE ReconcileEnds
  BY <1>2 DEF ReconcileEnds, Enabled
<1>3. ASSUME NEW p \in Plugins, SkipEnable(p) \/ SkipUpdate(p) PROVE Ops'
  BY <1>3 DEF SkipEnable, SkipUpdate
<1>4. ASSUME NEW p \in Plugins, Enable(p) PROVE Ops'
  BY <1>4 DEF Enable
<1>5. ASSUME NEW p \in Plugins, Disable(p) PROVE Ops'
  BY <1>5 DEF Disable, BeginStop
<1>6. ASSUME NEW p \in Plugins, Update(p) PROVE Ops'
  BY <1>6 DEF Update
<1>7. CASE InitReturns
  <2>1. CASE pc' = "config" /\ UNCHANGED <<at, ctx, cancelled>>
    BY <1>7, <2>1 DEF InitReturns
  <2>2. CASE GiveUp
    BY <1>7, <2>2 DEF InitReturns, GiveUp, Continue
  <2>. QED
    BY <1>7, <2>1, <2>2 DEF InitReturns
<1>8. CASE ConfigReturns
  <2>1. CASE pc' = "start" /\ UNCHANGED <<at, ctx, cancelled, quarantine>>
    BY <1>8, <2>1 DEF ConfigReturns
  <2>2. CASE quarantine' = [quarantine EXCEPT ![at] = conf[at]] /\ GiveUp
    BY <1>8, <2>2 DEF ConfigReturns, GiveUp, Continue
  <2>. QED
    BY <1>8, <2>1, <2>2 DEF ConfigReturns
<1>9. CASE StartReturns
  <2>1. CASE up' = up \cup {at} /\ pc' = "record" /\ UNCHANGED <<at, ctx, cancelled>>
    BY <1>9, <2>1 DEF StartReturns
  <2>2. CASE up' = up /\ GiveUp
    BY <1>9, <2>2 DEF StartReturns, GiveUp, Continue
  <2>. QED
    BY <1>9, <2>1, <2>2 DEF StartReturns
<1>10. CASE StartTimesOut
  BY <1>10 DEF StartTimesOut, GiveUp, Continue
<1>11. CASE RecordStarted
  BY <1>11 DEF RecordStarted, Continue
<1>12. CASE Disabled
  BY <1>12 DEF Disabled, Continue
<1>13. CASE ReconfigReturns
  BY <1>13 DEF ReconfigReturns, Continue, BeginStop
<1>14. CASE AppStop
  BY <1>14 DEF AppStop
<1>15. CASE StopAllEnds
  BY <1>15 DEF StopAllEnds
<1>16. ASSUME NEW p \in Plugins, StopNext(p) PROVE Ops'
  BY <1>16 DEF StopNext, BeginStop
<1>17. ASSUME NEW p \in Plugins, LateReturn(p) PROVE Ops'
  BY <1>17 DEF LateReturn
<1>18. ASSUME NEW t \in Threads, ReadRunning(t) PROVE Ops'
  BY <1>18 DEF ReadRunning
<1>19. ASSUME NEW t \in Threads, CancelAndCall(t) PROVE Ops'
  BY <1>19 DEF CancelAndCall
<1>20. ASSUME NEW t \in Threads, StopReturns(t) PROVE Ops'
  BY <1>20 DEF StopReturns
<1>21. ASSUME NEW t \in Threads, StopTimesOut(t) PROVE Ops'
  BY <1>21 DEF StopTimesOut
<1>22. ASSUME NEW t \in Threads, RecordStopped(t) PROVE Ops'
  BY <1>22 DEF RecordStopped
<1>23. CASE UNCHANGED vars
  BY <1>23 DEF vars
<1>. QED
  BY <1>1, <1>2, <1>3, <1>4, <1>5, <1>6, <1>7, <1>8, <1>9, <1>10, <1>11, <1>12, <1>13, <1>14, <1>15,
     <1>16, <1>17, <1>18, <1>19, <1>20, <1>21, <1>22, <1>23 DEF Next, ReconcileGoesOn, StopGoesOn

\* The record and what is up: they differ for the plugin under way only.
LEMMA NextAgreement ==
  ASSUME TypeOK, Places, Ops, Agreement, [Next]_vars
  PROVE  Agreement'
<1> USE PluginAssumption
<1> USE DEF TypeOK, Places, Ops, Agreement, Starting, PC, Threads, mgrVars, reconVars, allVars, stopVars, lateVars
<1>1. CASE Reconcile
  BY <1>1 DEF Reconcile
<1>2. CASE ReconcileEnds
  BY <1>2 DEF ReconcileEnds, Enabled
<1>3. ASSUME NEW p \in Plugins, SkipEnable(p) \/ SkipUpdate(p) PROVE Agreement'
  BY <1>3 DEF SkipEnable, SkipUpdate
<1>4. ASSUME NEW p \in Plugins, Enable(p) PROVE Agreement'
  BY <1>4 DEF Enable
<1>5. ASSUME NEW p \in Plugins, Disable(p) PROVE Agreement'
  BY <1>5 DEF Disable, BeginStop
<1>6. ASSUME NEW p \in Plugins, Update(p) PROVE Agreement'
  BY <1>6 DEF Update
<1>7. CASE InitReturns
  <2>1. CASE pc' = "config" /\ UNCHANGED <<at, ctx, cancelled>>
    BY <1>7, <2>1 DEF InitReturns
  <2>2. CASE GiveUp
    BY <1>7, <2>2 DEF InitReturns, GiveUp, Continue
  <2>. QED
    BY <1>7, <2>1, <2>2 DEF InitReturns
<1>8. CASE ConfigReturns
  <2>1. CASE pc' = "start" /\ UNCHANGED <<at, ctx, cancelled, quarantine>>
    BY <1>8, <2>1 DEF ConfigReturns
  <2>2. CASE quarantine' = [quarantine EXCEPT ![at] = conf[at]] /\ GiveUp
    BY <1>8, <2>2 DEF ConfigReturns, GiveUp, Continue
  <2>. QED
    BY <1>8, <2>1, <2>2 DEF ConfigReturns
<1>9. CASE StartReturns
  <2>1. CASE up' = up \cup {at} /\ pc' = "record" /\ UNCHANGED <<at, ctx, cancelled>>
    BY <1>9, <2>1 DEF StartReturns
  <2>2. CASE up' = up /\ GiveUp
    BY <1>9, <2>2 DEF StartReturns, GiveUp, Continue
  <2>. QED
    BY <1>9, <2>1, <2>2 DEF StartReturns
<1>10. CASE StartTimesOut
  BY <1>10 DEF StartTimesOut, GiveUp, Continue
<1>11. CASE RecordStarted
  BY <1>11 DEF RecordStarted, Continue
<1>12. CASE Disabled
  BY <1>12 DEF Disabled, Continue
<1>13. CASE ReconfigReturns
  BY <1>13 DEF ReconfigReturns, Continue, BeginStop
<1>14. CASE AppStop
  BY <1>14 DEF AppStop
<1>15. CASE StopAllEnds
  BY <1>15 DEF StopAllEnds
<1>16. ASSUME NEW p \in Plugins, StopNext(p) PROVE Agreement'
  BY <1>16 DEF StopNext, BeginStop
<1>17. ASSUME NEW p \in Plugins, LateReturn(p) PROVE Agreement'
  BY <1>17 DEF LateReturn
<1>18. ASSUME NEW t \in Threads, ReadRunning(t) PROVE Agreement'
  BY <1>18 DEF ReadRunning
<1>19. ASSUME NEW t \in Threads, CancelAndCall(t) PROVE Agreement'
  BY <1>19 DEF CancelAndCall
<1>20. ASSUME NEW t \in Threads, StopReturns(t) PROVE Agreement'
  BY <1>20 DEF StopReturns
<1>21. ASSUME NEW t \in Threads, StopTimesOut(t) PROVE Agreement'
  BY <1>21 DEF StopTimesOut
<1>22. ASSUME NEW t \in Threads, RecordStopped(t) PROVE Agreement'
  BY <1>22 DEF RecordStopped
<1>23. CASE UNCHANGED vars
  BY <1>23 DEF vars
<1>. QED
  BY <1>1, <1>2, <1>3, <1>4, <1>5, <1>6, <1>7, <1>8, <1>9, <1>10, <1>11, <1>12, <1>13, <1>14, <1>15,
     <1>16, <1>17, <1>18, <1>19, <1>20, <1>21, <1>22, <1>23 DEF Next, ReconcileGoesOn, StopGoesOn

\* The contexts: each way out of reconcile and of stopOne cancels or records.
LEMMA NextContexts ==
  ASSUME TypeOK, Places, Ops, Contexts, [Next]_vars
  PROVE  Contexts'
<1> USE PluginAssumption
<1> USE DEF TypeOK, Places, Ops, Contexts, Starting, PC, Threads, mgrVars, reconVars, allVars, stopVars, lateVars
<1>1. CASE Reconcile
  BY <1>1 DEF Reconcile
<1>2. CASE ReconcileEnds
  BY <1>2 DEF ReconcileEnds, Enabled
<1>3. ASSUME NEW p \in Plugins, SkipEnable(p) \/ SkipUpdate(p) PROVE Contexts'
  BY <1>3 DEF SkipEnable, SkipUpdate
<1>4. ASSUME NEW p \in Plugins, Enable(p) PROVE Contexts'
  BY <1>4 DEF Enable
<1>5. ASSUME NEW p \in Plugins, Disable(p) PROVE Contexts'
  BY <1>5 DEF Disable, BeginStop
<1>6. ASSUME NEW p \in Plugins, Update(p) PROVE Contexts'
  BY <1>6 DEF Update
<1>7. CASE InitReturns
  <2>1. CASE pc' = "config" /\ UNCHANGED <<at, ctx, cancelled>>
    BY <1>7, <2>1 DEF InitReturns
  <2>2. CASE GiveUp
    BY <1>7, <2>2 DEF InitReturns, GiveUp, Continue
  <2>. QED
    BY <1>7, <2>1, <2>2 DEF InitReturns
<1>8. CASE ConfigReturns
  <2>1. CASE pc' = "start" /\ UNCHANGED <<at, ctx, cancelled, quarantine>>
    BY <1>8, <2>1 DEF ConfigReturns
  <2>2. CASE quarantine' = [quarantine EXCEPT ![at] = conf[at]] /\ GiveUp
    BY <1>8, <2>2 DEF ConfigReturns, GiveUp, Continue
  <2>. QED
    BY <1>8, <2>1, <2>2 DEF ConfigReturns
<1>9. CASE StartReturns
  <2>1. CASE up' = up \cup {at} /\ pc' = "record" /\ UNCHANGED <<at, ctx, cancelled>>
    BY <1>9, <2>1 DEF StartReturns
  <2>2. CASE up' = up /\ GiveUp
    BY <1>9, <2>2 DEF StartReturns, GiveUp, Continue
  <2>. QED
    BY <1>9, <2>1, <2>2 DEF StartReturns
<1>10. CASE StartTimesOut
  BY <1>10 DEF StartTimesOut, GiveUp, Continue
<1>11. CASE RecordStarted
  BY <1>11 DEF RecordStarted, Continue
<1>12. CASE Disabled
  BY <1>12 DEF Disabled, Continue
<1>13. CASE ReconfigReturns
  BY <1>13 DEF ReconfigReturns, Continue, BeginStop
<1>14. CASE AppStop
  BY <1>14 DEF AppStop
<1>15. CASE StopAllEnds
  BY <1>15 DEF StopAllEnds
<1>16. ASSUME NEW p \in Plugins, StopNext(p) PROVE Contexts'
  BY <1>16 DEF StopNext, BeginStop
<1>17. ASSUME NEW p \in Plugins, LateReturn(p) PROVE Contexts'
  BY <1>17 DEF LateReturn
<1>18. ASSUME NEW t \in Threads, ReadRunning(t) PROVE Contexts'
  BY <1>18 DEF ReadRunning
<1>19. ASSUME NEW t \in Threads, CancelAndCall(t) PROVE Contexts'
  BY <1>19 DEF CancelAndCall
<1>20. ASSUME NEW t \in Threads, StopReturns(t) PROVE Contexts'
  BY <1>20 DEF StopReturns
<1>21. ASSUME NEW t \in Threads, StopTimesOut(t) PROVE Contexts'
  BY <1>21 DEF StopTimesOut
<1>22. ASSUME NEW t \in Threads, RecordStopped(t) PROVE Contexts'
  BY <1>22 DEF RecordStopped
<1>23. CASE UNCHANGED vars
  BY <1>23 DEF vars
<1>. QED
  BY <1>1, <1>2, <1>3, <1>4, <1>5, <1>6, <1>7, <1>8, <1>9, <1>10, <1>11, <1>12, <1>13, <1>14, <1>15,
     <1>16, <1>17, <1>18, <1>19, <1>20, <1>21, <1>22, <1>23 DEF Next, ReconcileGoesOn, StopGoesOn

\* The registry: the record changes only while it is to be refreshed.
LEMMA NextRegistry ==
  ASSUME TypeOK, Places, Ops, RegistryIsRunning, [Next]_vars
  PROVE  RegistryIsRunning'
<1> USE PluginAssumption
<1> USE DEF TypeOK, Places, Ops, RegistryIsRunning, Starting, PC, Threads, mgrVars, reconVars, allVars, stopVars, lateVars
<1>1. CASE Reconcile
  BY <1>1 DEF Reconcile
<1>2. CASE ReconcileEnds
  BY <1>2 DEF ReconcileEnds, Enabled
<1>3. ASSUME NEW p \in Plugins, SkipEnable(p) \/ SkipUpdate(p) PROVE RegistryIsRunning'
  BY <1>3 DEF SkipEnable, SkipUpdate
<1>4. ASSUME NEW p \in Plugins, Enable(p) PROVE RegistryIsRunning'
  BY <1>4 DEF Enable
<1>5. ASSUME NEW p \in Plugins, Disable(p) PROVE RegistryIsRunning'
  BY <1>5 DEF Disable, BeginStop
<1>6. ASSUME NEW p \in Plugins, Update(p) PROVE RegistryIsRunning'
  BY <1>6 DEF Update
<1>7. CASE InitReturns
  <2>1. CASE pc' = "config" /\ UNCHANGED <<at, ctx, cancelled>>
    BY <1>7, <2>1 DEF InitReturns
  <2>2. CASE GiveUp
    BY <1>7, <2>2 DEF InitReturns, GiveUp, Continue
  <2>. QED
    BY <1>7, <2>1, <2>2 DEF InitReturns
<1>8. CASE ConfigReturns
  <2>1. CASE pc' = "start" /\ UNCHANGED <<at, ctx, cancelled, quarantine>>
    BY <1>8, <2>1 DEF ConfigReturns
  <2>2. CASE quarantine' = [quarantine EXCEPT ![at] = conf[at]] /\ GiveUp
    BY <1>8, <2>2 DEF ConfigReturns, GiveUp, Continue
  <2>. QED
    BY <1>8, <2>1, <2>2 DEF ConfigReturns
<1>9. CASE StartReturns
  <2>1. CASE up' = up \cup {at} /\ pc' = "record" /\ UNCHANGED <<at, ctx, cancelled>>
    BY <1>9, <2>1 DEF StartReturns
  <2>2. CASE up' = up /\ GiveUp
    BY <1>9, <2>2 DEF StartReturns, GiveUp, Continue
  <2>. QED
    BY <1>9, <2>1, <2>2 DEF StartReturns
<1>10. CASE StartTimesOut
  BY <1>10 DEF StartTimesOut, GiveUp, Continue
<1>11. CASE RecordStarted
  BY <1>11 DEF RecordStarted, Continue
<1>12. CASE Disabled
  BY <1>12 DEF Disabled, Continue
<1>13. CASE ReconfigReturns
  BY <1>13 DEF ReconfigReturns, Continue, BeginStop
<1>14. CASE AppStop
  BY <1>14 DEF AppStop
<1>15. CASE StopAllEnds
  BY <1>15 DEF StopAllEnds
<1>16. ASSUME NEW p \in Plugins, StopNext(p) PROVE RegistryIsRunning'
  BY <1>16 DEF StopNext, BeginStop
<1>17. ASSUME NEW p \in Plugins, LateReturn(p) PROVE RegistryIsRunning'
  BY <1>17 DEF LateReturn
<1>18. ASSUME NEW t \in Threads, ReadRunning(t) PROVE RegistryIsRunning'
  BY <1>18 DEF ReadRunning
<1>19. ASSUME NEW t \in Threads, CancelAndCall(t) PROVE RegistryIsRunning'
  BY <1>19 DEF CancelAndCall
<1>20. ASSUME NEW t \in Threads, StopReturns(t) PROVE RegistryIsRunning'
  BY <1>20 DEF StopReturns
<1>21. ASSUME NEW t \in Threads, StopTimesOut(t) PROVE RegistryIsRunning'
  BY <1>21 DEF StopTimesOut
<1>22. ASSUME NEW t \in Threads, RecordStopped(t) PROVE RegistryIsRunning'
  BY <1>22 DEF RecordStopped
<1>23. CASE UNCHANGED vars
  BY <1>23 DEF vars
<1>. QED
  BY <1>1, <1>2, <1>3, <1>4, <1>5, <1>6, <1>7, <1>8, <1>9, <1>10, <1>11, <1>12, <1>13, <1>14, <1>15,
     <1>16, <1>17, <1>18, <1>19, <1>20, <1>21, <1>22, <1>23 DEF Next, ReconcileGoesOn, StopGoesOn

---------------------------------------------------------------------------
(* The theorems                                                            *)

\* Nothing runs, nothing is under way and no context is made.
LEMMA InitPluginInv == Init => PluginInv
<1> SUFFICES ASSUME Init PROVE PluginInv
  OBVIOUS
<1> USE PluginAssumption DEF Init, Threads
<1>1. TypeOK
  <2>1. pctx \in [Plugins -> 0 .. ctxs] /\ stopCtx \in [Threads -> 0 .. ctxs]
    OBVIOUS
  <2>2. /\ lastHash \in [Plugins -> Hashes \cup {Off}]
        /\ quarantine \in [Plugins -> Hashes \cup {Off}]
        /\ conf \in [Plugins -> Hashes \cup {Off}]
    OBVIOUS
  <2>3. /\ stopper \in [Threads -> {"none", "read", "cancel", "wait", "record"}]
        /\ target \in [Threads -> Plugins \cup {None}]
    OBVIOUS
  <2>4. ctxs \in Nat /\ cancelled \subseteq 1 .. ctxs /\ updates \in 0 .. MaxUpdates /\ ctx \in 0 .. ctxs
    OBVIOUS
  <2>5. /\ pc \in PC /\ at \in Plugins \cup {None} /\ touched \in BOOLEAN /\ appDone \in BOOLEAN
        /\ stopAll \in {"no", "on", "over"}
    BY DEF PC
  <2>6. /\ run \subseteq Plugins /\ registry \subseteq Plugins /\ todo \subseteq Plugins
        /\ wasRunning \subseteq Plugins /\ stopTodo \subseteq Plugins /\ up \subseteq Plugins
        /\ lateStarts \subseteq Plugins /\ lateStops \subseteq Plugins /\ slow \subseteq Plugins
    OBVIOUS
  <2> HIDE DEF Init
  <2>. QED
    BY <2>1, <2>2, <2>3, <2>4, <2>5, <2>6 DEF TypeOK
<1>2. Places /\ Ops
  BY DEF Places, Ops, Starting
<1>3. Agreement /\ Contexts
  BY DEF Agreement, Contexts
<1>4. RegistryIsRunning
  BY DEF RegistryIsRunning
<1>. QED
  BY <1>1, <1>2, <1>3, <1>4 DEF PluginInv

\* Every step of the program keeps the four layers and the registry.
LEMMA NextPluginInv == PluginInv /\ [Next]_vars => PluginInv'
  BY NextPlaces, NextOps, NextAgreement, NextContexts, NextRegistry DEF PluginInv

\* The inductive invariant holds in every state the plugin manager reaches.
THEOREM PluginInvariant == Spec => []PluginInv
<1>1. Init => PluginInv
  BY InitPluginInv
<1>2. PluginInv /\ [Next]_vars => PluginInv'
  BY NextPluginInv
<1>. QED
  BY <1>1, <1>2, PTL DEF Spec

\* Between reconciles every plugin recorded as running is wanted by the
\* configuration and has been given it (plugins.go:63-65, 379-427).
THEOREM WantedOnly == Spec => []RunsWanted
<1>1. PluginInv => RunsWanted
  BY PluginAssumption DEF PluginInv, TypeOK, Places, Ops, RunsWanted
<1>. QED
  BY <1>1, PluginInvariant, PTL

\* While the application runs, but for plugins whose Start or Stop outlasted
\* its time, the record is what is up (plugins.go:264-269, 362-375).
THEOREM RecordTrue == Spec => []RecordAgrees
<1>1. PluginInv => RecordAgrees
  BY DEF PluginInv, Agreement, RecordAgrees
<1>. QED
  BY <1>1, PluginInvariant, PTL

\* No plugin context is leaked while the application runs
\* (plugins.go:325-372, 246-268).
THEOREM NoContextLeaks == Spec => []ContextOwned
<1>1. PluginInv => ContextOwned
  BY DEF PluginInv, Contexts, ContextOwned
<1>. QED
  BY <1>1, PluginInvariant, PTL

\* The commands registered are those of the plugins that run
\* (plugins.go:212-214, 435-437).
THEOREM RegistryTrue == Spec => []RegistryIsRunning
<1>1. PluginInv => RegistryIsRunning
  BY DEF PluginInv
<1>. QED
  BY <1>1, PluginInvariant, PTL

---------------------------------------------------------------------------
(* What reconcile and StopAll have left to do                              *)

\* The steps that stopOne, called by thread t, has left at most.
StopLeft(t) ==
  CASE stopper[t] = "read" -> 4
    [] stopper[t] = "cancel" -> 3
    [] stopper[t] = "wait" -> 2
    [] stopper[t] = "record" -> 1
    [] OTHER -> 0

\* The steps that the op under way has left at most, with its call of stopOne, and
\* those of a whole reconcile, of which each op has seven at most.
OpLeft ==
  CASE pc = "ops" -> 1
    [] pc = "record" -> 2
    [] pc = "start" -> 3
    [] pc = "config" -> 4
    [] pc = "init" -> 5
    [] pc = "reconfig" -> 7
    [] pc = "stop" -> 2 + StopLeft("reload")
    [] OTHER -> 0
ReconcileLeft == 7 * Cardinality(todo) + OpLeft

\* The same for StopAll: five steps for each plugin, and its end.
StopAllLeft ==
  IF stopAll = "on" THEN 5 * Cardinality(stopTodo) + StopLeft("app") + 1 ELSE 0

\* The steps of reconcile and of StopAll, the returns of the plugins' Start and Stop
\* in time among them.
ReconcileStep ==
  ReconcileGoesOn \/ StartReturns \/ StopGoesOn("reload") \/ StopReturns("reload")
StopAllStep ==
  (\E p \in Plugins : StopNext(p)) \/ StopAllEnds \/ StopGoesOn("app") \/ StopReturns("app")

\* A set of plugins is finite, and smaller by one without one of them.
LEMMA OneLess ==
  ASSUME NEW S \in SUBSET Plugins
  PROVE  /\ Cardinality(S) \in Nat /\ Cardinality(Plugins) \in Nat
         /\ Cardinality(S) <= Cardinality(Plugins)
         /\ \A p \in S : Cardinality(S \ {p}) = Cardinality(S) - 1
         /\ \A p \in Plugins \ S : Cardinality(S) < Cardinality(Plugins)
<1>1. IsFiniteSet(Plugins) /\ IsFiniteSet(S)
  BY PluginAssumption, FS_Subset
<1>2. Cardinality(S) \in Nat /\ Cardinality(Plugins) \in Nat /\ Cardinality(S) <= Cardinality(Plugins)
  BY <1>1, FS_CardinalityType, FS_Subset
<1>3. \A p \in S : Cardinality(S \ {p}) = Cardinality(S) - 1
  BY <1>1, FS_RemoveElement
<1>4. ASSUME NEW p \in Plugins, p \notin S
      PROVE  Cardinality(S) < Cardinality(Plugins)
  <2>1. S \cup {p} \in SUBSET Plugins
    BY <1>4
  <2>2. Cardinality(S \cup {p}) <= Cardinality(Plugins)
    BY <1>1, <2>1, FS_Subset
  <2>3. Cardinality(S \cup {p}) = Cardinality(S) + 1
    BY <1>1, <1>4, FS_AddElement
  <2>. QED
    BY <1>2, <2>2, <2>3
<1>. QED
  BY <1>2, <1>3, <1>4

\* The numbers are bounded, and none only for what is over.
LEMMA LeftIsBounded ==
  ASSUME PluginInv
  PROVE  /\ \A t \in Threads : StopLeft(t) \in 0 .. 4
         /\ OpLeft \in 0 .. 7
         /\ pc # "idle" => ReconcileLeft \in 1 .. 7 * Cardinality(Plugins) + 1
         /\ stopAll = "on" => StopAllLeft \in 1 .. 5 * Cardinality(Plugins) + 5
<1>1. \A t \in Threads : StopLeft(t) \in 0 .. 4
  BY DEF StopLeft, PluginInv, TypeOK
<1>2. OpLeft \in 0 .. 7 /\ (pc # "idle" => OpLeft > 0) /\ (pc = "ops" => OpLeft = 1)
  BY <1>1 DEF OpLeft, PluginInv, TypeOK, PC, Threads
<1>3. /\ Cardinality(todo) \in Nat /\ Cardinality(Plugins) \in Nat
      /\ Cardinality(todo) <= Cardinality(Plugins)
      /\ pc \notin {"idle", "ops"} => Cardinality(todo) < Cardinality(Plugins)
  <2>1. todo \in SUBSET Plugins
    BY DEF PluginInv, TypeOK
  <2>2. pc \notin {"idle", "ops"} => at \in Plugins \ todo
    BY DEF PluginInv, TypeOK, Places
  <2>. QED
    BY <2>1, <2>2, OneLess
<1>4. pc # "idle" => ReconcileLeft \in 1 .. 7 * Cardinality(Plugins) + 1
  BY <1>2, <1>3 DEF ReconcileLeft
<1>5. Cardinality(stopTodo) \in Nat /\ Cardinality(stopTodo) <= Cardinality(Plugins)
  BY OneLess DEF PluginInv, TypeOK
<1>6. stopAll = "on" => StopAllLeft \in 1 .. 5 * Cardinality(Plugins) + 5
  BY <1>1, <1>3, <1>5 DEF StopAllLeft, Threads
<1>. QED
  BY <1>1, <1>2, <1>4, <1>6

\* So they are after a step.
LEMMA LeftStaysBounded ==
  ASSUME PluginInv'
  PROVE  ReconcileLeft' \in Int /\ StopAllLeft' \in Int
<1>1. \A t \in Threads : StopLeft(t)' \in 0 .. 4
  BY DEF StopLeft, PluginInv, TypeOK
<1>2. OpLeft' \in Int
  BY <1>1 DEF OpLeft, Threads
<1>3. Cardinality(todo') \in Nat /\ Cardinality(stopTodo') \in Nat
  BY OneLess DEF PluginInv, TypeOK
<1>. QED
  BY <1>1, <1>2, <1>3 DEF ReconcileLeft, StopAllLeft, Threads

\* A step of stopOne takes one.
LEMMA StopOneMoves ==
  ASSUME PluginInv, NEW t \in Threads, StopGoesOn(t) \/ StopReturns(t)
  PROVE  /\ stopper[t] # "none" /\ StopLeft(t)' < StopLeft(t)
         /\ \A s \in Threads : s # t => stopper'[s] = stopper[s]
         /\ UNCHANGED <<pc, todo, stopAll, stopTodo>>
<1>1. stopper \in [Threads -> {"none", "read", "cancel", "wait", "record"}]
  BY DEF PluginInv, TypeOK
<1>2. ASSUME NEW to, stopper' = [stopper EXCEPT ![t] = to]
      PROVE  stopper'[t] = to /\ \A s \in Threads : s # t => stopper'[s] = stopper[s]
  BY <1>1, <1>2
<1>3. UNCHANGED <<pc, todo, stopAll, stopTodo>>
  BY DEF StopGoesOn, StopReturns, ReadRunning, CancelAndCall, StopTimesOut, RecordStopped,
     reconVars, allVars
<1>4. \/ stopper[t] = "read" /\ \E to \in {"cancel", "none"} : stopper' = [stopper EXCEPT ![t] = to]
      \/ stopper[t] = "cancel" /\ stopper' = [stopper EXCEPT ![t] = "wait"]
      \/ stopper[t] = "wait" /\ stopper' = [stopper EXCEPT ![t] = "record"]
      \/ stopper[t] = "record" /\ stopper' = [stopper EXCEPT ![t] = "none"]
  BY DEF StopGoesOn, StopReturns, ReadRunning, CancelAndCall, StopTimesOut, RecordStopped
<1>. QED
  BY <1>2, <1>3, <1>4 DEF StopLeft

\* A step of reconcile takes one.
LEMMA ReconcileMoves ==
  ASSUME PluginInv, ReconcileStep
  PROVE  ReconcileLeft' < ReconcileLeft
<1>1. todo \subseteq Plugins /\ Cardinality(todo) \in Nat /\ OpLeft \in 0 .. 7
  BY OneLess, LeftIsBounded DEF PluginInv, TypeOK
<1>2. ASSUME todo' = todo, OpLeft' \in Int, OpLeft' < OpLeft
      PROVE  ReconcileLeft' < ReconcileLeft
  BY <1>1, <1>2 DEF ReconcileLeft
<1>3. ASSUME NEW p \in todo, todo' = todo \ {p}, pc = "ops", OpLeft' \in 0 .. 7
      PROVE  ReconcileLeft' < ReconcileLeft
  <2>1. Cardinality(todo') = Cardinality(todo) - 1
    BY <1>1, <1>3, OneLess
  <2>2. OpLeft = 1
    BY <1>3 DEF OpLeft
  <2>. QED
    BY <1>1, <1>3, <2>1, <2>2 DEF ReconcileLeft
<1>4. ASSUME NEW p \in Plugins, SkipEnable(p) \/ SkipUpdate(p)
      PROVE  ReconcileLeft' < ReconcileLeft
  <2>1. p \in todo /\ todo' = todo \ {p} /\ pc = "ops" /\ pc' = "ops"
    BY <1>4 DEF SkipEnable, SkipUpdate
  <2>2. OpLeft' = 1
    BY <2>1 DEF OpLeft
  <2>. QED
    BY <1>3, <2>1, <2>2
<1>5. ASSUME NEW p \in Plugins, Enable(p) \/ Update(p)
      PROVE  ReconcileLeft' < ReconcileLeft
  <2>1. p \in todo /\ todo' = todo \ {p} /\ pc = "ops" /\ pc' \in {"init", "reconfig"}
    BY <1>5 DEF Enable, Update
  <2>2. OpLeft' \in {5, 7}
    BY <2>1 DEF OpLeft
  <2>. QED
    BY <1>3, <2>1, <2>2
<1>6. ASSUME BeginStop("reload", at'), pc' = "stop"
      PROVE  OpLeft' = 6
  <2>1. stopper'["reload"] = "read"
    BY <1>6 DEF BeginStop, PluginInv, TypeOK, Threads
  <2>. QED
    BY <1>6, <2>1 DEF OpLeft, StopLeft
<1>7. ASSUME NEW p \in Plugins, Disable(p)
      PROVE  ReconcileLeft' < ReconcileLeft
  <2>1. p \in todo /\ todo' = todo \ {p} /\ pc = "ops" /\ pc' = "stop" /\ BeginStop("reload", at')
    BY <1>7 DEF Disable
  <2>. QED
    BY <1>3, <1>6, <2>1
<1>8. CASE ReconcileEnds
  <2>1. pc = "ops" /\ pc' = "idle" /\ todo' = todo
    BY <1>8 DEF ReconcileEnds
  <2>2. OpLeft = 1 /\ OpLeft' = 0
    BY <2>1 DEF OpLeft
  <2>. QED
    BY <1>2, <2>1, <2>2
<1>9. CASE InitReturns \/ ConfigReturns \/ StartReturns \/ StartTimesOut \/ RecordStarted
  <2>1. /\ todo' = todo
        /\ \/ pc = "init" /\ pc' \in {"config", "ops"}
           \/ pc = "config" /\ pc' \in {"start", "ops"}
           \/ pc = "start" /\ pc' \in {"record", "ops"}
           \/ pc = "record" /\ pc' = "ops"
    BY <1>9 DEF InitReturns, ConfigReturns, StartReturns, StartTimesOut, RecordStarted, GiveUp, Continue
  <2>2. OpLeft' \in Int /\ OpLeft' < OpLeft
    BY <2>1 DEF OpLeft
  <2>. QED
    BY <1>2, <2>1, <2>2
<1>10. CASE Disabled
  <2>1. pc = "stop" /\ pc' = "ops" /\ todo' = todo
    BY <1>10 DEF Disabled, Continue
  <2>2. StopLeft("reload") \in Nat
    BY LeftIsBounded DEF Threads
  <2>3. OpLeft = 2 + StopLeft("reload") /\ OpLeft' = 1
    BY <2>1 DEF OpLeft
  <2>. QED
    BY <1>2, <2>1, <2>2, <2>3
<1>11. CASE ReconfigReturns
  <2>1. /\ pc = "reconfig" /\ todo' = todo
        /\ pc' = "ops" \/ (pc' = "stop" /\ at' = at /\ BeginStop("reload", at))
    BY <1>11 DEF ReconfigReturns, Continue
  <2>2. OpLeft = 7 /\ (pc' = "ops" => OpLeft' = 1)
    BY <2>1 DEF OpLeft
  <2>. QED
    BY <1>2, <1>6, <2>1, <2>2
<1>12. CASE StopGoesOn("reload") \/ StopReturns("reload")
  <2>1. /\ stopper["reload"] # "none" /\ StopLeft("reload")' < StopLeft("reload")
        /\ pc' = pc /\ todo' = todo
    BY <1>12, StopOneMoves DEF Threads
  <2>2. pc = "stop"
    BY <2>1 DEF PluginInv, Places
  <2>3. StopLeft("reload") \in 0 .. 4 /\ StopLeft("reload")' \in Int
    BY LeftIsBounded DEF Threads, StopLeft
  <2>4. OpLeft = 2 + StopLeft("reload") /\ OpLeft' = 2 + StopLeft("reload")'
    BY <2>1, <2>2 DEF OpLeft
  <2>. QED
    BY <1>2, <2>1, <2>3, <2>4
<1>. QED
  BY <1>4, <1>5, <1>7, <1>8, <1>9, <1>10, <1>11, <1>12 DEF ReconcileStep, ReconcileGoesOn

\* A step of StopAll takes one.
LEMMA StopAllMoves ==
  ASSUME PluginInv, StopAllStep
  PROVE  StopAllLeft' < StopAllLeft
<1>1. stopTodo \subseteq Plugins /\ Cardinality(stopTodo) \in Nat /\ StopLeft("app") \in 0 .. 4
  BY OneLess, LeftIsBounded DEF PluginInv, TypeOK, Threads
<1>2. ASSUME NEW p \in Plugins, StopNext(p)
      PROVE  StopAllLeft' < StopAllLeft
  <2>1. /\ stopAll = "on" /\ stopAll' = "on" /\ p \in stopTodo /\ stopTodo' = stopTodo \ {p}
        /\ stopper["app"] = "none" /\ stopper' = [stopper EXCEPT !["app"] = "read"]
    BY <1>2 DEF StopNext, BeginStop
  <2>2. Cardinality(stopTodo') = Cardinality(stopTodo) - 1
    BY <1>1, <2>1, OneLess
  <2>3. stopper'["app"] = "read"
    BY <2>1 DEF PluginInv, TypeOK, Threads
  <2>4. StopLeft("app") = 0 /\ StopLeft("app")' = 4
    BY <2>1, <2>3 DEF StopLeft
  <2>. QED
    BY <1>1, <2>1, <2>2, <2>4 DEF StopAllLeft
<1>3. CASE StopAllEnds
  BY <1>1, <1>3 DEF StopAllEnds, StopAllLeft
<1>4. CASE StopGoesOn("app") \/ StopReturns("app")
  <2>1. /\ stopper["app"] # "none" /\ StopLeft("app")' < StopLeft("app")
        /\ stopAll' = stopAll /\ stopTodo' = stopTodo
    BY <1>4, StopOneMoves DEF Threads
  <2>2. stopAll = "on"
    BY <2>1 DEF PluginInv, Places
  <2>3. StopLeft("app")' \in Int
    BY DEF StopLeft
  <2>. QED
    BY <1>1, <2>1, <2>2, <2>3 DEF StopAllLeft
<1>. QED
  BY <1>2, <1>3, <1>4 DEF StopAllStep

\* App.Stop begins once.
StopsOnce == appDone <=> stopAll # "no"

\* Nothing but its beginning sets the one, and nothing takes the other back.
LEMMA NextStopsOnce == StopsOnce /\ [Next]_vars => StopsOnce'
<1> SUFFICES ASSUME StopsOnce, [Next]_vars PROVE StopsOnce'
  OBVIOUS
<1>1. CASE UNCHANGED <<appDone, stopAll>>
  BY <1>1 DEF StopsOnce
<1>2. CASE AppStop \/ StopAllEnds
  BY <1>2 DEF StopsOnce, AppStop, StopAllEnds
<1>3. CASE Reconcile \/ StartReturns \/ UNCHANGED vars
  BY <1>1, <1>3 DEF Reconcile, StartReturns, vars, allVars
<1>4. CASE ReconcileGoesOn
  BY <1>1, <1>4 DEF ReconcileGoesOn, ReconcileEnds, SkipEnable, Enable, Disable, SkipUpdate,
     Update, InitReturns, ConfigReturns, StartTimesOut, RecordStarted, Disabled, ReconfigReturns, allVars
<1>5. ASSUME NEW p \in Plugins, StopNext(p) \/ LateReturn(p)
      PROVE  StopsOnce'
  BY <1>1, <1>5 DEF StopNext, LateReturn, allVars
<1>6. ASSUME NEW t \in Threads, StopReturns(t) \/ StopGoesOn(t)
      PROVE  StopsOnce'
  BY <1>1, <1>6 DEF StopGoesOn, StopReturns, ReadRunning, CancelAndCall, StopTimesOut, RecordStopped,
     allVars
<1>. QED
  BY <1>2, <1>3, <1>4, <1>5, <1>6 DEF Next

\* What the other steps leave alone: those of StopAll what reconcile has left, those
\* of reconcile what StopAll has, and the rest both.
LEMMA EachForItself ==
  ASSUME PluginInv, StopsOnce, [Next]_vars
  PROVE  /\ pc # "idle" => ReconcileStep \/ ReconcileLeft' = ReconcileLeft
         /\ stopAll = "on" => StopAllStep \/ StopAllLeft' = StopAllLeft
<1>1. ASSUME UNCHANGED <<pc, todo>>, stopper'["reload"] = stopper["reload"]
      PROVE  ReconcileLeft' = ReconcileLeft
  BY <1>1 DEF ReconcileLeft, OpLeft, StopLeft
<1>2. ASSUME UNCHANGED <<stopAll, stopTodo>>, stopper'["app"] = stopper["app"]
      PROVE  StopAllLeft' = StopAllLeft
  BY <1>2 DEF StopAllLeft, StopLeft
<1>3. stopper \in [Threads -> {"none", "read", "cancel", "wait", "record"}]
  BY DEF PluginInv, TypeOK
<1>4. CASE Reconcile
  <2>1. pc = "idle" /\ UNCHANGED <<stopAll, stopTodo, stopper>>
    BY <1>4 DEF Reconcile, allVars, stopVars
  <2>. QED
    BY <1>2, <2>1
<1>5. CASE StartReturns \/ ReconcileGoesOn
  <2>1. ASSUME NEW p, BeginStop("reload", p) PROVE stopper'["app"] = stopper["app"]
    BY <1>3, <2>1 DEF BeginStop, Threads
  <2>2. UNCHANGED allVars /\ (UNCHANGED stopVars \/ \E p : BeginStop("reload", p))
    BY <1>5 DEF StartReturns, ReconcileGoesOn, ReconcileEnds, SkipEnable, Enable, Disable, SkipUpdate,
       Update, InitReturns, ConfigReturns, StartTimesOut, RecordStarted, Disabled, ReconfigReturns
  <2>3. StopAllLeft' = StopAllLeft
    BY <1>2, <2>1, <2>2 DEF allVars, stopVars
  <2>. QED
    BY <1>5, <2>3 DEF ReconcileStep
<1>6. CASE AppStop
  <2>1. UNCHANGED <<pc, todo, stopper>> /\ (stopAll = "on" => UNCHANGED <<stopAll, stopTodo>>)
    BY <1>6 DEF StopsOnce, AppStop, reconVars, stopVars
  <2>. QED
    BY <1>1, <1>2, <2>1
<1>7. CASE StopAllEnds \/ \E p \in Plugins : StopNext(p)
  <2>1. UNCHANGED <<pc, todo>> /\ (UNCHANGED stopVars \/ \E p : BeginStop("app", p))
    BY <1>7 DEF StopAllEnds, StopNext, reconVars
  <2>2. stopper'["reload"] = stopper["reload"]
    BY <1>3, <2>1 DEF BeginStop, stopVars, Threads
  <2>. QED
    BY <1>1, <1>7, <2>1, <2>2 DEF StopAllStep
<1>8. CASE (\E p \in Plugins : LateReturn(p)) \/ UNCHANGED vars
  <2>1. UNCHANGED <<pc, todo, stopAll, stopTodo, stopper>>
    BY <1>8 DEF LateReturn, vars, reconVars, allVars, stopVars
  <2>. QED
    BY <1>1, <1>2, <2>1
<1>9. ASSUME NEW t \in Threads, StopReturns(t) \/ StopGoesOn(t)
      PROVE  /\ ReconcileStep \/ ReconcileLeft' = ReconcileLeft
             /\ StopAllStep \/ StopAllLeft' = StopAllLeft
  <2>1. /\ UNCHANGED <<pc, todo, stopAll, stopTodo>>
        /\ \A s \in Threads : s # t => stopper'[s] = stopper[s]
    BY <1>9, StopOneMoves
  <2>2. CASE t = "reload"
    BY <1>2, <1>9, <2>1, <2>2 DEF ReconcileStep, Threads
  <2>3. CASE t = "app"
    BY <1>1, <1>9, <2>1, <2>3 DEF StopAllStep, Threads
  <2>. QED
    BY <2>2, <2>3 DEF Threads
<1>. QED
  BY <1>4, <1>5, <1>6, <1>7, <1>8, <1>9 DEF Next

\* A reconcile of N plugins is over after 7 N + 1 of its steps at most, and a StopAll
\* after 5 N + 5, whatever each of them and the plugins do to the other: a step of
\* either takes one of those it has left, and nobody gives it any. That the steps
\* are taken, Init and OnConfigChange among them, is the fairness the code trusts
\* in; Start and Stop may hang (plugins.go:282-437, 216-244; app.go:418).
THEOREM ManagerIsBounded ==
  Spec => /\ [](pc # "idle" => ReconcileLeft \in 1 .. 7 * Cardinality(Plugins) + 1)
          /\ [](stopAll = "on" => StopAllLeft \in 1 .. 5 * Cardinality(Plugins) + 5)
          /\ [][/\ pc # "idle" => /\ ReconcileLeft' <= ReconcileLeft
                                  /\ ReconcileStep => ReconcileLeft' < ReconcileLeft
                /\ stopAll = "on" => /\ StopAllLeft' <= StopAllLeft
                                     /\ StopAllStep => StopAllLeft' < StopAllLeft]_vars
<1>1. PluginInv => /\ pc # "idle" => ReconcileLeft \in 1 .. 7 * Cardinality(Plugins) + 1
                   /\ stopAll = "on" => StopAllLeft \in 1 .. 5 * Cardinality(Plugins) + 5
  BY LeftIsBounded
<1>2. PluginInv /\ PluginInv' /\ StopsOnce /\ [Next]_vars =>
        /\ pc # "idle" => /\ ReconcileLeft' <= ReconcileLeft
                          /\ ReconcileStep => ReconcileLeft' < ReconcileLeft
        /\ stopAll = "on" => /\ StopAllLeft' <= StopAllLeft
                             /\ StopAllStep => StopAllLeft' < StopAllLeft
  <2> SUFFICES ASSUME PluginInv, PluginInv', StopsOnce, [Next]_vars
               PROVE  /\ pc # "idle" => /\ ReconcileLeft' <= ReconcileLeft
                                        /\ ReconcileStep => ReconcileLeft' < ReconcileLeft
                      /\ stopAll = "on" => /\ StopAllLeft' <= StopAllLeft
                                           /\ StopAllStep => StopAllLeft' < StopAllLeft
    OBVIOUS
  <2>1. ReconcileLeft' \in Int /\ StopAllLeft' \in Int
    BY LeftStaysBounded
  <2>2. /\ pc # "idle" => ReconcileLeft \in Int
        /\ stopAll = "on" => StopAllLeft \in Int
    BY LeftIsBounded
  <2>. QED
    BY <2>1, <2>2, ReconcileMoves, StopAllMoves, EachForItself
<1>3. Init => StopsOnce
  BY DEF Init, StopsOnce
<1>. QED
  BY <1>1, <1>2, <1>3, NextStopsOnce, PluginInvariant, PTL DEF Spec

=============================================================================
