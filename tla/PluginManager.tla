--------------------------- MODULE PluginManager ---------------------------
(***************************************************************************)
(* The plugin manager (internal/core/plugins.go): the reload loop          *)
(* reconciles the plugins with each new configuration while App.Stop stops *)
(* them all from another goroutine.  pm.mu is not held across a plugin's   *)
(* Init, OnConfigChange, Start and Stop; every action below is a critical  *)
(* section, or such a call with its outcome.  The registry's refresh asks  *)
(* plugins for Commands and Callbacks with pm.mu held: they are trusted to *)
(* return, and their panics are recovered.                                 *)
(*                                                                         *)
(* Calls may fail; Start and Stop may outlast the time the manager gives   *)
(* them and return later, or never.  Init and OnConfigChange are trusted   *)
(* by the code to honour their context.                                    *)
(***************************************************************************)
EXTENDS Naturals, FiniteSets

CONSTANTS
  Plugins,      \* names of the registered plugins
  Configurable, \* those with OnConfigChange
  Hashes,       \* hashes of the plugins' configurations
  BadTimeouts,  \* those that validateStandardTimeouts refuses
  Off,          \* configuration of a plugin that is not enabled
  None,         \* no plugin
  MaxUpdates    \* bound: number of reconciles

ASSUME PluginAssumption ==
  /\ BadTimeouts \subseteq Hashes
  /\ IsFiniteSet(Plugins) /\ Configurable \subseteq Plugins
  /\ Off \notin Hashes /\ None \notin Plugins
  /\ MaxUpdates \in Nat

VARIABLES
  run,        \* pm.run: the plugins recorded as running
  pctx,       \* pctx[p]: the context recorded for p, 0 when there is none
  lastHash,   \* lastHash[p]: pm.lastRawHash[p], Off when there is none
  quarantine, \* quarantine[p]: the hash p is quarantined with, Off when it is not
  registry,   \* the plugins whose commands are registered
  ctxs,       \* number of plugin contexts made so far
  cancelled,  \* contexts whose own cancel function was called
  conf,       \* the configuration: conf[p] is a hash or Off
  updates,    \* number of reconciles so far
  pc,         \* where reconcile is
  todo,       \* the ops it has not looked at
  wasRunning, \* its snapshot of run
  touched,    \* the configuration changed outside the plugins (globalChanged)
  at,         \* the plugin of the op under way
  ctx,        \* the context made for it, 0 when there is none
  stopAll,    \* App.Stop's call of StopAll: "no", "on" or "over"
  stopTodo,   \* the plugins it has yet to stop
  stopper,    \* stopper[t]: where the stopOne called by t is
  target,     \* target[t]: the plugin it stops
  stopCtx,    \* stopCtx[t]: the plugin's context as stopOne read it
  up,         \* the plugins that are up: Start has succeeded, Stop not returned
  lateStarts, \* plugins with a Start that outlasted its time and may yet return
  lateStops,  \* plugins with such a Stop
  slow,       \* plugins that ever had such a call (history)
  appDone     \* the application's context is cancelled

mgrVars == <<run, pctx, lastHash, quarantine>>
reconVars == <<pc, todo, wasRunning, touched, at, ctx>>
allVars == <<stopAll, stopTodo>>
stopVars == <<stopper, target, stopCtx>>
lateVars == <<lateStarts, lateStops, slow>>
vars == <<mgrVars, registry, ctxs, cancelled, conf, updates, reconVars, allVars, stopVars,
          up, lateVars, appDone>>

Threads == {"reload", "app"}
PC == {"idle", "ops", "init", "config", "start", "record", "reconfig", "stop"}

TypeOK ==
  /\ run \subseteq Plugins
  /\ pctx \in [Plugins -> 0 .. ctxs]
  /\ lastHash \in [Plugins -> Hashes \cup {Off}]
  /\ quarantine \in [Plugins -> Hashes \cup {Off}]
  /\ registry \subseteq Plugins
  /\ ctxs \in Nat /\ cancelled \subseteq 1 .. ctxs
  /\ conf \in [Plugins -> Hashes \cup {Off}]
  /\ updates \in 0 .. MaxUpdates
  /\ pc \in PC /\ todo \subseteq Plugins /\ wasRunning \subseteq Plugins /\ touched \in BOOLEAN
  /\ at \in Plugins \cup {None} /\ ctx \in 0 .. ctxs
  /\ stopAll \in {"no", "on", "over"} /\ stopTodo \subseteq Plugins
  /\ stopper \in [Threads -> {"none", "read", "cancel", "wait", "record"}]
  /\ target \in [Threads -> Plugins \cup {None}] /\ stopCtx \in [Threads -> 0 .. ctxs]
  /\ up \subseteq Plugins
  /\ lateStarts \subseteq Plugins /\ lateStops \subseteq Plugins /\ slow \subseteq Plugins
  /\ appDone \in BOOLEAN

\* Nothing runs; the first reconcile is StartAll's, with the initial configuration.
Init ==
  /\ run = {} /\ pctx = [p \in Plugins |-> 0]
  /\ lastHash = [p \in Plugins |-> Off] /\ quarantine = [p \in Plugins |-> Off]
  /\ registry = {} /\ ctxs = 0 /\ cancelled = {}
  /\ conf = [p \in Plugins |-> Off] /\ updates = 0
  /\ pc = "idle" /\ todo = {} /\ wasRunning = {} /\ touched = FALSE /\ at = None /\ ctx = 0
  /\ stopAll = "no" /\ stopTodo = {}
  /\ stopper = [t \in Threads |-> "none"] /\ target = [t \in Threads |-> None]
  /\ stopCtx = [t \in Threads |-> 0]
  /\ up = {} /\ lateStarts = {} /\ lateStops = {} /\ slow = {}
  /\ appDone = FALSE

---------------------------------------------------------------------------
(* stopOne, called by thread t for plugin p                                *)

BeginStop(t, p) ==
  /\ stopper[t] = "none"
  /\ stopper' = [stopper EXCEPT ![t] = "read"]
  /\ target' = [target EXCEPT ![t] = p]
  /\ UNCHANGED stopCtx

\* A plugin that is not recorded as running is not stopped.
ReadRunning(t) ==
  /\ stopper[t] = "read"
  /\ stopper' = [stopper EXCEPT ![t] = IF target[t] \in run THEN "cancel" ELSE "none"]
  /\ stopCtx' = [stopCtx EXCEPT ![t] = IF target[t] \in run THEN pctx[target[t]] ELSE 0]
  /\ UNCHANGED <<mgrVars, registry, ctxs, cancelled, conf, updates, reconVars, allVars,
                 target, up, lateVars, appDone>>

\* The plugin's context is cancelled and its Stop called in a goroutine.
CancelAndCall(t) ==
  /\ stopper[t] = "cancel"
  /\ stopper' = [stopper EXCEPT ![t] = "wait"]
  /\ cancelled' = cancelled \cup ({stopCtx[t]} \ {0})
  /\ UNCHANGED <<mgrVars, registry, ctxs, conf, updates, reconVars, allVars, target, stopCtx,
                 up, lateVars, appDone>>

\* Stop returns in time.
StopReturns(t) ==
  /\ stopper[t] = "wait"
  /\ stopper' = [stopper EXCEPT ![t] = "record"]
  /\ up' = up \ {target[t]}
  /\ UNCHANGED <<mgrVars, registry, ctxs, cancelled, conf, updates, reconVars, allVars,
                 target, stopCtx, lateVars, appDone>>

\* Mutant: the wait for Stop has no other case.
StopTimesOut_Never(t) == FALSE /\ UNCHANGED vars

\* The context given to stopOne is done first; Stop goes on by itself.
StopTimesOut(t) ==
  /\ stopper[t] = "wait"
  /\ lateStops' = lateStops \cup {target[t]} /\ slow' = slow \cup {target[t]}
  /\ stopper' = [stopper EXCEPT ![t] = "record"]
  /\ UNCHANGED <<mgrVars, registry, ctxs, cancelled, conf, updates, reconVars, allVars,
                 target, stopCtx, up, lateStarts, appDone>>

\* Mutant: the plugin stays recorded as running.
RecordStopped_KeepsRun(t) ==
  /\ stopper[t] = "record"
  /\ stopper' = [stopper EXCEPT ![t] = "none"]
  /\ stopCtx' = [stopCtx EXCEPT ![t] = 0]
  /\ pctx' = [pctx EXCEPT ![target[t]] = 0]
  /\ lastHash' = [lastHash EXCEPT ![target[t]] = Off]
  /\ UNCHANGED <<run, quarantine, registry, ctxs, cancelled, conf, updates, reconVars, allVars,
                 target, up, lateVars, appDone>>

RecordStopped(t) ==
  /\ stopper[t] = "record"
  /\ stopper' = [stopper EXCEPT ![t] = "none"]
  /\ stopCtx' = [stopCtx EXCEPT ![t] = 0]
  /\ run' = run \ {target[t]}
  /\ pctx' = [pctx EXCEPT ![target[t]] = 0]
  /\ lastHash' = [lastHash EXCEPT ![target[t]] = Off]
  /\ UNCHANGED <<quarantine, registry, ctxs, cancelled, conf, updates, reconVars, allVars,
                 target, up, lateVars, appDone>>

\* What stopOne does by itself, however the plugin's Stop behaves.
StopGoesOn(t) ==
  ReadRunning(t) \/ CancelAndCall(t) \/ StopTimesOut(t) \/ RecordStopped(t)

---------------------------------------------------------------------------
(* reconcile                                                               *)

\* The reload loop, or StartAll, calls reconcile with a configuration; the
\* snapshot of the ops is taken.
Reconcile ==
  /\ pc = "idle"
  /\ updates < MaxUpdates
  /\ updates' = updates + 1
  /\ conf' \in [Plugins -> Hashes \cup {Off}]
  /\ touched' \in BOOLEAN
  /\ todo' = Plugins /\ wasRunning' = run
  /\ pc' = "ops"
  /\ UNCHANGED <<mgrVars, registry, ctxs, cancelled, at, ctx, allVars, stopVars, up, lateVars,
                 appDone>>

\* The op of plugin p is over: the next one is looked at.
Continue == pc' = "ops" /\ at' = None /\ ctx' = 0

\* Enabling is refused: quarantined with this very configuration, or with
\* timeouts out of bounds, which quarantines.
SkipEnable(p) ==
  /\ pc = "ops" /\ p \in todo
  /\ conf[p] # Off /\ p \notin wasRunning
  /\ quarantine[p] = conf[p] \/ conf[p] \in BadTimeouts
  /\ quarantine' = [quarantine EXCEPT ![p] = conf[p]]
  /\ todo' = todo \ {p}
  /\ UNCHANGED <<run, pctx, lastHash, registry, ctxs, cancelled, conf, updates, pc, wasRunning,
                 touched, at, ctx, allVars, stopVars, up, lateVars, appDone>>

\* A context is made for the plugin; a quarantine for another configuration is
\* lifted.
Enable(p) ==
  /\ pc = "ops" /\ p \in todo
  /\ conf[p] # Off /\ p \notin wasRunning
  /\ quarantine[p] # conf[p] /\ conf[p] \notin BadTimeouts
  /\ quarantine' = [quarantine EXCEPT ![p] = Off]
  /\ ctxs' = ctxs + 1 /\ ctx' = ctxs + 1
  /\ pc' = "init" /\ at' = p /\ todo' = todo \ {p}
  /\ UNCHANGED <<run, pctx, lastHash, registry, cancelled, conf, updates, wasRunning, touched,
                 allVars, stopVars, up, lateVars, appDone>>

\* Mutant: the context of a plugin that does not come up is not cancelled.
GiveUp_NoCancel ==
  /\ Continue
  /\ UNCHANGED cancelled

\* The plugin does not come up: its context is cancelled.
GiveUp ==
  /\ Continue
  /\ cancelled' = cancelled \cup {ctx}

InitReturns ==
  /\ pc = "init"
  /\ \/ pc' = "config" /\ UNCHANGED <<at, ctx, cancelled>>
     \/ GiveUp
  /\ UNCHANGED <<mgrVars, registry, ctxs, conf, updates, todo, wasRunning, touched, allVars,
                 stopVars, up, lateVars, appDone>>

\* ValidateConfig and OnConfigChange before Start: a refusal quarantines.
ConfigReturns ==
  /\ pc = "config"
  /\ \/ pc' = "start" /\ UNCHANGED <<at, ctx, cancelled, quarantine>>
     \/ /\ at \in Configurable
        /\ quarantine' = [quarantine EXCEPT ![at] = conf[at]]
        /\ GiveUp
  /\ UNCHANGED <<run, pctx, lastHash, registry, ctxs, conf, updates, todo, wasRunning, touched,
                 allVars, stopVars, up, lateVars, appDone>>

\* startWithTimeout: Start returns in time, with or without success.
StartReturns ==
  /\ pc = "start"
  /\ \/ up' = up \cup {at} /\ pc' = "record" /\ UNCHANGED <<at, ctx, cancelled>>
     \/ up' = up /\ GiveUp
  /\ UNCHANGED <<mgrVars, registry, ctxs, conf, updates, todo, wasRunning, touched, allVars,
                 stopVars, lateVars, appDone>>

\* Start outlasts its time: the context is cancelled, and whether Start returns
\* in the grace that follows, with success or without, or goes on by itself,
\* the plugin counts as not started.
StartTimesOut ==
  /\ pc = "start"
  /\ slow' = slow \cup {at}
  /\ GiveUp
  /\ \/ up' \in {up, up \cup {at}} /\ UNCHANGED lateStarts
     \/ up' = up /\ lateStarts' = lateStarts \cup {at}
  /\ UNCHANGED <<mgrVars, registry, ctxs, conf, updates, todo, wasRunning, touched, allVars,
                 stopVars, lateStops, appDone>>

RecordStarted ==
  /\ pc = "record"
  /\ run' = run \cup {at}
  /\ pctx' = [pctx EXCEPT ![at] = ctx]
  /\ lastHash' = [lastHash EXCEPT ![at] = conf[at]]
  /\ quarantine' = [quarantine EXCEPT ![at] = Off]
  /\ Continue
  /\ UNCHANGED <<registry, ctxs, cancelled, conf, updates, todo, wasRunning, touched, allVars,
                 stopVars, up, lateVars, appDone>>

\* Disabling, and the quarantine of a running plugin whose new configuration
\* has timeouts out of bounds.
Disable(p) ==
  /\ pc = "ops" /\ p \in todo
  /\ p \in wasRunning
  /\ \/ conf[p] = Off /\ UNCHANGED quarantine
     \/ /\ p \in Configurable /\ conf[p] \in BadTimeouts /\ conf[p] # lastHash[p]
        /\ quarantine' = [quarantine EXCEPT ![p] = conf[p]]
  /\ BeginStop("reload", p)
  /\ pc' = "stop" /\ at' = p /\ todo' = todo \ {p}
  /\ UNCHANGED <<run, pctx, lastHash, registry, ctxs, cancelled, conf, updates, wasRunning,
                 touched, ctx, allVars, up, lateVars, appDone>>

Disabled ==
  /\ pc = "stop" /\ stopper["reload"] = "none"
  /\ Continue
  /\ UNCHANGED <<mgrVars, registry, ctxs, cancelled, conf, updates, todo, wasRunning, touched,
                 allVars, stopVars, up, lateVars, appDone>>

\* Mutant: only a change outside the plugins counts as a change.
SkipUpdate_Untouched(p) ==
  /\ pc = "ops" /\ p \in todo
  /\ \/ conf[p] = Off /\ p \notin wasRunning
     \/ /\ conf[p] # Off /\ p \in wasRunning
        /\ p \in Configurable => ~touched
  /\ todo' = todo \ {p}
  /\ UNCHANGED <<mgrVars, registry, ctxs, cancelled, conf, updates, pc, wasRunning, touched, at,
                 ctx, allVars, stopVars, up, lateVars, appDone>>

\* The plugin is off and stays off, or neither its configuration nor the global
\* one has changed, or it does not take configurations.
SkipUpdate(p) ==
  /\ pc = "ops" /\ p \in todo
  /\ \/ conf[p] = Off /\ p \notin wasRunning
     \/ /\ conf[p] # Off /\ p \in wasRunning
        /\ p \in Configurable => conf[p] = lastHash[p] /\ ~touched
  /\ todo' = todo \ {p}
  /\ UNCHANGED <<mgrVars, registry, ctxs, cancelled, conf, updates, pc, wasRunning, touched, at,
                 ctx, allVars, stopVars, up, lateVars, appDone>>

Update(p) ==
  /\ pc = "ops" /\ p \in todo
  /\ conf[p] # Off /\ p \in wasRunning /\ p \in Configurable
  /\ conf[p] # lastHash[p] \/ touched
  /\ conf[p] = lastHash[p] \/ conf[p] \notin BadTimeouts
  /\ pc' = "reconfig" /\ at' = p /\ todo' = todo \ {p}
  /\ UNCHANGED <<mgrVars, registry, ctxs, cancelled, conf, updates, wasRunning, touched, ctx,
                 allVars, stopVars, up, lateVars, appDone>>

\* OnConfigChange of a running plugin: a refusal quarantines and stops it.
ReconfigReturns ==
  /\ pc = "reconfig"
  /\ \/ /\ lastHash' = [lastHash EXCEPT ![at] = conf[at]]
        /\ quarantine' = [quarantine EXCEPT ![at] = Off]
        /\ Continue
        /\ UNCHANGED stopVars
     \/ /\ quarantine' = [quarantine EXCEPT ![at] = conf[at]]
        /\ BeginStop("reload", at)
        /\ pc' = "stop" /\ UNCHANGED <<at, ctx, lastHash>>
  /\ UNCHANGED <<run, pctx, registry, ctxs, cancelled, conf, updates, todo, wasRunning, touched,
                 allVars, up, lateVars, appDone>>

\* refreshRegistryLocked: the commands of the plugins that run and are enabled.
Enabled == {p \in Plugins : conf[p] # Off}

ReconcileEnds ==
  /\ pc = "ops" /\ todo = {}
  /\ pc' = "idle" /\ wasRunning' = {} /\ touched' = FALSE
  /\ registry' = run \cap Enabled
  /\ UNCHANGED <<mgrVars, ctxs, cancelled, conf, updates, todo, at, ctx, allVars, stopVars, up,
                 lateVars, appDone>>

\* What reconcile does by itself once it is called, however Start behaves.
ReconcileGoesOn ==
  \/ ReconcileEnds
  \/ \E p \in Plugins : SkipEnable(p) \/ Enable(p) \/ Disable(p) \/ SkipUpdate(p) \/ Update(p)
  \/ InitReturns \/ ConfigReturns \/ StartTimesOut \/ RecordStarted
  \/ Disabled \/ ReconfigReturns

---------------------------------------------------------------------------
(* App.Stop, StopAll, and calls that return late                           *)

\* App.Stop cancels the application's context, of which the base context of
\* all plugins' is a child, and calls StopAll.
AppStop ==
  /\ ~appDone
  /\ appDone' = TRUE
  /\ stopAll' = "on" /\ stopTodo' = Plugins
  /\ UNCHANGED <<mgrVars, registry, ctxs, cancelled, conf, updates, reconVars, stopVars, up,
                 lateVars>>

StopNext(p) ==
  /\ stopAll = "on" /\ p \in stopTodo
  /\ BeginStop("app", p)
  /\ stopTodo' = stopTodo \ {p}
  /\ UNCHANGED <<mgrVars, registry, ctxs, cancelled, conf, updates, reconVars, stopAll, up,
                 lateVars, appDone>>

\* Mutant: the commands stay registered.
StopAllEnds_NoRefresh ==
  /\ stopAll = "on" /\ stopTodo = {} /\ stopper["app"] = "none"
  /\ stopAll' = "over"
  /\ UNCHANGED <<mgrVars, registry, ctxs, cancelled, conf, updates, reconVars, stopTodo, stopVars,
                 up, lateVars, appDone>>

\* The committed configuration may be newer than the one last reconciled with.
StopAllEnds ==
  /\ stopAll = "on" /\ stopTodo = {} /\ stopper["app"] = "none"
  /\ stopAll' = "over"
  /\ registry' \in SUBSET run
  /\ UNCHANGED <<mgrVars, ctxs, cancelled, conf, updates, reconVars, stopTodo, stopVars, up,
                 lateVars, appDone>>

\* A Start or a Stop that outlasted its time returns; p may have another one.
LateReturn(p) ==
  /\ \/ /\ p \in lateStarts
        /\ lateStarts' \in {lateStarts, lateStarts \ {p}}
        /\ up' \in {up, up \cup {p}}
        /\ UNCHANGED lateStops
     \/ /\ p \in lateStops
        /\ lateStops' \in {lateStops, lateStops \ {p}}
        /\ up' = up \ {p}
        /\ UNCHANGED lateStarts
  /\ UNCHANGED <<mgrVars, registry, ctxs, cancelled, conf, updates, reconVars, allVars, stopVars,
                 slow, appDone>>

Next ==
  \/ Reconcile \/ StartReturns \/ ReconcileGoesOn
  \/ AppStop \/ StopAllEnds
  \/ \E p \in Plugins : StopNext(p) \/ LateReturn(p)
  \/ \E t \in Threads : StopReturns(t) \/ StopGoesOn(t)

Spec == Init /\ [][Next]_vars

\* The manager's goroutines get on, its timers fire, and Init and OnConfigChange
\* return; Start and Stop of a plugin may hang.  Nobody has to stop the program.
FairSpec ==
  /\ Spec
  /\ WF_vars(ReconcileGoesOn)
  /\ \A t \in Threads : WF_vars(StopGoesOn(t))
  /\ WF_vars(\E p \in Plugins : StopNext(p)) /\ WF_vars(StopAllEnds)

---------------------------------------------------------------------------
(* Properties                                                              *)

\* While the application runs, a plugin context that is not cancelled is the
\* record of a running plugin or the one in the making: no way out of reconcile
\* or stopOne leaks one (plugins.go:325-372, 246-268).
ContextOwned ==
  stopAll = "no" =>
    \A i \in (1 .. ctxs) \ cancelled : i = ctx \/ \E p \in run : pctx[p] = i

\* While the application runs, and but for plugins whose Start or Stop has ever
\* outlasted its time, the record tells what is the case: p is recorded as
\* running iff it is up, unless reconcile is busy with it (plugins.go:264-269,
\* 362-375).
RecordAgrees ==
  /\ TypeOK
  /\ stopAll = "no" => \A p \in Plugins \ (slow \cup {at}) : p \in run <=> p \in up

\* Between reconciles a plugin that runs is enabled, not quarantined and, if it
\* takes configurations, has been given that of the last reload, whatever
\* App.Stop does (plugins.go:63-65, "intentionally kept disabled due to invalid
\* config", and 379-427).
RunsWanted ==
  pc = "idle" =>
    \A p \in run :
      /\ conf[p] # Off /\ quarantine[p] = Off
      /\ p \in Configurable => lastHash[p] = conf[p]

\* When neither reconcile nor StopAll is under way the commands registered are
\* those of the plugins that run, or of some of them once StopAll is over
\* (plugins.go:212-214, 435-437).
RegistryIsRunning ==
  pc = "idle" /\ stopAll # "on" =>
    registry \subseteq run /\ (stopAll = "no" => registry = run)

\* StopAll completes though plugins hang in Stop and reconcile in Start, and
\* reconcile though they hang in either (app.go:418, "StopAll is timeout-safe
\* per-plugin"; plugins.go:362, "we enforce timeout externally").
ManagerCompletes ==
  /\ stopAll = "on" ~> stopAll = "over"
  /\ pc # "idle" ~> pc = "idle"

=============================================================================
