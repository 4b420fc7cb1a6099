--------------------------- MODULE SystemdPlugin ---------------------------
(***************************************************************************)
(* The systemd plugin and its auto-recovery (plugins/systemd/plugin.go,    *)
(* auto_recover.go), with the schedule helper that it uses                 *)
(* (internal/pluginkit/schedule.go) and the plugin manager's calls.        *)
(*                                                                         *)
(* Three goroutines call into the plugin: the reload loop calls            *)
(* OnConfigChange, and the manager calls Start and Stop in goroutines of   *)
(* their own, which it abandons when they take too long.  Beside them the  *)
(* scheduler's workers run ticks, which Stop does not wait for: a tick     *)
(* keeps the systemd manager and the state it has started with.            *)
(*                                                                         *)
(* There is one unit, on every allow list; a tick takes each further unit  *)
(* as it takes this one.  Of its record only Missing is kept: streaks,     *)
(* alerts and NextTry decide when a restart is due, which here is a        *)
(* choice.  Sections under autoMu are one step each; a panic in one leaves *)
(* it locked.                                                              *)
(*                                                                         *)
(* Of the scheduler there are the definitions that bear the plugin's       *)
(* names.  It removes by the trimmed name and keeps the names as given     *)
(* (internal/services/scheduler/api.go), so that one that ends in a space  *)
(* is never removed; and it keeps a definition whose cron string does not  *)
(* parse, which never fires.                                               *)
(***************************************************************************)
EXTENDS Naturals, FiniteSetsExt

CONSTANTS
  Ticks,  \* the workers that run ticks
  Lists,  \* the allow lists
  NoList, \* the empty one
  TaskNames,   \* what task_name may be
  Tasks,  \* the schedules: a name, and whether the cron string parses
  Trim,   \* Trim[n]: such a name without the space at its end
  NoTask, \* no schedule, no name
  MaxConfigs, \* bound: the configurations that the plugin manager hands over
  MaxLate     \* bound: the calls that it abandons

ASSUME SystemdAssumption ==
  /\ IsFiniteSet(Ticks)
  /\ Trim \in [TaskNames -> TaskNames] /\ Tasks \subseteq [name : TaskNames, parses : BOOLEAN]
  /\ NoTask \notin TaskNames \cup Tasks
  /\ NoList \notin Lists /\ MaxConfigs \in Nat /\ MaxLate \in Nat

VARIABLES
  pm,         \* what the plugin manager is doing with the plugin
  late,       \* the calls that it has abandoned (history)
  handed,     \* the configurations that it has handed over
  appStopped, \* App.Stop has called Stop
  call,       \* call[t]: where the call of thread t is
  startCfg,   \* the configuration that Start works with
  snap,       \* snap[t]: the manager it has taken or is to close, 0 for none
  panicked,   \* the threads whose last call has panicked
  cfg,        \* p.cfg
  hasCtx,     \* p.Context() is not nil
  mgr,        \* p.mgr, 0 for nil
  mgrList,    \* the list of p.mgr
  openMgrs,   \* the managers that are connected
  stuck,      \* autoMu is locked for good
  missing,    \* the unit's record in recoverState says that it is missing
  warn,       \* missingWarn: "nil", or what it says of the unit
  autoTask,   \* p.autoTask
  tracked,    \* the names that the helper tracks
  removing,   \* those that cleanup has taken out, to be removed
  defs,       \* the definitions of the plugin that the scheduler has
  tick,       \* tick[w]: where the tick of worker w is
  own,        \* own[w]: the definition of which it is a run, or 0
  tickMgr,    \* tickMgr[w]: its manager
  linked,     \* linked[w]: its record of the unit is the one in recoverState
  warned      \* warned[w]: what it has read in missingWarn

pmVars == <<pm, late, handed, appStopped, cfg>>
callVars == <<call, startCfg, snap, panicked>>
mgrVars == <<mgr, mgrList, openMgrs>>
autoVars == <<stuck, missing, warn, autoTask>>
taskVars == <<tracked, removing, defs>>
tickVars == <<tick, own, tickMgr, linked, warned>>
systemdVars == <<pmVars, callVars, hasCtx, mgrVars, autoVars, taskVars, tickVars>>

Threads == {"config", "start", "stop"}
Configs == [list : Lists \cup {NoList}, task : Tasks \cup {NoTask}]
Ids == Nat \ {0} \* the managers and the definitions that are ever made
Definitions == [id : Ids, name : TaskNames, mgr : Ids \cup {0}, fires : BOOLEAN]

SystemdTypeOK ==
  /\ pm \in {"off", "config", "start", "running", "reconfig", "stop"}
  /\ late \in 0 .. MaxLate /\ handed \in 0 .. MaxConfigs /\ appStopped \in BOOLEAN
  /\ call \in [Threads -> {"idle", "base", "ensure", "close", "new", "remove", "reset", "maps",
                           "validate", "do", "track", "task", "clear", "unregister", "drop"}]
  /\ startCfg \in Configs /\ snap \in [Threads -> Ids \cup {0}] /\ panicked \subseteq Threads
  /\ cfg \in Configs /\ hasCtx \in BOOLEAN
  /\ mgr \in Ids \cup {0} /\ mgrList \in Lists \cup {NoList} /\ openMgrs \subseteq Ids
  /\ stuck \in BOOLEAN /\ missing \in BOOLEAN /\ warn \in {"nil", "no", "yes"}
  /\ autoTask \in TaskNames \cup {NoTask} /\ tracked \subseteq TaskNames
  /\ removing \subseteq TaskNames /\ defs \subseteq Definitions
  /\ tick \in [Ticks -> {"idle", "unit", "status", "missing", "restart", "record"}]
  /\ own \in [Ticks -> Ids \cup {0}] /\ tickMgr \in [Ticks -> Ids \cup {0}]
  /\ linked \in [Ticks -> BOOLEAN] /\ warned \in [Ticks -> BOOLEAN]

NoConfig == [list |-> NoList, task |-> NoTask]

SystemdInit ==
  /\ pm = "off" /\ late = 0 /\ handed = 0 /\ appStopped = FALSE /\ cfg = NoConfig
  /\ call = [t \in Threads |-> "idle"] /\ startCfg = NoConfig
  /\ snap = [t \in Threads |-> 0] /\ panicked = {}
  /\ hasCtx = FALSE /\ mgr = 0 /\ mgrList = NoList /\ openMgrs = {}
  /\ stuck = FALSE /\ missing = FALSE /\ warn = "nil" /\ autoTask = NoTask
  /\ tracked = {} /\ removing = {} /\ defs = {}
  /\ tick = [w \in Ticks |-> "idle"] /\ own = [w \in Ticks |-> 0]
  /\ tickMgr = [w \in Ticks |-> 0] /\ linked = [w \in Ticks |-> FALSE]
  /\ warned = [w \in Ticks |-> FALSE]

CallAt(t, where) == call' = [call EXCEPT ![t] = where]

\* The configuration that t works with.
Arg(t) == IF t = "start" THEN startCfg ELSE cfg

---------------------------------------------------------------------------
(* ensureManager and closeManager                                          *)

\* OnConfigChange goes on to the schedule when there is a context, which there
\* is once the plugin has ever been started; Start always does.
AfterEnsure(t) == IF t = "config" /\ ~hasCtx THEN "idle" ELSE "remove"

\* No list, no manager; the same list, the same manager; else the old one is
\* taken out, to be closed, and a new one made.
EnsureManager(t) ==
  /\ call[t] = "ensure"
  /\ IF mgr # 0 /\ mgrList # Arg(t).list
       THEN /\ CallAt(t, "close")
            /\ mgr' = 0 /\ mgrList' = NoList /\ snap' = [snap EXCEPT ![t] = mgr]
       ELSE /\ CallAt(t, IF mgr # 0 \/ Arg(t).list = NoList THEN AfterEnsure(t) ELSE "new")
            /\ UNCHANGED <<mgr, mgrList, snap>>
  /\ UNCHANGED <<pmVars, startCfg, panicked, hasCtx, openMgrs, autoVars, taskVars, tickVars>>

\* Close waits for the restarts under way, which hold the manager's read lock.
CloseManager(t) ==
  /\ call[t] = "close"
  /\ \A w \in Ticks : tick[w] = "restart" => tickMgr[w] # snap[t]
  /\ openMgrs' = openMgrs \ {snap[t]}
  /\ snap' = [snap EXCEPT ![t] = 0]
  /\ CallAt(t, IF t = "stop" THEN "idle"
              ELSE IF Arg(t).list = NoList THEN AfterEnsure(t) ELSE "new")
  /\ UNCHANGED <<pmVars, startCfg, panicked, hasCtx, mgr, mgrList, autoVars, taskVars, tickVars>>

InUse == {mgr} \cup openMgrs \cup {d.mgr : d \in defs} \cup {snap[t] : t \in Threads}
         \cup {tickMgr[w] : w \in Ticks}
Unused(used) == Min((1 .. Cardinality(used) + 1) \ used)
NewId == Unused(InUse)

\* The connection is made, or not.
NewManager(t) ==
  /\ call[t] = "new"
  /\ CallAt(t, AfterEnsure(t))
  /\ \/ mgr' = NewId /\ mgrList' = Arg(t).list /\ openMgrs' = openMgrs \cup {NewId}
     \/ UNCHANGED mgrVars
  /\ UNCHANGED <<pmVars, startCfg, snap, panicked, hasCtx, autoVars, taskVars, tickVars>>

---------------------------------------------------------------------------
(* reconcileAutoRecover, in OnConfigChange and in Start                    *)

\* The scheduler keeps the definitions that do not bear the trimmed name, those
\* of a name with a space at its end among them.
OtherThan(n) == {d \in defs : d.name # Trim[n]}

\* These are left; runs of the others go on.
KeepOnly(ds) ==
  /\ defs' = ds
  /\ own' = [w \in Ticks |-> IF \E d \in ds : d.id = own[w] THEN own[w] ELSE 0]

RemoveOld(t) ==
  /\ call[t] = "remove" /\ ~stuck
  /\ CallAt(t, "reset")
  /\ IF autoTask # NoTask
       THEN KeepOnly(OtherThan(autoTask)) /\ tracked' = tracked \ {autoTask}
       ELSE UNCHANGED <<tracked, defs, own>>
  /\ UNCHANGED removing
  /\ UNCHANGED <<pmVars, startCfg, snap, panicked, hasCtx, mgrVars, autoVars,
                 tick, tickMgr, linked, warned>>

\* resetAutoState: ticks under way keep the records they have.
ForgetRecords ==
  /\ missing' = FALSE
  /\ linked' = [w \in Ticks |-> FALSE]

ResetState(t) ==
  /\ call[t] = "reset" /\ ~stuck
  /\ ForgetRecords /\ warn' = "nil"
  /\ IF t = "stop"
       THEN CallAt(t, "drop") /\ UNCHANGED autoTask
       ELSE IF Arg(t).task # NoTask
              THEN CallAt(t, "maps") /\ UNCHANGED autoTask
              ELSE CallAt(t, "idle") /\ autoTask' = NoTask
  /\ UNCHANGED <<pmVars, startCfg, snap, panicked, hasCtx, mgrVars, stuck, taskVars,
                 tick, own, tickMgr, warned>>

\* Without a manager there is no auto-recovery; with one the maps are made.
MakeMaps(t) ==
  /\ call[t] = "maps"
  /\ IF mgr = 0
       THEN CallAt(t, "idle") /\ UNCHANGED <<snap, missing, warn, linked>>
       ELSE /\ ~stuck
            /\ CallAt(t, "validate")
            /\ snap' = [snap EXCEPT ![t] = mgr]
            /\ ForgetRecords /\ warn' = "no"
  /\ UNCHANGED <<pmVars, startCfg, panicked, hasCtx, mgrVars, stuck, autoTask, taskVars,
                 tick, own, tickMgr, warned>>

\* validateAllowlistOnce: the unit is there, cannot be asked, or is missing; a
\* write to missingWarn panics when the maps have been reset meanwhile.
Validate(t) ==
  /\ call[t] = "validate"
  /\ \/ CallAt(t, "do") /\ UNCHANGED <<panicked, stuck, missing, warn>>
     \/ /\ snap[t] \in openMgrs /\ ~stuck
        /\ missing' = TRUE
        /\ IF warn = "nil"
             THEN /\ stuck' = TRUE /\ panicked' = panicked \cup {t} /\ CallAt(t, "idle")
                  /\ UNCHANGED warn
             ELSE /\ warn' = "yes" /\ CallAt(t, "do")
                  /\ UNCHANGED <<stuck, panicked>>
  /\ UNCHANGED <<pmVars, startCfg, snap, hasCtx, mgrVars, autoTask, taskVars, tickVars>>

\* Do(): the scheduler has the definition first, and the helper tracks it then.
\* A cron string that does not parse is appended like others, and when the cron
\* runs Do fails then: nothing is tracked, and autoTask stays what it was.
NewDefinition(t) ==
  [id |-> Unused({d.id : d \in defs}), name |-> Arg(t).task.name, mgr |-> snap[t],
   fires |-> Arg(t).task.parses]

Register(t) ==
  /\ call[t] = "do"
  /\ KeepOnly(OtherThan(Arg(t).task.name) \cup {NewDefinition(t)})
  /\ \/ CallAt(t, "track")
     \/ ~Arg(t).task.parses /\ CallAt(t, "idle")
  /\ snap' = [snap EXCEPT ![t] = 0]
  /\ UNCHANGED <<pmVars, startCfg, panicked, hasCtx, mgrVars, autoVars, tracked, removing,
                 tick, tickMgr, linked, warned>>

\* Mutant: the schedule is not tracked.
Track_Forgets(t) ==
  /\ call[t] = "track"
  /\ CallAt(t, "task")
  /\ UNCHANGED <<pmVars, startCfg, snap, panicked, hasCtx, mgrVars, autoVars, taskVars, tickVars>>

Track(t) ==
  /\ call[t] = "track"
  /\ CallAt(t, "task")
  /\ tracked' = tracked \cup {Arg(t).task.name}
  /\ UNCHANGED <<pmVars, startCfg, snap, panicked, hasCtx, mgrVars, autoVars, removing, defs,
                 tickVars>>

SetTask(t) ==
  /\ call[t] = "task" /\ ~stuck
  /\ CallAt(t, "idle")
  /\ autoTask' = Arg(t).task.name
  /\ UNCHANGED <<pmVars, startCfg, snap, panicked, hasCtx, mgrVars, stuck, missing, warn, taskVars,
                 tickVars>>

---------------------------------------------------------------------------
(* Start, Stop                                                             *)

\* StartEnhanced sets the context, which nothing ever clears.
StartBase ==
  /\ call["start"] = "base"
  /\ CallAt("start", "ensure")
  /\ hasCtx' = TRUE
  /\ startCfg' = cfg
  /\ UNCHANGED <<pmVars, snap, panicked, mgrVars, autoVars, taskVars, tickVars>>

\* StopEnhanced: cleanup takes the tracked names out and then removes them from
\* the scheduler, in some order.
Cleanup ==
  /\ call["stop"] = "clear"
  /\ CallAt("stop", IF tracked # {} THEN "unregister" ELSE "reset")
  /\ removing' = tracked /\ tracked' = {}
  /\ UNCHANGED <<pmVars, startCfg, snap, panicked, hasCtx, mgrVars, autoVars, defs, tickVars>>

CleanupRemoves ==
  /\ call["stop"] = "unregister"
  /\ \E n \in removing : KeepOnly(OtherThan(n)) /\ removing' = removing \ {n}
  /\ CallAt("stop", IF removing' = {} THEN "reset" ELSE "unregister")
  /\ UNCHANGED <<pmVars, startCfg, snap, panicked, hasCtx, mgrVars, autoVars, tracked,
                 tick, tickMgr, linked, warned>>

DropManager ==
  /\ call["stop"] = "drop"
  /\ CallAt("stop", IF mgr = 0 THEN "idle" ELSE "close")
  /\ snap' = [snap EXCEPT !["stop"] = mgr]
  /\ mgr' = 0 /\ mgrList' = NoList
  /\ UNCHANGED <<pmVars, startCfg, panicked, hasCtx, openMgrs, autoVars, taskVars, tickVars>>

\* What a call does by itself.
CallStep(t) ==
  \/ EnsureManager(t) \/ CloseManager(t) \/ NewManager(t)
  \/ RemoveOld(t) \/ ResetState(t) \/ MakeMaps(t) \/ Validate(t)
  \/ Register(t) \/ Track(t) \/ SetTask(t)

StopStep == Cleanup \/ CleanupRemoves \/ DropManager

---------------------------------------------------------------------------
(* autoRecoverTick, run by the worker w                                    *)

\* A definition with an entry is due, and skipped while a run of it is under way.
Fire(w) ==
  /\ tick[w] = "idle"
  /\ \E d \in defs :
       /\ d.fires /\ \A v \in Ticks : own[v] # d.id
       /\ own' = [own EXCEPT ![w] = d.id]
       /\ tickMgr' = [tickMgr EXCEPT ![w] = d.mgr]
  /\ tick' = [tick EXCEPT ![w] = "unit"]
  /\ UNCHANGED <<pmVars, callVars, hasCtx, mgrVars, autoVars, taskVars, linked, warned>>

TickAt(w, where) == tick' = [tick EXCEPT ![w] = where] /\ UNCHANGED <<own, tickMgr>>

TickEnds(w) ==
  /\ tick' = [tick EXCEPT ![w] = "idle"]
  /\ own' = [own EXCEPT ![w] = 0] /\ tickMgr' = [tickMgr EXCEPT ![w] = 0]

\* The tick is done with the record that it holds.
Forgets(w) == linked' = [linked EXCEPT ![w] = FALSE] /\ warned' = [warned EXCEPT ![w] = FALSE]

\* The tick takes the unit's record, or makes one, with the map when there is
\* none, and reads missingWarn.
TickLooks(w) ==
  /\ tick[w] = "unit" /\ ~stuck
  /\ IF missing
       THEN TickEnds(w) /\ UNCHANGED <<linked, warned>>
       ELSE /\ TickAt(w, "status")
            /\ linked' = [linked EXCEPT ![w] = TRUE]
            /\ warned' = [warned EXCEPT ![w] = (warn = "yes")]
  /\ UNCHANGED <<pmVars, callVars, hasCtx, mgrVars, autoVars, taskVars>>

\* The unit cannot be asked, is down but not long enough, or has been tried.
TickPasses(w) ==
  /\ tick[w] = "status"
  /\ TickEnds(w) /\ Forgets(w)
  /\ UNCHANGED <<pmVars, callVars, hasCtx, mgrVars, autoVars, taskVars>>

\* Close waits for its lock, so a restart that comes now waits for Close.
BeingClosed(m) == \E t \in Threads : call[t] = "close" /\ snap[t] = m

\* The manager, when it is open, answers: the unit is missing, active or down
\* and due for a restart, which fails when the manager is closed first.
TickSees(w) ==
  /\ tick[w] = "status" /\ tickMgr[w] \in openMgrs
  /\ \/ TickAt(w, "missing")
     \/ TickAt(w, "record")
     \/ /\ ~stuck
        /\ TickAt(w, IF BeingClosed(tickMgr[w]) THEN "record" ELSE "restart")
  /\ UNCHANGED <<pmVars, callVars, hasCtx, mgrVars, autoVars, taskVars,
                 linked, warned>>

\* us.Missing is set, and missingWarn, which panics when it is nil again: the
\* worker is gone and autoMu stays locked.
TickMarksMissing(w) ==
  /\ tick[w] = "missing" /\ ~stuck
  /\ missing' = (missing \/ linked[w])
  /\ Forgets(w)
  /\ warn' = IF warned[w] \/ warn = "nil" THEN warn ELSE "yes"
  /\ stuck' = (~warned[w] /\ warn = "nil")
  /\ TickEnds(w)
  /\ UNCHANGED <<pmVars, callVars, hasCtx, mgrVars, autoTask, taskVars>>

\* Mutant: RestartContext does not give the read lock back.
RestartReturns_Never(w) == FALSE /\ UNCHANGED systemdVars

\* RestartContext returns, in at most restart_timeout.
RestartReturns(w) ==
  /\ tick[w] = "restart"
  /\ TickAt(w, "record")
  /\ UNCHANGED <<pmVars, callVars, hasCtx, mgrVars, autoVars, taskVars,
                 linked, warned>>

\* What has come of it goes into the record.
TickRecords(w) ==
  /\ tick[w] = "record" /\ ~stuck
  /\ Forgets(w) /\ TickEnds(w)
  /\ UNCHANGED <<pmVars, callVars, hasCtx, mgrVars, autoVars, taskVars>>

TickStep(w) ==
  \/ TickLooks(w) \/ TickPasses(w) \/ TickMarksMissing(w) \/ RestartReturns(w) \/ TickRecords(w)

---------------------------------------------------------------------------
(* The plugin manager's calls (internal/core/plugins.go)                   *)

Calls(t, where) == CallAt(t, where) /\ panicked' = panicked \ {t}

Hands == handed < MaxConfigs /\ handed' = handed + 1
Abandons == late < MaxLate /\ late' = late + 1

\* Init makes a new helper, which tracks nothing, and OnConfigChange is called;
\* of a refused configuration nothing remains.
EnablePlugin(c) ==
  /\ pm = "off" /\ ~appStopped
  /\ pm' = "config" /\ tracked' = {}
  /\ cfg' = c /\ Hands
  /\ Calls("config", "ensure")
  /\ UNCHANGED <<late, appStopped, startCfg, snap, hasCtx, mgrVars, autoVars, removing, defs, tickVars>>

Reconfigures(c) ==
  /\ pm = "running"
  /\ pm' = "reconfig"
  /\ cfg' = c /\ Hands
  /\ Calls("config", "ensure")
  /\ UNCHANGED <<late, appStopped, startCfg, snap, hasCtx, mgrVars, autoVars, taskVars, tickVars>>

\* OnConfigChange has returned: Start is called, or the plugin goes on; after a
\* panic it is given up, or stopped.
Configured ==
  /\ pm \in {"config", "reconfig"} /\ call["config"] = "idle"
  /\ IF pm = "config"
       THEN IF "config" \in panicked \/ appStopped
              THEN pm' = "off" /\ UNCHANGED <<call, panicked>>
              ELSE call["start"] = "idle" /\ pm' = "start" /\ Calls("start", "base")
       ELSE IF "config" \in panicked /\ ~appStopped
              THEN call["stop"] = "idle" /\ pm' = "stop" /\ Calls("stop", "clear")
              ELSE pm' = (IF appStopped THEN "off" ELSE "running") /\ UNCHANGED <<call, panicked>>
  /\ UNCHANGED <<late, handed, appStopped, cfg, startCfg, snap, hasCtx, mgrVars, autoVars, taskVars, tickVars>>

\* Start has returned, or is abandoned; it counts as failed then.
Started ==
  /\ pm = "start"
  /\ IF call["start"] = "idle"
       THEN pm' = (IF "start" \in panicked THEN "off" ELSE "running") /\ UNCHANGED late
       ELSE pm' = "off" /\ Abandons
  /\ UNCHANGED <<handed, appStopped, cfg, callVars, hasCtx, mgrVars, autoVars, taskVars, tickVars>>

\* The plugin is disabled, or has refused a configuration.
DisablePlugin ==
  /\ pm = "running" /\ call["stop"] = "idle"
  /\ pm' = "stop" /\ Calls("stop", "clear")
  /\ UNCHANGED <<late, handed, appStopped, cfg, startCfg, snap, hasCtx, mgrVars, autoVars, taskVars, tickVars>>

\* Stop has returned, or is abandoned; it counts as done then.
StopOver ==
  /\ pm = "stop"
  /\ pm' = "off"
  /\ IF call["stop"] = "idle" THEN UNCHANGED late ELSE Abandons
  /\ UNCHANGED <<handed, appStopped, cfg, callVars, hasCtx, mgrVars, autoVars, taskVars, tickVars>>

\* App.Stop stops the running plugin, also while it is being reconfigured.
AppStopsPlugin ==
  /\ pm \in {"running", "reconfig"} /\ ~appStopped /\ call["stop"] = "idle"
  /\ appStopped' = TRUE
  /\ pm' = (IF pm = "running" THEN "off" ELSE pm)
  /\ Calls("stop", "clear")
  /\ UNCHANGED <<late, handed, cfg, startCfg, snap, hasCtx, mgrVars, autoVars, taskVars, tickVars>>

SystemdNext ==
  \/ \E t \in Threads : CallStep(t)
  \/ StartBase \/ StopStep
  \/ \E w \in Ticks : Fire(w) \/ TickSees(w) \/ TickStep(w)
  \/ \E c \in Configs : EnablePlugin(c) \/ Reconfigures(c)
  \/ Configured \/ Started \/ DisablePlugin \/ StopOver \/ AppStopsPlugin

SystemdSpec == SystemdInit /\ [][SystemdNext]_systemdVars

\* Calls and ticks go on; the manager need not call.
SystemdFairness ==
  /\ \A t \in Threads : WF_systemdVars(CallStep(t))
  /\ WF_systemdVars(StartBase) /\ WF_systemdVars(StopStep)
  /\ \A w \in Ticks : WF_systemdVars(TickStep(w))

---------------------------------------------------------------------------
(* Properties                                                              *)

\* While no call is under way, and as long as the manager has neither abandoned
\* one nor raced App.Stop against a reconfiguration, there is at most one
\* definition of the plugin's that fires, only if the plugin is running, and the
\* helper tracks it, so that the next Stop removes it ("tracks registered task
\* names for automatic cleanup", schedule.go:14; Do, Remove and cleanup).  Excepted
\* are names with a space at their end, which nothing removes (api.go:231, 276).
ScheduleOwned ==
  LET schedules == {d \in defs : d.fires /\ Trim[d.name] = d.name}
  IN  (\A t \in Threads : call[t] = "idle") /\ late = 0 /\ ~appStopped /\ pm \in {"off", "running"} =>
        /\ \A d \in schedules : pm = "running" /\ d.name \in tracked
        /\ \A d, e \in schedules : d = e

\* A call into the plugin comes to its end, however ticks, other calls and
\* Close hold it up, unless a panic has left autoMu locked
\* (reconcileAutoRecover, resetAutoState, closeManager).
PluginCallsReturn == \A t \in Threads : []<>(call[t] = "idle" \/ stuck)

=============================================================================
