# pewbot: TLA+ models, model checking and proofs

pewbot (`src/`, Go) is a Telegram bot for one operator: it reads a configuration
file and reloads it while it runs, starts and stops plugins, routes commands to
handlers, and runs scheduled jobs on a worker pool. Nearly everything that can go
wrong in it, and that a unit test would hardly reach, lies in how its goroutines
interleave: a `Stop` that its caller has given up on, a timer callback that has
started when its timer is stopped, a plugin's `Start` that returns after its
deadline, a handler that never returns. This directory models those parts, checks
them with TLC on small instances, and proves with TLAPS, for every value of the
parameters, every safety invariant that the passing runs check and both refinements. Of the four
disagreements with its own documentation that the runs show, it proves when they cannot
happen.

Paths below are relative to `src/`. `PROJECT.json` maps each definition to the
lines it stands for, and names for each checked property a mutation of the code
that the property catches.

## Running it

    tlc -config PoolSafety.cfg MCSchedulerPool      # any of the runs below
    tlapm SchedulerPoolProofs.tla                   # the proofs; likewise SelectionProofs,
                                                    # SchedulerDefsProofs, SchedulerOnceProofs,
                                                    # ConfigReloadProofs, PluginManagerProofs,
                                                    # AppProofs and PeripheryProofs

## 1. Inventory of the system

| Part (source) | State it keeps | Operations | Interacts with | Hard behaviour |
|---|---|---|---|---|
| Scheduler: life cycle, pool (`internal/services/scheduler/service.go`, `worker.go`) | `stopCh`, `stopDone`, `queue`, `c` (cron), run context, running flags, history ring; `s.mu` | `Start`, `Stop` (with a background half), `Apply`, `enqueue`, `worker`, `execOne` | cron's goroutines, plugins' jobs, `App.Stop` (deadline 2 s) | a `Stop` abandoned by its caller, `Start` during it; select without priority; retries and back-off; panics; `Apply` blocking with `s.mu` held |
| Scheduler: definitions (`api.go`) | slice `s.defs`, cron entries with pointers into it | `AddCron/Interval/Daily/Weekly`, `Remove` (`removeScheduleLocked`), `addCronLocked` | `Apply`/`Start` replace the cron | upsert is remove then append in one slice, by a name that is trimmed for the removal only; closures alias its slots |
| Scheduler: one-shots (`api.go`) | `onceAt/Job/Timeout/Ver`, `timers`; `tmu` | `AddOnce`, `Remove`, rebuild at `Start`, stop at `Stop`, callbacks | timers' goroutines, the queue | a callback that was started when its timer is stopped |
| Scheduler: parsing, snapshot (`spec_parse.go`, `snapshot.go`) | none | `ParseSchedule`, `Snapshot` | plugins | wording and durations only |
| Config manager and reload loop (`internal/core/config.go`, `app.go`) | `m.cfg`, `m.lastHash`, `m.subs`; the loop's `lastApplied` | `Load` at startup, `Watch` with debounce, `Parse`, validate, `Commit`, `publish`, `Subscribe` | the file, the loop in `App.Start` | overlapping debounce callbacks; full subscriber channel; coalescing |
| Plugin manager (`internal/core/plugins.go`) | `run`, `pctx`, `lastRawHash`, `quarantine`, registry; `pm.mu` | `StartAll`, `OnConfigUpdate` (both `reconcile`), `StopAll`, `stopOne`, `startWithTimeout` | plugins, reload loop, `App.Stop`, dispatcher | plugin calls outside the lock, time limits, late returns, shutdown during a reconcile |
| Command dispatcher (`internal/core/commands.go`, `middleware.go`) | job queue, registry, owners | `DispatchLoop` with workers, `routeMessage`, `enqueueCommand`, `SetRegistry` | adapter's channel, plugins' handlers | bounded queues, cancellation against work, panic while workers hang |
| Telegram adapter (`internal/adapters/telegram/telegram.go`) | output channel | `Start`, `Stop`, `sendUpdate`, `SendText`, menu update | Telegram, dispatcher | full channel; `Stop` racing polling |
| Supervisor (`internal/core/supervisor.go`) | context, first error, wait group | `Go`, `Cancel`, `Err`, `Wait` | dispatch, reload and watch goroutines | first failure wins and must be visible before the cancellation |
| Application (`internal/core/app.go`, `cmd/bot/main.go`) | the objects above | `NewApp`, `Start`, `Stop(reason)`, `main` | all | start order, stop steps with deadlines, second signal |
| Command registry, help, menu (`commands.go`, `commandtree.go`, `menu.go`, `parse.go`, `help.go`) | the command tree, aliases, callbacks, `menuHash` | `SetRegistry`, routing, `UpdateMenuCommands`; tokenise, flags | plugin manager, dispatcher, Telegram | aliases that hide routes; plugins walked in map order; menus sent by goroutines of their own |
| Broadcast (`internal/services/broadcast`) | queue, job statuses, cache | `NewJob`, workers, prune, clean-up | adapter | a status cache that is pruned while workers update it. No package of the program imports it |
| pprof (`internal/services/pprof`) | server, listener, configuration, stop in progress; `s.mu` | `Start`, `Stop`, `Reconfigure` | `net/http`, reload loop, `App.Stop` | check and act in two critical sections; a shutdown that goes on after its caller |
| Logging (`internal/services/logging`) | sinks, levels, target, rate limit; `s.mu` | `Apply`, `SetTelegramTarget`, handlers | adapter, reload loop, everything that logs, `main` too | logs with its own mutex held |
| Systemd plugin (`plugins/systemd`) with the plugin kit (`internal/pluginkit`) | configuration, systemd manager, `recoverState`, `missingWarn`, `autoTask`, tracked schedules; `p.mu`, `autoMu` | `OnConfigChange`, `Start`, `Stop`, the auto-recovery tick; `Do`, `Remove`, `cleanup` | plugin manager, scheduler, systemd manager | ticks that outlive a reconfiguration; abandoned calls; registered and tracked in two steps |
| Systemd manager (`pkg/systemdmanager`) | connection, units, cache of what is enabled on boot; `sm.mu` (RW) | operations, `GetAllStatusContext` with workers, `IsEnabled`, `Close` | D-Bus, commands, auto-recovery | readers held for as long as systemd works; an answer stored long after it was asked for |
| Speedtest plugin (`plugins/speedtest`) | the history file; `historyMu` | `saveResult`, readers, `cleanOldResults`, compaction | scheduler, file system | killed or out of space in a compaction |
| Notifier, system and echo plugins, `kit`/`tgui` | a history under one mutex | see `PROJECT.json` | adapter | none |

What makes each modelled part correct:

* **Pool.** Two worker pools are never live together. A firing is executed at most
  once, by one worker, of the run that accepted it. A running flag that is set
  will be reset. Once stop is signalled a worker takes at most one more task. A
  `Stop` completes even when nobody waits for it.
* **Definitions.** At most one definition per name, if the name has no spaces around it; the
  running cron has exactly the entries of the valid definitions; an entry runs the job it was
  registered with.
* **One-shots.** A registration is taken by at most one callback; every definition has
  a timer while the service runs; a stale callback takes nothing.
* **Reload.** But for the configuration of the start, only accepted ones go anywhere, the
  newest is never lost to a full channel, and the application ends with what the file says.
* **Plugins.** Contexts do not leak, the manager's record agrees with what is up, a
  quarantined plugin is off, what runs is what was configured, and both reconcile
  and shutdown complete however plugins hang.
* **Logging and pprof.** Between two turns of the reload loop the sinks and the server
  are those of the newest configuration; a turn ends.
* **Systemd plugin.** The scheduler has at most one schedule of its that fires, only while it
  runs, and the next `Stop` removes it; calls into the plugin end.
* **Systemd manager.** What it says of a unit was so within the cache's time; a status of
  all units ends.
* **Speedtest history.** What was saved and is recent is found, wherever the program was
  killed.
* **Command registry.** Every command is reached by its route and by the aliases that it alone
  has, and every menu entry leads to a node of the tree (not always to its own command: section
  6), whatever plugins run and in whatever order they are walked.
* **Dispatcher, supervisor, application.** An update is in one place and is served or
  refused; no handler is left running when the dispatcher counts as ended; a
  failure is reported as one; after a signal the program exits, unless its logger hangs.

## 2. Modules

    SchedulerLifecycle          critical sections of Start, Stop, Apply (no Next of its own)
      |-- SchedulerPool         + ticks, queues, workers        --refines--> TaskLedger
      |     |-- MCSchedulerPool       instances for TLC
      |     `-- SchedulerPoolProofs   theorems
      |-- SchedulerDefs         + periodic definitions (extends Selection)
      |     |-- MCSchedulerDefs       instances for TLC
      |     `-- SchedulerDefsProofs   theorems (extends SelectionProofs)
      `-- SchedulerOnce         + one-shot definitions
            |-- MCSchedulerOnce       instances for TLC
            `-- SchedulerOnceProofs   theorems
    ConfigReload                file, watcher, callbacks, subscriber, reload loop
      `-- ConfigReloadProofs    theorems
    PluginManager               reconcile, stopOne, StopAll, late returns
      `-- PluginManagerProofs   theorems
    Supervisor <- CommandDispatch <- App      goroutines; updates, jobs, workers; main, Start, Stop
      |                                       --refines--> UpdateLine
      `-- AppProofs             theorems
    Periphery                   the parts around the core, side by side
      |-- PeripheryProofs       theorems about its parts, and about Periphery from them
      |-- ReloadBody            a turn of the reload loop through its services
      |     |-- LoggingService
      |     `-- PprofService
      |-- SystemdPlugin         auto-recovery, schedule helper, the plugin manager's calls
      |-- UnitManager           status of all units, enabled cache, operations, Close
      |-- SpeedtestHistory      the history file (extends Selection)
      `-- CommandRegistry       tree, aliases, menu, routing
    Selection                   loops that copy some elements of a sequence
      `-- SelectionProofs       what they copy

**SchedulerLifecycle** has one action per critical section of `Stop` (`StopBegin`,
`StopClose`, `StopCancel`, `StopHalt`, `StopDrain`, `StopTimers`, `Finalize`), of
`Start` past its waiting loop (`StartRun`) and of `Apply` with a new time zone
(`ApplyRestart`, `ApplyResume`: `restartLocked` waits for cron's jobs with `s.mu`
held, hence the variable `mu`). What has to be waited for is a parameter, so that
the three modules above it can conjoin their own part: the workers (`AnyLive`) and
cron jobs (`BusyCrons`) in SchedulerPool, nothing in the other two.

**SchedulerPool.** A *run* is what one successful `Start` creates. A *firing* is one
tick: `Tick`, `CheckOverlap`, `ReadQueue`, `Send` are the cron closure and `enqueue`;
`WorkerLoop`, `WorkerExit`, `WorkerTake`, `ReadConfig`, `Succeed`, `Fail`, `Panic`,
`BackoffAbort`, `Retry` are `worker` and `execOne`. Go's `select` does not prefer a
closed stop channel to a task, so `WorkerTake` and `WorkerExit` may both be enabled,
and so may `Retry` and `BackoffAbort`. `late` and `bornIn` are history variables.

**TaskLedger** is what the pool promises, with no runs' internals: a firing is refused or
accepted by one run, begun at most once, by one worker of that run, and firings of
two runs are never under way together. `SchedulerPool!LedgerSpec` states the
refinement: `stage` gives `entry`, `chanOf` gives `home`, the worker holding the
firing gives `hands`.

**SchedulerDefs** keeps every backing array the slice `s.defs` ever had, because cron's
closures hold pointers into them: `append` writes in place while there is capacity
and moves when there is none, and a removal compacts in place. A name is an element of `Names`,
and `Trim` gives the name without the spaces around it, by which a removal looks: a
definition that was registered under a name with spaces is not found. How `append` grows is the
runtime's affair and a parameter, `Capacity`: all that is assumed is that a new array is
larger than the old one and that the first has no room. MCSchedulerDefs gives the
capacities 0, 1, 2, 4 of a small slice. An entry is `[id, made, array, slot]`; the
job it runs is read from the slot when it fires.

**SchedulerOnce** keeps all timers ever made, with the version and the job they were made
for, and lets a timer's callback start before and continue after its timer is
stopped, replaced or removed. A task that was taken is sent to the queue or, when that is full,
dropped (`Send`). `Remove` trims as that of SchedulerDefs does.

**ConfigReload** splits the callback where the code does: parse, hash check,
validation, `Commit`, copying the subscribers, offer, drop the oldest, offer again.
`Init` is what `Load` leaves at the start: a content that parses, which no validator has seen,
committed and applied. `Callbacks` is the set of callbacks that may be under way at once: `timer.Stop` does
not stop one that has started. With a single callback the model assumes that a
callback ends within the debounce interval of 250 ms.

**PluginManager** has two threads, the reload loop in `reconcile` and `App.Stop` in
`StopAll`, which share `stopOne`. Calls into plugins succeed, fail, or outlast their
time; a late `Start` or `Stop` may return at any later time, or never. A plugin's
configuration is a hash; that a plugin refuses one is its own choice each time.
`BadTimeouts` are those `validateStandardTimeouts` refuses. Start, Stop, Init and OnConfigChange
are called without `pm.mu`; only `Commands` and `Callbacks` are asked with it held
(`plugins.go:212-214`, `435-437`), and are trusted to return.

**Supervisor, CommandDispatch, App.** `Supervisor` has the failure path in its two
steps (store the error, cancel the context), and `blocked`, the levels at which a call of the
logger does not return any more (`LoggerJams`, see LoggingService): every step that logs waits for
`CanLog`. `CommandDispatch` follows an update
through the adapter's channel, the loop, the job queue and a worker, which takes the job
(`TakeJob`) and then calls it (`CallJob`), so that of two workers the later may be the first to
begin its handler; where it is
routed to is a choice of outcome (answered by the loop, handed to a worker, a panic).
`App` adds `main`, the signal goroutine, `App.Start`'s order and `App.Stop`'s six
steps with their deadlines. Plugins and services are steps of `Stop` that may overrun; what `main` logs before, between and
after the steps is part of them.

**UpdateLine** is what the way of an update promises: one line of bounded length that updates
join at the end, or are turned away from, that they may leave without a handler, and from
which a worker that is free takes the first. When the handlers of what two workers have taken
begin is left open. `App!WaySpec` states the refinement: the line is
the job queue, then what the loop has in its hands, then the channel; `Arrived` are the updates
whose fate is no longer "new".

**LoggingService, PprofService, ReloadBody.** `LoggingService` keeps who holds `s.mu`:
`ApplyLocks`, `Warns`, `Swaps`, `SetsTarget` are the parts of `Apply` and
`SetTelegramTarget` between which another goroutine logs (`Logs`, `TelegramLocks`,
`TelegramUnlocks`); a warning of `Apply` goes through the handlers still in place.
`PprofService` has `Start` in its two sections (`StartLooks`, `Listens`, `StartStores`),
`Stop` with the goroutine it leaves behind (`StopBegins`, `StopCloses`, `ShutdownEnds`,
`StopGivesUp`), called by the loop and by `App.Stop`; `ServeFails` is a server that ends with an
error while `s.srv` still holds it. All its configurations are for one
address, so that a new server cannot listen before the old one has let go. `ReloadBody`
is the loop's thread through both, in order.

**SystemdPlugin** has the three threads that call into the plugin (`OnConfigChange` from the
reload loop, `Start` and `Stop` in goroutines that the manager may abandon) and the
scheduler's workers that run ticks. A section under `autoMu` is one step; a write to the
nil `missingWarn` panics and leaves `autoMu` locked (`stuck`). A manager is a number;
ticks keep the one they have started with, and `linked` says whether the record they
hold is still the plugin's. `Register` and `Track` are the two halves of `Do`; with a cron string that
does not parse, which `ParseSchedule` lets through, `Do` may end between them, its definition
kept. Of the scheduler there is the set `defs` of the plugin's definitions, which `OtherThan`
removes by trimmed name; a definition remembers the manager its ticks work with.

**UnitManager.** `WriterWaits` and `MayRead` are Go's RWMutex, in which a waiting writer
holds up new readers. A worker of `GetAllStatusContext` goes through `GetStatus`,
`LooksInCache`, `SystemdTells`, `Stores`, `Delivers`. Time passes in steps; the cache keeps
how long an answer is still good, a worker how long ago it has read the clock (`age`),
and the history variable `lapse` when a unit was last enabled or disabled.

**SpeedtestHistory.** Lines are numbers of results, a torn line is one that nothing reads, and
a write that comes up short spoils the line after it. `Killed` may come between any two
steps, a scan may be ended by a read error that nobody asks for, and the file may not open. `Readable` and `Since` are the loops that copy what they keep. `MaxRecent` is the most
results that a command asks for (`getRecentResults`), at most what is kept. `written` and
`cut` are history variables.

**Selection.** `Picked(s, I)` is what a loop makes that copies the elements of `s` at the indices
`I`, in order: `Nth(I, n)` is where the n-th of them comes from, `Rank(I, k)` where that at `k`
goes. It says without recursion what `SelectSeq` says with it, so that the copies of
`removeScheduleLocked` and of the compaction can be reasoned about.

**CommandRegistry.** A token is a string and a typed word the sequence of tokens between its
underscores. `TreeOf` and `AliasesOf` say what the loop of `SetRegistry` leaves: the last
command of a route, the last given alias, else the first name made for Telegram. `Node`
is how `routeMessage` finds its node.

**Periphery** puts these five parts side by side. They share no state, so a behaviour picks
one part and the others stay as they begin; TLC then explores the sum of the parts and
not their product. It also holds the commands of the four plugins that `main` registers (echo, system, systemd,
speedtest).

## 3. Runs

State counts are of distinct states.

| Run | Module, configuration | Shows | States |
|---|---|---|---|
| `pool_safety` | MCSchedulerPool, `PoolSafety.cfg` | `TypeOK`, `OneWorkerPool`, `HeldOnce`, `RunningHasWorker`, `PoolShrinksOnlyByPanic`, `OneLateTask` through stops, restarts and time zone changes | 1,188,094 |
| `pool_liveness` | MCSchedulerPool, `PoolLiveness.cfg` | `FreshOnly`, `StoppedIsQuiet`; `StopCompletes`, `QueueServed`, `FlagFalls`; the refinement `LedgerSpec` | 68,618 |
| `defs` | MCSchedulerDefs, `Defs.cfg` | `EntriesMatchDefs`, `AlignedUntilShift` | 2,290,391 |
| `once` | MCSchedulerOnce, `Once.cfg` | `TakenAtMostOnce`, `DefinitionHasTimer`, `StaleOnlyAfterDelete`, `OnceServed` | 193,682 |
| `config` | ConfigReload, `Config.cfg` | `OnlyAccepted`, `LatestOnItsWay`, `Converges` | 84,065 |
| `plugins` | PluginManager, `Plugins.cfg` | `ContextOwned`, `RecordAgrees`, `RunsWanted`, `RegistryIsRunning`, `ManagerCompletes` | 67,049 |
| `app` | App, `App.cfg` | `InOnePlace`, `QuietWhenJoined`, `FatalIsTold`; the refinement `WaySpec`; `Served`, `MainExits` | 291,224 |
| `periphery` | Periphery, `Periphery.cfg` | `ServicesFollowConfig`, `ScheduleOwned`, `CacheTellsRecent`, `HistoryKept`, `CommandsReachable`; `TurnReturns`, `PluginCallsReturn`, `StatusReturns` | 575,036 |
| `pool_overlap` | MCSchedulerPool, `PoolOverlap.cfg` | violated: `NoOverlap` | |
| `pool_apply_deadlock` | MCSchedulerPool, `PoolApplyDeadlock.cfg` | violated: `ApplyReturns` | |
| `defs_aliased` | MCSchedulerDefs, `DefsAliased.cfg` | violated: `FiresOwnJob` | |
| `config_stale` | ConfigReload, `ConfigStale.cfg` | violated: `SettledAgrees` | |

The type invariant of a module is a conjunct of one of its safety invariants where it is not
listed by itself (`EntriesMatchDefs`, `DefinitionHasTimer`, `OnlyAccepted`, `RecordAgrees`,
`InOnePlace`). `PeripheryTypeOK` is proved (`PeripheryIsTyped`) and in no run.

`CHECK_DEADLOCK FALSE` is set everywhere: each system may come to rest (nobody has to
start the scheduler again, send an update or edit the file, and a program that has
exited stays so), and the bounds end every behaviour.

### Bounds, and why they are enough

* **Pool.** Two runs are what "the old pool and the new one" needs; a third adds
  nothing, since the state of a run is only ever compared with that of the current
  one. Two workers and two firings give every race between two holders. In
  `PoolSafety.cfg` the queue has room for one, so that it fills; one name skips
  while running and the other may panic; one retry exercises the back-off and the
  last attempt; one `Apply` may fall into any phase of a `Stop`. In
  `PoolLiveness.cfg` there is no `Apply`, for one during a `Stop` leaks a cron (section 6)
  and one with a job under way deadlocks (`pool_apply_deadlock`): both are known and
  would hide the rest. Jobs do not panic there, since a panic costs the pool a worker
  for good and a pool can lose all of them.
* **Definitions.** Three names and four registrations reach capacities 1, 2 and 4, and
  removals at the front, in the middle and at the end; two runs and an `Apply`
  re-register everything. One of the names is another with spaces around it, so that it
  is registered repeatedly without being replaced, and its removal takes the other's definition.
* **One-shots.** A name and the same with spaces around it, whose removal is that of the first;
  otherwise names share no state but the order of `rebuildOnceTimersLocked`, which is chosen
  freely. Two registrations and three timers allow a replaced, a removed and a rebuilt timer.
* **Reload.** Each content that parses may be that of the start. Two good contents, one that is refused and one that does not parse; five
  edits and a buffer of two fill the channel (eight in the code) while the loop
  is busy.
* **Plugins.** One plugin with three configurations and four reconciles, so that a plugin
  is enabled, reconfigured, quarantined, disabled and enabled again around a
  shutdown. Two plugins, one of them without `OnConfigChange`, with two
  configurations and two reconciles also pass (1,009,269 states).
* **Application.** Two updates, two workers, both queues with room for one, one handler
  that hangs, the reload loop, which may never return, and a logger that hangs from some level
  on once the loop has applied a configuration over which it does. Two updates are enough for
  one to pass another: one queued and one that a mutant gives to a worker past it.
* **Periphery.** *Reload* (about 101,500 states): a server may be off or one of two, so that a change
  while it runs restarts it; any sequence of configurations, no bound. *Systemd* (about 329,000): one
  worker, which is what the schedule's own overlap policy allows but for runs that a
  reconfiguration has left behind (these keep the worker); one allow list besides the
  empty one; a task name and the same with a space at its end, and for the first a cron string that
  parses and one that does not; two configurations and one abandoned call. *Units* (about 40,000): two units, so that
  the cache of one overflows, one status worker, one operator, a cache that is good for one step of
  time and a question that takes one. *History*
  (about 101,600): two goroutines, three tests, two records kept and asked for, a compaction at the third line.
  *Registry* (about 3,500): every set of the four plugins running, in every order, with their own
  commands; one menu on its way.

### Fairness, and why the code justifies it

But for the reload loop in ReloadBody, all fairness is weak, on steps a goroutine takes by itself once it can run, which Go's
runtime guarantees. It is given to actions or groups of actions as a goroutine
performs them, never to the environment: no tick, edit, update, signal, failure,
`Start`, `Stop` or `Apply` has to happen. The logger need not hang, and once it does the steps
that log are not enabled, so that no fairness makes them happen. Jobs of the scheduler are assumed to return
(they get a context with a timeout); a handler of the dispatcher is not, if it is in
`Hanging`, nor a plugin's `Start` or `Stop`, nor a goroutine in `Stuck`. The steps of
`Stop` by deadline (`StopTimesOut`, `StartTimesOut`, `NextStep`) are fair because
timers fire. `WorkerStep(r, w)` is one fairness condition per worker, not one per
action: the code does not promise that a `select` ever picks a given case.

In Periphery the loop's steps are strongly fair (`ReloadFairness`), because other goroutines
may take `s.mu` again and again, and Go hands a mutex to a waiter that has starved for a
millisecond. Calls into the systemd plugin and its ticks go on; systemd answers, or the
context of the operation is done (`OperationEnds`, `RestartReturns`); connections of the
pprof server end or the shutdown's context does. Nothing else has to happen: no new
configuration, tick, operation or status.

## 4. What is proved

Each theorem holds for every value of the constants that meets the assumptions of its
module; a bound such as `MaxRuns` is any natural there. A proof has the same shape
throughout: an inductive invariant, one lemma per action or group of actions that says the
action keeps it, and a last step that combines them. What follows names the theorems and
says why the invariant has to say more than the property.

### The pool (`SchedulerPoolProofs`)

Assumed: the queue has room for one task, the retries are a natural, `SkipNames` and
`PanicNames` are names, `None` is none of the values it stands beside, workers and
firings are finitely many (`PoolAssumption`).

| Theorem | States |
|---|---|
| `PoolInvariant` | `Spec => []PoolInv` |
| `TypeCorrect` | `Spec => []TypeOK`: also that queues and attempts keep their bounds |
| `SingleWorkerPool` | `Spec => []OneWorkerPool` |
| `ExecutedOnce` | `Spec => []HeldOnce` |
| `FlagsAreBacked` | `Spec => []RunningHasWorker` |
| `LateOnce` | `Spec => []OneLateTask` |
| `PanicsAlone` | `Spec => []PoolShrinksOnlyByPanic` |
| `TasksAreFresh` | `Spec /\ [][~RestartsInStop]_vars => []FreshOnly` |
| `QuietBetweenRuns` | `Spec /\ [][~RestartsInStop]_vars => []StoppedIsQuiet` |
| `FreshAndQuietAtFirst` | `Spec => [](applies = 0 => FreshOnly /\ StoppedIsQuiet)` |
| `OverlapsOnlyInWindow` | `Spec /\ [][~PassesInWindow]_vars => []NoOverlap` |
| `StuckForGood` | an `Apply` that waits for a job in front of `enqueue` does so for ever, and nobody gets `s.mu` |
| `ToldWorkersLeave` | a worker that is told to stop is gone after `2 * RetryMax + 4` of its steps |
| `PoolKeepsLedger` | `Spec => LedgerSpec`: the pool implements TaskLedger |

* `OneWorkerPool` by itself is not inductive: `Start` makes new workers live, and is
  harmless only because no current run means no live worker, which is `OneWorkerPool`
  at `cur = 0`. For `cur'` to be the new run one needs `Counters`: the current run
  is the last one made, the queue is its queue, and a `Stop` in progress has a run.
  `Finalize` may clear `cur` only because it waits for all workers.
* `HeldOnce` is `QueuedOnce` and `TakenOnce`, which need each other: a firing that a
  worker takes was in the queue once, and `stage` tells "queued" from "taken".
  `FiringsNamed` says that a job that sends has a queue to send to.
* `RunningHasWorker` holds because every way out of `execOne` resets the flag of the
  firing in hand, and needs `TakenOnce` and `FiringsNamed` to know which flag that is.
* `BackoffLeft` (a worker that backs off has an attempt left) keeps `attempt` in its
  range in `TypeOK`.
* `OneLateTask` needs `LateIsPastSelect`: `worker` looks at the stop channel before each
  `select`, so that one that has taken a task late does not come to its `select` again.
* `PoolShrinksOnlyByPanic` equates two cardinalities, of the workers a run has lost and of its
  firings that panicked; each step of a worker is sorted into those that go on, those that
  leave a firing and the one that takes one (`WorkerStepKinds`), and a panic adds one to
  each set. This is where the sets have to be finite.
* `FreshOnly` and `StoppedIsQuiet` are false once the time zone changes during a `Stop` (section
  6). `RestartsInStop` names that step, and as long as it is not taken both hold, however often
  the time zone changes otherwise: `OwnCron`, `CronOfRun` and `JobsOfRun` tie the cron and its
  jobs to the current run, `QueuedWhereBorn` a firing to the queue of the run in which it ticked.
  `FreshAndQuietAtFirst` is what is left without the hypothesis.
* `NoOverlap`, which `pool_overlap` refutes, holds as long as no tick passes the overlap check
  while another of its schedule is between that check and the worker that sets the flag
  (`PassesInWindow`): the window is all there is to the finding. `OneAtATime` says that of a
  schedule with the skip policy one firing at most is past the check and not over.
* `StuckForGood` needs no fairness to say that the deadlock of `pool_apply_deadlock` is one:
  `ApplyIsStuck` is stable, for the jobs that `Apply` waits for wait for `s.mu`.
* `ToldWorkersLeave` is the half of `StopCompletes` that is about the code: `StepsLeft` counts the
  steps that a worker which is told to stop has left, by where it is and how many attempts
  remain; each of its steps takes one, and no step of another adds any. That it takes its
  steps is fairness.
* For the refinement, `EntryMap` and `HandsMap` give what each step does to the mapped
  variables. The ledger lets a firing begin only when no firing of another run is under
  way, which is `OneWorkerPool` over again; and `TakenIsHeld` says that a firing is not
  lost between the queue and its end.

### Periodic definitions (`SchedulerDefsProofs`)

Assumed: trimming a name twice is trimming it once; registrations are bounded by a natural; the
capacities of the arrays grow, from 0 (`DefsAssumption`).

| Theorem | States |
|---|---|
| `DefsInvariant` | `Spec => []DefsInv` |
| `EntriesFollowDefs` | `Spec => []EntriesMatchDefs` |
| `PointersStay` | `Spec => []AlignedUntilShift` |

`EntriesMatchDefs` is a bijection between definitions and cron entries, which a step cannot
keep unless jobs and EntryIDs, and the names without spaces around them, tell their owners apart
(`DefsApart`, `EntriesApart`); duplicates of a name with spaces have entries of their own. An
upsert removes the entry whose EntryID the definition has, and would take another's if
two had the same. `DefsRegistered` and `EntriesApart` are its two halves. A removal moves
every later definition down; `Removal`, from the lemmas about `Rank` and `Nth` in
`SelectionProofs`, says that what remains is what was, in order, each once. `PointersGood`
speaks of all arrays: a pointer into an older one must lead to the right job too, and an
array that has been left is not written any more. The capacities come in where a new array
is chosen, for it is larger than what it copies.

### One-shots (`SchedulerOnceProofs`)

Assumed: the bounds are naturals, trimming a name gives a name (`OnceAssumption`).

| Theorem | States |
|---|---|
| `OnceInvariant` | `Spec => []OnceInv` |
| `OnceTakenOnce` | `Spec => []TakenAtMostOnce` |
| `NoneForgotten` | `Spec => []DefinitionHasTimer` |
| `VersionsTellUpserts` | `Spec => []StaleOnlyAfterDelete` |

`TakenAtMostOnce` needs that a job which is defined was not taken before: `JobsApart` (a
registration is the definition of one name) and `TimersRegistered`. `TimerIsCurrent` and
`EveryoneHasTimer` are the two directions of "the timer of a definition waits for it";
`VersionTells` is the order of versions, which holds for the timers whose name's version was
never deleted (`forgotten`).

### Configuration reload (`ConfigReloadProofs`)

Assumed: the buffer has room for one, accepted, refused and unreadable contents are
different (`ReloadAssumption`).

| Theorem | States |
|---|---|
| `AcceptedInvariant` | `Spec => []AcceptedInv` |
| `NoneSlipsThrough` | `Spec => []OnlyAccepted` |
| `LatestArrives` | `Spec /\ []OneAtATime => []LatestOnItsWay` |
| `LatestArrivesWithOne` | the same for one callback, without the hypothesis |
| `QuietAgrees` | `Spec /\ []OneAtATime => []SettledAgrees` |

`OnlyAccepted` holds however callbacks overlap, and whatever content the application was started
with: `AcceptedInv` is `PassedInv`, that what is in a callback's hands, on its way or in the loop's
has passed the validator, and that a refused content is committed only as long as nothing has
changed since the start (`AsStarted`). A configuration that is on its way was accepted, so that the first
one to be committed replaces it for good. `LatestOnItsWay` does not: the run
`config_stale` has two callbacks whose `Commit` and `publish` cross. `OneAtATime` (no two
callbacks are under way at once) is met by behaviours in which each callback ends
within the debounce interval, and always if there is but one. Then
`PublishesLatest` says that a callback which has committed carries the newest configuration
through the offer, the dropped oldest and the second offer, and `QuietBefore` that
nothing is published before the application subscribes. `QuietAgrees` shows that overlapping
callbacks are all there is to the finding: without them what `config_stale` violates is true.

### Plugin manager (`PluginManagerProofs`)

Assumed: `Off` is no hash, `None` no plugin, the sets are subsets where they should be, and
there are finitely many plugins (`PluginAssumption`).

| Theorem | States |
|---|---|
| `PluginInvariant` | `Spec => []PluginInv` |
| `WantedOnly` | `Spec => []RunsWanted` |
| `RecordTrue` | `Spec => []RecordAgrees` |
| `NoContextLeaks` | `Spec => []ContextOwned` |
| `RegistryTrue` | `Spec => []RegistryIsRunning` |
| `ManagerIsBounded` | a reconcile of N plugins is over after `7 N + 1` of its steps at most, a `StopAll` after `5 N + 5` |

`PluginInv` has four layers, each proved on those before it. `Places`: where reconcile and
the two callers of `stopOne` are. `Ops`: what an operation relies on, as long as only
reconcile adds to the record; it carries `RunsWanted` through a reconcile as "but for the
plugins still to do and the one under way". `Agreement` and `Contexts` extend `RecordAgrees`
and `ContextOwned` to the plugin in reconcile's hands, by where it is in `stopOne` or in
starting. Like the properties they speak of the time before `App.Stop`; `WantedOnly` and
`RegistryTrue` hold through the shutdown as well.

`ManagerIsBounded` is the half of `ManagerCompletes` that is about the code: `ReconcileLeft` and
`StopAllLeft` count the plugins still to do and the steps that the one in hand has left. Each
step of the thread takes one, and neither the other thread nor a plugin gives it any: a late
return, a shutdown during a reconcile or a quarantine makes no work for a thread under way.

### Application and dispatcher (`AppProofs`)

Assumed: hanging handlers are of updates, stuck goroutines are not the dispatcher, `None` is
neither update nor goroutine (`DispatchAssumption`, `AppAssumption`, `SupervisorAssumption`).

| Theorem | States |
|---|---|
| `AppInvariant` | `Spec => []AppInv` |
| `EachInOnePlace` | `Spec => []InOnePlace` |
| `JoinedIsQuiet` | `Spec => []QuietWhenJoined` |
| `FatalTold` | `Spec => []FatalIsTold` |
| `TakenInOrder` | `Spec => WaySpec`: the application implements UpdateLine |

`InOnePlace` counts where an update is. The invariant says instead what a fate means:
"accepted" and "queued" are once in their queue (`Holds`), "routing" and "taken" in one
goroutine's hands (`InHands`); each step moves one update from one to the next. `Phases`
ties loop, workers, supervisor and `main`, as `DispatchLoop` returns only after its
workers. `Reasons` gives the failure path its order: the error is stored before the context
is cancelled, so that a `main` that sees the one finds the other.

For the refinement, `StepsOfWay` sorts the actions into those that leave the line alone and the
seven that move an update. Taking an update from the channel and queueing its job move it
within the line and are stutters; answering, refusing and panicking are `Leave` at the place
behind the queue (`OutOfLine`); a worker takes the head of the job queue, which is the head of
the line (`HeadOfLine`). `InHands` says that the loop has an update while it routes, and `Located`
that what moves had arrived. The line has room when the channel has (`RoomInLine`).

### The parts around the core (`PeripheryProofs`)

| Theorem | States |
|---|---|
| `UnitInvariant` | `UnitSpec => []UnitInv` |
| `AnswersAreRecent` | `UnitSpec => []CacheTellsRecent` |
| `ReloadInvariant` | `ReloadSpec => []ReloadInv` |
| `ServicesFollow` | `ReloadSpec => []ServicesFollowConfig` |
| `ScheduleIsOwned` | `SystemdSpec => []ScheduleOwned` |
| `SystemdIsTyped` | `SystemdSpec => []SystemdTypeOK` |
| `HistoryInvariant` | `HistorySpec => []HistoryInv` |
| `HistoryIsKept` | `HistorySpec => []HistoryKept` |
| `HistoryIsTyped` | `HistorySpec => []HistoryTypeOK` |
| `RegistryInvariant` | `RegistrySpec => []RegistryInv` |
| `CommandsAreReachable` | `RegistrySpec => []CommandsReachable` |
| `PeripheryIsSound` | `Spec => []` of the five properties: Periphery, which the run checks, implements the five specifications |
| `PeripheryIsTyped` | `Spec => []PeripheryTypeOK` |

* **Unit manager**, for finitely many units and workers, any TTL, cache size and duration of
  a question (`UnitAssumption`). `CacheTellsRecent` speaks of what is in the cache, and so
  says nothing of an answer that a worker has been given and has not stored yet.
  `ToldRecently` does: it was so within the time since the worker has read its clock, which
  `Stores` takes off the TTL; this in turn needs `NowIsNow` (what systemd says now has been
  so for no time) and `BusyHasUnit`. Pruning, whichever entries it chooses, only takes
  entries away (`PrunedOnlyDrops`).
* **Reload loop**, for any pprof configurations of which one does not want the server
  (`PprofAssumption`). `SinksOnTheWay` follows the file from where `Apply` opens it to where
  the handlers are swapped. `ServerOnTheWay` says where in `Start` and `Stop` there can be a
  server at all: `Stop` returns early when another stop is in progress, which would let
  `Reconfigure` come to `Start` with the old server still stored, but then there is none
  (`stopDone => srv = NoServer`), and `Start` stores a server only when no stop is in
  progress. This holds as long as only the loop calls the service; once `App.Stop` does,
  the two sections of `Start` can be passed (section 6).
* **Systemd plugin**, for any number of lists, configurations and abandoned calls and finitely
  many ticks (`SystemdAssumption`).
  `Firing` are the definitions that can fire and whose names a removal finds. `ScheduleInv` follows
  them through a call: until its old task is removed what fires is tracked and is the one the
  plugin remembers (`KnownSchedule`), from there to `Register` nothing fires, and after it the call
  is the one that will track it. A `Do` that fails leaves a definition that does not fire, so
  that there nothing is to be known. A call that has panicked has left none that fires. This needs
  that calls come one at a time, which the manager sees to as long as it has abandoned none.
  For its types `ManagersInv` says that the managers and the definitions in use are finitely many,
  so that there is a new one to be made (`NewId`, `NewDefinition`), and `TaskPlaces` that a call
  which has come to the schedule has one.
* **Speedtest history**, for any goroutines, tests, bounds on lines and records with
  `MaxRecent` at most `MaxRecords` (`HistoryAssumption`). That a result is still *in* the
  file does not suffice, since only the last lines are read and kept: `HasRecent` says that it
  is no further from the end than it was written, of the file, of what a compaction keeps
  and of the temporary file that replaces it. Reading, cutting off what is too old and keeping
  the last records each keep the distance (`NewestType`, `FromTheEnd`), if the scan has come to the
  end of the file.

* **Command registry**, of any commands (`RegistryAssumption`) whose routes begin with a token that
  Telegram leaves as it is (`RoutesAreClean`). Nothing in the code enforces the latter; the
  routes of the program's plugins meet it, which TLC evaluates in the run. `RegistryInv` says that tree
  and aliases are those of the commands installed, whatever the order in which the plugins
  were walked, and that these are known commands; `BuiltReaches` says that in such a tree
  a command is found by its route, unless an alias given by hand is the token at its root,
  and by each alias that was given to it alone, and that each entry of the menu leads to a node.

### What the violations leave

A run that refutes a property shows that something can go wrong; a theorem shows what else would
have to happen for nothing to be wrong, and so that the run has found all of it.

| Refuted | by | holds as long as | Theorem |
|---|---|---|---|
| `NoOverlap` | `pool_overlap` | no tick is checked in the window of another | `OverlapsOnlyInWindow` |
| `ApplyReturns` | `pool_apply_deadlock` | (the deadlock, once there, is permanent) | `StuckForGood` |
| `FiresOwnJob` | `defs_aliased` | no removal has moved a definition | `PointersStay` |
| `SettledAgrees` | `config_stale` | debounce callbacks do not overlap | `QuietAgrees` |

### Only model-checked

* All liveness, which TLAPS does not reach under fairness: `StopCompletes`, `QueueServed`,
  `FlagFalls`, `OnceServed`, `Converges`, `ManagerCompletes`, `Served`, `MainExits`, `TurnReturns`,
  `PluginCallsReturn`, `StatusReturns`. Of `StopCompletes` and `ManagerCompletes` the bounds on the
  number of steps are proved (`ToldWorkersLeave`, `ManagerIsBounded`); what remains is that the
  steps are taken.
* That the violation runs reach what they refute.

What a recursive function computes for every input cannot be proved by the library's induction
theorems, whose parameter is an operator. Where induction was needed it is over a *set* of
naturals (`FromOneOn` in `SelectionProofs`) or from the least index that would be wrong.

## 5. What is not modelled, and why

* **Broadcast**: no package of the program imports it. Its queue and status cache are worth
  a model when something does.
* **Tokeniser, flags, `ParseSchedule`**: functions of text without state.
* **The watcher of the systemd manager, its setters, adding and removing units**: nothing in
  the program calls them. The list of units is what the constructor was given.
* **The measurement of the speedtest plugin**: a call of a library in a goroutine.
* **Notifier, the handlers of the echo and system plugins, help text, `tgui`, D-Bus and HTTP calls**:
  I/O and layout with no state of their own worth a model.
* Inside modelled parts: blank names, which are refused; the rate limit and the level of each log handler, the profiling
  rates of pprof, streaks and alerts of auto-recovery (when a restart is due is a choice),
  the truncation of Telegram names to 32 letters and of the menu to 100 entries, access to
  commands, how long a back-off lasts, the history ring, `NewApp` (which
  only builds objects), the diff of configurations that is only logged, and registering
  plugins before the start.

## 6. Where the code and what is said of it differ

Shown by a run:

1. **Overlap policy** (`pool_overlap`). `doc.go:27-28` promises to skip a run "if the
   previous run is still executing". The cron job checks the running flag before it
   enqueues (`api.go:308`) and only `execOne` sets it: two ticks that are both queued
   before the first is executed run at the same time.
2. **Apply deadlocks with a tick** (`pool_apply_deadlock`). `restartLocked`
   (`api.go:327`) waits for cron's jobs with `s.mu` held; a job that has ticked needs
   `s.mu` in `enqueue`. Both wait for ever, though `service.go:27` calls `Apply` safe
   to run concurrently.
3. **Entries run another schedule's job** (`defs_aliased`). Cron's closures hold pointers
   into `s.defs`, which removal compacts in place (`api.go:297`).
4. **The application settles on an older configuration** (`config_stale`). When two
   debounce callbacks overlap, which a validator of up to 5 s allows, `Commit` and
   `publish` of one may fall between those of the other; what is applied last is not
   what is committed, and the hash check then skips the right content.

Met while reading or modelling, with no run of its own:

* Schedules are stored under the name as given and removed by the trimmed name (`api.go:55-57`,
  `97-99`, `231`, `276`): one registered with spaces around its name is never removed, by name
  or by an upsert, which "prevent[s] duplicates" (`api.go:50-51`) of other names only, and whose
  removal takes the definition of the trimmed name instead. `scheduler.task_name` of the systemd
  plugin can be such a name. `EntriesMatchDefs` and `ScheduleOwned` except it.
* A cron string that does not parse is refused by `AddCronOpt` after its definition was appended
  (`api.go:64-77`), and `Do` returns before it tracks (`schedule.go:225-228`), which auto-recovery only
  logs: the scheduler keeps a definition that nobody owns, and that never fires.
* The file of the start is committed and applied without a validator (`config.go:85-91`,
  `app.go:40-45`), which is set only at `app.go:167`: what a reload would refuse may be running until
  the first accepted change. `OnlyAccepted` says that it never comes back.
* Workers take jobs in order, and each calls its own (`commands.go:289`, `296`): of two commands the
  one that was sent second may be the first to begin.

* `Apply` during a `Stop` that has taken `s.c` makes a cron that nothing stops
  (`service.go:44-50`, `api.go:325`).
* A panic in a job ends its pool worker (`service.go:107-113`); `PoolShrinksOnlyByPanic`
  shows that nothing else does.
* The entry of a schedule that was removed may go on running through a slot behind the
  end of `s.defs` (`api.go:301`).
* A one-shot schedule that is due while the service is stopped is dropped with its
  definition (`api.go:193`), where `doc.go:34-35` has definitions survive.
* A reconcile under way when `StopAll` runs can start a plugin after `StopAll` has
  passed it (`plugins.go:369`). `ContextOwned` and `RecordAgrees` are stated up to
  `StopAll` for this reason.
* A panic in routing waits, while it unwinds, for all dispatcher workers
  (`commands.go:303-309`): with a handler that hangs the bot neither serves nor fails.
  `Served` names this exception.
* After a signal `main` may find the supervisor's context done first and give the reason
  "unknown" (`main.go:73`). `FatalIsTold` is therefore stated for stops without a signal.
* `api.go:157` bumps a one-shot's version "to ignore stale callbacks". `Remove` and the
  callbacks delete the version (`api.go:186`, `262`), the next `AddOnce` starts at 1 again,
  and a callback of version 1 that had started passes the check and takes the new job
  before its time. `StaleOnlyAfterDelete` says that nothing else lets one pass.
* `logging.Service.Apply` warns with `s.mu` held (`logging.go:99-113`) through the handlers in
  place; when one of them is the Telegram handler, which locks `s.mu` (`:283`), the loop and
  everything that logs hang, `main` too, whose calls between the steps of `Stop` have no deadline
  (`app.go:347`, `355`, `388-399`, `435`): the program then does not exit on the first signal. This though the comment at `logging.go:97` says "Don't fail the whole
  logging pipeline because a file can't be opened". `TurnReturns` and `MainExits` except exactly this. `Apply` also looks for the chat before the same
  configuration sets it (`app.go:256-279`), and so warns when chat and sink come together.
* pprof: a `Start` between its two sections is not seen by `Stop` (`service.go:129`, `209`), nor
  is a reconfiguration that comes after `App.Stop`'s step: the server outlives the stop. When `Serve` fails (`:215`), `s.srv` is
  left set, and a `Start` finds a server that is none. The branch for a stop already in progress (`:236`) is never taken, since `s.srv` is nil then.
* Auto-recovery: a tick (`auto_recover.go:245`), or the validation of the allow list in another
  thread (`:167`), writes the map that a reconfiguration has set to nil, and panics with
  `autoMu` held: `Stop` then hangs, and the next `OnConfigChange` hangs the reload loop.
  `PluginCallsReturn` excepts a locked `autoMu`.
* `backoffBase * (1<<30)` (`auto_recover.go:312`) overflows for a base of more than about 8.6 s: after
  31 failures in a row the back-off is negative and every tick restarts the unit.
* `PluginBase.StopBase` keeps the context (`plugin_sdk.go:52`): enabled again, the systemd plugin
  registers its schedule in `OnConfigChange`, before `Start`; a `Start` that was abandoned may
  register it after the plugin has been given up. `ScheduleOwned` excepts abandoned calls.
* `IsEnabled` answers from a cache that `EnableContext` and `DisableContext` do not touch, so it may
  be five minutes behind; one under way makes a new cache after `Close`.
* Compaction of the speedtest history passes over failing writes and renames all the same
  (`history.go:338-347`), so a full disk truncates the history; an appended line that was cut
  short takes the next record with it. `HistoryKept` excepts short writes. Nor is
  the scanner asked for its error (`history.go:293-314`): what is behind the place where reading failed
  is dropped with the old file, which the property excepts too.
* The system plugin gives "sched" the alias "sched_list", which is the Telegram name of
  "sched list": the menu entry of the second runs the first.
* Menus are published by goroutines of their own (`commands.go:237`): an older one may be the last
  to arrive, and after a lost answer `menuHash` tells another menu than Telegram has.

## 7. Plan

Done, in this order: the life cycle and the pool with their proofs, the definitions, the
one-shots, configuration reload, the plugin manager, supervisor, dispatcher and
application, and the periphery: logging and pprof in the reload loop, the systemd plugin
and its manager, the speedtest history and the command registry.

Next, extending the model: `App` with the plugin manager's `StopAll`, the scheduler's `Stop`
and pprof's in place of its opaque steps; SystemdPlugin over SchedulerDefs and the pool in
place of its one-schedule scheduler; CommandDispatch with CommandRegistry's `Node` in place
of its choice of a route; broadcast, once the program uses it.

Proved: every safety invariant that a passing run checks (`FreshOnly` and `StoppedIsQuiet` without a
restart during a `Stop`, `LatestOnItsWay` without overlapping callbacks), the refinements of
TaskLedger and UpdateLine, and the bounds on the steps of a worker that is told to stop, of a
reconcile and of a `StopAll`.

Next, proving more: likewise for `Served` (how many steps of the loop and the workers an update
needs), and under which condition the last menu to arrive is the newest.
