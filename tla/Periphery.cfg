SPECIFICATION FairSpec
CONSTANTS
  PprofConfigs = {off, a, b}
  Enabled = {a, b}
  NoServer = NoServer
  Ticks = {w}
  Lists = {A}
  NoList = NoList
  TaskNames = {task, taskSpaced}
  Bare = task
  Spaced = taskSpaced
  Tasks <- Schedules
  Trim <- Trimmed
  NoTask = NoTask
  MaxConfigs = 2
  MaxLate = 1
  Units = {u1, u2}
  NoUnit = NoUnit
  StatusWorkers = {s}
  Operators = {o}
  TTL = 1
  MaxEntries = 1
  MaxAge = 1
  Testers = {t1, t2}
  Nobody = Nobody
  MaxRecords = 2
  MaxRecent = 2
  MaxLines = 2
  MaxTests = 3
  Commands <- PluginCommands
  Clean <- CleanToken
  HelpToken = "help"
  HelpAlias = "h"
  MaxMenus = 1
CHECK_DEADLOCK FALSE
INVARIANTS ServicesFollowConfig ScheduleOwned CacheTellsRecent HistoryKept CommandsReachable
PROPERTIES TurnReturns PluginCallsReturn StatusReturns
