SPECIFICATION FairSpec
CONSTANTS
  Plugins = {p}
  Configurable = {p}
  Hashes = {h1, h2, h3}
  BadTimeouts = {h2}
  Off = Off
  None = None
  MaxUpdates = 4
CHECK_DEADLOCK FALSE
INVARIANTS ContextOwned RecordAgrees RunsWanted RegistryIsRunning
PROPERTY ManagerCompletes
