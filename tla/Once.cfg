SPECIFICATION FairSpec
CONSTANTS
  MaxRuns = 2
  MaxApplies = 1
  Names = {a, aSpaced}
  Bare = a
  Spaced = aSpaced
  Trim <- Trimmed
  MaxAdds = 2
  MaxTimers = 3
CHECK_DEADLOCK FALSE
INVARIANTS TakenAtMostOnce DefinitionHasTimer StaleOnlyAfterDelete
PROPERTY OnceServed
