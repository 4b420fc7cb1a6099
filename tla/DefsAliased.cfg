SPECIFICATION Spec
CONSTANTS
  MaxRuns = 1
  MaxApplies = 0
  Names = {a, aSpaced, b}
  Bare = a
  Spaced = aSpaced
  Trim <- Trimmed
  MaxAdds = 3
  Capacity <- Doubled
CHECK_DEADLOCK FALSE
INVARIANT FiresOwnJob
