SPECIFICATION Spec
CONSTANTS
  MaxRuns = 2
  MaxApplies = 1
  Names = {a, aSpaced, b}
  Bare = a
  Spaced = aSpaced
  Trim <- Trimmed
  MaxAdds = 4
  Capacity <- Doubled
CHECK_DEADLOCK FALSE
INVARIANTS EntriesMatchDefs AlignedUntilShift
