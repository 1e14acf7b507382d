SPECIFICATION Spec
CONSTANTS
  Users = {a1, a2}
  pin = pin
  phrase = phrase
  Entered <- EnteredUsed
  Length <- LengthUsed
  GeneratedLength = 27
  Minimums = {20, 28}
  Ratings <- RatingsUsed
  HistoryLimit = 2
  MaxEntries = 2
  MaxSecrets = 3
  MaxBatches = 2
  MaxClock = 4
SYMMETRY Symmetry
INVARIANTS ReuseOnlyUnchecked RatedAsItIs ImportRepeatsOnlyNewer ImportedOnce
PROPERTY VersionsKept
