CONSTANTS
  MinInt <- MinIntV
  MaxInt = 1000
  Length <- LengthV
  Lower <- LowerV
  Matches <- MatchesV
  Parent <- ParentV
  Aliases <- AliasesV
  Declared <- DeclaredV
  Values <- ValuesV
  MaxMerges = 2
SPECIFICATION Spec
INVARIANTS
  InstancesAreKept
PROPERTIES
  MergingNeverNarrows
CHECK_DEADLOCK FALSE
