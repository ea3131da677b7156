CONSTANTS
  MinInt <- MinIntV
  MaxInt = 1000
  Length <- LengthV
  Lower <- LowerV
  Matches <- MatchesV
  Parent <- ParentV
  Aliases <- AliasesV
  Declared <- Nested
  Values <- NoValues
  MaxMerges = 2
SPECIFICATION Spec
INVARIANTS
  CommonIsUpperBound
CHECK_DEADLOCK FALSE
