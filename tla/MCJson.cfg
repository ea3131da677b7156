SPECIFICATION MCSpec
CONSTANTS
  Worlds = {"data"}
  LongTexts <- Long
  Subjects <- SomeSubjects
  KnownTypes <- Types
INVARIANTS ProducesJson
CHECK_DEADLOCK FALSE
