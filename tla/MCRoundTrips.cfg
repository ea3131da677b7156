SPECIFICATION MCSpec
CONSTANTS
  Worlds = {"types", "data", "time spans"}
  LongTexts <- Long
  Subjects <- AllSubjects
  KnownTypes <- Types
INVARIANTS
  TypesComeBack
  DataComesBack
  TimeSpansComeBack
  JsonGetsData
CHECK_DEADLOCK FALSE
