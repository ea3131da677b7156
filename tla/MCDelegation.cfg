CONSTANTS
  t1 = t1  t2 = t2  t3 = t3  t4 = t4  m1 = m1  m2 = m2  NoModule = NoModule
  plain = plain  qualified = qualified  none = none
  Threads = {t1, t2, t3, t4}
  Names = {plain, qualified, none}
  Modules <- ModulesV
  Defines <- DefinesV
  Home <- HomeV
  Prefix <- PrefixV
  MaxCalls <- MaxCallsV
  Segments = {"A", "b", "", "?"}
  Lower <- LowerV
  Allowed = {"a", "b", "s", "t", "r"}
  Namespaces = {"type", "constructor"}
  Authorities = {"runtime", "Other", ""}
  MaxSegments = 3
  Sets = {"S", "T", "T2", "Fails", "Nested", "Other"}
  Declared <- DeclaredV
  Asked <- AskedV
  Batches <- BatchesV
SPECIFICATION MCSpec
INVARIANTS
  VisibleIsFound
  NoLastingLie
  CachesAgree
  NothingHalfAdded
  SetsAnswerByScope
PROPERTY WriteOnce
