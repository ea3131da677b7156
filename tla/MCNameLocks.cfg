CONSTANTS
  Threads = {t1, t2, t3}
  Names = {n1, n2}
SPECIFICATION FairSpec
INVARIANTS
  InstantiatedOnce
  NoDeadlock
  LocksAreDropped
PROPERTY LookupsEnd
CHECK_DEADLOCK FALSE
