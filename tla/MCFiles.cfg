CONSTANTS
  t1 = t1  t2 = t2  fork = fork
  fileA = fileA  fileB = fileB  fileC = fileC  setM = setM  memM = memM  initI = initI  outO = outO
  NoName = NoName
  MaxCalls = 2
  Threads <- ThreadsV
  Forked <- ForkedV
  Names <- NamesV
  Files <- FilesV
  TypeSets <- TypeSetsV
  InitSets <- InitSetsV
  Outside <- OutsideV
  Broken <- BrokenV
  Parent <- ParentV
  Members <- MembersV
  Refs <- RefsV
SPECIFICATION WorldSpec
INVARIANTS
  VisibleIsFound
  NothingHalfLoaded
  TypeSetsAreWhole
PROPERTIES
  FollowsProtocol
  CallsEnd
