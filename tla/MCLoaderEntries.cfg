CONSTANTS
  env = env  fork = fork
  typeA = typeA  typeA2 = typeA2  typeB = typeB  fn = fn
  Threads = {t1, t2}
  Loaders = {env, fork}
  Names = {n1}
  Values = {typeA, typeA2, fn}
  TypeValues = {typeA, typeA2}
  Absent = Absent
  Nil = Nil
  NoCall = NoCall
  Path <- MCPath
  Class <- MCClass
SPECIFICATION FairSpec
INVARIANTS
  DefinitionsStand
  LookupsAnswer
PROPERTIES
  WriteOnce
  CallsEnd
