CONSTANTS
  Plain = {main}
  Started = {started}
  Loaders = {environment, other}
  Env = environment
  NestedDo = FALSE
  ContextLimit = 4
  MaxDepth = 3
  Goroutines = {g1, g2}
  Items = {i1, i2}
  Late = {i2}
  Fragile = {i2}
  Default = noValue
  Changed = changed
  NoValue = noValue
  MaxContexts = 2
  MaxResets = 1
  MaxUses = 2
SPECIFICATION MCSpec
SYMMETRY MCSymmetry
CHECK_DEADLOCK FALSE
INVARIANTS
  ContextsAreOfOneThread
  NothingIsLeftBehind
  DeclarationsAreMovedOnce
  ContextsSeeDeclarations
  OnlyResetTakesAnswers
  AliasesAreDependable
