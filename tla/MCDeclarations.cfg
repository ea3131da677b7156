CONSTANTS
  MinInt <- MinIntV
  MaxInt = 1000
  Length <- LengthV
  Lower <- LowerV
  Matches <- MatchesV
  Parent <- ParentV
  Aliases <- AliasesV
  ParamTypes <- ParamTypesV
  TypeTexts <- TypeTextsV
  Blocks <- BlocksV
  Arguments <- ArgumentsV
  Lambdas <- LambdasV
  Checked <- CheckedV
  CheckedValues <- CheckedValuesV
  MaxParams = 2
  MaxDispatches = 2
  MaxArguments = 2
SPECIFICATION MCSpec
INVARIANTS
  CallsFollowDeclarations
  RefusalsExplainThemselves
  HeirsStandIn
  InitHashesRecreate
CHECK_DEADLOCK FALSE
