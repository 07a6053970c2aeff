SPECIFICATION MCSpec
CONSTANTS
  Byte = 4
  Word = 64
  Hosts <- MCHosts
  OtherCode <- MCOtherCode
  PassedOver <- MCPassedOver
  Inputs <- MCInputs
  Keys = {1, 2}
  Pages = {1, 2}
  Code <- MCCode
  Globals <- MCGlobals
  Locals <- MCLocals
  Roots <- MCRoots
  Needs <- MCNeeds
  Statics <- MCStatics
  MaxFailures = 2
  Flow <- MCFlow
  Between <- MCBetween
CHECK_DEADLOCK FALSE
INVARIANTS
  NoFalsePositive
  PageProtected
  ResultExact
