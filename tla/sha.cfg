SPECIFICATION Spec
CONSTANTS
  Code <- MCCode
  Globals <- MCGlobals
  Locals <- MCLocals
  Roots <- MCRoots
  Needs <- MCNeeds
  Statics <- MCStatics
  MaxFailures = 2
  Lines <- MCLines
  Codes = {c1, c2, c3, c4}
  NoCode = NoCode
  Block = 2
  Nested = 1
CHECK_DEADLOCK FALSE
INVARIANTS
  OnlyKnownFaults
  OnlyKnownLeaks
  ErrorProtocol
  ReadyWhenReached
  SearchCorrect
  CountsExact
