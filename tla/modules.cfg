SPECIFICATION Spec
CONSTANTS
  Main = "main"
  Python = {"a", "b"}
  Native = {"c"}
  Function = {"f", "g"}
  Alias = {"a", "b", "c", "m"}
  Scripts <- MCScripts
CHECK_DEADLOCK FALSE
INVARIANTS
  AllFound
PROPERTIES
  RoundsEnd
