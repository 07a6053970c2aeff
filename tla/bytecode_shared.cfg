CONSTANTS
  f = f
  g = g
  h = h
  a = a
  b = b
  c = c
  m = m
  result = result
  Name <- MCName
  Programs <- MCPrograms
  Expected <- MCExpected
  Result = result

SPECIFICATION CSpec

INVARIANTS
  NeverRaises
