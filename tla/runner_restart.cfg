CONSTANTS
  l1 = l1
  l2 = l2
  large = large
  small = small
  std = std
  inf = inf
  MAX_THREADS = 1
  MaxRuns = 2
  Line <- MCLine
  InitialQueue <- MCQueue
  Type <- MCType
  TypeOf <- MCTypeOf
  VCPU <- MCVCPU
  Pattern <- MCPattern
  Match <- MCOverlap
  Quota <- MCQuota
  Flaky <- MCNoType
  Sticky <- MCType

SPECIFICATION RunnerSpec

INVARIANTS
  RunnerTypeOK
  ReleasedOnlyWhenTerminated

PROPERTIES
  ResultsKept

\* The program stops: it exits, or it sleeps for ever over a withheld quota.
CHECK_DEADLOCK FALSE
