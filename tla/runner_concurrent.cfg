CONSTANTS
  l1 = l1
  l2 = l2
  large = large
  small = small
  std = std
  inf = inf
  MAX_THREADS = 2
  MaxRuns = 1
  Line <- MCLine
  InitialQueue <- MCQueue
  Type <- MCType
  TypeOf <- MCTypeOf
  VCPU <- MCVCPU
  Pattern <- MCPattern
  Match <- MCMatch
  Quota <- MCQuota
  Flaky <- MCNoType
  Sticky <- MCType

SPECIFICATION FairRunnerSpec

PROPERTIES
  ImplementsMonitor
  

\* The program stops: it exits, or it sleeps for ever over a withheld quota.
CHECK_DEADLOCK FALSE
