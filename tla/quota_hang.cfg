CONSTANTS
  l1 = l1
  l2 = l2
  l3 = l3
  l4 = l4
  l5 = l5
  big = big
  small = small
  gpu = gpu
  unknown = unknown
  infer = infer
  std = std
  g = g
  inf = inf
  MAX_THREADS = 2
  Line <- MCLine2
  InitialQueue <- MCQueue2
  Type <- MCType
  TypeOf <- MCTypeOfStuck
  VCPU <- MCVCPU
  Pattern <- MCPattern
  Match <- MCMatch
  Quota <- MCQuota
  Flaky <- MCNoType
  Sticky <- MCNoType

SPECIFICATION FairSpec

PROPERTIES
  AllReturn

CHECK_DEADLOCK FALSE
