CONSTANTS
  l1 = l1
  l2 = l2
  l3 = l3
  l4 = l4
  l5 = l5
  big = big
  small = small
  gpu = gpu
  unknown = unknown
  infer = infer
  std = std
  g = g
  inf = inf
  MAX_THREADS = 3
  Line <- MCLine5
  InitialQueue <- MCQueue5
  Type <- MCType
  TypeOf <- MCTypeOfFaulty
  VCPU <- MCVCPU
  Pattern <- MCPattern
  Match <- MCMatch
  Quota <- MCQuota
  Flaky <- MCFlaky
  Sticky <- MCSticky

SPECIFICATION FairSpec

INVARIANTS
  TypeOK
  NothingTwice
  QuotaConserved
  ReleaseCannotFail
  NoLostWakeup

PROPERTIES
  NoOvertaking
  AllReturnOrWithheld
  EveryLineProcessed

\* Goroutines may sleep for ever once a quota is withheld (see quota_hang.cfg).
CHECK_DEADLOCK FALSE
