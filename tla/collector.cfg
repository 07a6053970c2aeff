CONSTANTS
  large = large
  small = small
  trn1 = trn1
  std = std
  NoPattern = NoPattern
  MAX_THREADS = 3
  Line <- MCLine
  Orders <- MCOrders
  VCPU <- MCVCPU
  Pattern <- MCPattern
  PatternOf <- MCPatternOf
  Quota <- MCQuota

SPECIFICATION FairSpec

INVARIANTS
  QuotaConserved
  WithinQuota
  OwnedOrGivenUp

PROPERTIES
  CollectedOnce
  CollectionEnds

\* The program stops: it exits, or it sleeps over an empty queue.
CHECK_DEADLOCK FALSE
