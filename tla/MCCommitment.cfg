SPECIFICATION Spec
CONSTANTS
  Replica = {r1, r2, r3, r4}
  CertSize = 3
  MaxView = 1
  MaxCounter = 3
  Views <- MCViews
  Counters <- MCCounters
  NewViewCV <- MCNewViewCV
SYMMETRY Symmetry
CHECK_DEADLOCK FALSE
INVARIANTS
  TypeOK
  HighestRanked
  ExecutedIsCertified
  CertifiedIsExecuted
PROPERTY
  ExecutesInOrder
