CONSTANTS
  Replica = {r1, r2, r3}
  F = 1
  Faulty = {r3}
  MaxCalls = 2
  Wrong <- WrongSecond
  Connected = {r1, r2}
  Late = {r1}
SPECIFICATION FairSpec
INVARIANTS
  ResultIsReplicated
  SentInOrder
PROPERTY
  EveryCallEnds
CHECK_DEADLOCK FALSE
