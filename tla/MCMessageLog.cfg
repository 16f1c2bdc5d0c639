\* Two streams, three messages and two resets, in every interleaving.
CONSTANTS
  Stream = {s1, s2}
  MaxMessages = 3
  MaxResets = 2
SPECIFICATION FairSpec
INVARIANTS
  TypeOK
  ReadsWithinLog
PROPERTIES
  StreamsInOrder
  EachDelivered
  CancelledEnds
CHECK_DEADLOCK FALSE
