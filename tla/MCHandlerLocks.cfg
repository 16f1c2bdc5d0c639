CONSTANTS
  Handler = {h1, h2, h3}
  Client = {c1, c2}
  Peer = {0}
  N = 3
  Self = 1
  CertSize = 2
  Script <- PeerLeads
  MaxView = 1
  MaxCalls = 2
SPECIFICATION Spec
CHECK_DEADLOCK FALSE
SYMMETRY Symmetry
INVARIANTS
  ProcessedOnce
  LogInOrder
  NothingLost
  SilentAfterViewChange
  NoLockCycle
