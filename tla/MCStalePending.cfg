CONSTANTS
  N = 2
  F = 0
  Client = {c1}
  Restarting = {c1}
  MaxSeq = 2
  MaxView = 2
  Correct = {0, 1}
  Contacted <- ContactAll
  Suspecting = {0, 1}
  Cut <- NoCut
  Prompt = {1}
  Atomic = {0, 1}
SPECIFICATION Spec
INVARIANTS
  NoPanic
CHECK_DEADLOCK FALSE
