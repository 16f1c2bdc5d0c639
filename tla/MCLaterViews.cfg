CONSTANTS
  N = 2
  F = 0
  Client = {c1, c2}
  Restarting = {}
  MaxSeq = 1
  MaxView = 2
  Correct = {0, 1}
  Contacted <- ContactPrimaries
  Suspecting = {0, 1}
  Cut <- NoCut
  Prompt = {0, 1}
  Atomic = {0}
SPECIFICATION Spec
INVARIANTS
  TypeOK
  ExecutedOnce
  NoHandlerError
  NewViewsPreserve
CHECK_DEADLOCK FALSE
