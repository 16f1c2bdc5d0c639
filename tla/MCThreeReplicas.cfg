CONSTANTS
  N = 3
  F = 1
  Client = {c1, c2}
  Restarting = {}
  MaxSeq = 1
  MaxView = 1
  Correct = {1, 2}
  Contacted <- ContactPrimaries
  Suspecting = {1, 2}
  Cut <- PrimariesCut
  Prompt = {0}
  Atomic = {0, 1, 2}
SPECIFICATION Spec
INVARIANTS
  Agreement
  RequestsWatched
  NewViewsPreserve
CHECK_DEADLOCK FALSE
