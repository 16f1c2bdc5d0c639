CONSTANTS
  N = 2
  F = 0
  Client = {c1}
  Restarting = {}
  MaxSeq = 1
  MaxView = 2
  Correct = {0, 1}
  Contacted <- ContactAll
  Suspecting = {0, 1}
  Cut <- NoCut
  Prompt = {}
  Atomic = {}
SPECIFICATION Spec
INVARIANTS
  ViewChangeTimerStops
CHECK_DEADLOCK FALSE
