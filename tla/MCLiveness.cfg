CONSTANTS
  N = 3
  F = 1
  Client = {c1}
  Restarting = {c1}
  MaxSeq = 2
  MaxView = 1
  Correct = {1, 2}
  Contacted <- ContactAll
  Suspecting = {1, 2}
  Cut <- CrashedDeaf
  Prompt = {0, 2}
  Atomic = {0, 1, 2}
SPECIFICATION FairSpec
PROPERTIES
  RequestsExecuted
CHECK_DEADLOCK FALSE
