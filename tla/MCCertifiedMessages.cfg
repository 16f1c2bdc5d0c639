SPECIFICATION Spec
CONSTANTS
  Replica <- MCReplica
  t1 = t1
  t2 = t2
  Thread <- MCThread
  Digest = {d1}
  MayFail <- MCMayFail
  Epoch <- MCEpoch
  MaxCounter = 3
  None = None
  Requests <- MCRequests
  MaxUIs = 4
  Signature <- MCSignature
  Result <- MCSignature
  CertSize = 1
  NoMessage = NoMessage
SYMMETRY MCSymmetry
CONSTRAINT EpochsInOrder
INVARIANTS SequentialUIs NoEquivocation AgreeOnMessages
PROPERTY RoundTrip
CHECK_DEADLOCK FALSE
