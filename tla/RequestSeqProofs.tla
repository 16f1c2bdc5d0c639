-------------------------- MODULE RequestSeqProofs --------------------------
(***************************************************************************)
(* Proofs about RequestSeq, for any set of handlers and any bound on IDs.  *)
(***************************************************************************)
EXTENDS RequestSeq, TLAPS

\* Whatever ID is captured and not released has a handler that processes it.
CapturedHasOwner ==
  captured > released => \E h \in Handler : pc[h] = "captured"

\* A handler only processes a request, or sleeps, while an ID is in use.
InUse == \A h \in Handler : pc[h] \in {"captured", "asleep"} => captured > released

\* No processed ID is above the one captured last.
ProcessedBelow == \A i \in 1..Len(processed) : processed[i] <= captured

\* What can be executed is prepared.
ProposedBelow == \A seq \in proposed : seq <= prepared

IInv ==
  /\ TypeOK /\ OneOwner /\ ProcessedInOrder /\ HandledIsReleased /\ NeverPanics
  /\ CapturedHasOwner /\ InUse /\ ProcessedBelow /\ ProposedBelow
  /\ \A h \in Handler : pc[h] # "idle" => req[h] \in RequestID

\* Initially no ID is in use.
LEMMA InitIInv == Init => IInv
<1> SUFFICES ASSUME Init PROVE IInv
  OBVIOUS
<1> USE BoundAssumption DEF Init
<1>1. TypeOK
  <2>1. pc \in [Handler -> {"idle", "capture", "asleep", "captured", "handled"}]
    OBVIOUS
  <2>2. req \in [Handler -> 0..MaxSeq] /\ processed \in Seq(RequestID)
    OBVIOUS
  <2>3. /\ captured \in 0..MaxSeq /\ released \in 0..captured
        /\ prepared \in 0..released /\ retired \in 0..prepared
    OBVIOUS
  <2> QED
    BY <2>1, <2>2, <2>3 DEF TypeOK
<1>2. ProcessedInOrder /\ ProcessedBelow
  BY DEF ProcessedInOrder, ProcessedBelow
<1> QED
  BY <1>1, <1>2 DEF IInv, OneOwner, HandledIsReleased, NeverPanics, CapturedHasOwner,
     InUse, ProposedBelow

-----------------------------------------------------------------------------
\* A handler that gets a request is not in anybody's way.
LEMMA BeginKeepsIInv ==
  ASSUME IInv, NEW h \in Handler, NEW seq \in RequestID, Begin(h, seq)
  PROVE  IInv'
<1> USE BoundAssumption DEF Begin, IInv, RequestID
<1>1. TypeOK'
  BY DEF TypeOK
<1>2. OneOwner' /\ HandledIsReleased' /\ CapturedHasOwner' /\ InUse'
  BY DEF TypeOK, OneOwner, HandledIsReleased, CapturedHasOwner, InUse
<1>3. ProcessedInOrder' /\ ProcessedBelow' /\ ProposedBelow' /\ NeverPanics'
  BY DEF ProcessedInOrder, ProcessedBelow, ProposedBelow, NeverPanics
<1>4. \A g \in Handler : pc'[g] # "idle" => req'[g] \in RequestID
  BY DEF TypeOK
<1> QED
  BY <1>1, <1>2, <1>3, <1>4

\* Capturing an ID: nobody else has one in use, and the ID is higher than all
\* before it.
LEMMA CaptureKeepsIInv ==
  ASSUME IInv, NEW h \in Handler, Capture(h)
  PROVE  IInv'
<1> USE BoundAssumption DEF IInv
<1>1. CASE /\ Waits(req[h]) /\ pc' = [pc EXCEPT ![h] = "asleep"]
           /\ UNCHANGED <<captured, processed>>
  <2> USE <1>1 DEF Capture
  <2>1. TypeOK'
    BY DEF TypeOK
  <2>2. captured > released
    BY DEF Waits, IsNew, TypeOK
  <2>3. OneOwner' /\ HandledIsReleased' /\ CapturedHasOwner' /\ InUse'
    BY <2>2 DEF TypeOK, OneOwner, HandledIsReleased, CapturedHasOwner, InUse
  <2>4. ProcessedInOrder' /\ ProcessedBelow' /\ ProposedBelow' /\ NeverPanics'
    BY DEF ProcessedInOrder, ProcessedBelow, ProposedBelow, NeverPanics
  <2>5. \A g \in Handler : pc'[g] # "idle" => req'[g] \in RequestID
    BY DEF TypeOK
  <2> QED
    BY <2>1, <2>3, <2>4, <2>5
<1>2. CASE /\ ~Waits(req[h]) /\ ~IsNew(req[h]) /\ pc' = [pc EXCEPT ![h] = "handled"]
           /\ UNCHANGED <<captured, processed>>
  <2> USE <1>2 DEF Capture
  <2>1. TypeOK'
    BY DEF TypeOK
  <2>2. req[h] <= released
    BY DEF Waits, IsNew, TypeOK
  <2>3. OneOwner' /\ HandledIsReleased' /\ CapturedHasOwner' /\ InUse'
    BY <2>2 DEF TypeOK, OneOwner, HandledIsReleased, CapturedHasOwner, InUse
  <2>4. ProcessedInOrder' /\ ProcessedBelow' /\ ProposedBelow' /\ NeverPanics'
    BY DEF ProcessedInOrder, ProcessedBelow, ProposedBelow, NeverPanics
  <2>5. \A g \in Handler : pc'[g] # "idle" => req'[g] \in RequestID
    BY DEF TypeOK
  <2> QED
    BY <2>1, <2>3, <2>4, <2>5
<1>3. CASE /\ ~Waits(req[h]) /\ IsNew(req[h]) /\ pc' = [pc EXCEPT ![h] = "captured"]
           /\ captured' = req[h] /\ processed' = Append(processed, req[h])
  <2> USE <1>3 DEF Capture
  <2>1. /\ captured = released /\ req[h] > captured /\ req[h] \in RequestID
    BY DEF Waits, IsNew, TypeOK
  <2>2. TypeOK'
    <3>1. captured' \in 0..MaxSeq /\ released' \in 0..captured'
      BY <2>1 DEF TypeOK, RequestID
    <3>2. processed' \in Seq(RequestID)
      BY <2>1 DEF TypeOK
    <3> QED
      BY <3>1, <3>2 DEF TypeOK
  <2>3. \A g \in Handler : pc[g] # "captured"
    BY <2>1 DEF InUse, TypeOK
  <2>4. OneOwner' /\ CapturedHasOwner'
    BY <2>1, <2>3 DEF TypeOK, OneOwner, CapturedHasOwner, RequestID
  <2>5. HandledIsReleased' /\ InUse'
    BY <2>1 DEF TypeOK, HandledIsReleased, InUse
  <2>6. /\ Len(processed') = Len(processed) + 1
        /\ \A i \in 1..Len(processed) : processed'[i] = processed[i]
        /\ processed'[Len(processed) + 1] = req[h]
        /\ Len(processed) \in Nat
        /\ \A i \in 1..Len(processed) : processed[i] \in RequestID
    BY <2>1 DEF TypeOK
  <2>7. ProcessedInOrder' /\ ProcessedBelow'
    BY <2>1, <2>6, SMTT(20) DEF ProcessedInOrder, ProcessedBelow, TypeOK, RequestID
  <2>8. ProposedBelow' /\ NeverPanics'
    BY DEF ProposedBelow, NeverPanics
  <2>9. \A g \in Handler : pc'[g] # "idle" => req'[g] \in RequestID
    BY DEF TypeOK
  <2> QED
    BY <2>2, <2>4, <2>5, <2>7, <2>8, <2>9
<1> QED
  BY <1>1, <1>2, <1>3 DEF Capture

\* Releasing wakes up all that sleep.
LEMMA ReleaseKeepsIInv ==
  ASSUME IInv, NEW h \in Handler, Release(h)
  PROVE  IInv'
<1> USE BoundAssumption DEF Release, Broadcast, IInv
<1>1. /\ pc' \in [Handler -> {"idle", "capture", "asleep", "captured", "handled"}]
      /\ pc'[h] = "handled"
      /\ \A g \in Handler : g # h => pc'[g] = IF pc[g] = "asleep" THEN "capture" ELSE pc[g]
  <2> DEFINE woken == [g \in Handler |-> IF pc[g] = "asleep" THEN "capture" ELSE pc[g]]
  <2>1. woken \in [Handler -> {"idle", "capture", "asleep", "captured", "handled"}]
    BY DEF TypeOK
  <2>2. pc' = [woken EXCEPT ![h] = "handled"]
    OBVIOUS
  <2>3. \A g \in Handler : woken[g] = IF pc[g] = "asleep" THEN "capture" ELSE pc[g]
    OBVIOUS
  <2> HIDE DEF woken
  <2> QED
    BY <2>1, <2>2, <2>3
<1>2. TypeOK'
  BY <1>1 DEF TypeOK
<1>3. req[h] = captured /\ released' = captured
  BY DEF OneOwner
<1>4. OneOwner' /\ CapturedHasOwner' /\ InUse'
  BY <1>1, <1>3 DEF OneOwner, CapturedHasOwner, InUse, TypeOK
<1>5. HandledIsReleased'
  <2> SUFFICES ASSUME NEW g \in Handler, pc'[g] = "handled"
               PROVE  req[g] <= captured
    BY <1>3 DEF HandledIsReleased
  <2>1. CASE g = h
    BY <1>3, <2>1 DEF TypeOK
  <2>2. CASE g # h
    <3>1. pc[g] = "handled"
      BY <1>1, <2>2
    <3>2. req[g] <= released
      BY <3>1 DEF HandledIsReleased
    <3>3. req[g] \in Nat /\ released \in Nat /\ captured \in Nat /\ released <= captured
      BY DEF TypeOK
    <3> QED
      BY <3>2, <3>3
  <2> QED
    BY <2>1, <2>2
<1>6. ProcessedInOrder' /\ ProcessedBelow' /\ ProposedBelow' /\ NeverPanics'
  BY DEF ProcessedInOrder, ProcessedBelow, ProposedBelow, NeverPanics
<1>7. \A g \in Handler : pc'[g] # "idle" => req'[g] \in RequestID
  BY <1>1
<1> QED
  BY <1>2, <1>4, <1>5, <1>6, <1>7

\* A handler that is done with its request frees nobody and blocks nobody.
LEMMA FinishKeepsIInv ==
  ASSUME IInv, NEW h \in Handler, Finish(h)
  PROVE  IInv'
<1> USE BoundAssumption DEF Finish, IInv
<1>1. TypeOK'
  BY DEF TypeOK
<1>2. OneOwner' /\ HandledIsReleased' /\ CapturedHasOwner' /\ InUse'
  BY DEF TypeOK, OneOwner, HandledIsReleased, CapturedHasOwner, InUse
<1>3. ProcessedInOrder' /\ ProcessedBelow' /\ ProposedBelow' /\ NeverPanics'
  BY DEF ProcessedInOrder, ProcessedBelow, ProposedBelow, NeverPanics
<1>4. \A g \in Handler : pc'[g] # "idle" => req'[g] \in RequestID
  BY DEF TypeOK
<1> QED
  BY <1>1, <1>2, <1>3, <1>4

\* A handled request is released, so it is captured and can be prepared.
LEMMA PrepareKeepsIInv ==
  ASSUME IInv, NEW h \in Handler, Prepare(h)
  PROVE  IInv'
<1> USE BoundAssumption DEF Prepare, IInv
<1>1. req[h] \in RequestID /\ req[h] <= released /\ req[h] <= captured
  BY DEF HandledIsReleased, TypeOK, RequestID
<1>2. CASE req[h] > prepared
  <2> ~(req[h] > captured)
    BY <1>1 DEF TypeOK, RequestID
  <2>1. prepared' = req[h] /\ proposed' = proposed \cup {req[h]} /\ ~panicked'
    BY <1>1, <1>2, Zenon DEF NeverPanics
  <2>2. TypeOK'
    <3>1. pc' \in [Handler -> {"idle", "capture", "asleep", "captured", "handled"}]
      BY DEF TypeOK
    <3>2. prepared' \in 0..released /\ retired \in 0..prepared'
      BY <1>1, <1>2, <2>1 DEF TypeOK, RequestID
    <3>3. proposed' \subseteq RequestID /\ panicked' \in BOOLEAN
      BY <1>1, <2>1 DEF TypeOK
    <3> QED
      BY <3>1, <3>2, <3>3 DEF TypeOK
  <2>3. OneOwner' /\ HandledIsReleased' /\ CapturedHasOwner' /\ InUse'
    BY DEF TypeOK, OneOwner, HandledIsReleased, CapturedHasOwner, InUse
  <2>4. ProposedBelow' /\ NeverPanics'
    BY <1>1, <1>2, <2>1 DEF ProposedBelow, NeverPanics, TypeOK, RequestID
  <2>5. ProcessedInOrder' /\ ProcessedBelow'
    BY DEF ProcessedInOrder, ProcessedBelow
  <2>6. \A g \in Handler : pc'[g] # "idle" => req'[g] \in RequestID
    BY DEF TypeOK
  <2> QED
    BY <2>2, <2>3, <2>4, <2>5, <2>6
<1>3. CASE ~(req[h] > prepared)
  <2>1. prepared' = prepared /\ proposed' = proposed /\ ~panicked'
    BY <1>3, Zenon DEF NeverPanics
  <2>2. TypeOK'
    BY <2>1 DEF TypeOK
  <2>3. OneOwner' /\ HandledIsReleased' /\ CapturedHasOwner' /\ InUse'
    BY DEF TypeOK, OneOwner, HandledIsReleased, CapturedHasOwner, InUse
  <2>4. ProposedBelow' /\ NeverPanics' /\ ProcessedInOrder' /\ ProcessedBelow'
    BY <2>1 DEF ProposedBelow, NeverPanics, ProcessedInOrder, ProcessedBelow
  <2>5. \A g \in Handler : pc'[g] # "idle" => req'[g] \in RequestID
    BY DEF TypeOK
  <2> QED
    BY <2>2, <2>3, <2>4, <2>5
<1> QED
  BY <1>2, <1>3

\* A proposal that can be executed is prepared, so it can be retired.
LEMMA RetireKeepsIInv ==
  ASSUME IInv, NEW seq \in RequestID, Retire(seq)
  PROVE  IInv'
<1> USE BoundAssumption DEF Retire, IInv
<1>0. seq <= prepared /\ ~(seq > prepared)
  BY DEF ProposedBelow, TypeOK, RequestID
<1>1. seq <= prepared /\ retired' = seq /\ ~panicked'
  BY <1>0, Zenon DEF NeverPanics
<1>2. TypeOK'
  BY <1>1 DEF TypeOK, RequestID
<1>3. OneOwner' /\ HandledIsReleased' /\ CapturedHasOwner' /\ InUse'
  BY DEF OneOwner, HandledIsReleased, CapturedHasOwner, InUse
<1>4. ProcessedInOrder' /\ ProcessedBelow' /\ ProposedBelow' /\ NeverPanics'
  BY <1>1 DEF ProcessedInOrder, ProcessedBelow, ProposedBelow, NeverPanics
<1> QED
  BY <1>2, <1>3, <1>4

\* Going back to the ID retired last leaves nothing that can be executed.
LEMMA UnprepareKeepsIInv ==
  ASSUME IInv, Unprepare
  PROVE  IInv'
<1> USE BoundAssumption DEF Unprepare, Unprepared, IInv
<1>1. TypeOK'
  BY DEF TypeOK
<1>2. OneOwner' /\ HandledIsReleased' /\ CapturedHasOwner' /\ InUse'
  BY DEF OneOwner, HandledIsReleased, CapturedHasOwner, InUse
<1>3. ProcessedInOrder' /\ ProcessedBelow' /\ ProposedBelow' /\ NeverPanics'
  BY DEF ProcessedInOrder, ProcessedBelow, ProposedBelow, NeverPanics
<1> QED
  BY <1>1, <1>2, <1>3

\* Steps of the other parts of the replica leave the IDs alone.
LEMMA StutterKeepsIInv == IInv /\ UNCHANGED vars => IInv'
BY DEF vars, IInv, TypeOK, OneOwner, ProcessedInOrder, HandledIsReleased, NeverPanics,
   CapturedHasOwner, InUse, ProcessedBelow, ProposedBelow

\* IInv is inductive.
THEOREM Inductive == Spec => []IInv
<1>1. IInv /\ [Next]_vars => IInv'
  BY BeginKeepsIInv, CaptureKeepsIInv, ReleaseKeepsIInv, FinishKeepsIInv, PrepareKeepsIInv,
     RetireKeepsIInv, UnprepareKeepsIInv, StutterKeepsIInv DEF Next
<1> QED
  BY InitIInv, <1>1, PTL DEF Spec

-----------------------------------------------------------------------------
\* The variables of clientstate/request-seq keep their order: retired, prepared,
\* released, captured.
THEOREM TypeCorrect == Spec => []TypeOK
<1>1. IInv => TypeOK
  BY DEF IInv
<1> QED
  BY Inductive, <1>1, PTL

\* However many streams bring requests of a client, one handler at a time has
\* captured one and not released it (CaptureRequestSeq).
THEOREM CaptureIsExclusive == Spec => []OneOwner
<1>1. IInv => OneOwner
  BY DEF IInv
<1> QED
  BY Inductive, <1>1, PTL

\* The requests of a client are processed in the order of their IDs and at
\* most once (CaptureRequestSeq).
THEOREM CapturedInOrder == Spec => []ProcessedInOrder
<1>1. IInv => ProcessedInOrder
  BY DEF IInv
<1> QED
  BY Inductive, <1>1, PTL

\* A handler that goes on with a request finds it released (CaptureRequestSeq).
THEOREM CaptureWaits == Spec => []HandledIsReleased
<1>1. IInv => HandledIsReleased
  BY DEF IInv
<1> QED
  BY Inductive, <1>1, PTL

\* Whoever waits on the condition variable waits for a handler that will
\* broadcast.
THEOREM WaitersHaveOwner == Spec => []NoLostWakeup
<1>1. IInv => NoLostWakeup
  BY DEF IInv, NoLostWakeup, InUse, CapturedHasOwner
<1> QED
  BY Inductive, <1>1, PTL

\* PrepareRequestSeq and RetireRequestSeq never report an error, on which the
\* replica would panic.
THEOREM PreparedAndRetiredInOrder == Spec => []NeverPanics
<1>1. IInv => NeverPanics
  BY DEF IInv
<1> QED
  BY Inductive, <1>1, PTL

=============================================================================
