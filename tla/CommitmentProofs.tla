-------------------------- MODULE CommitmentProofs --------------------------
(***************************************************************************)
(* Proofs about the commitment collector, for any number of replicas, any  *)
(* certificate size and any views and counters.                            *)
(***************************************************************************)
EXTENDS Commitment, FiniteSetTheorems, TLAPS

PositiveNat == Nat \ {0}

\* Slot i of h is at least cv exactly when rank[cv] is at least i.
Ranks(S, h, rank) ==
  \A i \in 1..S, cv \in PositiveNat : h[i] >= cv <=> rank[cv] >= i

\* The number of replicas that have reached each counter value.
Rank(c) == [cv \in PositiveNat |-> Cardinality(Reached(c, cv))]

-----------------------------------------------------------------------------
\* TakeSlot, the loop of makeCommitmentCounter, keeps the slots natural numbers.
LEMMA TakeSlotType ==
  ASSUME NEW S \in Nat, NEW h \in [1..S -> Nat], NEW k \in Nat
  PROVE  TakeSlot(h, k) \in [1..S -> Nat]
BY DEF TakeSlot

\* TakeSlot keeps the slots ranked when one more replica reaches k: those
\* below k either had that replica counted already or all count it now.  No
\* slot is below k exactly when more replicas than there are slots reach k.
LEMMA TakeSlotRanks ==
  ASSUME NEW S \in Nat, NEW h \in [1..S -> Nat], NEW k \in PositiveNat,
         NEW old \in [PositiveNat -> Nat], NEW new \in [PositiveNat -> Nat],
         Ranks(S, h, old),
         new[k] = old[k] + 1,
         \A cv \in PositiveNat : cv > k => new[cv] = old[cv],
         \A cv \in PositiveNat : cv < k =>
            \/ new[cv] = old[cv] /\ old[cv] >= old[k] + 1
            \/ new[cv] = old[cv] + 1 /\ old[cv] = old[k]
  PROVE  /\ Ranks(S, TakeSlot(h, k), new)
         /\ (\A i \in 1..S : k <= h[i]) <=> new[k] >= S + 1
<1> DEFINE g == TakeSlot(h, k)
           taken == old[k] + 1
<1>0. k \in Nat /\ taken \in Nat \ {0}
  BY DEF PositiveNat
<1>1. \A i \in 1..S : k <= h[i] <=> i < taken
  BY DEF Ranks, PositiveNat
<1>2. \A i \in 1..S : g[i] = IF i = taken THEN k ELSE h[i]
  <2> SUFFICES ASSUME NEW i \in 1..S
               PROVE  g[i] = IF i = taken THEN k ELSE h[i]
    OBVIOUS
  <2>1. g[i] = IF k > h[i] /\ \A j \in 1..(i - 1) : k <= h[j] THEN k ELSE h[i]
    BY DEF TakeSlot
  <2>2. (k > h[i] /\ \A j \in 1..(i - 1) : k <= h[j]) <=> i = taken
    <3>1. k > h[i] <=> i >= taken
      BY <1>1, SMTT(20) DEF PositiveNat
    <3>2. i = taken => \A j \in 1..(i - 1) : k <= h[j]
      BY <1>1
    <3>3. i > taken => ~ \A j \in 1..(i - 1) : k <= h[j]
      <4> SUFFICES ASSUME i > taken
                   PROVE  \E j \in 1..(i - 1) : ~(k <= h[j])
        BY Zenon
      <4>1. taken \in 1..(i - 1) /\ taken \in 1..S
        BY <1>0
      <4> QED
        BY <1>1, <4>1
    <3> QED
      BY <3>1, <3>2, <3>3
  <2> QED
    BY <2>1, <2>2
<1>3. Ranks(S, g, new)
  <2> SUFFICES ASSUME NEW i \in 1..S, NEW cv \in PositiveNat
               PROVE  g[i] >= cv <=> new[cv] >= i
    BY DEF Ranks
  <2>1. h[i] >= cv <=> old[cv] >= i
    BY DEF Ranks
  <2>0. /\ cv \in Nat /\ i \in Nat /\ h[i] \in Nat /\ old[cv] \in Nat
        /\ g[i] = IF i = taken THEN k ELSE h[i]
    BY <1>2 DEF PositiveNat
  <2>2. i = taken => h[i] < k
    BY <1>1 DEF PositiveNat
  <2>3. CASE cv = k
    <3>1. g[i] >= k <=> i = taken \/ i < taken
      BY <1>0, <1>1, <1>2
    <3> QED
      BY <1>0, <2>3, <3>1
  <2>4. CASE cv > k
    <3>1. new[cv] = old[cv]
      BY <2>4
    <3> QED
      BY <1>0, <2>1, <2>2, <2>4, <2>0, <3>1
  <2>5. CASE cv < k
    <3>1. CASE new[cv] = old[cv] /\ old[cv] >= taken
      BY <1>0, <2>1, <2>5, <2>0, <3>1
    <3>2. CASE new[cv] = old[cv] + 1 /\ old[cv] = old[k]
      BY <1>0, <2>1, <2>5, <2>0, <3>2
    <3> QED
      BY <2>5, <3>1, <3>2
  <2> QED
    BY <2>3, <2>4, <2>5 DEF PositiveNat
<1>4. (\A i \in 1..S : k <= h[i]) <=> new[k] >= S + 1
  <2>1. new[k] >= S + 1 => \A i \in 1..S : k <= h[i]
    BY <1>1, SMTT(20) DEF PositiveNat
  <2>2. ASSUME new[k] < S + 1
        PROVE  ~(k <= h[taken]) /\ taken \in 1..S
    BY <1>1, <2>2 DEF PositiveNat
  <2> QED
    BY <2>1, <2>2 DEF PositiveNat
<1> QED
  BY <1>3, <1>4

-----------------------------------------------------------------------------
\* The inductive invariant

\* Nobody is ahead of the counter's view, and a replica that is in a view
\* later than 0 has committed to the NewView message that opened it.
Entered ==
  /\ \A r \in Replica :
       /\ col.views[r] <= col.lastView
       /\ col.views[r] > 0 => /\ col.views[r] \in Views
                              /\ col.primaryCVs[r] >= NewViewCV[col.views[r]]
  /\ col.lastView > 0 => col.lastView \in Views

\* A replica has voted for all proposals of its view up to its last one.
VotedUp ==
  \A r \in Replica, cv \in PositiveNat :
    cv >= FirstCV(col.views[r]) /\ cv <= col.primaryCVs[r]
      => [replica |-> r, view |-> col.views[r], cv |-> cv] \in votes

Ranked == Ranks(CertSize - 1, col.highest, Rank(col))

NoLaterExecuted == \A p \in executed : p.view <= col.lastView

CompleteExecuted ==
  \A cv \in PositiveNat :
    cv >= FirstCV(col.lastView) /\ Rank(col)[cv] >= CertSize
      => [view |-> col.lastView, cv |-> cv] \in executed

IInv ==
  /\ TypeOK
  /\ Entered
  /\ VotedUp
  /\ Ranked
  /\ NoLaterExecuted
  /\ ExecutedIsCertified
  /\ CompleteExecuted

-----------------------------------------------------------------------------
\* Reached sets are finite and shrink with the counter value.
LEMMA ReachedFinite ==
  ASSUME NEW c, NEW cv \in PositiveNat
  PROVE  IsFiniteSet(Reached(c, cv)) /\ Cardinality(Reached(c, cv)) \in Nat
<1>1. Reached(c, cv) \subseteq Replica
  BY DEF Reached
<1> QED
  BY <1>1, ReplicaAssumption, FS_Subset, FS_CardinalityType

\* The rank of a counter value is a natural number.
LEMMA RankType ==
  ASSUME NEW c
  PROVE  /\ Rank(c) \in [PositiveNat -> Nat]
         /\ \A cv \in PositiveNat : Rank(c)[cv] = Cardinality(Reached(c, cv))
BY ReachedFinite DEF Rank

\* The counter of a first proposal is a positive number.
LEMMA FirstCVType ==
  ASSUME NEW v \in Views \cup {0}
  PROVE  FirstCV(v) \in PositiveNat
<1>1. CASE v = 0
  BY <1>1 DEF FirstCV, PositiveNat
<1>2. CASE v \in Views /\ v # 0
  <2>1. NewViewCV[v] \in Counters
    BY <1>2, NewViewCVAssumption
  <2> QED
    BY <1>2, <2>1, CountersAssumption DEF FirstCV, PositiveNat
<1> QED
  BY <1>1, <1>2

\* What a call leaves in the fields of the collector.
Collected(r, view, primaryCV, replicaCV) ==
  /\ col'.views = [col.views EXCEPT ![r] = view]
  /\ col'.primaryCVs = [col.primaryCVs EXCEPT ![r] = primaryCV]
  /\ col'.replicaCVs = [col.replicaCVs EXCEPT ![r] = replicaCV]
  /\ view < col.lastView => /\ col'.lastView = col.lastView
                            /\ col'.highest = col.highest
  /\ view >= col.lastView =>
       /\ col'.lastView = view
       /\ col'.highest = TakeSlot(Slots(col, view), primaryCV)
  /\ col' \in [views      : [Replica -> Nat],
               primaryCVs : [Replica -> Nat],
               replicaCVs : [Replica -> Nat],
               lastView   : Nat,
               highest    : [1..(CertSize - 1) -> Nat]]

\* What one accepted call leaves in each field of the collector's state.
LEMMA CollectedFields ==
  ASSUME TypeOK, NEW r \in Replica, NEW newView \in BOOLEAN,
         NEW view \in Views, NEW primaryCV \in Counters,
         NEW replicaCV \in Counters,
         CollectCommitment(r, newView, view, primaryCV, replicaCV)
  PROVE  Collected(r, view, primaryCV, replicaCV)
<1> DEFINE c == AcceptCommitment(col, r, view, primaryCV, replicaCV)
<1>1. /\ view \in Nat /\ primaryCV \in Nat /\ replicaCV \in Nat
      /\ CertSize - 1 \in Nat
  BY ViewsAssumption, CountersAssumption, CertSizeAssumption
<1>2. /\ c.views = [col.views EXCEPT ![r] = view]
      /\ c.primaryCVs = [col.primaryCVs EXCEPT ![r] = primaryCV]
      /\ c.replicaCVs = [col.replicaCVs EXCEPT ![r] = replicaCV]
      /\ c.lastView = col.lastView
      /\ c.highest = col.highest
      /\ c \in [views      : [Replica -> Nat],
                primaryCVs : [Replica -> Nat],
                replicaCVs : [Replica -> Nat],
                lastView   : Nat,
                highest    : [1..(CertSize - 1) -> Nat]]
  BY <1>1 DEF AcceptCommitment, TypeOK
<1>3. Slots(c, view) = Slots(col, view)
  BY <1>2 DEF Slots
<1>4. Slots(col, view) \in [1..(CertSize - 1) -> Nat]
  BY DEF Slots, TypeOK
<1>5. TakeSlot(Slots(col, view), primaryCV) \in [1..(CertSize - 1) -> Nat]
  BY <1>1, <1>4, TakeSlotType
<1>6. col' = CountCommitment(c, view, primaryCV)
  BY DEF CollectCommitment
<1> HIDE DEF c
<1>7. CASE view < col.lastView
  BY <1>1, <1>2, <1>6, <1>7 DEF CountCommitment, Collected, TypeOK
<1>8. CASE view >= col.lastView
  <2> DEFINE h == TakeSlot(Slots(col, view), primaryCV)
  <2>1. h \in [1..(CertSize - 1) -> Nat]
    BY <1>5
  <2>2. col' = [c EXCEPT !.lastView = view, !.highest = h]
    BY <1>1, <1>2, <1>3, <1>6, <1>8 DEF CountCommitment, TypeOK
  <2> HIDE DEF h
  <2>3. /\ col'.views = c.views
        /\ col'.primaryCVs = c.primaryCVs
        /\ col'.replicaCVs = c.replicaCVs
        /\ col'.lastView = view
        /\ col'.highest = h
        /\ col' \in [views      : [Replica -> Nat],
                     primaryCVs : [Replica -> Nat],
                     replicaCVs : [Replica -> Nat],
                     lastView   : Nat,
                     highest    : [1..(CertSize - 1) -> Nat]]
    BY <1>1, <1>2, <2>1, <2>2
  <2> QED
    BY <1>1, <1>2, <1>8, <2>3 DEF h, Collected, TypeOK
<1> QED
  BY <1>1, <1>7, <1>8 DEF TypeOK

-----------------------------------------------------------------------------
\* The ranks that the slots countCommitment looks at stand for.
OldRank(view) ==
  IF view > col.lastView THEN [cv \in PositiveNat |-> 0] ELSE Rank(col)

\* A commitment for an earlier view than the counter's changes no rank.
LEMMA RankKept ==
  ASSUME TypeOK, Entered, NEW r \in Replica, NEW newView \in BOOLEAN,
         NEW view \in Views, NEW primaryCV \in Counters,
         NEW replicaCV \in Counters,
         CollectCommitment(r, newView, view, primaryCV, replicaCV),
         view < col.lastView
  PROVE  Rank(col') = Rank(col)
<1>0. Collected(r, view, primaryCV, replicaCV)
  BY CollectedFields
<1>1. /\ col'.views = [col.views EXCEPT ![r] = view]
      /\ col'.primaryCVs = [col.primaryCVs EXCEPT ![r] = primaryCV]
      /\ col'.lastView = col.lastView
  BY <1>0 DEF Collected
<1>2. col.views[r] <= view
  BY ViewsAssumption DEF CollectCommitment, AcceptsCommitment, TypeOK
<1>3. col.views[r] # col.lastView /\ view # col.lastView
  BY <1>2, ViewsAssumption DEF TypeOK
<1>4. ASSUME NEW cv \in PositiveNat
      PROVE  Reached(col', cv) = Reached(col, cv)
  BY <1>1, <1>3 DEF Reached, TypeOK
<1> QED
  BY <1>4 DEF Rank

\* Otherwise one more replica reaches the proposal's counter, in the way that
\* TakeSlotRanks asks for.
LEMMA RankGrown ==
  ASSUME TypeOK, Entered, NEW r \in Replica, NEW newView \in BOOLEAN,
         NEW view \in Views, NEW primaryCV \in Counters,
         NEW replicaCV \in Counters,
         CollectCommitment(r, newView, view, primaryCV, replicaCV),
         view >= col.lastView
  PROVE  LET old == OldRank(view)
             new == Rank(col')
             k   == primaryCV
         IN  /\ new[k] = old[k] + 1
             /\ \A cv \in PositiveNat : cv > k => new[cv] = old[cv]
             /\ \A cv \in PositiveNat : cv < k =>
                   \/ new[cv] = old[cv] /\ old[cv] >= old[k] + 1
                   \/ new[cv] = old[cv] + 1 /\ old[cv] = old[k]
             /\ ~newView => /\ view = col.lastView
                            /\ \A cv \in PositiveNat :
                                 cv # k => new[cv] = old[cv]
<1> DEFINE k == primaryCV
           Old(cv) == Reached(col, cv)
           New(cv) == Reached(col', cv)
<1>0. Collected(r, view, primaryCV, replicaCV)
  BY CollectedFields
<1>1. /\ col'.views = [col.views EXCEPT ![r] = view]
      /\ col'.primaryCVs = [col.primaryCVs EXCEPT ![r] = k]
      /\ col'.lastView = view
  BY <1>0 DEF Collected
<1>2. k \in PositiveNat /\ k \in Nat /\ view \in Nat
  BY CountersAssumption, ViewsAssumption DEF PositiveNat
<1>3. \A cv \in PositiveNat : /\ Rank(col)[cv] = Cardinality(Old(cv))
                              /\ Rank(col')[cv] = Cardinality(New(cv))
                              /\ IsFiniteSet(Old(cv))
                              /\ Cardinality(Old(cv)) \in Nat
  BY RankType, ReachedFinite
<1>4. \A q \in Replica, cv \in PositiveNat :
        q \in New(cv) <=> IF q = r THEN k >= cv
                          ELSE col.views[q] = view /\ col.primaryCVs[q] >= cv
  BY <1>1 DEF Reached, TypeOK
<1>5. \A cv \in PositiveNat : New(cv) \subseteq Replica /\ Old(cv) \subseteq Replica
  BY DEF Reached
<1>6. CASE view > col.lastView
  <2>1. \A cv \in PositiveNat : New(cv) = IF k >= cv THEN {r} ELSE {}
    <3>1. \A q \in Replica : col.views[q] # view
      BY <1>2, <1>6 DEF Entered, TypeOK
    <3> QED
      BY <1>4, <1>5, <3>1
  <2>2. \A cv \in PositiveNat : Cardinality(New(cv)) = IF k >= cv THEN 1 ELSE 0
    BY <2>1, FS_EmptySet, FS_Singleton
  <2>3. \A cv \in PositiveNat : OldRank(view)[cv] = 0
    BY <1>6 DEF OldRank
  <2>4. newView
    BY <1>2, <1>6 DEF CollectCommitment, AcceptsCommitment, Entered, TypeOK
  <2> QED
    BY <1>2, <1>3, <2>2, <2>3, <2>4 DEF PositiveNat
<1>7. CASE view = col.lastView
  <2>1. \A cv \in PositiveNat : OldRank(view)[cv] = Cardinality(Old(cv))
    BY <1>2, <1>3, <1>7 DEF OldRank
  <2>2. \A q \in Replica, cv \in PositiveNat :
          q \in Old(cv) <=> col.views[q] = view /\ col.primaryCVs[q] >= cv
    BY <1>7 DEF Reached
  <2>3. CASE newView
    <3>1. view > col.views[r] /\ view > 0 /\ k = NewViewCV[view]
      BY <1>2, <2>3 DEF CollectCommitment, AcceptsCommitment, TypeOK
    <3>2. \A cv \in PositiveNat : r \notin Old(cv)
      BY <1>2, <2>2, <3>1 DEF TypeOK
    <3>3. \A cv \in PositiveNat : cv <= k => New(cv) = Old(cv) \cup {r}
      BY <1>2, <1>4, <1>5, <2>2 DEF PositiveNat
    <3>4. \A cv \in PositiveNat : cv > k => New(cv) = Old(cv)
      BY <1>2, <1>4, <1>5, <2>2, <3>2 DEF PositiveNat
    <3>5. \A cv \in PositiveNat : cv < k => Old(cv) = Old(k)
      <4>1. \A q \in Replica : col.views[q] = view => col.primaryCVs[q] >= k
        BY <3>1 DEF Entered
      <4>2. \A q \in Replica, cv \in PositiveNat :
              cv < k => (q \in Old(cv) <=> q \in Old(k))
        BY <1>2, <2>2, <4>1 DEF PositiveNat, TypeOK
      <4> QED
        BY <1>2, <1>5, <4>2
    <3>6. \A cv \in PositiveNat :
            cv <= k => Cardinality(New(cv)) = Cardinality(Old(cv)) + 1
      BY <1>3, <3>2, <3>3, FS_AddElement
    <3> QED
      BY <1>2, <1>3, <2>1, <2>3, <3>4, <3>5, <3>6 DEF PositiveNat
  <2>4. CASE ~newView
    <3>1. col.views[r] = view /\ k = col.primaryCVs[r] + 1
      BY <2>4 DEF CollectCommitment, AcceptsCommitment
    <3>2. \A cv \in PositiveNat : cv # k => New(cv) = Old(cv)
      <4>1. \A q \in Replica, cv \in PositiveNat :
              cv # k => (q \in New(cv) <=> q \in Old(cv))
        BY <1>2, <1>4, <2>2, <3>1 DEF PositiveNat, TypeOK
      <4> QED
        BY <1>5, <4>1
    <3>3. r \notin Old(k) /\ New(k) = Old(k) \cup {r}
      BY <1>2, <1>4, <1>5, <2>2, <3>1 DEF PositiveNat, TypeOK
    <3>4. Cardinality(New(k)) = Cardinality(Old(k)) + 1
      BY <1>2, <1>3, <3>3, FS_AddElement, ZenonT(30)
    <3>5. ASSUME NEW cv \in PositiveNat, cv < k
          PROVE  Cardinality(Old(cv)) >= Cardinality(Old(k)) + 1
      <4>1. New(k) \subseteq Old(cv)
        BY <1>2, <1>5, <2>2, <3>1, <3>3, <3>5 DEF PositiveNat, TypeOK
      <4>2. Cardinality(New(k)) <= Cardinality(Old(cv))
        BY <1>3, <4>1, FS_Subset
      <4> QED
        BY <1>2, <1>3, <3>4, <4>2
    <3> QED
      BY <1>2, <1>3, <1>7, <2>1, <3>2, <3>4, <3>5 DEF PositiveNat
  <2> QED
    BY <2>3, <2>4
<1> QED
  BY <1>2, <1>6, <1>7 DEF TypeOK

\* The slots stay ranked, and countCommitment answers "done" exactly when
\* CertSize replicas have reached the proposal.
LEMMA RankedAfter ==
  ASSUME TypeOK, Entered, Ranked, NEW r \in Replica, NEW newView \in BOOLEAN,
         NEW view \in Views, NEW primaryCV \in Counters,
         NEW replicaCV \in Counters,
         CollectCommitment(r, newView, view, primaryCV, replicaCV)
  PROVE  /\ Ranks(CertSize - 1, col'.highest, Rank(col'))
         /\ CommitmentDone(AcceptCommitment(col, r, view, primaryCV, replicaCV),
                           view, primaryCV)
              <=> view >= col.lastView /\ Rank(col')[primaryCV] >= CertSize
<1> DEFINE c == AcceptCommitment(col, r, view, primaryCV, replicaCV)
           S == CertSize - 1
<1>1. Collected(r, view, primaryCV, replicaCV)
  BY CollectedFields
<1>2. /\ c.lastView = col.lastView /\ c.highest = col.highest
      /\ Slots(c, view) = Slots(col, view)
  BY DEF AcceptCommitment, Slots, TypeOK
<1>3. /\ S \in Nat /\ CertSize = S + 1 /\ CertSize \in Nat
      /\ view \in Nat /\ primaryCV \in PositiveNat
      /\ col.lastView \in Nat
  BY CertSizeAssumption, ViewsAssumption, CountersAssumption
     DEF PositiveNat, TypeOK
<1>4. CASE view < col.lastView
  <2>1. Rank(col') = Rank(col) /\ col'.highest = col.highest
    BY <1>1, <1>4, RankKept DEF Collected
  <2>2. ~CommitmentDone(c, view, primaryCV)
    BY <1>2, <1>3, <1>4 DEF CommitmentDone
  <2> QED
    BY <1>3, <1>4, <2>1, <2>2 DEF Ranked
<1>5. CASE view >= col.lastView
  <2> DEFINE h == Slots(col, view)
             old == OldRank(view)
             new == Rank(col')
  <2>1. h \in [1..S -> Nat] /\ DOMAIN c.highest = 1..S
    BY <1>2 DEF Slots, TypeOK
  <2>2. old \in [PositiveNat -> Nat] /\ new \in [PositiveNat -> Nat]
    BY RankType DEF OldRank
  <2>3. Ranks(S, h, old)
    <3>1. CASE view > col.lastView
      <4>1. \A i \in 1..S : h[i] = 0
        BY <3>1 DEF Slots, TypeOK
      <4>2. \A cv \in PositiveNat : old[cv] = 0
        BY <3>1 DEF OldRank
      <4> QED
        BY <4>1, <4>2 DEF Ranks, PositiveNat
    <3>2. CASE view = col.lastView
      BY <1>3, <3>2 DEF Ranked, Slots, OldRank
    <3> QED
      BY <1>3, <1>5, <3>1, <3>2
  <2>4. /\ new[primaryCV] = old[primaryCV] + 1
        /\ \A cv \in PositiveNat : cv > primaryCV => new[cv] = old[cv]
        /\ \A cv \in PositiveNat : cv < primaryCV =>
              \/ new[cv] = old[cv] /\ old[cv] >= old[primaryCV] + 1
              \/ new[cv] = old[cv] + 1 /\ old[cv] = old[primaryCV]
    BY <1>5, RankGrown
  <2> HIDE DEF h, old, new, S
  <2>5. /\ Ranks(S, TakeSlot(h, primaryCV), new)
        /\ (\A i \in 1..S : primaryCV <= h[i]) <=> new[primaryCV] >= S + 1
    BY <1>3, <2>1, <2>2, <2>3, <2>4, TakeSlotRanks
  <2>6. CommitmentDone(c, view, primaryCV) <=> \A i \in 1..S : primaryCV <= h[i]
    BY <1>2, <1>5, <2>1 DEF CommitmentDone, h
  <2>7. col'.highest = TakeSlot(h, primaryCV)
    BY <1>1, <1>5 DEF Collected, h
  <2> QED
    BY <1>3, <1>5, <2>5, <2>6, <2>7 DEF new, S
<1> QED
  BY <1>3, <1>4, <1>5

-----------------------------------------------------------------------------
\* A commitment is never for less than the first proposal of its view, and
\* one that is for the first proposal is the replica's first in that view.
LEMMA AtLeastFirst ==
  ASSUME TypeOK, Entered, NEW r \in Replica, NEW newView \in BOOLEAN,
         NEW view \in Views, NEW primaryCV \in Counters,
         NEW replicaCV \in Counters,
         CollectCommitment(r, newView, view, primaryCV, replicaCV)
  PROVE  /\ primaryCV >= FirstCV(view)
         /\ newView => view > 0 /\ primaryCV = FirstCV(view)
<1>1. /\ view \in Nat /\ primaryCV \in Nat /\ primaryCV >= 1
      /\ col.views[r] \in Nat /\ col.primaryCVs[r] \in Nat
  BY ViewsAssumption, CountersAssumption DEF TypeOK
<1>2. NewViewCV[view] \in Nat
  BY NewViewCVAssumption, CountersAssumption
<1>3. CASE newView
  BY <1>1, <1>2, <1>3 DEF CollectCommitment, AcceptsCommitment, FirstCV
<1>4. CASE ~newView
  <2>1. view = col.views[r] /\ primaryCV = col.primaryCVs[r] + 1
    BY <1>4 DEF CollectCommitment, AcceptsCommitment
  <2>2. view > 0 => col.primaryCVs[r] >= NewViewCV[view]
    BY <2>1 DEF Entered
  <2> QED
    BY <1>1, <1>2, <1>4, <2>1, <2>2 DEF FirstCV
<1> QED
  BY <1>3, <1>4

\* Every call of the collector keeps the inductive invariant.
LEMMA CollectKeepsIInv ==
  ASSUME IInv, NEW r \in Replica, NEW newView \in BOOLEAN,
         NEW view \in Views, NEW primaryCV \in Counters,
         NEW replicaCV \in Counters,
         CollectCommitment(r, newView, view, primaryCV, replicaCV)
  PROVE  IInv'
<1> DEFINE vote == [replica |-> r, view |-> view, cv |-> primaryCV]
           prop == [view |-> view, cv |-> primaryCV]
           done == view >= col.lastView /\ Rank(col')[primaryCV] >= CertSize
<1>1. TypeOK /\ Entered /\ VotedUp /\ Ranked /\ NoLaterExecuted
      /\ ExecutedIsCertified /\ CompleteExecuted
  BY DEF IInv
<1>2. Collected(r, view, primaryCV, replicaCV)
  BY <1>1, CollectedFields
<1>3. /\ votes' = votes \cup {vote}
      /\ executed' = IF done THEN executed \cup {prop} ELSE executed
  BY <1>1, RankedAfter DEF CollectCommitment
<1>4. primaryCV >= FirstCV(view) /\ (newView => view > 0 /\ primaryCV = FirstCV(view))
  BY <1>1, AtLeastFirst
<1>5. /\ view \in Nat /\ primaryCV \in PositiveNat /\ primaryCV \in Nat
      /\ col.lastView \in Nat /\ CertSize \in Nat \ {0}
  BY <1>1, ViewsAssumption, CountersAssumption, CertSizeAssumption
     DEF TypeOK, PositiveNat
<1>6. TypeOK'
  <2>1. vote \in Vote /\ prop \in Proposal
    BY DEF Vote, Proposal
  <2> QED
    BY <1>1, <1>2, <1>3, <2>1 DEF TypeOK, Collected
<1>7. Entered'
  BY <1>1, <1>2, <1>4, <1>5, SMTT(20) DEF Entered, Collected, FirstCV, TypeOK
<1>8. VotedUp'
  <2> SUFFICES ASSUME NEW q \in Replica, NEW cv \in PositiveNat,
                      cv >= FirstCV(col'.views[q]), cv <= col'.primaryCVs[q]
               PROVE  [replica |-> q, view |-> col'.views[q], cv |-> cv] \in votes'
    BY DEF VotedUp, FirstCV
  <2>1. CASE q # r
    BY <1>1, <1>2, <1>3, <2>1 DEF VotedUp, Collected, TypeOK
  <2>2. CASE q = r /\ cv = primaryCV
    BY <1>1, <1>2, <1>3, <2>2 DEF Collected, TypeOK
  <2>3. CASE q = r /\ cv # primaryCV
    <3>1. cv < primaryCV /\ cv >= FirstCV(view) /\ col'.views[q] = view
      BY <1>1, <1>2, <1>5, <2>3 DEF Collected, TypeOK, PositiveNat
    <3>2. ~newView
      BY <1>4, <1>5, <3>1 DEF PositiveNat
    <3>3. view = col.views[r] /\ primaryCV = col.primaryCVs[r] + 1
      BY <3>2 DEF CollectCommitment, AcceptsCommitment
    <3>4. cv <= col.primaryCVs[r]
      BY <1>1, <1>5, <3>1, <3>3 DEF TypeOK, PositiveNat
    <3> QED
      BY <1>1, <1>3, <2>3, <3>1, <3>3, <3>4 DEF VotedUp
  <2> QED
    BY <2>1, <2>2, <2>3
<1>9. Ranked'
  BY <1>1, RankedAfter DEF Ranked
<1>10. NoLaterExecuted'
  <2> SUFFICES ASSUME NEW p \in executed'
               PROVE  p.view <= col'.lastView
    BY DEF NoLaterExecuted
  <2>1. /\ col'.lastView \in Nat /\ col.lastView <= col'.lastView
        /\ view >= col.lastView => col'.lastView = view
    BY <1>2, <1>5 DEF Collected
  <2>2. CASE p \in executed
    <3>1. p.view <= col.lastView /\ p.view \in Nat
      BY <1>1, <2>2, ViewsAssumption DEF NoLaterExecuted, TypeOK, Proposal
    <3> QED
      BY <1>5, <2>1, <3>1
  <2>3. CASE p = prop /\ done
    BY <1>5, <2>1, <2>3
  <2> QED
    BY <1>3, <2>2, <2>3
<1>11. ExecutedIsCertified'
  <2> SUFFICES ASSUME NEW p \in executed'
               PROVE  Cardinality(Voters(p.view, p.cv)') >= CertSize
    BY DEF ExecutedIsCertified
  <2>1. /\ IsFiniteSet(Voters(p.view, p.cv)')
        /\ Cardinality(Voters(p.view, p.cv)') \in Nat
    <3>1. Voters(p.view, p.cv)' \subseteq Replica
      BY DEF Voters
    <3> QED
      BY <3>1, ReplicaAssumption, FS_Subset, FS_CardinalityType
  <2>2. CASE p \in executed
    <3>1. Voters(p.view, p.cv) \subseteq Voters(p.view, p.cv)'
      BY <1>3 DEF Voters
    <3>2. /\ Cardinality(Voters(p.view, p.cv)) <= Cardinality(Voters(p.view, p.cv)')
          /\ Cardinality(Voters(p.view, p.cv)) \in Nat
      BY <2>1, <3>1, FS_Subset, FS_CardinalityType
    <3>3. Cardinality(Voters(p.view, p.cv)) >= CertSize
      BY <1>1, <2>2 DEF ExecutedIsCertified
    <3> QED
      BY <1>5, <2>1, <3>2, <3>3
  <2>3. CASE p = prop /\ done
    <3>1. Reached(col', primaryCV) \subseteq Voters(p.view, p.cv)'
      <4> SUFFICES ASSUME NEW q \in Replica, col'.views[q] = col'.lastView,
                          col'.primaryCVs[q] >= primaryCV
                   PROVE  [replica |-> q, view |-> view, cv |-> primaryCV] \in votes'
        BY <2>3 DEF Reached, Voters
      <4>1. col'.views[q] = view
        BY <1>2, <2>3 DEF Collected
      <4>2. primaryCV <= col'.primaryCVs[q]
        BY <1>2, <1>5 DEF Collected
      <4>3. primaryCV >= FirstCV(col'.views[q])
        BY <1>4, <4>1
      <4> QED
        BY <1>5, <1>8, <4>1, <4>2, <4>3 DEF VotedUp, FirstCV
    <3>2. /\ Cardinality(Reached(col', primaryCV)) >= CertSize
          /\ Cardinality(Reached(col', primaryCV)) \in Nat
      BY <1>5, <2>3, RankType, ReachedFinite
    <3>3. Cardinality(Reached(col', primaryCV)) <= Cardinality(Voters(p.view, p.cv)')
      BY <2>1, <3>1, FS_Subset
    <3> QED
      BY <1>5, <2>1, <3>2, <3>3
  <2> QED
    BY <1>3, <2>2, <2>3
<1>12. CompleteExecuted'
  <2> SUFFICES ASSUME NEW cv \in PositiveNat,
                      cv >= FirstCV(col'.lastView), Rank(col')[cv] >= CertSize
               PROVE  [view |-> col'.lastView, cv |-> cv] \in executed'
    BY DEF CompleteExecuted, FirstCV
  <2>1. CASE view < col.lastView
    <3>1. Rank(col') = Rank(col) /\ col'.lastView = col.lastView
      BY <1>1, <1>2, <2>1, RankKept DEF Collected
    <3> QED
      BY <1>1, <1>3, <3>1 DEF CompleteExecuted
  <2>2. CASE view >= col.lastView /\ cv = primaryCV
    BY <1>2, <1>3, <2>2 DEF Collected
  <2>3. CASE view >= col.lastView /\ cv # primaryCV
    <3>1. col'.lastView = view
      BY <1>2, <2>3 DEF Collected
    <3>2. Rank(col')[cv] = OldRank(view)[cv]
      <4>1. CASE cv > primaryCV
        BY <1>1, <2>3, <4>1, RankGrown
      <4>2. CASE cv < primaryCV
        <5>1. ~newView
          BY <1>4, <1>5, <3>1, <4>2 DEF PositiveNat
        <5> QED
          BY <1>1, <2>3, <5>1, RankGrown
      <4> QED
        BY <1>5, <2>3, <4>1, <4>2 DEF PositiveNat
    <3>3. view = col.lastView
      BY <1>5, <2>3, <3>2 DEF OldRank
    <3> QED
      BY <1>1, <1>3, <1>5, <3>1, <3>2, <3>3 DEF CompleteExecuted, OldRank
  <2> QED
    BY <1>5, <2>1, <2>2, <2>3
<1> QED
  BY <1>6, <1>7, <1>8, <1>9, <1>10, <1>11, <1>12 DEF IInv

\* The invariant holds in the initial state: nobody has reached anything.
LEMMA InitIInv == Init => IInv
<1> SUFFICES ASSUME Init PROVE IInv
  OBVIOUS
<1>1. /\ col.views = [r \in Replica |-> 0] /\ col.primaryCVs = [r \in Replica |-> 0]
      /\ col.replicaCVs = [r \in Replica |-> 0] /\ col.lastView = 0
      /\ col.highest = [i \in 1..(CertSize - 1) |-> 0]
      /\ votes = {} /\ executed = {}
  BY DEF Init, InitCollector
<1>2. TypeOK
  BY DEF Init, InitCollector, TypeOK
<1>3. \A cv \in PositiveNat : Rank(col)[cv] = 0
  <2>1. \A cv \in PositiveNat : Reached(col, cv) = {}
    BY <1>1 DEF Reached, PositiveNat
  <2> QED
    BY <2>1, RankType, FS_EmptySet
<1>4. Entered
  BY <1>1 DEF Entered
<1>5. VotedUp
  BY <1>1 DEF VotedUp, PositiveNat
<1>6. Ranked
  BY <1>1, <1>3 DEF Ranked, Ranks, PositiveNat
<1>7. CompleteExecuted
  BY <1>3, CertSizeAssumption DEF CompleteExecuted
<1> QED
  BY <1>1, <1>2, <1>4, <1>5, <1>6, <1>7
     DEF IInv, NoLaterExecuted, ExecutedIsCertified

\* Every step of the specification keeps the inductive invariant.
LEMMA NextKeepsIInv == IInv /\ [Next]_vars => IInv'
<1> SUFFICES ASSUME IInv, [Next]_vars PROVE IInv'
  OBVIOUS
<1>1. CASE Next
  BY <1>1, CollectKeepsIInv DEF Next
<1>2. CASE UNCHANGED vars
  BY <1>2 DEF vars, IInv, TypeOK, Entered, VotedUp, Ranked, NoLaterExecuted,
              ExecutedIsCertified, CompleteExecuted, Voters
<1> QED
  BY <1>1, <1>2

\* The inductive invariant holds in every reachable state of the collector.
THEOREM Invariance == Spec => []IInv
BY InitIInv, NextKeepsIInv, PTL DEF Spec

\* The collector's maps and slots always hold natural numbers.
THEOREM TypeCorrect == Spec => []TypeOK
<1>1. IInv => TypeOK
  BY DEF IInv
<1> QED
  BY <1>1, Invariance, PTL

\* Slot i of makeCommitmentCounter is always the i-th highest counter that
\* the replicas of the view have reached.
THEOREM SlotsAreRanked == Spec => []HighestRanked
<1>1. IInv => HighestRanked
  <2>1. Counters \subseteq PositiveNat
    BY CountersAssumption DEF PositiveNat
  <2> QED
    BY <2>1, RankType DEF IInv, Ranked, Ranks, HighestRanked
<1> QED
  BY <1>1, Invariance, PTL

\* makeCommitmentCollector executes nothing without a commit certificate.
THEOREM OnlyCertifiedExecuted == Spec => []ExecutedIsCertified
<1>1. IInv => ExecutedIsCertified
  BY DEF IInv
<1> QED
  BY <1>1, Invariance, PTL

\* makeCommitmentCounter misses no commit certificate of its view.
THEOREM AllCertifiedExecuted == Spec => []CertifiedIsExecuted
<1>1. IInv => CertifiedIsExecuted
  <2>1. Counters \subseteq PositiveNat
    BY CountersAssumption DEF PositiveNat
  <2> QED
    BY <2>1, RankType DEF IInv, CompleteExecuted, CertifiedIsExecuted
<1> QED
  BY <1>1, Invariance, PTL

\* Whatever commitments arrive in which order, the proposals of a view are
\* executed in the order of the primary's counter, without a gap.
THEOREM InOrder == Spec => ExecutesInOrder
<1>1. ASSUME IInv, NEW r \in Replica, NEW newView \in BOOLEAN,
             NEW view \in Views, NEW primaryCV \in Counters,
             NEW replicaCV \in Counters,
             CollectCommitment(r, newView, view, primaryCV, replicaCV)
      PROVE  OrderedStep
  <2> DEFINE k == primaryCV
  <2> SUFFICES ASSUME NEW p \in executed' \ executed
               PROVE  /\ \A q \in executed : q.view <= p.view
                      /\ \/ p.cv = FirstCV(p.view)
                         \/ [view |-> p.view, cv |-> p.cv - 1] \in executed
    BY DEF OrderedStep
  <2>1. TypeOK /\ Entered /\ Ranked /\ NoLaterExecuted /\ CompleteExecuted
    BY <1>1 DEF IInv
  <2>2. /\ p = [view |-> view, cv |-> k]
        /\ view >= col.lastView /\ Rank(col')[k] >= CertSize
    BY <1>1, <2>1, RankedAfter DEF CollectCommitment
  <2>3. k >= FirstCV(view) /\ (newView => k = FirstCV(view))
    BY <1>1, <2>1, AtLeastFirst
  <2>4. /\ view \in Nat /\ k \in PositiveNat /\ k \in Nat /\ CertSize \in Nat
        /\ col.lastView \in Nat /\ FirstCV(view) \in PositiveNat
    BY <2>1, ViewsAssumption, CountersAssumption, CertSizeAssumption, FirstCVType
       DEF TypeOK, PositiveNat
  <2>5. \A q \in executed : q.view <= p.view
    <3>1. \A q \in executed : q.view <= col.lastView /\ q.view \in Nat
      BY <2>1, ViewsAssumption DEF NoLaterExecuted, TypeOK, Proposal
    <3> QED
      BY <2>2, <2>4, <3>1
  <2>6. CASE k # FirstCV(view)
    <3>1. ~newView /\ k - 1 \in PositiveNat /\ k - 1 >= FirstCV(view)
      BY <2>3, <2>4, <2>6 DEF PositiveNat
    <3>2. /\ view = col.lastView
          /\ Rank(col')[k] = OldRank(view)[k] + 1
          /\ Rank(col')[k - 1] = OldRank(view)[k - 1]
          /\ \/ OldRank(view)[k - 1] >= OldRank(view)[k] + 1
             \/ Rank(col')[k - 1] = OldRank(view)[k - 1] + 1
      <4>1. k - 1 < k /\ k - 1 # k
        BY <2>4
      <4> QED
        BY <1>1, <2>1, <2>2, <3>1, <4>1, RankGrown
    <3>3. OldRank(view) = Rank(col) /\ Rank(col)[k - 1] \in Nat /\ Rank(col)[k] \in Nat
      BY <2>4, <3>1, <3>2, RankType DEF OldRank
    <3>4. Rank(col)[k - 1] >= CertSize
      BY <2>2, <2>4, <3>2, <3>3
    <3> QED
      BY <2>1, <2>2, <2>5, <3>1, <3>2, <3>4 DEF CompleteExecuted
  <2> QED
    BY <2>2, <2>5, <2>6
<1>2. IInv /\ [Next]_vars => [OrderedStep]_vars
  BY <1>1 DEF Next
<1> QED
  BY <1>2, Invariance, PTL DEF Spec, ExecutesInOrder

=============================================================================
