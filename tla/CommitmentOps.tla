--------------------------- MODULE CommitmentOps ---------------------------
(***************************************************************************)
(* The commitment acceptor and the commitment counter of core/commit.go as *)
(* pure operators.  The variables captured by the two closures are the     *)
(* fields of one record:                                                   *)
(*                                                                         *)
(*   views[r], primaryCVs[r], replicaCVs[r]   makeCommitmentAcceptor       *)
(*   lastView, highest                        makeCommitmentCounter        *)
(*                                                                         *)
(* A Go map read at a missing key gives zero, hence the total functions.   *)
(***************************************************************************)
EXTENDS Naturals

InitCollector(replicas, certSize) ==
  [views      |-> [r \in replicas |-> 0],
   primaryCVs |-> [r \in replicas |-> 0],
   replicaCVs |-> [r \in replicas |-> 0],
   lastView   |-> 0,
   highest    |-> [i \in 1..(certSize - 1) |-> 0]]

\* Mutant: commitments may skip proposals of the primary.
AcceptsAnyPrimaryCV(c, r, newView, view, primaryCV, replicaCV) ==
  IF newView
  THEN view > c.views[r]
  ELSE view = c.views[r] /\ replicaCV = c.replicaCVs[r] + 1

\* acceptCommitment returns no error.
AcceptsCommitment(c, r, newView, view, primaryCV, replicaCV) ==
  IF newView
  THEN view > c.views[r]
  ELSE /\ view = c.views[r]
       /\ primaryCV = c.primaryCVs[r] + 1
       /\ replicaCV = c.replicaCVs[r] + 1

\* What an accepted commitment leaves in the acceptor's maps.
AcceptCommitment(c, r, view, primaryCV, replicaCV) ==
  [c EXCEPT !.views[r] = view,
            !.primaryCVs[r] = primaryCV,
            !.replicaCVs[r] = replicaCV]

\* Mutant: the slots are not reset for a later view.
SlotsKept(c, view) == c.highest

\* Mutant: one slot too many after the reset.
SlotsOneMore(c, view) ==
  IF view > c.lastView
  THEN [i \in DOMAIN c.highest \cup {0} |-> 0]
  ELSE c.highest

\* The slots the counter looks at: all zero when the view is a later one.
Slots(c, view) ==
  IF view > c.lastView THEN [i \in DOMAIN c.highest |-> 0] ELSE c.highest

\* Mutant: a slot with the same counter is overwritten.
TakeEqualSlot(h, primaryCV) ==
  [i \in DOMAIN h |-> IF /\ primaryCV >= h[i]
                         /\ \A j \in 1..(i - 1) : primaryCV < h[j]
                      THEN primaryCV
                      ELSE h[i]]

\* The loop over highest: the first slot below primaryCV takes it.
TakeSlot(h, primaryCV) ==
  [i \in DOMAIN h |-> IF /\ primaryCV > h[i]
                         /\ \A j \in 1..(i - 1) : primaryCV <= h[j]
                      THEN primaryCV
                      ELSE h[i]]

\* Mutant: a commitment for an earlier view takes the counter back.
CountEarlierView(c, view, primaryCV) ==
  [c EXCEPT !.lastView = view,
            !.highest = TakeSlot(Slots(c, view), primaryCV)]

\* countCommitment's effect on lastView and highest.
CountCommitment(c, view, primaryCV) ==
  IF view < c.lastView
  THEN c
  ELSE [c EXCEPT !.lastView = view,
                 !.highest = TakeSlot(Slots(c, view), primaryCV)]

\* countCommitment's result: no slot is below primaryCV.
CommitmentDone(c, view, primaryCV) ==
  /\ view >= c.lastView
  /\ \A i \in DOMAIN c.highest : primaryCV <= Slots(c, view)[i]

=============================================================================
