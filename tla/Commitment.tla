----------------------------- MODULE Commitment -----------------------------
(***************************************************************************)
(* The commitment collector of one replica (core/commit.go): Prepare,      *)
(* NewView and Commit messages of all replicas are turned into commitments *)
(* (replica, view, UI counter of the primary's proposal, UI counter of the *)
(* message) and a proposal is executed once commitCertSize replicas are    *)
(* committed to it.  The counter does not keep votes per proposal, it only *)
(* keeps the commitCertSize - 1 highest primary counters, so that counting *)
(* is correct only because every replica commits to the proposals of a     *)
(* view in the order of the primary's counter.                             *)
(***************************************************************************)
EXTENDS CommitmentOps, FiniteSets

CONSTANTS Replica,    \* replica identifiers
          CertSize,   \* commitCertSize = n - f
          Views,      \* view numbers that occur
          Counters,   \* UI counter values that occur
          NewViewCV   \* NewViewCV[v]: UI counter of the NewView message of v

ASSUME ReplicaAssumption == IsFiniteSet(Replica)
ASSUME CertSizeAssumption == CertSize \in Nat \ {0}
ASSUME ViewsAssumption == Views \subseteq Nat
ASSUME CountersAssumption == Counters \subseteq Nat \ {0}
\* A USIG never assigns one counter value to two messages and the primary of
\* v makes one NewView message for v: all replicas refer to the same counter.
ASSUME NewViewCVAssumption == NewViewCV \in [Views -> Counters]

VARIABLES col,        \* captured state of acceptor and counter
          votes,      \* history: the commitments accepted so far
          executed    \* proposals handed to executeRequest / acceptNewView

vars == <<col, votes, executed>>

Proposal == [view : Views, cv : Counters]
Vote == [replica : Replica, view : Views, cv : Counters]

Init ==
  /\ col = InitCollector(Replica, CertSize)
  /\ votes = {}
  /\ executed = {}

(***************************************************************************)
(* One call of the collector, made under its lock.  The call fails without *)
(* a change when the commitment is not accepted.  executeRequest and       *)
(* acceptNewView skip requests that are retired already, so a second       *)
(* "done" for a proposal changes nothing: executed is a set.               *)
(***************************************************************************)
CollectCommitment(r, newView, view, primaryCV, replicaCV) ==
  LET accepted == AcceptCommitment(col, r, view, primaryCV, replicaCV)
  IN /\ newView => primaryCV = NewViewCV[view]
     /\ AcceptsCommitment(col, r, newView, view, primaryCV, replicaCV)
     /\ col' = CountCommitment(accepted, view, primaryCV)
     /\ votes' = votes \cup
          {[replica |-> r, view |-> view, cv |-> primaryCV]}
     /\ executed' =
          IF CommitmentDone(accepted, view, primaryCV)
          THEN executed \cup {[view |-> view, cv |-> primaryCV]}
          ELSE executed

Next ==
  \E r \in Replica, newView \in BOOLEAN, view \in Views,
     primaryCV, replicaCV \in Counters :
       CollectCommitment(r, newView, view, primaryCV, replicaCV)

Spec == Init /\ [][Next]_vars

-----------------------------------------------------------------------------
\* The first proposal of a view: NewView, or the first Prepare in view 0.
FirstCV(v) == IF v = 0 THEN 1 ELSE NewViewCV[v]

\* The replicas known to collector c to have committed, in the counter's view,
\* to every proposal of that view up to counter cv.
Reached(c, cv) ==
  {r \in Replica : c.views[r] = c.lastView /\ c.primaryCVs[r] >= cv}

Voters(v, cv) ==
  {r \in Replica : [replica |-> r, view |-> v, cv |-> cv] \in votes}

\* Types of what makeCommitmentAcceptor and makeCommitmentCounter capture.
TypeOK ==
  /\ col \in [views      : [Replica -> Nat],
              primaryCVs : [Replica -> Nat],
              replicaCVs : [Replica -> Nat],
              lastView   : Nat,
              highest    : [1..(CertSize - 1) -> Nat]]
  /\ votes \subseteq Vote
  /\ executed \subseteq Proposal

(***************************************************************************)
(* What the slots of makeCommitmentCounter mean: slot i is at least cv     *)
(* exactly when i replicas have reached cv in the counter's view; in       *)
(* particular the slots are sorted.                                        *)
(***************************************************************************)
HighestRanked ==
  \A i \in 1..(CertSize - 1), cv \in Counters :
    col.highest[i] >= cv <=> Cardinality(Reached(col, cv)) >= i

(***************************************************************************)
(* A proposal is executed only with a commit certificate: commitCertSize   *)
(* distinct replicas have committed to this very proposal.                 *)
(***************************************************************************)
ExecutedIsCertified ==
  \A p \in executed : Cardinality(Voters(p.view, p.cv)) >= CertSize

(***************************************************************************)
(* The counter misses no certificate: in its view, every proposal          *)
(* commitCertSize replicas have reached is executed.                       *)
(***************************************************************************)
CertifiedIsExecuted ==
  \A cv \in Counters :
    /\ col.lastView \in Views
    /\ cv >= FirstCV(col.lastView)
    /\ Cardinality(Reached(col, cv)) >= CertSize
    => [view |-> col.lastView, cv |-> cv] \in executed

\* A newly executed proposal continues the order of the primary's counter.
OrderedStep ==
  \A p \in executed' \ executed :
    /\ \A q \in executed : q.view <= p.view
    /\ \/ p.cv = FirstCV(p.view)
       \/ [view |-> p.view, cv |-> p.cv - 1] \in executed

(***************************************************************************)
(* Proposals of a view are executed in the order of the primary's counter  *)
(* and none is skipped, whatever the order in which the replicas'          *)
(* commitments arrive; and nothing of an earlier view is executed after a  *)
(* later view has been entered.                                            *)
(***************************************************************************)
ExecutesInOrder == [][OrderedStep]_vars

=============================================================================
