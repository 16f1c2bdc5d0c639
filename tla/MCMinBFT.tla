------------------------------ MODULE MCMinBFT ------------------------------
(***************************************************************************)
(* Instances of MinBFT for TLC.                                            *)
(***************************************************************************)
EXTENDS MinBFT

\* Every client reaches every replica.
ContactAll == [c \in Client |-> Replica]

\* One client reaches only the primary of view 0, the other one only the
\* primary of view 1: the two primaries order different requests first.
ContactPrimaries ==
  LET first == CHOOSE c \in Client : TRUE
  IN  [c \in Client |-> IF c = first THEN {0} ELSE {1}]

NoCut == {}

\* The primaries of views 0 and 1 only hear of each other through replica 2.
PrimariesCut == {<<0, 1>>, <<1, 0>>}

\* Replica 0 hears of nobody but the clients: it sends until it crashes.
CrashedDeaf == {<<0, 1>>, <<0, 2>>}

=============================================================================
