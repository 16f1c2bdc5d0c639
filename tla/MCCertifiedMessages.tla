------------------------ MODULE MCCertifiedMessages ------------------------
(***************************************************************************)
(* Instance of CertifiedMessages for TLC: two replicas with two goroutines *)
(* each, the first of which may restart once, and requests of two clients  *)
(* that differ in nothing else.                                            *)
(***************************************************************************)
EXTENDS CertifiedMessages

CONSTANTS t1, t2

MCReplica == 0..1
MCMayFail == {0}
MCThread == {t1, t2}
MCSymmetry == Permutations(MCThread)
MCSignature == <<1>>
MCRequests == {SetSignature(NewRequest(cl, 1, <<1>>), MCSignature) : cl \in 0..1}
MCEpoch == 1..3

\* Epochs are interchangeable: each instance draws the one that is meant for it.
EpochsInOrder ==
  /\ enclave[1].epoch \in {None, 1}
  /\ enclave[0].epoch \in {None, IF 0 \in faulty THEN 3 ELSE 2}

=============================================================================
