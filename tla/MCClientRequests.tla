-------------------------- MODULE MCClientRequests --------------------------
(***************************************************************************)
(* Instances of ClientRequests for TLC.                                    *)
(***************************************************************************)
EXTENDS ClientRequests

\* A faulty replica replies to the first request like a correct one, so that a
\* correct one may never be sent it, and to the second with a wrong result.
WrongSecond == {<<1, 1>>, <<2, 0>>}

=============================================================================
