--------------------------- MODULE MCClientState ----------------------------
(***************************************************************************)
(* Instances of ClientState for TLC.                                       *)
(***************************************************************************)
EXTENDS ClientState

=============================================================================
