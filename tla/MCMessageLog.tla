---------------------------- MODULE MCMessageLog ----------------------------
(***************************************************************************)
(* Instances of MessageLog for TLC.                                        *)
(***************************************************************************)
EXTENDS MessageLog

=============================================================================
