--------------------------- MODULE MCHandlerLocks ---------------------------
(***************************************************************************)
(* A small instance of HandlerLocks: replica 1 of three, which follows the *)
(* primary 0 in view 0 and is the primary of view 1.                       *)
(***************************************************************************)
EXTENDS HandlerLocks, TLC

\* The peer proposes, leaves its view and commits to a proposal in the next.
PeerLeads ==
  (0 :> <<Message("prepare", 0), Message("viewchange", 1), Message("commit", 1)>>)

\* Handlers are interchangeable.
Symmetry == Permutations(Handler)
=============================================================================
