----------------------------- MODULE StreamOps ------------------------------
(***************************************************************************)
(* What a stream of a message log may deliver next.  The messages that     *)
(* were ever in the log are numbered in the order in which they entered    *)
(* it; starts holds the numbers at which a log begins, after a reset.      *)
(***************************************************************************)
EXTENDS Naturals

\* The message after the one delivered last or, if the log was reset in the
\* meantime, the first one of a later log.
NextDelivered(pos, starts, count) ==
  {i \in {pos + 1} \cup starts : pos < i /\ i <= count}

=============================================================================
