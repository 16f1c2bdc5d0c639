----------------------------- MODULE LogStream ------------------------------
(***************************************************************************)
(* What a message log promises to its streams: each delivers the messages  *)
(* in the order in which they entered the log, without a gap except for    *)
(* messages that a reset removed, and leaves out none that stays.          *)
(***************************************************************************)
EXTENDS StreamOps

CONSTANTS Stream

VARIABLES count,   \* messages that were ever in the log
          starts,  \* numbers with which a log begins
          pos,     \* number of the message each stream delivered last
          done     \* streams that need not go on

vars == <<count, starts, pos, done>>

Init ==
  /\ count = 0
  /\ starts = {1}
  /\ pos = [s \in Stream |-> 0]
  /\ done = {}

Append ==
  /\ count' = count + 1
  /\ UNCHANGED <<starts, pos, done>>

\* Any number of messages replaces those in the log.
Reset ==
  /\ count' \in Nat /\ count' >= count
  /\ starts' = starts \cup {count + 1}
  /\ UNCHANGED <<pos, done>>

Deliver(s) ==
  /\ \E i \in NextDelivered(pos[s], starts, count) : pos' = [pos EXCEPT ![s] = i]
  /\ UNCHANGED <<count, starts, done>>

Cancel(s) ==
  /\ done' = done \cup {s}
  /\ UNCHANGED <<count, starts, pos>>

Next ==
  \/ Append
  \/ Reset
  \/ \E s \in Stream : Deliver(s) \/ Cancel(s)

Spec == Init /\ [][Next]_vars

=============================================================================
