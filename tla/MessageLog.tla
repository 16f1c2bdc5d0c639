----------------------------- MODULE MessageLog -----------------------------
(***************************************************************************)
(* The message log (core/internal/messagelog) and the goroutines behind    *)
(* its streams.                                                            *)
(*                                                                         *)
(* The k-th message to enter the log is the number k.  A channel that is   *)
(* closed and created anew is a number, raised when that happens: a        *)
(* goroutine that keeps an older number finds its channel closed.  What is *)
(* done while the lock is held is one step.                                *)
(***************************************************************************)
EXTENDS StreamOps, Sequences

CONSTANTS Stream,
          MaxMessages,  \* bound: messages that enter the log
          MaxResets     \* bound: resets

ASSUME BoundAssumption == MaxMessages \in Nat /\ MaxResets \in Nat

VARIABLES msgs, newAdded, resetChan,  \* the log
          pc,          \* where the goroutine of each stream is
          sliceOf,     \* messages it has read and not sent
          next,        \* messages of the log it has read
          addedSeen,   \* its copy of newAdded
          resetSeen,   \* its copy of resetChan
          done,        \* streams whose done channel is closed
          pos,         \* message each stream delivered last
          count,       \* messages that ever entered the log
          starts,      \* messages with which a log began, or will
          panicked     \* a goroutine sliced the log beyond its end

logVars == <<msgs, newAdded, resetChan, count, starts>>
streamVars == <<pc, sliceOf, next, addedSeen, resetSeen, pos, panicked>>
vars == <<logVars, streamVars, done>>

\* Stream has been called for each stream, its goroutine not yet run.
Init ==
  /\ msgs = <<>> /\ newAdded = 0 /\ resetChan = 0
  /\ pc = [s \in Stream |-> "start"]
  /\ sliceOf = [s \in Stream |-> <<>>]
  /\ next = [s \in Stream |-> 0]
  /\ addedSeen = [s \in Stream |-> 0]
  /\ resetSeen = [s \in Stream |-> 0]
  /\ done = {}
  /\ pos = [s \in Stream |-> 0]
  /\ count = 0
  /\ starts = {1}
  /\ panicked = FALSE

AppendMessage ==
  /\ count < MaxMessages
  /\ msgs' = Append(msgs, count + 1)
  /\ newAdded' = newAdded + 1
  /\ count' = count + 1
  /\ UNCHANGED <<resetChan, starts, streamVars, done>>

Reset(k) ==
  /\ resetChan < MaxResets /\ count + k <= MaxMessages
  /\ msgs' = [i \in 1..k |-> count + i]
  /\ resetChan' = resetChan + 1
  /\ starts' = starts \cup {count + 1}
  /\ count' = count + k
  /\ UNCHANGED <<newAdded, streamVars, done>>

\* Whoever asked for the stream closes its done channel.
Cancel(s) ==
  /\ s \notin done
  /\ done' = done \cup {s}
  /\ UNCHANGED <<logVars, streamVars>>

-----------------------------------------------------------------------------
\* supplyMessages

Start(s) ==
  /\ pc[s] = "start"
  /\ pc' = [pc EXCEPT ![s] = "read"]
  /\ resetSeen' = [resetSeen EXCEPT ![s] = resetChan]
  /\ UNCHANGED <<logVars, sliceOf, next, addedSeen, pos, panicked, done>>

\* Mutant: after a reset the goroutine reads on where it was.
ReadOn(s) == next[s]

\* Mutant: the goroutine forgets what it has read.
ReadAll(s) == 0

\* Where the goroutine reads on.
ReadFrom(s) == IF resetSeen[s] < resetChan THEN 0 ELSE next[s]

Read(s) ==
  /\ pc[s] = "read"
  /\ resetSeen' = [resetSeen EXCEPT ![s] = resetChan]
  /\ addedSeen' = [addedSeen EXCEPT ![s] = newAdded]
  /\ next' = [next EXCEPT ![s] = Len(msgs)]
  /\ sliceOf' = [sliceOf EXCEPT ![s] = SubSeq(msgs, ReadFrom(s) + 1, Len(msgs))]
  /\ panicked' = (panicked \/ ReadFrom(s) > Len(msgs))
  /\ pc' = [pc EXCEPT ![s] = IF ReadFrom(s) < Len(msgs) THEN "send" ELSE "wait"]
  /\ UNCHANGED <<logVars, pos, done>>

\* Mutant: one message too many.
SendBeyond(s) ==
  /\ pc[s] = "send"
  /\ pos' = [pos EXCEPT ![s] = Head(sliceOf[s])]
  /\ sliceOf' = [sliceOf EXCEPT ![s] = Tail(@)]
  /\ UNCHANGED <<pc, logVars, next, addedSeen, resetSeen, panicked, done>>

\* The receiver takes the message.
Send(s) ==
  /\ pc[s] = "send"
  /\ pos' = [pos EXCEPT ![s] = Head(sliceOf[s])]
  /\ sliceOf' = [sliceOf EXCEPT ![s] = Tail(@)]
  /\ pc' = [pc EXCEPT ![s] = IF Len(sliceOf[s]) > 1 THEN "send" ELSE "wait"]
  /\ UNCHANGED <<logVars, next, addedSeen, resetSeen, panicked, done>>

\* The reset is seen before the receiver takes the message, or while waiting.
SeeReset(s) ==
  /\ pc[s] \in {"send", "wait"} /\ resetSeen[s] < resetChan
  /\ pc' = [pc EXCEPT ![s] = "read"]
  /\ UNCHANGED <<logVars, sliceOf, next, addedSeen, resetSeen, pos, panicked, done>>

\* Mutant: a message added while the goroutine was sending is not noticed.
AddedAfterwards(s) == addedSeen[s] + 1 < newAdded

\* The channel newAdded that the goroutine got when it read the log is closed.
Added(s) == addedSeen[s] < newAdded

SeeAdded(s) ==
  /\ pc[s] = "wait" /\ Added(s)
  /\ pc' = [pc EXCEPT ![s] = "read"]
  /\ UNCHANGED <<logVars, sliceOf, next, addedSeen, resetSeen, pos, panicked, done>>

\* Mutant: a goroutine that waits for messages is not cancelled.
CloseSending(s) ==
  /\ pc[s] = "send" /\ s \in done
  /\ pc' = [pc EXCEPT ![s] = "closed"]
  /\ UNCHANGED <<logVars, sliceOf, next, addedSeen, resetSeen, pos, panicked, done>>

Close(s) ==
  /\ pc[s] \in {"send", "wait"} /\ s \in done
  /\ pc' = [pc EXCEPT ![s] = "closed"]
  /\ UNCHANGED <<logVars, sliceOf, next, addedSeen, resetSeen, pos, panicked, done>>

supplyMessages(s) ==
  Start(s) \/ Read(s) \/ Send(s) \/ SeeReset(s) \/ SeeAdded(s) \/ Close(s)

Next ==
  \/ AppendMessage
  \/ \E k \in 0..MaxMessages : Reset(k)
  \/ \E s \in Stream : Cancel(s) \/ supplyMessages(s)

Spec == Init /\ [][Next]_vars

\* Each goroutine goes on, and whoever has a stream receives from it.
FairSpec == Spec /\ \A s \in Stream : WF_vars(supplyMessages(s))

-----------------------------------------------------------------------------
\* Properties

PC == {"start", "read", "send", "wait", "closed"}

\* Types of the log and of each supplyMessages, which sends from what it read.
TypeOK ==
  /\ msgs \in Seq(Nat) /\ newAdded \in Nat /\ resetChan \in Nat
  /\ pc \in [Stream -> PC]
  /\ sliceOf \in [Stream -> Seq(Nat)]
  /\ \A s \in Stream : pc[s] = "send" => sliceOf[s] # <<>>
  /\ next \in [Stream -> Nat]
  /\ addedSeen \in [Stream -> 0..newAdded]
  /\ resetSeen \in [Stream -> 0..resetChan]
  /\ done \subseteq Stream
  /\ pos \in [Stream -> 0..count]
  /\ count \in Nat
  /\ starts \subseteq 1..(count + 1)
  /\ panicked \in BOOLEAN

\* A goroutine never reads the log from beyond its end, although a reset may
\* have made it shorter since the goroutine read it last ("msgs :=
\* log.msgs[next:]" in supplyMessages).
ReadsWithinLog == ~panicked

\* Every stream delivers messages in the order in which they entered the log;
\* between two it leaves out only what a reset has removed from the log,
\* however appends, resets and the goroutine interleave.
Promised == INSTANCE LogStream
StreamsInOrder == Promised!Spec

\* A message that stays in the log is delivered to every stream that is not
\* cancelled: the goroutine misses no notification.
EachDelivered ==
  \A s \in Stream, i \in 1..MaxMessages :
    (\E k \in 1..Len(msgs) : msgs[k] = i) ~>
      \/ pos[s] >= i \/ s \in done
      \/ \A k \in 1..Len(msgs) : msgs[k] # i

\* A goroutine whose stream is cancelled ends.
CancelledEnds == \A s \in Stream : s \in done ~> pc[s] = "closed"

=============================================================================
