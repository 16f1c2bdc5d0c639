------------------------------ MODULE Replies -------------------------------
(***************************************************************************)
(* The replies of one replica to one client: requests are executed in      *)
(* order, each by a goroutine that waits for the result and adds the reply *)
(* to the client's state (clientstate/reply); the streams of the client    *)
(* wait for the reply to the request they handle.                          *)
(*                                                                         *)
(* A reply is the ID of its request.  The channel waitChan, closed and     *)
(* created anew, is a number, raised when that happens.                    *)
(***************************************************************************)
EXTENDS Naturals

CONSTANTS Stream,
          MaxSeq  \* bound: highest request ID

VARIABLES executed,        \* ID of the last request executed
          running,         \* IDs of requests whose reply is not yet added
          lastRepliedSeq, reply, waitChan,
          pc,              \* what the handler of each stream does
          req,             \* ID of the request it handles
          lastSeen,        \* lastRepliedSeq and reply, as it read them
          chanSeen,        \* its copy of waitChan
          answer,          \* reply it returned, or 0
          stop             \* the replica shuts down

replyVars == <<lastRepliedSeq, reply, waitChan>>
streamVars == <<pc, req, lastSeen, chanSeen, answer>>
vars == <<executed, running, replyVars, streamVars, stop>>

RequestID == 1..MaxSeq

Init ==
  /\ executed = 0 /\ running = {}
  /\ lastRepliedSeq = 0 /\ reply = 0 /\ waitChan = 0
  /\ pc = [s \in Stream |-> "idle"]
  /\ req = [s \in Stream |-> 0]
  /\ lastSeen = [s \in Stream |-> [seq |-> 0, reply |-> 0]]
  /\ chanSeen = [s \in Stream |-> 0]
  /\ answer = [s \in Stream |-> 0]
  /\ stop = FALSE

-----------------------------------------------------------------------------
\* The executor retires the request and delivers it to the consumer; a
\* goroutine waits for the result.
executeRequest(seq) ==
  /\ seq > executed
  /\ executed' = seq
  /\ running' = running \cup {seq}
  /\ UNCHANGED <<replyVars, streamVars, stop>>

\* AddReply keeps the reply to the highest request.
Replaces(seq) == seq > lastRepliedSeq

\* The channel that waiting streams have is closed.
Closes(seq) == waitChan + 1

\* The result is there: the goroutine signs the reply and adds it.
AddReply(seq) ==
  /\ seq \in running
  /\ running' = running \ {seq}
  /\ IF Replaces(seq)
       THEN reply' = seq /\ lastRepliedSeq' = seq /\ waitChan' = Closes(seq)
       ELSE UNCHANGED replyVars
  /\ UNCHANGED <<executed, streamVars, stop>>

-----------------------------------------------------------------------------
\* A stream of the client brings a request; once processed, it is handed to
\* ReplyChannel.
replyRequest(s, seq) ==
  /\ pc[s] = "idle"
  /\ pc' = [pc EXCEPT ![s] = "read"]
  /\ req' = [req EXCEPT ![s] = seq]
  /\ UNCHANGED <<executed, running, replyVars, lastSeen, chanSeen, answer, stop>>

\* The goroutine of ReplyChannel reads the state, under the lock.
Read(s) ==
  /\ pc[s] = "read"
  /\ lastSeen' = [lastSeen EXCEPT ![s] = [seq |-> lastRepliedSeq, reply |-> reply]]
  /\ chanSeen' = [chanSeen EXCEPT ![s] = waitChan]
  /\ pc' = [pc EXCEPT ![s] = "check"]
  /\ UNCHANGED <<executed, running, replyVars, req, answer, stop>>

\* Mutant: the wait ends with the reply to a later request only.
OvertakenOnly(s) == req[s] < lastSeen[s].seq

\* The request, or a later one, was replied to.
Replied(s) == req[s] <= lastSeen[s].seq

\* Mutant: the reply kept last is sent, whichever request it is for.
SendsAny(s) == TRUE

Sends(s) == lastSeen[s].reply = req[s]

\* The request is answered, or a later one was.
Return(s) ==
  /\ pc[s] = "check" /\ Replied(s)
  /\ answer' = [answer EXCEPT ![s] = IF Sends(s) THEN lastSeen[s].reply ELSE 0]
  /\ pc' = [pc EXCEPT ![s] = "done"]
  /\ UNCHANGED <<executed, running, replyVars, req, lastSeen, chanSeen, stop>>

\* The wait for another reply ends.
Wake(s) ==
  /\ pc[s] = "check" /\ ~Replied(s)
  /\ chanSeen[s] < waitChan
  /\ pc' = [pc EXCEPT ![s] = "read"]
  /\ UNCHANGED <<executed, running, replyVars, req, lastSeen, chanSeen, answer, stop>>

Cancel(s) ==
  /\ pc[s] = "check" /\ ~Replied(s)
  /\ stop
  /\ pc' = [pc EXCEPT ![s] = "done"]
  /\ UNCHANGED <<executed, running, replyVars, req, lastSeen, chanSeen, answer, stop>>

\* The stream sends the reply, if any, and goes on to its next request.
NextRequest(s) ==
  /\ pc[s] = "done"
  /\ pc' = [pc EXCEPT ![s] = "idle"]
  /\ lastSeen' = [lastSeen EXCEPT ![s] = [seq |-> 0, reply |-> 0]]
  /\ chanSeen' = [chanSeen EXCEPT ![s] = 0]
  /\ answer' = [answer EXCEPT ![s] = 0]
  /\ UNCHANGED <<executed, running, replyVars, req, stop>>

Stop ==
  /\ ~stop /\ stop' = TRUE
  /\ UNCHANGED <<executed, running, replyVars, streamVars>>

ReplyChannel(s) == Read(s) \/ Return(s) \/ Wake(s) \/ Cancel(s)

Next ==
  \/ \E seq \in RequestID : executeRequest(seq) \/ AddReply(seq)
  \/ \E s \in Stream, seq \in RequestID : replyRequest(s, seq)
  \/ \E s \in Stream : ReplyChannel(s) \/ NextRequest(s)
  \/ Stop

Spec == Init /\ [][Next]_vars

\* The consumer gives a result to each request, and goroutines go on.
Fairness ==
  /\ \A seq \in RequestID : WF_vars(AddReply(seq))
  /\ \A s \in Stream : WF_vars(ReplyChannel(s))

FairSpec == Spec /\ Fairness

-----------------------------------------------------------------------------
\* Properties

PC == {"idle", "read", "check", "done"}

\* A stream gets the reply to its request, and goes away without one only when
\* the client has been sent, or can be sent, the reply to a later request, or
\* the replica stops, although results may be added in any order (ReplyChannel:
\* "or there will be no Reply message to be added").
AnswersItsRequest ==
  \A s \in Stream :
    pc[s] = "done" => \/ answer[s] = req[s]
                      \/ answer[s] = 0 /\ (lastRepliedSeq > req[s] \/ stop)

\* Each stream that handles an executed request goes on with its next one.
EachAnswered ==
  \A s \in Stream :
    pc[s] \in {"read", "check"} /\ (req[s] <= executed \/ stop) ~> pc[s] = "done"

=============================================================================
