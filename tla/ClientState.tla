---------------------------- MODULE ClientState -----------------------------
(***************************************************************************)
(* The state of one client at a replica: its request IDs (RequestSeq) and  *)
(* its replies (Replies), joined by the handlers that go through both.  A  *)
(* handler captures and processes a request and, if the client itself sent *)
(* it, waits for the reply; retiring an ID begins the execution whose      *)
(* result is the reply.                                                    *)
(***************************************************************************)
EXTENDS RequestSeq

CONSTANT ClientStream  \* handlers of streams of the client; the others are of replicas

ASSUME StreamAssumption == ClientStream \subseteq Handler

VARIABLES running, lastRepliedSeq, reply, waitChan,
          waiting,  \* what each handler does about the reply
          lastSeen, chanSeen, answer, stop

R == INSTANCE Replies WITH Stream <- ClientStream, executed <- retired, pc <- waiting,
                           req <- [h \in ClientStream |-> req[h]]

repliesOnly ==
  <<running, lastRepliedSeq, reply, waitChan, waiting, lastSeen, chanSeen, answer, stop>>
stateVars == <<vars, repliesOnly>>

ClientInit == Init /\ R!Init

\* A stream brings its next request.
BeginRequest(h, seq) ==
  (h \in ClientStream => waiting[h] = "idle") /\ Begin(h, seq) /\ UNCHANGED repliesOnly

Process(h) == (Capture(h) \/ Release(h)) /\ UNCHANGED repliesOnly

\* The request came from a replica, in a Prepare or forwarded.
FinishPeer(h) ==
  h \notin ClientStream /\ (Finish(h) \/ Prepare(h)) /\ UNCHANGED repliesOnly

\* makeClientMessageHandler: the reply is waited for after the processing.
FinishOwn(h) == h \in ClientStream /\ Finish(h) /\ R!replyRequest(h, req[h])

\* makeRequestExecutor: the ID is retired and, unless that fails, the request
\* delivered.
ExecuteRequest(seq) ==
  Retire(seq) /\ IF retired' = seq THEN R!executeRequest(seq) ELSE UNCHANGED repliesOnly

Answer(h) == UNCHANGED vars /\ (R!ReplyChannel(h) \/ R!NextRequest(h))

ReplyAdded(seq) == UNCHANGED vars /\ R!AddReply(seq)

ViewChanges == Unprepare /\ UNCHANGED repliesOnly

Terminates == UNCHANGED vars /\ R!Stop

ClientNext ==
  \/ \E h \in Handler, seq \in RequestID : BeginRequest(h, seq)
  \/ \E h \in Handler : Process(h) \/ FinishPeer(h) \/ FinishOwn(h)
  \/ \E h \in ClientStream : Answer(h)
  \/ \E seq \in RequestID : ExecuteRequest(seq) \/ ReplyAdded(seq)
  \/ ViewChanges
  \/ Terminates

ClientSpec == ClientInit /\ [][ClientNext]_stateVars

\* Goroutines go on, and the consumer gives a result to each request.
ClientFairness ==
  /\ \A h \in Handler : WF_stateVars(Process(h))
  /\ \A h \in ClientStream : WF_stateVars(UNCHANGED vars /\ R!ReplyChannel(h))
  /\ \A seq \in RequestID : WF_stateVars(ReplyAdded(seq))

FairClientSpec == ClientSpec /\ ClientFairness

-----------------------------------------------------------------------------
\* The properties of Replies, of the replies to requests as RequestSeq lets them
\* be processed and retired.

\* A stream gets the reply to its request, or none because a later one was
\* replied to or the replica stops (ReplyChannel).
AnswersItsRequest == R!AnswersItsRequest

\* Streams that wait for the reply to an executed request go on (AddReply).
EachAnswered == R!EachAnswered

=============================================================================
