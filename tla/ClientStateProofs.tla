------------------------- MODULE ClientStateProofs --------------------------
(***************************************************************************)
(* Proofs about ClientState, for any number of streams and request IDs.    *)
(***************************************************************************)
EXTENDS ClientState, RequestSeqProofs

\* What a stream has read is a reply to the request of this ID, and not newer
\* than the state; it has an answer only when it has returned.
ReplyInv(s) ==
  /\ lastSeen[s].reply = lastSeen[s].seq /\ lastSeen[s].seq <= lastRepliedSeq
  /\ waiting[s] # "done" => answer[s] = 0
  /\ waiting[s] = "done" => \/ answer[s] = req[s]
                            \/ answer[s] = 0 /\ (lastRepliedSeq > req[s] \/ stop)

RepliesInv ==
  /\ lastRepliedSeq \in Nat /\ reply = lastRepliedSeq
  /\ waiting \in [ClientStream -> R!PC]
  /\ lastSeen \in [ClientStream -> [seq : Nat, reply : Nat]]
  /\ answer \in [ClientStream -> Nat]
  /\ \A s \in ClientStream : ReplyInv(s)

-----------------------------------------------------------------------------
\* What handlers do about replies is nothing to the request IDs.
LEMMA StepKeepsRequestSeq == [ClientNext]_stateVars => [Next]_vars
<1> SUFFICES ASSUME [ClientNext]_stateVars PROVE [Next]_vars
  OBVIOUS
<1>1. ASSUME NEW h \in Handler, NEW seq \in RequestID, BeginRequest(h, seq) PROVE Next
  BY <1>1 DEF BeginRequest, Next
<1>2. ASSUME NEW h \in Handler, Process(h) \/ FinishPeer(h) \/ FinishOwn(h) PROVE Next
  BY <1>2 DEF Process, FinishPeer, FinishOwn, Next
<1>3. ASSUME NEW h \in ClientStream, Answer(h) PROVE UNCHANGED vars
  BY <1>3 DEF Answer
<1>4. ASSUME NEW seq \in RequestID, ExecuteRequest(seq) PROVE Next
  BY <1>4 DEF ExecuteRequest, Next
<1>5. ASSUME NEW seq \in RequestID, ReplyAdded(seq) PROVE UNCHANGED vars
  BY <1>5 DEF ReplyAdded
<1>6. CASE ViewChanges
  BY <1>6 DEF ViewChanges, Next
<1>7. CASE Terminates
  BY <1>7 DEF Terminates
<1>8. CASE UNCHANGED stateVars
  BY <1>8 DEF stateVars
<1> QED
  BY <1>1, <1>2, <1>3, <1>4, <1>5, <1>6, <1>7, <1>8, Zenon DEF ClientNext

\* The request IDs of a client behave as RequestSeq says, with handlers that
\* wait for replies and executions that the retiring of IDs begins
\* (clientstate/client-state.go joins the two).
THEOREM KeepsRequestSeq == ClientSpec => Spec
<1>1. ClientInit => Init
  BY DEF ClientInit
<1> QED
  BY <1>1, StepKeepsRequestSeq, PTL DEF ClientSpec, Spec

\* So, with handlers that wait for replies too, requests of a client are
\* processed one at a time, in order, none twice, and prepared and retired only
\* when they may be (CaptureRequestSeq, PrepareRequestSeq, RetireRequestSeq).
THEOREM RequestsOneByOne ==
  ClientSpec => [](OneOwner /\ ProcessedInOrder /\ HandledIsReleased /\ NeverPanics)
  BY KeepsRequestSeq, CaptureIsExclusive, CapturedInOrder, CaptureWaits,
     PreparedAndRetiredInOrder, PTL

-----------------------------------------------------------------------------
\* A stream that a step is not about.
LEMMA OtherStream ==
  ASSUME TypeOK, RepliesInv, NEW s \in ClientStream,
         waiting'[s] = waiting[s], lastSeen'[s] = lastSeen[s], answer'[s] = answer[s],
         req'[s] = req[s] \/ waiting[s] = "idle",
         lastRepliedSeq' \in Nat, lastRepliedSeq' >= lastRepliedSeq, stop => stop'
  PROVE  ReplyInv(s)'
<1>1. /\ ReplyInv(s) /\ lastRepliedSeq \in Nat /\ lastSeen[s].seq \in Nat
      /\ req[s] \in Nat
  BY StreamAssumption, BoundAssumption DEF RepliesInv, TypeOK
<1>2. lastSeen'[s].reply = lastSeen'[s].seq /\ lastSeen'[s].seq <= lastRepliedSeq'
  BY <1>1 DEF ReplyInv
<1>3. waiting'[s] # "done" => answer'[s] = 0
  BY <1>1 DEF ReplyInv
<1>4. ASSUME waiting'[s] = "done"
      PROVE  answer'[s] = req'[s] \/ (answer'[s] = 0 /\ (lastRepliedSeq' > req'[s] \/ stop'))
  <2>1. req'[s] = req[s] /\ (lastRepliedSeq > req[s] => lastRepliedSeq' > req[s])
    BY <1>1, <1>4
  <2> QED
    BY <1>1, <1>4, <2>1 DEF ReplyInv
<1> QED
  BY <1>2, <1>3, <1>4, Zenon DEF ReplyInv

\* Steps that change nothing about replies.
LEMMA RestKeepsRepliesInv ==
  ASSUME TypeOK, RepliesInv,
         UNCHANGED <<lastRepliedSeq, reply, waiting, lastSeen, answer, stop>>,
         \A s \in ClientStream : req'[s] = req[s] \/ waiting[s] = "idle"
  PROVE  RepliesInv'
<1>1. lastRepliedSeq' \in Nat /\ lastRepliedSeq' >= lastRepliedSeq
  BY DEF RepliesInv
<1>2. ASSUME NEW s \in ClientStream PROVE ReplyInv(s)'
  BY <1>1, OtherStream
<1> QED
  BY <1>2 DEF RepliesInv

\* Requests are processed, prepared and executed.
LEMMA ProcessingKeepsRepliesInv ==
  ASSUME TypeOK, RepliesInv,
         \/ \E h \in Handler, seq \in RequestID : BeginRequest(h, seq)
         \/ \E h \in Handler : Process(h) \/ FinishPeer(h)
         \/ \E seq \in RequestID : ExecuteRequest(seq)
         \/ ViewChanges
         \/ UNCHANGED stateVars
  PROVE  RepliesInv'
<1>1. ASSUME NEW h \in Handler, NEW seq \in RequestID, BeginRequest(h, seq)
      PROVE  RepliesInv'
  <2>1. UNCHANGED <<lastRepliedSeq, reply, waiting, lastSeen, answer, stop>>
    BY <1>1 DEF BeginRequest, repliesOnly
  <2>2. ASSUME NEW s \in ClientStream PROVE req'[s] = req[s] \/ waiting[s] = "idle"
    <3>1. s \in Handler /\ req \in [Handler -> 0..MaxSeq]
      BY StreamAssumption DEF TypeOK
    <3>2. CASE s = h
      BY <1>1, <3>2 DEF BeginRequest
    <3>3. CASE s # h
      BY <1>1, <3>1, <3>3 DEF BeginRequest, Begin
    <3> QED
      BY <3>2, <3>3
  <2> QED
    BY <2>1, <2>2, RestKeepsRepliesInv
<1>2. ASSUME NEW h \in Handler, Process(h) \/ FinishPeer(h) PROVE RepliesInv'
  <2>1. UNCHANGED <<lastRepliedSeq, reply, waiting, lastSeen, answer, stop, req>>
    BY <1>2 DEF Process, FinishPeer, Capture, Release, Finish, Prepare, repliesOnly
  <2> QED
    BY <2>1, RestKeepsRepliesInv
<1>3. ASSUME NEW seq \in RequestID, ExecuteRequest(seq) PROVE RepliesInv'
  <2>1. UNCHANGED <<lastRepliedSeq, reply, waiting, lastSeen, answer, stop, req>>
    BY <1>3 DEF ExecuteRequest, Retire, R!executeRequest, R!replyVars, R!streamVars, repliesOnly
  <2> QED
    BY <2>1, RestKeepsRepliesInv
<1>4. ASSUME ViewChanges \/ UNCHANGED stateVars PROVE RepliesInv'
  <2>1. UNCHANGED <<lastRepliedSeq, reply, waiting, lastSeen, answer, stop, req>>
    BY <1>4 DEF ViewChanges, Unprepare, stateVars, vars, repliesOnly
  <2> QED
    BY <2>1, RestKeepsRepliesInv
<1> QED
  BY <1>1, <1>2, <1>3, <1>4

\* A result is added, or the replica stops.
LEMMA ReplyAddedKeepsRepliesInv ==
  ASSUME TypeOK, RepliesInv, (\E seq \in RequestID : ReplyAdded(seq)) \/ Terminates
  PROVE  RepliesInv'
<1>1. lastRepliedSeq \in Nat /\ reply = lastRepliedSeq
  BY DEF RepliesInv
<1>2. /\ UNCHANGED <<waiting, lastSeen, answer, req>> /\ (stop => stop')
      /\ \/ lastRepliedSeq' = lastRepliedSeq /\ reply' = reply
         \/ \E seq \in RequestID : /\ seq > lastRepliedSeq
                                  /\ lastRepliedSeq' = seq /\ reply' = seq
  <2>1. CASE Terminates
    BY <2>1 DEF Terminates, R!Stop, R!replyVars, R!streamVars, vars
  <2>2. ASSUME NEW seq \in RequestID, ReplyAdded(seq)
        PROVE  /\ UNCHANGED <<waiting, lastSeen, answer, req, stop>>
               /\ \/ lastRepliedSeq' = lastRepliedSeq /\ reply' = reply
                  \/ seq > lastRepliedSeq /\ lastRepliedSeq' = seq /\ reply' = seq
    BY <2>2 DEF ReplyAdded, R!AddReply, R!Replaces, R!replyVars, R!streamVars, vars
  <2> QED
    BY <2>1, <2>2
<1>3. /\ lastRepliedSeq' \in Nat /\ lastRepliedSeq' >= lastRepliedSeq
      /\ reply' = lastRepliedSeq'
  BY <1>1, <1>2, BoundAssumption DEF RequestID
<1>4. ASSUME NEW s \in ClientStream PROVE ReplyInv(s)'
  BY <1>2, <1>3, OtherStream
<1> QED
  BY <1>2, <1>3, <1>4 DEF RepliesInv

\* A stream begins to wait, reads the state, returns or goes on.
LEMMA WaitingKeepsRepliesInv ==
  ASSUME TypeOK, RepliesInv, NEW h \in ClientStream, FinishOwn(h) \/ Answer(h)
  PROVE  RepliesInv'
<1>1. /\ waiting \in [ClientStream -> R!PC] /\ answer \in [ClientStream -> Nat]
      /\ lastSeen \in [ClientStream -> [seq : Nat, reply : Nat]]
      /\ lastRepliedSeq \in Nat /\ reply = lastRepliedSeq
      /\ h \in Handler /\ req \in [Handler -> 0..MaxSeq] /\ req[h] \in Nat /\ ReplyInv(h)
  BY StreamAssumption, BoundAssumption DEF RepliesInv, TypeOK
<1>2. UNCHANGED <<req, lastRepliedSeq, reply, stop>>
  BY DEF FinishOwn, Answer, Finish, vars, R!replyRequest, R!ReplyChannel, R!Read, R!Return,
         R!Wake, R!Cancel, R!NextRequest, R!replyVars
<1>3. /\ waiting' \in [ClientStream -> R!PC] /\ answer' \in [ClientStream -> Nat]
      /\ lastSeen' \in [ClientStream -> [seq : Nat, reply : Nat]]
      /\ \A s \in ClientStream \ {h} : /\ waiting'[s] = waiting[s] /\ answer'[s] = answer[s]
                                       /\ lastSeen'[s] = lastSeen[s]
      /\ ReplyInv(h)'
  <2>1. CASE FinishOwn(h)
    <3>1. /\ waiting[h] = "idle" /\ waiting' = [waiting EXCEPT ![h] = "read"]
          /\ UNCHANGED <<answer, lastSeen>>
      BY <2>1 DEF FinishOwn, R!replyRequest
    <3>2. answer[h] = 0
      BY <1>1, <3>1 DEF ReplyInv
    <3> QED
      BY <1>1, <1>2, <3>1, <3>2 DEF ReplyInv, R!PC
  <2>2. CASE R!Read(h)
    <3>1. /\ waiting[h] = "read" /\ waiting' = [waiting EXCEPT ![h] = "check"]
          /\ lastSeen' = [lastSeen EXCEPT ![h] = [seq |-> lastRepliedSeq, reply |-> reply]]
          /\ UNCHANGED answer
      BY <2>2 DEF R!Read
    <3>2. answer[h] = 0
      BY <1>1, <3>1 DEF ReplyInv
    <3>3. [seq |-> lastRepliedSeq, reply |-> reply] \in [seq : Nat, reply : Nat]
      BY <1>1
    <3> QED
      BY <1>1, <1>2, <3>1, <3>2, <3>3 DEF ReplyInv, R!PC
  <2>3. CASE R!Return(h)
    <3>1. /\ waiting[h] = "check" /\ waiting' = [waiting EXCEPT ![h] = "done"]
          /\ req[h] <= lastSeen[h].seq
          /\ answer' = [answer EXCEPT ![h] = IF lastSeen[h].reply = req[h]
                                             THEN lastSeen[h].reply ELSE 0]
          /\ UNCHANGED lastSeen
      BY <2>3 DEF R!Return, R!Replied, R!Sends
    <3>2. lastSeen[h].seq \in Nat /\ lastSeen[h].reply \in Nat
      BY <1>1
    <3>3. lastSeen[h].reply # req[h] => lastRepliedSeq > req[h]
      <4>1. lastSeen[h].reply = lastSeen[h].seq /\ lastSeen[h].seq <= lastRepliedSeq
        BY <1>1, Zenon DEF ReplyInv
      <4>2. req[h] \in Nat /\ lastRepliedSeq \in Nat /\ req[h] <= lastSeen[h].seq
        BY <1>1, <3>1
      <4> QED
        BY <3>2, <4>1, <4>2
    <3>4. answer' \in [ClientStream -> Nat]
      BY <1>1, <3>1, <3>2
    <3>5. /\ waiting' \in [ClientStream -> R!PC] /\ waiting'[h] = "done"
          /\ answer'[h] = req[h] \/ (answer'[h] = 0 /\ lastRepliedSeq > req[h])
      BY <1>1, <3>1, <3>3 DEF R!PC
    <3>6. ReplyInv(h)'
      BY <1>1, <1>2, <3>1, <3>5 DEF ReplyInv
    <3> QED
      BY <1>1, <3>1, <3>4, <3>5, <3>6
  <2>4. CASE R!Wake(h)
    <3>1. /\ waiting[h] = "check" /\ waiting' = [waiting EXCEPT ![h] = "read"]
          /\ UNCHANGED <<answer, lastSeen>>
      BY <2>4 DEF R!Wake
    <3> QED
      BY <1>1, <1>2, <3>1 DEF ReplyInv, R!PC
  <2>5. CASE R!Cancel(h)
    <3>1. /\ waiting[h] = "check" /\ waiting' = [waiting EXCEPT ![h] = "done"] /\ stop
          /\ UNCHANGED <<answer, lastSeen>>
      BY <2>5 DEF R!Cancel
    <3> QED
      BY <1>1, <1>2, <3>1 DEF ReplyInv, R!PC
  <2>6. CASE R!NextRequest(h)
    <3>1. /\ waiting' = [waiting EXCEPT ![h] = "idle"]
          /\ lastSeen' = [lastSeen EXCEPT ![h] = [seq |-> 0, reply |-> 0]]
          /\ answer' = [answer EXCEPT ![h] = 0]
      BY <2>6 DEF R!NextRequest
    <3> QED
      BY <1>1, <1>2, <3>1 DEF ReplyInv, R!PC
  <2> QED
    BY <2>1, <2>2, <2>3, <2>4, <2>5, <2>6 DEF Answer, R!ReplyChannel
<1>4. ASSUME NEW s \in ClientStream \ {h} PROVE ReplyInv(s)'
  BY <1>1, <1>2, <1>3, OtherStream
<1> QED
  BY <1>1, <1>2, <1>3, <1>4 DEF RepliesInv

-----------------------------------------------------------------------------
\* A stream of the client gets the reply to its own request, or none because a
\* later request was replied to or the replica stops, although results are
\* added in any order and replaced while the stream looks at them (AddReply,
\* ReplyChannel).
THEOREM OwnReplyOrNone == ClientSpec => []AnswersItsRequest
<1>1. ClientInit => RepliesInv
  <2> SUFFICES ASSUME ClientInit PROVE RepliesInv
    OBVIOUS
  <2>1. /\ lastRepliedSeq = 0 /\ reply = 0
        /\ waiting = [s \in ClientStream |-> "idle"]
        /\ lastSeen = [s \in ClientStream |-> [seq |-> 0, reply |-> 0]]
        /\ answer = [s \in ClientStream |-> 0]
    BY DEF ClientInit, R!Init
  <2> QED
    BY <2>1 DEF RepliesInv, ReplyInv, R!PC
<1>2. TypeOK /\ RepliesInv /\ [ClientNext]_stateVars => RepliesInv'
  <2> SUFFICES ASSUME TypeOK, RepliesInv, [ClientNext]_stateVars PROVE RepliesInv'
    OBVIOUS
  <2>1. CASE \/ \E h \in Handler, seq \in RequestID : BeginRequest(h, seq)
             \/ \E h \in Handler : Process(h) \/ FinishPeer(h)
             \/ \E seq \in RequestID : ExecuteRequest(seq)
             \/ ViewChanges
             \/ UNCHANGED stateVars
    BY <2>1, ProcessingKeepsRepliesInv, Zenon
  <2>2. CASE (\E seq \in RequestID : ReplyAdded(seq)) \/ Terminates
    BY <2>2, ReplyAddedKeepsRepliesInv, Zenon
  <2>3. ASSUME NEW h \in Handler, FinishOwn(h) PROVE RepliesInv'
    BY <2>3, WaitingKeepsRepliesInv DEF FinishOwn
  <2>4. ASSUME NEW h \in ClientStream, Answer(h) PROVE RepliesInv'
    BY <2>4, WaitingKeepsRepliesInv
  <2> QED
    BY <2>1, <2>2, <2>3, <2>4, Zenon DEF ClientNext
<1>3. RepliesInv => AnswersItsRequest
  BY DEF RepliesInv, ReplyInv, AnswersItsRequest, R!AnswersItsRequest
<1> QED
  BY <1>1, <1>2, <1>3, KeepsRequestSeq, TypeCorrect, PTL DEF ClientSpec

=============================================================================
