--------------------------- MODULE ClientRequests ---------------------------
(***************************************************************************)
(* The client: Request calls, the request buffer with its streams of       *)
(* requests to the replicas, and the collection of replies.                *)
(*                                                                         *)
(* The caller, the stream to each replica, the handler of what arrives     *)
(* from each replica and the collector of each request are goroutines; a   *)
(* step is what one of them does under a lock or between two channel       *)
(* operations.  Requests are their sequence numbers, 1 for the first.  The *)
(* result of request seq is the number seq.  Faulty replicas reply to      *)
(* anything with any result and as often as they like.                     *)
(***************************************************************************)
EXTENDS Naturals, Sequences, FiniteSets

CONSTANTS Replica,
          F,        \* tolerated faulty replicas
          Faulty,   \* replicas that are faulty
          MaxCalls, \* bound: calls of Request
          Wrong,    \* bound: requests and results in the replies of faulty replicas
          Connected,   \* bound: replicas whose streams run
          Late         \* bound: replicas that replies are received from after Terminate

ASSUME ReplicaAssumption == IsFiniteSet(Replica)
ASSUME FaultyAssumption ==
  F \in Nat /\ Faulty \subseteq Replica /\ Cardinality(Faulty) <= F
ASSUME MajorityAssumption == Cardinality(Replica) >= 2 * F + 1
ASSUME BoundAssumption ==
  /\ MaxCalls \in Nat
  /\ Wrong \subseteq (1..MaxCalls) \X (0..MaxCalls)
  /\ Connected \subseteq Replica /\ Late \subseteq Replica

VARIABLES calls,    \* calls of Request so far: the last sequence number
          adding,   \* sequence number the caller waits to add, or 0
          buf,      \* request buffer: the request, or 0, and lastSeq
          stream,   \* supplyRequests, one per replica
          sent,     \* requests sent to each replica, in order
          arrived,  \* reply of each replica that passed the check of AddReply
          replies,  \* reply set of each request
          next,     \* replies the collector of each request has looked at
          result,   \* result of each request, or NoResult
          ended,    \* requests whose result channel is closed
          stopped   \* Terminate was called

vars == <<calls, adding, buf, stream, sent, arrived, replies, next, result,
          ended, stopped>>

RequestID == 1..MaxCalls
Result == 0..MaxCalls
NoResult == MaxCalls + 1
Reply == [replica : Replica, seq : RequestID, result : Result]
NoReply == [replica |-> 0, seq |-> 0, result |-> 0]

Init ==
  /\ calls = 0 /\ adding = 0
  /\ buf = [request |-> 0, lastSeq |-> 0]
  /\ stream = [r \in Replica |->
                 [pc |-> "check", request |-> 0, lastSeq |-> 0, newAdded |-> 0]]
  /\ sent = [r \in Replica |-> <<>>]
  /\ arrived = [r \in Replica |-> NoReply]
  /\ replies = [seq \in RequestID |-> <<>>]
  /\ next = [seq \in RequestID |-> 0]
  /\ result = [seq \in RequestID |-> NoResult]
  /\ ended = {}
  /\ stopped = FALSE

-----------------------------------------------------------------------------
\* Calls

\* A new sequence number.  Request is called by one goroutine at a time: the
\* generator has no lock and the buffer takes increasing numbers only.  The previous call
\* has returned its channel.
Request ==
  /\ adding = 0 /\ calls < MaxCalls
  /\ calls' = calls + 1
  /\ adding' = calls + 1
  /\ UNCHANGED <<buf, stream, sent, arrived, replies, next, result, ended, stopped>>

Terminate ==
  /\ ~stopped
  /\ stopped' = TRUE
  /\ UNCHANGED <<calls, adding, buf, stream, sent, arrived, replies, next, result, ended>>

\* Mutant: a stream is only notified while it waits.
NotifyWaiting ==
  [r \in Replica |-> [stream[r] EXCEPT !.newAdded = IF stream[r].pc = "wait" THEN 1 ELSE @]]

\* The channels hold one notification, a second one is dropped.
Notify == [r \in Replica |-> [stream[r] EXCEPT !.newAdded = 1]]

\* AddRequest, once the buffer is empty.
AddRequest ==
  /\ adding # 0 /\ buf.request = 0
  /\ adding > buf.lastSeq
  /\ buf' = [request |-> adding, lastSeq |-> adding]
  /\ stream' = Notify
  /\ adding' = 0
  /\ UNCHANGED <<calls, sent, arrived, replies, next, result, ended, stopped>>

\* What RemoveRequest leaves in the buffer.
Without(seq) == IF buf.request = seq THEN [buf EXCEPT !.request = 0] ELSE buf

\* A request is gone once it was added and the buffer is without it.
Removed(seq) == seq <= buf.lastSeq /\ buf.request # seq

\* Mutant: AddRequest waits for the request to be removed and for nothing else.
WaitOnly == FALSE /\ UNCHANGED vars

\* AddRequest, waiting for a full buffer, removes the request after Terminate.
CancelWait ==
  /\ adding # 0 /\ buf.request # 0 /\ stopped
  /\ buf' = Without(buf.lastSeq)
  /\ UNCHANGED <<calls, adding, stream, sent, arrived, replies, next, result, ended, stopped>>

-----------------------------------------------------------------------------
\* supplyRequests for replica r

\* Mutant: the request is sent whether or not it was sent before.
SendsAny(r) == buf.request # 0

Sends(r) == buf.request # 0 /\ buf.request > stream[r].lastSeq

CheckRequest(r) ==
  /\ stream[r].pc = "check"
  /\ stream' = [stream EXCEPT ![r] =
                  IF Sends(r) THEN [@ EXCEPT !.pc = "send", !.request = buf.request]
                  ELSE [@ EXCEPT !.pc = "wait"]]
  /\ UNCHANGED <<calls, adding, buf, sent, arrived, replies, next, result, ended, stopped>>

\* The outgoing message handler takes the request.
SendRequest(r) ==
  /\ stream[r].pc = "send"
  /\ stream' = [stream EXCEPT ![r] = [@ EXCEPT !.pc = "wait", !.lastSeq = stream[r].request]]
  /\ sent' = [sent EXCEPT ![r] = Append(@, stream[r].request)]
  /\ UNCHANGED <<calls, adding, buf, arrived, replies, next, result, ended, stopped>>

SkipRequest(r) ==
  /\ stream[r].pc = "send" /\ Removed(stream[r].request)
  /\ stream' = [stream EXCEPT ![r] = [@ EXCEPT !.pc = "wait"]]
  /\ UNCHANGED <<calls, adding, buf, sent, arrived, replies, next, result, ended, stopped>>

WakeUp(r) ==
  /\ stream[r].pc = "wait" /\ stream[r].newAdded = 1
  /\ stream' = [stream EXCEPT ![r] = [@ EXCEPT !.pc = "check", !.newAdded = 0]]
  /\ UNCHANGED <<calls, adding, buf, sent, arrived, replies, next, result, ended, stopped>>

CloseStream(r) ==
  /\ stopped /\ stream[r].pc \in {"send", "wait"}
  /\ stream' = [stream EXCEPT ![r] = [@ EXCEPT !.pc = "closed"]]
  /\ UNCHANGED <<calls, adding, buf, sent, arrived, replies, next, result, ended, stopped>>

-----------------------------------------------------------------------------
\* Replies

\* Requests that the client has a reply of replica r to.
Answered(r) ==
  {seq \in RequestID : \E i \in DOMAIN replies[seq] : replies[seq][i].replica = r}

\* Replies that replica r may send: a correct one executes what it received
\* and replies once.
Replies(r) ==
  IF r \in Faulty
  THEN {[replica |-> r, seq |-> w[1], result |-> w[2]] : w \in Wrong}
  ELSE {[replica |-> r, seq |-> seq, result |-> seq] :
          seq \in {sent[r][i] : i \in DOMAIN sent[r]} \ Answered(r)}

\* AddReply reads the current request and compares the sequence numbers.
Matches(m) == buf.request # 0 /\ buf.request = m.seq

\* AddReply up to the release of the buffer's lock.  A reply that does not
\* match is dropped, which changes nothing.
ReceiveReply(r, m) ==
  /\ arrived[r] = NoReply /\ (stopped => r \in Late)
  /\ Matches(m)
  /\ arrived' = [arrived EXCEPT ![r] = [m EXCEPT !.seq = buf.request]]
  /\ UNCHANGED <<calls, adding, buf, stream, sent, replies, next, result, ended, stopped>>

\* Mutant: further replies of the same replica are kept.
WithAnyReply(s, m) == Append(s, m)

\* addReply of the reply set.
WithReply(s, m) ==
  IF \E i \in DOMAIN s : s[i].replica = m.replica THEN s ELSE Append(s, m)

AddReply(r) ==
  /\ arrived[r] # NoReply
  /\ replies' = [replies EXCEPT ![arrived[r].seq] = WithReply(@, arrived[r])]
  /\ arrived' = [arrived EXCEPT ![r] = NoReply]
  /\ UNCHANGED <<calls, adding, buf, stream, sent, next, result, ended, stopped>>

\* Replies to request seq with result v among the first n.
Matching(seq, v, n) == {i \in 1..n : replies[seq][i].result = v}

Accepts(seq, v, n) == Cardinality(Matching(seq, v, n)) > F

Collecting(seq) == seq <= buf.lastSeq /\ seq \notin ended

\* collectReplies looks at the next reply.
CollectReply(seq) ==
  /\ Collecting(seq)
  /\ next[seq] < Len(replies[seq])
  /\ next' = [next EXCEPT ![seq] = @ + 1]
  /\ LET v == replies[seq][next[seq] + 1].result
     IN  IF Accepts(seq, v, next[seq] + 1)
         THEN /\ result' = [result EXCEPT ![seq] = v]
              /\ ended' = ended \cup {seq}
              /\ buf' = Without(seq)
         ELSE UNCHANGED <<result, ended, buf>>
  /\ UNCHANGED <<calls, adding, stream, sent, arrived, replies, stopped>>

\* The channel of replies is closed: there is no result.
AbandonRequest(seq) ==
  /\ Collecting(seq)
  /\ stopped \/ Removed(seq)
  /\ ended' = ended \cup {seq}
  /\ UNCHANGED <<calls, adding, buf, stream, sent, arrived, replies, next, result, stopped>>

-----------------------------------------------------------------------------
Stream(r) == CheckRequest(r) \/ SendRequest(r) \/ SkipRequest(r) \/ WakeUp(r)

Next ==
  \/ Request \/ AddRequest \/ CancelWait \/ Terminate
  \/ \E r \in Connected : Stream(r) \/ CloseStream(r)
  \/ \E r \in Replica : \/ AddReply(r)
                        \/ \E m \in Replies(r) : ReceiveReply(r, m)
  \/ \E seq \in RequestID : CollectReply(seq) \/ AbandonRequest(seq)

Spec == Init /\ [][Next]_vars

\* Every goroutine of the client is scheduled, and the replicas that are not
\* faulty receive what is sent to them and reply.  After Terminate a stream and
\* a handler of replies may return instead.
Fairness ==
  /\ WF_vars(AddRequest) /\ WF_vars(CancelWait)
  /\ \A r \in Replica \ Faulty :
       /\ WF_vars(~stopped /\ Stream(r)) /\ WF_vars(AddReply(r))
       /\ WF_vars(~stopped /\ \E m \in Replies(r) : ReceiveReply(r, m))
  /\ \A seq \in RequestID : WF_vars(CollectReply(seq)) /\ WF_vars(AbandonRequest(seq))

FairSpec == Spec /\ Fairness

-----------------------------------------------------------------------------
\* The caller gets the result that correct replicas computed for this very
\* request, although faulty replicas reply anything and late replies to earlier
\* requests still arrive (collectReplies, AddReply).
ResultIsReplicated ==
  \A seq \in RequestID : result[seq] # NoResult => result[seq] = seq

\* A stream sends each request at most once and later ones later, whatever
\* notifications it gets (supplyRequests): replicas rely on IDs increasing.
SentInOrder ==
  \A r \in Replica : \A i, j \in DOMAIN sent[r] : i < j => sent[r][i] < sent[r][j]

\* Every call of Request comes to an end: with its result as long as a majority
\* of the replicas replies, or closed after Terminate.  No request is
\* overlooked by a stream that is between two checks when it is added.
EveryCallEnds ==
  \A seq \in RequestID :
    calls >= seq ~> seq \in ended /\ (stopped \/ result[seq] # NoResult)

=============================================================================
