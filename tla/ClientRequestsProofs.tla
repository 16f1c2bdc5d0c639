----------------------- MODULE ClientRequestsProofs ------------------------
(***************************************************************************)
(* Proofs about ClientRequests, for any number of replicas of which at     *)
(* most F are faulty, any number of calls, and whatever faulty replicas    *)
(* reply.                                                                  *)
(***************************************************************************)
EXTENDS ClientRequests, FiniteSetTheorems, TLAPS

StreamState ==
  [pc : {"check", "send", "wait", "closed"}, request : 0..MaxCalls,
   lastSeq : 0..MaxCalls, newAdded : 0..1]

Types ==
  /\ calls \in 0..MaxCalls
  /\ adding \in 0..MaxCalls
  /\ buf \in [request : 0..MaxCalls, lastSeq : 0..MaxCalls]
  /\ stream \in [Replica -> StreamState]
  /\ sent \in [Replica -> Seq(RequestID)]
  /\ arrived \in [Replica -> Reply \cup {NoReply}]
  /\ replies \in [RequestID -> Seq(Reply)]
  /\ next \in [RequestID -> Nat]
  /\ result \in [RequestID -> Result \cup {NoResult}]

\* What a stream is about to send is new to its replica, and what it sent
\* is not.
StreamInv(r) ==
  /\ stream[r].pc = "send" => stream[r].request > stream[r].lastSeq
  /\ \A i \in 1..Len(sent[r]) : sent[r][i] <= stream[r].lastSeq
  /\ \A i, j \in 1..Len(sent[r]) : i < j => sent[r][i] < sent[r][j]

\* A reply of a correct replica has the result of the request.
Genuine(m) == m.replica \notin Faulty => m.result = m.seq

ArrivedInv(r) ==
  arrived[r] # NoReply => arrived[r].replica = r /\ Genuine(arrived[r])

\* The reply set of a request has one reply of a replica.
RepliesInv(seq) ==
  /\ next[seq] <= Len(replies[seq])
  /\ \A i \in 1..Len(replies[seq]) :
       replies[seq][i].seq = seq /\ Genuine(replies[seq][i])
  /\ \A i, j \in 1..Len(replies[seq]) :
       replies[seq][i].replica = replies[seq][j].replica => i = j

IInv ==
  /\ Types
  /\ \A r \in Replica : StreamInv(r) /\ ArrivedInv(r)
  /\ \A seq \in RequestID : RepliesInv(seq)
  /\ ResultIsReplicated

-----------------------------------------------------------------------------
\* More than F replies of different replicas include one of a correct replica,
\* and that has the result of the request (collectReplies).
LEMMA AcceptedIsReplicated ==
  ASSUME Types, NEW seq \in RequestID, RepliesInv(seq), NEW v,
         NEW n \in 1..Len(replies[seq]), Accepts(seq, v, n)
  PROVE  v = seq
<1> DEFINE S == Matching(seq, v, n)
           f == [i \in S |-> replies[seq][i].replica]
<1>1. IsFiniteSet(Faulty) /\ Cardinality(Faulty) <= F /\ F \in Nat
      /\ Cardinality(Faulty) \in Nat
  BY ReplicaAssumption, FaultyAssumption, FS_Subset, FS_CardinalityType
<1>2. /\ S \subseteq 1..Len(replies[seq]) /\ Len(replies[seq]) \in Nat
      /\ \A i \in S : replies[seq][i].result = v
  BY DEF Matching, Types
<1>3. \E i \in S : replies[seq][i].replica \notin Faulty
  <2> SUFFICES ASSUME \A i \in S : replies[seq][i].replica \in Faulty
               PROVE  FALSE
    OBVIOUS
  <2>1. \A i, j \in S : f[i] = f[j] => i = j
    BY <1>2 DEF RepliesInv
  <2>2. f \in [S -> Faulty]
    OBVIOUS
  <2>3. f \in Injection(S, Faulty)
    <3> HIDE DEF f, S
    <3> QED
      BY <2>1, <2>2 DEF Injection, IsInjective
  <2>4. IsFiniteSet(S) /\ Cardinality(S) <= Cardinality(Faulty)
    <3> HIDE DEF f, S
    <3> QED
      BY <1>1, <2>3, FS_Injection
  <2>5. Cardinality(S) \in Nat
    BY <2>4, FS_CardinalityType
  <2> QED
    BY <1>1, <2>4, <2>5 DEF Accepts
<1> QED
  BY <1>2, <1>3 DEF RepliesInv, Genuine

\* Initially nothing was sent and nothing has arrived.
LEMMA InitIInv == Init => IInv
<1> SUFFICES ASSUME Init PROVE IInv
  OBVIOUS
<1> USE BoundAssumption DEF Init
<1>1. Types
  BY DEF Types, StreamState, RequestID, Result, NoResult
<1>2. \A r \in Replica : StreamInv(r) /\ ArrivedInv(r)
  BY DEF StreamInv, ArrivedInv
<1>3. \A seq \in RequestID : RepliesInv(seq)
  BY DEF RepliesInv
<1>4. ResultIsReplicated
  BY DEF ResultIsReplicated
<1> QED
  BY <1>1, <1>2, <1>3, <1>4 DEF IInv

-----------------------------------------------------------------------------
\* Calls and the buffer: only the notifications of streams change.
LEMMA CallsKeepIInv ==
  ASSUME IInv, Request \/ Terminate \/ AddRequest \/ CancelWait
  PROVE  IInv'
<1> /\ Types /\ MaxCalls \in Nat
    /\ \A r \in Replica : StreamInv(r) /\ ArrivedInv(r)
    /\ \A seq \in RequestID : RepliesInv(seq)
    /\ ResultIsReplicated
  BY BoundAssumption DEF IInv
<1>1. /\ UNCHANGED <<sent, arrived, replies, next, result>>
      /\ calls' \in 0..MaxCalls /\ adding' \in 0..MaxCalls
      /\ buf' \in [request : 0..MaxCalls, lastSeq : 0..MaxCalls]
  <2>1. CASE Request
    BY <2>1 DEF Request, Types
  <2>2. CASE Terminate
    BY <2>2 DEF Terminate, Types
  <2>3. CASE AddRequest
    BY <2>3 DEF AddRequest, Types
  <2>4. CASE CancelWait
    <3>0. buf \in [request : 0..MaxCalls, lastSeq : 0..MaxCalls]
      BY DEF Types
    <3>1. [buf EXCEPT !.request = 0] \in [request : 0..MaxCalls, lastSeq : 0..MaxCalls]
      BY <3>0
    <3>2. buf' = buf \/ buf' = [buf EXCEPT !.request = 0]
      BY <2>4 DEF CancelWait, Without
    <3> QED
      BY <2>4, <3>1, <3>2 DEF CancelWait, Types
  <2> QED
    BY <2>1, <2>2, <2>3, <2>4
<1>2. \A r \in Replica : /\ stream'[r].pc = stream[r].pc
                         /\ stream'[r].request = stream[r].request
                         /\ stream'[r].lastSeq = stream[r].lastSeq
  BY DEF Request, Terminate, AddRequest, CancelWait, Notify, Types, StreamState
<1>3. stream' \in [Replica -> StreamState]
  <2>1. stream \in [Replica -> StreamState]
    BY DEF Types
  <2>2. \A r \in Replica : [stream[r] EXCEPT !.newAdded = 1] \in StreamState
    BY <2>1 DEF StreamState
  <2>3. stream' = stream \/ stream' = [r \in Replica |-> [stream[r] EXCEPT !.newAdded = 1]]
    BY DEF Request, Terminate, AddRequest, CancelWait, Notify
  <2> QED
    BY <2>1, <2>2, <2>3
<1>4. Types'
  BY <1>1, <1>3 DEF Types
<1>5. \A r \in Replica : StreamInv(r)'
  BY <1>1, <1>2 DEF StreamInv
<1>6. /\ \A r \in Replica : ArrivedInv(r)'
      /\ \A seq \in RequestID : RepliesInv(seq)'
      /\ ResultIsReplicated'
  BY <1>1 DEF ArrivedInv, RepliesInv, ResultIsReplicated
<1> QED
  BY <1>4, <1>5, <1>6 DEF IInv

\* The stream of a replica: a request that is sent is higher than all before.
LEMMA StreamKeepsIInv ==
  ASSUME IInv, NEW r \in Replica, Stream(r) \/ CloseStream(r)
  PROVE  IInv'
<1> /\ Types /\ MaxCalls \in Nat
    /\ \A q \in Replica : StreamInv(q) /\ ArrivedInv(q)
    /\ \A seq \in RequestID : RepliesInv(seq)
    /\ ResultIsReplicated
  BY BoundAssumption DEF IInv
<1>1. UNCHANGED <<calls, adding, buf, arrived, replies, next, result>>
  BY DEF Stream, CloseStream, CheckRequest, SendRequest, SkipRequest, WakeUp
<1>0. stream[r] \in StreamState /\ buf.request \in 0..MaxCalls
  BY DEF Types
<1>2. stream' = [stream EXCEPT ![r] = stream'[r]] /\ stream'[r] \in StreamState
  <2>1. CASE CheckRequest(r) /\ Sends(r)
    <3>1. [stream[r] EXCEPT !.pc = "send", !.request = buf.request] \in StreamState
      BY <1>0 DEF StreamState
    <3> QED
      BY <2>1, <3>1 DEF CheckRequest, Types
  <2>2. CASE (CheckRequest(r) /\ ~Sends(r)) \/ SkipRequest(r)
    <3>1. [stream[r] EXCEPT !.pc = "wait"] \in StreamState
      BY <1>0 DEF StreamState
    <3> QED
      BY <2>2, <3>1 DEF CheckRequest, SkipRequest, Types
  <2>3. CASE SendRequest(r)
    <3>1. [stream[r] EXCEPT !.pc = "wait", !.lastSeq = stream[r].request] \in StreamState
      BY <1>0 DEF StreamState
    <3> QED
      BY <2>3, <3>1 DEF SendRequest, Types
  <2>4. CASE WakeUp(r)
    <3>1. [stream[r] EXCEPT !.pc = "check", !.newAdded = 0] \in StreamState
      <4>1. 0 \in 0..1
        OBVIOUS
      <4> QED
        BY <1>0, <4>1 DEF StreamState
    <3> QED
      BY <2>4, <3>1 DEF WakeUp, Types
  <2>5. CASE CloseStream(r)
    <3>1. [stream[r] EXCEPT !.pc = "closed"] \in StreamState
      BY <1>0 DEF StreamState
    <3> QED
      BY <2>5, <3>1 DEF CloseStream, Types
  <2> QED
    BY <2>1, <2>2, <2>3, <2>4, <2>5 DEF Stream
<1>3. sent' = [sent EXCEPT ![r] = sent'[r]] /\ sent'[r] \in Seq(RequestID) /\ StreamInv(r)'
  <2>1. CASE SendRequest(r)
    <3>1. stream[r].request \in RequestID /\ stream[r].request > stream[r].lastSeq
      BY <2>1 DEF SendRequest, StreamInv, Types, StreamState, RequestID
    <3>2. /\ sent'[r] = Append(sent[r], stream[r].request)
          /\ sent' = [sent EXCEPT ![r] = sent'[r]]
          /\ sent[r] \in Seq(RequestID)
      BY <2>1 DEF SendRequest, Types
    <3>3. /\ Len(sent'[r]) = Len(sent[r]) + 1 /\ Len(sent[r]) \in Nat
          /\ \A i \in 1..Len(sent[r]) : sent'[r][i] = sent[r][i] /\ sent[r][i] \in RequestID
          /\ sent'[r][Len(sent[r]) + 1] = stream[r].request
          /\ sent'[r] \in Seq(RequestID)
      BY <3>1, <3>2
    <3>4. /\ stream'[r].pc = "wait" /\ stream'[r].lastSeq = stream[r].request
          /\ stream[r].lastSeq \in Nat
      BY <2>1 DEF SendRequest, Types, StreamState
    <3>0. /\ \A i \in 1..Len(sent[r]) : sent[r][i] <= stream[r].lastSeq
          /\ \A i, j \in 1..Len(sent[r]) : i < j => sent[r][i] < sent[r][j]
      BY DEF StreamInv
    <3>6. \A i \in 1..Len(sent[r]) : sent[r][i] < stream[r].request
      <4> SUFFICES ASSUME NEW i \in 1..Len(sent[r]) PROVE sent[r][i] < stream[r].request
        OBVIOUS
      <4>1. sent[r][i] <= stream[r].lastSeq /\ sent[r][i] \in Nat
        BY <3>0, <3>3 DEF RequestID
      <4> QED
        BY <3>1, <3>4, <4>1 DEF RequestID
    <3>5. \A i \in 1..Len(sent'[r]) : sent'[r][i] <= stream'[r].lastSeq
      <4> SUFFICES ASSUME NEW i \in 1..Len(sent[r]) + 1
                   PROVE  sent'[r][i] <= stream[r].request
        BY <3>3, <3>4
      <4>1. CASE i = Len(sent[r]) + 1
        BY <3>1, <3>3, <4>1 DEF RequestID
      <4>2. CASE i \in 1..Len(sent[r])
        <5>1. sent'[r][i] < stream[r].request /\ sent'[r][i] \in Nat
          BY <3>3, <3>6, <4>2 DEF RequestID
        <5> QED
          BY <3>1, <5>1 DEF RequestID
      <4> QED
        BY <3>3, <4>1, <4>2
    <3>7. \A i, j \in 1..Len(sent'[r]) : i < j => sent'[r][i] < sent'[r][j]
      <4> SUFFICES ASSUME NEW i \in 1..Len(sent[r]) + 1, NEW j \in 1..Len(sent[r]) + 1, i < j
                   PROVE  sent'[r][i] < sent'[r][j]
        BY <3>3
      <4>1. i \in 1..Len(sent[r])
        BY <3>3
      <4>2. CASE j = Len(sent[r]) + 1
        BY <3>3, <3>6, <4>1, <4>2
      <4>3. CASE j \in 1..Len(sent[r])
        BY <3>0, <3>3, <4>1, <4>3
      <4> QED
        BY <3>3, <4>2, <4>3
    <3>8. StreamInv(r)'
      BY <3>4, <3>5, <3>7 DEF StreamInv
    <3> QED
      BY <3>2, <3>3, <3>8
  <2>2. CASE ~SendRequest(r)
    <3>0. stream \in [Replica -> StreamState]
      BY DEF Types
    <3>1. UNCHANGED sent /\ stream'[r].lastSeq = stream[r].lastSeq
      BY <2>2, <3>0 DEF Stream, CloseStream, CheckRequest, SkipRequest, WakeUp, StreamState
    <3>2. stream'[r].pc = "send" => stream'[r].request > stream'[r].lastSeq
      <4>1. CASE CheckRequest(r) /\ Sends(r)
        <5>1. stream'[r] = [stream[r] EXCEPT !.pc = "send", !.request = buf.request]
          BY <3>0, <4>1 DEF CheckRequest
        <5> QED
          BY <1>0, <4>1, <5>1 DEF Sends, StreamState
      <4>2. CASE (CheckRequest(r) /\ ~Sends(r)) \/ SkipRequest(r) \/ WakeUp(r) \/ CloseStream(r)
        <5>1. stream'[r].pc # "send"
          BY <3>0, <4>2 DEF CheckRequest, CloseStream, SkipRequest, WakeUp, StreamState
        <5> QED
          BY <5>1
      <4> QED
        BY <2>2, <4>1, <4>2 DEF Stream
    <3> QED
      BY <3>1, <3>2 DEF StreamInv, Types
  <2> QED
    BY <2>1, <2>2
<1>4. Types'
  BY <1>1, <1>2, <1>3 DEF Types
<1>5. \A q \in Replica : StreamInv(q)'
  <2> SUFFICES ASSUME NEW q \in Replica, q # r PROVE StreamInv(q)'
    BY <1>3
  <2>1. sent'[q] = sent[q] /\ stream'[q] = stream[q]
    BY <1>2, <1>3 DEF Types
  <2> QED
    BY <2>1 DEF StreamInv
<1>6. /\ \A q \in Replica : ArrivedInv(q)'
      /\ \A seq \in RequestID : RepliesInv(seq)'
      /\ ResultIsReplicated'
  BY <1>1 DEF ArrivedInv, RepliesInv, ResultIsReplicated
<1> QED
  BY <1>4, <1>5, <1>6 DEF IInv

\* A reply that arrives is kept apart until it is added.
LEMMA ReceiveKeepsIInv ==
  ASSUME IInv, NEW r \in Replica, NEW m \in Replies(r), ReceiveReply(r, m)
  PROVE  IInv'
<1> /\ Types /\ MaxCalls \in Nat
    /\ \A q \in Replica : StreamInv(q) /\ ArrivedInv(q)
    /\ \A seq \in RequestID : RepliesInv(seq)
    /\ ResultIsReplicated
  BY BoundAssumption DEF IInv
<1>1. UNCHANGED <<calls, adding, buf, stream, sent, replies, next, result>>
  BY DEF ReceiveReply
<1>2. m \in Reply /\ m.replica = r /\ Genuine(m)
  <2>1. CASE r \in Faulty
    <3>1. PICK w \in Wrong : m = [replica |-> r, seq |-> w[1], result |-> w[2]]
      BY <2>1 DEF Replies
    <3>2. w[1] \in RequestID /\ w[2] \in Result
      BY <3>1, BoundAssumption DEF RequestID, Result
    <3> QED
      BY <2>1, <3>1, <3>2 DEF Reply, Genuine
  <2>2. CASE r \notin Faulty
    <3>1. PICK i \in DOMAIN sent[r] :
            m = [replica |-> r, seq |-> sent[r][i], result |-> sent[r][i]]
      BY <2>2 DEF Replies
    <3>2. sent[r] \in Seq(RequestID)
      BY DEF Types
    <3>3. sent[r][i] \in RequestID /\ sent[r][i] \in Result
      BY <3>1, <3>2 DEF RequestID, Result
    <3> QED
      BY <3>1, <3>3 DEF Reply, Genuine
  <2> QED
    BY <2>1, <2>2
<1>3. arrived' = [arrived EXCEPT ![r] = m]
  <2>1. [m EXCEPT !.seq = buf.request] = m
    BY <1>2 DEF ReceiveReply, Matches, Reply
  <2> QED
    BY <2>1 DEF ReceiveReply
<1>4. Types'
  BY <1>1, <1>2, <1>3 DEF Types
<1>5. \A q \in Replica : StreamInv(q)' /\ ArrivedInv(q)'
  BY <1>1, <1>2, <1>3 DEF StreamInv, ArrivedInv, Types
<1>6. (\A seq \in RequestID : RepliesInv(seq)') /\ ResultIsReplicated'
  BY <1>1 DEF RepliesInv, ResultIsReplicated
<1> QED
  BY <1>4, <1>5, <1>6 DEF IInv

\* A second reply of the same replica is dropped.
LEMMA AddReplyKeepsIInv ==
  ASSUME IInv, NEW r \in Replica, AddReply(r)
  PROVE  IInv'
<1> /\ Types /\ MaxCalls \in Nat
    /\ \A q \in Replica : StreamInv(q) /\ ArrivedInv(q)
    /\ \A seq \in RequestID : RepliesInv(seq)
    /\ ResultIsReplicated
  BY BoundAssumption DEF IInv
<1>m. PICK m \in Reply : m = arrived[r]
  BY DEF AddReply, Types
<1>s. PICK s \in Seq(Reply) : s = replies[m.seq]
  BY DEF Types, Reply
<1>1. UNCHANGED <<calls, adding, buf, stream, sent, next, result>>
  BY DEF AddReply
<1>2. m \in Reply /\ m.seq \in RequestID /\ m.replica = r /\ Genuine(m)
  BY <1>m DEF AddReply, ArrivedInv, Reply
<1>3. /\ replies' = [replies EXCEPT ![m.seq] = WithReply(s, m)]
      /\ arrived' = [arrived EXCEPT ![r] = NoReply]
      /\ s \in Seq(Reply) /\ RepliesInv(m.seq)
  BY <1>m, <1>s, <1>2 DEF AddReply, Types
<1>4. WithReply(s, m) \in Seq(Reply) /\ RepliesInv(m.seq)'
  <2>1. CASE \E i \in DOMAIN s : s[i].replica = m.replica
    <3>1. WithReply(s, m) = s
      BY <2>1 DEF WithReply
    <3>2. replies' = replies
      BY <1>s, <1>2, <1>3, <3>1 DEF Types
    <3> QED
      BY <1>1, <1>3, <3>1, <3>2 DEF RepliesInv
  <2>2. CASE ~\E i \in DOMAIN s : s[i].replica = m.replica
    <3>1. WithReply(s, m) = Append(s, m) /\ replies'[m.seq] = Append(s, m)
      BY <1>2, <1>3, <2>2 DEF WithReply, Types
    <3>2. /\ Append(s, m) \in Seq(Reply) /\ Len(s) \in Nat
          /\ Len(Append(s, m)) = Len(s) + 1
          /\ \A i \in 1..Len(s) : Append(s, m)[i] = s[i]
          /\ Append(s, m)[Len(s) + 1] = m
          /\ DOMAIN s = 1..Len(s)
      BY <1>2, <1>3
    <3>3. next'[m.seq] <= Len(s) + 1
      BY <1>s, <1>1, <1>2, <1>3, <3>2 DEF RepliesInv, Types
    <3>4. \A i \in 1..Len(s) + 1 : Append(s, m)[i].seq = m.seq /\ Genuine(Append(s, m)[i])
      BY <1>s, <1>2, <1>3, <3>2 DEF RepliesInv
    <3>5. \A i, j \in 1..Len(s) + 1 :
            Append(s, m)[i].replica = Append(s, m)[j].replica => i = j
      <4>1. \A i, j \in 1..Len(s) : s[i].replica = s[j].replica => i = j
        BY <1>s, <1>3 DEF RepliesInv
      <4>2. \A i \in 1..Len(s) : s[i].replica # m.replica
        BY <2>2, <3>2
      <4> QED
        BY <3>2, <4>1, <4>2
    <3> QED
      BY <3>1, <3>2, <3>3, <3>4, <3>5 DEF RepliesInv
  <2> QED
    BY <2>1, <2>2
<1>5. Types'
  BY <1>1, <1>2, <1>3, <1>4 DEF Types
<1>6. \A seq \in RequestID : RepliesInv(seq)'
  <2> SUFFICES ASSUME NEW seq \in RequestID, seq # m.seq PROVE RepliesInv(seq)'
    BY <1>4
  <2>1. replies'[seq] = replies[seq]
    BY <1>3 DEF Types
  <2> QED
    BY <1>1, <2>1 DEF RepliesInv
<1>7. \A q \in Replica : StreamInv(q)' /\ ArrivedInv(q)'
  BY <1>1, <1>3 DEF StreamInv, ArrivedInv, Types
<1>8. ResultIsReplicated'
  BY <1>1 DEF ResultIsReplicated
<1> QED
  BY <1>5, <1>6, <1>7, <1>8 DEF IInv

\* A result is accepted once more than F replicas gave it.
LEMMA CollectKeepsIInv ==
  ASSUME IInv, NEW seq \in RequestID, CollectReply(seq) \/ AbandonRequest(seq)
  PROVE  IInv'
<1> /\ Types /\ MaxCalls \in Nat
    /\ \A q \in Replica : StreamInv(q) /\ ArrivedInv(q)
    /\ \A w \in RequestID : RepliesInv(w)
    /\ ResultIsReplicated
  BY BoundAssumption DEF IInv
<1>1. UNCHANGED <<calls, adding, stream, sent, arrived, replies>>
  BY DEF CollectReply, AbandonRequest
<1>2. \A q \in Replica : StreamInv(q)' /\ ArrivedInv(q)'
  BY <1>1 DEF StreamInv, ArrivedInv
<1>3. buf' \in [request : 0..MaxCalls, lastSeq : 0..MaxCalls]
  <2>0. buf \in [request : 0..MaxCalls, lastSeq : 0..MaxCalls]
    BY DEF Types
  <2>1. [buf EXCEPT !.request = 0] \in [request : 0..MaxCalls, lastSeq : 0..MaxCalls]
    BY <2>0
  <2>2. buf' = buf \/ buf' = [buf EXCEPT !.request = 0]
    BY DEF CollectReply, AbandonRequest, Without
  <2> QED
    BY <2>0, <2>1, <2>2
<1>4. CASE AbandonRequest(seq)
  <2>1. UNCHANGED <<next, result>>
    BY <1>4 DEF AbandonRequest
  <2> QED
    BY <1>1, <1>2, <1>3, <2>1 DEF IInv, Types, RepliesInv, ResultIsReplicated
<1>5. CASE CollectReply(seq)
  <2> DEFINE n == next[seq] + 1
  <2>1. /\ next' = [next EXCEPT ![seq] = n] /\ next[seq] \in Nat
        /\ replies[seq] \in Seq(Reply) /\ n \in 1..Len(replies[seq])
    BY <1>5 DEF CollectReply, Types
  <2>2. PICK v \in Result : v = replies[seq][n].result
    <3>1. replies[seq][n] \in Reply
      BY <2>1
    <3> QED
      BY <3>1 DEF Reply
  <2>3. \/ UNCHANGED result
        \/ Accepts(seq, v, n) /\ result' = [result EXCEPT ![seq] = v]
    BY <1>5, <2>2 DEF CollectReply
  <2>4. next' \in [RequestID -> Nat] /\ result' \in [RequestID -> Result \cup {NoResult}]
    <3>1. next' \in [RequestID -> Nat]
      BY <2>1 DEF Types
    <3> QED
      BY <2>3, <3>1 DEF Types
  <2>5. Types'
    BY <1>1, <1>3, <2>4 DEF Types
  <2>6. \A w \in RequestID : RepliesInv(w)'
    BY <1>1, <2>1 DEF RepliesInv, Types
  <2>7. ResultIsReplicated'
    <3>1. CASE UNCHANGED result
      BY <3>1 DEF ResultIsReplicated
    <3>2. CASE Accepts(seq, v, n) /\ result' = [result EXCEPT ![seq] = v]
      <4>1. v = seq
        BY <2>1, <3>2, AcceptedIsReplicated
      <4> QED
        BY <3>2, <4>1 DEF ResultIsReplicated, Types
    <3> QED
      BY <2>3, <3>1, <3>2
  <2> QED
    BY <1>2, <2>5, <2>6, <2>7 DEF IInv
<1> QED
  BY <1>4, <1>5

\* IInv is inductive.
THEOREM Inductive == Spec => []IInv
<1>1. IInv /\ [Next]_vars => IInv'
  <2> SUFFICES ASSUME IInv, [Next]_vars PROVE IInv'
    OBVIOUS
  <2>1. CASE Request \/ AddRequest \/ CancelWait \/ Terminate
    BY <2>1, CallsKeepIInv
  <2>2. CASE \E r \in Connected : Stream(r) \/ CloseStream(r)
    BY <2>2, BoundAssumption, StreamKeepsIInv
  <2>3. CASE \E r \in Replica : \/ AddReply(r)
                                \/ \E m \in Replies(r) : ReceiveReply(r, m)
    BY <2>3, AddReplyKeepsIInv, ReceiveKeepsIInv
  <2>4. CASE \E seq \in RequestID : CollectReply(seq) \/ AbandonRequest(seq)
    BY <2>4, CollectKeepsIInv
  <2>5. CASE UNCHANGED vars
    BY <2>5 DEF vars, IInv, Types, StreamInv, ArrivedInv, RepliesInv, ResultIsReplicated
  <2> QED
    BY <2>1, <2>2, <2>3, <2>4, <2>5 DEF Next
<1> QED
  BY InitIInv, <1>1, PTL DEF Spec

-----------------------------------------------------------------------------
\* A result that the client gets is the one correct replicas computed for its
\* request, for any number of replicas with at most F faulty ones
\* (collectReplies, AddReply).
THEOREM OnlyReplicatedResults == Spec => []ResultIsReplicated
<1>1. IInv => ResultIsReplicated
  BY DEF IInv
<1> QED
  BY Inductive, <1>1, PTL

\* Every replica is sent each request at most once, in order of the sequence
\* numbers (supplyRequests).
THEOREM RequestsInOrder == Spec => []SentInOrder
<1>1. IInv => SentInOrder
  <2> SUFFICES ASSUME IInv, NEW r \in Replica PROVE
        \A i, j \in DOMAIN sent[r] : i < j => sent[r][i] < sent[r][j]
    BY DEF SentInOrder
  <2>1. sent[r] \in Seq(RequestID) /\ StreamInv(r)
    BY DEF IInv, Types
  <2> QED
    BY <2>1 DEF StreamInv
<1> QED
  BY Inductive, <1>1, PTL

=============================================================================
