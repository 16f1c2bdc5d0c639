-------------------------- MODULE MessageLogProofs --------------------------
(***************************************************************************)
(* Proofs about MessageLog, for any set of streams, any number of messages *)
(* and resets: above all that it implements LogStream.                     *)
(***************************************************************************)
EXTENDS MessageLog, TLAPS

\* Messages that entered the log before those that are in it.
Base == count - Len(msgs)

\* The log holds the messages that entered it last.
LogIsLatest ==
  /\ Base \in Nat /\ Base + 1 \in starts
  /\ \A i \in 1..Len(msgs) : msgs[i] = Base + i

\* What a goroutine has read and not sent is a piece of some log ...
SliceIsPiece(s) ==
  \A i \in 1..Len(sliceOf[s]) :
    sliceOf[s][i] = sliceOf[s][1] + i - 1 /\ sliceOf[s][i] <= count

\* ... that follows what it has sent, or begins a later log.
SliceIsNext(s) ==
  pc[s] = "send" => /\ pos[s] < sliceOf[s][1]
                    /\ sliceOf[s][1] = pos[s] + 1 \/ sliceOf[s][1] \in starts

\* A goroutine that knows of the last reset has read next messages of the log
\* and has sent, or is about to send, all of them.
Current(s) ==
  resetSeen[s] = resetChan =>
    /\ next[s] <= Len(msgs)
    /\ pc[s] \in {"read", "wait"} =>
         pos[s] = Base + next[s] \/ (next[s] = 0 /\ pos[s] <= Base)
    /\ pc[s] = "send" => sliceOf[s][Len(sliceOf[s])] = Base + next[s] /\ next[s] > 0

\* All that other goroutines have read precedes the log.
Stale(s) ==
  resetSeen[s] < resetChan =>
    /\ pos[s] <= Base
    /\ \A i \in 1..Len(sliceOf[s]) : sliceOf[s][i] <= Base

Unstarted(s) == pc[s] = "start" => pos[s] = 0 /\ next[s] = 0

StreamInv(s) ==
  SliceIsPiece(s) /\ SliceIsNext(s) /\ Current(s) /\ Stale(s) /\ Unstarted(s)

IInv == TypeOK /\ ReadsWithinLog /\ LogIsLatest /\ \A s \in Stream : StreamInv(s)

-----------------------------------------------------------------------------
\* Initially the log is empty and nothing has been read.
LEMMA InitIInv == Init => IInv
<1> SUFFICES ASSUME Init PROVE IInv
  OBVIOUS
<1> USE DEF Init
<1>1. TypeOK
  <2>1. starts \subseteq 1..(count + 1)
    OBVIOUS
  <2>2. pc \in [Stream -> PC] /\ \A s \in Stream : pc[s] # "send"
    BY DEF PC
  <2>3. sliceOf \in [Stream -> Seq(Nat)] /\ msgs \in Seq(Nat)
    OBVIOUS
  <2>4. /\ next \in [Stream -> Nat] /\ addedSeen \in [Stream -> 0..newAdded]
        /\ resetSeen \in [Stream -> 0..resetChan] /\ pos \in [Stream -> 0..count]
    OBVIOUS
  <2> QED
    BY <2>1, <2>2, <2>3, <2>4 DEF TypeOK
<1>2. Len(msgs) = 0
  OBVIOUS
<1>3. LogIsLatest
  BY <1>2 DEF LogIsLatest, Base
<1>4. ASSUME NEW s \in Stream PROVE StreamInv(s)
  BY <1>2, <1>3 DEF StreamInv, SliceIsPiece, SliceIsNext, Current, Stale, Unstarted, LogIsLatest, Base
<1> QED
  BY <1>1, <1>3, <1>4 DEF IInv, ReadsWithinLog

\* Steps that leave a stream and the log alone keep what holds of the stream.
LEMMA StreamUnchanged ==
  ASSUME NEW s, StreamInv(s),
         UNCHANGED logVars,
         pc'[s] = pc[s], sliceOf'[s] = sliceOf[s], next'[s] = next[s],
         resetSeen'[s] = resetSeen[s], pos'[s] = pos[s]
  PROVE  StreamInv(s)'
BY DEF StreamInv, SliceIsPiece, SliceIsNext, Current, Stale, Unstarted, Base, logVars

\* Appending a message makes the log longer at its end.
LEMMA AppendKeepsIInv ==
  ASSUME IInv, AppendMessage
  PROVE  IInv'
<1> USE DEF AppendMessage, IInv, streamVars
<1>1. /\ Len(msgs') = Len(msgs) + 1 /\ Len(msgs) \in Nat /\ msgs' \in Seq(Nat)
      /\ \A i \in 1..Len(msgs) : msgs'[i] = msgs[i]
      /\ msgs'[Len(msgs) + 1] = count + 1
  BY DEF TypeOK
<1>2. TypeOK'
  <2>1. /\ addedSeen' \in [Stream -> 0..newAdded'] /\ pos' \in [Stream -> 0..count']
        /\ starts' \subseteq 1..(count' + 1)
    BY DEF TypeOK
  <2> QED
    BY <1>1, <2>1 DEF TypeOK
<1>3. Base' = Base /\ Base \in Nat
  BY <1>1 DEF TypeOK, Base, LogIsLatest
<1>4. LogIsLatest'
  <2>1. count + 1 = Base + Len(msgs')
    BY <1>1 DEF TypeOK, Base
  <2>2. ASSUME NEW i \in 1..Len(msgs') PROVE msgs'[i] = Base + i
    <3>1. CASE i \in 1..Len(msgs)
      BY <1>1, <3>1 DEF LogIsLatest
    <3>2. CASE i = Len(msgs')
      BY <1>1, <2>1, <3>2
    <3> QED
      BY <1>1, <3>1, <3>2
  <2> QED
    BY <1>3, <2>2 DEF LogIsLatest
<1>5. ASSUME NEW s \in Stream PROVE StreamInv(s)'
  <2>1. SliceIsPiece(s)'
    <3>1. SliceIsPiece(s) /\ count \in Nat /\ sliceOf[s] \in Seq(Nat)
      BY DEF StreamInv, TypeOK
    <3> QED
      BY <3>1 DEF SliceIsPiece
  <2>2. SliceIsNext(s)' /\ Unstarted(s)'
    BY DEF StreamInv, SliceIsNext, Unstarted
  <2>3. Current(s)' /\ Stale(s)'
    BY <1>1, <1>3 DEF StreamInv, Current, Stale, TypeOK
  <2> QED
    BY <2>1, <2>2, <2>3 DEF StreamInv
<1> QED
  BY <1>2, <1>4, <1>5 DEF ReadsWithinLog

\* A reset makes all goroutines stale: what they have read precedes the log.
LEMMA ResetKeepsIInv ==
  ASSUME IInv, NEW k \in Nat, Reset(k)
  PROVE  IInv'
<1> USE DEF Reset, IInv, streamVars
<1>1. /\ msgs' \in Seq(Nat) /\ Len(msgs') = k
      /\ \A i \in 1..k : msgs'[i] = count + i
  BY DEF TypeOK
<1>2. TypeOK'
  <2>1. /\ resetSeen' \in [Stream -> 0..resetChan'] /\ pos' \in [Stream -> 0..count']
        /\ starts' \subseteq 1..(count' + 1) /\ resetChan' \in Nat /\ count' \in Nat
    BY DEF TypeOK
  <2> QED
    BY <1>1, <2>1 DEF TypeOK
<1>3. Base' = count /\ count \in Nat
  BY <1>1 DEF TypeOK, Base
<1>4. LogIsLatest'
  BY <1>1, <1>3 DEF LogIsLatest
<1>5. ASSUME NEW s \in Stream PROVE StreamInv(s)'
  <2>0. /\ StreamInv(s) /\ sliceOf[s] \in Seq(Nat) /\ Len(sliceOf[s]) \in Nat
        /\ \A i \in 1..Len(sliceOf[s]) : sliceOf[s][i] \in Nat
        /\ pos[s] \in Nat /\ pos[s] <= count
        /\ resetSeen[s] \in Nat /\ resetSeen[s] < resetChan'
        /\ resetChan' \in Nat /\ count' >= count /\ count' \in Nat
    <3>1. /\ sliceOf[s] \in Seq(Nat) /\ pos[s] \in 0..count /\ resetSeen[s] \in 0..resetChan
          /\ resetChan \in Nat /\ count \in Nat
      BY DEF TypeOK
    <3>2. Len(sliceOf[s]) \in Nat /\ \A i \in 1..Len(sliceOf[s]) : sliceOf[s][i] \in Nat
      BY <3>1
    <3>3. resetChan' = resetChan + 1 /\ count' = count + k
      OBVIOUS
    <3>4. /\ pos[s] \in Nat /\ pos[s] <= count /\ resetSeen[s] \in Nat
          /\ resetSeen[s] < resetChan' /\ resetChan' \in Nat
          /\ count' >= count /\ count' \in Nat
      BY <3>1, <3>3
    <3> QED
      BY <3>1, <3>2, <3>4, Zenon
  <2>1. SliceIsPiece(s)'
    <3>1. sliceOf' = sliceOf /\ SliceIsPiece(s)
      BY <2>0 DEF StreamInv
    <3> SUFFICES ASSUME NEW i \in 1..Len(sliceOf[s])
                 PROVE  sliceOf[s][i] = sliceOf[s][1] + i - 1 /\ sliceOf[s][i] <= count'
      BY <3>1 DEF SliceIsPiece
    <3>2. /\ sliceOf[s][i] = sliceOf[s][1] + i - 1 /\ sliceOf[s][i] <= count
          /\ sliceOf[s][i] \in Nat
      BY <2>0, <3>1, Zenon DEF SliceIsPiece
    <3> QED
      BY <1>3, <2>0, <3>2
  <2>2. SliceIsNext(s)' /\ Unstarted(s)'
    BY DEF StreamInv, SliceIsNext, Unstarted
  <2>3. Current(s)'
    BY <2>0 DEF Current
  <2>4. Stale(s)'
    BY <1>3, <2>0 DEF StreamInv, SliceIsPiece, Stale
  <2> QED
    BY <2>1, <2>2, <2>3, <2>4 DEF StreamInv
<1> QED
  BY <1>2, <1>4, <1>5 DEF ReadsWithinLog

-----------------------------------------------------------------------------
\* What is left of a log of length len that starts after b, from a place on.
IsRest(q, b, from, len) ==
  /\ q \in Seq(Nat)
  /\ \A i \in 1..Len(q) : q[i] = q[1] + i - 1 /\ q[i] <= b + len
  /\ from < len => q # <<>> /\ q[1] = b + from + 1 /\ q[Len(q)] = b + len

\* What is left of a log after its first messages.
LEMMA RestOfLog ==
  ASSUME NEW m \in Seq(Nat), NEW b \in Nat, NEW from \in Nat, from <= Len(m),
         \A i \in 1..Len(m) : m[i] = b + i
  PROVE  IsRest(SubSeq(m, from + 1, Len(m)), b, from, Len(m))
<1> DEFINE q == SubSeq(m, from + 1, Len(m))
<1>1. q \in Seq(Nat) /\ Len(q) = Len(m) - from
  OBVIOUS
<1>2. ASSUME NEW i \in 1..Len(q) PROVE q[i] = b + from + i
  <2>1. q[i] = m[from + i] /\ from + i \in 1..Len(m)
    BY <1>1
  <2> QED
    BY <2>1
<1>3. Len(m) \in Nat
  OBVIOUS
<1> HIDE DEF q
<1>4. \A i \in 1..Len(q) : q[i] = q[1] + i - 1 /\ q[i] <= b + Len(m)
  <2> TAKE i \in 1..Len(q)
  <2>1. 1 \in 1..Len(q) /\ i \in Nat /\ from + i <= Len(m)
    BY <1>1, <1>3
  <2>2. q[1] = b + from + 1 /\ q[i] = b + from + i
    BY <1>2, <2>1
  <2> QED
    BY <1>3, <2>1, <2>2
<1>5. from < Len(m) => q # <<>> /\ q[1] = b + from + 1 /\ q[Len(q)] = b + Len(m)
  <2> SUFFICES ASSUME from < Len(m)
               PROVE  q # <<>> /\ q[1] = b + from + 1 /\ q[Len(q)] = b + Len(m)
    OBVIOUS
  <2>1. Len(q) > 0 /\ 1 \in 1..Len(q) /\ Len(q) \in 1..Len(q)
    BY <1>1, <1>3
  <2>2. q # <<>>
    BY <2>1
  <2> QED
    BY <1>1, <1>2, <1>3, <2>1, <2>2
<1> QED
  BY <1>1, <1>4, <1>5 DEF IsRest, q

\* What is left of a piece after its first message.
LEMMA RestOfPiece ==
  ASSUME NEW p \in Seq(Nat), NEW c \in Nat, p # <<>>,
         \A i \in 1..Len(p) : p[i] = p[1] + i - 1 /\ p[i] <= c,
         NEW q, q = Tail(p)
  PROVE  /\ q \in Seq(Nat)
         /\ Head(p) = p[1] /\ p[1] \in Nat /\ p[1] <= c
         /\ \A i \in 1..Len(q) : q[i] = q[1] + i - 1 /\ q[i] <= c
         /\ \A b : (\A i \in 1..Len(p) : p[i] <= b) => \A i \in 1..Len(q) : q[i] <= b
         /\ IF Len(p) > 1 THEN q # <<>> /\ q[1] = p[1] + 1 /\ q[Len(q)] = p[Len(p)]
                          ELSE p[1] = p[Len(p)]
<1>1. /\ q \in Seq(Nat) /\ Len(q) = Len(p) - 1 /\ Len(p) \in Nat /\ Len(p) > 0
      /\ Head(p) = p[1] /\ p[1] \in Nat
  OBVIOUS
<1>2. ASSUME NEW i \in 1..Len(q) PROVE q[i] = p[i + 1] /\ i + 1 \in 1..Len(p)
  BY <1>1
<1>3. p[1] <= c
  BY <1>1
<1>4. ASSUME NEW i \in 1..Len(q) PROVE q[i] = p[1] + i /\ q[i] <= c
  <2>1. p[i + 1] = p[1] + (i + 1) - 1 /\ p[i + 1] <= c
    BY <1>2
  <2>2. i \in Nat
    BY <1>1
  <2> QED
    BY <1>1, <1>2, <2>1, <2>2
<1>5. \A i \in 1..Len(q) : q[i] = q[1] + i - 1 /\ q[i] <= c
  <2> TAKE i \in 1..Len(q)
  <2>1. 1 \in 1..Len(q) /\ i \in Nat
    BY <1>1
  <2>2. q[1] = p[1] + 1
    BY <1>4, <2>1
  <2> QED
    BY <1>1, <1>4, <2>1, <2>2
<1>6. \A b : (\A i \in 1..Len(p) : p[i] <= b) => \A i \in 1..Len(q) : q[i] <= b
  BY <1>2
<1>7. CASE Len(p) > 1
  <2>1. Len(q) > 0 /\ 1 \in 1..Len(q) /\ Len(q) \in 1..Len(q) /\ Len(q) + 1 = Len(p)
    BY <1>1, <1>7
  <2>2. q # <<>>
    <3>1. Len(q) # 0 /\ Len(<<>>) = 0
      BY <2>1
    <3> QED
      BY <3>1, Zenon
  <2>3. q[1] = p[1] + 1
    BY <1>4, <2>1
  <2>4. q[Len(q)] = p[Len(p)]
    <3>1. q[Len(q)] = p[Len(q) + 1]
      BY <1>2, <2>1, Zenon
    <3> QED
      BY <2>1, <3>1, Zenon
  <2> QED
    BY <1>1, <1>3, <1>5, <1>6, <1>7, <2>2, <2>3, <2>4
<1>8. CASE ~(Len(p) > 1)
  <2>1. Len(p) = 1
    BY <1>1, <1>8
  <2> QED
    BY <1>1, <1>3, <1>5, <1>6, <1>8, <2>1
<1> QED
  BY <1>7, <1>8

-----------------------------------------------------------------------------
\* Reading on takes what follows the messages read before, or all of a log
\* that is new to the goroutine.
LEMMA ReadKeepsIInv ==
  ASSUME IInv, NEW s \in Stream, Read(s)
  PROVE  IInv'
<1> DEFINE from == ReadFrom(s)
           more == from < Len(msgs)
           piece == SubSeq(msgs, from + 1, Len(msgs))
<1>1. /\ Len(msgs) \in Nat /\ next[s] \in Nat /\ pos[s] \in Nat /\ Base \in Nat
      /\ count \in Nat /\ count = Base + Len(msgs) /\ resetChan \in Nat
      /\ resetSeen[s] \in 0..resetChan /\ msgs \in Seq(Nat)
      /\ Base + 1 \in starts
  BY DEF IInv, TypeOK, LogIsLatest, Base
<1>2. /\ from \in Nat /\ from <= Len(msgs)
      /\ pos[s] = Base + from \/ (from = 0 /\ pos[s] <= Base)
  BY <1>1 DEF IInv, Read, StreamInv, Current, Stale, ReadFrom
<1>3. /\ sliceOf' = [sliceOf EXCEPT ![s] = piece]
      /\ pc' = [pc EXCEPT ![s] = IF more THEN "send" ELSE "wait"]
      /\ next' = [next EXCEPT ![s] = Len(msgs)]
      /\ resetSeen' = [resetSeen EXCEPT ![s] = resetChan]
      /\ addedSeen' = [addedSeen EXCEPT ![s] = newAdded]
      /\ UNCHANGED <<logVars, pos, done>>
  BY DEF Read
<1>4. ~panicked'
  <2>1. ~(ReadFrom(s) > Len(msgs))
    BY <1>1, <1>2
  <2> QED
    BY <2>1, Zenon DEF IInv, ReadsWithinLog, Read
<1> HIDE DEF from, piece
<1>5. /\ piece \in Seq(Nat)
      /\ \A i \in 1..Len(piece) : piece[i] = piece[1] + i - 1 /\ piece[i] <= count
      /\ more => piece # <<>> /\ piece[1] = Base + from + 1 /\ piece[Len(piece)] = Base + Len(msgs)
  <2>1. \A i \in 1..Len(msgs) : msgs[i] = Base + i
    BY DEF IInv, LogIsLatest
  <2>2. piece = SubSeq(msgs, from + 1, Len(msgs))
    BY DEF piece
  <2> HIDE DEF more
  <2>3. msgs \in Seq(Nat) /\ Base \in Nat /\ from \in Nat /\ from <= Len(msgs)
    BY <1>1, <1>2
  <2>4. IsRest(piece, Base, from, Len(msgs))
    BY <2>1, <2>2, <2>3, RestOfLog
  <2> QED
    BY <1>1, <2>4 DEF IsRest, more
<1>6. /\ sliceOf'[s] = piece /\ pc'[s] = (IF more THEN "send" ELSE "wait")
      /\ next'[s] = Len(msgs) /\ resetSeen'[s] = resetChan /\ pos'[s] = pos[s]
      /\ \A t \in Stream : t # s => /\ pc'[t] = pc[t] /\ sliceOf'[t] = sliceOf[t]
                                     /\ next'[t] = next[t] /\ resetSeen'[t] = resetSeen[t]
  BY <1>3 DEF IInv, TypeOK
<1>7. TypeOK'
  <2>1. pc' \in [Stream -> PC]
    BY <1>3 DEF IInv, TypeOK, PC
  <2>2. sliceOf' \in [Stream -> Seq(Nat)]
    BY <1>3, <1>5 DEF IInv, TypeOK
  <2>3. \A t \in Stream : pc'[t] = "send" => sliceOf'[t] # <<>>
    BY <1>5, <1>6 DEF IInv, TypeOK
  <2>4. /\ next' \in [Stream -> Nat] /\ addedSeen' \in [Stream -> 0..newAdded]
        /\ resetSeen' \in [Stream -> 0..resetChan]
    BY <1>1, <1>3 DEF IInv, TypeOK
  <2>5. panicked' \in BOOLEAN
    BY Zenon DEF Read
  <2> QED
    BY <1>3, <2>1, <2>2, <2>3, <2>4, <2>5 DEF IInv, TypeOK, logVars
<1>8. LogIsLatest' /\ Base' = Base
  BY <1>3 DEF IInv, LogIsLatest, Base, logVars
<1>9. ASSUME NEW t \in Stream, t # s PROVE StreamInv(t)'
  BY <1>3, <1>6, <1>9, StreamUnchanged DEF IInv
<1>10. StreamInv(s)'
  <2>0. count' = count /\ starts' = starts /\ msgs' = msgs /\ resetChan' = resetChan
    BY <1>3 DEF logVars
  <2>1. SliceIsPiece(s)'
    BY <1>5, <1>6, <2>0 DEF SliceIsPiece
  <2>2. SliceIsNext(s)'
    <3>1. more => /\ pos[s] < piece[1]
                  /\ piece[1] = pos[s] + 1 \/ piece[1] \in starts
      <4> SUFFICES ASSUME more
                   PROVE  pos[s] < piece[1] /\ (piece[1] = pos[s] + 1 \/ piece[1] \in starts)
        OBVIOUS
      <4>1. piece[1] = Base + from + 1
        BY <1>5
      <4>2. Base \in Nat /\ from \in Nat /\ pos[s] \in Nat /\ Base + 1 \in starts
        BY <1>1, <1>2
      <4>3. CASE pos[s] = Base + from
        BY <4>1, <4>2, <4>3
      <4>4. CASE from = 0 /\ pos[s] <= Base
        <5>1. piece[1] = Base + 1
          BY <4>1, <4>2, <4>4
        <5> QED
          BY <4>2, <4>4, <5>1
      <4> QED
        BY <1>2, <4>3, <4>4
    <3> QED
      BY <1>6, <2>0, <3>1 DEF SliceIsNext
  <2>3. Current(s)'
    <3>1. more => piece[Len(piece)] = Base + Len(msgs) /\ Len(msgs) > 0
      BY <1>1, <1>2, <1>5
    <3>2. ~more => pos[s] = Base + Len(msgs) \/ (Len(msgs) = 0 /\ pos[s] <= Base)
      BY <1>1, <1>2
    <3> HIDE DEF more
    <3> QED
      BY <1>1, <1>6, <1>8, <2>0, <3>1, <3>2 DEF Current
  <2>4. Stale(s)' /\ Unstarted(s)'
    BY <1>1, <1>6, <2>0 DEF Stale, Unstarted
  <2> QED
    BY <2>1, <2>2, <2>3, <2>4 DEF StreamInv
<1> QED
  BY <1>4, <1>7, <1>8, <1>9, <1>10 DEF IInv, ReadsWithinLog

\* What a goroutine sends is what its stream may deliver next.
LEMMA SendsNext ==
  ASSUME IInv, NEW s \in Stream, Send(s)
  PROVE  /\ Head(sliceOf[s]) \in Nat /\ Head(sliceOf[s]) <= count
         /\ pos[s] < Head(sliceOf[s])
         /\ Head(sliceOf[s]) = pos[s] + 1 \/ Head(sliceOf[s]) \in starts
<1>1. sliceOf[s] \in Seq(Nat) /\ sliceOf[s] # <<>> /\ count \in Nat
  BY DEF IInv, TypeOK, Send
<1>2. SliceIsPiece(s) /\ SliceIsNext(s) /\ pc[s] = "send"
  BY DEF IInv, StreamInv, Send
<1>3. Head(sliceOf[s]) = sliceOf[s][1] /\ sliceOf[s][1] \in Nat /\ sliceOf[s][1] <= count
  BY <1>1, <1>2, RestOfPiece DEF SliceIsPiece
<1> QED
  BY <1>2, <1>3 DEF SliceIsNext

\* Sending takes the first message of the piece; the rest follows it.
LEMMA SendKeepsIInv ==
  ASSUME IInv, NEW s \in Stream, Send(s)
  PROVE  IInv'
<1> DEFINE p == sliceOf[s]
           q == Tail(p)
           more == Len(p) > 1
<1>1. /\ p \in Seq(Nat) /\ p # <<>> /\ count \in Nat /\ pos[s] \in Nat
      /\ next[s] \in Nat /\ Base \in Nat /\ pc[s] = "send"
  BY DEF IInv, TypeOK, Send, LogIsLatest
<1>2. SliceIsPiece(s) /\ SliceIsNext(s) /\ Current(s) /\ Stale(s)
  BY DEF IInv, StreamInv
<1>3. /\ pos' = [pos EXCEPT ![s] = Head(p)]
      /\ sliceOf' = [sliceOf EXCEPT ![s] = q]
      /\ pc' = [pc EXCEPT ![s] = IF more THEN "send" ELSE "wait"]
      /\ UNCHANGED <<logVars, next, addedSeen, resetSeen, panicked, done>>
  BY DEF Send
<1>4. /\ q \in Seq(Nat)
      /\ Head(p) = p[1] /\ p[1] \in Nat /\ p[1] <= count
      /\ \A i \in 1..Len(q) : q[i] = q[1] + i - 1 /\ q[i] <= count
      /\ \A b : (\A i \in 1..Len(p) : p[i] <= b) => \A i \in 1..Len(q) : q[i] <= b
      /\ IF more THEN q # <<>> /\ q[1] = p[1] + 1 /\ q[Len(q)] = p[Len(p)]
                 ELSE p[1] = p[Len(p)]
  BY <1>1, <1>2, RestOfPiece DEF SliceIsPiece
<1> HIDE DEF q, more
<1>5. /\ sliceOf'[s] = q /\ pc'[s] = (IF more THEN "send" ELSE "wait")
      /\ pos'[s] = p[1] /\ next' = next /\ resetSeen' = resetSeen
      /\ \A t \in Stream : t # s => /\ pc'[t] = pc[t] /\ sliceOf'[t] = sliceOf[t]
                                     /\ pos'[t] = pos[t]
  BY <1>3, <1>4 DEF IInv, TypeOK
<1>6. TypeOK'
  <2>1. pc' \in [Stream -> PC]
    BY <1>3 DEF IInv, TypeOK, PC
  <2>2. sliceOf' \in [Stream -> Seq(Nat)]
    BY <1>3, <1>4 DEF IInv, TypeOK
  <2>3. \A t \in Stream : pc'[t] = "send" => sliceOf'[t] # <<>>
    BY <1>4, <1>5 DEF IInv, TypeOK
  <2>4. pos' \in [Stream -> 0..count]
    BY <1>1, <1>3, <1>4 DEF IInv, TypeOK
  <2> QED
    BY <1>3, <2>1, <2>2, <2>3, <2>4 DEF IInv, TypeOK, logVars
<1>7. LogIsLatest' /\ Base' = Base
  BY <1>3 DEF IInv, LogIsLatest, Base, logVars
<1>8. ASSUME NEW t \in Stream, t # s PROVE StreamInv(t)'
  BY <1>3, <1>5, <1>8, StreamUnchanged DEF IInv
<1>9. StreamInv(s)'
  <2>0. count' = count /\ starts' = starts /\ msgs' = msgs /\ resetChan' = resetChan
    BY <1>3 DEF logVars
  <2>1. SliceIsPiece(s)'
    BY <1>4, <1>5, <2>0 DEF SliceIsPiece
  <2>2. SliceIsNext(s)'
    <3>1. more => p[1] < q[1] /\ q[1] = p[1] + 1
      BY <1>4
    <3> QED
      BY <1>5, <2>0, <3>1 DEF SliceIsNext
  <2>3. Current(s)'
    <3>1. resetSeen[s] = resetChan =>
            next[s] <= Len(msgs) /\ p[Len(p)] = Base + next[s] /\ next[s] > 0
      BY <1>1, <1>2 DEF Current
    <3> HIDE DEF p
    <3> QED
      BY <1>4, <1>5, <1>7, <2>0, <3>1 DEF Current
  <2>4. Stale(s)'
    <3>1. resetSeen[s] < resetChan => \A i \in 1..Len(p) : p[i] <= Base
      BY <1>2 DEF Stale
    <3>2. resetSeen[s] < resetChan => p[1] <= Base
      <4>1. 1 \in 1..Len(p)
        BY <1>1
      <4> QED
        BY <3>1, <4>1
    <3> HIDE DEF p
    <3> QED
      BY <1>4, <1>5, <1>7, <2>0, <3>1, <3>2 DEF Stale
  <2>5. Unstarted(s)'
    BY <1>5 DEF Unstarted
  <2> QED
    BY <2>1, <2>2, <2>3, <2>4, <2>5 DEF StreamInv
<1> QED
  BY <1>3, <1>6, <1>7, <1>8, <1>9 DEF IInv, ReadsWithinLog

\* The other steps of a goroutine change what it knows, not what it has read.
LEMMA OtherStepsKeepIInv ==
  ASSUME IInv, NEW s \in Stream, Start(s) \/ SeeReset(s) \/ SeeAdded(s) \/ Close(s)
  PROVE  IInv'
<1>1. /\ UNCHANGED <<logVars, sliceOf, next, addedSeen, pos, panicked, done>>
      /\ \A t \in Stream : t # s => pc'[t] = pc[t] /\ resetSeen'[t] = resetSeen[t]
  BY DEF IInv, TypeOK, Start, SeeReset, SeeAdded, Close
<1>2. TypeOK'
  <2>1. pc' \in [Stream -> PC] /\ \A t \in Stream : pc'[t] = "send" => pc[t] = "send"
    BY DEF IInv, TypeOK, PC, Start, SeeReset, SeeAdded, Close
  <2>2. resetSeen' \in [Stream -> 0..resetChan]
    <3>1. resetSeen' = resetSeen \/ resetSeen' = [resetSeen EXCEPT ![s] = resetChan]
      BY DEF Start, SeeReset, SeeAdded, Close
    <3>2. resetChan \in 0..resetChan /\ resetSeen \in [Stream -> 0..resetChan]
      BY DEF IInv, TypeOK
    <3> QED
      BY <3>1, <3>2
  <2> QED
    BY <1>1, <2>1, <2>2 DEF IInv, TypeOK, logVars
<1>3. LogIsLatest' /\ Base' = Base /\ Base \in Nat
  BY <1>1 DEF IInv, LogIsLatest, Base, logVars
<1>4. ASSUME NEW t \in Stream, t # s PROVE StreamInv(t)'
  BY <1>1, <1>4, StreamUnchanged DEF IInv
<1>5. StreamInv(s)'
  <2>0. /\ count' = count /\ starts' = starts /\ msgs' = msgs /\ resetChan' = resetChan
        /\ sliceOf' = sliceOf /\ next' = next /\ pos' = pos
        /\ resetChan \in Nat /\ resetSeen[s] \in Nat /\ Len(msgs) \in Nat
    BY <1>1 DEF logVars, IInv, TypeOK
  <2>1. SliceIsPiece(s)'
    BY <2>0 DEF IInv, StreamInv, SliceIsPiece
  <2>2. CASE Start(s)
    <3>1. /\ pos[s] = 0 /\ next[s] = 0 /\ pc'[s] = "read" /\ resetSeen'[s] = resetChan
      BY <2>2 DEF Start, IInv, TypeOK, StreamInv, Unstarted
    <3>2. Current(s)'
      BY <1>3, <2>0, <3>1 DEF Current
    <3>3. SliceIsNext(s)' /\ Unstarted(s)'
      BY <3>1, Zenon DEF SliceIsNext, Unstarted
    <3>4. Stale(s)'
      <4>1. ~(resetSeen'[s] < resetChan')
        BY <2>0, <3>1
      <4> QED
        BY <4>1, Zenon DEF Stale
    <3> QED
      BY <2>1, <3>2, <3>3, <3>4, Zenon DEF StreamInv
  <2>3. CASE SeeReset(s)
    <3>1. pc'[s] = "read" /\ resetSeen' = resetSeen /\ resetSeen[s] < resetChan
      BY <2>3 DEF SeeReset, IInv, TypeOK
    <3>2. SliceIsNext(s)' /\ Current(s)' /\ Unstarted(s)'
      BY <2>0, <3>1 DEF SliceIsNext, Current, Unstarted
    <3>3. Stale(s)'
      <4>1. Stale(s)
        BY DEF IInv, StreamInv
      <4> QED
        BY <1>3, <2>0, <3>1, <4>1 DEF Stale
    <3> QED
      BY <2>1, <3>2, <3>3, Zenon DEF StreamInv
  <2>4. CASE SeeAdded(s)
    <3>1. pc'[s] = "read" /\ resetSeen' = resetSeen /\ pc[s] = "wait"
      BY <2>4 DEF SeeAdded, IInv, TypeOK
    <3> QED
      BY <1>3, <2>0, <2>1, <3>1 DEF IInv, StreamInv, SliceIsNext, Current, Stale, Unstarted
  <2>5. CASE Close(s)
    <3>1. pc'[s] = "closed" /\ resetSeen' = resetSeen
      BY <2>5 DEF Close, IInv, TypeOK
    <3> QED
      BY <1>3, <2>0, <2>1, <3>1 DEF IInv, StreamInv, SliceIsNext, Current, Stale, Unstarted
  <2> QED
    BY <2>2, <2>3, <2>4, <2>5
<1> QED
  BY <1>1, <1>2, <1>3, <1>4, <1>5 DEF IInv, ReadsWithinLog

\* Cancelling a stream, or doing nothing, changes nothing the invariant is about.
LEMMA CancelKeepsIInv ==
  ASSUME IInv, (\E s \in Stream : Cancel(s)) \/ UNCHANGED vars
  PROVE  IInv'
<1>1. UNCHANGED <<logVars, streamVars>> /\ done' \subseteq Stream
  BY DEF Cancel, vars, IInv, TypeOK
<1>2. TypeOK' /\ ReadsWithinLog' /\ LogIsLatest'
  BY <1>1 DEF IInv, TypeOK, ReadsWithinLog, LogIsLatest, Base, logVars, streamVars
<1>3. ASSUME NEW s \in Stream PROVE StreamInv(s)'
  BY <1>1, StreamUnchanged DEF IInv, streamVars
<1> QED
  BY <1>2, <1>3 DEF IInv

\* IInv is inductive.
THEOREM Inductive == Spec => []IInv
<1>1. IInv /\ [Next]_vars => IInv'
  <2>1. 0..MaxMessages \subseteq Nat
    BY BoundAssumption
  <2> QED
    BY <2>1, AppendKeepsIInv, ResetKeepsIInv, ReadKeepsIInv, SendKeepsIInv, OtherStepsKeepIInv,
       CancelKeepsIInv DEF Next, supplyMessages
<1> QED
  BY InitIInv, <1>1, PTL DEF Spec

-----------------------------------------------------------------------------
\* The log, its streams and their goroutines keep their types.
THEOREM TypeCorrect == Spec => []TypeOK
<1>1. IInv => TypeOK
  BY DEF IInv
<1> QED
  BY Inductive, <1>1, PTL

\* No goroutine slices the log beyond its end (supplyMessages), whenever resets
\* happen.
THEOREM NeverBeyondLog == Spec => []ReadsWithinLog
<1>1. IInv => ReadsWithinLog
  BY DEF IInv
<1> QED
  BY Inductive, <1>1, PTL

\* The log and its goroutines implement the promise of module LogStream: each
\* stream delivers messages in order and leaves out only what a reset removed.
THEOREM ImplementsLogStream == Spec => StreamsInOrder
<1>1. Init => Promised!Init
  BY DEF Init, Promised!Init
<1>2. IInv /\ [Next]_vars => [Promised!Next]_(Promised!vars)
  <2> SUFFICES ASSUME IInv, [Next]_vars
               PROVE  Promised!Next \/ UNCHANGED Promised!vars
    OBVIOUS
  <2>1. CASE AppendMessage
    BY <2>1 DEF AppendMessage, streamVars, Promised!Next, Promised!Append
  <2>2. ASSUME NEW k \in 0..MaxMessages, Reset(k) PROVE Promised!Next
    <3>1. count' \in Nat /\ count' >= count
      BY <2>2, BoundAssumption DEF Reset, IInv, TypeOK
    <3> QED
      BY <2>2, <3>1 DEF Reset, streamVars, Promised!Next, Promised!Reset
  <2>3. ASSUME NEW s \in Stream, Cancel(s) PROVE Promised!Next
    BY <2>3 DEF Cancel, logVars, streamVars, Promised!Next, Promised!Cancel
  <2>4. ASSUME NEW s \in Stream, Send(s) PROVE Promised!Next
    <3>1. Head(sliceOf[s]) \in Promised!NextDelivered(pos[s], starts, count)
      BY <2>4, SendsNext DEF Promised!NextDelivered
    <3>2. pos' = [pos EXCEPT ![s] = Head(sliceOf[s])] /\ UNCHANGED <<count, starts, done>>
      BY <2>4 DEF Send, logVars
    <3> QED
      BY <3>1, <3>2 DEF Promised!Next, Promised!Deliver
  <2>5. ASSUME NEW s \in Stream,
               Start(s) \/ Read(s) \/ SeeReset(s) \/ SeeAdded(s) \/ Close(s)
        PROVE  UNCHANGED Promised!vars
    BY <2>5 DEF Start, Read, SeeReset, SeeAdded, Close, logVars, Promised!vars
  <2>6. CASE UNCHANGED vars
    BY <2>6 DEF vars, logVars, streamVars, Promised!vars
  <2> QED
    BY <2>1, <2>2, <2>3, <2>4, <2>5, <2>6 DEF Next, supplyMessages
<1> QED
  BY Inductive, <1>1, <1>2, PTL DEF Spec, StreamsInOrder, Promised!Spec

=============================================================================
