------------------------- MODULE HandlerLocksProofs -------------------------
(***************************************************************************)
(* Proofs about HandlerLocks, for any number of handlers, clients, senders *)
(* and views.                                                              *)
(***************************************************************************)
EXTENDS HandlerLocks, TLAPS

Kind == {"none", "request", "prepare", "commit", "newview", "reqviewchange",
         "viewchange", "timeout"}

\* What is left of the stages of a handler.
Left(kind) ==
  {<<>>, <<"append">>, <<"assign", "append">>} \cup
  CASE kind = "request" ->
         {<<"hold", "capture", "apply">>, <<"capture", "apply">>, <<"apply">>}
    [] kind \in {"prepare", "commit"} ->
         {<<"sender", "hold", "apply">>, <<"hold", "apply">>, <<"apply">>}
    [] kind = "newview" ->
         {<<"sender", "want", "advance", "apply">>, <<"want", "advance", "apply">>,
          <<"advance", "apply">>, <<"apply">>}
    [] kind = "reqviewchange" ->
         {<<"sender", "rvc", "want", "advance", "take", "reset">>,
          <<"rvc", "want", "advance", "take", "reset">>,
          <<"want", "advance", "take", "reset">>,
          <<"advance", "take", "reset">>, <<"take", "reset">>, <<"reset">>}
    [] kind = "viewchange" ->
         {<<"sender", "vc", "hold", "reset">>, <<"vc", "hold", "reset">>,
          <<"hold", "reset">>, <<"reset">>}
    [] kind = "timeout" ->
         {<<"requested", "hold", "sign">>, <<"hold", "sign">>, <<"sign">>}
    [] OTHER -> {}

\* Stages in which a handler has the view.
WithView == {"capture", "apply", "take", "reset", "assign", "append", "sign"}

OpType == [kind : Kind, view : Nat, from : Sender \cup Client, ui : Nat]

Types ==
  /\ op \in [Handler -> OpType]
  /\ todo \in [Handler -> UNION {Left(kind) : kind \in Kind}]
  /\ out \in [Handler -> CertifiedMessage \cup {Message("none", 0)} \cup [ui : Nat]]
  /\ mutex \in [Mutex -> Handler \cup {Nobody}]
  /\ currentView \in Nat /\ expectedView \in Nat
  /\ lastUI \in [Sender -> Nat]
  /\ sent \in Seq(CertifiedMessage)
  /\ processed \in [Sender -> Seq(Nat)]

\* The stage that a handler is at.
Stage(h) == IF todo[h] = <<>> THEN "end" ELSE Head(todo[h])

\* A handler that applies a message, takes or resets the log, or generates a
\* message has the view, and does so for the expected view.
ViewInv(h) ==
  /\ todo[h] \in Left(op[h].kind)
  /\ Stage(h) \in WithView => h \in readers \/ writer = h
  /\ Stage(h) \in {"apply", "take", "reset"} /\ op[h].kind # "request"
       => op[h].view = expectedView
  /\ Stage(h) = "assign" => out[h] \in CertifiedMessage /\ out[h].view = expectedView

\* A handler of a certified message that is past the lock of its sender has
\* this lock and the sender's next message.
SenderInv(h) ==
  op[h].ui # 0 =>
    /\ op[h].from \in Sender /\ op[h].ui <= lastUI[op[h].from] + 1
    /\ Stage(h) # "sender" => /\ mutex[<<"sender", op[h].from>>] = h
                              /\ op[h].ui = lastUI[op[h].from] + 1

ProcessedInv(p) ==
  Len(processed[p]) = lastUI[p] /\ \A i \in 1..Len(processed[p]) : processed[p][i] = i

\* The views that the replica has announced to leave for.
SentInv ==
  \A i \in 1..Len(sent) : sent[i].kind = "viewchange" => sent[i].view <= expectedView

IInv ==
  /\ Types
  /\ \A h \in Handler : ViewInv(h) /\ SenderInv(h)
  /\ \A p \in Sender : ProcessedInv(p)
  /\ SentInv
  /\ SilentAfterViewChange

-----------------------------------------------------------------------------

\* What is known of the stage that follows a stage.
Follows(kind, stage, next) ==
  /\ next # "sender"
  /\ stage \in {"sender", "rvc", "vc", "requested", "want"} => next \notin WithView
  /\ stage = "hold" =>
       /\ next # "assign"
       /\ next \in {"apply", "take", "reset"} => kind \in {"prepare", "commit", "viewchange"}
  /\ stage = "capture" => next = "apply" /\ kind = "request"
  /\ stage = "advance" => next # "assign" /\ kind \in {"newview", "reqviewchange"}
  /\ stage = "take" => next = "reset" /\ kind # "request"
  /\ stage = "reset" => kind \in {"viewchange", "reqviewchange"}
  /\ stage = "assign" => next = "append"
  /\ stage \in {"append", "sign"} => next = "end"

\* The stages that are left stay those of the kind of message (Stages).
LEMMA NextStage ==
  ASSUME NEW kind, NEW l \in Left(kind), l # <<>>,
         NEW next, next = IF Tail(l) = <<>> THEN "end" ELSE Head(Tail(l))
  PROVE  Tail(l) \in Left(kind) /\ Follows(kind, Head(l), next)
<1>1. CASE l = <<"append">>
  <2>1. Tail(l) = <<>> /\ Head(l) = "append" /\ next = "end"
    BY <1>1
  <2> QED
    BY <1>1, <2>1, Zenon DEF Left, Follows, WithView
<1>2. CASE l = <<"assign", "append">>
  <2>1. Tail(l) = <<"append">> /\ Head(l) = "assign" /\ next = "append"
    BY <1>2
  <2> QED
    BY <1>2, <2>1, Zenon DEF Left, Follows, WithView
<1>3. CASE kind = "request" /\ l = <<"hold", "capture", "apply">>
  <2>1. Tail(l) = <<"capture", "apply">> /\ Head(l) = "hold" /\ next = "capture"
    BY <1>3
  <2> QED
    BY <1>3, <2>1, Zenon DEF Left, Follows, WithView
<1>4. CASE kind = "request" /\ l = <<"capture", "apply">>
  <2>1. Tail(l) = <<"apply">> /\ Head(l) = "capture" /\ next = "apply"
    BY <1>4
  <2> QED
    BY <1>4, <2>1, Zenon DEF Left, Follows, WithView
<1>5. CASE kind = "request" /\ l = <<"apply">>
  <2>1. Tail(l) = <<>> /\ Head(l) = "apply" /\ next = "end"
    BY <1>5
  <2> QED
    BY <1>5, <2>1, Zenon DEF Left, Follows, WithView
<1>6. CASE kind \in {"prepare", "commit"} /\ l = <<"sender", "hold", "apply">>
  <2>1. Tail(l) = <<"hold", "apply">> /\ Head(l) = "sender" /\ next = "hold"
    BY <1>6
  <2> QED
    BY <1>6, <2>1, Zenon DEF Left, Follows, WithView
<1>7. CASE kind \in {"prepare", "commit"} /\ l = <<"hold", "apply">>
  <2>1. Tail(l) = <<"apply">> /\ Head(l) = "hold" /\ next = "apply"
    BY <1>7
  <2> QED
    BY <1>7, <2>1, Zenon DEF Left, Follows, WithView
<1>8. CASE kind \in {"prepare", "commit"} /\ l = <<"apply">>
  <2>1. Tail(l) = <<>> /\ Head(l) = "apply" /\ next = "end"
    BY <1>8
  <2> QED
    BY <1>8, <2>1, Zenon DEF Left, Follows, WithView
<1>9. CASE kind = "newview" /\ l = <<"sender", "want", "advance", "apply">>
  <2>1. Tail(l) = <<"want", "advance", "apply">> /\ Head(l) = "sender" /\ next = "want"
    BY <1>9
  <2> QED
    BY <1>9, <2>1, Zenon DEF Left, Follows, WithView
<1>10. CASE kind = "newview" /\ l = <<"want", "advance", "apply">>
  <2>1. Tail(l) = <<"advance", "apply">> /\ Head(l) = "want" /\ next = "advance"
    BY <1>10
  <2> QED
    BY <1>10, <2>1, Zenon DEF Left, Follows, WithView
<1>11. CASE kind = "newview" /\ l = <<"advance", "apply">>
  <2>1. Tail(l) = <<"apply">> /\ Head(l) = "advance" /\ next = "apply"
    BY <1>11
  <2> QED
    BY <1>11, <2>1, Zenon DEF Left, Follows, WithView
<1>12. CASE kind = "newview" /\ l = <<"apply">>
  <2>1. Tail(l) = <<>> /\ Head(l) = "apply" /\ next = "end"
    BY <1>12
  <2> QED
    BY <1>12, <2>1, Zenon DEF Left, Follows, WithView
<1>13. CASE kind = "reqviewchange" /\ l = <<"sender", "rvc", "want", "advance", "take", "reset">>
  <2>1. /\ Tail(l) = <<"rvc", "want", "advance", "take", "reset">>
        /\ Head(l) = "sender" /\ next = "rvc"
    BY <1>13
  <2> QED
    BY <1>13, <2>1, Zenon DEF Left, Follows, WithView
<1>14. CASE kind = "reqviewchange" /\ l = <<"rvc", "want", "advance", "take", "reset">>
  <2>1. Tail(l) = <<"want", "advance", "take", "reset">> /\ Head(l) = "rvc" /\ next = "want"
    BY <1>14
  <2> QED
    BY <1>14, <2>1, Zenon DEF Left, Follows, WithView
<1>15. CASE kind = "reqviewchange" /\ l = <<"want", "advance", "take", "reset">>
  <2>1. Tail(l) = <<"advance", "take", "reset">> /\ Head(l) = "want" /\ next = "advance"
    BY <1>15
  <2> QED
    BY <1>15, <2>1, Zenon DEF Left, Follows, WithView
<1>16. CASE kind = "reqviewchange" /\ l = <<"advance", "take", "reset">>
  <2>1. Tail(l) = <<"take", "reset">> /\ Head(l) = "advance" /\ next = "take"
    BY <1>16
  <2> QED
    BY <1>16, <2>1, Zenon DEF Left, Follows, WithView
<1>17. CASE kind = "reqviewchange" /\ l = <<"take", "reset">>
  <2>1. Tail(l) = <<"reset">> /\ Head(l) = "take" /\ next = "reset"
    BY <1>17
  <2> QED
    BY <1>17, <2>1, Zenon DEF Left, Follows, WithView
<1>18. CASE kind = "reqviewchange" /\ l = <<"reset">>
  <2>1. Tail(l) = <<>> /\ Head(l) = "reset" /\ next = "end"
    BY <1>18
  <2> QED
    BY <1>18, <2>1, Zenon DEF Left, Follows, WithView
<1>19. CASE kind = "viewchange" /\ l = <<"sender", "vc", "hold", "reset">>
  <2>1. Tail(l) = <<"vc", "hold", "reset">> /\ Head(l) = "sender" /\ next = "vc"
    BY <1>19
  <2> QED
    BY <1>19, <2>1, Zenon DEF Left, Follows, WithView
<1>20. CASE kind = "viewchange" /\ l = <<"vc", "hold", "reset">>
  <2>1. Tail(l) = <<"hold", "reset">> /\ Head(l) = "vc" /\ next = "hold"
    BY <1>20
  <2> QED
    BY <1>20, <2>1, Zenon DEF Left, Follows, WithView
<1>21. CASE kind = "viewchange" /\ l = <<"hold", "reset">>
  <2>1. Tail(l) = <<"reset">> /\ Head(l) = "hold" /\ next = "reset"
    BY <1>21
  <2> QED
    BY <1>21, <2>1, Zenon DEF Left, Follows, WithView
<1>22. CASE kind = "viewchange" /\ l = <<"reset">>
  <2>1. Tail(l) = <<>> /\ Head(l) = "reset" /\ next = "end"
    BY <1>22
  <2> QED
    BY <1>22, <2>1, Zenon DEF Left, Follows, WithView
<1>23. CASE kind = "timeout" /\ l = <<"requested", "hold", "sign">>
  <2>1. Tail(l) = <<"hold", "sign">> /\ Head(l) = "requested" /\ next = "hold"
    BY <1>23
  <2> QED
    BY <1>23, <2>1, Zenon DEF Left, Follows, WithView
<1>24. CASE kind = "timeout" /\ l = <<"hold", "sign">>
  <2>1. Tail(l) = <<"sign">> /\ Head(l) = "hold" /\ next = "sign"
    BY <1>24
  <2> QED
    BY <1>24, <2>1, Zenon DEF Left, Follows, WithView
<1>25. CASE kind = "timeout" /\ l = <<"sign">>
  <2>1. Tail(l) = <<>> /\ Head(l) = "sign" /\ next = "end"
    BY <1>25
  <2> QED
    BY <1>25, <2>1, Zenon DEF Left, Follows, WithView
<1> QED
  BY <1>1, <1>2, <1>3, <1>4, <1>5, <1>6, <1>7, <1>8, <1>9, <1>10, <1>11, <1>12, <1>13,
     <1>14, <1>15, <1>16, <1>17, <1>18, <1>19, <1>20, <1>21, <1>22, <1>23, <1>24, <1>25, Zenon DEF Left

-----------------------------------------------------------------------------
\* A step of handler h leaves the others what they are doing and what they have.
Others(h) ==
  \A g \in Handler \ {h} :
    /\ op'[g] = op[g] /\ todo'[g] = todo[g] /\ out'[g] = out[g]
    /\ g \in readers => g \in readers'
    /\ writer = g => writer' = g
    /\ \A p \in Sender : mutex[<<"sender", p>>] = g => mutex'[<<"sender", p>>] = g

\* The last UI changes only for the sender whose lock h has.
LastUIKept(h) ==
  \A p \in Sender : /\ lastUI'[p] \in Nat /\ lastUI'[p] >= lastUI[p]
                    /\ lastUI'[p] = lastUI[p] \/ mutex[<<"sender", p>>] = h

\* The expected view changes only while nobody has the view.
ViewKept == expectedView' = expectedView \/ (readers = {} /\ writer = Nobody)

\* The expected view never gets smaller: here it stays.
LEMMA SameView ==
  ASSUME IInv, expectedView' = expectedView
  PROVE  expectedView' >= expectedView
  BY DEF IInv, Types

\* The invariant of the other handlers.
LEMMA OthersKept ==
  ASSUME IInv, NEW h \in Handler, Others(h), ViewKept, LastUIKept(h),
         NEW g \in Handler, g # h
  PROVE  ViewInv(g)' /\ SenderInv(g)'
<1>1. /\ op'[g] = op[g] /\ todo'[g] = todo[g] /\ out'[g] = out[g]
      /\ g \in readers => g \in readers'
      /\ writer = g => writer' = g
      /\ \A p \in Sender : mutex[<<"sender", p>>] = g => mutex'[<<"sender", p>>] = g
  BY DEF Others
<1>2. Stage(g)' = Stage(g)
  BY <1>1 DEF Stage
<1>3. ViewInv(g) /\ SenderInv(g)
  BY DEF IInv
<1>4. ViewInv(g)'
  <2>1. CASE expectedView' = expectedView
    BY <1>1, <1>2, <1>3, <2>1 DEF ViewInv
  <2>2. CASE readers = {} /\ writer = Nobody
    <3>1. Stage(g) \notin WithView
      BY <1>3, <2>2, HandlerAssumption DEF ViewInv
    <3> QED
      BY <1>1, <1>2, <1>3, <3>1 DEF ViewInv, WithView
  <2> QED
    BY <2>1, <2>2 DEF ViewKept
<1>5. SenderInv(g)'
  <2>1. op[g].ui \in Nat /\ lastUI \in [Sender -> Nat]
    BY DEF IInv, Types, OpType
  <2> QED
    BY <1>1, <1>2, <1>3, <2>1 DEF SenderInv, LastUIKept
<1> QED
  BY <1>4, <1>5

\* The invariant after a step of h that neither generates nor completes anything.
LEMMA StepKeepsIInv ==
  ASSUME IInv, NEW h \in Handler, Others(h), ViewKept, expectedView' >= expectedView,
         UNCHANGED <<lastUI, processed, sent>>, Types', ViewInv(h)', SenderInv(h)'
  PROVE  IInv'
<1>1. \A g \in Handler : ViewInv(g)' /\ SenderInv(g)'
  <2>1. LastUIKept(h)
    BY DEF LastUIKept, IInv, Types
  <2> QED
    BY <2>1, OthersKept
<1>2. \A p \in Sender : ProcessedInv(p)'
  BY DEF IInv, ProcessedInv
<1>3. SentInv' /\ SilentAfterViewChange'
  <2>1. expectedView \in Nat /\ expectedView' \in Nat /\ sent \in Seq(CertifiedMessage)
    BY DEF IInv, Types
  <2>2. ASSUME NEW i \in 1..Len(sent) PROVE sent[i].view \in Nat
    <3>1. sent[i] \in CertifiedMessage
      BY <2>1
    <3> QED
      BY <3>1 DEF CertifiedMessage
  <2> QED
    BY <2>1, <2>2 DEF IInv, SentInv, SilentAfterViewChange
<1> QED
  BY <1>1, <1>2, <1>3 DEF IInv

\* What a handler is at after a stage.
LEMMA GoesOn ==
  ASSUME IInv, NEW h \in Handler, NEW on \in BOOLEAN, NEW stage, At(h, stage), Goes(h, on)
  PROVE  /\ Stage(h) = stage
         /\ todo' \in [Handler -> UNION {Left(kind) : kind \in Kind}]
         /\ todo'[h] \in Left(op[h].kind)
         /\ \A g \in Handler \ {h} : todo'[g] = todo[g]
         /\ \/ Stage(h)' = "end"
            \/ on /\ Follows(op[h].kind, stage, Stage(h)')
         /\ Stage(h)' # "sender"
<1>1. /\ op[h].kind \in Kind /\ todo[h] \in Left(op[h].kind) /\ todo[h] # <<>>
      /\ stage = Head(todo[h]) /\ todo \in [Handler -> UNION {Left(kind) : kind \in Kind}]
  BY DEF IInv, Types, ViewInv, At, OpType
<1>2. /\ todo'[h] = IF on THEN Tail(todo[h]) ELSE <<>>
      /\ \A g \in Handler \ {h} : todo'[g] = todo[g]
      /\ todo' = [todo EXCEPT ![h] = IF on THEN Tail(todo[h]) ELSE <<>>]
  BY <1>1 DEF Goes
<1>3. /\ Tail(todo[h]) \in Left(op[h].kind) /\ <<>> \in Left(op[h].kind)
      /\ Follows(op[h].kind, stage, IF Tail(todo[h]) = <<>> THEN "end" ELSE Head(Tail(todo[h])))
  <2>1. <<>> \in Left(op[h].kind)
    BY Zenon DEF Left
  <2> DEFINE l == todo[h]
  <2>2. l \in Left(op[h].kind) /\ l # <<>> /\ stage = Head(l)
    BY <1>1
  <2> HIDE DEF l
  <2>3. /\ Tail(l) \in Left(op[h].kind)
        /\ Follows(op[h].kind, Head(l), IF Tail(l) = <<>> THEN "end" ELSE Head(Tail(l)))
    BY <2>2, NextStage, Zenon
  <2> QED
    BY <2>1, <2>2, <2>3, Zenon DEF l
<1>4. todo'[h] \in Left(op[h].kind)
  BY <1>2, <1>3
<1>5. todo' \in [Handler -> UNION {Left(kind) : kind \in Kind}]
  <2>1. todo'[h] \in UNION {Left(kind) : kind \in Kind}
    BY <1>1, <1>4
  <2> QED
    BY <1>1, <1>2, <2>1
<1>6. \/ Stage(h)' = "end"
      \/ on /\ Follows(op[h].kind, stage, Stage(h)')
  BY <1>2, <1>3 DEF Stage
<1>7. Stage(h)' # "sender"
  BY <1>6, Zenon DEF Follows
<1> QED
  BY <1>1, <1>2, <1>4, <1>5, <1>6, <1>7 DEF Stage

\* Locking a free mutex takes none from anybody.
LEMMA Locking ==
  ASSUME IInv, NEW h \in Handler, NEW x \in Mutex, mutex[x] = Nobody,
         mutex' = [mutex EXCEPT ![x] = h]
  PROVE  /\ mutex' \in [Mutex -> Handler \cup {Nobody}] /\ mutex'[x] = h
         /\ \A g \in Handler : \A m \in Mutex : mutex[m] = g => mutex'[m] = g
  BY HandlerAssumption DEF IInv, Types

\* A step of h that takes or keeps locks and generates nothing.
LEMMA GoingKeepsIInv ==
  ASSUME IInv, NEW h \in Handler, NEW on \in BOOLEAN, NEW stage, stage # "sender",
         At(h, stage), Goes(h, on),
         UNCHANGED <<op, out, expectedView, currentView, lastUI, processed, sent>>,
         \A g \in Handler : (g \in readers => g \in readers') /\ (writer = g => writer' = g),
         mutex' \in [Mutex -> Handler \cup {Nobody}],
         \A g \in Handler : \A m \in Mutex : mutex[m] = g => mutex'[m] = g,
         on /\ Follows(op[h].kind, stage, Stage(h)') =>
           /\ Stage(h)' \in WithView => h \in readers' \/ writer' = h
           /\ Stage(h)' \in {"apply", "take", "reset"} /\ op[h].kind # "request"
                => op[h].view = expectedView
           /\ Stage(h)' # "assign"
  PROVE  IInv'
<1>1. /\ Stage(h) = stage /\ Stage(h)' # "sender"
      /\ todo' \in [Handler -> UNION {Left(kind) : kind \in Kind}]
      /\ todo'[h] \in Left(op[h].kind)
      /\ \A g \in Handler \ {h} : todo'[g] = todo[g]
      /\ Stage(h)' = "end" \/ (on /\ Follows(op[h].kind, stage, Stage(h)'))
  BY GoesOn
<1>2. Others(h) /\ ViewKept
  <2>1. \A p \in Sender : <<"sender", p>> \in Mutex
    BY DEF Mutex
  <2> QED
    BY <1>1, <2>1 DEF Others, ViewKept
<1>3. Types'
  BY <1>1 DEF IInv, Types
<1>4. ViewInv(h)'
  <2>1. CASE Stage(h)' = "end"
    BY <1>1, <2>1 DEF ViewInv, WithView
  <2>2. CASE on /\ Follows(op[h].kind, stage, Stage(h)')
    BY <1>1, <2>2 DEF ViewInv
  <2> QED
    BY <1>1, <2>1, <2>2
<1>5. SenderInv(h)'
  <2>1. op[h].from \in Sender => <<"sender", op[h].from>> \in Mutex
    BY DEF Mutex
  <2> QED
    BY <1>1, <2>1 DEF IInv, SenderInv
<1> QED
  BY <1>2, <1>3, <1>4, <1>5, SameView, StepKeepsIInv, Zenon

\* A handler that goes on without the view.
LEMMA OutsideKeepsIInv ==
  ASSUME IInv, NEW h \in Handler,
         LockReqViewChange(h) \/ LockViewChange(h) \/ LockRequested(h) \/ WantView(h)
  PROVE  IInv'
<1>1. PICK stage \in {"rvc", "vc", "requested", "want"} :
        At(h, stage) /\ (Goes(h, TRUE) \/ Goes(h, FALSE))
  <2>1. CASE LockReqViewChange(h)
    BY <2>1 DEF LockReqViewChange, Goes
  <2>2. CASE LockViewChange(h)
    <3>1. PICK on : Goes(h, on) /\ At(h, "vc")
      BY <2>2, Zenon DEF LockViewChange
    <3> QED
      BY <3>1 DEF Goes
  <2>3. CASE LockRequested(h)
    BY <2>3 DEF LockRequested, Goes
  <2>4. CASE WantView(h)
    BY <2>4 DEF WantView
  <2> QED
    BY <2>1, <2>2, <2>3, <2>4
<1>2. /\ UNCHANGED <<op, out, readers, writer, expectedView, currentView, lastUI, processed, sent>>
      /\ \/ UNCHANGED mutex
         \/ \E x \in {"rvc", "vc", "requested"} :
              mutex[<<x, Self>>] = Nobody /\ mutex' = [mutex EXCEPT ![<<x, Self>>] = h]
  <2>1. CASE LockReqViewChange(h)
    BY <2>1 DEF LockReqViewChange, Free, viewVars, logVars
  <2>2. CASE LockViewChange(h)
    BY <2>2, Zenon DEF LockViewChange, Free, viewVars, logVars
  <2>3. CASE LockRequested(h)
    BY <2>3 DEF LockRequested, Free, viewVars, logVars
  <2>4. CASE WantView(h)
    BY <2>4 DEF WantView, viewVars, dataVars, logVars
  <2> QED
    BY <2>1, <2>2, <2>3, <2>4
<1>3. /\ mutex' \in [Mutex -> Handler \cup {Nobody}]
      /\ \A g \in Handler : \A m \in Mutex : mutex[m] = g => mutex'[m] = g
  <2>1. CASE UNCHANGED mutex
    BY <2>1 DEF IInv, Types
  <2>2. ASSUME NEW x \in {"rvc", "vc", "requested"}, mutex[<<x, Self>>] = Nobody,
               mutex' = [mutex EXCEPT ![<<x, Self>>] = h]
        PROVE  /\ mutex' \in [Mutex -> Handler \cup {Nobody}]
               /\ \A g \in Handler : \A m \in Mutex : mutex[m] = g => mutex'[m] = g
    <3>1. <<x, Self>> \in Mutex
      BY DEF Mutex
    <3> QED
      BY <2>2, <3>1, Locking
  <2> QED
    BY <1>2, <2>1, <2>2
<1>4. Follows(op[h].kind, stage, Stage(h)')
        => Stage(h)' \notin WithView /\ Stage(h)' \notin {"apply", "take", "reset", "assign"}
  BY <1>1 DEF Follows, WithView
<1> QED
  BY <1>1, <1>2, <1>3, <1>4, GoingKeepsIInv

\* A handler that gets the view: messages for another view than the expected
\* one are not applied, and the UI of one for a later view is forgotten.
LEMMA HoldKeepsIInv ==
  ASSUME IInv, NEW h \in Handler, HoldView(h)
  PROVE  IInv'
<1>1. /\ At(h, "hold") /\ readers' = readers \cup {h}
      /\ UNCHANGED <<out, mutex, writer, expectedView, currentView, lastUI, processed, sent>>
      /\ Goes(h, Wanted(op[h]))
      /\ op' = [op EXCEPT ![h].ui = IF Early(op[h]) THEN 0 ELSE op[h].ui]
  BY DEF HoldView, viewVars, dataVars, logVars
<1>2. /\ mutex' \in [Mutex -> Handler \cup {Nobody}]
      /\ \A g \in Handler : \A m \in Mutex : mutex[m] = g => mutex'[m] = g
  BY <1>1 DEF IInv, Types
<1>3. /\ op \in [Handler -> OpType] /\ op[h] \in OpType
      /\ op[h].view \in Nat /\ currentView \in Nat
  BY DEF IInv, Types, OpType
<1>4. CASE Wanted(op[h]) /\ ~Early(op[h])
  <2>1. Goes(h, TRUE) /\ op' = op
    BY <1>1, <1>3, <1>4 DEF Goes, OpType
  <2>2. Follows(op[h].kind, "hold", Stage(h)') =>
          /\ Stage(h)' \in {"apply", "take", "reset"} => op[h].view = expectedView
          /\ Stage(h)' # "assign"
    BY <1>4 DEF Follows, Wanted
  <2> QED
    BY <1>1, <1>2, <2>1, <2>2, GoingKeepsIInv
<1>5. CASE ~Wanted(op[h]) /\ ~Early(op[h])
  <2>1. Goes(h, FALSE) /\ op' = op
    BY <1>1, <1>3, <1>5 DEF Goes, OpType
  <2> QED
    BY <1>1, <1>2, <2>1, GoingKeepsIInv
<1>6. CASE Early(op[h])
  <2>1. ~Wanted(op[h])
    BY <1>3, <1>6 DEF Early, Wanted
  <2>2. Goes(h, FALSE)
    BY <1>1, <2>1 DEF Goes
  <2>3. /\ Stage(h)' = "end" /\ todo'[h] \in Left(op[h].kind)
        /\ todo' \in [Handler -> UNION {Left(kind) : kind \in Kind}]
        /\ \A g \in Handler \ {h} : todo'[g] = todo[g]
    BY <1>1, <2>2, GoesOn
  <2>4. /\ op' \in [Handler -> OpType]
        /\ op'[h].kind = op[h].kind /\ op'[h].ui = 0
        /\ \A g \in Handler \ {h} : op'[g] = op[g]
    <3>1. [op[h] EXCEPT !.ui = 0] \in OpType
      BY <1>3 DEF OpType
    <3>2. op' = [op EXCEPT ![h] = [op[h] EXCEPT !.ui = 0]]
      BY <1>1, <1>3, <1>6
    <3> QED
      BY <1>3, <3>1, <3>2 DEF OpType
  <2>5. Others(h) /\ ViewKept
    BY <1>1, <2>3, <2>4 DEF Others, ViewKept
  <2>6. Types'
    BY <1>1, <1>2, <2>3, <2>4 DEF IInv, Types
  <2>7. ViewInv(h)' /\ SenderInv(h)'
    BY <2>3, <2>4 DEF ViewInv, SenderInv, WithView
  <2>8. expectedView' >= expectedView
    BY <1>1, SameView, Zenon
  <2> QED
    BY <1>1, <2>5, <2>6, <2>7, <2>8, StepKeepsIInv
<1> QED
  BY <1>4, <1>5, <1>6

\* Stages in which a handler has the view and generates nothing yet.
LEMMA InsideKeepsIInv ==
  ASSUME IInv, NEW h \in Handler, CaptureRequest(h) \/ TakeLog(h) \/ AppendSigned(h)
  PROVE  IInv'
<1>1. /\ UNCHANGED <<op, out, mutex, readers, writer, expectedView, currentView, lastUI,
                     processed, sent>>
      /\ Goes(h, TRUE)
  BY DEF CaptureRequest, TakeLog, AppendSigned, viewVars, dataVars, lockVars, logVars
<1>2. PICK stage \in {"capture", "take", "sign"} : At(h, stage)
  BY DEF CaptureRequest, TakeLog, AppendSigned
<1>3. Stage(h) = stage /\ ViewInv(h)
  BY <1>1, <1>2, GoesOn DEF IInv
<1>4. /\ mutex' \in [Mutex -> Handler \cup {Nobody}]
      /\ \A g \in Handler : \A m \in Mutex : mutex[m] = g => mutex'[m] = g
  BY <1>1 DEF IInv, Types
<1>5. Follows(op[h].kind, stage, Stage(h)') =>
        /\ Stage(h)' \in WithView => h \in readers' \/ writer' = h
        /\ Stage(h)' \in {"apply", "take", "reset"} /\ op[h].kind # "request"
             => op[h].view = expectedView
        /\ Stage(h)' # "assign"
  BY <1>1, <1>2, <1>3 DEF Follows, ViewInv, WithView
<1> QED
  BY <1>1, <1>2, <1>4, <1>5, GoingKeepsIInv

\* The view is advanced while nobody has it, and whoever advances it has it then.
LEMMA AdvanceKeepsIInv ==
  ASSUME IInv, NEW h \in Handler, AdvanceView(h)
  PROVE  IInv'
<1> DEFINE nv == op[h].kind = "newview"
           view == op[h].view
           on == IF nv THEN view > currentView /\ view = expectedView ELSE view > expectedView
<1>1. /\ At(h, "advance") /\ writer = Nobody /\ readers = {} /\ writer' = h
      /\ UNCHANGED <<op, out, mutex, readers, lastUI, processed, sent>>
      /\ currentView' = IF nv /\ view > currentView THEN view ELSE currentView
      /\ expectedView' = IF ~nv /\ view > expectedView THEN view ELSE expectedView
      /\ Goes(h, on)
  BY Zenon DEF AdvanceView, FreeToAdvance, dataVars, logVars
<1>2. view \in Nat /\ currentView \in Nat /\ expectedView \in Nat
  BY DEF IInv, Types, OpType
<1>3. /\ currentView' \in Nat /\ expectedView' \in Nat /\ expectedView' >= expectedView
      /\ on => view = expectedView'
  BY <1>1, <1>2
<1>4. PICK b \in BOOLEAN : Goes(h, b) /\ (b => on)
  <2>1. CASE on
    BY <1>1, <2>1 DEF Goes
  <2>2. CASE ~on
    BY <1>1, <2>2 DEF Goes
  <2> QED
    BY <2>1, <2>2
<1> HIDE DEF on
<1>5. /\ Stage(h) = "advance" /\ Stage(h)' # "sender"
      /\ todo' \in [Handler -> UNION {Left(kind) : kind \in Kind}]
      /\ todo'[h] \in Left(op[h].kind)
      /\ \A g \in Handler \ {h} : todo'[g] = todo[g]
      /\ Stage(h)' = "end" \/ (b /\ Follows(op[h].kind, "advance", Stage(h)'))
  BY <1>1, <1>4, GoesOn
<1>6. Others(h) /\ ViewKept
  BY <1>1, <1>5, HandlerAssumption DEF Others, ViewKept
<1>7. Types'
  BY <1>1, <1>3, <1>5 DEF IInv, Types
<1>8. ViewInv(h)'
  <2>1. CASE Stage(h)' = "end"
    BY <1>1, <1>5, <2>1 DEF ViewInv, WithView
  <2>2. CASE b /\ Follows(op[h].kind, "advance", Stage(h)')
    <3>1. Stage(h)' # "assign"
      BY <2>2 DEF Follows
    <3> QED
      BY <1>1, <1>3, <1>4, <1>5, <2>2, <3>1 DEF ViewInv
  <2> QED
    BY <1>5, <2>1, <2>2
<1>9. SenderInv(h)'
  BY <1>1, <1>5 DEF IInv, SenderInv
<1> QED
  BY <1>1, <1>3, <1>6, <1>7, <1>8, <1>9, StepKeepsIInv

\* A handler that generates a message, for the expected view.
LEMMA GenerateKeepsIInv ==
  ASSUME IInv, NEW h \in Handler, Stage(h) \in {"apply", "reset"},
         NEW m \in CertifiedMessage, m.view = expectedView, Generate(h, m),
         UNCHANGED <<op, mutex, readers, writer, expectedView, currentView, lastUI,
                     processed, sent>>
  PROVE  IInv'
<1>1. /\ todo' = [todo EXCEPT ![h] = <<"assign", "append">>]
      /\ out' = [out EXCEPT ![h] = m]
      /\ op[h].kind \in Kind
  BY DEF Generate, IInv, Types, OpType
<1>2. \A kind : <<"assign", "append">> \in Left(kind)
  BY Zenon DEF Left
<1>3. /\ todo' \in [Handler -> UNION {Left(kind) : kind \in Kind}]
      /\ todo'[h] = <<"assign", "append">> /\ out'[h] = m
      /\ \A g \in Handler \ {h} : todo'[g] = todo[g] /\ out'[g] = out[g]
  <2>1. <<"assign", "append">> \in UNION {Left(kind) : kind \in Kind}
    BY <1>1, <1>2, Zenon
  <2>2. PICK l : l = <<"assign", "append">>
    OBVIOUS
  <2>3. /\ todo \in [Handler -> UNION {Left(kind) : kind \in Kind}] /\ DOMAIN out = Handler
        /\ todo' = [todo EXCEPT ![h] = l] /\ l \in UNION {Left(kind) : kind \in Kind}
    BY <1>1, <2>1, <2>2 DEF IInv, Types
  <2>4. out'[h] = m /\ \A g \in Handler \ {h} : out'[g] = out[g]
    BY <1>1, <2>3
  <2>5. /\ todo' \in [Handler -> UNION {Left(kind) : kind \in Kind}] /\ todo'[h] = l
        /\ \A g \in Handler \ {h} : todo'[g] = todo[g]
    BY <2>3
  <2> QED
    BY <2>2, <2>4, <2>5, Zenon
<1>4. Stage(h)' = "assign"
  BY <1>3 DEF Stage
<1>5. Others(h) /\ ViewKept
  BY <1>3 DEF Others, ViewKept
<1>6. out' \in [Handler -> CertifiedMessage \cup {Message("none", 0)} \cup [ui : Nat]]
  BY <1>1 DEF IInv, Types
<1>7. Types'
  BY <1>3, <1>6 DEF IInv, Types
<1>8. ViewInv(h)'
  <2>1. h \in readers \/ writer = h
    BY DEF IInv, ViewInv, WithView
  <2> QED
    BY <1>2, <1>3, <1>4, <2>1 DEF ViewInv
<1>9. SenderInv(h)'
  BY <1>4 DEF IInv, SenderInv
<1>10. expectedView' >= expectedView
  BY SameView, Zenon
<1> QED
  BY <1>5, <1>7, <1>8, <1>9, <1>10, StepKeepsIInv

\* The appliers, and the two that reset the log.
LEMMA ApplyKeepsIInv ==
  ASSUME IInv, NEW h \in Handler, Apply(h) \/ ResetLog(h)
  PROVE  IInv'
<1>1. UNCHANGED <<op, mutex, readers, writer, expectedView, currentView, lastUI, processed, sent>>
  BY DEF Apply, ResetLog, lockVars, viewVars, dataVars, logVars
<1>2. /\ op[h].view \in Nat /\ currentView \in Nat /\ ViewInv(h)
      /\ todo[h] \in Left(op[h].kind)
  BY DEF IInv, Types, OpType, ViewInv
<1>3. CASE ResetLog(h)
  <2>1. /\ Stage(h) = "reset" /\ At(h, "reset")
        /\ Generate(h, Message(IF op[h].kind = "viewchange" THEN "newview" ELSE "viewchange",
                               op[h].view))
    BY <1>3 DEF ResetLog, At, Stage
  <2>2. op[h].kind # "request"
    <3>1. todo[h] # <<>> /\ Head(todo[h]) = "reset"
      BY <2>1 DEF At
    <3> DEFINE l == todo[h]
    <3>2. l \in Left(op[h].kind) /\ l # <<>> /\ Head(l) = "reset"
      BY <1>2, <3>1
    <3> HIDE DEF l
    <3>3. Follows(op[h].kind, Head(l), IF Tail(l) = <<>> THEN "end" ELSE Head(Tail(l)))
      BY <3>2, NextStage, Zenon
    <3> QED
      BY <3>2, <3>3 DEF Follows
  <2>3. op[h].view = expectedView
    BY <1>2, <2>1, <2>2 DEF ViewInv
  <2>4. PICK m \in CertifiedMessage : Generate(h, m) /\ m.view = expectedView
    BY <1>2, <2>1, <2>3 DEF Message, CertifiedMessage
  <2> QED
    BY <1>1, <2>1, <2>4, GenerateKeepsIInv
<1>4. CASE Apply(h)
  <2>1. At(h, "apply") /\ Stage(h) = "apply"
    BY <1>4 DEF Apply, At, Stage
  <2>2. PICK ms \in Generated(op[h]) :
          IF ms = <<>> THEN Goes(h, FALSE) /\ UNCHANGED out ELSE Generate(h, ms[1])
    BY <1>4 DEF Apply
  <2>3. CASE ms = <<>>
    <3>1. /\ mutex' \in [Mutex -> Handler \cup {Nobody}]
          /\ \A g \in Handler : \A m \in Mutex : mutex[m] = g => mutex'[m] = g
      BY <1>1 DEF IInv, Types
    <3> QED
      BY <1>1, <2>1, <2>2, <2>3, <3>1, GoingKeepsIInv
  <2>4. CASE ms # <<>>
    <3>1. ms[1] \in CertifiedMessage /\ ms[1].view = expectedView
      <4>1. CASE op[h].kind = "request" /\ currentView = expectedView /\ isPrimary(currentView)
        <5>1. ms = <<Message("prepare", currentView)>>
          BY <2>4, <4>1 DEF Generated
        <5> QED
          BY <1>2, <4>1, <5>1 DEF Message, CertifiedMessage
      <4>2. CASE op[h].kind # "request"
        <5>1. op[h].view = expectedView
          BY <1>2, <2>1, <4>2 DEF ViewInv
        <5>2. ms = <<Message("prepare", op[h].view)>> \/ ms = <<Message("commit", op[h].view)>>
          BY <2>4, <4>2 DEF Generated
        <5> QED
          BY <1>2, <5>1, <5>2 DEF Message, CertifiedMessage
      <4> QED
        BY <2>2, <2>4, <4>1, <4>2 DEF Generated
    <3> QED
      BY <1>1, <2>1, <2>2, <2>4, <3>1, GenerateKeepsIInv
  <2> QED
    BY <2>3, <2>4
<1> QED
  BY <1>3, <1>4

\* The mutex of the sender: what goes on is the sender's next message.
LEMMA LockSenderKeepsIInv ==
  ASSUME IInv, NEW h \in Handler, LockSender(h)
  PROVE  IInv'
<1>1. PICK p : p = op[h].from
  OBVIOUS
<1>2. PICK new \in BOOLEAN : new <=> (op[h].ui = 0 \/ op[h].ui > lastUI[p])
  <2>1. (op[h].ui = 0 \/ op[h].ui > lastUI[p]) \in BOOLEAN
    BY Zenon
  <2> QED
    BY <2>1, Zenon
<1>3. /\ At(h, "sender") /\ mutex[<<"sender", p>>] = Nobody
      /\ mutex' = [mutex EXCEPT ![<<"sender", p>>] = h]
      /\ UNCHANGED <<out, readers, writer, expectedView, currentView, lastUI, processed, sent>>
  BY <1>1 DEF LockSender, Free, viewVars, dataVars, logVars
<1>4. Goes(h, new) /\ op' = [op EXCEPT ![h].ui = IF new THEN op[h].ui ELSE 0]
  <2>1. CASE new
    BY <1>1, <1>2, <2>1 DEF LockSender, Goes
  <2>2. CASE ~new
    BY <1>1, <1>2, <2>2 DEF LockSender, Goes
  <2> QED
    BY <2>1, <2>2
<1>5. /\ Stage(h) = "sender" /\ Stage(h)' # "sender"
      /\ todo' \in [Handler -> UNION {Left(kind) : kind \in Kind}]
      /\ todo'[h] \in Left(op[h].kind)
      /\ \A g \in Handler \ {h} : todo'[g] = todo[g]
      /\ Stage(h)' = "end" \/ (new /\ Follows(op[h].kind, "sender", Stage(h)'))
  BY <1>3, <1>4, GoesOn
<1>6. op \in [Handler -> OpType] /\ mutex \in [Mutex -> Handler \cup {Nobody}]
      /\ lastUI \in [Sender -> Nat]
  BY DEF IInv, Types
<1>7. /\ op' \in [Handler -> OpType]
      /\ op'[h].kind = op[h].kind /\ op'[h].from = p /\ op'[h].view = op[h].view
      /\ op'[h].ui = IF new THEN op[h].ui ELSE 0
      /\ \A g \in Handler \ {h} : op'[g] = op[g]
  <2>1. op[h] \in OpType
    BY <1>6
  <2>2. [op[h] EXCEPT !.ui = IF new THEN op[h].ui ELSE 0] \in OpType
    BY <2>1 DEF OpType
  <2>3. op' = [op EXCEPT ![h] = [op[h] EXCEPT !.ui = IF new THEN op[h].ui ELSE 0]]
    BY <1>4, <1>6
  <2>4. op'[h] = [op[h] EXCEPT !.ui = IF new THEN op[h].ui ELSE 0]
    BY <1>6, <2>3
  <2> QED
    BY <1>1, <1>6, <2>1, <2>2, <2>3, <2>4 DEF OpType
<1>8. /\ mutex' \in [Mutex -> Handler \cup {Nobody}]
      /\ \A g \in Handler : \A m \in Mutex : mutex[m] = g => mutex'[m] = g
      /\ p \in Sender => mutex'[<<"sender", p>>] = h
  <2>1. p \in Sender => <<"sender", p>> \in Mutex
    BY DEF Mutex
  <2> QED
    BY <1>3, <1>6, <2>1, HandlerAssumption
<1>9. Others(h) /\ ViewKept
  <2>1. \A q \in Sender : <<"sender", q>> \in Mutex
    BY DEF Mutex
  <2> QED
    BY <1>3, <1>5, <1>7, <1>8, <2>1 DEF Others, ViewKept
<1>10. Types'
  BY <1>3, <1>5, <1>7, <1>8 DEF IInv, Types
<1>11. ViewInv(h)'
  <2>1. Stage(h)' \notin WithView
    BY <1>5 DEF Follows, WithView
  <2> QED
    BY <1>5, <1>7, <2>1 DEF ViewInv, WithView
<1>12. SenderInv(h)'
  <2>1. op[h].ui \in Nat
    BY <1>6 DEF OpType
  <2>2. SenderInv(h)
    BY DEF IInv
  <2> QED
    BY <1>1, <1>2, <1>3, <1>6, <1>7, <1>8, <2>1, <2>2 DEF SenderInv
<1>13. expectedView' >= expectedView
  BY <1>3, SameView, Zenon
<1> QED
  BY <1>3, <1>9, <1>10, <1>11, <1>12, <1>13, StepKeepsIInv

\* The message that gets the next UI is for the expected view.
LEMMA AssignKeepsIInv ==
  ASSUME IInv, NEW h \in Handler, AssignUI(h)
  PROVE  IInv'
<1>1. /\ At(h, "assign") /\ mutex[<<"ui", Self>>] = Nobody /\ Goes(h, TRUE)
      /\ mutex' = [mutex EXCEPT ![<<"ui", Self>>] = h]
      /\ sent' = Append(sent, out[h])
      /\ out' = [out EXCEPT ![h] = [ui |-> Len(sent) + 1]]
      /\ UNCHANGED <<op, readers, writer, expectedView, currentView, lastUI, processed>>
  BY DEF AssignUI, Free, viewVars, dataVars
<1>2. /\ Stage(h) = "assign" /\ Stage(h)' # "sender"
      /\ todo' \in [Handler -> UNION {Left(kind) : kind \in Kind}]
      /\ todo'[h] \in Left(op[h].kind)
      /\ \A g \in Handler \ {h} : todo'[g] = todo[g]
      /\ Stage(h)' \in {"append", "end"}
  BY <1>1, GoesOn DEF Follows
<1>3. <<"ui", Self>> \in Mutex /\ \A p \in Sender : <<"sender", p>> \in Mutex
  BY DEF Mutex
<1>4. /\ mutex' \in [Mutex -> Handler \cup {Nobody}]
      /\ \A g \in Handler : \A m \in Mutex : mutex[m] = g => mutex'[m] = g
  BY <1>1, <1>3, Locking
<1>5. /\ out[h] \in CertifiedMessage /\ out[h].view = expectedView
      /\ sent \in Seq(CertifiedMessage) /\ expectedView \in Nat
      /\ h \in readers \/ writer = h
  BY <1>2 DEF IInv, Types, ViewInv, WithView
<1>6. /\ sent' \in Seq(CertifiedMessage) /\ Len(sent') = Len(sent) + 1
      /\ sent'[Len(sent) + 1] = out[h]
      /\ \A i \in 1..Len(sent) : sent'[i] = sent[i] /\ sent[i].view \in Nat
  <2>1. \A i \in 1..Len(sent) : sent[i] \in CertifiedMessage
    BY <1>5
  <2> QED
    BY <1>1, <1>5, <2>1 DEF CertifiedMessage
<1>7. /\ out' \in [Handler -> CertifiedMessage \cup {Message("none", 0)} \cup [ui : Nat]]
      /\ \A g \in Handler \ {h} : out'[g] = out[g]
  <2>1. [ui |-> Len(sent) + 1] \in [ui : Nat]
    BY <1>5
  <2> QED
    BY <1>1, <2>1 DEF IInv, Types
<1>8. Types'
  BY <1>1, <1>2, <1>4, <1>6, <1>7 DEF IInv, Types
<1>9. \A g \in Handler : ViewInv(g)' /\ SenderInv(g)'
  <2>1. Others(h) /\ ViewKept
    BY <1>1, <1>2, <1>3, <1>4, <1>7 DEF Others, ViewKept
  <2>2. LastUIKept(h)
    BY <1>1 DEF LastUIKept, IInv, Types
  <2>3. ViewInv(h)'
    BY <1>1, <1>2, <1>5 DEF ViewInv
  <2>4. SenderInv(h)'
    BY <1>1, <1>2, <1>3, <1>4 DEF IInv, SenderInv
  <2> QED
    BY <2>1, <2>2, <2>3, <2>4, OthersKept
<1>10. \A p \in Sender : ProcessedInv(p)'
  BY <1>1 DEF IInv, ProcessedInv
<1>11. SentInv'
  <2> SUFFICES ASSUME NEW i \in 1..Len(sent'), sent'[i].kind = "viewchange"
               PROVE  sent'[i].view <= expectedView
    BY <1>1 DEF SentInv
  <2>1. CASE i \in 1..Len(sent)
    BY <1>6, <2>1 DEF IInv, SentInv
  <2>2. CASE i = Len(sent) + 1
    BY <1>5, <1>6, <2>2
  <2> QED
    BY <1>5, <1>6, <2>1, <2>2
<1>12. SilentAfterViewChange'
  <2> SUFFICES ASSUME NEW i \in 1..Len(sent'), NEW j \in 1..Len(sent'), i < j,
                      sent'[i].kind = "viewchange"
               PROVE  sent'[j].view >= sent'[i].view
    BY DEF SilentAfterViewChange
  <2>1. i \in 1..Len(sent)
    BY <1>5, <1>6
  <2>2. CASE j \in 1..Len(sent)
    BY <1>6, <2>1, <2>2 DEF IInv, SilentAfterViewChange
  <2>3. CASE j = Len(sent) + 1
    <3>1. sent[i].view <= expectedView
      BY <1>6, <2>1 DEF IInv, SentInv
    <3> QED
      BY <1>5, <1>6, <2>1, <2>3, <3>1
  <2> QED
    BY <1>5, <1>6, <2>2, <2>3
<1> QED
  BY <1>8, <1>9, <1>10, <1>11, <1>12 DEF IInv

\* The message is in the log, and the UI lock is released.
LEMMA AppendKeepsIInv ==
  ASSUME IInv, NEW h \in Handler, AppendLog(h)
  PROVE  IInv'
<1>1. /\ At(h, "append") /\ Goes(h, TRUE)
      /\ mutex' = [mutex EXCEPT ![<<"ui", Self>>] = Nobody]
      /\ out' = [out EXCEPT ![h] = Message("none", 0)]
      /\ UNCHANGED <<op, readers, writer, expectedView, currentView, lastUI, processed, sent>>
  BY DEF AppendLog, viewVars, dataVars
<1>2. /\ Stage(h) = "append" /\ Stage(h)' = "end"
      /\ todo' \in [Handler -> UNION {Left(kind) : kind \in Kind}]
      /\ todo'[h] \in Left(op[h].kind)
      /\ \A g \in Handler \ {h} : todo'[g] = todo[g]
  BY <1>1, GoesOn DEF Follows
<1>3. \A p \in Sender : <<"sender", p>> \in Mutex /\ <<"sender", p>> # <<"ui", Self>>
  BY DEF Mutex
<1>4. /\ mutex' \in [Mutex -> Handler \cup {Nobody}]
      /\ \A p \in Sender : mutex'[<<"sender", p>>] = mutex[<<"sender", p>>]
      /\ out' \in [Handler -> CertifiedMessage \cup {Message("none", 0)} \cup [ui : Nat]]
      /\ \A g \in Handler \ {h} : out'[g] = out[g]
  BY <1>1, <1>3 DEF IInv, Types
<1>5. Others(h) /\ ViewKept
  BY <1>1, <1>2, <1>4 DEF Others, ViewKept
<1>6. Types'
  BY <1>1, <1>2, <1>4 DEF IInv, Types
<1>7. ViewInv(h)'
  BY <1>1, <1>2 DEF ViewInv, WithView
<1>8. SenderInv(h)'
  BY <1>1, <1>2, <1>4 DEF IInv, SenderInv
<1>9. expectedView' >= expectedView
  BY <1>1, SameView, Zenon
<1> QED
  BY <1>1, <1>5, <1>6, <1>7, <1>8, <1>9, StepKeepsIInv

\* A handler returns: its message is the sender's next to be processed, and
\* nobody else has the lock of the sender.
LEMMA ReturnKeepsIInv ==
  ASSUME IInv, NEW h \in Handler, Return(h)
  PROVE  IInv'
<1>1. PICK o : o = op[h]
  OBVIOUS
<1>2. /\ todo[h] = <<>> /\ op' = [op EXCEPT ![h] = NoOp]
      /\ mutex' = [m \in Mutex |-> IF mutex[m] = h THEN Nobody ELSE mutex[m]]
      /\ readers' = readers \ {h}
      /\ writer' = IF writer = h THEN Nobody ELSE writer
      /\ lastUI' = IF o.ui # 0 THEN [lastUI EXCEPT ![o.from] = o.ui] ELSE lastUI
      /\ processed' = IF o.ui # 0 THEN [processed EXCEPT ![o.from] = Append(@, o.ui)]
                                  ELSE processed
      /\ UNCHANGED <<todo, out, currentView, expectedView, sent>>
  BY <1>1 DEF Return, Leaves, viewVars
<1>3. /\ op \in [Handler -> OpType] /\ mutex \in [Mutex -> Handler \cup {Nobody}]
      /\ lastUI \in [Sender -> Nat] /\ processed \in [Sender -> Seq(Nat)]
      /\ o \in OpType /\ o.ui \in Nat
  BY <1>1 DEF IInv, Types, OpType
<1>4. Stage(h) = "end" /\ Stage(h)' = "end"
  BY <1>2 DEF Stage
<1>5. o.ui # 0 => /\ o.from \in Sender /\ mutex[<<"sender", o.from>>] = h
                  /\ o.ui = lastUI[o.from] + 1
  BY <1>1, <1>4 DEF IInv, SenderInv
<1>6. /\ op' \in [Handler -> OpType] /\ op'[h] = NoOp
      /\ \A g \in Handler \ {h} : op'[g] = op[g]
  <2>1. NoOp \in OpType
    BY DEF NoOp, Op, OpType, Kind, Sender
  <2> QED
    BY <1>2, <1>3, <2>1
<1>7. /\ mutex' \in [Mutex -> Handler \cup {Nobody}]
      /\ \A g \in Handler \ {h} : \A m \in Mutex : mutex[m] = g => mutex'[m] = g
  BY <1>2, <1>3
<1>8. lastUI' \in [Sender -> Nat] /\ LastUIKept(h)
  <2>1. CASE o.ui = 0
    <3>1. lastUI' = lastUI
      BY <1>2, <2>1
    <3> QED
      BY <1>3, <3>1 DEF LastUIKept
  <2>2. CASE o.ui # 0
    <3>1. lastUI' = [lastUI EXCEPT ![o.from] = o.ui]
      BY <1>2, <2>2
    <3>2. lastUI' \in [Sender -> Nat]
      BY <1>3, <3>1
    <3>3. ASSUME NEW p \in Sender
          PROVE  /\ lastUI'[p] \in Nat /\ lastUI'[p] >= lastUI[p]
                 /\ lastUI'[p] = lastUI[p] \/ mutex[<<"sender", p>>] = h
      <4>1. CASE p = o.from
        <5>1. lastUI'[p] = lastUI[p] + 1 /\ mutex[<<"sender", p>>] = h
          BY <1>3, <1>5, <2>2, <3>1, <4>1
        <5> QED
          BY <1>3, <5>1
      <4>2. CASE p # o.from
        <5>1. lastUI'[p] = lastUI[p]
          BY <1>3, <3>1, <4>2
        <5> QED
          BY <1>3, <5>1
      <4> QED
        BY <4>1, <4>2
    <3> QED
      BY <3>2, <3>3 DEF LastUIKept
  <2> QED
    BY <2>1, <2>2
<1>9. processed' \in [Sender -> Seq(Nat)] /\ \A p \in Sender : ProcessedInv(p)'
  <2>1. CASE o.ui = 0
    BY <1>2, <1>3, <2>1 DEF IInv, ProcessedInv
  <2>2. CASE o.ui # 0
    <3>1. /\ processed' = [processed EXCEPT ![o.from] = Append(processed[o.from], o.ui)]
          /\ lastUI' = [lastUI EXCEPT ![o.from] = o.ui]
          /\ o.from \in Sender /\ o.ui = lastUI[o.from] + 1
      BY <1>2, <1>5, <2>2
    <3>2. processed[o.from] \in Seq(Nat) /\ ProcessedInv(o.from)
      BY <1>3, <3>1 DEF IInv
    <3>3. processed' \in [Sender -> Seq(Nat)]
      BY <1>3, <3>1, <3>2
    <3>4. ProcessedInv(o.from)'
      <4>1. /\ processed'[o.from] = Append(processed[o.from], o.ui)
            /\ lastUI'[o.from] = o.ui
        BY <1>3, <3>1
      <4>2. /\ Len(processed[o.from]) = lastUI[o.from]
            /\ \A i \in 1..Len(processed[o.from]) : processed[o.from][i] = i
        BY <3>2 DEF ProcessedInv
      <4>3. /\ Len(Append(processed[o.from], o.ui)) = o.ui
            /\ \A i \in 1..o.ui : Append(processed[o.from], o.ui)[i] = i
        BY <1>3, <3>1, <3>2, <4>2
      <4> QED
        BY <4>1, <4>3 DEF ProcessedInv
    <3>5. ASSUME NEW p \in Sender, p # o.from PROVE ProcessedInv(p)'
      <4>1. processed'[p] = processed[p] /\ lastUI'[p] = lastUI[p]
        BY <1>3, <3>1, <3>5
      <4> QED
        BY <4>1 DEF IInv, ProcessedInv
    <3> QED
      BY <3>3, <3>4, <3>5
  <2> QED
    BY <2>1, <2>2
<1>10. Types'
  BY <1>2, <1>6, <1>7, <1>8, <1>9 DEF IInv, Types
<1>11. \A g \in Handler : ViewInv(g)' /\ SenderInv(g)'
  <2>1. \A p \in Sender : <<"sender", p>> \in Mutex
    BY DEF Mutex
  <2>2. Others(h) /\ ViewKept
    BY <1>2, <1>6, <1>7, <2>1 DEF Others, ViewKept
  <2>3. ViewInv(h)'
    <3>1. \A kind : <<>> \in Left(kind)
      BY Zenon DEF Left
    <3>2. /\ todo'[h] \in Left(op'[h].kind) /\ Stage(h)' \notin WithView
          /\ Stage(h)' # "assign" /\ Stage(h)' \notin {"apply", "take", "reset"}
      BY <1>2, <1>4, <3>1 DEF WithView
    <3> QED
      BY <3>2, Zenon DEF ViewInv
  <2>4. SenderInv(h)'
    <3>1. op'[h].ui = 0
      BY <1>6 DEF NoOp, Op
    <3> QED
      BY <3>1 DEF SenderInv
  <2> QED
    BY <1>8, <2>2, <2>3, <2>4, OthersKept
<1>12. SentInv' /\ SilentAfterViewChange'
  BY <1>2 DEF IInv, SentInv, SilentAfterViewChange
<1> QED
  BY <1>9, <1>10, <1>11, <1>12 DEF IInv

\* A handler starts before all its locks.
LEMMA FirstStage ==
  ASSUME NEW kind \in Kind \ {"none"}
  PROVE  /\ Stages(kind) \in Left(kind) /\ Stages(kind) # <<>>
         /\ Head(Stages(kind)) \notin WithView
         /\ kind \in {"prepare", "commit", "viewchange", "newview"}
              => Head(Stages(kind)) = "sender"
<1>1. CASE kind = "request"
  <2>1. Stages(kind) = <<"hold", "capture", "apply">>
    BY <1>1 DEF Stages
  <2>2. Stages(kind) # <<>> /\ Head(Stages(kind)) = "hold"
    BY <2>1
  <2> QED
    BY <1>1, <2>1, <2>2, Zenon DEF Left, WithView
<1>2. CASE kind \in {"prepare", "commit"}
  <2>1. Stages(kind) = <<"sender", "hold", "apply">>
    BY <1>2 DEF Stages
  <2>2. Stages(kind) # <<>> /\ Head(Stages(kind)) = "sender"
    BY <2>1
  <2> QED
    BY <1>2, <2>1, <2>2, Zenon DEF Left, WithView
<1>3. CASE kind = "newview"
  <2>1. Stages(kind) = <<"sender", "want", "advance", "apply">>
    BY <1>3 DEF Stages
  <2>2. Stages(kind) # <<>> /\ Head(Stages(kind)) = "sender"
    BY <2>1
  <2> QED
    BY <1>3, <2>1, <2>2, Zenon DEF Left, WithView
<1>4. CASE kind = "reqviewchange"
  <2>1. Stages(kind) = <<"sender", "rvc", "want", "advance", "take", "reset">>
    BY <1>4 DEF Stages
  <2>2. Stages(kind) # <<>> /\ Head(Stages(kind)) = "sender"
    BY <2>1
  <2> QED
    BY <1>4, <2>1, <2>2, Zenon DEF Left, WithView
<1>5. CASE kind = "viewchange"
  <2>1. Stages(kind) = <<"sender", "vc", "hold", "reset">>
    BY <1>5 DEF Stages
  <2>2. Stages(kind) # <<>> /\ Head(Stages(kind)) = "sender"
    BY <2>1
  <2> QED
    BY <1>5, <2>1, <2>2, Zenon DEF Left, WithView
<1>6. CASE kind = "timeout"
  <2>1. Stages(kind) = <<"requested", "hold", "sign">>
    BY <1>6 DEF Stages
  <2>2. Stages(kind) # <<>> /\ Head(Stages(kind)) = "requested"
    BY <2>1
  <2> QED
    BY <1>6, <2>1, <2>2, Zenon DEF Left, WithView
<1> QED
  BY <1>1, <1>2, <1>3, <1>4, <1>5, <1>6 DEF Kind

\* A handler is called.
LEMMA CallKeepsIInv ==
  ASSUME IInv, NEW h \in Handler, NEW o \in OpType, o.kind # "none", Call(h, o),
         o.ui # 0 => /\ o.kind \in {"prepare", "commit", "viewchange", "newview"}
                     /\ o.from \in Sender /\ o.ui <= lastUI[o.from] + 1
  PROVE  IInv'
<1>1. /\ op' = [op EXCEPT ![h] = o] /\ todo' = [todo EXCEPT ![h] = Stages(o.kind)]
      /\ UNCHANGED <<out, mutex, readers, writer, currentView, expectedView, lastUI, sent,
                     processed>>
  BY DEF Call, lockVars, viewVars, dataVars, logVars
<1>2. PICK kind \in Kind \ {"none"} : kind = o.kind
  BY DEF OpType
<1>3. PICK l : l = Stages(kind)
  OBVIOUS
<1>4. /\ l \in Left(kind) /\ l # <<>> /\ Head(l) \notin WithView
      /\ kind \in {"prepare", "commit", "viewchange", "newview"} => Head(l) = "sender"
  BY <1>3, FirstStage, Zenon
<1>5. /\ op' \in [Handler -> OpType] /\ op'[h] = o
      /\ todo' \in [Handler -> UNION {Left(k) : k \in Kind}] /\ todo'[h] = l
      /\ \A g \in Handler \ {h} : op'[g] = op[g] /\ todo'[g] = todo[g]
  <2>1. todo' = [todo EXCEPT ![h] = l]
    BY <1>1, <1>2, <1>3
  <2>2. l \in UNION {Left(k) : k \in Kind}
    BY <1>2, <1>4, Zenon
  <2>3. op \in [Handler -> OpType] /\ todo \in [Handler -> UNION {Left(k) : k \in Kind}]
    BY DEF IInv, Types
  <2>4. /\ todo' \in [Handler -> UNION {Left(k) : k \in Kind}] /\ todo'[h] = l
        /\ \A g \in Handler \ {h} : todo'[g] = todo[g]
    BY <2>1, <2>2, <2>3
  <2> QED
    BY <1>1, <2>3, <2>4
<1>6. Stage(h)' = Head(l)
  BY <1>4, <1>5 DEF Stage
<1>7. Others(h) /\ ViewKept
  BY <1>1, <1>5 DEF Others, ViewKept
<1>8. Types'
  BY <1>1, <1>5 DEF IInv, Types
<1>9. ViewInv(h)'
  BY <1>2, <1>4, <1>5, <1>6 DEF ViewInv, WithView
<1>10. SenderInv(h)'
  BY <1>1, <1>2, <1>4, <1>5, <1>6 DEF SenderInv
<1>11. expectedView' >= expectedView
  BY <1>1, SameView, Zenon
<1> QED
  BY <1>1, <1>7, <1>8, <1>9, <1>10, <1>11, StepKeepsIInv

\* What handlers are called with.
LEMMA CalledKeepsIInv ==
  ASSUME IInv, NEW h \in Handler, Called(h)
  PROVE  IInv'
<1>1. ASSUME NEW client \in Client, CallRequest(h, client) PROVE IInv'
  <2>1. PICK o : o = Op("request", 0, client, 0)
    OBVIOUS
  <2>2. o \in OpType /\ o.kind = "request" /\ o.ui = 0
    BY <2>1 DEF Op, OpType, Kind
  <2> QED
    BY <1>1, <2>1, <2>2, CallKeepsIInv DEF CallRequest
<1>2. ASSUME NEW view \in 1..MaxView, CallTimeout(h, view) PROVE IInv'
  <2>1. PICK o : o = Op("timeout", view, Self, 0)
    OBVIOUS
  <2>2. o \in OpType /\ o.kind = "timeout" /\ o.ui = 0
    BY <2>1, BoundAssumption DEF Op, OpType, Kind, Sender
  <2> QED
    BY <1>2, <2>1, <2>2, CallKeepsIInv DEF CallTimeout
<1>3. ASSUME NEW p \in Sender, NEW ui \in 1..Len(Messages(p)), CallCertified(h, p, ui)
      PROVE  IInv'
  <2>1. PICK m : m = Messages(p)[ui]
    OBVIOUS
  <2>2. m \in CertifiedMessage /\ ui \in Nat \ {0}
    <3>1. sent \in Seq(CertifiedMessage)
      BY DEF IInv, Types
    <3>2. PICK ms \in Seq(CertifiedMessage) : Len(Messages(p)) = Len(ms)
                                             /\ \A i \in 1..Len(ms) : Messages(p)[i] = ms[i]
      <4>1. CASE p = Self
        <5>1. Messages(p) = [i \in 1..Len(sent) |-> sent[i]] /\ Len(sent) \in Nat
          BY <3>1, <4>1 DEF Messages
        <5>2. Len(Messages(p)) = Len(sent) /\ \A i \in 1..Len(sent) : Messages(p)[i] = sent[i]
          BY <5>1
        <5> QED
          BY <3>1, <5>2
      <4>2. CASE p # Self
        <5>1. Messages(p) = Script[p] /\ Script[p] \in Seq(CertifiedMessage)
          BY <4>2, ScriptAssumption DEF Messages, Sender
        <5> QED
          BY <5>1, Zenon
      <4> QED
        BY <4>1, <4>2
    <3>3. ui \in 1..Len(ms) /\ m = ms[ui] /\ Len(ms) \in Nat
      BY <2>1, <3>2
    <3> QED
      BY <3>3
  <2>3. PICK o : o = Op(m.kind, m.view, p, ui)
    OBVIOUS
  <2>4. /\ o \in OpType /\ o.kind # "none"
        /\ o.kind \in {"prepare", "commit", "viewchange", "newview"}
        /\ o.from = p /\ o.ui = ui
    BY <2>2, <2>3 DEF Op, OpType, Kind, CertifiedMessage
  <2>5. ui <= lastUI[p] + 1 /\ Call(h, o)
    BY <1>3, <2>1, <2>3 DEF CallCertified
  <2> QED
    BY <2>4, <2>5, CallKeepsIInv
<1>4. ASSUME NEW p \in Sender, NEW view \in 1..MaxView, CallReqViewChange(h, p, view)
      PROVE  IInv'
  <2>1. PICK o : o = Op("reqviewchange", view, p, 0)
    OBVIOUS
  <2>2. o \in OpType /\ o.kind = "reqviewchange" /\ o.ui = 0
    BY <2>1, BoundAssumption DEF Op, OpType, Kind
  <2> QED
    BY <1>4, <2>1, <2>2, CallKeepsIInv DEF CallReqViewChange
<1> QED
  BY <1>1, <1>2, <1>3, <1>4 DEF Called

-----------------------------------------------------------------------------
\* Initially no handler runs and nothing has been generated.
LEMMA InitIInv == Init => IInv
<1> SUFFICES ASSUME Init PROVE IInv
  OBVIOUS
<1>1. \A kind : <<>> \in Left(kind)
  BY Zenon DEF Left
<1>2. NoOp \in OpType /\ NoOp.ui = 0
  BY DEF NoOp, Op, OpType, Kind, Sender
<1>3. Types
  <2>1. op \in [Handler -> OpType]
    BY <1>2 DEF Init
  <2>2. todo \in [Handler -> UNION {Left(kind) : kind \in Kind}]
    BY <1>1 DEF Init, Kind
  <2>3. processed \in [Sender -> Seq(Nat)] /\ sent \in Seq(CertifiedMessage)
    BY DEF Init
  <2> QED
    BY <2>1, <2>2, <2>3 DEF Init, Types
<1>4. ASSUME NEW h \in Handler PROVE ViewInv(h) /\ SenderInv(h)
  <2>1. op[h] = NoOp /\ todo[h] = <<>>
    BY DEF Init
  <2>2. Stage(h) = "end"
    BY <2>1 DEF Stage
  <2> QED
    BY <1>1, <1>2, <2>1, <2>2 DEF ViewInv, SenderInv, WithView
<1>5. \A p \in Sender : ProcessedInv(p)
  BY DEF Init, ProcessedInv
<1>6. SentInv /\ SilentAfterViewChange
  BY DEF Init, SentInv, SilentAfterViewChange
<1> QED
  BY <1>3, <1>4, <1>5, <1>6 DEF IInv

\* Nothing happens.
LEMMA StutterKeepsIInv == IInv /\ UNCHANGED vars => IInv'
<1> SUFFICES ASSUME IInv, UNCHANGED vars PROVE IInv'
  OBVIOUS
<1>1. UNCHANGED <<op, todo, out, mutex, readers, writer, currentView, expectedView, lastUI,
                  sent, processed>>
  BY DEF vars, lockVars, viewVars, dataVars, logVars
<1> QED
  BY <1>1 DEF IInv, Types, ViewInv, Stage, SenderInv, ProcessedInv, SentInv,
              SilentAfterViewChange

\* Inductive invariant: locks, the stages of handlers and what they generate fit
\* together at any time (HoldView, AdvanceExpectedView, captureUI).
THEOREM Inductive == Spec => []IInv
<1>1. IInv /\ [Next]_vars => IInv'
  <2> SUFFICES ASSUME IInv, [Next]_vars PROVE IInv'
    OBVIOUS
  <2>1. ASSUME NEW h \in Handler, Called(h) PROVE IInv'
    BY <2>1, CalledKeepsIInv
  <2>2. ASSUME NEW h \in Handler, Step(h) PROVE IInv'
    <3>1. CASE LockSender(h)
      BY <3>1, LockSenderKeepsIInv
    <3>2. CASE LockReqViewChange(h) \/ LockViewChange(h) \/ LockRequested(h) \/ WantView(h)
      BY <3>2, OutsideKeepsIInv
    <3>3. CASE HoldView(h)
      BY <3>3, HoldKeepsIInv
    <3>4. CASE AdvanceView(h)
      BY <3>4, AdvanceKeepsIInv
    <3>5. CASE CaptureRequest(h) \/ TakeLog(h) \/ AppendSigned(h)
      BY <3>5, InsideKeepsIInv
    <3>6. CASE Apply(h) \/ ResetLog(h)
      BY <3>6, ApplyKeepsIInv
    <3>7. CASE AssignUI(h)
      BY <3>7, AssignKeepsIInv
    <3>8. CASE AppendLog(h)
      BY <3>8, AppendKeepsIInv
    <3>9. CASE Return(h)
      BY <3>9, ReturnKeepsIInv
    <3> QED
      BY <2>2, <3>1, <3>2, <3>3, <3>4, <3>5, <3>6, <3>7, <3>8, <3>9, Zenon DEF Step
  <2> QED
    BY <2>1, <2>2, StutterKeepsIInv, Zenon DEF Next
<1> QED
  BY <1>1, InitIInv, PTL DEF Spec

\* Though several streams bring the messages of a sender, each is processed once
\* and in order of the UIs (makePeerMessageProcessor,
\* makeCertifiedMessageProcessor).
THEOREM ProcessedOnceAndInOrder == Spec => []ProcessedOnce
<1>1. IInv => ProcessedOnce
  BY DEF IInv, ProcessedInv, ProcessedOnce
<1> QED
  BY <1>1, Inductive, PTL

\* A replica that has generated a ViewChange generates nothing in the views
\* before (HoldView, AdvanceExpectedView, makeViewChangeStarter).
THEOREM SilenceAfterViewChange == Spec => []SilentAfterViewChange
<1>1. IInv => SilentAfterViewChange
  BY DEF IInv
<1> QED
  BY <1>1, Inductive, PTL

=============================================================================
