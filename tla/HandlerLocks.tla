---------------------------- MODULE HandlerLocks ----------------------------
(***************************************************************************)
(* The locks of a replica: handlers of client requests, of messages of any *)
(* replica and of timeouts run concurrently and hold the view, per-sender  *)
(* and collector mutexes, the captured request ID and the UI lock while    *)
(* they change views, reset the message log and generate messages.         *)
(*                                                                         *)
(* A handler is the list of stages it still has to go through; a stage     *)
(* takes one lock and does what depends on it, or does one operation on    *)
(* the log.  At the end all locks are released at once.  Abstracted:       *)
(* counting commitments and requests for a view change (any of the latter  *)
(* may be the one that completes a certificate), and the requests.         *)
(***************************************************************************)
EXTENDS Naturals, Sequences, FiniteSets

CONSTANTS Handler,   \* goroutines: streams, embedded messages are theirs
          Client,
          Peer,      \* senders other than the replica itself
          N,         \* replicas
          Self,      \* ID of the replica itself
          CertSize,  \* viewChangeCertSize
          Script,    \* certified messages of each peer, in order of their UIs
          MaxView,   \* bound: highest view of a view change
          MaxCalls   \* bound: requests and timeouts that are handled

ASSUME ReplicaAssumption == N \in Nat \ {0} /\ Self \in 0..N-1 /\ Peer \subseteq 0..N-1 \ {Self}
ASSUME BoundAssumption == MaxView \in Nat /\ MaxCalls \in Nat

VARIABLES op,        \* what each handler handles
          todo,      \* stages it has to go through
          out,       \* message it is about to append to the log, or its UI
          mutex,     \* mutexes and their holders
          readers, writer, wanting,  \* the read-write lock of the view state
          captured,  \* handlers that hold the captured request ID of a client
          currentView, expectedView,
          lastUI, rvcView, vcView, collected, requested,
          log,       \* UI counters of the messages in the log, 0 for a ReqViewChange
          taken,     \* counters each handler took from the log for a ViewChange
          sent,      \* certified messages generated, in order of their UIs
          processed, \* UIs processed of each sender, in order
          calls

lockVars == <<mutex, readers, writer, wanting, captured>>
viewVars == <<currentView, expectedView>>
dataVars == <<lastUI, rvcView, vcView, collected, requested>>
logVars == <<log, taken, sent>>
vars == <<op, todo, out, lockVars, viewVars, dataVars, logVars, processed, calls>>

Sender == Peer \cup {Self}
\* One mutex of each name, one for the messages of each sender.
Mutex == ({"rvc", "vc", "requested", "ui"} \X {Self}) \cup ({"sender"} \X Sender)
Nobody == "nobody"

isPrimary(view) == view % N = Self

Message(kind, view) == [kind |-> kind, view |-> view]

CertifiedMessage ==
  [kind : {"prepare", "commit", "viewchange", "newview"}, view : Nat]

ASSUME HandlerAssumption == Nobody \notin Handler
ASSUME ScriptAssumption == Script \in [Peer -> Seq(CertifiedMessage)]

\* What a handler can be called with.
Op(kind, view, from, ui) == [kind |-> kind, view |-> view, from |-> from, ui |-> ui]
NoOp == Op("none", 0, Self, 0)

\* Certified messages of a sender that can be received.
Messages(p) == IF p = Self THEN [i \in 1..Len(sent) |-> sent[i]] ELSE Script[p]

Init ==
  /\ op = [h \in Handler |-> NoOp]
  /\ todo = [h \in Handler |-> <<>>]
  /\ out = [h \in Handler |-> Message("none", 0)]
  /\ mutex = [m \in Mutex |-> Nobody]
  /\ readers = {} /\ writer = Nobody /\ wanting = {} /\ captured = {}
  /\ currentView = 0 /\ expectedView = 0
  /\ lastUI = [p \in Sender |-> 0]
  /\ rvcView = 0 /\ vcView = 0 /\ collected = {} /\ requested = 0
  /\ log = <<>>
  /\ taken = [h \in Handler |-> {}]
  /\ sent = <<>>
  /\ processed = [p \in Sender |-> <<>>]
  /\ calls = 0

Idle(h) == op[h] = NoOp
At(h, stage) == ~Idle(h) /\ todo[h] # <<>> /\ Head(todo[h]) = stage
Goes(h, on) == todo' = [todo EXCEPT ![h] = IF on THEN Tail(@) ELSE <<>>]

-----------------------------------------------------------------------------
\* Mutant: the view is held again to apply a request.
HoldTwice(kind) ==
  CASE kind = "request"              -> <<"hold", "capture", "hold", "apply">>
    [] kind \in {"prepare", "commit"} -> <<"sender", "hold", "apply">>
    [] kind = "newview"              -> <<"sender", "want", "advance", "apply">>
    [] kind = "reqviewchange"        -> <<"sender", "rvc", "want", "advance", "take", "reset">>
    [] kind = "viewchange"           -> <<"sender", "vc", "hold", "reset">>
    [] kind = "timeout"              -> <<"requested", "hold", "sign">>

\* The locks a handler takes and what it does, in order.
Stages(kind) ==
  CASE kind = "request"              -> <<"hold", "capture", "apply">>
    [] kind \in {"prepare", "commit"} -> <<"sender", "hold", "apply">>
    [] kind = "newview"              -> <<"sender", "want", "advance", "apply">>
    [] kind = "reqviewchange"        -> <<"sender", "rvc", "want", "advance", "take", "reset">>
    [] kind = "viewchange"           -> <<"sender", "vc", "hold", "reset">>
    [] kind = "timeout"              -> <<"requested", "hold", "sign">>

Call(h, o) ==
  /\ Idle(h)
  /\ op' = [op EXCEPT ![h] = o]
  /\ todo' = [todo EXCEPT ![h] = Stages(o.kind)]
  /\ UNCHANGED <<out, lockVars, viewVars, dataVars, logVars, processed>>

\* A client's request arrives, or a timer for the view expires.
CallRequest(h, client) ==
  calls < MaxCalls /\ calls' = calls + 1 /\ Call(h, Op("request", 0, client, 0))

CallTimeout(h, view) ==
  /\ view \in 1..MaxView /\ (view <= currentView + 1 \/ view <= expectedView + 1)
  /\ calls < MaxCalls /\ calls' = calls + 1
  /\ Call(h, Op("timeout", view, Self, 0))

\* A stream brings a certified message, alone or embedded in another one: the
\* next of its sender, or one that has been, is being or, after an error, will be
\* brought by another stream.
CallCertified(h, p, ui) ==
  LET m     == Messages(p)[ui]
      first == ui > lastUI[p] /\ \A g \in Handler : op[g].from = p => op[g].ui # ui
  IN  /\ ui \in 1..Len(Messages(p)) /\ ui <= lastUI[p] + 1
      /\ p = Self => \A g \in Handler : At(g, "append") => out[g].ui # ui
      /\ first \/ calls < MaxCalls
      /\ calls' = IF first THEN calls ELSE calls + 1
      /\ Call(h, Op(m.kind, m.view, p, ui))

\* A ReqViewChange arrives.
CallReqViewChange(h, p, view) ==
  /\ view <= MaxView /\ view = rvcView + 1
  /\ Call(h, Op("reqviewchange", view, p, 0))
  /\ UNCHANGED calls

-----------------------------------------------------------------------------
\* Mutant: messages of one sender are processed concurrently.
FreeOrSender(m) == m[1] = "sender" \/ mutex[m] = Nobody

\* Mutant: the UI is assigned without the lock.
FreeOrUI(m) == m[1] = "ui" \/ mutex[m] = Nobody

\* A mutex can be locked.
Free(m) == mutex[m] = Nobody

\* The mutex of the sender; an old message is not processed.
LockSender(h) ==
  LET p   == op[h].from
      new == op[h].ui = 0 \/ op[h].ui > lastUI[p]
  IN  /\ At(h, "sender") /\ Free(<<"sender", p>>)
      /\ mutex' = [mutex EXCEPT ![<<"sender", p>>] = h]
      /\ Goes(h, new)
      /\ op' = [op EXCEPT ![h].ui = IF new THEN @ ELSE 0]
      /\ UNCHANGED <<out, readers, writer, wanting, captured, viewVars, dataVars, logVars,
                     processed, calls>>

\* makeReqViewChangeProcessor and its collector.
LockReqViewChange(h) ==
  LET complete == op[h].view = rvcView + 1
  IN  /\ At(h, "rvc") /\ Free(<<"rvc", Self>>)
      /\ mutex' = [mutex EXCEPT ![<<"rvc", Self>>] = h]
      /\ rvcView' = IF complete THEN rvcView + 1 ELSE rvcView
      /\ Goes(h, complete)
      /\ UNCHANGED <<op, out, readers, writer, wanting, captured, viewVars, lastUI, vcView,
                     collected, requested, logVars, processed, calls>>

\* makeViewChangeProcessor and its collector.
LockViewChange(h) ==
  LET view     == op[h].view
      before   == IF view > vcView THEN {} ELSE collected
      useful   == view >= vcView /\ isPrimary(view)
      fits     == op[h].from = Self \/ Cardinality(before \ {Self}) + 1 < CertSize
      now      == IF useful /\ fits THEN before \cup {op[h].from} ELSE before
      complete == useful /\ fits /\ Self \in now /\ Cardinality(now) >= CertSize
  IN  /\ At(h, "vc") /\ Free(<<"vc", Self>>)
      /\ mutex' = [mutex EXCEPT ![<<"vc", Self>>] = h]
      /\ vcView' = IF complete THEN view + 1 ELSE IF view > vcView THEN view ELSE vcView
      /\ collected' = IF complete THEN {} ELSE IF view < vcView THEN collected ELSE now
      /\ Goes(h, complete)
      /\ UNCHANGED <<op, out, readers, writer, wanting, captured, viewVars, lastUI, rvcView,
                     requested, logVars, processed, calls>>

\* makeViewChangeRequestor: each view is requested once.
LockRequested(h) ==
  LET new == requested < op[h].view
  IN  /\ At(h, "requested") /\ Free(<<"requested", Self>>)
      /\ mutex' = [mutex EXCEPT ![<<"requested", Self>>] = h]
      /\ requested' = IF new THEN op[h].view ELSE requested
      /\ Goes(h, new)
      /\ UNCHANGED <<op, out, readers, writer, wanting, captured, viewVars, lastUI, rvcView,
                     vcView, collected, logVars, processed, calls>>

-----------------------------------------------------------------------------
\* Mutant: messages are handled in the current view though it is being left.
WantedInCurrent(o) ==
  \/ o.kind = "request"
  \/ o.kind = "timeout" /\ o.view > expectedView
  \/ o.kind \in {"prepare", "commit"} /\ o.view = currentView
  \/ o.kind = "viewchange" /\ o.view = expectedView

\* Whether a handler that holds the view goes on.
Wanted(o) ==
  \/ o.kind = "request"
  \/ o.kind = "timeout" /\ o.view > expectedView
  \/ o.kind \in {"prepare", "commit"} /\ o.view <= currentView /\ o.view = expectedView
  \/ o.kind = "viewchange" /\ o.view = expectedView

\* A message for a view that was not entered is an error: its UI does not count
\* as processed.
Early(o) == o.kind \in {"prepare", "commit"} /\ o.view > currentView

\* HoldView: a reader waits for a writer that waits.
HoldView(h) ==
  /\ At(h, "hold") /\ writer = Nobody /\ wanting = {}
  /\ readers' = readers \cup {h}
  /\ Goes(h, Wanted(op[h]))
  /\ op' = [op EXCEPT ![h].ui = IF Early(op[h]) THEN 0 ELSE @]
  /\ UNCHANGED <<out, mutex, writer, wanting, captured, viewVars, dataVars, logVars,
                 processed, calls>>

WantView(h) ==
  /\ At(h, "want")
  /\ wanting' = wanting \cup {h}
  /\ Goes(h, TRUE)
  /\ UNCHANGED <<op, out, mutex, readers, writer, captured, viewVars, dataVars, logVars,
                 processed, calls>>

\* Mutant: the view is advanced while others hold it.
FreeToHold == writer = Nobody

\* The writer waits for those that hold the view.
FreeToAdvance == writer = Nobody /\ readers = {}

\* AdvanceExpectedView for a ReqViewChange, AdvanceCurrentView for a NewView.
AdvanceView(h) ==
  LET view == op[h].view
      nv   == op[h].kind = "newview"
  IN  /\ At(h, "advance") /\ FreeToAdvance
      /\ writer' = h
      /\ wanting' = wanting \ {h}
      /\ currentView' = IF nv /\ view > currentView THEN view ELSE currentView
      /\ expectedView' = IF ~nv /\ view > expectedView THEN view ELSE expectedView
      /\ Goes(h, IF nv THEN view > currentView /\ view = expectedView
                       ELSE view > expectedView)
      /\ UNCHANGED <<op, out, mutex, readers, captured, dataVars, logVars, processed, calls>>

\* CaptureRequestSeq, which waits for the release of the client's last ID.
CaptureRequest(h) ==
  /\ At(h, "capture") /\ \A g \in captured : op[g].from # op[h].from
  /\ captured' = captured \cup {h}
  /\ Goes(h, TRUE)
  /\ UNCHANGED <<op, out, mutex, readers, writer, wanting, viewVars, dataVars, logVars,
                 processed, calls>>

\* The appliers, by the message they generate, if any: the primary of a stable
\* view proposes a request, also one left pending in the view before, and a
\* backup commits to a proposal.
Generated(o) ==
  CASE o.kind = "request" /\ currentView = expectedView /\ isPrimary(currentView)
         -> {<<Message("prepare", currentView)>>}
    [] o.kind = "newview" /\ isPrimary(o.view)
         -> {<<>>, <<Message("prepare", o.view)>>}
    [] o.kind \in {"prepare", "newview"} /\ ~isPrimary(o.view)
         -> {<<Message("commit", o.view)>>}
    [] OTHER -> {<<>>}

Generate(h, m) ==
  /\ out' = [out EXCEPT ![h] = m]
  /\ todo' = [todo EXCEPT ![h] = <<"assign", "append">>]

Apply(h) ==
  /\ At(h, "apply")
  /\ \E ms \in Generated(op[h]) :
       IF ms = <<>> THEN Goes(h, FALSE) /\ UNCHANGED out
                    ELSE Generate(h, ms[1])
  /\ UNCHANGED <<op, lockVars, viewVars, dataVars, logVars, processed, calls>>

-----------------------------------------------------------------------------
Certified(l) == {l[i] : i \in 1..Len(l)} \ {0}

\* makeViewChangeStarter: the certified messages of the log ...
TakeLog(h) ==
  /\ At(h, "take")
  /\ taken' = [taken EXCEPT ![h] = Certified(log)]
  /\ Goes(h, TRUE)
  /\ UNCHANGED <<op, out, lockVars, viewVars, dataVars, log, sent, processed, calls>>

\* ... are replaced by a ViewChange, or by a NewView (makeNewViewCertProcessor).
ResetLog(h) ==
  /\ At(h, "reset")
  /\ log' = <<>>
  /\ Generate(h, Message(IF op[h].kind = "viewchange" THEN "newview" ELSE "viewchange",
                         op[h].view))
  /\ UNCHANGED <<op, lockVars, viewVars, dataVars, taken, sent, processed, calls>>

\* makeGeneratedMessageHandler: the UI lock is held from assigning the UI ...
AssignUI(h) ==
  /\ At(h, "assign") /\ Free(<<"ui", Self>>)
  /\ mutex' = [mutex EXCEPT ![<<"ui", Self>>] = h]
  /\ sent' = Append(sent, out[h])
  /\ out' = [out EXCEPT ![h] = [ui |-> Len(sent) + 1]]
  /\ Goes(h, TRUE)
  /\ UNCHANGED <<op, readers, writer, wanting, captured, viewVars, dataVars, log, taken,
                 processed, calls>>

\* ... until the message is in the log.
AppendLog(h) ==
  /\ At(h, "append")
  /\ log' = Append(log, out[h].ui)
  /\ out' = [out EXCEPT ![h] = Message("none", 0)]
  /\ mutex' = [mutex EXCEPT ![<<"ui", Self>>] = Nobody]
  /\ Goes(h, TRUE)
  /\ UNCHANGED <<op, readers, writer, wanting, captured, viewVars, dataVars, taken, sent,
                 processed, calls>>

\* makeViewChangeRequestor: the ReqViewChange has no UI.
AppendSigned(h) ==
  /\ At(h, "sign")
  /\ log' = Append(log, 0)
  /\ Goes(h, TRUE)
  /\ UNCHANGED <<op, out, lockVars, viewVars, dataVars, taken, sent, processed, calls>>

\* ReleaseView.
Leaves(h) == readers \ {h}

\* The handler returns: the UI of the message counts as processed and all that
\* it holds is released.
Return(h) ==
  LET o == op[h]
  IN  /\ ~Idle(h) /\ todo[h] = <<>>
      /\ op' = [op EXCEPT ![h] = NoOp]
      /\ mutex' = [m \in Mutex |-> IF mutex[m] = h THEN Nobody ELSE mutex[m]]
      /\ readers' = Leaves(h)
      /\ writer' = IF writer = h THEN Nobody ELSE writer
      /\ captured' = captured \ {h}
      /\ taken' = [taken EXCEPT ![h] = {}]
      /\ lastUI' = IF o.ui # 0 THEN [lastUI EXCEPT ![o.from] = o.ui] ELSE lastUI
      /\ processed' = IF o.ui # 0 THEN [processed EXCEPT ![o.from] = Append(@, o.ui)]
                                  ELSE processed
      /\ UNCHANGED <<todo, out, wanting, viewVars, rvcView, vcView, collected, requested,
                     log, sent, calls>>

Step(h) ==
  \/ LockSender(h) \/ LockReqViewChange(h) \/ LockViewChange(h) \/ LockRequested(h)
  \/ HoldView(h) \/ WantView(h) \/ AdvanceView(h) \/ CaptureRequest(h)
  \/ Apply(h) \/ TakeLog(h) \/ ResetLog(h)
  \/ AssignUI(h) \/ AppendLog(h) \/ AppendSigned(h) \/ Return(h)

Called(h) ==
  \/ \E client \in Client : CallRequest(h, client)
  \/ \E view \in 1..MaxView : CallTimeout(h, view)
  \/ \E p \in Sender : \E ui \in 1..Len(Messages(p)) : CallCertified(h, p, ui)
  \/ \E p \in Sender : \E view \in 1..MaxView : CallReqViewChange(h, p, view)

Next == \E h \in Handler : Called(h) \/ Step(h)

Spec == Init /\ [][Next]_vars

-----------------------------------------------------------------------------
\* Though several streams bring the messages of a sender, alone and embedded in
\* those of others, each is processed once and in order of the UIs
\* (makePeerMessageProcessor, makeCertifiedMessageProcessor).
ProcessedOnce ==
  \A p \in Sender : \A i \in 1..Len(processed[p]) : processed[p][i] = i

\* Certified messages are in the log in the order of their UIs and none is
\* missing between two of them, so that a stream sends, and a ViewChange has,
\* messages with consecutive UIs (makeGeneratedMessageHandler).
LogInOrder ==
  LET uis == SelectSeq(log, LAMBDA c : c # 0)
  IN  \A i \in 1..Len(uis) - 1 : uis[i + 1] = uis[i] + 1

\* Resetting the log loses no certified message: those that are not in the
\* ViewChange to be generated, or the own ViewChange that is in the certificate
\* of the NewView to be generated, are not there
\* (makeViewChangeStarter, makeNewViewCertProcessor).
NothingLost ==
  \A h \in Handler : At(h, "reset") =>
    Certified(log) \subseteq
      IF op[h].kind = "reqviewchange" THEN taken[h]
      ELSE {c \in 1..Len(sent) : sent[c] = Message("viewchange", op[h].view)}

\* A replica that has promised by a ViewChange to leave for a view generates
\* nothing in the views before (HoldView, AdvanceExpectedView): what it sends
\* there later would be missing from the logs the new view starts from.
SilentAfterViewChange ==
  \A i, j \in 1..Len(sent) :
    i < j /\ sent[i].kind = "viewchange" => sent[j].view >= sent[i].view

\* No order in which handlers take the view, the mutexes and the captured
\* request IDs makes them wait for each other (HoldView while AdvanceView waits,
\* CaptureRequestSeq, the processors' locks).  The stages of a handler only get
\* fewer, so it returns as long as one of those that run can take a step.
NoLockCycle == (\A h \in Handler : Idle(h)) \/ \E h \in Handler : ENABLED Step(h)

=============================================================================
