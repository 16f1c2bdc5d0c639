------------------------------ MODULE Replica -------------------------------
(***************************************************************************)
(* What a replica does with a message or a timeout, as operators from the  *)
(* state of the replica to its next state.  They follow the handlers that  *)
(* core/message-handling.go wires together and that prepare.go, commit.go, *)
(* request.go, req-view-change.go, view-change.go, new-view.go and         *)
(* timeout.go define.  The state is one record; a closure's captured       *)
(* variables are fields of it:                                             *)
(*                                                                         *)
(*   currentView, expectedView     viewstate                               *)
(*   counter                       the USIG of the replica                 *)
(*   sent, logStarts               messagelog: all messages ever appended, *)
(*                                 and the indices where a log started     *)
(*                                 (Reset starts another one)              *)
(*   lastUI                        makeCertifiedMessageProcessor           *)
(*   captured, prepared, retired   clientstate, last request IDs           *)
(*   pendingReqs, preparedReqs     requestlist, ID of the client's request *)
(*   requested                     makeViewChangeRequestor                 *)
(*   rvcs, vcs                     the two view change collectors          *)
(*   commitments                   the collector of CommitmentOps          *)
(*   executed                      requests delivered to the consumer      *)
(*   reqTimers, vcTimer            timers running now                      *)
(*   reqTimerViews, vcTimerViews   views a timer was ever started for: its *)
(*                                 callback may run late, after Stop       *)
(*   failed, panicked              the handler returned an error; panicked *)
(***************************************************************************)
EXTENDS Messages, CommitmentOps

CONSTANT Client

None == [type |-> "None"]

InitReplica(id) ==
  [id            |-> id,
   currentView   |-> 0,
   expectedView  |-> 0,
   counter       |-> 0,
   sent          |-> <<>>,
   logStarts     |-> {1},
   lastUI        |-> [q \in Replica |-> 0],
   captured      |-> [c \in Client |-> 0],
   prepared      |-> [c \in Client |-> 0],
   retired       |-> [c \in Client |-> 0],
   pendingReqs   |-> [c \in Client |-> 0],
   preparedReqs  |-> [c \in Client |-> 0],
   requested     |-> 0,
   rvcs          |-> [view |-> 0, collected |-> <<>>],
   vcs           |-> [view |-> 0, collected |-> <<None>>],
   commitments   |-> InitCollector(Replica, CommitCertSize),
   executed      |-> <<>>,
   reqTimers     |-> [c \in Client |-> [seq |-> 0, view |-> 0]],
   vcTimer       |-> 0,
   reqTimerViews |-> {},
   vcTimerViews  |-> {},
   failed        |-> FALSE,
   panicked      |-> FALSE]

Fail(s) == [s EXCEPT !.failed = TRUE]
Panic(s) == [s EXCEPT !.panicked = TRUE]
Stopped(s) == s.failed \/ s.panicked

-----------------------------------------------------------------------------
\* Message log and generated messages

LogStart(s) == CHOOSE i \in s.logStarts : \A j \in s.logStarts : j <= i

Log(s) == SubSeq(s.sent, LogStart(s), Len(s.sent))

ResetLog(s) == [s EXCEPT !.logStarts = @ \cup {Len(s.sent) + 1}]

\* handleGeneratedMessage, whose uiLock makes the assignment of the UI and
\* the append to the log one step.
NextCV(s) == s.counter + 1

AppendCertified(s, m) ==
  [s EXCEPT !.counter = m.cv, !.sent = Append(@, m)]

AppendSigned(s, m) == [s EXCEPT !.sent = Append(@, m)]

-----------------------------------------------------------------------------
\* Requests

StartReqTimer(s, req, view) ==
  [s EXCEPT !.reqTimers[req.client] = [seq |-> req.seq, view |-> view],
            !.reqTimerViews = @ \cup {view}]

StopReqTimer(s, req) ==
  IF s.reqTimers[req.client].seq # req.seq
  THEN s
  ELSE [s EXCEPT !.reqTimers[req.client] = [seq |-> 0, view |-> 0]]

ApplyRequest(s, req, view) ==
  LET t == StartReqTimer(s, req, view)
  IN  IF IsPrimary(view, s.id)
      THEN AppendCertified(t, Prepare(s.id, view, req, NextCV(t)))
      ELSE t

ProcessRequest(s, req) ==
  LET t == [s EXCEPT !.captured[req.client] = req.seq,
                     !.pendingReqs[req.client] = req.seq]
  IN  IF req.seq <= s.captured[req.client] THEN s
      ELSE IF s.currentView # s.expectedView THEN t
      ELSE ApplyRequest(t, req, s.currentView)

\* Mutant: pending requests are left alone in a new view.
LeavePendingReqs(s, view, order) == s

\* order is the order in which the map of pending requests is iterated.
ApplyPendingReqs(s, view, order) ==
  LET apply(t, c) == IF s.pendingReqs[c] = 0
                     THEN t
                     ELSE ApplyRequest(t, Request(c, s.pendingReqs[c]), view)
  IN  FoldLeft(apply, s, order)

NotPrepared(s, req) == req.seq > s.prepared[req.client]

\* requestlist.Remove: only a request with the same ID is removed.
RemoveReq(list, req) ==
  [list EXCEPT ![req.client] = IF @ = req.seq THEN 0 ELSE @]

PrepareReq(s, req) ==
  CASE ~NotPrepared(s, req) -> s
    [] NotPrepared(s, req) /\ req.seq > s.captured[req.client] -> Panic(s)
    [] OTHER -> [s EXCEPT !.prepared[req.client] = req.seq,
                          !.preparedReqs[req.client] = req.seq,
                          !.pendingReqs = RemoveReq(@, req)]

NotRetired(s, req) == req.seq > s.retired[req.client]

RetireReq(s, req) ==
  CASE ~NotRetired(s, req) -> s
    [] NotRetired(s, req) /\ NotPrepared(s, req) -> Panic(s)
    [] OTHER -> [s EXCEPT !.retired[req.client] = req.seq,
                          !.preparedReqs = RemoveReq(@, req)]

Deliver(s, req) == [s EXCEPT !.executed = Append(@, req)]

\* Mutant: a retired request is delivered again.
ExecuteAgain(s, req) == Deliver(StopReqTimer(RetireReq(s, req), req), req)

ExecuteRequest(s, req) ==
  IF NotRetired(s, req)
  THEN Deliver(StopReqTimer(RetireReq(s, req), req), req)
  ELSE s

\* Mutant: prepared request IDs are cleared, not set to the retired ones.
UnprepareToZero(s) ==
  LET held(c) == s.preparedReqs[c] # 0
  IN  [s EXCEPT
        !.prepared = [c \in Client |-> 0],
        !.pendingReqs =
           [c \in Client |-> IF held(c) THEN s.preparedReqs[c] ELSE @[c]],
        !.preparedReqs = [c \in Client |-> 0]]

UnprepareReqs(s) ==
  LET held(c) == s.preparedReqs[c] # 0
  IN  [s EXCEPT
        !.prepared = [c \in Client |-> IF held(c) THEN s.retired[c] ELSE @[c]],
        !.pendingReqs =
           [c \in Client |-> IF held(c) THEN s.preparedReqs[c] ELSE @[c]],
        !.preparedReqs = [c \in Client |-> 0]]

-----------------------------------------------------------------------------
\* Commitments

AcceptNewView(s, nv) ==
  FoldLeft(ExecuteRequest, s, ExtractPreparedRequests(nv.nvCert))

\* collectCommitment: accept the commitment, count it and, when its
\* certificate becomes complete, execute what it proposes.
CollectCommitment(s, m) ==
  LET prop == Proposal(m)
      view == ProposalView(prop)
      c    == AcceptCommitment(s.commitments, m.replica, view, prop.cv, m.cv)
      t    == [s EXCEPT !.commitments = CountCommitment(c, view, prop.cv)]
  IN  IF ~AcceptsCommitment(s.commitments, m.replica, prop.type = "NewView",
                            view, prop.cv, m.cv)
      THEN Fail(s)
      ELSE IF ~CommitmentDone(c, view, prop.cv) THEN t
      ELSE IF prop.type = "Prepare" THEN ExecuteRequest(t, prop.request)
      ELSE AcceptNewView(t, prop)

\* A backup commits to the proposal; the primary's proposal is its commitment.
CommitTo(s, prop) ==
  IF prop.replica = s.id
  THEN s
  ELSE AppendCertified(s, Commit(s.id, prop, NextCV(s)))

ApplyPrepare(s, m) ==
  LET t == CollectCommitment(PrepareReq(s, m.request), m)
  IN  IF ~NotPrepared(s, m.request) THEN Fail(s)
      ELSE IF Stopped(t) THEN t
      ELSE CommitTo(t, m)

ApplyNewView(s, m, order) ==
  LET t == FoldLeft(PrepareReq, s, ExtractPreparedRequests(m.nvCert))
      u == CollectCommitment(t, m)
  IN  IF Stopped(u)
      THEN u
      ELSE CommitTo(ApplyPendingReqs([u EXCEPT !.vcTimer = 0],
                                     m.newView, order), m)

ApplyPeerMessage(s, m, order) ==
  CASE m.type = "Prepare" -> ApplyPrepare(s, m)
    [] m.type = "Commit"  -> CollectCommitment(s, m)
    [] m.type = "NewView" -> ApplyNewView(s, m, order)

\* processViewMessage.  A NewView moves the replica into the new view even
\* when the replica expects another one; the message then has no other effect.
ProcessViewMessage(s, m, order) ==
  LET view == ProposalView(Proposal(m))
      t    == IF m.type = "NewView" THEN [s EXCEPT !.currentView = view] ELSE s
  IN  IF m.type = "NewView" /\ view <= s.currentView THEN s
      ELSE IF m.type # "NewView" /\ view > s.currentView THEN Fail(s)
      ELSE IF view # s.expectedView THEN t
      ELSE ApplyPeerMessage(t, m, order)

-----------------------------------------------------------------------------
\* View change

\* startViewChange: the log of the view that is left goes into the
\* ViewChange, and prepared requests become pending again.
StartViewChange(s, newView, vcCert) ==
  LET t == UnprepareReqs(ResetLog([s EXCEPT
             !.expectedView = newView,
             !.vcTimer = newView,
             !.vcTimerViews = @ \cup {newView}]))
  IN  IF s.expectedView >= newView
      THEN s
      ELSE AppendCertified(t, ViewChange(s.id, newView,
             SelectSeq(Log(s), IsCertified), vcCert, NextCV(t)))

ProcessReqViewChange(s, rvc) ==
  LET collected == Append(s.rvcs.collected, rvc)
  IN  IF \/ rvc.newView # s.rvcs.view + 1
         \/ \E i \in DOMAIN s.rvcs.collected :
               s.rvcs.collected[i].replica = rvc.replica
      THEN s
      ELSE IF Len(collected) < ViewChangeCertSize
      THEN [s EXCEPT !.rvcs.collected = collected]
      ELSE StartViewChange(
             [s EXCEPT !.rvcs = [view |-> @.view + 1, collected |-> <<>>]],
             rvc.newView, collected)

\* processNewViewCert: the new primary opens the view it expects.
ProcessNewViewCert(s, newView, nvCert) ==
  LET t == ResetLog(s)
  IN  IF newView # s.expectedView
      THEN s
      ELSE AppendCertified(t, NewView(s.id, newView, nvCert, NextCV(t)))

ProcessViewChange(s, vc) ==
  LET old  == IF vc.newView > s.vcs.view THEN <<None>> ELSE s.vcs.collected
      full == Len(old) >= ViewChangeCertSize
      collected == IF vc.replica = s.id THEN [old EXCEPT ![1] = vc]
                   ELSE IF full THEN old ELSE Append(old, vc)
      t == [s EXCEPT !.vcs = [view |-> vc.newView, collected |-> collected]]
  IN  IF vc.newView < s.vcs.view THEN s
      ELSE IF ~IsPrimary(vc.newView, s.id)
      THEN [t EXCEPT !.vcs.collected = old]
      ELSE IF vc.replica # s.id /\ full THEN t
      ELSE IF collected[1] = None \/ Len(collected) < ViewChangeCertSize
      THEN t
      ELSE ProcessNewViewCert(
             [s EXCEPT !.vcs = [view |-> vc.newView + 1,
                                collected |-> <<None>>]],
             vc.newView, collected)

RequestViewChange(s, newView) ==
  LET t == [s EXCEPT !.requested = newView]
  IN  IF s.requested >= newView THEN s
      ELSE IF s.expectedView >= newView THEN t
      ELSE AppendSigned(t, ReqViewChange(s.id, newView))

-----------------------------------------------------------------------------
\* Handling a message with all that is embedded in it

\* processCertifiedMessage: each UI of a replica is processed once, in order.
ProcessCertifiedMessage(s, m, order) ==
  LET nextUI == s.lastUI[m.replica] + 1
      t == IF m.type = "ViewChange" THEN ProcessViewChange(s, m)
           ELSE ProcessViewMessage(s, m, order)
  IN  IF m.cv < nextUI THEN s
      ELSE IF m.cv > nextUI THEN Fail(s)
      ELSE IF Stopped(t) THEN t
      ELSE [t EXCEPT !.lastUI[m.replica] = nextUI]

ProcessMessage(s, m, order) ==
  CASE m.type = "Request"       -> ProcessRequest(s, m)
    [] m.type = "ReqViewChange" -> ProcessReqViewChange(s, m)
    [] OTHER                    -> ProcessCertifiedMessage(s, m, order)

\* The steps of handling a message: the embedded messages are handled before
\* it is processed, each in the same way.  A message is validated before the
\* first message embedded in it is processed, so that each step lists the
\* messages to validate and the one to process.
RECURSIVE Steps(_)
Steps(m) ==
  LET inner == FlattenSeq([i \in DOMAIN Embedded(m) |-> Steps(Embedded(m)[i])])
      first == [inner[1] EXCEPT !.validate = <<m>> \o @]
  IN  IF inner = <<>> THEN <<[validate |-> <<m>>, process |-> m]>>
      ELSE <<first>> \o Tail(inner) \o <<[validate |-> <<>>, process |-> m]>>

\* Processing the message changes nothing, now or later.
Old(s, m) ==
  CASE m.type = "Request"       -> m.seq <= s.captured[m.client]
    [] m.type = "ReqViewChange" -> FALSE
    [] OTHER                    -> m.cv <= s.lastUI[m.replica]

\* One step.  An error or panic ends the handling of the message.
HandleStep(s, step, own, order) ==
  IF Stopped(s) THEN s
  ELSE IF ~own /\ \E i \in DOMAIN step.validate : ~ValidateMessage(step.validate[i])
       THEN Fail(s)
  ELSE ProcessMessage(s, step.process, order)

\* The steps todo up to, and without, the second one that changes something,
\* or all of them: the next state, and the number of steps done.
HandleSteps(s, todo, own, order, all) ==
  LET handle(h, step) ==
        LET new == ~Old(h.state, step.process)
        IN  IF h.pause \/ (new /\ h.worked /\ ~Stopped(h.state))
            THEN [h EXCEPT !.pause = TRUE]
            ELSE [h EXCEPT !.state = HandleStep(@, step, own, order),
                           !.done = @ + 1,
                           !.worked = (@ \/ new) /\ ~all]
  IN  FoldLeft(handle, [state |-> s, done |-> 0, worked |-> FALSE, pause |-> FALSE], todo)

=============================================================================
