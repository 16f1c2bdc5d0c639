------------------------------- MODULE MinBFT -------------------------------
(***************************************************************************)
(* N replicas that run the handlers of module Replica, the message streams *)
(* between them, and the clients.                                          *)
(*                                                                         *)
(* Processing one message is one step: a client request, a message of a    *)
(* stream or a message embedded in one; so is one timer callback.  Between *)
(* the messages embedded in one another the other streams, the timers and  *)
(* the clients of the replica go on.                                       *)
(*                                                                         *)
(* A replica streams its message log to every replica, itself included     *)
(* (handleOwnPeerMessages).  A stream delivers the log in order.  When the *)
(* log is reset, a message that was not yet sent is lost to the stream,    *)
(* which goes on with the start of the new log; messages in flight still   *)
(* arrive.  A replica that never takes another step stands for one that    *)
(* crashed: nothing is persistent and there is no restart.                 *)
(***************************************************************************)
EXTENDS Replica, StreamOps

CONSTANTS Restarting,  \* clients that may restart: they do not wait for replies
          MaxSeq,      \* bound: requests per client
          MaxView,     \* bound: highest view a replica requests
          Correct,     \* replicas that do not crash (for liveness)
          Contacted,   \* bound: replicas each client's requests reach directly
          Suspecting,  \* bound: replicas whose timers may expire
          Cut,         \* bound: pairs of replicas whose stream delivers nothing
          Prompt,      \* bound: replicas that let no own message wait
          Atomic       \* bound: replicas that handle a message in one step

ASSUME ClientAssumption == Restarting \subseteq Client
ASSUME BoundAssumption ==
  /\ MaxSeq \in Nat /\ MaxView \in Nat
  /\ Contacted \in [Client -> SUBSET Replica]
  /\ Suspecting \subseteq Replica /\ Prompt \subseteq Replica
  /\ Atomic \subseteq Replica
  /\ Cut \subseteq Replica \X Replica
ASSUME CorrectAssumption ==
  Correct \subseteq Replica /\ Cardinality(Replica \ Correct) <= F

VARIABLES rep,     \* state of each replica
          pos,     \* pos[r][q]: index in rep[q].sent last delivered to r
          steps,   \* steps[r][q]: steps of handling it done, or 0 if all are
          closed,  \* closed[r]: replicas whose stream r has given up
          issued   \* last request ID of each client

vars == <<rep, pos, steps, closed, issued>>

Init ==
  /\ rep = [r \in Replica |-> InitReplica(r)]
  /\ pos = [r \in Replica |-> [q \in Replica |-> 0]]
  /\ steps = [r \in Replica |-> [q \in Replica |-> 0]]
  /\ closed = [r \in Replica |-> {}]
  /\ issued = [c \in Client |-> 0]

\* Indices in rep[q].sent of the message that r handles, or may take next.
NextInStream(r, q) ==
  IF steps[r][q] # 0 THEN {pos[r][q]}
  ELSE NextDelivered(pos[r][q], rep[q].logStarts, Len(rep[q].sent))

\* The replica runs and, if the bound says so, has handled its own messages.
Ready(r) ==
  /\ ~rep[r].panicked
  /\ r \in Prompt => NextInStream(r, r) = {}

-----------------------------------------------------------------------------
\* Clients

\* A client has its result when F + 1 replicas executed its request.
Accepted(c) ==
  Cardinality({r \in Replica : rep[r].retired[c] >= issued[c]}) >= F + 1

\* A client sends one request at a time, unless it restarts.
NewRequest(c) ==
  /\ issued[c] < MaxSeq
  /\ Accepted(c) \/ c \in Restarting
  /\ issued' = [issued EXCEPT ![c] = @ + 1]
  /\ UNCHANGED <<rep, pos, steps, closed>>

-----------------------------------------------------------------------------
\* Replicas

\* A Request arrives from the client, or from the backup whose prepare timer
\* expired.  One with an ID captured before changes nothing.
ReceiveRequest(r, c, seq) ==
  /\ r \in Contacted[c] /\ Ready(r)
  /\ seq \in (rep[r].captured[c] + 1)..issued[c]
  /\ rep' = [rep EXCEPT ![r] = ProcessRequest(@, Request(c, seq))]
  /\ UNCHANGED <<pos, steps, closed, issued>>

\* A replica that fails to handle a message of its own panics; one that fails
\* to handle a message of a peer leaves that stream for good.  A step skips old
\* messages up to one that is not.
HandleStream(r, q, order) ==
  /\ IF r = q THEN ~rep[r].panicked ELSE Ready(r)
  /\ q \notin closed[r] /\ <<r, q>> \notin Cut
  /\ \E i \in NextInStream(r, q) :
       \E todo \in {Steps(rep[q].sent[i])} :
       \E h \in {HandleSteps(rep[r], SubSeq(todo, steps[r][q] + 1, Len(todo)),
                             r = q, order, r \in Atomic)} :
         LET t    == h.state
             done == steps[r][q] + h.done
         IN  /\ pos' = [pos EXCEPT ![r][q] = i]
             /\ steps' = [steps EXCEPT ![r][q] = IF done = Len(todo) THEN 0 ELSE done]
             /\ rep' = [rep EXCEPT ![r] =
                          [t EXCEPT !.failed = FALSE,
                                    !.panicked = @ \/ (t.failed /\ r = q)]]
             /\ closed' = IF t.failed /\ r # q
                          THEN [closed EXCEPT ![r] = @ \cup {q}]
                          ELSE closed
  /\ UNCHANGED issued

\* The callback of a timer that was ever started runs.
Timeout(r, view) ==
  /\ r \in Suspecting /\ Ready(r)
  /\ rep[r].requested < view + 1
  /\ view + 1 <= MaxView
  /\ rep' = [rep EXCEPT ![r] = RequestViewChange(@, view + 1)]
  /\ UNCHANGED <<pos, steps, closed, issued>>

RequestTimeout(r, view) == view \in rep[r].reqTimerViews /\ Timeout(r, view)

ViewChangeTimeout(r, view) == view \in rep[r].vcTimerViews /\ Timeout(r, view)

Orders == SetToSeqs(Client)

Next ==
  \/ \E c \in Client : NewRequest(c)
  \/ \E r \in Replica, c \in Client, seq \in 1..MaxSeq : ReceiveRequest(r, c, seq)
  \/ \E r, q \in Replica, order \in Orders : HandleStream(r, q, order)
  \/ \E r \in Replica, view \in 0..MaxView : RequestTimeout(r, view)
  \/ \E r \in Replica, view \in 0..MaxView : ViewChangeTimeout(r, view)

Spec == Init /\ [][Next]_vars

\* When a stream step and when a timeout of a running timer are possible.
CanHandle(r, q) ==
  /\ ~rep[r].panicked /\ (r = q \/ Ready(r))
  /\ q \notin closed[r] /\ <<r, q>> \notin Cut
  /\ NextInStream(r, q) # {}

CanReceive(r, c) ==
  r \in Contacted[c] /\ Ready(r) /\ rep[r].captured[c] < issued[c]

TimerExpires(r, view) ==
  /\ \/ \E c \in Client : /\ rep[r].reqTimers[c].seq # 0
                          /\ rep[r].reqTimers[c].view = view
     \/ rep[r].vcTimer # 0 /\ rep[r].vcTimer = view
  /\ rep[r].requested < view + 1 /\ view < MaxView
  /\ r \in Suspecting /\ Ready(r)

\* The Go scheduler and the network serve every stream and every running
\* timer of a replica that does not crash; nothing is assumed of the others.
\* This is weak fairness of the three kinds of steps, said by what only those
\* steps change: pos[r][q] and steps[r][q], captured and requested.
Fairness ==
  \A r \in Correct :
    /\ \A q \in Correct :
         []<>~CanHandle(r, q)
           \/ []<><<<<pos'[r][q], steps'[r][q]>> # <<pos[r][q], steps[r][q]>>>>_vars
    /\ \A c \in Client :
         []<>~CanReceive(r, c)
           \/ []<><<rep'[r].captured[c] # rep[r].captured[c]>>_vars
    /\ \A view \in 0..MaxView :
         []<>~TimerExpires(r, view)
           \/ []<><<rep'[r].requested # rep[r].requested>>_vars

FairSpec == Spec /\ Fairness

-----------------------------------------------------------------------------
\* Properties

\* Bounds of the views; the request IDs of a client a replica has captured,
\* prepared and retired follow each other (clientstate), and streams send what was
\* sent.
TypeOK ==
  /\ \A r \in Replica :
       /\ rep[r].currentView \in 0..MaxView /\ rep[r].expectedView \in 0..MaxView
       /\ \A c \in Client : /\ rep[r].retired[c] <= rep[r].prepared[c]
                            /\ rep[r].prepared[c] <= rep[r].captured[c]
                            /\ rep[r].captured[c] <= issued[c]
       /\ closed[r] \subseteq Replica \ {r}
  /\ \A r, q \in Replica : pos[r][q] <= Len(rep[q].sent)

\* All replicas deliver the same requests to the request consumer, in the
\* same order (core/commit.go, core/new-view.go), whatever views they do it in.
Agreement ==
  \A r, q \in Replica : \/ IsPrefix(rep[r].executed, rep[q].executed)
                        \/ IsPrefix(rep[q].executed, rep[r].executed)

\* No request is executed twice, however many views propose it
\* (makeRequestExecutor).
ExecutedOnce ==
  \A r \in Replica : IsInjective(rep[r].executed)

\* The NewView of a primary propagates, in order, all that any replica has
\* executed or will ever execute in an earlier view (extractPreparedRequests).
NewViewsPreserve ==
  \A p, r \in Replica : \A i \in DOMAIN rep[p].sent :
    LET nv == rep[p].sent[i]
    IN  nv.type = "NewView" /\ rep[r].currentView < nv.newView
          => IsPrefix(rep[r].executed, ExtractPreparedRequests(nv.nvCert))

\* The view-change timer does not outlast a NewView that was received: once
\* the replica moved into a view, no timer for this or an earlier view runs
\* (api/api.go: the timeout "stops when receives a valid NEW-VIEW").
ViewChangeTimerStops ==
  \A r \in Replica : rep[r].vcTimer # 0 => rep[r].vcTimer > rep[r].currentView

\* Correct replicas never give each other an error to handle: no stream
\* between them is closed and none fails on its own message, although resets
\* of the log drop messages from the streams (core/message-handling.go).  The
\* one exception follows a NewView that a replica enters without applying it,
\* see ViewChangeTimerStops: that replica later closes the primary's stream.
NoHandlerError ==
  ViewChangeTimerStops => \A r \in Replica : closed[r] = {} /\ ~rep[r].panicked

\* In its active view a replica watches over each request that it captured
\* and that is not prepared: a request timer for this view is running, or the
\* next view is already requested (makeRequestApplier).
RequestsWatched ==
  \A r \in Replica, c \in Client :
    LET s == rep[r]
    IN  /\ s.currentView = s.expectedView
        /\ s.captured[c] > s.prepared[c]
        => \/ s.reqTimers[c] = [seq |-> s.captured[c], view |-> s.currentView]
           \/ s.requested > s.currentView

\* A replica never panics: it can handle each message of its own and each
\* proposed request is captured before it is prepared and prepared before it
\* is retired (handleOwnPeerMessages, makeRequestPreparer, makeRequestRetirer).
NoPanic == \A r \in Replica : ~rep[r].panicked

\* The request of a client that a replica has captured last is neither prepared
\* nor in its list of pending requests (makeRequestUnpreparer).
Forgotten(r, c) ==
  /\ rep[r].captured[c] > rep[r].prepared[c]
  /\ rep[r].pendingReqs[c] # rep[r].captured[c]

\* A request that a client issued, or a later one of the client, is executed by
\* every correct replica, also when the primary stops at any point, as long as
\* the timers of the last view do not expire (MaxView): the backups' request
\* timers lead to a new view, whose primary proposes what is pending
\* (applyPendingReqs).  The one exception is a client whose request a correct
\* replica has forgotten for good: unpreparing an earlier request of the client
\* overwrites it in the list of pending requests, see RequestsWatched.
RequestsExecuted ==
  \A c \in Client, seq \in 1..MaxSeq :
    \/ issued[c] >= seq ~> \A r \in Correct : rep[r].retired[c] >= seq
    \/ \E r \in Correct : <>[]Forgotten(r, c)

=============================================================================
