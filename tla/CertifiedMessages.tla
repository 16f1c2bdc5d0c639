-------------------------- MODULE CertifiedMessages --------------------------
(***************************************************************************)
(* Certified messages from the replica that generates them to those that   *)
(* accept them: module Wire for what is sent, module Usig for the UIs that *)
(* certify it, and what package core does in between.                      *)
(*                                                                         *)
(* A replica generates a Prepare, Commit, ViewChange or NewView, has its   *)
(* USIG instance certify the authenticated bytes and appends the message   *)
(* to its log, from which it is sent.  A replica that receives a message   *)
(* verifies its UI, validates it, and does the same with the messages      *)
(* embedded in it before it processes it.  When messages are generated and *)
(* what becomes of them is the subject of module Replica; here a replica   *)
(* may generate whatever its log and what it has accepted allow.           *)
(*                                                                         *)
(* A replica that restarts has lost its log and what it accepted, and may  *)
(* thus generate other messages with counter values it has used before.    *)
(***************************************************************************)
EXTENDS Wire, FiniteSets, SequencesExt

CONSTANTS Requests,     \* signed requests of the clients
          MaxUIs,       \* bound: UIs of all instances
          Signature,    \* a valid signature
          Result,       \* result of an operation
          CertSize,     \* view-change certificate size
          NoMessage

VARIABLES log,          \* log[r]: certified messages since r entered its view
          certifying,   \* certifying[r][t]: message being certified
          generated,    \* all messages that were sent
          verifying,    \* verifying[v][t]: message being verified
          received      \* received[v]: messages that v has found valid

messageVars == <<log, certifying, generated, verifying, received>>
vars == <<usigVars, messageVars>>

N == Cardinality(Replica)
IsPrimary(view, r) == r = view % N

Init ==
  /\ UsigInit
  /\ log = [r \in Replica |-> <<>>]
  /\ certifying = [r \in Replica |-> [t \in Thread |-> NoMessage]]
  /\ generated = {}
  /\ verifying = [r \in Replica |-> [t \in Thread |-> NoMessage]]
  /\ received = [r \in Replica |-> {}]

Keys == GenerateKeys /\ UNCHANGED messageVars

Idle(r, t) == certifying[r][t] = NoMessage /\ verifying[r][t] = NoMessage

\* A call into the enclave and a verification read and change the state of their
\* replica only, so that it makes no difference what the other replicas do in
\* the meantime: they wait.  The goroutines of the replica itself do not.
Quiet(r) == \A q \in Replica \ {r}, t \in Thread : Idle(q, t)

\* A process starts and greets the others.
Start(r) ==
  /\ Quiet(r)
  /\ NewUSIG(r)
  /\ generated' = generated \cup {NewHello(r)}
  /\ log' = [log EXCEPT ![r] = <<>>]
  /\ received' = [received EXCEPT ![r] = {}]
  /\ UNCHANGED <<certifying, verifying>>

Stop(r) ==
  /\ Crash(r)
  /\ certifying' = [certifying EXCEPT ![r] = [t \in Thread |-> NoMessage]]
  /\ verifying' = [verifying EXCEPT ![r] = [t \in Thread |-> NoMessage]]
  /\ UNCHANGED <<log, generated, received>>

-----------------------------------------------------------------------------
\* Generated messages

\* The view that a replica is in, or on its way to: what its log starts with
\* stands for the view state.
LogView(r) ==
  IF log[r] # <<>> /\ log[r][1].pb.type \in {"ViewChange", "NewView"}
  THEN log[r][1].pb.newView ELSE 0

\* handleGeneratedMessage takes the lock over UIs and asks for a UI.  It holds
\* the lock until the message is in the log, as long as the call lasts here.
AssignUI(r, t, m) ==
  /\ Quiet(r) /\ Idle(r, t)
  /\ Cardinality(issued) < MaxUIs
  /\ CreateUI(r, t, AuthenBytes(m))
  /\ certifying' = [certifying EXCEPT ![r][t] = m]
  /\ UNCHANGED <<generated, verifying, received>>

\* The primary of a view that it has entered prepares a request...
Prepare(r, t) ==
  /\ IsPrimary(LogView(r), r)
  /\ log[r] # <<>> => log[r][1].pb.type # "ViewChange"
  /\ \E req \in Requests :
       /\ \A i \in DOMAIN log[r] : req \notin Range(log[r][i].embedded)
       /\ AssignUI(r, t, NewPrepare(r, LogView(r), req))
  /\ UNCHANGED log

\* ... a backup commits to a proposal for the view...
Commit(r, t) ==
  /\ \E prop \in received[r] :
       /\ prop.pb.type \in {"Prepare", "NewView"} /\ prop.pb.replicaId # r
       /\ LogView(r) = IF prop.pb.type = "Prepare" THEN prop.pb.view
                       ELSE prop.pb.newView
       /\ \A i \in DOMAIN log[r] : prop \notin Range(log[r][i].embedded)
       /\ AssignUI(r, t, NewCommit(r, prop))
  /\ UNCHANGED log

\* A quorum of signed ReqViewChanges; which replicas it is of does not matter.
VCCert(newView) ==
  LET requesters == SetToSeq(CHOOSE q \in SUBSET Replica : Cardinality(q) = CertSize)
  IN  [i \in 1..CertSize |->
         SetSignature(NewReqViewChange(requesters[i], newView), Signature)]

\* ... a replica leaves the view, with what it has certified in it...
LeaveView(r, t) ==
  /\ AssignUI(r, t, NewViewChange(r, LogView(r) + 1, log[r], VCCert(LogView(r) + 1)))
  /\ log' = [log EXCEPT ![r] = <<>>]

\* ... and the primary of the next one announces it.
AnnounceView(r, t) ==
  /\ log[r] # <<>> /\ log[r][1].pb.type = "ViewChange"
  /\ IsPrimary(LogView(r), r)
  /\ \E others \in SUBSET received[r] :
       /\ Cardinality(others) = CertSize - 1
       /\ \A vc \in others : /\ vc.pb.type = "ViewChange" /\ vc.pb.replicaId # r
                             /\ vc.pb.newView = LogView(r)
       /\ AssignUI(r, t, NewNewView(r, LogView(r), <<log[r][1]>> \o SetToSeq(others)))
  /\ log' = [log EXCEPT ![r] = <<>>]

\* The UI is attached and the message goes to the log.
Certified(r, t) ==
  /\ certifying[r][t] # NoMessage
  /\ ReturnUI(r, t)
  /\ \E s \in issued' \ issued :
       LET m == SetUI(certifying[r][t], UnmarshalUI(MarshalUI(UIOf(s))))
       IN  /\ log' = [log EXCEPT ![r] = Append(@, m)]
           /\ generated' = generated \cup {m}
  /\ certifying' = [certifying EXCEPT ![r][t] = NoMessage]
  /\ UNCHANGED <<verifying, received>>

-----------------------------------------------------------------------------
\* Received messages

\* Mutant: the log may start anywhere.
ValidEndOfLog(vc) ==
  LET log_ == vc.embedded
      first == vc.ui.counter - Len(log_)
  IN  \A i \in DOMAIN log_ :
        /\ log_[i].pb.replicaId = vc.pb.replicaId
        /\ log_[i].ui.counter = first + i - 1
        /\ log_[i].pb.type \in {"ViewChange", "NewView"}
             => i = 1 /\ log_[i].pb.newView = vc.pb.newView - 1

\* validateMessageLog: nothing is missing from the log of a ViewChange.
ValidMessageLog(vc) ==
  LET log_ == vc.embedded
      first == vc.ui.counter - Len(log_)
  IN  /\ \A i \in DOMAIN log_ :
           /\ log_[i].pb.replicaId = vc.pb.replicaId
           /\ log_[i].ui.counter = first + i - 1
           /\ log_[i].pb.type \in {"ViewChange", "NewView"}
                => i = 1 /\ log_[i].pb.newView = vc.pb.newView - 1
      /\ IF log_ # <<>> /\ log_[1].pb.type \in {"ViewChange", "NewView"}
         THEN TRUE ELSE first = 1 /\ vc.pb.newView = 1

\* A quorum of distinct replicas asks for the view or has left for it.
ValidCert(newView, cert) ==
  /\ Len(cert) >= CertSize
  /\ \A i \in DOMAIN cert : cert[i].pb.newView = newView
  /\ \A i, j \in DOMAIN cert : cert[i].pb.replicaId = cert[j].pb.replicaId => i = j

\* The validators, after verifyUI.  What a Commit is for is a proposal.
Valid(m) ==
  LET pb == m.pb
  IN  /\ pb.replicaId \in Replica
      /\ CASE pb.type = "Prepare" -> IsPrimary(pb.view, pb.replicaId)
           [] pb.type = "Commit" -> m.embedded[1].pb.replicaId # pb.replicaId
           [] pb.type = "ViewChange" ->
                pb.newView >= 1 /\ ValidCert(pb.newView, m.cert) /\ ValidMessageLog(m)
           [] pb.type = "NewView" ->
                /\ pb.newView >= 1 /\ IsPrimary(pb.newView, pb.replicaId)
                /\ ValidCert(pb.newView, m.embedded)
                /\ \E vc \in Range(m.embedded) : vc.pb.replicaId = pb.replicaId

EmbeddedCertified(m) == {x \in Range(m.embedded) : x.pb.type \in CertifiedTypes}

Acceptable(v, m) == Valid(m) /\ EmbeddedCertified(m) \subseteq received[v]

\* Messages that were sent, with their UI or with that of another message that
\* their replica certified with the same counter value.
Sent ==
  {SetUI(x[1], UIOf(x[2])) : x \in
     {y \in {m \in generated : m.pb.type \in CertifiedTypes} \X issued :
        y[2].key = y[1].pb.replicaId /\ y[2].counter = y[1].ui.counter}}

WithEmbedded(m, x) ==
  LET pb == m.pb
  IN  SetUI(CASE pb.type = "Prepare" -> NewPrepare(pb.replicaId, pb.view, x[1])
              [] pb.type = "Commit" -> NewCommit(pb.replicaId, x[1])
              [] pb.type = "ViewChange" ->
                   NewViewChange(pb.replicaId, pb.newView, x, m.cert)
              [] pb.type = "NewView" -> NewNewView(pb.replicaId, pb.newView, x),
            m.ui)

\* A message with its UI, of whose embedded messages one is exchanged for another
\* or is altered itself.  Of a log or a certificate one may also be missing, one
\* may have been added, or two have changed places.
RECURSIVE Altered(_, _)
Altered(m, parts) ==
  LET l == m.embedded
      Parts(types) == {x \in parts : x.pb.type \in types}
      others == CASE m.pb.type = "Prepare" -> Requests
                  [] m.pb.type = "Commit" -> Parts({"Prepare", "NewView"})
                  [] m.pb.type = "ViewChange" -> parts
                  [] m.pb.type = "NewView" -> Parts({"ViewChange"})
                  [] OTHER -> {}
      exchanged == UNION {{ReplaceAt(l, i, x) : x \in others \cup Altered(l[i], parts)} :
                            i \in DOMAIN l}
      missing == {RemoveAt(l, i) : i \in DOMAIN l}
      added == {InsertAt(l, i, x) : i \in 1..(Len(l) + 1), x \in others}
      swapped == {[l EXCEPT ![i] = l[j], ![j] = l[i]] : i, j \in DOMAIN l}
  IN  {WithEmbedded(m, x) : x \in
         exchanged \cup (IF m.pb.type \in {"ViewChange", "NewView"}
                        THEN missing \cup added \cup swapped ELSE {})}

\* What a replica may be given to verify: a message that was sent, or an altered
\* one.  Its own messages it sees embedded in those of others only.  An altered
\* message that would be refused is left out: at most its UI is accepted first,
\* as is that of the message it was made of.
Arriving(v) ==
  LET sent == {m \in Sent : m.pb.replicaId = v
                 => \E x \in generated : m \in Range(x.embedded)}
      Alterations(m) ==
        {x \in Altered(m, Sent \cup received[v]) : Acceptable(v, x)}
  IN  (sent \cup UNION {Alterations(m) : m \in sent}) \ received[v]

\* A message arrives, or is found embedded in one.  Its UI is verified first...
Receive(v, t) ==
  /\ Quiet(v) /\ Idle(v, t)
  /\ \E m \in Arriving(v) :
       LET data == MarshalBinary(m)
           msg == NewFromBinary(data)
       IN  /\ Parses(Unmarshal(data))
           /\ VerifyTag(v, t, msg.pb.replicaId, AuthenBytes(msg), MarshalUI(msg.ui))
           /\ verifying' = [verifying EXCEPT ![v][t] = msg]
  /\ UNCHANGED <<log, certifying, generated, received>>

\* A Commit completes the quorum for a request, to which the replica replies.
Replies(r, m) ==
  {SetSignature(NewReply(r, p.embedded[1].pb.clientId, p.embedded[1].pb.seq, Result),
                Signature) :
     p \in {x \in Range(m.embedded) : m.pb.type = "Commit" /\ x.pb.type = "Prepare"}}

\* ... then the message is validated, those embedded in it are handled, and it is
\* processed.
Accept(v, t) ==
  LET new == {m \in {verifying[v][t]} : Checked(checks[v][t]) /\ Acceptable(v, m)}
  IN  /\ verifying[v][t] # NoMessage
      /\ VerifyDone(v, t)
      /\ received' = [received EXCEPT ![v] = @ \cup new]
      /\ generated' = generated \cup UNION {Replies(v, m) : m \in new}
      /\ verifying' = [verifying EXCEPT ![v][t] = NoMessage]
      /\ UNCHANGED <<log, certifying>>

Next ==
  \/ Keys
  \/ \E r \in Replica : Start(r) \/ Stop(r)
  \/ \E r \in Replica, t \in Thread :
       \/ Prepare(r, t) \/ Commit(r, t) \/ LeaveView(r, t) \/ AnnounceView(r, t)
       \/ Certified(r, t)
       \/ Receive(r, t) \/ Accept(r, t)

Spec == Init /\ [][Next]_vars

-----------------------------------------------------------------------------
\* Properties

\* A message survives its way over the wire, embedded messages and UIs included,
\* and what its getters return is what was sent (NewFromBinary, SetUI).
RoundTrip ==
  [][\A m \in generated' \ generated :
       /\ NewFromBinary(MarshalBinary(m)) = m
       /\ m.pb.type \in CertifiedTypes => MessageFromAPI(m) = m.pb]_vars

\* A message with all that is embedded in it, but for the certificates of UIs
\* and for who has asked for a view change.
RECURSIVE Contents(_)
Contents(m) ==
  IF m.pb.type \in CertifiedTypes
  THEN <<m.pb.replicaId, m.ui.counter, AuthenBytes(m),
         [i \in DOMAIN m.embedded |-> Contents(m.embedded[i])]>>
  ELSE m.pb

\* Replicas that have not failed agree on the messages of a replica: a counter
\* value stands for one message with one log or new-view certificate, although
\* the UI does not certify them (AuthenBytes, "cannot be reordered, omitted, or
\* duplicated without it being detected"): the validators and the handling of
\* embedded messages notice any other (validateMessageLog, handleEmbedded).
AgreeOnMessages ==
  \A v, w \in Replica \ faulty : \A a \in received[v], b \in received[w] :
    a.pb.replicaId = b.pb.replicaId /\ a.ui.counter = b.ui.counter
      => Contents(a) = Contents(b)

=============================================================================
