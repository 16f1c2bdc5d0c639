-------------------------------- MODULE Wire --------------------------------
(***************************************************************************)
(* The representation of protocol messages: the objects of                 *)
(* messages/protobuf, the Protocol Buffers structures they wrap, what      *)
(* these are on the wire, and the bytes that authenticate a message.       *)
(*                                                                         *)
(* An object keeps a message twice: as the structure "pb" that is sent,    *)
(* and as what the getters return without looking there, the embedded      *)
(* objects, those of a certificate and the UI.  Strings of bytes are       *)
(* sequences; the empty one is the default value of its field.             *)
(***************************************************************************)
EXTENDS Integers, Sequences, Usig

Object(pb, embedded, cert, ui) ==
  [pb |-> pb, embedded |-> embedded, cert |-> cert, ui |-> ui]

CertifiedTypes == {"Prepare", "Commit", "ViewChange", "NewView"}

Pbs(objects) == [i \in DOMAIN objects |-> objects[i].pb]

-----------------------------------------------------------------------------
\* Constructors.  The structure shares those of the objects it embeds.

NewHello(r) == Object([type |-> "Hello", replicaId |-> r], <<>>, <<>>, NoUI)

NewRequest(cl, seq, op) ==
  Object([type |-> "Request", clientId |-> cl, seq |-> seq, operation |-> op,
          signature |-> <<>>], <<>>, <<>>, NoUI)

NewReply(r, cl, seq, res) ==
  Object([type |-> "Reply", replicaId |-> r, clientId |-> cl, seq |-> seq,
          result |-> res, signature |-> <<>>], <<>>, <<>>, NoUI)

NewReqViewChange(r, nv) ==
  Object([type |-> "ReqViewChange", replicaId |-> r, newView |-> nv,
          signature |-> <<>>], <<>>, <<>>, NoUI)

NewPrepare(r, v, req) ==
  Object([type |-> "Prepare", replicaId |-> r, view |-> v, request |-> req.pb,
          ui |-> <<>>], <<req>>, <<>>, NoUI)

NewCommit(r, prop) ==
  Object([type |-> "Commit", replicaId |-> r, proposal |-> prop.pb,
          ui |-> <<>>], <<prop>>, <<>>, NoUI)

NewViewChange(r, nv, log, vcCert) ==
  Object([type |-> "ViewChange", replicaId |-> r, newView |-> nv,
          log |-> Pbs(log), vcCert |-> Pbs(vcCert), ui |-> <<>>],
         log, vcCert, NoUI)

NewNewView(r, nv, nvCert) ==
  Object([type |-> "NewView", replicaId |-> r, newView |-> nv,
          nvCert |-> Pbs(nvCert), ui |-> <<>>], nvCert, <<>>, NoUI)

\* Mutant: the structure is filled before the UI is set.
SetUIOfObject(m, ui) == [m EXCEPT !.ui = ui, !.pb.ui = MarshalUI(m.ui)]

SetUI(m, ui) == [m EXCEPT !.ui = ui, !.pb.ui = MarshalUI(ui)]

SetSignature(m, signature) == [m EXCEPT !.pb.signature = signature]

-----------------------------------------------------------------------------
\* The wire

Fields ==
  [Hello |-> {"replicaId"},
   Request |-> {"clientId", "seq", "operation", "signature"},
   Reply |-> {"replicaId", "clientId", "seq", "result", "signature"},
   Prepare |-> {"replicaId", "view", "request", "ui"},
   Commit |-> {"replicaId", "proposal", "ui"},
   ReqViewChange |-> {"replicaId", "newView", "signature"},
   ViewChange |-> {"replicaId", "newView", "log", "vcCert", "ui"},
   NewView |-> {"replicaId", "newView", "nvCert", "ui"}]

DefaultValue(f) ==
  IF f \in {"replicaId", "clientId", "seq", "view", "newView"} THEN 0 ELSE <<>>

\* Maps the structures in a field of a structure.
InField(Op(_), f, value) ==
  CASE f \in {"request", "proposal"} -> Op(value)
    [] f \in {"log", "vcCert", "nvCert"} -> [i \in DOMAIN value |-> Op(value[i])]
    [] OTHER -> value

\* proto.Marshal of the structure wrapped with its type: fields that have their
\* default value are not sent.
RECURSIVE Marshal(_)
Marshal(pb) ==
  [f \in {"type"} \cup {g \in Fields[pb.type] : pb[g] # DefaultValue(g)}
     |-> InField(Marshal, f, pb[f])]

\* proto.Unmarshal: fields that were not sent get their default value.
RECURSIVE Unmarshal(_)
Unmarshal(data) ==
  [f \in {"type"} \cup Fields[data.type]
     |-> IF f \in DOMAIN data THEN InField(Unmarshal, f, data[f])
         ELSE DefaultValue(f)]

\* Whether newXFromPb makes an object of the structure.
RECURSIVE Parses(_)
Parses(pb) ==
  /\ pb.type \in CertifiedTypes => ~TooShort(pb.ui)
  /\ pb.type = "Commit"
       => Parses(pb.proposal) /\ pb.proposal.type \in CertifiedTypes
  /\ pb.type = "ViewChange"
       => \A i \in DOMAIN pb.log : Parses(pb.log[i]) /\ pb.log[i].type \in CertifiedTypes
  /\ pb.type = "NewView" => \A i \in DOMAIN pb.nvCert : Parses(pb.nvCert[i])

RECURSIVE FromPb(_)
FromPb(pb) ==
  LET Objects(pbs) == [i \in DOMAIN pbs |-> FromPb(pbs[i])]
  IN  CASE pb.type = "Prepare" ->
             Object(pb, <<FromPb(pb.request)>>, <<>>, UnmarshalUI(pb.ui))
        [] pb.type = "Commit" ->
             Object(pb, <<FromPb(pb.proposal)>>, <<>>, UnmarshalUI(pb.ui))
        [] pb.type = "ViewChange" ->
             Object(pb, Objects(pb.log), Objects(pb.vcCert), UnmarshalUI(pb.ui))
        [] pb.type = "NewView" ->
             Object(pb, Objects(pb.nvCert), <<>>, UnmarshalUI(pb.ui))
        [] OTHER -> Object(pb, <<>>, <<>>, NoUI)

MarshalBinary(m) == Marshal(m.pb)

NewFromBinary(data) == FromPb(Unmarshal(data))

\* pb.MessageFromAPI: the structure made anew from what the getters return.
RECURSIVE MessageFromAPI(_)
MessageFromAPI(m) ==
  LET Structures(objects) == [i \in DOMAIN objects |-> MessageFromAPI(objects[i])]
  IN  CASE m.pb.type = "Prepare" ->
             [m.pb EXCEPT !.request = MessageFromAPI(m.embedded[1]),
                          !.ui = MarshalUI(m.ui)]
        [] m.pb.type = "Commit" ->
             [m.pb EXCEPT !.proposal = MessageFromAPI(m.embedded[1]),
                          !.ui = MarshalUI(m.ui)]
        [] m.pb.type = "ViewChange" ->
             [m.pb EXCEPT !.log = Structures(m.embedded),
                          !.vcCert = Structures(m.cert),
                          !.ui = MarshalUI(m.ui)]
        [] m.pb.type = "NewView" ->
             [m.pb EXCEPT !.nvCert = Structures(m.embedded),
                          !.ui = MarshalUI(m.ui)]
        [] OTHER -> m.pb

-----------------------------------------------------------------------------
\* What a signature or a UI certifies of a message

UIDs(objects) ==
  [i \in DOMAIN objects |-> <<objects[i].pb.replicaId, objects[i].ui.counter>>]

ProposedRequest(request) ==
  <<request.clientId, request.seq, request.operation>>

RECURSIVE AuthenBytes(_)
AuthenBytes(m) ==
  LET pb == m.pb
  IN  CASE pb.type = "Request" -> <<"REQUEST", pb.seq, pb.operation>>
        [] pb.type = "Reply" -> <<"REPLY", pb.clientId, pb.seq, pb.result>>
        [] pb.type = "Prepare" ->
             <<"PREPARE", pb.view, ProposedRequest(pb.request)>>
        [] pb.type = "Commit" ->
             <<"COMMIT", UIDs(m.embedded), AuthenBytes(m.embedded[1])>>
        [] pb.type = "ReqViewChange" -> <<"REQ-VIEW-CHANGE", pb.newView>>
        [] pb.type = "ViewChange" -> <<"VIEW-CHANGE", pb.newView>>
        [] pb.type = "NewView" -> <<"NEW-VIEW", pb.newView, UIDs(m.embedded)>>

=============================================================================
