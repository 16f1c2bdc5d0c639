------------------------------ MODULE Messages ------------------------------
(***************************************************************************)
(* The protocol messages of package messages, with the stateless parts of  *)
(* their handling in package core: the validators, the embedded messages   *)
(* and the requests a new-view certificate propagates.                     *)
(*                                                                         *)
(* A message is a record; a message embedded in another one is a field of  *)
(* it.  "cv" is the counter value of the USIG identifier (UI) of a         *)
(* certified message.  Signatures and UI certificates are not represented: *)
(* every message of the model was produced by the replica that it names.   *)
(***************************************************************************)
EXTENDS Naturals, Sequences, FiniteSets, SequencesExt

CONSTANTS N,  \* number of replicas
          F   \* number of tolerated faulty replicas

\* core.New refuses a configuration with n < 2f + 1.
ASSUME ConfigAssumption == N \in Nat \ {0} /\ F \in Nat /\ N >= 2 * F + 1

Replica == 0..(N - 1)

IsPrimary(view, id) == id = view % N

CommitCertSize == N - F
\* Mutant: view-change and commit certificates need not intersect.
ViewChangeCertTooSmall == N - CommitCertSize

ViewChangeCertSize == N - CommitCertSize + 1

Request(client, seq) ==
  [type |-> "Request", client |-> client, seq |-> seq]

Prepare(replica, view, request, cv) ==
  [type |-> "Prepare", replica |-> replica, view |-> view,
   request |-> request, cv |-> cv]

Commit(replica, proposal, cv) ==
  [type |-> "Commit", replica |-> replica, proposal |-> proposal, cv |-> cv]

ReqViewChange(replica, newView) ==
  [type |-> "ReqViewChange", replica |-> replica, newView |-> newView]

ViewChange(replica, newView, log, vcCert, cv) ==
  [type |-> "ViewChange", replica |-> replica, newView |-> newView,
   log |-> log, vcCert |-> vcCert, cv |-> cv]

NewView(replica, newView, nvCert, cv) ==
  [type |-> "NewView", replica |-> replica, newView |-> newView,
   nvCert |-> nvCert, cv |-> cv]

\* ReqViewChange is signed; every other peer message carries a UI.
IsCertified(m) == m.type # "ReqViewChange"

\* The view a proposal, a Prepare or a NewView, belongs to.
ProposalView(prop) == IF prop.type = "Prepare" THEN prop.view ELSE prop.newView

\* The proposal that a commitment, a proposal itself or a Commit, is for.
Proposal(m) == IF m.type = "Commit" THEN m.proposal ELSE m

-----------------------------------------------------------------------------
\* Validation of what a peer sent

Distinct(cert) ==
  \A i, j \in DOMAIN cert : cert[i].replica = cert[j].replica => i = j

\* A quorum of distinct replicas asks for newView.
ValidateViewChangeCert(newView, cert) ==
  /\ Len(cert) >= ViewChangeCertSize
  /\ \A i \in DOMAIN cert : cert[i].newView = newView
  /\ Distinct(cert)

\* A quorum of distinct replicas, the new primary among them, has left for
\* newView.
ValidateNewViewCert(newPrimary, newView, cert) ==
  /\ Len(cert) >= ViewChangeCertSize
  /\ \A i \in DOMAIN cert : cert[i].newView = newView
  /\ Distinct(cert)
  /\ \E i \in DOMAIN cert : cert[i].replica = newPrimary

\* The log holds all that the replica certified since it left the view
\* before: its counters run up to nextCV without a gap, and it starts with
\* the message that opened the view, or with counter 1 in view 0.
ValidateMessageLog(replica, view, log, nextCV) ==
  /\ log = <<>> => view = 0 /\ nextCV = 1
  /\ \A i \in DOMAIN log :
        /\ log[i].replica = replica
        /\ log[i].cv + 1 + (Len(log) - i) = nextCV
        /\ IF log[i].type \in {"ViewChange", "NewView"}
           THEN log[i].newView = view /\ i = 1
           ELSE i = 1 => view = 0 /\ log[i].cv = 1

ValidatePrepare(m) == IsPrimary(m.view, m.replica)

ValidateCommit(m) == m.replica # m.proposal.replica

ValidateReqViewChange(m) == m.newView >= 1

ValidateViewChange(m) ==
  /\ m.newView >= 1
  /\ ValidateViewChangeCert(m.newView, m.vcCert)
  /\ ValidateMessageLog(m.replica, m.newView - 1, m.log, m.cv)

ValidateNewView(m) ==
  /\ m.newView >= 1
  /\ IsPrimary(m.newView, m.replica)
  /\ ValidateNewViewCert(m.replica, m.newView, m.nvCert)

ValidateMessage(m) ==
  CASE m.type = "Request"       -> TRUE
    [] m.type = "Prepare"       -> ValidatePrepare(m)
    [] m.type = "Commit"        -> ValidateCommit(m)
    [] m.type = "ReqViewChange" -> ValidateReqViewChange(m)
    [] m.type = "ViewChange"    -> ValidateViewChange(m)
    [] m.type = "NewView"       -> ValidateNewView(m)

\* Mutant: the log of a ViewChange is not handled.
EmbeddedWithoutLog(m) ==
  CASE m.type \in {"Request", "ReqViewChange"} -> <<>>
    [] m.type = "Prepare"    -> <<m.request>>
    [] m.type = "Commit"     -> <<m.proposal>>
    [] m.type = "ViewChange" -> m.vcCert
    [] m.type = "NewView"    -> m.nvCert

\* The messages handled before m itself, in the order they are handled.
Embedded(m) ==
  CASE m.type \in {"Request", "ReqViewChange"} -> <<>>
    [] m.type = "Prepare"    -> <<m.request>>
    [] m.type = "Commit"     -> <<m.proposal>>
    [] m.type = "ViewChange" -> m.vcCert \o m.log
    [] m.type = "NewView"    -> m.nvCert

-----------------------------------------------------------------------------
\* The requests a new-view certificate propagates into the new view

LeadsWithViewChange(vc) == vc.log # <<>> /\ vc.log[1].type = "ViewChange"

\* The log of a ViewChange without the leading ViewChange message.
ViewLog(vc) == IF LeadsWithViewChange(vc) THEN Tail(vc.log) ELSE vc.log

\* Mutant: the first log, which is that of the new primary.
FirstLog(nvCert) == ViewLog(nvCert[1])

\* The first of the longest logs.
MaxLog(nvCert) ==
  LET log(i) == ViewLog(nvCert[i])
      i == CHOOSE i \in DOMAIN nvCert :
             \A j \in DOMAIN nvCert :
                \/ Len(log(j)) < Len(log(i))
                \/ Len(log(j)) = Len(log(i)) /\ i <= j
  IN  log(i)

\* Mutant: no descent into the view before.
NoLeadingViewChanges(nvCert) == <<>>

\* The ViewChange messages that lead the logs: those for the view before.
LeadingViewChanges(nvCert) ==
  LET led == SelectSeq(nvCert, LeadsWithViewChange)
  IN  [i \in DOMAIN led |-> led[i].log[1]]

RECURSIVE ExtractPreparedRequests(_)
ExtractPreparedRequests(nvCert) ==
  LET maxLog == MaxLog(nvCert)
      vcs    == LeadingViewChanges(nvCert)
      Extend(prepared, m) ==
        IF Proposal(m).type = "Prepare"
        THEN Append(prepared, Proposal(m).request)
        ELSE ExtractPreparedRequests(Proposal(m).nvCert)
  IN  IF maxLog = <<>> /\ vcs # <<>>
      THEN ExtractPreparedRequests(vcs)
      ELSE FoldLeft(Extend, <<>>, maxLog)

=============================================================================
