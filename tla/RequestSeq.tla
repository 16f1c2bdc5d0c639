----------------------------- MODULE RequestSeq -----------------------------
(***************************************************************************)
(* The request IDs of one client at one replica (clientstate/request-seq): *)
(* which ID was last captured, released, prepared and retired, and the     *)
(* handlers that wait on the condition variable for a release.             *)
(*                                                                         *)
(* A handler stands for a stream, of the client or of a replica, that      *)
(* brings the Request with some ID, alone or embedded in a Prepare.  What  *)
(* a method does while it holds the mutex is one step; Wait gives it up.   *)
(***************************************************************************)
EXTENDS Naturals, Sequences

CONSTANTS Handler,
          MaxSeq  \* bound: highest request ID

ASSUME BoundAssumption == MaxSeq \in Nat

VARIABLES pc,        \* what each handler does
          req,       \* ID of the request each handler handles
          captured, released, prepared, retired,
          processed, \* IDs for which CaptureRequestSeq answered "new", in order
          proposed,  \* IDs prepared since the last UnprepareRequestSeq
          panicked   \* an ID was prepared before captured, or retired before prepared

vars == <<pc, req, captured, released, prepared, retired, processed, proposed, panicked>>

RequestID == 1..MaxSeq

Init ==
  /\ pc = [h \in Handler |-> "idle"]
  /\ req = [h \in Handler |-> 0]
  /\ captured = 0 /\ released = 0 /\ prepared = 0 /\ retired = 0
  /\ processed = <<>>
  /\ proposed = {}
  /\ panicked = FALSE

\* A handler gets a request: captureReq is called.
Begin(h, seq) ==
  /\ pc[h] = "idle"
  /\ pc' = [pc EXCEPT ![h] = "capture"]
  /\ req' = [req EXCEPT ![h] = seq]
  /\ UNCHANGED <<captured, released, prepared, retired, processed, proposed, panicked>>

-----------------------------------------------------------------------------
\* Mutant: the ID captured last counts as new.
IsNewOrLast(seq) == seq >= captured

IsNew(seq) == seq > captured

\* Mutant: an ID that is not new is answered at once.
WaitsIfNew(seq) == IsNew(seq) /\ captured > released

\* Mutant: a new ID is captured at once.
WaitsIfOld(seq) == ~IsNew(seq) /\ seq > released

\* CaptureRequestSeq waits while the ID, or the one captured last, is in use.
Waits(seq) == IF IsNew(seq) THEN captured > released ELSE seq > released

\* One turn of the loop of CaptureRequestSeq, from Lock or a wake-up on.
Capture(h) ==
  /\ pc[h] = "capture"
  /\ \/ /\ Waits(req[h])
        /\ pc' = [pc EXCEPT ![h] = "asleep"]
        /\ UNCHANGED <<captured, processed>>
     \/ /\ ~Waits(req[h]) /\ ~IsNew(req[h])
        /\ pc' = [pc EXCEPT ![h] = "handled"]
        /\ UNCHANGED <<captured, processed>>
     \/ /\ ~Waits(req[h]) /\ IsNew(req[h])
        /\ pc' = [pc EXCEPT ![h] = "captured"]
        /\ captured' = req[h]
        /\ processed' = Append(processed, req[h])
  /\ UNCHANGED <<req, released, prepared, retired, proposed, panicked>>

\* Mutant: Signal in place of Broadcast.
Signal ==
  LET asleep == {g \in Handler : pc[g] = "asleep"}
      woken == CHOOSE g \in Handler : asleep # {} => g \in asleep
  IN  [pc EXCEPT ![woken] = IF asleep = {} THEN @ ELSE "capture"]

Broadcast == [g \in Handler |-> IF pc[g] = "asleep" THEN "capture" ELSE pc[g]]

\* The request is processed and the function returned by CaptureRequestSeq
\* called.
Release(h) ==
  /\ pc[h] = "captured"
  /\ released' = captured
  /\ pc' = [Broadcast EXCEPT ![h] = "handled"]
  /\ UNCHANGED <<req, captured, prepared, retired, processed, proposed, panicked>>

\* The request came alone, from the client or forwarded by a replica.
Finish(h) ==
  /\ pc[h] = "handled"
  /\ pc' = [pc EXCEPT ![h] = "idle"]
  /\ UNCHANGED <<req, captured, released, prepared, retired, processed, proposed, panicked>>

-----------------------------------------------------------------------------
\* PrepareRequestSeq, by the handler of a Prepare after its Request was
\* handled.
Prepare(h) ==
  LET new == req[h] > prepared
  IN  /\ pc[h] = "handled"
      /\ pc' = [pc EXCEPT ![h] = "idle"]
      /\ prepared' = IF new /\ req[h] <= captured THEN req[h] ELSE prepared
      /\ proposed' = IF new /\ req[h] <= captured THEN proposed \cup {req[h]} ELSE proposed
      /\ panicked' = (panicked \/ (new /\ req[h] > captured))
      /\ UNCHANGED <<req, captured, released, retired, processed>>

\* RetireRequestSeq, for a proposal that was prepared in this view and now has
\* its certificate.
Retire(seq) ==
  /\ seq \in proposed
  /\ seq > retired
  /\ retired' = IF seq <= prepared THEN seq ELSE retired
  /\ panicked' = (panicked \/ seq > prepared)
  /\ UNCHANGED <<pc, req, captured, released, prepared, processed, proposed>>

\* Mutant: the ID prepared last is forgotten altogether.
UnpreparedToZero == 0

\* What UnprepareRequestSeq goes back to.
Unprepared == retired

\* Mutant: proposals of the old view can still be executed.
UnprepareOnly ==
  /\ proposed # {}
  /\ prepared' = Unprepared
  /\ UNCHANGED <<pc, req, captured, released, retired, processed, proposed, panicked>>

\* UnprepareRequestSeq, at the start of a view change.
Unprepare ==
  /\ proposed # {}
  /\ prepared' = Unprepared
  /\ proposed' = {}
  /\ UNCHANGED <<pc, req, captured, released, retired, processed, panicked>>

Next ==
  \/ \E h \in Handler, seq \in RequestID : Begin(h, seq)
  \/ \E h \in Handler : Capture(h) \/ Release(h) \/ Finish(h) \/ Prepare(h)
  \/ \E seq \in RequestID : Retire(seq)
  \/ Unprepare

Spec == Init /\ [][Next]_vars

\* Each handler goes on: it is a goroutine, and processing a request ends.
Fairness == \A h \in Handler : WF_vars(Capture(h)) /\ WF_vars(Release(h))

FairSpec == Spec /\ Fairness

-----------------------------------------------------------------------------
\* Types; no ID is prepared before it is released, nor retired before it is
\* prepared (seqState).
TypeOK ==
  /\ pc \in [Handler -> {"idle", "capture", "asleep", "captured", "handled"}]
  /\ req \in [Handler -> 0..MaxSeq]
  /\ captured \in 0..MaxSeq
  /\ released \in 0..captured
  /\ prepared \in 0..released
  /\ retired \in 0..prepared
  /\ processed \in Seq(RequestID)
  /\ proposed \subseteq RequestID
  /\ panicked \in BOOLEAN

\* At most one request of the client is being processed, the one captured
\* last, so that a replica proposes and watches requests of a client one by one
\* (makeRequestProcessor).
OneOwner ==
  \A h \in Handler :
    pc[h] = "captured" => /\ req[h] = captured
                          /\ \A g \in Handler : pc[g] = "captured" => g = h

\* No request is processed twice, and later ones later, however many streams
\* bring it (CaptureRequestSeq).
ProcessedInOrder ==
  \A i, j \in 1..Len(processed) : i < j => processed[i] < processed[j]

\* A handler goes on with a request, to prepare it, only when whoever
\* processes it has finished, although that is another handler
\* (CaptureRequestSeq: "Wait until it gets released").
HandledIsReleased == \A h \in Handler : pc[h] = "handled" => req[h] <= released

\* No handler sleeps when nobody is left to wake it up (Broadcast).
NoLostWakeup ==
  (\E h \in Handler : pc[h] = "asleep") => \E g \in Handler : pc[g] = "captured"

\* The errors "Request ID not captured" and "Request ID not prepared", on which
\* the replica panics, never happen (makeRequestPreparer, makeRequestRetirer).
NeverPanics == ~panicked

\* Every handler gets its answer.
EveryHandlerReturns ==
  \A h \in Handler : pc[h] \in {"capture", "asleep"} ~> pc[h] = "handled"

=============================================================================
