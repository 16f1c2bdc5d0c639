----------------------------- MODULE UsigProofs -----------------------------
(***************************************************************************)
(* Proofs for module Usig: identifiers are unique and sequential, and the  *)
(* replicas that have not failed agree on one USIG instance per replica,   *)
(* for any number of replicas, goroutines, messages and restarts.          *)
(***************************************************************************)
EXTENDS Usig, TLAPS

Sig == [key : Replica, digest : Digest, epoch : Epoch, counter : Nat \ {0}]

\* What calls sign, what is being verified and what was accepted are UIs of the
\* replicas, and counters start with one.
TypeOK ==
  /\ keystore \subseteq Replica /\ faulty \subseteq Replica
  /\ drawn \subseteq Epoch
  /\ enclave \in [Replica -> [initialized : BOOLEAN, epoch : Epoch \cup {None},
                              counter : Nat \ {0}]]
  /\ ecalls \in [Replica -> [Thread ->
                   {NoCall} \cup [digest : Digest, counter : Nat \ {0}]]]
  /\ issued \subseteq Sig
  /\ captured \in [Replica -> [Replica -> Epoch \cup {None}]]
  /\ checks \in [Replica -> [Thread ->
                   {NoCheck} \cup [replica : Replica, digest : Digest,
                                   ui : {UIOf(s) : s \in Sig}, epoch : Epoch]]]
  /\ accepted \in [Replica -> SUBSET [replica : Replica, counter : Nat,
                                      digest : Digest]]

\* The instance of a replica has an epoch of its own, has used exactly the
\* counter values below its counter, and signs at most one message at a time.
EnclaveInv ==
  /\ \A s \in issued : s.epoch \in drawn
  /\ \A r \in Replica : enclave[r].initialized =>
       /\ enclave[r].epoch \in drawn
       /\ \A s \in issued : s.epoch = enclave[r].epoch
            => s.key = r /\ s.counter < enclave[r].counter
       /\ \A c \in 1..(enclave[r].counter - 1) : \E u \in issued :
            u.key = r /\ u.epoch = enclave[r].epoch /\ u.counter = c
  /\ \A r, q \in Replica :
       /\ enclave[r].initialized /\ enclave[q].initialized
       /\ enclave[r].epoch = enclave[q].epoch
       => r = q
  /\ \A r \in Replica : \A t \in Thread : ecalls[r][t] # NoCall =>
       /\ enclave[r].initialized
       /\ ecalls[r][t].counter = enclave[r].counter
       /\ \A x \in Thread \ {t} : ecalls[r][x] = NoCall

\* The UIs of a replica of which some correct replica has captured no epoch.
OneEpoch(r) ==
  /\ \A s, u \in issued : s.key = r /\ u.key = r => s.epoch = u.epoch
  /\ enclave[r].initialized
       => \A s \in issued : s.key = r => s.epoch = enclave[r].epoch

\* Captured epochs are those of UIs, and correct replicas agree on them.
CaptureInv ==
  /\ \A v, r \in Replica : captured[v][r] # None
       => \E s \in issued : s.key = r /\ s.epoch = captured[v][r]
  /\ \A v \in Replica \ faulty : \A r \in Replica :
       captured[v][r] = None => OneEpoch(r)
  /\ \A v, w \in Replica \ faulty : \A r \in Replica :
       captured[v][r] # None /\ captured[w][r] # None
         => captured[v][r] = captured[w][r]
  /\ \A r \in Replica \ faulty : ~enclave[r].initialized
       => /\ \A s \in issued : s.key # r
          /\ \A q \in Replica : captured[r][q] = None

\* A verification works on a UI that was issued and, since it has the lock,
\* with the epoch that is still the captured one.
CheckOf(v) ==
  \A t \in Thread : checks[v][t] # NoCheck =>
    /\ enclave[v].initialized
    /\ \A x \in Thread \ {t} : checks[v][x] = NoCheck
    /\ \E s \in issued :
         /\ checks[v][t].replica = s.key
         /\ checks[v][t].ui = UIOf(s)
         /\ checks[v][t].epoch = IF captured[v][s.key] # None
                                 THEN captured[v][s.key] ELSE s.epoch

CheckInv == \A v \in Replica : CheckOf(v)

\* What was accepted was issued by the instance with the captured epoch.
AcceptInv ==
  \A v \in Replica : \A a \in accepted[v] : \E s \in issued :
    /\ a.replica = s.key /\ a.counter = s.counter /\ a.digest = s.digest
    /\ captured[v][s.key] = s.epoch

Inv == /\ TypeOK /\ SequentialUIs /\ EnclaveInv
       /\ CaptureInv /\ CheckInv /\ AcceptInv

-----------------------------------------------------------------------------

\* Unmarshalling a UI gives the UI that was marshalled.
LEMMA UIRoundTrip ==
  ASSUME NEW s \in Sig
  PROVE  /\ UnmarshalUI(MarshalUI(UIOf(s))) = UIOf(s)
         /\ ~TooShort(MarshalUI(UIOf(s)))
         /\ CertEpoch(UIOf(s).cert) = s.epoch
         /\ CertSignature(UIOf(s).cert) = s
         /\ UIOf(s).counter = s.counter
BY DEF UIOf, MakeCert, MarshalUI, UnmarshalUI, TooShort, CertEpoch, CertSignature

\* Types are kept.
LEMMA TypeStep == TypeOK /\ EnclaveInv /\ [UsigNext]_usigVars => TypeOK'
<1> SUFFICES ASSUME TypeOK, EnclaveInv, [UsigNext]_usigVars PROVE TypeOK'
  OBVIOUS
<1> USE UsigAssumption DEF TypeOK
<1>1. CASE GenerateKeys
  BY <1>1 DEF GenerateKeys, authenVars
<1>2. ASSUME NEW r \in Replica, NewUSIG(r) PROVE TypeOK'
  BY <1>2 DEF NewUSIG, Initialized, NothingCaptured
<1>3. ASSUME NEW r \in Replica, Crash(r) PROVE TypeOK'
  BY <1>3 DEF Crash, Destroyed
<1>4. ASSUME NEW r \in Replica, NEW t \in Thread, NEW digest \in Digest,
             CreateUI(r, t, digest)
      PROVE  TypeOK'
  BY <1>4 DEF CreateUI, authenVars
<1>5. ASSUME NEW r \in Replica, NEW t \in Thread, ReturnUI(r, t) PROVE TypeOK'
  <2>1. ecalls[r][t] \in [digest : Digest, counter : Nat \ {0}]
    BY <1>5 DEF ReturnUI
  <2>2. Sign(r, ecalls[r][t].digest, enclave[r].epoch, ecalls[r][t].counter) \in Sig
    <3>1. enclave[r].epoch \in Epoch
      BY <1>5 DEF ReturnUI, EnclaveInv
    <3>2. QED
      BY <2>1, <3>1 DEF Sign, Sig
  <2>3. enclave' \in [Replica -> [initialized : BOOLEAN, epoch : Epoch \cup {None}, counter : Nat \ {0}]]
    <3>1. enclave[r].counter + 1 \in Nat \ {0}
      OBVIOUS
    <3>2. enclave' = [enclave EXCEPT ![r] =
                        [enclave[r] EXCEPT !.counter = enclave[r].counter + 1]]
      BY <1>5 DEF ReturnUI, NextCounter
    <3>3. [enclave[r] EXCEPT !.counter = enclave[r].counter + 1]
            \in [initialized : BOOLEAN, epoch : Epoch \cup {None}, counter : Nat \ {0}]
      BY <3>1, ZenonT(30)
    <3>4. QED
      BY <3>2, <3>3
  <2>4. QED
    BY <1>5, <2>2, <2>3 DEF ReturnUI, authenVars
<1>6. ASSUME NEW v \in Replica, NEW t \in Thread, NEW s \in issued, NEW digest \in Digest,
             VerifyTag(v, t, s.key, digest, MarshalUI(UIOf(s)))
      PROVE  TypeOK'
  <2>1. s \in Sig /\ s.key \in Replica /\ s.epoch \in Epoch
    BY DEF Sig
  <2>2. EpochFor(v, s.key, UIOf(s)) \in Epoch
    BY <2>1, UIRoundTrip DEF EpochFor
  <2>3. [replica |-> s.key, digest |-> digest, ui |-> UIOf(s),
         epoch |-> EpochFor(v, s.key, UIOf(s))]
          \in [replica : Replica, digest : Digest, ui : {UIOf(x) : x \in Sig}, epoch : Epoch]
    BY <2>1, <2>2
  <2>4. checks' = [checks EXCEPT ![v][t] =
                     [replica |-> s.key, digest |-> digest, ui |-> UIOf(s),
                      epoch |-> EpochFor(v, s.key, UIOf(s))]]
    BY <1>6, <2>1, UIRoundTrip DEF VerifyTag
  <2>5. QED
    BY <1>6, <2>3, <2>4 DEF VerifyTag, enclaveVars
<1>7. ASSUME NEW v \in Replica, NEW t \in Thread, VerifyDone(v, t) PROVE TypeOK'
  <2> DEFINE c == checks[v][t]
  <2>1. c \in [replica : Replica, digest : Digest, ui : {UIOf(x) : x \in Sig}, epoch : Epoch]
    BY <1>7 DEF VerifyDone
  <2>2. PICK x \in Sig : c.ui = UIOf(x)
    BY <2>1
  <2>3. c.ui.counter \in Nat
    BY <2>2, UIRoundTrip DEF Sig
  <2>4. [replica |-> c.replica, counter |-> c.ui.counter, digest |-> c.digest]
          \in [replica : Replica, counter : Nat, digest : Digest]
    BY <2>1, <2>3
  <2>5. checks' = [checks EXCEPT ![v][t] = NoCheck] /\ UNCHANGED enclaveVars
    BY <1>7 DEF VerifyDone
  <2>6. CASE Checked(c)
    <3>1. /\ captured' = [captured EXCEPT ![v][c.replica] = c.epoch]
          /\ accepted' = [accepted EXCEPT ![v] = @ \cup
                {[replica |-> c.replica, counter |-> c.ui.counter, digest |-> c.digest]}]
      BY <1>7, <2>6 DEF VerifyDone
    <3>2. c.replica \in Replica /\ c.epoch \in Epoch
      BY <2>1
    <3> HIDE DEF c
    <3>3. captured' \in [Replica -> [Replica -> Epoch \cup {None}]]
      BY <3>1, <3>2
    <3>4. accepted' \in [Replica -> SUBSET [replica : Replica, counter : Nat, digest : Digest]]
      BY <3>1, <2>4
    <3>5. QED
      BY <2>5, <3>3, <3>4 DEF enclaveVars
  <2>7. CASE ~Checked(c)
    BY <1>7, <2>5, <2>7 DEF VerifyDone, enclaveVars
  <2>8. QED
    BY <2>6, <2>7
<1>8. CASE UNCHANGED usigVars
  BY <1>8 DEF usigVars, enclaveVars, authenVars
<1>9. QED
  BY <1>1, <1>2, <1>3, <1>4, <1>5, <1>6, <1>7, <1>8 DEF UsigNext

\* Where the invariant on instances has work to do: a new instance has an epoch
\* that no other had, and a call that returns has the counter to itself.
LEMMA EnclaveStep ==
  TypeOK /\ SequentialUIs /\ EnclaveInv /\ [UsigNext]_usigVars
    => SequentialUIs' /\ EnclaveInv'
<1> SUFFICES ASSUME TypeOK, SequentialUIs, EnclaveInv, [UsigNext]_usigVars
             PROVE  SequentialUIs' /\ EnclaveInv'
  OBVIOUS
<1>1. ASSUME UNCHANGED <<enclave, ecalls, drawn, issued>>
      PROVE  SequentialUIs' /\ EnclaveInv'
  BY <1>1 DEF SequentialUIs, EnclaveInv
<1>2. ASSUME NEW r \in Replica, NewUSIG(r) PROVE SequentialUIs' /\ EnclaveInv'
  <2>1. PICK epoch \in Epoch \ drawn :
          /\ enclave' = [enclave EXCEPT ![r] =
                           [initialized |-> TRUE, epoch |-> epoch, counter |-> 1]]
          /\ drawn' = drawn \cup {epoch}
          /\ ecalls' = ecalls /\ issued' = issued
    BY <1>2 DEF NewUSIG, Initialized, NothingCaptured
  <2>2. /\ enclave'[r] = [initialized |-> TRUE, epoch |-> epoch, counter |-> 1]
        /\ \A q \in Replica \ {r} : enclave'[q] = enclave[q]
    BY <2>1 DEF TypeOK
  <2>3. SequentialUIs'
    BY <2>1 DEF SequentialUIs
  <2>4. \A s \in issued' : s.epoch \in drawn'
    BY <2>1 DEF EnclaveInv
  <2>5. ASSUME NEW q \in Replica, enclave'[q].initialized
        PROVE  /\ enclave'[q].epoch \in drawn'
               /\ \A s \in issued' : s.epoch = enclave'[q].epoch
                    => s.key = q /\ s.counter < enclave'[q].counter
               /\ \A c \in 1..(enclave'[q].counter - 1) : \E u \in issued' :
                    u.key = q /\ u.epoch = enclave'[q].epoch /\ u.counter = c
    <3>1. CASE q = r
      BY <2>1, <2>2, <3>1 DEF EnclaveInv
    <3>2. CASE q # r
      BY <2>1, <2>2, <2>5, <3>2 DEF EnclaveInv
    <3>3. QED
      BY <3>1, <3>2
  <2>6. ASSUME NEW p \in Replica, NEW q \in Replica,
               enclave'[p].initialized, enclave'[q].initialized,
               enclave'[p].epoch = enclave'[q].epoch
        PROVE  p = q
    BY <2>1, <2>2, <2>6 DEF EnclaveInv
  <2>7. ASSUME NEW q \in Replica, NEW t \in Thread, ecalls'[q][t] # NoCall
        PROVE  /\ enclave'[q].initialized
               /\ ecalls'[q][t].counter = enclave'[q].counter
               /\ \A x \in Thread \ {t} : ecalls'[q][x] = NoCall
    BY <1>2, <2>1, <2>2, <2>7 DEF EnclaveInv, NewUSIG, Initialized
  <2>8. QED
    BY <2>3, <2>4, <2>5, <2>6, <2>7 DEF EnclaveInv
<1>3. ASSUME NEW r \in Replica, Crash(r) PROVE SequentialUIs' /\ EnclaveInv'
  <2>1. /\ ~enclave'[r].initialized
        /\ \A q \in Replica \ {r} : enclave'[q] = enclave[q] /\ ecalls'[q] = ecalls[q]
        /\ \A t \in Thread : ecalls'[r][t] = NoCall
        /\ issued' = issued /\ drawn' = drawn
    BY <1>3 DEF Crash, Destroyed, TypeOK
  <2>2. QED
    BY <2>1 DEF SequentialUIs, EnclaveInv
<1>4. ASSUME NEW r \in Replica, NEW t \in Thread, NEW digest \in Digest,
             CreateUI(r, t, digest)
      PROVE  SequentialUIs' /\ EnclaveInv'
  <2>1. /\ ecalls'[r][t] = [digest |-> digest, counter |-> enclave[r].counter]
        /\ \A x \in Thread \ {t} : ecalls'[r][x] = ecalls[r][x] /\ ecalls[r][x] = NoCall
        /\ \A q \in Replica \ {r} : ecalls'[q] = ecalls[q]
        /\ issued' = issued /\ drawn' = drawn /\ enclave' = enclave
        /\ enclave[r].initialized
    BY <1>4 DEF CreateUI, EcallFree, TypeOK
  <2>2. ASSUME NEW q \in Replica, NEW y \in Thread, ecalls'[q][y] # NoCall
        PROVE  /\ enclave'[q].initialized
               /\ ecalls'[q][y].counter = enclave'[q].counter
               /\ \A x \in Thread \ {y} : ecalls'[q][x] = NoCall
    BY <2>1, <2>2 DEF EnclaveInv
  <2>3. QED
    BY <2>1, <2>2 DEF SequentialUIs, EnclaveInv
<1>5. ASSUME NEW r \in Replica, NEW t \in Thread, ReturnUI(r, t)
      PROVE  SequentialUIs' /\ EnclaveInv'
  <2> DEFINE n == enclave[r].counter
             e == enclave[r].epoch
             new == Sign(r, ecalls[r][t].digest, e, ecalls[r][t].counter)
  <2>1. /\ enclave[r].initialized /\ ecalls[r][t].counter = n
        /\ \A x \in Thread \ {t} : ecalls[r][x] = NoCall
    BY <1>5 DEF ReturnUI, EnclaveInv
  <2>2. /\ n \in Nat \ {0}
        /\ new.key = r /\ new.epoch = e /\ new.counter = n
    BY <2>1 DEF Sign, TypeOK
  <2>3. /\ enclave'[r].counter = n + 1 /\ enclave'[r].epoch = e
        /\ enclave'[r].initialized
        /\ \A q \in Replica \ {r} : enclave'[q] = enclave[q] /\ ecalls'[q] = ecalls[q]
        /\ \A x \in Thread : ecalls'[r][x] = NoCall
    BY <1>5, <2>1 DEF ReturnUI, NextCounter, TypeOK
  <2>4. issued' = issued \cup {new} /\ drawn' = drawn
    BY <1>5 DEF ReturnUI
  <2>5. /\ \A s \in issued : s.epoch = e => s.key = r /\ s.counter < n
        /\ \A c \in 1..(n - 1) : \E u \in issued :
             u.key = r /\ u.epoch = e /\ u.counter = c
        /\ e \in drawn
    BY <2>1 DEF EnclaveInv
  <2>6. \A s \in issued : s.counter \in Nat
    BY DEF TypeOK, Sig
  <2> HIDE DEF new, n, e
  <2>7. SequentialUIs'
    <3>1. ASSUME NEW s \in issued', NEW u \in issued',
                 s.key = u.key, s.epoch = u.epoch, s.counter = u.counter
          PROVE  s = u
      BY <2>2, <2>4, <2>5, <2>6, <3>1 DEF SequentialUIs
    <3>2. ASSUME NEW s \in issued', NEW c \in 1..s.counter
          PROVE  \E u \in issued' :
                   u.key = s.key /\ u.epoch = s.epoch /\ u.counter = c
      <4>1. CASE s \in issued
        BY <2>4, <4>1 DEF SequentialUIs
      <4>2. CASE s = new /\ c = n
        BY <2>2, <2>4, <4>2
      <4>3. CASE s = new /\ c # n
        <5>1. c \in 1..(n - 1)
          BY <2>2, <4>3
        <5>2. QED
          BY <2>2, <2>4, <2>5, <4>3, <5>1
      <4>4. QED
        BY <2>4, <4>1, <4>2, <4>3
    <3>3. QED
      BY <3>1, <3>2 DEF SequentialUIs
  <2>8. ASSUME NEW q \in Replica, enclave'[q].initialized
        PROVE  /\ enclave'[q].epoch \in drawn'
               /\ \A s \in issued' : s.epoch = enclave'[q].epoch
                    => s.key = q /\ s.counter < enclave'[q].counter
               /\ \A c \in 1..(enclave'[q].counter - 1) : \E u \in issued' :
                    u.key = q /\ u.epoch = enclave'[q].epoch /\ u.counter = c
    <3>1. CASE q = r
      <4>1. \A s \in issued' : s.epoch = e => s.key = r /\ s.counter < n + 1
        BY <2>2, <2>4, <2>5, <2>6
      <4>2. ASSUME NEW c \in 1..n
            PROVE  \E u \in issued' : u.key = r /\ u.epoch = e /\ u.counter = c
        <5>1. c = n \/ c \in 1..(n - 1)
          BY <2>2
        <5>2. QED
          BY <2>2, <2>4, <2>5, <5>1
      <4>3. (n + 1) - 1 = n
        BY <2>2
      <4>4. QED
        BY <2>3, <2>4, <2>5, <3>1, <4>1, <4>2, <4>3
    <3>2. CASE q # r
      <4>1. /\ enclave'[q] = enclave[q] /\ enclave[q].epoch # e
        BY <2>1, <2>3, <2>8, <3>2 DEF EnclaveInv, e
      <4>2. QED
        BY <2>2, <2>4, <2>8, <4>1 DEF EnclaveInv
    <3>3. QED
      BY <3>1, <3>2
  <2>9. ASSUME NEW p \in Replica, NEW q \in Replica,
               enclave'[p].initialized, enclave'[q].initialized,
               enclave'[p].epoch = enclave'[q].epoch
        PROVE  p = q
    BY <2>1, <2>3, <2>9 DEF EnclaveInv, e
  <2>10. \A s \in issued' : s.epoch \in drawn'
    BY <2>2, <2>4, <2>5 DEF EnclaveInv
  <2>11. ASSUME NEW q \in Replica, NEW x \in Thread, ecalls'[q][x] # NoCall
         PROVE  /\ enclave'[q].initialized
                /\ ecalls'[q][x].counter = enclave'[q].counter
                /\ \A y \in Thread \ {x} : ecalls'[q][y] = NoCall
    BY <2>3, <2>11 DEF EnclaveInv
  <2>12. QED
    BY <2>7, <2>8, <2>9, <2>10, <2>11 DEF EnclaveInv
<1>6. CASE GenerateKeys
  BY <1>1, <1>6 DEF GenerateKeys
<1>7. ASSUME NEW v \in Replica, NEW t \in Thread, NEW s \in issued, NEW digest \in Digest,
             VerifyTag(v, t, s.key, digest, MarshalUI(UIOf(s)))
      PROVE  SequentialUIs' /\ EnclaveInv'
  BY <1>1, <1>7 DEF VerifyTag, enclaveVars
<1>8. ASSUME NEW v \in Replica, NEW t \in Thread, VerifyDone(v, t)
      PROVE  SequentialUIs' /\ EnclaveInv'
  BY <1>1, <1>8 DEF VerifyDone, enclaveVars
<1>9. CASE UNCHANGED usigVars
  BY <1>1, <1>9 DEF usigVars, enclaveVars
<1>10. QED
  BY <1>2, <1>3, <1>4, <1>5, <1>6, <1>7, <1>8, <1>9 DEF UsigNext

\* A verification that succeeds is of a UI that was issued for that very message,
\* and captures its epoch or finds it captured.
LEMMA CheckedIssued ==
  ASSUME TypeOK, CheckInv, NEW v \in Replica, NEW t \in Thread,
         VerifyDone(v, t), Checked(checks[v][t])
  PROVE  \E s \in issued :
           /\ s \in Sig
           /\ captured[v][s.key] \in {None, s.epoch}
           /\ captured' = [captured EXCEPT ![v][s.key] = s.epoch]
           /\ accepted' = [accepted EXCEPT ![v] = @ \cup
                {[replica |-> s.key, counter |-> s.counter, digest |-> s.digest]}]
<1> DEFINE c == checks[v][t]
<1>1. PICK s \in issued :
        /\ c.replica = s.key /\ c.ui = UIOf(s)
        /\ c.epoch = IF captured[v][s.key] # None THEN captured[v][s.key] ELSE s.epoch
  BY DEF VerifyDone, CheckInv, CheckOf
<1>2. s \in Sig
  BY DEF TypeOK
<1>3. c.epoch = s.epoch /\ s = Sign(s.key, c.digest, s.epoch, s.counter)
  BY <1>1, <1>2, UIRoundTrip DEF Checked, VerifyUI, VerifySignature
<1>4. c.digest = s.digest /\ c.ui.counter = s.counter
  BY <1>1, <1>2, <1>3, UIRoundTrip DEF Sign
<1>5. /\ captured' = [captured EXCEPT ![v][c.replica] = c.epoch]
      /\ accepted' = [accepted EXCEPT ![v] = @ \cup
           {[replica |-> c.replica, counter |-> c.ui.counter, digest |-> c.digest]}]
  BY DEF VerifyDone
<1>6. captured[v][s.key] \in {None, s.epoch}
  BY <1>1, <1>3
<1> HIDE DEF c
<1>7. QED
  BY <1>1, <1>2, <1>3, <1>4, <1>5, <1>6

\* Correct replicas agree on epochs.  A UI with another epoch than the first
\* cannot appear before they have captured the first.
LEMMA CaptureStep == Inv /\ [UsigNext]_usigVars => CaptureInv'
<1> SUFFICES ASSUME Inv, [UsigNext]_usigVars PROVE CaptureInv'
  OBVIOUS
<1>0. TypeOK /\ CaptureInv /\ CheckInv
  BY DEF Inv
<1>1. ASSUME UNCHANGED <<enclave, issued, captured, faulty>> PROVE CaptureInv'
  BY <1>0, <1>1 DEF CaptureInv, OneEpoch
<1>2. ASSUME NEW r \in Replica, NewUSIG(r) PROVE CaptureInv'
  <2>1. /\ enclave'[r].initialized /\ ~enclave[r].initialized
        /\ \A q \in Replica \ {r} :
             enclave'[q] = enclave[q] /\ captured'[q] = captured[q]
        /\ \A q \in Replica : captured'[r][q] = None
        /\ issued' = issued /\ faulty' = faulty
        /\ FirstUIsReceived(r)
    BY <1>0, <1>2 DEF NewUSIG, Initialized, NothingCaptured, TypeOK
  <2>2. ASSUME NEW v \in Replica \ faulty', NEW q \in Replica, captured'[v][q] = None
        PROVE  OneEpoch(q)'
    <3>1. captured[v][q] = None
      BY <1>0, <2>1, <2>2 DEF CaptureInv
    <3>2. CASE q # r
      BY <1>0, <2>1, <3>1, <3>2 DEF CaptureInv, OneEpoch
    <3>3. CASE q = r
      <4>1. \A s \in issued : s.key # r
        BY <1>0, <2>1, <3>1, <3>3 DEF CaptureInv, FirstUIsReceived
      <4>2. QED
        BY <2>1, <3>3, <4>1 DEF OneEpoch
    <3>4. QED
      BY <3>2, <3>3
  <2>3. \A v, q \in Replica : captured'[v][q] # None
          => \E s \in issued' : s.key = q /\ s.epoch = captured'[v][q]
    BY <1>0, <2>1 DEF CaptureInv
  <2>4. \A v, w \in Replica \ faulty' : \A q \in Replica :
          captured'[v][q] # None /\ captured'[w][q] # None
            => captured'[v][q] = captured'[w][q]
    BY <1>0, <2>1 DEF CaptureInv
  <2>5. \A p \in Replica \ faulty' : ~enclave'[p].initialized
          => /\ \A s \in issued' : s.key # p
             /\ \A q \in Replica : captured'[p][q] = None
    BY <1>0, <2>1 DEF CaptureInv
  <2>6. QED
    BY <2>2, <2>3, <2>4, <2>5 DEF CaptureInv
<1>3. ASSUME NEW r \in Replica, Crash(r) PROVE CaptureInv'
  <2>1. /\ ~enclave'[r].initialized /\ enclave[r].initialized
        /\ \A q \in Replica \ {r} : enclave'[q] = enclave[q]
        /\ issued' = issued /\ captured' = captured /\ faulty' = faulty \cup {r}
    BY <1>0, <1>3 DEF Crash, Destroyed, TypeOK
  <2>2. QED
    BY <1>0, <2>1 DEF CaptureInv, OneEpoch
<1>4. ASSUME NEW r \in Replica, NEW t \in Thread, ReturnUI(r, t) PROVE CaptureInv'
  <2> DEFINE new == Sign(r, ecalls[r][t].digest, enclave[r].epoch, ecalls[r][t].counter)
  <2>1. /\ issued' = issued \cup {new} /\ captured' = captured /\ faulty' = faulty
        /\ \A q \in Replica : /\ enclave'[q].initialized = enclave[q].initialized
                              /\ enclave'[q].epoch = enclave[q].epoch
    BY <1>0, <1>4 DEF ReturnUI, TypeOK, authenVars
  <2>2. new.key = r /\ new.epoch = enclave[r].epoch /\ enclave[r].initialized
    BY <1>4 DEF ReturnUI, Sign, Inv, EnclaveInv
  <2> HIDE DEF new
  <2>3. ASSUME NEW q \in Replica, OneEpoch(q) PROVE OneEpoch(q)'
    BY <2>1, <2>2, <2>3 DEF OneEpoch
  <2>4. QED
    BY <1>0, <2>1, <2>2, <2>3 DEF CaptureInv
<1>5. ASSUME NEW v \in Replica, NEW t \in Thread, VerifyDone(v, t) PROVE CaptureInv'
  <2>1. CASE ~Checked(checks[v][t])
    BY <1>1, <1>5, <2>1 DEF VerifyDone, enclaveVars
  <2>2. CASE Checked(checks[v][t])
    <3>1. PICK s \in issued :
            /\ s \in Sig /\ captured[v][s.key] \in {None, s.epoch}
            /\ captured' = [captured EXCEPT ![v][s.key] = s.epoch]
      BY <1>0, <1>5, <2>2, CheckedIssued
    <3>2. /\ captured'[v][s.key] = s.epoch /\ s.key \in Replica /\ s.epoch # None
          /\ \A w, q \in Replica : w # v \/ q # s.key => captured'[w][q] = captured[w][q]
      BY <1>0, <3>1, UsigAssumption DEF TypeOK, Sig
    <3>3. UNCHANGED <<enclave, issued, faulty>>
      BY <1>5 DEF VerifyDone, enclaveVars
    <3>4. \A w, q \in Replica : captured'[w][q] = captured[w][q]
                                  \/ (w = v /\ q = s.key /\ captured[w][q] = None)
      <4> TAKE w, q \in Replica
      <4>1. CASE w = v /\ q = s.key
        <5>1. captured[v][s.key] = None \/ captured'[v][s.key] = captured[v][s.key]
          BY <3>1, <3>2
        <5>2. QED
          BY <4>1, <5>1
      <4>2. CASE w # v \/ q # s.key
        BY <3>2, <4>2
      <4>3. QED
        BY <4>1, <4>2
    <3>5. \A w \in Replica \ faulty : captured[w][s.key] # None /\ captured[v][s.key] = None
            /\ v \notin faulty => captured[w][s.key] = s.epoch
      BY <1>0, <3>2 DEF CaptureInv, OneEpoch
    <3>6. \A w, q \in Replica : captured'[w][q] # None
            => \E u \in issued' : u.key = q /\ u.epoch = captured'[w][q]
      BY <1>0, <3>2, <3>3 DEF CaptureInv
    <3>7. \A w \in Replica \ faulty' : \A q \in Replica :
            captured'[w][q] = None => OneEpoch(q)'
      BY <1>0, <3>2, <3>3, <3>4 DEF CaptureInv, OneEpoch
    <3>8. \A w, x \in Replica \ faulty' : \A q \in Replica :
            captured'[w][q] # None /\ captured'[x][q] # None
              => captured'[w][q] = captured'[x][q]
      BY <1>0, <3>2, <3>3, <3>4, <3>5, SMTT(20) DEF CaptureInv
    <3>9. enclave[v].initialized
      BY <1>0, <1>5 DEF VerifyDone, CheckInv, CheckOf
    <3>10. \A p \in Replica \ faulty' : ~enclave'[p].initialized
            => /\ \A u \in issued' : u.key # p
               /\ \A q \in Replica : captured'[p][q] = None
      <4> SUFFICES ASSUME NEW p \in Replica \ faulty, ~enclave[p].initialized
                   PROVE  /\ \A u \in issued : u.key # p
                          /\ \A q \in Replica : captured'[p][q] = None
        BY <3>3, Zenon
      <4>1. p # v /\ (\A u \in issued : u.key # p) /\ \A q \in Replica : captured[p][q] = None
        BY <1>0, <3>9, Zenon DEF CaptureInv
      <4>2. QED
        BY <3>4, <4>1, Zenon
    <3>11. QED
      BY <3>6, <3>7, <3>8, <3>10 DEF CaptureInv
  <2>3. QED
    BY <2>1, <2>2
<1>6. CASE GenerateKeys
  BY <1>1, <1>6 DEF GenerateKeys, authenVars
<1>7. ASSUME NEW r \in Replica, NEW t \in Thread, NEW digest \in Digest,
             CreateUI(r, t, digest)
      PROVE  CaptureInv'
  BY <1>1, <1>7 DEF CreateUI, authenVars
<1>8. ASSUME NEW v \in Replica, NEW t \in Thread, NEW s \in issued, NEW digest \in Digest,
             VerifyTag(v, t, s.key, digest, MarshalUI(UIOf(s)))
      PROVE  CaptureInv'
  BY <1>1, <1>8 DEF VerifyTag, enclaveVars
<1>9. CASE UNCHANGED usigVars
  BY <1>1, <1>9 DEF usigVars, enclaveVars, authenVars
<1>10. QED
  BY <1>2, <1>3, <1>4, <1>5, <1>6, <1>7, <1>8, <1>9 DEF UsigNext

\* What a verification works with stays true while it holds the lock.
LEMMA CheckStep == Inv /\ [UsigNext]_usigVars => CheckInv'
<1> SUFFICES ASSUME Inv, [UsigNext]_usigVars PROVE CheckInv'
  OBVIOUS
<1>0. TypeOK /\ CheckInv /\ EnclaveInv
  BY DEF Inv
<1>1. ASSUME issued \subseteq issued', UNCHANGED <<checks, captured>>,
             \A q \in Replica : enclave'[q].initialized = enclave[q].initialized
      PROVE  CheckInv'
  <2>1. ASSUME NEW q \in Replica PROVE CheckOf(q)'
    <3>1. CheckOf(q) /\ enclave'[q].initialized = enclave[q].initialized
      BY <1>0, <1>1 DEF CheckInv
    <3>2. QED
      BY <1>1, <3>1 DEF CheckOf
  <2>2. QED
    BY <2>1 DEF CheckInv
<1>2. ASSUME NEW r \in Replica, NewUSIG(r) PROVE CheckInv'
  <2>1. /\ \A t \in Thread : checks[r][t] = NoCheck
        /\ UNCHANGED <<checks, issued>>
        /\ \A q \in Replica \ {r} :
             enclave'[q] = enclave[q] /\ captured'[q] = captured[q]
    BY <1>0, <1>2 DEF NewUSIG, Initialized, NothingCaptured, CheckInv, CheckOf, TypeOK
  <2>2. QED
    BY <1>0, <2>1 DEF CheckInv, CheckOf
<1>3. ASSUME NEW r \in Replica, Crash(r) PROVE CheckInv'
  <2>1. /\ \A t \in Thread : checks'[r][t] = NoCheck
        /\ UNCHANGED <<captured, issued>>
        /\ \A q \in Replica \ {r} : enclave'[q] = enclave[q] /\ checks'[q] = checks[q]
    BY <1>0, <1>3 DEF Crash, TypeOK
  <2>2. CheckOf(r)'
    BY <2>1 DEF CheckOf
  <2>3. ASSUME NEW q \in Replica \ {r} PROVE CheckOf(q)'
    <3>1. CheckOf(q) /\ checks'[q] = checks[q] /\ enclave'[q] = enclave[q]
      BY <1>0, <2>1 DEF CheckInv
    <3>2. QED
      BY <2>1, <3>1 DEF CheckOf
  <2>4. QED
    BY <2>2, <2>3 DEF CheckInv
<1>4. ASSUME NEW r \in Replica, NEW t \in Thread, ReturnUI(r, t) PROVE CheckInv'
  <2>1. /\ issued \subseteq issued' /\ UNCHANGED <<checks, captured>>
        /\ \A q \in Replica : enclave'[q].initialized = enclave[q].initialized
    BY <1>0, <1>4 DEF ReturnUI, TypeOK, authenVars
  <2>2. QED
    BY <1>1, <2>1
<1>5. ASSUME NEW v \in Replica, NEW t \in Thread, NEW s \in issued, NEW digest \in Digest,
             VerifyTag(v, t, s.key, digest, MarshalUI(UIOf(s)))
      PROVE  CheckInv'
  <2> DEFINE c == [replica |-> s.key, digest |-> digest, ui |-> UIOf(s),
                   epoch |-> EpochFor(v, s.key, UIOf(s))]
  <2>1. s \in Sig
    BY <1>0 DEF TypeOK
  <2>2. /\ checks' = [checks EXCEPT ![v][t] = c]
        /\ \A x \in Thread : checks[v][x] = NoCheck
        /\ enclave[v].initialized
        /\ UNCHANGED <<enclave, issued, captured>>
    BY <1>5, <2>1, UIRoundTrip DEF VerifyTag, SchemeFree, enclaveVars
  <2>3. c.epoch = IF captured[v][s.key] # None THEN captured[v][s.key] ELSE s.epoch
    BY <2>1, UIRoundTrip DEF EpochFor
  <2>4. c.replica = s.key /\ c.ui = UIOf(s)
    OBVIOUS
  <2> HIDE DEF c
  <2>5. /\ checks'[v][t] = c
        /\ \A x \in Thread \ {t} : checks'[v][x] = NoCheck
        /\ \A q \in Replica \ {v} : checks'[q] = checks[q]
    BY <1>0, <2>2 DEF TypeOK
  <2>6. QED
    BY <1>0, <2>2, <2>3, <2>4, <2>5 DEF CheckInv, CheckOf
<1>6. ASSUME NEW v \in Replica, NEW t \in Thread, VerifyDone(v, t) PROVE CheckInv'
  <2>1. /\ \A x \in Thread : checks'[v][x] = NoCheck
        /\ \A q \in Replica \ {v} : checks'[q] = checks[q]
        /\ UNCHANGED <<enclave, issued>>
    BY <1>0, <1>6 DEF VerifyDone, CheckInv, CheckOf, TypeOK, enclaveVars
  <2>2. \A q \in Replica \ {v} : captured'[q] = captured[q]
    BY <1>0, <1>6 DEF VerifyDone, TypeOK
  <2>3. QED
    BY <1>0, <2>1, <2>2 DEF CheckInv, CheckOf
<1>7. CASE GenerateKeys
  BY <1>1, <1>7 DEF GenerateKeys, authenVars
<1>8. ASSUME NEW r \in Replica, NEW t \in Thread, NEW digest \in Digest,
             CreateUI(r, t, digest)
      PROVE  CheckInv'
  BY <1>1, <1>8 DEF CreateUI, authenVars
<1>9. CASE UNCHANGED usigVars
  BY <1>1, <1>9 DEF usigVars, enclaveVars, authenVars
<1>10. QED
  BY <1>2, <1>3, <1>4, <1>5, <1>6, <1>7, <1>8, <1>9 DEF UsigNext

\* What was accepted keeps the captured epoch, which does not change again.
LEMMA AcceptStep == Inv /\ [UsigNext]_usigVars => AcceptInv'
<1> SUFFICES ASSUME Inv, [UsigNext]_usigVars PROVE AcceptInv'
  OBVIOUS
<1>0. TypeOK /\ CheckInv /\ AcceptInv
  BY DEF Inv
<1>1. ASSUME issued \subseteq issued', UNCHANGED <<captured, accepted>> PROVE AcceptInv'
  BY <1>0, <1>1 DEF AcceptInv
<1>2. ASSUME NEW r \in Replica, NewUSIG(r) PROVE AcceptInv'
  <2>1. /\ accepted'[r] = {} /\ issued' = issued
        /\ \A q \in Replica \ {r} :
             accepted'[q] = accepted[q] /\ captured'[q] = captured[q]
    BY <1>0, <1>2 DEF NewUSIG, Initialized, NothingCaptured, TypeOK
  <2>2. QED
    BY <1>0, <2>1 DEF AcceptInv
<1>3. ASSUME NEW v \in Replica, NEW t \in Thread, VerifyDone(v, t) PROVE AcceptInv'
  <2>1. CASE ~Checked(checks[v][t])
    BY <1>1, <1>3, <2>1 DEF VerifyDone, enclaveVars
  <2>2. CASE Checked(checks[v][t])
    <3>1. PICK s \in issued :
            /\ s \in Sig /\ captured[v][s.key] \in {None, s.epoch}
            /\ captured' = [captured EXCEPT ![v][s.key] = s.epoch]
            /\ accepted' = [accepted EXCEPT ![v] = @ \cup
                 {[replica |-> s.key, counter |-> s.counter, digest |-> s.digest]}]
      BY <1>0, <1>3, <2>2, CheckedIssued
    <3>2. /\ captured'[v][s.key] = s.epoch /\ s.key \in Replica
          /\ \A w, q \in Replica : w # v \/ q # s.key => captured'[w][q] = captured[w][q]
      BY <1>0, <3>1 DEF TypeOK, Sig
    <3>3. \A w, q \in Replica : captured[w][q] # None => captured'[w][q] = captured[w][q]
      <4>1. captured[v][s.key] = None \/ captured'[v][s.key] = captured[v][s.key]
        BY <3>1, <3>2
      <4>2. QED
        BY <3>2, <4>1
    <3>4. issued' = issued
      BY <1>3 DEF VerifyDone, enclaveVars
    <3>5. ASSUME NEW w \in Replica, NEW a \in accepted[w]
          PROVE  \E u \in issued' :
                   /\ a.replica = u.key /\ a.counter = u.counter /\ a.digest = u.digest
                   /\ captured'[w][u.key] = u.epoch
      <4>1. PICK u \in issued :
                   /\ a.replica = u.key /\ a.counter = u.counter /\ a.digest = u.digest
                   /\ captured[w][u.key] = u.epoch
        BY <1>0, <3>5 DEF AcceptInv
      <4>2. u.key \in Replica /\ u.epoch # None
        BY <1>0, UsigAssumption DEF TypeOK, Sig
      <4>3. QED
        BY <3>3, <3>4, <4>1, <4>2
    <3>6. ASSUME NEW w \in Replica, NEW a \in accepted'[w]
          PROVE  a \in accepted[w]
                   \/ /\ w = v
                      /\ a = [replica |-> s.key, counter |-> s.counter, digest |-> s.digest]
      BY <1>0, <3>1, <3>6 DEF TypeOK
    <3>7. QED
      BY <3>2, <3>4, <3>5, <3>6 DEF AcceptInv
  <2>3. QED
    BY <2>1, <2>2
<1>4. ASSUME NEW r \in Replica, NEW t \in Thread, ReturnUI(r, t) PROVE AcceptInv'
  BY <1>1, <1>4 DEF ReturnUI, authenVars
<1>5. ASSUME NEW r \in Replica, Crash(r) PROVE AcceptInv'
  BY <1>1, <1>5 DEF Crash
<1>6. CASE GenerateKeys
  BY <1>1, <1>6 DEF GenerateKeys, authenVars
<1>7. ASSUME NEW r \in Replica, NEW t \in Thread, NEW digest \in Digest,
             CreateUI(r, t, digest)
      PROVE  AcceptInv'
  BY <1>1, <1>7 DEF CreateUI, authenVars
<1>8. ASSUME NEW v \in Replica, NEW t \in Thread, NEW s \in issued, NEW digest \in Digest,
             VerifyTag(v, t, s.key, digest, MarshalUI(UIOf(s)))
      PROVE  AcceptInv'
  BY <1>1, <1>8 DEF VerifyTag, enclaveVars
<1>9. CASE UNCHANGED usigVars
  BY <1>1, <1>9 DEF usigVars, enclaveVars, authenVars
<1>10. QED
  BY <1>2, <1>3, <1>4, <1>5, <1>6, <1>7, <1>8, <1>9 DEF UsigNext

-----------------------------------------------------------------------------

\* The invariant holds initially, when there are neither instances nor UIs, and
\* each step of the enclaves and of the authentication schemes keeps it.
THEOREM UsigInvariant == UsigSpec => []Inv
<1>1. UsigInit => Inv
  <2> SUFFICES ASSUME UsigInit PROVE Inv
    OBVIOUS
  <2>1. TypeOK
    BY UsigAssumption DEF UsigInit, TypeOK, Destroyed, NothingCaptured
  <2>2. SequentialUIs /\ EnclaveInv
    BY DEF UsigInit, SequentialUIs, EnclaveInv, Destroyed
  <2>3. CaptureInv /\ CheckInv /\ AcceptInv
    BY DEF UsigInit, CaptureInv, OneEpoch, CheckInv, CheckOf, AcceptInv, Destroyed, NothingCaptured
  <2>4. QED
    BY <2>1, <2>2, <2>3 DEF Inv
<1>2. Inv /\ [UsigNext]_usigVars => Inv'
  BY TypeStep, EnclaveStep, CaptureStep, CheckStep, AcceptStep DEF Inv
<1>3. QED
  BY <1>1, <1>2, PTL DEF UsigSpec

\* The UIs of a USIG instance are unique and sequential: the lock around the
\* enclave's calls leaves no two of them the same counter value.
THEOREM UIsAreSequential == UsigSpec => []SequentialUIs
<1>1. Inv => SequentialUIs
  BY DEF Inv
<1>2. QED
  BY <1>1, UsigInvariant, PTL

\* Correct replicas never accept different messages with the same counter value
\* of a replica, whether or not it restarts.
THEOREM OneInstance == UsigSpec => []NoEquivocation
<1>1. Inv => NoEquivocation
  <2> SUFFICES ASSUME Inv PROVE NoEquivocation
    OBVIOUS
  <2> SUFFICES ASSUME NEW v \in Replica \ faulty, NEW w \in Replica \ faulty,
                      NEW a \in accepted[v], NEW b \in accepted[w],
                      a.replica = b.replica /\ a.counter = b.counter
               PROVE  a.digest = b.digest
    BY Zenon DEF NoEquivocation
  <2>1. PICK s \in issued :
          /\ a.replica = s.key /\ a.counter = s.counter /\ a.digest = s.digest
          /\ captured[v][s.key] = s.epoch
    BY DEF Inv, AcceptInv
  <2>2. PICK u \in issued :
          /\ b.replica = u.key /\ b.counter = u.counter /\ b.digest = u.digest
          /\ captured[w][u.key] = u.epoch
    BY DEF Inv, AcceptInv
  <2>3. s.key = u.key /\ s.key \in Replica /\ s.epoch # None /\ u.epoch # None
    BY <2>1, <2>2, UsigAssumption DEF Inv, TypeOK, Sig
  <2>4. s.epoch = u.epoch
    BY <2>1, <2>2, <2>3 DEF Inv, CaptureInv
  <2>5. s = u
    <3>1. s.counter = u.counter
      BY <2>1, <2>2
    <3>2. SequentialUIs
      BY DEF Inv
    <3>3. QED
      BY <2>3, <2>4, <3>1, <3>2, Zenon DEF SequentialUIs
  <2>6. QED
    BY <2>1, <2>2, <2>5
<1>2. QED
  BY <1>1, UsigInvariant, PTL

=============================================================================
