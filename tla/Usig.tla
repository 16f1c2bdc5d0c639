-------------------------------- MODULE Usig --------------------------------
(***************************************************************************)
(* USIG: the component that assigns to each message of a replica the next  *)
(* value of a counter, and the authentication scheme by which the other    *)
(* replicas decide whether to believe it.                                  *)
(*                                                                         *)
(* A USIG instance lives in an SGX enclave (usig/sgx).  It holds the       *)
(* replica's key pair, an epoch drawn at random when it is created and the *)
(* next counter value.  Nothing of it but the sealed key pair survives the *)
(* process: a replica that restarts has the same key, another epoch, and   *)
(* counts from one again.  A unique identifier (UI) is a counter value     *)
(* with a certificate: the epoch and a signature over the digest of the    *)
(* message, the epoch and the counter value.                               *)
(*                                                                         *)
(* The others know the key but not the epoch.  The authentication scheme   *)
(* of sample/authentication takes the epoch of the first valid UI it sees  *)
(* for that of the replica's only instance.                                *)
(*                                                                         *)
(* A call into the enclave takes two steps, and so does a verification:    *)
(* the locks that the code holds over them are what keeps others out.      *)
(***************************************************************************)
EXTENDS Integers, Sequences

CONSTANTS Replica,     \* replicas; a replica's key pair is known by its name
          Thread,      \* goroutines of a replica that certify or verify
          Digest,      \* authenticated contents of messages
          MayFail,     \* bound: replicas whose process may end
          Epoch,       \* bound: epoch values that are drawn
          MaxCounter,  \* bound: UIs of an instance
          None         \* no epoch

ASSUME UsigAssumption ==
  None \notin Epoch /\ MaxCounter \in Nat /\ MayFail \subseteq Replica

VARIABLES keystore,   \* replicas with a key pair in the key store
          enclave,    \* enclave[r]: USIG instance of replica r
          ecalls,     \* ecalls[r][t]: UI that a call of r is signing
          drawn,      \* epochs drawn by USIG instances
          issued,     \* UIs that left an enclave, with what they certify
          captured,   \* captured[v][r]: epoch that v believes is r's
          checks,     \* checks[v][t]: verification in progress
          accepted,   \* accepted[v]: what v has accepted as certified
          faulty      \* replicas whose process has ended at some time

enclaveVars == <<keystore, enclave, ecalls, drawn, issued, faulty>>
authenVars == <<captured, checks, accepted>>
usigVars == <<enclaveVars, authenVars>>

-----------------------------------------------------------------------------
\* Encoding of UIs

NoUI == [counter |-> 0, cert |-> <<>>]

\* usig.UI.MarshalBinary and UnmarshalBinary: the counter value in a fixed
\* number of bytes, then the certificate.  Certificates are made alike.
MarshalUI(ui) == <<ui.counter, ui.cert>>

TooShort(bytes) == bytes = <<>>

UnmarshalUI(bytes) == [counter |-> bytes[1], cert |-> bytes[2]]

MakeCert(epoch, signature) == <<epoch, signature>>

CertEpoch(cert) == cert[1]

CertSignature(cert) == cert[2]

\* A signature can be made with the private key only and is valid for one
\* digest, epoch and counter value.
Sign(key, digest, epoch, counter) ==
  [key |-> key, digest |-> digest, epoch |-> epoch, counter |-> counter]

VerifySignature(key, digest, epoch, counter, signature) ==
  signature = Sign(key, digest, epoch, counter)

\* VerifyUI, for the USIG identity made of an epoch and a public key.
VerifyUI(digest, ui, epoch, key) ==
  /\ CertEpoch(ui.cert) = epoch
  /\ VerifySignature(key, digest, epoch, ui.counter, CertSignature(ui.cert))

-----------------------------------------------------------------------------
\* The enclave and its callers

NoCall == [digest |-> <<>>, counter |-> 0]
NoCheck == [replica |-> None, digest |-> <<>>, ui |-> NoUI, epoch |-> None]

Destroyed == [initialized |-> FALSE, epoch |-> None, counter |-> 1]

\* An instance that was given its key pair and has drawn an epoch.
Initialized(epoch) == [initialized |-> TRUE, epoch |-> epoch, counter |-> 1]

\* A new authentication scheme.
NothingCaptured == [q \in Replica |-> None]

UsigInit ==
  /\ keystore = {}
  /\ enclave = [r \in Replica |-> Destroyed]
  /\ ecalls = [r \in Replica |-> [t \in Thread |-> NoCall]]
  /\ drawn = {}
  /\ issued = {}
  /\ captured = [v \in Replica |-> NothingCaptured]
  /\ checks = [v \in Replica |-> [t \in Thread |-> NoCheck]]
  /\ accepted = [v \in Replica |-> {}]
  /\ faulty = {}

\* The key tool has an enclave generate and seal a key pair for each replica.
GenerateKeys ==
  /\ keystore = {}
  /\ keystore' = Replica
  /\ UNCHANGED <<enclave, ecalls, drawn, issued, faulty, authenVars>>

\* What the authentication scheme assumes of its environment: before a replica
\* sends UIs of another instance, the others have captured the epoch of the
\* first one.
FirstUIsReceived(r) ==
  (\E u \in issued : u.key = r)
    => \A v \in Replica \ (faulty \cup {r}) : captured[v][r] # None

\* A process of the replica starts: it creates an enclave with the sealed key
\* pair, and an authentication scheme that has captured no epoch.  When one of
\* the calls fails the enclave is destroyed again and nothing has happened.
NewUSIG(r) ==
  /\ r \in keystore /\ ~enclave[r].initialized
  /\ FirstUIsReceived(r)
  /\ \E epoch \in Epoch \ drawn :
       /\ enclave' = [enclave EXCEPT ![r] = Initialized(epoch)]
       /\ drawn' = drawn \cup {epoch}
  /\ captured' = [captured EXCEPT ![r] = NothingCaptured]
  /\ accepted' = [accepted EXCEPT ![r] = {}]
  /\ UNCHANGED <<keystore, ecalls, issued, faulty, checks>>

\* The process ends, at any point of what it does, and its enclave with it.
\* A signing error ends it too: the caller of CreateUI panics.
Crash(r) ==
  /\ r \in MayFail /\ enclave[r].initialized
  /\ enclave' = [enclave EXCEPT ![r] = Destroyed]
  /\ ecalls' = [ecalls EXCEPT ![r] = [t \in Thread |-> NoCall]]
  /\ checks' = [checks EXCEPT ![r] = [t \in Thread |-> NoCheck]]
  /\ faulty' = faulty \cup {r}
  /\ UNCHANGED <<keystore, drawn, issued, captured, accepted>>

\* The lock around every call into the enclave.
EcallFree(r) == \A t \in Thread : ecalls[r][t] = NoCall

\* CreateUI: the enclave signs the digest with the present counter value...
CreateUI(r, t, digest) ==
  /\ enclave[r].initialized /\ ecalls[r][t] = NoCall
  /\ EcallFree(r)
  /\ enclave[r].counter <= MaxCounter
  /\ ecalls' = [ecalls EXCEPT ![r][t] =
                  [digest |-> digest, counter |-> enclave[r].counter]]
  /\ UNCHANGED <<keystore, enclave, drawn, issued, faulty, authenVars>>

\* Mutant: the counter is not incremented.
SameCounter(counter) == counter

NextCounter(counter) == counter + 1

\* ... and increments it before the signature leaves the enclave.
ReturnUI(r, t) ==
  /\ ecalls[r][t] # NoCall
  /\ enclave' = [enclave EXCEPT ![r].counter = NextCounter(@)]
  /\ issued' = issued \cup
       {Sign(r, ecalls[r][t].digest, enclave[r].epoch, ecalls[r][t].counter)}
  /\ ecalls' = [ecalls EXCEPT ![r][t] = NoCall]
  /\ UNCHANGED <<keystore, drawn, faulty, authenVars>>

\* The UI that carries a signature.
UIOf(s) == [counter |-> s.counter, cert |-> MakeCert(s.epoch, s)]

-----------------------------------------------------------------------------
\* Verification

\* The lock of the authentication scheme.
SchemeFree(v) == \A t \in Thread : checks[v][t] = NoCheck

\* Mutant: any instance of the replica will do.
EpochOfUI(v, r, ui) == CertEpoch(ui.cert)

\* The epoch to verify a UI of replica r with.
EpochFor(v, r, ui) ==
  IF captured[v][r] # None THEN captured[v][r] ELSE CertEpoch(ui.cert)

\* A goroutine of v verifies the tag of a message of replica r with the given
\* digest: it takes the lock and looks up the epoch...
VerifyTag(v, t, r, digest, tag) ==
  /\ enclave[v].initialized /\ checks[v][t] = NoCheck
  /\ SchemeFree(v)
  /\ r \in keystore
  /\ ~TooShort(tag)
  /\ checks' = [checks EXCEPT ![v][t] =
                  [replica |-> r, digest |-> digest, ui |-> UnmarshalUI(tag),
                   epoch |-> EpochFor(v, r, UnmarshalUI(tag))]]
  /\ UNCHANGED <<enclaveVars, captured, accepted>>

\* ... and verifies the UI with it, which captures the epoch if it is valid.
Checked(c) == c.ui.counter # 0 /\ VerifyUI(c.digest, c.ui, c.epoch, c.replica)

VerifyDone(v, t) ==
  LET c == checks[v][t]
  IN  /\ c # NoCheck
      /\ checks' = [checks EXCEPT ![v][t] = NoCheck]
      /\ IF Checked(c)
         THEN /\ captured' = [captured EXCEPT ![v][c.replica] = c.epoch]
              /\ accepted' = [accepted EXCEPT ![v] = @ \cup
                   {[replica |-> c.replica, counter |-> c.ui.counter,
                     digest |-> c.digest]}]
         ELSE UNCHANGED <<captured, accepted>>
      /\ UNCHANGED enclaveVars

\* UIs may arrive more than once, out of order, and with another message than
\* the one they were made for.
UsigNext ==
  \/ GenerateKeys
  \/ \E r \in Replica : NewUSIG(r) \/ Crash(r)
  \/ \E r \in Replica, t \in Thread, digest \in Digest : CreateUI(r, t, digest)
  \/ \E r \in Replica, t \in Thread : ReturnUI(r, t)
  \/ \E v \in Replica, t \in Thread, s \in issued, digest \in Digest :
       VerifyTag(v, t, s.key, digest, MarshalUI(UIOf(s)))
  \/ \E v \in Replica, t \in Thread : VerifyDone(v, t)

UsigSpec == UsigInit /\ [][UsigNext]_usigVars

-----------------------------------------------------------------------------
\* Properties

\* The UIs of an instance are unique and their counter values come without
\* gaps, starting with one (usig/usig.go: "unique, monotonic, and sequential").
SequentialUIs ==
  /\ \A s, u \in issued :
       s.key = u.key /\ s.epoch = u.epoch /\ s.counter = u.counter => s = u
  /\ \A s \in issued : \A c \in 1..s.counter :
       \E u \in issued : u.key = s.key /\ u.epoch = s.epoch /\ u.counter = c

\* Replicas that have not failed never accept two different messages of a
\* replica with the same counter value, neither one of them nor two: they agree
\* on a single USIG instance of that replica, even if it restarts
\* (VerifyAuthenticationTag; api.AuthenticationRole asks for this).
NoEquivocation ==
  \A v, w \in Replica \ faulty : \A a \in accepted[v], b \in accepted[w] :
    a.replica = b.replica /\ a.counter = b.counter => a.digest = b.digest

=============================================================================
