# A TLA+ specification of MinBFT

This directory specifies the MinBFT implementation in `src/`: TLA+ modules,
model-checked with TLC on small instances, and theorems about them checked by
the TLAPS proof system. `PROJECT.json` maps each definition to the lines of Go
it stands for.

## The system

MinBFT orders the requests of clients over `n >= 2f + 1` replicas, of which `f`
may be faulty. Every replica owns a USIG, a trusted monotonic counter: each
*certified* message (Prepare, Commit, ViewChange, NewView) carries the next
counter value, so no two messages share one and none can be left out unnoticed.

| part | source | state | operations |
|---|---|---|---|
| commitment collection | `core/commit.go` | per replica: view, last primary counter, last own counter; the view of the counter and its `commitCertSize - 1` slots | accept, count, collect |
| ordering | `core/prepare.go`, `core/request.go` | per client: last captured, prepared, retired ID; pending and prepared request; timers | process, apply, prepare, retire, execute, unprepare |
| view change | `core/req-view-change.go`, `core/view-change.go`, `core/new-view.go`, `core/timeout.go` | collected ReqViewChanges, collected ViewChanges, highest view requested, view-change timer | time out, request, collect, start, propose, accept |
| message handling | `core/message-handling.go`, `core/replica.go` | connections | validate, process what is embedded, process, apply, generate |
| message log | `core/internal/messagelog` | messages since the last reset, streams | Append, Reset, Messages, Stream |
| view state | `core/internal/viewstate` | current and expected view behind a read-write lock | HoldView, AdvanceExpectedView, AdvanceCurrentView |
| client state | `core/internal/clientstate` | request IDs behind a condition variable, timers, last reply | Capture, Release, Prepare, Retire, Unprepare, Start, Stop, AddReply, ReplyChannel |
| client | `client/` | buffer with one request, replies | Request, AddReply, collectReplies, Terminate |
| USIG | `core/usig-ui.go`, `usig/` | counter, epoch, sealed key | create and verify a UI |
| authentication | `sample/authentication` | keys, captured epochs | generate and verify tags |
| messages | `messages/` | objects and the structures sent for them | construct, set UI or signature, marshal, parse, authenticated bytes |

A backup that gets a Prepare answers with a Commit to everybody; a proposal is
executed when `commitCertSize = n - f` replicas have committed to it, the
primary's Prepare being its own commitment. When a request is not executed in
time, replicas send ReqViewChange; `n - commitCertSize + 1 = f + 1` of these
start the view change: the replica sends a ViewChange with all it has sent in
the view, and the new primary makes a NewView from `f + 1` of them. The NewView
is itself a proposal that is committed to. Its execution means executing all
that its certificate shows to be prepared.

What makes this hard to test: several streams, timers and clients drive one
replica at once; a message can arrive directly, embedded in one or several
others, or not at all, because the log it was in has been reset; one gap in a
sequence of counter values makes a receiver drop the stream for good; requests
of the old view become pending again while newer ones arrive; replicas lag
behind by one or more views; a primary stops after telling only some of the
others. `PROJECT.json` lists these hazards at the lines where they bite.

## Modules

| module | models |
|---|---|
| `CommitmentOps` | acceptor and counter of `core/commit.go` as operators on the captured variables |
| `Commitment` | the collector alone, called with every commitment that replicas which keep the UI rules can make |
| `CommitmentProofs` | theorems about `Commitment` |
| `Messages` | messages, their validation, what is embedded in them, extraction of prepared requests |
| `Replica` | the handlers of one replica as operators on its state |
| `MinBFT` | the replicas, streams between them, timers and clients: the state machine and its properties |
| `StreamOps` | which message a stream of a log may deliver next |
| `LogStream` | what a message log promises to its streams, the abstract specification |
| `MessageLog` | the log and the goroutine behind each stream |
| `MessageLogProofs` | theorems about `MessageLog`, among them that it implements `LogStream` |
| `RequestSeq` | capturing, releasing, preparing and retiring the request IDs of one client |
| `RequestSeqProofs` | theorems about `RequestSeq` |
| `Replies` | replies to one client and the streams that wait for them |
| `ClientState` | the two joined: handlers capture, process and wait for the reply; retiring an ID begins its execution |
| `ClientStateProofs` | theorems about `ClientState`, among them that it implements `RequestSeq` |
| `HandlerLocks` | the locks of a replica and the handlers that hold them |
| `HandlerLocksProofs` | theorems about `HandlerLocks` |
| `ClientRequests` | the client: calls, request buffer, streams, collection of replies |
| `ClientRequestsProofs` | theorems about `ClientRequests` |
| `Usig` | the USIG enclave, its callers and the authentication scheme that verifies UIs |
| `UsigProofs` | theorems about `Usig` |
| `Wire` | message objects, their structures on the wire, the authenticated bytes |
| `CertifiedMessages` | the two joined: certified messages from the replica that generates them to those that accept them |
| `MC...` | instances for TLC, one per module that is checked |

`MinBFT` is the composition: replicas, each a `Replica`, joined by streams that
deliver as `StreamOps` says. The other modules look closer at one part and show
what `MinBFT` takes for granted about it: `Commitment` about the collector,
which `Replica` uses through `CommitmentOps`; `MessageLog` about the streams
(`LogStream` and `MinBFT` share `NextDelivered`); `RequestSeq` that capturing an
ID can be one step; `HandlerLocks` that a handler can be one step;
`CertifiedMessages` that a message is known by its sender and counter value and
arrives as it was sent. `Replies` and `ClientRequests` follow a request beyond
its execution, to the caller.

### Correspondence

`Replica` is one record per replica. A handler of the code is an operator from
that record to the next one; where the code calls through an injected function,
the operator applies the operator of that function. An error returned to the
stream handler sets `failed`, a panic `panicked`; from then on nothing changes
(`Stopped`), which is what returning early does. `sent` is everything the
replica ever appended to its message log and `logStarts` the places where the
log was reset, so that the log is a suffix of `sent`, and a stream is a position
in it. `currentView` and `expectedView` are those of the view state;
`captured`, `prepared` and `retired` those of the sequence state of a client;
`pendingReqs` and `preparedReqs` the request lists, one request per client;
`reqTimers` and `vcTimer` say which timers run and for which view, while
`reqTimerViews` and `vcTimerViews` also remember stopped ones, whose callback
may have started before it was stopped.

A message embeds others, which are handled before it. `HandleSteps` is the list
of what is still to be handled; each of them is a step, between which other
streams, requests and timers may come in.

The actions of `MinBFT` are: a client issues a request; a replica receives a
request; a replica handles the next message of a stream, of another replica or
of its own; a request timer or a view-change timer expires. The order in which
`requestlist.All` ranges over its map is arbitrary in Go and is a parameter
chosen with `\E`.

What is abstracted: a request is a client and a sequence number, a UI is its
counter value, a reply is the retirement of its request. Signatures and UIs are
genuine (`Usig`). Handling a message, without those it embeds, is one step, which
`HandlerLocks` justifies. The prepare timer forwards a
request to the primary, which the model covers by letting requests reach any
replica at any time.

The replicas of `MinBFT` are correct, slow, cut off or stopped; none deviates
from the code. Those of `ClientRequests` may also reply anything, and those of
`CertifiedMessages` restart without what they knew.

`MessageLog` has one action for each locked section or `select` of
`supplyMessages`; the channels that are closed and replaced (`newAdded`,
`resetChan`) are numbers, and having seen a channel is having its number. The
messages are numbered in the order they enter the log.

`RequestSeq` has a program counter per handler: `Capture` is a pass through the
loop of `CaptureRequestSeq` up to `cond.Wait`, and `Release` wakes all sleepers.
Preparing, retiring and unpreparing are done by other goroutines at any time the
callers allow.

`Replies` treats `waitChan` like the channels of the log. Executions come in
order, their results in any order. `ClientState` composes it with `RequestSeq`:
the executed requests of the one are the retired IDs of the other, and a stream
of the client begins to wait when its handler has finished with the request.

In `HandlerLocks` a handler is a list of stages; a stage takes one lock and does
what the code does on the strength of it, or does one operation on the log. The
view's lock lets a waiting writer keep out new readers, as Go's `RWMutex` does.
Releasing is one step at the end: the locks are released by `defer`. A Prepare or
Commit for a view that is not yet current is an error (`Early`): the sender's last
UI stays as it was, and the message may come again. Requests and the counting of
ReqViewChanges are abstracted to whether they come.

`ClientRequests` has a goroutine for the caller, for the stream to each replica,
for what arrives from it, and for collecting the replies to each request.

`Usig` splits a call into the enclave, and a verification, into what is read and
what is written; the locks that the code holds over both (`ecallLock`, the lock
of the authentication scheme) are guards. Replicas share a set of issued
signatures: who has a UI may present it with any message, at any time and as
often as they like. A signature is a record of what it signs; it enters the set
only through the enclave, which is what unforgeable means here. A replica whose
process ends keeps its sealed key, and its next instance draws a new epoch.
`FirstUIsReceived` is the assumption stated in `VerifyAuthenticationTag`
(`sample/authentication/crypto.go:201-217`): the others have captured the epoch
of a replica's first instance before the next one sends UIs.

In `Wire` a message object has the structure that is sent (`pb`) and, apart from
it, what its getters return: embedded objects, those of a view-change
certificate, and the UI. `Marshal` leaves out fields that have their default
value, `Unmarshal` puts it back. Digests are the authenticated bytes themselves.

A replica of `CertifiedMessages` generates any message that its log and what it
has accepted allow; in which cases it does is the matter of `Replica`. A message
may arrive as it was sent, with a UI of another instance, or altered (`Altered`):
with another request or proposal in it, with a log or certificate of which a
message is missing, exchanged, added or in another place, or with such changes
deeper inside, in any combination that the authenticated bytes of the outer
message do not exclude. The UI is verified before the message is validated
(`Valid`, all validators of certified messages), so that a message which is then
refused may still have its epoch captured; what is embedded must have been found
valid before. Accepting a Commit for a Prepare also sends a reply. The lock over
UIs in package `core` is held for as long as the call into the enclave, whose lock
stands for both.

## What is checked

| run | instance | shows |
|---|---|---|
| `commitment` | 4 replicas, certificates of 3, 2 views, counters to 3 | slots are ranked, execution is certified, complete and in order |
| `later_views` | n = 2, f = 0, two clients, two view changes | ranges of the request IDs, no request executed twice, no error in any handler unless a view was skipped, and each NewView carries what was executed |
| `three_replicas` | n = 3, f = 1, two clients, one view change | agreement, and NewViews, with quorums that are not everybody; pending requests are watched |
| `liveness` | n = 3, f = 1, one client with two requests that need not wait for results, replica 0 hears no other replica and may stop anywhere | both requests are executed by the correct replicas, unless one of these forgets a request for good |
| `client_state` | 3 handlers, 2 of them streams of the client, 2 IDs | one request of a client at a time, in order; duplicates return only after it is processed; no wake-up is lost; preparing and retiring do not panic; a stream gets its own reply or none, and does not wait for one that was overtaken |
| `message_log` | 2 streams, 3 messages, 2 resets | streams implement `LogStream`; the log is never read beyond its end; what stays in it is delivered; a cancelled stream ends |
| `handler_locks` | replica 1 of 3, 3 handlers, 2 clients, one view change that makes it primary | a message is processed once, UIs enter the log in order, resets lose nothing, nothing is sent in a view that was left, handlers do not block each other |
| `client` | 3 replicas, one faulty, 2 calls, termination | a result comes from a correct replica; requests are sent in order; each call ends, with a result unless terminated |
| `certified_messages` | 2 replicas with 2 goroutines, one of which may restart, 2 requests, 4 UIs of which 3 may be of one instance | UIs are sequential; correct replicas take one message for a counter value, with one log or certificate, down to the requests, although these are not signed; encoding and parsing give back the message |
| `forgotten_request`, `skipped_view`, `stale_pending` | n = 2 | disagreements between code and comments, below |

Bounds. `MaxSeq` bounds the requests of a client and `MaxView` the view that
timeouts ask for. Two requests are needed for a newer request to meet an older
one of the same client; two clients for two orders to disagree; two view changes
for the extraction to go down through an earlier NewView. With `n = 2, f = 0`
every certificate but the view-change certificate needs both replicas, so that
instance exercises interleavings and resets, not quorums; `n = 3, f = 1` has
quorums that meet in one replica. That instance is restricted by named
constants: `Contacted` says which replicas a client reaches (the two primaries,
one each, so that they propose different requests first), `Cut` which streams
deliver nothing (between these primaries, so that they learn of each other only
through replica 2), `Suspecting` whose timers may expire, and `Prompt` which
replicas handle their own messages before anything else. Each of these removes
behaviours; the first two keep those in which a quorum's knowledge matters most.
`Atomic` says which replicas handle a message together with all it embeds in one
step; the others do it piece by piece.

What this leaves open: errors of handlers (`NoHandlerError`) are looked for with
two replicas only, so not those that take a third one whose messages come by two
ways; and the clients of `three_replicas` have one request each (`MaxSeq`), so
that a newer request meets an older one in `later_views` and `liveness` only.

`liveness` is restricted in the same way. `Cut` is `CrashedDeaf`: replica 0, the
first primary, gets the requests of the client but no messages of its peers, so
that it proposes, and may stop after any of its proposals has reached any of the
others. `Prompt` are replicas 0 and 2, while replica 1, the primary of the next
view, handles its own messages at any time, so that what it has prepared may not
be executed when the view changes. `Restarting` lets the client send its second
request before the first has been executed. Together these make the case of
`forgotten_request` (below) occur in this run: the request of a client that a
correct replica captured last is neither prepared nor pending (`Forgotten`).
`RequestsExecuted` states this exception, for the client concerned and where it
lasts; without the exception the property does not hold in this instance.

In the smaller modules: two streams and two resets let one stream lag behind a
reset that another has seen, and behind two resets at once (`MaxMessages`,
`MaxResets`); three handlers are the least for two to wait for the same owner,
and for a reader, a waiting writer and a reader kept out by it. In
`HandlerLocks`, `Script` fixes the certified messages of the other replica, a
sequence that a correct one sends; `MaxCalls` bounds requests, timeouts and
messages brought a second time. In `ClientRequests`, `Wrong` says which wrong
replies a faulty replica gives (the correct one to the first request, so that a
correct replica may be overtaken and miss it; a wrong one to the second, so that
this replica is needed then), `Connected` which streams are followed (those of
the correct replicas), and `Late` from which replicas replies are still received
after `Terminate`.

In `CertifiedMessages`, three UIs of an instance (`MaxCounter`), of four in all
(`MaxUIs`), are enough for a ViewChange with a log from which a message may be
missing, a NewView with such a ViewChange, a Commit to either, and for the
restarted instance to certify something else; `MayFail` is the primary of the
first view, which has most to contradict itself about; there are as many epochs
as instances, and as they are interchangeable each instance is given one of them
(`EpochsInOrder`). Two requests that differ in the client only make the restarted
primary propose something else with the same counter value. `Quiet` lets only one
replica at a time have calls or verifications under way, as these are local to
it; its goroutines do interleave. Altered messages that would be refused are not
received (`Arriving`): at most their UI would be accepted, as it is with the
message they were made of. `UsigProofs` needs none of these bounds.

Of the two locks that `Usig` models, that of the enclave is what keeps UIs
sequential. `NoEquivocation` would survive without the lock of the authentication
scheme as long as `FirstUIsReceived` holds: two verifications that find no epoch
then verify UIs of one instance. The lock makes looking up and storing the epoch
one step for `CheckInv` of the proof, which does not depend on that.

Fairness of `MinBFT` (`FairSpec`, used by `liveness`). Streams, requests and running
timers of the correct replicas are served eventually: each has a goroutine or a
runtime timer of its own, and channels are reliable as long as both ends live.
Nothing is assumed of the replica that may stop. Fairness is stated as: the step
is disabled again and again, or what only this step changes does change again
and again. TLC need not evaluate `ENABLED` of a handler for that. The timers of view `MaxView` do
not expire; this stands for the assumption every such protocol makes, that
timeouts end up longer than the time the protocol takes.

Fairness of the other modules is that goroutines go on: each `supplyMessages`,
each handler, each goroutine of `ReplyChannel`, each stream and collector of the
client. Beyond that, `ClientState` assumes that the consumer delivers a result
for each request, and `ClientRequests` that correct replicas reply. Nothing is
assumed of callers: messages need not arrive and nobody need call.
`HandlerLocks` needs no fairness: a handler only ever has fewer stages to go
through, so that it returns if never all of those that run wait (`NoLockCycle`).

Deadlock is not checked where messages, requests and views are bounded: the
system stops when all is done. It is checked in `client_state`.

### Disagreements between the code and its documentation

- `skipped_view`: `api/api.go` says that the view-change timer "stops when
  receives a valid NEW-VIEW". A replica that is a view behind takes the NewView
  to advance its current view, but does not apply it and leaves the timer
  running. There is more to it when the replica catches up: a ViewChange has its
  certificate handled before its log, so the ReqViewChanges for the later view
  come before those for the earlier one and are dropped. Once the replica does
  expect the view whose NewView it skipped, its acceptor refuses the first Prepare
  of that view and the stream from the primary is closed. `NoHandlerError` is
  therefore stated for behaviours in which no replica has skipped a view.
- `forgotten_request`: the comment in `makeRequestApplier` relies on every
  correct replica to watch over captured requests. If a request of a client is
  prepared and its next one captured when the view changes, unpreparing
  overwrites the newer one in the list of pending requests; nobody starts a
  timer for it in the new view.
- `stale_pending`: `handleOwnPeerMessages` panics on an error with an own
  message. With a client that restarted, and so has two requests outstanding,
  the primary of a new view can find the older request pending after the newer
  one was prepared, propose it, and fail on its own proposal.

## What is proved

### Commitment collection

`CommitmentProofs` proves for any finite set of replicas, any certificate size,
any sets of views and counters:

- `TypeCorrect`, `SlotsAreRanked`, `OnlyCertifiedExecuted`,
  `AllCertifiedExecuted`: the four invariants of the run `commitment`;
- `InOrder`: its action property.

`makeCommitmentCounter` remembers no replicas, only the highest counter values
seen. That this is enough rests on the acceptor: a replica's commitments come
without gaps, so whoever has committed to counter `k` has committed to all
before it. The argument goes through ranks. The rank of `k` is the number of
replicas known to have reached `k` in the counter's view. `Ranked`, the core of
the inductive invariant `IInv`, says that slot `i` is at least `k` exactly when
the rank of `k` is at least `i`. One commitment to `k` raises the rank of `k` by
one and no other, and the loop that takes the first slot below `k` does the same
to the slots (`TakeSlotRanks`); "done" is answered exactly when the rank exceeds
the number of slots (`RankedAfter`). None of the properties is inductive without
this, nor without `VotedUp` (who has reached `k` has voted for all before it),
`Entered` (counters of a replica in a view start with that view's first
proposal), `NoLaterExecuted` and `CompleteExecuted`. The assumptions are those
of `Commitment`: finitely many replicas, a positive certificate size, and that
the NewView of a view has one counter value, which the USIG of its primary
provides.

### Request IDs

`RequestSeqProofs` proves for any set of handlers and any number of IDs
`TypeCorrect`, `CaptureIsExclusive` (`OneOwner`), `CapturedInOrder`
(`ProcessedInOrder`), `CaptureWaits` (`HandledIsReleased`), `WaitersHaveOwner`
(`NoLostWakeup`) and `PreparedAndRetiredInOrder` (`NeverPanics`). The code keeps no owner, only the
last captured and the last released ID. The inductive invariant ties the two:
an ID is captured and not released exactly while one handler processes it
(`CapturedHasOwner`, `InUse`), so a handler that finds captured above released
may rely on a release to come, and one that finds them equal is alone.
`ProcessedBelow` gives the order of processing and `ProposedBelow`, that only
prepared IDs are ever retired, the absence of panics. The only assumption is
that the bound on IDs is a natural number.

### The state of a client

`ClientStateProofs` proves for any number of handlers, streams and IDs
`KeepsRequestSeq`: the joint state of a client implements `RequestSeq`, so that all
of the above holds with handlers that wait for replies (`RequestsOneByOne`); and
`OwnReplyOrNone` (`AnswersItsRequest`). The latter rests on `ReplyInv`: the pair of
ID and reply that a stream has read is of one and the same request, as both are
read under the lock, and it is no newer than the state. A stream that returns
without a reply has read a later one, and the last replied ID never goes back.
The ID a stream waits for does not change under it because its handler begins
the next request only after it has returned. The only assumption, besides that
of `RequestSeq`, is that streams of the client are handlers.

### Message log

`MessageLogProofs` proves for any set of streams and any number of messages and
resets `TypeCorrect`, `NeverBeyondLog` (`ReadsWithinLog`) and
`ImplementsLogStream`: every step of the goroutines is a step of `LogStream` or
changes nothing there. The state both share is what entered the log, where logs
began, and how far each stream has come. The argument distinguishes goroutines by
whether they have seen the last reset. One that has (`Current`) has read the
first `next` messages of the log, which therefore is not beyond its end, and has
sent them or holds their rest. What one that has not (`Stale`) has read and sent
precedes the log, so that after seeing the reset it starts over without
repeating or reordering anything. `SliceIsNext` then makes each send a `Deliver`.

### Handlers and their locks

`HandlerLocksProofs` proves for any number of handlers, clients, senders, views
and calls, and any certified messages of the other replicas,
`ProcessedOnceAndInOrder` (`ProcessedOnce`) and `SilenceAfterViewChange`
(`SilentAfterViewChange`). The inductive invariant says of each handler what it
holds at the stage it has come to. `SenderInv`: past the lock of its sender, a
handler of a certified message has this lock, and its message is the sender's
next one; a message that was found to be new is still new when it counts as
processed. `ViewInv`: a handler that applies a message, resets the log or
generates a message has the view, for reading or for writing, and does so for the
expected view; what it checked when it got the view holds until it returns,
because the view is advanced only while nobody has it. `SentInv`: the views of
generated ViewChanges are at most the expected one. Every message is therefore
generated in a view no lower than those of the ViewChanges before it. The stages
are what the argument is about: `NextStage` goes through what can be left of them
for each kind of message. The assumptions are that a handler is not the value
`Nobody`, that replica IDs are below `N`, and that the other replicas' messages
are Prepares, Commits, ViewChanges and NewViews.

### The client

`ClientRequestsProofs` proves for any number of replicas of which at most `F` are
faulty, any number of calls, and whatever faulty replicas reply,
`OnlyReplicatedResults` (`ResultIsReplicated`) and `RequestsInOrder`
(`SentInOrder`). The inductive invariant says of a reply set that its replies
are to its request, at most one of each replica, and those of correct replicas
with the right result (`RepliesInv`); and that a reply on its way there is
like this too (`ArrivedInv`), as the request may be removed between the check of
its number and its being added. More than `F` equal replies then come from more
than `F` replicas (an injection, `AcceptedIsReplicated`), one of them correct.
For the streams, `StreamInv` says that what a stream holds is above all it has
sent: the request was read under the buffer's lock, but is sent after it. The
assumptions are those of `ClientRequests`: finitely many replicas and at most `F`
faulty ones.

### USIG

`UsigProofs` proves for any sets of replicas, goroutines, messages and epochs,
and any number of restarts, `UIsAreSequential` (`SequentialUIs`) and `OneInstance`
(`NoEquivocation`). `EnclaveInv` says that an instance has an epoch of its own,
has issued exactly the counter values below its counter and signs one message at
a time; `CaptureInv`, that correct replicas which have captured an epoch of a
replica have captured the same, and that as long as one has not, all UIs of
that replica are of one instance, which is where `FirstUIsReceived` is needed;
`CheckInv`, that a verification goes on with the epoch that is still the captured
one, which is what the lock is for; `AcceptInv`, that whatever was accepted was
issued by the captured instance. Two messages accepted with the same counter
value are thus certified by one instance, and it certifies one message per value.

### Only model-checked

Everything about `MinBFT`, what `CertifiedMessages` adds to `Usig`, and three
properties of `HandlerLocks`: `NoLockCycle`, which is about what is enabled,
`LogInOrder` and `NothingLost`. Liveness is out of the prover's reach, and the
modules `Messages`, `Replica` and `Wire` use recursive operators.

## Not modelled

- Cryptography: signatures and digests are abstract. The signatures of clients
  and of ReqViewChange and Reply messages are taken to be genuine.
- Conversions of keys and signatures between the formats of SGX and Go, loading
  of the enclave library, and the format of the key store: no protocol state.
- Generated protocol buffers, beyond what marshalling does with default values;
  logging and the textual form of messages; gRPC transport, configuration,
  command line and the sample ledger.
- Structures on the wire that no correct replica makes: with an inner message
  missing, or a Commit to something that is not a proposal.
- The opening of streams by Hello messages, and the shutdown of a replica beyond
  its reply channels and streams.
- Replicas that deviate from the protocol, except towards clients and by
  restarting.
- Concurrent calls of `Request` on one client, which the repository lists as a
  feature to come.
- Durations and back-off of timers: a timer may expire at any time. Prepare
  timers only forward a request, which the model allows at any time.
- Recovery of a replica that has closed the primary's stream after skipping a
  view: the code has none.
