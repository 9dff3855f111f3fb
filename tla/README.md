# Wildbloom in TLA+

Wildbloom moves files between people without keeping them: a page in a browser
sends a file straight to a receiver ("Drop") over WebRTC, or stores an
encrypted envelope with Blossom servers, pools and a swarm. This directory holds
TLA+ models of the parts whose correctness depends on what happens in which
order, the TLC configurations that check them, and TLAPS proofs.

Everything is translated from the TypeScript under `src/` of the repository
(here `src/src/...`); `PROJECT.json` maps each definition to the lines it
stands for.

## The system

| Part | Source | State it keeps | Operations | Talks to |
|---|---|---|---|---|
| Envelope transfer | `direct/transfer.ts`, `frames.ts`, `sink.ts` | offsets, last ACK, pause flag, sink queue, settled outcome | DATA, ACK, END, KEPT, STOP handlers; abort; close; low-water event | the session (call, abort signal), the data channel, the sink |
| Direct session | `direct/session.ts`, `messages.ts` | message counts, send chain, stop and end flags, recorded failure, watch clocks, restarts used and pending | invite, manifest, accept/decline, answer, restart, restart-answer, stop; give up; close | the exchange, the peer connection, the transfer, the page |
| Peer connection | `direct/peer.ts` | the RTCPeerConnection and its one negotiated channel | offer, answer, applyAnswer, close | the browser |
| Pacing | `direct/pacing.ts` | tokens, the path last seen, reads in flight | send allowance, path reads with retries | the peer, the transfer |
| Send page | `send/main.ts`, `state.ts`, `screens.ts`, `source.ts` | screen, pairing run, flow, session, file | pairing, yes/no, choose, stop, countdown, page hide | the pairing kit, the session, the screen lock |
| Screen lock | `send/wakelock.ts` | wanted, the sentinel held, a pending request | hold, release, grant, release event, page shown | the browser's wake lock |
| Get page | `get/*.ts` | screen, words, pairing flow, share details, kept channel, file | pairing, download, save, tell the sender | pairing kit, Blossom |
| Relay client | `core/relay.ts` | one socket's timer and settled flag per call | publish, look up | WebSocket relays |
| Discovery and directory | `core/discovery.ts`, `storage-discovery.ts`, `storage-proof.ts` | newest record per service | discover nodes, discover services, audit | relays, nodes |
| Pool storage | `core/pool.ts`, `erasure.ts` | manifest, placements | prepare, extend, upload, fetch, repair, audit | Blossom, erasure code |
| Checkout and services panel | `core/checkout.ts`, `services-http.ts`, `services-ui.ts` | offers, order, request id, consent, the action in progress | discover, select, inspect, offers, quote, pay, check, recover | nodes, the signer |
| Publishing | `main.ts`, `core/blossom.ts`, `nostr.ts` | form, inspected file, descriptor, receipt, signed events, three controllers, one signing request | inspect, connect, upload, sign, publish | the signer, Blossom, relays |
| Retrieving and swarm | `main.ts`, `core/swarm.ts`, `torrent.ts` | resolved event, save link, transfer, peer sessions and those being stopped | resolve, fetch, repair, join, seed, leave | relays, Blossom, WebTorrent |
| Encryption | `core/crypto.ts`, `security.ts` | an encoder's counter, hash and busy flag | seal record by record, open | the transfer, the pages |
| Cross-device ceremony | `scripts/cross-device-coordinator.mjs`, `cross-device-evidence.mjs` | evidence, sockets, uploads | blob server, relay, tracker, stop, verify | two devices, a capture |

What is hard in it, part by part (each is a hazard in `PROJECT.json`, with its
line and the property that would catch it):

* **Transfer.** Two ends pace each other with a byte window and delayed ACKs
  while the browser's send buffer pauses one and a slow sink the other. Stops,
  closes and give-ups land between a write and its completion. It is correct if
  success at the sender means a kept file, only whole files are kept, memory
  stays bounded, a failed receive leaves nothing behind, and every transfer ends.
* **Session.** Two counters of messages must agree through restarts, stops and
  a lossy exchange; a stop must leave before the exchange closes; a deadline
  must not end a transfer that moves; when one end goes the other must find out
  although no close event is certain.
* **Pages.** A screen reducer receives late events of superseded runs, hidden
  pages, an expiry at a moment when it must be ignored. The send page is correct
  if Yes confirms the words it shows, no screen waits for something that will
  not come, the phone may sleep once the session is over, and no ending denies
  a file that may have been kept.
* **Screen lock.** The browser's answers come late: a grant after the release,
  a release event of an older lock. No lock may be lost track of.
* **Pacing.** The bucket is asked at odd times and learns what was spent only
  by the next question, while overlapping reads decide whether it applies at all.
* **Relays and directories.** Answers come from several relays in any order,
  some are late, some contradict each other, and what was withdrawn must stay so.
* **Pool storage.** Nodes fail, return and spoil parts between two requests of
  one operation; a report of protection must survive the failures it promises.
* **Main page.** A dozen handlers await signers, servers and peers at once while
  the form under them is edited and consent is withdrawn.
* **Checkout.** A timeout leaves an order of unknown outcome, and a ticked box
  must never cover an order it was not ticked for.
* **Envelope.** Three parts of the code compute the same lengths for themselves.

## Modules

| Module | What it is |
|---|---|
| `DirectTransfer` | `sendEnvelope` and `receiveEnvelope` joined by a data channel |
| `DirectDelivery` | abstract promise of a transfer: what each end may have been told about one file |
| `DirectTransferProofs` | inductive invariant, its proof, the theorems, the refinement; what is proved of `Pacing`, which paces a transfer |
| `DirectSession`, `DirectSessionProofs` | both sessions, their links, watches and restarts; what is proved of either end and of the two together |
| `Pacing` | the token bucket, the rule that follows the path, the watch on the path |
| `SendPage` | the sender's page: the reducer and the handlers around runs and session |
| `ScreenLock` | `createScreenLock` against a browser that answers late |
| `SendDevice`, `SendDeviceProofs` | composition of `SendPage` and `ScreenLock`, with the servers a connection is built from; what is proved of the two and of the whole |
| `GetPage`, `GetPageProofs` | the recipient's page: the reducer, the handlers and the one reply; what is proved of it and of `Envelope`, which it opens |
| `Relays` | requests to several relays: publish, look up, discover nodes and services |
| `Erasure` | Reed-Solomon coding over GF(256) as operators; no state |
| `PoolStorage` | a file kept as copies or coded parts: upload, fetch, repair, audit; the code is a parameter |
| `NodeServices`, `NodeServicesProofs` | the services panel: selecting a service and buying storage from it |
| `Publishing`, `PublishingProofs` | the publishing half of the main page |
| `Retrieving`, `RetrievingProofs` | its retrieving half, with seeding and the swarm sessions |
| `Envelope` | the encrypted envelope: encoder and reader |
| `CrossDevice` | the acceptance ceremony of two devices, and the verifier of its evidence |
| `NetworkProofs` | what is proved of `Relays`, `PoolStorage` and `CrossDevice` |
| `MC...` | one for each run: the constants, the symmetry and the view |

### DirectTransfer

One behaviour is one `sendEnvelope` call against one `receiveEnvelope` call. A
step is one JavaScript task with its microtasks. `toR` and `toS` are the frames
in flight in each direction, in order; a frame is its type with offsets and
lengths, not bytes. The variables keep the names of the locals they stand for:
`sent`, `acknowledged`, `paused` in `sendEnvelope`, `received`, `written`,
`lastAck`, `queue` in `receiveEnvelope`; `sPhase`, `rPhase`, `sFail`, `rFail`
say where each call stands and why it failed. Each handler is one action: `S_Record` and `S_SendData` are the send
loop, `S_Ack`, `S_Kept`, `S_Stop` the frame handler, `S_Low` the
`bufferedamountlow` event, `S_Abort` the signal; `R_Data`, `R_End`, `R_Stop`,
`R_Closed`, `R_Abort` are the receiver's handler, and `R_StepStart`,
`R_WriteDone`, `R_EndDone`, `R_StepFails` the sink queue it fills. `R_GiveUp`
is `ReceiverSession.accept` aborting the sink when the watch gives up.
`Drain` and the close actions are the browser's and marked external.

Abstracted: frame encoding (malformed frames do not come from these two ends);
the cipher and the hash (the sink says yes or no); pacing (an extra delay
before a DATA frame, which the model's arbitrary scheduling includes).

`DirectDelivery` says what a pair of calls may report: the file is held or not,
each end was told or not, and the sender is told it arrived only while it is
held. `DeliveryPromise` is that specification under the mapping in
`DirectTransfer`.

### DirectSession

`side["page"]` is a `SenderSession`, `side["drop"]` a `ReceiverSession`, each
one record: the link's counters and send chain, where the running call stands
(`phase`), the recorded `failure`, the loop that reads the exchange (`reader`),
the peer connection with its channel, the watch's clocks, and Drop's restarts.
The private methods are operators on that record with their names
(`LinkSend`, `LinkStop`, `LinkEnd`, `GiveUp`, `Fail`, `NoMoreRestarts`,
`Evaluate`), so that an action is the whole of what the handler does. `Rejected` and
`Caught` are the `catch`/`finally` of the calls; `CloseNow` is the `close()`
after the drain, or the host's `finish()` after the calls that do not close
themselves.

Messages are their event, a stop also its reason; `AllowedEvents` is the table
of `messages.ts`. `Carry` brings a message to the other end, `SendSettles`
lets the request return, so the other end may act in between.

External, as the code uses them: the exchange keeps order, and once it fails at
an end it has failed there for reads and sends (expiry and network failure are
treated alike by the code, and are one here); a connection comes back from
`failed` only through a restart; a peer closed before its channel opened
rejects `peer.channel` (`peer.ts:170`); a connection can fail once both ends have
the other's description, before it was ever up too.

An error that is neither a `DirectError` nor a `TransferError` can come from the
encoder, from creating or describing the peer, and from `createSink`.
`failureForTransfer` makes `protocol` of it, and so does `Throws`; the history
variable `threw` remembers at which end, so that `HonestSessions` can tell it
from an accusation. When describing a restart throws, Drop gives that restart
up (`RestartOffers`); when answering one throws, the page ends its restarts as
after a failing exchange (`PageAnswersRestart`). A restart answer that cannot be
applied is not told from one that is and after which the connection fails again.

Left out: forbidden channels and tracks (`violation()`), which these ends never
open; restarts requested by the host before the answer has been applied; the
frames lost while `createSink` runs, which are `missed` in `DirectTransfer`.

### SendPage

The `ViewState` is seven variables (`screen`, `offline`, `reconnecting`,
`hide`, `relayOffered`, `endSent`, `words`; `words` is the pairing run the check
words came from), the module-level `let`s of `main.ts` the rest. `Where` and
`Target` are the reducer's table: the screens an event applies to and the one
it leads to; `Dispatch(e)` is `dispatch`, `Go(e)` the part of it that events
carrying data share. A `connect()` call is a number; `controller` is `run`, the
newest one, and `runs[r]` says where the `r`-th call stands. An aborted call
stays until its promise rejects (`RunAborted`), at any later time and after
any number of newer calls.

The session is the contract that `DirectSession` establishes: one call at a
time (`invite`, `offer`, then the stages of `send()`), which resolves, or fails
in one of the ways `SettlesAs` lists for that stage. `FailsAsShown`, a part of
`EndsAsPromised` in the run `session`, checks the same list against
`DirectSession`, so the two modules fit.
`end` is the truth the page cannot see: whether the end marker is out and
whether Drop has kept the file, which it may do after the page has stopped.

`PageHides` is `pagehide`; the page may be shown again from the back-forward
cache, with `left` saying that it was hidden since the last `connect()`. It then
shows its screen with nothing behind it: before the offer the countdown ends
that screen, from asking on only Stop does, and `ScreensAreLive` excepts it.

External: an aborted `relay.recipient` or `pair` rejects; a transport error of
kind `cancelled` comes only from the abort. `unreadable` is a screen nothing in
`main.ts` dispatches. Progress, names, sizes and announcements are left out.

### ScreenLock

`wanted`, `sentinel` and `pending` of `createScreenLock`; `asking` says which of
the two `await`s `pending` stands for. The browser's side is external: `active`
locks keep the screen on, those in `leaving` were asked to go, and a lock that
has gone has a release event to deliver (`events`). A hidden page loses every
lock and hears of it before it is shown again.

### SendDevice

`SendPage` and `ScreenLock` share no variable: the page's `lock` says what it
asked for, and `LockFollows` makes every page step that changes it the lock
object's `hold()` or `release()`. To this it adds the invitation's servers
(`readIce`), whether the browser refuses the `?transport=tcp` spelling
(`openConnection`), and the configuration a peer is built from: allowed servers
only, relays only when the person hides, and a second attempt without the
spelling that was refused. `no-relay` is thereby an outcome of the servers and
no longer a free choice. A page holds its lock once in its life, which is why the
caveat on `hold()` below does no harm in it.

### Pacing

The bucket (`Ask`, `Wakes`, `Poke`) and the watch on the path (`Refresh`,
`ReadEnds`, `RetryFires`, `SettleFires`, `AfterRestart`, `Stop`). Time passes in
units (`Tick`); a unit allows `Rate` bytes. `reference` is the bucket of the
protocol's text, filled by the clock and emptied by each frame, which the code's
bucket only reconstructs from the bytes sent between two questions. Reads of the
selected pair are external: they may be slow, fail, overlap and come back after
the refresh they belong to is over.

### GetPage

The recipient's reducer and controller, with the names of the screens as in
`get/state.ts` (`r12` checks the words, `r16` downloads). A `connect()` call and
a download are both calls with an `AbortController` of their own. `told` counts
`channel.reply()`, `handed` whether a file went to the browser under a live
object URL. Fetching and opening are external: they end, well or badly, while
the page is awake.

### Relays

One request at a time over one socket per relay; a promise settles once, and
what its settling sets off (closing the others, merging, the page's record of
services) happens in the same step. Relays are adversarial: any event at any
time, acknowledgements of other events, silence. `watermarks` is the storage
directory's record of each service, with its limit; the age limit of lists may
move while a discovery runs.

### Erasure and PoolStorage

`Erasure` is the arithmetic of `erasure.ts` over the code's own field, with the
matrix inversion and its row swaps; it is pure. `PoolStorage` takes the coding
as its parameters `Encode` and `Decode`, which the run binds to `Erasure`, so
that fetched parts really are decoded there. `PoolStorage` runs one operation at a
time, one request a step, while nodes fail, return, lose and spoil what they
hold between any two requests, during an audit too. An acknowledged upload is
read back, as in the code.

### NodeServices

The services panel over `checkout.ts` and `services-http.ts`. Each click starts
an action in a slot; `fresh` says whether it is the current one, `aborted`
whether its signal is. A node's terms are a number that may rise, and an order is
named by the node and the request id. A request may succeed at the node and fail
on its way back. `EditKeys` and `UseService` connect the panel with the main
page's form.

### Publishing and Retrieving

The two halves of `main.ts`. A handler is a task with the values it captured
before its first `await` (`of`, `net`, `method`); `fresh` compares the revision
it captured with the present one. `Goes(s)` lets a handler take its next step:
the answer of a server, a signature, an abort, and the `catch` and `finally`
behind it. `Edit` and `Click` (`User` in `Retrieving`) are the event listeners.
In `Publishing` one signing request is shared by all handlers and by the node
services (`Service`); `TimesOut` is the deadline of an upload or of a pool part that
passes while it waits for the panel, which leaves the request to nobody
(`Orphan`). In `Retrieving` a repair to more nodes first waits for a longer receipt
to be signed (`Repair`, `RepairSigned`), which then takes the place of the one that
is shown; receipts are told apart by their `Payload` only. `stopping` counts the sessions that are
being destroyed, confirmed or not within five seconds. They share the profile
and the Tor confirmation, whose change is an edit in each.

### Envelope

The encoder, record by record, at the code's own sizes (a 1 MiB record, a 16
byte tag, a file limit of 256 MiB): a stretch of plaintext is an interval of the
source, so no size is scaled down. `next()` may be called by two callers and may
fail while it reads. A reader is given the envelope as it was made, or with
records missing, repeated, exchanged or from another envelope, of this release
or an earlier version. AES-GCM is perfect.

### CrossDevice

The coordinator of the acceptance ceremony and the verifier of its evidence. A
connection whose request is not yet complete is in `arriving`, one whose body is
being read in `uploading`; while the server listens `RequestTimesOut` ends such a
request, and once `stop()` has called `server.close()` only its client does
(`ConnectionLeaves`, `UploadEnds`, `UploadFails`). `evidence` is what it has in memory, `file` what it last wrote; `together`,
`cut` and `late` are the truth that the evidence must not contradict. The
persons follow the plan of the ceremony but for `Slips` acts or faults.

## Runs

| Run | Module | Bounds | Properties |
|---|---|---|---|
| `transfer` | `MCDirectTransfer` | a six-byte envelope of a header and two records, window 3, ACK every 2, frames of at most 2 bytes, both water marks 1 | `IInv`, `HonestTransfers`, `Settles`, `DeliveryPromise` |
| `session` | `MCDirectSession` | 1 restart, 4 messages, any 2 faults | `SessionFits`, `HonestSessions`, `NobodyLeftWaiting`, `DueCanHappen`, `EndsAsPromised` |
| `send_device` | `MCSendDevice` | 3 `connect()` calls, 2 locks, 4 servers | `DeviceInv`, `ScreensAreLive`, `ChecksItsOwnWords`, `HonestEndings`, `NothingLeaks`, `AbortedRunsAreMute`, `EverythingEnds` |
| `get_page` | `MCGetPage` | 4 calls | `PageFits`, `ReplyMeansSaved`, `CallsEnd` |
| `pacing` | `MCPacing` | rate 2, burst 4, frames of 1 and 4, 1 restart, 1 retry | `PaceFits`, `FramesFlow` |
| `relays` | `MCRelays` | 2 relays, 2 requests, 2 messages each, 1 remembered service | `AnswersAreTrue`, `NeverResurrects`, `RequestsEnd` |
| `pool_storage` | `MCPoolStorage` | 5 nodes, 2 operations, 2 faults, replicated and coded layouts | `PartsFit`, `ProtectedSurvives`, `FailsOnlyIfLost` |
| `node_services` | `MCNodeServices` | 2 nodes, 2 actions at once, 2 terms, 2 request ids | `PanelFits`, `OrdersFit`, `CancelledIsOver` |
| `publishing` | `MCPublishing` | 2 handlers at once | `PublicationFits`, `ConsentStands`, `SigningFits` |
| `retrieving` | `MCRetrieving` | 2 handlers at once, a torrent, a pool receipt and the one it may be extended to | `ShownFits`, `PeersFit`, `WithdrawnLeaves` |
| `envelope` | `MCEnvelope` | the code's sizes, boundary files, 2 callers | `SealingFits`, `OpensToSource` |
| `cross_device` | `MCCrossDevice` | 3 devices, 2 blobs, 1 slip | `EvidenceIsTrue`, `StopEnds` |

All pass. Many of these properties are conjunctions of named parts (those that
end in `Fits`, `Inv` or `True`, and `EndsAsPromised`, `EverythingEnds`,
`CallsEnd`, `RequestsEnd`, `CancelledIsOver`), each part stated with its comment
in the module. What they say:

* **transfer.** `HonestTransfers` says that two honest ends never accuse each
  other and that success at the sender means a kept file. `IInv` is the inductive
  invariant; from it follow
  `OnlyWholeFileKept`, `ReceiverBacklogBounded`, `SendBufferBounded` and
  `RejectedHoldsNothing`, by theorems. `SendBufferBounded` allows two frames over
  the high-water mark: a `bufferedamountlow` event queued before the buffer
  refilled ends the next pause at once. `DeliveryPromise` is the refinement of
  `DirectDelivery`.
* **session.** No breach between honest ends, with the three exceptions named
  below (an end whose own encoder, peer or sink threw, a channel that closed before
  it opened, a stop before the invitation); room for a stop; nothing left open; nothing sent behind a stop; no
  deadline that ends a moving file. `NobodyLeftWaiting` says that when one end
  has ended, the other has a step due (`Due`) without a person or a close event,
  and `DueCanHappen` that what is due is enabled.
* **send_device, get_page.** A waiting screen has something behind it, Yes
  confirms the words it shows, endings are honest about the file, the sender is
  told once and only of a file that was handed over, cancelled runs are mute, links and
  downloads end, the screen sleeps again, and who hides goes through relays.
* **pacing.** Never above rate and burst of the protocol's bucket; a wait that
  was asked for is long enough; when no look is due the rule fits the path.
* **relays.** The recommended nodes follow from the latest list of each author
  whatever the order of arrival; a withdrawn service stays withdrawn.
* **pool_storage.** A report of protection survives the failures the layout
  tolerates; a fetch fails only if parts were really missing, so any sufficient
  choice of parts decodes.
* **node_services.** Only an order the box was ticked for is paid; an order made
  behind a timeout is found again by the next quote.
* **publishing, retrieving.** What is staged, shown or sent belongs to the form and
  the consents as they are now, though handlers from before an edit end after it.
  `SigningFits` says that a signing request open for a handler has that handler live
  and waiting, that no handler waits for a request that is gone, and that a request
  open for nobody after a deadline is one the page would still allow: an edit or a
  withdrawal has closed every other. `ShownFits` says that the event shown is the
  one the form names or a receipt of the same payload that a repair has extended
  it to, and that a late signature of such a repair shows nothing.
* **envelope.** A reader gets the source or nothing.
* **cross_device.** What the verifier accepts took place. `StopEnds` says that
  `stop()` ends once no request is half made and no body half sent, unless a socket
  was opened after the others were told to close. Both exceptions are reached
  with one slip.

**Bounds.** Each instance is chosen so that the case at issue happens. In
`transfer` the window is smaller than the envelope, records and frames do not
line up with ACKs, and the water marks are crossed more than once. In `session`
`Faults` bounds how many things nobody asked for happen (a stop, an exchange
failing, a connection dropping, a network change, a failing file);
an error thrown by the encoder, the peer or the sink is free, and so are expiry and a
vanished peer once the other end is gone. One restart
with four messages keeps the proportion of the code's five with eight: two for
the agreement, the restarts, one for the stop. Three `connect()` calls allow one
that was cancelled, one that failed and one that pairs, settling in any order;
four calls of the recipient's page allow a pairing and downloads that are
cancelled, fail and are retried. Two slots let a superseded handler end while
its successor runs; in `publishing` there are three, so that two of different kinds
may be overtaken. In `retrieving` the form can
name the torrent and the receipt (`Shared`), and not the longer receipt that a repair
signs, which it would name as it does any other; the theorems let it name all. Two requests over two
relays let the second meet what the first recorded. Two operations with two
faults reach an upload, its loss and its repair or fetch. Each property has a
mutant of the code that breaks it within its bounds.

**Symmetry.** Nodes and slots in `node_services`, which has no liveness property.

**Views.** `session`, `publishing` and `node_services` have a `VIEW`, defined in their
`MC` modules: states that differ only in what no step and no property reads again
are explored once. Those are the leftovers of an end that has wound down (mail that
its reader will never take, the failure of a call that is over, the indices of a
closed link) and what an overtaken handler had been started for. None of the three
has a liveness property. Without the views `session` and `node_services` also pass, with
between three and four times as many states, and so does `publishing` with two
slots.

**Deadlock.** Checked except in `envelope` and `cross_device`, which really
stop: an opened or failed envelope, an exited coordinator. In the others a state
with nothing left to do is named in the next-state relation.

**Fairness.** Only what the runtime does by itself is fair: ready tasks and
microtasks run, frames and drained bytes arrive while a channel is open, timers
fire, an aborted or bounded operation ends. No person ever has to act and no
fault has to happen. In `DirectTransfer` the channel delivers or closes. In
`SendPage` only the clock and the countdown's interval are fair: no promise has
to settle for a link to end; the browser answers a lock request and lets go of a
lock it was asked to release. In `GetPage` also a running download settles. In
`Pacing` the clock ticks, waits end, and an ACK comes for what is in flight. In
`Relays` each socket's timer fires. In `Retrieving` a waiting handler goes on
and a stop ends within its five seconds. In `CrossDevice` a socket told to close
closes, or `ws` destroys it, and `stop()` goes on when its waits are over. Nothing is
fair there for a half-made request or a stalled body: `server.close()` also ends the
periodic check behind `headersTimeout` and `requestTimeout`.
`DirectSession` states no fairness: `NobodyLeftWaiting` and `DueCanHappen` ask
whether a step is due and enabled, not that it is taken.

## What is proved

`DirectTransferProofs` proves for every envelope length, frame size, window,
ACK distance and water marks that satisfy the assumptions of `DirectTransfer`:

* `Invariance`: `Spec => []IInv`;
* `TypeCorrect`, `TransfersStayHonest` (`HonestPeersAgree` and `SuccessIsTrue`), `KeptIsWhole`,
  `BacklogBounded`, `BufferBounded`, `RejectionIsClean`: the safety of a transfer;
* `KeptForGood`: no step takes back a kept file of a receiver that has not
  failed;
* `Refinement`: `Spec => DeliveryPromise`.

None of the properties is inductive alone. What makes them so is a picture of
everything between the two ends: the DATA frames on the wire, in the order they
travel, continue exactly where the receiver stands and end where the sender
stands; the sink queue does the same between what is written and what has
arrived; ACKs in flight ascend, are news to the sender and true of the sink; END, if sent, is last and says the whole length;
KEPT is sent only after the sink kept the whole file. `IInv` is the conjunction
of these parts with the type invariant and with what each phase implies. The
window check follows from the first three: what the sender may have out is
counted from an ACK no newer than the receiver's own. The proof has one lemma
per action, and under it a step for each part that the action disturbs; parts
about sequences rest on a few lemmas about appending to and taking from them.

Assumptions (`DirectTransfer`): positive lengths and limits, the low mark not
above the high one, an ACK distance that fits the window.

The same module proves `PaceAlwaysFits` of `Pacing`, for every rate, burst, set
of frames, number of restarts and of retries. `BucketInv` relates the protocol's
own bucket to the pacer's tokens, which are out of date by what was sent and what
has flowed in since; `WatchInv` says that a look at the path is due whenever the
rule may be wrong, and counts the looks. The rest is arithmetic of division
rounded up. Assumed is that the burst holds a frame, and that the wait for an
unknown path and the longest idle time of the model fill the bucket, as they do
at the code's values.

`DirectSessionProofs` proves `SessionAlwaysFits`, `SessionsEndAsPromised`,
`SessionsStayHonest` and `NobodyIsLeftWaiting` for every `LIMITS.restarts` and `messagesPerSide` with `Messages >= Restarts + 3`
(the code has 5 and 8, the least that will do) and any number of faults:

* an end that has neither stopped nor ended can always still send its stop;
* a session that has ended holds neither its peer nor its exchange, but for one
  that still carries its stop;
* no index is taken behind a stop; no deadline ends a call whose file moves;
  each call of the page's session fails only in the ways its screen answers;
* neither end ever finds the other in breach of the protocol, but for the three
  cases `HonestSessions` names;
* when one end has ended, the other has ended, waits for its person, or has
  something due that needs neither the other end nor a close event.

All but the last two are about one end: their proof assumes nothing of the other, of
the exchange or of the browser but the types of what arrives, so they would hold
of a session whose partner does not keep to the order of messages. Their
inductive invariant is `SideInv`. `ChainFits` says that a message in the send
chain whose sender waits for it has its sender waiting, so that what follows a
send happens in the phase it was sent in. `IndexFits` counts the indices a phase
and the restarts used allow, one less while a restart is being described.
`EndFits` says what is closed when; `BlameFits` what can have been recorded as
the failure in each phase; `ReasonFits` that nothing is closed or stopped under
a running call without a recorded failure, which is what makes the page's
failures follow from the phase although most of them travel through the
recorded one. The operators that wind an end down (`LinkStop`, `ClosePeer`,
`Blame`, `GiveUp`, `Fail`, `Caught`) are described once, by what they leave
alone (`Frame`) and how the call goes on (`Eases`, `Ends`); `Good` is what a step
must show of the end it changes, and there is one lemma for each action.

`SessionsStayHonest` is about both ends and rests on what they know of each
other. `Firm` says of one end, from where its call stands, how many indices it
must have taken at least, and how its two counters go together: the page that
reads has sent as many messages as it has read and one less while it describes
an answer (`PageTurn`); Drop has sent as many as it has read, and one more while
it waits for the answer to that one (`DropTurn`); a message in the send chain is
legal under its index (`ChainLegal`); and no breach has been recorded while
the call goes on (`Honest`). A call that ends in `protocol` is one of those `Breach`
names, and `threw` is never taken back (`Recalls`). `InMail` says of what the exchange holds that each message is legal
under the index it will be read under, that a restart's answer answers a restart
its sender has read, and, while the exchange is open, that nothing was lost in
between. `AcceptFits` says that the page has a peer only once Drop has accepted,
so that no connection can fail, and no restart begin, before the accept. From
these `Link.read` finds every message allowed where it comes, and the two
comparisons of indices (`i = x.sent`, `i = x.pending`) succeed unless the end
has stopped, and then the failure it has recorded wins. A step is shown to be
`Fine` (one's own step: firm again, and steady in what the other relies on) or
to be a read that `Heeds` its message; that either keeps `Joined`, the
conjunction of all this, is shown once. TLC has checked `Joined` as an invariant
for up to two restarts before it was proved.

`NobodyIsLeftWaiting` adds `Alert`. `Watched` says of an end with a peer that a
channel is known to be gone with its connection, that a failed connection has its
clock running, and that one that has never been up still has the deadline of
connecting; `Attended` that a call past its preparations watches its peer and
that one waiting for a message to leave has that message in the chain. The one
fact about both ends is `Known`: an end was connected only to an end that has, or
had, a peer. So an end that is left alone while connecting runs into its clock, and
one that was connected sees the other's connection closed; the send and read
phases have their own way out. What winding down does to all of this is again
described once (`Lapse`).

`SendDeviceProofs` proves, for every number of `connect()` calls, `TypesKept`,
`NoDeadScreens`, `LockAlwaysFits`, `YesMeansTheseWords`, `EndingsAreHonest` and
`AbortedStayMute` of the page; for every set of locks, with and without browser
support, `LocksAreTracked` and `SentinelStaysLive` of the lock; and for every
set of invitations, allowlist and browser, `DeviceAlwaysFits` and
`PageHoldsOnDevice` of the whole. The page's invariant adds to the properties
`RunsInv` (every run but the newest is aborted, and `flow`, if set, is the newest
one's) and `SessionInv` (there is no session before Yes, while there is one the
screen is the one its call stands behind, and the end marker is out only where
`endSent` says so). The lock's adds `Bookkeeping`: a request is out only while
nothing is held, a lock whose event is on its way is no longer active, a hidden
page has no lock. A step of the device is a step of the page and a step of the
lock, so both hold of it, and what remains to be shown is where the servers of a
connection come from.

`GetPageProofs` proves `PageAlwaysFits`, `OnlySavedIsTold` and
`AbortedStayMute` of the page for every number of calls. `PageFits` is inductive with
`CallsInv` (a call that still awaits something is the newest or aborted, the
newest is the one its screen is about, and a flow is its own) and `ShareInv` (the
share details are known exactly on the screens from them on, and a channel that
is kept was not used).

The same module proves `SealingAlwaysFits` and `AlwaysOpensToSource` of
`Envelope`, for all sizes of records, tags and files that fit each other
(`EnvelopeAssumption`: a record is a power of two, a file's metadata fit the
smallest bucket, the largest file fits a transfer; all hold of the code's
constants). `EnvelopeInv` says stage by stage what has been made: while the
encoder works its records are those of the plan, in order (`InOrder`), and at
most one call of `next()` is out (`OneCall`); a finished envelope is laid out as
announced (`AsMade`); what a reader was given, however it was rearranged, holds
only records of the source or ones that fail their tag (`AllGenuine`). The lengths that
encoder, sender and reader compute for themselves are sums over all records.
They are folds in the model, and are evaluated from the fact that all terms but
at most two are alike.

`NodeServicesProofs` proves `PanelAlwaysFits`, `OrdersAlwaysFit` and
`CancelledStaysOver` for any nodes, actions at once, terms and request ids.
`PanelFits` and `OrdersFit` are inductive together, with `ActionsInv` (the one
action that is fresh is the controller's) and `RequestsInv` (which request id an
action carries, and what the node may have made of it).

`PublishingProofs` proves `PublicationAlwaysFits`, `ConsentAlwaysStands` and
`SigningAlwaysFits`, and `RetrievingProofs` `ShownAlwaysFits` and
`PeersAlwaysFit`, for any number of handlers that wait at once. In both the
invariant says of each waiting handler what the resets left it: one that is
still fresh and not aborted captured what the form holds now, and one that is
not can show, keep and send nothing. Most steps only weaken handlers, by
aborting, outdating or ending them; this is stated once (`Aborts`, `Outdates`,
`Rejects`; `Weakens`, `Quiet`) and each part of the invariant is shown to
survive it. `RetrievingProofs` uses that the handlers are finitely many, to count
the sessions being stopped.

`NetworkProofs` is about three parts with many parties:

* `Relays`, for any relays, events, messages and requests: `AnswersStayTrue`,
  `OffersStayWithdrawn` and the action property `CancelledStaysMute` (a part of
  `RequestsEnd`). Whatever order the answers come in, `Merge` keeps of each author
  the latest list in the order of replacement, and a service's watermark stays
  the latest record ever accepted of it. `RelInv` adds to the properties that
  what counts as acknowledged is stored and how many messages were counted.
* `CrossDevice`, for any devices, blobs and number of slips: `EvidenceStaysTrue`.
  `CeremonyInv` says that a socket that is gone announces nothing and who is
  counted in a swarm is among those who ever announced (`PeersInv`), that closed
  evidence is final and on disk (`ClosedInv`), that a stop with peers still active
  left an error (`CutInv`), and that a peak of two was reached by two devices at
  one time (`PeakInv`).
* `PoolStorage`, for any nodes, failure groups, layouts, operations and faults:
  `PartsAlwaysFit`, `ProtectedAlwaysSurvives` and `FetchFailsOnlyIfLost`.
  `PoolInv` says that the parts of a manifest lie in disjoint groups and nodes
  outside it hold nothing, that a part counted as stored lies in as many groups
  as counted but for those hit since (`CountsInv`, `ReportInv`), and that a
  fetch has looked everywhere it says it has (`LookedInv`). The last theorem
  has the hypothesis `AnyPartsSuffice`, that any sufficient choice of parts
  decodes to the file; the run `pool_storage` evaluates it for `Erasure`
  (`ErasureSuffices` in `MCPoolStorage`).

The loops behind the first and the last (`Merge`, `Collected`, `GroupOrder`,
`Members`, `Placement`) are recursive functions over numbers. What they compute is
proved by induction in the form of a least counterexample (`LeastNumber`,
`Climb`), which needs no operator as a parameter.

The assumptions are those of the modules, which every run evaluates. Other than
the above they say that a constant is a number, a set finite, or that a value
standing for nothing is none of the values it is told apart from.

Only model-checked, and why:

* the liveness properties `Settles`, `EverythingEnds`, `CallsEnd` (but for its
  part `AbortedCallsAreMute`), `FramesFlow`, `RequestsEnd` (but for its part
  `CancelledIsMute`), `WithdrawnLeaves` and `StopEnds`, and `DueCanHappen`, which
  asks what is `ENABLED`: outside the prover's reach. It is a property of its own
  so that `NobodyLeftWaiting` could be proved;
* that `Erasure` satisfies `AnyPartsSuffice`: its bitwise operations are out of
  reach too, so it is evaluated for the layouts and the payload of the run.

Every other property of the runs is also a theorem.

## Where the code and its words differ

The models follow the code. In these places a comment, a test or another part of
the code says something else; the properties except them by name.

1. `accept` listens on the channel only after `createSink`
   (`direct/session.ts:761`): a frame that arrives before is lost, and the next
   one leaves a gap that an honest sender is accused of. `missed` records it in
   `DirectTransfer`.
2. Drop stopping before its invitation sends a stop at an index where
   `direct/messages.ts:249` allows none (`direct/session.ts:803`), and the page
   calls it a breach.
3. A channel that closes before it opened is reported as `protocol`
   (`direct/peer.ts:197`), which `direct/session.ts:41` keeps for a broken
   protocol.
4. The page waits for the request carrying its answer before it looks at the
   channel (`direct/session.ts:509`), so the deadline can end a send whose
   channel is already open; `tests/direct-session.test.ts:383` has an open one survive it.
5. A page with no relay to hide behind tells Drop nothing
   (`direct/session.ts:569`; compare `tests/direct-session.test.ts:192`); Drop's
   clocks end its call.
6. `hold()` while a lock granted too late is being given back asks for nothing
   (`send/wakelock.ts:40`), though line 25 calls it safe to repeat. The page
   calls it once.
7. Try again on the recipient's page needs the words, which pairing has
   forgotten by then (`get/main.ts:343`; `get/copy.ts:52` offers the button);
   nothing happens until the link runs out.
8. A swarm session that was not kept is dropped without being counted among
   those being stopped (`main.ts:1341`), though `main.ts:212` says that no new
   session joins meanwhile. `unsure` marks the case in `Retrieving`.
9. A quote that timed out binds its request id to the terms of then; after the
   node changes its terms, each further quote is refused until the inputs change
   (`core/checkout.ts:414`).
10. An empty file can be sealed and not be opened again (`core/crypto.ts:489`);
    only `send/main.ts:509` keeps one from being chosen.
11. Any plain error of an end's own encoder, peer connection or `createSink` is
    reported as `protocol` (`direct/session.ts:127`), which line 41 keeps for "a
    message or frame the protocol does not allow". A sink that cannot be created
    for want of room is not `storage`.
12. `scripts/cross-device-coordinator.mjs:406` and 411 give a request 10 and 30
    seconds, but not once `stop()` has called `server.close()` (line 581): Node then
    checks no connection any more, so a half-made request or a stalled body that is
    there at the stop holds the coordinator up until its client goes or a second
    signal comes.
13. The deadline of an upload or of a pool part (`core/blossom.ts:148`) ends the
    wait for the external signature and leaves the panel open for nobody. Until it
    is cancelled or answered, every other signature is refused with "Finish or
    cancel the current external signing request first." (`main.ts:310`); the rest
    of a pool's uploads fail that way, node by node.
14. After a repair to more nodes the receipt shown is the newly signed one
    (`main.ts:1160`), while the form still names the old one. The wait for its
    signature has no deadline; only a cancel or an edit ends it.

## Plan

Modelled: every part of the table above. Left, in this order:

1. `SendPage`'s session as an abstract specification of its own that
   `DirectSession` implements; today the two share only the table of failures.
2. `Publishing` and `Retrieving` as one page.

## Not modelled

The inside of WebRTC (gathering candidates, statistics), WebTorrent, the pairing
kit and the wake lock, which are modelled only as the code here uses them and
marked external; cryptography, which is perfect where it matters; the formats of
fields, frames and events; wording, layout, styles and the marketing page;
renewals, refunds and receipts of an order, which change only what is shown; and
the scripts under `scripts/` other than the ceremony's, which drive a browser
and are no part of the program.

## Running

    for m in DirectTransfer DirectSession SendDevice GetPage Pacing Relays \
             PoolStorage NodeServices Publishing Retrieving Envelope CrossDevice
    do tlc -workers 2 -config MC$m.cfg MC$m; done

    for m in DirectTransfer DirectSession SendDevice GetPage NodeServices \
             Publishing Retrieving Network
    do tlapm ${m}Proofs.tla; done

The longest run takes about three minutes with two workers.
