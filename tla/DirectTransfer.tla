--------------------------- MODULE DirectTransfer ---------------------------
(***************************************************************************)
(* One wildbloom-direct/1 file transfer over a data channel                *)
(* (src/src/direct/transfer.ts), with the parts of the sessions around it  *)
(* that touch the channel or the sink (src/src/direct/session.ts).         *)
(*                                                                         *)
(* The sender cuts the envelope into DATA frames, keeps at most Window     *)
(* bytes beyond the last ACK in flight, pauses while its send buffer is    *)
(* full, sends END and waits for KEPT.  The receiver checks every frame,   *)
(* hands the bytes to a sink one step at a time, acknowledges what the     *)
(* sink has written and says KEPT once the sink has kept the file.  Either *)
(* end may stop, fail or lose the channel at any moment.                   *)
(*                                                                         *)
(* A step of the model is one JavaScript task with the microtasks it       *)
(* starts: what the code does between two awaits is one action.            *)
(***************************************************************************)
EXTENDS Integers, Sequences

CONSTANTS
  Total,        \* envelopeBytes: the length of the envelope, header included
  HeaderBytes,  \* the envelope header, the first thing sent
  RecordBytes,  \* one encrypted record from encoder.next()
  Room,         \* the payload of one DATA frame
  Window,       \* LIMITS.unacknowledgedBytes
  AckEvery,     \* LIMITS.ackEveryBytes
  HighWater,    \* LIMITS.highWaterBytes
  LowWater      \* LIMITS.lowWaterBytes

ASSUME SizesAssumption ==
  /\ Total \in Nat \ {0} /\ HeaderBytes \in 1..Total
  /\ RecordBytes \in Nat \ {0} /\ Room \in Nat \ {0}

ASSUME LimitsAssumption ==
  /\ Window \in Nat \ {0} /\ AckEvery \in 1..Window
  /\ HighWater \in Nat /\ LowWater \in 0..HighWater

VARIABLES
  sPhase,       \* where sendEnvelope is: start, loop, await (KEPT), resolved, rejected
  sFail,        \* its `failure`
  sent,
  acknowledged,
  left,         \* current.length - position: what is left of the current record
  paused,
  ended,        \* END was handed to the channel and onEndSent was called
  rPhase,       \* where receiveEnvelope is: start (no listener yet), wait, resolved, rejected
  rFail,        \* its `failure`
  received,
  written,
  lastAck,
  endSeen,
  queue,        \* the frames whose sink step is enqueued and not started
  busy,         \* the frame the sink is working on
  sink,         \* what the sink holds: open (partial), kept, aborted
  missed,       \* a frame reached the receiver's channel before it listened
  toR, toS,     \* frames on the wire, each way
  sOpen, rOpen, \* channel.open at each end
  buffered,     \* the sender's channel.bufferedAmount
  lowPending    \* a bufferedamountlow event is queued and not dispatched

senderVars == <<sPhase, sFail, sent, acknowledged, left, paused, ended>>
receiverVars ==
  <<rPhase, rFail, received, written, lastAck, endSeen, queue, busy, sink, missed>>
bufferVars == <<buffered, lowPending>>
openVars == <<sOpen, rOpen>>
vars == <<senderVars, receiverVars, toR, toS, openVars, bufferVars>>

-----------------------------------------------------------------------------
(* Frames (frames.ts).  A STOP carries its code: 1 cancelled, 2 failed,    *)
(* 3 no room.                                                              *)

StopCodes == 1..3

Data(o, n) == [type |-> "data", offset |-> o, length |-> n]
End == [type |-> "end"]
Stop(c) == [type |-> "stop", code |-> c]
Ack(n) == [type |-> "ack", next |-> n]
Kept == [type |-> "kept"]

DataFrames == [type : {"data"}, offset : 0..Total, length : 1..Room]
StopFrames == [type : {"stop"}, code : StopCodes]
FramesToR == DataFrames \cup {End} \cup StopFrames
FramesToS == [type : {"ack"}, next : 1..Total] \cup {Kept} \cup StopFrames

PeerFailures == {"peer-cancelled", "peer-failed", "peer-storage"}
failureForStop(c) ==
  IF c = 1 THEN "peer-cancelled" ELSE IF c = 3 THEN "peer-storage" ELSE "peer-failed"

SenderFailures ==
  PeerFailures \cup {"none", "cancelled", "protocol", "closed", "frame-size", "source"}
ReceiverFailures ==
  PeerFailures \cup {"none", "cancelled", "protocol", "closed", "verification", "storage"}

(* trySend: a frame for a channel that is not open goes nowhere.           *)
TrySend(open, wire, frame) == IF open THEN Append(wire, frame) ELSE wire

Prefixes(s) == {SubSeq(s, 1, n) : n \in 0..Len(s)}

(* The sink's steps: a write for a DATA frame, the end for END.            *)
Steps == DataFrames \cup {End}
Idle == [type |-> "idle"]

Init ==
  /\ sPhase = "start" /\ sFail = "none" /\ sent = 0 /\ acknowledged = 0
  /\ left = HeaderBytes /\ paused = FALSE /\ ended = FALSE
  /\ rPhase = "start" /\ rFail = "none" /\ received = 0 /\ written = 0
  /\ lastAck = 0 /\ endSeen = FALSE /\ queue = <<>> /\ busy = Idle
  /\ sink = "open" /\ missed = FALSE
  /\ toR = <<>> /\ toS = <<>> /\ sOpen = TRUE /\ rOpen = TRUE
  /\ buffered = 0 /\ lowPending = FALSE

-----------------------------------------------------------------------------
(* The sender: sendEnvelope.                                               *)

SenderActive == sPhase \in {"loop", "await"}

(* fail(error, stopCode): the first failure wins; code 0 sends no STOP.    *)
SFail(kind, code) ==
  /\ sFail' = kind
  /\ toR' = IF code = 0 THEN toR ELSE TrySend(sOpen, toR, Stop(code))

(* The checks before the first byte.  aborted: the signal had fired; small: *)
(* maxMessageSize is under LIMITS.minFrameBytes.  A failure here is thrown *)
(* at once.                                                                *)
S_Start(aborted, small) ==
  /\ sPhase = "start"
  /\ \/ /\ aborted
        /\ SFail("cancelled", 1) /\ sPhase' = "rejected"
     \/ /\ ~aborted /\ ~sOpen
        /\ SFail("closed", 0) /\ sPhase' = "rejected"
     \/ /\ ~aborted /\ sOpen /\ small
        /\ SFail("frame-size", 2) /\ sPhase' = "rejected"
     \/ /\ ~aborted /\ sOpen /\ ~small
        /\ sPhase' = "loop" /\ UNCHANGED <<sFail, toR>>
  /\ UNCHANGED <<sent, acknowledged, left, paused, ended, receiverVars, toS, openVars, bufferVars>>

(* encoder.next(): full records, and a last one that fills the envelope.   *)
RecordLength == IF Total - sent < RecordBytes THEN Total - sent ELSE RecordBytes

(* The current record is spent and the prefetched one is there.            *)
S_Record ==
  /\ sPhase = "loop" /\ sFail = "none" /\ left = 0
  /\ left' = RecordLength
  /\ UNCHANGED <<sPhase, sFail, sent, acknowledged, paused, ended,
                 receiverVars, toR, toS, openVars, bufferVars>>

(* encoder.next() rejects or ends early: the file could not be read.       *)
S_ReadFails ==
  /\ sPhase = "loop" /\ sFail = "none" /\ left = 0
  /\ SFail("source", 2) /\ sPhase' = "rejected"
  /\ UNCHANGED <<sent, acknowledged, left, paused, ended, receiverVars, toS, openVars, bufferVars>>

(* What the pacing rule and the window allow now: nothing while paused.    *)
Allowed(take) ==
  /\ ~paused
  /\ take <= Window - (sent - acknowledged)

(* bufferedAmount passed the high-water mark.                              *)
PauseAt(amount) == amount > HighWater

(* One DATA frame; after the last one END follows in the same turn.        *)
S_SendData(take) ==
  /\ sPhase = "loop" /\ sFail = "none" /\ take <= left /\ take <= Total - sent /\ Allowed(take)
  /\ \/ /\ sOpen
        /\ sent' = sent + take /\ left' = left - take
        /\ buffered' = buffered + take
        /\ paused' = PauseAt(buffered')
        /\ ended' = (sent' = Total)
        /\ sPhase' = IF sent' = Total THEN "await" ELSE "loop"
        /\ toR' = IF sent' = Total THEN Append(Append(toR, Data(sent, take)), End)
                  ELSE Append(toR, Data(sent, take))
        /\ UNCHANGED sFail
     \/ /\ ~sOpen   \* channel.send throws
        /\ SFail("closed", 0) /\ sPhase' = "rejected"
        /\ UNCHANGED <<sent, left, buffered, paused, ended>>
  /\ UNCHANGED <<acknowledged, receiverVars, toS, openVars, lowPending>>

(* The frame handler.  Frames that arrive before it listens, after it      *)
(* stopped, or after a failure change nothing.                             *)
SListening == SenderActive /\ sFail = "none"

TakeFromR == sOpen /\ toS # <<>> /\ toS' = Tail(toS)

S_Ack ==
  /\ SListening /\ TakeFromR /\ Head(toS).type = "ack"
  /\ LET next == Head(toS).next IN
       \/ /\ next <= acknowledged \/ next > sent
          /\ SFail("protocol", 2) /\ UNCHANGED acknowledged
       \/ /\ next > acknowledged /\ next <= sent
          /\ acknowledged' = next /\ UNCHANGED <<sFail, toR>>
  /\ UNCHANGED <<sPhase, sent, left, paused, ended, receiverVars, openVars, bufferVars>>

S_Kept ==
  /\ SListening /\ TakeFromR /\ Head(toS).type = "kept"
  /\ \/ ended /\ sPhase' = "resolved" /\ UNCHANGED <<sFail, toR>>
     \/ ~ended /\ SFail("protocol", 2) /\ UNCHANGED sPhase
  /\ UNCHANGED <<sent, acknowledged, left, paused, ended, receiverVars, openVars, bufferVars>>

S_Stop ==
  /\ SListening /\ TakeFromR /\ Head(toS).type = "stop"
  /\ SFail(failureForStop(Head(toS).code), 0)
  /\ UNCHANGED <<sPhase, sent, acknowledged, left, paused, ended, receiverVars, openVars, bufferVars>>

S_Ignore ==
  /\ ~SListening /\ TakeFromR
  /\ UNCHANGED <<senderVars, receiverVars, toR, openVars, bufferVars>>

(* bufferedamountlow, listened to or not.                                  *)
S_Low ==
  /\ lowPending /\ lowPending' = FALSE
  /\ paused' = IF SenderActive THEN FALSE ELSE paused
  /\ UNCHANGED <<sPhase, sFail, sent, acknowledged, left, ended,
                 receiverVars, toR, toS, openVars, buffered>>

(* The close event, or the session's watch giving up on the connection.    *)
S_Closed ==
  /\ SListening /\ ~sOpen /\ SFail("closed", 0)
  /\ UNCHANGED <<sPhase, sent, acknowledged, left, paused, ended,
                 receiverVars, toS, openVars, bufferVars>>

(* The signal: the person stops, or the session ends the run.              *)
S_Abort ==
  /\ SListening /\ SFail("cancelled", 1)
  /\ UNCHANGED <<sPhase, sent, acknowledged, left, paused, ended,
                 receiverVars, toS, openVars, bufferVars>>

(* The loop wakes, sees the failure and throws it.                         *)
S_Reject ==
  /\ SenderActive /\ sFail # "none" /\ sPhase' = "rejected"
  /\ UNCHANGED <<sFail, sent, acknowledged, left, paused, ended,
                 receiverVars, toR, toS, openVars, bufferVars>>

Sender ==
  \/ \E aborted, small \in BOOLEAN : S_Start(aborted, small)
  \/ S_Record \/ S_ReadFails
  \/ \E take \in 1..Room : S_SendData(take)
  \/ S_Ack \/ S_Kept \/ S_Stop \/ S_Ignore
  \/ S_Low \/ S_Closed \/ S_Abort \/ S_Reject

-----------------------------------------------------------------------------
(* The receiver: receiveEnvelope, and ReceiverSession.accept around it.    *)

RFail(kind, code) ==
  /\ rFail' = kind
  /\ toS' = IF code = 0 THEN toS ELSE TrySend(rOpen, toS, Stop(code))

(* The sink has been made and the channel is listened to.                  *)
R_Start(aborted) ==
  /\ rPhase = "start" /\ rPhase' = "wait"
  /\ \/ aborted /\ RFail("cancelled", 1)
     \/ ~aborted /\ ~rOpen /\ RFail("closed", 0)
     \/ ~aborted /\ rOpen /\ UNCHANGED <<rFail, toS>>
  /\ UNCHANGED <<senderVars, received, written, lastAck, endSeen, queue, busy, sink, missed,
                 toR, openVars, bufferVars>>

RListening == rPhase = "wait" /\ rFail = "none"

TakeFromS == rOpen /\ toR # <<>> /\ toR' = Tail(toR)

(* Work on the sink waits its turn, in arrival order.                      *)
Enqueue(step) == queue' = Append(queue, step)

(* The four checks on a DATA frame.                                        *)
DataAllowed(offset, length) ==
  /\ ~endSeen
  /\ offset = received
  /\ received + length <= Total
  /\ received + length - lastAck <= Window

R_Data ==
  /\ RListening /\ TakeFromS /\ Head(toR).type = "data"
  /\ LET offset == Head(toR).offset
         length == Head(toR).length IN
       \/ /\ ~DataAllowed(offset, length)
          /\ RFail("protocol", 2) /\ UNCHANGED <<received, queue>>
       \/ /\ DataAllowed(offset, length)
          /\ received' = received + length /\ Enqueue(Head(toR))
          /\ UNCHANGED <<rFail, toS>>
  /\ UNCHANGED <<senderVars, rPhase, written, lastAck, endSeen, busy, sink, missed,
                 openVars, bufferVars>>

EndAllowed == ~endSeen /\ received = Total

R_End ==
  /\ RListening /\ TakeFromS /\ Head(toR).type = "end"
  /\ \/ /\ ~EndAllowed
        /\ RFail("protocol", 2) /\ UNCHANGED <<endSeen, queue>>
     \/ /\ EndAllowed
        /\ endSeen' = TRUE /\ Enqueue(End) /\ UNCHANGED <<rFail, toS>>
  /\ UNCHANGED <<senderVars, rPhase, received, written, lastAck, busy, sink, missed,
                 openVars, bufferVars>>

R_Stop ==
  /\ RListening /\ TakeFromS /\ Head(toR).type = "stop"
  /\ RFail(failureForStop(Head(toR).code), 0)
  /\ UNCHANGED <<senderVars, rPhase, received, written, lastAck, endSeen, queue, busy, sink, missed,
                 openVars, bufferVars>>

(* A message event nobody handles: it is gone.                             *)
R_Ignore ==
  /\ ~RListening /\ TakeFromS
  /\ missed' = (missed \/ rPhase = "start")
  /\ UNCHANGED <<senderVars, rPhase, rFail, received, written, lastAck, endSeen, queue, busy, sink,
                 toS, openVars, bufferVars>>

(* The queue starts its next step, or skips it after a failure.            *)
R_StepStart ==
  /\ queue # <<>> /\ busy = Idle
  /\ queue' = Tail(queue)
  /\ busy' = IF rFail = "none" THEN Head(queue) ELSE Idle
  /\ UNCHANGED <<senderVars, rPhase, rFail, received, written, lastAck, endSeen, sink, missed,
                 toR, toS, openVars, bufferVars>>

(* A step's error reaches fail(), which keeps an earlier failure.          *)
StepFail(kind, code) ==
  IF rFail = "none" THEN RFail(kind, code) ELSE UNCHANGED <<rFail, toS>>

(* Mutant: acknowledge what has arrived, not what the sink has written.    *)
Acknowledge_Received(upTo) ==
  /\ lastAck' = received
  /\ \/ rOpen /\ toS' = Append(toS, Ack(received)) /\ UNCHANGED rFail
     \/ ~rOpen /\ StepFail("closed", 0)

(* lastAck moves, then sendOrThrow.                                        *)
Acknowledge(upTo) ==
  /\ lastAck' = upTo
  /\ \/ rOpen /\ toS' = Append(toS, Ack(upTo)) /\ UNCHANGED rFail
     \/ ~rOpen /\ StepFail("closed", 0)

(* Mutant: an ACK is due only past a whole window.                        *)
AckDue_Late(done) == done - lastAck > Window \/ done = Total

(* Enough was written since the last ACK, or everything was.               *)
AckDue(done) == done - lastAck >= AckEvery \/ done = Total

(* sink.write resolved: count the bytes and acknowledge them when due.     *)
R_WriteDone ==
  /\ busy.type = "data" /\ busy' = Idle
  /\ written' = written + busy.length
  /\ \/ ~AckDue(written') /\ UNCHANGED <<rFail, lastAck, toS>>
     \/ AckDue(written') /\ Acknowledge(written')
  /\ UNCHANGED <<senderVars, rPhase, received, endSeen, queue, sink, missed,
                 toR, openVars, bufferVars>>

(* sink.end resolved: the file is kept, and KEPT goes out.                 *)
R_EndDone ==
  /\ busy = End /\ busy' = Idle
  /\ sink' = "kept"
  /\ \/ /\ rOpen /\ toS' = Append(toS, Kept) /\ UNCHANGED rFail
        /\ rPhase' = IF rFail = "none" THEN "resolved" ELSE rPhase
     \/ /\ ~rOpen /\ StepFail("closed", 0) /\ UNCHANGED rPhase
  /\ UNCHANGED <<senderVars, received, written, lastAck, endSeen, queue, missed,
                 toR, openVars, bufferVars>>

(* The sink refuses: no room, or (any other error) the file is not right.  *)
R_StepFails ==
  /\ busy # Idle /\ busy' = Idle
  /\ StepFail("storage", 3) \/ StepFail("verification", 2)
  /\ UNCHANGED <<senderVars, rPhase, received, written, lastAck, endSeen, queue, sink, missed,
                 toR, openVars, bufferVars>>

R_Closed ==
  /\ RListening /\ ~rOpen /\ RFail("closed", 0)
  /\ UNCHANGED <<senderVars, rPhase, received, written, lastAck, endSeen, queue, busy, sink, missed,
                 toR, openVars, bufferVars>>

(* Mutant: an aborted receiver sends no STOP.                              *)
R_Abort_Silent ==
  /\ RListening /\ RFail("cancelled", 0)
  /\ UNCHANGED <<senderVars, rPhase, received, written, lastAck, endSeen, queue, busy, sink, missed,
                 toR, openVars, bufferVars>>

(* The signal.                                                             *)
R_Abort ==
  /\ RListening /\ RFail("cancelled", 1)
  /\ UNCHANGED <<senderVars, rPhase, received, written, lastAck, endSeen, queue, busy, sink, missed,
                 toR, openVars, bufferVars>>

(* Mutant: the session gives up on a transfer that has already succeeded.  *)
R_GiveUp_AfterKept ==
  /\ rPhase \in {"wait", "resolved"} /\ rFail = "none"
  /\ rOpen' = FALSE /\ toS' \in Prefixes(toS)
  /\ rFail' = "closed" /\ sink' = "aborted"
  /\ UNCHANGED <<senderVars, rPhase, received, written, lastAck, endSeen, queue, busy, missed,
                 toR, sOpen, bufferVars>>

(* The session gives up: the peer is closed first, then accept's catch     *)
(* aborts the sink at once, even while the sink is working on a step.  A   *)
(* stop or a bad message on the exchange also aborts the run; when its     *)
(* watch gives up, receiveEnvelope learns from the close event (R_Closed). *)
R_GiveUp ==
  /\ RListening
  /\ rOpen' = FALSE /\ toS' \in Prefixes(toS)
  /\ rFail' \in {"none", "cancelled"} /\ sink' = "aborted"
  /\ UNCHANGED <<senderVars, rPhase, received, written, lastAck, endSeen, queue, busy, missed,
                 toR, sOpen, bufferVars>>

(* On a failure: once the queue has settled, abort the sink and throw.     *)
R_Reject ==
  /\ rPhase = "wait" /\ rFail # "none" /\ queue = <<>> /\ busy = Idle
  /\ sink' = "aborted" /\ rPhase' = "rejected"
  /\ UNCHANGED <<senderVars, rFail, received, written, lastAck, endSeen, queue, busy, missed,
                 toR, toS, openVars, bufferVars>>

Receiver ==
  \/ \E aborted \in BOOLEAN : R_Start(aborted)
  \/ R_Data \/ R_End \/ R_Stop \/ R_Ignore
  \/ R_StepStart \/ R_WriteDone \/ R_EndDone \/ R_StepFails
  \/ R_Closed \/ R_Abort \/ R_GiveUp \/ R_Reject

-----------------------------------------------------------------------------
(* The channel (external: RTCDataChannel).  Frames arrive in order, once.  *)
(* Closing an end discards what it had not sent, and the other end closes  *)
(* after it; a channel may also close by itself.                           *)

Drain ==
  /\ buffered > 0
  /\ \E rest \in 0..(buffered - 1) :
       /\ buffered' = rest
       /\ lowPending' = (lowPending \/ (buffered > LowWater /\ rest <= LowWater))
  /\ UNCHANGED <<senderVars, receiverVars, toR, toS, openVars>>

CloseSender ==
  /\ sOpen /\ sOpen' = FALSE /\ toR' \in Prefixes(toR)
  /\ UNCHANGED <<senderVars, receiverVars, toS, rOpen, bufferVars>>

CloseReceiver ==
  /\ rOpen /\ rOpen' = FALSE /\ toS' \in Prefixes(toS)
  /\ UNCHANGED <<senderVars, receiverVars, toR, sOpen, bufferVars>>

Channel == Drain \/ CloseSender \/ CloseReceiver

-----------------------------------------------------------------------------
SenderEnded == sPhase \in {"resolved", "rejected"}
ReceiverEnded == rPhase \in {"resolved", "rejected"}

(* Both calls have settled and the sessions have closed the channel.       *)
Over == SenderEnded /\ ReceiverEnded /\ ~sOpen /\ ~rOpen /\ UNCHANGED vars

Next == Sender \/ Receiver \/ Channel \/ Over

Spec == Init /\ [][Next]_vars

(* A session closes the channel when its transfer has ended, and a channel *)
(* closed at one end closes at the other.                                  *)
CloseFollows ==
  \/ (SenderEnded \/ ~rOpen) /\ CloseSender
  \/ (ReceiverEnded \/ ~sOpen) /\ CloseReceiver

(* What the runtime promises: every await whose condition holds resumes,   *)
(* the encoder and the sink settle, frames and events are delivered, the   *)
(* buffer drains.  Nobody is obliged to abort, give up or fail.            *)
Fairness ==
  /\ WF_vars(\E aborted, small \in BOOLEAN : S_Start(aborted, small))
  /\ WF_vars(S_Record \/ S_ReadFails)
  /\ WF_vars(\E take \in 1..Room : S_SendData(take))
  /\ WF_vars(S_Ack \/ S_Kept \/ S_Stop \/ S_Ignore)
  /\ WF_vars(S_Low) /\ WF_vars(S_Closed) /\ WF_vars(S_Reject)
  /\ WF_vars(\E aborted \in BOOLEAN : R_Start(aborted))
  /\ WF_vars(R_Data \/ R_End \/ R_Stop \/ R_Ignore)
  /\ WF_vars(R_StepStart \/ R_WriteDone \/ R_EndDone \/ R_StepFails)
  /\ WF_vars(R_Closed) /\ WF_vars(R_Reject)
  /\ WF_vars(Drain) /\ WF_vars(CloseFollows)

FairSpec == Spec /\ Fairness

-----------------------------------------------------------------------------
(* Properties.                                                             *)

(* Every variable has its type, and what is left of a record never exceeds *)
(* what is left of the envelope (the `total - sent` cap never bites).      *)
TypeOK ==
  /\ sPhase \in {"start", "loop", "await", "resolved", "rejected"}
  /\ rPhase \in {"start", "wait", "resolved", "rejected"}
  /\ sFail \in SenderFailures /\ rFail \in ReceiverFailures
  /\ sent \in 0..Total /\ acknowledged \in 0..Total /\ left \in 0..(Total - sent)
  /\ paused \in BOOLEAN /\ ended \in BOOLEAN /\ endSeen \in BOOLEAN /\ missed \in BOOLEAN
  /\ received \in 0..Total /\ written \in 0..Total /\ lastAck \in 0..Total
  /\ queue \in Seq(Steps) /\ busy \in Steps \cup {Idle}
  /\ sink \in {"open", "kept", "aborted"}
  /\ toR \in Seq(FramesToR) /\ toS \in Seq(FramesToS)
  /\ sOpen \in BOOLEAN /\ rOpen \in BOOLEAN
  /\ buffered \in Nat /\ lowPending \in BOOLEAN

(* Two honest ends never accuse each other: whatever the timing of ACKs,   *)
(* sink steps, stops and closes, neither end's frame checks (offset, end,  *)
(* window, ACK progress, KEPT after END) fail on what the other end sent,  *)
(* unless a frame came in before the receiver listened.                    *)
NoHonestProtocolFailure ==
  missed \/ (sFail # "protocol" /\ rFail # "protocol")

(* sendEnvelope resolves only if the receiver still holds the kept file    *)
(* and its own call did not fail, even when a stop, a failing channel or   *)
(* the session's give-up lands while sink.end is running.                  *)
NoFalseSuccess == sPhase = "resolved" => sink = "kept" /\ rPhase = "resolved"

(* Neither end is told anything untrue of the other: an honest end is not  *)
(* accused, and arrival means a kept file.                                 *)
HonestTransfers == NoHonestProtocolFailure /\ NoFalseSuccess

(* A file is kept only after every byte was sent and written, END was read *)
(* and the page was told (onEndSent) that the receiver may be keeping it.  *)
OnlyWholeFileKept ==
  sink = "kept" => ended /\ endSeen /\ received = Total /\ written = Total

(* However slow the sink, what waits for it never exceeds the window.      *)
ReceiverBacklogBounded == received - written <= Window

(* The send buffer holds at most two frames over the high-water mark: one  *)
(* that crosses it, and one more when a bufferedamountlow queued earlier   *)
(* is dispatched late and clears `paused`.                                 *)
SendBufferBounded == buffered <= HighWater + 2 * Room

(* A paused sender always has something to wake it: the buffer has still   *)
(* to drain through the low-water mark, or that event is on its way.       *)
PausedHasWakeup == SenderActive /\ paused => buffered > LowWater \/ lowPending

(* When receiveEnvelope has rejected, nothing is held and no step of the   *)
(* sink can bring the file back.                                           *)
RejectedHoldsNothing ==
  rPhase = "rejected" => sink = "aborted" /\ busy = Idle /\ queue = <<>>

(* A file kept by a receiver that has not failed is never taken back.      *)
KeptStays == [][sink = "kept" /\ rFail = "none" => sink' = "kept" /\ rFail' = "none"]_vars

(* Every transfer ends at both ends: no stall on the window, the paused    *)
(* flag, an unsent ACK or a lost KEPT, unless a frame was missed.          *)
Settles == <>(missed \/ (SenderEnded /\ ReceiverEnded))
-----------------------------------------------------------------------------
(* The abstract view: what each person has been told and what is held.     *)

Told ==
  IF sPhase = "resolved" THEN "arrived" ELSE IF sPhase = "rejected" THEN "failed" ELSE "waiting"

FileHeld ==
  IF sink = "kept" /\ rFail = "none" THEN "kept"
  ELSE IF rPhase = "rejected" THEN "deleted" ELSE "none"

Delivery == INSTANCE DirectDelivery WITH told <- Told, file <- FileHeld, warned <- ended

(* A transfer does what DirectDelivery promises.                           *)
DeliveryPromise == Delivery!Spec
-----------------------------------------------------------------------------
(* The inductive invariant behind the theorems of DirectTransferProofs.    *)

(* Where a frame's bytes begin and end in the envelope; END is at its end. *)
Base(f) == IF f.type = "data" THEN f.offset ELSE Total
Tip(f) == IF f.type = "data" THEN f.offset + f.length ELSE Total

(* The frames of s follow one another from byte a to byte b.               *)
Chain(s, a, b) ==
  /\ s = <<>> => a = b
  /\ s # <<>> => Base(s[1]) = a /\ Tip(s[Len(s)]) = b
  /\ \A i \in 1..(Len(s) - 1) : s[i] # End /\ Tip(s[i]) = Base(s[i + 1])

IsStop(f) == f.type = "stop"

PhasesAgree ==
  /\ ended => sPhase \in {"await", "resolved", "rejected"}
  /\ ended => sent = Total
  /\ sPhase = "rejected" => sFail # "none"
  /\ rPhase # "wait" => queue = <<>> /\ busy = Idle
  /\ rPhase = "start" => rFail = "none" /\ sink = "open" /\ received = 0
  /\ rPhase = "resolved" => rFail = "none" /\ sink = "kept"
  /\ rPhase = "rejected" => rFail # "none" /\ sink = "aborted"
  /\ sink = "kept" /\ rFail = "none" => rPhase = "resolved"

(* The receiver's queue carries the bytes from written to received.        *)
QueueInOrder ==
  /\ busy.type = "data" => busy.offset = written /\ Tip(busy) <= received
  /\ busy = End => queue = <<>> /\ written = Total
  /\ rFail = "none" => Chain(queue, IF busy = Idle THEN written ELSE Tip(busy), received)
  /\ written <= received /\ \A i \in 1..Len(queue) : Tip(queue[i]) <= received
  /\ endSeen => ended /\ received = Total
  /\ ~endSeen => busy # End /\ \A i \in 1..Len(queue) : queue[i] # End
  /\ sink = "kept" => endSeen /\ written = Total

WindowKept ==
  /\ lastAck <= written
  /\ received - lastAck <= Window

BufferMarks ==
  /\ buffered <= HighWater + 2 * Room
  /\ SenderActive /\ ~paused => buffered <= HighWater + Room
  /\ lowPending => buffered <= HighWater + Room
  /\ lowPending /\ ~paused => buffered <= HighWater
  /\ sPhase = "start" => ~paused /\ buffered = 0

(* A KEPT on the wire is true, or a STOP went ahead of it, or the sender   *)
(* has failed already; a receiver that failed after END told the sender,   *)
(* or cannot tell it anything any more.                                    *)
KeptIsTrue ==
  /\ \A i \in 1..Len(toR) : (toR[i] = End => ended) /\ (IsStop(toR[i]) => sFail # "none")
  /\ \A i \in 1..Len(toS) : toS[i] = Kept =>
       /\ ended
       /\ \/ rPhase = "resolved"
          \/ sFail # "none"
          \/ \E j \in 1..(i - 1) : IsStop(toS[j])
  /\ rFail # "none" => \/ ~endSeen \/ ~rOpen \/ sFail # "none"
                       \/ \E j \in 1..Len(toS) : IsStop(toS[j])
  /\ sPhase = "resolved" => rPhase = "resolved"

(* The ACKs of s move forward, from above lo up to hi.                     *)
AcksIncrease(s, lo, hi) ==
  \A i \in 1..Len(s) : s[i].type = "ack" =>
    /\ lo < s[i].next /\ s[i].next <= hi
    /\ \A j \in 1..(i - 1) : s[j].type = "ack" => s[j].next < s[i].next

(* ACKs on the wire are news to the sender and true of the sink.           *)
AcksAdvance ==
  /\ acknowledged <= lastAck /\ received <= sent /\ sent - acknowledged <= Window
  /\ AcksIncrease(toS, acknowledged, lastAck)

(* The frames of s are consecutive and end at or before byte n; after END  *)
(* or STOP comes nothing but a STOP.                                       *)
WireChain(s, n) ==
  /\ \A i \in 1..Len(s) : s[i].type = "data" => Tip(s[i]) <= n
  /\ \A j \in 1..Len(s) : \A i \in 1..(j - 1) : s[i].type # "data" => IsStop(s[j])
  /\ \A i \in 1..(Len(s) - 1) : ~IsStop(s[i + 1]) => Tip(s[i]) = Base(s[i + 1])

(* What is on the wire to the receiver continues what it has received, up  *)
(* to what was sent.                                                       *)
WireInOrder ==
  /\ WireChain(toR, sent)
  /\ sOpen /\ sFail = "none" /\ toR # <<>> => Tip(toR[Len(toR)]) = sent
  /\ ~missed /\ rFail = "none" =>
       /\ endSeen => \A i \in 1..Len(toR) : IsStop(toR[i])
       /\ toR # <<>> /\ ~IsStop(toR[1]) => Base(toR[1]) = received
       /\ sOpen /\ sFail = "none" /\ toR = <<>> => received = sent

(* Everything the proofs carry from step to step: the phases agree, the    *)
(* queue and both wires are in order, the window and buffer marks hold and *)
(* every KEPT is true.                                                     *)
IInv ==
  /\ TypeOK /\ PhasesAgree /\ QueueInOrder /\ WindowKept /\ BufferMarks
  /\ PausedHasWakeup /\ KeptIsTrue /\ AcksAdvance /\ WireInOrder
  /\ NoHonestProtocolFailure
=============================================================================
