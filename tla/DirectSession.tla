--------------------------- MODULE DirectSession ---------------------------
(***************************************************************************)
(* The two ends of a wildbloom-direct/1 session (src/src/direct/session.ts *)
(* and messages.ts): the page's SenderSession and Drop's ReceiverSession,  *)
(* each with its Link on the exchange, its peer connection and the watch   *)
(* on it.  They agree on a file over the exchange, connect, and restart    *)
(* ICE over the exchange while the file moves; either may stop, the        *)
(* exchange may run out and the connection may come and go at any moment.  *)
(*                                                                         *)
(* The transfer on the channel is DirectTransfer's subject; here it is its *)
(* outcome: END goes out, the file is kept, KEPT arrives, or a STOP or a   *)
(* closed channel ends it.  A step is one JavaScript task and the          *)
(* microtasks after it.                                                    *)
(***************************************************************************)
EXTENDS Integers, Sequences

CONSTANTS
  Restarts,    \* LIMITS.restarts
  Messages,    \* LIMITS.messagesPerSide
  Faults       \* bound: how many faults, stops and network changes a behaviour has

ASSUME LimitsAssumption ==
  /\ Restarts \in Nat /\ Messages \in Nat /\ Messages >= Restarts + 3
  /\ Faults \in Nat

VARIABLES
  side,        \* side[s]: everything one end keeps (NewSide says what)
  mail,        \* mail[s]: what the exchange holds from s, not yet read
  endOut,      \* the page's END has left
  keptOut,     \* Drop's KEPT has left
  stopFrame,   \* stopFrame[s]: the reason in a STOP frame on its way to s
  faults,      \* how many faults, stops and network changes there have been
  threw        \* history: threw[s]: an error of s's own encoder, peer or sink ended its call

vars == <<side, mail, endOut, keptOut, stopFrame, faults, threw>>

Sides == {"page", "drop"}
Other(s) == IF s = "page" THEN "drop" ELSE "page"
None == -1

Msg(e) == [event |-> e, reason |-> "none"]
StopMsg(r) == [event |-> "stop", reason |-> r]

(* The events each side may send at each index (allowedEvents).            *)
AllowedEvents(from, index) ==
  CASE index >= Messages -> {}
    [] index = 0 -> IF from = "drop" THEN {"invite"} ELSE {"manifest", "stop"}
    [] index = 1 -> (IF from = "drop" THEN {"accept", "decline"} ELSE {"answer"}) \cup {"stop"}
    [] index \in 2..(1 + Restarts) -> {IF from = "drop" THEN "restart" ELSE "restart-answer", "stop"}
    [] OTHER -> {"stop"}

-----------------------------------------------------------------------------
(* One end as a record, and what the methods of Link, Watch and the two    *)
(* sessions do to it.                                                      *)

(* Where each end's calls stand.  At "choosing", "start" and "deciding" no *)
(* call is running: the person decides what comes next.                    *)
Idle == {"choosing", "start", "deciding"}
ReadPhases == {"inviting", "offered", "invited", "accepted"}
CallPhases ==
  {"preparing", "answering", "answerOut", "offering", "acceptOut", "accepted", "applying",
   "connecting", "moving", "aborting"}
Phases ==
  Idle \cup ReadPhases \cup CallPhases
    \cup {"manifestOut", "inviteOut", "declineOut", "closing", "ended"}

Failures ==
  {"none", "cancelled", "peer-cancelled", "peer-failed", "protocol", "no-relay", "connect", "lost",
   "expired", "network", "source", "too-big", "verification", "storage", "peer-storage",
   "unsupported", "peer-unsupported"}
Outcomes == Failures \cup {"arrived", "kept", "declined"}

NewSide(phase) ==
  [ \* Link: how many messages taken and read; chain holds what is still to be sent, and
    \* `carried` says the head has reached the other end but the request has not returned
    sent |-> 0, received |-> 0, stopped |-> FALSE, linkEnded |-> FALSE, chain |-> <<>>,
    carried |-> FALSE, exchange |-> "open",
    \* the session: reader is answerRestarts or readAnswers
    phase |-> phase, failure |-> "none", error |-> "none", outcome |-> "none",
    reader |-> "off", asked |-> FALSE, closeSoon |-> FALSE,
    \* the peer connection and the watch on it
    pc |-> "none", chan |-> "none", watching |-> FALSE, everConnected |-> FALSE,
    connectTimer |-> FALSE, failedTimer |-> FALSE, restartTimer |-> FALSE,
    \* Drop's restarts: used, waiting on restartChain, where restartOnce stands, pendingRestart.index
    used |-> 0, queue |-> 0, restarting |-> "no", pending |-> None]

StopInChain(x) == \E i \in 1..Len(x.chain) : x.chain[i].event = "stop"

(* The exchange of an ended link closes once a stop on its way has gone.   *)
Shut(x) ==
  IF x.linkEnded /\ ~StopInChain(x) /\ x.exchange = "open" THEN [x EXCEPT !.exchange = "closed"] ELSE x

(* Link.send, when nothing refuses it: the index is taken at once.         *)
LinkSend(x, m) == [x EXCEPT !.sent = @ + 1, !.chain = Append(@, m)]

(* Why Link.send refuses, or "none".                                       *)
Refusal(x) ==
  IF x.linkEnded THEN "expired"
  ELSE IF x.stopped THEN "cancelled" ELSE IF x.sent >= Messages THEN "protocol" ELSE "none"

LinkStop(x, reason) ==
  IF x.stopped \/ x.linkEnded \/ x.sent >= Messages THEN x
  ELSE LinkSend([x EXCEPT !.stopped = TRUE], StopMsg(reason))

(* Mutant: a link with no stop on its way leaves its exchange open.        *)
LinkEnd_LeftOpen(x) == [x EXCEPT !.linkEnded = TRUE]

LinkEnd(x) == Shut([x EXCEPT !.linkEnded = TRUE])

NoTimers(x) == [x EXCEPT !.connectTimer = FALSE, !.failedTimer = FALSE, !.restartTimer = FALSE]

(* peer.close(): the channel goes with it ("shut" if it never opened), and *)
(* the watch clears its clocks.                                            *)
ClosePeer(x) ==
  IF x.pc \in {"none", "closed"} THEN x
  ELSE NoTimers([x EXCEPT !.pc = "closed",
                          !.chan = CASE @ = "none" -> "shut" [] @ = "open" -> "closed" [] OTHER -> @])

Close(x) == LinkEnd(ClosePeer(x))

(* failure ??= kind                                                        *)
Blame(x, kind) == IF x.failure = "none" THEN [x EXCEPT !.failure = kind] ELSE x

(* end(error): which failures the other end is told of over the exchange.  *)
StopFor(s, kind) ==
  IF kind = "cancelled" \/ (s = "page" /\ kind = "too-big") THEN "cancelled"
  ELSE IF kind \in (IF s = "page" THEN {"protocol", "source", "lost"}
                    ELSE {"protocol", "verification", "storage"}) THEN "failed"
  ELSE "none"

(* A call settles and `finally` stops the watch; close() follows once the  *)
(* channel has drained (CloseNow).                                         *)
Finished(x, outcome) ==
  NoTimers([x EXCEPT !.phase = "closing", !.outcome = outcome, !.watching = FALSE])

(* A call rejects.  send() and accept() let the recorded failure win; the  *)
(* calls before them report the error itself.  end() may send a stop.      *)
Rejected(s, x, error) ==
  LET kind == IF x.failure = "none" \/ x.phase \notin CallPhases THEN error ELSE x.failure
      told == IF StopFor(s, kind) = "none" THEN x ELSE LinkStop(x, StopFor(s, kind))
  IN Finished(told, kind)

(* A call's catch: once there is a sink, Drop aborts it first, and looks   *)
(* for a recorded failure only then (SinkAborted).                         *)
Caught(s, x, error) ==
  IF s = "drop" /\ x.phase \in {"connecting", "moving"}
  THEN [x EXCEPT !.phase = "aborting", !.error = error] ELSE Rejected(s, x, error)

(* watch.giveUp(): record why, close everything, and reject what races it. *)
GiveUp(s, x) ==
  LET kind == IF x.everConnected THEN "lost" ELSE "connect"
      shut == Close(Blame(x, kind))
  IN IF ~x.watching THEN x
     ELSE IF x.phase \in {"connecting", "moving"} THEN Caught(s, shut, kind) ELSE shut

(* pendingRestart?.reject(...); whoever waits in restartOnce goes on.      *)
DropPending(x) ==
  [x EXCEPT !.pending = None, !.restarting = IF x.pending # None /\ @ = "waiting" THEN "no" ELSE @]

(* fail(error), from the loop that reads the exchange.                     *)
Fail(s, x, kind) == ClosePeer(GiveUp(s, DropPending([Blame(x, kind) EXCEPT !.reader = "off"])))

(* Mutant: an exchange that has gone fails the whole send.                 *)
NoMoreRestarts_Fails(x) == Fail("page", x, "expired")

(* The page's noMoreRestarts(), and the end of its reading loop.           *)
NoMoreRestarts(x) ==
  LET off == [x EXCEPT !.reader = "off"] IN IF x.pc = "failed" THEN GiveUp("page", off) ELSE off

PeerStopKind(m) ==
  CASE m.reason = "cancelled" -> "peer-cancelled" [] m.reason = "unsupported" -> "peer-unsupported"
    [] OTHER -> "peer-failed"

(* Mutant: a failed connection starts no clock.                            *)
Evaluate_NoClock(s, x, state) ==
  LET y == [x EXCEPT !.pc = state]
  IN IF ~x.watching THEN y
     ELSE IF state = "connected" THEN NoTimers([y EXCEPT !.everConnected = TRUE])
     ELSE [y EXCEPT !.restartTimer = s = "drop"]

(* watchConnection's evaluate, and Drop's scheduleRestart behind it.       *)
Evaluate(s, x, state) ==
  LET y == [x EXCEPT !.pc = state]
  IN IF ~x.watching THEN y
     ELSE IF state = "connected" THEN NoTimers([y EXCEPT !.everConnected = TRUE])
     ELSE [y EXCEPT !.failedTimer = @ \/ state = "failed", !.restartTimer = s = "drop"]

Put(s, x) == side' = [side EXCEPT ![s] = x]

(* An error that is neither a DirectError nor the transfer's, from the     *)
(* encoder, the peer or the sink: failureForTransfer calls it "protocol".  *)
Throws(s) == Put(s, Caught(s, side[s], "protocol")) /\ threw' = [threw EXCEPT ![s] = TRUE]

Init ==
  /\ side = [s \in Sides |-> NewSide(IF s = "page" THEN "inviting" ELSE "start")]
  /\ mail = [s \in Sides |-> <<>>]
  /\ endOut = FALSE /\ keptOut = FALSE /\ stopFrame = [s \in Sides |-> "none"] /\ faults = 0
  /\ threw = [s \in Sides |-> FALSE]

(* Something unasked for happens, while the behaviour still allows it.     *)
Fault == faults < Faults /\ faults' = faults + 1
FaultUnless(due) == IF due THEN UNCHANGED faults ELSE Fault

-----------------------------------------------------------------------------
(* The exchange (the pairing kit's, external): messages arrive in order;   *)
(* the request that carried one may return after the other end has acted   *)
(* on it; and each end's exchange may fail or expire, for good.  The code  *)
(* treats the two alike, so here a failing exchange has expired.           *)

Carry(s) ==
  LET x == side[s] IN
  /\ x.exchange = "open" /\ x.chain # <<>> /\ ~x.carried
  /\ Put(s, [x EXCEPT !.carried = TRUE])
  /\ mail' = [mail EXCEPT ![s] = Append(@, Head(x.chain))]
  /\ UNCHANGED <<endOut, keptOut, stopFrame, faults, threw>>

ExchangeGone(s) ==
  /\ side[s].exchange = "open"
  /\ FaultUnless(side[Other(s)].phase = "ended" /\ ~side[s].linkEnded)   \* the deadline
  /\ Put(s, [side[s] EXCEPT !.exchange = "gone"])
  /\ UNCHANGED <<mail, endOut, keptOut, stopFrame, threw>>

(* What the caller of Link.send does once its message has gone.            *)
AfterSend(s, x, event) ==
  CASE event = "invite" -> [x EXCEPT !.phase = "invited"]
    [] event = "manifest" -> [x EXCEPT !.phase = "offered"]
    [] event = "decline" -> Finished(LinkEnd(x), "declined")
    [] event = "accept" -> [x EXCEPT !.phase = "accepted"]
    [] event = "answer" -> [x EXCEPT !.phase = "connecting", !.reader = "reading"]
    [] event = "restart" -> [x EXCEPT !.restarting = IF x.pending = None THEN "no" ELSE "waiting"]
    [] event = "restart-answer" -> IF x.reader = "sending" THEN [x EXCEPT !.reader = "reading"] ELSE x
    [] event = "stop" -> Shut(x)

(* What it does when its message could not be sent.                        *)
AfterFailedSend(s, x, event, kind) ==
  CASE event = "restart" -> [x EXCEPT !.restarting = "no"]
    [] event = "restart-answer" ->
         IF x.reader # "sending" THEN x
         ELSE IF kind = "cancelled" THEN Fail(s, x, kind) ELSE NoMoreRestarts(x)
    [] event = "decline" -> Finished(LinkEnd(x), kind)
    [] event = "stop" -> Shut(x)
    [] OTHER -> Caught(s, x, kind)

FirstGone(x) == [x EXCEPT !.chain = Tail(@), !.carried = FALSE]

SendSettles(s) ==
  LET x == side[s] IN
  /\ x.carried /\ x.exchange = "open"
  /\ Put(s, AfterSend(s, FirstGone(x), Head(x.chain).event))
  /\ UNCHANGED <<mail, endOut, keptOut, stopFrame, faults, threw>>

(* Mutant: a message whose exchange was closed under it never settles.     *)
SendFails_NotClosed(s) ==
  LET x == side[s] IN
  /\ x.chain # <<>> /\ x.exchange = "gone"
  /\ Put(s, AfterFailedSend(s, FirstGone(x), Head(x.chain).event, "expired"))
  /\ UNCHANGED <<mail, endOut, keptOut, stopFrame, faults, threw>>

SendFails(s) ==
  LET x == side[s] IN
  /\ x.chain # <<>> /\ x.exchange # "open"
  /\ Put(s, AfterFailedSend(s, FirstGone(x), Head(x.chain).event,
                            IF x.exchange = "closed" THEN "cancelled" ELSE "expired"))
  /\ UNCHANGED <<mail, endOut, keptOut, stopFrame, faults, threw>>

-----------------------------------------------------------------------------
(* Link.read and its callers.                                              *)

Reading(x) == x.phase \in ReadPhases \/ x.reader = "reading"

(* A read that throws.                                                     *)
Threw(s, x, kind) == IF x.reader = "reading" THEN Fail(s, x, kind) ELSE Caught(s, x, kind)

(* A message at index i that its reader may use there.                     *)
AfterRead(s, x, m, i) ==
  CASE m.event = "stop" -> Threw(s, [x EXCEPT !.stopped = TRUE], PeerStopKind(m))
    [] m.event = "invite" -> [x EXCEPT !.phase = "choosing"]
    [] m.event = "manifest" -> [x EXCEPT !.phase = "deciding"]
    [] m.event = "decline" -> Finished(LinkEnd(x), "declined")
    [] m.event = "accept" -> [x EXCEPT !.phase = "preparing"]
    [] m.event = "answer" -> [x EXCEPT !.phase = "applying"]
    [] m.event = "restart" ->
         IF i = x.sent THEN [x EXCEPT !.reader = "describing"]
         ELSE Fail(s, LinkStop(x, "failed"), "protocol")
    [] m.event = "restart-answer" ->
         IF i = x.pending
         THEN [DropPending(x) EXCEPT !.pc = IF @ = "failed" THEN "connecting" ELSE @]
         ELSE Fail(s, LinkStop(x, "failed"), "protocol")

Read(s) ==
  LET x == side[s]
      from == Other(s)
      m == Head(mail[from])
      y == [x EXCEPT !.received = @ + 1]
  IN /\ Reading(x) /\ ~x.linkEnded /\ x.exchange = "open" /\ mail[from] # <<>>
     /\ Put(s, IF m.event \in AllowedEvents(from, x.received)
               THEN AfterRead(s, y, m, x.received)
               ELSE Threw(s, LinkStop(y, "failed"), "protocol"))
     /\ mail' = [mail EXCEPT ![from] = Tail(@)]
     /\ UNCHANGED <<endOut, keptOut, stopFrame, faults, threw>>

(* decodeMessage refuses an invitation for its version, direction, servers *)
(* or size.                                                                *)
PageCannotUse ==
  LET x == side["page"] IN
  /\ x.phase = "inviting" /\ ~x.linkEnded /\ x.exchange = "open"
  /\ mail["drop"] # <<>> /\ Head(mail["drop"]).event = "invite"
  /\ Put("page", Caught("page", LinkStop([x EXCEPT !.received = @ + 1], "unsupported"), "unsupported"))
  /\ mail' = [mail EXCEPT !["drop"] = Tail(@)]
  /\ UNCHANGED <<endOut, keptOut, stopFrame, faults, threw>>

ReadFails(s) ==
  LET x == side[s] IN
  /\ Reading(x) /\ (x.linkEnded \/ x.exchange # "open")
  /\ Put(s, IF x.reader # "reading" THEN Caught(s, x, IF x.linkEnded THEN "network" ELSE "expired")
            ELSE IF s = "page" THEN NoMoreRestarts(x)
            ELSE DropPending([x EXCEPT !.reader = "off"]))
  /\ UNCHANGED <<mail, endOut, keptOut, stopFrame, faults, threw>>

-----------------------------------------------------------------------------
(* The calls of each end, up to the transfer.                              *)

(* Sends m and goes on waiting in `phase`, or is refused.                  *)
SendOr(s, x, m, phase) ==
  IF Refusal(x) = "none" THEN [LinkSend(x, m) EXCEPT !.phase = phase] ELSE Caught(s, x, Refusal(x))

(* A new peer and the watch on it.                                         *)
WithPeer(x, phase) ==
  [x EXCEPT !.pc = "connecting", !.watching = TRUE, !.connectTimer = TRUE, !.phase = phase]

(* SenderSession.offer.                                                    *)
PageOffers ==
  LET x == side["page"] IN
  /\ x.phase = "choosing"
  /\ \/ Put("page", Caught("page", x, "too-big"))
     \/ Put("page", SendOr("page", x, Msg("manifest"), "manifestOut"))
  /\ UNCHANGED <<mail, endOut, keptOut, stopFrame, faults, threw>>

(* SenderSession.send, up to the peer: the encoder and createPeer may      *)
(* throw.  The encoder does not heed an abort once it is being made, so a  *)
(* peer may be made after a stop.                                          *)
PagePrepares ==
  LET x == side["page"] IN
  /\ x.phase = "preparing"
  /\ \/ Throws("page")
     \/ (\E kind \in {"source", "no-relay"} : Put("page", Caught("page", x, kind))) /\ UNCHANGED threw
     \/ Put("page", WithPeer(x, "answering")) /\ UNCHANGED threw
  /\ UNCHANGED <<mail, endOut, keptOut, stopFrame, faults>>

(* peer.answer, which throws for a closed peer and may for any; then the   *)
(* answer.                                                                 *)
PageAnswers ==
  LET x == side["page"] IN
  /\ x.phase = "answering"
  /\ \/ Throws("page")
     \/ x.pc # "closed" /\ Put("page", SendOr("page", x, Msg("answer"), "answerOut")) /\ UNCHANGED threw
  /\ UNCHANGED <<mail, endOut, keptOut, stopFrame, faults>>

DropInvites ==
  LET x == side["drop"] IN
  /\ x.phase = "start"
  /\ Put("drop", SendOr("drop", x, Msg("invite"), "inviteOut"))
  /\ UNCHANGED <<mail, endOut, keptOut, stopFrame, faults, threw>>

(* decline, or accept up to the peer.                                      *)
DropDecides ==
  LET x == side["drop"] IN
  /\ x.phase = "deciding"
  /\ \/ Throws("drop")
     \/ /\ \/ Put("drop", IF Refusal(x) = "none" THEN [LinkSend(x, Msg("decline")) EXCEPT !.phase = "declineOut"]
                          ELSE Finished(LinkEnd(x), Refusal(x)))
           \/ Put("drop", Caught("drop", x, "no-relay"))
           \/ Put("drop", WithPeer(x, "offering"))
        /\ UNCHANGED threw
  /\ UNCHANGED <<mail, endOut, keptOut, stopFrame, faults>>

(* peer.offer, then the accept.                                            *)
DropOffers ==
  LET x == side["drop"] IN
  /\ x.phase = "offering"
  /\ \/ Throws("drop")
     \/ x.pc # "closed" /\ Put("drop", SendOr("drop", x, Msg("accept"), "acceptOut")) /\ UNCHANGED threw
  /\ UNCHANGED <<mail, endOut, keptOut, stopFrame, faults>>

(* applyAnswer and createSink, either of which may throw; then readAnswers *)
(* is started.                                                             *)
DropApplies ==
  LET x == side["drop"] IN
  /\ x.phase = "applying"
  /\ \/ Throws("drop")
     \/ /\ x.pc # "closed" /\ Put("drop", [x EXCEPT !.phase = "connecting", !.reader = "reading"])
        /\ UNCHANGED threw
  /\ UNCHANGED <<mail, endOut, keptOut, stopFrame, faults>>

-----------------------------------------------------------------------------
(* The peer connections.  Each end sees its own state; the browser is      *)
(* external.  A connection that failed only comes back through a restart.  *)
(* Once a call has settled nothing looks at its connection any more.       *)

Up(x) == x.pc \notin {"none", "closed"}
Answered(x) == x.phase \in {"applying", "connecting", "moving"} \/ x.everConnected
Described == Answered(side["drop"]) /\ side["page"].phase # "answering"
Trying == {"connecting", "connected", "disconnected"}

Connects(s) ==
  LET x == side[s] IN
  /\ x.watching /\ x.pc \in {"connecting", "disconnected"} /\ Up(side[Other(s)])
  /\ Described
  /\ Put(s, Evaluate(s, x, "connected"))
  /\ UNCHANGED <<mail, endOut, keptOut, stopFrame, faults, threw>>

(* The connection is lost, or the other end has closed, which is noticed   *)
(* sooner or later (consent runs out).  Before the first connection it can *)
(* fail too, once both ends have the other's description.                  *)
Drops(s) ==
  LET x == side[s]
      gone == side[Other(s)].pc = "closed" IN
  /\ x.watching /\ x.pc \in Trying
  /\ x.everConnected \/ gone \/ Described
  /\ FaultUnless(gone)
  /\ \E state \in {"failed"} \cup IF gone \/ ~x.everConnected THEN {} ELSE {"disconnected"} \ {x.pc} :
       Put(s, Evaluate(s, x, state))
  /\ UNCHANGED <<mail, endOut, keptOut, stopFrame, threw>>

(* The data channel opens once both ends are connected, whatever this      *)
(* end's call is still waiting for.                                        *)
Opens(s) ==
  LET x == side[s] IN
  /\ x.watching /\ x.pc = "connected" /\ x.chan = "none"
  /\ side[Other(s)].pc = "connected" \/ side[Other(s)].chan = "open"
  /\ Put(s, [x EXCEPT !.chan = "open"])
  /\ UNCHANGED <<mail, endOut, keptOut, stopFrame, faults, threw>>

(* peer.channel has resolved, and the page has read the path.              *)
Starts(s) ==
  LET x == side[s] IN
  /\ x.phase = "connecting" /\ x.chan = "open"
  /\ Put(s, [x EXCEPT !.phase = "moving"])
  /\ UNCHANGED <<mail, endOut, keptOut, stopFrame, faults, threw>>

(* The other end closed: the channel's close event, which may never come.  *)
ChannelCloses(s) ==
  LET x == side[s] IN
  /\ x.watching /\ x.pc = "connected" /\ x.chan \in {"none", "open"} /\ side[Other(s)].pc = "closed"
  /\ Put(s, [x EXCEPT !.chan = IF @ = "none" THEN "unopened" ELSE "closed"])
  /\ UNCHANGED <<mail, endOut, keptOut, stopFrame, faults, threw>>

(* The watch's clocks: CONNECT_GIVE_UP_MS, which is a fault while the      *)
(* other end is there to be found, and RECONNECT_GIVE_UP_MS.               *)
WatchFires(s) ==
  LET x == side[s] IN
  /\ x.connectTimer \/ x.failedTimer
  /\ FaultUnless(side[Other(s)].phase = "ended" \/ x.failedTimer)
  /\ Put(s, GiveUp(s, [x EXCEPT !.connectTimer = FALSE]))
  /\ UNCHANGED <<mail, endOut, keptOut, stopFrame, threw>>

-----------------------------------------------------------------------------
(* ICE restarts: Drop starts them, the page answers at the same index.     *)

RestartTimerFires ==
  LET x == side["drop"] IN
  /\ x.restartTimer
  /\ Put("drop", [x EXCEPT !.restartTimer = FALSE, !.queue = IF x.used < Restarts THEN @ + 1 ELSE @])
  /\ UNCHANGED <<mail, endOut, keptOut, stopFrame, faults, threw>>

(* restartIce(), which Drop calls when its network changes.                *)
NetworkChanges ==
  LET x == side["drop"] IN
  /\ x.phase \in {"connecting", "moving"}
  /\ Fault
  /\ Put("drop", [x EXCEPT !.queue = @ + 1])
  /\ UNCHANGED <<mail, endOut, keptOut, stopFrame, threw>>

(* restartOnce, up to peer.offer(true).                                    *)
RestartBegins ==
  LET x == side["drop"]
      may == /\ x.outcome # "kept" /\ ~x.linkEnded /\ x.pc # "closed" /\ x.used < Restarts
  IN /\ x.queue > 0 /\ x.restarting = "no"
     /\ Put("drop", IF may THEN [x EXCEPT !.queue = @ - 1, !.used = @ + 1, !.restarting = "describing"]
                    ELSE [x EXCEPT !.queue = @ - 1])
     /\ UNCHANGED <<mail, endOut, keptOut, stopFrame, faults, threw>>

(* Mutant: the index is read after the restart has taken it.               *)
RestartOffers_LateIndex ==
  LET x == side["drop"]
      y == [x EXCEPT !.pending = x.sent + 1] IN
  /\ x.restarting = "describing"
  /\ \/ Put("drop", [x EXCEPT !.restarting = "no"])
     \/ x.pc # "closed" /\ Put("drop", IF Refusal(y) # "none" THEN [y EXCEPT !.restarting = "no"]
                                       ELSE [LinkSend(y, Msg("restart")) EXCEPT !.restarting = "sending"])
  /\ UNCHANGED <<mail, endOut, keptOut, stopFrame, faults, threw>>

(* peer.offer(true) throws, or the offer is made; pendingRestart is set    *)
(* even if the send is refused.                                            *)
RestartOffers ==
  LET x == side["drop"]
      y == [x EXCEPT !.pending = x.sent] IN
  /\ x.restarting = "describing"
  /\ \/ Put("drop", [x EXCEPT !.restarting = "no"])
     \/ x.pc # "closed" /\ Put("drop", IF Refusal(y) # "none" THEN [y EXCEPT !.restarting = "no"]
                                       ELSE [LinkSend(y, Msg("restart")) EXCEPT !.restarting = "sending"])
  /\ UNCHANGED <<mail, endOut, keptOut, stopFrame, faults, threw>>

(* answerRestarts: peer.answer, whose errors end the restarts like those   *)
(* of the exchange, then the restart answer.                               *)
PageAnswersRestart ==
  LET x == side["page"]
      y == [x EXCEPT !.pc = IF @ = "failed" THEN "connecting" ELSE @] IN
  /\ x.reader = "describing"
  /\ \/ Put("page", NoMoreRestarts(x))
     \/ /\ x.pc # "closed" /\ Refusal(x) # "expired"
        /\ Put("page", IF Refusal(x) # "none" THEN Fail("page", y, Refusal(x))
                       ELSE [LinkSend(y, Msg("restart-answer")) EXCEPT !.reader = "sending"])
  /\ UNCHANGED <<mail, endOut, keptOut, stopFrame, faults, threw>>

-----------------------------------------------------------------------------
(* The transfer, as far as it ends the session (DirectTransfer has it all). *)

Moving(s) == side[s].phase = "moving" /\ side[s].chan = "open"

PageSendsEnd ==
  /\ Moving("page") /\ ~endOut
  /\ endOut' = TRUE
  /\ UNCHANGED <<side, mail, keptOut, stopFrame, faults, threw>>

DropKeeps ==
  /\ Moving("drop") /\ endOut
  /\ keptOut' = TRUE
  /\ Put("drop", Finished(side["drop"], "kept"))
  /\ UNCHANGED <<mail, endOut, stopFrame, faults, threw>>

PageHearsKept ==
  /\ Moving("page") /\ keptOut
  /\ Put("page", Finished(side["page"], "arrived"))
  /\ UNCHANGED <<mail, endOut, keptOut, stopFrame, faults, threw>>

(* sink.abort() has returned.                                              *)
SinkAborted ==
  LET x == side["drop"] IN
  /\ x.phase = "aborting"
  /\ Put("drop", Rejected("drop", [x EXCEPT !.error = "none"], x.error))
  /\ UNCHANGED <<mail, endOut, keptOut, stopFrame, faults, threw>>

(* This end's own part of the transfer fails, and says so on the channel.  *)
TransferFails(s) ==
  /\ Moving(s)
  /\ Fault
  /\ \E kind \in IF s = "page" THEN {"source"} ELSE {"verification", "storage"} :
       /\ Put(s, Caught(s, side[s], kind))
       /\ stopFrame' = [stopFrame EXCEPT ![Other(s)] =
                            IF kind = "storage" THEN "peer-storage" ELSE "peer-failed"]
  /\ UNCHANGED <<mail, endOut, keptOut, threw>>

HearsStopFrame(s) ==
  /\ Moving(s) /\ stopFrame[s] # "none"
  /\ Put(s, Caught(s, side[s], stopFrame[s]))
  /\ UNCHANGED <<mail, endOut, keptOut, stopFrame, faults, threw>>

-----------------------------------------------------------------------------
(* stop() from the person, or from a page being hidden (now): the only one *)
(* to pass `immediate`.                                                    *)

SessionStop(s, now) ==
  LET x == side[s]
      told == LinkStop([Blame(x, "cancelled") EXCEPT !.asked = TRUE], "cancelled")
      shut == IF now THEN Close(told) ELSE [told EXCEPT !.closeSoon = TRUE]
  IN /\ ~x.asked /\ x.phase # "ended" /\ x.outcome \notin {"arrived", "kept"}
     /\ now => s = "page"
     /\ Fault
     /\ Put(s, IF x.phase = "moving" THEN Caught(s, shut, "cancelled")
               ELSE IF x.phase \in Idle THEN Finished(shut, "cancelled") ELSE shut)
     /\ stopFrame' = IF Moving(s) THEN [stopFrame EXCEPT ![Other(s)] = "peer-cancelled"] ELSE stopFrame
     /\ UNCHANGED <<mail, endOut, keptOut, threw>>

(* A deliberate stop closes once its words have left, or after FLUSH_MS.   *)
LateClose(s) ==
  /\ side[s].closeSoon
  /\ Put(s, Close([side[s] EXCEPT !.closeSoon = FALSE]))
  /\ UNCHANGED <<mail, endOut, keptOut, stopFrame, faults, threw>>

(* The settled call's close(), after the drain; for the calls before       *)
(* send() and accept(), the host's (the page's finish()).                  *)
CloseNow(s) ==
  /\ side[s].phase = "closing"
  /\ Put(s, Close([side[s] EXCEPT !.phase = "ended"]))
  /\ UNCHANGED <<mail, endOut, keptOut, stopFrame, faults, threw>>

(* A call meets a closed channel: a transfer ends in "closed", and a       *)
(* channel that never opened rejects with a plain Error, which becomes     *)
(* "protocol".                                                             *)
ChannelGone(s) ==
  LET x == side[s] IN
  /\ x.chan \in {"closed", "unopened", "shut"} /\ x.phase \in {"connecting", "moving"}
  /\ Put(s, Caught(s, x, IF x.chan = "closed" THEN "lost" ELSE "protocol"))
  /\ UNCHANGED <<mail, endOut, keptOut, stopFrame, faults, threw>>

-----------------------------------------------------------------------------
(* What the code and the browser do by themselves.                         *)
Internal(s) ==
  \/ Carry(s) \/ SendSettles(s) \/ SendFails(s) \/ Read(s) \/ ReadFails(s)
  \/ WatchFires(s) \/ LateClose(s) \/ CloseNow(s) \/ ChannelGone(s)

DropInternal ==
  \/ DropOffers \/ DropApplies \/ SinkAborted
  \/ RestartTimerFires \/ RestartBegins \/ RestartOffers
PageInternal == PagePrepares \/ PageAnswers \/ PageAnswersRestart

(* Both sessions have ended.                                               *)
Over == (\A s \in Sides : side[s].phase = "ended") /\ UNCHANGED vars

Next ==
  \/ \E s \in Sides :
       \/ Internal(s) \/ ExchangeGone(s)
       \/ Connects(s) \/ Drops(s) \/ Opens(s) \/ ChannelCloses(s)
       \/ Starts(s) \/ TransferFails(s) \/ HearsStopFrame(s)
       \/ \E now \in BOOLEAN : SessionStop(s, now)
  \/ DropInternal \/ PageInternal
  \/ PageOffers \/ PageCannotUse \/ DropInvites \/ DropDecides \/ NetworkChanges
  \/ PageSendsEnd \/ DropKeeps \/ PageHearsKept \/ Over

Spec == Init /\ [][Next]_vars

-----------------------------------------------------------------------------
(* Types of the state.                                                     *)
Reasons == {"none", "cancelled", "failed", "unsupported"}
Message ==
  [event : {"invite", "manifest", "accept", "decline", "answer", "restart", "restart-answer", "stop"},
   reason : Reasons]
Side ==
  [sent : 0..Messages, received : 0..Messages, stopped : BOOLEAN, linkEnded : BOOLEAN, chain : Seq(Message),
   carried : BOOLEAN, exchange : {"open", "gone", "closed"},
   phase : Phases, failure : Failures, error : Failures, outcome : Outcomes,
   reader : {"off", "reading", "describing", "sending"}, asked : BOOLEAN, closeSoon : BOOLEAN,
   pc : Trying \cup {"none", "failed", "closed"}, chan : {"none", "open", "unopened", "shut", "closed"},
   watching : BOOLEAN, everConnected : BOOLEAN,
   connectTimer : BOOLEAN, failedTimer : BOOLEAN, restartTimer : BOOLEAN,
   used : 0..Restarts, queue : Nat, restarting : {"no", "describing", "sending", "waiting"},
   pending : -1..Messages]

TypeOK ==
  /\ side \in [Sides -> Side] /\ mail \in [Sides -> Seq(Message)]
  /\ stopFrame \in [Sides -> {"none", "peer-cancelled", "peer-failed", "peer-storage"}]
  /\ endOut \in BOOLEAN /\ keptOut \in BOOLEAN /\ faults \in 0..Faults
  /\ threw \in [Sides -> BOOLEAN]

(* Two honest ends never find the other in breach: no call ends in         *)
(* "protocol", whatever the restarts, stops, expiries and faults do to the *)
(* order of the messages.  Three cases are called so although nobody broke *)
(* the protocol: an error of this end's own encoder, peer or sink, a       *)
(* channel that closed before it had opened, and Drop's owner stopping     *)
(* before the invitation, whose stop has the first index.                  *)
HonestSessions ==
  \A s \in Sides : side[s].outcome = "protocol" =>
    \/ threw[s]
    \/ side[s].chan = "unopened"
    \/ s = "page" /\ side["page"].received = 1 /\ side["drop"].asked /\ side["drop"].sent = 1

(* LIMITS.messagesPerSide leaves room: an end that has neither stopped nor *)
(* ended can still send its stop, however many restarts it has used.       *)
StopFits == \A s \in Sides : ~side[s].stopped /\ ~side[s].linkEnded => side[s].sent < Messages

(* "A session owns its exchange and its peer connection and closes both    *)
(* when it ends": an ended session leaves no peer open, and no exchange    *)
(* but one that still carries its stop.                                    *)
ClosesBehind ==
  \A s \in Sides :
    LET x == side[s] IN
    x.phase = "ended" => ~Up(x) /\ x.linkEnded /\ (x.exchange = "open" => StopInChain(x))

(* "After a stop, from either end, nothing more is sent": no index is      *)
(* taken once a stop has been sent or read.                                *)
QuietAfterStop == [][\A s \in Sides : side[s].stopped => side'[s].sent = side[s].sent]_vars

(* A session whose file moves is not ended by the deadline or by a     *)
(* failing exchange: its call never settles as "expired" or "network".     *)
DeadlineHarmless ==
  [][\A s \in Sides : side[s].phase \in {"moving", "aborting"}
                        => side'[s].outcome \notin {"expired", "network"}]_vars

(* The failures the page takes from its session in each phase, unless it   *)
(* stopped the session itself.                                             *)
PageFailures(phase) ==
  LET exchange == {"network", "protocol", "unsupported", "expired"}
      peer == {"peer-cancelled", "peer-failed", "peer-unsupported", "protocol"}
  IN CASE phase = "inviting" -> exchange
       [] phase \in {"choosing", "manifestOut", "offered"} -> exchange \cup peer \cup {"too-big"}
       [] phase \in {"preparing", "answering", "answerOut"} ->
            exchange \cup {"source", "no-relay", "connect", "lost"}
       [] phase = "connecting" -> peer \cup {"connect", "lost", "unsupported"}
       [] phase = "moving" -> peer \cup {"lost", "source", "unsupported", "peer-storage"}
       [] OTHER -> {}

(* Each call of the page's session fails only in the ways the page's       *)
(* screen of that moment has an answer to; "cancelled", which the page     *)
(* ignores, only follows its own stop.                                     *)
FailsAsShown ==
  [][LET x == side["page"] y == side'["page"] IN
     x.outcome = "none" /\ y.outcome \notin {"none", "arrived", "declined"} /\ y.failure # "cancelled"
       => y.outcome \in PageFailures(x.phase)]_vars

(* What happens at an end without a person or a close event: the event     *)
(* loop runs what is ready, clocks run out, the exchange has a deadline,   *)
(* and a connection whose other end has gone is found out.                 *)
Unaided(s) ==
  \/ Internal(s) \/ ExchangeGone(s)
  \/ Drops(s) /\ side[Other(s)].pc = "closed"
  \/ s = "drop" /\ DropInternal
  \/ s = "page" /\ PageInternal

(* Such a step is due: a message on its way goes or fails, a read is given *)
(* up, a clock runs, a call goes on or is over, a channel or a connection  *)
(* is known to be gone.                                                    *)
Due(s) ==
  LET x == side[s]
      o == side[Other(s)] IN
  \/ x.chain # <<>>
  \/ Reading(x) /\ (x.linkEnded \/ x.exchange # "open" \/ o.phase = "ended")
  \/ x.failedTimer \/ (x.connectTimer /\ o.phase = "ended")
  \/ x.phase \in {"preparing", "answering", "offering", "applying", "aborting", "closing"}
  \/ x.phase \in {"connecting", "moving"} /\ x.chan \in {"closed", "unopened", "shut"}
  \/ x.watching /\ x.pc \in Trying /\ o.pc = "closed"

(* When one end has ended, the other has ended, waits for its person, or   *)
(* has something coming of its own accord: neither a lost stop nor a close *)
(* event that never comes leaves it hanging.                               *)
NobodyLeftWaiting ==
  \A s \in Sides :
    side[s].phase = "ended" => side[Other(s)].phase \in {"ended"} \cup Idle \/ Due(Other(s))

(* What is due can happen: no send, read, clock or call is left in a state *)
(* that none of its handlers takes.                                        *)
DueCanHappen == \A s \in Sides : Due(s) => ENABLED Unaided(s)

(* What makes the properties of one end inductive, part by part.  All of   *)
(* it is about that end alone: the other end only decides what arrives.    *)
PhasesOf(s) ==
  IF s = "page"
  THEN {"inviting", "choosing", "manifestOut", "offered", "preparing", "answering", "answerOut",
        "connecting", "moving", "closing", "ended"}
  ELSE {"start", "inviteOut", "invited", "deciding", "declineOut", "offering", "acceptOut", "accepted",
        "applying", "connecting", "moving", "aborting", "closing", "ended"}
Done == {"closing", "ended"}
Early ==
  {"inviting", "choosing", "manifestOut", "offered", "preparing",
   "start", "inviteOut", "invited", "deciding", "declineOut"}

(* The messages a call waits for the sending of, and where it waits.       *)
Waited == {"invite", "manifest", "decline", "accept", "answer"}
OutPhase(event) ==
  CASE event = "invite" -> "inviteOut"   [] event = "manifest" -> "manifestOut"
    [] event = "decline" -> "declineOut" [] event = "accept" -> "acceptOut" [] event = "answer" -> "answerOut"
SendsOf(s) ==
  IF s = "page" THEN {"manifest", "answer", "restart-answer", "stop"}
  ELSE {"invite", "accept", "decline", "restart", "stop"}

(* A message on its way whose sender waits has its sender waiting.         *)
ChainFits(s, x) ==
  /\ \A i \in 1..Len(x.chain) :
       /\ x.chain[i].event \in SendsOf(s)
       /\ x.chain[i].event \in Waited => x.phase = OutPhase(x.chain[i].event)
  /\ \A i, j \in 1..Len(x.chain) : x.chain[i].event \in Waited /\ x.chain[j].event \in Waited => i = j
  /\ x.carried => x.chain # <<>>

(* How many indices an end has taken at most, and how many it has read.    *)
MostTaken(s, x) ==
  IF s = "page"
  THEN CASE x.phase \in {"inviting", "choosing"} -> 0
         [] x.phase \in {"manifestOut", "offered", "preparing", "answering"} -> 1
         [] OTHER -> (2 + Restarts) - (IF x.reader = "describing" THEN 1 ELSE 0)
  ELSE (CASE x.phase = "start" -> 0
          [] x.phase \in {"inviteOut", "invited", "deciding", "offering"} -> 1
          [] OTHER -> 2) + x.used - (IF x.restarting = "describing" THEN 1 ELSE 0)

IndexFits(s, x) ==
  /\ ~x.stopped => x.sent <= MostTaken(s, x)
  /\ x.phase \in {"inviting", "start", "inviteOut", "invited"} => x.received = 0
  /\ x.phase \in {"choosing", "manifestOut", "offered", "deciding", "offering", "acceptOut", "accepted"}
       => x.received = 1
  /\ x.phase \in {"preparing", "answering", "answerOut", "applying"} => x.received = 2
  /\ x.reader # "off" => /\ x.received \in 2..(2 + Restarts)
                         /\ x.phase \in {"connecting", "moving", "aborting"} \cup Done

(* The peer and the exchange go when the session ends.                     *)
EndFits(x) ==
  /\ x.outcome = "none" <=> x.phase \notin Done
  /\ x.watching => x.pc # "none" /\ x.phase \notin Done
  /\ x.phase = "ended" => x.pc \in {"none", "closed"} /\ x.linkEnded
  /\ x.linkEnded /\ x.exchange = "open" => StopInChain(x)
  /\ x.exchange = "closed" => x.linkEnded
  /\ x.everConnected \/ x.chan # "none" => x.pc # "none"
  /\ x.chan = "open" \/ x.phase = "moving" \/ x.pc = "connected" => x.everConnected

(* What can have been recorded as the failure.                             *)
Blamed ==
  {"none", "cancelled", "connect", "lost", "protocol", "peer-cancelled", "peer-failed", "peer-unsupported"}
BlameFits(x) ==
  /\ x.failure \in Blamed
  /\ x.phase \in Early => x.failure \in {"none", "cancelled"} /\ x.pc = "none"
  /\ x.phase \in {"answering", "answerOut"} => x.failure \in {"none", "cancelled", "connect", "lost"}
  /\ x.phase = "aborting" => x.error \notin {"none", "expired", "network"}

(* While a call goes on, nothing is closed or stopped without a reason.    *)
ReasonFits(x) ==
  x.phase \notin Done =>
    /\ x.linkEnded \/ x.stopped \/ x.closeSoon \/ x.pc = "closed" => x.failure # "none"
    /\ x.failure = "connect" => ~x.everConnected /\ x.pc = "closed"

SideInv(s, x) ==
  /\ x.phase \in PhasesOf(s) /\ ChainFits(s, x) /\ IndexFits(s, x)
  /\ EndFits(x) /\ BlameFits(x) /\ ReasonFits(x)

(* An end is always in order: its state is typed, its stop still has room, *)
(* and an end that has ended holds neither peer nor exchange.              *)
SessionFits == TypeOK /\ StopFits /\ ClosesBehind /\ \A s \in Sides : SideInv(s, side[s])

(* How a session may end: with nothing sent behind a stop, not by a        *)
(* deadline while the file moves, and with a failure its page can show.    *)
EndsAsPromised == QuietAfterStop /\ DeadlineHarmless /\ FailsAsShown
=============================================================================
