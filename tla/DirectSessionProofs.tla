-------------------------- MODULE DirectSessionProofs --------------------------
(***************************************************************************)
(* Proofs about DirectSession, for any limits on messages and restarts and *)
(* any number of faults.  The first part is about each end by itself: the  *)
(* other end, the exchange and the browser may do whatever the model lets  *)
(* them.  A step replaces the record of one end; the operators that wind   *)
(* an end down (stop, close, blame, give up, fail) are described once, by  *)
(* what they leave alone (Frame), and each action is then a case.  The     *)
(* second part, under "Both ends together", is about what the two ends     *)
(* know of each other through the messages between them.  The third, under *)
(* "Nobody is left waiting", is about what tells an end that the other one *)
(* has gone.                                                               *)
(***************************************************************************)
EXTENDS DirectSession, TLAPS

(***************************************************************************)
(* What winding down leaves alone                                          *)
(***************************************************************************)

(* The link: one stop is sent at most, by a link that has neither stopped  *)
(* nor ended; an ended link stays so, and closes unless a stop is on its   *)
(* way.                                                                    *)
LinkFrame(x, y) ==
  /\ \/ y.sent = x.sent /\ y.chain = x.chain /\ y.stopped = x.stopped
     \/ /\ ~x.stopped /\ ~x.linkEnded /\ y.stopped
        /\ \E r \in Reasons : y.chain = Append(x.chain, StopMsg(r))
  /\ y.carried = x.carried
  /\ x.linkEnded => y.linkEnded
  /\ y.exchange = x.exchange \/ (y.exchange = "closed" /\ y.linkEnded)
  /\ y.linkEnded /\ y.exchange = "open" => StopInChain(y) \/ x.linkEnded

(* The peer and the restarts may go, and nothing comes back.               *)
PeerFrame(x, y) ==
  /\ y.pc = x.pc \/ (y.pc = "closed" /\ x.pc # "none")
  /\ y.chan = x.chan \/ (y.chan # "open" /\ x.pc # "none")
  /\ y.watching => x.watching
  /\ y.reader \in {x.reader, "off"} /\ y.restarting \in {x.restarting, "no"}

Frame(x, y) ==
  /\ y \in Side /\ LinkFrame(x, y) /\ PeerFrame(x, y)
  /\ y.received = x.received /\ y.used = x.used /\ y.everConnected = x.everConnected
  /\ y.failure = x.failure /\ y.closeSoon = x.closeSoon

(* The call goes on.                                                       *)
Eases(x, y) == Frame(x, y) /\ y.phase = x.phase /\ y.outcome = x.outcome /\ y.error = x.error

(* The call settles with error e, or Drop aborts its sink first.           *)
Settled(x, e) == IF x.failure = "none" \/ x.phase \notin CallPhases THEN e ELSE x.failure
Ends(s, x, y, e) ==
  /\ Frame(x, y)
  /\ \/ y.phase = "closing" /\ ~y.watching /\ y.outcome = Settled(x, e)
     \/ /\ s = "drop" /\ x.phase \in {"connecting", "moving"}
        /\ y.phase = "aborting" /\ y.error = e /\ y.outcome = x.outcome

LEMMA AppendedStop ==
  ASSUME NEW x \in Side, NEW r \in Reasons
  PROVE  /\ StopMsg(r) \in Message /\ StopMsg(r).event = "stop"
         /\ LET c == Append(x.chain, StopMsg(r)) IN
            /\ c \in Seq(Message) /\ Len(c) = Len(x.chain) + 1 /\ c[Len(x.chain) + 1] = StopMsg(r)
            /\ \A i \in 1..Len(x.chain) : c[i] = x.chain[i]
  <1>1. StopMsg(r) \in Message /\ StopMsg(r).event = "stop"
    BY DEF StopMsg, Message
  <1>2. x.chain \in Seq(Message)
    BY DEF Side
  <1> QED BY <1>1, <1>2

(* A chain with a stop keeps it when another is appended.                  *)
LEMMA StopStays ==
  ASSUME NEW x \in Side, NEW y \in Side, LinkFrame(x, y), StopInChain(x) PROVE StopInChain(y)
  <1>1. CASE y.chain = x.chain
    BY <1>1 DEF StopInChain
  <1>2. CASE y.chain # x.chain
    <2>1. PICK r \in Reasons : y.chain = Append(x.chain, StopMsg(r))
      BY <1>2 DEF LinkFrame
    <2>2. PICK i \in 1..Len(x.chain) : x.chain[i].event = "stop"
      BY DEF StopInChain
    <2>3. Len(y.chain) = Len(x.chain) + 1 /\ y.chain[i] = x.chain[i] /\ Len(x.chain) \in Nat
      BY <2>1, AppendedStop DEF Side
    <2> QED BY <2>2, <2>3 DEF StopInChain
  <1> QED BY <1>1, <1>2

LEMMA FrameRefl == ASSUME NEW x \in Side PROVE Frame(x, x)
  BY DEF Frame, LinkFrame, PeerFrame

LEMMA FrameTrans ==
  ASSUME NEW x \in Side, NEW y, NEW z, Frame(x, y), Frame(y, z) PROVE Frame(x, z)
  <1>1. y \in Side /\ z \in Side
    BY DEF Frame
  <1>2. LinkFrame(x, y) /\ LinkFrame(y, z) /\ PeerFrame(x, y) /\ PeerFrame(y, z)
    BY DEF Frame
  <1>3. PeerFrame(x, z)
    BY <1>2 DEF PeerFrame
  <1>4. StopInChain(y) => StopInChain(z)
    BY <1>1, <1>2, StopStays
  <1>5. LinkFrame(x, z)
    BY <1>2, <1>4 DEF LinkFrame
  <1> QED BY <1>1, <1>3, <1>5 DEF Frame

LEMMA EasesTrans ==
  ASSUME NEW x \in Side, NEW y, NEW z, Eases(x, y), Eases(y, z) PROVE Eases(x, z)
  BY FrameTrans DEF Eases

(***************************************************************************)
(* The operators                                                           *)
(***************************************************************************)

LEMMA LinkStopEases ==
  ASSUME NEW x \in Side, NEW r \in Reasons
  PROVE  /\ Eases(x, LinkStop(x, r))
         /\ LinkStop(x, r).linkEnded = x.linkEnded /\ LinkStop(x, r).pc = x.pc
         /\ LinkStop(x, r).watching = x.watching /\ LinkStop(x, r).chan = x.chan
         /\ LinkStop(x, r).reader = x.reader /\ LinkStop(x, r).restarting = x.restarting
         /\ LinkStop(x, r).exchange = x.exchange
  <1>1. CASE x.stopped \/ x.linkEnded \/ x.sent >= Messages
    <2>1. LinkStop(x, r) = x
      BY <1>1 DEF LinkStop
    <2> QED BY <2>1, FrameRefl DEF Eases
  <1>2. CASE ~(x.stopped \/ x.linkEnded \/ x.sent >= Messages)
    <2> DEFINE c == Append(x.chain, StopMsg(r))
    <2>1. c \in Seq(Message)
      BY AppendedStop
    <2>2. x.sent + 1 \in 0..Messages
      BY <1>2, LimitsAssumption DEF Side
    <2>3. LinkStop(x, r) = [[x EXCEPT !.stopped = TRUE] EXCEPT !.sent = x.sent + 1, !.chain = c]
      BY <1>2 DEF LinkStop, LinkSend, Side
    <2> HIDE DEF c
    <2> DEFINE y == [[x EXCEPT !.stopped = TRUE] EXCEPT !.sent = x.sent + 1, !.chain = c]
    <2>4. /\ y \in Side /\ y.stopped /\ y.chain = c /\ y.carried = x.carried
          /\ y.linkEnded = x.linkEnded /\ y.exchange = x.exchange /\ y.pc = x.pc /\ y.chan = x.chan
          /\ y.watching = x.watching /\ y.reader = x.reader /\ y.restarting = x.restarting
          /\ y.received = x.received /\ y.used = x.used /\ y.everConnected = x.everConnected
          /\ y.failure = x.failure /\ y.closeSoon = x.closeSoon
          /\ y.phase = x.phase /\ y.outcome = x.outcome /\ y.error = x.error
      BY <2>1, <2>2 DEF Side
    <2> HIDE DEF y
    <2>5. \E q \in Reasons : y.chain = Append(x.chain, StopMsg(q))
      BY <2>4 DEF c
    <2>6. LinkFrame(x, y) /\ PeerFrame(x, y)
      BY <1>2, <2>4, <2>5 DEF LinkFrame, PeerFrame
    <2>7. LinkStop(x, r) = y
      BY <2>3 DEF y
    <2> QED BY <2>4, <2>6, <2>7 DEF Eases, Frame
  <1> QED BY <1>1, <1>2

LEMMA LinkEndEases ==
  ASSUME NEW x \in Side
  PROVE  /\ Eases(x, LinkEnd(x)) /\ LinkEnd(x).linkEnded
         /\ LinkEnd(x).pc = x.pc /\ LinkEnd(x).chan = x.chan /\ LinkEnd(x).watching = x.watching
         /\ LinkEnd(x).stopped = x.stopped /\ LinkEnd(x).sent = x.sent /\ LinkEnd(x).chain = x.chain
         /\ LinkEnd(x).reader = x.reader /\ LinkEnd(x).restarting = x.restarting
  <1> DEFINE z == [x EXCEPT !.linkEnded = TRUE]
             y == [z EXCEPT !.exchange = "closed"]
  <1>1. /\ z \in Side /\ z.linkEnded /\ z.chain = x.chain /\ z.carried = x.carried /\ z.exchange = x.exchange
        /\ y \in Side /\ y.linkEnded /\ y.chain = x.chain /\ y.carried = x.carried /\ y.exchange = "closed"
    BY DEF Side
  <1>2. StopInChain(z) <=> StopInChain(x)
    BY <1>1 DEF StopInChain
  <1>3. Eases(x, y) /\ y.pc = x.pc /\ y.chan = x.chan /\ y.watching = x.watching
        /\ y.stopped = x.stopped /\ y.sent = x.sent /\ y.reader = x.reader /\ y.restarting = x.restarting
    BY <1>1 DEF Eases, Frame, LinkFrame, PeerFrame, Side
  <1>4. z.pc = x.pc /\ z.chan = x.chan /\ z.watching = x.watching
        /\ z.stopped = x.stopped /\ z.sent = x.sent /\ z.reader = x.reader /\ z.restarting = x.restarting
    BY DEF Side
  <1>5. ASSUME ~(z.linkEnded /\ ~StopInChain(z) /\ z.exchange = "open") PROVE Eases(x, z)
    BY <1>1, <1>4, <1>5 DEF Eases, Frame, LinkFrame, PeerFrame, Side
  <1>6. LinkEnd(x) = IF z.linkEnded /\ ~StopInChain(z) /\ z.exchange = "open" THEN y ELSE z
    BY DEF LinkEnd, Shut
  <1> HIDE DEF y, z
  <1> QED BY <1>1, <1>3, <1>4, <1>5, <1>6

LEMMA ClosePeerEases ==
  ASSUME NEW x \in Side
  PROVE  /\ Eases(x, ClosePeer(x)) /\ ClosePeer(x).pc \in {"none", "closed"}
         /\ ClosePeer(x).linkEnded = x.linkEnded /\ ClosePeer(x).watching = x.watching
         /\ ClosePeer(x).stopped = x.stopped /\ ClosePeer(x).sent = x.sent /\ ClosePeer(x).chain = x.chain
         /\ ClosePeer(x).reader = x.reader /\ ClosePeer(x).restarting = x.restarting
         /\ ClosePeer(x).exchange = x.exchange
  <1>1. CASE x.pc \in {"none", "closed"}
    <2>1. ClosePeer(x) = x
      BY <1>1 DEF ClosePeer
    <2> QED BY <1>1, <2>1, FrameRefl DEF Eases
  <1>2. CASE x.pc \notin {"none", "closed"}
    <2> DEFINE c == CASE x.chan = "none" -> "shut" [] x.chan = "open" -> "closed" [] OTHER -> x.chan
               y == [[x EXCEPT !.pc = "closed", !.chan = c]
                       EXCEPT !.connectTimer = FALSE, !.failedTimer = FALSE, !.restartTimer = FALSE]
    <2>1. c \in {"none", "open", "unopened", "shut", "closed"} /\ c # "open"
      BY DEF Side
    <2>2. ClosePeer(x) = y
      BY <1>2 DEF ClosePeer, NoTimers
    <2> HIDE DEF c
    <2>3. /\ y \in Side /\ y.pc = "closed" /\ y.chan = c
          /\ y.sent = x.sent /\ y.chain = x.chain /\ y.carried = x.carried /\ y.stopped = x.stopped
          /\ y.linkEnded = x.linkEnded /\ y.exchange = x.exchange
          /\ y.watching = x.watching /\ y.reader = x.reader /\ y.restarting = x.restarting
          /\ y.received = x.received /\ y.used = x.used /\ y.everConnected = x.everConnected
          /\ y.failure = x.failure /\ y.closeSoon = x.closeSoon
          /\ y.phase = x.phase /\ y.outcome = x.outcome /\ y.error = x.error
      BY <2>1 DEF Side
    <2> HIDE DEF y
    <2>4. LinkFrame(x, y) /\ PeerFrame(x, y)
      BY <1>2, <2>1, <2>3 DEF LinkFrame, PeerFrame
    <2> QED BY <2>2, <2>3, <2>4 DEF Eases, Frame
  <1> QED BY <1>1, <1>2

LEMMA CloseEases ==
  ASSUME NEW x \in Side
  PROVE  /\ Eases(x, Close(x)) /\ Close(x).pc \in {"none", "closed"} /\ Close(x).linkEnded
         /\ Close(x).stopped = x.stopped /\ Close(x).sent = x.sent /\ Close(x).watching = x.watching
         /\ Close(x).reader = x.reader /\ Close(x).restarting = x.restarting
  <1>1. ClosePeer(x) \in Side
    BY ClosePeerEases DEF Eases, Frame
  <1>2. Eases(x, ClosePeer(x)) /\ Eases(ClosePeer(x), Close(x))
    BY <1>1, ClosePeerEases, LinkEndEases DEF Close
  <1>3. Eases(x, Close(x))
    BY <1>2, EasesTrans
  <1> QED BY <1>1, <1>3, ClosePeerEases, LinkEndEases DEF Close

(* Blame changes the failure and nothing else.                             *)
LEMMA BlameDoes ==
  ASSUME NEW x \in Side, NEW kind \in Failures
  PROVE  LET y == Blame(x, kind) IN
         /\ y \in Side /\ y.failure = IF x.failure = "none" THEN kind ELSE x.failure
         /\ \A f \in DOMAIN x \ {"failure"} : y[f] = x[f]
         /\ DOMAIN y = DOMAIN x
  <1>1. CASE x.failure = "none"
    <2>1. Blame(x, kind) = [x EXCEPT !.failure = kind]
      BY <1>1 DEF Blame
    <2>2. [x EXCEPT !.failure = kind] \in Side
      BY DEF Side
    <2> QED BY <1>1, <2>1, <2>2 DEF Side
  <1>2. CASE x.failure # "none"
    BY <1>2 DEF Blame
  <1> QED BY <1>1, <1>2

LEMMA DropPendingEases ==
  ASSUME NEW x \in Side
  PROVE  LET y == DropPending(x) IN
         /\ Eases(x, y) /\ y.pc = x.pc /\ y.linkEnded = x.linkEnded /\ y.watching = x.watching
         /\ y.stopped = x.stopped /\ y.sent = x.sent /\ y.chain = x.chain /\ y.carried = x.carried /\ y.reader = x.reader
         /\ y.exchange = x.exchange /\ y.chan = x.chan
         /\ x.restarting = "describing" => y.restarting = "describing"
  <1> DEFINE q == IF x.pending # None /\ x.restarting = "waiting" THEN "no" ELSE x.restarting
             y == [x EXCEPT !.pending = None, !.restarting = q]
  <1>1. q \in {"no", "describing", "sending", "waiting"} /\ q \in {x.restarting, "no"} /\ None \in -1..Messages
        /\ (x.restarting = "describing" => q = "describing")
    BY LimitsAssumption DEF Side, None
  <1>2. DropPending(x) = y
    BY DEF DropPending, Side
  <1> HIDE DEF q
  <1>3. /\ y \in Side /\ y.restarting = q
        /\ y.sent = x.sent /\ y.chain = x.chain /\ y.carried = x.carried /\ y.stopped = x.stopped
        /\ y.linkEnded = x.linkEnded /\ y.exchange = x.exchange /\ y.pc = x.pc /\ y.chan = x.chan
        /\ y.watching = x.watching /\ y.reader = x.reader
        /\ y.received = x.received /\ y.used = x.used /\ y.everConnected = x.everConnected
        /\ y.failure = x.failure /\ y.closeSoon = x.closeSoon
        /\ y.phase = x.phase /\ y.outcome = x.outcome /\ y.error = x.error
    BY <1>1 DEF Side
  <1> HIDE DEF y
  <1>4. LinkFrame(x, y) /\ PeerFrame(x, y)
    BY <1>1, <1>3 DEF LinkFrame, PeerFrame
  <1> QED BY <1>1, <1>2, <1>3, <1>4 DEF Eases, Frame

LEMMA FinishedEnds ==
  ASSUME NEW x \in Side, NEW o \in Outcomes
  PROVE  LET y == Finished(x, o) IN
         /\ Frame(x, y) /\ y.phase = "closing" /\ ~y.watching /\ y.outcome = o
         /\ y.pc = x.pc /\ y.linkEnded = x.linkEnded /\ y.stopped = x.stopped /\ y.reader = x.reader
         /\ y.restarting = x.restarting /\ y.sent = x.sent /\ y.chain = x.chain /\ y.carried = x.carried
         /\ y.exchange = x.exchange
  <1> DEFINE y == [[x EXCEPT !.phase = "closing", !.outcome = o, !.watching = FALSE]
                     EXCEPT !.connectTimer = FALSE, !.failedTimer = FALSE, !.restartTimer = FALSE]
  <1>1. Finished(x, o) = y /\ "closing" \in Phases
    BY DEF Finished, NoTimers, Phases
  <1>2. /\ y \in Side /\ y.phase = "closing" /\ y.outcome = o /\ y.watching = FALSE
        /\ y.sent = x.sent /\ y.chain = x.chain /\ y.carried = x.carried /\ y.stopped = x.stopped
        /\ y.linkEnded = x.linkEnded /\ y.exchange = x.exchange /\ y.pc = x.pc /\ y.chan = x.chan
        /\ y.reader = x.reader /\ y.restarting = x.restarting
        /\ y.received = x.received /\ y.used = x.used /\ y.everConnected = x.everConnected
        /\ y.failure = x.failure /\ y.closeSoon = x.closeSoon
    BY <1>1 DEF Side
  <1> HIDE DEF y
  <1>3. LinkFrame(x, y) /\ PeerFrame(x, y)
    BY <1>2 DEF LinkFrame, PeerFrame
  <1> QED BY <1>1, <1>2, <1>3 DEF Frame

(* A call that rejects: a stop at most, and then it has settled.           *)
LEMMA RejectedEnds ==
  ASSUME NEW s \in Sides, NEW x \in Side, NEW e \in Failures
  PROVE  /\ Ends(s, x, Rejected(s, x, e), e) /\ Rejected(s, x, e).phase = "closing"
         /\ Rejected(s, x, e).reader = x.reader /\ Rejected(s, x, e).restarting = x.restarting
         /\ Rejected(s, x, e).pc = x.pc /\ Rejected(s, x, e).linkEnded = x.linkEnded
  <1> DEFINE kind == Settled(x, e)
             told == IF StopFor(s, kind) = "none" THEN x ELSE LinkStop(x, StopFor(s, kind))
  <1>1. kind \in Failures /\ kind \in Outcomes
    BY DEF Settled, Side, Outcomes
  <1>2. Rejected(s, x, e) = Finished(told, kind)
    BY DEF Rejected, Settled
  <1>3. StopFor(s, kind) \in Reasons
    BY DEF StopFor, Reasons
  <1>4. /\ Eases(x, told) /\ told.reader = x.reader /\ told.restarting = x.restarting /\ told.pc = x.pc
        /\ told.linkEnded = x.linkEnded
    BY <1>3, LinkStopEases, FrameRefl DEF Eases
  <1> HIDE DEF kind, told
  <1>5. told \in Side
    BY <1>4 DEF Eases, Frame
  <1> DEFINE y == Finished(told, kind)
  <1>6. /\ Frame(told, y) /\ y.phase = "closing" /\ ~y.watching /\ y.outcome = kind
        /\ y.reader = told.reader /\ y.restarting = told.restarting /\ y.pc = told.pc /\ y.linkEnded = told.linkEnded
    BY <1>1, <1>5, FinishedEnds
  <1>7. Frame(x, y)
    BY <1>4, <1>6, FrameTrans DEF Eases
  <1> QED BY <1>2, <1>4, <1>6, <1>7 DEF Ends, kind

LEMMA CaughtEnds ==
  ASSUME NEW s \in Sides, NEW x \in Side, NEW e \in Failures
  PROVE  /\ Ends(s, x, Caught(s, x, e), e)
         /\ Caught(s, x, e).reader = x.reader /\ Caught(s, x, e).restarting = x.restarting
         /\ Caught(s, x, e).pc = x.pc /\ Caught(s, x, e).linkEnded = x.linkEnded
  <1>1. CASE s = "drop" /\ x.phase \in {"connecting", "moving"}
    <2> DEFINE y == [x EXCEPT !.phase = "aborting", !.error = e]
    <2>1. Caught(s, x, e) = y /\ "aborting" \in Phases
      BY <1>1 DEF Caught, Phases, CallPhases
    <2>2. /\ y \in Side /\ y.phase = "aborting" /\ y.error = e /\ y.outcome = x.outcome
          /\ y.sent = x.sent /\ y.chain = x.chain /\ y.carried = x.carried /\ y.stopped = x.stopped
          /\ y.linkEnded = x.linkEnded /\ y.exchange = x.exchange /\ y.pc = x.pc /\ y.chan = x.chan
          /\ y.watching = x.watching /\ y.reader = x.reader /\ y.restarting = x.restarting
          /\ y.received = x.received /\ y.used = x.used /\ y.everConnected = x.everConnected
          /\ y.failure = x.failure /\ y.closeSoon = x.closeSoon
      BY <2>1 DEF Side
    <2> HIDE DEF y
    <2>3. LinkFrame(x, y) /\ PeerFrame(x, y)
      BY <2>2 DEF LinkFrame, PeerFrame
    <2> QED BY <1>1, <2>1, <2>2, <2>3 DEF Ends, Frame
  <1>2. CASE ~(s = "drop" /\ x.phase \in {"connecting", "moving"})
    <2>1. Caught(s, x, e) = Rejected(s, x, e)
      BY <1>2 DEF Caught
    <2> QED BY <2>1, RejectedEnds
  <1> QED BY <1>1, <1>2

(* Why the watch gives up.                                                 *)
Why(x) == IF x.everConnected THEN "lost" ELSE "connect"

(* watch.giveUp(): the reason is recorded, everything is closed, and a     *)
(* call that races it settles.                                             *)
LEMMA GiveUpDoes ==
  ASSUME NEW s \in Sides, NEW x \in Side
  PROVE  LET y == GiveUp(s, x)
             b == Blame(x, Why(x)) IN
         \/ ~x.watching /\ y = x
         \/ /\ x.watching /\ x.phase \notin {"connecting", "moving"}
            /\ Eases(b, y) /\ y.linkEnded /\ y.pc \in {"none", "closed"}
            /\ y.stopped = x.stopped /\ y.reader = x.reader /\ y.restarting = x.restarting
         \/ /\ x.watching /\ x.phase \in {"connecting", "moving"}
            /\ Ends(s, b, y, Why(x)) /\ y.linkEnded /\ y.pc \in {"none", "closed"}
            /\ y.reader = x.reader /\ y.restarting = x.restarting
  <1> DEFINE b == Blame(x, Why(x))
             shut == Close(b)
  <1>1. Why(x) \in Failures
    BY DEF Why, Failures
  <1>2. /\ b \in Side /\ b.phase = x.phase /\ b.reader = x.reader /\ b.restarting = x.restarting /\ b.stopped = x.stopped
        /\ b.everConnected = x.everConnected
    BY <1>1, BlameDoes DEF Side
  <1>3. /\ Eases(b, shut) /\ shut.pc \in {"none", "closed"} /\ shut.linkEnded
        /\ shut.reader = b.reader /\ shut.restarting = b.restarting /\ shut.stopped = b.stopped
    BY <1>2, CloseEases
  <1>4. GiveUp(s, x) = IF ~x.watching THEN x
                       ELSE IF x.phase \in {"connecting", "moving"} THEN Caught(s, shut, Why(x)) ELSE shut
    BY DEF GiveUp, Why
  <1> HIDE DEF b, shut
  <1>5. shut \in Side /\ shut.phase = b.phase /\ shut.failure = b.failure /\ shut.outcome = b.outcome
    BY <1>3 DEF Eases, Frame
  <1>6. CASE x.watching /\ x.phase \in {"connecting", "moving"}
    <2> DEFINE y == Caught(s, shut, Why(x))
    <2>1. /\ Ends(s, shut, y, Why(x)) /\ y.reader = shut.reader /\ y.restarting = shut.restarting
          /\ y.pc = shut.pc /\ y.linkEnded = shut.linkEnded
      BY <1>1, <1>5, CaughtEnds
    <2> HIDE DEF y
    <2>2. Frame(b, y)
      BY <1>2, <1>3, <2>1, FrameTrans DEF Ends, Eases
    <2>3. Settled(b, Why(x)) = Settled(shut, Why(x))
      BY <1>5 DEF Settled
    <2>4. Ends(s, b, y, Why(x))
      BY <1>5, <2>1, <2>2, <2>3 DEF Ends
    <2>5. GiveUp(s, x) = y
      BY <1>4, <1>6 DEF y
    <2> QED BY <1>2, <1>3, <1>6, <2>1, <2>4, <2>5 DEF b
  <1>7. CASE ~(x.watching /\ x.phase \in {"connecting", "moving"})
    BY <1>2, <1>3, <1>4, <1>7 DEF b
  <1> QED BY <1>6, <1>7

(* fail(error): as giveUp, with the reason recorded and nobody reading.    *)
LEMMA FailDoes ==
  ASSUME NEW s \in Sides, NEW x \in Side, NEW kind \in Failures \ {"none"}
  PROVE  LET y == Fail(s, x, kind)
             b == [Blame(x, kind) EXCEPT !.reader = "off"] IN
         /\ b \in Side /\ y.reader = "off" /\ y.pc \in {"none", "closed"}
         /\ \/ Eases(b, y)
            \/ x.phase \in {"connecting", "moving"} /\ Ends(s, b, y, Why(x))
  <1> DEFINE a == Blame(x, kind)
             b == [a EXCEPT !.reader = "off"]
             d == DropPending(b)
             g == GiveUp(s, d)
  <1>1. /\ a \in Side /\ a.failure # "none" /\ a.phase = x.phase /\ a.everConnected = x.everConnected
    BY BlameDoes DEF Side
  <1>2. /\ b \in Side /\ b.reader = "off" /\ b.failure # "none" /\ b.phase = x.phase /\ b.everConnected = x.everConnected
    BY <1>1 DEF Side
  <1>3. Eases(b, d) /\ d.reader = "off"
    BY <1>2, DropPendingEases
  <1>4. d \in Side /\ d.failure # "none" /\ d.phase = x.phase /\ d.everConnected = x.everConnected /\ d.outcome = b.outcome
        /\ d.failure = b.failure
    BY <1>2, <1>3 DEF Eases, Frame
  <1>5. Blame(d, Why(d)) = d /\ Why(d) = Why(x)
    BY <1>4 DEF Blame, Why
  <1>6. Fail(s, x, kind) = ClosePeer(g)
    BY DEF Fail
  <1> HIDE DEF a, b, d
  <1>7. \/ g = d
        \/ Eases(d, g) /\ g.reader = d.reader
        \/ x.phase \in {"connecting", "moving"} /\ Ends(s, d, g, Why(x)) /\ g.reader = d.reader
    BY <1>4, <1>5, GiveUpDoes
  <1> HIDE DEF g
  <1>8. g \in Side /\ g.reader = "off" /\ Frame(d, g)
    BY <1>3, <1>4, <1>7, FrameRefl DEF Eases, Ends, Frame
  <1>9. Frame(b, g)
    BY <1>2, <1>3, <1>8, FrameTrans DEF Eases
  <1> DEFINE y == ClosePeer(g)
  <1>10. Eases(g, y) /\ y.pc \in {"none", "closed"} /\ y.reader = "off" /\ y.watching = g.watching
    BY <1>8, ClosePeerEases
  <1> HIDE DEF y
  <1>11. Frame(b, y)
    BY <1>2, <1>9, <1>10, FrameTrans DEF Eases
  <1>12. CASE g.phase = d.phase /\ g.outcome = d.outcome /\ g.error = d.error
    <2>1. Eases(b, y)
      BY <1>3, <1>10, <1>11, <1>12 DEF Eases
    <2> QED BY <1>2, <1>6, <1>10, <2>1 DEF a, b, y
  <1>13. CASE x.phase \in {"connecting", "moving"} /\ Ends(s, d, g, Why(x))
    <2>1. Settled(d, Why(x)) = Settled(b, Why(x))
      BY <1>2, <1>4 DEF Settled
    <2>2. Ends(s, b, y, Why(x))
      BY <1>2, <1>4, <1>10, <1>11, <1>13, <2>1 DEF Ends, Eases
    <2> QED BY <1>2, <1>6, <1>10, <1>13, <2>2 DEF a, b, y
  <1> QED BY <1>7, <1>12, <1>13 DEF Eases

(***************************************************************************)
(* What a step must show of the end it changes                             *)
(***************************************************************************)

NoWaited(x) == \A i \in 1..Len(x.chain) : x.chain[i].event \notin Waited

(* SideInv, apart from the reasons.                                        *)
Mostly(s, x) ==
  /\ x \in Side /\ x.phase \in PhasesOf(s) /\ ChainFits(s, x) /\ IndexFits(s, x)
  /\ EndFits(x) /\ BlameFits(x)

(* As much of it as outlives a call that settles.                          *)
Loose(s, x) ==
  /\ x \in Side /\ x.phase \in PhasesOf(s) /\ ChainFits(s, x)
  /\ ~x.stopped => x.sent <= MostTaken(s, x)
  /\ x.reader # "off" => /\ x.received \in 2..(2 + Restarts)
                         /\ x.phase \in {"connecting", "moving", "aborting"} \cup Done
  /\ x.watching => x.pc # "none"
  /\ x.linkEnded /\ x.exchange = "open" => StopInChain(x)
  /\ x.exchange = "closed" => x.linkEnded
  /\ x.everConnected \/ x.chan # "none" => x.pc # "none"
  /\ x.chan = "open" \/ x.pc = "connected" => x.everConnected
  /\ x.failure \in Blamed

LEMMA MostlyLoose == ASSUME NEW s, NEW x, Mostly(s, x) PROVE Loose(s, x)
  BY DEF Mostly, Loose, IndexFits, EndFits, BlameFits

(* The three action properties, of one end.                                *)
Quiet(x, y) == x.stopped => y.sent = x.sent
Harmless(x, y) == x.phase \in {"moving", "aborting"} => y.outcome \notin {"expired", "network"}
Shown(s, x, y) ==
  s = "page" /\ x.outcome = "none" /\ y.outcome \notin {"none", "arrived", "declined"} /\ y.failure # "cancelled"
    => y.outcome \in PageFailures(x.phase)

Good(s, x, y) == y \in Side /\ SideInv(s, y) /\ Quiet(x, y) /\ Harmless(x, y) /\ Shown(s, x, y)

(* A chain fits when nothing but a stop is added, and the call goes on or  *)
(* waits for none of its messages.                                         *)
LEMMA ChainKept ==
  ASSUME NEW s \in Sides, NEW x \in Side, NEW y \in Side, ChainFits(s, x), LinkFrame(x, y),
         y.phase = x.phase \/ NoWaited(x)
  PROVE  ChainFits(s, y) /\ (NoWaited(x) => NoWaited(y))
  <1>1. CASE y.chain = x.chain
    BY <1>1 DEF ChainFits, NoWaited, LinkFrame
  <1>2. CASE y.chain # x.chain
    <2>1. PICK r \in Reasons : y.chain = Append(x.chain, StopMsg(r))
      BY <1>2 DEF LinkFrame
    <2>2. /\ Len(y.chain) = Len(x.chain) + 1 /\ y.chain[Len(x.chain) + 1].event = "stop" /\ Len(x.chain) \in Nat
          /\ \A i \in 1..Len(x.chain) : y.chain[i] = x.chain[i]
      BY <2>1, AppendedStop DEF Side
    <2>3. "stop" \in SendsOf(s) /\ "stop" \notin Waited
      BY DEF SendsOf, Waited
    <2>4. \A i \in 1..Len(y.chain) : i \in 1..Len(x.chain) \/ i = Len(x.chain) + 1
      BY <2>2
    <2>5. \A i \in 1..Len(y.chain) : y.chain[i].event \in SendsOf(s)
      BY <2>2, <2>3, <2>4 DEF ChainFits
    <2>6. \A i \in 1..Len(y.chain) : y.chain[i].event \in Waited => i \in 1..Len(x.chain) /\ x.chain[i].event \in Waited
      BY <2>2, <2>3, <2>4
    <2>7. \A i \in 1..Len(y.chain) : y.chain[i].event \in Waited => y.phase = OutPhase(y.chain[i].event)
      BY <2>2, <2>6 DEF ChainFits, NoWaited
    <2>8. y.chain # <<>>
      BY <2>2
    <2> QED BY <2>5, <2>6, <2>7, <2>8 DEF ChainFits, NoWaited
  <1> QED BY <1>1, <1>2

(* An ended link still waits only for its stop.                            *)
LEMMA LinkKept ==
  ASSUME NEW x \in Side, NEW y \in Side, LinkFrame(x, y),
         x.linkEnded /\ x.exchange = "open" => StopInChain(x), x.exchange = "closed" => x.linkEnded
  PROVE  /\ y.linkEnded /\ y.exchange = "open" => StopInChain(y)
         /\ y.exchange = "closed" => y.linkEnded
  <1>1. StopInChain(x) => StopInChain(y)
    BY StopStays
  <1> QED BY <1>1 DEF LinkFrame

(* Winding down while the call goes on keeps the invariant, given that     *)
(* there is a reason.                                                      *)
LEMMA EasesKeeps ==
  ASSUME NEW s \in Sides, NEW x, NEW y, Mostly(s, x), Eases(x, y)
  PROVE  Mostly(s, y) /\ Quiet(x, y) /\ Harmless(x, y) /\ Shown(s, x, y)
  <1>1. x \in Side /\ y \in Side /\ LinkFrame(x, y) /\ PeerFrame(x, y)
    BY DEF Mostly, Eases, Frame
  <1>2. /\ y.phase = x.phase /\ y.outcome = x.outcome /\ y.error = x.error /\ y.failure = x.failure
        /\ y.received = x.received /\ y.used = x.used /\ y.everConnected = x.everConnected
    BY DEF Eases, Frame
  <1>3. ChainFits(s, y)
    BY <1>1, <1>2, ChainKept DEF Mostly
  <1>4. (y.linkEnded /\ y.exchange = "open" => StopInChain(y)) /\ (y.exchange = "closed" => y.linkEnded)
    BY <1>1, LinkKept DEF Mostly, EndFits
  <1>5. EndFits(y)
    BY <1>1, <1>2, <1>4 DEF Mostly, EndFits, LinkFrame, PeerFrame
  <1>6. BlameFits(y)
    BY <1>1, <1>2 DEF Mostly, BlameFits, PeerFrame
  <1>7. IndexFits(s, y)
    <2>1. ~y.stopped => ~x.stopped /\ y.sent = x.sent
      BY <1>1 DEF LinkFrame
    <2>2. x.used \in Nat /\ Restarts \in Nat /\ x.sent \in Nat
      BY <1>1, LimitsAssumption DEF Side
    <2>3. MostTaken(s, x) <= MostTaken(s, y)
      BY <1>1, <1>2, <2>2 DEF MostTaken, PeerFrame
    <2>4. MostTaken(s, x) \in Int /\ MostTaken(s, y) \in Int
      BY <1>2, <2>2 DEF MostTaken
    <2>5. ~y.stopped => y.sent <= MostTaken(s, y)
      BY <2>1, <2>2, <2>3, <2>4 DEF Mostly, IndexFits
    <2> QED BY <1>1, <1>2, <2>5 DEF Mostly, IndexFits, PeerFrame
  <1>8. Quiet(x, y)
    BY <1>1 DEF Quiet, LinkFrame
  <1>9. Harmless(x, y) /\ Shown(s, x, y)
    BY <1>2 DEF Harmless, Shown, Mostly, EndFits, Done
  <1> QED BY <1>1, <1>2, <1>3, <1>5, <1>6, <1>7, <1>8, <1>9 DEF Mostly

LEMMA EasesGood ==
  ASSUME NEW s \in Sides, NEW x, NEW y, Mostly(s, x), Eases(x, y), ReasonFits(y)
  PROVE  Good(s, x, y)
  BY EasesKeeps DEF Good, SideInv, Mostly

(* A call that settles, or begins to abort its sink.                       *)
LEMMA SettlesGood ==
  ASSUME NEW s \in Sides, NEW x, NEW y, NEW e, NEW o,
         Loose(s, x), NoWaited(x), x.phase \notin Done, x.outcome = "none", Frame(x, y), o # "none",
         \/ y.phase = "closing" /\ ~y.watching /\ y.outcome = o
         \/ s = "drop" /\ x.phase \in {"connecting", "moving"} /\ y.phase = "aborting" /\ y.error = e /\ y.outcome = "none",
         x.phase \in {"moving", "aborting"} => o \notin {"expired", "network"},
         y.phase = "aborting" => ReasonFits(y) /\ e \notin {"none", "expired", "network"},
         s = "page" /\ x.failure # "cancelled" /\ o \notin {"arrived", "declined"} => o \in PageFailures(x.phase)
  PROVE  Good(s, x, y)
  <1>1. x \in Side /\ y \in Side /\ LinkFrame(x, y) /\ PeerFrame(x, y)
    BY DEF Loose, Frame
  <1>2. /\ y.failure = x.failure /\ y.received = x.received /\ y.used = x.used /\ y.everConnected = x.everConnected
    BY DEF Frame
  <1>3. \/ y.phase = "closing" /\ ~y.watching /\ y.outcome = o
        \/ s = "drop" /\ x.phase \in {"connecting", "moving"} /\ y.phase = "aborting" /\ y.error = e /\ y.outcome = "none"
    OBVIOUS
  <1>4. o # "none" /\ (x.phase \in {"moving", "aborting"} => o \notin {"expired", "network"}) OBVIOUS
  <1>5. ChainFits(s, y)
    BY <1>1, ChainKept DEF Loose
  <1>6. (y.linkEnded /\ y.exchange = "open" => StopInChain(y)) /\ (y.exchange = "closed" => y.linkEnded)
    BY <1>1, LinkKept DEF Loose
  <1>7. y.phase \in PhasesOf(s)
    BY <1>3 DEF PhasesOf
  <1>8. EndFits(y)
    <2>1. y.outcome = "none" <=> y.phase \notin Done
      BY <1>3, <1>4 DEF Done
    <2>2. y.watching => y.pc # "none" /\ y.phase \notin Done
      BY <1>1, <1>3 DEF Loose, PeerFrame, Done
    <2>3. (y.everConnected \/ y.chan # "none" => y.pc # "none") /\ (y.chan = "open" \/ y.pc = "connected" => y.everConnected)
      BY <1>1, <1>2 DEF Loose, PeerFrame
    <2>4. y.phase # "ended" /\ y.phase # "moving"
      BY <1>3
    <2> QED BY <1>6, <2>1, <2>2, <2>3, <2>4 DEF EndFits
  <1>9. BlameFits(y)
    BY <1>2, <1>3 DEF BlameFits, Loose, Early
  <1>10. ReasonFits(y)
    BY <1>3 DEF ReasonFits, Done
  <1>11. IndexFits(s, y)
    <2>1. ~y.stopped => ~x.stopped /\ y.sent = x.sent
      BY <1>1 DEF LinkFrame
    <2>2. x.used \in Nat /\ Restarts \in Nat /\ x.sent \in Nat
      BY <1>1, LimitsAssumption DEF Side
    <2>3. MostTaken(s, x) <= MostTaken(s, y)
      BY <1>1, <1>2, <1>3, <2>2 DEF MostTaken, PeerFrame, Loose, Done
    <2>4. MostTaken(s, x) \in Int /\ MostTaken(s, y) \in Int
      BY <1>2, <2>2 DEF MostTaken
    <2>5. ~y.stopped => y.sent <= MostTaken(s, y)
      BY <2>1, <2>2, <2>3, <2>4 DEF Loose
    <2>6. y.reader # "off" => y.received \in 2..(2 + Restarts)
      BY <1>1, <1>2 DEF Loose, PeerFrame
    <2> QED BY <1>3, <2>5, <2>6 DEF IndexFits, Done
  <1>12. Quiet(x, y) /\ Harmless(x, y)
    BY <1>1, <1>3, <1>4 DEF Quiet, Harmless, LinkFrame
  <1>13. Shown(s, x, y)
    BY <1>2, <1>3 DEF Shown
  <1> QED BY <1>1, <1>5, <1>7, <1>8, <1>9, <1>10, <1>11, <1>12, <1>13 DEF Good, SideInv

LEMMA EndsGood ==
  ASSUME NEW s \in Sides, NEW x, NEW y, NEW e \in Failures \ {"none"},
         Loose(s, x), NoWaited(x), x.phase \notin Done, x.outcome = "none", Ends(s, x, y, e),
         x.phase \in {"moving", "aborting"} \/ (s = "drop" /\ x.phase = "connecting") => e \notin {"expired", "network"},
         y.phase = "aborting" => ReasonFits(y),
         s = "page" /\ x.failure # "cancelled" => Settled(x, e) \in PageFailures(x.phase)
  PROVE  Good(s, x, y)
  <1> DEFINE o == Settled(x, e)
  <1>1. o # "none" /\ (x.phase \in {"moving", "aborting"} => o \notin {"expired", "network"})
    BY DEF Settled, Loose, Blamed
  <1>2. y.phase = "aborting" => e \notin {"none", "expired", "network"}
    BY DEF Ends
  <1>3. /\ Frame(x, y)
        /\ \/ y.phase = "closing" /\ ~y.watching /\ y.outcome = o
           \/ s = "drop" /\ x.phase \in {"connecting", "moving"} /\ y.phase = "aborting" /\ y.error = e /\ y.outcome = "none"
    BY DEF Ends
  <1> HIDE DEF o
  <1>4. s = "page" /\ x.failure # "cancelled" /\ o \notin {"arrived", "declined"} => o \in PageFailures(x.phase)
    BY DEF o
  <1> QED BY <1>1, <1>2, <1>3, <1>4, SettlesGood

(***************************************************************************)
(* How an end winds down                                                   *)
(***************************************************************************)

(* A call that waits for none of its messages has none on its way.         *)
LEMMA NoneWaited ==
  ASSUME NEW s, NEW x, ChainFits(s, x),
         x.phase \notin {"inviteOut", "manifestOut", "declineOut", "acceptOut", "answerOut"}
  PROVE  NoWaited(x)
  BY DEF ChainFits, NoWaited, Waited, OutPhase

(* Winding down keeps what outlives a call.                                *)
LEMMA LooseKept ==
  ASSUME NEW s \in Sides, NEW x, NEW y, Loose(s, x), Frame(x, y), y.phase = x.phase
  PROVE  Loose(s, y) /\ (NoWaited(x) => NoWaited(y)) /\ Quiet(x, y)
  <1>1. x \in Side /\ y \in Side /\ LinkFrame(x, y) /\ PeerFrame(x, y)
    BY DEF Loose, Frame
  <1>2. /\ y.phase = x.phase /\ y.failure = x.failure
        /\ y.received = x.received /\ y.used = x.used /\ y.everConnected = x.everConnected
    BY DEF Frame
  <1>3. ChainFits(s, y) /\ (NoWaited(x) => NoWaited(y))
    BY <1>1, <1>2, ChainKept DEF Loose
  <1>4. (y.linkEnded /\ y.exchange = "open" => StopInChain(y)) /\ (y.exchange = "closed" => y.linkEnded)
    BY <1>1, LinkKept DEF Loose
  <1>5. ~y.stopped => y.sent <= MostTaken(s, y)
    <2>1. ~y.stopped => ~x.stopped /\ y.sent = x.sent
      BY <1>1 DEF LinkFrame
    <2>2. x.used \in Nat /\ Restarts \in Nat /\ x.sent \in Nat
      BY <1>1, LimitsAssumption DEF Side
    <2>3. MostTaken(s, x) <= MostTaken(s, y)
      BY <1>1, <1>2, <2>2 DEF MostTaken, PeerFrame
    <2>4. MostTaken(s, x) \in Int /\ MostTaken(s, y) \in Int
      BY <1>2, <2>2 DEF MostTaken
    <2> QED BY <2>1, <2>2, <2>3, <2>4 DEF Loose
  <1>6. Quiet(x, y)
    BY <1>1 DEF Quiet, LinkFrame
  <1> QED BY <1>1, <1>2, <1>3, <1>4, <1>5, <1>6 DEF Loose, PeerFrame

(* The same call, seen from an earlier point of the same step.             *)
Precedes(x, b) ==
  /\ b.phase = x.phase /\ b.outcome = x.outcome
  /\ x.stopped => b.stopped /\ b.sent = x.sent

LEMMA GoodFrom ==
  ASSUME NEW s \in Sides, NEW x, NEW b, NEW y, Good(s, b, y), Precedes(x, b)
  PROVE  Good(s, x, y)
  BY DEF Good, Precedes, Quiet, Harmless, Shown

(* A call that rejects.                                                    *)
LEMMA CaughtGood ==
  ASSUME NEW s \in Sides, NEW x, NEW b, NEW e \in Failures \ {"none"},
         Loose(s, b), NoWaited(b), Precedes(x, b), b.phase \notin Done, b.outcome = "none",
         s = "drop" /\ b.phase \in {"connecting", "moving"} => ReasonFits(b) /\ e \notin {"expired", "network"},
         s = "page" /\ b.phase = "moving" => e \notin {"expired", "network"},
         b.phase # "aborting",
         s = "page" /\ b.failure # "cancelled" => Settled(b, e) \in PageFailures(b.phase)
  PROVE  Good(s, x, Caught(s, b, e))
  <1> DEFINE y == Caught(s, b, e)
  <1>1. b \in Side
    BY DEF Loose
  <1>2. Ends(s, b, y, e)
    BY <1>1, CaughtEnds
  <1>3. ASSUME y.phase = "aborting" PROVE ReasonFits(y)
    <2>1. s = "drop" /\ b.phase \in {"connecting", "moving"}
      BY <1>2, <1>3 DEF Ends
    <2>2. y = [b EXCEPT !.phase = "aborting", !.error = e]
      BY <2>1 DEF Caught
    <2>3. /\ y.linkEnded = b.linkEnded /\ y.stopped = b.stopped /\ y.closeSoon = b.closeSoon /\ y.pc = b.pc
          /\ y.failure = b.failure /\ y.everConnected = b.everConnected
      BY <1>1, <2>2 DEF Side
    <2> QED BY <2>1, <2>3 DEF ReasonFits
  <1>4. s = "drop" \/ s = "page"
    BY DEF Sides
  <1>5. b.phase \in {"moving", "aborting"} \/ (s = "drop" /\ b.phase = "connecting") => e \notin {"expired", "network"}
    BY <1>4
  <1> HIDE DEF y
  <1>6. Good(s, b, y)
    BY <1>2, <1>3, <1>5, EndsGood
  <1> QED BY <1>6, GoodFrom DEF y

(* What an end may have recorded when it gives up.                         *)
LEMMA BlameGood ==
  ASSUME NEW s \in Sides, NEW x, NEW kind \in Blamed \ {"none"}, Mostly(s, x),
         x.phase \in {"answering", "answerOut"} => kind \in {"cancelled", "connect", "lost"},
         x.phase \in Early => kind = "cancelled"
  PROVE  LET b == Blame(x, kind) IN
         /\ Mostly(s, b) /\ Precedes(x, b) /\ b.failure # "none" /\ (NoWaited(x) => NoWaited(b))
         /\ \A f \in DOMAIN x \ {"failure"} : b[f] = x[f]
  <1> DEFINE b == Blame(x, kind)
  <1>1. x \in Side /\ kind \in Failures
    BY DEF Mostly, Blamed, Failures
  <1>2. /\ b \in Side /\ b.failure = IF x.failure = "none" THEN kind ELSE x.failure
        /\ \A f \in DOMAIN x \ {"failure"} : b[f] = x[f]
    BY <1>1, BlameDoes
  <1>3. DOMAIN x = DOMAIN b /\ {"sent", "received", "stopped", "linkEnded", "chain", "carried", "exchange", "phase", "error", "outcome", "reader", "closeSoon", "pc", "chan", "watching", "everConnected", "used", "restarting"} \subseteq DOMAIN x
    BY <1>1, <1>2 DEF Side
  <1>4. /\ b.sent = x.sent /\ b.received = x.received /\ b.stopped = x.stopped /\ b.linkEnded = x.linkEnded
        /\ b.chain = x.chain /\ b.carried = x.carried /\ b.exchange = x.exchange /\ b.phase = x.phase /\ b.error = x.error
        /\ b.outcome = x.outcome /\ b.reader = x.reader /\ b.closeSoon = x.closeSoon /\ b.pc = x.pc
        /\ b.chan = x.chan /\ b.watching = x.watching /\ b.everConnected = x.everConnected
        /\ b.used = x.used /\ b.restarting = x.restarting
    BY <1>2, <1>3
  <1> HIDE DEF b
  <1>5. ChainFits(s, b) /\ (NoWaited(x) => NoWaited(b)) /\ (StopInChain(x) <=> StopInChain(b))
    BY <1>4 DEF Mostly, ChainFits, NoWaited, StopInChain
  <1>6. IndexFits(s, b)
    BY <1>4 DEF Mostly, IndexFits, MostTaken
  <1>7. EndFits(b)
    BY <1>4, <1>5 DEF Mostly, EndFits
  <1>8. BlameFits(b)
    BY <1>2, <1>4 DEF Mostly, BlameFits
  <1>9. Precedes(x, b) /\ b.failure # "none"
    BY <1>2, <1>4 DEF Precedes
  <1> QED BY <1>2, <1>4, <1>5, <1>6, <1>7, <1>8, <1>9 DEF Mostly, b

(* The failures a call of the page may settle with once it has recorded    *)
(* one.                                                                    *)
LEMMA RecordedShown ==
  ASSUME NEW x, NEW e, x.failure \in Blamed \ {"none", "cancelled"}, x.phase \in {"connecting", "moving"},
         x.phase = "moving" => x.everConnected, x.failure = "connect" => ~x.everConnected
  PROVE  Settled(x, e) \in PageFailures(x.phase)
  BY DEF Settled, Blamed, PageFailures, CallPhases

(* A failure that is recorded is a reason for whatever is closed.          *)
LEMMA Reasoned ==
  ASSUME NEW b, NEW y, Frame(b, y), b.failure # "none",
         b.failure = "connect" => ~b.everConnected /\ (b.pc = "closed" \/ y.pc = "closed")
  PROVE  ReasonFits(y)
  BY DEF ReasonFits, Frame, PeerFrame

LEMMA GiveUpGood ==
  ASSUME NEW s \in Sides, NEW x, NEW b, Mostly(s, b), ReasonFits(b), Precedes(x, b)
  PROVE  Good(s, x, GiveUp(s, b))
  <1> DEFINE y == GiveUp(s, b)
             c == Blame(b, Why(b))
  <1>1. b \in Side /\ ChainFits(s, b)
    BY DEF Mostly
  <1>2. \/ ~b.watching /\ y = b
        \/ /\ b.watching /\ b.phase \notin {"connecting", "moving"}
           /\ Eases(c, y) /\ y.pc \in {"none", "closed"}
        \/ /\ b.watching /\ b.phase \in {"connecting", "moving"}
           /\ Ends(s, c, y, Why(b)) /\ y.pc \in {"none", "closed"}
    BY <1>1, GiveUpDoes
  <1>3. CASE y = b
    <2>1. Eases(b, b)
      BY <1>1, FrameRefl DEF Eases
    <2>2. Good(s, b, b)
      BY <2>1, EasesGood
    <2> QED BY <1>3, <2>2, GoodFrom
  <1>4. CASE b.watching
    <2>1. Why(b) \in Blamed \ {"none"} /\ Why(b) \in {"connect", "lost"} /\ (Why(b) = "connect" => ~b.everConnected)
      BY DEF Why, Blamed
    <2>2. b.phase \notin Early /\ b.phase \notin Done /\ b.outcome = "none" /\ b.pc # "none"
          /\ (b.phase = "moving" => b.everConnected)
      BY <1>4 DEF Mostly, EndFits, BlameFits
    <2>3. /\ Mostly(s, c) /\ Precedes(b, c) /\ c.failure # "none" /\ (NoWaited(b) => NoWaited(c))
          /\ \A f \in DOMAIN b \ {"failure"} : c[f] = b[f]
      BY <2>1, <2>2, BlameGood
    <2>4. c.failure = IF b.failure = "none" THEN Why(b) ELSE b.failure
      BY <1>1, <2>1, BlameDoes DEF Blamed, Failures
    <2>5. c.everConnected = b.everConnected /\ c.pc = b.pc /\ c.phase = b.phase /\ c.outcome = b.outcome
      BY <1>1, <2>3 DEF Side
    <2>6. c.failure = "connect" => ~c.everConnected
      BY <2>1, <2>2, <2>4, <2>5 DEF ReasonFits
    <2> HIDE DEF c, y
    <2>7. Frame(c, y) /\ y.pc \in {"none", "closed"}
      BY <1>2, <1>4 DEF Eases, Ends
    <2>8. y.pc = "closed"
      BY <2>2, <2>5, <2>7 DEF Frame, PeerFrame
    <2>9. ReasonFits(y)
      BY <2>3, <2>6, <2>7, <2>8, Reasoned
    <2>10. CASE Eases(c, y)
      <3>1. Good(s, c, y)
        BY <2>3, <2>9, <2>10, EasesGood
      <3> QED BY <2>3, <3>1, GoodFrom DEF y
    <2>11. CASE b.phase \in {"connecting", "moving"} /\ Ends(s, c, y, Why(b))
      <3>1. NoWaited(c)
        BY <1>1, <2>3, <2>11, NoneWaited
      <3>2. Loose(s, c) /\ c.failure \in Blamed
        BY <2>3, MostlyLoose DEF Mostly, BlameFits
      <3>3. c.failure # "cancelled" => Settled(c, Why(b)) \in PageFailures(c.phase)
        BY <2>2, <2>3, <2>5, <2>6, <2>11, <3>2, RecordedShown
      <3>4. Why(b) \in Failures \ {"none"} /\ Why(b) \notin {"expired", "network"}
        BY <2>1 DEF Failures
      <3>5. c.phase \notin Done /\ c.outcome = "none"
        BY <2>2, <2>5
      <3>6. Good(s, c, y)
        BY <2>9, <2>11, <3>1, <3>2, <3>3, <3>4, <3>5, EndsGood
      <3> QED BY <2>3, <3>6, GoodFrom DEF y
    <2> QED BY <1>2, <1>4, <2>10, <2>11 DEF y
  <1> QED BY <1>2, <1>3, <1>4

(* fail(error), by a loop that reads the exchange and reads no more.       *)
LEMMA FailGood ==
  ASSUME NEW s \in Sides, NEW x, NEW b \in Side, NEW kind \in Blamed \ {"none", "connect"},
         Mostly(s, [b EXCEPT !.reader = "off"]), Precedes(x, b),
         b.phase \in {"connecting", "moving", "aborting"} \cup Done,
         b.phase \notin Done /\ b.failure = "connect" => ~b.everConnected /\ b.pc = "closed"
  PROVE  Good(s, x, Fail(s, b, kind))
  <1> DEFINE y == Fail(s, b, kind)
             c == [b EXCEPT !.reader = "off"]
             d == Blame(c, kind)
  <1>1. kind \in Failures \ {"none"} /\ kind \in Failures
    BY DEF Blamed, Failures
  <1>2. c \in Side
    BY DEF Side
  <1>3. d = [Blame(b, kind) EXCEPT !.reader = "off"]
    <2>1. c.failure = b.failure
      BY DEF Side
    <2>2. CASE b.failure = "none"
      <3>1. d = [[b EXCEPT !.reader = "off"] EXCEPT !.failure = kind]
        BY <2>1, <2>2 DEF Blame
      <3>2. Blame(b, kind) = [b EXCEPT !.failure = kind]
        BY <2>2 DEF Blame
      <3> QED BY <3>1, <3>2 DEF Side
    <2>3. CASE b.failure # "none"
      BY <2>1, <2>3 DEF Blame
    <2> QED BY <2>2, <2>3
  <1>4. \/ Eases(d, y)
        \/ b.phase \in {"connecting", "moving"} /\ Ends(s, d, y, Why(b))
    BY <1>1, <1>3, FailDoes
  <1>5. /\ c.phase = b.phase /\ c.everConnected = b.everConnected /\ c.pc = b.pc /\ c.outcome = b.outcome
        /\ c.stopped = b.stopped /\ c.sent = b.sent /\ c.failure = b.failure
    BY DEF Side
  <1>6. Mostly(s, c) /\ c.phase \notin Early /\ c.phase \notin {"answering", "answerOut"}
    BY <1>5 DEF Early, Done
  <1> HIDE DEF c, y
  <1>7. /\ Mostly(s, d) /\ Precedes(c, d) /\ d.failure # "none" /\ (NoWaited(c) => NoWaited(d))
        /\ \A f \in DOMAIN c \ {"failure"} : d[f] = c[f]
    BY <1>6, BlameGood
  <1>8. d.everConnected = c.everConnected /\ d.pc = c.pc /\ d.phase = c.phase /\ d.outcome = c.outcome
    BY <1>2, <1>7 DEF Side
  <1>9. d.failure = IF c.failure = "none" THEN kind ELSE c.failure
    BY <1>1, <1>2, BlameDoes
  <1> HIDE DEF d
  <1>10. Frame(d, y)
    BY <1>4 DEF Eases, Ends
  <1>11. Precedes(x, d)
    BY <1>5, <1>7 DEF Precedes
  <1>12. ASSUME d.phase \notin Done PROVE ReasonFits(y) /\ (d.failure = "connect" => ~d.everConnected)
    BY <1>5, <1>7, <1>8, <1>9, <1>10, <1>12, Reasoned
  <1>13. CASE Eases(d, y)
    <2>1. ReasonFits(y)
      BY <1>12, <1>13 DEF Eases, ReasonFits
    <2>2. Good(s, d, y)
      BY <1>7, <1>13, <2>1, EasesGood
    <2> QED BY <1>11, <2>2, GoodFrom DEF y
  <1>14. CASE b.phase \in {"connecting", "moving"} /\ Ends(s, d, y, Why(b))
    <2>1. d.phase \in {"connecting", "moving"} /\ d.phase \notin Done
      BY <1>5, <1>8, <1>14 DEF Done
    <2>2. ChainFits(s, c) /\ EndFits(c)
      BY <1>6 DEF Mostly
    <2>3. NoWaited(d)
      BY <1>5, <1>7, <1>14, <2>2, NoneWaited
    <2>4. Loose(s, d) /\ d.failure \in Blamed /\ EndFits(d)
      BY <1>7, MostlyLoose DEF Mostly, BlameFits
    <2>5. d.failure # "cancelled" => Settled(d, Why(b)) \in PageFailures(d.phase)
      BY <1>7, <1>12, <2>1, <2>4, RecordedShown DEF EndFits
    <2>6. Why(b) \in Failures \ {"none"} /\ Why(b) \notin {"expired", "network"}
      BY DEF Failures, Why
    <2>7. d.outcome = "none"
      BY <2>1, <2>4 DEF EndFits
    <2>8. Good(s, d, y)
      BY <1>12, <1>14, <2>1, <2>3, <2>4, <2>5, <2>6, <2>7, EndsGood
    <2> QED BY <1>11, <2>8, GoodFrom DEF y
  <1> QED BY <1>4, <1>13, <1>14

(* A loop that stops reading, and the page's noMoreRestarts.               *)
LEMMA OffMostly ==
  ASSUME NEW s \in Sides, NEW b \in Side, Mostly(s, b)
  PROVE  LET c == [b EXCEPT !.reader = "off"] IN
         /\ Mostly(s, c) /\ Precedes(b, c) /\ c.reader = "off" /\ (ReasonFits(b) => ReasonFits(c))
  <1> DEFINE c == [b EXCEPT !.reader = "off"]
  <1>1. /\ c \in Side /\ c.reader = "off"
        /\ c.sent = b.sent /\ c.received = b.received /\ c.stopped = b.stopped /\ c.linkEnded = b.linkEnded
        /\ c.chain = b.chain /\ c.carried = b.carried /\ c.exchange = b.exchange /\ c.phase = b.phase /\ c.error = b.error
        /\ c.outcome = b.outcome /\ c.failure = b.failure /\ c.closeSoon = b.closeSoon /\ c.pc = b.pc
        /\ c.chan = b.chan /\ c.watching = b.watching /\ c.everConnected = b.everConnected
        /\ c.used = b.used /\ c.restarting = b.restarting
    BY DEF Side
  <1> HIDE DEF c
  <1>2. ChainFits(s, c) /\ (StopInChain(b) <=> StopInChain(c))
    BY <1>1 DEF Mostly, ChainFits, StopInChain
  <1>3. IndexFits(s, c)
    <2>1. b.used \in Nat /\ Restarts \in Nat /\ b.sent \in Nat
      BY LimitsAssumption DEF Side
    <2>2. MostTaken(s, b) <= MostTaken(s, c) /\ MostTaken(s, b) \in Int /\ MostTaken(s, c) \in Int
      BY <1>1, <2>1 DEF MostTaken
    <2> QED BY <1>1, <2>1, <2>2 DEF Mostly, IndexFits
  <1>4. EndFits(c)
    BY <1>1, <1>2 DEF Mostly, EndFits
  <1>5. BlameFits(c) /\ Precedes(b, c) /\ (ReasonFits(b) => ReasonFits(c))
    BY <1>1 DEF Mostly, BlameFits, Precedes, ReasonFits
  <1> QED BY <1>1, <1>2, <1>3, <1>4, <1>5 DEF Mostly, c

LEMMA SelfGood ==
  ASSUME NEW s \in Sides, NEW x, NEW b, Mostly(s, b), ReasonFits(b), Precedes(x, b)
  PROVE  Good(s, x, b)
  <1>1. Eases(b, b)
    BY FrameRefl DEF Eases, Mostly
  <1> QED BY <1>1, EasesGood, GoodFrom

LEMMA NoMoreRestartsGood ==
  ASSUME NEW x, NEW b \in Side, Mostly("page", b), ReasonFits(b), Precedes(x, b)
  PROVE  Good("page", x, NoMoreRestarts(b))
  <1> DEFINE c == [b EXCEPT !.reader = "off"]
  <1>1. "page" \in Sides
    BY DEF Sides
  <1>2. Mostly("page", c) /\ Precedes(b, c) /\ ReasonFits(c)
    BY <1>1, OffMostly
  <1>3. NoMoreRestarts(b) = IF b.pc = "failed" THEN GiveUp("page", c) ELSE c
    BY DEF NoMoreRestarts
  <1> HIDE DEF c
  <1>4. Precedes(x, c)
    BY <1>2 DEF Precedes
  <1> QED BY <1>1, <1>2, <1>3, <1>4, GiveUpGood, SelfGood

(***************************************************************************)
(* Steps that let the call go on                                           *)
(***************************************************************************)

Sound(s, x) == x \in Side /\ SideInv(s, x)

LEMMA SoundMostly == ASSUME NEW s, NEW x, Sound(s, x) PROVE Mostly(s, x) /\ ReasonFits(x) /\ Precedes(x, x)
  BY DEF Sound, SideInv, Mostly, Precedes

(* Nothing is closed, stopped or blamed; a peer may be made or change.     *)
Turns(x, y) ==
  /\ y.stopped = x.stopped /\ y.linkEnded = x.linkEnded /\ (x.stopped => y.sent = x.sent)
  /\ y.failure = x.failure /\ y.closeSoon = x.closeSoon /\ y.error = x.error /\ y.outcome = x.outcome
  /\ y.phase = x.phase \/ (x.phase \notin Done /\ y.phase \notin Done \cup {"aborting"})
  /\ \/ y.pc = x.pc /\ y.everConnected = x.everConnected
     \/ x.pc # "closed" /\ y.pc \notin {"none", "closed"} /\ (x.pc # "none" \/ x.phase \notin Done)

PeerFits(y) ==
  /\ y.watching => y.pc # "none" /\ y.phase \notin Done
  /\ y.everConnected \/ y.chan # "none" => y.pc # "none"
  /\ y.chan = "open" \/ y.phase = "moving" \/ y.pc = "connected" => y.everConnected

LinkFits(y) ==
  /\ y.linkEnded /\ y.exchange = "open" => StopInChain(y)
  /\ y.exchange = "closed" => y.linkEnded

LEMMA TurnGood ==
  ASSUME NEW s \in Sides, NEW x, NEW y \in Side, Sound(s, x), Turns(x, y), y.phase \in PhasesOf(s),
         ChainFits(s, y), LinkFits(y), IndexFits(s, y), PeerFits(y),
         y.phase \in Early => x.phase \in Early /\ y.pc = "none",
         y.phase \in {"answering", "answerOut"} => x.phase \in Early \cup {"answering", "answerOut"}
  PROVE  Good(s, x, y)
  <1>1. EndFits(x) /\ BlameFits(x) /\ ReasonFits(x)
    BY DEF Sound, SideInv
  <1>2. EndFits(y)
    <2>1. y.outcome = "none" <=> y.phase \notin Done
      BY <1>1 DEF EndFits, Turns
    <2>2. y.phase = "ended" => y.pc \in {"none", "closed"} /\ y.linkEnded
      BY <1>1 DEF EndFits, Turns, Done
    <2> QED BY <2>1, <2>2 DEF EndFits, PeerFits, LinkFits
  <1>3. BlameFits(y)
    BY <1>1 DEF BlameFits, Turns, Early
  <1>4. ReasonFits(y)
    BY <1>1 DEF ReasonFits, Turns
  <1>5. Quiet(x, y)
    BY DEF Quiet, Turns
  <1>6. Harmless(x, y) /\ Shown(s, x, y)
    BY <1>1 DEF Harmless, Shown, Turns, EndFits, Done
  <1> QED BY <1>2, <1>3, <1>4, <1>5, <1>6 DEF Good, SideInv

(* The browser, the exchange or a clock does something: the call and its   *)
(* messages stay as they are.                                              *)
Same(x, y) ==
  /\ y.phase = x.phase /\ y.outcome = x.outcome /\ y.error = x.error /\ y.failure = x.failure
  /\ y.chain = x.chain /\ (y.carried => x.carried \/ x.chain # <<>>)
  /\ y.sent = x.sent /\ y.received = x.received /\ y.stopped = x.stopped
  /\ y.linkEnded = x.linkEnded /\ y.closeSoon = x.closeSoon /\ y.watching = x.watching
  /\ y.reader = x.reader /\ y.used = x.used /\ y.restarting = x.restarting

LEMMA SameGood ==
  ASSUME NEW s \in Sides, NEW x, NEW y \in Side, Sound(s, x), Same(x, y), y.exchange \in {x.exchange, "gone"},
         \/ y.pc = x.pc /\ y.everConnected = x.everConnected
         \/ x.pc \notin {"none", "closed"} /\ y.pc \notin {"none", "closed"},
         x.everConnected => y.everConnected,
         y.chan # "none" => y.pc # "none",
         y.chan = "open" \/ y.pc = "connected" => y.everConnected
  PROVE  Good(s, x, y)
  <1>1. /\ x.phase \in PhasesOf(s) /\ ChainFits(s, x) /\ IndexFits(s, x) /\ EndFits(x) /\ BlameFits(x)
    BY DEF Sound, SideInv
  <1>2. ChainFits(s, y) /\ (StopInChain(x) <=> StopInChain(y))
    BY <1>1 DEF Same, ChainFits, StopInChain
  <1>3. LinkFits(y)
    BY <1>1, <1>2 DEF LinkFits, Same, EndFits
  <1>4. IndexFits(s, y)
    BY <1>1 DEF IndexFits, Same, MostTaken
  <1>5. PeerFits(y)
    BY <1>1 DEF PeerFits, Same, EndFits
  <1>6. Turns(x, y)
    BY DEF Turns, Same
  <1>7. y.phase \in PhasesOf(s)
    BY <1>1 DEF Same
  <1>8. y.phase \in Early => x.phase \in Early /\ y.pc = "none"
    BY <1>1 DEF Same, BlameFits
  <1>9. y.phase \in {"answering", "answerOut"} => x.phase \in Early \cup {"answering", "answerOut"}
    BY DEF Same
  <1> QED BY <1>2, <1>3, <1>4, <1>5, <1>6, <1>7, <1>8, <1>9, TurnGood

LEMMA CarryGood ==
  ASSUME NEW s \in Sides, NEW x, Sound(s, x), x.chain # <<>> PROVE Good(s, x, [x EXCEPT !.carried = TRUE])
  <1> DEFINE y == [x EXCEPT !.carried = TRUE]
  <1>1. x \in Side /\ EndFits(x)
    BY DEF Sound, SideInv
  <1>2. y \in Side /\ Same(x, y) /\ y.exchange = x.exchange /\ y.pc = x.pc /\ y.chan = x.chan /\ y.everConnected = x.everConnected
    BY <1>1 DEF Side, Same
  <1> HIDE DEF y
  <1>3. Good(s, x, y)
    BY <1>1, <1>2, SameGood DEF EndFits
  <1> QED BY <1>3 DEF y

LEMMA ExchangeGoneGood ==
  ASSUME NEW s \in Sides, NEW x, Sound(s, x) PROVE Good(s, x, [x EXCEPT !.exchange = "gone"])
  <1> DEFINE y == [x EXCEPT !.exchange = "gone"]
  <1>1. x \in Side /\ EndFits(x)
    BY DEF Sound, SideInv
  <1>2. y \in Side /\ Same(x, y) /\ y.exchange = "gone" /\ y.pc = x.pc /\ y.chan = x.chan /\ y.everConnected = x.everConnected
    BY <1>1 DEF Side, Same
  <1> HIDE DEF y
  <1>3. Good(s, x, y)
    BY <1>1, <1>2, SameGood DEF EndFits
  <1> QED BY <1>3 DEF y

LEMMA EvaluateGood ==
  ASSUME NEW s \in Sides, NEW x, NEW state \in Trying \cup {"failed"}, Sound(s, x), x.watching, x.pc \in Trying
  PROVE  Good(s, x, Evaluate(s, x, state))
  <1> DEFINE y == Evaluate(s, x, state)
  <1>1. x \in Side /\ EndFits(x)
    BY DEF Sound, SideInv
  <1>2. state \in Trying \cup {"none", "failed", "closed"} /\ state \notin {"none", "closed"} /\ x.pc \notin {"none", "closed"}
    BY DEF Trying
  <1> DEFINE z == [x EXCEPT !.pc = state]
             c == [[z EXCEPT !.everConnected = TRUE]
                      EXCEPT !.connectTimer = FALSE, !.failedTimer = FALSE, !.restartTimer = FALSE]
             t == s = "drop"
             f == z.failedTimer \/ state = "failed"
             d == [z EXCEPT !.failedTimer = f, !.restartTimer = t]
  <1>3. y = IF state = "connected" THEN c ELSE d
    BY DEF Evaluate, NoTimers
  <1>4. z \in Side
    BY <1>1, <1>2 DEF Side
  <1>5. t \in BOOLEAN /\ f \in BOOLEAN
    BY <1>4 DEF Side
  <1>6. Same(x, z) /\ z.exchange = x.exchange /\ z.pc = state /\ z.chan = x.chan /\ z.everConnected = x.everConnected
    BY <1>1 DEF Side, Same
  <1> HIDE DEF z, t, f
  <1>7. /\ c \in Side /\ Same(z, c) /\ c.exchange = z.exchange /\ c.pc = z.pc /\ c.chan = z.chan /\ c.everConnected = TRUE
        /\ d \in Side /\ Same(z, d) /\ d.exchange = z.exchange /\ d.pc = z.pc /\ d.chan = z.chan
        /\ d.everConnected = z.everConnected
    BY <1>4, <1>5 DEF Side, Same
  <1> HIDE DEF c, d
  <1>8. Same(x, c) /\ Same(x, d)
    BY <1>6, <1>7 DEF Same
  <1>9. Good(s, x, c)
    BY <1>1, <1>2, <1>6, <1>7, <1>8, SameGood DEF EndFits
  <1>10. ASSUME state # "connected" PROVE Good(s, x, d)
    BY <1>1, <1>2, <1>6, <1>7, <1>8, <1>10, SameGood DEF EndFits
  <1> QED BY <1>3, <1>9, <1>10

(* The channel opens or closes under the watch's eyes.                     *)
LEMMA ChannelGood ==
  ASSUME NEW s \in Sides, NEW x, NEW c \in {"open", "unopened", "closed"}, Sound(s, x), x.watching,
         c = "open" => x.everConnected
  PROVE  Good(s, x, [x EXCEPT !.chan = c])
  <1> DEFINE y == [x EXCEPT !.chan = c]
  <1>1. x \in Side /\ EndFits(x)
    BY DEF Sound, SideInv
  <1>2. y \in Side /\ Same(x, y) /\ y.exchange = x.exchange /\ y.pc = x.pc /\ y.chan = c /\ y.everConnected = x.everConnected
    BY <1>1 DEF Side, Same
  <1> HIDE DEF y
  <1>3. Good(s, x, y)
    BY <1>1, <1>2, SameGood DEF EndFits
  <1> QED BY <1>3 DEF y

(* Drop's restarts are asked for: only the queue grows, or a clock stops.  *)
LEMMA QueueGood ==
  ASSUME NEW x, NEW y, NEW q \in Nat, NEW t \in BOOLEAN, Sound("drop", x),
         y = [x EXCEPT !.queue = q, !.restartTimer = t]
  PROVE  Good("drop", x, y)
  <1>1. x \in Side /\ EndFits(x) /\ "drop" \in Sides
    BY DEF Sound, SideInv, Sides
  <1>2. y \in Side /\ Same(x, y) /\ y.exchange = x.exchange /\ y.pc = x.pc /\ y.chan = x.chan /\ y.everConnected = x.everConnected
    BY <1>1 DEF Side, Same
  <1> QED BY <1>1, <1>2, SameGood DEF EndFits

(* The call moves on to another phase, or a loop to another place; no      *)
(* message is taken.                                                       *)
Moves(x, y) ==
  /\ y.outcome = x.outcome /\ y.error = x.error /\ y.failure = x.failure
  /\ y.chain = x.chain /\ y.carried = x.carried /\ y.sent = x.sent /\ y.stopped = x.stopped
  /\ y.linkEnded = x.linkEnded /\ y.closeSoon = x.closeSoon /\ y.exchange = x.exchange
  /\ y.everConnected = x.everConnected /\ y.chan = x.chan

LEMMA MovesGood ==
  ASSUME NEW s \in Sides, NEW x, NEW y \in Side, Sound(s, x), Moves(x, y), y.phase \in PhasesOf(s),
         y.phase = x.phase \/ (NoWaited(x) /\ x.phase \notin Done /\ y.phase \notin Done \cup {"aborting"}),
         y.watching => y.pc # "none" /\ y.phase \notin Done,
         y.phase = "moving" => x.everConnected,
         y.pc = x.pc \/ (y.pc = "connecting" /\ (x.pc = "failed" \/ (x.pc = "none" /\ x.phase \notin Done))),
         IndexFits(s, y),
         y.phase \in Early => x.phase \in Early /\ y.pc = "none",
         y.phase \in {"answering", "answerOut"} => x.phase \in Early \cup {"answering", "answerOut"}
  PROVE  Good(s, x, y)
  <1>1. ChainFits(s, x) /\ EndFits(x)
    BY DEF Sound, SideInv
  <1>2. ChainFits(s, y) /\ (StopInChain(x) <=> StopInChain(y))
    BY <1>1 DEF Moves, ChainFits, StopInChain, NoWaited
  <1>3. LinkFits(y)
    BY <1>1, <1>2 DEF LinkFits, Moves, EndFits
  <1>4. PeerFits(y)
    BY <1>1 DEF PeerFits, Moves, EndFits
  <1>5. Turns(x, y)
    BY DEF Turns, Moves
  <1> QED BY <1>2, <1>3, <1>4, <1>5, TurnGood

LEMMA StartsGood ==
  ASSUME NEW s \in Sides, NEW x, Sound(s, x), x.phase = "connecting", x.chan = "open"
  PROVE  Good(s, x, [x EXCEPT !.phase = "moving"])
  <1> DEFINE y == [x EXCEPT !.phase = "moving"]
  <1>1. x \in Side /\ EndFits(x) /\ ChainFits(s, x) /\ IndexFits(s, x)
    BY DEF Sound, SideInv
  <1>2. "moving" \in Phases /\ "moving" \in PhasesOf(s)
    BY DEF Phases, CallPhases, PhasesOf
  <1>3. /\ y \in Side /\ y.phase = "moving" /\ Moves(x, y) /\ y.watching = x.watching /\ y.pc = x.pc
        /\ y.received = x.received /\ y.reader = x.reader /\ y.used = x.used /\ y.restarting = x.restarting
    BY <1>1, <1>2 DEF Side, Moves
  <1> HIDE DEF y
  <1>4. NoWaited(x)
    BY <1>1, NoneWaited
  <1>5. IndexFits(s, y)
    BY <1>1, <1>3 DEF IndexFits, Moves, MostTaken
  <1>6. Good(s, x, y)
    BY <1>1, <1>2, <1>3, <1>4, <1>5, MovesGood DEF EndFits, Done, Early
  <1> QED BY <1>6 DEF y

(* A new peer, made by send() or by accept().                              *)
LEMMA WithPeerGood ==
  ASSUME NEW s \in Sides, NEW x, NEW phase, Sound(s, x),
         \/ s = "page" /\ x.phase = "preparing" /\ phase = "answering"
         \/ s = "drop" /\ x.phase = "deciding" /\ phase = "offering"
  PROVE  Good(s, x, WithPeer(x, phase))
  <1> DEFINE y == [x EXCEPT !.pc = "connecting", !.watching = TRUE, !.connectTimer = TRUE, !.phase = phase]
  <1>1. x \in Side /\ EndFits(x) /\ ChainFits(s, x) /\ IndexFits(s, x) /\ BlameFits(x)
    BY DEF Sound, SideInv
  <1>2. phase \in Phases /\ phase \in PhasesOf(s) /\ x.phase \in Early /\ x.phase \notin Done /\ phase \notin Early
        /\ phase \notin Done \cup {"aborting", "moving"} /\ "connecting" \in Trying \cup {"none", "failed", "closed"}
    BY DEF Phases, CallPhases, PhasesOf, Early, Done, Trying
  <1>2a. phase \in Phases /\ "connecting" \in Trying \cup {"none", "failed", "closed"}
    BY <1>2
  <1>2b. y \in Side
    BY <1>1, <1>2a DEF Side
  <1>3. /\ y \in Side /\ y.phase = phase /\ Moves(x, y) /\ y.watching = TRUE /\ y.pc = "connecting"
        /\ y.received = x.received /\ y.reader = x.reader /\ y.used = x.used /\ y.restarting = x.restarting
    BY <1>1, <1>2b DEF Side, Moves
  <1> HIDE DEF y
  <1>4. NoWaited(x) /\ x.pc = "none"
    BY <1>1, <1>2, NoneWaited DEF BlameFits
  <1>5. IndexFits(s, y)
    BY <1>1, <1>3 DEF IndexFits, Moves, MostTaken, Done
  <1>6. Good(s, x, y)
    BY <1>1, <1>2, <1>3, <1>4, <1>5, MovesGood
  <1> QED BY <1>6 DEF y, WithPeer

LEMMA DropAppliesGood ==
  ASSUME NEW x, Sound("drop", x), x.phase = "applying"
  PROVE  Good("drop", x, [x EXCEPT !.phase = "connecting", !.reader = "reading"])
  <1> DEFINE y == [x EXCEPT !.phase = "connecting", !.reader = "reading"]
  <1>1. x \in Side /\ EndFits(x) /\ ChainFits("drop", x) /\ IndexFits("drop", x) /\ "drop" \in Sides
    BY DEF Sound, SideInv, Sides
  <1>2. "connecting" \in Phases /\ "connecting" \in PhasesOf("drop")
    BY DEF Phases, CallPhases, PhasesOf
  <1>3. /\ y \in Side /\ y.phase = "connecting" /\ Moves(x, y) /\ y.watching = x.watching /\ y.pc = x.pc
        /\ y.received = x.received /\ y.used = x.used /\ y.restarting = x.restarting
    BY <1>1, <1>2 DEF Side, Moves
  <1> HIDE DEF y
  <1>4. NoWaited(x)
    BY <1>1, NoneWaited
  <1>5. IndexFits("drop", y)
    BY <1>1, <1>3, LimitsAssumption DEF IndexFits, Moves, MostTaken
  <1>6. Good("drop", x, y)
    BY <1>1, <1>2, <1>3, <1>4, <1>5, MovesGood DEF EndFits, Done, Early
  <1> QED BY <1>6 DEF y

(* restartOnce begins: a restart is used, and its index is yet to be taken. *)
LEMMA RestartBeginsGood ==
  ASSUME NEW x, NEW q \in Nat, Sound("drop", x), x.used < Restarts, x.restarting = "no"
  PROVE  Good("drop", x, [x EXCEPT !.queue = q, !.used = x.used + 1, !.restarting = "describing"])
  <1> DEFINE u == x.used + 1
             y == [x EXCEPT !.queue = q, !.used = u, !.restarting = "describing"]
  <1>1. x \in Side /\ EndFits(x) /\ ChainFits("drop", x) /\ IndexFits("drop", x) /\ "drop" \in Sides
        /\ x.phase \in PhasesOf("drop") /\ BlameFits(x)
    BY DEF Sound, SideInv, Sides
  <1>2. u \in 0..Restarts /\ u = x.used + 1 /\ x.used \in Nat
    BY <1>1, LimitsAssumption DEF Side
  <1> HIDE DEF u
  <1>3. /\ y \in Side /\ y.phase = x.phase /\ Moves(x, y) /\ y.watching = x.watching /\ y.pc = x.pc
        /\ y.received = x.received /\ y.used = u /\ y.restarting = "describing" /\ y.reader = x.reader
    BY <1>1, <1>2 DEF Side, Moves
  <1> HIDE DEF y
  <1>4. IndexFits("drop", y)
    BY <1>1, <1>2, <1>3 DEF IndexFits, Moves, MostTaken
  <1>5. Good("drop", x, y)
    BY <1>1, <1>3, <1>4, MovesGood DEF EndFits, BlameFits
  <1> QED BY <1>2, <1>5 DEF y

(***************************************************************************)
(* Steps that take an index                                                *)
(***************************************************************************)

LEMMA PhaseType == ASSUME NEW z \in Side, NEW p \in Phases PROVE [z EXCEPT !.phase = p] \in Side
  BY DEF Side

LEMMA MsgType ==
  ASSUME NEW s, NEW e \in SendsOf(s) PROVE Msg(e) \in Message /\ Msg(e).event = e
  BY DEF SendsOf, Msg, Message, Reasons

LEMMA ChainSent ==
  ASSUME NEW s \in Sides, NEW x \in Side, NEW y \in Side, NEW e \in SendsOf(s),
         ChainFits(s, x), y.chain = Append(x.chain, Msg(e)),
         \/ e \notin Waited /\ y.phase = x.phase
         \/ e \in Waited /\ NoWaited(x) /\ y.phase = OutPhase(e)
  PROVE  ChainFits(s, y)
  <1>1. x.chain \in Seq(Message) /\ Msg(e) \in Message /\ Msg(e).event = e
    BY MsgType DEF Side
  <1>2. /\ Len(y.chain) = Len(x.chain) + 1 /\ y.chain[Len(x.chain) + 1].event = e /\ Len(x.chain) \in Nat
        /\ \A i \in 1..Len(x.chain) : y.chain[i] = x.chain[i]
    BY <1>1
  <1>3. \A i \in 1..Len(y.chain) : i \in 1..Len(x.chain) \/ i = Len(x.chain) + 1
    BY <1>2
  <1>4. y.chain # <<>> /\ \A i \in 1..Len(y.chain) : y.chain[i].event \in SendsOf(s)
    BY <1>2, <1>3 DEF ChainFits
  <1>5. CASE e \notin Waited /\ y.phase = x.phase
    <2>1. \A i \in 1..Len(y.chain) : y.chain[i].event \in Waited => i \in 1..Len(x.chain) /\ x.chain[i].event \in Waited
      BY <1>2, <1>3, <1>5
    <2>2. \A i \in 1..Len(y.chain) : y.chain[i].event \in Waited => y.phase = OutPhase(y.chain[i].event)
      BY <1>2, <1>5, <2>1 DEF ChainFits
    <2> QED BY <1>4, <2>1, <2>2 DEF ChainFits
  <1>6. CASE e \in Waited /\ NoWaited(x) /\ y.phase = OutPhase(e)
    <2>1. \A i \in 1..Len(y.chain) : y.chain[i].event \in Waited => i = Len(x.chain) + 1
      BY <1>2, <1>3, <1>6 DEF NoWaited
    <2>2. \A i \in 1..Len(y.chain) : y.chain[i].event \in Waited => y.phase = OutPhase(y.chain[i].event)
      BY <1>2, <1>6, <2>1
    <2> QED BY <1>4, <2>1, <2>2 DEF ChainFits
  <1> QED BY <1>5, <1>6

(* A message is taken by a link that refuses nothing.                      *)
LEMMA SendsGood ==
  ASSUME NEW s \in Sides, NEW x, NEW y \in Side, NEW e \in SendsOf(s), Sound(s, x), Refusal(x) = "none",
         y.chain = Append(x.chain, Msg(e)),
         \/ e \notin Waited /\ y.phase = x.phase
         \/ e \in Waited /\ NoWaited(x) /\ y.phase = OutPhase(e) /\ x.phase \notin Done,
         y.stopped = x.stopped, y.linkEnded = x.linkEnded, y.exchange = x.exchange, y.failure = x.failure,
         y.closeSoon = x.closeSoon, y.error = x.error, y.outcome = x.outcome, y.chan = x.chan,
         y.watching = x.watching, y.everConnected = x.everConnected,
         y.pc = x.pc \/ (y.pc = "connecting" /\ x.pc = "failed"),
         IndexFits(s, y), y.phase \in PhasesOf(s),
         y.phase \in Early => x.phase \in Early,
         y.phase = "answerOut" => x.phase \in {"answering", "answerOut"}
  PROVE  Good(s, x, y)
  <1>1. x \in Side /\ ChainFits(s, x) /\ EndFits(x) /\ BlameFits(x) /\ ~x.linkEnded /\ ~x.stopped
    BY DEF Sound, SideInv, Refusal
  <1>2. ChainFits(s, y)
    BY <1>1, ChainSent
  <1>3. y.phase \notin {"aborting", "moving", "closing", "ended"} \/ y.phase = x.phase
    BY DEF OutPhase, Waited
  <1>4. LinkFits(y)
    BY <1>1 DEF LinkFits, EndFits
  <1>5. PeerFits(y)
    BY <1>1, <1>3 DEF PeerFits, EndFits, Done
  <1>6. Turns(x, y)
    BY <1>1, <1>3 DEF Turns, Done
  <1>7. y.phase \in Early => x.phase \in Early /\ y.pc = "none"
    BY <1>1 DEF BlameFits
  <1>8. y.phase \in {"answering", "answerOut"} => x.phase \in Early \cup {"answering", "answerOut"}
    BY DEF OutPhase, Waited
  <1> QED BY <1>2, <1>4, <1>5, <1>6, <1>7, <1>8, TurnGood

(* A call sends its message and waits for it to go.                        *)
LEMMA CallSendsGood ==
  ASSUME NEW s \in Sides, NEW x, NEW e, Sound(s, x), Refusal(x) = "none",
         \/ s = "page" /\ x.phase = "choosing" /\ e = "manifest"
         \/ s = "page" /\ x.phase = "answering" /\ e = "answer"
         \/ s = "drop" /\ x.phase = "start" /\ e = "invite"
         \/ s = "drop" /\ x.phase = "deciding" /\ e = "decline"
         \/ s = "drop" /\ x.phase = "offering" /\ e = "accept"
  PROVE  Good(s, x, [LinkSend(x, Msg(e)) EXCEPT !.phase = OutPhase(e)])
  <1> DEFINE n == x.sent + 1
             c == Append(x.chain, Msg(e))
             p == OutPhase(e)
             y == [[x EXCEPT !.sent = n, !.chain = c] EXCEPT !.phase = p]
  <1>1. x \in Side /\ ChainFits(s, x) /\ IndexFits(s, x) /\ ~x.stopped /\ x.sent < Messages
    <2>1. x \in Side /\ ChainFits(s, x) /\ IndexFits(s, x)
      BY DEF Sound, SideInv
    <2>2. ~x.stopped /\ ~(x.sent >= Messages)
      BY DEF Refusal
    <2> QED BY <2>1, <2>2, LimitsAssumption DEF Side
  <1>2. e \in SendsOf(s) /\ e \in Waited
    BY DEF SendsOf, Waited
  <1>3. p \in Phases /\ p \in PhasesOf(s)
    BY DEF OutPhase, Phases, CallPhases, PhasesOf
  <1>4. n \in 0..Messages /\ n = x.sent + 1 /\ x.sent \in Nat /\ x.used \in Nat
    BY <1>1, LimitsAssumption DEF Side
  <1>5. c \in Seq(Message)
    BY <1>1, <1>2, MsgType DEF Side
  <1>6. [LinkSend(x, Msg(e)) EXCEPT !.phase = OutPhase(e)] = y
    BY <1>1 DEF LinkSend, Side
  <1>7. p = OutPhase(e) /\ c = Append(x.chain, Msg(e)) OBVIOUS
  <1> HIDE DEF n, c, p
  <1>7a. y \in Side
    <2> DEFINE z == [x EXCEPT !.sent = n, !.chain = c]
    <2>1. x \in Side /\ p \in Phases /\ n \in 0..Messages
      BY <1>1, <1>3, <1>4
    <2>2. z \in Side
      BY <1>5, <2>1 DEF Side
    <2> HIDE DEF z
    <2>3. [z EXCEPT !.phase = p] \in Side
      BY <2>1, <2>2, PhaseType
    <2> QED BY <2>3 DEF z
  <1>8. /\ y \in Side /\ y.sent = n /\ y.chain = c /\ y.phase = p
        /\ y.stopped = x.stopped /\ y.linkEnded = x.linkEnded /\ y.exchange = x.exchange /\ y.failure = x.failure
        /\ y.closeSoon = x.closeSoon /\ y.error = x.error /\ y.outcome = x.outcome /\ y.chan = x.chan
        /\ y.watching = x.watching /\ y.everConnected = x.everConnected /\ y.pc = x.pc
        /\ y.received = x.received /\ y.used = x.used /\ y.reader = x.reader /\ y.restarting = x.restarting
    BY <1>1, <1>7a DEF Side
  <1> HIDE DEF y
  <1>9. NoWaited(x)
    BY <1>1, NoneWaited
  <1>10. IndexFits(s, y)
    <2>1. y.sent <= MostTaken(s, y)
      <3>1. x.reader = "off" /\ x.sent <= MostTaken(s, x)
        BY <1>1 DEF IndexFits, Done
      <3>2. CASE s = "page"
        BY <1>4, <1>7, <1>8, <3>1, <3>2, LimitsAssumption DEF MostTaken, OutPhase
      <3>3. CASE s = "drop"
        BY <1>4, <1>7, <1>8, <3>1, <3>3, LimitsAssumption DEF MostTaken, OutPhase
      <3> QED BY <3>2, <3>3 DEF Sides
    <2> QED BY <1>1, <1>7, <1>8, <2>1 DEF IndexFits, OutPhase, Done
  <1>11. x.phase \notin Done
    BY DEF Done
  <1>12. (y.phase \in Early => x.phase \in Early) /\ (y.phase = "answerOut" => x.phase = "answering")
    BY <1>7, <1>8 DEF Early, OutPhase
  <1>13. Good(s, x, y)
    BY <1>2, <1>3, <1>7, <1>8, <1>9, <1>10, <1>11, <1>12, SendsGood
  <1> QED BY <1>6, <1>13

(* A call of Drop's that rejects before it has a sink.                     *)
LEMMA DropCaughtGood ==
  ASSUME NEW x, NEW e \in Failures \ {"none"}, Sound("drop", x),
         x.phase \in {"start", "deciding", "offering", "applying", "invited", "accepted"}
  PROVE  Good("drop", x, Caught("drop", x, e))
  <1>1. Mostly("drop", x) /\ Precedes(x, x) /\ "drop" \in Sides /\ ChainFits("drop", x) /\ EndFits(x)
    BY SoundMostly DEF Sides, Sound, SideInv
  <1>2. NoWaited(x) /\ Loose("drop", x)
    BY <1>1, NoneWaited, MostlyLoose
  <1>3. x.phase \notin Done /\ x.outcome = "none"
    BY <1>1 DEF EndFits, Done
  <1> QED BY <1>1, <1>2, <1>3, CaughtGood

(* A call of the page's that rejects with a failure its screen can show.   *)
LEMMA PageCaughtGood ==
  ASSUME NEW x, NEW e \in Failures \ {"none"}, Sound("page", x),
         x.phase \in {"choosing", "preparing", "answering", "connecting", "moving", "inviting", "offered"},
         x.phase = "moving" => e \notin {"expired", "network"},
         x.failure # "cancelled" => Settled(x, e) \in PageFailures(x.phase)
  PROVE  Good("page", x, Caught("page", x, e))
  <1>1. Mostly("page", x) /\ Precedes(x, x) /\ "page" \in Sides /\ ChainFits("page", x) /\ EndFits(x)
    BY SoundMostly DEF Sides, Sound, SideInv
  <1>2. NoWaited(x) /\ Loose("page", x)
    BY <1>1, NoneWaited, MostlyLoose
  <1>3. x.phase \notin Done /\ x.outcome = "none"
    BY <1>1 DEF EndFits, Done
  <1> QED BY <1>1, <1>2, <1>3, CaughtGood

LEMMA SendOrGood ==
  ASSUME NEW s \in Sides, NEW x, NEW e, Sound(s, x),
         \/ s = "page" /\ x.phase = "choosing" /\ e = "manifest"
         \/ s = "page" /\ x.phase = "answering" /\ e = "answer"
         \/ s = "drop" /\ x.phase = "start" /\ e = "invite"
         \/ s = "drop" /\ x.phase = "offering" /\ e = "accept"
  PROVE  Good(s, x, SendOr(s, x, Msg(e), OutPhase(e)))
  <1>1. CASE Refusal(x) = "none"
    <2>1. SendOr(s, x, Msg(e), OutPhase(e)) = [LinkSend(x, Msg(e)) EXCEPT !.phase = OutPhase(e)]
      BY <1>1 DEF SendOr
    <2>2. Good(s, x, [LinkSend(x, Msg(e)) EXCEPT !.phase = OutPhase(e)])
      BY <1>1, CallSendsGood
    <2> QED BY <2>1, <2>2
  <1>2. CASE Refusal(x) # "none"
    <2>1. Refusal(x) \in Failures \ {"none"} /\ Refusal(x) \in {"expired", "cancelled", "protocol"}
      BY <1>2 DEF Refusal, Failures
    <2>2. SendOr(s, x, Msg(e), OutPhase(e)) = Caught(s, x, Refusal(x))
      BY <1>2 DEF SendOr
    <2>3. CASE s = "drop"
      BY <2>1, <2>2, <2>3, DropCaughtGood
    <2>4. CASE s = "page"
      <3>1. BlameFits(x) /\ ReasonFits(x)
        BY DEF Sound, SideInv
      <3>2. Refusal(x) = "cancelled" => x.failure # "none"
        BY <2>4, <3>1 DEF Refusal, ReasonFits, Done
      <3>3. x.failure # "cancelled" => Settled(x, Refusal(x)) \in PageFailures(x.phase)
        <4>1. CASE x.phase = "choosing"
          BY <2>1, <3>1, <3>2, <4>1 DEF BlameFits, Early, Settled, CallPhases, PageFailures
        <4>2. CASE x.phase = "answering"
          BY <2>1, <3>1, <3>2, <4>2 DEF BlameFits, Settled, CallPhases, PageFailures
        <4> QED BY <2>4, <4>1, <4>2
      <3>4. x.phase \in {"choosing", "answering"}
        BY <2>4
      <3> QED BY <2>1, <2>2, <2>4, <3>3, <3>4, PageCaughtGood
    <2> QED BY <2>3, <2>4 DEF Sides
  <1> QED BY <1>1, <1>2

(* A call settles with an outcome of its own.                              *)
LEMMA FinishedGood ==
  ASSUME NEW s \in Sides, NEW x, NEW b, NEW o \in Outcomes \ {"none"},
         Loose(s, b), NoWaited(b), Precedes(x, b), b.phase \notin Done, b.outcome = "none",
         b.phase \in {"moving", "aborting"} => o \notin {"expired", "network"},
         s = "page" /\ b.failure # "cancelled" => o \in {"arrived", "declined"}
  PROVE  Good(s, x, Finished(b, o))
  <1> DEFINE y == Finished(b, o)
  <1>1. Frame(b, y) /\ y.phase = "closing" /\ ~y.watching /\ y.outcome = o
    BY FinishedEnds DEF Loose
  <1> HIDE DEF y
  <1>2. Good(s, b, y)
    BY <1>1, SettlesGood
  <1> QED BY <1>2, GoodFrom DEF y

(* The link ends, and then the call.                                       *)
LEMMA EndedGood ==
  ASSUME NEW s \in Sides, NEW x, NEW b, NEW o \in Outcomes \ {"none"},
         Loose(s, b), NoWaited(b), Precedes(x, b), b.phase \notin Done \cup {"moving", "aborting"}, b.outcome = "none",
         s = "page" => o = "declined"
  PROVE  Good(s, x, Finished(LinkEnd(b), o))
  <1> DEFINE y == LinkEnd(b)
  <1>1. b \in Side
    BY DEF Loose
  <1>2. Eases(b, y) /\ y.stopped = b.stopped /\ y.sent = b.sent
    BY <1>1, LinkEndEases
  <1> HIDE DEF y
  <1>3. Frame(b, y) /\ y.phase = b.phase /\ y.outcome = b.outcome
    BY <1>2 DEF Eases
  <1>4. Loose(s, y) /\ NoWaited(y)
    BY <1>3, LooseKept
  <1>5. Precedes(x, y)
    BY <1>2, <1>3 DEF Precedes
  <1>6. Good(s, x, Finished(y, o))
    BY <1>3, <1>4, <1>5, FinishedGood
  <1> QED BY <1>6 DEF y

(***************************************************************************)
(* Restarts                                                                *)
(***************************************************************************)

(* restartOnce is over, or waits for its answer.                           *)
LEMMA RestartingGood ==
  ASSUME NEW x, NEW p \in -1..Messages, NEW q \in {"no", "waiting"}, Sound("drop", x)
  PROVE  Good("drop", x, [x EXCEPT !.pending = p, !.restarting = q])
  <1> DEFINE y == [x EXCEPT !.pending = p, !.restarting = q]
  <1>1. x \in Side /\ EndFits(x) /\ ChainFits("drop", x) /\ IndexFits("drop", x) /\ "drop" \in Sides
        /\ x.phase \in PhasesOf("drop") /\ BlameFits(x)
    BY DEF Sound, SideInv, Sides
  <1>2. /\ y \in Side /\ y.phase = x.phase /\ Moves(x, y) /\ y.watching = x.watching /\ y.pc = x.pc
        /\ y.received = x.received /\ y.used = x.used /\ y.restarting = q /\ y.reader = x.reader
    BY <1>1 DEF Side, Moves
  <1> HIDE DEF y
  <1>3. IndexFits("drop", y)
    <2>1. x.used \in Nat /\ x.sent \in Nat
      BY <1>1 DEF Side
    <2> QED BY <1>1, <1>2, <2>1 DEF IndexFits, Moves, MostTaken
  <1>4. Good("drop", x, y)
    BY <1>1, <1>2, <1>3, MovesGood DEF EndFits, BlameFits
  <1> QED BY <1>4 DEF y

(* The restart's offer goes out.                                           *)
LEMMA RestartOffersGood ==
  ASSUME NEW x, Sound("drop", x), x.restarting = "describing"
  PROVE  LET y == [x EXCEPT !.pending = x.sent] IN
         /\ Good("drop", x, [x EXCEPT !.restarting = "no"])
         /\ Good("drop", x, IF Refusal(y) # "none" THEN [y EXCEPT !.restarting = "no"]
                            ELSE [LinkSend(y, Msg("restart")) EXCEPT !.restarting = "sending"])
  <1> DEFINE y == [x EXCEPT !.pending = x.sent]
             a == [x EXCEPT !.restarting = "no"]
             b == [y EXCEPT !.restarting = "no"]
             c == [LinkSend(y, Msg("restart")) EXCEPT !.restarting = "sending"]
  <1>1. x \in Side /\ ChainFits("drop", x) /\ IndexFits("drop", x) /\ "drop" \in Sides
        /\ x.phase \in PhasesOf("drop")
    BY DEF Sound, SideInv, Sides
  <1>2. x.sent \in -1..Messages /\ x.pending \in -1..Messages
    BY <1>1, LimitsAssumption DEF Side
  <1>3. a = [x EXCEPT !.pending = x.pending, !.restarting = "no"] /\ b = [x EXCEPT !.pending = x.sent, !.restarting = "no"]
    BY <1>1 DEF Side
  <1>4. Good("drop", x, a) /\ Good("drop", x, b)
    BY <1>2, <1>3, RestartingGood
  <1>5. ASSUME Refusal(y) = "none" PROVE Good("drop", x, c)
    <2>1. y.linkEnded = x.linkEnded /\ y.stopped = x.stopped /\ y.sent = x.sent
      BY <1>1 DEF Side
    <2>2. Refusal(x) = "none"
      BY <1>5, <2>1 DEF Refusal
    <2>3. ~x.stopped /\ ~(x.sent >= Messages)
      BY <2>2 DEF Refusal
    <2> DEFINE n == x.sent + 1
               k == Append(x.chain, Msg("restart"))
               z == [x EXCEPT !.pending = x.sent, !.sent = n, !.chain = k, !.restarting = "sending"]
    <2>4. n \in 0..Messages /\ n = x.sent + 1 /\ x.sent \in Nat /\ x.used \in Nat
      BY <1>1, <2>3, LimitsAssumption DEF Side
    <2>5. "restart" \in SendsOf("drop") /\ "restart" \notin Waited
      BY DEF SendsOf, Waited
    <2>6. k \in Seq(Message) /\ k = Append(x.chain, Msg("restart"))
      BY <1>1, <2>5, MsgType DEF Side
    <2>7. c = z
      BY <1>1 DEF LinkSend, Side
    <2> HIDE DEF n, k
    <2>8. z \in Side
      BY <1>1, <1>2, <2>4, <2>6 DEF Side
    <2>9. /\ z.sent = n /\ z.chain = k /\ z.phase = x.phase /\ z.restarting = "sending"
          /\ z.stopped = x.stopped /\ z.linkEnded = x.linkEnded /\ z.exchange = x.exchange /\ z.failure = x.failure
          /\ z.closeSoon = x.closeSoon /\ z.error = x.error /\ z.outcome = x.outcome /\ z.chan = x.chan
          /\ z.watching = x.watching /\ z.everConnected = x.everConnected /\ z.pc = x.pc
          /\ z.received = x.received /\ z.used = x.used /\ z.reader = x.reader
      BY <1>1 DEF Side
    <2> HIDE DEF z
    <2>10. IndexFits("drop", z)
      BY <1>1, <2>3, <2>4, <2>9 DEF IndexFits, MostTaken
    <2>11. Good("drop", x, z)
      BY <1>1, <2>2, <2>5, <2>6, <2>8, <2>9, <2>10, SendsGood
    <2> QED BY <2>7, <2>11
  <1> HIDE DEF a, b, c
  <1> QED BY <1>4, <1>5 DEF a, b, c

(* The page's answer to a restart goes out, or there will be no more.      *)
LEMMA AnswersRestartGood ==
  ASSUME NEW x, Sound("page", x), x.reader = "describing"
  PROVE  LET y == [x EXCEPT !.pc = IF @ = "failed" THEN "connecting" ELSE @] IN
         /\ Good("page", x, NoMoreRestarts(x))
         /\ Refusal(x) # "expired" =>
              Good("page", x, IF Refusal(x) # "none" THEN Fail("page", y, Refusal(x))
                              ELSE [LinkSend(y, Msg("restart-answer")) EXCEPT !.reader = "sending"])
  <1> DEFINE g == IF x.pc = "failed" THEN "connecting" ELSE x.pc
             y == [x EXCEPT !.pc = g]
  <1>0. y = [x EXCEPT !.pc = IF @ = "failed" THEN "connecting" ELSE @] OBVIOUS
  <1>1. x \in Side /\ ChainFits("page", x) /\ IndexFits("page", x) /\ EndFits(x) /\ BlameFits(x) /\ ReasonFits(x)
        /\ x.phase \in PhasesOf("page") /\ "page" \in Sides
    BY DEF Sound, SideInv, Sides
  <1>2. Good("page", x, NoMoreRestarts(x))
    BY <1>1, SoundMostly, NoMoreRestartsGood
  <1>3. g \in Trying \cup {"none", "failed", "closed"} /\ (g = x.pc \/ (g = "connecting" /\ x.pc = "failed"))
    BY <1>1 DEF Side, Trying
  <1>4. x.received \in 2..(2 + Restarts) /\ x.phase \in {"connecting", "moving", "aborting"} \cup Done
    BY <1>1 DEF IndexFits
  <1> HIDE DEF g
  <1>5. y \in Side
    BY <1>1, <1>3 DEF Side
  <1>6. /\ y.sent = x.sent /\ y.received = x.received /\ y.stopped = x.stopped /\ y.linkEnded = x.linkEnded
        /\ y.chain = x.chain /\ y.carried = x.carried /\ y.exchange = x.exchange /\ y.phase = x.phase /\ y.error = x.error
        /\ y.outcome = x.outcome /\ y.failure = x.failure /\ y.closeSoon = x.closeSoon /\ y.pc = g
        /\ y.chan = x.chan /\ y.watching = x.watching /\ y.everConnected = x.everConnected
        /\ y.used = x.used /\ y.restarting = x.restarting /\ y.reader = x.reader
    BY <1>1 DEF Side
  <1>7. Mostly("page", y)
    <2>1. ChainFits("page", y) /\ (StopInChain(x) <=> StopInChain(y))
      BY <1>1, <1>6 DEF ChainFits, StopInChain
    <2>2. IndexFits("page", y)
      BY <1>1, <1>6 DEF IndexFits, MostTaken
    <2>3. EndFits(y)
      BY <1>1, <1>3, <1>6, <2>1 DEF EndFits
    <2>4. BlameFits(y)
      BY <1>1, <1>3, <1>6 DEF BlameFits
    <2> QED BY <1>1, <1>5, <1>6, <2>1, <2>2, <2>3, <2>4 DEF Mostly
  <1>8. Precedes(x, y)
    BY <1>6 DEF Precedes
  <1>9. ASSUME Refusal(x) \notin {"none", "expired"} PROVE Good("page", x, Fail("page", y, Refusal(x)))
    <2>1. Refusal(x) \in {"cancelled", "protocol"}
      BY <1>9 DEF Refusal
    <2>2. Refusal(x) \in Blamed \ {"none", "connect"}
      BY <2>1 DEF Blamed
    <2>3. Mostly("page", [y EXCEPT !.reader = "off"])
      BY <1>1, <1>5, <1>7, OffMostly
    <2>4. y.phase \notin Done /\ y.failure = "connect" => ~y.everConnected /\ y.pc = "closed"
      BY <1>1, <1>3, <1>6 DEF ReasonFits
    <2>5. y.phase \in {"connecting", "moving", "aborting"} \cup Done
      BY <1>4, <1>6
    <2> HIDE DEF y
    <2> QED BY <1>1, <1>5, <1>8, <2>2, <2>3, <2>4, <2>5, FailGood
  <1>10. ASSUME Refusal(x) = "none" PROVE Good("page", x, [LinkSend(y, Msg("restart-answer")) EXCEPT !.reader = "sending"])
    <2>1. ~x.stopped /\ ~(x.sent >= Messages)
      BY <1>10 DEF Refusal
    <2> DEFINE n == x.sent + 1
               k == Append(x.chain, Msg("restart-answer"))
               z == [x EXCEPT !.pc = g, !.sent = n, !.chain = k, !.reader = "sending"]
    <2>2. n \in 0..Messages /\ n = x.sent + 1 /\ x.sent \in Nat
      BY <1>1, <2>1, LimitsAssumption DEF Side
    <2>3. "restart-answer" \in SendsOf("page") /\ "restart-answer" \notin Waited
      BY DEF SendsOf, Waited
    <2>4. k \in Seq(Message) /\ k = Append(x.chain, Msg("restart-answer"))
      BY <1>1, <2>3, MsgType DEF Side
    <2>5. [LinkSend(y, Msg("restart-answer")) EXCEPT !.reader = "sending"] = z
      BY <1>1 DEF LinkSend, Side
    <2> HIDE DEF n, k
    <2>6. z \in Side
      BY <1>1, <1>3, <2>2, <2>4 DEF Side
    <2>7. /\ z.sent = n /\ z.chain = k /\ z.phase = x.phase /\ z.restarting = x.restarting
          /\ z.stopped = x.stopped /\ z.linkEnded = x.linkEnded /\ z.exchange = x.exchange /\ z.failure = x.failure
          /\ z.closeSoon = x.closeSoon /\ z.error = x.error /\ z.outcome = x.outcome /\ z.chan = x.chan
          /\ z.watching = x.watching /\ z.everConnected = x.everConnected /\ z.pc = g
          /\ z.received = x.received /\ z.used = x.used /\ z.reader = "sending"
      BY <1>1 DEF Side
    <2> HIDE DEF z
    <2>8. IndexFits("page", z)
      BY <1>1, <1>4, <2>1, <2>2, <2>7, LimitsAssumption DEF IndexFits, MostTaken, Done
    <2>9. Good("page", x, z)
      BY <1>1, <1>3, <1>10, <2>3, <2>4, <2>6, <2>7, <2>8, SendsGood
    <2> QED BY <2>5, <2>9
  <1> QED BY <1>0, <1>2, <1>9, <1>10

(***************************************************************************)
(* Link.read                                                               *)
(***************************************************************************)

(* A read that has its message: the index is counted, a stop noted.        *)
Heard(x, b) ==
  /\ b \in Side /\ b.received = x.received + 1 /\ (x.stopped => b.stopped)
  /\ b.sent = x.sent /\ b.chain = x.chain /\ b.carried = x.carried /\ b.linkEnded = x.linkEnded /\ b.exchange = x.exchange
  /\ b.phase = x.phase /\ b.failure = x.failure /\ b.error = x.error /\ b.outcome = x.outcome
  /\ b.reader = x.reader /\ b.closeSoon = x.closeSoon /\ b.pc = x.pc /\ b.chan = x.chan
  /\ b.watching = x.watching /\ b.everConnected = x.everConnected /\ b.used = x.used
  /\ b.restarting = x.restarting /\ b.pending = x.pending

(* Where a read stands: the call's own, or that of a loop beside it.       *)
LEMMA WhoReads ==
  ASSUME NEW s \in Sides, NEW x, Sound(s, x), Reading(x)
  PROVE  /\ \/ x.phase \in ReadPhases /\ x.reader = "off" /\ x.received \in {0, 1} /\ x.phase \notin Done
               /\ x.outcome = "none" /\ NoWaited(x)
            \/ /\ x.reader = "reading" /\ x.received \in 2..(2 + Restarts)
               /\ x.phase \in {"connecting", "moving", "aborting"} \cup Done /\ x.phase \notin ReadPhases
         /\ x.received + 1 \in 0..Messages
         /\ s = "page" /\ x.phase \in ReadPhases => \/ x.phase = "inviting" /\ x.received = 0
                                                    \/ x.phase = "offered" /\ x.received = 1
         /\ s = "drop" /\ x.phase \in ReadPhases => \/ x.phase = "invited" /\ x.received = 0
                                                    \/ x.phase = "accepted" /\ x.received = 1
  <1>1. x \in Side /\ IndexFits(s, x) /\ EndFits(x) /\ ChainFits(s, x) /\ x.phase \in PhasesOf(s)
    BY DEF Sound, SideInv
  <1>2. CASE x.phase \in ReadPhases
    <2>1. x.reader = "off" /\ x.received \in {0, 1} /\ x.phase \notin Done
      BY <1>1, <1>2 DEF ReadPhases, IndexFits, Done
    <2>2. x.outcome = "none" /\ NoWaited(x)
      BY <1>1, <1>2, <2>1, NoneWaited DEF EndFits, ReadPhases
    <2>3. x.received + 1 \in 0..Messages
      BY <2>1, LimitsAssumption
    <2>4. s = "page" => \/ x.phase = "inviting" /\ x.received = 0
                        \/ x.phase = "offered" /\ x.received = 1
      BY <1>1, <1>2 DEF ReadPhases, IndexFits, PhasesOf
    <2>5. s = "drop" => \/ x.phase = "invited" /\ x.received = 0
                        \/ x.phase = "accepted" /\ x.received = 1
      BY <1>1, <1>2 DEF ReadPhases, IndexFits, PhasesOf
    <2> QED BY <1>2, <2>1, <2>2, <2>3, <2>4, <2>5
  <1>3. CASE x.phase \notin ReadPhases
    <2>1. x.reader = "reading"
      BY <1>3 DEF Reading
    <2>2. x.received \in 2..(2 + Restarts) /\ x.phase \in {"connecting", "moving", "aborting"} \cup Done
      BY <1>1, <2>1 DEF IndexFits
    <2>3. x.received + 1 \in 0..Messages
      BY <2>2, LimitsAssumption
    <2> QED BY <1>3, <2>1, <2>2, <2>3
  <1> QED BY <1>2, <1>3

LEMMA HeardFits ==
  ASSUME NEW s \in Sides, NEW x, NEW b, Sound(s, x), Reading(x), Heard(x, b)
  PROVE  /\ Precedes(x, b)
         /\ x.reader = "off" => Loose(s, b) /\ NoWaited(b)
         /\ x.reader = "reading" => Mostly(s, [b EXCEPT !.reader = "off"])
  <1>1. Mostly(s, x) /\ Loose(s, x)
    BY SoundMostly, MostlyLoose
  <1>2. Precedes(x, b)
    BY DEF Heard, Precedes
  <1>3. x \in Side /\ b \in Side /\ x.used \in Nat /\ x.sent \in Nat
    BY DEF Sound, Heard, Side
  <1>4. ChainFits(s, b) /\ (NoWaited(x) => NoWaited(b)) /\ (StopInChain(x) <=> StopInChain(b))
    BY <1>1 DEF Heard, Mostly, ChainFits, StopInChain, NoWaited
  <1>5. ASSUME x.reader = "off" PROVE Loose(s, b) /\ NoWaited(b)
    <2>1. NoWaited(x)
      BY <1>5, WhoReads
    <2>2. MostTaken(s, b) = MostTaken(s, x)
      BY DEF Heard, MostTaken
    <2> QED BY <1>1, <1>3, <1>4, <1>5, <2>1, <2>2 DEF Loose, Heard
  <1>6. ASSUME x.reader = "reading" PROVE Mostly(s, [b EXCEPT !.reader = "off"])
    <2> DEFINE c == [b EXCEPT !.reader = "off"]
    <2>1. x.phase \in {"connecting", "moving", "aborting"} \cup Done
      BY <1>6, WhoReads
    <2>2. /\ c \in Side /\ c.reader = "off"
          /\ c.sent = b.sent /\ c.received = b.received /\ c.stopped = b.stopped /\ c.linkEnded = b.linkEnded
          /\ c.chain = b.chain /\ c.carried = b.carried /\ c.exchange = b.exchange /\ c.phase = b.phase /\ c.error = b.error
          /\ c.outcome = b.outcome /\ c.failure = b.failure /\ c.closeSoon = b.closeSoon /\ c.pc = b.pc
          /\ c.chan = b.chan /\ c.watching = b.watching /\ c.everConnected = b.everConnected
          /\ c.used = b.used /\ c.restarting = b.restarting
      BY <1>3 DEF Side
    <2> HIDE DEF c
    <2>3. ChainFits(s, c) /\ (StopInChain(x) <=> StopInChain(c))
      BY <1>4, <2>2 DEF ChainFits, StopInChain
    <2>4. MostTaken(s, c) = MostTaken(s, x)
      BY <1>6, <2>2 DEF Heard, MostTaken
    <2>5. IndexFits(s, c)
      BY <1>1, <2>1, <2>2, <2>4 DEF Mostly, IndexFits, Heard, Done
    <2>6. EndFits(c)
      BY <1>1, <2>2, <2>3 DEF Mostly, EndFits, Heard
    <2>7. BlameFits(c) /\ c.phase \in PhasesOf(s)
      BY <1>1, <2>2 DEF Mostly, BlameFits, Heard
    <2> QED BY <2>2, <2>3, <2>5, <2>6, <2>7 DEF Mostly, c
  <1> QED BY <1>2, <1>5, <1>6

(* Winding down commutes with a loop that stops reading.                   *)
LEMMA OffKept ==
  ASSUME NEW s \in Sides, NEW b \in Side, NEW y, Eases(b, y), Mostly(s, [b EXCEPT !.reader = "off"])
  PROVE  Mostly(s, [y EXCEPT !.reader = "off"])
  <1> DEFINE c == [b EXCEPT !.reader = "off"]
             z == [y EXCEPT !.reader = "off"]
  <1>1. y \in Side
    BY DEF Eases, Frame
  <1>2. c \in Side /\ z \in Side
    BY <1>1 DEF Side
  <1>3. /\ c.reader = "off"
        /\ c.sent = b.sent /\ c.received = b.received /\ c.stopped = b.stopped /\ c.linkEnded = b.linkEnded
        /\ c.chain = b.chain /\ c.carried = b.carried /\ c.exchange = b.exchange /\ c.phase = b.phase /\ c.error = b.error
        /\ c.outcome = b.outcome /\ c.failure = b.failure /\ c.closeSoon = b.closeSoon /\ c.pc = b.pc
        /\ c.chan = b.chan /\ c.watching = b.watching /\ c.everConnected = b.everConnected
        /\ c.used = b.used /\ c.restarting = b.restarting
    BY DEF Side
  <1>4. /\ z.reader = "off"
        /\ z.sent = y.sent /\ z.received = y.received /\ z.stopped = y.stopped /\ z.linkEnded = y.linkEnded
        /\ z.chain = y.chain /\ z.carried = y.carried /\ z.exchange = y.exchange /\ z.phase = y.phase /\ z.error = y.error
        /\ z.outcome = y.outcome /\ z.failure = y.failure /\ z.closeSoon = y.closeSoon /\ z.pc = y.pc
        /\ z.chan = y.chan /\ z.watching = y.watching /\ z.everConnected = y.everConnected
        /\ z.used = y.used /\ z.restarting = y.restarting
    BY <1>1 DEF Side
  <1> HIDE DEF c, z
  <1>5. StopInChain(z) <=> StopInChain(y)
    BY <1>4 DEF StopInChain
  <1>6. LinkFrame(c, z)
    BY <1>3, <1>4, <1>5 DEF Eases, Frame, LinkFrame
  <1>7. PeerFrame(c, z)
    BY <1>3, <1>4 DEF Eases, Frame, PeerFrame
  <1>8. Eases(c, z)
    BY <1>2, <1>3, <1>4, <1>6, <1>7 DEF Eases, Frame
  <1> QED BY <1>8, EasesKeeps DEF c, z

(* A read that throws, after the link may have sent its stop.              *)
LEMMA ThrewGood ==
  ASSUME NEW s \in Sides, NEW x, NEW b, NEW c, NEW kind \in Blamed \ {"none", "connect"},
         Sound(s, x), Reading(x), Heard(x, b), c = b \/ \E r \in Reasons : c = LinkStop(b, r),
         s = "page" /\ x.phase \in ReadPhases => kind \in PageFailures(x.phase)
  PROVE  /\ Good(s, x, Threw(s, c, kind))
         /\ x.reader = "reading" => Good(s, x, Fail(s, c, kind))
  <1>1. b \in Side /\ b.reader = x.reader
    BY DEF Heard
  <1>2. /\ Precedes(x, b) /\ (x.reader = "off" => Loose(s, b) /\ NoWaited(b))
        /\ x.reader = "reading" => Mostly(s, [b EXCEPT !.reader = "off"])
    BY HeardFits
  <1>3. Eases(b, c) /\ c.reader = b.reader
    BY <1>1, LinkStopEases, FrameRefl DEF Eases
  <1>4. c \in Side /\ Frame(b, c) /\ c.phase = b.phase /\ c.outcome = b.outcome
    BY <1>3 DEF Eases, Frame
  <1>5. Precedes(x, c)
    BY <1>2, <1>4 DEF Precedes, Frame, LinkFrame
  <1>6. ReasonFits(x) /\ x \in Side
    BY DEF Sound, SideInv
  <1>7. ASSUME x.reader = "reading" PROVE Good(s, x, Fail(s, c, kind))
    <2>1. Mostly(s, [c EXCEPT !.reader = "off"])
      BY <1>1, <1>2, <1>3, <1>7, OffKept
    <2>2. c.phase \in {"connecting", "moving", "aborting"} \cup Done
      BY <1>4, <1>7, WhoReads DEF Heard
    <2>3. c.phase \notin Done /\ c.failure = "connect" => ~c.everConnected /\ c.pc = "closed"
      BY <1>4, <1>6 DEF Frame, PeerFrame, ReasonFits, Heard
    <2> QED BY <1>4, <1>5, <2>1, <2>2, <2>3, FailGood
  <1>8. CASE x.reader = "reading"
    <2>1. Threw(s, c, kind) = Fail(s, c, kind)
      BY <1>1, <1>3, <1>8 DEF Threw
    <2> QED BY <1>7, <1>8, <2>1
  <1>9. CASE x.reader # "reading"
    <2>1. Threw(s, c, kind) = Caught(s, c, kind)
      BY <1>1, <1>3, <1>9 DEF Threw
    <2>2. x.phase \in ReadPhases /\ x.reader = "off" /\ x.phase \notin Done /\ x.outcome = "none"
      BY <1>9, WhoReads
    <2>3. Loose(s, c) /\ NoWaited(c)
      BY <1>2, <1>4, <2>2, LooseKept
    <2>4. c.phase = x.phase /\ c.outcome = "none"
      BY <1>4, <2>2 DEF Heard
    <2>5. kind \in Failures \ {"none"}
      BY DEF Blamed, Failures
    <2>6. c.phase \notin {"connecting", "moving", "aborting"} /\ c.phase \notin Done
      BY <2>2, <2>4 DEF ReadPhases
    <2>7. s = "page" => x.phase \in {"inviting", "offered"}
      BY <2>2, WhoReads
    <2>8. s = "page" /\ c.failure # "cancelled" => Settled(c, kind) \in PageFailures(c.phase)
      BY <2>2, <2>4, <2>7 DEF Settled, CallPhases
    <2>9. Good(s, x, Caught(s, c, kind))
      BY <1>5, <2>3, <2>4, <2>5, <2>6, <2>8, CaughtGood
    <2> QED BY <1>9, <2>1, <2>9
  <1> QED BY <1>7, <1>8, <1>9

(* What a read may get, and where the reader then stands.                  *)
LEMMA MayRead ==
  ASSUME NEW s \in Sides, NEW x, NEW e, Sound(s, x), Reading(x), e \in AllowedEvents(Other(s), x.received)
  PROVE  \/ e = "stop" /\ ~(s = "page" /\ x.phase = "inviting")
         \/ e = "invite" /\ s = "page" /\ x.phase = "inviting" /\ x.received = 0
         \/ e \in {"accept", "decline"} /\ s = "page" /\ x.phase = "offered" /\ x.received = 1
         \/ e = "manifest" /\ s = "drop" /\ x.phase = "invited" /\ x.received = 0
         \/ e = "answer" /\ s = "drop" /\ x.phase = "accepted" /\ x.received = 1
         \/ /\ e = IF s = "page" THEN "restart" ELSE "restart-answer"
            /\ x.reader = "reading" /\ x.received \in 2..(1 + Restarts)
            /\ x.phase \in {"connecting", "moving", "aborting"} \cup Done
  <1>1. /\ \/ x.phase \in ReadPhases /\ x.reader = "off" /\ x.received \in {0, 1}
           \/ /\ x.reader = "reading" /\ x.received \in 2..(2 + Restarts)
              /\ x.phase \in {"connecting", "moving", "aborting"} \cup Done /\ x.phase \notin ReadPhases
        /\ s = "page" /\ x.phase \in ReadPhases => \/ x.phase = "inviting" /\ x.received = 0
                                                   \/ x.phase = "offered" /\ x.received = 1
        /\ s = "drop" /\ x.phase \in ReadPhases => \/ x.phase = "invited" /\ x.received = 0
                                                   \/ x.phase = "accepted" /\ x.received = 1
    BY WhoReads
  <1>2. Other("page") = "drop" /\ Other("drop") = "page"
    BY DEF Other
  <1>3. CASE s = "page" /\ x.phase \in ReadPhases
    <2>1. CASE x.received = 0
      BY <1>1, <1>2, <1>3, <2>1, LimitsAssumption DEF AllowedEvents
    <2>2. CASE x.received = 1
      BY <1>1, <1>2, <1>3, <2>2, LimitsAssumption DEF AllowedEvents
    <2> QED BY <1>1, <1>3, <2>1, <2>2
  <1>4. CASE s = "drop" /\ x.phase \in ReadPhases
    <2>1. CASE x.received = 0
      BY <1>1, <1>2, <1>4, <2>1, LimitsAssumption DEF AllowedEvents
    <2>2. CASE x.received = 1
      BY <1>1, <1>2, <1>4, <2>2, LimitsAssumption DEF AllowedEvents
    <2> QED BY <1>1, <1>4, <2>1, <2>2
  <1>5. CASE x.phase \notin ReadPhases
    <2>1. x.received \in 2..(2 + Restarts) /\ x.received < Messages /\ x.reader = "reading"
          /\ x.phase \in {"connecting", "moving", "aborting"} \cup Done
      BY <1>1, <1>5, LimitsAssumption
    <2>2. x.phase # "inviting"
      BY <1>5 DEF ReadPhases
    <2>3. CASE x.received \in 2..(1 + Restarts)
      <3>1. AllowedEvents(Other(s), x.received) = {IF Other(s) = "drop" THEN "restart" ELSE "restart-answer", "stop"}
        BY <2>1, <2>3, LimitsAssumption DEF AllowedEvents
      <3>2. (Other(s) = "drop") <=> (s = "page")
        BY DEF Other, Sides
      <3> QED BY <2>1, <2>2, <2>3, <3>1, <3>2
    <2>4. CASE x.received \notin 2..(1 + Restarts)
      <3>1. AllowedEvents(Other(s), x.received) = {"stop"}
        BY <2>1, <2>4, LimitsAssumption DEF AllowedEvents
      <3> QED BY <2>2, <3>1
    <2> QED BY <2>3, <2>4
  <1> QED BY <1>3, <1>4, <1>5 DEF Sides

(* The call goes on with what it has read.                                 *)
LEMMA ReadMovesGood ==
  ASSUME NEW s \in Sides, NEW x, NEW b, NEW p, Sound(s, x), Heard(x, b), b.stopped = x.stopped,
         \/ s = "page" /\ x.phase = "inviting" /\ p = "choosing"
         \/ s = "page" /\ x.phase = "offered" /\ p = "preparing"
         \/ s = "drop" /\ x.phase = "invited" /\ p = "deciding"
         \/ s = "drop" /\ x.phase = "accepted" /\ p = "applying"
  PROVE  Good(s, x, [b EXCEPT !.phase = p])
  <1> DEFINE y == [b EXCEPT !.phase = p]
  <1>1. x \in Side /\ EndFits(x) /\ ChainFits(s, x) /\ IndexFits(s, x) /\ BlameFits(x) /\ b \in Side
    BY DEF Sound, SideInv, Heard
  <1>2. p \in Phases /\ p \in PhasesOf(s)
    BY DEF Phases, Idle, CallPhases, PhasesOf
  <1>3. y \in Side
    BY <1>1, <1>2, PhaseType
  <1>4. /\ y.sent = b.sent /\ y.received = b.received /\ y.stopped = b.stopped /\ y.linkEnded = b.linkEnded
        /\ y.chain = b.chain /\ y.carried = b.carried /\ y.exchange = b.exchange /\ y.phase = p /\ y.error = b.error
        /\ y.outcome = b.outcome /\ y.failure = b.failure /\ y.closeSoon = b.closeSoon /\ y.pc = b.pc
        /\ y.chan = b.chan /\ y.watching = b.watching /\ y.everConnected = b.everConnected
        /\ y.used = b.used /\ y.restarting = b.restarting /\ y.reader = b.reader
    BY <1>1 DEF Side
  <1> HIDE DEF y
  <1>5. NoWaited(x) /\ x.phase \notin Done /\ p \notin Done \cup {"aborting", "moving"}
    BY <1>1, NoneWaited DEF Done
  <1>6. Moves(x, y)
    BY <1>4 DEF Moves, Heard
  <1>7. IndexFits(s, y)
    <2>1. x.reader = "off" /\ x.received = (IF x.phase \in {"inviting", "invited"} THEN 0 ELSE 1)
      BY <1>1 DEF IndexFits, Done
    <2>2. y.received = (IF p \in {"choosing", "deciding"} THEN 1 ELSE 2) /\ y.reader = "off"
      BY <1>4, <2>1 DEF Heard
    <2>3. x.used \in Nat /\ x.sent \in Nat
      BY <1>1 DEF Side
    <2>4. ~y.stopped => y.sent <= MostTaken(s, y)
      <3>1. CASE s = "page"
        BY <1>1, <1>4, <2>1, <2>2, <2>3, <3>1, LimitsAssumption DEF IndexFits, MostTaken, Heard
      <3>2. CASE s = "drop"
        BY <1>1, <1>4, <2>1, <2>2, <2>3, <3>2, LimitsAssumption DEF IndexFits, MostTaken, Heard
      <3> QED BY <3>1, <3>2 DEF Sides
    <2> QED BY <1>4, <2>2, <2>4 DEF IndexFits
  <1>8. y.watching => y.pc # "none" /\ y.phase \notin Done
    BY <1>1, <1>4, <1>5 DEF EndFits, Heard
  <1>9. y.phase \in Early => x.phase \in Early /\ y.pc = "none"
    BY <1>1, <1>4 DEF Early, BlameFits, Heard
  <1>10. y.phase \in PhasesOf(s) /\ y.phase # "moving" /\ y.pc = x.pc /\ y.phase \notin {"answering", "answerOut"}
    BY <1>2, <1>4, <1>5 DEF Heard
  <1>11. Good(s, x, y)
    BY <1>3, <1>4, <1>5, <1>6, <1>7, <1>8, <1>9, <1>10, MovesGood
  <1> QED BY <1>11 DEF y

(* The page hears of a restart in time.                                    *)
LEMMA ReadRestartGood ==
  ASSUME NEW x, NEW b, Sound("page", x), Heard(x, b), b.stopped = x.stopped,
         x.reader = "reading", x.received \in 2..(1 + Restarts), x.received = x.sent
  PROVE  Good("page", x, [b EXCEPT !.reader = "describing"])
  <1> DEFINE y == [b EXCEPT !.reader = "describing"]
  <1>1. x \in Side /\ EndFits(x) /\ ChainFits("page", x) /\ IndexFits("page", x) /\ BlameFits(x) /\ b \in Side
        /\ x.phase \in PhasesOf("page") /\ "page" \in Sides
    BY DEF Sound, SideInv, Heard, Sides
  <1>2. y \in Side
    BY <1>1 DEF Side
  <1>3. /\ y.sent = b.sent /\ y.received = b.received /\ y.stopped = b.stopped /\ y.linkEnded = b.linkEnded
        /\ y.chain = b.chain /\ y.carried = b.carried /\ y.exchange = b.exchange /\ y.phase = b.phase /\ y.error = b.error
        /\ y.outcome = b.outcome /\ y.failure = b.failure /\ y.closeSoon = b.closeSoon /\ y.pc = b.pc
        /\ y.chan = b.chan /\ y.watching = b.watching /\ y.everConnected = b.everConnected
        /\ y.used = b.used /\ y.restarting = b.restarting /\ y.reader = "describing"
    BY <1>1 DEF Side
  <1> HIDE DEF y
  <1>4. Moves(x, y) /\ y.phase = x.phase /\ y.pc = x.pc /\ y.watching = x.watching
    BY <1>3 DEF Moves, Heard
  <1>5. IndexFits("page", y)
    BY <1>1, <1>3, LimitsAssumption DEF IndexFits, MostTaken, Heard, Done
  <1>6. Good("page", x, y)
    BY <1>1, <1>2, <1>4, <1>5, MovesGood DEF EndFits, BlameFits
  <1> QED BY <1>6 DEF y

(* Drop hears the answer it waits for.                                     *)
LEMMA ReadAnswerGood ==
  ASSUME NEW x, NEW b, Sound("drop", x), Heard(x, b), b.stopped = x.stopped,
         x.reader = "reading", x.received \in 2..(1 + Restarts)
  PROVE  Good("drop", x, [DropPending(b) EXCEPT !.pc = IF @ = "failed" THEN "connecting" ELSE @])
  <1> DEFINE d == DropPending(b)
             g == IF d.pc = "failed" THEN "connecting" ELSE d.pc
             y == [d EXCEPT !.pc = g]
  <1>1. x \in Side /\ EndFits(x) /\ ChainFits("drop", x) /\ IndexFits("drop", x) /\ BlameFits(x) /\ b \in Side
        /\ x.phase \in PhasesOf("drop") /\ "drop" \in Sides
    BY DEF Sound, SideInv, Heard, Sides
  <1>2. /\ Eases(b, d) /\ d.pc = b.pc /\ d.linkEnded = b.linkEnded /\ d.watching = b.watching
        /\ d.stopped = b.stopped /\ d.sent = b.sent /\ d.chain = b.chain /\ d.carried = b.carried /\ d.reader = b.reader
        /\ d.exchange = b.exchange /\ d.chan = b.chan
        /\ b.restarting = "describing" => d.restarting = "describing"
    BY <1>1, DropPendingEases
  <1> HIDE DEF d
  <1>3. /\ d \in Side /\ d.phase = b.phase /\ d.outcome = b.outcome /\ d.error = b.error
        /\ d.received = b.received /\ d.used = b.used /\ d.everConnected = b.everConnected
        /\ d.failure = b.failure /\ d.closeSoon = b.closeSoon /\ d.restarting \in {b.restarting, "no"}
    BY <1>2 DEF Eases, Frame, PeerFrame
  <1>4. g \in Trying \cup {"none", "failed", "closed"} /\ (g = d.pc \/ (g = "connecting" /\ d.pc = "failed"))
    BY <1>3 DEF Side, Trying
  <1>5. [d EXCEPT !.pc = IF @ = "failed" THEN "connecting" ELSE @] = y OBVIOUS
  <1> HIDE DEF g
  <1>6. y \in Side
    BY <1>3, <1>4 DEF Side
  <1>7. /\ y.sent = d.sent /\ y.received = d.received /\ y.stopped = d.stopped /\ y.linkEnded = d.linkEnded
        /\ y.chain = d.chain /\ y.carried = d.carried /\ y.exchange = d.exchange /\ y.phase = d.phase /\ y.error = d.error
        /\ y.outcome = d.outcome /\ y.failure = d.failure /\ y.closeSoon = d.closeSoon /\ y.pc = g
        /\ y.chan = d.chan /\ y.watching = d.watching /\ y.everConnected = d.everConnected
        /\ y.used = d.used /\ y.restarting = d.restarting /\ y.reader = d.reader
    BY <1>3 DEF Side
  <1> HIDE DEF y
  <1>8. Moves(x, y) /\ y.phase = x.phase /\ y.watching = x.watching
        /\ (y.pc = x.pc \/ (y.pc = "connecting" /\ x.pc = "failed"))
    BY <1>2, <1>3, <1>4, <1>7 DEF Moves, Heard
  <1>9. IndexFits("drop", y)
    <2>1. x.used \in Nat /\ x.sent \in Nat
      BY <1>1 DEF Side
    <2>2. ~y.stopped => y.sent <= MostTaken("drop", y)
      BY <1>1, <1>2, <1>3, <1>7, <2>1 DEF IndexFits, MostTaken, Heard
    <2>3. y.reader # "off" => /\ y.received \in 2..(2 + Restarts)
                              /\ y.phase \in {"connecting", "moving", "aborting"} \cup Done
      BY <1>1, <1>2, <1>3, <1>7, LimitsAssumption DEF IndexFits, Heard
    <2>4. x.phase \in {"connecting", "moving", "aborting"} \cup Done
      BY <1>1 DEF IndexFits
    <2> QED BY <1>8, <2>2, <2>3, <2>4 DEF IndexFits, Done
  <1>10. Good("drop", x, y)
    BY <1>1, <1>6, <1>8, <1>9, MovesGood DEF EndFits, BlameFits
  <1> QED BY <1>5, <1>10 DEF d

LEMMA HeardIs ==
  ASSUME NEW s \in Sides, NEW x, Sound(s, x), Reading(x)
  PROVE  LET y == [x EXCEPT !.received = @ + 1] IN
         /\ Heard(x, y) /\ y.stopped = x.stopped
         /\ Heard(x, [y EXCEPT !.stopped = TRUE])
  <1> DEFINE n == x.received + 1
             y == [x EXCEPT !.received = n]
             z == [y EXCEPT !.stopped = TRUE]
  <1>1. x \in Side /\ n \in 0..Messages /\ n = x.received + 1
    BY WhoReads DEF Sound
  <1> HIDE DEF n
  <1>2. y \in Side /\ y.received = n /\ y.stopped = x.stopped
    BY <1>1 DEF Side
  <1>3. Heard(x, y)
    BY <1>1, <1>2 DEF Side, Heard
  <1>4. z \in Side
    BY <1>2 DEF Side
  <1>5. Heard(x, z)
    BY <1>1, <1>2, <1>4 DEF Side, Heard
  <1> QED BY <1>2, <1>3, <1>5 DEF n

LEMMA ReadGood ==
  ASSUME NEW s \in Sides, NEW x, NEW m \in Message, Sound(s, x), Reading(x)
  PROVE  LET y == [x EXCEPT !.received = @ + 1] IN
         Good(s, x, IF m.event \in AllowedEvents(Other(s), x.received) THEN AfterRead(s, y, m, x.received)
                    ELSE Threw(s, LinkStop(y, "failed"), "protocol"))
  <1> DEFINE y == [x EXCEPT !.received = @ + 1]
             z == [y EXCEPT !.stopped = TRUE]
             e == m.event
  <1>1. Heard(x, y) /\ y.stopped = x.stopped /\ Heard(x, z)
    BY HeardIs
  <1>2. Precedes(x, y) /\ (x.reader = "off" => Loose(s, y) /\ NoWaited(y)) /\ y.sent = x.sent
    BY <1>1, HeardFits DEF Heard
  <1>3. "failed" \in Reasons /\ "protocol" \in Blamed \ {"none", "connect"}
    BY DEF Reasons, Blamed
  <1> HIDE DEF y
  <1>4. s = "page" /\ x.phase \in ReadPhases => x.phase \in {"inviting", "offered"}
    BY WhoReads
  <1>5. s = "page" /\ x.phase \in ReadPhases => "protocol" \in PageFailures(x.phase)
    BY <1>4 DEF PageFailures
  <1>6. /\ Good(s, x, Threw(s, LinkStop(y, "failed"), "protocol"))
        /\ x.reader = "reading" => Good(s, x, Fail(s, LinkStop(y, "failed"), "protocol"))
    BY <1>1, <1>3, <1>5, ThrewGood
  <1>7. ASSUME e \in AllowedEvents(Other(s), x.received) PROVE Good(s, x, AfterRead(s, y, m, x.received))
    <2>1. \/ e = "stop" /\ ~(s = "page" /\ x.phase = "inviting")
          \/ e = "invite" /\ s = "page" /\ x.phase = "inviting" /\ x.received = 0
          \/ e \in {"accept", "decline"} /\ s = "page" /\ x.phase = "offered" /\ x.received = 1
          \/ e = "manifest" /\ s = "drop" /\ x.phase = "invited" /\ x.received = 0
          \/ e = "answer" /\ s = "drop" /\ x.phase = "accepted" /\ x.received = 1
          \/ /\ e = IF s = "page" THEN "restart" ELSE "restart-answer"
             /\ x.reader = "reading" /\ x.received \in 2..(1 + Restarts)
             /\ x.phase \in {"connecting", "moving", "aborting"} \cup Done
      BY <1>7, MayRead
    <2>2. CASE e = "stop" /\ ~(s = "page" /\ x.phase = "inviting")
      <3>1. AfterRead(s, y, m, x.received) = Threw(s, z, PeerStopKind(m))
        BY <2>2 DEF AfterRead
      <3>2. PeerStopKind(m) \in {"peer-cancelled", "peer-failed", "peer-unsupported"}
        BY DEF PeerStopKind
      <3>3. PeerStopKind(m) \in Blamed \ {"none", "connect"}
        BY <3>2 DEF Blamed
      <3>4. s = "page" /\ x.phase \in ReadPhases => PeerStopKind(m) \in PageFailures(x.phase)
        BY <1>4, <2>2, <3>2 DEF PageFailures
      <3> HIDE DEF z
      <3>5. Good(s, x, Threw(s, z, PeerStopKind(m)))
        BY <1>1, <3>3, <3>4, ThrewGood
      <3> QED BY <3>1, <3>5
    <2>3. CASE e = "invite" /\ s = "page" /\ x.phase = "inviting"
      <3>1. AfterRead(s, y, m, x.received) = [y EXCEPT !.phase = "choosing"]
        BY <2>3 DEF AfterRead
      <3> QED BY <1>1, <2>3, <3>1, ReadMovesGood
    <2>4. CASE e = "accept" /\ s = "page" /\ x.phase = "offered"
      <3>1. AfterRead(s, y, m, x.received) = [y EXCEPT !.phase = "preparing"]
        BY <2>4 DEF AfterRead
      <3> QED BY <1>1, <2>4, <3>1, ReadMovesGood
    <2>5. CASE e = "manifest" /\ s = "drop" /\ x.phase = "invited"
      <3>1. AfterRead(s, y, m, x.received) = [y EXCEPT !.phase = "deciding"]
        BY <2>5 DEF AfterRead
      <3> QED BY <1>1, <2>5, <3>1, ReadMovesGood
    <2>6. CASE e = "answer" /\ s = "drop" /\ x.phase = "accepted"
      <3>1. AfterRead(s, y, m, x.received) = [y EXCEPT !.phase = "applying"]
        BY <2>6 DEF AfterRead
      <3> QED BY <1>1, <2>6, <3>1, ReadMovesGood
    <2>7. CASE e = "decline" /\ s = "page" /\ x.phase = "offered"
      <3>1. AfterRead(s, y, m, x.received) = Finished(LinkEnd(y), "declined")
        BY <2>7 DEF AfterRead
      <3>2. x.reader = "off" /\ x.outcome = "none"
        BY <2>7, WhoReads DEF ReadPhases, Done
      <3>3. y.phase = "offered" /\ y.outcome = "none"
        BY <1>1, <2>7, <3>2 DEF Heard
      <3>4. "declined" \in Outcomes \ {"none"} /\ y.phase \notin Done \cup {"moving", "aborting"}
        BY <3>3 DEF Outcomes, Done
      <3> QED BY <1>2, <2>7, <3>1, <3>2, <3>3, <3>4, EndedGood
    <2>8. CASE e = "restart" /\ s = "page" /\ x.reader = "reading" /\ x.received \in 2..(1 + Restarts)
      <3>1. AfterRead(s, y, m, x.received) = IF x.received = y.sent THEN [y EXCEPT !.reader = "describing"]
                                             ELSE Fail(s, LinkStop(y, "failed"), "protocol")
        BY <2>8 DEF AfterRead
      <3> QED BY <1>1, <1>2, <1>6, <2>8, <3>1, ReadRestartGood
    <2>9. CASE e = "restart-answer" /\ s = "drop" /\ x.reader = "reading" /\ x.received \in 2..(1 + Restarts)
      <3>1. AfterRead(s, y, m, x.received) = IF x.received = y.pending
                                             THEN [DropPending(y) EXCEPT !.pc = IF @ = "failed" THEN "connecting" ELSE @]
                                             ELSE Fail(s, LinkStop(y, "failed"), "protocol")
        BY <2>9 DEF AfterRead
      <3> QED BY <1>1, <1>6, <2>9, <3>1, ReadAnswerGood
    <2> QED BY <2>1, <2>2, <2>3, <2>4, <2>5, <2>6, <2>7, <2>8, <2>9 DEF Sides
  <1> QED BY <1>6, <1>7 DEF y

LEMMA CannotUseGood ==
  ASSUME NEW x, Sound("page", x), x.phase = "inviting"
  PROVE  Good("page", x, Caught("page", LinkStop([x EXCEPT !.received = @ + 1], "unsupported"), "unsupported"))
  <1> DEFINE y == [x EXCEPT !.received = @ + 1]
             c == LinkStop(y, "unsupported")
  <1>1. "page" \in Sides /\ Reading(x) /\ "unsupported" \in Reasons /\ "unsupported" \in Failures \ {"none"}
    BY DEF Sides, Reading, ReadPhases, Reasons, Failures
  <1>2. Heard(x, y) /\ y.stopped = x.stopped
    BY <1>1, HeardIs
  <1>3. x.reader = "off" /\ x.outcome = "none"
    BY <1>1, WhoReads DEF ReadPhases, Done
  <1>4. Precedes(x, y) /\ Loose("page", y) /\ NoWaited(y)
    BY <1>1, <1>2, <1>3, HeardFits
  <1>5. y \in Side /\ y.phase = "inviting" /\ y.outcome = "none"
    BY <1>2, <1>3 DEF Heard
  <1> HIDE DEF y
  <1>6. Eases(y, c)
    BY <1>1, <1>5, LinkStopEases
  <1> HIDE DEF c
  <1>7. Frame(y, c) /\ c.phase = y.phase /\ c.outcome = y.outcome
    BY <1>6 DEF Eases
  <1>8. Loose("page", c) /\ NoWaited(c)
    BY <1>1, <1>4, <1>7, LooseKept
  <1>9. Precedes(x, c)
    BY <1>4, <1>7 DEF Precedes, Frame, LinkFrame
  <1>10. Settled(c, "unsupported") \in PageFailures(c.phase)
    BY <1>5, <1>7 DEF Settled, CallPhases, PageFailures
  <1>11. c.phase \notin Done \cup {"moving", "aborting", "connecting"} /\ c.outcome = "none"
    BY <1>5, <1>7 DEF Done
  <1>12. Good("page", x, Caught("page", c, "unsupported"))
    BY <1>1, <1>8, <1>9, <1>10, <1>11, CaughtGood
  <1> QED BY <1>12 DEF c, y

(* The exchange ends under a read.                                         *)
LEMMA ReadFailsGood ==
  ASSUME NEW s \in Sides, NEW x, Sound(s, x), Reading(x)
  PROVE  Good(s, x, IF x.reader # "reading" THEN Caught(s, x, IF x.linkEnded THEN "network" ELSE "expired")
                    ELSE IF s = "page" THEN NoMoreRestarts(x)
                    ELSE DropPending([x EXCEPT !.reader = "off"]))
  <1> DEFINE k == IF x.linkEnded THEN "network" ELSE "expired"
  <1>1. Mostly(s, x) /\ ReasonFits(x) /\ Precedes(x, x) /\ x \in Side
    BY SoundMostly DEF Sound
  <1>2. ASSUME x.reader # "reading" PROVE Good(s, x, Caught(s, x, k))
    <2>1. k \in Failures \ {"none"} /\ k \in {"network", "expired"}
      BY DEF Failures
    <2> HIDE DEF k
    <2>2. CASE s = "page"
      <3>1. x.phase \in {"inviting", "offered"}
        BY <1>2, <2>2, WhoReads DEF Reading
      <3>2. Settled(x, k) \in PageFailures(x.phase)
        BY <2>1, <3>1 DEF Settled, CallPhases, PageFailures
      <3> QED BY <2>1, <2>2, <3>1, <3>2, PageCaughtGood
    <2>3. CASE s = "drop"
      <3>1. x.phase \in {"invited", "accepted"}
        BY <1>2, <2>3, WhoReads DEF Reading
      <3> QED BY <2>1, <2>3, <3>1, DropCaughtGood
    <2> QED BY <2>2, <2>3 DEF Sides
  <1>3. s = "page" => Good(s, x, NoMoreRestarts(x))
    BY <1>1, NoMoreRestartsGood
  <1>4. Good(s, x, DropPending([x EXCEPT !.reader = "off"]))
    <2> DEFINE c == [x EXCEPT !.reader = "off"]
               d == DropPending(c)
    <2>1. Mostly(s, c) /\ Precedes(x, c) /\ ReasonFits(c)
      BY <1>1, OffMostly
    <2>2. c \in Side
      BY <2>1 DEF Mostly
    <2> HIDE DEF c
    <2>3. /\ Eases(c, d) /\ d.pc = c.pc /\ d.linkEnded = c.linkEnded /\ d.stopped = c.stopped
      BY <2>2, DropPendingEases
    <2> HIDE DEF d
    <2>4. ReasonFits(d)
      BY <2>1, <2>3 DEF ReasonFits, Eases, Frame
    <2>5. Good(s, c, d)
      BY <2>1, <2>3, <2>4, EasesGood
    <2> QED BY <2>1, <2>5, GoodFrom DEF c, d
  <1> QED BY <1>2, <1>3, <1>4

(***************************************************************************)
(* A request to the exchange returns                                       *)
(***************************************************************************)

(* The head of the chain has gone, and the rest stays.                     *)
Gone(x, b) ==
  /\ b \in Side /\ b.chain = Tail(x.chain) /\ ~b.carried
  /\ b.sent = x.sent /\ b.received = x.received /\ b.stopped = x.stopped /\ b.linkEnded = x.linkEnded
  /\ b.exchange = x.exchange /\ b.phase = x.phase /\ b.failure = x.failure /\ b.error = x.error
  /\ b.outcome = x.outcome /\ b.reader = x.reader /\ b.closeSoon = x.closeSoon /\ b.pc = x.pc
  /\ b.chan = x.chan /\ b.watching = x.watching /\ b.everConnected = x.everConnected /\ b.used = x.used
  /\ b.restarting = x.restarting /\ b.pending = x.pending

LEMMA GoneIs ==
  ASSUME NEW x \in Side, x.chain # <<>> PROVE Gone(x, FirstGone(x))
  <1> DEFINE t == Tail(x.chain)
             b == [x EXCEPT !.chain = t, !.carried = FALSE]
  <1>1. t \in Seq(Message)
    BY DEF Side
  <1>2. FirstGone(x) = b
    BY DEF FirstGone
  <1> HIDE DEF t
  <1>3. b \in Side /\ b.chain = t /\ ~b.carried
    BY <1>1 DEF Side
  <1>4. Gone(x, b)
    BY <1>3 DEF Gone, Side, t
  <1> QED BY <1>2, <1>4

(* The rest of the chain still fits; a message that was waited for had its *)
(* call waiting.                                                           *)
LEMMA GoneFits ==
  ASSUME NEW s \in Sides, NEW x, NEW b, Sound(s, x), x.chain # <<>>, Gone(x, b)
  PROVE  LET e == Head(x.chain).event IN
         /\ ChainFits(s, b) /\ e \in SendsOf(s) /\ Precedes(x, b)
         /\ e \in Waited => x.phase = OutPhase(e) /\ NoWaited(b)
         /\ e # "stop" => Sound(s, b)
  <1> DEFINE e == Head(x.chain).event
             n == Len(x.chain)
  <1>1. x \in Side /\ ChainFits(s, x) /\ x.chain \in Seq(Message) /\ n \in Nat /\ n > 0
    BY DEF Sound, SideInv, Side
  <1>2. Head(x.chain) = x.chain[1] /\ Len(b.chain) = n - 1 /\ \A i \in 1..(n - 1) : b.chain[i] = x.chain[i + 1]
    BY <1>1 DEF Gone
  <1>3. \A i \in 1..(n - 1) : i + 1 \in 1..n /\ i + 1 # 1
    BY <1>1
  <1>4. 1 \in 1..n /\ b.phase = x.phase
    BY <1>1 DEF Gone
  <1>5. e \in SendsOf(s) /\ (e \in Waited => x.phase = OutPhase(e))
    BY <1>1, <1>2, <1>4 DEF ChainFits
  <1>6. e \in Waited => NoWaited(b)
    BY <1>1, <1>2, <1>3, <1>4 DEF ChainFits, NoWaited
  <1>7. ChainFits(s, b)
    <2>1. \A i \in 1..(n - 1) : /\ b.chain[i].event \in SendsOf(s)
                                /\ b.chain[i].event \in Waited => b.phase = OutPhase(b.chain[i].event)
      BY <1>1, <1>2, <1>3, <1>4 DEF ChainFits
    <2>2. ASSUME NEW i \in 1..(n - 1), NEW j \in 1..(n - 1), b.chain[i].event \in Waited, b.chain[j].event \in Waited
          PROVE  i = j
      <3>1. i + 1 = j + 1
        BY <1>1, <1>2, <1>3, <2>2 DEF ChainFits
      <3> QED BY <1>1, <3>1
    <2>3. ~b.carried
      BY DEF Gone
    <2> QED BY <1>2, <2>1, <2>2, <2>3 DEF ChainFits
  <1>8. Precedes(x, b)
    BY DEF Gone, Precedes
  <1>9. ASSUME e # "stop" PROVE Sound(s, b)
    <2>1. ASSUME StopInChain(x) PROVE StopInChain(b)
      <3>1. PICK i \in 1..n : x.chain[i].event = "stop"
        BY <2>1 DEF StopInChain
      <3>2. i # 1 /\ i - 1 \in 1..(n - 1) /\ (i - 1) + 1 = i
        BY <1>1, <1>2, <1>9, <3>1
      <3>3. b.chain[i - 1].event = "stop"
        BY <1>2, <3>1, <3>2
      <3> QED BY <1>2, <3>2, <3>3 DEF StopInChain
    <2>2. IndexFits(s, x) /\ EndFits(x) /\ BlameFits(x) /\ ReasonFits(x) /\ x.phase \in PhasesOf(s)
      BY DEF Sound, SideInv
    <2>3. IndexFits(s, b)
      BY <2>2 DEF Gone, IndexFits, MostTaken
    <2>4. EndFits(b)
      BY <2>1, <2>2 DEF Gone, EndFits
    <2>5. BlameFits(b) /\ ReasonFits(b) /\ b.phase \in PhasesOf(s) /\ b \in Side
      BY <2>2 DEF Gone, BlameFits, ReasonFits
    <2> QED BY <1>7, <2>3, <2>4, <2>5 DEF Sound, SideInv
  <1> QED BY <1>5, <1>6, <1>7, <1>8, <1>9

(* A stop has gone, or could not go: an ended link closes its exchange.    *)
LEMMA ShutGood ==
  ASSUME NEW s \in Sides, NEW x, NEW b, Sound(s, x), Gone(x, b), ChainFits(s, b)
  PROVE  Good(s, x, Shut(b))
  <1> DEFINE y == Shut(b)
             z == [b EXCEPT !.exchange = "closed"]
  <1>1. IndexFits(s, x) /\ EndFits(x) /\ BlameFits(x) /\ x.phase \in PhasesOf(s) /\ x \in Side /\ b \in Side
    BY DEF Sound, SideInv, Gone
  <1>2. /\ z \in Side /\ z.exchange = "closed"
        /\ z.sent = b.sent /\ z.received = b.received /\ z.stopped = b.stopped /\ z.linkEnded = b.linkEnded
        /\ z.chain = b.chain /\ z.carried = b.carried /\ z.phase = b.phase /\ z.error = b.error
        /\ z.outcome = b.outcome /\ z.failure = b.failure /\ z.closeSoon = b.closeSoon /\ z.pc = b.pc
        /\ z.chan = b.chan /\ z.watching = b.watching /\ z.everConnected = b.everConnected
        /\ z.used = b.used /\ z.restarting = b.restarting /\ z.reader = b.reader
    BY <1>1 DEF Side
  <1>3. y = IF b.linkEnded /\ ~StopInChain(b) /\ b.exchange = "open" THEN z ELSE b
    BY DEF Shut
  <1> HIDE DEF y, z
  <1>4. /\ y \in Side /\ (y.exchange = b.exchange \/ (y.exchange = "closed" /\ y.linkEnded))
        /\ (y.linkEnded /\ y.exchange = "open" => StopInChain(b))
        /\ y.sent = b.sent /\ y.received = b.received /\ y.stopped = b.stopped /\ y.linkEnded = b.linkEnded
        /\ y.chain = b.chain /\ y.carried = b.carried /\ y.phase = b.phase /\ y.error = b.error
        /\ y.outcome = b.outcome /\ y.failure = b.failure /\ y.closeSoon = b.closeSoon /\ y.pc = b.pc
        /\ y.chan = b.chan /\ y.watching = b.watching /\ y.everConnected = b.everConnected
        /\ y.used = b.used /\ y.restarting = b.restarting /\ y.reader = b.reader
    BY <1>1, <1>2, <1>3
  <1>5. ChainFits(s, y) /\ (StopInChain(b) <=> StopInChain(y))
    BY <1>4 DEF ChainFits, StopInChain
  <1>6. LinkFits(y)
    BY <1>1, <1>4, <1>5 DEF LinkFits, Gone, EndFits
  <1>7. IndexFits(s, y)
    BY <1>1, <1>4 DEF IndexFits, MostTaken, Gone
  <1>8. PeerFits(y)
    BY <1>1, <1>4 DEF PeerFits, EndFits, Gone
  <1>9. Turns(x, y)
    BY <1>4 DEF Turns, Gone
  <1>10. /\ y.phase \in PhasesOf(s) /\ (y.phase \in Early => x.phase \in Early /\ y.pc = "none")
         /\ y.phase \in {"answering", "answerOut"} => x.phase \in Early \cup {"answering", "answerOut"}
    BY <1>1, <1>4 DEF BlameFits, Gone
  <1> QED BY <1>4, <1>5, <1>6, <1>7, <1>8, <1>9, <1>10, TurnGood DEF y

(* The call goes on once its message has gone.                             *)
LEMMA WentGood ==
  ASSUME NEW s \in Sides, NEW x, NEW p, NEW r, Sound(s, x), NoWaited(x),
         \/ s = "drop" /\ x.phase = "inviteOut" /\ p = "invited" /\ r = x.reader
         \/ s = "page" /\ x.phase = "manifestOut" /\ p = "offered" /\ r = x.reader
         \/ s = "drop" /\ x.phase = "acceptOut" /\ p = "accepted" /\ r = x.reader
         \/ s = "page" /\ x.phase = "answerOut" /\ p = "connecting" /\ r = "reading"
  PROVE  Good(s, x, [x EXCEPT !.phase = p, !.reader = r])
  <1> DEFINE y == [x EXCEPT !.phase = p, !.reader = r]
  <1>1. x \in Side /\ EndFits(x) /\ IndexFits(s, x) /\ BlameFits(x) /\ x.used \in Nat /\ x.sent \in Nat
    BY DEF Sound, SideInv, Side
  <1>2. p \in Phases /\ p \in PhasesOf(s)
    BY DEF Phases, ReadPhases, CallPhases, PhasesOf
  <1>3. r \in {"off", "reading", "describing", "sending"}
    BY <1>1 DEF Side
  <1> DEFINE z == [x EXCEPT !.reader = r]
  <1>4. z \in Side
    BY <1>1, <1>3 DEF Side
  <1>5. y = [z EXCEPT !.phase = p] /\ y \in Side
    <2>1. y = [z EXCEPT !.phase = p]
      BY <1>1 DEF Side
    <2> HIDE DEF y, z
    <2> QED BY <1>2, <1>4, <2>1, PhaseType
  <1>6. /\ y.sent = x.sent /\ y.received = x.received /\ y.stopped = x.stopped /\ y.linkEnded = x.linkEnded
        /\ y.chain = x.chain /\ y.carried = x.carried /\ y.exchange = x.exchange /\ y.phase = p /\ y.error = x.error
        /\ y.outcome = x.outcome /\ y.failure = x.failure /\ y.closeSoon = x.closeSoon /\ y.pc = x.pc
        /\ y.chan = x.chan /\ y.watching = x.watching /\ y.everConnected = x.everConnected
        /\ y.used = x.used /\ y.restarting = x.restarting /\ y.reader = r
    BY <1>1 DEF Side
  <1> HIDE DEF y, z
  <1>7. Moves(x, y)
    BY <1>6 DEF Moves
  <1>8. x.reader = "off" /\ x.phase \notin Done /\ p \notin Done \cup {"aborting", "moving", "answering", "answerOut"}
    BY <1>1 DEF IndexFits, Done
  <1>9. IndexFits(s, y)
    <2>1. ~y.stopped => y.sent <= MostTaken(s, y)
      <3>1. CASE s = "page"
        BY <1>1, <1>6, <1>8, <3>1, LimitsAssumption DEF IndexFits, MostTaken
      <3>2. CASE s = "drop"
        BY <1>1, <1>6, <1>8, <3>2, LimitsAssumption DEF IndexFits, MostTaken
      <3> QED BY <3>1, <3>2 DEF Sides
    <2>2. y.received = (IF p = "connecting" THEN 2 ELSE IF p = "invited" THEN 0 ELSE 1)
      BY <1>1, <1>6 DEF IndexFits
    <2> QED BY <1>6, <1>8, <2>1, <2>2, LimitsAssumption DEF IndexFits
  <1>10. (y.watching => y.pc # "none" /\ y.phase \notin Done) /\ (y.phase \in Early => x.phase \in Early /\ y.pc = "none")
    BY <1>1, <1>6, <1>8 DEF EndFits, BlameFits, Early
  <1>11. Good(s, x, y)
    BY <1>2, <1>5, <1>6, <1>7, <1>8, <1>9, <1>10, MovesGood
  <1> QED BY <1>11 DEF y

(* answerRestarts goes back to reading.                                    *)
LEMMA ReadsAgainGood ==
  ASSUME NEW x, Sound("page", x), x.reader = "sending"
  PROVE  Good("page", x, [x EXCEPT !.reader = "reading"])
  <1> DEFINE y == [x EXCEPT !.reader = "reading"]
  <1>1. x \in Side /\ EndFits(x) /\ IndexFits("page", x) /\ BlameFits(x) /\ x.phase \in PhasesOf("page") /\ "page" \in Sides
    BY DEF Sound, SideInv, Sides
  <1>2. /\ y \in Side /\ y.phase = x.phase /\ Moves(x, y) /\ y.watching = x.watching /\ y.pc = x.pc
        /\ y.received = x.received /\ y.used = x.used /\ y.restarting = x.restarting /\ y.reader = "reading"
    BY <1>1 DEF Side, Moves
  <1> HIDE DEF y
  <1>3. IndexFits("page", y)
    BY <1>1, <1>2 DEF IndexFits, Moves, MostTaken
  <1>4. Good("page", x, y)
    BY <1>1, <1>2, <1>3, MovesGood DEF EndFits, BlameFits
  <1> QED BY <1>4 DEF y

LEMMA SendSettlesGood ==
  ASSUME NEW s \in Sides, NEW x, Sound(s, x), x.chain # <<>>
  PROVE  Good(s, x, AfterSend(s, FirstGone(x), Head(x.chain).event))
  <1> DEFINE b == FirstGone(x)
             e == Head(x.chain).event
             y == AfterSend(s, b, e)
  <1>1. Gone(x, b)
    BY GoneIs DEF Sound
  <1> HIDE DEF b
  <1>2. /\ ChainFits(s, b) /\ e \in SendsOf(s) /\ Precedes(x, b)
        /\ e \in Waited => b.phase = OutPhase(e) /\ NoWaited(b)
        /\ e # "stop" => Sound(s, b)
    BY <1>1, GoneFits DEF Gone
  <1> HIDE DEF e
  <1>3. e = "stop" => Good(s, x, y)
    BY <1>1, <1>2, ShutGood DEF AfterSend
  <1>4. ASSUME e # "stop" PROVE Good(s, b, y)
    <2>0. Sound(s, b) /\ b \in Side
      BY <1>2, <1>4 DEF Sound
    <2>1. CASE e = "invite"
      <3>1. y = [b EXCEPT !.phase = "invited", !.reader = b.reader]
        BY <1>2, <2>0, <2>1 DEF AfterSend, SendsOf, Waited, OutPhase, Side, Sides
      <3>2. s = "drop" /\ b.phase = "inviteOut" /\ NoWaited(b)
        BY <1>2, <2>0, <2>1 DEF AfterSend, SendsOf, Waited, OutPhase, Side, Sides
      <3> HIDE DEF y
      <3>4. Good(s, b, [b EXCEPT !.phase = "invited", !.reader = b.reader])
        BY <2>0, <3>2, WentGood
      <3> QED BY <3>1, <3>2, <3>4
    <2>2. CASE e = "manifest"
      <3>1. y = [b EXCEPT !.phase = "offered", !.reader = b.reader]
        BY <1>2, <2>0, <2>2 DEF AfterSend, SendsOf, Waited, OutPhase, Side, Sides
      <3>2. s = "page" /\ b.phase = "manifestOut" /\ NoWaited(b)
        BY <1>2, <2>0, <2>2 DEF AfterSend, SendsOf, Waited, OutPhase, Side, Sides
      <3> HIDE DEF y
      <3>4. Good(s, b, [b EXCEPT !.phase = "offered", !.reader = b.reader])
        BY <2>0, <3>2, WentGood
      <3> QED BY <3>1, <3>2, <3>4
    <2>3. CASE e = "accept"
      <3>1. y = [b EXCEPT !.phase = "accepted", !.reader = b.reader]
        BY <1>2, <2>0, <2>3 DEF AfterSend, SendsOf, Waited, OutPhase, Side, Sides
      <3>2. s = "drop" /\ b.phase = "acceptOut" /\ NoWaited(b)
        BY <1>2, <2>0, <2>3 DEF AfterSend, SendsOf, Waited, OutPhase, Side, Sides
      <3> HIDE DEF y
      <3>4. Good(s, b, [b EXCEPT !.phase = "accepted", !.reader = b.reader])
        BY <2>0, <3>2, WentGood
      <3> QED BY <3>1, <3>2, <3>4
    <2>4. CASE e = "answer"
      <3>1. y = [b EXCEPT !.phase = "connecting", !.reader = "reading"]
        BY <1>2, <2>0, <2>4 DEF AfterSend, SendsOf, Waited, OutPhase, Side, Sides
      <3>2. s = "page" /\ b.phase = "answerOut" /\ NoWaited(b)
        BY <1>2, <2>0, <2>4 DEF AfterSend, SendsOf, Waited, OutPhase, Side, Sides
      <3> HIDE DEF y
      <3>4. Good(s, b, [b EXCEPT !.phase = "connecting", !.reader = "reading"])
        BY <2>0, <3>2, WentGood
      <3> QED BY <3>1, <3>2, <3>4
    <2>5. CASE e = "decline"
      <3>1. y = Finished(LinkEnd(b), "declined") /\ s = "drop" /\ b.phase = "declineOut" /\ NoWaited(b)
        BY <1>2, <2>5 DEF AfterSend, SendsOf, Waited, OutPhase, Sides
      <3>2. Loose(s, b) /\ Precedes(b, b) /\ EndFits(b)
        BY <2>0, SoundMostly, MostlyLoose DEF Mostly
      <3>3. b.phase \notin Done \cup {"moving", "aborting"} /\ b.outcome = "none" /\ "declined" \in Outcomes \ {"none"}
        BY <3>1, <3>2 DEF EndFits, Done, Outcomes
      <3> QED BY <3>1, <3>2, <3>3, EndedGood
    <2>6. CASE e = "restart"
      <3> DEFINE q == IF b.pending = None THEN "no" ELSE "waiting"
      <3>1. y = [b EXCEPT !.pending = b.pending, !.restarting = q]
        BY <1>2, <2>0, <2>6 DEF AfterSend, SendsOf, Side, Sides
      <3>2. s = "drop" /\ b.pending \in -1..Messages
        BY <1>2, <2>0, <2>6 DEF AfterSend, SendsOf, Side, Sides
      <3>3. q \in {"no", "waiting"} OBVIOUS
      <3> HIDE DEF q
      <3> HIDE DEF y
      <3>4. Good("drop", b, [b EXCEPT !.pending = b.pending, !.restarting = q])
        BY <2>0, <3>2, <3>3, RestartingGood
      <3> QED BY <3>1, <3>2, <3>4
    <2>7. CASE e = "restart-answer"
      <3>1. y = (IF b.reader = "sending" THEN [b EXCEPT !.reader = "reading"] ELSE b) /\ s = "page"
        BY <1>2, <2>7 DEF AfterSend, SendsOf, Sides
      <3>2. Good(s, b, b)
        BY <2>0, SoundMostly, SelfGood
      <3> QED BY <2>0, <3>1, <3>2, ReadsAgainGood
    <2> QED BY <1>2, <1>4, <2>1, <2>2, <2>3, <2>4, <2>5, <2>6, <2>7 DEF SendsOf
  <1> HIDE DEF y
  <1>5. Good(s, x, y)
    BY <1>2, <1>3, <1>4, GoodFrom
  <1> QED BY <1>5 DEF y, b, e

LEMMA SendFailsGood ==
  ASSUME NEW s \in Sides, NEW x, NEW kind, Sound(s, x), x.chain # <<>>, x.exchange # "open",
         kind = IF x.exchange = "closed" THEN "cancelled" ELSE "expired"
  PROVE  Good(s, x, AfterFailedSend(s, FirstGone(x), Head(x.chain).event, kind))
  <1> DEFINE b == FirstGone(x)
             e == Head(x.chain).event
             y == AfterFailedSend(s, b, e, kind)
  <1>1. Gone(x, b)
    BY GoneIs DEF Sound
  <1> HIDE DEF b
  <1>2. /\ ChainFits(s, b) /\ e \in SendsOf(s) /\ Precedes(x, b)
        /\ e \in Waited => b.phase = OutPhase(e) /\ NoWaited(b)
        /\ e # "stop" => Sound(s, b)
    BY <1>1, GoneFits DEF Gone
  <1>2a. kind \in {"cancelled", "expired"} /\ (kind = "cancelled" => b.exchange = "closed")
    BY <1>1 DEF Gone
  <1> HIDE DEF e
  <1>3. e = "stop" => Good(s, x, y)
    BY <1>1, <1>2, ShutGood DEF AfterFailedSend
  <1>4. ASSUME e # "stop" PROVE Good(s, b, y)
    <2>0. Sound(s, b) /\ b \in Side /\ Mostly(s, b) /\ Loose(s, b) /\ Precedes(b, b) /\ EndFits(b) /\ ReasonFits(b)
          /\ BlameFits(b)
      BY <1>2, <1>4, SoundMostly, MostlyLoose DEF Sound, Mostly
    <2>1. CASE e \in {"invite", "manifest", "accept", "answer"}
      <3>1. y = Caught(s, b, kind) /\ b.phase = OutPhase(e) /\ NoWaited(b)
        BY <1>2, <2>1 DEF AfterFailedSend, Waited
      <3>2. b.phase \in {"inviteOut", "manifestOut", "acceptOut", "answerOut"}
            /\ (s = "page" => b.phase \in {"manifestOut", "answerOut"})
        BY <1>2, <2>1, <3>1 DEF OutPhase, SendsOf
      <3>3. b.phase \notin Done /\ b.outcome = "none"
        BY <2>0, <3>2 DEF EndFits, Done
      <3>4. kind = "cancelled" => b.failure # "none"
        BY <1>2a, <2>0, <3>3 DEF EndFits, ReasonFits
      <3>5. s = "page" /\ b.failure # "cancelled" => Settled(b, kind) \in PageFailures(b.phase)
        <4>1. CASE b.phase = "manifestOut"
          BY <1>2a, <2>0, <3>4, <4>1 DEF BlameFits, Early, Settled, CallPhases, PageFailures
        <4>2. CASE b.phase = "answerOut"
          BY <1>2a, <2>0, <3>4, <4>2 DEF BlameFits, Settled, CallPhases, PageFailures
        <4> QED BY <3>2, <4>1, <4>2
      <3>6. kind \in Failures \ {"none"}
        BY <1>2a DEF Failures
      <3>7. b.phase \notin {"connecting", "moving", "aborting"}
        BY <3>2
      <3> QED BY <2>0, <3>1, <3>3, <3>5, <3>6, <3>7, CaughtGood
    <2>2. CASE e = "decline"
      <3>1. y = Finished(LinkEnd(b), kind) /\ s = "drop" /\ b.phase = "declineOut" /\ NoWaited(b)
        BY <1>2, <2>2 DEF AfterFailedSend, SendsOf, Waited, OutPhase, Sides
      <3>2. b.phase \notin Done \cup {"moving", "aborting"} /\ b.outcome = "none" /\ kind \in Outcomes \ {"none"}
        BY <1>2a, <2>0, <3>1 DEF EndFits, Done, Outcomes, Failures
      <3> QED BY <2>0, <3>1, <3>2, EndedGood
    <2>3. CASE e = "restart"
      <3>1. y = [b EXCEPT !.pending = b.pending, !.restarting = "no"]
        BY <1>2, <2>0, <2>3 DEF AfterFailedSend, SendsOf, Side, Sides
      <3>2. s = "drop" /\ b.pending \in -1..Messages
        BY <1>2, <2>0, <2>3 DEF AfterFailedSend, SendsOf, Side, Sides
      <3> HIDE DEF y
      <3>4. Good("drop", b, [b EXCEPT !.pending = b.pending, !.restarting = "no"])
        BY <2>0, <3>2, RestartingGood
      <3> QED BY <3>1, <3>2, <3>4
    <2>4. CASE e = "restart-answer"
      <3>1. s = "page" /\ y = (IF b.reader # "sending" THEN b
                               ELSE IF kind = "cancelled" THEN Fail(s, b, kind) ELSE NoMoreRestarts(b))
        BY <1>2, <2>4 DEF AfterFailedSend, SendsOf, Sides
      <3>2. Good(s, b, b)
        BY <2>0, SelfGood
      <3>3. Good(s, b, NoMoreRestarts(b))
        BY <2>0, <3>1, NoMoreRestartsGood
      <3>4. ASSUME kind = "cancelled", b.reader = "sending" PROVE Good(s, b, Fail(s, b, kind))
        <4>1. Mostly(s, [b EXCEPT !.reader = "off"])
          BY <2>0, OffMostly
        <4>2. kind \in Blamed \ {"none", "connect"}
          BY <3>4 DEF Blamed
        <4>3. b.phase \in {"connecting", "moving", "aborting"} \cup Done
          BY <2>0, <3>4 DEF Mostly, IndexFits
        <4>4. b.phase \notin Done /\ b.failure = "connect" => ~b.everConnected /\ b.pc = "closed"
          BY <2>0 DEF ReasonFits
        <4> QED BY <2>0, <4>1, <4>2, <4>3, <4>4, FailGood
      <3> QED BY <3>1, <3>2, <3>3, <3>4
    <2> QED BY <1>2, <1>4, <2>1, <2>2, <2>3, <2>4 DEF SendsOf
  <1> HIDE DEF y
  <1>5. Good(s, x, y)
    BY <1>2, <1>3, <1>4, GoodFrom
  <1> QED BY <1>5 DEF y, b, e

(***************************************************************************)
(* Clocks, transfers and stops                                             *)
(***************************************************************************)

LEMMA WatchGood ==
  ASSUME NEW s \in Sides, NEW x, Sound(s, x) PROVE Good(s, x, GiveUp(s, [x EXCEPT !.connectTimer = FALSE]))
  <1> DEFINE b == [x EXCEPT !.connectTimer = FALSE]
  <1>1. x \in Side /\ EndFits(x)
    BY DEF Sound, SideInv
  <1>2. b \in Side /\ Same(x, b) /\ b.exchange = x.exchange /\ b.pc = x.pc /\ b.chan = x.chan /\ b.everConnected = x.everConnected
    BY <1>1 DEF Side, Same
  <1> HIDE DEF b
  <1>3. Good(s, x, b)
    BY <1>1, <1>2, SameGood DEF EndFits
  <1>4. Mostly(s, b) /\ ReasonFits(b)
    BY <1>3, SoundMostly DEF Good, Sound
  <1>5. Precedes(x, b)
    BY <1>2 DEF Precedes, Same
  <1>6. Good(s, x, GiveUp(s, b))
    BY <1>4, <1>5, GiveUpGood
  <1> QED BY <1>6 DEF b

(* The transfer, or the channel under it, ends a call.                     *)
LEMMA TransferEndsGood ==
  ASSUME NEW s \in Sides, NEW x, NEW e \in Failures \ {"none", "expired", "network"}, Sound(s, x),
         x.phase \in {"connecting", "moving"},
         s = "page" => e \in PageFailures(x.phase)
  PROVE  Good(s, x, Caught(s, x, e))
  <1>1. /\ Mostly(s, x) /\ Loose(s, x) /\ Precedes(x, x) /\ ReasonFits(x) /\ EndFits(x) /\ ChainFits(s, x)
        /\ BlameFits(x)
    BY SoundMostly, MostlyLoose DEF Mostly
  <1>2. NoWaited(x)
    BY <1>1, NoneWaited
  <1>3. x.phase \notin Done /\ x.outcome = "none" /\ x.phase # "aborting"
    BY <1>1 DEF EndFits, Done
  <1>4. x.failure \notin {"none", "cancelled"} => Settled(x, e) \in PageFailures(x.phase)
    BY <1>1, <1>3, RecordedShown DEF BlameFits, EndFits, ReasonFits
  <1>5. x.failure = "none" => Settled(x, e) = e
    BY DEF Settled
  <1>6. s = "page" /\ x.failure # "cancelled" => Settled(x, e) \in PageFailures(x.phase)
    BY <1>4, <1>5
  <1>7. e \in Failures \ {"none"} /\ e \notin {"expired", "network"} OBVIOUS
  <1> QED BY <1>1, <1>2, <1>3, <1>6, <1>7, CaughtGood

(* The file is kept, or the page hears that it was.                        *)
LEMMA ArrivedGood ==
  ASSUME NEW s \in Sides, NEW x, NEW o \in {"arrived", "kept"}, Sound(s, x), x.phase = "moving",
         s = "page" => o = "arrived"
  PROVE  Good(s, x, Finished(x, o))
  <1>1. Loose(s, x) /\ Precedes(x, x) /\ EndFits(x) /\ ChainFits(s, x)
    BY SoundMostly, MostlyLoose DEF Mostly
  <1>2. NoWaited(x)
    BY <1>1, NoneWaited
  <1>3. x.phase \notin Done /\ x.outcome = "none" /\ o \in Outcomes \ {"none"} /\ o \notin {"expired", "network"}
    BY <1>1 DEF EndFits, Done, Outcomes
  <1> QED BY <1>1, <1>2, <1>3, FinishedGood

LEMMA AbortedGood ==
  ASSUME NEW x, Sound("drop", x), x.phase = "aborting"
  PROVE  Good("drop", x, Rejected("drop", [x EXCEPT !.error = "none"], x.error))
  <1> DEFINE b == [x EXCEPT !.error = "none"]
             y == Rejected("drop", b, x.error)
  <1>1. Loose("drop", x) /\ EndFits(x) /\ ChainFits("drop", x) /\ BlameFits(x) /\ x \in Side /\ "drop" \in Sides
    BY SoundMostly, MostlyLoose DEF Mostly, Sides
  <1>2. NoWaited(x) /\ x.outcome = "none" /\ x.phase \notin Done
    BY <1>1, NoneWaited DEF EndFits, Done
  <1>3. x.error \in Failures \ {"none"} /\ x.error \notin {"expired", "network"}
    BY <1>1 DEF BlameFits, Side
  <1>4. "none" \in Failures
    BY DEF Failures
  <1>5. b \in Side
    BY <1>1, <1>4 DEF Side
  <1>6. /\ b.sent = x.sent /\ b.received = x.received /\ b.stopped = x.stopped /\ b.linkEnded = x.linkEnded
        /\ b.chain = x.chain /\ b.carried = x.carried /\ b.exchange = x.exchange /\ b.phase = x.phase /\ b.failure = x.failure
        /\ b.outcome = x.outcome /\ b.reader = x.reader /\ b.pc = x.pc /\ b.chan = x.chan
        /\ b.watching = x.watching /\ b.everConnected = x.everConnected /\ b.used = x.used
        /\ b.restarting = x.restarting
    BY <1>1 DEF Side
  <1> HIDE DEF b
  <1>7. ChainFits("drop", b) /\ NoWaited(b) /\ (StopInChain(b) <=> StopInChain(x))
    BY <1>1, <1>2, <1>6 DEF ChainFits, NoWaited, StopInChain
  <1>8. MostTaken("drop", b) = MostTaken("drop", x)
    BY <1>6 DEF MostTaken
  <1>9. Loose("drop", b)
    BY <1>1, <1>5, <1>6, <1>7, <1>8 DEF Loose
  <1>10. Ends("drop", b, y, x.error) /\ y.phase = "closing"
    BY <1>1, <1>3, <1>5, RejectedEnds
  <1> HIDE DEF y
  <1>11. Good("drop", b, y)
    BY <1>1, <1>2, <1>3, <1>6, <1>7, <1>9, <1>10, EndsGood
  <1>12. Precedes(x, b)
    BY <1>6 DEF Precedes
  <1>13. Good("drop", x, y)
    BY <1>1, <1>11, <1>12, GoodFrom
  <1> QED BY <1>13 DEF y, b

(* The settled call's close().                                             *)
LEMMA CloseNowGood ==
  ASSUME NEW s \in Sides, NEW x, Sound(s, x), x.phase = "closing"
  PROVE  Good(s, x, Close([x EXCEPT !.phase = "ended"]))
  <1> DEFINE b == [x EXCEPT !.phase = "ended"]
             y == Close(b)
  <1>1. Loose(s, x) /\ EndFits(x) /\ ChainFits(s, x) /\ BlameFits(x) /\ x \in Side /\ IndexFits(s, x)
    BY SoundMostly, MostlyLoose DEF Mostly
  <1>2. NoWaited(x) /\ x.outcome # "none" /\ ~x.watching
    BY <1>1, NoneWaited DEF EndFits, Done
  <1>3. "ended" \in Phases /\ "ended" \in PhasesOf(s)
    BY DEF Phases, PhasesOf
  <1>4. b \in Side
    BY <1>1, <1>3, PhaseType
  <1>5. /\ b.sent = x.sent /\ b.received = x.received /\ b.stopped = x.stopped /\ b.linkEnded = x.linkEnded
        /\ b.chain = x.chain /\ b.carried = x.carried /\ b.exchange = x.exchange /\ b.phase = "ended" /\ b.failure = x.failure
        /\ b.outcome = x.outcome /\ b.reader = x.reader /\ b.pc = x.pc /\ b.chan = x.chan
        /\ b.watching = x.watching /\ b.everConnected = x.everConnected /\ b.used = x.used
        /\ b.restarting = x.restarting
    BY <1>1 DEF Side
  <1> HIDE DEF b
  <1>6. ChainFits(s, b) /\ NoWaited(b) /\ (StopInChain(b) <=> StopInChain(x))
    BY <1>1, <1>2, <1>5 DEF ChainFits, NoWaited, StopInChain
  <1>7. MostTaken(s, b) = MostTaken(s, x)
    BY <1>5 DEF MostTaken
  <1>8. Loose(s, b)
    BY <1>1, <1>3, <1>4, <1>5, <1>6, <1>7 DEF Loose, Done
  <1>9. Eases(b, y) /\ y.pc \in {"none", "closed"} /\ y.linkEnded /\ y.watching = b.watching
        /\ y.stopped = b.stopped /\ y.sent = b.sent
    BY <1>4, CloseEases
  <1> HIDE DEF y
  <1>10. Frame(b, y) /\ y.phase = "ended" /\ y.outcome = x.outcome /\ y.failure = x.failure /\ y \in Side
    BY <1>5, <1>9 DEF Eases, Frame
  <1>11. Loose(s, y)
    BY <1>5, <1>8, <1>10, LooseKept
  <1>12. EndFits(y)
    BY <1>2, <1>5, <1>9, <1>10, <1>11 DEF EndFits, Loose, Done
  <1>13. BlameFits(y) /\ ReasonFits(y)
    BY <1>10, <1>11 DEF BlameFits, ReasonFits, Loose, Early, Done
  <1>14. IndexFits(s, y)
    BY <1>10, <1>11 DEF IndexFits, Loose
  <1>15. Quiet(x, y) /\ Harmless(x, y) /\ Shown(s, x, y)
    BY <1>2, <1>5, <1>9 DEF Quiet, Harmless, Shown
  <1>16. Good(s, x, y)
    BY <1>10, <1>11, <1>12, <1>13, <1>14, <1>15 DEF Good, SideInv, Loose
  <1> QED BY <1>16 DEF y, b

(* A deliberate stop closes late.                                          *)
LEMMA LateCloseGood ==
  ASSUME NEW s \in Sides, NEW x, Sound(s, x), x.closeSoon
  PROVE  Good(s, x, Close([x EXCEPT !.closeSoon = FALSE]))
  <1> DEFINE b == [x EXCEPT !.closeSoon = FALSE]
             y == Close(b)
  <1>1. x \in Side /\ EndFits(x) /\ ChainFits(s, x) /\ BlameFits(x) /\ IndexFits(s, x) /\ ReasonFits(x) /\ x.phase \in PhasesOf(s)
    BY DEF Sound, SideInv
  <1>2. /\ b \in Side
        /\ b.sent = x.sent /\ b.received = x.received /\ b.stopped = x.stopped /\ b.linkEnded = x.linkEnded
        /\ b.chain = x.chain /\ b.carried = x.carried /\ b.exchange = x.exchange /\ b.phase = x.phase /\ b.failure = x.failure
        /\ b.outcome = x.outcome /\ b.reader = x.reader /\ b.pc = x.pc /\ b.chan = x.chan
        /\ b.watching = x.watching /\ b.everConnected = x.everConnected /\ b.used = x.used
        /\ b.restarting = x.restarting /\ b.error = x.error
    BY <1>1 DEF Side
  <1> HIDE DEF b
  <1>3. ChainFits(s, b) /\ (StopInChain(b) <=> StopInChain(x))
    BY <1>1, <1>2 DEF ChainFits, StopInChain
  <1>4. Mostly(s, b)
    <2>1. IndexFits(s, b)
      BY <1>1, <1>2 DEF IndexFits, MostTaken
    <2>2. EndFits(b)
      BY <1>1, <1>2, <1>3 DEF EndFits
    <2>3. BlameFits(b)
      BY <1>1, <1>2 DEF BlameFits
    <2> QED BY <1>1, <1>2, <1>3, <2>1, <2>2, <2>3 DEF Mostly
  <1>5. Eases(b, y) /\ y.pc \in {"none", "closed"}
    BY <1>2, CloseEases
  <1> HIDE DEF y
  <1>6. ReasonFits(y)
    <2>1. CASE x.phase \in Done
      BY <1>2, <1>5, <2>1 DEF Eases, ReasonFits
    <2>2. CASE x.phase \notin Done
      BY <1>1, <1>2, <1>5, <2>2, Reasoned DEF Eases, ReasonFits
    <2> QED BY <2>1, <2>2
  <1>7. Good(s, b, y)
    BY <1>4, <1>5, <1>6, EasesGood
  <1>8. Precedes(x, b)
    BY <1>2 DEF Precedes
  <1> QED BY <1>7, <1>8, GoodFrom DEF y, b

(* What no part of the invariant looks at.                                 *)
Alike(x, y) ==
  /\ y \in Side
  /\ y.sent = x.sent /\ y.received = x.received /\ y.stopped = x.stopped /\ y.linkEnded = x.linkEnded
  /\ y.chain = x.chain /\ y.carried = x.carried /\ y.exchange = x.exchange /\ y.phase = x.phase /\ y.failure = x.failure
  /\ y.error = x.error /\ y.outcome = x.outcome /\ y.reader = x.reader /\ y.pc = x.pc /\ y.chan = x.chan
  /\ y.watching = x.watching /\ y.everConnected = x.everConnected /\ y.used = x.used
  /\ y.restarting = x.restarting

LEMMA AlikeMostly ==
  ASSUME NEW s \in Sides, NEW x, NEW y, Mostly(s, x), Alike(x, y) PROVE Mostly(s, y) /\ Precedes(x, y)
  <1>1. ChainFits(s, y) /\ (StopInChain(y) <=> StopInChain(x))
    BY DEF ChainFits, StopInChain, Alike, Mostly
  <1>2. IndexFits(s, y)
    BY DEF IndexFits, MostTaken, Alike, Mostly
  <1>3. EndFits(y)
    BY <1>1 DEF EndFits, Alike, Mostly
  <1>4. BlameFits(y) /\ Precedes(x, y)
    BY DEF BlameFits, Alike, Mostly, Precedes
  <1> QED BY <1>1, <1>2, <1>3, <1>4 DEF Alike, Mostly

(* What stop() has done before the call hears of it.                       *)
LEMMA ToldFits ==
  ASSUME NEW s \in Sides, NEW x, NEW now \in BOOLEAN, Sound(s, x)
  PROVE  LET told == LinkStop([Blame(x, "cancelled") EXCEPT !.asked = TRUE], "cancelled")
             shut == IF now THEN Close(told) ELSE [told EXCEPT !.closeSoon = TRUE] IN
         /\ Mostly(s, shut) /\ ReasonFits(shut) /\ Precedes(x, shut) /\ shut.failure # "none"
         /\ shut.phase = x.phase
  <1> DEFINE b == Blame(x, "cancelled")
             a == [b EXCEPT !.asked = TRUE]
             told == LinkStop(a, "cancelled")
             late == [told EXCEPT !.closeSoon = TRUE]
             soon == Close(told)
             shut == IF now THEN soon ELSE late
  <1>1. Mostly(s, x) /\ ReasonFits(x) /\ x \in Side
    BY SoundMostly DEF Sound
  <1>2. "cancelled" \in Blamed \ {"none"} /\ "cancelled" \in Failures /\ "cancelled" \in Reasons
    BY DEF Blamed, Failures, Reasons
  <1>3. /\ Mostly(s, b) /\ Precedes(x, b) /\ b.failure # "none"
        /\ \A f \in DOMAIN x \ {"failure"} : b[f] = x[f]
    BY <1>1, <1>2, BlameGood
  <1>4. b.failure = (IF x.failure = "none" THEN "cancelled" ELSE x.failure) /\ b \in Side
    BY <1>1, <1>2, BlameDoes
  <1>5. b.phase = x.phase /\ b.pc = x.pc /\ b.everConnected = x.everConnected
    BY <1>1, <1>3 DEF Side
  <1> HIDE DEF b
  <1>6. Alike(b, a) /\ a \in Side
    BY <1>4 DEF Side, Alike
  <1>7. Mostly(s, a) /\ Precedes(b, a)
    BY <1>3, <1>6, AlikeMostly
  <1> HIDE DEF a
  <1>8. Eases(a, told)
    BY <1>2, <1>6, LinkStopEases
  <1> HIDE DEF told
  <1>9. Mostly(s, told) /\ told \in Side
    BY <1>7, <1>8, EasesKeeps DEF Mostly
  <1>10. Alike(told, late)
    BY <1>9 DEF Side, Alike
  <1>11. Eases(told, soon)
    BY <1>9, CloseEases
  <1> HIDE DEF late, soon
  <1>12. Mostly(s, late) /\ Mostly(s, soon)
    BY <1>9, <1>10, <1>11, AlikeMostly, EasesKeeps
  <1>13. /\ told.phase = x.phase /\ told.failure = b.failure /\ told.everConnected = x.everConnected
         /\ (told.pc = x.pc \/ told.pc = "closed") /\ told.outcome = x.outcome
         /\ x.stopped => told.stopped /\ told.sent = x.sent
    BY <1>3, <1>5, <1>6, <1>8 DEF Alike, Eases, Frame, PeerFrame, LinkFrame, Precedes
  <1>14. /\ shut.phase = x.phase /\ shut.failure = b.failure /\ shut.everConnected = x.everConnected
         /\ (shut.pc = x.pc \/ shut.pc = "closed") /\ shut.outcome = x.outcome
         /\ x.stopped => shut.stopped /\ shut.sent = x.sent
    <2>1. CASE now
      BY <1>11, <1>13, <2>1 DEF Eases, Frame, PeerFrame, LinkFrame
    <2>2. CASE ~now
      BY <1>10, <1>13, <2>2 DEF Alike
    <2> QED BY <2>1, <2>2
  <1>15. Mostly(s, shut)
    BY <1>12
  <1>16. shut = (IF now THEN Close(told) ELSE [told EXCEPT !.closeSoon = TRUE])
    BY DEF late, soon
  <1> HIDE DEF shut
  <1>17. ReasonFits(shut)
    BY <1>1, <1>3, <1>4, <1>14 DEF ReasonFits
  <1>18. Precedes(x, shut)
    BY <1>14 DEF Precedes
  <1>19. shut.failure # "none" /\ shut.phase = x.phase
    BY <1>3, <1>14
  <1> QED BY <1>15, <1>16, <1>17, <1>18, <1>19 DEF told, a, b

LEMMA StopGood ==
  ASSUME NEW s \in Sides, NEW x, NEW now \in BOOLEAN, Sound(s, x)
  PROVE  LET told == LinkStop([Blame(x, "cancelled") EXCEPT !.asked = TRUE], "cancelled")
             shut == IF now THEN Close(told) ELSE [told EXCEPT !.closeSoon = TRUE] IN
         Good(s, x, IF x.phase = "moving" THEN Caught(s, shut, "cancelled")
                    ELSE IF x.phase \in Idle THEN Finished(shut, "cancelled") ELSE shut)
  <1> DEFINE told == LinkStop([Blame(x, "cancelled") EXCEPT !.asked = TRUE], "cancelled")
             shut == IF now THEN Close(told) ELSE [told EXCEPT !.closeSoon = TRUE]
  <1>1. /\ Mostly(s, shut) /\ ReasonFits(shut) /\ Precedes(x, shut) /\ shut.failure # "none"
        /\ shut.phase = x.phase
    BY ToldFits
  <1> HIDE DEF shut
  <1>2. Loose(s, shut) /\ EndFits(shut) /\ ChainFits(s, shut) /\ BlameFits(shut)
    BY <1>1, MostlyLoose DEF Mostly
  <1>3. "cancelled" \in Failures \ {"none"} /\ "cancelled" \in Outcomes \ {"none"}
    BY DEF Failures, Outcomes
  <1>4. ASSUME x.phase = "moving" PROVE Good(s, x, Caught(s, shut, "cancelled"))
    <2>1. NoWaited(shut) /\ shut.phase \notin Done /\ shut.outcome = "none" /\ shut.everConnected
      BY <1>1, <1>2, <1>4, NoneWaited DEF EndFits, Done
    <2>2. shut.failure # "cancelled" => Settled(shut, "cancelled") \in PageFailures(shut.phase)
      BY <1>1, <1>2, <1>4, <2>1, RecordedShown DEF BlameFits, ReasonFits
    <2>3. shut.phase # "aborting"
      BY <1>1, <1>4
    <2> QED BY <1>1, <1>2, <1>3, <2>1, <2>2, <2>3, CaughtGood
  <1>5. ASSUME x.phase \in Idle PROVE Good(s, x, Finished(shut, "cancelled"))
    <2>1. NoWaited(shut)
      BY <1>1, <1>2, <1>5, NoneWaited DEF Idle
    <2>2. shut.phase \notin Done /\ shut.outcome = "none" /\ shut.phase \notin {"moving", "aborting"}
      BY <1>1, <1>2, <1>5 DEF EndFits, Done, Idle
    <2>3. shut.failure = "cancelled"
      BY <1>1, <1>2, <1>5 DEF BlameFits, Early, Idle
    <2> QED BY <1>1, <1>2, <1>3, <2>1, <2>2, <2>3, FinishedGood
  <1>6. Good(s, x, shut)
    BY <1>1, SelfGood
  <1> QED BY <1>4, <1>5, <1>6 DEF shut

(***************************************************************************)
(* Both ends                                                               *)
(***************************************************************************)

Core == TypeOK /\ \A s \in Sides : SideInv(s, side[s])

(* What every step shows of the two ends.                                  *)
Kept ==
  /\ side' \in [Sides -> Side]
  /\ \A r \in Sides : /\ SideInv(r, side'[r])
                      /\ Quiet(side[r], side'[r]) /\ Harmless(side[r], side'[r]) /\ Shown(r, side[r], side'[r])

(* And of what is between them.                                            *)
Between ==
  /\ mail' \in [Sides -> Seq(Message)]
  /\ stopFrame' \in [Sides -> {"none", "peer-cancelled", "peer-failed", "peer-storage"}]
  /\ endOut' \in BOOLEAN /\ keptOut' \in BOOLEAN /\ faults' \in 0..Faults

LEMMA Sides2 == Core => /\ Sound("page", side["page"]) /\ Sound("drop", side["drop"])
                        /\ "page" \in Sides /\ "drop" \in Sides
                        /\ \A s \in Sides : Sound(s, side[s]) /\ Other(s) \in Sides
  BY DEF Core, TypeOK, Sides, Sound, Other

LEMMA StaysGood ==
  ASSUME NEW s \in Sides, NEW x, Sound(s, x)
  PROVE  SideInv(s, x) /\ Quiet(x, x) /\ Harmless(x, x) /\ Shown(s, x, x)
  BY DEF Sound, SideInv, EndFits, Quiet, Harmless, Shown, Done

LEMMA PutKept ==
  ASSUME Core, NEW s \in Sides, NEW y, Put(s, y), Good(s, side[s], y) PROVE Kept
  <1>1. side \in [Sides -> Side] /\ y \in Side /\ side' = [side EXCEPT ![s] = y]
    BY DEF Core, TypeOK, Good, Put
  <1>2. side' \in [Sides -> Side] /\ side'[s] = y /\ \A r \in Sides : r # s => side'[r] = side[r]
    BY <1>1
  <1>3. ASSUME NEW r \in Sides
        PROVE  /\ SideInv(r, side'[r])
               /\ Quiet(side[r], side'[r]) /\ Harmless(side[r], side'[r]) /\ Shown(r, side[r], side'[r])
    <2>1. CASE r = s
      BY <1>2, <2>1 DEF Good
    <2>2. CASE r # s
      BY <1>2, <2>2, Sides2, StaysGood
    <2> QED BY <2>1, <2>2
  <1> QED BY <1>2, <1>3 DEF Kept

LEMMA StillKept == ASSUME Core, side' = side PROVE Kept
  BY Sides2, StaysGood DEF Kept, Core, TypeOK

LEMMA StillBetween ==
  ASSUME Core, UNCHANGED <<mail, endOut, keptOut, stopFrame, faults>> PROVE Between
  BY DEF Core, TypeOK, Between

LEMMA FaultType == Core /\ (Fault \/ UNCHANGED faults) => faults' \in 0..Faults
  BY LimitsAssumption DEF Core, TypeOK, Fault

(* The exchange.                                                           *)
LEMMA CarryStep == ASSUME Core, NEW s \in Sides, Carry(s) PROVE Kept /\ Between
  <1> DEFINE x == side[s]
  <1>1. x.chain # <<>> /\ Put(s, [x EXCEPT !.carried = TRUE])
    BY DEF Carry
  <1>2. Good(s, x, [x EXCEPT !.carried = TRUE])
    BY <1>1, Sides2, CarryGood
  <1>3. Kept
    BY <1>1, <1>2, PutKept
  <1>4. x \in Side /\ mail \in [Sides -> Seq(Message)]
    BY DEF Core, TypeOK
  <1>5. x.chain \in Seq(Message) /\ Head(x.chain) \in Message
    BY <1>1, <1>4 DEF Side
  <1>6. Append(mail[s], Head(x.chain)) \in Seq(Message)
    BY <1>4, <1>5
  <1>7. mail' = [mail EXCEPT ![s] = Append(mail[s], Head(x.chain))] /\ UNCHANGED <<endOut, keptOut, stopFrame, faults>>
    BY DEF Carry
  <1>8. mail' \in [Sides -> Seq(Message)]
    BY <1>4, <1>6, <1>7
  <1>9. Between
    BY <1>7, <1>8 DEF Between, Core, TypeOK
  <1> QED BY <1>3, <1>9

LEMMA ExchangeGoneStep == ASSUME Core, NEW s \in Sides, ExchangeGone(s) PROVE Kept /\ Between
  <1>1. Put(s, [side[s] EXCEPT !.exchange = "gone"]) /\ UNCHANGED <<mail, endOut, keptOut, stopFrame>>
    BY DEF ExchangeGone
  <1>2. Kept
    BY <1>1, Sides2, ExchangeGoneGood, PutKept
  <1>3. Fault \/ UNCHANGED faults
    BY DEF ExchangeGone, FaultUnless
  <1> QED BY <1>1, <1>2, <1>3, FaultType DEF Between, Core, TypeOK

LEMMA SendSettlesStep == ASSUME Core, NEW s \in Sides, SendSettles(s) PROVE Kept /\ Between
  <1> DEFINE x == side[s]
             y == AfterSend(s, FirstGone(x), Head(x.chain).event)
  <1>1. x.carried /\ Put(s, y) /\ UNCHANGED <<mail, endOut, keptOut, stopFrame, faults>>
    BY DEF SendSettles
  <1>2. x.chain # <<>>
    BY <1>1 DEF Core, SideInv, ChainFits
  <1>3. Good(s, x, y)
    BY <1>2, Sides2, SendSettlesGood
  <1> HIDE DEF y
  <1> QED BY <1>1, <1>3, PutKept, StillBetween

LEMMA SendFailsStep == ASSUME Core, NEW s \in Sides, SendFails(s) PROVE Kept /\ Between
  <1> DEFINE x == side[s]
             k == IF x.exchange = "closed" THEN "cancelled" ELSE "expired"
             y == AfterFailedSend(s, FirstGone(x), Head(x.chain).event, k)
  <1>1. x.chain # <<>> /\ x.exchange # "open" /\ Put(s, y) /\ UNCHANGED <<mail, endOut, keptOut, stopFrame, faults>>
    BY DEF SendFails
  <1>2. Good(s, x, y)
    BY <1>1, Sides2, SendFailsGood
  <1> HIDE DEF y
  <1> QED BY <1>1, <1>2, PutKept, StillBetween

LEMMA ReadStep == ASSUME Core, NEW s \in Sides, Read(s) PROVE Kept /\ Between
  <1> DEFINE x == side[s]
             m == Head(mail[Other(s)])
             b == [x EXCEPT !.received = @ + 1]
             y == IF m.event \in AllowedEvents(Other(s), x.received) THEN AfterRead(s, b, m, x.received)
                  ELSE Threw(s, LinkStop(b, "failed"), "protocol")
  <1>1. /\ Reading(x) /\ mail[Other(s)] # <<>> /\ Put(s, y)
        /\ mail' = [mail EXCEPT ![Other(s)] = Tail(mail[Other(s)])]
        /\ UNCHANGED <<endOut, keptOut, stopFrame, faults>>
    BY DEF Read
  <1>2. Other(s) \in Sides /\ mail \in [Sides -> Seq(Message)]
    BY Sides2 DEF Core, TypeOK
  <1>3. m \in Message /\ Tail(mail[Other(s)]) \in Seq(Message)
    BY <1>1, <1>2
  <1>4. Good(s, x, y)
    BY <1>1, <1>3, Sides2, ReadGood
  <1> HIDE DEF y
  <1>5. mail' \in [Sides -> Seq(Message)]
    BY <1>1, <1>2, <1>3
  <1>6. Between
    BY <1>1, <1>5 DEF Between, Core, TypeOK
  <1> QED BY <1>1, <1>4, <1>6, PutKept

LEMMA CannotUseStep == ASSUME Core, PageCannotUse PROVE Kept /\ Between
  <1> DEFINE x == side["page"]
             y == Caught("page", LinkStop([x EXCEPT !.received = @ + 1], "unsupported"), "unsupported")
  <1>1. /\ x.phase = "inviting" /\ mail["drop"] # <<>> /\ Put("page", y)
        /\ mail' = [mail EXCEPT !["drop"] = Tail(mail["drop"])]
        /\ UNCHANGED <<endOut, keptOut, stopFrame, faults>>
    BY DEF PageCannotUse
  <1>2. "drop" \in Sides /\ mail \in [Sides -> Seq(Message)]
    BY Sides2 DEF Core, TypeOK
  <1>3. Tail(mail["drop"]) \in Seq(Message)
    BY <1>1, <1>2
  <1>4. Good("page", x, y)
    BY <1>1, Sides2, CannotUseGood
  <1> HIDE DEF y
  <1>5. mail' \in [Sides -> Seq(Message)]
    BY <1>1, <1>2, <1>3
  <1>6. Between
    BY <1>1, <1>5 DEF Between, Core, TypeOK
  <1> QED BY <1>1, <1>4, <1>6, Sides2, PutKept

LEMMA ReadFailsStep == ASSUME Core, NEW s \in Sides, ReadFails(s) PROVE Kept /\ Between
  <1> DEFINE x == side[s]
             y == IF x.reader # "reading" THEN Caught(s, x, IF x.linkEnded THEN "network" ELSE "expired")
                  ELSE IF s = "page" THEN NoMoreRestarts(x) ELSE DropPending([x EXCEPT !.reader = "off"])
  <1>1. Reading(x) /\ Put(s, y) /\ UNCHANGED <<mail, endOut, keptOut, stopFrame, faults>>
    BY DEF ReadFails
  <1>2. Good(s, x, y)
    BY <1>1, Sides2, ReadFailsGood
  <1> HIDE DEF y
  <1> QED BY <1>1, <1>2, PutKept, StillBetween

(* The calls, up to the transfer.                                          *)
LEMMA PageCalls ==
  ASSUME Core, PageOffers \/ PagePrepares \/ PageAnswers \/ PageAnswersRestart PROVE Kept /\ Between
  <1> DEFINE x == side["page"]
  <1>1. Sound("page", x) /\ "page" \in Sides
    BY Sides2
  <1>2. Between
    BY StillBetween DEF PageOffers, PagePrepares, PageAnswers, PageAnswersRestart
  <1>3. \A y : Put("page", y) /\ Good("page", x, y) => Kept
    BY <1>1, PutKept
  <1>4. BlameFits(x) /\ ReasonFits(x) /\ EndFits(x)
    BY <1>1 DEF Sound, SideInv
  <1>5. CASE PageOffers
    <2>1. x.phase = "choosing" /\ (Put("page", Caught("page", x, "too-big"))
                                   \/ Put("page", SendOr("page", x, Msg("manifest"), "manifestOut")))
      BY <1>5 DEF PageOffers
    <2>2. "too-big" \in Failures \ {"none"} /\ Settled(x, "too-big") \in PageFailures(x.phase)
      BY <2>1 DEF Failures, Settled, CallPhases, PageFailures
    <2>3. Good("page", x, Caught("page", x, "too-big"))
      BY <1>1, <2>1, <2>2, PageCaughtGood
    <2>4. OutPhase("manifest") = "manifestOut"
      BY DEF OutPhase
    <2>5. Good("page", x, SendOr("page", x, Msg("manifest"), "manifestOut"))
      BY <1>1, <2>1, <2>4, SendOrGood
    <2> QED BY <1>2, <1>3, <2>1, <2>3, <2>5
  <1>6. CASE PagePrepares
    <2>1. x.phase = "preparing" /\ ((\E kind \in {"source", "no-relay", "protocol"} : Put("page", Caught("page", x, kind)))
                                    \/ Put("page", WithPeer(x, "answering")))
      BY <1>6 DEF PagePrepares, Throws
    <2>2. Good("page", x, WithPeer(x, "answering"))
      BY <1>1, <2>1, WithPeerGood
    <2>3. ASSUME NEW kind \in {"source", "no-relay", "protocol"} PROVE Good("page", x, Caught("page", x, kind))
      <3>1. kind \in Failures \ {"none"}
        BY DEF Failures
      <3>2. x.failure # "cancelled" => Settled(x, kind) \in PageFailures(x.phase)
        BY <1>4, <2>1 DEF BlameFits, Early, Settled, CallPhases, PageFailures
      <3> QED BY <1>1, <2>1, <3>1, <3>2, PageCaughtGood
    <2> QED BY <1>2, <1>3, <2>1, <2>2, <2>3
  <1>7. CASE PageAnswers
    <2>1. x.phase = "answering" /\ (Put("page", Caught("page", x, "protocol"))
                                    \/ Put("page", SendOr("page", x, Msg("answer"), "answerOut")))
      BY <1>7 DEF PageAnswers, Throws
    <2>2. Good("page", x, Caught("page", x, "protocol"))
      <3>1. "protocol" \in Failures \ {"none"}
        BY DEF Failures
      <3>2. x.failure # "cancelled" => Settled(x, "protocol") \in PageFailures(x.phase)
        BY <1>4, <2>1 DEF BlameFits, Settled, CallPhases, PageFailures
      <3> QED BY <1>1, <2>1, <3>1, <3>2, PageCaughtGood
    <2>3. OutPhase("answer") = "answerOut"
      BY DEF OutPhase
    <2>4. Good("page", x, SendOr("page", x, Msg("answer"), "answerOut"))
      BY <1>1, <2>1, <2>3, SendOrGood
    <2> QED BY <1>2, <1>3, <2>1, <2>2, <2>4
  <1>8. CASE PageAnswersRestart
    <2> DEFINE b == [x EXCEPT !.pc = IF @ = "failed" THEN "connecting" ELSE @]
               y == IF Refusal(x) # "none" THEN Fail("page", b, Refusal(x))
                    ELSE [LinkSend(b, Msg("restart-answer")) EXCEPT !.reader = "sending"]
    <2>1. x.reader = "describing" /\ (Put("page", NoMoreRestarts(x)) \/ (Refusal(x) # "expired" /\ Put("page", y)))
      BY <1>8 DEF PageAnswersRestart
    <2>2. Good("page", x, NoMoreRestarts(x)) /\ (Refusal(x) # "expired" => Good("page", x, y))
      BY <1>1, <2>1, AnswersRestartGood
    <2> HIDE DEF y
    <2> QED BY <1>2, <1>3, <2>1, <2>2
  <1> QED BY <1>5, <1>6, <1>7, <1>8

LEMMA DropCalls ==
  ASSUME Core, DropInvites \/ DropDecides \/ DropOffers \/ DropApplies \/ SinkAborted PROVE Kept /\ Between
  <1> DEFINE x == side["drop"]
  <1>1. Sound("drop", x) /\ "drop" \in Sides
    BY Sides2
  <1>2. Between
    BY StillBetween DEF DropInvites, DropDecides, DropOffers, DropApplies, SinkAborted
  <1>3. \A y : Put("drop", y) /\ Good("drop", x, y) => Kept
    BY <1>1, PutKept
  <1>4. Mostly("drop", x) /\ Loose("drop", x) /\ EndFits(x) /\ ChainFits("drop", x) /\ Precedes(x, x)
    BY <1>1, SoundMostly, MostlyLoose DEF Mostly
  <1>5. {"no-relay", "protocol"} \subseteq Failures \ {"none"}
    BY DEF Failures
  <1>6. CASE DropInvites
    <2>1. x.phase = "start" /\ Put("drop", SendOr("drop", x, Msg("invite"), "inviteOut"))
      BY <1>6 DEF DropInvites
    <2>2. OutPhase("invite") = "inviteOut"
      BY DEF OutPhase
    <2>3. Good("drop", x, SendOr("drop", x, Msg("invite"), "inviteOut"))
      BY <1>1, <2>1, <2>2, SendOrGood
    <2> QED BY <1>2, <1>3, <2>1, <2>3
  <1>7. CASE DropDecides
    <2> DEFINE y == IF Refusal(x) = "none" THEN [LinkSend(x, Msg("decline")) EXCEPT !.phase = "declineOut"]
                    ELSE Finished(LinkEnd(x), Refusal(x))
    <2>1. x.phase = "deciding" /\ (Put("drop", y) \/ Put("drop", Caught("drop", x, "no-relay"))
                                   \/ Put("drop", Caught("drop", x, "protocol")) \/ Put("drop", WithPeer(x, "offering")))
      BY <1>7 DEF DropDecides, Throws
    <2>2. OutPhase("decline") = "declineOut"
      BY DEF OutPhase
    <2>3. Refusal(x) = "none" => Good("drop", x, [LinkSend(x, Msg("decline")) EXCEPT !.phase = "declineOut"])
      BY <1>1, <2>1, <2>2, CallSendsGood
    <2>4. ASSUME Refusal(x) # "none" PROVE Good("drop", x, Finished(LinkEnd(x), Refusal(x)))
      <3>1. Refusal(x) \in Outcomes \ {"none"}
        BY <2>4 DEF Refusal, Outcomes, Failures
      <3>2. NoWaited(x) /\ x.phase \notin Done \cup {"moving", "aborting"} /\ x.outcome = "none"
        BY <1>4, <2>1, NoneWaited DEF EndFits, Done
      <3> QED BY <1>1, <1>4, <3>1, <3>2, EndedGood
    <2>5. Good("drop", x, y)
      BY <2>3, <2>4
    <2>6. Good("drop", x, Caught("drop", x, "no-relay")) /\ Good("drop", x, Caught("drop", x, "protocol"))
      BY <1>1, <1>5, <2>1, DropCaughtGood
    <2>7. Good("drop", x, WithPeer(x, "offering"))
      BY <1>1, <2>1, WithPeerGood
    <2> HIDE DEF y
    <2> QED BY <1>2, <1>3, <2>1, <2>5, <2>6, <2>7
  <1>8. CASE DropOffers
    <2>1. x.phase = "offering" /\ (Put("drop", Caught("drop", x, "protocol"))
                                   \/ Put("drop", SendOr("drop", x, Msg("accept"), "acceptOut")))
      BY <1>8 DEF DropOffers, Throws
    <2>2. OutPhase("accept") = "acceptOut"
      BY DEF OutPhase
    <2>3. Good("drop", x, SendOr("drop", x, Msg("accept"), "acceptOut"))
      BY <1>1, <2>1, <2>2, SendOrGood
    <2>4. Good("drop", x, Caught("drop", x, "protocol"))
      BY <1>1, <1>5, <2>1, DropCaughtGood
    <2> QED BY <1>2, <1>3, <2>1, <2>3, <2>4
  <1>9. CASE DropApplies
    <2>1. x.phase = "applying" /\ (Put("drop", [x EXCEPT !.phase = "connecting", !.reader = "reading"])
                                   \/ Put("drop", Caught("drop", x, "protocol")))
      BY <1>9 DEF DropApplies, Throws
    <2>2. Good("drop", x, [x EXCEPT !.phase = "connecting", !.reader = "reading"])
      BY <1>1, <2>1, DropAppliesGood
    <2>3. Good("drop", x, Caught("drop", x, "protocol"))
      BY <1>1, <1>5, <2>1, DropCaughtGood
    <2> QED BY <1>2, <1>3, <2>1, <2>2, <2>3
  <1>10. CASE SinkAborted
    <2>1. x.phase = "aborting" /\ Put("drop", Rejected("drop", [x EXCEPT !.error = "none"], x.error))
      BY <1>10 DEF SinkAborted
    <2>2. Good("drop", x, Rejected("drop", [x EXCEPT !.error = "none"], x.error))
      BY <1>1, <2>1, AbortedGood
    <2> QED BY <1>2, <1>3, <2>1, <2>2
  <1> QED BY <1>6, <1>7, <1>8, <1>9, <1>10

(* Drop's restarts.                                                        *)
LEMMA DropRestarts ==
  ASSUME Core, RestartTimerFires \/ NetworkChanges \/ RestartBegins \/ RestartOffers PROVE Kept /\ Between
  <1> DEFINE x == side["drop"]
  <1>1. Sound("drop", x) /\ "drop" \in Sides /\ x \in Side /\ x.queue \in Nat /\ x.used \in Nat /\ x.restartTimer \in BOOLEAN
    BY Sides2 DEF Sound, Side
  <1>2. Between
    <2>1. CASE NetworkChanges
      BY <2>1, FaultType DEF NetworkChanges, Between, Core, TypeOK
    <2>2. CASE ~NetworkChanges
      BY <2>2, StillBetween DEF RestartTimerFires, RestartBegins, RestartOffers
    <2> QED BY <2>1, <2>2
  <1>3. \A y : Put("drop", y) /\ Good("drop", x, y) => Kept
    BY <1>1, PutKept
  <1>4. CASE RestartTimerFires
    <2> DEFINE q == IF x.used < Restarts THEN x.queue + 1 ELSE x.queue
    <2>1. Put("drop", [x EXCEPT !.restartTimer = FALSE, !.queue = q])
      BY <1>4 DEF RestartTimerFires
    <2>2. q \in Nat
      BY <1>1
    <2> HIDE DEF q
    <2>3. [x EXCEPT !.restartTimer = FALSE, !.queue = q] = [x EXCEPT !.queue = q, !.restartTimer = FALSE]
      BY <1>1 DEF Side
    <2>4. Good("drop", x, [x EXCEPT !.queue = q, !.restartTimer = FALSE])
      BY <1>1, <2>2, QueueGood
    <2> QED BY <1>2, <1>3, <2>1, <2>3, <2>4
  <1>5. CASE NetworkChanges
    <2> DEFINE q == x.queue + 1
    <2>1. Put("drop", [x EXCEPT !.queue = q])
      BY <1>5 DEF NetworkChanges
    <2>2. q \in Nat
      BY <1>1
    <2> HIDE DEF q
    <2>3. [x EXCEPT !.queue = q] = [x EXCEPT !.queue = q, !.restartTimer = x.restartTimer]
      BY <1>1 DEF Side
    <2>4. Good("drop", x, [x EXCEPT !.queue = q, !.restartTimer = x.restartTimer])
      BY <1>1, <2>2, QueueGood
    <2> QED BY <1>2, <1>3, <2>1, <2>3, <2>4
  <1>6. CASE RestartBegins
    <2> DEFINE q == x.queue - 1
               may == x.outcome # "kept" /\ ~x.linkEnded /\ x.pc # "closed" /\ x.used < Restarts
               a == [x EXCEPT !.queue = q, !.used = x.used + 1, !.restarting = "describing"]
               b == [x EXCEPT !.queue = q]
    <2>1. x.queue > 0 /\ x.restarting = "no" /\ Put("drop", IF may THEN a ELSE b)
      BY <1>6 DEF RestartBegins
    <2>2. q \in Nat
      BY <1>1, <2>1
    <2> HIDE DEF q
    <2>3. b = [x EXCEPT !.queue = q, !.restartTimer = x.restartTimer]
      BY <1>1 DEF Side
    <2>4. Good("drop", x, [x EXCEPT !.queue = q, !.restartTimer = x.restartTimer])
      BY <1>1, <2>2, QueueGood
    <2>5. x.used < Restarts => Good("drop", x, a)
      BY <1>1, <2>1, <2>2, RestartBeginsGood
    <2> HIDE DEF a, b
    <2>6. Good("drop", x, IF may THEN a ELSE b)
      BY <2>3, <2>4, <2>5
    <2> HIDE DEF may
    <2> QED BY <1>2, <1>3, <2>1, <2>6
  <1>7. CASE RestartOffers
    <2> DEFINE b == [x EXCEPT !.pending = x.sent]
               a == [x EXCEPT !.restarting = "no"]
               y == IF Refusal(b) # "none" THEN [b EXCEPT !.restarting = "no"]
                    ELSE [LinkSend(b, Msg("restart")) EXCEPT !.restarting = "sending"]
    <2>1. x.restarting = "describing" /\ (Put("drop", a) \/ Put("drop", y))
      BY <1>7 DEF RestartOffers
    <2>2. Good("drop", x, a) /\ Good("drop", x, y)
      BY <1>1, <2>1, RestartOffersGood
    <2> HIDE DEF a, y
    <2> QED BY <1>2, <1>3, <2>1, <2>2
  <1> QED BY <1>4, <1>5, <1>6, <1>7

(* The peer connection and the watch on it.                                *)
LEMMA ConnectionStep ==
  ASSUME Core, NEW s \in Sides,
         Connects(s) \/ Drops(s) \/ Opens(s) \/ ChannelCloses(s) \/ Starts(s) \/ WatchFires(s)
  PROVE  Kept /\ Between
  <1> DEFINE x == side[s]
  <1>1. Sound(s, x) /\ x \in Side /\ EndFits(x)
    BY Sides2 DEF Sound, SideInv
  <1>2. Between
    <2>1. UNCHANGED <<mail, endOut, keptOut, stopFrame>>
      BY DEF Connects, Drops, Opens, ChannelCloses, Starts, WatchFires
    <2>2. Fault \/ UNCHANGED faults
      BY DEF Connects, Drops, Opens, ChannelCloses, Starts, WatchFires, FaultUnless
    <2> QED BY <2>1, <2>2, FaultType DEF Between, Core, TypeOK
  <1>3. \A y : Put(s, y) /\ Good(s, x, y) => Kept
    BY PutKept
  <1>4. CASE Connects(s)
    <2>1. x.watching /\ x.pc \in Trying /\ Put(s, Evaluate(s, x, "connected")) /\ "connected" \in Trying \cup {"failed"}
      BY <1>4 DEF Connects, Trying
    <2>2. Good(s, x, Evaluate(s, x, "connected"))
      BY <1>1, <2>1, EvaluateGood
    <2> QED BY <1>2, <1>3, <2>1, <2>2
  <1>5. CASE Drops(s)
    <2>1. x.watching /\ x.pc \in Trying
      BY <1>5 DEF Drops
    <2>2. PICK state \in {"failed", "disconnected"} : Put(s, Evaluate(s, x, state))
      BY <1>5 DEF Drops
    <2>3. state \in Trying \cup {"failed"}
      BY DEF Trying
    <2>4. Good(s, x, Evaluate(s, x, state))
      BY <1>1, <2>1, <2>3, EvaluateGood
    <2> QED BY <1>2, <1>3, <2>2, <2>4
  <1>6. CASE Opens(s)
    <2>1. x.watching /\ x.everConnected /\ Put(s, [x EXCEPT !.chan = "open"])
      BY <1>1, <1>6 DEF Opens, EndFits
    <2>2. Good(s, x, [x EXCEPT !.chan = "open"])
      BY <1>1, <2>1, ChannelGood
    <2> QED BY <1>2, <1>3, <2>1, <2>2
  <1>7. CASE ChannelCloses(s)
    <2> DEFINE c == IF x.chan = "none" THEN "unopened" ELSE "closed"
    <2>1. x.watching /\ Put(s, [x EXCEPT !.chan = c]) /\ c \in {"unopened", "closed"}
      BY <1>7 DEF ChannelCloses
    <2> HIDE DEF c
    <2>2. Good(s, x, [x EXCEPT !.chan = c])
      BY <1>1, <2>1, ChannelGood
    <2> QED BY <1>2, <1>3, <2>1, <2>2
  <1>8. CASE Starts(s)
    <2>1. x.phase = "connecting" /\ x.chan = "open" /\ Put(s, [x EXCEPT !.phase = "moving"])
      BY <1>8 DEF Starts
    <2>2. Good(s, x, [x EXCEPT !.phase = "moving"])
      BY <1>1, <2>1, StartsGood
    <2> QED BY <1>2, <1>3, <2>1, <2>2
  <1>9. CASE WatchFires(s)
    <2>1. Put(s, GiveUp(s, [x EXCEPT !.connectTimer = FALSE]))
      BY <1>9 DEF WatchFires
    <2>2. Good(s, x, GiveUp(s, [x EXCEPT !.connectTimer = FALSE]))
      BY <1>1, WatchGood
    <2> QED BY <1>2, <1>3, <2>1, <2>2
  <1> QED BY <1>4, <1>5, <1>6, <1>7, <1>8, <1>9

(* What ends a call or the session.                                        *)
LEMMA EndingStep ==
  ASSUME Core, NEW s \in Sides, LateClose(s) \/ CloseNow(s) \/ ChannelGone(s) \/ HearsStopFrame(s)
  PROVE  Kept /\ Between
  <1> DEFINE x == side[s]
  <1>1. Sound(s, x)
    BY Sides2
  <1>2. Between
    BY StillBetween DEF LateClose, CloseNow, ChannelGone, HearsStopFrame
  <1>3. \A y : Put(s, y) /\ Good(s, x, y) => Kept
    BY PutKept
  <1>4. CASE LateClose(s)
    <2>1. x.closeSoon /\ Put(s, Close([x EXCEPT !.closeSoon = FALSE]))
      BY <1>4 DEF LateClose
    <2>2. Good(s, x, Close([x EXCEPT !.closeSoon = FALSE]))
      BY <1>1, <2>1, LateCloseGood
    <2> QED BY <1>2, <1>3, <2>1, <2>2
  <1>5. CASE CloseNow(s)
    <2>1. x.phase = "closing" /\ Put(s, Close([x EXCEPT !.phase = "ended"]))
      BY <1>5 DEF CloseNow
    <2>2. Good(s, x, Close([x EXCEPT !.phase = "ended"]))
      BY <1>1, <2>1, CloseNowGood
    <2> QED BY <1>2, <1>3, <2>1, <2>2
  <1>6. CASE ChannelGone(s)
    <2> DEFINE e == IF x.chan = "closed" THEN "lost" ELSE "protocol"
    <2>1. x.phase \in {"connecting", "moving"} /\ Put(s, Caught(s, x, e))
      BY <1>6 DEF ChannelGone
    <2>2. e \in Failures \ {"none", "expired", "network"} /\ e \in PageFailures(x.phase)
      BY <2>1 DEF Failures, PageFailures
    <2> HIDE DEF e
    <2>3. Good(s, x, Caught(s, x, e))
      BY <1>1, <2>1, <2>2, TransferEndsGood
    <2> QED BY <1>2, <1>3, <2>1, <2>3
  <1>7. CASE HearsStopFrame(s)
    <2> DEFINE e == stopFrame[s]
    <2>1. x.phase = "moving" /\ e # "none" /\ Put(s, Caught(s, x, e))
      BY <1>7 DEF HearsStopFrame, Moving
    <2>2. e \in {"none", "peer-cancelled", "peer-failed", "peer-storage"}
      BY DEF Core, TypeOK
    <2> HIDE DEF e
    <2>3. e \in Failures \ {"none", "expired", "network"} /\ e \in PageFailures(x.phase)
      BY <2>1, <2>2 DEF Failures, PageFailures
    <2>4. Good(s, x, Caught(s, x, e))
      BY <1>1, <2>1, <2>3, TransferEndsGood
    <2> QED BY <1>2, <1>3, <2>1, <2>4
  <1> QED BY <1>4, <1>5, <1>6, <1>7

LEMMA TransferFailsStep == ASSUME Core, NEW s \in Sides, TransferFails(s) PROVE Kept /\ Between
  <1> DEFINE x == side[s]
  <1>1. PICK kind \in IF s = "page" THEN {"source"} ELSE {"verification", "storage"} :
          /\ Put(s, Caught(s, x, kind))
          /\ stopFrame' = [stopFrame EXCEPT ![Other(s)] = IF kind = "storage" THEN "peer-storage" ELSE "peer-failed"]
    BY DEF TransferFails
  <1>2. x.phase = "moving" /\ Fault /\ UNCHANGED <<mail, endOut, keptOut>>
    BY DEF TransferFails, Moving
  <1>3. kind \in Failures \ {"none", "expired", "network"} /\ (s = "page" => kind \in PageFailures(x.phase))
    BY <1>2 DEF Failures, PageFailures
  <1>4. Good(s, x, Caught(s, x, kind))
    BY <1>2, <1>3, Sides2, TransferEndsGood
  <1>5. stopFrame' \in [Sides -> {"none", "peer-cancelled", "peer-failed", "peer-storage"}]
    BY <1>1, Sides2 DEF Core, TypeOK
  <1>6. Between
    BY <1>2, <1>5, FaultType DEF Between, Core, TypeOK
  <1> QED BY <1>1, <1>4, <1>6, PutKept

LEMMA SessionStopStep == ASSUME Core, NEW s \in Sides, NEW now \in BOOLEAN, SessionStop(s, now) PROVE Kept /\ Between
  <1> DEFINE x == side[s]
             told == LinkStop([Blame(x, "cancelled") EXCEPT !.asked = TRUE], "cancelled")
             shut == IF now THEN Close(told) ELSE [told EXCEPT !.closeSoon = TRUE]
             y == IF x.phase = "moving" THEN Caught(s, shut, "cancelled")
                  ELSE IF x.phase \in Idle THEN Finished(shut, "cancelled") ELSE shut
  <1>1. Put(s, y) /\ Fault /\ UNCHANGED <<mail, endOut, keptOut>>
    BY DEF SessionStop
  <1>2. Good(s, x, y)
    BY Sides2, StopGood
  <1> HIDE DEF y
  <1>3. stopFrame' = IF Moving(s) THEN [stopFrame EXCEPT ![Other(s)] = "peer-cancelled"] ELSE stopFrame
    BY DEF SessionStop
  <1>4. stopFrame' \in [Sides -> {"none", "peer-cancelled", "peer-failed", "peer-storage"}]
    BY <1>3, Sides2 DEF Core, TypeOK
  <1>5. Between
    BY <1>1, <1>4, FaultType DEF Between, Core, TypeOK
  <1> QED BY <1>1, <1>2, <1>5, PutKept

(* The outcome of the transfer.                                            *)
LEMMA OutcomeStep == ASSUME Core, PageSendsEnd \/ DropKeeps \/ PageHearsKept \/ UNCHANGED vars PROVE Kept /\ Between
  <1>1. CASE PageSendsEnd
    <2>1. side' = side /\ endOut' = TRUE /\ UNCHANGED <<mail, keptOut, stopFrame, faults>>
      BY <1>1 DEF PageSendsEnd
    <2> QED BY <2>1, StillKept DEF Between, Core, TypeOK
  <1>2. CASE DropKeeps
    <2>1. /\ side["drop"].phase = "moving" /\ keptOut' = TRUE
          /\ Put("drop", Finished(side["drop"], "kept")) /\ UNCHANGED <<mail, endOut, stopFrame, faults>>
      BY <1>2 DEF DropKeeps, Moving
    <2>2. Good("drop", side["drop"], Finished(side["drop"], "kept"))
      BY <2>1, Sides2, ArrivedGood
    <2>3. Kept
      BY <2>1, <2>2, Sides2, PutKept
    <2>4. Between
      BY <2>1 DEF Between, Core, TypeOK
    <2> QED BY <2>3, <2>4
  <1>3. CASE PageHearsKept
    <2>1. /\ side["page"].phase = "moving" /\ Put("page", Finished(side["page"], "arrived"))
          /\ UNCHANGED <<mail, endOut, keptOut, stopFrame, faults>>
      BY <1>3 DEF PageHearsKept, Moving
    <2>2. Good("page", side["page"], Finished(side["page"], "arrived"))
      BY <2>1, Sides2, ArrivedGood
    <2> QED BY <2>1, <2>2, Sides2, PutKept, StillBetween
  <1>4. CASE UNCHANGED vars
    BY <1>4, StillKept, StillBetween DEF vars
  <1> QED BY <1>1, <1>2, <1>3, <1>4

(* Every step of either end keeps both ends in order, sends nothing behind *)
(* a stop, and ends no call in a way it should not.                        *)
LEMMA NextKept == ASSUME Core, [Next]_vars PROVE Kept /\ Between
  <1>1. ASSUME NEW s \in Sides, Internal(s) PROVE Kept /\ Between
    BY <1>1, CarryStep, SendSettlesStep, SendFailsStep, ReadStep, ReadFailsStep, ConnectionStep, EndingStep
       DEF Internal
  <1>2. ASSUME NEW s \in Sides, Connects(s) \/ Drops(s) \/ Opens(s) \/ ChannelCloses(s) \/ Starts(s)
        PROVE  Kept /\ Between
    BY <1>2, ConnectionStep
  <1>3. ASSUME NEW s \in Sides, ExchangeGone(s) \/ TransferFails(s) \/ HearsStopFrame(s) PROVE Kept /\ Between
    BY <1>3, ExchangeGoneStep, TransferFailsStep, EndingStep
  <1>4. ASSUME NEW s \in Sides, NEW now \in BOOLEAN, SessionStop(s, now) PROVE Kept /\ Between
    BY <1>4, SessionStopStep
  <1>5. CASE DropInternal
    BY <1>5, DropCalls, DropRestarts DEF DropInternal
  <1>6. CASE PageInternal
    BY <1>6, PageCalls DEF PageInternal
  <1>7. CASE PageOffers \/ PageCannotUse \/ DropInvites \/ DropDecides \/ NetworkChanges
    BY <1>7, PageCalls, CannotUseStep, DropCalls, DropRestarts
  <1>8. CASE PageSendsEnd \/ DropKeeps \/ PageHearsKept \/ Over \/ UNCHANGED vars
    BY <1>8, OutcomeStep DEF Over
  <1> QED BY <1>1, <1>2, <1>3, <1>4, <1>5, <1>6, <1>7, <1>8 DEF Next

(* What an end has thrown stays known.                                     *)
Recalls == \A s \in Sides : threw[s] => threw'[s]

LEMMA ThrewStep == ASSUME Core, [Next]_vars PROVE threw' \in [Sides -> BOOLEAN] /\ Recalls
  <1>1. threw \in [Sides -> BOOLEAN]
    BY DEF Core, TypeOK
  <1>2. ASSUME NEW s \in Sides, Throws(s) PROVE threw' \in [Sides -> BOOLEAN] /\ Recalls
    BY <1>1, <1>2 DEF Throws, Recalls
  <1>3. ASSUME UNCHANGED threw PROVE threw' \in [Sides -> BOOLEAN] /\ Recalls
    BY <1>1, <1>3 DEF Recalls
  <1>4. ASSUME NEW s \in Sides, Internal(s) PROVE UNCHANGED threw
    BY <1>4 DEF Internal, Carry, SendSettles, SendFails, Read, ReadFails, WatchFires, LateClose, CloseNow, ChannelGone
  <1>5. ASSUME NEW s \in Sides,
               ExchangeGone(s) \/ Connects(s) \/ Drops(s) \/ Opens(s) \/ ChannelCloses(s) \/ Starts(s)
                 \/ TransferFails(s) \/ HearsStopFrame(s) \/ \E now \in BOOLEAN : SessionStop(s, now)
        PROVE  UNCHANGED threw
    BY <1>5 DEF ExchangeGone, Connects, Drops, Opens, ChannelCloses, Starts, TransferFails, HearsStopFrame, SessionStop
  <1>6. ASSUME DropInternal \/ PageInternal \/ DropDecides
        PROVE  UNCHANGED threw \/ Throws("page") \/ Throws("drop")
    BY <1>6 DEF DropInternal, DropOffers, DropApplies, SinkAborted, RestartTimerFires, RestartBegins, RestartOffers,
                PageInternal, PagePrepares, PageAnswers, PageAnswersRestart, DropDecides
  <1>7. ASSUME PageOffers \/ PageCannotUse \/ DropInvites \/ NetworkChanges \/ PageSendsEnd \/ DropKeeps
                 \/ PageHearsKept \/ Over \/ UNCHANGED vars
        PROVE  UNCHANGED threw
    BY <1>7 DEF PageOffers, PageCannotUse, DropInvites, NetworkChanges, PageSendsEnd, DropKeeps, PageHearsKept, Over, vars
  <1>8. UNCHANGED threw \/ \E s \in Sides : Throws(s)
    BY <1>4, <1>5, <1>6, <1>7 DEF Next, Sides
  <1> QED BY <1>2, <1>3, <1>8

LEMMA CoreStep == Core /\ [Next]_vars => Core'
  <1> SUFFICES ASSUME Core, [Next]_vars PROVE Core' OBVIOUS
  <1>1. Kept /\ Between
    BY NextKept
  <1>2. threw' \in [Sides -> BOOLEAN]
    BY ThrewStep
  <1> QED BY <1>1, <1>2 DEF Kept, Between, Core, TypeOK

LEMMA NewSideFits ==
  ASSUME NEW s \in Sides, NEW p, p = IF s = "page" THEN "inviting" ELSE "start"
  PROVE  NewSide(p) \in Side /\ SideInv(s, NewSide(p))
  <1> DEFINE x == NewSide(p)
  <1>1. p \in Phases /\ p \in PhasesOf(s) /\ p \notin Done
    BY DEF Phases, Idle, ReadPhases, PhasesOf, Done
  <1>2. Restarts \in Nat /\ Messages \in Nat /\ Messages >= Restarts + 3
    BY LimitsAssumption
  <1>3. <<>> \in Seq(Message) OBVIOUS
  <1>4. x \in Side
    BY <1>1, <1>2, <1>3 DEF NewSide, Side, Failures, Outcomes, None
  <1>5. /\ x.chain = <<>> /\ ~x.carried /\ x.sent = 0 /\ x.received = 0 /\ ~x.stopped /\ ~x.linkEnded
        /\ x.exchange = "open" /\ x.phase = p /\ x.failure = "none" /\ x.outcome = "none" /\ x.reader = "off"
        /\ ~x.closeSoon /\ x.pc = "none" /\ x.chan = "none" /\ ~x.watching /\ ~x.everConnected /\ x.used = 0
        /\ x.restarting = "no"
    BY DEF NewSide
  <1> HIDE DEF x
  <1>6. Len(x.chain) = 0
    BY <1>5
  <1>7. ChainFits(s, x)
    BY <1>5, <1>6 DEF ChainFits
  <1>8. IndexFits(s, x)
    <2>1. MostTaken(s, x) = 0
      BY <1>2, <1>5 DEF MostTaken, Sides
    <2> QED BY <1>5, <2>1 DEF IndexFits
  <1>9. EndFits(x)
    BY <1>1, <1>5 DEF EndFits, Done
  <1>10. BlameFits(x) /\ ReasonFits(x)
    BY <1>5 DEF BlameFits, ReasonFits, Blamed
  <1>11. SideInv(s, x)
    BY <1>1, <1>5, <1>7, <1>8, <1>9, <1>10 DEF SideInv
  <1> QED BY <1>4, <1>11 DEF x

LEMMA InitCore == Init => Core
  <1> SUFFICES ASSUME Init PROVE Core OBVIOUS
  <1>1. ASSUME NEW s \in Sides PROVE side[s] \in Side /\ SideInv(s, side[s])
    <2>1. side[s] = NewSide(IF s = "page" THEN "inviting" ELSE "start")
      BY DEF Init
    <2> QED BY <2>1, NewSideFits
  <1>2. side \in [Sides -> Side]
    BY <1>1 DEF Init
  <1>3. mail \in [Sides -> Seq(Message)]
    BY DEF Init
  <1>4. stopFrame \in [Sides -> {"none", "peer-cancelled", "peer-failed", "peer-storage"}] /\ faults \in 0..Faults
        /\ threw \in [Sides -> BOOLEAN]
    BY LimitsAssumption DEF Init
  <1>5. endOut \in BOOLEAN /\ keptOut \in BOOLEAN
    BY DEF Init
  <1>6. TypeOK
    BY <1>2, <1>3, <1>4, <1>5 DEF TypeOK
  <1> QED BY <1>1, <1>6 DEF Core

(* The bounds leave room for a stop, and an ended session holds nothing.   *)
LEMMA CoreFits == Core => SessionFits
  <1> SUFFICES ASSUME Core PROVE SessionFits OBVIOUS
  <1>1. ASSUME NEW s \in Sides, ~side[s].stopped PROVE side[s].sent < Messages
    <2> DEFINE x == side[s]
    <2>1. x \in Side /\ IndexFits(s, x)
      BY Sides2 DEF Sound, SideInv
    <2>2. x.sent \in 0..Messages /\ x.used \in 0..Restarts /\ Restarts \in Nat /\ Messages \in Nat /\ Messages >= Restarts + 3
      BY <2>1, LimitsAssumption DEF Side
    <2>3. x.sent <= MostTaken(s, x)
      BY <1>1, <2>1 DEF IndexFits
    <2> HIDE DEF x
    <2>4. MostTaken(s, x) <= 2 + Restarts /\ MostTaken(s, x) \in Int
      BY <2>2 DEF MostTaken
    <2>5. x.sent < Messages
      BY <2>2, <2>3, <2>4
    <2> QED BY <2>5 DEF x
  <1>2. StopFits
    BY <1>1 DEF StopFits
  <1>3. ClosesBehind
    BY DEF ClosesBehind, Core, SideInv, EndFits, Up
  <1> QED BY <1>2, <1>3 DEF SessionFits, Core

(* Either end of a session is in order whatever the other end, the         *)
(* exchange and the browser do: the indices Link.send takes always leave   *)
(* one for the stop (LIMITS.messagesPerSide against LIMITS.restarts), a    *)
(* message still in the send chain has its sender waiting for it, nothing  *)
(* is closed or stopped without a recorded failure while a call goes on,   *)
(* and a session that has ended has closed its peer and its exchange.      *)
THEOREM SessionAlwaysFits == Spec => []SessionFits
  <1>1. Init => Core
    BY InitCore
  <1>2. Core /\ [Next]_vars => Core'
    BY CoreStep
  <1>3. Core => SessionFits
    BY CoreFits
  <1> QED BY <1>1, <1>2, <1>3, PTL DEF Spec

(* How send() and accept() may end: Link takes no index once a stop was    *)
(* sent or read; a call whose file moves never settles as "expired" or     *)
(* "network", because only the reading loop meets the exchange then; and   *)
(* each call of the page's session fails only in the ways direct-send.ts   *)
(* has a screen for, unless the page itself stopped it.                    *)
THEOREM SessionsEndAsPromised == Spec => EndsAsPromised
  <1>1. Init => Core
    BY InitCore
  <1>2. Core /\ [Next]_vars => Core'
    BY CoreStep
  <1>3. Core /\ [Next]_vars => Kept
    BY NextKept
  <1>4. Kept => \A s \in Sides : side[s].stopped => side'[s].sent = side[s].sent
    BY DEF Kept, Quiet
  <1>5. Kept => \A s \in Sides : side[s].phase \in {"moving", "aborting"}
                                   => side'[s].outcome \notin {"expired", "network"}
    BY DEF Kept, Harmless
  <1>6. Kept => LET x == side["page"] y == side'["page"] IN
                x.outcome = "none" /\ y.outcome \notin {"none", "arrived", "declined"} /\ y.failure # "cancelled"
                  => y.outcome \in PageFailures(x.phase)
    BY DEF Kept, Shown, Sides
  <1> QED
    BY <1>1, <1>2, <1>3, <1>4, <1>5, <1>6, PTL
       DEF Spec, EndsAsPromised, QuietAfterStop, DeadlineHarmless, FailsAsShown


(***************************************************************************)
(* Both ends together                                                      *)
(***************************************************************************)

(* Two honest ends agree on the order of their messages.  What an end may  *)
(* have sent and read follows from where its call stands, by itself        *)
(* (Firm); between the ends, a message arrives under the index it was sent *)
(* under (Joined).                                                         *)

(* Drop before its accept.                                                 *)
Pre == {"start", "inviteOut", "invited", "deciding", "offering"}
AcceptPhases == {"acceptOut", "accepted", "applying"}

(* How many indices an end has taken at least.                             *)
LeastTaken(s, x) ==
  IF s = "page"
  THEN CASE x.phase \in {"inviting", "choosing"} \cup Done -> 0
         [] x.phase \in {"manifestOut", "offered", "preparing", "answering"} -> 1
         [] OTHER -> 2
  ELSE CASE x.phase = "start" -> 0
         [] x.phase \in (Pre \ {"start"}) \cup Done -> 1
         [] OTHER -> 2

(* The page answers each restart under its index, which is its own next.   *)
PageTurn(x) ==
  ~x.stopped =>
    /\ x.reader \in {"reading", "sending"} => x.sent = x.received
    /\ x.reader = "describing" => x.sent + 1 = x.received /\ x.received >= 3
    /\ x.phase = "answerOut" => x.sent = 2

(* Drop has sent as many messages as it has read, and the restart it waits *)
(* for the answer to.                                                      *)
Awaited(x) == IF x.reader = "reading" THEN x.received ELSE 2
DropTurn(x) ==
  ~x.stopped /\ x.exchange = "open" /\ (x.phase \in AcceptPhases \/ x.reader = "reading") =>
    /\ x.pending = None => x.sent = Awaited(x)
    /\ x.pending # None => x.pending = Awaited(x) /\ x.sent = Awaited(x) + 1 /\ x.restarting \in {"sending", "waiting"}

(* There is no restart before the accept.                                  *)
NoRestarts(x) ==
  x.used = 0 /\ x.queue = 0 /\ x.restarting = "no" /\ x.pending = None /\ ~x.restartTimer /\ ~x.everConnected
RestartsFit(x) ==
  /\ x.phase \in Pre => NoRestarts(x)
  /\ x.restartTimer \/ x.queue > 0 \/ x.restarting # "no" => x.sent >= 2

(* A message is legal under its index, but for the stop of a Drop that was *)
(* stopped before its invitation.                                          *)
TooSoon(s, x) == s = "drop" /\ x.asked /\ x.stopped /\ x.sent = 1
LegalAt(s, x, m, k) == m.event \in AllowedEvents(s, k) \/ (k = 0 /\ m.event = "stop" /\ TooSoon(s, x))
IndexOf(x, i) == (x.sent - Len(x.chain)) + (i - 1)
ChainLegal(s, x) ==
  /\ Len(x.chain) <= x.sent
  /\ \A i \in 1..Len(x.chain) :
       /\ LegalAt(s, x, x.chain[i], IndexOf(x, i))
       /\ x.chain[i].event = "restart-answer" => IndexOf(x, i) < x.received
       /\ x.chain[i].event = "stop" => x.stopped

(* While a call goes on, no breach has been recorded, and an error that    *)
(* would be one is not what the call will report.                          *)
Honest(x) ==
  /\ x.phase \notin Done => x.failure # "protocol"
  /\ x.phase = "aborting" /\ x.error = "protocol" => x.chan = "unopened" \/ x.failure # "none"
  /\ x.phase = "start" => x.failure = "none" \/ x.sent >= 1
  /\ x.chan = "shut" => x.pc = "closed"

ReaderFits(x) == x.reader # "off" => x.phase \in {"connecting", "moving", "aborting"} \cup Done

Firm(s, x) ==
  /\ x \in Side /\ LeastTaken(s, x) <= x.sent /\ ReaderFits(x)
  /\ s = "page" => PageTurn(x)
  /\ s = "drop" => DropTurn(x) /\ RestartsFit(x)
  /\ ChainLegal(s, x) /\ Honest(x)

(* How many messages of an end the exchange has carried.                   *)
Carried(x) == (x.sent - Len(x.chain)) + (IF x.carried THEN 1 ELSE 0)

(* What a step that reads nothing leaves of what the other end relies on.  *)
Steady(s, x, y) ==
  /\ y.sent >= x.sent /\ y.received = x.received
  /\ y.exchange = "open" => x.exchange = "open" /\ Carried(y) = Carried(x)
  /\ x.asked /\ x.stopped => y.asked /\ y.stopped /\ y.sent = x.sent
  /\ y.phase \in Pre => x.phase \in Pre
  /\ s = "page" /\ (y.pc # "none" \/ y.phase = "preparing") => x.pc # "none" \/ x.phase = "preparing"
  /\ x.chan = "unopened" => y.chan = "unopened"

Fine(s, x, y) ==
  /\ Firm(s, y) /\ Steady(s, x, y)
  /\ y.outcome = "protocol" => y.chan = "unopened" \/ x.outcome = "protocol"

LEMMA Counts ==
  ASSUME NEW x \in Side
  PROVE  /\ x.sent \in Nat /\ x.sent <= Messages /\ x.received \in Nat /\ x.received <= Messages
         /\ x.used \in Nat /\ x.used <= Restarts /\ x.queue \in Nat
         /\ x.chain \in Seq(Message) /\ Len(x.chain) \in Nat /\ Restarts \in Nat /\ Messages \in Nat
         /\ Messages >= Restarts + 3 /\ x.pending \in Int
  BY LimitsAssumption DEF Side

LEMMA FineTrans ==
  ASSUME NEW s \in Sides, NEW x, NEW y, NEW z, x \in Side, Fine(s, x, y), Fine(s, y, z) PROVE Fine(s, x, z)
  <1>1. y \in Side /\ z \in Side
    BY DEF Fine, Firm
  <1>2. x.sent \in Nat /\ y.sent \in Nat /\ z.sent \in Nat
    BY <1>1, Counts
  <1>3. Steady(s, x, z)
    BY <1>2 DEF Fine, Steady
  <1> QED BY <1>3 DEF Fine, Steady

(* A legal message is appended to the chain.                               *)
LEMMA ChainGrows ==
  ASSUME NEW s \in Sides, NEW x \in Side, NEW y \in Side, NEW m \in Message, ChainLegal(s, x), ~x.stopped,
         y.sent = x.sent + 1, y.chain = Append(x.chain, m), y.received = x.received,
         LegalAt(s, y, m, x.sent), m.event = "restart-answer" => x.sent < x.received, m.event = "stop" => y.stopped
  PROVE  ChainLegal(s, y) /\ (y.carried = x.carried => Carried(y) = Carried(x))
  <1>1. x.sent \in Nat /\ x.received \in Nat /\ x.chain \in Seq(Message) /\ Len(x.chain) \in Nat
    BY Counts
  <1>2. Len(y.chain) = Len(x.chain) + 1 /\ y.chain[Len(x.chain) + 1] = m /\ \A i \in 1..Len(x.chain) : y.chain[i] = x.chain[i]
    BY <1>1
  <1>3. Len(x.chain) <= x.sent
    BY DEF ChainLegal
  <1>4. Carried(y) = (x.sent - Len(x.chain)) + (IF y.carried THEN 1 ELSE 0)
    BY <1>1, <1>2 DEF Carried
  <1>5. ASSUME NEW i \in 1..Len(y.chain)
        PROVE  /\ LegalAt(s, y, y.chain[i], IndexOf(y, i))
               /\ y.chain[i].event = "restart-answer" => IndexOf(y, i) < y.received
               /\ y.chain[i].event = "stop" => y.stopped
    <2>1. CASE i = Len(x.chain) + 1
      <3>1. IndexOf(y, i) = x.sent /\ y.chain[i] = m
        BY <1>1, <1>2, <2>1 DEF IndexOf
      <3> QED BY <3>1
    <2>2. CASE i # Len(x.chain) + 1
      <3>1. i \in 1..Len(x.chain)
        BY <1>1, <1>2, <2>2
      <3>2. IndexOf(y, i) = IndexOf(x, i) /\ y.chain[i] = x.chain[i]
        BY <1>1, <1>2, <3>1 DEF IndexOf
      <3>3. /\ LegalAt(s, x, x.chain[i], IndexOf(x, i))
            /\ x.chain[i].event = "restart-answer" => IndexOf(x, i) < x.received
            /\ x.chain[i].event # "stop"
        BY <3>1 DEF ChainLegal
      <3>4. x.chain[i].event \in AllowedEvents(s, IndexOf(x, i))
        BY <3>3 DEF LegalAt
      <3> QED BY <3>2, <3>3, <3>4 DEF LegalAt
    <2> QED BY <2>1, <2>2
  <1> QED BY <1>1, <1>2, <1>3, <1>4, <1>5 DEF ChainLegal, Carried

(* And nothing is, while at most more is stopped or read.                  *)
LEMMA ChainStays ==
  ASSUME NEW s \in Sides, NEW x \in Side, NEW y \in Side, ChainLegal(s, x),
         y.sent = x.sent, y.chain = x.chain, y.received >= x.received, x.stopped => y.stopped, x.asked => y.asked
  PROVE  ChainLegal(s, y) /\ (y.carried = x.carried => Carried(y) = Carried(x))
  <1>1. x.sent \in Nat /\ x.received \in Nat /\ y.received \in Nat /\ Len(x.chain) \in Nat
    BY Counts
  <1>2. ASSUME NEW i \in 1..Len(x.chain)
        PROVE  /\ LegalAt(s, y, y.chain[i], IndexOf(y, i))
               /\ y.chain[i].event = "restart-answer" => IndexOf(y, i) < y.received
               /\ y.chain[i].event = "stop" => y.stopped
    <2>1. /\ LegalAt(s, x, x.chain[i], IndexOf(x, i))
          /\ x.chain[i].event = "restart-answer" => IndexOf(x, i) < x.received
          /\ x.chain[i].event = "stop" => x.stopped
      BY DEF ChainLegal
    <2>2. IndexOf(y, i) = IndexOf(x, i) /\ IndexOf(x, i) \in Int
      BY <1>1 DEF IndexOf
    <2>3. LegalAt(s, y, y.chain[i], IndexOf(y, i))
      BY <2>1, <2>2 DEF LegalAt, TooSoon
    <2> QED BY <1>1, <2>1, <2>2, <2>3
  <1> QED BY <1>2 DEF ChainLegal, Carried

(* The end may say stop under any index but Drop's first.                  *)
LEMMA StopLegal ==
  ASSUME NEW s \in Sides, NEW k \in Nat, k < Messages, s = "drop" => k # 0
  PROVE  "stop" \in AllowedEvents(s, k)
  <1>1. CASE s = "page"
    BY <1>1, LimitsAssumption DEF AllowedEvents
  <1>2. CASE s = "drop"
    BY <1>2, LimitsAssumption DEF AllowedEvents
  <1> QED BY <1>1, <1>2 DEF Sides

(* An end winds down or goes on with what it has: it sends nothing but a   *)
(* stop, reads nothing, and makes no peer.                                 *)
WindsLink(s, x, y) ==
  /\ \/ y.sent = x.sent /\ y.chain = x.chain /\ (x.stopped => y.stopped)
     \/ /\ ~x.stopped /\ y.stopped /\ y.sent = x.sent + 1 /\ (s = "drop" /\ x.sent = 0 => y.asked)
        /\ \E r \in Reasons : y.chain = Append(x.chain, StopMsg(r))
  /\ y.exchange = x.exchange \/ y.exchange # "open"
  /\ y.received = x.received /\ y.carried = x.carried /\ (x.asked => y.asked)
WindsPeer(x, y) ==
  /\ (x.pc = "none" => y.pc = "none") /\ (x.pc = "closed" => y.pc = "closed")
  /\ y.chan = x.chan \/ (x.chan \in {"none", "open"} /\ (y.chan = "shut" => y.pc = "closed"))
  /\ y.everConnected = x.everConnected
WindsRestarts(x, y) ==
  /\ y.used = x.used /\ y.queue = x.queue /\ (y.restartTimer => x.restartTimer)
  /\ y.reader = x.reader \/ y.reader = "off"
  /\ \/ y.pending = x.pending /\ y.restarting = x.restarting
     \/ x.reader # "off" /\ y.reader = "off" /\ y.restarting \in {x.restarting, "no"}
WindsPhase(x, y) ==
  \/ y.phase = x.phase
  \/ y.phase \in Done /\ (x.phase # "start" \/ x.sent >= 1)
  \/ y.phase \in {"moving", "aborting"} /\ x.phase \in {"connecting", "moving"}
Winds(s, x, y) == y \in Side /\ WindsLink(s, x, y) /\ WindsPeer(x, y) /\ WindsRestarts(x, y) /\ WindsPhase(x, y)

LEMMA WindsFirm ==
  ASSUME NEW s \in Sides, NEW x, NEW y, Firm(s, x), Winds(s, x, y), Honest(y) PROVE Firm(s, y) /\ Steady(s, x, y)
  <1>1. x \in Side /\ y \in Side /\ ChainLegal(s, x) /\ ReaderFits(x) /\ LeastTaken(s, x) <= x.sent
    BY DEF Firm, Winds
  <1>2. /\ x.sent \in Nat /\ y.sent \in Nat /\ y.sent <= Messages /\ x.received \in Nat /\ Messages \in Nat /\ x.queue \in Nat
        /\ Messages >= 3
    BY <1>1, Counts
  <1>3. ChainLegal(s, y) /\ Carried(y) = Carried(x)
    <2>1. CASE y.sent = x.sent /\ y.chain = x.chain /\ (x.stopped => y.stopped)
      BY <1>1, <1>2, <2>1, ChainStays DEF Winds, WindsLink
    <2>2. CASE ~(y.sent = x.sent /\ y.chain = x.chain /\ (x.stopped => y.stopped))
      <3>1. /\ ~x.stopped /\ y.stopped /\ y.sent = x.sent + 1 /\ (s = "drop" /\ x.sent = 0 => y.asked)
            /\ y.received = x.received /\ y.carried = x.carried
        BY <2>2 DEF Winds, WindsLink
      <3>2. PICK r \in Reasons : y.chain = Append(x.chain, StopMsg(r))
        BY <2>2 DEF Winds, WindsLink
      <3>3. StopMsg(r) \in Message /\ StopMsg(r).event = "stop"
        BY <1>1, AppendedStop
      <3>4. x.sent < Messages
        BY <1>2, <3>1
      <3>5. LegalAt(s, y, StopMsg(r), x.sent)
        <4>1. CASE s = "drop" /\ x.sent = 0
          BY <3>1, <3>3, <4>1 DEF LegalAt, TooSoon
        <4>2. CASE ~(s = "drop" /\ x.sent = 0)
          BY <1>2, <3>3, <3>4, <4>2, StopLegal DEF LegalAt
        <4> QED BY <4>1, <4>2
      <3> QED BY <1>1, <3>1, <3>2, <3>3, <3>5, ChainGrows
    <2> QED BY <2>1, <2>2
  <1>4. y.sent >= x.sent
    BY <1>2 DEF Winds, WindsLink
  <1>5. Steady(s, x, y)
    BY <1>3, <1>4 DEF Steady, Winds, WindsLink, WindsPeer, WindsPhase, Pre, Done
  <1>6. LeastTaken(s, y) <= y.sent
    <2>1. CASE y.phase = x.phase
      BY <1>1, <1>2, <1>4, <2>1 DEF LeastTaken
    <2>2. CASE y.phase \in Done /\ (x.phase # "start" \/ x.sent >= 1)
      BY <1>1, <1>2, <1>4, <2>2 DEF LeastTaken, Done, Pre
    <2>3. CASE y.phase \in {"moving", "aborting"} /\ x.phase \in {"connecting", "moving"}
      BY <1>1, <1>2, <1>4, <2>3 DEF LeastTaken, Done, Pre
    <2> QED BY <2>1, <2>2, <2>3 DEF Winds, WindsPhase
  <1>7. ReaderFits(y)
    BY <1>1 DEF ReaderFits, Winds, WindsPhase, WindsRestarts, Done
  <1>8. s = "page" => PageTurn(y)
    <2> SUFFICES ASSUME s = "page", ~y.stopped PROVE PageTurn(y)
      BY DEF PageTurn
    <2>1. ~x.stopped /\ PageTurn(x) /\ y.sent = x.sent /\ y.received = x.received
      BY DEF Firm, Winds, WindsLink
    <2>2. y.phase = "answerOut" => x.phase = "answerOut"
      BY DEF Winds, WindsPhase, Done
    <2> QED BY <2>1, <2>2 DEF PageTurn, Winds, WindsRestarts
  <1>9. s = "drop" => DropTurn(y)
    <2> SUFFICES ASSUME s = "drop", ~y.stopped, y.exchange = "open", y.phase \in AcceptPhases \/ y.reader = "reading"
                 PROVE DropTurn(y)
      BY DEF DropTurn
    <2>1. ~x.stopped /\ x.exchange = "open" /\ DropTurn(x) /\ y.sent = x.sent /\ y.received = x.received
      BY DEF Firm, Winds, WindsLink
    <2>2. y.phase \in AcceptPhases => y.phase = x.phase
      BY DEF Winds, WindsPhase, Done, AcceptPhases
    <2>3. y.pending = x.pending /\ y.restarting = x.restarting
      BY <1>1, <2>2 DEF Winds, WindsRestarts, ReaderFits, AcceptPhases, Done
    <2>4. y.reader = x.reader \/ (y.phase \in AcceptPhases /\ x.reader # "reading")
      BY <1>1, <2>2 DEF Winds, WindsRestarts, ReaderFits, AcceptPhases, Done
    <2> QED BY <2>1, <2>2, <2>3, <2>4 DEF DropTurn, Awaited, Winds, WindsRestarts
  <1>10. s = "drop" => RestartsFit(y)
    <2> SUFFICES ASSUME s = "drop" PROVE RestartsFit(y) OBVIOUS
    <2>1. RestartsFit(x) /\ WindsRestarts(x, y) /\ WindsPhase(x, y) /\ y.everConnected = x.everConnected
      BY DEF Firm, Winds, WindsPeer
    <2>2. y.phase \in Pre => NoRestarts(y)
      BY <1>1, <2>1 DEF RestartsFit, NoRestarts, WindsRestarts, WindsPhase, ReaderFits, Pre, Done
    <2>3. y.restartTimer \/ y.queue > 0 \/ y.restarting # "no" => x.restartTimer \/ x.queue > 0 \/ x.restarting # "no"
      BY <2>1 DEF WindsRestarts
    <2> QED BY <1>2, <1>4, <2>1, <2>2, <2>3 DEF RestartsFit
  <1> QED BY <1>1, <1>3, <1>5, <1>6, <1>7, <1>8, <1>9, <1>10 DEF Firm

(* With the same call and the same failure, an end stays honest.           *)
LEMMA WindsHonest ==
  ASSUME NEW s \in Sides, NEW x, NEW y, Firm(s, x), Winds(s, x, y),
         y.phase = x.phase, y.error = x.error, y.failure = x.failure, y.outcome = x.outcome
  PROVE  Fine(s, x, y)
  <1>1. Honest(x) /\ x \in Side /\ y \in Side
    BY DEF Firm, Winds
  <1>2. x.sent \in Nat /\ y.sent \in Nat
    BY <1>1, Counts
  <1>3. y.sent >= x.sent
    BY <1>2 DEF Winds, WindsLink
  <1>4. Honest(y)
    BY <1>1, <1>2, <1>3 DEF Honest, Winds, WindsPeer
  <1>5. Firm(s, y) /\ Steady(s, x, y)
    BY <1>4, WindsFirm
  <1> QED BY <1>5 DEF Fine

(***************************************************************************)
(* The operators again                                                     *)
(***************************************************************************)

Begun(x) == x.phase # "start" \/ x.sent >= 1

LEMMA BegunSent == ASSUME NEW s \in Sides, NEW x, Firm(s, x), Begun(x) PROVE s = "drop" => x.sent # 0
  <1>1. x \in Side /\ LeastTaken(s, x) <= x.sent
    BY DEF Firm
  <1>2. x.sent \in Nat
    BY <1>1, Counts
  <1> QED BY <1>1, <1>2 DEF Begun, LeastTaken, Pre, Done

(* What does nothing to the link.                                          *)
LEMMA QuietLink ==
  ASSUME NEW s, NEW x, NEW y, y.sent = x.sent, y.chain = x.chain, y.stopped = x.stopped, y.exchange = x.exchange,
         y.received = x.received, y.carried = x.carried, y.asked = x.asked
  PROVE  WindsLink(s, x, y)
  BY DEF WindsLink

LEMMA LinkStopFine ==
  ASSUME NEW s \in Sides, NEW x, NEW r \in Reasons, Firm(s, x), Begun(x) \/ x.asked PROVE Fine(s, x, LinkStop(x, r))
  <1>1. x \in Side
    BY DEF Firm
  <1>2. CASE x.stopped \/ x.linkEnded \/ x.sent >= Messages
    <2>1. LinkStop(x, r) = x
      BY <1>2 DEF LinkStop
    <2>2. Winds(s, x, x)
      BY <1>1 DEF Winds, WindsLink, WindsPeer, WindsRestarts, WindsPhase
    <2> QED BY <2>1, <2>2, WindsHonest
  <1>3. CASE ~(x.stopped \/ x.linkEnded \/ x.sent >= Messages)
    <2> DEFINE c == Append(x.chain, StopMsg(r))
               y == [[x EXCEPT !.stopped = TRUE] EXCEPT !.sent = x.sent + 1, !.chain = c]
    <2>1. c \in Seq(Message)
      BY <1>1, AppendedStop
    <2>2. x.sent + 1 \in 0..Messages
      BY <1>1, <1>3, LimitsAssumption DEF Side
    <2>3. LinkStop(x, r) = y
      BY <1>1, <1>3 DEF LinkStop, LinkSend, Side
    <2> HIDE DEF c
    <2>4. /\ y \in Side /\ y.stopped /\ y.chain = c /\ y.sent = x.sent + 1 /\ y.carried = x.carried
          /\ y.exchange = x.exchange /\ y.pc = x.pc /\ y.chan = x.chan
          /\ y.reader = x.reader /\ y.restarting = x.restarting /\ y.pending = x.pending /\ y.queue = x.queue
          /\ y.restartTimer = x.restartTimer /\ y.asked = x.asked
          /\ y.received = x.received /\ y.used = x.used /\ y.everConnected = x.everConnected
          /\ y.failure = x.failure /\ y.phase = x.phase /\ y.outcome = x.outcome /\ y.error = x.error
      BY <1>1, <2>1, <2>2 DEF Side
    <2> HIDE DEF y
    <2>5. \E q \in Reasons : y.chain = Append(x.chain, StopMsg(q))
      BY <2>4 DEF c
    <2>6. s = "drop" /\ x.sent = 0 => x.asked
      BY BegunSent
    <2>7. WindsLink(s, x, y)
      BY <1>3, <2>4, <2>5, <2>6 DEF WindsLink
    <2>8. WindsPeer(x, y) /\ WindsRestarts(x, y) /\ WindsPhase(x, y)
      BY <2>4 DEF WindsPeer, WindsRestarts, WindsPhase
    <2>9. Fine(s, x, y)
      BY <2>4, <2>7, <2>8, WindsHonest DEF Winds
    <2> QED BY <2>3, <2>9
  <1> QED BY <1>2, <1>3

(* An end that stays in everything named here is fine.                     *)
Rests(x, y) ==
  /\ y.sent = x.sent /\ y.chain = x.chain /\ y.stopped = x.stopped /\ y.received = x.received /\ y.carried = x.carried
  /\ y.asked = x.asked /\ y.everConnected = x.everConnected
  /\ y.used = x.used /\ y.queue = x.queue /\ y.pending = x.pending /\ y.restarting = x.restarting
  /\ (y.restartTimer => x.restartTimer)

LEMMA RestsWinds ==
  ASSUME NEW s, NEW x, NEW y, y \in Side, Rests(x, y), y.exchange = x.exchange \/ y.exchange # "open",
         y.reader = x.reader \/ y.reader = "off", WindsPeer(x, y), WindsPhase(x, y)
  PROVE  Winds(s, x, y)
  BY DEF Rests, Winds, WindsLink, WindsRestarts

LEMMA ShutFine == ASSUME NEW s \in Sides, NEW x, Firm(s, x) PROVE Fine(s, x, Shut(x))
  <1>1. x \in Side
    BY DEF Firm
  <1> DEFINE y == [x EXCEPT !.exchange = "closed"]
  <1>2. /\ y \in Side /\ Rests(x, y) /\ y.exchange = "closed" /\ y.reader = x.reader
        /\ y.pc = x.pc /\ y.chan = x.chan /\ y.everConnected = x.everConnected /\ y.phase = x.phase
        /\ y.error = x.error /\ y.failure = x.failure /\ y.outcome = x.outcome
    BY <1>1 DEF Side, Rests
  <1>3. Winds(s, x, x)
    BY <1>1 DEF Winds, WindsLink, WindsPeer, WindsRestarts, WindsPhase
  <1>4. Shut(x) \in {x, y}
    BY DEF Shut
  <1> HIDE DEF y
  <1>5. Winds(s, x, y)
    BY <1>2, RestsWinds DEF WindsPeer, WindsPhase
  <1>6. Fine(s, x, x) /\ Fine(s, x, y)
    BY <1>2, <1>3, <1>5, WindsHonest
  <1> QED BY <1>4, <1>6

LEMMA LinkEndFine == ASSUME NEW s \in Sides, NEW x, Firm(s, x) PROVE Fine(s, x, LinkEnd(x))
  <1> DEFINE z == [x EXCEPT !.linkEnded = TRUE]
  <1>1. x \in Side
    BY DEF Firm
  <1>2. /\ z \in Side /\ Rests(x, z) /\ z.exchange = x.exchange /\ z.reader = x.reader
        /\ z.pc = x.pc /\ z.chan = x.chan /\ z.everConnected = x.everConnected /\ z.phase = x.phase
        /\ z.error = x.error /\ z.failure = x.failure /\ z.outcome = x.outcome
    BY <1>1 DEF Side, Rests
  <1>3. LinkEnd(x) = Shut(z)
    BY DEF LinkEnd
  <1> HIDE DEF z
  <1>4. Winds(s, x, z)
    BY <1>2, RestsWinds DEF WindsPeer, WindsPhase
  <1>5. Fine(s, x, z)
    BY <1>2, <1>4, WindsHonest
  <1>6. Fine(s, z, Shut(z))
    BY <1>5, ShutFine DEF Fine
  <1> QED BY <1>1, <1>3, <1>5, <1>6, FineTrans

LEMMA ClosePeerFine == ASSUME NEW s \in Sides, NEW x, Firm(s, x) PROVE Fine(s, x, ClosePeer(x))
  <1>1. x \in Side
    BY DEF Firm
  <1>2. CASE x.pc \in {"none", "closed"}
    <2>1. ClosePeer(x) = x
      BY <1>2 DEF ClosePeer
    <2>2. Winds(s, x, x)
      BY <1>1 DEF Winds, WindsLink, WindsPeer, WindsRestarts, WindsPhase
    <2> QED BY <2>1, <2>2, WindsHonest
  <1>3. CASE x.pc \notin {"none", "closed"}
    <2> DEFINE c == CASE x.chan = "none" -> "shut" [] x.chan = "open" -> "closed" [] OTHER -> x.chan
               y == [[x EXCEPT !.pc = "closed", !.chan = c]
                       EXCEPT !.connectTimer = FALSE, !.failedTimer = FALSE, !.restartTimer = FALSE]
    <2>1. c \in {"none", "open", "unopened", "shut", "closed"} /\ (c = x.chan \/ x.chan \in {"none", "open"})
      BY <1>1 DEF Side
    <2>2. ClosePeer(x) = y
      BY <1>3 DEF ClosePeer, NoTimers
    <2> HIDE DEF c
    <2>3. /\ y \in Side /\ y.pc = "closed" /\ y.chan = c /\ y.exchange = x.exchange /\ y.reader = x.reader
          /\ y.everConnected = x.everConnected /\ y.phase = x.phase
          /\ y.error = x.error /\ y.failure = x.failure /\ y.outcome = x.outcome
      BY <1>1, <2>1 DEF Side
    <2>4. Rests(x, y)
      BY <1>1, <2>1 DEF Side, Rests
    <2> HIDE DEF y
    <2>5. Winds(s, x, y)
      BY <1>3, <2>1, <2>3, <2>4, RestsWinds DEF WindsPeer, WindsPhase
    <2>6. Fine(s, x, y)
      BY <2>3, <2>5, WindsHonest
    <2> QED BY <2>2, <2>6
  <1> QED BY <1>2, <1>3

LEMMA CloseFine == ASSUME NEW s \in Sides, NEW x, Firm(s, x) PROVE Fine(s, x, Close(x))
  <1>1. Fine(s, x, ClosePeer(x))
    BY ClosePeerFine
  <1>2. Firm(s, ClosePeer(x)) /\ x \in Side
    BY <1>1 DEF Fine, Firm
  <1>3. Fine(s, ClosePeer(x), Close(x))
    BY <1>2, LinkEndFine DEF Close
  <1> QED BY <1>1, <1>2, <1>3, FineTrans

LEMMA BlameFine ==
  ASSUME NEW s \in Sides, NEW x, NEW kind \in Failures, Firm(s, x), Begun(x) \/ x.failure # "none",
         kind = "protocol" => x.failure # "none" \/ x.phase \in Done
  PROVE  Fine(s, x, Blame(x, kind))
  <1> DEFINE y == [x EXCEPT !.failure = kind]
  <1>1. x \in Side /\ Honest(x)
    BY DEF Firm
  <1>2. CASE x.failure # "none"
    <2>1. Blame(x, kind) = x
      BY <1>2 DEF Blame
    <2>2. Winds(s, x, x)
      BY <1>1 DEF Winds, WindsLink, WindsPeer, WindsRestarts, WindsPhase
    <2> QED BY <2>1, <2>2, WindsHonest
  <1>3. CASE x.failure = "none"
    <2>1. Blame(x, kind) = y
      BY <1>3 DEF Blame
    <2>2. /\ y \in Side /\ Rests(x, y) /\ y.exchange = x.exchange /\ y.reader = x.reader
          /\ y.pc = x.pc /\ y.chan = x.chan /\ y.everConnected = x.everConnected /\ y.phase = x.phase
          /\ y.error = x.error /\ y.failure = kind /\ y.outcome = x.outcome
      BY <1>1 DEF Side, Rests
    <2> HIDE DEF y
    <2>3. Winds(s, x, y)
      BY <2>2, RestsWinds DEF WindsPeer, WindsPhase
    <2>4. Honest(y)
      BY <1>1, <1>3, <2>2 DEF Honest, Begun, Rests
    <2>5. Fine(s, x, y)
      BY <2>2, <2>3, <2>4, WindsFirm DEF Fine
    <2> QED BY <2>1, <2>5
  <1> QED BY <1>2, <1>3

LEMMA FinishedFirm ==
  ASSUME NEW s \in Sides, NEW x, NEW o \in Outcomes, Firm(s, x), Begun(x)
  PROVE  LET y == Finished(x, o) IN Firm(s, y) /\ Steady(s, x, y) /\ y.outcome = o /\ y.chan = x.chan
  <1> DEFINE y == [[x EXCEPT !.phase = "closing", !.outcome = o, !.watching = FALSE]
                     EXCEPT !.connectTimer = FALSE, !.failedTimer = FALSE, !.restartTimer = FALSE]
  <1>1. Finished(x, o) = y /\ "closing" \in Phases /\ x \in Side /\ Honest(x)
    BY DEF Finished, NoTimers, Phases, Firm
  <1>2. /\ y \in Side /\ y.exchange = x.exchange /\ y.reader = x.reader
        /\ y.pc = x.pc /\ y.chan = x.chan /\ y.everConnected = x.everConnected /\ y.phase = "closing" /\ y.outcome = o
    BY <1>1 DEF Side
  <1>3. Rests(x, y)
    BY <1>1 DEF Side, Rests
  <1> HIDE DEF y
  <1>4. Winds(s, x, y)
    BY <1>2, <1>3, RestsWinds DEF WindsPeer, WindsPhase, Done, Begun
  <1>5. Honest(y)
    BY <1>1, <1>2 DEF Honest, Done
  <1>6. Firm(s, y) /\ Steady(s, x, y)
    BY <1>4, <1>5, WindsFirm
  <1> QED BY <1>1, <1>2, <1>6

LEMMA FinishedFine ==
  ASSUME NEW s \in Sides, NEW x, NEW o \in Outcomes, Firm(s, x), Begun(x), o = "protocol" => x.chan = "unopened"
  PROVE  Fine(s, x, Finished(x, o))
  BY FinishedFirm DEF Fine

(* An error that is no breach by the other end: it is none, or is reported *)
(* as something else, or the channel never opened.                         *)
Fair(x, e) ==
  e = "protocol" => x.chan = "unopened" \/ (x.failure # "none" /\ x.phase \in CallPhases)

LEMMA RejectedFine ==
  ASSUME NEW s \in Sides, NEW x, NEW e \in Failures, Firm(s, x), Begun(x), x.phase \notin Done, Fair(x, e)
  PROVE  Fine(s, x, Rejected(s, x, e))
  <1> DEFINE kind == Settled(x, e)
             told == IF StopFor(s, kind) = "none" THEN x ELSE LinkStop(x, StopFor(s, kind))
  <1>1. x \in Side /\ Honest(x)
    BY DEF Firm
  <1>2. kind \in Failures /\ kind \in Outcomes /\ (kind = "protocol" => x.chan = "unopened")
    BY <1>1 DEF Settled, Side, Outcomes, Fair, Honest
  <1>3. Rejected(s, x, e) = Finished(told, kind)
    BY DEF Rejected, Settled
  <1>4. StopFor(s, kind) \in Reasons
    BY DEF StopFor, Reasons
  <1>5. Winds(s, x, x)
    BY <1>1 DEF Winds, WindsLink, WindsPeer, WindsRestarts, WindsPhase
  <1>6. Fine(s, x, x)
    BY <1>5, WindsHonest
  <1>7. Fine(s, x, told) /\ told.phase = x.phase
    BY <1>1, <1>4, <1>6, LinkStopFine, LinkStopEases DEF Eases
  <1> HIDE DEF kind, told
  <1>8. Firm(s, told) /\ told \in Side /\ told.sent >= x.sent /\ (x.chan = "unopened" => told.chan = "unopened")
    BY <1>7 DEF Fine, Firm, Steady
  <1>9. Begun(told)
    BY <1>1, <1>7, <1>8, Counts DEF Begun
  <1>10. Fine(s, told, Finished(told, kind))
    BY <1>2, <1>8, <1>9, FinishedFine
  <1> QED BY <1>1, <1>3, <1>7, <1>10, FineTrans

LEMMA CaughtFine ==
  ASSUME NEW s \in Sides, NEW x, NEW e \in Failures, Firm(s, x), Begun(x), x.phase \notin Done, Fair(x, e)
  PROVE  Fine(s, x, Caught(s, x, e))
  <1>1. CASE s = "drop" /\ x.phase \in {"connecting", "moving"}
    <2> DEFINE y == [x EXCEPT !.phase = "aborting", !.error = e]
    <2>1. Caught(s, x, e) = y /\ "aborting" \in Phases /\ x \in Side /\ Honest(x)
      BY <1>1 DEF Caught, Phases, CallPhases, Firm
    <2>2. /\ y \in Side /\ Rests(x, y) /\ y.exchange = x.exchange /\ y.reader = x.reader
          /\ y.pc = x.pc /\ y.chan = x.chan /\ y.everConnected = x.everConnected /\ y.phase = "aborting" /\ y.error = e
          /\ y.failure = x.failure /\ y.outcome = x.outcome
      BY <2>1 DEF Side, Rests
    <2> HIDE DEF y
    <2>3. Winds(s, x, y)
      BY <1>1, <2>2, RestsWinds DEF WindsPeer, WindsPhase
    <2>4. Honest(y)
      BY <1>1, <2>1, <2>2 DEF Honest, Done, Fair
    <2>5. Fine(s, x, y)
      BY <2>2, <2>3, <2>4, WindsFirm DEF Fine
    <2> QED BY <2>1, <2>5
  <1>2. CASE ~(s = "drop" /\ x.phase \in {"connecting", "moving"})
    <2>1. Caught(s, x, e) = Rejected(s, x, e)
      BY <1>2 DEF Caught
    <2> QED BY <2>1, RejectedFine
  <1> QED BY <1>1, <1>2

(* Whatever the error, a call that has no sink yet settles.                *)
LEMMA CaughtFirm ==
  ASSUME NEW s \in Sides, NEW x, NEW e \in Failures, Firm(s, x), Begun(x), x.phase \notin Done \cup {"connecting", "moving"}
  PROVE  Firm(s, Caught(s, x, e)) /\ Steady(s, x, Caught(s, x, e))
  <1> DEFINE kind == Settled(x, e)
             told == IF StopFor(s, kind) = "none" THEN x ELSE LinkStop(x, StopFor(s, kind))
  <1>1. x \in Side
    BY DEF Firm
  <1>2. kind \in Outcomes
    BY <1>1 DEF Settled, Side, Outcomes
  <1>3. Caught(s, x, e) = Finished(told, kind)
    BY DEF Caught, Rejected, Settled
  <1>4. StopFor(s, kind) \in Reasons
    BY DEF StopFor, Reasons
  <1>5. Winds(s, x, x)
    BY <1>1 DEF Winds, WindsLink, WindsPeer, WindsRestarts, WindsPhase
  <1>6. Fine(s, x, x)
    BY <1>5, WindsHonest
  <1>7. Fine(s, x, told) /\ told.phase = x.phase
    BY <1>1, <1>4, <1>6, LinkStopFine, LinkStopEases DEF Eases
  <1> HIDE DEF kind, told
  <1>8. Firm(s, told) /\ told \in Side /\ told.sent >= x.sent /\ Steady(s, x, told)
    BY <1>7 DEF Fine, Firm, Steady
  <1>9. Begun(told)
    BY <1>1, <1>7, <1>8, Counts DEF Begun
  <1> DEFINE y == Finished(told, kind)
  <1>10. Firm(s, y) /\ Steady(s, told, y)
    BY <1>2, <1>8, <1>9, FinishedFirm
  <1> HIDE DEF y
  <1>11. x.sent \in Nat /\ told.sent \in Nat /\ y.sent \in Nat
    BY <1>1, <1>8, <1>10, Counts DEF Firm
  <1>12. Steady(s, x, y)
    BY <1>8, <1>10, <1>11 DEF Steady
  <1> QED BY <1>3, <1>10, <1>12 DEF y

LEMMA FineFirm == ASSUME NEW s, NEW x, NEW y, Fine(s, x, y) PROVE Firm(s, y) /\ y \in Side
  BY DEF Fine, Firm

(* A loop stops reading, and with it Drop's wait for an answer.            *)
LEMMA OffFine ==
  ASSUME NEW s \in Sides, NEW x, Firm(s, x)
  PROVE  /\ Fine(s, x, [x EXCEPT !.reader = "off"])
         /\ x.reader # "off" => Fine(s, x, DropPending([x EXCEPT !.reader = "off"]))
  <1> DEFINE c == [x EXCEPT !.reader = "off"]
             q == IF c.pending # None /\ c.restarting = "waiting" THEN "no" ELSE c.restarting
             d == [c EXCEPT !.pending = None, !.restarting = q]
  <1>1. x \in Side
    BY DEF Firm
  <1>2. /\ c \in Side /\ c.reader = "off" /\ Rests(x, c) /\ c.exchange = x.exchange
        /\ c.pc = x.pc /\ c.chan = x.chan /\ c.everConnected = x.everConnected /\ c.phase = x.phase
        /\ c.error = x.error /\ c.failure = x.failure /\ c.outcome = x.outcome
    BY <1>1 DEF Side, Rests
  <1>3. DropPending(c) = d
    BY <1>2 DEF DropPending, Side
  <1> HIDE DEF c
  <1>4. q \in {"no", "describing", "sending", "waiting"} /\ q \in {x.restarting, "no"} /\ None \in -1..Messages
    BY <1>2, LimitsAssumption DEF Side, None, Rests
  <1> HIDE DEF q
  <1>5. /\ d \in Side /\ d.reader = "off" /\ d.exchange = c.exchange /\ d.restarting = q
        /\ d.sent = c.sent /\ d.chain = c.chain /\ d.stopped = c.stopped /\ d.received = c.received
        /\ d.carried = c.carried /\ d.asked = c.asked /\ d.used = c.used /\ d.queue = c.queue
        /\ d.restartTimer = c.restartTimer
        /\ d.pc = c.pc /\ d.chan = c.chan /\ d.everConnected = c.everConnected /\ d.phase = c.phase
        /\ d.error = c.error /\ d.failure = c.failure /\ d.outcome = c.outcome
    BY <1>2, <1>4 DEF Side
  <1> HIDE DEF d
  <1>6. Winds(s, x, c)
    BY <1>2, RestsWinds DEF WindsPeer, WindsPhase
  <1>7. WindsLink(s, x, d) /\ WindsPeer(x, d) /\ WindsPhase(x, d)
    BY <1>2, <1>5 DEF WindsLink, WindsPeer, WindsPhase, Rests
  <1>8. x.reader # "off" => Winds(s, x, d)
    BY <1>2, <1>4, <1>5, <1>7 DEF Winds, WindsRestarts, Rests
  <1>9. Fine(s, x, c) /\ (x.reader # "off" => Fine(s, x, d))
    BY <1>2, <1>5, <1>6, <1>8, WindsHonest
  <1> QED BY <1>3, <1>9 DEF c

LEMMA GiveUpFine ==
  ASSUME NEW s \in Sides, NEW x, Firm(s, x), x.watching => Begun(x) PROVE Fine(s, x, GiveUp(s, x))
  <1> DEFINE b == Blame(x, Why(x))
             shut == Close(b)
  <1>1. Why(x) \in Failures /\ Why(x) # "protocol" /\ x \in Side
    BY DEF Why, Failures, Firm
  <1>2. GiveUp(s, x) = IF ~x.watching THEN x
                       ELSE IF x.phase \in {"connecting", "moving"} THEN Caught(s, shut, Why(x)) ELSE shut
    BY DEF GiveUp, Why
  <1>3. CASE ~x.watching
    <2>1. Winds(s, x, x)
      BY <1>1 DEF Winds, WindsLink, WindsPeer, WindsRestarts, WindsPhase
    <2> QED BY <1>2, <1>3, <2>1, WindsHonest
  <1>4. CASE x.watching
    <2>1. Fine(s, x, b) /\ b.phase = x.phase
      BY <1>1, <1>4, BlameFine, BlameDoes DEF Side
    <2> HIDE DEF b
    <2>2. Firm(s, b) /\ b \in Side
      BY <2>1, FineFirm
    <2>3. Fine(s, b, shut) /\ shut.phase = b.phase
      BY <2>2, CloseFine, CloseEases DEF Eases
    <2> HIDE DEF shut
    <2>4. Firm(s, shut) /\ Fine(s, x, shut)
      BY <1>1, <2>1, <2>3, FineTrans, FineFirm
    <2>5. ASSUME x.phase \in {"connecting", "moving"} PROVE Fine(s, x, Caught(s, shut, Why(x)))
      <3>1. Begun(shut) /\ shut.phase \notin Done /\ Fair(shut, Why(x))
        BY <1>1, <2>1, <2>3, <2>5 DEF Begun, Done, Fair
      <3>2. Fine(s, shut, Caught(s, shut, Why(x)))
        BY <1>1, <2>4, <3>1, CaughtFine
      <3> QED BY <1>1, <2>4, <3>2, FineTrans
    <2> QED BY <1>2, <1>4, <2>4, <2>5
  <1> QED BY <1>3, <1>4

LEMMA FailFine ==
  ASSUME NEW s \in Sides, NEW x, NEW kind \in Failures \ {"none"}, Firm(s, x), x.reader # "off",
         kind = "protocol" => x.failure # "none" \/ x.phase \in Done
  PROVE  Fine(s, x, Fail(s, x, kind))
  <1> DEFINE a == Blame(x, kind)
             d == DropPending([a EXCEPT !.reader = "off"])
             g == GiveUp(s, d)
  <1>1. x \in Side /\ x.phase # "start"
    BY DEF Firm, ReaderFits, Done
  <1>2. Fine(s, x, a) /\ a.reader = x.reader /\ a.phase = x.phase
    BY <1>1, BlameFine, BlameDoes DEF Begun, Side
  <1>3. Fail(s, x, kind) = ClosePeer(g)
    BY DEF Fail
  <1> HIDE DEF a
  <1>4. Firm(s, a) /\ a \in Side
    BY <1>2, FineFirm
  <1>5. Fine(s, a, d)
    BY <1>2, <1>4, OffFine
  <1>6. d.phase = a.phase
    <2>1. [a EXCEPT !.reader = "off"] \in Side /\ [a EXCEPT !.reader = "off"].phase = a.phase
      BY <1>4 DEF Side
    <2> QED BY <2>1, DropPendingEases DEF Eases
  <1> HIDE DEF d
  <1>7. Firm(s, d) /\ Fine(s, x, d)
    BY <1>1, <1>2, <1>5, FineTrans, FineFirm
  <1>8. Fine(s, d, g)
    BY <1>1, <1>2, <1>6, <1>7, GiveUpFine DEF Begun
  <1> HIDE DEF g
  <1>9. Firm(s, g) /\ Fine(s, x, g)
    BY <1>1, <1>7, <1>8, FineTrans, FineFirm
  <1>10. Fine(s, g, ClosePeer(g))
    BY <1>9, ClosePeerFine
  <1> QED BY <1>1, <1>3, <1>9, <1>10, FineTrans

LEMMA NoMoreRestartsFine ==
  ASSUME NEW x, Firm("page", x), x.reader # "off" PROVE Fine("page", x, NoMoreRestarts(x))
  <1> DEFINE c == [x EXCEPT !.reader = "off"]
  <1>1. "page" \in Sides /\ x \in Side /\ x.phase # "start"
    BY DEF Sides, Firm, ReaderFits, Done
  <1>2. Fine("page", x, c) /\ c.phase = x.phase
    BY <1>1, OffFine DEF Side
  <1>3. NoMoreRestarts(x) = IF x.pc = "failed" THEN GiveUp("page", c) ELSE c
    BY DEF NoMoreRestarts
  <1> HIDE DEF c
  <1>4. Firm("page", c)
    BY <1>2, FineFirm
  <1>5. Fine("page", c, GiveUp("page", c))
    BY <1>1, <1>2, <1>4, GiveUpFine DEF Begun
  <1>6. Fine("page", x, GiveUp("page", c))
    BY <1>1, <1>2, <1>5, FineTrans
  <1> QED BY <1>2, <1>3, <1>6

(***************************************************************************)
(* Steps that take an index                                                *)
(***************************************************************************)

(* What taking an index leaves alone.                                      *)
Sends(s, x, y, e) ==
  /\ y \in Side /\ y.sent = x.sent + 1 /\ y.chain = Append(x.chain, Msg(e))
  /\ y.received = x.received /\ y.carried = x.carried /\ y.exchange = x.exchange /\ y.asked = x.asked
  /\ y.stopped = x.stopped /\ y.chan = x.chan /\ y.failure = x.failure /\ y.error = x.error /\ y.outcome = x.outcome
  /\ y.pc = x.pc \/ (x.pc = "failed" /\ y.pc = "connecting")
  /\ y.used = x.used /\ y.queue = x.queue /\ y.restartTimer = x.restartTimer /\ y.everConnected = x.everConnected

LEMMA SendsSteady ==
  ASSUME NEW s \in Sides, NEW x, NEW y, NEW e \in SendsOf(s) \ {"stop"}, Firm(s, x), ~x.stopped, Sends(s, x, y, e),
         y.phase = x.phase \/ (y.phase = OutPhase(e) /\ e \in Waited /\ x.phase \notin Done), e = "invite" => x.phase \in Pre,
         e \in AllowedEvents(s, x.sent), e = "restart-answer" => x.sent < x.received
  PROVE  ChainLegal(s, y) /\ Steady(s, x, y) /\ Honest(y)
  <1>1. x \in Side /\ y \in Side /\ ChainLegal(s, x) /\ Honest(x)
    BY DEF Firm, Sends
  <1>2. x.sent \in Nat
    BY <1>1, Counts
  <1>3. Msg(e) \in Message /\ Msg(e).event = e
    BY MsgType
  <1>4. LegalAt(s, y, Msg(e), x.sent)
    BY <1>3 DEF LegalAt
  <1>5. ChainLegal(s, y) /\ Carried(y) = Carried(x)
    BY <1>1, <1>3, <1>4, ChainGrows DEF Sends
  <1>6. y.sent >= x.sent
    BY <1>2 DEF Sends
  <1>7. y.phase = x.phase \/ (y.phase \notin Done \cup {"start", "aborting", "preparing"} /\ (y.phase \in Pre => x.phase \in Pre))
    BY DEF OutPhase, Waited, Done, Pre
  <1>8. Steady(s, x, y)
    BY <1>1, <1>5, <1>6, <1>7 DEF Steady, Sends
  <1>9. Honest(y)
    BY <1>1, <1>2, <1>6, <1>7 DEF Honest, Sends
  <1> QED BY <1>5, <1>8, <1>9

(* The calls' own messages each have the index the protocol gives them.    *)
LEMMA CallSendsFine ==
  ASSUME NEW s \in Sides, NEW x, NEW e, Sound(s, x), Firm(s, x), Refusal(x) = "none",
         \/ s = "page" /\ x.phase = "choosing" /\ e = "manifest"
         \/ s = "page" /\ x.phase = "answering" /\ e = "answer"
         \/ s = "drop" /\ x.phase = "start" /\ e = "invite"
         \/ s = "drop" /\ x.phase = "deciding" /\ e = "decline"
         \/ s = "drop" /\ x.phase = "offering" /\ e = "accept"
  PROVE  Fine(s, x, [LinkSend(x, Msg(e)) EXCEPT !.phase = OutPhase(e)])
  <1> DEFINE n == x.sent + 1
             c == Append(x.chain, Msg(e))
             p == OutPhase(e)
             z == [x EXCEPT !.sent = n, !.chain = c]
             y == [z EXCEPT !.phase = p]
  <1>1. x \in Side /\ IndexFits(s, x) /\ ~x.stopped /\ ~(x.sent >= Messages) /\ ReaderFits(x) /\ LeastTaken(s, x) <= x.sent
    BY DEF Sound, SideInv, Refusal, Firm
  <1>2. e \in SendsOf(s) \ {"stop"} /\ e \in Waited /\ x.phase \notin Done
    BY DEF SendsOf, Waited, Done
  <1>3. p \in Phases
    BY DEF OutPhase, Phases, CallPhases
  <1>4. x.sent \in Nat /\ x.used \in Nat /\ Messages \in Nat /\ Messages >= 3 /\ n = x.sent + 1 /\ n \in 0..Messages
    BY <1>1, Counts
  <1>5. c \in Seq(Message)
    BY <1>1, <1>2, MsgType DEF Side
  <1>6. [LinkSend(x, Msg(e)) EXCEPT !.phase = OutPhase(e)] = y
    BY <1>1 DEF LinkSend, Side
  <1>7. p = OutPhase(e) /\ c = Append(x.chain, Msg(e)) OBVIOUS
  <1> HIDE DEF n, c, p
  <1>8. z \in Side /\ z.sent = n /\ z.chain = c
    BY <1>1, <1>4, <1>5 DEF Side
  <1>9. y \in Side
    BY <1>3, <1>8, PhaseType
  <1>10. /\ y.sent = n /\ y.chain = c /\ y.phase = p /\ y.reader = x.reader /\ y.restarting = x.restarting /\ y.pending = x.pending
         /\ Sends(s, x, y, e)
    BY <1>1, <1>4, <1>7, <1>9 DEF Side, Sends
  <1> HIDE DEF y, z
  <1>11. x.reader = "off"
    BY <1>1 DEF ReaderFits, Done
  <1>13. s = "drop" => NoRestarts(x)
    BY DEF Firm, RestartsFit, Pre
  <1>14. x.sent = IF e \in {"manifest", "invite"} THEN 0 ELSE 1
    <2>1. x.sent <= MostTaken(s, x)
      BY <1>1 DEF IndexFits
    <2>2. MostTaken(s, x) <= LeastTaken(s, x)
      BY <1>4, <1>13 DEF MostTaken, LeastTaken, NoRestarts, Pre, Done
    <2>3. LeastTaken(s, x) = IF e \in {"manifest", "invite"} THEN 0 ELSE 1
      <3>1. CASE s = "page"
        BY <3>1 DEF LeastTaken, Done
      <3>2. CASE s = "drop"
        BY <3>2 DEF LeastTaken, Pre, Done
      <3> QED BY <3>1, <3>2 DEF Sides
    <2>4. MostTaken(s, x) \in Int
      BY <1>4, LimitsAssumption DEF MostTaken
    <2> QED BY <1>1, <1>4, <2>1, <2>2, <2>3, <2>4
  <1>15. e \in AllowedEvents(s, x.sent)
    BY <1>4, <1>14 DEF AllowedEvents
  <1>16. ChainLegal(s, y) /\ Steady(s, x, y) /\ Honest(y)
    BY <1>1, <1>2, <1>7, <1>10, <1>15, SendsSteady DEF Pre
  <1>17. LeastTaken(s, y) <= y.sent /\ ReaderFits(y)
    BY <1>4, <1>7, <1>10, <1>11, <1>14 DEF LeastTaken, OutPhase, Pre, Done, ReaderFits
  <1>18. s = "page" => PageTurn(y)
    BY <1>4, <1>7, <1>10, <1>11, <1>14 DEF PageTurn, OutPhase
  <1>19. s = "drop" => DropTurn(y)
    BY <1>4, <1>7, <1>10, <1>11, <1>13, <1>14 DEF DropTurn, OutPhase, NoRestarts, Awaited, AcceptPhases
  <1>20. s = "drop" => RestartsFit(y)
    BY <1>7, <1>10, <1>13 DEF RestartsFit, OutPhase, NoRestarts, Sends
  <1>21. Fine(s, x, y)
    BY <1>9, <1>10, <1>16, <1>17, <1>18, <1>19, <1>20 DEF Fine, Firm, Sends
  <1> QED BY <1>6, <1>21

(* A stop in the chain: an ended link whose exchange is open has stopped.  *)
LEMMA EndedStopped ==
  ASSUME NEW s \in Sides, NEW x, Sound(s, x), Firm(s, x), x.linkEnded, x.exchange = "open" PROVE x.stopped
  <1>1. StopInChain(x)
    BY DEF Sound, SideInv, EndFits
  <1>2. PICK i \in 1..Len(x.chain) : x.chain[i].event = "stop"
    BY <1>1 DEF StopInChain
  <1> QED BY <1>2 DEF Firm, ChainLegal

(* Link.send refuses nothing for want of an index.                         *)
LEMMA NeverFull ==
  ASSUME NEW s \in Sides, NEW x, Sound(s, x) PROVE Refusal(x) \in {"none", "expired", "cancelled"}
  <1>1. x \in Side /\ IndexFits(s, x)
    BY DEF Sound, SideInv
  <1>2. x.sent \in 0..Messages /\ x.used \in 0..Restarts /\ Restarts \in Nat /\ Messages \in Nat /\ Messages >= Restarts + 3
    BY <1>1, LimitsAssumption DEF Side
  <1>3. MostTaken(s, x) <= 2 + Restarts /\ MostTaken(s, x) \in Int
    BY <1>2 DEF MostTaken
  <1>4. ~x.stopped => x.sent < Messages
    BY <1>1, <1>2, <1>3 DEF IndexFits
  <1> QED BY <1>2, <1>4 DEF Refusal

LEMMA SendOrFine ==
  ASSUME NEW s \in Sides, NEW x, NEW e, Sound(s, x), Firm(s, x),
         \/ s = "page" /\ x.phase = "choosing" /\ e = "manifest"
         \/ s = "page" /\ x.phase = "answering" /\ e = "answer"
         \/ s = "drop" /\ x.phase = "start" /\ e = "invite"
         \/ s = "drop" /\ x.phase = "offering" /\ e = "accept"
  PROVE  Fine(s, x, SendOr(s, x, Msg(e), OutPhase(e)))
  <1>1. CASE Refusal(x) = "none"
    BY <1>1, CallSendsFine DEF SendOr
  <1>2. CASE Refusal(x) # "none"
    <2>1. Refusal(x) \in Failures /\ Fair(x, Refusal(x))
      BY <1>2, NeverFull DEF Failures, Fair
    <2>2. x.phase \notin Done
      BY DEF Done
    <2>3. Begun(x)
      <3>1. CASE x.phase # "start"
        BY <3>1 DEF Begun
      <3>2. CASE x.phase = "start"
        <4>1. x.linkEnded \/ x.stopped
          BY <1>2, NeverFull DEF Refusal
        <4>2. x.failure # "none"
          BY <2>2, <4>1 DEF Sound, SideInv, ReasonFits
        <4> QED BY <3>2, <4>2 DEF Firm, Honest, Begun
      <3> QED BY <3>1, <3>2
    <2> QED BY <1>2, <2>1, <2>2, <2>3, CaughtFine DEF SendOr
  <1> QED BY <1>1, <1>2

(* Only what an end keeps about Drop's restarts changes.                   *)
Apart(x, y) ==
  /\ y \in Side /\ y.sent = x.sent /\ y.chain = x.chain /\ y.stopped = x.stopped /\ y.received = x.received
  /\ y.carried = x.carried /\ y.exchange = x.exchange /\ y.asked = x.asked /\ y.phase = x.phase
  /\ y.failure = x.failure /\ y.error = x.error /\ y.outcome = x.outcome /\ y.reader = x.reader
  /\ y.pc = x.pc /\ y.chan = x.chan

LEMMA ApartFine ==
  ASSUME NEW x, NEW y, Firm("drop", x), Apart(x, y), DropTurn(y), RestartsFit(y) PROVE Fine("drop", x, y)
  <1>1. x \in Side /\ y \in Side /\ ChainLegal("drop", x) /\ Honest(x) /\ ReaderFits(x) /\ LeastTaken("drop", x) <= x.sent
        /\ "drop" \in Sides
    BY DEF Firm, Apart, Sides
  <1>2. x.sent \in Nat /\ x.received \in Nat
    BY <1>1, Counts
  <1>3. ChainLegal("drop", y) /\ Carried(y) = Carried(x)
    BY <1>1, <1>2, ChainStays DEF Apart
  <1>4. LeastTaken("drop", y) <= y.sent /\ ReaderFits(y) /\ Honest(y)
    BY <1>1 DEF LeastTaken, ReaderFits, Honest, Apart
  <1>5. Steady("drop", x, y)
    BY <1>2, <1>3 DEF Steady, Apart
  <1> QED BY <1>1, <1>3, <1>4, <1>5 DEF Fine, Firm, Apart

(* Drop's restart takes the next index, and the answer it waits for is the *)
(* next it reads.                                                          *)
LEMMA RestartOffersFine ==
  ASSUME NEW x, Sound("drop", x), Firm("drop", x), x.restarting = "describing"
  PROVE  LET y == [x EXCEPT !.pending = x.sent] IN
         /\ Fine("drop", x, [x EXCEPT !.restarting = "no"])
         /\ Fine("drop", x, IF Refusal(y) # "none" THEN [y EXCEPT !.restarting = "no"]
                            ELSE [LinkSend(y, Msg("restart")) EXCEPT !.restarting = "sending"])
  <1> DEFINE y == [x EXCEPT !.pending = x.sent]
             a == [x EXCEPT !.restarting = "no"]
             b == [y EXCEPT !.restarting = "no"]
             c == [LinkSend(y, Msg("restart")) EXCEPT !.restarting = "sending"]
  <1>1. x \in Side /\ "drop" \in Sides /\ DropTurn(x) /\ RestartsFit(x) /\ IndexFits("drop", x) /\ LeastTaken("drop", x) <= x.sent
        /\ ReaderFits(x)
    BY DEF Sound, SideInv, Sides, Firm
  <1>2. /\ x.sent \in Nat /\ x.used \in Nat /\ x.used <= Restarts /\ Restarts \in Nat /\ Messages \in Nat /\ Messages >= Restarts + 3
        /\ x.sent \in -1..Messages
    BY <1>1, LimitsAssumption DEF Side
  <1>3. x.sent >= 2 /\ x.phase \notin Pre
    BY <1>1 DEF RestartsFit, NoRestarts
  <1>4. ASSUME ~x.stopped, x.exchange = "open", x.phase \in AcceptPhases \/ x.reader = "reading"
        PROVE  x.pending = None /\ x.sent = Awaited(x)
    BY <1>1, <1>4 DEF DropTurn
  <1>5. /\ Apart(x, a) /\ a.restarting = "no" /\ a.pending = x.pending /\ a.queue = x.queue /\ a.restartTimer = x.restartTimer
        /\ Apart(x, b) /\ b.restarting = "no" /\ b.queue = x.queue /\ b.restartTimer = x.restartTimer
    BY <1>1, <1>2 DEF Side, Apart
  <1>6. y.linkEnded = x.linkEnded /\ y.stopped = x.stopped /\ y.sent = x.sent
    BY <1>1 DEF Side
  <1>7. Refusal(y) = Refusal(x)
    BY <1>6 DEF Refusal
  <1>8. Fine("drop", x, a)
    <2> HIDE DEF a
    <2>1. DropTurn(a)
      BY <1>4, <1>5 DEF DropTurn, Awaited, Apart
    <2>2. RestartsFit(a)
      BY <1>2, <1>3, <1>5 DEF RestartsFit, Apart
    <2> QED BY <1>5, <2>1, <2>2, ApartFine
  <1>9. ASSUME Refusal(x) # "none" PROVE Fine("drop", x, b)
    <2>1. x.stopped \/ x.exchange # "open"
      BY <1>1, <1>9, NeverFull, EndedStopped DEF Refusal
    <2> HIDE DEF b
    <2>2. DropTurn(b)
      BY <1>5, <2>1 DEF DropTurn, Apart
    <2>3. RestartsFit(b)
      BY <1>2, <1>3, <1>5 DEF RestartsFit, Apart
    <2> QED BY <1>5, <2>2, <2>3, ApartFine
  <1>10. ASSUME Refusal(x) = "none" PROVE Fine("drop", x, c)
    <2>1. ~x.stopped /\ ~(x.sent >= Messages)
      BY <1>10 DEF Refusal
    <2> DEFINE n == x.sent + 1
               k == Append(x.chain, Msg("restart"))
               z == [x EXCEPT !.pending = x.sent, !.sent = n, !.chain = k, !.restarting = "sending"]
    <2>2. n \in 0..Messages /\ n = x.sent + 1
      BY <1>2, <2>1
    <2>3. "restart" \in SendsOf("drop") \ {"stop"} /\ "restart" \notin Waited
      BY DEF SendsOf, Waited
    <2>4. k \in Seq(Message) /\ k = Append(x.chain, Msg("restart"))
      BY <1>1, <2>3, MsgType DEF Side
    <2>5. c = z
      BY <1>1 DEF LinkSend, Side
    <2> HIDE DEF n, k
    <2>6. z \in Side
      BY <1>1, <1>2, <2>2, <2>4 DEF Side
    <2>7. /\ z.phase = x.phase /\ z.restarting = "sending" /\ z.pending = x.sent /\ z.reader = x.reader /\ z.sent = n
          /\ Sends("drop", x, z, "restart")
      BY <1>1, <2>2, <2>4, <2>6 DEF Side, Sends
    <2> HIDE DEF z
    <2>8. x.sent <= 1 + Restarts
      BY <1>1, <1>2, <2>1 DEF IndexFits, MostTaken
    <2>9. "restart" \in AllowedEvents("drop", x.sent)
      BY <1>2, <1>3, <2>8 DEF AllowedEvents
    <2>10. ChainLegal("drop", z) /\ Steady("drop", x, z) /\ Honest(z)
      BY <1>1, <2>1, <2>3, <2>7, <2>9, SendsSteady
    <2>11. LeastTaken("drop", z) <= z.sent /\ ReaderFits(z)
      BY <1>1, <1>2, <2>2, <2>7 DEF LeastTaken, ReaderFits
    <2>12. DropTurn(z)
      BY <1>2, <1>4, <2>1, <2>2, <2>7 DEF DropTurn, Awaited, Sends, None
    <2>13. RestartsFit(z)
      BY <1>2, <1>3, <2>2, <2>7 DEF RestartsFit
    <2>14. Fine("drop", x, z)
      BY <2>6, <2>7, <2>10, <2>11, <2>12, <2>13 DEF Fine, Firm, Sends
    <2> QED BY <2>5, <2>14
  <1> HIDE DEF a, b, c
  <1> QED BY <1>7, <1>8, <1>9, <1>10 DEF a, b, c

(* The page's connection may try again.                                    *)
LEMMA RetryFine ==
  ASSUME NEW s \in Sides, NEW x, Firm(s, x), NEW g, g = IF x.pc = "failed" THEN "connecting" ELSE x.pc
  PROVE  Fine(s, x, [x EXCEPT !.pc = g])
  <1> DEFINE y == [x EXCEPT !.pc = g]
  <1>1. x \in Side
    BY DEF Firm
  <1>2. g \in Trying \cup {"none", "failed", "closed"} /\ (g = x.pc \/ (g = "connecting" /\ x.pc = "failed"))
    BY <1>1 DEF Side, Trying
  <1>3. /\ y \in Side /\ Rests(x, y) /\ y.exchange = x.exchange /\ y.reader = x.reader
        /\ y.pc = g /\ y.chan = x.chan /\ y.everConnected = x.everConnected /\ y.phase = x.phase
        /\ y.error = x.error /\ y.failure = x.failure /\ y.outcome = x.outcome
    BY <1>1, <1>2 DEF Side, Rests
  <1> HIDE DEF y
  <1>4. Winds(s, x, y)
    BY <1>2, <1>3, RestsWinds DEF WindsPeer, WindsPhase
  <1>5. Fine(s, x, y)
    BY <1>3, <1>4, WindsHonest
  <1> QED BY <1>5 DEF y

(* The page answers a restart under the index the restart had.             *)
LEMMA AnswersRestartFine ==
  ASSUME NEW x, Sound("page", x), Firm("page", x), x.reader = "describing"
  PROVE  LET y == [x EXCEPT !.pc = IF @ = "failed" THEN "connecting" ELSE @] IN
         /\ Fine("page", x, NoMoreRestarts(x))
         /\ Refusal(x) # "expired" =>
              Fine("page", x, IF Refusal(x) # "none" THEN Fail("page", y, Refusal(x))
                              ELSE [LinkSend(y, Msg("restart-answer")) EXCEPT !.reader = "sending"])
  <1> DEFINE g == IF x.pc = "failed" THEN "connecting" ELSE x.pc
             y == [x EXCEPT !.pc = g]
  <1>0. y = [x EXCEPT !.pc = IF @ = "failed" THEN "connecting" ELSE @] OBVIOUS
  <1>1. x \in Side /\ IndexFits("page", x) /\ "page" \in Sides /\ PageTurn(x) /\ ReaderFits(x) /\ LeastTaken("page", x) <= x.sent
    BY DEF Sound, SideInv, Sides, Firm
  <1>2. Fine("page", x, NoMoreRestarts(x))
    BY NoMoreRestartsFine
  <1>3. Fine("page", x, y) /\ y.reader = x.reader
    BY <1>1, RetryFine DEF Side
  <1>4. g \in Trying \cup {"none", "failed", "closed"} /\ (g = x.pc \/ (g = "connecting" /\ x.pc = "failed"))
    BY <1>1 DEF Side, Trying
  <1>5. /\ x.sent \in Nat /\ x.received \in Nat /\ Restarts \in Nat /\ Messages \in Nat /\ Messages >= Restarts + 3
        /\ x.received <= 2 + Restarts
    BY <1>1, Counts DEF IndexFits
  <1> HIDE DEF g
  <1>6. ASSUME Refusal(x) \notin {"none", "expired"} PROVE Fine("page", x, Fail("page", y, Refusal(x)))
    <2>1. Refusal(x) \in Failures \ {"none"} /\ Refusal(x) # "protocol"
      BY <1>1, <1>6, NeverFull DEF Failures
    <2> HIDE DEF y
    <2>2. Fine("page", y, Fail("page", y, Refusal(x)))
      BY <1>1, <1>3, <2>1, FineFirm, FailFine
    <2> QED BY <1>1, <1>3, <2>2, FineTrans
  <1>7. ASSUME Refusal(x) = "none" PROVE Fine("page", x, [LinkSend(y, Msg("restart-answer")) EXCEPT !.reader = "sending"])
    <2>1. ~x.stopped /\ ~(x.sent >= Messages)
      BY <1>7 DEF Refusal
    <2> DEFINE n == x.sent + 1
               k == Append(x.chain, Msg("restart-answer"))
               z == [x EXCEPT !.pc = g, !.sent = n, !.chain = k, !.reader = "sending"]
    <2>2. n \in 0..Messages /\ n = x.sent + 1
      BY <1>5, <2>1
    <2>3. "restart-answer" \in SendsOf("page") \ {"stop"} /\ "restart-answer" \notin Waited
      BY DEF SendsOf, Waited
    <2>4. k \in Seq(Message) /\ k = Append(x.chain, Msg("restart-answer"))
      BY <1>1, <2>3, MsgType DEF Side
    <2>5. [LinkSend(y, Msg("restart-answer")) EXCEPT !.reader = "sending"] = z
      BY <1>1 DEF LinkSend, Side
    <2> HIDE DEF n, k
    <2>6. z \in Side
      BY <1>1, <1>4, <2>2, <2>4 DEF Side
    <2>7. z.phase = x.phase /\ z.reader = "sending" /\ z.sent = n /\ Sends("page", x, z, "restart-answer")
      BY <1>1, <1>4, <2>2, <2>4, <2>6 DEF Side, Sends
    <2> HIDE DEF z
    <2>8. x.sent + 1 = x.received /\ x.received >= 3
      BY <1>1, <2>1 DEF PageTurn
    <2>9. "restart-answer" \in AllowedEvents("page", x.sent) /\ x.sent < x.received
      BY <1>5, <2>8 DEF AllowedEvents
    <2>10. ChainLegal("page", z) /\ Steady("page", x, z) /\ Honest(z)
      BY <1>1, <2>1, <2>3, <2>7, <2>9, SendsSteady
    <2>11. LeastTaken("page", z) <= z.sent /\ ReaderFits(z)
      BY <1>1, <1>5, <2>2, <2>7 DEF LeastTaken, ReaderFits
    <2>12. PageTurn(z)
      BY <1>1, <2>2, <2>7, <2>8 DEF PageTurn, Sends, ReaderFits, Done
    <2>13. Fine("page", x, z)
      BY <2>6, <2>7, <2>10, <2>11, <2>12 DEF Fine, Firm, Sends
    <2> QED BY <2>5, <2>13
  <1> QED BY <1>0, <1>2, <1>6, <1>7

(***************************************************************************)
(* A message has gone                                                      *)
(***************************************************************************)

LEMMA GoneFine ==
  ASSUME NEW s \in Sides, NEW x, Firm(s, x), x.chain # <<>>, x.carried \/ x.exchange # "open"
  PROVE  Fine(s, x, FirstGone(x))
  <1> DEFINE t == Tail(x.chain)
             b == [x EXCEPT !.chain = t, !.carried = FALSE]
  <1>1. x \in Side /\ x.chain \in Seq(Message) /\ ChainLegal(s, x) /\ Honest(x)
    BY DEF Firm, Side
  <1>2. t \in Seq(Message) /\ Len(t) = Len(x.chain) - 1 /\ \A i \in 1..Len(t) : t[i] = x.chain[i + 1] /\ i + 1 \in 1..Len(x.chain)
    BY <1>1
  <1>3. FirstGone(x) = b
    BY DEF FirstGone
  <1> HIDE DEF t
  <1>4. /\ b \in Side /\ b.chain = t /\ ~b.carried /\ b.sent = x.sent /\ b.received = x.received /\ b.stopped = x.stopped
        /\ b.asked = x.asked /\ b.exchange = x.exchange /\ b.phase = x.phase /\ b.reader = x.reader
        /\ b.failure = x.failure /\ b.error = x.error /\ b.outcome = x.outcome /\ b.pc = x.pc /\ b.chan = x.chan
        /\ b.pending = x.pending /\ b.restarting = x.restarting /\ b.used = x.used /\ b.queue = x.queue
        /\ b.restartTimer = x.restartTimer /\ b.everConnected = x.everConnected
    BY <1>1, <1>2 DEF Side
  <1> HIDE DEF b
  <1>5. x.sent \in Nat /\ Len(x.chain) \in Nat /\ Len(x.chain) > 0
    BY <1>1, Counts
  <1>6. ASSUME NEW i \in 1..Len(t)
        PROVE  /\ LegalAt(s, b, t[i], IndexOf(b, i))
               /\ t[i].event = "restart-answer" => IndexOf(b, i) < b.received
               /\ t[i].event = "stop" => b.stopped
    <2>0. i \in Int /\ Len(b.chain) = Len(x.chain) - 1 /\ b.sent = x.sent
      BY <1>2, <1>4, <1>5
    <2>1. IndexOf(b, i) = IndexOf(x, i + 1)
      BY <1>5, <2>0 DEF IndexOf
    <2>2. i + 1 \in 1..Len(x.chain) /\ t[i] = x.chain[i + 1]
      BY <1>2
    <2>3. /\ LegalAt(s, x, x.chain[i + 1], IndexOf(x, i + 1))
          /\ x.chain[i + 1].event = "restart-answer" => IndexOf(x, i + 1) < x.received
          /\ x.chain[i + 1].event = "stop" => x.stopped
      BY <1>1, <2>2 DEF ChainLegal
    <2> QED BY <1>4, <2>1, <2>2, <2>3 DEF LegalAt, TooSoon
  <1>7. ChainLegal(s, b)
    BY <1>1, <1>2, <1>4, <1>5, <1>6 DEF ChainLegal
  <1>8. b.exchange = "open" => Carried(b) = Carried(x)
    <2>1. b.sent = x.sent /\ Len(b.chain) = Len(x.chain) - 1 /\ ~b.carried
      BY <1>2, <1>4
    <2>2. b.exchange = "open" => x.carried
      BY <1>4
    <2> QED BY <1>5, <2>1, <2>2 DEF Carried
  <1>9. Steady(s, x, b)
    BY <1>4, <1>5, <1>8 DEF Steady
  <1>10. LeastTaken(s, b) <= b.sent /\ ReaderFits(b) /\ Honest(b)
    BY <1>4 DEF LeastTaken, ReaderFits, Honest, Firm
  <1>11. (s = "page" => PageTurn(b)) /\ (s = "drop" => DropTurn(b) /\ RestartsFit(b))
    BY <1>4 DEF Firm, PageTurn, DropTurn, RestartsFit, NoRestarts, Awaited
  <1>12. Fine(s, x, b)
    BY <1>4, <1>7, <1>9, <1>10, <1>11 DEF Fine, Firm
  <1> QED BY <1>3, <1>12

(* The call goes on to where its message took it.                          *)
LEMMA WentFine ==
  ASSUME NEW s \in Sides, NEW x, NEW p, Firm(s, x),
         \/ s = "drop" /\ x.phase = "inviteOut" /\ p = "invited"
         \/ s = "page" /\ x.phase = "manifestOut" /\ p = "offered"
         \/ s = "drop" /\ x.phase = "acceptOut" /\ p = "accepted"
  PROVE  Fine(s, x, [x EXCEPT !.phase = p])
  <1> DEFINE y == [x EXCEPT !.phase = p]
  <1>1. x \in Side /\ ChainLegal(s, x) /\ Honest(x) /\ ReaderFits(x) /\ p \in Phases
    BY DEF Firm, Phases, ReadPhases
  <1>2. /\ y \in Side /\ y.chain = x.chain /\ y.carried = x.carried /\ y.sent = x.sent /\ y.received = x.received
        /\ y.stopped = x.stopped /\ y.asked = x.asked /\ y.exchange = x.exchange /\ y.phase = p /\ y.reader = x.reader
        /\ y.failure = x.failure /\ y.error = x.error /\ y.outcome = x.outcome /\ y.pc = x.pc /\ y.chan = x.chan
        /\ y.pending = x.pending /\ y.restarting = x.restarting /\ y.used = x.used /\ y.queue = x.queue
        /\ y.restartTimer = x.restartTimer /\ y.everConnected = x.everConnected
    BY <1>1, PhaseType DEF Side
  <1> HIDE DEF y
  <1>3. x.sent \in Nat /\ x.received \in Nat
    BY <1>1, Counts
  <1>4. ChainLegal(s, y) /\ Carried(y) = Carried(x)
    BY <1>1, <1>2, <1>3, ChainStays
  <1>5. Steady(s, x, y)
    BY <1>2, <1>3, <1>4 DEF Steady, Pre
  <1>6. LeastTaken(s, y) <= y.sent
    <2>1. LeastTaken(s, y) = LeastTaken(s, x)
      BY <1>2 DEF LeastTaken, Pre, Done
    <2> QED BY <1>2, <2>1 DEF Firm
  <1>7. ReaderFits(y) /\ Honest(y)
    BY <1>1, <1>2 DEF ReaderFits, Honest, Done
  <1>8. s = "page" => PageTurn(y)
    BY <1>2 DEF Firm, PageTurn
  <1>9. s = "drop" => DropTurn(y) /\ RestartsFit(y)
    BY <1>2 DEF Firm, DropTurn, Awaited, AcceptPhases, RestartsFit, NoRestarts, Pre
  <1>10. Fine(s, x, y)
    BY <1>2, <1>4, <1>5, <1>6, <1>7, <1>8, <1>9 DEF Fine, Firm
  <1> QED BY <1>10 DEF y

(* The loop that reads the exchange starts, or goes on.                    *)
LEMMA ReadsFine ==
  ASSUME NEW s \in Sides, NEW x, NEW p, Firm(s, x),
         \/ s = "page" /\ p = "connecting" /\ x.phase = "answerOut" /\ x.received = 2
         \/ s = "page" /\ p = x.phase /\ x.reader = "sending"
         \/ s = "drop" /\ p = "connecting" /\ x.phase = "applying" /\ x.received = 2
  PROVE  Fine(s, x, [x EXCEPT !.phase = p, !.reader = "reading"])
  <1> DEFINE y == [x EXCEPT !.phase = p, !.reader = "reading"]
  <1>1. x \in Side /\ ChainLegal(s, x) /\ Honest(x) /\ ReaderFits(x) /\ LeastTaken(s, x) <= x.sent
    BY DEF Firm
  <1>2. p \in Phases
    BY <1>1 DEF Phases, CallPhases, Side
  <1>2a. y \in Side
    BY <1>1, <1>2 DEF Side
  <1>3. /\ y \in Side /\ y.chain = x.chain /\ y.carried = x.carried /\ y.sent = x.sent /\ y.received = x.received
        /\ y.stopped = x.stopped /\ y.asked = x.asked /\ y.exchange = x.exchange /\ y.phase = p /\ y.reader = "reading"
        /\ y.failure = x.failure /\ y.error = x.error /\ y.outcome = x.outcome /\ y.pc = x.pc /\ y.chan = x.chan
        /\ y.pending = x.pending /\ y.restarting = x.restarting /\ y.used = x.used /\ y.queue = x.queue
        /\ y.restartTimer = x.restartTimer /\ y.everConnected = x.everConnected
    BY <1>1, <1>2a DEF Side
  <1> HIDE DEF y
  <1>4. x.sent \in Nat /\ x.received \in Nat
    BY <1>1, Counts
  <1>5. ChainLegal(s, y) /\ Carried(y) = Carried(x)
    BY <1>1, <1>3, <1>4, ChainStays
  <1>6. Steady(s, x, y)
    BY <1>1, <1>3, <1>4, <1>5 DEF Steady, Pre, ReaderFits, Done
  <1>7. LeastTaken(s, y) <= y.sent
    <2>1. LeastTaken(s, y) = LeastTaken(s, x)
      BY <1>3 DEF LeastTaken, Pre, Done
    <2> QED BY <1>1, <1>3, <2>1
  <1>8. ReaderFits(y) /\ Honest(y)
    BY <1>1, <1>3 DEF ReaderFits, Honest, Done
  <1>9. s = "page" => PageTurn(y)
    BY <1>1, <1>3 DEF Firm, PageTurn, ReaderFits, Done
  <1>10. s = "drop" => DropTurn(y) /\ RestartsFit(y)
    BY <1>1, <1>3 DEF Firm, DropTurn, Awaited, AcceptPhases, RestartsFit, NoRestarts, Pre, ReaderFits, Done
  <1>11. Fine(s, x, y)
    BY <1>3, <1>5, <1>6, <1>7, <1>8, <1>9, <1>10 DEF Fine, Firm
  <1> QED BY <1>11 DEF y

(* restartOnce goes on.                                                    *)
LEMMA RestartedFine ==
  ASSUME NEW x, NEW q, Firm("drop", x),
         \/ q = "no" /\ x.exchange # "open"
         \/ q = (IF x.pending = None THEN "no" ELSE "waiting") /\ x.sent >= 2
  PROVE  Fine("drop", x, [x EXCEPT !.restarting = q])
  <1> DEFINE y == [x EXCEPT !.restarting = q]
  <1>1. x \in Side /\ q \in {"no", "waiting"} /\ DropTurn(x) /\ RestartsFit(x)
    BY DEF Firm
  <1>2. Apart(x, y) /\ y.pending = x.pending /\ y.restarting = q /\ y.used = x.used /\ y.queue = x.queue
        /\ y.restartTimer = x.restartTimer /\ y.everConnected = x.everConnected
    BY <1>1 DEF Side, Apart
  <1> HIDE DEF y
  <1>3. DropTurn(y)
    BY <1>1, <1>2 DEF DropTurn, Awaited, Apart
  <1>4. RestartsFit(y)
    BY <1>1, <1>2 DEF RestartsFit, NoRestarts, Apart
  <1>5. Fine("drop", x, y)
    BY <1>2, <1>3, <1>4, ApartFine
  <1> QED BY <1>5 DEF y

LEMMA EndedFine ==
  ASSUME NEW s \in Sides, NEW x, NEW o \in Outcomes \ {"protocol"}, Firm(s, x), x.phase # "start"
  PROVE  Fine(s, x, Finished(LinkEnd(x), o))
  <1>1. Fine(s, x, LinkEnd(x)) /\ x \in Side
    BY LinkEndFine DEF Firm
  <1>2. LinkEnd(x).phase = x.phase
    BY <1>1, LinkEndEases DEF Eases
  <1>3. Firm(s, LinkEnd(x))
    BY <1>1, FineFirm
  <1>4. Fine(s, LinkEnd(x), Finished(LinkEnd(x), o))
    BY <1>2, <1>3, FinishedFine DEF Begun
  <1> QED BY <1>1, <1>4, FineTrans

(* What a message that has gone tells: whose it is, who waits for it, and  *)
(* that a restart was not Drop's first message.                            *)
LEMMA HeadTells ==
  ASSUME NEW s \in Sides, NEW x, Sound(s, x), Firm(s, x), x.chain # <<>>
  PROVE  LET e == Head(x.chain).event
             b == FirstGone(x) IN
         /\ e \in SendsOf(s) /\ Gone(x, b)
         /\ e \in Waited => b.phase = OutPhase(e)
         /\ e = "restart" => x.sent >= 2
         /\ e = "answer" => x.received = 2
  <1> DEFINE e == Head(x.chain).event
             b == FirstGone(x)
  <1>1. x \in Side /\ x.chain \in Seq(Message) /\ ChainLegal(s, x) /\ IndexFits(s, x)
    BY DEF Sound, SideInv, Side, Firm
  <1>2. Gone(x, b)
    BY <1>1, GoneIs
  <1>3. e \in SendsOf(s) /\ (e \in Waited => x.phase = OutPhase(e)) /\ b.phase = x.phase
    BY <1>2, GoneFits DEF Gone
  <1>4. x.sent \in Nat /\ Len(x.chain) \in Nat /\ Len(x.chain) >= 1 /\ Head(x.chain) = x.chain[1] /\ Restarts \in Nat
    BY <1>1, Counts
  <1>5. ASSUME e = "restart" PROVE x.sent >= 2
    <2> DEFINE k == IndexOf(x, 1)
    <2>1. k = x.sent - Len(x.chain) /\ k \in Int /\ k <= x.sent
      BY <1>4 DEF IndexOf
    <2>2. LegalAt(s, x, x.chain[1], k)
      BY <1>1, <1>4 DEF ChainLegal
    <2> HIDE DEF k
    <2>3. "restart" \in AllowedEvents(s, k)
      BY <1>4, <1>5, <2>2 DEF LegalAt
    <2>4. k \in 2..(1 + Restarts)
      BY <2>1, <2>3 DEF AllowedEvents
    <2> QED BY <1>4, <2>1, <2>4
  <1>6. e = "answer" => x.received = 2
    BY <1>1, <1>3 DEF IndexFits, Waited, OutPhase
  <1> QED BY <1>2, <1>3, <1>5, <1>6

LEMMA SendSettlesFine ==
  ASSUME NEW s \in Sides, NEW x, Sound(s, x), Firm(s, x), x.chain # <<>>, x.carried
  PROVE  Fine(s, x, AfterSend(s, FirstGone(x), Head(x.chain).event))
  <1> DEFINE b == FirstGone(x)
             e == Head(x.chain).event
             y == AfterSend(s, b, e)
  <1> SUFFICES Fine(s, x, y) OBVIOUS
  <1>1. Fine(s, x, b) /\ x \in Side
    BY GoneFine DEF Sound
  <1>2. /\ e \in SendsOf(s) /\ Gone(x, b) /\ (e \in Waited => b.phase = OutPhase(e))
        /\ (e = "restart" => x.sent >= 2) /\ (e = "answer" => x.received = 2)
    BY HeadTells
  <1>0. y = AfterSend(s, b, e) OBVIOUS
  <1> HIDE DEF b, e, y
  <1>3. Firm(s, b) /\ b \in Side /\ b.sent = x.sent /\ b.received = x.received
    BY <1>1, <1>2, FineFirm DEF Gone
  <1>4. CASE e = "invite"
    <2>1. s = "drop" /\ b.phase = "inviteOut" /\ y = [b EXCEPT !.phase = "invited"]
      BY <1>0, <1>2, <1>4 DEF AfterSend, SendsOf, Waited, OutPhase, Sides
    <2>2. Fine(s, b, y)
      BY <1>3, <2>1, WentFine
    <2> QED BY <1>1, <2>2, FineTrans
  <1>5. CASE e = "manifest"
    <2>1. s = "page" /\ b.phase = "manifestOut" /\ y = [b EXCEPT !.phase = "offered"]
      BY <1>0, <1>2, <1>5 DEF AfterSend, SendsOf, Waited, OutPhase, Sides
    <2>2. Fine(s, b, y)
      BY <1>3, <2>1, WentFine
    <2> QED BY <1>1, <2>2, FineTrans
  <1>6. CASE e = "accept"
    <2>1. s = "drop" /\ b.phase = "acceptOut" /\ y = [b EXCEPT !.phase = "accepted"]
      BY <1>0, <1>2, <1>6 DEF AfterSend, SendsOf, Waited, OutPhase, Sides
    <2>2. Fine(s, b, y)
      BY <1>3, <2>1, WentFine
    <2> QED BY <1>1, <2>2, FineTrans
  <1>7. CASE e = "decline"
    <2>1. b.phase = "declineOut" /\ y = Finished(LinkEnd(b), "declined") /\ "declined" \in Outcomes \ {"protocol"}
      BY <1>0, <1>2, <1>7 DEF AfterSend, Waited, OutPhase, Outcomes
    <2>2. Fine(s, b, y)
      BY <1>3, <2>1, EndedFine
    <2> QED BY <1>1, <2>2, FineTrans
  <1>8. CASE e = "answer"
    <2>1. s = "page" /\ b.phase = "answerOut" /\ y = [b EXCEPT !.phase = "connecting", !.reader = "reading"]
      BY <1>0, <1>2, <1>8 DEF AfterSend, SendsOf, Waited, OutPhase, Sides
    <2>2. Fine(s, b, y)
      BY <1>2, <1>3, <1>8, <2>1, ReadsFine
    <2> QED BY <1>1, <2>2, FineTrans
  <1>9. CASE e = "restart"
    <2>1. s = "drop" /\ y = [b EXCEPT !.restarting = IF b.pending = None THEN "no" ELSE "waiting"]
      BY <1>0, <1>2, <1>9 DEF AfterSend, SendsOf, Sides
    <2>2. Fine(s, b, y)
      BY <1>2, <1>3, <1>9, <2>1, RestartedFine
    <2> QED BY <1>1, <2>2, FineTrans
  <1>10. CASE e = "restart-answer"
    <2>1. s = "page" /\ y = IF b.reader = "sending" THEN [b EXCEPT !.reader = "reading"] ELSE b
      BY <1>0, <1>2, <1>10 DEF AfterSend, SendsOf, Sides
    <2>2. [b EXCEPT !.reader = "reading"] = [b EXCEPT !.phase = b.phase, !.reader = "reading"]
      BY <1>3 DEF Side
    <2>3. b.reader = "sending" => Fine(s, b, [b EXCEPT !.phase = b.phase, !.reader = "reading"])
      BY <1>3, <2>1, ReadsFine
    <2>4. b.reader = "sending" => Fine(s, b, y)
      BY <2>1, <2>2, <2>3
    <2> QED BY <1>1, <2>1, <2>4, FineTrans
  <1>11. CASE e = "stop"
    <2>1. y = Shut(b)
      BY <1>0, <1>11 DEF AfterSend
    <2>2. Fine(s, b, y)
      BY <1>3, <2>1, ShutFine
    <2> QED BY <1>1, <2>2, FineTrans
  <1> QED BY <1>2, <1>4, <1>5, <1>6, <1>7, <1>8, <1>9, <1>10, <1>11 DEF SendsOf

LEMMA SendFailsFine ==
  ASSUME NEW s \in Sides, NEW x, NEW kind \in {"cancelled", "expired"}, Sound(s, x), Firm(s, x), x.chain # <<>>,
         x.exchange # "open"
  PROVE  Fine(s, x, AfterFailedSend(s, FirstGone(x), Head(x.chain).event, kind))
  <1> DEFINE b == FirstGone(x)
             e == Head(x.chain).event
             y == AfterFailedSend(s, b, e, kind)
  <1> SUFFICES Fine(s, x, y) OBVIOUS
  <1>1. Fine(s, x, b) /\ x \in Side
    BY GoneFine DEF Sound
  <1>2. e \in SendsOf(s) /\ Gone(x, b) /\ (e \in Waited => b.phase = OutPhase(e))
    BY HeadTells
  <1>0. y = AfterFailedSend(s, b, e, kind) OBVIOUS
  <1> HIDE DEF b, e, y
  <1>3. Firm(s, b) /\ b \in Side /\ b.exchange # "open"
    BY <1>1, <1>2, FineFirm DEF Gone
  <1>4. kind \in Failures \ {"none"} /\ kind \in Outcomes \ {"protocol"}
    BY DEF Failures, Outcomes
  <1>5. CASE e \in {"invite", "manifest", "accept", "answer"}
    <2>1. y = Caught(s, b, kind) /\ b.phase = OutPhase(e)
      BY <1>0, <1>2, <1>5 DEF AfterFailedSend, Waited
    <2>2. Begun(b) /\ b.phase \notin Done /\ Fair(b, kind)
      BY <1>4, <1>5, <2>1 DEF OutPhase, Begun, Done, Fair
    <2>3. Fine(s, b, y)
      BY <1>3, <1>4, <2>1, <2>2, CaughtFine
    <2> QED BY <1>1, <2>3, FineTrans
  <1>6. CASE e = "decline"
    <2>1. y = Finished(LinkEnd(b), kind) /\ b.phase = "declineOut"
      BY <1>0, <1>2, <1>6 DEF AfterFailedSend, Waited, OutPhase
    <2>2. Fine(s, b, y)
      BY <1>3, <1>4, <2>1, EndedFine
    <2> QED BY <1>1, <2>2, FineTrans
  <1>7. CASE e = "restart"
    <2>1. s = "drop" /\ y = [b EXCEPT !.restarting = "no"]
      BY <1>0, <1>2, <1>7 DEF AfterFailedSend, SendsOf, Sides
    <2>2. Fine(s, b, y)
      BY <1>3, <2>1, RestartedFine
    <2> QED BY <1>1, <2>2, FineTrans
  <1>8. CASE e = "restart-answer"
    <2>1. s = "page" /\ y = IF b.reader # "sending" THEN b ELSE IF kind = "cancelled" THEN Fail(s, b, kind) ELSE NoMoreRestarts(b)
      BY <1>0, <1>2, <1>8 DEF AfterFailedSend, SendsOf, Sides
    <2>2. b.reader = "sending" => Fine(s, b, Fail(s, b, kind)) /\ Fine(s, b, NoMoreRestarts(b))
      BY <1>3, <1>4, <2>1, FailFine, NoMoreRestartsFine
    <2>3. b.reader = "sending" => Fine(s, b, y)
      BY <2>1, <2>2
    <2> QED BY <1>1, <2>1, <2>3, FineTrans
  <1>9. CASE e = "stop"
    <2>1. y = Shut(b)
      BY <1>0, <1>9 DEF AfterFailedSend
    <2>2. Fine(s, b, y)
      BY <1>3, <2>1, ShutFine
    <2> QED BY <1>1, <2>2, FineTrans
  <1> QED BY <1>2, <1>5, <1>6, <1>7, <1>8, <1>9 DEF SendsOf

(***************************************************************************)
(* What the browser, the clocks and the person do to one end               *)
(***************************************************************************)

(* A change the link does not see.                                         *)
LEMMA QuietFine ==
  ASSUME NEW s \in Sides, NEW x, NEW y, Firm(s, x), y \in Side, Rests(x, y), y.exchange = x.exchange \/ y.exchange # "open",
         y.reader = x.reader, WindsPeer(x, y), y.phase = x.phase, y.error = x.error, y.failure = x.failure,
         y.outcome = x.outcome
  PROVE  Fine(s, x, y)
  <1>1. Winds(s, x, y)
    BY RestsWinds DEF WindsPhase
  <1> QED BY <1>1, WindsHonest

LEMMA ExchangeGoneFine == ASSUME NEW s \in Sides, NEW x, Firm(s, x) PROVE Fine(s, x, [x EXCEPT !.exchange = "gone"])
  <1> DEFINE y == [x EXCEPT !.exchange = "gone"]
  <1>1. x \in Side
    BY DEF Firm
  <1>2. /\ y \in Side /\ Rests(x, y) /\ y.exchange = "gone" /\ y.reader = x.reader
        /\ y.pc = x.pc /\ y.chan = x.chan /\ y.everConnected = x.everConnected /\ y.phase = x.phase
        /\ y.error = x.error /\ y.failure = x.failure /\ y.outcome = x.outcome
    BY <1>1 DEF Side, Rests
  <1> HIDE DEF y
  <1>3. Fine(s, x, y)
    BY <1>2, QuietFine DEF WindsPeer
  <1> QED BY <1>3 DEF y

LEMMA ChannelFine ==
  ASSUME NEW s \in Sides, NEW x, NEW c \in {"open", "unopened", "closed"}, Firm(s, x), x.chan \in {"none", "open"}
  PROVE  Fine(s, x, [x EXCEPT !.chan = c])
  <1> DEFINE y == [x EXCEPT !.chan = c]
  <1>1. x \in Side
    BY DEF Firm
  <1>2. /\ y \in Side /\ Rests(x, y) /\ y.exchange = x.exchange /\ y.reader = x.reader
        /\ y.pc = x.pc /\ y.chan = c /\ y.everConnected = x.everConnected /\ y.phase = x.phase
        /\ y.error = x.error /\ y.failure = x.failure /\ y.outcome = x.outcome
    BY <1>1 DEF Side, Rests
  <1> HIDE DEF y
  <1>3. Fine(s, x, y)
    BY <1>2, QuietFine DEF WindsPeer
  <1> QED BY <1>3 DEF y

LEMMA StartsFine ==
  ASSUME NEW s \in Sides, NEW x, Firm(s, x), x.phase = "connecting" PROVE Fine(s, x, [x EXCEPT !.phase = "moving"])
  <1> DEFINE y == [x EXCEPT !.phase = "moving"]
  <1>1. x \in Side /\ Honest(x) /\ "moving" \in Phases
    BY DEF Firm, Phases, CallPhases
  <1>2. /\ y \in Side /\ Rests(x, y) /\ y.exchange = x.exchange /\ y.reader = x.reader
        /\ y.pc = x.pc /\ y.chan = x.chan /\ y.everConnected = x.everConnected /\ y.phase = "moving"
        /\ y.error = x.error /\ y.failure = x.failure /\ y.outcome = x.outcome
    BY <1>1, PhaseType DEF Side, Rests
  <1> HIDE DEF y
  <1>3. Winds(s, x, y)
    BY <1>2, RestsWinds DEF WindsPhase, WindsPeer
  <1>4. Honest(y)
    BY <1>1, <1>2 DEF Honest, Done
  <1>5. Fine(s, x, y)
    BY <1>2, <1>3, <1>4, WindsFirm DEF Fine
  <1> QED BY <1>5 DEF y

(* watchConnection sees the state change: from the accept on only.         *)
LEMMA EvaluateFine ==
  ASSUME NEW s \in Sides, NEW x, NEW state \in Trying \cup {"failed"}, Sound(s, x), Firm(s, x), x.watching, x.pc \in Trying,
         s = "drop" => x.phase \notin Pre
  PROVE  Fine(s, x, Evaluate(s, x, state))
  <1> DEFINE z == [x EXCEPT !.pc = state]
             c == [[z EXCEPT !.everConnected = TRUE]
                      EXCEPT !.connectTimer = FALSE, !.failedTimer = FALSE, !.restartTimer = FALSE]
             t == s = "drop"
             f == z.failedTimer \/ state = "failed"
             d == [z EXCEPT !.failedTimer = f, !.restartTimer = t]
             y == IF state = "connected" THEN c ELSE d
  <1>1. x \in Side /\ ChainLegal(s, x) /\ Honest(x) /\ ReaderFits(x) /\ LeastTaken(s, x) <= x.sent /\ x.phase \notin Done
    BY DEF Firm, Sound, SideInv, EndFits
  <1>2. state \in Trying \cup {"none", "failed", "closed"} /\ state \notin {"none", "closed"} /\ x.pc \notin {"none", "closed"}
    BY DEF Trying
  <1>3. Evaluate(s, x, state) = y
    BY DEF Evaluate, NoTimers
  <1>4. z \in Side
    BY <1>1, <1>2 DEF Side
  <1>5. t \in BOOLEAN /\ f \in BOOLEAN
    BY <1>4 DEF Side
  <1>6. /\ z.used = x.used /\ z.queue = x.queue /\ z.restarting = x.restarting
        /\ z.pending = x.pending /\ z.pc = state
    BY <1>1 DEF Side
  <1>7. /\ z.sent = x.sent /\ z.chain = x.chain /\ z.stopped = x.stopped /\ z.received = x.received
        /\ z.carried = x.carried /\ z.exchange = x.exchange /\ z.asked = x.asked /\ z.phase = x.phase
        /\ z.failure = x.failure /\ z.error = x.error /\ z.outcome = x.outcome /\ z.reader = x.reader /\ z.chan = x.chan
    BY <1>1 DEF Side
  <1> HIDE DEF z, t, f
  <1>8. /\ c \in Side /\ c.sent = z.sent /\ c.chain = z.chain /\ c.stopped = z.stopped /\ c.received = z.received
        /\ c.carried = z.carried /\ c.exchange = z.exchange /\ c.asked = z.asked /\ c.phase = z.phase
        /\ c.failure = z.failure /\ c.error = z.error /\ c.outcome = z.outcome /\ c.reader = z.reader /\ c.chan = z.chan
        /\ c.used = z.used /\ c.queue = z.queue /\ c.restarting = z.restarting /\ c.pending = z.pending /\ c.pc = z.pc
    BY <1>4 DEF Side
  <1>9. /\ d \in Side /\ d.sent = z.sent /\ d.chain = z.chain /\ d.stopped = z.stopped /\ d.received = z.received
        /\ d.carried = z.carried /\ d.exchange = z.exchange /\ d.asked = z.asked /\ d.phase = z.phase
        /\ d.failure = z.failure /\ d.error = z.error /\ d.outcome = z.outcome /\ d.reader = z.reader /\ d.chan = z.chan
        /\ d.used = z.used /\ d.queue = z.queue /\ d.restarting = z.restarting /\ d.pending = z.pending /\ d.pc = z.pc
    BY <1>4, <1>5 DEF Side
  <1> HIDE DEF c, d
  <1>10. /\ y \in Side /\ y.sent = x.sent /\ y.chain = x.chain /\ y.stopped = x.stopped /\ y.received = x.received
         /\ y.carried = x.carried /\ y.exchange = x.exchange /\ y.asked = x.asked /\ y.phase = x.phase
         /\ y.failure = x.failure /\ y.error = x.error /\ y.outcome = x.outcome /\ y.reader = x.reader /\ y.chan = x.chan
         /\ y.restarting = x.restarting /\ y.pending = x.pending /\ y.pc = state
    BY <1>6, <1>7, <1>8, <1>9
  <1> HIDE DEF y
  <1>11. x.sent \in Nat /\ x.received \in Nat
    BY <1>1, Counts
  <1>12. ChainLegal(s, y) /\ Carried(y) = Carried(x)
    BY <1>1, <1>10, <1>11, ChainStays
  <1>13. Steady(s, x, y)
    BY <1>2, <1>10, <1>11, <1>12 DEF Steady
  <1>14. LeastTaken(s, y) <= y.sent /\ ReaderFits(y) /\ Honest(y)
    BY <1>1, <1>2, <1>10 DEF LeastTaken, ReaderFits, Honest
  <1>15. s = "page" => PageTurn(y)
    BY <1>10 DEF Firm, PageTurn
  <1>16. s = "drop" => DropTurn(y)
    BY <1>10 DEF Firm, DropTurn, Awaited
  <1>17. s = "drop" => RestartsFit(y)
    BY <1>1, <1>10, <1>11 DEF RestartsFit, LeastTaken, Done, Pre
  <1>18. Fine(s, x, y)
    BY <1>10, <1>12, <1>13, <1>14, <1>15, <1>16, <1>17 DEF Fine, Firm
  <1> QED BY <1>3, <1>18

LEMMA WithPeerFine ==
  ASSUME NEW s \in Sides, NEW x, NEW p, Sound(s, x), Firm(s, x),
         \/ s = "page" /\ x.phase = "preparing" /\ p = "answering"
         \/ s = "drop" /\ x.phase = "deciding" /\ p = "offering"
  PROVE  Fine(s, x, WithPeer(x, p))
  <1> DEFINE y == [x EXCEPT !.pc = "connecting", !.watching = TRUE, !.connectTimer = TRUE, !.phase = p]
  <1>1. x \in Side /\ ChainLegal(s, x) /\ Honest(x) /\ ReaderFits(x) /\ LeastTaken(s, x) <= x.sent
    BY DEF Firm
  <1>2. x.pc = "none" /\ x.chan = "none"
    BY DEF Sound, SideInv, EndFits, BlameFits, Early
  <1>3. WithPeer(x, p) = y /\ "connecting" \in Trying /\ p \in Phases
    BY DEF WithPeer, Trying, Phases, CallPhases
  <1>4. y \in Side
    BY <1>1, <1>3 DEF Side
  <1>5. /\ y.sent = x.sent /\ y.chain = x.chain /\ y.stopped = x.stopped /\ y.received = x.received
        /\ y.carried = x.carried /\ y.exchange = x.exchange /\ y.asked = x.asked /\ y.phase = p
        /\ y.failure = x.failure /\ y.error = x.error /\ y.outcome = x.outcome /\ y.reader = x.reader /\ y.chan = x.chan
        /\ y.restarting = x.restarting /\ y.pending = x.pending /\ y.pc = "connecting"
        /\ y.used = x.used /\ y.queue = x.queue /\ y.restartTimer = x.restartTimer /\ y.everConnected = x.everConnected
    BY <1>1, <1>4 DEF Side
  <1> HIDE DEF y
  <1>6. x.sent \in Nat /\ x.received \in Nat
    BY <1>1, Counts
  <1>7. ChainLegal(s, y) /\ Carried(y) = Carried(x)
    BY <1>1, <1>4, <1>5, <1>6, ChainStays
  <1>8. Steady(s, x, y)
    BY <1>2, <1>5, <1>6, <1>7 DEF Steady, Pre
  <1>9. LeastTaken(s, y) <= y.sent
    <2>1. LeastTaken(s, y) = LeastTaken(s, x)
      BY <1>5 DEF LeastTaken, Pre, Done
    <2> QED BY <1>1, <1>5, <2>1
  <1>10. ReaderFits(y) /\ Honest(y)
    BY <1>1, <1>2, <1>5 DEF ReaderFits, Honest, Done
  <1>11. s = "page" => PageTurn(y)
    BY <1>1, <1>5 DEF Firm, PageTurn
  <1>12. s = "drop" => DropTurn(y) /\ RestartsFit(y)
    BY <1>1, <1>5 DEF Firm, DropTurn, Awaited, AcceptPhases, RestartsFit, NoRestarts, Pre, ReaderFits, Done
  <1>13. Fine(s, x, y)
    BY <1>4, <1>5, <1>7, <1>8, <1>9, <1>10, <1>11, <1>12 DEF Fine, Firm
  <1> QED BY <1>3, <1>13

(* Whoever is watched has begun.                                           *)
LEMMA WatchedBegun == ASSUME NEW s \in Sides, NEW x, Sound(s, x), x.watching PROVE Begun(x)
  BY DEF Sound, SideInv, EndFits, BlameFits, Early, Begun

LEMMA WatchFiresFine ==
  ASSUME NEW s \in Sides, NEW x, Sound(s, x), Firm(s, x) PROVE Fine(s, x, GiveUp(s, [x EXCEPT !.connectTimer = FALSE]))
  <1> DEFINE y == [x EXCEPT !.connectTimer = FALSE]
  <1>1. x \in Side
    BY DEF Firm
  <1>2. /\ y \in Side /\ Rests(x, y) /\ y.exchange = x.exchange /\ y.reader = x.reader
        /\ y.pc = x.pc /\ y.chan = x.chan /\ y.everConnected = x.everConnected /\ y.phase = x.phase
        /\ y.error = x.error /\ y.failure = x.failure /\ y.outcome = x.outcome /\ y.watching = x.watching
    BY <1>1 DEF Side, Rests
  <1> HIDE DEF y
  <1>3. Fine(s, x, y)
    BY <1>2, QuietFine DEF WindsPeer
  <1>4. y.watching => Begun(y)
    BY <1>2, WatchedBegun DEF Begun, Rests
  <1>5. Fine(s, y, GiveUp(s, y))
    BY <1>3, <1>4, FineFirm, GiveUpFine
  <1>6. Fine(s, x, GiveUp(s, y))
    BY <1>1, <1>3, <1>5, FineTrans
  <1> QED BY <1>6 DEF y

LEMMA LateCloseFine ==
  ASSUME NEW s \in Sides, NEW x, Firm(s, x) PROVE Fine(s, x, Close([x EXCEPT !.closeSoon = FALSE]))
  <1> DEFINE y == [x EXCEPT !.closeSoon = FALSE]
  <1>1. x \in Side
    BY DEF Firm
  <1>2. /\ y \in Side /\ Rests(x, y) /\ y.exchange = x.exchange /\ y.reader = x.reader
        /\ y.pc = x.pc /\ y.chan = x.chan /\ y.everConnected = x.everConnected /\ y.phase = x.phase
        /\ y.error = x.error /\ y.failure = x.failure /\ y.outcome = x.outcome
    BY <1>1 DEF Side, Rests
  <1> HIDE DEF y
  <1>3. Fine(s, x, y)
    BY <1>2, QuietFine DEF WindsPeer
  <1>4. Fine(s, y, Close(y))
    BY <1>3, FineFirm, CloseFine
  <1>5. Fine(s, x, Close(y))
    BY <1>1, <1>3, <1>4, FineTrans
  <1> QED BY <1>5 DEF y

LEMMA CloseNowFine ==
  ASSUME NEW s \in Sides, NEW x, Firm(s, x), x.phase = "closing" PROVE Fine(s, x, Close([x EXCEPT !.phase = "ended"]))
  <1> DEFINE y == [x EXCEPT !.phase = "ended"]
  <1>1. x \in Side /\ Honest(x) /\ "ended" \in Phases
    BY DEF Firm, Phases
  <1>2. /\ y \in Side /\ Rests(x, y) /\ y.exchange = x.exchange /\ y.reader = x.reader
        /\ y.pc = x.pc /\ y.chan = x.chan /\ y.everConnected = x.everConnected /\ y.phase = "ended" /\ y.outcome = x.outcome
    BY <1>1, PhaseType DEF Side, Rests
  <1> HIDE DEF y
  <1>3. Winds(s, x, y) /\ Honest(y)
    BY <1>1, <1>2, RestsWinds DEF WindsPhase, WindsPeer, Done, Honest
  <1>4. Fine(s, x, y)
    BY <1>2, <1>3, WindsFirm DEF Fine
  <1>5. Fine(s, y, Close(y))
    BY <1>4, FineFirm, CloseFine
  <1>6. Fine(s, x, Close(y))
    BY <1>1, <1>4, <1>5, FineTrans
  <1> QED BY <1>6 DEF y

(* A closed channel is no breach: it never opened, or it was closed from   *)
(* here, for a reason.                                                     *)
LEMMA ChannelGoneFine ==
  ASSUME NEW s \in Sides, NEW x, Sound(s, x), Firm(s, x), x.chan \in {"closed", "unopened", "shut"},
         x.phase \in {"connecting", "moving"}
  PROVE  Fine(s, x, Caught(s, x, IF x.chan = "closed" THEN "lost" ELSE "protocol"))
  <1> DEFINE e == IF x.chan = "closed" THEN "lost" ELSE "protocol"
  <1>1. e \in Failures /\ Begun(x) /\ x.phase \notin Done /\ x.phase \in CallPhases
    BY DEF Failures, Begun, Done, CallPhases
  <1>2. x.chan = "shut" => x.failure # "none"
    BY <1>1 DEF Firm, Honest, Sound, SideInv, ReasonFits
  <1>3. Fair(x, e)
    BY <1>1, <1>2 DEF Fair
  <1> HIDE DEF e
  <1>4. Fine(s, x, Caught(s, x, e))
    BY <1>1, <1>3, CaughtFine
  <1> QED BY <1>4 DEF e

LEMMA SinkAbortedFine ==
  ASSUME NEW x, Firm("drop", x), x.phase = "aborting" PROVE Fine("drop", x, Rejected("drop", [x EXCEPT !.error = "none"], x.error))
  <1> DEFINE y == [x EXCEPT !.error = "none"]
  <1>1. x \in Side /\ Honest(x) /\ "none" \in Failures /\ "drop" \in Sides
    BY DEF Firm, Failures, Sides
  <1>2. /\ y \in Side /\ Rests(x, y) /\ y.exchange = x.exchange /\ y.reader = x.reader /\ y.error = "none"
        /\ y.pc = x.pc /\ y.chan = x.chan /\ y.everConnected = x.everConnected /\ y.phase = x.phase
        /\ y.failure = x.failure /\ y.outcome = x.outcome
    BY <1>1 DEF Side, Rests
  <1> HIDE DEF y
  <1>3. Winds("drop", x, y) /\ Honest(y)
    BY <1>1, <1>2, RestsWinds DEF WindsPhase, WindsPeer, Honest, Rests
  <1>4. Fine("drop", x, y)
    BY <1>1, <1>2, <1>3, WindsFirm DEF Fine
  <1>5. Firm("drop", y) /\ Begun(y) /\ y.phase \notin Done /\ Fair(y, x.error) /\ x.error \in Failures
    BY <1>1, <1>2, <1>4, FineFirm DEF Begun, Done, Fair, Honest, CallPhases, Side
  <1>6. Fine("drop", y, Rejected("drop", y, x.error))
    BY <1>1, <1>5, RejectedFine
  <1>7. Fine("drop", x, Rejected("drop", y, x.error))
    BY <1>1, <1>4, <1>6, FineTrans
  <1> QED BY <1>7 DEF y

(* The person stops: before the invitation too, and then under the index   *)
(* at which no stop is allowed.                                            *)
LEMMA ToldFine ==
  ASSUME NEW s \in Sides, NEW x, Sound(s, x), Firm(s, x), ~x.asked
  PROVE  LET y == LinkStop([Blame(x, "cancelled") EXCEPT !.asked = TRUE], "cancelled") IN
         Fine(s, x, y) /\ y.phase = x.phase /\ Begun(y)
  <1> DEFINE b == Blame(x, "cancelled")
             a == [b EXCEPT !.asked = TRUE]
             y == LinkStop(a, "cancelled")
  <1>1. x \in Side /\ Honest(x) /\ "cancelled" \in Failures /\ "cancelled" \in Reasons
    BY DEF Firm, Failures, Reasons
  <1>2. /\ b \in Side /\ b.failure = (IF x.failure = "none" THEN "cancelled" ELSE x.failure) /\ Rests(x, b)
        /\ b.exchange = x.exchange /\ b.reader = x.reader /\ b.pc = x.pc /\ b.chan = x.chan /\ b.phase = x.phase
        /\ b.error = x.error /\ b.outcome = x.outcome /\ b.linkEnded = x.linkEnded
    <2>1. CASE x.failure = "none"
      <3>1. b = [x EXCEPT !.failure = "cancelled"]
        BY <2>1 DEF Blame
      <3> QED BY <1>1, <2>1, <3>1 DEF Side, Rests
    <2>2. CASE x.failure # "none"
      <3>1. b = x
        BY <2>2 DEF Blame
      <3> QED BY <1>1, <2>2, <3>1 DEF Rests
    <2> QED BY <2>1, <2>2
  <1> HIDE DEF b
  <1>3. /\ a \in Side /\ a.asked /\ a.failure = b.failure /\ a.exchange = b.exchange /\ a.reader = b.reader /\ a.pc = b.pc
        /\ a.chan = b.chan /\ a.phase = b.phase /\ a.error = b.error /\ a.outcome = b.outcome /\ a.linkEnded = b.linkEnded
        /\ a.sent = b.sent /\ a.chain = b.chain /\ a.stopped = b.stopped /\ a.received = b.received /\ a.carried = b.carried
        /\ a.everConnected = b.everConnected /\ a.used = b.used /\ a.queue = b.queue /\ a.pending = b.pending
        /\ a.restarting = b.restarting /\ a.restartTimer = b.restartTimer
    BY <1>2 DEF Side
  <1>4. x.sent \in Nat /\ Messages \in Nat /\ Messages >= 3
    BY <1>1, Counts
  <1> HIDE DEF a
  <1>5. CASE a.stopped \/ a.linkEnded \/ a.sent >= Messages
    <2>1. y = a
      BY <1>5 DEF LinkStop
    <2>2. Winds(s, x, y)
      BY <1>2, <1>3, <2>1 DEF Winds, WindsLink, WindsPeer, WindsRestarts, WindsPhase, Rests
    <2>3. x.phase = "start" => x.sent >= 1
      <3>1. x.stopped \/ x.linkEnded \/ x.sent >= Messages
        BY <1>2, <1>3, <1>5 DEF Rests
      <3>2. x.phase = "start" /\ (x.stopped \/ x.linkEnded) => x.failure # "none"
        BY DEF Sound, SideInv, ReasonFits, Done
      <3> QED BY <1>1, <1>4, <3>1, <3>2 DEF Honest
    <2>4. Honest(y)
      BY <1>1, <1>2, <1>3, <2>1, <2>3 DEF Honest, Rests
    <2>5. Fine(s, x, y)
      BY <1>2, <1>3, <2>1, <2>2, <2>4, WindsFirm DEF Fine
    <2> QED BY <1>2, <1>3, <2>1, <2>3, <2>5 DEF a, b, Begun, Rests
  <1>6. CASE ~(a.stopped \/ a.linkEnded \/ a.sent >= Messages)
    <2> DEFINE c == Append(a.chain, StopMsg("cancelled"))
               z == [[a EXCEPT !.stopped = TRUE] EXCEPT !.sent = a.sent + 1, !.chain = c]
    <2>1. c \in Seq(Message)
      BY <1>1, <1>3, AppendedStop
    <2>2. a.sent + 1 \in 0..Messages /\ a.sent \in Nat
      BY <1>3, <1>6, LimitsAssumption DEF Side
    <2>3. y = z
      BY <1>3, <1>6 DEF LinkStop, LinkSend, Side
    <2> HIDE DEF c
    <2>4. z \in Side
      BY <1>3, <2>1, <2>2 DEF Side
    <2>5. /\ z.stopped /\ z.chain = c /\ z.sent = a.sent + 1 /\ z.carried = a.carried
          /\ z.exchange = a.exchange /\ z.pc = a.pc /\ z.chan = a.chan
          /\ z.reader = a.reader /\ z.restarting = a.restarting /\ z.pending = a.pending /\ z.queue = a.queue
          /\ z.restartTimer = a.restartTimer /\ z.asked = a.asked
          /\ z.received = a.received /\ z.used = a.used /\ z.everConnected = a.everConnected
          /\ z.failure = a.failure /\ z.phase = a.phase /\ z.outcome = a.outcome /\ z.error = a.error
      BY <1>3, <2>4 DEF Side
    <2> HIDE DEF z, y
    <2>6. \E q \in Reasons : z.chain = Append(x.chain, StopMsg(q))
      BY <1>1, <1>2, <1>3, <2>5 DEF c, Rests
    <2>7. WindsLink(s, x, z)
      BY <1>2, <1>3, <1>6, <2>5, <2>6 DEF WindsLink, Rests
    <2>8. WindsPeer(x, z) /\ WindsRestarts(x, z) /\ WindsPhase(x, z)
      BY <1>2, <1>3, <2>5 DEF WindsPeer, WindsRestarts, WindsPhase, Rests
    <2>9. Honest(z)
      BY <1>1, <1>2, <1>3, <2>2, <2>5 DEF Honest
    <2>10. Fine(s, x, z)
      BY <1>2, <1>3, <2>4, <2>5, <2>7, <2>8, <2>9, WindsFirm DEF Fine, Winds
    <2>11. z.phase = x.phase /\ Begun(z)
      BY <1>2, <1>3, <2>2, <2>5 DEF Begun
    <2> QED BY <2>3, <2>10, <2>11 DEF a, b, y
  <1> QED BY <1>5, <1>6

LEMMA StopFine ==
  ASSUME NEW s \in Sides, NEW now \in BOOLEAN, NEW x, Sound(s, x), Firm(s, x), ~x.asked
  PROVE  LET told == LinkStop([Blame(x, "cancelled") EXCEPT !.asked = TRUE], "cancelled")
             shut == IF now THEN Close(told) ELSE [told EXCEPT !.closeSoon = TRUE]
         IN Fine(s, x, IF x.phase = "moving" THEN Caught(s, shut, "cancelled")
                       ELSE IF x.phase \in Idle THEN Finished(shut, "cancelled") ELSE shut)
  <1> DEFINE told == LinkStop([Blame(x, "cancelled") EXCEPT !.asked = TRUE], "cancelled")
             soon == [told EXCEPT !.closeSoon = TRUE]
             shut == IF now THEN Close(told) ELSE soon
  <1>1. Fine(s, x, told) /\ told.phase = x.phase /\ Begun(told) /\ x \in Side
    BY ToldFine DEF Firm
  <1> HIDE DEF told
  <1>2. Firm(s, told) /\ told \in Side
    BY <1>1, FineFirm
  <1>3. Fine(s, told, Close(told)) /\ Close(told).phase = told.phase
    BY <1>2, CloseFine, CloseEases DEF Eases
  <1>4. /\ soon \in Side /\ Rests(told, soon) /\ soon.exchange = told.exchange /\ soon.reader = told.reader
        /\ soon.pc = told.pc /\ soon.chan = told.chan /\ soon.everConnected = told.everConnected /\ soon.phase = told.phase
        /\ soon.error = told.error /\ soon.failure = told.failure /\ soon.outcome = told.outcome
    BY <1>2 DEF Side, Rests
  <1> HIDE DEF soon
  <1>5. Fine(s, told, soon)
    BY <1>2, <1>4, QuietFine DEF WindsPeer
  <1>6. Fine(s, told, shut) /\ shut.phase = x.phase
    BY <1>1, <1>3, <1>4, <1>5
  <1> HIDE DEF shut
  <1>7. Fine(s, x, shut) /\ Firm(s, shut)
    BY <1>1, <1>6, FineTrans, FineFirm
  <1>8. Begun(shut)
    <2>1. told.sent \in Nat /\ shut.sent \in Nat /\ shut.sent >= told.sent
      BY <1>2, <1>6, FineFirm, Counts DEF Fine, Steady
    <2> QED BY <1>1, <1>6, <2>1 DEF Begun
  <1>9. "cancelled" \in Failures /\ "cancelled" \in Outcomes /\ Fair(shut, "cancelled")
    BY DEF Failures, Outcomes, Fair
  <1>10. x.phase = "moving" => Fine(s, shut, Caught(s, shut, "cancelled"))
    BY <1>6, <1>7, <1>8, <1>9, CaughtFine DEF Done
  <1>11. Fine(s, shut, Finished(shut, "cancelled"))
    BY <1>7, <1>8, <1>9, FinishedFine
  <1>12. Fine(s, x, Finished(shut, "cancelled")) /\ (x.phase = "moving" => Fine(s, x, Caught(s, shut, "cancelled")))
    BY <1>1, <1>7, <1>10, <1>11, FineTrans
  <1>13. Fine(s, x, IF x.phase = "moving" THEN Caught(s, shut, "cancelled")
                    ELSE IF x.phase \in Idle THEN Finished(shut, "cancelled") ELSE shut)
    BY <1>7, <1>12
  <1> QED BY <1>13 DEF shut, soon, told

(* A read that finds the exchange gone.                                    *)
LEMMA ReadFailsFine ==
  ASSUME NEW s \in Sides, NEW x, Firm(s, x), Reading(x)
  PROVE  Fine(s, x, IF x.reader # "reading" THEN Caught(s, x, IF x.linkEnded THEN "network" ELSE "expired")
                    ELSE IF s = "page" THEN NoMoreRestarts(x)
                    ELSE DropPending([x EXCEPT !.reader = "off"]))
  <1> DEFINE e == IF x.linkEnded THEN "network" ELSE "expired"
  <1>1. e \in Failures /\ Fair(x, e)
    BY DEF Failures, Fair
  <1>2. x.reader # "reading" => Begun(x) /\ x.phase \notin Done
    BY DEF Reading, ReadPhases, Begun, Done
  <1> HIDE DEF e
  <1>3. x.reader # "reading" => Fine(s, x, Caught(s, x, e))
    BY <1>1, <1>2, CaughtFine
  <1>4. x.reader = "reading" /\ s = "page" => Fine(s, x, NoMoreRestarts(x))
    BY NoMoreRestartsFine
  <1>5. x.reader = "reading" => Fine(s, x, DropPending([x EXCEPT !.reader = "off"]))
    BY OffFine
  <1> QED BY <1>3, <1>4, <1>5 DEF e

(* Drop's restarts are asked for, wait and begin.                          *)
LEMMA QueueFine ==
  ASSUME NEW x, NEW q \in Nat, NEW t \in BOOLEAN, Firm("drop", x), x.phase \notin Pre, x.sent >= 2
  PROVE  Fine("drop", x, [x EXCEPT !.queue = q, !.restartTimer = t])
  <1> DEFINE y == [x EXCEPT !.queue = q, !.restartTimer = t]
  <1>1. x \in Side /\ DropTurn(x)
    BY DEF Firm
  <1>2. Apart(x, y) /\ y.pending = x.pending /\ y.restarting = x.restarting
    BY <1>1 DEF Side, Apart
  <1> HIDE DEF y
  <1>3. DropTurn(y) /\ RestartsFit(y)
    BY <1>1, <1>2 DEF DropTurn, RestartsFit, Awaited, Apart
  <1>4. Fine("drop", x, y)
    BY <1>2, <1>3, ApartFine
  <1> QED BY <1>4 DEF y

LEMMA RestartBeginsFine ==
  ASSUME NEW x, NEW q \in Nat, Firm("drop", x), x.phase \notin Pre, x.sent >= 2, x.used < Restarts, x.restarting = "no"
  PROVE  Fine("drop", x, [x EXCEPT !.queue = q, !.used = x.used + 1, !.restarting = "describing"])
  <1> DEFINE u == x.used + 1
             y == [x EXCEPT !.queue = q, !.used = u, !.restarting = "describing"]
  <1>1. x \in Side /\ DropTurn(x)
    BY DEF Firm
  <1>2. u \in 0..Restarts
    BY <1>1, LimitsAssumption DEF Side
  <1> HIDE DEF u
  <1>3. Apart(x, y) /\ y.pending = x.pending
    BY <1>1, <1>2 DEF Side, Apart
  <1> HIDE DEF y
  <1>4. DropTurn(y) /\ RestartsFit(y)
    BY <1>1, <1>3 DEF DropTurn, RestartsFit, Awaited, Apart
  <1>5. Fine("drop", x, y)
    BY <1>3, <1>4, ApartFine
  <1> QED BY <1>5 DEF y, u

(***************************************************************************)
(* What is between the ends                                                *)
(***************************************************************************)

(* The messages of an end that wait for the other, which has read `seen`:  *)
(* each is legal under the index it will be read under.                    *)
InMail(s, x, seen, ml) ==
  /\ seen + Len(ml) <= x.sent
  /\ x.exchange = "open" => seen + Len(ml) = Carried(x)
  /\ \A i \in 1..Len(ml) : /\ LegalAt(s, x, ml[i], seen + (i - 1))
                           /\ ml[i].event = "restart-answer" => seen + (i - 1) < x.received

(* The page has a peer only once Drop has accepted.                        *)
AcceptFits(p, d, md) ==
  (\E i \in 1..Len(md) : md[i].event = "accept") \/ p.phase = "preparing" \/ p.pc # "none" => d.phase \notin Pre

(* The only breaches called by name.                                       *)
Breach(p, d, tp, td) ==
  /\ p.outcome = "protocol" => tp \/ p.chan = "unopened" \/ (p.received = 1 /\ TooSoon("drop", d))
  /\ d.outcome = "protocol" => td \/ d.chan = "unopened"

(* tp, td: the page, or Drop, has thrown an error of its own.              *)
Joined(p, d, mp, md, tp, td) ==
  /\ Firm("page", p) /\ Firm("drop", d) /\ mp \in Seq(Message) /\ md \in Seq(Message)
  /\ InMail("page", p, d.received, mp) /\ InMail("drop", d, p.received, md)
  /\ AcceptFits(p, d, md) /\ Breach(p, d, tp, td)

Meet == Joined(side["page"], side["drop"], mail["page"], mail["drop"], threw["page"], threw["drop"])

LEMMA InMailStays ==
  ASSUME NEW s \in Sides, NEW x \in Side, NEW y \in Side, NEW seen \in Nat, NEW ml \in Seq(Message),
         InMail(s, x, seen, ml), y.sent >= x.sent, y.received >= x.received,
         y.exchange = "open" => x.exchange = "open" /\ Carried(y) = Carried(x),
         x.asked /\ x.stopped => y.asked /\ y.stopped /\ y.sent = x.sent
  PROVE  InMail(s, y, seen, ml)
  <1>1. x.sent \in Nat /\ y.sent \in Nat /\ x.received \in Nat /\ y.received \in Nat /\ Len(ml) \in Nat
    BY Counts
  <1>2. seen + Len(ml) <= y.sent /\ (y.exchange = "open" => seen + Len(ml) = Carried(y))
    BY <1>1 DEF InMail
  <1>3. ASSUME NEW i \in 1..Len(ml)
        PROVE  /\ LegalAt(s, y, ml[i], seen + (i - 1))
               /\ ml[i].event = "restart-answer" => seen + (i - 1) < y.received
    <2>1. /\ LegalAt(s, x, ml[i], seen + (i - 1))
          /\ ml[i].event = "restart-answer" => seen + (i - 1) < x.received
      BY DEF InMail
    <2>2. LegalAt(s, y, ml[i], seen + (i - 1))
      BY <2>1 DEF LegalAt, TooSoon
    <2> QED BY <1>1, <2>1, <2>2
  <1> QED BY <1>2, <1>3 DEF InMail

(* An end takes a step of its own.                                         *)
LEMMA PageJoined ==
  ASSUME NEW p, NEW d, NEW mp, NEW md, NEW q, NEW tp, NEW td, NEW uq, NEW ud, Joined(p, d, mp, md, tp, td),
         tp => uq, td => ud, Firm("page", q), Steady("page", p, q), Fine("page", p, q) \/ uq
  PROVE  Joined(q, d, mp, md, uq, ud)
  <1>1. p \in Side /\ q \in Side /\ d \in Side /\ mp \in Seq(Message) /\ "page" \in Sides
    BY DEF Joined, Firm, Sides
  <1>2. d.received \in Nat /\ p.received \in Nat /\ q.received = p.received
    BY <1>1, Counts DEF Steady
  <1>3. InMail("page", q, d.received, mp)
    BY <1>1, <1>2, InMailStays DEF Joined, Steady
  <1>4. InMail("drop", d, q.received, md)
    BY <1>2 DEF Joined
  <1>5. AcceptFits(q, d, md)
    BY <1>1 DEF Joined, AcceptFits, Steady
  <1>6. Breach(q, d, uq, ud)
    BY <1>1 DEF Joined, Breach, Fine, Steady
  <1> QED BY <1>1, <1>3, <1>4, <1>5, <1>6 DEF Joined

LEMMA DropJoined ==
  ASSUME NEW p, NEW d, NEW mp, NEW md, NEW e, NEW tp, NEW td, NEW up, NEW ue, Joined(p, d, mp, md, tp, td),
         tp => up, td => ue, Firm("drop", e), Steady("drop", d, e), Fine("drop", d, e) \/ ue
  PROVE  Joined(p, e, mp, md, up, ue)
  <1>1. p \in Side /\ d \in Side /\ e \in Side /\ md \in Seq(Message) /\ "drop" \in Sides
    BY DEF Joined, Firm, Sides
  <1>2. d.received \in Nat /\ p.received \in Nat /\ e.received = d.received
    BY <1>1, Counts DEF Steady
  <1>3. InMail("drop", e, p.received, md)
    BY <1>1, <1>2, InMailStays DEF Joined, Steady
  <1>4. InMail("page", p, e.received, mp)
    BY <1>2 DEF Joined
  <1>5. AcceptFits(p, e, md)
    BY <1>1 DEF Joined, AcceptFits, Steady
  <1>6. Breach(p, e, up, ue)
    BY <1>1 DEF Joined, Breach, Fine, Steady, TooSoon
  <1> QED BY <1>1, <1>3, <1>4, <1>5, <1>6 DEF Joined

LEMMA SideFirm == ASSUME Core, Meet, NEW s \in Sides PROVE Firm(s, side[s]) /\ Sound(s, side[s])
  BY Sides2 DEF Meet, Joined, Sides

LEMMA PutMeet ==
  ASSUME Core, Meet, Recalls, NEW s \in Sides, NEW y, Put(s, y), UNCHANGED mail,
         \/ Fine(s, side[s], y)
         \/ Firm(s, y) /\ Steady(s, side[s], y) /\ threw'[s]
  PROVE  Meet'
  <1>1. side' = [side EXCEPT ![s] = y] /\ side \in [Sides -> Side] /\ mail' = mail
    BY DEF Put, Core, TypeOK
  <1>4. (threw["page"] => threw'["page"]) /\ (threw["drop"] => threw'["drop"])
    BY DEF Recalls, Sides
  <1>5. Firm(s, y) /\ Steady(s, side[s], y) /\ (Fine(s, side[s], y) \/ threw'[s])
    BY DEF Fine
  <1>2. CASE s = "page"
    <2>1. side'["page"] = y /\ side'["drop"] = side["drop"]
      BY <1>1, <1>2 DEF Sides
    <2>2. Joined(y, side["drop"], mail["page"], mail["drop"], threw'["page"], threw'["drop"])
      BY <1>2, <1>4, <1>5, PageJoined DEF Meet
    <2> QED BY <1>1, <2>1, <2>2 DEF Meet
  <1>3. CASE s = "drop"
    <2>1. side'["drop"] = y /\ side'["page"] = side["page"]
      BY <1>1, <1>3 DEF Sides
    <2>2. Joined(side["page"], y, mail["page"], mail["drop"], threw'["page"], threw'["drop"])
      BY <1>3, <1>4, <1>5, DropJoined DEF Meet
    <2> QED BY <1>1, <2>1, <2>2 DEF Meet
  <1> QED BY <1>2, <1>3 DEF Sides

(* The exchange carries the first message of a chain: it arrives under the *)
(* index it was sent under.                                                *)
LEMMA CarriedFirm ==
  ASSUME NEW s \in Sides, NEW x, NEW y, Firm(s, x), ~x.carried, y = [x EXCEPT !.carried = TRUE]
  PROVE  /\ Firm(s, y) /\ y.sent = x.sent /\ y.received = x.received /\ y.exchange = x.exchange /\ y.phase = x.phase
         /\ y.asked = x.asked /\ y.stopped = x.stopped /\ y.pc = x.pc /\ y.chan = x.chan /\ y.outcome = x.outcome
         /\ Carried(x) = x.sent - Len(x.chain) /\ Carried(y) = (x.sent - Len(x.chain)) + 1
  <1>1. /\ x \in Side /\ LeastTaken(s, x) <= x.sent /\ ReaderFits(x) /\ ChainLegal(s, x) /\ Honest(x)
        /\ (s = "page" => PageTurn(x)) /\ (s = "drop" => DropTurn(x) /\ RestartsFit(x))
    BY DEF Firm
  <1>2. /\ y \in Side /\ y.sent = x.sent /\ y.received = x.received /\ y.exchange = x.exchange /\ y.phase = x.phase
        /\ y.asked = x.asked /\ y.stopped = x.stopped /\ y.pc = x.pc /\ y.chan = x.chan /\ y.outcome = x.outcome
        /\ y.chain = x.chain /\ y.carried = TRUE
    BY <1>1 DEF Side
  <1>3. /\ y.failure = x.failure /\ y.error = x.error /\ y.reader = x.reader /\ y.used = x.used /\ y.queue = x.queue
        /\ y.restarting = x.restarting /\ y.pending = x.pending /\ y.restartTimer = x.restartTimer
        /\ y.everConnected = x.everConnected
    BY <1>1 DEF Side
  <1>4. x.received \in Nat /\ y.received >= x.received /\ (x.stopped => y.stopped) /\ (x.asked => y.asked)
    BY <1>1, <1>2, Counts
  <1>5. ChainLegal(s, y)
    BY ONLY s \in Sides, <1>1, <1>2, <1>4, ChainStays
  <1>6. LeastTaken(s, y) <= y.sent /\ ReaderFits(y) /\ Honest(y)
    BY <1>1, <1>2, <1>3 DEF LeastTaken, ReaderFits, Honest
  <1>7. (s = "page" => PageTurn(y)) /\ (s = "drop" => DropTurn(y) /\ RestartsFit(y))
    BY <1>1, <1>2, <1>3 DEF PageTurn, DropTurn, Awaited, RestartsFit, NoRestarts
  <1>8. Carried(x) = x.sent - Len(x.chain) /\ Carried(y) = (x.sent - Len(x.chain)) + 1
    BY <1>1, <1>2, Counts DEF Carried
  <1> QED BY <1>2, <1>5, <1>6, <1>7, <1>8 DEF Firm

LEMMA MailGrows ==
  ASSUME NEW s \in Sides, NEW x, NEW y, NEW seen \in Nat, NEW ml \in Seq(Message), Firm(s, x), ~x.carried,
         x.chain # <<>>, x.exchange = "open", y = [x EXCEPT !.carried = TRUE], InMail(s, x, seen, ml)
  PROVE  InMail(s, y, seen, Append(ml, Head(x.chain))) /\ Append(ml, Head(x.chain)) \in Seq(Message)
  <1> DEFINE m == Head(x.chain)
             mm == Append(ml, m)
  <1>1. x \in Side /\ ChainLegal(s, x)
    BY DEF Firm
  <1>2. /\ x.chain \in Seq(Message) /\ Len(x.chain) \in Nat /\ x.sent \in Nat /\ x.received \in Nat /\ Len(ml) \in Nat
    BY <1>1, Counts
  <1>3. m = x.chain[1] /\ 1 \in 1..Len(x.chain) /\ m \in Message
    BY <1>2
  <1>4. /\ y.sent = x.sent /\ y.received = x.received /\ y.asked = x.asked /\ y.stopped = x.stopped
        /\ Carried(x) = x.sent - Len(x.chain) /\ Carried(y) = (x.sent - Len(x.chain)) + 1
    BY CarriedFirm
  <1>5. seen + Len(ml) = x.sent - Len(x.chain)
    BY <1>4 DEF InMail
  <1>6. /\ LegalAt(s, x, m, seen + Len(ml)) /\ (m.event = "restart-answer" => seen + Len(ml) < x.received)
    <2>1. IndexOf(x, 1) = seen + Len(ml)
      BY <1>2, <1>5 DEF IndexOf
    <2> QED BY <1>1, <1>3, <2>1 DEF ChainLegal
  <1> HIDE DEF m
  <1>7. mm \in Seq(Message) /\ Len(mm) = Len(ml) + 1 /\ mm[Len(ml) + 1] = m /\ \A i \in 1..Len(ml) : mm[i] = ml[i]
    BY <1>2, <1>3
  <1> HIDE DEF mm
  <1>8. seen + Len(mm) <= y.sent /\ seen + Len(mm) = Carried(y)
    <2>1. Len(x.chain) >= 1 /\ Len(mm) = Len(ml) + 1 /\ Carried(y) = (x.sent - Len(x.chain)) + 1 /\ y.sent = x.sent
      BY <1>2, <1>3, <1>4, <1>7
    <2> QED BY ONLY seen \in Nat, <1>2, <1>5, <2>1
  <1>9. ASSUME NEW i \in 1..Len(mm)
        PROVE  /\ LegalAt(s, y, mm[i], seen + (i - 1))
               /\ mm[i].event = "restart-answer" => seen + (i - 1) < y.received
    <2>1. CASE i = Len(ml) + 1
      <3>1. mm[i] = m /\ seen + (i - 1) = seen + Len(ml)
        BY <1>2, <1>7, <2>1
      <3> QED BY <1>4, <1>6, <3>1 DEF LegalAt, TooSoon
    <2>2. CASE i # Len(ml) + 1
      <3>1. i \in 1..Len(ml)
        BY <1>2, <1>7, <2>2
      <3>2. /\ LegalAt(s, x, ml[i], seen + (i - 1)) /\ (ml[i].event = "restart-answer" => seen + (i - 1) < x.received)
        BY <3>1 DEF InMail
      <3>3. mm[i] = ml[i]
        BY <1>7, <3>1
      <3> QED BY <1>4, <3>2, <3>3 DEF LegalAt, TooSoon
    <2> QED BY <2>1, <2>2
  <1>10. InMail(s, y, seen, mm)
    BY <1>8, <1>9 DEF InMail
  <1> QED BY <1>7, <1>10 DEF mm, m

LEMMA CarryMeet == ASSUME Core, Meet, Recalls, NEW s \in Sides, Carry(s) PROVE Meet'
  <1> DEFINE x == side[s]
             y == [x EXCEPT !.carried = TRUE]
             mm == Append(mail[s], Head(x.chain))
             p == side["page"]
             d == side["drop"]
  <1>1. /\ x.exchange = "open" /\ x.chain # <<>> /\ ~x.carried /\ side' = [side EXCEPT ![s] = y]
        /\ mail' = [mail EXCEPT ![s] = mm]
    BY DEF Carry, Put
  <1>2. side \in [Sides -> Side] /\ mail \in [Sides -> Seq(Message)]
    BY DEF Core, TypeOK
  <1>3. Firm(s, x) /\ Sound(s, x)
    BY SideFirm
  <1>4. /\ Firm(s, y) /\ y.sent = x.sent /\ y.received = x.received /\ y.exchange = x.exchange /\ y.phase = x.phase
        /\ y.asked = x.asked /\ y.stopped = x.stopped /\ y.pc = x.pc /\ y.chan = x.chan /\ y.outcome = x.outcome
    BY <1>1, <1>3, CarriedFirm
  <1>5. x.chain \in Seq(Message) /\ x \in Side
    BY <1>3, Counts DEF Firm
  <1>6. /\ Joined(p, d, mail["page"], mail["drop"], threw["page"], threw["drop"]) /\ "page" \in Sides /\ "drop" \in Sides
        /\ (threw["page"] => threw'["page"]) /\ (threw["drop"] => threw'["drop"])
    BY DEF Meet, Sides, Recalls
  <1>7. p.received \in Nat /\ d.received \in Nat
    BY <1>2, <1>6, Counts
  <1>8. CASE s = "page"
    <2>1. side'["page"] = y /\ side'["drop"] = d /\ mail'["page"] = mm /\ mail'["drop"] = mail["drop"]
      BY <1>1, <1>2, <1>8 DEF Sides
    <2>2. InMail("page", y, d.received, mm) /\ mm \in Seq(Message)
      BY <1>1, <1>2, <1>3, <1>6, <1>7, <1>8, MailGrows DEF Joined
    <2> HIDE DEF y, mm
    <2>3. InMail("drop", d, y.received, mail["drop"])
      BY <1>4, <1>6, <1>8 DEF Joined
    <2>4. AcceptFits(y, d, mail["drop"]) /\ Breach(y, d, threw'["page"], threw'["drop"])
      BY <1>4, <1>6, <1>8 DEF Joined, AcceptFits, Breach
    <2>5. Joined(y, d, mm, mail["drop"], threw'["page"], threw'["drop"])
      BY <1>4, <1>6, <1>8, <2>2, <2>3, <2>4 DEF Joined
    <2> QED BY <2>1, <2>5 DEF Meet
  <1>9. CASE s = "drop"
    <2>1. side'["drop"] = y /\ side'["page"] = p /\ mail'["drop"] = mm /\ mail'["page"] = mail["page"]
      BY <1>1, <1>2, <1>9 DEF Sides
    <2>2. InMail("drop", y, p.received, mm) /\ mm \in Seq(Message)
      BY <1>1, <1>2, <1>3, <1>6, <1>7, <1>9, MailGrows DEF Joined
    <2>3. ASSUME NEW i \in 1..Len(mm), mm[i].event = "accept" PROVE y.phase \notin Pre
      <3>1. CASE i \in 1..Len(mail["drop"])
        <4>1. mm[i] = mail["drop"][i]
          BY <1>1, <1>2, <1>5, <1>6, <1>9, <3>1
        <4> QED BY <1>4, <1>6, <1>9, <2>3, <3>1, <4>1 DEF Joined, AcceptFits
      <3>2. CASE i \notin 1..Len(mail["drop"])
        <4>1. mm[i] = Head(x.chain)
          BY <1>1, <1>2, <1>5, <1>6, <1>9, <3>2
        <4>2. Head(x.chain) = x.chain[1] /\ 1 \in 1..Len(x.chain)
          BY <1>1, <1>5
        <4>3. x.phase = OutPhase("accept")
          BY <1>3, <2>3, <4>1, <4>2 DEF Sound, SideInv, ChainFits, Waited
        <4> QED BY <1>4, <4>3 DEF OutPhase, Pre
      <3> QED BY <3>1, <3>2
    <2> HIDE DEF y, mm
    <2>4. InMail("page", p, y.received, mail["page"])
      BY <1>4, <1>6, <1>9 DEF Joined
    <2>5. AcceptFits(p, y, mm)
      BY <1>4, <1>6, <1>9, <2>3 DEF Joined, AcceptFits
    <2>6. Breach(p, y, threw'["page"], threw'["drop"])
      BY <1>4, <1>6, <1>9 DEF Joined, Breach, TooSoon
    <2>7. Joined(p, y, mail["page"], mm, threw'["page"], threw'["drop"])
      BY <1>4, <1>6, <1>9, <2>2, <2>4, <2>5, <2>6 DEF Joined
    <2> QED BY <2>1, <2>7 DEF Meet
  <1> QED BY <1>8, <1>9 DEF Sides

(***************************************************************************)
(* Link.read, between the ends                                             *)
(***************************************************************************)

(* What a step that reads a message leaves of what the other relies on:    *)
(* only an accept lets the page make a peer, and only a stop under Drop's  *)
(* first index is called a breach.                                         *)
Heeds(s, x, y, e) ==
  /\ Firm(s, y) /\ y.sent >= x.sent /\ y.received = x.received + 1
  /\ y.exchange = "open" => x.exchange = "open" /\ Carried(y) = Carried(x)
  /\ x.asked /\ x.stopped => y.asked /\ y.stopped /\ y.sent = x.sent
  /\ y.phase \in Pre => x.phase \in Pre
  /\ s = "page" /\ (y.pc # "none" \/ y.phase = "preparing") => x.pc # "none" \/ x.phase = "preparing" \/ e = "accept"
  /\ x.chan = "unopened" => y.chan = "unopened"
  /\ y.outcome = "protocol" =>
       y.chan = "unopened" \/ x.outcome = "protocol" \/ (s = "page" /\ x.received = 0 /\ e = "stop")

LEMMA HeedsOn ==
  ASSUME NEW s \in Sides, NEW x \in Side, NEW c, NEW y, NEW e, Heeds(s, x, c, e), Fine(s, c, y) PROVE Heeds(s, x, y, e)
  <1>1. c \in Side /\ y \in Side
    BY DEF Heeds, Fine, Firm
  <1>2. x.sent \in Nat /\ c.sent \in Nat /\ y.sent \in Nat
    BY <1>1, Counts
  <1>3. y.sent >= x.sent
    BY <1>2 DEF Heeds, Fine, Steady
  <1> QED BY <1>3 DEF Heeds, Fine, Steady

(* The index is counted, and a stop noted, before anything else.           *)
Hears(x, c) == Heard(x, c) /\ c.asked = x.asked /\ c.queue = x.queue /\ c.restartTimer = x.restartTimer

LEMMA HearsIs ==
  ASSUME NEW s \in Sides, NEW x, Sound(s, x), Reading(x)
  PROVE  LET y == [x EXCEPT !.received = @ + 1] IN
         /\ Hears(x, y) /\ y.stopped = x.stopped
         /\ Hears(x, [y EXCEPT !.stopped = TRUE]) /\ [y EXCEPT !.stopped = TRUE].stopped
  <1> DEFINE n == x.received + 1
             y == [x EXCEPT !.received = n]
             z == [y EXCEPT !.stopped = TRUE]
  <1>1. x \in Side /\ Heard(x, y) /\ y.stopped = x.stopped /\ Heard(x, z)
    BY HeardIs DEF Sound
  <1> HIDE DEF n
  <1>2. y.asked = x.asked /\ y.queue = x.queue /\ y.restartTimer = x.restartTimer
    BY <1>1 DEF Side
  <1>3. z.asked = x.asked /\ z.queue = x.queue /\ z.restartTimer = x.restartTimer /\ z.stopped
    BY <1>1 DEF Side
  <1> QED BY <1>1, <1>2, <1>3 DEF Hears, n

(* Counting the index leaves an end firm, unless a loop reads that has yet *)
(* to act on the message.                                                  *)
LEMMA HearsFirm ==
  ASSUME NEW s \in Sides, NEW x, NEW c, NEW e, Sound(s, x), Firm(s, x), Reading(x), Hears(x, c), c.stopped \/ x.reader = "off"
  PROVE  Heeds(s, x, c, e)
  <1>1. /\ x \in Side /\ LeastTaken(s, x) <= x.sent /\ ReaderFits(x) /\ ChainLegal(s, x) /\ Honest(x)
        /\ (s = "page" => PageTurn(x)) /\ (s = "drop" => DropTurn(x) /\ RestartsFit(x))
    BY DEF Firm
  <1>2. Heard(x, c) /\ c \in Side /\ c.asked = x.asked /\ c.queue = x.queue /\ c.restartTimer = x.restartTimer
    BY DEF Hears, Heard
  <1>3. x.received \in Nat /\ c.received = x.received + 1 /\ c.received >= x.received /\ x.sent \in Nat
    BY <1>1, <1>2, Counts DEF Heard
  <1>4. ChainLegal(s, c) /\ Carried(c) = Carried(x)
    BY <1>1, <1>2, <1>3, ChainStays DEF Heard
  <1>5. LeastTaken(s, c) <= c.sent /\ ReaderFits(c) /\ Honest(c)
    BY <1>1, <1>2 DEF LeastTaken, ReaderFits, Honest, Heard
  <1>6. s = "page" => PageTurn(c)
    <2>1. x.reader = "off" => x.phase # "answerOut"
      BY DEF Reading, ReadPhases
    <2> QED BY <1>1, <1>2, <2>1 DEF PageTurn, Heard
  <1>7. s = "drop" => DropTurn(c)
    BY <1>1, <1>2 DEF DropTurn, Awaited, Heard
  <1>8. s = "drop" => RestartsFit(c)
    BY <1>1, <1>2 DEF RestartsFit, NoRestarts, Heard
  <1>9. Firm(s, c)
    BY <1>2, <1>4, <1>5, <1>6, <1>7, <1>8 DEF Firm
  <1>10. x.asked /\ x.stopped => c.asked /\ c.stopped /\ c.sent = x.sent
    BY <1>2 DEF Heard
  <1> QED BY <1>2, <1>3, <1>4, <1>9, <1>10 DEF Heeds, Heard

(* The call goes on with what it has read.                                 *)
LEMMA CallHeeds ==
  ASSUME NEW s \in Sides, NEW x, NEW c, NEW p, NEW e, Sound(s, x), Firm(s, x), Reading(x), Hears(x, c), c.stopped = x.stopped,
         \/ s = "page" /\ x.phase = "inviting" /\ p = "choosing"
         \/ s = "page" /\ x.phase = "offered" /\ p = "preparing" /\ e = "accept"
         \/ s = "drop" /\ x.phase = "invited" /\ p = "deciding"
         \/ s = "drop" /\ x.phase = "accepted" /\ p = "applying"
  PROVE  Heeds(s, x, [c EXCEPT !.phase = p], e)
  <1> DEFINE y == [c EXCEPT !.phase = p]
  <1>1. x.reader = "off"
    BY WhoReads DEF ReadPhases, Done
  <1>2. Heeds(s, x, c, e)
    BY <1>1, HearsFirm
  <1>3. Firm(s, c) /\ c \in Side /\ c.phase = x.phase /\ c.reader = "off"
    BY <1>1, <1>2 DEF Heeds, Firm, Hears, Heard
  <1>4. p \in Phases
    BY DEF Phases, Idle, CallPhases
  <1>5. /\ y \in Side /\ y.phase = p /\ y.sent = c.sent /\ y.received = c.received /\ y.stopped = c.stopped
        /\ y.asked = c.asked /\ y.chain = c.chain /\ y.carried = c.carried /\ y.exchange = c.exchange
        /\ y.pc = c.pc /\ y.chan = c.chan /\ y.failure = c.failure /\ y.error = c.error /\ y.outcome = c.outcome
        /\ y.reader = c.reader /\ y.everConnected = c.everConnected /\ y.used = c.used /\ y.queue = c.queue
        /\ y.restarting = c.restarting /\ y.pending = c.pending /\ y.restartTimer = c.restartTimer
    BY <1>3, <1>4 DEF Side
  <1> HIDE DEF y
  <1>6. /\ LeastTaken(s, c) <= c.sent /\ ReaderFits(c) /\ ChainLegal(s, c) /\ Honest(c)
        /\ (s = "page" => PageTurn(c)) /\ (s = "drop" => DropTurn(c) /\ RestartsFit(c))
    BY <1>3 DEF Firm
  <1>7. c.sent \in Nat /\ c.received \in Nat
    BY <1>3, Counts
  <1>8. ChainLegal(s, y) /\ Carried(y) = Carried(c)
    BY <1>3, <1>5, <1>6, <1>7, ChainStays
  <1>9. LeastTaken(s, y) <= y.sent /\ ReaderFits(y)
    BY <1>3, <1>5, <1>6, <1>7 DEF LeastTaken, Done, Pre, ReaderFits
  <1>10. Honest(y)
    BY <1>3, <1>5, <1>6 DEF Honest, Done
  <1>11. s = "page" => PageTurn(y)
    BY <1>3, <1>5, <1>6 DEF PageTurn
  <1>12. s = "drop" => DropTurn(y)
    BY <1>3, <1>5, <1>6 DEF DropTurn, Awaited, AcceptPhases
  <1>13. s = "drop" => RestartsFit(y)
    BY <1>3, <1>5, <1>6 DEF RestartsFit, NoRestarts, Pre
  <1>14. Firm(s, y)
    BY <1>5, <1>8, <1>9, <1>10, <1>11, <1>12, <1>13 DEF Firm
  <1>15. y.phase \in Pre => x.phase \in Pre
    BY <1>5 DEF Pre
  <1>16. Heeds(s, x, y, e)
    BY <1>2, <1>3, <1>5, <1>8, <1>14, <1>15 DEF Heeds
  <1> QED BY <1>16 DEF y

(* The read is a stop: the call or the loop ends with it.                  *)
LEMMA StopHeeds ==
  ASSUME NEW s \in Sides, NEW x, NEW c, NEW e, NEW kind \in Failures \ {"none", "protocol"}, Sound(s, x), Firm(s, x), Reading(x),
         Hears(x, c), c.stopped
  PROVE  Heeds(s, x, Threw(s, c, kind), e)
  <1>1. Heeds(s, x, c, e) /\ x \in Side
    BY HearsFirm DEF Firm
  <1>2. Firm(s, c) /\ c.reader = x.reader /\ c.phase = x.phase
    BY <1>1 DEF Heeds, Hears, Heard
  <1>3. CASE x.reader = "reading"
    <2>1. Threw(s, c, kind) = Fail(s, c, kind)
      BY <1>2, <1>3 DEF Threw
    <2>2. Fine(s, c, Fail(s, c, kind))
      BY <1>2, <1>3, FailFine
    <2> QED BY <1>1, <2>1, <2>2, HeedsOn
  <1>4. CASE x.reader # "reading"
    <2>1. Threw(s, c, kind) = Caught(s, c, kind)
      BY <1>2, <1>4 DEF Threw
    <2>2. c.phase \notin Done /\ c.phase # "start"
      BY <1>2, <1>4 DEF Reading, ReadPhases, Done
    <2>3. Fine(s, c, Caught(s, c, kind))
      BY <1>2, <2>2, CaughtFine DEF Begun, Fair
    <2> QED BY <1>1, <2>1, <2>3, HeedsOn
  <1> QED BY <1>3, <1>4

(* The page cannot use what it has read before any file was chosen.        *)
LEMMA InvitingHeeds ==
  ASSUME NEW x, NEW c, NEW e, NEW r \in Reasons, Sound("page", x), Firm("page", x), x.phase = "inviting", Hears(x, c),
         c.stopped = x.stopped
  PROVE  LET y == LinkStop(c, r) IN Heeds("page", x, y, e) /\ y.phase = "inviting" /\ y.reader = "off"
  <1>1. "page" \in Sides /\ Reading(x) /\ x \in Side
    BY DEF Sides, Reading, ReadPhases, Firm
  <1>2. x.reader = "off" /\ x.received = 0
    BY <1>1, WhoReads DEF ReadPhases, Done
  <1>3. Heeds("page", x, c, e)
    BY <1>1, <1>2, HearsFirm
  <1>4. Firm("page", c) /\ c \in Side /\ c.phase = "inviting" /\ c.reader = "off"
    BY <1>2, <1>3 DEF Heeds, Firm, Hears, Heard
  <1>5. Eases(c, LinkStop(c, r))
    BY <1>4, LinkStopEases
  <1>6. Fine("page", c, LinkStop(c, r))
    BY <1>1, <1>4, LinkStopFine DEF Begun
  <1>7. Heeds("page", x, LinkStop(c, r), e)
    BY <1>1, <1>3, <1>6, HeedsOn
  <1>8. LinkStop(c, r).phase = "inviting"
    BY <1>4, <1>5 DEF Eases
  <1>9. ReaderFits(LinkStop(c, r))
    BY <1>7 DEF Heeds, Firm
  <1>10. LinkStop(c, r).reader = "off"
    BY <1>8, <1>9 DEF ReaderFits, Done
  <1> QED BY <1>7, <1>8, <1>10

(* A stop under Drop's first index: the one case where an honest end is    *)
(* told of a breach.                                                       *)
LEMMA TooSoonHeeds ==
  ASSUME NEW x, NEW c, Sound("page", x), Firm("page", x), x.phase = "inviting", Hears(x, c), c.stopped = x.stopped
  PROVE  Heeds("page", x, Threw("page", LinkStop(c, "failed"), "protocol"), "stop")
  <1> DEFINE a == LinkStop(c, "failed")
             b == LinkStop(a, "failed")
             y == Finished(b, "protocol")
  <1>1. "page" \in Sides /\ Reading(x) /\ x \in Side /\ "failed" \in Reasons /\ "protocol" \in Outcomes
    BY DEF Sides, Reading, ReadPhases, Firm, Reasons, Outcomes, Failures
  <1>2. x.received = 0
    BY <1>1, WhoReads DEF ReadPhases
  <1>3. Heeds("page", x, a, "stop") /\ a.phase = "inviting" /\ a.reader = "off"
    BY <1>1, InvitingHeeds
  <1> HIDE DEF a
  <1>4. Threw("page", a, "protocol") = y
    BY <1>3 DEF Threw, Caught, Rejected, CallPhases, StopFor
  <1>5. Firm("page", a) /\ a \in Side
    BY <1>3 DEF Heeds, Firm
  <1>6. Fine("page", a, b) /\ b.phase = "inviting"
    BY <1>1, <1>3, <1>5, LinkStopFine, LinkStopEases DEF Eases, Begun
  <1>7. Heeds("page", x, b, "stop")
    BY <1>1, <1>3, <1>6, HeedsOn
  <1> HIDE DEF b
  <1>8. Firm("page", b) /\ b \in Side /\ Begun(b)
    BY <1>6, <1>7 DEF Heeds, Firm, Begun
  <1>9. Firm("page", y) /\ Steady("page", b, y)
    BY <1>1, <1>8, FinishedFirm
  <1> HIDE DEF y
  <1>10. y \in Side /\ x.sent \in Nat /\ b.sent \in Nat /\ y.sent \in Nat
    <2>1. y \in Side
      BY <1>9 DEF Firm
    <2> QED BY <1>1, <1>8, <2>1, Counts
  <1>11. y.sent >= x.sent
    BY <1>7, <1>9, <1>10 DEF Heeds, Steady
  <1>12. Heeds("page", x, y, "stop")
    BY <1>2, <1>7, <1>9, <1>11 DEF Heeds, Steady
  <1> QED BY <1>4, <1>12 DEF a

(* A loop that was stopped finds a message out of place: the failure it    *)
(* has recorded wins.                                                      *)
LEMMA StoppedHeeds ==
  ASSUME NEW s \in Sides, NEW x, NEW c, NEW e, Sound(s, x), Firm(s, x), x.reader = "reading", Hears(x, c), x.stopped
  PROVE  Heeds(s, x, Fail(s, LinkStop(c, "failed"), "protocol"), e)
  <1>1. Reading(x) /\ c.stopped /\ x \in Side /\ ReasonFits(x)
    BY DEF Reading, Hears, Heard, Sound, SideInv
  <1>2. Heeds(s, x, c, e)
    BY <1>1, HearsFirm
  <1>3. Firm(s, c) /\ c.reader = "reading" /\ c.failure = x.failure /\ c.phase = x.phase
    BY <1>2 DEF Heeds, Hears, Heard
  <1>4. LinkStop(c, "failed") = c
    BY <1>1 DEF LinkStop
  <1>5. c.failure # "none" \/ c.phase \in Done
    BY <1>1, <1>3 DEF ReasonFits
  <1>6. "protocol" \in Failures \ {"none"}
    BY DEF Failures
  <1>7. Fine(s, c, Fail(s, c, "protocol"))
    BY <1>3, <1>5, <1>6, FailFine
  <1> QED BY <1>1, <1>2, <1>4, <1>7, HeedsOn

(* The page takes up a restart: it has come under the page's own next      *)
(* index.                                                                  *)
LEMMA RestartHeeds ==
  ASSUME NEW x, NEW c, NEW e, Sound("page", x), Firm("page", x), x.reader = "reading", x.received >= 2, Hears(x, c),
         c.stopped = x.stopped
  PROVE  Heeds("page", x, IF x.received = c.sent THEN [c EXCEPT !.reader = "describing"]
                          ELSE Fail("page", LinkStop(c, "failed"), "protocol"), e)
  <1>1. "page" \in Sides /\ x \in Side /\ c \in Side /\ Heard(x, c) /\ c.asked = x.asked
    BY DEF Sides, Firm, Hears, Heard
  <1>2. x.sent \in Nat /\ x.received \in Nat /\ c.received \in Nat
    BY <1>1, Counts
  <1>3. CASE x.received = c.sent
    <2> DEFINE y == [c EXCEPT !.reader = "describing"]
    <2>1. /\ y \in Side /\ y.reader = "describing" /\ y.sent = c.sent /\ y.received = c.received /\ y.stopped = c.stopped
          /\ y.asked = c.asked /\ y.chain = c.chain /\ y.carried = c.carried /\ y.exchange = c.exchange /\ y.phase = c.phase
          /\ y.pc = c.pc /\ y.chan = c.chan /\ y.failure = c.failure /\ y.error = c.error /\ y.outcome = c.outcome
      BY <1>1 DEF Side
    <2> HIDE DEF y
    <2>2. /\ y.sent = x.sent /\ y.received = x.received + 1 /\ y.stopped = x.stopped /\ y.asked = x.asked /\ y.chain = x.chain
          /\ y.carried = x.carried /\ y.exchange = x.exchange /\ y.phase = x.phase /\ y.pc = x.pc /\ y.chan = x.chan
          /\ y.failure = x.failure /\ y.error = x.error /\ y.outcome = x.outcome
      BY <1>1, <2>1 DEF Heard
    <2>3. LeastTaken("page", x) <= x.sent /\ ReaderFits(x) /\ ChainLegal("page", x) /\ Honest(x) /\ PageTurn(x)
      BY DEF Firm
    <2>4. ChainLegal("page", y) /\ Carried(y) = Carried(x)
      BY <1>1, <1>2, <2>1, <2>2, <2>3, ChainStays
    <2>5. LeastTaken("page", y) <= y.sent /\ ReaderFits(y) /\ Honest(y)
      BY <2>2, <2>3 DEF LeastTaken, ReaderFits, Honest
    <2>6. y.phase # "answerOut"
      BY <2>2, <2>3 DEF ReaderFits, Done
    <2>7. PageTurn(y)
      BY <1>1, <1>2, <1>3, <2>1, <2>2, <2>6 DEF PageTurn, Heard
    <2>8. Firm("page", y)
      BY <2>1, <2>4, <2>5, <2>7 DEF Firm
    <2>9. Heeds("page", x, y, e)
      BY <1>2, <2>2, <2>4, <2>8 DEF Heeds
    <2> QED BY <1>3, <2>9 DEF y
  <1>4. CASE x.received # c.sent
    <2>1. x.stopped
      BY <1>1, <1>4 DEF Firm, PageTurn, Heard
    <2>2. Heeds("page", x, Fail("page", LinkStop(c, "failed"), "protocol"), e)
      BY <1>1, <2>1, StoppedHeeds
    <2> QED BY <1>4, <2>2
  <1> QED BY <1>3, <1>4

(* Drop takes the answer to a restart: the page had read the restart, so   *)
(* it is the one Drop waits for.                                           *)
LEMMA AnswerHeeds ==
  ASSUME NEW x, NEW c, NEW e, Sound("drop", x), Firm("drop", x), x.reader = "reading", x.exchange = "open",
         x.received < x.sent, Hears(x, c), c.stopped = x.stopped
  PROVE  Heeds("drop", x, IF x.received = c.pending
                          THEN [DropPending(c) EXCEPT !.pc = IF @ = "failed" THEN "connecting" ELSE @]
                          ELSE Fail("drop", LinkStop(c, "failed"), "protocol"), e)
  <1>1. "drop" \in Sides /\ x \in Side /\ c \in Side /\ Heard(x, c) /\ c.asked = x.asked
        /\ c.queue = x.queue /\ c.restartTimer = x.restartTimer
    BY DEF Sides, Firm, Hears, Heard
  <1>2. x.sent \in Nat /\ x.received \in Nat /\ c.received \in Nat
    BY <1>1, Counts
  <1>3. CASE x.received = c.pending
    <2> DEFINE q == IF c.pending # None /\ c.restarting = "waiting" THEN "no" ELSE c.restarting
               g == IF c.pc = "failed" THEN "connecting" ELSE c.pc
               y == [c EXCEPT !.pending = None, !.restarting = q, !.pc = g]
    <2>1. [DropPending(c) EXCEPT !.pc = IF @ = "failed" THEN "connecting" ELSE @] = y
      BY <1>1 DEF DropPending, Side
    <2>2. /\ q \in {"no", "describing", "sending", "waiting"} /\ (q # "no" => c.restarting # "no")
          /\ None \in -1..Messages /\ g \in Trying \cup {"none", "failed", "closed"}
          /\ (c.pc = "closed" => g = "closed")
      BY <1>1, LimitsAssumption DEF Side, Trying, None
    <2> HIDE DEF q, g
    <2>3. y \in Side
      <3> DEFINE b == [c EXCEPT !.pending = None, !.restarting = q]
      <3>1. b \in Side
        BY <1>1, <2>2 DEF Side
      <3>2. [b EXCEPT !.pc = g] \in Side
        <4> HIDE DEF b
        <4> QED BY <2>2, <3>1 DEF Side
      <3>3. y = [b EXCEPT !.pc = g]
        BY <1>1 DEF Side
      <3> QED BY <3>2, <3>3
    <2>4. /\ y.reader = c.reader /\ y.sent = c.sent /\ y.received = c.received /\ y.stopped = c.stopped
          /\ y.asked = c.asked /\ y.chain = c.chain /\ y.carried = c.carried /\ y.exchange = c.exchange /\ y.phase = c.phase
          /\ y.pc = g /\ y.chan = c.chan /\ y.failure = c.failure /\ y.error = c.error /\ y.outcome = c.outcome
          /\ y.pending = None /\ y.restarting = q /\ y.queue = c.queue /\ y.restartTimer = c.restartTimer
      BY <1>1 DEF Side
    <2> HIDE DEF y
    <2>5. /\ y.sent = x.sent /\ y.received = x.received + 1 /\ y.stopped = x.stopped /\ y.asked = x.asked /\ y.chain = x.chain
          /\ y.carried = x.carried /\ y.exchange = x.exchange /\ y.phase = x.phase /\ y.chan = x.chan
          /\ y.failure = x.failure /\ y.error = x.error /\ y.outcome = x.outcome /\ y.reader = x.reader
          /\ y.queue = x.queue /\ y.restartTimer = x.restartTimer /\ c.restarting = x.restarting /\ c.pending = x.pending
          /\ c.pc = x.pc
      BY <1>1, <2>4 DEF Heard
    <2>6. /\ LeastTaken("drop", x) <= x.sent /\ ReaderFits(x) /\ ChainLegal("drop", x) /\ Honest(x)
          /\ DropTurn(x) /\ RestartsFit(x)
      BY DEF Firm
    <2>7. y.received >= x.received
      BY <1>2, <2>5
    <2>8. ChainLegal("drop", y) /\ Carried(y) = Carried(x)
      BY <1>1, <2>3, <2>5, <2>6, <2>7, ChainStays
    <2>9. LeastTaken("drop", y) <= y.sent /\ ReaderFits(y)
      BY <2>5, <2>6 DEF LeastTaken, ReaderFits
    <2>10. Honest(y)
      BY <2>2, <2>4, <2>5, <2>6 DEF Honest
    <2>11. x.phase \notin Pre
      BY <2>6 DEF ReaderFits, Pre, Done
    <2>12. RestartsFit(y)
      BY <2>2, <2>4, <2>5, <2>6, <2>11 DEF RestartsFit
    <2>13. DropTurn(y)
      <3>1. x.pending # None
        BY <1>2, <1>3, <2>5 DEF None
      <3>2. ~x.stopped => x.sent = x.received + 1
        BY <2>6, <3>1 DEF DropTurn, Awaited
      <3> QED BY <2>4, <2>5, <3>2 DEF DropTurn, Awaited
    <2>14. Firm("drop", y)
      BY <2>3, <2>8, <2>9, <2>10, <2>12, <2>13 DEF Firm
    <2>15. Heeds("drop", x, y, e)
      BY <1>2, <2>5, <2>8, <2>14 DEF Heeds
    <2> QED BY <1>3, <2>1, <2>15
  <1>4. CASE x.received # c.pending
    <2>1. c.pending = x.pending
      BY <1>1 DEF Heard
    <2>2. x.stopped
      BY <1>2, <1>4, <2>1 DEF Firm, DropTurn, Awaited
    <2>3. Heeds("drop", x, Fail("drop", LinkStop(c, "failed"), "protocol"), e)
      BY <1>1, <2>2, StoppedHeeds
    <2> QED BY <1>4, <2>3
  <1> QED BY <1>3, <1>4

(* Whatever the other end has sent, reading it is no breach but for the    *)
(* stop that came too soon.                                                *)
LEMMA ReadHeeds ==
  ASSUME NEW s \in Sides, NEW x, NEW o, NEW m \in Message, Sound(s, x), Firm(s, x), Reading(x), x.exchange = "open",
         LegalAt(Other(s), o, m, x.received), s = "drop" /\ m.event = "restart-answer" => x.received < x.sent
  PROVE  LET y == [x EXCEPT !.received = @ + 1] IN
         Heeds(s, x, IF m.event \in AllowedEvents(Other(s), x.received) THEN AfterRead(s, y, m, x.received)
                     ELSE Threw(s, LinkStop(y, "failed"), "protocol"), m.event)
  <1> DEFINE y == [x EXCEPT !.received = @ + 1]
             z == [y EXCEPT !.stopped = TRUE]
             e == m.event
  <1>1. Hears(x, y) /\ y.stopped = x.stopped /\ Hears(x, z) /\ z.stopped
    BY HearsIs
  <1>2. y.sent = x.sent /\ x \in Side
    BY <1>1 DEF Hears, Heard, Firm
  <1> HIDE DEF y
  <1>3. ASSUME e \notin AllowedEvents(Other(s), x.received)
        PROVE  Heeds(s, x, Threw(s, LinkStop(y, "failed"), "protocol"), e)
    <2>1. x.received = 0 /\ e = "stop" /\ Other(s) = "drop"
      BY <1>3 DEF LegalAt, TooSoon
    <2>2. s = "page"
      BY <2>1 DEF Other
    <2>3. x.phase = "inviting"
      BY <2>1, <2>2, WhoReads
    <2> QED BY <1>1, <2>1, <2>2, <2>3, TooSoonHeeds
  <1>4. ASSUME e \in AllowedEvents(Other(s), x.received) PROVE Heeds(s, x, AfterRead(s, y, m, x.received), e)
    <2>1. \/ e = "stop" /\ ~(s = "page" /\ x.phase = "inviting")
          \/ e = "invite" /\ s = "page" /\ x.phase = "inviting" /\ x.received = 0
          \/ e \in {"accept", "decline"} /\ s = "page" /\ x.phase = "offered" /\ x.received = 1
          \/ e = "manifest" /\ s = "drop" /\ x.phase = "invited" /\ x.received = 0
          \/ e = "answer" /\ s = "drop" /\ x.phase = "accepted" /\ x.received = 1
          \/ /\ e = IF s = "page" THEN "restart" ELSE "restart-answer"
             /\ x.reader = "reading" /\ x.received \in 2..(1 + Restarts)
             /\ x.phase \in {"connecting", "moving", "aborting"} \cup Done
      BY <1>4, MayRead
    <2>2. CASE e = "stop"
      <3>1. AfterRead(s, y, m, x.received) = Threw(s, z, PeerStopKind(m))
        BY <2>2 DEF AfterRead
      <3>2. PeerStopKind(m) \in Failures \ {"none", "protocol"}
        BY DEF PeerStopKind, Failures
      <3> HIDE DEF z
      <3> QED BY <1>1, <3>1, <3>2, StopHeeds
    <2>3. CASE e = "invite" /\ s = "page" /\ x.phase = "inviting"
      <3>1. AfterRead(s, y, m, x.received) = [y EXCEPT !.phase = "choosing"]
        BY <2>3 DEF AfterRead
      <3> HIDE DEF z, e
      <3>2. Heeds(s, x, [y EXCEPT !.phase = "choosing"], e)
        BY <1>1, <2>3, CallHeeds
      <3> QED BY <3>1, <3>2
    <2>4. CASE e = "accept" /\ s = "page" /\ x.phase = "offered"
      <3>1. AfterRead(s, y, m, x.received) = [y EXCEPT !.phase = "preparing"]
        BY <2>4 DEF AfterRead
      <3> HIDE DEF z, e
      <3>2. Heeds(s, x, [y EXCEPT !.phase = "preparing"], e)
        BY <1>1, <2>4, CallHeeds
      <3> QED BY <3>1, <3>2
    <2>5. CASE e = "manifest" /\ s = "drop" /\ x.phase = "invited"
      <3>1. AfterRead(s, y, m, x.received) = [y EXCEPT !.phase = "deciding"]
        BY <2>5 DEF AfterRead
      <3> HIDE DEF z, e
      <3>2. Heeds(s, x, [y EXCEPT !.phase = "deciding"], e)
        BY <1>1, <2>5, CallHeeds
      <3> QED BY <3>1, <3>2
    <2>6. CASE e = "answer" /\ s = "drop" /\ x.phase = "accepted"
      <3>1. AfterRead(s, y, m, x.received) = [y EXCEPT !.phase = "applying"]
        BY <2>6 DEF AfterRead
      <3> HIDE DEF z, e
      <3>2. Heeds(s, x, [y EXCEPT !.phase = "applying"], e)
        BY <1>1, <2>6, CallHeeds
      <3> QED BY <3>1, <3>2
    <2>7. CASE e = "decline" /\ s = "page" /\ x.phase = "offered"
      <3>1. AfterRead(s, y, m, x.received) = Finished(LinkEnd(y), "declined")
        BY <2>7 DEF AfterRead
      <3>2. x.reader = "off"
        BY <2>7, WhoReads DEF ReadPhases, Done
      <3>3. Heeds(s, x, y, e)
        BY <1>1, <3>2, HearsFirm
      <3>4. Firm(s, y) /\ y.phase # "start" /\ "declined" \in Outcomes \ {"protocol"}
        BY <1>1, <2>7, <3>3 DEF Heeds, Hears, Heard, Outcomes
      <3>5. Fine(s, y, Finished(LinkEnd(y), "declined"))
        BY <3>4, EndedFine
      <3> QED BY <1>2, <3>1, <3>3, <3>5, HeedsOn
    <2>8. CASE e = "restart" /\ s = "page" /\ x.reader = "reading" /\ x.received \in 2..(1 + Restarts)
      <3>1. AfterRead(s, y, m, x.received) = IF x.received = y.sent THEN [y EXCEPT !.reader = "describing"]
                                             ELSE Fail(s, LinkStop(y, "failed"), "protocol")
        BY <2>8 DEF AfterRead
      <3>2. x.received >= 2
        BY <2>8
      <3> QED BY <1>1, <2>8, <3>1, <3>2, RestartHeeds
    <2>9. CASE e = "restart-answer" /\ s = "drop" /\ x.reader = "reading"
      <3>1. AfterRead(s, y, m, x.received) = IF x.received = y.pending
                                             THEN [DropPending(y) EXCEPT !.pc = IF @ = "failed" THEN "connecting" ELSE @]
                                             ELSE Fail(s, LinkStop(y, "failed"), "protocol")
        BY <2>9 DEF AfterRead
      <3> QED BY <1>1, <2>9, <3>1, AnswerHeeds
    <2> QED BY <2>1, <2>2, <2>3, <2>4, <2>5, <2>6, <2>7, <2>8, <2>9 DEF Sides
  <1> QED BY <1>3, <1>4 DEF y

LEMMA MailShrinks ==
  ASSUME NEW s \in Sides, NEW x \in Side, NEW seen \in Nat, NEW ml \in Seq(Message), InMail(s, x, seen, ml), ml # <<>>
  PROVE  /\ InMail(s, x, seen + 1, Tail(ml)) /\ Tail(ml) \in Seq(Message) /\ Head(ml) \in Message
         /\ LegalAt(s, x, Head(ml), seen) /\ (Head(ml).event = "restart-answer" => seen < x.received)
         /\ Head(ml) = ml[1] /\ 1 \in 1..Len(ml)
         /\ \A i \in 1..Len(Tail(ml)) : i + 1 \in 1..Len(ml) /\ Tail(ml)[i] = ml[i + 1]
         /\ seen < x.sent
  <1> DEFINE t == Tail(ml)
  <1>1. /\ Len(ml) \in Nat /\ Len(ml) >= 1 /\ t \in Seq(Message) /\ Len(t) = Len(ml) - 1 /\ Head(ml) \in Message
        /\ Head(ml) = ml[1] /\ \A i \in 1..Len(t) : t[i] = ml[i + 1]
    OBVIOUS
  <1>2. x.sent \in Nat /\ x.received \in Nat
    BY Counts
  <1> HIDE DEF t
  <1>3. /\ seen + Len(ml) <= x.sent /\ (x.exchange = "open" => seen + Len(ml) = Carried(x))
        /\ \A i \in 1..Len(ml) : /\ LegalAt(s, x, ml[i], seen + (i - 1))
                                 /\ ml[i].event = "restart-answer" => seen + (i - 1) < x.received
    BY DEF InMail
  <1>4. 1 \in 1..Len(ml) /\ seen + (1 - 1) = seen /\ seen < x.sent
    BY <1>1, <1>2, <1>3
  <1>5. LegalAt(s, x, ml[1], seen) /\ (ml[1].event = "restart-answer" => seen < x.received)
    BY <1>3, <1>4
  <1>6. (seen + 1) + Len(t) = seen + Len(ml)
    BY <1>1
  <1>7. ASSUME NEW i \in 1..Len(t)
        PROVE  /\ LegalAt(s, x, t[i], (seen + 1) + (i - 1)) /\ i + 1 \in 1..Len(ml) /\ t[i] = ml[i + 1]
               /\ t[i].event = "restart-answer" => (seen + 1) + (i - 1) < x.received
    <2>1. i + 1 \in 1..Len(ml) /\ seen + ((i + 1) - 1) = (seen + 1) + (i - 1) /\ t[i] = ml[i + 1]
      BY <1>1
    <2> QED BY <1>3, <2>1
  <1>8. InMail(s, x, seen + 1, t)
    BY <1>3, <1>6, <1>7 DEF InMail
  <1> QED BY <1>1, <1>4, <1>5, <1>7, <1>8 DEF t

(* An end reads what the other has sent.                                   *)
LEMMA PageReads ==
  ASSUME NEW p, NEW d, NEW mp, NEW md, NEW q, NEW tp, NEW td, NEW uq, NEW ud, Joined(p, d, mp, md, tp, td),
         tp => uq, td => ud, md # <<>>, Heeds("page", p, q, Head(md).event), p.outcome = "protocol" => p.received # 1
  PROVE  Joined(q, d, mp, Tail(md), uq, ud)
  <1>1. /\ p \in Side /\ q \in Side /\ d \in Side /\ mp \in Seq(Message) /\ md \in Seq(Message)
        /\ "page" \in Sides /\ "drop" \in Sides /\ Firm("page", q)
    BY DEF Joined, Heeds, Firm, Sides
  <1>2. d.received \in Nat /\ p.received \in Nat /\ q.received = p.received + 1 /\ q.received >= p.received
    BY <1>1, Counts DEF Heeds
  <1>3. /\ InMail("drop", d, p.received + 1, Tail(md)) /\ Tail(md) \in Seq(Message)
        /\ LegalAt("drop", d, Head(md), p.received) /\ Head(md) = md[1] /\ 1 \in 1..Len(md)
        /\ \A i \in 1..Len(Tail(md)) : i + 1 \in 1..Len(md) /\ Tail(md)[i] = md[i + 1]
    BY <1>1, <1>2, MailShrinks DEF Joined
  <1>4. InMail("page", q, d.received, mp)
    BY <1>1, <1>2, InMailStays DEF Joined, Heeds
  <1>5. AcceptFits(q, d, Tail(md))
    <2>1. ASSUME NEW i \in 1..Len(Tail(md)), Tail(md)[i].event = "accept" PROVE d.phase \notin Pre
      BY <1>3, <2>1 DEF Joined, AcceptFits
    <2>2. q.phase = "preparing" \/ q.pc # "none" => p.pc # "none" \/ p.phase = "preparing" \/ md[1].event = "accept"
      BY <1>3 DEF Heeds
    <2>3. q.phase = "preparing" \/ q.pc # "none" => d.phase \notin Pre
      BY <1>3, <2>2 DEF Joined, AcceptFits
    <2> QED BY <2>1, <2>3 DEF AcceptFits
  <1>6. Breach(q, d, uq, ud)
    <2> SUFFICES ASSUME q.outcome = "protocol", q.chan # "unopened", ~uq PROVE q.received = 1 /\ TooSoon("drop", d)
      BY DEF Breach, Joined
    <2>1. p.outcome = "protocol" \/ (p.received = 0 /\ Head(md).event = "stop")
      BY DEF Heeds
    <2>2. p.outcome # "protocol"
      BY DEF Heeds, Joined, Breach
    <2>3. p.received = 0 /\ Head(md).event = "stop"
      BY <2>1, <2>2
    <2>4. "stop" \notin AllowedEvents("drop", 0)
      BY LimitsAssumption DEF AllowedEvents
    <2>5. TooSoon("drop", d)
      BY <1>3, <2>3, <2>4 DEF LegalAt
    <2> QED BY <1>2, <2>3, <2>5
  <1> QED BY <1>1, <1>2, <1>3, <1>4, <1>5, <1>6 DEF Joined

LEMMA DropReads ==
  ASSUME NEW p, NEW d, NEW mp, NEW md, NEW e, NEW tp, NEW td, NEW up, NEW ue, Joined(p, d, mp, md, tp, td),
         tp => up, td => ue, mp # <<>>, Heeds("drop", d, e, Head(mp).event)
  PROVE  Joined(p, e, Tail(mp), md, up, ue)
  <1>1. /\ p \in Side /\ e \in Side /\ d \in Side /\ mp \in Seq(Message) /\ md \in Seq(Message)
        /\ "page" \in Sides /\ "drop" \in Sides /\ Firm("drop", e)
    BY DEF Joined, Heeds, Firm, Sides
  <1>2. d.received \in Nat /\ p.received \in Nat /\ e.received = d.received + 1 /\ e.received >= d.received
    BY <1>1, Counts DEF Heeds
  <1>3. InMail("page", p, d.received + 1, Tail(mp)) /\ Tail(mp) \in Seq(Message)
    BY <1>1, <1>2, MailShrinks DEF Joined
  <1>4. InMail("drop", e, p.received, md)
    BY <1>1, <1>2, InMailStays DEF Joined, Heeds
  <1>5. AcceptFits(p, e, md)
    BY DEF Joined, AcceptFits, Heeds
  <1>6. Breach(p, e, up, ue)
    BY DEF Joined, Breach, Heeds, TooSoon
  <1> QED BY <1>1, <1>2, <1>3, <1>4, <1>5, <1>6 DEF Joined

LEMMA ReadMeets ==
  ASSUME Core, Meet, Recalls, NEW s \in Sides, NEW y, Put(s, y), mail[Other(s)] # <<>>,
         mail' = [mail EXCEPT ![Other(s)] = Tail(mail[Other(s)])], Reading(side[s]),
         Heeds(s, side[s], y, Head(mail[Other(s)]).event)
  PROVE  Meet'
  <1>1. side' = [side EXCEPT ![s] = y] /\ side \in [Sides -> Side] /\ mail \in [Sides -> Seq(Message)]
    BY DEF Put, Core, TypeOK
  <1>5. (threw["page"] => threw'["page"]) /\ (threw["drop"] => threw'["drop"])
    BY DEF Recalls, Sides
  <1>2. side[s].outcome = "protocol" => side[s].received # 1
    <2>1. Sound(s, side[s])
      BY SideFirm
    <2>2. \/ side[s].outcome = "none"
          \/ side[s].received \in 2..(2 + Restarts)
      BY <2>1, WhoReads
    <2> QED BY <2>2
  <1>3. CASE s = "page"
    <2>1. /\ side'["page"] = y /\ side'["drop"] = side["drop"] /\ Other(s) = "drop"
          /\ mail'["page"] = mail["page"] /\ mail'["drop"] = Tail(mail["drop"])
      BY <1>1, <1>3 DEF Sides, Other
    <2>2. Joined(y, side["drop"], mail["page"], Tail(mail["drop"]), threw'["page"], threw'["drop"])
      BY <1>2, <1>3, <1>5, <2>1, PageReads DEF Meet
    <2> QED BY <2>1, <2>2 DEF Meet
  <1>4. CASE s = "drop"
    <2>1. /\ side'["drop"] = y /\ side'["page"] = side["page"] /\ Other(s) = "page"
          /\ mail'["drop"] = mail["drop"] /\ mail'["page"] = Tail(mail["page"])
      BY <1>1, <1>4 DEF Sides, Other
    <2>2. Joined(side["page"], y, Tail(mail["page"]), mail["drop"], threw'["page"], threw'["drop"])
      BY <1>4, <1>5, <2>1, DropReads DEF Meet
    <2> QED BY <2>1, <2>2 DEF Meet
  <1> QED BY <1>3, <1>4 DEF Sides

LEMMA ReadMeet == ASSUME Core, Meet, Recalls, NEW s \in Sides, Read(s) PROVE Meet'
  <1> DEFINE x == side[s]
             o == side[Other(s)]
             m == Head(mail[Other(s)])
             b == [x EXCEPT !.received = @ + 1]
             y == IF m.event \in AllowedEvents(Other(s), x.received) THEN AfterRead(s, b, m, x.received)
                  ELSE Threw(s, LinkStop(b, "failed"), "protocol")
  <1>1. /\ Reading(x) /\ mail[Other(s)] # <<>> /\ Put(s, y) /\ x.exchange = "open"
        /\ mail' = [mail EXCEPT ![Other(s)] = Tail(mail[Other(s)])]
    BY DEF Read
  <1>2. Firm(s, x) /\ Sound(s, x) /\ Other(s) \in Sides /\ Firm(Other(s), o)
    BY SideFirm, Sides2
  <1>3. x \in Side /\ o \in Side
    BY <1>2 DEF Firm
  <1>4. x.received \in Nat /\ o.received \in Nat /\ x.sent \in Nat
    BY <1>3, Counts
  <1>5. InMail(Other(s), o, x.received, mail[Other(s)]) /\ mail[Other(s)] \in Seq(Message)
    BY DEF Meet, Joined, Sides, Other
  <1>6. m \in Message /\ LegalAt(Other(s), o, m, x.received) /\ (m.event = "restart-answer" => x.received < o.received)
    BY <1>1, <1>2, <1>3, <1>4, <1>5, MailShrinks
  <1>7. s = "drop" => o.received <= x.sent
    <2> SUFFICES ASSUME s = "drop" PROVE o.received <= x.sent OBVIOUS
    <2>1. InMail("drop", x, o.received, mail["drop"]) /\ mail["drop"] \in Seq(Message)
      BY DEF Meet, Joined, Other
    <2>2. Len(mail["drop"]) \in Nat
      BY <2>1
    <2> QED BY <1>4, <2>1, <2>2 DEF InMail
  <1>8. s = "drop" /\ m.event = "restart-answer" => x.received < x.sent
    BY <1>4, <1>6, <1>7
  <1> HIDE DEF m, o
  <1>9. Heeds(s, x, y, m.event)
    BY <1>1, <1>2, <1>6, <1>8, ReadHeeds
  <1> HIDE DEF y
  <1> QED BY <1>1, <1>9, ReadMeets DEF m

LEMMA CannotUseMeet == ASSUME Core, Meet, Recalls, PageCannotUse PROVE Meet'
  <1> DEFINE x == side["page"]
             b == [x EXCEPT !.received = @ + 1]
             c == LinkStop(b, "unsupported")
             y == Caught("page", c, "unsupported")
             e == Head(mail["drop"]).event
  <1>1. /\ x.phase = "inviting" /\ mail["drop"] # <<>> /\ Put("page", y)
        /\ mail' = [mail EXCEPT !["drop"] = Tail(mail["drop"])]
    BY DEF PageCannotUse
  <1>2. "page" \in Sides /\ Other("page") = "drop" /\ "unsupported" \in Reasons /\ "unsupported" \in Failures
    BY DEF Sides, Other, Reasons, Failures
  <1>3. Firm("page", x) /\ Sound("page", x)
    BY <1>2, SideFirm
  <1>4. Reading(x) /\ x \in Side
    BY <1>1, <1>3 DEF Reading, ReadPhases, Firm
  <1>5. Hears(x, b) /\ b.stopped = x.stopped
    BY <1>2, <1>3, <1>4, HearsIs
  <1> HIDE DEF b, e
  <1>6. Heeds("page", x, c, e) /\ c.phase = "inviting"
    BY <1>1, <1>2, <1>3, <1>5, InvitingHeeds
  <1> HIDE DEF c
  <1>7. Firm("page", c) /\ Begun(c) /\ c.phase \notin Done /\ Fair(c, "unsupported")
    BY <1>6 DEF Heeds, Begun, Done, Fair
  <1>8. Fine("page", c, y)
    BY <1>2, <1>7, CaughtFine
  <1>9. Heeds("page", x, y, e)
    BY <1>2, <1>4, <1>6, <1>8, HeedsOn
  <1> HIDE DEF y
  <1> QED BY <1>1, <1>2, <1>4, <1>9, ReadMeets DEF e

(***************************************************************************)
(* Every other step is one end's own                                       *)
(***************************************************************************)

LEMMA LinkMeet ==
  ASSUME Core, Meet, Recalls, NEW s \in Sides, ExchangeGone(s) \/ SendSettles(s) \/ SendFails(s) \/ ReadFails(s) PROVE Meet'
  <1> DEFINE x == side[s]
  <1>1. Firm(s, x) /\ Sound(s, x)
    BY SideFirm
  <1>2. UNCHANGED mail
    BY DEF ExchangeGone, SendSettles, SendFails, ReadFails
  <1>3. \A y : Put(s, y) /\ Fine(s, x, y) => Meet'
    BY <1>2, PutMeet
  <1>4. CASE ExchangeGone(s)
    <2>1. Put(s, [x EXCEPT !.exchange = "gone"])
      BY <1>4 DEF ExchangeGone
    <2>2. Fine(s, x, [x EXCEPT !.exchange = "gone"])
      BY <1>1, ExchangeGoneFine
    <2> QED BY <1>3, <2>1, <2>2
  <1>5. CASE SendSettles(s)
    <2> DEFINE y == AfterSend(s, FirstGone(x), Head(x.chain).event)
    <2>1. x.carried /\ Put(s, y)
      BY <1>5 DEF SendSettles
    <2>2. x.chain # <<>>
      BY <1>1, <2>1 DEF Sound, SideInv, ChainFits
    <2>3. Fine(s, x, y)
      BY <1>1, <2>1, <2>2, SendSettlesFine
    <2> HIDE DEF y
    <2> QED BY <1>3, <2>1, <2>3
  <1>6. CASE SendFails(s)
    <2> DEFINE k == IF x.exchange = "closed" THEN "cancelled" ELSE "expired"
               y == AfterFailedSend(s, FirstGone(x), Head(x.chain).event, k)
    <2>1. x.chain # <<>> /\ x.exchange # "open" /\ Put(s, y) /\ k \in {"cancelled", "expired"}
      BY <1>6 DEF SendFails
    <2> HIDE DEF k
    <2>2. Fine(s, x, y)
      BY <1>1, <2>1, SendFailsFine
    <2> HIDE DEF y
    <2> QED BY <1>3, <2>1, <2>2
  <1>7. CASE ReadFails(s)
    <2> DEFINE y == IF x.reader # "reading" THEN Caught(s, x, IF x.linkEnded THEN "network" ELSE "expired")
                    ELSE IF s = "page" THEN NoMoreRestarts(x) ELSE DropPending([x EXCEPT !.reader = "off"])
    <2>1. Reading(x) /\ Put(s, y)
      BY <1>7 DEF ReadFails
    <2>2. Fine(s, x, y)
      BY <1>1, <2>1, ReadFailsFine
    <2> HIDE DEF y
    <2> QED BY <1>3, <2>1, <2>2
  <1> QED BY <1>4, <1>5, <1>6, <1>7

LEMMA PageMeet ==
  ASSUME Core, Meet, Recalls, PageOffers \/ PagePrepares \/ PageAnswers \/ PageAnswersRestart PROVE Meet'
  <1> DEFINE x == side["page"]
  <1>1. Firm("page", x) /\ Sound("page", x) /\ "page" \in Sides
    BY SideFirm DEF Sides
  <1>2. UNCHANGED mail
    BY DEF PageOffers, PagePrepares, PageAnswers, PageAnswersRestart
  <1>3. \A y : Put("page", y) /\ Fine("page", x, y) => Meet'
    BY <1>1, <1>2, PutMeet
  <1>8. ASSUME Throws("page"), x.phase \in {"preparing", "answering"} PROVE Meet'
    <2>1. /\ Put("page", Caught("page", x, "protocol")) /\ threw'["page"] /\ "protocol" \in Failures
          /\ Begun(x) /\ x.phase \notin Done \cup {"connecting", "moving"}
      BY <1>1, <1>8 DEF Throws, Core, TypeOK, Failures, Begun, Done
    <2>2. Firm("page", Caught("page", x, "protocol")) /\ Steady("page", x, Caught("page", x, "protocol"))
      BY <1>1, <2>1, CaughtFirm
    <2> QED BY <1>1, <1>2, <2>1, <2>2, PutMeet
  <1>4. CASE PageOffers
    <2>1. x.phase = "choosing" /\ (Put("page", Caught("page", x, "too-big"))
                                   \/ Put("page", SendOr("page", x, Msg("manifest"), OutPhase("manifest"))))
      BY <1>4 DEF PageOffers, OutPhase
    <2>2. Begun(x) /\ x.phase \notin Done /\ Fair(x, "too-big") /\ "too-big" \in Failures
      BY <2>1 DEF Begun, Done, Fair, Failures
    <2>3. Fine("page", x, Caught("page", x, "too-big"))
      BY <1>1, <2>2, CaughtFine
    <2>4. Fine("page", x, SendOr("page", x, Msg("manifest"), OutPhase("manifest")))
      BY <1>1, <2>1, SendOrFine
    <2> QED BY <1>3, <2>1, <2>3, <2>4
  <1>5. CASE PagePrepares
    <2>1. x.phase = "preparing" /\ ((\E kind \in {"source", "no-relay"} : Put("page", Caught("page", x, kind)))
                                    \/ Throws("page") \/ Put("page", WithPeer(x, "answering")))
      BY <1>5 DEF PagePrepares
    <2>2. Fine("page", x, WithPeer(x, "answering"))
      BY <1>1, <2>1, WithPeerFine
    <2>3. ASSUME NEW kind \in {"source", "no-relay"} PROVE Fine("page", x, Caught("page", x, kind))
      <3>1. Begun(x) /\ x.phase \notin Done /\ Fair(x, kind) /\ kind \in Failures
        BY <2>1 DEF Begun, Done, Fair, Failures
      <3> QED BY <1>1, <3>1, CaughtFine
    <2> QED BY <1>3, <1>8, <2>1, <2>2, <2>3
  <1>6. CASE PageAnswers
    <2>1. x.phase = "answering" /\ (Throws("page") \/ Put("page", SendOr("page", x, Msg("answer"), OutPhase("answer"))))
      BY <1>6 DEF PageAnswers, OutPhase
    <2>2. Fine("page", x, SendOr("page", x, Msg("answer"), OutPhase("answer")))
      BY <1>1, <2>1, SendOrFine
    <2> QED BY <1>3, <1>8, <2>1, <2>2
  <1>7. CASE PageAnswersRestart
    <2> DEFINE b == [x EXCEPT !.pc = IF @ = "failed" THEN "connecting" ELSE @]
               y == IF Refusal(x) # "none" THEN Fail("page", b, Refusal(x))
                    ELSE [LinkSend(b, Msg("restart-answer")) EXCEPT !.reader = "sending"]
    <2>1. x.reader = "describing" /\ (Put("page", NoMoreRestarts(x)) \/ (Refusal(x) # "expired" /\ Put("page", y)))
      BY <1>7 DEF PageAnswersRestart
    <2>2. Fine("page", x, NoMoreRestarts(x)) /\ (Refusal(x) # "expired" => Fine("page", x, y))
      BY <1>1, <2>1, AnswersRestartFine
    <2> HIDE DEF y
    <2> QED BY <1>3, <2>1, <2>2
  <1> QED BY <1>4, <1>5, <1>6, <1>7

LEMMA DropMeet ==
  ASSUME Core, Meet, Recalls, DropInvites \/ DropDecides \/ DropOffers \/ DropApplies \/ SinkAborted PROVE Meet'
  <1> DEFINE x == side["drop"]
  <1>1. Firm("drop", x) /\ Sound("drop", x) /\ "drop" \in Sides
    BY SideFirm DEF Sides
  <1>2. UNCHANGED mail
    BY DEF DropInvites, DropDecides, DropOffers, DropApplies, SinkAborted
  <1>3. \A y : Put("drop", y) /\ Fine("drop", x, y) => Meet'
    BY <1>1, <1>2, PutMeet
  <1>4. ASSUME Throws("drop"), x.phase \in {"deciding", "offering", "applying"} PROVE Meet'
    <2>1. /\ Put("drop", Caught("drop", x, "protocol")) /\ threw'["drop"] /\ "protocol" \in Failures
          /\ Begun(x) /\ x.phase \notin Done \cup {"connecting", "moving"}
      BY <1>1, <1>4 DEF Throws, Core, TypeOK, Failures, Begun, Done
    <2>2. Firm("drop", Caught("drop", x, "protocol")) /\ Steady("drop", x, Caught("drop", x, "protocol"))
      BY <1>1, <2>1, CaughtFirm
    <2> QED BY <1>1, <1>2, <2>1, <2>2, PutMeet
  <1>6. CASE DropInvites
    <2>1. x.phase = "start" /\ Put("drop", SendOr("drop", x, Msg("invite"), OutPhase("invite")))
      BY <1>6 DEF DropInvites, OutPhase
    <2>2. Fine("drop", x, SendOr("drop", x, Msg("invite"), OutPhase("invite")))
      BY <1>1, <2>1, SendOrFine
    <2> QED BY <1>3, <2>1, <2>2
  <1>7. CASE DropDecides
    <2> DEFINE y == IF Refusal(x) = "none" THEN [LinkSend(x, Msg("decline")) EXCEPT !.phase = OutPhase("decline")]
                    ELSE Finished(LinkEnd(x), Refusal(x))
    <2>1. x.phase = "deciding" /\ (Put("drop", y) \/ Put("drop", Caught("drop", x, "no-relay"))
                                   \/ Throws("drop") \/ Put("drop", WithPeer(x, "offering")))
      BY <1>7 DEF DropDecides, OutPhase
    <2>2. Refusal(x) = "none" => Fine("drop", x, [LinkSend(x, Msg("decline")) EXCEPT !.phase = OutPhase("decline")])
      BY <1>1, <2>1, CallSendsFine
    <2>3. Refusal(x) \in Outcomes \ {"protocol"} /\ x.phase # "start"
      BY <1>1, <2>1, NeverFull DEF Outcomes, Failures
    <2>4. Fine("drop", x, Finished(LinkEnd(x), Refusal(x)))
      BY <1>1, <2>3, EndedFine
    <2>5. Fine("drop", x, y)
      BY <2>2, <2>4
    <2>6. Fine("drop", x, Caught("drop", x, "no-relay"))
      <3>1. Begun(x) /\ x.phase \notin Done /\ Fair(x, "no-relay") /\ "no-relay" \in Failures
        BY <2>1 DEF Begun, Done, Fair, Failures
      <3> QED BY <1>1, <3>1, CaughtFine
    <2>7. Fine("drop", x, WithPeer(x, "offering"))
      BY <1>1, <2>1, WithPeerFine
    <2> HIDE DEF y
    <2> QED BY <1>3, <1>4, <2>1, <2>5, <2>6, <2>7
  <1>8. CASE DropOffers
    <2>1. x.phase = "offering" /\ (Throws("drop") \/ Put("drop", SendOr("drop", x, Msg("accept"), OutPhase("accept"))))
      BY <1>8 DEF DropOffers, OutPhase
    <2>2. Fine("drop", x, SendOr("drop", x, Msg("accept"), OutPhase("accept")))
      BY <1>1, <2>1, SendOrFine
    <2> QED BY <1>3, <1>4, <2>1, <2>2
  <1>9. CASE DropApplies
    <2>1. x.phase = "applying" /\ (Throws("drop")
                                   \/ Put("drop", [x EXCEPT !.phase = "connecting", !.reader = "reading"]))
      BY <1>9 DEF DropApplies
    <2>2. x.received = 2
      BY <1>1, <2>1 DEF Sound, SideInv, IndexFits
    <2>3. Fine("drop", x, [x EXCEPT !.phase = "connecting", !.reader = "reading"])
      BY <1>1, <2>1, <2>2, ReadsFine
    <2> QED BY <1>3, <1>4, <2>1, <2>3
  <1>10. CASE SinkAborted
    <2>1. x.phase = "aborting" /\ Put("drop", Rejected("drop", [x EXCEPT !.error = "none"], x.error))
      BY <1>10 DEF SinkAborted
    <2>2. Fine("drop", x, Rejected("drop", [x EXCEPT !.error = "none"], x.error))
      BY <1>1, <2>1, SinkAbortedFine
    <2> QED BY <1>3, <2>1, <2>2
  <1> QED BY <1>6, <1>7, <1>8, <1>9, <1>10

LEMMA RestartsMeet ==
  ASSUME Core, Meet, Recalls, RestartTimerFires \/ NetworkChanges \/ RestartBegins \/ RestartOffers PROVE Meet'
  <1> DEFINE x == side["drop"]
  <1>1. Firm("drop", x) /\ Sound("drop", x) /\ "drop" \in Sides
    BY SideFirm DEF Sides
  <1>2. UNCHANGED mail
    BY DEF RestartTimerFires, NetworkChanges, RestartBegins, RestartOffers
  <1>3. \A y : Put("drop", y) /\ Fine("drop", x, y) => Meet'
    BY <1>1, <1>2, PutMeet
  <1>4. x \in Side /\ RestartsFit(x) /\ LeastTaken("drop", x) <= x.sent
    BY <1>1 DEF Firm
  <1>5. x.queue \in Nat /\ x.used \in Nat /\ x.sent \in Nat /\ x.restartTimer \in BOOLEAN
    BY <1>4, Counts DEF Side
  <1>6. x.restartTimer \/ x.queue > 0 => x.sent >= 2 /\ x.phase \notin Pre
    BY <1>4, <1>5 DEF RestartsFit, NoRestarts
  <1>7. CASE RestartTimerFires
    <2> DEFINE q == IF x.used < Restarts THEN x.queue + 1 ELSE x.queue
    <2>1. x.restartTimer /\ Put("drop", [x EXCEPT !.restartTimer = FALSE, !.queue = q])
      BY <1>7 DEF RestartTimerFires
    <2>2. q \in Nat
      BY <1>5
    <2> HIDE DEF q
    <2>3. [x EXCEPT !.restartTimer = FALSE, !.queue = q] = [x EXCEPT !.queue = q, !.restartTimer = FALSE]
      BY <1>4 DEF Side
    <2>4. Fine("drop", x, [x EXCEPT !.queue = q, !.restartTimer = FALSE])
      BY <1>1, <1>6, <2>1, <2>2, QueueFine
    <2> QED BY <1>3, <2>1, <2>3, <2>4
  <1>8. CASE NetworkChanges
    <2> DEFINE q == x.queue + 1
    <2>1. x.phase \in {"connecting", "moving"} /\ Put("drop", [x EXCEPT !.queue = q])
      BY <1>8 DEF NetworkChanges
    <2>2. q \in Nat
      BY <1>5
    <2>3. x.phase \notin Pre /\ x.sent >= 2
      BY <1>4, <1>5, <2>1 DEF LeastTaken, Pre, Done
    <2> HIDE DEF q
    <2>4. [x EXCEPT !.queue = q] = [x EXCEPT !.queue = q, !.restartTimer = x.restartTimer]
      BY <1>4 DEF Side
    <2>5. Fine("drop", x, [x EXCEPT !.queue = q, !.restartTimer = x.restartTimer])
      BY <1>1, <1>5, <2>2, <2>3, QueueFine
    <2> QED BY <1>3, <2>1, <2>4, <2>5
  <1>9. CASE RestartBegins
    <2> DEFINE q == x.queue - 1
               may == x.outcome # "kept" /\ ~x.linkEnded /\ x.pc # "closed" /\ x.used < Restarts
               a == [x EXCEPT !.queue = q, !.used = x.used + 1, !.restarting = "describing"]
               b == [x EXCEPT !.queue = q]
    <2>1. x.queue > 0 /\ x.restarting = "no" /\ Put("drop", IF may THEN a ELSE b)
      BY <1>9 DEF RestartBegins
    <2>2. q \in Nat
      BY <1>5, <2>1
    <2> HIDE DEF q
    <2>3. b = [x EXCEPT !.queue = q, !.restartTimer = x.restartTimer]
      BY <1>4 DEF Side
    <2>4. Fine("drop", x, [x EXCEPT !.queue = q, !.restartTimer = x.restartTimer])
      BY <1>1, <1>5, <1>6, <2>1, <2>2, QueueFine
    <2>5. x.used < Restarts => Fine("drop", x, a)
      BY <1>1, <1>6, <2>1, <2>2, RestartBeginsFine
    <2> HIDE DEF a, b
    <2>6. Fine("drop", x, IF may THEN a ELSE b)
      BY <2>3, <2>4, <2>5
    <2> HIDE DEF may
    <2> QED BY <1>3, <2>1, <2>6
  <1>10. CASE RestartOffers
    <2> DEFINE b == [x EXCEPT !.pending = x.sent]
               a == [x EXCEPT !.restarting = "no"]
               y == IF Refusal(b) # "none" THEN [b EXCEPT !.restarting = "no"]
                    ELSE [LinkSend(b, Msg("restart")) EXCEPT !.restarting = "sending"]
    <2>1. x.restarting = "describing" /\ (Put("drop", a) \/ Put("drop", y))
      BY <1>10 DEF RestartOffers
    <2>2. Fine("drop", x, a) /\ Fine("drop", x, y)
      BY <1>1, <2>1, RestartOffersFine
    <2> HIDE DEF a, y
    <2> QED BY <1>3, <2>1, <2>2
  <1> QED BY <1>7, <1>8, <1>9, <1>10

LEMMA ConnectionMeet ==
  ASSUME Core, Meet, Recalls, NEW s \in Sides,
         Connects(s) \/ Drops(s) \/ Opens(s) \/ ChannelCloses(s) \/ Starts(s) \/ WatchFires(s)
  PROVE  Meet'
  <1> DEFINE x == side[s]
  <1>1. Firm(s, x) /\ Sound(s, x)
    BY SideFirm
  <1>2. UNCHANGED mail
    BY DEF Connects, Drops, Opens, ChannelCloses, Starts, WatchFires
  <1>3. \A y : Put(s, y) /\ Fine(s, x, y) => Meet'
    BY <1>2, PutMeet
  <1>4. s = "drop" /\ x.everConnected => x.phase \notin Pre
    BY <1>1 DEF Firm, RestartsFit, NoRestarts
  <1>5. CASE Connects(s)
    <2>1. x.watching /\ x.pc \in Trying /\ Put(s, Evaluate(s, x, "connected")) /\ "connected" \in Trying \cup {"failed"}
      BY <1>5 DEF Connects, Trying
    <2>2. s = "drop" => x.phase \notin Pre
      BY <1>4, <1>5 DEF Connects, Described, Answered, Pre
    <2>3. Fine(s, x, Evaluate(s, x, "connected"))
      BY <1>1, <2>1, <2>2, EvaluateFine
    <2> QED BY <1>3, <2>1, <2>3
  <1>6. CASE Drops(s)
    <2>1. x.watching /\ x.pc \in Trying /\ (x.everConnected \/ side[Other(s)].pc = "closed" \/ Described)
      BY <1>6 DEF Drops
    <2>2. PICK state \in {"failed", "disconnected"} : Put(s, Evaluate(s, x, state))
      BY <1>6 DEF Drops
    <2>3. state \in Trying \cup {"failed"}
      BY DEF Trying
    <2>4. s = "drop" => x.phase \notin Pre
      <3>1. s = "drop" /\ side[Other(s)].pc = "closed" => x.phase \notin Pre
        BY DEF Meet, Joined, AcceptFits, Other
      <3>2. s = "drop" /\ Described => x.phase \notin Pre
        BY <1>4 DEF Described, Answered, Pre
      <3> QED BY <1>4, <2>1, <3>1, <3>2
    <2>5. Fine(s, x, Evaluate(s, x, state))
      BY <1>1, <2>1, <2>3, <2>4, EvaluateFine
    <2> QED BY <1>3, <2>2, <2>5
  <1>7. CASE Opens(s)
    <2>1. x.chan = "none" /\ Put(s, [x EXCEPT !.chan = "open"])
      BY <1>7 DEF Opens
    <2>2. Fine(s, x, [x EXCEPT !.chan = "open"])
      BY <1>1, <2>1, ChannelFine
    <2> QED BY <1>3, <2>1, <2>2
  <1>8. CASE ChannelCloses(s)
    <2> DEFINE c == IF x.chan = "none" THEN "unopened" ELSE "closed"
    <2>1. x.chan \in {"none", "open"} /\ Put(s, [x EXCEPT !.chan = c]) /\ c \in {"open", "unopened", "closed"}
      BY <1>8 DEF ChannelCloses
    <2> HIDE DEF c
    <2>2. Fine(s, x, [x EXCEPT !.chan = c])
      BY <1>1, <2>1, ChannelFine
    <2> QED BY <1>3, <2>1, <2>2
  <1>9. CASE Starts(s)
    <2>1. x.phase = "connecting" /\ Put(s, [x EXCEPT !.phase = "moving"])
      BY <1>9 DEF Starts
    <2>2. Fine(s, x, [x EXCEPT !.phase = "moving"])
      BY <1>1, <2>1, StartsFine
    <2> QED BY <1>3, <2>1, <2>2
  <1>10. CASE WatchFires(s)
    <2>1. Put(s, GiveUp(s, [x EXCEPT !.connectTimer = FALSE]))
      BY <1>10 DEF WatchFires
    <2>2. Fine(s, x, GiveUp(s, [x EXCEPT !.connectTimer = FALSE]))
      BY <1>1, WatchFiresFine
    <2> QED BY <1>3, <2>1, <2>2
  <1> QED BY <1>5, <1>6, <1>7, <1>8, <1>9, <1>10

LEMMA EndingMeet ==
  ASSUME Core, Meet, Recalls, NEW s \in Sides,
         LateClose(s) \/ CloseNow(s) \/ ChannelGone(s) \/ HearsStopFrame(s) \/ TransferFails(s)
  PROVE  Meet'
  <1> DEFINE x == side[s]
  <1>1. Firm(s, x) /\ Sound(s, x)
    BY SideFirm
  <1>2. UNCHANGED mail
    BY DEF LateClose, CloseNow, ChannelGone, HearsStopFrame, TransferFails
  <1>3. \A y : Put(s, y) /\ Fine(s, x, y) => Meet'
    BY <1>2, PutMeet
  <1>4. ASSUME NEW e \in Failures \ {"protocol"}, x.phase = "moving" PROVE Fine(s, x, Caught(s, x, e))
    <2>1. Begun(x) /\ x.phase \notin Done /\ Fair(x, e)
      BY <1>4 DEF Begun, Done, Fair
    <2> QED BY <1>1, <2>1, CaughtFine
  <1>5. CASE LateClose(s)
    <2>1. Put(s, Close([x EXCEPT !.closeSoon = FALSE]))
      BY <1>5 DEF LateClose
    <2>2. Fine(s, x, Close([x EXCEPT !.closeSoon = FALSE]))
      BY <1>1, LateCloseFine
    <2> QED BY <1>3, <2>1, <2>2
  <1>6. CASE CloseNow(s)
    <2>1. x.phase = "closing" /\ Put(s, Close([x EXCEPT !.phase = "ended"]))
      BY <1>6 DEF CloseNow
    <2>2. Fine(s, x, Close([x EXCEPT !.phase = "ended"]))
      BY <1>1, <2>1, CloseNowFine
    <2> QED BY <1>3, <2>1, <2>2
  <1>7. CASE ChannelGone(s)
    <2> DEFINE y == Caught(s, x, IF x.chan = "closed" THEN "lost" ELSE "protocol")
    <2>1. x.chan \in {"closed", "unopened", "shut"} /\ x.phase \in {"connecting", "moving"} /\ Put(s, y)
      BY <1>7 DEF ChannelGone
    <2>2. Fine(s, x, y)
      BY <1>1, <2>1, ChannelGoneFine
    <2> HIDE DEF y
    <2> QED BY <1>3, <2>1, <2>2
  <1>8. CASE HearsStopFrame(s)
    <2> DEFINE e == stopFrame[s]
    <2>1. x.phase = "moving" /\ Put(s, Caught(s, x, e))
      BY <1>8 DEF HearsStopFrame, Moving
    <2>2. e \in Failures \ {"protocol"}
      BY DEF Core, TypeOK, Failures
    <2> HIDE DEF e
    <2> QED BY <1>3, <1>4, <2>1, <2>2
  <1>9. CASE TransferFails(s)
    <2>1. PICK kind \in IF s = "page" THEN {"source"} ELSE {"verification", "storage"} : Put(s, Caught(s, x, kind))
      BY <1>9 DEF TransferFails
    <2>2. x.phase = "moving" /\ kind \in Failures \ {"protocol"}
      BY <1>9 DEF TransferFails, Moving, Failures
    <2> QED BY <1>3, <1>4, <2>1, <2>2
  <1> QED BY <1>5, <1>6, <1>7, <1>8, <1>9

LEMMA SessionStopMeet == ASSUME Core, Meet, Recalls, NEW s \in Sides, NEW now \in BOOLEAN, SessionStop(s, now) PROVE Meet'
  <1> DEFINE x == side[s]
             told == LinkStop([Blame(x, "cancelled") EXCEPT !.asked = TRUE], "cancelled")
             shut == IF now THEN Close(told) ELSE [told EXCEPT !.closeSoon = TRUE]
             y == IF x.phase = "moving" THEN Caught(s, shut, "cancelled")
                  ELSE IF x.phase \in Idle THEN Finished(shut, "cancelled") ELSE shut
  <1>1. Put(s, y) /\ UNCHANGED mail /\ ~x.asked
    BY DEF SessionStop
  <1>2. Fine(s, x, y)
    BY <1>1, SideFirm, StopFine
  <1> HIDE DEF y
  <1> QED BY <1>1, <1>2, PutMeet

LEMMA OutcomeMeet == ASSUME Core, Meet, Recalls, PageSendsEnd \/ DropKeeps \/ PageHearsKept \/ UNCHANGED vars PROVE Meet'
  <1>1. CASE PageSendsEnd \/ UNCHANGED vars
    <2>1. side' = side /\ mail' = mail
      BY <1>1 DEF PageSendsEnd, vars
    <2>2. (threw["page"] => threw'["page"]) /\ (threw["drop"] => threw'["drop"])
      BY DEF Recalls, Sides
    <2> QED BY <2>1, <2>2 DEF Meet, Joined, Breach
  <1>2. ASSUME NEW s \in Sides, NEW o \in {"kept", "arrived"}, side[s].phase = "moving", Put(s, Finished(side[s], o)), UNCHANGED mail
        PROVE  Meet'
    <2>1. Begun(side[s]) /\ o \in Outcomes /\ o # "protocol"
      BY <1>2 DEF Begun, Outcomes
    <2>2. Fine(s, side[s], Finished(side[s], o))
      BY <2>1, SideFirm, FinishedFine
    <2> QED BY <1>2, <2>2, PutMeet
  <1>3. CASE DropKeeps
    BY <1>2, <1>3 DEF DropKeeps, Moving, Sides
  <1>4. CASE PageHearsKept
    BY <1>2, <1>4 DEF PageHearsKept, Moving, Sides
  <1> QED BY <1>1, <1>3, <1>4

LEMMA MeetStep == Core /\ Meet /\ [Next]_vars => Meet'
  <1> SUFFICES ASSUME Core, Meet, [Next]_vars PROVE Meet' OBVIOUS
  <1> Recalls
    BY ThrewStep
  <1>1. ASSUME NEW s \in Sides, Internal(s) PROVE Meet'
    BY <1>1, CarryMeet, LinkMeet, ReadMeet, ConnectionMeet, EndingMeet DEF Internal
  <1>2. ASSUME NEW s \in Sides, Connects(s) \/ Drops(s) \/ Opens(s) \/ ChannelCloses(s) \/ Starts(s) PROVE Meet'
    BY <1>2, ConnectionMeet
  <1>3. ASSUME NEW s \in Sides, ExchangeGone(s) \/ TransferFails(s) \/ HearsStopFrame(s) PROVE Meet'
    BY <1>3, LinkMeet, EndingMeet
  <1>4. ASSUME NEW s \in Sides, NEW now \in BOOLEAN, SessionStop(s, now) PROVE Meet'
    BY <1>4, SessionStopMeet
  <1>5. CASE DropInternal
    BY <1>5, DropMeet, RestartsMeet DEF DropInternal
  <1>6. CASE PageInternal
    BY <1>6, PageMeet DEF PageInternal
  <1>7. CASE PageOffers \/ PageCannotUse \/ DropInvites \/ DropDecides \/ NetworkChanges
    BY <1>7, PageMeet, CannotUseMeet, DropMeet, RestartsMeet
  <1>8. CASE PageSendsEnd \/ DropKeeps \/ PageHearsKept \/ Over \/ UNCHANGED vars
    BY <1>8, OutcomeMeet DEF Over
  <1> QED BY <1>1, <1>2, <1>3, <1>4, <1>5, <1>6, <1>7, <1>8 DEF Next

LEMMA InitMeet == Init => Meet
  <1> SUFFICES ASSUME Init PROVE Meet OBVIOUS
  <1> DEFINE p == NewSide("inviting")
             d == NewSide("start")
  <1>1. side["page"] = p /\ side["drop"] = d /\ mail["page"] = <<>> /\ mail["drop"] = <<>>
    BY DEF Init, Sides
  <1>2. p \in Side /\ d \in Side
    <2>1. Core
      BY InitCore
    <2> QED BY <1>1, <2>1 DEF Core, TypeOK, Sides
  <1>3. Firm("page", p)
    BY <1>2 DEF Firm, NewSide, LeastTaken, ReaderFits, PageTurn, ChainLegal, Honest, Done
  <1>4. Firm("drop", d)
    BY <1>2 DEF Firm, NewSide, LeastTaken, ReaderFits, DropTurn, RestartsFit, NoRestarts, ChainLegal, Honest, Done, Pre,
                AcceptPhases, None
  <1>5. InMail("page", p, d.received, <<>>) /\ InMail("drop", d, p.received, <<>>)
    BY DEF InMail, NewSide, Carried
  <1>6. AcceptFits(p, d, <<>>) /\ Breach(p, d, threw["page"], threw["drop"])
    BY DEF AcceptFits, Breach, NewSide
  <1> QED BY <1>1, <1>3, <1>4, <1>5, <1>6 DEF Meet, Joined

LEMMA MeetHonest == Meet => HonestSessions
  BY DEF Meet, Joined, Breach, TooSoon, HonestSessions, Sides

(* Two honest ends never find the other in breach: whatever the order in   *)
(* which restarts, stops, expiries and faults come, Link.read finds every  *)
(* message among those allowedEvents has for its index, answerRestarts     *)
(* finds each restart under the page's own next index, and readAnswers     *)
(* each answer under the index restartOnce waits for.  HonestSessions      *)
(* names the three exceptions: an end that threw, a channel that never     *)
(* opened, a stop before the invitation.  Proved from what each end is at  *)
(* each point (Firm) and what is on its way between them (InMail).         *)
THEOREM SessionsStayHonest == Spec => []HonestSessions
  <1>1. Init => Core /\ Meet
    BY InitCore, InitMeet
  <1>2. (Core /\ Meet) /\ [Next]_vars => (Core /\ Meet)'
    BY CoreStep, MeetStep
  <1>3. Core /\ Meet => HonestSessions
    BY MeetHonest
  <1> QED BY <1>1, <1>2, <1>3, PTL DEF Spec

(***************************************************************************)
(* Nobody is left waiting                                                  *)
(***************************************************************************)

Shuts == {"closed", "unopened", "shut"}
Attending == CallPhases \ {"preparing"}
Outs == {"manifestOut", "inviteOut", "declineOut", "acceptOut", "answerOut"}
HasWaited(x) == \E i \in 1..Len(x.chain) : x.chain[i].event \in Waited

(* A peer that has gone took its channel along, and one that has failed or *)
(* never connected has a clock running.                                    *)
Watched(x) ==
  /\ x.pc = "closed" => x.chan \in Shuts
  /\ x.watching /\ x.pc = "failed" => x.failedTimer
  /\ x.watching /\ Up(x) /\ ~x.everConnected => x.connectTimer

(* A call with a peer watches it, and one that waits for a message to go   *)
(* has it in the chain.                                                    *)
Attended(x) ==
  /\ x.phase \in Attending => x.watching
  /\ x.phase \in Outs => HasWaited(x)

(* What a step shows of the end it changes.                                *)
Stays(x, y) ==
  /\ Watched(y) /\ Attended(y)
  /\ y.everConnected = x.everConnected /\ (x.pc # "none" => y.pc # "none")

(* What winding down does to all this.                                     *)
Lapse(x, y) ==
  /\ y.everConnected = x.everConnected
  /\ \/ y.pc = x.pc /\ y.chan = x.chan
     \/ x.pc # "none" /\ y.pc = "closed" /\ y.chan \in Shuts
  /\ y.watching =>
       x.watching /\ (y.pc = "closed" \/ (y.connectTimer = x.connectTimer /\ y.failedTimer = x.failedTimer))
  /\ \/ y.phase = x.phase /\ y.watching = x.watching
     \/ y.phase = "closing"
     \/ y.phase = "aborting" /\ x.phase \in {"connecting", "moving"} /\ y.watching = x.watching
  /\ HasWaited(x) => HasWaited(y)

LEMMA LapseStays ==
  ASSUME NEW x, NEW y, Watched(x), Attended(x), Lapse(x, y)
  PROVE  Stays(x, y)
  <1>1. Watched(y)
    BY DEF Watched, Lapse, Up
  <1>2. Attended(y)
    BY DEF Attended, Lapse, Attending, Outs, CallPhases
  <1> QED BY <1>1, <1>2 DEF Stays, Lapse

LEMMA LapseTrans ==
  ASSUME NEW x, NEW y, NEW z, Lapse(x, y), Lapse(y, z)
  PROVE  Lapse(x, z)
  <1>1. /\ z.everConnected = x.everConnected
        /\ \/ z.pc = x.pc /\ z.chan = x.chan
           \/ x.pc # "none" /\ z.pc = "closed" /\ z.chan \in Shuts
    BY DEF Lapse
  <1>2. z.watching =>
          x.watching /\ (z.pc = "closed" \/ (z.connectTimer = x.connectTimer /\ z.failedTimer = x.failedTimer))
    BY DEF Lapse, Shuts
  <1>3. \/ z.phase = x.phase /\ z.watching = x.watching
        \/ z.phase = "closing"
        \/ z.phase = "aborting" /\ x.phase \in {"connecting", "moving"} /\ z.watching = x.watching
    BY DEF Lapse
  <1> QED BY <1>1, <1>2, <1>3 DEF Lapse

(* The same peer and call, and no message lost.                            *)
Steadfast(x, y) ==
  /\ y.everConnected = x.everConnected /\ y.pc = x.pc /\ y.chan = x.chan /\ y.watching = x.watching
  /\ y.connectTimer = x.connectTimer /\ y.failedTimer = x.failedTimer /\ y.phase = x.phase

LEMMA SteadfastLapse ==
  ASSUME NEW x, NEW y, Steadfast(x, y), y.chain = x.chain
  PROVE  Lapse(x, y)
  BY DEF Steadfast, Lapse, HasWaited

LEMMA AppendWaited ==
  ASSUME NEW x \in Side, NEW y, NEW m \in Message, y.chain = Append(x.chain, m)
  PROVE  /\ HasWaited(x) => HasWaited(y)
         /\ m.event \in Waited => HasWaited(y)
  <1>1. x.chain \in Seq(Message)
    BY DEF Side
  <1>2. Len(y.chain) = Len(x.chain) + 1 /\ (\A i \in 1..Len(x.chain) : y.chain[i] = x.chain[i])
        /\ y.chain[Len(x.chain) + 1] = m /\ Len(x.chain) \in Nat
    BY <1>1
  <1> QED BY <1>2 DEF HasWaited

LEMMA LinkSendLapse ==
  ASSUME NEW x \in Side, NEW m \in Message
  PROVE  Lapse(x, LinkSend(x, m)) /\ (m.event \in Waited => HasWaited(LinkSend(x, m)))
         /\ Steadfast(x, LinkSend(x, m))
  <1>1. Steadfast(x, LinkSend(x, m)) /\ LinkSend(x, m).chain = Append(x.chain, m)
    BY DEF LinkSend, Steadfast, Side
  <1>2. /\ HasWaited(x) => HasWaited(LinkSend(x, m))
        /\ m.event \in Waited => HasWaited(LinkSend(x, m))
    BY <1>1, AppendWaited
  <1> QED BY <1>1, <1>2 DEF Lapse, Steadfast

LEMMA LinkStopLapse ==
  ASSUME NEW x \in Side, NEW r \in Reasons
  PROVE  Lapse(x, LinkStop(x, r)) /\ Steadfast(x, LinkStop(x, r)) /\ LinkStop(x, r) \in Side
  <1>1. LinkStop(x, r) \in Side
    BY LinkStopEases DEF Eases, Frame
  <1>2. CASE x.stopped \/ x.linkEnded \/ x.sent >= Messages
    BY <1>1, <1>2, SteadfastLapse DEF LinkStop, Steadfast
  <1>3. CASE ~(x.stopped \/ x.linkEnded \/ x.sent >= Messages)
    <2> DEFINE z == [x EXCEPT !.stopped = TRUE]
    <2>1. z \in Side /\ Steadfast(x, z) /\ z.chain = x.chain
      BY DEF Side, Steadfast
    <2>2. StopMsg(r) \in Message
      BY AppendedStop
    <2>3. LinkStop(x, r) = LinkSend(z, StopMsg(r))
      BY <1>3 DEF LinkStop
    <2> HIDE DEF z
    <2>4. Lapse(x, z) /\ Lapse(z, LinkStop(x, r)) /\ Steadfast(z, LinkStop(x, r))
      BY <2>1, <2>2, <2>3, SteadfastLapse, LinkSendLapse
    <2> QED BY <1>1, <2>1, <2>4, LapseTrans DEF Steadfast
  <1> QED BY <1>2, <1>3

LEMMA ShutLapse ==
  ASSUME NEW x \in Side
  PROVE  Lapse(x, Shut(x)) /\ Steadfast(x, Shut(x)) /\ Shut(x).chain = x.chain
  <1>1. Steadfast(x, Shut(x)) /\ Shut(x).chain = x.chain
    BY DEF Shut, Steadfast, Side
  <1> QED BY <1>1, SteadfastLapse

LEMMA LinkEndLapse ==
  ASSUME NEW x \in Side
  PROVE  Lapse(x, LinkEnd(x)) /\ Steadfast(x, LinkEnd(x)) /\ LinkEnd(x).chain = x.chain /\ LinkEnd(x) \in Side
  <1> DEFINE z == [x EXCEPT !.linkEnded = TRUE]
  <1>1. z \in Side /\ Steadfast(x, z) /\ z.chain = x.chain
    BY DEF Side, Steadfast
  <1>2. LinkEnd(x) = Shut(z)
    BY DEF LinkEnd
  <1> HIDE DEF z
  <1>3. Steadfast(x, LinkEnd(x)) /\ LinkEnd(x).chain = x.chain
    BY <1>1, <1>2, ShutLapse DEF Steadfast
  <1> QED BY <1>3, SteadfastLapse, LinkEndEases DEF Eases, Frame

LEMMA ClosePeerLapse ==
  ASSUME NEW x \in Side
  PROVE  Lapse(x, ClosePeer(x)) /\ ClosePeer(x) \in Side /\ (x.pc = "none" => ClosePeer(x) = x)
  <1>1. CASE x.pc \in {"none", "closed"}
    <2>1. ClosePeer(x) = x
      BY <1>1 DEF ClosePeer
    <2> QED BY <2>1, SteadfastLapse DEF Steadfast
  <1>2. CASE x.pc \notin {"none", "closed"}
    <2> DEFINE y == ClosePeer(x)
    <2>1. /\ y.pc = "closed" /\ y.everConnected = x.everConnected /\ y.watching = x.watching
          /\ y.phase = x.phase /\ y.chain = x.chain
          /\ y.chan = CASE x.chan = "none" -> "shut" [] x.chan = "open" -> "closed" [] OTHER -> x.chan
      BY <1>2 DEF ClosePeer, NoTimers, Side
    <2>2. x.chan \in {"none", "open", "unopened", "shut", "closed"}
      BY DEF Side
    <2> HIDE DEF y
    <2>3. y.chan \in Shuts
      BY <2>1, <2>2 DEF Shuts
    <2>4. Lapse(x, y)
      BY <1>2, <2>1, <2>3 DEF Lapse, HasWaited
    <2> QED BY <1>2, <2>4, ClosePeerEases DEF y, Eases, Frame
  <1> QED BY <1>1, <1>2

LEMMA CloseLapse ==
  ASSUME NEW x \in Side
  PROVE  Lapse(x, Close(x)) /\ Close(x) \in Side
  <1>1. Lapse(x, ClosePeer(x)) /\ ClosePeer(x) \in Side
    BY ClosePeerLapse
  <1>2. Lapse(ClosePeer(x), Close(x)) /\ Close(x) \in Side
    BY <1>1, LinkEndLapse DEF Close
  <1> QED BY <1>1, <1>2, LapseTrans

LEMMA BlameLapse ==
  ASSUME NEW x \in Side, NEW kind \in Failures
  PROVE  Lapse(x, Blame(x, kind)) /\ Steadfast(x, Blame(x, kind)) /\ Blame(x, kind).chain = x.chain /\ Blame(x, kind) \in Side
  <1>1. Steadfast(x, Blame(x, kind)) /\ Blame(x, kind).chain = x.chain
    BY DEF Blame, Steadfast, Side
  <1> QED BY <1>1, SteadfastLapse, BlameDoes

LEMMA DropPendingLapse ==
  ASSUME NEW x \in Side
  PROVE  Lapse(x, DropPending(x)) /\ Steadfast(x, DropPending(x)) /\ DropPending(x).chain = x.chain /\ DropPending(x) \in Side
  <1>1. Steadfast(x, DropPending(x)) /\ DropPending(x).chain = x.chain
    BY DEF DropPending, Steadfast, Side
  <1> QED BY <1>1, SteadfastLapse, DropPendingEases DEF Eases, Frame

LEMMA FinishedLapse ==
  ASSUME NEW x \in Side, NEW o \in Outcomes
  PROVE  Lapse(x, Finished(x, o)) /\ Finished(x, o) \in Side
  <1> DEFINE y == Finished(x, o)
  <1>1. /\ y.phase = "closing" /\ y.watching = FALSE /\ y.everConnected = x.everConnected /\ y.pc = x.pc
        /\ y.chan = x.chan /\ y.chain = x.chain
    BY DEF Finished, NoTimers, Side
  <1> HIDE DEF y
  <1>2. Lapse(x, y)
    BY <1>1 DEF Lapse, HasWaited
  <1> QED BY <1>2, FinishedEnds DEF y, Frame

LEMMA StopReasons == ASSUME NEW s, NEW kind PROVE StopFor(s, kind) \in Reasons
  BY DEF StopFor, Reasons

LEMMA RejectedLapse ==
  ASSUME NEW s \in Sides, NEW x \in Side, NEW e \in Failures
  PROVE  Lapse(x, Rejected(s, x, e)) /\ Rejected(s, x, e) \in Side /\ Rejected(s, x, e).phase = "closing"
  <1> DEFINE kind == IF x.failure = "none" \/ x.phase \notin CallPhases THEN e ELSE x.failure
             told == IF StopFor(s, kind) = "none" THEN x ELSE LinkStop(x, StopFor(s, kind))
  <1>1. kind \in Outcomes
    BY DEF Side, Outcomes
  <1>2. StopFor(s, kind) \in Reasons
    BY StopReasons
  <1>3. Rejected(s, x, e) = Finished(told, kind)
    BY DEF Rejected
  <1> HIDE DEF kind
  <1>4. told \in Side /\ Lapse(x, told)
    BY <1>2, LinkStopLapse, SteadfastLapse DEF Steadfast
  <1> HIDE DEF told
  <1>5. Lapse(told, Finished(told, kind))
    BY <1>1, <1>4, FinishedLapse
  <1> QED BY <1>3, <1>4, <1>5, LapseTrans, RejectedEnds DEF Ends, Frame

LEMMA CaughtLapse ==
  ASSUME NEW s \in Sides, NEW x \in Side, NEW e \in Failures
  PROVE  Lapse(x, Caught(s, x, e)) /\ Caught(s, x, e) \in Side
         /\ (x.phase \notin {"connecting", "moving"} => Caught(s, x, e).phase = "closing")
  <1>1. CASE s = "drop" /\ x.phase \in {"connecting", "moving"}
    <2> DEFINE y == [x EXCEPT !.phase = "aborting", !.error = e]
    <2>1. Caught(s, x, e) = y
      BY <1>1 DEF Caught
    <2>2. /\ y.phase = "aborting" /\ y.everConnected = x.everConnected /\ y.pc = x.pc /\ y.chan = x.chan
          /\ y.watching = x.watching /\ y.connectTimer = x.connectTimer /\ y.failedTimer = x.failedTimer
          /\ y.chain = x.chain
      BY DEF Side
    <2> HIDE DEF y
    <2>3. Lapse(x, y)
      BY <1>1, <2>2 DEF Lapse, HasWaited
    <2> QED BY <1>1, <2>1, <2>3, CaughtEnds DEF Ends, Frame
  <1>2. CASE ~(s = "drop" /\ x.phase \in {"connecting", "moving"})
    BY <1>2, RejectedLapse DEF Caught
  <1> QED BY <1>1, <1>2

LEMMA GiveUpLapse ==
  ASSUME NEW s \in Sides, NEW x \in Side
  PROVE  Lapse(x, GiveUp(s, x)) /\ GiveUp(s, x) \in Side
  <1> DEFINE kind == IF x.everConnected THEN "lost" ELSE "connect"
             b == Blame(x, kind)
             shut == Close(b)
  <1>1. kind \in Failures
    BY DEF Failures
  <1>2. GiveUp(s, x) = IF ~x.watching THEN x
                       ELSE IF x.phase \in {"connecting", "moving"} THEN Caught(s, shut, kind) ELSE shut
    BY DEF GiveUp
  <1> HIDE DEF kind
  <1>3. Lapse(x, b) /\ b \in Side
    BY <1>1, BlameLapse
  <1> HIDE DEF b
  <1>4. Lapse(x, shut) /\ shut \in Side
    BY <1>3, CloseLapse, LapseTrans
  <1> HIDE DEF shut
  <1>5. Lapse(x, Caught(s, shut, kind)) /\ Caught(s, shut, kind) \in Side
    BY <1>1, <1>4, CaughtLapse, LapseTrans
  <1>6. Lapse(x, x)
    BY SteadfastLapse DEF Steadfast
  <1> QED BY <1>2, <1>4, <1>5, <1>6

LEMMA OffLapse ==
  ASSUME NEW x \in Side
  PROVE  LET y == [x EXCEPT !.reader = "off"] IN Lapse(x, y) /\ Steadfast(x, y) /\ y \in Side
  <1> DEFINE y == [x EXCEPT !.reader = "off"]
  <1>1. y \in Side /\ Steadfast(x, y) /\ y.chain = x.chain
    BY DEF Side, Steadfast
  <1> HIDE DEF y
  <1>2. Lapse(x, y)
    BY <1>1, SteadfastLapse
  <1> QED BY <1>1, <1>2 DEF y

LEMMA FailLapse ==
  ASSUME NEW s \in Sides, NEW x \in Side, NEW kind \in Failures
  PROVE  Lapse(x, Fail(s, x, kind)) /\ Fail(s, x, kind) \in Side
  <1> DEFINE a == Blame(x, kind)
             b == [a EXCEPT !.reader = "off"]
             d == DropPending(b)
             g == GiveUp(s, d)
  <1>1. Fail(s, x, kind) = ClosePeer(g)
    BY DEF Fail
  <1>2. Lapse(x, a) /\ a \in Side
    BY BlameLapse
  <1> HIDE DEF a
  <1>3. Lapse(a, b) /\ b \in Side
    BY <1>2, OffLapse
  <1> HIDE DEF b
  <1>4. Lapse(b, d) /\ d \in Side
    BY <1>3, DropPendingLapse
  <1> HIDE DEF d
  <1>5. Lapse(d, g) /\ g \in Side
    BY <1>4, GiveUpLapse
  <1> HIDE DEF g
  <1>6. Lapse(g, ClosePeer(g)) /\ ClosePeer(g) \in Side
    BY <1>5, ClosePeerLapse
  <1>7. Lapse(x, b)
    BY <1>2, <1>3, LapseTrans
  <1>8. Lapse(x, d)
    BY <1>4, <1>7, LapseTrans
  <1>9. Lapse(x, g)
    BY <1>5, <1>8, LapseTrans
  <1> QED BY <1>1, <1>6, <1>9, LapseTrans

LEMMA NoMoreRestartsLapse ==
  ASSUME NEW x \in Side
  PROVE  Lapse(x, NoMoreRestarts(x)) /\ NoMoreRestarts(x) \in Side
  <1> DEFINE off == [x EXCEPT !.reader = "off"]
  <1>1. off \in Side /\ Lapse(x, off)
    BY OffLapse
  <1>2. NoMoreRestarts(x) = IF x.pc = "failed" THEN GiveUp("page", off) ELSE off
    BY DEF NoMoreRestarts
  <1> HIDE DEF off
  <1>3. Lapse(x, GiveUp("page", off)) /\ GiveUp("page", off) \in Side
    BY <1>1, GiveUpLapse, LapseTrans DEF Sides
  <1> QED BY <1>1, <1>2, <1>3

LEMMA ThrewLapse ==
  ASSUME NEW s \in Sides, NEW x \in Side, NEW kind \in Failures
  PROVE  Lapse(x, Threw(s, x, kind)) /\ Threw(s, x, kind) \in Side
  BY FailLapse, CaughtLapse DEF Threw

(* The peer's part of it.                                                  *)
Wanes(x, y) ==
  /\ y.everConnected = x.everConnected
  /\ \/ y.pc = x.pc /\ y.chan = x.chan
     \/ x.pc # "none" /\ y.pc = "closed" /\ y.chan \in Shuts
  /\ y.watching =>
       x.watching /\ (y.pc = "closed" \/ (y.connectTimer = x.connectTimer /\ y.failedTimer = x.failedTimer))

LEMMA WanesStays ==
  ASSUME NEW x, NEW y, Watched(x), Wanes(x, y), Attended(y)
  PROVE  Stays(x, y)
  <1>1. Watched(y)
    BY DEF Watched, Wanes, Up
  <1> QED BY <1>1 DEF Stays, Wanes

LEMMA LapseWanes ==
  ASSUME NEW x, NEW z, NEW y, Steadfast(x, z), Lapse(z, y)
  PROVE  Wanes(x, y)
  BY DEF Steadfast, Lapse, Wanes

LEMMA StillLapse == ASSUME NEW x PROVE Lapse(x, x) /\ Steadfast(x, x)
  BY SteadfastLapse DEF Steadfast

(* The head of the chain has gone.                                         *)
LEMMA HeadGone ==
  ASSUME NEW s \in Sides, NEW x, Sound(s, x), x.chain # <<>>
  PROVE  LET e == Head(x.chain).event
             z == FirstGone(x) IN
         /\ z \in Side /\ Steadfast(x, z) /\ Head(x.chain) \in Message
         /\ e \in Waited => x.phase = OutPhase(e)
         /\ e \notin Waited => Lapse(x, z)
  <1> DEFINE e == Head(x.chain).event
             z == FirstGone(x)
  <1>1. x \in Side /\ x.chain \in Seq(Message) /\ Len(x.chain) \in Nat /\ Len(x.chain) >= 1 /\ Head(x.chain) = x.chain[1]
    BY DEF Sound, Side
  <1>2. Head(x.chain) \in Message
    BY <1>1
  <1>3. Gone(x, z)
    BY <1>1, GoneIs
  <1>4. Steadfast(x, z) /\ z.chain = Tail(x.chain)
    BY <1>1 DEF Steadfast, FirstGone, Side
  <1>5. e \in Waited => x.phase = OutPhase(e)
    BY <1>1 DEF Sound, SideInv, ChainFits
  <1>6. e \notin Waited => Lapse(x, z)
    <2> SUFFICES ASSUME e \notin Waited, HasWaited(x) PROVE HasWaited(z)
      BY <1>4 DEF Lapse, Steadfast
    <2>1. PICK i \in 1..Len(x.chain) : x.chain[i].event \in Waited
      BY DEF HasWaited
    <2>2. i # 1
      BY <1>1, <2>1
    <2>3. Len(z.chain) = Len(x.chain) - 1 /\ \A j \in 1..Len(z.chain) : z.chain[j] = x.chain[j + 1]
      BY <1>1, <1>4
    <2>4. i - 1 \in 1..Len(z.chain) /\ z.chain[i - 1] = x.chain[i]
      BY <1>1, <2>1, <2>2, <2>3
    <2> QED BY <2>1, <2>4 DEF HasWaited
  <1> HIDE DEF z, e
  <1>7. z \in Side
    BY <1>3 DEF Gone
  <1> QED BY <1>2, <1>4, <1>5, <1>6, <1>7 DEF z, e

LEMMA SendSettlesStays ==
  ASSUME NEW s \in Sides, NEW x, Sound(s, x), Watched(x), Attended(x), x.carried
  PROVE  Stays(x, AfterSend(s, FirstGone(x), Head(x.chain).event))
  <1> DEFINE e == Head(x.chain).event
             z == FirstGone(x)
             y == AfterSend(s, z, e)
  <1> SUFFICES Stays(x, y) OBVIOUS
  <1>1. x.chain # <<>>
    BY DEF Sound, SideInv, ChainFits
  <1>2. /\ z \in Side /\ Steadfast(x, z) /\ Head(x.chain) \in Message
        /\ e \in Waited => x.phase = OutPhase(e)
        /\ e \notin Waited => Lapse(x, z)
    BY <1>1, HeadGone
  <1>3. e \in {"invite", "manifest", "accept", "decline", "answer", "restart", "restart-answer", "stop"}
    BY <1>2 DEF Message
  <1> HIDE DEF z, e
  <1>4. ASSUME NEW p \in Phases, y = [z EXCEPT !.phase = p], p \notin Outs, p \in Attending => x.phase \in Attending
        PROVE  Stays(x, y)
    <2>1. y.phase = p /\ y.watching = z.watching /\ y.everConnected = z.everConnected /\ y.pc = z.pc /\ y.chan = z.chan
          /\ y.connectTimer = z.connectTimer /\ y.failedTimer = z.failedTimer
      BY <1>2, <1>4 DEF Side
    <2> HIDE DEF y
    <2>2. Wanes(x, y)
      BY <1>2, <2>1 DEF Steadfast, Wanes
    <2>3. Attended(y)
      BY <1>2, <1>4, <2>1 DEF Attended, Steadfast
    <2> QED BY <2>2, <2>3, WanesStays
  <1>5. CASE e = "invite"
    <2>1. y = [z EXCEPT !.phase = "invited"]
      BY <1>5 DEF AfterSend
    <2> QED BY <1>4, <2>1 DEF Phases, ReadPhases, Outs, Attending, CallPhases
  <1>6. CASE e = "manifest"
    <2>1. y = [z EXCEPT !.phase = "offered"]
      BY <1>6 DEF AfterSend
    <2> QED BY <1>4, <2>1 DEF Phases, ReadPhases, Outs, Attending, CallPhases
  <1>7. CASE e = "accept"
    <2>1. y = [z EXCEPT !.phase = "accepted"]
      BY <1>7 DEF AfterSend
    <2>2. x.phase = "acceptOut"
      BY <1>2, <1>7 DEF Waited, OutPhase
    <2> QED BY <1>4, <2>1, <2>2 DEF Phases, ReadPhases, Outs, Attending, CallPhases
  <1>8. CASE e = "answer"
    <2> DEFINE a == [z EXCEPT !.phase = "connecting", !.reader = "reading"]
    <2>1. y = a
      BY <1>8 DEF AfterSend
    <2>2. x.phase = "answerOut"
      BY <1>2, <1>8 DEF Waited, OutPhase
    <2>3. a.phase = "connecting" /\ a.watching = z.watching /\ a.everConnected = z.everConnected /\ a.pc = z.pc
          /\ a.chan = z.chan /\ a.connectTimer = z.connectTimer /\ a.failedTimer = z.failedTimer
      BY <1>2 DEF Side
    <2> HIDE DEF a
    <2>4. Wanes(x, a)
      BY <1>2, <2>3 DEF Steadfast, Wanes
    <2>5. Attended(a)
      BY <1>2, <2>2, <2>3 DEF Attended, Steadfast, Attending, CallPhases, Outs
    <2> QED BY <2>1, <2>4, <2>5, WanesStays
  <1>9. CASE e = "decline"
    <2>1. y = Finished(LinkEnd(z), "declined")
      BY <1>9 DEF AfterSend
    <2>2. LinkEnd(z) \in Side /\ Steadfast(x, LinkEnd(z))
      BY <1>2, LinkEndLapse DEF Steadfast
    <2>3. Lapse(LinkEnd(z), y) /\ y.phase = "closing"
      BY <2>1, <2>2, FinishedLapse, FinishedEnds DEF Outcomes
    <2> HIDE DEF y
    <2>4. Wanes(x, y)
      BY <2>2, <2>3, LapseWanes
    <2>5. Attended(y)
      BY <2>3 DEF Attended, Attending, CallPhases, Outs
    <2> QED BY <2>4, <2>5, WanesStays
  <1>10. CASE e \in {"restart", "restart-answer", "stop"}
    <2>1. Lapse(x, z)
      BY <1>2, <1>10 DEF Waited
    <2>2. Lapse(z, y)
      <3>1. e = "stop" => y = Shut(z)
        BY DEF AfterSend
      <3>2. e = "restart" => Steadfast(z, y) /\ y.chain = z.chain
        BY <1>2 DEF AfterSend, Steadfast, Side
      <3>3. e = "restart-answer" => Steadfast(z, y) /\ y.chain = z.chain
        BY <1>2 DEF AfterSend, Steadfast, Side
      <3> HIDE DEF y
      <3> QED BY <1>2, <1>10, <3>1, <3>2, <3>3, SteadfastLapse, ShutLapse
    <2> QED BY <2>1, <2>2, LapseTrans, LapseStays
  <1> QED BY <1>3, <1>5, <1>6, <1>7, <1>8, <1>9, <1>10

LEMMA SendFailsStays ==
  ASSUME NEW s \in Sides, NEW x, Sound(s, x), Watched(x), Attended(x), x.chain # <<>>, NEW kind \in {"cancelled", "expired"}
  PROVE  Stays(x, AfterFailedSend(s, FirstGone(x), Head(x.chain).event, kind))
  <1> DEFINE e == Head(x.chain).event
             z == FirstGone(x)
             y == AfterFailedSend(s, z, e, kind)
  <1> SUFFICES Stays(x, y) OBVIOUS
  <1>1. /\ z \in Side /\ Steadfast(x, z) /\ Head(x.chain) \in Message
        /\ e \in Waited => x.phase = OutPhase(e)
        /\ e \notin Waited => Lapse(x, z)
    BY HeadGone
  <1>2. e \in {"invite", "manifest", "accept", "decline", "answer", "restart", "restart-answer", "stop"} /\ kind \in Failures
    BY <1>1 DEF Message, Failures
  <1> HIDE DEF z, e
  <1>3. CASE e \in {"restart", "restart-answer", "stop"}
    <2>1. Lapse(x, z)
      BY <1>1, <1>3 DEF Waited
    <2>2. Lapse(z, y)
      <3>1. e = "stop" => y = Shut(z)
        BY DEF AfterFailedSend
      <3>2. e = "restart" => Steadfast(z, y) /\ y.chain = z.chain
        BY <1>1 DEF AfterFailedSend, Steadfast, Side
      <3>3. e = "restart-answer" => y \in {z, Fail(s, z, kind), NoMoreRestarts(z)}
        BY DEF AfterFailedSend
      <3> HIDE DEF y
      <3> QED BY <1>1, <1>2, <1>3, <3>1, <3>2, <3>3, SteadfastLapse, ShutLapse, FailLapse, NoMoreRestartsLapse, StillLapse
    <2> QED BY <2>1, <2>2, LapseTrans, LapseStays
  <1>4. CASE e = "decline"
    <2>1. y = Finished(LinkEnd(z), kind)
      BY <1>4 DEF AfterFailedSend
    <2>2. LinkEnd(z) \in Side /\ Steadfast(x, LinkEnd(z))
      BY <1>1, LinkEndLapse DEF Steadfast
    <2>3. Lapse(LinkEnd(z), y) /\ y.phase = "closing"
      BY <1>2, <2>1, <2>2, FinishedLapse, FinishedEnds DEF Outcomes
    <2> HIDE DEF y
    <2>4. Wanes(x, y)
      BY <2>2, <2>3, LapseWanes
    <2>5. Attended(y)
      BY <2>3 DEF Attended, Attending, CallPhases, Outs
    <2> QED BY <2>4, <2>5, WanesStays
  <1>5. CASE e \in {"invite", "manifest", "accept", "answer"}
    <2>1. y = Caught(s, z, kind)
      BY <1>5 DEF AfterFailedSend
    <2>2. z.phase \notin {"connecting", "moving"}
      BY <1>1, <1>5 DEF Waited, OutPhase, Steadfast
    <2>3. Lapse(z, y) /\ y.phase = "closing"
      BY <1>1, <1>2, <2>1, <2>2, CaughtLapse
    <2> HIDE DEF y
    <2>4. Wanes(x, y)
      BY <1>1, <2>3, LapseWanes
    <2>5. Attended(y)
      BY <2>3 DEF Attended, Attending, CallPhases, Outs
    <2> QED BY <2>4, <2>5, WanesStays
  <1> QED BY <1>2, <1>3, <1>4, <1>5

LEMMA StaysTrans ==
  ASSUME NEW x, NEW y, NEW z, Stays(x, y), Stays(y, z)
  PROVE  Stays(x, z)
  BY DEF Stays

(* A call goes on to a phase it does not wait for a message in.            *)
LEMMA PhaseStays ==
  ASSUME NEW x, NEW z \in Side, NEW p, Watched(x), Steadfast(x, z), p \notin Outs, p \in Attending => x.watching,
         NEW y, y.phase = p, y.watching = z.watching, y.everConnected = z.everConnected, y.pc = z.pc, y.chan = z.chan,
         y.connectTimer = z.connectTimer, y.failedTimer = z.failedTimer
  PROVE  Stays(x, y)
  <1>1. Wanes(x, y)
    BY DEF Steadfast, Wanes
  <1>2. Attended(y)
    BY DEF Attended, Steadfast
  <1> QED BY <1>1, <1>2, WanesStays

(* A connection that had failed is tried again.                            *)
Retries(x, y) ==
  /\ y.everConnected = x.everConnected /\ y.pc = (IF x.pc = "failed" THEN "connecting" ELSE x.pc) /\ y.chan = x.chan
  /\ y.watching = x.watching /\ y.connectTimer = x.connectTimer /\ y.failedTimer = x.failedTimer
  /\ y.phase = x.phase /\ y.chain = x.chain

LEMMA RetriesStays ==
  ASSUME NEW x, NEW y, Watched(x), Attended(x), Retries(x, y)
  PROVE  Stays(x, y)
  <1>1. Watched(y)
    BY DEF Watched, Retries, Up
  <1>2. Attended(y)
    BY DEF Attended, Retries, HasWaited
  <1> QED BY <1>1, <1>2 DEF Stays, Retries

LEMMA ReadCounts ==
  ASSUME NEW s \in Sides, NEW x, Sound(s, x), Reading(x)
  PROVE  LET z == [x EXCEPT !.received = @ + 1] IN
         z \in Side /\ Steadfast(x, z) /\ z.chain = x.chain /\ Lapse(x, z)
  <1> DEFINE z == [x EXCEPT !.received = @ + 1]
  <1>1. x \in Side /\ x.received + 1 \in 0..Messages
    BY WhoReads DEF Sound
  <1>2. z \in Side
    BY <1>1 DEF Side
  <1>3. Steadfast(x, z) /\ z.chain = x.chain
    BY <1>1 DEF Side, Steadfast
  <1> HIDE DEF z
  <1>4. Lapse(x, z)
    BY <1>3, SteadfastLapse
  <1> QED BY <1>2, <1>3, <1>4 DEF z

LEMMA ReadStays ==
  ASSUME NEW s \in Sides, NEW x, Sound(s, x), Watched(x), Attended(x), Reading(x), NEW m \in Message,
         NEW i, m.event \in AllowedEvents(Other(s), x.received)
  PROVE  Stays(x, AfterRead(s, [x EXCEPT !.received = @ + 1], m, i))
  <1> DEFINE z == [x EXCEPT !.received = @ + 1]
             y == AfterRead(s, z, m, i)
  <1> SUFFICES Stays(x, y) OBVIOUS
  <1>1. z \in Side /\ Steadfast(x, z) /\ z.chain = x.chain /\ Lapse(x, z)
    BY ReadCounts
  <1>2. m.event \in {"invite", "manifest", "accept", "decline", "answer", "restart", "restart-answer", "stop"}
    BY DEF Message
  <1>3. m.event = "answer" => x.phase = "accepted"
    BY MayRead
  <1> HIDE DEF z
  <1>4. ASSUME NEW p, y = [z EXCEPT !.phase = p], p \notin Outs, p \in Attending => x.watching
        PROVE  Stays(x, y)
    <2>1. y.phase = p /\ y.watching = z.watching /\ y.everConnected = z.everConnected /\ y.pc = z.pc /\ y.chan = z.chan
          /\ y.connectTimer = z.connectTimer /\ y.failedTimer = z.failedTimer
      BY <1>1, <1>4 DEF Side
    <2> HIDE DEF y
    <2> QED BY <1>1, <1>4, <2>1, PhaseStays
  <1>5. CASE m.event = "stop"
    <2> DEFINE a == [z EXCEPT !.stopped = TRUE]
    <2>1. y = Threw(s, a, PeerStopKind(m))
      BY <1>5 DEF AfterRead
    <2>2. a \in Side /\ Steadfast(z, a) /\ a.chain = z.chain
      BY <1>1 DEF Side, Steadfast
    <2>3. PeerStopKind(m) \in Failures
      BY DEF PeerStopKind, Failures
    <2> HIDE DEF a, y
    <2>4. Lapse(z, a) /\ Lapse(a, y)
      BY <2>1, <2>2, <2>3, SteadfastLapse, ThrewLapse
    <2> QED BY <1>1, <2>4, LapseTrans, LapseStays
  <1>6. CASE m.event = "invite"
    <2>1. y = [z EXCEPT !.phase = "choosing"]
      BY <1>6 DEF AfterRead
    <2> HIDE DEF y
    <2> QED BY <1>4, <2>1 DEF Outs, Attending, CallPhases
  <1>7. CASE m.event = "manifest"
    <2>1. y = [z EXCEPT !.phase = "deciding"]
      BY <1>7 DEF AfterRead
    <2> HIDE DEF y
    <2> QED BY <1>4, <2>1 DEF Outs, Attending, CallPhases
  <1>8. CASE m.event = "accept"
    <2>1. y = [z EXCEPT !.phase = "preparing"]
      BY <1>8 DEF AfterRead
    <2> HIDE DEF y
    <2> QED BY <1>4, <2>1 DEF Outs, Attending, CallPhases
  <1>9. CASE m.event = "answer"
    <2>1. y = [z EXCEPT !.phase = "applying"]
      BY <1>9 DEF AfterRead
    <2>2. x.watching
      BY <1>3, <1>9 DEF Attended, Attending, CallPhases
    <2> HIDE DEF y
    <2> QED BY <1>4, <2>1, <2>2 DEF Outs
  <1>10. CASE m.event = "decline"
    <2>1. y = Finished(LinkEnd(z), "declined")
      BY <1>10 DEF AfterRead
    <2>2. LinkEnd(z) \in Side /\ Lapse(z, LinkEnd(z))
      BY <1>1, LinkEndLapse
    <2>3. Lapse(LinkEnd(z), y)
      BY <2>1, <2>2, FinishedLapse DEF Outcomes
    <2> HIDE DEF y
    <2> QED BY <1>1, <2>2, <2>3, LapseTrans, LapseStays
  <1>11. ASSUME y = Fail(s, LinkStop(z, "failed"), "protocol") PROVE Stays(x, y)
    <2>1. LinkStop(z, "failed") \in Side /\ Lapse(z, LinkStop(z, "failed"))
      BY <1>1, LinkStopLapse DEF Reasons
    <2>2. Lapse(LinkStop(z, "failed"), y)
      BY <1>11, <2>1, FailLapse DEF Failures
    <2> HIDE DEF y
    <2> QED BY <1>1, <2>1, <2>2, LapseTrans, LapseStays
  <1>12. CASE m.event = "restart"
    <2>1. y = IF i = z.sent THEN [z EXCEPT !.reader = "describing"] ELSE Fail(s, LinkStop(z, "failed"), "protocol")
      BY <1>12 DEF AfterRead
    <2>2. ASSUME y = [z EXCEPT !.reader = "describing"] PROVE Stays(x, y)
      <3>1. Steadfast(z, y) /\ y.chain = z.chain
        BY <1>1, <2>2 DEF Side, Steadfast
      <3> HIDE DEF y
      <3> QED BY <1>1, <3>1, SteadfastLapse, LapseTrans, LapseStays
    <2> HIDE DEF y
    <2> QED BY <1>11, <2>1, <2>2
  <1>13. CASE m.event = "restart-answer"
    <2> DEFINE a == DropPending(z)
    <2>1. y = IF i = z.pending THEN [a EXCEPT !.pc = IF @ = "failed" THEN "connecting" ELSE @]
              ELSE Fail(s, LinkStop(z, "failed"), "protocol")
      BY <1>13 DEF AfterRead
    <2>2. a \in Side /\ Steadfast(z, a) /\ a.chain = z.chain
      BY <1>1, DropPendingLapse
    <2> HIDE DEF a
    <2>3. ASSUME y = [a EXCEPT !.pc = IF @ = "failed" THEN "connecting" ELSE @] PROVE Stays(x, y)
      <3>1. Retries(a, y)
        BY <2>2, <2>3 DEF Side, Retries
      <3> HIDE DEF y
      <3>2. Retries(x, y)
        BY <1>1, <2>2, <3>1 DEF Retries, Steadfast
      <3> QED BY <3>2, RetriesStays
    <2> HIDE DEF y
    <2> QED BY <1>11, <2>1, <2>3
  <1> QED BY <1>2, <1>5, <1>6, <1>7, <1>8, <1>9, <1>10, <1>12, <1>13

LEMMA RefusedReadStays ==
  ASSUME NEW s \in Sides, NEW x, Sound(s, x), Watched(x), Attended(x), Reading(x)
  PROVE  LET z == [x EXCEPT !.received = @ + 1] IN
         /\ Stays(x, Threw(s, LinkStop(z, "failed"), "protocol"))
         /\ Stays(x, Caught(s, LinkStop(z, "unsupported"), "unsupported"))
  <1> DEFINE z == [x EXCEPT !.received = @ + 1]
  <1>1. z \in Side /\ Lapse(x, z)
    BY ReadCounts
  <1> HIDE DEF z
  <1>2. \A r \in Reasons : LinkStop(z, r) \in Side /\ Lapse(z, LinkStop(z, r))
    BY <1>1, LinkStopLapse
  <1>3. \A r \in Reasons : Lapse(x, LinkStop(z, r))
    BY <1>1, <1>2, LapseTrans
  <1>4. Lapse(LinkStop(z, "failed"), Threw(s, LinkStop(z, "failed"), "protocol"))
    BY <1>2, ThrewLapse DEF Reasons, Failures
  <1>5. Lapse(LinkStop(z, "unsupported"), Caught(s, LinkStop(z, "unsupported"), "unsupported"))
    BY <1>2, CaughtLapse DEF Reasons, Failures
  <1>6. /\ Lapse(x, Threw(s, LinkStop(z, "failed"), "protocol"))
        /\ Lapse(x, Caught(s, LinkStop(z, "unsupported"), "unsupported"))
    BY <1>3, <1>4, <1>5, LapseTrans DEF Reasons
  <1> QED BY <1>6, LapseStays DEF z

LEMMA ReadFailsStays ==
  ASSUME NEW s \in Sides, NEW x \in Side, Watched(x), Attended(x)
  PROVE  Stays(x, IF x.reader # "reading" THEN Caught(s, x, IF x.linkEnded THEN "network" ELSE "expired")
                  ELSE IF s = "page" THEN NoMoreRestarts(x)
                  ELSE DropPending([x EXCEPT !.reader = "off"]))
  <1> DEFINE off == [x EXCEPT !.reader = "off"]
  <1>1. Lapse(x, Caught(s, x, IF x.linkEnded THEN "network" ELSE "expired"))
    BY CaughtLapse DEF Failures
  <1>2. Lapse(x, NoMoreRestarts(x))
    BY NoMoreRestartsLapse
  <1>3. Lapse(x, off) /\ off \in Side
    BY OffLapse
  <1> HIDE DEF off
  <1>4. Lapse(x, DropPending(off))
    BY <1>3, DropPendingLapse, LapseTrans
  <1> QED BY <1>1, <1>2, <1>4, LapseStays DEF off

(* A call sends a message and waits for it to go, or is refused.           *)
LEMMA SendOrStays ==
  ASSUME NEW s \in Sides, NEW x \in Side, Watched(x), Attended(x), NEW e \in Waited, NEW p \in Outs,
         p \in Attending => x.watching
  PROVE  Stays(x, SendOr(s, x, Msg(e), p))
  <1>1. Msg(e) \in Message /\ Msg(e).event = e
    BY DEF Msg, Message, Reasons, Waited
  <1>2. Refusal(x) \in Failures
    BY DEF Refusal, Failures
  <1> DEFINE z == LinkSend(x, Msg(e))
             y == [z EXCEPT !.phase = p]
  <1>3. SendOr(s, x, Msg(e), p) = IF Refusal(x) = "none" THEN y ELSE Caught(s, x, Refusal(x))
    BY DEF SendOr
  <1>4. Stays(x, y)
    <2>1. /\ y.phase = p /\ y.watching = x.watching /\ y.everConnected = x.everConnected /\ y.pc = x.pc /\ y.chan = x.chan
          /\ y.connectTimer = x.connectTimer /\ y.failedTimer = x.failedTimer /\ y.chain = Append(x.chain, Msg(e))
      BY DEF LinkSend, Side
    <2> HIDE DEF y
    <2>2. HasWaited(y)
      BY <1>1, <2>1, AppendWaited
    <2>3. Wanes(x, y)
      BY <2>1 DEF Wanes
    <2>4. Attended(y)
      BY <2>1, <2>2 DEF Attended
    <2> QED BY <2>3, <2>4, WanesStays
  <1>5. Stays(x, Caught(s, x, Refusal(x)))
    BY <1>2, CaughtLapse, LapseStays
  <1> QED BY <1>3, <1>4, <1>5

LEMMA WithPeerStays ==
  ASSUME NEW x \in Side, NEW p, p \notin Outs
  PROVE  Stays(x, WithPeer(x, p))
  <1> DEFINE y == WithPeer(x, p)
  <1>1. /\ y.pc = "connecting" /\ y.watching /\ y.connectTimer /\ y.phase = p /\ y.everConnected = x.everConnected
    BY DEF WithPeer, Side
  <1> HIDE DEF y
  <1>2. Stays(x, y)
    BY <1>1 DEF Stays, Watched, Attended
  <1> QED BY <1>2 DEF y

LEMMA WatchFiresStays ==
  ASSUME NEW s \in Sides, NEW x, Sound(s, x), Watched(x), Attended(x)
  PROVE  Stays(x, GiveUp(s, [x EXCEPT !.connectTimer = FALSE]))
  <1> DEFINE b == [x EXCEPT !.connectTimer = FALSE]
             y == GiveUp(s, b)
  <1>1. x \in Side /\ (x.watching => x.pc # "none")
    BY DEF Sound, SideInv, EndFits
  <1>2. /\ b \in Side /\ b.everConnected = x.everConnected /\ b.pc = x.pc /\ b.chan = x.chan /\ b.watching = x.watching
        /\ b.failedTimer = x.failedTimer /\ b.phase = x.phase /\ b.chain = x.chain
    BY <1>1 DEF Side
  <1> HIDE DEF b
  <1>3. Attended(b)
    BY <1>2 DEF Attended, HasWaited
  <1>4. Lapse(b, y)
    BY <1>2, GiveUpLapse
  <1>5. \/ ~b.watching /\ y = b
        \/ b.watching /\ y.pc \in {"none", "closed"}
    BY <1>2, GiveUpDoes
  <1> HIDE DEF y
  <1>6. Attended(y)
    BY <1>3, <1>4 DEF Attended, Lapse, Attending, Outs, CallPhases
  <1>7. Watched(y)
    BY <1>2, <1>4, <1>5 DEF Watched, Lapse, Up
  <1>8. y.everConnected = x.everConnected /\ (x.pc # "none" => y.pc # "none")
    BY <1>2, <1>4 DEF Lapse
  <1> QED BY <1>6, <1>7, <1>8 DEF Stays, b, y

LEMMA EvaluateStays ==
  ASSUME NEW s \in Sides, NEW x \in Side, Watched(x), Attended(x), x.watching, x.pc \in Trying,
         NEW state \in {"connected", "failed", "disconnected"}
  PROVE  LET y == Evaluate(s, x, state) IN
         /\ Watched(y) /\ Attended(y) /\ y.pc # "none"
         /\ state # "connected" => y.everConnected = x.everConnected
  <1> DEFINE y == Evaluate(s, x, state)
  <1>1. /\ y.pc = state /\ y.chan = x.chan /\ y.watching = x.watching /\ y.phase = x.phase /\ y.chain = x.chain
        /\ state = "connected" => y.everConnected
        /\ state # "connected" => /\ y.everConnected = x.everConnected /\ y.connectTimer = x.connectTimer
                                  /\ y.failedTimer = (x.failedTimer \/ state = "failed")
    BY DEF Evaluate, NoTimers, Side
  <1> HIDE DEF y
  <1>2. Attended(y)
    BY <1>1 DEF Attended, HasWaited
  <1>3. Watched(y)
    BY <1>1 DEF Watched, Up, Trying
  <1> QED BY <1>1, <1>2, <1>3 DEF y

LEMMA RestartOffersStays ==
  ASSUME NEW x \in Side, Watched(x), Attended(x)
  PROVE  LET y == [x EXCEPT !.pending = x.sent] IN
         /\ Stays(x, [x EXCEPT !.restarting = "no"]) /\ Stays(x, [y EXCEPT !.restarting = "no"])
         /\ Stays(x, [LinkSend(y, Msg("restart")) EXCEPT !.restarting = "sending"])
  <1> DEFINE y == [x EXCEPT !.pending = x.sent]
             a == [x EXCEPT !.restarting = "no"]
             b == [y EXCEPT !.restarting = "no"]
             c == [LinkSend(y, Msg("restart")) EXCEPT !.restarting = "sending"]
  <1>1. Steadfast(x, a) /\ a.chain = x.chain
    BY DEF Side, Steadfast
  <1>2. Steadfast(x, b) /\ b.chain = x.chain
    BY DEF Side, Steadfast
  <1>3. Steadfast(x, c) /\ c.chain = Append(x.chain, Msg("restart"))
    BY DEF Side, Steadfast, LinkSend
  <1> HIDE DEF a, b, c
  <1>4. Msg("restart") \in Message
    BY DEF Msg, Message, Reasons
  <1>5. HasWaited(x) => HasWaited(c)
    BY <1>3, <1>4, AppendWaited
  <1>6. Lapse(x, a) /\ Lapse(x, b) /\ Lapse(x, c)
    BY <1>1, <1>2, <1>3, <1>5, SteadfastLapse DEF Lapse, Steadfast
  <1> QED BY <1>6, LapseStays DEF a, b, c

LEMMA AnswersRestartStays ==
  ASSUME NEW x \in Side, Watched(x), Attended(x)
  PROVE  LET y == [x EXCEPT !.pc = IF @ = "failed" THEN "connecting" ELSE @] IN
         /\ Stays(x, NoMoreRestarts(x)) /\ Stays(x, Fail("page", y, Refusal(x)))
         /\ Stays(x, [LinkSend(y, Msg("restart-answer")) EXCEPT !.reader = "sending"])
  <1> DEFINE y == [x EXCEPT !.pc = IF @ = "failed" THEN "connecting" ELSE @]
             c == [LinkSend(y, Msg("restart-answer")) EXCEPT !.reader = "sending"]
  <1>1. y \in Side /\ Retries(x, y)
    BY DEF Side, Retries, Trying
  <1>2. Steadfast(y, c) /\ c.chain = Append(y.chain, Msg("restart-answer"))
    BY DEF Side, Steadfast, LinkSend
  <1> HIDE DEF y, c
  <1>3. Msg("restart-answer") \in Message /\ Refusal(x) \in Failures /\ "page" \in Sides
    BY DEF Msg, Message, Reasons, Refusal, Failures, Sides
  <1>4. HasWaited(y) => HasWaited(c)
    BY <1>1, <1>2, <1>3, AppendWaited
  <1>5. Lapse(y, c) /\ Lapse(y, Fail("page", y, Refusal(x)))
    BY <1>1, <1>2, <1>3, <1>4, FailLapse DEF Lapse, Steadfast
  <1>6. Stays(x, y)
    BY <1>1, RetriesStays
  <1>7. Stays(y, c) /\ Stays(y, Fail("page", y, Refusal(x)))
    BY <1>5, <1>6, LapseStays DEF Stays
  <1>8. Stays(x, c) /\ Stays(x, Fail("page", y, Refusal(x)))
    BY <1>6, <1>7, StaysTrans
  <1>9. Stays(x, NoMoreRestarts(x))
    BY NoMoreRestartsLapse, LapseStays
  <1> QED BY <1>8, <1>9 DEF y, c

LEMMA StopStaysAwake ==
  ASSUME NEW s \in Sides, NEW x \in Side, NEW now \in BOOLEAN
  PROVE  LET told == LinkStop([Blame(x, "cancelled") EXCEPT !.asked = TRUE], "cancelled")
             shut == IF now THEN Close(told) ELSE [told EXCEPT !.closeSoon = TRUE] IN
         /\ Lapse(x, shut) /\ Lapse(x, Caught(s, shut, "cancelled")) /\ Lapse(x, Finished(shut, "cancelled"))
  <1> DEFINE b == Blame(x, "cancelled")
             a == [b EXCEPT !.asked = TRUE]
             told == LinkStop(a, "cancelled")
             late == [told EXCEPT !.closeSoon = TRUE]
             shut == IF now THEN Close(told) ELSE late
  <1>1. Lapse(x, b) /\ b \in Side
    BY BlameLapse DEF Failures
  <1> HIDE DEF b
  <1>2. a \in Side /\ Steadfast(b, a) /\ a.chain = b.chain
    BY <1>1 DEF Side, Steadfast
  <1> HIDE DEF a
  <1>3. Lapse(b, a) /\ Lapse(a, told) /\ told \in Side
    BY <1>2, SteadfastLapse, LinkStopLapse DEF Reasons
  <1>4. Lapse(x, told)
    BY <1>1, <1>3, LapseTrans
  <1> HIDE DEF told
  <1>5. late \in Side /\ Steadfast(told, late) /\ late.chain = told.chain
    BY <1>3 DEF Side, Steadfast
  <1> HIDE DEF late
  <1>6. Lapse(told, late) /\ Lapse(told, Close(told)) /\ Close(told) \in Side
    BY <1>3, <1>5, SteadfastLapse, CloseLapse
  <1>7. shut \in Side /\ Lapse(x, shut)
    BY <1>4, <1>5, <1>6, LapseTrans
  <1> HIDE DEF shut
  <1>8. Lapse(shut, Caught(s, shut, "cancelled")) /\ Lapse(shut, Finished(shut, "cancelled"))
    BY <1>7, CaughtLapse, FinishedLapse DEF Failures, Outcomes
  <1>9. Lapse(x, Caught(s, shut, "cancelled")) /\ Lapse(x, Finished(shut, "cancelled"))
    BY <1>7, <1>8, LapseTrans
  <1> QED BY <1>7, <1>9 DEF shut, late, told, a, b

LEMMA CloseNowStays ==
  ASSUME NEW x \in Side, Watched(x), Attended(x)
  PROVE  /\ Stays(x, Close([x EXCEPT !.phase = "ended"]))
         /\ Stays(x, Close([x EXCEPT !.closeSoon = FALSE]))
  <1> DEFINE z == [x EXCEPT !.phase = "ended"]
             a == [x EXCEPT !.closeSoon = FALSE]
  <1>1. /\ z \in Side /\ z.phase = "ended" /\ z.watching = x.watching /\ z.everConnected = x.everConnected /\ z.pc = x.pc
        /\ z.chan = x.chan /\ z.connectTimer = x.connectTimer /\ z.failedTimer = x.failedTimer
    BY DEF Side, Phases
  <1>2. a \in Side /\ Steadfast(x, a) /\ a.chain = x.chain
    BY DEF Side, Steadfast
  <1> HIDE DEF z, a
  <1>3. Stays(x, z)
    BY <1>1, StillLapse, PhaseStays DEF Outs, Attending, CallPhases
  <1>4. Stays(x, a)
    BY <1>2, SteadfastLapse, LapseStays
  <1>5. Stays(z, Close(z)) /\ Stays(a, Close(a))
    BY <1>1, <1>2, <1>3, <1>4, CloseLapse, LapseStays DEF Stays
  <1> QED BY <1>3, <1>4, <1>5, StaysTrans DEF z, a

(* Who was ever connected was connected to a peer.                         *)
Known == \A s \in Sides : side[s].everConnected => side[Other(s)].pc # "none"
Alert == Known /\ \A s \in Sides : Watched(side[s]) /\ Attended(side[s])

LEMMA PutAlert ==
  ASSUME Core, Alert, NEW s \in Sides, NEW y, Put(s, y), Stays(side[s], y)
  PROVE  Alert'
  <1>1. side \in [Sides -> Side] /\ side' = [side EXCEPT ![s] = y]
    BY DEF Core, TypeOK, Put
  <1>2. side'[s] = y /\ \A r \in Sides : r # s => side'[r] = side[r]
    BY <1>1
  <1>3. \A r \in Sides : /\ Watched(side'[r]) /\ Attended(side'[r]) /\ side'[r].everConnected = side[r].everConnected
                         /\ side[r].pc # "none" => side'[r].pc # "none"
    BY <1>2 DEF Alert, Stays
  <1>4. Known'
    BY <1>3, Sides2 DEF Alert, Known
  <1> QED BY <1>3, <1>4 DEF Alert

LEMMA StillAlert == ASSUME Alert, side' = side PROVE Alert'
  BY DEF Alert, Known, Watched, Attended, HasWaited, Up

LEMMA SideAlert ==
  ASSUME Core, Alert, NEW s \in Sides
  PROVE  Sound(s, side[s]) /\ side[s] \in Side /\ Watched(side[s]) /\ Attended(side[s]) /\ Other(s) \in Sides
  BY Sides2 DEF Alert, Sound

LEMMA SteadfastAlert ==
  ASSUME Core, Alert, NEW s \in Sides, NEW y, Put(s, y), Steadfast(side[s], y), y.chain = side[s].chain
  PROVE  Alert'
  BY SideAlert, SteadfastLapse, LapseStays, PutAlert

LEMMA LapseAlert ==
  ASSUME Core, Alert, NEW s \in Sides, NEW y, Put(s, y), Lapse(side[s], y)
  PROVE  Alert'
  BY SideAlert, LapseStays, PutAlert

(* The exchange.                                                           *)
LEMMA LinkAlert ==
  ASSUME Core, Alert, NEW s \in Sides,
         Carry(s) \/ ExchangeGone(s) \/ SendSettles(s) \/ SendFails(s) \/ Read(s) \/ ReadFails(s)
  PROVE  Alert'
  <1> DEFINE x == side[s]
  <1>1. Sound(s, x) /\ x \in Side /\ Watched(x) /\ Attended(x) /\ Other(s) \in Sides
    BY SideAlert
  <1>2. CASE Carry(s)
    <2> DEFINE y == [x EXCEPT !.carried = TRUE]
    <2>1. Put(s, y)
      BY <1>2 DEF Carry
    <2>2. Steadfast(x, y) /\ y.chain = x.chain
      BY <1>1 DEF Side, Steadfast
    <2> HIDE DEF y
    <2> QED BY <2>1, <2>2, SteadfastAlert
  <1>3. CASE ExchangeGone(s)
    <2> DEFINE y == [x EXCEPT !.exchange = "gone"]
    <2>1. Put(s, y)
      BY <1>3 DEF ExchangeGone
    <2>2. Steadfast(x, y) /\ y.chain = x.chain
      BY <1>1 DEF Side, Steadfast
    <2> HIDE DEF y
    <2> QED BY <2>1, <2>2, SteadfastAlert
  <1>4. CASE SendSettles(s)
    <2>1. x.carried /\ Put(s, AfterSend(s, FirstGone(x), Head(x.chain).event))
      BY <1>4 DEF SendSettles
    <2> HIDE DEF x
    <2>2. Stays(x, AfterSend(s, FirstGone(x), Head(x.chain).event))
      BY <1>1, <2>1, SendSettlesStays
    <2> QED BY <2>1, <2>2, PutAlert DEF x
  <1>5. CASE SendFails(s)
    <2> DEFINE kind == IF x.exchange = "closed" THEN "cancelled" ELSE "expired"
    <2>1. x.chain # <<>> /\ Put(s, AfterFailedSend(s, FirstGone(x), Head(x.chain).event, kind))
      BY <1>5 DEF SendFails
    <2>2. kind \in {"cancelled", "expired"} OBVIOUS
    <2> HIDE DEF x, kind
    <2>3. Stays(x, AfterFailedSend(s, FirstGone(x), Head(x.chain).event, kind))
      BY <1>1, <2>1, <2>2, SendFailsStays
    <2> QED BY <2>1, <2>3, PutAlert DEF x
  <1>6. CASE Read(s)
    <2> DEFINE m == Head(mail[Other(s)])
               z == [x EXCEPT !.received = @ + 1]
               i == x.received
    <2>1. /\ Reading(x) /\ mail[Other(s)] # <<>>
          /\ Put(s, IF m.event \in AllowedEvents(Other(s), x.received) THEN AfterRead(s, z, m, i)
                    ELSE Threw(s, LinkStop(z, "failed"), "protocol"))
      BY <1>6 DEF Read
    <2>2. m \in Message
      <3>1. mail[Other(s)] \in Seq(Message)
        BY <1>1 DEF Core, TypeOK
      <3> QED BY <2>1, <3>1
    <2> HIDE DEF m, i
    <2>3. m.event \in AllowedEvents(Other(s), x.received) => Stays(x, AfterRead(s, z, m, i))
      BY <1>1, <2>1, <2>2, ReadStays
    <2>4. Stays(x, Threw(s, LinkStop(z, "failed"), "protocol"))
      BY <1>1, <2>1, RefusedReadStays
    <2> HIDE DEF z
    <2> QED BY <2>1, <2>3, <2>4, PutAlert
  <1>7. CASE ReadFails(s)
    <2> DEFINE y == IF x.reader # "reading" THEN Caught(s, x, IF x.linkEnded THEN "network" ELSE "expired")
                    ELSE IF s = "page" THEN NoMoreRestarts(x)
                    ELSE DropPending([x EXCEPT !.reader = "off"])
    <2>1. Put(s, y)
      BY <1>7 DEF ReadFails
    <2>2. Stays(x, y)
      BY <1>1, ReadFailsStays
    <2> HIDE DEF y
    <2> QED BY <2>1, <2>2, PutAlert
  <1> QED BY <1>2, <1>3, <1>4, <1>5, <1>6, <1>7

(* The calls of the page.                                                  *)
LEMMA PageAlert ==
  ASSUME Core, Alert, PageCannotUse \/ PageOffers \/ PagePrepares \/ PageAnswers \/ PageAnswersRestart
  PROVE  Alert'
  <1> DEFINE x == side["page"]
  <1>1. Sound("page", x) /\ x \in Side /\ Watched(x) /\ Attended(x) /\ "page" \in Sides
    BY Sides2, SideAlert
  <1>2. \A e \in {"too-big", "source", "no-relay", "protocol"} : Lapse(x, Caught("page", x, e))
    BY <1>1, CaughtLapse DEF Failures
  <1>3. CASE PageCannotUse
    <2> DEFINE z == [x EXCEPT !.received = @ + 1]
    <2>1. Put("page", Caught("page", LinkStop(z, "unsupported"), "unsupported")) /\ Reading(x)
      BY <1>3 DEF PageCannotUse, Reading, ReadPhases
    <2>2. Stays(x, Caught("page", LinkStop(z, "unsupported"), "unsupported"))
      BY <1>1, <2>1, RefusedReadStays
    <2> HIDE DEF z
    <2> QED BY <1>1, <2>1, <2>2, PutAlert
  <1>4. CASE PageOffers
    <2>1. Put("page", Caught("page", x, "too-big")) \/ Put("page", SendOr("page", x, Msg("manifest"), "manifestOut"))
      BY <1>4 DEF PageOffers
    <2> HIDE DEF x
    <2>2. Stays(x, SendOr("page", x, Msg("manifest"), "manifestOut"))
      BY <1>1, SendOrStays DEF Waited, Outs, Attending, CallPhases
    <2> QED BY <1>1, <1>2, <2>1, <2>2, LapseAlert, PutAlert DEF x
  <1>5. CASE PagePrepares
    <2>1. \/ \E kind \in {"source", "no-relay", "protocol"} : Put("page", Caught("page", x, kind))
          \/ Put("page", WithPeer(x, "answering"))
      BY <1>5 DEF PagePrepares, Throws
    <2> HIDE DEF x
    <2>2. Stays(x, WithPeer(x, "answering"))
      BY <1>1, WithPeerStays DEF Outs
    <2> QED BY <1>1, <1>2, <2>1, <2>2, LapseAlert, PutAlert DEF x
  <1>6. CASE PageAnswers
    <2>1. x.phase = "answering" /\ (Put("page", Caught("page", x, "protocol"))
                                    \/ Put("page", SendOr("page", x, Msg("answer"), "answerOut")))
      BY <1>6 DEF PageAnswers, Throws
    <2> HIDE DEF x
    <2>2. x.watching
      BY <1>1, <2>1 DEF Attended, Attending, CallPhases
    <2>3. Stays(x, SendOr("page", x, Msg("answer"), "answerOut"))
      BY <1>1, <2>2, SendOrStays DEF Waited, Outs
    <2> QED BY <1>1, <1>2, <2>1, <2>3, LapseAlert, PutAlert DEF x
  <1>7. CASE PageAnswersRestart
    <2> DEFINE y == [x EXCEPT !.pc = IF @ = "failed" THEN "connecting" ELSE @]
               c == [LinkSend(y, Msg("restart-answer")) EXCEPT !.reader = "sending"]
    <2>1. \/ Put("page", NoMoreRestarts(x))
          \/ Put("page", IF Refusal(x) # "none" THEN Fail("page", y, Refusal(x)) ELSE c)
      BY <1>7 DEF PageAnswersRestart
    <2>2. Stays(x, NoMoreRestarts(x)) /\ Stays(x, Fail("page", y, Refusal(x))) /\ Stays(x, c)
      BY <1>1, AnswersRestartStays
    <2> HIDE DEF y, c
    <2> QED BY <1>1, <2>1, <2>2, PutAlert
  <1> QED BY <1>3, <1>4, <1>5, <1>6, <1>7

(* The calls of Drop.                                                      *)
LEMMA DropAlert ==
  ASSUME Core, Alert, DropInvites \/ DropDecides \/ DropOffers \/ DropApplies \/ SinkAborted
  PROVE  Alert'
  <1> DEFINE x == side["drop"]
  <1>1. Sound("drop", x) /\ x \in Side /\ Watched(x) /\ Attended(x) /\ "drop" \in Sides
    BY Sides2, SideAlert
  <1>2. \A e \in {"no-relay", "protocol"} : Lapse(x, Caught("drop", x, e))
    BY <1>1, CaughtLapse DEF Failures
  <1>3. CASE DropInvites
    <2>1. Put("drop", SendOr("drop", x, Msg("invite"), "inviteOut"))
      BY <1>3 DEF DropInvites
    <2> HIDE DEF x
    <2>2. Stays(x, SendOr("drop", x, Msg("invite"), "inviteOut"))
      BY <1>1, SendOrStays DEF Waited, Outs, Attending, CallPhases
    <2> QED BY <1>1, <2>1, <2>2, PutAlert DEF x
  <1>4. CASE DropDecides
    <2> DEFINE c == [LinkSend(x, Msg("decline")) EXCEPT !.phase = "declineOut"]
    <2>1. \/ Put("drop", IF Refusal(x) = "none" THEN c ELSE Finished(LinkEnd(x), Refusal(x)))
          \/ Put("drop", Caught("drop", x, "no-relay"))
          \/ Put("drop", Caught("drop", x, "protocol"))
          \/ Put("drop", WithPeer(x, "offering"))
      BY <1>4 DEF DropDecides, Throws
    <2>2. Stays(x, WithPeer(x, "offering"))
      BY <1>1, WithPeerStays DEF Outs
    <2>3. Lapse(x, Finished(LinkEnd(x), Refusal(x)))
      <3>1. Refusal(x) \in Outcomes
        BY DEF Refusal, Outcomes, Failures
      <3>2. Lapse(x, LinkEnd(x)) /\ LinkEnd(x) \in Side
        BY <1>1, LinkEndLapse
      <3>3. Lapse(LinkEnd(x), Finished(LinkEnd(x), Refusal(x)))
        BY <3>1, <3>2, FinishedLapse
      <3> QED BY <3>2, <3>3, LapseTrans
    <2>4. Refusal(x) = "none" => Stays(x, c)
      <3>1. Stays(x, SendOr("drop", x, Msg("decline"), "declineOut"))
        BY <1>1, SendOrStays DEF Waited, Outs, Attending, CallPhases
      <3> QED BY <3>1 DEF SendOr
    <2> HIDE DEF c, x
    <2> QED BY <1>1, <1>2, <2>1, <2>2, <2>3, <2>4, LapseAlert, PutAlert DEF x
  <1>5. CASE DropOffers
    <2>1. x.phase = "offering" /\ (Put("drop", Caught("drop", x, "protocol"))
                                   \/ Put("drop", SendOr("drop", x, Msg("accept"), "acceptOut")))
      BY <1>5 DEF DropOffers, Throws
    <2> HIDE DEF x
    <2>2. x.watching
      BY <1>1, <2>1 DEF Attended, Attending, CallPhases
    <2>3. Stays(x, SendOr("drop", x, Msg("accept"), "acceptOut"))
      BY <1>1, <2>2, SendOrStays DEF Waited, Outs
    <2> QED BY <1>1, <1>2, <2>1, <2>3, LapseAlert, PutAlert DEF x
  <1>6. CASE DropApplies
    <2> DEFINE y == [x EXCEPT !.phase = "connecting", !.reader = "reading"]
    <2>1. x.phase = "applying" /\ (Put("drop", y) \/ Put("drop", Caught("drop", x, "protocol")))
      BY <1>6 DEF DropApplies, Throws
    <2>2. y.phase = "connecting" /\ y.watching = x.watching /\ y.everConnected = x.everConnected /\ y.pc = x.pc
          /\ y.chan = x.chan /\ y.connectTimer = x.connectTimer /\ y.failedTimer = x.failedTimer
      BY <1>1 DEF Side
    <2> HIDE DEF x, y
    <2>3. x.watching
      BY <1>1, <2>1 DEF Attended, Attending, CallPhases
    <2>4. Stays(x, y)
      BY <1>1, <2>2, <2>3, StillLapse, PhaseStays DEF Outs
    <2> QED BY <1>1, <1>2, <2>1, <2>4, LapseAlert, PutAlert DEF x
  <1>7. CASE SinkAborted
    <2> DEFINE z == [x EXCEPT !.error = "none"]
    <2>1. Put("drop", Rejected("drop", z, x.error))
      BY <1>7 DEF SinkAborted
    <2>2. z \in Side /\ Steadfast(x, z) /\ z.chain = x.chain /\ x.error \in Failures
      BY <1>1 DEF Side, Steadfast, Failures
    <2> HIDE DEF z
    <2>3. Lapse(x, Rejected("drop", z, x.error))
      BY <1>1, <2>2, SteadfastLapse, RejectedLapse, LapseTrans
    <2> QED BY <1>1, <2>1, <2>3, LapseAlert
  <1> QED BY <1>3, <1>4, <1>5, <1>6, <1>7

(* Drop's restarts.                                                        *)
LEMMA RestartsAlert ==
  ASSUME Core, Alert, RestartTimerFires \/ NetworkChanges \/ RestartBegins \/ RestartOffers
  PROVE  Alert'
  <1> DEFINE x == side["drop"]
  <1>1. x \in Side /\ Watched(x) /\ Attended(x) /\ "drop" \in Sides
    BY Sides2, SideAlert
  <1>2. CASE RestartTimerFires
    <2> DEFINE y == [x EXCEPT !.restartTimer = FALSE, !.queue = IF x.used < Restarts THEN @ + 1 ELSE @]
    <2>1. Put("drop", y)
      BY <1>2 DEF RestartTimerFires
    <2>2. Steadfast(x, y) /\ y.chain = x.chain
      BY <1>1 DEF Side, Steadfast
    <2> HIDE DEF y
    <2> QED BY <1>1, <2>1, <2>2, SteadfastAlert
  <1>3. CASE NetworkChanges
    <2> DEFINE y == [x EXCEPT !.queue = @ + 1]
    <2>1. Put("drop", y)
      BY <1>3 DEF NetworkChanges
    <2>2. Steadfast(x, y) /\ y.chain = x.chain
      BY <1>1 DEF Side, Steadfast
    <2> HIDE DEF y
    <2> QED BY <1>1, <2>1, <2>2, SteadfastAlert
  <1>4. CASE RestartBegins
    <2> DEFINE a == [x EXCEPT !.queue = @ - 1, !.used = @ + 1, !.restarting = "describing"]
               b == [x EXCEPT !.queue = @ - 1]
    <2>1. Put("drop", a) \/ Put("drop", b)
      BY <1>4 DEF RestartBegins
    <2>2. Steadfast(x, a) /\ a.chain = x.chain /\ Steadfast(x, b) /\ b.chain = x.chain
      BY <1>1 DEF Side, Steadfast
    <2> HIDE DEF a, b
    <2> QED BY <1>1, <2>1, <2>2, SteadfastAlert
  <1>5. CASE RestartOffers
    <2> DEFINE y == [x EXCEPT !.pending = x.sent]
               a == [x EXCEPT !.restarting = "no"]
               b == [y EXCEPT !.restarting = "no"]
               c == [LinkSend(y, Msg("restart")) EXCEPT !.restarting = "sending"]
    <2>1. Put("drop", a) \/ Put("drop", IF Refusal(y) # "none" THEN b ELSE c)
      BY <1>5 DEF RestartOffers
    <2>2. Stays(x, a) /\ Stays(x, b) /\ Stays(x, c)
      BY <1>1, RestartOffersStays
    <2> HIDE DEF y, a, b, c
    <2> QED BY <1>1, <2>1, <2>2, PutAlert
  <1> QED BY <1>2, <1>3, <1>4, <1>5

(* The peer connections.                                                   *)
LEMMA ConnectsAlert ==
  ASSUME Core, Alert, NEW s \in Sides, Connects(s)
  PROVE  Alert'
  <1> DEFINE x == side[s]
             y == Evaluate(s, x, "connected")
  <1>1. x \in Side /\ Watched(x) /\ Attended(x) /\ Other(s) \in Sides /\ Other(s) # s /\ Other(Other(s)) = s
    BY SideAlert DEF Other, Sides
  <1>2. x.watching /\ x.pc \in Trying /\ Put(s, y) /\ side[Other(s)].pc # "none"
    BY DEF Connects, Trying, Up
  <1>3. Watched(y) /\ Attended(y) /\ y.pc # "none"
    BY <1>1, <1>2, EvaluateStays
  <1> HIDE DEF y
  <1>4. side \in [Sides -> Side] /\ side' = [side EXCEPT ![s] = y]
    BY <1>2 DEF Core, TypeOK, Put
  <1>5. side'[s] = y /\ \A r \in Sides : r # s => side'[r] = side[r]
    BY <1>4
  <1>6. \A r \in Sides : Watched(side'[r]) /\ Attended(side'[r])
    BY <1>3, <1>5 DEF Alert
  <1>7. Known'
    <2> SUFFICES ASSUME NEW r \in Sides, side'[r].everConnected PROVE side'[Other(r)].pc # "none"
      BY DEF Known
    <2>1. CASE r = s
      BY <1>1, <1>2, <1>5, <2>1
    <2>2. CASE r # s
      <3>1. Other(r) = s
        BY <2>2 DEF Other, Sides
      <3> QED BY <1>3, <1>5, <3>1
    <2> QED BY <2>1, <2>2
  <1> QED BY <1>6, <1>7 DEF Alert

LEMMA ConnectionAlert ==
  ASSUME Core, Alert, NEW s \in Sides,
         Drops(s) \/ Opens(s) \/ ChannelCloses(s) \/ Starts(s) \/ WatchFires(s) \/ ChannelGone(s)
  PROVE  Alert'
  <1> DEFINE x == side[s]
  <1>1. Sound(s, x) /\ x \in Side /\ Watched(x) /\ Attended(x)
    BY SideAlert
  <1>2. CASE Drops(s)
    <2>1. PICK state \in {"failed", "disconnected"} : Put(s, Evaluate(s, x, state)) /\ x.watching /\ x.pc \in Trying
      BY <1>2 DEF Drops
    <2> HIDE DEF x
    <2>2. /\ Watched(Evaluate(s, x, state)) /\ Attended(Evaluate(s, x, state)) /\ Evaluate(s, x, state).pc # "none"
          /\ Evaluate(s, x, state).everConnected = x.everConnected
      BY <1>1, <2>1, EvaluateStays
    <2> QED BY <2>1, <2>2, PutAlert DEF Stays, x
  <1>3. ASSUME NEW c, NEW y, y = [x EXCEPT !.chan = c], x.pc = "connected", Put(s, y) PROVE Alert'
    <2>1. y.phase = x.phase /\ y.watching = x.watching /\ y.everConnected = x.everConnected /\ y.pc = x.pc
          /\ y.connectTimer = x.connectTimer /\ y.failedTimer = x.failedTimer /\ y.chain = x.chain
      BY <1>1, <1>3 DEF Side
    <2>2. Stays(x, y)
      BY <1>1, <1>3, <2>1 DEF Stays, Watched, Attended, HasWaited, Up
    <2> QED BY <1>3, <2>2, PutAlert
  <1>4. CASE Opens(s)
    <2>1. x.pc = "connected" /\ Put(s, [x EXCEPT !.chan = "open"])
      BY <1>4 DEF Opens
    <2> QED BY <1>3, <2>1
  <1>5. CASE ChannelCloses(s)
    <2>1. x.pc = "connected" /\ Put(s, [x EXCEPT !.chan = IF x.chan = "none" THEN "unopened" ELSE "closed"])
      BY <1>1, <1>5 DEF ChannelCloses, Side
    <2> QED BY <1>3, <2>1
  <1>6. CASE Starts(s)
    <2> DEFINE y == [x EXCEPT !.phase = "moving"]
    <2>1. x.phase = "connecting" /\ Put(s, y)
      BY <1>6 DEF Starts
    <2>2. y.phase = "moving" /\ y.watching = x.watching /\ y.everConnected = x.everConnected /\ y.pc = x.pc
          /\ y.chan = x.chan /\ y.connectTimer = x.connectTimer /\ y.failedTimer = x.failedTimer
      BY <1>1 DEF Side
    <2> HIDE DEF x, y
    <2>3. x.watching
      BY <1>1, <2>1 DEF Attended, Attending, CallPhases
    <2>4. Stays(x, y)
      BY <1>1, <2>2, <2>3, StillLapse, PhaseStays DEF Outs
    <2> QED BY <2>1, <2>4, PutAlert DEF x
  <1>7. CASE WatchFires(s)
    <2> DEFINE y == GiveUp(s, [x EXCEPT !.connectTimer = FALSE])
    <2>1. Put(s, y)
      BY <1>7 DEF WatchFires
    <2>2. Stays(x, y)
      BY <1>1, WatchFiresStays
    <2> HIDE DEF y
    <2> QED BY <2>1, <2>2, PutAlert
  <1>8. CASE ChannelGone(s)
    <2> DEFINE kind == IF x.chan = "closed" THEN "lost" ELSE "protocol"
    <2>1. Put(s, Caught(s, x, kind)) /\ kind \in Failures
      BY <1>8 DEF ChannelGone, Failures
    <2> HIDE DEF kind
    <2> QED BY <1>1, <2>1, CaughtLapse, LapseAlert
  <1> QED BY <1>2, <1>4, <1>5, <1>6, <1>7, <1>8

(* The transfer, stops and ends.                                           *)
LEMMA EndingAlert ==
  ASSUME Core, Alert, NEW s \in Sides,
         \/ TransferFails(s) \/ HearsStopFrame(s) \/ LateClose(s) \/ CloseNow(s)
         \/ \E now \in BOOLEAN : SessionStop(s, now)
  PROVE  Alert'
  <1> DEFINE x == side[s]
  <1>1. x \in Side /\ Watched(x) /\ Attended(x)
    BY SideAlert
  <1>2. CASE TransferFails(s)
    <2>1. PICK kind \in {"source", "verification", "storage"} : Put(s, Caught(s, x, kind))
      BY <1>2 DEF TransferFails
    <2> QED BY <1>1, <2>1, CaughtLapse, LapseAlert DEF Failures
  <1>3. CASE HearsStopFrame(s)
    <2>1. Put(s, Caught(s, x, stopFrame[s])) /\ stopFrame[s] \in Failures
      BY <1>3 DEF HearsStopFrame, Core, TypeOK, Failures
    <2> QED BY <1>1, <2>1, CaughtLapse, LapseAlert
  <1>4. CASE LateClose(s)
    <2>1. Put(s, Close([x EXCEPT !.closeSoon = FALSE]))
      BY <1>4 DEF LateClose
    <2>2. Stays(x, Close([x EXCEPT !.closeSoon = FALSE]))
      BY <1>1, CloseNowStays
    <2> QED BY <2>1, <2>2, PutAlert
  <1>5. CASE CloseNow(s)
    <2>1. Put(s, Close([x EXCEPT !.phase = "ended"]))
      BY <1>5 DEF CloseNow
    <2>2. Stays(x, Close([x EXCEPT !.phase = "ended"]))
      BY <1>1, CloseNowStays
    <2> QED BY <2>1, <2>2, PutAlert
  <1>6. CASE \E now \in BOOLEAN : SessionStop(s, now)
    <2>1. PICK now \in BOOLEAN : SessionStop(s, now)
      BY <1>6
    <2> DEFINE told == LinkStop([Blame(x, "cancelled") EXCEPT !.asked = TRUE], "cancelled")
               shut == IF now THEN Close(told) ELSE [told EXCEPT !.closeSoon = TRUE]
    <2>2. Put(s, IF x.phase = "moving" THEN Caught(s, shut, "cancelled")
                 ELSE IF x.phase \in Idle THEN Finished(shut, "cancelled") ELSE shut)
      BY <2>1 DEF SessionStop
    <2>3. Lapse(x, shut) /\ Lapse(x, Caught(s, shut, "cancelled")) /\ Lapse(x, Finished(shut, "cancelled"))
      BY <1>1, StopStaysAwake
    <2> HIDE DEF shut
    <2> QED BY <2>2, <2>3, LapseAlert
  <1> QED BY <1>2, <1>3, <1>4, <1>5, <1>6

LEMMA OutcomeAlert ==
  ASSUME Core, Alert, PageSendsEnd \/ DropKeeps \/ PageHearsKept \/ UNCHANGED vars
  PROVE  Alert'
  <1>1. CASE PageSendsEnd \/ UNCHANGED vars
    <2>1. side' = side
      BY <1>1 DEF PageSendsEnd, vars
    <2> QED BY <2>1, StillAlert
  <1>2. CASE DropKeeps
    <2>1. Put("drop", Finished(side["drop"], "kept")) /\ "drop" \in Sides
      BY <1>2 DEF DropKeeps, Sides
    <2> QED BY <2>1, SideAlert, FinishedLapse, LapseAlert DEF Outcomes
  <1>3. CASE PageHearsKept
    <2>1. Put("page", Finished(side["page"], "arrived")) /\ "page" \in Sides
      BY <1>3 DEF PageHearsKept, Sides
    <2> QED BY <2>1, SideAlert, FinishedLapse, LapseAlert DEF Outcomes
  <1> QED BY <1>1, <1>2, <1>3

LEMMA AlertStep == Core /\ Alert /\ [Next]_vars => Alert'
  <1> SUFFICES ASSUME Core, Alert, [Next]_vars PROVE Alert' OBVIOUS
  <1>1. CASE UNCHANGED vars
    BY <1>1, OutcomeAlert
  <1>2. ASSUME NEW s \in Sides,
               \/ Internal(s) \/ ExchangeGone(s)
               \/ Connects(s) \/ Drops(s) \/ Opens(s) \/ ChannelCloses(s)
               \/ Starts(s) \/ TransferFails(s) \/ HearsStopFrame(s)
               \/ \E now \in BOOLEAN : SessionStop(s, now)
        PROVE  Alert'
    BY <1>2, LinkAlert, ConnectsAlert, ConnectionAlert, EndingAlert DEF Internal
  <1>3. CASE \/ DropInternal \/ PageInternal
             \/ PageOffers \/ PageCannotUse \/ DropInvites \/ DropDecides \/ NetworkChanges
             \/ PageSendsEnd \/ DropKeeps \/ PageHearsKept \/ Over
    BY <1>3, PageAlert, DropAlert, RestartsAlert, OutcomeAlert DEF DropInternal, PageInternal, Over
  <1> QED BY <1>1, <1>2, <1>3 DEF Next

LEMMA InitAlert == Init => Alert
  <1> SUFFICES ASSUME Init, NEW s \in Sides
               PROVE  /\ Watched(side[s]) /\ Attended(side[s]) /\ ~side[s].everConnected
    BY DEF Alert, Known
  <1>1. /\ side[s].pc = "none" /\ ~side[s].watching /\ ~side[s].everConnected
        /\ side[s].phase \in {"inviting", "start"}
    BY DEF Init, NewSide
  <1> QED BY <1>1 DEF Watched, Attended, Attending, CallPhases, Outs

(* Where each call can stand when the other end has gone.                  *)
LEMMA AlertDue == Core /\ Alert => NobodyLeftWaiting
  <1> SUFFICES ASSUME Core, Alert, NEW r \in Sides, side[r].phase = "ended",
                      side[Other(r)].phase \notin {"ended"} \cup Idle
               PROVE  Due(Other(r))
    BY DEF NobodyLeftWaiting
  <1> DEFINE s == Other(r)
             x == side[s]
             o == side[r]
  <1>1. s \in Sides /\ Other(s) = r
    BY DEF Sides, Other
  <1>2. x \in Side /\ Watched(x) /\ Attended(x) /\ Sound(s, x) /\ EndFits(x)
    BY <1>1, SideAlert DEF Sound, SideInv
  <1>3. o.phase = "ended" /\ o.pc \in {"none", "closed"}
    BY SideAlert DEF Sound, SideInv, EndFits
  <1>4. x.everConnected => o.pc # "none"
    BY <1>1 DEF Alert, Known
  <1>5. x.phase \in Phases \ ({"ended"} \cup Idle)
    BY <1>2 DEF Side
  <1>6. x.phase \in ReadPhases => Due(s)
    BY <1>1, <1>3 DEF Due, Reading
  <1>7. x.phase \in Outs => Due(s)
    <2>1. HasWaited(x) => x.chain # <<>>
      BY <1>2 DEF HasWaited, Side
    <2> QED BY <1>1, <1>2, <2>1 DEF Due, Attended
  <1>8. x.phase \in {"preparing", "answering", "offering", "applying", "aborting", "closing"} => Due(s)
    BY DEF Due
  <1>9. x.phase \in {"connecting", "moving"} => Due(s)
    <2> SUFFICES ASSUME x.phase \in {"connecting", "moving"} PROVE Due(s) OBVIOUS
    <2>1. x.watching /\ x.pc # "none" /\ x.pc \in Trying \cup {"none", "failed", "closed"}
      BY <1>2 DEF Attended, Attending, CallPhases, EndFits, Side
    <2>2. CASE x.pc = "closed"
      BY <1>2, <2>2 DEF Due, Watched, Shuts
    <2>3. CASE x.pc = "failed"
      BY <1>2, <2>1, <2>3 DEF Due, Watched
    <2>4. CASE x.pc \in Trying /\ o.pc = "closed"
      BY <1>1, <2>1, <2>4 DEF Due
    <2>5. CASE x.pc \in Trying /\ o.pc = "none"
      <3>1. x.connectTimer
        BY <1>2, <1>4, <2>1, <2>5 DEF Watched, Up, Trying
      <3> QED BY <1>1, <1>3, <3>1 DEF Due
    <2> QED BY <1>3, <2>1, <2>2, <2>3, <2>4, <2>5
  <1> HIDE DEF x, s
  <1>10. Due(s)
    BY <1>5, <1>6, <1>7, <1>8, <1>9 DEF Phases, CallPhases, Outs, ReadPhases
  <1> QED BY <1>10 DEF s

(* When one end of a session has gone, the other has gone, waits for its   *)
(* person or has a step of its own accord due: whatever was lost, watch()  *)
(* of session.ts has a clock running or the state of the connection tells. *)
THEOREM NobodyIsLeftWaiting == Spec => []NobodyLeftWaiting
  <1>1. Init => Core /\ Alert
    BY InitCore, InitAlert
  <1>2. Core /\ Alert /\ [Next]_vars => (Core /\ Alert)'
    BY CoreStep, AlertStep
  <1> QED BY <1>1, <1>2, AlertDue, PTL DEF Spec
================================================================================
