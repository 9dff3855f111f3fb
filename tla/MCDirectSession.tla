-------------------------- MODULE MCDirectSession --------------------------
(* DirectSession for TLC.  Most of its states are ends winding down, which *)
(* differ in what nobody will read again: TLC sees those as one (the VIEW  *)
(* of the cfg file).  No step and no property tells states of one View     *)
(* apart; each part says why.                                              *)
EXTENDS DirectSession

(* This end reads its exchange no more: the mail for it stays where it is. *)
Deaf(x) == x.linkEnded \/ x.exchange # "open" \/ (x.phase \in Done /\ x.reader = "off")

(* The call is over or being given up: its transfer hears nothing more.    *)
Settled(s) == side[s].phase \in Done \cup {"aborting"}

(* Once a call is over, its recorded failure and error are not looked at   *)
(* again, nor how it came out, but for the names below; nor what it has    *)
(* read, if no loop reads on; nor, once its peer has closed, what became   *)
(* of the connection, but for a channel that never opened.                 *)
CallOver(x) ==
  IF x.phase \notin Done THEN x
  ELSE [x EXCEPT !.failure = IF @ \in Blamed THEN "none" ELSE @, !.error = "none",
                 !.outcome = IF @ \in {"protocol", "kept", "arrived"} THEN @ ELSE "lost",
                 !.received = IF x.reader # "off" \/ @ = 1 THEN @ ELSE 0,
                 !.everConnected = @ /\ ~(x.pc = "closed" /\ x.chan # "open"),
                 !.chan = IF x.pc = "closed" /\ @ \notin {"open", "unopened"} THEN "shut" ELSE @]

(* An ended end takes no index, so how many it and its restarts have taken *)
(* is read no more, if it is within MostTaken and but for the "sent = 1"   *)
(* of HonestSessions; it is not stopped again; and to a message still on   *)
(* its way an exchange that is gone is as good as a closed one.            *)
SessionOver(s, x) ==
  IF x.phase = "ended" /\ (x.stopped \/ x.sent <= MostTaken(s, x))
  THEN [x EXCEPT !.stopped = TRUE, !.used = 0, !.sent = IF @ = 1 THEN 1 ELSE 0,
                 !.pending = IF @ = None THEN None ELSE 0, !.asked = @ /\ s = "drop" /\ x.sent = 1,
                 !.outcome = IF @ = "protocol" THEN @ ELSE "lost",
                 !.exchange = IF @ = "open" THEN @ ELSE "closed"]
  ELSE x

View ==
  << [s \in Sides |-> CallOver(SessionOver(s, side[s]))],
     [s \in Sides |-> IF Deaf(side[Other(s)]) THEN <<>> ELSE mail[s]],
     [s \in Sides |-> IF Settled(s) THEN "none" ELSE stopFrame[s]],
     [s \in Sides |-> threw[s] /\ (side[s].phase \in Done => side[s].outcome = "protocol")],
     endOut /\ \E s \in Sides : ~Settled(s), keptOut /\ ~Settled("page"), faults >>
=============================================================================
