------------------------------- MODULE SendPage -------------------------------
(***************************************************************************)
(* The sender's page: the screens (src/send/state.ts, screens.ts) and the  *)
(* handlers behind them (src/send/main.ts).  The page drives a pairing run *)
(* (connect()), then one SenderSession, and everything that reaches it is  *)
(* a callback: a person's click, a promise of the run or of the session, a *)
(* timer, the page being hidden.  The session is what DirectSession shows  *)
(* of it: one call at a time that settles or fails, in the ways SettlesAs  *)
(* lists.  File names, sizes and progress are left out.                    *)
(***************************************************************************)
EXTENDS Naturals

CONSTANT Tries    \* how many times connect() may be called

ASSUME TriesIsNat == Tries \in Nat

VARIABLES
  screen, offline, reconnecting, hide, relayOffered, endSent,   \* the ViewState
  words,      \* its checkWords: the run they came from, 0 for none
  room,       \* "loading", "open" (the link was good) or "none"
  secret,     \* whether the four words are in memory
  claimed,    \* `claimed`
  run,        \* `controller`: the newest connect() call, 0 before the first
  runs,       \* where each connect() call stands
  aborted,    \* the runs whose signal is aborted
  flow,       \* `flow`: the run whose PairingFlow it is, 0 when undefined
  slow,       \* the run whose slow timer is armed, 0 for none
  session,    \* whether `session` is defined
  call,       \* the session's call in progress
  stopped,    \* session.stop() was called
  lock,       \* screenLock is held
  end,        \* what became of the end marker: "no", "sent", "kept" by Drop
  late,       \* the link's ten minutes are over
  left        \* the page was hidden since the last connect() (and may be shown again)

view == <<screen, offline, reconnecting, hide, relayOffered, endSent, words>>
pairing == <<secret, claimed, run, runs, aborted, flow, slow>>
sending == <<session, call, stopped, lock, end>>
world == <<room, late, left>>
vars == <<view, pairing, sending, world>>

Runs == 1..Tries

Pairing == {"connecting", "waiting"}
Picking == {"choose", "too-big", "empty", "unreadable"}
BeforeFile == {"words", "network", "check", "confirming"} \cup Pairing \cup Picking
AfterOffer == {"asking", "linking", "sending", "finishing"}
Endings ==
  {"unsupported", "incomplete", "expired", "wrong-words", "used", "mismatch", "declined", "sent", "no-relay",
   "no-room", "connect-failed", "connect-failed-direct", "lost", "they-stopped", "failed", "cancelled", "invalid"}
Screens == BeforeFile \cup AfterOffer \cup Endings

Calls == {"none", "invite", "idle", "offer", "prepare", "connect", "move", "await", "over"}

(* The types of the ViewState and of the page's variables.                 *)
TypeOK ==
  /\ screen \in Screens /\ words \in 0..Tries /\ offline \in BOOLEAN /\ reconnecting \in BOOLEAN
  /\ hide \in BOOLEAN /\ relayOffered \in BOOLEAN /\ endSent \in BOOLEAN
  /\ room \in {"loading", "open", "none"}
  /\ secret \in BOOLEAN /\ claimed \in BOOLEAN /\ session \in BOOLEAN /\ stopped \in BOOLEAN
  /\ lock \in BOOLEAN /\ late \in BOOLEAN /\ left \in BOOLEAN
  /\ run \in 0..Tries /\ flow \in 0..Tries /\ slow \in 0..Tries /\ aborted \subseteq Runs
  /\ runs \in [Runs -> {"idle", "claiming", "pairing", "over"}]
  /\ call \in Calls /\ end \in {"no", "sent", "kept"}

Init ==
  /\ screen = "words" /\ words = 0 /\ offline = FALSE /\ reconnecting = FALSE
  /\ hide = FALSE /\ relayOffered = FALSE /\ endSent = FALSE
  /\ room = "loading" /\ secret = FALSE /\ claimed = FALSE
  /\ run = 0 /\ runs = [r \in Runs |-> "idle"] /\ aborted = {} /\ flow = 0 /\ slow = 0
  /\ session = FALSE /\ call = "none" /\ stopped = FALSE /\ lock = FALSE /\ end = "no"
  /\ late = FALSE /\ left = FALSE

(***************************************************************************)
(* reduce: where each event applies, and the screen it leads to.           *)
(***************************************************************************)

(* Mutant: "expired" applies only where the countdown runs.                *)
ExpiresOn_Countdown == BeforeFile

(* The screens that "expired" ends: the countdown's, and the session's.    *)
ExpiresOn == BeforeFile \cup {"asking"}

(* The screens an event applies to; anywhere else it changes nothing.      *)
Where(e) ==
  CASE e = "continue" -> {"words", "network"}
    [] e \in {"slow", "back"} -> {"connecting"}
    [] e \in {"claim-refused", "network", "wrong-words", "paired"} -> Pairing
    [] e \in {"yes", "no"} -> {"check"}
    [] e \in {"invitation", "invalid-invitation"} -> {"confirming"}
    [] e = "expired" -> ExpiresOn
    [] e \in {"too-big", "empty", "asking"} -> Picking
    [] e \in {"declined", "linking"} -> {"asking"}
    [] e = "sending" -> {"asking", "linking"}
    [] e = "end-sent" -> {"sending"}
    [] e \in {"reconnecting", "sent"} -> {"sending", "linking", "finishing"}
    [] e \in {"no-relay", "no-room", "connect-failed"} -> AfterOffer
    [] e \in {"lost", "they-stopped", "failed"} -> AfterOffer \cup {"choose", "confirming"}
    [] e = "cancel" -> Pairing \cup {"confirming"} \cup Picking \cup AfterOffer

(* The screen an event leads to; most are named after the event.           *)
Target(e) ==
  CASE e = "continue" -> "connecting"      [] e = "slow" -> "waiting"
    [] e = "back" -> "words"               [] e = "claim-refused" -> "used"
    [] e = "paired" -> "check"             [] e = "yes" -> "confirming"
    [] e = "no" -> "mismatch"              [] e = "invitation" -> "choose"
    [] e = "invalid-invitation" -> "invalid" [] e = "end-sent" -> "finishing"
    [] e = "cancel" -> "cancelled"
    [] e = "connect-failed" -> IF relayOffered THEN "connect-failed" ELSE "connect-failed-direct"
    [] OTHER -> e

ForgetsWords == {"no", "invitation", "invalid-invitation", "expired", "lost", "they-stopped", "failed", "cancel"}
Settles == {"asking", "sending", "sent", "no-relay", "no-room", "connect-failed", "lost", "they-stopped",
            "failed", "cancel"}

(* Whether an event applies to the screen the page is on.                  *)
Applies(e) == screen \in Where(e)

(* Mutant: end-sent moves to the finishing screen and nothing else.        *)
EndSent_Unset(e) == endSent

(* endSent after an event.                                                 *)
EndSent(e) == (Applies(e) /\ e = "end-sent") \/ (endSent /\ ~(Applies(e) /\ e = "asking"))

(* The fields any event may touch, and then dispatch({ type: e }).         *)
Go(e) ==
  /\ screen' = IF Applies(e) THEN Target(e) ELSE screen
  /\ reconnecting' = (reconnecting /\ ~(Applies(e) /\ e \in Settles))
  /\ endSent' = EndSent(e)
Dispatch(e) ==
  /\ Go(e)
  /\ words' = IF Applies(e) /\ e \in ForgetsWords THEN 0 ELSE words
  /\ UNCHANGED <<offline, hide, relayOffered>>

(* render(): what a person can press on the screen the page is on.         *)
Buttons ==
  CASE screen = "words" -> {"continue"}
    [] screen = "network" -> {"try-again"}
    [] screen = "check" -> {"yes", "no"}
    [] screen \in Pairing \cup {"confirming"} -> {"cancel"}
    [] screen \in Picking -> {"hide", "choose", "stop"}
    [] screen \in AfterOffer -> {"stop"}
    [] OTHER -> {}

(***************************************************************************)
(* Start-up, the words and the pairing run                                 *)
(***************************************************************************)

(* start(): the link is parsed once the code is loaded.                    *)
Start ==
  /\ room = "loading"
  /\ \/ room' = "open" /\ UNCHANGED screen
     \/ \E problem \in {"unsupported", "incomplete"} \cup (IF late THEN {"expired"} ELSE {}) :
          room' = "none" /\ screen' = problem
  /\ UNCHANGED <<offline, reconnecting, hide, relayOffered, endSent, words, pairing, sending, late, left>>

Online ==
  /\ offline' = ~offline
  /\ UNCHANGED <<screen, reconnecting, hide, relayOffered, endSent, words, pairing, sending, world>>

(* Mutant: stopFlow() forgets to abort.                                    *)
Aborting_Not == aborted

(* stopFlow(): the run's signal.                                           *)
Aborting == aborted \cup ({run} \ {0})
StopFlow == slow' = 0 /\ aborted' = Aborting /\ flow' = 0

(* connect(), up to its first await.                                       *)
Connect ==
  /\ room = "open" /\ run < Tries
  /\ StopFlow /\ claimed' = FALSE
  /\ run' = run + 1 /\ runs' = [runs EXCEPT ![run + 1] = "claiming"]
  /\ Dispatch("continue") /\ left' = FALSE
  /\ UNCHANGED <<sending, room, late>>

(* onContinue() with four good words, and the network screen's button.     *)
Continue == "continue" \in Buttons /\ ~offline /\ secret' = TRUE /\ Connect
TryAgain == "try-again" \in Buttons /\ ~offline /\ secret /\ Connect /\ UNCHANGED secret

(* relay.recipient resolves: the link is claimed and the flow begins.      *)
Claims(r) ==
  /\ runs[r] = "claiming" /\ r \notin aborted
  /\ claimed' = TRUE /\ slow' = r /\ flow' = r /\ runs' = [runs EXCEPT ![r] = "pairing"]
  /\ UNCHANGED <<view, secret, run, aborted, sending, world>>

SlowFires ==
  /\ slow # 0 /\ slow' = 0
  /\ Dispatch("slow")
  /\ UNCHANGED <<secret, claimed, run, runs, aborted, flow, sending, world>>

(* pairing.pair resolves with the three check words.                       *)
Pairs(r) ==
  /\ runs[r] = "pairing" /\ r \notin aborted
  /\ slow' = 0 /\ secret' = FALSE /\ runs' = [runs EXCEPT ![r] = "over"]
  /\ Go("paired") /\ words' = (IF Applies("paired") THEN r ELSE words)
  /\ UNCHANGED <<offline, hide, relayOffered, claimed, run, aborted, flow, sending, world>>

(* classifyPairingFailure(error, claimed).                                 *)
(* A transport error of kind "cancelled" comes only from our own abort.    *)
Classify(error) ==
  CASE error = "expired" -> "expired"
    [] error = "refused" /\ ~claimed -> "claim-refused"
    [] error = "plain" /\ claimed -> "wrong-words"
    [] OTHER -> "network"

(* connect()'s catch.                                                      *)
RunFails(r, error) ==
  /\ runs[r] \in {"claiming", "pairing"} /\ r \notin aborted
  /\ error = "expired" => late
  /\ slow' = 0 /\ runs' = [runs EXCEPT ![r] = "over"]
  /\ secret' = (secret /\ Classify(error) # "wrong-words")
  /\ Dispatch(Classify(error))
  /\ UNCHANGED <<claimed, run, aborted, flow, sending, world>>

(* Mutant: the catch does not ask whether its run was aborted.             *)
RunAborted_Loud(r) ==
  /\ runs[r] \in {"claiming", "pairing"} /\ r \in aborted
  /\ slow' = 0 /\ runs' = [runs EXCEPT ![r] = "over"]
  /\ Dispatch("network")
  /\ UNCHANGED <<secret, claimed, run, aborted, flow, sending, world>>

(* connect()'s catch in a run that was aborted, at some later time.        *)
RunAborted(r) ==
  /\ runs[r] \in {"claiming", "pairing"} /\ r \in aborted
  /\ slow' = 0 /\ runs' = [runs EXCEPT ![r] = "over"]
  /\ UNCHANGED <<view, secret, claimed, run, aborted, flow, sending, world>>

(* The flow's onState: "expired".                                          *)
FlowExpires ==
  /\ flow # 0 /\ late
  /\ Dispatch("expired")
  /\ UNCHANGED <<pairing, sending, world>>

(* `active = session; session = undefined; active?.stop("cancelled")`.     *)
DropSession == session' = FALSE /\ stopped' = (stopped \/ session)

(* onCancelConnect(), the Cancel of three screens.                         *)
CancelConnect ==
  /\ "cancel" \in Buttons
  /\ StopFlow
  /\ \/ /\ ~claimed /\ screen = "connecting"
        /\ Dispatch("back") /\ UNCHANGED <<secret, session, stopped>>
     \/ /\ claimed \/ screen # "connecting"
        /\ secret' = FALSE /\ DropSession /\ Dispatch("cancel")
  /\ UNCHANGED <<claimed, run, runs, call, lock, end, world>>

No ==
  /\ "no" \in Buttons
  /\ flow' = 0 /\ secret' = FALSE
  /\ Dispatch("no")
  /\ UNCHANGED <<claimed, run, runs, aborted, slow, sending, world>>

(* onYes(): the session begins, with readInvite() on its way.              *)
Yes ==
  /\ "yes" \in Buttons /\ flow # 0
  /\ flow' = 0 /\ slow' = 0 /\ session' = TRUE /\ call' = "invite"
  /\ Dispatch("yes")
  /\ UNCHANGED <<secret, claimed, run, runs, aborted, stopped, lock, end, world>>

(***************************************************************************)
(* The session                                                             *)
(***************************************************************************)

(* readInvite() resolves.                                                  *)
Invited(relay) ==
  /\ call = "invite" /\ ~stopped
  /\ call' = "idle"
  /\ \/ /\ session /\ Applies("invitation")
        /\ Go("invitation") /\ words' = 0 /\ relayOffered' = relay /\ hide' = (relay /\ hide)
     \/ ~(session /\ Applies("invitation")) /\ UNCHANGED <<screen, reconnecting, hide, relayOffered, endSent, words>>
  /\ UNCHANGED <<offline, pairing, session, stopped, lock, end, world>>

HideChanges(on) ==
  /\ "hide" \in Buttons
  /\ hide' = (on /\ relayOffered)
  /\ UNCHANGED <<screen, offline, reconnecting, relayOffered, endSent, words, pairing, sending, world>>

(* onFileChosen(): a file the page refuses, or one it offers.              *)
FileRefused(why) ==
  /\ session /\ screen \in Picking
  /\ Dispatch(why)
  /\ UNCHANGED <<pairing, sending, world>>

FileChosen ==
  /\ session /\ screen \in Picking
  /\ lock' = TRUE /\ call' = "offer"
  /\ Dispatch("asking")
  /\ UNCHANGED <<pairing, session, stopped, end, world>>

(* finish().                                                               *)
Finish == session' = FALSE /\ lock' = FALSE

(* What follows a call that resolved: nothing, if the session is gone.     *)
Settled(e) ==
  \/ session /\ Finish /\ Dispatch(e)
  \/ ~session /\ UNCHANGED <<view, session, lock>>

Declined ==
  /\ call = "offer" /\ ~stopped
  /\ call' = "over" /\ Settled("declined")
  /\ UNCHANGED <<pairing, stopped, end, world>>

Accepted ==
  /\ call = "offer" /\ ~stopped
  /\ call' = (IF session THEN "prepare" ELSE "over")
  /\ UNCHANGED <<view, pairing, session, stopped, lock, end, world>>

(* The answer has gone: onConnecting, which may still come after a stop.   *)
Connecting ==
  /\ call = "prepare"
  /\ call' = "connect" /\ Dispatch("linking")
  /\ UNCHANGED <<pairing, session, stopped, lock, end, world>>

Connected ==
  /\ call = "connect" /\ ~stopped
  /\ call' = "move" /\ Dispatch("sending")
  /\ UNCHANGED <<pairing, session, stopped, lock, end, world>>

(* The end marker is handed to the channel: onEndSent.                     *)
EndGoes ==
  /\ call = "move" /\ ~stopped
  /\ call' = "await" /\ end' = "sent" /\ Dispatch("end-sent")
  /\ UNCHANGED <<pairing, session, stopped, lock, world>>

Reconnects(on) ==
  /\ call \in {"connect", "move", "await"} /\ ~stopped
  /\ Applies("reconnecting")
  /\ reconnecting' = on
  /\ UNCHANGED <<screen, offline, hide, relayOffered, endSent, words, pairing, sending, world>>

(* Drop has the whole file and keeps it, whatever the page is doing.       *)
DropKeeps ==
  /\ end = "sent" /\ end' = "kept"
  /\ UNCHANGED <<view, pairing, session, call, stopped, lock, world>>

(* send() resolves: KEPT was heard.                                        *)
KeptHeard ==
  /\ call = "await" /\ end = "kept" /\ ~stopped
  /\ call' = "over" /\ Settled("sent")
  /\ UNCHANGED <<pairing, stopped, end, world>>

(* The ways each call of a SenderSession can fail (DirectSession's         *)
(* FailsAsShown); "cancelled" is what our own stop makes of it.            *)
SettlesAs(c) ==
  LET own == IF stopped THEN {"cancelled"} ELSE {}
      exchange == {"network", "protocol", "unsupported"} \cup (IF late THEN {"expired"} ELSE {})
      peer == {"peer-cancelled", "peer-failed", "peer-unsupported", "protocol"}
  IN CASE c = "invite" -> own \cup exchange
       [] c = "offer" -> own \cup exchange \cup peer \cup {"too-big"}
       [] c = "prepare" -> own \cup exchange \cup {"source", "no-relay", "connect", "lost"}
       [] c = "connect" -> own \cup peer \cup {"connect", "lost", "unsupported"}
       [] c \in {"move", "await"} -> own \cup peer \cup {"lost", "source", "unsupported", "peer-storage"}
       [] OTHER -> {}

(* SCREEN_FOR_FAILURE, and the invitation told apart.                      *)
ScreenForFailure(kind) ==
  CASE kind = "peer-cancelled" -> "they-stopped"
    [] kind = "peer-storage" -> "no-room"
    [] kind = "connect" -> "connect-failed"
    [] kind = "network" -> "lost"
    [] kind \in {"no-relay", "lost", "expired"} -> kind
    [] kind = "unsupported" /\ screen = "confirming" -> "invalid-invitation"
    [] OTHER -> "failed"

(* showFailure(error).                                                     *)
ShowFailure(kind) ==
  IF kind = "cancelled" THEN UNCHANGED <<view, session, lock>>
  ELSE Finish /\ Dispatch(ScreenForFailure(kind))

(* The call in progress rejects; `session !== active` once it was stopped. *)
CallFails(kind) ==
  /\ kind \in SettlesAs(call)
  /\ call' = "over"
  /\ \/ session /\ ShowFailure(kind)
     \/ ~session /\ UNCHANGED <<view, session, lock>>
  /\ UNCHANGED <<pairing, stopped, end, world>>

(***************************************************************************)
(* Stopping                                                                *)
(***************************************************************************)

(* onStop(), the Cancel or Stop of every screen with a session behind it.  *)
Stop ==
  /\ "stop" \in Buttons
  /\ DropSession /\ lock' = FALSE
  /\ Dispatch("cancel")
  /\ UNCHANGED <<pairing, call, end, world>>

(* pagehide; the page may come back from the back-forward cache.           *)
PageHides ==
  /\ StopFlow /\ DropSession /\ lock' = FALSE /\ left' = TRUE
  /\ UNCHANGED <<view, secret, claimed, run, runs, call, end, room, late>>

ClockPasses ==
  /\ ~late /\ late' = TRUE
  /\ UNCHANGED <<view, pairing, sending, room, left>>

(* Mutant: the countdown stops on the screen that offers to try again.     *)
CountsDown_NotNetwork == room = "open" /\ screen \in BeforeFile \ {"network"}

(* The screens syncCountdownTimer keeps the interval on.                   *)
CountsDown == room = "open" /\ screen \in BeforeFile

(* The countdown's tick after the link has run out.                        *)
Countdown ==
  /\ CountsDown /\ late
  /\ StopFlow /\ secret' = FALSE /\ DropSession
  /\ Dispatch("expired")
  /\ UNCHANGED <<claimed, run, runs, call, lock, end, world>>

(* Next, apart from what the invitation's servers decide.                  *)
PageNext ==
  \/ Start \/ Online \/ Continue \/ TryAgain \/ SlowFires \/ FlowExpires
  \/ \E r \in Runs : Claims(r) \/ Pairs(r) \/ RunAborted(r)
  \/ \E r \in Runs, error \in {"refused", "plain", "transport", "expired"} : RunFails(r, error)
  \/ CancelConnect \/ No \/ Yes
  \/ \E b \in BOOLEAN : HideChanges(b) \/ Reconnects(b)
  \/ \E why \in {"empty", "too-big"} : FileRefused(why)
  \/ FileChosen \/ Declined \/ Accepted \/ Connected \/ EndGoes \/ DropKeeps \/ KeptHeard
  \/ Stop \/ PageHides \/ ClockPasses \/ Countdown

Next ==
  \/ PageNext
  \/ \E relay \in BOOLEAN : Invited(relay)
  \/ Connecting
  \/ \E kind \in SettlesAs(call) : CallFails(kind)

(* The clock runs and the countdown ticks; nobody has to click, and no     *)
(* promise has to settle.                                                  *)
Fairness == WF_vars(ClockPasses) /\ WF_vars(Countdown)

Spec == Init /\ [][Next]_vars /\ Fairness

(***************************************************************************)
(* Properties                                                              *)
(***************************************************************************)

(* The call each screen waits for.                                         *)
CallBehind ==
  CASE screen = "confirming" -> {"invite"}
    [] screen \in Picking -> {"idle"}
    [] screen = "asking" -> {"offer", "prepare"}
    [] screen = "linking" -> {"connect"}
    [] screen = "sending" -> {"move"}
    [] screen = "finishing" -> {"await"}

(* No screen is a dead end: one that says to wait has the run or the       *)
(* session's call behind it whose end will move it on.  Every failure the  *)
(* session can report is one the reducer takes on that screen.             *)
ScreensAreLive ==
  ~left => /\ screen \in Pairing => runs[run] \in {"claiming", "pairing"} /\ run \notin aborted
           /\ screen \in {"confirming"} \cup Picking \cup AfterOffer => session /\ call \in CallBehind

(* The screen is kept on exactly while a file was offered and the session  *)
(* is still the page's: no ending, stop or hiding leaves it on.            *)
LockFits ==
  /\ lock => session /\ screen \in AfterOffer
  /\ screen \in AfterOffer /\ ~left => lock
  /\ screen \in Endings => ~session

(* Yes confirms the words on the screen: they are those of the flow that   *)
(* onYes() verifies, however many runs were started and cancelled before.  *)
ChecksItsOwnWords == screen = "check" => flow = words \/ (left /\ flow = 0)

(* What the screen says of the file (screenText): that none of it was kept *)
(* or sent, that it arrived, that nobody knows, or nothing.                *)
Verdict ==
  CASE screen = "sent" -> "arrived"
    [] screen \in {"no-room", "lost", "they-stopped", "failed", "cancelled"} ->
         IF endSent THEN "unknown" ELSE "nothing"
    [] screen \in {"no-relay", "connect-failed", "connect-failed-direct", "declined", "mismatch"} -> "nothing"
    [] OTHER -> "none"

(* "every other ending must say the outcome is not known": a file Drop has *)
(* kept, or keeps later, is never said not to be there, and only a kept    *)
(* one is said to be.                                                      *)
HonestEndings ==
  /\ Verdict = "nothing" => end = "no"
  /\ Verdict = "arrived" => end = "kept"

(* A run that was cancelled or replaced never moves the screen.            *)
AbortedRunsAreMute == [][\A r \in aborted : runs'[r] # runs[r] => view' = view]_vars

(* What makes the invariants above inductive: only the newest run is ever  *)
(* unaborted, and the flow is its; before the session there is none, and   *)
(* while there is one the screen is the one its call is behind; and the    *)
(* end marker is out only where the screen can say so.                     *)
LateEndings == {"sent", "no-room", "lost", "they-stopped", "failed", "cancelled"}

RunsInv ==
  /\ \A r \in Runs : runs[r] = "idle" <=> r > run
  /\ \A r \in aborted : r <= run
  /\ \A r \in Runs : r < run => r \in aborted
  /\ flow # 0 => flow = run /\ run \notin aborted /\ runs[run] \in {"pairing", "over"}
  /\ run # 0 /\ run \notin aborted => (runs[run] = "pairing" => flow = run)
  /\ screen = "check" => run # 0 /\ runs[run] = "over"
  /\ screen \in Pairing => run # 0
  /\ room = "loading" => run = 0 /\ screen = "words"
  /\ left => run = 0 \/ run \in aborted
  /\ call # "none" => flow = 0 /\ run # 0 /\ runs[run] = "over"

SessionInv ==
  /\ session => /\ screen \in {"confirming"} \cup Picking \cup AfterOffer
                /\ call \in CallBehind /\ ~stopped /\ ~left
  /\ screen \in {"words", "network", "check"} \cup Pairing => ~session /\ ~stopped /\ call = "none"
  /\ call \notin {"await", "over"} => end = "no"
  /\ end # "no" => endSent /\ screen \in {"finishing"} \cup LateEndings
  /\ ~stopped /\ call \in {"invite", "idle", "offer", "prepare", "connect", "move", "await"} => session

PageInv ==
  /\ TypeOK /\ ScreensAreLive /\ LockFits /\ ChecksItsOwnWords /\ HonestEndings
  /\ RunsInv /\ SessionInv

(* A link that has run out ends every screen before the file is offered,   *)
(* also on a page that was hidden and came back.                           *)
EveryLinkEnds == (room = "open" /\ screen \in BeforeFile) ~> (screen \notin BeforeFile)
=============================================================================
