------------------------------- MODULE GetPage -------------------------------
(***************************************************************************)
(* The recipient's page: its screens (src/get/state.ts), its handlers      *)
(* (src/get/main.ts) and the one reply it sends back (src/get/reply.ts).   *)
(* A connect() call and a download are both calls with an AbortController  *)
(* of their own, and `controller` is the newest of them.  Wording, layout  *)
(* and byte counts are left out; a downloaded file is told apart only by   *)
(* the call that fetched it.                                               *)
(***************************************************************************)
EXTENDS Naturals

CONSTANT Tries    \* how many AbortControllers the page may make

ASSUME TriesIsNat == Tries \in Nat

VARIABLES
  screen, offline,    \* the ViewState
  words,      \* its checkWords: the call they came from, 0 for none
  received,   \* its received: the call whose progress is shown, 0 for none yet
  typed,      \* what the words box holds, as checkWords sees it
  room,       \* "loading", "open" (the link was good) or "none"
  secret,     \* whether the four words are in memory
  claimed,    \* `claimed`
  controller, \* `controller`: the newest call, 0 before the first
  calls,      \* where each call stands
  aborted,    \* the calls whose signal is aborted
  flow,       \* `flow`: the call whose PairingFlow it is, 0 when undefined
  slow,       \* the call whose slow timer is armed, 0 for none
  descriptor, \* whether the share details are in memory
  reply,      \* the DownloadedReply: "none", "kept", "sending" or "closed"
  told,       \* how many times channel.reply() was called
  file,       \* `savedFile`: the download it came from, 0 for none
  url,        \* the object URL: "none", "live" or "revoked"
  handed,     \* the file was handed to the browser under a live URL
  late, gone, \* the link's ten minutes are over; so is the share's time
  left        \* the page was hidden (and may be shown again)

view == <<screen, offline, words, received>>
pairing == <<secret, claimed, controller, calls, aborted, flow, slow>>
share == <<descriptor, reply, told, file, url, handed>>
world == <<room, late, gone, left>>
vars == <<view, typed, pairing, share, world>>

Calls == 1..Tries
Pairing == {"r6", "r7"}
BeforeFile == {"r5", "r6", "r7", "r10", "r12", "r14"}
Loading == {"r16", "r17"}
Screens == BeforeFile \cup Loading \cup
  {"r2", "r3", "r4", "r8", "r9", "r13", "r15", "r18", "r19", "r20", "r21", "r22", "r23", "cancelled", "invalid"}
Typed == {"empty", "count", "unknown", "good"}

(* The types of the page's state; the reply is counted to two, so that a   *)
(* second one would show.                                                  *)
TypeOK ==
  /\ screen \in Screens /\ words \in 0..Tries /\ received \in 0..Tries /\ typed \in Typed
  /\ room \in {"loading", "open", "none"}
  /\ controller \in 0..Tries /\ flow \in 0..Tries /\ slow \in 0..Tries /\ file \in 0..Tries
  /\ calls \in [Calls -> {"idle", "claiming", "pairing", "paired", "receiving", "fetching", "opening", "over"}]
  /\ aborted \subseteq Calls
  /\ reply \in {"none", "kept", "sending", "closed"} /\ told \in 0..2
  /\ url \in {"none", "live", "revoked"}
  /\ {offline, secret, claimed, descriptor, handed, late, gone, left} \subseteq BOOLEAN

Init ==
  /\ screen = "r5" /\ offline = FALSE /\ words = 0 /\ received = 0 /\ typed = "empty"
  /\ room = "loading" /\ secret = FALSE /\ claimed = FALSE
  /\ controller = 0 /\ calls = [c \in Calls |-> "idle"] /\ aborted = {} /\ flow = 0 /\ slow = 0
  /\ descriptor = FALSE /\ reply = "none" /\ told = 0 /\ file = 0 /\ url = "none" /\ handed = FALSE
  /\ late = FALSE /\ gone = FALSE /\ left = FALSE

(***************************************************************************)
(* reduce: where each event applies, and the screen it leads to.           *)
(***************************************************************************)

(* The screens that a failed download moves on.                            *)
FailsOn == Loading

(* The screens an event applies to; anywhere else it changes nothing.      *)
Where(e) ==
  CASE e = "continue" -> {"r5", "r10"}
    [] e \in {"slow", "back"} -> {"r6"}
    [] e \in {"claim-refused", "wrong-words", "paired"} -> Pairing
    [] e = "network" -> Pairing \cup {"r12", "r14"}
    [] e \in {"yes", "no"} -> {"r12"}
    [] e \in {"details", "invalid-details", "too-big"} -> {"r14"}
    [] e = "expired" -> BeforeFile
    [] e = "download" -> {"r15", "r19", "r21"}
    [] e = "checking" -> {"r16"}
    [] e = "saved" -> {"r17"}
    [] e = "save-failed" -> {"r17", "r18", "r23"}
    [] e = "save-again" -> {"r23"}
    [] e \in {"missing", "unavailable", "damaged"} -> FailsOn
    [] e = "cancel" -> Pairing \cup {"r14", "r16"}

(* The screen an event leads to.                                           *)
Target(e) ==
  CASE e = "continue" -> "r6"       [] e = "slow" -> "r7"         [] e = "back" -> "r5"
    [] e = "claim-refused" -> "r9"  [] e = "wrong-words" -> "r8"  [] e = "paired" -> "r12"
    [] e = "network" -> "r10"       [] e = "yes" -> "r14"         [] e = "no" -> "r13"
    [] e = "details" -> "r15"       [] e = "invalid-details" -> "invalid" [] e = "too-big" -> "r22"
    [] e = "expired" -> "r4"        [] e = "download" -> "r16"    [] e = "checking" -> "r17"
    [] e \in {"saved", "save-again"} -> "r18"                     [] e = "save-failed" -> "r23"
    [] e = "missing" -> "r20"       [] e = "unavailable" -> "r19" [] e = "damaged" -> "r21"
    [] e = "cancel" -> IF screen = "r16" THEN "r15" ELSE "cancelled"

Applies(e) == screen \in Where(e)

(* dispatch({ type: e }), with the fields an event clears on its way.      *)
Forgets(e) == e \in {"no", "details", "expired"} \/ (e = "cancel" /\ screen # "r16")
Dispatch(e) ==
  /\ screen' = IF Applies(e) THEN Target(e) ELSE screen
  /\ words' = IF Applies(e) /\ Forgets(e) THEN 0 ELSE words
  /\ received' = IF Applies(e) /\ e \in {"download", "cancel"} THEN 0 ELSE received
  /\ UNCHANGED offline

(* render(): the screens that show each button.                            *)
Shown(b) ==
  CASE b = "continue" -> {"r5"}
    [] b = "cancel connect" -> {"r6", "r7", "r14"}
    [] b = "connect again" -> {"r10"}
    [] b \in {"yes", "no"} -> {"r12"}
    [] b = "download" -> {"r15", "r19", "r21"}
    [] b = "cancel download" -> {"r16"}
    [] b = "save again" -> {"r18", "r23"}
Clicked(b) == screen \in Shown(b)

(***************************************************************************)
(* Start-up and the words                                                  *)
(***************************************************************************)

(* start(): unsupported, a link classifyLinkFailure calls expired or       *)
(* broken, or the words screen.                                            *)
Start ==
  /\ room = "loading"
  /\ \/ room' = "open" /\ UNCHANGED screen
     \/ \E end \in {"r2", "r3"} \cup (IF late THEN {"r4"} ELSE {}) : room' = "none" /\ screen' = end
  /\ UNCHANGED <<offline, words, received, typed, pairing, share, late, gone, left>>

Online ==
  /\ offline' = ~offline
  /\ UNCHANGED <<screen, words, received, typed, pairing, share, world>>

(* Typing, and onContinue()'s suggestion for an unknown word: applying it  *)
(* leaves four known words, or another unknown one.                        *)
Types(t) ==
  /\ Clicked("continue") /\ room = "open"
  /\ typed' = t
  /\ UNCHANGED <<view, pairing, share, world>>

Suggested ==
  /\ Clicked("continue") /\ room = "open" /\ typed = "unknown" /\ ~offline
  /\ typed' \in {"unknown", "good"}
  /\ UNCHANGED <<view, pairing, share, world>>

(***************************************************************************)
(* The pairing call                                                        *)
(***************************************************************************)

(* closeReply().                                                           *)
CloseReply == reply' = IF reply = "none" THEN "none" ELSE "closed"

(* Mutant: stopFlow() forgets to abort the call.                           *)
Aborting_Not == aborted

(* controller?.abort().                                                    *)
Aborting == aborted \cup ({controller} \ {0})

(* stopFlow().                                                             *)
StopFlow == slow' = 0 /\ aborted' = Aborting /\ flow' = 0 /\ CloseReply

(* connect(), up to its first await.                                       *)
Connect ==
  /\ room = "open" /\ controller < Tries
  /\ StopFlow /\ claimed' = FALSE
  /\ controller' = controller + 1 /\ calls' = [calls EXCEPT ![controller + 1] = "claiming"]
  /\ Dispatch("continue") /\ left' = FALSE
  /\ UNCHANGED <<typed, descriptor, told, file, url, handed, room, late, gone>>

(* checkWords(wordsInput.value) is ok.                                     *)
GoodWords == typed = "good"

Continue == Clicked("continue") /\ ~offline /\ GoodWords /\ secret' = TRUE /\ Connect
TryAgain == Clicked("connect again") /\ ~offline /\ secret /\ Connect /\ UNCHANGED secret

(* relay.recipient resolves, and the flow begins.                          *)
Claims(c) ==
  /\ calls[c] = "claiming" /\ c \notin aborted
  /\ claimed' = TRUE /\ slow' = c /\ flow' = c /\ calls' = [calls EXCEPT ![c] = "pairing"]
  /\ UNCHANGED <<view, typed, secret, controller, aborted, share, world>>

SlowFires ==
  /\ slow # 0 /\ slow' = 0
  /\ Dispatch("slow")
  /\ UNCHANGED <<typed, secret, claimed, controller, calls, aborted, flow, share, world>>

(* pairing.pair resolves with the three check words.                       *)
Pairs(c) ==
  /\ calls[c] = "pairing" /\ c \notin aborted
  /\ slow' = 0 /\ secret' = FALSE /\ calls' = [calls EXCEPT ![c] = "paired"]
  /\ screen' = (IF Applies("paired") THEN "r12" ELSE screen)
  /\ words' = (IF Applies("paired") THEN c ELSE words)
  /\ UNCHANGED <<offline, received, typed, claimed, controller, aborted, flow, share, world>>

(* classifyPairingFailure(error, claimed); the kind "cancelled" comes only *)
(* from the page's own abort.                                              *)
Classify(error, isClaimed) ==
  CASE error = "expired" -> "expired"
    [] error = "refused" /\ ~isClaimed -> "claim-refused"
    [] error = "plain" /\ isClaimed -> "wrong-words"
    [] OTHER -> "network"

(* connect()'s catch.                                                      *)
CallFails(c, error) ==
  /\ calls[c] \in {"claiming", "pairing"} /\ c \notin aborted
  /\ error = "expired" => late
  /\ slow' = 0 /\ calls' = [calls EXCEPT ![c] = "over"]
  /\ secret' = (secret /\ Classify(error, claimed) # "wrong-words")
  /\ Dispatch(Classify(error, claimed))
  /\ UNCHANGED <<typed, claimed, controller, aborted, flow, share, world>>

(* The same in a call that was aborted, at some later time.                *)
CallAborted(c) ==
  /\ calls[c] \in {"claiming", "pairing"} /\ c \in aborted
  /\ slow' = 0 /\ calls' = [calls EXCEPT ![c] = "over"]
  /\ UNCHANGED <<view, typed, secret, claimed, controller, aborted, flow, share, world>>

(* The flow's onState: "expired".                                          *)
FlowExpires ==
  /\ flow # 0 /\ late
  /\ Dispatch("expired")
  /\ UNCHANGED <<typed, pairing, share, world>>

(* onCancelConnect(), the Cancel of three screens.                         *)
CancelConnect ==
  /\ Clicked("cancel connect")
  /\ StopFlow
  /\ \/ ~claimed /\ screen = "r6" /\ Dispatch("back") /\ UNCHANGED secret
     \/ (claimed \/ screen # "r6") /\ secret' = FALSE /\ Dispatch("cancel")
  /\ UNCHANGED <<typed, claimed, controller, calls, descriptor, told, file, url, handed, world>>

(* The check words differ: onNo().                                         *)
No ==
  /\ Clicked("no")
  /\ flow' = 0 /\ secret' = FALSE
  /\ Dispatch("no")
  /\ UNCHANGED <<typed, claimed, controller, calls, aborted, slow, share, world>>

(* onYes(): the flow is verified and receive() is on its way.              *)
Yes ==
  /\ Clicked("yes") /\ flow # 0 /\ controller # 0
  /\ calls' = [calls EXCEPT ![controller] = "receiving"]
  /\ Dispatch("yes")
  /\ UNCHANGED <<typed, secret, claimed, controller, aborted, flow, slow, share, world>>

(* receive() resolves and parseShareDescriptor accepts: the channel is     *)
(* kept for the reply.  The kit lets no flow receive past its deadline.    *)
Details(c) ==
  /\ calls[c] = "receiving" /\ c \notin aborted /\ ~late
  /\ calls' = [calls EXCEPT ![c] = "over"]
  /\ descriptor' = TRUE /\ flow' = 0 /\ reply' = "kept"
  /\ Dispatch("details")
  /\ UNCHANGED <<typed, secret, claimed, controller, aborted, slow, told, file, url, handed, world>>

(* receive() rejects, or the details are refused; the flow is disposed.    *)
NoDetails(c, why) ==
  /\ calls[c] = "receiving"
  /\ calls' = [calls EXCEPT ![c] = "over"]
  /\ why = "expired" => late
  /\ IF c \in aborted THEN UNCHANGED view ELSE Dispatch(why)
  /\ UNCHANGED <<typed, secret, claimed, controller, aborted, flow, slow, share, world>>

(***************************************************************************)
(* The download                                                            *)
(***************************************************************************)

(* onDownload(), up to its first await.                                    *)
Download ==
  /\ Clicked("download") /\ descriptor /\ ~offline /\ controller < Tries
  /\ controller' = controller + 1
  /\ \/ /\ gone
        /\ calls' = [calls EXCEPT ![controller + 1] = "over"]
        /\ CloseReply /\ screen' = "r20" /\ received' = 0 /\ UNCHANGED <<offline, words>>
     \/ /\ ~gone
        /\ calls' = [calls EXCEPT ![controller + 1] = "fetching"]
        /\ Dispatch("download") /\ UNCHANGED reply
  /\ left' = FALSE
  /\ UNCHANGED <<typed, secret, claimed, aborted, flow, slow, descriptor, told, file, url, handed, room, late, gone>>

(* Mutant: chunks of a cancelled fetch still count.                        *)
Streams_Deaf(c) == calls[c] = "fetching"

(* fetchVerifiedBlob still reads: an abort ends the stream before onProgress. *)
Streams(c) == calls[c] = "fetching" /\ c \notin aborted

Progress(c) ==
  /\ Streams(c) /\ screen = "r16"
  /\ received' = c
  /\ UNCHANGED <<screen, offline, words, typed, pairing, share, world>>

(* fetchVerifiedShare resolves.                                            *)
Fetched(c) ==
  /\ calls[c] = "fetching" /\ c \notin aborted
  /\ calls' = [calls EXCEPT ![c] = "opening"]
  /\ Dispatch("checking")
  /\ UNCHANGED <<typed, secret, claimed, controller, aborted, flow, slow, share, world>>

(* It rejects; so does decryptPrivacyEnvelope, always as damaged.          *)
DownloadFails(c, why) ==
  /\ calls[c] = "fetching" \/ (calls[c] = "opening" /\ why = "damaged")
  /\ c \notin aborted
  /\ calls' = [calls EXCEPT ![c] = "over"]
  /\ IF why = "missing" THEN CloseReply ELSE UNCHANGED reply
  /\ Dispatch(why)
  /\ UNCHANGED <<typed, secret, claimed, controller, aborted, flow, slow, descriptor, told, file, url, handed, world>>

DownloadAborted(c) ==
  /\ calls[c] \in {"fetching", "opening"} /\ c \in aborted
  /\ calls' = [calls EXCEPT ![c] = "over"]
  /\ UNCHANGED <<view, typed, secret, claimed, controller, aborted, flow, slow, share, world>>

(* saveFile(): the browser takes the object URL, or the click throws.  A   *)
(* URL made once is used again, also when pagehide revoked it.             *)
SaveFile(ok) ==
  /\ url' = IF url = "none" /\ ok THEN "live" ELSE url
  /\ handed' = (handed \/ (ok /\ url # "revoked"))

(* send() is neither started nor closed.                                   *)
Sendable == reply = "kept"

(* tellSenderSaved().                                                      *)
TellSenderSaved ==
  /\ reply' = IF Sendable THEN "sending" ELSE reply
  /\ told' = IF Sendable THEN told + 1 ELSE told

(* Mutant: the sender is told as soon as the file is open.                 *)
Opened_Early(c, ok) ==
  /\ calls[c] = "opening" /\ c \notin aborted
  /\ calls' = [calls EXCEPT ![c] = "over"]
  /\ file' = c /\ SaveFile(ok) /\ TellSenderSaved
  /\ Dispatch(IF ok THEN "saved" ELSE "save-failed")
  /\ UNCHANGED <<typed, secret, claimed, controller, aborted, flow, slow, descriptor, world>>

(* decryptPrivacyEnvelope resolves with a file of the right size.          *)
Opened(c, ok) ==
  /\ calls[c] = "opening" /\ c \notin aborted
  /\ calls' = [calls EXCEPT ![c] = "over"]
  /\ file' = c /\ SaveFile(ok)
  /\ IF ok THEN TellSenderSaved ELSE UNCHANGED <<reply, told>>
  /\ Dispatch(IF ok THEN "saved" ELSE "save-failed")
  /\ UNCHANGED <<typed, secret, claimed, controller, aborted, flow, slow, descriptor, world>>

(* onSaveAgain().                                                          *)
SaveAgain(ok) ==
  /\ Clicked("save again") /\ file # 0
  /\ SaveFile(ok)
  /\ IF ok THEN TellSenderSaved ELSE UNCHANGED <<reply, told>>
  /\ Dispatch(IF ok THEN "save-again" ELSE "save-failed")
  /\ UNCHANGED <<typed, pairing, descriptor, file, world>>

(* channel.reply settles, one way or the other, and the channel is closed. *)
ReplySettles ==
  /\ reply = "sending" /\ reply' = "closed"
  /\ UNCHANGED <<view, typed, pairing, descriptor, told, file, url, handed, world>>

CancelDownload ==
  /\ Clicked("cancel download")
  /\ aborted' = Aborting
  /\ Dispatch("cancel")
  /\ UNCHANGED <<typed, secret, claimed, controller, calls, flow, slow, share, world>>

(***************************************************************************)
(* Time and the page                                                       *)
(***************************************************************************)

(* pagehide; the page may come back from the back-forward cache.           *)
PageHides ==
  /\ StopFlow /\ left' = TRUE
  /\ url' = (IF url = "live" THEN "revoked" ELSE url)
  /\ UNCHANGED <<view, typed, secret, claimed, controller, calls, descriptor, told, file, handed, room, late, gone>>

ClockPasses ==
  /\ \/ ~late /\ late' = TRUE /\ UNCHANGED gone
     \/ late /\ ~gone /\ gone' = TRUE /\ UNCHANGED late
  /\ UNCHANGED <<view, typed, pairing, share, room, left>>

(* Mutant: the countdown stops while the details are awaited.              *)
CountsDown_NotAwaiting == room = "open" /\ screen \in BeforeFile \ {"r14"}

CountsDown == room = "open" /\ screen \in BeforeFile

(* The countdown's tick after the link has run out.                        *)
Countdown ==
  /\ CountsDown /\ late
  /\ StopFlow /\ secret' = FALSE
  /\ Dispatch("expired")
  /\ UNCHANGED <<typed, claimed, controller, calls, descriptor, told, file, url, handed, world>>

Settling(c) ==
  \/ Fetched(c)
  \/ \E why \in {"missing", "unavailable", "damaged"} : DownloadFails(c, why)
  \/ \E ok \in BOOLEAN : Opened(c, ok)

Next ==
  \/ Start \/ Online \/ Suggested \/ Continue \/ TryAgain \/ SlowFires \/ FlowExpires
  \/ \E t \in Typed : Types(t)
  \/ \E c \in Calls : Claims(c) \/ Pairs(c) \/ CallAborted(c) \/ Details(c) \/ Progress(c)
                      \/ DownloadAborted(c) \/ Settling(c)
  \/ \E c \in Calls, error \in {"refused", "plain", "transport", "expired"} : CallFails(c, error)
  \/ \E c \in Calls, why \in {"too-big", "invalid-details", "network", "expired"} : NoDetails(c, why)
  \/ CancelConnect \/ No \/ Yes \/ Download \/ ReplySettles \/ CancelDownload
  \/ \E ok \in BOOLEAN : SaveAgain(ok)
  \/ PageHides \/ ClockPasses \/ Countdown

(* Clocks run, the countdown ticks, and a fetch or a decryption ends: the  *)
(* fetch has a deadline and the decryption a bounded number of records.    *)
Fairness ==
  /\ WF_vars(ClockPasses) /\ WF_vars(Countdown)
  /\ \A c \in Calls : WF_vars(Settling(c))

Spec == Init /\ [][Next]_vars /\ Fairness

(***************************************************************************)
(* Properties                                                              *)
(***************************************************************************)

(* "Called only once the file has been decrypted, matched its size and     *)
(* been handed to the browser to save", "at most once ... the same bytes   *)
(* are never sent twice" (tellSenderSaved, createDownloadedReply): through *)
(* failed saves, retried downloads and repeated clicks.                    *)
ReplyMeansSaved == told <= 1 /\ (told = 1 => handed /\ file # 0)

(* The channel kept open for the reply is kept only while a file may still *)
(* be saved, and it is never left open by an ending.                       *)
ChannelFits ==
  reply = "kept" => descriptor /\ screen \in {"r15", "r16", "r17", "r19", "r21", "r23"}

(* A screen that says to wait has the unaborted newest call behind it.     *)
ScreensAreLive ==
  ~left =>
    /\ screen \in Pairing => calls[controller] \in {"claiming", "pairing"} /\ controller \notin aborted
    /\ screen = "r14" => calls[controller] = "receiving" /\ flow = controller
    /\ screen = "r16" => calls[controller] = "fetching" /\ controller \notin aborted
    /\ screen = "r17" => calls[controller] = "opening" /\ controller \notin aborted

(* Yes confirms the words on the screen, and the progress shown is that of *)
(* the download in progress, however many were cancelled before.           *)
ShowsItsOwn ==
  /\ screen = "r12" => flow = words \/ (left /\ flow = 0)
  /\ screen = "r16" => received \in {0, controller}

(* A call that was cancelled or replaced never moves the screen.           *)
AbortedCallsAreMute == [][\A c \in aborted : calls'[c] # calls[c] => view' = view]_vars

(* A link that has run out ends every screen before the file.              *)
EveryLinkEnds == (room = "open" /\ screen \in BeforeFile) ~> (screen \notin BeforeFile)

(* A download ends on a screen with an answer, unless the page was hidden. *)
DownloadsSettle == (screen \in Loading /\ ~left) ~> (screen \notin Loading \/ left)

(* The screens from the share details on.                                  *)
Held == {"r15", "r16", "r17", "r18", "r19", "r20", "r21", "r23"}
Running == {"claiming", "pairing", "receiving", "fetching", "opening"}

(* Every call that still awaits something is the newest or aborted; a flow *)
(* is the newest call's; a call that runs is the one its screen is about,  *)
(* unless the link ran out under it; and a hidden page has aborted it.     *)
CallsInv ==
  /\ \A c \in Calls : c > controller => calls[c] = "idle" /\ c \notin aborted
  /\ \A c \in Calls : calls[c] \in Running => c = controller \/ c \in aborted
  /\ flow # 0 => flow = controller /\ controller \notin aborted /\ calls[controller] # "claiming"
  /\ left => controller = 0 \/ controller \in aborted
  /\ room = "loading" => screen = "r5" /\ controller = 0
  /\ controller # 0 /\ controller \notin aborted =>
       /\ calls[controller] = "claiming" => screen \in Pairing
       /\ calls[controller] = "pairing" => flow = controller /\ screen \in Pairing \cup {"r4"}
       /\ calls[controller] = "receiving" => screen = "r14" \/ (screen = "r4" /\ late)
       /\ calls[controller] = "fetching" => screen = "r16"
       /\ calls[controller] = "opening" => screen = "r17"

(* The share details are known exactly on the screens from them on: before *)
(* there is nothing to save, and after no pairing.  A channel kept for the *)
(* reply was not used, and the object URL is then good.                    *)
ShareInv ==
  /\ descriptor <=> screen \in Held
  /\ ~descriptor => url = "none" /\ file = 0 /\ ~handed /\ told = 0 /\ reply = "none"
  /\ descriptor => flow = 0
  /\ reply = "kept" => told = 0 /\ url # "revoked"
  /\ told <= 1 /\ (told = 1 => handed /\ file # 0)

(* A page that waits has something to wait for, keeps the reply channel    *)
(* only while the file may still be saved, and shows the words and the     *)
(* progress of its own call.  With the two parts above it is inductive.    *)
PageFits == TypeOK /\ ChannelFits /\ ScreensAreLive /\ ShowsItsOwn /\ CallsInv /\ ShareInv

(* Calls end: a cancelled one without a trace on the screen, a download    *)
(* with an answer, and all that comes before it with the link.             *)
CallsEnd == AbortedCallsAreMute /\ EveryLinkEnds /\ DownloadsSettle
=============================================================================
