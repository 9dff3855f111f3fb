----------------------------- MODULE GetPageProofs -----------------------------
(***************************************************************************)
(* Proofs about what a receiving page does: GetPage, for any number of     *)
(* calls, and the Envelope it opens, for any sizes.                        *)
(*                                                                         *)
(* PageFits is inductive: TypeOK alone, and the rest with the help of one  *)
(* another.  For the envelope the sums over records are folds of which all *)
(* but at most two terms are alike; with them an envelope as it was made   *)
(* is laid out as it was announced and opens, and of anything else only    *)
(* records of the source can be read.                                      *)
(***************************************************************************)
EXTENDS GetPage, Envelope, FiniteSetTheorems, TLAPS

Events ==
  {"continue", "slow", "back", "claim-refused", "wrong-words", "paired", "network", "yes", "no", "details",
   "invalid-details", "too-big", "expired", "download", "checking", "saved", "save-failed", "save-again",
   "missing", "unavailable", "damaged", "cancel"}

CallStates == {"idle", "claiming", "pairing", "paired", "receiving", "fetching", "opening", "over"}

(* What the parts an action is made of do to the types.                    *)
LEMMA DispatchType ==
  ASSUME TypeOK, NEW e \in Events, Dispatch(e)
  PROVE  screen' \in Screens /\ words' \in 0..Tries /\ received' \in 0..Tries /\ offline' \in BOOLEAN
  <1>1. Target(e) \in Screens
    BY DEF Events, Target, Screens, BeforeFile, Loading
  <1>2. screen' \in Screens
    BY <1>1 DEF TypeOK, Dispatch
  <1>3. words' \in 0..Tries /\ received' \in 0..Tries
    BY TriesIsNat DEF TypeOK, Dispatch
  <1> QED
    BY <1>2, <1>3 DEF TypeOK, Dispatch

LEMMA StopFlowType ==
  ASSUME TypeOK, StopFlow
  PROVE  slow' \in 0..Tries /\ aborted' \subseteq Calls /\ flow' \in 0..Tries /\ reply' \in {"none", "kept", "sending", "closed"}
  BY TriesIsNat DEF TypeOK, StopFlow, Aborting, Calls, CloseReply

(* Every step keeps the types; the count of replies, because the channel   *)
(* that is kept was not used.                                              *)
LEMMA TypeStep == TypeOK /\ ShareInv /\ [Next]_vars => TypeOK'
  <1> SUFFICES ASSUME TypeOK, ShareInv, [Next]_vars PROVE TypeOK'
    OBVIOUS
  <1> DEFINE ViewType == screen \in Screens /\ words \in 0..Tries /\ received \in 0..Tries /\ offline \in BOOLEAN
             FlowType == /\ slow \in 0..Tries /\ aborted \subseteq Calls /\ flow \in 0..Tries
                         /\ reply \in {"none", "kept", "sending", "closed"}
  <1> USE TriesIsNat DEF view, pairing, share, world, Calls
  <1>1. CASE Start
    BY <1>1 DEF Start, TypeOK, Screens, BeforeFile, Loading
  <1>2. CASE Online
    BY <1>2 DEF Online, TypeOK
  <1>3. CASE Suggested
    BY <1>3 DEF Suggested, TypeOK, Typed
  <1>4. ASSUME Connect, secret' \in BOOLEAN PROVE TypeOK'
    <2>1. ViewType'
      BY <1>4, DispatchType DEF Events, Connect
    <2>2. FlowType'
      BY <1>4, StopFlowType DEF Connect
    <2>3. claimed' \in BOOLEAN /\ left' \in BOOLEAN
      BY <1>4 DEF Connect
    <2>4. controller' \in 0..Tries /\ calls' \in [Calls -> CallStates]
      BY <1>4 DEF Connect, TypeOK, CallStates
    <2> QED
      BY <1>4, <2>1, <2>2, <2>3, <2>4 DEF Connect, TypeOK, CallStates
  <1>5. CASE Continue
    BY <1>4, <1>5 DEF Continue
  <1>6. CASE TryAgain
    BY <1>4, <1>6 DEF TryAgain, TypeOK
  <1>7. CASE SlowFires
    <2>1. ViewType'
      BY <1>7, DispatchType DEF Events, SlowFires
    <2> QED
      BY <1>7, <2>1 DEF SlowFires, TypeOK
  <1>8. CASE FlowExpires
    <2>1. ViewType'
      BY <1>8, DispatchType DEF Events, FlowExpires
    <2> QED
      BY <1>8, <2>1 DEF FlowExpires, TypeOK
  <1>9. CASE CancelConnect
    <2>1. ViewType'
      BY <1>9, DispatchType DEF Events, CancelConnect
    <2>2. FlowType'
      BY <1>9, StopFlowType DEF CancelConnect
    <2>3. secret' \in BOOLEAN
      BY <1>9 DEF CancelConnect, TypeOK
    <2> QED
      BY <1>9, <2>1, <2>2, <2>3 DEF CancelConnect, TypeOK
  <1>10. CASE No
    <2>1. ViewType'
      BY <1>10, DispatchType DEF Events, No
    <2>2. secret' \in BOOLEAN
      BY <1>10 DEF No
    <2>3. flow' \in 0..Tries
      BY <1>10 DEF No
    <2> QED
      BY <1>10, <2>1, <2>2, <2>3 DEF No, TypeOK
  <1>11. CASE Yes
    <2>1. ViewType'
      BY <1>11, DispatchType DEF Events, Yes
    <2> QED
      BY <1>11, <2>1 DEF Yes, TypeOK
  <1>12. CASE Download
    <2>1. ViewType'
      <3>1. CASE gone
        BY <1>12, <3>1 DEF Download, TypeOK, Screens
      <3>2. CASE ~gone
        BY <1>12, <3>2, DispatchType DEF Events, Download
      <3> QED
        BY <3>1, <3>2
    <2>2. calls' \in [Calls -> CallStates] /\ controller' \in 0..Tries
      BY <1>12 DEF Download, TypeOK, CallStates
    <2>3. reply' \in {"none", "kept", "sending", "closed"} /\ left' \in BOOLEAN
      BY <1>12 DEF Download, TypeOK, CloseReply
    <2> QED
      BY <1>12, <2>1, <2>2, <2>3 DEF Download, TypeOK, CallStates
  <1>13. CASE ReplySettles
    BY <1>13 DEF ReplySettles, TypeOK
  <1>14. CASE CancelDownload
    <2>1. ViewType'
      BY <1>14, DispatchType DEF Events, CancelDownload
    <2>2. controller \in 0..Tries /\ aborted \subseteq Calls /\ aborted' = Aborting
      BY <1>14 DEF CancelDownload, TypeOK
    <2>3. aborted' \subseteq Calls
      BY <2>2 DEF Aborting
    <2> QED
      BY <1>14, <2>1, <2>3 DEF CancelDownload, TypeOK
  <1>15. CASE PageHides
    <2>1. FlowType'
      BY <1>15, StopFlowType DEF PageHides
    <2>2. url' \in {"none", "live", "revoked"} /\ left' \in BOOLEAN
      BY <1>15 DEF PageHides, TypeOK
    <2> QED
      BY <1>15, <2>1, <2>2 DEF PageHides, TypeOK
  <1>16. CASE ClockPasses
    BY <1>16 DEF ClockPasses, TypeOK
  <1>17. CASE Countdown
    <2>1. ViewType'
      BY <1>17, DispatchType DEF Events, Countdown
    <2>2. FlowType'
      BY <1>17, StopFlowType DEF Countdown
    <2>3. secret' \in BOOLEAN
      BY <1>17 DEF Countdown
    <2> QED
      BY <1>17, <2>1, <2>2, <2>3 DEF Countdown, TypeOK
  <1>18. ASSUME NEW t \in Typed, Types(t) PROVE TypeOK'
    BY <1>18 DEF Types, TypeOK
  <1>19. ASSUME NEW c \in Calls, Claims(c) PROVE TypeOK'
    BY <1>19 DEF Claims, TypeOK
  <1>20. ASSUME NEW c \in Calls, Pairs(c) PROVE TypeOK'
    <2>1. screen' \in Screens /\ words' \in 0..Tries
      BY <1>20 DEF Pairs, TypeOK, Screens, BeforeFile
    <2>2. secret' \in BOOLEAN
      BY <1>20 DEF Pairs
    <2> QED
      BY <1>20, <2>1, <2>2 DEF Pairs, TypeOK
  <1>21. ASSUME NEW c \in Calls, CallAborted(c) PROVE TypeOK'
    BY <1>21 DEF CallAborted, TypeOK
  <1>22. ASSUME NEW c \in Calls, Details(c) PROVE TypeOK'
    <2>1. ViewType'
      BY <1>22, DispatchType DEF Events, Details
    <2> QED
      BY <1>22, <2>1 DEF Details, TypeOK
  <1>23. ASSUME NEW c \in Calls, Progress(c) PROVE TypeOK'
    BY <1>23 DEF Progress, TypeOK
  <1>24. ASSUME NEW c \in Calls, DownloadAborted(c) PROVE TypeOK'
    BY <1>24 DEF DownloadAborted, TypeOK
  <1>25. ASSUME NEW c \in Calls, Fetched(c) PROVE TypeOK'
    <2>1. ViewType'
      BY <1>25, DispatchType DEF Events, Fetched
    <2> QED
      BY <1>25, <2>1 DEF Fetched, TypeOK
  <1>26. ASSUME NEW c \in Calls, NEW why \in {"missing", "unavailable", "damaged"}, DownloadFails(c, why) PROVE TypeOK'
    <2>1. ViewType'
      BY <1>26, DispatchType DEF Events, DownloadFails
    <2>2. reply' \in {"none", "kept", "sending", "closed"}
      BY <1>26 DEF DownloadFails, CloseReply, TypeOK
    <2> QED
      BY <1>26, <2>1, <2>2 DEF DownloadFails, TypeOK
  <1>27. ASSUME NEW ok \in BOOLEAN, SaveFile(ok) PROVE url' \in {"none", "live", "revoked"} /\ handed' \in BOOLEAN
    BY <1>27 DEF SaveFile, TypeOK
  <1>28. TellSenderSaved => reply' \in {"none", "kept", "sending", "closed"} /\ told' \in 0..2
    BY DEF TellSenderSaved, Sendable, TypeOK, ShareInv
  <1>29. ASSUME NEW c \in Calls, NEW ok \in BOOLEAN, Opened(c, ok) PROVE TypeOK'
    <2>1. ViewType'
      BY <1>29, DispatchType DEF Events, Opened
    <2>2. url' \in {"none", "live", "revoked"} /\ handed' \in BOOLEAN
      BY <1>27, <1>29 DEF Opened
    <2>3. reply' \in {"none", "kept", "sending", "closed"} /\ told' \in 0..2
      BY <1>28, <1>29 DEF Opened, TypeOK
    <2> QED
      BY <1>29, <2>1, <2>2, <2>3 DEF Opened, TypeOK
  <1>30. ASSUME NEW ok \in BOOLEAN, SaveAgain(ok) PROVE TypeOK'
    <2>1. ViewType'
      BY <1>30, DispatchType DEF Events, SaveAgain
    <2>2. url' \in {"none", "live", "revoked"} /\ handed' \in BOOLEAN
      BY <1>27, <1>30 DEF SaveAgain
    <2>3. reply' \in {"none", "kept", "sending", "closed"} /\ told' \in 0..2
      BY <1>28, <1>30 DEF SaveAgain, TypeOK
    <2> QED
      BY <1>30, <2>1, <2>2, <2>3 DEF SaveAgain, TypeOK
  <1>31. ASSUME NEW c \in Calls, NEW error \in {"refused", "plain", "transport", "expired"}, CallFails(c, error)
         PROVE  TypeOK'
    <2>1. Classify(error, claimed) \in Events
      BY DEF Classify, Events
    <2>2. ViewType'
      BY <1>31, <2>1, DispatchType DEF CallFails
    <2>3. secret' \in BOOLEAN
      BY <1>31 DEF CallFails
    <2> QED
      BY <1>31, <2>2, <2>3 DEF CallFails, TypeOK
  <1>32. ASSUME NEW c \in Calls, NEW why \in {"too-big", "invalid-details", "network", "expired"}, NoDetails(c, why)
         PROVE  TypeOK'
    <2>1. ViewType'
      BY <1>32, DispatchType DEF Events, NoDetails, TypeOK
    <2> QED
      BY <1>32, <2>1 DEF NoDetails, TypeOK
  <1>33. CASE UNCHANGED vars
    BY <1>33 DEF vars, TypeOK
  <1> QED
    BY <1>1, <1>2, <1>3, <1>5, <1>6, <1>7, <1>8, <1>9, <1>10, <1>11, <1>12, <1>13, <1>14, <1>15, <1>16, <1>17,
       <1>18, <1>19, <1>20, <1>21, <1>22, <1>23, <1>24, <1>25, <1>26, <1>29, <1>30, <1>31, <1>32, <1>33
    DEF Next, Settling

(* Every step keeps the other parts of PageFits, each with the rest.       *)
LEMMA PageStep == PageFits /\ [Next]_vars => PageFits'
  <1> SUFFICES ASSUME PageFits, [Next]_vars PROVE PageFits'
    OBVIOUS
  <1> DEFINE Rest == ChannelFits /\ ScreensAreLive /\ ShowsItsOwn /\ CallsInv /\ ShareInv
  <1>0. TypeOK'
    BY TypeStep DEF PageFits
  <1> SUFFICES Rest'
    BY <1>0 DEF PageFits
  <1> USE TriesIsNat DEF PageFits, TypeOK, ChannelFits, ScreensAreLive, ShowsItsOwn, CallsInv, ShareInv,
                         Held, Running, Screens, BeforeFile, Loading, Pairing, Calls, FailsOn,
                         view, pairing, share, world, Dispatch, Applies, Where, Target, Forgets,
                         StopFlow, Aborting, CloseReply, Clicked, Shown
  <1>1. CASE Start
    BY <1>1 DEF Start
  <1>2. CASE Online
    BY <1>2 DEF Online
  <1>3. CASE Suggested
    BY <1>3 DEF Suggested
  <1>4. CASE Continue
    BY <1>4 DEF Continue, Connect
  <1>5. CASE TryAgain
    BY <1>5 DEF TryAgain, Connect
  <1>6. CASE SlowFires
    BY <1>6 DEF SlowFires
  <1>7. CASE FlowExpires
    BY <1>7 DEF FlowExpires
  <1>8. CASE CancelConnect
    BY <1>8 DEF CancelConnect
  <1>9. CASE No
    BY <1>9 DEF No
  <1>10. CASE Yes
    BY <1>10 DEF Yes
  <1>11. CASE Download
    BY <1>11 DEF Download
  <1>12. CASE ReplySettles
    BY <1>12 DEF ReplySettles
  <1>13. CASE CancelDownload
    BY <1>13 DEF CancelDownload
  <1>14. CASE PageHides
    BY <1>14 DEF PageHides
  <1>15. CASE ClockPasses
    BY <1>15 DEF ClockPasses
  <1>16. CASE Countdown
    BY <1>16 DEF Countdown, CountsDown
  <1>17. ASSUME NEW t \in Typed, Types(t) PROVE Rest'
    BY <1>17 DEF Types
  <1>18. ASSUME NEW c \in Calls, Claims(c) PROVE Rest'
    BY <1>18 DEF Claims
  <1>19. ASSUME NEW c \in Calls, Pairs(c) PROVE Rest'
    BY <1>19 DEF Pairs
  <1>20. ASSUME NEW c \in Calls, CallAborted(c) PROVE Rest'
    BY <1>20 DEF CallAborted
  <1>21. ASSUME NEW c \in Calls, Details(c) PROVE Rest'
    BY <1>21 DEF Details
  <1>22. ASSUME NEW c \in Calls, Progress(c) PROVE Rest'
    BY <1>22 DEF Progress, Streams
  <1>23. ASSUME NEW c \in Calls, DownloadAborted(c) PROVE Rest'
    BY <1>23 DEF DownloadAborted
  <1>24. ASSUME NEW c \in Calls, Fetched(c) PROVE Rest'
    BY <1>24 DEF Fetched
  <1>25. ASSUME NEW c \in Calls, NEW why \in {"missing", "unavailable", "damaged"}, DownloadFails(c, why) PROVE Rest'
    BY <1>25 DEF DownloadFails
  <1>26. ASSUME NEW c \in Calls, NEW ok \in BOOLEAN, Opened(c, ok) PROVE Rest'
    BY <1>26 DEF Opened, SaveFile, TellSenderSaved, Sendable
  <1>27. ASSUME NEW ok \in BOOLEAN, SaveAgain(ok) PROVE Rest'
    BY <1>27 DEF SaveAgain, SaveFile, TellSenderSaved, Sendable
  <1>28. ASSUME NEW c \in Calls, NEW error \in {"refused", "plain", "transport", "expired"}, CallFails(c, error) PROVE Rest'
    BY <1>28 DEF CallFails, Classify
  <1>29. ASSUME NEW c \in Calls, NEW why \in {"too-big", "invalid-details", "network", "expired"}, NoDetails(c, why) PROVE Rest'
    BY <1>29 DEF NoDetails
  <1>30. CASE UNCHANGED vars
    BY <1>30 DEF vars
  <1> QED
    BY <1>1, <1>2, <1>3, <1>4, <1>5, <1>6, <1>7, <1>8, <1>9, <1>10, <1>11, <1>12, <1>13, <1>14, <1>15, <1>16, <1>17, <1>18, <1>19, <1>20, <1>21, <1>22, <1>23, <1>24, <1>25, <1>26, <1>27, <1>28, <1>29, <1>30
    DEF Next, Settling

LEMMA PageInit == Init => PageFits
  <1> SUFFICES ASSUME Init PROVE PageFits
    OBVIOUS
  <1>1. screen \in Screens /\ typed \in Typed
    BY DEF Init, Screens, BeforeFile, Typed
  <1>2. /\ {words, received, controller, flow, slow, file} \subseteq 0..Tries /\ told \in 0..2 /\ aborted \subseteq Calls
        /\ calls \in [Calls -> {"idle", "claiming", "pairing", "paired", "receiving", "fetching", "opening", "over"}]
    BY TriesIsNat DEF Init
  <1>3. TypeOK
    BY <1>1, <1>2 DEF Init, TypeOK
  <1>4. CallsInv
    BY TriesIsNat DEF Init, CallsInv, Calls, Running
  <1>5. ChannelFits /\ ScreensAreLive /\ ShowsItsOwn /\ ShareInv
    BY DEF Init, ChannelFits, ScreensAreLive, ShowsItsOwn, ShareInv, Pairing, Held
  <1> QED
    BY <1>3, <1>4, <1>5 DEF PageFits

(* The recipient's page never waits on a call that cannot move it on,      *)
(* keeps the reply channel only while the file may still be saved, and     *)
(* shows the words and the progress of its own call, however many calls    *)
(* were started, cancelled and replaced (connect(), onYes(), onDownload()  *)
(* and stopFlow() of src/get/main.ts with the reducer of state.ts).        *)
THEOREM PageAlwaysFits == Spec => []PageFits
  BY PageInit, PageStep, PTL DEF Spec

(* The sender is told at most once, and only of a file that was decrypted  *)
(* and handed to the browser (tellSenderSaved, createDownloadedReply).     *)
THEOREM OnlySavedIsTold == Spec => []ReplyMeansSaved
  <1>1. PageFits => ReplyMeansSaved
    BY DEF PageFits, ShareInv, ReplyMeansSaved
  <1> QED
    BY <1>1, PageAlwaysFits, PTL

(* A call that was cancelled or replaced never moves the screen (the       *)
(* checks of signal.aborted after each await of src/get/main.ts).          *)
THEOREM AbortedStayMute == Spec => AbortedCallsAreMute
  <1>1. PageFits /\ [Next]_vars => [\A c \in aborted : calls'[c] # calls[c] => view' = view]_vars
    <2> SUFFICES ASSUME PageFits, Next, NEW c \in aborted, calls'[c] # calls[c] PROVE view' = view
      BY DEF vars
    <2>0. c \in Calls /\ calls \in [Calls -> CallStates] /\ controller \in 0..Tries
      BY DEF PageFits, TypeOK, CallStates
    <2>1. controller \in Nat /\ c \in Nat /\ c <= controller
      BY <2>0, TriesIsNat DEF PageFits, CallsInv, Calls
    <2> USE DEF pairing, share, world
    <2>2. ASSUME controller' = controller + 1 /\ \E x : calls' = [calls EXCEPT ![controller + 1] = x] PROVE FALSE
      <3>1. c # controller + 1
        BY <2>1
      <3> QED
        BY <2>0, <2>2, <3>1
    <2>3. ~Continue /\ ~TryAgain /\ ~Download
      BY <2>2 DEF Continue, TryAgain, Connect, Download
    <2>4. ~Yes
      <3> SUFFICES ASSUME Yes PROVE FALSE
        OBVIOUS
      <3>1. flow = controller /\ controller \notin aborted
        BY DEF Yes, PageFits, CallsInv
      <3> QED
        BY <2>0, <3>1 DEF Yes
    <2>5. ASSUME NEW d \in Calls PROVE ~Claims(d) /\ ~Pairs(d) /\ ~Details(d) /\ ~Fetched(d)
      BY <2>0 DEF Claims, Pairs, Details, Fetched
    <2>6. ASSUME NEW d \in Calls, NEW x PROVE ~CallFails(d, x) /\ ~DownloadFails(d, x) /\ ~Opened(d, x)
      BY <2>0 DEF CallFails, DownloadFails, Opened
    <2>7. ASSUME NEW d \in Calls, CallAborted(d) \/ DownloadAborted(d) PROVE view' = view
      BY <2>7 DEF CallAborted, DownloadAborted
    <2>8. ASSUME NEW d \in Calls, NEW x, NoDetails(d, x) PROVE view' = view
      BY <2>0, <2>8 DEF NoDetails
    <2> QED
      BY <2>3, <2>4, <2>5, <2>6, <2>7, <2>8
      DEF Next, Settling, Start, Online, Suggested, SlowFires, FlowExpires, Types, Progress, CancelConnect, No,
          ReplySettles, CancelDownload, SaveAgain, PageHides, ClockPasses, Countdown
  <1> QED
    BY <1>1, PageAlwaysFits, PTL DEF Spec, AbortedCallsAreMute


(***************************************************************************)
(* Sums with at most two terms that are not the usual one                  *)
(***************************************************************************)

(* The places where f is not the usual.                                    *)
Odd(f, S, usual) == {x \in S : f[x] # usual}

(* iter is the fold that MapThenSumSet makes over the subsets of T.        *)
IsFold(iter, f, usual, T) ==
  iter = [s \in SUBSET T |->
            IF s = {} THEN 0 ELSE f[CHOOSE x \in s : TRUE] - usual + iter[s \ {CHOOSE x \in s : TRUE}]]

(* Where there is such a fold, the sum is made with one.                   *)
LEMMA SumIsFold ==
  ASSUME NEW f, NEW S, NEW usual, NEW g, IsFold(g, f, usual, Odd(f, S, usual))
  PROVE  \E iter : /\ IsFold(iter, f, usual, Odd(f, S, usual))
                   /\ SumOver(f, S, usual) = Cardinality(S) * usual + iter[Odd(f, S, usual)]
  <1> USE DEF Odd
  <1> DEFINE T == {x \in S : f[x] # usual}
             I == CHOOSE iter : iter = [s \in SUBSET T |->
                    IF s = {} THEN 0 ELSE f[CHOOSE x \in s : TRUE] - usual + iter[s \ {CHOOSE x \in s : TRUE}]]
  <1>1. SumOver(f, S, usual) = Cardinality(S) * usual + I[T]
    BY DEF SumOver, MapThenSumSet, MapThenFoldSet
  <1>2. IsFold(I, f, usual, T)
    BY DEF IsFold
  <1> HIDE DEF I
  <1> QED BY <1>1, <1>2

(* The terms in T are those of a and b, or fewer.                          *)
Among(f, usual, T, a, b) == usual \in Int /\ a # b /\ T \subseteq {a, b} /\ f[a] \in Int /\ f[b] \in Int

(* What the fold is on the subsets of a set of at most two.                *)
LEMMA FoldOfTwo ==
  ASSUME NEW f, NEW usual, NEW T, NEW a, NEW b, Among(f, usual, T, a, b)
  PROVE  \E g : IsFold(g, f, usual, T)
  <1> USE DEF Among
  <1> DEFINE V(s) == (IF a \in s THEN f[a] - usual ELSE 0) + (IF b \in s THEN f[b] - usual ELSE 0)
             g == [s \in SUBSET T |-> V(s)]
             R == [s \in SUBSET T |-> IF s = {} THEN 0 ELSE f[CHOOSE x \in s : TRUE] - usual + g[s \ {CHOOSE x \in s : TRUE}]]
  <1>1. ASSUME NEW s \in SUBSET T PROVE V(s) = IF s = {} THEN 0 ELSE f[CHOOSE x \in s : TRUE] - usual + V(s \ {CHOOSE x \in s : TRUE})
    <2>1. CASE s = {}
      BY <2>1
    <2>2. CASE s # {}
      <3> DEFINE c == CHOOSE x \in s : TRUE
      <3>1. c \in s
        BY <2>2
      <3> HIDE DEF c
      <3>2. c = a \/ c = b
        BY <3>1
      <3>3. V(s) = f[c] - usual + V(s \ {c})
        BY <3>1, <3>2
      <3> QED BY <2>2, <3>3 DEF c
    <2> QED BY <2>1, <2>2
  <1>2. \A s \in SUBSET T : s \ {CHOOSE x \in s : TRUE} \in SUBSET T
    OBVIOUS
  <1>3. \A s \in SUBSET T : g[s] = R[s]
    <2> HIDE DEF V
    <2> QED BY <1>1, <1>2
  <1>4. g = R
    <2>1. g = [s \in SUBSET T |-> g[s]] /\ R = [s \in SUBSET T |-> R[s]]
      OBVIOUS
    <2> HIDE DEF g, R
    <2> QED BY <1>3, <2>1
  <1> QED BY <1>4 DEF IsFold

LEMMA FoldIs ==
  ASSUME NEW f, NEW usual, NEW T, NEW a, NEW b, Among(f, usual, T, a, b), NEW iter, IsFold(iter, f, usual, T)
  PROVE  /\ T = {} => iter[T] = 0
         /\ T = {a} => iter[T] = f[a] - usual
         /\ T = {b} => iter[T] = f[b] - usual
         /\ T = {a, b} => iter[T] = (f[a] - usual) + (f[b] - usual)
  <1> USE DEF Among
  <1>1. \A s \in SUBSET T : s = {} => iter[s] = 0
    BY DEF IsFold
  <1>2. ASSUME NEW x, {x} \in SUBSET T, f[x] \in Int PROVE iter[{x}] = f[x] - usual
    <2>1. (CHOOSE y \in {x} : TRUE) = x /\ {x} \ {x} = {} /\ {} \in SUBSET T
      OBVIOUS
    <2>2. iter[{x}] = f[x] - usual + iter[{x} \ {x}]
      BY <1>2, <2>1 DEF IsFold
    <2> QED BY <1>1, <1>2, <2>1, <2>2
  <1>3. ASSUME T = {a, b} PROVE iter[T] = (f[a] - usual) + (f[b] - usual)
    <2> DEFINE c == CHOOSE y \in T : TRUE
    <2>1. c \in T
      BY <1>3
    <2>2. iter[T] = f[c] - usual + iter[T \ {c}]
      <3>1. T \in SUBSET T /\ T # {}
        BY <1>3
      <3> QED BY <3>1 DEF IsFold
    <2> HIDE DEF c
    <2>5. iter[{a}] = f[a] - usual /\ iter[{b}] = f[b] - usual
      BY <1>2, <1>3
    <2>3. CASE c = a
      <3>1. T \ {c} = {b}
        BY <1>3, <2>3
      <3> QED BY <2>2, <2>3, <2>5, <3>1
    <2>4. CASE c = b
      <3>1. T \ {c} = {a}
        BY <1>3, <2>4
      <3>2. iter[T] = (f[b] - usual) + (f[a] - usual)
        BY <2>2, <2>4, <2>5, <3>1
      <3>3. f[a] - usual \in Int /\ f[b] - usual \in Int
        OBVIOUS
      <3> QED BY <3>2, <3>3
    <2> QED BY <1>3, <2>1, <2>3, <2>4
  <1> QED BY <1>1, <1>2, <1>3

(* All terms but those of a and b are usual.                               *)
AllBut(f, S, usual, a, b) ==
  /\ usual \in Int /\ a \in S /\ b \in S /\ f[a] \in Int /\ f[b] \in Int
  /\ \A x \in S \ {a, b} : f[x] = usual
  /\ Cardinality(S) \in Nat

(* The sum itself, when all but two terms, or all but one, are usual.      *)
LEMMA SumAllButTwo ==
  ASSUME NEW f, NEW S, NEW usual, NEW a, NEW b, a # b, AllBut(f, S, usual, a, b)
  PROVE  SumOver(f, S, usual) = Cardinality(S) * usual + (f[a] - usual) + (f[b] - usual)
  <1> USE DEF AllBut
  <1> DEFINE T == Odd(f, S, usual)
  <1>1. T \subseteq {a, b} /\ (a \in T <=> f[a] # usual) /\ (b \in T <=> f[b] # usual)
    BY DEF Odd
  <1>2. T = {} \/ T = {a} \/ T = {b} \/ T = {a, b}
    BY <1>1
  <1>0. Among(f, usual, T, a, b)
    BY <1>1 DEF Among
  <1> HIDE DEF T
  <1>3. \E g : IsFold(g, f, usual, T)
    BY <1>0, FoldOfTwo
  <1>4. PICK iter : IsFold(iter, f, usual, T) /\ SumOver(f, S, usual) = Cardinality(S) * usual + iter[T]
    BY <1>3, SumIsFold DEF T
  <1>5. /\ T = {} => iter[T] = 0
        /\ T = {a} => iter[T] = f[a] - usual
        /\ T = {b} => iter[T] = f[b] - usual
        /\ T = {a, b} => iter[T] = (f[a] - usual) + (f[b] - usual)
    BY <1>0, <1>4, FoldIs
  <1>7. iter[T] = (f[a] - usual) + (f[b] - usual)
    BY <1>1, <1>2, <1>5
  <1>8. Cardinality(S) * usual \in Int
    OBVIOUS
  <1> QED BY <1>4, <1>7, <1>8

LEMMA SumAllButOne ==
  ASSUME NEW f, NEW S, NEW usual, NEW a, AllBut(f, S, usual, a, a)
  PROVE  SumOver(f, S, usual) = Cardinality(S) * usual + (f[a] - usual)
  <1> USE DEF AllBut
  <1> DEFINE T == Odd(f, S, usual)
  <1>1. T \subseteq {a} /\ (a \in T <=> f[a] # usual)
    BY DEF Odd
  <1>2. T = {} \/ T = {a}
    BY <1>1
  <1> HIDE DEF T
  <1> DEFINE g == [s \in SUBSET T |-> IF a \in s THEN f[a] - usual ELSE 0]
             R == [s \in SUBSET T |-> IF s = {} THEN 0 ELSE f[CHOOSE x \in s : TRUE] - usual + g[s \ {CHOOSE x \in s : TRUE}]]
  <1>3. \A s \in SUBSET T : g[s] = R[s]
    <2> SUFFICES ASSUME NEW s \in SUBSET T PROVE g[s] = R[s]
      OBVIOUS
    <2>1. CASE s = {}
      BY <2>1
    <2>2. CASE s # {}
      <3>1. s = {a} /\ (CHOOSE x \in s : TRUE) = a /\ s \ {CHOOSE x \in s : TRUE} = {} /\ {} \in SUBSET T
        BY <1>1, <2>2
      <3>2. g[{}] = 0
        OBVIOUS
      <3> HIDE DEF g
      <3>3. R[s] = f[a] - usual + g[{}]
        BY <2>2, <3>1
      <3>4. g[s] = f[a] - usual
        BY <3>1 DEF g
      <3> QED BY <3>2, <3>3, <3>4
    <2> QED BY <2>1, <2>2
  <1>4. IsFold(g, f, usual, T)
    <2>1. g = [s \in SUBSET T |-> g[s]] /\ R = [s \in SUBSET T |-> R[s]]
      OBVIOUS
    <2>2. g = R
      <3> HIDE DEF g, R
      <3> QED BY <1>3, <2>1
    <2> QED BY <2>2 DEF IsFold
  <1> HIDE DEF g
  <1>5. PICK iter : IsFold(iter, f, usual, T) /\ SumOver(f, S, usual) = Cardinality(S) * usual + iter[T]
    BY <1>4, SumIsFold DEF T
  <1>6. T = {} => iter[T] = 0
    BY <1>5 DEF IsFold
  <1>7. T = {a} => iter[T] = f[a] - usual
    <2> SUFFICES ASSUME T = {a} PROVE iter[T] = f[a] - usual
      OBVIOUS
    <2>1. (CHOOSE y \in T : TRUE) = a /\ T \ {a} = {} /\ {} \in SUBSET T /\ T # {}
      OBVIOUS
    <2>2. iter[T] = f[a] - usual + iter[{}] /\ iter[{}] = 0
      BY <1>5, <2>1 DEF IsFold
    <2> QED BY <2>2
  <1>8. iter[T] = f[a] - usual /\ Cardinality(S) * usual \in Int
    BY <1>1, <1>2, <1>6, <1>7
  <1> QED BY <1>5, <1>8

LEMMA SumUsual ==
  ASSUME NEW f, NEW S, NEW usual \in Int, \A x \in S : f[x] = usual, Cardinality(S) \in Nat
  PROVE  SumOver(f, S, usual) = Cardinality(S) * usual
  <1> DEFINE g == [s \in SUBSET {} |-> 0]
  <1>1. {} = Odd(f, S, usual)
    BY DEF Odd
  <1>2. IsFold(g, f, usual, Odd(f, S, usual))
    <2>1. IsFold(g, f, usual, {})
      BY DEF IsFold
    <2> QED BY <1>1, <2>1
  <1> HIDE DEF g
  <1>3. PICK iter : /\ IsFold(iter, f, usual, Odd(f, S, usual))
                    /\ SumOver(f, S, usual) = Cardinality(S) * usual + iter[Odd(f, S, usual)]
    BY <1>2, SumIsFold
  <1>4. iter[{}] = 0 /\ Cardinality(S) * usual \in Int
    <2>1. IsFold(iter, f, usual, {})
      BY <1>1, <1>3
    <2>2. iter[{}] = 0
      BY <2>1 DEF IsFold
    <2>3. Cardinality(S) * usual \in Int
      OBVIOUS
    <2> QED BY <2>2, <2>3
  <1>5. iter[Odd(f, S, usual)] = 0
    BY <1>1, <1>4
  <1> QED BY <1>3, <1>4, <1>5

(***************************************************************************)
(* Lengths                                                                 *)
(***************************************************************************)

LEMMA Lengths ==
  /\ Chunk \in Nat \ {0} /\ MinBucket \in Nat \ {0} /\ TagBytes \in Nat \ {0}
  /\ MaxFile \in Nat \ {0} /\ MaxTransfer \in Nat \ {0} /\ MaxMeta \in Nat \ {0}
  /\ 4 + MaxMeta < MinBucket /\ MinBucket <= Chunk
  BY EnvelopeAssumption

LEMMA SourceFacts ==
  ASSUME NEW s \in Sources
  PROVE  s.size \in Nat /\ s.prefix \in Nat /\ 4 <= s.prefix /\ s.prefix <= 4 + MaxMeta /\ s # None
  <1>1. s \in [size : Nat, prefix : 4..(4 + MaxMeta)]
    BY EnvelopeAssumption
  <1>2. s # None
    BY EnvelopeAssumption
  <1> QED BY <1>1, <1>2, Lengths

(* Math.ceil(a / b) is the least number of b's that hold a.                *)
LEMMA CeilDivIs ==
  ASSUME NEW a \in Nat, NEW b \in Nat \ {0}
  PROVE  /\ CeilDiv(a, b) \in Nat /\ a <= CeilDiv(a, b) * b /\ CeilDiv(a, b) * b < a + b
         /\ a > 0 => CeilDiv(a, b) >= 1
  <1> DEFINE q == CeilDiv(a, b)
  <1>1. q \in Int /\ q * b >= a /\ q * b < a + b
    BY DEF CeilDiv
  <1> HIDE DEF q
  <1>2. q >= 0
    <2> SUFFICES ASSUME q <= -1 PROVE FALSE
      BY <1>1
    <2>1. q * b <= (-1) * b
      BY <1>1
    <2> QED BY <1>1, <2>1
  <1>3. a > 0 => q >= 1
    <2> SUFFICES ASSUME a > 0, q = 0 PROVE FALSE
      BY <1>1, <1>2
    <2>1. q * b = 0
      OBVIOUS
    <2> QED BY <1>1, <2>1
  <1> QED BY <1>1, <1>2, <1>3 DEF q

LEMMA Powers ==
  PowersOfTwo = {1, 2, 4, 8, 16, 32, 64, 128, 256, 512, 1024, 2048, 4096, 8192, 16384, 32768, 65536, 131072, 262144, 524288, 1048576}
  <1>1. 0..20 = {0, 1, 2, 3, 4, 5, 6, 7, 8, 9, 10, 11, 12, 13, 14, 15, 16, 17, 18, 19, 20}
    OBVIOUS
  <1>2. /\ 2^0 = 1 /\ 2^1 = 2 /\ 2^2 = 4 /\ 2^3 = 8 /\ 2^4 = 16 /\ 2^5 = 32 /\ 2^6 = 64 /\ 2^7 = 128 /\ 2^8 = 256
        /\ 2^9 = 512 /\ 2^10 = 1024 /\ 2^11 = 2048 /\ 2^12 = 4096 /\ 2^13 = 8192 /\ 2^14 = 16384 /\ 2^15 = 32768
        /\ 2^16 = 65536 /\ 2^17 = 131072 /\ 2^18 = 262144 /\ 2^19 = 524288 /\ 2^20 = 1048576
    OBVIOUS
  <1> QED BY <1>1, <1>2 DEF PowersOfTwo

(* The bucket of a length up to a record.                                  *)
LEMMA BucketIs ==
  ASSUME NEW length \in Nat \ {0}, length <= Chunk
  PROVE  LET p == CHOOSE p \in PowersOfTwo : length <= p /\ p < 2 * length
         IN  p \in Nat /\ length <= p /\ p <= Chunk
  <1>1. \E p \in PowersOfTwo : length <= p /\ p < 2 * length
    <2>1. length <= 1048576
      BY EnvelopeAssumption, Powers, Lengths
    <2> QED BY <2>1, Powers
  <1>2. ASSUME NEW p \in PowersOfTwo, length <= p, p < 2 * length PROVE p \in Nat /\ p <= Chunk
    BY <1>2, EnvelopeAssumption, Powers, Lengths
  <1> QED BY <1>1, <1>2

LEMMA PaddedIs ==
  ASSUME NEW length \in Nat \ {0}
  PROVE  /\ paddedPlaintextLength(length) \in Nat /\ length <= paddedPlaintextLength(length)
         /\ MinBucket <= paddedPlaintextLength(length)
         /\ length <= Chunk => paddedPlaintextLength(length) <= Chunk
         /\ length > Chunk => paddedPlaintextLength(length) = CeilDiv(length, Chunk) * Chunk
  <1>1. CASE length <= MinBucket
    BY <1>1, Lengths DEF paddedPlaintextLength
  <1>2. CASE length > MinBucket /\ length <= Chunk
    <2> DEFINE p == CHOOSE p \in PowersOfTwo : length <= p /\ p < 2 * length
    <2>1. p \in Nat /\ length <= p /\ p <= Chunk
      BY <1>2, BucketIs
    <2>2. paddedPlaintextLength(length) = p
      BY <1>2, Lengths DEF paddedPlaintextLength
    <2> HIDE DEF p
    <2> QED BY <1>2, <2>1, <2>2, Lengths
  <1>3. CASE length > Chunk
    <2>1. paddedPlaintextLength(length) = CeilDiv(length, Chunk) * Chunk
      BY <1>3, Lengths DEF paddedPlaintextLength
    <2>2. CeilDiv(length, Chunk) \in Nat /\ length <= CeilDiv(length, Chunk) * Chunk
      BY Lengths, CeilDivIs
    <2> QED BY <1>3, <2>1, <2>2, Lengths
  <1> QED BY <1>1, <1>2, <1>3, Lengths

(* The plaintext of a file fills its records, the last one at least partly *)
(* with the file.                                                          *)
LEMMA LayoutIs ==
  ASSUME NEW s \in Sources
  PROVE  /\ PlaintextLength(s) \in Nat /\ RecordCount(s) \in Nat /\ RecordCount(s) >= 1
         /\ s.prefix + s.size <= PlaintextLength(s) /\ MinBucket <= PlaintextLength(s)
         /\ PlaintextLength(s) <= RecordCount(s) * Chunk
         /\ (RecordCount(s) - 1) * Chunk < s.prefix + s.size
         /\ s.size <= MaxFile => RecordCount(s) <= MaxRecords
  <1> DEFINE T == s.prefix + s.size
             n == RecordCount(s)
             P == PlaintextLength(s)
  <1>1. T \in Nat \ {0} /\ T <= s.size + 4 + MaxMeta
    BY SourceFacts, Lengths
  <1>2. /\ P \in Nat /\ T <= P /\ MinBucket <= P /\ (T <= Chunk => P <= Chunk)
        /\ T > Chunk => P = CeilDiv(T, Chunk) * Chunk
    <2> HIDE DEF T
    <2>1. P = paddedPlaintextLength(T)
      BY DEF PlaintextLength, T
    <2> HIDE DEF P
    <2> QED BY <1>1, <2>1, PaddedIs
  <1>3. n \in Nat /\ n >= 1 /\ P <= n * Chunk /\ n * Chunk < P + Chunk
    <2>1. n = CeilDiv(P, Chunk)
      BY DEF RecordCount
    <2> HIDE DEF n, P, T
    <2>2. P > 0 /\ P \in Nat
      BY <1>1, <1>2
    <2> QED BY <2>1, <2>2, Lengths, CeilDivIs
  <1> HIDE DEF n, P, T
  <1>4. (n - 1) * Chunk < T
    <2>1. CASE T <= Chunk
      <3>1. n * Chunk < 2 * Chunk
        BY <1>2, <1>3, <2>1, Lengths
      <3>2. n = 1
        BY <1>3, <3>1, Lengths
      <3> QED BY <1>1, <3>2, Lengths
    <2>2. CASE T > Chunk
      <3> DEFINE q == CeilDiv(T, Chunk)
      <3>1. q \in Nat /\ q * Chunk < T + Chunk /\ P = q * Chunk
        BY <1>1, <1>2, <2>2, Lengths, CeilDivIs
      <3> HIDE DEF q
      <3>2. n = q
        <4>1. ~(q < n)
          <5> SUFFICES ASSUME q + 1 <= n PROVE FALSE
            BY <1>3, <3>1
          <5>1. (q + 1) * Chunk <= n * Chunk
            BY <1>3, <3>1, Lengths
          <5>2. (q + 1) * Chunk = q * Chunk + Chunk
            BY <3>1, Lengths
          <5> QED BY <1>3, <3>1, <5>1, <5>2, Lengths
        <4>2. ~(n < q)
          <5> SUFFICES ASSUME n + 1 <= q PROVE FALSE
            BY <1>3, <3>1
          <5>1. (n + 1) * Chunk <= q * Chunk
            BY <1>3, <3>1, Lengths
          <5>2. (n + 1) * Chunk = n * Chunk + Chunk
            BY <1>3, Lengths
          <5> QED BY <1>3, <3>1, <5>1, <5>2, Lengths
        <4> QED BY <1>3, <3>1, <4>1, <4>2
      <3>3. (n - 1) * Chunk = n * Chunk - Chunk
        BY <1>3, Lengths
      <3> QED BY <1>1, <3>1, <3>2, <3>3, Lengths
    <2> QED BY <1>1, <2>1, <2>2, Lengths
  <1>5. s.size <= MaxFile => n <= MaxRecords
    <2> SUFFICES ASSUME s.size <= MaxFile PROVE n <= MaxRecords
      OBVIOUS
    <2> DEFINE M == MaxFile + 4 + MaxMeta
    <2>1. M \in Nat /\ T <= M
      BY <1>1, SourceFacts, Lengths
    <2>2. MaxRecords \in Nat /\ M <= MaxRecords * Chunk
      BY <2>1, CeilDivIs, Lengths DEF MaxRecords
    <2> HIDE DEF M
    <2>3. (n - 1) * Chunk < MaxRecords * Chunk
      BY <1>1, <1>3, <1>4, <2>1, <2>2, Lengths
    <2>4. n - 1 < MaxRecords
      <3> SUFFICES ASSUME MaxRecords <= n - 1 PROVE FALSE
        BY <1>3, <2>2
      <3>1. MaxRecords * Chunk <= (n - 1) * Chunk
        BY <1>3, <2>2, Lengths
      <3> QED BY <1>3, <2>2, <2>3, <3>1, Lengths
    <2> QED BY <1>3, <2>2, <2>4
  <1> QED BY <1>2, <1>3, <1>4, <1>5 DEF n, P, T

(***************************************************************************)
(* A whole envelope                                                        *)
(***************************************************************************)

LEMMA IntervalSize ==
  ASSUME NEW a \in Int, NEW b \in Int, a <= b + 1
  PROVE  IsFiniteSet(a..b) /\ Cardinality(a..b) = b - a + 1
  <1>1. IsFiniteSet(a..b) /\ Cardinality(a..b) = IF a > b THEN 0 ELSE b - a + 1
    BY FS_Interval, Zenon
  <1> QED BY <1>1

(* Record i holds a whole chunk, unless it is the last.                    *)
LEMMA CellIs ==
  ASSUME NEW s \in Sources, NEW k, NEW h, NEW i \in 0..(RecordCount(s) - 1)
  PROVE  /\ Sealed(s, k, h, i).lo = i * Chunk /\ Sealed(s, k, h, i).of = s
         /\ i < RecordCount(s) - 1 =>
              Sealed(s, k, h, i).hi = (i + 1) * Chunk /\ CellBytes(Sealed(s, k, h, i)) = Chunk + TagBytes
         /\ i = RecordCount(s) - 1 =>
              /\ Sealed(s, k, h, i).hi = PlaintextLength(s)
              /\ CellBytes(Sealed(s, k, h, i)) = PlaintextLength(s) - (RecordCount(s) - 1) * Chunk + TagBytes
  <1> DEFINE n == RecordCount(s)
             P == PlaintextLength(s)
  <1>1. /\ n \in Nat /\ n >= 1 /\ P \in Nat /\ P <= n * Chunk /\ (n - 1) * Chunk < P
        /\ i * Chunk \in Nat /\ (i + 1) * Chunk = i * Chunk + Chunk /\ i \in Nat
    <2>1. (n - 1) * Chunk < s.prefix + s.size /\ s.prefix + s.size <= P /\ n \in Nat /\ P \in Nat /\ n >= 1 /\ P <= n * Chunk
      BY LayoutIs
    <2>2. (n - 1) * Chunk \in Int /\ s.prefix + s.size \in Int
      BY <2>1, SourceFacts, Lengths
    <2>3. i \in Nat
      BY <2>1
    <2> HIDE DEF n, P
    <2>4. i * Chunk \in Nat /\ (i + 1) * Chunk = i * Chunk + Chunk
      BY <2>3, Lengths
    <2> QED BY <2>1, <2>2, <2>3, <2>4
  <1>2. /\ Sealed(s, k, h, i).lo = i * Chunk /\ Sealed(s, k, h, i).of = s
        /\ Sealed(s, k, h, i).hi = IF (i + 1) * Chunk < P THEN (i + 1) * Chunk ELSE P
    BY DEF Sealed, Least
  <1>3. CellBytes(Sealed(s, k, h, i)) = Sealed(s, k, h, i).hi - Sealed(s, k, h, i).lo + TagBytes
    BY DEF CellBytes
  <1>4. CASE i < n - 1
    <2>1. (i + 1) * Chunk <= (n - 1) * Chunk
      <3> HIDE DEF n, P
      <3> QED BY <1>1, <1>4, Lengths
    <2>2. (n - 1) * Chunk \in Int
      <3> HIDE DEF n, P
      <3> QED BY <1>1, Lengths
    <2> HIDE DEF n, P
    <2>3. Sealed(s, k, h, i).hi = (i + 1) * Chunk
      BY <1>1, <1>2, <2>1, <2>2, Lengths
    <2>4. CellBytes(Sealed(s, k, h, i)) = Chunk + TagBytes
      BY <1>1, <1>2, <1>3, <2>3, Lengths
    <2> QED BY <1>2, <1>4, <2>3, <2>4 DEF n, P
  <1>5. CASE i = n - 1
    <2>1. (i + 1) * Chunk = n * Chunk /\ i * Chunk = (n - 1) * Chunk
      <3>1. i + 1 = n
        BY <1>1, <1>5
      <3> QED BY <1>5, <3>1
    <2>2. n * Chunk \in Int
      <3> HIDE DEF n, P
      <3> QED BY <1>1, Lengths
    <2>3. Sealed(s, k, h, i).hi = P
      <3> HIDE DEF n, P
      <3> QED BY <1>1, <1>2, <2>1, <2>2, Lengths
    <2>4. CellBytes(Sealed(s, k, h, i)) = P - (n - 1) * Chunk + TagBytes
      <3> HIDE DEF n, P
      <3> QED BY <1>2, <1>3, <2>1, <2>3
    <2> QED BY <1>2, <1>5, <2>3, <2>4
  <1>6. i < n - 1 \/ i = n - 1
    BY <1>1
  <1> QED BY <1>4, <1>5, <1>6

(* The parts of the envelope of a source.                                  *)
LEMMA WholeIs ==
  ASSUME NEW s \in Sources, NEW v, NEW mark, NEW w, w = Whole(s, v, mark)
  PROVE  /\ w.header = HeaderOf(s, v, mark) /\ w.header.version = v /\ w.header.mark = mark
         /\ w.header.chunk = Chunk /\ w.header.records = RecordCount(s)
         /\ w.start = HeaderBytes(v) /\ w.cut = 0 /\ HeaderBytes(v) \in {24, 56}
         /\ Len(w.cells) = RecordCount(s) /\ DOMAIN w.cells = 1..RecordCount(s)
         /\ \A i \in 1..RecordCount(s) : w.cells[i] = Sealed(s, "key", HeaderOf(s, v, mark), i - 1)
  <1> DEFINE h == HeaderOf(s, v, mark)
             q == [i \in 1..RecordCount(s) |-> Sealed(s, "key", h, i - 1)]
  <1>1. w = [header |-> h, start |-> HeaderBytes(h.version), cells |-> q, cut |-> 0]
    BY DEF Whole, Wire
  <1>2. h.version = v /\ h.mark = mark /\ h.chunk = Chunk /\ h.records = RecordCount(s)
    BY DEF HeaderOf
  <1>3. Len(q) = RecordCount(s) /\ DOMAIN q = 1..RecordCount(s)
    BY LayoutIs
  <1>4. \A i \in 1..RecordCount(s) : q[i] = Sealed(s, "key", h, i - 1)
    OBVIOUS
  <1> HIDE DEF h, q
  <1>5. w.header = h /\ w.start = HeaderBytes(v) /\ w.cells = q /\ w.cut = 0
    BY <1>1, <1>2
  <1>6. HeaderBytes(v) \in {24, 56}
    BY DEF HeaderBytes
  <1> QED BY <1>2, <1>3, <1>4, <1>5, <1>6 DEF h

(* Where its records begin, and how long it is: as long as announced.      *)
LEMMA WholeSize ==
  ASSUME NEW s \in Sources, NEW v, NEW mark, NEW w, w = Whole(s, v, mark)
  PROVE  /\ \A i \in 1..RecordCount(s) : CellStart(w, i) = HeaderBytes(v) + (i - 1) * (Chunk + TagBytes)
         /\ Size(w) = HeaderBytes(v) + PlaintextLength(s) + RecordCount(s) * TagBytes
  <1> DEFINE n == RecordCount(s)
             P == PlaintextLength(s)
             U == Chunk + TagBytes
             F(i) == [j \in 1..(i - 1) |-> CellBytes(w.cells[j])]
  <1>1. /\ n \in Nat /\ n >= 1 /\ P \in Nat /\ U \in Nat \ {0} /\ (n - 1) * Chunk \in Int
    BY LayoutIs, Lengths
  <1>2. /\ w.start = HeaderBytes(v) /\ w.cut = 0 /\ HeaderBytes(v) \in {24, 56} /\ Len(w.cells) = n
        /\ \A i \in 1..n : w.cells[i] = Sealed(s, "key", HeaderOf(s, v, mark), i - 1)
    BY WholeIs
  <1>3. \A j \in 1..n : j < n => CellBytes(w.cells[j]) = U
    <2> SUFFICES ASSUME NEW j \in 1..n, j < n PROVE CellBytes(w.cells[j]) = U
      OBVIOUS
    <2>1. j - 1 \in 0..(n - 1) /\ j - 1 < n - 1
      BY <1>1
    <2> QED BY <1>2, <2>1, CellIs
  <1>4. CellBytes(w.cells[n]) = P - (n - 1) * Chunk + TagBytes
    BY <1>1, <1>2, CellIs
  <1>5. \A i : CellStart(w, i) = HeaderBytes(v) + SumOver(F(i), 1..(i - 1), U)
    BY <1>2 DEF CellStart
  <1> HIDE DEF n, P, U
  <1>6. ASSUME NEW i \in 1..n PROVE CellStart(w, i) = HeaderBytes(v) + (i - 1) * U
    <2> DEFINE f == F(i)
               S == 1..(i - 1)
    <2>1. i \in Nat /\ i >= 1
      BY <1>1
    <2>2. \A x \in S : f[x] = U
      BY <1>1, <1>3, <2>1
    <2>3. Cardinality(S) = i - 1 /\ Cardinality(S) \in Nat
      BY <2>1, IntervalSize
    <2>4. CellStart(w, i) = HeaderBytes(v) + SumOver(f, S, U)
      BY <1>5
    <2> HIDE DEF f, S
    <2>5. SumOver(f, S, U) = Cardinality(S) * U
      BY <1>1, <2>2, <2>3, SumUsual
    <2> QED BY <2>3, <2>4, <2>5
  <1>7. Size(w) = HeaderBytes(v) + P + n * TagBytes
    <2> DEFINE f == F(n + 1)
               S == 1..n
               last == P - (n - 1) * Chunk + TagBytes
    <2>1. f = [j \in S |-> CellBytes(w.cells[j])]
      BY <1>1
    <2>2. \A x \in S \ {n} : f[x] = U
      BY <1>1, <1>3, <2>1
    <2>3. f[n] = last /\ last \in Int /\ n \in S
      BY <1>1, <1>4, <2>1, Lengths
    <2>4. Cardinality(S) = n
      BY <1>1, IntervalSize
    <2>5. CellStart(w, n + 1) = HeaderBytes(v) + SumOver(f, S, U)
      <3>1. CellStart(w, n + 1) = HeaderBytes(v) + SumOver(f, 1..((n + 1) - 1), U)
        BY <1>5
      <3>2. 1..((n + 1) - 1) = S
        BY <1>1
      <3> QED BY <3>1, <3>2
    <2>6. SumOver(f, S, U) = n * U + (last - U)
      <3> HIDE DEF f, S, last
      <3>1. SumOver(f, S, U) = Cardinality(S) * U + (f[n] - U)
        <4>1. U \in Int /\ n \in S /\ f[n] \in Int /\ Cardinality(S) \in Nat
          BY <1>1, <2>3, <2>4
        <4>2. AllBut(f, S, U, n, n)
          BY <2>2, <4>1 DEF AllBut
        <4> QED BY <4>2, SumAllButOne
      <3> QED BY <2>3, <2>4, <3>1
    <2>7. n * U + (last - U) = P + n * TagBytes
      <3>1. n * U = n * Chunk + n * TagBytes
        BY <1>1, Lengths DEF U
      <3>2. (n - 1) * Chunk = n * Chunk - Chunk
        BY <1>1, Lengths
      <3>3. n * Chunk \in Int /\ n * TagBytes \in Int
        BY <1>1, Lengths
      <3> QED BY <1>1, <3>1, <3>2, <3>3, Lengths DEF U
    <2>8. Size(w) = CellStart(w, n + 1) - 0
      BY <1>2 DEF Size
    <2>9. P + n * TagBytes \in Int /\ n * TagBytes \in Int
      BY <1>1, Lengths
    <2> HIDE DEF f, S, last
    <2> QED BY <1>1, <1>2, <2>5, <2>6, <2>7, <2>8, <2>9
  <1> QED BY <1>6, <1>7 DEF n, P, U

LEMMA Products ==
  ASSUME NEW s \in Sources
  PROVE  /\ RecordCount(s) * (Chunk + TagBytes) = RecordCount(s) * Chunk + RecordCount(s) * TagBytes
         /\ (RecordCount(s) - 1) * (Chunk + TagBytes) = (RecordCount(s) - 1) * Chunk + RecordCount(s) * TagBytes - TagBytes
         /\ RecordCount(s) * Chunk \in Nat /\ RecordCount(s) * TagBytes \in Nat /\ (RecordCount(s) - 1) * Chunk \in Nat
  <1> DEFINE n == RecordCount(s)
  <1>1. n \in Nat /\ n >= 1
    BY LayoutIs
  <1> HIDE DEF n
  <1>2. n * (Chunk + TagBytes) = n * Chunk + n * TagBytes
    BY <1>1, Lengths
  <1>3. (n - 1) * (Chunk + TagBytes) = (n - 1) * Chunk + n * TagBytes - TagBytes
    BY <1>1, Lengths
  <1>4. n * Chunk \in Nat /\ n * TagBytes \in Nat
    BY <1>1, Lengths
  <1>5. (n - 1) * Chunk \in Nat
    <2>1. n - 1 \in Nat
      BY <1>1
    <2> QED BY <2>1, Lengths
  <1> QED BY <1>2, <1>3, <1>4, <1>5 DEF n

(* The envelope of a file that is not too large has a header that readers  *)
(* take, and fits into a transfer.                                         *)
LEMMA WholeFits ==
  ASSUME NEW s \in Sources, s.size <= MaxFile, NEW v, NEW mark, NEW w, w = Whole(s, v, mark)
  PROVE  parseEnvelopeHeader(w) /\ Size(w) \in 1..MaxTransfer
  <1> DEFINE n == RecordCount(s)
             P == PlaintextLength(s)
             B == HeaderBytes(v)
             U == Chunk + TagBytes
  <1>1. w.header.version = v /\ w.header.chunk = Chunk /\ w.header.records = n /\ B \in {24, 56}
    BY WholeIs
  <1>2. Size(w) = B + P + n * TagBytes
    BY WholeSize
  <1>3. /\ n \in Nat /\ n >= 1 /\ n <= MaxRecords /\ P \in Nat /\ P <= n * Chunk /\ (n - 1) * Chunk < P
    <2>1. /\ n \in Nat /\ n >= 1 /\ n <= MaxRecords /\ P \in Nat /\ P <= n * Chunk /\ (n - 1) * Chunk < s.prefix + s.size
          /\ s.prefix + s.size <= P
      BY LayoutIs
    <2>2. (n - 1) * Chunk \in Int /\ s.prefix + s.size \in Int
      BY Products, SourceFacts
    <2> HIDE DEF n, P
    <2> QED BY <2>1, <2>2
  <1>4. /\ n * U = n * Chunk + n * TagBytes /\ (n - 1) * U = (n - 1) * Chunk + n * TagBytes - TagBytes
        /\ n * Chunk \in Nat /\ n * TagBytes \in Nat /\ (n - 1) * Chunk \in Nat
    BY Products
  <1>5. MaxRecords \in Nat /\ 56 + MaxRecords * U <= MaxTransfer
    <2>1. MaxFile + 4 + MaxMeta \in Nat
      BY Lengths
    <2> QED BY <2>1, CeilDivIs, Lengths, EnvelopeAssumption DEF MaxRecords
  <1> HIDE DEF n, P, B
  <1>6. n * U <= MaxRecords * U /\ MaxRecords * U \in Nat
    BY <1>3, <1>5, Lengths
  <1> HIDE DEF U
  <1>7. Size(w) >= B + (n - 1) * U + 1 + TagBytes /\ Size(w) <= B + n * U /\ Size(w) \in Nat
    BY <1>1, <1>2, <1>3, <1>4, Lengths
  <1>8. Size(w) \in 1..MaxTransfer
    BY <1>1, <1>3, <1>4, <1>5, <1>6, <1>7, Lengths
  <1>9. parseEnvelopeHeader(w)
    BY <1>1, <1>3, <1>5, <1>7 DEF parseEnvelopeHeader, n, B, U
  <1> QED BY <1>8, <1>9

(* The reader cuts it into the records it was made of.                     *)
LEMMA SliceIs ==
  ASSUME NEW s \in Sources, NEW v, NEW mark, NEW w, w = Whole(s, v, mark),
         NEW i \in 0..(RecordCount(s) - 1)
  PROVE  SliceAt(w, HeaderBytes(v) + i * (Chunk + TagBytes),
                 IF i = RecordCount(s) - 1 THEN Size(w) ELSE HeaderBytes(v) + (i + 1) * (Chunk + TagBytes))
         = Sealed(s, "key", HeaderOf(s, v, mark), i)
  <1> DEFINE n == RecordCount(s)
             P == PlaintextLength(s)
             B == HeaderBytes(v)
             U == Chunk + TagBytes
             lo == B + i * U
             hi == IF i = n - 1 THEN Size(w) ELSE B + (i + 1) * U
             near == (lo - w.start) \div U
             at == {j \in (near + 1)..(near + 4) \cap 1..Len(w.cells) :
                      CellStart(w, j) = lo /\ lo + CellBytes(w.cells[j]) = hi /\ hi <= Size(w)}
  <1>1. /\ w.start = B /\ Len(w.cells) = n /\ B \in {24, 56}
        /\ \A j \in 1..n : w.cells[j] = Sealed(s, "key", HeaderOf(s, v, mark), j - 1)
    BY WholeIs
  <1>2. /\ \A j \in 1..n : CellStart(w, j) = B + (j - 1) * U
        /\ Size(w) = B + P + n * TagBytes
    BY WholeSize
  <1>3. /\ n \in Nat /\ n >= 1 /\ P \in Nat /\ (n - 1) * Chunk < P /\ U \in Nat \ {0}
    <2>1. n \in Nat /\ n >= 1 /\ P \in Nat /\ (n - 1) * Chunk < s.prefix + s.size /\ s.prefix + s.size <= P
      BY LayoutIs
    <2>2. (n - 1) * Chunk \in Int /\ s.prefix + s.size \in Int
      BY Products, SourceFacts
    <2>3. U \in Nat \ {0}
      BY Lengths
    <2> HIDE DEF n, P, U
    <2> QED BY <2>1, <2>2, <2>3
  <1>4. /\ (n - 1) * U = (n - 1) * Chunk + n * TagBytes - TagBytes
        /\ n * TagBytes \in Nat /\ (n - 1) * Chunk \in Nat
    BY Products
  <1>5. /\ i < n - 1 => CellBytes(w.cells[i + 1]) = U
        /\ i = n - 1 => CellBytes(w.cells[i + 1]) = P - (n - 1) * Chunk + TagBytes
        /\ i + 1 \in 1..n /\ i \in Nat
    <2>1. i + 1 \in 1..n /\ (i + 1) - 1 = i /\ i \in Nat
      BY <1>3
    <2>2. w.cells[i + 1] = Sealed(s, "key", HeaderOf(s, v, mark), i)
      BY <1>1, <2>1
    <2> QED BY <2>1, <2>2, CellIs
  <1> SUFFICES SliceAt(w, lo, hi) = w.cells[i + 1]
    <2>1. (i + 1) - 1 = i
      BY <1>5
    <2> QED BY <1>1, <1>5, <2>1
  <1>6. SliceAt(w, lo, hi) = IF at = {} THEN Garbage ELSE w.cells[CHOOSE j \in at : TRUE]
    BY DEF SliceAt
  <1> HIDE DEF n, P, B, U
  <1>7. i * U \in Nat /\ (i + 1) * U = i * U + U
    BY <1>3, <1>5
  <1>8. near = i
    <2>1. lo - w.start = i * U
      BY <1>1, <1>7
    <2>2. (i * U) \div U = i
      BY <1>3, <1>5
    <2> QED BY <2>1, <2>2
  <1>9. lo + CellBytes(w.cells[i + 1]) = hi /\ hi <= Size(w) /\ lo \in Nat
    <2>1. CASE i = n - 1
      <3>1. i * U = (n - 1) * U
        BY <2>1
      <3>2. lo + CellBytes(w.cells[i + 1]) = Size(w)
        <4> DEFINE X == (n - 1) * Chunk
                   Y == n * TagBytes
                   Z == i * U
        <4>1. /\ X \in Nat /\ Y \in Nat /\ Z = X + Y - TagBytes /\ lo = B + Z /\ Size(w) = B + P + Y
              /\ CellBytes(w.cells[i + 1]) = P - X + TagBytes
          BY <1>2, <1>4, <1>5, <2>1, <3>1
        <4>2. B \in Nat /\ TagBytes \in Nat /\ P \in Nat
          BY <1>1, <1>3, Lengths
        <4> HIDE DEF X, Y, Z, lo
        <4> QED BY <4>1, <4>2
      <3>3. Size(w) \in Nat
        BY <1>1, <1>2, <1>3, <1>4
      <3> QED BY <1>1, <1>7, <2>1, <3>2, <3>3
    <2>2. CASE i # n - 1
      <3>1. i < n - 1
        BY <1>3, <1>5, <2>2
      <3>2. (i + 1) * U <= (n - 1) * U
        BY <1>3, <1>5, <3>1
      <3>3. hi = B + (i + 1) * U /\ lo + CellBytes(w.cells[i + 1]) = hi
        <4>1. hi = B + (i + 1) * U
          BY <2>2
        <4>2. CellBytes(w.cells[i + 1]) = U
          BY <1>5, <3>1
        <4>3. B \in Nat
          BY <1>1
        <4> QED BY <1>3, <1>7, <4>1, <4>2, <4>3
      <3>4. hi <= Size(w)
        <4> DEFINE X == (n - 1) * Chunk
                   Y == n * TagBytes
                   Z == (n - 1) * U
                   J == (i + 1) * U
        <4>1. /\ X \in Nat /\ Y \in Nat /\ Z = X + Y - TagBytes /\ hi = B + J /\ Size(w) = B + P + Y
              /\ J <= Z /\ X < P
          BY <1>2, <1>3, <1>4, <3>2, <3>3
        <4>2. B \in Nat /\ TagBytes \in Nat /\ P \in Nat /\ J \in Nat
          BY <1>1, <1>3, <1>7, Lengths
        <4> HIDE DEF X, Y, Z, J, hi
        <4> QED BY <4>1, <4>2
      <3> QED BY <1>1, <1>7, <3>3, <3>4
    <2> QED BY <2>1, <2>2
  <1>10. i + 1 \in at
    <2>1. i + 1 \in (near + 1)..(near + 4) \cap 1..Len(w.cells)
      <3> HIDE DEF near
      <3> QED BY <1>1, <1>5, <1>8
    <2>2. CellStart(w, i + 1) = lo
      <3>1. (i + 1) - 1 = i
        BY <1>5
      <3>2. CellStart(w, i + 1) = B + ((i + 1) - 1) * U
        BY <1>2, <1>5
      <3> QED BY <3>1, <3>2
    <2> HIDE DEF lo, hi, near
    <2> QED BY <1>9, <2>1, <2>2
  <1>11. ASSUME NEW j \in at PROVE j = i + 1
    <2>1. j \in 1..n /\ CellStart(w, j) = lo
      <3> HIDE DEF lo, hi, near
      <3> QED BY <1>1
    <2>2. j \in Nat /\ j >= 1 /\ B + (j - 1) * U = B + i * U
      BY <1>2, <1>3, <2>1
    <2>3. (j - 1) * U = i * U /\ j - 1 \in Nat
      <3>1. j - 1 \in Nat
        BY <2>2
      <3>2. (j - 1) * U \in Nat
        BY <1>3, <3>1
      <3> QED BY <1>1, <1>7, <2>2, <3>1, <3>2
    <2>4. j - 1 = i
      BY <1>3, <1>5, <2>3
    <2> QED BY <1>5, <2>2, <2>4
  <1> HIDE DEF at, lo, hi
  <1> QED BY <1>6, <1>10, <1>11

(* The stretches of the source in its records add up to the source.        *)
LEMMA PartsAddUp ==
  ASSUME NEW s \in Sources, s.size >= 1, NEW f, NEW S, S = 0..(RecordCount(s) - 1),
         \A i \in S :
           f[i] = Least((i + 1) * Chunk, s.prefix + s.size) - Most(i * Chunk, s.prefix)
  PROVE  SumOver(f, S, Chunk) = s.size /\ \A i \in S : f[i] > 0
  <1> DEFINE n == RecordCount(s)
             T == s.prefix + s.size
             X == (n - 1) * Chunk
  <1>1. /\ n \in Nat /\ n >= 1 /\ X < T /\ T <= n * Chunk
        /\ T \in Nat /\ s.prefix \in Nat /\ s.prefix >= 4 /\ s.prefix < Chunk /\ s.prefix < T /\ s.size \in Nat /\ T = s.prefix + s.size
    <2>1. /\ n \in Nat /\ n >= 1 /\ X < T /\ T <= PlaintextLength(s) /\ PlaintextLength(s) <= n * Chunk
          /\ PlaintextLength(s) \in Nat /\ n * Chunk \in Nat
      BY LayoutIs, Products
    <2>2. T \in Nat /\ s.prefix \in Nat /\ s.prefix >= 4 /\ s.prefix < Chunk /\ s.prefix < T /\ s.size \in Nat
      BY SourceFacts, Lengths
    <2> HIDE DEF n, X, T
    <2>3. T <= n * Chunk
      BY <2>1, <2>2
    <2> QED BY <2>1, <2>2, <2>3 DEF T
  <1>2. n * Chunk = X + Chunk /\ X \in Nat /\ Chunk \in Nat \ {0}
    <2> HIDE DEF n
    <2>1. n - 1 \in Nat
      BY <1>1
    <2> QED BY <1>1, <2>1, Lengths
  <1>3. Cardinality(S) = n
    <2>1. 0 \in Int /\ n - 1 \in Int /\ 0 <= (n - 1) + 1
      BY <1>1
    <2>2. Cardinality(0..(n - 1)) = (n - 1) - 0 + 1
      BY <2>1, IntervalSize
    <2> HIDE DEF n
    <2> QED BY <1>1, <2>2 DEF n
  <1>4. \A i \in S : i \in Nat /\ i <= n - 1 /\ f[i] = Least((i + 1) * Chunk, T) - Most(i * Chunk, s.prefix)
    BY <1>1
  <1>5. 0 \in S /\ n - 1 \in S
    BY <1>1
  <1> HIDE DEF n, T, X
  <1>6. ASSUME NEW i \in S, i # 0 PROVE Most(i * Chunk, s.prefix) = i * Chunk /\ i * Chunk \in Nat
    <2>1. i \in Nat /\ i >= 1
      BY <1>4, <1>6
    <2>2. i * Chunk >= Chunk /\ i * Chunk \in Nat
      BY <1>2, <2>1
    <2> DEFINE Y == i * Chunk
    <2>3. Y >= Chunk /\ Y \in Nat
      BY <2>2
    <2> HIDE DEF Y
    <2>4. Most(Y, s.prefix) = Y
      BY <1>1, <1>2, <2>3 DEF Most
    <2> QED BY <2>2, <2>4 DEF Y
  <1>7. Most(0 * Chunk, s.prefix) = s.prefix
    BY <1>1, <1>2 DEF Most
  <1>8. ASSUME NEW i \in S, i # n - 1 PROVE Least((i + 1) * Chunk, T) = i * Chunk + Chunk /\ i * Chunk \in Nat
    <2>1. i \in Nat /\ i + 1 <= n - 1 /\ n - 1 \in Nat
      BY <1>1, <1>4, <1>8
    <2>2. (i + 1) * Chunk <= X
      BY <1>2, <2>1 DEF X
    <2>3. (i + 1) * Chunk = i * Chunk + Chunk /\ i * Chunk \in Nat
      BY <1>2, <2>1
    <2> QED BY <1>1, <1>2, <2>2, <2>3 DEF Least
  <1>9. Least(((n - 1) + 1) * Chunk, T) = T
    <2>1. (n - 1) + 1 = n
      BY <1>1
    <2>2. Least(n * Chunk, T) = T
      <3> QED BY <1>1, <1>2 DEF Least
    <2> QED BY <2>1, <2>2
  <1>10. \A i \in S \ {0, n - 1} : f[i] = Chunk
    <2> SUFFICES ASSUME NEW i \in S, i # 0, i # n - 1 PROVE f[i] = Chunk
      OBVIOUS
    <2> DEFINE Y == i * Chunk
               L == Least((i + 1) * Chunk, T)
               M == Most(i * Chunk, s.prefix)
    <2>1. f[i] = L - M
      BY <1>4
    <2>2. M = Y /\ Y \in Nat
      BY <1>6
    <2>3. L = Y + Chunk
      BY <1>8
    <2> HIDE DEF Y, L, M
    <2> QED BY <1>2, <2>1, <2>2, <2>3
  <1>11. CASE n = 1
    <2>1. f[0] = T - s.prefix
      <3>1. f[0] = Least((0 + 1) * Chunk, T) - Most(0 * Chunk, s.prefix)
        BY <1>4, <1>5
      <3>2. (n - 1) + 1 = 0 + 1
        BY <1>11
      <3> QED BY <1>7, <1>9, <3>1, <3>2
    <2>2. f[0] = s.size /\ f[0] \in Int
      BY <1>1, <2>1
    <2>3. \A x \in S \ {0} : f[x] = Chunk
      BY <1>4, <1>10, <1>11
    <2>4. SumOver(f, S, Chunk) = Cardinality(S) * Chunk + (f[0] - Chunk)
      <3>1. Chunk \in Int /\ 0 \in S /\ Cardinality(S) \in Nat
        BY <1>1, <1>2, <1>3, <1>5
      <3>2. AllBut(f, S, Chunk, 0, 0)
        BY <2>2, <2>3, <3>1 DEF AllBut
      <3> QED BY <3>2, SumAllButOne, Zenon
    <2>5. Cardinality(S) * Chunk = Chunk
      BY <1>2, <1>3, <1>11
    <2>6. \A i \in S : i = 0
      BY <1>4, <1>11
    <2> QED BY <1>1, <1>2, <2>2, <2>4, <2>5, <2>6
  <1>12. CASE n # 1
    <2>1. f[0] = Chunk - s.prefix /\ 0 # n - 1
      <3>1. 0 # n - 1
        BY <1>1, <1>12
      <3>2. f[0] = Least((0 + 1) * Chunk, T) - Most(0 * Chunk, s.prefix)
        BY <1>4, <1>5
      <3>3. Least((0 + 1) * Chunk, T) = 0 * Chunk + Chunk
        BY <1>5, <1>8, <3>1
      <3>4. 0 * Chunk + Chunk = Chunk
        BY <1>2
      <3> QED BY <1>7, <3>1, <3>2, <3>3, <3>4
    <2>2. f[n - 1] = T - X
      <3>1. f[n - 1] = Least(((n - 1) + 1) * Chunk, T) - Most((n - 1) * Chunk, s.prefix)
        BY <1>4, <1>5
      <3>2. Most((n - 1) * Chunk, s.prefix) = (n - 1) * Chunk
        BY <1>5, <1>6, <2>1
      <3> QED BY <1>9, <3>1, <3>2 DEF X
    <2>3. f[0] \in Int /\ f[n - 1] \in Int /\ f[0] > 0 /\ f[n - 1] > 0
      BY <1>1, <1>2, <2>1, <2>2
    <2>4. SumOver(f, S, Chunk) = Cardinality(S) * Chunk + (f[0] - Chunk) + (f[n - 1] - Chunk)
      <3>1. Chunk \in Int /\ 0 \in S /\ n - 1 \in S /\ Cardinality(S) \in Nat
        BY <1>1, <1>2, <1>3, <1>5
      <3> DEFINE z == n - 1
      <3>2. AllBut(f, S, Chunk, 0, z) /\ 0 # z
        BY <1>10, <2>1, <2>3, <3>1 DEF AllBut
      <3> HIDE DEF z
      <3>3. SumOver(f, S, Chunk) = Cardinality(S) * Chunk + (f[0] - Chunk) + (f[z] - Chunk)
        BY <3>2, SumAllButTwo
      <3> QED BY <3>3 DEF z
    <2>5. Cardinality(S) * Chunk = X + Chunk
      BY <1>2, <1>3
    <2>6. SumOver(f, S, Chunk) = s.size
      BY <1>1, <1>2, <2>1, <2>2, <2>4, <2>5
    <2>7. \A i \in S : f[i] > 0
      <3>1. \A i \in S \ {0, n - 1} : f[i] > 0
        BY <1>2, <1>10
      <3> QED BY <2>3, <3>1
    <2> QED BY <2>6, <2>7
  <1> QED BY <1>11, <1>12

(* An envelope that arrives as it was made gives the source.               *)
LEMMA WholeOpens ==
  ASSUME NEW s \in Sources, s.size \in 1..MaxFile, NEW v, NEW mark, NEW w, w = Whole(s, v, mark)
  PROVE  decryptPrivacyEnvelope(w, "key") = "source"
  <1> DEFINE header == w.header
             n == header.records
             bytes == HeaderBytes(header.version)
             From(i) == bytes + i * (Chunk + TagBytes)
             record == [i \in 0..(n - 1) |-> SliceAt(w, From(i), IF i = n - 1 THEN Size(w) ELSE From(i + 1))]
             meta == record[0].of
             Lo(i) == Most(i * Chunk, meta.prefix)
             Hi(i) == Least(i * Chunk + record[i].hi - record[i].lo, meta.prefix + meta.size)
             stretch == {i \in 0..(n - 1) : Hi(i) > Lo(i)}
             f == [i \in stretch |-> Hi(i) - Lo(i)]
  <1>1. header = HeaderOf(s, v, mark) /\ n = RecordCount(s) /\ header.version = v /\ bytes = HeaderBytes(v) /\ header.mark = mark
    BY WholeIs
  <1>2. \A i \in 0..(n - 1) : record[i] = Sealed(s, "key", header, i)
    BY <1>1, SliceIs
  <1>3. s.size <= MaxFile /\ s.size >= 1 /\ s.size \in Nat
    BY Lengths
  <1>4. parseEnvelopeHeader(w) /\ Size(w) \in 1..MaxTransfer
    BY <1>3, WholeFits
  <1>5. n \in Nat /\ n >= 1 /\ 0 \in 0..(n - 1)
    BY <1>1, LayoutIs
  <1>6. meta = s
    <2> HIDE DEF record
    <2>1. record[0] = Sealed(s, "key", header, 0)
      BY <1>2, <1>5
    <2> HIDE DEF header
    <2> QED BY <2>1 DEF Sealed
  <1>7. \A i \in 0..(n - 1) : Authentic(record[i], "key", header, i)
    <2> SUFFICES ASSUME NEW i \in 0..(n - 1) PROVE Authentic(Sealed(s, "key", header, i), "key", header, i)
      BY <1>2
    <2> HIDE DEF n, header
    <2> QED BY DEF Sealed, Authentic
  <1>8. parseEnvelopeMetadata(record[0])
    <2>1. /\ record[0].of = s
          /\ record[0].hi = IF (0 + 1) * Chunk < PlaintextLength(s) THEN (0 + 1) * Chunk ELSE PlaintextLength(s)
      <3> HIDE DEF record
      <3>1. record[0] = Sealed(s, "key", header, 0)
        BY <1>2, <1>5
      <3> HIDE DEF header
      <3> QED BY <3>1 DEF Sealed, Least
    <2>2. /\ s.prefix <= 4 + MaxMeta /\ 4 + MaxMeta < MinBucket /\ MinBucket <= Chunk /\ MinBucket <= PlaintextLength(s)
          /\ PlaintextLength(s) \in Nat /\ s.prefix \in Nat /\ MaxMeta \in Nat /\ MinBucket \in Nat /\ Chunk \in Nat
      BY SourceFacts, Lengths, LayoutIs
    <2> HIDE DEF record
    <2>3. record[0].hi \in Nat /\ s.prefix <= record[0].hi
      BY <2>1, <2>2
    <2>4. s.prefix <= Least(4 + MaxMeta, record[0].hi)
      BY <2>2, <2>3 DEF Least
    <2> QED BY <2>1, <2>4 DEF parseEnvelopeMetadata
  <1>9. paddedPlaintextLength(meta.prefix + meta.size) = Size(w) - bytes - n * TagBytes
    <2>1. paddedPlaintextLength(meta.prefix + meta.size) = PlaintextLength(s)
      BY <1>6 DEF PlaintextLength
    <2>2. Size(w) = bytes + PlaintextLength(s) + n * TagBytes
      BY <1>1, WholeSize
    <2>3. PlaintextLength(s) \in Nat /\ bytes \in Nat /\ n * TagBytes \in Nat
      BY <1>1, LayoutIs, Products, WholeIs
    <2> HIDE DEF bytes, n, header, meta
    <2> QED BY <2>1, <2>2, <2>3
  <1>10. ASSUME NEW i \in 0..(n - 1)
         PROVE  Hi(i) = Least((i + 1) * Chunk, s.prefix + s.size) /\ Lo(i) = Most(i * Chunk, s.prefix)
                /\ Hi(i) \in Int /\ Lo(i) \in Int
    <2>1. Lo(i) = Most(i * Chunk, s.prefix)
      BY <1>6
    <2>2. /\ record[i].lo = i * Chunk
          /\ i < n - 1 => record[i].hi = (i + 1) * Chunk
          /\ i = n - 1 => record[i].hi = PlaintextLength(s)
      BY <1>1, <1>2, CellIs
    <2>3. Hi(i) = Least(i * Chunk + record[i].hi - record[i].lo, s.prefix + s.size)
      BY <1>6
    <2>4. /\ PlaintextLength(s) \in Nat /\ s.prefix + s.size <= PlaintextLength(s) /\ PlaintextLength(s) <= n * Chunk
          /\ n * Chunk \in Nat /\ s.prefix + s.size \in Nat /\ s.prefix \in Nat
      BY <1>1, LayoutIs, Products, SourceFacts
    <2> HIDE DEF n, header, meta, record, bytes, Lo, Hi
    <2>5. i \in Nat /\ i * Chunk \in Nat /\ (i + 1) * Chunk \in Nat /\ (i < n - 1 \/ i = n - 1)
      BY <1>5, Lengths
    <2>6. Hi(i) = Least((i + 1) * Chunk, s.prefix + s.size)
      <3>1. CASE i < n - 1
        <4>1. i * Chunk + record[i].hi - record[i].lo = (i + 1) * Chunk
          BY <2>2, <2>5, <3>1
        <4> QED BY <2>3, <4>1
      <3>2. CASE i = n - 1
        <4>1. i * Chunk + record[i].hi - record[i].lo = PlaintextLength(s)
          BY <2>2, <2>4, <2>5, <3>2
        <4>2. i + 1 = n
          BY <1>5, <2>5, <3>2
        <4>3. Least(PlaintextLength(s), s.prefix + s.size) = s.prefix + s.size
          BY <2>4 DEF Least
        <4>4. Least(n * Chunk, s.prefix + s.size) = s.prefix + s.size
          BY <2>4 DEF Least
        <4> QED BY <2>3, <4>1, <4>2, <4>3, <4>4
      <3> QED BY <2>5, <3>1, <3>2
    <2>7. Hi(i) \in Int /\ Lo(i) \in Int
      BY <2>1, <2>4, <2>5, <2>6 DEF Least, Most
    <2> QED BY <2>1, <2>6, <2>7
  <1>11. stretch = 0..(n - 1) /\ SumOver(f, stretch, Chunk) = s.size
    <2> DEFINE S == 0..(n - 1)
               g == [i \in S |-> Hi(i) - Lo(i)]
    <2>1. \A i \in S : g[i] = Least((i + 1) * Chunk, s.prefix + s.size) - Most(i * Chunk, s.prefix)
      BY <1>10
    <2>2. S = 0..(RecordCount(s) - 1)
      BY <1>1
    <2>3. SumOver(g, S, Chunk) = s.size /\ \A i \in S : g[i] > 0
      <3> HIDE DEF g, S
      <3> QED BY <1>3, <2>1, <2>2, PartsAddUp
    <2>4. \A i \in S : Hi(i) - Lo(i) > 0 /\ Hi(i) \in Int /\ Lo(i) \in Int
      <3>1. \A i \in S : g[i] = Hi(i) - Lo(i)
        OBVIOUS
      <3> HIDE DEF g, Hi, Lo
      <3> QED BY <1>10, <2>3, <3>1
    <2>5. \A i \in S : Hi(i) > Lo(i)
      <3> HIDE DEF Hi, Lo, S
      <3> QED BY <2>4
    <2>6. stretch = S
      <3> HIDE DEF Hi, Lo
      <3> QED BY <2>5
    <2>7. f = g
      BY <2>6
    <2> QED BY <2>3, <2>6, <2>7
  <1>12. \A i \in stretch : record[i].lo = i * Chunk /\ record[i].of = meta
    <2>1. ASSUME NEW i \in 0..(n - 1) PROVE record[i].lo = i * Chunk /\ record[i].of = s
      <3> HIDE DEF record
      <3>1. record[i] = Sealed(s, "key", header, i)
        BY <1>2
      <3> HIDE DEF header, n
      <3> QED BY <3>1 DEF Sealed
    <2> HIDE DEF record, meta, n
    <2> QED BY <1>6, <1>11, <2>1
  <1>13. decryptPrivacyEnvelope(w, "key") =
           IF /\ Size(w) \in 1..MaxTransfer
              /\ parseEnvelopeHeader(w)
              /\ \A i \in 0..(n - 1) : Authentic(record[i], "key", header, i)
              /\ parseEnvelopeMetadata(record[0])
              /\ paddedPlaintextLength(meta.prefix + meta.size) = Size(w) - bytes - n * TagBytes
              /\ SumOver(f, stretch, Chunk) = meta.size
           THEN IF \A i \in stretch : record[i].lo = i * Chunk /\ record[i].of = meta THEN "source" ELSE "other"
           ELSE "refused"
    BY DEF decryptPrivacyEnvelope
  <1> HIDE DEF header, n, bytes, record, meta, stretch, f
  <1> QED BY <1>4, <1>6, <1>7, <1>8, <1>9, <1>11, <1>12, <1>13

(***************************************************************************)
(* A damaged envelope                                                      *)
(***************************************************************************)

(* What can be found on the wire: records of the source, some spoilt.      *)
Genuine(s, cell) ==
  /\ cell.of = s /\ cell.key[1] \in {"key", "spoilt"}
  /\ \E m : \E i \in Nat : cell.nonce = <<m, i>> /\ cell.lo = i * Chunk

AllGenuine(s, q) == \E X : q \in Seq(X) /\ \A c \in X : Genuine(s, c)

LEMMA KeysDiffer ==
  ASSUME NEW key, NEW header
  PROVE  DerivedKey(key, header)[1] = key /\ DerivedKey(key, header) # <<>>
  BY DEF DerivedKey

Spoilt(cell) == [cell EXCEPT !.key = <<"spoilt">>]

LEMMA SealedGenuine ==
  ASSUME NEW s, NEW h, NEW i \in Nat
  PROVE  Genuine(s, Sealed(s, "key", h, i)) /\ Genuine(s, Spoilt(Sealed(s, "key", h, i)))
  <1> DEFINE c == Sealed(s, "key", h, i)
             d == Spoilt(c)
  <1>1. c.of = s /\ c.key = DerivedKey("key", h) /\ c.nonce = <<h.mark, i>> /\ c.lo = i * Chunk
    BY DEF Sealed
  <1>2. d.of = s /\ d.key = <<"spoilt">> /\ d.nonce = <<h.mark, i>> /\ d.lo = i * Chunk
    BY DEF Sealed, Spoilt
  <1> HIDE DEF c, d
  <1>3. Genuine(s, c)
    BY <1>1, KeysDiffer DEF Genuine
  <1>4. Genuine(s, d)
    BY <1>2 DEF Genuine
  <1> QED BY <1>3, <1>4 DEF c, d

(* Nothing but records of the source comes out of damage.                  *)
LEMMA DamageIsGenuine ==
  ASSUME NEW s \in Sources, NEW v, source = s, NEW w, w = Whole(s, v, "mark"), NEW d \in {w} \cup Damaged(w)
  PROVE  AllGenuine(s, d.cells)
  <1> DEFINE n == RecordCount(s)
             q == w.cells
             other == Whole(source, w.header.version, "other")
             o == other.cells
             X == {q[j] : j \in 1..n} \cup {o[j] : j \in 1..n} \cup {Spoilt(q[j]) : j \in 1..n}
  <1>1. /\ n \in Nat /\ w.header.version = v /\ Len(q) = n /\ DOMAIN q = 1..n
        /\ \A i \in 1..n : q[i] = Sealed(s, "key", HeaderOf(s, v, "mark"), i - 1)
    BY LayoutIs, WholeIs
  <1>2. /\ Len(o) = n /\ DOMAIN o = 1..n
        /\ \A i \in 1..n : o[i] = Sealed(s, "key", HeaderOf(s, v, "other"), i - 1)
    <2>1. other = Whole(s, v, "other")
      BY <1>1
    <2> HIDE DEF other
    <2> QED BY <2>1, WholeIs
  <1>3. /\ w = [header |-> w.header, start |-> w.start, cells |-> q, cut |-> w.cut]
        /\ other = [header |-> other.header, start |-> other.start, cells |-> o, cut |-> other.cut]
    BY DEF Whole, Wire
  <1>4. q = [i \in 1..n |-> q[i]] /\ o = [i \in 1..n |-> o[i]]
    BY DEF Whole, Wire
  <1>5. \A c \in X : Genuine(s, c)
    <2>1. \A j \in 1..n : j - 1 \in Nat
      BY <1>1
    <2> HIDE DEF n, q, o
    <2>2. \A j \in 1..n : Genuine(s, q[j]) /\ Genuine(s, o[j]) /\ Genuine(s, Spoilt(q[j]))
      <3> SUFFICES ASSUME NEW j \in 1..n
                   PROVE  Genuine(s, q[j]) /\ Genuine(s, o[j]) /\ Genuine(s, Spoilt(q[j]))
        OBVIOUS
      <3> DEFINE i == j - 1
      <3>1. i \in Nat /\ q[j] = Sealed(s, "key", HeaderOf(s, v, "mark"), i) /\ o[j] = Sealed(s, "key", HeaderOf(s, v, "other"), i)
        BY <1>1, <1>2, <2>1
      <3> HIDE DEF i
      <3>2. Genuine(s, q[j]) /\ Genuine(s, o[j])
        BY <3>1, SealedGenuine
      <3>3. Genuine(s, Spoilt(Sealed(s, "key", HeaderOf(s, v, "mark"), i)))
        BY <3>1, SealedGenuine
      <3> QED BY <3>1, <3>2, <3>3
    <2> QED BY <2>2
  <1>6. q \in Seq(X) /\ o \in Seq(X)
    <2> HIDE DEF n, q, o
    <2> QED BY <1>1, <1>2, <1>4
  <1>7. \A j \in 1..n : Spoilt(q[j]) \in X
    OBVIOUS
  <1>8. \A j \in 1..n : q[j] \in X /\ o[j] \in X
    OBVIOUS
  <1>9. Places(q) \subseteq 1..n
    BY <1>1 DEF Places
  <1> HIDE DEF q, o, n, X, other
  <1>10. d.cells \in Seq(X)
    <2>1. CASE d = w
      BY <1>3, <1>6, <2>1
    <2>2. ASSUME NEW i \in Places(q), d = [w EXCEPT !.cells = Without(q, i)] PROVE d.cells \in Seq(X)
      <3>1. d.cells = SubSeq(q, 1, i - 1) \o SubSeq(q, i + 1, Len(q))
        BY <1>3, <2>2 DEF Without
      <3>2. i \in 1..n /\ i - 1 \in 0..n /\ i + 1 \in 1..(n + 1)
        BY <1>1, <1>9
      <3>3. SubSeq(q, 1, i - 1) \in Seq(X) /\ SubSeq(q, i + 1, Len(q)) \in Seq(X)
        BY <1>1, <1>6, <3>2
      <3> QED BY <3>1, <3>3
    <2>3. ASSUME NEW i \in Places(q), d = [w EXCEPT !.cells = SubSeq(q, 1, i) \o SubSeq(q, i, Len(q))] PROVE d.cells \in Seq(X)
      <3>1. d.cells = SubSeq(q, 1, i) \o SubSeq(q, i, Len(q))
        BY <1>3, <2>3
      <3>2. i \in 1..n
        BY <1>9
      <3>3. SubSeq(q, 1, i) \in Seq(X) /\ SubSeq(q, i, Len(q)) \in Seq(X)
        BY <1>1, <1>6, <3>2
      <3> QED BY <3>1, <3>3
    <2>4. ASSUME NEW i \in Places(q), NEW j \in Places(q), d = [w EXCEPT !.cells = Exchanged(q, i, j)] PROVE d.cells \in Seq(X)
      <3>1. d.cells = [[q EXCEPT ![i] = q[j]] EXCEPT ![j] = q[i]]
        BY <1>3, <2>4 DEF Exchanged
      <3>2. i \in 1..n /\ j \in 1..n
        BY <1>9
      <3>3. q[i] \in X /\ q[j] \in X
        BY <1>8, <3>2
      <3> QED BY <1>1, <1>6, <3>1, <3>2, <3>3
    <2>5. ASSUME NEW i \in Places(q), d = [w EXCEPT !.cells[i] = o[i]] PROVE d.cells \in Seq(X)
      <3>1. d.cells = [q EXCEPT ![i] = o[i]]
        BY <1>3, <2>5
      <3>2. i \in 1..n /\ o[i] \in X
        BY <1>8, <1>9
      <3> QED BY <1>1, <1>6, <3>1, <3>2
    <2>6. ASSUME NEW i \in Places(q), d = [w EXCEPT !.cells[i].key = <<"spoilt">>] PROVE d.cells \in Seq(X)
      <3>1. d.cells = [q EXCEPT ![i] = Spoilt(q[i])]
        BY <1>3, <2>6 DEF Spoilt
      <3>2. i \in 1..n /\ Spoilt(q[i]) \in X
        BY <1>7, <1>9
      <3> QED BY <1>1, <1>6, <3>1, <3>2
    <2>7. ASSUME NEW x, \/ d = [w EXCEPT !.header.records = x] \/ d = [w EXCEPT !.header.version = x]
                        \/ d = [w EXCEPT !.header.mark = x] \/ d = [w EXCEPT !.cut = x]
          PROVE  d.cells \in Seq(X)
      <3>1. d.cells = q
        BY <1>3, <2>7
      <3> QED BY <1>6, <3>1
    <2>8. ASSUME d = [other EXCEPT !.header = w.header] PROVE d.cells \in Seq(X)
      <3>1. d.cells = o
        BY <1>3, <2>8
      <3> QED BY <1>6, <3>1
    <2>9. d \in Damaged(w) =>
            \/ \E i \in Places(q) : d = [w EXCEPT !.cells = Without(q, i)]
            \/ \E i \in Places(q) : d = [w EXCEPT !.cells = SubSeq(q, 1, i) \o SubSeq(q, i, Len(q))]
            \/ \E i \in Places(q) : \E j \in Places(q) : d = [w EXCEPT !.cells = Exchanged(q, i, j)]
            \/ \E i \in Places(q) : d = [w EXCEPT !.cells[i] = o[i]]
            \/ \E i \in Places(q) : d = [w EXCEPT !.cells[i].key = <<"spoilt">>]
            \/ \E x : d = [w EXCEPT !.header.records = x]
            \/ \E x : d = [w EXCEPT !.header.version = x]
            \/ \E x : d = [w EXCEPT !.header.mark = x]
            \/ \E x : d = [w EXCEPT !.cut = x]
            \/ d = [other EXCEPT !.header = w.header]
      <3> DEFINE A1 == {[w EXCEPT !.cells = Without(q, i)] : i \in Places(q)}
                 A2 == {[w EXCEPT !.cells = SubSeq(q, 1, i) \o SubSeq(q, i, Len(q))] : i \in Places(q)}
                 A3 == {[w EXCEPT !.cells = Exchanged(q, p[1], p[2])] : p \in Places(q) \X Places(q)}
                 A4 == {[w EXCEPT !.cells[i] = o[i]] : i \in Places(q)}
                 A5 == {[w EXCEPT !.cells[i].key = <<"spoilt">>] : i \in Places(q)}
                 A6 == {[w EXCEPT !.header.records = x] : x \in {Len(q) - 1, Len(q) + 1}}
                 A7 == {[w EXCEPT !.header.version = x] : x \in Versions}
                 A8 == {[w EXCEPT !.header.mark = "other"], [other EXCEPT !.header = w.header]}
                 A9 == {[w EXCEPT !.cut = x] : x \in {1, TagBytes, Chunk + TagBytes} \cap 1..(Size(w) - w.start)}
      <3>1. Damaged(w) = A1 \cup A2 \cup A3 \cup A4 \cup A5 \cup A6 \cup A7 \cup A8 \cup A9
        BY Zenon DEF Damaged, q, o, other
      <3>2. (d \in A1 => \E i \in Places(q) : d = [w EXCEPT !.cells = Without(q, i)])
        OBVIOUS
      <3>3. (d \in A2 => \E i \in Places(q) : d = [w EXCEPT !.cells = SubSeq(q, 1, i) \o SubSeq(q, i, Len(q))])
        OBVIOUS
      <3>4. (d \in A3 => \E i \in Places(q) : \E j \in Places(q) : d = [w EXCEPT !.cells = Exchanged(q, i, j)])
        OBVIOUS
      <3>5. (d \in A4 => \E i \in Places(q) : d = [w EXCEPT !.cells[i] = o[i]])
        OBVIOUS
      <3>6. (d \in A5 => \E i \in Places(q) : d = [w EXCEPT !.cells[i].key = <<"spoilt">>])
        OBVIOUS
      <3>7. (d \in A6 => \E x : d = [w EXCEPT !.header.records = x]) /\ (d \in A7 => \E x : d = [w EXCEPT !.header.version = x])
        OBVIOUS
      <3>8. (d \in A9 => \E x : d = [w EXCEPT !.cut = x])
        OBVIOUS
      <3>9. d \in A8 => (\E x : d = [w EXCEPT !.header.mark = x]) \/ d = [other EXCEPT !.header = w.header]
        OBVIOUS
      <3> HIDE DEF A1, A2, A3, A4, A5, A6, A7, A8, A9
      <3> QED BY <3>1, <3>2, <3>3, <3>4, <3>5, <3>6, <3>7, <3>8, <3>9
    <2> QED BY <2>1, <2>2, <2>3, <2>4, <2>5, <2>6, <2>7, <2>8, <2>9
  <1> QED BY <1>5, <1>10 DEF AllGenuine

(* A reader gets the source or nothing, and nothing without the key.       *)
LEMMA SourceOrNothing ==
  ASSUME NEW s, NEW w, AllGenuine(s, w.cells), NEW key \in {"key", "wrong"}
  PROVE  /\ decryptPrivacyEnvelope(w, key) \in {"source", "refused"}
         /\ decryptPrivacyEnvelope(w, key) = "source" => key = "key"
  <1> DEFINE header == w.header
             n == header.records
             bytes == HeaderBytes(header.version)
             From(i) == bytes + i * (Chunk + TagBytes)
             record == [i \in 0..(n - 1) |-> SliceAt(w, From(i), IF i = n - 1 THEN Size(w) ELSE From(i + 1))]
             meta == record[0].of
             Lo(i) == Most(i * Chunk, meta.prefix)
             Hi(i) == Least(i * Chunk + record[i].hi - record[i].lo, meta.prefix + meta.size)
             stretch == {i \in 0..(n - 1) : Hi(i) > Lo(i)}
             taken == /\ Size(w) \in 1..MaxTransfer
                      /\ parseEnvelopeHeader(w)
                      /\ \A i \in 0..(n - 1) : Authentic(record[i], key, header, i)
                      /\ parseEnvelopeMetadata(record[0])
                      /\ paddedPlaintextLength(meta.prefix + meta.size) = Size(w) - bytes - n * TagBytes
                      /\ SumOver([i \in stretch |-> Hi(i) - Lo(i)], stretch, Chunk) = meta.size
  <1>1. decryptPrivacyEnvelope(w, key) =
          IF taken
          THEN IF \A i \in stretch : record[i].lo = i * Chunk /\ record[i].of = meta THEN "source" ELSE "other"
          ELSE "refused"
    BY DEF decryptPrivacyEnvelope
  <1>2. ASSUME NEW lo, NEW hi PROVE SliceAt(w, lo, hi) = Garbage \/ Genuine(s, SliceAt(w, lo, hi))
    <2> DEFINE near == (lo - w.start) \div (Chunk + TagBytes)
               at == {i \in (near + 1)..(near + 4) \cap 1..Len(w.cells) :
                        CellStart(w, i) = lo /\ lo + CellBytes(w.cells[i]) = hi /\ hi <= Size(w)}
    <2>1. SliceAt(w, lo, hi) = IF at = {} THEN Garbage ELSE w.cells[CHOOSE i \in at : TRUE]
      BY DEF SliceAt
    <2>2. \A i \in at : i \in 1..Len(w.cells)
      OBVIOUS
    <2>3. \A i \in 1..Len(w.cells) : Genuine(s, w.cells[i])
      <3>1. PICK X : w.cells \in Seq(X) /\ \A c \in X : Genuine(s, c)
        BY DEF AllGenuine
      <3>2. \A i \in 1..Len(w.cells) : w.cells[i] \in X
        BY <3>1
      <3> QED BY <3>1, <3>2
    <2> HIDE DEF at
    <2>4. at # {} => Genuine(s, w.cells[CHOOSE i \in at : TRUE])
      BY <2>2, <2>3
    <2> QED BY <2>1, <2>4
  <1>3. \A i \in 0..(n - 1) : record[i] = Garbage \/ Genuine(s, record[i])
    BY <1>2
  <1>4. taken => n \in Nat /\ n >= 1
    <2>1. taken => parseEnvelopeHeader(w)
      OBVIOUS
    <2>2. parseEnvelopeHeader(w) => w.header.records \in 1..MaxRecords
      BY DEF parseEnvelopeHeader
    <2> HIDE DEF taken
    <2> QED BY <2>1, <2>2
  <1>5. ASSUME taken, NEW i \in 0..(n - 1) PROVE record[i].lo = i * Chunk /\ record[i].of = s /\ key = "key"
    <2>1. record[i].key = DerivedKey(key, header) /\ record[i].nonce = <<header.mark, i>>
      BY <1>5 DEF Authentic
    <2>2. Genuine(s, record[i])
      <3>1. Garbage.key = <<>>
        BY DEF Garbage
      <3> HIDE DEF record, n, header
      <3> QED BY <1>3, <2>1, <3>1, KeysDiffer
    <2> HIDE DEF record, n, header, taken
    <2>3. i \in Nat
      BY <1>4, <1>5
    <2>7. PICK m : \E k \in Nat : record[i].nonce = <<m, k>> /\ record[i].lo = k * Chunk
      BY <2>2 DEF Genuine
    <2>4. PICK j \in Nat : record[i].nonce = <<m, j>> /\ record[i].lo = j * Chunk
      BY <2>7
    <2>5. j = i
      BY <2>1, <2>4
    <2>6. record[i].of = s /\ key \in {"key", "spoilt"}
      BY <2>1, <2>2, KeysDiffer DEF Genuine
    <2> QED BY <2>4, <2>5, <2>6
  <1>6. CASE taken
    <2>1. 0 \in 0..(n - 1)
      <3> HIDE DEF taken, n
      <3> QED BY <1>4, <1>6
    <2>2. meta = s /\ key = "key"
      <3> HIDE DEF record, n, taken
      <3> QED BY <1>5, <1>6, <2>1
    <2>3. stretch \subseteq 0..(n - 1)
      OBVIOUS
    <2> HIDE DEF record, n, taken, meta, stretch
    <2>4. decryptPrivacyEnvelope(w, key) = "source"
      BY <1>1, <1>5, <1>6, <2>2, <2>3
    <2> QED BY <2>2, <2>4
  <1>7. CASE ~taken
    <2> HIDE DEF taken, record, stretch
    <2> QED BY <1>1, <1>7
  <1> QED BY <1>6, <1>7

(***************************************************************************)
(* The inductive invariant of sealing and opening                          *)
(***************************************************************************)

(* How much of the source the first k records hold.                        *)
Covered(s, k) == Least(Most(k * Chunk, s.prefix), s.prefix + s.size) - s.prefix

(* The first k records.                                                    *)
Made(s, k) == [i \in 1..k |-> Sealed(s, "key", HeaderOf(s, "FSWNENC2", "mark"), i - 1)]

Counted(k) == [i \in 1..k |-> i - 1]

Accepted == source \in Sources /\ source.size <= MaxFile

Fresh ==
  /\ source = None /\ waiting = [c \in Callers |-> None] /\ counter = 0 /\ hashed = 0 /\ digest = FALSE
  /\ cells = <<>> /\ sealed = <<>>

(* At most one call of next() is out, for the next record; its slice is    *)
(* hashed when it is read, and what is out is what is made.                *)
OneCall ==
  /\ \A c \in Callers : waiting[c] # None => waiting[c].index = counter /\ counter < RecordCount(source)
  /\ \A c, d \in Callers : waiting[c] # None /\ waiting[d] # None => c = d

InOrder ==
  /\ sealed = Counted(counter) /\ cells = Made(source, counter)
  /\ (\A c \in Callers : waiting[c] = None \/ waiting[c].at = "reading") => hashed = Covered(source, counter)
  /\ \A c \in Callers : waiting[c] # None /\ waiting[c].at = "sealing" => hashed = Covered(source, counter + 1)

AsMade == \E v \in Versions : wire = Whole(source, v, "mark") /\ (counter > 0 => v = "FSWNENC2")

EnvelopeInv ==
  /\ EnvelopeTypeOK /\ NonceOnce /\ DigestFits /\ OpensToSource
  /\ stage = "new" => Fresh
  /\ stage = "making" => Accepted /\ OneCall /\ InOrder
  /\ stage = "made" => Accepted /\ AsMade
  /\ stage \in {"given", "opened"} => Accepted /\ AllGenuine(source, wire.cells)

(* The slices of the records follow one another and end with the source.   *)
LEMMA SlicesFollow ==
  ASSUME NEW s \in Sources
  PROVE  /\ Covered(s, 0) = 0 /\ Covered(s, RecordCount(s)) = s.size
         /\ \A i \in 0..(RecordCount(s) - 1) :
              /\ SliceOf(s, i).hi <= SliceOf(s, i).lo => Covered(s, i + 1) = Covered(s, i)
              /\ ~(SliceOf(s, i).hi <= SliceOf(s, i).lo) =>
                    Covered(s, i) = SliceOf(s, i).lo /\ Covered(s, i + 1) = SliceOf(s, i).hi
         /\ \A i \in 0..RecordCount(s) : Covered(s, i) \in Nat
  <1> DEFINE n == RecordCount(s)
             P == s.prefix
             T == s.prefix + s.size
  <1>1. /\ n \in Nat /\ n >= 1 /\ P \in Nat /\ T \in Nat /\ P <= T /\ s.size = T - P /\ T <= PlaintextLength(s)
        /\ PlaintextLength(s) \in Nat /\ PlaintextLength(s) <= n * Chunk /\ (n - 1) * Chunk < T
        /\ Chunk \in Nat \ {0} /\ P < Chunk
    BY Lengths, SourceFacts, LayoutIs
  <1>2. \A k \in Nat : Covered(s, k) = Least(Most(k * Chunk, P), T) - P
    BY DEF Covered
  <1>3. \A i \in Nat : SliceOf(s, i).lo = Most(i * Chunk, P) - P /\ SliceOf(s, i).hi = Least((i + 1) * Chunk, T) - P
    BY DEF SliceOf
  <1> HIDE DEF n, P, T
  <1>4. \A k \in Nat : Covered(s, k) \in Nat
    <2> SUFFICES ASSUME NEW k \in Nat PROVE Covered(s, k) \in Nat
      OBVIOUS
    <2>1. k * Chunk \in Nat
      BY <1>1
    <2> QED BY <1>1, <1>2, <2>1 DEF Least, Most
  <1>5. Covered(s, 0) = 0
    <2>1. 0 * Chunk = 0
      BY <1>1
    <2> QED BY <1>1, <1>2, <2>1 DEF Least, Most
  <1>6. Covered(s, n) = s.size
    <2>1. n * Chunk \in Nat /\ T <= n * Chunk
      BY <1>1
    <2> QED BY <1>1, <1>2, <2>1 DEF Least, Most
  <1>7. ASSUME NEW i \in 0..(n - 1)
        PROVE  /\ SliceOf(s, i).hi <= SliceOf(s, i).lo => Covered(s, i + 1) = Covered(s, i)
               /\ ~(SliceOf(s, i).hi <= SliceOf(s, i).lo) =>
                     Covered(s, i) = SliceOf(s, i).lo /\ Covered(s, i + 1) = SliceOf(s, i).hi
    <2>1. i \in Nat /\ i * Chunk \in Nat /\ (n - 1) * Chunk \in Nat /\ (i + 1) * Chunk = i * Chunk + Chunk
      BY <1>1, <1>7
    <2>2. i * Chunk <= (n - 1) * Chunk
      <3>1. (n - 1) * Chunk = i * Chunk + (n - 1 - i) * Chunk
        BY <1>1, <1>7
      <3>2. (n - 1 - i) * Chunk >= 0
        BY <1>1, <1>7
      <3>3. (n - 1 - i) * Chunk \in Int
        BY <1>1, <1>7
      <3> QED BY <2>1, <3>1, <3>2, <3>3
    <2> DEFINE a == i * Chunk
    <2>3. a \in Nat /\ a < T /\ (i + 1) * Chunk = a + Chunk
      BY <1>1, <2>1, <2>2
    <2>4. /\ Covered(s, i) = Least(Most(a, P), T) - P
          /\ Covered(s, i + 1) = Least(Most(a + Chunk, P), T) - P
          /\ SliceOf(s, i).lo = Most(a, P) - P /\ SliceOf(s, i).hi = Least(a + Chunk, T) - P
      BY <1>2, <1>3, <2>1, <2>3
    <2> HIDE DEF a
    <2> QED BY <1>1, <2>3, <2>4 DEF Least, Most
  <1>8. \A i \in 0..n : i \in Nat
    BY <1>1
  <1> QED BY <1>4, <1>5, <1>6, <1>7, <1>8 DEF n

(* One record more.                                                        *)
LEMMA OneMore ==
  ASSUME NEW s, NEW k \in Nat
  PROVE  /\ Append(Made(s, k), Sealed(s, "key", HeaderOf(s, "FSWNENC2", "mark"), k)) = Made(s, k + 1)
         /\ Append(Counted(k), k) = Counted(k + 1)
  <1> DEFINE e(i) == Sealed(s, "key", HeaderOf(s, "FSWNENC2", "mark"), i - 1)
             X == {e(i) : i \in 1..(k + 1)}
             q == Made(s, k)
             r == Append(q, e(k + 1))
  <1>1. q = [i \in 1..k |-> e(i)] /\ Made(s, k + 1) = [i \in 1..(k + 1) |-> e(i)]
    BY DEF Made
  <1>2. Append(Made(s, k), Sealed(s, "key", HeaderOf(s, "FSWNENC2", "mark"), k)) = r
    <2>1. k + 1 - 1 = k
      OBVIOUS
    <2> QED BY <2>1
  <1>3. \A i \in 1..(k + 1) : e(i) \in X
    OBVIOUS
  <1> HIDE DEF e, q
  <1>4. q \in Seq(X) /\ Len(q) = k /\ DOMAIN q = 1..k
    BY <1>1, <1>3
  <1>5. e(k + 1) \in X
    BY <1>3
  <1>6. r \in Seq(X) /\ Len(r) = k + 1
    BY <1>4, <1>5
  <1>7. \A i \in 1..(k + 1) : r[i] = IF i <= k THEN q[i] ELSE e(k + 1)
    BY <1>4, <1>5
  <1>8. r = [i \in 1..(k + 1) |-> r[i]]
    BY <1>6
  <1>9. \A i \in 1..(k + 1) : r[i] = e(i)
    BY <1>1, <1>7
  <1>10. r = Made(s, k + 1)
    <2> HIDE DEF r
    <2> QED BY <1>1, <1>8, <1>9
  <1>11. Counted(k) \in Seq(Int) /\ Len(Counted(k)) = k
    BY DEF Counted
  <1>12. Append(Counted(k), k) = Counted(k + 1)
    BY <1>11 DEF Counted
  <1> QED BY <1>2, <1>10, <1>12

LEMMA NothingYet ==
  ASSUME NEW s
  PROVE  Made(s, 0) = <<>> /\ Counted(0) = <<>>
  <1>1. 1..0 = {}
    OBVIOUS
  <1> QED BY <1>1 DEF Made, Counted

LEMMA RecordsCounted ==
  MaxRecords \in Nat
  <1>1. MaxFile + 4 + MaxMeta \in Nat /\ Chunk \in Nat \ {0}
    BY Lengths
  <1> QED BY <1>1, CeilDivIs DEF MaxRecords

LEMMA EnvelopeInvInit ==
  EnvelopeInit => EnvelopeInv
  <1> SUFFICES ASSUME EnvelopeInit PROVE EnvelopeInv
    OBVIOUS
  <1>1. MaxRecords \in Nat /\ 1..Len(<<>>) = {}
    BY RecordsCounted
  <1>2. EnvelopeTypeOK
    <2>1. /\ waiting \in [Callers -> {None} \cup [at : {"reading", "sealing"}, index : 0..(MaxRecords - 1)]]
          /\ source \in Sources \cup {None}
      BY DEF EnvelopeInit
    <2>2. counter \in 0..MaxRecords /\ hashed \in Nat \cup {None}
      BY <1>1 DEF EnvelopeInit
    <2>3. digest \in BOOLEAN /\ cancelled \in BOOLEAN
      BY DEF EnvelopeInit
    <2> QED BY <2>1, <2>2, <2>3 DEF EnvelopeInit, EnvelopeTypeOK
  <1>3. NonceOnce
    BY <1>1 DEF EnvelopeInit, NonceOnce
  <1>4. DigestFits /\ OpensToSource /\ (stage = "new" => Fresh)
    BY DEF EnvelopeInit, DigestFits, OpensToSource, Fresh
  <1> QED BY <1>2, <1>3, <1>4 DEF EnvelopeInit, EnvelopeInv

LEMMA InvCreate ==
  ASSUME EnvelopeInv, NEW s \in Sources, NEW direct \in BOOLEAN, Create(s, direct)
  PROVE  EnvelopeInv'
  <1>1. /\ stage = "new" /\ source' = s /\ Fresh /\ UNCHANGED <<encoder, cancelled, wire, result>>
        /\ stage' \in {"failed", "making"} /\ (stage' = "making" => s.size <= MaxFile)
    <2>1. s.size \in Nat /\ MaxFile \in Nat
      BY SourceFacts, Lengths
    <2> QED BY <2>1 DEF EnvelopeInv, Create
  <1>2. EnvelopeTypeOK'
    <2>1. RecordCount(s) \in Nat
      BY LayoutIs
    <2> QED BY <1>1, <2>1 DEF EnvelopeInv, EnvelopeTypeOK, Fresh, encoder
  <1>3. NonceOnce' /\ DigestFits' /\ OpensToSource'
    BY <1>1 DEF EnvelopeInv, NonceOnce, DigestFits, OpensToSource, Fresh, encoder
  <1>4. stage' = "making" => Accepted' /\ OneCall' /\ InOrder'
    <2>1. Covered(s, 0) = 0
      BY SlicesFollow
    <2>2. stage' = "making" => OneCall' /\ Accepted'
      BY <1>1 DEF OneCall, Accepted, Fresh, encoder
    <2>3. InOrder'
      BY <1>1, <2>1, NothingYet DEF InOrder, Fresh, encoder
    <2> QED BY <2>2, <2>3
  <1> QED BY <1>1, <1>2, <1>3, <1>4 DEF EnvelopeInv

LEMMA InvFind ==
  ASSUME EnvelopeInv, NEW s \in Sources, NEW v \in Versions, Find(s, v)
  PROVE  EnvelopeInv'
  <1>1. /\ stage = "new" /\ stage' = "made" /\ source' = s /\ Fresh /\ UNCHANGED <<encoder, cancelled, result>>
        /\ s.size <= MaxFile /\ wire' = Whole(s, v, "mark")
    <2>1. s.size \in Nat /\ MaxFile \in Nat
      BY SourceFacts, Lengths
    <2> QED BY <2>1 DEF EnvelopeInv, Find
  <1>2. EnvelopeTypeOK'
    <2>1. RecordCount(s) \in Nat
      BY LayoutIs
    <2> QED BY <1>1, <2>1 DEF EnvelopeInv, EnvelopeTypeOK, Fresh, encoder
  <1>3. NonceOnce' /\ DigestFits' /\ OpensToSource'
    BY <1>1 DEF EnvelopeInv, NonceOnce, DigestFits, OpensToSource, Fresh, encoder
  <1>4. AsMade' /\ Accepted'
    BY <1>1 DEF AsMade, Accepted, Fresh, encoder
  <1> QED BY <1>1, <1>2, <1>3, <1>4 DEF EnvelopeInv

(* What holds while records are made.                                      *)
LEMMA Making ==
  ASSUME EnvelopeInv, stage = "making"
  PROVE  /\ source \in Sources /\ source.size <= MaxFile /\ OneCall /\ InOrder
         /\ counter \in Nat /\ RecordCount(source) \in Nat /\ RecordCount(source) >= 1 /\ MaxRecords \in Nat
         /\ counter <= RecordCount(source) /\ RecordCount(source) <= MaxRecords
         /\ EnvelopeTypeOK /\ NonceOnce /\ DigestFits
         /\ (counter < RecordCount(source) => digest = FALSE)
  <1>1. /\ source \in Sources /\ source.size <= MaxFile /\ OneCall /\ InOrder
        /\ EnvelopeTypeOK /\ NonceOnce /\ DigestFits
    BY DEF EnvelopeInv, Accepted
  <1>2. RecordCount(source) \in Nat /\ RecordCount(source) >= 1 /\ RecordCount(source) <= MaxRecords
    BY <1>1, LayoutIs
  <1>3. MaxRecords \in Nat /\ counter \in Nat /\ counter <= RecordCount(source) /\ digest \in BOOLEAN
    BY <1>1, RecordsCounted DEF EnvelopeTypeOK
  <1>4. counter < RecordCount(source) => digest = FALSE
    BY <1>1, <1>2, <1>3 DEF DigestFits
  <1> QED BY <1>1, <1>2, <1>3, <1>4

LEMMA InvCallNext ==
  ASSUME EnvelopeInv, NEW c \in Callers, CallNext(c)
  PROVE  EnvelopeInv'
  <1>1. /\ stage = "making" /\ waiting[c] = None /\ ~Busy /\ counter < RecordCount(source)
        /\ UNCHANGED <<source, counter, hashed, digest, cells, sealed, cancelled, wire, result>>
    BY DEF CallNext
  <1>2. NonceOnce' /\ DigestFits'
    BY <1>1, Making DEF NonceOnce, DigestFits
  <1>3. CASE stage' = "failed" /\ UNCHANGED waiting
    BY <1>1, <1>2, <1>3, Making DEF EnvelopeInv, EnvelopeTypeOK, OpensToSource
  <1>4. CASE waiting' = [waiting EXCEPT ![c] = [at |-> "reading", index |-> counter]] /\ UNCHANGED stage
    <2>1. \A e \in Callers : waiting[e] = None
      BY <1>1 DEF Busy
    <2>2. waiting \in [Callers -> {None} \cup [at : {"reading", "sealing"}, index : 0..(MaxRecords - 1)]]
      BY <1>1, Making DEF EnvelopeTypeOK
    <2>3. [at |-> "reading", index |-> counter] \in [at : {"reading", "sealing"}, index : 0..(MaxRecords - 1)]
      BY <1>1, Making
    <2>4. EnvelopeTypeOK'
      BY <1>1, <1>4, <2>2, <2>3, Making DEF EnvelopeTypeOK
    <2>5. \A e \in Callers : waiting'[e] = IF e = c THEN [at |-> "reading", index |-> counter] ELSE None
      BY <1>4, <2>1, <2>2
    <2>6. OneCall'
      BY <1>1, <2>5 DEF OneCall
    <2>7. InOrder'
      <3>1. \A e \in Callers : ~(waiting'[e] # None /\ waiting'[e].at = "sealing")
        BY <2>5
      <3>2. hashed = Covered(source, counter)
        BY <1>1, <2>1, Making DEF InOrder
      <3> QED BY <1>1, <3>1, <3>2, Making DEF InOrder
    <2> QED BY <1>1, <1>2, <1>4, <2>4, <2>6, <2>7, Making DEF EnvelopeInv, Accepted, OpensToSource
  <1> QED BY <1>3, <1>4 DEF CallNext

LEMMA InvReads ==
  ASSUME EnvelopeInv, NEW c \in Callers, Reads(c)
  PROVE  EnvelopeInv'
  <1>1. /\ stage = "making" /\ waiting[c] # None /\ waiting[c].at = "reading"
        /\ hashed' = HashedAfter(waiting[c].index) /\ waiting' = [waiting EXCEPT ![c].at = "sealing"]
        /\ UNCHANGED <<stage, source, counter, digest, cells, sealed, cancelled, wire, result>>
    BY DEF Reads
  <1>2. waiting[c].index = counter /\ counter < RecordCount(source) /\ \A e \in Callers : waiting[e] # None => e = c
    BY <1>1, Making DEF OneCall
  <1>3. waiting \in [Callers -> {None} \cup [at : {"reading", "sealing"}, index : 0..(MaxRecords - 1)]]
    BY <1>1, Making DEF EnvelopeTypeOK
  <1>4. \A e \in Callers : waiting'[e] = IF e = c THEN [at |-> "sealing", index |-> counter] ELSE None
    BY <1>1, <1>2, <1>3
  <1>5. hashed = Covered(source, counter)
    <2>1. \A e \in Callers : waiting[e] = None \/ waiting[e].at = "reading"
      BY <1>1, <1>2
    <2> QED BY <1>1, <2>1, Making DEF InOrder
  <1>6. hashed' = Covered(source, counter + 1)
    <2>1. counter \in 0..(RecordCount(source) - 1)
      BY <1>1, <1>2, Making
    <2>2. source \in Sources
      BY <1>1, Making
    <2> HIDE DEF Covered
    <2> QED BY <1>1, <1>2, <1>5, <2>1, <2>2, SlicesFollow DEF HashedAfter
  <1>7. hashed' \in Nat
    <2>1. counter + 1 \in 0..RecordCount(source)
      BY <1>1, <1>2, Making
    <2> QED BY <1>1, <1>6, <2>1, Making, SlicesFollow
  <1>8. EnvelopeTypeOK'
    <2>1. [at |-> "sealing", index |-> counter] \in [at : {"reading", "sealing"}, index : 0..(MaxRecords - 1)]
      BY <1>1, <1>2, Making
    <2>2. waiting' \in [Callers -> {None} \cup [at : {"reading", "sealing"}, index : 0..(MaxRecords - 1)]]
      <3>1. waiting' = [e \in Callers |-> waiting'[e]]
        BY <1>1, <1>3
      <3> QED BY <1>4, <2>1, <3>1
    <2> QED BY <1>1, <1>7, <2>2, Making DEF EnvelopeTypeOK
  <1>9. NonceOnce' /\ DigestFits'
    BY <1>1, <1>2, Making DEF NonceOnce, DigestFits
  <1>10. OneCall'
    BY <1>1, <1>2, <1>4 DEF OneCall
  <1>11. InOrder'
    <2>1. waiting'[c] # None
      <3>1. [at |-> "sealing", index |-> counter] \in [at : {"reading", "sealing"}, index : Nat]
        BY <1>1, Making
      <3> QED BY <1>4, <3>1, EnvelopeAssumption
    <2>2. ~\A e \in Callers : waiting'[e] = None \/ waiting'[e].at = "reading"
      BY <1>4, <2>1
    <2> QED BY <1>1, <1>6, <2>2, Making DEF InOrder
  <1> QED BY <1>1, <1>8, <1>9, <1>10, <1>11, Making DEF EnvelopeInv, Accepted, OpensToSource

LEMMA InvReadFails ==
  ASSUME EnvelopeInv, NEW c \in Callers, ReadFails(c)
  PROVE  EnvelopeInv'
  <1>1. /\ stage = "making" /\ stage' = "failed" /\ waiting' = [waiting EXCEPT ![c] = None]
        /\ UNCHANGED <<source, counter, hashed, digest, cells, sealed, cancelled, wire, result>>
    BY DEF ReadFails
  <1>2. EnvelopeTypeOK'
    BY <1>1, Making DEF EnvelopeTypeOK
  <1>3. NonceOnce' /\ DigestFits'
    BY <1>1, Making DEF NonceOnce, DigestFits
  <1> QED BY <1>1, <1>2, <1>3 DEF EnvelopeInv, OpensToSource

LEMMA InvSeals ==
  ASSUME EnvelopeInv, NEW c \in Callers, Seals(c)
  PROVE  EnvelopeInv'
  <1>1. /\ stage = "making" /\ waiting[c] # None /\ waiting[c].at = "sealing"
        /\ waiting' = [waiting EXCEPT ![c] = None] /\ sealed' = Append(sealed, waiting[c].index)
        /\ UNCHANGED <<source, hashed, cancelled, wire, result>>
    BY DEF Seals
  <1>2. waiting[c].index = counter /\ counter < RecordCount(source) /\ \A e \in Callers : waiting[e] # None => e = c
    BY <1>1, Making DEF OneCall
  <1>3. waiting \in [Callers -> {None} \cup [at : {"reading", "sealing"}, index : 0..(MaxRecords - 1)]]
    BY <1>1, Making DEF EnvelopeTypeOK
  <1>4. \A e \in Callers : waiting'[e] = None
    BY <1>1, <1>2, <1>3
  <1>5. counter \in Nat /\ sealed = Counted(counter) /\ cells = Made(source, counter)
    BY <1>1, Making DEF InOrder
  <1>6. sealed' = Counted(counter + 1)
    BY <1>1, <1>2, <1>5, OneMore
  <1>7. NonceOnce'
    <2>1. Len(Counted(counter + 1)) = counter + 1 /\ \A i \in 1..(counter + 1) : Counted(counter + 1)[i] = i - 1
      BY <1>5 DEF Counted
    <2> QED BY <1>6, <2>1 DEF NonceOnce
  <1>8. waiting' \in [Callers -> {None} \cup [at : {"reading", "sealing"}, index : 0..(MaxRecords - 1)]]
    BY <1>1, <1>3
  <1>9. CASE stage' = "failed" /\ UNCHANGED <<counter, cells, digest>>
    <2>1. EnvelopeTypeOK'
      BY <1>1, <1>8, <1>9, Making DEF EnvelopeTypeOK
    <2>2. DigestFits'
      BY <1>1, <1>9, Making DEF DigestFits
    <2> QED BY <1>7, <1>9, <2>1, <2>2 DEF EnvelopeInv, OpensToSource
  <1>10. CASE /\ counter' = counter + 1 /\ digest' = (counter' = RecordCount(source)) /\ UNCHANGED stage
              /\ cells' = Append(cells, Sealed(source, "key", Header, waiting[c].index))
    <2>1. hashed = Covered(source, counter + 1)
      BY <1>1, Making DEF InOrder
    <2>2. EnvelopeTypeOK'
      <3>1. counter' \in 0..MaxRecords /\ counter' <= RecordCount(source) /\ digest' \in BOOLEAN
        BY <1>1, <1>2, <1>10, Making
      <3> QED BY <1>1, <1>8, <1>10, <3>1, Making DEF EnvelopeTypeOK
    <2>3. DigestFits'
      <3>1. digest' => counter + 1 = RecordCount(source)
        BY <1>10
      <3>2. Covered(source, RecordCount(source)) = source.size
        BY <1>1, Making, SlicesFollow
      <3> HIDE DEF Covered
      <3> QED BY <1>1, <1>10, <2>1, <3>1, <3>2 DEF DigestFits
    <2>4. OneCall'
      BY <1>4 DEF OneCall
    <2>5. InOrder'
      <3>1. cells' = Made(source, counter + 1)
        BY <1>2, <1>5, <1>10, OneMore DEF Header
      <3> QED BY <1>1, <1>4, <1>6, <1>10, <2>1, <3>1 DEF InOrder
    <2> QED BY <1>1, <1>7, <1>10, <2>2, <2>3, <2>4, <2>5, Making DEF EnvelopeInv, Accepted, OpensToSource
  <1> QED BY <1>9, <1>10 DEF Seals

LEMMA InvFinish ==
  ASSUME EnvelopeInv, Finish
  PROVE  EnvelopeInv'
  <1>1. /\ stage = "making" /\ counter >= RecordCount(source) /\ wire' = Wire(Header, cells)
        /\ stage' \in {"made", "failed"} /\ UNCHANGED <<source, encoder, cancelled, result>>
    BY DEF Finish
  <1>2. counter = RecordCount(source) /\ cells = Made(source, counter)
    BY <1>1, Making DEF InOrder
  <1>3. wire' = Whole(source, "FSWNENC2", "mark")
    BY <1>1, <1>2 DEF Whole, Header, Made
  <1>4. EnvelopeTypeOK' /\ NonceOnce' /\ DigestFits'
    BY <1>1, <1>2, Making DEF EnvelopeTypeOK, NonceOnce, DigestFits, encoder
  <1>5. AsMade' /\ Accepted'
    BY <1>1, <1>3, Making DEF AsMade, Accepted, Versions
  <1> QED BY <1>1, <1>4, <1>5 DEF EnvelopeInv, OpensToSource

LEMMA InvAbort ==
  ASSUME EnvelopeInv, Abort
  PROVE  EnvelopeInv'
  <1>1. stage \in {"new", "making"} /\ cancelled' = TRUE /\ UNCHANGED <<stage, source, encoder, wire, result>>
    BY DEF Abort
  <1>2. EnvelopeTypeOK' /\ NonceOnce' /\ DigestFits' /\ OpensToSource'
    BY <1>1 DEF EnvelopeInv, EnvelopeTypeOK, NonceOnce, DigestFits, OpensToSource, encoder
  <1>3. (Fresh => Fresh') /\ (Accepted => Accepted') /\ (OneCall => OneCall') /\ (InOrder => InOrder')
    BY <1>1 DEF Fresh, Accepted, OneCall, InOrder, encoder
  <1> QED BY <1>1, <1>2, <1>3 DEF EnvelopeInv

LEMMA InvArrives ==
  ASSUME EnvelopeInv, Arrives
  PROVE  EnvelopeInv'
  <1>1. /\ stage = "made" /\ stage' = "given" /\ wire' \in {wire} \cup Damaged(wire)
        /\ UNCHANGED <<source, encoder, cancelled, result>>
    BY DEF Arrives
  <1>2. Accepted /\ \E v \in Versions : wire = Whole(source, v, "mark")
    BY <1>1 DEF EnvelopeInv, AsMade
  <1>3. AllGenuine(source, wire'.cells)
    <2>1. PICK v \in Versions : wire = Whole(source, v, "mark")
      BY <1>2
    <2>2. source \in Sources
      BY <1>2 DEF Accepted
    <2> QED BY <1>1, <2>1, <2>2, DamageIsGenuine
  <1>4. EnvelopeTypeOK' /\ NonceOnce' /\ DigestFits' /\ OpensToSource'
    BY <1>1 DEF EnvelopeInv, EnvelopeTypeOK, NonceOnce, DigestFits, OpensToSource, encoder
  <1>5. AllGenuine(source, wire.cells)' /\ Accepted'
    BY <1>1, <1>2, <1>3 DEF Accepted, AllGenuine, Genuine
  <1> QED BY <1>1, <1>4, <1>5 DEF EnvelopeInv

LEMMA InvOpen ==
  ASSUME EnvelopeInv, NEW key \in {"key", "wrong"}, Open(key)
  PROVE  EnvelopeInv'
  <1>1. /\ stage = "given" /\ stage' = "opened" /\ result' = [key |-> key, file |-> decryptPrivacyEnvelope(wire, key)]
        /\ UNCHANGED <<source, encoder, cancelled, wire>>
    BY DEF Open
  <1>2. Accepted /\ AllGenuine(source, wire.cells)
    BY <1>1 DEF EnvelopeInv
  <1>3. /\ decryptPrivacyEnvelope(wire, key) \in {"source", "refused"}
        /\ decryptPrivacyEnvelope(wire, key) = "source" => key = "key"
    BY <1>2, SourceOrNothing
  <1>4. key = "key" /\ wire = Whole(source, wire.header.version, "mark") /\ source.size > 0 =>
          decryptPrivacyEnvelope(wire, key) = "source"
    <2>1. source \in Sources /\ (source.size > 0 => source.size \in 1..MaxFile)
      BY <1>2, SourceFacts, Lengths DEF Accepted
    <2> QED BY <2>1, WholeOpens
  <1>5. OpensToSource'
    BY <1>1, <1>3, <1>4 DEF OpensToSource
  <1>6. EnvelopeTypeOK' /\ NonceOnce' /\ DigestFits'
    BY <1>1 DEF EnvelopeInv, EnvelopeTypeOK, NonceOnce, DigestFits, encoder
  <1>7. AllGenuine(source, wire.cells)' /\ Accepted'
    BY <1>1, <1>2 DEF Accepted, AllGenuine, Genuine
  <1> QED BY <1>1, <1>5, <1>6, <1>7 DEF EnvelopeInv

LEMMA EnvelopeInvStep ==
  EnvelopeInv /\ [EnvelopeNext]_envelopeVars => EnvelopeInv'
  <1> SUFFICES ASSUME EnvelopeInv, [EnvelopeNext]_envelopeVars PROVE EnvelopeInv'
    OBVIOUS
  <1>1. CASE UNCHANGED envelopeVars
    <2>1. /\ UNCHANGED <<stage, source, waiting, counter, hashed, digest, cells, sealed, cancelled, wire, result>>
      BY <1>1 DEF envelopeVars, encoder
    <2> QED BY <2>1 DEF EnvelopeInv, EnvelopeTypeOK, NonceOnce, DigestFits, OpensToSource, Fresh, Accepted, OneCall,
                        InOrder, AsMade, AllGenuine, Genuine
  <1>2. CASE EnvelopeNext
    BY <1>2, InvCreate, InvFind, InvCallNext, InvReads, InvReadFails, InvSeals, InvFinish, InvAbort, InvArrives,
       InvOpen DEF EnvelopeNext
  <1> QED BY <1>1, <1>2

(* What was made has the announced length and is accepted by transfers and *)
(* readers.                                                                *)
LEMMA MadeFits ==
  EnvelopeInv => SealingFits
  <1> SUFFICES ASSUME EnvelopeInv PROVE SealingFits
    OBVIOUS
  <1>1. ASSUME stage = "made" /\ counter > 0
        PROVE  /\ Size(wire) = envelopeBytes(source) /\ Size(wire) <= MaxTransfer
               /\ parseEnvelopeHeader(wire)
               /\ source.prefix + source.size <= PlaintextLength(source)
    <2>1. source \in Sources /\ source.size <= MaxFile /\ wire = Whole(source, "FSWNENC2", "mark")
      BY <1>1 DEF EnvelopeInv, Accepted, AsMade
    <2>2. Size(wire) = HeaderBytes("FSWNENC2") + PlaintextLength(source) + RecordCount(source) * TagBytes
      BY <2>1, WholeSize
    <2>3. parseEnvelopeHeader(wire) /\ Size(wire) \in 1..MaxTransfer
      BY <2>1, WholeFits
    <2>4. Size(wire) <= MaxTransfer
      BY <2>3, Lengths
    <2>5. source.prefix + source.size <= PlaintextLength(source)
      BY <2>1, LayoutIs
    <2> QED BY <2>2, <2>3, <2>4, <2>5 DEF envelopeBytes
  <1> QED BY <1>1 DEF EnvelopeInv, SealingFits, SizesAgree

(* Whatever the sizes: no nonce is used twice, every byte of the source is *)
(* hashed once and in order before there is a digest, and what the encoder *)
(* of crypto.ts makes has exactly the length that was announced.           *)
THEOREM SealingAlwaysFits ==
  EnvelopeSpec => []SealingFits
  BY EnvelopeInvInit, EnvelopeInvStep, MadeFits, PTL DEF EnvelopeSpec

(* Whatever the sizes: decryptPrivacyEnvelope() gives the source or        *)
(* nothing of what was damaged, mixed or cut, nothing without the key, and *)
(* the source of every envelope that arrives as it was made.               *)
THEOREM AlwaysOpensToSource ==
  EnvelopeSpec => []OpensToSource
  <1>1. EnvelopeInv => OpensToSource
    BY DEF EnvelopeInv
  <1> QED BY <1>1, EnvelopeInvInit, EnvelopeInvStep, PTL DEF EnvelopeSpec
=============================================================================
