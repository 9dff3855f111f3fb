--------------------------- MODULE SendDeviceProofs ---------------------------
(***************************************************************************)
(* Proofs about the sender's device: about SendPage, for any number of     *)
(* connect() calls; about ScreenLock, for every set of locks; and about    *)
(* the two with the servers of their connection (SendDevice), for every    *)
(* set of invitations, allowlist and kind of browser.  A step of the       *)
(* device is a step of the page and a step of the lock object, so what is  *)
(* shown of the two holds on the device; what remains is where the servers *)
(* of the connection come from.                                            *)
(***************************************************************************)
EXTENDS SendDevice, TLAPS

(***************************************************************************)
(* The page.  TypeOK is inductive alone; the other invariants are          *)
(* together, with RunsInv and SessionInv.                                  *)
(***************************************************************************)

Events ==
  {"continue", "slow", "back", "claim-refused", "network", "wrong-words", "paired", "yes", "no", "invitation",
   "invalid-invitation", "expired", "too-big", "empty", "asking", "declined", "linking", "sending", "end-sent",
   "sent", "no-relay", "no-room", "connect-failed", "lost", "they-stopped", "failed", "cancel"}

(* What the parts an action is made of do to the types.                    *)
LEMMA GoType ==
  ASSUME TypeOK, NEW e \in Events, Go(e)
  PROVE  screen' \in Screens /\ reconnecting' \in BOOLEAN /\ endSent' \in BOOLEAN
  <1>1. Target(e) \in Screens
    BY DEF Events, Target, Screens, BeforeFile, AfterOffer, Picking, Pairing, Endings
  <1>2. screen' \in Screens
    BY <1>1 DEF TypeOK, Go
  <1>3. reconnecting' \in BOOLEAN /\ endSent' \in BOOLEAN
    BY DEF Go, EndSent
  <1> QED
    BY <1>2, <1>3

LEMMA DispatchType ==
  ASSUME TypeOK, NEW e \in Events, Dispatch(e)
  PROVE  /\ screen' \in Screens /\ words' \in 0..Tries /\ offline' \in BOOLEAN /\ reconnecting' \in BOOLEAN
         /\ hide' \in BOOLEAN /\ relayOffered' \in BOOLEAN /\ endSent' \in BOOLEAN
  <1>1. Go(e)
    BY DEF Dispatch
  <1>2. screen' \in Screens /\ reconnecting' \in BOOLEAN /\ endSent' \in BOOLEAN
    BY <1>1, GoType
  <1>3. words' \in 0..Tries
    BY TriesIsNat DEF TypeOK, Dispatch
  <1>4. offline' \in BOOLEAN /\ hide' \in BOOLEAN /\ relayOffered' \in BOOLEAN
    BY DEF TypeOK, Dispatch
  <1> QED
    BY <1>2, <1>3, <1>4

LEMMA StopFlowType ==
  ASSUME TypeOK, StopFlow
  PROVE  slow' \in 0..Tries /\ aborted' \subseteq Runs /\ flow' \in 0..Tries
  BY TriesIsNat DEF TypeOK, StopFlow, Aborting, Runs

LEMMA DropSessionType ==
  ASSUME TypeOK, DropSession PROVE session' \in BOOLEAN /\ stopped' \in BOOLEAN
  BY DEF DropSession

(* Every step keeps the types.                                             *)
LEMMA TypeStep == TypeOK /\ [Next]_vars => TypeOK'
  <1> SUFFICES ASSUME TypeOK, [Next]_vars PROVE TypeOK'
    OBVIOUS
  <1> DEFINE ViewType == /\ screen \in Screens /\ words \in 0..Tries /\ offline \in BOOLEAN
                         /\ reconnecting \in BOOLEAN /\ hide \in BOOLEAN /\ relayOffered \in BOOLEAN
                         /\ endSent \in BOOLEAN
  <1> USE TriesIsNat DEF view, pairing, sending, world, Calls, Runs
  <1>1. CASE Start
    BY <1>1 DEF Start, TypeOK, Screens, BeforeFile, AfterOffer, Picking, Pairing, Endings
  <1>2. CASE Online
    BY <1>2 DEF Online, TypeOK
  <1>3. CASE Continue
    <2>1. Dispatch("continue")
      BY <1>3 DEF Continue, Connect
    <2>2. ViewType'
      BY <2>1, DispatchType DEF Events
    <2>3. slow' \in 0..Tries /\ aborted' \subseteq Runs /\ flow' \in 0..Tries
      BY <1>3, StopFlowType DEF Continue, Connect
    <2>4. secret' \in BOOLEAN /\ claimed' \in BOOLEAN /\ left' \in BOOLEAN
      BY <1>3 DEF Continue, Connect, TypeOK
    <2>5. run' \in 0..Tries /\ runs' \in [Runs -> {"idle", "claiming", "pairing", "over"}]
      BY <1>3 DEF Continue, Connect, TypeOK
    <2> QED
      BY <1>3, <2>2, <2>3, <2>4, <2>5 DEF Continue, Connect, TypeOK
  <1>4. CASE TryAgain
    <2>1. Dispatch("continue")
      BY <1>4 DEF TryAgain, Connect
    <2>2. ViewType'
      BY <2>1, DispatchType DEF Events
    <2>3. slow' \in 0..Tries /\ aborted' \subseteq Runs /\ flow' \in 0..Tries
      BY <1>4, StopFlowType DEF TryAgain, Connect
    <2>4. secret' \in BOOLEAN /\ claimed' \in BOOLEAN /\ left' \in BOOLEAN
      BY <1>4 DEF TryAgain, Connect, TypeOK
    <2>5. run' \in 0..Tries /\ runs' \in [Runs -> {"idle", "claiming", "pairing", "over"}]
      BY <1>4 DEF TryAgain, Connect, TypeOK
    <2> QED
      BY <1>4, <2>2, <2>3, <2>4, <2>5 DEF TryAgain, Connect, TypeOK
  <1>5. CASE SlowFires
    <2>1. Dispatch("slow")
      BY <1>5 DEF SlowFires
    <2>2. ViewType'
      BY <2>1, DispatchType DEF Events
    <2> QED
      BY <1>5, <2>2 DEF SlowFires, TypeOK
  <1>6. CASE FlowExpires
    <2>1. Dispatch("expired")
      BY <1>6 DEF FlowExpires
    <2>2. ViewType'
      BY <2>1, DispatchType DEF Events
    <2> QED
      BY <1>6, <2>2 DEF FlowExpires, TypeOK
  <1>7. CASE CancelConnect
    <2>1. Dispatch("back") \/ Dispatch("cancel")
      BY <1>7 DEF CancelConnect
    <2>2. ViewType'
      BY <2>1, DispatchType DEF Events
    <2>3. session' \in BOOLEAN /\ stopped' \in BOOLEAN
      BY <1>7, DropSessionType DEF CancelConnect, TypeOK
    <2>4. slow' \in 0..Tries /\ aborted' \subseteq Runs /\ flow' \in 0..Tries
      BY <1>7, StopFlowType DEF CancelConnect
    <2> QED
      BY <1>7, <2>2, <2>3, <2>4 DEF CancelConnect, TypeOK
  <1>8. CASE No
    <2>1. Dispatch("no")
      BY <1>8 DEF No
    <2>2. ViewType'
      BY <2>1, DispatchType DEF Events
    <2>3. secret' \in BOOLEAN
      BY <1>8 DEF No, TypeOK
    <2> QED
      BY <1>8, <2>2, <2>3 DEF No, TypeOK
  <1>9. CASE Yes
    <2>1. Dispatch("yes")
      BY <1>9 DEF Yes
    <2>2. ViewType'
      BY <2>1, DispatchType DEF Events
    <2> QED
      BY <1>9, <2>2 DEF Yes, TypeOK
  <1>10. CASE FileChosen
    <2>1. Dispatch("asking")
      BY <1>10 DEF FileChosen
    <2>2. ViewType'
      BY <2>1, DispatchType DEF Events
    <2> QED
      BY <1>10, <2>2 DEF FileChosen, TypeOK
  <1>11. CASE Declined
    <2>1. CASE session /\ Finish /\ Dispatch("declined")
      <3>1. ViewType'
        BY <2>1, DispatchType DEF Events
      <3> QED
        BY <1>11, <2>1, <3>1 DEF Declined, Finish, TypeOK
    <2>2. CASE UNCHANGED <<view, session, lock>>
      BY <1>11, <2>2 DEF Declined, TypeOK
    <2> QED
      BY <1>11, <2>1, <2>2 DEF Declined, Settled
  <1>12. CASE Accepted
    BY <1>12 DEF Accepted, TypeOK
  <1>13. CASE Connecting
    <2>1. Dispatch("linking")
      BY <1>13 DEF Connecting
    <2>2. ViewType'
      BY <2>1, DispatchType DEF Events
    <2> QED
      BY <1>13, <2>2 DEF Connecting, TypeOK
  <1>14. CASE Connected
    <2>1. Dispatch("sending")
      BY <1>14 DEF Connected
    <2>2. ViewType'
      BY <2>1, DispatchType DEF Events
    <2> QED
      BY <1>14, <2>2 DEF Connected, TypeOK
  <1>15. CASE EndGoes
    <2>1. Dispatch("end-sent")
      BY <1>15 DEF EndGoes
    <2>2. ViewType'
      BY <2>1, DispatchType DEF Events
    <2> QED
      BY <1>15, <2>2 DEF EndGoes, TypeOK
  <1>16. CASE DropKeeps
    BY <1>16 DEF DropKeeps, TypeOK
  <1>17. CASE KeptHeard
    <2>1. CASE session /\ Finish /\ Dispatch("sent")
      <3>1. ViewType'
        BY <2>1, DispatchType DEF Events
      <3> QED
        BY <1>17, <2>1, <3>1 DEF KeptHeard, Finish, TypeOK
    <2>2. CASE UNCHANGED <<view, session, lock>>
      BY <1>17, <2>2 DEF KeptHeard, TypeOK
    <2> QED
      BY <1>17, <2>1, <2>2 DEF KeptHeard, Settled
  <1>18. CASE Stop
    <2>1. Dispatch("cancel")
      BY <1>18 DEF Stop
    <2>2. ViewType'
      BY <2>1, DispatchType DEF Events
    <2>3. session' \in BOOLEAN /\ stopped' \in BOOLEAN
      BY <1>18, DropSessionType DEF Stop
    <2> QED
      BY <1>18, <2>2, <2>3 DEF Stop, TypeOK
  <1>19. CASE PageHides
    <2>1. slow' \in 0..Tries /\ aborted' \subseteq Runs /\ flow' \in 0..Tries
      BY <1>19, StopFlowType DEF PageHides
    <2>2. session' \in BOOLEAN /\ stopped' \in BOOLEAN
      BY <1>19, DropSessionType DEF PageHides
    <2>3. lock' \in BOOLEAN /\ left' \in BOOLEAN
      BY <1>19 DEF PageHides, TypeOK
    <2> QED
      BY <1>19, <2>1, <2>2, <2>3 DEF PageHides, TypeOK
  <1>20. CASE ClockPasses
    BY <1>20 DEF ClockPasses, TypeOK
  <1>21. CASE Countdown
    <2>1. Dispatch("expired")
      BY <1>21 DEF Countdown
    <2>2. ViewType'
      BY <2>1, DispatchType DEF Events
    <2>3. slow' \in 0..Tries /\ aborted' \subseteq Runs /\ flow' \in 0..Tries
      BY <1>21, StopFlowType DEF Countdown
    <2>4. session' \in BOOLEAN /\ stopped' \in BOOLEAN
      BY <1>21, DropSessionType DEF Countdown
    <2> QED
      BY <1>21, <2>2, <2>3, <2>4 DEF Countdown, TypeOK
  <1>22. ASSUME NEW r \in Runs, Claims(r) PROVE TypeOK'
    BY <1>22 DEF Claims, TypeOK
  <1>23. ASSUME NEW r \in Runs, Pairs(r) PROVE TypeOK'
    <2>1. Go("paired")
      BY <1>23 DEF Pairs
    <2>2. screen' \in Screens /\ reconnecting' \in BOOLEAN /\ endSent' \in BOOLEAN
      BY <2>1, GoType DEF Events
    <2>3. secret' \in BOOLEAN
      BY <1>23 DEF Pairs
    <2>4. runs' \in [Runs -> {"idle", "claiming", "pairing", "over"}]
      BY <1>23 DEF Pairs, TypeOK
    <2>5. slow' \in 0..Tries /\ words' \in 0..Tries
      BY <1>23 DEF Pairs, TypeOK
    <2> QED
      BY <1>23, <2>2, <2>3, <2>4, <2>5 DEF Pairs, TypeOK
  <1>24. ASSUME NEW r \in Runs, RunAborted(r) PROVE TypeOK'
    BY <1>24 DEF RunAborted, TypeOK
  <1>25. ASSUME NEW b \in BOOLEAN, Invited(b) PROVE TypeOK'
    <2>1. screen' \in Screens /\ reconnecting' \in BOOLEAN /\ endSent' \in BOOLEAN
      BY <1>25, GoType DEF Invited, Events, TypeOK
    <2>2. hide' \in BOOLEAN /\ relayOffered' \in BOOLEAN
      BY <1>25 DEF Invited, TypeOK
    <2> QED
      BY <1>25, <2>1, <2>2 DEF Invited, TypeOK
  <1>26. ASSUME NEW b \in BOOLEAN, HideChanges(b) PROVE TypeOK'
    BY <1>26 DEF HideChanges, TypeOK
  <1>27. ASSUME NEW b \in BOOLEAN, Reconnects(b) PROVE TypeOK'
    BY <1>27 DEF Reconnects, TypeOK
  <1>28. ASSUME NEW w \in {"empty", "too-big"}, FileRefused(w) PROVE TypeOK'
    <2>1. ViewType'
      BY <1>28, DispatchType DEF FileRefused, Events
    <2> QED
      BY <1>28, <2>1 DEF FileRefused, TypeOK
  <1>29. ASSUME NEW r \in Runs, NEW error \in {"refused", "plain", "transport", "expired"}, RunFails(r, error)
         PROVE  TypeOK'
    <2>1. Classify(error) \in Events
      BY DEF Classify, Events
    <2>2. ViewType'
      BY <1>29, <2>1, DispatchType DEF RunFails
    <2>3. secret' \in BOOLEAN
      BY <1>29 DEF RunFails
    <2> QED
      BY <1>29, <2>2, <2>3 DEF RunFails, TypeOK
  <1>30. ASSUME NEW kind \in SettlesAs(call), CallFails(kind) PROVE TypeOK'
    <2>1. ScreenForFailure(kind) \in Events
      BY DEF ScreenForFailure, Events
    <2>2. CASE Finish /\ Dispatch(ScreenForFailure(kind))
      <3>1. ViewType'
        BY <2>1, <2>2, DispatchType
      <3> QED
        BY <1>30, <2>2, <3>1 DEF CallFails, Finish, TypeOK
    <2>3. CASE UNCHANGED <<view, session, lock>>
      BY <1>30, <2>3 DEF CallFails, TypeOK
    <2> QED
      BY <1>30, <2>2, <2>3 DEF CallFails, ShowFailure
  <1>31. CASE UNCHANGED vars
    BY <1>31 DEF vars, TypeOK
  <1> QED
    BY <1>1, <1>2, <1>3, <1>4, <1>5, <1>6, <1>7, <1>8, <1>9, <1>10, <1>11, <1>12,
       <1>13, <1>14, <1>15, <1>16, <1>17, <1>18, <1>19, <1>20, <1>21, <1>22, <1>23, <1>24,
       <1>25, <1>26, <1>27, <1>28, <1>29, <1>30, <1>31 DEF Next, PageNext

(* Every other invariant is kept as well, each with the help of the rest.  *)
LEMMA PageInvStep == PageInv /\ [Next]_vars => PageInv'
  <1> SUFFICES ASSUME PageInv, [Next]_vars PROVE PageInv'
    OBVIOUS
  <1> DEFINE Rest == ScreensAreLive /\ LockFits /\ ChecksItsOwnWords /\ HonestEndings /\ RunsInv /\ SessionInv
  <1>0. TypeOK'
    BY TypeStep DEF PageInv
  <1> SUFFICES Rest'
    BY <1>0 DEF PageInv
  <1> USE TriesIsNat DEF PageInv, TypeOK, Screens, ScreensAreLive, LockFits, ChecksItsOwnWords, HonestEndings, Verdict,
                         CallBehind, RunsInv, SessionInv, LateEndings,
                         BeforeFile, AfterOffer, Picking, Pairing, Endings, Runs,
                         view, pairing, sending, world,
                         Dispatch, Go, Applies, Where, Target, ForgetsWords, Settles, EndSent, ExpiresOn,
                         StopFlow, Aborting, DropSession, Finish, Buttons
  <1>1. CASE Start
    BY <1>1 DEF Start
  <1>2. CASE Online
    BY <1>2 DEF Online
  <1>3. CASE Continue
    BY <1>3 DEF Continue, Connect
  <1>4. CASE TryAgain
    BY <1>4 DEF TryAgain, Connect
  <1>5. CASE SlowFires
    BY <1>5 DEF SlowFires
  <1>6. CASE FlowExpires
    BY <1>6 DEF FlowExpires
  <1>7. CASE CancelConnect
    BY <1>7 DEF CancelConnect
  <1>8. CASE No
    BY <1>8 DEF No
  <1>9. CASE Yes
    BY <1>9 DEF Yes
  <1>10. CASE FileChosen
    BY <1>10 DEF FileChosen
  <1>11. CASE Declined
    BY <1>11 DEF Declined, Settled
  <1>12. CASE Accepted
    BY <1>12 DEF Accepted
  <1>13. CASE Connecting
    BY <1>13 DEF Connecting
  <1>14. CASE Connected
    BY <1>14 DEF Connected
  <1>15. CASE EndGoes
    BY <1>15 DEF EndGoes
  <1>16. CASE DropKeeps
    BY <1>16 DEF DropKeeps
  <1>17. CASE KeptHeard
    BY <1>17 DEF KeptHeard, Settled
  <1>18. CASE Stop
    BY <1>18 DEF Stop
  <1>19. CASE PageHides
    BY <1>19 DEF PageHides
  <1>20. CASE ClockPasses
    BY <1>20 DEF ClockPasses
  <1>21. CASE Countdown
    BY <1>21 DEF Countdown, CountsDown
  <1>22. ASSUME NEW r \in Runs, Claims(r) PROVE Rest'
    <2>1. r = run /\ run # 0 /\ run \notin aborted
      BY <1>22 DEF Claims
    <2>2. flow' = run /\ run' = run /\ aborted' = aborted /\ UNCHANGED <<view, sending, world>>
      BY <1>22, <2>1 DEF Claims
    <2>3. runs'[run] = "pairing" /\ \A q \in Runs : q # run => runs'[q] = runs[q]
      BY <1>22, <2>1 DEF Claims
    <2>4. call = "none" /\ screen # "check" /\ room # "loading"
      BY <1>22, <2>1 DEF Claims
    <2>5. ~left'
      BY <1>22, <2>1 DEF Claims
    <2>6. RunsInv'
      BY <2>1, <2>2, <2>3, <2>4, <2>5
    <2> QED
      BY <2>1, <2>2, <2>3, <2>4, <2>6
  <1>23. ASSUME NEW r \in Runs, Pairs(r) PROVE Rest'
    BY <1>23 DEF Pairs
  <1>24. ASSUME NEW r \in Runs, RunAborted(r) PROVE Rest'
    BY <1>24 DEF RunAborted
  <1>25. ASSUME NEW b \in BOOLEAN, Invited(b) PROVE Rest'
    BY <1>25 DEF Invited
  <1>26. ASSUME NEW b \in BOOLEAN, HideChanges(b) PROVE Rest'
    BY <1>26 DEF HideChanges
  <1>27. ASSUME NEW b \in BOOLEAN, Reconnects(b) PROVE Rest'
    BY <1>27 DEF Reconnects
  <1>28. ASSUME NEW w \in {"empty", "too-big"}, FileRefused(w) PROVE Rest'
    BY <1>28 DEF FileRefused
  <1>29. ASSUME NEW r \in Runs, NEW error \in {"refused", "plain", "transport", "expired"}, RunFails(r, error)
         PROVE  Rest'
    BY <1>29 DEF RunFails, Classify
  <1>30. ASSUME NEW kind \in SettlesAs(call), CallFails(kind) PROVE Rest'
    <2>1. CASE ~session
      BY <1>30, <2>1 DEF CallFails, SettlesAs
    <2>2. CASE session /\ kind # "cancelled"
      <3> DEFINE e == ScreenForFailure(kind)
      <3>1. e \notin {"end-sent", "asking", "paired"}
        BY DEF ScreenForFailure
      <3>2. /\ Applies(e) /\ Target(e) \in Endings \ {"sent"}
            /\ call = "await" => Target(e) \in LateEndings
        BY <2>2 DEF SettlesAs, ScreenForFailure
      <3>3. session' = FALSE /\ lock' = FALSE /\ Dispatch(e)
        BY <1>30, <2>2 DEF CallFails, ShowFailure
      <3>4. screen' = Target(e) /\ endSent' = endSent
        BY <3>1, <3>2, <3>3
      <3> HIDE DEF e
      <3> QED
        BY <1>30, <2>2, <3>2, <3>3, <3>4 DEF CallFails
    <2>3. CASE session /\ kind = "cancelled"
      BY <1>30, <2>3 DEF SettlesAs
    <2> QED
      BY <2>1, <2>2, <2>3
  <1>31. CASE UNCHANGED vars
    BY <1>31 DEF vars
  <1> QED
    BY <1>1, <1>2, <1>3, <1>4, <1>5, <1>6, <1>7, <1>8, <1>9, <1>10, <1>11, <1>12,
       <1>13, <1>14, <1>15, <1>16, <1>17, <1>18, <1>19, <1>20, <1>21, <1>22, <1>23, <1>24,
       <1>25, <1>26, <1>27, <1>28, <1>29, <1>30, <1>31 DEF Next, PageNext

LEMMA PageInvInit == Init => PageInv
  <1> SUFFICES ASSUME Init PROVE PageInv
    OBVIOUS
  <1>1. screen \in Screens /\ room \in {"loading", "open", "none"} /\ call \in Calls /\ end \in {"no", "sent", "kept"}
    BY DEF Init, Screens, BeforeFile, Calls
  <1>2. /\ words \in 0..Tries /\ run \in 0..Tries /\ flow \in 0..Tries /\ slow \in 0..Tries /\ aborted \subseteq Runs
        /\ runs \in [Runs -> {"idle", "claiming", "pairing", "over"}]
    BY TriesIsNat DEF Init
  <1>3. TypeOK
    BY <1>1, <1>2 DEF Init, TypeOK
  <1>4. RunsInv
    BY TriesIsNat DEF Init, RunsInv, Runs, Pairing
  <1>5. ScreensAreLive /\ LockFits /\ ChecksItsOwnWords /\ HonestEndings /\ SessionInv
    BY DEF Init, ScreensAreLive, LockFits, ChecksItsOwnWords, HonestEndings, Verdict, SessionInv,
           AfterOffer, Picking, Pairing, Endings
  <1> QED
    BY <1>3, <1>4, <1>5 DEF PageInv

LEMMA PageInvariance == Spec => []PageInv
  BY PageInvInit, PageInvStep, PTL DEF Spec

(* The page's variables keep their types (state.ts, ViewState; main.ts).   *)
THEOREM TypesKept == Spec => []TypeOK
  <1>1. PageInv => TypeOK
    BY DEF PageInv
  <1> QED
    BY <1>1, PageInvariance, PTL

(* A screen that says to wait has something behind it that will move it on *)
(* (showFailure and the reducer of state.ts fit each other).               *)
THEOREM NoDeadScreens == Spec => []ScreensAreLive
  <1>1. PageInv => ScreensAreLive
    BY DEF PageInv
  <1> QED
    BY <1>1, PageInvariance, PTL

(* The screen lock follows the offer and no ending leaves it or the        *)
(* session behind (finish() and onStop() of main.ts).                      *)
THEOREM LockAlwaysFits == Spec => []LockFits
  <1>1. PageInv => LockFits
    BY DEF PageInv
  <1> QED
    BY <1>1, PageInvariance, PTL

(* However many runs were started and cancelled, Yes confirms the words    *)
(* that are shown (connect(), stopFlow() and onYes() of main.ts).          *)
THEOREM YesMeansTheseWords == Spec => []ChecksItsOwnWords
  <1>1. PageInv => ChecksItsOwnWords
    BY DEF PageInv
  <1> QED
    BY <1>1, PageInvariance, PTL

(* No ending says that a file Drop may have kept was not kept, nor that    *)
(* one arrived that Drop has not kept (screenText and endSent).            *)
THEOREM EndingsAreHonest == Spec => []HonestEndings
  <1>1. PageInv => HonestEndings
    BY DEF PageInv
  <1> QED
    BY <1>1, PageInvariance, PTL

(* One step of the page keeps an aborted run from moving the screen.       *)
LEMMA MuteStep == PageInv /\ [Next]_vars => [\A r \in aborted : runs'[r] # runs[r] => view' = view]_vars
  <1> SUFFICES ASSUME PageInv, Next, NEW r \in aborted, runs'[r] # runs[r] PROVE view' = view
    BY DEF vars
  <1>1. r \in Runs /\ runs \in [Runs -> {"idle", "claiming", "pairing", "over"}] /\ run \in Nat /\ r <= run
    BY TriesIsNat DEF PageInv, TypeOK, RunsInv, Runs
  <1> USE DEF pairing, sending, world
  <1>2. ASSUME Connect PROVE FALSE
    <2>1. r # run + 1
      BY <1>1 DEF Runs
    <2>2. runs' = [runs EXCEPT ![run + 1] = "claiming"]
      BY <1>2 DEF Connect
    <2> QED
      BY <1>1, <2>1, <2>2
  <1>3. ASSUME NEW q \in Runs, Claims(q) \/ Pairs(q) PROVE FALSE
    BY <1>1, <1>3 DEF Claims, Pairs
  <1>4. ASSUME NEW q \in Runs, RunAborted(q) PROVE view' = view
    BY <1>4 DEF RunAborted
  <1>5. ASSUME NEW q \in Runs, NEW error \in {"refused", "plain", "transport", "expired"}, RunFails(q, error)
        PROVE  FALSE
    BY <1>1, <1>5 DEF RunFails
  <1> QED
    BY <1>2, <1>3, <1>4, <1>5
    DEF Next, PageNext, Start, Online, Continue, TryAgain, SlowFires, FlowExpires, CancelConnect, No, Yes, Invited, HideChanges, Reconnects,
        FileRefused, FileChosen, Declined, Accepted, Connecting, Connected, EndGoes, DropKeeps, KeptHeard,
        CallFails, Stop, PageHides, ClockPasses, Countdown

(* A run that was cancelled or replaced never moves the screen             *)
(* (`if (run.signal.aborted) return` in connect()).                        *)
THEOREM AbortedStayMute == Spec => AbortedRunsAreMute
  BY MuteStep, PageInvariance, PTL DEF Spec, AbortedRunsAreMute

(***************************************************************************)
(* The lock object                                                         *)
(***************************************************************************)

LEMMA LockInvInit == LockInit => LockInv
  BY NoLockIsNone DEF LockInit, LockInv, LockTypeOK, NothingLeaks, SentinelIsLive, Bookkeeping

(* One step of createScreenLock or of the browser keeps every lock tracked.*)
LEMMA LockInvStep == LockInv /\ [LockNext]_LockVars => LockInv'
  <1> SUFFICES ASSUME LockInv, [LockNext]_LockVars PROVE LockInv'
    OBVIOUS
  <1> USE NoLockIsNone DEF LockInv, LockTypeOK, NothingLeaks, SentinelIsLive, Bookkeeping
  <1>1. CASE Hold
    BY <1>1 DEF Hold, Acquire
  <1>2. CASE Release
    BY <1>2 DEF Release
  <1>3. CASE Refused
    BY <1>3 DEF Refused
  <1>4. CASE Returned
    BY <1>4 DEF Returned
  <1>5. CASE Hidden
    BY <1>5 DEF Hidden
  <1>6. CASE Shown
    BY <1>6 DEF Shown, Acquire
  <1>7. ASSUME NEW l \in Locks, Granted(l) PROVE LockInv'
    BY <1>7 DEF Granted
  <1>8. ASSUME NEW l \in Locks, LetGo(l) PROVE LockInv'
    BY <1>8 DEF LetGo
  <1>9. ASSUME NEW l \in Locks, ReleaseEvent(l) PROVE LockInv'
    BY <1>9 DEF ReleaseEvent, Forget
  <1>10. CASE UNCHANGED LockVars
    BY <1>10 DEF LockVars
  <1> QED
    BY <1>1, <1>2, <1>3, <1>4, <1>5, <1>6, <1>7, <1>8, <1>9, <1>10 DEF LockNext, Browser

(* Every lock that keeps the screen on is the one release() will release,  *)
(* or already on its way out (wakelock.ts, acquire and release).           *)
THEOREM LocksAreTracked == LockSpec => []NothingLeaks
  <1>1. LockInv => NothingLeaks
    BY DEF LockInv
  <1> QED
    BY <1>1, LockInvInit, LockInvStep, PTL DEF LockSpec

(* The lock object never takes a lock that is gone for one it holds        *)
(* (wakelock.ts, the release listener).                                    *)
THEOREM SentinelStaysLive == LockSpec => []SentinelIsLive
  <1>1. LockInv => SentinelIsLive
    BY DEF LockInv
  <1> QED
    BY <1>1, LockInvInit, LockInvStep, PTL DEF LockSpec

(***************************************************************************)
(* A step of the device is a step of each of its parts                     *)
(***************************************************************************)

LEMMA PageMoves == [DeviceNext]_deviceVars => [Next]_vars
  <1>1. ASSUME NEW i \in Invitations, ReadsInvitation(i) PROVE Next
    <2>1. hasRelayUrl(i) \in BOOLEAN
      BY DEF hasRelayUrl
    <2>2. Invited(hasRelayUrl(i))
      BY <1>1 DEF ReadsInvitation
    <2> QED
      BY <2>1, <2>2 DEF Next
  <1>2. ASSUME BuildsPeer PROVE Next
    BY <1>2 DEF BuildsPeer, Next
  <1>3. ASSUME NEW kind \in SettlesAs(call), Fails(kind) PROVE Next
    BY <1>3 DEF Fails, Next
  <1>4. ASSUME PageSteps PROVE Next
    BY <1>4 DEF PageSteps, Next
  <1>5. ASSUME BrowserSteps PROVE UNCHANGED vars
    BY <1>5 DEF BrowserSteps, PageStays
  <1>6. ASSUME UNCHANGED deviceVars PROVE UNCHANGED vars
    BY <1>6 DEF deviceVars
  <1> QED
    BY <1>1, <1>2, <1>3, <1>4, <1>5, <1>6 DEF DeviceNext

LEMMA LockMoves == [DeviceNext]_deviceVars => [LockNext]_LockVars
  <1>1. ASSUME LockFollows PROVE [LockNext]_LockVars
    BY <1>1 DEF LockFollows, LockNext
  <1>2. ASSUME BrowserSteps PROVE LockNext
    BY <1>2 DEF BrowserSteps, LockNext
  <1>3. ASSUME UNCHANGED deviceVars PROVE UNCHANGED LockVars
    BY <1>3 DEF deviceVars
  <1> QED
    BY <1>1, <1>2, <1>3 DEF DeviceNext, ReadsInvitation, BuildsPeer, Fails, PageSteps

(* The lock object is told of each change of the page's lock.              *)
LEMMA LockStep ==
  ASSUME wanted = lock, lock' \in BOOLEAN, lock \in BOOLEAN, LockFollows PROVE wanted' = lock'
  BY DEF LockFollows, Hold, Release, LockVars

(***************************************************************************)
(* The servers                                                             *)
(***************************************************************************)

(* What a peer is built from is on the allowlist, and a hidden peer has    *)
(* relays and nothing else (readIce, buildRtcConfiguration).               *)
LEMMA Built ==
  ASSUME NEW i, readIce(i), NEW hidden \in BOOLEAN
  PROVE  LET c == buildRtcConfiguration(i, hidden)
         IN /\ UNION c.servers \subseteq Allowlist
            /\ {} \notin c.servers
            /\ hidden => c.policy = "relay" /\ UNION c.servers \subseteq Relays
  BY DEF buildRtcConfiguration, readIce

(* The same after the spelling some browsers refuse was taken out.         *)
LEMMA Opened ==
  ASSUME NEW i, readIce(i), NEW hidden \in BOOLEAN
  PROVE  LET c == openConnection(i, hidden)
         IN /\ UNION c.servers \subseteq Allowlist
            /\ {} \notin c.servers
            /\ hidden => c.policy = "relay" /\ UNION c.servers \subseteq Relays
  <1>1. readIce(Trimmed(i))
    BY DEF readIce, Trimmed
  <1> QED
    BY <1>1, Built DEF openConnection

(* With a relay in the invitation, only a refused spelling leaves none.    *)
LEMMA RelaysRemain ==
  ASSUME NEW i, hasRelayUrl(i), NEW hidden \in BOOLEAN, NoRelay(i, hidden)
  PROVE  hidden /\ refuses
  <1>1. PICK s \in i : s \cap Relays # {}
    BY DEF hasRelayUrl
  <1>2. hidden
    BY DEF NoRelay
  <1>3. s \cap Relays \in buildRtcConfiguration(i, hidden).servers
    BY <1>1, <1>2 DEF buildRtcConfiguration
  <1> QED
    BY <1>2, <1>3 DEF NoRelay, openConnection

(***************************************************************************)
(* The page's steps                                                        *)
(***************************************************************************)

Working == {"idle", "offer", "prepare", "connect", "move", "await"}
HasPeer == {"connect", "move", "await", "over"}

(* What a step of the page leaves of what the connection is built from.    *)
Keeps ==
  /\ hide' = hide /\ relayOffered' = relayOffered
  /\ screen' \in Picking => screen \in Picking
  /\ screen' = "no-relay" => screen = "no-relay"

LEMMA DispatchKeeps ==
  ASSUME NEW e \in Events \ {"invitation", "no-relay"}, Dispatch(e) PROVE Keeps
  <1>1. CASE e \in {"too-big", "empty"}
    BY <1>1 DEF Dispatch, Go, Applies, Target, Where, Picking, Keeps
  <1>2. CASE e \notin {"too-big", "empty"}
    <2>1. Target(e) \notin Picking /\ Target(e) # "no-relay"
      BY <1>2 DEF Target, Picking, Events
    <2> QED
      BY <2>1 DEF Dispatch, Go, Keeps
  <1> QED
    BY <1>1, <1>2

(* A step that the servers do not decide.                                  *)
LEMMA PageKeeps ==
  ASSUME PageInv, ServersInv, PageNext
  PROVE  /\ relayOffered' = relayOffered
         /\ hide' # hide => screen \in Picking /\ screen' \in Picking /\ (hide' => relayOffered)
         /\ screen' = "no-relay" => screen = "no-relay"
         /\ screen' \in Picking => call' = "idle"
         /\ call' \in Working => call \in Working
         /\ session' /\ call' # "invite" => session /\ call # "invite"
         /\ call \in HasPeer => call' \in HasPeer
  <1> DEFINE Goal == 
         /\ relayOffered' = relayOffered
         /\ hide' # hide => screen \in Picking /\ screen' \in Picking /\ (hide' => relayOffered)
         /\ screen' = "no-relay" => screen = "no-relay"
         /\ screen' \in Picking => call' = "idle"
         /\ call' \in Working => call \in Working
         /\ session' /\ call' # "invite" => session /\ call # "invite"
         /\ call \in HasPeer => call' \in HasPeer
  <1> SUFFICES Goal
    OBVIOUS
  <1> USE DEF view, pairing, sending, world, Working, HasPeer
  <1>0. screen \in Picking => call = "idle"
    BY DEF ServersInv
  <1>1. ASSUME Keeps, UNCHANGED call, session' => session PROVE Goal
    BY <1>0, <1>1 DEF Keeps
  <1>2. ASSUME UNCHANGED view, UNCHANGED call, session' => session PROVE Goal
    BY <1>0, <1>2
  <1>3. CASE Start
    BY <1>0, <1>3 DEF Start, Picking
  <1>4. CASE Online \/ (\E b \in BOOLEAN : Reconnects(b))
    BY <1>0, <1>4 DEF Online, Reconnects
  <1>5. ASSUME Connect PROVE Goal
    BY <1>1, <1>5, DispatchKeeps DEF Connect, Events
  <1>6. CASE SlowFires \/ FlowExpires
    BY <1>1, <1>6, DispatchKeeps DEF SlowFires, FlowExpires, Events
  <1>7. ASSUME NEW r \in Runs, Claims(r) \/ RunAborted(r) PROVE Goal
    BY <1>2, <1>7 DEF Claims, RunAborted
  <1>8. ASSUME NEW r \in Runs, Pairs(r) PROVE Goal
    <2>1. Keeps
      BY <1>8 DEF Pairs, Go, Keeps, Target, Picking
    <2> QED
      BY <1>1, <1>8, <2>1 DEF Pairs
  <1>9. ASSUME NEW r \in Runs, NEW error, RunFails(r, error) PROVE Goal
    <2>1. Classify(error) \in Events \ {"invitation", "no-relay"}
      BY DEF Classify, Events
    <2> QED
      BY <1>1, <1>9, <2>1, DispatchKeeps DEF RunFails
  <1>10. CASE CancelConnect
    BY <1>1, <1>10, DispatchKeeps DEF CancelConnect, DropSession, Events
  <1>11. CASE No
    BY <1>1, <1>11, DispatchKeeps DEF No, Events
  <1>12. CASE Yes
    <2>1. screen = "check" /\ call = "none"
      BY <1>12 DEF Yes, Buttons, PageInv, SessionInv, Pairing, Picking, AfterOffer
    <2>2. Keeps
      BY <1>12, DispatchKeeps DEF Yes, Events
    <2> QED
      BY <1>12, <2>1, <2>2 DEF Yes, Keeps, Picking
  <1>13. ASSUME NEW b \in BOOLEAN, HideChanges(b) PROVE Goal
    <2>1. screen \in Picking
      BY <1>13 DEF HideChanges, Buttons, Pairing, AfterOffer, Picking
    <2> QED
      BY <1>0, <1>13, <2>1 DEF HideChanges
  <1>14. ASSUME NEW why \in {"empty", "too-big"}, FileRefused(why) PROVE Goal
    BY <1>1, <1>14, DispatchKeeps DEF FileRefused, Events
  <1>15. CASE FileChosen
    <2>1. screen' \notin Picking
      BY <1>15 DEF FileChosen, Dispatch, Go, Applies, Where, Target, Picking
    <2> QED
      BY <1>0, <1>15, <2>1, DispatchKeeps DEF FileChosen, Keeps, Events
  <1>16. ASSUME NEW e \in Events \ {"invitation", "no-relay"}, Settled(e), call \notin {"idle", "none"}, call' = "over"
         PROVE  Goal
    <2>1. Keeps /\ (session' => FALSE)
      BY <1>16, DispatchKeeps DEF Settled, Finish, Keeps
    <2> QED
      BY <1>0, <1>16, <2>1 DEF Keeps
  <1>17. CASE Declined \/ KeptHeard
    BY <1>16, <1>17 DEF Declined, KeptHeard, Events
  <1>18. CASE Accepted
    BY <1>0, <1>18 DEF Accepted
  <1>19. CASE Connected \/ EndGoes
    BY <1>0, <1>19, DispatchKeeps DEF Connected, EndGoes, Keeps, Events
  <1>20. CASE DropKeeps \/ ClockPasses
    BY <1>2, <1>20 DEF DropKeeps, ClockPasses
  <1>21. CASE PageHides
    BY <1>2, <1>21 DEF PageHides, DropSession
  <1>22. CASE Stop \/ Countdown
    BY <1>1, <1>22, DispatchKeeps DEF Stop, Countdown, DropSession, Events
  <1> QED
    BY <1>3, <1>4, <1>5, <1>6, <1>7, <1>8, <1>9, <1>10, <1>11, <1>12, <1>13, <1>14, <1>15,
       <1>17, <1>18, <1>19, <1>20, <1>21, <1>22 DEF PageNext, Continue, TryAgain

(***************************************************************************)
(* The device                                                              *)
(***************************************************************************)

(* The inductive invariant: the page's, the lock's and the connection's.   *)
Device == PageInv /\ LockInv /\ ServersInv /\ HidingHolds /\ NoRelayIsTrue

LEMMA DeviceInit0 == DeviceInit => Device
  <1> SUFFICES ASSUME DeviceInit PROVE Device
    OBVIOUS
  <1>1. ServersInv /\ HidingHolds /\ NoRelayIsTrue
    BY DEF DeviceInit, Init, LockInit, ServersInv, HidingHolds, NoRelayIsTrue, Picking
  <1> QED
    BY <1>1, PageInvInit, LockInvInit DEF DeviceInit, Device

(* Each step of the device keeps an address that is to be hidden hidden.   *)
LEMMA ServersStep ==
  ASSUME Device, [DeviceNext]_deviceVars, PageInv'
  PROVE  ServersInv' /\ HidingHolds' /\ NoRelayIsTrue'
  <1> DEFINE Goal == ServersInv' /\ HidingHolds' /\ NoRelayIsTrue'
  <1> USE DEF view, pairing, sending, world
  <1>0. /\ PageInv /\ ServersInv /\ HidingHolds /\ NoRelayIsTrue /\ TypeOK /\ SessionInv /\ TypeOK'
        /\ hide \in BOOLEAN /\ lock \in BOOLEAN /\ lock' \in BOOLEAN /\ wanted = lock
    BY DEF Device, PageInv, TypeOK, ServersInv
  <1>1. ASSUME NEW i \in Invitations, ReadsInvitation(i) PROVE Goal
    <2>1. /\ readIce(i) /\ servers' = i /\ LockFollows /\ UNCHANGED <<refuses, ice>>
          /\ call = "invite" /\ ~stopped /\ call' = "idle" /\ UNCHANGED session
      BY <1>1 DEF ReadsInvitation, Invited
    <2>2. session /\ screen = "confirming"
      BY <1>0, <2>1 DEF SessionInv, CallBehind, Picking, AfterOffer
    <2>3. Applies("invitation")
      BY <2>2 DEF Applies, Where
    <2>4. /\ screen' = "choose" /\ relayOffered' = hasRelayUrl(i) /\ hide' = (hasRelayUrl(i) /\ hide)
      BY <1>1, <2>2, <2>3 DEF ReadsInvitation, Invited, Go, Target
    <2>5. wanted' = lock'
      BY <1>0, <2>1, LockStep
    <2>6. ice = NoServers
      BY <1>0, <2>1 DEF ServersInv
    <2>7. hasRelayUrl(servers') = hasRelayUrl(i) /\ (readIce(servers))'
      BY <2>1 DEF readIce
    <2> QED
      BY <2>1, <2>4, <2>5, <2>6, <2>7, InvitationsAssumption DEF ServersInv, HidingHolds, NoRelayIsTrue, Picking
  <1>2. CASE BuildsPeer
    <2>1. /\ call = "prepare" /\ call' = "connect" /\ UNCHANGED session /\ Dispatch("linking")
          /\ ~NoRelay(servers, hide) /\ ice' = openConnection(servers, hide)
          /\ LockFollows /\ UNCHANGED <<servers, refuses>>
      BY <1>2 DEF BuildsPeer, Connecting
    <2>2. Keeps
      BY <2>1, DispatchKeeps DEF Events
    <2>3. screen \notin Picking /\ servers # NoServers /\ readIce(servers)
      BY <1>0, <2>1 DEF ServersInv
    <2>4. /\ UNION ice'.servers \subseteq Allowlist
          /\ {} \notin ice'.servers
          /\ hide => ice'.policy = "relay" /\ UNION ice'.servers \subseteq Relays
      BY <1>0, <2>1, <2>3, Opened
    <2>5. hide => UNION ice'.servers # {}
      BY <2>1, <2>4 DEF NoRelay
    <2>6. HidingHolds'
      BY <2>2, <2>4, <2>5 DEF HidingHolds, Urls, Keeps
    <2>7. wanted' = lock'
      BY <1>0, <2>1, LockStep
    <2>8. (readIce(servers))' = readIce(servers)
      BY <2>1 DEF readIce
    <2>9. ServersInv'
      BY <1>0, <2>1, <2>2, <2>3, <2>7, <2>8 DEF ServersInv, Keeps, hasRelayUrl
    <2>10. NoRelayIsTrue'
      BY <1>0, <2>1, <2>2 DEF NoRelayIsTrue, Keeps
    <2> QED
      BY <2>6, <2>9, <2>10
  <1>3. ASSUME NEW kind \in SettlesAs(call), Fails(kind) PROVE Goal
    <2>1. /\ CallFails(kind) /\ call' = "over" /\ LockFollows /\ UNCHANGED <<servers, refuses, ice>>
          /\ kind = "no-relay" => NoRelay(servers, hide)
      BY <1>3 DEF Fails, CallFails
    <2>2. call \in {"invite", "offer", "prepare", "connect", "move", "await"}
      BY DEF SettlesAs
    <2>3. screen \notin Picking
      BY <1>0, <2>2 DEF ServersInv
    <2>4. kind = "no-relay" => call = "prepare"
      BY <2>2 DEF SettlesAs
    <2>5. wanted' = lock'
      BY <1>0, <2>1, LockStep
    <2>6. (readIce(servers))' = readIce(servers)
      BY <2>1 DEF readIce
    <2>7. /\ session' => session /\ kind = "cancelled"
          /\ hide' = hide /\ relayOffered' = relayOffered /\ screen' \notin Picking
          /\ screen' = "no-relay" => screen = "no-relay" \/ (session /\ kind = "no-relay")
      <3>1. CASE session /\ kind # "cancelled"
        <4>1. Finish /\ Dispatch(ScreenForFailure(kind))
          BY <2>1, <3>1 DEF CallFails, ShowFailure
        <4>2. ScreenForFailure(kind) \in Events \ {"invitation"} /\ (ScreenForFailure(kind) = "no-relay" => kind = "no-relay")
          BY DEF ScreenForFailure, Events
        <4>3. CASE kind = "no-relay"
          <5>1. ScreenForFailure(kind) = "no-relay"
            BY <4>3 DEF ScreenForFailure
          <5> QED
            BY <2>3, <3>1, <4>1, <4>3, <5>1 DEF Finish, Dispatch, Go, Target, Picking
        <4>4. CASE kind # "no-relay"
          BY <2>3, <4>1, <4>2, <4>4, DispatchKeeps DEF Finish, Keeps
        <4> QED
          BY <4>3, <4>4
      <3>2. CASE ~(session /\ kind # "cancelled")
        BY <2>1, <2>3, <3>2 DEF CallFails, ShowFailure
      <3> QED
        BY <3>1, <3>2
    <2>8. session => ~stopped /\ kind # "cancelled"
      BY <1>0, <2>2 DEF SessionInv, SettlesAs
    <2>9. ServersInv'
      BY <1>0, <2>1, <2>5, <2>6, <2>7, <2>8 DEF ServersInv
    <2>10. HidingHolds'
      BY <1>0, <2>1, <2>7 DEF HidingHolds, Urls
    <2>11. ASSUME session, kind = "no-relay" PROVE hide /\ relayOffered /\ refuses
      <3>1. hide /\ NoRelay(servers, hide)
        BY <2>1, <2>11 DEF NoRelay
      <3>2. relayOffered /\ hasRelayUrl(servers)
        BY <1>0, <2>4, <2>11, <3>1 DEF ServersInv
      <3> QED
        BY <1>0, <3>1, <3>2, RelaysRemain
    <2>12. NoRelayIsTrue'
      BY <1>0, <2>1, <2>7, <2>11 DEF NoRelayIsTrue
    <2> QED
      BY <2>9, <2>10, <2>12
  <1>4. CASE PageSteps
    <2>1. PageNext /\ LockFollows /\ UNCHANGED <<servers, refuses, ice>>
      BY <1>4 DEF PageSteps
    <2>2. /\ relayOffered' = relayOffered
          /\ hide' # hide => screen \in Picking /\ screen' \in Picking /\ (hide' => relayOffered)
          /\ screen' = "no-relay" => screen = "no-relay"
          /\ screen' \in Picking => call' = "idle"
          /\ call' \in Working => call \in Working
          /\ session' /\ call' # "invite" => session /\ call # "invite"
          /\ call \in HasPeer => call' \in HasPeer
      BY <1>0, <2>1, PageKeeps
    <2>3. wanted' = lock'
      BY <1>0, <2>1, LockStep
    <2>4. (readIce(servers))' = readIce(servers) /\ hasRelayUrl(servers') = hasRelayUrl(servers)
      BY <2>1 DEF readIce
    <2>5. ServersInv'
      BY <1>0, <2>1, <2>2, <2>3, <2>4 DEF ServersInv, Working, HasPeer
    <2>6. ice # NoServers => hide' = hide
      BY <1>0, <2>2 DEF ServersInv
    <2>7. HidingHolds'
      BY <1>0, <2>1, <2>6 DEF HidingHolds, Urls
    <2>8. NoRelayIsTrue'
      <3> SUFFICES ASSUME screen' = "no-relay" PROVE (hide /\ relayOffered /\ refuses)'
        BY DEF NoRelayIsTrue
      <3>1. screen = "no-relay" /\ screen \notin Picking
        BY <2>2 DEF Picking
      <3>2. hide' = hide
        BY <2>2, <3>1
      <3> QED
        BY <1>0, <2>1, <2>2, <3>1, <3>2 DEF NoRelayIsTrue
    <2> QED
      BY <2>5, <2>7, <2>8
  <1>5. ASSUME UNCHANGED <<vars, servers, refuses, ice>>, UNCHANGED wanted PROVE Goal
    <2>1. (readIce(servers))' = readIce(servers) /\ hasRelayUrl(servers') = hasRelayUrl(servers)
      BY <1>5 DEF readIce
    <2>2. UNCHANGED <<screen, hide, relayOffered, session, call, lock, servers, refuses, ice, wanted>>
      BY <1>5 DEF vars
    <2> QED
      BY <1>0, <2>1, <2>2 DEF ServersInv, HidingHolds, NoRelayIsTrue, Urls
  <1>6. CASE BrowserSteps
    BY <1>5, <1>6 DEF BrowserSteps, PageStays, Browser, Refused, Returned, Hidden, Shown, Granted, LetGo, ReleaseEvent
  <1>7. CASE UNCHANGED deviceVars
    BY <1>5, <1>7 DEF deviceVars, LockVars
  <1> QED
    BY <1>1, <1>2, <1>3, <1>4, <1>6, <1>7 DEF DeviceNext

LEMMA DeviceStep == Device /\ [DeviceNext]_deviceVars => Device'
  <1> SUFFICES ASSUME Device, [DeviceNext]_deviceVars PROVE Device'
    OBVIOUS
  <1>1. PageInv'
    BY PageMoves, PageInvStep DEF Device
  <1>2. LockInv'
    BY LockMoves, LockInvStep DEF Device
  <1> QED
    BY <1>1, <1>2, ServersStep DEF Device

LEMMA DeviceInvariance == DeviceSpec => []Device
  BY DeviceInit0, DeviceStep, PTL DEF DeviceSpec

(* On the device: the lock object holds a live lock exactly while a file   *)
(* is on its way, a connection that is to hide the address goes through    *)
(* relays of the allowlist alone, and "no relay" is said only where the    *)
(* browser took the last one away (readIce, openConnection, finish()).     *)
THEOREM DeviceAlwaysFits == DeviceSpec => []DeviceInv
  <1>1. Device => DeviceInv
    BY DEF Device, DeviceInv, PageInv, LockInv
  <1> QED
    BY <1>1, DeviceInvariance, PTL

(* What holds of the page holds of the page on its device: nothing that    *)
(* the lock or the servers do opens a way around it (main.ts).             *)
THEOREM PageHoldsOnDevice ==
  DeviceSpec => []ScreensAreLive /\ []ChecksItsOwnWords /\ []HonestEndings /\ []NothingLeaks /\ AbortedRunsAreMute
  <1>1. Device => ScreensAreLive /\ ChecksItsOwnWords /\ HonestEndings /\ NothingLeaks /\ PageInv
    BY DEF Device, PageInv, LockInv
  <1>2. Device /\ [DeviceNext]_deviceVars => [\A r \in aborted : runs'[r] # runs[r] => view' = view]_vars
    BY <1>1, PageMoves, MuteStep
  <1> QED
    BY <1>1, <1>2, DeviceInvariance, PTL DEF DeviceSpec, AbortedRunsAreMute
=============================================================================
