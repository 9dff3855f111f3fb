------------------------ MODULE DirectTransferProofs ------------------------
(***************************************************************************)
(* Proofs about the two halves of a direct send: DirectTransfer, for every *)
(* envelope, window and water mark, and Pacing, for every rate, burst and  *)
(* set of frames.  The two share no state and no name.                     *)
(***************************************************************************)
EXTENDS DirectTransfer, Pacing, TLAPS

(* A prefix of a sequence agrees with it.                                  *)
LEMMA PrefixFacts ==
  ASSUME NEW S, NEW s \in Seq(S), NEW p \in Prefixes(s)
  PROVE  /\ p \in Seq(S) /\ Len(p) \in 0..Len(s)
         /\ \A i \in 1..Len(p) : p[i] = s[i]
  BY DEF Prefixes

(* What is left after the head of a wire was taken.                        *)
LEMMA TailFacts ==
  ASSUME NEW S, NEW s \in Seq(S), s # <<>>
  PROVE  /\ Tail(s) \in Seq(S) /\ Len(Tail(s)) = Len(s) - 1 /\ Len(s) \in Nat \ {0}
         /\ Head(s) = s[1] /\ Head(s) \in S
         /\ \A i \in 1..Len(Tail(s)) : Tail(s)[i] = s[i + 1]
  OBVIOUS

(* One more frame on a wire.                                               *)
LEMMA AppendFacts ==
  ASSUME NEW S, NEW s \in Seq(S), NEW e \in S
  PROVE  /\ Append(s, e) \in Seq(S) /\ Len(Append(s, e)) = Len(s) + 1 /\ Len(s) \in Nat
         /\ Append(s, e)[Len(s) + 1] = e
         /\ \A i \in 1..Len(s) : Append(s, e)[i] = s[i]
         /\ Append(s, e) # <<>>
  OBVIOUS

(* The frames each end makes are frames of its wire.                       *)
LEMMA FrameTypes ==
  /\ \A c \in StopCodes : Stop(c) \in FramesToR /\ Stop(c) \in FramesToS
  /\ \A o \in 0..Total, n \in 1..Room : Data(o, n) \in FramesToR /\ Data(o, n) \in DataFrames
  /\ End \in FramesToR /\ Kept \in FramesToS
  /\ \A n \in 1..Total : Ack(n) \in FramesToS
  BY DEF StopCodes, Stop, FramesToR, FramesToS, StopFrames, Data, DataFrames, End, Kept, Ack

(* fail() records its failure and puts at most a STOP on the wire.         *)
LEMMA SFailType ==
  ASSUME TypeOK, NEW kind, NEW code \in 0..3, SFail(kind, code)
  PROVE  /\ sFail' = kind /\ toR' \in Seq(FramesToR)
         /\ toR' = toR \/ (sOpen /\ code \in StopCodes /\ toR' = Append(toR, Stop(code)))
<1>1. code # 0 => code \in StopCodes
  BY DEF StopCodes
<1>2. code # 0 => Append(toR, Stop(code)) \in Seq(FramesToR)
  BY <1>1, FrameTypes, AppendFacts DEF TypeOK
<1> QED
  BY <1>1, <1>2 DEF TypeOK, SFail, TrySend

(* The receiver's fail() likewise.                                         *)
LEMMA RFailType ==
  ASSUME TypeOK, NEW kind, NEW code \in 0..3, RFail(kind, code)
  PROVE  /\ rFail' = kind /\ toS' \in Seq(FramesToS)
         /\ toS' = toS \/ (rOpen /\ code \in StopCodes /\ toS' = Append(toS, Stop(code)))
<1>1. code # 0 => code \in StopCodes
  BY DEF StopCodes
<1>2. code # 0 => Append(toS, Stop(code)) \in Seq(FramesToS)
  BY <1>1, FrameTypes, AppendFacts DEF TypeOK
<1> QED
  BY <1>1, <1>2 DEF TypeOK, RFail, TrySend

(* Every step keeps every variable in its type.                            *)
LEMMA TypeStep == IInv /\ [Next]_vars => TypeOK'
<1> SUFFICES ASSUME IInv, [Next]_vars PROVE TypeOK'
  OBVIOUS
<1> USE SizesAssumption, LimitsAssumption
<1>0. TypeOK
  BY DEF IInv
<1> USE DEF vars, senderVars, receiverVars, bufferVars, openVars
<1>1. CASE \E aborted, small \in BOOLEAN : S_Start(aborted, small)
  <2>1. PICK aborted \in BOOLEAN, small \in BOOLEAN : S_Start(aborted, small)
    BY <1>1
  <2>2. sFail' \in SenderFailures /\ toR' \in Seq(FramesToR) /\ sPhase' \in {"loop", "rejected"}
    BY <1>0, <2>1, SFailType DEF S_Start, SenderFailures, TypeOK
  <2> QED
    BY <1>0, <2>1, <2>2 DEF S_Start, TypeOK
<1>2. CASE S_Record
  BY <1>0, <1>2 DEF TypeOK, S_Record, RecordLength
<1>3. CASE S_ReadFails
  <2>1. sFail' \in SenderFailures /\ toR' \in Seq(FramesToR)
    BY <1>0, <1>3, SFailType DEF S_ReadFails, SenderFailures
  <2> QED
    BY <1>0, <1>3, <2>1 DEF S_ReadFails, TypeOK
<1>4. CASE \E take \in 1..Room : S_SendData(take)
  <2>1. PICK take \in 1..Room : S_SendData(take)
    BY <1>4
  <2>2. CASE sOpen
    <3>1. /\ sent \in 0..Total /\ take <= Total - sent /\ sent' = sent + take
          /\ left \in 0..(Total - sent) /\ left' = left - take /\ take <= left
          /\ buffered \in Nat /\ buffered' = buffered + take
      BY <1>0, <2>1, <2>2 DEF S_SendData, TypeOK
    <3>2. sent' \in 0..Total /\ left' \in 0..(Total - sent') /\ buffered' \in Nat
      BY <3>1
    <3>3. Data(sent, take) \in FramesToR /\ End \in FramesToR
      BY <3>1, FrameTypes
    <3>4. toR' \in Seq(FramesToR)
      <4>1. Append(toR, Data(sent, take)) \in Seq(FramesToR)
        BY <1>0, <3>3, AppendFacts DEF TypeOK
      <4>2. Append(Append(toR, Data(sent, take)), End) \in Seq(FramesToR)
        BY <3>3, <4>1, AppendFacts
      <4> QED
        BY <2>1, <2>2, <4>1, <4>2 DEF S_SendData
    <3>5. paused' \in BOOLEAN /\ ended' \in BOOLEAN /\ sPhase' \in {"loop", "await"} /\ sFail' = sFail
      BY <2>1, <2>2 DEF S_SendData, PauseAt
    <3> QED
      BY <1>0, <2>1, <3>2, <3>4, <3>5 DEF S_SendData, TypeOK
  <2>3. CASE ~sOpen
    <3>1. sFail' \in SenderFailures /\ toR' \in Seq(FramesToR)
      BY <1>0, <2>1, <2>3, SFailType DEF S_SendData, SenderFailures
    <3> QED
      BY <1>0, <2>1, <2>3, <3>1 DEF S_SendData, TypeOK
  <2> QED
    BY <2>2, <2>3
<1>5. CASE S_Ack
  <2>1. toS' \in Seq(FramesToS) /\ Head(toS) \in FramesToS
    BY <1>0, <1>5, TailFacts DEF S_Ack, TakeFromR, TypeOK
  <2>2. sFail' \in SenderFailures /\ toR' \in Seq(FramesToR)
    BY <1>0, <1>5, SFailType DEF S_Ack, SenderFailures, TypeOK
  <2>3. acknowledged' \in 0..Total
    BY <1>0, <1>5, <2>1 DEF S_Ack, TypeOK, FramesToS, Kept, StopFrames
  <2> QED
    BY <1>0, <1>5, <2>1, <2>2, <2>3 DEF S_Ack, TypeOK
<1>6. CASE S_Kept
  <2>1. toS' \in Seq(FramesToS)
    BY <1>0, <1>6, TailFacts DEF S_Kept, TakeFromR, TypeOK
  <2>2. sFail' \in SenderFailures /\ toR' \in Seq(FramesToR) /\ sPhase' \in {sPhase, "resolved"}
    BY <1>0, <1>6, SFailType DEF S_Kept, SenderFailures, TypeOK
  <2> QED
    BY <1>0, <1>6, <2>1, <2>2 DEF S_Kept, TypeOK
<1>7. CASE S_Stop
  <2>1. toS' \in Seq(FramesToS)
    BY <1>0, <1>7, TailFacts DEF S_Stop, TakeFromR, TypeOK
  <2>2. sFail' \in SenderFailures /\ toR' \in Seq(FramesToR)
    BY <1>0, <1>7, SFailType DEF S_Stop, SenderFailures, PeerFailures, failureForStop
  <2> QED
    BY <1>0, <1>7, <2>1, <2>2 DEF S_Stop, TypeOK
<1>8. CASE S_Ignore
  BY <1>0, <1>8, TailFacts DEF S_Ignore, TakeFromR, TypeOK
<1>9. CASE S_Low
  <2>1. paused' \in BOOLEAN /\ lowPending' \in BOOLEAN
    BY <1>0, <1>9 DEF S_Low, TypeOK
  <2>2. UNCHANGED <<sPhase, sFail, sent, acknowledged, left, ended, receiverVars, toR, toS, openVars, buffered>>
    BY <1>9 DEF S_Low
  <2> QED
    BY <1>0, <2>1, <2>2 DEF TypeOK, receiverVars, openVars
<1>10. CASE S_Closed
  BY <1>0, <1>10, SFailType DEF S_Closed, SenderFailures, TypeOK
<1>11. CASE S_Abort
  BY <1>0, <1>11, SFailType DEF S_Abort, SenderFailures, TypeOK
<1>12. CASE S_Reject
  BY <1>0, <1>12 DEF S_Reject, TypeOK
<1>13. CASE \E aborted \in BOOLEAN : R_Start(aborted)
  <2>1. PICK aborted \in BOOLEAN : R_Start(aborted)
    BY <1>13
  <2>2. rFail' \in ReceiverFailures /\ toS' \in Seq(FramesToS)
    BY <1>0, <2>1, RFailType DEF R_Start, ReceiverFailures, TypeOK
  <2> QED
    BY <1>0, <2>1, <2>2 DEF R_Start, TypeOK
<1>14. CASE R_Data
  <2>1. toR' \in Seq(FramesToR) /\ Head(toR) \in DataFrames
    BY <1>0, <1>14, TailFacts DEF R_Data, TakeFromS, TypeOK, FramesToR, End, StopFrames
  <2>2. rFail' \in ReceiverFailures /\ toS' \in Seq(FramesToS)
    BY <1>0, <1>14, RFailType DEF R_Data, ReceiverFailures, TypeOK
  <2>3. received' \in 0..Total
    BY <1>0, <1>14, <2>1 DEF R_Data, TypeOK, DataAllowed, DataFrames
  <2>4. queue' \in Seq(Steps)
    <3>1. Append(queue, Head(toR)) \in Seq(Steps)
      BY <1>0, <2>1, AppendFacts DEF TypeOK, Steps
    <3> QED
      BY <1>0, <1>14, <3>1 DEF R_Data, TypeOK, Enqueue
  <2> QED
    BY <1>0, <1>14, <2>1, <2>2, <2>3, <2>4 DEF R_Data, TypeOK
<1>15. CASE R_End
  <2>1. toR' \in Seq(FramesToR)
    BY <1>0, <1>15, TailFacts DEF R_End, TakeFromS, TypeOK
  <2>2. rFail' \in ReceiverFailures /\ toS' \in Seq(FramesToS)
    BY <1>0, <1>15, RFailType DEF R_End, ReceiverFailures, TypeOK
  <2>3. queue' \in Seq(Steps) /\ endSeen' \in BOOLEAN
    <3>1. Append(queue, End) \in Seq(Steps)
      BY <1>0, AppendFacts DEF TypeOK, Steps
    <3> QED
      BY <1>0, <1>15, <3>1 DEF R_End, TypeOK, Enqueue
  <2> QED
    BY <1>0, <1>15, <2>1, <2>2, <2>3 DEF R_End, TypeOK
<1>16. CASE R_Stop
  <2>1. toR' \in Seq(FramesToR)
    BY <1>0, <1>16, TailFacts DEF R_Stop, TakeFromS, TypeOK
  <2>2. rFail' \in ReceiverFailures /\ toS' \in Seq(FramesToS)
    BY <1>0, <1>16, RFailType DEF R_Stop, ReceiverFailures, PeerFailures, failureForStop
  <2> QED
    BY <1>0, <1>16, <2>1, <2>2 DEF R_Stop, TypeOK
<1>17. CASE R_Ignore
  <2>1. toR' \in Seq(FramesToR) /\ missed' \in BOOLEAN
    BY <1>0, <1>17, TailFacts DEF R_Ignore, TakeFromS, TypeOK
  <2> QED
    BY <1>0, <1>17, <2>1 DEF R_Ignore, TypeOK
<1>18. CASE R_StepStart
  <2>1. queue' \in Seq(Steps) /\ busy' \in Steps \cup {Idle}
    BY <1>0, <1>18, TailFacts DEF R_StepStart, TypeOK
  <2> QED
    BY <1>0, <1>18, <2>1 DEF R_StepStart, TypeOK
<1>19. CASE R_WriteDone
  <2>1. busy \in DataFrames
    BY <1>0, <1>19 DEF R_WriteDone, TypeOK, Steps, End, Idle
  <2>2. written' \in 1..Total
    BY <1>0, <1>19, <2>1 DEF R_WriteDone, TypeOK, DataFrames, IInv, QueueInOrder, Tip
  <2>3. lastAck' \in 0..Total
    BY <1>0, <1>19, <2>2 DEF R_WriteDone, Acknowledge, TypeOK
  <2>4. rFail' \in ReceiverFailures /\ toS' \in Seq(FramesToS)
    <3>1. Append(toS, Ack(written')) \in Seq(FramesToS)
      BY <1>0, <2>2, AppendFacts, FrameTypes DEF TypeOK
    <3>2. RFail("closed", 0) => rFail' \in ReceiverFailures /\ toS' \in Seq(FramesToS)
      BY <1>0, RFailType DEF ReceiverFailures
    <3> QED
      BY <1>0, <1>19, <3>1, <3>2 DEF R_WriteDone, Acknowledge, StepFail, TypeOK
  <2> QED
    BY <1>0, <1>19, <2>2, <2>3, <2>4 DEF R_WriteDone, TypeOK
<1>20. CASE R_EndDone
  <2>1. rFail' \in ReceiverFailures /\ toS' \in Seq(FramesToS)
    <3>1. Append(toS, Kept) \in Seq(FramesToS)
      BY <1>0, AppendFacts, FrameTypes DEF TypeOK
    <3>2. RFail("closed", 0) => rFail' \in ReceiverFailures /\ toS' \in Seq(FramesToS)
      BY <1>0, RFailType DEF ReceiverFailures
    <3> QED
      BY <1>0, <1>20, <3>1, <3>2 DEF R_EndDone, StepFail, TypeOK
  <2>2. rPhase' \in {rPhase, "resolved"}
    BY <1>20 DEF R_EndDone
  <2> QED
    BY <1>0, <1>20, <2>1, <2>2 DEF R_EndDone, TypeOK
<1>21. CASE R_StepFails
  <2>1. rFail' \in ReceiverFailures /\ toS' \in Seq(FramesToS)
    BY <1>0, <1>21, RFailType DEF R_StepFails, StepFail, TypeOK, ReceiverFailures
  <2> QED
    BY <1>0, <1>21, <2>1 DEF R_StepFails, TypeOK
<1>22. CASE R_Closed
  BY <1>0, <1>22, RFailType DEF R_Closed, ReceiverFailures, TypeOK
<1>23. CASE R_Abort
  BY <1>0, <1>23, RFailType DEF R_Abort, ReceiverFailures, TypeOK
<1>24. CASE R_GiveUp
  <2>1. toS' \in Seq(FramesToS)
    BY <1>0, <1>24, PrefixFacts DEF R_GiveUp, TypeOK
  <2>2. rFail' \in ReceiverFailures
    BY <1>24 DEF R_GiveUp, ReceiverFailures
  <2> QED
    BY <1>0, <1>24, <2>1, <2>2 DEF R_GiveUp, TypeOK
<1>25. CASE R_Reject
  BY <1>0, <1>25 DEF R_Reject, TypeOK
<1>26. CASE Drain
  <2>1. buffered' \in Nat /\ lowPending' \in BOOLEAN
    BY <1>0, <1>26 DEF Drain, TypeOK
  <2> QED
    BY <1>0, <1>26, <2>1 DEF Drain, TypeOK
<1>27. CASE CloseSender
  <2>1. toR' \in Seq(FramesToR) /\ sOpen' \in BOOLEAN
    BY <1>0, <1>27, PrefixFacts DEF CloseSender, TypeOK
  <2> QED
    BY <1>0, <1>27, <2>1 DEF CloseSender, TypeOK
<1>28. CASE CloseReceiver
  <2>1. toS' \in Seq(FramesToS) /\ rOpen' \in BOOLEAN
    BY <1>0, <1>28, PrefixFacts DEF CloseReceiver, TypeOK
  <2> QED
    BY <1>0, <1>28, <2>1 DEF CloseReceiver, TypeOK
<1>29. CASE UNCHANGED vars
  BY <1>0, <1>29 DEF TypeOK
<1> QED
  BY <1>1, <1>2, <1>3, <1>4, <1>5, <1>6, <1>7, <1>8, <1>9, <1>10, <1>11, <1>12, <1>13, <1>14, <1>15,
     <1>16, <1>17, <1>18, <1>19, <1>20, <1>21, <1>22, <1>23, <1>24, <1>25, <1>26, <1>27, <1>28, <1>29
     DEF Next, Sender, Receiver, Channel, Over

-----------------------------------------------------------------------------
(* Who writes what: the receiver and the channel leave the sender alone,   *)
(* and the other way round.                                                *)

(* A step of the receiver leaves the sender and its channel end alone.     *)
LEMMA ReceiverFrame ==
  ASSUME Receiver
  PROVE  UNCHANGED <<sPhase, sFail, sent, acknowledged, left, paused, ended, sOpen, buffered, lowPending>>
  BY DEF Receiver, R_Start, R_Data, R_End, R_Stop, R_Ignore, R_StepStart, R_WriteDone, R_EndDone,
         R_StepFails, R_Closed, R_Abort, R_GiveUp, R_Reject, senderVars, openVars, bufferVars

(* A step of the sender leaves the receiver alone and closes nothing.      *)
LEMMA SenderFrame ==
  ASSUME Sender
  PROVE  UNCHANGED <<rPhase, rFail, received, written, lastAck, endSeen, queue, busy, sink, missed, sOpen, rOpen>>
  BY DEF Sender, S_Start, S_Record, S_ReadFails, S_SendData, S_Ack, S_Kept, S_Stop, S_Ignore, S_Low,
         S_Closed, S_Abort, S_Reject, receiverVars, openVars

(* A step of the channel touches neither end's own state.                  *)
LEMMA ChannelFrame ==
  ASSUME Channel \/ Over \/ UNCHANGED vars
  PROVE  /\ UNCHANGED <<sPhase, sFail, sent, acknowledged, left, paused, ended>>
         /\ UNCHANGED <<rPhase, rFail, received, written, lastAck, endSeen, queue, busy, sink, missed>>
  BY DEF Channel, Over, Drain, CloseSender, CloseReceiver, vars, senderVars, receiverVars

(* The send buffer stays near its marks, and a paused sender has a wakeup. *)
LEMMA BufferStep == IInv /\ [Next]_vars => BufferMarks' /\ PausedHasWakeup'
<1> SUFFICES ASSUME IInv, [Next]_vars PROVE BufferMarks' /\ PausedHasWakeup'
  OBVIOUS
<1> USE SizesAssumption, LimitsAssumption
<1>0. TypeOK /\ BufferMarks /\ PausedHasWakeup
  BY DEF IInv
<1> USE <1>0 DEF BufferMarks, PausedHasWakeup, SenderActive
<1>1. CASE \E aborted, small \in BOOLEAN : S_Start(aborted, small)
  <2>1. UNCHANGED <<paused, buffered, lowPending>> /\ sPhase = "start" /\ sPhase' # "start"
    BY <1>1 DEF S_Start, bufferVars
  <2> QED
    BY <2>1 DEF TypeOK
<1>2. CASE \E take \in 1..Room : S_SendData(take)
  <2>1. PICK take \in 1..Room : S_SendData(take)
    BY <1>2
  <2>2. CASE sOpen
    <3>1. /\ sPhase = "loop" /\ ~paused /\ buffered' = buffered + take
          /\ paused' <=> buffered + take > HighWater
          /\ lowPending' = lowPending /\ sPhase' # "start"
      BY <2>1, <2>2 DEF S_SendData, Allowed, PauseAt
    <3>2. buffered \in Nat /\ lowPending \in BOOLEAN
      BY DEF TypeOK
    <3> QED
      BY <3>1, <3>2
  <2>3. CASE ~sOpen
    <3>1. UNCHANGED <<paused, buffered, lowPending>> /\ sPhase' = "rejected"
      BY <2>1, <2>3 DEF S_SendData
    <3> QED
      BY <3>1 DEF TypeOK
  <2> QED
    BY <2>2, <2>3
<1>3. CASE S_Low
  <2>1. /\ lowPending /\ lowPending' = FALSE /\ buffered' = buffered /\ sPhase' = sPhase
        /\ SenderActive => paused' = FALSE
        /\ ~SenderActive => paused' = paused
    BY <1>3 DEF S_Low
  <2> QED
    BY <2>1 DEF TypeOK
<1>4. CASE Drain
  <2>1. PICK rest \in 0..(buffered - 1) :
          /\ buffered' = rest
          /\ lowPending' = (lowPending \/ (buffered > LowWater /\ rest <= LowWater))
    BY <1>4 DEF Drain
  <2>2. UNCHANGED <<paused, sPhase>> /\ buffered \in Nat
    BY <1>4 DEF Drain, senderVars, TypeOK
  <2> QED
    BY <2>1, <2>2 DEF TypeOK
<1>5. CASE /\ UNCHANGED <<paused, buffered, lowPending>>
           /\ sPhase' = sPhase \/ (sPhase \in {"loop", "await"} /\ sPhase' # "start")
  BY <1>5 DEF TypeOK
<1>6. ASSUME Receiver \/ CloseSender \/ CloseReceiver \/ Over \/ UNCHANGED vars
      PROVE  UNCHANGED <<paused, buffered, lowPending, sPhase>>
  BY <1>6, ReceiverFrame DEF CloseSender, CloseReceiver, Over, vars, senderVars, bufferVars
<1>7. ASSUME S_Record \/ S_ReadFails \/ S_Ack \/ S_Kept \/ S_Stop \/ S_Ignore \/ S_Closed \/ S_Abort \/ S_Reject
      PROVE  /\ UNCHANGED <<paused, buffered, lowPending>>
             /\ sPhase' = sPhase \/ (sPhase \in {"loop", "await"} /\ sPhase' # "start")
  BY <1>7 DEF S_Record, S_ReadFails, S_Ack, S_Kept, S_Stop, S_Ignore, S_Closed, S_Abort, S_Reject,
              senderVars, bufferVars, SListening
<1> QED
  BY <1>1, <1>2, <1>3, <1>4, <1>5, <1>6, <1>7 DEF Next, Sender, Channel

(* What the sender's own steps do to its phase, failure and END.           *)
LEMMA SenderPhase ==
  ASSUME IInv, Sender
  PROVE  /\ ended => ended' /\ sent' = sent
         /\ ended' => sPhase' \in {"await", "resolved", "rejected"} /\ sent' = Total
         /\ sPhase' = "rejected" => sFail' # "none"
         /\ sFail # "none" => sFail' # "none"
         /\ sent <= sent'
<1> USE SizesAssumption DEF IInv, PhasesAgree
<1>0. TypeOK
  OBVIOUS
<1>1. CASE \E aborted, small \in BOOLEAN : S_Start(aborted, small)
  BY <1>0, <1>1 DEF S_Start, SFail, TypeOK
<1>2. CASE \E take \in 1..Room : S_SendData(take)
  <2>1. PICK take \in 1..Room : S_SendData(take)
    BY <1>2
  <2>2. CASE sOpen
    <3>1. /\ sPhase = "loop" /\ sFail = "none" /\ sFail' = sFail
          /\ sent' = sent + take
          /\ ended' <=> sent' = Total
          /\ sPhase' = IF sent' = Total THEN "await" ELSE "loop"
      BY <2>1, <2>2 DEF S_SendData
    <3> QED
      BY <1>0, <3>1 DEF TypeOK
  <2>3. CASE ~sOpen
    BY <1>0, <2>1, <2>3 DEF S_SendData, SFail, TypeOK
  <2> QED
    BY <2>2, <2>3
<1>3. CASE S_Record \/ S_Low \/ S_Ignore \/ S_Reject
  <2>1. /\ UNCHANGED <<sFail, sent, ended>>
        /\ sPhase' = sPhase \/ (sPhase' = "rejected" /\ sFail # "none")
    BY <1>3 DEF S_Record, S_Low, S_Ignore, S_Reject, senderVars
  <2> QED
    BY <1>0, <2>1 DEF TypeOK
<1>5. CASE S_ReadFails \/ S_Closed \/ S_Abort
  <2>1. UNCHANGED <<sent, ended>> /\ sPhase' \in {sPhase, "rejected"} /\ sFail' # "none"
    BY <1>5 DEF S_ReadFails, S_Closed, S_Abort, SFail
  <2> QED
    BY <1>0, <2>1 DEF TypeOK
<1>4. CASE S_Ack \/ S_Kept \/ S_Stop
  BY <1>0, <1>4 DEF S_Ack, S_Kept, S_Stop, SFail, TypeOK, SListening, SenderActive, failureForStop
<1> QED
  BY <1>1, <1>2, <1>3, <1>4, <1>5 DEF Sender

(* The two ends' phases, failures and the sink stay consistent.            *)
LEMMA PhasesStep == IInv /\ [Next]_vars => PhasesAgree'
<1> SUFFICES ASSUME IInv, [Next]_vars PROVE PhasesAgree'
  OBVIOUS
<1>0. TypeOK /\ PhasesAgree /\ QueueInOrder
  BY DEF IInv
<1>1. CASE Sender
  BY <1>0, <1>1, SenderPhase, SenderFrame DEF PhasesAgree
<1>2. CASE Channel \/ Over \/ UNCHANGED vars
  BY <1>0, <1>2, ChannelFrame DEF PhasesAgree
<1>3. CASE Receiver
  <2>0. UNCHANGED <<sPhase, sFail, sent, ended>>
    BY <1>3, ReceiverFrame
  <2>1. CASE \E aborted \in BOOLEAN : R_Start(aborted)
    BY <1>0, <2>0, <2>1 DEF R_Start, PhasesAgree
  <2>2. CASE R_Data \/ R_End \/ R_Stop \/ R_Closed \/ R_Abort \/ R_GiveUp
    <3>1. rPhase = "wait" /\ rPhase' = "wait" /\ rFail = "none"
      BY <2>2 DEF R_Data, R_End, R_Stop, R_Closed, R_Abort, R_GiveUp, RListening
    <3>2. sink' \in {sink, "aborted"}
      BY <2>2 DEF R_Data, R_End, R_Stop, R_Closed, R_Abort, R_GiveUp
    <3> QED
      BY <1>0, <2>0, <3>1, <3>2 DEF PhasesAgree
  <2>3. CASE R_Ignore
    BY <1>0, <2>0, <2>3 DEF R_Ignore, PhasesAgree
  <2>4. CASE R_StepStart \/ R_WriteDone \/ R_StepFails
    <3>1. rPhase = "wait" /\ UNCHANGED <<rPhase, sink>>
      BY <1>0, <2>4 DEF R_StepStart, R_WriteDone, R_StepFails, PhasesAgree, Idle
    <3>2. rFail # "none" => rFail' # "none"
      BY <2>4 DEF R_StepStart, R_WriteDone, R_StepFails, Acknowledge, StepFail
    <3> QED
      BY <1>0, <2>0, <3>1, <3>2 DEF PhasesAgree
  <2>5. CASE R_EndDone
    <3>1. /\ rPhase = "wait" /\ sink' = "kept" /\ queue = <<>> /\ queue' = queue /\ busy' = Idle
          /\ \/ rFail' = rFail /\ rFail = "none" /\ rPhase' = "resolved"
             \/ rFail' # "none" /\ rPhase' = rPhase
      BY <1>0, <2>5 DEF R_EndDone, StepFail, RFail, PhasesAgree, QueueInOrder, Idle, End
    <3> QED
      BY <1>0, <2>0, <3>1 DEF PhasesAgree
  <2>6. CASE R_Reject
    BY <1>0, <2>0, <2>6 DEF R_Reject, PhasesAgree
  <2> QED
    BY <1>3, <2>1, <2>2, <2>3, <2>4, <2>5, <2>6 DEF Receiver
<1> QED
  BY <1>1, <1>2, <1>3 DEF Next

-----------------------------------------------------------------------------
(* A chain grows at its end and is used up from its head.                  *)

(* A frame that begins where the chain ends extends it.                    *)
LEMMA ChainAppend ==
  ASSUME NEW s \in Seq(Steps), NEW f \in Steps, NEW a, NEW b, Chain(s, a, b),
         Base(f) = b, \A i \in 1..Len(s) : s[i] # End
  PROVE  Chain(Append(s, f), a, Tip(f))
<1> DEFINE t == Append(s, f)
<1>1. /\ Len(t) = Len(s) + 1 /\ Len(s) \in Nat /\ t[Len(s) + 1] = f /\ t # <<>>
      /\ \A i \in 1..Len(s) : t[i] = s[i]
  BY AppendFacts
<1> HIDE DEF t
<1>2. Base(t[1]) = a
  <2>1. CASE s = <<>>
    BY <1>1, <2>1 DEF Chain
  <2>2. CASE s # <<>>
    <3>1. Len(s) >= 1
      BY <2>2
    <3> QED
      BY <1>1, <2>2, <3>1 DEF Chain
  <2> QED
    BY <2>1, <2>2
<1>3. Tip(t[Len(t)]) = Tip(f)
  BY <1>1
<1>4. ASSUME NEW i \in 1..(Len(t) - 1) PROVE t[i] # End /\ Tip(t[i]) = Base(t[i + 1])
  <2>1. CASE i < Len(s)
    BY <1>1, <1>4, <2>1 DEF Chain
  <2>2. CASE i = Len(s)
    <3>1. s # <<>> /\ t[i] = s[Len(s)] /\ t[i + 1] = f
      BY <1>1, <1>4, <2>2
    <3> QED
      BY <1>4, <2>2, <3>1 DEF Chain
  <2> QED
    BY <1>1, <1>4, <2>1, <2>2
<1>5. Chain(t, a, Tip(f))
  BY <1>1, <1>2, <1>3, <1>4 DEF Chain
<1> QED
  BY <1>5 DEF t

(* Taking the head leaves a chain that begins where the head ended.        *)
LEMMA ChainTail ==
  ASSUME NEW s \in Seq(Steps), s # <<>>, NEW a, NEW b, Chain(s, a, b)
  PROVE  /\ Base(Head(s)) = a /\ Chain(Tail(s), Tip(Head(s)), b)
         /\ Head(s) = End => Tail(s) = <<>>
<1> DEFINE t == Tail(s)
<1>1. /\ Len(t) = Len(s) - 1 /\ Len(s) \in Nat \ {0} /\ Head(s) = s[1] /\ t \in Seq(Steps)
      /\ \A i \in 1..Len(t) : t[i] = s[i + 1]
  BY TailFacts
<1> HIDE DEF t
<1>2. t = <<>> <=> Len(s) = 1
  <2>1. t = <<>> <=> Len(t) = 0
    BY <1>1
  <2> QED
    BY <1>1, <2>1
<1>3. ASSUME t # <<>> PROVE Base(t[1]) = Tip(s[1]) /\ s[1] # End /\ Tip(t[Len(t)]) = b
  <2>1. Len(s) >= 2
    BY <1>1, <1>2, <1>3
  <2> QED
    BY <1>1, <2>1 DEF Chain
<1>4. ASSUME NEW i \in 1..(Len(t) - 1) PROVE t[i] # End /\ Tip(t[i]) = Base(t[i + 1])
  <2>1. i + 1 \in 1..(Len(s) - 1) /\ t[i] = s[i + 1] /\ t[i + 1] = s[(i + 1) + 1]
    BY <1>1, <1>4
  <2> QED
    BY <2>1 DEF Chain
<1>5. t = <<>> => Tip(s[1]) = b
  BY <1>1, <1>2 DEF Chain
<1>6. Chain(t, Tip(Head(s)), b)
  BY <1>1, <1>3, <1>4, <1>5 DEF Chain
<1> QED
  BY <1>1, <1>3, <1>6 DEF t, Chain

(* The sink's steps carry the bytes from written to received, in order.    *)
LEMMA QueueStep == IInv /\ [Next]_vars => QueueInOrder'
<1> SUFFICES ASSUME IInv, [Next]_vars PROVE QueueInOrder'
  OBVIOUS
<1> USE SizesAssumption
<1>0. TypeOK /\ QueueInOrder /\ PhasesAgree /\ KeptIsTrue
  BY DEF IInv
<1>a. /\ received \in 0..Total /\ written \in 0..Total /\ queue \in Seq(Steps)
      /\ busy \in Steps \cup {Idle} /\ toR \in Seq(FramesToR)
  BY <1>0 DEF TypeOK
<1>1. CASE Sender
  BY <1>0, <1>1, SenderPhase, SenderFrame DEF QueueInOrder
<1>2. CASE Channel \/ Over \/ UNCHANGED vars
  BY <1>0, <1>2, ChannelFrame DEF QueueInOrder
<1>3. CASE Receiver
  <2>0. ended' = ended
    BY <1>3, ReceiverFrame
  <2>1. ASSUME /\ UNCHANGED <<received, written, endSeen, queue, busy>>
               /\ sink' # "kept" \/ sink' = sink
               /\ rFail' = "none" => rFail = "none"
        PROVE  QueueInOrder'
    BY <1>0, <2>0, <2>1 DEF QueueInOrder
  <2>2. CASE (\E aborted \in BOOLEAN : R_Start(aborted)) \/ R_Stop \/ R_Ignore \/ R_Closed \/ R_Abort \/ R_GiveUp \/ R_Reject
    <3>1. /\ UNCHANGED <<received, written, endSeen, queue, busy>>
          /\ sink' # "kept" \/ sink' = sink
      BY <2>2 DEF R_Start, R_Stop, R_Ignore, R_Closed, R_Abort, R_GiveUp, R_Reject
    <3>2. rFail' = "none" => rFail = "none"
      BY <1>0, <2>2 DEF R_Start, R_Stop, R_Ignore, R_Closed, R_Abort, R_GiveUp, R_Reject, RListening, PhasesAgree
    <3> QED
      BY <2>1, <3>1, <3>2
  <2>3. CASE R_Data
    <3>0. Head(toR) \in DataFrames /\ Head(toR) \in Steps
      BY <1>a, <2>3, TailFacts DEF R_Data, TakeFromS, FramesToR, End, StopFrames, Steps
    <3>1. CASE ~DataAllowed(Head(toR).offset, Head(toR).length)
      BY <2>1, <2>3, <3>1 DEF R_Data, RFail
    <3>2. CASE DataAllowed(Head(toR).offset, Head(toR).length)
      <4>1. /\ received' = received + Head(toR).length /\ queue' = Append(queue, Head(toR))
            /\ ~endSeen /\ Head(toR).offset = received
            /\ UNCHANGED <<written, endSeen, busy, rFail, sink>>
        BY <2>3, <3>2 DEF R_Data, DataAllowed, Enqueue
      <4>2. Base(Head(toR)) = received /\ Tip(Head(toR)) = received' /\ received' \in Nat /\ received <= received'
        BY <1>a, <3>0, <4>1 DEF Base, Tip, DataFrames
      <4>3. Head(toR) # End
        BY <3>0 DEF DataFrames, End
      <4>4. /\ Len(queue') = Len(queue) + 1 /\ Len(queue) \in Nat /\ queue'[Len(queue) + 1] = Head(toR)
            /\ \A i \in 1..Len(queue) : queue'[i] = queue[i]
        BY <1>a, <3>0, <4>1, AppendFacts
      <4>5. \A i \in 1..Len(queue') : queue'[i] # End /\ Tip(queue'[i]) <= received'
        <5> TAKE i \in 1..Len(queue')
        <5>1. CASE i = Len(queue) + 1
          BY <1>a, <4>1, <4>2, <4>3, <4>4, <5>1
        <5>2. CASE i \in 1..Len(queue)
          <6>1. queue[i] \in Steps
            BY <1>a, <5>2
          <6>2. Tip(queue[i]) \in Nat
            BY <6>1 DEF Steps, Tip, DataFrames, End
          <6> QED
            BY <1>0, <1>a, <4>1, <4>2, <4>4, <5>2, <6>2 DEF QueueInOrder
        <5> QED
          BY <4>4, <5>1, <5>2
      <4>6. rFail = "none" => Chain(queue', IF busy = Idle THEN written ELSE Tip(busy), received')
        BY <1>0, <1>a, <3>0, <4>1, <4>2, ChainAppend DEF QueueInOrder
      <4>7. busy.type = "data" => Tip(busy) <= received'
        <5>1. busy.type = "data" => Tip(busy) \in Nat
          BY <1>a DEF Steps, Tip, DataFrames, End, Idle
        <5> QED
          BY <1>0, <1>a, <4>2, <5>1 DEF QueueInOrder
      <4> QED
        BY <1>0, <1>a, <2>0, <4>1, <4>2, <4>5, <4>6, <4>7 DEF QueueInOrder
    <3> QED
      BY <3>1, <3>2
  <2>4. CASE R_End
    <3>1. CASE ~EndAllowed
      BY <2>1, <2>4, <3>1 DEF R_End, RFail
    <3>2. CASE EndAllowed
      <4>1. /\ queue' = Append(queue, End) /\ endSeen' = TRUE /\ ~endSeen /\ received = Total
            /\ UNCHANGED <<received, written, busy, rFail, sink>>
        BY <2>4, <3>2 DEF R_End, EndAllowed, Enqueue
      <4>2. Base(End) = received /\ Tip(End) = received /\ End \in Steps
        BY <4>1 DEF Base, Tip, End, Steps
      <4>3. toR # <<>> /\ Head(toR) = End
        BY <1>a, <2>4, TailFacts DEF R_End, TakeFromS, FramesToR, End, StopFrames, DataFrames
      <4>4. ended
        BY <1>0, <1>a, <4>3, TailFacts DEF KeptIsTrue
      <4>5. /\ Len(queue') = Len(queue) + 1 /\ Len(queue) \in Nat /\ queue'[Len(queue) + 1] = End
            /\ \A i \in 1..Len(queue) : queue'[i] = queue[i]
        BY <1>a, <4>1, <4>2, AppendFacts
      <4>6. \A i \in 1..Len(queue') : Tip(queue'[i]) <= received'
        BY <1>0, <1>a, <4>1, <4>2, <4>5 DEF QueueInOrder
      <4>7. rFail = "none" => Chain(queue', IF busy = Idle THEN written ELSE Tip(busy), received')
        BY <1>0, <1>a, <4>1, <4>2, ChainAppend DEF QueueInOrder
      <4> QED
        BY <1>0, <1>a, <2>0, <4>1, <4>4, <4>6, <4>7 DEF QueueInOrder
    <3> QED
      BY <3>1, <3>2
  <2>5. CASE R_StepStart
    <3>0. /\ queue # <<>> /\ busy = Idle /\ queue' = Tail(queue)
          /\ busy' = IF rFail = "none" THEN Head(queue) ELSE Idle
          /\ UNCHANGED <<received, written, endSeen, rFail, sink>>
      BY <2>5 DEF R_StepStart
    <3>1. /\ Len(queue') = Len(queue) - 1 /\ Len(queue) \in Nat \ {0} /\ Head(queue) = queue[1]
          /\ Head(queue) \in Steps /\ \A i \in 1..Len(queue') : queue'[i] = queue[i + 1]
      BY <1>a, <3>0, TailFacts
    <3>2. /\ \A i \in 1..Len(queue') : Tip(queue'[i]) <= received'
          /\ ~endSeen => \A i \in 1..Len(queue') : queue'[i] # End
          /\ ~endSeen => Head(queue) # End
          /\ Tip(Head(queue)) <= received
      BY <1>0, <3>0, <3>1 DEF QueueInOrder
    <3>3. CASE rFail = "none"
      <4>1. /\ Base(Head(queue)) = written /\ Chain(queue', Tip(Head(queue)), received)
            /\ Head(queue) = End => queue' = <<>>
        BY <1>0, <1>a, <3>0, <3>3, ChainTail DEF QueueInOrder
      <4>2. busy' = Head(queue) /\ busy' # Idle
        BY <3>0, <3>1, <3>3 DEF Steps, DataFrames, End, Idle
      <4>3. /\ busy'.type = "data" => busy'.offset = written
            /\ busy' = End => written = Total
        BY <3>1, <4>1, <4>2 DEF Base, Steps, DataFrames, End
      <4> QED
        BY <1>0, <2>0, <3>0, <3>2, <3>3, <4>1, <4>2, <4>3 DEF QueueInOrder
    <3>4. CASE rFail # "none"
      <4>1. busy' = Idle /\ busy'.type # "data" /\ busy' # End
        BY <3>0, <3>4 DEF Idle, End
      <4> QED
        BY <1>0, <2>0, <3>0, <3>2, <3>4, <4>1 DEF QueueInOrder
    <3> QED
      BY <3>3, <3>4
  <2>6. CASE R_WriteDone
    <3>0. /\ busy.type = "data" /\ busy' = Idle /\ written' = written + busy.length
          /\ UNCHANGED <<received, endSeen, queue, sink>>
      BY <2>6 DEF R_WriteDone
    <3>1. busy \in DataFrames /\ busy # Idle
      BY <1>a, <3>0 DEF Steps, End, Idle
    <3>2. written' = Tip(busy) /\ written' <= received /\ written' \in Nat /\ written' > written
      BY <1>0, <1>a, <3>0, <3>1 DEF QueueInOrder, Tip, DataFrames
    <3>3. busy'.type # "data" /\ busy' # End
      BY <3>0 DEF Idle, End
    <3>4. rFail' = "none" => rFail = "none"
      BY <2>6 DEF R_WriteDone, Acknowledge, StepFail
    <3>5. sink # "kept"
      BY <1>0, <1>a, <3>2 DEF QueueInOrder
    <3> QED
      BY <1>0, <2>0, <3>0, <3>1, <3>2, <3>3, <3>4, <3>5 DEF QueueInOrder
  <2>7. CASE R_EndDone
    <3>0. /\ busy = End /\ busy' = Idle /\ sink' = "kept"
          /\ UNCHANGED <<received, written, endSeen, queue>>
      BY <2>7 DEF R_EndDone
    <3>1. endSeen /\ queue = <<>> /\ written = Total /\ received = Total /\ ended
      BY <1>0, <3>0 DEF QueueInOrder
    <3>2. busy'.type # "data" /\ busy' # End
      BY <3>0 DEF Idle, End
    <3>3. Chain(queue', written, received)
      BY <3>0, <3>1 DEF Chain
    <3> QED
      BY <1>0, <2>0, <3>0, <3>1, <3>2, <3>3 DEF QueueInOrder
  <2>8. CASE R_StepFails
    <3>0. busy' = Idle /\ UNCHANGED <<received, written, endSeen, queue, sink>>
      BY <2>8 DEF R_StepFails
    <3>1. busy'.type # "data" /\ busy' # End
      BY <3>0 DEF Idle, End
    <3>2. rFail' # "none"
      BY <2>8 DEF R_StepFails, StepFail, RFail
    <3> QED
      BY <1>0, <2>0, <3>0, <3>1, <3>2 DEF QueueInOrder
  <2> QED
    BY <1>3, <2>2, <2>3, <2>4, <2>5, <2>6, <2>7, <2>8 DEF Receiver
<1> QED
  BY <1>1, <1>2, <1>3 DEF Next

(* What was received and not acknowledged fits in the window.              *)
LEMMA WindowStep == IInv /\ [Next]_vars => WindowKept'
<1> SUFFICES ASSUME IInv, [Next]_vars PROVE WindowKept'
  OBVIOUS
<1> USE SizesAssumption, LimitsAssumption
<1>0. TypeOK /\ WindowKept
  BY DEF IInv
<1>a. received \in 0..Total /\ written \in 0..Total /\ lastAck \in 0..Total
  BY <1>0 DEF TypeOK
<1>1. CASE UNCHANGED <<received, written, lastAck>>
  BY <1>0, <1>1 DEF WindowKept
<1>2. CASE R_Data
  <2>0. Head(toR).length \in Nat
    BY <1>0, <1>2, TailFacts DEF TypeOK, R_Data, TakeFromS, FramesToR, DataFrames, End, StopFrames
  <2>1. /\ UNCHANGED <<written, lastAck>>
        /\ \/ received' = received
           \/ received' = received + Head(toR).length /\ received + Head(toR).length - lastAck <= Window
    BY <1>2 DEF R_Data, DataAllowed
  <2> QED
    BY <1>0, <1>a, <2>0, <2>1 DEF WindowKept
<1>3. CASE R_WriteDone
  <2>1. busy \in DataFrames
    BY <1>0, <1>3 DEF R_WriteDone, TypeOK, Steps, End, Idle
  <2>2. written' > written /\ written' \in Nat /\ received' = received
    BY <1>a, <1>3, <2>1 DEF R_WriteDone, DataFrames
  <2>3. lastAck' = lastAck \/ lastAck' = written'
    BY <1>3 DEF R_WriteDone, Acknowledge
  <2> QED
    BY <1>0, <1>a, <2>2, <2>3 DEF WindowKept
<1>4. CASE Sender \/ Channel \/ Over \/ UNCHANGED vars
  BY <1>1, <1>4, SenderFrame, ChannelFrame
<1>5. CASE Receiver
  <2>1. Receiver => R_Data \/ R_WriteDone \/ UNCHANGED <<received, written, lastAck>>
    BY DEF Receiver, R_Start, R_End, R_Stop, R_Ignore, R_StepStart, R_EndDone, R_StepFails, R_Closed, R_Abort, R_GiveUp, R_Reject
  <2> QED
    BY <1>1, <1>2, <1>3, <1>5, <2>1
<1> QED
  BY <1>4, <1>5 DEF Next

-----------------------------------------------------------------------------
(* Increasing ACKs stay so when the head is taken, a frame is added or the *)
(* wire is cut.                                                            *)

(* Taking the first frame leaves ACKs that are still news after it.        *)
LEMMA AcksTail ==
  ASSUME NEW s \in Seq(FramesToS), s # <<>>, NEW lo \in Nat, NEW hi \in Nat, AcksIncrease(s, lo, hi)
  PROVE  /\ AcksIncrease(Tail(s), lo, hi)
         /\ Head(s).type = "ack" => AcksIncrease(Tail(s), Head(s).next, hi)
<1>1. /\ Len(Tail(s)) = Len(s) - 1 /\ Len(s) \in Nat \ {0} /\ Head(s) = s[1]
      /\ \A i \in 1..Len(Tail(s)) : Tail(s)[i] = s[i + 1]
  BY TailFacts
<1>2. ASSUME NEW i \in 1..Len(Tail(s)), Tail(s)[i].type = "ack"
      PROVE  /\ lo < Tail(s)[i].next /\ Tail(s)[i].next <= hi
             /\ Head(s).type = "ack" => Head(s).next < Tail(s)[i].next
             /\ \A j \in 1..(i - 1) : Tail(s)[j].type = "ack" => Tail(s)[j].next < Tail(s)[i].next
  <2>1. i + 1 \in 1..Len(s) /\ Tail(s)[i] = s[i + 1] /\ 1 \in 1..((i + 1) - 1)
    BY <1>1
  <2>2. \A j \in 1..(i - 1) : j + 1 \in 1..((i + 1) - 1) /\ Tail(s)[j] = s[j + 1]
    BY <1>1
  <2>3. /\ lo < s[i + 1].next /\ s[i + 1].next <= hi
        /\ \A j \in 1..((i + 1) - 1) : s[j].type = "ack" => s[j].next < s[i + 1].next
    BY <1>2, <2>1 DEF AcksIncrease
  <2> QED
    BY <1>1, <2>1, <2>2, <2>3
<1> QED
  BY <1>2 DEF AcksIncrease

(* Cutting the wire keeps its ACKs increasing.                             *)
LEMMA AcksPrefix ==
  ASSUME NEW s \in Seq(FramesToS), NEW p \in Prefixes(s), NEW lo, NEW hi, AcksIncrease(s, lo, hi)
  PROVE  AcksIncrease(p, lo, hi)
<1>1. /\ Len(p) \in 0..Len(s) /\ Len(s) \in Nat /\ \A i \in 1..Len(p) : p[i] = s[i]
  BY PrefixFacts
<1> QED
  BY <1>1 DEF AcksIncrease

(* A later ACK, or a frame that is none, keeps the ACKs increasing.        *)
LEMMA AcksAppend ==
  ASSUME NEW s \in Seq(FramesToS), NEW f \in FramesToS, NEW lo \in Nat, NEW hi \in Nat, NEW top \in Nat,
         AcksIncrease(s, lo, hi), hi <= top,
         f.type = "ack" => lo < f.next /\ hi < f.next /\ f.next <= top
  PROVE  AcksIncrease(Append(s, f), lo, top)
<1> DEFINE t == Append(s, f)
<1>1. /\ Len(t) = Len(s) + 1 /\ Len(s) \in Nat /\ t[Len(s) + 1] = f
      /\ \A i \in 1..Len(s) : t[i] = s[i]
  BY AppendFacts
<1>2. \A i \in 1..Len(s) : s[i].type = "ack" => s[i].next \in Nat
  BY DEF FramesToS, Kept, StopFrames
<1> HIDE DEF t
<1>3. ASSUME NEW i \in 1..Len(t), t[i].type = "ack"
      PROVE  /\ lo < t[i].next /\ t[i].next <= top
             /\ \A j \in 1..(i - 1) : t[j].type = "ack" => t[j].next < t[i].next
  <2>1. CASE i = Len(s) + 1
    <3>1. t[i] = f /\ f.next \in Nat /\ \A j \in 1..(i - 1) : j \in 1..Len(s) /\ t[j] = s[j]
      BY <1>1, <1>3, <2>1 DEF FramesToS, Kept, StopFrames
    <3>2. \A j \in 1..Len(s) : s[j].type = "ack" => s[j].next <= hi
      BY DEF AcksIncrease
    <3>3. lo < f.next /\ hi < f.next /\ f.next <= top
      BY <1>3, <3>1
    <3>4. ASSUME NEW j \in 1..(i - 1), t[j].type = "ack" PROVE t[j].next < f.next
      <4>1. s[j].next \in Nat /\ s[j].next <= hi /\ t[j] = s[j]
        BY <1>2, <3>1, <3>2, <3>4
      <4> QED
        BY <3>1, <3>3, <4>1
    <3> QED
      BY <3>1, <3>3, <3>4
  <2>2. CASE i \in 1..Len(s)
    BY <1>1, <1>2, <1>3, <2>2 DEF AcksIncrease
  <2> QED
    BY <1>1, <1>3, <2>1, <2>2
<1>4. AcksIncrease(t, lo, top)
  BY <1>3 DEF AcksIncrease
<1> QED
  BY <1>4 DEF t

-----------------------------------------------------------------------------
(* What the steps of each end do to the two wires.                         *)

(* The sender adds nothing, a STOP with its failure, or data.              *)
LEMMA SenderWire ==
  ASSUME IInv, Sender
  PROVE  \/ toR' = toR /\ sent' = sent /\ ended' = ended
         \/ /\ sFail' # "none" /\ sent' = sent /\ ended' = ended
            /\ \E c \in StopCodes : toR' = Append(toR, Stop(c))
         \/ \E take \in 1..Room : S_SendData(take) /\ sOpen
<1>0. TypeOK
  BY DEF IInv
<1>1. CASE \E aborted, small \in BOOLEAN : S_Start(aborted, small)
  BY <1>0, <1>1, SFailType DEF S_Start
<1>2. CASE \E take \in 1..Room : S_SendData(take)
  BY <1>0, <1>2, SFailType DEF S_SendData, SFail
<1>3. CASE S_Record \/ S_Low \/ S_Ignore \/ S_Reject
  BY <1>3 DEF S_Record, S_Low, S_Ignore, S_Reject, senderVars
<1>4. CASE S_ReadFails \/ S_Closed \/ S_Abort
  BY <1>0, <1>4, SFailType DEF S_ReadFails, S_Closed, S_Abort
<1>5. CASE S_Ack \/ S_Kept \/ S_Stop
  BY <1>0, <1>5, SFailType DEF S_Ack, S_Kept, S_Stop, SFail
<1> QED
  BY <1>1, <1>2, <1>3, <1>4, <1>5 DEF Sender

(* The sender takes a frame only in a frame handler.                       *)
LEMMA SenderTakes ==
  ASSUME Sender
  PROVE  \/ toS' = toS /\ acknowledged' = acknowledged /\ (sPhase' = "resolved" => sPhase = "resolved")
         \/ /\ S_Ack \/ S_Kept \/ S_Stop \/ S_Ignore
            /\ toS # <<>> /\ toS' = Tail(toS)
  BY DEF Sender, S_Start, S_Record, S_ReadFails, S_SendData, S_Ack, S_Kept, S_Stop, S_Ignore, S_Low,
         S_Closed, S_Abort, S_Reject, TakeFromR, senderVars

(* The receiver takes a frame only in a frame handler.                     *)
LEMMA ReceiverTakes ==
  ASSUME Receiver
  PROVE  \/ toR' = toR /\ UNCHANGED <<received, endSeen, missed>>
         \/ /\ R_Data \/ R_End \/ R_Stop \/ R_Ignore
            /\ toR # <<>> /\ toR' = Tail(toR)
  BY DEF Receiver, R_Start, R_Data, R_End, R_Stop, R_Ignore, R_StepStart, R_WriteDone, R_EndDone,
         R_StepFails, R_Closed, R_Abort, R_GiveUp, R_Reject, TakeFromS

(* The receiver adds nothing, a STOP with its failure, an ACK or KEPT.     *)
LEMMA ReceiverWire ==
  ASSUME IInv, Receiver
  PROVE  \/ toS' = toS /\ lastAck' = lastAck
         \/ /\ rFail = "none" /\ rFail' # "none" /\ lastAck' = lastAck
            /\ \E c \in StopCodes : toS' = Append(toS, Stop(c))
         \/ R_WriteDone
         \/ R_EndDone
         \/ R_GiveUp
<1>0. TypeOK /\ PhasesAgree
  BY DEF IInv
<1>1. CASE \E aborted \in BOOLEAN : R_Start(aborted)
  BY <1>0, <1>1, RFailType DEF R_Start, PhasesAgree
<1>2. CASE R_Data \/ R_End \/ R_Abort
  BY <1>0, <1>2, RFailType DEF R_Data, R_End, R_Abort, RListening
<1>5. CASE R_Stop \/ R_Closed
  BY <1>5 DEF R_Stop, R_Closed, RFail
<1>3. CASE R_StepFails
  BY <1>0, <1>3, RFailType DEF R_StepFails, StepFail
<1>4. CASE R_Ignore \/ R_StepStart \/ R_Reject
  BY <1>4 DEF R_Ignore, R_StepStart, R_Reject
<1> QED
  BY <1>1, <1>2, <1>3, <1>4, <1>5 DEF Receiver

(* ACKs stay news to the sender, and nothing unsent is received.           *)
LEMMA AcksStep == IInv /\ [Next]_vars => AcksAdvance'
<1> SUFFICES ASSUME IInv, [Next]_vars PROVE AcksAdvance'
  OBVIOUS
<1> USE SizesAssumption, LimitsAssumption
<1>0. TypeOK /\ AcksAdvance /\ WindowKept /\ WireInOrder
  BY DEF IInv
<1>a. /\ sent \in Nat /\ acknowledged \in Nat /\ lastAck \in Nat /\ received \in Nat /\ written \in Nat
      /\ toS \in Seq(FramesToS) /\ toR \in Seq(FramesToR)
  BY <1>0 DEF TypeOK
<1>1. CASE Sender
  <2>0. UNCHANGED <<lastAck, received>>
    BY <1>1, SenderFrame
  <2>1. received <= sent' /\ sent' \in Nat
    BY <1>0, <1>a, <1>1, SenderPhase, TypeStep DEF AcksAdvance, TypeOK
  <2>2. /\ acknowledged' \in Nat /\ acknowledged <= acknowledged' /\ acknowledged' <= lastAck
        /\ AcksIncrease(toS', acknowledged', lastAck)
    <3>1. CASE toS' = toS /\ acknowledged' = acknowledged
      BY <1>0, <1>a, <3>1 DEF AcksAdvance
    <3>2. CASE (S_Kept \/ S_Stop \/ S_Ignore) /\ toS # <<>> /\ toS' = Tail(toS)
      <4>1. acknowledged' = acknowledged
        BY <3>2 DEF S_Kept, S_Stop, S_Ignore, senderVars
      <4> QED
        BY <1>0, <1>a, <3>2, <4>1, AcksTail DEF AcksAdvance
    <3>3. CASE S_Ack /\ toS # <<>> /\ toS' = Tail(toS)
      <4>1. /\ Head(toS).type = "ack"
            /\ acknowledged' = acknowledged \/ acknowledged' = Head(toS).next
        BY <3>3 DEF S_Ack
      <4>2. /\ AcksIncrease(Tail(toS), acknowledged, lastAck)
            /\ AcksIncrease(Tail(toS), Head(toS).next, lastAck)
        BY <1>0, <1>a, <3>3, <4>1, AcksTail DEF AcksAdvance
      <4>3. Head(toS) = toS[1] /\ Head(toS) \in FramesToS /\ 1 \in 1..Len(toS)
        BY <1>a, <3>3, TailFacts
      <4>4. acknowledged < Head(toS).next /\ Head(toS).next <= lastAck /\ Head(toS).next \in Nat
        BY <1>0, <4>1, <4>3 DEF AcksAdvance, AcksIncrease, FramesToS, Kept, StopFrames
      <4> QED
        BY <1>0, <1>a, <3>3, <4>1, <4>2, <4>4 DEF AcksAdvance
    <3> QED
      BY <1>1, <3>1, <3>2, <3>3, SenderTakes
  <2>3. sent' - acknowledged' <= Window
    <3>1. CASE sent' = sent
      <4>1. sent - acknowledged <= Window /\ acknowledged' \in Nat /\ acknowledged <= acknowledged'
        BY <1>0, <2>2 DEF AcksAdvance
      <4>2. \A n \in Nat : acknowledged <= n => sent - n <= Window
        BY <1>a, <4>1
      <4> QED
        BY <3>1, <4>1, <4>2
    <3>2. CASE \E take \in 1..Room : S_SendData(take) /\ sOpen
      <4>1. PICK take \in 1..Room : S_SendData(take) /\ sOpen
        BY <3>2
      <4>2. sent' = sent + take /\ take <= Window - (sent - acknowledged) /\ acknowledged' = acknowledged
        BY <4>1 DEF S_SendData, Allowed
      <4> QED
        BY <1>a, <4>2
    <3> QED
      BY <1>1, <3>1, <3>2, SenderWire
  <2> QED
    BY <2>0, <2>1, <2>2, <2>3 DEF AcksAdvance
<1>2. CASE Receiver
  <2>0. UNCHANGED <<sent, acknowledged>>
    BY <1>2, ReceiverFrame
  <2>1. received' <= sent
    <3>1. CASE received' = received
      BY <1>0, <3>1 DEF AcksAdvance
    <3>2. CASE R_Data /\ received' # received
      <4>1. /\ received' = received + Head(toR).length /\ Head(toR).offset = received
            /\ Head(toR).type = "data" /\ toR # <<>>
        BY <3>2 DEF R_Data, DataAllowed, TakeFromS
      <4>2. Head(toR) = toR[1] /\ 1 \in 1..Len(toR)
        BY <1>a, <4>1, TailFacts
      <4>3. Tip(toR[1]) <= sent
        BY <1>0, <4>1, <4>2 DEF WireInOrder, WireChain
      <4> QED
        BY <4>1, <4>2, <4>3 DEF Tip
    <3> QED
      BY <1>2, <3>1, <3>2, ReceiverTakes DEF R_End, R_Stop, R_Ignore
  <2>2. lastAck <= lastAck' /\ AcksIncrease(toS', acknowledged, lastAck')
    <3>1. CASE toS' = toS /\ lastAck' = lastAck
      BY <1>0, <1>a, <3>1 DEF AcksAdvance
    <3>2. CASE lastAck' = lastAck /\ \E c \in StopCodes : toS' = Append(toS, Stop(c))
      <4>1. PICK c \in StopCodes : toS' = Append(toS, Stop(c))
        BY <3>2
      <4>2. Stop(c) \in FramesToS /\ Stop(c).type # "ack"
        BY FrameTypes DEF Stop
      <4> QED
        BY <1>0, <1>a, <3>2, <4>1, <4>2, AcksAppend DEF AcksAdvance
    <3>3. CASE R_WriteDone
      <4>1. CASE lastAck' = lastAck /\ toS' = toS
        BY <3>1, <4>1
      <4>2. CASE Acknowledge(written')
        <5>1. lastAck' = written' /\ written' \in 1..Total /\ lastAck < written'
          <6>1. busy \in DataFrames
            BY <1>0, <3>3 DEF R_WriteDone, TypeOK, Steps, End, Idle
          <6>2. written' > written
            BY <1>a, <3>3, <6>1 DEF R_WriteDone, DataFrames
          <6>3. written' \in 0..Total
            BY TypeStep DEF TypeOK
          <6> QED
            BY <1>0, <1>a, <4>2, <6>2, <6>3 DEF Acknowledge, WindowKept
        <5>2. toS' = toS \/ toS' = Append(toS, Ack(written'))
          BY <4>2 DEF Acknowledge, StepFail, RFail
        <5>3. Ack(written') \in FramesToS /\ Ack(written').next = written'
          BY <5>1, FrameTypes DEF Ack
        <5>4. AcksIncrease(toS, acknowledged, written')
          BY <1>0, <1>a, <5>1 DEF AcksAdvance, AcksIncrease, FramesToS, Kept, StopFrames
        <5>5. AcksIncrease(Append(toS, Ack(written')), acknowledged, written')
          BY <1>0, <1>a, <5>1, <5>3, AcksAppend DEF AcksAdvance
        <5>6. lastAck <= lastAck'
          BY <1>a, <5>1
        <5> QED
          BY <5>1, <5>2, <5>4, <5>5, <5>6
      <4> QED
        BY <3>3, <4>1, <4>2 DEF R_WriteDone
    <3>4. CASE R_EndDone
      <4>1. lastAck' = lastAck /\ (toS' = toS \/ toS' = Append(toS, Kept))
        BY <3>4 DEF R_EndDone, StepFail, RFail
      <4>2. Kept \in FramesToS /\ Kept.type # "ack"
        BY FrameTypes DEF Kept
      <4>3. AcksIncrease(toS, acknowledged, lastAck) /\ lastAck <= lastAck
        BY <1>0, <1>a DEF AcksAdvance
      <4>4. AcksIncrease(Append(toS, Kept), acknowledged, lastAck)
        BY <1>a, <4>2, <4>3, AcksAppend
      <4> QED
        BY <4>1, <4>3, <4>4
    <3>5. CASE R_GiveUp
      BY <1>0, <1>a, <3>5, AcksPrefix DEF R_GiveUp, AcksAdvance
    <3> QED
      BY <1>2, <3>1, <3>2, <3>3, <3>4, <3>5, ReceiverWire
  <2>3. lastAck' \in Nat
    BY TypeStep DEF TypeOK
  <2> QED
    BY <1>0, <1>a, <2>0, <2>1, <2>2, <2>3 DEF AcksAdvance
<1>3. CASE Channel \/ Over \/ UNCHANGED vars
  <2>1. UNCHANGED <<sent, acknowledged, lastAck, received>>
    BY <1>3, ChannelFrame
  <2>2. toS' = toS \/ toS' \in Prefixes(toS)
    BY <1>3 DEF Channel, Drain, CloseSender, CloseReceiver, Over, vars
  <2> QED
    BY <1>0, <1>a, <2>1, <2>2, AcksPrefix DEF AcksAdvance
<1> QED
  BY <1>1, <1>2, <1>3 DEF Next

(* END on the wire means it was announced, STOP that the sender failed.    *)
LEMMA WireMeansStep ==
  ASSUME IInv, [Next]_vars
  PROVE  \A i \in 1..Len(toR') : (toR'[i] = End => ended') /\ (IsStop(toR'[i]) => sFail' # "none")
<1>0. TypeOK /\ KeptIsTrue
  BY DEF IInv
<1>a. toR \in Seq(FramesToR) /\ sent \in 0..Total
  BY <1>0 DEF TypeOK
<1>1. CASE Sender
  <2>0. (ended => ended') /\ (sFail # "none" => sFail' # "none")
    BY <1>1, SenderPhase
  <2>1. CASE toR' = toR
    BY <1>0, <2>0, <2>1 DEF KeptIsTrue
  <2>2. CASE sFail' # "none" /\ \E c \in StopCodes : toR' = Append(toR, Stop(c))
    <3>1. PICK c \in StopCodes : toR' = Append(toR, Stop(c))
      BY <2>2
    <3>2. Stop(c) \in FramesToR /\ Stop(c) # End
      BY FrameTypes DEF Stop, End
    <3>3. /\ Len(toR') = Len(toR) + 1 /\ Len(toR) \in Nat /\ toR'[Len(toR) + 1] = Stop(c)
          /\ \A i \in 1..Len(toR) : toR'[i] = toR[i]
      BY <1>a, <3>1, <3>2, AppendFacts
    <3> QED
      BY <1>0, <2>0, <2>2, <3>2, <3>3 DEF KeptIsTrue
  <2>3. CASE \E take \in 1..Room : S_SendData(take) /\ sOpen
    <3>1. PICK take \in 1..Room : S_SendData(take) /\ sOpen
      BY <2>3
    <3>2. /\ \/ toR' = Append(toR, Data(sent, take))
             \/ ended' /\ toR' = Append(Append(toR, Data(sent, take)), End)
      BY <3>1 DEF S_SendData
    <3>3. Data(sent, take) \in FramesToR /\ Data(sent, take) # End /\ ~IsStop(Data(sent, take)) /\ ~IsStop(End) /\ End \in FramesToR
      BY <1>a, FrameTypes DEF Data, End, IsStop
    <3> DEFINE t == Append(toR, Data(sent, take))
    <3>4. /\ Len(t) = Len(toR) + 1 /\ Len(toR) \in Nat /\ t[Len(toR) + 1] = Data(sent, take)
          /\ t \in Seq(FramesToR) /\ \A i \in 1..Len(toR) : t[i] = toR[i]
      BY <1>a, <3>3, AppendFacts
    <3> HIDE DEF t
    <3>5. \A i \in 1..Len(t) : t[i] # End \/ ended
      BY <1>0, <3>3, <3>4 DEF KeptIsTrue
    <3>6. \A i \in 1..Len(t) : IsStop(t[i]) => sFail # "none"
      BY <1>0, <3>3, <3>4 DEF KeptIsTrue
    <3>7. /\ Len(Append(t, End)) = Len(t) + 1 /\ Len(t) \in Nat /\ Append(t, End)[Len(t) + 1] = End
          /\ \A i \in 1..Len(t) : Append(t, End)[i] = t[i]
      BY <3>3, <3>4, AppendFacts
    <3>8. CASE toR' = t
      BY <2>0, <3>5, <3>6, <3>8
    <3>9. CASE ended' /\ toR' = Append(t, End)
      BY <2>0, <3>3, <3>5, <3>6, <3>7, <3>9
    <3> QED
      BY <3>2, <3>8, <3>9 DEF t
  <2> QED
    BY <1>1, <2>1, <2>2, <2>3, SenderWire
<1>2. CASE Receiver
  <2>0. ended' = ended /\ sFail' = sFail
    BY <1>2, ReceiverFrame
  <2>1. CASE toR' = toR
    BY <1>0, <2>0, <2>1 DEF KeptIsTrue
  <2>2. CASE toR # <<>> /\ toR' = Tail(toR)
    <3>1. /\ Len(toR') = Len(toR) - 1 /\ Len(toR) \in Nat \ {0}
          /\ \A i \in 1..Len(toR') : toR'[i] = toR[i + 1]
      BY <1>a, <2>2, TailFacts
    <3> QED
      BY <1>0, <2>0, <3>1 DEF KeptIsTrue
  <2> QED
    BY <1>2, <2>1, <2>2, ReceiverTakes
<1>3. CASE Channel \/ Over \/ UNCHANGED vars
  <2>0. ended' = ended /\ sFail' = sFail
    BY <1>3, ChannelFrame
  <2>1. toR' = toR \/ toR' \in Prefixes(toR)
    BY <1>3 DEF Channel, Drain, CloseSender, CloseReceiver, Over, vars
  <2>2. \A i \in 1..Len(toR') : i \in 1..Len(toR) /\ toR'[i] = toR[i]
    BY <1>a, <2>1, PrefixFacts
  <2> QED
    BY <1>0, <2>0, <2>2 DEF KeptIsTrue
<1> QED
  BY <1>1, <1>2, <1>3 DEF Next

(* A receiver that fails says so, or hears it from the sender, or has no   *)
(* channel left.                                                           *)
LEMMA ReceiverTells ==
  ASSUME IInv, Receiver, rFail = "none", rFail' # "none"
  PROVE  ~rOpen' \/ sFail # "none" \/ \E c \in StopCodes : toS' = Append(toS, Stop(c))
<1>0. TypeOK /\ KeptIsTrue
  BY DEF IInv
<1> USE DEF RFail, TrySend, StopCodes
<1>1. CASE (\E aborted \in BOOLEAN : R_Start(aborted)) \/ R_Data \/ R_End \/ R_Closed \/ R_Abort \/ R_GiveUp
  BY <1>0, <1>1 DEF R_Start, R_Data, R_End, R_Closed, R_Abort, R_GiveUp, openVars
<1>2. CASE R_Stop
  <2>1. Head(toR).type = "stop" /\ toR # <<>>
    BY <1>2 DEF R_Stop, TakeFromS
  <2>2. IsStop(toR[1]) /\ 1 \in 1..Len(toR)
    BY <1>0, <2>1, TailFacts DEF IsStop, TypeOK
  <2> QED
    BY <1>0, <2>2 DEF KeptIsTrue
<1>3. CASE R_WriteDone \/ R_EndDone \/ R_StepFails
  BY <1>0, <1>3 DEF R_WriteDone, R_EndDone, R_StepFails, Acknowledge, StepFail, openVars
<1>4. CASE R_Ignore \/ R_StepStart \/ R_Reject
  BY <1>4 DEF R_Ignore, R_StepStart, R_Reject
<1> QED
  BY <1>1, <1>2, <1>3, <1>4 DEF Receiver

(* A KEPT that can reach a listening sender is true.                       *)
LEMMA KeptStep == IInv /\ [Next]_vars => KeptIsTrue'
<1> SUFFICES ASSUME IInv, [Next]_vars PROVE KeptIsTrue'
  OBVIOUS
<1>0. TypeOK /\ KeptIsTrue /\ PhasesAgree /\ QueueInOrder /\ PhasesAgree'
  BY PhasesStep DEF IInv
<1>a. toS \in Seq(FramesToS)
  BY <1>0 DEF TypeOK
<1> DEFINE Backed(i) == \/ rPhase = "resolved" \/ sFail # "none" \/ \E j \in 1..(i - 1) : IsStop(toS[j])
           StopTold == \/ ~endSeen \/ ~rOpen \/ sFail # "none" \/ \E j \in 1..Len(toS) : IsStop(toS[j])
<1>b. /\ \A i \in 1..Len(toS) : toS[i] = Kept => ended /\ Backed(i)
      /\ rFail # "none" => StopTold
      /\ sPhase = "resolved" => rPhase = "resolved"
  BY <1>0 DEF KeptIsTrue
<1> SUFFICES /\ \A i \in 1..Len(toS') : toS'[i] = Kept => ended' /\ Backed(i)'
             /\ rFail' # "none" => StopTold'
             /\ sPhase' = "resolved" => rPhase' = "resolved"
  BY WireMeansStep DEF KeptIsTrue
<1>1. CASE Sender
  <2>0. /\ UNCHANGED <<rPhase, rFail, endSeen, rOpen>>
        /\ (ended => ended') /\ (sFail # "none" => sFail' # "none")
    BY <1>1, SenderPhase, SenderFrame
  <2>1. CASE toS' = toS /\ (sPhase' = "resolved" => sPhase = "resolved")
    BY <1>b, <2>0, <2>1
  <2>2. CASE (S_Ack \/ S_Kept \/ S_Stop \/ S_Ignore) /\ toS # <<>> /\ toS' = Tail(toS)
    <3>1. /\ Len(toS') = Len(toS) - 1 /\ Len(toS) \in Nat \ {0} /\ Head(toS) = toS[1]
          /\ Head(toS) \in FramesToS /\ \A i \in 1..Len(toS') : toS'[i] = toS[i + 1]
      BY <1>a, <2>2, TailFacts
    <3>2. IsStop(toS[1]) => sFail' # "none" \/ rPhase = "resolved" \/ ~ended
      <4>1. S_Stop => sFail' # "none"
        BY DEF S_Stop, SFail, failureForStop
      <4>2. S_Ignore => sFail # "none" \/ sPhase \in {"start", "resolved", "rejected"}
        BY <1>0 DEF S_Ignore, SListening, SenderActive, TypeOK
      <4>3. S_Ack \/ S_Kept => ~IsStop(toS[1])
        BY <3>1 DEF S_Ack, S_Kept, IsStop
      <4> QED
        BY <1>0, <1>b, <2>0, <2>2, <4>1, <4>2, <4>3 DEF PhasesAgree
    <3>3. ASSUME NEW i \in 1..Len(toS'), toS'[i] = Kept PROVE ended' /\ Backed(i)'
      <4>1. i + 1 \in 1..Len(toS) /\ toS[i + 1] = Kept
        BY <3>1, <3>3
      <4>2. ended /\ Backed(i + 1)
        BY <1>b, <4>1
      <4>3. ASSUME NEW j \in 1..((i + 1) - 1), IsStop(toS[j]) PROVE Backed(i)'
        <5>1. CASE j = 1
          BY <2>0, <3>2, <4>2, <4>3, <5>1
        <5>2. CASE j # 1
          <6>1. j - 1 \in 1..(i - 1) /\ toS'[j - 1] = toS[j]
            <7>1. j - 1 \in 1..(i - 1) /\ j - 1 \in 1..Len(toS') /\ (j - 1) + 1 = j
              BY <3>1, <5>2
            <7> QED
              BY <3>1, <7>1
          <6> QED
            BY <4>3, <6>1
        <5> QED
          BY <5>1, <5>2
      <4> QED
        BY <2>0, <4>2, <4>3
    <3>4. ASSUME rFail' # "none" PROVE StopTold'
      <4>1. StopTold
        BY <1>b, <2>0, <3>4
      <4>2. ASSUME NEW j \in 1..Len(toS), IsStop(toS[j]), endSeen PROVE StopTold'
        <5>0. ended /\ rPhase # "resolved"
          BY <1>0, <2>0, <3>4, <4>2 DEF QueueInOrder, PhasesAgree
        <5>1. CASE j = 1
          BY <2>0, <3>2, <4>2, <5>0, <5>1
        <5>2. CASE j # 1
          <6>1. j - 1 \in 1..Len(toS') /\ toS'[j - 1] = toS[j]
            <7>1. j - 1 \in 1..Len(toS') /\ (j - 1) + 1 = j
              BY <3>1, <5>2
            <7> QED
              BY <3>1, <7>1
          <6> QED
            BY <4>2, <6>1
        <5> QED
          BY <5>1, <5>2
      <4> QED
        BY <2>0, <4>1, <4>2
    <3>5. ASSUME sPhase' = "resolved" PROVE rPhase' = "resolved"
      <4>1. CASE S_Kept
        <5>1. Head(toS).type = "kept" /\ sFail = "none"
          BY <4>1 DEF S_Kept, SListening
        <5>2. toS[1] = Kept
          BY <3>1, <5>1 DEF FramesToS, Kept, StopFrames
        <5>3. Backed(1)
          BY <1>b, <3>1, <5>2
        <5> QED
          BY <2>0, <5>1, <5>3
      <4>2. CASE S_Ack \/ S_Stop \/ S_Ignore
        <5>1. sPhase' = sPhase
          BY <4>2 DEF S_Ack, S_Stop, S_Ignore, senderVars
        <5> QED
          BY <1>b, <2>0, <3>5, <5>1
      <4> QED
        BY <2>2, <4>1, <4>2
    <3> QED
      BY <3>3, <3>4, <3>5
  <2> QED
    BY <1>1, <2>1, <2>2, SenderTakes
<1>2. CASE Receiver
  <2>0. UNCHANGED <<sPhase, sFail, ended>>
    BY <1>2, ReceiverFrame
  <2>1. rPhase = "resolved" => rPhase' = "resolved"
    BY <1>0, <1>2 DEF Receiver, R_Start, R_Data, R_End, R_Stop, R_Ignore, R_StepStart, R_WriteDone, R_EndDone,
         R_StepFails, R_Closed, R_Abort, R_GiveUp, R_Reject, PhasesAgree
  <2>2. ASSUME rFail # "none" PROVE endSeen' = endSeen /\ rOpen' = rOpen
    BY <1>2, <2>2 DEF Receiver, R_Start, R_Data, R_End, R_Stop, R_Ignore, R_StepStart, R_WriteDone, R_EndDone,
         R_StepFails, R_Closed, R_Abort, R_GiveUp, R_Reject, RListening, openVars
  <2>3. CASE \E c \in StopCodes : rFail' # "none" /\ toS' = Append(toS, Stop(c))
    <3>1. PICK c \in StopCodes : toS' = Append(toS, Stop(c))
      BY <2>3
    <3>2. Stop(c) \in FramesToS /\ IsStop(Stop(c)) /\ Stop(c) # Kept
      BY FrameTypes DEF Stop, IsStop, Kept
    <3>3. /\ Len(toS') = Len(toS) + 1 /\ Len(toS) \in Nat /\ toS'[Len(toS) + 1] = Stop(c)
          /\ \A i \in 1..Len(toS) : toS'[i] = toS[i]
      BY <1>a, <3>1, <3>2, AppendFacts
    <3>4. StopTold'
      BY <3>2, <3>3
    <3>5. ASSUME NEW i \in 1..Len(toS'), toS'[i] = Kept PROVE ended' /\ Backed(i)'
      <4>1. i \in 1..Len(toS) /\ toS[i] = Kept
        BY <3>2, <3>3, <3>5
      <4> QED
        BY <1>b, <2>0, <2>1, <3>3, <4>1
    <3> QED
      BY <1>b, <2>0, <2>1, <3>4, <3>5
  <2>4. ASSUME rFail' # "none" PROVE ~rOpen' \/ StopTold \/ \E c \in StopCodes : toS' = Append(toS, Stop(c))
    BY <1>2, <1>b, <2>4, ReceiverTells
  <2>5. CASE toS' = toS
    <3>1. StopTold /\ rFail # "none" => StopTold'
      BY <2>0, <2>2, <2>5
    <3>2. rFail = "none" /\ rFail' # "none" => StopTold'
      <4>1. \A c \in StopCodes : toS # Append(toS, Stop(c))
        BY <1>a, FrameTypes, AppendFacts
      <4> QED
        BY <1>2, <2>0, <2>5, <4>1, ReceiverTells
    <3> QED
      BY <1>b, <2>0, <2>1, <2>5, <3>1, <3>2
  <2>6. ASSUME NEW f \in FramesToS, toS' = Append(toS, f), ~IsStop(f),
               f = Kept => ended /\ (rPhase' = "resolved" \/ (rFail # "none" /\ StopTold /\ endSeen /\ rOpen)),
               rFail' = rFail
        PROVE  /\ \A i \in 1..Len(toS') : toS'[i] = Kept => ended' /\ Backed(i)'
               /\ rFail' # "none" => StopTold'
    <3>1. /\ Len(toS') = Len(toS) + 1 /\ Len(toS) \in Nat /\ toS'[Len(toS) + 1] = f
          /\ \A i \in 1..Len(toS) : toS'[i] = toS[i]
      BY <1>a, <2>6, AppendFacts
    <3>2. rFail' # "none" => StopTold'
      BY <1>b, <2>0, <2>2, <2>6, <3>1
    <3>3. ASSUME NEW i \in 1..Len(toS'), toS'[i] = Kept PROVE ended' /\ Backed(i)'
      <4>1. CASE i \in 1..Len(toS)
        BY <1>b, <2>0, <2>1, <3>1, <3>3, <4>1
      <4>2. CASE i = Len(toS) + 1
        <5>1. f = Kept
          BY <3>1, <3>3, <4>2
        <5>2. ASSUME NEW j \in 1..Len(toS), IsStop(toS[j]) PROVE Backed(i)'
          BY <3>1, <4>2, <5>2
        <5> QED
          BY <2>0, <2>6, <5>1, <5>2
      <4> QED
        BY <3>1, <4>1, <4>2
    <3> QED
      BY <3>2, <3>3
  <2>7. CASE R_WriteDone
    <3>1. CASE Acknowledge(written') /\ rOpen
      <4>1. toS' = Append(toS, Ack(written')) /\ rFail' = rFail
        BY <3>1 DEF Acknowledge
      <4>2. Ack(written') \in FramesToS
        <5>1. busy \in DataFrames
          BY <1>0, <2>7 DEF R_WriteDone, TypeOK, Steps, End, Idle
        <5>2. written' \in 1..Total
          BY <1>0, <2>7, <5>1, SizesAssumption DEF R_WriteDone, TypeOK, DataFrames, QueueInOrder, Tip
        <5> QED
          BY <5>2, FrameTypes
      <4>3. ~IsStop(Ack(written')) /\ Ack(written') # Kept
        BY DEF Ack, IsStop, Kept
      <4> QED
        BY <1>b, <2>0, <2>1, <2>6, <4>1, <4>2, <4>3
    <3>2. CASE toS' = toS
      BY <2>5, <3>2
    <3> QED
      BY <2>7, <3>1, <3>2 DEF R_WriteDone, Acknowledge, StepFail, RFail
  <2>8. CASE R_EndDone
    <3>1. CASE rOpen
      <4>1. /\ toS' = Append(toS, Kept) /\ rFail' = rFail
            /\ rFail = "none" => rPhase' = "resolved"
        BY <2>8, <3>1 DEF R_EndDone
      <4>2. endSeen /\ ended
        BY <1>0, <2>8 DEF R_EndDone, QueueInOrder
      <4>3. Kept \in FramesToS /\ ~IsStop(Kept)
        BY FrameTypes DEF IsStop, Kept
      <4> QED
        BY <1>b, <2>0, <2>1, <2>6, <3>1, <4>1, <4>2, <4>3
    <3>2. CASE ~rOpen
      <4>1. toS' = toS
        BY <2>8, <3>2 DEF R_EndDone, StepFail, RFail
      <4> QED
        BY <2>5, <4>1
    <3> QED
      BY <3>1, <3>2
  <2>9. CASE R_GiveUp
    <3>1. ~rOpen' /\ toS' \in Prefixes(toS) /\ rPhase' = rPhase
      BY <2>9 DEF R_GiveUp
    <3>2. \A i \in 1..Len(toS') : i \in 1..Len(toS) /\ toS'[i] = toS[i] /\ \A j \in 1..(i - 1) : toS'[j] = toS[j]
      BY <1>a, <3>1, PrefixFacts
    <3> QED
      BY <1>b, <2>0, <3>1, <3>2
  <2> QED
    BY <1>2, <2>3, <2>5, <2>7, <2>8, <2>9, ReceiverWire
<1>3. CASE Channel \/ Over \/ UNCHANGED vars
  <2>0. UNCHANGED <<sPhase, sFail, ended, rPhase, rFail, endSeen>>
    BY <1>3, ChannelFrame
  <2>1. \/ toS' = toS /\ rOpen' = rOpen
        \/ toS' \in Prefixes(toS) /\ ~rOpen'
    BY <1>3 DEF Channel, Drain, CloseSender, CloseReceiver, Over, vars, openVars
  <2>2. \A i \in 1..Len(toS') : i \in 1..Len(toS) /\ toS'[i] = toS[i] /\ \A j \in 1..(i - 1) : toS'[j] = toS[j]
    BY <1>a, <2>1, PrefixFacts
  <2> QED
    BY <1>b, <2>0, <2>1, <2>2
<1> QED
  BY <1>1, <1>2, <1>3 DEF Next

-----------------------------------------------------------------------------
(* The order of the wire survives a frame taken, a cut and a frame added.  *)

(* Taking the first frame keeps the wire in order.                         *)
LEMMA WireTail ==
  ASSUME NEW s \in Seq(FramesToR), s # <<>>, NEW n, WireChain(s, n)
  PROVE  WireChain(Tail(s), n)
<1>1. /\ Len(Tail(s)) = Len(s) - 1 /\ Len(s) \in Nat \ {0}
      /\ \A i \in 1..Len(Tail(s)) : i + 1 \in 1..Len(s) /\ Tail(s)[i] = s[i + 1]
  BY TailFacts
<1>2. \A i \in 1..Len(Tail(s)) : Tail(s)[i].type = "data" => Tip(Tail(s)[i]) <= n
  BY <1>1 DEF WireChain
<1>3. ASSUME NEW j \in 1..Len(Tail(s)), NEW i \in 1..(j - 1), Tail(s)[i].type # "data"
      PROVE  IsStop(Tail(s)[j])
  <2>1. j + 1 \in 1..Len(s) /\ i + 1 \in 1..((j + 1) - 1) /\ Tail(s)[i] = s[i + 1] /\ Tail(s)[j] = s[j + 1]
    BY <1>1
  <2> QED
    BY <1>3, <2>1 DEF WireChain
<1>4. ASSUME NEW i \in 1..(Len(Tail(s)) - 1), ~IsStop(Tail(s)[i + 1])
      PROVE  Tip(Tail(s)[i]) = Base(Tail(s)[i + 1])
  <2>1. i + 1 \in 1..(Len(s) - 1) /\ Tail(s)[i] = s[i + 1] /\ Tail(s)[i + 1] = s[(i + 1) + 1]
    BY <1>1
  <2> QED
    BY <1>4, <2>1 DEF WireChain
<1> QED
  BY <1>2, <1>3, <1>4 DEF WireChain

(* Cutting the wire keeps it in order.                                     *)
LEMMA WirePrefix ==
  ASSUME NEW s \in Seq(FramesToR), NEW p \in Prefixes(s), NEW n, WireChain(s, n)
  PROVE  WireChain(p, n)
<1>1. Len(p) \in 0..Len(s) /\ Len(s) \in Nat /\ \A i \in 1..Len(p) : i \in 1..Len(s) /\ p[i] = s[i]
  BY PrefixFacts
<1>2. \A i \in 1..Len(p) : p[i].type = "data" => Tip(p[i]) <= n
  BY <1>1 DEF WireChain
<1>3. ASSUME NEW j \in 1..Len(p), NEW i \in 1..(j - 1), p[i].type # "data" PROVE IsStop(p[j])
  BY <1>1, <1>3 DEF WireChain
<1>4. ASSUME NEW i \in 1..(Len(p) - 1), ~IsStop(p[i + 1]) PROVE Tip(p[i]) = Base(p[i + 1])
  <2>1. i \in 1..(Len(s) - 1) /\ p[i] = s[i] /\ p[i + 1] = s[i + 1]
    BY <1>1
  <2> QED
    BY <1>4, <2>1 DEF WireChain
<1> QED
  BY <1>2, <1>3, <1>4 DEF WireChain

(* A STOP, or a frame that begins where the last one ended, keeps order.   *)
LEMMA WireAppend ==
  ASSUME NEW s \in Seq(FramesToR), NEW f \in FramesToR, NEW m \in Nat, NEW n \in Nat, m <= n,
         WireChain(s, m),
         f.type = "data" => Tip(f) <= n,
         \/ IsStop(f)
         \/ /\ \A i \in 1..Len(s) : s[i].type = "data"
            /\ s # <<>> => Tip(s[Len(s)]) = Base(f)
  PROVE  WireChain(Append(s, f), n)
<1> DEFINE t == Append(s, f)
<1>1. /\ Len(t) = Len(s) + 1 /\ Len(s) \in Nat /\ t[Len(s) + 1] = f
      /\ \A i \in 1..Len(s) : t[i] = s[i]
  BY AppendFacts
<1> HIDE DEF t
<1>2. ASSUME NEW i \in 1..Len(t), t[i].type = "data" PROVE Tip(t[i]) <= n
  <2>1. CASE i = Len(s) + 1
    BY <1>1, <1>2, <2>1
  <2>2. CASE i \in 1..Len(s)
    <3>1. s[i] \in FramesToR /\ s[i].type = "data" /\ t[i] = s[i]
      BY <1>1, <1>2, <2>2
    <3>2. Tip(s[i]) <= m
      BY <2>2, <3>1 DEF WireChain
    <3>3. Tip(s[i]) \in Nat
      BY <3>1, SizesAssumption DEF Tip, FramesToR, DataFrames, End, StopFrames
    <3> QED
      BY <3>1, <3>2, <3>3
  <2> QED
    BY <1>1, <2>1, <2>2
<1>3. ASSUME NEW j \in 1..Len(t), NEW i \in 1..(j - 1), t[i].type # "data" PROVE IsStop(t[j])
  <2>0. i \in 1..Len(s) /\ t[i] = s[i]
    BY <1>1
  <2>1. CASE j = Len(s) + 1
    BY <1>1, <1>3, <2>0, <2>1
  <2>2. CASE j \in 1..Len(s)
    BY <1>1, <1>3, <2>0, <2>2 DEF WireChain
  <2> QED
    BY <1>1, <2>1, <2>2
<1>4. ASSUME NEW i \in 1..(Len(t) - 1), ~IsStop(t[i + 1]) PROVE Tip(t[i]) = Base(t[i + 1])
  <2>1. CASE i = Len(s)
    <3>1. s # <<>> /\ t[i] = s[Len(s)] /\ t[i + 1] = f
      BY <1>1, <2>1
    <3> QED
      BY <1>4, <3>1
  <2>2. CASE i \in 1..(Len(s) - 1)
    BY <1>1, <1>4, <2>2 DEF WireChain
  <2> QED
    BY <1>1, <2>1, <2>2
<1>5. WireChain(t, n)
  BY <1>2, <1>3, <1>4 DEF WireChain
<1> QED
  BY <1>5 DEF t

(* A frame an honest sender sent, with none missed before it, passes every *)
(* check of the receiver.                                                  *)
LEMMA FrameAccepted ==
  ASSUME IInv, ~missed, rFail = "none", toR # <<>>
  PROVE  /\ Head(toR).type = "data" => DataAllowed(Head(toR).offset, Head(toR).length)
         /\ Head(toR).type = "end" => EndAllowed
<1> USE SizesAssumption, LimitsAssumption
<1>0. TypeOK /\ WireInOrder /\ AcksAdvance
  BY DEF IInv
<1>1. toR \in Seq(FramesToR) /\ Head(toR) = toR[1] /\ 1 \in 1..Len(toR) /\ toR[1] \in FramesToR
  BY <1>0, TailFacts DEF TypeOK
<1>2. ~IsStop(toR[1]) => ~endSeen /\ Base(toR[1]) = received
  BY <1>0, <1>1 DEF WireInOrder
<1>3. CASE toR[1].type = "data"
  <2>1. toR[1].offset = received /\ ~endSeen /\ toR[1].length \in Nat
    BY <1>1, <1>2, <1>3 DEF Base, IsStop, FramesToR, DataFrames, End, StopFrames
  <2>2. received + toR[1].length <= sent
    BY <1>0, <1>1, <1>3, <2>1 DEF WireInOrder, WireChain, Tip
  <2>3. /\ received \in Nat /\ sent \in 0..Total /\ acknowledged \in Nat /\ lastAck \in Nat
        /\ acknowledged <= lastAck /\ sent - acknowledged <= Window
    BY <1>0 DEF TypeOK, AcksAdvance
  <2> QED
    BY <1>1, <1>3, <2>1, <2>2, <2>3 DEF DataAllowed
<1>4. CASE toR[1].type = "end"
  BY <1>1, <1>2, <1>4 DEF Base, IsStop, EndAllowed
<1> QED
  BY <1>1, <1>3, <1>4

(* The wire to the receiver stays in order.                                *)
LEMMA WireStep == IInv /\ [Next]_vars => WireInOrder'
<1> SUFFICES ASSUME IInv, [Next]_vars PROVE WireInOrder'
  OBVIOUS
<1> USE SizesAssumption, LimitsAssumption
<1>0. TypeOK /\ WireInOrder /\ KeptIsTrue /\ PhasesAgree /\ QueueInOrder
  BY DEF IInv
<1>a. toR \in Seq(FramesToR) /\ sent \in Nat /\ received \in Nat /\ Len(toR) \in Nat
  BY <1>0 DEF TypeOK
<1>1. CASE Sender
  <2>0. /\ UNCHANGED <<received, endSeen, missed, rFail, sOpen>>
        /\ sFail # "none" => sFail' # "none"
    BY <1>1, SenderFrame, SenderPhase
  <2>1. CASE toR' = toR /\ sent' = sent
    BY <1>0, <2>0, <2>1 DEF WireInOrder
  <2>2. CASE sFail' # "none" /\ sent' = sent /\ \E c \in StopCodes : toR' = Append(toR, Stop(c))
    <3>1. PICK c \in StopCodes : toR' = Append(toR, Stop(c))
      BY <2>2
    <3>2. Stop(c) \in FramesToR /\ IsStop(Stop(c)) /\ Stop(c).type # "data"
      BY FrameTypes DEF Stop, IsStop
    <3>3. WireChain(toR', sent)
      BY <1>0, <1>a, <3>1, <3>2, WireAppend DEF WireInOrder
    <3>4. /\ Len(toR') = Len(toR) + 1 /\ toR'[Len(toR) + 1] = Stop(c)
          /\ \A i \in 1..Len(toR) : toR'[i] = toR[i]
      BY <1>a, <3>1, <3>2, AppendFacts
    <3>5. \A i \in 1..Len(toR') : i \in 1..Len(toR) \/ IsStop(toR'[i])
      BY <1>a, <3>2, <3>4
    <3>6. ~IsStop(toR'[1]) => toR # <<>> /\ toR'[1] = toR[1]
      BY <1>a, <3>2, <3>4
    <3> QED
      BY <1>0, <2>0, <2>2, <3>3, <3>4, <3>5, <3>6 DEF WireInOrder
  <2>3. CASE \E take \in 1..Room : S_SendData(take) /\ sOpen
    <3>1. PICK take \in 1..Room : S_SendData(take) /\ sOpen
      BY <2>3
    <3> DEFINE d == Data(sent, take)
               t == Append(toR, d)
    <3>2. /\ sPhase = "loop" /\ sFail = "none" /\ sent' = sent + take
          /\ \/ toR' = t
             \/ sent' = Total /\ toR' = Append(t, End)
      BY <3>1 DEF S_SendData
    <3>3. /\ sent \in 0..Total /\ d \in FramesToR /\ d.type = "data" /\ Base(d) = sent /\ Tip(d) = sent'
          /\ ~IsStop(d) /\ sent' \in Nat /\ sent <= sent'
      BY <1>0, <1>a, <3>2, FrameTypes DEF Data, Base, Tip, IsStop, TypeOK
    <3>4. End \in FramesToR /\ End.type # "data" /\ Base(End) = Total /\ Tip(End) = Total /\ ~IsStop(End)
      BY FrameTypes DEF End, Base, Tip, IsStop
    <3>5. ~ended /\ ~endSeen
      BY <1>0, <3>2 DEF PhasesAgree, QueueInOrder
    <3>6. \A i \in 1..Len(toR) : toR[i].type = "data"
      <4> TAKE i \in 1..Len(toR)
      <4>1. toR[i] \in FramesToR /\ toR[i] # End /\ ~IsStop(toR[i])
        BY <1>0, <1>a, <3>2, <3>5 DEF KeptIsTrue
      <4> QED
        BY <4>1 DEF FramesToR, DataFrames, StopFrames, IsStop
    <3>7. toR # <<>> => Tip(toR[Len(toR)]) = sent
      BY <1>0, <3>1, <3>2 DEF WireInOrder
    <3> HIDE DEF d
    <3>8. /\ t \in Seq(FramesToR) /\ Len(t) = Len(toR) + 1 /\ t[Len(toR) + 1] = d /\ t # <<>>
          /\ \A i \in 1..Len(toR) : t[i] = toR[i]
      BY <1>a, <3>3, AppendFacts
    <3>9. WireChain(t, sent')
      BY <1>0, <1>a, <3>3, <3>6, <3>7, WireAppend DEF WireInOrder
    <3> HIDE DEF t
    <3>10. /\ \A i \in 1..Len(t) : t[i].type = "data"
           /\ Tip(t[Len(t)]) = sent' /\ Len(t) \in Nat \ {0}
      BY <1>a, <3>3, <3>6, <3>8
    <3>11. ~missed /\ rFail = "none" => Base(t[1]) = received
      <4>1. CASE toR = <<>>
        BY <1>0, <3>1, <3>2, <3>3, <3>8, <4>1 DEF WireInOrder
      <4>2. CASE toR # <<>>
        <5>1. 1 \in 1..Len(toR) /\ t[1] = toR[1] /\ ~IsStop(toR[1])
          BY <1>a, <3>6, <3>8, <4>2 DEF IsStop
        <5> QED
          BY <1>0, <4>2, <5>1 DEF WireInOrder
      <4> QED
        BY <4>1, <4>2
    <3>12. CASE toR' = t
      BY <2>0, <3>5, <3>8, <3>9, <3>10, <3>11, <3>12 DEF WireInOrder
    <3>13. CASE sent' = Total /\ toR' = Append(t, End)
      <4>1. WireChain(toR', sent')
        BY <3>3, <3>4, <3>8, <3>9, <3>10, <3>13, WireAppend
      <4>2. /\ Len(toR') = Len(t) + 1 /\ toR'[Len(t) + 1] = End /\ toR' # <<>> /\ toR'[1] = t[1]
        BY <3>4, <3>8, <3>10, <3>13, AppendFacts
      <4>3. Tip(toR'[Len(toR')]) = sent'
        BY <3>4, <3>13, <4>2
      <4> QED
        BY <2>0, <3>5, <3>11, <4>1, <4>2, <4>3 DEF WireInOrder
    <3> QED
      BY <3>2, <3>12, <3>13
  <2> QED
    BY <1>1, <2>1, <2>2, <2>3, SenderWire
<1>2. CASE Receiver
  <2>0. UNCHANGED <<sent, sFail, sOpen>>
    BY <1>2, ReceiverFrame
  <2>1. rFail' = "none" => rFail = "none"
    BY <1>0, <1>2 DEF Receiver, R_Start, R_Data, R_End, R_Stop, R_Ignore, R_StepStart, R_WriteDone, R_EndDone,
         R_StepFails, R_Closed, R_Abort, R_GiveUp, R_Reject, RListening, PhasesAgree, Acknowledge, StepFail
  <2>2. CASE toR' = toR /\ UNCHANGED <<received, endSeen, missed>>
    BY <1>0, <2>0, <2>1, <2>2 DEF WireInOrder
  <2>3. CASE (R_Data \/ R_End \/ R_Stop \/ R_Ignore) /\ toR # <<>> /\ toR' = Tail(toR)
    <3>1. /\ Len(toR') = Len(toR) - 1 /\ Head(toR) = toR[1] /\ toR[1] \in FramesToR /\ toR' \in Seq(FramesToR)
          /\ \A i \in 1..Len(toR') : i + 1 \in 1..Len(toR) /\ toR'[i] = toR[i + 1]
          /\ 1 \in 1..Len(toR)
      BY <1>a, <2>3, TailFacts
    <3>2. WireChain(toR', sent)
      BY <1>0, <1>a, <2>3, WireTail DEF WireInOrder
    <3>3. toR' # <<>> => Len(toR') >= 1 /\ toR'[Len(toR')] = toR[Len(toR)] /\ toR'[1] = toR[1 + 1] /\ 1 \in 1..(Len(toR) - 1)
      BY <1>a, <3>1
    <3>4. toR' = <<>> => Len(toR) = 1
      BY <1>a, <3>1
    <3>5. sOpen /\ sFail = "none" /\ toR' # <<>> => Tip(toR'[Len(toR')]) = sent
      BY <1>0, <2>3, <3>3 DEF WireInOrder
    <3> DEFINE Follows == /\ endSeen' => \A i \in 1..Len(toR') : IsStop(toR'[i])
                          /\ toR' # <<>> /\ ~IsStop(toR'[1]) => Base(toR'[1]) = received'
                          /\ sOpen /\ sFail = "none" /\ toR' = <<>> => received' = sent
    <3>6. ASSUME ~missed', rFail' = "none" PROVE Follows
      <4>0. rFail = "none"
        BY <2>1, <3>6
      <4>1. CASE R_Data
        <5>1. Head(toR).type = "data" /\ missed' = missed /\ endSeen' = endSeen
          BY <4>1 DEF R_Data
        <5>2. ~endSeen /\ received' = Tip(toR[1])
          BY <3>1, <3>6, <4>0, <4>1, <5>1, FrameAccepted, <2>3 DEF R_Data, DataAllowed, RFail, Tip
        <5>3. toR' # <<>> /\ ~IsStop(toR'[1]) => Base(toR'[1]) = Tip(toR[1])
          BY <1>0, <3>3 DEF WireInOrder, WireChain
        <5>4. sOpen /\ sFail = "none" /\ toR' = <<>> => Tip(toR[1]) = sent
          BY <1>0, <2>3, <3>4 DEF WireInOrder
        <5> QED
          BY <5>1, <5>2, <5>3, <5>4
      <4>2. CASE R_End
        <5>1. Head(toR).type = "end" /\ missed' = missed /\ received' = received
          BY <4>2 DEF R_End
        <5>2. EndAllowed
          BY <2>3, <3>6, <4>0, <5>1, FrameAccepted
        <5>3. received = Total /\ toR[1] = End
          BY <3>1, <5>1, <5>2 DEF EndAllowed, FramesToR, DataFrames, StopFrames, End
        <5>4. toR[1].type # "data"
          BY <5>3 DEF End
        <5>5. \A i \in 1..Len(toR') : IsStop(toR'[i])
          <6> TAKE i \in 1..Len(toR')
          <6>1. i + 1 \in 1..Len(toR) /\ 1 \in 1..((i + 1) - 1) /\ toR'[i] = toR[i + 1]
            BY <3>1
          <6> QED
            BY <1>0, <5>4, <6>1 DEF WireInOrder, WireChain
        <5>6. sent = Total
          BY <1>0, <3>1, <5>3 DEF KeptIsTrue, PhasesAgree
        <5> QED
          BY <3>3, <5>1, <5>3, <5>5, <5>6
      <4>3. CASE R_Stop
        BY <3>6, <4>3 DEF R_Stop, RFail, failureForStop
      <4>4. CASE R_Ignore
        <5>1. ~missed /\ rPhase = "resolved" /\ UNCHANGED <<received, endSeen>>
          BY <1>0, <3>6, <4>0, <4>4 DEF R_Ignore, RListening, TypeOK, PhasesAgree
        <5>2. endSeen
          BY <1>0, <5>1 DEF PhasesAgree, QueueInOrder
        <5>3. \A i \in 1..Len(toR) : IsStop(toR[i])
          BY <1>0, <4>0, <5>1, <5>2 DEF WireInOrder
        <5>4. sFail # "none"
          BY <1>0, <3>1, <5>3 DEF KeptIsTrue
        <5> QED
          BY <3>1, <3>3, <5>3, <5>4
      <4> QED
        BY <2>3, <4>1, <4>2, <4>3, <4>4
    <3> QED
      BY <2>0, <3>2, <3>5, <3>6 DEF WireInOrder
  <2> QED
    BY <1>2, <2>2, <2>3, ReceiverTakes
<1>3. CASE Channel \/ Over \/ UNCHANGED vars
  <2>0. UNCHANGED <<sent, sFail, received, endSeen, missed, rFail>>
    BY <1>3, ChannelFrame
  <2>1. CASE toR' = toR /\ sOpen' = sOpen
    BY <1>0, <2>0, <2>1 DEF WireInOrder
  <2>2. CASE toR' \in Prefixes(toR) /\ ~sOpen'
    <3>1. WireChain(toR', sent)
      BY <1>0, <1>a, <2>2, WirePrefix DEF WireInOrder
    <3>2. /\ toR' \in Seq(FramesToR) /\ \A i \in 1..Len(toR') : i \in 1..Len(toR) /\ toR'[i] = toR[i]
      BY <1>a, <2>2, PrefixFacts
    <3>3. toR' # <<>> => 1 \in 1..Len(toR')
      BY <3>2
    <3>4. toR' # <<>> => toR # <<>> /\ toR'[1] = toR[1]
      BY <1>a, <3>2, <3>3
    <3> QED
      BY <1>0, <2>0, <2>2, <3>1, <3>2, <3>4 DEF WireInOrder
  <2> QED
    BY <1>3, <2>1, <2>2 DEF Channel, Drain, CloseSender, CloseReceiver, Over, vars, openVars
<1> QED
  BY <1>1, <1>2, <1>3 DEF Next

(* No step makes an honest end accuse the other.                           *)
LEMMA NoHonestStep == IInv /\ [Next]_vars => NoHonestProtocolFailure'
<1> SUFFICES ASSUME IInv, [Next]_vars PROVE NoHonestProtocolFailure'
  OBVIOUS
<1> USE SizesAssumption, LimitsAssumption
<1>0. TypeOK /\ AcksAdvance /\ WindowKept /\ QueueInOrder /\ KeptIsTrue /\ NoHonestProtocolFailure
  BY DEF IInv
<1>1. CASE Sender
  <2>0. rFail' = rFail /\ missed' = missed
    BY <1>1, SenderFrame
  <2>1. S_Ack => sFail' = sFail
    <3> SUFFICES ASSUME S_Ack PROVE sFail' = sFail
      OBVIOUS
    <3>1. toS \in Seq(FramesToS) /\ toS # <<>> /\ Head(toS) = toS[1] /\ 1 \in 1..Len(toS)
          /\ toS[1] \in FramesToS /\ toS[1].type = "ack"
      BY <1>0, TailFacts DEF TypeOK, S_Ack, TakeFromR
    <3>2. toS[1].next \in Nat
      BY <3>1 DEF FramesToS, Kept, StopFrames
    <3>3. acknowledged < toS[1].next /\ toS[1].next <= lastAck
      BY <1>0, <3>1 DEF AcksAdvance, AcksIncrease
    <3>4. /\ lastAck <= written /\ written <= received /\ received <= sent
          /\ lastAck \in Nat /\ written \in Nat /\ received \in Nat /\ sent \in Nat /\ acknowledged \in Nat
      BY <1>0 DEF TypeOK, WindowKept, QueueInOrder, AcksAdvance
    <3>5. toS[1].next <= sent /\ ~(toS[1].next <= acknowledged) /\ ~(toS[1].next > sent)
      BY <3>2, <3>3, <3>4
    <3> QED
      BY <3>1, <3>5 DEF S_Ack
  <2>2. S_Kept => sFail' = sFail
    <3> SUFFICES ASSUME S_Kept PROVE sFail' = sFail
      OBVIOUS
    <3>1. toS \in Seq(FramesToS) /\ toS # <<>> /\ Head(toS) = toS[1] /\ 1 \in 1..Len(toS)
          /\ toS[1] \in FramesToS /\ toS[1].type = "kept"
      BY <1>0, TailFacts DEF TypeOK, S_Kept, TakeFromR
    <3>2. toS[1] = Kept
      BY <3>1 DEF FramesToS, Kept, StopFrames
    <3>3. ended
      BY <1>0, <3>1, <3>2 DEF KeptIsTrue
    <3> QED
      BY <3>3 DEF S_Kept
  <2>3. sFail' = sFail \/ sFail' # "protocol"
    BY <1>1, <2>1, <2>2 DEF Sender, S_Start, S_Record, S_ReadFails, S_SendData, S_Stop, S_Ignore, S_Low,
         S_Closed, S_Abort, S_Reject, SFail, senderVars, failureForStop
  <2> QED
    BY <1>0, <2>0, <2>3 DEF NoHonestProtocolFailure
<1>2. CASE Receiver
  <2>0. sFail' = sFail
    BY <1>2, ReceiverFrame
  <2>1. missed => missed'
    BY <1>2, ReceiverTakes DEF R_Data, R_End, R_Stop, R_Ignore
  <2>2. ASSUME ~missed, R_Data PROVE rFail' = rFail
    BY <2>2, FrameAccepted DEF R_Data, RListening, TakeFromS
  <2>3. ASSUME ~missed, R_End PROVE rFail' = rFail
    BY <2>3, FrameAccepted DEF R_End, RListening, TakeFromS
  <2>4. R_WriteDone \/ R_EndDone \/ R_StepFails => rFail' = rFail \/ rFail' # "protocol"
    BY DEF R_WriteDone, R_EndDone, R_StepFails, Acknowledge, StepFail, RFail
  <2>5. R_Start(TRUE) \/ R_Start(FALSE) \/ R_Stop \/ R_Ignore \/ R_StepStart \/ R_Closed \/ R_Abort \/ R_GiveUp
          \/ R_Reject => rFail' = rFail \/ rFail' # "protocol"
    BY DEF R_Start, R_Stop, R_Ignore, R_StepStart, R_Closed, R_Abort, R_GiveUp, R_Reject, RFail, failureForStop
  <2>6. ASSUME ~missed PROVE rFail' = rFail \/ rFail' # "protocol"
    BY <1>2, <2>2, <2>3, <2>4, <2>5, <2>6 DEF Receiver
  <2> QED
    BY <1>0, <2>0, <2>1, <2>6 DEF NoHonestProtocolFailure
<1>3. CASE Channel \/ Over \/ UNCHANGED vars
  BY <1>0, <1>3, ChannelFrame DEF NoHonestProtocolFailure
<1> QED
  BY <1>1, <1>2, <1>3 DEF Next

(* The invariant holds before the first step.                              *)
LEMMA InitIInv == Init => IInv
<1> SUFFICES ASSUME Init PROVE IInv
  OBVIOUS
<1> USE SizesAssumption, LimitsAssumption DEF Init
<1>1. TypeOK
  <2>1. <<>> \in Seq(Steps) /\ <<>> \in Seq(FramesToR) /\ <<>> \in Seq(FramesToS)
    OBVIOUS
  <2>2. HeaderBytes \in 0..(Total - 0) /\ 0 \in 0..Total /\ 0 \in Nat
    OBVIOUS
  <2> QED
    BY <2>1, <2>2 DEF TypeOK, SenderFailures, ReceiverFailures
<1>2. PhasesAgree
  BY DEF PhasesAgree
<1>3. QueueInOrder
  <2>1. busy.type = "idle" /\ busy # End
    BY DEF Idle, End
  <2> QED
    BY <2>1 DEF QueueInOrder, Chain
<1>4. WindowKept /\ BufferMarks /\ PausedHasWakeup /\ NoHonestProtocolFailure
  BY DEF WindowKept, BufferMarks, PausedHasWakeup, NoHonestProtocolFailure, SenderActive
<1>5. KeptIsTrue /\ AcksAdvance /\ WireInOrder
  BY DEF KeptIsTrue, AcksAdvance, AcksIncrease, WireInOrder, WireChain
<1> QED
  BY <1>1, <1>2, <1>3, <1>4, <1>5 DEF IInv

(* The inductive invariant of a transfer: phases, queue, window, send      *)
(* buffer and both wires stay consistent through every step.               *)
THEOREM Invariance == Spec => []IInv
<1>1. IInv /\ [Next]_vars => IInv'
  BY TypeStep, PhasesStep, QueueStep, WindowStep, BufferStep, KeptStep, AcksStep, WireStep, NoHonestStep
     DEF IInv
<1> QED
  BY InitIInv, <1>1, PTL DEF Spec

-----------------------------------------------------------------------------
(* What follows from the invariant.                                        *)

(* Every variable keeps its type, and a record never runs past the         *)
(* envelope (encoder.next and the `total - sent` cap of sendEnvelope).     *)
THEOREM TypeCorrect == Spec => []TypeOK
BY Invariance, PTL DEF IInv

(* The frame checks of sendEnvelope and receiveEnvelope never fail on what *)
(* an honest peer sent to a listening receiver.                            *)
THEOREM HonestPeersAgree == Spec => []NoHonestProtocolFailure
BY Invariance, PTL DEF IInv

(* sendEnvelope resolves only when the receiver holds the kept file.       *)
THEOREM SuccessIsTrue == Spec => []NoFalseSuccess
<1>1. IInv => NoFalseSuccess
  BY DEF IInv, KeptIsTrue, PhasesAgree, NoFalseSuccess
<1> QED
  BY Invariance, <1>1, PTL

(* Between two honest ends of sendEnvelope and receiveEnvelope no failure  *)
(* blames the other end and no success is false, whatever stops, closes    *)
(* and give-ups land between a write and its completion.                   *)
THEOREM TransfersStayHonest == Spec => []HonestTransfers
BY HonestPeersAgree, SuccessIsTrue, PTL DEF HonestTransfers

(* The receiver keeps nothing but the whole envelope, after END.           *)
THEOREM KeptIsWhole == Spec => []OnlyWholeFileKept
<1>1. IInv => OnlyWholeFileKept
  BY DEF IInv, QueueInOrder, OnlyWholeFileKept
<1> QED
  BY Invariance, <1>1, PTL

(* What waits for the receiver's sink never exceeds the window, whatever   *)
(* the window, the ACK distance and the frame size.                        *)
THEOREM BacklogBounded == Spec => []ReceiverBacklogBounded
<1>1. IInv => ReceiverBacklogBounded
  BY LimitsAssumption DEF IInv, TypeOK, WindowKept, ReceiverBacklogBounded
<1> QED
  BY Invariance, <1>1, PTL

(* The sender's channel never buffers more than two frames over the        *)
(* high-water mark, and a paused sender always has a wakeup coming.        *)
THEOREM BufferBounded == Spec => [](SendBufferBounded /\ PausedHasWakeup)
<1>1. IInv => SendBufferBounded /\ PausedHasWakeup
  BY DEF IInv, BufferMarks, SendBufferBounded
<1> QED
  BY Invariance, <1>1, PTL

(* A rejected receiveEnvelope has aborted its sink and left no step behind. *)
THEOREM RejectionIsClean == Spec => []RejectedHoldsNothing
<1>1. IInv => RejectedHoldsNothing
  BY DEF IInv, PhasesAgree, RejectedHoldsNothing
<1> QED
  BY Invariance, <1>1, PTL

(* No step fails a receiver that has kept its file, or touches the file.   *)
LEMMA KeptStaysStep ==
  ASSUME IInv, [Next]_vars, sink = "kept", rFail = "none"
  PROVE  sink' = "kept" /\ rFail' = "none"
<1>0. rPhase = "resolved" /\ busy = Idle /\ queue = <<>>
  BY DEF IInv, PhasesAgree
<1>1. CASE Sender
  BY <1>1, SenderFrame
<1>2. CASE Receiver
  <2>1. busy.type = "idle" /\ busy # End
    BY <1>0 DEF Idle, End
  <2> QED
    BY <1>0, <1>2, <2>1 DEF Receiver, R_Start, R_Data, R_End, R_Stop, R_Ignore, R_StepStart, R_WriteDone,
         R_EndDone, R_StepFails, R_Closed, R_Abort, R_GiveUp, R_Reject, RListening
<1>3. CASE Channel \/ Over \/ UNCHANGED vars
  BY <1>3, ChannelFrame
<1> QED
  BY <1>1, <1>2, <1>3 DEF Next

(* A file kept by a receiver that has not failed is never taken back.      *)
THEOREM KeptForGood == Spec => KeptStays
<1>1. IInv /\ [Next]_vars => [sink = "kept" /\ rFail = "none" => sink' = "kept" /\ rFail' = "none"]_vars
  BY KeptStaysStep
<1> QED
  BY Invariance, <1>1, PTL DEF Spec, KeptStays

-----------------------------------------------------------------------------
(* DirectTransfer implements DirectDelivery.                               *)

(* A step of the sender: END warns, KEPT tells, a failure gives up.        *)
LEMMA SenderDelivers ==
  ASSUME IInv, IInv', Sender
  PROVE  [Delivery!Next]_(Delivery!vars)
<1>0. FileHeld' = FileHeld
  BY SenderFrame DEF FileHeld
<1>1. CASE sPhase' = sPhase /\ ended' = ended
  BY <1>0, <1>1 DEF Told, Delivery!vars
<1>2. CASE sPhase' = "resolved" /\ sPhase # "resolved"
  <2>1. ended' = ended /\ SenderActive
    BY <1>2 DEF Sender, S_Start, S_Record, S_ReadFails, S_SendData, S_Ack, S_Kept, S_Stop, S_Ignore, S_Low,
         S_Closed, S_Abort, S_Reject, SListening, senderVars
  <2>2. FileHeld = "kept"
    BY <1>0, <1>2 DEF IInv, KeptIsTrue, PhasesAgree, FileHeld
  <2>3. Told = "waiting" /\ Told' = "arrived"
    BY <1>2, <2>1 DEF Told, SenderActive
  <2> QED
    BY <1>0, <2>1, <2>2, <2>3 DEF Delivery!Next, Delivery!Arrive
<1>3. CASE sPhase' = "rejected" /\ sPhase # "rejected"
  <2>1. ended' = ended /\ sPhase \in {"start", "loop", "await"}
    BY <1>3 DEF Sender, S_Start, S_Record, S_ReadFails, S_SendData, S_Ack, S_Kept, S_Stop, S_Ignore, S_Low,
         S_Closed, S_Abort, S_Reject, SListening, SenderActive, senderVars
  <2>2. Told = "waiting" /\ Told' = "failed"
    BY <1>3, <2>1 DEF Told
  <2> QED
    BY <1>0, <2>1, <2>2 DEF Delivery!Next, Delivery!GiveUp
<1>4. CASE sPhase' = "await" /\ sPhase = "loop"
  <2>1. ~ended
    BY <1>4 DEF IInv, PhasesAgree
  <2>2. Told = "waiting" /\ Told' = "waiting"
    BY <1>4 DEF Told
  <2>3. ended' \in BOOLEAN /\ ended \in BOOLEAN
    BY DEF IInv, TypeOK
  <2> QED
    BY <1>0, <2>1, <2>2, <2>3 DEF Delivery!Next, Delivery!Warn, Delivery!vars
<1>5. CASE sPhase' = "loop" /\ sPhase = "start" /\ ended' = ended
  BY <1>0, <1>5 DEF Told, Delivery!vars
<1>6. CASE \E take \in 1..Room : S_SendData(take)
  <2>1. sPhase = "loop" /\ (sPhase' = "await" \/ sPhase' = "rejected" \/ (sPhase' = "loop" /\ ended' = (sent' = Total)
          /\ sent' # Total))
    BY <1>6 DEF S_SendData
  <2>2. ~ended
    BY <2>1 DEF IInv, PhasesAgree
  <2>3. sPhase' = "loop" => ended' = ended
    BY <2>1, <2>2 DEF IInv, TypeOK
  <2> QED
    BY <1>1, <1>3, <1>4, <2>1, <2>3
<1>7. CASE ~\E take \in 1..Room : S_SendData(take)
  <2>1. ended' = ended
    BY <1>7 DEF Sender, S_Start, S_Record, S_ReadFails, S_Ack, S_Kept, S_Stop, S_Ignore, S_Low,
         S_Closed, S_Abort, S_Reject, senderVars
  <2>2. sPhase' = sPhase \/ sPhase' = "resolved" \/ sPhase' = "rejected" \/ (sPhase' = "loop" /\ sPhase = "start")
    BY <1>7 DEF Sender, S_Start, S_Record, S_ReadFails, S_Ack, S_Kept, S_Stop, S_Ignore, S_Low,
         S_Closed, S_Abort, S_Reject, senderVars
  <2> QED
    BY <1>1, <1>2, <1>3, <1>5, <2>1, <2>2
<1> QED
  BY <1>6, <1>7

(* A step of the receiver: sink.end keeps, a rejection deletes.            *)
LEMMA ReceiverDelivers ==
  ASSUME IInv, IInv', Receiver
  PROVE  [Delivery!Next]_(Delivery!vars)
<1>0. Told' = Told /\ ended' = ended
  BY ReceiverFrame DEF Told
<1>1. CASE FileHeld' = FileHeld
  BY <1>0, <1>1 DEF Delivery!vars
<1>2. CASE FileHeld' # FileHeld
  <2>1. CASE sink = "kept" /\ rFail = "none"
    <3>1. [Next]_vars
      BY DEF Next
    <3>2. sink' = "kept" /\ rFail' = "none"
      BY <2>1, <3>1, KeptStaysStep
    <3> QED
      BY <1>1, <2>1, <3>2 DEF FileHeld
  <2>2. CASE ~(sink = "kept" /\ rFail = "none") /\ sink' = "kept" /\ rFail' = "none"
    <3>1. endSeen' /\ ended'
      BY <2>2 DEF IInv, QueueInOrder
    <3>2. rPhase # "rejected"
      BY <2>2 DEF IInv, PhasesAgree, Receiver, R_Start, R_Data, R_End, R_Stop, R_Ignore, R_StepStart,
           R_WriteDone, R_EndDone, R_StepFails, R_Closed, R_Abort, R_GiveUp, R_Reject, RListening
    <3>3. FileHeld = "none" /\ FileHeld' = "kept"
      BY <2>2, <3>2 DEF FileHeld
    <3> QED
      BY <1>0, <3>1, <3>3 DEF Delivery!Next, Delivery!Keep
  <2>3. CASE ~(sink = "kept" /\ rFail = "none") /\ ~(sink' = "kept" /\ rFail' = "none")
    <3>1. rPhase = "rejected" => rPhase' = "rejected"
      BY DEF Receiver, R_Start, R_Data, R_End, R_Stop, R_Ignore, R_StepStart,
           R_WriteDone, R_EndDone, R_StepFails, R_Closed, R_Abort, R_GiveUp, R_Reject, RListening, IInv, PhasesAgree
    <3>2. FileHeld = "none" /\ FileHeld' = "deleted"
      BY <1>2, <2>3, <3>1 DEF FileHeld
    <3> QED
      BY <1>0, <3>2 DEF Delivery!Next, Delivery!Delete
  <2> QED
    BY <2>1, <2>2, <2>3
<1> QED
  BY <1>1, <1>2

(* Every transfer does what DirectDelivery promises the two people: the    *)
(* sender hears "arrived" only of a file kept for good, and was warned     *)
(* (onEndSent) before the receiver could keep anything.                    *)
THEOREM Refinement == Spec => DeliveryPromise
<1>1. Init => Delivery!Init
  BY DEF Init, Delivery!Init, Told, FileHeld
<1>2. IInv /\ IInv' /\ [Next]_vars => [Delivery!Next]_(Delivery!vars)
  <2> SUFFICES ASSUME IInv, IInv', [Next]_vars PROVE [Delivery!Next]_(Delivery!vars)
    OBVIOUS
  <2>1. CASE Channel \/ Over \/ UNCHANGED vars
    <3>1. Told' = Told /\ FileHeld' = FileHeld /\ ended' = ended
      BY <2>1, ChannelFrame DEF Told, FileHeld
    <3> QED
      BY <3>1 DEF Delivery!vars
  <2> QED
    BY <2>1, SenderDelivers, ReceiverDelivers DEF Next
<1> QED
  BY <1>1, <1>2, Invariance, PTL DEF Spec, DeliveryPromise, Delivery!Spec

(***************************************************************************)
(* The pacing: a relayed send keeps within its rate, a timed wait is long  *)
(* enough, and a look at the path is due whenever the rule may be wrong.   *)
(***************************************************************************)

(***************************************************************************)
(* Arithmetic                                                              *)
(***************************************************************************)

(* Division rounded up is enough, and no more than enough.                 *)
LEMMA CeilEnough ==
  ASSUME NEW a \in Int, NEW b \in Nat \ {0}
  PROVE  CeilDiv(a, b) \in Int /\ a <= CeilDiv(a, b) * b
  <1> DEFINE q == (a + b - 1) \div b
  <1>1. q \in Int /\ a + b - 1 < q * b + b
    OBVIOUS
  <1> QED
    BY <1>1 DEF CeilDiv

LEMMA CeilLeast ==
  ASSUME NEW a \in Int, NEW b \in Nat \ {0}, NEW k \in Int, a <= k * b
  PROVE  CeilDiv(a, b) <= k
  <1> DEFINE q == (a + b - 1) \div b
  <1>1. q \in Int /\ q * b <= a + b - 1
    OBVIOUS
  <1>2. ASSUME k + 1 <= q PROVE FALSE
    <2>1. (k + 1) * b <= q * b
      BY <1>1, <1>2
    <2> QED
      BY <1>1, <2>1
  <1> QED
    BY <1>1, <1>2 DEF CeilDiv

(* What the bucket's capacity takes to fill bounds every wait.             *)
LEMMA Waits ==
  ASSUME NEW a \in 0..Burst
  PROVE  /\ CeilDiv(a, Rate) \in Int /\ a <= CeilDiv(a, Rate) * Rate
         /\ CeilDiv(a, Rate) <= CeilDiv(Burst, Rate) /\ CeilDiv(Burst, Rate) \in Nat \ {0}
         /\ CeilDiv(Burst, Rate) <= Unknown
  <1>1. Rate \in Nat \ {0} /\ Burst \in Nat \ {0} /\ Unknown \in Nat \ {0} /\ Unknown * Rate >= Burst
    BY PacingAssumption
  <1>2. CeilDiv(a, Rate) \in Int /\ a <= CeilDiv(a, Rate) * Rate
    BY <1>1, CeilEnough
  <1>3. CeilDiv(Burst, Rate) \in Int /\ Burst <= CeilDiv(Burst, Rate) * Rate
    BY <1>1, CeilEnough
  <1>4. CeilDiv(a, Rate) <= CeilDiv(Burst, Rate)
    BY <1>1, <1>3, CeilLeast
  <1>5. CeilDiv(Burst, Rate) <= Unknown
    BY <1>1, CeilLeast
  <1>6. CeilDiv(Burst, Rate) > 0
    BY <1>1, <1>3
  <1> QED
    BY <1>2, <1>3, <1>4, <1>5, <1>6

(***************************************************************************)
(* The bucket                                                              *)
(***************************************************************************)

(* What a question finds in the bucket.                                    *)
LEMMA Level ==
  ASSUME PacingTypeOK, BucketInv
  PROVE  /\ Refilled \in 0..Burst /\ Refilled <= reference /\ reference \in 0..Burst
         /\ wanted \in 1..Burst /\ Least(wanted, Burst) = wanted
         /\ RateAllows \in 0..Burst /\ RateAllows <= Refilled
         /\ RateAllows = 0 <=> Refilled < wanted
  <1>1. /\ Rate \in Nat \ {0} /\ Burst \in Nat \ {0} /\ None \notin Nat
        /\ wanted \in 1..Burst /\ tokens \in 0..Burst /\ idle \in Nat
    BY PacingAssumption DEF PacingTypeOK
  <1>2. Least(wanted, Burst) = wanted
    BY <1>1 DEF Least
  <1>3. Refilled \in 0..Burst
    <2>1. CASE spent = None
      BY <1>1, <2>1 DEF Refilled
    <2>2. CASE spent # None
      <3>1. spent \in 0..Burst /\ spent <= tokens
        BY <2>2 DEF PacingTypeOK, BucketInv
      <3>2. idle * Rate \in Nat
        BY <1>1
      <3> QED
        BY <1>1, <2>2, <3>1, <3>2 DEF Refilled, Least
    <2> QED
      BY <2>1, <2>2
  <1>4. Refilled <= reference /\ reference \in 0..Burst
    BY <1>1, <1>3 DEF BucketInv
  <1>5. /\ RateAllows \in 0..Burst /\ RateAllows <= Refilled
        /\ RateAllows = 0 <=> Refilled < wanted
    BY <1>1, <1>2, <1>3 DEF RateAllows, Most
  <1> QED
    BY <1>1, <1>2, <1>3, <1>4, <1>5

(* A wait that the rule asks for is as long as the frame needs.            *)
LEMMA WaitIsEnough ==
  ASSUME PacingTypeOK, BucketInv
  PROVE  /\ WaitTime \in 0..Most(Unknown, CeilDiv(Burst, Rate)) \cup {Untimed}
         /\ ~Paced => WaitTime = Untimed
         /\ WaitTime \in Nat => wanted <= Refilled + WaitTime * Rate
  <1> DEFINE need == wanted - Refilled
             asked == IF Paced /\ RateAllows = 0 THEN RetryTime ELSE Untimed
  <1>1. /\ Rate \in Nat \ {0} /\ Burst \in Nat \ {0} /\ Unknown \in Nat \ {0} /\ Unknown * Rate >= Burst
        /\ Untimed \notin Nat
    BY PacingAssumption
  <1>2. /\ Refilled \in 0..Burst /\ wanted \in 1..Burst /\ Least(wanted, Burst) = wanted
        /\ RateAllows = 0 <=> Refilled < wanted
    BY Level
  <1>3. Most(Unknown, CeilDiv(Burst, Rate)) = Unknown
    <2>1. Burst \in 0..Burst
      BY <1>1
    <2> QED
      BY <1>1, <2>1, Waits DEF Most
  <1>4. ASSUME RateAllows = 0 PROVE RetryTime \in 1..Unknown /\ need <= RetryTime * Rate
    <2>1. need \in 0..Burst
      BY <1>1, <1>2, <1>4
    <2>2. /\ CeilDiv(need, Rate) \in Int /\ need <= CeilDiv(need, Rate) * Rate
          /\ CeilDiv(need, Rate) <= Unknown
      BY <1>1, <2>1, Waits
    <2>3. RetryTime = Most(1, CeilDiv(need, Rate))
      BY <1>2 DEF RetryTime
    <2>4. RetryTime \in 1..Unknown /\ RetryTime >= CeilDiv(need, Rate)
      BY <1>1, <2>2, <2>3 DEF Most
    <2>5. CeilDiv(need, Rate) * Rate <= RetryTime * Rate
      BY <1>1, <2>2, <2>4
    <2>6. RetryTime * Rate \in Int /\ CeilDiv(need, Rate) * Rate \in Int
      BY <1>1, <2>2, <2>4
    <2> QED
      BY <1>2, <2>2, <2>4, <2>5, <2>6
  <1>5. WaitTime = IF relayed = "unknown" THEN (IF asked = Untimed THEN Unknown ELSE Least(asked, Unknown)) ELSE asked
    BY DEF WaitTime
  <1>6. CASE Paced /\ RateAllows = 0
    <2>1. asked \in 1..Unknown /\ asked # Untimed /\ need <= asked * Rate
      BY <1>1, <1>4, <1>6
    <2>2. WaitTime \in {asked, Unknown}
      BY <1>5, <2>1 DEF Least
    <2>3. wanted <= Refilled + asked * Rate /\ wanted <= Refilled + Unknown * Rate
      <3>1. asked * Rate \in Int /\ Unknown * Rate \in Int
        BY <1>1, <2>1
      <3> QED
        BY <1>1, <1>2, <2>1, <3>1
    <2> QED
      BY <1>1, <1>3, <1>6, <2>1, <2>2, <2>3
  <1>7. CASE ~(Paced /\ RateAllows = 0)
    <2>1. WaitTime = IF relayed = "unknown" THEN Unknown ELSE Untimed
      BY <1>5, <1>7
    <2>2. relayed = "unknown" => wanted <= Refilled
      BY <1>2, <1>7 DEF Paced
    <2>3. Unknown * Rate \in Nat
      BY <1>1
    <2> QED
      BY <1>1, <1>2, <1>3, <2>1, <2>2, <2>3 DEF Paced
  <1> QED
    BY <1>6, <1>7

(* The clock's tick fills the bucket no faster than the protocol's, and a  *)
(* wait that runs on ends no later than before.                            *)
LEMMA BucketTick ==
  ASSUME PacingTypeOK, BucketInv, Tick
  PROVE  /\ BucketInv' /\ idle' \in 0..MaxIdle
         /\ wait' \in 0..Most(Unknown, CeilDiv(Burst, Rate)) \cup {Untimed, None}
  <1>1. /\ Rate \in Nat \ {0} /\ Burst \in Nat \ {0} /\ MaxIdle \in Nat \ {0} /\ MaxIdle * Rate >= 2 * Burst
        /\ None \notin Nat /\ Untimed \notin Nat /\ Untimed # None
        /\ wanted \in 1..Burst /\ tokens \in 0..Burst /\ idle \in 0..MaxIdle
    BY PacingAssumption DEF PacingTypeOK
  <1>2. /\ UNCHANGED <<tokens, spent, wanted, relayed>> /\ wait # 0
        /\ wait' = (IF wait \in {Untimed, None} THEN wait ELSE wait - 1)
        /\ idle' = (IF spent = None THEN 0 ELSE Least(MaxIdle, idle + 1)) /\ reference' = Least(Burst, reference + Rate)
    BY DEF Tick
  <1>3. reference \in 0..Burst /\ Refilled <= reference
    BY Level
  <1>4. reference' \in 0..Burst /\ (reference = Burst => reference' = Burst)
    BY <1>1, <1>2, <1>3 DEF Least
  <1>5. idle' \in 0..MaxIdle
    BY <1>1, <1>2 DEF Least
  <1>6. wait' \in 0..Most(Unknown, CeilDiv(Burst, Rate)) \cup {Untimed, None}
    <2>1. Most(Unknown, CeilDiv(Burst, Rate)) \in Nat
      <3>1. Burst \in 0..Burst
        BY <1>1
      <3>2. CeilDiv(Burst, Rate) \in Nat
        BY <3>1, Waits
      <3> QED
        BY <3>2, PacingAssumption DEF Most
    <2> QED
      BY <1>2, <2>1 DEF PacingTypeOK
  <1>7. CASE spent = None
    <2>1. spent' = None /\ Refilled = Burst /\ Refilled' = Burst
      BY <1>2, <1>7 DEF Refilled
    <2>2. reference' = Burst
      BY <1>1, <1>3, <1>4, <2>1
    <2> QED
      BY <1>1, <1>5, <1>6, <2>1, <2>2 DEF BucketInv
  <1>8. CASE spent # None
    <2> DEFINE level == (tokens + idle * Rate) - spent
               next == (tokens + idle' * Rate) - spent
    <2>1. spent \in 0..Burst /\ spent <= tokens
      BY <1>8 DEF PacingTypeOK, BucketInv
    <2>2. \/ idle' = MaxIdle
          \/ idle' = idle + 1
      BY <1>2, <1>8 DEF Least
    <2>3. ASSUME idle' = MaxIdle PROVE next >= Burst
      <3>1. idle' * Rate >= 2 * Burst /\ idle' * Rate \in Int
        BY <1>1, <2>3
      <3> QED
        BY <1>1, <2>1, <3>1
    <2>4. ASSUME idle' = idle + 1 PROVE next = level + Rate
      <3>1. idle' * Rate = idle * Rate + Rate /\ idle * Rate \in Int
        BY <1>1, <2>4
      <3> QED
        BY <1>1, <2>1, <3>1
    <2>5. level \in Int /\ next \in Int
      <3>1. idle * Rate \in Int /\ idle' * Rate \in Int
        BY <1>1, <1>5
      <3> QED
        BY <1>1, <2>1, <3>1
    <2>6. Least(Burst, next) <= reference'
      <3>1. Least(Burst, level) <= reference
        BY <1>3, <1>8 DEF Refilled
      <3>2. idle' # MaxIdle => next = level + Rate
        BY <2>2, <2>4
      <3>3. CASE idle' = idle + 1
        BY <1>1, <1>2, <1>3, <2>4, <2>5, <3>1, <3>3 DEF Least
      <3>4. CASE idle' = MaxIdle /\ idle' # idle + 1
        <4>1. idle = MaxIdle
          BY <1>1, <1>2, <1>8, <3>4 DEF Least
        <4>2. next = level
          BY <3>4, <4>1
        <4> QED
          BY <1>1, <1>2, <1>3, <2>5, <3>1, <4>2 DEF Least
      <3> QED
        BY <2>2, <3>3, <3>4
    <2>7. ASSUME NEW w \in Nat, wait' = w PROVE wanted <= (tokens + (idle' + w) * Rate) - spent
      <3>1. wait \in Nat /\ w = wait - 1
        <4>1. wait \notin {Untimed, None}
          BY <1>1, <1>2, <2>7
        <4>2. wait \in Nat
          <5>1. wait \in 0..Most(Unknown, CeilDiv(Burst, Rate))
            BY <4>1 DEF PacingTypeOK
          <5> QED
            BY <5>1
        <4> QED
          BY <1>2, <2>7, <4>1, <4>2
      <3>2. wanted <= (tokens + (idle + wait) * Rate) - spent
        BY <1>8, <3>1 DEF BucketInv
      <3>3. CASE idle' = idle + 1
        <4>1. idle' + w = idle + wait
          BY <1>1, <2>7, <3>1, <3>3
        <4> QED
          BY <3>2, <4>1
      <3>4. CASE idle' = MaxIdle
        <4>1. next >= Burst
          BY <2>3, <3>4
        <4>2. idle' \in Int /\ idle' * Rate \in Int /\ w * Rate \in Nat
          BY <1>1, <1>5, <2>7
        <4>3. (idle' + w) * Rate = idle' * Rate + w * Rate
          BY <1>1, <2>7, <4>2
        <4> DEFINE filled == idle' * Rate
                   rest == w * Rate
        <4>4. filled \in Int /\ rest \in Nat /\ (tokens + filled) - spent >= Burst
          BY <4>1, <4>2
        <4>5. (idle' + w) * Rate = filled + rest
          BY <4>3
        <4> HIDE DEF filled, rest
        <4>6. wanted <= (tokens + (filled + rest)) - spent
          BY <1>1, <2>1, <4>4
        <4> QED
          BY <4>5, <4>6
      <3> QED
        BY <2>2, <3>3, <3>4
    <2>8. Refilled' = Least(Burst, next)
      BY <1>2, <1>8 DEF Refilled
    <2>9. spent' # None /\ spent' <= tokens' /\ relayed' # "direct"
      BY <1>2, <1>8, <2>1 DEF BucketInv
    <2>10. wait' \in Nat => wanted' <= (tokens' + (idle' + wait') * Rate) - spent'
      BY <1>2, <2>7
    <2>11. Refilled' <= reference' /\ reference' \in Int /\ reference' <= Burst
      BY <1>1, <1>4, <2>6, <2>8
    <2> QED
      BY <1>5, <1>6, <2>9, <2>10, <2>11 DEF BucketInv
  <1> QED
    BY <1>5, <1>6, <1>7, <1>8

(* A question, and the frame it lets go: what is taken is in the bucket,   *)
(* and comes out of the protocol's as well.                                *)
LEMMA BucketAsk ==
  ASSUME PacingTypeOK, BucketInv, Ask
  PROVE  /\ BucketInv' /\ tokens' \in 0..Burst /\ spent' \in 0..Burst \cup {None} /\ idle' \in 0..MaxIdle
         /\ wanted' \in Frames /\ held' \in BOOLEAN /\ turn' \in BOOLEAN
         /\ wait' \in 0..Most(Unknown, CeilDiv(Burst, Rate)) \cup {Untimed, None}
  <1>1. /\ Rate \in Nat \ {0} /\ Burst \in Nat \ {0} /\ MaxIdle \in Nat \ {0}
        /\ None \notin Nat /\ Untimed \notin Nat /\ Untimed # None /\ Frames \subseteq 1..Burst
        /\ tokens \in 0..Burst /\ idle \in 0..MaxIdle
    BY PacingAssumption DEF PacingTypeOK
  <1>2. /\ Refilled \in 0..Burst /\ Refilled <= reference /\ reference \in 0..Burst
        /\ wanted \in 1..Burst /\ RateAllows \in 0..Burst /\ RateAllows <= Refilled
    BY Level
  <1>3. wait = None /\ UNCHANGED relayed
    BY DEF Ask
  <1>4. PICK window \in ProtocolAllows :
          LET take == Least(wanted, PaceAllowed(window)) IN
          /\ tokens' = (IF Paced THEN Refilled ELSE tokens)
          /\ idle' = (IF Paced THEN 0 ELSE idle)
          /\ spent' = (IF Paced THEN take ELSE IF spent = None THEN None ELSE spent + take)
          /\ reference' = (IF Paced THEN reference - take ELSE reference)
          /\ IF take > 0
             THEN turn' = ~turn /\ wanted' \in Frames /\ held' \in BOOLEAN /\ UNCHANGED wait
             ELSE wait' = WaitTime /\ UNCHANGED <<turn, wanted, held>>
    BY DEF Ask
  <1> DEFINE take == Least(wanted, PaceAllowed(window))
  <1>5. window \in 0..Burst
    BY <1>1, <1>2 DEF ProtocolAllows
  <1>6. take \in 0..Burst /\ (Paced => take <= Refilled)
    BY <1>1, <1>2, <1>5 DEF Least, PaceAllowed
  <1>7. /\ WaitTime \in 0..Most(Unknown, CeilDiv(Burst, Rate)) \cup {Untimed}
        /\ ~Paced => WaitTime = Untimed
        /\ WaitTime \in Nat => wanted <= Refilled + WaitTime * Rate
    BY WaitIsEnough
  <1>8. /\ wanted' \in Frames /\ held' \in BOOLEAN /\ turn' \in BOOLEAN
        /\ wait' \in {None, WaitTime} /\ (wait' # None => take = 0 /\ wanted' = wanted /\ wait' = WaitTime)
    <2>1. CASE take > 0
      BY <1>3, <1>4, <2>1
    <2>2. CASE ~(take > 0)
      <3>1. take = 0
        BY <1>1, <1>6, <2>2
      <3>2. wait' = WaitTime /\ UNCHANGED <<turn, wanted, held>>
        BY <1>4, <2>2
      <3> QED
        BY <3>1, <3>2 DEF PacingTypeOK
    <2> QED
      BY <2>1, <2>2
  <1>9. wait' \in 0..Most(Unknown, CeilDiv(Burst, Rate)) \cup {Untimed, None}
    BY <1>7, <1>8
  <1>10. CASE Paced
    <2>1. tokens' = Refilled /\ idle' = 0 /\ spent' = take /\ reference' = reference - take
      BY <1>4, <1>10
    <2>2. spent' # None /\ spent' <= tokens'
      BY <1>1, <1>6, <1>10, <2>1
    <2>3. Refilled' = Least(Burst, (Refilled + 0 * Rate) - take)
      BY <2>1, <2>2 DEF Refilled
    <2>4. Refilled' <= reference' /\ reference' \in Int /\ reference' <= Burst
      BY <1>1, <1>2, <1>6, <1>10, <2>1, <2>3 DEF Least
    <2>5. ASSUME NEW w \in Nat, wait' = w PROVE wanted' <= (tokens' + (idle' + wait') * Rate) - spent'
      <3>1. wait' # None /\ take = 0 /\ wanted' = wanted /\ w = WaitTime
        BY <1>1, <1>8, <2>5
      <3>2. wanted <= Refilled + WaitTime * Rate
        BY <1>7, <2>5, <3>1
      <3>3. idle' + wait' = w
        <4>1. idle' = 0
          BY <2>1
        <4> QED
          BY <2>5, <4>1
      <3> HIDE DEF take
      <3>4. tokens' = Refilled /\ spent' = 0
        BY <2>1, <3>1
      <3>5. WaitTime * Rate \in Int
        BY <1>1, <2>5, <3>1
      <3> QED
        BY <1>2, <3>1, <3>2, <3>3, <3>4, <3>5
    <2>6. relayed' # "direct"
      BY <1>3, <1>10 DEF Paced
    <2>7. BucketInv'
      BY <2>2, <2>4, <2>5, <2>6 DEF BucketInv
    <2> QED
      BY <1>1, <1>2, <1>6, <1>8, <1>9, <2>1, <2>7
  <1>11. CASE ~Paced
    <2>1. relayed = "direct" /\ spent = None /\ reference = Burst
      BY <1>11 DEF Paced, BucketInv
    <2>2. UNCHANGED <<tokens, idle, spent, reference, relayed>>
      BY <1>3, <1>4, <1>11, <2>1
    <2>3. BucketInv'
      BY <1>1, <2>1, <2>2 DEF BucketInv, Refilled
    <2> QED
      BY <1>1, <1>8, <1>9, <2>1, <2>2, <2>3
  <1> QED
    BY <1>10, <1>11

(* A switch to a direct path forgets the bucket; no other touches it.      *)
LEMMA BucketSet ==
  ASSUME PacingTypeOK, BucketInv, NEW next \in {"relay", "direct"}, SetRelayed(next), UNCHANGED <<tokens, wanted, wait>>
  PROVE  /\ BucketInv' /\ spent' \in 0..Burst \cup {None} /\ idle' \in 0..MaxIdle
  <1>1. Burst \in Nat \ {0} /\ MaxIdle \in Nat \ {0} /\ spent \in 0..Burst \cup {None} /\ idle \in 0..MaxIdle
    BY PacingAssumption DEF PacingTypeOK
  <1>2. CASE next = "direct"
    <2>1. spent' = None /\ idle' = 0 /\ reference' = Burst
      BY <1>2 DEF SetRelayed, SpentAfter, BucketInv
    <2> QED
      BY <1>1, <2>1 DEF BucketInv, Refilled
  <1>3. CASE next = "relay"
    <2>1. spent' = spent /\ idle' = (IF spent = None THEN 0 ELSE idle) /\ reference' = reference /\ relayed' = "relay"
      BY <1>3 DEF SetRelayed, SpentAfter
    <2>2. idle' \in 0..MaxIdle
      BY <1>1, <2>1
    <2>3. CASE spent = None
      BY <1>1, <2>1, <2>3 DEF BucketInv, Refilled
    <2>4. CASE spent # None
      BY <1>1, <2>1, <2>4 DEF BucketInv, Refilled
    <2> QED
      BY <1>1, <2>1, <2>2, <2>3, <2>4
  <1> QED
    BY <1>2, <1>3

(***************************************************************************)
(* The watch                                                               *)
(***************************************************************************)

(* The part of TypeOK that the watch and the path are in.                  *)
WatchType ==
  /\ settling \in BOOLEAN
  /\ relayed \in {"unknown", "relay", "direct"} /\ path \in {"none", "relay", "direct"}
  /\ reads \in [Purposes -> Nat] /\ attempts \in 0..MaxRetries /\ retry \in BOOLEAN /\ settles \in 0..2
  /\ restarts \in 0..Restarts /\ failed \in BOOLEAN /\ stopped \in BOOLEAN

(* What refresh() makes of the reads in flight.                            *)
LEMMA RefreshedReads ==
  ASSUME WatchType, reads' = Refreshed(reads)
  PROVE  /\ reads' \in [Purposes -> Nat] /\ reads'.first = 1 /\ reads'.again = 0
         /\ reads'.late = reads.late + reads.first + reads.again /\ reads'.settle = reads.settle
  <1>1. /\ "first" \in Purposes /\ "again" \in Purposes /\ "late" \in Purposes /\ "settle" \in Purposes
        /\ reads \in [Purposes -> Nat]
    BY DEF WatchType, Purposes
  <1>2. reads.late + reads.first + reads.again \in Nat
    BY <1>1
  <1>3. reads' = [[[reads EXCEPT !["first"] = 1] EXCEPT !["again"] = 0] EXCEPT !["late"] = reads.late + reads.first + reads.again]
    BY <1>1 DEF Refreshed
  <1> QED
    BY <1>1, <1>2, <1>3

(* The counts, one by one: what the sums of WatchInv are made of.          *)
LEMMA Counts ==
  ASSUME WatchType
  PROVE  /\ reads.first \in Nat /\ reads.again \in Nat /\ reads.late \in Nat /\ reads.settle \in Nat
         /\ (\E p \in Purposes : reads[p] > 0) <=>
              reads.first > 0 \/ reads.again > 0 \/ reads.late > 0 \/ reads.settle > 0
  BY DEF WatchType, Purposes

LEMMA WatchStep ==
  ASSUME WatchType, WatchInv, [PacingNext]_pacingVars PROVE WatchType' /\ WatchInv'
  <1> DEFINE Goal == WatchType' /\ WatchInv'
  <1> USE DEF bucket, sender, watch, pair
  <1>0. /\ MaxRetries \in Nat \ {0} /\ Restarts \in Nat
        /\ reads.first \in Nat /\ reads.again \in Nat /\ reads.late \in Nat /\ reads.settle \in Nat
    BY PacingAssumption, Counts
  <1>1. ASSUME UNCHANGED <<relayed, pair, watch, stopped>> PROVE Goal
    BY <1>1 DEF WatchType, WatchInv
  <1>2. CASE Ask \/ Poke \/ Stir \/ Wakes \/ Tick
    BY <1>1, <1>2 DEF Ask, Poke, Stir, Wakes, Tick
  <1>3. CASE Refresh
    <2>1. /\ ~stopped /\ reads.first + reads.again + reads.late < 2 /\ reads' = Refreshed(reads)
          /\ attempts' = 0 /\ retry' = FALSE /\ UNCHANGED <<relayed, path, restarts, settling, settles, failed, stopped>>
      BY <1>3 DEF Refresh
    <2>2. /\ reads' \in [Purposes -> Nat] /\ reads'.first = 1 /\ reads'.again = 0
          /\ reads'.late = reads.late + reads.first + reads.again /\ reads'.settle = reads.settle
      BY <2>1, RefreshedReads
    <2>3. WatchType'
      <3>1. retry' \in BOOLEAN /\ settling' \in BOOLEAN /\ failed' \in BOOLEAN /\ stopped' \in BOOLEAN
        BY <2>1 DEF WatchType
      <3>2. attempts' \in 0..MaxRetries /\ settles' \in 0..2 /\ restarts' \in 0..Restarts
        BY <1>0, <2>1 DEF WatchType
      <3> QED
        BY <2>1, <2>2, <3>1, <3>2 DEF WatchType
    <2>4. reads'["first"] > 0
      BY <2>2
    <2> QED
      BY <1>0, <2>1, <2>2, <2>3, <2>4 DEF WatchInv, Purposes
  <1>4. CASE AfterRestart
    <2>1. /\ ~stopped /\ restarts < Restarts /\ restarts' = restarts + 1 /\ settling' = TRUE
          /\ reads.first + reads.again + reads.late < 2 /\ reads' = Refreshed(reads)
          /\ attempts' = 0 /\ retry' = FALSE /\ settles' = 2 /\ UNCHANGED <<relayed, path, failed, stopped>>
      BY <1>4 DEF AfterRestart, LaterLooks
    <2>2. /\ reads' \in [Purposes -> Nat] /\ reads'.first = 1 /\ reads'.again = 0
          /\ reads'.late = reads.late + reads.first + reads.again /\ reads'.settle = reads.settle
      BY <2>1, RefreshedReads
    <2>3. WatchType'
      <3>1. retry' \in BOOLEAN /\ settling' \in BOOLEAN /\ failed' \in BOOLEAN /\ stopped' \in BOOLEAN
        BY <2>1 DEF WatchType
      <3>2. attempts' \in 0..MaxRetries /\ settles' \in 0..2 /\ restarts' \in 0..Restarts
        BY <1>0, <2>1 DEF WatchType
      <3> QED
        BY <2>1, <2>2, <3>1, <3>2 DEF WatchType
    <2>4. reads'.settle + settles' <= 2 * restarts'
      BY <1>0, <2>1, <2>2 DEF WatchInv, WatchType
    <2> QED
      BY <1>0, <2>1, <2>2, <2>3, <2>4 DEF WatchInv
  <1>5. CASE PathChanges
    <2>1. /\ (path = "none" \/ settling) /\ path' \in {"relay", "direct"}
          /\ UNCHANGED <<relayed, restarts, settling, reads, attempts, retry, settles, failed, stopped>>
      BY <1>5 DEF PathChanges
    <2>2. path' \in {"relay", "direct"}
      BY <1>5 DEF PathChanges
    <2>3. WatchType'
      BY <2>1, <2>2 DEF WatchType
    <2>4. reads.first + reads.again > 0 => reads["first"] > 0 \/ reads["again"] > 0
      BY <1>0
    <2>5. path = "none" \/ settling
      BY <1>5 DEF PathChanges
    <2> QED
      BY <2>1, <2>2, <2>3, <2>4, <2>5 DEF WatchInv, Purposes
  <1>6. CASE PathSettles
    BY <1>6 DEF PathSettles, WatchType, WatchInv
  <1>7. ASSUME NEW purpose \in Purposes, NEW ok \in BOOLEAN, ReadEnds(purpose, ok) PROVE Goal
    <2>1. /\ reads[purpose] > 0 /\ reads' = [reads EXCEPT ![purpose] = @ - 1]
          /\ UNCHANGED <<path, restarts, settling, attempts, settles, stopped>>
      BY <1>7 DEF ReadEnds
    <2>2. /\ reads' \in [Purposes -> Nat]
          /\ reads'.first = IF purpose = "first" THEN reads.first - 1 ELSE reads.first
          /\ reads'.again = IF purpose = "again" THEN reads.again - 1 ELSE reads.again
          /\ reads'.late = IF purpose = "late" THEN reads.late - 1 ELSE reads.late
          /\ reads'.settle = IF purpose = "settle" THEN reads.settle - 1 ELSE reads.settle
      BY <2>1 DEF WatchType, Purposes
    <2>3. CASE ok /\ path # "none"
      <3>1. failed' = FALSE /\ UNCHANGED retry /\ relayed' = IF stopped THEN relayed ELSE path
        BY <1>7, <2>3 DEF ReadEnds, SetRelayed
      <3>2. WatchType'
        BY <2>1, <2>2, <2>3, <3>1 DEF WatchType
      <3>3. /\ reads'.first + reads'.again + (IF retry' THEN 1 ELSE 0) <= 1 /\ reads'.late <= 1
            /\ reads'.settle + settles' <= 2 * restarts'
        BY <1>0, <2>1, <2>2, <3>1 DEF WatchInv, WatchType
      <3> QED
        BY <2>1, <2>3, <3>1, <3>2, <3>3 DEF WatchInv
    <2>4. CASE ~(ok /\ path # "none")
      <3>1. failed' = ~ok /\ retry' = (retry \/ (~stopped /\ purpose \in {"first", "again"})) /\ UNCHANGED relayed
        BY <1>7, <2>4 DEF ReadEnds
      <3>2. WatchType'
        BY <2>1, <2>2, <3>1 DEF WatchType
      <3>3. /\ reads'.first + reads'.again + (IF retry' THEN 1 ELSE 0) <= 1 /\ reads'.late <= 1
            /\ reads'.settle + settles' <= 2 * restarts'
        BY <1>0, <2>1, <2>2, <3>1 DEF WatchInv, WatchType
      <3>4. ASSUME ~stopped, path = "none" PROVE retry' \/ reads'.first + reads'.again > 0 \/ attempts = MaxRetries
        BY <2>2, <3>1, <3>4, <2>1, <1>0 DEF WatchInv
      <3>5. path = "none" \/ failed'
        BY <2>4, <3>1
      <3> QED
        BY <2>1, <3>2, <3>3, <3>4, <3>5 DEF WatchInv
    <2> QED
      BY <2>3, <2>4
  <1>8. CASE RetryFires
    <2>1. /\ retry /\ retry' = FALSE
          /\ UNCHANGED <<relayed, path, restarts, settling, settles, failed, stopped>>
      BY <1>8 DEF RetryFires
    <2>2. CASE attempts < MaxRetries
      <3>1. attempts' = attempts + 1 /\ reads' = [reads EXCEPT !.again = @ + 1]
        BY <1>8, <2>2 DEF RetryFires
      <3>2. /\ reads' \in [Purposes -> Nat] /\ reads'.first = reads.first /\ reads'.again = reads.again + 1
            /\ reads'.late = reads.late /\ reads'.settle = reads.settle
        BY <3>1 DEF WatchType, Purposes
      <3>3. WatchType'
        <4>1. retry' \in BOOLEAN /\ settling' \in BOOLEAN /\ failed' \in BOOLEAN /\ stopped' \in BOOLEAN
          BY <2>1 DEF WatchType
        <4>2. attempts' \in 0..MaxRetries
          BY <1>0, <2>2, <3>1 DEF WatchType
        <4> QED
          BY <2>1, <3>2, <4>1, <4>2 DEF WatchType
      <3>4. reads'["again"] > 0 /\ reads'.first + reads'.again > 0
        BY <1>0, <3>2
      <3>5. /\ reads'.first + reads'.again + (IF retry' THEN 1 ELSE 0) <= 1 /\ reads'.late <= 1
            /\ reads'.settle + settles' <= 2 * restarts'
        BY <1>0, <2>1, <3>2 DEF WatchInv
      <3> QED
        BY <2>1, <3>3, <3>4, <3>5 DEF WatchInv, Purposes
    <2>3. CASE ~(attempts < MaxRetries)
      <3>1. UNCHANGED <<attempts, reads>> /\ attempts = MaxRetries
        BY <1>0, <1>8, <2>3 DEF RetryFires, WatchType
      <3>2. WatchType'
        BY <2>1, <3>1 DEF WatchType
      <3> QED
        BY <1>0, <2>1, <3>1, <3>2 DEF WatchInv
    <2> QED
      BY <2>2, <2>3
  <1>9. CASE SettleFires
    <2>1. /\ settles > 0 /\ (settles = 1 => ~settling) /\ settles' = settles - 1
          /\ reads' = [reads EXCEPT !.settle = @ + 1]
          /\ UNCHANGED <<relayed, path, restarts, settling, attempts, retry, failed, stopped>>
      BY <1>9 DEF SettleFires
    <2>2. /\ reads' \in [Purposes -> Nat] /\ reads'.first = reads.first /\ reads'.again = reads.again
          /\ reads'.late = reads.late /\ reads'.settle = reads.settle + 1
      BY <2>1 DEF WatchType, Purposes
    <2>3. WatchType' /\ reads'["settle"] > 0 /\ (settling => settles' > 0)
      BY <1>0, <2>1, <2>2 DEF WatchType
    <2>4. reads'.settle + settles' <= 2 * restarts'
      BY <1>0, <2>1, <2>2 DEF WatchInv, WatchType
    <2> QED
      BY <2>1, <2>2, <2>3, <2>4 DEF WatchInv, Purposes
  <1>10. CASE StopWatch
    <2>1. stopped' = TRUE /\ retry' = FALSE /\ settles' = 0 /\ UNCHANGED <<relayed, path, restarts, settling, reads, attempts, failed>>
      BY <1>10 DEF StopWatch
    <2>2. WatchType'
      <3>1. retry' \in BOOLEAN /\ settling' \in BOOLEAN /\ failed' \in BOOLEAN /\ stopped' \in BOOLEAN
        BY <2>1 DEF WatchType
      <3> QED
        BY <2>1, <3>1 DEF WatchType
    <2>3. reads.settle + 0 <= 2 * restarts /\ reads.first + reads.again + 0 <= 1
      BY <1>0 DEF WatchInv, WatchType
    <2> QED
      BY <2>1, <2>2, <2>3 DEF WatchInv
  <1>11. CASE UNCHANGED pacingVars
    BY <1>1, <1>11 DEF pacingVars
  <1> QED
    BY <1>2, <1>3, <1>4, <1>5, <1>6, <1>7, <1>8, <1>9, <1>10, <1>11 DEF PacingNext

(***************************************************************************)
(* The pace                                                                *)
(***************************************************************************)

(* The part of TypeOK that the sender and its bucket are in.               *)
SenderType ==
  /\ tokens \in 0..Burst /\ spent \in 0..Burst \cup {None} /\ idle \in 0..MaxIdle
  /\ wanted \in Frames /\ held \in BOOLEAN /\ wait \in 0..Most(Unknown, CeilDiv(Burst, Rate)) \cup {Untimed, None}
  /\ turn \in BOOLEAN

LEMMA TypeParts == PacingTypeOK <=> SenderType /\ WatchType
  BY DEF PacingTypeOK, SenderType, WatchType

LEMMA SenderStep ==
  ASSUME PacingTypeOK, BucketInv, [PacingNext]_pacingVars PROVE SenderType' /\ BucketInv'
  <1> DEFINE Goal == SenderType' /\ BucketInv'
  <1> USE DEF bucket, sender, watch, pair
  <1>0. SenderType
    BY TypeParts
  <1>1. ASSUME UNCHANGED <<sender, relayed>> PROVE Goal
    BY <1>0, <1>1 DEF SenderType, BucketInv, Refilled
  <1>2. CASE Ask
    BY <1>2, BucketAsk DEF SenderType
  <1>3. ASSUME wait' = None, held' \in BOOLEAN, UNCHANGED <<tokens, spent, idle, wanted, turn, reference, relayed>>
        PROVE  Goal
    <2>1. None \notin Nat
      BY PacingAssumption
    <2> QED
      BY <1>0, <1>3, <2>1 DEF SenderType, BucketInv, Refilled
  <1>4. CASE Poke
    <2>1. held' \in BOOLEAN
      BY <1>4 DEF Poke
    <2> QED
      BY <1>3, <1>4, <2>1 DEF Poke
  <1>5. CASE Stir \/ Wakes
    <2>1. held' \in BOOLEAN
      BY <1>0, <1>5 DEF Stir, Wakes, SenderType
    <2> QED
      BY <1>3, <1>5, <2>1 DEF Stir, Wakes
  <1>6. CASE Tick
    <2>1. /\ BucketInv' /\ idle' \in 0..MaxIdle
          /\ wait' \in 0..Most(Unknown, CeilDiv(Burst, Rate)) \cup {Untimed, None}
      BY <1>6, BucketTick
    <2>2. UNCHANGED <<tokens, spent, wanted, held, turn>>
      BY <1>6 DEF Tick
    <2> QED
      BY <1>0, <2>1, <2>2 DEF SenderType
  <1>7. CASE Refresh \/ AfterRestart \/ PathChanges \/ PathSettles \/ RetryFires \/ SettleFires \/ StopWatch
    BY <1>1, <1>7 DEF Refresh, AfterRestart, PathChanges, PathSettles, RetryFires, SettleFires, StopWatch
  <1>8. ASSUME NEW purpose \in Purposes, NEW ok \in BOOLEAN, ReadEnds(purpose, ok) PROVE Goal
    <2>1. UNCHANGED <<tokens, wanted, held, wait, turn>>
      BY <1>8 DEF ReadEnds
    <2>2. CASE ok /\ path # "none" /\ ~stopped
      <3>1. SetRelayed(path) /\ path \in {"relay", "direct"}
        BY <1>8, <2>2 DEF ReadEnds, PacingTypeOK
      <3>2. BucketInv' /\ spent' \in 0..Burst \cup {None} /\ idle' \in 0..MaxIdle
        BY <2>1, <3>1, BucketSet
      <3> QED
        BY <1>0, <2>1, <3>2 DEF SenderType
    <2>3. CASE ~(ok /\ path # "none" /\ ~stopped)
      <3>1. UNCHANGED <<relayed, spent, idle, reference>>
        BY <1>8, <2>3 DEF ReadEnds
      <3> QED
        BY <1>1, <2>1, <3>1
    <2> QED
      BY <2>2, <2>3
  <1>9. CASE UNCHANGED pacingVars
    BY <1>1, <1>9 DEF pacingVars
  <1> QED
    BY <1>2, <1>4, <1>5, <1>6, <1>7, <1>8, <1>9 DEF PacingNext

Pace == PacingTypeOK /\ BucketInv /\ WatchInv

LEMMA PaceInit == PacingInit => Pace
  <1> SUFFICES ASSUME PacingInit PROVE Pace
    OBVIOUS
  <1>1. /\ Burst \in Nat \ {0} /\ MaxIdle \in Nat \ {0} /\ MaxRetries \in Nat \ {0} /\ Restarts \in Nat
        /\ None \notin Nat
    BY PacingAssumption
  <1>2. reads \in [Purposes -> Nat] /\ reads.first = 1 /\ reads.again = 0 /\ reads.late = 0 /\ reads.settle = 0
    BY DEF PacingInit, Purposes
  <1>3. held \in BOOLEAN /\ turn \in BOOLEAN /\ settling \in BOOLEAN /\ retry \in BOOLEAN /\ failed \in BOOLEAN
        /\ stopped \in BOOLEAN
    BY DEF PacingInit
  <1>4. PacingTypeOK
    BY <1>1, <1>2, <1>3 DEF PacingInit, PacingTypeOK
  <1>5. BucketInv
    BY <1>1 DEF PacingInit, BucketInv, Refilled
  <1>6. WatchInv
    <2>1. retry = FALSE /\ settling = FALSE /\ settles = 0 /\ restarts = 0
      BY DEF PacingInit
    <2>2. reads["first"] > 0 /\ "first" \in Purposes
      BY <1>2 DEF Purposes
    <2>3. \E p \in Purposes : reads[p] > 0
      BY <2>2
    <2> QED
      BY <1>2, <2>1, <2>3 DEF WatchInv
  <1> QED
    BY <1>4, <1>5, <1>6 DEF Pace

LEMMA PaceStep == Pace /\ [PacingNext]_pacingVars => Pace'
  <1> SUFFICES ASSUME Pace, [PacingNext]_pacingVars PROVE Pace'
    OBVIOUS
  <1>1. SenderType' /\ BucketInv'
    BY SenderStep DEF Pace
  <1>2. WatchType' /\ WatchInv'
    BY WatchStep, TypeParts DEF Pace
  <1>3. PacingTypeOK'
    BY <1>1, <1>2 DEF PacingTypeOK, SenderType, WatchType
  <1> QED
    BY <1>1, <1>2, <1>3 DEF Pace

(* A wait that has run out finds the frame allowed.                        *)
LEMMA Enough == Pace => RetryIsEnough
  <1> SUFFICES ASSUME Pace, wait = 0, Paced PROVE RateAllows >= wanted
    BY DEF RetryIsEnough
  <1>1. /\ Refilled \in 0..Burst /\ wanted \in 1..Burst /\ Least(wanted, Burst) = wanted
        /\ Burst \in Nat \ {0} /\ Rate \in Nat \ {0}
    BY Level, PacingAssumption DEF Pace
  <1>2. Refilled >= wanted
    <2>1. CASE spent = None
      BY <1>1, <2>1 DEF Refilled
    <2>2. CASE spent # None
      <3>1. wanted <= (tokens + (idle + 0) * Rate) - spent
        BY <2>2 DEF Pace, BucketInv
      <3>2. idle + 0 = idle
        BY PacingAssumption DEF Pace, PacingTypeOK
      <3> DEFINE level == (tokens + idle * Rate) - spent
      <3>3. wanted <= level
        BY <3>1, <3>2
      <3> HIDE DEF level
      <3>4. Refilled = Least(Burst, level)
        BY <2>2 DEF Refilled, level
      <3> QED
        BY <1>1, <3>3, <3>4 DEF Least
    <2> QED
      BY <2>1, <2>2
  <1> QED
    BY <1>1, <1>2 DEF RateAllows, Most

(* However the clock, the window, the acknowledgements and the path come:  *)
(* what is sent on a path that is relayed or not yet known stays within    *)
(* the bucket and the rate, a sender that waited as it was told may send,  *)
(* and with no look at the path due the rule is that of the path           *)
(* (createRatePacer, createPathPacing and watchPath of pacing.ts).         *)
THEOREM PaceAlwaysFits == PacingSpec => []PaceFits
  <1>1. ASSUME Pace PROVE PaceFits
    <2>1. WithinRate
      BY <1>1, Level, PacingAssumption DEF Pace, WithinRate
    <2>2. KnowsPath
      <3> SUFFICES ASSUME ~stopped, ~retry, settles = 0, ~settling, path # "none", \A p \in Purposes : reads[p] = 0
                   PROVE  relayed = path \/ failed \/ attempts = MaxRetries
        BY DEF KnowsPath
      <3>1. ~(settles > 0) /\ ~(\E p \in Purposes : reads[p] > 0)
        OBVIOUS
      <3> QED
        BY <1>1, <3>1 DEF Pace, WatchInv
    <2> QED
      BY <1>1, <2>1, <2>2, Enough DEF Pace, PaceFits
  <1> QED
    BY <1>1, PaceInit, PaceStep, PTL DEF PacingSpec
=============================================================================
