--------------------------- MODULE DirectDelivery ---------------------------
(***************************************************************************)
(* What a direct transfer promises the two people (session.ts 465-468,     *)
(* 726-730; the onEndSent hook, 337-341): the sender is told "arrived"     *)
(* only while the receiver has the file for good; before the receiver can  *)
(* keep anything, the sender has been warned that a later failure cannot   *)
(* say "nothing was kept".                                                 *)
(***************************************************************************)
VARIABLES
  told,    \* what the sender's call came to: waiting, arrived, failed
  file,    \* the receiver's side: none, kept, deleted
  warned   \* the sender's page knows the receiver may be keeping the file

vars == <<told, file, warned>>

Init == told = "waiting" /\ file = "none" /\ warned = FALSE

Warn == told = "waiting" /\ ~warned /\ warned' = TRUE /\ UNCHANGED <<told, file>>
Keep == file = "none" /\ warned /\ file' = "kept" /\ UNCHANGED <<told, warned>>
Delete == file = "none" /\ file' = "deleted" /\ UNCHANGED <<told, warned>>
Arrive == told = "waiting" /\ file = "kept" /\ told' = "arrived" /\ UNCHANGED <<file, warned>>
GiveUp == told = "waiting" /\ told' = "failed" /\ UNCHANGED <<file, warned>>

Next == Warn \/ Keep \/ Delete \/ Arrive \/ GiveUp

Spec == Init /\ [][Next]_vars
=============================================================================
