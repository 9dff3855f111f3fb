---------------------------- MODULE MCCrossDevice ----------------------------
(* The two devices and a visitor, the blob and a second one; one slip.     *)
EXTENDS CrossDevice
=============================================================================
