-------------------------- MODULE MCDirectTransfer --------------------------
(* DirectTransfer on small envelopes.  The constants are in the cfg files. *)
EXTENDS DirectTransfer
=============================================================================
