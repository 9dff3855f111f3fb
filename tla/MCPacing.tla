------------------------------ MODULE MCPacing ------------------------------
(* A bucket that fills in two units of time, and frames of a quarter and   *)
(* all of it; one restart while the first refresh may still be retrying.   *)
EXTENDS Pacing
=============================================================================
