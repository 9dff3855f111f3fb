---------------------------- MODULE MCRetrieving ----------------------------
(* Two handlers at once, stale ones included; one event with a torrent, a  *)
(* receipt of a pool and the one that a repair may extend it to, which the *)
(* form does not name.                                                     *)
EXTENDS Retrieving

OnePayload == [e \in Pools |-> "payload"]
=============================================================================
