------------------------------ MODULE MCRelays ------------------------------
(* Two relays; a trusted author with two lists of the same second and an   *)
(* older one, and a stranger.  The page has room for one service.          *)
EXTENDS Relays

MCEvents ==
  {[author |-> "ann", at |-> 0, id |-> 1, good |-> TRUE, origins |-> {"x"}],
   [author |-> "ann", at |-> 2, id |-> 3, good |-> TRUE, origins |-> {"x", "y"}],
   [author |-> "ann", at |-> 2, id |-> 2, good |-> TRUE, origins |-> {"y"}],
   [author |-> "eve", at |-> 3, id |-> 4, good |-> TRUE, origins |-> {"y"}]}
MCRelayList == <<"r1", "r2">>
MCTrusted == {"ann"}
MCWanted == CHOOSE e \in MCEvents : e.id = 1
=============================================================================
