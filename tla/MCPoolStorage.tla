--------------------------- MODULE MCPoolStorage ----------------------------
(* PoolStorage with five nodes in three failure groups: n4 shares the      *)
(* group of n1; n5, which shares that of n2, may be added by a repair.     *)
EXTENDS PoolStorage, Erasure, TLC

CONSTANTS n1, n2, n3, n4, n5

MCGroup == n1 :> "a" @@ n2 :> "b" @@ n3 :> "c" @@ n4 :> "a" @@ n5 :> "b"
MCRanks == {<<n1, n2, n4, n3>>}
MCLayouts == {[mode |-> "replicas", required |-> 1, total |-> 1, copies |-> 2],
              [mode |-> "erasure", required |-> 2, total |-> 3, copies |-> 1]}
MCPayload == <<53, 202, 7>>

(* The code of Erasure keeps the promise that FetchFailsOnlyIfLost rests on. *)
ASSUME ErasureSuffices == AnyPartsSuffice
=============================================================================
