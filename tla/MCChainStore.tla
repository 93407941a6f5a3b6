---------------------------- MODULE MCChainStore ----------------------------
(* Two blocks above genesis that compete, and two generations above one of *)
(* them; the other has a child as well.                                    *)
EXTENDS ChainStore, TLC

CONSTANTS g, a1, a2, a3, b1, b2, w1, w2

MCParent == a1 :> g @@ a2 :> a1 @@ a3 :> a2 @@ b1 :> g @@ b2 :> b1
MCHeight == g :> 0 @@ a1 :> 1 @@ a2 :> 2 @@ a3 :> 3 @@ b1 :> 1 @@ b2 :> 2
=============================================================================
