--------------------------- MODULE MCDioneNetwork ---------------------------
(* Small networks for TLC: n1 mines b1 and n2 mines b2.                    *)
EXTENDS DioneNetwork, TLC

CONSTANTS n1, n2, n3, b1, b2, t1, g

OneBlock == b1 :> n1
TwoBlocks == (b1 :> n1) @@ (b2 :> n2)
SameStake == [n \in Node |-> 1000]
SameTime == [b \in Block |-> 1]

(* With equal stakes the two miners and their blocks are interchangeable.  *)
SwapMiners == {n1 :> n2 @@ n2 :> n1 @@ b1 :> b2 @@ b2 :> b1}
=============================================================================
