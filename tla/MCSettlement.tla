---------------------------- MODULE MCSettlement ----------------------------
(* Three nodes with equal stakes; two of them propose, and their RPC calls *)
(* for the same request returned different data.                           *)
EXTENDS Settlement

CONSTANTS n1, n2, n3, x, y

MCAccount == {n1, n2, n3}
MCProposer == {n1, n2}
MCAnswer == {x, y}
MCPayload == [p \in MCProposer |-> [r \in Request |-> IF p = n1 THEN x ELSE y]]
MCHolding == [a \in MCAccount |-> 3]
MCSpare == [a \in MCAccount |-> IF a = n3 THEN 2 ELSE 3]
MCAmount == {3}
=============================================================================
