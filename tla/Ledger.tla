------------------------------- MODULE Ledger -------------------------------
(***************************************************************************)
(* What a node's block store promises to the rest of the node: a chain of  *)
(* blocks that starts with genesis and grows by one child at a time, and   *)
(* in which no block is ever replaced.                                     *)
(***************************************************************************)
EXTENDS Integers

CONSTANTS Block, Genesis, Parent

VARIABLES
    height,   \* the height of the last block; -1 before genesis
    ledger    \* ledger[h]: the block at height h, for h in 0..height

Init ==
    /\ height = -1
    /\ ledger = [h \in 0..height |-> Genesis]

Extend(b) ==
    /\ IF height = -1 THEN b = Genesis ELSE b # Genesis /\ Parent[b] = ledger[height]
    /\ height' = height + 1
    /\ ledger' = [h \in 0..(height + 1) |-> IF h = height + 1 THEN b ELSE ledger[h]]

Next == \E b \in Block : Extend(b)

Spec == Init /\ [][Next]_<<height, ledger>>
=============================================================================
