----------------------------- MODULE MCConsensus -----------------------------
(* A small network for TLC: the proposer of the block is fixed and the     *)
(* other nodes are interchangeable.                                        *)
EXTENDS Consensus, TLC

CONSTANTS n1, n2, n3, b1

OneBlock == [b \in {b1} |-> n1]

Voters == Permutations(Node \ {n1})
=============================================================================
