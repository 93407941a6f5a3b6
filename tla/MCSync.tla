------------------------------- MODULE MCSync -------------------------------
(* Calls that carry two blocks or two transactions; a chain of two full    *)
(* ranges; three transactions, so that one reply is full and one is not.   *)
EXTENDS Sync

CONSTANTS t1, t2, t3

MCTx == {t1, t2, t3}
=============================================================================
