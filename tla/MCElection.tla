----------------------------- MODULE MCElection -----------------------------
(* Two miners with the smallest stake each, a chain of two blocks, a round *)
(* of the beacon, and draws that win never, a few times and as often as is *)
(* allowed.                                                                *)
EXTENDS Election

CONSTANTS p, q

MCAccount == {p, q}
MCHolding == [a \in MCAccount |-> 2]
MCSpare == [a \in MCAccount |-> 0]
MCAmount == {2}
MCRound == {1}
MCDraw == {0, 1000, 3000}
MCData == {<<>>, <<"task", "undecodable">>, <<"undecodable", "undecodable">>,
           <<"task", "unproven">>}
=============================================================================
