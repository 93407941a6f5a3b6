------------------------------ MODULE WinCount ------------------------------
(***************************************************************************)
(* How many times a proposer wins a round (types/electionproof.go): the    *)
(* hash of its VRF proof, read as a number in [0, 1), is held against the  *)
(* upside-down CDF of the Poisson distribution with rate                   *)
(* lambda = stake * ExpectedLeadersPerEpoch / total stake.                 *)
(*                                                                         *)
(* The code computes with 256 binary places; these are the same steps with *)
(* 12, which is what TLC's integers carry.  \div rounds down as Rsh and    *)
(* Div of math/big do for a positive divisor.                              *)
(***************************************************************************)
EXTENDS Integers, Sequences

(* 2^precision, for precision = 12.                                        *)
One == 4096

ExpectedLeadersPerEpoch == 2
MaxWinCount == 10 * ExpectedLeadersPerEpoch

(* The coefficients of the code, times 2^-128, to 12 places: from the      *)
(* highest order to the lowest.                                            *)
expNumCoef == <<0, 0, 0, 1, -19, 213, -1392, 4096>>
expDenoCoef == <<0, 0, 0, 0, 0, 0, 0, 0, 3, 27, 180, 868, 2704, 4096>>

(* Horner's method.                                                        *)
polyval(p, x) ==
    LET res[i \in 1..Len(p)] == IF i = 1 THEN p[1] ELSE ((res[i - 1] * x) \div One) + p[i]
    IN  res[Len(p)]

expneg(x) == (polyval(expNumCoef, x) * One) \div polyval(expDenoCoef, x)

(* A division by zero if nothing is staked.                                *)
lambda(power, totalPower) == (power * ExpectedLeadersPerEpoch * One) \div totalPower

(* The probability of k wins, and that of more than k wins.                *)
poiss == [k : Nat, pmf : Int, icdf : Int]

newPoiss(lam) == [k |-> 0, pmf |-> expneg(lam), icdf |-> One - expneg(lam)]

(* The same for k + 1, from the ones for k.                                *)
next(p, lam) ==
    LET k == p.k + 1
        pmf == ((p.pmf \div k) * lam) \div One
    IN  [k |-> k, pmf |-> pmf, icdf |-> p.icdf - pmf]

MutNoLimit(lhs, power, totalPower) ==
    LET lam == lambda(power, totalPower)
        loop[p \in poiss] ==
            IF lhs < p.icdf /\ p.k < 2 * MaxWinCount THEN loop[next(p, lam)] ELSE p.k
    IN  loop[newPoiss(lam)]

(* The steps down the distribution until lhs is not below it, or until     *)
(* there are as many as are allowed.                                       *)
ComputeWinCount(lhs, power, totalPower) ==
    LET lam == lambda(power, totalPower)
        loop[p \in poiss] ==
            IF lhs < p.icdf /\ p.k < MaxWinCount THEN loop[next(p, lam)] ELSE p.k
    IN  loop[newPoiss(lam)]
=============================================================================
