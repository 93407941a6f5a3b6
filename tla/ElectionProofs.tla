--------------------------- MODULE ElectionProofs ---------------------------
(***************************************************************************)
(* Proofs about the election of a proposer and the validation of its       *)
(* block, for any stakes, draws, rounds and lists of transactions.         *)
(***************************************************************************)
EXTENDS Election, StakingProofs

(* The backends a leaf is tried with, in this order, unless it names one.  *)
USE SMTT(60), Z3T(60), ZenonT(60)

-----------------------------------------------------------------------------
(* The win count is a number.                                              *)

LEMMA CountUp ==
    ASSUME NEW T \in SUBSET Nat, 0 \in T, \A n \in Nat : n \in T => n + 1 \in T
    PROVE  \A n \in Nat : n \in T
<1> SUFFICES ASSUME NEW n \in Nat, n \notin T PROVE FALSE
  OBVIOUS
<1> DEFINE U == {k \in Nat : k \notin T}
<1>1. U \in SUBSET Nat /\ U # {}
  OBVIOUS
<1>2. PICK m \in U : \A k \in Nat : k < m => k \notin U
  BY ZenonT(60), <1>1, LeastNumber
<1>3. m - 1 \in Nat /\ m - 1 < m /\ (m - 1) + 1 = m
  BY <1>1, <1>2
<1> QED BY ZenonT(60), <1>2, <1>3

(* What the recursion behind polyval defines, for the first n places.      *)
Horner(f, p, x, n) ==
    f = [i \in 1..n |-> IF i = 1 THEN p[1] ELSE ((f[i - 1] * x) \div One) + p[i]]

LEMMA HornerExists ==
    ASSUME NEW p, NEW x
    PROVE  \A n \in Nat : \E f : Horner(f, p, x, n)
<1> DEFINE T == {n \in Nat : \E f : Horner(f, p, x, n)}
<1>1. 0 \in T
  <2> DEFINE f == [i \in 1..0 |-> 0]
  <2>1. Horner(f, p, x, 0)
    BY DEF Horner
  <2> QED BY ZenonT(60), <2>1
<1>2. ASSUME NEW n \in Nat, n \in T PROVE n + 1 \in T
  <2>1. PICK f : Horner(f, p, x, n)
    BY ZenonT(60), <1>2
  <2> DEFINE g == [i \in 1..(n + 1) |-> IF i = 1 THEN p[1] ELSE ((f[i - 1] * x) \div One) + p[i]]
  <2>2. \A i \in 1..n : i \in 1..(n + 1)
    OBVIOUS
  <2>3. \A i \in 1..(n + 1) : i # 1 => i - 1 \in 1..n
    OBVIOUS
  <2>4. \A i \in 1..n : g[i] = f[i]
    BY ZenonT(60), <2>1, <2>2 DEF Horner
  <2>5. Horner(g, p, x, n + 1)
    BY ZenonT(60), <2>3, <2>4 DEF Horner
  <2>6. n + 1 \in Nat
    OBVIOUS
  <2> QED BY ZenonT(60), <2>5, <2>6
<1>3. T \in SUBSET Nat
  OBVIOUS
<1> HIDE DEF T
<1>4. \A n \in Nat : n \in T
  BY ZenonT(60), <1>1, <1>2, <1>3, CountUp
<1> USE DEF T
<1> QED BY ZenonT(60), <1>4

LEMMA PolyvalIs ==
    ASSUME NEW p, NEW x, Len(p) \in Nat
    PROVE  \E f : Horner(f, p, x, Len(p)) /\ polyval(p, x) = f[Len(p)]
<1> DEFINE f == CHOOSE g : g = [i \in 1..Len(p) |->
                                  IF i = 1 THEN p[1] ELSE ((g[i - 1] * x) \div One) + p[i]]
<1>1. Horner(f, p, x, Len(p))
  <2>1. \E g : Horner(g, p, x, Len(p))
    BY ZenonT(60), HornerExists
  <2> QED BY ZenonT(60), <2>1 DEF Horner
<1>2. polyval(p, x) = f[Len(p)]
  BY DEF polyval
<1> QED BY ZenonT(60), <1>1, <1>2

(* A polynomial is a number; with coefficients and an argument that are    *)
(* not negative it is not less than its last coefficient.                  *)
LEMMA PolyvalInt ==
    ASSUME NEW p \in Seq(Int), NEW x \in Int, p # <<>>
    PROVE  polyval(p, x) \in Int
<1>1. Len(p) \in Nat /\ Len(p) >= 1 /\ \A i \in 1..Len(p) : p[i] \in Int
  OBVIOUS
<1>2. PICK f : Horner(f, p, x, Len(p)) /\ polyval(p, x) = f[Len(p)]
  BY ZenonT(60), <1>1, PolyvalIs
<1>3. \A i \in 1..Len(p) : f[i] = IF i = 1 THEN p[1] ELSE ((f[i - 1] * x) \div One) + p[i]
  BY ZenonT(60), <1>2 DEF Horner
<1> DEFINE T == {n \in Nat : n + 1 <= Len(p) => f[n + 1] \in Int}
<1>4. 0 \in T
  BY <1>1, <1>3
<1>5. ASSUME NEW n \in Nat, n \in T PROVE n + 1 \in T
  <2> SUFFICES ASSUME n + 1 + 1 <= Len(p) PROVE f[n + 1 + 1] \in Int
    OBVIOUS
  <2>1. f[n + 1] \in Int
    BY <1>1, <1>5
  <2>2. f[n + 1 + 1] = ((f[n + 1] * x) \div One) + p[n + 1 + 1]
    BY <1>1, <1>3
  <2>3. p[n + 1 + 1] \in Int
    BY <1>1
  <2> QED BY <2>1, <2>2, <2>3 DEF One
<1>6. T \in SUBSET Nat
  OBVIOUS
<1> HIDE DEF T
<1>7. \A n \in Nat : n \in T
  BY ZenonT(60), <1>4, <1>5, <1>6, CountUp
<1>8. Len(p) - 1 \in T
  BY <1>1, <1>7
<1> USE DEF T
<1>9. f[Len(p)] \in Int
  BY <1>1, <1>8
<1> QED BY ZenonT(60), <1>2, <1>9

LEMMA PolyvalNat ==
    ASSUME NEW p \in Seq(Nat), NEW x \in Nat, p # <<>>
    PROVE  polyval(p, x) \in Nat /\ polyval(p, x) >= p[Len(p)]
<1>1. Len(p) \in Nat /\ Len(p) >= 1 /\ \A i \in 1..Len(p) : p[i] \in Nat
  OBVIOUS
<1>2. PICK f : Horner(f, p, x, Len(p)) /\ polyval(p, x) = f[Len(p)]
  BY ZenonT(60), <1>1, PolyvalIs
<1>3. \A i \in 1..Len(p) : f[i] = IF i = 1 THEN p[1] ELSE ((f[i - 1] * x) \div One) + p[i]
  BY ZenonT(60), <1>2 DEF Horner
<1> DEFINE T == {n \in Nat : n + 1 <= Len(p) => f[n + 1] \in Nat /\ f[n + 1] >= p[n + 1]}
<1>4. 0 \in T
  BY <1>1, <1>3
<1>5. ASSUME NEW n \in Nat, n \in T PROVE n + 1 \in T
  <2> SUFFICES ASSUME n + 1 + 1 <= Len(p)
               PROVE  f[n + 1 + 1] \in Nat /\ f[n + 1 + 1] >= p[n + 1 + 1]
    OBVIOUS
  <2>1. f[n + 1] \in Nat
    BY <1>1, <1>5
  <2>2. f[n + 1 + 1] = ((f[n + 1] * x) \div One) + p[n + 1 + 1]
    BY <1>1, <1>3
  <2>3. p[n + 1 + 1] \in Nat
    BY <1>1
  <2>4. PICK y \in Nat : y = f[n + 1] * x
    BY <2>1
  <2>5. y \div One \in Nat
    BY DEF One
  <2> QED BY <2>2, <2>3, <2>4, <2>5
<1>6. T \in SUBSET Nat
  OBVIOUS
<1> HIDE DEF T
<1>7. \A n \in Nat : n \in T
  BY ZenonT(60), <1>4, <1>5, <1>6, CountUp
<1>8. Len(p) - 1 \in T
  BY <1>1, <1>7
<1> USE DEF T
<1>9. f[Len(p)] \in Nat /\ f[Len(p)] >= p[Len(p)]
  BY <1>1, <1>8
<1> QED BY ZenonT(60), <1>2, <1>9

LEMMA ExpnegInt == ASSUME NEW x \in Nat PROVE expneg(x) \in Int
<1>1. expNumCoef \in Seq(Int) /\ expNumCoef # <<>>
  BY DEF expNumCoef
<1>2. expDenoCoef \in Seq(Nat) /\ expDenoCoef # <<>>
  BY DEF expDenoCoef
<1>3. expDenoCoef[Len(expDenoCoef)] >= 1
  BY DEF expDenoCoef
<1>4. x \in Int
  OBVIOUS
<1>5. PICK n \in Int : n = polyval(expNumCoef, x)
  BY ZenonT(60), <1>1, <1>4, PolyvalInt
<1>6. polyval(expDenoCoef, x) \in Nat /\ polyval(expDenoCoef, x) >= expDenoCoef[Len(expDenoCoef)]
  BY ZenonT(60), <1>2, PolyvalNat
<1>7. expDenoCoef[Len(expDenoCoef)] \in Nat
  BY <1>2
<1>8. PICK d \in Nat : d = polyval(expDenoCoef, x) /\ d >= 1
  BY <1>3, <1>6, <1>7
<1>9. (n * One) \div d \in Int
  BY <1>8 DEF One
<1> QED BY ZenonT(60), <1>5, <1>8, <1>9 DEF expneg

LEMMA LambdaNat ==
    ASSUME NEW power \in Nat, NEW totalPower \in Nat, totalPower # 0
    PROVE  lambda(power, totalPower) \in Nat
<1>1. PICK y \in Nat : y = power * ExpectedLeadersPerEpoch * One
  BY DEF ExpectedLeadersPerEpoch, One
<1>2. y \div totalPower \in Nat
  OBVIOUS
<1> QED BY ZenonT(60), <1>1, <1>2 DEF lambda

LEMMA PoissTypes ==
    ASSUME NEW lam \in Nat
    PROVE  /\ newPoiss(lam) \in poiss /\ newPoiss(lam).k = 0
           /\ \A p \in poiss : next(p, lam) \in poiss /\ next(p, lam).k = p.k + 1
<1>1. PICK e \in Int : e = expneg(lam)
  BY ZenonT(60), ExpnegInt
<1>2. newPoiss(lam) = [k |-> 0, pmf |-> e, icdf |-> One - e]
  BY ZenonT(60), <1>1 DEF newPoiss
<1>3. newPoiss(lam) \in poiss /\ newPoiss(lam).k = 0
  BY <1>2 DEF poiss, One
<1>4. ASSUME NEW p \in poiss PROVE next(p, lam) \in poiss /\ next(p, lam).k = p.k + 1
  <2>1. p.k \in Nat /\ p.pmf \in Int /\ p.icdf \in Int
    BY DEF poiss
  <2>2. PICK q \in Int : q = p.pmf \div (p.k + 1)
    BY <2>1
  <2>3. PICK m \in Int : m = (q * lam) \div One
    BY DEF One
  <2>4. next(p, lam) = [k |-> p.k + 1, pmf |-> m, icdf |-> p.icdf - m]
    BY ZenonT(60), <2>2, <2>3 DEF next
  <2> QED BY <2>1, <2>4 DEF poiss
<1> QED BY ZenonT(60), <1>3, <1>4

(* One turn of the loop of ComputeWinCount.                                *)
Body(f, lhs, lam, p) ==
    IF lhs < p.icdf /\ p.k < MaxWinCount THEN f[next(p, lam)] ELSE p.k

LEMMA LoopExists ==
    ASSUME NEW lhs, NEW lam \in Nat
    PROVE  \E f : f = [p \in poiss |-> Body(f, lhs, lam, p)]
<1> DEFINE Late(n) == {p \in poiss : p.k + n >= MaxWinCount}
           T == {n \in Nat : \E f : \A p \in Late(n) : f[p] = Body(f, lhs, lam, p)}
<1>0. MaxWinCount \in Nat /\ \A p \in poiss : p.k \in Nat
  BY DEF MaxWinCount, ExpectedLeadersPerEpoch, poiss
<1>1. 0 \in T
  <2> DEFINE f == [p \in poiss |-> p.k]
  <2>1. \A p \in Late(0) : ~(p.k < MaxWinCount) /\ p \in poiss
    BY <1>0
  <2>2. \A p \in Late(0) : f[p] = Body(f, lhs, lam, p)
    BY ZenonT(60), <2>1 DEF Body
  <2>3. 0 \in Nat
    OBVIOUS
  <2> QED BY ZenonT(60), <2>2, <2>3
<1>2. ASSUME NEW n \in Nat, n \in T PROVE n + 1 \in T
  <2>1. PICK f : \A p \in Late(n) : f[p] = Body(f, lhs, lam, p)
    BY ZenonT(60), <1>2
  <2> DEFINE g == [p \in poiss |-> Body(f, lhs, lam, p)]
  <2>2. \A p \in Late(n + 1) :
           p \in poiss /\ (p.k < MaxWinCount => next(p, lam) \in Late(n) /\ next(p, lam) \in poiss)
    BY <1>0, PoissTypes
  <2> HIDE DEF Late
  <2>3. \A p \in Late(n) : p \in poiss
    BY DEF Late
  <2>4. \A p \in Late(n) : g[p] = f[p]
    BY ZenonT(60), <2>1, <2>3
  <2>5. \A p \in Late(n + 1) : g[p] = Body(g, lhs, lam, p)
    BY ZenonT(60), <2>2, <2>4 DEF Body
  <2>6. n + 1 \in Nat
    OBVIOUS
  <2> QED BY ZenonT(60), <2>5, <2>6
<1>3. T \in SUBSET Nat
  OBVIOUS
<1>4. MaxWinCount \in T
  <2> HIDE DEF T
  <2> QED BY ZenonT(60), <1>0, <1>1, <1>2, <1>3, CountUp
<1>5. PICK f : \A p \in Late(MaxWinCount) : f[p] = Body(f, lhs, lam, p)
  BY ZenonT(60), <1>4
<1>6. \A p \in poiss : p \in Late(MaxWinCount)
  BY <1>0
<1>7. \A p \in poiss : next(p, lam) \in poiss
  BY ZenonT(60), PoissTypes
<1> DEFINE g == [p \in poiss |-> f[p]]
<1> HIDE DEF Late
<1>8. \A p \in poiss : Body(g, lhs, lam, p) = Body(f, lhs, lam, p)
  BY ZenonT(60), <1>7 DEF Body
<1>9. g = [p \in poiss |-> Body(g, lhs, lam, p)]
  BY ZenonT(60), <1>5, <1>6, <1>8
<1> QED BY ZenonT(60), <1>9

LEMMA LoopBound ==
    ASSUME NEW lhs, NEW lam \in Nat, NEW f, f = [p \in poiss |-> Body(f, lhs, lam, p)]
    PROVE  \A p \in poiss : p.k <= MaxWinCount => f[p] \in 0..MaxWinCount
<1> DEFINE T == {n \in Nat : \A p \in poiss :
                    p.k <= MaxWinCount /\ p.k + n >= MaxWinCount => f[p] \in 0..MaxWinCount}
<1>0. MaxWinCount \in Nat /\ \A p \in poiss : p.k \in Nat
  BY DEF MaxWinCount, ExpectedLeadersPerEpoch, poiss
<1>1. \A p \in poiss : f[p] = p.k \/ (p.k < MaxWinCount /\ f[p] = f[next(p, lam)])
  BY ZenonT(60) DEF Body
<1>2. 0 \in T
  BY <1>0, <1>1
<1>3. ASSUME NEW n \in Nat, n \in T PROVE n + 1 \in T
  <2> SUFFICES ASSUME NEW p \in poiss, p.k <= MaxWinCount, p.k + (n + 1) >= MaxWinCount
               PROVE  f[p] \in 0..MaxWinCount
    OBVIOUS
  <2>1. CASE f[p] = p.k
    BY <1>0, <2>1
  <2>2. CASE p.k < MaxWinCount /\ f[p] = f[next(p, lam)]
    <3>1. next(p, lam) \in poiss /\ next(p, lam).k = p.k + 1
      BY ZenonT(60), PoissTypes
    <3>2. next(p, lam).k <= MaxWinCount /\ next(p, lam).k + n >= MaxWinCount
      BY <1>0, <2>2, <3>1
    <3> QED BY ZenonT(60), <1>3, <2>2, <3>1, <3>2
  <2> QED BY ZenonT(60), <1>1, <2>1, <2>2
<1>4. T \in SUBSET Nat
  OBVIOUS
<1>5. MaxWinCount \in T
  <2> HIDE DEF T
  <2> QED BY ZenonT(60), <1>0, <1>2, <1>3, <1>4, CountUp
<1> QED BY <1>0, <1>5

(* What the recursion of ComputeWinCount defines.                          *)
Loop(lhs, lam) == CHOOSE f : f = [p \in poiss |-> Body(f, lhs, lam, p)]

LEMMA LoopIs ==
    ASSUME NEW lhs, NEW lam \in Nat
    PROVE  Loop(lhs, lam) = [p \in poiss |-> Body(Loop(lhs, lam), lhs, lam, p)]
BY ZenonT(60), LoopExists DEF Loop

LEMMA WinCountIs ==
    ASSUME NEW lhs, NEW power, NEW totalPower
    PROVE  ComputeWinCount(lhs, power, totalPower)
               = Loop(lhs, lambda(power, totalPower))[newPoiss(lambda(power, totalPower))]
BY DEF ComputeWinCount, Body, Loop

(* Whoever has a stake of any size, a win count is at most MaxWinCount,    *)
(* and never anything but a number, since neither the denominator of       *)
(* expneg nor the total is zero (ComputeWinCount, electionproof.go).       *)
THEOREM WinCountBounded ==
    ASSUME NEW lhs, NEW power \in Nat, NEW totalPower \in Nat, totalPower # 0
    PROVE  ComputeWinCount(lhs, power, totalPower) \in 0..MaxWinCount
<1>1. PICK lam \in Nat : lam = lambda(power, totalPower)
  BY ZenonT(60), LambdaNat
<1> DEFINE f == Loop(lhs, lam)
<1>2. f = [p \in poiss |-> Body(f, lhs, lam, p)]
  BY ZenonT(60), LoopIs
<1>3. ComputeWinCount(lhs, power, totalPower) = f[newPoiss(lam)]
  BY ZenonT(60), <1>1, WinCountIs
<1> HIDE DEF f
<1>4. newPoiss(lam) \in poiss /\ newPoiss(lam).k <= MaxWinCount
  BY PoissTypes DEF MaxWinCount, ExpectedLeadersPerEpoch
<1>5. f[newPoiss(lam)] \in 0..MaxWinCount
  BY ZenonT(60), <1>2, <1>4, LoopBound
<1> QED BY ZenonT(60), <1>3, <1>5

(* The distribution with rate lam, from no win to MaxWinCount wins.        *)
Distribution(g, lam) ==
    /\ g[0] = newPoiss(lam)
    /\ \A k \in 0..(MaxWinCount - 1) : g[k + 1] = next(g[k], lam)

LEMMA DistributionExists ==
    ASSUME NEW lam \in Nat
    PROVE  \E g : Distribution(g, lam)
<1> DEFINE T == {n \in Nat : \E g : /\ g[0] = newPoiss(lam)
                                    /\ \A k \in 0..(n - 1) : g[k + 1] = next(g[k], lam)}
<1>1. 0 \in T
  <2> DEFINE g == [i \in Nat |-> newPoiss(lam)]
  <2>1. g[0] = newPoiss(lam) /\ \A k \in 0..(0 - 1) : g[k + 1] = next(g[k], lam)
    OBVIOUS
  <2> QED BY ZenonT(60), <2>1
<1>2. ASSUME NEW n \in Nat, n \in T PROVE n + 1 \in T
  <2>1. PICK g : g[0] = newPoiss(lam) /\ \A k \in 0..(n - 1) : g[k + 1] = next(g[k], lam)
    BY ZenonT(60), <1>2
  <2> DEFINE h == [i \in Nat |-> IF i = n + 1 THEN next(g[n], lam) ELSE g[i]]
  <2>2. \A i \in 0..n : i \in Nat /\ i # n + 1 /\ i + 1 \in Nat
    OBVIOUS
  <2>3. \A i \in 0..n : h[i] = g[i]
    BY ZenonT(60), <2>2
  <2>4. ASSUME NEW k \in 0..(n + 1 - 1) PROVE h[k + 1] = next(h[k], lam)
    <3>1. k \in 0..n /\ k + 1 \in Nat
      OBVIOUS
    <3>2. CASE k = n
      BY ZenonT(60), <2>3, <3>1, <3>2
    <3>3. CASE k # n
      <4>1. k \in 0..(n - 1) /\ k + 1 # n + 1
        BY <3>3
      <4> QED BY ZenonT(60), <2>1, <2>3, <3>1, <4>1
    <3> QED BY ZenonT(60), <3>2, <3>3
  <2>5. 0 \in 0..n /\ n + 1 \in Nat
    OBVIOUS
  <2>6. h[0] = newPoiss(lam)
    BY ZenonT(60), <2>1, <2>3, <2>5
  <2>7. \E e : e[0] = newPoiss(lam) /\ \A k \in 0..(n + 1 - 1) : e[k + 1] = next(e[k], lam)
    <3> HIDE DEF h
    <3>1. WITNESS h
    <3> QED BY <2>4, <2>6
  <2> QED BY <2>5, <2>7
<1>3. T \in SUBSET Nat
  OBVIOUS
<1>4. MaxWinCount \in Nat
  BY DEF MaxWinCount, ExpectedLeadersPerEpoch
<1>5. MaxWinCount \in T
  <2> HIDE DEF T
  <2> QED BY ZenonT(60), <1>1, <1>2, <1>3, <1>4, CountUp
<1> QED BY ZenonT(60), <1>5 DEF Distribution

LEMMA DistributionTypes ==
    ASSUME NEW lam \in Nat, NEW g, Distribution(g, lam)
    PROVE  \A k \in 0..MaxWinCount : g[k] \in poiss /\ g[k].k = k
<1> DEFINE T == {n \in Nat : n <= MaxWinCount => g[n] \in poiss /\ g[n].k = n}
<1>0. MaxWinCount \in Nat
  BY DEF MaxWinCount, ExpectedLeadersPerEpoch
<1>1. 0 \in T
  <2>1. g[0] \in poiss /\ g[0].k = 0
    BY ZenonT(60), PoissTypes DEF Distribution
  <2> QED BY <2>1
<1>2. ASSUME NEW n \in Nat, n \in T PROVE n + 1 \in T
  <2> SUFFICES ASSUME n + 1 <= MaxWinCount PROVE g[n + 1] \in poiss /\ g[n + 1].k = n + 1
    OBVIOUS
  <2>1. n \in 0..(MaxWinCount - 1) /\ g[n] \in poiss /\ g[n].k = n
    BY <1>0, <1>2
  <2>2. g[n + 1] = next(g[n], lam)
    BY ZenonT(60), <2>1 DEF Distribution
  <2> QED BY ZenonT(60), <2>1, <2>2, PoissTypes
<1>3. T \in SUBSET Nat
  OBVIOUS
<1> HIDE DEF T
<1>4. \A n \in Nat : n \in T
  BY ZenonT(60), <1>1, <1>2, <1>3, CountUp
<1> USE DEF T
<1> QED BY <1>0, <1>4

(* w is the first place of the distribution, from k on, that the draw is   *)
(* not below, or the last place there is.                                  *)
FirstPlace(g, lhs, k, w) ==
    /\ w \in k..MaxWinCount
    /\ \A i \in k..(w - 1) : lhs < g[i].icdf
    /\ w = MaxWinCount \/ ~(lhs < g[w].icdf)

LEMMA LoopFindsFirst ==
    ASSUME NEW lhs, NEW lam \in Nat, NEW f, f = [p \in poiss |-> Body(f, lhs, lam, p)],
           NEW g, Distribution(g, lam)
    PROVE  \A k \in 0..MaxWinCount : FirstPlace(g, lhs, k, f[g[k]])
<1> DEFINE T == {n \in Nat : \A k \in 0..MaxWinCount :
                    k + n >= MaxWinCount => FirstPlace(g, lhs, k, f[g[k]])}
<1>0. MaxWinCount \in Nat
  BY DEF MaxWinCount, ExpectedLeadersPerEpoch
<1>1. \A k \in 0..MaxWinCount : g[k] \in poiss /\ g[k].k = k
  BY ZenonT(60), DistributionTypes
<1>2. \A k \in 0..MaxWinCount :
         f[g[k]] = IF lhs < g[k].icdf /\ k < MaxWinCount THEN f[next(g[k], lam)] ELSE k
  <2> SUFFICES ASSUME NEW k \in 0..MaxWinCount
               PROVE  f[g[k]] = IF lhs < g[k].icdf /\ k < MaxWinCount
                                THEN f[next(g[k], lam)] ELSE k
    OBVIOUS
  <2>1. g[k] \in poiss /\ g[k].k = k
    BY ZenonT(60), <1>1
  <2>2. f[g[k]] = Body(f, lhs, lam, g[k])
    BY ZenonT(60), <2>1
  <2> QED BY ZenonT(60), <2>1, <2>2 DEF Body
<1>3. ASSUME NEW k \in 0..MaxWinCount, ~(lhs < g[k].icdf) \/ k = MaxWinCount
      PROVE  FirstPlace(g, lhs, k, f[g[k]])
  <2>1. ~(lhs < g[k].icdf /\ k < MaxWinCount)
    BY <1>0, <1>3
  <2>2. f[g[k]] = k
    BY ZenonT(60), <1>2, <2>1
  <2>3. k \in k..MaxWinCount /\ k..(k - 1) = {}
    BY <1>0
  <2> QED BY ZenonT(60), <1>3, <2>2, <2>3 DEF FirstPlace
<1>4. 0 \in T
  <2> SUFFICES ASSUME NEW k \in 0..MaxWinCount, k + 0 >= MaxWinCount
               PROVE  FirstPlace(g, lhs, k, f[g[k]])
    OBVIOUS
  <2>1. k = MaxWinCount
    BY <1>0
  <2> QED BY ZenonT(60), <1>3, <2>1
<1>5. ASSUME NEW n \in Nat, n \in T PROVE n + 1 \in T
  <2> SUFFICES ASSUME NEW k \in 0..MaxWinCount, k + (n + 1) >= MaxWinCount
               PROVE  FirstPlace(g, lhs, k, f[g[k]])
    OBVIOUS
  <2>1. CASE lhs < g[k].icdf /\ k # MaxWinCount
    <3>1. k < MaxWinCount /\ k \in 0..(MaxWinCount - 1) /\ k + 1 \in 0..MaxWinCount
                          /\ (k + 1) + n >= MaxWinCount
      BY <1>0, <2>1
    <3>2. g[k + 1] = next(g[k], lam)
      BY ZenonT(60), <3>1 DEF Distribution
    <3>3. PICK w : w = f[g[k]]
      OBVIOUS
    <3>4. w = f[g[k + 1]]
      BY ZenonT(60), <1>2, <2>1, <3>1, <3>2, <3>3
    <3>5. FirstPlace(g, lhs, k + 1, w)
      BY ZenonT(60), <1>5, <3>1, <3>4
    <3>6. w \in (k + 1)..MaxWinCount /\ \A i \in (k + 1)..(w - 1) : lhs < g[i].icdf
      BY ZenonT(60), <3>5 DEF FirstPlace
    <3>7. w \in k..MaxWinCount /\ \A i \in k..(w - 1) : i = k \/ i \in (k + 1)..(w - 1)
      BY <1>0, <3>6
    <3>8. \A i \in k..(w - 1) : lhs < g[i].icdf
      BY ZenonT(60), <2>1, <3>6, <3>7
    <3> QED BY ZenonT(60), <3>3, <3>5, <3>7, <3>8 DEF FirstPlace
  <2> QED BY ZenonT(60), <1>3, <2>1
<1>6. T \in SUBSET Nat
  OBVIOUS
<1>7. MaxWinCount \in T
  <2> HIDE DEF T
  <2> QED BY ZenonT(60), <1>0, <1>4, <1>5, <1>6, CountUp
<1> QED BY <1>0, <1>7

(* The loop of ComputeWinCount computes what the Poisson distribution says *)
(* a draw wins: the least count that the draw is not below, among those    *)
(* up to MaxWinCount (electionproof.go).                                   *)
THEOREM WinCountIsLeast ==
    ASSUME NEW lhs, NEW power \in Nat, NEW totalPower \in Nat, totalPower # 0,
           NEW g, Distribution(g, lambda(power, totalPower))
    PROVE  FirstPlace(g, lhs, 0, ComputeWinCount(lhs, power, totalPower))
<1>1. PICK lam \in Nat : lam = lambda(power, totalPower)
  BY ZenonT(60), LambdaNat
<1> DEFINE f == Loop(lhs, lam)
<1>2. f = [p \in poiss |-> Body(f, lhs, lam, p)]
  BY ZenonT(60), LoopIs
<1>3. ComputeWinCount(lhs, power, totalPower) = f[newPoiss(lam)]
  BY ZenonT(60), <1>1, WinCountIs
<1> HIDE DEF f
<1>4. Distribution(g, lam) /\ g[0] = newPoiss(lam)
  BY ZenonT(60), <1>1 DEF Distribution
<1>5. 0 \in 0..MaxWinCount
  BY DEF MaxWinCount, ExpectedLeadersPerEpoch
<1>6. \A k \in 0..MaxWinCount : FirstPlace(g, lhs, k, f[g[k]])
  BY <1>2, <1>4, LoopFindsFirst
<1>7. FirstPlace(g, lhs, 0, f[g[0]])
  BY ZenonT(60), <1>5, <1>6
<1> QED BY ZenonT(60), <1>3, <1>4, <1>7

(* A smaller hash never wins less: of two draws with the same stake and    *)
(* total, the smaller one has at least the wins of the larger              *)
(* (ComputeWinCount, electionproof.go).                                    *)
THEOREM SmallerDrawWinsMore ==
    ASSUME NEW l \in Nat, NEW m \in Nat, l <= m,
           NEW power \in Nat, NEW totalPower \in Nat, totalPower # 0
    PROVE  ComputeWinCount(l, power, totalPower) >= ComputeWinCount(m, power, totalPower)
<1>1. lambda(power, totalPower) \in Nat
  BY ZenonT(60), LambdaNat
<1>2. PICK g : Distribution(g, lambda(power, totalPower))
  BY ZenonT(60), <1>1, DistributionExists
<1>3. PICK v : v = ComputeWinCount(l, power, totalPower)
  OBVIOUS
<1>4. PICK w : w = ComputeWinCount(m, power, totalPower)
  OBVIOUS
<1>5. FirstPlace(g, l, 0, v)
  BY ZenonT(60), <1>2, <1>3, WinCountIsLeast
<1>6. FirstPlace(g, m, 0, w)
  BY ZenonT(60), <1>2, <1>4, WinCountIsLeast
<1>7. MaxWinCount \in Nat
  BY DEF MaxWinCount, ExpectedLeadersPerEpoch
<1>8. v \in 0..MaxWinCount /\ w \in 0..MaxWinCount
  BY ZenonT(60), <1>5, <1>6 DEF FirstPlace
<1>9. ASSUME v < w PROVE FALSE
  <2>1. v \in 0..(w - 1) /\ v # MaxWinCount
    BY <1>7, <1>8, <1>9
  <2>2. m < g[v].icdf /\ ~(l < g[v].icdf)
    BY ZenonT(60), <1>5, <1>6, <2>1 DEF FirstPlace
  <2>3. g[v] \in poiss
    BY ZenonT(60), <1>1, <1>2, <1>8, DistributionTypes
  <2>4. g[v].icdf \in Int
    BY <2>3 DEF poiss
  <2> QED BY <2>2, <2>4
<1>10. v >= w
  BY <1>7, <1>8, <1>9
<1> QED BY ZenonT(60), <1>3, <1>4, <1>10

(* A polynomial at 0 is its last coefficient.                              *)
LEMMA PolyvalZero ==
    ASSUME NEW p \in Seq(Int), p # <<>>
    PROVE  polyval(p, 0) = p[Len(p)]
<1>1. Len(p) \in Nat /\ Len(p) >= 1 /\ \A i \in 1..Len(p) : p[i] \in Int
  OBVIOUS
<1>2. PICK f : Horner(f, p, 0, Len(p)) /\ polyval(p, 0) = f[Len(p)]
  BY ZenonT(60), <1>1, PolyvalIs
<1>3. \A i \in 1..Len(p) : f[i] = IF i = 1 THEN p[1] ELSE ((f[i - 1] * 0) \div One) + p[i]
  BY ZenonT(60), <1>2 DEF Horner
<1> DEFINE T == {n \in Nat : n + 1 <= Len(p) => f[n + 1] = p[n + 1]}
<1>4. 0 \in T
  BY <1>1, <1>3
<1>5. ASSUME NEW n \in Nat, n \in T PROVE n + 1 \in T
  <2> SUFFICES ASSUME n + 1 + 1 <= Len(p) PROVE f[n + 1 + 1] = p[n + 1 + 1]
    OBVIOUS
  <2>1. f[n + 1] \in Int
    BY <1>1, <1>5
  <2>2. f[n + 1 + 1] = ((f[n + 1] * 0) \div One) + p[n + 1 + 1]
    BY <1>1, <1>3
  <2>3. p[n + 1 + 1] \in Int
    BY <1>1
  <2> QED BY <2>1, <2>2, <2>3 DEF One
<1>6. T \in SUBSET Nat
  OBVIOUS
<1> HIDE DEF T
<1>7. \A n \in Nat : n \in T
  BY ZenonT(60), <1>4, <1>5, <1>6, CountUp
<1>8. Len(p) - 1 \in T
  BY <1>1, <1>7
<1> USE DEF T
<1>9. f[Len(p)] = p[Len(p)]
  BY <1>1, <1>8
<1> QED BY ZenonT(60), <1>2, <1>9

(* Nobody wins without a stake, whatever the hash of the proof: the rate   *)
(* is 0, expneg(0) is exactly 1, and no draw is below 0 (ComputeWinCount,  *)
(* electionproof.go).                                                      *)
THEOREM NoStakeNoWins ==
    ASSUME NEW lhs \in Nat, NEW totalPower \in Nat, totalPower # 0
    PROVE  ComputeWinCount(lhs, 0, totalPower) = 0
<1>1. lambda(0, totalPower) = 0
  BY DEF lambda, ExpectedLeadersPerEpoch, One
<1>2. expNumCoef \in Seq(Int) /\ expNumCoef # <<>> /\ expNumCoef[Len(expNumCoef)] = One
  BY DEF expNumCoef, One
<1>3. expDenoCoef \in Seq(Int) /\ expDenoCoef # <<>> /\ expDenoCoef[Len(expDenoCoef)] = One
  BY DEF expDenoCoef, One
<1>4. polyval(expNumCoef, 0) = One /\ polyval(expDenoCoef, 0) = One
  BY ZenonT(60), <1>2, <1>3, PolyvalZero
<1>5. (One * One) \div One = One /\ One - One = 0
  BY DEF One
<1>6. expneg(0) = One
  BY ZenonT(60), <1>4, <1>5 DEF expneg
<1>7. newPoiss(0).icdf = 0
  BY <1>5, <1>6 DEF newPoiss
<1>8. PICK g : Distribution(g, 0)
  BY DistributionExists
<1>9. PICK w : w = ComputeWinCount(lhs, 0, totalPower)
  OBVIOUS
<1>10. 0 \in Nat
  OBVIOUS
<1>11. FirstPlace(g, lhs, 0, w)
  BY ZenonT(60), <1>1, <1>8, <1>9, <1>10, WinCountIsLeast
<1>12. g[0].icdf = 0
  BY ZenonT(60), <1>7, <1>8 DEF Distribution
<1>13. w \in 0..MaxWinCount /\ (0 \in 0..(w - 1) => lhs < 0)
  BY ZenonT(60), <1>11, <1>12 DEF FirstPlace
<1>14. w = 0
  BY <1>13 DEF MaxWinCount, ExpectedLeadersPerEpoch
<1> QED BY ZenonT(60), <1>9, <1>14

-----------------------------------------------------------------------------
(* The inductive invariant.                                                *)

(* The proof of a block that the stakes read by the miner entitle it to.   *)
Won(e) ==
    /\ networkStake # 0
    /\ e.winCount = ComputeWinCount(e.vrf.lhs, minerStake, networkStake)
    /\ e.winCount >= 1

(* What the miner has read is still so, unless stakes moved.               *)
MinerSound ==
    /\ mpc \in {"total", "elect", "create"} => movedSince \/ minerStake = amount[proposer]
    /\ mpc \in {"elect", "create"} => movedSince \/ networkStake = totalStake
    /\ mpc = "create" =>
          /\ Won(eproof)
          /\ replaced \/ eproof.vrf.rand = DrawRandomness(eproof.round, latestBlockHeader + 1)
    /\ mpc = "panic" => minerStake = 0 \/ movedSince
    /\ mpc # "idle" => block = None

BlockSound ==
    block # None =>
        /\ Won(block.eproof)
        /\ movedSince \/ (minerStake = amount[proposer] /\ networkStake = totalStake)
        /\ replaced \/ block.eproof.vrf.rand = DrawRandomness(block.eproof.round, block.height)
        /\ block.data \in Data \ {<<>>}

ValidatorSound ==
    /\ vpc # "idle" => block # None
    /\ vpc \in {"total", "count"} => movedSince \/ mStake = amount[proposer]
    /\ vpc = "count" => movedSince \/ nStake = totalStake
    /\ vpc = "panic" => mStake = 0 \/ movedSince

Some(kinds) == \E j \in DOMAIN block.data : block.data[j] \in kinds

(* What the goroutines have found out: the shared error variable holds the *)
(* outcome of one of them, and whoever read it without an error found one  *)
(* that decodes.                                                           *)
WorkersSound ==
    /\ vpc \notin {"txs", "accepted", "rejected"} => DOMAIN worker = {} /\ ~err
    /\ vpc = "txs" =>
          /\ DOMAIN worker = DOMAIN block.data
          /\ err => Some({"undecodable"})
          /\ \A i \in DOMAIN worker :
                /\ worker[i] \in {"unmarshal", "check", "exit"} => block.data[i] # "unproven"
                /\ worker[i] = "send" => Some({"undecodable", "unproven"})
                /\ worker[i] = "check" => err \/ Some({"task"})
                /\ worker[i] = "exit" => Some({"task"})

-----------------------------------------------------------------------------
(* The steps, by what they leave alone.                                    *)

LEMMA MineFrame ==
    mineBlock => UNCHANGED <<now, stakingVars, moves, movedSince, replaced, latestBlockHeader,
                             validatorVars>>
BY ZenonT(60) DEF mineBlock, readMinerStake, readTotalStake, isRoundWinner, CreateBlock, MinerStep

LEMMA ValidateFrame ==
    ValidateBlock => UNCHANGED <<now, stakingVars, moves, movedSince, replaced, minerVars,
                                 latestHeight, localCache>>
<1>1. receiveResult => UNCHANGED <<now, stakingVars, moves, movedSince, replaced, minerVars,
                                   latestHeight, localCache>>
  BY ZenonT(60) DEF receiveResult, ValidatorStep, Continue
<1> QED BY ZenonT(60), <1>1
        DEF ValidateBlock, checkHeader, IsMinerEligibleToProposeBlock, verifyElectionProof,
            GetStakeInfo, verifyWinCount, ValidatorStep, Reject, Continue

LEMMA GoroutineFrame ==
    ASSUME NEW i, goroutine(i)
    PROVE  UNCHANGED <<now, stakingVars, moves, movedSince, replaced, minerVars, latestHeight,
                       localCache, vpc, mStake, nStake, cause>>
BY ZenonT(60) DEF goroutine, VerifyTx, Unmarshal, checkErr, WorkerStep

(* The beacon's cache and the chain of the validating node.                *)
Aside ==
    /\ UNCHANGED <<now, stakingVars, moves, movedSince, replaced, minerVars,
                   vpc, mStake, nStake, worker, err, cause>>
    /\ localCache' = localCache \/ \E r \in Round : localCache' = localCache \cup {r}
    /\ latestHeight' = latestHeight \/ (latestHeight + 1 < MaxHeight /\ latestHeight' = latestHeight + 1)

LEMMA StepKinds ==
    [Next]_vars =>
        \/ \E r \in Round : newEntry(r)
        \/ mineBlock \/ ValidateBlock \/ latestBlockHeightUpdated \/ moveStake
        \/ \E i \in TxIndex : goroutine(i)
        \/ Aside
<1>1. ASSUME NEW r \in Round, cacheValue(r) PROVE Aside
  BY ZenonT(60), <1>1 DEF cacheValue, Aside
<1>2. commitOther => Aside
  BY ZenonT(60) DEF commitOther, Aside
<1>3. UNCHANGED vars => Aside
  BY ZenonT(60) DEF vars, validatorVars, Aside
<1> QED BY ZenonT(60), <1>1, <1>2, <1>3 DEF Next

LEMMA StakesCoveredStep == StakesCovered /\ [Next]_vars => StakesCovered'
<1> SUFFICES ASSUME StakesCovered, [Next]_vars PROVE StakesCovered'
  OBVIOUS
<1>1. CASE UNCHANGED stakingVars
  BY ZenonT(60), <1>1 DEF stakingVars, StakesCovered
<1>2. CASE moveStake
  <2>1. PICK a \in Account : mineAndStake(a) \/ \E n \in Amount : stake(a, n) \/ withdraw(a, n)
    BY ZenonT(60), <1>2 DEF moveStake
  <2> QED BY ZenonT(60), <2>1, RewardCall, StakeCall, WithdrawCall
<1>3. ASSUME NEW r \in Round, newEntry(r) PROVE UNCHANGED stakingVars
  BY ZenonT(60), <1>3 DEF newEntry
<1>4. latestBlockHeightUpdated => UNCHANGED stakingVars
  BY ZenonT(60) DEF latestBlockHeightUpdated
<1>5. Aside => UNCHANGED stakingVars
  BY ZenonT(60) DEF Aside
<1> QED
  BY ZenonT(60), <1>1, <1>2, <1>3, <1>4, <1>5, StepKinds, MineFrame, ValidateFrame, GoroutineFrame

-----------------------------------------------------------------------------
(* The miner and its block.                                                *)

LEMMA MinerSame ==
    ASSUME MinerSound, BlockSound, UNCHANGED <<stakingVars, movedSince, replaced, minerVars>>
    PROVE  MinerSound' /\ BlockSound'
BY ZenonT(60) DEF stakingVars, minerVars, MinerSound, BlockSound, Won

(* What was read is the truth, so that a total of zero means no stake.     *)
LEMMA NothingStaked ==
    ASSUME StakesCovered, NEW s, NEW t, s = amount[proposer], t = totalStake, t = 0
    PROVE  s = 0
<1>1. amount[proposer] \in Nat /\ amount[proposer] <= totalStake /\ totalStake = 0
  BY ZenonT(60), StakesAreNumbers, ElectionAssumption
<1>2. amount[proposer] = 0
  BY <1>1
<1> QED BY ZenonT(60), <1>2

LEMMA MinerSoundStep ==
    StakesCovered /\ MinerSound /\ BlockSound /\ [Next]_vars => MinerSound' /\ BlockSound'
<1> SUFFICES ASSUME StakesCovered, MinerSound, BlockSound, [Next]_vars
             PROVE  MinerSound' /\ BlockSound'
  OBVIOUS
<1>1. ASSUME NEW r \in Round, newEntry(r) PROVE MinerSound' /\ BlockSound'
  BY ZenonT(60), <1>1 DEF newEntry, MinerSound, BlockSound
<1>2. CASE readMinerStake \/ readTotalStake
  <2>1. UNCHANGED <<stakingVars, movedSince, replaced, latestBlockHeader, eproof, block>>
    BY ZenonT(60), <1>2 DEF readMinerStake, readTotalStake, MinerStep
  <2>2. block = None
    BY ZenonT(60), <1>2 DEF readMinerStake, readTotalStake, MinerStep, MinerSound
  <2>3. MinerSound'
    BY ZenonT(60), <1>2, <2>1, <2>2
       DEF readMinerStake, readTotalStake, GetMinerStake, GetTotalStake, MinerStep, MinerSound,
           stakingVars
  <2> QED BY ZenonT(60), <2>1, <2>2, <2>3 DEF BlockSound
<1>3. CASE isRoundWinner
  <2>1. UNCHANGED <<stakingVars, movedSince, replaced, latestBlockHeader>>
    BY ZenonT(60), <1>3 DEF isRoundWinner, MinerStep
  <2>2. mpc = "elect" /\ block = None /\ block' = None
    BY ZenonT(60), <1>3 DEF isRoundWinner, MinerStep, MinerSound
  <2>3. BlockSound'
    BY ZenonT(60), <2>2 DEF BlockSound
  <2>4. CASE /\ networkStake = 0 /\ mpc' = "panic"
             /\ UNCHANGED <<minerStake, networkStake>>
    <3>1. minerStake = 0 \/ movedSince
      BY ZenonT(60), <2>2, <2>4, NothingStaked DEF MinerSound
    <3> QED BY ZenonT(60), <2>1, <2>2, <2>3, <2>4, <3>1 DEF MinerSound
  <2>5. CASE mpc' = "idle"
    BY ZenonT(60), <2>3, <2>5 DEF MinerSound
  <2>6. ASSUME networkStake # 0, NEW lhs \in Draw,
               ComputeWinCount(lhs, minerStake, networkStake) >= 1,
               mpc' = "create", UNCHANGED <<minerStake, networkStake>>,
               eproof' = [round |-> round,
                          vrf |-> ComputeVRF(DrawRandomness(round, latestBlockHeader + 1), lhs),
                          winCount |-> ComputeWinCount(lhs, minerStake, networkStake)]
        PROVE  MinerSound'
    <3>1. /\ eproof'.round = round /\ eproof'.vrf.lhs = lhs
          /\ eproof'.vrf.rand = DrawRandomness(round, latestBlockHeader + 1)
          /\ eproof'.winCount = ComputeWinCount(lhs, minerStake, networkStake)
      BY <2>6 DEF ComputeVRF
    <3>2. Won(eproof)'
      BY ZenonT(60), <2>6, <3>1 DEF Won
    <3>3. eproof'.vrf.rand = DrawRandomness(eproof'.round, latestBlockHeader' + 1)
      BY ZenonT(60), <2>1, <3>1
    <3> QED BY ZenonT(60), <2>1, <2>2, <2>6, <3>2, <3>3 DEF MinerSound, stakingVars, DrawRandomness
  <2> QED BY ZenonT(60), <1>3, <2>3, <2>4, <2>5, <2>6 DEF isRoundWinner, MinerStep
<1>4. CASE CreateBlock
  <2>1. mpc = "create" /\ mpc' = "idle" /\ block = None
    BY ZenonT(60), <1>4 DEF CreateBlock, MinerStep, MinerSound
  <2>2. UNCHANGED <<stakingVars, movedSince, replaced, latestBlockHeader, minerStake, networkStake>>
    BY ZenonT(60), <1>4 DEF CreateBlock, MinerStep
  <2>3. MinerSound'
    BY ZenonT(60), <2>1 DEF MinerSound
  <2>4. ASSUME NEW txs \in Data \ {<<>>},
               block' = [height |-> latestBlockHeader + 1, lastHash |-> latestBlockHeader,
                         eproof |-> eproof, data |-> txs]
        PROVE  BlockSound'
    <3>1. block'.height = latestBlockHeader + 1 /\ block'.eproof = eproof /\ block'.data = txs
      BY <2>4
    <3>2. Won(eproof)
      BY ZenonT(60), <2>1 DEF MinerSound
    <3>3. Won(block.eproof)'
      BY ZenonT(60), <2>2, <3>1, <3>2 DEF Won
    <3>4. movedSince \/ (minerStake = amount[proposer] /\ networkStake = totalStake)
      BY ZenonT(60), <2>1 DEF MinerSound
    <3>5. replaced \/ eproof.vrf.rand = DrawRandomness(eproof.round, latestBlockHeader + 1)
      BY ZenonT(60), <2>1 DEF MinerSound
    <3>6. replaced' \/ block'.eproof.vrf.rand = DrawRandomness(block'.eproof.round, block'.height)
      BY ZenonT(60), <2>2, <3>1, <3>5
    <3> QED BY ZenonT(60), <2>2, <2>4, <3>1, <3>3, <3>4, <3>6 DEF BlockSound, stakingVars, DrawRandomness
  <2>5. CASE UNCHANGED block
    BY ZenonT(60), <2>1, <2>3, <2>5 DEF BlockSound
  <2> QED BY ZenonT(60), <1>4, <2>3, <2>4, <2>5 DEF CreateBlock
<1>5. CASE latestBlockHeightUpdated
  <2>1. /\ UNCHANGED <<stakingVars, movedSince, mpc, minerStake, networkStake, eproof, block>>
        /\ replaced' = (replaced \/ mpc = "create")
    BY ZenonT(60), <1>5 DEF latestBlockHeightUpdated
  <2> QED BY ZenonT(60), <2>1 DEF stakingVars, MinerSound, BlockSound, Won
<1>6. CASE moveStake
  <2>1. movedSince' = TRUE /\ UNCHANGED <<replaced, minerVars>>
    BY ZenonT(60), <1>6 DEF moveStake
  <2> QED BY ZenonT(60), <2>1 DEF minerVars, MinerSound, BlockSound, Won
<1>7. CASE UNCHANGED <<stakingVars, movedSince, replaced, minerVars>>
  BY ZenonT(60), <1>7, MinerSame
<1>8. Aside => UNCHANGED <<stakingVars, movedSince, replaced, minerVars>>
  BY ZenonT(60) DEF Aside
<1>9. ASSUME ValidateBlock \/ \E i \in TxIndex : goroutine(i)
      PROVE  UNCHANGED <<stakingVars, movedSince, replaced, minerVars>>
  BY ZenonT(60), <1>9, ValidateFrame, GoroutineFrame
<1> QED
  BY ZenonT(60), <1>1, <1>2, <1>3, <1>4, <1>5, <1>6, <1>7, <1>8, <1>9, StepKinds DEF mineBlock

-----------------------------------------------------------------------------
(* The validating node.                                                    *)

ForCause ==
    vpc = "rejected" =>
        /\ cause \in {"winCount", "notEligible", "vrf", "tx", "lastHash", "eth", "beacon"}
        /\ cause = "winCount" => movedSince
        /\ cause = "notEligible" => movedSince \/ minerStake < MinMinerStake
        /\ cause = "vrf" => replaced
        /\ cause = "tx" => Some({"undecodable", "unproven"})

LEMMA CauseGiven == ForCause => RejectedForCause
<1>1. Some({"undecodable", "unproven"}) => \E i \in DOMAIN block.data : block.data[i] # "task"
  BY DEF Some
<1> QED BY <1>1 DEF ForCause, RejectedForCause

(* What a step of ValidateBlock reads.                                     *)
LEMMA ValidatorSame ==
    ASSUME MinerSound, BlockSound, ValidatorSound, ForCause, [Next]_vars, ~ValidateBlock
    PROVE  ValidatorSound' /\ ForCause'
<1>0. ASSUME UNCHANGED <<vpc, mStake, nStake, cause>>, vpc = "idle"
      PROVE  ValidatorSound' /\ ForCause'
  BY ZenonT(60), <1>0 DEF ValidatorSound, ForCause
<1>1. vpc # "idle" => block # None
  BY ZenonT(60) DEF ValidatorSound
<1>2. ASSUME NEW r \in Round, newEntry(r) PROVE ValidatorSound' /\ ForCause'
  BY ZenonT(60), <1>0, <1>1, <1>2 DEF newEntry, validatorVars
<1>3. CASE mineBlock
  <2>1. mpc # "idle"
    BY ZenonT(60), <1>3
       DEF mineBlock, readMinerStake, readTotalStake, isRoundWinner, CreateBlock, MinerStep
  <2>2. vpc = "idle"
    BY ZenonT(60), <1>1, <2>1 DEF MinerSound
  <2> QED BY ZenonT(60), <1>0, <1>3, <2>2, MineFrame DEF validatorVars
<1>4. CASE moveStake
  <2>1. /\ movedSince' = TRUE /\ UNCHANGED <<replaced, block, minerStake>>
        /\ UNCHANGED <<vpc, mStake, nStake, cause>>
    BY ZenonT(60), <1>4 DEF moveStake, minerVars, validatorVars
  <2> QED BY ZenonT(60), <2>1 DEF ValidatorSound, ForCause, Some
<1>5. CASE latestBlockHeightUpdated
  <2>1. /\ UNCHANGED <<stakingVars, movedSince, block, minerStake>>
        /\ UNCHANGED <<vpc, mStake, nStake, cause>>
        /\ replaced => replaced'
    BY ZenonT(60), <1>5 DEF latestBlockHeightUpdated, validatorVars
  <2> QED BY ZenonT(60), <2>1 DEF stakingVars, ValidatorSound, ForCause, Some
<1>6. CASE UNCHANGED <<stakingVars, movedSince, replaced, minerVars, vpc, mStake, nStake, cause>>
  BY ZenonT(60), <1>6 DEF stakingVars, minerVars, ValidatorSound, ForCause, Some
<1>7. Aside => UNCHANGED <<stakingVars, movedSince, replaced, minerVars, vpc, mStake, nStake, cause>>
  BY ZenonT(60) DEF Aside
<1>8. ASSUME NEW i \in TxIndex, goroutine(i)
      PROVE  UNCHANGED <<stakingVars, movedSince, replaced, minerVars, vpc, mStake, nStake, cause>>
  BY ZenonT(60), <1>8, GoroutineFrame
<1> QED BY ZenonT(60), <1>2, <1>3, <1>4, <1>5, <1>6, <1>7, <1>8, StepKinds

(* A step that turns the block down, with a cause that holds.              *)
LEMMA RejectSound ==
    ASSUME ValidatorSound, ValidateBlock, NEW from, NEW why, Reject(from, why), from # "idle" \/ block # None,
           why \in {"winCount", "notEligible", "vrf", "lastHash", "eth", "beacon"},
           why = "winCount" => movedSince,
           why = "notEligible" => movedSince \/ minerStake < MinMinerStake,
           why = "vrf" => replaced
    PROVE  ValidatorSound' /\ ForCause'
<1>1. vpc = from /\ vpc' = "rejected" /\ cause' = why
  BY ZenonT(60) DEF Reject, ValidatorStep
<1>2. UNCHANGED <<movedSince, replaced, block, minerStake>>
  BY ZenonT(60), ValidateFrame DEF minerVars
<1>3. ValidatorSound'
  BY ZenonT(60), <1>1, <1>2 DEF ValidatorSound
<1>4. why # "tx"
  BY ZenonT(60)
<1> QED BY ZenonT(60), <1>1, <1>2, <1>3, <1>4 DEF ForCause

LEMMA ValidatorSoundStep ==
    ASSUME ElectionTypeOK, StakesCovered, BlockSound, WorkersSound, ValidatorSound, ForCause,
           ValidateBlock
    PROVE  ValidatorSound' /\ ForCause'
<1>0. UNCHANGED <<stakingVars, movedSince, replaced, block, minerStake>>
  BY ZenonT(60), ValidateFrame DEF minerVars
<1>1. CASE checkHeader
  <2>1. vpc = "idle" /\ block # None
    BY ZenonT(60), <1>1 DEF checkHeader, Reject, Continue, ValidatorStep
  <2>2. ~(block.eproof.winCount < 1)
    <3>1. /\ minerStake \in Nat /\ networkStake \in Nat /\ networkStake # 0
          /\ block.eproof.winCount = ComputeWinCount(block.eproof.vrf.lhs, minerStake, networkStake)
          /\ block.eproof.winCount >= 1
      BY ZenonT(60), <2>1 DEF ElectionTypeOK, BlockSound, Won
    <3>2. block.eproof.winCount \in 0..MaxWinCount
      BY ZenonT(60), <3>1, WinCountBounded
    <3>3. MaxWinCount \in Nat
      BY DEF MaxWinCount, ExpectedLeadersPerEpoch
    <3> QED BY <3>1, <3>2, <3>3
  <2>3. CASE Reject("idle", "lastHash")
    BY ZenonT(60), <2>1, <2>3, RejectSound
  <2>4. CASE Continue("idle", "eligible")
    BY ZenonT(60), <1>0, <2>1, <2>4 DEF Continue, ValidatorStep, ValidatorSound, ForCause
  <2> QED BY ZenonT(60), <1>1, <2>2, <2>3, <2>4 DEF checkHeader
<1>2. CASE IsMinerEligibleToProposeBlock
  <2>1. vpc = "eligible" /\ block # None
    BY ZenonT(60), <1>2 DEF IsMinerEligibleToProposeBlock, Reject, Continue, ValidatorStep, ValidatorSound
  <2>2. CASE Reject("eligible", "eth")
    BY ZenonT(60), <2>1, <2>2, RejectSound
  <2>3. CASE GetMinerStake(proposer) < MinMinerStake /\ Reject("eligible", "notEligible")
    <3>1. movedSince \/ minerStake < MinMinerStake
      BY ZenonT(60), <2>1, <2>3 DEF GetMinerStake, BlockSound
    <3> QED BY ZenonT(60), <2>1, <2>3, <3>1, RejectSound
  <2>4. CASE Continue("eligible", "entry")
    BY ZenonT(60), <1>0, <2>1, <2>4 DEF Continue, ValidatorStep, ValidatorSound, ForCause
  <2> QED BY ZenonT(60), <1>2, <2>2, <2>3, <2>4 DEF IsMinerEligibleToProposeBlock
<1>3. CASE verifyElectionProof
  <2>1. vpc = "entry" /\ block # None
    BY ZenonT(60), <1>3 DEF verifyElectionProof, ValidatorSound
  <2>2. CASE Reject("entry", "beacon")
    BY ZenonT(60), <2>1, <2>2, RejectSound
  <2>3. CASE ~VerifyVRF(eproofRandomness, block.eproof.vrf) /\ Reject("entry", "vrf")
    <3>1. replaced
      BY ZenonT(60), <2>1, <2>3 DEF VerifyVRF, eproofRandomness, BlockSound
    <3> QED BY ZenonT(60), <2>1, <2>3, <3>1, RejectSound
  <2>4. CASE Continue("entry", "stake")
    BY ZenonT(60), <1>0, <2>1, <2>4 DEF Continue, ValidatorStep, ValidatorSound, ForCause
  <2> QED BY ZenonT(60), <1>3, <2>2, <2>3, <2>4 DEF verifyElectionProof
<1>4. CASE GetStakeInfo
  <2>1. vpc \in {"stake", "total"} /\ block # None
    BY ZenonT(60), <1>4 DEF GetStakeInfo, Reject, ValidatorStep, ValidatorSound
  <2>2. CASE Reject("stake", "eth") \/ Reject("total", "eth")
    BY ZenonT(60), <2>1, <2>2, RejectSound
  <2>3. CASE ValidatorStep("stake", "total") /\ mStake' = GetMinerStake(proposer)
    BY ZenonT(60), <1>0, <2>1, <2>3
       DEF ValidatorStep, GetMinerStake, stakingVars, ValidatorSound, ForCause
  <2>4. CASE ValidatorStep("total", "count") /\ nStake' = GetTotalStake /\ UNCHANGED mStake
    <3>1. movedSince \/ mStake = amount[proposer]
      BY ZenonT(60), <2>4 DEF ValidatorStep, ValidatorSound
    <3>2. movedSince' \/ mStake' = amount'[proposer]
      BY ZenonT(60), <1>0, <2>4, <3>1 DEF stakingVars
    <3>3. nStake' = totalStake'
      BY ZenonT(60), <1>0, <2>4 DEF stakingVars, GetTotalStake
    <3> QED BY ZenonT(60), <1>0, <2>1, <2>4, <3>2, <3>3 DEF ValidatorStep, ValidatorSound, ForCause
  <2> QED BY ZenonT(60), <1>4, <2>2, <2>3, <2>4 DEF GetStakeInfo
<1>5. CASE verifyWinCount
  <2>1. vpc = "count" /\ block # None
    BY ZenonT(60), <1>5 DEF verifyWinCount, Continue, ValidatorStep, ValidatorSound
  <2>2. movedSince \/ (mStake = amount[proposer] /\ nStake = totalStake)
    BY ZenonT(60), <2>1 DEF ValidatorSound
  <2>3. CASE nStake = 0 /\ Continue("count", "panic")
    <3>1. mStake = 0 \/ movedSince
      BY ZenonT(60), <2>2, <2>3, NothingStaked
    <3>2. vpc' = "panic" /\ mStake' = mStake
      BY ZenonT(60), <2>3 DEF Continue, ValidatorStep
    <3>3. mStake' = 0 \/ movedSince'
      BY ZenonT(60), <1>0, <3>1, <3>2
    <3> QED BY ZenonT(60), <1>0, <2>1, <3>2, <3>3 DEF ValidatorSound, ForCause
  <2>4. CASE /\ ComputeWinCount(block.eproof.vrf.lhs, mStake, nStake) # block.eproof.winCount
             /\ Reject("count", "winCount")
    <3>1. movedSince
      BY ZenonT(60), <2>1, <2>2, <2>4 DEF BlockSound, Won
    <3> QED BY ZenonT(60), <2>1, <2>4, <3>1, RejectSound
  <2>5. CASE ValidatorStep("count", "txs")
    BY ZenonT(60), <1>0, <2>1, <2>5 DEF ValidatorStep, ValidatorSound, ForCause
  <2> QED BY ZenonT(60), <1>5, <2>3, <2>4, <2>5 DEF verifyWinCount
<1>6. CASE receiveResult
  <2>1. vpc = "txs" /\ block # None
    BY ZenonT(60), <1>6 DEF receiveResult, Continue, ValidatorStep, ValidatorSound
  <2>2. ASSUME NEW i \in DOMAIN worker, worker[i] = "send", vpc' = "rejected", cause' = "tx"
        PROVE  ValidatorSound' /\ ForCause'
    <3>1. Some({"undecodable", "unproven"})
      BY ZenonT(60), <2>1, <2>2 DEF WorkersSound
    <3>2. Some({"undecodable", "unproven"})'
      BY ZenonT(60), <1>0, <3>1 DEF Some
    <3> QED BY ZenonT(60), <1>0, <2>1, <2>2, <3>2 DEF ValidatorSound, ForCause
  <2>3. CASE Continue("txs", "accepted")
    BY ZenonT(60), <1>0, <2>1, <2>3 DEF Continue, ValidatorStep, ValidatorSound, ForCause
  <2> QED BY ZenonT(60), <1>6, <2>2, <2>3 DEF receiveResult, ValidatorStep
<1> QED BY ZenonT(60), <1>1, <1>2, <1>3, <1>4, <1>5, <1>6 DEF ValidateBlock

-----------------------------------------------------------------------------
(* The goroutines.                                                         *)

(* A block carries a list of transactions that is not empty.               *)
LEMMA BlockData ==
    ASSUME BlockSound, block # None
    PROVE  /\ \A i \in DOMAIN block.data : block.data[i] \in {"task", "undecodable", "unproven"}
           /\ \E i : i \in DOMAIN block.data
<1>1. block.data \in Seq(TxKind) /\ block.data # <<>>
  BY ZenonT(60), ElectionAssumption DEF BlockSound
<1>2. DOMAIN block.data = 1..Len(block.data) /\ 1 \in 1..Len(block.data)
  BY <1>1
<1>3. \A i \in 1..Len(block.data) : block.data[i] \in TxKind
  BY <1>1
<1> QED BY ZenonT(60), <1>2, <1>3 DEF TxKind

LEMMA WorkersSame ==
    ASSUME WorkersSound, AcceptedDecodes, UNCHANGED <<vpc, worker, err, block>>
    PROVE  WorkersSound' /\ AcceptedDecodes'
BY ZenonT(60) DEF WorkersSound, AcceptedDecodes, Some

LEMMA WorkersAtValidate ==
    ASSUME BlockSound, ValidatorSound, WorkersSound, AcceptedDecodes, ValidateBlock
    PROVE  WorkersSound' /\ AcceptedDecodes'
<1>0. block' = block
  BY ZenonT(60), ValidateFrame DEF minerVars
<1>1. CASE vpc' = "rejected"
  BY ZenonT(60), <1>1 DEF WorkersSound, AcceptedDecodes
<1>2. CASE /\ vpc \in {"idle", "eligible", "entry", "stake", "total", "count"}
           /\ vpc' \in {"eligible", "entry", "stake", "total", "count", "panic"}
           /\ UNCHANGED <<worker, err>>
  <2>1. DOMAIN worker = {} /\ ~err
    BY ZenonT(60), <1>2 DEF WorkersSound
  <2>2. vpc' # "txs" /\ vpc' # "accepted"
    BY ZenonT(60), <1>2
  <2> QED BY ZenonT(60), <1>2, <2>1, <2>2 DEF WorkersSound, AcceptedDecodes
<1>3. CASE /\ vpc = "count" /\ vpc' = "txs" /\ err' = err
           /\ worker' = [i \in DOMAIN block.data |-> "verify"]
  <2>1. ~err'
    BY ZenonT(60), <1>3 DEF WorkersSound
  <2>2. DOMAIN worker' = DOMAIN block'.data /\ \A i \in DOMAIN worker' : worker'[i] = "verify"
    BY ZenonT(60), <1>0, <1>3
  <2> QED BY ZenonT(60), <1>3, <2>1, <2>2 DEF WorkersSound, AcceptedDecodes
<1>4. CASE vpc = "txs" /\ vpc' = "accepted" /\ \A i \in DOMAIN worker : worker[i] = "exit"
  <2>1. block # None /\ DOMAIN worker = DOMAIN block.data
    BY ZenonT(60), <1>4 DEF ValidatorSound, WorkersSound
  <2>2. \A i \in DOMAIN block.data : block.data[i] # "unproven" /\ Some({"task"})
    BY ZenonT(60), <1>4, <2>1 DEF WorkersSound
  <2>3. Some({"task"})
    BY ZenonT(60), <2>1, <2>2, BlockData
  <2>4. AcceptedDecodes'
    BY ZenonT(60), <1>0, <2>2, <2>3 DEF AcceptedDecodes, Some
  <2> QED BY ZenonT(60), <1>4, <2>4 DEF WorkersSound
<1>5. ASSUME checkHeader \/ IsMinerEligibleToProposeBlock \/ verifyElectionProof \/ GetStakeInfo
      PROVE  \/ vpc' = "rejected"
             \/ /\ vpc \in {"idle", "eligible", "entry", "stake", "total", "count"}
                /\ vpc' \in {"eligible", "entry", "stake", "total", "count", "panic"}
                /\ UNCHANGED <<worker, err>>
  BY ZenonT(60), <1>5 DEF checkHeader, IsMinerEligibleToProposeBlock, verifyElectionProof,
                          GetStakeInfo, Reject, Continue, ValidatorStep
<1>6. CASE verifyWinCount
  BY ZenonT(60), <1>1, <1>2, <1>3, <1>6 DEF verifyWinCount, Reject, Continue, ValidatorStep
<1>7. CASE receiveResult
  BY ZenonT(60), <1>1, <1>4, <1>7 DEF receiveResult, Continue, ValidatorStep
<1> QED BY ZenonT(60), <1>1, <1>2, <1>5, <1>6, <1>7 DEF ValidateBlock

(* A goroutine moves on while ValidateBlock waits for it.                  *)
LEMMA WorkersMove ==
    ASSUME BlockSound, ValidatorSound, WorkersSound, vpc = "txs", NEW i, goroutine(i)
    PROVE  WorkersSound'
<1>0. vpc' = "txs" /\ block' = block
  BY ZenonT(60), GoroutineFrame DEF minerVars
<1>1. /\ block # None /\ DOMAIN worker = DOMAIN block.data
      /\ err => Some({"undecodable"})
      /\ \A k \in DOMAIN worker :
            /\ worker[k] \in {"unmarshal", "check", "exit"} => block.data[k] # "unproven"
            /\ worker[k] = "send" => Some({"undecodable", "unproven"})
            /\ worker[k] = "check" => err \/ Some({"task"})
            /\ worker[k] = "exit" => Some({"task"})
  BY ZenonT(60) DEF ValidatorSound, WorkersSound
<1>2. i \in DOMAIN worker
  BY ZenonT(60) DEF goroutine, VerifyTx, Unmarshal, checkErr, WorkerStep
<1>3. block.data[i] \in {"task", "undecodable", "unproven"}
  BY ZenonT(60), <1>1, <1>2, BlockData
<1>4. \A kinds : Some(kinds)' <=> Some(kinds)
  BY ZenonT(60), <1>0 DEF Some
<1>5. \A kinds : block.data[i] \in kinds => Some(kinds)
  BY ZenonT(60), <1>1, <1>2 DEF Some
<1>6. ASSUME NEW to, worker' = [worker EXCEPT ![i] = to],
             err' => Some({"undecodable"}),
             to \in {"unmarshal", "check", "exit"} => block.data[i] # "unproven",
             to = "send" => Some({"undecodable", "unproven"}),
             err \/ Some({"task"}) => err' \/ Some({"task"}),
             to = "check" => err' \/ Some({"task"}),
             to = "exit" => Some({"task"})
      PROVE  WorkersSound'
  <2>1. DOMAIN worker' = DOMAIN block'.data
    BY ZenonT(60), <1>0, <1>1, <1>6
  <2>2. \A k \in DOMAIN worker' : k \in DOMAIN worker /\ worker'[k] = IF k = i THEN to ELSE worker[k]
    BY ZenonT(60), <1>6
  <2>3. ASSUME NEW k \in DOMAIN worker'
        PROVE  /\ worker'[k] \in {"unmarshal", "check", "exit"} => block'.data[k] # "unproven"
               /\ worker'[k] = "send" => Some({"undecodable", "unproven"})'
               /\ worker'[k] = "check" => err' \/ Some({"task"})'
               /\ worker'[k] = "exit" => Some({"task"})'
    <3>1. CASE k = i
      BY ZenonT(60), <1>0, <1>4, <1>6, <2>2, <3>1
    <3>2. CASE k # i
      BY ZenonT(60), <1>0, <1>1, <1>4, <1>6, <2>2, <3>2
    <3> QED BY ZenonT(60), <3>1, <3>2
  <2>4. err' => Some({"undecodable"})'
    BY ZenonT(60), <1>4, <1>6
  <2> QED BY ZenonT(60), <1>0, <2>1, <2>3, <2>4 DEF WorkersSound
<1>7. CASE VerifyTx(i)
  <2>1. err' = err
    BY ZenonT(60), <1>7 DEF VerifyTx
  <2>2. CASE block.data[i] = "unproven" /\ worker' = [worker EXCEPT ![i] = "send"]
    <3>1. Some({"undecodable", "unproven"})
      BY ZenonT(60), <1>5, <2>2
    <3> QED BY ZenonT(60), <1>1, <1>6, <2>1, <2>2, <3>1
  <2>3. CASE block.data[i] # "unproven" /\ worker' = [worker EXCEPT ![i] = "unmarshal"]
    BY ZenonT(60), <1>1, <1>6, <2>1, <2>3
  <2> QED BY ZenonT(60), <1>7, <2>2, <2>3 DEF VerifyTx, WorkerStep
<1>8. CASE Unmarshal(i)
  <2>1. worker[i] = "unmarshal" /\ worker' = [worker EXCEPT ![i] = "check"]
    BY ZenonT(60), <1>8 DEF Unmarshal, WorkerStep
  <2>2. err' = (block.data[i] = "undecodable")
    BY ZenonT(60), <1>8 DEF Unmarshal
  <2>3. block.data[i] # "unproven"
    BY ZenonT(60), <1>1, <1>2, <2>1
  <2>4. err' => Some({"undecodable"})
    BY ZenonT(60), <1>5, <2>2
  <2>5. err' \/ Some({"task"})
    BY ZenonT(60), <1>3, <1>5, <2>2, <2>3
  <2> QED BY ZenonT(60), <1>6, <2>1, <2>3, <2>4, <2>5
<1>9. CASE checkErr(i)
  <2>1. worker[i] = "check" /\ err' = err
    BY ZenonT(60), <1>9 DEF checkErr, WorkerStep
  <2>2. block.data[i] # "unproven" /\ (err \/ Some({"task"}))
    BY ZenonT(60), <1>1, <1>2, <2>1
  <2>3. CASE err /\ worker' = [worker EXCEPT ![i] = "send"]
    <3>1. Some({"undecodable", "unproven"})
      BY ZenonT(60), <1>1, <2>3 DEF Some
    <3> QED BY ZenonT(60), <1>1, <1>6, <2>1, <2>3, <3>1
  <2>4. CASE ~err /\ worker' = [worker EXCEPT ![i] = "exit"]
    BY ZenonT(60), <1>1, <1>6, <2>1, <2>2, <2>4
  <2> QED BY ZenonT(60), <1>9, <2>3, <2>4 DEF checkErr, WorkerStep
<1> QED BY ZenonT(60), <1>7, <1>8, <1>9 DEF goroutine

LEMMA WorkersStep ==
    ASSUME MinerSound, BlockSound, ValidatorSound, WorkersSound, AcceptedDecodes, [Next]_vars
    PROVE  WorkersSound' /\ AcceptedDecodes'
<1>1. ASSUME NEW r \in Round, newEntry(r) PROVE UNCHANGED <<vpc, worker, err, block>>
  BY ZenonT(60), <1>1 DEF newEntry, validatorVars
<1>2. ASSUME latestBlockHeightUpdated \/ moveStake \/ Aside
      PROVE  UNCHANGED <<vpc, worker, err, block>>
  BY ZenonT(60), <1>2 DEF latestBlockHeightUpdated, moveStake, Aside, minerVars, validatorVars
<1>3. CASE mineBlock
  <2>1. mpc # "idle"
    BY ZenonT(60), <1>3
       DEF mineBlock, readMinerStake, readTotalStake, isRoundWinner, CreateBlock, MinerStep
  <2>2. vpc = "idle"
    BY ZenonT(60), <2>1 DEF MinerSound, ValidatorSound
  <2>3. UNCHANGED <<vpc, worker, err>>
    BY ZenonT(60), <1>3, MineFrame DEF validatorVars
  <2> QED BY ZenonT(60), <2>2, <2>3 DEF WorkersSound, AcceptedDecodes
<1>4. ASSUME NEW i \in TxIndex, goroutine(i) PROVE WorkersSound' /\ AcceptedDecodes'
  <2>1. vpc' = vpc /\ block' = block
    BY ZenonT(60), <1>4, GoroutineFrame DEF minerVars
  <2>2. AcceptedDecodes'
    BY ZenonT(60), <2>1 DEF AcceptedDecodes
  <2>3. i \in DOMAIN worker
    BY ZenonT(60), <1>4 DEF goroutine, VerifyTx, Unmarshal, checkErr, WorkerStep
  <2>4. CASE vpc = "txs"
    BY ZenonT(60), <1>4, <2>2, <2>4, WorkersMove
  <2>5. CASE vpc # "txs"
    <3>1. vpc \in {"accepted", "rejected"}
      BY ZenonT(60), <2>3, <2>5 DEF WorkersSound
    <3> QED BY ZenonT(60), <2>1, <2>2, <2>5, <3>1 DEF WorkersSound
  <2> QED BY ZenonT(60), <2>4, <2>5
<1>5. CASE ValidateBlock
  BY ZenonT(60), <1>5, WorkersAtValidate
<1> QED BY ZenonT(60), <1>1, <1>2, <1>3, <1>4, <1>5, StepKinds, WorkersSame

-----------------------------------------------------------------------------
(* The types.                                                              *)

MinerTypes ==
    /\ moves \in 0..MaxMoves /\ movedSince \in BOOLEAN /\ replaced \in BOOLEAN
    /\ latestBlockHeader \in Height /\ latestBlockHeader + 1 \in Height
    /\ mpc \in {"idle", "stake", "total", "elect", "create", "panic"}
    /\ round \in Round \cup {0} /\ (mpc \in {"stake", "total", "elect"} => round \in Round)
    /\ minerStake \in Nat /\ networkStake \in Nat
    /\ eproof \in Proof \cup {None} /\ (mpc = "create" => eproof \in Proof)
    /\ block \in Block \cup {None}

ValidatorTypes ==
    /\ latestHeight \in Height /\ localCache \subseteq Round
    /\ mStake \in Nat /\ nStake \in Nat /\ err \in BOOLEAN /\ cause \in Cause
    /\ vpc \in {"idle", "eligible", "entry", "stake", "total", "count", "txs",
                "accepted", "rejected", "panic"}
    /\ DOMAIN worker \subseteq Nat
    /\ \A i \in DOMAIN worker : worker[i] \in {"verify", "unmarshal", "check", "send", "exit"}

LEMMA StakesRead ==
    ASSUME StakesCovered
    PROVE  GetMinerStake(proposer) \in Nat /\ GetTotalStake \in Nat
BY ZenonT(60), StakesAreNumbers, ElectionAssumption DEF GetMinerStake, GetTotalStake

LEMMA MinerTypesStep == StakesCovered /\ MinerTypes /\ [Next]_vars => MinerTypes'
<1> SUFFICES ASSUME StakesCovered, MinerTypes, [Next]_vars PROVE MinerTypes'
  OBVIOUS
<1>1. ASSUME NEW r \in Round, newEntry(r) PROVE MinerTypes'
  BY ZenonT(60), <1>1 DEF newEntry, MinerTypes
<1>2. CASE readMinerStake \/ readTotalStake
  <2>1. minerStake' \in Nat /\ networkStake' \in Nat
    BY ZenonT(60), <1>2, StakesRead DEF readMinerStake, readTotalStake, MinerTypes
  <2>2. UNCHANGED <<moves, movedSince, replaced, latestBlockHeader, round, eproof, block>>
    BY ZenonT(60), <1>2 DEF readMinerStake, readTotalStake, MinerStep
  <2>3. mpc \in {"stake", "total"} /\ mpc' \in {"total", "elect", "idle"}
    BY ZenonT(60), <1>2 DEF readMinerStake, readTotalStake, MinerStep
  <2> QED BY ZenonT(60), <2>1, <2>2, <2>3 DEF MinerTypes
<1>3. CASE isRoundWinner
  <2>1. mpc = "elect" /\ UNCHANGED <<moves, movedSince, replaced, latestBlockHeader, round,
                                     minerStake, networkStake, block>>
    BY ZenonT(60), <1>3 DEF isRoundWinner, MinerStep
  <2>2. CASE mpc' \in {"panic", "idle"} /\ eproof' = eproof
    BY ZenonT(60), <2>1, <2>2 DEF MinerTypes
  <2>3. ASSUME networkStake # 0, NEW lhs \in Draw, mpc' = "create",
               eproof' = [round |-> round,
                          vrf |-> ComputeVRF(DrawRandomness(round, latestBlockHeader + 1), lhs),
                          winCount |-> ComputeWinCount(lhs, minerStake, networkStake)]
        PROVE  MinerTypes'
    <3>1. round \in Round /\ latestBlockHeader + 1 \in Height
      BY ZenonT(60), <2>1 DEF MinerTypes
    <3>2. ComputeWinCount(lhs, minerStake, networkStake) \in 0..MaxWinCount
      BY ZenonT(60), <2>3, WinCountBounded DEF MinerTypes
    <3>3. ComputeWinCount(lhs, minerStake, networkStake) \in Nat
      BY <3>2
    <3>4. DrawRandomness(round, latestBlockHeader + 1) \in Randomness
      BY <3>1 DEF DrawRandomness, Randomness
    <3>5. eproof' \in Proof
      BY <2>3, <3>1, <3>3, <3>4 DEF ComputeVRF, Proof
    <3> QED BY ZenonT(60), <2>1, <2>3, <3>5 DEF MinerTypes
  <2> QED BY ZenonT(60), <1>3, <2>2, <2>3 DEF isRoundWinner, MinerStep
<1>4. CASE CreateBlock
  <2>1. /\ mpc = "create" /\ mpc' = "idle" /\ eproof' = None
        /\ UNCHANGED <<moves, movedSince, replaced, latestBlockHeader, round, minerStake, networkStake>>
    BY ZenonT(60), <1>4 DEF CreateBlock, MinerStep
  <2>2. ASSUME NEW txs \in Data \ {<<>>},
               block' = [height |-> latestBlockHeader + 1, lastHash |-> latestBlockHeader,
                         eproof |-> eproof, data |-> txs]
        PROVE  block' \in Block \cup {None}
    BY <2>1, <2>2 DEF MinerTypes, Block
  <2>3. block' \in Block \cup {None}
    BY ZenonT(60), <1>4, <2>2 DEF CreateBlock, MinerTypes
  <2> QED BY ZenonT(60), <2>1, <2>3 DEF MinerTypes
<1>5. CASE latestBlockHeightUpdated
  <2>1. latestBlockHeader + 1 < MaxHeight /\ latestBlockHeader' = latestBlockHeader + 1
    BY ZenonT(60), <1>5 DEF latestBlockHeightUpdated
  <2>2. latestBlockHeader' \in Height /\ latestBlockHeader' + 1 \in Height
    BY <2>1, ElectionAssumption DEF MinerTypes, Height
  <2>3. UNCHANGED <<moves, movedSince, mpc, round, minerStake, networkStake, eproof, block>>
    BY ZenonT(60), <1>5 DEF latestBlockHeightUpdated
  <2>4. replaced' \in BOOLEAN
    BY ZenonT(60), <1>5 DEF latestBlockHeightUpdated
  <2> QED BY ZenonT(60), <2>2, <2>3, <2>4 DEF MinerTypes
<1>6. CASE moveStake
  <2>1. moves < MaxMoves /\ moves' = moves + 1 /\ movedSince' = TRUE /\ UNCHANGED <<replaced, minerVars>>
    BY ZenonT(60), <1>6 DEF moveStake
  <2>2. moves' \in 0..MaxMoves
    BY <2>1, ElectionAssumption DEF MinerTypes
  <2> QED BY ZenonT(60), <2>1, <2>2 DEF MinerTypes, minerVars
<1>7. CASE UNCHANGED <<moves, movedSince, replaced, minerVars>>
  BY ZenonT(60), <1>7 DEF MinerTypes, minerVars
<1>8. Aside => UNCHANGED <<moves, movedSince, replaced, minerVars>>
  BY ZenonT(60) DEF Aside
<1>9. ASSUME ValidateBlock \/ \E i \in TxIndex : goroutine(i)
      PROVE  UNCHANGED <<moves, movedSince, replaced, minerVars>>
  BY ZenonT(60), <1>9, ValidateFrame, GoroutineFrame
<1> QED
  BY ZenonT(60), <1>1, <1>2, <1>3, <1>4, <1>5, <1>6, <1>7, <1>8, <1>9, StepKinds DEF mineBlock

LEMMA ValidatorTypesStep ==
    StakesCovered /\ BlockSound /\ ValidatorSound /\ ValidatorTypes /\ [Next]_vars => ValidatorTypes'
<1> SUFFICES ASSUME StakesCovered, BlockSound, ValidatorSound, ValidatorTypes, [Next]_vars
             PROVE  ValidatorTypes'
  OBVIOUS
<1>1. CASE UNCHANGED validatorVars
  BY ZenonT(60), <1>1 DEF validatorVars, ValidatorTypes
<1>2. ASSUME mineBlock \/ latestBlockHeightUpdated \/ moveStake \/ \E r \in Round : newEntry(r)
      PROVE  UNCHANGED validatorVars
  BY ZenonT(60), <1>2, MineFrame DEF latestBlockHeightUpdated, moveStake, newEntry
<1>3. CASE Aside
  <2>1. latestHeight' \in Height
    BY <1>3, ElectionAssumption DEF Aside, ValidatorTypes, Height
  <2>2. localCache' \subseteq Round
    BY <1>3 DEF Aside, ValidatorTypes
  <2>3. UNCHANGED <<vpc, mStake, nStake, worker, err, cause>>
    BY ZenonT(60), <1>3 DEF Aside
  <2> QED BY ZenonT(60), <2>1, <2>2, <2>3 DEF ValidatorTypes
<1>4. ASSUME NEW i \in TxIndex, goroutine(i) PROVE ValidatorTypes'
  <2>1. UNCHANGED <<latestHeight, localCache, vpc, mStake, nStake, cause>>
    BY ZenonT(60), <1>4, GoroutineFrame
  <2>2. err' \in BOOLEAN
    BY ZenonT(60), <1>4 DEF goroutine, VerifyTx, Unmarshal, checkErr, ValidatorTypes
  <2>3. PICK to \in {"send", "unmarshal", "check", "exit"} : worker' = [worker EXCEPT ![i] = to]
    BY ZenonT(60), <1>4 DEF goroutine, VerifyTx, Unmarshal, checkErr, WorkerStep
  <2>4. /\ DOMAIN worker' \subseteq Nat
        /\ \A k \in DOMAIN worker' : worker'[k] \in {"verify", "unmarshal", "check", "send", "exit"}
    BY <2>3 DEF ValidatorTypes
  <2> QED BY ZenonT(60), <2>1, <2>2, <2>4 DEF ValidatorTypes
<1>5. CASE ValidateBlock
  <2>1. UNCHANGED <<block, latestHeight, localCache>>
    BY ZenonT(60), <1>5, ValidateFrame DEF minerVars
  <2>2. ASSUME UNCHANGED <<mStake, nStake, worker, err, cause>>,
               vpc' \in {"eligible", "entry", "stake", "txs", "accepted", "panic"}
        PROVE  ValidatorTypes'
    BY ZenonT(60), <2>1, <2>2 DEF ValidatorTypes
  <2>3. ASSUME NEW from, NEW why, Reject(from, why), why \in Cause PROVE ValidatorTypes'
    BY ZenonT(60), <2>1, <2>3 DEF Reject, ValidatorStep, ValidatorTypes
  <2>4. {"lastHash", "notWinner", "eth", "notEligible", "beacon", "vrf", "winCount", "tx"} \subseteq Cause
    BY DEF Cause
  <2>5. CASE checkHeader \/ IsMinerEligibleToProposeBlock \/ verifyElectionProof
    BY ZenonT(60), <2>2, <2>3, <2>4, <2>5
       DEF checkHeader, IsMinerEligibleToProposeBlock, verifyElectionProof, Continue, ValidatorStep
  <2>6. CASE GetStakeInfo
    <3>1. CASE Reject("stake", "eth") \/ Reject("total", "eth")
      BY ZenonT(60), <2>3, <2>4, <3>1
    <3>2. CASE /\ vpc' \in {"total", "count"}
               /\ mStake' \in Nat /\ nStake' \in Nat /\ UNCHANGED <<worker, err, cause>>
      BY ZenonT(60), <2>1, <3>2 DEF ValidatorTypes
    <3>3. mStake \in Nat /\ nStake \in Nat
      BY ZenonT(60) DEF ValidatorTypes
    <3> QED BY ZenonT(60), <2>6, <3>1, <3>2, <3>3, StakesRead DEF GetStakeInfo, ValidatorStep
  <2>7. CASE verifyWinCount
    <3>1. ASSUME vpc = "count", vpc' = "txs", UNCHANGED <<mStake, nStake, err, cause>>,
                 worker' = [i \in DOMAIN block.data |-> "verify"]
          PROVE  ValidatorTypes'
      <4>1. block.data \in Seq(TxKind)
        BY ZenonT(60), <3>1, ElectionAssumption DEF ValidatorSound, BlockSound
      <4>2. DOMAIN block.data \subseteq Nat
        BY <4>1
      <4>3. DOMAIN worker' \subseteq Nat /\ \A i \in DOMAIN worker' : worker'[i] = "verify"
        BY ZenonT(60), <3>1, <4>2
      <4> QED BY ZenonT(60), <2>1, <3>1, <4>3 DEF ValidatorTypes
    <3> QED BY ZenonT(60), <2>2, <2>3, <2>4, <2>7, <3>1 DEF verifyWinCount, Continue, ValidatorStep
  <2>8. CASE receiveResult
    <3>1. ASSUME NEW i \in DOMAIN worker, vpc' = "rejected", cause' = "tx",
                 worker' = [worker EXCEPT ![i] = "exit"], UNCHANGED <<mStake, nStake, err>>
          PROVE  ValidatorTypes'
      <4>1. /\ DOMAIN worker' \subseteq Nat
            /\ \A k \in DOMAIN worker' : worker'[k] \in {"verify", "unmarshal", "check", "send", "exit"}
        BY <3>1 DEF ValidatorTypes
      <4> QED BY ZenonT(60), <2>1, <2>4, <3>1, <4>1 DEF ValidatorTypes
    <3> QED BY ZenonT(60), <2>2, <2>8, <3>1 DEF receiveResult, Continue, ValidatorStep
  <2> QED BY ZenonT(60), <1>5, <2>5, <2>6, <2>7, <2>8 DEF ValidateBlock
<1> QED BY ZenonT(60), <1>1, <1>2, <1>3, <1>4, <1>5, StepKinds

-----------------------------------------------------------------------------
(* The inductive invariant as a whole.                                     *)

ElectionInv ==
    /\ now \in 0..MaxTime /\ StakesCovered /\ MinerTypes /\ ValidatorTypes
    /\ MinerSound /\ BlockSound /\ ValidatorSound /\ WorkersSound
    /\ ForCause /\ AcceptedDecodes

LEMMA InvTypes == ElectionInv => ElectionTypeOK
<1> SUFFICES ASSUME ElectionInv PROVE ElectionTypeOK
  OBVIOUS
<1>1. StakingTypeOK
  BY ZenonT(60), StakesAreNumbers DEF ElectionInv, StakesCovered, StakingTypeOK
<1> QED BY ZenonT(60), <1>1 DEF ElectionInv, MinerTypes, ValidatorTypes, ElectionTypeOK

LEMMA InitElection == Init => ElectionInv
<1> SUFFICES ASSUME Init PROVE ElectionInv
  OBVIOUS
<1>1. StakesCovered /\ now = 0
  BY ZenonT(60), InitStakesCovered DEF Init, StakingInit
<1>2. 0 \in 0..MaxTime /\ 0 \in 0..MaxMoves /\ 0 \in Height /\ 0 + 1 \in Height
  BY ElectionAssumption, StakingAssumption DEF Height
<1>3. MinerTypes
  BY ZenonT(60), <1>2 DEF Init, MinerTypes
<1>4. DOMAIN worker = {}
  BY DEF Init
<1>5. ValidatorTypes
  BY ZenonT(60), <1>2, <1>4 DEF Init, ValidatorTypes, Cause
<1>6. MinerSound /\ BlockSound /\ ValidatorSound /\ ForCause /\ AcceptedDecodes
  BY ZenonT(60) DEF Init, MinerSound, BlockSound, ValidatorSound, ForCause, AcceptedDecodes
<1>7. WorkersSound
  BY ZenonT(60), <1>4 DEF Init, WorkersSound
<1> QED BY ZenonT(60), <1>1, <1>2, <1>3, <1>5, <1>6, <1>7 DEF ElectionInv

LEMMA ElectionStep == ElectionInv /\ [Next]_vars => ElectionInv'
<1> SUFFICES ASSUME ElectionInv, [Next]_vars PROVE ElectionInv'
  OBVIOUS
<1>0. /\ now \in 0..MaxTime /\ StakesCovered /\ MinerTypes /\ ValidatorTypes
      /\ MinerSound /\ BlockSound /\ ValidatorSound /\ WorkersSound
      /\ ForCause /\ AcceptedDecodes
  BY ZenonT(60) DEF ElectionInv
<1>1. now' = now
  <2>1. ASSUME NEW r \in Round, newEntry(r) PROVE now' = now
    BY ZenonT(60), <2>1 DEF newEntry
  <2>2. ASSUME latestBlockHeightUpdated \/ moveStake \/ Aside PROVE now' = now
    BY ZenonT(60), <2>2 DEF latestBlockHeightUpdated, moveStake, Aside
  <2> QED BY ZenonT(60), <2>1, <2>2, StepKinds, MineFrame, ValidateFrame, GoroutineFrame
<1>2. StakesCovered'
  BY ZenonT(60), <1>0, StakesCoveredStep
<1>3. MinerTypes'
  BY ZenonT(60), <1>0, MinerTypesStep
<1>4. ValidatorTypes'
  BY ZenonT(60), <1>0, ValidatorTypesStep
<1>5. MinerSound' /\ BlockSound'
  BY ZenonT(60), <1>0, MinerSoundStep
<1>6. ElectionTypeOK
  BY ZenonT(60), InvTypes
<1>7. ValidatorSound' /\ ForCause'
  BY ZenonT(60), <1>0, <1>6, ValidatorSoundStep, ValidatorSame
<1>8. WorkersSound' /\ AcceptedDecodes'
  BY ZenonT(60), <1>0, WorkersStep
<1> QED BY ZenonT(60), <1>0, <1>1, <1>2, <1>3, <1>4, <1>5, <1>7, <1>8 DEF ElectionInv

LEMMA ElectionSound == Spec => []ElectionInv
BY InitElection, ElectionStep, PTL DEF Spec

(* What is read from Ethereum, elected and mined are numbers, proofs and   *)
(* blocks, whatever the stakes, the rounds and the draws are.              *)
THEOREM ElectionTypeCorrect == Spec => []ElectionTypeOK
BY InvTypes, ElectionSound, PTL

(* An honest block is turned down only for a reason that lies outside of   *)
(* the two nodes' computations, for any stakes, rounds, draws and lists of *)
(* transactions (MineBlock, miner.go; ValidateBlock, blockchain.go).       *)
THEOREM HonestBlocksFailForCause == Spec => []RejectedForCause
<1>1. ElectionInv => RejectedForCause
  BY ZenonT(60), CauseGiven DEF ElectionInv
<1> QED BY <1>1, ElectionSound, PTL

(* However the goroutines of ValidateBlock interleave on their shared      *)
(* error variable, an accepted block has a transaction that decodes, and   *)
(* none that the block's hash does not prove.                              *)
THEOREM AcceptedBlocksDecode == Spec => []AcceptedDecodes
<1>1. ElectionInv => AcceptedDecodes
  BY ZenonT(60) DEF ElectionInv
<1> QED BY <1>1, ElectionSound, PTL

(* lambda divides by zero only where the proposer itself has no stake, or  *)
(* where stakes moved between the reads of the stake and of the total.     *)
THEOREM PanicWithoutStake == Spec => []PanicNeedsNoStake
<1>1. ElectionInv => PanicNeedsNoStake
  BY ZenonT(60) DEF ElectionInv, MinerSound, ValidatorSound, PanicNeedsNoStake
<1> QED BY <1>1, ElectionSound, PTL
=============================================================================
