---------------------------- MODULE StakingProofs ---------------------------
(***************************************************************************)
(* Proofs about the staking contract, for any finite set of accounts and   *)
(* any amounts: the sums of stakes and balances, and how a call moves them. *)
(***************************************************************************)
EXTENDS Staking, FiniteSetTheorems, TLAPS

(* The backends a leaf is tried with, in this order, unless it names one.  *)
USE SMTT(60), Z3T(60), ZenonT(60)

-----------------------------------------------------------------------------
(* Induction over the subsets of a finite set.                             *)

LEMMA SmallestSubset ==
    ASSUME NEW A, IsFiniteSet(A), NEW T \in SUBSET SUBSET A, T # {}
    PROVE  \E s \in T : \A u \in T : ~(u \subseteq s /\ u # s)
<1>1. IsWellFoundedOn(StrictSubsetOrdering(A), FiniteSubsetsOf(A))
  BY FS_StrictSubsetOrderingWellFounded
<1>2. \A u \in SUBSET A : u \in FiniteSubsetsOf(A)
  BY FS_Subset DEF FiniteSubsetsOf
<1>3. T \subseteq FiniteSubsetsOf(A)
  BY <1>2
<1>4. \E s \in T : \A u \in T : ~(<<u, s>> \in StrictSubsetOrdering(A))
  BY ZenonT(60), <1>1, <1>3, WFMin
<1>5. \A u, s \in SUBSET A : u \subseteq s /\ u # s => <<u, s>> \in StrictSubsetOrdering(A)
  BY DEF StrictSubsetOrdering
<1> QED BY ZenonT(60), <1>4, <1>5

pick(s) == CHOOSE x \in s : TRUE

(* What the recursion behind Total defines, on the sets of D.              *)
IsSum(G, f, D) ==
    G = [s \in D |-> IF s = {} THEN 0 ELSE f[pick(s)] + G[s \ {pick(s)}]]

LEMMA LeastNumber ==
    ASSUME NEW T \in SUBSET Nat, T # {}
    PROVE  \E n \in T : \A k \in Nat : k < n => k \notin T
<1>1. \E n \in T : \A k \in T : ~(<<k, n>> \in OpToRel(<, Nat))
  BY ZenonT(60), NatLessThanWellFounded, WFMin
<1>2. \A k, n \in Nat : k < n => <<k, n>> \in OpToRel(<, Nat)
  BY DEF OpToRel
<1> QED BY ZenonT(60), <1>1, <1>2

LEMMA SumExists ==
    ASSUME NEW A, IsFiniteSet(A), NEW f
    PROVE  \E G : IsSum(G, f, SUBSET A)
<1> DEFINE D(n) == {s \in SUBSET A : Cardinality(s) <= n}
           T == {n \in Nat : ~\E G : IsSum(G, f, D(n))}
<1>1. ASSUME NEW s \in SUBSET A
      PROVE  Cardinality(s) \in Nat /\ Cardinality(s) <= Cardinality(A) /\ (Cardinality(s) = 0 <=> s = {})
  BY FS_Subset, FS_CardinalityType, FS_EmptySet
<1>2. ASSUME NEW s \in SUBSET A, s # {}
      PROVE  s \ {pick(s)} \in SUBSET A /\ Cardinality(s \ {pick(s)}) = Cardinality(s) - 1
  <2>1. pick(s) \in s
    BY <1>2 DEF pick
  <2> QED BY <2>1, FS_Subset, FS_RemoveElement
<1>3. D(0) = {{}}
  BY <1>1
<1>4. 0 \notin T
  <2> DEFINE G == [s \in D(0) |-> 0]
  <2>1. IsSum(G, f, D(0))
    BY <1>3 DEF IsSum
  <2> QED BY ZenonT(60), <2>1
<1>5. ASSUME NEW n \in Nat, n \notin T PROVE n + 1 \notin T
  <2>1. PICK G : IsSum(G, f, D(n))
    BY ZenonT(60), <1>5
  <2> DEFINE H == [s \in D(n + 1) |-> IF s = {} THEN 0 ELSE f[pick(s)] + G[s \ {pick(s)}]]
  <2>2. \A s \in D(n) : s \in D(n + 1)
    BY <1>1
  <2>3. \A s \in D(n + 1) : s # {} => s \ {pick(s)} \in D(n)
    BY <1>1, <1>2
  <2> HIDE DEF D
  <2>4. \A s \in D(n) : H[s] = G[s]
    BY ZenonT(60), <2>1, <2>2 DEF IsSum
  <2>5. IsSum(H, f, D(n + 1))
    BY ZenonT(60), <2>3, <2>4 DEF IsSum
  <2> QED BY ZenonT(60), <2>5
<1>6. T \in SUBSET Nat
  OBVIOUS
<1>7. Cardinality(A) \in Nat /\ D(Cardinality(A)) = SUBSET A
  BY <1>1, FS_CardinalityType
<1>8. SUFFICES ASSUME Cardinality(A) \in T PROVE FALSE
  BY ZenonT(60), <1>7
<1> HIDE DEF T
<1>9. PICK n \in T : \A k \in Nat : k < n => k \notin T
  BY ZenonT(60), <1>6, <1>8, LeastNumber
<1>10. n - 1 \in Nat /\ n - 1 < n /\ (n - 1) + 1 = n
  BY <1>4, <1>6, <1>9
<1> QED BY ZenonT(60), <1>5, <1>9, <1>10

(* Total unfolds to the sum over all subsets of the domain.                *)
LEMMA TotalIs ==
    ASSUME NEW f, NEW A, DOMAIN f = A, IsFiniteSet(A)
    PROVE  \E G : IsSum(G, f, SUBSET A) /\ Total(f) = G[A]
<1> DEFINE G == CHOOSE g : g = [s \in SUBSET A |-> IF s = {} THEN 0 ELSE f[pick(s)] + g[s \ {pick(s)}]]
<1>1. IsSum(G, f, SUBSET A)
  <2>1. \E g : IsSum(g, f, SUBSET A)
    BY ZenonT(60), SumExists
  <2> QED BY ZenonT(60), <2>1 DEF IsSum
<1>2. Total(f) = G[A]
  BY DEF Total, SumFunction, SumFunctionOnSet, FoldFunctionOnSet, MapThenFoldSet, pick
<1> QED BY ZenonT(60), <1>1, <1>2

(* What a sum over the subsets of A satisfies.                             *)
Sums(G, f, A) ==
    /\ G[{}] = 0
    /\ \A s \in SUBSET A : s # {} =>
          pick(s) \in s /\ G[s] = f[pick(s)] + G[s \ {pick(s)}]

LEMMA SumStep ==
    ASSUME NEW A, NEW f, NEW G, IsSum(G, f, SUBSET A)
    PROVE  Sums(G, f, A)
<1>0. G[{}] = 0
  <2>1. {} \in SUBSET A
    OBVIOUS
  <2> QED BY ZenonT(60), <2>1 DEF IsSum
<1> SUFFICES \A s \in SUBSET A : s # {} =>
                pick(s) \in s /\ G[s] = f[pick(s)] + G[s \ {pick(s)}]
  BY ZenonT(60), <1>0 DEF Sums
<1> TAKE s \in SUBSET A
<1> HAVE s # {}
<1>1. pick(s) \in s
  BY DEF pick
<1>2. G[s] = f[pick(s)] + G[s \ {pick(s)}]
  BY ZenonT(60) DEF IsSum
<1> QED BY ZenonT(60), <1>1, <1>2

(* the element picked first, holds of every finite set.                    *)
LEMMA SubsetInduction ==
    ASSUME NEW A, IsFiniteSet(A), NEW P, {} \in P,
           \A s \in SUBSET A : s # {} /\ s \ {pick(s)} \in P => s \in P
    PROVE  \A s \in SUBSET A : s \in P
<1> DEFINE T == {s \in SUBSET A : s \notin P}
<1> SUFFICES ASSUME T # {} PROVE FALSE
  BY ZenonT(60)
<1>1. PICK s \in T : \A u \in T : ~(u \subseteq s /\ u # s)
  <2>1. T \in SUBSET SUBSET A
    OBVIOUS
  <2> HIDE DEF T
  <2> QED BY <2>1, SmallestSubset
<1>2. s \in SUBSET A /\ s \notin P /\ s # {}
  BY ZenonT(60), <1>1
<1>3. pick(s) \in s
  BY <1>2 DEF pick
<1>4. s \ {pick(s)} \notin P
  BY ZenonT(60), <1>2
<1>5. s \ {pick(s)} \in T /\ s \ {pick(s)} \subseteq s /\ s \ {pick(s)} # s
  BY <1>2, <1>3, <1>4
<1> QED BY ZenonT(60), <1>1, <1>5

(* The sum of numbers is a number, and none of them is larger.             *)
LEMMA SumBounds ==
    ASSUME NEW A, IsFiniteSet(A), NEW f \in [A -> Nat], NEW G, Sums(G, f, A)
    PROVE  \A s \in SUBSET A : G[s] \in Nat /\ \A a \in s : f[a] <= G[s]
<1> DEFINE Q(s) == G[s] \in Nat /\ \A a \in s : f[a] <= G[s]
           P == {s \in SUBSET A : Q(s)}
<1>0. \A s \in SUBSET A : s # {} =>
         pick(s) \in s /\ G[s] = f[pick(s)] + G[s \ {pick(s)}]
  BY ZenonT(60) DEF Sums
<1>1. {} \in P
  <2>1. G[{}] = 0
    BY ZenonT(60) DEF Sums
  <2> QED BY <2>1
<1>2. ASSUME NEW s \in SUBSET A, s # {}, s \ {pick(s)} \in P PROVE s \in P
  <2> DEFINE c == pick(s)
             u == s \ {c}
  <2>0. s # {}
    BY <1>2
  <2>1. c \in s /\ G[s] = f[c] + G[u]
    BY ZenonT(60), <2>0, <1>0
  <2>2. G[u] \in Nat /\ \A a \in u : f[a] <= G[u]
    BY ZenonT(60), <1>2
  <2> HIDE DEF c
  <2>3. f[c] \in Nat /\ \A a \in s : f[a] \in Nat /\ (a = c \/ a \in u)
    BY <2>1
  <2> HIDE DEF u
  <2>4. PICK x \in Nat, y \in Nat : x = f[c] /\ y = G[u]
    BY ZenonT(60), <2>2, <2>3
  <2>5. \A a \in s : f[a] \in Nat /\ (f[a] = x \/ f[a] <= y)
    BY ZenonT(60), <2>2, <2>3, <2>4
  <2>6. x + y \in Nat /\ \A a \in s : f[a] <= x + y
    BY <2>5
  <2> QED BY ZenonT(60), <2>1, <2>4, <2>6
<1> HIDE DEF P
<1>3. \A s \in SUBSET A : s \in P
  BY ZenonT(60), <1>1, <1>2, SubsetInduction
<1> QED BY ZenonT(60), <1>3 DEF P

(* What the sums of f and of g over the subsets of A differ by.            *)
Differs(K, f, g, A) ==
    /\ K \in [SUBSET A -> Int] /\ K[{}] = 0
    /\ \A s \in SUBSET A : \A a \in s : K[s] = K[s \ {a}] + (g[a] - f[a])

(* Two sums differ by what their summands differ by.                       *)
LEMMA SumDiff ==
    ASSUME NEW A, IsFiniteSet(A), NEW f \in [A -> Nat], NEW g \in [A -> Nat],
           NEW G, NEW H, Sums(G, f, A), Sums(H, g, A), NEW K, Differs(K, f, g, A)
    PROVE  \A s \in SUBSET A : G[s] \in Int /\ H[s] = G[s] + K[s]
<1> DEFINE P == {s \in SUBSET A : G[s] \in Int /\ H[s] = G[s] + K[s]}
<1>K. K \in [SUBSET A -> Int] /\ K[{}] = 0
  BY ZenonT(60) DEF Differs
<1>0. /\ G[{}] = 0 /\ H[{}] = 0
      /\ \A s \in SUBSET A : s # {} =>
            pick(s) \in s /\ G[s] = f[pick(s)] + G[s \ {pick(s)}]
      /\ \A s \in SUBSET A : s # {} =>
            pick(s) \in s /\ H[s] = g[pick(s)] + H[s \ {pick(s)}]
  BY ZenonT(60) DEF Sums
<1>1. {} \in P
  <2>1. G[{}] \in Int /\ G[{}] + K[{}] = 0
    BY <1>0, <1>K
  <2> QED BY <1>0, <2>1
<1>2. ASSUME NEW s \in SUBSET A, s # {}, s \ {pick(s)} \in P PROVE s \in P
  <2> DEFINE c == pick(s)
             u == s \ {c}
  <2>0. s # {}
    BY <1>2
  <2>1. c \in s /\ G[s] = f[c] + G[u] /\ H[s] = g[c] + H[u]
    BY ZenonT(60), <2>0, <1>0
  <2>2. G[u] \in Int /\ H[u] = G[u] + K[u]
    BY ZenonT(60), <1>2
  <2> HIDE DEF c
  <2>3. K[s] = K[u] + (g[c] - f[c])
    BY ZenonT(60), <2>1 DEF Differs
  <2>4. c \in A /\ u \in SUBSET A
    BY <2>1
  <2> HIDE DEF u
  <2>5. PICK x \in Nat, y \in Nat, z \in Int, k \in Int :
           x = f[c] /\ y = g[c] /\ z = G[u] /\ k = K[u]
    <3>1. f[c] \in Nat /\ g[c] \in Nat
      BY <2>4
    <3>2. K[u] \in Int
      BY <2>4, <1>K
    <3> QED BY ZenonT(60), <2>2, <3>1, <3>2
  <2>6. G[s] = x + z /\ H[s] = y + (z + k) /\ K[s] = k + (y - x)
    BY ZenonT(60), <2>1, <2>2, <2>3, <2>5
  <2>7. x + z \in Int /\ y + (z + k) = (x + z) + (k + (y - x))
    OBVIOUS
  <2> QED BY ZenonT(60), <2>6, <2>7
<1> HIDE DEF P
<1>3. \A s \in SUBSET A : s \in P
  BY ZenonT(60), <1>1, <1>2, SubsetInduction
<1> QED BY ZenonT(60), <1>3 DEF P

(* What Total is: a number that no summand exceeds, and which changes by   *)
(* what the summands change by.                                            *)
LEMMA TotalBounds ==
    ASSUME NEW A, IsFiniteSet(A), NEW f \in [A -> Nat]
    PROVE  Total(f) \in Nat /\ \A a \in A : f[a] <= Total(f)
<1>1. DOMAIN f = A
  OBVIOUS
<1>2. PICK G : Sums(G, f, A) /\ Total(f) = G[A]
  BY ZenonT(60), <1>1, TotalIs, SumStep
<1>3. \A s \in SUBSET A : G[s] \in Nat /\ \A a \in s : f[a] <= G[s]
  BY ZenonT(60), <1>2, SumBounds
<1>4. A \in SUBSET A
  OBVIOUS
<1> QED BY ZenonT(60), <1>2, <1>3, <1>4

LEMMA TotalDiff ==
    ASSUME NEW A, IsFiniteSet(A), NEW f \in [A -> Nat], NEW g \in [A -> Nat],
           NEW K, Differs(K, f, g, A)
    PROVE  Total(g) = Total(f) + K[A]
<1>1. DOMAIN f = A /\ DOMAIN g = A /\ A \in SUBSET A
  OBVIOUS
<1>2. PICK G : Sums(G, f, A) /\ Total(f) = G[A]
  BY ZenonT(60), <1>1, TotalIs, SumStep
<1>3. PICK H : Sums(H, g, A) /\ Total(g) = H[A]
  BY ZenonT(60), <1>1, TotalIs, SumStep
<1>4. \A s \in SUBSET A : G[s] \in Int /\ H[s] = G[s] + K[s]
  BY <1>2, <1>3, SumDiff
<1> QED BY ZenonT(60), <1>1, <1>2, <1>3, <1>4

(* f with the value v at a.                                                *)
Updated(g, f, a, v) == g = [f EXCEPT ![a] = v]

LEMMA TotalUpdate ==
    ASSUME NEW A, IsFiniteSet(A), NEW f \in [A -> Nat], NEW a \in A, NEW v \in Nat,
           NEW g, Updated(g, f, a, v)
    PROVE  g \in [A -> Nat] /\ Total(g) = Total(f) + (v - f[a])
<1> DEFINE K == [s \in SUBSET A |-> IF a \in s THEN v - f[a] ELSE 0]
<1>2. g \in [A -> Nat] /\ g[a] = v /\ \A b \in A : b # a => g[b] = f[b]
  BY DEF Updated
<1>3. K \in [SUBSET A -> Int] /\ K[{}] = 0 /\ K[A] = v - f[a]
  OBVIOUS
<1>4. ASSUME NEW s \in SUBSET A, NEW b \in s PROVE K[s] = K[s \ {b}] + (g[b] - f[b])
  <2>0. b \in A /\ f[b] \in Nat /\ f[a] \in Nat
    OBVIOUS
  <2>1. CASE b = a
    <3>1. K[s] = v - f[a] /\ K[s \ {b}] = 0
      BY <2>1
    <3> HIDE DEF K
    <3>2. g[b] = v /\ f[b] = f[a]
      BY ZenonT(60), <1>2, <2>1
    <3> QED BY <2>0, <3>1, <3>2
  <2>2. CASE b # a
    <3>1. K[s] = K[s \ {b}]
      BY <2>2
    <3>2. K[s \ {b}] \in Int
      BY <1>3
    <3> HIDE DEF K
    <3>3. g[b] = f[b]
      BY ZenonT(60), <1>2, <2>0, <2>2
    <3> QED BY <2>0, <3>1, <3>2, <3>3
  <2> QED BY ZenonT(60), <2>1, <2>2
<1> HIDE DEF K
<1>5. Differs(K, f, g, A)
  BY ZenonT(60), <1>3, <1>4 DEF Differs
<1>6. Total(g) = Total(f) + K[A]
  BY ZenonT(60), <1>2, <1>5, TotalDiff
<1> QED BY ZenonT(60), <1>2, <1>3, <1>6

LEMMA ListDomain ==
    ASSUME NEW A, NEW r \in Seq(A)
    PROVE  IsFiniteSet(DOMAIN r) /\ Cardinality(DOMAIN r) = Len(r) /\ Len(r) \in Nat
<1>1. DOMAIN r = 1..Len(r) /\ Len(r) \in Nat
  OBVIOUS
<1>2. PICK k \in Nat : k = Len(r)
  BY ZenonT(60), <1>1
<1>3. 1 \in Int /\ k \in Int
  OBVIOUS
<1>4. IsFiniteSet(1..k) /\ Cardinality(1..k) = IF 1 > k THEN 0 ELSE k - 1 + 1
  BY ZenonT(60), <1>3, FS_Interval
<1>5. (IF 1 > k THEN 0 ELSE k - 1 + 1) = k
  OBVIOUS
<1> QED BY ZenonT(60), <1>1, <1>2, <1>4, <1>5

LEMMA EntriesCount ==
    ASSUME NEW A, NEW r \in Seq(A), NEW a
    PROVE  IsFiniteSet(Entries(r, a)) /\ Cardinality(Entries(r, a)) \in Nat
<1>1. IsFiniteSet(DOMAIN r)
  BY ZenonT(60), ListDomain
<1>2. Entries(r, a) \subseteq DOMAIN r
  BY DEF Entries
<1> QED BY <1>1, <1>2, FS_Subset, FS_CardinalityType

(* g is f once m has handed out n to each entry of r.                      *)
HandsOut(g, A, f, m, r, n) ==
    /\ f \in [A -> Nat] /\ m \in A /\ r \in Seq(A) /\ (\A i \in DOMAIN r : r[i] # m)
    /\ n \in Nat /\ n * Len(r) <= f[m]
    /\ g = [a \in A |-> IF a = m THEN f[a] - n * Len(r) ELSE f[a] + n * Cardinality(Entries(r, a))]

(* Shares of an amount that are handed out, one for each entry of a list   *)
(* that does not name the giver, leave the total as it is.                 *)
LEMMA TotalShares ==
    ASSUME NEW A, IsFiniteSet(A), NEW f, NEW g, NEW m, NEW r, NEW n, HandsOut(g, A, f, m, r, n)
    PROVE  g \in [A -> Nat] /\ Total(g) = Total(f)
<1> DEFINE I(s) == {i \in DOMAIN r : r[i] \in s}
           L == Len(r)
           K == [s \in SUBSET A |-> n * Cardinality(I(s)) - (IF m \in s THEN n * L ELSE 0)]
<1>0. /\ f \in [A -> Nat] /\ m \in A /\ r \in Seq(A) /\ (\A i \in DOMAIN r : r[i] # m)
      /\ n \in Nat /\ n * Len(r) <= f[m]
  BY ZenonT(60) DEF HandsOut
<1> USE <1>0
<1>1. IsFiniteSet(DOMAIN r) /\ Cardinality(DOMAIN r) = L /\ L \in Nat
  BY ZenonT(60), ListDomain
<1>2. ASSUME NEW s
      PROVE  IsFiniteSet(I(s)) /\ Cardinality(I(s)) \in Nat
  <2>1. I(s) \subseteq DOMAIN r
    OBVIOUS
  <2> HIDE DEF I
  <2> QED BY <1>1, <2>1, FS_Subset, FS_CardinalityType
<1>3. ASSUME NEW a
      PROVE  IsFiniteSet(Entries(r, a)) /\ Cardinality(Entries(r, a)) \in Nat
  BY ZenonT(60), EntriesCount
<1>4. Cardinality(I({})) = 0 /\ Cardinality(I(A)) = L /\ Cardinality(Entries(r, m)) = 0
  <2>0. \A i \in DOMAIN r : r[i] \in A
    OBVIOUS
  <2>1. I({}) = {} /\ I(A) = DOMAIN r /\ Entries(r, m) = {}
    BY ZenonT(60), <2>0 DEF Entries
  <2> HIDE DEF I
  <2> QED BY ZenonT(60), <1>1, <2>1, FS_EmptySet
<1>5. ASSUME NEW s \in SUBSET A, NEW a \in s
      PROVE  Cardinality(I(s)) = Cardinality(I(s \ {a})) + Cardinality(Entries(r, a))
  <2>1. I(s) = I(s \ {a}) \cup Entries(r, a) /\ I(s \ {a}) \cap Entries(r, a) = {}
    BY DEF Entries
  <2>2. PICK u, v : u = I(s \ {a}) /\ v = Entries(r, a)
    BY ZenonT(60)
  <2> HIDE DEF I
  <2>3. IsFiniteSet(u) /\ IsFiniteSet(v) /\ u \cap v = {}
    BY ZenonT(60), <1>2, <1>3, <2>1, <2>2
  <2>4. Cardinality(u \cup v) = Cardinality(u) + Cardinality(v)
    <3>1. Cardinality(u \cup v) = Cardinality(u) + Cardinality(v) - Cardinality(u \cap v)
      BY ZenonT(60), <2>3, FS_Union
    <3>2. Cardinality(u \cap v) = 0
      BY ZenonT(60), <2>3, FS_EmptySet
    <3>3. Cardinality(u) \in Nat /\ Cardinality(v) \in Nat
      BY ZenonT(60), <2>3, FS_CardinalityType
    <3> QED BY <3>1, <3>2, <3>3
  <2> QED BY ZenonT(60), <2>1, <2>2, <2>4
<1>6. \A x, y \in Nat : n * x \in Nat /\ n * (x + y) = n * x + n * y
  OBVIOUS
<1>7. n * 0 = 0
  OBVIOUS
<1>8. g \in [A -> Nat]
  <2>1. ASSUME NEW a \in A PROVE g[a] \in Nat
    <3>1. CASE a = m
      <4>1. g[a] = f[a] - n * Len(r)
        BY <3>1 DEF HandsOut
      <4>2. f[a] \in Nat /\ n * Len(r) \in Nat /\ n * Len(r) <= f[a]
        BY <1>1, <1>6, <3>1
      <4> QED BY <4>1, <4>2
    <3>2. CASE a # m
      <4>1. g[a] = f[a] + n * Cardinality(Entries(r, a))
        BY <3>2 DEF HandsOut
      <4>2. f[a] \in Nat /\ n * Cardinality(Entries(r, a)) \in Nat
        BY <1>3, <1>6
      <4> QED BY <4>1, <4>2
    <3> QED BY ZenonT(60), <3>1, <3>2
  <2>2. g = [a \in A |-> g[a]]
    BY DEF HandsOut
  <2> QED BY ZenonT(60), <2>1, <2>2
<1>9. /\ g[m] = f[m] - n * L
      /\ \A a \in A : a # m => g[a] = f[a] + n * Cardinality(Entries(r, a))
  BY DEF HandsOut
<1>10. ASSUME NEW s \in SUBSET A
       PROVE  K[s] = n * Cardinality(I(s)) - (IF m \in s THEN n * L ELSE 0)
  BY ZenonT(60)
<1>11. n * L \in Nat /\ K \in [SUBSET A -> Int]
  <2>1. n * L \in Nat
    BY ZenonT(60), <1>1, <1>6
  <2>2. ASSUME NEW s \in SUBSET A PROVE K[s] \in Int
    <3>1. n * Cardinality(I(s)) \in Nat
      BY ZenonT(60), <1>2, <1>6
    <3> HIDE DEF L, I, K
    <3> QED BY <1>10, <2>1, <3>1
  <2>3. K = [s \in SUBSET A |-> K[s]]
    BY ZenonT(60)
  <2> HIDE DEF K
  <2> QED BY ZenonT(60), <2>1, <2>2, <2>3
<1> HIDE DEF I, L, K
<1>12. K[{}] = 0 /\ K[A] = 0
  <2>1. K[{}] = n * 0
    <3>1. K[{}] = n * Cardinality(I({})) - 0
      BY ZenonT(60), <1>10
    <3> QED BY <1>4, <1>7, <3>1
  <2>2. K[A] = n * L - n * L
    BY <1>4, <1>10
  <2> QED BY <1>7, <1>11, <2>1, <2>2
<1>13. ASSUME NEW s \in SUBSET A, NEW a \in s PROVE K[s] = K[s \ {a}] + (g[a] - f[a])
  <2>1. PICK x \in Nat, y \in Nat : x = Cardinality(I(s \ {a})) /\ y = Cardinality(Entries(r, a))
    BY ZenonT(60), <1>2, <1>3
  <2>2. a \in A /\ f[a] \in Nat /\ s \ {a} \in SUBSET A
    OBVIOUS
  <2>3. Cardinality(I(s)) = x + y /\ n * (x + y) = n * x + n * y /\ n * x \in Nat /\ n * y \in Nat
    BY ZenonT(60), <1>5, <1>6, <2>1
  <2>4. K[s] = (n * x + n * y) - (IF m \in s THEN n * L ELSE 0)
    BY ZenonT(60), <1>10, <2>3
  <2>5. K[s \ {a}] = n * x - (IF m \in s \ {a} THEN n * L ELSE 0)
    BY ZenonT(60), <1>10, <2>1, <2>2
  <2>6. CASE a = m
    <3>1. y = 0 /\ m \in s /\ m \notin s \ {a}
      BY <1>4, <2>1, <2>6
    <3>2. n * y = 0 /\ g[a] = f[a] - n * L
      BY ZenonT(60), <1>7, <1>9, <2>6, <3>1
    <3> QED BY <1>11, <2>2, <2>3, <2>4, <2>5, <3>1, <3>2
  <2>7. CASE a # m
    <3>1. g[a] = f[a] + n * y
      BY ZenonT(60), <1>9, <2>1, <2>2, <2>7
    <3>2. m \in s <=> m \in s \ {a}
      BY <2>7
    <3>3. PICK d \in Nat : d = IF m \in s THEN n * L ELSE 0
      BY <1>11
    <3>4. K[s] = (n * x + n * y) - d /\ K[s \ {a}] = n * x - d
      BY ZenonT(60), <2>4, <2>5, <3>2, <3>3
    <3> QED BY <2>2, <2>3, <3>1, <3>4
  <2> QED BY ZenonT(60), <2>6, <2>7
<1>14. Differs(K, f, g, A)
  BY ZenonT(60), <1>11, <1>12, <1>13 DEF Differs
<1>15. Total(g) = Total(f) + K[A]
  BY ZenonT(60), <1>8, <1>14, TotalDiff
<1>16. Total(f) \in Nat
  BY TotalBounds
<1> QED BY <1>8, <1>12, <1>15, <1>16
-----------------------------------------------------------------------------
(* The calls of the contract.                                              *)

(* The stakes add up to the total and to what the contract holds.          *)
StakesCovered ==
    /\ balance \in [Account -> Nat] /\ amount \in [Account -> Nat]
    /\ totalStake = Total(amount) /\ pool = totalStake

Tokens == pool + Total(balance)

LEMMA StakesAreNumbers ==
    ASSUME StakesCovered
    PROVE  /\ totalStake \in Nat /\ pool \in Nat /\ Total(balance) \in Nat
           /\ Tokens \in Nat
           /\ \A a \in Account : amount[a] \in Nat /\ amount[a] <= totalStake
<1>0. IsFiniteSet(Account)
  BY StakingAssumption
<1>1. balance \in [Account -> Nat] /\ amount \in [Account -> Nat]
  BY DEF StakesCovered
<1>2. Total(amount) \in Nat /\ \A a \in Account : amount[a] <= Total(amount)
  BY ZenonT(60), <1>0, <1>1, TotalBounds
<1>3. Total(balance) \in Nat
  BY ZenonT(60), <1>0, <1>1, TotalBounds
<1>4. totalStake = Total(amount) /\ pool = Total(amount)
  BY ZenonT(60) DEF StakesCovered
<1>5. \A a \in Account : amount[a] \in Nat
  BY <1>1
<1>6. Tokens \in Nat
  BY <1>2, <1>3, <1>4 DEF Tokens
<1> QED BY ZenonT(60), <1>2, <1>3, <1>4, <1>5, <1>6

(* One account's stake and balance change, and the sums with them.         *)
LEMMA AccountMoves ==
    ASSUME StakesCovered, NEW a \in Account, NEW v \in Nat, NEW w \in Nat,
           Updated(amount', amount, a, v), Updated(balance', balance, a, w),
           totalStake' = totalStake + (v - amount[a]), pool' = pool + (v - amount[a])
    PROVE  StakesCovered' /\ Tokens' = Tokens + (v - amount[a]) + (w - balance[a])
<1>0. IsFiniteSet(Account)
  BY StakingAssumption
<1>1. balance \in [Account -> Nat] /\ amount \in [Account -> Nat]
  BY DEF StakesCovered
<1>2. amount' \in [Account -> Nat] /\ Total(amount') = Total(amount) + (v - amount[a])
  BY <1>0, <1>1, TotalUpdate
<1>3. balance' \in [Account -> Nat] /\ Total(balance') = Total(balance) + (w - balance[a])
  BY <1>0, <1>1, TotalUpdate
<1>4. totalStake = Total(amount) /\ pool = totalStake
  BY ZenonT(60) DEF StakesCovered
<1>5. StakesCovered'
  BY ZenonT(60), <1>2, <1>3, <1>4 DEF StakesCovered
<1>6. pool \in Nat /\ Total(balance) \in Nat /\ amount[a] \in Nat /\ balance[a] \in Nat
  BY <1>1, StakesAreNumbers
<1>7. Tokens' = (pool + (v - amount[a])) + (Total(balance) + (w - balance[a]))
  BY ZenonT(60), <1>3 DEF Tokens
<1>8. Tokens' = (pool + Total(balance)) + (v - amount[a]) + (w - balance[a])
  BY <1>6, <1>7
<1> QED BY ZenonT(60), <1>5, <1>8 DEF Tokens

(* Staking and withdrawing move tokens between an account and the contract. *)
LEMMA StakeCall ==
    ASSUME StakesCovered, NEW a \in Account, NEW n \in Amount, stake(a, n)
    PROVE  StakesCovered' /\ Tokens' = Tokens
<1>1. n \in Nat
  BY StakingAssumption
<1>2. /\ amount[a] \in Nat /\ balance[a] \in Nat /\ totalStake \in Nat /\ pool \in Nat
      /\ Tokens \in Nat
  BY StakesAreNumbers DEF StakesCovered
<1>3. /\ balance[a] >= n /\ totalStake' = totalStake + n /\ pool' = pool + n
      /\ amount' = [amount EXCEPT ![a] = amount[a] + n]
      /\ balance' = [balance EXCEPT ![a] = balance[a] - n]
  BY ZenonT(60) DEF stake
<1>4. PICK v \in Nat, w \in Nat : v = amount[a] + n /\ w = balance[a] - n
  BY <1>1, <1>2, <1>3
<1>5. Updated(amount', amount, a, v) /\ Updated(balance', balance, a, w)
  BY ZenonT(60), <1>3, <1>4 DEF Updated
<1>6. v - amount[a] = n /\ w - balance[a] = -n
  BY <1>1, <1>2, <1>4
<1>7. totalStake' = totalStake + (v - amount[a]) /\ pool' = pool + (v - amount[a])
  BY ZenonT(60), <1>3, <1>6
<1>8. StakesCovered' /\ Tokens' = Tokens + (v - amount[a]) + (w - balance[a])
  BY ZenonT(60), <1>5, <1>7, AccountMoves
<1>9. Tokens' = Tokens + n + (-n)
  BY ZenonT(60), <1>6, <1>8
<1> QED BY <1>1, <1>2, <1>8, <1>9

LEMMA WithdrawCall ==
    ASSUME StakesCovered, NEW a \in Account, NEW n \in Amount, withdraw(a, n)
    PROVE  StakesCovered' /\ Tokens' = Tokens
<1>1. n \in Nat
  BY StakingAssumption
<1>2. /\ amount[a] \in Nat /\ balance[a] \in Nat /\ totalStake \in Nat /\ pool \in Nat
      /\ Tokens \in Nat
  BY StakesAreNumbers DEF StakesCovered
<1>3. /\ amount[a] >= n /\ totalStake' = totalStake - n /\ pool' = pool - n
      /\ amount' = [amount EXCEPT ![a] = amount[a] - n]
      /\ balance' = [balance EXCEPT ![a] = balance[a] + n]
  BY ZenonT(60) DEF withdraw
<1>4. PICK v \in Nat, w \in Nat : v = amount[a] - n /\ w = balance[a] + n
  BY <1>1, <1>2, <1>3
<1>5. Updated(amount', amount, a, v) /\ Updated(balance', balance, a, w)
  BY ZenonT(60), <1>3, <1>4 DEF Updated
<1>6. v - amount[a] = -n /\ w - balance[a] = n
  BY <1>1, <1>2, <1>4
<1>7. totalStake' = totalStake + (-n) /\ pool' = pool + (-n)
  BY <1>1, <1>2, <1>3
<1>8. totalStake' = totalStake + (v - amount[a]) /\ pool' = pool + (v - amount[a])
  BY ZenonT(60), <1>6, <1>7
<1>9. StakesCovered' /\ Tokens' = Tokens + (v - amount[a]) + (w - balance[a])
  BY ZenonT(60), <1>5, <1>8, AccountMoves
<1>10. Tokens' = Tokens + (-n) + n
  BY ZenonT(60), <1>6, <1>9
<1> QED BY <1>1, <1>2, <1>9, <1>10

(* A reward is the one call that brings tokens into being.                 *)
LEMMA RewardCall ==
    ASSUME StakesCovered, NEW a \in Account, mineAndStake(a)
    PROVE  StakesCovered' /\ Tokens' = Tokens + minerReward
<1> DEFINE n == minerReward
<1>1. n \in Nat
  BY StakingAssumption
<1>2. /\ amount[a] \in Nat /\ balance[a] \in Nat /\ totalStake \in Nat /\ pool \in Nat
      /\ Tokens \in Nat
  BY StakesAreNumbers DEF StakesCovered
<1>3. /\ totalStake' = totalStake + n /\ pool' = pool + n /\ balance' = balance
      /\ amount' = [amount EXCEPT ![a] = amount[a] + n]
  BY ZenonT(60) DEF mineAndStake
<1> HIDE DEF n
<1>4. PICK v \in Nat, w \in Nat : v = amount[a] + n /\ w = balance[a]
  BY <1>1, <1>2
<1>5. balance = [balance EXCEPT ![a] = w]
  BY <1>4 DEF StakesCovered
<1>6. Updated(amount', amount, a, v) /\ Updated(balance', balance, a, w)
  BY ZenonT(60), <1>3, <1>4, <1>5 DEF Updated
<1>7. v - amount[a] = n /\ w - balance[a] = 0
  BY <1>1, <1>2, <1>4
<1>8. totalStake' = totalStake + (v - amount[a]) /\ pool' = pool + (v - amount[a])
  BY ZenonT(60), <1>3, <1>7
<1>9. StakesCovered' /\ Tokens' = Tokens + (v - amount[a]) + (w - balance[a])
  BY ZenonT(60), <1>6, <1>8, AccountMoves
<1>10. Tokens' = Tokens + n + 0
  BY ZenonT(60), <1>7, <1>9
<1> QED BY <1>1, <1>2, <1>9, <1>10 DEF n

LEMMA Division ==
    ASSUME NEW k \in Nat, NEW n \in Nat \ {0}
    PROVE  k \div n \in Nat /\ (k \div n) * n \in Nat /\ (k \div n) * n <= k
OBVIOUS

(* Slashing moves stakes among the accounts: what the division leaves over *)
(* stays with the miner.                                                   *)
LEMMA SlashCall ==
    ASSUME StakesCovered, NEW m \in Account, NEW s \in Seq(Account), s # <<>>,
           CanSlash(m, s), slashMiner(m, s)
    PROVE  StakesCovered' /\ Tokens' = Tokens
<1>0. IsFiniteSet(Account) /\ amount \in [Account -> Nat] /\ amount[m] \in Nat
  BY StakingAssumption DEF StakesCovered
<1>1. \A i \in DOMAIN s : s[i] # m
  BY ZenonT(60) DEF CanSlash, Range
<1>2. Len(s) \in Nat \ {0}
  OBVIOUS
<1>3. PICK n : n = amount[m] \div Len(s)
  BY ZenonT(60)
<1>4. n \in Nat /\ n * Len(s) <= amount[m]
  BY ZenonT(60), <1>0, <1>2, <1>3, Division
<1>5. HandsOut(amount', Account, amount, m, s, n)
  <2>1. amount' = [a \in Account |-> IF a = m THEN amount[a] - n * Len(s)
                                     ELSE amount[a] + n * Cardinality(Entries(s, a))]
    BY ZenonT(60), <1>3 DEF slashMiner
  <2> QED BY ZenonT(60), <1>0, <1>1, <1>4, <2>1 DEF HandsOut
<1>6. amount' \in [Account -> Nat] /\ Total(amount') = Total(amount)
  BY ZenonT(60), <1>0, <1>5, TotalShares
<1>7. balance' = balance /\ totalStake' = totalStake /\ pool' = pool
  BY ZenonT(60) DEF slashMiner
<1> QED BY ZenonT(60), <1>6, <1>7 DEF StakesCovered, Tokens

LEMMA SupplyIsNumber == Supply \in Nat
<1>1. IsFiniteSet(Account) /\ Holding \in [Account -> Nat] /\ Spare \in [Account -> Nat]
  BY StakingAssumption
<1>2. Total(Holding) \in Nat /\ Total(Spare) \in Nat
  BY ZenonT(60), <1>1, TotalBounds
<1> QED BY <1>2 DEF Supply

LEMMA InitStakesCovered ==
    ASSUME StakingInit
    PROVE  StakesCovered /\ Tokens = Supply
<1>1. Holding \in [Account -> Nat] /\ Spare \in [Account -> Nat]
  BY StakingAssumption
<1>2. StakesCovered
  BY ZenonT(60), <1>1 DEF StakingInit, StakesCovered
<1>3. Tokens = Supply
  BY ZenonT(60) DEF StakingInit, Tokens, Supply
<1> QED BY <1>2, <1>3
=============================================================================
