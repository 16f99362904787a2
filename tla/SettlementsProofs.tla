------------------------- MODULE SettlementsProofs -------------------------
(***************************************************************************)
(* The fee arithmetic for every amount, threshold and rate, and the sweep  *)
(* of a customer's COLLECTION wallet for any number of sweeps, settlement  *)
(* accounts and days, any fee schedule and any minimum payout.             *)
(***************************************************************************)
EXTENDS Settlements, Functions, FiniteSetTheorems, TLAPS

-----------------------------------------------------------------------------
(* Induction over the naturals and over the subsets of a finite set, both  *)
(* stated for sets so that they can be cited.                              *)

\* The relation of the library's order on the naturals.
LEMMA LessThan == \A x, y \in Nat : <<x, y>> \in OpToRel(<, Nat) <=> x < y
BY DEF OpToRel

\* Induction over the naturals, for a set instead of a predicate: the least
\* number outside of it has a predecessor inside.
LEMMA SetInduction ==
  ASSUME NEW T \in SUBSET Nat, 0 \in T, \A n \in T : n + 1 \in T
  PROVE  T = Nat
<1>. DEFINE R == OpToRel(<, Nat)
<1>1. IsWellFoundedOn(R, Nat)
  BY NatLessThanWellFounded
<1>2. \A x, y \in Nat : <<x, y>> \in R <=> x < y
  BY LessThan
<1>. HIDE DEF R
<1>3. SUFFICES ASSUME Nat \ T # {} PROVE FALSE
  OBVIOUS
<1>4. PICK m \in Nat \ T : \A y \in Nat \ T : ~(<<y, m>> \in R)
  BY <1>1, <1>3, WFMin
<1>5. m # 0 /\ m - 1 \in Nat
  BY <1>4
<1>6. m - 1 \in T
  <2>1. <<m - 1, m>> \in R
    BY <1>2, <1>5
  <2>. QED
    BY <2>1, <1>4, <1>5
<1>. QED
  BY <1>4, <1>6

-----------------------------------------------------------------------------
(* Sums of the values of a function over a finite set.                     *)

\* The element the fold of the community modules takes next.
AnyOf(s) == CHOOSE x \in s : TRUE

SumOver(f, S) == FoldFunctionOnSet(+, 0, f, S)

\* h maps every subset of S to the sum over it.
SumStep(f, h, s) == IF s = {} THEN 0 ELSE f[AnyOf(s)] + h[s \ {AnyOf(s)}]
IsSums(h, f, S) == h = [s \in SUBSET S |-> SumStep(f, h, s)]

\* The fold of the community modules is that recursive function.
LEMMA SumIsRecursive ==
  ASSUME NEW f, NEW S
  PROVE  SumOver(f, S) = (CHOOSE h : IsSums(h, f, S))[S]
BY DEF SumOver, FoldFunctionOnSet, MapThenFoldSet, IsSums, SumStep, AnyOf

\* A finite set loses one element.
LEMMA Removed ==
  ASSUME NEW S, IsFiniteSet(S), NEW s \in SUBSET S, NEW y \in s
  PROVE  /\ s \ {y} \in SUBSET S
         /\ Cardinality(s) \in Nat /\ Cardinality(s \ {y}) \in Nat
         /\ Cardinality(s \ {y}) = Cardinality(s) - 1
<1>1. IsFiniteSet(s)
  BY FS_Subset
<1>2. IsFiniteSet(s \ {y}) /\ Cardinality(s \ {y}) = Cardinality(s) - 1
  BY <1>1, FS_RemoveElement
<1>. QED
  BY <1>1, <1>2, FS_CardinalityType

\* The fold takes an element of what is left.
LEMMA AnyOfIsIn ==
  ASSUME NEW s, s # {}
  PROVE  AnyOf(s) \in s
BY DEF AnyOf

\* Induction over the subsets of a finite set, by their size.
LEMMA SubsetInduction ==
  ASSUME NEW S, IsFiniteSet(S), NEW T \in SUBSET (SUBSET S), {} \in T,
         \A s \in SUBSET S : s # {} /\ (\A y \in s : s \ {y} \in T) => s \in T
  PROVE  T = SUBSET S
<1>. DEFINE N == {n \in Nat : \A s \in SUBSET S : Cardinality(s) = n => s \in T}
<1>1. \A s \in SUBSET S : IsFiniteSet(s) /\ Cardinality(s) \in Nat
  BY FS_Subset, FS_CardinalityType
<1>2. 0 \in N
  BY <1>1, FS_EmptySet
<1>3. \A n \in N : n + 1 \in N
  <2>. SUFFICES ASSUME NEW n \in N, NEW s \in SUBSET S, Cardinality(s) = n + 1
                PROVE  s \in T
    OBVIOUS
  <2>1. s # {}
    BY FS_EmptySet
  <2>2. ASSUME NEW y \in s PROVE s \ {y} \in T
    BY Removed
  <2>. QED
    BY <2>1, <2>2
<1>4. N \in SUBSET Nat
  OBVIOUS
<1>. HIDE DEF N
<1>5. N = Nat
  BY <1>2, <1>3, <1>4, SetInduction
<1>6. \A s \in SUBSET S : s \in T
  BY <1>1, <1>5 DEF N
<1>. QED
  BY <1>6

\* The recursive function exists: it is built up to one size after the other.
LEMMA SumsExist ==
  ASSUME NEW S, IsFiniteSet(S), NEW f, \A x \in S : f[x] \in Int
  PROVE  \E h \in [SUBSET S -> Int] : IsSums(h, f, S)
<1>. DEFINE UpTo(h, n) == \A s \in SUBSET S : Cardinality(s) <= n => h[s] = SumStep(f, h, s)
            N == {n \in Nat : \E h \in [SUBSET S -> Int] : UpTo(h, n)}
<1>1. \A s \in SUBSET S : IsFiniteSet(s) /\ Cardinality(s) \in Nat
  BY FS_Subset, FS_CardinalityType
<1>2. 0 \in N
  <2>. DEFINE h == [s \in SUBSET S |-> 0]
  <2>1. h \in [SUBSET S -> Int]
    OBVIOUS
  <2>2. ASSUME NEW s \in SUBSET S, Cardinality(s) <= 0
        PROVE  h[s] = SumStep(f, h, s)
    <3>1. s = {}
      BY <1>1, <2>2, FS_EmptySet
    <3>. QED
      BY <3>1 DEF SumStep
  <2>. HIDE DEF h
  <2>3. UpTo(h, 0)
    BY <2>2
  <2>. QED
    BY <2>1, <2>3
<1>3. \A n \in N : n + 1 \in N
  <2>. SUFFICES ASSUME NEW n \in N PROVE n + 1 \in N
    OBVIOUS
  <2>. n \in Nat
    OBVIOUS
  <2>. PICK g \in [SUBSET S -> Int] : UpTo(g, n)
    OBVIOUS
  <2>. DEFINE h == [s \in SUBSET S |-> IF Cardinality(s) <= n THEN g[s] ELSE SumStep(f, g, s)]
  <2>1. ASSUME NEW s \in SUBSET S PROVE SumStep(f, g, s) \in Int
    <3>1. s # {} => f[AnyOf(s)] \in Int /\ g[s \ {AnyOf(s)}] \in Int
      BY AnyOfIsIn, Removed
    <3>. QED
      BY <3>1 DEF SumStep
  <2>2. h \in [SUBSET S -> Int]
    BY <2>1
  <2>3. \A s \in SUBSET S : Cardinality(s) <= n => h[s] = g[s]
    OBVIOUS
  <2>4. ASSUME NEW s \in SUBSET S, Cardinality(s) <= n + 1
        PROVE  h[s] = SumStep(f, h, s)
    <3>1. h[s] = SumStep(f, g, s)
      <4>1. CASE Cardinality(s) <= n
        BY <4>1
      <4>2. CASE ~(Cardinality(s) <= n)
        BY <4>2
      <4>. QED
        BY <4>1, <4>2
    <3>. HIDE DEF h
    <3>2. s # {} => h[s \ {AnyOf(s)}] = g[s \ {AnyOf(s)}]
      <4>1. ASSUME s # {} PROVE Cardinality(s \ {AnyOf(s)}) <= n /\ s \ {AnyOf(s)} \in SUBSET S
        BY <2>4, <4>1, AnyOfIsIn, Removed
      <4>. QED
        BY <2>3, <4>1
    <3>. QED
      BY <3>1, <3>2 DEF SumStep
  <2>. HIDE DEF h
  <2>5. UpTo(h, n + 1)
    BY <2>4
  <2>. QED
    BY <2>2, <2>5
<1>4. N \in SUBSET Nat
  OBVIOUS
<1>5. N = Nat
  <2>. HIDE DEF N
  <2>. QED
    BY <1>2, <1>3, <1>4, SetInduction
<1>6. Cardinality(S) \in Nat /\ \A s \in SUBSET S : Cardinality(s) <= Cardinality(S)
  BY FS_Subset, FS_CardinalityType
<1>7. PICK h \in [SUBSET S -> Int] : UpTo(h, Cardinality(S))
  BY <1>5, <1>6
<1>8. \A s \in SUBSET S : h[s] = SumStep(f, h, s)
  BY <1>6, <1>7
<1>9. h = [s \in SUBSET S |-> SumStep(f, h, s)]
  BY <1>8
<1>. QED
  BY <1>9 DEF IsSums
\* There is one, and it depends on the summands only.
LEMMA SumsUnique ==
  ASSUME NEW S, IsFiniteSet(S), NEW f, NEW g, NEW h, NEW k,
         IsSums(h, f, S), IsSums(k, g, S), \A x \in S : f[x] = g[x]
  PROVE  h = k
<1>. DEFINE T == {s \in SUBSET S : h[s] = k[s]}
<1>1. \A s \in SUBSET S : h[s] = SumStep(f, h, s) /\ k[s] = SumStep(g, k, s)
  BY DEF IsSums
<1>2. {} \in T
  BY <1>1 DEF SumStep
<1>3. ASSUME NEW s \in SUBSET S, s # {}, \A y \in s : s \ {y} \in T
      PROVE  s \in T
  <2>1. AnyOf(s) \in s /\ AnyOf(s) \in S
    BY <1>3, AnyOfIsIn
  <2>2. h[s \ {AnyOf(s)}] = k[s \ {AnyOf(s)}]
    BY <2>1, <1>3
  <2>. QED
    BY <1>1, <1>3, <2>1, <2>2 DEF SumStep
<1>4. T = SUBSET S
  <2>. HIDE DEF T
  <2>1. T \in SUBSET (SUBSET S)
    BY DEF T
  <2>. QED
    BY <1>2, <1>3, <2>1, SubsetInduction
<1>5. \A s \in SUBSET S : h[s] = k[s]
  BY <1>4
<1>. QED
  BY <1>5 DEF IsSums

\* The sum over a part is a value of the function of the whole.
LEMMA SumOfPart ==
  ASSUME NEW S, IsFiniteSet(S), NEW f, \A x \in S : f[x] \in Int,
         NEW h, IsSums(h, f, S), NEW U \in SUBSET S
  PROVE  SumOver(f, U) = h[U]
<1>. DEFINE k == [s \in SUBSET U |-> h[s]]
<1>1. IsFiniteSet(U)
  BY FS_Subset
<1>2. \A s \in SUBSET U : k[s] = SumStep(f, k, s)
  <2>. SUFFICES ASSUME NEW s \in SUBSET U PROVE k[s] = SumStep(f, k, s)
    OBVIOUS
  <2>1. k[s] = SumStep(f, h, s)
    BY DEF IsSums
  <2>2. s \ {AnyOf(s)} \in SUBSET U
    OBVIOUS
  <2>3. k[s \ {AnyOf(s)}] = h[s \ {AnyOf(s)}]
    BY <2>2
  <2>. HIDE DEF k
  <2>. QED
    BY <2>1, <2>3 DEF SumStep
<1>3. IsSums(k, f, U)
  <2>1. k = [s \in SUBSET U |-> k[s]]
    OBVIOUS
  <2>. HIDE DEF k
  <2>. QED
    BY <1>2, <2>1 DEF IsSums
<1>4. IsSums(CHOOSE x : IsSums(x, f, U), f, U)
  BY <1>3
<1>5. (CHOOSE x : IsSums(x, f, U)) = k
  BY <1>1, <1>3, <1>4, SumsUnique
<1>. QED
  BY <1>5, SumIsRecursive

\* The order does not matter: any element can be taken out of a sum.
LEMMA SumSplits ==
  ASSUME NEW S, IsFiniteSet(S), NEW f, \A x \in S : f[x] \in Int, NEW y \in S
  PROVE  /\ SumOver(f, S) \in Int /\ SumOver(f, S \ {y}) \in Int
         /\ SumOver(f, S) = f[y] + SumOver(f, S \ {y})
<1>1. PICK h \in [SUBSET S -> Int] : IsSums(h, f, S)
  BY SumsExist
<1>2. \A s \in SUBSET S : h[s] = SumStep(f, h, s)
  BY <1>1 DEF IsSums
<1>. DEFINE T == {s \in SUBSET S : \A z \in s : h[s] = f[z] + h[s \ {z}]}
<1>3. ASSUME NEW s \in SUBSET S, s # {}, \A z \in s : s \ {z} \in T
      PROVE  s \in T
  <2>. SUFFICES ASSUME NEW z \in s PROVE h[s] = f[z] + h[s \ {z}]
    OBVIOUS
  <2>. DEFINE x == AnyOf(s)
  <2>1. x \in s
    BY <1>3, AnyOfIsIn
  <2>2. h[s] = f[x] + h[s \ {x}]
    BY <1>2, <1>3 DEF SumStep
  <2>. HIDE DEF x
  <2>3. CASE x = z
    BY <2>2, <2>3
  <2>4. CASE x # z
    <3>1. h[s \ {x}] = f[z] + h[(s \ {x}) \ {z}]
      BY <1>3, <2>1, <2>4
    <3>2. h[s \ {z}] = f[x] + h[(s \ {z}) \ {x}]
      BY <1>3, <2>1, <2>4
    <3>3. (s \ {z}) \ {x} = (s \ {x}) \ {z}
      OBVIOUS
    <3>4. f[x] \in Int /\ f[z] \in Int /\ h[(s \ {x}) \ {z}] \in Int
      BY <2>1
    <3>. DEFINE rest == h[(s \ {x}) \ {z}]
    <3>5. h[s \ {x}] = f[z] + rest /\ h[s \ {z}] = f[x] + rest /\ rest \in Int
      BY <3>1, <3>2, <3>3, <3>4
    <3>. HIDE DEF rest
    <3>. QED
      BY <2>2, <3>4, <3>5
  <2>. QED
    BY <2>3, <2>4
<1>4. {} \in T /\ T \in SUBSET (SUBSET S)
  OBVIOUS
<1>5. T = SUBSET S
  <2>. HIDE DEF T
  <2>. QED
    BY <1>3, <1>4, SubsetInduction
<1>6. h[S] = f[y] + h[S \ {y}]
  BY <1>5
<1>7. SumOver(f, S) = h[S] /\ SumOver(f, S \ {y}) = h[S \ {y}]
  BY <1>1, SumOfPart
<1>. QED
  BY <1>6, <1>7

\* The sum over the empty set.
LEMMA SumOfNothing == \A f : SumOver(f, {}) = 0
<1>. SUFFICES ASSUME NEW f PROVE SumOver(f, {}) = 0
  OBVIOUS
<1>1. IsFiniteSet({})
  BY FS_EmptySet
<1>2. PICK h \in [SUBSET {} -> Int] : IsSums(h, f, {})
  BY <1>1, SumsExist
<1>3. h[{}] = 0
  BY <1>2 DEF IsSums, SumStep
<1>. QED
  BY <1>1, <1>2, <1>3, SumOfPart

\* Equal summands have equal sums.
LEMMA SumOfSame ==
  ASSUME NEW S, IsFiniteSet(S), NEW f, \A x \in S : f[x] \in Int,
         NEW g, \A x \in S : g[x] = f[x]
  PROVE  SumOver(g, S) = SumOver(f, S)
<1>1. \A x \in S : g[x] \in Int
  OBVIOUS
<1>2. PICK h \in [SUBSET S -> Int] : IsSums(h, f, S)
  BY SumsExist
<1>3. PICK k \in [SUBSET S -> Int] : IsSums(k, g, S)
  BY <1>1, SumsExist
<1>4. h = k
  BY <1>2, <1>3, SumsUnique
<1>5. SumOver(f, S) = h[S]
  BY <1>2, SumOfPart
<1>6. SumOver(g, S) = k[S]
  BY <1>1, <1>3, SumOfPart
<1>. QED
  BY <1>4, <1>5, <1>6


\* One summand changes.
LEMMA SumChanges ==
  ASSUME NEW S, IsFiniteSet(S), NEW f, \A x \in S : f[x] \in Int,
         NEW g, \A x \in S : g[x] \in Int,
         NEW y \in S, \A x \in S : x # y => g[x] = f[x]
  PROVE  /\ SumOver(f, S) \in Int /\ SumOver(g, S) \in Int
         /\ SumOver(g, S) = SumOver(f, S) - f[y] + g[y]
<1>1. IsFiniteSet(S \ {y})
  BY FS_Subset
<1>2. SumOver(g, S \ {y}) = SumOver(f, S \ {y})
  BY <1>1, SumOfSame
<1>3. SumOver(f, S) = f[y] + SumOver(f, S \ {y})
  BY SumSplits
<1>4. SumOver(g, S) = g[y] + SumOver(g, S \ {y})
  BY SumSplits
<1>5. SumOver(f, S) \in Int /\ SumOver(f, S \ {y}) \in Int /\ SumOver(g, S) \in Int
  BY SumSplits
<1>. QED
  BY <1>2, <1>3, <1>4, <1>5

\* One summand more.
LEMMA SumGrows ==
  ASSUME NEW S, IsFiniteSet(S), NEW f, \A x \in S : f[x] \in Int,
         NEW y, y \notin S, NEW g, g[y] \in Int, \A x \in S : g[x] = f[x]
  PROVE  SumOver(f, S) \in Int /\ SumOver(g, S \cup {y}) = SumOver(f, S) + g[y]
<1>1. IsFiniteSet(S \cup {y}) /\ (S \cup {y}) \ {y} = S
  BY FS_AddElement
<1>2. \A x \in S \cup {y} : g[x] \in Int
  OBVIOUS
<1>3. /\ SumOver(g, S) \in Int
      /\ SumOver(g, S \cup {y}) = g[y] + SumOver(g, S)
  <2>1. /\ SumOver(g, (S \cup {y}) \ {y}) \in Int
        /\ SumOver(g, S \cup {y}) = g[y] + SumOver(g, (S \cup {y}) \ {y})
    BY <1>1, <1>2, SumSplits
  <2>. QED
    BY <1>1, <2>1
<1>4. SumOver(g, S) = SumOver(f, S)
  BY SumOfSame
<1>. QED
  BY <1>3, <1>4

\* The sum is a number.
LEMMA SumIsNumber ==
  ASSUME NEW S, IsFiniteSet(S), NEW f, \A x \in S : f[x] \in Int
  PROVE  SumOver(f, S) \in Int
<1>1. CASE S = {}
  BY <1>1, SumOfNothing
<1>2. CASE S # {}
  BY <1>2, SumSplits
<1>. QED
  BY <1>1, <1>2

\* Zeros add up to zero.
LEMMA SumOfZeros ==
  ASSUME NEW S, IsFiniteSet(S), NEW f, \A x \in S : f[x] = 0
  PROVE  SumOver(f, S) = 0
<1>0. \A x \in S : f[x] \in Int
  OBVIOUS
<1>1. PICK h \in [SUBSET S -> Int] : IsSums(h, f, S)
  BY <1>0, SumsExist
<1>. DEFINE T == {s \in SUBSET S : h[s] = 0}
<1>2. \A s \in SUBSET S : h[s] = SumStep(f, h, s)
  BY <1>1 DEF IsSums
<1>3. {} \in T
  BY <1>2 DEF SumStep
<1>4. ASSUME NEW s \in SUBSET S, s # {}, \A y \in s : s \ {y} \in T
      PROVE  s \in T
  <2>1. AnyOf(s) \in s /\ f[AnyOf(s)] = 0 /\ h[s \ {AnyOf(s)}] = 0
    BY <1>4, AnyOfIsIn
  <2>. QED
    BY <1>2, <1>4, <2>1 DEF SumStep
<1>5. T = SUBSET S
  <2>. HIDE DEF T
  <2>1. T \in SUBSET (SUBSET S)
    BY DEF T
  <2>. QED
    BY <1>3, <1>4, <2>1, SubsetInduction
<1>6. h[S] = 0
  BY <1>5
<1>. QED
  BY <1>0, <1>1, <1>6, SumOfPart

-----------------------------------------------------------------------------
(* Fees.                                                                   *)

\* Division by a positive number, as the two inequalities that define it.
LEMMA DivBounds ==
  ASSUME NEW n \in Nat, NEW q \in Int, q = n \div 10000
  PROVE  10000 * q <= n /\ n < 10000 * q + 10000 /\ q \in Nat
OBVIOUS

\* A rate of at most r takes at most r parts in ten thousand, before rounding.
LEMMA ShareMonotone ==
  ASSUME NEW value \in Nat, NEW bps \in Nat, NEW r \in Nat, bps <= r
  PROVE  value * bps <= value * r
OBVIOUS

(***************************************************************************)
(* computeFee: a fee is never negative and never more than the amount, so  *)
(* that no accepted schedule makes the net amount negative.                *)
(***************************************************************************)
THEOREM FeeWithinAmount ==
  ASSUME NEW tiers \in Tiers, NEW value \in Nat
  PROVE  ComputeFee(tiers, value) \in 0..value
<1>. DEFINE bps == FeeBps(tiers, value)
<1>1. bps \in Nat /\ bps <= 10000
  <2>1. tiers.belowBps \in Rates /\ tiers.aboveBps \in Rates
    BY DEF Tiers
  <2>2. bps \in Rates
    BY <2>1 DEF FeeBps
  <2>. HIDE DEF bps
  <2>. QED
    BY <2>2 DEF Rates, MaxBps
<1>. HIDE DEF bps
<1>2. value * bps \in Nat /\ value * bps <= value * 10000
  BY <1>1, ShareMonotone
<1>. DEFINE q == (value * bps + 5000) \div 10000
<1>3. value * bps + 5000 \in Nat
  BY <1>2
<1>4. 10000 * q <= value * bps + 5000 /\ q \in Nat
  BY <1>3, DivBounds
<1>5. ComputeFee(tiers, value) = q
  BY DEF ComputeFee, RoundedShare, bps
<1>. HIDE DEF q
<1>. QED
  BY <1>2, <1>4, <1>5

(***************************************************************************)
(* computeFee and wallets.move: at any rate below one half a payment       *)
(* leaves something to credit, however small it is.                        *)
(***************************************************************************)
THEOREM CreditLeft ==
  ASSUME NEW value \in Nat \ {0}, NEW bps \in Rates, bps < 5000
  PROVE  LeavesCredit(value, bps)
<1>1. value \in Nat /\ bps \in Nat /\ bps <= 4999
  BY DEF Rates, MaxBps
<1>2. value * bps \in Nat /\ value * bps <= value * 4999
  BY <1>1, ShareMonotone
<1>. DEFINE q == (value * bps + 5000) \div 10000
<1>3. value * bps + 5000 \in Nat
  BY <1>2
<1>4. 10000 * q <= value * bps + 5000 /\ q \in Nat
  BY <1>3, DivBounds
<1>5. RoundedShare(value, bps) = q
  BY DEF RoundedShare
<1>. HIDE DEF q
<1>. QED
  BY <1>1, <1>2, <1>4, <1>5 DEF LeavesCredit

(***************************************************************************)
(* From one half on the smallest amount is eaten up: the credit of a paid  *)
(* collection of one minor unit would be zero, which move refuses.         *)
(***************************************************************************)
THEOREM HalfLeavesNothing ==
  ASSUME NEW bps \in Rates, bps >= 5000
  PROVE  ~LeavesCredit(1, bps)
<1>1. bps \in Nat /\ bps + 5000 >= 10000
  BY DEF Rates, MaxBps
<1>2. 1 * bps + 5000 = bps + 5000
  BY <1>1
<1>. DEFINE q == (bps + 5000) \div 10000
<1>3. bps + 5000 \in Nat /\ bps + 5000 < 10000 * q + 10000 /\ q \in Nat
  BY <1>1, DivBounds
<1>4. q >= 1
  <2>. HIDE DEF q
  <2>. QED
    BY <1>1, <1>3
<1>5. RoundedShare(1, bps) = q
  BY <1>2 DEF RoundedShare
<1>. HIDE DEF q
<1>. QED
  BY <1>3, <1>4, <1>5 DEF LeavesCredit

-----------------------------------------------------------------------------
(* The inductive invariant.                                                *)

Stages == {"idle", "find", "balance", "swept", "debit", "create"}
Rows == [by: Sweeps, at: Nat, amount: Nat, fee: Nat, dest: Dests,
         status: Statuses, refunded: BOOLEAN]

DestRows == [made: BOOLEAN, isDefault: BOOLEAN, isActive: BOOLEAN]
Readings == [day: Nat, dest: Dests \cup {None}, amount: Nat]
Bounds == [credit: Nat, changes: Nat, crashes: Nat]

\* A request past its first statement has an account and sees nothing.
Edits == [at: {"idle", "clear"}, dest: Dests \cup {None}, sees: SUBSET Dests]
           \cup [at: {"set"}, dest: Dests, sees: {{}}]

Typed ==
  /\ clock \in 0..MaxClock /\ balance \in Nat /\ autoSweep \in BOOLEAN
  /\ dests \in [Dests -> DestRows]
  /\ editing \in [Editors -> Edits]
  /\ setBy \in [Dests -> Editors \cup {None}] /\ unset \in BOOLEAN
  /\ rows \in Seq(Rows)
  /\ pc \in [Sweeps -> Stages]
  /\ seen \in [Sweeps -> Readings]
  /\ fired \in [Cron -> Int]
  /\ left \in Bounds
  /\ moved \in [in: Int, orphaned: Nat]
  /\ due \subseteq Cron

\* A sweep that has looked for a settlement account has one, and debits only
\* what leaves a payout.
Aimed ==
  \A s \in Sweeps :
    /\ pc[s] \notin {"idle", "find"} => seen[s].dest \in Dests
    /\ pc[s] = "create" => Net(seen[s].amount) >= MinPayout

PaysEnough == \A i \in DOMAIN rows : rows[i].amount >= MinPayout

\* A payout is reported failed or reversed with its refund.
Reported == \A i \in DOMAIN rows : rows[i].status # "OPEN" => rows[i].refunded

BaseInv == Typed /\ Aimed /\ PaysEnough /\ Reported

\* A default exists, and no two of them are of the same request.
Owned ==
  /\ \A d \in Defaults : dests[d].made /\ setBy[d] \in Editors
  /\ \A d, e \in Defaults : setBy[d] = setBy[e] => d = e

\* A request that is about to set a default sees the one it set before, and
\* has cleared it when it comes to the account it is for.
Succeeds(e) ==
  /\ editing[e].dest \in Dests => dests[editing[e].dest].made
  /\ \A d \in Defaults : setBy[d] = e =>
       /\ editing[e].at = "clear" => d \in editing[e].sees
       /\ editing[e].at # "set"

\* Where there is no default, it was taken off or is about to be set.
NoneForAReason == Defaults = {} => unset \/ \E e \in Editors : editing[e].at = "set"

DefaultInv == Owned /\ (\A e \in Editors : Succeeds(e)) /\ NoneForAReason

\* The cron of a single instance.
SingleInstance == \A c, d \in Cron : c = d

\* A run remembers a day that has come; past its question it has no payout
\* of that day or a later one that keeps its money.
DayKnown == \A c \in Cron : seen[c].day <= ZoneDay(clock)

NotSwept ==
  \A c \in Cron : pc[c] \in {"debit", "create"} =>
    \A i \in DOMAIN rows : rows[i].by = c => rows[i].refunded \/ ZoneDay(rows[i].at) < seen[c].day

OnceInv == DayKnown /\ NotSwept /\ SweptOncePerDay

\* What is left of an amount does not shrink when the amount grows.
NetGrows == \A n, m \in Nat : n <= m => Net(n) <= Net(m)

\* A run that started on a due account finds it so at each of its questions.
StillDue(c) ==
  /\ pc[c] # "idle"
  /\ \A i \in DOMAIN rows : rows[i].status = "FAILED" \/ ZoneDay(rows[i].at) < seen[c].day
  /\ pc[c] = "find" => DefaultDests # {}
  /\ pc[c] \in {"find", "balance"} => balance > 0 /\ Net(balance) >= MinPayout
  /\ pc[c] \in {"swept", "debit"} => balance >= seen[c].amount /\ Net(seen[c].amount) >= MinPayout

DueInv == \A c \in due : StillDue(c)

\* The requests about settlement accounts.
DestStep ==
  \/ \E e \in Editors, d \in Dests \cup {None} : BeginDefault(e, d)
  \/ \E e \in Editors, d \in Dests : CreateDest(e, d)
  \/ \E e \in Editors : ClearDefaults(e) \/ GiveUp(e)
  \/ \E e \in Editors, a \in BOOLEAN : SetDefault(e, a)
  \/ \E d \in Dests : InsertDest(d)
  \/ \E d \in Dests, b, a \in BOOLEAN : PatchDest(d, b, a)
  \/ \E b \in BOOLEAN : SetAutoSweep(b)

-----------------------------------------------------------------------------
(* Facts about amounts and days.                                           *)

\* What is left of an amount, and what was taken, add up to it.
LEMMA NetFacts ==
  ASSUME NEW amount \in Nat
  PROVE  /\ Net(amount) \in Nat /\ ComputeFee(Schedule, amount) \in Nat
         /\ Net(amount) + ComputeFee(Schedule, amount) = amount
<1>1. ComputeFee(Schedule, amount) \in 0..amount
  BY SettlementsAssumption, FeeWithinAmount
<1>. QED
  BY <1>1 DEF Net

\* Days do not go back, and the host's date at the start of a day is that day.
LEMMA Days ==
  /\ \A t \in Nat : /\ ZoneDay(t) \in Nat /\ HostDay(t) \in Nat
                    /\ ZoneDay(t) <= ZoneDay(t + 1)
                    /\ ZoneDay(t) <= HostDay(t)
                    /\ t % 2 = 0 => HostDay(t) = ZoneDay(t)
                    /\ HostLag = 0 => HostDay(t) = ZoneDay(t)
BY SettlementsAssumption DEF ZoneDay, HostDay

-----------------------------------------------------------------------------
(* Types, and what a sweep holds.                                          *)

\* The first state.
LEMMA BaseInit == Init => BaseInv
<1>. SUFFICES ASSUME Init PROVE BaseInv
  OBVIOUS
<1>1. Typed
  <2>1. /\ dests \in [Dests -> DestRows] /\ setBy \in [Dests -> Editors \cup {None}]
        /\ unset \in BOOLEAN /\ editing \in [Editors -> Edits]
    BY SettlementsAssumption DEF Init, DestRows, Edits, Idle
  <2>. QED
    BY <2>1, SettlementsAssumption DEF Init, Typed, Stages, Readings, Bounds, Rows
<1>. QED
  BY <1>1 DEF Init, BaseInv, Aimed, PaysEnough, Reported

\* Actions that touch neither a sweep nor a payout.
LEMMA BaseElsewhere ==
  ASSUME BaseInv, Typed', UNCHANGED <<pc, seen, rows>>
  PROVE  BaseInv'
BY DEF BaseInv, Aimed, PaysEnough, Reported

\* Actions that touch no payout.
LEMMA BaseSweep ==
  ASSUME BaseInv, Typed', Aimed', UNCHANGED rows
  PROVE  BaseInv'
BY DEF BaseInv, PaysEnough, Reported

\* The bounds stay natural numbers.
LEMMA BoundFacts ==
  ASSUME BaseInv
  PROVE  /\ left.credit > 0 => [left EXCEPT !.credit = @ - 1] \in Bounds
         /\ left.changes > 0 => [left EXCEPT !.changes = @ - 1] \in Bounds
         /\ left.crashes > 0 => [left EXCEPT !.crashes = @ - 1] \in Bounds
<1>1. left = [credit |-> left.credit, changes |-> left.changes, crashes |-> left.crashes]
  BY DEF BaseInv, Typed, Bounds
<1>2. left.credit \in Nat /\ left.changes \in Nat /\ left.crashes \in Nat
  BY DEF BaseInv, Typed, Bounds
<1>3. left.credit > 0 => left.credit - 1 \in Nat
  BY <1>2
<1>4. left.changes > 0 => left.changes - 1 \in Nat
  BY <1>2
<1>5. left.crashes > 0 => left.crashes - 1 \in Nat
  BY <1>2
<1>. QED
  BY <1>1, <1>2, <1>3, <1>4, <1>5 DEF Bounds

LEMMA Changed == BaseInv /\ Change => left' \in Bounds /\ due' \subseteq Cron
BY BoundFacts DEF Change

\* What a sweep has read, after another question.
LEMMA NewReading ==
  ASSUME NEW r \in Readings
  PROVE  /\ r.day \in Nat /\ r.dest \in Dests \cup {None} /\ r.amount \in Nat
         /\ \A day \in Nat : LET q == [r EXCEPT !.day = day] IN
              q \in Readings /\ q.day = day /\ q.dest = r.dest /\ q.amount = r.amount
         /\ \A d \in Dests : LET q == [r EXCEPT !.dest = d] IN
              q \in Readings /\ q.day = r.day /\ q.dest = d /\ q.amount = r.amount
         /\ \A n \in Nat : LET q == [r EXCEPT !.amount = n] IN
              q \in Readings /\ q.day = r.day /\ q.dest = r.dest /\ q.amount = n
BY DEF Readings

\* The sweeps' readings, after one of them has read r.
ReadsAs(s, r) ==
  /\ seen' \in [Sweeps -> Readings] /\ seen'[s] = r
  /\ \A q \in Sweeps : q # s => seen'[q] = seen[q]

LEMMA ReadingFacts ==
  ASSUME BaseInv, NEW s \in Sweeps
  PROVE  /\ seen[s] \in Readings
         /\ \A day \in Nat : seen' = [seen EXCEPT ![s].day = day]
              => ReadsAs(s, [seen[s] EXCEPT !.day = day])
         /\ \A d \in Dests : seen' = [seen EXCEPT ![s].dest = d]
              => ReadsAs(s, [seen[s] EXCEPT !.dest = d])
         /\ \A n \in Nat : seen' = [seen EXCEPT ![s].amount = n]
              => ReadsAs(s, [seen[s] EXCEPT !.amount = n])
<1>1. seen \in [Sweeps -> Readings] /\ seen[s] \in Readings
  BY DEF BaseInv, Typed
<1>2. ASSUME NEW r \in Readings, seen' = [seen EXCEPT ![s] = r]
      PROVE  ReadsAs(s, r)
  BY <1>1, <1>2 DEF ReadsAs
<1>. QED
  BY <1>1, <1>2, NewReading

\* What the requests about settlement accounts leave alone.
LEMMA DestStepLeaves ==
  DestStep => /\ UNCHANGED <<clock, balance, rows, pc, seen, fired, moved>>
              /\ due' = {} \/ UNCHANGED <<due, dests>>
BY DEF DestStep, BeginDefault, CreateDest, ClearDefaults, GiveUp, SetDefault, InsertDest,
       PatchDest, SetAutoSweep, Change

\* The accounts after a statement.
LEMMA DestFacts ==
  ASSUME BaseInv
  PROVE  /\ \A ds : Cleared(ds) \in [Dests -> DestRows] /\ Disowned(ds) \in [Dests -> Editors \cup {None}]
         /\ \A b \in BOOLEAN : Fresh(b) \in DestRows
         /\ \A f \in [Dests -> DestRows], d \in Dests, r \in DestRows : [f EXCEPT ![d] = r] \in [Dests -> DestRows]
         /\ \A e \in Editors : editing[e] \in Edits /\ editing[e].sees \in SUBSET Dests
<1>1. dests \in [Dests -> DestRows] /\ setBy \in [Dests -> Editors \cup {None}]
  BY DEF BaseInv, Typed
<1>2. \A ds : Cleared(ds) \in [Dests -> DestRows]
  BY <1>1 DEF Cleared, DestRows
<1>3. \A ds : Disowned(ds) \in [Dests -> Editors \cup {None}]
  BY <1>1 DEF Disowned
<1>4. \A e \in Editors : editing[e] \in Edits /\ editing[e].sees \in SUBSET Dests
  BY DEF BaseInv, Typed, Edits
<1>. QED
  BY <1>2, <1>3, <1>4 DEF Fresh, DestRows

\* The requests, after one of them is at r.
LEMMA EditFacts ==
  ASSUME BaseInv, NEW e \in Editors, NEW r \in Edits, editing' = [editing EXCEPT ![e] = r]
  PROVE  /\ editing' \in [Editors -> Edits] /\ editing'[e] = r
         /\ \A f \in Editors : f # e => editing'[f] = editing[f]
BY DEF BaseInv, Typed

\* Where a request goes.
LEMMA EditSteps ==
  ASSUME BaseInv, NEW e \in Editors
  PROVE  /\ Idle \in Edits
         /\ \A d \in Dests \cup {None} : [at |-> "clear", dest |-> d, sees |-> Made] \in Edits
         /\ ClearDefaults(e) => /\ editing[e].dest \in Dests
                                /\ editing' = [editing EXCEPT ![e] = [at |-> "set", dest |-> editing[e].dest,
                                                                      sees |-> {}]]
                                /\ [at |-> "set", dest |-> editing[e].dest, sees |-> {}] \in Edits
         /\ editing[e].at = "set" => editing[e].dest \in Dests
<1>1. editing \in [Editors -> Edits] /\ editing[e] \in Edits
  BY DEF BaseInv, Typed
<1>2. Idle \in Edits /\ \A d \in Dests \cup {None} : [at |-> "clear", dest |-> d, sees |-> Made] \in Edits
  BY DEF Edits, Idle, Made
<1>3. ASSUME ClearDefaults(e)
      PROVE  /\ editing[e].dest \in Dests
             /\ editing' = [editing EXCEPT ![e] = [at |-> "set", dest |-> editing[e].dest, sees |-> {}]]
  <2>1. editing[e].at = "clear" /\ editing[e].dest # None
    BY <1>3 DEF ClearDefaults
  <2>2. editing[e].dest \in Dests
    BY <1>1, <2>1 DEF Edits
  <2>. QED
    BY <1>1, <1>3, <2>2 DEF ClearDefaults
<1>4. editing[e].at = "set" => editing[e].dest \in Dests
  BY <1>1 DEF Edits
<1>. QED
  BY <1>2, <1>3, <1>4 DEF Edits

\* The requests about settlement accounts.
LEMMA BaseDests == BaseInv /\ DestStep => BaseInv'
<1>. SUFFICES ASSUME BaseInv, DestStep PROVE BaseInv'
  OBVIOUS
<1>1. ASSUME NEW e \in Editors, NEW d \in Dests \cup {None}, BeginDefault(e, d) PROVE Typed'
  <2>1. editing' \in [Editors -> Edits]
    BY <1>1, EditSteps, EditFacts DEF BeginDefault
  <2>. QED
    BY <1>1, <2>1, Changed DEF BaseInv, Typed, BeginDefault
<1>2. ASSUME NEW e \in Editors, NEW d \in Dests, CreateDest(e, d) PROVE Typed'
  <2>1. editing' \in [Editors -> Edits]
    BY <1>2, EditSteps, EditFacts DEF CreateDest
  <2>2. dests' \in [Dests -> DestRows] /\ setBy' \in [Dests -> Editors \cup {None}]
    BY <1>2, DestFacts DEF CreateDest
  <2>. QED
    BY <1>2, <2>1, <2>2 DEF BaseInv, Typed, CreateDest
<1>3. ASSUME NEW e \in Editors, ClearDefaults(e) PROVE Typed'
  <2>1. editing' \in [Editors -> Edits]
    BY <1>3, EditSteps, EditFacts
  <2>2. dests' \in [Dests -> DestRows] /\ setBy' \in [Dests -> Editors \cup {None}]
    BY <1>3, DestFacts DEF ClearDefaults
  <2>. QED
    BY <1>3, <2>1, <2>2 DEF BaseInv, Typed, ClearDefaults
<1>4. ASSUME NEW e \in Editors, GiveUp(e) PROVE Typed'
  <2>1. editing' \in [Editors -> Edits]
    BY <1>4, EditSteps, EditFacts DEF GiveUp
  <2>. QED
    BY <1>4, <2>1 DEF BaseInv, Typed, GiveUp
<1>5. ASSUME NEW e \in Editors, NEW a \in BOOLEAN, SetDefault(e, a) PROVE Typed'
  <2>. DEFINE d == editing[e].dest
              row == [dests[d] EXCEPT !.isDefault = TRUE, !.isActive = a]
  <2>1. d \in Dests
    BY <1>5, EditSteps DEF SetDefault
  <2>2. editing' \in [Editors -> Edits]
    BY <1>5, EditSteps, EditFacts DEF SetDefault
  <2>3. dests \in [Dests -> DestRows] /\ setBy \in [Dests -> Editors \cup {None}]
    BY DEF BaseInv, Typed
  <2>4. dests' = [dests EXCEPT ![d] = row] /\ setBy' = [setBy EXCEPT ![d] = e]
    BY <1>5, <2>1, <2>3 DEF SetDefault, DestRows
  <2>5. row \in DestRows
    BY <2>1, <2>3 DEF DestRows
  <2>. HIDE DEF d, row
  <2>6. dests' \in [Dests -> DestRows] /\ setBy' \in [Dests -> Editors \cup {None}]
    BY <2>1, <2>3, <2>4, <2>5
  <2>. QED
    BY <1>5, <2>2, <2>6 DEF BaseInv, Typed, SetDefault
<1>6. ASSUME NEW d \in Dests, InsertDest(d) PROVE Typed'
  <2>1. dests' \in [Dests -> DestRows]
    BY <1>6, DestFacts DEF InsertDest, BaseInv, Typed
  <2>. QED
    BY <1>6, <2>1, Changed DEF BaseInv, Typed, InsertDest
<1>7. ASSUME NEW d \in Dests, NEW b \in BOOLEAN, NEW a \in BOOLEAN, PatchDest(d, b, a) PROVE Typed'
  <2>. DEFINE row == [dests[d] EXCEPT !.isDefault = b, !.isActive = a]
  <2>1. dests \in [Dests -> DestRows] /\ setBy \in [Dests -> Editors \cup {None}] /\ unset \in BOOLEAN
    BY DEF BaseInv, Typed
  <2>2. row \in DestRows /\ dests[d].isDefault \in BOOLEAN
    BY <2>1 DEF DestRows
  <2>3. dests' = [dests EXCEPT ![d] = row]
    BY <1>7, <2>1 DEF PatchDest, DestRows
  <2>. HIDE DEF row
  <2>4. dests' \in [Dests -> DestRows]
    BY <2>1, <2>2, <2>3
  <2>5. setBy' \in [Dests -> Editors \cup {None}] /\ unset' \in BOOLEAN
    BY <1>7, <2>1, <2>2 DEF PatchDest
  <2>. QED
    BY <1>7, <2>4, <2>5, Changed DEF BaseInv, Typed, PatchDest
<1>8. ASSUME NEW b \in BOOLEAN, SetAutoSweep(b) PROVE Typed'
  BY <1>8, Changed DEF BaseInv, Typed, SetAutoSweep
<1>9. Typed'
  BY <1>1, <1>2, <1>3, <1>4, <1>5, <1>6, <1>7, <1>8 DEF DestStep
<1>. QED
  BY <1>9, BaseElsewhere, DestStepLeaves

\* A sweep up to its debit.
LEMMA BaseReads ==
  ASSUME BaseInv,
         \/ \E c \in Cron : Fire(c) \/ CheckSwept(c)
         \/ \E a \in Admins : SweepNow(a)
         \/ \E s \in Sweeps : FindDest(s) \/ ReadBalance(s)
  PROVE  BaseInv'
<1>. USE DEF Typed, Stages, Goto
<1>0. Cron \subseteq Sweeps /\ Admins \subseteq Sweeps
  BY DEF Sweeps
<1>1. ASSUME NEW c \in Cron, Fire(c) PROVE BaseInv'
  <2>1. c \in Sweeps /\ clock \in Nat
    BY <1>0, SettlementsAssumption DEF BaseInv
  <2>2. HostDay(clock) \in Nat /\ ZoneDay(clock) \in Nat
    BY <2>1, SettlementsAssumption DEF HostDay, ZoneDay
  <2>3. CASE pc[c] = "idle" /\ autoSweep
    <3>. DEFINE r == [seen[c] EXCEPT !.day = HostDay(clock)]
    <3>1. ReadsAs(c, r) /\ pc' = [pc EXCEPT ![c] = "find"]
      BY <1>1, <2>1, <2>2, <2>3, ReadingFacts DEF Fire
    <3>. HIDE DEF r
    <3>2. due' \subseteq Cron
      BY <1>1, <2>3 DEF Fire, BaseInv
    <3>3. Typed'
      BY <1>1, <2>1, <2>2, <3>1, <3>2 DEF BaseInv, Fire, ReadsAs
    <3>4. Aimed'
      BY <2>1, <3>1 DEF BaseInv, ReadsAs, Aimed
    <3>. QED
      BY <1>1, <3>3, <3>4, BaseSweep DEF Fire
  <2>4. CASE ~(pc[c] = "idle" /\ autoSweep)
    <3>1. UNCHANGED <<pc, seen, due>>
      BY <1>1, <2>4 DEF Fire
    <3>2. Typed'
      BY <1>1, <2>2, <3>1 DEF BaseInv, Fire
    <3>. QED
      BY <1>1, <3>1, <3>2, BaseElsewhere DEF Fire
  <2>. QED
    BY <2>3, <2>4
<1>2. ASSUME NEW c \in Cron, CheckSwept(c) PROVE BaseInv'
  <2>1. Typed'
    BY <1>0, <1>2 DEF BaseInv, CheckSwept
  <2>2. Aimed'
    BY <1>0, <1>2 DEF BaseInv, CheckSwept, Aimed
  <2>. QED
    BY <1>2, <2>1, <2>2, BaseSweep DEF CheckSwept
<1>3. ASSUME NEW a \in Admins, SweepNow(a) PROVE BaseInv'
  <2>1. Typed'
    BY <1>0, <1>3, BoundFacts DEF BaseInv, SweepNow
  <2>2. Aimed'
    BY <1>0, <1>3 DEF BaseInv, SweepNow, Aimed
  <2>. QED
    BY <1>3, <2>1, <2>2, BaseSweep DEF SweepNow
<1>4. ASSUME NEW s \in Sweeps, FindDest(s) PROVE BaseInv'
  <2>1. CASE DefaultDests = {}
    <3>1. Typed'
      BY <1>4, <2>1 DEF BaseInv, FindDest
    <3>2. Aimed'
      BY <1>4, <2>1 DEF BaseInv, FindDest, Aimed
    <3>. QED
      BY <1>4, <3>1, <3>2, BaseSweep DEF FindDest
  <2>2. CASE DefaultDests # {}
    <3>1. PICK d \in Dests : seen' = [seen EXCEPT ![s].dest = d] /\ Goto(s, "balance")
      BY <1>4, <2>2 DEF FindDest, DefaultDests
    <3>. DEFINE r == [seen[s] EXCEPT !.dest = d]
    <3>2. ReadsAs(s, r) /\ r.dest = d
      BY <3>1, ReadingFacts, NewReading
    <3>. HIDE DEF r
    <3>3. Typed'
      BY <1>4, <3>1, <3>2 DEF BaseInv, FindDest, ReadsAs
    <3>4. Aimed'
      BY <3>1, <3>2 DEF BaseInv, ReadsAs, Aimed
    <3>. QED
      BY <1>4, <3>3, <3>4, BaseSweep DEF FindDest
  <2>. QED
    BY <2>1, <2>2
<1>5. ASSUME NEW s \in Sweeps, ReadBalance(s) PROVE BaseInv'
  <2>. DEFINE r == [seen[s] EXCEPT !.amount = balance]
  <2>1. ReadsAs(s, r) /\ r.dest = seen[s].dest
    BY <1>5, ReadingFacts, NewReading DEF ReadBalance, BaseInv
  <2>. HIDE DEF r
  <2>2. pc[s] = "balance" /\ \E at \in {"idle", "swept", "debit"} : pc' = [pc EXCEPT ![s] = at]
    BY <1>5 DEF ReadBalance
  <2>3. Typed'
    BY <1>5, <2>1, <2>2 DEF BaseInv, ReadBalance, ReadsAs
  <2>4. Aimed'
    BY <2>1, <2>2 DEF BaseInv, ReadsAs, Aimed
  <2>. QED
    BY <1>5, <2>3, <2>4, BaseSweep DEF ReadBalance
<1>. QED
  BY <1>1, <1>2, <1>3, <1>4, <1>5

\* The row a sweep creates: at least the minimum, to an account there is.
NewRow(s) == [by |-> s, at |-> clock, amount |-> Net(seen[s].amount),
              fee |-> ComputeFee(Schedule, seen[s].amount),
              dest |-> seen[s].dest, status |-> "OPEN", refunded |-> FALSE]

LEMMA CreatedRow ==
  ASSUME BaseInv, NEW s \in Sweeps, CreateRow(s)
  PROVE  /\ NewRow(s) \in Rows /\ NewRow(s).amount >= MinPayout
         /\ NewRow(s).amount + NewRow(s).fee = seen[s].amount
<1>1. seen[s].amount \in Nat
  BY ReadingFacts, NewReading
<1>2. /\ Net(seen[s].amount) \in Nat /\ ComputeFee(Schedule, seen[s].amount) \in Nat
      /\ Net(seen[s].amount) + ComputeFee(Schedule, seen[s].amount) = seen[s].amount
  BY <1>1, NetFacts
<1>3. pc[s] = "create" /\ seen[s].dest \in Dests /\ Net(seen[s].amount) >= MinPayout
  BY DEF CreateRow, BaseInv, Aimed
<1>4. clock \in Nat
  BY SettlementsAssumption DEF BaseInv, Typed
<1>. QED
  BY <1>2, <1>3, <1>4 DEF NewRow, Rows, Statuses

\* A payout that was refunded differs in that and its status only.
LEMMA RefundedRow ==
  ASSUME BaseInv, NEW i \in DOMAIN rows, NEW status \in Statuses,
         Refund(i, status) \/ Restate(i, status)
  PROVE  /\ rows[i] \in Rows /\ rows[i].amount \in Nat /\ rows[i].fee \in Nat
         /\ rows' \in Seq(Rows) /\ DOMAIN rows' = DOMAIN rows
         /\ rows'[i].refunded /\ rows'[i].fee = rows[i].fee
         /\ Refund(i, status) => ~rows[i].refunded
         /\ Restate(i, status) => rows[i].refunded
         /\ \A j \in DOMAIN rows : /\ rows'[j].by = rows[j].by /\ rows'[j].at = rows[j].at
                                   /\ rows'[j].amount = rows[j].amount
                                   /\ j # i => rows'[j] = rows[j]
<1>. DEFINE row == [rows[i] EXCEPT !.status = status, !.refunded = TRUE]
<1>1. rows \in Seq(Rows) /\ rows[i] \in Rows
  BY DEF BaseInv, Typed
<1>2. /\ row \in Rows /\ row.amount = rows[i].amount /\ row.by = rows[i].by
      /\ row.at = rows[i].at /\ row.refunded /\ row.fee = rows[i].fee
      /\ rows[i].amount \in Nat /\ rows[i].fee \in Nat
  BY <1>1 DEF Rows
<1>3. rows' = [rows EXCEPT ![i] = row]
  <2>1. CASE Refund(i, status)
    BY <1>1, <2>1 DEF Refund
  <2>2. CASE Restate(i, status)
    <3>1. row = [rows[i] EXCEPT !.status = status]
      BY <1>1, <2>2 DEF Restate, Rows
    <3>2. rows' = [rows EXCEPT ![i] = [rows[i] EXCEPT !.status = status]]
      BY <1>1, <2>2 DEF Restate
    <3>. QED
      BY <3>1, <3>2
  <2>. QED
    BY <2>1, <2>2
<1>. HIDE DEF row
<1>4. /\ rows' \in Seq(Rows) /\ DOMAIN rows' = DOMAIN rows /\ rows'[i] = row
      /\ \A j \in DOMAIN rows : j # i => rows'[j] = rows[j]
  BY <1>1, <1>2, <1>3
<1>5. (Refund(i, status) => ~rows[i].refunded) /\ (Restate(i, status) => rows[i].refunded)
  BY DEF Refund, Restate
<1>6. ASSUME NEW j \in DOMAIN rows
      PROVE  rows'[j].by = rows[j].by /\ rows'[j].at = rows[j].at /\ rows'[j].amount = rows[j].amount
  BY <1>2, <1>4
<1>. QED
  BY <1>1, <1>2, <1>4, <1>5, <1>6

\* The debit and what follows it.
LEMMA BaseDebits ==
  ASSUME BaseInv, NEW s \in Sweeps, Debit(s) \/ CreateRow(s) \/ Crash(s)
  PROVE  BaseInv'
<1>. USE DEF Typed, Stages, Goto
<1>0. seen[s] \in Readings /\ seen[s].amount \in Nat
  BY ReadingFacts, NewReading
<1>1. CASE Debit(s)
  <2>1. CASE Net(seen[s].amount) < MinPayout \/ balance < seen[s].amount
    <3>1. pc' = [pc EXCEPT ![s] = "idle"] /\ UNCHANGED <<balance, due>>
      BY <1>1, <2>1 DEF Debit
    <3>2. Typed'
      BY <1>1, <3>1 DEF BaseInv, Debit
    <3>3. Aimed'
      BY <1>1, <3>1 DEF BaseInv, Debit, Aimed
    <3>. QED
      BY <1>1, <3>2, <3>3, BaseSweep DEF Debit
  <2>2. CASE ~(Net(seen[s].amount) < MinPayout \/ balance < seen[s].amount)
    <3>1. /\ pc[s] = "debit" /\ pc' = [pc EXCEPT ![s] = "create"]
          /\ balance' = balance - seen[s].amount /\ due' = due \cap {s}
      BY <1>1, <2>2 DEF Debit
    <3>2. balance' \in Nat
      BY <1>0, <2>2, <3>1 DEF BaseInv
    <3>3. Net(seen[s].amount) >= MinPayout
      <4>. DEFINE net == Net(seen[s].amount)
      <4>1. net \in Nat
        BY <1>0, NetFacts
      <4>2. ~(net < MinPayout)
        BY <2>2
      <4>. HIDE DEF net
      <4>3. net >= MinPayout
        BY <4>1, <4>2, SettlementsAssumption
      <4>. QED
        BY <4>3 DEF net
    <3>4. Typed'
      BY <1>1, <3>1, <3>2 DEF BaseInv, Debit
    <3>5. Aimed'
      BY <1>1, <3>1, <3>3 DEF BaseInv, Debit, Aimed
    <3>. QED
      BY <1>1, <3>4, <3>5, BaseSweep DEF Debit
  <2>. QED
    BY <2>1, <2>2
<1>2. CASE CreateRow(s)
  <2>. DEFINE row == NewRow(s)
  <2>1. row \in Rows /\ row.amount >= MinPayout
    BY <1>2, CreatedRow
  <2>2. rows' = Append(rows, row)
    BY <1>2 DEF CreateRow, NewRow
  <2>. HIDE DEF row
  <2>3. Typed'
    BY <1>2, <2>1, <2>2 DEF BaseInv, CreateRow
  <2>4. Aimed'
    BY <1>2 DEF BaseInv, CreateRow, Aimed
  <2>5. PaysEnough'
    BY <2>1, <2>2 DEF BaseInv, PaysEnough
  <2>6. Reported'
    BY <1>2, <2>1, <2>2 DEF BaseInv, Reported, CreateRow
  <2>. QED
    BY <2>3, <2>4, <2>5, <2>6 DEF BaseInv
<1>3. CASE Crash(s)
  <2>1. moved' \in [in: Int, orphaned: Nat]
    <3>1. [moved EXCEPT !.orphaned = @ + seen[s].amount] \in [in: Int, orphaned: Nat]
      BY <1>0 DEF BaseInv
    <3>. QED
      BY <1>3, <3>1 DEF BaseInv, Crash
  <2>2. left' \in Bounds
    BY <1>3, BoundFacts DEF Crash
  <2>3. Typed'
    BY <1>3, <2>1, <2>2 DEF BaseInv, Crash
  <2>4. Aimed'
    BY <1>3 DEF BaseInv, Crash, Aimed
  <2>. QED
    BY <1>3, <2>3, <2>4, BaseSweep DEF Crash
<1>. QED
  BY <1>1, <1>2, <1>3

\* Credits, spending, refunded payouts and the clock.
LEMMA BaseRest ==
  ASSUME BaseInv, \/ \E i \in DOMAIN rows, status \in Statuses : Refund(i, status) \/ Restate(i, status)
                  \/ Tick \/ Credit \/ Spend
  PROVE  BaseInv'
<1>. USE DEF Typed
<1>1. ASSUME NEW i \in DOMAIN rows, NEW status \in Statuses, Refund(i, status) \/ Restate(i, status)
      PROVE  BaseInv'
  <2>0. DOMAIN rows' = DOMAIN rows /\ rows' \in Seq(Rows)
    BY <1>1, RefundedRow
  <2>1. balance' \in Nat
    <3>1. rows[i].amount \in Nat /\ rows[i].fee \in Nat /\ balance \in Nat
      BY <1>1, RefundedRow DEF BaseInv
    <3>2. balance + rows[i].amount + rows[i].fee \in Nat
      BY <3>1
    <3>. QED
      BY <1>1, <3>1, <3>2 DEF Refund, Restate
  <2>2. Typed'
    BY <1>1, <2>0, <2>1, Changed DEF BaseInv, Refund, Restate
  <2>3. Aimed'
    BY <1>1 DEF BaseInv, Refund, Restate, Aimed
  <2>4. ASSUME NEW j \in DOMAIN rows
        PROVE  rows'[j].amount >= MinPayout /\ (rows'[j].status # "OPEN" => rows'[j].refunded)
    <3>1. /\ rows'[j].amount = rows[j].amount /\ rows'[i].refunded
          /\ j # i => rows'[j] = rows[j]
      BY <1>1, RefundedRow
    <3>. QED
      BY <3>1 DEF BaseInv, PaysEnough, Reported
  <2>5. PaysEnough' /\ Reported'
    BY <2>0, <2>4 DEF PaysEnough, Reported
  <2>. QED
    BY <2>2, <2>3, <2>5 DEF BaseInv
<1>2. ASSUME Tick PROVE BaseInv'
  <2>1. Typed'
    BY <1>2, SettlementsAssumption DEF BaseInv, Tick
  <2>. QED
    BY <1>2, <2>1, BaseElsewhere DEF Tick
<1>3. ASSUME Credit PROVE BaseInv'
  <2>. PICK n \in 1..2 : balance' = balance + n /\ moved' = [moved EXCEPT !.in = @ + n]
    BY <1>3 DEF Credit
  <2>0. balance' \in Nat /\ moved' \in [in: Int, orphaned: Nat] /\ left' \in Bounds
    <3>1. balance' \in Nat /\ moved' \in [in: Int, orphaned: Nat]
      BY DEF BaseInv
    <3>. QED
      BY <1>3, <3>1, BoundFacts DEF Credit
  <2>1. Typed'
    BY <1>3, <2>0 DEF BaseInv, Credit
  <2>. QED
    BY <1>3, <2>1, BaseElsewhere DEF Credit
<1>4. ASSUME Spend PROVE BaseInv'
  <2>0. balance' \in Nat /\ moved' \in [in: Int, orphaned: Nat]
    <3>1. balance \in Nat /\ moved \in [in: Int, orphaned: Nat]
      BY DEF BaseInv
    <3>2. /\ balance > 0 /\ balance' = balance - 1
          /\ moved' = [moved EXCEPT !.in = @ - 1]
      BY <1>4 DEF Spend
    <3>3. balance' \in Nat
      BY <3>1, <3>2
    <3>4. moved.in - 1 \in Int
      BY <3>1
    <3>. QED
      BY <3>1, <3>2, <3>3, <3>4
  <2>1. Typed'
    BY <1>4, <2>0, Changed DEF BaseInv, Spend
  <2>. QED
    BY <1>4, <2>1, BaseElsewhere DEF Spend
<1>. QED
  BY <1>1, <1>2, <1>3, <1>4

\* Every step.
LEMMA BaseNext == BaseInv /\ [Next]_svars => BaseInv'
<1>1. ASSUME BaseInv, UNCHANGED svars PROVE BaseInv'
  BY <1>1 DEF svars, BaseInv, Typed, Aimed, PaysEnough, Reported
<1>. QED
  BY <1>1, BaseDests, BaseReads, BaseDebits, BaseRest DEF Next, DestStep

\* The base is an invariant.
THEOREM BaseHolds == Spec => []BaseInv
BY BaseInit, BaseNext, PTL DEF Spec

(***************************************************************************)
(* Types, bounds, and that every payout of a sweep is at least the minimum *)
(* and goes to a settlement account of the customer.                       *)
(***************************************************************************)
THEOREM TypeCorrect == Spec => []TypeOK
<1>1. BaseInv => TypeOK
  <2>. SUFFICES ASSUME BaseInv PROVE TypeOK
    OBVIOUS
  <2>1. \A i \in DOMAIN rows : rows[i] \in Rows
    BY DEF BaseInv, Typed
  <2>2. editing \in [Editors -> [at: {"idle", "clear", "set"}, dest: Dests \cup {None},
                                sees: SUBSET Dests]]
    BY DEF BaseInv, Typed, Edits
  <2>. QED
    BY <2>1, <2>2 DEF BaseInv, Typed, PaysEnough, TypeOK, Stages, Rows, DestRows
<1>. QED
  BY <1>1, BaseHolds, PTL


-----------------------------------------------------------------------------
(* Default settlement accounts.                                            *)

\* The defaults after a statement: no more of them, of the same requests.
Fewer ==
  /\ \A d \in Dests : dests[d].made => dests'[d].made
  /\ \A d \in Defaults' : d \in Defaults /\ setBy'[d] = setBy[d]

\* Or one more, of request e, which had none left.
OneOf(e, d) ==
  /\ \A x \in Dests : dests[x].made => dests'[x].made
  /\ d \in Defaults' /\ dests'[d].made /\ setBy'[d] = e
  /\ \A x \in Defaults' : x # d => x \in Defaults /\ setBy'[x] = setBy[x] /\ setBy[x] # e

\* Who owns the defaults after a statement.
LEMMA StaysOwned ==
  ASSUME Owned, Fewer \/ \E e \in Editors, d \in Dests : OneOf(e, d)
  PROVE  Owned'
<1>0. Defaults \subseteq Dests /\ Defaults' \subseteq Dests
  BY DEF Defaults
<1>1. CASE Fewer
  BY <1>0, <1>1 DEF Owned, Fewer
<1>2. ASSUME NEW e \in Editors, NEW d \in Dests, OneOf(e, d) PROVE Owned'
  <2>1. \A x \in Defaults' : dests'[x].made /\ setBy'[x] \in Editors
    BY <1>0, <1>2 DEF Owned, OneOf
  <2>2. ASSUME NEW x \in Defaults', NEW y \in Defaults', setBy'[x] = setBy'[y] PROVE x = y
    BY <1>0, <1>2, <2>2 DEF Owned, OneOf
  <2>. QED
    BY <2>1, <2>2 DEF Owned
<1>. QED
  BY <1>1, <1>2

\* The other requests.
LEMMA OthersSucceed ==
  ASSUME NEW f \in Editors, Succeeds(f), UNCHANGED editing,
         \/ Fewer
         \/ \E e \in Editors, d \in Dests : e # f /\ OneOf(e, d)
  PROVE  Succeeds(f)'
BY DEF Succeeds, Fewer, OneOf, Defaults

\* One request moves.
LEMMA MovesOn ==
  ASSUME DefaultInv, NEW e \in Editors, Succeeds(e)',
         \A f \in Editors : f # e => editing'[f] = editing[f],
         \/ Fewer
         \/ \E d \in Dests : OneOf(e, d)
  PROVE  Owned' /\ \A f \in Editors : Succeeds(f)'
<1>1. Owned'
  BY StaysOwned DEF DefaultInv
<1>2. ASSUME NEW f \in Editors, f # e PROVE Succeeds(f)'
  BY <1>2 DEF DefaultInv, Succeeds, Fewer, OneOf, Defaults
<1>. QED
  BY <1>1, <1>2

\* What a statement that clears leaves.
LEMMA Clears ==
  ASSUME BaseInv, NEW ds
  PROVE  /\ \A d \in Dests : /\ Cleared(ds)[d].made = dests[d].made
                             /\ Cleared(ds)[d].isDefault <=> dests[d].isDefault /\ d \notin ds
                             /\ d \notin ds => Disowned(ds)[d] = setBy[d]
<1>1. \A d \in Dests : dests[d] \in DestRows
  BY DEF BaseInv, Typed
<1>. QED
  BY <1>1 DEF Cleared, Disowned, DestRows

\* A request that begins sees every default there is.
LEMMA BeginKeeps ==
  ASSUME BaseInv, DefaultInv, NEW e \in Editors, NEW d \in Dests \cup {None}, BeginDefault(e, d)
  PROVE  DefaultInv'
<1>1. /\ editing'[e] = [at |-> "clear", dest |-> d, sees |-> Made]
      /\ \A f \in Editors : f # e => editing'[f] = editing[f]
  BY EditSteps, EditFacts DEF BeginDefault
<1>2. UNCHANGED <<dests, setBy, unset>> /\ d \in Made \cup {None} /\ editing[e].at = "idle"
  BY DEF BeginDefault
<1>3. Defaults' = Defaults /\ Fewer
  BY <1>2 DEF Defaults, Fewer
<1>4. Succeeds(e)'
  BY <1>1, <1>2, <1>3, SettlementsAssumption DEF DefaultInv, Owned, Succeeds, Made, Defaults
<1>5. NoneForAReason'
  BY <1>1, <1>2, <1>3 DEF DefaultInv, NoneForAReason
<1>. QED
  BY <1>1, <1>3, <1>4, <1>5, MovesOn DEF DefaultInv

\* A creation clears what it saw, its own among it, and adds one.
LEMMA CreateKeeps ==
  ASSUME BaseInv, DefaultInv, NEW e \in Editors, NEW d \in Dests, CreateDest(e, d)
  PROVE  DefaultInv'
<1>. DEFINE ds == editing[e].sees
<1>1. /\ editing'[e] = Idle /\ \A f \in Editors : f # e => editing'[f] = editing[f]
  BY EditSteps, EditFacts DEF CreateDest
<1>2. /\ editing[e].at = "clear" /\ ~dests[d].made
      /\ dests' = [Cleared(ds) EXCEPT ![d] = Fresh(TRUE)] /\ setBy' = [Disowned(ds) EXCEPT ![d] = e]
  BY DEF CreateDest
<1>3. /\ Cleared(ds) \in [Dests -> DestRows] /\ Disowned(ds) \in [Dests -> Editors \cup {None}]
  BY DestFacts
<1>4. /\ dests'[d] = Fresh(TRUE) /\ setBy'[d] = e
      /\ \A x \in Dests : x # d => dests'[x] = Cleared(ds)[x] /\ setBy'[x] = Disowned(ds)[x]
  BY <1>2, <1>3
<1>5. ASSUME NEW x \in Dests, x # d
      PROVE  /\ dests'[x].made = dests[x].made
             /\ dests'[x].isDefault => dests[x].isDefault /\ x \notin ds /\ setBy'[x] = setBy[x]
  BY <1>4, <1>5, Clears
<1>. HIDE DEF ds
<1>6. Fresh(TRUE).made /\ Fresh(TRUE).isDefault
  BY DEF Fresh
<1>7. \A x \in Defaults : setBy[x] = e => x \in ds
  BY <1>2 DEF DefaultInv, Succeeds, ds
<1>8. OneOf(e, d)
  <2>1. d \in Defaults' /\ dests'[d].made
    BY <1>4, <1>6 DEF Defaults
  <2>2. \A x \in Dests : dests[x].made => dests'[x].made
    BY <1>5, <2>1
  <2>3. ASSUME NEW x \in Defaults', x # d
        PROVE  x \in Defaults /\ setBy'[x] = setBy[x] /\ setBy[x] # e
    BY <1>5, <1>7, <2>3 DEF Defaults
  <2>. QED
    BY <1>4, <2>1, <2>2, <2>3 DEF OneOf
<1>9. Succeeds(e)'
  BY <1>1, SettlementsAssumption DEF Succeeds, Idle
<1>10. NoneForAReason'
  BY <1>8 DEF OneOf, NoneForAReason
<1>. QED
  BY <1>1, <1>8, <1>9, <1>10, MovesOn DEF DefaultInv

\* The first statement of an update clears what it saw.
LEMMA ClearKeeps ==
  ASSUME BaseInv, DefaultInv, NEW e \in Editors, ClearDefaults(e)
  PROVE  DefaultInv'
<1>. DEFINE ds == editing[e].sees
<1>1. /\ editing'[e] = [at |-> "set", dest |-> editing[e].dest, sees |-> {}]
      /\ \A f \in Editors : f # e => editing'[f] = editing[f]
  BY EditSteps, EditFacts
<1>2. editing[e].at = "clear" /\ dests' = Cleared(ds) /\ setBy' = Disowned(ds)
  BY DEF ClearDefaults
<1>3. \A x \in Dests : /\ dests'[x].made = dests[x].made
                       /\ dests'[x].isDefault => dests[x].isDefault /\ x \notin ds /\ setBy'[x] = setBy[x]
  BY <1>2, Clears
<1>. HIDE DEF ds
<1>4. Fewer
  BY <1>3 DEF Fewer, Defaults
<1>5. \A x \in Defaults' : setBy'[x] # e
  <2>1. \A x \in Defaults : setBy[x] = e => x \in ds
    BY <1>2 DEF DefaultInv, Succeeds, ds
  <2>. QED
    BY <1>3, <2>1 DEF Defaults
<1>6. editing[e].dest \in Dests => dests'[editing[e].dest].made
  BY <1>3 DEF DefaultInv, Succeeds
<1>7. Succeeds(e)'
  BY <1>1, <1>5, <1>6 DEF Succeeds
<1>8. NoneForAReason'
  BY <1>1 DEF NoneForAReason
<1>. QED
  BY <1>1, <1>4, <1>7, <1>8, MovesOn DEF DefaultInv

\* The second sets one, where its request has none.
LEMMA SetKeeps ==
  ASSUME BaseInv, DefaultInv, NEW e \in Editors, NEW a \in BOOLEAN, SetDefault(e, a)
  PROVE  DefaultInv'
<1>. DEFINE d == editing[e].dest
<1>1. /\ editing'[e] = Idle /\ \A f \in Editors : f # e => editing'[f] = editing[f]
  BY EditSteps, EditFacts DEF SetDefault
<1>2. d \in Dests /\ editing[e].at = "set"
  BY EditSteps DEF SetDefault
<1>3. /\ dests' = [dests EXCEPT ![d].isDefault = TRUE, ![d].isActive = a]
      /\ setBy' = [setBy EXCEPT ![d] = e]
  BY DEF SetDefault
<1>4. dests \in [Dests -> DestRows] /\ setBy \in [Dests -> Editors \cup {None}]
  BY DEF BaseInv, Typed
<1>5. dests[d].made
  BY <1>2 DEF DefaultInv, Succeeds
<1>6. \A x \in Defaults : setBy[x] # e
  BY <1>2 DEF DefaultInv, Succeeds
<1>. HIDE DEF d
<1>7. /\ dests'[d].isDefault /\ dests'[d].made /\ setBy'[d] = e
      /\ \A x \in Dests : x # d => dests'[x] = dests[x] /\ setBy'[x] = setBy[x]
  BY <1>2, <1>3, <1>4, <1>5 DEF DestRows
<1>8. OneOf(e, d)
  BY <1>2, <1>6, <1>7 DEF OneOf, Defaults
<1>9. Succeeds(e)'
  BY <1>1, SettlementsAssumption DEF Succeeds, Idle
<1>10. NoneForAReason'
  BY <1>8 DEF OneOf, NoneForAReason
<1>. QED
  BY <1>1, <1>2, <1>8, <1>9, <1>10, MovesOn DEF DefaultInv

\* A request that gives up leaves its accounts; between its statements, none.
LEMMA GiveUpKeeps ==
  ASSUME BaseInv, DefaultInv, NEW e \in Editors, GiveUp(e)
  PROVE  DefaultInv'
<1>1. /\ editing'[e] = Idle /\ \A f \in Editors : f # e => editing'[f] = editing[f]
  BY EditSteps, EditFacts DEF GiveUp
<1>2. UNCHANGED <<dests, setBy>> /\ unset' = (unset \/ editing[e].at = "set")
  BY DEF GiveUp
<1>3. Defaults' = Defaults /\ Fewer
  BY <1>2 DEF Defaults, Fewer
<1>4. Succeeds(e)'
  BY <1>1, SettlementsAssumption DEF Succeeds, Idle
<1>5. NoneForAReason'
  BY <1>1, <1>2, <1>3 DEF DefaultInv, NoneForAReason
<1>. QED
  BY <1>1, <1>3, <1>4, <1>5, MovesOn DEF DefaultInv

\* The requests of one statement.
LEMMA PatchKeeps ==
  ASSUME BaseInv, DefaultInv, NEW d \in Dests,
         InsertDest(d) \/ \E b, a \in BOOLEAN : PatchDest(d, b, a)
  PROVE  DefaultInv'
<1>1. dests \in [Dests -> DestRows] /\ setBy \in [Dests -> Editors \cup {None}] /\ unset \in BOOLEAN
  BY DEF BaseInv, Typed
<1>2. UNCHANGED editing
  BY DEF InsertDest, PatchDest
<1>3. CASE InsertDest(d)
  <2>1. /\ ~dests[d].made /\ dests' = [dests EXCEPT ![d] = Fresh(FALSE)] /\ UNCHANGED <<setBy, unset>>
    BY <1>3 DEF InsertDest
  <2>2. Fresh(FALSE).made /\ ~Fresh(FALSE).isDefault /\ d \notin Defaults
    BY <2>1 DEF Fresh, DefaultInv, Owned
  <2>3. Defaults' = Defaults /\ Fewer
    BY <1>1, <2>1, <2>2 DEF Defaults, Fewer
  <2>4. Owned' /\ \A f \in Editors : Succeeds(f)'
    BY <1>2, <2>3, StaysOwned, OthersSucceed DEF DefaultInv
  <2>5. NoneForAReason'
    BY <1>2, <2>1, <2>3 DEF DefaultInv, NoneForAReason
  <2>. QED
    BY <2>4, <2>5 DEF DefaultInv
<1>4. ASSUME NEW b \in BOOLEAN, NEW a \in BOOLEAN, PatchDest(d, b, a) PROVE DefaultInv'
  <2>1. /\ dests' = [dests EXCEPT ![d].isDefault = b, ![d].isActive = a]
        /\ b => dests[d].isDefault /\ UNCHANGED <<setBy, unset>>
        /\ ~b => setBy' = [setBy EXCEPT ![d] = None] /\ unset' = (unset \/ dests[d].isDefault)
    BY <1>4 DEF PatchDest
  <2>2. /\ \A x \in Dests : x # d => dests'[x] = dests[x] /\ setBy'[x] = setBy[x]
        /\ dests'[d].made = dests[d].made /\ dests'[d].isDefault = b
    BY <1>1, <2>1 DEF DestRows
  <2>3. Fewer
    BY <2>1, <2>2 DEF Fewer, Defaults
  <2>4. Owned' /\ \A f \in Editors : Succeeds(f)'
    BY <1>2, <2>3, StaysOwned, OthersSucceed DEF DefaultInv
  <2>5. NoneForAReason'
    <3>1. SUFFICES ASSUME Defaults' = {} PROVE unset' \/ \E e \in Editors : editing[e].at = "set"
      BY <1>2 DEF NoneForAReason
    <3>2. CASE b
      BY <2>1, <2>2, <3>1, <3>2 DEF Defaults
    <3>3. CASE ~b
      <4>1. CASE dests[d].isDefault
        BY <2>1, <3>3, <4>1
      <4>2. CASE ~dests[d].isDefault
        <5>1. Defaults = {}
          BY <2>2, <3>1, <4>2 DEF Defaults
        <5>. QED
          BY <2>1, <3>3, <5>1 DEF DefaultInv, NoneForAReason
      <4>. QED
        BY <4>1, <4>2
    <3>. QED
      BY <3>2, <3>3
  <2>. QED
    BY <2>4, <2>5 DEF DefaultInv
<1>. QED
  BY <1>3, <1>4

\* Every step.
LEMMA DefaultNext == BaseInv /\ DefaultInv /\ [Next]_svars => DefaultInv'
<1>. SUFFICES ASSUME BaseInv, DefaultInv, [Next]_svars PROVE DefaultInv'
  OBVIOUS
<1>1. ASSUME UNCHANGED <<dests, editing, setBy, unset>> PROVE DefaultInv'
  <2>1. Defaults' = Defaults
    BY <1>1 DEF Defaults
  <2>. QED
    BY <1>1, <2>1 DEF DefaultInv, Owned, Succeeds, NoneForAReason
<1>2. CASE UNCHANGED svars
  BY <1>1, <1>2 DEF svars
<1>3. CASE DestStep
  <2>1. CASE \E b \in BOOLEAN : SetAutoSweep(b)
    BY <1>1, <2>1 DEF SetAutoSweep
  <2>. QED
    BY <1>3, <2>1, BeginKeeps, CreateKeeps, ClearKeeps, SetKeeps, GiveUpKeeps, PatchKeeps DEF DestStep
<1>4. CASE \/ \E c \in Cron : Fire(c) \/ CheckSwept(c)
           \/ \E a \in Admins : SweepNow(a)
           \/ \E s \in Sweeps : FindDest(s) \/ ReadBalance(s) \/ Debit(s) \/ CreateRow(s) \/ Crash(s)
           \/ \E i \in DOMAIN rows, status \in Statuses : Refund(i, status) \/ Restate(i, status)
           \/ Tick \/ Credit \/ Spend
  BY <1>1, <1>4 DEF Fire, CheckSwept, SweepNow, FindDest, ReadBalance, Debit, CreateRow, Crash,
                    Refund, Restate, Tick, Credit, Spend
<1>. QED
  BY <1>2, <1>3, <1>4 DEF Next, DestStep

(***************************************************************************)
(* updateSettlementAccount and upsertSettlementAccount lock nothing, so    *)
(* that requests that overlap can leave several defaults.  They leave no   *)
(* more than one for each request that runs at a time, however often they  *)
(* fail or die between their statements; and where none is left, one of    *)
(* them took it off or failed in between.                                  *)
(***************************************************************************)
THEOREM DefaultsFollow == Spec => []DefaultsFollowRequests
<1>1. Init => DefaultInv
  <2>. SUFFICES ASSUME Init PROVE DefaultInv
    OBVIOUS
  <2>1. PICK first : /\ dests = [d \in Dests |-> [made |-> d = first, isDefault |-> d = first,
                                                  isActive |-> d = first]]
                     /\ setBy = [d \in Dests |-> IF d = first THEN CHOOSE e \in Editors : TRUE ELSE None]
                     /\ unset = (first \notin Dests)
    BY DEF Init
  <2>2. (CHOOSE e \in Editors : TRUE) \in Editors
    BY SettlementsAssumption
  <2>3. Defaults = {first} \cap Dests
    BY <2>1 DEF Defaults
  <2>4. Owned /\ NoneForAReason
    BY <2>1, <2>2, <2>3 DEF Owned, NoneForAReason
  <2>5. \A e \in Editors : editing[e] = Idle
    BY DEF Init
  <2>6. \A e \in Editors : Succeeds(e)
    BY <2>5, SettlementsAssumption DEF Succeeds, Idle
  <2>. QED
    BY <2>4, <2>6 DEF DefaultInv
<1>2. Spec => []DefaultInv
  BY <1>1, BaseHolds, DefaultNext, PTL DEF Spec
<1>3. DefaultInv => DefaultsFollowRequests
  <2>. SUFFICES ASSUME DefaultInv PROVE DefaultsFollowRequests
    OBVIOUS
  <2>. DEFINE by == [d \in Defaults |-> setBy[d]]
  <2>1. by \in [Defaults -> Editors] /\ \A d, e \in Defaults : by[d] = by[e] => d = e
    BY DEF DefaultInv, Owned
  <2>. HIDE DEF by
  <2>2. by \in Injection(Defaults, Editors)
    BY <2>1 DEF Injection, IsInjective
  <2>3. Cardinality(Defaults) <= Cardinality(Editors)
    BY <2>2, FS_Injection, SettlementsAssumption
  <2>. QED
    BY <2>3 DEF DefaultsFollowRequests, DefaultInv, NoneForAReason
<1>. QED
  BY <1>2, <1>3, PTL

-----------------------------------------------------------------------------
(* The accounting.                                                         *)

LEMMA HeldIsNumber == BaseInv => \A s \in Sweeps : HeldBy[s] \in Nat
<1>. SUFFICES ASSUME BaseInv, NEW s \in Sweeps PROVE HeldBy[s] \in Nat
  OBVIOUS
<1>1. seen[s].amount \in Nat
  BY ReadingFacts, NewReading
<1>. QED
  BY <1>1 DEF HeldBy

LEMMA SettledIsNumber == BaseInv => \A i \in DOMAIN rows : SettledBy[i] \in Nat
<1>. SUFFICES ASSUME BaseInv, NEW i \in DOMAIN rows PROVE SettledBy[i] \in Nat
  OBVIOUS
<1>1. rows[i] \in Rows
  BY DEF BaseInv, Typed
<1>. QED
  BY <1>1 DEF SettledBy, Rows

\* Both, after a step.
LEMMA NumbersNext ==
  BaseInv' => /\ \A s \in Sweeps : HeldBy'[s] \in Nat
              /\ \A i \in DOMAIN rows' : SettledBy'[i] \in Nat
<1>1. (BaseInv => /\ \A s \in Sweeps : HeldBy[s] \in Nat
                  /\ \A i \in DOMAIN rows : SettledBy[i] \in Nat)'
  BY HeldIsNumber, SettledIsNumber, PTL
<1>. QED
  BY <1>1

\* The totals are sums, before and after a step.
LEMMA Sums == Held = SumOver(HeldBy, Sweeps) /\ Settled = SumOver(SettledBy, DOMAIN rows)
BY DEF Held, Settled, SumOver

LEMMA SumsNext == Held' = SumOver(HeldBy', Sweeps) /\ Settled' = SumOver(SettledBy', DOMAIN rows')
<1>1. (Held = SumOver(HeldBy, Sweeps) /\ Settled = SumOver(SettledBy, DOMAIN rows))'
  BY Sums, PTL
<1>. QED
  BY <1>1

\* One sweep moves: what all of them hold changes by what it holds.
LEMMA HeldChanges ==
  ASSUME BaseInv, BaseInv', NEW s \in Sweeps,
         \A q \in Sweeps : q # s => pc'[q] = pc[q] /\ seen'[q] = seen[q]
  PROVE  Held \in Int /\ Held' \in Int /\ Held' = Held - HeldBy[s] + HeldBy'[s]
<1>1. \A q \in Sweeps : HeldBy[q] \in Int
  BY HeldIsNumber
<1>2. \A q \in Sweeps : HeldBy'[q] \in Int
  BY NumbersNext
<1>3. \A q \in Sweeps : q # s => HeldBy'[q] = HeldBy[q]
  BY DEF HeldBy
<1>4. Held = SumOver(HeldBy, Sweeps) /\ Held' = SumOver(HeldBy', Sweeps)
  BY Sums, SumsNext
<1>5. IsFiniteSet(Sweeps)
  BY SettlementsAssumption
<1>. QED
  BY <1>1, <1>2, <1>3, <1>4, <1>5, SumChanges

\* The rows are finitely many.
LEMMA RowsFinite == BaseInv => rows \in Seq(Rows) /\ IsFiniteSet(DOMAIN rows)
<1>. SUFFICES ASSUME BaseInv PROVE rows \in Seq(Rows) /\ IsFiniteSet(DOMAIN rows)
  OBVIOUS
<1>1. rows \in Seq(Rows) /\ Len(rows) \in Nat /\ DOMAIN rows = 1..Len(rows)
  BY DEF BaseInv, Typed
<1>2. IsFiniteSet(1..Len(rows))
  BY <1>1, FS_Interval
<1>. QED
  BY <1>1, <1>2

\* A new payout stands for what the sweep debited.
LEMMA SettledGrows ==
  ASSUME BaseInv, BaseInv', NEW s \in Sweeps, CreateRow(s)
  PROVE  Settled \in Int /\ Settled' = Settled + seen[s].amount
<1>. DEFINE n == Len(rows) + 1
            row == NewRow(s)
<1>1. rows \in Seq(Rows) /\ IsFiniteSet(DOMAIN rows) /\ rows' = Append(rows, row) /\ row \in Rows
  BY RowsFinite, CreatedRow DEF CreateRow, NewRow
<1>2. row.amount + row.fee = seen[s].amount /\ ~row.refunded
  BY CreatedRow DEF NewRow
<1>. HIDE DEF row
<1>3. /\ DOMAIN rows' = DOMAIN rows \cup {n} /\ n \notin DOMAIN rows
      /\ rows'[n] = row /\ \A i \in DOMAIN rows : rows'[i] = rows[i]
  BY <1>1
<1>. HIDE DEF n
<1>4. SettledBy'[n] = seen[s].amount
  BY <1>2, <1>3 DEF SettledBy
<1>5. \A i \in DOMAIN rows : SettledBy'[i] = SettledBy[i]
  BY <1>3 DEF SettledBy
<1>6. \A i \in DOMAIN rows : SettledBy[i] \in Int
  BY SettledIsNumber
<1>7. SettledBy'[n] \in Int
  BY <1>3, NumbersNext
<1>8. /\ SumOver(SettledBy, DOMAIN rows) \in Int
      /\ SumOver(SettledBy', DOMAIN rows \cup {n}) = SumOver(SettledBy, DOMAIN rows) + SettledBy'[n]
  BY <1>1, <1>3, <1>5, <1>6, <1>7, SumGrows
<1>. QED
  BY <1>3, <1>4, <1>8, Sums, SumsNext

\* A refunded one stands for nothing.
LEMMA SettledShrinks ==
  ASSUME BaseInv, BaseInv', NEW i \in DOMAIN rows, NEW status \in Statuses, Refund(i, status)
  PROVE  Settled \in Int /\ Settled' = Settled - (rows[i].amount + rows[i].fee)
<1>1. IsFiniteSet(DOMAIN rows) /\ DOMAIN rows' = DOMAIN rows
  BY RowsFinite, RefundedRow
<1>2. SettledBy'[i] = 0 /\ SettledBy[i] = rows[i].amount + rows[i].fee
  BY <1>1, RefundedRow DEF SettledBy
<1>3. ASSUME NEW j \in DOMAIN rows, j # i PROVE SettledBy'[j] = SettledBy[j]
  <2>1. rows'[j] = rows[j]
    BY <1>3, RefundedRow
  <2>. QED
    BY <1>1, <2>1 DEF SettledBy
<1>4. \A j \in DOMAIN rows : SettledBy[j] \in Int
  BY SettledIsNumber
<1>5. \A j \in DOMAIN rows : SettledBy'[j] \in Int
  BY <1>1, NumbersNext
<1>6. /\ SumOver(SettledBy, DOMAIN rows) \in Int
      /\ SumOver(SettledBy', DOMAIN rows) = SumOver(SettledBy, DOMAIN rows) - SettledBy[i] + SettledBy'[i]
  BY <1>1, <1>3, <1>4, <1>5, SumChanges
<1>7. rows[i].amount + rows[i].fee \in Int
  BY RefundedRow
<1>. QED
  BY <1>1, <1>2, <1>6, <1>7, Sums, SumsNext

\* A refunded one that is reported again stands for nothing still.
LEMMA SettledStays ==
  ASSUME BaseInv, NEW i \in DOMAIN rows, NEW status \in Statuses, Restate(i, status)
  PROVE  Settled' = Settled
<1>1. DOMAIN rows' = DOMAIN rows
  BY RefundedRow
<1>2. ASSUME NEW j \in DOMAIN rows PROVE SettledBy'[j] = SettledBy[j]
  <2>1. CASE j = i
    <3>1. rows'[i].refunded /\ rows[i].refunded
      BY RefundedRow
    <3>. QED
      BY <1>1, <2>1, <3>1 DEF SettledBy
  <2>2. CASE j # i
    <3>1. rows'[j] = rows[j]
      BY <2>2, RefundedRow
    <3>. QED
      BY <1>1, <3>1 DEF SettledBy
  <2>. QED
    BY <2>1, <2>2
<1>3. \A j \in DOMAIN rows : SettledBy[j] \in Int
  BY SettledIsNumber
<1>. QED
  BY <1>1, <1>2, <1>3, RowsFinite, SumOfSame, Sums, SumsNext

\* Both totals are numbers.
LEMMA TotalsAreNumbers == BaseInv => Held \in Int /\ Settled \in Int
<1>. SUFFICES ASSUME BaseInv PROVE Held \in Int /\ Settled \in Int
  OBVIOUS
<1>1. \A s \in Sweeps : HeldBy[s] \in Int
  BY HeldIsNumber
<1>2. \A i \in DOMAIN rows : SettledBy[i] \in Int
  BY SettledIsNumber
<1>. QED
  BY <1>1, <1>2, RowsFinite, SumIsNumber, Sums, SettlementsAssumption

\* Every step keeps the account.
LEMMA MoneyNext ==
  BaseInv /\ MoneyAccounted /\ [Next]_svars /\ BaseInv' => MoneyAccounted'
<1>. SUFFICES ASSUME BaseInv, MoneyAccounted, [Next]_svars, BaseInv' PROVE MoneyAccounted'
  OBVIOUS
<1>0. /\ balance \in Int /\ moved.in \in Int /\ moved.orphaned \in Int
      /\ Held \in Int /\ Settled \in Int
      /\ balance + Settled + Held + moved.orphaned = moved.in
  BY TotalsAreNumbers DEF BaseInv, Typed, MoneyAccounted
<1>1. ASSUME UNCHANGED rows PROVE Settled' = Settled
  <2>1. SettledBy' = SettledBy /\ DOMAIN rows' = DOMAIN rows
    BY <1>1 DEF SettledBy
  <2>. QED
    BY <2>1, Sums, SumsNext
<1>2. ASSUME UNCHANGED <<pc, seen>> PROVE Held' = Held
  <2>1. HeldBy' = HeldBy
    BY <1>2 DEF HeldBy
  <2>. QED
    BY <2>1, Sums, SumsNext
<1>3. ASSUME NEW s \in Sweeps, pc[s] # "create", pc'[s] # "create",
             \A q \in Sweeps : q # s => pc'[q] = pc[q] /\ seen'[q] = seen[q]
      PROVE  Held' = Held
  <2>1. HeldBy[s] = 0 /\ HeldBy'[s] = 0
    BY <1>3 DEF HeldBy
  <2>. QED
    BY <1>0, <1>3, <2>1, HeldChanges
<1>4. ASSUME UNCHANGED <<balance, moved, rows>>, Held' = Held PROVE MoneyAccounted'
  BY <1>0, <1>1, <1>4 DEF MoneyAccounted
<1>5. ASSUME UNCHANGED <<balance, moved, rows>>, UNCHANGED <<pc, seen>> PROVE MoneyAccounted'
  BY <1>2, <1>4, <1>5
<1>6. /\ pc \in [Sweeps -> Stages] /\ seen \in [Sweeps -> Readings]
      /\ Cron \subseteq Sweeps /\ Admins \subseteq Sweeps
      /\ moved = [in |-> moved.in, orphaned |-> moved.orphaned]
  BY DEF BaseInv, Typed, Sweeps
<1>7. CASE UNCHANGED svars \/ DestStep \/ Tick
  BY <1>5, <1>7, DestStepLeaves DEF svars, Tick
<1>8. ASSUME NEW c \in Cron, Fire(c) PROVE MoneyAccounted'
  <2>1. CASE pc[c] = "idle" /\ autoSweep
    BY <1>3, <1>4, <1>6, <1>8, <2>1 DEF Fire, Goto
  <2>2. CASE ~(pc[c] = "idle" /\ autoSweep)
    BY <1>5, <1>8, <2>2 DEF Fire
  <2>. QED
    BY <2>1, <2>2
<1>9. ASSUME NEW c \in Cron, CheckSwept(c) PROVE MoneyAccounted'
  BY <1>3, <1>4, <1>6, <1>9 DEF CheckSwept, Goto
<1>10. ASSUME NEW a \in Admins, SweepNow(a) PROVE MoneyAccounted'
  BY <1>3, <1>4, <1>6, <1>10 DEF SweepNow, Goto
<1>11. ASSUME NEW s \in Sweeps, FindDest(s) PROVE MoneyAccounted'
  <2>1. CASE DefaultDests = {}
    BY <1>3, <1>4, <1>6, <1>11, <2>1 DEF FindDest, Goto
  <2>2. CASE DefaultDests # {}
    BY <1>3, <1>4, <1>6, <1>11, <2>2 DEF FindDest, Goto
  <2>. QED
    BY <2>1, <2>2
<1>12. ASSUME NEW s \in Sweeps, ReadBalance(s) PROVE MoneyAccounted'
  BY <1>3, <1>4, <1>6, <1>12 DEF ReadBalance, Goto
<1>13. ASSUME NEW s \in Sweeps, Debit(s) PROVE MoneyAccounted'
  <2>1. CASE Net(seen[s].amount) < MinPayout \/ balance < seen[s].amount
    BY <1>3, <1>4, <1>6, <1>13, <2>1 DEF Debit, Goto
  <2>2. CASE ~(Net(seen[s].amount) < MinPayout \/ balance < seen[s].amount)
    <3>1. /\ pc[s] = "debit" /\ pc' = [pc EXCEPT ![s] = "create"]
          /\ balance' = balance - seen[s].amount /\ UNCHANGED <<seen, moved, rows>>
      BY <1>13, <2>2 DEF Debit, Goto
    <3>2. HeldBy[s] = 0 /\ HeldBy'[s] = seen[s].amount /\ seen[s].amount \in Nat
      BY <1>6, <3>1, ReadingFacts, NewReading DEF HeldBy
    <3>3. Held' = Held - HeldBy[s] + HeldBy'[s]
      BY <1>6, <3>1, HeldChanges
    <3>. QED
      BY <1>0, <1>1, <3>1, <3>2, <3>3 DEF MoneyAccounted
  <2>. QED
    BY <2>1, <2>2
<1>14. ASSUME NEW s \in Sweeps, CreateRow(s) PROVE MoneyAccounted'
  <2>1. /\ pc[s] = "create" /\ pc' = [pc EXCEPT ![s] = "idle"]
        /\ UNCHANGED <<seen, moved, balance>>
    BY <1>14 DEF CreateRow, Goto
  <2>2. HeldBy'[s] = 0 /\ HeldBy[s] = seen[s].amount /\ seen[s].amount \in Nat
    BY <1>6, <2>1, ReadingFacts, NewReading DEF HeldBy
  <2>3. Held' = Held - HeldBy[s] + HeldBy'[s]
    BY <1>6, <2>1, HeldChanges
  <2>4. Settled' = Settled + seen[s].amount
    BY <1>14, SettledGrows
  <2>. QED
    BY <1>0, <2>1, <2>2, <2>3, <2>4 DEF MoneyAccounted
<1>15. ASSUME NEW s \in Sweeps, Crash(s) PROVE MoneyAccounted'
  <2>1. pc' = [pc EXCEPT ![s] = "idle"] /\ UNCHANGED <<seen, balance, rows>>
    BY <1>15 DEF Crash, Goto
  <2>2. CASE pc[s] # "create"
    BY <1>3, <1>4, <1>6, <1>15, <2>1, <2>2 DEF Crash
  <2>3. CASE pc[s] = "create"
    <3>1. moved'.in = moved.in /\ moved'.orphaned = moved.orphaned + seen[s].amount
      BY <1>6, <1>15, <2>3 DEF Crash
    <3>2. HeldBy'[s] = 0 /\ HeldBy[s] = seen[s].amount /\ seen[s].amount \in Nat
      BY <1>6, <2>1, <2>3, ReadingFacts, NewReading DEF HeldBy
    <3>3. Held' = Held - HeldBy[s] + HeldBy'[s]
      BY <1>6, <2>1, HeldChanges
    <3>. QED
      BY <1>0, <1>1, <2>1, <3>1, <3>2, <3>3 DEF MoneyAccounted
  <2>. QED
    BY <2>2, <2>3
<1>16. ASSUME NEW i \in DOMAIN rows, NEW status \in Statuses, Refund(i, status) PROVE MoneyAccounted'
  <2>1. /\ balance' = balance + rows[i].amount + rows[i].fee
        /\ UNCHANGED <<pc, seen, moved>>
    BY <1>16 DEF Refund
  <2>2. Settled' = Settled - (rows[i].amount + rows[i].fee)
    BY <1>16, SettledShrinks
  <2>3. rows[i].amount \in Int /\ rows[i].fee \in Int
    BY <1>16, RefundedRow
  <2>4. Held' = Held
    BY <1>2, <2>1
  <2>. QED
    BY <1>0, <2>1, <2>2, <2>3, <2>4 DEF MoneyAccounted
<1>18. ASSUME NEW i \in DOMAIN rows, NEW status \in Statuses, Restate(i, status) PROVE MoneyAccounted'
  <2>1. UNCHANGED <<balance, pc, seen, moved>>
    BY <1>18 DEF Restate
  <2>2. Settled' = Settled /\ Held' = Held
    BY <1>2, <1>18, <2>1, SettledStays
  <2>. QED
    BY <1>0, <2>1, <2>2 DEF MoneyAccounted
<1>17. CASE Credit \/ Spend
  <2>1. UNCHANGED <<pc, seen, rows>>
    BY <1>17 DEF Credit, Spend
  <2>2. \E n \in Int : balance' = balance + n /\ moved'.in = moved.in + n /\ moved'.orphaned = moved.orphaned
    <3>1. CASE Credit
      <4>1. PICK n \in 1..2 : balance' = balance + n /\ moved' = [moved EXCEPT !.in = @ + n]
        BY <3>1 DEF Credit
      <4>. QED
        BY <1>6, <4>1
    <3>2. CASE Spend
      <4>1. balance' = balance - 1 /\ moved'.in = moved.in - 1 /\ moved'.orphaned = moved.orphaned
        BY <1>6, <3>2 DEF Spend
      <4>2. balance - 1 = balance + (-1) /\ moved.in - 1 = moved.in + (-1)
        BY <1>0
      <4>. QED
        BY <4>1, <4>2
    <3>. QED
      BY <1>17, <3>1, <3>2
  <2>3. Held' = Held /\ Settled' = Settled
    BY <1>1, <1>2, <2>1
  <2>. QED
    BY <1>0, <2>2, <2>3 DEF MoneyAccounted
<1>. QED
  BY <1>7, <1>8, <1>9, <1>10, <1>11, <1>12, <1>13, <1>14, <1>15, <1>16, <1>17, <1>18 DEF Next, DestStep

(***************************************************************************)
(* runAutoSweep and sweepNow neither make nor lose money, for any number   *)
(* of sweeps and payouts, whatever credits, spending, refunds and crashes   *)
(* come between the read of the balance, its debit and the payout's row.   *)
(***************************************************************************)
THEOREM MoneyIsKept == Spec => []MoneyAccounted
<1>1. Init => MoneyAccounted
  <2>. SUFFICES ASSUME Init PROVE MoneyAccounted
    OBVIOUS
  <2>1. \A s \in Sweeps : HeldBy[s] = 0
    BY DEF Init, HeldBy
  <2>2. Held = 0
    BY <2>1, Sums, SumOfZeros, SettlementsAssumption
  <2>3. Settled = 0
    <3>1. DOMAIN rows = {}
      BY DEF Init
    <3>. QED
      BY <3>1, Sums, SumOfNothing
  <2>. QED
    BY <2>2, <2>3 DEF Init, MoneyAccounted
<1>2. Spec => []MoneyAccounted
  BY <1>1, BaseHolds, MoneyNext, PTL DEF Spec
<1>. QED
  BY <1>2


-----------------------------------------------------------------------------
(* Once a day.                                                             *)

\* Steps that leave the cron's runs and the payouts alone.
LEMMA OnceElsewhere ==
  ASSUME BaseInv, OnceInv, UNCHANGED <<rows, seen>>, ZoneDay(clock') >= ZoneDay(clock), clock' \in Nat,
         \A c \in Cron : pc'[c] \in {"debit", "create"} => pc[c] \in {"debit", "create"}
  PROVE  OnceInv'
<1>1. \A c \in Cron : seen[c].day \in Nat
  BY ReadingFacts, NewReading DEF Sweeps
<1>2. ZoneDay(clock) \in Nat /\ ZoneDay(clock') \in Nat /\ clock \in Nat
  BY SettlementsAssumption, Days DEF BaseInv, Typed
<1>3. DayKnown'
  <2>1. SUFFICES ASSUME NEW c \in Cron PROVE seen[c].day <= ZoneDay(clock')
    BY DEF DayKnown, ZoneDay
  <2>. QED
    BY <1>1, <1>2 DEF OnceInv, DayKnown
<1>4. NotSwept'
  BY DEF OnceInv, NotSwept, ZoneDay
<1>5. SweptOncePerDay'
  BY DEF OnceInv, SweptOncePerDay, ZoneDay
<1>. QED
  BY <1>3, <1>4, <1>5 DEF OnceInv

\* Every step, with one instance.
LEMMA OnceNext == SingleInstance /\ BaseInv /\ OnceInv /\ [Next]_svars => OnceInv'
<1>. SUFFICES ASSUME SingleInstance, BaseInv, OnceInv, [Next]_svars PROVE OnceInv'
  OBVIOUS
<1>0. /\ pc \in [Sweeps -> Stages] /\ Cron \subseteq Sweeps /\ Admins \subseteq Sweeps
      /\ clock \in Nat /\ ZoneDay(clock) \in Nat /\ ZoneDay(clock) <= ZoneDay(clock + 1)
      /\ Cron \cap Admins = {}
  <2>1. clock \in Nat /\ pc \in [Sweeps -> Stages]
    BY SettlementsAssumption DEF BaseInv, Typed
  <2>2. ZoneDay(clock) \in Nat /\ ZoneDay(clock) <= ZoneDay(clock + 1)
    BY <2>1, Days
  <2>. QED
    BY <2>1, <2>2, SettlementsAssumption DEF Sweeps
<1>1. ASSUME UNCHANGED <<rows, seen, pc, clock>> PROVE OnceInv'
  BY <1>0, <1>1, OnceElsewhere
<1>2. CASE UNCHANGED svars \/ DestStep \/ Credit \/ Spend
  BY <1>1, <1>2, DestStepLeaves DEF svars, Credit, Spend
<1>3. CASE Tick
  <2>1. UNCHANGED <<rows, seen, pc>> /\ clock' = clock + 1
    BY <1>3 DEF Tick
  <2>. QED
    BY <1>0, <2>1, OnceElsewhere
<1>4. ASSUME NEW a \in Admins, SweepNow(a) PROVE OnceInv'
  <2>1. UNCHANGED <<rows, seen, clock>> /\ pc' = [pc EXCEPT ![a] = "find"]
    BY <1>4 DEF SweepNow, Goto
  <2>. QED
    BY <1>0, <2>1, OnceElsewhere
<1>5. ASSUME NEW s \in Sweeps, Debit(s) \/ Crash(s) PROVE OnceInv'
  <2>1. /\ UNCHANGED <<rows, seen, clock>>
        /\ pc[s] = "debit" \/ pc' = [pc EXCEPT ![s] = "idle"]
        /\ \E at \in {"idle", "create"} : pc' = [pc EXCEPT ![s] = at]
    BY <1>5 DEF Debit, Crash, Goto
  <2>. QED
    BY <1>0, <2>1, OnceElsewhere
<1>6. ASSUME NEW c \in Cron, CheckSwept(c) PROVE OnceInv'
  <2>1. UNCHANGED <<rows, seen, clock>>
    BY <1>6 DEF CheckSwept
  <2>2. CASE SweptSince(seen[c].day)
    <3>1. pc' = [pc EXCEPT ![c] = "idle"]
      BY <1>6, <2>2 DEF CheckSwept, Goto
    <3>. QED
      BY <1>0, <2>1, <3>1, OnceElsewhere
  <2>3. CASE ~SweptSince(seen[c].day)
    <3>1. pc' = [pc EXCEPT ![c] = "debit"]
      BY <1>6, <2>3 DEF CheckSwept, Goto
    <3>2. ASSUME NEW i \in DOMAIN rows PROVE rows[i].refunded \/ ZoneDay(rows[i].at) < seen[c].day
      <4>1. rows[i].refunded \/ ~(HostDay(rows[i].at) >= seen[c].day)
        BY <2>3 DEF SweptSince, BaseInv, Reported
      <4>2. rows[i].at \in Nat
        <5>1. rows[i] \in Rows
          BY DEF BaseInv, Typed
        <5>. QED
          BY <5>1 DEF Rows
      <4>3. /\ ZoneDay(rows[i].at) \in Nat /\ HostDay(rows[i].at) \in Nat /\ seen[c].day \in Nat
            /\ ZoneDay(rows[i].at) <= HostDay(rows[i].at)
        BY <1>0, <4>2, Days, ReadingFacts, NewReading
      <4>. QED
        BY <4>1, <4>3
    <3>3. NotSwept'
      BY <1>0, <2>1, <3>1, <3>2 DEF OnceInv, NotSwept, ZoneDay
    <3>. QED
      BY <2>1, <3>3 DEF OnceInv, DayKnown, SweptOncePerDay, ZoneDay
  <2>. QED
    BY <2>2, <2>3
<1>7. ASSUME NEW c \in Cron, Fire(c) PROVE OnceInv'
  <2>1. UNCHANGED <<rows, clock>>
    BY <1>7 DEF Fire
  <2>2. CASE pc[c] = "idle" /\ autoSweep
    <3>. DEFINE r == [seen[c] EXCEPT !.day = HostDay(clock)]
    <3>1. /\ seen' = [seen EXCEPT ![c].day = HostDay(clock)] /\ clock % 2 = 0
          /\ pc' = [pc EXCEPT ![c] = "find"]
      BY <1>7, <2>2 DEF Fire, Goto
    <3>2. HostDay(clock) \in Nat /\ HostDay(clock) = ZoneDay(clock)
      BY <1>0, <3>1, Days
    <3>3. ReadsAs(c, r) /\ r.day = ZoneDay(clock)
      <4>1. c \in Sweeps
        BY <1>0
      <4>2. seen[c] \in Readings /\ ReadsAs(c, r)
        BY <3>1, <3>2, <4>1, ReadingFacts
      <4>3. r.day = HostDay(clock)
        BY <3>2, <4>2, NewReading
      <4>. QED
        BY <3>2, <4>2, <4>3
    <3>. HIDE DEF r
    <3>4. DayKnown'
      BY <1>0, <2>1, <3>3 DEF OnceInv, DayKnown, ReadsAs, ZoneDay
    <3>5. NotSwept'
      BY <1>0, <2>1, <3>1, <3>3 DEF OnceInv, NotSwept, ReadsAs, ZoneDay
    <3>. QED
      BY <2>1, <3>4, <3>5 DEF OnceInv, SweptOncePerDay, ZoneDay
  <2>3. CASE ~(pc[c] = "idle" /\ autoSweep)
    BY <1>1, <1>7, <2>1, <2>3 DEF Fire
  <2>. QED
    BY <2>2, <2>3
<1>8. ASSUME NEW s \in Sweeps, NEW r \in Readings, r.day = seen[s].day, ReadsAs(s, r),
             pc[s] \notin {"debit", "create"}, NEW at \in {"idle", "balance", "swept", "debit"},
             at = "debit" => s \notin Cron,
             pc' = [pc EXCEPT ![s] = at], UNCHANGED <<rows, clock>>
      PROVE  OnceInv'
  <2>1. DayKnown'
    BY <1>0, <1>8 DEF OnceInv, DayKnown, ReadsAs, ZoneDay
  <2>2. NotSwept'
    BY <1>0, <1>8 DEF OnceInv, NotSwept, ReadsAs, ZoneDay
  <2>. QED
    BY <1>8, <2>1, <2>2 DEF OnceInv, SweptOncePerDay, ZoneDay
<1>9. ASSUME NEW s \in Sweeps, FindDest(s) PROVE OnceInv'
  <2>1. CASE DefaultDests = {}
    <3>1. UNCHANGED <<rows, seen, clock>> /\ pc' = [pc EXCEPT ![s] = "idle"]
      BY <1>9, <2>1 DEF FindDest, Goto
    <3>. QED
      BY <1>0, <3>1, OnceElsewhere
  <2>2. CASE DefaultDests # {}
    <3>1. /\ pc[s] = "find" /\ pc' = [pc EXCEPT ![s] = "balance"] /\ UNCHANGED <<rows, clock>>
          /\ \E d \in Dests : seen' = [seen EXCEPT ![s].dest = d]
      BY <1>9, <2>2 DEF FindDest, DefaultDests, Goto
    <3>2. PICK d \in Dests : seen' = [seen EXCEPT ![s].dest = d]
      BY <3>1
    <3>. DEFINE r == [seen[s] EXCEPT !.dest = d]
    <3>3. r \in Readings /\ r.day = seen[s].day /\ ReadsAs(s, r)
      BY <3>2, ReadingFacts, NewReading
    <3>. HIDE DEF r
    <3>. QED
      BY <1>8, <3>1, <3>3
  <2>. QED
    BY <2>1, <2>2
<1>10. ASSUME NEW s \in Sweeps, ReadBalance(s) PROVE OnceInv'
  <2>. DEFINE r == [seen[s] EXCEPT !.amount = balance]
  <2>1. r \in Readings /\ r.day = seen[s].day /\ ReadsAs(s, r)
    BY <1>10, ReadingFacts, NewReading DEF ReadBalance, BaseInv, Typed
  <2>. HIDE DEF r
  <2>2. PICK at \in {"idle", "swept", "debit"} :
          pc' = [pc EXCEPT ![s] = at] /\ (at = "debit" => s \notin Cron)
    BY <1>10 DEF ReadBalance, Goto
  <2>3. pc[s] = "balance" /\ UNCHANGED <<rows, clock>>
    BY <1>10 DEF ReadBalance
  <2>. QED
    BY <1>8, <2>1, <2>2, <2>3
<1>11. ASSUME NEW i \in DOMAIN rows, NEW status \in Statuses, Refund(i, status) \/ Restate(i, status)
       PROVE  OnceInv'
  <2>1. UNCHANGED <<seen, pc, clock>> /\ DOMAIN rows' = DOMAIN rows
    BY <1>11, RefundedRow DEF Refund, Restate
  <2>2. ASSUME NEW j \in DOMAIN rows
        PROVE  /\ rows'[j].by = rows[j].by /\ rows'[j].at = rows[j].at
               /\ rows[j].refunded => rows'[j].refunded
    BY <1>11, RefundedRow
  <2>3. NotSwept'
    BY <2>1, <2>2 DEF OnceInv, NotSwept, ZoneDay
  <2>4. SweptOncePerDay'
    BY <2>1, <2>2 DEF OnceInv, SweptOncePerDay, ZoneDay
  <2>. QED
    BY <2>1, <2>3, <2>4 DEF OnceInv, DayKnown, ZoneDay
<1>12. ASSUME NEW s \in Sweeps, CreateRow(s) PROVE OnceInv'
  <2>. DEFINE n == Len(rows) + 1
              row == NewRow(s)
  <2>1. /\ pc[s] = "create" /\ pc' = [pc EXCEPT ![s] = "idle"] /\ UNCHANGED <<seen, clock>>
        /\ rows' = Append(rows, row) /\ row.by = s /\ row.at = clock
    BY <1>12 DEF CreateRow, NewRow, Goto
  <2>2. rows \in Seq(Rows) /\ row \in Rows
    BY <1>12, CreatedRow, RowsFinite
  <2>. HIDE DEF row
  <2>3. /\ DOMAIN rows' = DOMAIN rows \cup {n} /\ n \notin DOMAIN rows
        /\ rows'[n] = row /\ \A i \in DOMAIN rows : rows'[i] = rows[i]
    BY <2>1, <2>2
  <2>. HIDE DEF n
  <2>4. DayKnown'
    BY <2>1 DEF OnceInv, DayKnown, ZoneDay
  <2>5. NotSwept'
    <3>1. SUFFICES ASSUME NEW c \in Cron, pc'[c] \in {"debit", "create"}, NEW i \in DOMAIN rows',
                          rows'[i].by = c
                   PROVE  rows'[i].refunded \/ ZoneDay(rows'[i].at) < seen'[c].day
      BY DEF NotSwept, ZoneDay
    <3>2. c # s /\ pc[c] \in {"debit", "create"}
      BY <1>0, <2>1, <3>1
    <3>3. i # n /\ i \in DOMAIN rows /\ rows'[i] = rows[i]
      BY <2>1, <2>3, <3>1, <3>2
    <3>. QED
      BY <2>1, <3>1, <3>2, <3>3 DEF OnceInv, NotSwept
  <2>6. SweptOncePerDay'
    <3>1. ASSUME s \in Cron, NEW i \in DOMAIN rows, rows[i].by \in Cron,
                 ZoneDay(rows[i].at) = ZoneDay(clock)
          PROVE  rows[i].refunded
      <4>1. rows[i].by = s /\ seen[s].day <= ZoneDay(clock) /\ seen[s].day \in Nat
        BY <3>1, ReadingFacts, NewReading DEF SingleInstance, OnceInv, DayKnown
      <4>2. rows[i].refunded \/ ZoneDay(rows[i].at) < seen[s].day
        BY <2>1, <3>1, <4>1 DEF OnceInv, NotSwept
      <4>. QED
        BY <1>0, <3>1, <4>1, <4>2
    <3>2. SUFFICES ASSUME NEW i \in DOMAIN rows', NEW j \in DOMAIN rows', i # j,
                          rows'[i].by \in Cron, rows'[j].by \in Cron,
                          ZoneDay(rows'[i].at) = ZoneDay(rows'[j].at)
                   PROVE  rows'[i].refunded \/ rows'[j].refunded
      BY DEF SweptOncePerDay, ZoneDay
    <3>3. CASE i \in DOMAIN rows /\ j \in DOMAIN rows
      BY <2>3, <3>2, <3>3 DEF OnceInv, SweptOncePerDay
    <3>4. CASE i = n /\ j \in DOMAIN rows
      BY <2>1, <2>3, <3>1, <3>2, <3>4
    <3>5. CASE j = n /\ i \in DOMAIN rows
      BY <2>1, <2>3, <3>1, <3>2, <3>5
    <3>. QED
      BY <2>3, <3>2, <3>3, <3>4, <3>5
  <2>. QED
    BY <2>4, <2>5, <2>6 DEF OnceInv
<1>. QED
  BY <1>2, <1>3, <1>4, <1>5, <1>6, <1>7, <1>9, <1>10, <1>11, <1>12 DEF Next, DestStep

(***************************************************************************)
(* "Skips accounts already swept today": of the cron of one instance, two  *)
(* payouts of one day never both keep their money, for any number of days, *)
(* and payouts on a host in either zone, however long a run takes and      *)
(* whatever administrators sweep in between.                               *)
(***************************************************************************)
THEOREM SweepsOnce == SingleInstance => (Spec => []SweptOncePerDay)
<1>. SUFFICES ASSUME SingleInstance PROVE Spec => []SweptOncePerDay
  OBVIOUS
<1>1. Init => OnceInv
  <2>1. Init => DayKnown
    BY DEF Init, DayKnown, ZoneDay, Sweeps
  <2>2. Init => DOMAIN rows = {}
    BY DEF Init
  <2>. QED
    BY <2>1, <2>2 DEF OnceInv, NotSwept, SweptOncePerDay
<1>2. BaseInv /\ OnceInv /\ [Next]_svars => OnceInv'
  BY OnceNext
<1>3. Spec => []OnceInv
  BY <1>1, <1>2, BaseHolds, PTL DEF Spec
<1>4. OnceInv => SweptOncePerDay
  BY DEF OnceInv
<1>. QED
  BY <1>3, <1>4, PTL

-----------------------------------------------------------------------------
(* What is due is swept.                                                   *)

\* Steps of others: more money, the same settlement accounts, no new payout.
LEMMA StaysDue ==
  ASSUME BaseInv, NetGrows, NEW c \in Cron, StillDue(c),
         UNCHANGED dests, balance' \in Nat, balance' >= balance,
         pc'[c] = pc[c], seen'[c] = seen[c],
         \A i \in DOMAIN rows' : rows'[i].status = "FAILED" \/ ZoneDay(rows'[i].at) < seen[c].day
  PROVE  StillDue(c)'
<1>1. DefaultDests' = DefaultDests
  BY DEF DefaultDests
<1>2. balance \in Nat /\ seen[c].amount \in Nat
  BY ReadingFacts, NewReading DEF BaseInv, Typed, Sweeps
<1>3. /\ Net(balance) \in Int /\ Net(balance') \in Int /\ Net(balance) <= Net(balance')
      /\ MinPayout \in Int
  <2>1. balance \in Nat /\ balance' \in Nat /\ balance <= balance'
    BY <1>2
  <2>2. Net(balance) \in Nat /\ Net(balance') \in Nat
    BY <2>1, NetFacts
  <2>3. Net(balance) <= Net(balance')
    BY <2>1 DEF NetGrows
  <2>. QED
    BY <2>2, <2>3, SettlementsAssumption
<1>4. Net(balance) >= MinPayout => Net(balance') >= MinPayout
  BY <1>3
<1>5. balance > 0 => balance' > 0
  BY <1>2
<1>6. balance >= seen[c].amount => balance' >= seen[c].amount
  BY <1>2
<1>. QED
  BY <1>1, <1>4, <1>5, <1>6 DEF StillDue, ZoneDay, Net

\* Every step, on a host in the zone.
LEMMA DueNext == HostLag = 0 /\ NetGrows /\ BaseInv /\ DueInv /\ [Next]_svars /\ BaseInv' => DueInv'
<1>. SUFFICES ASSUME HostLag = 0, NetGrows, BaseInv, DueInv, [Next]_svars, BaseInv' PROVE DueInv'
  OBVIOUS
<1>0. /\ pc \in [Sweeps -> Stages] /\ Cron \subseteq Sweeps /\ due \subseteq Cron
      /\ Cron \cap Admins = {} /\ Admins \subseteq Sweeps /\ balance \in Nat /\ balance' \in Nat
  BY SettlementsAssumption DEF BaseInv, Typed, Sweeps
<1>1. ASSUME due' = {} PROVE DueInv'
  BY <1>1 DEF DueInv
<1>2. ASSUME NEW c \in due, UNCHANGED <<dests, rows>>, balance' >= balance,
             pc'[c] = pc[c], seen'[c] = seen[c]
      PROVE  StillDue(c)'
  <2>1. \A i \in DOMAIN rows' : rows'[i].status = "FAILED" \/ ZoneDay(rows'[i].at) < seen[c].day
    BY <1>2 DEF DueInv, StillDue
  <2>. QED
    BY <1>0, <1>2, <2>1, StaysDue DEF DueInv
<1>3. CASE Spend \/ \E s \in Sweeps : CreateRow(s)
  BY <1>1, <1>3 DEF Spend, CreateRow, Change
<1>4. ASSUME UNCHANGED <<dests, rows, pc, seen, due>>, balance' >= balance PROVE DueInv'
  BY <1>2, <1>4 DEF DueInv
<1>5. CASE UNCHANGED svars \/ Tick \/ Credit
  <2>1. UNCHANGED <<dests, rows, pc, seen, due>>
    BY <1>5 DEF svars, Tick, Credit
  <2>2. balance' >= balance
    BY <1>0, <1>5 DEF svars, Tick, Credit
  <2>. QED
    BY <1>4, <2>1, <2>2
<1>15. CASE DestStep
  <2>1. UNCHANGED <<balance, rows, pc, seen>> /\ (due' = {} \/ UNCHANGED <<due, dests>>)
    BY <1>15, DestStepLeaves
  <2>. QED
    BY <1>0, <1>1, <1>4, <2>1
<1>6. ASSUME NEW s \in Sweeps, \A c \in due' : c # s => c \in due,
             UNCHANGED <<dests, rows, balance>>,
             \A q \in Sweeps : q # s => pc'[q] = pc[q] /\ seen'[q] = seen[q],
             s \in due' => StillDue(s)'
      PROVE  DueInv'
  <2>1. ASSUME NEW c \in due', c # s PROVE StillDue(c)'
    <3>1. c \in due /\ c \in Sweeps /\ pc'[c] = pc[c] /\ seen'[c] = seen[c]
      BY <1>0, <1>6, <2>1
    <3>2. balance' >= balance
      BY <1>0, <1>6
    <3>. QED
      BY <1>2, <1>6, <3>1, <3>2
  <2>. QED
    BY <1>6, <2>1 DEF DueInv
<1>7. ASSUME NEW a \in Admins, SweepNow(a) PROVE DueInv'
  BY <1>0, <1>6, <1>7 DEF SweepNow, Goto
<1>8. ASSUME NEW c \in Cron, Fire(c) PROVE DueInv'
  <2>1. CASE pc[c] = "idle" /\ autoSweep
    <3>. DEFINE r == [seen[c] EXCEPT !.day = HostDay(clock)]
    <3>1. /\ seen' = [seen EXCEPT ![c].day = HostDay(clock)]
          /\ pc' = [pc EXCEPT ![c] = "find"]
          /\ due' = IF Due THEN due \cup {c} ELSE due \ {c}
          /\ UNCHANGED <<dests, rows, balance>>
      BY <1>8, <2>1 DEF Fire, Goto
    <3>2. clock \in Nat /\ c \in Sweeps
      BY <1>0, SettlementsAssumption DEF BaseInv, Typed
    <3>3. HostDay(clock) \in Nat /\ HostDay(clock) = ZoneDay(clock)
      BY <3>2, Days
    <3>4. ReadsAs(c, r) /\ r.day = ZoneDay(clock)
      <4>1. seen[c] \in Readings /\ ReadsAs(c, r)
        BY <3>1, <3>2, <3>3, ReadingFacts
      <4>2. r.day = HostDay(clock)
        BY <3>3, <4>1, NewReading
      <4>. QED
        BY <3>3, <4>1, <4>2
    <3>. HIDE DEF r
    <3>5. c \in due' => StillDue(c)'
      <4>1. SUFFICES ASSUME Due PROVE StillDue(c)'
        BY <3>1
      <4>2. pc'[c] = "find" /\ seen'[c].day = ZoneDay(clock)
        BY <1>0, <3>1, <3>2, <3>4 DEF ReadsAs
      <4>3. DefaultDests' = DefaultDests /\ DefaultDests # {}
        BY <3>1, <4>1 DEF Due, DefaultDests
      <4>. QED
        BY <3>1, <4>1, <4>2, <4>3 DEF Due, StillDue, ZoneDay, Net
    <3>. QED
      BY <1>0, <1>6, <3>1, <3>2, <3>4, <3>5 DEF ReadsAs
  <2>2. CASE ~(pc[c] = "idle" /\ autoSweep)
    <3>1. UNCHANGED <<dests, rows, pc, seen, due, balance>>
      BY <1>8, <2>2 DEF Fire
    <3>. QED
      BY <1>0, <1>4, <3>1
  <2>. QED
    BY <2>1, <2>2
<1>9. ASSUME NEW s \in Sweeps, FindDest(s) PROVE DueInv'
  <2>1. CASE DefaultDests = {}
    <3>1. /\ pc[s] = "find" /\ pc' = [pc EXCEPT ![s] = "idle"]
          /\ UNCHANGED <<dests, rows, balance, seen, due>>
      BY <1>9, <2>1 DEF FindDest, Goto
    <3>2. s \notin due
      BY <2>1, <3>1 DEF DueInv, StillDue
    <3>. QED
      BY <1>0, <1>6, <3>1, <3>2
  <2>2. CASE DefaultDests # {}
    <3>1. /\ pc[s] = "find" /\ pc' = [pc EXCEPT ![s] = "balance"]
          /\ UNCHANGED <<dests, rows, balance, due>>
          /\ \E d \in Dests : seen' = [seen EXCEPT ![s].dest = d]
      BY <1>9, <2>2 DEF FindDest, DefaultDests, Goto
    <3>2. PICK d \in Dests : seen' = [seen EXCEPT ![s].dest = d]
      BY <3>1
    <3>. DEFINE r == [seen[s] EXCEPT !.dest = d]
    <3>3. r.day = seen[s].day /\ ReadsAs(s, r)
      <4>1. seen[s] \in Readings /\ r.day = seen[s].day
        BY ReadingFacts DEF Readings
      <4>2. ReadsAs(s, r)
        BY <3>2, ReadingFacts
      <4>. QED
        BY <4>1, <4>2
    <3>. HIDE DEF r
    <3>4. s \in due => StillDue(s)'
      BY <1>0, <3>1, <3>3 DEF DueInv, StillDue, ReadsAs, ZoneDay, Net
    <3>. QED
      BY <1>0, <1>6, <3>1, <3>3, <3>4 DEF ReadsAs
  <2>. QED
    BY <2>1, <2>2
<1>10. ASSUME NEW s \in Sweeps, ReadBalance(s) PROVE DueInv'
  <2>. DEFINE r == [seen[s] EXCEPT !.amount = balance]
  <2>1. /\ pc[s] = "balance" /\ UNCHANGED <<dests, rows, balance, due>>
        /\ seen' = [seen EXCEPT ![s].amount = balance]
    BY <1>10 DEF ReadBalance
  <2>2. r.day = seen[s].day /\ r.amount = balance /\ ReadsAs(s, r)
    <3>1. seen[s] \in Readings /\ balance \in Nat
      BY <1>0, ReadingFacts
    <3>2. r.day = seen[s].day /\ r.amount = balance
      BY <3>1 DEF Readings
    <3>3. ReadsAs(s, r)
      BY <2>1, <3>1, ReadingFacts
    <3>. QED
      BY <3>2, <3>3
  <2>. HIDE DEF r
  <2>3. \A q \in Sweeps : q # s => pc'[q] = pc[q]
    BY <1>0, <1>10 DEF ReadBalance, Goto
  <2>4. s \in due => StillDue(s)'
    <3>1. SUFFICES ASSUME s \in due PROVE StillDue(s)'
      OBVIOUS
    <3>2. balance > 0 /\ Net(balance) >= MinPayout /\ s \in Cron
      BY <1>0, <2>1, <3>1 DEF DueInv, StillDue
    <3>3. pc'[s] = "swept"
      BY <1>0, <1>10, <3>2 DEF ReadBalance, Goto
    <3>4. balance' >= balance
      BY <1>0, <2>1
    <3>. QED
      BY <2>1, <2>2, <3>1, <3>2, <3>3, <3>4 DEF DueInv, StillDue, ReadsAs, ZoneDay, Net
  <2>. QED
    BY <1>6, <2>1, <2>2, <2>3, <2>4 DEF ReadsAs
<1>11. ASSUME NEW c \in Cron, CheckSwept(c) PROVE DueInv'
  <2>1. /\ pc[c] = "swept" /\ UNCHANGED <<dests, rows, balance, due, seen>>
        /\ pc' = [pc EXCEPT ![c] = IF SweptSince(seen[c].day) THEN "idle" ELSE "debit"]
    BY <1>11 DEF CheckSwept, Goto
  <2>2. c \in due => ~SweptSince(seen[c].day)
    <3>1. SUFFICES ASSUME c \in due, NEW i \in DOMAIN rows, rows[i].status # "FAILED"
                   PROVE  ~(HostDay(rows[i].at) >= seen[c].day)
      BY DEF SweptSince
    <3>2. ZoneDay(rows[i].at) < seen[c].day
      BY <3>1 DEF DueInv, StillDue
    <3>3. rows[i].at \in Nat
      <4>1. rows[i] \in Rows
        BY DEF BaseInv, Typed
      <4>. QED
        BY <4>1 DEF Rows
    <3>4. HostDay(rows[i].at) = ZoneDay(rows[i].at) /\ ZoneDay(rows[i].at) \in Nat
      BY <3>3, Days
    <3>5. seen[c].day \in Nat
      BY <1>0, ReadingFacts, NewReading
    <3>. QED
      BY <3>2, <3>4, <3>5
  <2>3. c \in due => StillDue(c)'
    <3>1. SUFFICES ASSUME c \in due PROVE StillDue(c)'
      OBVIOUS
    <3>2. pc'[c] = "debit"
      BY <1>0, <2>1, <2>2, <3>1
    <3>. QED
      BY <2>1, <3>1, <3>2 DEF DueInv, StillDue, ZoneDay, Net
  <2>. QED
    BY <1>0, <1>6, <2>1, <2>3
<1>12. ASSUME NEW s \in Sweeps, Debit(s) PROVE DueInv'
  <2>1. CASE Net(seen[s].amount) < MinPayout \/ balance < seen[s].amount
    <3>1. /\ pc[s] = "debit" /\ pc' = [pc EXCEPT ![s] = "idle"]
          /\ UNCHANGED <<dests, rows, balance, due, seen>>
      BY <1>12, <2>1 DEF Debit, Goto
    <3>2. seen[s].amount \in Nat /\ Net(seen[s].amount) \in Nat
      BY ReadingFacts, NewReading, NetFacts
    <3>3. s \notin due
      BY <1>0, <2>1, <3>1, <3>2, SettlementsAssumption DEF DueInv, StillDue
    <3>. QED
      BY <1>0, <1>6, <3>1, <3>3
  <2>2. CASE ~(Net(seen[s].amount) < MinPayout \/ balance < seen[s].amount)
    <3>1. /\ pc[s] = "debit" /\ pc' = [pc EXCEPT ![s] = "create"]
          /\ UNCHANGED <<dests, rows, seen>> /\ due' = due \cap {s}
      BY <1>12, <2>2 DEF Debit, Goto
    <3>2. s \in due => StillDue(s)'
      BY <1>0, <3>1 DEF DueInv, StillDue, ZoneDay
    <3>. QED
      BY <3>1, <3>2 DEF DueInv
  <2>. QED
    BY <2>1, <2>2
<1>13. ASSUME NEW s \in Sweeps, Crash(s) PROVE DueInv'
  BY <1>0, <1>6, <1>13 DEF Crash, Goto
<1>14. ASSUME NEW i \in DOMAIN rows, NEW status \in Statuses, Refund(i, status) PROVE DueInv'
  <2>1. UNCHANGED <<dests, pc, seen, due>> /\ DOMAIN rows' = DOMAIN rows
    BY <1>14, RefundedRow DEF Refund
  <2>2. balance' >= balance
    <3>1. rows[i].amount \in Nat /\ rows[i].fee \in Nat
      BY <1>14, RefundedRow
    <3>. QED
      BY <1>0, <1>14, <3>1 DEF Refund
  <2>3. ASSUME NEW j \in DOMAIN rows
        PROVE  /\ rows'[j].at = rows[j].at
               /\ rows[j].status = "FAILED" => rows'[j].status = "FAILED"
    <3>1. /\ rows'[j].at = rows[j].at /\ ~rows[i].refunded
          /\ j # i => rows'[j] = rows[j]
      BY <1>14, RefundedRow
    <3>. QED
      BY <3>1 DEF BaseInv, Reported
  <2>4. ASSUME NEW c \in due PROVE StillDue(c)'
    <3>1. \A j \in DOMAIN rows' : rows'[j].status = "FAILED" \/ ZoneDay(rows'[j].at) < seen[c].day
      BY <2>1, <2>3 DEF DueInv, StillDue
    <3>. QED
      BY <1>0, <2>1, <2>2, <3>1, StaysDue DEF DueInv
  <2>. QED
    BY <2>1, <2>4 DEF DueInv
<1>16. ASSUME NEW i \in DOMAIN rows, NEW status \in Statuses, Restate(i, status) PROVE DueInv'
  BY <1>1, <1>16 DEF Restate, Change
<1>. QED
  BY <1>3, <1>5, <1>7, <1>8, <1>9, <1>10, <1>11, <1>12, <1>13, <1>14, <1>15, <1>16 DEF Next, DestStep

(***************************************************************************)
(* "the COLLECTION wallet balance is swept": on a host in the zone, a run  *)
(* does not end without a payout for an account that was due when it       *)
(* started and that nobody touched, for any number of instances and        *)
(* requests, if an amount that grows leaves no less.                       *)
(***************************************************************************)
THEOREM DueGetsSwept == HostLag = 0 /\ NetGrows => (Spec => []DueIsSwept)
<1>. SUFFICES ASSUME HostLag = 0 /\ NetGrows PROVE Spec => []DueIsSwept
  OBVIOUS
<1>1. Init => DueInv
  BY DEF Init, DueInv
<1>2. BaseInv /\ DueInv /\ [Next]_svars /\ BaseInv' => DueInv'
  BY DueNext
<1>3. Spec => []DueInv
  BY <1>1, <1>2, BaseHolds, PTL DEF Spec
<1>4. DueInv => DueIsSwept
  BY DEF DueInv, DueIsSwept, StillDue
<1>. QED
  BY <1>3, <1>4, PTL

(***************************************************************************)
(* The amounts that grow leave no less whenever large ones pay at most the *)
(* rate of small ones, as in the default schedule (5% below 3,000, 2% from *)
(* there on).                                                              *)
(***************************************************************************)
THEOREM DiscountGrows == Schedule.aboveBps <= Schedule.belowBps => NetGrows
<1>. SUFFICES ASSUME Schedule.aboveBps <= Schedule.belowBps,
                     NEW n \in Nat, NEW m \in Nat, n <= m
              PROVE  Net(n) <= Net(m)
  BY DEF NetGrows
<1>. DEFINE b == FeeBps(Schedule, n)
            a == FeeBps(Schedule, m)
            p == (n * b + 5000) \div 10000
            q == (m * a + 5000) \div 10000
<1>0. \A rate \in Rates : rate \in Nat /\ rate <= 10000
  BY DEF Rates, MaxBps
<1>1. Schedule \in [threshold: Nat, belowBps: Rates, aboveBps: Rates]
  BY SettlementsAssumption DEF Tiers
<1>2. a \in Nat /\ b \in Nat /\ a <= b /\ b <= 10000
  <2>. DEFINE t  == Schedule.threshold
              lo == Schedule.belowBps
              hi == Schedule.aboveBps
  <2>1. /\ a = IF m < t THEN lo ELSE hi
        /\ b = IF n < t THEN lo ELSE hi
    BY DEF FeeBps
  <2>2. t \in Nat /\ lo \in Rates /\ hi \in Rates /\ hi <= lo
    BY <1>1
  <2>. HIDE DEF a, b, t, lo, hi
  <2>3. lo \in Nat /\ hi \in Nat /\ lo <= 10000 /\ hi <= 10000
    BY <1>0, <2>2
  <2>4. m < t => n < t
    BY <2>2
  <2>5. CASE n < t
    <3>1. b = lo /\ (a = lo \/ a = hi)
      BY <2>1, <2>5
    <3>. QED
      BY <2>2, <2>3, <3>1
  <2>6. CASE ~(n < t)
    <3>1. b = hi /\ a = hi
      BY <2>1, <2>4, <2>6
    <3>. QED
      BY <2>3, <3>1
  <2>. QED
    BY <2>5, <2>6
<1>3. ComputeFee(Schedule, n) = p /\ ComputeFee(Schedule, m) = q
  BY DEF ComputeFee, RoundedShare
<1>. HIDE DEF a, b
<1>4. n * b \in Nat /\ m * a \in Nat
  BY <1>2
<1>5. m * a <= n * b + (m - n) * 10000
  <2>1. m * a <= m * b
    BY <1>2, ShareMonotone
  <2>2. m * b = n * b + (m - n) * b
    BY <1>2
  <2>3. (m - n) * b <= (m - n) * 10000
    <3>1. m - n \in Nat /\ b \in Nat /\ b <= 10000
      BY <1>2
    <3>. QED
      BY <3>1, ShareMonotone
  <2>. DEFINE ma == m * a
              mb == m * b
              nb == n * b
              db == (m - n) * b
  <2>4. ma \in Int /\ mb \in Int /\ nb \in Int /\ db \in Int
    BY <1>2
  <2>5. ma <= mb /\ mb = nb + db /\ db <= (m - n) * 10000
    BY <2>1, <2>2, <2>3
  <2>6. ma <= nb + (m - n) * 10000
    <3>. HIDE DEF ma, mb, nb, db
    <3>. QED
      BY <2>4, <2>5
  <2>. QED
    BY <2>6
<1>6. /\ 10000 * q <= m * a + 5000 /\ q \in Nat
      /\ n * b + 5000 < 10000 * p + 10000 /\ p \in Nat
  BY <1>4, DivBounds
<1>. HIDE DEF p, q
<1>7. q <= p + (m - n)
  BY <1>4, <1>5, <1>6
<1>. QED
  BY <1>3, <1>6, <1>7 DEF Net
=============================================================================
