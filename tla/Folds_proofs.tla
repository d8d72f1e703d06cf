------------------------------ MODULE Folds_proofs ------------------------------
(* What the folds of the community modules compute, for every finite set and   *)
(* sequence, and the inductions behind it.  An induction is a minimal          *)
(* counterexample: WFMin gives one in any well-founded order.                  *)
EXTENDS Integers, SequencesExt, FiniteSetTheorems, WellFoundedInduction, TLAPS

-----------------------------------------------------------------------------
(* Induction.                                                                  *)

\* A set of numbers with 0 in which every number has its successor has them all.
LEMMA NumbersByInduction ==
    ASSUME NEW G, 0 \in G, \A n \in Nat : n \in G => n + 1 \in G
    PROVE  \A n \in Nat : n \in G
<1> SUFFICES ASSUME NEW m \in Nat, m \notin G PROVE FALSE
  OBVIOUS
<1> DEFINE R == {p \in Nat \X Nat : p[1] < p[2]}
           T == {n \in Nat : n \notin G}
<1>1. IsWellFoundedOn(R, Nat)
  BY NatLessThanWellFounded DEF OpToRel
<1>2. PICK n \in T : \A k \in T : <<k, n>> \notin R
  <2>1. T \subseteq Nat /\ T # {}
    OBVIOUS
  <2> HIDE DEF R, T
  <2> QED
    BY <1>1, <2>1, WFMin
<1>3. n # 0 /\ n - 1 \in Nat /\ n - 1 \notin T
  <2>1. n \in Nat /\ n # 0
    OBVIOUS
  <2>2. n - 1 \in Nat /\ <<n - 1, n>> \in R
    BY <2>1
  <2> QED
    BY <1>2, <2>1, <2>2
<1> QED
  BY <1>3

\* So have the subsets of a finite set, taken one element at a time.
LEMMA SubsetsByInduction ==
    ASSUME NEW S, IsFiniteSet(S), NEW G, {} \in G,
           \A T \in SUBSET S : T # {} /\ (\A x \in T : T \ {x} \in G) => T \in G
    PROVE  \A T \in SUBSET S : T \in G
<1> SUFFICES ASSUME NEW U \in SUBSET S, U \notin G PROVE FALSE
  OBVIOUS
<1> DEFINE B == {T \in SUBSET S : T \notin G}
<1>1. IsWellFoundedOn(StrictSubsetOrdering(S), SUBSET S)
  <2>1. FiniteSubsetsOf(S) = SUBSET S
    BY FS_FiniteSubsetsOfFinite
  <2>2. IsWellFoundedOn(StrictSubsetOrdering(S), FiniteSubsetsOf(S))
    BY FS_StrictSubsetOrderingWellFounded
  <2> QED
    BY <2>1, <2>2, Zenon
<1>2. PICK T \in B : \A V \in B : <<V, T>> \notin StrictSubsetOrdering(S)
  <2>1. B \subseteq SUBSET S /\ B # {}
    OBVIOUS
  <2> HIDE DEF B
  <2> QED
    BY <1>1, <2>1, WFMin
<1>3. T # {}
  OBVIOUS
<1>4. \A x \in T : T \ {x} \in G
  <2> SUFFICES ASSUME NEW x \in T, T \ {x} \notin G PROVE FALSE
    OBVIOUS
  <2>1. T \ {x} \in B /\ T \in SUBSET S
    OBVIOUS
  <2>2. <<T \ {x}, T>> \in StrictSubsetOrdering(S)
    BY <2>1 DEF StrictSubsetOrdering
  <2> QED
    BY <1>2, <2>1, <2>2
<1> QED
  BY <1>3, <1>4

\* A non-empty finite set has a maximal element in every strict order.
LEMMA MaximalElement ==
    ASSUME NEW S, IsFiniteSet(S), S # {}, NEW R,
           \A x \in S : <<x, x>> \notin R,
           \A x, y, z \in S : <<x, y>> \in R /\ <<y, z>> \in R => <<x, z>> \in R
    PROVE  \E m \in S : \A x \in S : <<m, x>> \notin R
<1> DEFINE G == {T \in SUBSET S : T # {} => \E m \in T : \A x \in T : <<m, x>> \notin R}
<1>1. {} \in G
  OBVIOUS
<1>2. ASSUME NEW T \in SUBSET S, T # {}, \A x \in T : T \ {x} \in G
      PROVE  T \in G
  <2>1. PICK y \in T : TRUE
    BY <1>2
  <2>2. CASE T \ {y} = {}
    <3>1. \A x \in T : <<y, x>> \notin R
      BY <2>1, <2>2
    <3> QED
      BY <2>1, <3>1
  <2>3. CASE T \ {y} # {}
    <3>1. PICK m \in T \ {y} : \A x \in T \ {y} : <<m, x>> \notin R
      BY <1>2, <2>1, <2>3
    <3>2. CASE <<m, y>> \notin R
      BY <3>1, <3>2
    <3>3. CASE <<m, y>> \in R
      <4>1. \A x \in T : <<y, x>> \notin R
        BY <2>1, <3>1, <3>3
      <4> QED
        BY <2>1, <4>1
    <3> QED
      BY <3>2, <3>3
  <2> QED
    BY <2>2, <2>3
<1>3. S \in G
  <2> HIDE DEF G
  <2>1. \A T \in SUBSET S : T # {} /\ (\A x \in T : T \ {x} \in G) => T \in G
    BY <1>2
  <2>2. \A T \in SUBSET S : T \in G
    BY <1>1, <2>1, SubsetsByInduction, Zenon
  <2> QED
    BY <2>2
<1> QED
  BY <1>3

\* A non-empty finite set of integers has a least and a greatest element.
LEMMA ExtremeElements ==
    ASSUME NEW S, IsFiniteSet(S), S \subseteq Int, S # {}
    PROVE  /\ \E m \in S : \A x \in S : x <= m
           /\ \E m \in S : \A x \in S : m <= x
<1> DEFINE Up == {p \in Int \X Int : p[1] < p[2]}
           Down == {p \in Int \X Int : p[2] < p[1]}
<1>1. \A x, y \in Int : (<<x, y>> \in Up <=> x < y) /\ (<<x, y>> \in Down <=> y < x)
  OBVIOUS
<1>2. \A x, y, z \in Int : x < y /\ y < z => x < z
  OBVIOUS
<1>3. \A x, y \in Int : ~(x < x) /\ (~(x < y) => y <= x)
  OBVIOUS
<1> HIDE DEF Up, Down
<1>4. PICK m \in S : \A x \in S : <<m, x>> \notin Up
  <2>1. \A x \in S : <<x, x>> \notin Up
    BY <1>1, <1>3
  <2>2. \A x, y, z \in S : <<x, y>> \in Up /\ <<y, z>> \in Up => <<x, z>> \in Up
    BY <1>1, <1>2
  <2> QED
    BY <2>1, <2>2, MaximalElement
<1>5. PICK k \in S : \A x \in S : <<k, x>> \notin Down
  <2>1. \A x \in S : <<x, x>> \notin Down
    BY <1>1, <1>3
  <2>2. \A x, y, z \in S : <<x, y>> \in Down /\ <<y, z>> \in Down => <<x, z>> \in Down
    BY <1>1, <1>2
  <2> QED
    BY <2>1, <2>2, MaximalElement
<1> QED
  BY <1>1, <1>3, <1>4, <1>5

\* A non-empty set of indices of a sequence has a last one.
LEMMA LastIndex ==
    ASSUME NEW n \in Nat, NEW S, S \subseteq 1..n, S # {}
    PROVE  Max(S) \in S /\ \A y \in S : Max(S) >= y
<1> DEFINE R == {p \in Nat \X Nat : p[1] < p[2]}
           T == {n - x : x \in S}
<1>1. IsWellFoundedOn(R, Nat)
  BY NatLessThanWellFounded DEF OpToRel
<1>2. T \subseteq Nat /\ T # {}
  <2>1. \A x \in S : n - x \in Nat
    OBVIOUS
  <2>2. PICK x \in S : TRUE
    OBVIOUS
  <2>3. n - x \in T
    OBVIOUS
  <2> QED
    BY <2>1, <2>3
<1>3. PICK t \in T : \A u \in T : <<u, t>> \notin R
  <2> HIDE DEF R, T
  <2> QED
    BY <1>1, <1>2, WFMin
<1>4. PICK x \in S : t = n - x
  BY DEF T
<1>5. \A y \in S : x >= y
  <2> SUFFICES ASSUME NEW y \in S PROVE x >= y
    OBVIOUS
  <2>1. n - y \in T /\ n - y \in Nat /\ t \in Nat
    BY <1>2
  <2>2. <<n - y, t>> \in Nat \X Nat /\ <<n - y, t>>[1] = n - y /\ <<n - y, t>>[2] = t
    BY <2>1
  <2>3. ~ (n - y < t)
    BY <1>3, <2>1, <2>2
  <2>4. x \in Int /\ y \in Int
    OBVIOUS
  <2> HIDE DEF R, T
  <2> QED
    BY <1>4, <2>3, <2>4
<1> QED
  BY <1>5 DEF Max

-----------------------------------------------------------------------------
(* Sums.                                                                       *)

\* g[T] is the sum of F over T, for the subsets T of S.
Sums(F, S, g) ==
    g = [T \in SUBSET S |->
           IF T = {} THEN 0
           ELSE F[CHOOSE x \in T : TRUE] + g[T \ {CHOOSE x \in T : TRUE}]]

LEMMA SumsExist ==
    ASSUME NEW S, IsFiniteSet(S), NEW F
    PROVE  \E g : Sums(F, S, g)
<1> DEFINE Small(n) == {T \in SUBSET S : Cardinality(T) <= n}
           Upto(n, h) == h = [T \in Small(n) |->
              IF T = {} THEN 0
              ELSE F[CHOOSE x \in T : TRUE] + h[T \ {CHOOSE x \in T : TRUE}]]
           G == {n \in Nat : \E h : Upto(n, h)}
<1>0. \A T \in SUBSET S : IsFiniteSet(T) /\ Cardinality(T) \in Nat
  BY FS_Subset, FS_CardinalityType
<1>1. 0 \in G
  <2> DEFINE h == [T \in Small(0) |-> 0]
  <2>1. \A T \in Small(0) : T = {}
    <3> SUFFICES ASSUME NEW T \in SUBSET S, Cardinality(T) <= 0 PROVE T = {}
      OBVIOUS
    <3> QED
      BY <1>0, FS_EmptySet
  <2>2. Upto(0, h)
    BY <2>1
  <2> HIDE DEF h, Upto
  <2> QED
    BY <2>2
<1>2. \A n \in Nat : n \in G => n + 1 \in G
  <2> SUFFICES ASSUME NEW n \in Nat, n \in G PROVE n + 1 \in G
    OBVIOUS
  <2>0. PICK h : Upto(n, h)
    <3> HIDE DEF Upto
    <3> QED
      OBVIOUS
  <2> DEFINE k == [T \in Small(n + 1) |->
                     IF T = {} THEN 0
                     ELSE F[CHOOSE x \in T : TRUE] + h[T \ {CHOOSE x \in T : TRUE}]]
  <2>1. Small(n) \subseteq Small(n + 1)
    BY <1>0
  <2>2. \A T \in Small(n) : k[T] = h[T]
    <3> HIDE DEF Small
    <3> QED
      BY <2>0, <2>1
  <2>3. \A T \in Small(n + 1) : T # {} => T \ {CHOOSE x \in T : TRUE} \in Small(n)
    <3> SUFFICES ASSUME NEW T \in Small(n + 1), T # {}
                 PROVE  T \ {CHOOSE x \in T : TRUE} \in Small(n)
      OBVIOUS
    <3> DEFINE x == CHOOSE y \in T : TRUE
    <3>1. x \in T
      OBVIOUS
    <3> HIDE DEF x
    <3>2. Cardinality(T \ {x}) = Cardinality(T) - 1 /\ Cardinality(T) \in Nat
      BY <1>0, <3>1, FS_RemoveElement
    <3>3. T \ {x} \in Small(n)
      BY <3>2
    <3> QED
      BY <3>3 DEF x
  <2>4. \A T \in Small(n + 1) :
          k[T] = IF T = {} THEN 0
                 ELSE F[CHOOSE x \in T : TRUE] + k[T \ {CHOOSE x \in T : TRUE}]
    <3> TAKE T \in Small(n + 1)
    <3> DEFINE y == CHOOSE x \in T : TRUE
    <3> HIDE DEF Small
    <3>1. k[T] = IF T = {} THEN 0 ELSE F[y] + h[T \ {y}]
      OBVIOUS
    <3>2. T # {} => k[T \ {y}] = h[T \ {y}]
      <4> HIDE DEF k
      <4> QED
        BY <2>2, <2>3
    <3> HIDE DEF k, y
    <3>3. k[T] = IF T = {} THEN 0 ELSE F[y] + k[T \ {y}]
      BY <3>1, <3>2
    <3> QED
      BY <3>3 DEF y
  <2>5. Upto(n + 1, k)
    <3> HIDE DEF Small
    <3>1. k = [T \in Small(n + 1) |-> k[T]]
      OBVIOUS
    <3> HIDE DEF k
    <3> QED
      BY <2>4, <3>1
  <2>6. n + 1 \in Nat
    OBVIOUS
  <2> HIDE DEF k, Upto
  <2> QED
    BY <2>5, <2>6
<1>3. Cardinality(S) \in G
  <2> HIDE DEF G
  <2> QED
    BY <1>0, <1>1, <1>2, NumbersByInduction
<1>4. PICK g : Upto(Cardinality(S), g)
  BY <1>3
<1>5. Small(Cardinality(S)) = SUBSET S
  BY FS_Subset, FS_CardinalityType
<1>6. Sums(F, S, g)
  <2> HIDE DEF Small
  <2> QED
    BY <1>4, <1>5 DEF Sums
<1> QED
  BY <1>6

LEMMA SumFunctionIs ==
    ASSUME NEW S, IsFiniteSet(S), NEW F, DOMAIN F = S
    PROVE  \E g : Sums(F, S, g) /\ SumFunction(F) = g[S]
<1> DEFINE g == CHOOSE g : Sums(F, S, g)
<1>1. Sums(F, S, g)
  BY SumsExist
<1>2. SumFunction(F) = g[S]
  BY DEF SumFunction, SumFunctionOnSet, FoldFunctionOnSet, MapThenFoldSet, Sums
<1> HIDE DEF g
<1> QED
  BY <1>1, <1>2

\* The sum of a function on a finite set, one element at a time.
LEMMA SumsByElement ==
    ASSUME NEW S, IsFiniteSet(S), NEW F \in [S -> Int], NEW g, Sums(F, S, g)
    PROVE  /\ g[{}] = 0
           /\ \A T \in SUBSET S : T # {} =>
                /\ (CHOOSE x \in T : TRUE) \in T
                /\ g[T] = F[CHOOSE x \in T : TRUE] + g[T \ {CHOOSE x \in T : TRUE}]
           /\ \A T \in SUBSET S : g[T] \in Int
<1>1. g[{}] = 0
  BY DEF Sums
<1>2. ASSUME NEW T \in SUBSET S, T # {}
      PROVE  /\ (CHOOSE x \in T : TRUE) \in T
             /\ g[T] = F[CHOOSE x \in T : TRUE] + g[T \ {CHOOSE x \in T : TRUE}]
  <2>1. g[T] = IF T = {} THEN 0
               ELSE F[CHOOSE x \in T : TRUE] + g[T \ {CHOOSE x \in T : TRUE}]
    BY DEF Sums
  <2> QED
    BY <1>2, <2>1
<1>3. \A T \in SUBSET S : g[T] \in Int
  <2> DEFINE G == {T \in SUBSET S : g[T] \in Int}
  <2>1. {} \in G
    BY <1>1
  <2>2. ASSUME NEW T \in SUBSET S, T # {}, \A x \in T : T \ {x} \in G PROVE T \in G
    <3> DEFINE y == CHOOSE x \in T : TRUE
    <3>1. y \in T /\ g[T] = F[y] + g[T \ {y}]
      BY <1>2, <2>2
    <3> HIDE DEF y
    <3>2. F[y] \in Int /\ g[T \ {y}] \in Int
      BY <2>2, <3>1
    <3> QED
      BY <3>1, <3>2
  <2>3. \A T \in SUBSET S : T \in G
    <3> HIDE DEF G
    <3> QED
      BY <2>1, <2>2, SubsetsByInduction
  <2> QED
    BY <2>3
<1> QED
  BY <1>1, <1>2, <1>3

\* Smaller terms give no larger sum.
LEMMA SumMonotone ==
    ASSUME NEW S, IsFiniteSet(S), NEW F \in [S -> Int], NEW H \in [S -> Int],
           \A x \in S : F[x] <= H[x]
    PROVE  SumFunction(F) <= SumFunction(H)
<1>1. PICK f : Sums(F, S, f) /\ SumFunction(F) = f[S]
  BY SumFunctionIs
<1>2. PICK h : Sums(H, S, h) /\ SumFunction(H) = h[S]
  BY SumFunctionIs
<1> DEFINE G == {T \in SUBSET S : f[T] <= h[T]}
<1>3. {} \in G
  BY <1>1, <1>2, SumsByElement
<1>4. ASSUME NEW T \in SUBSET S, T # {}, \A x \in T : T \ {x} \in G PROVE T \in G
  <2> DEFINE y == CHOOSE x \in T : TRUE
  <2>1. y \in T /\ f[T] = F[y] + f[T \ {y}] /\ h[T] = H[y] + h[T \ {y}]
    <3>1. y \in T /\ f[T] = F[y] + f[T \ {y}]
      BY <1>1, <1>4, SumsByElement
    <3>2. h[T] = H[y] + h[T \ {y}]
      BY <1>2, <1>4, SumsByElement
    <3> QED
      BY <3>1, <3>2
  <2>2. f[T \ {y}] \in Int /\ h[T \ {y}] \in Int
    <3> HIDE DEF y
    <3>1. T \ {y} \in SUBSET S
      OBVIOUS
    <3> QED
      BY <1>1, <1>2, <3>1, SumsByElement
  <2> HIDE DEF y
  <2>3. F[y] \in Int /\ H[y] \in Int /\ F[y] <= H[y] /\ f[T \ {y}] <= h[T \ {y}]
    BY <1>4, <2>1
  <2> QED
    BY <2>1, <2>2, <2>3
<1>5. \A T \in SUBSET S : T \in G
  <2> HIDE DEF G
  <2> QED
    BY <1>3, <1>4, SubsetsByInduction
<1>6. S \in G
  BY <1>5
<1> QED
  BY <1>1, <1>2, <1>6

\* A sum of natural numbers is one, and no less than any of its terms.
LEMMA SumOfNaturals ==
    ASSUME NEW S, IsFiniteSet(S), NEW F \in [S -> Nat]
    PROVE  /\ SumFunction(F) \in Nat
           /\ \A x \in S : F[x] <= SumFunction(F)
<1>0. F \in [S -> Int]
  OBVIOUS
<1>1. PICK g : Sums(F, S, g) /\ SumFunction(F) = g[S]
  BY SumFunctionIs
<1> DEFINE G == {T \in SUBSET S : g[T] \in Nat /\ \A x \in T : F[x] <= g[T]}
<1>2. {} \in G
  BY <1>0, <1>1, SumsByElement
<1>3. ASSUME NEW T \in SUBSET S, T # {}, \A x \in T : T \ {x} \in G PROVE T \in G
  <2> DEFINE y == CHOOSE x \in T : TRUE
  <2>1. y \in T /\ g[T] = F[y] + g[T \ {y}]
    BY <1>0, <1>1, <1>3, SumsByElement
  <2> HIDE DEF y
  <2>2. F[y] \in Nat /\ g[T \ {y}] \in Nat /\ \A x \in T \ {y} : F[x] <= g[T \ {y}]
    BY <1>3, <2>1
  <2>3. \A x \in T : F[x] <= g[T]
    <3> SUFFICES ASSUME NEW x \in T PROVE F[x] <= g[T]
      OBVIOUS
    <3>1. CASE x = y
      BY <2>1, <2>2, <3>1
    <3>2. CASE x # y
      <4>1. F[x] \in Nat /\ F[x] <= g[T \ {y}]
        BY <2>2, <3>2
      <4> QED
        BY <2>1, <2>2, <4>1
    <3> QED
      BY <3>1, <3>2
  <2> QED
    BY <2>1, <2>2, <2>3
<1>4. \A T \in SUBSET S : T \in G
  <2> HIDE DEF G
  <2> QED
    BY <1>2, <1>3, SubsetsByInduction
<1>5. S \in G
  BY <1>4
<1> QED
  BY <1>1, <1>5

\* The sizes of disjoint sets add up to the size of their union.
LEMMA SumOfParts ==
    ASSUME NEW S, IsFiniteSet(S), NEW F \in [S -> Nat], NEW P,
           \A x \in S : IsFiniteSet(P[x]) /\ Cardinality(P[x]) = F[x],
           \A x, y \in S : x # y => P[x] \cap P[y] = {}
    PROVE  /\ IsFiniteSet(UNION {P[x] : x \in S})
           /\ SumFunction(F) = Cardinality(UNION {P[x] : x \in S})
<1>0. F \in [S -> Int]
  OBVIOUS
<1>1. PICK g : Sums(F, S, g) /\ SumFunction(F) = g[S]
  BY SumFunctionIs
<1> DEFINE All(T) == UNION {P[x] : x \in T}
           G == {T \in SUBSET S : IsFiniteSet(All(T)) /\ g[T] = Cardinality(All(T))}
<1>2. {} \in G
  <2>1. All({}) = {}
    OBVIOUS
  <2>2. IsFiniteSet(All({})) /\ Cardinality(All({})) = 0
    BY <2>1, FS_EmptySet
  <2>3. g[{}] = 0
    BY <1>0, <1>1, SumsByElement
  <2> HIDE DEF All
  <2> QED
    BY <2>2, <2>3
<1>3. ASSUME NEW T \in SUBSET S, T # {}, \A x \in T : T \ {x} \in G PROVE T \in G
  <2> DEFINE y == CHOOSE x \in T : TRUE
  <2>1. y \in T /\ g[T] = F[y] + g[T \ {y}]
    BY <1>0, <1>1, <1>3, SumsByElement
  <2> HIDE DEF y
  <2>2. All(T) = P[y] \cup All(T \ {y})
    BY <2>1
  <2>3. P[y] \cap All(T \ {y}) = {}
    BY <2>1
  <2>4. /\ IsFiniteSet(All(T \ {y})) /\ g[T \ {y}] = Cardinality(All(T \ {y}))
        /\ IsFiniteSet(P[y]) /\ Cardinality(P[y]) = F[y]
    <3> HIDE DEF All
    <3> QED
      BY <1>3, <2>1
  <2> DEFINE A == All(T \ {y})
             B == P[y]
  <2>5. IsFiniteSet(B \cup A) /\ Cardinality(B \cup A) = Cardinality(B) + Cardinality(A)
    <3>1. B \cap A = {} /\ IsFiniteSet(A) /\ IsFiniteSet(B)
      BY <2>3, <2>4
    <3> HIDE DEF A, B
    <3>2. Cardinality(B \cap A) = 0 /\ Cardinality(A) \in Nat /\ Cardinality(B) \in Nat
      BY <3>1, FS_EmptySet, FS_CardinalityType
    <3>3. /\ IsFiniteSet(B \cup A)
          /\ Cardinality(B \cup A) = Cardinality(B) + Cardinality(A) - Cardinality(B \cap A)
      BY <3>1, FS_Union, Zenon
    <3> QED
      BY <3>2, <3>3
  <2> HIDE DEF All
  <2> QED
    BY <2>1, <2>2, <2>4, <2>5
<1>4. \A T \in SUBSET S : T \in G
  <2> HIDE DEF G
  <2> QED
    BY <1>2, <1>3, SubsetsByInduction
<1>5. S \in G
  BY <1>4
<1> HIDE DEF All
<1> QED
  BY <1>1, <1>5 DEF All

-----------------------------------------------------------------------------
(* Sequences.                                                                  *)

LEMMA FunctionIsSeq ==
    ASSUME NEW n \in Nat, NEW S, NEW f \in [1..n -> S]
    PROVE  f \in Seq(S)
OBVIOUS

\* A function takes finitely many values on a finite set.
LEMMA FiniteRange ==
    ASSUME NEW S, IsFiniteSet(S), NEW f
    PROVE  IsFiniteSet({f[x] : x \in S})
<1> DEFINE T == {f[x] : x \in S}
           g == [x \in S |-> f[x]]
<1>1. g \in [S -> T] /\ \A t \in T : \E x \in S : g[x] = t
  OBVIOUS
<1>2. g \in Surjection(S, T)
  <2> HIDE DEF g, T
  <2> QED
    BY <1>1 DEF Surjection
<1> QED
  BY <1>2, FS_Surjection, Zenon

\* A sequence has finitely many elements.
LEMMA FiniteToSet ==
    ASSUME NEW U, NEW s \in Seq(U)
    PROVE  IsFiniteSet(ToSet(s))
<1>1. IsFiniteSet(1..Len(s))
  BY FS_Interval
<1>2. s \in Surjection(1..Len(s), ToSet(s))
  BY DEF Surjection, ToSet
<1> QED
  BY <1>1, <1>2, FS_Surjection

\* Flattened sequences are a sequence.
LEMMA FlattenSeqType ==
    ASSUME NEW U, NEW seqs \in Seq(Seq(U))
    PROVE  FlattenSeq(seqs) \in Seq(U)
<1> DEFINE n == Len(seqs)
           Upto(m, h) == h = [i \in 1..m |-> IF i = 1 THEN seqs[i] ELSE h[i - 1] \o seqs[i]]
           G == {m \in Nat : \E h : Upto(m, h)}
<1>1. 0 \in G
  <2>1. Upto(0, << >>)
    OBVIOUS
  <2> HIDE DEF Upto
  <2> QED
    BY <2>1
<1>2. \A m \in Nat : m \in G => m + 1 \in G
  <2> SUFFICES ASSUME NEW m \in Nat, m \in G PROVE m + 1 \in G
    OBVIOUS
  <2>1. PICK h : Upto(m, h)
    <3> HIDE DEF Upto
    <3> QED
      OBVIOUS
  <2> DEFINE k == [i \in 1..(m + 1) |-> IF i = 1 THEN seqs[i] ELSE h[i - 1] \o seqs[i]]
  <2>2. \A i \in 1..m : k[i] = h[i]
    <3> TAKE i \in 1..m
    <3>1. h[i] = IF i = 1 THEN seqs[i] ELSE h[i - 1] \o seqs[i]
      BY <2>1, Zenon
    <3>2. i \in 1..(m + 1)
      OBVIOUS
    <3>3. k[i] = IF i = 1 THEN seqs[i] ELSE h[i - 1] \o seqs[i]
      BY <3>2, Zenon
    <3> QED
      BY <3>1, <3>3
  <2>3. Upto(m + 1, k)
    <3>1. \A i \in 1..(m + 1) : i # 1 => k[i - 1] = h[i - 1]
      <4> HIDE DEF k
      <4> QED
        BY <2>2
    <3> QED
      BY <3>1
  <2>4. m + 1 \in Nat
    OBVIOUS
  <2> HIDE DEF k, Upto
  <2> QED
    BY <2>3, <2>4
<1>3. PICK g : Upto(n, g)
  <2>1. n \in Nat
    OBVIOUS
  <2>2. n \in G
    <3> HIDE DEF G, n
    <3> QED
      BY <1>1, <1>2, <2>1, NumbersByInduction
  <2> HIDE DEF Upto
  <2> QED
    BY <2>2
<1> DEFINE flatten == CHOOSE h : Upto(n, h)
<1>4. Upto(n, flatten)
  <2> HIDE DEF Upto
  <2> QED
    BY <1>3
<1>5. n # 0 => FlattenSeq(seqs) = flatten[n]
  BY DEF FlattenSeq
<1> HIDE DEF flatten
<1> DEFINE T == {i \in Nat : i + 1 \in 1..n => flatten[i + 1] \in Seq(U)}
<1>6. 0 \in T
  BY <1>4
<1>7. \A i \in Nat : i \in T => i + 1 \in T
  <2> SUFFICES ASSUME NEW i \in Nat, i \in T, i + 2 \in 1..n
               PROVE  flatten[i + 2] \in Seq(U)
    OBVIOUS
  <2> DEFINE j == i + 2
  <2>0. flatten[j] = IF j = 1 THEN seqs[j] ELSE flatten[j - 1] \o seqs[j]
    BY <1>4, Zenon
  <2>1. flatten[i + 2] = flatten[i + 1] \o seqs[i + 2]
    <3>1. j # 1 /\ j - 1 = i + 1
      OBVIOUS
    <3> QED
      BY <2>0, <3>1
  <2>2. flatten[i + 1] \in Seq(U) /\ seqs[i + 2] \in Seq(U)
    OBVIOUS
  <2> QED
    BY <2>1, <2>2
<1>8. n # 0 => flatten[n] \in Seq(U)
  <2> SUFFICES ASSUME n # 0 PROVE flatten[n] \in Seq(U)
    OBVIOUS
  <2>1. n - 1 \in Nat /\ (n - 1) + 1 = n /\ n \in 1..n
    OBVIOUS
  <2>2. n - 1 \in T
    <3> HIDE DEF T, n
    <3> QED
      BY <1>6, <1>7, <2>1, NumbersByInduction
  <2> HIDE DEF n
  <2> QED
    BY <2>1, <2>2
<1>9. CASE n = 0
  BY <1>9 DEF FlattenSeq
<1> HIDE DEF n
<1> QED
  BY <1>5, <1>8, <1>9
=============================================================================
