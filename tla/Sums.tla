-------------------------------- MODULE Sums --------------------------------
(***************************************************************************)
(* SumFunction of the community modules on functions from a finite set to  *)
(* the natural numbers.  It is a fold, that is a recursive function on the *)
(* subsets of the domain.  The theorems of the libraries on recursion and  *)
(* induction are parameterised by operators; here the function is built    *)
(* for subsets of at most n elements, and that there is no least n for     *)
(* which it does not exist is the well-foundedness of the naturals.        *)
(***************************************************************************)
EXTENDS Extrema, FiniteSets, Functions, FiniteSetTheorems

Some(s) == CHOOSE x \in s : TRUE

(* The equation of the fold. *)
SumStep(f, g, s) == IF s = {} THEN 0 ELSE f[Some(s)] + g[s \ {Some(s)}]

(* The subsets of at most n elements, on which the recursion is n deep.    *)
UpTo(S, n) == {s \in SUBSET S : Cardinality(s) <= n}

(* The fold, that far. *)
IsPartial(f, S, n, g) == g = [s \in UpTo(S, n) |-> SumStep(f, g, s)]

LEMMA SumIsFold ==
    ASSUME NEW S, NEW f \in [S -> Nat]
    PROVE  SumFunction(f) = (CHOOSE g : g = [s \in SUBSET S |-> SumStep(f, g, s)])[S]
BY DEF SumFunction, SumFunctionOnSet, FoldFunctionOnSet, MapThenFoldSet, SumStep, Some

(* What is left of a subset when an element is taken out. *)
LEMMA Rest ==
    ASSUME NEW S, IsFiniteSet(S), NEW s \in SUBSET S, s # {}
    PROVE  /\ Some(s) \in s
           /\ s \ {Some(s)} \in SUBSET S
           /\ Cardinality(s) \in Nat
           /\ Cardinality(s \ {Some(s)}) = Cardinality(s) - 1
<1>1. Some(s) \in s
  BY DEF Some
<1>2. IsFiniteSet(s)
  BY FS_Subset
<1> QED  BY <1>1, <1>2, FS_RemoveElement, FS_CardinalityType

LEMMA PartialZero ==
    ASSUME NEW S, IsFiniteSet(S), NEW f
    PROVE  IsPartial(f, S, 0, [s \in UpTo(S, 0) |-> 0])
<1>1. \A s \in UpTo(S, 0) : s = {}
  <2>1. SUFFICES ASSUME NEW s \in UpTo(S, 0) PROVE s = {}
    OBVIOUS
  <2>2. s \in SUBSET S /\ Cardinality(s) <= 0
    BY DEF UpTo
  <2>3. IsFiniteSet(s) /\ Cardinality(s) \in Nat
    BY <2>2, FS_Subset, FS_CardinalityType
  <2> QED  BY <2>2, <2>3, FS_EmptySet
<1> QED  BY <1>1 DEF IsPartial, SumStep

LEMMA PartialMore ==
    ASSUME NEW S, IsFiniteSet(S), NEW f, NEW n \in Nat, NEW g, IsPartial(f, S, n, g)
    PROVE  IsPartial(f, S, n + 1, [s \in UpTo(S, n + 1) |-> SumStep(f, g, s)])
<1> DEFINE h == [s \in UpTo(S, n + 1) |-> SumStep(f, g, s)]
<1>1. \A s \in UpTo(S, n + 1) : s # {} => s \ {Some(s)} \in UpTo(S, n)
  <2>1. SUFFICES ASSUME NEW s \in UpTo(S, n + 1), s # {}
                 PROVE  s \ {Some(s)} \in UpTo(S, n)
    OBVIOUS
  <2>2. s \in SUBSET S /\ Cardinality(s) <= n + 1
    BY DEF UpTo
  <2> QED  BY <2>1, <2>2, Rest DEF UpTo
<1>2. UpTo(S, n) \subseteq UpTo(S, n + 1)
  <2>1. ASSUME NEW s \in UpTo(S, n) PROVE s \in UpTo(S, n + 1)
    <3>1. s \in SUBSET S /\ Cardinality(s) <= n
      BY DEF UpTo
    <3>2. Cardinality(s) \in Nat
      BY <3>1, FS_Subset, FS_CardinalityType
    <3> QED  BY <3>1, <3>2 DEF UpTo
  <2> QED  BY <2>1
<1>3. \A s \in UpTo(S, n) : h[s] = g[s]
  <2>1. \A s \in UpTo(S, n) : g[s] = SumStep(f, g, s)
    BY DEF IsPartial
  <2> QED  BY <1>2, <2>1
<1>4. \A s \in UpTo(S, n + 1) : SumStep(f, h, s) = SumStep(f, g, s)
  <2> HIDE DEF h
  <2> QED  BY <1>1, <1>3 DEF SumStep
<1> QED  BY <1>4 DEF IsPartial

(* There is one for every n: there is no least n for which there is none.  *)
LEMMA PartialExists ==
    ASSUME NEW S, IsFiniteSet(S), NEW f, NEW n \in Nat
    PROVE  \E g : IsPartial(f, S, n, g)
<1> DEFINE Missing == {m \in Nat : ~\E g : IsPartial(f, S, m, g)}
<1>1. SUFFICES ASSUME Missing # {} PROVE FALSE
  OBVIOUS
<1>2. PICK m \in Missing : \A k \in Missing : m <= k
  <2>1. Missing \subseteq Nat
    OBVIOUS
  <2> HIDE DEF Missing
  <2> QED  BY <1>1, <2>1, MinExists
<1>3. m # 0
  BY PartialZero
<1>4. m - 1 \in Nat /\ m - 1 \notin Missing
  BY <1>2, <1>3
<1>5. PICK g : IsPartial(f, S, m - 1, g)
  BY <1>4
<1>6. IsPartial(f, S, (m - 1) + 1, [s \in UpTo(S, (m - 1) + 1) |-> SumStep(f, g, s)])
  BY <1>4, <1>5, PartialMore
<1>7. (m - 1) + 1 = m
  BY <1>2
<1> QED  BY <1>6, <1>7

LEMMA SmallestExists ==
    ASSUME NEW B, B # {}, \A s \in B : Cardinality(s) \in Nat
    PROVE  \E s \in B : \A r \in B : Cardinality(s) <= Cardinality(r)
<1> DEFINE Sizes == {Cardinality(s) : s \in B}
<1>1. Sizes \subseteq Nat /\ Sizes # {}
  OBVIOUS
<1>2. PICK m \in Sizes : \A k \in Sizes : m <= k
  <2> HIDE DEF Sizes
  <2> QED  BY <1>1, MinExists
<1> QED  BY <1>2

(* What the fold of natural numbers is for a subset.                       *)
GoodSum(f, g, s) ==
    /\ g[s] \in Nat
    /\ (\A x \in s : f[x] >= 1) => g[s] >= Cardinality(s)

(* It is so for all: there is no smallest subset for which it is not.      *)
LEMMA AllGood ==
    ASSUME NEW S, IsFiniteSet(S), NEW f \in [S -> Nat],
           NEW g, g = [s \in SUBSET S |-> SumStep(f, g, s)], NEW t \in SUBSET S
    PROVE  GoodSum(f, g, t)
<1> DEFINE Bad == {s \in SUBSET S : ~GoodSum(f, g, s)}
<1>1. SUFFICES ASSUME Bad # {} PROVE FALSE
  OBVIOUS
<1>2. PICK s \in Bad : \A r \in Bad : Cardinality(s) <= Cardinality(r)
  <2>1. \A s \in SUBSET S : Cardinality(s) \in Nat
    BY FS_Subset, FS_CardinalityType
  <2>2. \A r \in Bad : Cardinality(r) \in Nat
    BY <2>1
  <2> HIDE DEF Bad
  <2> QED  BY <1>1, <2>2, SmallestExists
<1>3. g[s] = SumStep(f, g, s)
  OBVIOUS
<1>4. CASE s = {}
  BY <1>3, <1>4, FS_EmptySet DEF SumStep, GoodSum
<1>5. CASE s # {}
  <2> DEFINE r == s \ {Some(s)}
  <2>1. /\ Some(s) \in s /\ r \in SUBSET S
        /\ Cardinality(s) \in Nat /\ Cardinality(r) = Cardinality(s) - 1
    BY <1>5, Rest
  <2>2. GoodSum(f, g, r)
    <3>1. ~(Cardinality(s) <= Cardinality(r))
      BY <2>1
    <3> HIDE DEF r
    <3> QED  BY <1>2, <2>1, <3>1
  <2>3. g[s] = f[Some(s)] + g[r]
    BY <1>3, <1>5 DEF SumStep
  <2>4. f[Some(s)] \in Nat /\ ((\A x \in s : f[x] >= 1) => f[Some(s)] >= 1)
    BY <2>1
  <2>5. (\A x \in s : f[x] >= 1) => \A x \in r : f[x] >= 1
    OBVIOUS
  <2> HIDE DEF r, Bad
  <2>6. GoodSum(f, g, s)
    BY <2>1, <2>2, <2>3, <2>4, <2>5 DEF GoodSum
  <2> QED  BY <2>6 DEF Bad
<1> QED  BY <1>4, <1>5

(* A sum of natural numbers is one, and at least the number of its terms   *)
(* if none of them is zero.                                                *)
LEMMA SumOfNaturals ==
    ASSUME NEW S, IsFiniteSet(S), NEW f \in [S -> Nat]
    PROVE  /\ SumFunction(f) \in Nat
           /\ (\A x \in S : f[x] >= 1) => SumFunction(f) >= Cardinality(S)
<1> DEFINE g == CHOOSE i : i = [s \in SUBSET S |-> SumStep(f, i, s)]
<1>1. UpTo(S, Cardinality(S)) = SUBSET S
  BY FS_Subset DEF UpTo
<1>2. Cardinality(S) \in Nat
  BY FS_CardinalityType
<1>3. g = [s \in SUBSET S |-> SumStep(f, g, s)]
  <2>1. \E i : IsPartial(f, S, Cardinality(S), i)
    BY <1>2, PartialExists
  <2> QED  BY <1>1, <2>1 DEF IsPartial
<1>4. SumFunction(f) = g[S]
  BY SumIsFold
<1> HIDE DEF g
<1>5. GoodSum(f, g, S)
  BY <1>3, AllGood
<1> QED  BY <1>4, <1>5 DEF GoodSum

-----------------------------------------------------------------------------
(* The averages are quotients of sums, rounded down or to the next. *)
LEMMA QuotientNat ==
    ASSUME NEW m \in Nat, NEW n \in Nat \ {0}
    PROVE  m \div n \in Nat
OBVIOUS

LEMMA QuotientAtLeast ==
    ASSUME NEW m \in Nat, NEW n \in Nat \ {0}, NEW k \in Nat, m >= k * n
    PROVE  m \div n >= k
OBVIOUS

LEMMA ProductNat ==
    ASSUME NEW m \in Nat, NEW n \in Nat
    PROVE  m * n \in Nat
OBVIOUS

LEMMA ProductGrows ==
    ASSUME NEW k \in Nat, NEW m \in Nat, NEW n \in Nat, m >= n
    PROVE  k * m >= k * n
OBVIOUS

=============================================================================
