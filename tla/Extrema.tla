------------------------------ MODULE Extrema ------------------------------
(***************************************************************************)
(* Min and Max of sets of natural numbers, for the modules that prove      *)
(* about them.                                                             *)
(***************************************************************************)
EXTENDS Integers, FiniteSetsExt, WellFoundedInduction, TLAPS

(* A set of natural numbers that is not empty has a minimum, as the order  *)
(* on them is well-founded.                                                *)
LEMMA MinExists ==
    ASSUME NEW S, S \subseteq Nat, S # {}
    PROVE  Min(S) \in S /\ \A y \in S : Min(S) <= y
<1> DEFINE R == OpToRel(<, Nat)
<1>1. PICK x \in S : \A y \in S : <<y, x>> \notin R
  <2>1. IsWellFoundedOn(R, Nat)
    BY NatLessThanWellFounded
  <2> HIDE DEF R
  <2> QED  BY <2>1, WFMin
<1>2. \A y \in S : x <= y
  <2>1. SUFFICES ASSUME NEW y \in S, y < x PROVE FALSE
    OBVIOUS
  <2>2. <<y, x>> \in R
    BY <2>1 DEF OpToRel
  <2> QED  BY <1>1, <2>2
<1> QED  BY <1>1, <1>2 DEF Min

(* If it is bounded it has a maximum, too: the minimum counted from above. *)
LEMMA MaxExists ==
    ASSUME NEW n \in Nat, NEW S, S \subseteq 0..n, S # {}
    PROVE  Max(S) \in S /\ \A y \in S : Max(S) >= y
<1> DEFINE T == {n - x : x \in S}
<1>1. T \subseteq Nat /\ T # {}
  <2>1. \A x \in S : x \in Int /\ n - x \in Nat
    OBVIOUS
  <2> QED  BY <2>1
<1>2. PICK m \in T : \A y \in T : m <= y
  <2> HIDE DEF T
  <2> QED  BY <1>1, MinExists
<1>3. PICK x \in S : m = n - x
  BY <1>2
<1>4. \A y \in S : x >= y
  <2>1. SUFFICES ASSUME NEW y \in S PROVE x >= y
    OBVIOUS
  <2>2. n - x <= n - y
    BY <1>2, <1>3
  <2>3. x \in Int /\ y \in Int
    OBVIOUS
  <2> QED  BY <2>2, <2>3
<1> QED  BY <1>3, <1>4 DEF Max

(* A number above all others becomes the maximum. *)
LEMMA MaxOfAdded ==
    ASSUME NEW S, S \subseteq Nat, NEW n \in Nat, \A y \in S : y < n
    PROVE  Max(S \cup {n}) = n
<1> DEFINE T == S \cup {n}
<1>1. n \in T /\ \A y \in T : n >= y
  OBVIOUS
<1>2. Max(T) \in T /\ \A y \in T : Max(T) >= y
  <2> HIDE DEF T
  <2> QED  BY <1>1 DEF Max
<1>3. Max(T) \in Nat /\ Max(T) >= n /\ n >= Max(T)
  BY <1>1, <1>2
<1> QED  BY <1>3

(* ... and leaves the minimum alone. *)
LEMMA MinOfAdded ==
    ASSUME NEW S, S \subseteq Nat, S # {}, NEW n \in Nat, \A y \in S : y < n
    PROVE  Min(S \cup {n}) = Min(S)
<1> DEFINE T == S \cup {n}
<1>1. Min(S) \in S /\ \A y \in S : Min(S) <= y
  BY MinExists
<1>2. Min(T) \in T /\ \A y \in T : Min(T) <= y
  <2>1. T \subseteq Nat /\ T # {}
    OBVIOUS
  <2> HIDE DEF T
  <2> QED  BY <2>1, MinExists
<1>3. Min(T) \in Nat /\ Min(S) \in Nat /\ Min(S) < n /\ Min(T) <= Min(S)
  BY <1>1, <1>2
<1>4. Min(T) \in S
  BY <1>2, <1>3
<1>5. Min(S) <= Min(T)
  BY <1>1, <1>4
<1> QED  BY <1>3, <1>5

=============================================================================
