---------------------------- MODULE Counting_proofs ----------------------------
(*****************************************************************************)
(* Facts about numbers that the proofs of several components need: the least *)
(* and the greatest of a set, the places that an order gives to the members  *)
(* of a set, products and quotients.                                         *)
(*****************************************************************************)
EXTENDS Integers, FiniteSetTheorems, WellFoundedInduction, TLAPS

\* Every set of numbers has a least one.
LEMMA LeastNumber ==
    ASSUME NEW T, T \subseteq Nat, T # {}
    PROVE  \E x \in T : \A y \in T : x <= y
<1> DEFINE R == {ss \in Nat \X Nat : ss[1] < ss[2]}
<1>1. IsWellFoundedOn(R, Nat)
  BY NatLessThanWellFounded DEF OpToRel
<1>2. \A x, y \in Nat : y < x => <<y, x>> \in R
  OBVIOUS
<1> HIDE DEF R
<1>3. PICK x \in T : \A y \in T : ~ (<<y, x>> \in R)
  BY <1>1, WFMin
<1>4. \A y \in T : ~ (y < x)
  BY <1>2, <1>3
<1> QED  BY <1>4

\* Every finite one that has a member has a greatest: a smallest set without
\* one would lose it with any of its members.
LEMMA GreatestNumber ==
    ASSUME NEW S, IsFiniteSet(S), S \subseteq Nat, S # {}
    PROVE  \E x \in S : \A y \in S : x >= y
<1> DEFINE Endless(A) == A # {} /\ ~ \E x \in A : \A y \in A : x >= y
           T == {Cardinality(A) : A \in {B \in SUBSET S : Endless(B)}}
<1>1. \A A \in SUBSET S : IsFiniteSet(A) /\ Cardinality(A) \in Nat
  BY FS_Subset, FS_CardinalityType
<1>2. ASSUME T # {}  PROVE  FALSE
  <2>1. T \subseteq Nat
    BY <1>1
  <2> HIDE DEF T
  <2>2. PICK n \in T : \A m \in T : n <= m
    BY <1>2, <2>1, LeastNumber
  <2> USE DEF T
  <2>3. PICK A \in SUBSET S : Endless(A) /\ n = Cardinality(A)
    OBVIOUS
  <2>4. PICK x \in A : TRUE
    BY <2>3
  <2>5. Cardinality(A \ {x}) = n - 1 /\ n \in Nat
    BY <1>1, <2>3, FS_RemoveElement
  <2>6. ~Endless(A \ {x})
    <3>1. SUFFICES ASSUME Endless(A \ {x})  PROVE  FALSE
      OBVIOUS
    <3>2. n - 1 \in T
      BY <2>5, <3>1
    <3> HIDE DEF T, Endless
    <3> QED  BY <2>2, <2>5, <3>2
  <2>7. CASE A \ {x} = {}
    BY <2>3, <2>4, <2>7
  <2>8. CASE \E y \in A \ {x} : \A z \in A \ {x} : y >= z
    <3>1. PICK y \in A \ {x} : \A z \in A \ {x} : y >= z
      BY <2>8
    <3>2. x \in Nat /\ y \in Nat
      BY <2>3, <3>1
    <3> QED  BY <2>3, <3>1, <3>2
  <2> QED  BY <2>6, <2>7, <2>8
<1> QED  BY <1>2

---------------------------------------------------------------------------
(* Places in an order. *)

\* The pairs R order S totally.
Orders(R, S) ==
    /\ \A x \in S : <<x, x>> \notin R
    /\ \A x, y \in S : x = y \/ <<x, y>> \in R \/ <<y, x>> \in R
    /\ \A x, y, z \in S : <<x, y>> \in R /\ <<y, z>> \in R => <<x, z>> \in R

\* How many come before x.
PlaceIn(R, S, x) == Cardinality({y \in S : <<y, x>> \in R})

LEMMA PlacesGrow ==
    ASSUME NEW S, IsFiniteSet(S), NEW R, Orders(R, S),
           NEW x \in S, NEW y \in S, <<x, y>> \in R
    PROVE  PlaceIn(R, S, x) < PlaceIn(R, S, y)
<1> DEFINE A == {z \in S : <<z, x>> \in R}
           B == {z \in S : <<z, y>> \in R}
<1>1. A \subseteq B /\ x \in B \ A
  BY DEF Orders
<1>2. IsFiniteSet(B) /\ Cardinality(B) \in Nat
  BY FS_Subset, FS_CardinalityType
<1>3. Cardinality(A) <= Cardinality(B) /\ Cardinality(A) # Cardinality(B)
  <2> HIDE DEF A, B
  <2> QED  BY <1>1, <1>2, FS_Subset
<1>4. Cardinality(A) \in Nat
  BY FS_Subset, FS_CardinalityType
<1> QED  BY <1>2, <1>3, <1>4 DEF PlaceIn

\* The places are 0 to one less than there are elements, nobody shares one,
LEMMA PlacesDiffer ==
    ASSUME NEW S, IsFiniteSet(S), NEW R, Orders(R, S)
    PROVE  /\ \A x \in S : PlaceIn(R, S, x) \in 0..(Cardinality(S) - 1)
           /\ \A x, y \in S : PlaceIn(R, S, x) = PlaceIn(R, S, y) => x = y
<1> DEFINE n == Cardinality(S)
<1>1. n \in Nat
  BY FS_CardinalityType
<1>2. ASSUME NEW x \in S  PROVE  PlaceIn(R, S, x) \in 0..(n - 1)
  <2> DEFINE A == {y \in S : <<y, x>> \in R}
  <2>1. A \subseteq S /\ x \notin A
    BY DEF Orders
  <2>2. Cardinality(A) <= n /\ Cardinality(A) # n /\ Cardinality(A) \in Nat
    <3> HIDE DEF A
    <3> QED  BY <2>1, FS_Subset, FS_CardinalityType
  <2> QED  BY <1>1, <2>2 DEF PlaceIn
<1>3. ASSUME NEW x \in S, NEW y \in S, x # y  PROVE  PlaceIn(R, S, x) # PlaceIn(R, S, y)
  <2>1. CASE <<x, y>> \in R
    BY <1>2, <2>1, PlacesGrow
  <2>2. CASE <<y, x>> \in R
    BY <1>2, <2>2, PlacesGrow
  <2> QED  BY <1>3, <2>1, <2>2 DEF Orders
<1> QED  BY <1>2, <1>3

\* and each is somebody's.
LEMMA EveryPlace ==
    ASSUME NEW S, IsFiniteSet(S), NEW R, Orders(R, S), NEW i \in 0..(Cardinality(S) - 1)
    PROVE  \E x \in S : PlaceIn(R, S, x) = i
<1> DEFINE n == Cardinality(S)
           f == [x \in S |-> PlaceIn(R, S, x)]
<1>1. n \in Nat
  BY FS_CardinalityType
<1>2. f \in Injection(S, 0..(n - 1))
  BY PlacesDiffer DEF Injection, IsInjective
<1>3. IsFiniteSet(0..(n - 1)) /\ Cardinality(0..(n - 1)) = n
  BY <1>1, FS_Interval
<1>4. f \in Surjection(S, 0..(n - 1))
  <2> HIDE DEF f
  <2> QED  BY <1>2, <1>3, FS_Injection
<1> QED  BY <1>4 DEF Surjection

---------------------------------------------------------------------------
(* Products and quotients. *)

LEMMA Products ==
    ASSUME NEW a \in Nat, NEW b \in Nat, NEW d \in Nat \ {0}
    PROVE  /\ a * d \in Nat
           /\ a <= b <=> a * d <= b * d
           /\ (a + 1) * d = a * d + d
  OBVIOUS

LEMMA Quotient ==
    ASSUME NEW a \in Nat, NEW d \in Nat \ {0}
    PROVE  /\ a \div d \in Nat
           /\ (a \div d) * d <= a /\ a < (a \div d) * d + d
  OBVIOUS

LEMMA QuotientsGrow ==
    ASSUME NEW a \in Nat, NEW b \in Nat, a <= b, NEW d \in Nat \ {0}
    PROVE  a \div d <= b \div d
  OBVIOUS
================================================================================
