------------------------------ MODULE LeastNumber ------------------------------
(***************************************************************************)
(* Least and greatest numbers of a set.  A property of all numbers, or of  *)
(* all positions of a sequence, is proved from the least number for which  *)
(* it fails: there is none if the numbers below decide it.                 *)
(***************************************************************************)
EXTENDS Integers, FiniteSetsExt, WellFoundedInduction, TLAPS

\* The order of the natural numbers is well-founded.
LEMMA NaturalOrder ==
  \E R : IsWellFoundedOn(R, Nat) /\ \A x, y \in Nat : x < y => <<x, y>> \in R
<1>1. IsWellFoundedOn(OpToRel(<, Nat), Nat)
  BY NatLessThanWellFounded
<1>2. \A x, y \in Nat : x < y => <<x, y>> \in OpToRel(<, Nat)
  BY DEF OpToRel
<1>3. QED
  BY <1>1, <1>2

\* Some natural numbers have a least one.
LEMMA LeastNatural ==
  ASSUME NEW A, A \subseteq Nat, A # {}
  PROVE  \E x \in A : \A y \in A : x <= y
<1>1. PICK R : IsWellFoundedOn(R, Nat) /\ \A x, y \in Nat : x < y => <<x, y>> \in R
  BY NaturalOrder
<1>2. PICK x \in A : \A y \in A : ~(<<y, x>> \in R)
  <2>1. IsWellFoundedOn(R, Nat)
    BY <1>1
  <2>2. QED
    BY <2>1, WFMin
<1>3. ASSUME NEW y \in A PROVE x <= y
  <2>1. x \in Nat /\ y \in Nat
    OBVIOUS
  <2>2. ~(y < x)
    BY <1>1, <1>2, <2>1
  <2>3. QED
    BY <2>1, <2>2
<1>4. QED
  BY <1>3

\* Some natural numbers up to a bound have a greatest one.
LEMMA GreatestNatural ==
  ASSUME NEW A, NEW bound \in Nat, A \subseteq 0..bound, A # {}
  PROVE  \E x \in A : \A y \in A : x >= y
<1> DEFINE Rest == {bound - x : x \in A}
<1>1. Rest \subseteq Nat /\ Rest # {}
  OBVIOUS
<1>2. PICK r \in Rest : \A s \in Rest : r <= s
  <2> HIDE DEF Rest
  <2>1. QED
    BY <1>1, LeastNatural
<1>3. PICK x \in A : r = bound - x
  OBVIOUS
<1>4. ASSUME NEW y \in A PROVE x >= y
  <2>1. bound - y \in Rest
    OBVIOUS
  <2>2. bound - x <= bound - y
    BY <1>2, <1>3, <2>1
  <2>3. x \in Int /\ y \in Int
    OBVIOUS
  <2>4. QED
    BY <2>2, <2>3
<1>5. QED
  BY <1>4

\* Min is the least of them, ...
LEMMA MinIsLeast ==
  ASSUME NEW A, A \subseteq Nat, A # {}
  PROVE  Min(A) \in A /\ \A y \in A : Min(A) <= y
BY LeastNatural DEF Min

\* ... and Max the greatest.
LEMMA MaxIsGreatest ==
  ASSUME NEW A, NEW bound \in Nat, A \subseteq 0..bound, A # {}
  PROVE  Max(A) \in A /\ \A y \in A : Max(A) >= y
BY GreatestNatural DEF Max
================================================================================
