------------------------------ MODULE Induction ------------------------------
(***************************************************************************)
(* Induction as a fact about sets.  The induction theorems of the library  *)
(* take an operator, which the provers cannot instantiate; that the        *)
(* natural numbers are well-founded says the same of a set.                *)
(***************************************************************************)
EXTENDS WellFoundedInduction, TLAPS

LEMMA LeastNumber ==
  ASSUME NEW T \in SUBSET Nat, T # {}
  PROVE  \E x \in T : \A y \in T : x <= y
<1> DEFINE R == { p \in Nat \X Nat : p[1] < p[2] }
<1>1. IsWellFoundedOn(R, Nat)
  BY NatLessThanWellFounded DEF OpToRel
<1>2. \E x \in T : \A y \in T : ~ (<< y, x >> \in R)
  <2> HIDE DEF R
  <2> QED BY <1>1, WFMin
<1>3. \A x, y \in Nat : << y, x >> \in R <=> y < x
  OBVIOUS
<1>4. \A x, y \in Nat : ~(y < x) => x <= y
  OBVIOUS
<1> HIDE DEF R
<1> QED BY <1>2, <1>3, <1>4

(* A set that has 0, and with n also n + 1, has every number.              *)
LEMMA NaturalInduction ==
  ASSUME NEW T, 0 \in T, \A n \in Nat : n \in T => n + 1 \in T
  PROVE  Nat \subseteq T
<1> SUFFICES ASSUME Nat \ T # {} PROVE FALSE
  OBVIOUS
<1>1. PICK x \in Nat \ T : \A y \in Nat \ T : x <= y
  BY LeastNumber
<1>2. x # 0
  BY <1>1
<1>3. x - 1 \in Nat /\ x - 1 \notin Nat \ T
  BY <1>1, <1>2
<1>4. x - 1 \in T /\ (x - 1) + 1 = x
  BY <1>3
<1> QED BY <1>1, <1>3, <1>4
=============================================================================
