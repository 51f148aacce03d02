---------------------------- MODULE SetInduction ----------------------------
(***************************************************************************)
(* Induction over the natural numbers, for the proofs of this project: the *)
(* property is a set of numbers instead of an operator.  It rests on the   *)
(* well-foundedness of the subsets of a finite set.                        *)
(***************************************************************************)
EXTENDS Integers, FiniteSetTheorems, TLAPS

(* A set of natural numbers that is not empty has a least element.  (The    *)
(* intervals from 0 to an element of T below n are ordered by inclusion.)   *)
LEMMA LeastElement ==
  ASSUME NEW T \in SUBSET Nat, T # {}
  PROVE  \E m \in T : \A k \in T : m <= k
<1>1. PICK n \in T : TRUE
  OBVIOUS
<1> DEFINE I == 0..n
           U == {0..k : k \in T \cap I}
<1>2. IsFiniteSet(I)
  BY FS_Interval
<1>3. IsWellFoundedOn(StrictSubsetOrdering(I), SUBSET I)
  BY <1>2, FS_StrictSubsetOrderingWellFounded, FS_FiniteSubsetsOfFinite
<1>4. U \subseteq SUBSET I /\ U # {}
  OBVIOUS
<1>5. PICK x \in U : \A y \in U : ~(<<y, x>> \in StrictSubsetOrdering(I))
  BY <1>3, <1>4, WFMin
<1>6. PICK m \in T \cap I : x = 0..m
  OBVIOUS
<1>7. ASSUME NEW k \in T, k < m PROVE FALSE
  <2>1. k \in T \cap I /\ (0..k) \in U
    BY <1>6, <1>7
  <2>2. (0..k) \subseteq 0..m /\ (0..k) # 0..m
    BY <1>6, <1>7
  <2>3. <<0..k, x>> \in StrictSubsetOrdering(I)
    BY <2>1, <2>2, <1>4, <1>6 DEF StrictSubsetOrdering
  <2> QED
    BY <2>1, <2>3, <1>5
<1> QED
  BY <1>6, <1>7

(* A set of numbers that holds 0 and, with a number, the next one, holds    *)
(* them all.                                                                *)
LEMMA InductionOnSets ==
  ASSUME NEW P, 0 \in P, \A n \in Nat : n \in P => n + 1 \in P
  PROVE  Nat \subseteq P
<1> SUFFICES ASSUME Nat \ P # {} PROVE FALSE
  OBVIOUS
<1>1. PICK m \in Nat \ P : \A k \in Nat \ P : m <= k
  BY LeastElement
<1>2. m # 0 /\ m - 1 \in Nat /\ m - 1 \in P
  BY <1>1
<1> QED
  BY <1>1, <1>2
=============================================================================
