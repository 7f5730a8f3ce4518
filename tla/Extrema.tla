------------------------------ MODULE Extrema ------------------------------
(***************************************************************************)
(* That a set of numbers has the least and the greatest element which Min  *)
(* and Max of the community modules choose.                                *)
(***************************************************************************)
EXTENDS FiniteSetsExt, WellFoundedInduction, TLAPS

\* Every set of natural numbers that is not empty has a least one.
LEMMA MinExists ==
    ASSUME NEW S \in SUBSET Nat, S # {}
    PROVE  Min(S) \in S /\ \A y \in S : Min(S) <= y
  <1>1. \E x \in S : \A y \in S : <<y, x>> \notin OpToRel(<, Nat)
    BY NatLessThanWellFounded, WFMin
  <1>2. PICK x \in S : \A y \in S : <<y, x>> \notin OpToRel(<, Nat)
    BY <1>1
  <1>3. \A y \in S : x <= y
    <2> TAKE y \in S
    <2>1. <<y, x>> \in Nat \X Nat /\ ~(y < x)
      BY <1>2 DEF OpToRel
    <2> QED
      BY <2>1
  <1> QED
    BY <1>3 DEF Min

\* One that is bounded has a greatest one: the least distance to the bound.
LEMMA MaxExists ==
    ASSUME NEW n \in Nat, NEW S \in SUBSET (0..n), S # {}
    PROVE  Max(S) \in S /\ \A y \in S : Max(S) >= y
  <1> DEFINE T == {n - x : x \in S}
  <1>1. T \in SUBSET Nat /\ T # {}
    <2>1. \A x \in S : x \in 0..n /\ n - x \in Nat
      OBVIOUS
    <2>2. T \subseteq Nat
      BY <2>1
    <2>3. PICK x \in S : TRUE
      OBVIOUS
    <2>4. n - x \in T
      BY <2>3
    <2> QED
      BY <2>2, <2>4
  <1> HIDE DEF T
  <1>2. Min(T) \in T /\ \A y \in T : Min(T) <= y
    BY <1>1, MinExists
  <1>3. PICK x \in S : Min(T) = n - x
    BY <1>2 DEF T
  <1>4. \A y \in S : n - x <= n - y
    BY <1>2, <1>3 DEF T
  <1>5. \A y \in S : x >= y
    BY <1>4
  <1> QED
    BY <1>5 DEF Max
=============================================================================
