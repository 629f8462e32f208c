---------------------------- MODULE LeastElement ----------------------------
(***************************************************************************)
(* The least-element principle for the naturals, the form of induction the *)
(* loop proofs use: a loop invariant that failed somewhere would fail at a *)
(* least index, and the step before that index contradicts it.             *)
(***************************************************************************)
EXTENDS Naturals, WellFoundedInduction, TLAPS

\* Every non-empty set of naturals has a least element (from the
\* well-foundedness of < on Nat).
LEMMA NatMin ==
  ASSUME NEW T \in SUBSET Nat, T # {}
  PROVE  \E x \in T : \A y \in T : x <= y
  <1>1. PICK x \in T : \A y \in T : ~(<<y, x>> \in OpToRel(<, Nat))
    BY NatLessThanWellFounded, WFMin
  <1>2. \A y \in T : ~(y < x)
    BY <1>1 DEF OpToRel
  <1>3. QED
    BY <1>2
=============================================================================
