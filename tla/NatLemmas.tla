----------------------------- MODULE NatLemmas -----------------------------
(***************************************************************************)
(* Facts about sets of natural numbers that several proofs need.           *)
(***************************************************************************)
EXTENDS Integers, FiniteSets, FiniteSetTheorems, WellFoundedInduction,
        NaturalsInduction, TLAPS

(* A nonempty set of naturals has a least element. *)
LEMMA LeastNat ==
    ASSUME NEW T, T \subseteq Nat, T # {}
    PROVE  \E m \in T : \A u \in T : m <= u
<1>. DEFINE R == OpToRel(<, Nat)
<1>1. IsWellFoundedOn(R, Nat)
  BY NatLessThanWellFounded
<1>2. PICK m \in T : \A u \in T : ~(<<u, m>> \in R)
  <2>. HIDE DEF R
  <2>. QED  BY <1>1, WFMin
<1>3. ASSUME NEW u \in T  PROVE m <= u
  <2>1. ~(<<u, m>> \in R)
    BY <1>2
  <2>2. u \in Nat /\ m \in Nat
    OBVIOUS
  <2>3. ~(u < m)
    BY <2>1, <2>2 DEF OpToRel
  <2>. QED  BY <2>2, <2>3
<1>. QED  BY <1>3

(* A nonempty set of naturals with an upper bound has a greatest element.  *)
LEMMA GreatestNat ==
    ASSUME NEW T, T \subseteq Nat, T # {}, NEW b \in Nat, \A u \in T : u <= b
    PROVE  \E m \in T : \A u \in T : u <= m
<1>. DEFINE D == {n \in Nat : b - n \in T}
<1>0. \A u \in T : u \in Nat
  OBVIOUS
<1>1. PICK u \in T : TRUE
  OBVIOUS
<1>2. b - u \in D
  <2>1. u \in Nat /\ u <= b /\ b - (b - u) = u /\ b - u \in Nat
    BY <1>0, <1>1
  <2>. QED  BY <2>1, <1>1
<1>3. PICK d \in D : \A e \in D : d <= e
  <2>1. D \subseteq Nat /\ D # {}
    BY <1>2
  <2>. HIDE DEF D
  <2>. QED  BY <2>1, LeastNat
<1>4. b - d \in T
  OBVIOUS
<1>5. ASSUME NEW v \in T PROVE v <= b - d
  <2>1. v \in Nat /\ v <= b /\ b - (b - v) = v /\ b - v \in Nat
    BY <1>0
  <2>2. b - v \in D
    BY <2>1
  <2>3. d <= b - v /\ d \in Nat
    BY <2>2, <1>3
  <2>. QED  BY <2>1, <2>3
<1>. QED  BY <1>4, <1>5
=============================================================================
