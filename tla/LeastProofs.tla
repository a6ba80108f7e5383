---------------------------- MODULE LeastProofs ----------------------------
(***************************************************************************)
(* A set of numbers that is not empty has a least member, and a greatest   *)
(* one if it is bounded: what the queue's oldest row, the next dir of a    *)
(* Load and the last row of a page of the feed rest on.  As the library    *)
(* states that the order of the naturals is well-founded, it is a matter   *)
(* of naming the order as a set.                                           *)
(***************************************************************************)
EXTENDS Naturals, TLAPS, WellFoundedInduction

Less == {p \in Nat \X Nat : p[1] < p[2]}

\* The order of the naturals has no infinite descent.
LEMMA LessWellFounded == IsWellFoundedOn(Less, Nat)
<1>1. OpToRel(<, Nat) = Less
  BY DEF OpToRel, Less
<1>2. IsWellFoundedOn(OpToRel(<, Nat), Nat)
  BY NatLessThanWellFounded
<1> QED  BY <1>1, <1>2, Zenon

\* Every nonempty set of numbers has a least member.
LEMMA LeastExists ==
  ASSUME NEW items \in SUBSET Nat, items # {}
  PROVE  \E i \in items : \A j \in items : i <= j
<1>1. PICK i \in items : \A j \in items : ~(<<j, i>> \in Less)
  <2>1. IsWellFoundedOn(Less, Nat)
    BY LessWellFounded
  <2> QED  BY <2>1, WFMin, Zenon
<1>2. ASSUME NEW j \in items  PROVE  i <= j
  <2>1. i \in Nat /\ j \in Nat
    OBVIOUS
  <2>2. ~(<<j, i>> \in Less)
    BY <1>1
  <2>3. j < i => <<j, i>> \in Less
    BY <2>1 DEF Less
  <2> QED  BY <2>1, <2>2, <2>3
<1> QED  BY <1>2

\* So a nonempty set of numbers that is bounded has a greatest member.
LEMMA GreatestExists ==
  ASSUME NEW items \in SUBSET Nat, items # {},
         NEW bound \in Nat, \A i \in items : i <= bound
  PROVE  \E i \in items : \A j \in items : j <= i
<1> DEFINE gaps == {bound - i : i \in items}
<1>1. gaps \in SUBSET Nat /\ gaps # {}
  <2>1. ASSUME NEW i \in items  PROVE bound - i \in Nat
    OBVIOUS
  <2> QED  BY <2>1
<1>2. PICK g \in gaps : \A h \in gaps : g <= h
  BY <1>1, LeastExists
<1>3. PICK i \in items : g = bound - i
  BY <1>2
<1>4. ASSUME NEW j \in items  PROVE  j <= i
  <2>1. bound - j \in gaps
    OBVIOUS
  <2>2. bound - i <= bound - j /\ i \in Nat /\ j \in Nat
    BY <1>2, <1>3, <2>1
  <2> QED  BY <2>2
<1> QED  BY <1>4

=============================================================================
