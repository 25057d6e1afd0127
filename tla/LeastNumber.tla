---------------------------- MODULE LeastNumber ----------------------------
(***************************************************************************)
(* Every non-empty set of natural numbers has a least element: the form in *)
(* which the proofs of this project use induction.                         *)
(***************************************************************************)
EXTENDS Integers, NaturalsInduction, WellFoundedInduction, TLAPS

\* A well-founded relation on the natural numbers has minimal elements.
LEMMA Minimal ==
  ASSUME NEW Q, IsWellFoundedOn(Q, Nat), NEW T, T \subseteq Nat, T # {}
  PROVE  \E n \in T : \A m \in T : ~(<<m, n>> \in Q)
BY WFMin, Zenon

\* When the relation contains `<', its minimal elements are least.
LEMMA MinimalIsLeast ==
  ASSUME NEW Q, IsWellFoundedOn(Q, Nat), \A m, n \in Nat : m < n => <<m, n>> \in Q,
         NEW T, T \subseteq Nat, T # {}
  PROVE  \E n \in T : \A m \in T : n <= m
<1>1. PICK n \in T : \A m \in T : ~(<<m, n>> \in Q)
  BY Minimal, Zenon
<1>2. \A m \in T : ~(m < n)
  BY <1>1
<1> QED BY <1>2

\* The least-number principle.
LEMMA Least ==
  ASSUME NEW T, T \subseteq Nat, T # {}
  PROVE  \E n \in T : \A m \in T : n <= m
<1>1. IsWellFoundedOn(OpToRel(<, Nat), Nat)
  BY NatLessThanWellFounded
<1>2. \A m, n \in Nat : m < n => <<m, n>> \in OpToRel(<, Nat)
  BY DEF OpToRel
<1> QED BY <1>1, <1>2, MinimalIsLeast
=============================================================================
