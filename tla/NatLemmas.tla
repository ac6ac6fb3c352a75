------------------------------ MODULE NatLemmas ------------------------------
(***************************************************************************)
(* Induction on numbers in the form the provers can use: a set of natural  *)
(* numbers that is not empty has a least element.  Whoever has to show     *)
(* something of the passes of a loop, one after the other, looks at the    *)
(* first pass for which it fails.                                          *)
(***************************************************************************)
EXTENDS Naturals, WellFoundedInduction, TLAPS

(***************************************************************************)
(* A set of numbers that is not empty has a least element: the first pass  *)
(* of a loop (bucket.c, fasthash.h) for which a statement fails.           *)
(***************************************************************************)
LEMMA LeastNat ==
  ASSUME NEW T, T \subseteq Nat, T # {}
  PROVE  \E x \in T : \A y \in T : x <= y
<1> DEFINE R == OpToRel(<, Nat)
<1>1. IsWellFoundedOn(R, Nat)
  BY NatLessThanWellFounded
<1>2. PICK x \in T : \A y \in T : <<y, x>> \notin R
  <2> HIDE DEF R
  <2> QED
    BY <1>1, WFMin
<1>3. \A y \in T : ~(y < x)
  <2> TAKE y \in T
  <2>1. <<y, x>> \notin OpToRel(<, Nat)
    BY <1>2
  <2> QED
    BY <2>1 DEF OpToRel
<1> QED
  BY <1>3, SMT

(***************************************************************************)
(* A set of numbers below a bound that is not empty has a greatest         *)
(* element: the newest item that a search from the end of a bucket finds   *)
(* (get_item_by_vlan_ipv4).                                                *)
(***************************************************************************)
LEMMA GreatestNat ==
  ASSUME NEW n \in Nat, NEW T, T \subseteq 0 .. n, T # {}
  PROVE  \E x \in T : \A y \in T : x >= y
<1> DEFINE D == {d \in 0 .. n : n - d \in T}
<1>1. D \subseteq Nat
  OBVIOUS
<1>2. D # {}
  <2>1. PICK x \in T : x \in 0 .. n
    OBVIOUS
  <2>2. n - x \in 0 .. n /\ n - (n - x) = x
    BY <2>1
  <2> QED
    BY <2>1, <2>2
<1>3. PICK d \in D : \A e \in D : d <= e
  <2> HIDE DEF D
  <2> QED
    BY <1>1, <1>2, LeastNat
<1>4. ASSUME NEW y \in T
      PROVE  n - d >= y
  <2>1. y \in 0 .. n
    OBVIOUS
  <2>2. n - y \in D
    BY <2>1
  <2>3. d <= n - y /\ d \in 0 .. n
    BY <1>3, <2>2
  <2> QED
    BY <2>1, <2>3
<1>5. n - d \in T
  OBVIOUS
<1> QED
  BY <1>4, <1>5

(***************************************************************************)
(* A walk that starts anywhere in a ring and goes around once comes by     *)
(* every place (WaitForSocketData, CPoll::FindNextEvent).                  *)
(***************************************************************************)
LEMMA RingReached ==
  ASSUME NEW n \in Nat \ {0}, NEW from \in 0 .. (n - 1), NEW m \in 0 .. (n - 1)
  PROVE  \E j \in 0 .. (n - 1) : (j + from) % n = m
<1>1. CASE m >= from
  <2> DEFINE j == m - from
  <2>1. j \in 0 .. (n - 1) /\ j + from = m /\ m % n = m
    BY <1>1
  <2> QED
    BY <2>1
<1>2. CASE ~(m >= from)
  <2> DEFINE j == m - from + n
  <2>1. j \in 0 .. (n - 1) /\ j + from = m + n
    BY <1>2
  <2>2. (m + n) % n = m
    OBVIOUS
  <2> QED
    BY <2>1, <2>2
<1> QED
  BY <1>1, <1>2

(***************************************************************************)
(* A walk around a ring stays in it.                                       *)
(***************************************************************************)
LEMMA RingStays ==
  ASSUME NEW n \in Nat \ {0}, NEW a \in Nat
  PROVE  (a % n) + 1 \in 1 .. n
<1>1. a % n \in 0 .. (n - 1)
  OBVIOUS
<1> DEFINE m == a % n
<1> HIDE DEF m
<1>2. m \in 0 .. (n - 1)
  BY <1>1 DEF m
<1>3. m + 1 \in 1 .. n
  BY <1>2
<1> QED
  BY <1>3 DEF m
=============================================================================
