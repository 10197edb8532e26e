------------------------------- MODULE Induction -------------------------------
(***************************************************************************)
(* Induction over the natural numbers, stated of sets: that n has a        *)
(* property is written n \in S.  The proofs that follow a loop or a series *)
(* of calls rest on it.                                                    *)
(***************************************************************************)
EXTENDS Integers, WellFoundedInduction, TLAPS

(* A set of natural numbers that is not empty has a least element.         *)
LEMMA LeastNatural ==
  ASSUME NEW S, S \subseteq Nat, S # {}
  PROVE  \E n \in S : \A m \in S : n <= m
<1> DEFINE less == { pair \in Nat \X Nat : pair[1] < pair[2] }
<1>1. IsWellFoundedOn(less, Nat)
  BY NatLessThanWellFounded DEF OpToRel
<1> HIDE DEF less
<1>2. PICK n \in S : \A m \in S : ~ (<<m, n>> \in less)
  BY <1>1, WFMin
<1>3. \A m \in S : ~ (m < n)
  BY <1>2 DEF less
<1> QED
  BY <1>3

(* One that is bounded has a greatest.                                     *)
LEMMA GreatestNatural ==
  ASSUME NEW S, S \subseteq Nat, S # {}, NEW b \in Nat, \A n \in S : n <= b
  PROVE  \E n \in S : \A m \in S : m <= n
<1> DEFINE below == { b - n : n \in S }
<1>1. \A n \in S : b - n \in Nat
  OBVIOUS
<1>2. below \subseteq Nat /\ below # {}
  BY <1>1
<1> HIDE DEF below
<1>3. PICK d \in below : \A e \in below : d <= e
  BY <1>2, LeastNatural
<1> USE DEF below
<1>4. PICK n \in S : d = b - n
  BY <1>3
<1>5. ASSUME NEW m \in S PROVE m <= n
  <2>1. b - m \in below
    OBVIOUS
  <2>2. b - n <= b - m
    BY <1>3, <1>4, <2>1
  <2> QED
    BY <2>2
<1> QED
  BY <1>5

(* What holds of 0 and of n + 1 when it holds of n holds up to any bound.  *)
LEMMA InductionUpTo ==
  ASSUME NEW S, NEW b \in Nat, 0 \in S, \A n \in 0 .. b - 1 : n \in S => n + 1 \in S
  PROVE  0 .. b \subseteq S
<1> DEFINE others == (0 .. b) \ S
<1> SUFFICES ASSUME others # {} PROVE FALSE
  OBVIOUS
<1>1. others \subseteq Nat
  OBVIOUS
<1> HIDE DEF others
<1>2. PICK n \in others : \A m \in others : n <= m
  BY <1>1, LeastNatural
<1> USE DEF others
<1>3. n # 0 /\ n - 1 \in 0 .. b - 1
  BY <1>2
<1>4. n - 1 \notin others
  BY <1>2, <1>3
<1>5. n - 1 \in S
  BY <1>3, <1>4
<1>6. (n - 1) + 1 \in S
  BY <1>3, <1>5
<1> QED
  BY <1>2, <1>6

=============================================================================
