------------------------------ MODULE Induction ------------------------------
(***************************************************************************)
(* Induction on the natural numbers, for the proofs of the other modules,  *)
(* as facts about sets of numbers: those of the library are about          *)
(* predicates, which the provers cannot instantiate.                       *)
(***************************************************************************)
EXTENDS Naturals, WellFoundedInduction, TLAPS

\* A set of natural numbers that has a member has a least one.
LEMMA LeastNumber ==
  ASSUME NEW S, S \subseteq Nat, S # {}
  PROVE  \E least \in S : \A n \in S : ~(n < least)
<1>1. IsWellFoundedOn(OpToRel(<, Nat), Nat)
  BY NatLessThanWellFounded
<1>2. PICK least \in S : \A n \in S : ~(<<n, least>> \in OpToRel(<, Nat))
  BY <1>1, WFMin
<1>3. QED
  BY <1>2 DEF OpToRel

\* A set with 0, and with n + 1 for each n in it, has all the natural numbers.
LEMMA SetInduction ==
  ASSUME NEW S, 0 \in S, \A n \in Nat : n \in S => n + 1 \in S
  PROVE  Nat \subseteq S
<1> DEFINE missing == Nat \ S
<1>1. SUFFICES ASSUME missing # {} PROVE FALSE
  OBVIOUS
<1>2. PICK least \in missing : \A n \in missing : ~(n < least)
  <2> HIDE DEF missing
  <2>1. missing \subseteq Nat
    BY DEF missing
  <2>2. QED
    BY <1>1, <2>1, LeastNumber
<1>3. least # 0
  OBVIOUS
<1>4. least - 1 \in Nat /\ least - 1 < least
  BY <1>3
<1>5. least - 1 \in S
  BY <1>2, <1>4
<1>6. least - 1 + 1 \in S
  BY <1>4, <1>5
<1>7. QED
  BY <1>6

\* What holds of n + 1, and of each k below with k + 1, holds of 1.
LEMMA Downward ==
  ASSUME NEW n \in Nat, NEW S, n + 1 \in S, \A k \in 1 .. n : k + 1 \in S => k \in S
  PROVE  1 \in S
<1> DEFINE above == {d \in Nat : d <= n => n + 1 - d \in S}
<1>1. 0 \in above
  OBVIOUS
<1>2. ASSUME NEW d \in Nat, d \in above PROVE d + 1 \in above
  <2>1. SUFFICES ASSUME d + 1 <= n PROVE n - d \in S
    OBVIOUS
  <2>2. n - d + 1 \in S /\ n - d \in 1 .. n
    BY <1>2, <2>1
  <2>3. QED
    BY <2>2
<1> HIDE DEF above
<1>3. n \in above
  BY <1>1, <1>2, SetInduction
<1>4. QED
  BY <1>3 DEF above
=============================================================================
