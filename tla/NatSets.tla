------------------------------- MODULE NatSets -------------------------------
(***************************************************************************)
(* Two facts about sets of natural numbers, in a form that needs no        *)
(* operator as a parameter: the least member, and induction.               *)
(***************************************************************************)
EXTENDS Integers, WellFoundedInduction, TLAPS

\* A set of natural numbers that is not empty has a least member: what the
\* first directory entry of a name is (fat32.c:90-96).
LEMMA LeastNatural ==
    ASSUME NEW T \in SUBSET Nat, T # {}
    PROVE  \E x \in T : \A y \in T : x <= y
<1> DEFINE R == {p \in Nat \X Nat : p[1] < p[2]}
<1>1. IsWellFoundedOn(R, Nat)
    BY NatLessThanWellFounded DEF OpToRel
<1>2. \E x \in T : \A y \in T : <<y, x>> \notin R
    <2> HIDE DEF R
    <2> QED BY <1>1, WFMin 
<1>3. PICK x \in T : \A y \in T : <<y, x>> \notin R
    BY <1>2
<1>4. ASSUME NEW y \in T PROVE x <= y
    <2>1. <<y, x>> \notin R /\ x \in Nat /\ y \in Nat
        BY <1>3
    <2> QED BY <2>1
<1> QED BY <1>4

\* Induction, for a set: one that holds 0, and n + 1 for each n it holds, holds
\* all natural numbers.  Chains of clusters are followed by it (fat32.c:107-124).
LEMMA SetInduction ==
    ASSUME NEW S \in SUBSET Nat, 0 \in S, \A n \in S : n + 1 \in S
    PROVE  S = Nat
<1>1. SUFFICES ASSUME Nat \ S # {} PROVE FALSE
    OBVIOUS
<1>2. PICK x \in Nat \ S : \A y \in Nat \ S : x <= y
    BY <1>1, LeastNatural
<1> QED BY <1>2

\* The same below a bound: a set that holds 0, and k + 1 for each k < n it holds,
\* holds all numbers up to n.  Loops of n turns are followed by it (fb.c:576-595).
LEMMA BoundedInduction ==
    ASSUME NEW n \in Nat, NEW S, 0 \in S, \A k \in 1 .. n : k - 1 \in S => k \in S
    PROVE  \A k \in 0 .. n : k \in S
<1> DEFINE T == {k \in Nat : k <= n => k \in S}
<1>1. 0 \in T
    OBVIOUS
<1>2. ASSUME NEW k \in T PROVE k + 1 \in T
    <2>1. k \in Nat /\ k + 1 \in Nat /\ k + 1 - 1 = k
        OBVIOUS
    <2>2. CASE k + 1 <= n
        <3>1. k + 1 \in 1 .. n /\ k \in S
            BY <2>1, <2>2
        <3>2. k + 1 \in S
            BY <2>1, <3>1
        <3> QED BY <2>1, <3>2
    <2> QED BY <2>1, <2>2
<1>3. T \in SUBSET Nat
    OBVIOUS
<1> HIDE DEF T
<1>4. T = Nat
    BY <1>1, <1>2, <1>3, SetInduction
<1> QED BY <1>4 DEF T
=============================================================================
