------------------------------ MODULE Extremes ------------------------------
(***************************************************************************)
(* The least and the greatest of some numbers: the row that the code takes *)
(* by ORDER BY ... LIMIT 1 exists when there is one to take.               *)
(***************************************************************************)
EXTENDS Integers, WellFoundedInduction, TLAPS

LEMMA NatHasLeast ==
    ASSUME NEW T, T \subseteq Nat, T # {}
    PROVE  \E x \in T : \A y \in T : x <= y
<1>1. IsWellFoundedOn(OpToRel(<, Nat), Nat)
    BY NatLessThanWellFounded
<1>2. PICK x \in T : \A y \in T : <<y, x>> \notin OpToRel(<, Nat)
    BY <1>1, WFMin
<1>3. ASSUME NEW y \in T PROVE x <= y
    <2>1. y \in Nat /\ x \in Nat
        OBVIOUS
    <2>2. ~(y < x)
        BY <1>2, <2>1 DEF OpToRel
    <2> QED BY <2>1, <2>2
<1> QED BY <1>3

LEMMA RangeHasGreatest ==
    ASSUME NEW n \in Nat, NEW T, T \subseteq 1..n, T # {}
    PROVE  \E x \in T : \A y \in T : y <= x
<1> DEFINE U == {m \in Nat : n - m \in T}
<1>1. U # {}
    <2>1. PICK x : x \in T
        OBVIOUS
    <2>2. x \in 1..n /\ n - x \in Nat /\ n - (n - x) = x
        BY <2>1
    <2> QED BY <2>1, <2>2
<1>2. PICK m \in U : \A l \in U : m <= l
    BY <1>1, NatHasLeast
<1>3. ASSUME NEW y \in T PROVE y <= n - m
    <2>1. y \in 1..n /\ n - y \in Nat /\ n - (n - y) = y
        OBVIOUS
    <2>2. m <= n - y
        BY <1>2, <2>1
    <2> QED BY <2>1, <2>2
<1> QED BY <1>2, <1>3
=============================================================================
