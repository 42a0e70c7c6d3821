---------------------------- MODULE SetInduction ----------------------------
(***************************************************************************)
(* Induction over the natural numbers, stated of sets: what it is proved   *)
(* of is the set of the numbers that have the property.  The length of a   *)
(* list and the places of a string are such numbers, and the recursive     *)
(* functions of the models recurse on them.                                *)
(***************************************************************************)
EXTENDS Integers, WellFoundedInduction, TLAPS

LEMMA Smallest ==
    ASSUME NEW T \in SUBSET Nat, T # {}
    PROVE  \E n \in T : \A m \in T : n <= m
<1>1. \E x \in T : \A y \in T : ~(<<y, x>> \in OpToRel(<, Nat))
  BY NatLessThanWellFounded, WFMin
<1>2. PICK x \in T : \A y \in T : ~(<<y, x>> \in OpToRel(<, Nat))
  BY <1>1
<1>3. ASSUME NEW y \in T PROVE x <= y
  <2>1. <<y, x>> \in Nat \X Nat /\ ~(<<y, x>> \in OpToRel(<, Nat))
    BY <1>2
  <2>2. ~(y < x)
    BY <2>1 DEF OpToRel
  <2> QED BY <2>2
<1> QED BY <1>3

\* From a number up.
LEMMA Upwards ==
    ASSUME NEW T, 0 \in T, \A n \in Nat : n \in T => n + 1 \in T
    PROVE  \A n \in Nat : n \in T
<1> DEFINE U == Nat \ T
<1>1. SUFFICES ASSUME U # {} PROVE FALSE
  OBVIOUS
<1>2. PICK n \in U : \A m \in U : n <= m
  BY <1>1, Smallest
<1>3. n \in Nat /\ n # 0
  BY <1>2
<1>4. n - 1 \in Nat /\ n - 1 \notin U /\ n - 1 + 1 = n
  BY <1>2, <1>3
<1> QED BY <1>2, <1>4

\* The greatest number of a set that has an upper bound.
LEMMA Greatest ==
    ASSUME NEW T \in SUBSET Nat, T # {}, NEW b \in Nat, \A n \in T : n <= b
    PROVE  \E n \in T : \A m \in T : m <= n
<1> DEFINE U == {b - n : n \in T}
<1>1. U \in SUBSET Nat /\ U # {}
  <2>1. \A n \in T : b - n \in Nat /\ b - n \in U
    OBVIOUS
  <2>2. \A u \in U : \E n \in T : u = b - n
    OBVIOUS
  <2> QED BY <2>1, <2>2
<1>2. PICK k \in U : \A j \in U : k <= j
  BY <1>1, Smallest
<1>3. PICK n \in T : k = b - n
  OBVIOUS
<1>4. ASSUME NEW m \in T PROVE m <= n
  <2>1. b - n <= b - m
    BY <1>2, <1>3
  <2> QED BY <2>1
<1> QED BY <1>4

\* Down to 1, each number from all those above it.
LEMMA Downwards ==
    ASSUME NEW n \in Nat, NEW T, \A i \in 1 .. n : (\A j \in i + 1 .. n : j \in T) => i \in T
    PROVE  \A i \in 1 .. n : i \in T
<1> DEFINE U == {i \in 1 .. n : i \notin T}
<1>1. SUFFICES ASSUME U # {} PROVE FALSE
  OBVIOUS
<1>2. U \in SUBSET Nat /\ \A i \in U : i <= n
  OBVIOUS
<1> HIDE DEF U
<1>3. PICK i \in U : \A j \in U : j <= i
  BY <1>1, <1>2, Greatest
<1>4. i \in 1 .. n /\ i \notin T
  BY <1>3 DEF U
<1>5. \A j \in i + 1 .. n : j \in T
  <2> SUFFICES ASSUME NEW j \in i + 1 .. n, j \notin T PROVE FALSE
    OBVIOUS
  <2>1. j \in 1 .. n /\ ~(j <= i)
    BY <1>4
  <2>2. j \in U
    BY <2>1 DEF U
  <2> QED BY <1>3, <2>1, <2>2
<1> QED BY <1>4, <1>5
=============================================================================
