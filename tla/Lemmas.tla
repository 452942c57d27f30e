------------------------------- MODULE Lemmas -------------------------------
(***************************************************************************)
(* Facts about operators of the community modules that several proofs use. *)
(***************************************************************************)
EXTENDS Integers, FiniteSetsExt, FiniteSetTheorems, WellFoundedInduction, TLAPS

(* Min picks a member of a set of natural numbers that is not empty, and    *)
(* bounds the others.                                                       *)
LEMMA MinMember ==
  ASSUME NEW S \in SUBSET Nat, S # {}
  PROVE  Min(S) \in S /\ \A y \in S : Min(S) <= y
<1> DEFINE Less == {ss \in Nat \X Nat : ss[1] < ss[2]}
<1>1. IsWellFoundedOn(Less, Nat)
  BY NatLessThanWellFounded DEF OpToRel
<1> HIDE DEF Less
<1>2. PICK x \in S : \A y \in S : ~ (<<y, x>> \in Less)
  BY <1>1, WFMin
<1>3. ASSUME NEW y \in S PROVE x <= y
  <2>1. x \in Nat /\ y \in Nat
    OBVIOUS
  <2>2. y < x => <<y, x>> \in Less
    BY <2>1 DEF Less
  <2> QED
    BY <1>2, <2>1, <2>2
<1> QED
  BY <1>3 DEF Min

(* A finite set of natural numbers has a bound.                             *)
LEMMA FiniteBounded ==
  ASSUME NEW S \in SUBSET Nat, IsFiniteSet(S)
  PROVE  \E n \in Nat : \A s \in S : s <= n
<1>1. PICK n \in Nat : ExistsSurjection(1..n, S)
  BY FS_NatSurjection
<1>2. PICK f \in Surjection(1..n, S) : TRUE
  BY <1>1 DEF ExistsSurjection
<1>3. f \in [1..n -> S] /\ \A s \in S : \E i \in 1..n : f[i] = s
  BY <1>2 DEF Surjection
<1> DEFINE Bounded(k) == \E b \in Nat : \A i \in 1..k : f[i] <= b
           Bad == {k \in 0..n : ~Bounded(k)}
<1>4. Bounded(0)
  OBVIOUS
<1>5. ASSUME NEW k \in Nat, k + 1 \in 1..n, Bounded(k)
      PROVE  Bounded(k + 1)
  <2>1. PICK b \in Nat : \A i \in 1..k : f[i] <= b
    BY <1>5
  <2>2. PICK a \in Nat : a = f[k + 1]
    BY <1>3, <1>5
  <2>3. PICK d \in Nat : b <= d /\ a <= d
    <3>1. CASE a <= b
      BY <3>1
    <3>2. CASE b <= a
      BY <3>2
    <3> QED
      BY <3>1, <3>2
  <2>4. ASSUME NEW i \in 1..(k + 1) PROVE f[i] <= d
    <3>1. CASE i = k + 1
      BY <2>2, <2>3, <3>1
    <3>2. CASE i \in 1..k
      <4>1. i \in 1..n
        BY <1>5, <3>2
      <4>2. PICK e \in Nat : e = f[i]
        BY <1>3, <4>1
      <4>3. e <= b
        BY <2>1, <3>2, <4>2
      <4> QED
        BY <2>3, <4>2, <4>3
    <3> QED
      BY <3>1, <3>2
  <2> QED
    BY <2>4
<1> HIDE DEF Bounded
<1>6. Bounded(n)
  <2> SUFFICES ASSUME ~Bounded(n) PROVE FALSE
    OBVIOUS
  <2>1. n \in Bad /\ Bad \in SUBSET Nat
    OBVIOUS
  <2>2. PICK k \in Bad : \A x \in Bad : k <= x
    <3> HIDE DEF Bad
    <3> QED
      BY <2>1, MinMember
  <2>3. k \in 0..n /\ ~Bounded(k) /\ k # 0
    BY <1>4
  <2>4. k - 1 \in Nat /\ (k - 1) + 1 = k /\ k \in 1..n /\ k - 1 \in 0..n
    BY <2>3
  <2>5. k - 1 \notin Bad
    BY <2>2, <2>4
  <2>6. Bounded(k - 1)
    BY <2>4, <2>5
  <2>7. Bounded((k - 1) + 1)
    BY <1>5, <2>4, <2>6
  <2> QED
    BY <2>3, <2>4, <2>7
<1>7. PICK b \in Nat : \A i \in 1..n : f[i] <= b
  BY <1>6 DEF Bounded
<1> QED
  BY <1>3, <1>7

(* Max picks a member of a finite set of natural numbers and bounds it.     *)
LEMMA MaxBound ==
  ASSUME NEW S \in SUBSET Nat, IsFiniteSet(S), S # {}
  PROVE  Max(S) \in S /\ \A y \in S : y <= Max(S)
<1> DEFINE Bounds == {n \in Nat : \A s \in S : s <= n}
<1>1. PICK b \in Nat : b \in Bounds
  BY FiniteBounded
<1>2. Bounds \in SUBSET Nat
  OBVIOUS
<1>3. PICK m \in Bounds : \A n \in Bounds : m <= n
  <2> HIDE DEF Bounds
  <2> QED
    BY <1>1, <1>2, MinMember
<1>4. m \in S
  <2>1. SUFFICES ASSUME m \notin S PROVE FALSE
    OBVIOUS
  <2>2. ASSUME NEW s \in S PROVE s <= m - 1
    <3>1. s <= m /\ s # m /\ s \in Nat /\ m \in Nat
      BY <2>1
    <3> QED
      BY <3>1
  <2>3. m - 1 \in Bounds
    <3>1. PICK s \in S : TRUE
      OBVIOUS
    <3>2. m - 1 \in Nat
      BY <2>2, <3>1
    <3> QED
      BY <2>2, <3>2
  <2> QED
    BY <1>3, <2>3
<1>5. \A y \in S : m >= y
  BY <1>3
<1> QED
  BY <1>4, <1>5 DEF Max

(* The last of the numbers up to n that are in a set.                       *)
LEMMA MaxWithin ==
  ASSUME NEW n \in Nat, NEW S \in SUBSET (1..n), S # {}
  PROVE  /\ Max(S) \in S /\ \A y \in S : y <= Max(S)
         /\ n \in S => Max(S) = n
<1>1. IsFiniteSet(S) /\ S \in SUBSET Nat
  <2>1. IsFiniteSet(1..n)
    BY FS_Interval
  <2>2. S \subseteq 1..n /\ S \in SUBSET Nat
    OBVIOUS
  <2>3. IsFiniteSet(S)
    BY <2>1, <2>2, FS_Subset
  <2> QED
    BY <2>2, <2>3
<1> DEFINE m == Max(S)
<1>2. m \in S /\ \A y \in S : y <= m
  BY <1>1, MaxBound
<1> HIDE DEF m
<1>3. n \in S => m = n
  BY <1>2
<1> QED
  BY <1>2, <1>3 DEF m
=============================================================================
