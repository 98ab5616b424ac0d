----------------------------- MODULE Induction ------------------------------
(***************************************************************************)
(* Induction over the numbers, for the proofs about recursive functions.   *)
(* It comes as facts about sets, each from the least number principle: a   *)
(* claim that fails somewhere fails at a least number.                     *)
(***************************************************************************)
EXTENDS Integers, WellFoundedInduction, TLAPS

\* A nonempty set of numbers has a least one.
LEMMA LeastNumber ==
  ASSUME NEW S \in SUBSET Nat, S # {}
  PROVE  \E m \in S : \A n \in S : m <= n
<1> DEFINE lt == OpToRel(<, Nat)
<1>1. \A n, m \in Nat : n < m => <<n, m>> \in lt
  BY DEF OpToRel
<1>2. IsWellFoundedOn(lt, Nat)
  BY NatLessThanWellFounded
<1> HIDE DEF lt
<1>3. PICK m \in S : \A n \in S : ~(<<n, m>> \in lt)
  BY <1>2, WFMin
<1>4. ASSUME NEW n \in S PROVE m <= n
  <2>1. n \in Nat /\ m \in Nat
    OBVIOUS
  <2>2. ~(n < m)
    BY <1>1, <1>3, <2>1
  <2> QED
    BY <2>1, <2>2
<1> QED
  BY <1>4

\* A set that has every number all of whose predecessors it has, has them all.
LEMMA StrongInduction ==
  ASSUME NEW S,
         \A n \in Nat : (\A m \in 0 .. n - 1 : m \in S) => n \in S
  PROVE  \A n \in Nat : n \in S
<1> DEFINE T == {n \in Nat : n \notin S}
<1>1. SUFFICES ASSUME T # {} PROVE FALSE
  OBVIOUS
<1>2. PICK n \in T : \A m \in T : n <= m
  BY <1>1, LeastNumber
<1>3. \A m \in 0 .. n - 1 : m \in S
  <2> SUFFICES ASSUME NEW m \in 0 .. n - 1, m \notin S PROVE FALSE
    OBVIOUS
  <2>1. m \in T /\ m < n
    OBVIOUS
  <2> QED
    BY <1>2, <2>1
<1> QED
  BY <1>3

\* So does one that has every number past some n, and every number all of whose
\* successors it has.
LEMMA InductionFromTheEnd ==
  ASSUME NEW S, NEW n \in Nat,
         \A i \in Nat : i > n => i \in S,
         \A i \in Nat : (\A j \in Nat : j > i => j \in S) => i \in S
  PROVE  \A i \in Nat : i \in S
<1> DEFINE T == {d \in Nat : \E i \in Nat : i \notin S /\ i + d = n}
<1>1. SUFFICES ASSUME NEW i \in Nat, i \notin S PROVE FALSE
  OBVIOUS
<1>2. n - i \in T
  <2>1. i <= n
    BY <1>1
  <2>2. n - i \in Nat /\ i + (n - i) = n
    BY <2>1
  <2> QED
    BY <1>1, <2>2
<1>3. PICK d \in T : \A e \in T : d <= e
  <2>1. T \in SUBSET Nat /\ T # {}
    BY <1>2
  <2> HIDE DEF T
  <2> QED
    BY <2>1, LeastNumber
<1>4. PICK k \in Nat : k \notin S /\ k + d = n
  BY <1>3
<1>5. ASSUME NEW j \in Nat, j > k PROVE j \in S
  <2>1. SUFFICES ASSUME j \notin S PROVE FALSE
    OBVIOUS
  <2>2. j <= n
    BY <2>1
  <2>3. n - j \in Nat /\ j + (n - j) = n /\ n - j < d
    BY <1>4, <1>5, <2>2
  <2>4. n - j \in T
    BY <2>1, <2>3
  <2> QED
    BY <1>3, <2>3, <2>4
<1> QED
  BY <1>4, <1>5

\* A nonempty set of numbers up to n has a greatest one.
LEMMA GreatestNumber ==
  ASSUME NEW n \in Nat, NEW S \in SUBSET (0 .. n), S # {}
  PROVE  \E m \in S : \A i \in S : i <= m
<1> DEFINE T == {n - i : i \in S}
<1>1. \A i \in S : i \in 0 .. n /\ n - i \in Nat
  OBVIOUS
<1>2. T \in SUBSET Nat /\ T # {}
  <2>1. \A d \in T : d \in Nat
    BY <1>1
  <2>2. PICK i \in S : TRUE
    OBVIOUS
  <2>3. n - i \in T
    OBVIOUS
  <2> QED
    BY <2>1, <2>3
<1>3. PICK d \in T : \A e \in T : d <= e
  <2> HIDE DEF T
  <2> QED
    BY <1>2, LeastNumber
<1>4. PICK m \in S : d = n - m
  BY <1>3
<1>5. ASSUME NEW i \in S PROVE i <= m
  <2>1. n - i \in T
    OBVIOUS
  <2>2. n - m <= n - i
    BY <1>3, <1>4, <2>1
  <2> QED
    BY <1>1, <2>2
<1> QED
  BY <1>5
=============================================================================
