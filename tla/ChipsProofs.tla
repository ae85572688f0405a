---------------------------- MODULE ChipsProofs ----------------------------
(***************************************************************************)
(* What the arithmetic of Chips computes, for every input.  Induction is   *)
(* over sets: SetInduction replaces the induction theorems of the library, *)
(* which take the induction hypothesis as an operator.                     *)
(***************************************************************************)
EXTENDS Chips, Functions, FiniteSets, FiniteSetTheorems, WellFoundedInduction, TLAPS

(* Induction on the naturals, for a hypothesis given as a set. *)
LEMMA SetInduction ==
    ASSUME NEW S, 0 \in S, \A n \in Nat : n \in S => n + 1 \in S
    PROVE  \A n \in Nat : n \in S
<1> DEFINE T == Nat \ S
<1> SUFFICES ASSUME T # {} PROVE FALSE
  OBVIOUS
<1>1. \E x \in T : \A y \in T : ~ (<<y, x>> \in OpToRel(<, Nat))
  <2>1. T \subseteq Nat
    OBVIOUS
  <2>2. IsWellFoundedOn(OpToRel(<, Nat), Nat)
    BY NatLessThanWellFounded
  <2> HIDE DEF T
  <2> QED
    BY <2>1, <2>2, WFMin
<1>2. PICK x \in T : \A y \in T : ~ (y < x)
  BY <1>1 DEF OpToRel
<1>3. x # 0 /\ x - 1 \in Nat
  BY <1>2
<1>4. x - 1 \in S
  BY <1>2, <1>3
<1> QED
  BY <1>2, <1>3, <1>4

(* Induction along an interval of integers. *)
LEMMA RangeInduction ==
    ASSUME NEW lo \in Int, NEW hi \in Int, NEW S, lo - 1 \in S,
           \A i \in lo .. hi : i - 1 \in S => i \in S
    PROVE  \A i \in (lo - 1) .. hi : i \in S
<1> DEFINE T == {n \in Nat : lo - 1 + n <= hi => lo - 1 + n \in S}
<1>1. 0 \in T
  OBVIOUS
<1>2. ASSUME NEW n \in Nat, n \in T PROVE n + 1 \in T
  <2> SUFFICES ASSUME lo + n <= hi PROVE lo + n \in S
    OBVIOUS
  <2>1. lo + n \in lo .. hi /\ lo + n - 1 = lo - 1 + n
    OBVIOUS
  <2> QED
    BY <1>2, <2>1
<1>3. \A n \in Nat : n \in T
  <2> HIDE DEF T
  <2> QED
    BY <1>1, <1>2, SetInduction
<1> TAKE i \in (lo - 1) .. hi
<1>4. i - (lo - 1) \in Nat /\ lo - 1 + (i - (lo - 1)) = i /\ i <= hi
  OBVIOUS
<1>5. i - (lo - 1) \in T
  <2> HIDE DEF T
  <2> QED
    BY <1>3, <1>4
<1> QED
  BY <1>4, <1>5

(* The equation that defines the running sum inside Sum. *)
RunningSum(g, f, lo, hi) ==
    g = [i \in (lo - 1) .. hi |-> IF i < lo THEN 0 ELSE g[i - 1] + f[i]]

LEMMA RunningSumExists ==
    ASSUME NEW f, NEW lo \in Int, NEW hi \in Int, hi >= lo - 1
    PROVE  \E g : RunningSum(g, f, lo, hi)
<1> DEFINE S == {n \in Nat : \E g : RunningSum(g, f, lo, lo - 1 + n)}
<1>1. 0 \in S
  <2> DEFINE g == [i \in (lo - 1) .. (lo - 1) |-> 0]
  <2>1. g = [i \in (lo - 1) .. (lo - 1) |-> IF i < lo THEN 0 ELSE g[i - 1] + f[i]]
    OBVIOUS
  <2>2. RunningSum(g, f, lo, lo - 1 + 0)
    BY <2>1 DEF RunningSum
  <2> QED
    BY <2>2
<1>2. ASSUME NEW n \in Nat, n \in S PROVE n + 1 \in S
  <2>1. PICK g : RunningSum(g, f, lo, lo - 1 + n)
    BY <1>2
  <2> DEFINE h == [i \in (lo - 1) .. (lo + n) |->
                      IF i = lo + n THEN g[lo - 1 + n] + f[lo + n] ELSE g[i]]
  <2>2. ASSUME NEW i \in (lo - 1) .. (lo + n)
        PROVE  h[i] = IF i < lo THEN 0 ELSE h[i - 1] + f[i]
    <3>1. CASE i = lo + n
      BY <3>1
    <3>2. CASE i # lo + n
      <4>1. i \in (lo - 1) .. (lo - 1 + n)
        BY <3>2
      <4>2. g[i] = IF i < lo THEN 0 ELSE g[i - 1] + f[i]
        BY <2>1, <4>1 DEF RunningSum
      <4>3. CASE i < lo
        BY <3>2, <4>2, <4>3
      <4>4. CASE ~(i < lo)
        <5>1. h[i - 1] = g[i - 1]
          BY <4>1, <4>4
        <5> QED
          BY <3>2, <4>2, <4>4, <5>1
      <4> QED
        BY <4>3, <4>4
    <3> QED
      BY <3>1, <3>2
  <2>3. h = [i \in (lo - 1) .. (lo + n) |-> IF i < lo THEN 0 ELSE h[i - 1] + f[i]]
    <3> DEFINE k == [i \in (lo - 1) .. (lo + n) |-> IF i < lo THEN 0 ELSE h[i - 1] + f[i]]
    <3>1. \A i \in (lo - 1) .. (lo + n) : h[i] = k[i]
      <4> HIDE DEF h
      <4> QED
        BY <2>2
    <3>2. h = [i \in (lo - 1) .. (lo + n) |-> h[i]]
      OBVIOUS
    <3> HIDE DEF h
    <3>3. k = [i \in (lo - 1) .. (lo + n) |-> k[i]]
      OBVIOUS
    <3> QED
      BY <3>1, <3>2, <3>3
  <2>4. lo - 1 + (n + 1) = lo + n
    OBVIOUS
  <2>5. RunningSum(h, f, lo, lo - 1 + (n + 1))
    <3> HIDE DEF h
    <3> QED
      BY <2>3, <2>4 DEF RunningSum
  <2> HIDE DEF h
  <2> QED
    BY <2>5
<1>3. \A n \in Nat : n \in S
  <2> HIDE DEF S
  <2> QED
    BY <1>1, <1>2, SetInduction
<1>4. hi - lo + 1 \in Nat /\ lo - 1 + (hi - lo + 1) = hi
  OBVIOUS
<1>5. hi - lo + 1 \in S
  <2> HIDE DEF S
  <2> QED
    BY <1>3, <1>4
<1> QED
  BY <1>4, <1>5

LEMMA RunningSumUnique ==
    ASSUME NEW f, NEW lo \in Int, NEW g, NEW m \in Int, NEW h, NEW n \in Int,
           RunningSum(g, f, lo, m), RunningSum(h, f, lo, n), lo - 1 <= m, m <= n
    PROVE  \A i \in (lo - 1) .. m : g[i] = h[i]
<1> DEFINE S == {i \in (lo - 1) .. m : g[i] = h[i]}
<1>1. lo - 1 \in S
  BY DEF RunningSum
<1>2. ASSUME NEW i \in lo .. m, i - 1 \in S PROVE i \in S
  <2>1. g[i] = g[i - 1] + f[i]
    BY DEF RunningSum
  <2>2. h[i] = h[i - 1] + f[i]
    BY DEF RunningSum
  <2> QED
    BY <1>2, <2>1, <2>2
<1>3. \A i \in (lo - 1) .. m : i \in S
  <2> HIDE DEF S
  <2> QED
    BY <1>1, <1>2, RangeInduction
<1> QED
  BY <1>3

(* A sum over no index is zero. *)
LEMMA SumEmpty ==
    ASSUME NEW f, NEW lo \in Int, NEW hi \in Int, hi < lo
    PROVE  Sum(f, lo, hi) = 0
BY DEF Sum

LEMMA SumIsRunningSum ==
    ASSUME NEW f, NEW lo \in Int, NEW hi \in Int, hi >= lo
    PROVE  \E g : RunningSum(g, f, lo, hi) /\ Sum(f, lo, hi) = g[hi]
<1> DEFINE s == CHOOSE g : g = [i \in (lo - 1) .. hi |->
                                  IF i < lo THEN 0 ELSE g[i - 1] + f[i]]
<1>1. \E g : g = [i \in (lo - 1) .. hi |-> IF i < lo THEN 0 ELSE g[i - 1] + f[i]]
  <2>1. PICK g : RunningSum(g, f, lo, hi)
    BY hi >= lo - 1, RunningSumExists
  <2> QED
    BY <2>1 DEF RunningSum
<1>2. s = [i \in (lo - 1) .. hi |-> IF i < lo THEN 0 ELSE s[i - 1] + f[i]]
  BY <1>1
<1>3. Sum(f, lo, hi) = s[hi]
  BY DEF Sum
<1> HIDE DEF s
<1> QED
  BY <1>2, <1>3 DEF RunningSum

(* A sum is the sum without its last term, and the last term. *)
LEMMA SumStep ==
    ASSUME NEW f, NEW lo \in Int, NEW hi \in Int, hi >= lo
    PROVE  Sum(f, lo, hi) = Sum(f, lo, hi - 1) + f[hi]
<1>1. PICK g : RunningSum(g, f, lo, hi) /\ Sum(f, lo, hi) = g[hi]
  BY SumIsRunningSum
<1>2. g[hi] = g[hi - 1] + f[hi]
  BY <1>1 DEF RunningSum
<1>3. CASE hi = lo
  <2>1. g[hi - 1] = 0
    BY <1>1, <1>3 DEF RunningSum
  <2>2. Sum(f, lo, hi - 1) = 0
    BY <1>3, SumEmpty
  <2> QED
    BY <1>1, <1>2, <2>1, <2>2
<1>4. CASE hi > lo
  <2>1. hi - 1 \in Int /\ hi - 1 >= lo
    BY <1>4
  <2>2. PICK h : RunningSum(h, f, lo, hi - 1) /\ Sum(f, lo, hi - 1) = h[hi - 1]
    BY <2>1, SumIsRunningSum
  <2>3. h[hi - 1] = g[hi - 1]
    <3>1. \A i \in (lo - 1) .. (hi - 1) : h[i] = g[i]
      BY <1>1, <2>1, <2>2, lo - 1 <= hi - 1, hi - 1 <= hi, RunningSumUnique
    <3> QED
      BY <2>1, <3>1
  <2> QED
    BY <1>1, <1>2, <2>2, <2>3
<1> QED
  BY <1>3, <1>4

(* Equal terms have equal sums. *)
LEMMA SumEqual ==
    ASSUME NEW f, NEW g, NEW lo \in Int, NEW hi \in Int,
           \A i \in lo .. hi : f[i] = g[i]
    PROVE  Sum(f, lo, hi) = Sum(g, lo, hi)
<1> DEFINE S == {i \in (lo - 1) .. hi : Sum(f, lo, i) = Sum(g, lo, i)}
<1>1. CASE hi < lo
  BY <1>1, SumEmpty
<1>2. CASE hi >= lo
  <2>1. lo - 1 \in S
    BY <1>2, SumEmpty
  <2>2. ASSUME NEW i \in lo .. hi, i - 1 \in S PROVE i \in S
    BY <2>2, SumStep
  <2>3. \A i \in (lo - 1) .. hi : i \in S
    <3> HIDE DEF S
    <3> QED
      BY <2>1, <2>2, RangeInduction
  <2> QED
    BY <1>2, <2>3
<1> QED
  BY <1>1, <1>2

(* A sum of naturals is a natural. *)
LEMMA SumType ==
    ASSUME NEW f, NEW lo \in Int, NEW hi \in Int,
           \A i \in lo .. hi : f[i] \in Nat
    PROVE  Sum(f, lo, hi) \in Nat
<1> DEFINE S == {i \in (lo - 1) .. hi : Sum(f, lo, i) \in Nat}
<1>1. CASE hi < lo
  BY <1>1, SumEmpty
<1>2. CASE hi >= lo
  <2>1. lo - 1 \in S
    BY <1>2, SumEmpty
  <2>2. ASSUME NEW i \in lo .. hi, i - 1 \in S PROVE i \in S
    BY <2>2, SumStep
  <2>3. \A i \in (lo - 1) .. hi : i \in S
    <3> HIDE DEF S
    <3> QED
      BY <2>1, <2>2, RangeInduction
  <2> QED
    BY <1>2, <2>3
<1> QED
  BY <1>1, <1>2

(* A sum of integers is an integer. *)
LEMMA SumInt ==
    ASSUME NEW f, NEW lo \in Int, NEW hi \in Int,
           \A i \in lo .. hi : f[i] \in Int
    PROVE  Sum(f, lo, hi) \in Int
<1> DEFINE S == {i \in (lo - 1) .. hi : Sum(f, lo, i) \in Int}
<1>1. CASE hi < lo
  BY <1>1, SumEmpty
<1>2. CASE hi >= lo
  <2>1. lo - 1 \in S
    BY <1>2, SumEmpty
  <2>2. ASSUME NEW i \in lo .. hi, i - 1 \in S PROVE i \in S
    BY <2>2, SumStep
  <2>3. \A i \in (lo - 1) .. hi : i \in S
    <3> HIDE DEF S
    <3> QED
      BY <2>1, <2>2, RangeInduction
  <2> QED
    BY <1>2, <2>3
<1> QED
  BY <1>1, <1>2

(* Adding term by term adds the sums. *)
LEMMA SumAdd ==
    ASSUME NEW f, NEW g, NEW h, NEW lo \in Int, NEW hi \in Int,
           \A i \in lo .. hi : f[i] \in Int /\ g[i] \in Int /\ h[i] = f[i] + g[i]
    PROVE  Sum(h, lo, hi) = Sum(f, lo, hi) + Sum(g, lo, hi)
<1> DEFINE S == {i \in (lo - 1) .. hi :
                     Sum(h, lo, i) = Sum(f, lo, i) + Sum(g, lo, i)}
<1>1. CASE hi < lo
  BY <1>1, SumEmpty
<1>2. CASE hi >= lo
  <2>1. lo - 1 \in S
    BY <1>2, SumEmpty
  <2>2. ASSUME NEW i \in lo .. hi, i - 1 \in S PROVE i \in S
    <3>1. Sum(f, lo, i - 1) \in Int /\ Sum(g, lo, i - 1) \in Int
      BY SumInt
    <3> QED
      BY <2>2, <3>1, SumStep
  <2>3. \A i \in (lo - 1) .. hi : i \in S
    <3> HIDE DEF S
    <3> QED
      BY <2>1, <2>2, RangeInduction
  <2> QED
    BY <1>2, <2>3
<1> QED
  BY <1>1, <1>2

(* Smaller terms have a smaller sum. *)
LEMMA SumMonotone ==
    ASSUME NEW f, NEW g, NEW lo \in Int, NEW hi \in Int,
           \A i \in lo .. hi : f[i] \in Int /\ g[i] \in Int /\ f[i] <= g[i]
    PROVE  Sum(f, lo, hi) <= Sum(g, lo, hi)
<1> DEFINE S == {i \in (lo - 1) .. hi : Sum(f, lo, i) <= Sum(g, lo, i)}
<1>1. CASE hi < lo
  BY <1>1, SumEmpty
<1>2. CASE hi >= lo
  <2>1. lo - 1 \in S
    BY <1>2, SumEmpty
  <2>2. ASSUME NEW i \in lo .. hi, i - 1 \in S PROVE i \in S
    <3>1. Sum(f, lo, i - 1) \in Int /\ Sum(g, lo, i - 1) \in Int
      BY SumInt
    <3> QED
      BY <2>2, <3>1, SumStep
  <2>3. \A i \in (lo - 1) .. hi : i \in S
    <3> HIDE DEF S
    <3> QED
      BY <2>1, <2>2, RangeInduction
  <2> QED
    BY <1>2, <2>3
<1> QED
  BY <1>1, <1>2

(* A sum over an interval is the sum over its two parts. *)
LEMMA SumSplit ==
    ASSUME NEW f, NEW lo \in Int, NEW m \in Int, NEW hi \in Int,
           lo - 1 <= m, m <= hi, \A i \in lo .. hi : f[i] \in Int
    PROVE  Sum(f, lo, hi) = Sum(f, lo, m) + Sum(f, m + 1, hi)
<1> DEFINE S == {i \in m .. hi : Sum(f, lo, i) = Sum(f, lo, m) + Sum(f, m + 1, i)}
<1>1. (m + 1) - 1 = m /\ m + 1 \in Int /\ Sum(f, lo, m) \in Int
  <2>1. \A i \in lo .. m : f[i] \in Int
    OBVIOUS
  <2> QED
    BY <2>1, SumInt
<1>2. (m + 1) - 1 \in S
  BY <1>1, SumEmpty
<1>3. ASSUME NEW i \in m + 1 .. hi, i - 1 \in S PROVE i \in S
  <2>1. Sum(f, m + 1, i - 1) \in Int /\ f[i] \in Int
    BY <1>1, SumInt
  <2>2. Sum(f, lo, i) = Sum(f, lo, i - 1) + f[i]
    BY SumStep
  <2>3. Sum(f, m + 1, i) = Sum(f, m + 1, i - 1) + f[i]
    BY SumStep
  <2> QED
    BY <1>1, <1>3, <2>1, <2>2, <2>3
<1>4. \A i \in ((m + 1) - 1) .. hi : i \in S
  <2> HIDE DEF S
  <2> QED
    BY <1>1, <1>2, <1>3, RangeInduction
<1> QED
  BY <1>1, <1>4

(* A sum is its first term, and the sum of the others. *)
LEMMA SumFirst ==
    ASSUME NEW f, NEW lo \in Int, NEW hi \in Int, lo <= hi,
           \A i \in lo .. hi : f[i] \in Int
    PROVE  Sum(f, lo, hi) = f[lo] + Sum(f, lo + 1, hi)
<1>1. Sum(f, lo, hi) = Sum(f, lo, lo) + Sum(f, lo + 1, hi)
  BY SumSplit
<1>2. Sum(f, lo, lo) = Sum(f, lo, lo - 1) + f[lo] /\ Sum(f, lo, lo - 1) = 0
  BY SumStep, SumEmpty
<1>3. f[lo] \in Int
  OBVIOUS
<1> QED
  BY <1>1, <1>2, <1>3

(* The terms of g are those of f, d places on. *)
Renumbered(f, g, lo, hi, d) == \A i \in lo .. hi : g[i + d] = f[i]

(* Renumbering the terms keeps the sum. *)
LEMMA SumShift ==
    ASSUME NEW f, NEW g, NEW lo \in Int, NEW hi \in Int, NEW d \in Int,
           Renumbered(f, g, lo, hi, d), lo <= hi + 1
    PROVE  \A first, last \in Int :
               first = lo + d /\ last = hi + d => Sum(g, first, last) = Sum(f, lo, hi)
<1> DEFINE S == {i \in (lo - 1) .. hi : Sum(g, lo + d, i + d) = Sum(f, lo, i)}
<1>1. lo - 1 \in S
  BY SumEmpty
<1>2. ASSUME NEW i \in lo .. hi, i - 1 \in S PROVE i \in S
  <2>1. Sum(g, lo + d, i + d) = Sum(g, lo + d, (i + d) - 1) + g[i + d]
    BY SumStep
  <2>2. (i + d) - 1 = (i - 1) + d /\ g[i + d] = f[i]
    BY DEF Renumbered
  <2>3. Sum(f, lo, i) = Sum(f, lo, i - 1) + f[i]
    BY SumStep
  <2> QED
    BY <1>2, <2>1, <2>2, <2>3
<1>3. \A i \in (lo - 1) .. hi : i \in S
  <2> HIDE DEF S
  <2> QED
    BY <1>1, <1>2, RangeInduction
<1>4. hi \in (lo - 1) .. hi
  OBVIOUS
<1> QED
  BY <1>3, <1>4

(* The terms are c for the members of A and nothing for others. *)
PerMember(f, A, c, lo, hi) ==
    /\ lo \in Int /\ hi \in Int /\ lo <= hi + 1 /\ c \in Int
    /\ A \subseteq lo .. hi
    /\ \A i \in lo .. hi : f[i] = IF i \in A THEN c ELSE 0

(* Such a sum is c for each member. *)
LEMMA SumOfMembers ==
    ASSUME NEW f, NEW A, NEW c, NEW lo, NEW hi, PerMember(f, A, c, lo, hi)
    PROVE  /\ IsFiniteSet(A) /\ Cardinality(A) \in Nat
           /\ Sum(f, lo, hi) = c * Cardinality(A)
<1> USE DEF PerMember
<1> DEFINE upTo(i) == A \cap (lo .. i)
           S == {i \in (lo - 1) .. hi : Sum(f, lo, i) = c * Cardinality(upTo(i))}
<1>1. IsFiniteSet(A)
  BY FS_Interval, FS_Subset
<1>2. \A i \in Int : IsFiniteSet(upTo(i)) /\ Cardinality(upTo(i)) \in Nat
  BY <1>1, FS_Subset, FS_CardinalityType
<1>3. lo - 1 \in S
  <2>1. upTo(lo - 1) = {}
    OBVIOUS
  <2>2. Cardinality(upTo(lo - 1)) = 0
    BY <2>1, FS_EmptySet
  <2> HIDE DEF upTo
  <2> QED
    BY <2>2, SumEmpty
<1>4. ASSUME NEW i \in lo .. hi, i - 1 \in S PROVE i \in S
  <2>1. Sum(f, lo, i) = Sum(f, lo, i - 1) + f[i]
    BY SumStep
  <2>2. Sum(f, lo, i - 1) = c * Cardinality(upTo(i - 1))
    BY <1>4
  <2>3. CASE i \in A
    <3>1. upTo(i) = upTo(i - 1) \cup {i} /\ i \notin upTo(i - 1)
      BY <2>3
    <3>2. IsFiniteSet(upTo(i - 1)) /\ Cardinality(upTo(i - 1)) \in Nat
      BY <1>2
    <3> HIDE DEF upTo
    <3>3. Cardinality(upTo(i)) = Cardinality(upTo(i - 1)) + 1
      BY <3>1, <3>2, FS_AddElement
    <3>4. c * (Cardinality(upTo(i - 1)) + 1) = c * Cardinality(upTo(i - 1)) + c
      BY <3>2
    <3> QED
      BY <2>1, <2>2, <2>3, <3>3, <3>4
  <2>4. CASE i \notin A
    <3>1. upTo(i) = upTo(i - 1)
      <4>1. \A x \in A : x \in lo .. i => x \in lo .. (i - 1)
        BY <2>4
      <4>2. \A x \in lo .. (i - 1) : x \in lo .. i
        OBVIOUS
      <4> QED
        BY <4>1, <4>2
    <3>2. Cardinality(upTo(i - 1)) \in Nat
      BY <1>2, SMTT(40)
    <3> HIDE DEF upTo
    <3>3. c * Cardinality(upTo(i - 1)) \in Int
      BY <3>2
    <3> QED
      BY <2>1, <2>2, <2>4, <3>1, <3>3
  <2> QED
    BY <2>3, <2>4
<1>5. \A i \in (lo - 1) .. hi : i \in S
  <2> HIDE DEF S
  <2> QED
    BY <1>3, <1>4, RangeInduction
<1>6. Sum(f, lo, hi) = c * Cardinality(upTo(hi))
  <2>1. hi \in S
    <3> HIDE DEF S
    <3> QED
      BY <1>5
  <2> QED
    BY <2>1
<1>7. upTo(hi) = A
  OBVIOUS
<1> QED
  BY <1>1, <1>6, <1>7, FS_CardinalityType

(* Changing one term changes the sum as much. *)
LEMMA SumChange ==
    ASSUME NEW f, NEW g, NEW lo \in Int, NEW hi \in Int, NEW p \in lo .. hi,
           \A i \in lo .. hi : f[i] \in Int /\ (i # p => g[i] = f[i]),
           g[p] \in Int
    PROVE  Sum(g, lo, hi) = Sum(f, lo, hi) + (g[p] - f[p])
<1> DEFINE c == g[p] - f[p]
           d == [i \in lo .. hi |-> IF i \in {p} THEN c ELSE 0]
<1>1. c \in Int /\ p \in lo .. hi
  OBVIOUS
<1>2. Cardinality({p}) = 1
  BY FS_Singleton
<1>3. Sum(d, lo, hi) = c * Cardinality({p})
  <2>1. {p} \subseteq lo .. hi /\ \A i \in lo .. hi : d[i] = IF i \in {p} THEN c ELSE 0
    OBVIOUS
  <2>2. lo <= hi + 1
    OBVIOUS
  <2> HIDE DEF d, c
  <2>3. PerMember(d, {p}, c, lo, hi)
    BY <1>1, <2>1, <2>2 DEF PerMember
  <2> QED
    BY <2>3, SumOfMembers
<1>4. Sum(g, lo, hi) = Sum(f, lo, hi) + Sum(d, lo, hi)
  <2>1. \A i \in lo .. hi : f[i] \in Int /\ d[i] \in Int /\ g[i] = f[i] + d[i]
    OBVIOUS
  <2> HIDE DEF d
  <2> QED
    BY <2>1, SumAdd
<1> HIDE DEF c, d
<1>5. c * Cardinality({p}) = c
  BY <1>1, <1>2
<1> QED
  BY <1>3, <1>4, <1>5 DEF c

(* A table of m rows and columns lo .. hi: row[k] is the sum of its row    *)
(* a[k], and column[i] that of its column b[i].                            *)
Tabulated(a, b, row, column, m, lo, hi) ==
    /\ m \in Nat /\ lo \in Int /\ hi \in Int /\ lo <= hi + 1
    /\ \A k \in 1 .. m : \A i \in lo .. hi : a[k][i] \in Int /\ b[i][k] = a[k][i]
    /\ \A k \in 1 .. m : row[k] = Sum(a[k], lo, hi)
    /\ \A i \in lo .. hi : column[i] = Sum(b[i], 1, m)

(* Adding up a table by rows and by columns gives the same. *)
LEMMA SumByRowsAndColumns ==
    ASSUME NEW a, NEW b, NEW row, NEW column, NEW m, NEW lo, NEW hi,
           Tabulated(a, b, row, column, m, lo, hi)
    PROVE  Sum(row, 1, m) = Sum(column, lo, hi)
<1> USE DEF Tabulated
<1> DEFINE part(n) == [i \in lo .. hi |-> Sum(b[i], 1, n)]
           S == {n \in 0 .. m : Sum(row, 1, n) = Sum(part(n), lo, hi)}
<1>1. 1 - 1 \in S
  <2>1. \A i \in lo .. hi : part(0)[i] = IF i \in {} THEN 0 ELSE 0
    BY SumEmpty
  <2> HIDE DEF part
  <2>2. Sum(part(0), lo, hi) = 0 * Cardinality({}) /\ Cardinality({}) \in Nat
    <3>1. PerMember(part(0), {}, 0, lo, hi)
      BY <2>1 DEF PerMember
    <3> QED
      BY <3>1, SumOfMembers
  <2>3. Sum(part(0), lo, hi) = 0
    BY <2>2
  <2> QED
    BY <2>3, SumEmpty
<1>2. ASSUME NEW n \in 1 .. m, n - 1 \in S PROVE n \in S
  <2>1. Sum(row, 1, n) = Sum(row, 1, n - 1) + row[n]
    BY SumStep
  <2>2. ASSUME NEW i \in lo .. hi
        PROVE  /\ part(n - 1)[i] \in Int /\ a[n][i] \in Int
               /\ part(n)[i] = part(n - 1)[i] + a[n][i]
    <3>1. \A k \in 1 .. n - 1 : b[i][k] \in Int
      OBVIOUS
    <3>2. Sum(b[i], 1, n - 1) \in Int
      BY <3>1, SumInt
    <3>3. Sum(b[i], 1, n) = Sum(b[i], 1, n - 1) + b[i][n]
      BY SumStep
    <3> QED
      BY <3>2, <3>3
  <2> HIDE DEF part
  <2>3. Sum(part(n), lo, hi) = Sum(part(n - 1), lo, hi) + Sum(a[n], lo, hi)
    BY <2>2, SumAdd
  <2> QED
    BY <1>2, <2>1, <2>3
<1>3. \A n \in (1 - 1) .. m : n \in S
  <2>1. 1 \in Int /\ m \in Int
    OBVIOUS
  <2> HIDE DEF S
  <2> QED
    BY <1>1, <1>2, <2>1, RangeInduction
<1>4. Sum(row, 1, m) = Sum(part(m), lo, hi)
  <2>1. m \in (1 - 1) .. m
    OBVIOUS
  <2>2. m \in S
    <3> HIDE DEF S
    <3> QED
      BY <1>3, <2>1
  <2> QED
    BY <2>2
<1>5. Sum(part(m), lo, hi) = Sum(column, lo, hi)
  <2>1. \A i \in lo .. hi : part(m)[i] = column[i]
    OBVIOUS
  <2> HIDE DEF part
  <2> QED
    BY <2>1, SumEqual
<1> QED
  BY <1>4, <1>5

(* Quotient and remainder. *)
LEMMA Division ==
    ASSUME NEW a \in Nat, NEW b \in Nat, b > 0
    PROVE  \E q, r \in Nat : q = a \div b /\ r = a % b /\ a = q * b + r
<1> DEFINE q == a \div b
           r == a % b
<1>1. q \in Nat /\ r \in Nat
  OBVIOUS
<1>2. a = q * b + r
  <2>1. q = a \div b /\ r = a % b
    OBVIOUS
  <2> HIDE DEF q, r
  <2> QED
    BY <1>1, <2>1
<1> QED
  BY <1>1, <1>2
-----------------------------------------------------------------------------
(* Sums over finite sets: what SumFunctionOnSet of the community modules   *)
(* returns, in whatever order it takes the elements.                       *)

(* The equation that defines the function inside SumFunctionOnSet, and its *)
(* restriction to the subsets with at most n elements.                     *)
Chosen(s) == CHOOSE x \in s : TRUE

SumOf(g, f, s) == IF s = {} THEN 0 ELSE f[Chosen(s)] + g[s \ {Chosen(s)}]

SetSum(g, f, S) == g = [s \in SUBSET S |-> SumOf(g, f, s)]

UpTo(S, n) == {s \in SUBSET S : Cardinality(s) <= n}

SetSumUpTo(g, f, S, n) == g = [s \in UpTo(S, n) |-> SumOf(g, f, s)]

LEMMA ChosenFacts ==
    ASSUME NEW S, IsFiniteSet(S), NEW s \in SUBSET S
    PROVE  /\ IsFiniteSet(s) /\ Cardinality(s) \in Nat
           /\ Cardinality(s) = 0 <=> s = {}
           /\ s # {} => /\ Chosen(s) \in s
                        /\ s \ {Chosen(s)} \in SUBSET S
                        /\ Cardinality(s \ {Chosen(s)}) = Cardinality(s) - 1
<1>1. IsFiniteSet(s) /\ Cardinality(s) \in Nat
  BY FS_Subset, FS_CardinalityType
<1>2. Cardinality(s) = 0 <=> s = {}
  BY <1>1, FS_EmptySet
<1>3. s # {} => Chosen(s) \in s
  BY DEF Chosen
<1>4. s # {} => Cardinality(s \ {Chosen(s)}) = Cardinality(s) - 1
  BY <1>1, <1>3, FS_RemoveElement
<1> QED
  BY <1>1, <1>2, <1>3, <1>4

LEMMA SetSumExists ==
    ASSUME NEW f, NEW S, IsFiniteSet(S)
    PROVE  \E g : SetSum(g, f, S)
<1> DEFINE T == {n \in Nat : \E g : SetSumUpTo(g, f, S, n)}
<1>1. 0 \in T
  <2> DEFINE g == [s \in UpTo(S, 0) |-> 0]
  <2>1. ASSUME NEW s \in UpTo(S, 0) PROVE s = {}
    <3>1. s \in SUBSET S /\ Cardinality(s) <= 0
      BY DEF UpTo
    <3>2. Cardinality(s) \in Nat /\ (Cardinality(s) = 0 <=> s = {})
      BY <3>1, ChosenFacts
    <3>3. Cardinality(s) = 0
      BY <3>1, <3>2
    <3> QED
      BY <3>2, <3>3
  <2>2. \A s \in UpTo(S, 0) : SumOf(g, f, s) = 0
    BY <2>1 DEF SumOf
  <2>3. g = [s \in UpTo(S, 0) |-> SumOf(g, f, s)]
    <3> HIDE DEF g
    <3>1. g = [s \in UpTo(S, 0) |-> 0]
      BY DEF g
    <3> QED
      BY <2>2, <3>1
  <2> QED
    BY <2>3 DEF SetSumUpTo
<1>2. ASSUME NEW n \in Nat, n \in T PROVE n + 1 \in T
  <2>1. PICK g : SetSumUpTo(g, f, S, n)
    BY <1>2
  <2> DEFINE h == [s \in UpTo(S, n + 1) |-> SumOf(g, f, s)]
  <2>2. ASSUME NEW s \in UpTo(S, n) PROVE s \in UpTo(S, n + 1) /\ h[s] = g[s]
    <3>1. s \in SUBSET S /\ Cardinality(s) <= n
      BY DEF UpTo
    <3>2. Cardinality(s) \in Nat
      BY <3>1, ChosenFacts
    <3>3. s \in UpTo(S, n + 1)
      BY <3>1, <3>2 DEF UpTo
    <3> QED
      BY <2>1, <3>3 DEF SetSumUpTo
  <2>3. ASSUME NEW s \in UpTo(S, n + 1) PROVE h[s] = SumOf(h, f, s)
    <3>1. h[s] = SumOf(g, f, s)
      OBVIOUS
    <3> HIDE DEF h
    <3>2. CASE s = {}
      BY <3>1, <3>2 DEF SumOf
    <3>3. CASE s # {}
      <4>1. s \in SUBSET S /\ Cardinality(s) <= n + 1
        BY DEF UpTo
      <4>2. /\ Cardinality(s) \in Nat
            /\ s \ {Chosen(s)} \in SUBSET S
            /\ Cardinality(s \ {Chosen(s)}) = Cardinality(s) - 1
        BY <3>3, <4>1, ChosenFacts
      <4>3. s \ {Chosen(s)} \in UpTo(S, n)
        BY <4>1, <4>2 DEF UpTo
      <4> QED
        BY <2>2, <3>1, <3>3, <4>3 DEF SumOf
    <3> QED
      BY <3>2, <3>3
  <2>4. SetSumUpTo(h, f, S, n + 1)
    <3>1. h = [s \in UpTo(S, n + 1) |-> h[s]]
      OBVIOUS
    <3> HIDE DEF h
    <3>2. h = [s \in UpTo(S, n + 1) |-> SumOf(h, f, s)]
      BY <2>3, <3>1
    <3> QED
      BY <3>2 DEF SetSumUpTo
  <2> QED
    BY <2>4
<1>3. \A n \in Nat : n \in T
  <2> HIDE DEF T
  <2> QED
    BY <1>1, <1>2, SetInduction
<1>4. Cardinality(S) \in Nat /\ UpTo(S, Cardinality(S)) = SUBSET S
  <2>1. \A s \in SUBSET S : Cardinality(s) <= Cardinality(S)
    BY FS_Subset
  <2> QED
    BY <2>1, FS_CardinalityType DEF UpTo
<1>5. PICK g : SetSumUpTo(g, f, S, Cardinality(S))
  BY <1>3, <1>4
<1> QED
  BY <1>4, <1>5 DEF SetSumUpTo, SetSum

(* Functions that agree have the same sums. *)
LEMMA SetSumUnique ==
    ASSUME NEW f, NEW e, NEW S, NEW T, IsFiniteSet(S), IsFiniteSet(T), S \subseteq T,
           NEW g, NEW h, SetSum(g, f, S), SetSum(h, e, T), \A x \in S : f[x] = e[x]
    PROVE  \A s \in SUBSET S : g[s] = h[s]
<1> DEFINE A == {n \in Nat : \A s \in SUBSET S : Cardinality(s) = n => g[s] = h[s]}
<1>1. ASSUME NEW s \in SUBSET S PROVE g[s] = SumOf(g, f, s) /\ h[s] = SumOf(h, e, s)
  <2>1. s \in SUBSET T
    OBVIOUS
  <2> QED
    BY <2>1 DEF SetSum
<1>2. 0 \in A
  <2> SUFFICES ASSUME NEW s \in SUBSET S, Cardinality(s) = 0 PROVE g[s] = h[s]
    OBVIOUS
  <2>1. s = {}
    BY ChosenFacts
  <2> QED
    BY <1>1, <2>1 DEF SumOf
<1>3. ASSUME NEW n \in Nat, n \in A PROVE n + 1 \in A
  <2> SUFFICES ASSUME NEW s \in SUBSET S, Cardinality(s) = n + 1 PROVE g[s] = h[s]
    OBVIOUS
  <2>0. s # {}
    <3>1. Cardinality(s) # 0
      OBVIOUS
    <3> QED
      BY <3>1, ChosenFacts
  <2>1. s # {} /\ Chosen(s) \in S /\ s \ {Chosen(s)} \in SUBSET S
        /\ Cardinality(s \ {Chosen(s)}) = n
    <3>1. Cardinality(s \ {Chosen(s)}) = (n + 1) - 1
      BY <2>0, ChosenFacts
    <3> QED
      BY <2>0, <3>1, ChosenFacts
  <2>2. g[s \ {Chosen(s)}] = h[s \ {Chosen(s)}]
    BY <1>3, <2>1
  <2> QED
    BY <1>1, <2>1, <2>2 DEF SumOf
<1>4. \A n \in Nat : n \in A
  <2> HIDE DEF A
  <2> QED
    BY <1>2, <1>3, SetInduction
<1>5. \A s \in SUBSET S : Cardinality(s) \in Nat
  BY ChosenFacts
<1> QED
  BY <1>4, <1>5

LEMMA SumIsSetSum ==
    ASSUME NEW f, NEW S, IsFiniteSet(S)
    PROVE  \E g : SetSum(g, f, S) /\ SumFunctionOnSet(f, S) = g[S]
<1> DEFINE g == CHOOSE g : g = [s \in SUBSET S |->
                     IF s = {} THEN 0
                     ELSE f[CHOOSE x \in s : TRUE] + g[s \ {CHOOSE x \in s : TRUE}]]
<1>1. SumFunctionOnSet(f, S) = g[S]
  BY DEF SumFunctionOnSet, FoldFunctionOnSet, MapThenFoldSet
<1>2. \E h : h = [s \in SUBSET S |->
                     IF s = {} THEN 0
                     ELSE f[CHOOSE x \in s : TRUE] + h[s \ {CHOOSE x \in s : TRUE}]]
  <2>1. PICK h : SetSum(h, f, S)
    BY SetSumExists
  <2> QED
    BY <2>1 DEF SetSum, SumOf, Chosen
<1>3. g = [s \in SUBSET S |->
              IF s = {} THEN 0
              ELSE f[CHOOSE x \in s : TRUE] + g[s \ {CHOOSE x \in s : TRUE}]]
  BY <1>2
<1> HIDE DEF g
<1>4. SetSum(g, f, S)
  BY <1>3 DEF SetSum, SumOf, Chosen
<1> QED
  BY <1>1, <1>4

LEMMA SetSumInt ==
    ASSUME NEW f, NEW S, IsFiniteSet(S), \A x \in S : f[x] \in Int, NEW g, SetSum(g, f, S)
    PROVE  \A s \in SUBSET S : g[s] \in Int
<1> DEFINE A == {n \in Nat : \A s \in SUBSET S : Cardinality(s) = n => g[s] \in Int}
<1>1. ASSUME NEW s \in SUBSET S PROVE g[s] = SumOf(g, f, s)
  BY DEF SetSum
<1>2. 0 \in A
  <2> SUFFICES ASSUME NEW s \in SUBSET S, Cardinality(s) = 0 PROVE g[s] \in Int
    OBVIOUS
  <2>1. s = {}
    BY ChosenFacts
  <2>2. g[s] = 0
    BY <1>1, <2>1 DEF SumOf
  <2> QED
    BY <2>2
<1>3. ASSUME NEW n \in Nat, n \in A PROVE n + 1 \in A
  <2> SUFFICES ASSUME NEW s \in SUBSET S, Cardinality(s) = n + 1 PROVE g[s] \in Int
    OBVIOUS
  <2>1. s # {}
    <3>1. Cardinality(s) # 0
      OBVIOUS
    <3> QED
      BY <3>1, ChosenFacts
  <2>2. Chosen(s) \in S /\ s \ {Chosen(s)} \in SUBSET S /\ Cardinality(s \ {Chosen(s)}) = n
    <3>1. Cardinality(s \ {Chosen(s)}) = (n + 1) - 1
      BY <2>1, ChosenFacts
    <3> QED
      BY <2>1, <3>1, ChosenFacts
  <2>3. f[Chosen(s)] \in Int /\ g[s \ {Chosen(s)}] \in Int
    BY <1>3, <2>2
  <2> QED
    BY <1>1, <2>1, <2>3 DEF SumOf
<1>4. \A n \in Nat : n \in A
  <2> HIDE DEF A
  <2> QED
    BY <1>2, <1>3, SetInduction
<1>5. \A s \in SUBSET S : Cardinality(s) \in Nat
  BY ChosenFacts
<1> QED
  BY <1>4, <1>5

(* Any element can be taken out first, not only the one that is chosen. *)
LEMMA SetSumRemove ==
    ASSUME NEW f, NEW S, IsFiniteSet(S), \A x \in S : f[x] \in Int, NEW g, SetSum(g, f, S)
    PROVE  \A s \in SUBSET S : \A x \in s : g[s] = f[x] + g[s \ {x}]
<1> DEFINE A == {n \in Nat : \A s \in SUBSET S : Cardinality(s) = n =>
                    \A x \in s : g[s] = f[x] + g[s \ {x}]}
<1>1. ASSUME NEW s \in SUBSET S PROVE g[s] = SumOf(g, f, s) /\ g[s] \in Int
  BY SetSumInt DEF SetSum
<1>2. 0 \in A
  <2> SUFFICES ASSUME NEW s \in SUBSET S, Cardinality(s) = 0, NEW x \in s PROVE FALSE
    OBVIOUS
  <2> QED
    BY ChosenFacts
<1>3. ASSUME NEW n \in Nat, n \in A PROVE n + 1 \in A
  <2> SUFFICES ASSUME NEW s \in SUBSET S, Cardinality(s) = n + 1, NEW x \in s
               PROVE  g[s] = f[x] + g[s \ {x}]
    OBVIOUS
  <2> DEFINE c == Chosen(s)
  <2>1. s \ {c} \in SUBSET S /\ c \in s /\ Cardinality(s \ {c}) = n
    <3>1. Cardinality(s \ {c}) = (n + 1) - 1
      BY ChosenFacts
    <3> QED
      BY <3>1, ChosenFacts
  <2>2. g[s] = f[c] + g[s \ {c}]
    BY <1>1 DEF SumOf
  <2> HIDE DEF c
  <2>3. CASE x = c
    BY <2>2, <2>3
  <2>4. CASE x # c
    <3>1. g[s \ {c}] = f[x] + g[(s \ {c}) \ {x}]
      BY <1>3, <2>1, <2>4
    <3>2. s \ {x} \in SUBSET S /\ Cardinality(s \ {x}) = n
      <4>1. IsFiniteSet(s)
        BY ChosenFacts
      <4>2. Cardinality(s \ {x}) = (n + 1) - 1
        BY <4>1, FS_RemoveElement
      <4> QED
        BY <4>2
    <3>3. g[s \ {x}] = f[c] + g[(s \ {x}) \ {c}]
      BY <1>3, <2>1, <2>4, <3>2
    <3>4. (s \ {c}) \ {x} = (s \ {x}) \ {c} /\ (s \ {c}) \ {x} \in SUBSET S
      OBVIOUS
    <3>5. f[x] \in Int /\ f[c] \in Int /\ g[(s \ {c}) \ {x}] \in Int
      BY <1>1, <2>1, <3>4
    <3>6. g[s] = f[c] + (f[x] + g[(s \ {c}) \ {x}])
      BY <2>2, <3>1
    <3>7. f[x] + g[s \ {x}] = f[x] + (f[c] + g[(s \ {c}) \ {x}])
      BY <3>3, <3>4
    <3>8. \A i, j, k \in Int : i + (j + k) = j + (i + k)
      OBVIOUS
    <3> QED
      BY <3>5, <3>6, <3>7, <3>8, Zenon
  <2> QED
    BY <2>3, <2>4
<1>4. \A n \in Nat : n \in A
  <2> HIDE DEF A
  <2> QED
    BY <1>2, <1>3, SetInduction
<1>5. \A s \in SUBSET S : Cardinality(s) \in Nat
  BY ChosenFacts
<1> QED
  BY <1>4, <1>5

(* The sum over a subset is found in the function of the whole set. *)
LEMMA SumIsPart ==
    ASSUME NEW f, NEW S, IsFiniteSet(S), NEW g, SetSum(g, f, S), NEW s \in SUBSET S
    PROVE  SumFunctionOnSet(f, s) = g[s]
<1>1. IsFiniteSet(s)
  BY FS_Subset
<1>2. PICK h : SetSum(h, f, s) /\ SumFunctionOnSet(f, s) = h[s]
  BY <1>1, SumIsSetSum
<1>3. \A x \in SUBSET s : h[x] = g[x]
  BY <1>1, <1>2, SetSumUnique
<1> QED
  BY <1>2, <1>3

(* The laws of sums: of nothing, of numbers, of equal functions, without   *)
(* one element, with one more, with one that changed.                      *)
LEMMA SumOnEmpty == ASSUME NEW f PROVE SumFunctionOnSet(f, {}) = 0
<1>1. IsFiniteSet({})
  BY FS_EmptySet
<1>2. PICK g : SetSum(g, f, {}) /\ SumFunctionOnSet(f, {}) = g[{}]
  BY <1>1, SumIsSetSum
<1> QED
  BY <1>2 DEF SetSum, SumOf

LEMMA SumOnInt ==
    ASSUME NEW f, NEW S, IsFiniteSet(S), \A x \in S : f[x] \in Int
    PROVE  SumFunctionOnSet(f, S) \in Int
<1>1. PICK g : SetSum(g, f, S) /\ SumFunctionOnSet(f, S) = g[S]
  BY SumIsSetSum
<1> QED
  BY <1>1, SetSumInt

LEMMA SumOnEqual ==
    ASSUME NEW f, NEW e, NEW S, IsFiniteSet(S), \A x \in S : f[x] = e[x]
    PROVE  SumFunctionOnSet(f, S) = SumFunctionOnSet(e, S)
<1>1. PICK g : SetSum(g, f, S) /\ SumFunctionOnSet(f, S) = g[S]
  BY SumIsSetSum
<1>2. PICK h : SetSum(h, e, S) /\ SumFunctionOnSet(e, S) = h[S]
  BY SumIsSetSum
<1>3. \A s \in SUBSET S : g[s] = h[s]
  BY <1>1, <1>2, SetSumUnique
<1> QED
  BY <1>1, <1>2, <1>3

LEMMA SumOnRemove ==
    ASSUME NEW f, NEW S, IsFiniteSet(S), \A x \in S : f[x] \in Int, NEW y \in S
    PROVE  SumFunctionOnSet(f, S) = f[y] + SumFunctionOnSet(f, S \ {y})
<1>1. PICK g : SetSum(g, f, S) /\ SumFunctionOnSet(f, S) = g[S]
  BY SumIsSetSum
<1>2. SumFunctionOnSet(f, S \ {y}) = g[S \ {y}]
  <2>1. S \ {y} \in SUBSET S
    OBVIOUS
  <2> QED
    BY <1>1, <2>1, SumIsPart
<1>3. g[S] = f[y] + g[S \ {y}]
  BY <1>1, SetSumRemove
<1> QED
  BY <1>1, <1>2, <1>3

LEMMA SumOnAdd ==
    ASSUME NEW f, NEW S, IsFiniteSet(S), NEW y, y \notin S,
           \A x \in S \cup {y} : f[x] \in Int
    PROVE  SumFunctionOnSet(f, S \cup {y}) = SumFunctionOnSet(f, S) + f[y]
<1>1. IsFiniteSet(S \cup {y}) /\ (S \cup {y}) \ {y} = S
  BY FS_AddElement
<1>2. SumFunctionOnSet(f, S \cup {y}) = f[y] + SumFunctionOnSet(f, (S \cup {y}) \ {y})
  <2>1. y \in S \cup {y}
    OBVIOUS
  <2> QED
    BY <1>1, <2>1, SumOnRemove
<1>3. SumFunctionOnSet(f, S) \in Int /\ f[y] \in Int
  BY SumOnInt
<1>4. SumFunctionOnSet(f, S \cup {y}) = f[y] + SumFunctionOnSet(f, S)
  BY <1>1, <1>2
<1> QED
  BY <1>3, <1>4

LEMMA SumOnChange ==
    ASSUME NEW f, NEW e, NEW S, IsFiniteSet(S), NEW p \in S,
           \A x \in S : f[x] \in Int /\ e[x] \in Int, \A x \in S \ {p} : e[x] = f[x]
    PROVE  SumFunctionOnSet(e, S) = SumFunctionOnSet(f, S) - f[p] + e[p]
<1>1. IsFiniteSet(S \ {p})
  BY FS_RemoveElement
<1>2. SumFunctionOnSet(e, S \ {p}) = SumFunctionOnSet(f, S \ {p})
  BY <1>1, SumOnEqual
<1>3. /\ SumFunctionOnSet(f, S) = f[p] + SumFunctionOnSet(f, S \ {p})
      /\ SumFunctionOnSet(e, S) = e[p] + SumFunctionOnSet(e, S \ {p})
  BY SumOnRemove
<1>4. SumFunctionOnSet(f, S \ {p}) \in Int
  BY <1>1, SumOnInt
<1> QED
  BY <1>2, <1>3, <1>4

(* g is f with one more argument. *)
OneMore(f, g, S, y) ==
    /\ IsFiniteSet(S) /\ y \notin S
    /\ DOMAIN f = S /\ DOMAIN g = S \cup {y}
    /\ g[y] \in Int
    /\ \A x \in S : f[x] = g[x] /\ f[x] \in Int

LEMMA SumWithOneMore ==
    ASSUME NEW S, NEW y, NEW f, NEW g, OneMore(f, g, S, y)
    PROVE  SumFunction(g) = SumFunction(f) + g[y]
<1> USE DEF OneMore
<1>1. SumFunctionOnSet(g, S \cup {y}) = SumFunctionOnSet(g, S) + g[y]
  <2>1. \A x \in S \cup {y} : g[x] \in Int
    OBVIOUS
  <2> QED
    BY <2>1, SumOnAdd
<1>2. SumFunctionOnSet(f, S) = SumFunctionOnSet(g, S)
  BY SumOnEqual
<1> QED
  BY <1>1, <1>2 DEF SumFunction

(* The sum of one number, as often as there are elements. *)
LEMMA SumOnConstant ==
    ASSUME NEW f, NEW S, IsFiniteSet(S), NEW c \in Int, \A x \in S : f[x] = c
    PROVE  SumFunctionOnSet(f, S) = c * Cardinality(S)
<1> DEFINE A == {n \in Nat : \A s \in SUBSET S : Cardinality(s) = n =>
                    SumFunctionOnSet(f, s) = c * n}
<1>1. 0 \in A
  <2> SUFFICES ASSUME NEW s \in SUBSET S, Cardinality(s) = 0
               PROVE  SumFunctionOnSet(f, s) = c * 0
    OBVIOUS
  <2>1. s = {}
    BY ChosenFacts
  <2> QED
    BY <2>1, SumOnEmpty
<1>2. ASSUME NEW n \in Nat, n \in A PROVE n + 1 \in A
  <2> SUFFICES ASSUME NEW s \in SUBSET S, Cardinality(s) = n + 1
               PROVE  SumFunctionOnSet(f, s) = c * (n + 1)
    OBVIOUS
  <2>1. s # {}
    <3>1. Cardinality(s) # 0
      OBVIOUS
    <3> QED
      BY <3>1, ChosenFacts
  <2>2. /\ IsFiniteSet(s) /\ Chosen(s) \in s
        /\ s \ {Chosen(s)} \in SUBSET S
    BY <2>1, ChosenFacts
  <2>3. Cardinality(s \ {Chosen(s)}) = (n + 1) - 1
    BY <2>1, ChosenFacts
  <2>4. SumFunctionOnSet(f, s \ {Chosen(s)}) = c * n
    BY <1>2, <2>2, <2>3
  <2>5. SumFunctionOnSet(f, s) = f[Chosen(s)] + SumFunctionOnSet(f, s \ {Chosen(s)})
    <3>1. \A x \in s : f[x] \in Int
      OBVIOUS
    <3> QED
      BY <2>2, <3>1, SumOnRemove
  <2>6. f[Chosen(s)] = c
    BY <2>2
  <2>7. c * n \in Int /\ c * (n + 1) = c + c * n
    OBVIOUS
  <2> QED
    BY <2>4, <2>5, <2>6, <2>7
<1>3. \A n \in Nat : n \in A
  <2> HIDE DEF A
  <2> QED
    BY <1>1, <1>2, SetInduction
<1>4. Cardinality(S) \in A
  BY <1>3, FS_CardinalityType
<1> QED
  BY <1>4

(* e is f where each p of D has the difference of g[p] and h[p] at a place *)
(* of its own.                                                             *)
Matched(f, e, S, h, g, D, place) ==
    /\ IsFiniteSet(S) /\ IsFiniteSet(D)
    /\ \A s \in S : f[s] \in Int /\ e[s] \in Int
    /\ \A p \in D : h[p] \in Int /\ g[p] \in Int /\ place[p] \in S
    /\ \A p, q \in D : place[p] = place[q] => p = q
    /\ \A p \in D : e[place[p]] = f[place[p]] - h[p] + g[p]
    /\ \A s \in S : (\A p \in D : place[p] # s) => e[s] = f[s]

LEMMA SumOnMatched ==
    ASSUME NEW f, NEW e, NEW S, NEW h, NEW g, NEW D, NEW place, Matched(f, e, S, h, g, D, place)
    PROVE  SumFunctionOnSet(e, S)
              = SumFunctionOnSet(f, S) - SumFunctionOnSet(h, D) + SumFunctionOnSet(g, D)
<1> USE DEF Matched
<1> DEFINE mix(d) == [s \in S |-> IF \E p \in d : place[p] = s THEN e[s] ELSE f[s]]
           total(d) == SumFunctionOnSet(f, S) - SumFunctionOnSet(h, d) + SumFunctionOnSet(g, d)
           A == {n \in Nat : \A d \in SUBSET D : Cardinality(d) = n =>
                    SumFunctionOnSet(mix(d), S) = total(d)}
<1>1. SumFunctionOnSet(f, S) \in Int
  BY SumOnInt
<1>2. ASSUME NEW d \in SUBSET D
      PROVE  IsFiniteSet(d) /\ SumFunctionOnSet(h, d) \in Int /\ SumFunctionOnSet(g, d) \in Int
  <2>1. IsFiniteSet(d)
    BY ChosenFacts
  <2>2. \A p \in d : h[p] \in Int /\ g[p] \in Int
    OBVIOUS
  <2> QED
    BY <2>1, <2>2, SumOnInt
<1>3. 0 \in A
  <2> SUFFICES ASSUME NEW d \in SUBSET D, Cardinality(d) = 0
               PROVE  SumFunctionOnSet(mix(d), S) = total(d)
    OBVIOUS
  <2>1. d = {}
    BY ChosenFacts
  <2>2. \A s \in S : mix(d)[s] = f[s]
    BY <2>1
  <2>3. SumFunctionOnSet(mix(d), S) = SumFunctionOnSet(f, S)
    <3> HIDE DEF mix
    <3> QED
      BY <2>2, SumOnEqual
  <2>4. SumFunctionOnSet(h, d) = 0 /\ SumFunctionOnSet(g, d) = 0
    BY <2>1, SumOnEmpty
  <2> QED
    BY <1>1, <2>3, <2>4
<1>4. ASSUME NEW n \in Nat, n \in A PROVE n + 1 \in A
  <2> SUFFICES ASSUME NEW d \in SUBSET D, Cardinality(d) = n + 1
               PROVE  SumFunctionOnSet(mix(d), S) = total(d)
    OBVIOUS
  <2>1. d # {}
    <3>1. Cardinality(d) # 0
      OBVIOUS
    <3> QED
      BY <3>1, ChosenFacts
  <2> DEFINE p == Chosen(d)
             rest == d \ {p}
             at == place[p]
  <2>2. p \in d /\ p \in D /\ at \in S /\ rest \in SUBSET D
    BY <2>1, ChosenFacts
  <2>3. Cardinality(rest) = (n + 1) - 1
    BY <2>1, ChosenFacts
  <2> HIDE DEF p
  <2>4. SumFunctionOnSet(mix(rest), S) = total(rest)
    BY <1>4, <2>2, <2>3
  <2>5. mix(d)[at] = e[at] /\ mix(rest)[at] = f[at]
    BY <2>2
  <2>6. \A s \in S \ {at} : mix(d)[s] = mix(rest)[s]
    BY <2>2
  <2>7. \A s \in S : mix(d)[s] \in Int /\ mix(rest)[s] \in Int
    OBVIOUS
  <2>8. SumFunctionOnSet(mix(d), S) = SumFunctionOnSet(mix(rest), S) - f[at] + e[at]
    <3> DEFINE u == mix(d)
               v == mix(rest)
    <3>1. /\ at \in S /\ \A s \in S : v[s] \in Int /\ u[s] \in Int
          /\ \A s \in S \ {at} : u[s] = v[s]
      BY <2>2, <2>6, <2>7
    <3>2. u[at] = e[at] /\ v[at] = f[at]
      BY <2>5
    <3> HIDE DEF u, v, at
    <3>3. SumFunctionOnSet(u, S) = SumFunctionOnSet(v, S) - v[at] + u[at]
      BY <3>1, SumOnChange
    <3> QED
      BY <3>2, <3>3 DEF u, v
  <2>9. /\ SumFunctionOnSet(h, d) = h[p] + SumFunctionOnSet(h, rest)
        /\ SumFunctionOnSet(g, d) = g[p] + SumFunctionOnSet(g, rest)
    <3>1. IsFiniteSet(d) /\ \A x \in d : h[x] \in Int /\ g[x] \in Int
      BY <1>2
    <3> QED
      BY <2>2, <3>1, SumOnRemove
  <2>10. e[at] = f[at] - h[p] + g[p] /\ f[at] \in Int /\ h[p] \in Int /\ g[p] \in Int
    BY <2>2
  <2>11. SumFunctionOnSet(h, rest) \in Int /\ SumFunctionOnSet(g, rest) \in Int
    BY <1>2, <2>2
  <2> HIDE DEF mix, rest, at
  <2> QED
    BY <1>1, <2>4, <2>8, <2>9, <2>10, <2>11
<1>5. \A n \in Nat : n \in A
  <2> HIDE DEF A
  <2> QED
    BY <1>3, <1>4, SetInduction
<1>6. Cardinality(D) \in A /\ D \in SUBSET D
  BY <1>5, FS_CardinalityType
<1>7. SumFunctionOnSet(mix(D), S) = total(D)
  BY <1>6
<1>8. \A s \in S : mix(D)[s] = e[s]
  OBVIOUS
<1>9. SumFunctionOnSet(mix(D), S) = SumFunctionOnSet(e, S)
  <2> HIDE DEF mix
  <2> QED
    BY <1>8, SumOnEqual
<1> QED
  BY <1>7, <1>9
=============================================================================
