------------------------ MODULE FieldReduction_proofs ------------------------
(***************************************************************************)
(* What the limb arithmetic computes, for every base, number of limbs and  *)
(* prime: comparing limbs compares the numbers they make, and subtracting  *)
(* limbs subtracts them as long as the difference is not negative.         *)
(***************************************************************************)
EXTENDS FieldReduction, TLAPS

Difference(x) == 0
DifferenceStep(x, i, previous) ==
    IF x[1][i] < x[2][i] \/ wrapping_sub(x[1], x[2], i) < previous THEN 1 ELSE 0

Horner(x) == 0
HornerStep(x, k, previous) == Base * previous + x[Limbs + 1 - k]

BorrowRecursion == INSTANCE Recursion WITH First <- Difference, Body <- DifferenceStep
ValueRecursion == INSTANCE Recursion WITH First <- Horner, Body <- HornerStep

LEMMA BaseAndLimbs ==
    Base \in Nat /\ Base >= 2 /\ Limbs \in Nat /\ Limbs >= 1 /\ Prime \in Number
BY ReductionAssumption

LEMMA DigitIsNumber ==
    ASSUME NEW a \in Number, NEW i \in Index
    PROVE  a[i] \in Int /\ 0 <= a[i] /\ a[i] <= Base - 1
BY BaseAndLimbs DEF Number, Digits, Index

-----------------------------------------------------------------------------
(* The recursive functions *)

\* The recursion of Value.
LEMMA TopDefinition ==
    ASSUME NEW a
    PROVE  /\ ValueOfTop(a)[0] = 0
           /\ \A k \in 1 .. Limbs :
                ValueOfTop(a)[k] = Base * ValueOfTop(a)[k - 1] + a[Limbs + 1 - k]
<1> DEFINE g == ValueOfTop(a)
<1>1. \E f : f = [k \in 0 .. Limbs |->
                    IF k = 0 THEN Horner(a) ELSE HornerStep(a, k, f[k - 1])]
  BY BaseAndLimbs, ValueRecursion!RecursionExists
<1>2. g = [k \in 0 .. Limbs |->
             IF k = 0 THEN 0 ELSE Base * g[k - 1] + a[Limbs + 1 - k]]
  BY <1>1 DEF ValueOfTop, Horner, HornerStep
<1> HIDE DEF g
<1>3. g[0] = 0 /\ \A k \in 1 .. Limbs : g[k] = Base * g[k - 1] + a[Limbs + 1 - k]
  <2>1. \A k \in 0 .. Limbs :
          g[k] = IF k = 0 THEN 0 ELSE Base * g[k - 1] + a[Limbs + 1 - k]
    BY <1>2, Zenon
  <2>2. 0 \in 0 .. Limbs /\ \A k \in 1 .. Limbs : k \in 0 .. Limbs /\ k # 0
    BY BaseAndLimbs
  <2> QED BY <2>1, <2>2, Zenon
<1> QED BY <1>3 DEF g

\* Every number of top limbs makes a natural.
LEMMA TopIsNatural ==
    ASSUME NEW a \in Number
    PROVE  \A k \in 0 .. Limbs : ValueOfTop(a)[k] \in Nat
<1> DEFINE T == {k \in 0 .. Limbs : ValueOfTop(a)[k] \in Nat}
<1>1. 0 \in T
  BY TopDefinition, BaseAndLimbs
<1>2. \A k \in 0 .. Limbs : k # Limbs /\ k \in T => k + 1 \in T
  <2> SUFFICES ASSUME NEW k \in 0 .. Limbs, k # Limbs, ValueOfTop(a)[k] \in Nat
               PROVE  ValueOfTop(a)[k + 1] \in Nat
    BY BaseAndLimbs
  <2>1. ValueOfTop(a)[k + 1] = Base * ValueOfTop(a)[k] + a[Limbs - k]
    BY TopDefinition, BaseAndLimbs
  <2>2. Limbs - k \in Index
    BY BaseAndLimbs DEF Index
  <2>3. a[Limbs - k] \in Nat
    BY <2>2, DigitIsNumber
  <2>4. Base * ValueOfTop(a)[k] \in Nat
    BY BaseAndLimbs
  <2> QED BY <2>1, <2>3, <2>4
<1>3. \A k \in 0 .. Limbs : k \in T
  <2> HIDE DEF T
  <2> QED BY <1>1, <1>2, BaseAndLimbs, ValueRecursion!IntervalInduction
<1> QED BY <1>3

LEMMA ValueIsNatural ==
    ASSUME NEW a \in Number
    PROVE  Value(a) \in Nat
BY TopIsNatural, BaseAndLimbs DEF Value

\* The recursion of the borrows, which are bits.
LEMMA BorrowDefinition ==
    ASSUME NEW a, NEW b
    PROVE  /\ borrows(a, b)[0] = 0
           /\ \A i \in Index :
                borrows(a, b)[i] = IF a[i] < b[i] \/ wrapping_sub(a, b, i) < borrows(a, b)[i - 1]
                                   THEN 1 ELSE 0
           /\ \A i \in 0 .. Limbs : borrows(a, b)[i] \in {0, 1}
<1> DEFINE g == borrows(a, b)
<1>1. \E f : f = [i \in 0 .. Limbs |-> IF i = 0 THEN Difference(<<a, b>>)
                                       ELSE DifferenceStep(<<a, b>>, i, f[i - 1])]
  BY BaseAndLimbs, BorrowRecursion!RecursionExists
<1>2. g = [i \in 0 .. Limbs |->
             IF i = 0 THEN 0
             ELSE IF a[i] < b[i] \/ wrapping_sub(a, b, i) < g[i - 1] THEN 1 ELSE 0]
  <2>1. \E f : f = [i \in 0 .. Limbs |->
             IF i = 0 THEN 0
             ELSE IF a[i] < b[i] \/ wrapping_sub(a, b, i) < f[i - 1] THEN 1 ELSE 0]
    BY <1>1 DEF Difference, DifferenceStep
  <2> QED BY <2>1 DEF borrows
<1> HIDE DEF g
<1>3. /\ g[0] = 0
      /\ \A i \in Index : g[i] = IF a[i] < b[i] \/ wrapping_sub(a, b, i) < g[i - 1]
                                 THEN 1 ELSE 0
  BY <1>2, BaseAndLimbs DEF Index
<1>4. \A i \in 0 .. Limbs : g[i] \in {0, 1}
  BY <1>2
<1> QED BY <1>3, <1>4 DEF g

-----------------------------------------------------------------------------
(* Subtraction *)

LEMMA ModOfDigit ==
    ASSUME NEW n \in Int
    PROVE  /\ 0 <= n /\ n <= Base - 1 => n % Base = n
           /\ n < 0 /\ -Base <= n => n % Base = n + Base
BY BaseAndLimbs

\* One limb: the two wrapped subtractions, and what they borrow.
LEMMA LimbDifference ==
    ASSUME NEW a \in Number, NEW b \in Number, NEW i \in Index
    PROVE  /\ limbs_sub(a, b)[i] \in Digits
           /\ limbs_sub(a, b)[i]
                = a[i] - b[i] - borrows(a, b)[i - 1] + Base * borrows(a, b)[i]
<1> DEFINE d == wrapping_sub(a, b, i)
           w == borrows(a, b)[i - 1]
           v == borrows(a, b)[i]
           c == limbs_sub(a, b)[i]
<1>1. /\ a[i] \in Int /\ 0 <= a[i] /\ a[i] <= Base - 1
      /\ b[i] \in Int /\ 0 <= b[i] /\ b[i] <= Base - 1
  BY DigitIsNumber
<1>2. w \in {0, 1}
  <2>1. i - 1 \in 0 .. Limbs
    BY BaseAndLimbs DEF Index
  <2> QED BY <2>1, BorrowDefinition
<1>3. v = IF a[i] < b[i] \/ d < w THEN 1 ELSE 0
  BY BorrowDefinition
<1>4. c = (d - w) % Base
  BY DEF limbs_sub
<1>5. d = IF a[i] < b[i] THEN a[i] - b[i] + Base ELSE a[i] - b[i]
  <2>1. a[i] - b[i] \in Int
    BY <1>1
  <2>2. CASE a[i] < b[i]
    BY <1>1, <2>1, <2>2, ModOfDigit, BaseAndLimbs DEF wrapping_sub
  <2>3. CASE ~ (a[i] < b[i])
    BY <1>1, <2>1, <2>3, ModOfDigit, BaseAndLimbs DEF wrapping_sub
  <2> QED BY <2>2, <2>3
<1>6. d \in Int /\ 0 <= d /\ d <= Base - 1 /\ (a[i] < b[i] => d >= 1)
  BY <1>1, <1>5, BaseAndLimbs
<1>7. c = IF d < w THEN d - w + Base ELSE d - w
  <2> HIDE DEF d, w, c
  <2>1. d - w \in Int
    BY <1>2, <1>6
  <2>2. CASE d < w
    BY <1>2, <1>4, <1>6, <2>1, <2>2, ModOfDigit, BaseAndLimbs
  <2>3. CASE ~ (d < w)
    BY <1>2, <1>4, <1>6, <2>1, <2>3, ModOfDigit, BaseAndLimbs
  <2> QED BY <2>2, <2>3
<1>8. c \in Int /\ 0 <= c /\ c <= Base - 1
  <2> HIDE DEF d, w, c
  <2> QED BY <1>2, <1>6, <1>7, BaseAndLimbs
<1>9. c = a[i] - b[i] - w + Base * v
  <2> HIDE DEF d, w, c, v
  <2>1. CASE v = 1
    <3>1. c = a[i] - b[i] - w + Base
      BY <1>1, <1>2, <1>3, <1>5, <1>6, <1>7, <2>1, BaseAndLimbs
    <3> QED BY <3>1, <2>1, BaseAndLimbs
  <2>2. CASE v = 0
    <3>1. c = a[i] - b[i] - w
      BY <1>1, <1>2, <1>3, <1>5, <1>6, <1>7, <2>2, BaseAndLimbs
    <3> QED BY <1>1, <1>2, <3>1, <2>2, BaseAndLimbs
  <2> QED BY <1>3, <2>1, <2>2
<1> QED BY <1>8, <1>9, BaseAndLimbs DEF Digits

LEMMA DifferenceIsNumber ==
    ASSUME NEW a \in Number, NEW b \in Number
    PROVE  limbs_sub(a, b) \in Number
<1>1. \A i \in Index : limbs_sub(a, b)[i] \in Digits
  BY LimbDifference
<1> QED BY <1>1 DEF limbs_sub, Number

\* Multiplication distributes over the differences below.
LEMMA Distribute ==
    ASSUME NEW x \in Int, NEW y \in Int, NEW z \in Int
    PROVE  Base * (x - y - z) = Base * x - Base * y - Base * z
BY BaseAndLimbs

\* Down to limb Limbs + 1 - k, the difference owes what the limbs below borrow.
LEMMA TopDifference ==
    ASSUME NEW a \in Number, NEW b \in Number, borrows(a, b)[Limbs] = 0
    PROVE  \A k \in 0 .. Limbs :
             ValueOfTop(limbs_sub(a, b))[k]
               = ValueOfTop(a)[k] - ValueOfTop(b)[k] - borrows(a, b)[Limbs - k]
<1> DEFINE c == limbs_sub(a, b)
           w == borrows(a, b)
           T == {k \in 0 .. Limbs :
                   ValueOfTop(c)[k] = ValueOfTop(a)[k] - ValueOfTop(b)[k] - w[Limbs - k]}
<1>1. 0 \in T
  BY TopDefinition, BaseAndLimbs
<1>2. \A k \in 0 .. Limbs : k # Limbs /\ k \in T => k + 1 \in T
  <2> SUFFICES ASSUME NEW k \in 0 .. Limbs, k # Limbs, k \in T
               PROVE  k + 1 \in T
    OBVIOUS
  <2> DEFINE i == Limbs - k
             va == ValueOfTop(a)[k]
             vb == ValueOfTop(b)[k]
             vc == ValueOfTop(c)[k]
             wi == w[i]
             wj == w[i - 1]
  <2>1. /\ k + 1 \in 0 .. Limbs /\ k + 1 \in 1 .. Limbs /\ i \in Index
        /\ i \in 0 .. Limbs /\ i - 1 \in 0 .. Limbs /\ (k + 1) - 1 = k
        /\ Limbs + 1 - (k + 1) = i /\ Limbs - (k + 1) = i - 1
    BY BaseAndLimbs DEF Index
  <2>2. vc = va - vb - wi
    OBVIOUS
  <2>3. /\ ValueOfTop(a)[k + 1] = Base * va + a[i]
        /\ ValueOfTop(b)[k + 1] = Base * vb + b[i]
        /\ ValueOfTop(c)[k + 1] = Base * vc + c[i]
    <3>1. \A n : ValueOfTop(n)[k + 1] = Base * ValueOfTop(n)[(k + 1) - 1] + n[Limbs + 1 - (k + 1)]
      BY <2>1, TopDefinition
    <3> QED BY <2>1, <3>1
  <2>4. c[i] = a[i] - b[i] - wj + Base * wi
    BY <2>1, LimbDifference
  <2>5. a[i] \in Int /\ b[i] \in Int /\ va \in Int /\ vb \in Int /\ wi \in Int /\ wj \in Int
    BY <2>1, DigitIsNumber, TopIsNatural, BorrowDefinition
  <2> HIDE DEF c, w, va, vb, vc, wi, wj, i
  <2>6. Base * vc = Base * va - Base * vb - Base * wi
    BY <2>2, <2>5, Distribute
  <2>7. ValueOfTop(c)[k + 1] = ValueOfTop(a)[k + 1] - ValueOfTop(b)[k + 1] - wj
    <3>1. Base * va \in Int /\ Base * vb \in Int /\ Base * wi \in Int
      BY <2>5, BaseAndLimbs
    <3> QED BY <2>3, <2>4, <2>5, <2>6, <3>1
  <2> QED BY <2>1, <2>7 DEF wj
<1>3. \A k \in 0 .. Limbs : k \in T
  <2> HIDE DEF T
  <2> QED BY <1>1, <1>2, BaseAndLimbs, ValueRecursion!IntervalInduction
<1> QED BY <1>3

\* A subtraction that borrows nothing in the end is exact.
LEMMA SubtractionIsExact ==
    ASSUME NEW a \in Number, NEW b \in Number, borrows(a, b)[Limbs] = 0
    PROVE  Value(limbs_sub(a, b)) = Value(a) - Value(b)
<1>1. Limbs \in 0 .. Limbs /\ Limbs - Limbs = 0 /\ borrows(a, b)[0] = 0
  BY BaseAndLimbs, BorrowDefinition
<1>2. ValueOfTop(limbs_sub(a, b))[Limbs] = ValueOfTop(a)[Limbs] - ValueOfTop(b)[Limbs] - 0
  BY <1>1, TopDifference
<1> QED BY <1>2, ValueIsNatural DEF Value

-----------------------------------------------------------------------------
(* Comparison *)

\* i is the most significant limb in which a and b differ, and a's is greater.
DecidedAt(a, b, i) == a[i] > b[i] /\ \A j \in Index : j > i => a[j] = b[j]

\* Different numbers differ in a most significant limb.
LEMMA SomeLimbDecides ==
    ASSUME NEW a \in Number, NEW b \in Number, a # b
    PROVE  \E i \in Index : DecidedAt(a, b, i) \/ DecidedAt(b, a, i)
<1> DEFINE T == {i \in Index : a[i] # b[i]}
<1>1. T # {}
  BY DEF Number
<1>2. T \in SUBSET (0 .. Limbs)
  BY BaseAndLimbs DEF Index
<1>3. PICK i \in T : \A j \in T : j <= i
  <2> HIDE DEF T
  <2> QED BY <1>1, <1>2, BaseAndLimbs, ValueRecursion!GreatestMember
<1>4. \A j \in Index : j > i => a[j] = b[j]
  BY <1>3, BaseAndLimbs DEF Index
<1>5. a[i] \in Int /\ b[i] \in Int /\ a[i] # b[i]
  BY <1>3, DigitIsNumber
<1>6. a[i] > b[i] \/ b[i] > a[i]
  BY <1>5
<1> QED BY <1>4, <1>6 DEF DecidedAt

LEMMA ComparisonCases ==
    ASSUME NEW a, NEW b
    PROVE  limbs_ge(a, b) <=> a = b \/ \E i \in Index : DecidedAt(a, b, i)
BY DEF limbs_ge, DecidedAt

\* From the deciding limb upwards nothing is borrowed.
LEMMA NoBorrowAbove ==
    ASSUME NEW a \in Number, NEW b \in Number, NEW i \in 0 .. Limbs,
           i = 0 \/ a[i] > b[i], \A j \in Index : j > i => a[j] = b[j]
    PROVE  borrows(a, b)[Limbs] = 0
<1> DEFINE w == borrows(a, b)
           T == {k \in 0 .. Limbs : k >= i => w[k] = 0}
<1>1. w[i] = 0
  <2>1. CASE i = 0
    BY <2>1, BorrowDefinition
  <2>2. CASE i # 0
    <3>1. i \in Index /\ i - 1 \in 0 .. Limbs
      BY <2>2, BaseAndLimbs DEF Index
    <3>2. a[i] \in Int /\ b[i] \in Int /\ a[i] - b[i] >= 1 /\ a[i] - b[i] <= Base - 1
      BY <2>2, <3>1, DigitIsNumber, BaseAndLimbs
    <3>3. wrapping_sub(a, b, i) >= 1 /\ wrapping_sub(a, b, i) \in Int
      BY <3>2, ModOfDigit DEF wrapping_sub
    <3>4. w[i - 1] \in {0, 1}
      BY <3>1, BorrowDefinition
    <3>5. ~ (a[i] < b[i] \/ wrapping_sub(a, b, i) < w[i - 1])
      BY <3>2, <3>3, <3>4
    <3> QED BY <3>1, <3>5, BorrowDefinition
  <2> QED BY <2>1, <2>2
<1>2. 0 \in T
  BY <1>1, BaseAndLimbs
<1>3. \A k \in 0 .. Limbs : k # Limbs /\ k \in T => k + 1 \in T
  <2> SUFFICES ASSUME NEW k \in 0 .. Limbs, k # Limbs, k >= i => w[k] = 0, k + 1 >= i
               PROVE  w[k + 1] = 0
    BY BaseAndLimbs
  <2>1. CASE k + 1 = i
    BY <1>1, <2>1
  <2>2. CASE k + 1 # i
    <3>1. k >= i /\ k + 1 > i /\ k + 1 \in Index /\ (k + 1) - 1 = k
      BY <2>2, BaseAndLimbs DEF Index
    <3>2. a[k + 1] = b[k + 1] /\ a[k + 1] \in Int
      BY <3>1, DigitIsNumber
    <3>3. wrapping_sub(a, b, k + 1) = 0
      <4>1. a[k + 1] - b[k + 1] = 0
        BY <3>2
      <4> QED BY <4>1, ModOfDigit, BaseAndLimbs DEF wrapping_sub
    <3>4. w[(k + 1) - 1] = 0
      BY <3>1
    <3>5. ~ (a[k + 1] < b[k + 1] \/ wrapping_sub(a, b, k + 1) < w[(k + 1) - 1])
      BY <3>2, <3>3, <3>4
    <3> QED BY <3>1, <3>5, BorrowDefinition
  <2> QED BY <2>1, <2>2
<1>4. \A k \in 0 .. Limbs : k \in T
  <2> HIDE DEF T
  <2> QED BY <1>2, <1>3, BaseAndLimbs, ValueRecursion!IntervalInduction
<1> QED BY <1>4, BaseAndLimbs

LEMMA NothingBorrowed ==
    ASSUME NEW a \in Number, NEW b \in Number, limbs_ge(a, b)
    PROVE  borrows(a, b)[Limbs] = 0
<1>1. CASE a = b
  <2>1. 0 \in 0 .. Limbs
    BY BaseAndLimbs
  <2> QED BY <1>1, <2>1, NoBorrowAbove
<1>2. CASE \E i \in Index : DecidedAt(a, b, i)
  <2>1. PICK i \in Index : DecidedAt(a, b, i)
    BY <1>2
  <2>2. i \in 0 .. Limbs
    BY BaseAndLimbs DEF Index
  <2> QED BY <2>1, <2>2, NoBorrowAbove DEF DecidedAt
<1> QED BY <1>1, <1>2, ComparisonCases

\* The deciding limb decides between the numbers.
LEMMA DecidedIsGreater ==
    ASSUME NEW a \in Number, NEW b \in Number, NEW i \in Index, DecidedAt(a, b, i)
    PROVE  Value(a) >= Value(b) + 1
<1> DEFINE va(k) == ValueOfTop(a)[k]
           vb(k) == ValueOfTop(b)[k]
           T == {k \in 0 .. Limbs : IF k < Limbs + 1 - i THEN va(k) = vb(k)
                                    ELSE va(k) >= vb(k) + 1}
<1>1. 0 \in T
  BY TopDefinition, BaseAndLimbs DEF Index
<1>2. \A k \in 0 .. Limbs : k # Limbs /\ k \in T => k + 1 \in T
  <2> SUFFICES ASSUME NEW k \in 0 .. Limbs, k # Limbs, k \in T
               PROVE  k + 1 \in T
    OBVIOUS
  <2> DEFINE j == Limbs - k
  <2>1. /\ k + 1 \in 0 .. Limbs /\ k + 1 \in 1 .. Limbs /\ j \in Index
        /\ (k + 1) - 1 = k /\ Limbs + 1 - (k + 1) = j
    BY BaseAndLimbs DEF Index
  <2>2. va(k + 1) = Base * va(k) + a[j] /\ vb(k + 1) = Base * vb(k) + b[j]
    <3>1. \A n : ValueOfTop(n)[k + 1] = Base * ValueOfTop(n)[(k + 1) - 1] + n[Limbs + 1 - (k + 1)]
      BY <2>1, TopDefinition
    <3> QED BY <2>1, <3>1
  <2>3. /\ a[j] \in Int /\ 0 <= a[j] /\ a[j] <= Base - 1
        /\ b[j] \in Int /\ 0 <= b[j] /\ b[j] <= Base - 1
    BY <2>1, DigitIsNumber
  <2>4. va(k) \in Nat /\ vb(k) \in Nat /\ va(k + 1) \in Nat /\ vb(k + 1) \in Nat
    BY <2>1, TopIsNatural
  <2>5. CASE k + 1 < Limbs + 1 - i
    <3>1. va(k) = vb(k) /\ a[j] = b[j]
      BY <2>1, <2>5, BaseAndLimbs DEF Index, DecidedAt
    <3> QED BY <2>1, <2>2, <2>5, <3>1
  <2>6. CASE k + 1 = Limbs + 1 - i
    <3>1. va(k) = vb(k) /\ j = i
      BY <2>6, BaseAndLimbs DEF Index
    <3>2. a[j] >= b[j] + 1
      BY <2>3, <3>1 DEF DecidedAt
    <3>3. Base * va(k) \in Int
      BY <2>4, BaseAndLimbs
    <3>4. va(k + 1) >= vb(k + 1) + 1
      <4> DEFINE p == Base * va(k)
      <4>1. va(k + 1) = p + a[j] /\ vb(k + 1) = p + b[j] /\ p \in Int
        BY <2>2, <3>1, <3>3
      <4> HIDE DEF p, va, vb, j
      <4> QED BY <4>1, <2>3, <3>2
    <3> QED BY <2>1, <2>6, <3>4
  <2>7. CASE k + 1 > Limbs + 1 - i
    <3>1. va(k) >= vb(k) + 1
      BY <2>7, BaseAndLimbs DEF Index
    <3>2. Base * va(k) >= Base * vb(k) + Base
      <4> DEFINE d == va(k) - vb(k) - 1
      <4>1. d \in Nat /\ va(k) = vb(k) + 1 + d
        BY <2>4, <3>1
      <4>2. Base * va(k) = Base * vb(k) + Base + Base * d
        <5> HIDE DEF d, va, vb
        <5> QED BY <2>4, <4>1, BaseAndLimbs
      <4>3. Base * d \in Nat /\ Base * vb(k) \in Nat
        <5> HIDE DEF d, va, vb
        <5> QED BY <2>4, <4>1, BaseAndLimbs
      <4> HIDE DEF d, va, vb
      <4> QED BY <4>2, <4>3, BaseAndLimbs
    <3>3. Base * va(k) \in Int /\ Base * vb(k) \in Int
      BY <2>4, BaseAndLimbs
    <3>4. va(k + 1) >= vb(k + 1) + 1
      <4> HIDE DEF va, vb, j
      <4> QED BY <2>2, <2>3, <3>2, <3>3, BaseAndLimbs
    <3> QED BY <2>1, <2>7, <3>4, BaseAndLimbs DEF Index
  <2> QED BY <2>5, <2>6, <2>7, BaseAndLimbs DEF Index
<1>3. \A k \in 0 .. Limbs : k \in T
  <2> HIDE DEF T
  <2> QED BY <1>1, <1>2, BaseAndLimbs, ValueRecursion!IntervalInduction
<1>4. Limbs \in T /\ ~ (Limbs < Limbs + 1 - i)
  BY <1>3, BaseAndLimbs DEF Index
<1> QED BY <1>4 DEF Value

\* Comparing limbs compares numbers.
LEMMA ComparisonIsExact ==
    ASSUME NEW a \in Number, NEW b \in Number
    PROVE  limbs_ge(a, b) <=> Value(a) >= Value(b)
<1>1. Value(a) \in Nat /\ Value(b) \in Nat
  BY ValueIsNatural
<1>2. CASE a = b
  BY <1>1, <1>2, ComparisonCases
<1>3. ASSUME NEW i \in Index, DecidedAt(a, b, i)
      PROVE  limbs_ge(a, b) /\ Value(a) >= Value(b)
  BY <1>1, <1>3, ComparisonCases, DecidedIsGreater
<1>4. ASSUME NEW i \in Index, DecidedAt(b, a, i)
      PROVE  ~ limbs_ge(a, b) /\ ~ (Value(a) >= Value(b))
  <2>1. Value(b) >= Value(a) + 1
    BY <1>4, DecidedIsGreater
  <2>2. a # b
    BY <1>1, <2>1
  <2>3. ASSUME NEW j \in Index, DecidedAt(a, b, j) PROVE FALSE
    BY <1>1, <2>1, <2>3, DecidedIsGreater
  <2> QED BY <1>1, <2>1, <2>2, <2>3, ComparisonCases
<1> QED BY <1>2, <1>3, <1>4, SomeLimbDecides

\* The limbs of a number are determined by its value.
LEMMA ValueDeterminesLimbs ==
    ASSUME NEW a \in Number, NEW b \in Number, Value(a) = Value(b)
    PROVE  a = b
<1>1. Value(a) \in Nat /\ Value(b) \in Nat
  BY ValueIsNatural
<1>2. SUFFICES ASSUME a # b PROVE FALSE
  OBVIOUS
<1>3. PICK i \in Index : DecidedAt(a, b, i) \/ DecidedAt(b, a, i)
  BY <1>2, SomeLimbDecides
<1> QED BY <1>1, <1>3, DecidedIsGreater

-----------------------------------------------------------------------------
(* The loop *)

LEMMA PrimeIsPositive == Value(Prime) \in Nat \ {0}
<1> DEFINE zero == [i \in Index |-> 0]
<1>1. zero \in Number /\ Prime \in Number /\ zero # Prime
  BY ReductionAssumption, BaseAndLimbs DEF Number, Digits
<1>2. \A i \in Index : ~ DecidedAt(zero, Prime, i)
  <2>1. \A i \in Index : zero[i] = 0 /\ Prime[i] \in Nat
    BY <1>1, DigitIsNumber
  <2> HIDE DEF zero
  <2> QED BY <2>1 DEF DecidedAt
<1> HIDE DEF zero
<1>3. PICK i \in Index : DecidedAt(Prime, zero, i)
  BY <1>1, <1>2, SomeLimbDecides
<1>4. Value(Prime) >= Value(zero) + 1
  BY <1>1, <1>3, DecidedIsGreater
<1> QED BY <1>1, <1>4, ValueIsNatural

\* The comparison of the loop is the comparison of the numbers.
LEMMA LoopComparesNumbers ==
    ASSUME TypeOK
    PROVE  StopsBelowThePrime
BY BaseAndLimbs, ComparisonIsExact DEF TypeOK, StopsBelowThePrime

\* An iteration keeps the limbs in range and subtracts the prime once.
LEMMA IterationIsExact ==
    ASSUME TypeOK, ReductionIsExact, reduce_mod_prime
    PROVE  TypeOK' /\ ReductionIsExact'
<1>1. /\ input \in Number /\ limbs \in Number /\ subtractions \in Nat /\ Prime \in Number
      /\ input' = input /\ limbs' = limbs_sub(limbs, Prime)
      /\ subtractions' = subtractions + 1
  BY BaseAndLimbs DEF TypeOK, reduce_mod_prime
<1>2. limbs' \in Number
  BY <1>1, DifferenceIsNumber
<1>3. Value(limbs_sub(limbs, Prime)) = Value(limbs) - Value(Prime)
  BY <1>1, NothingBorrowed, SubtractionIsExact DEF reduce_mod_prime
<1>4. Value(limbs) \in Nat /\ Value(Prime) \in Nat /\ Value(input) \in Nat
  BY <1>1, ValueIsNatural
<1>5. Value(input) = Value(limbs) + subtractions * Value(Prime)
  BY DEF ReductionIsExact
<1>6. Value(input) = (Value(limbs) - Value(Prime)) + (subtractions + 1) * Value(Prime)
  <2> DEFINE p == Value(Prime)
             l == Value(limbs)
  <2>1. (subtractions + 1) * p = subtractions * p + p /\ subtractions * p \in Int
    <3> HIDE DEF p
    <3> QED BY <1>1, <1>4 DEF p
  <2> HIDE DEF p, l
  <2>2. l + subtractions * p = (l - p) + (subtractions + 1) * p
    BY <1>4, <2>1 DEF p, l
  <2> QED BY <1>5, <2>2 DEF p, l
<1>7. Value(input') = Value(limbs') + subtractions' * Value(Prime)
  BY <1>1, <1>3, <1>6
<1> QED BY <1>1, <1>2, <1>7 DEF TypeOK, ReductionIsExact, Value, ValueOfTop

LEMMA Remainder ==
    ASSUME NEW n \in Int, NEW p \in Nat \ {0}, NEW q \in Int, NEW r \in 0 .. p - 1, n = r + q * p
    PROVE  n % p = r
OBVIOUS

\* Where the loop ends, the limbs hold the residue of the input.
LEMMA LoopEndsInTheResidue ==
    ASSUME TypeOK, ReductionIsExact, ~ limbs_ge(limbs, Prime)
    PROVE  Value(limbs) = Value(input) % Value(Prime)
<1>1. /\ Value(limbs) \in Nat /\ Value(input) \in Nat /\ subtractions \in Nat
      /\ Value(Prime) \in Nat \ {0}
  BY ValueIsNatural, PrimeIsPositive DEF TypeOK
<1>2. ~ (Value(limbs) >= Value(Prime))
  BY LoopComparesNumbers DEF StopsBelowThePrime
<1>3. Value(input) = Value(limbs) + subtractions * Value(Prime)
  BY DEF ReductionIsExact
<1>4. Value(limbs) \in 0 .. Value(Prime) - 1
  BY <1>1, <1>2
<1> QED BY <1>1, <1>3, <1>4, Remainder
=============================================================================
