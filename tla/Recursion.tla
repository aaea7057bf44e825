------------------------------ MODULE Recursion ------------------------------
(***************************************************************************)
(* What the proofs about recursive functions share: least members of sets  *)
(* of numbers, induction over an interval as a statement about sets, the   *)
(* existence of a function defined by recursion on 0 .. n, and powers of   *)
(* two.  The recursion is a parameter: its start First(x) and its step     *)
(* Body(x, i, previous), for any parameter x.                              *)
(***************************************************************************)
EXTENDS Integers, FiniteSets, FiniteSetTheorems, WellFoundedInduction, TLAPS

CONSTANTS First(_), Body(_, _, _)

\* Every nonempty set of naturals has a least member.
LEMMA LeastMember ==
    ASSUME NEW T \in SUBSET Nat, T # {}
    PROVE  \E x \in T : \A y \in T : x <= y
<1> DEFINE R == OpToRel(<, Nat)
<1>1. IsWellFoundedOn(R, Nat)
  BY NatLessThanWellFounded
<1>2. \E x \in T : \A y \in T : ~ (<<y, x>> \in R)
  <2> HIDE DEF R
  <2> QED BY <1>1, WFMin
<1>3. \A x, y \in T : <<y, x>> \in R <=> y < x
  BY DEF OpToRel
<1> HIDE DEF R
<1>4. PICK x \in T : \A y \in T : ~ (<<y, x>> \in R)
  BY <1>2
<1>5. \A y \in T : ~ (y < x)
  BY <1>3, <1>4
<1>6. \A y \in T : x <= y
  BY <1>5
<1> QED BY <1>6

\* Upward induction over 0 .. n.
LEMMA IntervalInduction ==
    ASSUME NEW n \in Nat, NEW T, 0 \in T,
           \A k \in 0 .. n : k # n /\ k \in T => k + 1 \in T
    PROVE  \A k \in 0 .. n : k \in T
<1> DEFINE U == (0 .. n) \ T
<1>1. SUFFICES ASSUME U # {} PROVE FALSE
  OBVIOUS
<1>2. U \in SUBSET Nat
  OBVIOUS
<1>3. PICK x \in U : \A y \in U : x <= y
  <2> HIDE DEF U
  <2> QED BY <1>1, <1>2, LeastMember
<1>4. x # 0 /\ x - 1 \in 0 .. n /\ x - 1 # n
  OBVIOUS
<1>5. x - 1 \in T
  BY <1>3, <1>4
<1>6. (x - 1) + 1 = x
  OBVIOUS
<1> QED BY <1>4, <1>5, <1>6

\* Induction over all naturals.
LEMMA NaturalInduction ==
    ASSUME NEW T, 0 \in T, \A k \in Nat : k \in T => k + 1 \in T
    PROVE  \A k \in Nat : k \in T
<1> SUFFICES ASSUME NEW n \in Nat PROVE n \in T
  OBVIOUS
<1>1. \A k \in 0 .. n : k # n /\ k \in T => k + 1 \in T
  OBVIOUS
<1>2. \A k \in 0 .. n : k \in T
  BY <1>1, IntervalInduction
<1> QED BY <1>2

\* The greatest member of a nonempty subset of 0 .. n.
LEMMA GreatestMember ==
    ASSUME NEW n \in Nat, NEW T \in SUBSET (0 .. n), T # {}
    PROVE  \E x \in T : \A y \in T : y <= x
<1> DEFINE U == {n - y : y \in T}
<1>1. U \in SUBSET Nat /\ U # {}
  <2>1. \A y \in T : n - y \in Nat
    OBVIOUS
  <2>2. U # {}
    OBVIOUS
  <2> QED BY <2>1, <2>2
<1>2. PICK u \in U : \A v \in U : u <= v
  <2> HIDE DEF U
  <2> QED BY <1>1, LeastMember
<1>3. PICK x \in T : u = n - x
  OBVIOUS
<1>4. \A y \in T : n - x <= n - y
  BY <1>2, <1>3
<1>5. \A y \in T : y <= x
  BY <1>4
<1> QED BY <1>5

\* Induction over the subsets of a finite set.
LEMMA FiniteInduction ==
    ASSUME NEW D, IsFiniteSet(D), NEW T,
           \A s \in SUBSET D : (\A t \in SUBSET s : t # s => t \in T) => s \in T
    PROVE  \A s \in SUBSET D : s \in T
<1> DEFINE U == (SUBSET D) \ T
           Sizes == {Cardinality(s) : s \in U}
<1>1. SUFFICES ASSUME U # {} PROVE FALSE
  OBVIOUS
<1>2. \A s \in SUBSET D : IsFiniteSet(s) /\ Cardinality(s) \in Nat
  BY FS_Subset, FS_CardinalityType
<1>3. Sizes \in SUBSET Nat /\ Sizes # {}
  BY <1>1, <1>2
<1>4. PICK m \in Sizes : \A k \in Sizes : m <= k
  <2> HIDE DEF Sizes
  <2> QED BY <1>3, LeastMember
<1>5. PICK s \in U : Cardinality(s) = m
  OBVIOUS
<1>6. ASSUME NEW t \in SUBSET s, t # s PROVE t \in T
  <2>1. Cardinality(t) <= Cardinality(s) /\ Cardinality(t) # Cardinality(s)
    BY <1>2, <1>6, FS_Subset
  <2>2. t \in SUBSET D /\ Cardinality(t) \in Nat /\ Cardinality(s) \in Nat
    BY <1>2
  <2>3. t \in U => m <= Cardinality(t)
    BY <1>4
  <2> QED BY <1>5, <2>1, <2>2, <2>3
<1> QED BY <1>6

-----------------------------------------------------------------------------

\* g is the function defined by the recursion up to n.
IsRecursive(g, x, n) ==
    g = [i \in 0 .. n |-> IF i = 0 THEN First(x) ELSE Body(x, i, g[i - 1])]

LEMMA RecursionExtends ==
    ASSUME NEW x, NEW n \in Nat, NEW g, IsRecursive(g, x, n)
    PROVE  \E h : IsRecursive(h, x, n + 1)
<1> DEFINE h == [i \in 0 .. n + 1 |-> IF i <= n THEN g[i] ELSE Body(x, i, g[i - 1])]
<1>1. \A i \in 0 .. n + 1 : h[i] = IF i = 0 THEN First(x) ELSE Body(x, i, h[i - 1])
  BY DEF IsRecursive
<1>2. IsRecursive(h, x, n + 1)
  BY <1>1 DEF IsRecursive
<1> QED BY <1>2

\* A recursion on 0 .. n defines a function.
LEMMA RecursionExists ==
    ASSUME NEW x, NEW n \in Nat
    PROVE  \E g : g = [i \in 0 .. n |-> IF i = 0 THEN First(x) ELSE Body(x, i, g[i - 1])]
<1> DEFINE T == {k \in 0 .. n : \E g : IsRecursive(g, x, k)}
<1>1. 0 \in T
  <2> DEFINE g == [i \in 0 .. 0 |-> First(x)]
  <2>1. IsRecursive(g, x, 0)
    BY DEF IsRecursive
  <2> QED BY <2>1
<1>2. \A k \in 0 .. n : k # n /\ k \in T => k + 1 \in T
  BY RecursionExtends
<1>3. n \in T
  <2> HIDE DEF T
  <2> QED BY <1>1, <1>2, IntervalInduction
<1> QED BY <1>3 DEF IsRecursive

\* g is the function defined by the recursion on a family of sets.
IsSetRecursive(g, x, c, family) ==
    g = [s \in family |-> IF s = {} THEN First(x) ELSE Body(x, s, g[s \ {c[s]}])]

\* So does a recursion along the subsets of a finite set, by one element c[s] at a time.
LEMMA SetRecursionExists ==
    ASSUME NEW x, NEW D, IsFiniteSet(D), NEW c, \A s \in SUBSET D : s # {} => c[s] \in s
    PROVE  \E g : IsSetRecursive(g, x, c, SUBSET D)
<1> DEFINE n == Cardinality(D)
           Small(k) == {s \in SUBSET D : Cardinality(s) <= k}
           T == {k \in 0 .. n : \E g : IsSetRecursive(g, x, c, Small(k))}
<1>1. n \in Nat /\ \A s \in SUBSET D : IsFiniteSet(s) /\ Cardinality(s) \in 0 .. n
  BY FS_Subset, FS_CardinalityType
<1>2. Small(n) = SUBSET D /\ \A s \in Small(0) : s = {}
  BY <1>1, FS_EmptySet
<1>3. ASSUME NEW k \in 0 .. n
      PROVE  /\ Small(k) \subseteq Small(k + 1)
             /\ \A s \in Small(k + 1) : s # {} => s \ {c[s]} \in Small(k)
  <2>1. \A s \in SUBSET D : s # {} => Cardinality(s \ {c[s]}) = Cardinality(s) - 1
    BY <1>1, FS_RemoveElement
  <2> QED BY <1>1, <2>1
<1> HIDE DEF n, Small
<1>4. 0 \in T
  <2>1. IsSetRecursive([s \in Small(0) |-> First(x)], x, c, Small(0))
    BY <1>2 DEF IsSetRecursive
  <2> QED BY <1>1, <2>1
<1>5. ASSUME NEW k \in 0 .. n, k # n, k \in T PROVE k + 1 \in T
  <2>1. PICK g : IsSetRecursive(g, x, c, Small(k))
    BY <1>5
  <2> DEFINE h == [s \in Small(k + 1) |->
                     IF s = {} THEN First(x) ELSE Body(x, s, g[s \ {c[s]}])]
  <2>2. \A s \in Small(k) : g[s] = h[s]
    BY <1>3, <2>1 DEF IsSetRecursive
  <2>3. \A s \in Small(k + 1) :
          h[s] = IF s = {} THEN First(x) ELSE Body(x, s, h[s \ {c[s]}])
    BY <1>3, <2>2
  <2>4. IsSetRecursive(h, x, c, Small(k + 1))
    BY <2>3 DEF IsSetRecursive
  <2> HIDE DEF h
  <2> QED BY <1>1, <1>5, <2>4
<1>6. n \in T
  <2> HIDE DEF T
  <2> QED BY <1>1, <1>4, <1>5, IntervalInduction
<1>7. PICK g : IsSetRecursive(g, x, c, Small(n))
  BY <1>6
<1> QED BY <1>2, <1>7

-----------------------------------------------------------------------------

\* Twice as many subsets with one more element.
LEMMA PowersOfTwo ==
    ASSUME NEW n \in Nat
    PROVE  2 ^ n \in Nat \ {0} /\ 2 ^ (n + 1) = 2 * 2 ^ n /\ 2 ^ 0 = 1
<1> DEFINE A == 1 .. n
           B == 1 .. n + 1
           P == SUBSET A
           Q == {S \cup {n + 1} : S \in P}
<1>1. IsFiniteSet(A) /\ Cardinality(A) = n /\ IsFiniteSet(B) /\ Cardinality(B) = n + 1
  BY FS_Interval
<1>2. IsFiniteSet(P) /\ Cardinality(P) = 2 ^ n /\ Cardinality(P) \in Nat
  <2> HIDE DEF A
  <2> QED BY <1>1, FS_SUBSET, FS_CardinalityType
<1>3. Cardinality(SUBSET B) = 2 ^ (n + 1)
  <2> HIDE DEF B
  <2> QED BY <1>1, FS_SUBSET
<1>4. SUBSET B = P \cup Q
  <2>1. ASSUME NEW S \in SUBSET B PROVE S \in P \cup Q
    <3>1. CASE n + 1 \in S
      <4>1. S \ {n + 1} \in P
        OBVIOUS
      <4>2. S = (S \ {n + 1}) \cup {n + 1}
        BY <3>1
      <4> HIDE DEF P
      <4> QED BY <4>1, <4>2
    <3>2. CASE n + 1 \notin S
      BY <3>2
    <3> QED BY <3>1, <3>2
  <2>2. P \subseteq SUBSET B /\ Q \subseteq SUBSET B
    <3>1. A \subseteq B /\ n + 1 \in B
      OBVIOUS
    <3> HIDE DEF A, B
    <3> QED BY <3>1
  <2> HIDE DEF P, Q, B
  <2> QED BY <2>1, <2>2
<1>5. P \cap Q = {}
  OBVIOUS
<1>6. IsFiniteSet(Q) /\ Cardinality(Q) = Cardinality(P)
  <2> DEFINE f == [S \in P |-> S \cup {n + 1}]
  <2>1. f \in Bijection(P, Q)
    <3>1. f \in [P -> Q] /\ \A y \in Q : \E S \in P : f[S] = y
      OBVIOUS
    <3>2. ASSUME NEW S \in P, NEW S2 \in P, f[S] = f[S2] PROVE S = S2
      <4>1. S \cup {n + 1} = S2 \cup {n + 1} /\ n + 1 \notin S /\ n + 1 \notin S2
        BY <3>2
      <4> QED BY <4>1
    <3> HIDE DEF P, Q, f
    <3> QED BY <3>1, <3>2 DEF Bijection, Injection, Surjection, IsInjective
  <2> HIDE DEF P, Q, f
  <2> QED BY <1>2, <2>1, FS_Bijection DEF ExistsBijection
<1>7. Cardinality(P \cup Q) = Cardinality(P) + Cardinality(Q) - Cardinality(P \cap Q)
  <2> HIDE DEF P, Q
  <2> QED BY <1>2, <1>6, FS_Union
<1>8. Cardinality(P \cap Q) = 0
  BY <1>5, FS_EmptySet
<1>9. 2 ^ (n + 1) = 2 * 2 ^ n
  <2> DEFINE c == Cardinality(P)
  <2>1. Cardinality(SUBSET B) = c + c
    <3> HIDE DEF B, P, Q
    <3>1. Cardinality(SUBSET B) = Cardinality(P \cup Q)
      BY <1>4
    <3> QED BY <1>2, <1>6, <1>7, <1>8, <3>1
  <2>2. c \in Nat /\ c = 2 ^ n
    BY <1>2
  <2> HIDE DEF c, B
  <2>3. 2 ^ (n + 1) = c + c
    BY <1>3, <2>1
  <2>4. 2 * c = c + c
    BY <2>2
  <2> QED BY <2>2, <2>3, <2>4
<1>10. 2 ^ n # 0
  <2>1. Cardinality({{}}) <= Cardinality(P)
    <3>1. {{}} \subseteq P
      OBVIOUS
    <3> HIDE DEF P
    <3> QED BY <1>2, <3>1, FS_Subset
  <2>2. Cardinality({{}}) = 1
    BY FS_Singleton
  <2> QED BY <1>2, <2>1, <2>2
<1>11. 2 ^ 0 = 1
  OBVIOUS
<1> QED BY <1>2, <1>9, <1>10, <1>11
=============================================================================
