------------------------- MODULE SparseMerkle_proofs -------------------------
(***************************************************************************)
(* What the shortcuts of the sparse tree preserve and what its root says,  *)
(* for every depth and every set of leaves.  The lemmas are about a state  *)
(* in which TypeOK holds; Eligibility_proofs uses them for the tree that   *)
(* the specification builds.                                               *)
(***************************************************************************)
EXTENDS SparseMerkle, SequenceTheorems, TLAPS

EmptyStart(x) == ZERO
EmptyStep(x, height, previous) == hash_pair(previous, previous)

RowStart(x) ==
    [i \in Nat |-> IF leaf_offset(i) \in DOMAIN nodes
                   THEN nodes[leaf_offset(i)] ELSE Default(Depth)]
RowStep(x, height, previous) ==
    [i \in Nat |-> IF ~subtree_has_leaf(Depth - height, i) THEN Default(Depth - height)
                   ELSE hash_pair(previous[2 * i], previous[2 * i + 1])]

FullStart(leaves) == leaves
FullStep(leaves, height, previous) ==
    [i \in Nat |-> hash_pair(previous[2 * i], previous[2 * i + 1])]

\* x is the leaf, the siblings and the index.
InclusionStart(x) == x[1]
InclusionStep(x, step, previous) ==
    IF (x[3] \div 2 ^ (step - 1)) % 2 = 0
    THEN hash_pair(previous, x[2][step])
    ELSE hash_pair(x[2][step], previous)

EmptyRecursion == INSTANCE Recursion WITH First <- EmptyStart, Body <- EmptyStep
RowRecursion == INSTANCE Recursion WITH First <- RowStart, Body <- RowStep
FullRecursion == INSTANCE Recursion WITH First <- FullStart, Body <- FullStep
InclusionRecursion == INSTANCE Recursion WITH First <- InclusionStart, Body <- InclusionStep

-----------------------------------------------------------------------------
(* The recursive functions *)

\* The default hashes: a pair of two of one height less.
LEMMA EmptyHashes ==
    ASSUME Depth \in Nat
    PROVE  /\ EmptyHash[0] = ZERO
           /\ \A h \in 1 .. Depth : EmptyHash[h] = <<EmptyHash[h - 1], EmptyHash[h - 1]>>
           /\ \A h \in 0 .. Depth : Default(Depth - h) = EmptyHash[h]
<1>1. \E f : f = [h \in 0 .. Depth |->
                    IF h = 0 THEN EmptyStart(0) ELSE EmptyStep(0, h, f[h - 1])]
  BY EmptyRecursion!RecursionExists
<1>2. EmptyHash = [h \in 0 .. Depth |->
                     IF h = 0 THEN ZERO ELSE hash_pair(EmptyHash[h - 1], EmptyHash[h - 1])]
  BY <1>1 DEF EmptyHash, EmptyStart, EmptyStep
<1>3. \A h \in 0 .. Depth :
        EmptyHash[h] = IF h = 0 THEN ZERO ELSE <<EmptyHash[h - 1], EmptyHash[h - 1]>>
  BY <1>2, Zenon DEF hash_pair
<1>4. 0 \in 0 .. Depth /\ \A h \in 1 .. Depth : h \in 0 .. Depth /\ h # 0
  OBVIOUS
<1>5. ASSUME NEW h \in 0 .. Depth PROVE Default(Depth - h) = EmptyHash[h]
  <2>1. Depth - h + 1 \in 1 .. Depth + 1 /\ Depth + 1 - (Depth - h + 1) = h
    OBVIOUS
  <2>2. compute_default_hashes[Depth - h + 1] = EmptyHash[Depth + 1 - (Depth - h + 1)]
    BY <2>1 DEF compute_default_hashes
  <2> QED BY <2>1, <2>2 DEF Default
<1> QED BY <1>3, <1>4, <1>5, Zenon

\* The rows that the shortcuts give.
LEMMA RowsDefinition ==
    ASSUME Depth \in Nat
    PROVE  /\ \A i \in Nat :
                rows[0][i] = IF leaf_offset(i) \in DOMAIN nodes
                             THEN nodes[leaf_offset(i)] ELSE Default(Depth)
           /\ \A h \in 1 .. Depth : \A i \in Nat :
                rows[h][i] = IF ~subtree_has_leaf(Depth - h, i) THEN Default(Depth - h)
                             ELSE <<rows[h - 1][2 * i], rows[h - 1][2 * i + 1]>>
<1>1. \E f : f = [h \in 0 .. Depth |->
                    IF h = 0 THEN RowStart(0) ELSE RowStep(0, h, f[h - 1])]
  BY RowRecursion!RecursionExists
<1>2. rows = [h \in 0 .. Depth |->
                IF h = 0 THEN RowStart(0) ELSE RowStep(0, h, rows[h - 1])]
  BY <1>1 DEF rows, RowStart, RowStep
<1>3. \A h \in 0 .. Depth :
        rows[h] = IF h = 0 THEN RowStart(0) ELSE RowStep(0, h, rows[h - 1])
  BY <1>2, Zenon
<1>4. 0 \in 0 .. Depth /\ \A h \in 1 .. Depth : h \in 0 .. Depth /\ h # 0
  OBVIOUS
<1>5. rows[0] = RowStart(0) /\ \A h \in 1 .. Depth : rows[h] = RowStep(0, h, rows[h - 1])
  BY <1>3, <1>4, Zenon
<1> QED BY <1>5, Zenon DEF RowStart, RowStep, hash_pair

\* The rows of the tree without shortcuts.
LEMMA FullTreeDefinition ==
    ASSUME Depth \in Nat, NEW leaves
    PROVE  /\ FullTree(leaves)[0] = leaves
           /\ \A h \in 1 .. Depth : \A i \in Nat :
                FullTree(leaves)[h][i]
                  = <<FullTree(leaves)[h - 1][2 * i], FullTree(leaves)[h - 1][2 * i + 1]>>
<1> DEFINE g == FullTree(leaves)
<1>1. \E f : f = [h \in 0 .. Depth |->
                    IF h = 0 THEN FullStart(leaves) ELSE FullStep(leaves, h, f[h - 1])]
  BY FullRecursion!RecursionExists
<1>2. g = [h \in 0 .. Depth |->
             IF h = 0 THEN FullStart(leaves) ELSE FullStep(leaves, h, g[h - 1])]
  BY <1>1 DEF FullTree, FullStart, FullStep
<1> HIDE DEF g
<1>3. \A h \in 0 .. Depth :
        g[h] = IF h = 0 THEN FullStart(leaves) ELSE FullStep(leaves, h, g[h - 1])
  BY <1>2, Zenon
<1>4. 0 \in 0 .. Depth /\ \A h \in 1 .. Depth : h \in 0 .. Depth /\ h # 0
  OBVIOUS
<1>5. g[0] = leaves /\ \A h \in 1 .. Depth : g[h] = FullStep(leaves, h, g[h - 1])
  BY <1>3, <1>4, Zenon DEF FullStart
<1>6. \A h \in 1 .. Depth : \A i \in Nat : g[h][i] = <<g[h - 1][2 * i], g[h - 1][2 * i + 1]>>
  BY <1>5, Zenon DEF FullStep, hash_pair
<1> QED BY <1>5, <1>6 DEF g

LEMMA FullTreeNodes ==
    ASSUME Depth \in Nat
    PROVE  \A leaves : \A h \in 1 .. Depth : \A i \in Nat :
             FullTree(leaves)[h][i]
               = <<FullTree(leaves)[h - 1][2 * i], FullTree(leaves)[h - 1][2 * i + 1]>>
BY FullTreeDefinition, Zenon

\* The hashes up a path of known length.
LEMMA InclusionDefinition ==
    ASSUME Depth \in Nat, NEW leaf, NEW siblings, NEW index, Len(siblings) = Depth
    PROVE  /\ inclusion_hashes(leaf, siblings, index)[0] = leaf
           /\ \A s \in 1 .. Depth :
                inclusion_hashes(leaf, siblings, index)[s]
                  = InclusionStep(<<leaf, siblings, index>>, s,
                                  inclusion_hashes(leaf, siblings, index)[s - 1])
<1> DEFINE g == inclusion_hashes(leaf, siblings, index)
           x == <<leaf, siblings, index>>
<1>1. \E f : f = [s \in 0 .. Depth |->
                    IF s = 0 THEN InclusionStart(x) ELSE InclusionStep(x, s, f[s - 1])]
  BY InclusionRecursion!RecursionExists
<1>2. g = [s \in 0 .. Depth |->
             IF s = 0 THEN InclusionStart(x) ELSE InclusionStep(x, s, g[s - 1])]
  <2>1. \E f : f = [s \in 0 .. Depth |->
             IF s = 0 THEN leaf
             ELSE IF (index \div 2 ^ (s - 1)) % 2 = 0
                  THEN hash_pair(f[s - 1], siblings[s])
                  ELSE hash_pair(siblings[s], f[s - 1])]
    BY <1>1 DEF InclusionStart, InclusionStep
  <2> QED BY <2>1 DEF inclusion_hashes, InclusionStart, InclusionStep
<1> HIDE DEF g
<1>3. \A s \in 0 .. Depth :
        g[s] = IF s = 0 THEN InclusionStart(x) ELSE InclusionStep(x, s, g[s - 1])
  BY <1>2, Zenon
<1>4. 0 \in 0 .. Depth /\ \A s \in 1 .. Depth : s \in 0 .. Depth /\ s # 0
  OBVIOUS
<1>5. g[0] = InclusionStart(x) /\ \A s \in 1 .. Depth : g[s] = InclusionStep(x, s, g[s - 1])
  BY <1>3, <1>4, Zenon
<1> QED BY <1>5 DEF g, InclusionStart

-----------------------------------------------------------------------------
(* Numbers *)

LEMMA Powers ==
    ASSUME NEW n \in Nat
    PROVE  2 ^ n \in Nat \ {0} /\ 2 ^ (n + 1) = 2 * 2 ^ n /\ 2 ^ 0 = 1
BY EmptyRecursion!PowersOfTwo

\* Twice as many nodes one row further down.
LEMMA RowWidth ==
    ASSUME Depth \in Nat, NEW h \in 1 .. Depth
    PROVE  /\ 2 ^ (Depth - h) \in Nat \ {0}
           /\ 2 ^ (Depth - (h - 1)) = 2 * 2 ^ (Depth - h)
           /\ 2 ^ h = 2 * 2 ^ (h - 1)
           /\ 2 ^ (h - 1) \in Nat \ {0}
<1>1. /\ Depth - h \in Nat /\ (Depth - h) + 1 = Depth - (h - 1)
      /\ h - 1 \in Nat /\ (h - 1) + 1 = h
  OBVIOUS
<1>2. 2 ^ (Depth - h) \in Nat \ {0} /\ 2 ^ ((Depth - h) + 1) = 2 * 2 ^ (Depth - h)
  BY <1>1, Powers
<1>3. 2 ^ (h - 1) \in Nat \ {0} /\ 2 ^ ((h - 1) + 1) = 2 * 2 ^ (h - 1)
  BY <1>1, Powers
<1> QED BY <1>1, <1>2, <1>3

LEMMA Halving ==
    ASSUME NEW x \in Nat
    PROVE  /\ x \div 2 \in Nat /\ x % 2 \in {0, 1}
           /\ x = 2 * (x \div 2) + (x % 2)
OBVIOUS

LEMMA Quotient ==
    ASSUME NEW x \in Nat, NEW n \in Nat \ {0}, NEW q \in Nat, NEW r \in 0 .. n - 1,
           x = q * n + r
    PROVE  x \div n = q
OBVIOUS

\* The parent's index is half the child's.
LEMMA ParentIndex ==
    ASSUME NEW x \in Nat, NEW p \in Nat \ {0}
    PROVE  (x \div p) \div 2 = x \div (2 * p) /\ x \div p \in Nat
<1> DEFINE q == x \div p
           r == x % p
           u == q \div 2
           v == q % 2
<1>1. q \in Nat /\ r \in 0 .. p - 1 /\ x = q * p + r
  OBVIOUS
<1>2. u \in Nat /\ v \in {0, 1} /\ q = 2 * u + v
  <2> HIDE DEF q
  <2> QED BY <1>1, Halving
<1> HIDE DEF q, r, u, v
<1>3. x = u * (2 * p) + (v * p + r)
  BY <1>1, <1>2
<1>4. v * p + r \in 0 .. 2 * p - 1
  BY <1>1, <1>2
<1>5. x \div (2 * p) = u
  BY <1>2, <1>3, <1>4, Quotient
<1> QED BY <1>1, <1>5 DEF q, u

\* The ancestors of a leaf are nodes of their rows.
LEMMA AncestorIndex ==
    ASSUME Depth \in Nat, NEW index \in 0 .. Capacity - 1
    PROVE  \A s \in 0 .. Depth : index \div 2 ^ s \in 0 .. 2 ^ (Depth - s) - 1
<1> DEFINE T == {s \in 0 .. Depth : index \div 2 ^ s \in 0 .. 2 ^ (Depth - s) - 1}
<1>0. index \in Nat
  BY Powers DEF Capacity
<1>1. 0 \in T
  <2>1. 2 ^ 0 = 1 /\ index \div 1 = index /\ Depth - 0 = Depth
    BY <1>0, Powers
  <2>2. index \div 2 ^ 0 \in 0 .. 2 ^ (Depth - 0) - 1
    BY <2>1 DEF Capacity
  <2> QED BY <2>2
<1>2. \A s \in 0 .. Depth : s # Depth /\ s \in T => s + 1 \in T
  <2> SUFFICES ASSUME NEW s \in 0 .. Depth, s # Depth,
                      index \div 2 ^ s \in 0 .. 2 ^ (Depth - s) - 1
               PROVE  index \div 2 ^ (s + 1) \in 0 .. 2 ^ (Depth - (s + 1)) - 1
    OBVIOUS
  <2> DEFINE j == index \div 2 ^ s
             w == 2 ^ (Depth - (s + 1))
  <2>1. s \in Nat /\ s + 1 \in 1 .. Depth /\ (s + 1) - 1 = s
    OBVIOUS
  <2>2. 2 ^ s \in Nat \ {0} /\ 2 ^ (s + 1) = 2 * 2 ^ s
    BY <2>1, Powers
  <2>3. w \in Nat \ {0} /\ 2 ^ (Depth - s) = 2 * w
    BY <2>1, RowWidth
  <2>4. index \div 2 ^ (s + 1) = j \div 2 /\ j \in Nat
    BY <1>0, <2>2, ParentIndex
  <2>5. j \in 0 .. 2 * w - 1
    BY <2>3
  <2> HIDE DEF j, w
  <2>6. j \div 2 \in 0 .. w - 1
    BY <2>3, <2>4, <2>5, Halving
  <2> QED BY <2>4, <2>6 DEF w
<1>3. \A s \in 0 .. Depth : s \in T
  <2> HIDE DEF T
  <2> QED BY <1>1, <1>2, EmptyRecursion!IntervalInduction
<1> QED BY <1>3

-----------------------------------------------------------------------------
(* The shortcuts *)

\* Subtree (height, i) holds no leaf, said of offsets.
Bare(h, i) ==
    \A o \in DOMAIN nodes : ~ (Capacity + i * 2 ^ h <= o /\ o <= Capacity + i * 2 ^ h + 2 ^ h - 1)

LEMMA BareIsWithoutLeaf ==
    ASSUME Depth \in Nat, NEW h \in 0 .. Depth, NEW i \in Nat, DOMAIN nodes \subseteq Nat
    PROVE  Bare(h, i) <=> ~ subtree_has_leaf(Depth - h, i)
<1>1. Depth - (Depth - h) = h /\ h \in Nat /\ Depth \in Nat
  OBVIOUS
<1>2. 2 ^ h \in Nat /\ Capacity \in Nat
  BY <1>1, Powers DEF Capacity
<1>3. subtree_range(Depth - h, i) = Capacity + i * 2 ^ h .. Capacity + i * 2 ^ h + 2 ^ h - 1
  BY <1>1 DEF subtree_range
<1>4. Capacity + i * 2 ^ h \in Int /\ Capacity + i * 2 ^ h + 2 ^ h - 1 \in Int
  BY <1>2
<1> QED BY <1>3, <1>4 DEF Bare, subtree_has_leaf

\* A bare subtree has bare children.
LEMMA BareChildren ==
    ASSUME Depth \in Nat, NEW h \in 1 .. Depth, NEW i \in Nat, Bare(h, i),
           DOMAIN nodes \subseteq Nat
    PROVE  Bare(h - 1, 2 * i) /\ Bare(h - 1, 2 * i + 1)
<1> DEFINE w == 2 ^ (h - 1)
           a == i * w
<1>1. w \in Nat \ {0} /\ 2 ^ h = 2 * w /\ Capacity \in Nat
  BY RowWidth, Powers DEF Capacity
<1>2. a \in Nat /\ i * 2 ^ h = 2 * a /\ (2 * i) * w = 2 * a /\ (2 * i + 1) * w = 2 * a + w
  <2> HIDE DEF w
  <2>1. i * w \in Nat /\ i * (2 * w) = 2 * (i * w) /\ (2 * i) * w = 2 * (i * w)
        /\ (2 * i + 1) * w = 2 * (i * w) + w
    BY <1>1
  <2> QED BY <1>1, <2>1
<1>3. \A o \in DOMAIN nodes :
        ~ (Capacity + 2 * a <= o /\ o <= Capacity + 2 * a + 2 * w - 1)
  BY <1>1, <1>2 DEF Bare
<1> HIDE DEF w, a
<1>4. \A o \in DOMAIN nodes : ~ (Capacity + 2 * a <= o /\ o <= Capacity + 2 * a + w - 1)
  BY <1>1, <1>2, <1>3
<1>5. \A o \in DOMAIN nodes :
        ~ (Capacity + (2 * a + w) <= o /\ o <= Capacity + (2 * a + w) + w - 1)
  BY <1>1, <1>2, <1>3
<1> QED BY <1>2, <1>4, <1>5 DEF Bare, w

LEMMA LeavesDefinition ==
    ASSUME Depth \in Nat, NEW i \in 0 .. Capacity - 1
    PROVE  TreeLeaves[i] = LeafAt(i)
BY DEF TreeLeaves

\* The full tree hashes a bare subtree to the default.
LEMMA BareHash ==
    ASSUME Depth \in Nat, TypeOK
    PROVE  \A h \in 0 .. Depth : \A i \in 0 .. 2 ^ (Depth - h) - 1 :
             Bare(h, i) => FullTree(TreeLeaves)[h][i] = EmptyHash[h]
<1> DEFINE full == FullTree(TreeLeaves)
           T == {h \in 0 .. Depth : \A i \in 0 .. 2 ^ (Depth - h) - 1 :
                    Bare(h, i) => full[h][i] = EmptyHash[h]}
<1>0. DOMAIN nodes \subseteq Nat /\ Capacity \in Nat
  BY Powers DEF TypeOK, Capacity
<1>1. 0 \in T
  <2> SUFFICES ASSUME NEW i \in 0 .. 2 ^ (Depth - 0) - 1, Bare(0, i)
               PROVE  full[0][i] = EmptyHash[0]
    OBVIOUS
  <2>1. i \in 0 .. Capacity - 1 /\ i \in Nat
    BY <1>0 DEF Capacity
  <2>2. leaf_offset(i) \notin DOMAIN nodes
    <3>1. 2 ^ 0 = 1 /\ i * 1 = i
      BY <2>1, Powers
    <3>2. \A o \in DOMAIN nodes : ~ (Capacity + i <= o /\ o <= Capacity + i)
      BY <1>0, <2>1, <3>1 DEF Bare
    <3> QED BY <1>0, <2>1, <3>2 DEF leaf_offset
  <2>3. TreeLeaves[i] = ZERO
    BY <2>1, <2>2, LeavesDefinition DEF LeafAt
  <2> QED BY <2>3, FullTreeDefinition, EmptyHashes
<1>2. \A h \in 0 .. Depth : h # Depth /\ h \in T => h + 1 \in T
  <2> SUFFICES ASSUME NEW h \in 0 .. Depth, h # Depth, h \in T,
                      NEW i \in 0 .. 2 ^ (Depth - (h + 1)) - 1, Bare(h + 1, i)
               PROVE  full[h + 1][i] = EmptyHash[h + 1]
    OBVIOUS
  <2>1. h + 1 \in 1 .. Depth /\ (h + 1) - 1 = h
    OBVIOUS
  <2>2. 2 ^ (Depth - (h + 1)) \in Nat \ {0} /\ 2 ^ (Depth - h) = 2 * 2 ^ (Depth - (h + 1))
    BY <2>1, RowWidth
  <2>3. i \in Nat /\ 2 * i \in 0 .. 2 ^ (Depth - h) - 1 /\ 2 * i + 1 \in 0 .. 2 ^ (Depth - h) - 1
    BY <2>2
  <2>4. Bare(h, 2 * i) /\ Bare(h, 2 * i + 1)
    BY <1>0, <2>1, <2>3, BareChildren
  <2>5. full[h][2 * i] = EmptyHash[h] /\ full[h][2 * i + 1] = EmptyHash[h]
    BY <2>3, <2>4
  <2>6. full[h + 1][i] = <<full[h][2 * i], full[h][2 * i + 1]>>
    <3>1. \A j \in Nat :
            full[h + 1][j] = <<full[(h + 1) - 1][2 * j], full[(h + 1) - 1][2 * j + 1]>>
      BY <2>1, FullTreeDefinition
    <3> QED BY <2>1, <2>3, <3>1
  <2> HIDE DEF full
  <2>7. EmptyHash[h + 1] = <<EmptyHash[h], EmptyHash[h]>>
    BY <2>1, EmptyHashes
  <2> QED BY <2>5, <2>6, <2>7
<1>3. \A h \in 0 .. Depth : h \in T
  <2> HIDE DEF T
  <2> QED BY <1>1, <1>2, EmptyRecursion!IntervalInduction
<1> QED BY <1>3

\* Every node that the shortcuts give is the full tree's.
LEMMA RowsAreFull ==
    ASSUME Depth \in Nat, TypeOK
    PROVE  \A h \in 0 .. Depth : \A i \in 0 .. 2 ^ (Depth - h) - 1 :
             rows[h][i] = FullTree(TreeLeaves)[h][i]
<1> DEFINE full == FullTree(TreeLeaves)
           T == {h \in 0 .. Depth : \A i \in 0 .. 2 ^ (Depth - h) - 1 :
                    rows[h][i] = full[h][i]}
<1>0. DOMAIN nodes \subseteq Nat /\ Capacity \in Nat
  BY Powers DEF TypeOK, Capacity
<1>1. 0 \in T
  <2> SUFFICES ASSUME NEW i \in 0 .. 2 ^ (Depth - 0) - 1
               PROVE  rows[0][i] = full[0][i]
    OBVIOUS
  <2>1. i \in 0 .. Capacity - 1 /\ i \in Nat
    BY <1>0 DEF Capacity
  <2>2. Default(Depth) = ZERO
    <3>1. 0 \in 0 .. Depth /\ Depth - 0 = Depth
      OBVIOUS
    <3>2. Default(Depth - 0) = EmptyHash[0]
      BY <3>1, EmptyHashes
    <3> QED BY <3>1, <3>2, EmptyHashes
  <2>3. rows[0][i] = LeafAt(i)
    BY <2>1, <2>2, RowsDefinition DEF LeafAt
  <2> QED BY <2>1, <2>3, FullTreeDefinition, LeavesDefinition
<1>2. \A h \in 0 .. Depth : h # Depth /\ h \in T => h + 1 \in T
  <2> SUFFICES ASSUME NEW h \in 0 .. Depth, h # Depth, h \in T,
                      NEW i \in 0 .. 2 ^ (Depth - (h + 1)) - 1
               PROVE  rows[h + 1][i] = full[h + 1][i]
    OBVIOUS
  <2>1. h + 1 \in 1 .. Depth /\ h + 1 \in 0 .. Depth /\ (h + 1) - 1 = h
    OBVIOUS
  <2>2. 2 ^ (Depth - (h + 1)) \in Nat \ {0} /\ 2 ^ (Depth - h) = 2 * 2 ^ (Depth - (h + 1))
    BY <2>1, RowWidth
  <2>3. i \in Nat /\ 2 * i \in 0 .. 2 ^ (Depth - h) - 1 /\ 2 * i + 1 \in 0 .. 2 ^ (Depth - h) - 1
    BY <2>2
  <2>4. rows[h][2 * i] = full[h][2 * i] /\ rows[h][2 * i + 1] = full[h][2 * i + 1]
    BY <2>3
  <2>5. full[h + 1][i] = <<full[h][2 * i], full[h][2 * i + 1]>>
    BY <2>1, <2>3, FullTreeDefinition
  <2>6. CASE subtree_has_leaf(Depth - (h + 1), i)
    <3>1. rows[h + 1][i] = <<rows[h][2 * i], rows[h][2 * i + 1]>>
      BY <2>1, <2>3, <2>6, RowsDefinition
    <3> QED BY <2>4, <2>5, <3>1
  <2>7. CASE ~ subtree_has_leaf(Depth - (h + 1), i)
    <3>1. rows[h + 1][i] = Default(Depth - (h + 1))
      BY <2>1, <2>3, <2>7, RowsDefinition
    <3>2. Bare(h + 1, i)
      BY <1>0, <2>1, <2>3, <2>7, BareIsWithoutLeaf
    <3>3. full[h + 1][i] = EmptyHash[h + 1]
      BY <2>1, <3>2, BareHash
    <3>4. Default(Depth - (h + 1)) = EmptyHash[h + 1]
      BY <2>1, EmptyHashes
    <3> QED BY <3>1, <3>3, <3>4
  <2> QED BY <2>6, <2>7
<1>3. \A h \in 0 .. Depth : h \in T
  <2> HIDE DEF T
  <2> QED BY <1>1, <1>2, EmptyRecursion!IntervalInduction
<1> QED BY <1>3

\* The shortcuts give every node the hash of the full tree.
LEMMA NodesAreFull ==
    ASSUME Depth \in Nat, TypeOK
    PROVE  NodesMatchTheFullTree
<1> SUFFICES ASSUME NEW level \in 0 .. Depth, NEW index \in 0 .. 2 ^ level - 1
             PROVE  rows[Depth - level][index] = FullTree(TreeLeaves)[Depth - level][index]
  BY DEF NodesMatchTheFullTree, node_hash
<1>1. Depth - level \in 0 .. Depth /\ Depth - (Depth - level) = level
  OBVIOUS
<1> QED BY <1>1, RowsAreFull

-----------------------------------------------------------------------------
(* Paths *)

\* The path of an index in the full tree over some leaves.
FullPath(leaves, index) ==
    [step \in 1 .. Depth |->
        FullTree(leaves)[step - 1][Sibling(index \div 2 ^ (step - 1))]]

LEMMA CapacityIsPositive ==
    ASSUME Depth \in Nat
    PROVE  Capacity \in Nat \ {0}
BY Powers DEF Capacity

\* What a step of a path knows about the node it starts from.
LEMMA StepIndex ==
    ASSUME Depth \in Nat, NEW index \in 0 .. Capacity - 1, NEW s \in 1 .. Depth
    PROVE  LET j == index \div 2 ^ (s - 1) IN
           /\ j \in Nat /\ j \div 2 \in Nat /\ j % 2 \in {0, 1}
           /\ j = 2 * (j \div 2) + (j % 2)
           /\ j \div 2 = index \div 2 ^ s
           /\ j \in 0 .. 2 ^ (Depth - (s - 1)) - 1
           /\ Sibling(j) \in 0 .. 2 ^ (Depth - (s - 1)) - 1
           /\ Sibling(j) = IF j % 2 = 0 THEN 2 * (j \div 2) + 1 ELSE 2 * (j \div 2)
<1> DEFINE j == index \div 2 ^ (s - 1)
           w == 2 ^ (Depth - s)
<1>1. s - 1 \in 0 .. Depth /\ s - 1 \in Nat /\ index \in Nat
  BY CapacityIsPositive
<1>2. 2 ^ (s - 1) \in Nat \ {0} /\ 2 ^ s = 2 * 2 ^ (s - 1)
  BY RowWidth
<1>3. w \in Nat \ {0} /\ 2 ^ (Depth - (s - 1)) = 2 * w
  BY RowWidth
<1>4. j \div 2 = index \div 2 ^ s
  BY <1>1, <1>2, ParentIndex
<1>5. j \in 0 .. 2 ^ (Depth - (s - 1)) - 1
  BY <1>1, AncestorIndex
<1>6. j \in 0 .. 2 * w - 1 /\ j \in Nat
  BY <1>3, <1>5
<1> HIDE DEF j, w
<1>7. j \div 2 \in Nat /\ j % 2 \in {0, 1} /\ j = 2 * (j \div 2) + (j % 2)
  BY <1>6, Halving
<1>8. Sibling(j) = IF j % 2 = 0 THEN 2 * (j \div 2) + 1 ELSE 2 * (j \div 2)
  BY <1>7 DEF Sibling
<1>9. Sibling(j) \in 0 .. 2 * w - 1
  BY <1>3, <1>6, <1>7, <1>8
<1> QED BY <1>3, <1>4, <1>5, <1>6, <1>7, <1>8, <1>9 DEF j

LEMMA PathIsFull ==
    ASSUME Depth \in Nat, TypeOK, NEW index \in 0 .. Capacity - 1
    PROVE  path(index) = FullPath(TreeLeaves, index)
<1>1. ASSUME NEW s \in 1 .. Depth
      PROVE  node_hash(Depth + 1 - s, Sibling(index \div 2 ^ (s - 1)))
               = FullTree(TreeLeaves)[s - 1][Sibling(index \div 2 ^ (s - 1))]
  <2> DEFINE i == Sibling(index \div 2 ^ (s - 1))
  <2>1. Depth - (Depth + 1 - s) = s - 1 /\ s - 1 \in 0 .. Depth
    OBVIOUS
  <2>2. i \in 0 .. 2 ^ (Depth - (s - 1)) - 1
    BY StepIndex
  <2> HIDE DEF i
  <2>3. rows[s - 1][i] = FullTree(TreeLeaves)[s - 1][i]
    BY <2>1, <2>2, RowsAreFull
  <2> QED BY <2>1, <2>3 DEF node_hash, i
<1> QED BY <1>1, Zenon DEF path, FullPath

LEMMA PathLength ==
    ASSUME Depth \in Nat, NEW leaves, NEW index
    PROVE  Len(FullPath(leaves, index)) = Depth
<1> DEFINE p == FullPath(leaves, index)
           S == {p[s] : s \in 1 .. Depth}
<1>1. p \in [1 .. Depth -> S] /\ DOMAIN p = 1 .. Depth
  BY DEF FullPath
<1> HIDE DEF p, S
<1>2. p \in Seq(S)
  BY <1>1, IsASeq
<1>3. Len(p) = Depth
  BY <1>1, <1>2, LenProperties
<1> QED BY <1>3 DEF p

\* Step by step, the climb meets the nodes of the tree exactly when it started
\* from the leaf that is there.
LEMMA ClimbMeetsTheTree ==
    ASSUME Depth \in Nat, NEW leaves, NEW leaf, NEW index \in 0 .. Capacity - 1
    PROVE  \A s \in 0 .. Depth :
             inclusion_hashes(leaf, FullPath(leaves, index), index)[s]
               = FullTree(leaves)[s][index \div 2 ^ s] <=> leaf = leaves[index]
<1> DEFINE p == FullPath(leaves, index)
           full == FullTree(leaves)
           hash == inclusion_hashes(leaf, p, index)
<1>0. Len(p) = Depth
  BY PathLength
<1>4. \A s \in 1 .. Depth : hash[s] = InclusionStep(<<leaf, p, index>>, s, hash[s - 1])
  <2> HIDE DEF p
  <2> QED BY <1>0, InclusionDefinition
<1> DEFINE T == {s \in 0 .. Depth :
                   hash[s] = full[s][index \div 2 ^ s] <=> leaf = leaves[index]}
<1>1. 0 \in T
  <2>1. hash[0] = leaf
    BY <1>0, InclusionDefinition
  <2>2. full[0] = leaves
    BY FullTreeDefinition
  <2>3. 2 ^ 0 = 1 /\ index \div 1 = index
    BY Powers, CapacityIsPositive
  <2> HIDE DEF hash, full
  <2> QED BY <2>1, <2>2, <2>3
<1>2. \A s \in 0 .. Depth : s # Depth /\ s \in T => s + 1 \in T
  <2> SUFFICES ASSUME NEW r \in 0 .. Depth, r # Depth, r \in T PROVE r + 1 \in T
    OBVIOUS
  <2> DEFINE s == r + 1
             j == index \div 2 ^ (s - 1)
             q == index \div 2 ^ s
  <2>1. s \in 1 .. Depth /\ s - 1 = r /\ s \in 0 .. Depth
    OBVIOUS
  <2> HIDE DEF s
  <2>2. /\ q \in Nat /\ j % 2 \in {0, 1} /\ j = 2 * q + (j % 2)
        /\ Sibling(j) = IF j % 2 = 0 THEN 2 * q + 1 ELSE 2 * q
    BY <2>1, StepIndex
  <2>3. hash[s] = IF j % 2 = 0 THEN <<hash[r], p[s]>> ELSE <<p[s], hash[r]>>
    <3> HIDE DEF p
    <3>1. hash[s] = IF j % 2 = 0 THEN <<hash[s - 1], p[s]>> ELSE <<p[s], hash[s - 1]>>
      <4>1. hash[s] = InclusionStep(<<leaf, p, index>>, s, hash[s - 1])
        BY <1>4, <2>1
      <4> HIDE DEF hash
      <4> QED BY <4>1 DEF InclusionStep, hash_pair
    <3> QED BY <2>1, <3>1
  <2>4. p[s] = full[r][Sibling(j)]
    BY <2>1 DEF FullPath
  <2>5. full[s][q] = <<full[r][2 * q], full[r][2 * q + 1]>>
    <3>1. \A i \in Nat : full[s][i] = <<full[s - 1][2 * i], full[s - 1][2 * i + 1]>>
      BY <2>1, FullTreeDefinition
    <3> HIDE DEF full, q
    <3> QED BY <2>1, <2>2, <3>1
  <2>6. hash[r] = full[r][j] <=> leaf = leaves[index]
    BY <2>1
  <2>7. hash[s] = full[s][q] <=> hash[r] = full[r][j]
    <3> HIDE DEF hash, full, p, j, q
    <3>1. CASE j % 2 = 0
      <4>1. j = 2 * q /\ Sibling(j) = 2 * q + 1
        BY <2>2, <3>1
      <4>2. hash[s] = <<hash[r], full[r][2 * q + 1]>> /\ full[s][q] = <<full[r][j], full[r][2 * q + 1]>>
        BY <2>3, <2>4, <2>5, <3>1, <4>1, Zenon
      <4> QED BY <4>2
    <3>2. CASE j % 2 = 1
      <4>1. j = 2 * q + 1 /\ Sibling(j) = 2 * q
        BY <2>2, <3>2
      <4>2. j % 2 # 0
        BY <3>2
      <4>3. hash[s] = <<full[r][2 * q], hash[r]>> /\ full[s][q] = <<full[r][2 * q], full[r][j]>>
        BY <2>3, <2>4, <2>5, <4>1, <4>2, Zenon
      <4> QED BY <4>3
    <3> QED BY <2>2, <3>1, <3>2
  <2> QED BY <2>1, <2>6, <2>7 DEF s
<1>3. \A s \in 0 .. Depth : s \in T
  <2> HIDE DEF T
  <2> QED BY <1>1, <1>2, EmptyRecursion!IntervalInduction
<1> QED BY <1>3

\* A path taken from a full tree verifies against its root for the leaf that is
\* there, and for no other.
LEMMA InclusionIsExact ==
    ASSUME Depth \in Nat, NEW leaves, NEW leaf, NEW index \in 0 .. Capacity - 1
    PROVE  verify_inclusion(FullTree(leaves)[Depth][0], leaf, FullPath(leaves, index), index)
             <=> leaf = leaves[index]
<1>1. index \div 2 ^ Depth = 0
  <2>1. index \in Nat /\ index < 2 ^ Depth /\ 2 ^ Depth \in Nat \ {0}
    BY Powers, CapacityIsPositive DEF Capacity
  <2> QED BY <2>1
<1>2. Depth \in 0 .. Depth
  OBVIOUS
<1>3. inclusion_hashes(leaf, FullPath(leaves, index), index)[Depth]
        = FullTree(leaves)[Depth][index \div 2 ^ Depth] <=> leaf = leaves[index]
  BY <1>2, ClimbMeetsTheTree
<1> QED BY <1>1, <1>3, PathLength DEF verify_inclusion

-----------------------------------------------------------------------------
(* Roots *)

LEMMA RootIsFull ==
    ASSUME Depth \in Nat, TypeOK
    PROVE  root = FullTree(TreeLeaves)[Depth][0]
<1>1. /\ Depth \in 0 .. Depth /\ Depth - Depth = 0 /\ Depth - 0 = Depth
      /\ 2 ^ 0 = 1 /\ 0 \in 0 .. 1 - 1
  BY Powers
<1>2. 0 \in 0 .. 2 ^ (Depth - Depth) - 1
  BY <1>1
<1> QED BY <1>1, <1>2, RowsAreFull DEF root, node_hash

\* Two full trees with the same root have the same leaves.
LEMMA RootDeterminesLeaves ==
    ASSUME Depth \in Nat, NEW f, NEW g, FullTree(f)[Depth][0] = FullTree(g)[Depth][0]
    PROVE  \A i \in 0 .. Capacity - 1 : f[i] = g[i]
<1> DEFINE F == FullTree(f)
           G == FullTree(g)
<1>6. \A h \in 1 .. Depth : \A n \in Nat :
        /\ F[h][n] = <<F[h - 1][2 * n], F[h - 1][2 * n + 1]>>
        /\ G[h][n] = <<G[h - 1][2 * n], G[h - 1][2 * n + 1]>>
  BY FullTreeNodes, Zenon
<1> DEFINE T == {level \in 0 .. Depth : \A i \in 0 .. 2 ^ level - 1 :
                   F[Depth - level][i] = G[Depth - level][i]}
<1>1. 0 \in T
  <2>1. Depth - 0 = Depth /\ 2 ^ 0 = 1 /\ \A i \in 0 .. 1 - 1 : i = 0
    BY Powers
  <2> QED BY <2>1
<1>2. \A level \in 0 .. Depth : level # Depth /\ level \in T => level + 1 \in T
  <2> SUFFICES ASSUME NEW level \in 0 .. Depth, level # Depth, level \in T,
                      NEW i \in 0 .. 2 ^ (level + 1) - 1
               PROVE  F[Depth - (level + 1)][i] = G[Depth - (level + 1)][i]
    OBVIOUS
  <2> DEFINE h == Depth - level
             q == i \div 2
  <2>1. h \in 1 .. Depth /\ h - 1 = Depth - (level + 1) /\ level \in Nat
    OBVIOUS
  <2>2. 2 ^ level \in Nat \ {0} /\ 2 ^ (level + 1) = 2 * 2 ^ level
    BY <2>1, Powers
  <2>3. i \in Nat /\ q \in Nat /\ i % 2 \in {0, 1} /\ i = 2 * q + (i % 2)
    BY <2>2, Halving
  <2>4. q \in 0 .. 2 ^ level - 1
    <3> HIDE DEF q
    <3> QED BY <2>2, <2>3
  <2>5. F[h][q] = G[h][q]
    BY <2>4
  <2>6. \A n \in Nat : /\ F[h][n] = <<F[h - 1][2 * n], F[h - 1][2 * n + 1]>>
                       /\ G[h][n] = <<G[h - 1][2 * n], G[h - 1][2 * n + 1]>>
    <3> HIDE DEF F, G, h
    <3> QED BY <1>6, <2>1, Zenon
  <2> HIDE DEF F, G, q, h
  <2>7. F[h - 1][2 * q] = G[h - 1][2 * q] /\ F[h - 1][2 * q + 1] = G[h - 1][2 * q + 1]
    BY <2>3, <2>5, <2>6
  <2>8. i = 2 * q \/ i = 2 * q + 1
    BY <2>3
  <2>9. F[h - 1][i] = G[h - 1][i]
    BY <2>7, <2>8, Zenon
  <2> QED BY <2>1, <2>9, Zenon
<1>3. \A level \in 0 .. Depth : level \in T
  <2> HIDE DEF T
  <2> QED BY <1>1, <1>2, EmptyRecursion!IntervalInduction
<1>4. Depth \in T /\ Depth - Depth = 0
  BY <1>3
<1>5. \A i \in 0 .. Capacity - 1 : F[0][i] = G[0][i]
  BY <1>4 DEF Capacity
<1> QED BY <1>5, FullTreeDefinition

-----------------------------------------------------------------------------
(* The properties, state by state *)

LEMMA RangeOfLeaves ==
    ASSUME Depth \in Nat, TypeOK, NEW i \in 0 .. Capacity - 1
    PROVE  LeafAt(i) \in Leaves \cup {ZERO}
BY DEF TypeOK, LeafAt

LEMMA PathsAreExact ==
    ASSUME Depth \in Nat, TypeOK
    PROVE  PathsProveTheirLeafOnly
<1> SUFFICES ASSUME NEW index \in 0 .. Capacity - 1, NEW leaf \in Leaves \cup {ZERO}
             PROVE  verify_inclusion(root, leaf, path(index), index) <=> leaf = LeafAt(index)
  BY DEF PathsProveTheirLeafOnly
<1>1. verify_inclusion(FullTree(TreeLeaves)[Depth][0], leaf, FullPath(TreeLeaves, index), index)
        <=> leaf = TreeLeaves[index]
  BY InclusionIsExact
<1>2. TreeLeaves[index] = LeafAt(index)
  BY LeavesDefinition
<1> QED BY <1>1, <1>2, RootIsFull, PathIsFull

LEMMA FoundPathsAreExact ==
    ASSUME Depth \in Nat, TypeOK, ZERO \notin Leaves
    PROVE  FoundPathsVerify
<1> SUFFICES ASSUME NEW leaf \in Leaves
             PROVE  /\ find_path(leaf) = {} => \A i \in 0 .. Capacity - 1 : LeafAt(i) # leaf
                    /\ \A found \in find_path(leaf) :
                         /\ found.index \in 0 .. Capacity - 1
                         /\ verify_inclusion(root, leaf, found.path, found.index)
  BY DEF FoundPathsVerify
<1> DEFINE holding == {o \in DOMAIN nodes : nodes[o] = leaf}
           first == {o \in holding : \A p \in holding : o <= p}
<1>1. Capacity \in Nat /\ holding \in SUBSET Nat
  BY CapacityIsPositive DEF TypeOK
<1>2. ASSUME holding # {} PROVE first # {}
  <2> HIDE DEF holding
  <2>1. \E x \in holding : \A y \in holding : x <= y
    BY <1>1, <1>2, EmptyRecursion!LeastMember
  <2> QED BY <2>1
<1>3. find_path(leaf) = {[path |-> path(o - Capacity), index |-> o - Capacity] : o \in first}
  BY DEF find_path
<1>4. ASSUME find_path(leaf) = {}, NEW i \in 0 .. Capacity - 1 PROVE LeafAt(i) # leaf
  <2>1. holding = {}
    <3> HIDE DEF first, holding
    <3>1. first = {}
      BY <1>3, <1>4
    <3> QED BY <1>2, <3>1
  <2>2. leaf_offset(i) \notin holding
    BY <2>1
  <2>3. leaf # ZERO
    OBVIOUS
  <2> QED BY <2>2, <2>3 DEF LeafAt
<1>5. ASSUME NEW found \in find_path(leaf)
      PROVE  /\ found.index \in 0 .. Capacity - 1
             /\ verify_inclusion(root, leaf, found.path, found.index)
  <2>1. PICK o \in first : found = [path |-> path(o - Capacity), index |-> o - Capacity]
    <3> HIDE DEF first
    <3> QED BY <1>3, <1>5
  <2> DEFINE i == o - Capacity
  <2>2. o \in DOMAIN nodes /\ nodes[o] = leaf /\ o \in Capacity .. 2 * Capacity - 1
    BY DEF TypeOK
  <2>3. i \in 0 .. Capacity - 1 /\ leaf_offset(i) = o
    BY <1>1, <2>2 DEF leaf_offset
  <2>4. LeafAt(i) = leaf
    BY <2>2, <2>3 DEF LeafAt
  <2>5. found.path = path(i) /\ found.index = i
    BY <2>1
  <2> HIDE DEF i
  <2>6. verify_inclusion(root, leaf, path(i), i)
    BY <2>3, <2>4, PathsAreExact DEF PathsProveTheirLeafOnly
  <2> QED BY <2>3, <2>5, <2>6
<1> QED BY <1>4, <1>5

-----------------------------------------------------------------------------
(* The proof that was kept *)

\* What was kept is the path of its index in the full tree over the leaves of
\* that time.
AuditOK ==
    audit # None =>
        /\ audit.index \in 0 .. Capacity - 1
        /\ DOMAIN audit.leaves = 0 .. Capacity - 1
        /\ audit.leaves = [i \in 0 .. Capacity - 1 |-> audit.leaves[i]]
        /\ audit.leaf = audit.leaves[audit.index]
        /\ audit.path = FullPath(audit.leaves, audit.index)

LEMMA KeptProofsAreExact ==
    ASSUME Depth \in Nat, TypeOK, AuditOK
    PROVE  KeptProofsExpire
<1> SUFFICES ASSUME audit # None
             PROVE  verify_inclusion(root, audit.leaf, audit.path, audit.index)
                      <=> audit.leaves = TreeLeaves
  BY DEF KeptProofsExpire
<1> DEFINE old == audit.leaves
           at == audit.index
           then == FullTree(old)[Depth][0]
           now == FullTree(TreeLeaves)[Depth][0]
<1>1. /\ at \in 0 .. Capacity - 1 /\ audit.leaf = old[at] /\ audit.path = FullPath(old, at)
      /\ old = [i \in 0 .. Capacity - 1 |-> old[i]]
  BY DEF AuditOK
<1> HIDE DEF old, at
<1>2. verify_inclusion(then, old[at], FullPath(old, at), at)
  BY <1>1, InclusionIsExact
<1>3. verify_inclusion(root, old[at], FullPath(old, at), at) <=> root = then
  BY <1>2 DEF verify_inclusion
<1>4. root = now
  BY RootIsFull
<1>5. now = then <=> old = TreeLeaves
  <2>1. ASSUME now = then PROVE old = TreeLeaves
    <3>1. \A i \in 0 .. Capacity - 1 : TreeLeaves[i] = old[i]
      BY <2>1, RootDeterminesLeaves
    <3>2. TreeLeaves = [i \in 0 .. Capacity - 1 |-> TreeLeaves[i]]
      BY DEF TreeLeaves
    <3> QED BY <1>1, <3>1, <3>2
  <2> QED BY <2>1
<1> QED BY <1>1, <1>3, <1>4, <1>5 DEF old, at

LEMMA TreeStartsEmpty ==
    ASSUME Init
    PROVE  TypeOK /\ AuditOK
BY DEF Init, TypeOK, AuditOK

LEMMA InsertKeepsTheTree ==
    ASSUME Depth \in Nat, TypeOK, AuditOK,
           NEW index \in 0 .. Capacity - 1, NEW leaf \in Leaves, insert(index, leaf)
    PROVE  TypeOK' /\ AuditOK'
<1>1. Capacity \in Nat /\ leaf_offset(index) \in Capacity .. 2 * Capacity - 1
  BY CapacityIsPositive DEF leaf_offset
<1>2. TypeOK'
  BY <1>1 DEF TypeOK, insert, Capacity
<1>3. AuditOK'
  BY DEF AuditOK, insert, FullPath, FullTree, Capacity
<1> QED BY <1>2, <1>3

LEMMA KeepingKeepsTheTree ==
    ASSUME Depth \in Nat, TypeOK, AuditOK, NEW index \in 0 .. Capacity - 1, KeepProof(index)
    PROVE  TypeOK' /\ AuditOK'
<1>1. TypeOK'
  BY DEF TypeOK, KeepProof, Capacity
<1>2. /\ audit' = [index |-> index, leaf |-> LeafAt(index), path |-> path(index),
                   leaves |-> TreeLeaves]
      /\ path(index) = FullPath(TreeLeaves, index) /\ LeafAt(index) = TreeLeaves[index]
  BY PathIsFull, LeavesDefinition DEF KeepProof
<1>3. /\ audit'.index = index /\ audit'.leaves = TreeLeaves /\ audit'.leaf = TreeLeaves[index]
      /\ audit'.path = FullPath(TreeLeaves, index)
  BY <1>2
<1>4. DOMAIN TreeLeaves = 0 .. Capacity - 1
      /\ TreeLeaves = [i \in 0 .. Capacity - 1 |-> TreeLeaves[i]]
  BY DEF TreeLeaves
<1>5. AuditOK'
  BY <1>3, <1>4 DEF AuditOK, FullPath, FullTree, Capacity
<1> QED BY <1>1, <1>5

\* A step that leaves the root alone leaves every leaf alone.
LEMMA RootsTellTreesApart ==
    ASSUME Depth \in Nat, TypeOK, TypeOK', root' = root
    PROVE  \A i \in 0 .. Capacity - 1 : LeafAt(i)' = LeafAt(i)
<1>1. root = FullTree(TreeLeaves)[Depth][0]
  BY RootIsFull
<1>2. (TypeOK => root = FullTree(TreeLeaves)[Depth][0])'
  BY RootIsFull, PTL
<1>3. FullTree(TreeLeaves')[Depth][0] = FullTree(TreeLeaves)[Depth][0]
  BY <1>1, <1>2 DEF FullTree
<1>4. \A i \in 0 .. Capacity - 1 : TreeLeaves'[i] = TreeLeaves[i]
  BY <1>3, RootDeterminesLeaves
<1> QED BY <1>4, LeavesDefinition DEF TreeLeaves
=============================================================================
