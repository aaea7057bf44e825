---------------------------- MODULE SparseMerkle ----------------------------
(***************************************************************************)
(* SparseMerkleTree (airdrop-core/src/merkle.rs): a tree of a fixed depth  *)
(* that keeps its leaves only and derives every node on demand, with a     *)
(* default hash for a subtree that holds no leaf.  Hashes are symbolic:    *)
(* hash_pair builds a pair, so two hashes are equal when what was hashed   *)
(* is, as for a function in which nobody finds a collision.                *)
(*                                                                         *)
(* Eligibility puts the actions together: it says which leaves go in.      *)
(* An auditor keeps an inclusion proof (the path of one index and the leaf *)
(* that was there) while leaves are inserted or replaced: which of the     *)
(* later roots does the proof verify against?                              *)
(***************************************************************************)
EXTENDS Integers, Sequences

CONSTANTS
    Depth,          \* depth of the tree, 32 in the code
    Leaves,         \* leaf hashes that may be inserted
    ZERO,           \* the default leaf, [0u8; 32]
    Audited,        \* indices whose inclusion proof an auditor may keep
    None            \* no proof is kept

VARIABLES
    nodes,          \* partial function: leaf offset -> leaf hash
    audit           \* the proof that was kept, with the leaves of that time

vars == <<nodes, audit>>

Capacity == 2 ^ Depth

-----------------------------------------------------------------------------

hash_pair(left, right) == <<left, right>>

\* The hash of an empty subtree of each height.
EmptyHash ==
    LET default[height \in 0 .. Depth] ==
            IF height = 0 THEN ZERO
            ELSE hash_pair(default[height - 1], default[height - 1])
    IN default

\* Mutant: indexed by height above the leaves.
default_hashes_by_height == [n \in 1 .. Depth + 1 |-> EmptyHash[n - 1]]

\* defaults[level + 1] is the hash of an empty subtree at that level (0 = root).
compute_default_hashes == [n \in 1 .. Depth + 1 |-> EmptyHash[Depth + 1 - n]]

Default(level) == compute_default_hashes[level + 1]

\* Mutant: the base of the last level is forgotten.
leaf_offset_without_base(index) == index

leaf_offset(index) == Capacity + index

\* Mutant: the last leaf of the range is left out.
subtree_range_exclusive(level, index) ==
    LET width == 2 ^ (Depth - level)
        start == Capacity + index * width
    IN start .. start + width - 2

\* The leaf offsets below node (level, index).
subtree_range(level, index) ==
    LET width == 2 ^ (Depth - level)
        start == Capacity + index * width
    IN start .. start + width - 1

subtree_has_leaf(level, index) ==
    DOMAIN nodes \cap subtree_range(level, index) # {}

\* The nodes of a row by index, the rows by height above the leaves.  The memo
\* of the code lives as long as one computation, in which the tree is the same.
rows ==
    LET row[height \in 0 .. Depth] ==
            IF height = 0
            THEN [i \in Nat |-> IF leaf_offset(i) \in DOMAIN nodes
                                THEN nodes[leaf_offset(i)] ELSE Default(Depth)]
            ELSE [i \in Nat |->
                     IF ~subtree_has_leaf(Depth - height, i) THEN Default(Depth - height)
                     ELSE hash_pair(row[height - 1][2 * i], row[height - 1][2 * i + 1])]
    IN row

node_hash(level, index) == rows[Depth - level][index]

root == node_hash(0, 0)

\* Mutant: the right neighbour, for a right child too.
SiblingToTheRight(index) == index + 1

Sibling(index) == IF index % 2 = 0 THEN index + 1 ELSE index - 1

\* Mutant: from the root towards the leaf.
path_from_root(index) ==
    [step \in 1 .. Depth |->
        node_hash(step, Sibling(index \div 2 ^ (Depth - step)))]

\* Siblings from the leaf towards the root.
path(index) ==
    [step \in 1 .. Depth |->
        node_hash(Depth + 1 - step, Sibling(index \div 2 ^ (step - 1)))]

\* Mutant: the order of the children is ignored.
verify_inclusion_unordered(r, leaf, siblings, index) ==
    LET hash[step \in 0 .. Len(siblings)] ==
            IF step = 0 THEN leaf ELSE hash_pair(hash[step - 1], siblings[step])
    IN hash[Len(siblings)] = r

\* The hash after each step up the path, from the leaf.
inclusion_hashes(leaf, siblings, index) ==
    LET hash[step \in 0 .. Len(siblings)] ==
            IF step = 0 THEN leaf
            ELSE IF (index \div 2 ^ (step - 1)) % 2 = 0
                 THEN hash_pair(hash[step - 1], siblings[step])
                 ELSE hash_pair(siblings[step], hash[step - 1])
    IN hash

verify_inclusion(r, leaf, siblings, index) ==
    inclusion_hashes(leaf, siblings, index)[Len(siblings)] = r

\* The first offset that holds the leaf, in the order of the map: one answer or
\* none.
find_path(leaf) ==
    LET holding == {o \in DOMAIN nodes : nodes[o] = leaf}
        first == {o \in holding : \A p \in holding : o <= p}
    IN {[path |-> path(o - Capacity), index |-> o - Capacity] : o \in first}

-----------------------------------------------------------------------------

Init ==
    /\ nodes = [o \in {} |-> ZERO]
    /\ audit = None

\* A second insert at an index replaces the leaf.
insert(index, leaf) ==
    /\ nodes' = [o \in DOMAIN nodes \cup {leaf_offset(index)} |->
                    IF o = leaf_offset(index) THEN leaf ELSE nodes[o]]
    /\ UNCHANGED audit

LeafAt(index) ==
    IF leaf_offset(index) \in DOMAIN nodes THEN nodes[leaf_offset(index)] ELSE ZERO

TreeLeaves == [i \in 0 .. Capacity - 1 |-> LeafAt(i)]

KeepProof(index) ==
    /\ audit = None
    /\ audit' = [index |-> index, leaf |-> LeafAt(index), path |-> path(index),
                 leaves |-> TreeLeaves]
    /\ UNCHANGED nodes

-----------------------------------------------------------------------------
(* Properties *)

\* Only offsets of the last level hold leaves.
TypeOK ==
    /\ DOMAIN nodes \subseteq Capacity .. 2 * Capacity - 1
    /\ \A o \in DOMAIN nodes : nodes[o] \in Leaves

\* The rows of a tree without shortcuts: every node from its two children.
FullTree(leaves) ==
    LET row[height \in 0 .. Depth] ==
            IF height = 0 THEN leaves
            ELSE [i \in Nat |-> hash_pair(row[height - 1][2 * i], row[height - 1][2 * i + 1])]
    IN row

\* Every node, not the root only, has the hash that the full tree gives it,
\* whichever subtrees were empty when their neighbours were filled: the
\* shortcut for empty subtrees never hides a leaf and none goes stale.
NodesMatchTheFullTree ==
    \A level \in 0 .. Depth : \A index \in 0 .. 2 ^ level - 1 :
        node_hash(level, index) = FullTree(TreeLeaves)[Depth - level][index]

\* The path of an index proves the leaf that is there and no other: the check
\* that airdrop_deploy makes of every enrollment never fails.
PathsProveTheirLeafOnly ==
    \A index \in 0 .. Capacity - 1, leaf \in Leaves \cup {ZERO} :
        verify_inclusion(root, leaf, path(index), index) <=> leaf = LeafAt(index)

\* A leaf is found exactly when it was inserted and not replaced, and what
\* find_path returns verifies, also when the same leaf is there twice.
FoundPathsVerify ==
    \A leaf \in Leaves :
        IF find_path(leaf) = {}
        THEN \A index \in 0 .. Capacity - 1 : LeafAt(index) # leaf
        ELSE \A found \in find_path(leaf) :
                /\ found.index \in 0 .. Capacity - 1
                /\ verify_inclusion(root, leaf, found.path, found.index)

\* A proof that was kept verifies against a later root only when the tree holds
\* again the very leaves of that time: a root commits to the whole set.
KeptProofsExpire ==
    audit # None =>
        (verify_inclusion(root, audit.leaf, audit.path, audit.index)
            <=> audit.leaves = TreeLeaves)

\* Every insert that changes a leaf changes the root.
InsertsMoveTheRoot ==
    [][(\E index \in 0 .. Capacity - 1 : LeafAt(index)' # LeafAt(index))
          => root' # root]_vars
=============================================================================
