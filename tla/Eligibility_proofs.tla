------------------------- MODULE Eligibility_proofs -------------------------
(***************************************************************************)
(* The properties of Eligibility for every depth, base, number of limbs,   *)
(* prime and set of ids.  The inductive invariant says, besides what the   *)
(* properties say, which leaf an enrolled id has left behind.              *)
(***************************************************************************)
EXTENDS Eligibility, FieldReduction_proofs

TreeFacts == INSTANCE SparseMerkle_proofs WITH Leaves <- EligibilityLeaves

LEMMA DepthAndIds ==
    /\ Depth \in Nat /\ Ids \subseteq Number /\ Audited \subseteq Indices
    /\ ZERO \notin EligibilityLeaves
BY EligibilityAssumption

\* The tree of Eligibility and the tree of the lemmas are the same tree.
LEMMA SameTree ==
    /\ Tree!TypeOK <=> TreeFacts!TypeOK
    /\ Tree!NodesMatchTheFullTree <=> TreeFacts!NodesMatchTheFullTree
    /\ Tree!PathsProveTheirLeafOnly <=> TreeFacts!PathsProveTheirLeafOnly
    /\ Tree!FoundPathsVerify <=> TreeFacts!FoundPathsVerify
    /\ Tree!KeptProofsExpire <=> TreeFacts!KeptProofsExpire
BY DEF Tree!TypeOK, TreeFacts!TypeOK, Tree!Capacity, TreeFacts!Capacity,
       Tree!NodesMatchTheFullTree, TreeFacts!NodesMatchTheFullTree,
       Tree!PathsProveTheirLeafOnly, TreeFacts!PathsProveTheirLeafOnly,
       Tree!FoundPathsVerify, TreeFacts!FoundPathsVerify, Tree!KeptProofsExpire,
       TreeFacts!KeptProofsExpire, Tree!hash_pair, TreeFacts!hash_pair,
       Tree!EmptyHash, TreeFacts!EmptyHash, Tree!compute_default_hashes,
       TreeFacts!compute_default_hashes, Tree!Default, TreeFacts!Default,
       Tree!leaf_offset, TreeFacts!leaf_offset, Tree!subtree_range,
       TreeFacts!subtree_range, Tree!subtree_has_leaf, TreeFacts!subtree_has_leaf,
       Tree!rows, TreeFacts!rows, Tree!node_hash, TreeFacts!node_hash, Tree!root,
       TreeFacts!root, Tree!Sibling, TreeFacts!Sibling, Tree!path, TreeFacts!path,
       Tree!inclusion_hashes, TreeFacts!inclusion_hashes, Tree!verify_inclusion,
       TreeFacts!verify_inclusion, Tree!find_path, TreeFacts!find_path, Tree!LeafAt,
       TreeFacts!LeafAt, Tree!TreeLeaves, TreeFacts!TreeLeaves, Tree!FullTree,
       TreeFacts!FullTree

LEMMA SameSteps ==
    /\ Tree!Init <=> TreeFacts!Init
    /\ \A index, leaf : Tree!insert(index, leaf) <=> TreeFacts!insert(index, leaf)
    /\ \A index : Tree!KeepProof(index) <=> TreeFacts!KeepProof(index)
BY DEF Tree!Init, TreeFacts!Init, Tree!insert, TreeFacts!insert, Tree!KeepProof,
       TreeFacts!KeepProof,
       Tree!hash_pair, TreeFacts!hash_pair, Tree!EmptyHash, TreeFacts!EmptyHash,
       Tree!compute_default_hashes, TreeFacts!compute_default_hashes, Tree!Default,
       TreeFacts!Default, Tree!leaf_offset, TreeFacts!leaf_offset,
       Tree!subtree_range, TreeFacts!subtree_range, Tree!subtree_has_leaf,
       TreeFacts!subtree_has_leaf, Tree!rows, TreeFacts!rows, Tree!node_hash,
       TreeFacts!node_hash, Tree!Capacity, TreeFacts!Capacity, Tree!Sibling,
       TreeFacts!Sibling, Tree!path, TreeFacts!path, Tree!LeafAt, TreeFacts!LeafAt,
       Tree!TreeLeaves, TreeFacts!TreeLeaves

LEMMA SameRoots ==
    /\ Tree!Capacity = TreeFacts!Capacity
    /\ Tree!root = TreeFacts!root
    /\ Tree!root' = TreeFacts!root'
    /\ \A i : Tree!LeafAt(i) = TreeFacts!LeafAt(i) /\ Tree!LeafAt(i)' = TreeFacts!LeafAt(i)'
BY DEF Tree!hash_pair, TreeFacts!hash_pair, Tree!EmptyHash, TreeFacts!EmptyHash,
       Tree!compute_default_hashes, TreeFacts!compute_default_hashes, Tree!Default,
       TreeFacts!Default, Tree!leaf_offset, TreeFacts!leaf_offset,
       Tree!subtree_range, TreeFacts!subtree_range, Tree!subtree_has_leaf,
       TreeFacts!subtree_has_leaf, Tree!rows, TreeFacts!rows, Tree!node_hash,
       TreeFacts!node_hash, Tree!root, TreeFacts!root, Tree!LeafAt,
       TreeFacts!LeafAt, Tree!Capacity, TreeFacts!Capacity

LEMMA SameIndices == Indices = 0 .. TreeFacts!Capacity - 1
BY DEF Indices, TreeFacts!Capacity

-----------------------------------------------------------------------------

\* The leaf that the id at an index has left there hashes its residue.
MemberOK ==
    /\ member = [i \in Indices |-> member[i]]
    /\ \A i \in Indices : member[i] # None =>
         /\ member[i] \in Ids
         /\ \E n \in Number : /\ Value(n) = Value(member[i]) % Value(Prime)
                              /\ Tree!LeafAt(i) = compress_1(n)

Inv ==
    /\ TypeOK /\ ReductionIsExact
    /\ TreeFacts!TypeOK /\ TreeFacts!AuditOK
    /\ MemberOK

LEMMA StartIsExact ==
    ASSUME NEW id \in Number
    PROVE  Value(id) = Value(id) + 0 * Value(Prime)
BY ValueIsNatural, PrimeIsPositive

LEMMA InvInit ==
    ASSUME EligibilityInit
    PROVE  Inv
<1>1. TypeOK /\ ReductionIsExact
  BY StartIsExact DEF EligibilityInit, Init, TypeOK, ReductionIsExact
<1>2. TreeFacts!TypeOK /\ TreeFacts!AuditOK
  BY SameSteps, TreeFacts!TreeStartsEmpty DEF EligibilityInit
<1>3. MemberOK
  BY DEF EligibilityInit, MemberOK
<1> QED BY <1>1, <1>2, <1>3 DEF Inv

\* What the tree's state depends on.
LEMMA TreeUnchanged ==
    ASSUME UNCHANGED <<nodes, audit>>, TreeFacts!TypeOK, TreeFacts!AuditOK
    PROVE  TreeFacts!TypeOK' /\ TreeFacts!AuditOK'
BY DEF TreeFacts!TypeOK, TreeFacts!AuditOK, TreeFacts!Capacity, TreeFacts!FullPath,
       TreeFacts!FullTree

LEMMA MembersUnchanged ==
    ASSUME UNCHANGED <<nodes, member>>, MemberOK
    PROVE  MemberOK'
BY DEF MemberOK, Tree!LeafAt, Tree!leaf_offset, Tree!Capacity

LEMMA ReductionUnchanged ==
    ASSUME UNCHANGED vars, TypeOK, ReductionIsExact
    PROVE  TypeOK' /\ ReductionIsExact'
BY DEF vars, TypeOK, ReductionIsExact

\* The leaf that Enroll hashes is the leaf of its id's residue.
LEMMA EnrolledLeaf ==
    ASSUME Inv, NEW index \in Indices, NEW next \in Ids, Enroll(index, next)
    PROVE  /\ Value(limbs) = Value(input) % Value(Prime)
           /\ limbs \in Number /\ input \in Ids
           /\ hash_single = compress_1(limbs)
           /\ compress_1(limbs) \in EligibilityLeaves
<1>1. limbs \in Number /\ input \in Ids /\ ~ limbs_ge(limbs, Prime)
  BY DEF Inv, TypeOK, Enroll
<1>2. Value(limbs) = Value(input) % Value(Prime)
  BY <1>1, LoopEndsInTheResidue DEF Inv
<1>3. limbs \in Residues
  BY <1>1, <1>2 DEF Residues
<1> QED BY <1>1, <1>2, <1>3 DEF hash_single, EligibilityLeaves

LEMMA EnrollKeepsInv ==
    ASSUME Inv, NEW index \in Indices, NEW next \in Ids, Enroll(index, next)
    PROVE  Inv'
<1>1. TypeOK' /\ ReductionIsExact'
  <2>1. next \in Number /\ input' = next /\ limbs' = next /\ subtractions' = 0
    BY DepthAndIds DEF Enroll
  <2> QED BY <2>1, StartIsExact DEF TypeOK, ReductionIsExact
<1>2. Tree!insert(index, compress_1(limbs)) /\ compress_1(limbs) \in EligibilityLeaves
  BY EnrolledLeaf DEF Enroll
<1>3. TreeFacts!TypeOK' /\ TreeFacts!AuditOK'
  BY <1>2, DepthAndIds, SameSteps, SameIndices, TreeFacts!InsertKeepsTheTree DEF Inv
<1>4. MemberOK'
  <2>1. /\ member' = [member EXCEPT ![index] = input]
        /\ member = [i \in Indices |-> member[i]]
    BY DEF Enroll, Inv, MemberOK
  <2>2. ASSUME NEW i \in Indices, i # index
        PROVE  Tree!LeafAt(i)' = Tree!LeafAt(i) /\ member'[i] = member[i]
    <3>1. i \in Int /\ index \in Int /\ Tree!Capacity \in Int
      BY DepthAndIds, ValueRecursion!PowersOfTwo DEF Indices, Tree!Capacity
    <3>2. Tree!leaf_offset(i) # Tree!leaf_offset(index)
      BY <2>2, <3>1 DEF Tree!leaf_offset
    <3>3. Tree!LeafAt(i)' = Tree!LeafAt(i)
      BY <1>2, <3>2 DEF Tree!insert, Tree!LeafAt, Tree!leaf_offset, Tree!Capacity
    <3> QED BY <2>1, <2>2, <3>3
  <2>3. Tree!LeafAt(index)' = compress_1(limbs) /\ member'[index] = input
    BY <1>2, <2>1 DEF Tree!insert, Tree!LeafAt, Tree!leaf_offset, Tree!Capacity
  <2>4. member' = [i \in Indices |-> member'[i]]
    BY <2>1
  <2>5. ASSUME NEW i \in Indices, member'[i] # None
        PROVE  /\ member'[i] \in Ids
               /\ \E n \in Number : /\ Value(n) = Value(member'[i]) % Value(Prime)
                                    /\ Tree!LeafAt(i)' = compress_1(n)
    <3>1. CASE i = index
      BY <2>3, <3>1, EnrolledLeaf
    <3>2. CASE i # index
      BY <2>2, <2>5, <3>2 DEF Inv, MemberOK
    <3> QED BY <3>1, <3>2
  <2> QED BY <2>4, <2>5 DEF MemberOK, Indices, compress_1, Value, ValueOfTop
<1> QED BY <1>1, <1>3, <1>4 DEF Inv

LEMMA InvNext ==
    ASSUME Inv, [EligibilityNext]_allVars
    PROVE  Inv'
<1>1. CASE Reduce
  <2>1. TypeOK' /\ ReductionIsExact'
    BY <1>1, IterationIsExact DEF Inv, Reduce
  <2>2. UNCHANGED <<nodes, audit, member>>
    BY <1>1 DEF Reduce, treeVars
  <2> QED BY <2>1, <2>2, TreeUnchanged, MembersUnchanged DEF Inv
<1>2. ASSUME NEW index \in Indices, NEW next \in Ids, Enroll(index, next)
      PROVE  Inv'
  BY <1>2, EnrollKeepsInv
<1>3. ASSUME NEW index \in Audited, KeepProof(index)
      PROVE  Inv'
  <2>1. /\ Tree!KeepProof(index) /\ UNCHANGED vars /\ UNCHANGED member
        /\ index \in Indices
    BY <1>3, DepthAndIds DEF KeepProof, vars
  <2>2. TreeFacts!TypeOK' /\ TreeFacts!AuditOK'
    BY <2>1, DepthAndIds, SameSteps, SameIndices, TreeFacts!KeepingKeepsTheTree DEF Inv
  <2>3. UNCHANGED nodes
    BY <2>1 DEF Tree!KeepProof
  <2> QED BY <2>1, <2>2, <2>3, ReductionUnchanged, MembersUnchanged DEF Inv
<1>4. CASE UNCHANGED allVars
  <2>1. UNCHANGED vars /\ UNCHANGED <<nodes, audit, member>>
    BY <1>4 DEF allVars, treeVars
  <2> QED BY <2>1, ReductionUnchanged, TreeUnchanged, MembersUnchanged DEF Inv
<1> QED BY <1>1, <1>2, <1>3, <1>4 DEF EligibilityNext

\* The inductive invariant holds in every reachable state.
THEOREM Invariance == EligibilitySpec => []Inv
<1>1. EligibilityInit => Inv
  BY InvInit
<1>2. Inv /\ [EligibilityNext]_allVars => Inv'
  BY InvNext
<1> QED BY <1>1, <1>2, PTL DEF EligibilitySpec

-----------------------------------------------------------------------------
(* The properties *)

\* reduce_mod_prime, SparseMerkleTree::insert and the enrolled ids keep their shapes.
THEOREM TypesHold == EligibilitySpec => []EligibilityTypeOK
<1>1. Inv => EligibilityTypeOK
  BY SameTree DEF Inv, MemberOK, EligibilityTypeOK
<1> QED BY <1>1, Invariance, PTL

\* limbs_sub subtracts the prime exactly, whichever way the borrows run.
THEOREM ReductionExact == EligibilitySpec => []ReductionIsExact
<1>1. Inv => ReductionIsExact
  BY DEF Inv
<1> QED BY <1>1, Invariance, PTL

\* limbs_ge ends the loop of reduce_mod_prime exactly below the prime.
THEOREM StopsBelow == EligibilitySpec => []StopsBelowThePrime
<1>1. Inv => StopsBelowThePrime
  BY LoopComparesNumbers DEF Inv
<1> QED BY <1>1, Invariance, PTL

\* node_hash gives every node of the sparse tree the hash of the full tree.
THEOREM NodesMatch == EligibilitySpec => []NodesMatchTheFullTree
<1>1. Inv => NodesMatchTheFullTree
  BY DepthAndIds, SameTree, TreeFacts!NodesAreFull DEF Inv, NodesMatchTheFullTree
<1> QED BY <1>1, Invariance, PTL

\* path and verify_inclusion agree for the leaf that is there and no other.
THEOREM PathsProve == EligibilitySpec => []PathsProveTheirLeafOnly
<1>1. Inv => PathsProveTheirLeafOnly
  BY DepthAndIds, SameTree, TreeFacts!PathsAreExact DEF Inv, PathsProveTheirLeafOnly
<1> QED BY <1>1, Invariance, PTL

\* find_path finds what was inserted and not replaced, with a path that verifies.
THEOREM FoundPathsHold == EligibilitySpec => []FoundPathsVerify
<1>1. Inv => FoundPathsVerify
  BY DepthAndIds, SameTree, TreeFacts!FoundPathsAreExact DEF Inv, FoundPathsVerify
<1> QED BY <1>1, Invariance, PTL

\* A proof that was kept verifies later only over the very leaves of its time.
THEOREM KeptProofsHold == EligibilitySpec => []KeptProofsExpire
<1>1. Inv => KeptProofsExpire
  BY DepthAndIds, SameTree, TreeFacts!KeptProofsAreExact DEF Inv, KeptProofsExpire
<1> QED BY <1>1, Invariance, PTL

\* The leaves of two enrolled ids are equal exactly when their residues are.
THEOREM ResiduesToldApart == EligibilitySpec => []LeavesTellResiduesApart
<1>1. ASSUME Inv PROVE LeavesTellResiduesApart
  <2> SUFFICES ASSUME NEW i \in Indices, NEW j \in Indices, member[i] # None, member[j] # None
               PROVE  Tree!LeafAt(i) = Tree!LeafAt(j)
                        <=> Value(member[i]) % Value(Prime) = Value(member[j]) % Value(Prime)
    BY DEF LeavesTellResiduesApart
  <2>1. PICK m \in Number : /\ Value(m) = Value(member[i]) % Value(Prime)
                            /\ Tree!LeafAt(i) = compress_1(m)
    BY <1>1 DEF Inv, MemberOK
  <2>2. PICK n \in Number : /\ Value(n) = Value(member[j]) % Value(Prime)
                            /\ Tree!LeafAt(j) = compress_1(n)
    BY <1>1 DEF Inv, MemberOK
  <2>3. compress_1(m) = compress_1(n) <=> m = n
    BY DEF compress_1
  <2>4. m = n <=> Value(m) = Value(n)
    BY ValueDeterminesLimbs
  <2> QED BY <2>1, <2>2, <2>3, <2>4
<1> QED BY <1>1, Invariance, PTL

\* No insert that changes a leaf leaves the root as it was.
THEOREM InsertsMove == EligibilitySpec => InsertsMoveTheRoot
<1>1. ASSUME Inv, Inv', [EligibilityNext]_allVars
      PROVE  [(\E index \in 0 .. Tree!Capacity - 1 : Tree!LeafAt(index)' # Tree!LeafAt(index))
                => Tree!root' # Tree!root]_(Tree!vars)
  <2>1. TreeFacts!root' = TreeFacts!root =>
          \A i \in 0 .. TreeFacts!Capacity - 1 : TreeFacts!LeafAt(i)' = TreeFacts!LeafAt(i)
    BY <1>1, DepthAndIds, TreeFacts!RootsTellTreesApart DEF Inv
  <2> QED BY <2>1, SameRoots
<1> QED BY <1>1, Invariance, PTL DEF EligibilitySpec, InsertsMoveTheRoot, Tree!InsertsMoveTheRoot
=============================================================================
