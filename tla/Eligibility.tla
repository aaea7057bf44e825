----------------------------- MODULE Eligibility -----------------------------
(***************************************************************************)
(* From account ids to the eligibility root: the id of a recipient's D_i,  *)
(* any 256-bit number, is reduced modulo the field prime (FieldReduction), *)
(* hashed, and inserted as a leaf (SparseMerkle).  Host and guest do the   *)
(* same, so what a leaf tells about an id is decided here.                 *)
(***************************************************************************)
EXTENDS FieldReduction

CONSTANTS
    Depth, ZERO, Audited, None,     \* see SparseMerkle
    Ids                             \* ids that are enrolled; others are only reduced

\* Poseidon over a field element: an injective term.
compress_1(felt) == <<"leaf", felt>>

VARIABLES
    nodes, audit,   \* see SparseMerkle
    member          \* member[i]: the id whose leaf is at index i, or None

Indices == 0 .. 2 ^ Depth - 1

\* The numbers below the prime that the ids are congruent to.
Residues == {n \in Number : \E id \in Ids : Value(n) = Value(id) % Value(Prime)}

EligibilityLeaves == {compress_1(n) : n \in Residues}

Tree == INSTANCE SparseMerkle WITH Leaves <- EligibilityLeaves

\* Nobody finds an id that hashes to the default leaf.
ASSUME EligibilityAssumption ==
    /\ Depth \in Nat \ {0}
    /\ Ids \subseteq Number
    /\ Audited \subseteq Indices
    /\ ZERO \notin EligibilityLeaves

treeVars == <<nodes, audit, member>>
allVars == <<vars, treeVars>>

-----------------------------------------------------------------------------

EligibilityInit == Init /\ Tree!Init /\ member = [i \in Indices |-> None]

Reduce == reduce_mod_prime /\ UNCHANGED treeVars

\* Mutant: the id is hashed as it is.
hash_single_unreduced == compress_1(input)

\* The loop of reduce_mod_prime has ended.
hash_single == compress_1(limbs)

\* The leaf of this id goes into the tree, and the next id is taken.
Enroll(index, next) ==
    /\ ~limbs_ge(limbs, Prime)
    /\ input \in Ids
    /\ Tree!insert(index, hash_single)
    /\ member' = [member EXCEPT ![index] = input]
    /\ input' = next
    /\ limbs' = next
    /\ subtractions' = 0

KeepProof(index) == Tree!KeepProof(index) /\ UNCHANGED <<vars, member>>

EligibilityNext ==
    \/ Reduce
    \/ \E index \in Indices, next \in Ids : Enroll(index, next)
    \/ \E index \in Audited : KeepProof(index)

EligibilitySpec == EligibilityInit /\ [][EligibilityNext]_allVars

-----------------------------------------------------------------------------
(* Properties *)

\* The shape of the state.
EligibilityTypeOK ==
    /\ TypeOK
    /\ Tree!TypeOK
    /\ \A i \in Indices : member[i] = None \/ member[i] \in Ids

\* See SparseMerkle.
NodesMatchTheFullTree == Tree!NodesMatchTheFullTree
PathsProveTheirLeafOnly == Tree!PathsProveTheirLeafOnly
FoundPathsVerify == Tree!FoundPathsVerify
KeptProofsExpire == Tree!KeptProofsExpire
InsertsMoveTheRoot == Tree!InsertsMoveTheRoot

\* A leaf tells ids apart up to the prime and no further: the leaves at two
\* indices are equal exactly when the ids there have the same residue, whatever
\* was inserted and replaced before.
LeavesTellResiduesApart ==
    \A i, j \in Indices : member[i] # None /\ member[j] # None =>
        (Tree!LeafAt(i) = Tree!LeafAt(j)
            <=> Value(member[i]) % Value(Prime) = Value(member[j]) % Value(Prime))
=============================================================================
