\* Every number is reduced; three ids make trees of depth 2, and proofs grow old.
SPECIFICATION EligibilitySpec
CONSTANTS
    Base = 8
    Limbs = 3
    Prime <- MCPrime
    Depth = 2
    ZERO = ZERO
    Audited = {0, 3}
    None = None
    Ids <- MCIds
INVARIANTS
    EligibilityTypeOK
    ReductionIsExact
    StopsBelowThePrime
    NodesMatchTheFullTree
    PathsProveTheirLeafOnly
    FoundPathsVerify
    KeptProofsExpire
    LeavesTellResiduesApart
PROPERTIES
    InsertsMoveTheRoot
CHECK_DEADLOCK FALSE
