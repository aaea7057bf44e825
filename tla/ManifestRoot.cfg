\* Expected to be violated: the assertion of airdrop_status about the root.
SPECIFICATION Spec
CONSTANTS
    rival = rival
    rivalToken = rivalToken
    rivalRoot = rivalRoot
    clock50 = clock50
    Program = "airdrop"
    Ids = {1}
    Invocations <- MCTwoInvocations
    MaxRuns = 2
    MaxAmount = 3
    RivalCalls <- MCNoRivals
    Rivals <- MCRivals
    Clock50 = clock50
    ZeroRoot = ZeroRoot
    ForeignTimestamp = 1
    None = None
    Torn = Torn
INVARIANT ManifestRootIsOnChain
CHECK_DEADLOCK FALSE
