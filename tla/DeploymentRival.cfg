\* Two distribution ids, one manifest file, and a rival with the same program.
SPECIFICATION Spec
CONSTANTS
    rival = rival
    rivalToken = rivalToken
    rivalRoot = rivalRoot
    clock50 = clock50
    Program = "airdrop"
    Ids = {1, 2}
    Invocations <- MCOneInvocation
    MaxRuns = 2
    MaxAmount = 3
    RivalCalls <- MCRivalCalls
    Rivals <- MCRivals
    Clock50 = clock50
    ZeroRoot = ZeroRoot
    ForeignTimestamp = 1
    None = None
    Torn = Torn
INVARIANTS
    ManifestMeansCommitted
    ManifestOfTheWinnerIsExact
    FrozenByItsOwnRun
PROPERTIES
    KeepsCommitment
    RunsEnd
CHECK_DEADLOCK FALSE
