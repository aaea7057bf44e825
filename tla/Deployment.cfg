\* Crashes, retries and late transactions around one distribution.
SPECIFICATION Spec
CONSTANTS
    rival = rival
    rivalToken = rivalToken
    rivalRoot = rivalRoot
    clock50 = clock50
    Program = "airdrop"
    Ids = {1}
    Invocations <- MCInvocations
    MaxRuns = 2
    MaxAmount = 3
    RivalCalls <- MCNoRivals
    Rivals <- MCRivals
    Clock50 = clock50
    ZeroRoot = ZeroRoot
    ForeignTimestamp = 1
    None = None
    Torn = Torn
INVARIANTS
    DeploymentTypeOK
    ManifestMeansCommitted
    ManifestOfTheWinnerIsExact
    CommittedTermsAreOfOneList
    KeysOutliveCrashes
    DefinitionSupplyIsTheTotal
    StatusOkFixesTheTotals
CHECK_DEADLOCK FALSE
