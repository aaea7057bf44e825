\* Expected to be violated: what the documentation says of the guest.
SPECIFICATION Spec
CONSTANTS
    alice = alice
    bob = bob
    clock50 = clock50
    fakeClock = fakeClock
    rootA = rootA
    rootB = rootB
    zeroRoot = zeroRoot
    token = token
    Program = "airdrop"
    Ids <- MCIds
    Signers <- MCSigners
    Clock50 = clock50
    OtherAccounts <- MCOther
    Roots <- MCRoots
    ZeroRoot = zeroRoot
    Tokens <- MCTokens
    Empty = Empty
    MaxClock = 2
    ForeignTimestamp = 3
    InitializeCalls <- MCInitializeCalls
    FreezeCalls <- MCFreezeCalls
INVARIANT ClientFreezeHasDocumentedAccounts
