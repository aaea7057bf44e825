\* Two runs of airdrop_fund, at once or one after the other, and a claim.
SPECIFICATION Spec
CONSTANTS
    None = None
    Invocations <- MCLate
    CommittedEnrollees <- FirstTwo
    MaxFunds = 2
    MaxClaims = 1
    MaxAmount = 4
INVARIANTS
    MintsWaitForEachOther
    AllAllocationsMinted
PROPERTIES
    PaysEachOnce
CHECK_DEADLOCK FALSE
