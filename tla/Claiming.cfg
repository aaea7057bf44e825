\* Two runs of airdrop_claim, of one recipient or of two, while funding goes on.
SPECIFICATION Spec
CONSTANTS
    None = None
    Invocations <- MCLate
    CommittedEnrollees <- FirstTwo
    MaxFunds = 1
    MaxClaims = 2
    MaxAmount = 4
INVARIANTS
    PayoutTypeOK
    ClaimsEndWellOnce
PROPERTIES
    PaysEachOnce
    ProgramsEnd
CHECK_DEADLOCK FALSE
