\* Funding goes on after a freeze.
SPECIFICATION Spec
CONSTANTS
    None = None
    Invocations <- MCLate
    CommittedEnrollees <- FirstTwo
    MaxFunds = 1
    MaxClaims = 0
    MaxAmount = 6
PROPERTIES
    NoFundingOnceFrozen
CHECK_DEADLOCK FALSE
