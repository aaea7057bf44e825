\* The second claim is built from the version of D_i that the first one left.
SPECIFICATION Spec
CONSTANTS
    None = None
    Invocations <- MCAgain
    CommittedEnrollees <- First
    MaxFunds = 1
    MaxClaims = 1
    MaxAmount = 6
INVARIANTS
    SecondClaimSpendsTheSpentNote
CHECK_DEADLOCK FALSE
