\* A mint left over from an earlier run is taken for this run's.
SPECIFICATION Spec
CONSTANTS
    None = None
    Invocations <- MCAgain
    CommittedEnrollees <- First
    MaxFunds = 2
    MaxClaims = 0
    MaxAmount = 6
INVARIANTS
    AllAllocationsMinted
CHECK_DEADLOCK FALSE
