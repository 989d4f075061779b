SPECIFICATION FairSpec
CONSTANTS
    Jobs = {j1}
    Workers = {w1}
    PidOf <- OwnPids
    Replays = {r1}
    Original = Original
    NoEntry = NoEntry
    Free = Free
    MaxAttempts = 2
    MaxThrows = 1
    MaxCrashes = 1
    MaxFaults = 2
    MaxSends = 4
    MaxCopies = 4
    LockMayLapse = TRUE
INVARIANTS
    TypeOK
    NoLostJob
    DuplicatesArePaidFor
PROPERTIES
    EveryJobSettles
    ContractSpec
CHECK_DEADLOCK FALSE
