SPECIFICATION Spec
CONSTANTS
    Jobs = {j1}
    Workers = {w1, w2}
    PidOf <- OwnPids
    Replays = {}
    Original = Original
    NoEntry = NoEntry
    Free = Free
    MaxAttempts = 1
    MaxThrows = 0
    MaxCrashes = 1
    MaxFaults = 1
    MaxSends = 2
    MaxCopies = 2
    LockMayLapse = TRUE
SYMMETRY Symmetric
INVARIANT
    CriticalSectionOwnsLock
CHECK_DEADLOCK FALSE
