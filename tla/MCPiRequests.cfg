SPECIFICATION FairSpec
CONSTANTS
    Workers = {w1}
    Summaries = {a1}
    Nobody = Nobody
    Nothing = Nothing
    MaxRetries = 2
    Batch = 2
    MaxChanges = 2
    Slots = 5
    MaxRuns = 6
    MaxThrows = 2
    MaxCrashes = 1
    MaxStops = 0
    MaxEvents = 3
    LockMayLapse = TRUE
PROPERTY EveryRequestSettles
CHECK_DEADLOCK FALSE
