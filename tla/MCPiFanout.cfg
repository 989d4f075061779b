SPECIFICATION Spec
CONSTANTS
    Workers = {w1}
    Summaries = {a1}
    Nobody = Nobody
    Nothing = Nothing
    MaxRetries = 2
    Batch = 1
    MaxChanges = 1
    Slots = 2
    MaxRuns = 2
    MaxThrows = 0
    MaxCrashes = 0
    MaxStops = 0
    MaxEvents = 3
    LockMayLapse = FALSE
PROPERTY SeqIsMonotonic
CHECK_DEADLOCK FALSE
