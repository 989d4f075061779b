SPECIFICATION Spec
CONSTANTS
    Workers = {w1, w2}
    Summaries = {}
    Nobody = Nobody
    Nothing = Nothing
    MaxRetries = 2
    Batch = 1
    MaxChanges = 2
    Slots = 2
    MaxRuns = 2
    MaxThrows = 1
    MaxCrashes = 1
    MaxStops = 1
    MaxEvents = 2
    LockMayLapse = FALSE
SYMMETRY Symmetric
INVARIANTS
    TypeOK
    OneComputation
    
    NoLostRequest
PROPERTIES
    PublicationsAdvance
CHECK_DEADLOCK FALSE
