SPECIFICATION Spec
CONSTANTS
    Coordinators = {c1}
    Replays = {p1}
    Readers = {}
    Nobody = Nobody
    Nothing = Nothing
    Shards = {0}
    Bands = {3}
    Persistence = 2
    MaxBuilds = 2
    MaxThrows = 0
    MaxCrashes = 0
    MaxEvents = 5
    LockMayLapse = FALSE
PROPERTY ReplayIsIsolated
CHECK_DEADLOCK FALSE
