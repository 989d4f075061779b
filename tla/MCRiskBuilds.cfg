SPECIFICATION Spec
CONSTANTS
    Coordinators = {c1, c2}
    Replays = {p1}
    Readers = {q1}
    Nobody = Nobody
    Nothing = Nothing
    Shards = {0, 1}
    Bands = {3, 7}
    Persistence = 2
    MaxBuilds = 3
    MaxThrows = 1
    MaxCrashes = 1
    MaxEvents = 5
    LockMayLapse = TRUE
SYMMETRY Symmetric
INVARIANTS
    TypeOK
    OneBuild
    ReadersAreServed
    ShardsMatchManifest
PROPERTIES
    PublishedRevisionGrows
    RegimeChangeWasProposed
CHECK_DEADLOCK FALSE
