SPECIFICATION Spec
CONSTANTS
    Signup = Signup
    Resends = {s1, s2}
    Verifiers = {s1, s2}
    Production = FALSE
    Quotas <- HourAndDay
    Limit <- OneAnHourTwoADay
    MaxVerifyAttempts = 1
    MaxRequests = 4
    MaxFaults = 1
SYMMETRY Symmetric
INVARIANTS
    TypeOK
    CodesAreTraceable
    VerifiedLeavesTrace
    RatesAreLimited
    CountersEnd
CHECK_DEADLOCK FALSE
