SPECIFICATION Spec
CONSTANTS
    Signup = Signup
    Resends = {r1}
    Verifiers = {v1}
    Production = TRUE
    Quotas <- HourAndDay
    Limit <- OneAnHourTwoADay
    MaxVerifyAttempts = 2
    MaxRequests = 3
    MaxFaults = 0
INVARIANT CodeInHand
CHECK_DEADLOCK FALSE
