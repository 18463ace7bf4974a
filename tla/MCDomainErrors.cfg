CONSTANTS
    Callers = {c1, c2}
    NoCaller = NoCaller
    Intervals <- MCIntervals
    Starts <- MCStarts
    Horizon = 4
    Keys = {k1}
    MaxRetries = 1
    BackoffBase = 1
    BackoffMax = 2
    Ttl = 2
SPECIFICATION HttpSafe
INVARIANT FailuresAreDomainErrors
