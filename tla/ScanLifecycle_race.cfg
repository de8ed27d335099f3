SPECIFICATION Spec
CONSTANTS
    aws = aws
    ad = ad
    other = other
    NoSession = NoSession
    Sessions = {s1}
    Starts = {c1, c2}
    Providers <- MCProviders
    AD = ad
    Registered <- MCRegistered
    Requests <- MCRequests
    MaxForest = 1
    MaxEvents = 1
    SerialStarts = FALSE
INVARIANTS OneScanPerSession
CHECK_DEADLOCK FALSE
