SPECIFICATION Spec
CONSTANTS
    aws = aws
    ad = ad
    other = other
    NoSession = NoSession
    Sessions = {s1}
    Starts = {c1, c2}
    Providers <- MCProviders
    AD = ad
    Registered <- MCRegistered
    Requests <- MCSameRequest
    MaxForest = 1
    MaxEvents = 0
    SerialStarts = FALSE
INVARIANTS PartialFailure
PROPERTIES LateStartsRefused
CHECK_DEADLOCK FALSE
