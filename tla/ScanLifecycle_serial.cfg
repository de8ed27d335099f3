SPECIFICATION FairSpec
CONSTANTS
    aws = aws
    ad = ad
    other = other
    NoSession = NoSession
    Sessions = {s1}
    Starts = {c1, c2}
    Providers <- MCProviders
    AD = ad
    Registered <- MCRegistered
    Requests <- MCRequests
    MaxForest = 1
    MaxEvents = 1
    SerialStarts = TRUE
INVARIANTS TypeOK ReportIsWhole EventStreamWhole NoProviderLeftRunning
PROPERTIES SettledFrozen ScanCompletes
CHECK_DEADLOCK FALSE
