SPECIFICATION FairSpec
CONSTANTS
    ad = ad
    NoSession = NoSession
    NoReport = NoReport
    Sessions = {s1, s2}
    Starts = {c1, c2}
    Providers <- MCProviders
    AD = ad
    Registered <- MCProviders
    Requests <- MCRequests
    MaxForest = 1
    MaxEvents = 0
    SerialStarts = TRUE
PROPERTIES ImplementsService
CHECK_DEADLOCK FALSE
