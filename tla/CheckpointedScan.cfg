SPECIFICATION FairSpec
CONSTANTS
    u1 = u1
    u2 = u2
    u3 = u3
    NoUnit = NoUnit
    Units <- MCUnits
    Selections <- AllOrFewer
    Workers = 2
    MaxCrashes = 2
    MaxFaults = 1
INVARIANTS TypeOK CountedOnce CheckpointTrustworthy AcknowledgedIsDurable SlotsAccounted
PROPERTIES AttemptEnds
