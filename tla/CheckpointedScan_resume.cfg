SPECIFICATION Spec
CONSTANTS
    u1 = u1
    u2 = u2
    u3 = u3
    NoUnit = NoUnit
    Units <- MCUnits
    Selections <- AllOnly
    Workers = 2
    MaxCrashes = 2
    MaxFaults = 0
INVARIANTS NoRescan
