SPECIFICATION FormSpec
CONSTANTS
  ISO2 <- MCISO2
  Folded <- MCFolded
  Scans <- MCScans
  Openings <- MCOpenings
  NewNames <- MCNames
  MaxClones = 2
  SecondsPerDay = 1
  QtyEvents = 116
  FirstId = 80
  MaxEdits = 2
  MaxFailures = 1
  MaxRuns = 2
  Values <- MCValues
  Percents <- MCPercents
INVARIANTS TypeOK SelectionResolves SettledIsStored ReimportAddsNothing
INVARIANTS TypedValuesStay DerivedFresh SourcesCoverTotal MembersCoverSites
PROPERTIES ImportIsAdditive ImportWritesWhatItShows EditsAreStored
CHECK_DEADLOCK FALSE
