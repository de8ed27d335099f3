CONSTANTS
  None = None
  Providers <- MCProviders
  Methods <- MCMethods
  FirstMethod <- MCFirstMethod
  Backups = {b1, b2}
  Sources <- MCSources
  Discoverable = {"dc2"}
  Budgets <- MCBudgets
  MaxInFlight = 2
  Files <- MCFiles
SPECIFICATION Spec
CHECK_DEADLOCK FALSE
INVARIANTS TypeOK TotalsMatchRows AssessmentIsMerge NeverStranded PollersStop
PROPERTIES RequestIsSelection
