SPECIFICATION Spec
CONSTANTS
  MockMembers <- MCMockMembers
  MockDcs <- MCMockDcs
  Collation <- MCCollation
  Scans <- MCScans
  Files <- MCFiles
  Counts <- MCCounts
  Loads <- MCLoads
  Percents <- MCPercents
  Searches <- MCSearches
  Budgets <- MCBudgets
INVARIANTS ReportAddsUp HybridWithinFull SavedSessionReopens
CHECK_DEADLOCK FALSE
