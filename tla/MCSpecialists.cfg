SPECIFICATION AllSpec
CONSTANTS
  searchA = searchA
  searchB = searchB
  badWrite = badWrite
  search = search
  write = write
  NoCall = NoCall
  Calls = {searchA, searchB, badWrite}
  Tools = {search, write}
  ToolOf <- MCToolOf
  Invalid = {badWrite}
  MaxIterations = 3
  GrantMax = 1
  MaxChecks = 1
  DriftFrom = 1
  StreakLimit = 3
  SkipDrift = FALSE
  ShortFollowUp = FALSE
  MaxBatch = 2
  Facets = {f1, f2}
  Workers = 2
  MaxClaims = 2
  MaxCrossChecks = 2
  Ids = {1, 2}
  None = None
  MaxSteps = 2
  MaxIter = 4
  MaxJobs = 2
INVARIANTS AllTypeOK IterationsBounded NoThirdRun ReportsAreTrue
PROPERTY WorkEnds
CHECK_DEADLOCK FALSE
