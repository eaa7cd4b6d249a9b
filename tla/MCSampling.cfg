CONSTANTS
  Dims = 2
  N = 8
  Point <- MCPoint
  Flagged <- MCFlagged
  DataBounds <- MCExtent
  MaxPopulation = 6
  Queries <- MCQueries
  Present <- MCPresent
  Persist = FALSE
  ExactRequests = {TRUE, FALSE}
  PilotSize = 2
  MaxRounds = 4
  OnDisk = TRUE
  ScanRows = 5
SPECIFICATION EngineSpec
INVARIANTS
  SamplesAreWithoutReplacement
PROPERTIES
  AnswersAreRight
