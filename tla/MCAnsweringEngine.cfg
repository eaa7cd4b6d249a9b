CONSTANTS
  Dims = 1
  N = 9
  Point <- MCPoint
  Flagged <- MCFlagged
  DataBounds <- MCExtent
  MaxPopulation = 2
  Queries <- MCQueries
  Present <- MCPresent
  Persist = TRUE
  ExactRequests = {TRUE, FALSE}
  PilotSize = 2
  MaxRounds = 4
  OnDisk = TRUE
  ScanRows = 3
SPECIFICATION EngineSpec
INVARIANTS
  EngineTypeOK
  EachRowCountsOnce
  ExactAnswersAreExact
  ConvergedIsCertified
  NeverExhausted
  EscalationReadsEverything
  ReadsAccountedFor
  RoundsWithinBudget
PROPERTIES
  AnswersAreRight
  EveryQueryAnswered
  IndexSpec
