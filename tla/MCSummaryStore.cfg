CONSTANTS
  Dims = 1
  N = 4
  Point <- MCPoint
  Flagged <- MCFlagged
  DataBounds <- MCExtent
  MaxPopulation = 1
  Queries <- MCQueries
  Present <- MCPresent
SPECIFICATION IndexSpec
INVARIANTS
  StoreTypeOK
  CompleteIsExact
  TrackerMatchesSample
  BankedOnce
PROPERTIES
  CompleteIsFinal
  NoRowReadTwice
