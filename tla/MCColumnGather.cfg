CONSTANTS
  RowCount = 11
  MeasureCount = 2
  RowsPerPage = 2
  MaxRangeRows = 4
  SlotRows = 2
  RingDepth = 3
  ScanBlockRows = 3
  FullFraction = 8
  Ratio = 7
  Batches <- MCBatches
  MaxGathers = 2
  None = None
SPECIFICATION GatherSpec
INVARIANTS
  GatherTypeOK
  ValuesReachTheirStrata
  SlotsAccounted
  BytesAsReported
PROPERTIES
  GatherReturns
CHECK_DEADLOCK FALSE
