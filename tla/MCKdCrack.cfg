CONSTANTS
  Dims = 2
  N = 6
  Point <- MCPoint
  Flagged <- MCFlagged
  DataBounds <- MCExtent
  MaxPopulation = 1
  Queries <- MCQueries
SPECIFICATION CrackSpec
INVARIANTS
  ColumnsAgree
  RowsInBounds
  LeavesTile
  CrackInv
  CrackIsolatesQuery
PROPERTIES
  ContentsFrozen
  LeafUnmoved
