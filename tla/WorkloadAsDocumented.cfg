CONSTANTS
  Dimensions = {"x"}
  Measures = {"m"}
  Null = Null
  NaN = NaN
  Low <- MCLow
  High <- MCHigh
  DropColumn = "m"
  DropAbove = 8
  MaxRows = 0
  Sources = {"old", "new"}
  SourceRows <- MCSourceRows
  Cells = {"kd", "scan"}
  MaxCount = 2
  Builds = 2
  Processes = {1}
  Plan <- MCPlan
  Counts = {1, 2}
  Options = {"resume", "stale", "force"}
  OrphansSurvive = FALSE
  MaxCommands = 5
  MaxKills = 2
SPECIFICATION Spec
INVARIANTS
  WorkloadReproduced
CHECK_DEADLOCK FALSE
