CONSTANTS
  Dims = 2
  N = 5
  Point <- MCPoint
  Flagged = {}
  DataBounds <- MCExtent
  MaxPopulation = 1
  Queries <- MCQueries
  Substrates = {"adaptive_kd", "static_kd", "grid_akd"}
  K = 3
  Rounding = 1
  Score <- MCScore
  Budgets = {0, 2}
SPECIFICATION PrebuiltSpec
INVARIANTS
  PrebuiltTypeOK
  LayoutSound
  EagerSummariesExact
  RoutesEveryRow
  HoldsOutTheTop
CHECK_DEADLOCK FALSE
