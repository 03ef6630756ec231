SPECIFICATION Spec
CONSTANTS
  a = a
  b = b
  Ids = {a, b}
  Values = {"v1", "v2"}
  Links <- Pair
  Backends = {"json", "sqlite"}
  Legacy <- OneLegacy
  MaxChanges = 4
INVARIANTS TypeOK ChangesCoverDifference NoDanglingEdges CachesAreCurrent IndexMatchesEdges
PROPERTY ImplementsDurableGraph
