SPECIFICATION RestoringSpec
CONSTANTS
  a = a
  b = b
  Ids = {a, b}
  Values = {"v1", "v2"}
  Links <- Pair
  Backends = {"json", "sqlite"}
  Legacy <- OneLegacy
  MaxChanges = 4
PROPERTY RestoreIsDurable
