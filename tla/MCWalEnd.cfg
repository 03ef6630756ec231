SPECIFICATION Spec
CONSTANTS
  Entries = {e1, e2}
  MaxVersion = 3
  MaxFailures = 0
  Free = Free
  NoVersion = NoVersion
SYMMETRY EntrySymmetry
INVARIANT EndDiscardsWal
