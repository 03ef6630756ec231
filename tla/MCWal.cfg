SPECIFICATION FairSpec
CONSTANTS
  Entries = {e1, e2}
  MaxVersion = 4
  MaxFailures = 1
  Free = Free
  NoVersion = NoVersion
INVARIANTS TypeOK FlushedIsSaved SuspendKeepsBuffer
PROPERTIES WritesDropNothing EntriesReachDisk
