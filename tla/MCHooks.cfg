SPECIFICATION FairSpec
CONSTANTS
  ClaudeSessions = {s1}
  ServerSessions = {s2}
  HookProcesses = {h}
  Commands = {c}
  Servers = {m}
  Prompts = {p1}
  Replies = {r}
  Memorable = {p1, r}
  Buffered = {p1}
  Backends = {"json", "sqlite"}
  Shared = {"sqlite"}
  MaxAlive = 2
  MaxLog = 2
  MaxFailures = 1
  NoFile = NoFile
  Empty = Empty
  Garbled = Garbled
  NoText = NoText
  NoProcess = NoProcess
INVARIANTS TypeOK ClaimsAreStored BufferIsResumed RepliesAreLoggedOnce ProgressStaysReadable
PROPERTY ImplementsLastingMemory SaidIsRemembered
