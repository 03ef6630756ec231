SPECIFICATION Spec
CONSTANTS
  ClaudeSessions = {s1}
  ServerSessions = {s2}
  HookProcesses = {h}
  Commands = {c}
  Servers = {m}
  Prompts = {p1}
  Replies = {r}
  Memorable = {p1}
  Buffered = {p1}
  Backends = {"json"}
  Shared = {"json"}
  MaxAlive = 2
  MaxLog = 2
  MaxFailures = 1
  NoFile = NoFile
  Empty = Empty
  Garbled = Garbled
  NoText = NoText
  NoProcess = NoProcess
INVARIANT SettledIsStored
