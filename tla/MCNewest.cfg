SPECIFICATION CalmSpec
CONSTANTS
  Sessions = {s1}
  NodeIds = {n1, n2, n3, n4}
  Messages <- TwoFacts
  Candidates <- AllCandidates
  Extract <- MCExtract
  Answers <- OnlyFailures
  ChunkSize = 2
  MinConfidence = 50
  Near <- Same
  Contained <- MCContained
  Linked <- MCLinked
  Mentions <- MCMentions
  ImplicitFamilies <- Families
  Window = 2
  MaxLog = 3
  NoKey = NoKey
  NoNode = NoNode
  NoJob = NoJob
CHECK_DEADLOCK FALSE
INVARIANT NewestStatementWins
