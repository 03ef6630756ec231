SPECIFICATION Spec
CONSTANTS
  Sessions = {s1, s2}
  NodeIds = {n1, n2, n3}
  Messages <- TwoSessionMessages
  Candidates <- AllCandidates
  Extract <- MCExtract
  Answers <- OnlyFailures
  ChunkSize = 2
  MinConfidence = 50
  Near <- Paraphrases
  Contained <- MCContained
  Linked <- MCLinked
  Mentions <- MCMentions
  ImplicitFamilies <- Families
  Window = 2
  MaxLog = 2
  NoKey = NoKey
  NoNode = NoNode
  NoJob = NoJob
CONSTRAINT OneStory
SYMMETRY Symmetry
INVARIANTS
  TypeOK
  OneStatementPerSlot
  NoContentTwice
  ProcessedIsRemembered
  RefsPointAtSource
  OneNodePerEntity
  AccessCountsSessions
