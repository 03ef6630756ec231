SPECIFICATION DeletionSpec
CONSTANTS
  Sessions = {s1}
  NodeIds = {n1, n2}
  Messages <- TwoFacts
  Candidates <- AllCandidates
  Extract <- MCExtract
  Answers <- OnlyFailures
  ChunkSize = 2
  MinConfidence = 50
  Near <- Paraphrases
  Contained <- MCContained
  Linked <- MCLinked
  Mentions <- MCMentions
  ImplicitFamilies <- Families
  Window = 2
  MaxLog = 2
  ScrubSnapshots = TRUE
  NoKey = NoKey
  NoNode = NoNode
  NoJob = NoJob
  NoDeletion = NoDeletion
SYMMETRY IdSymmetry
INVARIANTS DeletionTypeOK DeletedStaysDeleted
PROPERTY ErasureIsComplete
