SPECIFICATION Spec
CONSTANTS
  Sessions = {s1}
  NodeIds = {n1, n2, n3, n4}
  Messages <- SessionMessages
  Candidates <- AllCandidates
  Extract <- MCExtract
  Answers <- MCAnswers
  ChunkSize = 2
  MinConfidence = 50
  Near <- Paraphrases
  Contained <- MCContained
  Linked <- MCLinked
  Mentions <- MCMentions
  ImplicitFamilies <- Families
  Window = 2
  MaxLog = 3
  NoKey = NoKey
  NoNode = NoNode
  NoJob = NoJob
CONSTRAINT RulesOrRefined
SYMMETRY IdSymmetry
INVARIANTS RefsPointAtSource SupersededHasOneSuccessor EpisodesFormChains FactsYieldToTheirSlot
PROPERTY FactsKeepAValue
