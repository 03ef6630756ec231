SPECIFICATION MCSpec
CONSTANTS
  NameAda = NameAda NameBob = NameBob BobFrom = BobFrom
  Tabs = Tabs Spaces = Spaces ActuallySpaces = ActuallySpaces Hello = Hello
  Candidates <- MCCandidates Extract <- MCExtract Text <- MCText
  ImplicitFamilies <- Families
  NoKey = NoKey NoDate = NoDate NoAnswer = NoAnswer
  Messages = {NameAda, NameBob, BobFrom, Tabs, ActuallySpaces, Hello}
  Window = 1 Queries <- MCQueries Strengths = {100}
  K = 3 MaxLog = 4 MaxClock = 9 MaxAccess = 2
CONSTRAINT AskedEarly
INVARIANTS TypeOK OneValueAtATime NowIsCurrent BufferAgreesWithGraph
           BufferOutranksGraph NothingIsDraggedIn
PROPERTY PastIsStable
CHECK_DEADLOCK FALSE
