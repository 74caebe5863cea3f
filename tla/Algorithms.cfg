SPECIFICATION USpec
CONSTANTS
  LimbBits = 2
  MaxBound = 5
  Owner = {"own", "peer"}
  LimbWidth = 6
  NumLimbs = 2
  PowLimbs = 4
  MinimumLimb = 5
  Target = 7
  MinBlockTime = 2
  ResetInterval = 0
  GenesisDifficulty = 60
  FutureLimit = 3
  BlockTimes = {1, 2, 7, 9, 40}
  Starts = {5, 64, 1000, 4095}
  MaxChain = 3
  MaxHeight = 3
  MaxLayers = 3
  Decimals = 3
  MaxNau = 5000
  None = None
  Payments <- PaymentsDef
  BatchSize = 2
  ChunkSize = 2
  WindowChunks = 2
  Samples <- SamplesDef
  MaxItems = 5
  MaxBlocks = 3
  MaxAdds = 2
  MaxRemoves = 2
  LeafValue = {1, 2}
  MaxLeafs = 8
  ElemBits = 3
  WordBits = 8
  MaxPacked = 4
  MaxIndices = 7
  MaxTampered = 2
  MaxChunks = 5
  MaxRecords = 2
  Span = 4
INVARIANTS  HeaderArithmeticIsSound GuesserAgreesWithVerifier 
INVARIANTS MembershipIsExact ArchivalFollows MmrIsItsForest PackingIsExact RecordListIsExact
PROPERTIES ImplementsCoverage
CHECK_DEADLOCK FALSE
