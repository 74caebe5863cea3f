SPECIFICATION MCSpec
CONSTANTS
  Block <- MCBlock
  Genesis = "g"
  Chain <- MCChain
  TxId <- MCTxId
  Input = {1, 2}
  Kernel <- MCKernel
  Tx <- MCTx
  Density <- MCDensity
  Spends <- MCSpends
  MaxSize = 3
  MaxTime = 1
  NoTx = NoTx
  MailCap = 1
  Word = 16
  AmountMax = 7
  LockPeriod = 2
  MinBlockTime = 1
  LastTime = 3
  Subsidies <- MCSubsidies
  BlocksPerGeneration = 2
  TailSubsidy = 1
  MaxNumInputs = 3
  MaxNumOutputs = 3
  GenesisOutputs <- MCGenesis
  Drafts <- MCDrafts
  MaxProven = 2
  MaxMerged = 2
  MaxBlocks = 3
  NoCoinbase = NoCoinbase
INVARIANTS TablesAgree EventsExact SpentOnlyIfLate
INVARIANTS SupplyIsScheduled OnlySpendableIsSpent
PROPERTIES MergeInputsReturn
