CONSTANTS
  Block <- TwoHigh
  Chain <- TwoHighChain
  Genesis = "g"
  NoBlock = "none"
  Peer = {"p"}
  FirstTip <- BothAtA1
  LocalTip = "g"
  SyncThreshold = 0
  CapMain = 1
  CapSync = 2
  Resume = TRUE
  MainStalls = FALSE
  MaxChallenges = 1
  MaxRestarts = 0
  MaxFetches = 0
  MaxDrops = 0
  RelayPeer = {1, 2}
  NumRelays = 1
  Depth = 1
  Batch = 3
  MaxHeight = 3
  MaxSends = 1
  MaxFaults = 1
  NoTx = NoTx
  PoolTx = {"t"}
  TipParent <- ForkedTips
  GobblerCacheSize = 2
  MaxTips = 2
  MaxProverFaults = 1
SPECIFICATION LiveSpec
PROPERTIES  PendingNodeAsks BuriedOutputsArrive
CHECK_DEADLOCK FALSE
