CONSTANTS
  Block <- TwoHigh
  Chain <- TwoHighChain
  Genesis = "g"
  NoBlock = "none"
  Peer = {"p"}
  FirstTip <- BothAtA1
  LocalTip = "g"
  SyncThreshold = 0
  CapMain = 1
  CapSync = 1
  Resume = TRUE
  MainStalls = TRUE
  MaxChallenges = 2
  MaxRestarts = 1
  MaxFetches = 1
  MaxDrops = 1
  RelayPeer = {1, 2}
  NumRelays = 1
  Depth = 1
  Batch = 3
  MaxHeight = 3
  MaxSends = 2
  MaxFaults = 1
  NoTx = NoTx
  PoolTx = {"t"}
  TipParent <- ForkedTips
  GobblerCacheSize = 2
  MaxTips = 3
  MaxProverFaults = 1
SPECIFICATION FollowSpec
INVARIANTS HandleIsSound FinishedMeansStored
INVARIANT NothingConfirmedIsLost
INVARIANT UpgraderIsSound
PROPERTIES EvictionIsJustified
CHECK_DEADLOCK FALSE
