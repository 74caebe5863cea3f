CONSTANTS
  Block <- Forked
  Chain <- ForkedChain
  Genesis = "g"
  NoBlock = "none"
  Peer = {"p", "q"}
  FirstTip <- Divided
  LocalTip = "g"
  SyncThreshold = 0
  CapMain = 1
  CapSync = 2
  Resume = TRUE
  MainStalls = FALSE
  MaxChallenges = 1
  MaxRestarts = 0
  MaxFetches = 0
  MaxDrops = 0
SPECIFICATION Spec
INVARIANT SuccessorsValidated
CHECK_DEADLOCK FALSE
