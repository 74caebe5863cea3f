SPECIFICATION MCSpec
CONSTANTS
  c1 = c1
  c2 = c2
  c3 = c3
  p1 = p1
  p2 = p2
  i1 = i1
  Conn = {c1, c2, c3}
  None = None
  Tolerance = 2
  MaxNumPeers = 1
  Severity = {1, 2}
  Reward = 1
  Capacity = 2
  MaxEvents = 2
  PeerOf <- MCPeerOf
  IpOf <- MCIpOf
INVARIANTS PeerMapIsSound
PROPERTIES StandingOnlyFalls BansReachTheActorWithRoom
CHECK_DEADLOCK FALSE
