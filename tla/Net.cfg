CONSTANTS
  p1 = p1
  p2 = p2
  c1 = c1
  c2 = c2
  c3 = c3
  Peer = {p1, p2}
  ConnId = {c1, c2, c3}
  Ip = {1}
  AddrOf <- MCAddrOf
  Sticky <- MCSticky
  MaxPeers = 1
  Ephemeral = {}
  NoConn = NoConn
  BookPeer = {1, 2, 3}
  MaxSize = 2
  MaxFails = 1
  MaxClock = 2
  Window = 0
  NoEntry = NoEntry
SPECIFICATION MCSpec
SYMMETRY Ids
INVARIANTS OneLoopPerPeer TableFollowsSwarm
PROPERTIES GoodPeersStay
CHECK_DEADLOCK FALSE
