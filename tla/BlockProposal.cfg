SPECIFICATION MCSpec
CONSTANTS
  g = g
  a1 = a1
  a2 = a2
  a3 = a3
  a4 = a4
  a5 = a5
  b1 = b1
  b2 = b2
  n1 = n1
  n2 = n2
  NoBlock = NoBlock
  Node = {n1, n2}
  Genesis = g
  Tree <- MCTree
  Parent <- MCParent
  Height <- MCHeight
  Pow <- MCPow
  NoInputs <- MCNoInputs
  Threshold = 3
  WitnessLen = 2
  MaxMoves = 2
  Offered = {a1, b1, a2}
  Reward <- MCReward
  MinReward = 1
  Capacity = 1
INVARIANT ProposalExtendsTip
CHECK_DEADLOCK FALSE
