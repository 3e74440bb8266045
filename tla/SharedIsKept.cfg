SPECIFICATION PrefSpec
CONSTANTS
  p1 = p1
  p2 = p2
  u1 = u1
  u2 = u2
  Net = {1, 2}
  NetName <- MCSameName
  PrefPeer = {p1, p2}
  PeerUser <- MCPeerUser
  PeerNets <- MCPeerNets
  Switch = {"paused", "newOff"}
  MaxChoice = 2
  MaxBadWrite = 1
  MaxDeath = 1
INVARIANT SharedIsKept
CHECK_DEADLOCK FALSE
