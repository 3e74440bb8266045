SPECIFICATION MCSpec
CONSTANTS
  MaxMishap = 1
  MaxRelOutage = 1
  Ttl = 2
  MaxTick = 2
  Lan = {1, 2}
  CandTtl = 2
  AckTtl = 1
  ProbeGrace = 2
  ProbeBackoff = 2
  BeaconSettle = 1
  VerifyGrace = 2
  StaleGrace = 2
  Cooldown = 1
  Peer = {b, c, d}
  Skewed = {d}
  GossipLife = 4
  Hold = 2
  FullMargin = 1
  MaxFlip = 2
  MaxTask = 2
  Svc = {"a", "x"}
  Ours = {"a"}
  Life = 2
  RenewBefore = 1
  MaxBack = 2
  MaxChange = 2
  MaxCrash = 1
  MaxOutage = 1
  MaxRefusal = 1
  TunPeer = {"p", "q"}
  TunIp <- MCTunIp
  Rank = {1, 2}
  MaxInput = 3
  MaxEnd = 2
  MaxRouteFail = 1
INVARIANT TunnelsSafe
PROPERTY IceSafe
PROPERTY RelaySafe
PROPERTY BeaconSafe
PROPERTY GossipSafe
 
 
CHECK_DEADLOCK FALSE
