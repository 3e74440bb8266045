SPECIFICATION MCSpec
CONSTANTS
  Pub = {p1, p2}
  User = {u1, u2}
  Key = {k1}
  KeyUser <- MCKeyUser
  Handler = {h1, h2}
  Want = {wiki}
  Label = {wiki}
  IdxMax = 2
  MaxDevices = 1
  MaxMint = 2
  MaxEvent = 1
  MaxRequest = 4
  LabelReq = {a1, a2, b1, c1}
  Asker <- MCAsker
  SeedName <- MCSeedName
  MaxSuffix = 2
  Client = {c1, c2}
  MaxKey = 6
  MaxChain = 4
  MaxStop = 1
  Viewer = {v1, v2}
  SignedDev = {d1, d2}
  Ttl = 3
  ReuseCap = 2
  MaxClock = 3
  MaxIdent = 2
  Orderer = {o1, o2}
  DnsName = {n1, n2}
  Txt = {x, y}
  ChallengeTtl = 2
  Window = 2
  MaxWeek = 2
  MaxDevice = 1
  MaxLive = 1
  MaxValues = 1
  MaxTime = 4
  MaxMove = 1
  MaxOrder = 3
  MaxRestart = 1
  Source = {s1, s2, s3}
  Proxy = {p}
  LimWindow = 2
  MaxPerIp = 2
  MaxTotal = 3
  MaxTracked = 2
  MaxInstant = 3
  Net = {1, 2}
  NetName <- MCNetName
  PrefPeer = {p1, p2}
  PeerUser <- MCPeerUser
  PeerNets <- MCPeerNets
  Switch = {"paused", "newOff"}
  MaxChoice = 2
  MaxBadWrite = 1
  MaxDeath = 1
  Ctl = {ctl}
  Port = {"port"}
  Https = "https"
  Name = {box, wiki}
  WebName = {wiki}
  FwNet <- MCNet
  Ip = {i1, i2}
  Feed <- MCFeed
  Seeds <- MCSeeds
  Cap = 2
  MaxOps = 2
  MaxFail = 1
  k1 = k1
  a1 = a1
  a2 = a2
  b1 = b1
  c1 = c1
  alice = alice
  bob = bob
  carol = carol
  p1 = p1
  p2 = p2
  u1 = u1
  u2 = u2
  wiki = wiki
  n1 = n1
  n2 = n2
  i1 = i1
  i2 = i2
SYMMETRY MCHandlers
INVARIANT LabelsSafe
 
 
 
 
 
PROPERTY RotationHolds
PROPERTY SignHolds
 
CHECK_DEADLOCK FALSE
