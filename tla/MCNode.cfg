SPECIFICATION MCSpec
CONSTANTS
  Guild = {g1}
  Build = {b1, b2}
  MaxChange = 2
  MaxFail = 1
  MaxMiss = 1
  ANet = {"n"}
  ADev = {"d"}
  AOwner <- MCAdminOwner
  MaxMoves = 1
  MaxAdmin = 1
  MaxFault = 1
  Overlap = 2
  MaxKeys = 2
  MaxStops = 1
  MaxLogouts = 1
  MaxUpdates = 1
  MaxKills = 1
  MaxLogins = 2
  UpdTask = {t1}
  MaxVersion = 3
  MaxResponse = 3
  MaxApply = 2
  MaxCut = 1
  FrontUser = {u1}
  Port = {p1}
  Req = {r1}
  Timer = tm
  NoTarget = nt
  MaxClick = 1
  MaxTurn = 1
  Gui = {"p", "q", "r"}
  Tries = 2
  MaxGuiClick = 1
  MaxOrder = 1
  MaxGuiFail = 1
  Dev = {1, 2, 3}
  Obs = {2}
  Owner <- MCOwner
  DeviceLabel <- MCDeviceLabel
  Label = {"mc", "wiki"}
  Offer <- MCOffer
  MaxSvcChange = 3
  MaxSilent = 2
  Svc = {"s"}
  Peer = {"p"}
  Addr = {"x", "y"}
  MaxProxyChange = 3
  MaxProxyCert = 2
  MaxCrash = 2
INVARIANT MembershipSafe
 
 
 
 
PROPERTY FrontSafe
PROPERTY ServicesSafe
PROPERTY RowsFollowRoles
 
PROPERTY EngineSettles
PROPERTY FrontsSettle
CHECK_DEADLOCK FALSE
