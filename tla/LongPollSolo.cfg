SPECIFICATION Safety
CONSTANTS
  a = a
  b = b
  a1 = a1
  a2 = a2
  b1 = b1
  g = g
  u = u
  o1 = o1
  s1 = s1
  NoReport = NoReport
  NoReq = NoReq
  NoVersion = NoVersion
  Device <- SoloDevice
  Req <- SoloReq
  Owner <- SoloOwner
  MemberOf <- SoloMemberOf
  Scope <- MCGuild
  Guild <- MCGuild
  Offer <- MCNone
  Sighting <- MCNone
  Capacity = 2
  Changes = 2
  Faults = 1
  Restarts = 0
  MayCut = FALSE
  Slow = FALSE
INVARIANT RowsFollowRequest
