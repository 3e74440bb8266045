SPECIFICATION Spec
CONSTANTS
  a = a
  b = b
  a1 = a1
  a2 = a2
  b1 = b1
  g = g
  u = u
  o1 = o1
  s1 = s1
  NoReport = NoReport
  NoReq = NoReq
  NoVersion = NoVersion
  Device <- PairDevice
  Req <- PairReq
  Owner <- PairOwner
  MemberOf <- UserMemberOf
  Scope <- UserScope
  Guild <- MCGuild
  Offer <- MCOffer
  Sighting <- MCSighting
  Capacity = 2
  Changes = 1
  Faults = 0
  Restarts = 0
  MayCut = TRUE
  Slow = FALSE
PROPERTY Settles
