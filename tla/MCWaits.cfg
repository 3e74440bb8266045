SPECIFICATION MCSpec
CONSTANTS
  d1 = d1
  d2 = d2
  d3 = d3
  r1 = r1
  r2 = r2
  r3 = r3
  r4 = r4
  guild = guild
  user = user
  w1 = w1
  w2 = w2
  Device <- MCDevice
  Req <- MCReq
  Owner <- MCOwner
  Capacity = 3
  MaxSeq = 4
  Scope <- MCScope
  Waiter <- MCWaiter
  Interest <- MCInterest
  MaxBump = 2
  GcEvery = 2
INVARIANT ParkSafe
INVARIANT ScopedSafe
INVARIANT WakersSafe
PROPERTY DisplacedLeaves
PROPERTY ImplementsOnePark
PROPERTY ImplementsHerdWake
PROPERTY ImplementsTargetedWake
CHECK_DEADLOCK FALSE
