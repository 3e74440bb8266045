SPECIFICATION RotSpec
CONSTANTS
  Client = {c1, c2}
  MaxKey = 6
  MaxChain = 4
  MaxStop = 1
INVARIANT NeverWithoutPath
CHECK_DEADLOCK FALSE
