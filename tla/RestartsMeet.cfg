SPECIFICATION IceSpec
CONSTANTS
  MaxMishap = 1
PROPERTY RestartsMeet
CHECK_DEADLOCK FALSE
