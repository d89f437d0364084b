\* Two calls competing for a table of one entry; the ROS clock is set back
\* and forth between ticks.
SPECIFICATION Spec
CONSTANTS
  c1 = c1
  c2 = c2
  c3 = c3
  foreign = foreign
  Calls = {c1, c2}
  MaxSends = 0
  MaxPending = 1
  Timeout = 1
  Codes <- MCCodes
  Data <- MCData
  Foreign = Foreign
  ForeignIds = {}
  MaxForeign = 1
  Offsets <- JumpingOffsets
  MaxSteady = 4
PROPERTIES EveryCallAnswered ImplementsApiCall
