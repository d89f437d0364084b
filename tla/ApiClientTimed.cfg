\* Two calls, made between sweeps two ticks apart; the ROS clock is set by
\* one tick.
SPECIFICATION TimedSpec
CONSTANTS
  c1 = c1
  c2 = c2
  Calls = {c1, c2}
  MaxSends = 0
  MaxPending = 2
  Timeout = 2
  Codes <- MCCodes
  Data <- MCData
  Foreign = Foreign
  ForeignIds = {1}
  MaxForeign = 1
  Offsets <- SetOnce
  MaxSteady = 9
  SweepPeriod = 2
  Spread = 1
SYMMETRY CallSymmetry
INVARIANTS TimeoutOnTime TimedInv
