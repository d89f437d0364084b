\* The declared parameters.
SPECIFICATION Spec
CONSTANTS
  Parameters <- DefaultParameters
  Poses <- OnePose
  Angles = {0, 1, 2, 3}
  NaN = NaN
  BodyZOffset = 1
  Start = 1
  Steps <- Forward
  OdomDepth = 2
  CloudDepth = 1
  MaxTime = 3
  MaxOdoms = 2
  MaxClouds = 1
INVARIANTS StampedWithNodeClock
