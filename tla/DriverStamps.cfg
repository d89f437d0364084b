\* Every setting of the parameters; clocks that start unset, and are set back.
SPECIFICATION Spec
CONSTANTS
  Parameters <- AllParameters
  Poses <- TwoPoses
  Angles = {0, 1, 2, 3}
  NaN = NaN
  BodyZOffset = 1
  Start = 0
  Steps <- BackAndForth
  OdomDepth = 1
  CloudDepth = 2
  MaxTime = 3
  MaxOdoms = 2
  MaxClouds = 2
INVARIANTS TypeOK CloudNeverLeadsTf CloudMovedOnlyToTf CloudsInOrder TfAgreesWithOdometry JointsNamedRight
