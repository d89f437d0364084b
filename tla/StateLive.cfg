\* Two calls over a table of one entry, a robot that may be silent, a ROS clock that may be set.
SPECIFICATION Spec
CONSTANTS
  r1 = r1
  r2 = r2
  r3 = r3
  None = None
  NotAnObject = NotAnObject
  Clients = {r1, r2}
  Services <- RobotStateServices
  StatusIn <- RunningOnly
  ListIn <- MCListIn
  MaxPending = 1
  Timeout = 1
  Codes <- MCCodes
  Data <- SmallData
  Foreign = Foreign
  ForeignIds = {}
  MaxForeign = 1
  Offsets <- LateOffset
  MaxSteady = 4
PROPERTIES EveryCallAnswered ServicesKeepApiCall
