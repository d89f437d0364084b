\* Three calls over a table of one entry; every kind of reply.
SPECIFICATION SafeSpec
CONSTANTS
  r1 = r1
  r2 = r2
  r3 = r3
  None = None
  NotAnObject = NotAnObject
  Clients = {r1, r2, r3}
  Services <- RobotStateServices
  StatusIn <- MCStatusIn
  ListIn <- MCListIn
  MaxPending = 1
  Timeout = 1
  Codes <- MCCodes
  Data <- MCData
  Foreign = Foreign
  ForeignIds = {}
  MaxForeign = 1
  Offsets <- NoOffset
  MaxSteady = 2
SYMMETRY ClientSymmetry
INVARIANTS TypeOK EveryCallTracked ReportsTheReply RunningIsReported IInv
PROPERTIES ServicesFollowApiCall
