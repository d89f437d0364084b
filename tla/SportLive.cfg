\* A two-step sequence and one other call, with a robot that may fall silent.
SPECIFICATION Spec
CONSTANTS
  r1 = r1
  r2 = r2
  r3 = r3
  None = None
  Clients = {r1, r2}
  Requests <- Contending
  presets <- initPresets
  BlockedNames <- DefaultBlockedModes
  wait_for_response = TRUE
  MsPerTick = 2000
  MaxMoves = 0
  LastArrival = 0
  Lateness = 1
  MaxPending = 2
  Timeout = 1
  Codes <- MCCodes
  Data <- AnyData
  Foreign = Foreign
  ForeignIds = {}
  MaxForeign = 1
  Offsets <- LateOffset
  MaxSteady = 9
PROPERTIES EveryCallAnswered ImplementsModeService
