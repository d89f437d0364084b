\* A robot that reports status -1 for a request.
SPECIFICATION SafeSpec
CONSTANTS
  r1 = r1
  r2 = r2
  r3 = r3
  None = None
  Clients = {r1}
  Requests <- EveryService
  presets <- initPresets
  BlockedNames <- DefaultBlockedModes
  wait_for_response = TRUE
  MsPerTick = 2000
  MaxMoves = 0
  LastArrival = 3
  Lateness = 9
  MaxPending = 1
  Timeout = 1
  Codes <- MCCodes
  Data <- AnyData
  Foreign = Foreign
  ForeignIds = {}
  MaxForeign = 1
  Offsets <- NoOffset
  MaxSteady = 3
INVARIANTS NoReplyMeansSilent
