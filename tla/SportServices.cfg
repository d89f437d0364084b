\* Every service, two calls at a time, velocity commands in between.
SPECIFICATION SafeSpec
CONSTANTS
  r1 = r1
  r2 = r2
  r3 = r3
  None = None
  Clients = {r1, r2}
  Requests <- EveryService
  presets <- initPresets
  BlockedNames <- DefaultBlockedModes
  wait_for_response = TRUE
  MsPerTick = 2000
  MaxMoves = 1
  LastArrival = 2
  Lateness = 9
  MaxPending = 1
  Timeout = 1
  Codes <- MCCodes
  Data <- FlagData
  Foreign = Foreign
  ForeignIds = {}
  MaxForeign = 1
  Offsets <- NoOffset
  MaxSteady = 2
SYMMETRY ClientSymmetry
INVARIANTS RefusedNeverSent IInv
PROPERTIES KeepsModeService
