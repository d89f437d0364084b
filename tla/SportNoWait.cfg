\* wait_for_response: false.  Every service is answered at once.
SPECIFICATION SafeSpec
CONSTANTS
  r1 = r1
  r2 = r2
  r3 = r3
  None = None
  Clients = {r1, r2}
  Requests <- EveryRequest
  presets <- initPresets
  BlockedNames <- DefaultBlockedModes
  wait_for_response = FALSE
  MsPerTick = 2000
  MaxMoves = 0
  LastArrival = 2
  Lateness = 9
  MaxPending = 1
  Timeout = 1
  Codes <- Accepting
  Data <- AnyData
  Foreign = Foreign
  ForeignIds = {}
  MaxForeign = 1
  Offsets <- NoOffset
  MaxSteady = 2
SYMMETRY ClientSymmetry
INVARIANTS SequenceSound IInv
PROPERTIES KeepsModeService
