\* Three calls contending for the sequence and for a table of two entries.
SPECIFICATION SafeSpec
CONSTANTS
  r1 = r1
  r2 = r2
  r3 = r3
  None = None
  Clients = {r1, r2, r3}
  Requests <- Contending
  presets <- initPresets
  BlockedNames <- DefaultBlockedModes
  wait_for_response = TRUE
  MsPerTick = 2000
  MaxMoves = 0
  LastArrival = 3
  Lateness = 9
  MaxPending = 2
  Timeout = 1
  Codes <- MCCodes
  Data <- AnyData
  Foreign = Foreign
  ForeignIds = {}
  MaxForeign = 1
  Offsets <- NoOffset
  MaxSteady = 3
SYMMETRY ClientSymmetry
INVARIANTS TypeOK EveryCallTracked SequenceSound SuccessMeansAccepted StepsFollow OneSequenceAtATime IInv
