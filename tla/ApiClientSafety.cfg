\* Three calls over a table of two entries, callbacks that call again, a
\* plain send, duplicated, late and lost replies.
SPECIFICATION SafeSpec
CONSTANTS
  c1 = c1
  c2 = c2
  c3 = c3
  foreign = foreign
  Calls = {c1, c2, c3}
  MaxSends = 1
  MaxPending = 2
  Timeout = 1
  Codes <- MCCodes
  Data <- MCData
  Foreign = Foreign
  ForeignIds = {foreign}
  MaxForeign = 1
  Offsets <- LateOffset
  MaxSteady = 3
SYMMETRY CallSymmetry
INVARIANTS TypeOK AtMostOneAnswer NoCallForgotten OkMeansAccepted PendingBounded IInv
PROPERTIES KeepsApiCall
