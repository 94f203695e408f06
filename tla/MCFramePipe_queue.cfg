SPECIFICATION Spec
CONSTANTS
  CsiNo = 3
  VideoNo = 4
  Pieces = 2
  None = None
  MaxLate = 0
  MaxFails = 1
  MaxCalls = 3
INVARIANTS VideoBufsOwned NoStall
PROPERTIES ImplementsFrameQueue
