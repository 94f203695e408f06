SPECIFICATION FairSpec
CONSTANTS
  CsiNo = 3
  VideoNo = 2
  Pieces = 3
  None = None
  MaxLate = 2
  MaxFails = 0
  MaxCalls = 2
INVARIANTS TypeOK SensorBufsOwned Answered
PROPERTIES WholeFrames PictureTaken CallsEnd
