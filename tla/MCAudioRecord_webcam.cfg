SPECIFICATION Spec
CONSTANTS
  HeapStart = 1
  HeapEnd = 50
  ChannelNo = 1
  QueueNo = 1
  Waiters <- MCWaiters
  OwnerQueue = OwnerQueue
  NoQueue = NoQueue
  RecLen = 8
  CamLen = 4
  OtherSizes = {14}
  MaxOthers = 1
  MaxLost = 1
  MaxBehind = 3
INVARIANT NoBufferError
