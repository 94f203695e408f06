SPECIFICATION FairSpec
CONSTANTS
  t1 = t1  t2 = t2  m1 = m1  m2 = m2  m3 = m3
  Tasks <- MCTasks
  Msgs <- MCMsgs
  Urgent <- MCUrgent
  Empty = Empty
  Nobody = Nobody
  Reader = Reader
  MaxQSize = 3
  MaxMsgs = 3
  MaxMsgLength = 8
  SendSizes = {4, 8, 12}
  ReceiveSizes = {8}
  CanFlush = FALSE
PROPERTIES QueuedKept
