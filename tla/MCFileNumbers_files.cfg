SPECIFICATION Spec
CONSTANTS
  IndexNo = 2
  LastIndex = 3
CHECK_DEADLOCK FALSE
PROPERTIES KeepsFiles
