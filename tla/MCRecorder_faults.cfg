SPECIFICATION Spec
CONSTANTS
  Files <- MCFiles
  NoFile = 99
  Mishaps = {"card", "open", "start", "restart", "stop", "packer"}
  MaxCardMoves = 2
  MaxNews = 2
  MaxKeys = 3
  MaxUpsets = 1
INVARIANTS TypeOK Controlled PollingResumes CycleOnlyWhileBusy FilesAccounted RepliesOpen PollsWhileClosed CycleArmed PowerOffSet
CONSTRAINT Followed
CHECK_DEADLOCK FALSE
