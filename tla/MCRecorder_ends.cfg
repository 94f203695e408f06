SPECIFICATION FairSpec
CONSTANTS
  Files <- MCFiles
  NoFile = 99
  Mishaps = {"card", "open", "start", "packer", "numbers"}
  MaxCardMoves = 1
  MaxNews = 1
  MaxKeys = 2
  MaxUpsets = 1
PROPERTIES WaitEnds PictureEnds
CHECK_DEADLOCK FALSE
