SPECIFICATION FairSpec
CONSTANTS
  NumberOfRows = 2
  Cols = {0, 1}
  FrameIdx = {0, 1}
  Words <- AllWords
  ColOf <- Column
  FramesOf <- FrameBits
  SyncWord = "sync"
  DesyncWord = "desync"
  ZeroWord = "zero"
  DesyncFlag = {"sync", "desync"}
  Images <- ManyImages
  NoImage = NoImage
  MinGap = 3
  MaxFaults = 1
INVARIANTS TypeOK CleanLoadConfigures
PROPERTIES FrameIsStable IsFrameMemory
