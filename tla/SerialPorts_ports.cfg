SPECIFICATION FairSpec
CONSTANTS
  Bytes = {"00", "AA", "FF", "bin", "hex", "digit"}
  Bin = "bin"
  Hex = "hex"
  Nibbles = {"digit"}
  WordBytes = 2
  BitClocks = 1
  StopClocks = 1
  TimeToSendValue = 6
  On <- OnPattern
  Off <- OffPattern
  BitWords <- SixBits
  Hold = 2
  Links = {"uart", "bitbang"}
INVARIANTS TypeOK WordsAreBytes HeaderOpensPort WordsReachFsm BitbangWordsOnce
PROPERTY SilenceReleases
