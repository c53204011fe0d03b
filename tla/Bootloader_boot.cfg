SPECIFICATION FairSpec
CONSTANTS
  ByteBits = 2
  WordBytes = 2
  MemBytes = 12
  SectorBytes = 12
  Sectors = 2
  AddressMod = 32
  Signature = 6
  Images <- FittingImages
  NoImage = NoImage
  FaultWords = {15}
  MaxFaults = 1
  MaxCuts = 1
INVARIANTS TypeOK ExecutableIntact
PROPERTIES StoredImageLoads FlashLoadEnds
