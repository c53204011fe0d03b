SPECIFICATION Spec
CONSTANTS
  ByteBits = 2
  WordBytes = 2
  MemBytes = 12
  SectorBytes = 12
  Sectors = 2
  AddressMod = 32
  Signature = 6
  Images <- ExceedingImages
  NoImage = NoImage
  FaultWords = {15}
  MaxFaults = 0
  MaxCuts = 0
PROPERTY StoreKeepsImage
