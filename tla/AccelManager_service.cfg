SPECIFICATION FairSpec
CONSTANTS
  add = add
  dma_a = dma_a
  c1 = c1
  c2 = c2
  c3 = c3
  Clients = {c1, c2}
  Packets = {dma_a}
  Uuid <- ColdUuid
  HasHw = {dma_a}
  HasSw = {}
  HwVersions = {"FAB00001", "FAB00002", "FABFFFFF"}
  MaxSlots = 2
  QueueLen = 1
  TimeMod = 5
  Horizon = 2
  NoJob = NoJob
  NoPacket = NoPacket
  Partial = Partial
INVARIANT BestFreeSlot
PROPERTIES EveryJobReturns IsSynchronousService
