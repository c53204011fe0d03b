SPECIFICATION Spec
CONSTANTS
  add = add
  dma_a = dma_a
  c1 = c1
  c2 = c2
  c3 = c3
  Clients = {c1, c2}
  Packets = {add, dma_a}
  Uuid <- ShippedUuid
  HasHw = {add, dma_a}
  HasSw = {add}
  HwVersions = {"FAB00001"}
  MaxSlots = 2
  QueueLen = 1
  TimeMod = 4
  Horizon = 0
  NoJob = NoJob
  NoPacket = NoPacket
  Partial = Partial
INVARIANT LoadedBeforeUse
