SPECIFICATION Spec
CONSTANTS
  add = add
  dma_a = dma_a
  c1 = c1
  c2 = c2
  c3 = c3
  Clients = {c1, c2, c3}
  Packets = {add, dma_a}
  Uuid <- ColdUuid
  HasHw = {add, dma_a}
  HasSw = {add}
  HwVersions = {"FAB00001", "FAB00002", "FABFFFFF"}
  MaxSlots = 2
  QueueLen = 1
  TimeMod = 4
  Horizon = 0
  NoJob = NoJob
  NoPacket = NoPacket
  Partial = Partial
SYMMETRY ClientSymmetry
INVARIANTS TypeOK SlotAccounting SlotOwnership TargetFound NoDanglingItem JobInOnePlace AnsweredOnce NeverForeignConfig
