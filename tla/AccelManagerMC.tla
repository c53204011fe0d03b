--------------------------- MODULE AccelManagerMC ---------------------------
(* Instances of AccelManager for TLC.                                      *)
EXTENDS AccelManager, TLC

CONSTANTS add, dma_a, c1, c2, c3

(* accel_add.c gives its packet the uuid 0x1234; any uuid but 0 serves.    *)
ColdUuid == [p \in Packets |-> IF p = add THEN 1 ELSE 2]

(* accel_dma_a.c gives its packet the uuid 0x0000.                         *)
ShippedUuid == [p \in Packets |-> IF p = add THEN 1 ELSE 0]

ClientSymmetry == Permutations(Clients)
=============================================================================
