---------------------------- MODULE SerialPortsMC ----------------------------
(***************************************************************************)
(* Instances of SerialPorts for TLC: words of two bytes or six bits,       *)
(* control patterns of three bits that, like 0xFAB1 and 0xFAB0, differ in  *)
(* their last bit and do not occur inside each other's zeros.              *)
(***************************************************************************)
EXTENDS SerialPorts

OnPattern == <<0, 1, 1>>
OffPattern == <<0, 1, 0>>
SixBits == {<<1, 0, 1, 1, 0, 1>>, <<0, 1, 1, 0, 1, 0>>}
=============================================================================
