------------------------------ MODULE SocBusMC ------------------------------
(* Instances of SocBus for TLC.                                            *)
EXTENDS SocBus

To(slave) == [to |-> slave, effect |-> "none"]
Store(e) == [to |-> "manager", effect |-> e]

(* Config words, the shield's three settings, RAM, the fabric and the void. *)
Accesses == {Store("config"), Store("couple"), Store("decouple"), Store("force")}
              \cup {To(t) : t \in {"ram", "fabric", "void"}}
Fetches == {To("ram")}
=============================================================================
