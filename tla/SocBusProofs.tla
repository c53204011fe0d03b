---------------------------- MODULE SocBusProofs ----------------------------
(***************************************************************************)
(* Proofs about SocBus, for any accesses of the CPU, any behaviour of the  *)
(* fabric and any timeout: its types, that answers return to their sender, *)
(* that an access fails only for a reason, and that the bus implements     *)
(* BusService.                                                             *)
(***************************************************************************)
EXTENDS SocBus, TLAPS

Masters == {"cpu", "dma"}

(* TypeOK, with the bound of the counter while it counts. *)
Types == TypeOK /\ (keeper = "busy" => cnt <= Timeout)

(* The bus is granted to the holder of the token only, and what answers in *)
(* this clock was accepted from the master that has the bus now.           *)
Granted ==
  /\ active # "none" => token = active
  /\ active # "none" /\ (wbm_err \/ ack["ram"] \/ ack["manager"]) => served = active

(* The bus switch serves a port that waits, the bridge holds its access,   *)
(* and a timeout is reported to a port that waits for it, or to none.      *)
Switched ==
  /\ pending <=> sw # "idle"
  /\ \A p \in Ports : sw = p => port[p] = "wait" /\ sel_q = p
  /\ \A p \in Ports : req[p] => port[p] = "wait"
  /\ \A p \in Ports : port[p] = "wait" => sw = p \/ req[p]
  /\ keeper = "busy" => sw # "idle"
  /\ keeper = "error" /\ sw = "idle" => port[sel_q] # "wait"

(* An access is performed while its port is served, and answered in the    *)
(* clock after.                                                            *)
Performed ==
  /\ \A p \in Ports : port[p] = "wait" => done[p] \in {0, 1}
  /\ \A p \in Ports : port[p] = "wait" /\ sw # p => done[p] = 0
  /\ \A p \in Ports : sw = p /\ done[p] = 1 =>
       active = "cpu" /\ op[p].to \in DOMAIN ack /\ ack[op[p].to]
  /\ \A s \in {"ram", "manager"} : ack[s] /\ active = "cpu" /\ pending =>
       done[sw] = 1 /\ op[sw].to = s

BusInv == Types /\ Granted /\ Switched /\ Performed

-----------------------------------------------------------------------------
(* Initially every part of the invariant holds. *)
LEMMA BusInit == Init => BusInv
<1> SUFFICES ASSUME Init PROVE BusInv
  OBVIOUS
<1>1. Types
  <2> USE DEF Init
  <2>1. /\ port \in [Ports -> {"idle", "request", "wait"}]
        /\ req \in [Ports -> BOOLEAN] /\ sel_q \in Ports
    BY DEF Ports
  <2>2. ack \in [{"ram", "manager"} -> BOOLEAN]
    OBVIOUS
  <2>3. done \in [Ports -> Nat] /\ disturbed \in [Ports -> BOOLEAN]
    OBVIOUS
  <2>4. cnt \in 0 .. Timeout + 1 /\ drive \in FabricDrive
    BY BusAssumption
  <2>5. since \in 1 .. 4 /\ clk \in {0, 1} /\ keeper \in {"idle", "busy", "error"}
    OBVIOUS
  <2> QED
    BY <2>1, <2>2, <2>3, <2>4, <2>5 DEF Types, TypeOK
<1>2. Granted
  BY DEF Init, Granted
<1>3. Switched
  BY DEF Init, Switched, Ports
<1>4. Performed
  BY DEF Init, Performed, Ports
<1> QED
  BY <1>1, <1>2, <1>3, <1>4 DEF BusInv

(* There are two masters, and the bus of each is a wire. *)
LEMMA Cycles ==
  /\ DOMAIN cyc = Masters
  /\ cyc["cpu"] = cpu_cyc /\ cyc["dma"] = dma_cyc
BY DEF cyc, Masters

(* The token goes to the other master. *)
LEMMA OtherMaster ==
  ASSUME NEW t \in Masters PROVE (CHOOSE m \in Masters : m # t) \in Masters
BY DEF Masters

(* The switch selects a port. *)
LEMMA Selected ==
  ASSUME TypeOK PROVE sel \in Ports /\ (sw \in Ports => sel = sw)
BY DEF TypeOK, sel, Ports

(* The ports move as they may. *)
LEMMA PortMoved ==
  ASSUME TypeOK, CpuPorts, NEW p \in Ports
  PROVE  /\ port'[p] \in PortMoves(p)
         /\ port'[p] # "request" => op'[p] = op[p]
BY DEF TypeOK, CpuPorts, Ports

(* A clock keeps the types. *)
LEMMA TypesStep == ASSUME Types, Clock PROVE Types'
<1> USE DEF Types
<1>1. clk' \in {0, 1} /\ drive' \in FabricDrive
  BY DEF Clock, TypeOK
<1>2. /\ port' \in [Ports -> {"idle", "request", "wait"}]
      /\ op' \in [lsu : LsuOps, fetch : FetchOps]
  <2>1. CpuPorts
    BY DEF Clock
  <2>2. \A p \in Ports : PortMoves(p) \subseteq {"idle", "request", "wait"}
    BY DEF PortMoves, TypeOK, Ports
  <2>3. port' \in [Ports -> {"idle", "request", "wait"}]
    BY <2>1, <2>2 DEF CpuPorts, Ports
  <2>4. op' \in [lsu : LsuOps, fetch : FetchOps]
    BY <2>1 DEF CpuPorts, TypeOK, Ports
  <2> QED
    BY <2>3, <2>4
<1>3. sw' \in Ports \cup {"idle"} /\ req' \in [Ports -> BOOLEAN] /\ sel_q' \in Ports
  BY Selected DEF Clock, BusSwitch, TypeOK, Wants, Ports
<1>4. /\ keeper' \in {"idle", "busy", "error"} /\ cnt' \in 0 .. Timeout + 1
      /\ keeper' = "busy" => cnt' <= Timeout
  BY BusAssumption DEF Clock, Keeper, TypeOK
<1>5. pending' \in BOOLEAN /\ stretched' \in BOOLEAN
  BY DEF Clock, Xbus, Stretch, TypeOK, x_stb
<1>6. active' \in {"none", "cpu", "dma"} /\ token' \in {"cpu", "dma"}
  BY Cycles, OtherMaster DEF Clock, Arbiter, TypeOK, Masters
<1>7. wbm_err' \in BOOLEAN /\ ack' \in [{"ram", "manager"} -> BOOLEAN]
  BY DEF Clock, Decoder, Acknowledge, TypeOK, slave_cyc, Accept, bus_cyc
<1>8. config_we' \in BOOLEAN /\ dec_req' \in BOOLEAN /\ dec_force' \in BOOLEAN
  BY DEF Clock, Manager, TypeOK, Accept
<1>9. decoupled_reg' \in BOOLEAN
  BY DEF Clock, Decoupler, TypeOK
<1>10. /\ done' \in [Ports -> Nat] /\ served' \in {"none", "cpu", "dma"}
       /\ disturbed' \in [Ports -> BOOLEAN] /\ since' \in 1 .. 4
  BY DEF Clock, History, TypeOK
<1> QED
  BY <1>1, <1>2, <1>3, <1>4, <1>5, <1>6, <1>7, <1>8, <1>9, <1>10 DEF TypeOK

(* A slave that accepts has been addressed by the master on the bus. *)
LEMMA AcceptedFrom ==
  ASSUME NEW s, Accept(s) PROVE active # "none" /\ cyc[active] /\ address = s /\ ~ack[s]
BY DEF Accept, slave_cyc, bus_cyc

(* A clock keeps grants and answers together. *)
LEMMA GrantedStep == ASSUME Types, Granted, Clock PROVE Granted'
<1> USE DEF Types
<1>1. active' # "none" => active' = token /\ cyc[token]
  BY DEF Clock, Arbiter
<1>2. active' # "none" => token' = active'
  BY <1>1 DEF Clock, Arbiter
<1>3. ASSUME active' # "none", wbm_err' \/ ack'["ram"] \/ ack'["manager"]
      PROVE  served' = active'
  <2>1. slave_cyc("void") \/ Accept("ram") \/ Accept("manager")
    BY <1>3 DEF Clock, Decoder, Acknowledge, TypeOK
  <2>2. active # "none"
    BY <2>1 DEF slave_cyc, bus_cyc, Accept
  <2>3. served' = active
    BY <2>1 DEF Clock, History, TypeOK
  <2> QED
    BY <1>1, <1>3, <2>2, <2>3 DEF Granted
<1> QED
  BY <1>2, <1>3 DEF Granted

-----------------------------------------------------------------------------
(* Only the port that is served is answered. *)
LEMMA AckedIsServed ==
  ASSUME Types, Switched, NEW p \in Ports, port[p] = "wait"
  PROVE  /\ Acked(p) => sw = p
         /\ sw = p => (Acked(p) <=> rsp_ack)
BY DEF Acked, rsp_ack, bus_term, Switched, Types, TypeOK

(* Nothing is requested while the switch is busy. *)
LEMMA RequestWhenIdle ==
  ASSUME Types, Switched
  PROVE  /\ x_stb => sw = "idle" /\ Wants(sel)
         /\ sw = "idle" => (x_stb <=> \E p \in Ports : Wants(p))
         /\ cpu_cyc => sw = sel \/ (sw = "idle" /\ Wants(sel))
BY DEF x_stb, cpu_cyc, sel, Wants, Switched, Types, TypeOK, Ports

(* A clock keeps the switch, the bridge and the keeper together. *)
LEMMA SwitchedStep == ASSUME Types, Types', Switched, Clock PROVE Switched'
<1> USE DEF Types
<1>1. CpuPorts /\ BusSwitch /\ Keeper /\ Xbus
  BY DEF Clock
<1>2. pending' <=> sw' # "idle"
  <2>1. CASE sw = "idle"
    BY <1>1, <2>1, Selected DEF BusSwitch, Xbus, Switched, Ports
  <2>2. CASE sw # "idle"
    BY <1>1, <2>2 DEF BusSwitch, Xbus, Switched, rsp_ack
  <2> QED
    BY <2>1, <2>2
<1>3. ASSUME NEW p \in Ports, port[p] = "wait", ~Acked(p)
      PROVE  port'[p] = "wait"
  BY <1>1, <1>3, PortMoved DEF PortMoves
<1>4. ASSUME NEW p \in Ports, port[p] = "request"
      PROVE  port'[p] = "wait"
  BY <1>1, <1>4, PortMoved DEF PortMoves
<1>5. ASSUME NEW p \in Ports, port'[p] = "wait"
      PROVE  port[p] = "request" \/ (port[p] = "wait" /\ ~Acked(p))
  BY <1>1, <1>5, PortMoved DEF PortMoves
<1>6. ASSUME NEW p \in Ports, sw' = p
      PROVE  port'[p] = "wait" /\ sel_q' = p
  <2>1. CASE sw = "idle"
    <3>1. x_stb /\ sel = p
      BY <1>1, <1>6, <2>1 DEF BusSwitch, Ports
    <3>2. port[p] = "request" \/ (port[p] = "wait" /\ ~Acked(p))
      BY <2>1, <3>1, RequestWhenIdle, AckedIsServed DEF Wants, Switched, Ports
    <3> QED
      BY <1>1, <1>3, <1>4, <3>1, <3>2 DEF BusSwitch
  <2>2. CASE sw # "idle"
    <3>1. sw = p /\ ~rsp_ack
      BY <1>1, <1>6, <2>2 DEF BusSwitch, Ports
    <3>2. port[p] = "wait" /\ ~Acked(p)
      BY <3>1 DEF Switched, Acked
    <3> QED
      BY <1>1, <1>3, <3>1, <3>2, Selected DEF BusSwitch
  <2> QED
    BY <2>1, <2>2
<1>7. ASSUME NEW p \in Ports, req'[p]
      PROVE  port'[p] = "wait"
  <2>1. sw # p /\ Wants(p)
    BY <1>1, <1>7 DEF BusSwitch
  <2>2. port[p] = "request" \/ (port[p] = "wait" /\ ~Acked(p))
    BY <2>1, AckedIsServed DEF Wants, Switched
  <2> QED
    BY <1>3, <1>4, <2>2
<1>8. ASSUME NEW p \in Ports, port'[p] = "wait"
      PROVE  sw' = p \/ req'[p]
  <2>1. CASE sw = p
    <3>1. port[p] = "wait" /\ ~Acked(p)
      BY <1>5, <1>8, <2>1 DEF Switched
    <3>2. ~rsp_ack
      BY <2>1, <3>1, AckedIsServed
    <3> QED
      BY <1>1, <2>1, <3>2 DEF BusSwitch, Ports
  <2>2. CASE sw # p
    <3>1. Wants(p)
      BY <1>5, <1>8, <2>2 DEF Wants, Switched
    <3> QED
      BY <1>1, <2>2, <3>1 DEF BusSwitch
  <2> QED
    BY <2>1, <2>2
<1>9. keeper' = "busy" => sw' # "idle"
  BY <1>1, RequestWhenIdle, Selected DEF Keeper, BusSwitch, Switched, rsp_ack, bus_term, TypeOK, Ports
<1>10. ASSUME keeper' = "error", sw' = "idle"
       PROVE  port'[sel_q'] # "wait"
  <2>1. keeper = "busy" /\ sw \in Ports /\ rsp_ack
    BY <1>1, <1>10 DEF Keeper, BusSwitch, Switched, TypeOK
  <2>2. sel_q' = sw
    BY <1>1, <2>1, Selected DEF BusSwitch
  <2>3. port[sw] = "wait" /\ Acked(sw)
    BY <2>1 DEF Switched, Acked
  <2> QED
    BY <1>5, <2>1, <2>2, <2>3
<1> QED
  BY <1>2, <1>6, <1>7, <1>8, <1>9, <1>10 DEF Switched

-----------------------------------------------------------------------------
(* A slave accepts an access of the CPU from the port that is served. *)
LEMMA AcceptedOnce ==
  ASSUME Types, Switched, Performed, NEW p \in Ports, Accepted(p)
  PROVE  /\ active = "cpu" /\ op[p].to \in {"ram", "manager"} /\ Accept(op[p].to)
         /\ sw = p \/ (sw = "idle" /\ x_stb /\ Wants(p))
         /\ port[p] = "request" \/ (port[p] = "wait" /\ done[p] = 0)
<1> USE DEF Types
<1>1. active = "cpu" /\ sel = p
  BY DEF Accepted
<1>2. PICK s \in {"ram", "manager"} : Accept(s)
  BY DEF Accepted, TypeOK
<1>3. cpu_cyc /\ op[p].to = s /\ ~ack[s]
  BY <1>1, <1>2, AcceptedFrom, Cycles DEF address, x_op
<1>4. sw = p \/ (sw = "idle" /\ x_stb /\ Wants(p))
  BY <1>1, <1>3, RequestWhenIdle DEF cpu_cyc, Switched
<1>5. port[p] = "request" \/ (port[p] = "wait" /\ done[p] # 1)
  BY <1>3, <1>4 DEF Switched, Performed, Wants
<1> QED
  BY <1>1, <1>2, <1>3, <1>4, <1>5 DEF Performed

(* A port's count starts with its request and grows with an acceptance. *)
LEMMA DoneMoves ==
  ASSUME Types, Switched, Performed, Clock, NEW p \in Ports
  PROVE  /\ Accepted(p) => done'[p] = 1
         /\ ~Accepted(p) /\ port[p] = "request" => done'[p] = 0
         /\ ~Accepted(p) /\ port[p] # "request" => done'[p] = done[p]
<1> USE DEF Types
<1>1. done'[p] = (IF port[p] = "request" THEN 0 ELSE done[p])
                   + (IF Accepted(p) THEN 1 ELSE 0)
  BY DEF Clock, History
<1>2. done[p] \in Nat
  BY DEF TypeOK
<1> QED
  BY <1>1, <1>2, AcceptedOnce

(* The access of a port that does not request stays what it is. *)
LEMMA OpKept ==
  ASSUME Types, Clock, NEW p \in Ports, port[p] # "idle", port'[p] = "wait"
  PROVE  op'[p] = op[p]
BY PortMoved DEF Types, Clock

(* A port that is selected and not answered is served in the next clock. *)
LEMMA ServedNext ==
  ASSUME Types, Types', Switched, Switched', Clock, NEW p \in Ports, sw' = p
  PROVE  /\ sel = p /\ (sw = p \/ (sw = "idle" /\ x_stb))
         /\ port[p] # "idle" /\ port'[p] = "wait" /\ op'[p] = op[p]
<1>1. sel = p /\ (sw = p \/ (sw = "idle" /\ x_stb))
  BY Selected DEF Clock, BusSwitch, Types, TypeOK, Ports
<1>2. port'[p] = "wait"
  BY DEF Switched
<1>3. port[p] # "idle"
  BY <1>1, RequestWhenIdle DEF Switched, Wants
<1> QED
  BY <1>1, <1>2, <1>3, OpKept

(* A clock keeps the accesses performed and the answers together. *)
LEMMA PerformedStep ==
  ASSUME Types, Types', Granted, Switched, Switched', Performed, Clock
  PROVE  Performed'
<1> USE DEF Types
<1>1. ASSUME NEW p \in Ports, port'[p] = "wait"
      PROVE  done'[p] \in {0, 1}
  <2>1. port[p] = "request" \/ port[p] = "wait"
    BY <1>1, PortMoved DEF Clock, PortMoves
  <2> QED
    BY <2>1, DoneMoves DEF Performed
<1>2. ASSUME NEW p \in Ports, port'[p] = "wait", sw' # p
      PROVE  done'[p] = 0
  <2>1. port[p] = "request" \/ (port[p] = "wait" /\ ~Acked(p))
    BY <1>2, PortMoved DEF Clock, PortMoves
  <2>2. sw # p
    <3> SUFFICES ASSUME sw = p PROVE FALSE
      OBVIOUS
    <3>1. ~rsp_ack
      BY <2>1, AckedIsServed DEF Switched
    <3> QED
      BY <1>2, <3>1 DEF Clock, BusSwitch, Ports
  <2>3. ~Accepted(p)
    <3> SUFFICES ASSUME Accepted(p) PROVE FALSE
      OBVIOUS
    <3>1. sw = "idle" /\ x_stb /\ sel = p
      BY <2>2, AcceptedOnce DEF Accepted
    <3> QED
      BY <1>2, <3>1 DEF Clock, BusSwitch
  <2> QED
    BY <2>1, <2>2, <2>3, DoneMoves DEF Performed
<1>3. ASSUME NEW p \in Ports, sw' = p, done'[p] = 1
      PROVE  active' = "cpu" /\ op'[p].to \in DOMAIN ack' /\ ack'[op'[p].to]
  <2>1. /\ sel = p /\ (sw = p \/ (sw = "idle" /\ x_stb))
        /\ port[p] # "idle" /\ port'[p] = "wait" /\ op'[p] = op[p]
    BY <1>3, ServedNext
  <2>2. Accepted(p)
    <3> SUFFICES ASSUME ~Accepted(p) PROVE FALSE
      OBVIOUS
    <3>1. port[p] = "wait" /\ done[p] = 1
      BY <1>3, <2>1, DoneMoves DEF TypeOK
    <3>2. sw = p /\ active = "cpu" /\ op[p].to \in {"ram", "manager"} /\ ack[op[p].to]
      BY <2>1, <3>1 DEF Performed, TypeOK
    <3>3. pending /\ bus_ack
      BY <2>1, <3>2 DEF Switched, bus_ack, address, x_op, Ports
    <3>4. rsp_ack
      BY <3>2, <3>3 DEF rsp_ack, Answers
    <3> QED
      BY <1>3, <3>2, <3>4 DEF Clock, BusSwitch, Ports
  <2>3. active = "cpu" /\ op[p].to \in {"ram", "manager"} /\ Accept(op[p].to)
    BY <2>2, AcceptedOnce
  <2>4. active' = "cpu"
    <3>1. token = "cpu" /\ cyc["cpu"]
      BY <2>3, AcceptedFrom DEF Granted
    <3> QED
      BY <3>1 DEF Clock, Arbiter
  <2>5. ack'[op[p].to] /\ op[p].to \in DOMAIN ack'
    BY <2>3 DEF Clock, Acknowledge, TypeOK
  <2> QED
    BY <2>1, <2>4, <2>5
<1>4. ASSUME NEW s \in {"ram", "manager"}, ack'[s], active' = "cpu", pending'
      PROVE  done'[sw'] = 1 /\ op'[sw'].to = s
  <2>1. sw' \in Ports
    BY <1>4 DEF Switched, TypeOK
  <2>2. /\ sel = sw' /\ port[sw'] # "idle" /\ port'[sw'] = "wait" /\ op'[sw'] = op[sw']
    BY <2>1, ServedNext
  <2>3. Accept(s)
    BY <1>4 DEF Clock, Acknowledge, TypeOK
  <2>4. active = "cpu"
    <3>1. active # "none" /\ token = active
      BY <2>3, AcceptedFrom DEF Granted
    <3> QED
      BY <1>4, <3>1 DEF Clock, Arbiter
  <2>5. Accepted(sw')
    BY <1>4, <2>2, <2>3, <2>4 DEF Accepted, TypeOK
  <2>6. op[sw'].to = s
    BY <2>2, <2>3, <2>4, AcceptedFrom DEF address, x_op
  <2> QED
    BY <2>1, <2>2, <2>5, <2>6, DoneMoves
<1> QED
  BY <1>1, <1>2, <1>3, <1>4 DEF Performed

(* Every step keeps the invariant. *)
LEMMA BusStep == BusInv /\ [Next]_vars => BusInv'
<1> SUFFICES ASSUME BusInv, [Next]_vars PROVE BusInv'
  OBVIOUS
<1>1. CASE Clock
  <2>1. Types'
    BY <1>1, TypesStep DEF BusInv
  <2>2. Granted'
    BY <1>1, GrantedStep DEF BusInv
  <2>3. Switched'
    BY <1>1, <2>1, SwitchedStep DEF BusInv
  <2>4. Performed'
    BY <1>1, <2>1, <2>3, PerformedStep DEF BusInv
  <2> QED
    BY <2>1, <2>2, <2>3, <2>4 DEF BusInv
<1>2. CASE UNCHANGED vars
  BY <1>2 DEF vars, cpuVars, busVars, histVars, BusInv, Types, TypeOK, Granted, Switched,
     Performed
<1> QED
  BY <1>1, <1>2 DEF Next

(* The invariant holds in every behaviour. *)
LEMMA BusAlways == Spec => []BusInv
BY BusInit, BusStep, PTL DEF Spec

(* Every register of the bus keeps its type; the keeper's counter never    *)
(* passes its width (neorv32_bus.vhd, neo_fab_unlimited_soc_top.vhd).      *)
THEOREM BusTypes == Spec => []TypeOK
<1>1. BusInv => TypeOK
  BY DEF BusInv, Types
<1> QED
  BY <1>1, BusAlways, PTL

(* An answer reaches the master whose access it answers, for any fabric    *)
(* and shield: the arbiter leaves a clock between two masters              *)
(* (wb_arbiter.v, wb_mux.v).                                               *)
THEOREM AnswersReachTheirSender == Spec => []AnswersReturnToSender
<1>1. ASSUME BusInv PROVE AnswersReturnToSender
  <2>1. bus_ack => ack["ram"] \/ ack["manager"]
    BY DEF bus_ack
  <2> QED
    BY <1>1, <2>1 DEF BusInv, Granted, AnswersReturnToSender
<1> QED
  BY <1>1, BusAlways, PTL

-----------------------------------------------------------------------------
(***************************************************************************)
(* After a configuration word the LSU is answered, and then takes its time *)
(* for the next store.  Fetches store nothing.                             *)
(***************************************************************************)
StrobeInv ==
  /\ config_we =>
       /\ ack["manager"]
       /\ \/ sw = "lsu" /\ active = "cpu" /\ op["lsu"].to = "manager"
          \/ sw = "idle" /\ port["lsu"] = "idle"
  /\ since = 1 => ~config_we /\ ~(active = "cpu" /\ cpu_cyc /\ sel = "lsu")
  /\ since = 2 => ~config_we

(* A configuration word comes from the LSU. *)
LEMMA ConfigFromLsu ==
  ASSUME TypeOK, Accept("manager"), x_op.effect = "config"
  PROVE  /\ active = "cpu" /\ cpu_cyc /\ sel = "lsu" /\ op["lsu"].to = "manager"
         /\ ~ack["manager"]
<1>1. active # "none" /\ cyc[active] /\ address = "manager" /\ ~ack["manager"]
  BY AcceptedFrom
<1>2. active = "cpu" /\ x_op.to = "manager"
  BY <1>1 DEF address, TypeOK
<1>3. sel # "fetch"
  <2> SUFFICES ASSUME sel = "fetch" PROVE FALSE
    OBVIOUS
  <2>1. x_op \in FetchOps
    BY DEF x_op, TypeOK
  <2> QED
    BY <2>1, BusAssumption
<1> QED
  BY <1>1, <1>2, <1>3, Selected, Cycles DEF x_op, Ports

(* Every clock keeps the distance between two configuration words. *)
LEMMA StrobeStep ==
  ASSUME BusInv, BusInv', StrobeInv, Clock PROVE StrobeInv'
<1> USE DEF BusInv, Types
<1>1. config_we' => Accept("manager") /\ x_op.effect = "config"
  BY DEF Clock, Manager
<1>2. since' = IF config_we THEN 1 ELSE IF since < 4 THEN since + 1 ELSE 4
  BY DEF Clock, History
<1>3. ASSUME sw = "lsu", rsp_ack
      PROVE  sw' = "idle" /\ port'["lsu"] = "idle"
  <2>1. port["lsu"] = "wait" /\ Acked("lsu")
    BY <1>3 DEF Switched, Acked, Ports
  <2> QED
    BY <1>3, <2>1, PortMoved DEF Clock, BusSwitch, PortMoves, Ports
<1>4. ASSUME config_we'
      PROVE  /\ ack'["manager"]
             /\ \/ sw' = "lsu" /\ active' = "cpu" /\ op'["lsu"].to = "manager"
                \/ sw' = "idle" /\ port'["lsu"] = "idle"
  <2>1. Accept("manager") /\ active = "cpu" /\ cpu_cyc /\ sel = "lsu"
        /\ op["lsu"].to = "manager"
    BY <1>1, <1>4, ConfigFromLsu
  <2>2. ack'["manager"]
    BY <2>1 DEF Clock, Acknowledge, TypeOK
  <2>3. active' = "cpu"
    BY <2>1, Cycles DEF Granted, Clock, Arbiter
  <2>4. sw = "lsu" \/ (sw = "idle" /\ x_stb)
    BY <2>1, RequestWhenIdle DEF cpu_cyc, Switched
  <2>5. CASE sw' = "lsu"
    BY <2>1, <2>2, <2>3, <2>5, ServedNext DEF Ports
  <2>6. CASE sw' # "lsu"
    <3>1. sw = "lsu" /\ rsp_ack
      BY <2>1, <2>4, <2>6 DEF Clock, BusSwitch
    <3> QED
      BY <1>3, <2>2, <3>1
  <2> QED
    BY <2>5, <2>6
<1>5. ASSUME since' = 1
      PROVE  ~config_we' /\ ~(active' = "cpu" /\ cpu_cyc' /\ sel' = "lsu")
  <2>1. config_we
    BY <1>2, <1>5 DEF TypeOK
  <2>2. ~config_we'
    BY <1>1, <2>1, ConfigFromLsu DEF StrobeInv
  <2>3. ASSUME sw' = "idle", port'["lsu"] = "idle"
        PROVE  ~(cpu_cyc' /\ sel' = "lsu")
    BY <2>3 DEF cpu_cyc, x_stb, sel, Wants, Switched, Ports
  <2>4. CASE sw = "lsu" /\ active = "cpu" /\ op["lsu"].to = "manager"
    <3>1. pending /\ bus_ack
      BY <2>1, <2>4, Selected DEF StrobeInv, Switched, bus_ack, address, x_op, Ports
    <3>2. rsp_ack
      BY <2>4, <3>1 DEF rsp_ack, Answers
    <3> QED
      BY <1>3, <2>2, <2>3, <2>4, <3>2
  <2>5. CASE sw = "idle" /\ port["lsu"] = "idle"
    <3>1. CASE x_stb
      <4>1. sel = "fetch"
        BY <2>5, <3>1, RequestWhenIdle, Selected DEF Wants, Switched, Ports
      <4>2. sw' = "fetch"
        BY <2>5, <3>1, <4>1 DEF Clock, BusSwitch
      <4> QED
        BY <2>2, <4>2 DEF sel
    <3>2. CASE ~x_stb
      <4>1. ~cyc["cpu"]
        BY <2>5, <3>2, Cycles DEF cpu_cyc, Switched
      <4> QED
        BY <2>2, <4>1 DEF Clock, Arbiter
    <3> QED
      BY <3>1, <3>2
  <2> QED
    BY <2>1, <2>4, <2>5 DEF StrobeInv
<1>6. ASSUME since' = 2
      PROVE  ~config_we'
  <2>1. since = 1
    BY <1>2, <1>6 DEF TypeOK
  <2> QED
    BY <1>1, <2>1, ConfigFromLsu DEF StrobeInv
<1> QED
  BY <1>4, <1>5, <1>6 DEF StrobeInv

(* Two configuration words are at least three clocks apart on the bus,     *)
(* which is what the frame strobe of ConfigFSM.v needs to pass.            *)
THEOREM ConfigWordsFarApart == Spec => []StrobesFarApart
<1>1. Init => StrobeInv
  BY DEF Init, StrobeInv
<1>2. ASSUME BusInv, BusInv', StrobeInv, [Next]_vars PROVE StrobeInv'
  <2>1. CASE Clock
    BY <1>2, <2>1, StrobeStep
  <2>2. CASE UNCHANGED vars
    BY <1>2, <2>2 DEF vars, cpuVars, busVars, histVars, StrobeInv, cpu_cyc, x_stb, sel, Wants
  <2> QED
    BY <1>2, <2>1, <2>2 DEF Next
<1>3. BusInv /\ StrobeInv => StrobesFarApart
  BY DEF BusInv, Types, TypeOK, StrobeInv, StrobesFarApart
<1> QED
  BY <1>1, <1>2, <1>3, BusAlways, PTL DEF Spec

-----------------------------------------------------------------------------
(* A clock is, for each port, a step of the service or none. *)
LEMMA ServiceStep ==
  ASSUME BusInv, BusInv', Clock PROVE Service!Next
<1> USE DEF BusInv, Types
<1> SUFFICES ASSUME NEW p \in Ports
             PROVE  \/ Service!Issue(p) \/ Service!Perform(p) \/ Service!Succeed(p)
                    \/ Service!Fail(p) \/ Service!Keep(p)
  BY DEF Service!Next
<1> USE DEF Service!Issue, Service!Perform, Service!Succeed, Service!Fail, Service!Keep
<1>1. port'[p] \in PortMoves(p)
  BY PortMoved DEF Clock
<1>2. CASE port[p] = "request"
  BY <1>1, <1>2, DoneMoves DEF PortMoves
<1>3. CASE port[p] = "idle"
  <2>1. ~Accepted(p)
    BY <1>3, AcceptedOnce
  <2> QED
    BY <1>1, <1>3, <2>1, DoneMoves DEF PortMoves, Acked
<1>4. CASE port[p] = "wait" /\ ~Acked(p)
  <2>1. port'[p] = "wait"
    BY <1>1, <1>4 DEF PortMoves
  <2>2. CASE Accepted(p)
    BY <1>4, <2>1, <2>2, DoneMoves, AcceptedOnce
  <2>3. CASE ~Accepted(p)
    BY <1>4, <2>1, <2>3, DoneMoves
  <2> QED
    BY <2>2, <2>3
<1>5. CASE port[p] = "wait" /\ Acked(p)
  <2>1. port'[p] # "wait"
    BY <1>1, <1>5 DEF PortMoves
  <2>2. CASE rsp_err
    BY <1>5, <2>1, <2>2, DoneMoves
  <2>3. CASE ~rsp_err
    <3>1. sw = p /\ sel = p /\ pending /\ active = "cpu" /\ bus_ack /\ ~bus_err
      BY <1>5, <2>3, AckedIsServed, Selected DEF Acked, rsp_ack, rsp_err, Answers, Switched
    <3>2. \E s \in {"ram", "manager"} : ack[s] /\ done[p] = 1 /\ op[p].to = s
      BY <3>1 DEF bus_ack, Performed
    <3>3. ~Accepted(p)
      <4> SUFFICES ASSUME Accepted(p) PROVE FALSE
        OBVIOUS
      <4>1. Accept(op[p].to)
        BY AcceptedOnce
      <4> QED
        BY <3>2, <4>1, AcceptedFrom
    <3> QED
      BY <1>5, <2>1, <2>3, <3>2, <3>3, DoneMoves
  <2> QED
    BY <2>2, <2>3
<1> QED
  BY <1>2, <1>3, <1>4, <1>5 DEF TypeOK

(* The bus implements what a CPU port expects of it: an access is          *)
(* performed at most once, reported as done only when it was, and not      *)
(* performed after its answer (neorv32_bus.vhd, wb_bram.vhd,               *)
(* efpga_manager.v).                                                       *)
THEOREM BusImplementsService == Spec => IsBusService
<1>1. Init => Service!Init
  BY DEF Init, Service!Init
<1>2. BusInv /\ BusInv' /\ [Next]_vars => [Service!Next]_(Service!vars)
  <2> SUFFICES ASSUME BusInv, BusInv', [Next]_vars
               PROVE  [Service!Next]_(Service!vars)
    OBVIOUS
  <2>1. CASE Clock
    BY <2>1, ServiceStep
  <2>2. CASE UNCHANGED vars
    BY <2>2 DEF vars, cpuVars, histVars, Service!vars
  <2> QED
    BY <2>1, <2>2 DEF Next
<1> QED
  BY <1>1, <1>2, BusAlways, PTL DEF Spec, IsBusService, Service!Spec

-----------------------------------------------------------------------------
(* Why an access fails                                                     *)

(* While an access is held its strobe is, and an address error in the      *)
(* CPU's grant is that access's own.                                       *)
HeldAccess ==
  /\ sw # "idle" => stretched
  /\ wbm_err /\ active = "cpu" /\ sw # "idle" => op[sw].to = "void"

(* An access to RAM or manager with the fabric off the bus gets the token  *)
(* in the keeper's first clock, the grant in its second, and is performed  *)
(* in the third at the latest: no timeout of more than a clock finds it.   *)
PromptAccess ==
  \A p \in Ports : sw = p /\ ~disturbed[p] /\ op[p].to \in {"ram", "manager"} =>
    /\ token = "cpu" /\ keeper # "error"
    /\ keeper = "busy" /\ cnt >= 1 => active = "cpu"
    /\ keeper = "busy" /\ cnt >= 2 => done[p] = 1

PromptInv == HeldAccess /\ PromptAccess

LEMMA PromptInit == Init => PromptInv
BY DEF Init, PromptInv, HeldAccess, PromptAccess, Ports

(* The fabric that does not disturb an access leaves the bus alone. *)
LEMMA Undisturbed ==
  ASSUME Types, Clock, NEW p \in Ports, ~disturbed'[p]
  PROVE  /\ ~dma_cyc
         /\ port[p] # "request" => ~disturbed[p]
BY DEF Types, TypeOK, Clock, History, dma_cyc

(* Then the token is the CPU's after a clock with an access, and its grant *)
(* after one with the token.                                               *)
LEMMA CpuTakesBus ==
  ASSUME Types, Clock, cpu_cyc, ~dma_cyc
  PROVE  token' = "cpu" /\ (token = "cpu" => active' = "cpu")
<1>1. Arbiter /\ token \in Masters
  BY DEF Clock, Types, TypeOK, Masters
<1>2. CASE token = "cpu"
  BY <1>1, <1>2, Cycles DEF Arbiter
<1>3. CASE token = "dma"
  <2>1. token' = CHOOSE m \in Masters : m # "dma"
    BY <1>1, <1>3, Cycles DEF Arbiter, Masters
  <2> QED
    BY <1>3, <2>1 DEF Masters
<1> QED
  BY <1>1, <1>2, <1>3 DEF Masters

(* The strobe of a held access lasts until its answer. *)
LEMMA HeldStep ==
  ASSUME BusInv, BusInv', HeldAccess, Clock PROVE HeldAccess'
<1> USE DEF BusInv, Types
<1>1. ASSUME NEW p \in Ports, sw' = p PROVE stretched'
  <2>1. sw = p \/ (sw = "idle" /\ x_stb)
    BY <1>1, ServedNext
  <2>2. CASE sw = p
    <3>1. pending /\ ~rsp_ack /\ stretched
      BY <1>1, <2>2 DEF Clock, BusSwitch, Switched, HeldAccess, Ports
    <3> QED
      BY <3>1 DEF Clock, Stretch, cpu_cyc, rsp_ack
  <2>3. CASE x_stb
    BY <2>3 DEF Clock, Stretch
  <2> QED
    BY <2>1, <2>2, <2>3
<1>2. ASSUME NEW p \in Ports, sw' = p, wbm_err', active' = "cpu"
      PROVE  op'[p].to = "void"
  <2>1. slave_cyc("void")
    BY <1>2 DEF Clock, Decoder
  <2>2. active = "cpu"
    <3>1. active # "none"
      BY <2>1 DEF slave_cyc, bus_cyc
    <3>2. token = active /\ active' = token
      BY <1>2, <3>1 DEF Clock, Arbiter, Granted
    <3> QED
      BY <1>2, <3>2
  <2>3. x_op.to = "void"
    BY <2>1, <2>2 DEF slave_cyc, address
  <2> QED
    BY <1>2, <2>3, ServedNext DEF x_op
<1>3. sw' \in Ports \cup {"idle"}
  BY DEF TypeOK
<1> QED
  BY <1>1, <1>2, <1>3 DEF HeldAccess

(* A held access to RAM or manager that has the grant is accepted. *)
LEMMA GrantedIsAccepted ==
  ASSUME BusInv, HeldAccess, NEW p \in Ports, sw = p, active = "cpu",
         op[p].to \in {"ram", "manager"}, done[p] # 1
  PROVE  Accepted(p)
<1> USE DEF BusInv, Types
<1>1. sel = p /\ pending /\ stretched
  BY Selected DEF Switched, HeldAccess, Ports
<1>2. cyc["cpu"] /\ stb["cpu"]
  BY <1>1 DEF cyc, stb, cpu_cyc, cpu_stb
<1>3. slave_cyc(op[p].to) /\ bus_stb
  BY <1>1, <1>2 DEF slave_cyc, bus_cyc, bus_stb, address, x_op
<1>4. ~ack[op[p].to]
  BY <1>1 DEF Performed
<1>5. Accept(op[p].to) /\ op[p].to \in DOMAIN ack
  BY <1>3, <1>4 DEF Accept, TypeOK
<1> QED
  BY <1>1, <1>5 DEF Accepted

(* One that is performed is answered. *)
LEMMA PerformedIsAnswered ==
  ASSUME BusInv, NEW p \in Ports, sw = p, op[p].to \in {"ram", "manager"},
         done[p] = 1
  PROVE  rsp_ack
<1> USE DEF BusInv, Types
<1>1. sel = p /\ pending
  BY Selected DEF Switched, Ports
<1>2. active = "cpu" /\ ack[op[p].to]
  BY DEF Performed
<1>3. address = op[p].to
  BY <1>1, <1>2 DEF address, x_op
<1>4. bus_ack
  BY <1>2, <1>3 DEF bus_ack
<1> QED
  BY <1>1, <1>2, <1>4 DEF rsp_ack, Answers

LEMMA PromptStep ==
  ASSUME Timeout > 1, BusInv, BusInv', HeldAccess, PromptAccess, Clock
  PROVE  PromptAccess'
<1> USE DEF BusInv, Types
<1> SUFFICES ASSUME NEW p \in Ports, sw' = p, ~disturbed'[p],
                    op'[p].to \in {"ram", "manager"}
             PROVE  /\ token' = "cpu" /\ keeper' # "error"
                    /\ keeper' = "busy" /\ cnt' >= 1 => active' = "cpu"
                    /\ keeper' = "busy" /\ cnt' >= 2 => done'[p] = 1
  BY DEF PromptAccess
<1>1. /\ sel = p /\ (sw = p \/ (sw = "idle" /\ x_stb)) /\ op'[p] = op[p]
      /\ ~dma_cyc /\ Keeper
  BY ServedNext, Undisturbed DEF Clock
<1>2. CASE sw = "idle"
  <2>1. x_stb /\ cpu_cyc
    BY <1>1, <1>2 DEF cpu_cyc, Ports
  <2>2. token' = "cpu"
    BY <1>1, <2>1, CpuTakesBus
  <2>3. keeper # "busy"
    BY <1>2 DEF Switched
  <2>4. keeper' # "error" /\ (keeper' = "busy" => cnt' = 0)
    BY <1>1, <2>3 DEF Keeper
  <2> QED
    BY <2>2, <2>4
<1>3. CASE sw = p
  <2>1. port[p] = "wait" /\ pending /\ ~rsp_ack /\ ~x_stb
    <3>1. port[p] = "wait" /\ pending
      BY <1>3 DEF Switched, Ports
    <3>2. ~rsp_ack
      BY <1>3 DEF Clock, BusSwitch, Ports
    <3>3. ~x_stb
      BY <1>3, RequestWhenIdle DEF Ports
    <3> QED
      BY <3>1, <3>2, <3>3
  <2>2. /\ token = "cpu" /\ keeper # "error"
        /\ keeper = "busy" /\ cnt >= 1 => active = "cpu"
        /\ keeper = "busy" /\ cnt >= 2 => done[p] = 1
    BY <1>1, <1>3, <2>1, Undisturbed DEF PromptAccess
  <2>3. token' = "cpu" /\ active' = "cpu"
    BY <1>1, <2>1, <2>2, CpuTakesBus DEF cpu_cyc
  <2>4. done[p] # 1
    BY <1>1, <1>3, <2>1, PerformedIsAnswered
  <2>5. keeper = "busy" => cnt < 2
    BY <2>2, <2>4 DEF TypeOK
  <2>6. keeper' # "error" /\ (keeper' = "busy" => keeper = "busy" /\ cnt' = cnt + 1)
    BY <1>1, <2>1, <2>2, <2>5, BusAssumption DEF Keeper, TypeOK
  <2>7. ASSUME keeper' = "busy", cnt' >= 2 PROVE done'[p] = 1
    <3>1. active = "cpu"
      BY <2>2, <2>6, <2>7 DEF TypeOK
    <3>2. Accepted(p)
      BY <1>1, <1>3, <2>4, <3>1, GrantedIsAccepted
    <3> QED
      BY <3>2, DoneMoves
  <2> QED
    BY <2>3, <2>6, <2>7
<1> QED
  BY <1>1, <1>2, <1>3

(* An access fails for a reason: nobody owns its address, or the fabric's  *)
(* silent or shielded port does, or the fabric was on the bus meanwhile.   *)
(* The timeout of the keeper is 256 clocks; more than one is enough.       *)
THEOREM FailuresHaveCause ==
  ASSUME Timeout > 1 PROVE Spec => []ErrorsHaveCause
<1>1. BusInv /\ BusInv' /\ PromptInv /\ [Next]_vars => PromptInv'
  <2> SUFFICES ASSUME BusInv, BusInv', PromptInv, [Next]_vars PROVE PromptInv'
    OBVIOUS
  <2>1. CASE Clock
    BY <2>1, HeldStep, PromptStep DEF PromptInv
  <2>2. CASE UNCHANGED vars
    BY <2>2 DEF vars, cpuVars, busVars, histVars, PromptInv, HeldAccess, PromptAccess
  <2> QED
    BY <2>1, <2>2 DEF Next
<1>2. BusInv /\ PromptInv => ErrorsHaveCause
  <2> SUFFICES ASSUME BusInv, PromptInv, NEW p \in Ports, port[p] = "wait",
                      Acked(p), rsp_err, op[p].to \notin {"void", "fabric"},
                      ~disturbed[p]
               PROVE  FALSE
    BY DEF ErrorsHaveCause
  <2> USE DEF BusInv, Types
  <2>1. sw = p /\ sel = p /\ sel_q = p
    BY AckedIsServed, Selected DEF Switched, Ports
  <2>2. op[p].to \in {"ram", "manager"}
    <3>1. op[p] \in Ops
      BY BusAssumption DEF TypeOK, Ports
    <3> QED
      BY <3>1 DEF Ops, Targets, Slaves
  <2>3. ~bus_term
    BY <2>1, <2>2 DEF PromptInv, PromptAccess, bus_term
  <2>4. pending /\ active = "cpu" /\ bus_err
    BY <2>3 DEF rsp_err
  <2>5. address = op[p].to
    BY <2>1, <2>4 DEF address, x_op
  <2>6. ~slave_cyc("fabric")
    BY <2>2, <2>5 DEF slave_cyc
  <2>7. wbm_err
    BY <2>4, <2>6 DEF bus_err
  <2> QED
    BY <2>1, <2>2, <2>4, <2>7 DEF PromptInv, HeldAccess, Ports
<1> QED
  BY <1>1, <1>2, PromptInit, BusAlways, PTL DEF Spec
=============================================================================
