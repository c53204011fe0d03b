------------------------------- MODULE SocBus -------------------------------
(***************************************************************************)
(* The bus of neo_fab_unlimited_soc_top.vhd, one clock per step: the two   *)
(* ports of the CPU (LSU and instruction fetch), the bus switch that       *)
(* merges them, the keeper that times accesses out, the XBUS bridge, the   *)
(* strobe stretcher, the arbiter between CPU and fabric, the address       *)
(* decoder, block RAM, eFPGA manager and slot decoupler.                   *)
(*                                                                         *)
(* Variables are the registers; the wires between the parts are operators  *)
(* of the same clock.  The fabric's bus master may do anything in any      *)
(* clock; its slave port never answers (its acknowledge is tied to '0').   *)
(***************************************************************************)
EXTENDS Integers

CONSTANTS
  LsuOps,      \* what the LSU may access, see Targets
  FetchOps,    \* where instructions may be fetched
  FabricDrive, \* what the fabric may drive on its master port
  Timeout      \* clocks counted by the keeper, 256 in this SoC

Ports == {"lsu", "fetch"}
Slaves == {"ram", "manager", "fabric"}
Targets == Slaves \cup {"void"}  \* "void": an address no slave matches

(* An access: its slave, and what it does to the manager. *)
Ops == [to : Targets, effect : {"none", "config", "couple", "decouple", "force"}]

ASSUME BusAssumption ==
  /\ LsuOps \subseteq Ops /\ FetchOps \subseteq Ops
  /\ \A o \in FetchOps : o.effect = "none"  \* a fetch stores nothing
  /\ FabricDrive \subseteq {"idle", "hold", "ram", "void"} /\ "idle" \in FabricDrive
  /\ Timeout \in Nat \ {0}

VARIABLES
  clk,          \* the clock's level: a clock is a step even if nothing else changes
  port,         \* per CPU port: "idle", "request" for a clock, "wait"
  op,           \* per CPU port: its access
  sw, req, sel_q,   \* bus switch: state, a_req and b_req, port of the last clock
  keeper, cnt,      \* bus monitor
  pending,          \* XBUS bridge
  stretched,        \* cpu_wb_stb_stretched
  token, active,    \* arbiter: token, and who was granted ("none", "cpu", "dma")
  wbm_err,          \* decoder's registered error
  ack,              \* ack_reg of RAM and manager
  config_we, dec_req, dec_force,  \* manager
  decoupled_reg,    \* decoupler
  drive,            \* the fabric's master port
  done,             \* history: slaves that accepted the port's access
  served,           \* history: the master whose access was taken last clock
  disturbed,        \* history: the fabric was on the bus since the request
  since             \* history: clocks since the last configuration word, up to 4

cpuVars == <<port, op, sw, req, sel_q, keeper, cnt, pending, stretched>>
busVars == <<token, active, wbm_err, ack, config_we, dec_req, dec_force, decoupled_reg>>
histVars == <<done, served, disturbed, since>>
vars == <<clk, cpuVars, busVars, drive, histVars>>

-----------------------------------------------------------------------------
(* Wires                                                                   *)

(* Bus switch: the LSU goes first; a busy switch keeps its port. *)
Wants(p) == port[p] = "request" \/ req[p]
sel == IF sw # "idle" THEN sw
       ELSE IF Wants("fetch") /\ ~Wants("lsu") THEN "fetch" ELSE "lsu"
x_stb == IF sw = "idle" THEN \E p \in Ports : Wants(p) ELSE port[sw] = "request"
x_op == op[sel]

(* Keeper, bridge and stretcher. *)
bus_term == keeper = "error"
cpu_cyc == x_stb \/ pending
cpu_stb == x_stb \/ stretched

(* Decoupler towards the bus: a raised shield hides the fabric. *)
dma_cycUngated == drive # "idle"  \* fault: only data and strobe are gated
dma_cyc == ~decoupled_reg /\ drive # "idle"
dma_stb == ~decoupled_reg /\ drive \in {"ram", "void"}

cyc == [cpu |-> cpu_cyc, dma |-> dma_cyc]
stb == [cpu |-> cpu_stb, dma |-> dma_stb]

(* Arbiter: the shared bus belongs to the master granted in the last clock. *)
bus_cyc == active # "none" /\ cyc[active]
bus_stb == active # "none" /\ stb[active]
address == IF active = "dma" THEN (IF drive = "void" THEN "void" ELSE "ram")
                             ELSE x_op.to

(* Decoder: slave 0 answers for an address nobody matches, besides the error. *)
slave_cyc(s) == bus_cyc /\ address = s
bus_ack == IF address = "manager" THEN ack["manager"]
           ELSE address # "fabric" /\ ack["ram"]
bus_err == wbm_err \/ (slave_cyc("fabric") /\ decoupled_reg)
Answers(m) == active = m /\ (bus_ack \/ bus_err)

(* A slave accepts an access once: not in the clock in which it acknowledges. *)
AcceptAgain(s) == slave_cyc(s) /\ bus_stb  \* fault: no look at the acknowledge
Accept(s) == slave_cyc(s) /\ bus_stb /\ ~ack[s]

(* The answer a CPU port samples. *)
rsp_err == (pending /\ active = "cpu" /\ bus_err) \/ bus_term
rsp_ack == (pending /\ Answers("cpu")) \/ bus_term
Acked(p) == sel_q = p /\ rsp_ack

-----------------------------------------------------------------------------
Init ==
  /\ clk = 0
  /\ port = [p \in Ports |-> "idle"]
  /\ op \in [lsu : LsuOps, fetch : FetchOps]
  /\ sw = "idle" /\ req = [p \in Ports |-> FALSE] /\ sel_q = "lsu"
  /\ keeper = "idle" /\ cnt = 0 /\ pending = FALSE /\ stretched = FALSE
  /\ token = "cpu" /\ active = "none" /\ wbm_err = FALSE
  /\ ack = [s \in {"ram", "manager"} |-> FALSE]
  /\ config_we = FALSE /\ dec_req = TRUE /\ dec_force = FALSE /\ decoupled_reg = FALSE
  /\ drive = "idle"
  /\ done = [p \in Ports |-> 0] /\ served = "none"
  /\ disturbed = [p \in Ports |-> FALSE] /\ since = 4

(* The LSU leaves a clock between two accesses; the fetch engine may       *)
(* request again in the clock after an answer.                             *)
PortMoves(p) ==
  IF port[p] = "request" \/ (port[p] = "wait" /\ ~Acked(p)) THEN {"wait"}
  ELSE IF port[p] = "idle" \/ p = "fetch" THEN {"idle", "request"}
  ELSE {"idle"}
CpuPorts ==
  /\ port' \in [lsu : PortMoves("lsu"), fetch : PortMoves("fetch")]
  /\ op' \in [lsu : IF port'["lsu"] = "request" THEN LsuOps ELSE {op["lsu"]},
              fetch : IF port'["fetch"] = "request" THEN FetchOps ELSE {op["fetch"]}]

BusSwitch ==
  /\ sw' = IF sw = "idle" THEN (IF x_stb THEN sel ELSE "idle")
           ELSE (IF rsp_ack THEN "idle" ELSE sw)
  /\ sel_q' = sel
  /\ req' = [p \in Ports |-> sw # p /\ Wants(p)]

KeeperSleeps ==  \* fault: the count starts over for ever
  /\ keeper' = CASE keeper = "idle" -> IF x_stb THEN "busy" ELSE "idle"
                 [] keeper = "busy" -> IF rsp_ack THEN "idle" ELSE "busy"
                 [] OTHER -> "idle"
  /\ cnt' = 0
KeeperCountsOn ==  \* fault: no timeout
  /\ keeper' = CASE keeper = "idle" -> IF x_stb THEN "busy" ELSE "idle"
                 [] keeper = "busy" -> IF rsp_ack THEN "idle" ELSE "busy"
                 [] OTHER -> "idle"
  /\ cnt' = IF keeper = "busy" /\ ~rsp_ack THEN cnt + 1 ELSE 0
(* A timeout wins over an answer in the same clock. *)
Keeper ==
  \/ /\ keeper = "idle"
     /\ keeper' = IF x_stb THEN "busy" ELSE "idle"
     /\ cnt' = 0
  \/ /\ keeper = "busy"
     /\ keeper' = IF cnt = Timeout THEN "error" ELSE IF rsp_ack THEN "idle" ELSE "busy"
     /\ cnt' = IF rsp_ack THEN 0 ELSE cnt + 1
  \/ keeper = "error" /\ keeper' = "idle" /\ UNCHANGED cnt

XbusForgetsTerm ==  \* fault: a timeout leaves the access pending
  pending' = IF pending THEN ~Answers("cpu") ELSE x_stb
Xbus ==
  pending' = IF pending THEN ~(bus_term \/ Answers("cpu")) ELSE x_stb

Stretch ==
  stretched' = (x_stb \/ (stretched /\ cpu_cyc /\ ~Answers("cpu")))

ArbiterForCpu ==  \* fault: the token comes back to the CPU by itself
  /\ active' = IF cyc[token] THEN token ELSE "none"
  /\ token' = IF ~cyc[token] /\ cyc["dma"] /\ ~stretched THEN "dma" ELSE "cpu"
(* The token stays with a master that requests, else it moves to one that  *)
(* does; grant and select are registered.                                  *)
Arbiter ==
  /\ active' = IF cyc[token] THEN token ELSE "none"
  /\ token' = IF ~cyc[token] /\ (\E m \in DOMAIN cyc : cyc[m])
              THEN CHOOSE m \in DOMAIN cyc : m # token
              ELSE token

DecoderAlways == wbm_err' = (address = "void")  \* fault: no look at cyc
Decoder == wbm_err' = slave_cyc("void")

Acknowledge == ack' = [s \in DOMAIN ack |-> Accept(s)]

Manager ==
  /\ config_we' = (Accept("manager") /\ x_op.effect = "config")
  /\ IF Accept("manager") /\ x_op.effect \in {"couple", "decouple", "force"}
     THEN dec_req' = (x_op.effect = "decouple") /\ dec_force' = (x_op.effect = "force")
     ELSE UNCHANGED <<dec_req, dec_force>>

Decoupler ==
  decoupled_reg' = (dec_force \/
    (dec_req /\ (decoupled_reg \/ (~slave_cyc("fabric") /\ drive = "idle"))))

Accepted(p) == active = "cpu" /\ sel = p /\ \E s \in DOMAIN ack : Accept(s)
History ==
  /\ done' = [p \in Ports |-> (IF port[p] = "request" THEN 0 ELSE done[p])
                                + (IF Accepted(p) THEN 1 ELSE 0)]
  /\ served' = IF slave_cyc("void") \/ \E s \in DOMAIN ack : Accept(s)
               THEN active ELSE "none"
  /\ disturbed' = [p \in Ports |-> (port[p] # "request" /\ disturbed[p])
                                     \/ (~decoupled_reg /\ drive # "idle")]
  /\ since' = IF config_we THEN 1 ELSE IF since < 4 THEN since + 1 ELSE 4

Clock ==
  /\ clk' = 1 - clk
  /\ CpuPorts /\ BusSwitch /\ Keeper /\ Xbus /\ Stretch /\ Arbiter /\ Decoder
  /\ Acknowledge /\ Manager /\ Decoupler
  /\ drive' \in FabricDrive
  /\ History

Next == Clock
Spec == Init /\ [][Next]_vars
FairSpec == Spec /\ WF_vars(Next)  \* the clock runs

-----------------------------------------------------------------------------
(* Properties                                                              *)

TypeOK ==
  /\ clk \in {0, 1}
  /\ port \in [Ports -> {"idle", "request", "wait"}]
  /\ op \in [lsu : LsuOps, fetch : FetchOps]
  /\ sw \in Ports \cup {"idle"} /\ req \in [Ports -> BOOLEAN] /\ sel_q \in Ports
  /\ keeper \in {"idle", "busy", "error"} /\ cnt \in 0 .. Timeout + 1
  /\ pending \in BOOLEAN /\ stretched \in BOOLEAN
  /\ token \in {"cpu", "dma"} /\ active \in {"none", "cpu", "dma"}
  /\ wbm_err \in BOOLEAN /\ ack \in [{"ram", "manager"} -> BOOLEAN]
  /\ config_we \in BOOLEAN /\ dec_req \in BOOLEAN /\ dec_force \in BOOLEAN
  /\ decoupled_reg \in BOOLEAN /\ drive \in FabricDrive
  /\ done \in [Ports -> Nat] /\ served \in {"none", "cpu", "dma"}
  /\ disturbed \in [Ports -> BOOLEAN] /\ since \in 1 .. 4

(* Acknowledges and address errors come a clock late, yet they reach the   *)
(* master whose access they answer: the bus never changes hands without a  *)
(* clock in between, nor when force cuts the fabric off in mid-access.     *)
AnswersReturnToSender ==
  \A m \in {"cpu", "dma"} : active = m /\ (bus_ack \/ wbm_err) => served = m

(* An error has a reason: an address nobody owns, the fabric's silent or   *)
(* shielded port, or a fabric that was on the bus during the access.  The  *)
(* late answer of an access given up, or the other port's error, is none.  *)
ErrorsHaveCause ==
  \A p \in Ports : port[p] = "wait" /\ Acked(p) /\ rsp_err =>
    op[p].to \in {"void", "fabric"} \/ disturbed[p]

(* Two configuration words never reach the fabric in fewer than the three  *)
(* clocks its frame strobe needs.                                          *)
StrobesFarApart == config_we => since >= 3

(* The bus is what a CPU port expects of it: performed at most once,       *)
(* success only after the access was performed, and not performed any more *)
(* after an error, with timeouts, the fabric and the shield in between.    *)
Service ==
  INSTANCE BusService WITH
    open <- [p \in Ports |-> port[p] = "wait"],
    failed <- [p \in Ports |-> Acked(p) /\ rsp_err]
IsBusService == Service!Spec

(* An access the bridge holds and the keeper does not watch: it was issued *)
(* in the clock in which the keeper still reported a timeout that had come *)
(* together with an answer.                                                *)
Unwatched == pending /\ keeper = "idle"

(* Every access the keeper watches is answered, whatever the fabric does.  *)
WatchedAccessEnds ==
  \A p \in Ports : port[p] = "wait" ~> port[p] # "wait" \/ Unwatched

(* A fabric that keeps requesting is answered, by its slave or by the      *)
(* shield, as long as the CPU leaves the bus free now and then.            *)
FabricServed ==
  (<>[](drive = "ram") /\ []<>~cpu_cyc) =>
    []<>(decoupled_reg \/ (active = "dma" /\ bus_ack))
=============================================================================
