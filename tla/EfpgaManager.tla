---------------------------- MODULE EfpgaManager ----------------------------
(***************************************************************************)
(* The register file of hw/custom/efpga_manager.v and the shield of        *)
(* hw/custom/wb_decoupler.v behind slot 0, as the driver meets them: one   *)
(* step is one accepted bus write, or one change of the DMA activity, with *)
(* the clock edges that follow it before the next access can reach a       *)
(* register (an access takes several clocks).                              *)
(*                                                                         *)
(* com_active stays 0: its source is the configuration UART, whose Rx pin  *)
(* the SoC ties to '1'.                                                    *)
(***************************************************************************)
EXTENDS Integers, Sequences

CONSTANTS
  CountMod,  \* modulus of config_count_reg, 2^32 in the code
  IoValues,  \* values of the O_top pins
  IoZero,    \* the value 0x00
  PadValues, \* values of the scratchpad
  PadZero    \* its reset value

ASSUME ManagerAssumption ==
  /\ CountMod \in Nat \ {0, 1}
  /\ IoZero \in IoValues
  /\ PadZero \in PadValues

VARIABLES
  soft_reset_reg, was_reset_reg,                \* 0x04, bits 0 and 2
  config_count_reg,                             \* 0x0C
  scratchpad_reg,                               \* 0x10
  dec0_req_reg, dec0_force_reg, slot0_o_top_o,  \* 0x14
  decoupled_reg,                                \* the shield is up
  dma_act,                                      \* the fabric asserts CYC
  config_words   \* the words strobed into the fabric since a driver last
                 \* read the count before a stream (history)

csrRegs    == <<soft_reset_reg, was_reset_reg>>
streamRegs == <<config_count_reg, config_words>>
slot0Regs  == <<dec0_req_reg, dec0_force_reg, slot0_o_top_o>>
regVars == <<csrRegs, streamRegs, scratchpad_reg, slot0Regs, decoupled_reg,
             dma_act>>

(* Reset values.  The shield's own register resets to 0, but the request   *)
(* bit resets to 1 and nothing is on the bus: the next clock raises it.    *)
ManagerInit ==
  /\ soft_reset_reg = FALSE /\ was_reset_reg = TRUE
  /\ config_count_reg = 0 /\ config_words = <<>>
  /\ scratchpad_reg = PadZero
  /\ dec0_req_reg = TRUE /\ dec0_force_reg = FALSE /\ slot0_o_top_o = IoZero
  /\ decoupled_reg = TRUE
  /\ dma_act = FALSE

(* What the shield is after the following clocks: force raises it at once, *)
(* a request raises it when the fabric is off the bus, without either it   *)
(* drops.  The CPU is busy with the manager, so the host side is idle.     *)
ShieldForgetful(req, force, dma) == force \/ (req /\ ~dma)  \* fault
Shield(req, force, dma) == force \/ (req /\ (decoupled_reg \/ ~dma))

(* 0x04: bit 0 drives the fabric's reset.  Writing 0 to bit 2 clears       *)
(* was_reset_reg, even over the set by a soft reset this write ends; while *)
(* soft_reset_reg is 1 it sets again at every clock.                       *)
WriteCtrlStatus(soft, was) ==
  /\ soft_reset_reg' = soft
  /\ was_reset_reg' = (soft \/ (was /\ was_reset_reg))
  /\ UNCHANGED <<streamRegs, scratchpad_reg, slot0Regs, decoupled_reg, dma_act>>

(* 0x08: words strobed into the fabric and counted; the bus may deliver    *)
(* the one store of the CPU never or twice.                                *)
WriteConfigData(words) ==
  /\ config_count_reg' = (config_count_reg + Len(words)) % CountMod
  /\ config_words' = config_words \o words
  /\ UNCHANGED <<csrRegs, scratchpad_reg, slot0Regs, decoupled_reg, dma_act>>

(* 0x10 *)
WriteScratchpad(value) ==
  /\ scratchpad_reg' = value
  /\ UNCHANGED <<csrRegs, streamRegs, slot0Regs, decoupled_reg, dma_act>>

(* 0x14: the decoupler bits and O_top, written together by a 32-bit store. *)
WriteSlot0(req, force, io) ==
  /\ dec0_req_reg' = req /\ dec0_force_reg' = force /\ slot0_o_top_o' = io
  /\ decoupled_reg' = Shield(req, force, dma_act)
  /\ UNCHANGED <<csrRegs, streamRegs, scratchpad_reg, dma_act>>

(* The fabric's bus master begins or ends a cycle; whatever its            *)
(* configuration latches hold, it may do so at any time.  A pending        *)
(* request raises the shield in the first idle clock.                      *)
DmaBegin ==
  /\ ~dma_act /\ dma_act' = TRUE
  /\ UNCHANGED <<csrRegs, streamRegs, scratchpad_reg, slot0Regs, decoupled_reg>>

DmaEnd ==
  /\ dma_act /\ dma_act' = FALSE
  /\ decoupled_reg' = Shield(dec0_req_reg, dec0_force_reg, FALSE)
  /\ UNCHANGED <<csrRegs, streamRegs, scratchpad_reg, slot0Regs>>
=============================================================================
