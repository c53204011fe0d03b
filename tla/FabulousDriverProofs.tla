------------------------ MODULE FabulousDriverProofs ------------------------
(***************************************************************************)
(* The lock of the driver, for any number of threads, images and values:   *)
(* one call at a time is inside, and between calls the slot register is    *)
(* what the calls asked for.                                               *)
(***************************************************************************)
EXTENDS FabulousDriver, SequenceTheorems, TLAPS

(* A step of the call that has the lock, before its last write to the slot *)
(* register, and after it.                                                 *)
SlotOps == {"decouple", "couple", "write_io"}
Asks == [req : BOOLEAN, force : BOOLEAN, io : IoValues]

LockTypes ==
  /\ mutex \in Threads \cup {Free}
  /\ pc \in [Threads -> {"idle", "lock"} \cup Inside]
  /\ op \in [Threads -> Ops \cup {NoOp}]
  /\ csr \in [Threads -> [soft : BOOLEAN, was : BOOLEAN]]
  /\ val \in [Threads -> [req : BOOLEAN, force : BOOLEAN, io : IoValues,
                          dec : BOOLEAN]]
  /\ asked \in Asks
  /\ soft_reset_reg \in BOOLEAN /\ was_reset_reg \in BOOLEAN
  /\ dec0_req_reg \in BOOLEAN /\ dec0_force_reg \in BOOLEAN
  /\ slot0_o_top_o \in IoValues /\ decoupled_reg \in BOOLEAN

(* The lock is held by the one thread that is inside. *)
OneInside == \A t \in Threads : mutex = t <=> pc[t] \in Inside

(* What each thread is doing there, by the call it made. *)
OpMatchesPc ==
  \A t \in Threads :
    /\ pc[t] # "idle" => op[t] \in Ops
    /\ pc[t] \in {"slot_read", "slot_write"} => op[t].name \in SlotOps
    /\ pc[t] = "poll" => op[t].name = "decouple"
    /\ pc[t] \in Inside \ {"slot_read", "slot_write", "poll", "unlock"} =>
         op[t].name \notin SlotOps

SlotRegister == [req |-> dec0_req_reg, force |-> dec0_force_reg,
                 io |-> slot0_o_top_o]

(* The slot register holds what was asked, until the write of the call     *)
(* inside, and then that with the call's own request.                      *)
SlotFollows ==
  /\ mutex = Free => SlotRegister = asked
  /\ \A t \in Threads : mutex = t =>
       /\ pc[t] \notin {"poll", "unlock"} => SlotRegister = asked
       /\ pc[t] \in {"poll", "unlock"} => SlotRegister = AskedBy(asked, op[t])
       /\ pc[t] = "slot_write" =>
            /\ val[t].req = asked.req /\ val[t].force = asked.force
            /\ val[t].io = asked.io

(* Only reset drives the fabric's reset, and only between its two writes.  *)
ResetFollows ==
  /\ mutex = Free => ~soft_reset_reg
  /\ \A t \in Threads : mutex = t =>
       /\ pc[t] # "reset_off" => ~soft_reset_reg
       /\ pc[t] \in {"clear_was_reset", "reset_on"} => ~csr[t].soft

LockInv == LockTypes /\ OneInside /\ OpMatchesPc /\ SlotFollows /\ ResetFollows

(* What a call asks of the slot register, by the call. *)
LEMMA AsksNothing ==
  ASSUME NEW o, o.name \notin SlotOps, NEW a PROVE AskedBy(a, o) = a
BY DEF AskedBy, SlotOps

LEMMA AsksIo ==
  ASSUME NEW o, o.name = "write_io", NEW a \in Asks
  PROVE  AskedBy(a, o) = [req |-> a.req, force |-> a.force, io |-> o.value]
BY DEF AskedBy, Asks

LEMMA AsksCouple ==
  ASSUME NEW o, o.name = "couple", NEW a \in Asks
  PROVE  AskedBy(a, o) = [req |-> FALSE, force |-> FALSE, io |-> a.io]
BY DEF AskedBy, Asks

LEMMA AsksDecouple ==
  ASSUME NEW o, o.name = "decouple", NEW a \in Asks
  PROVE  AskedBy(a, o) = [req |-> ~o.force, force |-> o.force, io |-> a.io]
BY DEF AskedBy, Asks

(* The arguments of a call have their types. *)
LEMMA OpArguments ==
  ASSUME NEW o \in Ops
  PROVE  /\ o.name = "write_io" => o.value \in IoValues
         /\ o.name = "decouple" => o.force \in BOOLEAN
         /\ o.name \in {"reset", "load", "decouple", "couple", "write_io",
                        "test_scratchpad"}
BY DEF Ops

(* A record of typed fields is a request, and requests stay requests. *)
LEMMA AskRecord ==
  ASSUME NEW r \in BOOLEAN, NEW f \in BOOLEAN, NEW i \in IoValues
  PROVE  [req |-> r, force |-> f, io |-> i] \in Asks
BY DEF Asks

LEMMA AskedStaysAsked ==
  ASSUME NEW o \in Ops, NEW a \in Asks PROVE AskedBy(a, o) \in Asks
<1>0. a.req \in BOOLEAN /\ a.force \in BOOLEAN /\ a.io \in IoValues
  BY DEF Asks
<1>1. CASE o.name = "write_io"
  <2>1. o.value \in IoValues
    BY <1>1, OpArguments
  <2>2. [req |-> a.req, force |-> a.force, io |-> o.value] \in Asks
    BY <1>0, <2>1, AskRecord
  <2> QED
    BY <1>1, <2>2, AsksIo
<1>2. CASE o.name = "couple"
  <2>1. [req |-> FALSE, force |-> FALSE, io |-> a.io] \in Asks
    BY <1>0, AskRecord
  <2> QED
    BY <1>2, <2>1, AsksCouple
<1>3. CASE o.name = "decouple"
  <2>1. o.force \in BOOLEAN /\ (~o.force) \in BOOLEAN
    BY <1>3, OpArguments
  <2>2. [req |-> ~o.force, force |-> o.force, io |-> a.io] \in Asks
    BY <1>0, <2>1, AskRecord
  <2> QED
    BY <1>3, <2>2, AsksDecouple
<1>4. CASE o.name \notin SlotOps
  BY <1>4, AsksNothing
<1> QED
  BY <1>1, <1>2, <1>3, <1>4 DEF SlotOps

(* A call enters at its first access. *)
LEMMA EntryInside ==
  ASSUME NEW o \in Ops
  PROVE  /\ Entry[o.name] \in {"csr_read", "expect", "slot_read", "pad_write"}
         /\ Entry[o.name] = "slot_read" <=> o.name \in SlotOps
BY OpArguments DEF Entry, SlotOps

(* The shield is up or down. *)
LEMMA ShieldBoolean ==
  \A req, force, dma : Shield(req, force, dma) \in BOOLEAN
BY DEF Shield

(* The lock layer holds initially. *)
LEMMA LockInit == Init => LockInv
<1> SUFFICES ASSUME Init PROVE LockInv
  OBVIOUS
<1> USE DriverAssumption, ManagerAssumption DEF Init, ManagerInit, Inside
<1>1. LockTypes
  BY DEF LockTypes, NoCsr, NoVal, Asks
<1>2. OneInside /\ OpMatchesPc /\ ResetFollows
  BY DEF OneInside, OpMatchesPc, ResetFollows
<1>3. SlotFollows
  BY DEF SlotFollows, SlotRegister
<1> QED
  BY <1>1, <1>2, <1>3 DEF LockInv

(***************************************************************************)
(* Each action keeps the invariant: one lemma per action, one step per     *)
(* part.  The holder of the lock is the only thread whose step can change  *)
(* a register.                                                             *)
(***************************************************************************)
LEMMA LockStep ==
  ASSUME LockInv, NEW t \in Threads, Lock(t) PROVE LockInv'
<1> USE DriverAssumption, ManagerAssumption
    DEF LockInv, Inside, At, Goto, localVars, loadVars, histVars, regVars, csrRegs,
        slot0Regs, streamRegs, Available, Lock
<1>1. LockTypes'
  BY EntryInside DEF LockTypes, OpMatchesPc, Asks
<1>2. OneInside'
  BY EntryInside DEF LockTypes, OneInside, OpMatchesPc
<1>3. OpMatchesPc'
  BY EntryInside DEF LockTypes, OneInside, OpMatchesPc, SlotOps
<1>4. SlotFollows'
  <2>1. mutex' = t /\ t # Free /\ asked' = asked /\ SlotRegister' = SlotRegister
    BY DEF SlotRegister
  <2>2. SlotRegister = asked
    BY DEF SlotFollows
  <2>3. op[t] \in Ops /\ pc'[t] = Entry[op[t].name]
    BY DEF LockTypes, OpMatchesPc
  <2>4. pc'[t] \notin {"poll", "unlock", "slot_write"}
    BY <2>3, EntryInside
  <2> QED
    BY <2>1, <2>2, <2>4 DEF SlotFollows
<1>5. ResetFollows'
  <2>1. mutex' = t /\ t # Free /\ ~soft_reset_reg'
    BY DEF ResetFollows
  <2>2. op[t] \in Ops /\ pc'[t] = Entry[op[t].name]
    BY DEF LockTypes, OpMatchesPc
  <2>3. pc'[t] \in {"csr_read", "expect", "slot_read", "pad_write"}
    BY <2>2, EntryInside
  <2> QED
    BY <2>1, <2>3 DEF ResetFollows
<1> QED
  BY <1>1, <1>2, <1>3, <1>4, <1>5 DEF LockInv

LEMMA UnlockStep ==
  ASSUME LockInv, NEW t \in Threads, Unlock(t) PROVE LockInv'
<1> USE DriverAssumption, ManagerAssumption
    DEF LockInv, Inside, At, Goto, localVars, loadVars, histVars, regVars, csrRegs,
        slot0Regs, streamRegs, Released, NoCsr, NoVal, NoOp, Unlock
<1>1. LockTypes'
  BY AskedStaysAsked DEF LockTypes, OpMatchesPc, Asks
<1>2. OneInside'
  BY DEF LockTypes, OneInside, OpMatchesPc
<1>3. OpMatchesPc'
  BY DEF LockTypes, OneInside, OpMatchesPc, SlotOps
<1>4. SlotFollows'
  BY DEF LockTypes, OneInside, OpMatchesPc, SlotFollows, SlotRegister
<1>5. ResetFollows'
  BY DEF LockTypes, OneInside, OpMatchesPc, ResetFollows
<1> QED
  BY <1>1, <1>2, <1>3, <1>4, <1>5 DEF LockInv

LEMMA ReadCsrStep ==
  ASSUME LockInv, NEW t \in Threads, ReadCsr(t) PROVE LockInv'
<1> USE DriverAssumption, ManagerAssumption
    DEF LockInv, Inside, At, Goto, localVars, loadVars, histVars, regVars, csrRegs,
        slot0Regs, streamRegs, CsrRead, ReadCsr
<1>1. LockTypes'
  BY DEF LockTypes, OpMatchesPc, Asks
<1>2. OneInside'
  BY DEF LockTypes, OneInside, OpMatchesPc
<1>3. OpMatchesPc'
  BY DEF LockTypes, OneInside, OpMatchesPc, SlotOps
<1>4. SlotFollows'
  BY DEF LockTypes, OneInside, OpMatchesPc, SlotFollows, SlotRegister
<1>5. ResetFollows'
  BY DEF LockTypes, OneInside, OpMatchesPc, ResetFollows
<1> QED
  BY <1>1, <1>2, <1>3, <1>4, <1>5 DEF LockInv

LEMMA AssertResetStep ==
  ASSUME LockInv, NEW t \in Threads, AssertReset(t) PROVE LockInv'
<1> USE DriverAssumption, ManagerAssumption
    DEF LockInv, Inside, At, Goto, localVars, loadVars, histVars, regVars, csrRegs,
        slot0Regs, streamRegs, WriteCtrlStatus, AssertReset
<1>1. LockTypes'
  BY DEF LockTypes, OpMatchesPc, Asks
<1>2. OneInside'
  BY DEF LockTypes, OneInside, OpMatchesPc
<1>3. OpMatchesPc'
  BY DEF LockTypes, OneInside, OpMatchesPc, SlotOps
<1>4. SlotFollows'
  BY DEF LockTypes, OneInside, OpMatchesPc, SlotFollows, SlotRegister
<1>5. ResetFollows'
  BY DEF LockTypes, OneInside, OpMatchesPc, ResetFollows
<1> QED
  BY <1>1, <1>2, <1>3, <1>4, <1>5 DEF LockInv

LEMMA DeassertResetStep ==
  ASSUME LockInv, NEW t \in Threads, DeassertReset(t) PROVE LockInv'
<1> USE DriverAssumption, ManagerAssumption
    DEF LockInv, Inside, At, Goto, localVars, loadVars, histVars, regVars, csrRegs,
        slot0Regs, streamRegs, WriteCtrlStatus, DeassertReset
<1>1. LockTypes'
  BY DEF LockTypes, OpMatchesPc, Asks
<1>2. OneInside'
  BY DEF LockTypes, OneInside, OpMatchesPc
<1>3. OpMatchesPc'
  BY DEF LockTypes, OneInside, OpMatchesPc, SlotOps
<1>4. SlotFollows'
  BY AsksNothing DEF LockTypes, OneInside, OpMatchesPc, SlotFollows, SlotRegister
<1>5. ResetFollows'
  BY DEF LockTypes, OneInside, OpMatchesPc, ResetFollows
<1> QED
  BY <1>1, <1>2, <1>3, <1>4, <1>5 DEF LockInv

LEMMA ExpectFragmentStep ==
  ASSUME LockInv, NEW t \in Threads, ExpectFragment(t) PROVE LockInv'
<1> USE DriverAssumption, ManagerAssumption
    DEF LockInv, Inside, At, Goto, localVars, loadVars, histVars, regVars, csrRegs,
        slot0Regs, streamRegs, ExpectFragment
<1>1. LockTypes'
  BY DEF LockTypes, OpMatchesPc, Asks
<1>2. OneInside'
  BY DEF LockTypes, OneInside, OpMatchesPc
<1>3. OpMatchesPc'
  BY DEF LockTypes, OneInside, OpMatchesPc, SlotOps
<1>4. SlotFollows'
  BY DEF LockTypes, OneInside, OpMatchesPc, SlotFollows, SlotRegister
<1>5. ResetFollows'
  BY DEF LockTypes, OneInside, OpMatchesPc, ResetFollows
<1> QED
  BY <1>1, <1>2, <1>3, <1>4, <1>5 DEF LockInv

LEMMA CountBeforeStep ==
  ASSUME LockInv, NEW t \in Threads, CountBefore(t) PROVE LockInv'
<1> USE DriverAssumption, ManagerAssumption
    DEF LockInv, Inside, At, Goto, localVars, loadVars, histVars, regVars, csrRegs,
        slot0Regs, streamRegs, CountBefore
<1>1. LockTypes'
  BY DEF LockTypes, OpMatchesPc, Asks
<1>2. OneInside'
  BY DEF LockTypes, OneInside, OpMatchesPc
<1>3. OpMatchesPc'
  BY DEF LockTypes, OneInside, OpMatchesPc, SlotOps
<1>4. SlotFollows'
  BY DEF LockTypes, OneInside, OpMatchesPc, SlotFollows, SlotRegister
<1>5. ResetFollows'
  BY DEF LockTypes, OneInside, OpMatchesPc, ResetFollows
<1> QED
  BY <1>1, <1>2, <1>3, <1>4, <1>5 DEF LockInv

LEMMA StreamWordStep ==
  ASSUME LockInv, NEW t \in Threads, StreamWord(t) PROVE LockInv'
<1> USE DriverAssumption, ManagerAssumption
    DEF LockInv, Inside, At, Goto, localVars, loadVars, histVars, regVars, csrRegs,
        slot0Regs, streamRegs, StreamStep, WriteConfigData, StreamWord
<1>1. LockTypes'
  BY DEF LockTypes, OpMatchesPc, Asks
<1>2. OneInside'
  BY DEF LockTypes, OneInside, OpMatchesPc
<1>3. OpMatchesPc'
  BY DEF LockTypes, OneInside, OpMatchesPc, SlotOps
<1>4. SlotFollows'
  BY DEF LockTypes, OneInside, OpMatchesPc, SlotFollows, SlotRegister
<1>5. ResetFollows'
  BY DEF LockTypes, OneInside, OpMatchesPc, ResetFollows
<1> QED
  BY <1>1, <1>2, <1>3, <1>4, <1>5 DEF LockInv

LEMMA StreamWordFaultyStep ==
  ASSUME LockInv, NEW t \in Threads, StreamWordFaulty(t) PROVE LockInv'
<1> USE DriverAssumption, ManagerAssumption
    DEF LockInv, Inside, At, Goto, localVars, loadVars, histVars, regVars, csrRegs,
        slot0Regs, streamRegs, StreamStep, WriteConfigData, StreamWordFaulty
<1>1. LockTypes'
  BY DEF LockTypes, OpMatchesPc, Asks
<1>2. OneInside'
  BY DEF LockTypes, OneInside, OpMatchesPc
<1>3. OpMatchesPc'
  BY DEF LockTypes, OneInside, OpMatchesPc, SlotOps
<1>4. SlotFollows'
  BY DEF LockTypes, OneInside, OpMatchesPc, SlotFollows, SlotRegister
<1>5. ResetFollows'
  BY DEF LockTypes, OneInside, OpMatchesPc, ResetFollows
<1> QED
  BY <1>1, <1>2, <1>3, <1>4, <1>5 DEF LockInv

LEMMA NextFragmentStep ==
  ASSUME LockInv, NEW t \in Threads, NextFragment(t) PROVE LockInv'
<1> USE DriverAssumption, ManagerAssumption
    DEF LockInv, Inside, At, Goto, localVars, loadVars, histVars, regVars, csrRegs,
        slot0Regs, streamRegs, NextFragment
<1>1. LockTypes'
  BY DEF LockTypes, OpMatchesPc, Asks
<1>2. OneInside'
  BY DEF LockTypes, OneInside, OpMatchesPc
<1>3. OpMatchesPc'
  BY DEF LockTypes, OneInside, OpMatchesPc, SlotOps
<1>4. SlotFollows'
  BY DEF LockTypes, OneInside, OpMatchesPc, SlotFollows, SlotRegister
<1>5. ResetFollows'
  BY DEF LockTypes, OneInside, OpMatchesPc, ResetFollows
<1> QED
  BY <1>1, <1>2, <1>3, <1>4, <1>5 DEF LockInv

LEMMA CountAfterStep ==
  ASSUME LockInv, NEW t \in Threads, CountAfter(t) PROVE LockInv'
<1> USE DriverAssumption, ManagerAssumption
    DEF LockInv, Inside, At, Goto, localVars, loadVars, histVars, regVars, csrRegs,
        slot0Regs, streamRegs, CountAfter
<1>1. LockTypes'
  BY DEF LockTypes, OpMatchesPc, Asks
<1>2. OneInside'
  BY DEF LockTypes, OneInside, OpMatchesPc
<1>3. OpMatchesPc'
  BY DEF LockTypes, OneInside, OpMatchesPc, SlotOps
<1>4. SlotFollows'
  BY AsksNothing DEF LockTypes, OneInside, OpMatchesPc, SlotFollows, SlotRegister
<1>5. ResetFollows'
  BY DEF LockTypes, OneInside, OpMatchesPc, ResetFollows
<1> QED
  BY <1>1, <1>2, <1>3, <1>4, <1>5 DEF LockInv

LEMMA ClearWasResetStep ==
  ASSUME LockInv, NEW t \in Threads, ClearWasReset(t) PROVE LockInv'
<1> USE DriverAssumption, ManagerAssumption
    DEF LockInv, Inside, At, Goto, localVars, loadVars, histVars, regVars, csrRegs,
        slot0Regs, streamRegs, WriteCtrlStatus, ClearWasReset
<1>1. LockTypes'
  BY DEF LockTypes, OpMatchesPc, Asks
<1>2. OneInside'
  BY DEF LockTypes, OneInside, OpMatchesPc
<1>3. OpMatchesPc'
  BY DEF LockTypes, OneInside, OpMatchesPc, SlotOps
<1>4. SlotFollows'
  BY AsksNothing DEF LockTypes, OneInside, OpMatchesPc, SlotFollows, SlotRegister
<1>5. ResetFollows'
  BY DEF LockTypes, OneInside, OpMatchesPc, ResetFollows
<1> QED
  BY <1>1, <1>2, <1>3, <1>4, <1>5 DEF LockInv

LEMMA ReadSlotStep ==
  ASSUME LockInv, NEW t \in Threads, ReadSlot(t) PROVE LockInv'
<1> USE DriverAssumption, ManagerAssumption
    DEF LockInv, Inside, At, Goto, localVars, loadVars, histVars, regVars, csrRegs,
        slot0Regs, streamRegs, SlotRead, ReadSlot
<1>1. LockTypes'
  BY DEF LockTypes, OpMatchesPc, Asks
<1>2. OneInside'
  BY DEF LockTypes, OneInside, OpMatchesPc
<1>3. OpMatchesPc'
  BY DEF LockTypes, OneInside, OpMatchesPc, SlotOps
<1>4. SlotFollows'
  BY DEF LockTypes, OneInside, OpMatchesPc, SlotFollows, SlotRegister
<1>5. ResetFollows'
  BY DEF LockTypes, OneInside, OpMatchesPc, ResetFollows
<1> QED
  BY <1>1, <1>2, <1>3, <1>4, <1>5 DEF LockInv

LEMMA WriteDecoupleStep ==
  ASSUME LockInv, NEW t \in Threads, WriteDecouple(t) PROVE LockInv'
<1> USE DriverAssumption, ManagerAssumption
    DEF LockInv, Inside, At, Goto, localVars, loadVars, histVars, regVars, csrRegs,
        slot0Regs, streamRegs, WriteSlot0, WriteDecouple
<1>1. LockTypes'
  BY OpArguments, ShieldBoolean DEF LockTypes, OpMatchesPc, Asks
<1>2. OneInside'
  BY DEF LockTypes, OneInside, OpMatchesPc
<1>3. OpMatchesPc'
  BY DEF LockTypes, OneInside, OpMatchesPc, SlotOps
<1>4. SlotFollows'
  BY AsksDecouple DEF LockTypes, OneInside, OpMatchesPc, SlotFollows, SlotRegister
<1>5. ResetFollows'
  BY DEF LockTypes, OneInside, OpMatchesPc, ResetFollows
<1> QED
  BY <1>1, <1>2, <1>3, <1>4, <1>5 DEF LockInv

LEMMA WriteCoupleStep ==
  ASSUME LockInv, NEW t \in Threads, WriteCouple(t) PROVE LockInv'
<1> USE DriverAssumption, ManagerAssumption
    DEF LockInv, Inside, At, Goto, localVars, loadVars, histVars, regVars, csrRegs,
        slot0Regs, streamRegs, WriteSlot0, WriteCouple
<1>1. LockTypes'
  BY ShieldBoolean DEF LockTypes, OpMatchesPc, Asks
<1>2. OneInside'
  BY DEF LockTypes, OneInside, OpMatchesPc
<1>3. OpMatchesPc'
  BY DEF LockTypes, OneInside, OpMatchesPc, SlotOps
<1>4. SlotFollows'
  <2>1. val[t].io = asked.io
    BY DEF LockTypes, OneInside, SlotFollows
  <2>2. SlotRegister' = [req |-> FALSE, force |-> FALSE, io |-> asked.io]
    BY <2>1 DEF SlotRegister
  <2>3. SlotRegister' = AskedBy(asked, op[t])'
    BY <2>2, AsksCouple DEF LockTypes
  <2>4. mutex' = t /\ pc'[t] = "unlock" /\ mutex' # Free
    BY DEF LockTypes, OneInside
  <2> QED
    BY <2>3, <2>4 DEF SlotFollows
<1>5. ResetFollows'
  BY DEF LockTypes, OneInside, OpMatchesPc, ResetFollows
<1> QED
  BY <1>1, <1>2, <1>3, <1>4, <1>5 DEF LockInv

LEMMA WriteIoStep ==
  ASSUME LockInv, NEW t \in Threads, WriteIo(t) PROVE LockInv'
<1> USE DriverAssumption, ManagerAssumption
    DEF LockInv, Inside, At, Goto, localVars, loadVars, histVars, regVars, csrRegs,
        slot0Regs, streamRegs, WriteSlot0, WriteIo
<1>1. LockTypes'
  BY OpArguments, ShieldBoolean DEF LockTypes, OpMatchesPc, Asks
<1>2. OneInside'
  BY DEF LockTypes, OneInside, OpMatchesPc
<1>3. OpMatchesPc'
  BY DEF LockTypes, OneInside, OpMatchesPc, SlotOps
<1>4. SlotFollows'
  BY AsksIo DEF LockTypes, OneInside, OpMatchesPc, SlotFollows, SlotRegister
<1>5. ResetFollows'
  BY DEF LockTypes, OneInside, OpMatchesPc, ResetFollows
<1> QED
  BY <1>1, <1>2, <1>3, <1>4, <1>5 DEF LockInv

LEMMA PollAgainStep ==
  ASSUME LockInv, NEW t \in Threads, PollAgain(t) PROVE LockInv'
<1> USE DriverAssumption, ManagerAssumption
    DEF LockInv, Inside, At, Goto, localVars, loadVars, histVars, regVars, csrRegs,
        slot0Regs, streamRegs, Poll, PollAgain
<1>1. LockTypes'
  BY DEF LockTypes, OpMatchesPc, Asks
<1>2. OneInside'
  BY DEF LockTypes, OneInside, OpMatchesPc
<1>3. OpMatchesPc'
  BY DEF LockTypes, OneInside, OpMatchesPc, SlotOps
<1>4. SlotFollows'
  BY DEF LockTypes, OneInside, OpMatchesPc, SlotFollows, SlotRegister
<1>5. ResetFollows'
  BY DEF LockTypes, OneInside, OpMatchesPc, ResetFollows
<1> QED
  BY <1>1, <1>2, <1>3, <1>4, <1>5 DEF LockInv

LEMMA PollConfirmedStep ==
  ASSUME LockInv, NEW t \in Threads, PollConfirmed(t) PROVE LockInv'
<1> USE DriverAssumption, ManagerAssumption
    DEF LockInv, Inside, At, Goto, localVars, loadVars, histVars, regVars, csrRegs,
        slot0Regs, streamRegs, Poll, PollConfirmed
<1>1. LockTypes'
  BY DEF LockTypes, OpMatchesPc, Asks
<1>2. OneInside'
  BY DEF LockTypes, OneInside, OpMatchesPc
<1>3. OpMatchesPc'
  BY DEF LockTypes, OneInside, OpMatchesPc, SlotOps
<1>4. SlotFollows'
  BY DEF LockTypes, OneInside, OpMatchesPc, SlotFollows, SlotRegister
<1>5. ResetFollows'
  BY DEF LockTypes, OneInside, OpMatchesPc, ResetFollows
<1> QED
  BY <1>1, <1>2, <1>3, <1>4, <1>5 DEF LockInv

LEMMA PollTimeoutStep ==
  ASSUME LockInv, NEW t \in Threads, PollTimeout(t) PROVE LockInv'
<1> USE DriverAssumption, ManagerAssumption
    DEF LockInv, Inside, At, Goto, localVars, loadVars, histVars, regVars, csrRegs,
        slot0Regs, streamRegs, Poll, PollTimeout
<1>1. LockTypes'
  BY DEF LockTypes, OpMatchesPc, Asks
<1>2. OneInside'
  BY DEF LockTypes, OneInside, OpMatchesPc
<1>3. OpMatchesPc'
  BY DEF LockTypes, OneInside, OpMatchesPc, SlotOps
<1>4. SlotFollows'
  BY DEF LockTypes, OneInside, OpMatchesPc, SlotFollows, SlotRegister
<1>5. ResetFollows'
  BY DEF LockTypes, OneInside, OpMatchesPc, ResetFollows
<1> QED
  BY <1>1, <1>2, <1>3, <1>4, <1>5 DEF LockInv

LEMMA WritePadStep ==
  ASSUME LockInv, NEW t \in Threads, WritePad(t) PROVE LockInv'
<1> USE DriverAssumption, ManagerAssumption
    DEF LockInv, Inside, At, Goto, localVars, loadVars, histVars, regVars, csrRegs,
        slot0Regs, streamRegs, WriteScratchpad, WritePad
<1>1. LockTypes'
  BY DEF LockTypes, OpMatchesPc, Asks
<1>2. OneInside'
  BY DEF LockTypes, OneInside, OpMatchesPc
<1>3. OpMatchesPc'
  BY DEF LockTypes, OneInside, OpMatchesPc, SlotOps
<1>4. SlotFollows'
  BY DEF LockTypes, OneInside, OpMatchesPc, SlotFollows, SlotRegister
<1>5. ResetFollows'
  BY DEF LockTypes, OneInside, OpMatchesPc, ResetFollows
<1> QED
  BY <1>1, <1>2, <1>3, <1>4, <1>5 DEF LockInv

LEMMA ReadPadStep ==
  ASSUME LockInv, NEW t \in Threads, ReadPad(t) PROVE LockInv'
<1> USE DriverAssumption, ManagerAssumption
    DEF LockInv, Inside, At, Goto, localVars, loadVars, histVars, regVars, csrRegs,
        slot0Regs, streamRegs, ReadPad
<1>1. LockTypes'
  BY DEF LockTypes, OpMatchesPc, Asks
<1>2. OneInside'
  BY DEF LockTypes, OneInside, OpMatchesPc
<1>3. OpMatchesPc'
  BY DEF LockTypes, OneInside, OpMatchesPc, SlotOps
<1>4. SlotFollows'
  BY AsksNothing DEF LockTypes, OneInside, OpMatchesPc, SlotFollows, SlotRegister
<1>5. ResetFollows'
  BY DEF LockTypes, OneInside, OpMatchesPc, ResetFollows
<1> QED
  BY <1>1, <1>2, <1>3, <1>4, <1>5 DEF LockInv

LEMMA ProbeStep ==
  ASSUME LockInv, Probe PROVE LockInv'
<1> USE DriverAssumption, ManagerAssumption
    DEF LockInv, Inside, At, Goto, localVars, loadVars, histVars, regVars, csrRegs,
        slot0Regs, streamRegs, callVars, Probe
<1>1. LockTypes'
  BY DEF LockTypes, OpMatchesPc, Asks
<1>2. OneInside'
  BY DEF LockTypes, OneInside, OpMatchesPc
<1>3. OpMatchesPc'
  BY DEF LockTypes, OneInside, OpMatchesPc, SlotOps
<1>4. SlotFollows'
  BY DEF LockTypes, OneInside, OpMatchesPc, SlotFollows, SlotRegister
<1>5. ResetFollows'
  BY DEF LockTypes, OneInside, OpMatchesPc, ResetFollows
<1> QED
  BY <1>1, <1>2, <1>3, <1>4, <1>5 DEF LockInv

LEMMA DmaStep ==
  ASSUME LockInv, Dma PROVE LockInv'
<1>1. UNCHANGED <<mutex, pc, op, csr, val, asked, soft_reset_reg, was_reset_reg,
                  dec0_req_reg, dec0_force_reg, slot0_o_top_o>>
  BY DEF Dma, DmaBegin, DmaEnd, drvVars, callVars, localVars, loadVars, histVars, csrRegs,
         slot0Regs
<1>2. decoupled_reg' \in BOOLEAN
  <2>1. CASE DmaBegin
    BY <2>1 DEF DmaBegin, LockInv, LockTypes
  <2>2. CASE DmaEnd
    BY <2>2, ShieldBoolean DEF DmaEnd
  <2> QED
    BY <2>1, <2>2 DEF Dma
<1> QED
  BY <1>1, <1>2 DEF LockInv, LockTypes, OneInside, OpMatchesPc, SlotFollows,
                    ResetFollows, SlotRegister

LEMMA CallStep ==
  ASSUME LockInv, NEW t \in Threads, Call(t) PROVE LockInv'
<1> USE DriverAssumption, ManagerAssumption
    DEF LockInv, Inside, At, Goto, localVars, loadVars, histVars, regVars, csrRegs,
        slot0Regs, streamRegs, Call
<1>1. LockTypes'
  BY DEF LockTypes, OpMatchesPc, Asks
<1>2. OneInside'
  BY DEF LockTypes, OneInside, OpMatchesPc
<1>3. OpMatchesPc'
  BY DEF LockTypes, OneInside, OpMatchesPc, SlotOps
<1>4. SlotFollows'
  BY DEF LockTypes, OneInside, OpMatchesPc, SlotFollows, SlotRegister
<1>5. ResetFollows'
  BY DEF LockTypes, OneInside, OpMatchesPc, ResetFollows
<1> QED
  BY <1>1, <1>2, <1>3, <1>4, <1>5 DEF LockInv

LEMMA IdleStep == LockInv /\ UNCHANGED vars => LockInv'
BY DEF vars, drvVars, callVars, localVars, loadVars, histVars, regVars, csrRegs, slot0Regs,
       LockInv, LockTypes, OneInside, OpMatchesPc, SlotFollows, ResetFollows,
       SlotRegister

(* Every step keeps the lock layer. *)
LEMMA DriverStep == LockInv /\ [Next]_vars => LockInv'
BY LockStep, UnlockStep, ReadCsrStep, AssertResetStep, DeassertResetStep,
   ExpectFragmentStep, CountBeforeStep, StreamWordStep, StreamWordFaultyStep,
   NextFragmentStep,
   CountAfterStep, ClearWasResetStep, ReadSlotStep, WriteDecoupleStep,
   WriteCoupleStep, WriteIoStep, PollAgainStep, PollConfirmedStep,
   PollTimeoutStep, WritePadStep, ReadPadStep, ProbeStep, DmaStep,
   CallStep, IdleStep
   DEF Next, Step

(* One call at a time is inside the driver, and the registers follow it.   *)
THEOREM LockLayer == Spec => []LockInv
<1>1. Init => LockInv
  BY LockInit
<1>2. LockInv /\ [Next]_vars => LockInv'
  BY DriverStep
<1> QED
  BY <1>1, <1>2, PTL DEF Spec

(* Between calls the slot register holds exactly what set_decoupler and    *)
(* write_io were asked for, and the fabric is out of reset.                *)
THEOREM RegisterIsWhatWasAsked == Spec => []RegisterMatchesRequests
<1>1. LockInv => RegisterMatchesRequests
  BY DEF LockInv, SlotFollows, ResetFollows, SlotRegister, RegisterMatchesRequests
<1> QED
  BY <1>1, LockLayer, PTL

-----------------------------------------------------------------------------
(* The shield and the status, above the lock layer                         *)

(* A confirmed shield is up, and a request or force bit keeps it up.       *)
ShieldHeld == confirmed => decoupled_reg /\ (dec0_req_reg \/ dec0_force_reg)

(* was_reset is clear, in the register or in a snapshot reset will write   *)
(* back, only after a verified load.                                       *)
StatusEarned ==
  /\ load_count \in {0, 1}
  /\ ~was_reset_reg => load_count = 1
  /\ \A t \in Threads :
       pc[t] \in {"reset_on", "reset_off"} /\ ~csr[t].was => load_count = 1

(* The initial states have both parts. *)
LEMMA EarnedInit == Init => ShieldHeld /\ StatusEarned
BY DEF Init, ManagerInit, ShieldHeld, StatusEarned

(* No step lowers a confirmed shield: write_io writes back the bits it     *)
(* read, and a change between request and force leaves one of them set.    *)
LEMMA ShieldStep == LockInv /\ ShieldHeld /\ [Next]_vars => ShieldHeld'
<1> SUFFICES ASSUME LockInv, ShieldHeld, [Next]_vars PROVE ShieldHeld'
  OBVIOUS
<1> USE DEF ShieldHeld, localVars, loadVars, histVars, regVars, csrRegs, slot0Regs, streamRegs, At, Goto
<1>1. ASSUME NEW t \in Threads, Lock(t) PROVE ShieldHeld'
  BY <1>1 DEF Lock, Available
<1>2. ASSUME NEW t \in Threads, Unlock(t) PROVE ShieldHeld'
  BY <1>2 DEF Unlock, Released, NoCsr, NoVal, NoOp
<1>3. ASSUME NEW t \in Threads, ReadCsr(t) PROVE ShieldHeld'
  BY <1>3 DEF ReadCsr, CsrRead
<1>4. ASSUME NEW t \in Threads, AssertReset(t) PROVE ShieldHeld'
  BY <1>4 DEF AssertReset, WriteCtrlStatus
<1>5. ASSUME NEW t \in Threads, DeassertReset(t) PROVE ShieldHeld'
  BY <1>5 DEF DeassertReset, WriteCtrlStatus
<1>6. ASSUME NEW t \in Threads, CountBefore(t) PROVE ShieldHeld'
  BY <1>6 DEF CountBefore
<1>7. ASSUME NEW t \in Threads, StreamWord(t) PROVE ShieldHeld'
  BY <1>7 DEF StreamWord, StreamStep, WriteConfigData
<1>8. ASSUME NEW t \in Threads, StreamWordFaulty(t) PROVE ShieldHeld'
  BY <1>8 DEF StreamWordFaulty, StreamStep, WriteConfigData
<1>9. ASSUME NEW t \in Threads, CountAfter(t) PROVE ShieldHeld'
  BY <1>9 DEF CountAfter
<1>10. ASSUME NEW t \in Threads, ClearWasReset(t) PROVE ShieldHeld'
  BY <1>10 DEF ClearWasReset, WriteCtrlStatus
<1>11. ASSUME NEW t \in Threads, ReadSlot(t) PROVE ShieldHeld'
  BY <1>11 DEF ReadSlot, SlotRead
<1>12. ASSUME NEW t \in Threads, WriteDecouple(t) PROVE ShieldHeld'
  BY <1>12 DEF WriteDecouple, WriteSlot0, Shield
<1>13. ASSUME NEW t \in Threads, WriteCouple(t) PROVE ShieldHeld'
  BY <1>13 DEF WriteCouple, WriteSlot0
<1>14. ASSUME NEW t \in Threads, WriteIo(t) PROVE ShieldHeld'
  BY <1>14 DEF WriteIo, WriteSlot0, Shield, LockInv, LockTypes, OneInside, SlotFollows, SlotRegister, Inside
<1>15. ASSUME NEW t \in Threads, PollAgain(t) PROVE ShieldHeld'
  BY <1>15 DEF PollAgain, Poll
<1>16. ASSUME NEW t \in Threads, PollConfirmed(t) PROVE ShieldHeld'
  <2> USE <1>16 DEF PollConfirmed, Poll
  <2>1. mutex = t /\ pc[t] = "poll" /\ op[t] \in Ops /\ op[t].name = "decouple"
    BY DEF LockInv, OneInside, Inside, OpMatchesPc
  <2>2. SlotRegister = AskedBy(asked, op[t]) /\ asked \in Asks
    BY <2>1 DEF LockInv, LockTypes, SlotFollows
  <2>3. SlotRegister = [req |-> ~op[t].force, force |-> op[t].force, io |-> asked.io]
    BY <2>1, <2>2, AsksDecouple
  <2>4. op[t].force \in BOOLEAN
    BY <2>1, OpArguments
  <2>5. dec0_req_reg \/ dec0_force_reg
    <3>1. SlotRegister.req = dec0_req_reg /\ SlotRegister.force = dec0_force_reg
      BY DEF SlotRegister
    <3> QED
      BY <2>3, <2>4, <3>1
  <2>6. decoupled_reg /\ UNCHANGED <<decoupled_reg, dec0_req_reg, dec0_force_reg>>
    OBVIOUS
  <2> QED
    BY <2>5, <2>6
<1>17. ASSUME NEW t \in Threads, PollTimeout(t) PROVE ShieldHeld'
  BY <1>17 DEF PollTimeout, Poll
<1>18. ASSUME NEW t \in Threads, WritePad(t) PROVE ShieldHeld'
  BY <1>18 DEF WritePad, WriteScratchpad
<1>19. ASSUME NEW t \in Threads, ReadPad(t) PROVE ShieldHeld'
  BY <1>19 DEF ReadPad
<1>24. ASSUME NEW t \in Threads, ExpectFragment(t) PROVE ShieldHeld'
  BY <1>24 DEF ExpectFragment
<1>25. ASSUME NEW t \in Threads, NextFragment(t) PROVE ShieldHeld'
  BY <1>25 DEF NextFragment
<1>20. CASE Probe
  BY <1>20 DEF Probe, callVars
<1>21. CASE Dma
  BY <1>21 DEF Dma, DmaBegin, DmaEnd, drvVars, callVars, Shield
<1>22. ASSUME NEW t \in Threads, Call(t) PROVE ShieldHeld'
  BY <1>22 DEF Call, LockInv, LockTypes
<1>23. CASE UNCHANGED vars
  BY <1>23 DEF vars, drvVars, callVars
<1> QED
  BY <1>1, <1>2, <1>3, <1>4, <1>5, <1>6, <1>7, <1>8, <1>9, <1>10, <1>11,
     <1>12, <1>13, <1>14, <1>15, <1>16, <1>17, <1>18, <1>19, <1>20,
     <1>21, <1>22, <1>23, <1>24, <1>25
     DEF Next, Step

(* No step clears was_reset without a verified load before it. *)
LEMMA StatusStep == LockInv /\ StatusEarned /\ [Next]_vars => StatusEarned'
<1> SUFFICES ASSUME LockInv, StatusEarned, [Next]_vars PROVE StatusEarned'
  OBVIOUS
<1> USE DEF StatusEarned, localVars, loadVars, histVars, regVars, csrRegs, slot0Regs, streamRegs, At, Goto
<1>1. ASSUME NEW t \in Threads, Lock(t) PROVE StatusEarned'
  BY <1>1, EntryInside DEF Lock, Available, LockInv, LockTypes, OneInside, Inside, OpMatchesPc
<1>2. ASSUME NEW t \in Threads, Unlock(t) PROVE StatusEarned'
  BY <1>2 DEF Unlock, Released, NoCsr, NoVal, NoOp, LockInv, LockTypes, OneInside, Inside
<1>3. ASSUME NEW t \in Threads, ReadCsr(t) PROVE StatusEarned'
  BY <1>3 DEF ReadCsr, CsrRead, LockInv, LockTypes, OneInside, Inside
<1>4. ASSUME NEW t \in Threads, AssertReset(t) PROVE StatusEarned'
  BY <1>4 DEF AssertReset, WriteCtrlStatus, LockInv, LockTypes, OneInside, Inside
<1>5. ASSUME NEW t \in Threads, DeassertReset(t) PROVE StatusEarned'
  BY <1>5 DEF DeassertReset, WriteCtrlStatus, LockInv, LockTypes, OneInside, Inside
<1>6. ASSUME NEW t \in Threads, CountBefore(t) PROVE StatusEarned'
  BY <1>6 DEF CountBefore, LockInv, LockTypes, OneInside, Inside
<1>7. ASSUME NEW t \in Threads, StreamWord(t) PROVE StatusEarned'
  BY <1>7 DEF StreamWord, StreamStep, WriteConfigData, LockInv, LockTypes, OneInside, Inside
<1>8. ASSUME NEW t \in Threads, StreamWordFaulty(t) PROVE StatusEarned'
  BY <1>8 DEF StreamWordFaulty, StreamStep, WriteConfigData, LockInv, LockTypes, OneInside, Inside
<1>9. ASSUME NEW t \in Threads, CountAfter(t) PROVE StatusEarned'
  BY <1>9 DEF CountAfter, LockInv, LockTypes, OneInside, Inside
<1>10. ASSUME NEW t \in Threads, ClearWasReset(t) PROVE StatusEarned'
  BY <1>10 DEF ClearWasReset, WriteCtrlStatus, LockInv, LockTypes, OneInside, Inside
<1>11. ASSUME NEW t \in Threads, ReadSlot(t) PROVE StatusEarned'
  BY <1>11 DEF ReadSlot, SlotRead, LockInv, LockTypes, OneInside, Inside
<1>12. ASSUME NEW t \in Threads, WriteDecouple(t) PROVE StatusEarned'
  BY <1>12 DEF WriteDecouple, WriteSlot0, LockInv, LockTypes, OneInside, Inside
<1>13. ASSUME NEW t \in Threads, WriteCouple(t) PROVE StatusEarned'
  BY <1>13 DEF WriteCouple, WriteSlot0, LockInv, LockTypes, OneInside, Inside
<1>14. ASSUME NEW t \in Threads, WriteIo(t) PROVE StatusEarned'
  BY <1>14 DEF WriteIo, WriteSlot0, LockInv, LockTypes, OneInside, Inside
<1>15. ASSUME NEW t \in Threads, PollAgain(t) PROVE StatusEarned'
  BY <1>15 DEF PollAgain, Poll, LockInv, LockTypes, OneInside, Inside
<1>16. ASSUME NEW t \in Threads, PollConfirmed(t) PROVE StatusEarned'
  BY <1>16 DEF PollConfirmed, Poll, LockInv, LockTypes, OneInside, Inside
<1>17. ASSUME NEW t \in Threads, PollTimeout(t) PROVE StatusEarned'
  BY <1>17 DEF PollTimeout, Poll, LockInv, LockTypes, OneInside, Inside
<1>18. ASSUME NEW t \in Threads, WritePad(t) PROVE StatusEarned'
  BY <1>18 DEF WritePad, WriteScratchpad, LockInv, LockTypes, OneInside, Inside
<1>19. ASSUME NEW t \in Threads, ReadPad(t) PROVE StatusEarned'
  BY <1>19 DEF ReadPad, LockInv, LockTypes, OneInside, Inside
<1>24. ASSUME NEW t \in Threads, ExpectFragment(t) PROVE StatusEarned'
  BY <1>24 DEF ExpectFragment, LockInv, LockTypes, OneInside, Inside
<1>25. ASSUME NEW t \in Threads, NextFragment(t) PROVE StatusEarned'
  BY <1>25 DEF NextFragment, LockInv, LockTypes, OneInside, Inside
<1>20. CASE Probe
  BY <1>20 DEF Probe, callVars
<1>21. CASE Dma
  BY <1>21 DEF Dma, DmaBegin, DmaEnd, drvVars, callVars, Shield
<1>22. ASSUME NEW t \in Threads, Call(t) PROVE StatusEarned'
  BY <1>22 DEF Call, LockInv, LockTypes
<1>23. CASE UNCHANGED vars
  BY <1>23 DEF vars, drvVars, callVars
<1> QED
  BY <1>1, <1>2, <1>3, <1>4, <1>5, <1>6, <1>7, <1>8, <1>9, <1>10, <1>11,
     <1>12, <1>13, <1>14, <1>15, <1>16, <1>17, <1>18, <1>19, <1>20,
     <1>21, <1>22, <1>23, <1>24, <1>25
     DEF Next, Step

(* Once set_decoupler(true) returned 0 the shield stays up until a call    *)
(* recouples the slot.                                                     *)
THEOREM ConfirmedShieldStays == Spec => []ShieldConfirmed
<1>1. ShieldHeld => ShieldConfirmed
  BY DEF ShieldHeld, ShieldConfirmed
<1> QED
  BY <1>1, EarnedInit, ShieldStep, LockLayer, PTL DEF Spec

(* get_status never says ACTIVE before a load was verified. *)
THEOREM ActiveIsEarned == Spec => []ActiveNeedsLoad
<1>1. StatusEarned => ActiveNeedsLoad
  BY DEF StatusEarned, ActiveNeedsLoad, get_status
<1> QED
  BY <1>1, EarnedInit, StatusStep, LockLayer, PTL DEF Spec

-----------------------------------------------------------------------------
(* The types of the load's own state, and which call is at which access    *)

LoadTypes ==
  /\ config_count_reg \in 0 .. CountMod - 1
  /\ scratchpad_reg \in PadValues /\ dma_act \in BOOLEAN
  /\ device \in {"probing", "ready", "failed"} /\ load_count \in {0, 1}
  /\ total_words_expected \in [Threads -> 0 .. CountMod - 1]
  /\ initial_count \in [Threads -> 0 .. CountMod - 1]
  /\ frag \in [Threads -> Nat] /\ word \in [Threads -> Nat]
  /\ polls \in [Threads -> 0 .. MaxPolls]
  /\ ret \in [Threads -> {"OK", "EIO", "ETIMEDOUT"}]
  /\ faults \in 0 .. MaxFaults /\ confirmed \in BOOLEAN

CallAtPc ==
  \A t \in Threads :
    /\ pc[t] \in {"expect", "stream", "clear_was_reset"} => op[t].name = "load"
    /\ pc[t] \in {"reset_on", "reset_off"} => op[t].name = "reset"
    /\ pc[t] \in {"pad_write", "pad_read"} => op[t].name = "test_scratchpad"
    /\ pc[t] = "csr_read" => op[t].name \in {"reset", "load"}

CallInv == LoadTypes /\ CallAtPc

(* The first access of each call, by name. *)
LEMMA EntryOf ==
  ASSUME NEW o \in Ops
  PROVE  /\ Entry[o.name] = "csr_read" <=> o.name = "reset"
         /\ Entry[o.name] = "expect" <=> o.name = "load"
         /\ Entry[o.name] = "pad_write" <=> o.name = "test_scratchpad"
BY OpArguments DEF Entry

(* What a load and a scratchpad test are given. *)
LEMMA LoadArguments ==
  ASSUME NEW o \in Ops
  PROVE  /\ o.name = "load" => o.frags \in Seq(Seq(0 .. 255))
         /\ o.name = "test_scratchpad" => o.value \in PadValues
BY DriverAssumption DEF Ops

(* A fragment takes as many words as its bytes fill, the last one padded. *)
LEMMA WordsOfBytes ==
  ASSUME NEW bytes \in Seq(0 .. 255)
  PROVE  /\ Words(bytes) \in Nat
         /\ Len(bytes) <= 4 * Words(bytes) /\ 4 * Words(bytes) < Len(bytes) + 4
BY DEF Words

LEMMA FragmentOfLoad ==
  ASSUME LockInv, CallInv, NEW t \in Threads, pc[t] \in {"expect", "stream"}
  PROVE  /\ op[t] \in Ops /\ op[t].frags \in Seq(Seq(0 .. 255))
         /\ FragmentsLeft(t) => Fragment(t) \in Seq(0 .. 255) /\ Words(Fragment(t)) \in Nat
<1>1. op[t] \in Ops /\ op[t].name = "load"
  BY DEF LockInv, OpMatchesPc, CallInv, CallAtPc
<1>2. op[t].frags \in Seq(Seq(0 .. 255))
  BY <1>1, LoadArguments
<1>3. ASSUME FragmentsLeft(t) PROVE Fragment(t) \in Seq(0 .. 255)
  <2>1. frag[t] + 1 \in 1 .. Len(op[t].frags)
    BY <1>2, <1>3 DEF FragmentsLeft, CallInv, LoadTypes
  <2> QED
    BY <1>2, <2>1 DEF Fragment
<1> QED
  BY <1>1, <1>2, <1>3, WordsOfBytes

LEMMA CallInit == Init => CallInv
<1> SUFFICES ASSUME Init PROVE CallInv
  OBVIOUS
<1>1. CallAtPc
  BY DEF Init, CallAtPc
<1>2. /\ config_count_reg \in 0 .. CountMod - 1
      /\ device \in {"probing", "ready", "failed"}
      /\ load_count \in {0, 1} /\ faults \in 0 .. MaxFaults
  BY DriverAssumption, ManagerAssumption DEF Init, ManagerInit
<1>5. scratchpad_reg \in PadValues
  BY ManagerAssumption DEF Init, ManagerInit
<1>6. dma_act \in BOOLEAN
  BY DEF Init, ManagerInit
<1>7. confirmed \in BOOLEAN
  BY DEF Init
<1>3. /\ 0 \in 0 .. CountMod - 1 /\ 0 \in 0 .. MaxPolls
  BY DriverAssumption, ManagerAssumption
<1>4. /\ total_words_expected \in [Threads -> 0 .. CountMod - 1]
      /\ initial_count \in [Threads -> 0 .. CountMod - 1]
      /\ frag \in [Threads -> Nat] /\ word \in [Threads -> Nat]
      /\ polls \in [Threads -> 0 .. MaxPolls]
      /\ ret \in [Threads -> {"OK", "EIO", "ETIMEDOUT"}]
  BY <1>3 DEF Init
<1> QED
  BY <1>1, <1>2, <1>4, <1>5, <1>6, <1>7 DEF CallInv, LoadTypes

(* The word count stays below its modulus. *)
LEMMA CountWraps == \A n \in Int : n % CountMod \in 0 .. CountMod - 1
BY ManagerAssumption

LEMMA CallKept == LockInv /\ CallInv /\ [Next]_vars => CallInv'
<1> SUFFICES ASSUME LockInv, CallInv, [Next]_vars PROVE CallInv'
  OBVIOUS
<1> USE DriverAssumption, ManagerAssumption
    DEF CallInv, LoadTypes, CallAtPc, LockInv, LockTypes, OpMatchesPc, localVars,
        loadVars, histVars, regVars, csrRegs, slot0Regs, streamRegs, At, Goto
<1>1. ASSUME NEW t \in Threads, Lock(t) PROVE CallInv'
  <2>1. op[t] \in Ops /\ pc'[t] = Entry[op[t].name]
    BY <1>1 DEF Lock
  <2>2. CallAtPc'
    BY <1>1, <2>1, EntryOf, EntryInside DEF Lock
  <2> QED
    BY <1>1, <2>2 DEF Lock
<1>2. ASSUME NEW t \in Threads, Unlock(t) PROVE CallInv'
  BY <1>2 DEF Unlock, Released, NoCsr, NoVal, NoOp
<1>3. ASSUME NEW t \in Threads, ReadCsr(t) PROVE CallInv'
  BY <1>3 DEF ReadCsr, CsrRead
<1>4. ASSUME NEW t \in Threads, AssertReset(t) PROVE CallInv'
  BY <1>4 DEF AssertReset, WriteCtrlStatus
<1>5. ASSUME NEW t \in Threads, DeassertReset(t) PROVE CallInv'
  BY <1>5 DEF DeassertReset, WriteCtrlStatus
<1>6. ASSUME NEW t \in Threads, ExpectFragment(t) PROVE CallInv'
  <2>1. total_words_expected[t] + Words(Fragment(t)) \in Int
    BY <1>6, FragmentOfLoad DEF ExpectFragment
  <2>2. total_words_expected' \in [Threads -> 0 .. CountMod - 1]
    BY <1>6, <2>1, CountWraps DEF ExpectFragment
  <2>3. frag' \in [Threads -> Nat]
    BY <1>6 DEF ExpectFragment
  <2>4. CallAtPc'
    BY <1>6 DEF ExpectFragment
  <2>5. LoadTypes'
    BY <1>6, <2>2, <2>3 DEF ExpectFragment
  <2> QED
    BY <2>4, <2>5
<1>7. ASSUME NEW t \in Threads, CountBefore(t) PROVE CallInv'
  BY <1>7 DEF CountBefore
<1>8. ASSUME NEW t \in Threads, StreamWord(t) PROVE CallInv'
  <2>1. PICK n \in Nat : config_count_reg' = (config_count_reg + n) % CountMod
    <3>1. ASSUME NEW copies \in {0, 1, 2}, StreamStep(t, copies)
          PROVE  config_count_reg' = (config_count_reg + copies) % CountMod
      <4>1. Len([k \in 1 .. copies |-> WordOf(Fragment(t), word[t])]) = copies
        OBVIOUS
      <4> QED
        BY <3>1, <4>1 DEF StreamStep, WriteConfigData
    <3> QED
      BY <1>8, <3>1 DEF StreamWord
  <2>2. config_count_reg' \in 0 .. CountMod - 1
    <3>1. config_count_reg + n \in Int
      OBVIOUS
    <3> QED
      BY <2>1, <3>1, CountWraps
  <2>3. word' \in [Threads -> Nat]
    BY <1>8 DEF StreamWord, StreamStep
  <2>4. faults' \in 0 .. MaxFaults
    BY <1>8 DEF StreamWord
  <2>5. CallAtPc'
    BY <1>8 DEF StreamWord, StreamStep
  <2>6. LoadTypes'
    BY <1>8, <2>2, <2>3, <2>4 DEF StreamWord, StreamStep, WriteConfigData
  <2> QED
    BY <2>5, <2>6
<1>9. ASSUME NEW t \in Threads, StreamWordFaulty(t) PROVE CallInv'
  <2>1. PICK n \in Nat : config_count_reg' = (config_count_reg + n) % CountMod
    <3>1. ASSUME NEW copies \in {0, 1, 2}, StreamStep(t, copies)
          PROVE  config_count_reg' = (config_count_reg + copies) % CountMod
      <4>1. Len([k \in 1 .. copies |-> WordOf(Fragment(t), word[t])]) = copies
        OBVIOUS
      <4> QED
        BY <3>1, <4>1 DEF StreamStep, WriteConfigData
    <3> QED
      BY <1>9, <3>1 DEF StreamWordFaulty
  <2>2. config_count_reg' \in 0 .. CountMod - 1
    <3>1. config_count_reg + n \in Int
      OBVIOUS
    <3> QED
      BY <2>1, <3>1, CountWraps
  <2>3. word' \in [Threads -> Nat]
    BY <1>9 DEF StreamWordFaulty, StreamStep
  <2>4. faults' \in 0 .. MaxFaults
    BY <1>9 DEF StreamWordFaulty
  <2>5. CallAtPc'
    BY <1>9 DEF StreamWordFaulty, StreamStep
  <2>6. LoadTypes'
    BY <1>9, <2>2, <2>3, <2>4 DEF StreamWordFaulty, StreamStep, WriteConfigData
  <2> QED
    BY <2>5, <2>6
<1>10. ASSUME NEW t \in Threads, NextFragment(t) PROVE CallInv'
  BY <1>10 DEF NextFragment
<1>11. ASSUME NEW t \in Threads, CountAfter(t) PROVE CallInv'
  <2>1. CASE StreamVerified(t)
    BY <1>11, <2>1 DEF CountAfter
  <2>2. CASE ~StreamVerified(t)
    <3>1. ret' = [ret EXCEPT ![t] = "EIO"] /\ pc' = [pc EXCEPT ![t] = "unlock"]
      BY <1>11, <2>2 DEF CountAfter
    <3>2. CallAtPc' /\ ret' \in [Threads -> {"OK", "EIO", "ETIMEDOUT"}]
      BY <1>11, <3>1 DEF CountAfter
    <3> QED
      BY <1>11, <3>2 DEF CountAfter
  <2> QED
    BY <2>1, <2>2
<1>12. ASSUME NEW t \in Threads, ClearWasReset(t) PROVE CallInv'
  BY <1>12 DEF ClearWasReset, WriteCtrlStatus
<1>13. ASSUME NEW t \in Threads, ReadSlot(t) PROVE CallInv'
  BY <1>13 DEF ReadSlot, SlotRead
<1>14. ASSUME NEW t \in Threads, WriteDecouple(t) PROVE CallInv'
  BY <1>14 DEF WriteDecouple, WriteSlot0
<1>15. ASSUME NEW t \in Threads, WriteCouple(t) PROVE CallInv'
  BY <1>15 DEF WriteCouple, WriteSlot0
<1>16. ASSUME NEW t \in Threads, WriteIo(t) PROVE CallInv'
  BY <1>16 DEF WriteIo, WriteSlot0
<1>17. ASSUME NEW t \in Threads, PollAgain(t) PROVE CallInv'
  <2>1. polls' \in [Threads -> 0 .. MaxPolls]
    BY <1>17 DEF PollAgain, Poll
  <2> QED
    BY <1>17, <2>1 DEF PollAgain, Poll
<1>18. ASSUME NEW t \in Threads, PollConfirmed(t) PROVE CallInv'
  BY <1>18 DEF PollConfirmed, Poll
<1>19. ASSUME NEW t \in Threads, PollTimeout(t) PROVE CallInv'
  BY <1>19 DEF PollTimeout, Poll
<1>20. ASSUME NEW t \in Threads, WritePad(t) PROVE CallInv'
  BY <1>20, LoadArguments DEF WritePad, WriteScratchpad
<1>21. ASSUME NEW t \in Threads, ReadPad(t) PROVE CallInv'
  BY <1>21 DEF ReadPad
<1>22. ASSUME NEW t \in Threads, Call(t) PROVE CallInv'
  BY <1>22 DEF Call
<1>23. CASE Probe
  BY <1>23 DEF Probe, callVars
<1>24. CASE Dma
  BY <1>24 DEF Dma, DmaBegin, DmaEnd, drvVars, callVars
<1>25. CASE UNCHANGED vars
  BY <1>25 DEF vars, drvVars, callVars
<1> QED
  BY <1>1, <1>2, <1>3, <1>4, <1>5, <1>6, <1>7, <1>8, <1>9, <1>10, <1>11, <1>12, <1>13, <1>14, <1>15, <1>16, <1>17, <1>18, <1>19, <1>20, <1>21, <1>22, <1>23, <1>24, <1>25
     DEF Next, Step

(* Every variable keeps its type. *)
THEOREM DriverTypes == Spec => []TypeOK
<1>1. LockInv /\ CallInv => TypeOK
  BY DEF LockInv, LockTypes, CallInv, LoadTypes, TypeOK, Asks
<1> QED
  BY <1>1, CallInit, CallKept, LockLayer, PTL DEF Spec

-----------------------------------------------------------------------------
(* What a load has stored                                                  *)

(* Where the words of each of the first n fragments end in the stream. *)
Cuts(frags, n, cut) ==
  /\ cut \in [0 .. n -> Nat] /\ cut[0] = 0
  /\ \A f \in 1 .. n : cut[f] = cut[f - 1] + Words(frags[f])

(* The words stored by t so far are those of the fragments, in order. *)
StoredInOrder(t, cut) ==
  /\ Len(config_words) = cut[frag[t]] + word[t]
  /\ \A f \in 0 .. frag[t] : cut[f] <= Len(config_words)
  /\ \A f \in 1 .. frag[t] : \A i \in 0 .. Words(op[t].frags[f]) - 1 :
       config_words[cut[f - 1] + i + 1] = WordOf(op[t].frags[f], i)
  /\ FragmentsLeft(t) =>
       \A i \in 0 .. word[t] - 1 :
         config_words[cut[frag[t]] + i + 1] = WordOf(Fragment(t), i)

(* One store too few or too many: a bus fault the count check will notice. *)
OneStoreOff(t, cut) ==
  /\ faults > 0
  /\ \/ Len(config_words) + 1 = cut[frag[t]] + word[t]
     \/ Len(config_words) = cut[frag[t]] + word[t] + 1

Streaming(t, cut) ==
  /\ Cuts(op[t].frags, Len(op[t].frags), cut)
  /\ total_words_expected[t] = cut[Len(op[t].frags)] % CountMod
  /\ config_count_reg = (initial_count[t] + Len(config_words)) % CountMod
  /\ frag[t] <= Len(op[t].frags)
  /\ IF FragmentsLeft(t) THEN word[t] <= Words(Fragment(t)) ELSE word[t] = 0
  /\ faults = 0 => StoredInOrder(t, cut)
  /\ faults <= 1 => StoredInOrder(t, cut) \/ OneStoreOff(t, cut)

(* The fabric holds the fragments of t's load, padded, and nothing else. *)
Loaded(t) ==
  \E cut \in [0 .. Len(op[t].frags) -> 0 .. Len(config_words)] :
    /\ cut[0] = 0 /\ cut[Len(op[t].frags)] = Len(config_words)
    /\ \A f \in DOMAIN op[t].frags :
         PaddedFragment(op[t].frags[f], cut[f - 1], cut[f])

Expecting(t) ==
  /\ frag[t] <= Len(op[t].frags) /\ word[t] = 0
  /\ \E cut : /\ Cuts(op[t].frags, frag[t], cut)
              /\ total_words_expected[t] = cut[frag[t]] % CountMod

LoadFollows(t) ==
  /\ pc[t] \in {"idle", "lock"} =>
       frag[t] = 0 /\ word[t] = 0 /\ total_words_expected[t] = 0
  /\ pc[t] = "expect" => Expecting(t)
  /\ pc[t] = "stream" => \E cut : Streaming(t, cut)
  /\ pc[t] \in {"csr_read", "clear_was_reset", "unlock"}
       /\ op[t].name = "load" /\ ret[t] = "OK" /\ faults <= 1 => Loaded(t)
  /\ ret[t] = "EIO" => faults > 0
  /\ pc[t] = "pad_read" => scratchpad_reg = op[t].value

StreamInv ==
  /\ config_words \in Seq([1 .. 4 -> 0 .. 255])
  /\ \A t \in Threads : LoadFollows(t)

(* A register as a sequence, and the words one store appends. *)
LEMMA LengthOf ==
  ASSUME NEW n \in Nat, NEW S, NEW row \in [1 .. n -> S]
  PROVE  row \in Seq(S) /\ Len(row) = n
<1>1. row \in Seq(S)
  BY SeqDef
<1>2. Len(row) \in Nat /\ 1 .. n = 1 .. Len(row)
  BY <1>1, LenProperties
<1>3. n = 0 => Len(row) = 0
  <2>1. SUFFICES ASSUME n = 0, Len(row) # 0 PROVE FALSE
    BY <1>2
  <2>2. 1 \in 1 .. Len(row)
    BY <1>2, <2>1
  <2> QED
    BY <1>2, <2>1, <2>2
<1>4. n # 0 => Len(row) = n
  BY <1>2
<1> QED
  BY <1>1, <1>3, <1>4

LEMMA Stores ==
  ASSUME NEW S, NEW s \in Seq(S), NEW w \in S, NEW n \in {0, 1, 2}
  PROVE  LET r == s \o [k \in 1 .. n |-> w]
         IN /\ r \in Seq(S) /\ Len(r) = Len(s) + n
            /\ \A i \in 1 .. Len(s) : r[i] = s[i]
            /\ n > 0 => r[Len(s) + 1] = w
<1> DEFINE more == [k \in 1 .. n |-> w]
<1>1. more \in [1 .. n -> S] /\ n \in Nat
  OBVIOUS
<1>2. more \in Seq(S) /\ Len(more) = n
  BY <1>1, LengthOf
<1>3. n > 0 => more[1] = w
  OBVIOUS
<1> HIDE DEF more
<1>4. /\ s \o more \in Seq(S) /\ Len(s \o more) = Len(s) + n
      /\ \A i \in 1 .. Len(s) : (s \o more)[i] = s[i]
      /\ n > 0 => (s \o more)[Len(s) + 1] = more[1]
  BY <1>2
<1> QED
  BY <1>3, <1>4 DEF more

(* The arithmetic of a wrapping counter. *)
LEMMA Divides ==
  ASSUME NEW m \in Nat \ {0}, NEW a \in Int
  PROVE  /\ a \div m \in Int /\ a % m \in 0 .. m - 1
         /\ a = (a \div m) * m + (a % m)
OBVIOUS

LEMMA Remainder ==
  ASSUME NEW m \in Nat \ {0}, NEW q \in Int, NEW r \in 0 .. m - 1
  PROVE  (q * m + r) % m = r
OBVIOUS

LEMMA Parts ==
  \A m \in Nat \ {0} : \A a \in Int :
    \E q \in Int, r \in 0 .. m - 1 : a = q * m + r /\ a % m = r
BY Divides

LEMMA AddWrapped ==
  ASSUME NEW m \in Nat \ {0}, NEW a \in Int, NEW b \in Int
  PROVE  ((a % m) + b) % m = (a + b) % m
<1>1. PICK q \in Int, r \in 0 .. m - 1 : a = q * m + r /\ a % m = r
  BY Parts
<1>2. PICK p \in Int, s \in 0 .. m - 1 : r + b = p * m + s /\ (r + b) % m = s
  <2>1. r + b \in Int
    BY <1>1
  <2> QED
    BY <2>1, Parts
<1>3. q + p \in Int /\ a + b = (q + p) * m + s
  BY <1>1, <1>2
<1>4. (a + b) % m = s
  BY <1>3, Remainder
<1> QED
  BY <1>1, <1>2, <1>4

(* The difference of two readings is the number counted between, wrapped. *)
LEMMA WrappedDifference ==
  ASSUME NEW m \in Nat \ {0}, NEW a \in Int, NEW b \in Int
  PROVE  (((a + b) % m) - a) % m = b % m
<1>1. PICK q \in Int, r \in 0 .. m - 1 : a + b = q * m + r /\ (a + b) % m = r
  <2>1. a + b \in Int
    OBVIOUS
  <2> QED
    BY <2>1, Parts
<1>2. PICK p \in Int, s \in 0 .. m - 1 : b = p * m + s /\ b % m = s
  BY Parts
<1>3. p - q \in Int /\ r - a = (p - q) * m + s
  BY <1>1, <1>2
<1>4. (r - a) % m = s
  BY <1>3, Remainder
<1> QED
  BY <1>1, <1>2, <1>4

(* A count that is off by one is noticed. *)
LEMMA OffByOne ==
  ASSUME NEW m \in Nat \ {0, 1}, NEW a \in Int
  PROVE  (a + 1) % m # a % m
<1> SUFFICES ASSUME (a + 1) % m = a % m PROVE FALSE
  OBVIOUS
<1>1. PICK q \in Int, r \in 0 .. m - 1 : a = q * m + r /\ a % m = r
  BY Parts
<1>2. PICK p \in Int, s \in 0 .. m - 1 : a + 1 = p * m + s /\ (a + 1) % m = s
  <2>1. a + 1 \in Int
    OBVIOUS
  <2> QED
    BY <2>1, Parts
<1>3. p - q \in Int /\ (p - q) * m = 1
  BY <1>1, <1>2
<1>4. \A k \in Int : k * m # 1
  <2> TAKE k \in Int
  <2>1. CASE k >= 1
    BY <2>1
  <2>2. CASE k <= 0
    BY <2>2
  <2> QED
    BY <2>1, <2>2
<1> QED
  BY <1>3, <1>4

(* A word of a fragment is four bytes. *)
LEMMA WordIsBytes ==
  ASSUME NEW bytes \in Seq(0 .. 255), NEW i \in Nat
  PROVE  WordOf(bytes, i) \in [1 .. 4 -> 0 .. 255]
<1>1. ASSUME NEW k \in 1 .. 4
      PROVE  (IF 4 * i + k <= Len(bytes) THEN bytes[4 * i + k] ELSE Pad) \in 0 .. 255
  <2>1. PICK j \in Nat \ {0} : j = 4 * i + k
    OBVIOUS
  <2>2. j <= Len(bytes) => bytes[j] \in 0 .. 255
    <3>1. j <= Len(bytes) => j \in 1 .. Len(bytes)
      BY LenProperties
    <3> QED
      BY <3>1, ElementOfSeq
  <2> QED
    BY <2>1, <2>2 DEF Pad
<1> QED
  BY <1>1 DEF WordOf

(* One more fragment added up. *)
LEMMA CutOneMore ==
  ASSUME NEW frags \in Seq(Seq(0 .. 255)), NEW n \in Nat, n < Len(frags),
         NEW cut, Cuts(frags, n, cut)
  PROVE  \E more : /\ Cuts(frags, n + 1, more)
                   /\ more[n + 1] = cut[n] + Words(frags[n + 1])
<1> DEFINE more == [f \in 0 .. n + 1 |->
                      IF f <= n THEN cut[f] ELSE cut[n] + Words(frags[n + 1])]
<1>1. frags[n + 1] \in Seq(0 .. 255)
  OBVIOUS
<1>2. Words(frags[n + 1]) \in Nat
  BY <1>1, WordsOfBytes
<1>3. more \in [0 .. n + 1 -> Nat] /\ more[0] = 0
  BY <1>2 DEF Cuts
<1>4. \A f \in 1 .. n + 1 : more[f] = more[f - 1] + Words(frags[f])
  BY DEF Cuts
<1>5. more[n + 1] = cut[n] + Words(frags[n + 1])
  OBVIOUS
<1> HIDE DEF more
<1>6. Cuts(frags, n + 1, more)
  BY <1>3, <1>4 DEF Cuts
<1> QED
  BY <1>5, <1>6

(* Byte k of word i is byte 4i + k. *)
LEMMA FourToAWord ==
  /\ \A w \in Nat : \A p \in 1 .. 4 * w :
       \E i \in 0 .. w - 1, k \in 1 .. 4 : p = 4 * i + k
  /\ \A i \in Nat : \A k \in 1 .. 4 :
       (4 * i + k - 1) \div 4 = i /\ (4 * i + k - 1) % 4 = k - 1
<1>1. ASSUME NEW w \in Nat, NEW p \in 1 .. 4 * w
      PROVE  \E i \in 0 .. w - 1, k \in 1 .. 4 : p = 4 * i + k
  <2>1. PICK q \in Int, r \in 0 .. 3 : p - 1 = q * 4 + r
    <3>1. p - 1 \in Int /\ 4 \in Nat \ {0} /\ 0 .. 4 - 1 = 0 .. 3
      OBVIOUS
    <3> QED
      BY <3>1, Parts
  <2>2. q \in 0 .. w - 1 /\ r + 1 \in 1 .. 4 /\ p = 4 * q + (r + 1)
    BY <2>1
  <2> QED
    BY <2>2
<1>2. ASSUME NEW i \in Nat, NEW k \in 1 .. 4
      PROVE  (4 * i + k - 1) \div 4 = i /\ (4 * i + k - 1) % 4 = k - 1
  <2>1. k = 1 \/ k = 2 \/ k = 3 \/ k = 4
    OBVIOUS
  <2> QED
    BY <2>1
<1> QED
  BY <1>1, <1>2

(* Words stored in order up to the end are the fragments, padded.          *)
LEMMA StoredIsLoaded ==
  ASSUME NEW t \in Threads, NEW cut, op[t].frags \in Seq(Seq(0 .. 255)),
         config_words \in Seq([1 .. 4 -> 0 .. 255]),
         Cuts(op[t].frags, Len(op[t].frags), cut), StoredInOrder(t, cut),
         frag[t] = Len(op[t].frags), word[t] = 0
  PROVE  Loaded(t)
<1> DEFINE frags == op[t].frags
           n == Len(frags)
<1>0. n \in Nat /\ Len(config_words) \in Nat /\ frags \in Seq(Seq(0 .. 255))
  BY LenProperties
<1>1. /\ cut \in [0 .. n -> Nat] /\ cut[0] = 0
      /\ \A f \in 1 .. n : cut[f] = cut[f - 1] + Words(frags[f])
  BY DEF Cuts
<1> HIDE DEF n
<1>2. /\ cut[n] = Len(config_words)
      /\ \A f \in 0 .. n : cut[f] <= Len(config_words)
      /\ \A f \in 1 .. n : \A i \in 0 .. Words(frags[f]) - 1 :
           config_words[cut[f - 1] + i + 1] = WordOf(frags[f], i)
  <2>1. n \in 0 .. n
    BY <1>0
  <2>2. cut[n] \in Nat
    BY <1>1, <2>1
  <2>3. frag[t] = n
    BY DEF n
  <2>4. cut[n] = Len(config_words)
    BY <2>2, <2>3 DEF StoredInOrder
  <2>5. \A f \in 0 .. n : cut[f] <= Len(config_words)
    BY <2>3 DEF StoredInOrder
  <2>6. \A f \in 1 .. n : \A i \in 0 .. Words(frags[f]) - 1 :
          config_words[cut[f - 1] + i + 1] = WordOf(frags[f], i)
    BY <2>3, Zenon DEF StoredInOrder
  <2> QED
    BY <2>4, <2>5, <2>6
<1>3. cut \in [0 .. n -> 0 .. Len(config_words)]
  BY <1>0, <1>1, <1>2
<1>4. ASSUME NEW f \in 1 .. n PROVE PaddedFragment(frags[f], cut[f - 1], cut[f])
  <2>1. frags[f] \in Seq(0 .. 255) /\ Len(frags[f]) \in Nat
    BY <1>0, ElementOfSeq, LenProperties DEF n
  <2>2. PICK w \in Nat : w = Words(frags[f])
    BY <2>1, WordsOfBytes
  <2>3. PICK from \in Nat : from = cut[f - 1]
    <3>1. f - 1 \in 0 .. n
      BY <1>0
    <3> QED
      BY <1>1, <3>1
  <2>4. cut[f] = from + w
    BY <1>1, <2>2, <2>3
  <2>5. Len(frags[f]) <= 4 * w /\ 4 * w < Len(frags[f]) + 4
    BY <2>1, <2>2, WordsOfBytes
  <2>6. ASSUME NEW p \in 1 .. 4 * w
        PROVE  ByteOf(config_words, 4 * from + p) =
                 IF p <= Len(frags[f]) THEN frags[f][p] ELSE Pad
    <3>1. PICK i \in 0 .. w - 1, k \in 1 .. 4 : p = 4 * i + k
      BY FourToAWord
    <3>2. /\ ((4 * from + p - 1) \div 4) + 1 = from + i + 1
          /\ ((4 * from + p - 1) % 4) + 1 = k
      <4>1. PICK j \in Nat : j = from + i
        BY <3>1
      <4>2. 4 * from + p - 1 = 4 * j + k - 1
        BY <3>1, <4>1
      <4>3. (4 * j + k - 1) \div 4 = j /\ (4 * j + k - 1) % 4 = k - 1
        BY <3>1, FourToAWord
      <4> QED
        BY <3>1, <4>1, <4>2, <4>3
    <3>3. config_words[from + i + 1] = WordOf(frags[f], i)
      BY <1>2, <2>2, <2>3, <3>1
    <3>4. WordOf(frags[f], i)[k] =
            IF 4 * i + k <= Len(frags[f]) THEN frags[f][4 * i + k] ELSE Pad
      BY <3>1 DEF WordOf
    <3> QED
      BY <3>1, <3>2, <3>3, <3>4 DEF ByteOf
  <2> QED
    BY <2>3, <2>4, <2>5, <2>6 DEF PaddedFragment
<1>5. DOMAIN frags = 1 .. n
  BY <1>0, LenProperties DEF n
<1> QED
  BY <1>1, <1>2, <1>3, <1>4, <1>5 DEF Loaded, n

(* A load's words are stored by its own call alone: what the others are at *)
(* stays what it was.                                                      *)
KeepsOthers(t) ==
  /\ \A u \in Threads \ {t} :
       /\ pc'[u] = pc[u] /\ frag'[u] = frag[u] /\ word'[u] = word[u]
       /\ total_words_expected'[u] = total_words_expected[u] /\ ret'[u] = ret[u]
  /\ faults' >= faults

LEMMA OthersOutside ==
  ASSUME LockInv, NEW t \in Threads, pc[t] \in Inside, NEW u \in Threads \ {t}
  PROVE  pc[u] \in {"idle", "lock"}
BY DEF LockInv, LockTypes, OneInside

LEMMA OthersFollow ==
  ASSUME LockInv, CallInv, StreamInv, NEW t \in Threads, pc[t] \in Inside,
         faults' \in Nat, KeepsOthers(t), NEW u \in Threads \ {t}
  PROVE  LoadFollows(u)'
<1>1. pc[u] \in {"idle", "lock"} /\ pc'[u] = pc[u]
  BY OthersOutside DEF KeepsOthers
<1>2. LoadFollows(u)
  BY DEF StreamInv
<1>3. faults \in Nat
  BY DriverAssumption DEF CallInv, LoadTypes
<1> QED
  BY <1>1, <1>2, <1>3 DEF KeepsOthers, LoadFollows

(* So a step of a call has to keep its own part only. *)
LEMMA OwnPart ==
  ASSUME LockInv, CallInv, StreamInv, NEW t \in Threads, pc[t] \in Inside,
         faults' \in Nat, KeepsOthers(t), LoadFollows(t)',
         config_words' \in Seq([1 .. 4 -> 0 .. 255])
  PROVE  StreamInv'
<1>1. ASSUME NEW u \in Threads PROVE LoadFollows(u)'
  BY OthersFollow
<1> QED
  BY <1>1 DEF StreamInv

(* What was stored and what was loaded are read off a few variables.       *)
LEMMA StreamingFrame ==
  ASSUME NEW t \in Threads, NEW cut, Streaming(t, cut),
         op'[t] = op[t], frag'[t] = frag[t], word'[t] = word[t],
         total_words_expected'[t] = total_words_expected[t],
         initial_count'[t] = initial_count[t], faults' = faults,
         UNCHANGED <<config_words, config_count_reg>>
  PROVE  Streaming(t, cut)'
BY DEF Streaming, StoredInOrder, OneStoreOff, FragmentsLeft, Fragment

LEMMA LoadedFrame ==
  ASSUME NEW t \in Threads, Loaded(t), op'[t] = op[t], UNCHANGED config_words
  PROVE  Loaded(t)'
<1>1. \A bytes, from, to :
        PaddedFragment(bytes, from, to) => PaddedFragment(bytes, from, to)'
  BY DEF PaddedFragment, ByteOf
<1>2. PICK frags : frags = op[t].frags /\ frags = op'[t].frags
  OBVIOUS
<1> QED
  BY <1>1, <1>2 DEF Loaded

LEMMA ExpectingFrame ==
  ASSUME NEW t \in Threads, Expecting(t), op'[t] = op[t], frag'[t] = frag[t],
         word'[t] = word[t], total_words_expected'[t] = total_words_expected[t]
  PROVE  Expecting(t)'
BY DEF Expecting

(* A step outside the load's own ones keeps what each thread has loaded.   *)
LEMMA FollowsFrame ==
  ASSUME NEW t \in Threads, LoadFollows(t), pc'[t] = pc[t], op'[t] = op[t],
         frag'[t] = frag[t], word'[t] = word[t], ret'[t] = ret[t],
         total_words_expected'[t] = total_words_expected[t],
         initial_count'[t] = initial_count[t], faults' = faults,
         UNCHANGED <<config_words, config_count_reg, scratchpad_reg>>
  PROVE  LoadFollows(t)'
<1>1. pc[t] = "expect" => Expecting(t)'
  BY ExpectingFrame DEF LoadFollows
<1>2. ASSUME pc[t] = "stream" PROVE \E cut : Streaming(t, cut)'
  <2>1. PICK cut : Streaming(t, cut)
    BY <1>2 DEF LoadFollows
  <2>2. Streaming(t, cut)'
    BY <2>1, StreamingFrame
  <2> QED
    BY <2>2
<1>3. pc[t] \in {"csr_read", "clear_was_reset", "unlock"}
        /\ op[t].name = "load" /\ ret[t] = "OK" /\ faults <= 1 => Loaded(t)'
  BY LoadedFrame DEF LoadFollows
<1> QED
  BY <1>1, <1>2, <1>3 DEF LoadFollows

LEMMA StreamInit == Init => StreamInv
<1> SUFFICES ASSUME Init PROVE StreamInv
  OBVIOUS
<1>1. config_words \in Seq([1 .. 4 -> 0 .. 255])
  BY DEF Init, ManagerInit
<1>2. ASSUME NEW t \in Threads PROVE LoadFollows(t)
  BY DEF Init, LoadFollows
<1> QED
  BY <1>1, <1>2 DEF StreamInv

(* The steps that load nothing: the streaming words and the count stay.    *)
LEMMA StreamQuiet ==
  ASSUME LockInv, CallInv, StreamInv, NEW t \in Threads, Step(t),
         pc[t] \notin {"lock", "expect", "stream"}
  PROVE  StreamInv'
<1> USE DEF At, Goto, localVars, loadVars, histVars, regVars, csrRegs, slot0Regs,
        streamRegs
<1>0. LoadFollows(t) /\ faults \in Nat /\ config_words \in Seq([1 .. 4 -> 0 .. 255])
  BY DriverAssumption DEF StreamInv, CallInv, LoadTypes
<1>t. /\ pc \in [Threads -> {"idle", "lock"} \cup Inside] /\ op[t] \in Ops \cup {NoOp}
      /\ frag \in [Threads -> Nat] /\ word \in [Threads -> Nat]
      /\ total_words_expected \in [Threads -> 0 .. CountMod - 1]
      /\ ret \in [Threads -> {"OK", "EIO", "ETIMEDOUT"}]
  BY DEF LockInv, LockTypes, CallInv, LoadTypes
<1>l. ASSUME op'[t] = op[t], UNCHANGED config_words,
             op[t].name = "load", ret'[t] = "OK" => ret[t] = "OK", faults <= 1,
             ret'[t] = "OK", pc[t] \in {"csr_read", "clear_was_reset"}
      PROVE  Loaded(t)'
  BY <1>0, <1>l, LoadedFrame DEF LoadFollows
<1>c. /\ pc[t] \in {"reset_on", "reset_off"} => op[t].name = "reset"
      /\ pc[t] \in {"pad_write", "pad_read"} => op[t].name = "test_scratchpad"
      /\ pc[t] = "csr_read" => op[t].name \in {"reset", "load"}
      /\ pc[t] = "clear_was_reset" => op[t].name = "load"
      /\ pc[t] \in {"slot_read", "slot_write", "poll"} => op[t].name # "load"
  BY DEF CallInv, CallAtPc, LockInv, OpMatchesPc, SlotOps
<1>1. CASE ReadCsr(t)
  <2>1. pc[t] \in Inside /\ UNCHANGED <<config_words, faults>>
    BY <1>1 DEF ReadCsr, CsrRead, Inside
  <2>2. KeepsOthers(t)
    BY <1>1, <1>0, <1>t DEF ReadCsr, CsrRead, KeepsOthers
  <2>3. LoadFollows(t)'
    BY <1>1, <1>0, <1>t, <1>l, <1>c DEF ReadCsr, CsrRead, LoadFollows
  <2> QED
    BY <1>0, <2>1, <2>2, <2>3, OwnPart
<1>2. CASE AssertReset(t)
  <2>1. pc[t] \in Inside /\ UNCHANGED <<config_words, faults>>
    BY <1>2 DEF AssertReset, WriteCtrlStatus, Inside
  <2>2. KeepsOthers(t)
    BY <1>2, <1>0, <1>t DEF AssertReset, WriteCtrlStatus, KeepsOthers
  <2>3. LoadFollows(t)'
    BY <1>2, <1>0, <1>t, <1>l, <1>c DEF AssertReset, WriteCtrlStatus, LoadFollows
  <2> QED
    BY <1>0, <2>1, <2>2, <2>3, OwnPart
<1>3. CASE DeassertReset(t)
  <2>1. pc[t] \in Inside /\ UNCHANGED <<config_words, faults>>
    BY <1>3 DEF DeassertReset, WriteCtrlStatus, Inside
  <2>2. KeepsOthers(t)
    BY <1>3, <1>0, <1>t DEF DeassertReset, WriteCtrlStatus, KeepsOthers
  <2>3. LoadFollows(t)'
    BY <1>3, <1>0, <1>t, <1>l, <1>c DEF DeassertReset, WriteCtrlStatus, LoadFollows
  <2> QED
    BY <1>0, <2>1, <2>2, <2>3, OwnPart
<1>4. CASE ClearWasReset(t)
  <2>1. pc[t] \in Inside /\ UNCHANGED <<config_words, faults>>
    BY <1>4 DEF ClearWasReset, WriteCtrlStatus, Inside
  <2>2. KeepsOthers(t)
    BY <1>4, <1>0, <1>t DEF ClearWasReset, WriteCtrlStatus, KeepsOthers
  <2>3. LoadFollows(t)'
    BY <1>4, <1>0, <1>t, <1>l, <1>c DEF ClearWasReset, WriteCtrlStatus, LoadFollows
  <2> QED
    BY <1>0, <2>1, <2>2, <2>3, OwnPart
<1>5. CASE ReadSlot(t)
  <2>1. pc[t] \in Inside /\ UNCHANGED <<config_words, faults>>
    BY <1>5 DEF ReadSlot, SlotRead, Inside
  <2>2. KeepsOthers(t)
    BY <1>5, <1>0, <1>t DEF ReadSlot, SlotRead, KeepsOthers
  <2>3. LoadFollows(t)'
    BY <1>5, <1>0, <1>t, <1>l, <1>c DEF ReadSlot, SlotRead, LoadFollows
  <2> QED
    BY <1>0, <2>1, <2>2, <2>3, OwnPart
<1>6. CASE WriteDecouple(t)
  <2>1. pc[t] \in Inside /\ UNCHANGED <<config_words, faults>>
    BY <1>6 DEF WriteDecouple, WriteSlot0, Inside
  <2>2. KeepsOthers(t)
    BY <1>6, <1>0, <1>t DEF WriteDecouple, WriteSlot0, KeepsOthers
  <2>3. LoadFollows(t)'
    BY <1>6, <1>0, <1>t, <1>l, <1>c DEF WriteDecouple, WriteSlot0, LoadFollows
  <2> QED
    BY <1>0, <2>1, <2>2, <2>3, OwnPart
<1>7. CASE WriteCouple(t)
  <2>1. pc[t] \in Inside /\ UNCHANGED <<config_words, faults>>
    BY <1>7 DEF WriteCouple, WriteSlot0, Inside
  <2>2. KeepsOthers(t)
    BY <1>7, <1>0, <1>t DEF WriteCouple, WriteSlot0, KeepsOthers
  <2>3. LoadFollows(t)'
    BY <1>7, <1>0, <1>t, <1>l, <1>c DEF WriteCouple, WriteSlot0, LoadFollows
  <2> QED
    BY <1>0, <2>1, <2>2, <2>3, OwnPart
<1>8. CASE WriteIo(t)
  <2>1. pc[t] \in Inside /\ UNCHANGED <<config_words, faults>>
    BY <1>8 DEF WriteIo, WriteSlot0, Inside
  <2>2. KeepsOthers(t)
    BY <1>8, <1>0, <1>t DEF WriteIo, WriteSlot0, KeepsOthers
  <2>3. LoadFollows(t)'
    BY <1>8, <1>0, <1>t, <1>l, <1>c DEF WriteIo, WriteSlot0, LoadFollows
  <2> QED
    BY <1>0, <2>1, <2>2, <2>3, OwnPart
<1>9. CASE PollAgain(t)
  <2>1. pc[t] \in Inside /\ UNCHANGED <<config_words, faults>>
    BY <1>9 DEF PollAgain, Poll, Inside
  <2>2. KeepsOthers(t)
    BY <1>9, <1>0, <1>t DEF PollAgain, Poll, KeepsOthers
  <2>3. LoadFollows(t)'
    BY <1>9, <1>0, <1>t, <1>l, <1>c DEF PollAgain, Poll, LoadFollows
  <2> QED
    BY <1>0, <2>1, <2>2, <2>3, OwnPart
<1>10. CASE PollConfirmed(t)
  <2>1. pc[t] \in Inside /\ UNCHANGED <<config_words, faults>>
    BY <1>10 DEF PollConfirmed, Poll, Inside
  <2>2. KeepsOthers(t)
    BY <1>10, <1>0, <1>t DEF PollConfirmed, Poll, KeepsOthers
  <2>3. LoadFollows(t)'
    BY <1>10, <1>0, <1>t, <1>l, <1>c DEF PollConfirmed, Poll, LoadFollows
  <2> QED
    BY <1>0, <2>1, <2>2, <2>3, OwnPart
<1>11. CASE PollTimeout(t)
  <2>1. pc[t] \in Inside /\ UNCHANGED <<config_words, faults>>
    BY <1>11 DEF PollTimeout, Poll, Inside
  <2>2. KeepsOthers(t)
    BY <1>11, <1>0, <1>t DEF PollTimeout, Poll, KeepsOthers
  <2>3. LoadFollows(t)'
    BY <1>11, <1>0, <1>t, <1>l, <1>c DEF PollTimeout, Poll, LoadFollows
  <2> QED
    BY <1>0, <2>1, <2>2, <2>3, OwnPart
<1>12. CASE WritePad(t)
  <2>1. pc[t] \in Inside /\ UNCHANGED <<config_words, faults>>
    BY <1>12 DEF WritePad, WriteScratchpad, Inside
  <2>2. KeepsOthers(t)
    BY <1>12, <1>0, <1>t DEF WritePad, WriteScratchpad, KeepsOthers
  <2>3. LoadFollows(t)'
    BY <1>12, <1>0, <1>t, <1>l, <1>c DEF WritePad, WriteScratchpad, LoadFollows
  <2> QED
    BY <1>0, <2>1, <2>2, <2>3, OwnPart
<1>13. CASE ReadPad(t)
  <2>1. pc[t] \in Inside /\ UNCHANGED <<config_words, faults>>
    BY <1>13 DEF ReadPad, Inside
  <2>2. KeepsOthers(t)
    BY <1>13, <1>0, <1>t DEF ReadPad, KeepsOthers
  <2>3. LoadFollows(t)'
    BY <1>13, <1>0, <1>t, <1>l, <1>c DEF ReadPad, LoadFollows
  <2> QED
    BY <1>0, <2>1, <2>2, <2>3, OwnPart
<1>14. CASE Unlock(t)
  <2>1. pc[t] \in Inside /\ UNCHANGED <<config_words, faults>>
    BY <1>14 DEF Unlock, NoCsr, NoVal, NoOp, Inside
  <2>2. KeepsOthers(t)
    BY <1>14, <1>0, <1>t DEF Unlock, NoCsr, NoVal, NoOp, KeepsOthers
  <2>3. LoadFollows(t)'
    BY <1>14, <1>0, <1>t, <1>l, <1>c DEF Unlock, NoCsr, NoVal, NoOp, LoadFollows
  <2> QED
    BY <1>0, <2>1, <2>2, <2>3, OwnPart
<1>15. ~(Lock(t) \/ ExpectFragment(t) \/ CountBefore(t) \/ StreamWord(t)
        \/ StreamWordFaulty(t) \/ NextFragment(t) \/ CountAfter(t))
  BY DEF Lock, ExpectFragment, CountBefore, StreamWord, StreamWordFaulty, NextFragment, CountAfter, StreamStep
<1> QED
  BY <1>1, <1>2, <1>3, <1>4, <1>5, <1>6, <1>7, <1>8, <1>9, <1>10, <1>11, <1>12, <1>13, <1>14, <1>15 DEF Step

(* The calls and steps outside the lock. *)
LEMMA StreamOutside ==
  ASSUME LockInv, CallInv, StreamInv,
         \/ \E t \in Threads : Lock(t) \/ Call(t)
         \/ Probe \/ Dma \/ UNCHANGED vars
  PROVE  StreamInv'
<1> USE DEF At, Goto, localVars, loadVars, histVars, regVars, csrRegs, slot0Regs,
        streamRegs, StreamInv
<1>0. /\ pc \in [Threads -> {"idle", "lock"} \cup Inside]
      /\ op \in [Threads -> Ops \cup {NoOp}]
  BY DEF LockInv, LockTypes
<1>1. CASE Probe \/ Dma \/ UNCHANGED vars
  <2>1. UNCHANGED <<pc, op, frag, word, ret, total_words_expected, initial_count,
                    faults, config_words, config_count_reg, scratchpad_reg>>
    BY <1>1 DEF Probe, Dma, DmaBegin, DmaEnd, vars, drvVars, callVars
  <2> QED
    BY <2>1, FollowsFrame
<1>2. ASSUME NEW t \in Threads, Lock(t) \/ Call(t) PROVE StreamInv'
  <2>1. UNCHANGED <<frag, word, ret, total_words_expected, initial_count,
                    faults, config_words, config_count_reg, scratchpad_reg>>
    BY <1>2 DEF Lock, Call
  <2>2. ASSUME NEW u \in Threads \ {t} PROVE LoadFollows(u)'
    <3>1. pc'[u] = pc[u] /\ op'[u] = op[u]
      BY <1>0, <1>2 DEF Lock, Call
    <3> QED
      BY <2>1, <3>1, FollowsFrame
  <2>3. LoadFollows(t) /\ pc[t] \in {"idle", "lock"}
    BY <1>2 DEF Lock, Call
  <2>4. CASE Call(t)
    <3>1. pc'[t] = "lock"
      BY <1>0, <2>4 DEF Call
    <3> QED
      BY <2>1, <2>2, <2>3, <3>1 DEF LoadFollows
  <2>5. CASE Lock(t)
    <3>1. op[t] \in Ops /\ op'[t] = op[t] /\ pc'[t] = Entry[op[t].name]
      BY <1>0, <2>5 DEF Lock, LockInv, OpMatchesPc
    <3>2. /\ pc'[t] \in {"csr_read", "expect", "slot_read", "pad_write"}
          /\ pc'[t] = "csr_read" => op[t].name = "reset"
          /\ pc'[t] = "expect" => op[t].name = "load"
      BY <3>1, EntryInside, EntryOf
    <3>3. frag[t] = 0 /\ word[t] = 0 /\ total_words_expected[t] = 0
      BY <2>3 DEF LoadFollows
    <3>4. ASSUME pc'[t] = "expect" PROVE Expecting(t)'
      <4>1. PICK frags \in Seq(Seq(0 .. 255)) : frags = op[t].frags
        BY <3>1, <3>2, <3>4, LoadArguments
      <4>2. Cuts(frags, 0, [f \in 0 .. 0 |-> 0])
        BY DEF Cuts
      <4>3. [f \in 0 .. 0 |-> 0][0] % CountMod = 0
        BY ManagerAssumption
      <4>4. 0 <= Len(frags)
        BY <4>1, LenProperties
      <4>5. Cuts(frags, 0, [f \in 0 .. 0 |-> 0])'
        BY <4>2 DEF Cuts
      <4> QED
        BY <2>1, <3>1, <3>3, <4>1, <4>2, <4>3, <4>4, <4>5 DEF Expecting
    <3>5. LoadFollows(t)'
      BY <2>1, <2>3, <3>1, <3>2, <3>4 DEF LoadFollows
    <3> QED
      BY <2>1, <2>2, <3>5
  <2> QED
    BY <1>2, <2>4, <2>5
<1> QED
  BY <1>1, <1>2

(* The two passes over the fragments. *)
LEMMA StreamExpect ==
  ASSUME LockInv, CallInv, StreamInv, NEW t \in Threads, ExpectFragment(t)
  PROVE  StreamInv'
<1> USE DEF At, Goto, localVars, loadVars, histVars, regVars, csrRegs, slot0Regs,
        streamRegs
<1>0. /\ pc[t] = "expect" /\ pc[t] \in Inside /\ LoadFollows(t)
      /\ faults \in Nat /\ config_words \in Seq([1 .. 4 -> 0 .. 255])
      /\ frag \in [Threads -> Nat] /\ word \in [Threads -> Nat]
      /\ total_words_expected \in [Threads -> 0 .. CountMod - 1]
  BY DriverAssumption
     DEF ExpectFragment, Inside, StreamInv, CallInv, LoadTypes
<1>1. UNCHANGED <<pc, op, ret, word, faults, config_words>> /\ FragmentsLeft(t)
  BY DEF ExpectFragment
<1>2. PICK frags \in Seq(Seq(0 .. 255)) : frags = op[t].frags /\ frags = op'[t].frags
  BY <1>0, <1>1, FragmentOfLoad
<1>3. PICK n \in Nat : n = frag[t] /\ n < Len(frags)
  BY <1>0, <1>1, <1>2 DEF FragmentsLeft
<1>4. frag'[t] = n + 1 /\ word'[t] = 0
  BY <1>0, <1>1, <1>3 DEF ExpectFragment, LoadFollows, Expecting
<1>5. PICK cut : Cuts(frags, n, cut) /\ total_words_expected[t] = cut[n] % CountMod
  BY <1>0, <1>2, <1>3 DEF LoadFollows, Expecting
<1>6. PICK more : /\ Cuts(frags, n + 1, more)
                  /\ more[n + 1] = cut[n] + Words(frags[n + 1])
  BY <1>3, <1>5, CutOneMore
<1>7. frags[n + 1] = Fragment(t) /\ Words(frags[n + 1]) \in Nat /\ cut[n] \in Nat
  <2>1. n \in 0 .. n
    OBVIOUS
  <2>2. cut[n] \in Nat
    BY <1>5, <2>1 DEF Cuts
  <2> QED
    BY <1>0, <1>1, <1>2, <1>3, <2>2, FragmentOfLoad DEF Fragment
<1>8. total_words_expected'[t] = more[n + 1] % CountMod
  <2>1. total_words_expected'[t] = ((cut[n] % CountMod) + Words(frags[n + 1])) % CountMod
    BY <1>0, <1>5, <1>7 DEF ExpectFragment
  <2>2. ((cut[n] % CountMod) + Words(frags[n + 1])) % CountMod =
          (cut[n] + Words(frags[n + 1])) % CountMod
    <3>1. CountMod \in Nat \ {0} /\ cut[n] \in Int /\ Words(frags[n + 1]) \in Int
      BY <1>7, ManagerAssumption
    <3> QED
      BY <3>1, AddWrapped
  <2> QED
    BY <1>6, <2>1, <2>2
<1>9. Expecting(t)'
  <2>1. n + 1 <= Len(frags)
    BY <1>3
  <2>2. Cuts(frags, n + 1, more)'
    BY <1>6 DEF Cuts
  <2> QED
    BY <1>2, <1>4, <1>8, <2>1, <2>2 DEF Expecting
<1>10. KeepsOthers(t)
  BY <1>0, <1>1 DEF ExpectFragment, KeepsOthers
<1>11. LoadFollows(t)'
  BY <1>0, <1>1, <1>9 DEF LoadFollows
<1> QED
  BY <1>0, <1>1, <1>10, <1>11, OwnPart

LEMMA StreamBegin ==
  ASSUME LockInv, CallInv, StreamInv, NEW t \in Threads, CountBefore(t)
  PROVE  StreamInv'
<1> USE DEF At, Goto, localVars, loadVars, histVars, regVars, csrRegs, slot0Regs,
        streamRegs
<1>0. /\ pc[t] = "expect" /\ pc[t] \in Inside /\ LoadFollows(t)
      /\ faults \in Nat /\ pc \in [Threads -> {"idle", "lock"} \cup Inside]
      /\ frag \in [Threads -> Nat] /\ word \in [Threads -> Nat]
      /\ initial_count \in [Threads -> 0 .. CountMod - 1]
      /\ config_count_reg \in 0 .. CountMod - 1
  BY DriverAssumption
     DEF CountBefore, Inside, StreamInv, CallInv, LoadTypes, LockInv, LockTypes
<1>1. /\ UNCHANGED <<op, ret, word, faults, total_words_expected, config_count_reg>>
      /\ pc'[t] = "stream" /\ frag'[t] = 0 /\ initial_count'[t] = config_count_reg
      /\ config_words' = <<>> /\ ~FragmentsLeft(t)
  BY <1>0 DEF CountBefore
<1>2. PICK frags \in Seq(Seq(0 .. 255)) : frags = op[t].frags /\ frags = op'[t].frags
  BY <1>0, <1>1, FragmentOfLoad
<1>3. PICK n \in Nat : n = Len(frags)
  BY <1>2, LenProperties
<1>4. frag[t] = n /\ word'[t] = 0
  BY <1>0, <1>1, <1>2, <1>3 DEF FragmentsLeft, LoadFollows, Expecting
<1>5. PICK cut : Cuts(frags, n, cut) /\ total_words_expected[t] = cut[n] % CountMod
  BY <1>0, <1>2, <1>3, <1>4 DEF LoadFollows, Expecting
<1>6. Cuts(frags, n, cut)' /\ cut[0] = 0
  BY <1>5 DEF Cuts
<1>7. config_count_reg' = (initial_count'[t] + Len(config_words')) % CountMod
  <2>1. ASSUME NEW c \in 0 .. CountMod - 1 PROVE (c + 0) % CountMod = c
    <3>1. CountMod \in Nat \ {0} /\ 0 \in Int /\ 0 * CountMod + c = c + 0
      BY ManagerAssumption
    <3>2. (0 * CountMod + c) % CountMod = c
      BY <3>1, Remainder
    <3> QED
      BY <3>1, <3>2
  <2>2. Len(config_words') = 0
    BY <1>1
  <2> QED
    BY <1>0, <1>1, <2>1, <2>2
<1>8. StoredInOrder(t, cut)'
  BY <1>1, <1>4, <1>6 DEF StoredInOrder
<1>9. (IF FragmentsLeft(t) THEN word[t] <= Words(Fragment(t)) ELSE word[t] = 0)'
  <2>1. ASSUME FragmentsLeft(t)' PROVE 0 <= Words(Fragment(t))'
    <3>1. frags[1] \in Seq(0 .. 255) /\ Fragment(t)' = frags[1]
      BY <1>1, <1>2, <2>1, ElementOfSeq, LenProperties DEF FragmentsLeft, Fragment
    <3>2. Words(frags[1]) \in Nat
      BY <3>1, WordsOfBytes
    <3> QED
      BY <3>1, <3>2
  <2> QED
    BY <1>4, <2>1
<1>10. Streaming(t, cut)'
  BY <1>1, <1>2, <1>3, <1>5, <1>6, <1>7, <1>8, <1>9 DEF Streaming
<1>11. KeepsOthers(t)
  BY <1>0, <1>1 DEF CountBefore, KeepsOthers
<1>12. LoadFollows(t)'
  BY <1>0, <1>1, <1>10 DEF LoadFollows
<1> QED
  BY <1>0, <1>1, <1>11, <1>12, OwnPart

(* Positions in the stream, and how far a store is off. *)
LEMMA StreamPlaces ==
  \A a, b, j, len \in Nat :
    /\ j < b /\ a + b <= len => a + j + 1 \in 1 .. len
    /\ len = a + j => len + 0 + 1 = a + (j + 1) /\ len + 2 = a + (j + 1) + 1
OBVIOUS

LEMMA StaysOff ==
  \A a, j, len \in Nat :
    /\ len + 1 = a + j => len + 1 + 1 = a + (j + 1)
    /\ len = a + j + 1 => len + 1 = a + (j + 1) + 1
OBVIOUS

(* One store, delivered never, once or twice.                              *)
LEMMA StreamStore ==
  ASSUME LockInv, CallInv, StreamInv, NEW t \in Threads, NEW copies \in {0, 1, 2},
         StreamStep(t, copies),
         \/ copies = 1 /\ faults' = faults
         \/ copies # 1 /\ faults' = faults + 1
  PROVE  StreamInv'
<1> USE DEF At, Goto, localVars, loadVars, histVars, regVars, csrRegs, slot0Regs,
        streamRegs
<1>0. /\ pc[t] = "stream" /\ pc[t] \in Inside /\ LoadFollows(t)
      /\ faults \in Nat /\ config_words \in Seq([1 .. 4 -> 0 .. 255])
      /\ frag \in [Threads -> Nat] /\ word \in [Threads -> Nat]
      /\ initial_count \in [Threads -> 0 .. CountMod - 1]
      /\ config_count_reg \in 0 .. CountMod - 1
  BY DriverAssumption
     DEF StreamStep, Inside, StreamInv, CallInv, LoadTypes
<1>1. /\ UNCHANGED <<pc, op, ret, frag, initial_count, total_words_expected>>
      /\ FragmentsLeft(t) /\ word[t] < Words(Fragment(t))
      /\ word' = [word EXCEPT ![t] = word[t] + 1]
  BY <1>0 DEF StreamStep
<1>2. PICK frags \in Seq(Seq(0 .. 255)) : frags = op[t].frags /\ frags = op'[t].frags
  BY <1>0, <1>1, FragmentOfLoad
<1>3. PICK n \in Nat : n = frag[t] /\ n = frag'[t] /\ n < Len(frags)
  BY <1>0, <1>1, <1>2 DEF FragmentsLeft
<1>4. PICK i \in Nat : i = word[t] /\ word'[t] = i + 1
  BY <1>0, <1>1
<1>5. PICK bytes \in Seq(0 .. 255) :
        bytes = Fragment(t) /\ bytes = Fragment(t)' /\ bytes = frags[n + 1]
  BY <1>0, <1>1, <1>2, <1>3, FragmentOfLoad DEF Fragment
<1>6. PICK w \in [1 .. 4 -> 0 .. 255] : w = WordOf(bytes, i)
  BY WordIsBytes
<1>7. PICK cut : Streaming(t, cut)
  BY <1>0 DEF LoadFollows
<1>8. /\ config_words' = config_words \o [k \in 1 .. copies |-> w]
      /\ config_count_reg' =
           (config_count_reg + Len([k \in 1 .. copies |-> w])) % CountMod
  BY <1>4, <1>5, <1>6 DEF StreamStep, WriteConfigData
<1>9. /\ config_words' \in Seq([1 .. 4 -> 0 .. 255])
      /\ Len(config_words') = Len(config_words) + copies
      /\ \A j \in 1 .. Len(config_words) : config_words'[j] = config_words[j]
      /\ copies > 0 => config_words'[Len(config_words) + 1] = w
  BY <1>0, <1>8, Stores
<1>10. PICK len \in Nat : len = Len(config_words) /\ Len(config_words') = len + copies
  BY <1>0, <1>9, LenProperties
<1>l. len \in Nat /\ i \in Nat /\ copies \in Nat
  BY <1>10
<1>11. config_count_reg' = (initial_count'[t] + Len(config_words')) % CountMod
  <2>1. [k \in 1 .. copies |-> w] \in [1 .. copies -> [1 .. 4 -> 0 .. 255]] /\ copies \in Nat
    OBVIOUS
  <2>2. Len([k \in 1 .. copies |-> w]) = copies
    BY <2>1, LengthOf
  <2>3. config_count_reg = (initial_count[t] + len) % CountMod
    BY <1>7, <1>10 DEF Streaming
  <2>4. initial_count[t] + len \in Int /\ CountMod \in Nat \ {0} /\ copies \in Int
    BY <1>0, ManagerAssumption
  <2>5. (((initial_count[t] + len) % CountMod) + copies) % CountMod =
          (initial_count[t] + len + copies) % CountMod
    BY <2>4, AddWrapped
  <2>6. initial_count[t] + len + copies = initial_count'[t] + (len + copies)
    BY <1>0, <1>1
  <2> QED
    BY <1>8, <1>10, <2>2, <2>3, <2>5, <2>6
<1>12. /\ Cuts(frags, Len(frags), cut) /\ Cuts(frags, Len(frags), cut)'
       /\ cut[n] \in Nat
  <2>1. Cuts(frags, Len(frags), cut)
    BY <1>2, <1>7 DEF Streaming
  <2>2. n \in 0 .. Len(frags)
    BY <1>2, <1>3, LenProperties
  <2> QED
    BY <2>1, <2>2 DEF Cuts
<1>13. ASSUME StoredInOrder(t, cut), copies = 1 PROVE StoredInOrder(t, cut)'
  <2>1. /\ len = cut[n] + i
        /\ \A f \in 0 .. n : cut[f] <= len
        /\ \A f \in 1 .. n : \A j \in 0 .. Words(frags[f]) - 1 :
             config_words[cut[f - 1] + j + 1] = WordOf(frags[f], j)
        /\ \A j \in 0 .. i - 1 : config_words[cut[n] + j + 1] = WordOf(bytes, j)
    BY <1>1, <1>2, <1>3, <1>4, <1>5, <1>10, <1>13 DEF StoredInOrder
  <2>2. /\ Len(config_words') = cut[n] + (i + 1)
        /\ \A f \in 0 .. n : cut[f] <= Len(config_words')
    <3>1. \A f \in 0 .. n : cut[f] \in Nat
      BY <1>2, <1>3, <1>12, LenProperties DEF Cuts
    <3> QED
      BY <1>10, <1>12, <1>13, <2>1, <3>1
  <2>3. ASSUME NEW f \in 1 .. n, NEW j \in 0 .. Words(frags[f]) - 1
        PROVE  config_words'[cut[f - 1] + j + 1] = WordOf(frags[f], j)
    <3>1. f \in 1 .. Len(frags) /\ f - 1 \in 0 .. Len(frags) /\ f \in 0 .. n
      BY <1>2, <1>3, LenProperties
    <3>2. /\ cut[f - 1] \in Nat /\ cut[f] = cut[f - 1] + Words(frags[f])
          /\ Words(frags[f]) \in Nat
      BY <1>2, <1>12, <3>1, WordsOfBytes, ElementOfSeq DEF Cuts
    <3>3. cut[f - 1] + j + 1 \in 1 .. len
      <4>1. PICK a \in Nat, b \in Nat : a = cut[f - 1] /\ b = Words(frags[f])
        BY <3>2
      <4>2. cut[f] = a + b /\ cut[f] <= len
        BY <2>1, <3>1, <3>2, <4>1
      <4>3. j \in Nat /\ j < b
        BY <4>1
      <4>4. a + j + 1 \in 1 .. len
        <5>1. a + b <= len /\ j < b /\ j \in Nat
          BY <4>2, <4>3, Zenon
        <5> QED
          BY <1>l, <4>1, <5>1, StreamPlaces, Zenon
      <4> QED
        BY <4>1, <4>4
    <3> QED
      BY <1>9, <1>10, <2>1, <3>3
  <2>4. ASSUME NEW j \in 0 .. i
        PROVE  config_words'[cut[n] + j + 1] = WordOf(bytes, j)
    <3>1. CASE j = i
      BY <1>6, <1>9, <1>10, <1>12, <1>13, <2>1, <3>1
    <3>2. CASE j # i
      <4>1. j \in 0 .. i - 1
        BY <1>4, <3>2
      <4>2. PICK a \in Nat : a = cut[n] /\ len = a + i
        BY <1>12, <2>1
      <4>3. a + j + 1 \in 1 .. len
        BY <1>l, <4>1, <4>2
      <4> QED
        BY <1>9, <1>10, <2>1, <4>1, <4>2, <4>3
    <3> QED
      BY <3>1, <3>2
  <2>5. \A j \in 0 .. (i + 1) - 1 : config_words'[cut[n] + j + 1] = WordOf(bytes, j)
    BY <2>4
  <2> QED
    BY <1>2, <1>3, <1>4, <1>5, <2>2, <2>3, <2>5 DEF StoredInOrder
<1>14. ASSUME OneStoreOff(t, cut), copies = 1 PROVE OneStoreOff(t, cut)'
  <2>1. PICK a \in Nat : a = cut[n]
    BY <1>12
  <2>2. faults > 0 /\ (len + 1 = a + i \/ len = a + i + 1)
    BY <1>3, <1>4, <1>10, <1>14, <2>1 DEF OneStoreOff
  <2>3. faults' > 0 /\ (len + copies + 1 = a + (i + 1) \/ len + copies = a + (i + 1) + 1)
    <3>1. faults' > 0
      BY <1>14, <2>2
    <3>2. len + 1 + 1 = a + (i + 1) \/ len + 1 = a + (i + 1) + 1
      <4>1. /\ len + 1 = a + i => len + 1 + 1 = a + (i + 1)
            /\ len = a + i + 1 => len + 1 = a + (i + 1) + 1
        BY <1>l, <2>1, StaysOff, Zenon
      <4> QED
        BY <2>2, <4>1, Zenon
    <3> QED
      BY <1>14, <3>1, <3>2
  <2> QED
    BY <1>3, <1>4, <1>10, <2>1, <2>3 DEF OneStoreOff
<1>15. ASSUME StoredInOrder(t, cut), copies # 1 PROVE OneStoreOff(t, cut)'
  <2>1. PICK a \in Nat : a = cut[n]
    BY <1>12
  <2>2. len = a + i
    BY <1>3, <1>4, <1>10, <1>15, <2>1 DEF StoredInOrder
  <2>3. faults' > 0 /\ (len + copies + 1 = a + (i + 1) \/ len + copies = a + (i + 1) + 1)
    <3>1. faults' = faults + 1 /\ (copies = 0 \/ copies = 2)
      BY <1>15
    <3> QED
      <4>1. faults' > 0
        BY <1>0, <3>1
      <4>2. \/ copies = 0 /\ len + 0 + 1 = a + (i + 1)
            \/ copies = 2 /\ len + 2 = a + (i + 1) + 1
        BY <1>l, <2>1, <2>2, <3>1, StreamPlaces
      <4> QED
        BY <4>1, <4>2
  <2> QED
    BY <1>3, <1>4, <1>10, <2>1, <2>3 DEF OneStoreOff
<1>16. /\ faults' = 0 => StoredInOrder(t, cut)'
       /\ faults' <= 1 => StoredInOrder(t, cut)' \/ OneStoreOff(t, cut)'
  <2>1. /\ faults = 0 => StoredInOrder(t, cut)
        /\ faults <= 1 => StoredInOrder(t, cut) \/ OneStoreOff(t, cut)
    BY <1>7 DEF Streaming
  <2>2. CASE copies = 1
    BY <1>13, <1>14, <2>1, <2>2
  <2>3. CASE copies # 1
    BY <1>0, <1>15, <2>1, <2>3
  <2> QED
    BY <2>2, <2>3
<1>17. (IF FragmentsLeft(t) THEN word[t] <= Words(Fragment(t)) ELSE word[t] = 0)'
  <2>1. FragmentsLeft(t)'
    BY <1>2, <1>3 DEF FragmentsLeft
  <2>2. Words(bytes) \in Nat /\ i < Words(bytes)
    BY <1>1, <1>4, <1>5, WordsOfBytes
  <2>3. Words(Fragment(t))' = Words(bytes)
    BY <1>5
  <2> QED
    BY <1>4, <2>1, <2>2, <2>3
<1>18. Streaming(t, cut)'
  <2>1. total_words_expected[t] = cut[Len(frags)] % CountMod /\ n <= Len(frags)
    BY <1>2, <1>3, <1>7, LenProperties DEF Streaming
  <2> QED
    BY <1>1, <1>2, <1>3, <1>11, <1>12, <1>16, <1>17, <2>1 DEF Streaming
<1>19. KeepsOthers(t) /\ faults' \in Nat
  BY <1>0, <1>1 DEF KeepsOthers
<1>20. LoadFollows(t)'
  BY <1>0, <1>1, <1>18 DEF LoadFollows
<1> QED
  BY <1>0, <1>9, <1>19, <1>20, OwnPart

LEMMA StreamNext ==
  ASSUME LockInv, CallInv, StreamInv, NEW t \in Threads, NextFragment(t)
  PROVE  StreamInv'
<1> USE DEF At, Goto, localVars, loadVars, histVars, regVars, csrRegs, slot0Regs,
        streamRegs
<1>0. /\ pc[t] = "stream" /\ pc[t] \in Inside /\ LoadFollows(t)
      /\ faults \in Nat /\ config_words \in Seq([1 .. 4 -> 0 .. 255])
      /\ frag \in [Threads -> Nat] /\ word \in [Threads -> Nat]
  BY DriverAssumption
     DEF NextFragment, Inside, StreamInv, CallInv, LoadTypes
<1>1. /\ UNCHANGED <<pc, op, ret, initial_count, total_words_expected, faults,
                     config_words, config_count_reg>>
      /\ FragmentsLeft(t) /\ word[t] = Words(Fragment(t))
      /\ word'[t] = 0 /\ frag'[t] = frag[t] + 1
  BY <1>0 DEF NextFragment
<1>2. PICK frags \in Seq(Seq(0 .. 255)) : frags = op[t].frags /\ frags = op'[t].frags
  BY <1>0, <1>1, FragmentOfLoad
<1>3. PICK n \in Nat : n = frag[t] /\ n < Len(frags) /\ frag'[t] = n + 1
  BY <1>0, <1>1, <1>2 DEF FragmentsLeft
<1>4. PICK bytes \in Seq(0 .. 255) : bytes = Fragment(t) /\ bytes = frags[n + 1]
  BY <1>0, <1>1, <1>2, <1>3, FragmentOfLoad DEF Fragment
<1>5. PICK w \in Nat : w = Words(bytes) /\ w = word[t]
  BY <1>0, <1>1, <1>4
<1>6. PICK cut : Streaming(t, cut)
  BY <1>0 DEF LoadFollows
<1>7. PICK len \in Nat : len = Len(config_words)
  BY <1>0, LenProperties
<1>8. /\ Cuts(frags, Len(frags), cut) /\ Cuts(frags, Len(frags), cut)'
      /\ cut[n] \in Nat /\ cut[n + 1] = cut[n] + w
      /\ \A f \in 0 .. n + 1 : cut[f] \in Nat
  <2>1. Cuts(frags, Len(frags), cut)
    BY <1>2, <1>6 DEF Streaming
  <2>2. /\ n \in 0 .. Len(frags) /\ n + 1 \in 1 .. Len(frags)
        /\ \A f \in 0 .. n + 1 : f \in 0 .. Len(frags)
    BY <1>2, <1>3, LenProperties
  <2>3. /\ cut[n] \in Nat /\ \A f \in 0 .. n + 1 : cut[f] \in Nat
    BY <2>1, <2>2 DEF Cuts
  <2>4. cut[n + 1] = cut[(n + 1) - 1] + Words(frags[n + 1])
    BY <2>1, <2>2 DEF Cuts
  <2>5. (n + 1) - 1 = n
    OBVIOUS
  <2>6. cut[n + 1] = cut[n] + w
    BY <1>4, <1>5, <2>4, <2>5
  <2>7. Cuts(frags, Len(frags), cut)'
    BY <2>1 DEF Cuts
  <2> QED
    BY <2>1, <2>3, <2>6, <2>7
<1>9. ASSUME StoredInOrder(t, cut) PROVE StoredInOrder(t, cut)'
  <2>1. /\ len = cut[n] + w
        /\ \A f \in 0 .. n : cut[f] <= len
        /\ \A f \in 1 .. n : \A j \in 0 .. Words(frags[f]) - 1 :
             config_words[cut[f - 1] + j + 1] = WordOf(frags[f], j)
        /\ \A j \in 0 .. w - 1 : config_words[cut[n] + j + 1] = WordOf(bytes, j)
    BY <1>1, <1>2, <1>3, <1>4, <1>5, <1>7, <1>9 DEF StoredInOrder
  <2>2. /\ len = cut[n + 1] + 0
        /\ \A f \in 0 .. n + 1 : cut[f] <= len
    BY <1>8, <2>1
  <2>3. \A f \in 1 .. n + 1 : \A j \in 0 .. Words(frags[f]) - 1 :
          config_words[cut[f - 1] + j + 1] = WordOf(frags[f], j)
    <3>1. ASSUME NEW f \in 1 .. n + 1, NEW j \in 0 .. Words(frags[f]) - 1
          PROVE  config_words[cut[f - 1] + j + 1] = WordOf(frags[f], j)
      <4>1. CASE f = n + 1
        <5>1. f - 1 = n
          BY <4>1
        <5>2. frags[f] = bytes /\ Words(frags[f]) = w
          BY <1>4, <1>5, <4>1
        <5>3. j \in 0 .. w - 1
          BY <5>2
        <5> QED
          BY <2>1, <5>1, <5>2, <5>3
      <4>2. CASE f \in 1 .. n
        BY <2>1, <4>2
      <4> QED
        BY <4>1, <4>2
    <3> QED
      BY <3>1
  <2>4. FragmentsLeft(t)' =>
          \A j \in 0 .. 0 - 1 : config_words[cut[n + 1] + j + 1] = WordOf(Fragment(t), j)'
    OBVIOUS
  <2> QED
    BY <1>1, <1>2, <1>3, <1>7, <2>2, <2>3 DEF StoredInOrder
<1>10. ASSUME OneStoreOff(t, cut) PROVE OneStoreOff(t, cut)'
  BY <1>0, <1>1, <1>3, <1>5, <1>7, <1>8, <1>10 DEF OneStoreOff
<1>11. (IF FragmentsLeft(t) THEN word[t] <= Words(Fragment(t)) ELSE word[t] = 0)'
  <2>1. ASSUME FragmentsLeft(t)' PROVE 0 <= Words(Fragment(t))'
    <3>1. frags[n + 2] \in Seq(0 .. 255) /\ Fragment(t)' = frags[n + 2]
      <4>1. n + 2 \in 1 .. Len(frags)
        BY <1>2, <1>3, <2>1, LenProperties DEF FragmentsLeft
      <4>2. frags[n + 2] \in Seq(0 .. 255)
        BY <4>1, ElementOfSeq
      <4> QED
        BY <1>2, <1>3, <4>2 DEF Fragment
    <3>2. Words(frags[n + 2]) \in Nat
      BY <3>1, WordsOfBytes
    <3> QED
      BY <3>1, <3>2
  <2> QED
    BY <1>1, <2>1
<1>12. Streaming(t, cut)'
  <2>1. /\ total_words_expected[t] = cut[Len(frags)] % CountMod
        /\ config_count_reg = (initial_count[t] + Len(config_words)) % CountMod
        /\ faults = 0 => StoredInOrder(t, cut)
        /\ faults <= 1 => StoredInOrder(t, cut) \/ OneStoreOff(t, cut)
    BY <1>2, <1>6 DEF Streaming
  <2>2. n + 1 <= Len(frags)
    BY <1>2, <1>3, LenProperties
  <2> QED
    BY <1>1, <1>2, <1>3, <1>8, <1>9, <1>10, <1>11, <2>1, <2>2 DEF Streaming
<1>13. KeepsOthers(t)
  BY <1>0, <1>1 DEF NextFragment, KeepsOthers
<1>14. LoadFollows(t)'
  BY <1>0, <1>1, <1>12 DEF LoadFollows
<1> QED
  BY <1>0, <1>1, <1>13, <1>14, OwnPart

(* The count check: nothing missing, or an error.                          *)
LEMMA StreamEnd ==
  ASSUME LockInv, CallInv, StreamInv, NEW t \in Threads, CountAfter(t)
  PROVE  StreamInv'
<1> USE DEF At, Goto, localVars, loadVars, histVars, regVars, csrRegs, slot0Regs,
        streamRegs
<1>0. /\ pc[t] = "stream" /\ pc[t] \in Inside /\ LoadFollows(t)
      /\ faults \in Nat /\ config_words \in Seq([1 .. 4 -> 0 .. 255])
      /\ pc \in [Threads -> {"idle", "lock"} \cup Inside]
      /\ ret \in [Threads -> {"OK", "EIO", "ETIMEDOUT"}]
      /\ initial_count \in [Threads -> 0 .. CountMod - 1]
      /\ CountMod \in Nat \ {0, 1} /\ CountMod \in Nat \ {0}
  BY DriverAssumption, ManagerAssumption
     DEF CountAfter, Inside, StreamInv, CallInv, LoadTypes, LockInv, LockTypes
<1>1. /\ UNCHANGED <<op, frag, word, initial_count, total_words_expected, faults,
                     config_words, config_count_reg>>
      /\ ~FragmentsLeft(t)
  BY DEF CountAfter
<1>2. PICK frags \in Seq(Seq(0 .. 255)) : frags = op[t].frags
  BY <1>0, FragmentOfLoad
<1>3. PICK n \in Nat : n = Len(frags)
  BY <1>2, LenProperties
<1>4. PICK cut : Streaming(t, cut)
  BY <1>0 DEF LoadFollows
<1>5. frag[t] = n /\ word[t] = 0
  <2>1. frag[t] <= n /\ ~(frag[t] < n) /\ frag[t] \in Nat
    BY <1>1, <1>2, <1>3, <1>4 DEF Streaming, FragmentsLeft, CallInv, LoadTypes
  <2> QED
    BY <1>1, <1>4, <2>1 DEF Streaming
<1>6. Cuts(frags, n, cut) /\ cut[n] \in Nat
  <2>1. Cuts(frags, n, cut)
    BY <1>2, <1>3, <1>4 DEF Streaming
  <2>2. n \in 0 .. n
    OBVIOUS
  <2> QED
    BY <2>1, <2>2 DEF Cuts
<1>7. PICK len \in Nat, total \in Nat : len = Len(config_words) /\ total = cut[n]
  BY <1>0, <1>6, LenProperties
<1>8. StreamVerified(t) <=> len % CountMod = total % CountMod
  <2>1. /\ total_words_expected[t] = total % CountMod
        /\ config_count_reg = (initial_count[t] + len) % CountMod
    BY <1>2, <1>3, <1>4, <1>7 DEF Streaming
  <2>2. initial_count[t] \in Int /\ len \in Int
    BY <1>0
  <2>3. (((initial_count[t] + len) % CountMod) - initial_count[t]) % CountMod =
          len % CountMod
    BY <1>0, <2>2, WrappedDifference
  <2> QED
    BY <2>1, <2>3 DEF StreamVerified, WordsWritten
<1>9. StoredInOrder(t, cut) => len = total
  BY <1>5, <1>7 DEF StoredInOrder
<1>10. OneStoreOff(t, cut) => ~StreamVerified(t)
  <2>1. ASSUME OneStoreOff(t, cut) PROVE len + 1 = total \/ len = total + 1
    BY <1>5, <1>7, <2>1 DEF OneStoreOff
  <2>2. (len + 1) % CountMod # len % CountMod /\ (total + 1) % CountMod # total % CountMod
    <3>1. len \in Int /\ total \in Int
      OBVIOUS
    <3> QED
      BY <1>0, <3>1, OffByOne
  <2> QED
    BY <1>8, <2>1, <2>2
<1>11. ASSUME StreamVerified(t), faults <= 1 PROVE Loaded(t)
  <2>1. StoredInOrder(t, cut)
    BY <1>4, <1>10, <1>11 DEF Streaming
  <2> QED
    BY <1>0, <1>2, <1>3, <1>5, <1>6, <2>1, StoredIsLoaded
<1>12. KeepsOthers(t)
  BY <1>0, <1>1 DEF CountAfter, KeepsOthers
<1>13. LoadFollows(t)'
  <2>1. CASE StreamVerified(t)
    <3>1. pc'[t] = "csr_read" /\ ret'[t] = ret[t]
      BY <1>0, <2>1 DEF CountAfter
    <3>2. faults <= 1 => Loaded(t)'
      BY <1>1, <1>11, <2>1, LoadedFrame
    <3> QED
      BY <1>0, <1>1, <3>1, <3>2 DEF LoadFollows
  <2>2. CASE ~StreamVerified(t)
    <3>1. pc'[t] = "unlock" /\ ret'[t] = "EIO"
      BY <1>0, <2>2 DEF CountAfter
    <3>2. faults > 0
      <4>1. faults # 0
        BY <1>4, <1>8, <1>9, <2>2 DEF Streaming
      <4> QED
        BY <1>0, <4>1
    <3> QED
      BY <1>1, <3>1, <3>2 DEF LoadFollows
  <2> QED
    BY <2>1, <2>2
<1> QED
  BY <1>0, <1>1, <1>12, <1>13, OwnPart

(* Every step keeps what the loads have stored. *)
LEMMA StreamKept == LockInv /\ CallInv /\ StreamInv /\ [Next]_vars => StreamInv'
<1> SUFFICES ASSUME LockInv, CallInv, StreamInv, [Next]_vars PROVE StreamInv'
  OBVIOUS
<1>1. ASSUME NEW t \in Threads, StreamWord(t) PROVE StreamInv'
  <2>1. StreamStep(t, 1) /\ faults' = faults
    BY <1>1 DEF StreamWord
  <2> QED
    BY <2>1, StreamStore
<1>2. ASSUME NEW t \in Threads, StreamWordFaulty(t) PROVE StreamInv'
  <2>1. PICK copies \in {0, 2} : StreamStep(t, copies) /\ faults' = faults + 1
    BY <1>2 DEF StreamWordFaulty
  <2> QED
    BY <2>1, StreamStore
<1>3. ASSUME NEW t \in Threads, Step(t), ~Lock(t), ~ExpectFragment(t),
             ~CountBefore(t), ~StreamWord(t), ~StreamWordFaulty(t),
             ~NextFragment(t), ~CountAfter(t)
      PROVE  StreamInv'
  <2>1. pc[t] \notin {"lock", "expect", "stream"}
    BY <1>3 DEF Step, At, Unlock, ReadCsr, AssertReset, DeassertReset, ClearWasReset,
                ReadSlot, WriteDecouple, WriteCouple, WriteIo, PollAgain,
                PollConfirmed, PollTimeout, Poll, WritePad, ReadPad
  <2> QED
    BY <1>3, <2>1, StreamQuiet
<1> QED
  BY <1>1, <1>2, <1>3, StreamOutside, StreamExpect, StreamBegin, StreamNext,
     StreamEnd
     DEF Next

LEMMA StreamLayer == Spec => []StreamInv
BY StreamInit, StreamKept, LockLayer, CallInit, CallKept, PTL DEF Spec

(* EIO is the bus's fault: neither calls of other threads, nor a count     *)
(* that wraps, nor an odd fragment size makes a load or a test fail.       *)
THEOREM ErrorsNeedAFault == Spec => []ErrorsAreReal
<1>1. StreamInv => ErrorsAreReal
  BY DEF StreamInv, LoadFollows, ErrorsAreReal
<1> QED
  BY <1>1, StreamLayer, PTL

(* With at most one store lost or doubled, a load that returns 0 has put   *)
(* exactly its fragments into the fabric, each padded to whole words.  Two *)
(* faults may cancel in the count the driver compares.                     *)
THEOREM LoadOkIsTheImage == Spec => [](faults <= 1 => LoadOkMeansStream)
<1>1. StreamInv /\ faults <= 1 => LoadOkMeansStream
  BY DEF StreamInv, LoadFollows, LoadOkMeansStream, Loaded, At
<1> QED
  BY <1>1, StreamLayer, PTL
=============================================================================
