--------------------------- MODULE FabulousDriver ---------------------------
(***************************************************************************)
(* sw/zephyr_app/drivers/fpga/fabulous_driver.c above the registers of     *)
(* EfpgaManager.  Threads (main, the dispatcher, the slot workers) call    *)
(* the driver in any order; one step is one bus access of a call, and      *)
(* data->lock serialises the calls.  The unlocked readers get_status,      *)
(* get_decoupler_state and read_io are single 32-bit reads: they are       *)
(* operators, used by the properties in every state.                       *)
(***************************************************************************)
EXTENDS EfpgaManager

CONSTANTS
  Threads, Free,  \* the callers; the lock when nobody holds it
  Images,         \* fragment lists to load; a fragment is a sequence of bytes
  Versions,       \* what REG_VERSION may read
  MaxPolls,       \* bound of the polling loop, 100000 in the code
  MaxFaults       \* bound on stores of a config word lost or doubled

ASSUME DriverAssumption ==
  /\ Free \notin Threads
  /\ MaxPolls \in Nat \ {0} /\ MaxFaults \in Nat
  /\ Images \subseteq Seq(Seq(0 .. 255))

VARIABLES
  device,         \* "probing", then "ready" or "failed" as init returns
  mutex,          \* data->lock
  load_count,     \* data->load_count, saturating at 1
  pc, op,         \* per thread: the next access, the call
  csr, val, polls, ret,                          \* per thread: its locals;
  total_words_expected, initial_count, frag, word, \* those of a load: f and i
  faults,         \* stores lost or doubled so far
  asked,          \* history: what the calls returned so far asked of slot 0
  confirmed       \* history: a decouple returned 0 and no recouple since

loadVars  == <<total_words_expected, initial_count, frag, word>>
localVars == <<csr, val, polls, ret, loadVars>>
callVars  == <<pc, op, localVars>>
histVars  == <<asked, confirmed>>
drvVars   == <<device, mutex, load_count, callVars, faults, histVars>>
vars      == <<regVars, drvVars>>

-----------------------------------------------------------------------------
(* Calls, words, register reads                                            *)

NoOp == [name |-> "none"]
Ops ==
  [name : {"reset", "couple"}] \cup [name : {"decouple"}, force : BOOLEAN]
    \cup [name : {"load"}, frags : Images]
    \cup [name : {"write_io"}, value : IoValues]
    \cup [name : {"test_scratchpad"}, value : PadValues]

(* ceil(bytes / 4), the padding byte, and word i (from 0) of a fragment,   *)
(* first byte on top.                                                      *)
WordsFloor(bytes) == Len(bytes) \div 4  \* fault: no unaligned remainder
Words(bytes) == (Len(bytes) \div 4) + (IF Len(bytes) % 4 # 0 THEN 1 ELSE 0)
Pad == 0
WordOf(bytes, i) ==
  [k \in 1 .. 4 |-> IF 4 * i + k <= Len(bytes) THEN bytes[4 * i + k] ELSE Pad]

CsrRead   == [soft |-> soft_reset_reg, was |-> was_reset_reg]
SlotRead  == [req |-> dec0_req_reg, force |-> dec0_force_reg,
              io |-> slot0_o_top_o, dec |-> decoupled_reg]
NoCsr     == [soft |-> FALSE, was |-> FALSE]
NoVal     == [req |-> FALSE, force |-> FALSE, io |-> IoZero, dec |-> FALSE]

get_status == IF ~was_reset_reg THEN "ACTIVE" ELSE "INACTIVE"

At(t, l) == pc[t] = l
Goto(t, l) == pc' = [pc EXCEPT ![t] = l]

(* The first access of a call under the lock. *)
Entry == [reset |-> "csr_read", load |-> "expect",
          decouple |-> "slot_read", couple |-> "slot_read",
          write_io |-> "slot_read", test_scratchpad |-> "pad_write"]

Init ==
  /\ ManagerInit
  /\ device = "probing" /\ mutex = Free /\ load_count = 0 /\ faults = 0
  /\ pc = [t \in Threads |-> "idle"] /\ op = [t \in Threads |-> NoOp]
  /\ csr = [t \in Threads |-> NoCsr] /\ val = [t \in Threads |-> NoVal]
  /\ polls = [t \in Threads |-> 0] /\ ret = [t \in Threads |-> "OK"]
  /\ total_words_expected = [t \in Threads |-> 0]
  /\ initial_count = [t \in Threads |-> 0]
  /\ frag = [t \in Threads |-> 0] /\ word = [t \in Threads |-> 0]
  /\ asked = [req |-> TRUE, force |-> FALSE, io |-> IoZero]
  /\ confirmed = FALSE

-----------------------------------------------------------------------------
(* Calling, locking, returning                                             *)

(* init: the top twelve bits of the version must spell FAB. *)
Probe ==
  /\ device = "probing"
  /\ \E v \in Versions :
       device' = IF v.magic = "FAB" THEN "ready" ELSE "failed"
  /\ UNCHANGED <<regVars, mutex, load_count, callVars, faults, histVars>>

Call(t) ==
  /\ device = "ready" /\ At(t, "idle")
  /\ \E o \in Ops : op' = [op EXCEPT ![t] = o]
  /\ Goto(t, "lock")
  /\ UNCHANGED <<regVars, device, mutex, load_count, localVars, faults, histVars>>

AvailableForIo(t) == mutex = Free \/ op[t].name = "write_io"  \* fault: no lock
Available(t) == mutex = Free
Lock(t) ==
  /\ At(t, "lock") /\ Available(t)
  /\ mutex' = t /\ Goto(t, Entry[op[t].name])
  /\ UNCHANGED <<regVars, device, load_count, op, localVars, faults, histVars>>

(* Every exit releases the lock, the error exits included. *)
AskedBy(a, o) ==
  CASE o.name = "write_io" -> [a EXCEPT !.io = o.value]
    [] o.name = "couple"   -> [a EXCEPT !.req = FALSE, !.force = FALSE]
    [] o.name = "decouple" -> [a EXCEPT !.req = ~o.force, !.force = o.force]
    [] OTHER -> a
ReleasedOnSuccess(t) == IF ret[t] = "OK" THEN Free ELSE mutex   \* fault
Released(t) == Free
Unlock(t) ==
  /\ At(t, "unlock")
  /\ mutex' = Released(t) /\ Goto(t, "idle")
  /\ op' = [op EXCEPT ![t] = NoOp]
  /\ asked' = AskedBy(asked, op[t])
  /\ csr' = [csr EXCEPT ![t] = NoCsr] /\ val' = [val EXCEPT ![t] = NoVal]
  /\ polls' = [polls EXCEPT ![t] = 0] /\ ret' = [ret EXCEPT ![t] = "OK"]
  /\ total_words_expected' = [total_words_expected EXCEPT ![t] = 0]
  /\ initial_count' = [initial_count EXCEPT ![t] = 0]
  /\ frag' = [frag EXCEPT ![t] = 0] /\ word' = [word EXCEPT ![t] = 0]
  /\ UNCHANGED <<regVars, device, load_count, faults, confirmed>>

-----------------------------------------------------------------------------
(* reset: the snapshot of the CSR is written back twice around 1 ms.       *)

ReadCsr(t) ==
  /\ At(t, "csr_read")
  /\ csr' = [csr EXCEPT ![t] = CsrRead]
  /\ Goto(t, IF op[t].name = "reset" THEN "reset_on" ELSE "clear_was_reset")
  /\ UNCHANGED <<regVars, device, mutex, load_count, op, val, polls, ret,
                 loadVars, faults, histVars>>

AssertReset(t) ==
  /\ At(t, "reset_on")
  /\ WriteCtrlStatus(TRUE, csr[t].was)
  /\ Goto(t, "reset_off")
  /\ UNCHANGED <<device, mutex, load_count, op, localVars, faults, histVars>>

DeassertResetZero(t) ==  \* fault: 0 written instead of the snapshot
  /\ At(t, "reset_off")
  /\ WriteCtrlStatus(FALSE, FALSE)
  /\ Goto(t, "unlock")
  /\ UNCHANGED <<device, mutex, load_count, op, localVars, faults, histVars>>
DeassertReset(t) ==
  /\ At(t, "reset_off")
  /\ WriteCtrlStatus(FALSE, csr[t].was)
  /\ Goto(t, "unlock")
  /\ UNCHANGED <<device, mutex, load_count, op, localVars, faults, histVars>>

-----------------------------------------------------------------------------
(* load and load_dynamic: load is the stream of a single fragment.         *)

Fragment(t) == op[t].frags[frag[t] + 1]
FragmentsLeft(t) == frag[t] < Len(op[t].frags)

(* The first pass over the fragments adds up the words to come.            *)
ExpectFragment(t) ==
  /\ At(t, "expect") /\ FragmentsLeft(t)
  /\ total_words_expected' =
       [total_words_expected EXCEPT ![t] = (@ + Words(Fragment(t))) % CountMod]
  /\ frag' = [frag EXCEPT ![t] = @ + 1]
  /\ UNCHANGED <<regVars, device, mutex, load_count, pc, op, csr, val, polls, ret,
                 initial_count, word, faults, histVars>>

CountBefore(t) ==
  /\ At(t, "expect") /\ ~FragmentsLeft(t)
  /\ initial_count' = [initial_count EXCEPT ![t] = config_count_reg]
  /\ config_words' = <<>>
  /\ frag' = [frag EXCEPT ![t] = 0]
  /\ Goto(t, "stream")
  /\ UNCHANGED <<csrRegs, config_count_reg, scratchpad_reg, slot0Regs,
                 decoupled_reg, dma_act, device, mutex, load_count, op, csr, val,
                 polls, ret, total_words_expected, word, faults, histVars>>

(* The second pass stores them, fragment by fragment.                      *)
StreamStep(t, copies) ==
  /\ At(t, "stream") /\ FragmentsLeft(t) /\ word[t] < Words(Fragment(t))
  /\ WriteConfigData([k \in 1 .. copies |-> WordOf(Fragment(t), word[t])])
  /\ word' = [word EXCEPT ![t] = @ + 1]
  /\ UNCHANGED <<device, mutex, load_count, pc, op, csr, val, polls, ret,
                 total_words_expected, initial_count, frag, histVars>>

StreamWord(t) == StreamStep(t, 1) /\ UNCHANGED faults

(* A store the bus loses or delivers twice; the check below is for it. *)
StreamWordFaulty(t) ==
  /\ faults < MaxFaults /\ faults' = faults + 1
  /\ \E copies \in {0, 2} : StreamStep(t, copies)

NextFragment(t) ==
  /\ At(t, "stream") /\ FragmentsLeft(t) /\ word[t] = Words(Fragment(t))
  /\ frag' = [frag EXCEPT ![t] = @ + 1] /\ word' = [word EXCEPT ![t] = 0]
  /\ UNCHANGED <<regVars, device, mutex, load_count, pc, op, csr, val, polls, ret,
                 total_words_expected, initial_count, faults, histVars>>

WordsWrittenPlain(t) == config_count_reg - initial_count[t]  \* fault: no wrap
WordsWritten(t) == (config_count_reg - initial_count[t]) % CountMod
StreamVerified(t) == WordsWritten(t) = total_words_expected[t]

CountAfter(t) ==
  /\ At(t, "stream") /\ ~FragmentsLeft(t)
  /\ IF StreamVerified(t)
     THEN /\ Goto(t, "csr_read") /\ UNCHANGED ret
     ELSE /\ Goto(t, "unlock") /\ ret' = [ret EXCEPT ![t] = "EIO"]
  /\ UNCHANGED <<regVars, device, mutex, load_count, op, csr, val, polls, loadVars,
                 faults, histVars>>

ClearWasReset(t) ==
  /\ At(t, "clear_was_reset")
  /\ WriteCtrlStatus(csr[t].soft, FALSE)
  /\ load_count' = 1
  /\ Goto(t, "unlock")
  /\ UNCHANGED <<device, mutex, op, localVars, faults, asked, confirmed>>

-----------------------------------------------------------------------------
(* set_decoupler and write_io: read, modify and write the slot register    *)

ReadSlot(t) ==
  /\ At(t, "slot_read")
  /\ val' = [val EXCEPT ![t] = SlotRead]
  /\ Goto(t, "slot_write")
  /\ UNCHANGED <<regVars, device, mutex, load_count, op, csr, polls, ret,
                 loadVars, faults, histVars>>

WriteDecouple(t) ==
  /\ At(t, "slot_write") /\ op[t].name = "decouple"
  /\ WriteSlot0(~op[t].force, op[t].force, val[t].io)
  /\ polls' = [polls EXCEPT ![t] = MaxPolls]
  /\ Goto(t, "poll")
  /\ UNCHANGED <<device, mutex, load_count, op, csr, val, ret, loadVars,
                 faults, histVars>>

WriteCouple(t) ==
  /\ At(t, "slot_write") /\ op[t].name = "couple"
  /\ WriteSlot0(FALSE, FALSE, val[t].io)
  /\ confirmed' = FALSE
  /\ Goto(t, "unlock")
  /\ UNCHANGED <<device, mutex, load_count, op, localVars, faults, asked>>

WriteIo(t) ==
  /\ At(t, "slot_write") /\ op[t].name = "write_io"
  /\ WriteSlot0(val[t].req, val[t].force, op[t].value)
  /\ Goto(t, "unlock")
  /\ UNCHANGED <<device, mutex, load_count, op, localVars, faults, histVars>>

(* One poll: a status read and the two conditions of the loop.  The last   *)
(* poll is a timeout whatever it reads, for timeout has reached 0.         *)
Poll(t) ==
  /\ At(t, "poll") /\ polls' = [polls EXCEPT ![t] = @ - 1]
  /\ UNCHANGED <<regVars, device, mutex, load_count, op, csr, val, loadVars,
                 faults, asked>>

PollAgainAlways(t) ==  \* fault: no bound on the loop
  /\ Poll(t) /\ ~decoupled_reg
  /\ UNCHANGED <<pc, ret, confirmed>>
PollAgain(t) ==
  /\ Poll(t) /\ ~decoupled_reg /\ polls[t] > 1
  /\ UNCHANGED <<pc, ret, confirmed>>

PollConfirmed(t) ==
  /\ Poll(t) /\ decoupled_reg /\ polls[t] > 1
  /\ Goto(t, "unlock")
  /\ confirmed' = TRUE /\ UNCHANGED ret

PollTimeout(t) ==
  /\ Poll(t) /\ polls[t] = 1
  /\ Goto(t, "unlock")
  /\ ret' = [ret EXCEPT ![t] = "ETIMEDOUT"] /\ UNCHANGED confirmed

-----------------------------------------------------------------------------
(* test_scratchpad                                                         *)

WritePad(t) ==
  /\ At(t, "pad_write")
  /\ WriteScratchpad(op[t].value)
  /\ Goto(t, "pad_read")
  /\ UNCHANGED <<device, mutex, load_count, op, localVars, faults, histVars>>

ReadPad(t) ==
  /\ At(t, "pad_read")
  /\ ret' = [ret EXCEPT ![t] = IF scratchpad_reg = op[t].value THEN "OK" ELSE "EIO"]
  /\ Goto(t, "unlock")
  /\ UNCHANGED <<regVars, device, mutex, load_count, op, csr, val, polls,
                 loadVars, faults, histVars>>

-----------------------------------------------------------------------------
Step(t) ==
  \/ Lock(t) \/ Unlock(t)
  \/ ReadCsr(t) \/ AssertReset(t) \/ DeassertReset(t)
  \/ ExpectFragment(t) \/ CountBefore(t)
  \/ StreamWord(t) \/ StreamWordFaulty(t) \/ NextFragment(t) \/ CountAfter(t)
  \/ ClearWasReset(t)
  \/ ReadSlot(t) \/ WriteDecouple(t) \/ WriteCouple(t) \/ WriteIo(t)
  \/ PollAgain(t) \/ PollConfirmed(t) \/ PollTimeout(t)
  \/ WritePad(t) \/ ReadPad(t)

Dma == (DmaBegin \/ DmaEnd) /\ UNCHANGED drvVars

Next == Probe \/ Dma \/ \E t \in Threads : Call(t) \/ Step(t)

(* A thread inside a call goes on; the lock is handed to a waiter at each  *)
(* release, and no thread calls the driver in a closed loop.               *)
Fairness == \A t \in Threads : SF_vars(Step(t))
Spec == Init /\ [][Next]_vars
FairSpec == Spec /\ Fairness

-----------------------------------------------------------------------------
(* Properties                                                              *)

Inside == {"csr_read", "reset_on", "reset_off", "expect", "stream",
           "clear_was_reset", "slot_read", "slot_write", "poll", "pad_write",
           "pad_read", "unlock"}

TypeOK ==
  /\ soft_reset_reg \in BOOLEAN /\ was_reset_reg \in BOOLEAN
  /\ config_count_reg \in 0 .. CountMod - 1
  /\ scratchpad_reg \in PadValues
  /\ dec0_req_reg \in BOOLEAN /\ dec0_force_reg \in BOOLEAN
  /\ slot0_o_top_o \in IoValues
  /\ decoupled_reg \in BOOLEAN /\ dma_act \in BOOLEAN
  /\ device \in {"probing", "ready", "failed"}
  /\ mutex \in Threads \cup {Free} /\ load_count \in {0, 1}
  /\ pc \in [Threads -> {"idle", "lock"} \cup Inside]
  /\ op \in [Threads -> Ops \cup {NoOp}]
  /\ csr \in [Threads -> [soft : BOOLEAN, was : BOOLEAN]]
  /\ val \in [Threads -> [req : BOOLEAN, force : BOOLEAN, io : IoValues,
                          dec : BOOLEAN]]
  /\ total_words_expected \in [Threads -> 0 .. CountMod - 1]
  /\ initial_count \in [Threads -> 0 .. CountMod - 1]
  /\ frag \in [Threads -> Nat] /\ word \in [Threads -> Nat]
  /\ polls \in [Threads -> 0 .. MaxPolls]
  /\ ret \in [Threads -> {"OK", "EIO", "ETIMEDOUT"}]
  /\ faults \in 0 .. MaxFaults
  /\ asked \in [req : BOOLEAN, force : BOOLEAN, io : IoValues]
  /\ confirmed \in BOOLEAN

(* Between calls the slot register holds exactly what the calls asked for: *)
(* no interleaving of set_decoupler and write_io loses O_top or a          *)
(* decoupler bit of the other, and no call leaves the fabric in reset.     *)
RegisterMatchesRequests ==
  mutex = Free =>
    /\ asked = [req |-> dec0_req_reg, force |-> dec0_force_reg,
                io |-> slot0_o_top_o]
    /\ ~soft_reset_reg

(* A load about to return 0 put exactly the bytes of its fragments, in     *)
(* order, into the fabric: each fragment padded by itself to whole words,  *)
(* no word lost or doubled, nothing of another thread's load in between.   *)
ByteOf(words, p) == words[((p - 1) \div 4) + 1][((p - 1) % 4) + 1]
PaddedFragment(bytes, from, to) ==  \* the words after from and up to to
  /\ Len(bytes) <= 4 * (to - from) /\ 4 * (to - from) < Len(bytes) + 4
  /\ \A p \in 1 .. 4 * (to - from) :
       ByteOf(config_words, 4 * from + p) =
         IF p <= Len(bytes) THEN bytes[p] ELSE Pad
LoadOkMeansStream ==
  \A t \in Threads :
    At(t, "unlock") /\ op[t].name = "load" /\ ret[t] = "OK" =>
      \E cut \in [0 .. Len(op[t].frags) -> 0 .. Len(config_words)] :
        /\ cut[0] = 0 /\ cut[Len(op[t].frags)] = Len(config_words)
        /\ \A f \in DOMAIN op[t].frags :
             PaddedFragment(op[t].frags[f], cut[f - 1], cut[f])

(* EIO is the bus's fault: calls of other threads, a wrapping count or an  *)
(* odd fragment size never make a load or a scratchpad test fail.          *)
ErrorsAreReal == \A t \in Threads : ret[t] = "EIO" => faults > 0

(* After set_decoupler(true) returned 0 the shield stays up until somebody *)
(* recouples, whatever write_io, resets, loads and the fabric's own bus    *)
(* traffic do meanwhile, and through a change between force and request.   *)
ShieldConfirmed == confirmed => decoupled_reg

(* get_status does not say ACTIVE before any load was verified.            *)
ActiveNeedsLoad == get_status = "ACTIVE" => load_count > 0

(* Every call returns: no exit, the error exits included, keeps the lock.  *)
EveryCallReturns == \A t \in Threads : ~At(t, "idle") ~> At(t, "idle")
=============================================================================
