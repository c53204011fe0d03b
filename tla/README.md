# NeoFabUnlimited-SoC: specification and verification

NeoFabUnlimited-SoC is a NEORV32 processor with a FABulous embedded FPGA
(eFPGA). Zephyr software on the processor streams bitstreams into the eFPGA
and runs accelerator jobs on it. This directory holds TLA+ models of its
control logic, in software and in hardware, the TLC configurations that check
them on small instances, and proofs for all instances. Paths below are relative
to `src/`.

## 1. The system

```
  main.c, other threads                sw/zephyr_app/src
     | accel_execute()                      | fpga_reset, set_decoupler, write_io
     v                                      |
  accelerator manager daemon           sw/zephyr_app/lib/accel_manager
     | fpga_load / load_dynamic             |
     v                                      v
  eFPGA driver, one mutex              sw/zephyr_app/drivers/fpga
     | 32-bit loads and stores
     v
  NEORV32 XBUS -- arbiter -- mux       neo_fab_unlimited_soc_top.vhd, wb_intercon
     |               ^ DMA of the fabric
     v               |
  eFPGA manager   slot decoupler       hw/custom
     | config word strobe   | bus signals of the fabric
     v                      |
  ConfigFSM -> row registers -> column select -> latches   hw/fabulous_fabric
```

### 1.1 Inventory

**Accelerator manager daemon** (`lib/accel_manager/manager.c`). State: the slot
table (state, uuid of the loaded packet, last use, current job, load error, one
`job_ready_sem` per slot), the counting semaphore `free_slots_sem`, the message
queue `accel_msgq` of pointers to work items, the locals of the threads.
Operations: `accel_execute` by any thread; the dispatcher
`accel_service_thread` (detect the hardware, take a job, take a token, search
for a cache hit and then the least recently used slot, lock it, load, hand the
job over); one `slot_worker_thread` per slot. Hard: the work item lives on the
caller's stack; the slot fields have no lock and are protected by the order of
the semaphore operations only; a slot is freed before its token is given;
failed loads; a 32-bit clock. Correct when: no pointer outlives its call, every
job is in one place and answered once, tokens agree with free slots, a slot has
one owner, hardware runs only with the right configuration, every call returns.

**eFPGA driver** (`drivers/fpga/fabulous_driver.c`). State: `data->lock`,
`load_count`, and, through the bus, the registers of the manager. Operations:
`init`, `reset`, `load`, `load_dynamic`, `get_status`, `set_decoupler`,
`get_decoupler_state`, `write_io`, `read_io`, `test_scratchpad`. Hard:
read-modify-write of shared registers by several threads, a count that wraps,
fragments that are no multiple of four bytes, a bounded poll, error exits that
must unlock. Correct when: the slot register is what the calls asked for, a load
that returns 0 streamed its bytes, errors are real, a confirmed shield stays up,
the status is earned, every call returns.

**eFPGA manager registers** (`hw/custom/efpga_manager.v`). State: soft reset and
was-reset flags, the config word count, a scratchpad, the decoupler and O_top
bits of the slot. Operations: one Wishbone access each. Hard: flags that
hardware sets while software writes them.

**Slot decoupler** (`hw/custom/wb_decoupler.v`). State: `decoupled_reg`, the
shield between the fabric and the bus. It rises at once when forced, in an idle
cycle when requested, and routes or answers the two bus directions. Hard: bus
cycles in flight while it rises or falls.

**Configuration path** (`ConfigFSM.v`, `Frame_Data_Reg.v`, `Frame_Select.v`,
`eFPGA_top.v`). State: the FSM, the frame counter and address, the strobe
pipeline, the row registers, the latches. Operation: one clock, with or without
a word. Hard: the words carry no framing but their values; the FSM takes words
while the last frame is still latched; a reset does not clear the latches.
Correct when: a verified bitstream, and it alone, is what the latches hold.

**SoC interconnect** (`neo_fab_unlimited_soc_top.vhd`, `wb_arbiter.v`,
`wb_mux.v`; the arbiter core the former instantiates is not in the repository) and **processor bus** (the switch and the keeper in
`neorv32_bus.vhd`, the bridge `neorv32_xbus.vhd`). State: the request latches and
the owner of the switch, the keeper's state and count, the pending access of the
bridge, the strobe stretcher, the arbiter's token and its registered selection,
the decoder's error. Masters: the CPU's two ports and the fabric's DMA.
Operation: one clock. Hard: acknowledges that arrive a clock late and carry no
name, an access given up while its slave still answers, a strobe taken twice or
never, a fabric that starts and stops in any clock, a shield that cuts it off in
the middle. Correct when: an answer reaches the master whose access it answers,
an access is performed at most once and success means once, an error has a
reason, every access ends.

**Block RAM** (`hw/custom/wb_bram.vhd`). State: one acknowledge register. Each
access is accepted once.

**Serial configuration ports** (`config_UART.v`, `bitbang.v`,
`eFPGA_Config.v`). State: a byte receiver, a header recogniser with a timeout,
a hex decoder and a word assembler; two shift registers with their
synchroniser; the edge detector that resets `ConfigFSM`. Operation: one clock.
Hard: a header in the middle of garbage, a stream that breaks off in the middle
of a word, a timeout that meets the next byte, a strobe that meets the reset its
own port causes. Correct when: words are what was sent, none is lost, a header
after a pause is heard, a silent line gives the port back. (The SoC ties the
pins of both ports off.)

**Bootloader** (`sw/bootloader`, vendored with the processor, the first program
that runs). State: the base and size of the executable, the flash address, main
memory, flash. Operations: auto-boot, upload over UART, load from flash, store
to flash, execute, restart. Hard: wrong words on the line, power failures while
flash is erased or programmed, headers half erased, sizes at the end of a
sector. Correct when: what is announced as executable is an image of the host,
a stored image comes back, every load ends.

**Image tool** (`scripts/wrap_neorv_image.py`): pads the Zephyr image and puts
the header in front of it that the bootloader expects.

**Accelerator packets and application** (`accels/`, `src/main.c`): callers of
the two software parts. **Fabric tiles**: a generated netlist without control of
its own. **NEORV32** apart from the above and the unused parts of `wb_intercon`:
vendored.

### 1.2 How the parts interact

Callers and daemon share memory and semaphores. Daemon and application call the
driver, each from its own threads, so the driver's mutex is the only thing
between them. Driver and hardware meet in registers; the manager passes each
config word to the fabric as a one-clock strobe and counts it, and the count is
the driver's only evidence. The configured fabric is itself a bus master, and
the decoupler is what keeps it off the bus. The bootloader runs before all
this and shares nothing with it but main memory, where it leaves the program it
starts.

`PROJECT.json` lists the components and their status, and under `hazards` what
can go wrong at which line and which property watches it.

## 2. The modules

| module | models | by |
|---|---|---|
| `AccelManager` | the daemon | one step of a thread touches shared state at most once |
| `JobService` | what `accel_platform.h` promises of `accel_execute` | abstract specification |
| `EfpgaManager` | manager registers and shield, slot 0 | one accepted write, or one change of DMA activity |
| `FabulousDriver` | the driver above `EfpgaManager` | one bus access of one thread |
| `ConfigPath` | FSM, row registers, select, latches, and the sender | one clock |
| `FrameMemory` | what the configuration port promises | abstract specification |
| `SocBus` | the two CPU ports, switch, keeper, bridge, stretcher, arbiter, decoder, RAM, manager and decoupler on the bus, the fabric's master port | one clock |
| `BusService` | what a CPU port expects of the bus | abstract specification |
| `SerialPorts` | UART and bitbang receivers, the reset they cause | one clock |
| `Bootloader` | console, auto-boot, load, store, boot, SPI flash | one word read, one byte programmed, one sector erased, or one command |
| `*MC` | the instances TLC checks | definitions for the `.cfg` files |
| `AccelManagerProofs`, `AccelJobProofs`, `AccelServiceProofs` | slots, jobs and refinement of the daemon, each above the one before | TLAPS |
| `FabulousDriverProofs`, `ConfigPathProofs`, `SocBusProofs`, `SerialPortsProofs`, `BootloaderProofs` | theorems about these modules | TLAPS |

**AccelManager.** A job is named by its client, for a client has one work item
at a time and the item lives while the call does. `dpc`, `wpc`, `cpc` are the
control points; `i`, `target_slot`, `oldest_time`, `err` the dispatcher's
locals. The two search loops take one step per slot, so workers free slots in
the middle of them. A load is two steps, the words arriving (`StreamBitstream`)
and the verdict (`LoadVerified` or `LoadFailed`). A full queue blocks the caller
in `putters`, and `GetJob` admits the oldest, as `k_msgq_get` does. `fabric`,
`runs` and `candidates` are history: what a slot really holds, how often a job
ran, which slots were free when a search began. A target of -1 is not guarded
against in the code, which would write `slots[-1]`; the model stops there, and
`TargetFound` says that no run gets there.

**EfpgaManager and FabulousDriver.** The action of a write to a register is in
`EfpgaManager`, with the clock edges that follow before the next access can
arrive (every access takes several clocks): `was_reset_reg` set again while the
soft reset is on, the shield raised in the first idle clock. The driver's calls
are sequences of such accesses, each under the C code's condition; `Unlock`
stands for each of the exits. `load_dynamic` goes over its fragments twice, as
the code does: `ExpectFragment` adds up the words to come, then `StreamWord` and
`NextFragment` store them; `frag` and `word` are the loop counters. A config word
may be lost or doubled (`StreamWordFaulty`), the failure the count check is there
for. `load` is `load_dynamic` with one fragment. `get_status` is a single read and appears as
an operator in the properties.

**ConfigPath.** `Unsynced`, `Desync`, `Header`, `FrameWord` are the branches of
`P_FSM`, composed in `ClockWith` with the row store and with
`StrobeAndLatch`, which every clock makes. The sender is the driver's load
loop: words at least `MinGap` clocks apart, the count compared at the end. Words
are model values with the fields the hardware decodes (`ColOf`, `FramesOf`,
`DesyncFlag`); a data word may look like any of the special words.

`FrameMemory` promises frames in order as long as nothing was lost (`intact`);
what arrives after a lost word may damage any frame until a reset restores the
promise, which is what `cfg_frames` shows of the code too. Its `WithFrames` says
what a memory holds after some frames of a bitstream: in each place the last
frame addressed to it. A bitstream is metadata, a sync word, frames of a header
and one word per row, and a desync word (`BitstreamAssumption`); the one of
`accels/dma_a.h` has this form, with 80 frames. `add_bitstream_raw.h` holds a
placeholder of four words without a sync word, which the FSM ignores.

**SocBus.** The variables are the registers, the operators named after them the
wires of the same clock; `Clock` is the conjunction of the `always` blocks and
processes. An address is the slave it selects, and data are left out except for
what a store to the manager does (`effect`). The fabric drives anything from
`FabricDrive` in any clock; its slave port never answers. `clk` toggles, so that
a clock in which nothing else changes is still a step and weak fairness of
`Clock` says no more than that the clock runs. `done` counts how often the slaves
accepted a port's access, `served` names the master they accepted one from,
`disturbed` remembers that the fabric was on the bus, `since` the clocks since
the last config word. `BusService` knows only the ports: an access is performed
at most once, success comes after it, nothing is performed after an answer.

**SerialPorts.** A byte on the line is a value that takes a number of clocks;
the identifier register is the flag `id_ok`. The bitbang sender changes one of
its two lines at a time and holds each level for `Hold` clocks, which is what the
synchroniser needs. Which port is used is chosen at the start. `silence`,
`heard`, `fed`, `digits` and `owed` are history: what was sent and what should
come of it. `Pause` and `Prompt` are the gaps between bytes after which the
receiver has certainly given up, and has certainly not.

**Bootloader.** Addresses, sizes and the checksum are words of `WordBytes` bytes
of `ByteBits` bits and wrap as they do in the code. A word is a number, for it is
added up, and a byte of it (`ByteOf`) is the set of its bits that are 1, since
programming clears bits: it leaves the intersection. A word read from flash is
the one whose bytes are there (`InFlash`). Flash is programmed
one byte at a time; a power failure may fall between any two bytes and in the
middle of a sector's erasure, which then is erased from one end up to anywhere.
Reset and power failure are one action (`Restart`): the start-up code sets the
globals, memory is kept or lost. The processor has an SPI or not (`spi`, chosen
at the start; in this SoC it has not). Images may have a base address other than
0, since the bootloader's own image tool writes any. `SizeAssumption` names what
the code relies on without a check: memory and sectors are whole words, the flash
holds the memory and a header, and an address reaches past its end.
`WordAssumption` says that a word is determined by its bytes, which `ByteOf` of
a number in this range always satisfies. TLC evaluates both on the instances.

**Named bounds.** `Horizon` ends the daemon's clock and `TimeMod` stands for its
2^32, `MaxPolls` for 100000, `CountMod` for 2^32, `QueueLen` for 10, `MaxSlots`
for 4, `Timeout` for the keeper's 256 clocks, `TimeToSendValue` for 16776,
`BitClocks` and `StopClocks` for the clocks of a UART byte, `WordBytes` for 4,
`ByteBits` for 8, `SectorBytes` for 64 KiB, `AddressMod` for 2^32. `MaxFaults`
counts lost, doubled or wrong words, `MaxCuts` the resets and power failures
that interrupt a load or a store (idle ones are not counted).

Definitions marked "fault" in the modules are variants of the definition after
them with a plausible bug in it; no specification uses them. `PROJECT.json`
pairs each property with one of them that breaks it.

## 3. The runs

Passing runs:

| run | instance | shows |
|---|---|---|
| `am_safety` | 3 clients, 2 packets (one without fallback), 1 or 2 slots or an unknown version, queue of 1; 1.3 M states | types; `SlotAccounting`; `SlotOwnership`; `TargetFound`; `NoDanglingItem`; `JobInOnePlace`; `AnsweredOnce`; `NeverForeignConfig` |
| `am_service` | 2 clients, 1 packet without fallback, 1 or 2 slots, queue of 1, the clock running, fair threads; 127 k states | `BestFreeSlot`: hit, or least recently used of the slots free when the search began; `EveryJobReturns`; `IsSynchronousService`, the daemon implements `JobService` |
| `drv_calls` | 2 threads, any calls, count modulo 4, 2 polls, 1 fault | types; `RegisterMatchesRequests`; `LoadOkMeansStream`; `ErrorsAreReal`; `ShieldConfirmed`; `ActiveNeedsLoad`; `EveryCallReturns` |
| `cfg_frames` | 2 rows, 2 columns, 2 frames, 12 bitstreams, 1 lost word; 650 k states | types; `CleanLoadConfigures`; `FrameIsStable`; `IsFrameMemory`, the path implements `FrameMemory`, liveness included |
| `bus` | 7 accesses of the LSU, fetches from RAM, 3 things the fabric may drive, timeout of 3 clocks; 73 k states | types; `AnswersReturnToSender`; `ErrorsHaveCause`; `StrobesFarApart`; `IsBusService`, the bus implements `BusService`; `WatchedAccessEnds`; `FabricServed` |
| `serial` | 6 byte values, words of 2 bytes, timeout of 6 clocks; bitbang words of 6 bits | types; `WordsAreBytes`; `HeaderOpensPort`; `WordsReachFsm`; `BitbangWordsOnce`; `SilenceReleases` |
| `boot` | words of 2 bytes of 2 bits, 6 words of memory, 2 sectors of 6 words, 2 images, 1 wrong word, 1 interruption; 233 k states | types; `ExecutableIntact`; `StoredImageLoads`; `FlashLoadEnds` |

All passing runs check for deadlock.

Why the bounds are enough. Three clients and a queue of one fill the two slots
or the queue and block a caller in `k_msgq_put` at the same time; two slots let
the dispatcher lock one with the token of the other. Two threads are enough for
any conflict over the lock, since a third waits as the second does. The image
of the driver has a fragment that is no multiple of four bytes, and the count
wraps in the middle of a stream. Of two polls the first can confirm or go on and
the second is the last. Bitstreams have one or two frames, addressed to an
existing and to the other column, data words that look like sync, desync and
header words, and two rows are enough for a frame to be shifted. One lost word
makes one failed load, and others follow it, with and without a reset.

On the bus an access to RAM or to the manager takes a few clocks when the fabric
is quiet, so a timeout of three clocks comes before, with and after the answer,
and finds the access in the switch, in the arbiter and in the slave. Fetches go
to RAM only: the switch treats the ports alike after the choice between them. In
the UART the timeout is longer than a byte and shorter than two, so that it
falls into each part of the next byte; headers, commands and digits may be any of
the six bytes. A bitbang word is twice as long as its control pattern, as
in the code, so the pattern of one word has left the register before the next.
In the bootloader a header takes two thirds of a sector, one image is no multiple of a word and has a base other
than 0, the other fills the memory and needs the second sector. One interruption
leaves a half erased sector, a header without data or data without a header, and
the loads and stores that follow meet it.

The checksum is a sum, so it cannot tell two images apart whose words have the
same sum. The instance has images for which a lost or erased tail changes the
sum, which is `DamageShows`, stated in `Bootloader` and evaluated in
`BootloaderMC`. For other images `ExecutableIntact` does not hold, and no
checksum of that kind could make it.

Runs in which the code departs from what the repository says (the
counterexamples are described under `findings` in `PROJECT.json`):

| run | departure |
|---|---|
| `am_cold_uuid` | `dma_a` has uuid 0, which is also what an empty slot holds: its first job is a cache hit and runs on a fabric nothing was loaded into |
| `am_failed_load` | a failed load leaves the old uuid, and the next job of that uuid runs on a half overwritten configuration |
| `cfg_retry` | after a load that lost a word the FSM is still in the middle of it; the next load counts right and configures something else |
| `uart_hex` | in hex mode the receiver forgets the first digit of a byte before the second arrives, and never writes a word |
| `boot_erase` | the sectors to erase are computed without the 16 bytes of the header: an image whose size modulo 64 KiB exceeds 64 KiB - 16 is stored with "OK" partly over what was there before |

### What else the models showed

These come from reading and exploring the models; no run of their own is kept.

- `manager.c:212`: `oldest_time` starts at 0xFFFFFFFF and is compared strictly, so
  a stamp of that value is never chosen and `slots[-1]` is written. The runs keep
  the clock below it (`Horizon`), the theorem assumes `ClockBelowMax`.
- `fabulous_driver.c:86`: `reset` writes its snapshot back after the pulse, with
  `was_reset` 0, over the 1 the hardware has set for this very reset
  (`efpga_manager.v:74-94`). `get_status` goes on saying ACTIVE.
- `neorv32_bus.vhd`: an answer in the clock of the timeout frees the switch while
  the keeper still reports the timeout. The access issued in that clock is not
  watched (`Unwatched`): it is answered by its slave, but if it goes to the
  silent fabric it never ends. `WatchedAccessEnds` excepts it.
- A fabric that holds its bus cycle keeps the arbiter's token, and the store that
  would force the shield up times out like every other (`fabulous.h:44` calls the
  forced mode immediate). A fetch engine that requests in every clock likewise
  keeps the fabric off the bus, hence the premise of `FabricServed`.
- `wb_mux.v:35-36` says an unmatched address stalls the bus; the code answers it
  with an error, and with the acknowledge of slave 0.
- `neo_fab_unlimited_soc_top.vhd:480-481` associates `xbus_err_i` twice.
- `system.c`: `g_exe_base` is taken from the header before the signature is
  looked at, and no sum covers it. After a load from empty flash, answering y to
  "Boot anyway?" jumps to 0xFFFFFFFF.
- `config_UART.v`: a start bit in the very clock of the timeout is seen by the
  byte receiver and missed by the header recogniser, which then begins with the
  second byte. The sender's pause repairs it (`HeaderOpensPort` asks for one).

### Fairness

Daemon: weak fairness for the dispatcher, each worker and a signalled caller,
since Zephyr schedules every runnable thread and the callbacks are taken to
return. A client owes nothing but to wake up when signalled. Driver: strong
fairness for each thread inside a call. A thread that waits for the lock is
enabled only now and then; `k_mutex_unlock` hands the lock to a waiter, and none
of the callers calls in a closed loop, so the one that waits gets it in the end.
No fairness is assumed of the DMA or of starting calls. Configuration path: the
clock runs, and a load that began goes on writing and ends. Bus and serial
ports: the clock runs, nothing else; that the CPU leaves the bus now and then is
a premise of `FabricServed`. Bootloader: the CPU goes on with a load or store it
began; nothing is owed by the host, the user or the power supply.

## 4. What is proved

All theorems hold for every value of the constants that satisfies the named
`ASSUME`s of the modules and the hypotheses a theorem states. Every safety
invariant and action property of the passing runs is a theorem; what is left to
TLC alone is liveness.

**AccelManagerProofs**: `FreeSlotsAreCounted`, `SlotsHaveOneOwner`,
`DispatcherFindsSlot` and the layer they rest on, `SlotLayer`. Neither
`SlotAccounting` nor `SlotOwnership` is inductive: that a give is not lost needs
the free slots to be counted, that the slot the dispatcher locks is free needs
the target to be one of the free slots while the loops run, and both need to
know what the set-up phase leaves. `SlotInv` joins them with the types of the
slot layer (`SlotTypes`), `BootShape`, `LoopShape` and `WorkerShape`; it needs
nothing of the jobs. There is one lemma per group of actions. The third theorem
adds `SearchInv`, that the LRU loop has a target or a free slot is ahead of it,
and the hypothesis `ClockBelowMax`, which says that the 32-bit clock has not
reached 0xFFFFFFFF. Without it the statement is false (see "What else the
models showed").

**AccelJobProofs** builds the job layer `JobInv` on `SlotInv`, in parts each of
which is inductive relative to the ones before. `JobShape`: the dispatcher has a
job exactly from `k_msgq_get` to the hand-over, and a slot and a worker name one
exactly while they should. `Places`: each job has one holder, among the queue,
the blocked puts, the dispatcher, the slots and the workers, and whoever holds a
job, its caller waits with its signal not yet given. This part makes the others
possible, for without it an answer to one job might be one to another's.
`Progress`: a job ran once if its worker is past the run, and never before.
`PacketShape` and `ConfigInv`: the packet of a waiting job is known, and a slot
on which hardware will run, or has been asked to load, agrees with the job's
uuid. From these follow `ManagerTypes`, `NoItemDangles`, `JobsAreAnsweredOnce`
and `JobsHaveOnePlace` without hypotheses. What a slot holds is stated three
times, by what is asked of the uuids. If they are distinct, no job runs over
another packet's whole bitstream (`NoOtherPacketsBitstream`). If none is 0, a
job never runs on a blank slot (`NonzeroUuidIsLoaded`; the shipped `dma_a` has
uuid 0, and `am_cold_uuid` shows what comes of it). With both, the job finds its
own bitstream or the remains of a failed load (`ConfigIsNeverForeign`); that the
remains are possible is the run `am_failed_load`. `DispatcherTakesBestSlot` adds
`CandidateInv`, which relates the two loops to the slots that were free when the
search began, whatever workers free meanwhile, under `ClockBelowMax`.

**AccelServiceProofs**: `DaemonIsJobService`, the refinement of `JobService`
without its liveness. The mapping `Phase` reads a call's state off its control
point, its signal and the workers; the proof goes action by action, and all but
accepting, refusing, taking up, signalling and returning leave every phase as it
is.

**FabulousDriverProofs**: `RegisterIsWhatWasAsked`, `ConfirmedShieldStays`,
`ActiveIsEarned`, `DriverTypes`, `ErrorsNeedAFault`, `LoadOkIsTheImage` and
`LockLayer`. The invariant `LockInv` says that the holder of the lock is the one
thread inside (`OneInside`), which call each control point belongs to
(`OpMatchesPc`), and that the slot register, and the snapshot of it, are the
value asked for so far, before the call's own write without and after it with its
own request (`SlotFollows`); likewise for the reset bit (`ResetFollows`). There
is one lemma per action. A confirmed shield stays up because a request or force
bit is set with it (`ShieldHeld`), and the status is earned because a snapshot
with a clear bit was taken after a load (`StatusEarned`). `CallInv` adds the
types of the locals and, by control point, the ranges of the loop counters.
`StreamInv` is about the words. That a sum over the fragments is right is
induction over data; the proof carries its witness along instead: a function
`cut` with `cut[f] = cut[f-1] + Words(fragment f)` (`Cuts`), one step longer with
each fragment, in the first pass for the words expected and in the second for
those stored. Word `i` of fragment `f` is then at `cut[f-1] + i + 1`
(`StoredInOrder`), and the count has moved by the words stored, modulo
`CountMod`, which may wrap any number of times. `ErrorsNeedAFault` has no
hypothesis. `LoadOkIsTheImage` holds up to the first bus fault and one fault on
(`OneStoreOff`): with two, a lost word and a doubled one cancel in the count, and
TLC shows such a load returning 0 with the wrong words.

**ConfigPathProofs**, for strobes at least three clocks apart where that matters:
`LatchedFrameIsStable` for any fabric, bitstreams and losses, from the invariant
`StrobeWindow` that places each strobe register in its clock since the last word.
The bound is met by any stores of the processor, see `ConfigWordsFarApart` below;
the driver's store loop takes tens of clocks per word. `ConfigPathTypes`: the row
counter stays within the rows and is positive exactly in the frame state.
`CleanLoadIsTheImage` and `PathIsFrameMemory`, the refinement of `FrameMemory`
without its liveness, rest on `PathLayer`. Its invariant `PathInv` says, for a
load of which nothing was lost, where the words sent so far have put the path
(`Followed`): before the sync word the FSM is unsynchronised, `k` frames and `r`
words later it is synchronised or has `NumberOfRows + 1 - r` rows to go, with the
frame's header in the address register and its first rows in theirs (`InFrames`),
and at the end it is unsynchronised again. The latches are the memory of before
with as many frames as were strobed. Between loads nothing is on its way
(`Idle`), and after clean ones the FSM is out of sync (`Unsynchronised`), which
is where the next load needs it. The second clock of a strobe writes the frame
again and changes nothing (`WithAgain`). `cfg_retry` shows that "clean" cannot be
left out.

**SocBusProofs**: `BusTypes`, `AnswersReachTheirSender`, `ConfigWordsFarApart`,
`BusImplementsService` and `FailuresHaveCause`, for any set of accesses, any
fabric and any timeout. The invariant `BusInv` has four parts. `Types` adds to
the types that the counter stays within its bound while it counts. `Granted`: the
bus belongs to the holder of the token, and what answers now was accepted from
the one who has the bus now; this is all that the second theorem needs.
`Switched`: the port the switch serves waits, a port that waits is served or has
its request latched, the bridge holds an access exactly while the switch is busy,
and a timeout is reported to a port that waits for it or to none. `Performed`: an
access is performed only while its port is served and is answered in the next
clock, or was given up before. The refinement of `BusService` follows port by
port (`ServiceStep`). `ConfigWordsFarApart` adds `StrobeInv`: after a
configuration word the LSU is answered, or has been, and does not have the bus in
the clock in which a second word would come too early. It is the assumption
`MinGap >= 3` of `PathLayer`, proved of the bus. `FailuresHaveCause` adds
`PromptInv`: as long as the fabric has not touched the bus, the keeper's count
tells how far an access to RAM or manager has come, so it is answered before a
timeout of two or more clocks. With a timeout of one clock the statement is false
(TLC finds it); the code has 256. The only other assumptions are that a fetch
stores nothing and that an unconfigured fabric can leave the bus alone.

**SerialPortsProofs**: `UartWordsAreBytes`, `HeaderAfterPauseOpens`, `PortTypes`,
`BitbangStrobesWordOnce` and `NoWordLostToReset`. `UartInv` relates the byte
receiver, the recogniser and the word assembler to what was sent: `fed` is what
the assembler holds, and the recogniser is where the bytes heard since the last
silence put it, or so long behind that the timeout comes first. `PortsInv` is
about bitbang. The two shift registers hold, at every half bit of the sender, the
bits it has sent of this word and the ones left of the last, with the two clocks
the synchroniser lags; so the on pattern is in the control register in one window
per word. That it cannot appear there between words is a fact about the pattern
itself, 0xFAB1 in the code, and is the named assumption `PatternAssumption`,
which TLC evaluates on the instance.

**BootloaderProofs**: `BootTypes`, `StoredExecutableLoads`, `ExecutableStaysIntact`
and `BootLayer`. The first two hold for any faults and any interruptions.
`BootInv` begins with `Shape`, the types and where a load or a store has come: a
load has not left the memory, for each word before this one was stored without a
trap (`LoadShape`), and the header of a store is that of the executable, its
address the counter's (`StoreShape`). `StoreFollows` is about the flash under a
store, which erases from the front, writes the data and then the header: what is
still erased, what is the executable's, and that the header holds the sum of the
words so far. `StoredFollows` says that afterwards image and header are in
flash, and how far a load of them has come. Each byte is programmed once, into
an erased byte, and that is where `HasRoom` is needed: beyond the erased sectors
the intersection with an older image is not what was written (`boot_erase`).

The sum over an executable is the last of its partial sums, and the invariants
carry these as a function that grows with each word (`PartialSums`), so they say
what was summed without a recursion. That `Sums`, a recursive function, is such a
function is induction over data. The library's theorem about it takes an operator
as a parameter; `Induction` in this module is about a set instead, from the
library's theorem that the natural numbers are well-founded, and `SumsExist` and
`SumsUnique` follow from it.

`ExecutableStaysIntact` rests on `IntactInv`. `FlashIntact`: whenever no store
is under way, the first byte of the signature is erased, or there is a header
written up to some byte in front of an image of the host whose rest of the first
sector may be erased from some byte on. It covers every place where power can
fail, since the header is written last and its first byte is the first to go or
to be missing. `FlashFollows`: a load from flash has the words of the flash.
`UartFollows`: the words of an upload are the host's unless the sum is off by an
error that is not 0, and then the one fault has been spent. The theorem has two
hypotheses. `MaxFaults <= 1`: two wrong words may cancel in a sum. `DamageShows`
asks of the images, not of the code, that what an interruption leaves does not add
up: they have room in the erased sectors; a wrong size does not end an image
at a word where the sum happens to be right; a half-written size is either whole
or larger than the memory; and an image with an erased end, behind a header with
a half-written sum, does not sum to zero. TLC evaluates it on the images of
`boot`. How often power fails is not bounded.

**Only model-checked.** The liveness properties and the liveness halves of the
refinements (the prover has no rules for fairness): `FlashLoadEnds`,
`EveryJobReturns`, `EveryCallReturns`, `WatchedAccessEnds`, `FabricServed`,
`SilenceReleases`. Properties that the code does not have
(`LoadedBeforeUse` without the hypothesis on uuids, `HardwareIsConfigured`,
`VerifiedLoadConfigures`, `HexModeWrites`, `StoreKeepsImage`) have their runs.

## 5. What is not modelled

- Locked, burst and atomic bus accesses: without caches and atomics the
  configured processor issues none. Accesses to the processor's internal devices
  never reach the bus modelled here. Byte selects: the driver stores words.
- Two serial ports at once: the priority of `eFPGA_Config.v` then drops the words
  of the loser, by design. The UART's checksum and LED steer nothing. The models
  of the path and of the driver leave the serial ports out, since the SoC ties
  them off and `com_active` and `FSM_Reset` stay 0.
- Bootloader options that are off by default (TWI flash, SD card with its file
  system library), its texts, LED and timer interrupt, and the SPI transfers
  inside one flash command.
- The application's loop and the packets' callbacks: any caller and any result.
- Logging, device tree, console, the netlist of the tiles, the processor's
  pipeline and peripherals, and the vendored example, benchmark and test
  programs, which are most of the repository's lines but no part of this system.
- Reordering of plain stores by the compiler: the models take the source order.
- Hardware with more than one slot: the daemon's table has a version with two
  slots, and `AccelManager` follows it, but the repository holds a fabric with
  one, which is what the other modules model.

## 6. Plan

1. `SystemPath`: daemon, driver and configuration path composed, for the order
   of decoupling and loading and for a slot's real contents under failed loads.
2. The driver above `SocBus` instead of single accesses, so that
   `StreamWordFaulty` and `LoseWord` become consequences of timeouts.
