---------------------------- MODULE AccelManager ----------------------------
(***************************************************************************)
(* The accelerator manager daemon, lib/accel_manager/manager.c.            *)
(*                                                                         *)
(* Three kinds of threads share the slot table, the job queue and the      *)
(* semaphores:                                                             *)
(*   - clients, the threads that call accel_execute(); the job is an       *)
(*     accel_work_item on the caller's stack, so the model names a job by  *)
(*     its client and the item lives only while the call does;             *)
(*   - the dispatcher, accel_service_thread();                             *)
(*   - one worker per slot, slot_worker_thread().                          *)
(* A step of a thread touches the shared state at most once.  The slot     *)
(* fields are variables of their own, under the names of the C members.    *)
(***************************************************************************)
EXTENDS Integers, Sequences, FiniteSets

CONSTANTS
  Clients,     \* threads that call accel_execute
  Packets,     \* accelerator manifests (accel_packet_t)
  Uuid,        \* Uuid[p]: the uuid member of a packet
  HasHw,       \* packets whose hw_execute pointer is set
  HasSw,       \* packets whose sw_fallback pointer is set
  HwVersions,  \* what the version string can parse to; see hw_lookup
  MaxSlots,    \* MAX_SLOTS, 4 in the code
  QueueLen,    \* capacity of accel_msgq, 10 in the code
  TimeMod,     \* modulus of k_uptime_get_32, 2^32 in the code
  Horizon,     \* bound of the model: last millisecond the clock reaches
  NoJob,       \* the NULL job pointer
  NoPacket,    \* no packet: a dead work item, or a fabric never streamed to
  Partial      \* fabric content after a stream that began and did not verify

ASSUME PacketAssumption ==
  /\ Uuid \in [Packets -> Nat]
  /\ HasHw \subseteq Packets /\ HasSw \subseteq Packets
  /\ NoPacket \notin Packets /\ Partial \notin Packets /\ NoPacket # Partial

ASSUME SizeAssumption ==
  /\ MaxSlots \in Nat /\ MaxSlots >= 2
  /\ QueueLen \in Nat \ {0}
  /\ TimeMod \in Nat \ {0} /\ Horizon \in Nat

ASSUME ClientAssumption == NoJob \notin Clients

(***************************************************************************)
(* State.                                                                  *)
(***************************************************************************)
VARIABLES
  now,                 \* milliseconds since boot, not wrapped
  current_slot_count,
  service_initialized,
  (* struct efpga_slot, one entry per member of slots[MAX_SLOTS] *)
  state, active_uuid, last_used, current_job, load_err, job_ready_sem,
  free_slots_sem,      \* count of the semaphore of the same name
  accel_msgq,          \* jobs in the queue, oldest first
  putters,             \* clients blocked in k_msgq_put, oldest first
  (* the dispatcher's control point and locals *)
  dpc, dwork, i, target_slot, oldest_time, err,
  (* each worker's control point and its local work *)
  wpc, wwork,
  (* each client's control point and its struct accel_work_item *)
  cpc, packet, done_signal, status,
  (* history: what the fabric behind a slot holds, how often a job ran, *)
  (* which slots were free when the search for a slot began *)
  fabric, runs, candidates

slotVars   == <<state, active_uuid, last_used, current_job, load_err, job_ready_sem>>
bootVars   == <<current_slot_count, service_initialized>>
queueVars  == <<accel_msgq, putters>>
scanVars   == <<i, target_slot, oldest_time, err, candidates>>
dispVars   == <<dpc, dwork, scanVars>>
workerVars == <<wpc, wwork>>
itemVars   == <<packet, done_signal, status, runs>>
clientVars == <<cpc, itemVars>>
vars == <<now, bootVars, slotVars, free_slots_sem, queueVars, dispVars,
          workerVars, clientVars, fabric>>

SlotIdx == 0 .. MaxSlots - 1

(* Slots the detected hardware has; the others keep their static zeros.    *)
Slots == 0 .. current_slot_count - 1

FreeSlots == {s \in Slots : state[s] = "FREE"}

(* Results an accelerator callback returns: 0, or -EINVAL when the length  *)
(* of the data is not the one the accelerator expects.                     *)
CallbackResults == {"OK", "EINVAL"}
Statuses == CallbackResults \cup {"ENOSYS", "ENODEV", "uninit"}

(* The hardware table.  Any other version is unsupported.                  *)
hw_lookup == [v \in {"FAB00001", "FAB00002"} |-> IF v = "FAB00001" THEN 1 ELSE 2]

(* k_uptime_get_32 truncates the uptime; last_used holds the whole one.    *)
Stamp(t) == t % TimeMod

MaxStamp == TimeMod - 1  \* 0xFFFFFFFF

(* k_sem_give on a semaphore of limit n saturates.                         *)
GiveBinary(count, n) == 1  \* fault: the semaphore does not count
Give(count, n) == IF count < n THEN count + 1 ELSE count

Init ==
  /\ now = 0
  /\ current_slot_count = 0 /\ service_initialized = FALSE
  /\ state = [s \in SlotIdx |-> "FREE"]
  /\ active_uuid = [s \in SlotIdx |-> 0]
  /\ last_used = [s \in SlotIdx |-> 0]
  /\ current_job = [s \in SlotIdx |-> NoJob]
  /\ load_err = [s \in SlotIdx |-> "OK"]
  /\ job_ready_sem = [s \in SlotIdx |-> 0]
  /\ free_slots_sem = 0
  /\ accel_msgq = <<>> /\ putters = <<>>
  /\ dpc = "detect" /\ dwork = NoJob
  /\ i = 0 /\ target_slot = -1 /\ oldest_time = MaxStamp /\ err = "OK"
  /\ candidates = {}
  /\ wpc = [s \in SlotIdx |-> "none"] /\ wwork = [s \in SlotIdx |-> NoJob]
  /\ cpc = [c \in Clients |-> "idle"]
  /\ packet = [c \in Clients |-> NoPacket]
  /\ done_signal = [c \in Clients |-> 0]
  /\ status = [c \in Clients |-> "uninit"]
  /\ runs = [c \in Clients |-> 0]
  /\ fabric = [s \in SlotIdx |-> NoPacket]

-----------------------------------------------------------------------------
(***************************************************************************)
(* Clients: accel_execute.                                                 *)
(***************************************************************************)

(* The early returns: a NULL argument, or the service is not up yet.       *)
ExecuteRefused(c) ==
  /\ cpc[c] = "idle"
  /\ \/ status' = [status EXCEPT ![c] = "EINVAL"]
     \/ ~service_initialized /\ status' = [status EXCEPT ![c] = "ENODEV"]
  /\ cpc' = [cpc EXCEPT ![c] = "refused"]
  /\ UNCHANGED <<now, bootVars, slotVars, free_slots_sem, queueVars, dispVars,
                 workerVars, packet, done_signal, runs, fabric>>

HasRoomOffByOne == Len(accel_msgq) <= QueueLen  \* fault: one message too many
HasRoom == Len(accel_msgq) < QueueLen

(* Fill the work item and k_msgq_put its address with K_FOREVER: it is     *)
(* queued, or the caller blocks until the dispatcher makes room.           *)
Execute(c, p) ==
  /\ cpc[c] = "idle" /\ service_initialized
  /\ packet' = [packet EXCEPT ![c] = p]
  /\ done_signal' = [done_signal EXCEPT ![c] = 0]
  /\ status' = [status EXCEPT ![c] = "uninit"]
  /\ runs' = [runs EXCEPT ![c] = 0]
  /\ IF HasRoom
       THEN /\ accel_msgq' = Append(accel_msgq, c)
            /\ cpc' = [cpc EXCEPT ![c] = "await"]
            /\ UNCHANGED putters
       ELSE /\ putters' = Append(putters, c)
            /\ cpc' = [cpc EXCEPT ![c] = "putting"]
            /\ UNCHANGED accel_msgq
  /\ UNCHANGED <<now, bootVars, slotVars, free_slots_sem, dispVars, workerVars, fabric>>

(* Fault: the wait times out and its result is ignored.                    *)
ExecuteDoneUnsignalled(c) ==
  /\ cpc[c] = "await"
  /\ done_signal' = [done_signal EXCEPT ![c] = 0]
  /\ cpc' = [cpc EXCEPT ![c] = "returned"]
  /\ UNCHANGED <<now, bootVars, slotVars, free_slots_sem, queueVars, dispVars,
                 workerVars, packet, status, runs, fabric>>

(* k_sem_take(&work.done_signal, K_FOREVER) succeeds; status is read.      *)
ExecuteDone(c) ==
  /\ cpc[c] = "await" /\ done_signal[c] = 1
  /\ done_signal' = [done_signal EXCEPT ![c] = 0]
  /\ cpc' = [cpc EXCEPT ![c] = "returned"]
  /\ UNCHANGED <<now, bootVars, slotVars, free_slots_sem, queueVars, dispVars,
                 workerVars, packet, status, runs, fabric>>

(* The caller takes the result; its stack frame, and the item, are gone.   *)
Leave(c) ==
  /\ cpc[c] \in {"refused", "returned"}
  /\ cpc' = [cpc EXCEPT ![c] = "idle"]
  /\ packet' = [packet EXCEPT ![c] = NoPacket]
  /\ status' = [status EXCEPT ![c] = "uninit"]
  /\ runs' = [runs EXCEPT ![c] = 0]
  /\ UNCHANGED <<now, bootVars, slotVars, free_slots_sem, queueVars, dispVars,
                 workerVars, done_signal, fabric>>

-----------------------------------------------------------------------------
(***************************************************************************)
(* The dispatcher: accel_service_thread.                                   *)
(***************************************************************************)

(* Device check and version parse: either fails and the thread returns, or *)
(* the slot count is known and free_slots_sem is initialised with it.      *)
DeviceNotReady ==
  /\ dpc = "detect"
  /\ dpc' = "exited"
  /\ UNCHANGED <<now, bootVars, slotVars, free_slots_sem, queueVars, dwork, scanVars,
                 workerVars, clientVars, fabric>>

DetectHardware(version) ==
  /\ dpc = "detect"
  /\ IF version \in DOMAIN hw_lookup
       THEN /\ current_slot_count' = hw_lookup[version]
            /\ free_slots_sem' = hw_lookup[version]
            /\ dpc' = "setup"
       ELSE /\ dpc' = "exited"
            /\ UNCHANGED <<current_slot_count, free_slots_sem>>
  /\ UNCHANGED <<now, service_initialized, slotVars, queueVars, dwork, scanVars,
                 workerVars, clientVars, fabric>>

(* One turn of the set-up loop; the worker runs from the end of it.        *)
SetupSlot ==
  /\ dpc = "setup" /\ i < current_slot_count
  /\ active_uuid' = [active_uuid EXCEPT ![i] = 0]
  /\ last_used' = [last_used EXCEPT ![i] = now]
  /\ state' = [state EXCEPT ![i] = "FREE"]
  /\ job_ready_sem' = [job_ready_sem EXCEPT ![i] = 0]
  /\ wpc' = [wpc EXCEPT ![i] = "take"]
  /\ i' = i + 1
  /\ UNCHANGED <<now, bootVars, current_job, load_err, free_slots_sem, queueVars,
                 dpc, dwork, target_slot, oldest_time, err, candidates, wwork, clientVars, fabric>>

ServiceUp ==
  /\ dpc = "setup" /\ i = current_slot_count
  /\ service_initialized' = TRUE
  /\ dpc' = "get"
  /\ i' = 0
  /\ UNCHANGED <<now, current_slot_count, slotVars, free_slots_sem, queueVars, dwork,
                 target_slot, oldest_time, err, candidates, workerVars, clientVars, fabric>>

(* k_msgq_get: the oldest job leaves the queue, and the message of the     *)
(* longest blocked k_msgq_put takes the place that opens.                  *)
GetJob ==
  /\ dpc = "get" /\ accel_msgq # <<>>
  /\ dwork' = Head(accel_msgq)
  /\ IF putters = <<>>
       THEN accel_msgq' = Tail(accel_msgq) /\ UNCHANGED <<putters, cpc>>
       ELSE /\ accel_msgq' = Append(Tail(accel_msgq), Head(putters))
            /\ putters' = Tail(putters)
            /\ cpc' = [cpc EXCEPT ![Head(putters)] = "await"]
  /\ dpc' = "sem"
  /\ UNCHANGED <<now, bootVars, slotVars, free_slots_sem, scanVars, workerVars,
                 itemVars, fabric>>

(* Fault: K_NO_WAIT, and the result is ignored.                            *)
TakeFreeSlotNoWait ==
  /\ dpc = "sem"
  /\ free_slots_sem' = IF free_slots_sem > 0 THEN free_slots_sem - 1 ELSE 0
  /\ dpc' = "hit"
  /\ candidates' = FreeSlots
  /\ UNCHANGED <<now, bootVars, slotVars, queueVars, dwork, i, target_slot, oldest_time,
                 err, workerVars, clientVars, fabric>>

TakeFreeSlot ==
  /\ dpc = "sem" /\ free_slots_sem > 0
  /\ free_slots_sem' = free_slots_sem - 1
  /\ dpc' = "hit"
  /\ candidates' = FreeSlots
  /\ UNCHANGED <<now, bootVars, slotVars, queueVars, dwork, i, target_slot, oldest_time,
                 err, workerVars, clientVars, fabric>>

Holds(s) == active_uuid[s] = Uuid[packet[dwork]]

CacheHitInAnyState(s) == Holds(s)  \* fault: the slot may be busy
CacheHit(s) == state[s] = "FREE" /\ Holds(s)

(* One turn of the cache-hit loop, and the switch to the LRU loop.         *)
CacheScan ==
  /\ dpc = "hit" /\ i < current_slot_count
  /\ IF CacheHit(i)
       THEN target_slot' = i /\ dpc' = "lock" /\ i' = 0
       ELSE i' = i + 1 /\ UNCHANGED <<target_slot, dpc>>
  /\ UNCHANGED <<now, bootVars, slotVars, free_slots_sem, queueVars, dwork,
                 oldest_time, err, candidates, workerVars, clientVars, fabric>>

CacheMiss ==
  /\ dpc = "hit" /\ i = current_slot_count
  /\ dpc' = "lru" /\ i' = 0 /\ oldest_time' = MaxStamp
  /\ UNCHANGED <<now, bootVars, slotVars, free_slots_sem, queueVars, dwork,
                 target_slot, err, candidates, workerVars, clientVars, fabric>>

IsOlderFreeAnyAge(s) == state[s] = "FREE"  \* fault: the last free slot wins
IsOlderFree(s) == state[s] = "FREE" /\ Stamp(last_used[s]) < oldest_time

(* One turn of the LRU loop, and its end.                                  *)
LruScan ==
  /\ dpc = "lru" /\ i < current_slot_count
  /\ IF IsOlderFree(i)
       THEN oldest_time' = Stamp(last_used[i]) /\ target_slot' = i
       ELSE UNCHANGED <<oldest_time, target_slot>>
  /\ i' = i + 1
  /\ UNCHANGED <<now, bootVars, slotVars, free_slots_sem, queueVars, dpc, dwork, err,
                 candidates, workerVars, clientVars, fabric>>

LruDone ==
  /\ dpc = "lru" /\ i = current_slot_count
  /\ dpc' = "lock" /\ i' = 0
  /\ oldest_time' = MaxStamp
  /\ UNCHANGED <<now, bootVars, slotVars, free_slots_sem, queueVars, dwork,
                 target_slot, err, candidates, workerVars, clientVars, fabric>>

NeedReconfigWhenBlank == active_uuid[target_slot] = 0  \* fault: only the first load
NeedReconfig == ~Holds(target_slot)

(* state = SLOT_CONFIGURING, err = 0, need_reconfig.  With a target of -1  *)
(* the code writes slots[-1] and nothing after that is defined: the model  *)
(* stops there, and TargetFound says that it never gets there.             *)
LockSlot ==
  /\ dpc = "lock" /\ target_slot \in Slots
  /\ state' = [state EXCEPT ![target_slot] = "CONFIGURING"]
  /\ err' = "OK"
  /\ candidates' = {}
  /\ dpc' = IF NeedReconfig THEN "load" ELSE "hand"
  /\ UNCHANGED <<now, bootVars, active_uuid, last_used, current_job, load_err,
                 job_ready_sem, free_slots_sem, queueVars, dwork, i, target_slot,
                 oldest_time, workerVars, clientVars, fabric>>

(* fpga_load or efpga_fabulous_load_dynamic: words reach the fabric, ...   *)
StreamBitstream ==
  /\ dpc = "load"
  /\ fabric' = [fabric EXCEPT ![target_slot] = Partial]
  /\ dpc' = "verify"
  /\ UNCHANGED <<now, bootVars, slotVars, free_slots_sem, queueVars, dwork, scanVars,
                 workerVars, clientVars>>

(* ... and the word count matches, or the driver returns -EIO.             *)
LoadVerified ==
  /\ dpc = "verify"
  /\ fabric' = [fabric EXCEPT ![target_slot] = packet[dwork]]
  /\ active_uuid' = [active_uuid EXCEPT ![target_slot] = Uuid[packet[dwork]]]
  /\ dpc' = "hand"
  /\ UNCHANGED <<now, bootVars, state, last_used, current_job, load_err, job_ready_sem,
                 free_slots_sem, queueVars, dwork, scanVars, workerVars, clientVars>>

(* Fault: the loop goes on to the next job.                                *)
LoadFailedDropsJob ==
  /\ dpc = "verify"
  /\ dpc' = "get"
  /\ UNCHANGED <<now, bootVars, slotVars, free_slots_sem, queueVars, dwork, scanVars,
                 workerVars, clientVars, fabric>>

LoadFailed ==
  /\ dpc = "verify"
  /\ err' = "EIO"
  /\ dpc' = "hand"
  /\ UNCHANGED <<now, bootVars, slotVars, free_slots_sem, queueVars, dwork, i,
                 target_slot, oldest_time, candidates, workerVars, clientVars, fabric>>

(* current_job, load_err, state = SLOT_BUSY, then give job_ready_sem.      *)
HandJob ==
  /\ dpc = "hand"
  /\ current_job' = [current_job EXCEPT ![target_slot] = dwork]
  /\ load_err' = [load_err EXCEPT ![target_slot] = err]
  /\ state' = [state EXCEPT ![target_slot] = "BUSY"]
  /\ dpc' = "give"
  /\ UNCHANGED <<now, bootVars, active_uuid, last_used, job_ready_sem, free_slots_sem,
                 queueVars, dwork, scanVars, workerVars, clientVars, fabric>>

WakeWorker ==
  /\ dpc = "give"
  /\ job_ready_sem' = [job_ready_sem EXCEPT ![target_slot] = Give(@, 1)]
  /\ dpc' = "get"
  /\ dwork' = NoJob /\ target_slot' = -1 /\ err' = "OK"
  /\ UNCHANGED <<now, bootVars, state, active_uuid, last_used, current_job, load_err,
                 free_slots_sem, queueVars, i, oldest_time, candidates, workerVars, clientVars,
                 fabric>>

-----------------------------------------------------------------------------
(***************************************************************************)
(* The worker of slot s: slot_worker_thread.                               *)
(***************************************************************************)

TakeJob(s) ==
  /\ wpc[s] = "take" /\ job_ready_sem[s] > 0
  /\ job_ready_sem' = [job_ready_sem EXCEPT ![s] = @ - 1]
  /\ wwork' = [wwork EXCEPT ![s] = current_job[s]]
  /\ wpc' = [wpc EXCEPT ![s] = "start"]
  /\ UNCHANGED <<now, bootVars, state, active_uuid, last_used, current_job, load_err,
                 free_slots_sem, queueVars, dispVars, clientVars, fabric>>

(* The callback the worker enters: hardware when the load succeeded, else  *)
(* the software fallback.                                                  *)
Callbacks(s) == IF load_err[s] = "OK" THEN HasHw ELSE HasSw

EnterCallback(s) ==
  /\ wpc[s] = "start" /\ packet[wwork[s]] \in Callbacks(s)
  /\ wpc' = [wpc EXCEPT ![s] = IF load_err[s] = "OK" THEN "hw" ELSE "sw"]
  /\ UNCHANGED <<now, bootVars, slotVars, free_slots_sem, queueVars, dispVars, wwork,
                 clientVars, fabric>>

(* work->status is written: what the callback returned, or -ENOSYS.        *)
WriteStatus(s, result) ==
  /\ status' = [status EXCEPT ![wwork[s]] = result]
  /\ runs' = [runs EXCEPT ![wwork[s]] = @ + 1]
  /\ wpc' = [wpc EXCEPT ![s] = "stamp"]
  /\ UNCHANGED <<now, bootVars, slotVars, free_slots_sem, queueVars, dispVars, wwork,
                 cpc, packet, done_signal, fabric>>

LeaveCallback(s) ==
  /\ wpc[s] \in {"hw", "sw"}
  /\ \E result \in CallbackResults : WriteStatus(s, result)

(* Fault: the status stays unwritten.                                      *)
NoCallbackSilent(s) ==
  /\ wpc[s] = "start" /\ packet[wwork[s]] \notin Callbacks(s)
  /\ WriteStatus(s, "uninit")

NoCallback(s) ==
  /\ wpc[s] = "start" /\ packet[wwork[s]] \notin Callbacks(s)
  /\ WriteStatus(s, "ENOSYS")

(* Fault: current_job is not cleared.                                      *)
StampSlotKeepsJob(s) ==
  /\ wpc[s] = "stamp"
  /\ last_used' = [last_used EXCEPT ![s] = now]
  /\ wpc' = [wpc EXCEPT ![s] = "free"]
  /\ UNCHANGED <<now, bootVars, state, active_uuid, current_job, load_err, job_ready_sem,
                 free_slots_sem, queueVars, dispVars, wwork, clientVars, fabric>>

StampSlot(s) ==
  /\ wpc[s] = "stamp"
  /\ last_used' = [last_used EXCEPT ![s] = now]
  /\ current_job' = [current_job EXCEPT ![s] = NoJob]
  /\ wpc' = [wpc EXCEPT ![s] = "free"]
  /\ UNCHANGED <<now, bootVars, state, active_uuid, load_err, job_ready_sem,
                 free_slots_sem, queueVars, dispVars, wwork, clientVars, fabric>>

FreeSlot(s) ==
  /\ wpc[s] = "free"
  /\ state' = [state EXCEPT ![s] = "FREE"]
  /\ wpc' = [wpc EXCEPT ![s] = "signal"]
  /\ UNCHANGED <<now, bootVars, active_uuid, last_used, current_job, load_err,
                 job_ready_sem, free_slots_sem, queueVars, dispVars, wwork, clientVars,
                 fabric>>

SignalDone(s) ==
  /\ wpc[s] = "signal"
  /\ done_signal' = [done_signal EXCEPT ![wwork[s]] = Give(@, 1)]
  /\ wwork' = [wwork EXCEPT ![s] = NoJob]
  /\ wpc' = [wpc EXCEPT ![s] = "give"]
  /\ UNCHANGED <<now, bootVars, slotVars, free_slots_sem, queueVars, dispVars, cpc,
                 packet, status, runs, fabric>>

(* Fault: the error path keeps the token.                                  *)
GiveSlotOnSuccess(s) ==
  /\ wpc[s] = "give"
  /\ free_slots_sem' =
       IF load_err[s] = "OK" THEN Give(free_slots_sem, current_slot_count) ELSE free_slots_sem
  /\ wpc' = [wpc EXCEPT ![s] = "take"]
  /\ UNCHANGED <<now, bootVars, slotVars, queueVars, dispVars, wwork, clientVars, fabric>>

GiveSlot(s) ==
  /\ wpc[s] = "give"
  /\ free_slots_sem' = Give(free_slots_sem, current_slot_count)
  /\ wpc' = [wpc EXCEPT ![s] = "take"]
  /\ UNCHANGED <<now, bootVars, slotVars, queueVars, dispVars, wwork, clientVars, fabric>>

-----------------------------------------------------------------------------
(* The kernel clock, up to the bound of the model.                         *)
Tick ==
  /\ now < Horizon
  /\ now' = now + 1
  /\ UNCHANGED <<bootVars, slotVars, free_slots_sem, queueVars, dispVars, workerVars,
                 clientVars, fabric>>

Client(c) ==
  \/ ExecuteRefused(c) \/ ExecuteDone(c) \/ Leave(c)
  \/ \E p \in Packets : Execute(c, p)

Boot == DeviceNotReady \/ (\E v \in HwVersions : DetectHardware(v)) \/ SetupSlot \/ ServiceUp

Dispatch ==
  \/ GetJob \/ TakeFreeSlot \/ CacheScan \/ CacheMiss \/ LruScan \/ LruDone
  \/ LockSlot \/ StreamBitstream \/ LoadVerified \/ LoadFailed
  \/ HandJob \/ WakeWorker

Worker(s) ==
  \/ TakeJob(s) \/ EnterCallback(s) \/ LeaveCallback(s) \/ NoCallback(s)
  \/ StampSlot(s) \/ FreeSlot(s) \/ SignalDone(s) \/ GiveSlot(s)

Next ==
  \/ Boot \/ Dispatch \/ Tick
  \/ \E c \in Clients : Client(c)
  \/ \E s \in SlotIdx : Worker(s)

Spec == Init /\ [][Next]_vars

(* Every thread that can run is scheduled, and callbacks return.  A client *)
(* owes nothing but to wake up once its job is signalled.                  *)
Fairness ==
  /\ WF_vars(Boot) /\ WF_vars(Dispatch)
  /\ \A s \in SlotIdx : WF_vars(Worker(s))
  /\ \A c \in Clients : WF_vars(ExecuteDone(c))

FairSpec == Spec /\ Fairness

-----------------------------------------------------------------------------
(***************************************************************************)
(* Properties.                                                             *)
(***************************************************************************)

DispatcherPoints ==
  {"detect", "exited", "setup", "get", "sem", "hit", "lru", "lock",
   "load", "verify", "hand", "give"}
WorkerPoints ==
  {"none", "take", "start", "hw", "sw", "stamp", "free", "signal", "give"}
ClientPoints == {"idle", "refused", "putting", "await", "returned"}

SlotTypes ==
  /\ now \in 0 .. Horizon
  /\ current_slot_count \in 0 .. MaxSlots
  /\ service_initialized \in BOOLEAN
  /\ state \in [SlotIdx -> {"FREE", "CONFIGURING", "BUSY"}]
  /\ last_used \in [SlotIdx -> 0 .. Horizon]
  /\ job_ready_sem \in [SlotIdx -> 0 .. 1]
  /\ free_slots_sem \in 0 .. current_slot_count
  /\ dpc \in DispatcherPoints
  /\ i \in 0 .. current_slot_count
  /\ target_slot \in SlotIdx \cup {-1}
  /\ oldest_time \in 0 .. MaxStamp
  /\ wpc \in [SlotIdx -> WorkerPoints]
  /\ candidates \subseteq SlotIdx

JobTypes ==
  /\ current_job \in [SlotIdx -> Clients \cup {NoJob}]
  /\ load_err \in [SlotIdx -> {"OK", "EIO"}]
  /\ accel_msgq \in Seq(Clients) /\ Len(accel_msgq) <= QueueLen
  /\ putters \in Seq(Clients)
  /\ dwork \in Clients \cup {NoJob}
  /\ err \in {"OK", "EIO"}
  /\ wwork \in [SlotIdx -> Clients \cup {NoJob}]
  /\ cpc \in [Clients -> ClientPoints]
  /\ done_signal \in [Clients -> 0 .. 1]
  /\ status \in [Clients -> Statuses]
  /\ runs \in [Clients -> Nat]

DataTypes ==
  /\ active_uuid \in [SlotIdx -> Nat]
  /\ packet \in [Clients -> Packets \cup {NoPacket}]
  /\ fabric \in [SlotIdx -> Packets \cup {NoPacket, Partial}]

(* Every variable has its type: slot indices and job pointers are in       *)
(* range, no semaphore passes its limit, the queue its capacity.           *)
TypeOK == SlotTypes /\ JobTypes /\ DataTypes

(* The dispatcher holds a token of free_slots_sem it has not turned into a *)
(* locked slot yet.                                                        *)
HoldsToken == dpc \in {"hit", "lru", "lock"}

(* Workers that freed their slot and have not given its token back.        *)
Owing == {s \in Slots : wpc[s] \in {"signal", "give"}}

(* free_slots_sem counts the free slots.  Every FREE slot is matched by a  *)
(* token in the semaphore, in the dispatcher's hand, or still owed by a    *)
(* worker: a worker marks its slot FREE (manager.c:121) before it gives    *)
(* the token (127), so the dispatcher may lock a slot with the token of    *)
(* another one, and the count must survive that.  No give is ever lost to  *)
(* the limit of the semaphore.                                             *)
SlotAccounting ==
  dpc \notin {"detect", "exited", "setup"} =>
    Cardinality(FreeSlots)
      = free_slots_sem + (IF HoldsToken THEN 1 ELSE 0) + Cardinality(Owing)

(* A dispatcher that took a token of free_slots_sem finds a slot to lock:  *)
(* it never goes on with target_slot = -1.                                 *)
TargetFound == dpc = "lock" => target_slot # -1

(* Workers that are between taking a job and freeing the slot.             *)
Running == {s \in Slots : wpc[s] \in {"start", "hw", "sw", "stamp", "free"}}

Configuring == IF dpc \in {"load", "verify", "hand"} THEN {target_slot} ELSE {}

(* Slot states say who owns the slot: the dispatcher configures it, or its *)
(* worker runs on it, never both; a slot is never streamed to while a job  *)
(* runs on it, and a free slot has no pending job_ready_sem.               *)
SlotOwnership ==
  /\ \A s \in Slots : state[s] = "CONFIGURING" <=> s \in Configuring
  /\ \A s \in Slots : state[s] = "BUSY" <=>
       \/ s \in Running
       \/ job_ready_sem[s] = 1
       \/ dpc = "give" /\ target_slot = s
  /\ \A s \in Running : job_ready_sem[s] = 0 /\ ~(dpc = "give" /\ target_slot = s)
  /\ dpc = "give" => job_ready_sem[target_slot] = 0

(* The places that point at a work item the daemon may still dereference.  *)
InQueue(c)      == \E k \in 1 .. Len(accel_msgq) : accel_msgq[k] = c
InPutters(c)    == \E k \in 1 .. Len(putters) : putters[k] = c
InDispatcher(c) == dwork = c /\ dpc # "give"
InSlot(c, s)    == current_job[s] = c /\ s \notin Running
InWorker(c, s)  == wwork[s] = c

(* The work item lives on the stack of the caller of accel_execute, so no  *)
(* pointer to it may outlive the call: whoever still holds it, its caller  *)
(* is still blocked in the call and has not been signalled.                *)
NoDanglingItem ==
  \A c \in Clients :
    /\ InPutters(c) => cpc[c] = "putting"
    /\ (InQueue(c) \/ InDispatcher(c) \/ \E s \in SlotIdx : InSlot(c, s) \/ InWorker(c, s))
         => cpc[c] = "await" /\ done_signal[c] = 0

(* A blocked call has its job in exactly one place until it is signalled:  *)
(* none is lost, none is handed to two slots.                              *)
JobInOnePlace ==
  \A c \in Clients :
    (cpc[c] \in {"putting", "await"} /\ done_signal[c] = 0) =>
      Cardinality(   {<<"queue", k>> : k \in {k \in 1 .. Len(accel_msgq) : accel_msgq[k] = c}}
                \cup {<<"putter", k>> : k \in {k \in 1 .. Len(putters) : putters[k] = c}}
                \cup (IF InDispatcher(c) THEN {<<"dispatcher", 0>>} ELSE {})
                \cup {<<"slot", s>> : s \in {s \in SlotIdx : InSlot(c, s)}}
                \cup {<<"worker", s>> : s \in {s \in SlotIdx : InWorker(c, s)}}) = 1

(* accel_execute returns after its job was answered once, with the status  *)
(* that answer wrote, and a job is never answered twice.                   *)
AnsweredOnce ==
  \A c \in Clients :
    /\ runs[c] <= 1
    /\ cpc[c] = "returned" => runs[c] = 1 /\ status[c] # "uninit"

(* The slot a job runs on was streamed to at some time; main.c says of a   *)
(* job that returned 0: "Daemon Job Complete! Bitstream Loaded."           *)
LoadedBeforeUse == \A s \in Slots : wpc[s] = "hw" => fabric[s] # NoPacket

(* A job that runs on hardware never finds another packet's configuration  *)
(* in its slot.  (What it may find after a failed load is the subject of   *)
(* HardwareIsConfigured.)                                                  *)
NeverForeignConfig ==
  \A s \in Slots : wpc[s] = "hw" => fabric[s] \in {packet[wwork[s]], Partial}

(* hw_execute is entered only when the slot holds the packet's bitstream;  *)
(* a job whose hardware failed to load gets the software fallback          *)
(* (manager.c:110), and a completed job means the bitstream is loaded      *)
(* (main.c prints so).                                                     *)
HardwareIsConfigured ==
  \A s \in Slots : wpc[s] = "hw" => fabric[s] = packet[wwork[s]]

(* "Find the best FREE slot" (manager.c:199).  Among the slots that were    *)
(* free when the search began: if one holds the wanted uuid, the target    *)
(* does; otherwise no such slot was used longer ago than the target, the   *)
(* "LRU FREE slot" (manager.c:210).  Workers free further slots while the  *)
(* two loops run, and those may be missed.                                 *)
BestFreeSlot ==
  (dpc = "lock" /\ target_slot \in Slots
     /\ ~Holds(target_slot))
  => \A s \in candidates :
       /\ ~Holds(s)
       /\ last_used[target_slot] <= last_used[s]

(* Every accepted job is answered: a caller blocked in accel_execute       *)
(* returns, though the queue is full and the slots are busy.               *)
EveryJobReturns ==
  \A c \in Clients : cpc[c] \in {"putting", "await"} ~> cpc[c] = "returned"

-----------------------------------------------------------------------------
(* The daemon implements the synchronous call: a call waits until a worker *)
(* took its job, is served while the worker holds the item, and has been   *)
(* served once done_signal is given.                                       *)
Phase(c) ==
  CASE cpc[c] = "idle" -> "idle"
    [] cpc[c] \in {"refused", "returned"} \/ done_signal[c] = 1 -> "served"
    [] cpc[c] \in {"putting", "await"} /\ done_signal[c] = 0 ->
         IF \E s \in SlotIdx : wwork[s] = c THEN "serving" ELSE "waiting"

Service == INSTANCE JobService WITH
  Results  <- CallbackResults \cup {"ENOSYS"},
  Refusals <- {"EINVAL", "ENODEV"},
  Capacity <- MaxSlots,
  NoResult <- "uninit",
  phase    <- [c \in Clients |-> Phase(c)],
  result   <- [c \in Clients |-> IF Phase(c) = "served" THEN status[c] ELSE "uninit"]

(* accel_execute is the synchronous call accel_platform.h documents.       *)
IsSynchronousService == Service!LiveSpec
=============================================================================
