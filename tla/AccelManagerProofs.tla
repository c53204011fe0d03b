------------------------- MODULE AccelManagerProofs -------------------------
(***************************************************************************)
(* Proofs about the accelerator manager, for every number of clients,      *)
(* packets, slots and queue places.                                        *)
(*                                                                         *)
(* The slot layer comes first: what the slot states, the two kinds of      *)
(* semaphores and the control points of the dispatcher and the workers     *)
(* have to do with each other.  It needs nothing of the jobs.              *)
(***************************************************************************)
EXTENDS AccelManager, FiniteSetTheorems, TLAPS

(* The slots before the service is up.                                     *)
BootShape ==
  /\ dpc \in {"detect", "exited"} => current_slot_count = 0 /\ free_slots_sem = 0
  /\ dpc \in {"detect", "exited", "setup"} =>
       \A s \in SlotIdx :
         state[s] = "FREE" /\ job_ready_sem[s] = 0 /\ wpc[s] \in {"none", "take"}
  /\ dpc = "setup" => free_slots_sem = current_slot_count

(* What the dispatcher's locals hold at each control point.                *)
LoopShape ==
  /\ dpc \in {"detect", "exited", "setup", "get", "sem", "hit"} => target_slot = -1
  /\ dpc \in {"lru", "lock"} => target_slot \in FreeSlots \cup {-1}
  /\ dpc \in {"load", "verify", "hand", "give"} => target_slot \in Slots
  /\ dpc \notin {"setup", "hit", "lru"} => i = 0

(* Only the slots the hardware has got a worker.                           *)
WorkerShape == \A s \in SlotIdx : wpc[s] # "none" => s \in Slots

(* The inductive invariant of the slot layer.                              *)
SlotInv ==
  /\ SlotTypes /\ BootShape /\ LoopShape /\ WorkerShape
  /\ SlotOwnership /\ SlotAccounting

-----------------------------------------------------------------------------
(* Finiteness and size of the sets that are counted.                       *)
LEMMA SlotSetsFinite ==
  ASSUME SlotTypes
  PROVE  /\ IsFiniteSet(Slots) /\ Cardinality(Slots) = current_slot_count
         /\ IsFiniteSet(FreeSlots) /\ Cardinality(FreeSlots) \in 0 .. current_slot_count
         /\ IsFiniteSet(Owing) /\ Cardinality(Owing) \in Nat
<1>1. current_slot_count \in Nat /\ current_slot_count - 1 \in Int
  BY SizeAssumption DEF SlotTypes
<1>2. IsFiniteSet(Slots) /\ Cardinality(Slots) = current_slot_count
  BY <1>1, FS_Interval DEF Slots
<1>3. FreeSlots \subseteq Slots /\ Owing \subseteq Slots
  BY DEF FreeSlots, Owing
<1>4. /\ IsFiniteSet(FreeSlots) /\ Cardinality(FreeSlots) <= Cardinality(Slots)
      /\ IsFiniteSet(Owing)
  BY <1>2, <1>3, FS_Subset
<1>5. Cardinality(FreeSlots) \in Nat /\ Cardinality(Owing) \in Nat
  BY <1>4, FS_CardinalityType
<1> QED
  BY <1>1, <1>2, <1>4, <1>5

LEMMA SlotRange == \A n \in 0 .. MaxSlots : 0 .. n - 1 \subseteq SlotIdx
  BY SizeAssumption DEF SlotIdx

LEMMA SlotInit == Init => SlotInv
<1> SUFFICES ASSUME Init PROVE SlotInv
  OBVIOUS
<1> USE SizeAssumption DEF Init
<1>1. SlotTypes
  <2>1. /\ now \in 0 .. Horizon
        /\ current_slot_count \in 0 .. MaxSlots
    OBVIOUS
  <2>1a. service_initialized \in BOOLEAN
    OBVIOUS
  <2>2. /\ state \in [SlotIdx -> {"FREE", "CONFIGURING", "BUSY"}]
        /\ last_used \in [SlotIdx -> 0 .. Horizon]
        /\ job_ready_sem \in [SlotIdx -> 0 .. 1]
    OBVIOUS
  <2>3. free_slots_sem \in 0 .. current_slot_count /\ i \in 0 .. current_slot_count
    OBVIOUS
  <2>4. dpc \in DispatcherPoints /\ wpc \in [SlotIdx -> WorkerPoints]
    BY DEF DispatcherPoints, WorkerPoints
  <2>5. /\ target_slot \in SlotIdx \cup {-1}
        /\ oldest_time \in 0 .. MaxStamp
        /\ candidates \subseteq SlotIdx
    BY DEF MaxStamp
  <2> QED
    BY <2>1, <2>1a, <2>2, <2>3, <2>4, <2>5 DEF SlotTypes
<1>2. BootShape /\ LoopShape /\ WorkerShape
  BY DEF BootShape, LoopShape, WorkerShape, SlotIdx
<1>3. Slots = {}
  BY DEF Slots
<1>4. SlotOwnership /\ SlotAccounting
  BY <1>3 DEF SlotOwnership, SlotAccounting, Running
<1> QED
  BY <1>1, <1>2, <1>4 DEF SlotInv

-----------------------------------------------------------------------------
(* Steps that leave the slot layer alone.                                  *)
slotLayer == <<now, bootVars, state, last_used, job_ready_sem, free_slots_sem, dpc, i,
               target_slot, oldest_time, candidates, wpc>>

LEMMA SlotLayerStutter ==
  ASSUME SlotInv, UNCHANGED slotLayer
  PROVE  SlotInv'
<1>1. Slots' = Slots /\ FreeSlots' = FreeSlots /\ Owing' = Owing /\ Running' = Running
      /\ Configuring' = Configuring /\ HoldsToken' = HoldsToken
  BY DEF slotLayer, bootVars, Slots, FreeSlots, Owing, Running, Configuring, HoldsToken
<1>2. SlotTypes'
  BY DEF SlotInv, SlotTypes, slotLayer, bootVars
<1>3. BootShape' /\ LoopShape' /\ WorkerShape'
  BY <1>1 DEF SlotInv, BootShape, LoopShape, WorkerShape, slotLayer, bootVars
<1>4. SlotOwnership'
  BY <1>1 DEF SlotInv, SlotOwnership, slotLayer
<1>5. SlotAccounting'
  BY <1>1 DEF SlotInv, SlotAccounting, slotLayer
<1> QED
  BY <1>2, <1>3, <1>4, <1>5 DEF SlotInv

(* Hardware detection and set-up: no thread uses the slots yet.            *)
LEMMA SlotBoot ==
  ASSUME SlotInv, Boot
  PROVE  SlotInv'
<1> USE SizeAssumption DEF SlotInv
<1>1. CASE DeviceNotReady
  <2>1. Slots = {} /\ Slots' = {}
    BY <1>1 DEF DeviceNotReady, BootShape, Slots, bootVars
  <2>2. SlotTypes'
    BY <1>1 DEF DeviceNotReady, SlotTypes, bootVars, slotVars, scanVars, workerVars,
       DispatcherPoints
  <2>3. BootShape' /\ LoopShape' /\ WorkerShape'
    BY <1>1 DEF DeviceNotReady, BootShape, LoopShape, WorkerShape, bootVars, slotVars,
       scanVars, workerVars, Slots
  <2>4. SlotOwnership' /\ SlotAccounting'
    BY <1>1, <2>1 DEF DeviceNotReady, SlotOwnership, SlotAccounting, Running
  <2> QED
    BY <2>2, <2>3, <2>4
<1>2. ASSUME NEW v \in HwVersions, DetectHardware(v)
      PROVE  SlotInv'
  <2> USE <1>2 DEF DetectHardware, slotVars, scanVars, workerVars
  <2>1. current_slot_count' \in 0 .. 2 /\ free_slots_sem' = current_slot_count'
    BY DEF hw_lookup, BootShape
  <2>2. SlotTypes'
    BY <2>1 DEF SlotTypes, DispatcherPoints, BootShape
  <2>3. BootShape' /\ LoopShape' /\ WorkerShape'
    BY <2>1 DEF BootShape, LoopShape, WorkerShape, Slots
  <2>4. Slots' \subseteq SlotIdx
    BY <2>2, SlotRange DEF SlotTypes, Slots
  <2>5. dpc' \in {"exited", "setup"} /\ Configuring' = {}
    BY DEF Configuring
  <2>5a. Running' = {}
    BY <2>3, <2>4, <2>5 DEF BootShape, Running
  <2>6. SlotOwnership' /\ SlotAccounting'
    BY <2>3, <2>4, <2>5, <2>5a DEF BootShape, SlotOwnership, SlotAccounting
  <2> QED
    BY <2>2, <2>3, <2>6
<1>3. CASE SetupSlot
  <2> USE <1>3 DEF SetupSlot, bootVars
  <2>1. i \in SlotIdx /\ i + 1 \in 0 .. current_slot_count /\ i \in Slots
    BY DEF SlotTypes, SlotIdx, Slots
  <2>2. SlotTypes'
    BY <2>1 DEF SlotTypes, WorkerPoints, SlotIdx
  <2>3. BootShape' /\ LoopShape' /\ WorkerShape'
    BY <2>1 DEF SlotTypes, BootShape, LoopShape, WorkerShape, Slots
  <2>4. Slots' \subseteq SlotIdx
    BY <2>2, SlotRange DEF SlotTypes, Slots
  <2>5. dpc' = "setup" /\ Configuring' = {}
    BY DEF Configuring
  <2>6. Running' = {}
    BY <2>3, <2>4, <2>5 DEF BootShape, Running
  <2>7. SlotOwnership' /\ SlotAccounting'
    BY <2>3, <2>4, <2>5, <2>6 DEF BootShape, SlotOwnership, SlotAccounting
  <2> QED
    BY <2>2, <2>3, <2>7
<1>4. CASE ServiceUp
  <2> USE <1>4 DEF ServiceUp, slotVars, workerVars
  <2>1. SlotTypes'
    BY DEF SlotTypes, DispatcherPoints
  <2>2. BootShape' /\ LoopShape' /\ WorkerShape'
    BY DEF BootShape, LoopShape, WorkerShape, Slots
  <2>3. Slots \subseteq SlotIdx /\ Slots' = Slots
    BY SlotRange DEF SlotTypes, Slots
  <2>4. \A s \in Slots : state'[s] = "FREE" /\ job_ready_sem'[s] = 0 /\ wpc'[s] \in {"none", "take"}
    BY <2>3 DEF BootShape
  <2>5. Running' = {} /\ Configuring' = {} /\ Owing' = {} /\ FreeSlots' = Slots
    BY <2>3, <2>4 DEF Running, Configuring, Owing, FreeSlots
  <2>6. SlotOwnership'
    BY <2>3, <2>4, <2>5 DEF SlotOwnership
  <2>7. SlotAccounting'
    <3>1. Cardinality(FreeSlots') = current_slot_count
      BY <2>5, SlotSetsFinite
    <3>2. Cardinality(Owing') = 0 /\ ~HoldsToken'
      BY <2>5, FS_EmptySet DEF HoldsToken
    <3> QED
      BY <3>1, <3>2 DEF SlotAccounting, BootShape, SlotTypes
  <2> QED
    BY <2>1, <2>2, <2>6, <2>7
<1> QED
  BY <1>1, <1>2, <1>3, <1>4 DEF Boot

-----------------------------------------------------------------------------
(* Dispatcher steps that neither touch a slot state nor a semaphore: the   *)
(* search, and the steps between the locking and the hand-over.            *)
SlotsUntouched ==
  UNCHANGED <<now, bootVars, state, last_used, job_ready_sem, free_slots_sem, wpc>>

LEMMA SlotSearch ==
  ASSUME SlotInv,
         GetJob \/ CacheScan \/ CacheMiss \/ LruScan \/ LruDone
           \/ StreamBitstream \/ LoadVerified \/ LoadFailed
  PROVE  SlotInv'
<1> USE DEF SlotInv
<1> DEFINE Search == CacheScan \/ CacheMiss \/ LruScan \/ LruDone
           Load   == StreamBitstream \/ LoadVerified \/ LoadFailed
<1>1. SlotsUntouched
  BY DEF SlotsUntouched, GetJob, CacheScan, CacheMiss, LruScan, LruDone,
     StreamBitstream, LoadVerified, LoadFailed, slotVars, workerVars
<1>2. Slots' = Slots /\ FreeSlots' = FreeSlots /\ Owing' = Owing /\ Running' = Running
  BY <1>1 DEF SlotsUntouched, bootVars, Slots, FreeSlots, Owing, Running
<1>3. Configuring' = Configuring
  <2>1. CASE GetJob \/ Search
    BY <2>1 DEF GetJob, CacheScan, CacheMiss, LruScan, LruDone, Configuring
  <2>2. CASE Load
    BY <2>2 DEF StreamBitstream, LoadVerified, LoadFailed, Configuring, scanVars
  <2> QED
    BY <2>1, <2>2
<1>4. dpc \notin {"detect", "exited", "setup", "give"}
      /\ dpc' \notin {"detect", "exited", "setup", "give"}
  BY DEF GetJob, CacheScan, CacheMiss, LruScan, LruDone, StreamBitstream,
     LoadVerified, LoadFailed
<1>5. HoldsToken' = HoldsToken
  BY DEF GetJob, CacheScan, CacheMiss, LruScan, LruDone, StreamBitstream,
     LoadVerified, LoadFailed, HoldsToken
<1>6. SlotOwnership' /\ SlotAccounting'
  BY <1>1, <1>2, <1>3, <1>4, <1>5 DEF SlotOwnership, SlotAccounting, SlotsUntouched
<1>7. BootShape' /\ WorkerShape'
  BY <1>1, <1>2, <1>4 DEF BootShape, WorkerShape, SlotsUntouched
<1>8. SlotTypes' /\ LoopShape'
  <2> USE <1>1, <1>2 DEF SlotsUntouched, bootVars, SlotTypes, LoopShape, DispatcherPoints
  <2>1. CASE GetJob
    BY <2>1 DEF GetJob, scanVars
  <2>2. CASE CacheScan
    <3>1. i \in Slots /\ i \in SlotIdx /\ i + 1 \in 0 .. current_slot_count
      BY <2>2, SlotRange DEF CacheScan, Slots
    <3>2. CASE CacheHit(i)
      BY <2>2, <3>1, <3>2 DEF CacheScan, CacheHit, FreeSlots
    <3>3. CASE ~CacheHit(i)
      BY <2>2, <3>1, <3>3 DEF CacheScan
    <3> QED
      BY <3>2, <3>3
  <2>3. CASE CacheMiss
    BY <2>3, SizeAssumption DEF CacheMiss, MaxStamp
  <2>4. CASE LruScan
    <3>1. i \in Slots /\ i \in SlotIdx /\ i + 1 \in 0 .. current_slot_count
      BY <2>4, SlotRange DEF LruScan, Slots
    <3>2. Stamp(last_used[i]) \in 0 .. MaxStamp
      BY <3>1, SizeAssumption DEF Stamp, MaxStamp
    <3>3. CASE IsOlderFree(i)
      BY <2>4, <3>1, <3>2, <3>3 DEF LruScan, IsOlderFree, FreeSlots
    <3>4. CASE ~IsOlderFree(i)
      BY <2>4, <3>1, <3>4 DEF LruScan
    <3> QED
      BY <3>3, <3>4
  <2>5. CASE LruDone
    BY <2>5, SizeAssumption DEF LruDone, MaxStamp
  <2>6. CASE StreamBitstream
    BY <2>6 DEF StreamBitstream, scanVars
  <2>7. CASE LoadVerified
    BY <2>7 DEF LoadVerified, scanVars
  <2>8. CASE LoadFailed
    BY <2>8 DEF LoadFailed
  <2> QED
    BY <2>1, <2>2, <2>3, <2>4, <2>5, <2>6, <2>7, <2>8
<1> QED
  BY <1>6, <1>7, <1>8

(* k_sem_take of free_slots_sem: the token moves to the dispatcher's hand. *)
LEMMA SlotToken ==
  ASSUME SlotInv, TakeFreeSlot
  PROVE  SlotInv'
<1> USE DEF SlotInv, TakeFreeSlot, bootVars, slotVars, workerVars
<1>1. Slots' = Slots /\ FreeSlots' = FreeSlots /\ Owing' = Owing /\ Running' = Running
      /\ Configuring' = {} /\ Configuring = {}
  BY DEF Slots, FreeSlots, Owing, Running, Configuring
<1>2. SlotTypes'
  <2>1. FreeSlots \subseteq SlotIdx
    BY SlotRange DEF SlotTypes, FreeSlots, Slots
  <2> QED
    BY <2>1 DEF SlotTypes, DispatcherPoints
<1>3. BootShape' /\ LoopShape' /\ WorkerShape'
  BY <1>1 DEF BootShape, LoopShape, WorkerShape
<1>4. SlotOwnership'
  BY <1>1 DEF SlotOwnership
<1>5. SlotAccounting'
  BY <1>1, SlotSetsFinite DEF SlotAccounting, HoldsToken, SlotTypes
<1> QED
  BY <1>2, <1>3, <1>4, <1>5

(* The token in the dispatcher's hand becomes a locked slot.               *)
LEMMA SlotLock ==
  ASSUME SlotInv, LockSlot
  PROVE  SlotInv'
<1> USE DEF SlotInv, LockSlot, bootVars
<1>1. /\ target_slot \in FreeSlots /\ target_slot \in Slots /\ target_slot \in SlotIdx
      /\ dpc = "lock" /\ dpc' \in {"load", "hand"} /\ target_slot' = target_slot
  BY DEF LoopShape, SlotTypes, Slots
<1>2. Slots' = Slots /\ Slots \subseteq SlotIdx /\ Owing' = Owing /\ Running' = Running
  BY SlotRange DEF Slots, SlotTypes, Owing, Running, workerVars
<1>3. FreeSlots' = FreeSlots \ {target_slot}
  BY <1>1, <1>2 DEF FreeSlots, SlotTypes
<1>4. Configuring = {} /\ Configuring' = {target_slot}
  BY <1>1 DEF Configuring
<1>5. SlotTypes'
  BY <1>1 DEF SlotTypes, DispatcherPoints, workerVars
<1>6. BootShape' /\ LoopShape' /\ WorkerShape'
  BY <1>1, <1>2 DEF BootShape, LoopShape, WorkerShape, workerVars
<1>7. SlotOwnership'
  BY <1>1, <1>2, <1>4 DEF SlotOwnership, FreeSlots, SlotTypes, workerVars
<1>8. SlotAccounting'
  <2>1. Cardinality(FreeSlots') = Cardinality(FreeSlots) - 1
    BY <1>1, <1>3, SlotSetsFinite, FS_RemoveElement
  <2> QED
    BY <2>1, <1>1, <1>2, SlotSetsFinite DEF SlotAccounting, HoldsToken, SlotTypes
<1> QED
  BY <1>5, <1>6, <1>7, <1>8

(* The hand-over: the slot turns BUSY, then its worker is woken.           *)
LEMMA SlotHand ==
  ASSUME SlotInv, HandJob \/ WakeWorker
  PROVE  SlotInv'
<1> USE DEF SlotInv, bootVars
<1>1. /\ target_slot \in Slots /\ target_slot \in SlotIdx
      /\ dpc \in {"hand", "give"} /\ dpc' \in {"give", "get"}
  BY DEF HandJob, WakeWorker, LoopShape, SlotTypes, Slots, SlotIdx
<1>2. Slots' = Slots /\ Slots \subseteq SlotIdx /\ Owing' = Owing /\ Running' = Running
  BY SlotRange DEF HandJob, WakeWorker, Slots, SlotTypes, Owing, Running, workerVars
<1>3. FreeSlots' = FreeSlots
  BY <1>1, <1>2 DEF HandJob, WakeWorker, FreeSlots, SlotTypes, SlotOwnership, Configuring
<1>4. SlotTypes'
  BY <1>1 DEF HandJob, WakeWorker, SlotTypes, DispatcherPoints, workerVars, scanVars, Give
<1>5. BootShape' /\ LoopShape' /\ WorkerShape'
  BY <1>1, <1>2 DEF HandJob, WakeWorker, BootShape, LoopShape, WorkerShape, workerVars,
     scanVars
<1>6. SlotOwnership'
  <2>1. CASE HandJob
    BY <2>1, <1>1, <1>2 DEF HandJob, SlotOwnership, Configuring, SlotTypes, workerVars,
       scanVars
  <2>2. CASE WakeWorker
    BY <2>2, <1>1, <1>2 DEF WakeWorker, SlotOwnership, Configuring, SlotTypes, Give,
       workerVars
  <2> QED
    BY <2>1, <2>2
<1>7. SlotAccounting'
  BY <1>1, <1>2, <1>3 DEF HandJob, WakeWorker, SlotAccounting, HoldsToken
<1> QED
  BY <1>4, <1>5, <1>6, <1>7

-----------------------------------------------------------------------------
(* A worker takes its job: job_ready_sem becomes a running worker.         *)
LEMMA SlotTakeJob ==
  ASSUME SlotInv, NEW s \in SlotIdx, TakeJob(s)
  PROVE  SlotInv'
<1> USE DEF SlotInv, TakeJob, bootVars, dispVars, scanVars
<1>1. /\ s \in Slots /\ Slots' = Slots /\ Slots \subseteq SlotIdx
      /\ job_ready_sem[s] = 1 /\ job_ready_sem'[s] = 0
      /\ dpc' = dpc /\ dpc \notin {"detect", "exited", "setup"}
  BY SlotRange DEF Slots, SlotTypes, WorkerShape, BootShape
<1>2. FreeSlots' = FreeSlots /\ Owing' = Owing /\ Configuring' = Configuring
  BY <1>1 DEF FreeSlots, Owing, Configuring, SlotTypes
<1>3. Running' = Running \cup {s}
  BY <1>1 DEF Running, SlotTypes
<1>4. SlotTypes'
  BY <1>1 DEF SlotTypes, WorkerPoints
<1>5. BootShape' /\ LoopShape' /\ WorkerShape'
  BY <1>1, <1>2 DEF BootShape, LoopShape, WorkerShape, SlotTypes
<1>6. SlotOwnership'
  BY <1>1, <1>2, <1>3 DEF SlotOwnership, SlotTypes
<1>7. SlotAccounting'
  BY <1>1, <1>2 DEF SlotAccounting, HoldsToken
<1> QED
  BY <1>4, <1>5, <1>6, <1>7

(* A running worker goes on to the next point of its run.                  *)
LEMMA SlotRun ==
  ASSUME SlotInv, NEW s \in SlotIdx,
         EnterCallback(s) \/ LeaveCallback(s) \/ NoCallback(s) \/ StampSlot(s)
  PROVE  SlotInv'
<1> USE DEF SlotInv
<1>1. /\ wpc[s] \in {"start", "hw", "sw", "stamp"}
      /\ \E to \in {"hw", "sw", "stamp", "free"} : wpc' = [wpc EXCEPT ![s] = to]
      /\ \/ last_used' = last_used
         \/ last_used' = [last_used EXCEPT ![s] = now]
      /\ UNCHANGED <<now, bootVars, state, job_ready_sem, free_slots_sem, dispVars>>
  BY DEF EnterCallback, LeaveCallback, NoCallback, StampSlot, WriteStatus, slotVars
<1> USE DEF bootVars, dispVars, scanVars
<1>2. s \in Slots /\ Slots' = Slots /\ Slots \subseteq SlotIdx
  BY <1>1, SlotRange DEF Slots, SlotTypes, WorkerShape
<1>3. FreeSlots' = FreeSlots /\ Configuring' = Configuring /\ HoldsToken' = HoldsToken
  BY <1>1, <1>2 DEF FreeSlots, Configuring, HoldsToken
<1>4. Owing' = Owing /\ Running' = Running
  BY <1>1, <1>2 DEF Owing, Running, SlotTypes
<1>5. SlotTypes'
  BY <1>1 DEF SlotTypes, WorkerPoints
<1>6. BootShape' /\ LoopShape' /\ WorkerShape'
  BY <1>1, <1>2, <1>3 DEF BootShape, LoopShape, WorkerShape, SlotTypes
<1>7. SlotOwnership' /\ SlotAccounting'
  BY <1>1, <1>2, <1>3, <1>4 DEF SlotOwnership, SlotAccounting
<1> QED
  BY <1>5, <1>6, <1>7

(* The slot becomes free, and its worker owes the token.                   *)
LEMMA SlotFree ==
  ASSUME SlotInv, NEW s \in SlotIdx, FreeSlot(s)
  PROVE  SlotInv'
<1> USE DEF SlotInv, FreeSlot, bootVars, dispVars, scanVars
<1>1. /\ s \in Slots /\ Slots' = Slots /\ Slots \subseteq SlotIdx
      /\ dpc' = dpc /\ dpc \notin {"detect", "exited", "setup"}
      /\ s \in Running
  BY SlotRange DEF Slots, SlotTypes, WorkerShape, BootShape, Running
<1>2. state[s] = "BUSY"
  BY <1>1 DEF SlotOwnership
<1>3. /\ FreeSlots' = FreeSlots \cup {s} /\ s \notin FreeSlots
      /\ Owing' = Owing \cup {s} /\ s \notin Owing
      /\ Running' = Running \ {s} /\ Configuring' = Configuring
  BY <1>1, <1>2 DEF FreeSlots, Owing, Running, Configuring, SlotTypes
<1>4. SlotTypes'
  BY DEF SlotTypes, WorkerPoints
<1>5. BootShape' /\ LoopShape' /\ WorkerShape'
  BY <1>1, <1>3 DEF BootShape, LoopShape, WorkerShape, SlotTypes
<1>6. SlotOwnership'
  BY <1>1, <1>2, <1>3 DEF SlotOwnership, SlotTypes
<1>7. SlotAccounting'
  <2>1. /\ Cardinality(FreeSlots') = Cardinality(FreeSlots) + 1
        /\ Cardinality(Owing') = Cardinality(Owing) + 1
    BY <1>3, SlotSetsFinite, FS_AddElement
  <2> QED
    BY <2>1, <1>1, SlotSetsFinite DEF SlotAccounting, HoldsToken, SlotTypes
<1> QED
  BY <1>4, <1>5, <1>6, <1>7

(* done_signal is no part of the slot layer; the token is still owed.      *)
LEMMA SlotSignal ==
  ASSUME SlotInv, NEW s \in SlotIdx, SignalDone(s)
  PROVE  SlotInv'
<1> USE DEF SlotInv, SignalDone, slotVars, bootVars, dispVars, scanVars
<1>1. /\ Slots' = Slots /\ FreeSlots' = FreeSlots /\ Owing' = Owing
      /\ Running' = Running /\ Configuring' = Configuring /\ HoldsToken' = HoldsToken
  BY DEF Slots, FreeSlots, Owing, Running, Configuring, HoldsToken, SlotTypes
<1>2. SlotTypes'
  BY DEF SlotTypes, WorkerPoints
<1>3. BootShape' /\ LoopShape' /\ WorkerShape'
  BY <1>1 DEF BootShape, LoopShape, WorkerShape, SlotTypes
<1>4. SlotOwnership' /\ SlotAccounting'
  BY <1>1 DEF SlotOwnership, SlotAccounting
<1> QED
  BY <1>2, <1>3, <1>4

(* The token comes back; the limit of the semaphore never swallows it.     *)
LEMMA SlotGive ==
  ASSUME SlotInv, NEW s \in SlotIdx, GiveSlot(s)
  PROVE  SlotInv'
<1> USE DEF SlotInv, GiveSlot, slotVars, bootVars, dispVars, scanVars
<1>1. /\ s \in Slots /\ Slots' = Slots /\ FreeSlots' = FreeSlots
      /\ Running' = Running /\ Configuring' = Configuring /\ HoldsToken' = HoldsToken
      /\ dpc' = dpc /\ dpc \notin {"detect", "exited", "setup"}
  BY DEF Slots, FreeSlots, Running, Configuring, HoldsToken, SlotTypes, WorkerShape, BootShape
<1>2. Owing' = Owing \ {s} /\ s \in Owing
  BY <1>1 DEF Owing, SlotTypes
<1>3. SlotTypes'
  BY DEF SlotTypes, WorkerPoints, Give
<1>4. BootShape' /\ LoopShape' /\ WorkerShape'
  BY <1>1 DEF BootShape, LoopShape, WorkerShape, SlotTypes
<1>5. SlotOwnership'
  BY <1>1 DEF SlotOwnership
<1>6. SlotAccounting'
  <2>1. Cardinality(Owing') = Cardinality(Owing) - 1
    BY <1>2, SlotSetsFinite, FS_RemoveElement
  <2>2. Cardinality(Owing) >= 1
    BY <1>2, SlotSetsFinite, FS_EmptySet
  <2>3. free_slots_sem < current_slot_count
    BY <2>2, <1>1, SlotSetsFinite DEF SlotAccounting, SlotTypes
  <2> QED
    BY <2>1, <2>3, <1>1, SlotSetsFinite DEF SlotAccounting, SlotTypes, Give
<1> QED
  BY <1>3, <1>4, <1>5, <1>6

-----------------------------------------------------------------------------
LEMMA SlotStep == SlotInv /\ [Next]_vars => SlotInv'
<1> SUFFICES ASSUME SlotInv, [Next]_vars PROVE SlotInv'
  OBVIOUS
<1>1. CASE Boot
  BY <1>1, SlotBoot
<1>2. CASE Dispatch
  BY <1>2, SlotSearch, SlotToken, SlotLock, SlotHand DEF Dispatch
<1>3. CASE Tick
  <2>0. now' \in 0 .. Horizon
    BY <1>3, SizeAssumption DEF Tick, SlotInv, SlotTypes
  <2>1. SlotTypes'
    BY <1>3, <2>0 DEF Tick, SlotInv, SlotTypes, bootVars, slotVars, dispVars, scanVars,
       workerVars
  <2>2. /\ Slots' = Slots /\ FreeSlots' = FreeSlots /\ Owing' = Owing
        /\ Running' = Running /\ Configuring' = Configuring /\ HoldsToken' = HoldsToken
    BY <1>3 DEF Tick, Slots, FreeSlots, Owing, Running, Configuring, HoldsToken, bootVars,
       slotVars, dispVars, scanVars, workerVars
  <2>3. BootShape' /\ LoopShape' /\ WorkerShape' /\ SlotOwnership' /\ SlotAccounting'
    BY <1>3, <2>2 DEF Tick, SlotInv, BootShape, LoopShape, WorkerShape, SlotOwnership,
       SlotAccounting, bootVars, slotVars, dispVars, scanVars, workerVars
  <2> QED
    BY <2>1, <2>3 DEF SlotInv
<1>4. ASSUME NEW c \in Clients, Client(c)
      PROVE  SlotInv'
  <2>1. UNCHANGED slotLayer
    BY <1>4 DEF Client, ExecuteRefused, Execute, ExecuteDone, Leave, slotLayer, bootVars,
       slotVars, dispVars, scanVars, workerVars
  <2> QED
    BY <2>1, SlotLayerStutter
<1>5. ASSUME NEW s \in SlotIdx, Worker(s)
      PROVE  SlotInv'
  BY <1>5, SlotTakeJob, SlotRun, SlotFree, SlotSignal, SlotGive DEF Worker
<1>6. CASE UNCHANGED vars
  <2>1. UNCHANGED slotLayer
    BY <1>6 DEF vars, slotLayer, bootVars, slotVars, dispVars, scanVars, workerVars
  <2> QED
    BY <2>1, SlotLayerStutter
<1> QED
  BY <1>1, <1>2, <1>3, <1>4, <1>5, <1>6 DEF Next

(* The slot layer is right in every reachable state.                       *)
THEOREM SlotLayer == Spec => []SlotInv
  BY SlotInit, SlotStep, PTL DEF Spec

(* The free slots are counted by free_slots_sem, the dispatcher's token    *)
(* and the workers that owe one; no give is lost (manager.c:121-127, 197). *)
THEOREM FreeSlotsAreCounted == Spec => []SlotAccounting
<1>1. SlotInv => SlotAccounting
  BY DEF SlotInv
<1> QED
  BY <1>1, SlotLayer, PTL

(* Dispatcher and worker never own a slot together, and job_ready_sem is   *)
(* given only to a worker that waits or will (manager.c:224-252, 90-121).  *)
THEOREM SlotsHaveOneOwner == Spec => []SlotOwnership
<1>1. SlotInv => SlotOwnership
  BY DEF SlotInv
<1> QED
  BY <1>1, SlotLayer, PTL

-----------------------------------------------------------------------------
(***************************************************************************)
(* A dispatcher that took a token finds a slot, as long as the 32-bit      *)
(* uptime stays below 0xFFFFFFFF, the initial value of oldest_time.        *)
(***************************************************************************)
ClockBelowMax == Horizon < MaxStamp

(* The LRU loop has a target, or a free slot is still ahead of it.         *)
SearchInv ==
  /\ TargetFound
  /\ dpc = "lru" /\ target_slot = -1 =>
       oldest_time = MaxStamp /\ \E f \in FreeSlots : f >= i

LEMMA StampIsExact ==
  ASSUME ClockBelowMax, NEW t \in 0 .. Horizon
  PROVE  Stamp(t) = t /\ t < MaxStamp
<1>1. TimeMod \in Nat \ {0} /\ Horizon \in Nat /\ t \in Nat /\ t < TimeMod
  BY SizeAssumption DEF ClockBelowMax, MaxStamp
<1>2. t % TimeMod = t
  BY <1>1
<1> QED
  BY <1>1, <1>2 DEF Stamp, ClockBelowMax, MaxStamp

LEMMA TokenMeansFree ==
  ASSUME SlotInv, TargetFound, HoldsToken
  PROVE  FreeSlots # {}
<1>1. Cardinality(FreeSlots) >= 1
  BY SlotSetsFinite DEF SlotInv, SlotAccounting, SlotTypes, HoldsToken, TargetFound
<1> QED
  BY <1>1, FS_EmptySet

LEMMA SearchStep ==
  ASSUME ClockBelowMax, SlotInv, SlotInv', SearchInv, [Next]_vars
  PROVE  SearchInv'
<1> USE DEF SearchInv, TargetFound
<1>1. ASSUME UNCHANGED <<dpc, target_slot, oldest_time, i, current_slot_count>>,
             \A s \in Slots : state[s] = "FREE" => state'[s] = "FREE"
      PROVE  SearchInv'
  BY <1>1 DEF FreeSlots, Slots
<1>2. ASSUME dpc' \notin {"lru", "lock"}
      PROVE  SearchInv'
  BY <1>2
<1>3. CASE Boot
  BY <1>3, <1>2 DEF Boot, DeviceNotReady, DetectHardware, SetupSlot, ServiceUp
<1>4. CASE Dispatch
  <2>1. CASE GetJob \/ TakeFreeSlot \/ LockSlot \/ StreamBitstream \/ LoadVerified
             \/ LoadFailed \/ HandJob \/ WakeWorker
    BY <2>1, <1>2 DEF GetJob, TakeFreeSlot, LockSlot, StreamBitstream, LoadVerified,
       LoadFailed, HandJob, WakeWorker
  <2>2. CASE CacheScan
    <3>1. i \in Slots /\ i # -1
      BY <2>2 DEF CacheScan, SlotInv, SlotTypes, Slots
    <3> QED
      BY <2>2, <3>1 DEF CacheScan
  <2>3. CASE CacheMiss
    <3>1. FreeSlots' = FreeSlots /\ FreeSlots # {}
      BY <2>3, TokenMeansFree DEF CacheMiss, HoldsToken, FreeSlots, Slots, bootVars, slotVars
    <3>2. PICK f \in FreeSlots : f >= 0
      BY <3>1 DEF FreeSlots, Slots, SlotInv, SlotTypes
    <3> QED
      BY <2>3, <3>1, <3>2 DEF CacheMiss
  <2>4. CASE LruScan
    <3>1. FreeSlots' = FreeSlots /\ dpc' = "lru" /\ i' = i + 1 /\ i \in Nat /\ i # -1
          /\ i \in Slots /\ i \in SlotIdx
      BY <2>4, SlotRange DEF LruScan, FreeSlots, Slots, bootVars, slotVars, SlotInv, SlotTypes
    <3>2. CASE IsOlderFree(i)
      BY <2>4, <3>1, <3>2 DEF LruScan
    <3>3. CASE ~IsOlderFree(i)
      <4> SUFFICES ASSUME target_slot' = -1
                   PROVE  oldest_time' = MaxStamp /\ \E f \in FreeSlots' : f >= i'
        BY <3>1
      <4>1. target_slot = -1 /\ oldest_time = MaxStamp /\ oldest_time' = MaxStamp
        BY <2>4, <3>3 DEF LruScan
      <4>2. PICK f \in FreeSlots : f >= i
        BY <2>4, <4>1 DEF LruScan
      <4>3. Stamp(last_used[i]) < MaxStamp
        BY <3>1, StampIsExact DEF SlotInv, SlotTypes
      <4>4. state[i] # "FREE"
        BY <3>3, <4>1, <4>3 DEF IsOlderFree
      <4>5. f \in Int /\ f # i
        BY <4>2, <4>4 DEF FreeSlots, Slots
      <4> QED
        BY <4>1, <4>2, <4>5, <3>1
    <3> QED
      BY <3>2, <3>3
  <2>5. CASE LruDone
    <3>1. target_slot # -1
      BY <2>5 DEF LruDone, FreeSlots, Slots, SlotInv, SlotTypes
    <3> QED
      BY <2>5, <3>1 DEF LruDone
  <2> QED
    BY <1>4, <2>1, <2>2, <2>3, <2>4, <2>5 DEF Dispatch
<1>5. CASE Tick \/ \E c \in Clients : Client(c)
  BY <1>5, <1>1 DEF Tick, Client, ExecuteRefused, Execute, ExecuteDone, Leave, bootVars,
     slotVars, dispVars, scanVars
<1>6. ASSUME NEW s \in SlotIdx, Worker(s)
      PROVE  SearchInv'
  <2>1. UNCHANGED <<dpc, target_slot, oldest_time, i, current_slot_count>>
    BY <1>6 DEF Worker, TakeJob, EnterCallback, LeaveCallback, NoCallback, WriteStatus,
       StampSlot, FreeSlot, SignalDone, GiveSlot, bootVars, dispVars, scanVars
  <2>2. state' = state \/ state' = [state EXCEPT ![s] = "FREE"]
    BY <1>6 DEF Worker, TakeJob, EnterCallback, LeaveCallback, NoCallback, WriteStatus,
       StampSlot, FreeSlot, SignalDone, GiveSlot, slotVars
  <2>3. \A t \in Slots : state[t] = "FREE" => state'[t] = "FREE"
    BY <2>2, SlotRange DEF SlotInv, SlotTypes, Slots
  <2> QED
    BY <2>1, <2>3, <1>1
<1>7. CASE UNCHANGED vars
  BY <1>7, <1>1 DEF vars, bootVars, slotVars, dispVars, scanVars
<1> QED
  BY <1>3, <1>4, <1>5, <1>6, <1>7 DEF Next

(* The dispatcher never writes to slots[-1] (manager.c:200-224).           *)
THEOREM DispatcherFindsSlot ==
  ASSUME ClockBelowMax
  PROVE  Spec => []TargetFound
<1>1. Init => SearchInv
  BY DEF Init, SearchInv, TargetFound
<1>2. SlotInv /\ SlotInv' /\ SearchInv /\ [Next]_vars => SearchInv'
  BY SearchStep
<1>3. SearchInv => TargetFound
  BY DEF SearchInv
<1> QED
  BY <1>1, <1>2, <1>3, SlotLayer, PTL DEF Spec
=============================================================================
