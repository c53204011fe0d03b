--------------------------- MODULE AccelJobProofs ---------------------------
(***************************************************************************)
(* Proofs about the jobs of the accelerator manager, on top of the slot    *)
(* layer of AccelManagerProofs: where a work item may be at each control   *)
(* point of the three kinds of threads, what was written to it by then,    *)
(* and whose bitstream is in the slot it runs on.                          *)
(*                                                                         *)
(* The invariant is built in layers, each inductive relative to the ones   *)
(* before it: JobShape (locals and slot fields that name a job), Places    *)
(* (a job has one holder), Progress (what the item holds), ConfigInv (what *)
(* the slots hold), and CandidateInv (the search for the best slot).       *)
(***************************************************************************)
EXTENDS AccelManagerProofs, SequenceTheorems

(* The dispatcher has a job from k_msgq_get until it is handed over.       *)
DispatcherJob ==
  dwork = NoJob <=> dpc \in {"detect", "exited", "setup", "get"}

(* current_job and the worker's local name a job exactly while they        *)
(* should: a slot whose worker is or will be woken has one, and a slot     *)
(* that is not BUSY has none.                                              *)
SlotJob ==
  \A s \in SlotIdx :
    /\ job_ready_sem[s] = 1 \/ (dpc = "give" /\ target_slot = s) => current_job[s] # NoJob
    /\ current_job[s] # NoJob => s \in Slots /\ state[s] = "BUSY" /\ wpc[s] # "free"
    /\ wwork[s] = NoJob <=> wpc[s] \in {"none", "take", "give"}

JobShape == JobTypes /\ DispatcherJob /\ SlotJob

LEMMA JobShapeInit == Init => JobShape
<1> SUFFICES ASSUME Init PROVE JobShape
  OBVIOUS
<1> USE DEF Init
<1>1. /\ current_job \in [SlotIdx -> Clients \cup {NoJob}]
      /\ wwork \in [SlotIdx -> Clients \cup {NoJob}]
  OBVIOUS
<1>2. load_err \in [SlotIdx -> {"OK", "EIO"}] /\ err \in {"OK", "EIO"}
  OBVIOUS
<1>3. accel_msgq \in Seq(Clients) /\ Len(accel_msgq) <= QueueLen /\ putters \in Seq(Clients)
  BY SizeAssumption
<1>4. dwork \in Clients \cup {NoJob}
  OBVIOUS
<1>5. cpc \in [Clients -> ClientPoints] /\ status \in [Clients -> Statuses]
  BY DEF ClientPoints, Statuses
<1>6. done_signal \in [Clients -> 0 .. 1] /\ runs \in [Clients -> Nat]
  OBVIOUS
<1>7. JobTypes
  BY <1>1, <1>2, <1>3, <1>4, <1>5, <1>6 DEF JobTypes
<1>8. DispatcherJob /\ SlotJob
  BY DEF DispatcherJob, SlotJob
<1> QED
  BY <1>7, <1>8 DEF JobShape

-----------------------------------------------------------------------------
(* Boot and the clock change nothing a job can see.                        *)
LEMMA JobShapeBoot ==
  ASSUME SlotInv, JobShape, Boot \/ Tick
  PROVE  JobShape'
<1> USE DEF JobShape, Boot, DeviceNotReady, DetectHardware, SetupSlot, ServiceUp, Tick
<1>1. UNCHANGED <<current_job, load_err, queueVars, dwork, err, wwork, clientVars>>
  BY DEF bootVars, slotVars, dispVars, scanVars, workerVars
<1>2. JobTypes'
  BY <1>1 DEF JobTypes, queueVars, clientVars, itemVars
<1>3. DispatcherJob'
  BY <1>1 DEF DispatcherJob, dispVars, scanVars
<1>4. SlotJob'
  <2>1. CASE Boot
    <3>1. /\ dpc \in {"detect", "exited", "setup"} /\ dpc' # "give"
          /\ \A s \in SlotIdx : current_job[s] = NoJob /\ job_ready_sem[s] = 0
               /\ wpc[s] \in {"none", "take"} /\ wwork[s] = NoJob
      BY <2>1 DEF SlotJob, SlotInv, BootShape, SlotTypes
    <3>2. \A s \in SlotIdx : job_ready_sem'[s] = 0 /\ wpc'[s] \in {"none", "take"}
      BY <2>1, <3>1 DEF slotVars, workerVars, SlotInv, SlotTypes
    <3> QED
      BY <1>1, <3>1, <3>2 DEF SlotJob
  <2>2. CASE Tick
    BY <2>2 DEF SlotJob, bootVars, slotVars, dispVars, scanVars, workerVars, Slots
  <2> QED
    BY <2>1, <2>2
<1> QED
  BY <1>2, <1>3, <1>4

LEMMA JobShapeClient ==
  ASSUME SlotInv, JobShape, NEW c \in Clients, Client(c)
  PROVE  JobShape'
<1> USE DEF JobShape
<1>1. UNCHANGED <<bootVars, slotVars, dispVars, workerVars>>
  BY DEF Client, ExecuteRefused, ExecuteDone, Leave, Execute
<1>2. DispatcherJob' /\ SlotJob'
  BY <1>1 DEF DispatcherJob, SlotJob, bootVars, slotVars, dispVars, scanVars, workerVars, Slots
<1>3. UNCHANGED <<current_job, load_err, dwork, err, wwork>>
  BY <1>1 DEF slotVars, dispVars, scanVars, workerVars
<1>4. /\ cpc' \in [Clients -> ClientPoints]
      /\ done_signal' \in [Clients -> 0 .. 1]
      /\ status' \in [Clients -> Statuses]
      /\ runs' \in [Clients -> Nat]
  <2> USE DEF JobTypes, ClientPoints, Statuses, CallbackResults
  <2>1. CASE ExecuteRefused(c)
    BY <2>1 DEF ExecuteRefused
  <2>2. CASE ExecuteDone(c)
    BY <2>2 DEF ExecuteDone
  <2>3. CASE Leave(c)
    BY <2>3 DEF Leave
  <2>4. ASSUME NEW p \in Packets, Execute(c, p)
        PROVE  /\ cpc' \in [Clients -> ClientPoints]
               /\ done_signal' \in [Clients -> 0 .. 1]
               /\ status' \in [Clients -> Statuses]
               /\ runs' \in [Clients -> Nat]
    <3>1. /\ \E to \in {"await", "putting"} : cpc' = [cpc EXCEPT ![c] = to]
          /\ done_signal' = [done_signal EXCEPT ![c] = 0]
          /\ status' = [status EXCEPT ![c] = "uninit"]
          /\ runs' = [runs EXCEPT ![c] = 0]
      BY <2>4 DEF Execute
    <3> QED
      BY <3>1
  <2> QED
    BY <2>1, <2>2, <2>3, <2>4 DEF Client
<1>5. /\ accel_msgq' \in Seq(Clients) /\ Len(accel_msgq') <= QueueLen
      /\ putters' \in Seq(Clients)
  <2>1. CASE UNCHANGED queueVars
    BY <2>1 DEF queueVars, JobTypes
  <2>2. CASE HasRoom /\ accel_msgq' = Append(accel_msgq, c) /\ UNCHANGED putters
    BY <2>2, AppendProperties, SizeAssumption, LenProperties DEF JobTypes, HasRoom
  <2>3. CASE putters' = Append(putters, c) /\ UNCHANGED accel_msgq
    BY <2>3, AppendProperties DEF JobTypes
  <2> QED
    BY <2>1, <2>2, <2>3 DEF Client, ExecuteRefused, ExecuteDone, Leave, Execute
<1>6. JobTypes'
  BY <1>3, <1>4, <1>5 DEF JobTypes
<1> QED
  BY <1>2, <1>6

(* k_msgq_get keeps the queue within its capacity: the blocked put only    *)
(* takes the place that opened.                                            *)
LEMMA JobShapeGetJob ==
  ASSUME SlotInv, JobShape, GetJob
  PROVE  JobShape'
<1> USE DEF JobShape
<1>1. UNCHANGED <<bootVars, slotVars, workerVars, itemVars, err>>
  BY DEF GetJob, scanVars
<1>2. accel_msgq \in Seq(Clients) /\ accel_msgq # <<>> /\ putters \in Seq(Clients)
      /\ Len(accel_msgq) <= QueueLen /\ QueueLen \in Nat
  BY SizeAssumption DEF GetJob, JobTypes
<1>3. /\ Head(accel_msgq) \in Clients /\ Tail(accel_msgq) \in Seq(Clients)
      /\ Len(Tail(accel_msgq)) = Len(accel_msgq) - 1 /\ Len(accel_msgq) \in Nat
  BY <1>2, HeadTailProperties, LenProperties
<1>4. /\ accel_msgq' \in Seq(Clients) /\ Len(accel_msgq') <= QueueLen
      /\ putters' \in Seq(Clients)
      /\ cpc' \in [Clients -> ClientPoints]
  <2>1. CASE putters = <<>>
    <3>1. accel_msgq' = Tail(accel_msgq) /\ putters' = putters /\ cpc' = cpc
      BY <2>1 DEF GetJob
    <3> QED
      BY <3>1, <1>2, <1>3 DEF JobTypes
  <2>2. CASE putters # <<>>
    <3>1. Head(putters) \in Clients /\ Tail(putters) \in Seq(Clients)
      BY <2>2, <1>2, HeadTailProperties
    <3>2. /\ accel_msgq' = Append(Tail(accel_msgq), Head(putters))
          /\ putters' = Tail(putters)
          /\ cpc' = [cpc EXCEPT ![Head(putters)] = "await"]
      BY <2>2 DEF GetJob
    <3>3. /\ accel_msgq' \in Seq(Clients)
          /\ Len(accel_msgq') = Len(Tail(accel_msgq)) + 1
      BY <1>3, <3>1, <3>2, AppendProperties
    <3>4. cpc' \in [Clients -> ClientPoints]
      BY <3>2 DEF JobTypes, ClientPoints
    <3> QED
      BY <1>2, <1>3, <3>1, <3>2, <3>3, <3>4
  <2> QED
    BY <2>1, <2>2
<1>5. JobTypes'
  <2>1. dwork' \in Clients
    BY <1>3 DEF GetJob
  <2> QED
    BY <1>1, <1>4, <2>1 DEF JobTypes, slotVars, workerVars, itemVars
<1>6. DispatcherJob'
  <2>1. dwork' \in Clients /\ dpc' = "sem"
    BY <1>3 DEF GetJob
  <2> QED
    BY <2>1, ClientAssumption DEF DispatcherJob
<1>7. SlotJob'
  <2>1. dpc # "give" /\ dpc' # "give"
    BY DEF GetJob
  <2> QED
    BY <1>1, <2>1 DEF SlotJob, slotVars, workerVars, bootVars, Slots
<1> QED
  BY <1>5, <1>6, <1>7

(* From the semaphore to the hand-over the dispatcher keeps its job.       *)
Searching ==
  \/ TakeFreeSlot \/ CacheScan \/ CacheMiss \/ LruScan \/ LruDone
  \/ LockSlot \/ StreamBitstream \/ LoadVerified \/ LoadFailed

HasJobPoints == {"sem", "hit", "lru", "lock", "load", "verify", "hand"}

LEMMA SearchingFrame ==
  ASSUME Searching
  PROVE  /\ UNCHANGED <<now, bootVars, queueVars, workerVars, clientVars, last_used,
                        current_job, load_err, job_ready_sem, dwork>>
         /\ dpc \in HasJobPoints /\ dpc' \in HasJobPoints
         /\ err' \in {err, "OK", "EIO"}
<1> USE DEF slotVars, scanVars, HasJobPoints
<1>1. CASE TakeFreeSlot
  BY <1>1 DEF TakeFreeSlot
<1>2. CASE CacheScan
  BY <1>2 DEF CacheScan
<1>3. CASE CacheMiss
  BY <1>3 DEF CacheMiss
<1>4. CASE LruScan
  BY <1>4 DEF LruScan
<1>5. CASE LruDone
  BY <1>5 DEF LruDone
<1>6. CASE LockSlot
  BY <1>6 DEF LockSlot
<1>7. CASE StreamBitstream
  BY <1>7 DEF StreamBitstream
<1>8. CASE LoadVerified
  BY <1>8 DEF LoadVerified
<1>9. CASE LoadFailed
  BY <1>9 DEF LoadFailed
<1> QED
  BY <1>1, <1>2, <1>3, <1>4, <1>5, <1>6, <1>7, <1>8, <1>9 DEF Searching

(* The slot the dispatcher locks was FREE; no other state changes.         *)
LEMMA SearchingKeepsBusy ==
  ASSUME SlotInv, Searching
  PROVE  \A s \in SlotIdx : state'[s] = "BUSY" <=> state[s] = "BUSY"
<1>1. CASE LockSlot
  <2>1. /\ target_slot \in SlotIdx /\ state[target_slot] = "FREE"
        /\ state' = [state EXCEPT ![target_slot] = "CONFIGURING"]
        /\ state \in [SlotIdx -> {"FREE", "CONFIGURING", "BUSY"}]
    BY <1>1, SizeAssumption DEF LockSlot, SlotInv, LoopShape, SlotTypes, FreeSlots, Slots
  <2> QED
    BY <2>1
<1>2. CASE ~LockSlot
  <2>1. state' = state
    BY <1>2 DEF Searching, TakeFreeSlot, CacheScan, CacheMiss, LruScan, LruDone,
       StreamBitstream, LoadVerified, LoadFailed, slotVars
  <2> QED
    BY <2>1
<1> QED
  BY <1>1, <1>2

LEMMA JobShapeSearching ==
  ASSUME SlotInv, JobShape, Searching
  PROVE  JobShape'
<1> USE SearchingFrame DEF JobShape
<1>1. JobTypes'
  <2>1. err' \in {"OK", "EIO"}
    BY DEF JobTypes
  <2> QED
    BY <2>1 DEF JobTypes, queueVars, workerVars, clientVars, itemVars
<1>2. DispatcherJob'
  BY DEF DispatcherJob, HasJobPoints
<1>3. SlotJob'
  <2>1. dpc # "give" /\ dpc' # "give" /\ Slots' = Slots
    BY DEF HasJobPoints, Slots, bootVars
  <2> QED
    BY <2>1, SearchingKeepsBusy DEF SlotJob, workerVars
<1> QED
  BY <1>1, <1>2, <1>3

(* current_job is set before the state says BUSY, and stays set until the  *)
(* worker cleared it.                                                      *)
LEMMA JobShapeHand ==
  ASSUME SlotInv, JobShape, HandJob \/ WakeWorker
  PROVE  JobShape'
<1> USE DEF JobShape
<1>1. /\ UNCHANGED <<bootVars, queueVars, workerVars, clientVars>>
      /\ target_slot \in SlotIdx /\ target_slot \in Slots /\ target_slot # -1
  BY SizeAssumption DEF HandJob, WakeWorker, SlotInv, LoopShape, SlotTypes, Slots, SlotIdx
<1>2. CASE HandJob
  <2>1. /\ dwork \in Clients /\ dwork # NoJob /\ dwork' = dwork /\ err' = err
        /\ dpc = "hand" /\ dpc' = "give" /\ target_slot' = target_slot
        /\ current_job' = [current_job EXCEPT ![target_slot] = dwork]
        /\ load_err' = [load_err EXCEPT ![target_slot] = err]
        /\ state' = [state EXCEPT ![target_slot] = "BUSY"]
        /\ job_ready_sem' = job_ready_sem
    BY <1>2 DEF HandJob, DispatcherJob, JobTypes, scanVars
  <2>2. JobTypes'
    BY <1>1, <2>1 DEF JobTypes, queueVars, workerVars, clientVars, itemVars
  <2>3. DispatcherJob'
    BY <2>1 DEF DispatcherJob
  <2>4. state[target_slot] = "CONFIGURING" /\ target_slot \notin Running
    BY <1>1, <2>1 DEF SlotInv, SlotOwnership, Configuring
  <2>5. SlotJob'
    <3>1. wpc[target_slot] # "free"
      BY <1>1, <2>4 DEF Running
    <3>2. Slots' = Slots /\ wpc' = wpc /\ wwork' = wwork
      BY <1>1 DEF Slots, bootVars, workerVars
    <3> QED
      BY <1>1, <2>1, <3>1, <3>2 DEF SlotJob, SlotInv, SlotTypes, JobTypes
  <2> QED
    BY <2>2, <2>3, <2>5
<1>3. CASE WakeWorker
  <2>1. /\ dwork' = NoJob /\ err' = "OK" /\ dpc = "give" /\ dpc' = "get"
        /\ target_slot' = -1
        /\ UNCHANGED <<current_job, load_err, state>>
        /\ job_ready_sem' = [job_ready_sem EXCEPT ![target_slot] = Give(@, 1)]
    BY <1>3 DEF WakeWorker
  <2>2. JobTypes'
    BY <1>1, <2>1 DEF JobTypes, queueVars, workerVars, clientVars, itemVars
  <2>3. DispatcherJob'
    BY <2>1 DEF DispatcherJob
  <2>4. SlotJob'
    BY <1>1, <2>1 DEF SlotJob, SlotInv, SlotTypes, JobTypes, Slots, bootVars, workerVars
  <2> QED
    BY <2>2, <2>3, <2>4
<1> QED
  BY <1>2, <1>3

-----------------------------------------------------------------------------
LEMMA JobShapeWorker ==
  ASSUME SlotInv, JobShape, NEW s \in SlotIdx, Worker(s)
  PROVE  JobShape'
<1> USE DEF JobShape
<1>1. UNCHANGED <<bootVars, queueVars, dispVars, load_err, cpc, packet>>
  BY DEF Worker, TakeJob, EnterCallback, LeaveCallback, NoCallback, WriteStatus, StampSlot,
     FreeSlot, SignalDone, GiveSlot, slotVars, clientVars, itemVars
<1>2. DispatcherJob'
  BY <1>1 DEF DispatcherJob, dispVars, scanVars
<1>3. JobTypes'
  <2>1. current_job' \in [SlotIdx -> Clients \cup {NoJob}]
    BY DEF Worker, TakeJob, EnterCallback, LeaveCallback, NoCallback, WriteStatus,
       StampSlot, FreeSlot, SignalDone, GiveSlot, slotVars, JobTypes
  <2>2. wwork' \in [SlotIdx -> Clients \cup {NoJob}]
    BY DEF Worker, TakeJob, EnterCallback, LeaveCallback, NoCallback, WriteStatus,
       StampSlot, FreeSlot, SignalDone, GiveSlot, JobTypes
  <2>3. done_signal' \in [Clients -> 0 .. 1]
    <3>1. CASE SignalDone(s)
      <4>1. done_signal' = [done_signal EXCEPT ![wwork[s]] = Give(@, 1)]
        BY <3>1 DEF SignalDone
      <4>2. wwork[s] \in Clients
        BY <3>1 DEF SignalDone, SlotJob, JobTypes
      <4>3. Give(done_signal[wwork[s]], 1) \in 0 .. 1
        BY <4>2 DEF JobTypes, Give
      <4> QED
        BY <4>1, <4>3 DEF JobTypes
    <3>2. CASE ~SignalDone(s)
      <4>1. done_signal' = done_signal
        BY <3>2 DEF Worker, TakeJob, EnterCallback, LeaveCallback, NoCallback, WriteStatus,
           StampSlot, FreeSlot, GiveSlot, clientVars, itemVars
      <4> QED
        BY <4>1 DEF JobTypes
    <3> QED
      BY <3>1, <3>2
  <2>4. status' \in [Clients -> Statuses] /\ runs' \in [Clients -> Nat]
    <3>1. CASE LeaveCallback(s) \/ NoCallback(s)
      <4>1. PICK result \in CallbackResults \cup {"ENOSYS"} : WriteStatus(s, result)
        BY <3>1 DEF LeaveCallback, NoCallback
      <4>2. /\ status' = [status EXCEPT ![wwork[s]] = result] /\ result \in Statuses
            /\ runs' = [runs EXCEPT ![wwork[s]] = @ + 1]
        BY <4>1 DEF WriteStatus, Statuses
      <4>3. status' \in [Clients -> Statuses]
        BY <4>2 DEF JobTypes
      <4>4. wwork[s] \in Clients
        BY <3>1 DEF LeaveCallback, NoCallback, SlotJob, JobTypes
      <4>5. runs[wwork[s]] + 1 \in Nat
        BY <4>4 DEF JobTypes
      <4>6. runs' \in [Clients -> Nat]
        BY <4>2, <4>5 DEF JobTypes
      <4> QED
        BY <4>3, <4>6
    <3>2. CASE ~(LeaveCallback(s) \/ NoCallback(s))
      BY <3>2 DEF Worker, TakeJob, EnterCallback, StampSlot, FreeSlot, SignalDone, GiveSlot,
         JobTypes, clientVars, itemVars
    <3> QED
      BY <3>1, <3>2
  <2> QED
    BY <1>1, <2>1, <2>2, <2>3, <2>4 DEF JobTypes, queueVars, dispVars, scanVars
<1>4. SlotJob'
  <2>1. /\ dpc' = dpc /\ target_slot' = target_slot /\ Slots' = Slots
        /\ \A t \in SlotIdx \ {s} :
             /\ UNCHANGED <<job_ready_sem[t], current_job[t], state[t]>>
             /\ UNCHANGED <<wpc[t], wwork[t]>>
    <3>1. dpc' = dpc /\ target_slot' = target_slot /\ Slots' = Slots
      BY <1>1 DEF Slots, bootVars, dispVars, scanVars
    <3> QED
      BY <3>1 DEF Worker, TakeJob, EnterCallback, LeaveCallback, NoCallback, WriteStatus,
         StampSlot, FreeSlot, SignalDone, GiveSlot, slotVars, SlotInv, SlotTypes, JobTypes
  <2> DEFINE At(t) ==
        /\ job_ready_sem[t] = 1 \/ (dpc = "give" /\ target_slot = t) => current_job[t] # NoJob
        /\ current_job[t] # NoJob => t \in Slots /\ state[t] = "BUSY" /\ wpc[t] # "free"
        /\ wwork[t] = NoJob <=> wpc[t] \in {"none", "take", "give"}
  <2>2. \A t \in SlotIdx \ {s} : At(t)'
    BY <2>1 DEF SlotJob
  <2>3. At(s)'
    <3>1. CASE TakeJob(s)
      BY <3>1, <2>1 DEF TakeJob, SlotJob, SlotInv, SlotTypes, JobTypes
    <3>2. CASE EnterCallback(s)
      BY <3>2, <2>1 DEF EnterCallback, SlotJob, SlotInv, SlotTypes, slotVars
    <3>3. CASE LeaveCallback(s) \/ NoCallback(s)
      BY <3>3, <2>1 DEF LeaveCallback, NoCallback, WriteStatus, SlotJob, SlotInv, SlotTypes,
         slotVars
    <3>4. CASE StampSlot(s)
      <4>1. s \in Running
        BY <3>4 DEF StampSlot, Running, SlotInv, WorkerShape
      <4>2. job_ready_sem[s] = 0 /\ ~(dpc = "give" /\ target_slot = s)
        BY <4>1 DEF SlotInv, SlotOwnership
      <4>3. /\ job_ready_sem' = job_ready_sem /\ wwork' = wwork
            /\ current_job'[s] = NoJob /\ wpc[s] = "stamp" /\ wpc'[s] = "free"
        BY <3>4 DEF StampSlot, SlotInv, SlotTypes, JobTypes
      <4>4. wwork[s] # NoJob
        BY <4>3 DEF SlotJob
      <4> QED
        BY <4>2, <4>3, <4>4, <2>1
    <3>5. CASE FreeSlot(s)
      BY <3>5, <2>1 DEF FreeSlot, SlotJob, SlotInv, SlotTypes
    <3>6. CASE SignalDone(s)
      BY <3>6, <2>1 DEF SignalDone, SlotJob, SlotInv, SlotTypes, JobTypes, slotVars
    <3>7. CASE GiveSlot(s)
      BY <3>7, <2>1 DEF GiveSlot, SlotJob, SlotInv, SlotTypes, slotVars
    <3> QED
      BY <3>1, <3>2, <3>3, <3>4, <3>5, <3>6, <3>7 DEF Worker
  <2> QED
    BY <2>2, <2>3 DEF SlotJob
<1> QED
  BY <1>2, <1>3, <1>4

LEMMA JobShapeStep ==
  ASSUME SlotInv, JobShape, [Next]_vars
  PROVE  JobShape'
<1>1. CASE Dispatch
  BY <1>1, JobShapeGetJob, JobShapeSearching, JobShapeHand DEF Dispatch, Searching
<1>2. CASE UNCHANGED vars
  BY <1>2 DEF vars, bootVars, slotVars, queueVars, dispVars, scanVars, workerVars, clientVars,
     itemVars, JobShape, JobTypes, DispatcherJob, SlotJob, Slots
<1> QED
  BY <1>1, <1>2, JobShapeBoot, JobShapeClient, JobShapeWorker DEF Next

-----------------------------------------------------------------------------
(***************************************************************************)
(* Where a work item is.  What each step does to the holders of the items  *)
(* is stated once here, and the layers above only look at these lemmas.    *)
(***************************************************************************)

InSequence(q, x) == \E k \in 1 .. Len(q) : q[k] = x
Distinct(q) == \A j, k \in 1 .. Len(q) : q[j] = q[k] => j = k

(* Appending a new element keeps a sequence free of repetition.            *)
LEMMA DistinctAppend ==
  ASSUME NEW S, NEW q \in Seq(S), NEW e \in S
  PROVE  /\ \A x : InSequence(Append(q, e), x) <=> InSequence(q, x) \/ x = e
         /\ Distinct(q) /\ ~InSequence(q, e) => Distinct(Append(q, e))
<1>1. /\ Len(Append(q, e)) = Len(q) + 1 /\ Len(q) \in Nat
      /\ \A k \in 1 .. Len(q) : Append(q, e)[k] = q[k]
      /\ Append(q, e)[Len(q) + 1] = e
  BY AppendProperties, LenProperties
<1> DEFINE r == Append(q, e)
<1> HIDE DEF r
<1>2. /\ Len(r) = Len(q) + 1
      /\ \A k \in 1 .. Len(q) : r[k] = q[k]
      /\ r[Len(q) + 1] = e
  BY <1>1 DEF r
<1>3. \A k \in 1 .. Len(r) : k \in 1 .. Len(q) \/ k = Len(q) + 1
  BY <1>1, <1>2
<1>4. \A x : InSequence(r, x) <=> InSequence(q, x) \/ x = e
  BY <1>1, <1>2, <1>3 DEF InSequence
<1>5. Distinct(q) /\ ~InSequence(q, e) => Distinct(r)
  BY <1>1, <1>2, <1>3 DEF Distinct, InSequence
<1> QED
  BY <1>4, <1>5 DEF r

(* Taking the head of a sequence without repetition removes that element.  *)
LEMMA DistinctTail ==
  ASSUME NEW S, NEW q \in Seq(S), q # <<>>, Distinct(q)
  PROVE  /\ InSequence(q, Head(q)) /\ Distinct(Tail(q))
         /\ \A x : InSequence(Tail(q), x) <=> InSequence(q, x) /\ x # Head(q)
<1>1. /\ Len(Tail(q)) = Len(q) - 1 /\ Len(q) \in Nat /\ Len(q) >= 1
      /\ \A k \in 1 .. Len(Tail(q)) : Tail(q)[k] = q[k + 1]
  BY HeadTailProperties, EmptySeq, LenProperties
<1>2. Head(q) = q[1]
  OBVIOUS
<1> DEFINE r == Tail(q)
<1> HIDE DEF r
<1>3. /\ Len(r) = Len(q) - 1
      /\ \A k \in 1 .. Len(r) : r[k] = q[k + 1] /\ k + 1 \in 1 .. Len(q) /\ k + 1 # 1
      /\ \A k \in 1 .. Len(q) : k = 1 \/ (k - 1 \in 1 .. Len(r) /\ q[k] = r[k - 1])
  BY <1>1 DEF r
<1>4. InSequence(q, q[1])
  BY <1>1 DEF InSequence
<1>5. Distinct(r)
  <2> SUFFICES ASSUME NEW j \in 1 .. Len(r), NEW k \in 1 .. Len(r), r[j] = r[k]
               PROVE  j = k
    BY DEF Distinct
  <2>1. q[j + 1] = q[k + 1] /\ j + 1 \in 1 .. Len(q) /\ k + 1 \in 1 .. Len(q)
    BY <1>3
  <2> QED
    BY <2>1 DEF Distinct
<1>6. ASSUME NEW x
      PROVE  InSequence(r, x) <=> InSequence(q, x) /\ x # q[1]
  <2>1. ASSUME InSequence(r, x)
        PROVE  InSequence(q, x) /\ x # q[1]
    <3>1. PICK k \in 1 .. Len(r) : r[k] = x
      BY <2>1 DEF InSequence
    <3>2. q[k + 1] = x /\ k + 1 \in 1 .. Len(q) /\ k + 1 # 1 /\ 1 \in 1 .. Len(q)
      BY <1>1, <1>3, <3>1
    <3> QED
      BY <3>2 DEF InSequence, Distinct
  <2>2. ASSUME InSequence(q, x), x # q[1]
        PROVE  InSequence(r, x)
    <3>1. PICK k \in 1 .. Len(q) : q[k] = x
      BY <2>2 DEF InSequence
    <3>2. k - 1 \in 1 .. Len(r) /\ r[k - 1] = x
      BY <1>3, <2>2, <3>1
    <3> QED
      BY <3>2 DEF InSequence
  <2> QED
    BY <2>1, <2>2
<1> QED
  BY <1>2, <1>4, <1>5, <1>6 DEF r

-----------------------------------------------------------------------------
(* No item changes hands among the dispatcher, the slots and the workers.  *)
HoldersKept ==
  \A c \in Clients :
    /\ InDispatcher(c)' <=> InDispatcher(c)
    /\ \A s \in SlotIdx : (InSlot(c, s)' <=> InSlot(c, s)) /\ (InWorker(c, s)' <=> InWorker(c, s))

(* The same, and nothing enters or leaves the queue.                       *)
PlacesKept == HoldersKept /\ UNCHANGED queueVars

(* Only the dispatcher before it has a job, or after it handed it over.    *)
LEMMA IdleDispatcher ==
  ASSUME SlotInv, JobShape, NEW c \in Clients
  PROVE  InDispatcher(c) <=> dwork = c /\ dpc \in HasJobPoints
<1>1. c # NoJob
  BY ClientAssumption
<1>2. dwork = c => dpc \notin {"detect", "exited", "setup", "get"}
  BY <1>1 DEF JobShape, DispatcherJob
<1> QED
  BY <1>2 DEF InDispatcher, HasJobPoints, SlotInv, SlotTypes, DispatcherPoints

(* A slot that holds an item for its worker is BUSY and not running yet.   *)
LEMMA SlotHolds ==
  ASSUME SlotInv, JobShape, NEW c \in Clients, NEW s \in SlotIdx, InSlot(c, s)
  PROVE  /\ s \in Slots /\ s \notin Running /\ state[s] = "BUSY" /\ current_job[s] = c
         /\ job_ready_sem[s] = 1 \/ (dpc = "give" /\ target_slot = s)
<1>1. c # NoJob /\ s \notin Running /\ current_job[s] = c
  BY ClientAssumption DEF InSlot
<1>2. s \in Slots /\ state[s] = "BUSY"
  BY <1>1 DEF JobShape, SlotJob
<1> QED
  BY <1>1, <1>2 DEF SlotInv, SlotOwnership

(* A worker holds its item from the wake-up to done_signal.                *)
LEMMA WorkerHolds ==
  ASSUME SlotInv, JobShape, NEW c \in Clients, NEW s \in SlotIdx, InWorker(c, s)
  PROVE  wpc[s] \in {"start", "hw", "sw", "stamp", "free", "signal"}
<1>1. wwork[s] # NoJob
  BY ClientAssumption DEF InWorker
<1>2. wpc[s] \notin {"none", "take", "give"}
  BY <1>1 DEF JobShape, SlotJob
<1> QED
  BY <1>2 DEF SlotInv, SlotTypes, WorkerPoints

LEMMA ClientHolders ==
  ASSUME NEW c \in Clients, Client(c)
  PROVE  HoldersKept
<1>1. UNCHANGED <<bootVars, slotVars, dispVars, workerVars>>
  BY DEF Client, ExecuteRefused, ExecuteDone, Leave, Execute
<1>2. Running' = Running
  BY <1>1 DEF Running, Slots, bootVars, workerVars
<1> QED
  BY <1>1, <1>2 DEF HoldersKept, InDispatcher, InSlot, InWorker, slotVars, dispVars, workerVars

LEMMA BootHolders ==
  ASSUME SlotInv, JobShape, Boot
  PROVE  PlacesKept /\ dpc \notin HasJobPoints /\ dpc' \notin HasJobPoints
<1> USE DEF Boot, DeviceNotReady, DetectHardware, SetupSlot, ServiceUp
<1>1. UNCHANGED <<current_job, queueVars, dwork, wwork>>
  BY DEF slotVars, workerVars
<1>2. dpc \in {"detect", "exited", "setup"} /\ dpc' # "give" /\ dpc # "give"
      /\ dpc' \notin HasJobPoints
  BY DEF HasJobPoints
<1>3. \A s \in SlotIdx : current_job[s] = NoJob
  BY <1>2 DEF SlotInv, BootShape, JobShape, SlotJob
<1> QED
  BY <1>1, <1>2, <1>3, ClientAssumption
     DEF PlacesKept, HoldersKept, InDispatcher, InSlot, InWorker, HasJobPoints

LEMMA GetJobHolders ==
  ASSUME SlotInv, JobShape, GetJob
  PROVE  \A c \in Clients :
           /\ ~InDispatcher(c)
           /\ InDispatcher(c)' <=> c = Head(accel_msgq)
           /\ \A s \in SlotIdx :
                (InSlot(c, s)' <=> InSlot(c, s)) /\ (InWorker(c, s)' <=> InWorker(c, s))
<1>1. /\ UNCHANGED <<bootVars, slotVars, workerVars>>
      /\ dpc = "get" /\ dpc' = "sem" /\ dwork' = Head(accel_msgq)
  BY DEF GetJob
<1>2. Running' = Running
  BY <1>1 DEF Running, Slots, bootVars, workerVars
<1>3. dwork = NoJob
  BY <1>1 DEF JobShape, DispatcherJob
<1> QED
  BY <1>1, <1>2, <1>3, ClientAssumption
     DEF InDispatcher, InSlot, InWorker, slotVars, workerVars

LEMMA SearchingHolders ==
  ASSUME Searching
  PROVE  PlacesKept
<1>1. /\ UNCHANGED <<bootVars, queueVars, workerVars, current_job, dwork>>
      /\ dpc # "give" /\ dpc' # "give"
  BY SearchingFrame DEF HasJobPoints
<1>2. Running' = Running
  BY <1>1 DEF Running, Slots, bootVars, workerVars
<1> QED
  BY <1>1, <1>2 DEF PlacesKept, HoldersKept, InDispatcher, InSlot, InWorker, workerVars

(* The dispatcher's item becomes the slot's.                               *)
LEMMA HandJobHolders ==
  ASSUME SlotInv, JobShape, HandJob
  PROVE  /\ UNCHANGED queueVars /\ dwork \in Clients /\ target_slot \in SlotIdx
         /\ \A c \in Clients :
              /\ InDispatcher(c) <=> c = dwork
              /\ ~InDispatcher(c)'
              /\ \A s \in SlotIdx :
                   /\ InSlot(c, s)' <=> InSlot(c, s) \/ (c = dwork /\ s = target_slot)
                   /\ InWorker(c, s)' <=> InWorker(c, s)
<1>1. /\ UNCHANGED <<bootVars, queueVars, workerVars, dwork, target_slot>>
      /\ dpc = "hand" /\ dpc' = "give"
      /\ current_job' = [current_job EXCEPT ![target_slot] = dwork]
  BY DEF HandJob, scanVars
<1>2. target_slot \in Slots /\ target_slot \in SlotIdx /\ dwork \in Clients
  BY <1>1, SizeAssumption DEF SlotInv, LoopShape, SlotTypes, Slots, SlotIdx, JobShape,
     DispatcherJob, JobTypes
<1>3. state[target_slot] = "CONFIGURING" /\ target_slot \notin Running
  BY <1>1, <1>2 DEF SlotInv, SlotOwnership, Configuring
<1>4. current_job[target_slot] = NoJob
  BY <1>2, <1>3 DEF JobShape, SlotJob
<1>5. Running' = Running
  BY <1>1 DEF Running, Slots, bootVars, workerVars
<1>6. ASSUME NEW c \in Clients, NEW s \in SlotIdx
      PROVE  InSlot(c, s)' <=> InSlot(c, s) \/ (c = dwork /\ s = target_slot)
  <2>1. c # NoJob /\ current_job \in [SlotIdx -> Clients \cup {NoJob}]
    BY ClientAssumption DEF JobShape, JobTypes
  <2> QED
    BY <2>1, <1>1, <1>2, <1>3, <1>4, <1>5 DEF InSlot
<1>7. ASSUME NEW c \in Clients
      PROVE  (InDispatcher(c) <=> c = dwork) /\ ~InDispatcher(c)'
  BY <1>1 DEF InDispatcher
<1>8. ASSUME NEW c \in Clients, NEW s \in SlotIdx
      PROVE  InWorker(c, s)' <=> InWorker(c, s)
  BY <1>1 DEF InWorker, workerVars
<1> QED
  BY <1>1, <1>2, <1>6, <1>7, <1>8

LEMMA WakeWorkerHolders ==
  ASSUME JobShape, WakeWorker
  PROVE  PlacesKept
<1>1. /\ UNCHANGED <<bootVars, queueVars, workerVars, current_job>>
      /\ dpc = "give" /\ dpc' = "get" /\ dwork' = NoJob
  BY DEF WakeWorker
<1>2. Running' = Running
  BY <1>1 DEF Running, Slots, bootVars, workerVars
<1> QED
  BY <1>1, <1>2, ClientAssumption
     DEF PlacesKept, HoldersKept, InDispatcher, InSlot, InWorker, workerVars

(* The slot's item becomes its worker's.                                   *)
LEMMA TakeJobHolders ==
  ASSUME SlotInv, JobShape, NEW s \in SlotIdx, TakeJob(s)
  PROVE  /\ UNCHANGED queueVars
         /\ \A c \in Clients :
              /\ InDispatcher(c)' <=> InDispatcher(c)
              /\ ~InWorker(c, s) /\ ~InSlot(c, s)'
              /\ InWorker(c, s)' <=> InSlot(c, s)
              /\ \A t \in SlotIdx \ {s} :
                   (InSlot(c, t)' <=> InSlot(c, t)) /\ (InWorker(c, t)' <=> InWorker(c, t))
<1>1. /\ UNCHANGED <<bootVars, queueVars, dispVars, current_job>>
      /\ wpc[s] = "take" /\ job_ready_sem[s] = 1
      /\ wwork' = [wwork EXCEPT ![s] = current_job[s]]
      /\ wpc' = [wpc EXCEPT ![s] = "start"]
      /\ wwork \in [SlotIdx -> Clients \cup {NoJob}] /\ wpc \in [SlotIdx -> WorkerPoints]
  BY DEF TakeJob, SlotInv, SlotTypes, JobShape, JobTypes
<1>2. s \in Slots /\ s \notin Running /\ wwork[s] = NoJob
  BY <1>1 DEF SlotInv, WorkerShape, SlotOwnership, JobShape, SlotJob
<1>3. Slots' = Slots /\ Slots \subseteq SlotIdx
  BY <1>1, SlotRange DEF Slots, bootVars, SlotInv, SlotTypes
<1>4. s \in Running' /\ \A t \in SlotIdx \ {s} : t \in Running' <=> t \in Running
  BY <1>1, <1>2, <1>3 DEF Running
<1>5. ASSUME NEW c \in Clients
      PROVE  /\ InDispatcher(c)' <=> InDispatcher(c)
             /\ ~InWorker(c, s) /\ ~InSlot(c, s)'
             /\ InWorker(c, s)' <=> InSlot(c, s)
  BY <1>1, <1>2, <1>4, ClientAssumption DEF InDispatcher, InWorker, InSlot, dispVars
<1>6. ASSUME NEW c \in Clients, NEW t \in SlotIdx \ {s}
      PROVE  (InSlot(c, t)' <=> InSlot(c, t)) /\ (InWorker(c, t)' <=> InWorker(c, t))
  BY <1>1, <1>4 DEF InWorker, InSlot
<1> QED
  BY <1>1, <1>5, <1>6

(* A worker that runs, stamps, frees its slot or gives its token keeps     *)
(* what it has.                                                            *)
RunStep(s) ==
  \/ EnterCallback(s) \/ LeaveCallback(s) \/ NoCallback(s)
  \/ StampSlot(s) \/ FreeSlot(s) \/ GiveSlot(s)

LEMMA RunHolders ==
  ASSUME SlotInv, JobShape, NEW s \in SlotIdx, RunStep(s)
  PROVE  PlacesKept
<1>1. /\ UNCHANGED <<bootVars, queueVars, dispVars, wwork>>
      /\ \E to \in WorkerPoints : wpc' = [wpc EXCEPT ![s] = to]
      /\ wpc \in [SlotIdx -> WorkerPoints]
  BY DEF RunStep, EnterCallback, LeaveCallback, NoCallback, WriteStatus, StampSlot, FreeSlot,
     GiveSlot, SlotInv, SlotTypes, WorkerPoints
<1>2. Slots' = Slots /\ Slots \subseteq SlotIdx
  BY <1>1, SlotRange DEF Slots, bootVars, SlotInv, SlotTypes
<1>3. \A t \in SlotIdx \ {s} : (t \in Running' <=> t \in Running) /\ current_job'[t] = current_job[t]
  <2>1. \A t \in SlotIdx \ {s} : wpc'[t] = wpc[t]
    BY <1>1
  <2>2. \A t \in SlotIdx \ {s} : current_job'[t] = current_job[t]
    BY DEF RunStep, EnterCallback, LeaveCallback, NoCallback, WriteStatus, StampSlot,
       FreeSlot, GiveSlot, slotVars, JobShape, JobTypes
  <2> QED
    BY <1>2, <2>1, <2>2 DEF Running
<1>4. ASSUME NEW c \in Clients
      PROVE  InSlot(c, s)' <=> InSlot(c, s)
  <2>1. CASE FreeSlot(s)
    <3>1. current_job[s] = NoJob /\ current_job' = current_job
      BY <2>1 DEF FreeSlot, JobShape, SlotJob, JobTypes
    <3> QED
      BY <3>1, ClientAssumption DEF InSlot
  <2>2. CASE GiveSlot(s)
    <3>1. s \notin Running /\ s \notin Running' /\ current_job' = current_job
      BY <2>2 DEF GiveSlot, Running, slotVars, SlotInv, SlotTypes
    <3> QED
      BY <3>1 DEF InSlot
  <2>3. CASE EnterCallback(s) \/ LeaveCallback(s) \/ NoCallback(s) \/ StampSlot(s)
    <3>1. s \in Slots /\ wpc[s] \in {"start", "hw", "sw", "stamp"}
          /\ wpc'[s] \in {"hw", "sw", "stamp", "free"}
      BY <2>3 DEF EnterCallback, LeaveCallback, NoCallback, WriteStatus, StampSlot, SlotInv,
         SlotTypes, WorkerShape
    <3>2. s \in Running /\ s \in Running'
      BY <3>1, <1>2 DEF Running
    <3> QED
      BY <3>2 DEF InSlot
  <2> QED
    BY <2>1, <2>2, <2>3 DEF RunStep
<1> QED
  BY <1>1, <1>3, <1>4 DEF PlacesKept, HoldersKept, InDispatcher, InSlot, InWorker, dispVars

(* The worker lets go of its item.                                         *)
LEMMA SignalHolders ==
  ASSUME SlotInv, JobShape, NEW s \in SlotIdx, SignalDone(s)
  PROVE  /\ UNCHANGED queueVars
         /\ wwork[s] \in Clients
         /\ \A c \in Clients :
              /\ InDispatcher(c)' <=> InDispatcher(c)
              /\ InWorker(c, s) <=> c = wwork[s]
              /\ ~InWorker(c, s)'
              /\ \A t \in SlotIdx :
                   /\ InSlot(c, t)' <=> InSlot(c, t)
                   /\ t # s => (InWorker(c, t)' <=> InWorker(c, t))
<1>1. /\ UNCHANGED <<bootVars, queueVars, dispVars, current_job>>
      /\ wpc[s] = "signal" /\ wpc' = [wpc EXCEPT ![s] = "give"]
      /\ wwork' = [wwork EXCEPT ![s] = NoJob]
      /\ wpc \in [SlotIdx -> WorkerPoints]
      /\ wwork \in [SlotIdx -> Clients \cup {NoJob}]
  BY DEF SignalDone, slotVars, SlotInv, SlotTypes, JobShape, JobTypes
<1>2. Running' = Running
  BY <1>1, SlotRange DEF Running, Slots, bootVars, SlotInv, SlotTypes
<1>3. wwork[s] \in Clients
  BY <1>1 DEF JobShape, SlotJob
<1>4. ASSUME NEW c \in Clients
      PROVE  (InWorker(c, s) <=> c = wwork[s]) /\ ~InWorker(c, s)'
  BY <1>1, ClientAssumption DEF InWorker
<1>5. ASSUME NEW c \in Clients, NEW t \in SlotIdx
      PROVE  /\ InDispatcher(c)' <=> InDispatcher(c)
             /\ InSlot(c, t)' <=> InSlot(c, t)
             /\ t # s => (InWorker(c, t)' <=> InWorker(c, t))
  BY <1>1, <1>2 DEF InDispatcher, InSlot, InWorker, dispVars
<1> QED
  BY <1>1, <1>3, <1>4, <1>5

-----------------------------------------------------------------------------
(* Someone other than a blocked k_msgq_put holds the item of c.            *)
Held(c) ==
  \/ InQueue(c) \/ InDispatcher(c)
  \/ \E s \in SlotIdx : InSlot(c, s) \/ InWorker(c, s)

(* No two of the queue's places, the dispatcher, the slots and the workers *)
(* hold the same item.                                                     *)
OneHolder ==
  /\ Distinct(accel_msgq) /\ Distinct(putters)
  /\ \A c \in Clients :
       /\ InQueue(c) => ~InDispatcher(c)
       /\ \A s \in SlotIdx :
            /\ InSlot(c, s) => ~InQueue(c) /\ ~InDispatcher(c) /\ ~InWorker(c, s)
            /\ InWorker(c, s) => ~InQueue(c) /\ ~InDispatcher(c)
            /\ \A t \in SlotIdx \ {s} :
                 InSlot(c, s) \/ InWorker(c, s) => ~InSlot(c, t) /\ ~InWorker(c, t)

(* The item is held exactly as long as its caller waits for it.            *)
HeldWhileWaiting ==
  \A c \in Clients :
    /\ InPutters(c) <=> cpc[c] = "putting"
    /\ Held(c) <=> cpc[c] = "await" /\ done_signal[c] = 0
    /\ done_signal[c] = 1 => cpc[c] = "await"

Places == OneHolder /\ HeldWhileWaiting

LEMMA PlacesInit == Init => Places
<1> SUFFICES ASSUME Init PROVE Places
  OBVIOUS
<1> USE DEF Init
<1>1. Len(accel_msgq) = 0 /\ Len(putters) = 0
  OBVIOUS
<1>2. Distinct(accel_msgq) /\ Distinct(putters)
  BY <1>1 DEF Distinct
<1>3. \A c \in Clients : ~InQueue(c) /\ ~InPutters(c)
  BY <1>1 DEF InQueue, InPutters
<1>4. \A c \in Clients : ~InDispatcher(c) /\ \A s \in SlotIdx : ~InSlot(c, s) /\ ~InWorker(c, s)
  BY ClientAssumption DEF InDispatcher, InSlot, InWorker
<1>5. \A c \in Clients : cpc[c] = "idle" /\ done_signal[c] = 0
  OBVIOUS
<1> QED
  BY <1>2, <1>3, <1>4, <1>5 DEF Places, OneHolder, HeldWhileWaiting, Held

(* Steps that move no item.                                                *)
LEMMA KeptOneHolder ==
  ASSUME OneHolder, PlacesKept
  PROVE  OneHolder' /\ \A c \in Clients : (Held(c)' <=> Held(c)) /\ (InPutters(c)' <=> InPutters(c))
<1>1. \A c \in Clients : (InQueue(c)' <=> InQueue(c)) /\ (InPutters(c)' <=> InPutters(c))
  BY DEF PlacesKept, queueVars, InQueue, InPutters
<1>2. Distinct(accel_msgq)' /\ Distinct(putters)'
  BY DEF OneHolder, PlacesKept, queueVars, Distinct
<1>3. OneHolder'
  BY <1>1, <1>2 DEF OneHolder, PlacesKept, HoldersKept
<1>4. \A c \in Clients : Held(c)' <=> Held(c)
  BY <1>1 DEF Held, PlacesKept, HoldersKept
<1> QED
  BY <1>1, <1>3, <1>4

LEMMA KeptPlaces ==
  ASSUME Places, PlacesKept, UNCHANGED <<cpc, done_signal>>
  PROVE  Places'
  BY KeptOneHolder DEF Places, HeldWhileWaiting

(* The client's own steps.                                                 *)
LEMMA PlacesClient ==
  ASSUME SlotInv, JobShape, Places, NEW c \in Clients, Client(c)
  PROVE  Places'
<1> USE DEF Places, JobShape
<1>1. HoldersKept
  BY ClientHolders
<1>2. /\ accel_msgq \in Seq(Clients) /\ putters \in Seq(Clients)
      /\ cpc \in [Clients -> ClientPoints] /\ done_signal \in [Clients -> 0 .. 1]
  BY DEF JobTypes
<1>3. CASE ExecuteRefused(c) \/ ExecuteDone(c) \/ Leave(c)
  <2>1. PlacesKept
    BY <1>1, <1>3 DEF PlacesKept, ExecuteRefused, ExecuteDone, Leave
  <2>2. /\ cpc[c] \notin {"putting", "await"} \/ (cpc[c] = "await" /\ done_signal[c] = 1)
        /\ cpc'[c] \notin {"putting", "await"} /\ done_signal'[c] = 0
    BY <1>2, <1>3 DEF ExecuteRefused, ExecuteDone, Leave, HeldWhileWaiting
  <2>3. \A d \in Clients \ {c} : cpc'[d] = cpc[d] /\ done_signal'[d] = done_signal[d]
    BY <1>2, <1>3 DEF ExecuteRefused, ExecuteDone, Leave
  <2> QED
    BY <2>1, <2>2, <2>3, KeptOneHolder DEF HeldWhileWaiting
<1>4. ASSUME NEW p \in Packets, Execute(c, p)
      PROVE  Places'
  <2>1. /\ cpc[c] = "idle"
        /\ \A d \in Clients \ {c} : cpc'[d] = cpc[d] /\ done_signal'[d] = done_signal[d]
        /\ done_signal'[c] = 0
    BY <1>2, <1>4 DEF Execute
  <2>2. ~Held(c) /\ ~InPutters(c)
    BY <2>1 DEF HeldWhileWaiting
  <2>3. CASE HasRoom
    <3>1. accel_msgq' = Append(accel_msgq, c) /\ putters' = putters /\ cpc'[c] = "await"
      BY <1>2, <1>4, <2>3 DEF Execute
    <3>2. \A d \in Clients : (InQueue(d)' <=> InQueue(d) \/ d = c) /\ (InPutters(d)' <=> InPutters(d))
      BY <1>2, <3>1, DistinctAppend DEF InQueue, InPutters, InSequence
    <3>3. Distinct(accel_msgq)' /\ Distinct(putters)'
      <4>1. ~InSequence(accel_msgq, c)
        BY <2>2 DEF Held, InQueue, InSequence
      <4>2. Distinct(Append(accel_msgq, c))
        BY <1>2, <4>1, DistinctAppend DEF OneHolder
      <4> QED
        BY <3>1, <4>2 DEF Distinct, OneHolder
    <3>4. OneHolder'
      BY <1>1, <2>2, <3>2, <3>3 DEF OneHolder, HoldersKept, Held
    <3>5. \A d \in Clients : Held(d)' <=> Held(d) \/ d = c
      BY <1>1, <3>2 DEF Held, HoldersKept
    <3> QED
      BY <2>1, <2>2, <3>1, <3>2, <3>4, <3>5 DEF HeldWhileWaiting
  <2>4. CASE ~HasRoom
    <3>1. putters' = Append(putters, c) /\ accel_msgq' = accel_msgq /\ cpc'[c] = "putting"
      BY <1>2, <1>4, <2>4 DEF Execute
    <3>2. \A d \in Clients : (InPutters(d)' <=> InPutters(d) \/ d = c) /\ (InQueue(d)' <=> InQueue(d))
      BY <1>2, <3>1, DistinctAppend DEF InQueue, InPutters, InSequence
    <3>3. Distinct(accel_msgq)' /\ Distinct(putters)'
      <4>1. ~InSequence(putters, c)
        BY <2>2 DEF InPutters, InSequence
      <4>2. Distinct(Append(putters, c))
        BY <1>2, <4>1, DistinctAppend DEF OneHolder
      <4> QED
        BY <3>1, <4>2 DEF Distinct, OneHolder
    <3>4. OneHolder'
      BY <1>1, <3>2, <3>3 DEF OneHolder, HoldersKept
    <3>5. \A d \in Clients : Held(d)' <=> Held(d)
      BY <1>1, <3>2 DEF Held, HoldersKept
    <3> QED
      BY <2>1, <2>2, <3>1, <3>2, <3>4, <3>5 DEF HeldWhileWaiting
  <2> QED
    BY <2>3, <2>4
<1> QED
  BY <1>3, <1>4 DEF Client

(* The head of the queue goes to the dispatcher, the first blocked put to  *)
(* the end of the queue.                                                   *)
LEMMA PlacesGetJob ==
  ASSUME SlotInv, JobShape, Places, GetJob
  PROVE  Places'
<1> USE DEF Places, JobShape
<1>1. /\ accel_msgq \in Seq(Clients) /\ putters \in Seq(Clients) /\ accel_msgq # <<>>
      /\ Distinct(accel_msgq) /\ Distinct(putters)
      /\ done_signal' = done_signal
  BY DEF JobTypes, OneHolder, GetJob, itemVars
<1> DEFINE h == Head(accel_msgq)
           rest == Tail(accel_msgq)
<1>2. h \in Clients /\ rest \in Seq(Clients) /\ Distinct(rest) /\ InSequence(accel_msgq, h)
      /\ \A d \in Clients : InSequence(rest, d) <=> InSequence(accel_msgq, d) /\ d # h
  BY <1>1, DistinctTail, HeadTailProperties
<1> HIDE DEF h, rest
<1>3. \A d \in Clients :
        /\ ~InDispatcher(d)
        /\ InDispatcher(d)' <=> d = h
        /\ \A s \in SlotIdx :
             (InSlot(d, s)' <=> InSlot(d, s)) /\ (InWorker(d, s)' <=> InWorker(d, s))
  BY GetJobHolders DEF h
<1>4. CASE putters = <<>>
  <2>1. accel_msgq' = rest /\ putters' = putters /\ cpc' = cpc
    BY <1>4 DEF GetJob, rest
  <2>2. \A d \in Clients : (InQueue(d)' <=> InQueue(d) /\ d # h) /\ (InPutters(d)' <=> InPutters(d))
    BY <1>2, <2>1 DEF InQueue, InPutters, InSequence
  <2>3. Distinct(accel_msgq)' /\ Distinct(putters)'
    BY <1>1, <1>2, <2>1 DEF Distinct
  <2>4. InQueue(h)
    BY <1>2 DEF InQueue, InSequence
  <2>5. OneHolder'
    BY <1>2, <1>3, <2>2, <2>3, <2>4 DEF OneHolder
  <2>6. \A d \in Clients : Held(d)' <=> Held(d)
    BY <1>2, <1>3, <2>2, <2>4 DEF Held
  <2> QED
    BY <1>1, <2>1, <2>2, <2>5, <2>6 DEF HeldWhileWaiting
<1>5. CASE putters # <<>>
  <2> DEFINE p == Head(putters)
             after == Tail(putters)
  <2>1. p \in Clients /\ after \in Seq(Clients) /\ Distinct(after) /\ InSequence(putters, p)
        /\ \A d \in Clients : InSequence(after, d) <=> InSequence(putters, d) /\ d # p
    BY <1>1, <1>5, DistinctTail, HeadTailProperties
  <2>2. accel_msgq' = Append(rest, p) /\ putters' = after /\ cpc' = [cpc EXCEPT ![p] = "await"]
    BY <1>5 DEF GetJob, rest
  <2> HIDE DEF p, after
  <2>3. InPutters(p) /\ cpc[p] = "putting" /\ ~Held(p) /\ done_signal[p] = 0
    <3>1. InPutters(p)
      BY <2>1 DEF InPutters, InSequence
    <3>2. cpc[p] = "putting"
      BY <2>1, <3>1 DEF HeldWhileWaiting
    <3> QED
      BY <2>1, <3>1, <3>2 DEF HeldWhileWaiting, JobTypes
  <2>4. InQueue(h) /\ p # h /\ ~InSequence(rest, p)
    <3>1. InQueue(h)
      BY <1>2 DEF InQueue, InSequence
    <3>2. p # h /\ ~InSequence(accel_msgq, p)
      BY <2>3, <3>1 DEF Held, InQueue, InSequence
    <3> QED
      BY <1>2, <2>1, <3>1, <3>2
  <2>5. Distinct(Append(rest, p))
        /\ \A d \in Clients : InSequence(Append(rest, p), d) <=> InSequence(rest, d) \/ d = p
    BY <1>2, <2>1, <2>4, DistinctAppend
  <2>6. \A d \in Clients :
          /\ InQueue(d)' <=> (InQueue(d) /\ d # h) \/ d = p
          /\ InPutters(d)' <=> InPutters(d) /\ d # p
    <3>1. \A d \in Clients : InQueue(d)' <=> InSequence(Append(rest, p), d)
      BY <2>2 DEF InQueue, InSequence
    <3>2. \A d \in Clients : InPutters(d)' <=> InSequence(after, d)
      BY <2>2 DEF InPutters, InSequence
    <3>3. \A d \in Clients : (InQueue(d) <=> InSequence(accel_msgq, d))
                             /\ (InPutters(d) <=> InSequence(putters, d))
      BY DEF InQueue, InPutters, InSequence
    <3> QED
      BY <1>2, <2>1, <2>5, <3>1, <3>2, <3>3
  <2>7. Distinct(accel_msgq)' /\ Distinct(putters)'
    BY <2>1, <2>2, <2>5 DEF Distinct
  <2>8. OneHolder'
    BY <1>2, <1>3, <2>3, <2>4, <2>6, <2>7 DEF OneHolder, Held
  <2>9. \A d \in Clients : Held(d)' <=> Held(d) \/ d = p
    BY <1>2, <1>3, <2>4, <2>6 DEF Held
  <2>10. /\ \A d \in Clients \ {p} : cpc'[d] = cpc[d]
         /\ cpc'[p] = "await"
    BY <2>1, <2>2 DEF JobTypes
  <2> QED
    BY <1>1, <2>1, <2>3, <2>6, <2>8, <2>9, <2>10 DEF HeldWhileWaiting
<1> QED
  BY <1>4, <1>5

LEMMA PlacesHandJob ==
  ASSUME SlotInv, JobShape, Places, HandJob
  PROVE  Places'
<1>1. UNCHANGED <<queueVars, cpc, done_signal>>
  BY DEF HandJob, clientVars, itemVars
<1>2. \A c \in Clients : (InQueue(c)' <=> InQueue(c)) /\ (InPutters(c)' <=> InPutters(c))
  BY <1>1 DEF queueVars, InQueue, InPutters
<1>3. Distinct(accel_msgq)' /\ Distinct(putters)'
  BY <1>1 DEF Places, OneHolder, queueVars, Distinct
<1>4. OneHolder'
  BY <1>2, <1>3, HandJobHolders DEF Places, OneHolder
<1>5. \A c \in Clients : Held(c)' <=> Held(c)
  BY <1>2, HandJobHolders DEF Held
<1> QED
  BY <1>1, <1>2, <1>4, <1>5 DEF Places, HeldWhileWaiting

LEMMA PlacesTakeJob ==
  ASSUME SlotInv, JobShape, Places, NEW s \in SlotIdx, TakeJob(s)
  PROVE  Places'
<1>1. UNCHANGED <<queueVars, cpc, done_signal>>
  BY DEF TakeJob, clientVars, itemVars
<1>2. \A c \in Clients : (InQueue(c)' <=> InQueue(c)) /\ (InPutters(c)' <=> InPutters(c))
  BY <1>1 DEF queueVars, InQueue, InPutters
<1>3. Distinct(accel_msgq)' /\ Distinct(putters)'
  BY <1>1 DEF Places, OneHolder, queueVars, Distinct
<1>4. OneHolder'
  BY <1>2, <1>3, TakeJobHolders DEF Places, OneHolder
<1>5. \A c \in Clients : Held(c)' <=> Held(c)
  BY <1>2, TakeJobHolders DEF Held
<1> QED
  BY <1>1, <1>2, <1>4, <1>5 DEF Places, HeldWhileWaiting

(* done_signal is given and the last pointer dropped in one step.          *)
LEMMA PlacesSignal ==
  ASSUME SlotInv, JobShape, Places, NEW s \in SlotIdx, SignalDone(s)
  PROVE  Places'
<1>1. UNCHANGED <<queueVars, cpc>>
      /\ done_signal' = [done_signal EXCEPT ![wwork[s]] = Give(@, 1)]
      /\ done_signal \in [Clients -> 0 .. 1] /\ wwork[s] \in Clients
  BY SignalHolders DEF SignalDone, JobShape, JobTypes
<1>2. \A c \in Clients : (InQueue(c)' <=> InQueue(c)) /\ (InPutters(c)' <=> InPutters(c))
  BY <1>1 DEF queueVars, InQueue, InPutters
<1>3. Distinct(accel_msgq)' /\ Distinct(putters)'
  BY <1>1 DEF Places, OneHolder, queueVars, Distinct
<1>4. OneHolder'
  BY <1>2, <1>3, SignalHolders DEF Places, OneHolder
<1>5. \A c \in Clients : Held(c)' <=> Held(c) /\ c # wwork[s]
  <2>1. InWorker(wwork[s], s)
    BY SignalHolders
  <2> QED
    BY <1>1, <1>2, <2>1, SignalHolders DEF Held, Places, OneHolder
<1>6. Held(wwork[s])
  BY <1>1, SignalHolders DEF Held
<1>7. done_signal'[wwork[s]] = 1 /\ \A c \in Clients : c # wwork[s] => done_signal'[c] = done_signal[c]
  <2>1. Give(done_signal[wwork[s]], 1) = 1
    BY <1>1 DEF Give
  <2> QED
    BY <1>1, <2>1
<1>8. cpc[wwork[s]] = "await"
  BY <1>1, <1>6 DEF Places, HeldWhileWaiting
<1> QED
  BY <1>1, <1>2, <1>4, <1>5, <1>7, <1>8 DEF Places, HeldWhileWaiting

LEMMA PlacesStep ==
  ASSUME SlotInv, JobShape, Places, [Next]_vars
  PROVE  Places'
<1>1. CASE Boot
  BY <1>1, BootHolders, KeptPlaces DEF Boot, DeviceNotReady, DetectHardware, SetupSlot,
     ServiceUp, clientVars, itemVars
<1>2. CASE Searching
  BY <1>2, SearchingHolders, SearchingFrame, KeptPlaces DEF clientVars, itemVars
<1>3. CASE WakeWorker
  BY <1>3, WakeWorkerHolders, KeptPlaces DEF WakeWorker, clientVars, itemVars
<1>4. CASE Tick \/ UNCHANGED vars
  <2>1. UNCHANGED <<bootVars, slotVars, queueVars, dispVars, workerVars, cpc, done_signal>>
    BY <1>4 DEF Tick, vars, clientVars, itemVars
  <2>2. Running' = Running
    BY <2>1 DEF Running, Slots, bootVars, workerVars
  <2>3. PlacesKept
    BY <2>1, <2>2 DEF PlacesKept, HoldersKept, InDispatcher, InSlot, InWorker, slotVars,
       dispVars, workerVars
  <2> QED
    BY <2>1, <2>3, KeptPlaces
<1>5. ASSUME NEW s \in SlotIdx, RunStep(s)
      PROVE  Places'
  BY <1>5, RunHolders, KeptPlaces DEF RunStep, EnterCallback, LeaveCallback, NoCallback,
     WriteStatus, StampSlot, FreeSlot, GiveSlot, clientVars, itemVars
<1> QED
  BY <1>1, <1>2, <1>3, <1>4, <1>5, PlacesClient, PlacesGetJob, PlacesHandJob, PlacesTakeJob,
     PlacesSignal DEF Next, Dispatch, Worker, Searching, RunStep

-----------------------------------------------------------------------------
(***************************************************************************)
(* What the work item holds.                                               *)
(***************************************************************************)

ServiceResults == CallbackResults \cup {"ENOSYS"}

Unanswered(c) == runs[c] = 0 /\ status[c] = "uninit"
Answered(c)   == runs[c] = 1 /\ status[c] \in ServiceResults

(* A worker writes the status between entering and leaving its run.        *)
BeforeStatus == {"start", "hw", "sw"}

Progress ==
  \A c \in Clients :
    /\ cpc[c] \in {"idle", "putting"} => Unanswered(c)
    /\ cpc[c] = "refused" => runs[c] = 0 /\ status[c] \in {"EINVAL", "ENODEV"}
    /\ cpc[c] = "returned" \/ done_signal[c] = 1 => Answered(c)
    /\ InQueue(c) \/ InDispatcher(c) => Unanswered(c)
    /\ \A s \in SlotIdx :
         /\ InSlot(c, s) => Unanswered(c)
         /\ InWorker(c, s) /\ wpc[s] \in BeforeStatus => Unanswered(c)
         /\ InWorker(c, s) /\ wpc[s] \notin BeforeStatus => Answered(c)

(* An accepted item names a packet until its caller leaves.                *)
PacketShape ==
  /\ packet \in [Clients -> Packets \cup {NoPacket}]
  /\ \A c \in Clients : packet[c] = NoPacket <=> cpc[c] \in {"idle", "refused"}

LEMMA ProgressInit == Init => Progress /\ PacketShape
<1> SUFFICES ASSUME Init PROVE Progress /\ PacketShape
  OBVIOUS
<1> USE DEF Init
<1>1. \A c \in Clients : cpc[c] = "idle" /\ Unanswered(c) /\ done_signal[c] = 0
  BY DEF Unanswered
<1>2. \A c \in Clients : ~Held(c)
  BY <1>1, PlacesInit DEF Places, HeldWhileWaiting
<1>3. PacketShape
  BY DEF PacketShape
<1> QED
  BY <1>1, <1>2, <1>3 DEF Progress, Held

(* Steps that move no item and write to none.                              *)
LEMMA ProgressKept ==
  ASSUME Progress, PlacesKept, UNCHANGED <<cpc, done_signal, status, runs>>,
         \A c \in Clients, s \in SlotIdx :
           InWorker(c, s) => (wpc'[s] \in BeforeStatus <=> wpc[s] \in BeforeStatus)
  PROVE  Progress'
<1>1. \A c \in Clients : (Unanswered(c)' <=> Unanswered(c)) /\ (Answered(c)' <=> Answered(c))
  BY DEF Unanswered, Answered
<1>2. \A c \in Clients : InQueue(c)' <=> InQueue(c)
  BY DEF PlacesKept, queueVars, InQueue
<1> QED
  BY <1>1, <1>2 DEF Progress, PlacesKept, HoldersKept

LEMMA ProgressClient ==
  ASSUME SlotInv, JobShape, Places, Places', Progress, NEW c \in Clients, Client(c)
  PROVE  Progress'
<1>1. /\ HoldersKept /\ UNCHANGED workerVars
      /\ done_signal \in [Clients -> 0 .. 1] /\ runs \in [Clients -> Nat]
      /\ status \in [Clients -> Statuses] /\ cpc \in [Clients -> ClientPoints]
  BY ClientHolders DEF Client, ExecuteRefused, ExecuteDone, Leave, Execute, JobShape, JobTypes
<1>2. ASSUME NEW d \in Clients, d # c
      PROVE  /\ cpc'[d] = cpc[d] /\ done_signal'[d] = done_signal[d]
             /\ runs'[d] = runs[d] /\ status'[d] = status[d]
  <2>1. CASE ExecuteRefused(c)
    BY <1>1, <1>2, <2>1 DEF ExecuteRefused
  <2>2. CASE ExecuteDone(c)
    BY <1>1, <1>2, <2>2 DEF ExecuteDone
  <2>3. CASE Leave(c)
    BY <1>1, <1>2, <2>3 DEF Leave
  <2>4. ASSUME NEW p \in Packets, Execute(c, p)
        PROVE  /\ cpc'[d] = cpc[d] /\ done_signal'[d] = done_signal[d]
               /\ runs'[d] = runs[d] /\ status'[d] = status[d]
    BY <1>1, <1>2, <2>4 DEF Execute
  <2> QED
    BY <2>1, <2>2, <2>3, <2>4 DEF Client
<1>3. ASSUME NEW d \in Clients, d # c
      PROVE  /\ Unanswered(d)' <=> Unanswered(d)
             /\ Answered(d)' <=> Answered(d)
             /\ InQueue(d)' => InQueue(d)
  <2>1. InQueue(d)' => Held(d)
    BY <1>2, <1>3 DEF Places, HeldWhileWaiting, Held
  <2>2. InQueue(d)' => InQueue(d)
    BY <1>1, <2>1 DEF Held, Places, OneHolder, HoldersKept
  <2> QED
    BY <1>2, <1>3, <2>2 DEF Unanswered, Answered
<1>4. /\ \A s \in SlotIdx : ~InSlot(c, s)' /\ ~InWorker(c, s)'
      /\ ~InDispatcher(c)'
  <2>1. ~Held(c)
    BY <1>1 DEF Client, ExecuteRefused, ExecuteDone, Leave, Execute, Places, HeldWhileWaiting
  <2> QED
    BY <1>1, <2>1 DEF Held, HoldersKept
<1>5. /\ cpc'[c] \in {"idle", "putting", "await"} => Unanswered(c)'
      /\ cpc'[c] = "refused" => runs'[c] = 0 /\ status'[c] \in {"EINVAL", "ENODEV"}
      /\ cpc'[c] = "returned" => Answered(c)'
      /\ done_signal'[c] = 0
  <2>1. CASE ExecuteRefused(c)
    BY <1>1, <2>1 DEF ExecuteRefused, Progress, Unanswered, Places, HeldWhileWaiting
  <2>2. CASE ExecuteDone(c)
    BY <1>1, <2>2 DEF ExecuteDone, Progress, Answered
  <2>3. CASE Leave(c)
    BY <1>1, <2>3 DEF Leave, Unanswered, Places, HeldWhileWaiting
  <2>4. ASSUME NEW p \in Packets, Execute(c, p)
        PROVE  /\ cpc'[c] \in {"await", "putting"} /\ Unanswered(c)' /\ done_signal'[c] = 0
    BY <1>1, <2>4 DEF Execute, Unanswered
  <2> QED
    BY <2>1, <2>2, <2>3, <2>4 DEF Client
<1>6. InQueue(c)' => Unanswered(c)'
  BY <1>5 DEF Places, HeldWhileWaiting, Held
<1>7. \A d \in Clients \ {c} : InQueue(d)' \/ InDispatcher(d)' => Unanswered(d)'
  BY <1>1, <1>3 DEF Progress, HoldersKept
<1>8. \A d \in Clients \ {c}, s \in SlotIdx :
        /\ InSlot(d, s)' => Unanswered(d)'
        /\ InWorker(d, s)' /\ wpc'[s] \in BeforeStatus => Unanswered(d)'
        /\ InWorker(d, s)' /\ wpc'[s] \notin BeforeStatus => Answered(d)'
  BY <1>1, <1>3 DEF Progress, HoldersKept, workerVars
<1>9. \A d \in Clients \ {c} :
        /\ cpc'[d] \in {"idle", "putting"} => Unanswered(d)'
        /\ cpc'[d] = "refused" => runs'[d] = 0 /\ status'[d] \in {"EINVAL", "ENODEV"}
        /\ cpc'[d] = "returned" \/ done_signal'[d] = 1 => Answered(d)'
  BY <1>2, <1>3 DEF Progress
<1> QED
  BY <1>4, <1>5, <1>6, <1>7, <1>8, <1>9 DEF Progress

LEMMA ProgressGetJob ==
  ASSUME SlotInv, JobShape, Places, Places', Progress, GetJob
  PROVE  Progress'
<1>1. /\ UNCHANGED <<done_signal, status, runs, wpc>>
      /\ accel_msgq # <<>> /\ accel_msgq \in Seq(Clients)
      /\ cpc' = cpc \/ (putters # <<>> /\ cpc' = [cpc EXCEPT ![Head(putters)] = "await"])
      /\ cpc \in [Clients -> ClientPoints]
  BY DEF GetJob, itemVars, workerVars, JobShape, JobTypes
<1>2. \A c \in Clients : (Unanswered(c)' <=> Unanswered(c)) /\ (Answered(c)' <=> Answered(c))
  BY <1>1 DEF Unanswered, Answered
<1>3. \A c \in Clients : cpc'[c] = cpc[c] \/ (cpc[c] = "putting" /\ cpc'[c] = "await")
  <2>1. ASSUME putters # <<>>
        PROVE  Head(putters) \in Clients /\ cpc[Head(putters)] = "putting"
    <3>1. Len(putters) \in Nat \ {0} /\ putters \in Seq(Clients) /\ Head(putters) = putters[1]
      BY <2>1, EmptySeq DEF JobShape, JobTypes
    <3>2. Head(putters) \in Clients /\ InPutters(Head(putters))
      BY <2>1, <3>1, HeadTailProperties DEF InPutters
    <3> QED
      BY <3>2 DEF Places, HeldWhileWaiting
  <2> QED
    BY <1>1, <2>1
<1>4. InQueue(Head(accel_msgq))
  <2>1. Len(accel_msgq) \in Nat \ {0} /\ Head(accel_msgq) = accel_msgq[1]
    BY <1>1, EmptySeq
  <2> QED
    BY <2>1 DEF InQueue
<1>5. \A c \in Clients :
        /\ ~InDispatcher(c)
        /\ InDispatcher(c)' <=> c = Head(accel_msgq)
        /\ \A s \in SlotIdx :
             (InSlot(c, s)' <=> InSlot(c, s)) /\ (InWorker(c, s)' <=> InWorker(c, s))
  BY GetJobHolders
<1>6. ASSUME NEW c \in Clients, InQueue(c)'
      PROVE  Unanswered(c)
  <2>1. cpc'[c] = "await" /\ done_signal[c] = 0
    BY <1>1, <1>6 DEF Places, HeldWhileWaiting, Held
  <2>2. CASE cpc[c] = "putting"
    BY <2>2 DEF Progress
  <2>3. CASE cpc[c] = "await"
    <3>1. Held(c)
      BY <2>1, <2>3 DEF Places, HeldWhileWaiting
    <3>2. InQueue(c)
      BY <1>5, <1>6, <3>1 DEF Held, Places, OneHolder
    <3> QED
      BY <3>2 DEF Progress
  <2> QED
    BY <1>3, <2>1, <2>2, <2>3
<1>7. \A c \in Clients : InDispatcher(c)' => Unanswered(c)
  BY <1>4, <1>5 DEF Progress
<1>8. \A c \in Clients :
        /\ cpc'[c] \in {"idle", "putting"} => Unanswered(c)
        /\ cpc'[c] = "refused" => runs[c] = 0 /\ status[c] \in {"EINVAL", "ENODEV"}
        /\ cpc'[c] = "returned" \/ done_signal[c] = 1 => Answered(c)
  BY <1>3 DEF Progress
<1> QED
  BY <1>1, <1>2, <1>5, <1>6, <1>7, <1>8 DEF Progress

LEMMA ProgressHandJob ==
  ASSUME SlotInv, JobShape, Progress, HandJob
  PROVE  Progress'
<1>1. UNCHANGED <<queueVars, cpc, done_signal, status, runs, wpc>>
  BY DEF HandJob, clientVars, itemVars, workerVars
<1>2. \A c \in Clients : /\ Unanswered(c)' <=> Unanswered(c)
                         /\ Answered(c)' <=> Answered(c)
                         /\ InQueue(c)' <=> InQueue(c)
  BY <1>1 DEF Unanswered, Answered, InQueue, queueVars
<1> QED
  BY <1>1, <1>2, HandJobHolders DEF Progress

LEMMA ProgressTakeJob ==
  ASSUME SlotInv, JobShape, Progress, NEW s \in SlotIdx, TakeJob(s)
  PROVE  Progress'
<1>1. /\ UNCHANGED <<queueVars, cpc, done_signal, status, runs>>
      /\ wpc'[s] \in BeforeStatus /\ \A t \in SlotIdx \ {s} : wpc'[t] = wpc[t]
  BY DEF TakeJob, clientVars, itemVars, SlotInv, SlotTypes, BeforeStatus
<1>2. \A c \in Clients : /\ Unanswered(c)' <=> Unanswered(c)
                         /\ Answered(c)' <=> Answered(c)
                         /\ InQueue(c)' <=> InQueue(c)
  BY <1>1 DEF Unanswered, Answered, InQueue, queueVars
<1> QED
  BY <1>1, <1>2, TakeJobHolders DEF Progress

(* The status is written once: the item of a worker before that point was  *)
(* not answered yet.                                                       *)
LEMMA ProgressWriteStatus ==
  ASSUME SlotInv, JobShape, Places, Progress, NEW s \in SlotIdx,
         wpc[s] \in BeforeStatus, PlacesKept,
         NEW result \in ServiceResults, WriteStatus(s, result)
  PROVE  Progress'
<1>1. PICK c \in Clients : c = wwork[s]
  BY DEF JobShape, SlotJob, JobTypes, BeforeStatus
<1>2. /\ UNCHANGED <<cpc, done_signal>>
      /\ status' = [status EXCEPT ![c] = result]
      /\ runs' = [runs EXCEPT ![c] = @ + 1]
      /\ runs \in [Clients -> Nat] /\ status \in [Clients -> Statuses]
      /\ wpc'[s] = "stamp" /\ \A t \in SlotIdx \ {s} : wpc'[t] = wpc[t]
  BY <1>1 DEF WriteStatus, SlotInv, SlotTypes, JobShape, JobTypes
<1>3. InWorker(c, s) /\ \A d \in Clients : InWorker(d, s) => d = c
  BY <1>1 DEF InWorker
<1>4. Answered(c)'
  <2>1. runs[c] = 0
    BY <1>3 DEF Progress, Unanswered
  <2>2. runs'[c] = 1 /\ status'[c] = result
    BY <1>2, <2>1
  <2> QED
    BY <2>2 DEF Answered
<1>5. \A d \in Clients \ {c} :
        (Unanswered(d)' <=> Unanswered(d)) /\ (Answered(d)' <=> Answered(d))
        /\ runs'[d] = runs[d] /\ status'[d] = status[d]
  BY <1>2 DEF Unanswered, Answered
<1>6. /\ ~InQueue(c) /\ ~InDispatcher(c)
      /\ \A t \in SlotIdx : ~InSlot(c, t) /\ (InWorker(c, t) => t = s)
  BY <1>3 DEF Places, OneHolder
<1>7. cpc[c] = "await"
  BY <1>3 DEF Places, HeldWhileWaiting, Held
<1>8. /\ \A d \in Clients : InQueue(d)' <=> InQueue(d)
      /\ "stamp" \notin BeforeStatus
  BY DEF PlacesKept, queueVars, InQueue, BeforeStatus
<1>9. ASSUME NEW d \in Clients \ {c}, NEW t \in SlotIdx
      PROVE  /\ InSlot(d, t)' => Unanswered(d)'
             /\ InWorker(d, t)' /\ wpc'[t] \in BeforeStatus => Unanswered(d)'
             /\ InWorker(d, t)' /\ wpc'[t] \notin BeforeStatus => Answered(d)'
  BY <1>2, <1>3, <1>5 DEF Progress, PlacesKept, HoldersKept
<1>10. ASSUME NEW d \in Clients \ {c}
       PROVE  /\ cpc'[d] \in {"idle", "putting"} => Unanswered(d)'
              /\ cpc'[d] = "refused" => runs'[d] = 0 /\ status'[d] \in {"EINVAL", "ENODEV"}
              /\ cpc'[d] = "returned" \/ done_signal'[d] = 1 => Answered(d)'
              /\ InQueue(d)' \/ InDispatcher(d)' => Unanswered(d)'
  BY <1>2, <1>5, <1>8 DEF Progress, PlacesKept, HoldersKept
<1>11. /\ ~InQueue(c)' /\ ~InDispatcher(c)' /\ cpc'[c] = "await"
       /\ \A t \in SlotIdx : ~InSlot(c, t)' /\ (InWorker(c, t)' => wpc'[t] \notin BeforeStatus)
  BY <1>2, <1>6, <1>7, <1>8 DEF PlacesKept, HoldersKept
<1> QED
  BY <1>4, <1>9, <1>10, <1>11 DEF Progress

LEMMA ProgressSignal ==
  ASSUME SlotInv, JobShape, Progress, NEW s \in SlotIdx, SignalDone(s)
  PROVE  Progress'
<1>1. /\ UNCHANGED <<queueVars, cpc, status, runs>>
      /\ \A t \in SlotIdx \ {s} : wpc'[t] = wpc[t]
      /\ wpc[s] = "signal"
  BY DEF SignalDone, SlotInv, SlotTypes
<1>2. \A c \in Clients : /\ Unanswered(c)' <=> Unanswered(c)
                         /\ Answered(c)' <=> Answered(c)
                         /\ InQueue(c)' <=> InQueue(c)
  BY <1>1 DEF Unanswered, Answered, InQueue, queueVars
<1>3. wwork[s] \in Clients /\ Answered(wwork[s])
  <2>1. wwork[s] \in Clients /\ InWorker(wwork[s], s)
    BY SignalHolders
  <2> QED
    BY <1>1, <2>1 DEF Progress, BeforeStatus
<1>4. \A c \in Clients : c # wwork[s] => done_signal'[c] = done_signal[c]
  BY <1>3 DEF SignalDone, JobShape, JobTypes
<1> QED
  BY <1>1, <1>2, <1>3, <1>4, SignalHolders DEF Progress

LEMMA ProgressStep ==
  ASSUME SlotInv, JobShape, Places, Places', Progress, [Next]_vars
  PROVE  Progress'
<1>1. CASE Boot
  <2>1. \A c \in Clients, s \in SlotIdx : ~InWorker(c, s)
    <3>1. dpc \in {"detect", "exited", "setup"}
      BY <1>1 DEF Boot, DeviceNotReady, DetectHardware, SetupSlot, ServiceUp
    <3>2. \A s \in SlotIdx : wpc[s] \in {"none", "take"}
      BY <3>1 DEF SlotInv, BootShape
    <3> QED
      BY <3>2, WorkerHolds
  <2>2. UNCHANGED clientVars
    BY <1>1 DEF Boot, DeviceNotReady, DetectHardware, SetupSlot, ServiceUp
  <2> QED
    BY <1>1, <2>1, <2>2, BootHolders, ProgressKept DEF clientVars, itemVars
<1>2. CASE Searching
  BY <1>2, SearchingHolders, SearchingFrame, ProgressKept DEF clientVars, itemVars, workerVars
<1>3. CASE WakeWorker
  BY <1>3, WakeWorkerHolders, ProgressKept DEF WakeWorker, clientVars, itemVars, workerVars
<1>4. CASE Tick \/ UNCHANGED vars
  <2>1. UNCHANGED <<bootVars, slotVars, queueVars, dispVars, workerVars, clientVars>>
    BY <1>4 DEF Tick, vars
  <2>2. Running' = Running
    BY <2>1 DEF Running, Slots, bootVars, workerVars
  <2>3. PlacesKept
    BY <2>1, <2>2 DEF PlacesKept, HoldersKept, InDispatcher, InSlot, InWorker, slotVars,
       dispVars, workerVars
  <2> QED
    BY <2>1, <2>3, ProgressKept DEF clientVars, itemVars, workerVars
<1>5. ASSUME NEW s \in SlotIdx, EnterCallback(s) \/ StampSlot(s) \/ FreeSlot(s) \/ GiveSlot(s)
      PROVE  Progress'
  <2>1. /\ UNCHANGED clientVars
        /\ \A t \in SlotIdx \ {s} : wpc'[t] = wpc[t]
        /\ wpc[s] = "give" \/ (wpc'[s] \in BeforeStatus <=> wpc[s] \in BeforeStatus)
    BY <1>5 DEF EnterCallback, StampSlot, FreeSlot, GiveSlot, SlotInv, SlotTypes, BeforeStatus
  <2>2. \A c \in Clients : InWorker(c, s) => wpc[s] # "give"
    BY WorkerHolds
  <2>3. \A c \in Clients, t \in SlotIdx :
          InWorker(c, t) => (wpc'[t] \in BeforeStatus <=> wpc[t] \in BeforeStatus)
    BY <2>1, <2>2
  <2>4. PlacesKept
    BY <1>5, RunHolders DEF RunStep
  <2> QED
    BY <2>1, <2>3, <2>4, ProgressKept DEF clientVars, itemVars
<1>6. ASSUME NEW s \in SlotIdx, LeaveCallback(s) \/ NoCallback(s)
      PROVE  Progress'
  <2>1. PICK result \in ServiceResults : WriteStatus(s, result)
    BY <1>6 DEF LeaveCallback, NoCallback, ServiceResults
  <2>2. wpc[s] \in BeforeStatus
    BY <1>6 DEF LeaveCallback, NoCallback, BeforeStatus
  <2>3. PlacesKept
    BY <1>6, RunHolders DEF RunStep
  <2> QED
    BY <2>1, <2>2, <2>3, ProgressWriteStatus
<1> QED
  BY <1>1, <1>2, <1>3, <1>4, <1>5, <1>6, ProgressClient, ProgressGetJob, ProgressHandJob,
     ProgressTakeJob, ProgressSignal DEF Next, Dispatch, Worker, Searching

LEMMA PacketShapeStep ==
  ASSUME SlotInv, JobShape, Places, PacketShape, [Next]_vars
  PROVE  PacketShape'
<1>1. cpc \in [Clients -> ClientPoints]
  BY DEF JobShape, JobTypes
<1>2. ASSUME NEW c \in Clients, Client(c)
      PROVE  PacketShape'
  <2>1. CASE ExecuteRefused(c)
    BY <1>1, <2>1 DEF ExecuteRefused, PacketShape
  <2>2. CASE ExecuteDone(c)
    BY <1>1, <2>2 DEF ExecuteDone, PacketShape
  <2>3. CASE Leave(c)
    BY <1>1, <2>3 DEF Leave, PacketShape
  <2>4. ASSUME NEW p \in Packets, Execute(c, p)
        PROVE  PacketShape'
    <3>1. /\ packet' = [packet EXCEPT ![c] = p] /\ p # NoPacket
          /\ \E to \in {"await", "putting"} : cpc' = [cpc EXCEPT ![c] = to]
      BY <2>4, PacketAssumption DEF Execute
    <3> QED
      BY <1>1, <3>1 DEF PacketShape
  <2> QED
    BY <1>2, <2>1, <2>2, <2>3, <2>4 DEF Client
<1>3. CASE GetJob
  <2>1. packet' = packet
        /\ (cpc' = cpc \/ (putters # <<>> /\ cpc' = [cpc EXCEPT ![Head(putters)] = "await"]))
    BY <1>3 DEF GetJob, itemVars
  <2>2. ASSUME putters # <<>>
        PROVE  Head(putters) \in Clients /\ cpc[Head(putters)] = "putting"
    <3>1. Len(putters) \in Nat \ {0} /\ putters \in Seq(Clients) /\ Head(putters) = putters[1]
      BY <2>2, EmptySeq DEF JobShape, JobTypes
    <3>2. Head(putters) \in Clients /\ InPutters(Head(putters))
      BY <2>2, <3>1, HeadTailProperties DEF InPutters
    <3> QED
      BY <3>2 DEF Places, HeldWhileWaiting
  <2>3. \A c \in Clients : cpc'[c] = cpc[c] \/ (cpc[c] = "putting" /\ cpc'[c] = "await")
    BY <1>1, <2>1, <2>2
  <2> QED
    BY <2>1, <2>3 DEF PacketShape
<1>4. CASE UNCHANGED clientVars
  BY <1>4 DEF PacketShape, clientVars, itemVars
<1>5. CASE Boot \/ Tick \/ UNCHANGED vars \/ Searching \/ HandJob \/ WakeWorker
  <2>1. UNCHANGED clientVars
    BY <1>5, SearchingFrame DEF Boot, DeviceNotReady, DetectHardware, SetupSlot, ServiceUp,
       Tick, vars, HandJob, WakeWorker
  <2> QED
    BY <1>4, <2>1
<1>6. ASSUME NEW s \in SlotIdx, Worker(s)
      PROVE  PacketShape'
  <2>1. UNCHANGED <<cpc, packet>>
    BY <1>6 DEF Worker, TakeJob, EnterCallback, LeaveCallback, NoCallback, WriteStatus,
       StampSlot, FreeSlot, SignalDone, GiveSlot, clientVars, itemVars
  <2> QED
    BY <2>1 DEF PacketShape
<1> QED
  BY <1>2, <1>3, <1>5, <1>6 DEF Next, Dispatch, Searching

-----------------------------------------------------------------------------
(***************************************************************************)
(* What the slots hold.                                                    *)
(***************************************************************************)

(* The uuid recorded for slot s is the one the item of c asks for.         *)
Wanted(s, c) == active_uuid[s] = Uuid[packet[c]]

(* The item of c is to run, or runs, on the hardware of slot s.            *)
Bound(c, s) == InSlot(c, s) \/ (InWorker(c, s) /\ wpc[s] \in {"start", "hw"})

(* active_uuid names what the fabric holds, unless a stream into it did    *)
(* not verify, and it names what each item that waits for or runs on the   *)
(* slot asked for, unless its load failed.                                 *)
ConfigInv ==
  /\ active_uuid \in [SlotIdx -> Nat]
  /\ fabric \in [SlotIdx -> Packets \cup {NoPacket, Partial}]
  /\ dpc \in {"detect", "exited", "setup"} => \A s \in SlotIdx : fabric[s] = NoPacket
  /\ \A s \in SlotIdx :
       /\ fabric[s] = NoPacket => active_uuid[s] = 0
       /\ fabric[s] \in Packets => active_uuid[s] = Uuid[fabric[s]]
       /\ wpc[s] = "hw" => load_err[s] = "OK"
       /\ \A c \in Clients : Bound(c, s) /\ load_err[s] = "OK" => Wanted(s, c)
  /\ dpc = "hand" /\ err = "OK" => Wanted(target_slot, dwork)

LEMMA ConfigInit == Init => ConfigInv
<1> SUFFICES ASSUME Init PROVE ConfigInv
  OBVIOUS
<1> USE DEF Init
<1>1. active_uuid \in [SlotIdx -> Nat] /\ fabric \in [SlotIdx -> Packets \cup {NoPacket, Partial}]
  OBVIOUS
<1>2. \A s \in SlotIdx : fabric[s] = NoPacket /\ active_uuid[s] = 0 /\ wpc[s] = "none"
  OBVIOUS
<1>3. \A s \in SlotIdx, c \in Clients : ~Bound(c, s)
  BY ClientAssumption DEF Bound, InSlot, InWorker
<1> QED
  BY <1>1, <1>2, <1>3, PacketAssumption DEF ConfigInv

(* Steps that touch neither a slot's configuration nor an item's packet    *)
(* and bind no item to a slot.                                             *)
LEMMA ConfigKept ==
  ASSUME ConfigInv, UNCHANGED <<active_uuid, fabric, load_err, packet>>,
         dpc' \in {"detect", "exited", "setup"} => dpc \in {"detect", "exited", "setup"},
         dpc' = "hand" => UNCHANGED <<dpc, err, target_slot, dwork>>,
         \A s \in SlotIdx :
           /\ wpc'[s] = "hw" => wpc[s] = "hw"
           /\ \A c \in Clients : Bound(c, s)' => Bound(c, s)
  PROVE  ConfigInv'
<1>1. \A s \in SlotIdx, c \in Clients : Wanted(s, c)' <=> Wanted(s, c)
  BY DEF Wanted
<1>2. dpc' = "hand" /\ err' = "OK" => Wanted(target_slot, dwork)'
  BY DEF ConfigInv, Wanted
<1> QED
  BY <1>1, <1>2 DEF ConfigInv

(* A client fills or drops an item only while nobody holds it.             *)
LEMMA ConfigClient ==
  ASSUME SlotInv, JobShape, Places, PacketShape, ConfigInv, NEW c \in Clients, Client(c)
  PROVE  ConfigInv'
<1>1. /\ HoldersKept
      /\ UNCHANGED <<active_uuid, fabric, load_err, dpc, err, target_slot, dwork, wpc>>
  BY ClientHolders DEF Client, ExecuteRefused, ExecuteDone, Leave, Execute, slotVars, dispVars,
     scanVars, workerVars
<1>2. ASSUME NEW d \in Clients, Held(d)
      PROVE  packet'[d] = packet[d]
  <2>1. cpc[d] = "await" /\ done_signal[d] = 0
    BY <1>2 DEF Places, HeldWhileWaiting
  <2>2. d # c
    BY <2>1 DEF Client, ExecuteRefused, ExecuteDone, Leave, Execute
  <2> QED
    BY <2>2 DEF Client, ExecuteRefused, ExecuteDone, Leave, Execute, PacketShape
<1>3. ASSUME NEW s \in SlotIdx, NEW d \in Clients, Bound(d, s)'
      PROVE  Bound(d, s) /\ (Wanted(s, d)' <=> Wanted(s, d))
  <2>1. Bound(d, s)
    BY <1>1, <1>3 DEF Bound, HoldersKept
  <2>2. Held(d)
    BY <2>1 DEF Bound, Held
  <2> QED
    BY <1>1, <1>2, <2>1, <2>2 DEF Wanted
<1>4. ASSUME dpc = "hand"
      PROVE  Wanted(target_slot, dwork)' <=> Wanted(target_slot, dwork)
  <2>1. dwork \in Clients /\ InDispatcher(dwork)
    BY <1>4 DEF JobShape, JobTypes, DispatcherJob, InDispatcher
  <2>2. packet'[dwork] = packet[dwork]
    BY <1>2, <2>1 DEF Held
  <2> QED
    BY <1>1, <2>2 DEF Wanted
<1> QED
  BY <1>1, <1>3, <1>4 DEF ConfigInv

(* Nothing is bound to the slot the dispatcher configures.                 *)
LEMMA ConfiguringIsUnbound ==
  ASSUME SlotInv, JobShape, dpc \in {"load", "verify", "hand"}
  PROVE  /\ target_slot \in SlotIdx /\ target_slot \in Slots
         /\ \A c \in Clients : ~Bound(c, target_slot)
         /\ wpc[target_slot] # "hw"
<1>1. target_slot \in Slots /\ target_slot \in SlotIdx
  BY SizeAssumption DEF SlotInv, LoopShape, SlotTypes, Slots, SlotIdx
<1>2. state[target_slot] = "CONFIGURING" /\ target_slot \notin Running
  BY <1>1 DEF SlotInv, SlotOwnership, Configuring
<1>3. wpc[target_slot] \notin {"start", "hw"}
  BY <1>1, <1>2 DEF Running
<1>4. \A c \in Clients : ~InSlot(c, target_slot)
  BY <1>1, <1>2, SlotHolds
<1> QED
  BY <1>1, <1>3, <1>4 DEF Bound

(* The search changes no slot; a slot it locks without a load holds what   *)
(* the item asks for.                                                      *)
LEMMA ConfigSearch ==
  ASSUME SlotInv, JobShape, ConfigInv,
         TakeFreeSlot \/ CacheScan \/ CacheMiss \/ LruScan \/ LruDone \/ LockSlot
  PROVE  ConfigInv'
<1>1. /\ PlacesKept /\ UNCHANGED <<active_uuid, fabric, load_err, packet, wpc, dwork>>
      /\ dpc' \notin {"detect", "exited", "setup"}
  <2>1. Searching
    BY DEF Searching
  <2>2. UNCHANGED <<active_uuid, fabric>>
    BY DEF TakeFreeSlot, CacheScan, CacheMiss, LruScan, LruDone, LockSlot, slotVars
  <2> QED
    BY <2>1, <2>2, SearchingHolders, SearchingFrame DEF workerVars, clientVars, itemVars,
       HasJobPoints
<1>2. \A s \in SlotIdx, c \in Clients : (Bound(c, s)' <=> Bound(c, s)) /\ (Wanted(s, c)' <=> Wanted(s, c))
  BY <1>1 DEF Bound, Wanted, PlacesKept, HoldersKept
<1>3. dpc' = "hand" => Wanted(target_slot, dwork)'
  <2>1. CASE LockSlot
    BY <2>1, <1>1 DEF LockSlot, NeedReconfig, Holds, Wanted
  <2>2. CASE ~LockSlot
    BY <2>2 DEF TakeFreeSlot, CacheScan, CacheMiss, LruScan, LruDone
  <2> QED
    BY <2>1, <2>2
<1> QED
  BY <1>1, <1>2, <1>3 DEF ConfigInv

LEMMA ConfigLoad ==
  ASSUME SlotInv, JobShape, Places, PacketShape, ConfigInv,
         StreamBitstream \/ LoadVerified \/ LoadFailed
  PROVE  ConfigInv'
<1>1. /\ PlacesKept /\ UNCHANGED <<load_err, packet, wpc, dwork, target_slot>>
      /\ dpc \in {"load", "verify"} /\ dpc' \in {"verify", "hand"}
  <2>1. Searching
    BY DEF Searching
  <2>2. /\ target_slot' = target_slot
        /\ dpc \in {"load", "verify"} /\ dpc' \in {"verify", "hand"}
    BY DEF StreamBitstream, LoadVerified, LoadFailed, scanVars
  <2> QED
    BY <2>1, <2>2, SearchingHolders, SearchingFrame DEF workerVars, clientVars, itemVars
<1>2. PICK t \in SlotIdx :
        t = target_slot /\ wpc[t] # "hw" /\ \A c \in Clients : ~Bound(c, t)
  BY <1>1, ConfiguringIsUnbound
<1>3. \A s \in SlotIdx, c \in Clients : Bound(c, s)' <=> Bound(c, s)
  BY <1>1 DEF Bound, PlacesKept, HoldersKept
<1>4. CASE StreamBitstream
  <2>1. active_uuid' = active_uuid /\ fabric' = [fabric EXCEPT ![t] = Partial] /\ dpc' = "verify"
    BY <1>2, <1>4 DEF StreamBitstream, slotVars
  <2>2. \A s \in SlotIdx, c \in Clients : Wanted(s, c)' <=> Wanted(s, c)
    BY <1>1, <2>1 DEF Wanted
  <2> QED
    BY <1>1, <1>2, <1>3, <2>1, <2>2, PacketAssumption DEF ConfigInv
<1>5. CASE LoadVerified
  <2>1. PICK p \in Packets : p = packet[dwork]
    <3>1. dwork \in Clients /\ InDispatcher(dwork)
      BY <1>1 DEF JobShape, JobTypes, DispatcherJob, InDispatcher
    <3>2. cpc[dwork] = "await"
      BY <3>1 DEF Places, HeldWhileWaiting, Held
    <3> QED
      BY <3>1, <3>2 DEF PacketShape
  <2>2. /\ fabric' = [fabric EXCEPT ![t] = p]
        /\ active_uuid' = [active_uuid EXCEPT ![t] = Uuid[p]]
        /\ Uuid[p] \in Nat
    BY <1>2, <1>5, <2>1, PacketAssumption DEF LoadVerified
  <2>3. /\ active_uuid' \in [SlotIdx -> Nat]
        /\ fabric' \in [SlotIdx -> Packets \cup {NoPacket, Partial}]
        /\ active_uuid'[t] = Uuid[p] /\ fabric'[t] = p
        /\ \A s \in SlotIdx \ {t} : active_uuid'[s] = active_uuid[s] /\ fabric'[s] = fabric[s]
    BY <1>2, <2>2 DEF ConfigInv
  <2>4. \A s \in SlotIdx \ {t}, c \in Clients : Wanted(s, c)' <=> Wanted(s, c)
    BY <1>1, <2>3 DEF Wanted
  <2>5. Wanted(target_slot, dwork)'
    BY <1>1, <1>2, <2>1, <2>3 DEF Wanted
  <2>6. p # NoPacket
    BY PacketAssumption
  <2>7. \A s \in SlotIdx \ {t} :
          /\ fabric'[s] = NoPacket => active_uuid'[s] = 0
          /\ fabric'[s] \in Packets => active_uuid'[s] = Uuid[fabric'[s]]
          /\ wpc'[s] = "hw" => load_err'[s] = "OK"
          /\ \A c \in Clients : Bound(c, s)' /\ load_err'[s] = "OK" => Wanted(s, c)'
    BY <1>1, <1>3, <2>3, <2>4 DEF ConfigInv
  <2>8. /\ fabric'[t] # NoPacket /\ active_uuid'[t] = Uuid[fabric'[t]]
        /\ wpc'[t] # "hw" /\ \A c \in Clients : ~Bound(c, t)'
    BY <1>1, <1>2, <1>3, <2>3, <2>6
  <2> QED
    BY <1>1, <2>3, <2>5, <2>7, <2>8 DEF ConfigInv
<1>6. CASE LoadFailed
  <2>1. UNCHANGED <<active_uuid, fabric>> /\ err' = "EIO"
    BY <1>6 DEF LoadFailed, slotVars
  <2>2. \A s \in SlotIdx, c \in Clients : Wanted(s, c)' <=> Wanted(s, c)
    BY <1>1, <2>1 DEF Wanted
  <2> QED
    BY <1>1, <1>3, <2>1, <2>2 DEF ConfigInv
<1> QED
  BY <1>4, <1>5, <1>6

LEMMA ConfigHandJob ==
  ASSUME SlotInv, JobShape, ConfigInv, HandJob
  PROVE  ConfigInv'
<1>0. PICK t \in SlotIdx :
        t = target_slot /\ (dpc = "hand" => wpc[t] # "hw" /\ \A c \in Clients : ~Bound(c, t))
  BY ConfiguringIsUnbound DEF HandJob
<1>1. /\ dpc = "hand" /\ dpc' = "give"
      /\ UNCHANGED <<active_uuid, fabric, packet, wpc, dwork>>
      /\ load_err' = [load_err EXCEPT ![t] = err]
      /\ load_err \in [SlotIdx -> {"OK", "EIO"}]
  BY <1>0 DEF HandJob, clientVars, itemVars, workerVars, JobShape, JobTypes
<1>2. wpc[t] # "hw" /\ \A c \in Clients : ~Bound(c, t)
  BY <1>0, <1>1
<1>3. \A s \in SlotIdx, c \in Clients : Bound(c, s)' <=> Bound(c, s) \/ (c = dwork /\ s = t)
  BY <1>0, <1>1, HandJobHolders DEF Bound
<1>4. \A s \in SlotIdx, c \in Clients : Wanted(s, c)' <=> Wanted(s, c)
  BY <1>1 DEF Wanted
<1>5. load_err'[t] = err /\ \A s \in SlotIdx \ {t} : load_err'[s] = load_err[s]
  BY <1>1, <1>2
<1>6. err = "OK" => Wanted(t, dwork)
  BY <1>0, <1>1 DEF ConfigInv
<1> QED
  BY <1>1, <1>2, <1>3, <1>4, <1>5, <1>6 DEF ConfigInv

LEMMA ConfigBoot ==
  ASSUME SlotInv, JobShape, ConfigInv, Boot
  PROVE  ConfigInv'
<1>1. /\ UNCHANGED <<fabric, load_err, packet>> /\ dpc' # "hand"
      /\ dpc \in {"detect", "exited", "setup"}
      /\ active_uuid' = active_uuid \/ (i \in SlotIdx /\ active_uuid' = [active_uuid EXCEPT ![i] = 0])
  <2> USE DEF slotVars, clientVars, itemVars
  <2>1. CASE SetupSlot
    <3>1. i \in SlotIdx
      BY <2>1, SizeAssumption DEF SetupSlot, SlotInv, SlotTypes, SlotIdx
    <3> QED
      BY <2>1, <3>1 DEF SetupSlot
  <2>2. CASE ~SetupSlot
    BY <2>2 DEF Boot, DeviceNotReady, DetectHardware, ServiceUp
  <2> QED
    BY <2>1, <2>2
<1>2. \A s \in SlotIdx : fabric[s] = NoPacket /\ active_uuid[s] = 0
  BY <1>1 DEF ConfigInv
<1>3. active_uuid' = active_uuid
  BY <1>1, <1>2 DEF ConfigInv
<1>4. \A s \in SlotIdx : wpc'[s] # "hw" /\ \A c \in Clients : ~Bound(c, s)'
  <2>1. \A s \in SlotIdx : wpc'[s] \in {"none", "take"}
    BY <1>1 DEF SlotInv, BootShape, SlotTypes, Boot, DeviceNotReady, DetectHardware, SetupSlot,
       ServiceUp, workerVars
  <2>2. \A s \in SlotIdx, c \in Clients : ~InSlot(c, s)'
    <3>1. \A s \in SlotIdx : state[s] = "FREE"
      BY <1>1 DEF SlotInv, BootShape
    <3>2. \A s \in SlotIdx, c \in Clients : ~InSlot(c, s)
      BY <3>1, SlotHolds
    <3> QED
      BY <3>2, BootHolders DEF PlacesKept, HoldersKept
  <2> QED
    BY <2>1, <2>2 DEF Bound
<1> QED
  BY <1>1, <1>2, <1>3, <1>4, PacketAssumption DEF ConfigInv

LEMMA ConfigWorker ==
  ASSUME SlotInv, JobShape, ConfigInv, NEW s \in SlotIdx, Worker(s)
  PROVE  ConfigInv'
<1>1. UNCHANGED <<active_uuid, fabric, load_err, packet, dpc, err, target_slot, dwork>>
  BY DEF Worker, TakeJob, EnterCallback, LeaveCallback, NoCallback, WriteStatus, StampSlot,
     FreeSlot, SignalDone, GiveSlot, slotVars, clientVars, itemVars, dispVars, scanVars
<1>2. \A t \in SlotIdx \ {s} : wpc'[t] = wpc[t]
  BY DEF Worker, TakeJob, EnterCallback, LeaveCallback, NoCallback, WriteStatus, StampSlot,
     FreeSlot, SignalDone, GiveSlot, SlotInv, SlotTypes
<1>3. CASE TakeJob(s)
  <2>1. wpc'[s] = "start"
    BY <1>3 DEF TakeJob, SlotInv, SlotTypes
  <2>2. \A t \in SlotIdx, c \in Clients : Bound(c, t)' => Bound(c, t)
    BY <1>2, <1>3, TakeJobHolders DEF Bound
  <2> QED
    BY <1>1, <1>2, <2>1, <2>2, ConfigKept
<1>4. CASE EnterCallback(s)
  <2>1. PlacesKept
    BY <1>4, RunHolders DEF RunStep
  <2>2. wpc[s] = "start" /\ (wpc'[s] = "hw" => load_err[s] = "OK")
    BY <1>4 DEF EnterCallback, SlotInv, SlotTypes
  <2>3. \A t \in SlotIdx, c \in Clients : Bound(c, t)' => Bound(c, t)
    BY <1>2, <2>1, <2>2 DEF Bound, PlacesKept, HoldersKept
  <2>4. \A t \in SlotIdx, c \in Clients : Wanted(t, c)' <=> Wanted(t, c)
    BY <1>1 DEF Wanted
  <2>5. dpc' = "hand" /\ err' = "OK" => Wanted(target_slot, dwork)'
    BY <1>1 DEF ConfigInv, Wanted
  <2> QED
    BY <1>1, <1>2, <2>2, <2>3, <2>4, <2>5 DEF ConfigInv
<1>5. CASE RunStep(s) /\ ~EnterCallback(s)
  <2>1. PlacesKept
    BY <1>5, RunHolders
  <2>2. wpc'[s] \notin {"start", "hw"}
    BY <1>5 DEF RunStep, LeaveCallback, NoCallback, WriteStatus, StampSlot, FreeSlot, GiveSlot,
       SlotInv, SlotTypes
  <2>3. \A t \in SlotIdx, c \in Clients : Bound(c, t)' => Bound(c, t)
    BY <1>2, <2>1, <2>2 DEF Bound, PlacesKept, HoldersKept
  <2> QED
    BY <1>1, <1>2, <2>2, <2>3, ConfigKept
<1>6. CASE SignalDone(s)
  <2>1. wpc'[s] = "give"
    BY <1>6 DEF SignalDone, SlotInv, SlotTypes
  <2>2. \A t \in SlotIdx, c \in Clients : Bound(c, t)' => Bound(c, t)
    BY <1>2, <1>6, SignalHolders DEF Bound
  <2> QED
    BY <1>1, <1>2, <2>1, <2>2, ConfigKept
<1> QED
  BY <1>3, <1>4, <1>5, <1>6 DEF Worker, RunStep

LEMMA ConfigStep ==
  ASSUME SlotInv, JobShape, Places, PacketShape, ConfigInv, [Next]_vars
  PROVE  ConfigInv'
<1>1. CASE GetJob
  <2>1. UNCHANGED <<active_uuid, fabric, load_err, packet, wpc>> /\ dpc' = "sem"
    BY <1>1 DEF GetJob, slotVars, itemVars, workerVars
  <2>2. \A t \in SlotIdx, c \in Clients : Bound(c, t)' => Bound(c, t)
    BY <1>1, <2>1, GetJobHolders DEF Bound
  <2> QED
    BY <2>1, <2>2, ConfigKept
<1>2. CASE WakeWorker
  <2>1. UNCHANGED <<active_uuid, fabric, load_err, packet, wpc>> /\ dpc' = "get"
    BY <1>2 DEF WakeWorker, clientVars, itemVars, workerVars
  <2>2. \A t \in SlotIdx, c \in Clients : Bound(c, t)' => Bound(c, t)
    BY <1>2, <2>1, WakeWorkerHolders DEF Bound, PlacesKept, HoldersKept
  <2> QED
    BY <2>1, <2>2, ConfigKept
<1>3. CASE Tick \/ UNCHANGED vars
  <2>1. UNCHANGED <<bootVars, slotVars, dispVars, workerVars, clientVars, fabric>>
    BY <1>3 DEF Tick, vars
  <2>2. Running' = Running
    BY <2>1 DEF Running, Slots, bootVars, workerVars
  <2>3. \A t \in SlotIdx, c \in Clients : Bound(c, t)' => Bound(c, t)
    BY <2>1, <2>2 DEF Bound, InSlot, InWorker, slotVars, workerVars
  <2> QED
    BY <2>1, <2>3, ConfigKept DEF slotVars, dispVars, scanVars, workerVars, clientVars, itemVars
<1> QED
  BY <1>1, <1>2, <1>3, ConfigBoot, ConfigClient, ConfigSearch, ConfigLoad, ConfigHandJob,
     ConfigWorker DEF Next, Dispatch

-----------------------------------------------------------------------------
(* The inductive invariant of the job layer, relative to SlotInv.          *)
JobInv == JobShape /\ Places /\ Progress /\ PacketShape /\ ConfigInv

LEMMA JobInit == Init => JobInv
  BY JobShapeInit, PlacesInit, ProgressInit, ConfigInit DEF JobInv

LEMMA JobStep == SlotInv /\ JobInv /\ [Next]_vars => JobInv'
<1> SUFFICES ASSUME SlotInv, JobInv, [Next]_vars PROVE JobInv'
  OBVIOUS
<1> USE DEF JobInv
<1>1. JobShape'
  BY JobShapeStep
<1>2. Places'
  BY PlacesStep
<1>3. Progress'
  BY <1>2, ProgressStep
<1>4. PacketShape'
  BY PacketShapeStep
<1>5. ConfigInv'
  BY ConfigStep
<1> QED
  BY <1>1, <1>2, <1>3, <1>4, <1>5

(* The job layer is right in every reachable state.                        *)
THEOREM JobLayer == Spec => []JobInv
  BY JobInit, JobStep, SlotLayer, PTL DEF Spec

(* Every variable of the daemon keeps its type: slot indices, job pointers *)
(* and semaphore counts in range, the queue within its capacity            *)
(* (manager.c:40, 55-58).                                                  *)
THEOREM ManagerTypes == Spec => []TypeOK
<1>1. SlotInv /\ JobInv => TypeOK
  BY DEF SlotInv, JobInv, JobShape, PacketShape, ConfigInv, TypeOK, DataTypes
<1> QED
  BY <1>1, SlotLayer, JobLayer, PTL

(* No pointer to a work item outlives the call whose stack it lives on     *)
(* (manager.c:266-287): whoever holds it, its caller is still blocked.     *)
THEOREM NoItemDangles == Spec => []NoDanglingItem
<1>1. JobInv => NoDanglingItem
  BY DEF JobInv, Places, HeldWhileWaiting, Held, NoDanglingItem
<1> QED
  BY <1>1, JobLayer, PTL

(* accel_execute returns after its job was answered exactly once, with the *)
(* status that answer wrote (manager.c:98-127, 281-286).                   *)
THEOREM JobsAreAnsweredOnce == Spec => []AnsweredOnce
<1>1. ASSUME JobInv, NEW c \in Clients
      PROVE  /\ runs[c] <= 1
             /\ cpc[c] = "returned" => runs[c] = 1 /\ status[c] # "uninit"
  <2> USE <1>1 DEF JobInv
  <2>1. cpc[c] = "returned" => Answered(c)
    BY DEF Progress
  <2>2. Unanswered(c) \/ Answered(c) \/ runs[c] = 0
    <3>1. cpc[c] \in ClientPoints /\ done_signal[c] \in {0, 1}
      BY DEF JobShape, JobTypes
    <3>2. CASE cpc[c] # "await" \/ done_signal[c] = 1
      BY <3>1, <3>2 DEF ClientPoints, Progress
    <3>3. CASE cpc[c] = "await" /\ done_signal[c] = 0
      <4>1. Held(c)
        BY <3>3 DEF Places, HeldWhileWaiting
      <4> QED
        BY <4>1 DEF Held, Progress
    <3> QED
      BY <3>1, <3>2, <3>3
  <2>3. "uninit" \notin ServiceResults
    BY DEF ServiceResults, CallbackResults
  <2> QED
    BY <2>1, <2>2, <2>3 DEF Answered, Unanswered
<1>2. JobInv => AnsweredOnce
  BY <1>1 DEF AnsweredOnce
<1> QED
  BY <1>2, JobLayer, PTL

-----------------------------------------------------------------------------
(* The holders of one item, as a set that can be counted.                  *)
QueuePlaces(c)      == {<<"queue", k>> : k \in {k \in 1 .. Len(accel_msgq) : accel_msgq[k] = c}}
PutterPlaces(c)     == {<<"putter", k>> : k \in {k \in 1 .. Len(putters) : putters[k] = c}}
DispatcherPlaces(c) == IF InDispatcher(c) THEN {<<"dispatcher", 0>>} ELSE {}
SlotPlaces(c)       == {<<"slot", s>> : s \in {s \in SlotIdx : InSlot(c, s)}}
WorkerPlaces(c)     == {<<"worker", s>> : s \in {s \in SlotIdx : InWorker(c, s)}}

LEMMA NoPlaces ==
  ASSUME NEW c \in Clients
  PROVE  /\ ~InQueue(c) => QueuePlaces(c) = {}
         /\ ~InPutters(c) => PutterPlaces(c) = {}
         /\ ~InDispatcher(c) => DispatcherPlaces(c) = {}
         /\ (\A s \in SlotIdx : ~InSlot(c, s)) => SlotPlaces(c) = {}
         /\ (\A s \in SlotIdx : ~InWorker(c, s)) => WorkerPlaces(c) = {}
  BY DEF QueuePlaces, PutterPlaces, DispatcherPlaces, SlotPlaces, WorkerPlaces, InQueue,
     InPutters

(* A blocked call has its item in exactly one place: the queue, a blocked  *)
(* put, the dispatcher, a slot, or a worker (manager.c:84-127, 190-254,    *)
(* 266-281).  No job is lost and none is handed to two slots.              *)
THEOREM JobsHaveOnePlace == Spec => []JobInOnePlace
<1>1. ASSUME JobInv, NEW c \in Clients, cpc[c] \in {"putting", "await"}, done_signal[c] = 0
      PROVE  \E p : QueuePlaces(c) \cup PutterPlaces(c) \cup DispatcherPlaces(c)
                      \cup SlotPlaces(c) \cup WorkerPlaces(c) = {p}
  <2> USE <1>1 DEF JobInv
  <2> DEFINE All == QueuePlaces(c) \cup PutterPlaces(c) \cup DispatcherPlaces(c)
                      \cup SlotPlaces(c) \cup WorkerPlaces(c)
  <2>1. CASE InPutters(c)
    <3>1. ~Held(c)
      BY <2>1 DEF Places, HeldWhileWaiting
    <3>2. PICK k \in 1 .. Len(putters) : putters[k] = c
      BY <2>1 DEF InPutters
    <3>3. \A j \in 1 .. Len(putters) : putters[j] = c => j = k
      BY <3>2 DEF Places, OneHolder, Distinct
    <3>4. PutterPlaces(c) = {<<"putter", k>>}
      BY <3>2, <3>3 DEF PutterPlaces
    <3>5. All = {<<"putter", k>>}
      BY <3>1, <3>4, NoPlaces DEF Held
    <3> QED
      BY <3>5
  <2>2. ASSUME ~InPutters(c)
        PROVE  Held(c) /\ PutterPlaces(c) = {}
    BY <2>2, NoPlaces DEF Places, HeldWhileWaiting
  <2>3. CASE InQueue(c)
    <3>1. ~InPutters(c) /\ ~InDispatcher(c) /\ \A s \in SlotIdx : ~InSlot(c, s) /\ ~InWorker(c, s)
      BY <2>3 DEF Places, OneHolder, HeldWhileWaiting, Held
    <3>2. PICK k \in 1 .. Len(accel_msgq) : accel_msgq[k] = c
      BY <2>3 DEF InQueue
    <3>3. \A j \in 1 .. Len(accel_msgq) : accel_msgq[j] = c => j = k
      BY <3>2 DEF Places, OneHolder, Distinct
    <3>4. QueuePlaces(c) = {<<"queue", k>>}
      BY <3>2, <3>3 DEF QueuePlaces
    <3>5. All = {<<"queue", k>>}
      BY <3>1, <3>4, NoPlaces
    <3> QED
      BY <3>5
  <2>4. CASE InDispatcher(c)
    <3>1. ~InPutters(c) /\ ~InQueue(c) /\ \A s \in SlotIdx : ~InSlot(c, s) /\ ~InWorker(c, s)
      BY <2>4 DEF Places, OneHolder, HeldWhileWaiting, Held
    <3>2. All = {<<"dispatcher", 0>>}
      BY <2>4, <3>1, NoPlaces DEF DispatcherPlaces
    <3> QED
      BY <3>2
  <2>5. ASSUME NEW s \in SlotIdx, InSlot(c, s)
        PROVE  \E p : All = {p}
    <3>1. /\ ~InPutters(c) /\ ~InQueue(c) /\ ~InDispatcher(c)
          /\ \A t \in SlotIdx : (InSlot(c, t) => t = s) /\ ~InWorker(c, t)
      BY <2>5 DEF Places, OneHolder, HeldWhileWaiting, Held
    <3>2. SlotPlaces(c) = {<<"slot", s>>}
      BY <2>5, <3>1 DEF SlotPlaces
    <3>3. All = {<<"slot", s>>}
      BY <3>1, <3>2, NoPlaces
    <3> QED
      BY <3>3
  <2>6. ASSUME NEW s \in SlotIdx, InWorker(c, s)
        PROVE  \E p : All = {p}
    <3>1. /\ ~InPutters(c) /\ ~InQueue(c) /\ ~InDispatcher(c)
          /\ \A t \in SlotIdx : (InWorker(c, t) => t = s) /\ ~InSlot(c, t)
      BY <2>6 DEF Places, OneHolder, HeldWhileWaiting, Held
    <3>2. WorkerPlaces(c) = {<<"worker", s>>}
      BY <2>6, <3>1 DEF WorkerPlaces
    <3>3. All = {<<"worker", s>>}
      BY <3>1, <3>2, NoPlaces
    <3> QED
      BY <3>3
  <2> QED
    BY <2>1, <2>2, <2>3, <2>4, <2>5, <2>6 DEF Held
<1>2. JobInv => JobInOnePlace
  <2> SUFFICES ASSUME JobInv, NEW c \in Clients, cpc[c] \in {"putting", "await"},
                      done_signal[c] = 0
               PROVE  Cardinality(QueuePlaces(c) \cup PutterPlaces(c) \cup DispatcherPlaces(c)
                                    \cup SlotPlaces(c) \cup WorkerPlaces(c)) = 1
    BY DEF JobInOnePlace, QueuePlaces, PutterPlaces, DispatcherPlaces, SlotPlaces, WorkerPlaces
  <2> QED
    BY <1>1, FS_Singleton
<1> QED
  BY <1>2, JobLayer, PTL

-----------------------------------------------------------------------------
(***************************************************************************)
(* Whose bitstream a job runs on.  The daemon tells bitstreams apart by    *)
(* their uuid alone, and takes 0 for "nothing loaded" (manager.c:152); the *)
(* packets decide whether that is enough.                                  *)
(***************************************************************************)
UuidsDistinct == \A p, q \in Packets : Uuid[p] = Uuid[q] => p = q
NoZeroUuid    == \A p \in Packets : Uuid[p] # 0

LEMMA RunningOnHardware ==
  ASSUME SlotInv, JobInv, NEW s \in SlotIdx, wpc[s] = "hw"
  PROVE  /\ packet[wwork[s]] \in Packets
         /\ active_uuid[s] = Uuid[packet[wwork[s]]]
         /\ fabric[s] \in Packets \cup {NoPacket, Partial}
         /\ fabric[s] = NoPacket => active_uuid[s] = 0
         /\ fabric[s] \in Packets => active_uuid[s] = Uuid[fabric[s]]
<1> USE DEF JobInv
<1>1. wwork[s] \in Clients /\ InWorker(wwork[s], s)
  BY DEF JobShape, SlotJob, JobTypes, InWorker
<1>2. cpc[wwork[s]] = "await"
  BY <1>1 DEF Places, HeldWhileWaiting, Held
<1>3. packet[wwork[s]] \in Packets
  BY <1>1, <1>2 DEF PacketShape
<1>4. Wanted(s, wwork[s])
  BY <1>1 DEF ConfigInv, Bound
<1> QED
  BY <1>3, <1>4 DEF ConfigInv, Wanted

(* With distinct uuids a job never runs on another packet's configuration, *)
(* only on its own, on what a failed stream left, or on a blank fabric.    *)
NoOtherPacket ==
  \A s \in Slots : wpc[s] = "hw" => fabric[s] \in {packet[wwork[s]], Partial, NoPacket}

LEMMA SlotsAreIndices == SlotInv => Slots \subseteq SlotIdx
  BY SlotRange DEF SlotInv, SlotTypes, Slots

THEOREM NoOtherPacketsBitstream ==
  ASSUME UuidsDistinct
  PROVE  Spec => []NoOtherPacket
<1>1. SlotInv /\ JobInv => NoOtherPacket
  BY RunningOnHardware, SlotsAreIndices DEF NoOtherPacket, UuidsDistinct
<1> QED
  BY <1>1, SlotLayer, JobLayer, PTL

(* A packet whose uuid is not 0 is always streamed before it first runs    *)
(* (manager.c:227-244); accel_dma_a.c gives its packet the uuid 0, which   *)
(* is what the run am_cold_uuid shows.                                     *)
THEOREM NonzeroUuidIsLoaded ==
  ASSUME NoZeroUuid
  PROVE  Spec => []LoadedBeforeUse
<1>1. SlotInv /\ JobInv => LoadedBeforeUse
  BY RunningOnHardware, SlotsAreIndices DEF LoadedBeforeUse, NoZeroUuid
<1> QED
  BY <1>1, SlotLayer, JobLayer, PTL

(* With uuids that are distinct and not 0, a job on the hardware finds its *)
(* own bitstream or what a failed stream left of one.                      *)
THEOREM ConfigIsNeverForeign ==
  ASSUME UuidsDistinct, NoZeroUuid
  PROVE  Spec => []NeverForeignConfig
<1>1. SlotInv /\ JobInv => NeverForeignConfig
  BY RunningOnHardware, SlotsAreIndices DEF NeverForeignConfig, UuidsDistinct, NoZeroUuid
<1> QED
  BY <1>1, SlotLayer, JobLayer, PTL

-----------------------------------------------------------------------------
(***************************************************************************)
(* The search for the best free slot.                                      *)
(***************************************************************************)

(* Every candidate stays free while the dispatcher searches, the loops     *)
(* have dealt with the candidates below i, and the target of the LRU loop  *)
(* is the oldest of them.                                                  *)
CandidateInv ==
  /\ HoldsToken => candidates \subseteq FreeSlots
  /\ dpc = "hit" => \A s \in candidates : s < i => ~Holds(s)
  /\ dpc = "lru" => \A s \in candidates :
       ~Holds(s) /\ (s < i => oldest_time <= last_used[s])
  /\ dpc = "lru" /\ target_slot # -1 => oldest_time = last_used[target_slot]
  /\ dpc = "lock" /\ ~Holds(target_slot) =>
       \A s \in candidates : ~Holds(s) /\ last_used[target_slot] <= last_used[s]

(* While the dispatcher searches, the others only free slots.              *)
LEMMA FreeSlotsStayFree ==
  ASSUME SlotInv, JobInv, HoldsToken,
         Tick \/ (\E c \in Clients : Client(c)) \/ (\E s \in SlotIdx : Worker(s))
           \/ UNCHANGED vars
  PROVE  /\ UNCHANGED <<dpc, i, target_slot, oldest_time, candidates, dwork, active_uuid>>
         /\ FreeSlots \subseteq FreeSlots'
         /\ packet'[dwork] = packet[dwork]
         /\ \A s \in FreeSlots : last_used'[s] = last_used[s]
<1>1. CASE Tick \/ UNCHANGED vars
  BY <1>1 DEF Tick, vars, bootVars, slotVars, dispVars, scanVars, clientVars, itemVars,
     FreeSlots, Slots
<1>2. ASSUME NEW c \in Clients, Client(c)
      PROVE  /\ UNCHANGED <<dpc, i, target_slot, oldest_time, candidates, dwork, active_uuid>>
             /\ FreeSlots \subseteq FreeSlots'
             /\ packet'[dwork] = packet[dwork]
             /\ \A s \in FreeSlots : last_used'[s] = last_used[s]
  <2>1. UNCHANGED <<bootVars, slotVars, dispVars>>
    BY <1>2 DEF Client, ExecuteRefused, ExecuteDone, Leave, Execute
  <2>2. dwork \in Clients /\ InDispatcher(dwork)
    BY DEF HoldsToken, JobInv, JobShape, JobTypes, DispatcherJob, InDispatcher
  <2>3. cpc[dwork] = "await" /\ done_signal[dwork] = 0
    BY <2>2 DEF JobInv, Places, HeldWhileWaiting, Held
  <2>4. dwork # c \/ packet' = packet
    BY <1>2, <2>3 DEF Client, ExecuteRefused, ExecuteDone, Leave, Execute
  <2>5. packet'[dwork] = packet[dwork]
    BY <1>2, <2>2, <2>4 DEF Client, ExecuteRefused, ExecuteDone, Leave, Execute, JobInv,
       PacketShape
  <2> QED
    BY <2>1, <2>5 DEF bootVars, slotVars, dispVars, scanVars, FreeSlots, Slots
<1>3. ASSUME NEW s \in SlotIdx, Worker(s)
      PROVE  /\ UNCHANGED <<dpc, i, target_slot, oldest_time, candidates, dwork, active_uuid>>
             /\ FreeSlots \subseteq FreeSlots'
             /\ packet'[dwork] = packet[dwork]
             /\ \A t \in FreeSlots : last_used'[t] = last_used[t]
  <2>1. /\ UNCHANGED <<bootVars, dispVars, active_uuid, packet>>
        /\ state' = state \/ state' = [state EXCEPT ![s] = "FREE"]
        /\ last_used' = last_used
             \/ (wpc[s] = "stamp" /\ last_used' = [last_used EXCEPT ![s] = now])
    BY <1>3 DEF Worker, TakeJob, EnterCallback, LeaveCallback, NoCallback, WriteStatus,
       StampSlot, FreeSlot, SignalDone, GiveSlot, slotVars, clientVars, itemVars
  <2>2. Slots \subseteq SlotIdx /\ Slots' = Slots
    BY <2>1, SlotsAreIndices DEF Slots, bootVars
  <2>3. FreeSlots \subseteq FreeSlots'
    BY <2>1, <2>2 DEF FreeSlots, SlotInv, SlotTypes
  <2>4. wpc[s] = "stamp" => s \notin FreeSlots
    BY DEF SlotInv, WorkerShape, SlotOwnership, Running, FreeSlots
  <2>5. \A t \in FreeSlots : last_used'[t] = last_used[t]
    BY <2>1, <2>2, <2>4 DEF FreeSlots, SlotInv, SlotTypes
  <2> QED
    BY <2>1, <2>3, <2>5 DEF dispVars, scanVars
<1> QED
  BY <1>1, <1>2, <1>3

LEMMA CandidateStep ==
  ASSUME ClockBelowMax, SlotInv, JobInv, SearchInv, CandidateInv, [Next]_vars
  PROVE  CandidateInv'
<1> USE DEF CandidateInv
<1>1. ASSUME dpc' \notin {"hit", "lru", "lock"}
      PROVE  CandidateInv'
  BY <1>1 DEF HoldsToken
<1>2. CASE Boot \/ GetJob \/ LockSlot \/ StreamBitstream \/ LoadVerified \/ LoadFailed
           \/ HandJob \/ WakeWorker
  BY <1>1, <1>2 DEF Boot, DeviceNotReady, DetectHardware, SetupSlot, ServiceUp, GetJob,
     LockSlot, StreamBitstream, LoadVerified, LoadFailed, HandJob, WakeWorker
<1>3. CASE TakeFreeSlot
  <2>1. i = 0 /\ i' = 0
    BY <1>3 DEF TakeFreeSlot, SlotInv, LoopShape
  <2>2. FreeSlots' = FreeSlots /\ candidates' = FreeSlots /\ dpc' = "hit"
    BY <1>3 DEF TakeFreeSlot, FreeSlots, Slots, bootVars, slotVars
  <2>3. \A s \in FreeSlots : ~(s < 0)
    BY DEF FreeSlots, Slots, SlotInv, SlotTypes
  <2> QED
    BY <2>1, <2>2, <2>3
<1>4. ASSUME CacheScan \/ CacheMiss \/ LruScan \/ LruDone
      PROVE  /\ FreeSlots' = FreeSlots /\ candidates' = candidates /\ HoldsToken /\ HoldsToken'
             /\ last_used' = last_used
             /\ candidates \subseteq FreeSlots /\ \A s \in candidates : s \in Int
             /\ \A s \in SlotIdx : Holds(s)' <=> Holds(s)
             /\ i \in 0 .. current_slot_count
  <2>1. UNCHANGED <<bootVars, slotVars, candidates, packet, dwork>>
        /\ HoldsToken /\ HoldsToken'
    BY <1>4 DEF CacheScan, CacheMiss, LruScan, LruDone, clientVars, itemVars, HoldsToken
  <2>2. FreeSlots' = FreeSlots
    BY <2>1 DEF FreeSlots, Slots, bootVars, slotVars
  <2> QED
    BY <2>1, <2>2 DEF slotVars, Holds, FreeSlots, Slots, SlotInv, SlotTypes
<1>5. CASE CacheScan
  <2>1. /\ dpc = "hit" /\ i \in Slots
        /\ IF CacheHit(i) THEN target_slot' = i /\ dpc' = "lock" /\ i' = 0
                          ELSE i' = i + 1 /\ target_slot' = target_slot /\ dpc' = dpc
    BY <1>5 DEF CacheScan, SlotInv, SlotTypes, Slots
  <2>2. i \in SlotIdx
    BY <2>1, SlotsAreIndices
  <2>3. CASE CacheHit(i)
    <3>1. PICK s \in SlotIdx : s = i
      BY <2>2
    <3>2. Holds(s)' /\ target_slot' = s
      BY <1>4, <1>5, <2>1, <2>3, <3>1 DEF CacheHit
    <3>3. Holds(target_slot)'
      BY <3>2 DEF Holds
    <3> QED
      BY <1>4, <1>5, <2>1, <2>3, <3>3
  <2>4. CASE ~CacheHit(i)
    <3>1. i \in candidates => ~Holds(i)
      BY <1>4, <1>5, <2>4 DEF CacheHit, FreeSlots
    <3>2. \A s \in candidates : s < i + 1 => s < i \/ s = i
      BY <1>4, <1>5
    <3>3. \A s \in candidates : s \in SlotIdx
      BY <1>4, <1>5, SlotsAreIndices DEF FreeSlots
    <3> QED
      BY <1>4, <1>5, <2>1, <2>4, <3>1, <3>2, <3>3
  <2> QED
    BY <2>3, <2>4
<1>6. CASE CacheMiss
  <2>1. dpc = "hit" /\ i = current_slot_count /\ dpc' = "lru" /\ i' = 0 /\ target_slot' = -1
    BY <1>6 DEF CacheMiss, SlotInv, LoopShape
  <2>2. \A s \in candidates : s < current_slot_count /\ ~(s < 0) /\ s \in SlotIdx
    BY <1>4, <1>6, SlotsAreIndices DEF FreeSlots, Slots, SlotInv, SlotTypes
  <2> QED
    BY <1>4, <1>6, <2>1, <2>2
<1>7. CASE LruScan
  <2>1. /\ dpc = "lru" /\ dpc' = "lru" /\ i \in Slots /\ i' = i + 1 /\ i # -1
        /\ IF IsOlderFree(i) THEN oldest_time' = Stamp(last_used[i]) /\ target_slot' = i
                             ELSE oldest_time' = oldest_time /\ target_slot' = target_slot
    BY <1>7 DEF LruScan, SlotInv, SlotTypes, Slots
  <2>2. i \in SlotIdx /\ last_used[i] \in Nat /\ Stamp(last_used[i]) = last_used[i]
    BY <2>1, SlotsAreIndices, StampIsExact DEF SlotInv, SlotTypes
  <2>3. \A s \in candidates : s \in SlotIdx /\ last_used[s] \in Nat /\ (s < i + 1 => s < i \/ s = i)
    BY <1>4, <1>7, SlotsAreIndices DEF FreeSlots, SlotInv, SlotTypes
  <2>4. oldest_time \in Nat
    BY SizeAssumption DEF SlotInv, SlotTypes, MaxStamp
  <2>5. CASE IsOlderFree(i)
    <3>1. oldest_time' = last_used[i] /\ target_slot' = i /\ last_used[i] < oldest_time
      BY <2>1, <2>2, <2>5 DEF IsOlderFree
    <3> QED
      BY <1>4, <1>7, <2>1, <2>2, <2>3, <2>4, <3>1
  <2>6. CASE ~IsOlderFree(i)
    <3>1. i \in candidates => oldest_time <= last_used[i]
      BY <1>4, <1>7, <2>2, <2>4, <2>6 DEF IsOlderFree, FreeSlots
    <3> QED
      BY <1>4, <1>7, <2>1, <2>3, <2>6, <3>1
  <2> QED
    BY <2>5, <2>6
<1>8. CASE LruDone
  <2>1. /\ dpc = "lru" /\ dpc' = "lock" /\ i = current_slot_count
        /\ target_slot' = target_slot
    BY <1>8 DEF LruDone
  <2>2. target_slot # -1 /\ target_slot \in SlotIdx
    BY <2>1 DEF SearchInv, SlotInv, SlotTypes, FreeSlots, Slots
  <2>3. \A s \in candidates : s < i /\ s \in SlotIdx
    BY <1>4, <1>8, <2>1, SlotsAreIndices DEF FreeSlots, Slots, SlotInv, SlotTypes
  <2> QED
    BY <1>4, <1>8, <2>1, <2>2, <2>3
<1>9. CASE Tick \/ (\E c \in Clients : Client(c)) \/ (\E s \in SlotIdx : Worker(s))
           \/ UNCHANGED vars
  <2>1. dpc' = dpc
    BY <1>9 DEF Tick, Client, ExecuteRefused, ExecuteDone, Leave, Execute, Worker, TakeJob,
       EnterCallback, LeaveCallback, NoCallback, WriteStatus, StampSlot, FreeSlot,
       SignalDone, GiveSlot, vars, dispVars
  <2>2. CASE HoldsToken
    <3>1. /\ UNCHANGED <<dpc, i, target_slot, oldest_time, candidates, dwork, active_uuid>>
          /\ FreeSlots \subseteq FreeSlots'
          /\ packet'[dwork] = packet[dwork]
          /\ \A s \in FreeSlots : last_used'[s] = last_used[s]
      BY <1>9, <2>2, FreeSlotsStayFree
    <3>2. \A s : Holds(s)' <=> Holds(s)
      BY <3>1 DEF Holds
    <3>3. dpc \in {"lru", "lock"} /\ target_slot # -1 => target_slot \in FreeSlots
      BY DEF SlotInv, LoopShape
    <3>4. dpc = "lock" => target_slot # -1
      BY DEF SearchInv, TargetFound
    <3> QED
      BY <2>2, <3>1, <3>2, <3>3, <3>4
  <2>3. CASE ~HoldsToken
    BY <1>1, <2>1, <2>3 DEF HoldsToken
  <2> QED
    BY <2>2, <2>3
<1> QED
  BY <1>2, <1>3, <1>5, <1>6, <1>7, <1>8, <1>9 DEF Next, Dispatch

(* The dispatcher locks a slot that holds the wanted bitstream if one was  *)
(* free when its search began, and else one of those used longest ago      *)
(* (manager.c:199-221), as long as the uptime fits 32 bits.                *)
THEOREM DispatcherTakesBestSlot ==
  ASSUME ClockBelowMax
  PROVE  Spec => []BestFreeSlot
<1>1. Init => SearchInv /\ CandidateInv
  BY DEF Init, SearchInv, TargetFound, CandidateInv, HoldsToken
<1>2. SlotInv /\ SlotInv' /\ SearchInv /\ [Next]_vars => SearchInv'
  BY SearchStep
<1>3. SlotInv /\ JobInv /\ SearchInv /\ CandidateInv /\ [Next]_vars => CandidateInv'
  BY CandidateStep
<1>4. CandidateInv => BestFreeSlot
  BY DEF CandidateInv, BestFreeSlot
<1> QED
  BY <1>1, <1>2, <1>3, <1>4, SlotLayer, JobLayer, PTL DEF Spec
=============================================================================
