------------------------- MODULE AccelServiceProofs -------------------------
(***************************************************************************)
(* The daemon implements the synchronous call of JobService: the safety    *)
(* half of the refinement that the run am_service checks with liveness.    *)
(* Each step of a thread is one step of the abstract service or none,      *)
(* under the mapping Phase of AccelManager.                                *)
(***************************************************************************)
EXTENDS AccelJobProofs

Serving(c) == \E s \in SlotIdx : InWorker(c, s)

(* What the refinement mapping shows of one call.                          *)
PhaseIs(c, p) ==
  \/ p = "idle" /\ cpc[c] = "idle"
  \/ p = "served" /\ (cpc[c] \in {"refused", "returned"} \/ done_signal[c] = 1)
  \/ p = "serving" /\ cpc[c] \in {"putting", "await"} /\ done_signal[c] = 0 /\ Serving(c)
  \/ p = "waiting" /\ cpc[c] \in {"putting", "await"} /\ done_signal[c] = 0 /\ ~Serving(c)

LEMMA PhaseValue ==
  ASSUME JobInv, NEW c \in Clients
  PROVE  \A p : Phase(c) = p <=> PhaseIs(c, p)
<1>1. /\ cpc[c] \in ClientPoints /\ done_signal[c] \in {0, 1}
      /\ done_signal[c] = 1 => cpc[c] = "await"
  BY DEF JobInv, JobShape, JobTypes, Places, HeldWhileWaiting
<1>2. CASE cpc[c] = "idle"
  <2>1. /\ cpc[c] \notin {"refused", "returned", "putting", "await"} /\ done_signal[c] # 1
        /\ ~(cpc[c] \in {"refused", "returned"} \/ done_signal[c] = 1)
        /\ ~(cpc[c] \in {"putting", "await"} /\ done_signal[c] = 0)
    BY <1>1, <1>2
  <2>2. Phase(c) = "idle"
    BY <1>2, <2>1, Zenon DEF Phase
  <2> QED
    BY <1>2, <2>1, <2>2 DEF PhaseIs
<1>3. CASE cpc[c] \in {"refused", "returned"} \/ done_signal[c] = 1
  <2>1. /\ cpc[c] # "idle"
        /\ ~(cpc[c] \in {"putting", "await"} /\ done_signal[c] = 0)
    BY <1>1, <1>3
  <2>2. Phase(c) = "served"
    BY <1>3, <2>1, Zenon DEF Phase
  <2> QED
    BY <1>3, <2>1, <2>2 DEF PhaseIs
<1>4. CASE cpc[c] \in {"putting", "await"} /\ done_signal[c] = 0
  <2>1. cpc[c] # "idle" /\ ~(cpc[c] \in {"refused", "returned"} \/ done_signal[c] = 1)
    BY <1>4
  <2>2. Phase(c) = IF \E s \in SlotIdx : wwork[s] = c THEN "serving" ELSE "waiting"
    BY <1>4, <2>1, Zenon DEF Phase
  <2> QED
    BY <1>4, <2>1, <2>2 DEF PhaseIs, Serving, InWorker
<1> QED
  BY <1>1, <1>2, <1>3, <1>4 DEF ClientPoints

PhasesFollow == \A c \in Clients : \A p : Phase(c) = p <=> PhaseIs(c, p)

LEMMA PhaseValues == JobInv => PhasesFollow
  BY PhaseValue DEF PhasesFollow

LEMMA PhaseValuesPrimed == JobInv' => PhasesFollow'
  BY PhaseValues, PTL

(* The same of the next state.                                             *)
LEMMA PhaseValueNext ==
  ASSUME JobInv'
  PROVE  \A c \in Clients : \A p : Phase(c)' = p <=> PhaseIs(c, p)'
  BY PhaseValuesPrimed DEF PhasesFollow

(* The result the mapping shows is the status of a served call.            *)
Shown(c) == IF Phase(c) = "served" THEN status[c] ELSE "uninit"

(* A step that changes no phase, and no status of a served call, is a      *)
(* stutter of the service.                                                 *)
LEMMA ServiceStutter ==
  ASSUME \A c \in Clients : Phase(c)' = Phase(c),
         \A c \in Clients : Phase(c) = "served" => status'[c] = status[c]
  PROVE  UNCHANGED Service!vars
<1>1. [c \in Clients |-> Phase(c)]' = [c \in Clients |-> Phase(c)]
  OBVIOUS
<1>2. [c \in Clients |-> Shown(c)]' = [c \in Clients |-> Shown(c)]
  BY DEF Shown
<1> QED
  BY <1>1, <1>2 DEF Service!vars, Shown

(* A step that changes the phase of one call.                              *)
LEMMA ServiceMove ==
  ASSUME NEW c \in Clients, NEW to, Phase(c)' = to,
         \A d \in Clients \ {c} : Phase(d)' = Phase(d),
         \A d \in Clients \ {c} : Phase(d) = "served" => status'[d] = status[d]
  PROVE  /\ Service!Move(c, Phase(c), to)
         /\ \A r : (to = "served" /\ status'[c] = r) \/ (to # "served" /\ r = "uninit")
              => [d \in Clients |-> Shown(d)]' = [[d \in Clients |-> Shown(d)] EXCEPT ![c] = r]
<1>1. [d \in Clients |-> Phase(d)]' = [[d \in Clients |-> Phase(d)] EXCEPT ![c] = to]
  OBVIOUS
<1>2. [d \in Clients |-> Phase(d)][c] = Phase(c)
  OBVIOUS
<1>3. \A d \in Clients \ {c} : Shown(d)' = Shown(d)
  BY DEF Shown
<1>4. ASSUME NEW r, (to = "served" /\ status'[c] = r) \/ (to # "served" /\ r = "uninit")
      PROVE  [d \in Clients |-> Shown(d)]' = [[d \in Clients |-> Shown(d)] EXCEPT ![c] = r]
  <2>1. Shown(c)' = r
    BY <1>4 DEF Shown
  <2> QED
    BY <1>3, <2>1
<1> QED
  BY <1>1, <1>2, <1>4 DEF Service!Move

-----------------------------------------------------------------------------
(* One worker per slot bounds the calls that are served at a time: while   *)
(* the worker of some slot has no item, fewer than MaxSlots are.           *)
LEMMA ServingBelowCapacity ==
  ASSUME JobInv, NEW s \in SlotIdx, wwork[s] = NoJob
  PROVE  Cardinality({c \in Clients : Phase(c) = "serving"}) < MaxSlots
<1> DEFINE others == SlotIdx \ {s}
           items  == {wwork[t] : t \in others}
           f      == [t \in others |-> wwork[t]]
<1>1. IsFiniteSet(others) /\ Cardinality(others) = MaxSlots - 1
  <2>1. MaxSlots \in Nat /\ MaxSlots - 1 \in Int
    BY SizeAssumption
  <2>2. IsFiniteSet(SlotIdx) /\ Cardinality(SlotIdx) = MaxSlots
    BY <2>1, SizeAssumption, FS_Interval DEF SlotIdx
  <2> QED
    BY <2>2, FS_RemoveElement
<1>2. f \in Surjection(others, items)
  BY DEF Surjection
<1>3. IsFiniteSet(items) /\ Cardinality(items) <= MaxSlots - 1
  <2> HIDE DEF others, items, f
  <2> QED
    BY <1>1, <1>2, FS_Surjection
<1>4. {c \in Clients : Phase(c) = "serving"} \subseteq items
  <2> SUFFICES ASSUME NEW c \in Clients, Phase(c) = "serving"
               PROVE  c \in items
    OBVIOUS
  <2>1. PICK t \in SlotIdx : wwork[t] = c
    BY PhaseValue DEF PhaseIs, Serving, InWorker
  <2>2. t # s
    BY <2>1, ClientAssumption
  <2> QED
    BY <2>1, <2>2
<1>5. /\ IsFiniteSet({c \in Clients : Phase(c) = "serving"})
      /\ Cardinality({c \in Clients : Phase(c) = "serving"}) <= Cardinality(items)
  <2> HIDE DEF items
  <2> QED
    BY <1>3, <1>4, FS_Subset
<1>6. /\ Cardinality(items) \in Nat
      /\ Cardinality({c \in Clients : Phase(c) = "serving"}) \in Nat
  <2> HIDE DEF items
  <2> QED
    BY <1>3, <1>5, FS_CardinalityType
<1> HIDE DEF items, others
<1> QED
  BY <1>3, <1>5, <1>6, SizeAssumption

-----------------------------------------------------------------------------
(* The cardinality of JobService is the one of this module.                *)
LEMMA ServiceCardinality == \A S : Service!Cardinality(S) = Cardinality(S)
  BY Zenon DEF Service!Cardinality, Cardinality, Service!IsFiniteSet, IsFiniteSet

LEMMA ServiceInit == Init => Service!Init
<1> SUFFICES ASSUME Init PROVE Service!Init
  OBVIOUS
<1>1. \A c \in Clients : PhaseIs(c, "idle")
  BY DEF Init, PhaseIs
<1>2. \A c \in Clients : Phase(c) = "idle"
  BY <1>1, JobInit, PhaseValue
<1> QED
  BY <1>2 DEF Service!Init

(* The steps of a caller: refused, submitted, woken up, or gone.           *)
LEMMA ServiceClient ==
  ASSUME SlotInv, JobInv, JobInv', NEW c \in Clients, Client(c)
  PROVE  Service!Next \/ UNCHANGED Service!vars
<1>1. /\ cpc \in [Clients -> ClientPoints] /\ done_signal \in [Clients -> 0 .. 1]
      /\ status \in [Clients -> Statuses]
  BY DEF JobInv, JobShape, JobTypes
<1>2. \A d \in Clients : Serving(d)' <=> Serving(d)
  BY ClientHolders DEF Serving, HoldersKept
<1>3. ASSUME NEW d \in Clients, d # c
      PROVE  /\ cpc'[d] = cpc[d] /\ done_signal'[d] = done_signal[d]
             /\ status'[d] = status[d]
  <2>1. CASE ExecuteRefused(c)
    BY <1>1, <1>3, <2>1 DEF ExecuteRefused
  <2>2. CASE ExecuteDone(c)
    BY <1>1, <1>3, <2>2 DEF ExecuteDone
  <2>3. CASE Leave(c)
    BY <1>1, <1>3, <2>3 DEF Leave
  <2>4. ASSUME NEW p \in Packets, Execute(c, p)
        PROVE  /\ cpc'[d] = cpc[d] /\ done_signal'[d] = done_signal[d]
               /\ status'[d] = status[d]
    BY <1>1, <1>3, <2>4 DEF Execute
  <2> QED
    BY <2>1, <2>2, <2>3, <2>4 DEF Client
<1>4. \A d \in Clients \ {c} : \A p : PhaseIs(d, p)' <=> PhaseIs(d, p)
  BY <1>2, <1>3 DEF PhaseIs
<1>5. \A d \in Clients \ {c} : Phase(d)' = Phase(d)
  BY <1>4, PhaseValue, PhaseValueNext
<1>6. \A d \in Clients \ {c} : status'[d] = status[d]
  BY <1>3
<1>7. CASE ExecuteRefused(c)
  <2>1. /\ cpc[c] = "idle" /\ cpc'[c] = "refused"
        /\ \E r \in {"EINVAL", "ENODEV"} : status'[c] = r
    BY <1>1, <1>7 DEF ExecuteRefused
  <2>2. Phase(c) = "idle" /\ Phase(c)' = "served"
    BY <2>1, PhaseValue, PhaseValueNext DEF PhaseIs
  <2>3. Service!Refuse(c)
    BY <1>5, <1>6, <2>1, <2>2, ServiceMove DEF Service!Refuse, Shown
  <2> QED
    BY <2>3 DEF Service!Next
<1>8. ASSUME NEW p \in Packets, Execute(c, p)
      PROVE  Service!Next
  <2>1. cpc[c] = "idle" /\ cpc'[c] \in {"await", "putting"} /\ done_signal'[c] = 0
    BY <1>1, <1>8 DEF Execute
  <2>2. ~Serving(c)
    BY <2>1 DEF JobInv, Places, HeldWhileWaiting, Held, Serving
  <2>3. Phase(c) = "idle" /\ Phase(c)' = "waiting"
    BY <1>2, <2>1, <2>2, PhaseValue, PhaseValueNext DEF PhaseIs
  <2>4. [d \in Clients |-> Shown(d)]' = [d \in Clients |-> Shown(d)]
    BY <1>5, <1>6, <2>3 DEF Shown
  <2>5. Service!Submit(c)
    BY <1>5, <1>6, <2>3, <2>4, ServiceMove DEF Service!Submit, Shown
  <2> QED
    BY <2>5 DEF Service!Next
<1>9. CASE ExecuteDone(c)
  <2>1. /\ cpc[c] = "await" /\ done_signal[c] = 1 /\ cpc'[c] = "returned"
        /\ status' = status
    BY <1>1, <1>9 DEF ExecuteDone
  <2>2. Phase(c) = "served" /\ Phase(c)' = "served"
    BY <2>1, PhaseValue, PhaseValueNext DEF PhaseIs
  <2> QED
    BY <1>5, <2>1, <2>2, ServiceStutter
<1>10. CASE Leave(c)
  <2>1. cpc[c] \in {"refused", "returned"} /\ cpc'[c] = "idle"
    BY <1>1, <1>10 DEF Leave
  <2>2. Phase(c) = "served" /\ Phase(c)' = "idle"
    BY <2>1, PhaseValue, PhaseValueNext DEF PhaseIs
  <2>3. Service!Return(c)
    BY <1>5, <1>6, <2>2, ServiceMove DEF Service!Return, Shown
  <2> QED
    BY <2>3 DEF Service!Next
<1> QED
  BY <1>7, <1>8, <1>9, <1>10 DEF Client

(* A worker takes the item: the call is served from now on.                *)
LEMMA ServiceTakeJob ==
  ASSUME SlotInv, JobInv, JobInv', NEW s \in SlotIdx, TakeJob(s)
  PROVE  Service!Next
<1>1. UNCHANGED <<cpc, done_signal, status>> /\ wpc[s] = "take" /\ job_ready_sem[s] = 1
  BY DEF TakeJob, clientVars, itemVars, SlotInv, SlotTypes
<1>2. PICK c \in Clients : current_job[s] = c
  BY <1>1 DEF JobInv, JobShape, SlotJob, JobTypes
<1>3. s \notin Running /\ InSlot(c, s) /\ \A d \in Clients : InSlot(d, s) => d = c
  BY <1>1, <1>2 DEF InSlot, Running
<1>4. ~Serving(c) /\ cpc[c] = "await" /\ done_signal[c] = 0
  BY <1>3 DEF JobInv, Places, OneHolder, HeldWhileWaiting, Held, Serving
<1>5. Serving(c)'
  BY <1>3, TakeJobHolders DEF JobInv, Serving
<1>6. \A d \in Clients \ {c} : Serving(d)' <=> Serving(d)
  BY <1>3, TakeJobHolders DEF JobInv, Serving
<1>7. Phase(c) = "waiting" /\ Phase(c)' = "serving"
  BY <1>1, <1>4, <1>5, PhaseValue, PhaseValueNext DEF PhaseIs
<1>8. \A d \in Clients \ {c} : Phase(d)' = Phase(d)
  <2>1. \A d \in Clients \ {c} : \A p : PhaseIs(d, p)' <=> PhaseIs(d, p)
    BY <1>1, <1>6 DEF PhaseIs
  <2> QED
    BY <2>1, PhaseValue, PhaseValueNext
<1>9. [d \in Clients |-> Shown(d)]' = [d \in Clients |-> Shown(d)]
  BY <1>1, <1>7, <1>8 DEF Shown
<1>10. Cardinality({d \in Clients : [e \in Clients |-> Phase(e)][d] = "serving"}) < MaxSlots
  <2>1. wwork[s] = NoJob
    BY <1>1 DEF JobInv, JobShape, SlotJob
  <2>2. {d \in Clients : [e \in Clients |-> Phase(e)][d] = "serving"}
          = {d \in Clients : Phase(d) = "serving"}
    OBVIOUS
  <2> QED
    BY <2>1, <2>2, ServingBelowCapacity
<1>11. Service!Move(c, "waiting", "serving")
  BY <1>1, <1>7, <1>8, ServiceMove
<1>12. Service!Begin(c)
  BY <1>9, <1>10, <1>11, ServiceCardinality, Zenon DEF Service!Begin, Shown
<1> QED
  BY <1>12 DEF Service!Next

(* done_signal is given: the call has been served, with its result.        *)
LEMMA ServiceSignal ==
  ASSUME SlotInv, JobInv, JobInv', NEW s \in SlotIdx, SignalDone(s)
  PROVE  Service!Next
<1>1. PICK c \in Clients : wwork[s] = c
  BY SignalHolders DEF JobInv
<1>2. /\ UNCHANGED <<cpc, status>> /\ wpc[s] = "signal"
      /\ done_signal' = [done_signal EXCEPT ![c] = Give(@, 1)]
      /\ done_signal \in [Clients -> 0 .. 1]
  BY <1>1 DEF SignalDone, JobInv, JobShape, JobTypes
<1>3. InWorker(c, s) /\ \A d \in Clients : InWorker(d, s) => d = c
  BY <1>1 DEF InWorker
<1>4. /\ Serving(c) /\ cpc[c] = "await" /\ done_signal[c] = 0
      /\ Answered(c)
  BY <1>2, <1>3 DEF JobInv, Places, HeldWhileWaiting, Held, Serving, Progress, BeforeStatus
<1>5. /\ done_signal'[c] = 1
      /\ \A d \in Clients \ {c} : done_signal'[d] = done_signal[d]
  <2>1. Give(done_signal[c], 1) = 1
    BY <1>4 DEF Give
  <2> QED
    BY <1>2, <2>1
<1>6. \A d \in Clients \ {c} : Serving(d)' <=> Serving(d)
  BY <1>3, SignalHolders DEF JobInv, Serving
<1>7. Phase(c) = "serving" /\ Phase(c)' = "served"
  BY <1>2, <1>4, <1>5, PhaseValue, PhaseValueNext DEF PhaseIs
<1>8. \A d \in Clients \ {c} : Phase(d)' = Phase(d)
  <2>1. \A d \in Clients \ {c} : \A p : PhaseIs(d, p)' <=> PhaseIs(d, p)
    BY <1>2, <1>5, <1>6 DEF PhaseIs
  <2> QED
    BY <2>1, PhaseValue, PhaseValueNext
<1>9. \E r \in CallbackResults \cup {"ENOSYS"} : status'[c] = r
  BY <1>2, <1>4 DEF Answered, ServiceResults
<1>10. Service!Finish(c)
  BY <1>2, <1>7, <1>8, <1>9, ServiceMove DEF Service!Finish, Shown
<1> QED
  BY <1>10 DEF Service!Next

(* Every other step of the daemon is invisible to the callers.             *)
LEMMA ServiceInvisible ==
  ASSUME SlotInv, JobInv, JobInv',
         \/ Boot \/ Dispatch \/ Tick \/ UNCHANGED vars
         \/ \E s \in SlotIdx : RunStep(s)
  PROVE  UNCHANGED Service!vars
<1>1. \A c \in Clients : Serving(c)' <=> Serving(c)
  <2>1. CASE Boot
    BY <2>1, BootHolders DEF JobInv, PlacesKept, HoldersKept, Serving
  <2>2. CASE GetJob
    BY <2>2, GetJobHolders DEF JobInv, Serving
  <2>3. CASE Searching
    BY <2>3, SearchingHolders DEF PlacesKept, HoldersKept, Serving
  <2>4. CASE HandJob
    BY <2>4, HandJobHolders DEF JobInv, Serving
  <2>5. CASE WakeWorker
    BY <2>5, WakeWorkerHolders DEF JobInv, PlacesKept, HoldersKept, Serving
  <2>6. CASE Tick \/ UNCHANGED vars
    BY <2>6 DEF Tick, vars, workerVars, InWorker, Serving
  <2>7. ASSUME NEW s \in SlotIdx, RunStep(s)
        PROVE  \A c \in Clients : Serving(c)' <=> Serving(c)
    BY <2>7, RunHolders DEF JobInv, PlacesKept, HoldersKept, Serving
  <2> QED
    BY <2>1, <2>2, <2>3, <2>4, <2>5, <2>6, <2>7 DEF Dispatch, Searching
<1>2. done_signal' = done_signal
  BY SearchingFrame DEF Boot, DeviceNotReady, DetectHardware, SetupSlot, ServiceUp, Dispatch,
     Searching, GetJob, HandJob, WakeWorker, Tick, vars, RunStep, EnterCallback,
     LeaveCallback, NoCallback, WriteStatus, StampSlot, FreeSlot, GiveSlot, clientVars, itemVars
<1>3. \A c \in Clients : cpc'[c] = cpc[c] \/ (cpc[c] = "putting" /\ cpc'[c] = "await")
  <2>1. CASE GetJob
    <3>1. cpc' = cpc \/ (putters # <<>> /\ cpc' = [cpc EXCEPT ![Head(putters)] = "await"])
      BY <2>1 DEF GetJob
    <3>2. ASSUME putters # <<>>
          PROVE  Head(putters) \in Clients /\ cpc[Head(putters)] = "putting"
      <4>1. Len(putters) \in Nat \ {0} /\ putters \in Seq(Clients) /\ Head(putters) = putters[1]
        BY <3>2, EmptySeq DEF JobInv, JobShape, JobTypes
      <4>2. Head(putters) \in Clients /\ InPutters(Head(putters))
        BY <3>2, <4>1, HeadTailProperties DEF InPutters
      <4> QED
        BY <4>2 DEF JobInv, Places, HeldWhileWaiting
    <3> QED
      BY <3>1, <3>2 DEF JobInv, JobShape, JobTypes
  <2>2. CASE ~GetJob
    <3>1. cpc' = cpc
      BY <2>2, SearchingFrame DEF Boot, DeviceNotReady, DetectHardware, SetupSlot, ServiceUp,
         Dispatch, Searching, HandJob, WakeWorker, Tick, vars, RunStep, EnterCallback,
         LeaveCallback, NoCallback, WriteStatus, StampSlot, FreeSlot, GiveSlot, clientVars,
         itemVars
    <3> QED
      BY <3>1
  <2> QED
    BY <2>1, <2>2
<1>4. ASSUME NEW c \in Clients
      PROVE  Phase(c)' = Phase(c)
  <2>1. \A p : PhaseIs(c, p) => PhaseIs(c, p)'
    BY <1>1, <1>2, <1>3 DEF PhaseIs
  <2> QED
    BY <2>1, PhaseValue, PhaseValueNext
<1>5. ASSUME NEW c \in Clients, Phase(c) = "served"
      PROVE  status'[c] = status[c]
  <2>1. CASE UNCHANGED status
    BY <2>1
  <2>2. ASSUME NEW s \in SlotIdx, LeaveCallback(s) \/ NoCallback(s)
        PROVE  status'[c] = status[c]
    <3>1. /\ wwork[s] \in Clients /\ InWorker(wwork[s], s)
          /\ \E r : status' = [status EXCEPT ![wwork[s]] = r]
      BY <2>2 DEF LeaveCallback, NoCallback, WriteStatus, JobInv, JobShape, SlotJob, JobTypes,
         InWorker
    <3>2. Serving(wwork[s]) /\ cpc[wwork[s]] = "await" /\ done_signal[wwork[s]] = 0
      BY <3>1 DEF Serving, JobInv, Places, HeldWhileWaiting, Held
    <3>3. c # wwork[s]
      BY <1>5, <3>2, PhaseValue, PhaseValueNext DEF PhaseIs
    <3> QED
      BY <3>1, <3>3 DEF JobInv, JobShape, JobTypes
  <2>3. CASE ~(\E s \in SlotIdx : LeaveCallback(s) \/ NoCallback(s))
    <3>1. status' = status
      BY <2>3, SearchingFrame DEF Boot, DeviceNotReady, DetectHardware, SetupSlot, ServiceUp,
         Dispatch, Searching, GetJob, HandJob, WakeWorker, Tick, vars, RunStep,
         EnterCallback, StampSlot, FreeSlot, GiveSlot, clientVars, itemVars
    <3> QED
      BY <3>1
  <2> QED
    BY <2>2, <2>3
<1> QED
  BY <1>4, <1>5, ServiceStutter

LEMMA ServiceStep ==
  SlotInv /\ JobInv /\ JobInv' /\ [Next]_vars => [Service!Next]_(Service!vars)
<1> SUFFICES ASSUME SlotInv, JobInv, JobInv', [Next]_vars
             PROVE  Service!Next \/ UNCHANGED Service!vars
  OBVIOUS
<1>1. CASE Boot \/ Dispatch \/ Tick \/ UNCHANGED vars
  BY <1>1, ServiceInvisible
<1>2. ASSUME NEW s \in SlotIdx, Worker(s)
      PROVE  Service!Next \/ UNCHANGED Service!vars
  BY <1>2, ServiceTakeJob, ServiceSignal, ServiceInvisible DEF Worker, RunStep
<1> QED
  BY <1>1, <1>2, ServiceClient DEF Next

(* accel_execute is the synchronous call accel_platform.h documents: a     *)
(* call is refused or waits, is served exactly once on one of MAX_SLOTS    *)
(* slots, and returns the result of that service (manager.c:84-127,        *)
(* 186-254, 257-287).                                                      *)
THEOREM DaemonIsJobService == Spec => Service!Spec
  BY ServiceInit, ServiceStep, SlotLayer, JobLayer, PTL DEF Spec, Service!Spec
=============================================================================
