----------------------------- MODULE JobService -----------------------------
(***************************************************************************)
(* What accel_platform.h promises of accel_execute: a synchronous call.    *)
(* "Execute an acceleration task (Synchronous)": a call is refused, or it  *)
(* waits, is served exactly once on one of Capacity accelerator slots, and *)
(* returns the result of that service.  No queue, semaphore, slot state or *)
(* bitstream appears here.                                                 *)
(***************************************************************************)
EXTENDS Naturals, FiniteSets

CONSTANTS Clients, Results, Refusals, Capacity, NoResult

VARIABLES phase, result

vars == <<phase, result>>

Move(c, from, to) == phase[c] = from /\ phase' = [phase EXCEPT ![c] = to]

Init ==
  /\ phase = [c \in Clients |-> "idle"]
  /\ result = [c \in Clients |-> NoResult]

Refuse(c) ==
  /\ Move(c, "idle", "served")
  /\ \E r \in Refusals : result' = [result EXCEPT ![c] = r]

Submit(c) == Move(c, "idle", "waiting") /\ UNCHANGED result

Begin(c) ==
  /\ Cardinality({d \in Clients : phase[d] = "serving"}) < Capacity
  /\ Move(c, "waiting", "serving")
  /\ UNCHANGED result

Finish(c) ==
  /\ Move(c, "serving", "served")
  /\ \E r \in Results : result' = [result EXCEPT ![c] = r]

Return(c) ==
  /\ Move(c, "served", "idle")
  /\ result' = [result EXCEPT ![c] = NoResult]

Next == \E c \in Clients :
  Refuse(c) \/ Submit(c) \/ Begin(c) \/ Finish(c) \/ Return(c)

Spec == Init /\ [][Next]_vars

(* A waiting call is not passed over for ever, and service ends.           *)
LiveSpec == Spec /\ \A c \in Clients : SF_vars(Begin(c)) /\ WF_vars(Finish(c))
=============================================================================
