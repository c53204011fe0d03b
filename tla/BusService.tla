----------------------------- MODULE BusService -----------------------------
(***************************************************************************)
(* What the bus promises to a port of the CPU: an access is performed at   *)
(* most once, is answered with success only after it was performed, and is *)
(* never performed once it has been answered.  An error says nothing: an   *)
(* access that was given up may have been performed.  Several ports may    *)
(* move in one clock.                                                      *)
(***************************************************************************)
EXTENDS Naturals

CONSTANT Ports

VARIABLES
  open,   \* [Ports -> BOOLEAN]: an access waits for its answer
  done,   \* [Ports -> Nat]: how often the last access was performed
  failed  \* [Ports -> BOOLEAN]: the answer given in this clock is an error

Init ==
  /\ open = [p \in Ports |-> FALSE]
  /\ done = [p \in Ports |-> 0]

Issue(p) == ~open[p] /\ open'[p] /\ done'[p] \in {0, 1}
Perform(p) == open[p] /\ open'[p] /\ done[p] = 0 /\ done'[p] = 1
Succeed(p) == open[p] /\ ~open'[p] /\ ~failed[p] /\ done[p] = 1 /\ done'[p] = 1
Fail(p) == open[p] /\ ~open'[p] /\ failed[p] /\ done'[p] \in {done[p], 1}
Keep(p) == open'[p] = open[p] /\ done'[p] = done[p]

vars == <<open, done>>
Next == \A p \in Ports : Issue(p) \/ Perform(p) \/ Succeed(p) \/ Fail(p) \/ Keep(p)
Spec == Init /\ [][Next]_vars
=============================================================================
