-------------------------- MODULE FabulousDriverMC --------------------------
(* Instances of FabulousDriver for TLC.                                    *)
EXTENDS FabulousDriver

CONSTANTS t1, t2

(* Two fragments: one that is padded to a word by itself, and a full word. *)
UnevenImage == {<< <<1>>, <<2, 3, 4, 5>> >>}

Probed == {[magic |-> "FAB"], [magic |-> "DEA"]}
=============================================================================
