--------------------------- MODULE MCShiftOutages ---------------------------
(***************************************************************************)
(* One phone, one pair of glasses and the shift ledger for TLC, with the   *)
(* bounds put where each part needs them: the part of the outages, whose   *)
(* bounds are the constants, has only what wifi does but more connections  *)
(* and time; that of the faults (F) has every fault but few connections    *)
(* and no time.  A run takes one part.                                     *)
(***************************************************************************)
EXTENDS ShiftFloor, TLC

VARIABLE part

\* Bound: connections of the part that has every fault.
FaultySocks == 2

FewConnections == sock' <= FaultySocks /\ (Launch => sock < FaultySocks)

F == INSTANCE ShiftFloor WITH MaxTime <- 0, Faults <- FaultKinds

OutagesInit ==
  \/ part = "faults" /\ F!Init
  \/ part = "outages" /\ Init

OutagesNext ==
  /\ \/ part = "faults" /\ F!Next /\ FewConnections
     \/ part = "outages" /\ Next
  /\ UNCHANGED part

OutagesSpec ==
  OutagesInit /\ [][OutagesNext]_<<part, vars>>

Symmetry == Permutations(Shift)

-----------------------------------------------------------------------------
(* The properties that only outages leave standing: a page that is killed, *)
(* or starts anew while its store is slow, can have two starts out.  Each  *)
(* is described in ShiftFloor, as those of both parts are.                 *)

\* One pair of glasses has one open shift (shifts.py, start).
FloorOneOpenPerGlasses == part = "outages" => OneOpenPerGlasses
\* Wifi that comes and goes makes no second shift of one outing (shift.ts, open).
FloorOneShiftPerOuting == [][part = "outages" => SecondShiftIsLate]_<<part, vars>>
=============================================================================
