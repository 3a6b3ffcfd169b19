---------------------------- MODULE MCShiftFloor ----------------------------
(***************************************************************************)
(* One phone, one pair of glasses and the shift ledger for TLC.            *)
(***************************************************************************)
EXTENDS ShiftFloor, TLC

Symmetry == Permutations(Shift)
=============================================================================
