--------------------------- MODULE MCShiftLedger ---------------------------
(***************************************************************************)
(* The shift table for TLC: its constants are model values, and callers,   *)
(* ids, glasses and people are interchangeable.                            *)
(***************************************************************************)
EXTENDS ShiftLedger, TLC

Symmetry == Permutations(Shift) \cup Permutations(Serial)
            \cup Permutations(User) \cup Permutations(Caller)
=============================================================================
