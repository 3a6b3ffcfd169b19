------------------------------ MODULE NoValue ------------------------------
(* A column that is null, a field that is left out, a row that is not there. *)

CONSTANT None
=============================================================================
