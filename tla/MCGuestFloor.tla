---------------------------- MODULE MCGuestFloor ----------------------------
(***************************************************************************)
(* Two lenses that cover one zone and a guest, for TLC, with the bounds    *)
(* put where each part needs them: the requests of an anonymous guest,     *)
(* whom nobody is sent to, and the visits of a guest the store knows, who  *)
(* makes no request.  A run takes one part.  The properties are those of   *)
(* GuestFloor, under the bounds both parts keep within.                    *)
(***************************************************************************)
EXTENDS GuestFloor, TLC

VARIABLE part

\* Every lens has an account of its own.
Staff == {<<"account", s>> : s \in Sock}
SignedIn == [s \in Sock |-> <<"account", s>>]

Desk == INSTANCE GuestFloor WITH MaxArrivals <- 0, Faults <- Faults \ {"unheard"}
Visit == INSTANCE GuestFloor WITH Anonymous <- {}, MaxAsks <- 0, Faults <- Faults \ {"lapse"}

GuestInit ==
  \/ part = "desk" /\ Desk!Init
  \/ part = "visit" /\ Visit!Init

GuestNext ==
  /\ \/ part = "desk" /\ Desk!Next
     \/ part = "visit" /\ Visit!Next
  /\ UNCHANGED part

GuestSpec == GuestInit /\ [][GuestNext]_<<part, vars>>

\* The lenses cover the same zone: they are alike.
Symmetry == Permutations(Sock)
=============================================================================
