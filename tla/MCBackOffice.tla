---------------------------- MODULE MCBackOffice ----------------------------
(***************************************************************************)
(* The control plane for TLC: accounts, devices, the store connection,     *)
(* plates and the rate limits.  No call of one touches the tables of       *)
(* another, so their interleavings are not explored: a run takes one part, *)
(* and the others stay as they begin.                                      *)
(***************************************************************************)
EXTENDS Accounts, Devices, Plates, CrmCredential, Throttle, TLC

VARIABLE part

\* Two requests, one of them here, within one recheck period, with every row read;
\* and one request at another replica, a connect or a disconnect, while several
\* periods pass on this one.
WithinAPeriod == time' = time /\ misread' = misread
OnlyElsewhere ==
  \A k \in Clerk : IF k \in Here THEN clerks'[k] = Quiet ELSE ~AtStep(k, "test")'

\* One thread at a time finds the table of the limiters too large.
OneWalks == Cardinality({c \in Thread : listing'[c] # NoList}) <= 1

NoChange == [role |-> None, status |-> None, password |-> None]
OneChange == {[NoChange EXCEPT !.role = "cue_admin"],
              [NoChange EXCEPT !.status = "disabled"],
              [NoChange EXCEPT !.status = "active"]}
             \cup {[NoChange EXCEPT !.password = p] : p \in Password}
OneShop == [p \in Staff |-> CHOOSE s \in Shop : TRUE]

OfficeInit ==
  /\ part \in {"accounts", "devices", "rotation", "recheck", "plates", "throttle"}
  /\ Init /\ DInit /\ CrmInit /\ PlatesInit /\ ThrottleInit

OfficeNext ==
  \/ /\ part = "accounts" /\ Next
     /\ UNCHANGED <<part, dvars, crmvars, platevars, throttlevars>>
  \/ /\ part = "devices" /\ DNext
     /\ UNCHANGED <<part, vars, crmvars, platevars, throttlevars>>
  \/ /\ part = "rotation" /\ CrmNext /\ WithinAPeriod
     /\ UNCHANGED <<part, vars, dvars, platevars, throttlevars>>
  \/ /\ part = "recheck" /\ CrmNext /\ OnlyElsewhere
     /\ UNCHANGED <<part, vars, dvars, platevars, throttlevars>>
  \/ /\ part = "plates" /\ PlatesNext
     /\ UNCHANGED <<part, vars, dvars, crmvars, throttlevars>>
  \/ /\ part = "throttle" /\ ThrottleNext /\ OneWalks
     /\ UNCHANGED <<part, vars, dvars, crmvars, platevars>>

OfficeSpec ==
  OfficeInit /\ [][OfficeNext]_<<part, vars, dvars, crmvars, platevars, throttlevars>>

Symmetry == Permutations(Caller) \cup Permutations(Password) \cup Permutations(Email)

----------------------------------------------------------------------------
(* The other properties of the run are those of the components extended    *)
(* here, where they are described.                                         *)

\* The tables and the requests of every part keep their shape.
OfficeTypeOK == TypeOK /\ DTypeOK /\ CrmTypeOK /\ PlatesTypeOK /\ ThrottleTypeOK
============================================================================
