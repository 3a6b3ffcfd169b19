------------------------------- MODULE Plates -------------------------------
(***************************************************************************)
(* The printed plates and their rotating tags: plates.py and the routes of *)
(* routes_guest.py that register, open and revoke them.  Resolving a tap   *)
(* reads the row, compares the tag's counter with it, and stores the       *)
(* counter in a statement of its own: other taps run in between.           *)
(***************************************************************************)
EXTENDS NoValue, Integers, FiniteSets

CONSTANTS
  Token,          \* what is printed
  Store,          \* tenants
  Door,           \* sources that presence.source_info knows
  MaxCounter,     \* bound on a tag's counter
  Phone           \* taps under way at once

VARIABLES
  plates,    \* the table plates
  taps,      \* taps under way
  served,    \* history: per plate, the highest counter answered
  crossed,   \* history: plates on which two taps overlapped
  replays    \* history: plates that answered a counter not above `served'

platevars == <<plates, taps, served, crossed, replays>>

Counter == 1..MaxCounter
\* `tag' says whether the plate has sun_required and a key: set on the row by
\* hand, when the tag is fitted.  `last' is last_counter.
PlateRow == [store: Store, door: Door, tag: BOOLEAN, revoked: BOOLEAN, last: Counter \cup {None}]
Waiting == [at |-> "none"]

ASSUME PlatesAssumption == MaxCounter \in Nat /\ None \notin Counter \cup PlateRow

Printed == {t \in Token : plates[t] # None}

PlatesInit ==
  /\ plates = [t \in Token |-> None]
  /\ taps = [p \in Phone |-> Waiting]
  /\ served = [t \in Token |-> 0]
  /\ crossed = {} /\ replays = {}

\* The conflict arm of mint(): zone and label are new, the revocation is lifted,
\* and the tenant, the door and the counter stay.
Remade(plate, store, door) == [plate EXCEPT !.revoked = FALSE]

\* mint(), one statement; a registration of several is one after the other.
MintPlate(t, store, door) ==
  /\ plates' = [plates EXCEPT ![t] =
       IF t \in Printed THEN Remade(@, store, door)
       ELSE [store |-> store, door |-> door, tag |-> FALSE, revoked |-> FALSE, last |-> None]]
  /\ UNCHANGED <<taps, served, crossed, replays>>

FitTag(t) ==
  /\ t \in Printed /\ ~plates[t].tag
  /\ plates' = [plates EXCEPT ![t].tag = TRUE]
  /\ UNCHANGED <<taps, served, crossed, replays>>

\* revoke(): a manager's own, and live.
RevokePlate(t, store) ==
  /\ t \in Printed /\ plates[t].store = store /\ ~plates[t].revoked
  /\ plates' = [plates EXCEPT ![t].revoked = TRUE]
  /\ UNCHANGED <<taps, served, crossed, replays>>

Replayed_Equal(last, n) == last # None /\ n < last
\* check_sun()
Replayed(last, n) == last # None /\ n <= last

\* resolve(): the row as it is now.  An unknown or revoked plate, a tag with no
\* counter, a counter seen before and a wrong cryptogram are all refused.
Tap(p) ==
  \E t \in Printed, n \in Counter :
    /\ taps[p] = Waiting
    /\ ~plates[t].revoked
    /\ plates[t].tag /\ ~Replayed(plates[t].last, n)
    /\ taps' = [taps EXCEPT ![p] = [at |-> "store", token |-> t, counter |-> n]]
    /\ crossed' = IF \E q \in Phone : taps[q] # Waiting /\ taps[q].token = t
                  THEN crossed \cup {t} ELSE crossed
    /\ UNCHANGED <<plates, served, replays>>

\* The counter is stored whatever is there by now, and the place is answered.
\* A plate with no tag is answered from its row and changes nothing.
StoreCounter(p) ==
  /\ taps[p] # Waiting
  /\ LET t == taps[p].token  n == taps[p].counter IN
     /\ plates' = [plates EXCEPT ![t].last = n]
     /\ served' = [served EXCEPT ![t] = IF n > @ THEN n ELSE @]
     /\ replays' = IF n <= served[t] THEN replays \cup {t} ELSE replays
  /\ taps' = [taps EXCEPT ![p] = Waiting]
  /\ UNCHANGED crossed

PlatesNext ==
  \/ \E t \in Token, s \in Store, d \in Door : MintPlate(t, s, d)
  \/ \E t \in Token : FitTag(t)
  \/ \E t \in Token, s \in Store : RevokePlate(t, s)
  \/ \E p \in Phone : Tap(p) \/ StoreCounter(p)

PlatesSpec == PlatesInit /\ [][PlatesNext]_platevars

-----------------------------------------------------------------------------
(* Properties. *)

PlatesTypeOK ==
  /\ plates \in [Token -> PlateRow \cup {None}]
  /\ taps \in [Phone -> {Waiting} \cup [at: {"store"}, token: Token, counter: Counter]]
  /\ served \in [Token -> 0..MaxCounter]
  /\ crossed \subseteq Token /\ replays \subseteq Token

\* "A copied URL then carries a counter we have already seen, and check_sun()
\* refuses it" (plates.py).  A plate that answered a counter twice, or out of
\* order, is one on which two taps overlapped: revoking it, registering it
\* again and fitting its tag never make an old link new.
OldLinksStayOld == replays \subseteq crossed
=============================================================================
