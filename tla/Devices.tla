------------------------------ MODULE Devices ------------------------------
(***************************************************************************)
(* The fleet: devices.py, the routes that mint, reissue, revoke and        *)
(* register (routes_device.py), the device routes of routes_admin.py and   *)
(* the preflight check.  A mint reads, asks the launch URL's host which    *)
(* app it serves, and only then writes; other calls run meanwhile.         *)
(***************************************************************************)
EXTENDS NoValue, Integers, FiniteSets

CONSTANTS
  Device,          \* row ids to hand out
  Serial,          \* numbers printed on hardware
  Shop,            \* tenants
  Staff,           \* people, each of one shop
  ShopOf,          \* the tenant of a person
  Surface,         \* surfaces that requests name
  MaxCodes,        \* bound on the provision tokens ever minted
  Admin            \* device requests under way at once

VARIABLES
  devices,  \* the table devices
  staff,    \* the people who still have an account
  codes,    \* how many provision tokens have been minted
  dead,     \* history: tokens replaced by a reissue, or revoked
  asks      \* requests under way

dvars == <<devices, staff, codes, dead, asks>>

Code == 1..MaxCodes
\* A device that is retired or lost is refused alike, and last_seen_at, which only
\* the console reads, is left out.
DeviceRow ==
  [shop: Shop, user: Staff \cup {None}, serial: Serial \cup {None}, surface: Surface \cup {"even-g2"},
   code: Code \cup {None}, revoked: BOOLEAN, status: {"active", "lost"}]

ASSUME DevicesAssumption ==
  /\ ShopOf \in [Staff -> Shop]
  /\ Surface \subseteq {"even-g2", "mrbd", "sim", "phone"}
  /\ None \notin Serial \cup Shop \cup Staff \cup Code \cup DeviceRow
  /\ MaxCodes \in Nat

Resting == [op |-> "rest"]
Listed == {d \in Device : devices[d] # None}

DInit ==
  /\ devices = [d \in Device |-> None]
  /\ staff = Staff
  /\ codes = 0
  /\ dead = {}
  /\ asks = [a \in Admin |-> Resting]

Ask(a, ask) == asks[a] = Resting /\ asks' = [asks EXCEPT ![a] = ask]
Done(a) == asks' = [asks EXCEPT ![a] = Resting]

SerialFree(shop, n) ==
  n # None => \A d \in Listed : ~(devices[d].shop = shop /\ devices[d].serial = n)
\* The unique index on tenant and serial, for which nulls differ.
SerialAllowed(shop, n) == SerialFree(shop, n)

\* The foreign key; deleting a person sets the column null.
Exists(user) == user # None => user \in staff

-----------------------------------------------------------------------------
(* Preflight. *)

EXPECTED_APP == [s \in {"phone", "mrbd", "sim"} |->
  CASE s = "phone" -> "cue-pocket" [] s = "mrbd" -> "cue-meta-lens" [] s = "sim" -> "cue-console"]

\* What the host of a launch URL may do: serve an app, answer with a status
\* that is an error (a gateway's 502 included), send something else, or nothing.
Host == {"cue-pocket", "cue-meta-lens", "cue-console", "error status", "no json", "silence"}

\* check()
Verdict(surface, host) ==
  IF surface \notin DOMAIN EXPECTED_APP THEN "skipped"
  ELSE IF host = "silence" THEN "unreachable"
  ELSE IF host = EXPECTED_APP[surface] THEN "ok"
  ELSE "wrong-app"

Blocks(verdict) == verdict = "wrong-app"

-----------------------------------------------------------------------------
(* Minting and reissuing. *)

\* mint_device(): the serial and the person are looked up first.
MintAsked(a) ==
  \E shop \in Shop, n \in Serial \cup {None}, user \in staff \cup {None}, s \in Surface :
    /\ SerialFree(shop, n)
    /\ user # None => ShopOf[user] = shop
    /\ Ask(a, [op |-> "mint", at |-> "preflight", shop |-> shop, user |-> user,
               serial |-> n, surface |-> s])
    /\ UNCHANGED <<devices, staff, codes, dead>>

ReissueAsked(a) ==
  \E d \in Listed :
    /\ Ask(a, [op |-> "reissue", at |-> "preflight", device |-> d,
               surface |-> devices[d].surface])
    /\ UNCHANGED <<devices, staff, codes, dead>>

\* Nothing is minted, and no code replaced, against the wrong app, unless the
\* request says to go on anyway.
Preflight(a) ==
  /\ asks[a] # Resting /\ asks[a].at = "preflight"
  /\ \E host \in Host, anyway \in BOOLEAN :
       IF Blocks(Verdict(asks[a].surface, host)) /\ ~anyway
       THEN Done(a)
       ELSE asks' = [asks EXCEPT ![a].at = "write"]
  /\ UNCHANGED <<devices, staff, codes, dead>>

NewDevice(shop, user, n, s, code) ==
  [shop |-> shop, user |-> user, serial |-> n, surface |-> s, code |-> code,
   revoked |-> FALSE, status |-> "active"]

\* devices.create()
Create(a) ==
  /\ asks[a].op = "mint" /\ asks[a].at = "write"
  /\ LET ask == asks[a] IN
     IF SerialAllowed(ask.shop, ask.serial) /\ Exists(ask.user)
     THEN \E d \in Device \ Listed :
            /\ codes < MaxCodes
            /\ codes' = codes + 1
            /\ devices' = [devices EXCEPT ![d] =
                             NewDevice(ask.shop, ask.user, ask.serial, ask.surface, codes')]
     ELSE UNCHANGED <<devices, codes>>
  /\ Done(a)
  /\ UNCHANGED <<staff, dead>>

Reissued_SameCode(row, code) == [row EXCEPT !.revoked = FALSE]
\* reissue(): a new token, and the revocation is lifted in the same statement.
Reissued(row, code) == [row EXCEPT !.code = code, !.revoked = FALSE]

Reissue(a) ==
  /\ asks[a].op = "reissue" /\ asks[a].at = "write"
  /\ codes < MaxCodes
  /\ LET d == asks[a].device IN
     /\ codes' = codes + 1
     /\ dead' = dead \cup ({devices[d].code} \ {None})
     /\ devices' = [devices EXCEPT ![d] = Reissued(@, codes')]
  /\ Done(a)
  /\ UNCHANGED staff

\* create_device(): hardware out of a box, with a serial and no token.
AddHardware(a) ==
  \E shop \in Shop, n \in Serial, user \in staff \cup {None} :
    /\ SerialFree(shop, n)
    /\ Ask(a, [op |-> "hardware", at |-> "write", shop |-> shop, user |-> user, serial |-> n])
    /\ UNCHANGED <<devices, staff, codes, dead>>

InsertHardware(a) ==
  /\ asks[a].op = "hardware"
  /\ LET ask == asks[a] IN
     IF SerialAllowed(ask.shop, ask.serial) /\ Exists(ask.user)
     THEN \E d \in Device \ Listed :
            devices' = [devices EXCEPT ![d] =
                          NewDevice(ask.shop, ask.user, ask.serial, "even-g2", None)]
     ELSE UNCHANGED devices
  /\ Done(a)
  /\ UNCHANGED <<staff, codes, dead>>

-----------------------------------------------------------------------------
(* One statement each. *)

\* revoke(): the hash stays.
RevokeDevice(d) ==
  /\ devices' = [devices EXCEPT ![d].revoked = TRUE]
  /\ dead' = dead \cup ({devices[d].code} \ {None})
  /\ UNCHANGED <<staff, codes, asks>>

\* update_device() looks at the tenant of the device and not of the person.
UpdateDevice(d) ==
  /\ \/ \E s \in {"active", "lost"} :
          devices' = [devices EXCEPT ![d].status = s]
     \/ \E user \in staff \cup {None} : devices' = [devices EXCEPT ![d].user = user]
  /\ UNCHANGED <<staff, codes, dead, asks>>

DeletePerson(user) ==
  /\ user \in staff
  /\ staff' = staff \ {user}
  /\ devices' = [d \in Device |-> IF d \in Listed /\ devices[d].user = user
                                  THEN [devices[d] EXCEPT !.user = None]
                                  ELSE devices[d]]
  /\ UNCHANGED <<codes, dead, asks>>

-----------------------------------------------------------------------------
(* The register handshake. *)

\* authenticate_device() asks resolve(), whose every refusal is the same one.
Resolves(code, shop) ==
  {d \in Listed : /\ devices[d].code = code
                  /\ ~devices[d].revoked
                  /\ devices[d].status = "active"
                  /\ shop \in {None, devices[d].shop}}

DNext ==
  \/ \E a \in Admin : \/ MintAsked(a) \/ ReissueAsked(a) \/ Preflight(a)
                      \/ Create(a) \/ Reissue(a) \/ AddHardware(a) \/ InsertHardware(a)
  \/ \E d \in Listed : RevokeDevice(d) \/ UpdateDevice(d)
  \/ \E user \in Staff : DeletePerson(user)

DSpec == DInit /\ [][DNext]_dvars

-----------------------------------------------------------------------------
(* Properties. *)

\* Rows keep their shape, and a person assigned to a device has an account.
DTypeOK ==
  /\ devices \in [Device -> DeviceRow \cup {None}]
  /\ codes \in 0..MaxCodes /\ dead \subseteq 1..codes
  /\ \A d \in Listed : Exists(devices[d].user)

\* "The old one stops working the moment this returns" (devices.py): a token
\* that a reissue replaced, or that was revoked, never registers again, though
\* a reissue lifts the revocation and may have been asked for before it.
DeadCodesStayDead == \A code \in dead : Resolves(code, None) = {}
=============================================================================
