---------------------------- MODULE CrmCredential ----------------------------
(***************************************************************************)
(* One retailer's store connection: the credential row (crm_credentials.py *)
(* over secrets_box.py), tenants.crm_provider, the routes that connect,    *)
(* test and disconnect (routes_admin.py), and the adapter cache of one     *)
(* replica (crm_provider.py); a request is served here or by another       *)
(* replica.  A credential is known by the save that wrote it, which is     *)
(* what its updated_at tells apart; how it is sealed only decides whether  *)
(* it opens.                                                               *)
(***************************************************************************)
EXTENDS NoValue, Integers, FiniteSets

CONSTANTS
  Clerk,           \* admin requests under way at once
  Here,            \* those that this replica serves
  MaxSaves,        \* bound on the credentials ever saved
  MaxTime,         \* bound on the clock
  Recheck,         \* _RECHECK_SECONDS
  Staffed          \* whether staff also set crm_provider by hand

VARIABLES
  row,        \* tenant_crm_credentials: [save, tested], with passed as history, or None
  provider,   \* tenants.crm_provider
  cache,      \* the adapter and when it was checked, or None
  build,      \* the lookup that holds the lock, or None
  clerks,     \* admin requests under way
  saves,      \* credentials saved so far
  time,
  wanted,     \* history: when crm_provider was last each of the two
  until,      \* history: when each save was last the credential's
  misread,    \* history: when the tenant's row last could not be read, or None
  rotated     \* history: the newest save this replica has been told of

tables == <<row, provider, saves>>
histories == <<wanted, until, misread, rotated>>
crmvars == <<tables, cache, build, clerks, time, histories>>

Save == 1..MaxSaves
Provider == {"mock", "shopify"}
\* An adapter is the demo data or the store behind one save: its signature.
Demo == 0
Adapter == Save \cup {Demo}
Quiet == [at |-> "none"]
CredentialRow == [save: Save, tested: BOOLEAN \cup {None}, passed: BOOLEAN]

ASSUME CrmAssumption ==
  /\ MaxSaves \in Nat /\ MaxTime \in Nat /\ Recheck \in Nat \ {0}
  /\ Staffed \in BOOLEAN /\ Here \subseteq Clerk
  /\ None \notin CredentialRow /\ None \notin Nat

CrmInit ==
  /\ row = None /\ provider = "mock"
  /\ cache = None /\ build = None
  /\ clerks = [k \in Clerk |-> Quiet]
  /\ saves = 0 /\ time = 0
  /\ wanted = [p \in Provider |-> 0] /\ until = [a \in Save |-> 0]
  /\ misread = None /\ rotated = 0

Step(k, at) == clerks' = [clerks EXCEPT ![k].at = at]
AtStep(k, at) == clerks[k] # Quiet /\ clerks[k].at = at
Rest(k) == clerks' = [clerks EXCEPT ![k] = Quiet]

\* What the two reads of a lookup find at this moment.
IsSet(p) == provider = p
IsStored(a) == row # None /\ row.save = a
\* A change leaves behind what was true up to now.
ProviderPast == wanted' = [p \in Provider |-> IF IsSet(p) THEN time ELSE wanted[p]]
RowPast == until' = [a \in Save |-> IF IsStored(a) THEN time ELSE until[a]]

-----------------------------------------------------------------------------
(* The routes. *)

\* _own_tenant() first: the request works on its copy of the tenant's row.
\* The save needs the encryption key; the test and the disconnect do not.
Arrive(k) ==
  /\ clerks[k] = Quiet
  /\ \E op \in {"connect", "test", "disconnect"} :
       clerks' = [clerks EXCEPT ![k] =
                    [at |-> op, sees |-> provider, save |-> 0, ok |-> FALSE]]
  /\ UNCHANGED <<tables, cache, build, time, histories>>

\* crm_credentials.save(): the row is replaced and its test result wiped.
Connect(k) ==
  /\ AtStep(k, "connect") /\ saves < MaxSaves
  /\ saves' = saves + 1
  /\ row' = [save |-> saves', tested |-> None, passed |-> FALSE]
  /\ clerks' = [clerks EXCEPT ![k].at = "probe", ![k].save = saves']
  /\ RowPast
  /\ UNCHANGED <<provider, cache, build, time, wanted, misread, rotated>>

\* test_tenant_crm(): the row is fetched; with none the answer is 404.
Fetch(k) ==
  /\ AtStep(k, "test")
  /\ IF row = None THEN Rest(k)
     ELSE clerks' = [clerks EXCEPT ![k].at = "probe", ![k].save = row.save]
  /\ UNCHANGED <<tables, cache, build, time, histories>>

\* load_secret() and probe_connection(): the store answers yes or no, and a
\* credential that cannot be opened is neither recorded nor invalidated.
Probe(k) ==
  /\ AtStep(k, "probe")
  /\ \/ /\ clerks' = [clerks EXCEPT ![k].at = "sync", ![k].save = 0]
        /\ UNCHANGED row
     \/ \E ok \in BOOLEAN :
          /\ clerks' = [clerks EXCEPT ![k].at = "record", ![k].ok = ok]
          /\ row' = IF ok /\ row # None /\ row.save = clerks[k].save
                    THEN [row EXCEPT !.passed = TRUE] ELSE row
  /\ UNCHANGED <<provider, cache, build, saves, time, histories>>

\* record_test() finds the row by its tenant alone.
Record(k) ==
  /\ AtStep(k, "record")
  /\ row' = IF row = None THEN None ELSE [row EXCEPT !.tested = clerks[k].ok]
  /\ Step(k, "invalidate")
  /\ UNCHANGED <<provider, cache, build, saves, time, histories>>

LockFree_Ignored(k) == TRUE
\* `with _lock': a lookup that is building keeps everybody else of its process out.
LockFree(k) == k \in Here => build = None

Newer(a, b) == IF a > b THEN a ELSE b

\* invalidate() of _test_and_record().
Invalidate(k) ==
  /\ AtStep(k, "invalidate")
  /\ LockFree(k)
  /\ IF k \in Here
     THEN cache' = None /\ rotated' = Newer(rotated, clerks[k].save)
     ELSE UNCHANGED <<cache, rotated>>
  /\ clerks' = [clerks EXCEPT ![k].at = "sync", ![k].save = 0]
  /\ UNCHANGED <<tables, build, time, wanted, until, misread>>

\* _sync_provider(): compared with the copy taken when the request arrived.
Want(k) == IF clerks[k].ok THEN "shopify" ELSE "mock"

SyncProvider(k) ==
  /\ AtStep(k, "sync")
  /\ IF clerks[k].sees = Want(k)
     THEN Rest(k) /\ UNCHANGED <<provider, wanted>>
     ELSE provider' = Want(k) /\ ProviderPast /\ Step(k, "forget")
  /\ UNCHANGED <<row, cache, build, saves, time, until, misread, rotated>>

\* The invalidate() that follows a change of provider.
Forget(k) ==
  /\ AtStep(k, "forget") /\ LockFree(k)
  /\ cache' = IF k \in Here THEN None ELSE cache
  /\ Rest(k)
  /\ UNCHANGED <<tables, build, time, histories>>

\* disconnect_tenant_crm(): the row goes, then the provider.
Disconnect(k) ==
  /\ AtStep(k, "disconnect")
  /\ row' = None
  /\ RowPast
  /\ Step(k, "sync")
  /\ UNCHANGED <<provider, cache, build, saves, time, wanted, misread, rotated>>

\* update_tenant() lets staff write the column, with no invalidate.
StaffSets ==
  /\ Staffed
  /\ \E p \in Provider : p # provider /\ provider' = p
  /\ ProviderPast
  /\ UNCHANGED <<row, cache, build, clerks, saves, time, until, misread, rotated>>

-----------------------------------------------------------------------------
(* get_crm_for(). *)

Fresh(now) == cache # None /\ now - cache.checked < Recheck

\* The clock is read before the lock is waited for.
Lookup ==
  /\ build = None
  /\ \E now \in 0..time : ~Fresh(now) /\ build' = [at |-> "tenant", now |-> now, adapter |-> None]
  /\ UNCHANGED <<tables, cache, clerks, time, histories>>

SameAdapter_Always(a) == cache # None
\* The live adapter is kept while its signature stands.
SameAdapter(a) == cache # None /\ cache.adapter = a

Built(a) == build' = [build EXCEPT !.at = "store", !.adapter = a]

\* _build(): the tenant's row first, the credential after it.
ReadTenant ==
  /\ build # None /\ build.at = "tenant"
  /\ IF provider = "mock" THEN Built(Demo) ELSE build' = [build EXCEPT !.at = "credential"]
  /\ UNCHANGED <<tables, cache, clerks, time, histories>>

\* _tenant_row() swallows a failed read and answers None, which _build() takes
\* for a slug nobody registered: the retailer gets the demo data.  (The pilot,
\* whose slug is "shopify", gets the environment's store or a refusal.)
MisreadTenant ==
  /\ build # None /\ build.at = "tenant"
  /\ Built(Demo) /\ misread' = time
  /\ UNCHANGED <<tables, cache, clerks, time, wanted, until, rotated>>

\* TenantNotConfigured, with no row, one that could not be read or one that
\* cannot be opened, leaves the cache as it is: an entry past its time is
\* served to nobody.
ReadCredential ==
  /\ build # None /\ build.at = "credential"
  /\ \/ row # None /\ Built(row.save)
     \/ build' = None
  /\ UNCHANGED <<tables, cache, clerks, time, histories>>

StoreEntry ==
  /\ build # None /\ build.at = "store"
  /\ cache' = [adapter |-> IF SameAdapter(build.adapter) THEN cache.adapter ELSE build.adapter,
               checked |-> build.now]
  /\ build' = None
  /\ UNCHANGED <<tables, clerks, time, histories>>

Tick ==
  /\ time < MaxTime
  /\ time' = time + 1
  /\ wanted' = [p \in Provider |-> IF IsSet(p) THEN time' ELSE wanted[p]]
  /\ until' = [a \in Save |-> IF IsStored(a) THEN time' ELSE until[a]]
  /\ UNCHANGED <<tables, cache, build, clerks, misread, rotated>>

CrmNext ==
  \/ \E k \in Clerk : \/ Arrive(k) \/ Connect(k) \/ Fetch(k) \/ Probe(k) \/ Record(k)
                      \/ Invalidate(k) \/ SyncProvider(k) \/ Forget(k) \/ Disconnect(k)
  \/ Lookup \/ ReadTenant \/ MisreadTenant \/ ReadCredential \/ StoreEntry \/ StaffSets \/ Tick

CrmSpec == CrmInit /\ [][CrmNext]_crmvars

-----------------------------------------------------------------------------
(* Properties. *)

CrmTypeOK ==
  /\ row \in CredentialRow \cup {None}
  /\ provider \in Provider
  /\ cache \in [adapter: Adapter, checked: 0..MaxTime] \cup {None}
  /\ build \in [at: {"tenant", "credential", "store"}, now: 0..MaxTime,
                adapter: Adapter \cup {None}] \cup {None}
  /\ \A k \in Clerk : clerks[k] # Quiet => clerks[k].sees \in Provider
  /\ saves \in 0..MaxSaves /\ time \in 0..MaxTime
  /\ wanted \in [Provider -> 0..MaxTime] /\ until \in [Save -> 0..MaxTime]
  /\ misread \in 0..MaxTime \cup {None}

\* Less than a recheck ago.
Recent(t) == t # None /\ time - t < Recheck
\* What a lookup would have read, now or less than a recheck ago.
SetLately(p) == IsSet(p) \/ Recent(wanted[p])
StoredLately(a) == IsStored(a) \/ Recent(until[a])

\* "Other replicas pick the change up within _RECHECK_SECONDS" (crm_provider.py),
\* whichever replica handled it: a store is served only where crm_provider asked
\* for a store, and the credential was that one, less than a recheck ago.  The
\* demo data is also served where the tenant's row could not be read: for less
\* than a recheck after that, and never longer.
StaleWithinRecheck ==
  Fresh(time) =>
    IF cache.adapter = Demo THEN SetLately("mock") \/ Recent(misread)
    ELSE SetLately("shopify") /\ StoredLately(cache.adapter)

\* "A rotated token takes effect on the next request rather than in a minute"
\* (routes_admin.py): the replica that handled a save never again serves an
\* older one, also when a lookup had read the old row before the save.
RotationTakesEffect ==
  cache # None /\ cache.adapter # Demo => cache.adapter >= rotated
=============================================================================
