------------------------------ MODULE Retention ------------------------------
(***************************************************************************)
(* Starting the service and keeping its retention promise: db.migrate()    *)
(* and the startup hook of main.py, the timer it starts, the manual run of *)
(* routes_admin.py, and the sweep itself (retention.py).  Replicas boot    *)
(* and sweep side by side on one database.  Tenants are those that are not *)
(* archived.                                                               *)
(***************************************************************************)
EXTENDS Integers, Sequences, FiniteSets, NoValue

CONSTANTS
  Replica,
  Manual,          \* runs that administrators ask for
  Tenants,         \* tenants in the order the query returns them
  Classes,         \* the tables of a sweep, in its order
  Row,             \* rows that hold something about a person
  TenantOf, ClassOf,
  Ours, OursOf,    \* rows that sweep() does not reach, and which of Parts does
  Timed,           \* replicas whose CUE_RETENTION_INTERVAL_SECONDS is positive
  BATCH,
  MaxMigration,    \* migration files
  MaxErrors,       \* bound on statements that fail
  MaxBoots         \* bound on restarts

\* What sweep_all() does after the tenants, each part in a try of its own.
Parts == <<"shifts", "decks", "leads">>

ASSUME RetentionAssumption ==
  /\ Timed \subseteq Replica /\ Replica # {} /\ Manual \cap Replica = {}
  /\ DOMAIN Classes = 1..Len(Classes) /\ Len(Classes) \in Nat \ {0}
  /\ BATCH \in Nat \ {0} /\ MaxMigration \in Nat /\ MaxErrors \in Nat /\ MaxBoots \in Nat
  /\ TenantOf \in [Row -> {Tenants[i] : i \in DOMAIN Tenants}]
  /\ ClassOf \in [Row -> {Classes[i] : i \in DOMAIN Classes}]
  /\ Ours \cap Row = {} /\ OursOf \in [Ours -> {Parts[i] : i \in DOMAIN Parts}]

VARIABLES
  schema,      \* how many migration files are applied
  boot,        \* per replica: where its startup is
  people,      \* per row: "young", "aged" or "clean" of what it says about a person
  sweeps,      \* the sweeps under way
  receipts,    \* retention_runs: the newest of each tenant
  errors, boots

retvars == <<schema, boot, people, sweeps, receipts, errors, boots>>

Sweeper == Replica \cup Manual
NoSweep == [at |-> "none"]

RetInit ==
  /\ schema \in 0..MaxMigration
  /\ boot = [r \in Replica |-> [at |-> "down"]]
  /\ people = [p \in Row \cup Ours |-> "young"]
  /\ sweeps = [s \in Sweeper |-> NoSweep]
  /\ receipts = [i \in DOMAIN Tenants |-> None]
  /\ errors = 0 /\ boots = 0

-----------------------------------------------------------------------------
(* Startup. *)

Boots(r, state) == boot' = [boot EXCEPT ![r] = state]

Pending_All == 1
\* The first file, in name order, that is not in schema_migrations.
Pending == schema + 1

\* _startup(): migrate() reads once which files are applied.
Start(r) ==
  /\ boot[r].at = "down" /\ boots < MaxBoots
  /\ boots' = boots + 1
  /\ Boots(r, [at |-> "migrating", next |-> Pending])
  /\ UNCHANGED <<schema, people, sweeps, receipts, errors>>

\* The primary key of schema_migrations: a file another replica applied
\* meanwhile cannot be applied again, and its transaction rolls back.
Recorded(n) == n = schema + 1

\* One file, in its own transaction.  "A bad migration must not take the lens
\* offline": a lost race leaves the service up and ends the hook there ...
Migrate(r) ==
  /\ boot[r].at = "migrating" /\ boot[r].next <= MaxMigration
  /\ \/ /\ Recorded(boot[r].next)
        /\ schema' = boot[r].next
        /\ Boots(r, [at |-> "migrating", next |-> boot[r].next + 1])
     \/ /\ ~Recorded(boot[r].next)
        /\ Boots(r, [at |-> "lost"])
        /\ UNCHANGED schema
  /\ UNCHANGED <<people, sweeps, receipts, errors, boots>>

\* ... and so does any other failure of migrate(): no connection, a bad file.
BootFails(r) ==
  /\ boot[r].at = "migrating"
  /\ errors < MaxErrors /\ errors' = errors + 1
  /\ Boots(r, [at |-> "failed"])
  /\ UNCHANGED <<schema, people, sweeps, receipts, boots>>

\* bootstrap(), whose failure is printed, and the retention loop if its
\* interval does not turn it off.
Loop(r) ==
  /\ boot[r].at = "migrating" /\ boot[r].next > MaxMigration
  /\ Boots(r, [at |-> IF r \in Timed THEN "up" ELSE "off"])
  /\ UNCHANGED <<schema, people, sweeps, receipts, errors, boots>>

\* The process ends, and the sweep it ran with it.
Stop(r) ==
  /\ boot[r].at # "down" /\ boots < MaxBoots
  /\ Boots(r, [at |-> "down"])
  /\ sweeps' = [sweeps EXCEPT ![r] = NoSweep]
  /\ UNCHANGED <<schema, people, receipts, errors, boots>>

-----------------------------------------------------------------------------
(* One sweep. *)

Aged(t, c) == {p \in Row : TenantOf[p] = Tenants[t] /\ ClassOf[p] = Classes[c] /\ people[p] = "aged"}
AgedOf(t) == UNION {Aged(t, c) : c \in DOMAIN Classes}

\* Tenant t is next: `due' is history, what was aged when its sweep began.
Tenant(t) == IF t \in DOMAIN Tenants
             THEN [at |-> "pick", tenant |-> t, class |-> 1, full |-> FALSE, due |-> AgedOf(t)]
             ELSE [at |-> "ours", part |-> 1]

CanRun(s) == s \in Replica => boot[s].at = "up"

\* sweep_all(), on the timer or by hand.
Begin(s) ==
  /\ CanRun(s) /\ sweeps[s] = NoSweep
  /\ sweeps' = [sweeps EXCEPT ![s] = Tenant(1)]
  /\ UNCHANGED <<schema, boot, people, receipts, errors, boots>>

\* A class's statement: its snapshot holds at most BATCH aged rows ...
Pick(s) ==
  /\ sweeps[s].at = "pick"
  /\ \E rows \in SUBSET Aged(sweeps[s].tenant, sweeps[s].class) :
       /\ \/ Cardinality(rows) = BATCH
          \/ Cardinality(rows) < BATCH /\ rows = Aged(sweeps[s].tenant, sweeps[s].class)
       /\ sweeps' = [sweeps EXCEPT ![s] =
            [at |-> "redact", tenant |-> sweeps[s].tenant, class |-> sweeps[s].class,
             full |-> sweeps[s].full, due |-> sweeps[s].due, rows |-> rows]]
  /\ UNCHANGED <<schema, boot, people, receipts, errors, boots>>

Full_Over(n) == n > BATCH
\* "It runs to the cap, records more_remaining."
Full(n) == n >= BATCH

Clean(rows) == people' = [p \in DOMAIN people |-> IF p \in rows THEN "clean" ELSE people[p]]

\* ... and redacts them, rows another sweep has redacted meanwhile included.
Redact(s) ==
  /\ sweeps[s].at = "redact"
  /\ Clean(sweeps[s].rows)
  /\ LET full == sweeps[s].full \/ Full(Cardinality(sweeps[s].rows))
         last == sweeps[s].class = Len(Classes)
     IN sweeps' = [sweeps EXCEPT ![s] =
          [at |-> IF last THEN "receipt" ELSE "pick", tenant |-> sweeps[s].tenant,
           class |-> IF last THEN 1 ELSE sweeps[s].class + 1,
           full |-> full, due |-> sweeps[s].due]]
  /\ UNCHANGED <<schema, boot, receipts, errors, boots>>

Receipt(s) ==
  /\ sweeps[s].at = "receipt"
  /\ receipts' = [receipts EXCEPT ![sweeps[s].tenant] =
                    [more |-> sweeps[s].full, due |-> sweeps[s].due]]
  /\ sweeps' = [sweeps EXCEPT ![s] = Tenant(sweeps[s].tenant + 1)]
  /\ UNCHANGED <<schema, boot, people, errors, boots>>

\* What the part under way has to clean, and the part that follows it.  The
\* touches of a lead redacted before are in no part: see Pipeline.
AgedOurs(s) == {p \in Ours : OursOf[p] = Parts[sweeps[s].part] /\ people[p] = "aged"}
NextPart(s) ==
  sweeps' = [sweeps EXCEPT ![s] = IF sweeps[s].part = Len(Parts) THEN NoSweep
                                  ELSE [at |-> "ours", part |-> sweeps[s].part + 1]]

\* After the last tenant: shift telemetry, the deck leads, the leads.
PruneOurs(s) ==
  /\ sweeps[s].at = "ours"
  /\ Clean(AgedOurs(s))
  /\ NextPart(s)
  /\ UNCHANGED <<schema, boot, receipts, errors, boots>>

\* A part raises, and the next one is tried.  The shifts of some tenants may be
\* gone by then; a lead is redacted by the last statement of its part.
OursFails(s) ==
  /\ sweeps[s].at = "ours"
  /\ errors < MaxErrors /\ errors' = errors + 1
  /\ \E gone \in SUBSET AgedOurs(s) :
       (Parts[sweeps[s].part] # "shifts" => gone = {}) /\ Clean(gone)
  /\ NextPart(s)
  /\ UNCHANGED <<schema, boot, receipts, boots>>

AfterFailure_LoopEnds == [at |-> "ended"]
AfterFailure == NoSweep

\* A tenant's statement raises: the tenants that follow and the parts after
\* them are left out, and the loop or the route reports it and lets go.
Fail(s) ==
  /\ sweeps[s].at \in {"pick", "redact", "receipt"}
  /\ errors < MaxErrors /\ errors' = errors + 1
  /\ sweeps' = [sweeps EXCEPT ![s] = AfterFailure]
  /\ UNCHANGED <<schema, boot, people, receipts, boots>>

\* A day passes for a row: its window is over.
Age(p) ==
  /\ people[p] = "young"
  /\ people' = [people EXCEPT ![p] = "aged"]
  /\ UNCHANGED <<schema, boot, sweeps, receipts, errors, boots>>

SweepStep(s) ==
  Begin(s) \/ Pick(s) \/ Redact(s) \/ Receipt(s) \/ PruneOurs(s) \/ OursFails(s) \/ Fail(s)
BootStep(r) == Migrate(r) \/ Loop(r)

RetNext ==
  \/ \E r \in Replica : Start(r) \/ BootStep(r) \/ BootFails(r) \/ Stop(r)
  \/ \E s \in Sweeper : SweepStep(s)
  \/ \E p \in Row \cup Ours : Age(p)

RetSpec == RetInit /\ [][RetNext]_retvars

\* The timer fires again and a statement returns.  Nobody has to restart a
\* process, to ask for a run by hand, or to let a row age.
RetFairSpec ==
  /\ RetSpec
  /\ \A r \in Replica : WF_retvars(SweepStep(r)) /\ WF_retvars(BootStep(r))

-----------------------------------------------------------------------------
(* Properties. *)

RetTypeOK ==
  /\ schema \in 0..MaxMigration
  /\ \A r \in Replica : boot[r].at \in {"down", "migrating", "lost", "failed", "off", "up"}
  /\ people \in [Row \cup Ours -> {"young", "aged", "clean"}]
  /\ \A s \in Sweeper : sweeps[s].at \in {"none", "pick", "redact", "receipt", "ours"}
  /\ \A r \in Replica : sweeps[r] # NoSweep => boot[r].at = "up"

\* "It runs to the cap, records more_remaining, and picks the rest up next
\* time": a receipt with nothing remaining leaves no row that was due when its
\* sweep began, also when two sweeps of a tenant run at once.
ReceiptIsHonest ==
  \A t \in DOMAIN Tenants :
    receipts[t] # None /\ ~receipts[t].more => \A p \in receipts[t].due : people[p] = "clean"

\* Replicas that boot at once on a new schema fail each other's migrations, and
\* the one that loses never sweeps.  They cannot all lose: when all have booted
\* one of them sweeps, unless a boot failed by itself (no connection, a bad
\* file) or its timer is turned off.  Then it may be that nobody does.
SomebodySweeps ==
  (\A r \in Replica : boot[r].at \in {"lost", "up"}) => \E r \in Replica : boot[r].at = "up"

\* The promise: while a process with the loop stays up, what has aged is
\* redacted, past caps, failed statements and sweeps beside it.
AgedIsRedacted ==
  \A p \in Row \cup Ours, r \in Replica :
    (people[p] = "aged" /\ boot[r].at = "up") ~> (people[p] = "clean" \/ boot[r].at # "up")
=============================================================================
