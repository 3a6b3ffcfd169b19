--------------------------- MODULE ServiceProofs ---------------------------
(***************************************************************************)
(* Retention and answers by voice, proved for every value of the           *)
(* constants.  A receipt that says nothing remains is true, and a replica  *)
(* that sweeps comes out of every boot; what is said of a size is true of  *)
(* the rail.                                                               *)
(***************************************************************************)
EXTENDS Retention, VoiceAnswer, FiniteSetTheorems, TLAPS

-----------------------------------------------------------------------------
(* Retention. *)

Booting(r) == boot[r].at = "migrating" /\ boot[r].next = schema + 1

Migration == [at: {"down", "lost", "failed", "off", "up"}] \cup [at: {"migrating"}, next: Nat]
BootTyped == schema \in 0..MaxMigration /\ boot \in [Replica -> Migration]

\* Unless one is down or did not get through by itself, one of them is up or
\* will apply the next file.
Alone == {"down", "failed", "off"}
OneGetsThrough ==
  (\A r \in Replica : boot[r].at \notin Alone) => \E r \in Replica : boot[r].at = "up" \/ Booting(r)

Underway ==
  [at: {"pick"}, tenant: DOMAIN Tenants, class: DOMAIN Classes, full: BOOLEAN, due: SUBSET Row]
  \cup [at: {"receipt"}, tenant: DOMAIN Tenants, class: {1}, full: BOOLEAN, due: SUBSET Row]
  \cup [at: {"redact"}, tenant: DOMAIN Tenants, class: DOMAIN Classes, full: BOOLEAN,
        due: SUBSET Row, rows: SUBSET Row]
Resting == {NoSweep} \cup [at: {"ours"}, part: DOMAIN Parts]

SweepsTyped ==
  /\ people \in [Row \cup Ours -> {"young", "aged", "clean"}]
  /\ sweeps \in [Sweeper -> Resting \cup Underway]
  /\ \A r \in Replica : sweeps[r] # NoSweep => boot[r].at = "up"

ReceiptsTyped ==
  receipts \in [DOMAIN Tenants -> {None} \cup [more: BOOLEAN, due: SUBSET Row]]

\* A table of the sweep that the row is in, from table c on.
InTableFrom(p, c) == \E k \in DOMAIN Classes : k >= c /\ ClassOf[p] = Classes[k]

\* What was due stays aged until it is clean, and as long as no statement has
\* reached its cap it waits only for the tables still to come ...
LeftToDo(sw, of) ==
  \A p \in sw.due :
    /\ of[p] \in {"aged", "clean"} /\ TenantOf[p] = Tenants[sw.tenant]
    /\ \/ of[p] = "clean"
       \/ sw.full
       \/ sw.at = "pick" /\ InTableFrom(p, sw.class)
       \* ... and for the rows that the statement under way has picked.
       \/ /\ sw.at = "redact"
          /\ Full(Cardinality(sw.rows)) \/ p \in sw.rows \/ InTableFrom(p, sw.class + 1)

NothingForgotten == \A s \in Sweeper : sweeps[s] \in Underway => LeftToDo(sweeps[s], people)

RInv == /\ BootTyped /\ OneGetsThrough /\ SweepsTyped /\ ReceiptsTyped
        /\ NothingForgotten /\ ReceiptIsHonest

-----------------------------------------------------------------------------
(* Startup. *)

\* What a replica's boot does not touch.
LEMMA RecordsStay ==
  ASSUME RInv, UNCHANGED <<people, receipts>>,
         \A s \in Sweeper : sweeps'[s] = sweeps[s] \/ sweeps'[s] = NoSweep
  PROVE  ReceiptsTyped' /\ NothingForgotten' /\ ReceiptIsHonest'
<1>1. NoSweep \notin Underway
  BY DEF NoSweep, Underway
<1>2. \A sw : LeftToDo(sw, people') <=> LeftToDo(sw, people)
  BY DEF LeftToDo
<1>3. NothingForgotten'
  BY <1>1, <1>2 DEF RInv, NothingForgotten
<1> QED
  BY <1>3 DEF RInv, ReceiptsTyped, ReceiptIsHonest

\* One replica's boot moves on, with the migrations it applies.
LEMMA BootMoves ==
  ASSUME RInv, NEW r \in Replica, NEW state \in Migration, Boots(r, state),
         schema' \in 0..MaxMigration,
         UNCHANGED <<people, receipts>>,
         \/ sweeps' = sweeps /\ boot[r].at # "up"
         \/ sweeps' = [sweeps EXCEPT ![r] = NoSweep],
         \/ state.at \in Alone \/ state.at = "up"
         \/ state.at = "migrating" /\ state.next = schema' + 1
         \/ state.at = "lost" /\ schema' = schema /\ ~Booting(r) /\ boot[r].at = "migrating"
  PROVE  RInv'
<1>1. /\ boot' \in [Replica -> Migration] /\ boot'[r] = state
      /\ \A q \in Replica : q # r => boot'[q] = boot[q]
  BY DEF RInv, BootTyped, Boots
<1>2. BootTyped'
  BY <1>1 DEF BootTyped
<1>3. OneGetsThrough'
  <2> SUFFICES ASSUME \A q \in Replica : boot'[q].at \notin Alone
               PROVE  \E q \in Replica : boot'[q].at = "up" \/ Booting(q)'
    BY DEF OneGetsThrough
  <2>1. CASE state.at = "up" \/ (state.at = "migrating" /\ state.next = schema' + 1)
    BY <1>1, <2>1 DEF Booting
  <2>2. CASE state.at = "lost" /\ schema' = schema /\ ~Booting(r) /\ boot[r].at = "migrating"
    <3>1. \A q \in Replica : boot[q].at \notin Alone
      BY <1>1, <2>2 DEF Alone
    <3>2. PICK q \in Replica : boot[q].at = "up" \/ Booting(q)
      BY <3>1 DEF RInv, OneGetsThrough
    <3>3. q # r
      BY <2>2, <3>2
    <3> QED
      BY <1>1, <2>2, <3>2, <3>3 DEF Booting
  <2> QED
    BY <1>1, <2>1, <2>2
<1>4. \A s \in Sweeper : sweeps'[s] = sweeps[s] \/ sweeps'[s] = NoSweep
  BY DEF RInv, SweepsTyped
<1>5. SweepsTyped'
  <2>1. sweeps' \in [Sweeper -> Resting \cup Underway]
    BY DEF RInv, SweepsTyped, Resting
  <2>2. ASSUME NEW q \in Replica, sweeps'[q] # NoSweep PROVE boot'[q].at = "up"
    <3>1. q \in Sweeper
      BY DEF Sweeper
    <3>2. sweeps'[q] = sweeps[q] /\ sweeps[q] # NoSweep /\ boot[q].at = "up"
      BY <1>4, <2>2, <3>1 DEF RInv, SweepsTyped
    <3>3. q # r
      BY <2>2, <3>1, <3>2 DEF RInv, SweepsTyped
    <3> QED
      BY <1>1, <3>2, <3>3
  <2> QED
    BY <2>1, <2>2 DEF RInv, SweepsTyped
<1> QED
  BY <1>2, <1>3, <1>4, <1>5, RecordsStay DEF RInv

\* The steps of a boot, the last of them its end.
LEMMA BootSteps ==
  ASSUME RInv, NEW r \in Replica, Start(r) \/ BootStep(r) \/ BootFails(r) \/ Stop(r)
  PROVE  RInv'
<1>1. schema \in Nat /\ schema \in 0..MaxMigration /\ MaxMigration \in Nat /\ boot[r] \in Migration
  BY RetentionAssumption DEF RInv, BootTyped
<1>2. CASE Start(r)
  <2> DEFINE state == [at |-> "migrating", next |-> schema + 1]
  <2>1. /\ Boots(r, state) /\ UNCHANGED <<schema, people, sweeps, receipts>> /\ boot[r].at # "up"
    BY <1>2 DEF Start, Pending
  <2>2. state \in Migration /\ state.at = "migrating" /\ state.next = schema' + 1
    BY <1>1, <2>1 DEF Migration
  <2> QED
    BY <1>1, <2>1, <2>2, BootMoves
<1>3. CASE Migrate(r) /\ Recorded(boot[r].next)
  <2> DEFINE state == [at |-> "migrating", next |-> boot[r].next + 1]
  <2>1. boot[r].next \in Nat /\ boot[r].next \in 0..MaxMigration
    BY <1>1, <1>3 DEF Migrate, Migration
  <2>2. /\ Boots(r, state) /\ schema' = boot[r].next /\ UNCHANGED <<people, sweeps, receipts>>
        /\ boot[r].at # "up"
    BY <1>3 DEF Migrate
  <2>3. state \in Migration /\ state.at = "migrating" /\ state.next = schema' + 1
    BY <2>1, <2>2 DEF Migration
  <2> QED
    BY <2>1, <2>2, <2>3, BootMoves
<1>4. CASE Migrate(r) /\ ~Recorded(boot[r].next)
  <2> DEFINE state == [at |-> "lost"]
  <2>1. /\ Boots(r, state) /\ UNCHANGED <<schema, people, sweeps, receipts>>
        /\ boot[r].at = "migrating" /\ ~Booting(r)
    BY <1>4 DEF Migrate, Recorded, Booting
  <2>2. state \in Migration /\ state.at = "lost"
    BY DEF Migration
  <2> QED
    BY <1>1, <2>1, <2>2, BootMoves
<1>5. CASE Loop(r)
  <2> DEFINE state == [at |-> IF r \in Timed THEN "up" ELSE "off"]
  <2>1. /\ Boots(r, state) /\ UNCHANGED <<schema, people, sweeps, receipts>> /\ boot[r].at # "up"
    BY <1>5 DEF Loop
  <2>2. state \in Migration /\ (state.at \in Alone \/ state.at = "up")
    BY DEF Migration, Alone
  <2> QED
    BY <1>1, <2>1, <2>2, BootMoves
<1>6. CASE Stop(r)
  <2> DEFINE state == [at |-> "down"]
  <2>1. /\ Boots(r, state) /\ UNCHANGED <<schema, people, receipts>>
        /\ sweeps' = [sweeps EXCEPT ![r] = NoSweep]
    BY <1>6 DEF Stop
  <2>2. state \in Migration /\ state.at \in Alone
    BY DEF Migration, Alone
  <2> QED
    BY <1>1, <2>1, <2>2, BootMoves
<1>7. CASE BootFails(r)
  <2> DEFINE state == [at |-> "failed"]
  <2>1. /\ Boots(r, state) /\ UNCHANGED <<schema, people, sweeps, receipts>> /\ boot[r].at # "up"
    BY <1>7 DEF BootFails
  <2>2. state \in Migration /\ state.at \in Alone
    BY DEF Migration, Alone
  <2> QED
    BY <1>1, <2>1, <2>2, BootMoves
<1> QED
  BY <1>2, <1>3, <1>4, <1>5, <1>6, <1>7 DEF BootStep

-----------------------------------------------------------------------------
(* One sweep. *)

\* A sweep moves on while the people of the rows only get older or cleaner.
LEMMA SweepMoves ==
  ASSUME RInv, NEW s \in Sweeper, NEW next \in Resting \cup Underway,
         sweeps' = [sweeps EXCEPT ![s] = next], CanRun(s) \/ sweeps[s] # NoSweep \/ next = NoSweep,
         UNCHANGED <<schema, boot>>, ReceiptsTyped', ReceiptIsHonest',
         people' \in [Row \cup Ours -> {"young", "aged", "clean"}],
         \A p \in Row : people'[p] = people[p] \/ people'[p] = "clean",
         next \in Underway => LeftToDo(next, people')
  PROVE  RInv'
<1>1. BootTyped' /\ OneGetsThrough'
  BY DEF RInv, BootTyped, OneGetsThrough, Booting
<1>2. /\ sweeps' \in [Sweeper -> Resting \cup Underway] /\ sweeps'[s] = next
      /\ \A q \in Sweeper : q # s => sweeps'[q] = sweeps[q]
  BY DEF RInv, SweepsTyped
<1>3. SweepsTyped'
  BY <1>2 DEF RInv, SweepsTyped, CanRun, Sweeper
<1>4. ASSUME NEW sw \in Underway, LeftToDo(sw, people) PROVE LeftToDo(sw, people')
  <2>1. sw.due \subseteq Row
    BY DEF Underway
  <2> QED
    BY <1>4, <2>1 DEF LeftToDo
<1>5. NothingForgotten'
  BY <1>2, <1>4 DEF RInv, NothingForgotten
<1> QED
  BY <1>1, <1>3, <1>5 DEF RInv

\* A tenant's turn: everything due is in a table from the first on.
LEMMA TurnBegins ==
  ASSUME RInv, NEW t, UNCHANGED people
  PROVE  /\ Tenant(t) \in Resting \cup Underway
         /\ Tenant(t) \in Underway => LeftToDo(Tenant(t), people')
<1>1. CASE t \notin DOMAIN Tenants
  BY <1>1 DEF Tenant, Resting, Underway, Parts
<1>2. CASE t \in DOMAIN Tenants
  <2> DEFINE sw == [at |-> "pick", tenant |-> t, class |-> 1, full |-> FALSE, due |-> AgedOf(t)]
  <2>1. Tenant(t) = sw
    BY <1>2 DEF Tenant
  <2>2. AgedOf(t) \subseteq Row /\ 1 \in DOMAIN Classes
    BY RetentionAssumption DEF AgedOf, Aged
  <2>3. sw \in Underway
    BY <1>2, <2>2 DEF Underway
  <2>4. \A p \in AgedOf(t) : people[p] = "aged" /\ TenantOf[p] = Tenants[t] /\ InTableFrom(p, 1)
    BY RetentionAssumption DEF AgedOf, Aged, InTableFrom
  <2>5. LeftToDo(sw, people')
    BY <2>4 DEF LeftToDo, InTableFrom
  <2> QED
    BY <2>1, <2>3, <2>5
<1> QED
  BY <1>1, <1>2

\* The sweep at one of its three places.
LEMMA SweepShapes ==
  ASSUME RInv, NEW s \in Sweeper, sweeps[s].at \in {"pick", "redact", "receipt"}
  PROVE  /\ sweeps[s] \in Underway /\ sweeps[s] # NoSweep /\ LeftToDo(sweeps[s], people)
         /\ sweeps[s].tenant \in DOMAIN Tenants /\ sweeps[s].class \in DOMAIN Classes
         /\ sweeps[s].full \in BOOLEAN /\ sweeps[s].due \subseteq Row
         /\ sweeps[s].at = "redact" => sweeps[s].rows \subseteq Row
<1>1. sweeps[s] \in Resting \cup Underway
  BY DEF RInv, SweepsTyped
<1>2. sweeps[s] \in Underway
  BY <1>1 DEF Resting, NoSweep
<1>3. 1 \in DOMAIN Classes
  BY RetentionAssumption
<1> QED
  BY <1>2, <1>3 DEF RInv, NothingForgotten, Underway, NoSweep

\* The sweep begins, and goes on to the tenant that follows a receipt.
LEMMA BeginStep == ASSUME RInv, NEW s \in Sweeper, Begin(s) PROVE RInv'
<1>1. /\ sweeps' = [sweeps EXCEPT ![s] = Tenant(1)] /\ CanRun(s)
      /\ UNCHANGED <<schema, boot, people, receipts>>
  BY DEF Begin
<1>2. ReceiptsTyped' /\ ReceiptIsHonest'
  BY <1>1 DEF RInv, ReceiptsTyped, ReceiptIsHonest
<1>3. /\ people' \in [Row \cup Ours -> {"young", "aged", "clean"}]
      /\ \A p \in Row : people'[p] = people[p] \/ people'[p] = "clean"
  BY <1>1 DEF RInv, SweepsTyped
<1> QED
  BY <1>1, <1>2, <1>3, TurnBegins, SweepMoves

\* A statement's snapshot: at most its cap of aged rows, or all of them.
LEMMA PickStep == ASSUME RInv, NEW s \in Sweeper, Pick(s) PROVE RInv'
<1> DEFINE sw == sweeps[s]
<1>1. PICK rows \in SUBSET Aged(sw.tenant, sw.class) :
        /\ \/ Cardinality(rows) = BATCH
           \/ Cardinality(rows) < BATCH /\ rows = Aged(sw.tenant, sw.class)
        /\ sweeps' = [sweeps EXCEPT ![s] =
             [at |-> "redact", tenant |-> sw.tenant, class |-> sw.class,
              full |-> sw.full, due |-> sw.due, rows |-> rows]]
  BY DEF Pick
<1> DEFINE next == [at |-> "redact", tenant |-> sw.tenant, class |-> sw.class,
                    full |-> sw.full, due |-> sw.due, rows |-> rows]
<1>2. /\ sw \in Underway /\ sw # NoSweep /\ LeftToDo(sw, people)
      /\ sw.tenant \in DOMAIN Tenants /\ sw.class \in DOMAIN Classes
      /\ sw.full \in BOOLEAN /\ sw.due \subseteq Row /\ sw.at = "pick"
  BY SweepShapes DEF Pick
<1>3. rows \subseteq Row
  BY DEF Aged
<1>4. next \in Underway
  BY <1>2, <1>3 DEF Underway
<1>5. UNCHANGED <<schema, boot, people, receipts>>
  BY DEF Pick
<1>6. ASSUME NEW p \in sw.due
      PROVE  /\ people[p] \in {"aged", "clean"} /\ TenantOf[p] = Tenants[sw.tenant]
             /\ \/ people[p] = "clean" \/ sw.full \/ Full(Cardinality(rows))
                \/ p \in rows \/ InTableFrom(p, sw.class + 1)
  <2>1. /\ people[p] \in {"aged", "clean"} /\ TenantOf[p] = Tenants[sw.tenant]
        /\ people[p] = "clean" \/ sw.full \/ InTableFrom(p, sw.class)
    BY <1>2 DEF LeftToDo
  <2>2. CASE people[p] = "aged" /\ InTableFrom(p, sw.class)
    <3>1. PICK k \in DOMAIN Classes : k >= sw.class /\ ClassOf[p] = Classes[k]
      BY <2>2 DEF InTableFrom
    <3>2. CASE k = sw.class
      <4>1. p \in Aged(sw.tenant, sw.class)
        BY <1>2, <2>1, <2>2, <3>1, <3>2 DEF Aged
      <4> QED
        BY <1>1, <2>1, <4>1, RetentionAssumption DEF Full
    <3>3. CASE k # sw.class
      <4>1. k >= sw.class + 1
        BY <1>2, <3>1, <3>3, RetentionAssumption
      <4> QED
        BY <2>1, <3>1, <4>1 DEF InTableFrom
    <3> QED
      BY <3>2, <3>3
  <2> QED
    BY <2>1, <2>2
<1>7. LeftToDo(next, people')
  BY <1>5, <1>6 DEF LeftToDo, InTableFrom
<1>8. ReceiptsTyped' /\ ReceiptIsHonest'
  BY <1>5 DEF RInv, ReceiptsTyped, ReceiptIsHonest
<1>9. /\ people' \in [Row \cup Ours -> {"young", "aged", "clean"}]
      /\ \A p \in Row : people'[p] = people[p] \/ people'[p] = "clean"
  BY <1>5 DEF RInv, SweepsTyped
<1>10. sweeps' = [sweeps EXCEPT ![s] = next]
  BY <1>1
<1> HIDE DEF next
<1> QED
  BY <1>2, <1>4, <1>5, <1>7, <1>8, <1>9, <1>10, SweepMoves

\* Cleaning rows leaves the receipts true.
LEMMA CleanerReceipts ==
  ASSUME RInv, receipts' = receipts,
         \A p \in Row : people'[p] = people[p] \/ people'[p] = "clean"
  PROVE  ReceiptsTyped' /\ ReceiptIsHonest'
<1>1. ReceiptsTyped'
  BY DEF RInv, ReceiptsTyped
<1>2. \A t \in DOMAIN Tenants : receipts[t] # None => receipts[t].due \subseteq Row
  BY DEF RInv, ReceiptsTyped
<1> QED
  BY <1>1, <1>2 DEF RInv, ReceiptIsHonest

\* The rows picked are redacted, and the next table is next.
LEMMA RedactStep == ASSUME RInv, NEW s \in Sweeper, Redact(s) PROVE RInv'
<1> DEFINE sw == sweeps[s]
           full == sw.full \/ Full(Cardinality(sw.rows))
           last == sw.class = Len(Classes)
           next == [at |-> IF last THEN "receipt" ELSE "pick", tenant |-> sw.tenant,
                    class |-> IF last THEN 1 ELSE sw.class + 1, full |-> full, due |-> sw.due]
<1>1. /\ sw \in Underway /\ sw # NoSweep /\ LeftToDo(sw, people)
      /\ sw.tenant \in DOMAIN Tenants /\ sw.class \in DOMAIN Classes
      /\ sw.full \in BOOLEAN /\ sw.due \subseteq Row /\ sw.at = "redact" /\ sw.rows \subseteq Row
  BY SweepShapes DEF Redact
<1>2. /\ people' = [p \in DOMAIN people |-> IF p \in sw.rows THEN "clean" ELSE people[p]]
      /\ sweeps' = [sweeps EXCEPT ![s] = next]
      /\ UNCHANGED <<schema, boot, receipts>>
  BY DEF Redact, Clean
<1>3. /\ people' \in [Row \cup Ours -> {"young", "aged", "clean"}]
      /\ \A p \in Row : people'[p] = IF p \in sw.rows THEN "clean" ELSE people[p]
  BY <1>2 DEF RInv, SweepsTyped, Clean
<1>4. sw.class + 1 \in DOMAIN Classes \/ last
  BY <1>1, RetentionAssumption
<1>5. full \in BOOLEAN
  BY <1>1 DEF Full
<1>6. next \in Underway
  BY <1>1, <1>4, <1>5, RetentionAssumption DEF Underway
<1>7. ASSUME NEW p \in sw.due
      PROVE  /\ people'[p] \in {"aged", "clean"} /\ TenantOf[p] = Tenants[sw.tenant]
             /\ people'[p] = "clean" \/ full \/ (~last /\ InTableFrom(p, sw.class + 1))
  <2>1. /\ people[p] \in {"aged", "clean"} /\ TenantOf[p] = Tenants[sw.tenant]
        /\ people[p] = "clean" \/ full \/ p \in sw.rows \/ InTableFrom(p, sw.class + 1)
    BY <1>1 DEF LeftToDo
  <2>2. last => ~InTableFrom(p, sw.class + 1)
    BY <1>1, RetentionAssumption DEF InTableFrom
  <2>3. people'[p] = IF p \in sw.rows THEN "clean" ELSE people[p]
    BY <1>1, <1>3
  <2> HIDE DEF full, last
  <2> QED
    BY <2>1, <2>2, <2>3
<1>8. LeftToDo(next, people')
  BY <1>7 DEF LeftToDo, InTableFrom
<1>9. ReceiptsTyped' /\ ReceiptIsHonest'
  BY <1>2, <1>3, CleanerReceipts
<1>10. \A p \in Row : people'[p] = people[p] \/ people'[p] = "clean"
  BY <1>3
<1>11. sweeps' = [sweeps EXCEPT ![s] = next] /\ UNCHANGED <<schema, boot>>
  BY <1>2
<1> HIDE DEF next
<1> QED
  BY <1>1, <1>3, <1>6, <1>8, <1>9, <1>10, <1>11, SweepMoves

\* The receipt, written when every table has been swept.
LEMMA ReceiptStep == ASSUME RInv, NEW s \in Sweeper, Receipt(s) PROVE RInv'
<1> DEFINE sw == sweeps[s]
           receipt == [more |-> sw.full, due |-> sw.due]
<1>1. /\ sw # NoSweep /\ LeftToDo(sw, people) /\ sw.tenant \in DOMAIN Tenants
      /\ sw.full \in BOOLEAN /\ sw.due \subseteq Row /\ sw.at = "receipt"
  BY SweepShapes DEF Receipt
<1>2. /\ receipts' = [receipts EXCEPT ![sw.tenant] = receipt]
      /\ sweeps' = [sweeps EXCEPT ![s] = Tenant(sw.tenant + 1)]
      /\ UNCHANGED <<schema, boot, people>>
  BY DEF Receipt
<1>3. ~sw.full => \A p \in sw.due : people[p] = "clean"
  BY <1>1 DEF LeftToDo
<1>4. ReceiptsTyped'
  BY <1>1, <1>2 DEF RInv, ReceiptsTyped
<1>5. ReceiptIsHonest'
  BY <1>1, <1>2, <1>3 DEF RInv, ReceiptsTyped, ReceiptIsHonest
<1>6. /\ people' \in [Row \cup Ours -> {"young", "aged", "clean"}]
      /\ \A p \in Row : people'[p] = people[p] \/ people'[p] = "clean"
  BY <1>2 DEF RInv, SweepsTyped
<1> QED
  BY <1>1, <1>2, <1>4, <1>5, <1>6, TurnBegins, SweepMoves

\* A sweep ends: part by part over the shifts and the leads, or with an error.
LEMMA EndSteps ==
  ASSUME RInv, NEW s \in Sweeper, PruneOurs(s) \/ OursFails(s) \/ Fail(s)
  PROVE  RInv'
<1>1. /\ sweeps[s] \in Resting \cup Underway /\ sweeps[s] # NoSweep
      /\ UNCHANGED <<schema, boot, receipts>>
  BY DEF PruneOurs, OursFails, Fail, RInv, SweepsTyped, NoSweep
<1>2. PICK next \in Resting : sweeps' = [sweeps EXCEPT ![s] = next]
  <2>1. CASE Fail(s)
    BY <2>1 DEF Fail, AfterFailure, Resting
  <2>2. CASE PruneOurs(s) \/ OursFails(s)
    <3> DEFINE part == sweeps[s].part
               next == IF part = Len(Parts) THEN NoSweep ELSE [at |-> "ours", part |-> part + 1]
    <3>1. sweeps[s].at = "ours" /\ sweeps' = [sweeps EXCEPT ![s] = next]
      BY <2>2 DEF PruneOurs, OursFails, NextPart
    <3>2. part \in 1..3 /\ Len(Parts) = 3 /\ DOMAIN Parts = 1..3
      BY <1>1, <3>1 DEF Resting, Underway, Parts, NoSweep
    <3>3. next \in Resting
      BY <3>2 DEF Resting
    <3> QED
      BY <3>1, <3>3
  <2> QED
    BY <2>1, <2>2
<1>3. next \notin Underway
  BY DEF Resting, Underway, NoSweep
<1>4. /\ people' \in [Row \cup Ours -> {"young", "aged", "clean"}]
      /\ \A p \in Row : people'[p] = people[p] \/ people'[p] = "clean"
  BY DEF PruneOurs, OursFails, Fail, Clean, RInv, SweepsTyped
<1>5. ReceiptsTyped' /\ ReceiptIsHonest'
  BY <1>1, <1>4, CleanerReceipts
<1> QED
  BY <1>1, <1>2, <1>3, <1>4, <1>5, SweepMoves

\* A row ages: it was young, so it was due to nobody.
LEMMA AgeStep == ASSUME RInv, NEW p \in Row \cup Ours, Age(p) PROVE RInv'
<1>1. /\ people' = [people EXCEPT ![p] = "aged"] /\ people[p] = "young"
      /\ UNCHANGED <<schema, boot, sweeps, receipts>>
  BY DEF Age
<1>2. BootTyped' /\ OneGetsThrough' /\ ReceiptsTyped'
  BY <1>1 DEF RInv, BootTyped, OneGetsThrough, Booting, ReceiptsTyped
<1>3. SweepsTyped'
  BY <1>1 DEF RInv, SweepsTyped
<1>4. \A q \in Row : people[q] # "young" => people'[q] = people[q]
  BY <1>1 DEF RInv, SweepsTyped
<1>5. ASSUME NEW sw \in Underway, LeftToDo(sw, people) PROVE LeftToDo(sw, people')
  <2>1. sw.due \subseteq Row
    BY DEF Underway
  <2>2. \A q \in sw.due : people'[q] = people[q]
    BY <1>4, <1>5, <2>1 DEF LeftToDo
  <2> QED
    BY <1>5, <2>2 DEF LeftToDo
<1>6. NothingForgotten'
  BY <1>1, <1>5 DEF RInv, NothingForgotten
<1>7. ReceiptIsHonest'
  <2>1. \A t \in DOMAIN Tenants : receipts[t] # None => receipts[t].due \subseteq Row
    BY DEF RInv, ReceiptsTyped
  <2> QED
    BY <1>1, <1>4, <2>1 DEF RInv, ReceiptIsHonest
<1> QED
  BY <1>2, <1>3, <1>6, <1>7 DEF RInv

-----------------------------------------------------------------------------
(* The theorems. *)

\* Everybody is down, and nothing has been swept.
LEMMA RInit == RetInit => RInv
<1> SUFFICES ASSUME RetInit PROVE RInv
  OBVIOUS
<1>1. BootTyped
  BY DEF RetInit, BootTyped, Migration
<1>2. OneGetsThrough
  BY RetentionAssumption DEF RetInit, OneGetsThrough, Alone
<1>3. SweepsTyped
  BY DEF RetInit, SweepsTyped, Resting, Sweeper
<1>4. ReceiptsTyped /\ ReceiptIsHonest
  BY DEF RetInit, ReceiptsTyped, ReceiptIsHonest
<1>5. NothingForgotten
  BY DEF RetInit, NothingForgotten, NoSweep, Underway
<1> QED
  BY <1>1, <1>2, <1>3, <1>4, <1>5 DEF RInv

\* Every step keeps the invariant.
LEMMA RStep == RInv /\ [RetNext]_retvars => RInv'
<1> SUFFICES ASSUME RInv, [RetNext]_retvars PROVE RInv'
  OBVIOUS
<1>1. CASE UNCHANGED retvars
  <2>1. UNCHANGED <<schema, boot, people, sweeps, receipts>>
    BY <1>1 DEF retvars
  <2>2. ReceiptsTyped' /\ NothingForgotten' /\ ReceiptIsHonest'
    BY <2>1, RecordsStay
  <2> QED
    BY <2>1, <2>2 DEF RInv, BootTyped, OneGetsThrough, Booting, SweepsTyped
<1> QED
  BY <1>1, BootSteps, BeginStep, PickStep, RedactStep, ReceiptStep, EndSteps, AgeStep
     DEF RetNext, SweepStep

\* The boots, the sweeps and the receipts keep their shape, and only a replica
\* that is up sweeps (main.py, retention.py).
THEOREM RetentionTyped == RetSpec => []RetTypeOK
<1>1. RInv => RetTypeOK
  <2> SUFFICES ASSUME RInv PROVE RetTypeOK
    OBVIOUS
  <2>1. \A r \in Replica : boot[r].at \in {"down", "migrating", "lost", "failed", "off", "up"}
    BY DEF RInv, BootTyped, Migration
  <2>2. \A s \in Sweeper : sweeps[s].at \in {"none", "pick", "redact", "receipt", "ours"}
    BY DEF RInv, SweepsTyped, Resting, Underway, NoSweep
  <2> QED
    BY <2>1, <2>2 DEF RInv, BootTyped, SweepsTyped, RetTypeOK
<1> QED
  BY RInit, RStep, <1>1, PTL DEF RetSpec

\* A receipt that says nothing remains leaves no row that was due when its
\* sweep began, whatever sweeps run beside it (retention.sweep).
THEOREM HonestReceipts == RetSpec => []ReceiptIsHonest
<1>1. RInv => ReceiptIsHonest
  BY DEF RInv
<1> QED
  BY RInit, RStep, <1>1, PTL DEF RetSpec

\* However many replicas boot at once on whatever schema, they do not all lose
\* the race of a migration: when each has booted and lost it or come up, one of
\* them runs the retention loop.  A boot that fails by itself, and a timer that
\* is turned off, are outside what this says (db.migrate, main._startup).
THEOREM OneSweeps == RetSpec => []SomebodySweeps
<1>1. RInv => SomebodySweeps
  BY DEF RInv, OneGetsThrough, SomebodySweeps, Booting, Alone
<1> QED
  BY RInit, RStep, <1>1, PTL DEF RetSpec

-----------------------------------------------------------------------------
(* Answers by voice: numbers first. *)

\* Some number of a set of them is the least.
LEMMA Least ==
  ASSUME NEW T, T \subseteq Nat, T # {}
  PROVE  \E m \in T : \A n \in T : m <= n
<1>1. IsWellFoundedOn({p \in Nat \X Nat : p[1] < p[2]}, Nat)
  BY NatLessThanWellFounded DEF OpToRel
<1>2. PICK m \in T : \A n \in T : <<n, m>> \notin {p \in Nat \X Nat : p[1] < p[2]}
  BY <1>1, WFMin
<1>3. ASSUME NEW n \in T PROVE ~ (n < m)
  <2>1. <<n, m>> \in Nat \X Nat /\ <<n, m>>[1] = n /\ <<n, m>>[2] = m
    OBVIOUS
  <2> QED
    BY <1>2, <2>1
<1> QED
  BY <1>3

\* What hangs under some keys of a rail, and what is owed, can be counted.
LEMMA PiecesCount ==
  ASSUME NEW item, CountsVariants(item), NEW keys, keys \subseteq Rail(item)
  PROVE  /\ IsFiniteSet(Hanging(item, keys)) /\ IsFiniteSet(Oversold(item, keys))
         /\ Cardinality(Hanging(item, keys)) \in Nat /\ Cardinality(Oversold(item, keys)) \in Nat
<1>1. IsFiniteSet(keys) /\ \A k \in keys : item.sizes[k] \in Int
  BY VoiceAssumption, FS_Subset DEF CountsVariants, Rail
<1>2. ASSUME NEW R, NEW f \in [keys -> R], \A k \in keys : IsFiniteSet(f[k])
      PROVE  IsFiniteSet(UNION {f[k] : k \in keys})
  <2>1. f \in Surjection(keys, {f[k] : k \in keys})
    BY <1>2 DEF Surjection
  <2>2. IsFiniteSet({f[k] : k \in keys})
    BY <1>1, <2>1, FS_Surjection
  <2> QED
    BY <1>2, <2>2, FS_UNION
<1>3. ASSUME NEW k \in keys, NEW n \in Int PROVE IsFiniteSet({k} \X (1..n))
  <2>1. IsFiniteSet({k})
    BY FS_Singleton
  <2>2. IsFiniteSet(1..n)
    BY FS_Interval
  <2> QED
    BY <2>1, <2>2, FS_Product
<1>4. IsFiniteSet(Hanging(item, keys))
  <2> DEFINE f == [k \in keys |-> {k} \X (1..item.sizes[k])]
             R == {{k} \X (1..item.sizes[k]) : k \in keys}
  <2>1. f \in [keys -> R]
    OBVIOUS
  <2>2. \A k \in keys : IsFiniteSet(f[k])
    BY <1>1, <1>3
  <2>3. UNION {f[k] : k \in keys} = UNION R
    OBVIOUS
  <2>4. IsFiniteSet(UNION {f[k] : k \in keys})
    <3> HIDE DEF f, R
    <3> QED
      BY <2>1, <2>2, <1>2
  <2> QED
    BY <2>3, <2>4 DEF Hanging
<1>5. IsFiniteSet(Oversold(item, keys))
  <2> DEFINE f == [k \in keys |-> {k} \X (1..-item.sizes[k])]
             R == {{k} \X (1..-item.sizes[k]) : k \in keys}
  <2>1. f \in [keys -> R]
    OBVIOUS
  <2>2. \A k \in keys : IsFiniteSet(f[k])
    BY <1>1, <1>3
  <2>3. UNION {f[k] : k \in keys} = UNION R
    OBVIOUS
  <2>4. IsFiniteSet(UNION {f[k] : k \in keys})
    <3> HIDE DEF f, R
    <3> QED
      BY <2>1, <2>2, <1>2
  <2> QED
    BY <2>3, <2>4 DEF Oversold
<1> QED
  BY <1>4, <1>5, FS_CardinalityType

\* A sum above zero has a piece behind it and no more than the pieces that
\* hang; one that is not has no piece behind it, or a variant that is oversold.
LEMMA Sum ==
  ASSUME NEW item, CountsVariants(item), NEW keys, keys \subseteq Rail(item)
  PROVE  /\ UnitsOf(item, keys) \in Int
         /\ UnitsOf(item, keys) > 0 =>
              /\ \E k \in keys : item.sizes[k] > 0
              /\ UnitsOf(item, keys) <= Cardinality(Hanging(item, keys))
         /\ UnitsOf(item, keys) <= 0 =>
              \/ \A k \in keys : ~ (item.sizes[k] > 0)
              \/ \E k \in keys : item.sizes[k] < 0
<1>1. \A k \in keys : item.sizes[k] \in Int
  BY DEF CountsVariants, Rail
<1>2. /\ IsFiniteSet(Hanging(item, keys)) /\ IsFiniteSet(Oversold(item, keys))
      /\ Cardinality(Hanging(item, keys)) \in Nat /\ Cardinality(Oversold(item, keys)) \in Nat
  BY PiecesCount
<1>3. UnitsOf(item, keys) \in Int /\ UnitsOf(item, keys) <= Cardinality(Hanging(item, keys))
  BY <1>2 DEF UnitsOf
<1>4. ASSUME UnitsOf(item, keys) > 0 PROVE \E k \in keys : item.sizes[k] > 0
  <2>1. Cardinality(Hanging(item, keys)) # 0
    BY <1>2, <1>4 DEF UnitsOf
  <2>2. PICK p \in Hanging(item, keys) : TRUE
    BY <1>2, <2>1, FS_EmptySet
  <2>3. PICK k \in keys : p \in {k} \X (1..item.sizes[k])
    BY <2>2 DEF Hanging
  <2> QED
    BY <1>1, <2>3
<1>5. ASSUME NEW k \in keys, item.sizes[k] > 0, \A l \in keys : ~ (item.sizes[l] < 0)
      PROVE  UnitsOf(item, keys) > 0
  <2>1. <<k, 1>> \in Hanging(item, keys)
    <3>1. <<k, 1>> \in {k} \X (1..item.sizes[k])
      BY <1>1, <1>5
    <3> QED
      BY <3>1 DEF Hanging
  <2>2. Oversold(item, keys) = {}
    <3>1. \A l \in keys : {l} \X (1..-item.sizes[l]) = {}
      BY <1>1, <1>5
    <3> QED
      BY <3>1 DEF Oversold
  <2>3. Cardinality(Hanging(item, keys)) # 0 /\ Cardinality(Oversold(item, keys)) = 0
    BY <1>2, <2>1, <2>2, FS_EmptySet
  <2> QED
    BY <1>2, <2>3 DEF UnitsOf
<1>6. UnitsOf(item, keys) <= 0 =>
        (\A k \in keys : ~ (item.sizes[k] > 0)) \/ \E k \in keys : item.sizes[k] < 0
  BY <1>3, <1>5
<1> QED
  BY <1>3, <1>4, <1>6

\* The orders that the scheme names may come in.
Orders == {<<"waist", "numeric", "letter">>, <<"letter", "numeric", "waist">>}

\* The scheme of an item is the scheme of one of its variants, and no other is
\* commoner on its rail.
LEMMA SchemeOnRail ==
  ASSUME NEW item, CountsVariants(item), item_scheme(item) # None
  PROVE  /\ \E k \in Rail(item) : SchemeOf[k] = item_scheme(item)
         /\ order \in Orders =>
              \A t \in {"waist", "numeric", "letter"} : Many(item, t) <= Many(item, item_scheme(item))
<1> DEFINE sized(s) == {z \in Rail(item) : SchemeOf[z] = s}
           most == {k \in 1..3 : Many(item, order[k]) > 0
                                 /\ \A l \in 1..3 : Many(item, order[l]) <= Many(item, order[k])}
<1>1. item_scheme(item) = order[Min(most)] /\ most # {}
  BY DEF item_scheme
<1>2. Min(most) \in most
  <2>1. most \subseteq Nat
    OBVIOUS
  <2> HIDE DEF most
  <2>2. PICK m \in most : \A n \in most : m <= n
    BY <1>1, <2>1, Least
  <2> QED
    BY <2>2 DEF Min
<1>3. Cardinality(sized(order[Min(most)])) > 0
  BY <1>2 DEF Many
<1>4. IsFiniteSet(sized(order[Min(most)]))
  <2>1. sized(order[Min(most)]) \in SUBSET Size
    BY DEF CountsVariants, Rail
  <2> QED
    BY <2>1, VoiceAssumption, FS_Subset
<1>5. sized(order[Min(most)]) # {}
  <2> HIDE DEF sized, most
  <2> QED
    BY <1>3, <1>4, FS_EmptySet
<1>6. ASSUME order \in Orders, NEW t \in {"waist", "numeric", "letter"}
      PROVE  Many(item, t) <= Many(item, item_scheme(item))
  <2>1. \E l \in 1..3 : order[l] = t
    BY <1>6 DEF Orders
  <2> QED
    BY <1>1, <1>2, <2>1
<1> QED
  BY <1>1, <1>5, <1>6

\* The keys that a spoken size is matched with are variants it names, all of
\* them unless the rail has the size itself.
LEMMA Matched ==
  ASSUME NEW item, CountsVariants(item), NEW z \in Size
  PROVE  /\ _size_keys_matching(item, z) \subseteq Named(item, z)
         /\ Named(item, z) \subseteq Rail(item)
         /\ z \in Rail(item) => _size_keys_matching(item, z) = {z}
         /\ z \notin Rail(item) => _size_keys_matching(item, z) = Named(item, z)
<1>1. Rail(item) \subseteq Size
  BY DEF Rail, CountsVariants
<1>2. \A k \in Size :
        {SchemeOf[k], SchemeOf[z]} = {"numeric", "waist"} /\ WaistOf[k] = WaistOf[z]
        <=> WaistOf[k] # None /\ WaistOf[k] = WaistOf[z] /\ SchemeOf[k] # SchemeOf[z]
  <2>1. TAKE k \in Size
  <2>2. /\ WaistOf[k] = None <=> SchemeOf[k] \notin {"waist", "numeric"}
        /\ WaistOf[z] = None <=> SchemeOf[z] \notin {"waist", "numeric"}
    BY VoiceAssumption
  <2> QED
    BY <2>2
<1>3. Named(item, z) \subseteq Rail(item)
  BY DEF Named
<1>4. ASSUME z \in Rail(item)
      PROVE  _size_keys_matching(item, z) = {z} /\ z \in Named(item, z)
  BY <1>4 DEF _size_keys_matching, Named
<1>5. ASSUME z \notin Rail(item)
      PROVE  _size_keys_matching(item, z) = Named(item, z)
  <2>1. \A k \in Rail(item) : k # z /\ k \in Size
    BY <1>1, <1>5
  <2>2. _size_keys_matching(item, z) =
          {k \in Rail(item) : {SchemeOf[k], SchemeOf[z]} = {"numeric", "waist"} /\ WaistOf[k] = WaistOf[z]}
    BY <1>5 DEF _size_keys_matching
  <2> QED
    BY <1>2, <2>1, <2>2 DEF Named
<1> QED
  BY <1>3, <1>4, <1>5

\* What size_availability finds is what TrueOfRail asks of an answer.
LEMMA Availability ==
  ASSUME NEW item, CountsVariants(item), NEW z \in Size, NEW said, said.size = z,
         said.verdict = size_availability(item, z).verdict,
         said.units = size_availability(item, z).units
  PROVE  TrueOfRail(item, said)
<1> DEFINE keys == _size_keys_matching(item, z)
           named == Named(item, z)
           left == {k \in named : item.sizes[k] > 0}
<1>1. /\ keys \subseteq named /\ named \subseteq Rail(item)
      /\ z \in Rail(item) => keys = {z}
      /\ z \notin Rail(item) => keys = named
  BY Matched
<1>2. z # None
  BY VoiceAssumption
<1>3. /\ \A k \in Rail(item) : item.sizes[k] \in Int
      /\ Rail(item) \subseteq Size
      /\ item.sizes # None => \A k \in Rail(item) : k \in DOMAIN item.sizes
  BY DEF Rail, CountsVariants
<1>4. z \in named <=> z \in Rail(item)
  BY DEF Named
<1>5. \A k \in nearest_sizes(item, z) : item.sizes[k] > 0 /\ k # z
  <2>1. TAKE k \in nearest_sizes(item, z)
  <2>2. k \in Rail(item) /\ item.sizes[k] > 0 /\ k \notin keys
    BY <1>2 DEF nearest_sizes
  <2> QED
    BY <1>1, <2>2
<1>6. CASE item.sizes = None
  <2>1. said.verdict = "unknown" /\ Rail(item) = {}
    BY <1>2, <1>6 DEF size_availability, Rail
  <2> QED
    BY <1>1, <1>5, <2>1 DEF TrueOfRail
<1>7. CASE item.sizes # None /\ keys # {}
  <2>1. said.units = UnitsOf(item, keys) /\ said.verdict = IF UnitsOf(item, keys) > 0 THEN "yes" ELSE "no"
    BY <1>2, <1>7 DEF size_availability
  <2>2. /\ UnitsOf(item, keys) \in Int
        /\ UnitsOf(item, keys) > 0 =>
             /\ \E k \in keys : item.sizes[k] > 0
             /\ UnitsOf(item, keys) <= Cardinality(Hanging(item, keys))
        /\ UnitsOf(item, keys) <= 0 =>
             \/ \A k \in keys : ~ (item.sizes[k] > 0)
             \/ \E k \in keys : item.sizes[k] < 0
    BY <1>1, Sum
  <2>3. /\ Cardinality(Hanging(item, keys)) \in Nat /\ Cardinality(Hanging(item, named)) \in Nat
        /\ Cardinality(Hanging(item, keys)) <= Cardinality(Hanging(item, named))
    <3>1. Hanging(item, keys) \in SUBSET Hanging(item, named)
      BY <1>1 DEF Hanging
    <3>2. IsFiniteSet(Hanging(item, named))
      BY <1>1, PiecesCount
    <3>3. Cardinality(Hanging(item, keys)) <= Cardinality(Hanging(item, named))
      BY <3>1, <3>2, FS_Subset
    <3>4. Cardinality(Hanging(item, keys)) \in Nat /\ Cardinality(Hanging(item, named)) \in Nat
      BY <1>1, PiecesCount
    <3> QED
      BY <3>3, <3>4
  <2>4. CASE UnitsOf(item, keys) > 0
    <3>1. said.verdict = "yes" /\ left # {}
      BY <1>1, <2>1, <2>2, <2>4
    <3>2. said.units \in 1..Cardinality(Hanging(item, named))
      BY <2>1, <2>2, <2>3, <2>4
    <3> QED
      BY <1>5, <3>1, <3>2 DEF TrueOfRail
  <2>5. CASE ~ (UnitsOf(item, keys) > 0)
    <3>1. said.verdict = "no" /\ UnitsOf(item, keys) <= 0
      BY <2>1, <2>2, <2>5
    <3>2. z \in Rail(item) => item.sizes[z] \in Int /\ ~ (item.sizes[z] > 0) /\ z \notin left
      BY <1>1, <1>3, <2>2, <3>1
    <3>3. z \notin Rail(item) => left = {} \/ \E k \in named : item.sizes[k] < 0
      BY <1>1, <2>2, <3>1
    <3>4. ASSUME z \notin Rail(item)
          PROVE  \E k \in Rail(item) : Comparable(SchemeOf[k], SchemeOf[z])
      <4>1. PICK k \in keys : TRUE
        BY <1>7
      <4>2. k \in Rail(item) /\ {SchemeOf[k], SchemeOf[z]} = {"numeric", "waist"}
        BY <3>4, <4>1 DEF _size_keys_matching
      <4> QED
        BY <4>2 DEF Comparable
    <3> QED
      BY <1>5, <3>1, <3>2, <3>3, <3>4 DEF TrueOfRail
  <2> QED
    BY <2>4, <2>5
<1>8. CASE item.sizes # None /\ keys = {} /\ Blind(item, z)
  <2>1. said.verdict = "unknown" /\ named = {}
    BY <1>1, <1>2, <1>8 DEF size_availability
  <2> QED
    BY <1>5, <2>1 DEF TrueOfRail
<1>9. CASE item.sizes # None /\ keys = {} /\ ~ Blind(item, z)
  <2>1. said.verdict = "no" /\ named = {}
    BY <1>1, <1>2, <1>9 DEF size_availability
  <2>2. item_scheme(item) # None /\ Comparable(SchemeOf[z], item_scheme(item))
    BY <1>2, <1>9 DEF Blind, size_scheme
  <2>3. PICK k \in Rail(item) : SchemeOf[k] = item_scheme(item)
    BY <2>2, SchemeOnRail
  <2>4. Comparable(SchemeOf[k], SchemeOf[z])
    BY <2>2, <2>3 DEF Comparable
  <2> QED
    BY <1>5, <2>1, <2>4 DEF TrueOfRail
<1> QED
  BY <1>6, <1>7, <1>8, <1>9

\* What is not sized as it was asked is outnumbered on the rail.
LEMMA NotSized ==
  ASSUME NEW item, CountsVariants(item), NEW z \in Size, order \in Orders,
         ~ _scheme_compatible(item, z)
  PROVE  Outnumbered(item, z)
<1> DEFINE s == item_scheme(item)
<1>1. z # None /\ SchemeOf[z] # None /\ s # None /\ ~ Comparable(SchemeOf[z], s)
  BY VoiceAssumption DEF _scheme_compatible, size_scheme
<1>2. /\ \A t \in {"waist", "numeric", "letter"} : Many(item, t) <= Many(item, s)
      /\ \E k \in Rail(item) : SchemeOf[k] = s
  BY <1>1, SchemeOnRail
<1>3. Rail(item) \subseteq Size
  BY DEF Rail, CountsVariants
<1>4. \A x \in Size : SchemeOf[x] \in {"waist", "numeric", "letter", None}
                      /\ (WaistOf[x] = None <=> SchemeOf[x] \notin {"waist", "numeric"})
  BY VoiceAssumption
<1>5. s \in {"waist", "numeric", "letter"}
  BY <1>1, <1>2, <1>3, <1>4
<1>6. ASSUME NEW k \in Named(item, z)
      PROVE  ~ Comparable(s, SchemeOf[k]) /\ Many(item, s) >= Many(item, SchemeOf[k])
  <2>1. k \in Rail(item) /\ k \in Size
    BY <1>3 DEF Named
  <2>2. \/ SchemeOf[k] = SchemeOf[z]
        \/ {SchemeOf[k], SchemeOf[z]} = {"numeric", "waist"}
    <3>1. CASE k = z
      BY <3>1
    <3>2. CASE WaistOf[k] # None /\ WaistOf[k] = WaistOf[z] /\ SchemeOf[k] # SchemeOf[z]
      BY <1>4, <2>1, <3>2
    <3> QED
      BY <3>1, <3>2 DEF Named
  <2>3. SchemeOf[k] \in {"waist", "numeric", "letter"}
    BY <1>1, <1>4, <2>1, <2>2
  <2>4. ~ Comparable(s, SchemeOf[k])
    <3> HIDE DEF s
    <3> QED
      BY <1>1, <1>5, <2>2, <2>3 DEF Comparable
  <2>5. Many(item, SchemeOf[k]) <= Many(item, s)
    BY <1>2, <2>3
  <2>6. Many(item, s) >= Many(item, SchemeOf[k])
    <3> HIDE DEF s
    <3> QED
      BY <2>5
  <2> QED
    BY <2>4, <2>6
<1> QED
  BY <1>5, <1>6 DEF Outnumbered

\* A question that was heard, and where.
Heard ==
  /\ heard # None /\ heard \in AboutThings \cup AboutTheGuest
  /\ inventory \in Inventory /\ guest \in Guest /\ focus \in 0..Len(inventory)

LEMMA TheFloor ==
  ASSUME inventory \in Inventory
  PROVE  /\ Len(inventory) \in Nat /\ Items = 1..Len(inventory)
         /\ inventory # <<>> => Items # {}
         /\ \A i \in Items : CountsVariants(Item(i))
<1>1. inventory \in Seq(Range(inventory)) /\ \A i \in DOMAIN inventory : CountsVariants(inventory[i])
  BY VoiceAssumption
<1>2. Len(inventory) \in Nat /\ DOMAIN inventory = 1..Len(inventory)
  BY <1>1
<1>3. inventory # <<>> => Len(inventory) # 0
  BY <1>1
<1> QED
  BY <1>1, <1>2, <1>3 DEF Items, Item

\* The most that a product can score.
LEMMA ScoreBound ==
  ASSUME heard.words \subseteq Word
  PROVE  /\ Cardinality(heard.words) \in Nat
         /\ \A i : score(i) \in 0..3 * Cardinality(heard.words)
<1>1. IsFiniteSet(heard.words)
  BY VoiceAssumption, FS_Subset
<1>2. Cardinality(heard.words) \in Nat
  BY <1>1, FS_CardinalityType
<1>3. ASSUME NEW W
      PROVE  Cardinality(heard.words \cap W) \in 0..Cardinality(heard.words)
  <2>1. /\ IsFiniteSet(heard.words \cap W)
        /\ Cardinality(heard.words \cap W) <= Cardinality(heard.words)
    BY <1>1, FS_Intersection
  <2>2. Cardinality(heard.words \cap W) \in Nat
    BY <2>1, FS_CardinalityType
  <2> QED
    BY <1>2, <2>1, <2>2
<1>4. ASSUME NEW i PROVE score(i) \in 0..3 * Cardinality(heard.words)
  <2>1. /\ Cardinality(heard.words \cap Item(i).name) \in 0..Cardinality(heard.words)
        /\ Cardinality(heard.words \cap Item(i).tags) \in 0..Cardinality(heard.words)
    BY <1>3
  <2> QED
    BY <1>2, <2>1 DEF score
<1> QED
  BY <1>2, <1>4

\* Some item of a floor scores best, and the first of them is meant.
LEMMA BestIsItem ==
  ASSUME inventory \in Inventory, inventory # <<>>, heard.words \subseteq Word
  PROVE  Best \in Items
<1>1. /\ Items = 1..Len(inventory) /\ Len(inventory) \in Nat /\ Items # {}
  BY TheFloor
<1>2. Cardinality(heard.words) \in Nat
  BY ScoreBound
<1>4. \A i \in Items : score(i) \in 0..3 * Cardinality(heard.words)
  BY ScoreBound
<1> DEFINE short(i) == 3 * Cardinality(heard.words) - score(i)
<1>5. PICK least \in {short(i) : i \in Items} : \A n \in {short(i) : i \in Items} : least <= n
  <2>1. {short(i) : i \in Items} # {}
    BY <1>1
  <2>2. \A i \in Items : short(i) \in Nat
    BY <1>2, <1>4
  <2>3. {short(i) : i \in Items} \subseteq Nat
    BY <2>2
  <2> HIDE DEF short
  <2> QED
    BY <2>1, <2>3, Least
<1>6. PICK top \in Items : least = short(top)
  BY <1>5
<1>7. \A j \in Items : score(j) <= score(top)
  <2>1. TAKE j \in Items
  <2>2. short(top) <= short(j)
    BY <1>5, <1>6
  <2> QED
    BY <1>2, <1>4, <2>2
<1> DEFINE tops == {i \in Items : score(i) = score(top)}
<1>8. PICK first \in tops : \A n \in tops : first <= n
  <2>1. tops # {}
    BY <1>6
  <2>2. tops \subseteq Nat
    BY <1>1
  <2> HIDE DEF tops
  <2> QED
    BY <2>1, <2>2, Least
<1>9. \A j \in Items : score(j) < score(first) \/ (score(j) = score(first) /\ j >= first)
  <2>1. TAKE j \in Items
  <2>2. score(first) = score(top) /\ first \in Nat /\ j \in Nat
    BY <1>1, <1>8
  <2>3. CASE score(j) = score(top)
    BY <1>8, <2>2, <2>3
  <2>4. CASE score(j) # score(top)
    BY <1>4, <1>6, <1>7, <2>2, <2>4
  <2> QED
    BY <2>3, <2>4
<1>10. first \in Items
  BY <1>8
<1> QED
  BY <1>9, <1>10 DEF Best

\* Whatever was said, the product meant is on the floor, or there is none and
\* why.
LEMMA Resolved ==
  ASSUME Heard, NEW z
  PROVE  /\ resolve_product(z).item \in Items \cup {0}
         /\ resolve_product(z).how \in {"named", "focus", "size-scheme", "ambiguous", "unstocked", "none"}
<1>1. heard.words \subseteq Word
  BY DEF Heard, AboutThings, AboutTheGuest
<1>2. ASSUME BestScore >= 1 PROVE Best \in Items
  BY <1>1, <1>2, BestIsItem DEF Heard, BestScore
<1>3. ASSUME focus # 0 PROVE focus \in Items
  BY <1>3, TheFloor DEF Heard
<1>4. /\ PointsElsewhere(z).item \in Items \cup {0}
      /\ PointsElsewhere(z).how \in {"size-scheme", "ambiguous"}
  <2> DEFINE sized == {i \in Items : item_scheme(Item(i)) # None /\ _scheme_compatible(Item(i), z)}
  <2>1. CASE Cardinality(sized) = 1
    <3>1. sized # {}
      BY <2>1, FS_EmptySet
    <3>2. (CHOOSE i \in sized : TRUE) \in Items
      BY <3>1
    <3> QED
      BY <2>1, <3>2 DEF PointsElsewhere, Means
  <2>2. CASE Cardinality(sized) # 1
    BY <2>2 DEF PointsElsewhere, Means
  <2> QED
    BY <2>1, <2>2
<1>5. BestScore \in Int
  <2>1. score(Best) \in 0..3 * Cardinality(heard.words) /\ Cardinality(heard.words) \in Nat
    BY <1>1, ScoreBound
  <2> QED
    BY <2>1 DEF BestScore
<1> QED
  BY <1>2, <1>3, <1>4, <1>5 DEF resolve_product, Means

\* An answer about a size says of a product on the floor what size_availability
\* found, or that it is not sized so; the other answers are of other kinds.
LEMMA AboutSizes ==
  ASSUME Heard, NEW z \in extract_size, NEW said, said = answer_query(z),
         said.kind \in {"stock", "not_sized"}, said.kind = "stock" => said.size # None
  PROVE  /\ said.item \in Items /\ said.size \in Size
         /\ said.kind = "stock" =>
              /\ said.verdict = size_availability(Item(said.item), said.size).verdict
              /\ said.units = size_availability(Item(said.item), said.size).units
         /\ said.kind = "not_sized" => ~ _scheme_compatible(Item(said.item), said.size)
<1> DEFINE m == resolve_product(z)
<1>1. /\ m.item \in Items \cup {0}
      /\ m.how \in {"named", "focus", "size-scheme", "ambiguous", "unstocked", "none"}
  BY Resolved
<1>2. z \in Size \cup {None}
  BY DEF extract_size, Heard, AboutThings, AboutTheGuest
<1>3. /\ _answer_history.kind \notin {"stock", "not_sized"}
      /\ _answer_recommend.kind \notin {"stock", "not_sized"}
  BY DEF _answer_history, _answer_recommend, Say, _package
<1>4. /\ [Say(m.how) EXCEPT !.how = m.how, !.size = z].kind \notin {"stock", "not_sized"}
      /\ Say("none").kind \notin {"stock", "not_sized"}
  BY <1>1 DEF Say, _package
<1>5. ASSUME NEW i, NEW how
      PROVE  /\ _answer_location(i, how).kind \notin {"stock", "not_sized"}
             /\ _answer_price(i, how).kind \notin {"stock", "not_sized"}
             /\ _answer_open(i, how).kind \notin {"stock", "not_sized"}
  BY DEF _answer_location, _answer_price, _answer_open, _package
<1>6. m.item # 0 /\ said = _answer_stock(m.item, m.how, z)
  <2> HIDE DEF m
  <2> QED
    BY <1>3, <1>4, <1>5 DEF answer_query, m
<1>7. PICK i \in Items : said = _answer_stock(i, m.how, z)
  BY <1>1, <1>6
<1> DEFINE asked == Asked(Item(i), z)
           found == size_availability(Item(i), asked)
<1>8. /\ said.item = i /\ said.size = asked
      /\ said.kind = "stock" => said.verdict = found.verdict /\ said.units = found.units
      /\ said.kind = "not_sized" => asked # None /\ ~ _scheme_compatible(Item(i), asked)
  <2> HIDE DEF m, asked, found
  <2>1. said.kind \in {"stock", "not_sized"}
    OBVIOUS
  <2> QED
    BY <1>7, <2>1 DEF _answer_stock, _package, asked, found
<1>9. asked \in Size \cup {None}
  <2>1. guest # None => {guest.bottoms, guest.tops} \subseteq Size \cup {None}
    BY VoiceAssumption DEF Heard
  <2> QED
    BY <1>2, <2>1 DEF Asked
<1> QED
  BY <1>8, <1>9

\* What surrounds the question stays as it was, and what was said is true.
VoiceInv ==
  /\ inventory \in Inventory /\ guest \in Guest /\ focus \in 0..Len(inventory)
  /\ heard \in AboutThings \cup AboutTheGuest \cup {None} /\ order \in Orders
  /\ SizeAnswerIsTrue

\* To answer keeps it so.
LEMMA AnswersTruly ==
  ASSUME VoiceInv, Answer
  PROVE  VoiceInv'
<1>1. UNCHANGED <<heard, inventory, guest, focus, order>>
  BY DEF Answer
<1>2. ASSUME out'.kind \in {"stock", "not_sized"}, out'.kind = "stock" => out'.size # None
      PROVE  /\ out'.kind = "stock" => TrueOfRail(Item(out'.item), out')
             /\ out'.kind = "not_sized" => Outnumbered(Item(out'.item), out'.size)
  <2>1. heard # None
    BY <1>2 DEF Answer, Say, _package
  <2>2. Heard
    BY <2>1 DEF VoiceInv, Heard
  <2>3. PICK z \in extract_size : out' = answer_query(z)
    BY <2>1 DEF Answer
  <2>4. /\ out'.item \in Items /\ out'.size \in Size
        /\ out'.kind = "stock" =>
             /\ out'.verdict = size_availability(Item(out'.item), out'.size).verdict
             /\ out'.units = size_availability(Item(out'.item), out'.size).units
        /\ out'.kind = "not_sized" => ~ _scheme_compatible(Item(out'.item), out'.size)
    BY <1>2, <2>2, <2>3, AboutSizes
  <2>5. CountsVariants(Item(out'.item))
    BY <2>4, TheFloor DEF VoiceInv
  <2>6. CASE out'.kind = "stock"
    BY <2>4, <2>5, <2>6, Availability
  <2>7. CASE out'.kind = "not_sized"
    BY <2>4, <2>5, <2>7, NotSized DEF VoiceInv
  <2> QED
    BY <1>2, <2>6, <2>7
<1>3. Item(out'.item) = inventory'[out'.item]
  BY <1>1 DEF Item
<1> QED
  BY <1>1, <1>2, <1>3 DEF VoiceInv, SizeAnswerIsTrue, Item, AboutThings, AboutTheGuest

\* What is said of a size is true of the rail: "yes" counts no more than hangs
\* under the size, "no" is said of a size that is gone itself or, when the rail
\* has not that size, of one that names nothing left (or some of it oversold),
\* and "isn't sized so" where it names nothing or is outnumbered
\* (size_availability, _answer_stock).
THEOREM TrueOfSizes == VoiceSpec => []SizeAnswerIsTrue
<1>1. VoiceInit => VoiceInv
  BY DEF VoiceInit, VoiceInv, SizeAnswerIsTrue, Orders
<1>2. VoiceInv /\ [Answer]_voicevars => VoiceInv'
  <2>1. CASE Answer
    BY <2>1, AnswersTruly
  <2>2. CASE UNCHANGED voicevars
    BY <2>2 DEF voicevars, VoiceInv, SizeAnswerIsTrue, AboutThings, AboutTheGuest, Item
  <2> QED
    BY <2>1, <2>2
<1>3. VoiceInv => SizeAnswerIsTrue
  BY DEF VoiceInv
<1> QED
  BY <1>1, <1>2, <1>3, PTL DEF VoiceSpec
=============================================================================
