------------------------------ MODULE FloorLog ------------------------------
(***************************************************************************)
(* What the realtime server writes of the floor (routes_analytics.py,      *)
(* analytics.py and record_health of shifts.py) and what the dashboards    *)
(* read back.  An ingest call reads the tenant, finds out who it is about  *)
(* (by the device row, then by the serial, then by the e-mail), writes its *)
(* row and counts it in the daily usage, each in a transaction of its own. *)
(***************************************************************************)
EXTENDS NoValue, Naturals, FiniteSets, FiniteSetsExt

CONSTANTS
    Person,       \* accounts of the store's associates
    Serial,       \* pairs of glasses
    Call,         \* ingest calls; the row a call writes has the call's name
    Stamp,        \* times a phone gives with a battery reading
    MaxDay,       \* bound on the days that pass
    Sale,         \* amounts an engagement may end with
    MaxActs,      \* bound on the Console's changes
    MaxTogether   \* bound on the calls under way together

ASSUME LogAssumption ==
    /\ None \notin Person \cup Serial /\ "unknown" \notin Person \cup {None}
    /\ MaxDay \in Nat /\ MaxActs \in Nat /\ MaxTogether \in Nat /\ Sale \subseteq Nat

VARIABLES
    today,
    staff,       \* users: "active", "disabled" (or no longer an associate), "gone"
    worn,        \* devices: the user assigned to a serial, None, or "unknown"
    privacy,     \* store_transcripts or shift_telemetry: no call reads both
    call,        \* where each ingest call is
    log,         \* engagements, voice_queries, assists and device_health, by call
    usage,       \* usage_daily of each day
    acts         \* changes the Console has made

logvars == <<today, staff, worn, privacy, call, log, usage, acts>>

Opt(S) == S \cup {None}
\* What the realtime server asks for.  lens is the provisioned device an
\* engagement came through.
EngagementStart == [kind : {"engagement"}, serial : Opt(Serial), email : Opt(Person), lens : Opt(Serial), stamp : {None}]
VoiceRecord == [kind : {"voice"}, serial : Opt(Serial), email : Opt(Person), lens : {None}, stamp : {None}]
AssistRecord == [kind : {"assist"}, serial : Opt(Serial), email : Opt(Person), lens : {None}, stamp : {None}]
DeviceHealth == [kind : {"health"}, serial : Serial, email : {None}, lens : {None}, stamp : Opt(Stamp)]
IngestRequest == EngagementStart \cup VoiceRecord \cup AssistRecord \cup DeviceHealth
\* The rows of engagements, voice_queries, assists and device_health.
LoggedRow ==
    [kind : {"engagement"}, user : Opt(Person), day : 0..MaxDay, words : BOOLEAN, open : BOOLEAN, sale : Nat]
    \cup [kind : {"voice"}, user : Opt(Person), day : 0..MaxDay, words : BOOLEAN]
    \cup [kind : {"assist"}, user : Person, day : 0..MaxDay, words : {FALSE}]
    \cup [kind : {"health"}, user : {None}, day : 0..MaxDay, words : {FALSE}, serial : Serial, stamp : Opt(Stamp)]

ASSUME NoLogAssumption == None \notin LoggedRow \cup [step : {"bump", "done"}]

Nobody == None
Unknown == "unknown"
Billed == {"engagement", "voice"}

\* What a serial is worn by, as far as the database knows.
Wearer(s) == IF s = None \/ worn[s] = Unknown THEN Nobody ELSE worn[s]

LogInit ==
    /\ today = 0 /\ staff = [p \in Person |-> "active"]
    /\ worn \in [Serial -> Person \cup {Nobody, Unknown}] /\ privacy = TRUE
    /\ call = [c \in Call |-> None] /\ log = [c \in Call |-> None]
    /\ usage = [d \in 0..MaxDay |-> 0]
    /\ acts = 0

\* A call that has not written its row yet sees what the Console does meanwhile.
UnderWay(c) == call[c] # None /\ call[c].step \in {"lens", "serial", "register", "email", "write"}

Step(c, s) == call' = [call EXCEPT ![c].step = s]
\* Past its row, a call remembers only what is left to do.
Rest(c, s) == call' = [call EXCEPT ![c] = [step |-> s]]
Done(c) == Rest(c, "done")

----------------------------------------------------------------------------
(* Who did it                                                              *)

\* _telemetry_tenant: a reading needs the store's switch, and is refused without.
Refused(req) == req.kind = "health" /\ ~ privacy

\* guard and _ingest_tenant, which reads the tenant row.
Begin(c, req) ==
    /\ call[c] = None /\ Cardinality({o \in Call : UnderWay(o)}) < MaxTogether
    /\ IF Refused(req) THEN Done(c)
       ELSE call' = [call EXCEPT ![c] =
                [kind |-> req.kind, serial |-> req.serial, email |-> req.email,
                 lens |-> req.lens, stamp |-> req.stamp,
                 step |-> IF req.lens # None THEN "lens"
                          ELSE IF req.serial # None THEN "serial" ELSE "email",
                 user |-> None, mayKeep |-> privacy,
                 allowed |-> privacy,    \* history: at some moment of the call
                 wearers |-> {Wearer(req.serial)}, lensers |-> {Wearer(req.lens)}]]
    /\ UNCHANGED <<today, staff, worn, privacy, log, usage, acts>>

\* A device row with an assignee answers; one without falls through to the e-mail.
FallsThrough_IfMailed(c, found) == found = Nobody \/ call[c].email # None
FallsThrough(c, found) == found = Nobody

\* _device_in_tenant
AskLens(c) ==
    /\ call[c] # None /\ call[c].step = "lens"
    /\ LET p == Wearer(call[c].lens)
       IN call' = [call EXCEPT ![c].user = p,
                               ![c].step = IF p # Nobody THEN "write"
                                           ELSE IF call[c].serial # None THEN "serial" ELSE "email"]
    /\ UNCHANGED <<today, staff, worn, privacy, log, usage, acts>>

\* The UPDATE of _associate, which returns the assignee.
AskSerial(c) ==
    /\ call[c] # None /\ call[c].step = "serial"
    /\ LET s == call[c].serial
       IN IF worn[s] = Unknown THEN Step(c, "register")
          ELSE call' = [call EXCEPT ![c].user = worn[s],
                               ![c].step = IF FallsThrough(c, worn[s]) THEN "email" ELSE "write"]
    /\ UNCHANGED <<today, staff, worn, privacy, log, usage, acts>>

\* INSERT ... ON CONFLICT DO UPDATE: the glasses are on record, with no assignee
\* unless another call or the Console was first.
Register(c) ==
    /\ call[c] # None /\ call[c].step = "register"
    /\ worn' = [worn EXCEPT ![call[c].serial] = IF @ = Unknown THEN Nobody ELSE @]
    /\ Step(c, "email")
    /\ UNCHANGED <<today, staff, privacy, log, usage, acts>>

\* _user_in, then the 404 of an assist nobody is credited with.
AskEmail(c) ==
    /\ call[c] # None /\ call[c].step = "email"
    /\ LET p == call[c].email
           q == IF p # None THEN IF staff[p] # "gone" THEN p ELSE Nobody ELSE Nobody
       IN IF call[c].kind = "assist" /\ q = Nobody THEN Done(c)
          ELSE call' = [call EXCEPT ![c].user = q, ![c].step = "write"]
    /\ UNCHANGED <<today, staff, worn, privacy, log, usage, acts>>

----------------------------------------------------------------------------
(* The row, and its count                                                  *)

KeepsWords_Always(c) == call[c].kind = "voice"
\* record_voice_query: by the tenant row read at the start of the call.
KeepsWords(c) == call[c].kind = "voice" /\ call[c].mayKeep

Duplicate(c) ==
    /\ call[c].kind = "health" /\ call[c].stamp # None
    /\ \E o \in Call : log[o] # None /\ log[o].kind = "health"
                       /\ log[o].serial = call[c].serial /\ log[o].stamp = call[c].stamp

\* A user deleted since it was found breaks the foreign key, and the call fails.
Dangling(c) == call[c].kind # "health" /\ call[c].user # Nobody /\ staff[call[c].user] = "gone"

EngagementRow(c) == [kind |-> "engagement", user |-> call[c].user, day |-> today, words |-> FALSE,
                     open |-> TRUE, sale |-> 0]
VoiceRow(c) == [kind |-> "voice", user |-> call[c].user, day |-> today, words |-> KeepsWords(c)]
AssistRow(c) == [kind |-> "assist", user |-> call[c].user, day |-> today, words |-> FALSE]
HealthRow(c) == [kind |-> "health", user |-> Nobody, day |-> today, words |-> FALSE,
                 serial |-> call[c].serial, stamp |-> call[c].stamp]
RowOf(c) == CASE call[c].kind = "engagement" -> EngagementRow(c)
              [] call[c].kind = "voice" -> VoiceRow(c)
              [] call[c].kind = "assist" -> AssistRow(c)
              [] call[c].kind = "health" -> HealthRow(c)

WriteRow(c) ==
    /\ call[c] # None /\ call[c].step = "write"
    /\ IF Dangling(c) \/ Duplicate(c)
       THEN log' = log /\ Done(c)
       ELSE /\ log' = [log EXCEPT ![c] = RowOf(c)]
            /\ Rest(c, IF call[c].kind \in Billed THEN "bump" ELSE "done")
    /\ UNCHANGED <<today, staff, worn, privacy, usage, acts>>

CountsIn_Twice(n) == n + 2
CountsIn(n) == n + 1
\* _bump_usage, or the failure of the database that loses it.
BumpUsage(c) ==
    /\ call[c] # None /\ call[c].step = "bump"
    /\ \/ usage' = [usage EXCEPT ![today] = CountsIn(@)]
       \/ UNCHANGED usage
    /\ Done(c)
    /\ UNCHANGED <<today, staff, worn, privacy, log, acts>>

\* end_engagement: the first end closes it, later ones answer ok: false.
EndEngagement(e, sale) ==
    /\ log[e] # None /\ log[e].kind = "engagement" /\ log[e].open
    /\ log' = [log EXCEPT ![e].open = FALSE, ![e].sale = Max({@, sale})]
    /\ UNCHANGED <<today, staff, worn, privacy, call, usage, acts>>

----------------------------------------------------------------------------
(* The Console meanwhile                                                   *)

Assign(s, p) ==
    /\ acts < MaxActs /\ acts' = acts + 1
    /\ p # Nobody => staff[p] # "gone"
    /\ worn' = [worn EXCEPT ![s] = p]
    /\ call' = [c \in Call |-> IF ~ UnderWay(c) THEN call[c]
                               ELSE [call[c] EXCEPT !.wearers = IF call[c].serial = s THEN @ \cup {p} ELSE @,
                                                    !.lensers = IF call[c].lens = s THEN @ \cup {p} ELSE @]]
    /\ UNCHANGED <<today, staff, privacy, log, usage>>

SwitchPrivacy ==
    /\ acts < MaxActs /\ acts' = acts + 1
    /\ privacy' = ~ privacy
    /\ call' = [c \in Call |-> IF ~ UnderWay(c) THEN call[c]
                               ELSE [call[c] EXCEPT !.allowed = @ \/ ~ privacy]]
    /\ UNCHANGED <<today, staff, worn, log, usage>>

Disable(p) ==
    /\ acts < MaxActs /\ acts' = acts + 1
    /\ staff[p] = "active" /\ staff' = [staff EXCEPT ![p] = "disabled"]
    /\ UNCHANGED <<today, worn, privacy, call, log, usage>>

\* delete_user: the foreign keys of the migrations.  Engagements and questions
\* stay without a name; a device loses its assignee; an assist goes with
\* its helper.
Kept(p, row) == IF row = None THEN None
                ELSE IF row.user # p THEN row
                ELSE IF row.kind = "assist" THEN None ELSE [row EXCEPT !.user = Nobody]

DeleteUser(p) ==
    /\ acts < MaxActs /\ acts' = acts + 1
    /\ staff[p] # "gone" /\ staff' = [staff EXCEPT ![p] = "gone"]
    /\ log' = [c \in Call |-> Kept(p, log[c])]
    /\ worn' = [s \in Serial |-> IF worn[s] = p THEN Nobody ELSE worn[s]]
    /\ call' = [c \in Call |-> IF ~ UnderWay(c) THEN call[c]
                               ELSE [call[c] EXCEPT !.wearers = IF p \in @ THEN @ \cup {Nobody} ELSE @,
                                                    !.lensers = IF p \in @ THEN @ \cup {Nobody} ELSE @]]
    /\ UNCHANGED <<today, privacy, usage>>

NextDay ==
    /\ today < MaxDay /\ today' = today + 1
    /\ UNCHANGED <<staff, worn, privacy, call, log, usage, acts>>

LogNext ==
    \/ \E c \in Call :
          \/ \E req \in IngestRequest : Begin(c, req)
          \/ AskLens(c) \/ AskSerial(c) \/ Register(c) \/ AskEmail(c) \/ WriteRow(c) \/ BumpUsage(c)
          \/ \E sale \in Sale : EndEngagement(c, sale)
    \/ \E s \in Serial, p \in Person \cup {Nobody} : Assign(s, p)
    \/ SwitchPrivacy
    \/ \E p \in Person : Disable(p) \/ DeleteUser(p)
    \/ NextDay

LogSpec == LogInit /\ [][LogNext]_logvars

----------------------------------------------------------------------------
(* What the dashboards read                                                *)

Rows(kind, days) == {c \in Call : log[c] # None /\ log[c].kind = kind /\ log[c].day \in days}

\* The counts of a period of days.
summary(days) ==
    [engagements |-> Cardinality(Rows("engagement", days)),
     assists |-> Cardinality(Rows("assist", days)),
     voice |-> Cardinality(Rows("voice", days)),
     sale_cents |-> MapThenSumSet(LAMBDA c : log[c].sale, Rows("engagement", days))]

----------------------------------------------------------------------------
(* Properties                                                              *)

\* What usage_daily has counted: a pair for every count of a day.
Tally == UNION {{d} \X (1..usage[d]) : d \in 0..MaxDay}

LogTypeOK ==
    /\ today \in 0..MaxDay /\ privacy \in BOOLEAN
    /\ worn \in [Serial -> Person \cup {Nobody, Unknown}]
    /\ \A c \in Call : call[c] # None =>
          call[c].step \in {"lens", "serial", "register", "email", "write", "bump", "done"}
    /\ log \in [Call -> LoggedRow \cup {None}]
    /\ \A c \in Call : log[c] # None => call[c].step \in {"bump", "done"}
    \* Billing never counts what was not recorded.
    /\ Cardinality(Tally)
          <= Cardinality({c \in Rows("engagement", 0..MaxDay) \cup Rows("voice", 0..MaxDay) : call[c].step = "done"})

\* The call writes its row in this step.
Written(c) == log[c] = None /\ log'[c] # None

(***************************************************************************)
(* Words and hardware readings go on record only when the store allowed    *)
(* them at some moment of the call that writes them (record_voice_query    *)
(* uses the tenant row read before the associate is looked up, so an older *)
(* answer may be used, never one from before the call).                    *)
(***************************************************************************)
RecordedByConsent ==
    [][\A c \in Call : Written(c) /\ ~ call[c].allowed =>
          log'[c].kind # "health" /\ ~ log'[c].words]_logvars

(***************************************************************************)
(* Hardware first, e-mail second (_associate): a row names somebody its    *)
(* device was assigned to during the call; the e-mail is believed only     *)
(* when, at some moment of the call, nobody was assigned.                  *)
(***************************************************************************)
CreditedToTheWearer ==
    [][\A c \in Call : Written(c) /\ log'[c].kind # "health" =>
          LET who == log'[c].user
          IN \/ who # Nobody /\ who \in call[c].lensers \cup call[c].wearers
             \/ Nobody \in call[c].lensers /\ Nobody \in call[c].wearers
                /\ who \in {call[c].email, Nobody}]_logvars

(***************************************************************************)
(* "Deleting a departed associate must not silently rewrite last quarter's *)
(* numbers" (routes_admin.py:583): what the summary says of a window that  *)
(* is over never falls.                                                    *)
(***************************************************************************)
Past == {d \in 0..MaxDay : d < today}
PastNumbersStand ==
    [][today' = today => \A n \in DOMAIN summary(Past) : summary(Past)'[n] >= summary(Past)[n]]_logvars
=============================================================================
