----------------------------- MODULE ShiftLedger -----------------------------
(***************************************************************************)
(* The shift table of the control plane: packages/ai-service/app/shifts.py *)
(* over the `shifts` table of migration 010, for one tenant.               *)
(*                                                                         *)
(* Every db.execute / db.query_one of the service is a transaction of its  *)
(* own, so start() is a sequence of up to five transactions and two calls  *)
(* of it interleave between them; heartbeat() and end() write in one.      *)
(* Time is counted in units of which Gap make GAP_MINUTES.                 *)
(***************************************************************************)
EXTENDS Integers, FiniteSets

CONSTANTS
  Shift,     \* ids gen_random_uuid() can hand out; their number bounds a run
  Serial,    \* glasses that know their own serial
  User,      \* associates a pair of glasses can be assigned to
  Stamp,     \* values of the phone's own clock (client_started_at)
  Caller,    \* requests to /shift/start the service can have in hand at once
  Claims,    \* reasons a client puts in a clock-out, its to give or not
  None,      \* SQL NULL, and "no row"
  Gap,       \* CUE_SHIFT_GAP_MINUTES
  Keep,      \* the tenant's privacy.retention_days
  MaxTime    \* bound on the clock: TLC only looks at runs this long

ASSUME GapAssumption == Gap \in Nat \ {0}
ASSUME KeepAssumption == Keep \in Nat \ {0}
ASSUME MaxTimeAssumption == MaxTime \in Nat
ASSUME NoneAssumption == None \notin Nat \cup Shift \cup Serial \cup User \cup Stamp

VARIABLES
  now,       \* this machine's clock
  shifts,    \* the table: id -> row, None where there is no row
  issued,    \* ids handed out so far
  calls      \* caller -> its start() in progress

vars == <<now, shifts, issued, calls>>

-----------------------------------------------------------------------------
ClientReasons == {"signed_out", "app_closed"}
Reasons == ClientReasons \cup {"heartbeat_gap", "superseded"}

\* ended_at and ended_reason are always written together.
Ending == [at: Nat, reason: Reasons]

\* One row. The zone is left out: nothing decides on it.
Row == [serial: Serial \cup {None}, user: User \cup {None}, stamp: Stamp \cup {None},
        started: Nat, beat: Nat, ended: Ending \cup {None}]

ASSUME NoRowAssumption == None \notin Row \cup Ending

Steps == {"idle", "sweep", "resume", "dedupe", "supersede", "insert", "done"}

\* What start() was asked, the transaction it is about to run, and its answer.
Call == [step: Steps, serial: Serial \cup {None}, user: User \cup {None},
         resume: Shift \cup {None}, stamp: Stamp \cup {None},
         got: Shift \cup {None}]

NoCall == [step |-> "idle", serial |-> None, user |-> None, resume |-> None,
           stamp |-> None, got |-> None]

IsRow(s) == shifts[s] # None
IsOpen(s) == IsRow(s) /\ shifts[s].ended = None
IsClosed(s) == IsRow(s) /\ shifts[s].ended # None

Greatest(a, b) == IF a >= b THEN a ELSE b

TypeOK ==
  /\ now \in Nat
  /\ shifts \in [Shift -> Row \cup {None}]
  /\ issued \in SUBSET Shift
  /\ calls \in [Caller -> Call]

Init ==
  /\ now = 0
  /\ shifts = [s \in Shift |-> None]
  /\ issued = {}
  /\ calls = [c \in Caller |-> NoCall]

-----------------------------------------------------------------------------
\* Closing a row at the last moment the floor demonstrably had the product
\* running. started_at is server-stamped, so GREATEST only guards the equality.
ClosedAtLastBeat(row, reason) ==
  [row EXCEPT !.ended = [at |-> Greatest(row.started, row.beat), reason |-> reason]]

\* last_heartbeat_at < now() - GAP_MINUTES
IsStale(s) == IsOpen(s) /\ shifts[s].beat + Gap < now

ClosedWhenSwept(row) == [row EXCEPT !.ended = [at |-> now, reason |-> "heartbeat_gap"]]

SweptShifts_ClosedNow ==
  [s \in Shift |-> IF IsStale(s) THEN ClosedWhenSwept(shifts[s]) ELSE shifts[s]]

\* close_stale: one UPDATE over the tenant's open rows.
SweptShifts ==
  [s \in Shift |-> IF IsStale(s) THEN ClosedAtLastBeat(shifts[s], "heartbeat_gap")
                   ELSE shifts[s]]

\* Every read (coverage, fleet, the health checks) starts with the sweep.
Sweep ==
  /\ shifts' = SweptShifts
  /\ UNCHANGED <<now, issued, calls>>

\* prune_expired: a DELETE by age that does not ask whether the row is open.
Prune ==
  /\ shifts' = [s \in Shift |-> IF IsRow(s) /\ shifts[s].started + Keep < now
                                THEN None ELSE shifts[s]]
  /\ UNCHANGED <<now, issued, calls>>

-----------------------------------------------------------------------------
\* start(), transaction by transaction.

BeginStart(c, serial, user, resume, stamp) ==
  /\ calls[c].step = "idle"
  /\ calls' = [calls EXCEPT ![c] = [step |-> "sweep", serial |-> serial, user |-> user,
                                    resume |-> resume, stamp |-> stamp, got |-> None]]
  /\ UNCHANGED <<now, shifts, issued>>

\* Where the call goes when there is nothing to resume: a client time and a
\* serial together are the natural key a duplicate is looked up by.
AfterResume(c) ==
  IF calls[c].stamp # None /\ calls[c].serial # None THEN "dedupe" ELSE "supersede"

GoTo(c, step) == [calls EXCEPT ![c] = [@ EXCEPT !.step = step]]

StartSweep(c) ==
  /\ calls[c].step = "sweep"
  /\ shifts' = SweptShifts
  /\ calls' = GoTo(c, IF calls[c].resume # None THEN "resume" ELSE AfterResume(c))
  /\ UNCHANGED <<now, issued>>

\* Only the answer of a finished call is remembered.
Answered(c, s) == [calls EXCEPT ![c] = [step |-> "done", serial |-> None, user |-> None,
                                  resume |-> None, stamp |-> None, got |-> s]]

CanResume_Reopens(c, s) == s # None /\ IsRow(s) /\ shifts[s].serial = calls[c].serial

\* The resume UPDATE matches an open row of the same glasses. IS NOT DISTINCT
\* FROM: two unknown serials are the same serial.
CanResume(c, s) == s # None /\ IsOpen(s) /\ shifts[s].serial = calls[c].serial

\* last_heartbeat_at = now()
Beaten(row) == [row EXCEPT !.beat = now]

\* user_id = COALESCE(%s, user_id)
Coalesce(a, b) == IF a # None THEN a ELSE b

\* A resumed row takes the call's user and is not compared with other rows.
StartResume(c) ==
  LET s == calls[c].resume IN
  /\ calls[c].step = "resume"
  /\ IF CanResume(c, s)
     THEN /\ shifts' = [shifts EXCEPT ![s] =
                          [Beaten(shifts[s]) EXCEPT !.user = Coalesce(calls[c].user, @)]]
          /\ calls' = Answered(c, s)
     ELSE /\ calls' = GoTo(c, AfterResume(c))
          /\ UNCHANGED shifts
  /\ UNCHANGED <<now, issued>>

SameEvent_NoSuchIndex(c) == {}

\* The rows the unique index shifts_client_start_idx would collide with.
SameEvent(c) ==
  {s \in Shift : /\ IsRow(s)
                 /\ calls[c].stamp # None /\ calls[c].serial # None
                 /\ shifts[s].stamp = calls[c].stamp
                 /\ shifts[s].serial = calls[c].serial}

\* A duplicate answers with the row it made, whether or not it is still open.
StartDedupe(c) ==
  /\ calls[c].step = "dedupe"
  /\ calls' \in IF SameEvent(c) # {} THEN {Answered(c, s) : s \in SameEvent(c)}
                ELSE {GoTo(c, "supersede")}
  /\ UNCHANGED <<now, shifts, issued>>

Rivals_SamePersonOnly(c) ==
  {s \in Shift : IsOpen(s) /\ calls[c].user # None /\ shifts[s].user = calls[c].user}

\* Anything else this hardware or this person still has open. The two
\* "is not NULL" guards keep unassigned glasses from closing each other.
Rivals(c) ==
  {s \in Shift : /\ IsOpen(s)
                 /\ \/ calls[c].serial # None /\ shifts[s].serial = calls[c].serial
                    \/ calls[c].user # None /\ shifts[s].user = calls[c].user}

StartSupersede(c) ==
  /\ calls[c].step = "supersede"
  /\ shifts' = [s \in Shift |-> IF s \in Rivals(c)
                                THEN ClosedAtLastBeat(shifts[s], "superseded")
                                ELSE shifts[s]]
  /\ calls' = GoTo(c, "insert")
  /\ UNCHANGED <<now, issued>>

NewRow(c) ==
  [serial |-> calls[c].serial, user |-> calls[c].user, stamp |-> calls[c].stamp,
   started |-> now, beat |-> now, ended |-> None]

\* The INSERT; a collision on the unique index is an error and no row.
StartInsert(c) ==
  /\ calls[c].step = "insert"
  /\ IF SameEvent(c) # {}
     THEN calls' = Answered(c, None) /\ UNCHANGED <<shifts, issued>>
     ELSE \E s \in Shift \ issued :
            /\ shifts' = [shifts EXCEPT ![s] = NewRow(c)]
            /\ issued' = issued \cup {s}
            /\ calls' = Answered(c, s)
  /\ UNCHANGED now

\* The answer has been sent.
Return(c) ==
  /\ calls[c].step = "done"
  /\ calls' = [calls EXCEPT ![c] = NoCall]
  /\ UNCHANGED <<now, shifts, issued>>

StartStep(c) ==
  \/ StartSweep(c) \/ StartResume(c) \/ StartDedupe(c)
  \/ StartSupersede(c) \/ StartInsert(c)

-----------------------------------------------------------------------------
\* heartbeat(): a row that is closed, or not there, answers open: False and
\* nothing is written.
Heartbeat(s) ==
  /\ IsOpen(s)
  /\ shifts' = [shifts EXCEPT ![s] = Beaten(@)]
  /\ UNCHANGED <<now, issued, calls>>

ClientReason_AsClaimed(reason) == reason

\* What a client may claim; anything else is recorded as app_closed.
ClientReason(reason) == IF reason \in ClientReasons THEN reason ELSE "app_closed"

ClockOutTime_AlwaysNow(s) == now

\* last_heartbeat_at > now() - GAP_MINUTES decides between now and the clamp.
ClockOutTime(s) ==
  IF shifts[s].beat + Gap > now THEN now
  ELSE Greatest(shifts[s].started, shifts[s].beat)

\* end(): only an open row; on any other it only reads the recorded reason.
End(s, reason) ==
  /\ IsOpen(s)
  /\ shifts' = [shifts EXCEPT ![s] =
                  [@ EXCEPT !.ended = [at |-> ClockOutTime(s),
                                       reason |-> ClientReason(reason)]]]
  /\ UNCHANGED <<now, issued, calls>>

Tick ==
  /\ now < MaxTime
  /\ now' = now + 1
  /\ UNCHANGED <<shifts, issued, calls>>

-----------------------------------------------------------------------------
Request(c) ==
  \E serial \in Serial \cup {None}, user \in User \cup {None},
     resume \in issued \cup {None}, stamp \in Stamp \cup {None} :
       BeginStart(c, serial, user, resume, stamp)

Next ==
  \/ Tick \/ Sweep \/ Prune
  \/ \E c \in Caller : Request(c) \/ StartStep(c) \/ Return(c)
  \/ \E s \in Shift : Heartbeat(s) \/ \E reason \in Claims : End(s, reason)

Spec == Init /\ [][Next]_vars

\* The service with at most one start() in hand for any one pair of glasses:
\* what a phone that waits for each answer gives it.
InHand(c) == calls[c].step \notin {"idle", "done"}

OneStartPerSerial ==
  \A c, d \in Caller :
    (c # d /\ InHand(c) /\ InHand(d) /\ calls[c].serial = calls[d].serial)
      => calls[c].serial = None

SerialisedSpec == Init /\ [][Next /\ OneStartPerSerial']_vars

-----------------------------------------------------------------------------
\* A closed shift never claims time the phone did not vouch for: it ends between
\* its last heartbeat and Gap later, and at the last heartbeat exactly when the
\* service, not the client, closed it (the sweep, or a rival clock-in).
ClosedHonestly ==
  \A s \in Shift : IsClosed(s) =>
    /\ shifts[s].started <= shifts[s].beat
    /\ shifts[s].beat <= shifts[s].ended.at
    /\ shifts[s].ended.at < shifts[s].beat + Gap
    /\ shifts[s].ended.reason \notin ClientReasons => shifts[s].ended.at = shifts[s].beat

\* One clock-in of one pair of glasses is one row, however often and however
\* concurrently it is replayed (the natural key of start() and its index).
OneRowPerClockIn ==
  \A s, t \in Shift :
    (/\ IsRow(s) /\ IsRow(t)
     /\ shifts[s].stamp # None /\ shifts[s].serial # None
     /\ shifts[s].stamp = shifts[t].stamp /\ shifts[s].serial = shifts[t].serial)
    => s = t

\* No late heartbeat, end or resume rewrites a shift that is over, and an id
\* whose row has gone is never used again: the record only ever expires.
HistoryFixed ==
  [][\A s \in Shift :
       /\ IsClosed(s) => shifts'[s] \in {shifts[s], None}
       /\ (s \in issued /\ ~IsRow(s)) => shifts'[s] = None]_vars

\* Two shifts of one pair of glasses never overlap, so no hour of it is counted
\* twice. Holds when starts of the same glasses are not concurrent.
Apart(s, t) == IsClosed(s) /\ shifts[s].ended.at <= shifts[t].started

NoOverlap ==
  \A s, t \in Shift :
    (/\ s # t /\ IsRow(s) /\ IsRow(t)
     /\ shifts[s].serial # None /\ shifts[s].serial = shifts[t].serial)
    => Apart(s, t) \/ Apart(t, s)

-----------------------------------------------------------------------------
\* What the ledger promises of each shift, and how its rows keep the promise.
LifeOf(s) ==
  [phase |-> IF IsOpen(s) THEN "open" ELSE IF IsClosed(s) THEN "over"
             ELSE IF s \in issued THEN "gone" ELSE "unused",
   start |-> IF IsRow(s) THEN shifts[s].started ELSE 0,
   seen  |-> IF IsRow(s) THEN shifts[s].beat ELSE 0,
   over  |-> IF IsClosed(s) THEN shifts[s].ended.at ELSE 0]

Promise == INSTANCE ShiftPromise WITH clock <- now, life <- [s \in Shift |-> LifeOf(s)]

\* Every step of the table is a step every shift's life allows.
KeepsPromise == Promise!Spec
=============================================================================
