-------------------------- MODULE ShiftLedgerProofs --------------------------
(***************************************************************************)
(* What ShiftLedger's runs check on small instances, proved for every set  *)
(* of shifts, glasses, associates, clock values and callers, every gap and *)
(* every retention window.                                                 *)
(***************************************************************************)
EXTENDS ShiftLedger, TLAPS

-----------------------------------------------------------------------------
(* Rows: what each UPDATE of the table does to one of them. *)

\* A row that is closed at its last heartbeat stays a row of the table.
LEMMA ClosedRow ==
  ASSUME NEW row \in Row, NEW reason \in Reasons
  PROVE  /\ ClosedAtLastBeat(row, reason) \in Row
         /\ ClosedAtLastBeat(row, reason) = [row EXCEPT !.ended =
              [at |-> Greatest(row.started, row.beat), reason |-> reason]]
         /\ Greatest(row.started, row.beat) \in Nat
<1>1. Greatest(row.started, row.beat) \in Nat
  BY DEF Row, Greatest
<1>2. [at |-> Greatest(row.started, row.beat), reason |-> reason] \in Ending
  BY <1>1 DEF Ending
<1> QED
  BY <1>1, <1>2 DEF Row, ClosedAtLastBeat

\* A heartbeat moves the last beat of a row and nothing else.
LEMMA BeatenRow ==
  ASSUME NEW row \in Row, now \in Nat
  PROVE  /\ Beaten(row) \in Row
         /\ Beaten(row).beat = now
         /\ Beaten(row).started = row.started
         /\ Beaten(row).ended = row.ended
         /\ Beaten(row).serial = row.serial
         /\ Beaten(row).stamp = row.stamp
         /\ Beaten(row).user = row.user
BY DEF Row, Beaten

\* Whatever a client claims, the reason recorded is one of its own.
LEMMA ClientReasonType ==
  ASSUME NEW reason
  PROVE  ClientReason(reason) \in ClientReasons
BY DEF ClientReason, ClientReasons

\* A call that has its answer is still a call.
LEMMA AnsweredType ==
  ASSUME calls \in [Caller -> Call], NEW c \in Caller, NEW s \in Shift \cup {None}
  PROVE  Answered(c, s) \in [Caller -> Call]
<1>1. [step |-> "done", serial |-> None, user |-> None,
       resume |-> None, stamp |-> None, got |-> s] \in Call
  BY DEF Call, Steps
<1> QED
  BY <1>1 DEF Answered

\* A call that goes on keeps what it was asked.
LEMMA GoToType ==
  ASSUME calls \in [Caller -> Call], NEW c \in Caller, NEW step \in Steps
  PROVE  /\ GoTo(c, step) \in [Caller -> Call]
         /\ \A d \in Caller \ {c} : GoTo(c, step)[d] = calls[d]
         /\ GoTo(c, step)[c].step = step
         /\ GoTo(c, step)[c].serial = calls[c].serial
         /\ GoTo(c, step)[c].stamp = calls[c].stamp
<1>1. calls[c] \in Call
  OBVIOUS
<1>2. /\ [calls[c] EXCEPT !.step = step] \in Call
      /\ [calls[c] EXCEPT !.step = step].step = step
      /\ [calls[c] EXCEPT !.step = step].serial = calls[c].serial
      /\ [calls[c] EXCEPT !.step = step].stamp = calls[c].stamp
  BY <1>1 DEF Call
<1> QED
  BY <1>2 DEF GoTo

\* A start that resumes nothing goes on.
LEMMA AfterResumeType == ASSUME NEW c \in Caller PROVE AfterResume(c) \in Steps
BY DEF AfterResume, Steps

-----------------------------------------------------------------------------
(* How one row may change in one step of the service. *)

Kept(s) == shifts'[s] = shifts[s] /\ (s \in issued' <=> s \in issued)

Deleted(s) == IsRow(s) /\ shifts'[s] = None /\ (s \in issued' <=> s \in issued)

Inserted(s) ==
  /\ s \notin issued /\ s \in issued'
  /\ shifts'[s] \in Row
  /\ shifts'[s].started = now /\ shifts'[s].beat = now /\ shifts'[s].ended = None

SameIdentity(s) ==
  /\ shifts'[s] \in Row
  /\ shifts'[s].started = shifts[s].started
  /\ shifts'[s].serial = shifts[s].serial
  /\ shifts'[s].stamp = shifts[s].stamp

Touched(s) ==
  /\ IsOpen(s) /\ SameIdentity(s) /\ (s \in issued' <=> s \in issued)
  /\ shifts'[s].beat = now /\ shifts'[s].ended = None

Over(s) ==
  /\ IsOpen(s) /\ SameIdentity(s) /\ (s \in issued' <=> s \in issued)
  /\ shifts'[s].beat = shifts[s].beat
  /\ shifts'[s].ended \in Ending
  /\ shifts[s].beat <= shifts'[s].ended.at
  /\ shifts'[s].ended.at <= now
  /\ shifts'[s].ended.at < shifts[s].beat + Gap
  /\ shifts'[s].ended.reason \notin ClientReasons => shifts'[s].ended.at = shifts[s].beat

RowStep(s) == Kept(s) \/ Deleted(s) \/ Inserted(s) \/ Touched(s) \/ Over(s)

\* Every row carries an id that was handed out, and times in order.
RowTimes ==
  \A s \in Shift : IsRow(s) =>
    /\ s \in issued
    /\ shifts[s].started <= shifts[s].beat
    /\ shifts[s].beat <= now
    /\ shifts[s].ended # None => shifts[s].ended.at <= now

\* An open row that the service closes is over as its life allows.
LEMMA ClosedIsOver ==
  ASSUME TypeOK, RowTimes, NEW s \in Shift, IsOpen(s),
         NEW reason \in Reasons, shifts'[s] = ClosedAtLastBeat(shifts[s], reason),
         s \in issued' <=> s \in issued
  PROVE  Over(s)
<1>1. shifts[s] \in Row /\ shifts[s].started <= shifts[s].beat /\ shifts[s].beat <= now
  BY DEF TypeOK, RowTimes, IsOpen, IsRow
<1>2. Greatest(shifts[s].started, shifts[s].beat) = shifts[s].beat
  BY <1>1 DEF Greatest, Row
<1>3. shifts'[s] = [shifts[s] EXCEPT !.ended = [at |-> shifts[s].beat, reason |-> reason]]
  BY <1>1, <1>2, ClosedRow
<1>4. shifts'[s] \in Row
  BY <1>1, ClosedRow
<1>5. shifts'[s].ended = [at |-> shifts[s].beat, reason |-> reason]
  BY <1>1, <1>3 DEF Row
<1>6. shifts'[s].ended \in Ending
  BY <1>1, <1>5 DEF Row, Ending
<1>7. /\ shifts'[s].started = shifts[s].started
      /\ shifts'[s].serial = shifts[s].serial
      /\ shifts'[s].stamp = shifts[s].stamp
      /\ shifts'[s].beat = shifts[s].beat
  BY <1>1, <1>3 DEF Row
<1>8. shifts[s].beat \in Nat /\ now \in Nat
  BY <1>1 DEF Row, TypeOK
<1> QED
  BY <1>1, <1>4, <1>5, <1>6, <1>7, <1>8, GapAssumption DEF Over, SameIdentity

\* The sweep takes each row a step of its own.
LEMMA SweepSteps ==
  ASSUME TypeOK, RowTimes, shifts' = SweptShifts, issued' = issued
  PROVE  /\ shifts' \in [Shift -> Row \cup {None}]
         /\ \A s \in Shift : Kept(s) \/ Over(s)
<1>1. ASSUME NEW s \in Shift
      PROVE  shifts'[s] \in Row \cup {None} /\ (Kept(s) \/ Over(s))
  <2>1. CASE IsStale(s)
    <3>1. IsOpen(s) /\ shifts'[s] = ClosedAtLastBeat(shifts[s], "heartbeat_gap")
      BY <2>1 DEF IsStale, SweptShifts
    <3>2. Over(s)
      BY <3>1, ClosedIsOver DEF Reasons
    <3> QED
      BY <3>2 DEF Over, SameIdentity
  <2>2. CASE ~IsStale(s)
    BY <2>2 DEF SweptShifts, TypeOK, Kept
  <2> QED
    BY <2>1, <2>2
<1> QED
  BY <1>1 DEF SweptShifts

-----------------------------------------------------------------------------
(* Every step of the service: the table keeps its type, and either the     *)
(* clock moves and no row does, or rows move, each by a RowStep.           *)

Effect ==
  /\ TypeOK'
  /\ \/ now' = now + 1 /\ shifts' = shifts /\ issued' = issued
     \/ now' = now /\ \A s \in Shift : RowStep(s)

\* A step that leaves the table alone has the effect of no row step.
LEMMA RowsAlone ==
  ASSUME TypeOK, now' = now, shifts' = shifts, issued' = issued,
         calls' \in [Caller -> Call]
  PROVE  Effect
BY DEF TypeOK, Effect, RowStep, Kept

\* close_stale closes rows or leaves them.
LEMMA SweepEffect == ASSUME TypeOK, RowTimes, Sweep PROVE Effect
<1>1. shifts' \in [Shift -> Row \cup {None}] /\ \A s \in Shift : Kept(s) \/ Over(s)
  BY SweepSteps DEF Sweep
<1> QED
  BY <1>1 DEF Sweep, TypeOK, Effect, RowStep

\* prune_expired deletes rows or leaves them.
LEMMA PruneEffect == ASSUME TypeOK, Prune PROVE Effect
<1>1. ASSUME NEW s \in Shift PROVE Kept(s) \/ Deleted(s)
  BY DEF Prune, Kept, Deleted
<1>2. shifts' \in [Shift -> Row \cup {None}]
  BY DEF Prune, TypeOK
<1> QED
  BY <1>1, <1>2 DEF Prune, TypeOK, Effect, RowStep

\* A request to start touches no row,
LEMMA RequestEffect ==
  ASSUME TypeOK, NEW c \in Caller, Request(c) PROVE Effect
<1>1. PICK serial \in Serial \cup {None}, user \in User \cup {None},
           resume \in issued \cup {None}, stamp \in Stamp \cup {None} :
             BeginStart(c, serial, user, resume, stamp)
  BY DEF Request
<1>2. resume \in Shift \cup {None}
  BY DEF TypeOK
<1>3. [step |-> "sweep", serial |-> serial, user |-> user, resume |-> resume,
       stamp |-> stamp, got |-> None] \in Call
  BY <1>2 DEF Call, Steps
<1>4. calls' \in [Caller -> Call]
  BY <1>1, <1>3 DEF BeginStart, TypeOK
<1> QED
  BY <1>1, <1>4, RowsAlone DEF BeginStart

\* nor does its answer.
LEMMA ReturnEffect == ASSUME TypeOK, NEW c \in Caller, Return(c) PROVE Effect
<1>1. NoCall \in Call
  BY DEF NoCall, Call, Steps
<1>2. calls' \in [Caller -> Call]
  BY <1>1 DEF Return, TypeOK
<1> QED
  BY <1>2, RowsAlone DEF Return

\* The transactions of start(): the sweep,
LEMMA StartSweepEffect ==
  ASSUME TypeOK, RowTimes, NEW c \in Caller, StartSweep(c) PROVE Effect
<1>1. shifts' \in [Shift -> Row \cup {None}] /\ \A s \in Shift : Kept(s) \/ Over(s)
  BY SweepSteps DEF StartSweep
<1>2. (IF calls[c].resume # None THEN "resume" ELSE AfterResume(c)) \in Steps
  BY AfterResumeType DEF Steps
<1>3. calls' \in [Caller -> Call]
  BY <1>2, GoToType DEF StartSweep, TypeOK
<1> QED
  BY <1>1, <1>3 DEF StartSweep, TypeOK, Effect, RowStep

\* the resume UPDATE,
LEMMA StartResumeEffect ==
  ASSUME TypeOK, RowTimes, NEW c \in Caller, StartResume(c) PROVE Effect
<1> DEFINE s == calls[c].resume
<1>1. s \in Shift \cup {None} /\ calls[c] \in Call
  BY DEF TypeOK, Call
<1>2. CASE CanResume(c, s)
  <2> DEFINE row == [Beaten(shifts[s]) EXCEPT !.user = Coalesce(calls[c].user, @)]
  <2>1. s \in Shift /\ IsOpen(s) /\ shifts[s] \in Row
    BY <1>1, <1>2 DEF CanResume, IsOpen, IsRow, TypeOK
  <2>2. /\ shifts' = [shifts EXCEPT ![s] = row]
        /\ calls' = Answered(c, s)
    BY <1>2 DEF StartResume
  <2>3. /\ Beaten(shifts[s]) \in Row
        /\ Beaten(shifts[s]).beat = now
        /\ Beaten(shifts[s]).started = shifts[s].started
        /\ Beaten(shifts[s]).ended = None
        /\ Beaten(shifts[s]).serial = shifts[s].serial
        /\ Beaten(shifts[s]).stamp = shifts[s].stamp
    BY <2>1, BeatenRow DEF TypeOK, IsOpen
  <2>4. Coalesce(calls[c].user, Beaten(shifts[s]).user) \in User \cup {None}
    BY <1>1, <2>3 DEF Coalesce, Call, Row
  <2>5. /\ row \in Row /\ row.beat = now /\ row.ended = None
        /\ row.started = shifts[s].started
        /\ row.serial = shifts[s].serial /\ row.stamp = shifts[s].stamp
    BY <2>3, <2>4 DEF Row
  <2>6. shifts'[s] = row /\ \A t \in Shift \ {s} : shifts'[t] = shifts[t]
    BY <2>1, <2>2 DEF TypeOK
  <2>7. issued' = issued /\ now' = now
    BY DEF StartResume
  <2>8. Touched(s)
    BY <2>1, <2>5, <2>6, <2>7 DEF Touched, SameIdentity
  <2>9. \A t \in Shift \ {s} : Kept(t)
    BY <2>6, <2>7 DEF Kept
  <2>10. TypeOK'
    BY <2>1, <2>2, <2>5, <2>7, AnsweredType DEF TypeOK
  <2> QED
    BY <2>7, <2>8, <2>9, <2>10 DEF Effect, RowStep
<1>3. CASE ~CanResume(c, s)
  <2>1. calls' = GoTo(c, AfterResume(c)) /\ shifts' = shifts
    BY <1>3 DEF StartResume
  <2>2. calls' \in [Caller -> Call]
    BY <2>1, GoToType, AfterResumeType DEF TypeOK
  <2> QED
    BY <2>1, <2>2, RowsAlone DEF StartResume
<1> QED
  BY <1>2, <1>3

\* the lookup of a duplicate,
LEMMA StartDedupeEffect == ASSUME TypeOK, NEW c \in Caller, StartDedupe(c) PROVE Effect
<1>1. CASE SameEvent(c) # {}
  <2>1. PICK s \in SameEvent(c) : calls' = Answered(c, s)
    BY <1>1 DEF StartDedupe
  <2>2. calls' \in [Caller -> Call]
    BY <2>1, AnsweredType DEF TypeOK, SameEvent
  <2> QED
    BY <2>2, RowsAlone DEF StartDedupe
<1>2. CASE SameEvent(c) = {}
  <2>1. calls' = GoTo(c, "supersede")
    BY <1>2 DEF StartDedupe
  <2>2. calls' \in [Caller -> Call]
    BY <2>1, GoToType DEF TypeOK, Steps
  <2> QED
    BY <2>2, RowsAlone DEF StartDedupe
<1> QED
  BY <1>1, <1>2

\* the closing of rivals,
LEMMA StartSupersedeEffect ==
  ASSUME TypeOK, RowTimes, NEW c \in Caller, StartSupersede(c) PROVE Effect
<1>1. now' = now /\ issued' = issued
  BY DEF StartSupersede
<1>2. ASSUME NEW s \in Shift
      PROVE  shifts'[s] \in Row \cup {None} /\ (Kept(s) \/ Over(s))
  <2>1. CASE s \in Rivals(c)
    <3>1. IsOpen(s) /\ shifts'[s] = ClosedAtLastBeat(shifts[s], "superseded")
      BY <2>1 DEF Rivals, StartSupersede
    <3>2. Over(s)
      BY <1>1, <3>1, ClosedIsOver DEF Reasons
    <3> QED
      BY <3>2 DEF Over, SameIdentity
  <2>2. CASE s \notin Rivals(c)
    BY <1>1, <2>2 DEF StartSupersede, TypeOK, Kept
  <2> QED
    BY <2>1, <2>2
<1>3. shifts' \in [Shift -> Row \cup {None}]
  BY <1>2 DEF StartSupersede
<1>4. calls' \in [Caller -> Call]
  BY GoToType DEF StartSupersede, TypeOK, Steps
<1> QED
  BY <1>1, <1>2, <1>3, <1>4 DEF TypeOK, Effect, RowStep

\* (a new row is a row)
LEMMA NewRowType ==
  ASSUME TypeOK, NEW c \in Caller
  PROVE  /\ NewRow(c) \in Row
         /\ NewRow(c).started = now /\ NewRow(c).beat = now /\ NewRow(c).ended = None
         /\ NewRow(c).serial = calls[c].serial /\ NewRow(c).stamp = calls[c].stamp
BY DEF TypeOK, NewRow, Row, Call

\* and the INSERT.
LEMMA StartInsertEffect == ASSUME TypeOK, NEW c \in Caller, StartInsert(c) PROVE Effect
<1>1. CASE SameEvent(c) # {}
  BY <1>1, RowsAlone, AnsweredType DEF StartInsert, TypeOK
<1>2. CASE SameEvent(c) = {}
  <2>1. PICK s \in Shift \ issued :
          /\ shifts' = [shifts EXCEPT ![s] = NewRow(c)]
          /\ issued' = issued \cup {s}
          /\ calls' = Answered(c, s)
    BY <1>2 DEF StartInsert
  <2>2. shifts'[s] = NewRow(c) /\ \A t \in Shift \ {s} : shifts'[t] = shifts[t]
    BY <2>1 DEF TypeOK
  <2>3. Inserted(s)
    BY <2>1, <2>2, NewRowType DEF Inserted
  <2>4. \A t \in Shift \ {s} : Kept(t)
    BY <2>1, <2>2 DEF Kept
  <2>5. now' = now
    BY DEF StartInsert
  <2>6. TypeOK'
    BY <2>1, <2>5, NewRowType, AnsweredType DEF TypeOK
  <2> QED
    BY <2>3, <2>4, <2>5, <2>6 DEF Effect, RowStep
<1> QED
  BY <1>1, <1>2

\* heartbeat() touches one open row.
LEMMA HeartbeatEffect == ASSUME TypeOK, NEW s \in Shift, Heartbeat(s) PROVE Effect
<1>1. shifts[s] \in Row /\ shifts[s].ended = None
  BY DEF Heartbeat, IsOpen, IsRow, TypeOK
<1>2. shifts'[s] = Beaten(shifts[s]) /\ \A t \in Shift \ {s} : shifts'[t] = shifts[t]
  BY DEF Heartbeat, TypeOK
<1>3. Touched(s)
  BY <1>1, <1>2, BeatenRow DEF Touched, SameIdentity, Heartbeat, TypeOK
<1>4. \A t \in Shift \ {s} : Kept(t)
  BY <1>2 DEF Heartbeat, Kept
<1>5. TypeOK'
  BY <1>1, BeatenRow DEF TypeOK, Heartbeat
<1> QED
  BY <1>3, <1>4, <1>5 DEF Heartbeat, Effect, RowStep

\* end() closes one open row.
LEMMA EndEffect ==
  ASSUME TypeOK, RowTimes, NEW s \in Shift, NEW reason \in Claims, End(s, reason)
  PROVE  Effect
<1> DEFINE over == [at |-> ClockOutTime(s), reason |-> ClientReason(reason)]
           row == [shifts[s] EXCEPT !.ended = over]
<1>1. /\ shifts[s] \in Row /\ IsOpen(s) /\ s \in issued
      /\ shifts[s].started <= shifts[s].beat /\ shifts[s].beat <= now
      /\ now \in Nat /\ shifts[s].started \in Nat /\ shifts[s].beat \in Nat
  BY DEF End, IsOpen, IsRow, TypeOK, RowTimes, Row
<1>2. /\ ClockOutTime(s) \in Nat
      /\ shifts[s].beat <= ClockOutTime(s)
      /\ ClockOutTime(s) <= now
      /\ ClockOutTime(s) < shifts[s].beat + Gap
  BY <1>1, GapAssumption DEF ClockOutTime, Greatest
<1>3. ClientReason(reason) \in ClientReasons
  BY ClientReasonType
<1>4. /\ over \in Ending
      /\ over.at = ClockOutTime(s) /\ over.reason \in ClientReasons
  BY <1>2, <1>3 DEF Ending, Reasons
<1>5. /\ row \in Row /\ row.ended = over
      /\ row.started = shifts[s].started /\ row.beat = shifts[s].beat
      /\ row.serial = shifts[s].serial /\ row.stamp = shifts[s].stamp
  BY <1>1, <1>4 DEF Row
<1>6. shifts' = [shifts EXCEPT ![s] = row] /\ UNCHANGED <<now, issued, calls>>
  BY DEF End
<1>7. shifts'[s] = row /\ \A t \in Shift \ {s} : shifts'[t] = shifts[t]
  BY <1>6 DEF TypeOK
<1>8. Over(s)
  BY <1>1, <1>2, <1>4, <1>5, <1>6, <1>7 DEF Over, SameIdentity
<1>9. \A t \in Shift \ {s} : Kept(t)
  BY <1>6, <1>7 DEF Kept
<1>10. TypeOK'
  BY <1>5, <1>6 DEF TypeOK
<1> QED
  BY <1>6, <1>8, <1>9, <1>10 DEF Effect, RowStep

\* Every step of the service has its effect row by row.
LEMMA StepEffect == ASSUME TypeOK, RowTimes, [Next]_vars PROVE Effect
<1>1. CASE Tick
  BY <1>1 DEF Tick, TypeOK, Effect
<1>2. CASE Sweep
  BY <1>2, SweepEffect
<1>3. CASE Prune
  BY <1>3, PruneEffect
<1>4. ASSUME NEW c \in Caller, Request(c) \/ StartStep(c) \/ Return(c)
      PROVE  Effect
  BY <1>4, RequestEffect, ReturnEffect, StartSweepEffect, StartResumeEffect,
     StartDedupeEffect, StartSupersedeEffect, StartInsertEffect DEF StartStep
<1>5. ASSUME NEW s \in Shift, Heartbeat(s) \/ \E reason \in Claims : End(s, reason)
      PROVE  Effect
  BY <1>5, HeartbeatEffect, EndEffect
<1>6. CASE UNCHANGED vars
  BY <1>6, RowsAlone DEF vars, TypeOK
<1> QED
  BY <1>1, <1>2, <1>3, <1>4, <1>5, <1>6 DEF Next

-----------------------------------------------------------------------------
(* The inductive invariant: ClosedHonestly is not inductive by itself, since *)
(* closing a row at its last heartbeat is honest only while the heartbeat is *)
(* neither before the start nor in the future (RowTimes).                    *)

IInv == TypeOK /\ RowTimes /\ ClosedHonestly

\* The table starts with times in order,
LEMMA InitIInv == Init => IInv
<1> SUFFICES ASSUME Init PROVE IInv
  OBVIOUS
<1>1. NoCall \in Call
  BY DEF NoCall, Call, Steps
<1>2. \A s \in Shift : ~IsRow(s)
  BY DEF Init, IsRow
<1> QED
  BY <1>1, <1>2 DEF Init, IInv, TypeOK, RowTimes, ClosedHonestly, IsClosed

\* a step of a row keeps its times in order and closes it honestly,
LEMMA RowStepKeepsTimes ==
  ASSUME IInv, NEW s \in Shift, RowStep(s), now' = now
  PROVE  /\ IsRow(s)' =>
              /\ s \in issued'
              /\ shifts'[s].started <= shifts'[s].beat
              /\ shifts'[s].beat <= now'
              /\ shifts'[s].ended # None => shifts'[s].ended.at <= now'
         /\ IsClosed(s)' =>
              /\ shifts'[s].started <= shifts'[s].beat
              /\ shifts'[s].beat <= shifts'[s].ended.at
              /\ shifts'[s].ended.at < shifts'[s].beat + Gap
              /\ shifts'[s].ended.reason \notin ClientReasons
                   => shifts'[s].ended.at = shifts'[s].beat
<1>0. now \in Nat
  BY DEF IInv, TypeOK
<1>1. CASE Kept(s)
  BY <1>1 DEF IInv, RowTimes, ClosedHonestly, Kept, IsRow, IsClosed
<1>2. CASE Deleted(s)
  BY <1>2 DEF Deleted, IsRow, IsClosed
<1>3. CASE Inserted(s)
  BY <1>0, <1>3 DEF Inserted, IsRow, IsClosed
<1>4. CASE Touched(s)
  BY <1>0, <1>4 DEF IInv, TypeOK, RowTimes, Touched, SameIdentity, IsOpen, IsRow, IsClosed, Row
<1>5. CASE Over(s)
  BY <1>0, <1>5 DEF IInv, TypeOK, RowTimes, Over, SameIdentity, IsOpen, IsRow, IsClosed, Row
<1> QED
  BY <1>1, <1>2, <1>3, <1>4, <1>5 DEF RowStep

\* and so every step keeps them.
LEMMA NextIInv == IInv /\ [Next]_vars => IInv'
<1> SUFFICES ASSUME IInv, [Next]_vars PROVE IInv'
  OBVIOUS
<1>1. Effect
  BY StepEffect DEF IInv
<1>2. TypeOK'
  BY <1>1 DEF Effect
<1>3. CASE now' = now + 1 /\ shifts' = shifts /\ issued' = issued
  <2>1. RowTimes'
    BY <1>3 DEF IInv, TypeOK, RowTimes, IsRow, Row, Ending
  <2>2. ClosedHonestly'
    BY <1>3 DEF IInv, ClosedHonestly, IsClosed, IsRow
  <2> QED
    BY <1>2, <2>1, <2>2 DEF IInv
<1>4. CASE now' = now /\ \A s \in Shift : RowStep(s)
  <2>1. RowTimes'
    BY <1>4, RowStepKeepsTimes DEF RowTimes
  <2>2. ClosedHonestly'
    BY <1>4, RowStepKeepsTimes DEF ClosedHonestly
  <2> QED
    BY <1>2, <2>1, <2>2 DEF IInv
<1> QED
  BY <1>1, <1>3, <1>4 DEF Effect

\* The inductive invariant holds of the ledger.
LEMMA IInvHolds == Spec => []IInv
BY InitIInv, NextIInv, PTL DEF Spec

\* Whatever is asked of the service, in whatever order its transactions run,
\* the table holds rows and every start() in hand is one of the calls the code
\* can be in.
THEOREM TypeCorrect == Spec => []TypeOK
<1>1. IInv => TypeOK
  BY DEF IInv
<1> QED
  BY <1>1, IInvHolds, PTL

\* No closed shift claims time its phone did not vouch for: close_stale, the
\* supersede of start() and the clamp of end() all end it inside its last gap.
THEOREM HonestClose == Spec => []ClosedHonestly
<1>1. IInv => ClosedHonestly
  BY DEF IInv
<1> QED
  BY <1>1, IInvHolds, PTL

\* A row that is over, or gone, is not rewritten by a step.
LEMMA RowStepHistory ==
  ASSUME RowTimes, NEW s \in Shift, RowStep(s)
  PROVE  /\ IsClosed(s) => shifts'[s] \in {shifts[s], None}
         /\ (s \in issued /\ ~IsRow(s)) => shifts'[s] = None
BY DEF RowTimes, RowStep, Kept, Deleted, Inserted, Touched, Over, IsOpen, IsClosed, IsRow

\* A shift that is over is never rewritten: a heartbeat, an end or a resume
\* that arrives late finds no open row, and a pruned id is not used again.
THEOREM HistoryIsFixed == Spec => HistoryFixed
<1> DEFINE Fixed == \A s \in Shift :
              /\ IsClosed(s) => shifts'[s] \in {shifts[s], None}
              /\ (s \in issued /\ ~IsRow(s)) => shifts'[s] = None
<1>1. IInv /\ [Next]_vars => Fixed
  <2> SUFFICES ASSUME IInv, [Next]_vars PROVE Fixed
    OBVIOUS
  <2>1. Effect
    BY StepEffect DEF IInv
  <2>2. CASE now' = now + 1 /\ shifts' = shifts /\ issued' = issued
    BY <2>2 DEF IsRow
  <2>3. CASE now' = now /\ \A s \in Shift : RowStep(s)
    BY <2>3, RowStepHistory DEF IInv
  <2> QED
    BY <2>1, <2>2, <2>3 DEF Effect
<1>2. IInv /\ [Next]_vars => [Fixed]_vars
  BY <1>1
<1>3. Spec => [][Fixed]_vars
  BY <1>2, IInvHolds, PTL DEF Spec
<1> QED
  BY <1>3 DEF HistoryFixed

-----------------------------------------------------------------------------
(* The natural key of a clock-in. *)

\* Only the INSERT of some call adds a row, and only one.
LEMMA OneInsertAtMost ==
  ASSUME TypeOK, RowTimes, [Next]_vars
  PROVE  \/ \A s \in Shift : ~Inserted(s)
         \/ \E c \in Caller, s \in Shift :
              /\ StartInsert(c) /\ calls[c].step = "insert" /\ SameEvent(c) = {}
              /\ s \notin issued /\ shifts'[s] = NewRow(c)
              /\ \A t \in Shift \ {s} : shifts'[t] = shifts[t] /\ ~Inserted(t)
<1>1. CASE issued' = issued
  BY <1>1 DEF Inserted
<1>2. ASSUME NEW c \in Caller, StartInsert(c), SameEvent(c) = {}
      PROVE  \E s \in Shift :
               /\ StartInsert(c) /\ calls[c].step = "insert" /\ SameEvent(c) = {}
               /\ s \notin issued /\ shifts'[s] = NewRow(c)
               /\ \A t \in Shift \ {s} : shifts'[t] = shifts[t] /\ ~Inserted(t)
  <2>1. PICK s \in Shift \ issued :
          /\ shifts' = [shifts EXCEPT ![s] = NewRow(c)]
          /\ issued' = issued \cup {s}
    BY <1>2 DEF StartInsert
  <2>2. shifts'[s] = NewRow(c) /\ \A t \in Shift \ {s} : shifts'[t] = shifts[t]
    BY <2>1 DEF TypeOK
  <2>3. \A t \in Shift \ {s} : ~Inserted(t)
    BY <2>1 DEF Inserted
  <2> QED
    BY <1>2, <2>1, <2>2, <2>3 DEF StartInsert
<1>3. CASE issued' # issued
  <2>1. PICK c \in Caller : StartInsert(c) /\ SameEvent(c) = {}
    BY <1>3 DEF Next, vars, Tick, Sweep, Prune, Request, BeginStart, StartStep, StartSweep,
       StartResume, StartDedupe, StartSupersede, StartInsert, Return, Heartbeat, End
  <2> QED
    BY <2>1, <1>2
<1> QED
  BY <1>1, <1>3

\* A row that is there keeps its identity as long as it is there.
LEMMA RowKeepsIdentity ==
  ASSUME TypeOK, RowTimes, [Next]_vars, NEW s \in Shift, ~Inserted(s), IsRow(s)'
  PROVE  /\ IsRow(s)
         /\ shifts'[s].serial = shifts[s].serial
         /\ shifts'[s].stamp = shifts[s].stamp
         /\ shifts'[s].started = shifts[s].started
         /\ IsClosed(s) => shifts'[s] = shifts[s]
<1>1. Effect
  BY StepEffect
<1> QED
  BY <1>1 DEF Effect, RowStep, Kept, Deleted, Touched, Over, SameIdentity, IsRow, IsOpen, IsClosed

\* One clock-in of one pair of glasses is one row, under any interleaving of
\* the calls that replay it: the unique index holds where the lookup races.
THEOREM OneRow == Spec => []OneRowPerClockIn
<1>1. Init => OneRowPerClockIn
  BY DEF Init, OneRowPerClockIn, IsRow
<1>2. IInv /\ OneRowPerClockIn /\ [Next]_vars => OneRowPerClockIn'
  <2> SUFFICES ASSUME IInv, OneRowPerClockIn, [Next]_vars,
                      NEW s \in Shift, NEW t \in Shift, s # t,
                      IsRow(s)', IsRow(t)',
                      shifts'[s].stamp # None, shifts'[s].serial # None,
                      shifts'[s].stamp = shifts'[t].stamp,
                      shifts'[s].serial = shifts'[t].serial
               PROVE  FALSE
    BY DEF OneRowPerClockIn
  <2> USE DEF IInv
  <2>1. CASE \A u \in Shift : ~Inserted(u)
    BY <2>1, RowKeepsIdentity DEF OneRowPerClockIn
  <2>2. ASSUME NEW c \in Caller, NEW u \in Shift,
               SameEvent(c) = {}, shifts'[u] = NewRow(c),
               \A v \in Shift \ {u} : shifts'[v] = shifts[v] /\ ~Inserted(v)
        PROVE  FALSE
    <3>1. shifts'[u].serial = calls[c].serial /\ shifts'[u].stamp = calls[c].stamp
      BY <2>2, NewRowType
    <3>2. CASE s # u /\ t # u
      BY <2>2, <3>2, RowKeepsIdentity DEF OneRowPerClockIn
    <3>3. CASE s = u
      <4>1. IsRow(t) /\ shifts'[t] = shifts[t]
        BY <2>2, <3>3 DEF IsRow
      <4> QED
        BY <2>2, <3>1, <3>3, <4>1 DEF SameEvent
    <3>4. CASE t = u
      <4>1. IsRow(s) /\ shifts'[s] = shifts[s]
        BY <2>2, <3>4 DEF IsRow
      <4> QED
        BY <2>2, <3>1, <3>4, <4>1 DEF SameEvent
    <3> QED
      BY <3>2, <3>3, <3>4
  <2> QED
    BY <2>1, <2>2, OneInsertAtMost
<1> QED
  BY <1>1, <1>2, IInvHolds, PTL DEF Spec

-----------------------------------------------------------------------------
(* No two shifts of one pair of glasses overlap. The supersede of start() and *)
(* its INSERT are two transactions; what has to hold between them is that     *)
(* nothing of the same glasses is open (ClearedToInsert), and that is where   *)
(* starts of the same glasses must not be concurrent.                         *)

ClearedToInsert ==
  \A c \in Caller : (calls[c].step = "insert" /\ calls[c].serial # None) =>
    \A s \in Shift : (IsRow(s) /\ shifts[s].serial = calls[c].serial) => IsClosed(s)

OverlapInv == IInv /\ OneStartPerSerial /\ ClearedToInsert /\ NoOverlap

\* A call is about to insert only because it was, or because it just closed
\* its rivals.
LEMMA InsertAfterSupersede ==
  ASSUME TypeOK, [Next]_vars, NEW c \in Caller, calls'[c].step = "insert"
  PROVE  /\ calls'[c].serial = calls[c].serial
         /\ InHand(c)
         /\ calls[c].step = "insert" \/ StartSupersede(c)
<1>1. ASSUME NEW d \in Caller, Request(d) \/ Return(d)
      PROVE  calls'[c] = calls[c]
  <2>1. calls'[d].step # "insert" /\ \A e \in Caller \ {d} : calls'[e] = calls[e]
    BY <1>1 DEF Request, BeginStart, Return, NoCall, TypeOK
  <2> QED
    BY <2>1
<1>2. ASSUME NEW d \in Caller, StartSweep(d) \/ StartResume(d) \/ StartDedupe(d) \/ StartInsert(d)
      PROVE  calls'[c] = calls[c]
  <2>1. \/ \E s \in Shift \cup {None} : calls' = Answered(d, s)
        \/ \E step \in Steps \ {"insert"} : calls' = GoTo(d, step)
    <3>1. AfterResume(d) \in Steps \ {"insert"}
      BY DEF AfterResume, Steps
    <3>2. (IF calls[d].resume # None THEN "resume" ELSE AfterResume(d)) \in Steps \ {"insert"}
      BY <3>1 DEF Steps
    <3>3. calls[d].resume \in Shift \cup {None}
      BY DEF TypeOK, Call
    <3>4. CASE StartSweep(d)
      BY <3>2, <3>4 DEF StartSweep
    <3>5. CASE StartResume(d)
      BY <3>1, <3>3, <3>5 DEF StartResume
    <3>6. CASE StartDedupe(d)
      BY <3>6 DEF StartDedupe, SameEvent, Steps
    <3>7. CASE StartInsert(d)
      BY <3>7 DEF StartInsert
    <3> QED
      BY <1>2, <3>4, <3>5, <3>6, <3>7
  <2>2. calls'[d].step # "insert" /\ \A e \in Caller \ {d} : calls'[e] = calls[e]
    <3>1. ASSUME NEW s \in Shift \cup {None}, calls' = Answered(d, s)
          PROVE  calls'[d].step # "insert" /\ \A e \in Caller \ {d} : calls'[e] = calls[e]
      BY <3>1 DEF Answered, TypeOK
    <3>2. ASSUME NEW step \in Steps \ {"insert"}, calls' = GoTo(d, step)
          PROVE  calls'[d].step # "insert" /\ \A e \in Caller \ {d} : calls'[e] = calls[e]
      BY <3>2, GoToType DEF TypeOK
    <3> QED
      BY <2>1, <3>1, <3>2
  <2> QED
    BY <2>2
<1>3. ASSUME NEW d \in Caller, StartSupersede(d)
      PROVE  /\ calls'[c].serial = calls[c].serial
             /\ InHand(c)
             /\ calls[c].step = "insert" \/ StartSupersede(c)
  <2>1. calls' = GoTo(d, "insert") /\ calls[d].step = "supersede"
    BY <1>3 DEF StartSupersede
  <2>2. CASE c = d
    BY <1>3, <2>1, <2>2, GoToType DEF TypeOK, Steps, InHand
  <2>3. CASE c # d
    <3>1. calls'[c] = calls[c]
      BY <2>1, <2>3, GoToType DEF TypeOK, Steps
    <3> QED
      BY <3>1 DEF InHand
  <2> QED
    BY <2>2, <2>3
<1>4. CASE calls' = calls
  BY <1>4 DEF InHand
<1>5. ASSUME calls'[c] = calls[c]
      PROVE  /\ calls'[c].serial = calls[c].serial
             /\ InHand(c)
             /\ calls[c].step = "insert" \/ StartSupersede(c)
  BY <1>5 DEF InHand
<1> QED
  BY <1>1, <1>2, <1>3, <1>4, <1>5
     DEF Next, vars, Tick, Sweep, Prune, StartStep, Heartbeat, End

\* A start that is about to insert still finds no open row of its glasses.
LEMMA ClearedPreserved ==
  ASSUME OverlapInv, [Next]_vars PROVE ClearedToInsert'
<1> USE DEF OverlapInv, IInv
<1> SUFFICES ASSUME NEW c \in Caller, calls'[c].step = "insert", calls'[c].serial # None,
                    NEW s \in Shift, IsRow(s)', shifts'[s].serial = calls'[c].serial
             PROVE  IsClosed(s)'
  BY DEF ClearedToInsert
<1>1. calls'[c].serial = calls[c].serial /\ InHand(c)
  BY InsertAfterSupersede
<1>2. CASE StartSupersede(c)
  <2>1. shifts' = [u \in Shift |-> IF u \in Rivals(c)
                                   THEN ClosedAtLastBeat(shifts[u], "superseded")
                                   ELSE shifts[u]]
    BY <1>2 DEF StartSupersede
  <2>2. CASE s \in Rivals(c)
    <3>1. shifts'[s] = ClosedAtLastBeat(shifts[s], "superseded") /\ IsOpen(s)
      BY <2>1, <2>2 DEF Rivals
    <3>2. Over(s)
      BY <1>2, <3>1, ClosedIsOver DEF StartSupersede, Reasons
    <3> QED
      BY <3>2, NoRowAssumption DEF Over, SameIdentity, IsClosed, IsRow
  <2>3. CASE s \notin Rivals(c)
    <3>1. shifts'[s] = shifts[s]
      BY <2>1, <2>3
    <3> QED
      BY <1>1, <2>3, <3>1 DEF Rivals, IsOpen, IsClosed, IsRow
  <2> QED
    BY <2>2, <2>3
<1>3. CASE calls[c].step = "insert" /\ ~Inserted(s)
  <2>1. IsRow(s) /\ shifts'[s].serial = shifts[s].serial
    BY <1>3, RowKeepsIdentity
  <2>2. IsClosed(s)
    BY <1>1, <1>3, <2>1 DEF ClearedToInsert
  <2> QED
    BY <1>3, <2>2, RowKeepsIdentity DEF IsClosed, IsRow
<1>4. CASE calls[c].step = "insert" /\ Inserted(s)
  <2>1. PICK d \in Caller : calls[d].step = "insert" /\ shifts'[s] = NewRow(d)
                            /\ StartInsert(d)
    BY <1>4, OneInsertAtMost
  <2>2. calls[d].serial = calls[c].serial
    BY <1>1, <2>1, NewRowType
  <2>3. d = c
    BY <1>1, <2>1, <2>2 DEF OneStartPerSerial, InHand
  <2>4. calls'[c].step = "done"
    BY <2>1, <2>3, AnsweredType DEF StartInsert, Answered, TypeOK
  <2> QED
    BY <2>4
<1> QED
  BY <1>2, <1>3, <1>4, InsertAfterSupersede

\* Two rows that were apart stay apart.
LEMMA ApartPreserved ==
  ASSUME OverlapInv, [Next]_vars,
         NEW s \in Shift, NEW t \in Shift, s # t, ~Inserted(s), ~Inserted(t),
         IsRow(s)', IsRow(t)', shifts'[s].serial # None,
         shifts'[s].serial = shifts'[t].serial
  PROVE  (Apart(s, t) \/ Apart(t, s))'
<1> USE DEF OverlapInv, IInv
<1>1. Apart(s, t) \/ Apart(t, s)
  BY RowKeepsIdentity DEF NoOverlap
<1> QED
  BY <1>1, RowKeepsIdentity DEF Apart, IsClosed, IsRow

\* No step makes two shifts of one pair of glasses overlap.
LEMMA NoOverlapPreserved ==
  ASSUME OverlapInv, [Next]_vars PROVE NoOverlap'
<1> USE DEF OverlapInv, IInv
<1> SUFFICES ASSUME NEW s \in Shift, NEW t \in Shift, s # t, IsRow(s)', IsRow(t)',
                    shifts'[s].serial # None, shifts'[s].serial = shifts'[t].serial
             PROVE  (Apart(s, t) \/ Apart(t, s))'
  BY DEF NoOverlap
<1>1. CASE \A u \in Shift : ~Inserted(u)
  BY <1>1, ApartPreserved
<1>2. ASSUME NEW c \in Caller, NEW u \in Shift, calls[c].step = "insert",
             shifts'[u] = NewRow(c),
             \A v \in Shift \ {u} : shifts'[v] = shifts[v] /\ ~Inserted(v)
      PROVE  (Apart(s, t) \/ Apart(t, s))'
  <2>1. shifts'[u].serial = calls[c].serial /\ shifts'[u].started = now
    BY <1>2, NewRowType
  <2>2. ASSUME NEW v \in Shift \ {u}, IsRow(v)', shifts'[v].serial = calls[c].serial,
               calls[c].serial # None
        PROVE  Apart(v, u)'
    <3>1. shifts'[v] = shifts[v] /\ IsClosed(v)
      BY <1>2, <2>2 DEF ClearedToInsert, IsRow
    <3>2. shifts[v].ended.at <= now
      BY <3>1 DEF RowTimes, IsClosed, IsRow
    <3> QED
      BY <2>1, <3>1, <3>2 DEF Apart, IsClosed, IsRow
  <2>3. CASE s = u
    BY <2>1, <2>2, <2>3
  <2>4. CASE t = u
    BY <2>1, <2>2, <2>4
  <2>5. CASE s # u /\ t # u
    BY <1>2, <2>5, ApartPreserved
  <2> QED
    BY <2>3, <2>4, <2>5
<1> QED
  BY <1>1, <1>2, OneInsertAtMost

\* While starts of one pair of glasses are handled one at a time, its shifts
\* never overlap: the hours a rate divides by are counted once.
THEOREM HoursCountedOnce == SerialisedSpec => []NoOverlap
<1>1. Init => OverlapInv
  BY InitIInv DEF Init, OverlapInv, OneStartPerSerial, ClearedToInsert, NoOverlap,
     InHand, NoCall, IsRow
<1>2. OverlapInv /\ [Next /\ OneStartPerSerial']_vars => OverlapInv'
  <2> SUFFICES ASSUME OverlapInv, [Next /\ OneStartPerSerial']_vars PROVE OverlapInv'
    OBVIOUS
  <2>1. [Next]_vars
    OBVIOUS
  <2>2. OneStartPerSerial'
    BY DEF OverlapInv, OneStartPerSerial, InHand, vars
  <2>3. IInv'
    BY <2>1, NextIInv DEF OverlapInv
  <2> QED
    BY <2>1, <2>2, <2>3, ClearedPreserved, NoOverlapPreserved DEF OverlapInv
<1>3. OverlapInv => NoOverlap
  BY DEF OverlapInv
<1> QED
  BY <1>1, <1>2, <1>3, PTL DEF SerialisedSpec

-----------------------------------------------------------------------------
(* The table implements the promise: each row takes its life's next step.   *)

\* The empty table is where nothing has been promised.
LEMMA InitPromise == Init => Promise!Init
BY DEF Init, Promise!Init, Promise!Unused, LifeOf, IsOpen, IsClosed, IsRow

\* The step of a row is a step of the life it stands for.
LEMMA LifeStep ==
  ASSUME IInv, TypeOK', NEW s \in Shift, RowStep(s), now' = now
  PROVE  LifeOf(s)' = LifeOf(s) \/ Promise!Change(s)
<1> DEFINE life == [u \in Shift |-> LifeOf(u)]
<1> USE DEF IInv
<1>0. life[s] = LifeOf(s) /\ life'[s] = LifeOf(s)'
  OBVIOUS
<1>1. CASE Kept(s)
  BY <1>1 DEF Kept, LifeOf, IsOpen, IsClosed, IsRow
<1>2. CASE Deleted(s)
  <2>1. /\ LifeOf(s)' = [phase |-> "gone", start |-> 0, seen |-> 0, over |-> 0]
        /\ LifeOf(s).phase \in {"open", "over"}
    BY <1>2 DEF RowTimes, Deleted, LifeOf, IsOpen, IsClosed, IsRow
  <2>2. Promise!Gone = [phase |-> "gone", start |-> 0, seen |-> 0, over |-> 0]
    BY DEF Promise!Gone, Promise!Unused
  <2> QED
    BY <1>0, <2>1, <2>2 DEF Promise!Change, Promise!Forgotten
<1>3. CASE Inserted(s)
  <2>1. LifeOf(s) = [phase |-> "unused", start |-> 0, seen |-> 0, over |-> 0]
    BY <1>3 DEF RowTimes, Inserted, LifeOf, IsOpen, IsClosed, IsRow
  <2>2. LifeOf(s)' = [phase |-> "open", start |-> now, seen |-> now, over |-> 0]
    BY <1>3, NoRowAssumption DEF Inserted, LifeOf, IsOpen, IsClosed, IsRow
  <2> QED
    BY <1>0, <2>1, <2>2 DEF Promise!Change, Promise!ClockIn, Promise!Unused
<1>4. CASE Touched(s)
  <2>1. /\ LifeOf(s) = [phase |-> "open", start |-> shifts[s].started,
                        seen |-> shifts[s].beat, over |-> 0]
        /\ LifeOf(s)' = [phase |-> "open", start |-> shifts[s].started,
                         seen |-> now, over |-> 0]
    BY <1>4, NoRowAssumption DEF Touched, SameIdentity, LifeOf, IsOpen, IsClosed, IsRow
  <2> QED
    BY <1>0, <2>1 DEF Promise!Change, Promise!SeenAgain
<1>5. CASE Over(s)
  <2> DEFINE at == shifts'[s].ended.at
  <2>1. /\ LifeOf(s) = [phase |-> "open", start |-> shifts[s].started,
                        seen |-> shifts[s].beat, over |-> 0]
        /\ LifeOf(s)' = [phase |-> "over", start |-> shifts[s].started,
                         seen |-> shifts[s].beat, over |-> at]
    BY <1>5, NoRowAssumption DEF Over, SameIdentity, LifeOf, IsOpen, IsClosed, IsRow
  <2>2. at \in shifts[s].beat .. now /\ at < shifts[s].beat + Gap
    BY <1>5 DEF Over, Ending, TypeOK, Row, IsOpen, IsRow
  <2>3. /\ life[s].phase = "open" /\ at \in life[s].seen .. now
        /\ at < life[s].seen + Gap
        /\ life'[s] = [phase |-> "over", start |-> life[s].start,
                       seen |-> life[s].seen, over |-> at]
    BY <1>0, <2>1, <2>2
  <2>4. Promise!ClockOut(s)
    BY <2>3 DEF Promise!ClockOut
  <2> QED
    BY <2>4 DEF Promise!Change
<1> QED
  BY <1>1, <1>2, <1>3, <1>4, <1>5 DEF RowStep

\* The table is an implementation of the shift record's promise, through the
\* mapping of each row to the life of its shift.
THEOREM LedgerKeepsPromise == Spec => KeepsPromise
<1> DEFINE life == [s \in Shift |-> LifeOf(s)]
<1>1. IInv /\ IInv' /\ [Next]_vars => [Promise!Next]_<<now, life>>
  <2> SUFFICES ASSUME IInv, IInv', [Next]_vars PROVE [Promise!Next]_<<now, life>>
    OBVIOUS
  <2>1. Effect
    BY StepEffect DEF IInv
  <2>2. CASE now' = now + 1 /\ shifts' = shifts /\ issued' = issued
    <3>1. life' = life
      BY <2>2 DEF LifeOf, IsOpen, IsClosed, IsRow
    <3> QED
      BY <2>2, <3>1 DEF Promise!Next
  <2>3. CASE now' = now /\ \A s \in Shift : RowStep(s)
    <3>1. \A s \in Shift : LifeOf(s)' = LifeOf(s) \/ Promise!Change(s)
      BY <2>3, LifeStep DEF IInv
    <3>2. \A s \in Shift : life'[s] = life[s] \/ Promise!Change(s)
      BY <3>1
    <3>3. \A s \in Shift : LifeOf(s)' \in Promise!Lives
      BY DEF IInv, TypeOK, Row, Ending, LifeOf, IsOpen, IsClosed, IsRow, Promise!Lives
    <3>4. life' \in [Shift -> Promise!Lives]
      BY <3>3
    <3> QED
      BY <2>3, <3>2, <3>4 DEF Promise!Next
  <2> QED
    BY <2>1, <2>2, <2>3 DEF Effect
<1> QED
  BY <1>1, InitPromise, IInvHolds, PTL DEF Spec, KeepsPromise, Promise!Spec
=============================================================================
