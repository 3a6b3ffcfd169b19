-------------------------- MODULE ShiftFloorProofs --------------------------
(***************************************************************************)
(* The composition of ShiftFloor, for every number of connections and      *)
(* every buffer the server takes whole.  Whatever fails: it keeps its      *)
(* types, does to the shift table only what ShiftLedger lets its callers   *)
(* do, forgets what the phone has persisted only as BufferKept says, and   *)
(* has heartbeats reach the shift they are meant for.  Where the page      *)
(* stays: its starts come one at a time and leave one shift open; where    *)
(* calls are answered too, one outing is one shift.                        *)
(***************************************************************************)
EXTENDS MCShiftOutages, TLAPS

-----------------------------------------------------------------------------
(* The ledger underneath. *)

\* Ids that came from the ledger, or none.
Known == issued \cup {None}

\* A start() in hand, of a request a phone of this floor can make.
Asked == [step: Ledger!Steps, serial: {Glasses, None}, user: {None}, resume: Known,
          stamp: Stamps \cup {None}, got: Known]

\* Every row and every id in a call has been handed out.
LedgerInv ==
  /\ issued \subseteq Shift
  /\ shifts = [s \in Shift |-> shifts[s]]
  /\ \A s \in Shift : shifts[s] # None => s \in issued
  /\ calls \in [Starters -> Asked]

\* A call that stays one of those a phone can make leaves the others so.
LEMMA OneCall ==
  ASSUME LedgerInv, NEW c \in Starters, NEW call \in Asked,
         calls' = [calls EXCEPT ![c] = call], shifts' = shifts, issued' = issued
  PROVE  LedgerInv' /\ issued \subseteq issued'
BY DEF LedgerInv, Asked, Known

\* A row that is rewritten where there was one is not a new id.
LEMMA OldRows ==
  ASSUME LedgerInv, calls' \in [Starters -> Asked], issued' = issued,
         shifts' = [s \in Shift |-> shifts'[s]],
         \A s \in Shift : shifts[s] = None => shifts'[s] = None
  PROVE  LedgerInv' /\ issued \subseteq issued'
BY DEF LedgerInv, Asked, Known

\* The sweep closes open rows only.
LEMMA SweepIsOld ==
  ASSUME LedgerInv, shifts' = Ledger!SweptShifts
  PROVE  /\ shifts' = [s \in Shift |-> shifts'[s]]
         /\ \A s \in Shift : shifts[s] = None => shifts'[s] = None
BY DEF LedgerInv, Ledger!SweptShifts, Ledger!IsStale, Ledger!IsOpen, Ledger!IsRow

\* What a call becomes when it goes on, and when it has its answer.
LEMMA CallsGoOn ==
  ASSUME LedgerInv, NEW c \in Starters
  PROVE  /\ \A step \in Ledger!Steps : Ledger!GoTo(c, step) \in [Starters -> Asked]
         /\ \A s \in Known : Ledger!Answered(c, s) \in [Starters -> Asked]
         /\ Ledger!AfterResume(c) \in Ledger!Steps
<1>1. ASSUME NEW step \in Ledger!Steps PROVE Ledger!GoTo(c, step) \in [Starters -> Asked]
  <2>1. [calls[c] EXCEPT !.step = step] \in Asked
    BY DEF LedgerInv, Asked
  <2> QED
    BY <2>1 DEF LedgerInv, Ledger!GoTo
<1>2. ASSUME NEW s \in Known PROVE Ledger!Answered(c, s) \in [Starters -> Asked]
  <2>1. [step |-> "done", serial |-> None, user |-> None,
         resume |-> None, stamp |-> None, got |-> s] \in Asked
    BY DEF Asked, Known, Ledger!Steps
  <2> QED
    BY <2>1 DEF LedgerInv, Ledger!Answered
<1>3. Ledger!AfterResume(c) \in Ledger!Steps
  BY DEF Ledger!AfterResume, Ledger!Steps
<1> QED
  BY <1>1, <1>2, <1>3

\* One transaction of start() keeps every row and every answer an id handed out.
LEMMA StartStepOK ==
  ASSUME LedgerInv, NEW c \in Starters, Ledger!StartStep(c)
  PROVE  LedgerInv' /\ issued \subseteq issued'
<1>0. calls[c] \in Asked
  BY DEF LedgerInv
<1>1. CASE Ledger!StartSweep(c)
  <2>1. (IF calls[c].resume # None THEN "resume" ELSE Ledger!AfterResume(c)) \in Ledger!Steps
    BY CallsGoOn DEF Ledger!Steps
  <2>2. calls' \in [Starters -> Asked]
    BY <1>1, <2>1, CallsGoOn DEF Ledger!StartSweep
  <2>3. shifts' = Ledger!SweptShifts /\ issued' = issued
    BY <1>1 DEF Ledger!StartSweep
  <2> QED
    BY <2>2, <2>3, SweepIsOld, OldRows
<1>2. CASE Ledger!StartResume(c)
  <2> DEFINE s == calls[c].resume
  <2>1. s \in Known /\ issued' = issued
    BY <1>0, <1>2 DEF Asked, Ledger!StartResume
  <2>2. calls' \in [Starters -> Asked]
    BY <1>2, <2>1, CallsGoOn DEF Ledger!StartResume
  <2>3. shifts' = [t \in Shift |-> shifts'[t]]
    BY <1>2 DEF Ledger!StartResume, LedgerInv
  <2>4. ASSUME NEW t \in Shift, shifts[t] = None PROVE shifts'[t] = None
    BY <1>2, <2>4 DEF Ledger!StartResume, LedgerInv, Ledger!CanResume, Ledger!IsOpen, Ledger!IsRow
  <2> QED
    BY <2>1, <2>2, <2>3, <2>4, OldRows
<1>3. CASE Ledger!StartDedupe(c)
  <2>1. \A s \in Ledger!SameEvent(c) : s \in Known
    BY DEF Ledger!SameEvent, Ledger!IsRow, LedgerInv, Known
  <2>2. "supersede" \in Ledger!Steps
    BY DEF Ledger!Steps
  <2>3. calls' \in [Starters -> Asked]
    BY <1>3, <2>1, <2>2, CallsGoOn DEF Ledger!StartDedupe
  <2> QED
    BY <1>3, <2>3, OldRows DEF Ledger!StartDedupe, LedgerInv
<1>4. CASE Ledger!StartSupersede(c)
  <2>1. calls' \in [Starters -> Asked]
    <3>1. "insert" \in Ledger!Steps
      BY DEF Ledger!Steps
    <3> QED
      BY <1>4, <3>1, CallsGoOn DEF Ledger!StartSupersede
  <2>2. shifts' = [s \in Shift |-> shifts'[s]] /\ issued' = issued
    BY <1>4 DEF Ledger!StartSupersede
  <2>3. ASSUME NEW s \in Shift, shifts[s] = None PROVE shifts'[s] = None
    BY <1>4, <2>3 DEF Ledger!StartSupersede, Ledger!Rivals, Ledger!IsOpen, Ledger!IsRow
  <2> QED
    BY <2>1, <2>2, <2>3, OldRows
<1>5. CASE Ledger!StartInsert(c)
  <2>1. CASE Ledger!SameEvent(c) # {}
    <3>1. calls' = Ledger!Answered(c, None) /\ shifts' = shifts /\ issued' = issued
      BY <1>5, <2>1 DEF Ledger!StartInsert
    <3>2. calls' \in [Starters -> Asked]
      BY <3>1, CallsGoOn DEF Known
    <3> QED
      BY <3>1, <3>2, OldRows DEF LedgerInv
  <2>2. CASE Ledger!SameEvent(c) = {}
    <3>1. PICK s \in Shift \ issued :
            /\ shifts' = [shifts EXCEPT ![s] = Ledger!NewRow(c)]
            /\ issued' = issued \cup {s}
            /\ calls' = Ledger!Answered(c, s)
      BY <1>5, <2>2 DEF Ledger!StartInsert
    <3>2. \A d \in Starters : calls[d] \in Asked'
      BY <3>1 DEF LedgerInv, Asked, Known
    <3>3. [step |-> "done", serial |-> None, user |-> None,
           resume |-> None, stamp |-> None, got |-> s] \in Asked'
      BY <3>1 DEF Asked, Known, Ledger!Steps
    <3>4. calls' \in [Starters -> Asked']
      BY <3>1, <3>2, <3>3 DEF LedgerInv, Ledger!Answered
    <3>5. shifts' = [t \in Shift |-> shifts'[t]] /\ issued' \subseteq Shift
      BY <3>1 DEF LedgerInv
    <3>6. \A t \in Shift : shifts'[t] # None => t \in issued'
      BY <3>1 DEF LedgerInv
    <3> QED
      BY <3>1, <3>4, <3>5, <3>6 DEF LedgerInv
  <2> QED
    BY <2>1, <2>2
<1> QED
  BY <1>1, <1>2, <1>3, <1>4, <1>5 DEF Ledger!StartStep

\* Whatever the ledger does, its rows and its calls name ids it handed out.
LEMMA LedgerStepOK ==
  ASSUME LedgerInv, [Ledger!Next]_ledger
  PROVE  LedgerInv' /\ issued \subseteq issued'
<1>1. CASE UNCHANGED ledger
  BY <1>1 DEF ledger, LedgerInv, Asked, Known
<1>2. CASE Ledger!Tick
  BY <1>2 DEF Ledger!Tick, LedgerInv, Asked, Known
<1>3. CASE Ledger!Sweep
  BY <1>3, SweepIsOld, OldRows DEF Ledger!Sweep, LedgerInv
<1>4. CASE Ledger!Prune
  BY <1>4, OldRows DEF Ledger!Prune, LedgerInv
<1>5. ASSUME NEW c \in Starters, Ledger!Request(c) PROVE LedgerInv' /\ issued \subseteq issued'
  <2>1. PICK serial \in {Glasses} \cup {None}, user \in {} \cup {None},
             resume \in issued \cup {None}, st \in Stamps \cup {None} :
               Ledger!BeginStart(c, serial, user, resume, st)
    BY <1>5 DEF Ledger!Request
  <2> DEFINE call == [step |-> "sweep", serial |-> serial, user |-> user,
                      resume |-> resume, stamp |-> st, got |-> None]
  <2>2. call \in Asked
    BY DEF Asked, Known, Ledger!Steps
  <2>3. calls' = [calls EXCEPT ![c] = call] /\ shifts' = shifts /\ issued' = issued
    BY <2>1 DEF Ledger!BeginStart
  <2> HIDE DEF call
  <2> QED
    BY <2>2, <2>3, OneCall
<1>6. ASSUME NEW c \in Starters, Ledger!StartStep(c) PROVE LedgerInv' /\ issued \subseteq issued'
  BY <1>6, StartStepOK
<1>7. ASSUME NEW c \in Starters, Ledger!Return(c) PROVE LedgerInv' /\ issued \subseteq issued'
  <2>1. Ledger!NoCall \in Asked
    BY DEF Ledger!NoCall, Asked, Known, Ledger!Steps
  <2> QED
    BY <1>7, <2>1, OneCall DEF Ledger!Return
<1>8. ASSUME NEW s \in Shift, Ledger!Heartbeat(s) PROVE LedgerInv' /\ issued \subseteq issued'
  BY <1>8, OldRows DEF Ledger!Heartbeat, LedgerInv, Ledger!IsOpen, Ledger!IsRow
<1>9. ASSUME NEW s \in Shift, NEW reason, Ledger!End(s, reason)
      PROVE  LedgerInv' /\ issued \subseteq issued'
  BY <1>9, OldRows DEF Ledger!End, LedgerInv, Ledger!IsOpen, Ledger!IsRow
<1> QED
  BY <1>1, <1>2, <1>3, <1>4, <1>5, <1>6, <1>7, <1>8, <1>9 DEF Ledger!Next
-----------------------------------------------------------------------------
(* The phone, the wire and the handlers: what they hold. *)

\* What may be buffered: a start carries the clock that stamped it.
Event ==
  {e \in [event: Bufferable, id: Known, at: 0 .. 2 * MaxSock] :
     e.event = "shift:start" => e.at \in Stamps}

\* What a phone buffers, and what one replay carries.
Queue == {q \in Seq(Event) : Len(q) <= MaxQueued}

Frame ==
  Event \cup [event: {"shift:heartbeat", "register"}, id: {None}, at: {0}]
        \cup [event: {"telemetry:replay"}, events: Queue]

Message ==
  [kind: {"open", "closed", "stop", "retry"}, id: Known]
    \cup [kind: {"replayed"}, id: {None}, took: Queue]

Phone == [held: Known, opening: BOOLEAN, asked: 0 .. MaxSock, stopped: BOOLEAN,
          loaded: {"no", "loading", "yes"}, beating: BOOLEAN,
          hidden: BOOLEAN, closing: Known, queue: Queue]

Store == [held: Known, queue: Queue]

Task == [at: {"idle", "next", "calling", "ending", "beating"}, id: Known,
         todo: Seq(Event), took: Queue]

\* A connection stamps at most once as it opens, and once more when the store
\* that was slow to answer it does.
Unstamped == IF phone.loaded = "loading" THEN 1 ELSE 0

\* Nothing is on the wire of a socket that is down, and a connection that was
\* not made has no handler.
WireInv ==
  /\ link \in {"down", "up"} /\ sock \in 0 .. MaxSock
  /\ link = "up" => sock \in Socks
  /\ link = "down" => toServer = <<>> /\ toPhone = <<>>
  /\ backlog \in Seq(Frame) /\ toServer \in Seq(Frame) /\ toPhone \in Seq(Message)

PhoneInv ==
  /\ phone \in Phone /\ store \in Store
  /\ stamp \in Nat /\ stamp + Unstamped <= sock

ServerInv ==
  /\ shiftId \in [Socks -> Known]
  /\ tasks \in [Handlers -> Task]
  /\ \A h \in Handlers :
       /\ tasks[h].at # "idle" => h[1] <= sock
       /\ (h[2] = "replay" /\ tasks[h].at \in {"calling", "ending"}) => tasks[h].todo # <<>>

FloorInv == LedgerInv /\ WireInv /\ PhoneInv /\ ServerInv

-----------------------------------------------------------------------------
(* The operators. *)

\* A sequence keeps its type where the type grows.
LEMMA SeqGrows ==
  ASSUME NEW S, NEW T, S \subseteq T, NEW q \in Seq(S)
  PROVE  q \in Seq(T)
<1>1. Len(q) \in Nat /\ q \in [1 .. Len(q) -> S]
  OBVIOUS
<1>2. q \in [1 .. Len(q) -> T]
  BY <1>1
<1> QED
  BY <1>1, <1>2

\* Taking the first of a sequence leaves the others, one place nearer.
LEMMA TailOf ==
  ASSUME NEW S, NEW q \in Seq(S), q # <<>>
  PROVE  /\ Len(q) \in Nat \ {0} /\ Head(q) = q[1] /\ Head(q) \in S
         /\ Tail(q) \in Seq(S) /\ Len(Tail(q)) = Len(q) - 1
         /\ \A i \in 1 .. Len(q) : i # 1 => i - 1 \in DOMAIN Tail(q) /\ Tail(q)[i - 1] = q[i]
         /\ \A i \in DOMAIN Tail(q) : i + 1 \in 1 .. Len(q) /\ Tail(q)[i] = q[i + 1]
<1>1. Len(q) \in Nat \ {0} /\ Head(q) = q[1] /\ Head(q) \in S
  OBVIOUS
<1>2. Tail(q) \in Seq(S) /\ Len(Tail(q)) = Len(q) - 1
  BY <1>1
<1>3. DOMAIN Tail(q) = 1 .. Len(q) - 1
  BY <1>1, <1>2
<1>4. \A i \in 1 .. Len(q) - 1 : Tail(q)[i] = q[i + 1]
  BY <1>1
<1>5. ASSUME NEW i \in 1 .. Len(q), i # 1
      PROVE  i - 1 \in DOMAIN Tail(q) /\ Tail(q)[i - 1] = q[i]
  <2>1. i - 1 \in 1 .. Len(q) - 1 /\ (i - 1) + 1 = i
    BY <1>1, <1>5
  <2> QED
    BY <2>1, <1>3, <1>4
<1>6. \A i \in DOMAIN Tail(q) : i + 1 \in 1 .. Len(q) /\ Tail(q)[i] = q[i + 1]
  BY <1>1, <1>3, <1>4
<1> QED
  BY <1>1, <1>2, <1>5, <1>6

\* A frame or an answer goes to the end.
LEMMA AppendTo ==
  ASSUME NEW S, NEW q \in Seq(S), NEW e \in S
  PROVE  /\ Append(q, e) \in Seq(S) /\ Len(Append(q, e)) = Len(q) + 1
         /\ Len(q) \in Nat
         /\ DOMAIN q = 1 .. Len(q) /\ DOMAIN Append(q, e) = 1 .. Len(q) + 1
         /\ \A i \in DOMAIN q : Append(q, e)[i] = q[i]
         /\ Append(q, e)[Len(q) + 1] = e
<1>1. Len(q) \in Nat /\ DOMAIN q = 1 .. Len(q)
  OBVIOUS
<1>2. Append(q, e) \in Seq(S) /\ Len(Append(q, e)) = Len(q) + 1
  OBVIOUS
<1> QED
  BY <1>1, <1>2

\* The buffer never passes its cap, and makes room only when it is at it.
LEMMA BufferedQueue ==
  ASSUME NEW q \in Queue, NEW e \in Event
  PROVE  /\ Buffered(q, e) \in Queue
         /\ \A i \in DOMAIN q : Holds(Buffered(q, e), q[i]) \/ Len(q) = MaxQueued
<1> DEFINE longer == Append(q, e)
<1>0. q \in Seq(Event) /\ Len(q) \in Nat /\ Len(q) <= MaxQueued /\ MaxQueued \in Nat
  BY BoundsAssumption DEF Queue
<1>1. longer \in Seq(Event) /\ Len(longer) = Len(q) + 1
      /\ DOMAIN q = 1 .. Len(q) /\ DOMAIN longer = 1 .. Len(q) + 1
      /\ \A i \in DOMAIN q : longer[i] = q[i]
  BY <1>0, AppendTo
<1>2. longer # <<>>
  BY <1>0, <1>1
<1> HIDE DEF longer
<1>3. CASE Len(longer) > MaxQueued
  <2>1. Tail(longer) \in Seq(Event) /\ Len(Tail(longer)) = Len(longer) - 1
    BY <1>1, <1>2, TailOf
  <2>2. Len(longer) = Len(q) + 1 /\ Len(Tail(longer)) = Len(longer) - 1
    BY <1>1, <2>1
  <2> DEFINE n == Len(q)
             m == Len(longer)
             t == Len(Tail(longer))
  <2>4. n \in Nat /\ n <= MaxQueued /\ MaxQueued \in Nat /\ m = n + 1 /\ t = m - 1 /\ m > MaxQueued
    BY <1>0, <1>3, <2>2
  <2>5. n = MaxQueued /\ t <= MaxQueued
    <3> HIDE DEF n, m, t
    <3> QED
      BY <2>4
  <2>3. Tail(longer) \in Queue
    BY <2>1, <2>5 DEF Queue
  <2> QED
    BY <1>3, <2>3, <2>5 DEF Buffered, longer
<1>4. CASE ~(Len(longer) > MaxQueued)
  <2>1. longer \in Queue
    BY <1>0, <1>1, <1>4 DEF Queue
  <2>2. \A i \in DOMAIN q : Holds(longer, q[i])
    BY <1>0, <1>1 DEF Holds
  <2> QED
    BY <1>4, <2>1, <2>2 DEF Buffered, longer
<1> QED
  BY <1>3, <1>4

\* What the phone emits is a frame, what it is told a message.
LEMMA Emissions ==
  /\ \A e \in Event : e \in Frame
  /\ \A q \in Queue : Replay(q) \in Frame
  /\ Beat \in Frame /\ Register \in Frame
  /\ \A s \in Known : EndEvent(s) \in Event
  /\ HealthEvent \in Event
  /\ ClosedState \in Message /\ StopState \in Message /\ RetryState \in Message
  /\ \A s \in Known : OpenState(s) \in Message
  /\ \A q \in Queue : Replayed(q) \in Message
<1>0. None \in Known /\ 0 \in 0 .. 2 * MaxSock
  BY BoundsAssumption DEF Known
<1>1. \A e \in Event : e \in Frame
  BY DEF Frame
<1>2. \A q \in Queue : Replay(q) \in Frame
  BY DEF Frame, Replay
<1>3. Beat \in Frame /\ Register \in Frame
  BY DEF Frame, Beat, Register
<1>4. \A s \in Known : EndEvent(s) \in Event
  BY <1>0 DEF Event, EndEvent, Bufferable
<1>5. HealthEvent \in Event
  BY <1>0 DEF Event, HealthEvent, Bufferable
<1>6. ClosedState \in Message /\ StopState \in Message /\ RetryState \in Message
  BY <1>0 DEF Message, ClosedState, StopState, RetryState
<1>7. \A s \in Known : OpenState(s) \in Message
  BY DEF Message, OpenState
<1>8. \A q \in Queue : Replayed(q) \in Message
  BY DEF Message, Replayed
<1> QED
  BY <1>1, <1>2, <1>3, <1>4, <1>5, <1>6, <1>7, <1>8

\* The start an opening stamps, while there is a connection left to stamp it.
LEMMA StartIsEvent ==
  ASSUME NEW p \in Phone, stamp \in Nat, stamp + 1 <= MaxSock
  PROVE  StartOf(p) \in Event
<1>1. stamp + 1 \in Stamps /\ stamp + 1 \in 0 .. 2 * MaxSock
  BY BoundsAssumption DEF Stamps
<1>2. p.held \in Known
  BY DEF Phone
<1> QED
  BY <1>1, <1>2 DEF StartOf, StartEvent, Event, Bufferable

\* What a socket is told goes to the end of its wire, or nowhere.
LEMMA EmittedOne ==
  ASSUME toPhone \in Seq(Message), NEW k, NEW m \in Message
  PROVE  /\ Emitted(k, m) \in Seq(Message)
         /\ link = "down" => Emitted(k, m) = toPhone
BY AppendTo DEF Emitted

\* A handler that ends leaves a handler.
LEMMA HandlerEnds ==
  ASSUME ServerInv, NEW h \in Handlers, h[2] = "replay" => tasks[h].todo # <<>>
  PROVE  /\ HandlerDone(h) \in Task
         /\ HandlerDone(h).at \in {"idle", "next"}
         /\ h[2] = "replay" => HandlerDone(h).at = "next" /\ HandlerDone(h).took = tasks[h].took
         /\ h[2] # "replay" => HandlerDone(h) = Idle
<1>0. None \in Known /\ <<>> \in Seq(Event) /\ <<>> \in Queue
  BY BoundsAssumption DEF Known, Queue
<1>1. tasks[h] \in Task
  BY DEF ServerInv
<1>2. CASE h[2] = "replay"
  <2>1. Tail(tasks[h].todo) \in Seq(Event)
    BY <1>1, <1>2, TailOf DEF Task
  <2> QED
    BY <1>0, <1>1, <1>2, <2>1 DEF HandlerDone, Task
<1>3. CASE h[2] # "replay"
  BY <1>0, <1>3 DEF HandlerDone, Idle, Task
<1> QED
  BY <1>2, <1>3

-----------------------------------------------------------------------------
(* One step at a time: what it leaves in the phone, on the wire and in the *)
(* handlers, and that it does nothing to the ledger of its own making.     *)

\* Nothing was handed out, so every type is what it was.
LEMMA SameIds ==
  ASSUME issued' = issued
  PROVE  /\ Known' = Known /\ Event' = Event /\ Queue' = Queue /\ Frame' = Frame
         /\ Message' = Message /\ Phone' = Phone /\ Store' = Store /\ Task' = Task
<1>1. Known' = Known
  BY DEF Known
<1>2. Event' = Event
  BY <1>1 DEF Event
<1>3. Queue' = Queue
  BY <1>2 DEF Queue
<1> QED
  BY <1>1, <1>2, <1>3 DEF Frame, Message, Phone, Store, Task

\* The three parts of FloorInv by the fields they speak of.
LEMMA WireKept ==
  ASSUME issued' = issued, link' \in {"down", "up"}, sock' \in 0 .. MaxSock,
         link' = "up" => sock' \in Socks,
         link' = "down" => toServer' = <<>> /\ toPhone' = <<>>,
         backlog' \in Seq(Frame), toServer' \in Seq(Frame), toPhone' \in Seq(Message)
  PROVE  WireInv'
BY SameIds DEF WireInv, Socks

LEMMA PhoneKept ==
  ASSUME issued' = issued, phone' \in Phone, store' \in Store, stamp' \in Nat,
         stamp' + Unstamped' <= sock'
  PROVE  PhoneInv'
BY SameIds DEF PhoneInv

LEMMA ServerKept ==
  ASSUME issued' = issued, shiftId' \in [Socks -> Known], tasks' \in [Handlers -> Task],
         \A h \in Handlers :
           /\ tasks'[h].at # "idle" => h[1] <= sock'
           /\ (h[2] = "replay" /\ tasks'[h].at \in {"calling", "ending"})
                => tasks'[h].todo # <<>>
  PROVE  ServerInv'
BY SameIds DEF ServerInv

\* The handlers of a server that did nothing are those it had.
LEMMA ServerStays ==
  ASSUME ServerInv, issued' = issued, tasks' = tasks, shiftId' \in [Socks -> Known],
         sock \in Nat, sock' \in Nat, sock <= sock'
  PROVE  ServerInv'
<1>1. ASSUME NEW h \in Handlers, tasks'[h].at # "idle" PROVE h[1] <= sock'
  <2>1. h[1] <= sock /\ h[1] \in Nat
    BY <1>1 DEF ServerInv, Handlers, Socks
  <2> QED
    BY <2>1
<1> QED
  BY <1>1, ServerKept DEF ServerInv

\* The floor after a step that left the ledger alone.
Rest == WireInv' /\ PhoneInv' /\ ServerInv'

\* What a connection sends as it opens is typed, and stamps at most one start.
LEMMA Flushed ==
  ASSUME NEW p \in Phone, NEW up \in BOOLEAN, NEW frames \in Seq(Frame),
         store \in Store, stamp \in Nat, stamp + 1 <= MaxSock, sock' \in 0 .. MaxSock,
         FlushAndOpen(p, up, frames)
  PROVE  /\ phone' \in Phone /\ phone'.loaded = p.loaded
         /\ store' \in Store /\ stamp' \in Nat /\ stamp' <= stamp + 1
         /\ up => toServer' \in Seq(Frame) /\ backlog' = <<>>
         /\ ~up => backlog' \in Seq(Frame) /\ toServer' = toServer
<1> DEFINE replay == IF p.queue # <<>> THEN <<Replay(p.queue)>> ELSE <<>>
           start == IF Opens(p) /\ up THEN <<StartOf(p)>> ELSE <<>>
           queue == IF Opens(p) /\ ~up THEN Buffered(p.queue, StartOf(p)) ELSE p.queue
           out == frames \o replay \o start
<1>1. StartOf(p) \in Event
  BY StartIsEvent
<1>2. p.queue \in Queue /\ (p.opening \/ Opens(p)) \in BOOLEAN
  BY DEF Phone
<1>3. Replay(p.queue) \in Frame /\ StartOf(p) \in Frame
  BY <1>1, <1>2, Emissions
<1>4. replay \in Seq(Frame) /\ start \in Seq(Frame)
  BY <1>3
<1>5. queue \in Queue
  BY <1>1, <1>2, BufferedQueue
<1>6. /\ phone' = [p EXCEPT !.opening = @ \/ Opens(p), !.queue = queue,
                            !.asked = IF Opens(p) THEN sock' ELSE @]
      /\ store' = [store EXCEPT !.queue = IF queue # p.queue THEN queue ELSE @]
      /\ stamp' = IF Opens(p) THEN stamp + 1 ELSE stamp
      /\ IF up THEN toServer' = out /\ backlog' = <<>>
         ELSE backlog' = out /\ UNCHANGED toServer
  BY DEF FlushAndOpen
<1> HIDE DEF replay, start, queue
<1>7. out \in Seq(Frame)
  BY <1>4
<1> HIDE DEF out
<1>8. phone' \in Phone /\ phone'.loaded = p.loaded
  BY <1>2, <1>5, <1>6 DEF Phone
<1>9. store' \in Store
  BY <1>5, <1>6 DEF Store
<1> QED
  BY <1>6, <1>7, <1>8, <1>9

\* A controller that has just been made, and one that has read the store.
LEMMA NewPhones ==
  ASSUME phone \in Phone, store \in Store
  PROVE  NoPhone \in Phone /\ Loaded \in Phone /\ Loaded.loaded = "yes"
         /\ Loaded.queue = store.queue
<1>1. None \in Known /\ <<>> \in Queue /\ 0 \in 0 .. MaxSock
  BY BoundsAssumption DEF Known, Queue
<1> QED
  BY <1>1 DEF NoPhone, Loaded, Phone, Store

\* A page that has started knows nothing.
LEMMA LaunchOK == ASSUME FloorInv, Launch PROVE Rest
<1> USE DEF FloorInv
<1>1. WireInv'
  BY SameIds DEF Launch, ledger, wire, WireInv
<1>2. stamp \in Nat /\ stamp <= sock /\ Unstamped' = 0
  BY DEF PhoneInv, WireInv, Unstamped, Launch, NoPhone
<1>3. PhoneInv'
  BY <1>2, NewPhones, PhoneKept DEF Launch, ledger, wire, PhoneInv
<1>4. ServerInv'
  BY ServerStays DEF Launch, ledger, wire, server, ServerInv, WireInv
<1> QED
  BY <1>1, <1>3, <1>4 DEF Rest

\* A connection comes with one number more, which is what a start is stamped with;
\* one that finds the store still being read leaves its stamp for when it answers.
LEMMA ConnectOK == ASSUME FloorInv, Connect PROVE Rest
<1> USE DEF FloorInv
<1> DEFINE frames == Append(backlog, Register)
<1>1. frames \in Seq(Frame)
  BY Emissions DEF WireInv
<1>2. /\ sock' = sock + 1 /\ link' = "up" /\ toPhone' = <<>> /\ issued' = issued
      /\ shiftId' = shiftId /\ tasks' = tasks /\ sock' \in Socks /\ sock \in Nat
      /\ sock' \in 0 .. MaxSock
  BY BoundsAssumption DEF Connect, ledger, server, WireInv, Socks
<1>3. stamp \in Nat /\ stamp + 1 <= MaxSock /\ stamp + Unstamped <= sock /\ Unstamped \in {0, 1}
  <2>1. stamp \in Nat /\ stamp + Unstamped <= sock /\ Unstamped \in {0, 1} /\ sock + 1 <= MaxSock
    BY <1>2 DEF PhoneInv, Unstamped, Socks
  <2> QED
    BY <2>1, <1>2, BoundsAssumption
<1> HIDE DEF frames
<1>4. /\ toServer' \in Seq(Frame) /\ backlog' = <<>>
      /\ phone' \in Phone /\ store' \in Store /\ stamp' \in Nat /\ stamp' + Unstamped' <= sock'
  <2>1. CASE /\ phone.stopped
             /\ toServer' = frames /\ backlog' = <<>>
             /\ UNCHANGED <<phone, store, stamp>>
    BY <1>1, <1>2, <1>3, <2>1 DEF PhoneInv, Unstamped
  <2>2. CASE /\ phone.loaded = "no"
             /\ phone' = [phone EXCEPT !.loaded = "loading"]
             /\ toServer' = frames /\ backlog' = <<>>
             /\ UNCHANGED <<store, stamp>>
    <3>1. phone' \in Phone /\ phone'.loaded = "loading"
      BY <2>2 DEF PhoneInv, Phone
    <3>2. Unstamped = 0 /\ Unstamped' = 1
      BY <2>2, <3>1 DEF Unstamped
    <3> QED
      BY <1>1, <1>2, <1>3, <2>2, <3>1, <3>2 DEF PhoneInv
  <2>3. CASE FlushAndOpen(IF phone.loaded = "no" THEN Loaded ELSE phone, TRUE, frames)
    <3> DEFINE p == IF phone.loaded = "no" THEN Loaded ELSE phone
    <3>1. p \in Phone /\ (p.loaded = "loading" => phone.loaded = "loading")
      BY NewPhones DEF PhoneInv
    <3>2. FlushAndOpen(p, TRUE, frames)
      BY <2>3
    <3> HIDE DEF p
    <3>3. /\ phone' \in Phone /\ phone'.loaded = p.loaded /\ store' \in Store
          /\ stamp' \in Nat /\ stamp' <= stamp + 1
          /\ toServer' \in Seq(Frame) /\ backlog' = <<>>
      <4>1. sock' \in 0 .. MaxSock
        BY <1>2
      <4> QED
        BY <1>1, <1>3, <3>1, <3>2, <4>1, Flushed DEF PhoneInv
    <3>4. Unstamped' \in {0, 1} /\ (Unstamped' = 1 => Unstamped = 1)
      BY <3>1, <3>3 DEF Unstamped
    <3>5. stamp' + Unstamped' <= sock'
      <4>1. \A a, b, c, d, e, f \in Int : a <= b + 1 /\ b + c <= d /\ e = d + 1 /\ f <= c => a + f <= e
        OBVIOUS
      <4>2. /\ stamp' \in Int /\ stamp \in Int /\ Unstamped \in Int /\ Unstamped' \in Int
            /\ sock \in Int /\ sock' \in Int
        BY <1>2, <1>3, <3>3, <3>4
      <4>3. stamp' <= stamp + 1 /\ stamp + Unstamped <= sock /\ sock' = sock + 1
        BY <1>2, <1>3, <3>3
      <4>4. Unstamped' <= Unstamped
        BY <1>3, <3>4
      <4> QED
        BY <4>1, <4>2, <4>3, <4>4
    <3> QED
      BY <3>3, <3>5
  <2> QED
    BY <2>1, <2>2, <2>3 DEF Connect, frames
<1>5. WireInv'
  BY <1>2, <1>4, WireKept
<1>6. PhoneInv'
  BY <1>2, <1>4, PhoneKept
<1>7. ServerInv'
  BY <1>2, ServerStays DEF ServerInv
<1> QED
  BY <1>5, <1>6, <1>7 DEF Rest

\* The start that was left is stamped when the store has answered.
LEMMA StoreAnswersOK == ASSUME FloorInv, StoreAnswers PROVE Rest
<1> USE DEF FloorInv
<1>1. /\ phone.loaded = "loading" /\ issued' = issued /\ link' = link /\ sock' = sock
      /\ toPhone' = toPhone /\ shiftId' = shiftId /\ tasks' = tasks
  BY DEF StoreAnswers, ledger, server
<1>2. Loaded \in Phone /\ Loaded.loaded = "yes"
  BY NewPhones DEF PhoneInv
<1>3. /\ stamp \in Nat /\ stamp + 1 <= sock /\ sock \in 0 .. MaxSock /\ stamp + 1 <= MaxSock
      /\ sock' \in 0 .. MaxSock
  BY <1>1, BoundsAssumption DEF PhoneInv, WireInv, Unstamped
<1>4. /\ phone' \in Phone /\ phone'.loaded = "yes" /\ store' \in Store
      /\ stamp' \in Nat /\ stamp' <= stamp + 1
      /\ toServer' \in Seq(Frame) /\ backlog' \in Seq(Frame)
      /\ link = "down" => toServer' = toServer
  <2>1. CASE link = "up"
    <3>1. FlushAndOpen(Loaded, TRUE, toServer)
      BY <2>1 DEF StoreAnswers, FlushAndOpen
    <3>2. toServer \in Seq(Frame) /\ TRUE \in BOOLEAN /\ store \in Store
      BY DEF WireInv, PhoneInv
    <3>3. /\ phone' \in Phone /\ phone'.loaded = Loaded.loaded
          /\ store' \in Store /\ stamp' \in Nat /\ stamp' <= stamp + 1
          /\ toServer' \in Seq(Frame) /\ backlog' = <<>>
      BY <1>2, <1>3, <3>1, <3>2, Flushed
    <3>4. <<>> \in Seq(Frame)
      OBVIOUS
    <3> QED
      BY <1>2, <2>1, <3>3, <3>4
  <2>2. CASE link = "down"
    <3>1. FlushAndOpen(Loaded, FALSE, backlog)
      BY <2>2 DEF StoreAnswers, FlushAndOpen
    <3> QED
      BY <1>2, <1>3, <2>2, <3>1, Flushed DEF WireInv, PhoneInv
  <2> QED
    BY <2>1, <2>2 DEF WireInv
<1>5. WireInv'
  BY <1>1, <1>3, <1>4, WireKept DEF WireInv
<1>6. Unstamped' = 0
  BY <1>4 DEF Unstamped
<1>9. stamp' + Unstamped' <= sock'
  <2>0. sock \in Nat /\ stamp' \in Nat /\ stamp' <= stamp + 1
    BY <1>3, <1>4, BoundsAssumption
  <2>1. \A a, b, c \in Nat : a <= b + 1 /\ b + 1 <= c => a + 0 <= c
    OBVIOUS
  <2>2. stamp \in Nat /\ stamp + 1 <= sock
    BY <1>3
  <2>3. stamp' + 0 <= sock
    BY <2>0, <2>1, <2>2
  <2> QED
    BY <2>3, <1>1, <1>6
<1>7. PhoneInv'
  BY <1>1, <1>4, <1>9, PhoneKept
<1>8. ServerInv'
  BY <1>1, <1>3, ServerStays DEF ServerInv
<1> QED
  BY <1>5, <1>7, <1>8 DEF Rest

\* A phone that reads no store and opens nothing stamps nothing.
LEMMA PhoneStays ==
  ASSUME PhoneInv, issued' = issued, phone' \in Phone, phone'.loaded = phone.loaded,
         store' \in Store, stamp' = stamp, sock' = sock
  PROVE  PhoneInv'
<1>1. Unstamped' = Unstamped
  BY DEF Unstamped
<1> QED
  BY <1>1, PhoneKept DEF PhoneInv

\* A phone that is made anew has no store to wait for.
LEMMA PhoneGoes ==
  ASSUME PhoneInv, issued' = issued, phone' = NoPhone, store' = store,
         stamp' = stamp, sock' = sock, sock \in Nat
  PROVE  PhoneInv'
<1>1. stamp \in Nat /\ stamp <= sock /\ Unstamped' = 0
  BY DEF PhoneInv, Unstamped, NoPhone
<1> QED
  BY <1>1, NewPhones, PhoneKept DEF PhoneInv

\* Connections are counted.
LEMMA SockIsNat == ASSUME WireInv PROVE sock \in Nat /\ sock <= MaxSock
BY BoundsAssumption DEF WireInv

\* A heartbeat is a frame like others.
LEMMA SendBeatOK == ASSUME FloorInv, SendBeat PROVE Rest
<1> USE DEF FloorInv
<1>1. Append(toServer, Beat) \in Seq(Frame)
  BY Emissions, AppendTo DEF WireInv
<1>2. WireInv'
  BY <1>1, WireKept DEF SendBeat, WireInv, ledger, client
<1>3. PhoneInv'
  BY PhoneStays DEF SendBeat, PhoneInv, ledger, client
<1>4. ServerInv'
  BY SockIsNat, ServerStays DEF SendBeat, ServerInv, ledger, server
<1> QED
  BY <1>2, <1>3, <1>4 DEF Rest

\* close() keeps the id it forgets until the clock-out is dispatched.
LEMMA PageHideOK == ASSUME FloorInv, PageHide PROVE Rest
<1> USE DEF FloorInv
<1>1. WireInv'
  BY SameIds DEF PageHide, WireInv, ledger, wire, Socks
<1>2. None \in Known
  BY DEF Known
<1>3. phone' \in Phone /\ phone'.loaded = phone.loaded
  BY <1>2 DEF PageHide, PhoneInv, Phone
<1>4. store' \in Store
  BY <1>2 DEF PageHide, PhoneInv, Store
<1>5. PhoneInv'
  BY <1>3, <1>4, PhoneStays DEF PageHide, ledger, wire
<1>6. ServerInv'
  BY SockIsNat, ServerStays DEF PageHide, ServerInv, ledger, server, wire
<1> QED
  BY <1>1, <1>5, <1>6 DEF Rest

\* A clock-out names an id of the ledger, on the wire or in the buffer.
LEMMA DispatchEndOK == ASSUME FloorInv, DispatchEnd PROVE Rest
<1> USE DEF FloorInv
<1> DEFINE e == EndEvent(phone.closing)
           queue == Buffered(phone.queue, e)
<1>0. e \in Event /\ e \in Frame
  BY Emissions DEF PhoneInv, Phone
<1>1. queue \in Queue
  BY <1>0, BufferedQueue DEF PhoneInv, Phone
<1>2. Append(toServer, e) \in Seq(Frame)
  BY <1>0, AppendTo DEF WireInv
<1>3. None \in Known
  BY DEF Known
<1>4. /\ issued' = issued /\ link' = link /\ sock' = sock /\ backlog' = backlog
      /\ toPhone' = toPhone /\ tasks' = tasks /\ shiftId' = shiftId /\ stamp' = stamp
      /\ \/ /\ phone.stopped \/ link = "up"
            /\ phone' = [phone EXCEPT !.closing = None] /\ store' = store
            /\ toServer' = IF phone.stopped THEN toServer ELSE Append(toServer, e)
         \/ /\ phone' = [phone EXCEPT !.closing = None, !.queue = queue]
            /\ store' = [store EXCEPT !.queue = queue]
            /\ toServer' = toServer
  BY DEF DispatchEnd, ledger, server
<1> HIDE DEF e, queue
<1>5. toServer' \in Seq(Frame) /\ (link = "down" => toServer' = toServer)
  BY <1>2, <1>4 DEF WireInv
<1>6. WireInv'
  BY <1>4, <1>5, WireKept DEF WireInv
<1>7. phone' \in Phone /\ phone'.loaded = phone.loaded /\ store' \in Store
  BY <1>1, <1>3, <1>4 DEF PhoneInv, Phone, Store
<1>8. PhoneInv'
  BY <1>4, <1>7, PhoneStays
<1>9. ServerInv'
  BY <1>4, SockIsNat, ServerStays DEF ServerInv
<1> QED
  BY <1>6, <1>8, <1>9 DEF Rest

\* A report makes room for itself.
LEMMA BufferStatusOK == ASSUME FloorInv, BufferStatus PROVE Rest
<1> USE DEF FloorInv
<1> DEFINE queue == Buffered(phone.queue, HealthEvent)
<1>1. queue \in Queue
  BY Emissions, BufferedQueue DEF PhoneInv, Phone
<1>2. phone' = [phone EXCEPT !.queue = queue] /\ store' = [store EXCEPT !.queue = queue]
  BY DEF BufferStatus
<1> HIDE DEF queue
<1>3. phone' \in Phone /\ phone'.loaded = phone.loaded /\ store' \in Store
  BY <1>1, <1>2 DEF PhoneInv, Phone, Store
<1>4. WireInv'
  BY SameIds DEF BufferStatus, WireInv, ledger, wire, Socks
<1>5. PhoneInv'
  BY <1>3, PhoneStays DEF BufferStatus, ledger, wire
<1>6. ServerInv'
  BY SockIsNat, ServerStays DEF BufferStatus, ServerInv, ledger, server, wire
<1> QED
  BY <1>4, <1>5, <1>6 DEF Rest

\* What the phone is told to hold, it was told by the ledger.
LEMMA ReceiveOK == ASSUME FloorInv, Receive PROVE Rest
<1> USE DEF FloorInv
<1> DEFINE m == Head(toPhone)
<1>1. m \in Message /\ Tail(toPhone) \in Seq(Message) /\ link = "up"
  BY TailOf DEF Receive, WireInv
<1>2. /\ issued' = issued /\ link' = link /\ sock' = sock /\ backlog' = backlog
      /\ toServer' = toServer /\ toPhone' = Tail(toPhone)
      /\ tasks' = tasks /\ shiftId' = shiftId /\ stamp' = stamp
  BY DEF Receive, ledger, server
<1>3. None \in Known /\ <<>> \in Queue
  BY BoundsAssumption DEF Known, Queue
<1>4. phone \in Phone /\ store \in Store
  BY DEF PhoneInv
<1>5. phone' \in Phone /\ phone'.loaded = phone.loaded /\ store' \in Store
  <2>1. CASE m.kind = "open"
    <3>1. m.id \in Known
      BY <1>1, <2>1 DEF Message
    <3>2. /\ phone' = [phone EXCEPT !.opening = FALSE, !.held = m.id, !.beating = TRUE]
          /\ store' = [store EXCEPT !.held = m.id]
      BY <2>1 DEF Receive
    <3> HIDE DEF m
    <3> QED
      BY <1>4, <3>1, <3>2 DEF Phone, Store
  <2>2. CASE m.kind = "stop"
    <3>1. /\ phone' = [phone EXCEPT !.opening = FALSE, !.held = None, !.beating = FALSE,
                                    !.stopped = TRUE, !.queue = <<>>]
          /\ store' = [held |-> None, queue |-> <<>>]
      BY <2>2 DEF Receive
    <3> QED
      BY <1>3, <1>4, <3>1 DEF Phone, Store
  <2>3. CASE m.kind \in {"closed", "retry"}
    <3>1. /\ phone' = [phone EXCEPT !.opening = FALSE, !.held = None, !.beating = FALSE]
          /\ store' = [store EXCEPT !.held = None]
      BY <2>3 DEF Receive
    <3> QED
      BY <1>3, <1>4, <3>1 DEF Phone, Store
  <2>4. CASE m.kind = "replayed"
    <3>1. /\ phone' = [phone EXCEPT !.queue = <<>>]
          /\ store' = [store EXCEPT !.queue = IF phone.queue # <<>> THEN <<>> ELSE @]
      BY <2>4 DEF Receive
    <3> QED
      BY <1>3, <1>4, <3>1 DEF Phone, Store
  <2>5. m.kind \in {"open", "closed", "stop", "retry", "replayed"}
    BY <1>1 DEF Message
  <2> QED
    BY <2>1, <2>2, <2>3, <2>4, <2>5
<1>6. WireInv'
  BY <1>1, <1>2, WireKept DEF WireInv
<1>7. PhoneInv'
  BY <1>2, <1>5, PhoneStays
<1>8. ServerInv'
  BY <1>2, SockIsNat, ServerStays DEF ServerInv
<1> QED
  BY <1>6, <1>7, <1>8 DEF Rest

\* What is left of a connection that is gone.
LEMMA DisconnectedOK ==
  ASSUME FloorInv, Disconnected, issued' = issued, backlog' \in Seq(Frame)
  PROVE  WireInv' /\ ServerInv' /\ sock' = sock /\ sock \in Nat
<1> USE DEF FloorInv
<1>1. sock' = sock /\ link' = "down" /\ toServer' = <<>> /\ toPhone' = <<>> /\ tasks' = tasks
  BY DEF Disconnected
<1>2. <<>> \in Seq(Frame) /\ <<>> \in Seq(Message)
  OBVIOUS
<1>3. WireInv'
  BY <1>1, <1>2, WireKept DEF WireInv
<1>4. shiftId' \in [Socks -> Known]
  BY DEF Disconnected, ServerInv, Known
<1>5. ServerInv'
  BY <1>1, <1>4, SockIsNat, ServerStays
<1> QED
  BY <1>1, <1>3, <1>5, SockIsNat

\* Nothing is on the wire of a socket that went down.
LEMMA DropOK == ASSUME FloorInv, Drop PROVE Rest
<1> USE DEF FloorInv
<1>1. WireInv' /\ ServerInv' /\ sock' = sock /\ sock \in Nat
  BY DisconnectedOK DEF Drop, ledger, WireInv
<1>2. PhoneInv'
  BY <1>1, PhoneStays DEF Drop, ledger, client, PhoneInv
<1> QED
  BY <1>1, <1>2 DEF Rest

\* What a page had persisted outlives it.
LEMMA TeardownOK == ASSUME FloorInv, Teardown PROVE Rest
<1> USE DEF FloorInv
<1>0. <<>> \in Seq(Frame)
  OBVIOUS
<1>1. WireInv' /\ ServerInv' /\ sock' = sock /\ sock \in Nat
  BY <1>0, DisconnectedOK DEF Teardown, ledger
<1>2. PhoneInv'
  BY <1>1, PhoneGoes DEF Teardown, ledger
<1> QED
  BY <1>1, <1>2 DEF Rest

-----------------------------------------------------------------------------
(* The server's handlers. *)

\* A step of handler h that lets it go on: the ledger makes a move of its own or
\* none, the phone may be told something of a shift, and a replay goes on with
\* the events it took.
Handled(h) ==
  /\ issued' = issued /\ [Ledger!Next]_ledger
  /\ shiftId' \in [Socks -> Known]
  /\ \E t \in Task :
       /\ tasks' = [tasks EXCEPT ![h] = t]
       /\ h[2] = "replay" => /\ t.at # "idle" /\ t.took = tasks[h].took
                             /\ t.at \in {"calling", "ending"} => t.todo # <<>>
  /\ \/ toPhone' = toPhone
     \/ \E m \in Message : m.kind # "replayed" /\ toPhone' = Emitted(h[1], m)

\* A frame that starts, ends or reports is one the phone may also have buffered.
LEMMA FrameKinds ==
  /\ \A f \in Frame : f.event \in Bufferable => f \in Event
  /\ \A f \in Frame : f.event = "telemetry:replay" => f.events \in Queue
  /\ \A e \in Event : e.event \in Bufferable /\ e.id \in Known
                      /\ (e.event = "shift:start" => e.at \in Stamps)
<1>1. \A f \in Frame : f.event \in Bufferable => f \in Event
  BY DEF Frame, Bufferable
<1>2. \A f \in Frame : f.event = "telemetry:replay" => f.events \in Queue
  BY DEF Frame, Event, Bufferable
<1>3. \A e \in Event : e.event \in Bufferable /\ e.id \in Known
                       /\ (e.event = "shift:start" => e.at \in Stamps)
  BY DEF Event
<1> QED
  BY <1>1, <1>2, <1>3

\* What a refusal or an answer says of a shift.
LEMMA AnswerKinds ==
  /\ ClosedState \in Message /\ StopState \in Message /\ RetryState \in Message
  /\ ClosedState.kind # "replayed" /\ StopState.kind # "replayed"
  /\ RetryState.kind # "replayed"
  /\ \A s \in Known : OpenState(s) \in Message /\ OpenState(s).kind # "replayed"
<1>1. /\ ClosedState.kind # "replayed" /\ StopState.kind # "replayed"
      /\ RetryState.kind # "replayed"
      /\ \A s \in Known : OpenState(s).kind # "replayed"
  BY DEF ClosedState, StopState, RetryState, OpenState
<1> QED
  BY <1>1, Emissions

\* The rest of the floor goes on with a handler that goes on.
LEMMA HandledOK ==
  ASSUME FloorInv, NEW h \in Handlers, h[1] <= sock, Handled(h), UNCHANGED elsewhere,
         toServer' \in Seq(Frame), link = "down" => toServer' = <<>>
  PROVE  Rest
<1> USE DEF FloorInv
<1>1. /\ issued' = issued /\ link' = link /\ sock' = sock /\ backlog' = backlog
      /\ phone' = phone /\ store' = store /\ stamp' = stamp
  BY DEF Handled, elsewhere, client
<1>2. toPhone' \in Seq(Message) /\ (link = "down" => toPhone' = toPhone)
  BY EmittedOne DEF Handled, WireInv
<1>3. WireInv'
  BY <1>1, <1>2, WireKept DEF WireInv
<1>4. PhoneInv'
  BY <1>1, PhoneStays DEF PhoneInv
<1>5. PICK t \in Task :
        /\ tasks' = [tasks EXCEPT ![h] = t]
        /\ h[2] = "replay" => (t.at \in {"calling", "ending"} => t.todo # <<>>)
  BY DEF Handled
<1>6. tasks' \in [Handlers -> Task]
  BY <1>5 DEF ServerInv
<1>7. ASSUME NEW g \in Handlers
      PROVE  /\ tasks'[g].at # "idle" => g[1] <= sock'
             /\ (g[2] = "replay" /\ tasks'[g].at \in {"calling", "ending"})
                  => tasks'[g].todo # <<>>
  <2>1. CASE g = h
    BY <1>1, <1>5, <2>1 DEF ServerInv
  <2>2. CASE g # h
    BY <1>1, <1>5, <2>2 DEF ServerInv
  <2> QED
    BY <2>1, <2>2
<1>8. ServerInv'
  BY <1>1, <1>6, <1>7, ServerKept DEF Handled
<1> QED
  BY <1>3, <1>4, <1>8 DEF Rest

\* A handler that is let go as it ends.
LEMMA DoneHandled ==
  ASSUME FloorInv, NEW h \in Handlers, h[2] = "replay" => tasks[h].todo # <<>>,
         tasks' = [tasks EXCEPT ![h] = HandlerDone(h)],
         issued' = issued, [Ledger!Next]_ledger, shiftId' \in [Socks -> Known],
         \/ toPhone' = toPhone
         \/ \E m \in Message : m.kind # "replayed" /\ toPhone' = Emitted(h[1], m)
  PROVE  Handled(h)
<1>1. HandlerDone(h) \in Task /\ HandlerDone(h).at \in {"idle", "next"}
      /\ (h[2] = "replay" => HandlerDone(h).at = "next" /\ HandlerDone(h).took = tasks[h].took)
  BY HandlerEnds DEF FloorInv
<1> QED
  BY <1>1 DEF Handled

\* The handler of a start, live or replayed, asks the ledger for what it may.
LEMMA HandleStartOK ==
  ASSUME FloorInv, NEW h \in Starters, NEW e \in Event, e.event = "shift:start",
         h[2] = "replay" => tasks[h].todo # <<>>, HandleStart(h, e)
  PROVE  Handled(h)
<1> USE DEF FloorInv
<1>0. h \in Handlers /\ h[1] \in Socks
  BY DEF Starters, Handlers, Kinds
<1>1. CASE Ledger!BeginStart(h, Glasses, None, e.id, e.at)
           /\ tasks' = [tasks EXCEPT ![h].at = "calling"] /\ UNCHANGED <<shiftId, toPhone>>
  <2>1. e.id \in issued \cup {None} /\ e.at \in Stamps
    BY FrameKinds DEF Known
  <2>2. Ledger!Request(h)
    BY <1>1, <2>1 DEF Ledger!Request
  <2>3. Ledger!Next
    BY <2>2 DEF Ledger!Next
  <2>4. issued' = issued
    BY <1>1 DEF Ledger!BeginStart
  <2> DEFINE t == [tasks[h] EXCEPT !.at = "calling"]
  <2>5. tasks[h] \in Task
    BY <1>0 DEF ServerInv
  <2>6. t \in Task /\ t.at = "calling" /\ t.took = tasks[h].took /\ t.todo = tasks[h].todo
    BY <2>5 DEF Task
  <2>7. tasks' = [tasks EXCEPT ![h] = t]
    BY <1>1
  <2> HIDE DEF t
  <2> QED
    BY <1>1, <2>3, <2>4, <2>6, <2>7 DEF Handled, ServerInv
<1>2. ASSUME NEW m \in Message, m.kind # "replayed", StartRefused(h, m),
             tasks' = [tasks EXCEPT ![h] = HandlerDone(h)]
      PROVE  Handled(h)
  <2>1. issued' = issued /\ [Ledger!Next]_ledger
    BY <1>2 DEF StartRefused, ledger
  <2>2. shiftId' \in [Socks -> Known]
    BY <1>2 DEF StartRefused, ServerInv, Known
  <2>3. toPhone' = Emitted(h[1], m)
    BY <1>2 DEF StartRefused
  <2> QED
    BY <1>0, <1>2, <2>1, <2>2, <2>3, DoneHandled
<1> QED
  BY <1>1, <1>2, AnswerKinds DEF HandleStart

\* The handler of an end asks for the socket's own shift.
LEMMA HandleEndOK ==
  ASSUME FloorInv, NEW h \in Handlers, h[2] = "replay" => tasks[h].todo # <<>>,
         HandleEnd(h)
  PROVE  Handled(h)
<1> USE DEF FloorInv
<1> DEFINE s == shiftId[h[1]]
<1>0. h[1] \in Socks /\ tasks[h] \in Task /\ s \in Known
  BY DEF Handlers, ServerInv
<1>1. issued' = issued /\ [Ledger!Next]_ledger /\ toPhone' = toPhone
  BY DEF HandleEnd, ledger
<1>2. shiftId' \in [Socks -> Known]
  BY DEF HandleEnd, ServerInv, Known
<1>3. CASE s = None
  BY <1>1, <1>2, <1>3, DoneHandled DEF HandleEnd
<1>4. CASE s # None
  <2> DEFINE t == [tasks[h] EXCEPT !.at = "ending", !.id = s]
  <2>1. tasks' = [tasks EXCEPT ![h] = t]
    BY <1>4 DEF HandleEnd
  <2> HIDE DEF s
  <2>2. t \in Task /\ t.took = tasks[h].took /\ t.todo = tasks[h].todo /\ t.at # "idle"
    BY <1>0 DEF Task
  <2> HIDE DEF t
  <2> QED
    BY <1>1, <1>2, <2>1, <2>2 DEF Handled
<1> QED
  BY <1>3, <1>4

\* A frame that was taken leaves the others on the wire.
LEMMA TakeOK ==
  ASSUME FloorInv, Take
  PROVE  /\ link = "up" /\ sock \in Socks /\ toServer' \in Seq(Frame)
         /\ Head(toServer) \in Frame
         /\ \A kind \in Kinds : <<sock, kind>> \in Handlers /\ <<sock, kind>>[1] <= sock
<1>1. link = "up" /\ sock \in Socks
  BY DEF FloorInv, WireInv, Take
<1>2. toServer' \in Seq(Frame) /\ Head(toServer) \in Frame
  BY TailOf DEF FloorInv, WireInv, Take
<1> QED
  BY <1>1, <1>2 DEF Handlers, Socks

\* The frames arrive: register has no handler to wait for ...
LEMMA RegisterArrivesOK == ASSUME FloorInv, RegisterArrives PROVE Rest
<1> USE DEF FloorInv
<1>1. Take /\ UNCHANGED <<ledger, toPhone, elsewhere, shiftId, tasks>>
  BY DEF RegisterArrives
<1>2. toServer' \in Seq(Frame) /\ link = "up"
  BY <1>1, TakeOK
<1>3. WireInv'
  BY <1>1, <1>2, WireKept DEF WireInv, elsewhere, ledger
<1>4. PhoneInv'
  BY <1>1, PhoneStays DEF PhoneInv, elsewhere, ledger, client
<1>5. ServerInv'
  BY <1>1, SockIsNat, ServerStays DEF ServerInv, elsewhere, ledger
<1> QED
  BY <1>3, <1>4, <1>5 DEF Rest

\* ... a start runs to its call ...
LEMMA StartArrivesOK ==
  ASSUME FloorInv, StartArrives PROVE Handled(<<sock, "start">>) /\ Rest
<1> DEFINE h == <<sock, "start">>
<1>1. Take /\ Head(toServer).event = "shift:start" /\ HandleStart(h, Head(toServer))
      /\ UNCHANGED elsewhere
  BY DEF StartArrives
<1>2. /\ sock \in Socks /\ h \in Starters /\ h \in Handlers /\ h[1] <= sock /\ h[2] # "replay"
      /\ toServer' \in Seq(Frame) /\ Head(toServer) \in Event /\ link = "up"
  BY <1>1, TakeOK, FrameKinds DEF Starters, Kinds, Bufferable
<1> HIDE DEF h
<1>3. Handled(h)
  BY <1>1, <1>2, HandleStartOK
<1>4. Rest
  BY <1>1, <1>2, <1>3, HandledOK
<1> QED
  BY <1>3, <1>4 DEF h

\* ... a clock-out to its own, or to its answer ...
LEMMA EndArrivesOK ==
  ASSUME FloorInv, EndArrives PROVE Handled(<<sock, "end">>) /\ Rest
<1> DEFINE h == <<sock, "end">>
<1>1. Take /\ HandleEnd(h) /\ UNCHANGED elsewhere
  BY DEF EndArrives
<1>2. /\ h \in Handlers /\ h[1] <= sock /\ h[2] # "replay"
      /\ toServer' \in Seq(Frame) /\ link = "up"
  BY <1>1, TakeOK DEF Kinds
<1> HIDE DEF h
<1>3. Handled(h)
  BY <1>1, <1>2, HandleEndOK
<1>4. Rest
  BY <1>1, <1>2, <1>3, HandledOK
<1> QED
  BY <1>3, <1>4 DEF h

\* ... and a heartbeat takes the id the socket remembers.
LEMMA BeatArrivesOK ==
  ASSUME FloorInv, BeatArrives PROVE Handled(<<sock, "beat">>) /\ Rest
<1> USE DEF FloorInv
<1> DEFINE h == <<sock, "beat">>
<1>1. Take /\ UNCHANGED <<ledger, toPhone, elsewhere, registered, shiftId>>
      /\ tasks' = IF shiftId[sock] = None THEN tasks
              ELSE [tasks EXCEPT ![h] = [Idle EXCEPT !.at = "beating", !.id = shiftId[sock]]]
  BY DEF BeatArrives
<1>2. /\ sock \in Socks /\ h \in Handlers /\ h[1] <= sock /\ h[2] # "replay"
      /\ toServer' \in Seq(Frame) /\ link = "up"
  BY <1>1, TakeOK DEF Kinds
<1>3. <<>> \in Queue /\ <<>> \in Seq(Event) /\ None \in Known
  BY BoundsAssumption DEF Queue, Known
<1>4. shiftId[sock] \in Known /\ tasks[h] \in Task
  BY <1>2 DEF ServerInv
<1> DEFINE busy == [Idle EXCEPT !.at = "beating", !.id = shiftId[sock]]
<1>5. busy \in Task
  BY <1>3, <1>4 DEF Task, Idle
<1> HIDE DEF h, busy
<1>6. \E t \in Task : tasks' = [tasks EXCEPT ![h] = t]
  <2>1. CASE shiftId[sock] = None
    <3>1. tasks' = [tasks EXCEPT ![h] = tasks[h]]
      BY <1>1, <1>2, <2>1 DEF ServerInv
    <3> QED
      BY <3>1, <1>4
  <2>2. CASE shiftId[sock] # None
    BY <1>1, <1>5, <2>2 DEF busy, h
  <2> QED
    BY <2>1, <2>2
<1>7. Handled(h)
  BY <1>1, <1>2, <1>6 DEF Handled, ledger, ServerInv
<1>8. Rest
  BY <1>1, <1>2, <1>7, HandledOK
<1> QED
  BY <1>7, <1>8 DEF h

\* A replay carries no more than a phone buffers, so none of it is cut off.
LEMMA AdmittedWhole == ASSUME NEW q \in Queue PROVE Admitted(q) = q
<1>1. Len(q) \in Nat /\ Len(q) <= MaxQueued
  BY DEF Queue
<1>2. ~(Len(q) > MaxReplay)
  BY <1>1, BoundsAssumption, ReplayAssumption
<1> QED
  BY <1>2 DEF Admitted

\* A replay that arrives is taken whole, and gone through from its first event.
LEMMA ReplayTaken ==
  ASSUME FloorInv, ReplayArrives
  PROVE  /\ Head(toServer) \in Frame /\ Head(toServer).event = "telemetry:replay"
         /\ Head(toServer).events \in Queue
         /\ tasks[<<sock, "replay">>].at = "idle"
         /\ tasks' = [tasks EXCEPT ![<<sock, "replay">>] =
              [at |-> "next", id |-> None, todo |-> Head(toServer).events,
               took |-> Head(toServer).events]]
<1> DEFINE q == Head(toServer).events
<1>1. /\ Take /\ Head(toServer).event = "telemetry:replay"
      /\ tasks[<<sock, "replay">>].at = "idle"
      /\ tasks' = [tasks EXCEPT ![<<sock, "replay">>] =
           [at |-> "next", id |-> None, todo |-> Admitted(q), took |-> Admitted(q)]]
  BY DEF ReplayArrives
<1>2. Head(toServer) \in Frame /\ q \in Queue
  BY <1>1, TakeOK, FrameKinds
<1>3. Admitted(q) = q
  BY <1>2, AdmittedWhole
<1> QED
  BY <1>1, <1>2, <1>3

\* A replay that arrives finds its handler idle.
LEMMA ReplayArrivesOK == ASSUME FloorInv, ReplayArrives PROVE Rest
<1> USE DEF FloorInv
<1> DEFINE h == <<sock, "replay">>
           q == Head(toServer).events
           t == [at |-> "next", id |-> None, todo |-> q, took |-> q]
<1>1. Take /\ UNCHANGED <<ledger, toPhone, elsewhere, registered, shiftId>>
  BY DEF ReplayArrives
<1>2. q \in Queue /\ tasks' = [tasks EXCEPT ![h] = t]
  BY ReplayTaken
<1>3. /\ h \in Handlers /\ h[1] <= sock /\ toServer' \in Seq(Frame) /\ link = "up"
  BY <1>1, TakeOK DEF Kinds
<1>4. t \in Task /\ t.at = "next"
  BY <1>2 DEF Task, Queue, Known
<1> HIDE DEF h, t
<1>5. /\ issued' = issued /\ link' = link /\ sock' = sock /\ backlog' = backlog
      /\ phone' = phone /\ store' = store /\ stamp' = stamp /\ toPhone' = toPhone
      /\ shiftId' = shiftId
  BY <1>1 DEF ledger, elsewhere, client
<1>6. WireInv'
  BY <1>3, <1>5, WireKept DEF WireInv
<1>7. PhoneInv'
  BY <1>5, PhoneStays DEF PhoneInv
<1>8. tasks' \in [Handlers -> Task]
  BY <1>2, <1>4 DEF ServerInv
<1>9. ASSUME NEW g \in Handlers
      PROVE  /\ tasks'[g].at # "idle" => g[1] <= sock'
             /\ (g[2] = "replay" /\ tasks'[g].at \in {"calling", "ending"})
                  => tasks'[g].todo # <<>>
  <2>1. CASE g = h
    BY <1>2, <1>3, <1>4, <1>5, <2>1 DEF ServerInv
  <2>2. CASE g # h
    BY <1>2, <1>5, <2>2 DEF ServerInv
  <2> QED
    BY <2>1, <2>2
<1>10. ServerInv'
  BY <1>5, <1>8, <1>9, ServerKept DEF ServerInv
<1> QED
  BY <1>6, <1>7, <1>10 DEF Rest

\* A handler at work is of a connection that was made.
LEMMA AtWork ==
  ASSUME FloorInv, NEW h \in Handlers, tasks[h].at # "idle"
  PROVE  h[1] <= sock /\ toServer \in Seq(Frame) /\ (link = "down" => toServer = <<>>)
BY DEF FloorInv, ServerInv, WireInv

\* The next event of a replay goes through the handler of its kind.
LEMMA ReplayNextOK ==
  ASSUME FloorInv, NEW k \in Socks, ReplayNext(k)
  PROVE  Handled(<<k, "replay">>) /\ Rest
<1> USE DEF FloorInv
<1> DEFINE h == <<k, "replay">>
           e == Head(tasks[h].todo)
<1>1. /\ tasks[h].at = "next" /\ tasks[h].todo # <<>>
      /\ \/ e.event = "shift:start" /\ HandleStart(h, e)
         \/ e.event = "shift:end" /\ HandleEnd(h)
         \/ /\ tasks' = [tasks EXCEPT ![h] = HandlerDone(h)]
            /\ UNCHANGED <<ledger, toPhone, shiftId>>
      /\ UNCHANGED <<toServer, elsewhere, registered>>
  BY DEF ReplayNext
<1>2. h \in Handlers /\ h \in Starters /\ h[2] = "replay"
  BY DEF Handlers, Starters, Kinds
<1>3. tasks[h] \in Task
  BY <1>2 DEF ServerInv
<1>4. e \in Event
  BY <1>1, <1>3, TailOf DEF Task
<1> HIDE DEF h, e
<1>5. Handled(h)
  <2>1. CASE e.event = "shift:start" /\ HandleStart(h, e)
    BY <1>1, <1>2, <1>4, <2>1, HandleStartOK
  <2>2. CASE HandleEnd(h)
    BY <1>1, <1>2, <2>2, HandleEndOK
  <2>3. CASE /\ tasks' = [tasks EXCEPT ![h] = HandlerDone(h)]
             /\ UNCHANGED <<ledger, toPhone, shiftId>>
    <3>1. issued' = issued /\ [Ledger!Next]_ledger /\ toPhone' = toPhone
          /\ shiftId' \in [Socks -> Known]
      BY <2>3 DEF ledger, ServerInv
    <3> QED
      BY <1>1, <1>2, <2>3, <3>1, DoneHandled
  <2> QED
    BY <1>1, <2>1, <2>2, <2>3
<1>6. h[1] <= sock /\ toServer' \in Seq(Frame) /\ (link = "down" => toServer' = <<>>)
  BY <1>1, <1>2, AtWork
<1>7. Rest
  BY <1>1, <1>2, <1>5, <1>6, HandledOK
<1> QED
  BY <1>5, <1>7 DEF h

\* A replay that is gone through is acknowledged, and its handler idle.
LEMMA ReplayDoneOK == ASSUME FloorInv, NEW k \in Socks, ReplayDone(k) PROVE Rest
<1> USE DEF FloorInv
<1> DEFINE h == <<k, "replay">>
<1>1. /\ tasks[h].at = "next"
      /\ toPhone' = Emitted(k, Replayed(tasks[h].took))
      /\ tasks' = [tasks EXCEPT ![h] = Idle]
      /\ UNCHANGED <<ledger, toServer, elsewhere, registered, shiftId>>
  BY DEF ReplayDone
<1>2. h \in Handlers
  BY DEF Handlers, Kinds
<1>3. tasks[h] \in Task
  BY <1>2 DEF ServerInv
<1>4. Replayed(tasks[h].took) \in Message
  BY <1>3, Emissions DEF Task
<1>5. /\ issued' = issued /\ link' = link /\ sock' = sock /\ backlog' = backlog
      /\ phone' = phone /\ store' = store /\ stamp' = stamp /\ toServer' = toServer
      /\ shiftId' = shiftId
  BY <1>1 DEF ledger, elsewhere, client
<1>6. toPhone' \in Seq(Message) /\ (link = "down" => toPhone' = toPhone)
  BY <1>1, <1>4, EmittedOne DEF WireInv
<1>7. WireInv'
  BY <1>5, <1>6, WireKept DEF WireInv
<1>8. PhoneInv'
  BY <1>5, PhoneStays DEF PhoneInv
<1>9. Idle \in Task /\ Idle.at = "idle"
  BY BoundsAssumption DEF Idle, Task, Queue, Known
<1> HIDE DEF h
<1>10. tasks' \in [Handlers -> Task]
  BY <1>1, <1>9 DEF ServerInv
<1>11. ASSUME NEW g \in Handlers
       PROVE  /\ tasks'[g].at # "idle" => g[1] <= sock'
              /\ (g[2] = "replay" /\ tasks'[g].at \in {"calling", "ending"})
                   => tasks'[g].todo # <<>>
  <2>1. CASE g = h
    BY <1>1, <1>9, <2>1 DEF ServerInv
  <2>2. CASE g # h
    BY <1>1, <1>5, <2>2 DEF ServerInv
  <2> QED
    BY <2>1, <2>2
<1>12. ServerInv'
  BY <1>5, <1>10, <1>11, ServerKept DEF ServerInv
<1> QED
  BY <1>7, <1>8, <1>12 DEF Rest

\* The answer to a start names a shift the ledger handed out, or none.
LEMMA StartAnsweredOK ==
  ASSUME FloorInv, NEW h \in Starters, StartAnswered(h) PROVE Handled(h) /\ Rest
<1> USE DEF FloorInv
<1> DEFINE s == calls[h].got
<1>1. /\ tasks[h].at = "calling" /\ Ledger!Return(h)
      /\ tasks' = [tasks EXCEPT ![h] = HandlerDone(h)]
      /\ UNCHANGED <<toServer, elsewhere, registered>>
      /\ \/ shiftId' = [shiftId EXCEPT ![h[1]] = s] /\ toPhone' = Emitted(h[1], OpenState(s))
         \/ shiftId' = [shiftId EXCEPT ![h[1]] = None] /\ toPhone' = Emitted(h[1], RetryState)
  BY DEF StartAnswered
<1>2. h \in Handlers /\ h[1] \in Socks
  BY DEF Handlers, Starters, Kinds
<1>3. s \in Known /\ None \in Known
  BY DEF LedgerInv, Asked, Known
<1> HIDE DEF s
<1>4. issued' = issued /\ [Ledger!Next]_ledger
  BY <1>1 DEF Ledger!Return, Ledger!Next
<1>5. shiftId' \in [Socks -> Known]
  BY <1>1, <1>2, <1>3 DEF ServerInv
<1>6. \E m \in Message : m.kind # "replayed" /\ toPhone' = Emitted(h[1], m)
  BY <1>1, <1>3, AnswerKinds
<1>7. h[2] = "replay" => tasks[h].todo # <<>>
  BY <1>1, <1>2 DEF ServerInv
<1>8. Handled(h)
  BY <1>1, <1>2, <1>4, <1>5, <1>6, <1>7, DoneHandled
<1>9. h[1] <= sock /\ toServer' \in Seq(Frame) /\ (link = "down" => toServer' = <<>>)
  BY <1>1, <1>2, AtWork
<1>10. Rest
  BY <1>1, <1>2, <1>8, <1>9, HandledOK
<1> QED
  BY <1>8, <1>10

\* The answer to an end: the ledger closed an open row, or did nothing.
LEMMA EndAnsweredOK ==
  ASSUME FloorInv, NEW h \in Handlers, h[2] \in {"end", "replay"}, EndAnswered(h)
  PROVE  Handled(h) /\ Rest
<1> USE DEF FloorInv
<1>1. PICK outcome \in CallOutcomes :
        /\ IF outcome \in {"done", "lost"} /\ IsOpen(tasks[h].id)
           THEN Ledger!End(tasks[h].id, "app_closed") ELSE UNCHANGED ledger
        /\ toPhone' = Emitted(h[1], CASE outcome = "done" -> ClosedState
                                      [] outcome = "stop" -> StopState
                                      [] OTHER -> RetryState)
  BY DEF EndAnswered
<1>2. /\ tasks[h].at = "ending" /\ tasks' = [tasks EXCEPT ![h] = HandlerDone(h)]
      /\ UNCHANGED <<toServer, elsewhere, registered, shiftId>>
  BY DEF EndAnswered
<1>3. issued' = issued /\ [Ledger!Next]_ledger
  <2>1. CASE UNCHANGED ledger
    BY <2>1 DEF ledger
  <2>2. CASE IsOpen(tasks[h].id) /\ Ledger!End(tasks[h].id, "app_closed")
    BY <2>2 DEF IsOpen, Ledger!End, Ledger!Next
  <2> QED
    BY <1>1, <2>1, <2>2
<1>4. \E m \in Message : m.kind # "replayed" /\ toPhone' = Emitted(h[1], m)
  <2>1. CASE outcome = "done"
    BY <1>1, <2>1, AnswerKinds
  <2>2. CASE outcome = "stop"
    BY <1>1, <2>2, AnswerKinds
  <2>3. CASE outcome # "done" /\ outcome # "stop"
    BY <1>1, <2>3, AnswerKinds
  <2> QED
    BY <2>1, <2>2, <2>3
<1>5. h[2] = "replay" => tasks[h].todo # <<>>
  BY <1>2 DEF ServerInv
<1>6. shiftId' \in [Socks -> Known]
  BY <1>2 DEF ServerInv
<1>7. Handled(h)
  BY <1>2, <1>3, <1>4, <1>5, <1>6, DoneHandled
<1>8. h[1] <= sock /\ toServer' \in Seq(Frame) /\ (link = "down" => toServer' = <<>>)
  BY <1>2, AtWork
<1>9. Rest
  BY <1>2, <1>7, <1>8, HandledOK
<1> QED
  BY <1>7, <1>9

\* The answer to a heartbeat: a row that is open was beaten, or nothing was.
LEMMA BeatAnsweredOK ==
  ASSUME FloorInv, NEW k \in Socks, BeatAnswered(k) PROVE Handled(<<k, "beat">>) /\ Rest
<1> USE DEF FloorInv
<1> DEFINE h == <<k, "beat">>
           s == tasks[h].id
<1>1. PICK outcome \in CallOutcomes :
       /\ IF outcome \in {"done", "lost"} /\ IsOpen(s)
          THEN Ledger!Heartbeat(s) ELSE UNCHANGED ledger
       /\ IF outcome = "done"
          THEN IF IsOpen(s) THEN UNCHANGED <<shiftId, toPhone>>
               ELSE TellClosed(k)
          ELSE /\ toPhone' = Emitted(k, IF outcome = "stop" THEN StopState ELSE RetryState)
               /\ UNCHANGED shiftId
  BY DEF BeatAnswered
<1>2. /\ tasks[h].at = "beating" /\ tasks' = [tasks EXCEPT ![h] = Idle]
      /\ UNCHANGED <<toServer, elsewhere, registered>>
  BY DEF BeatAnswered
<1>3. h \in Handlers /\ h[1] = k /\ h[2] # "replay"
  BY DEF Handlers, Kinds
<1>4. issued' = issued /\ [Ledger!Next]_ledger
  <2>1. CASE UNCHANGED ledger
    BY <2>1 DEF ledger
  <2>2. CASE IsOpen(s) /\ Ledger!Heartbeat(s)
    BY <2>2 DEF IsOpen, Ledger!Heartbeat, Ledger!Next
  <2> QED
    BY <1>1, <2>1, <2>2
<1>5. /\ shiftId' \in [Socks -> Known]
      /\ \/ toPhone' = toPhone
         \/ \E m \in Message : m.kind # "replayed" /\ toPhone' = Emitted(k, m)
  <2>1. CASE UNCHANGED <<shiftId, toPhone>>
    BY <2>1 DEF ServerInv
  <2>2. CASE TellClosed(k)
    BY <2>2, AnswerKinds DEF TellClosed, ServerInv, Known
  <2>3. CASE /\ toPhone' = Emitted(k, IF outcome = "stop" THEN StopState ELSE RetryState)
             /\ UNCHANGED shiftId
    BY <2>3, AnswerKinds DEF ServerInv
  <2> QED
    BY <1>1, <2>1, <2>2, <2>3
<1> HIDE DEF h
<1>6. tasks' = [tasks EXCEPT ![h] = HandlerDone(h)]
  BY <1>2, <1>3 DEF HandlerDone
<1>7. Handled(h)
  BY <1>3, <1>4, <1>5, <1>6, DoneHandled
<1>8. h[1] <= sock /\ toServer' \in Seq(Frame) /\ (link = "down" => toServer' = <<>>)
  BY <1>2, <1>3, AtWork
<1>9. Rest
  BY <1>2, <1>3, <1>7, <1>8, HandledOK
<1> QED
  BY <1>7, <1>9 DEF h

-----------------------------------------------------------------------------
(* Every step. *)

\* What names ids that were handed out still does when another is.
LEMMA IdsGrow ==
  ASSUME issued \subseteq issued'
  PROVE  /\ Known \subseteq Known' /\ Event \subseteq Event' /\ Queue \subseteq Queue'
         /\ Frame \subseteq Frame' /\ Message \subseteq Message' /\ Phone \subseteq Phone'
         /\ Store \subseteq Store' /\ Task \subseteq Task'
<1>1. Known \subseteq Known'
  BY DEF Known
<1>2. Event \subseteq Event'
  BY <1>1 DEF Event
<1>3. \A q \in Seq(Event) : q \in Seq(Event')
  BY <1>2, SeqGrows
<1>4. Queue \subseteq Queue'
  BY <1>3 DEF Queue
<1>5. Frame \subseteq Frame'
  BY <1>2, <1>4 DEF Frame
<1>6. Message \subseteq Message'
  BY <1>1, <1>4 DEF Message
<1>7. Phone \subseteq Phone'
  BY <1>1, <1>4 DEF Phone
<1>8. Store \subseteq Store'
  BY <1>1, <1>4 DEF Store
<1>9. Task \subseteq Task'
  BY <1>1, <1>3, <1>4 DEF Task
<1> QED
  BY <1>1, <1>2, <1>4, <1>5, <1>6, <1>7, <1>8, <1>9

\* The rest of the floor while the control plane works.
LEMMA LedgerAlone ==
  ASSUME FloorInv, issued \subseteq issued', UNCHANGED <<wire, client, server, stamp>>
  PROVE  Rest
<1> USE DEF FloorInv
<1>1. /\ link' = link /\ sock' = sock /\ backlog' = backlog /\ toServer' = toServer
      /\ toPhone' = toPhone /\ phone' = phone /\ store' = store /\ shiftId' = shiftId
      /\ tasks' = tasks /\ stamp' = stamp
  BY DEF wire, client, server
<1>2. /\ Known \subseteq Known' /\ Frame \subseteq Frame' /\ Message \subseteq Message'
      /\ Phone \subseteq Phone' /\ Store \subseteq Store' /\ Task \subseteq Task'
  BY IdsGrow
<1>3. backlog \in Seq(Frame') /\ toServer \in Seq(Frame') /\ toPhone \in Seq(Message')
  BY <1>2, SeqGrows DEF WireInv
<1>4. WireInv'
  BY <1>1, <1>3 DEF WireInv, Socks
<1>5. PhoneInv'
  BY <1>1, <1>2 DEF PhoneInv, Unstamped
<1>6. shiftId' \in [Socks -> Known'] /\ tasks' \in [Handlers -> Task']
  BY <1>1, <1>2 DEF ServerInv
<1>7. ServerInv'
  BY <1>1, <1>6 DEF ServerInv, Handlers, Socks
<1> QED
  BY <1>4, <1>5, <1>7 DEF Rest

\* The phone and its connection have no hand in the ledger.
LEMMA PhoneNextOK == ASSUME FloorInv, PhoneNext PROVE Rest /\ UNCHANGED ledger
<1>1. Rest
  BY LaunchOK, ConnectOK, StoreAnswersOK, SendBeatOK, PageHideOK, DispatchEndOK,
     BufferStatusOK, ReceiveOK, DropOK, TeardownOK DEF PhoneNext
<1>2. UNCHANGED ledger
  BY DEF PhoneNext, Launch, Connect, StoreAnswers, SendBeat, PageHide, DispatchEnd,
         BufferStatus, Receive, Drop, Teardown
<1> QED
  BY <1>1, <1>2

\* Nor has a frame that arrives, but for what its handler asks.
LEMMA FrameArrivesOK ==
  ASSUME FloorInv, FrameArrives PROVE Rest /\ [Ledger!Next]_ledger
<1>1. CASE RegisterArrives
  BY <1>1, RegisterArrivesOK DEF RegisterArrives
<1>2. CASE StartArrives
  BY <1>2, StartArrivesOK DEF Handled
<1>3. CASE EndArrives
  BY <1>3, EndArrivesOK DEF Handled
<1>4. CASE BeatArrives
  BY <1>4, BeatArrivesOK DEF Handled
<1>5. CASE ReplayArrives
  BY <1>5, ReplayArrivesOK DEF ReplayArrives
<1> QED
  BY <1>1, <1>2, <1>3, <1>4, <1>5 DEF FrameArrives

\* A handler at work, and the call it waits for.
LEMMA HandlerStepOK ==
  ASSUME FloorInv, NEW h \in Handlers, HandlerStep(h) PROVE Rest /\ [Ledger!Next]_ledger
<1>1. CASE h \in Starters /\ StartRuns(h)
  <2>1. Ledger!StartStep(h) /\ UNCHANGED <<wire, client, server, allowed, stamp>>
    BY <1>1 DEF StartRuns
  <2>2. issued \subseteq issued'
    BY <1>1, <2>1, StartStepOK DEF FloorInv
  <2>3. Rest
    BY <2>1, <2>2, LedgerAlone
  <2> QED
    BY <1>1, <2>1, <2>3 DEF Ledger!Next
<1>2. CASE h \in Starters /\ StartAnswered(h)
  BY <1>2, StartAnsweredOK DEF Handled
<1>3. CASE h[2] \in {"end", "replay"} /\ EndAnswered(h)
  BY <1>3, EndAnsweredOK DEF Handled
<1>4. CASE h[2] = "beat" /\ BeatAnswered(h[1])
  <2>1. h[1] \in Socks
    BY DEF Handlers
  <2> QED
    BY <1>4, <2>1, BeatAnsweredOK DEF Handled
<1> QED
  BY <1>1, <1>2, <1>3, <1>4 DEF HandlerStep

\* Every step of the floor keeps its types and is a move of the ledger, or none.
LEMMA FloorStep ==
  ASSUME FloorInv, [Next]_vars PROVE FloorInv' /\ [Ledger!Next]_ledger
<1>1. Rest /\ [Ledger!Next]_ledger
  <2>1. CASE UNCHANGED vars
    <3>1. issued \subseteq issued' /\ UNCHANGED <<wire, client, server, stamp>>
          /\ UNCHANGED ledger
      BY <2>1 DEF vars, ledger
    <3> QED
      BY <3>1, LedgerAlone
  <2>2. ASSUME NEW k \in Socks, ReplayNext(k) PROVE Rest /\ [Ledger!Next]_ledger
    BY <2>2, ReplayNextOK DEF Handled
  <2>3. ASSUME NEW k \in Socks, ReplayDone(k) PROVE Rest /\ [Ledger!Next]_ledger
    BY <2>3, ReplayDoneOK DEF ReplayDone
  <2>4. CASE PhoneNext
    BY <2>4, PhoneNextOK
  <2>5. CASE FrameArrives
    BY <2>5, FrameArrivesOK
  <2>6. ASSUME NEW h \in Handlers, HandlerStep(h) PROVE Rest /\ [Ledger!Next]_ledger
    BY <2>6, HandlerStepOK
  <2>7. CASE Read
    <3>1. Ledger!Sweep /\ UNCHANGED <<wire, client, server, allowed, stamp>>
      BY <2>7 DEF Read
    <3>2. issued \subseteq issued'
      BY <3>1 DEF Ledger!Sweep
    <3> QED
      BY <3>1, <3>2, LedgerAlone DEF Ledger!Next
  <2>8. CASE Tick
    <3>1. Ledger!Tick /\ UNCHANGED <<wire, client, server, allowed, stamp>>
      BY <2>8 DEF Tick
    <3>2. issued \subseteq issued'
      BY <3>1 DEF Ledger!Tick
    <3> QED
      BY <3>1, <3>2, LedgerAlone DEF Ledger!Next
  <2>9. CASE Switch
    <3>1. UNCHANGED <<ledger, wire, client, server, stamp>>
      BY <2>9 DEF Switch
    <3>2. issued \subseteq issued'
      BY <3>1 DEF ledger
    <3> QED
      BY <3>1, <3>2, LedgerAlone
  <2> QED
    BY <2>1, <2>2, <2>3, <2>4, <2>5, <2>6, <2>7, <2>8, <2>9 DEF Next
<1>2. LedgerInv'
  BY <1>1, LedgerStepOK DEF FloorInv
<1> QED
  BY <1>1, <1>2 DEF FloorInv, Rest

\* A floor nobody has walked onto.
LEMMA FloorInit == Init => FloorInv /\ Ledger!Init
<1> SUFFICES ASSUME Init PROVE FloorInv /\ Ledger!Init
  OBVIOUS
<1>1. Ledger!Init /\ None \in Known /\ <<>> \in Queue /\ <<>> \in Seq(Event)
  BY BoundsAssumption DEF Init, Known, Queue
<1>2. LedgerInv
  <2>1. Ledger!NoCall \in Asked
    BY DEF Ledger!NoCall, Asked, Known, Ledger!Steps
  <2> QED
    BY <1>1, <2>1 DEF Ledger!Init, LedgerInv
<1>3. WireInv
  BY BoundsAssumption DEF Init, WireInv
<1>4. PhoneInv
  <2>1. 0 \in 0 .. MaxSock
    BY BoundsAssumption
  <2> QED
    BY <1>1, <2>1 DEF Init, PhoneInv, Phone, Store, NoPhone, Unstamped
<1>5. Idle \in Task
  BY <1>1 DEF Idle, Task
<1>6. ServerInv
  BY <1>1, <1>5 DEF Init, ServerInv, Idle
<1> QED
  BY <1>1, <1>2, <1>3, <1>4, <1>6 DEF FloorInv

\* The phone, the wire and the handlers keep their types, every id in them was
\* handed out by the ledger, no handler is of a connection that was not made,
\* and a start is stamped at most once for each connection.
THEOREM FloorTyped == Spec => []FloorInv
<1>1. Init => FloorInv
  BY FloorInit
<1>2. FloorInv /\ [Next]_vars => FloorInv'
  BY FloorStep
<1> QED
  BY <1>1, <1>2, PTL DEF Spec

\* The phone, the socket and the realtime server, whatever goes wrong between
\* them, do to the shift table only what start(), heartbeat(), end() and the
\* sweep of shifts.py do for callers of their own: the floor implements the
\* ledger, so all that is proved of ShiftLedger's Spec holds of its table.
THEOREM FloorKeepsLedger == Spec => Ledger!Spec
<1>1. Init => FloorInv /\ Ledger!Init
  BY FloorInit
<1>2. FloorInv /\ [Next]_vars => FloorInv' /\ [Ledger!Next]_ledger
  BY FloorStep
<1>3. FloorInv /\ [Next]_vars => FloorInv' /\ [Ledger!Next]_(Ledger!vars)
  BY <1>2 DEF ledger, Ledger!vars
<1> QED
  BY <1>1, <1>3, PTL DEF Spec, Ledger!Spec

-----------------------------------------------------------------------------
(* The buffer.  An acknowledgement clears all of it, so the argument is     *)
(* that behind every acknowledgement of this connection, on its way or to   *)
(* come, there is a replay that carries all the store holds.               *)

Covers(events, queue) == \A i \in DOMAIN queue : Holds(events, queue[i])

\* A replay on the wire that carries the whole queue.
Sent(frames, queue) ==
  \E j \in DOMAIN frames :
    frames[j].event = "telemetry:replay" /\ Covers(frames[j].events, queue)

\* No replay is without such a one behind it, or is one itself.
Chased(frames, queue) ==
  \A i \in DOMAIN frames : frames[i].event = "telemetry:replay" =>
    \E j \in DOMAIN frames : /\ j >= i /\ frames[j].event = "telemetry:replay"
                             /\ Covers(frames[j].events, queue)

\* And no acknowledgement, if none is to come.
Acked(messages, queue) ==
  \A i \in DOMAIN messages : messages[i].kind = "replayed" =>
    \E j \in DOMAIN messages : /\ j >= i /\ messages[j].kind = "replayed"
                               /\ Covers(messages[j].took, queue)

UnderWay(frames, task, messages, queue) ==
  /\ Chased(frames, queue)
  /\ task.at # "idle" => Covers(task.took, queue) \/ Sent(frames, queue)
  /\ \/ task.at # "idle" /\ Covers(task.took, queue)
     \/ Sent(frames, queue)
     \/ Acked(messages, queue)

Replayer == tasks[<<sock, "replay">>]

\* A page that has read the store and the store hold the same events; one the
\* tenant has stopped holds none, and nor does its store.
BufferInv ==
  /\ phone.loaded = "yes" => phone.queue = store.queue
  /\ phone.stopped => phone.queue = <<>> /\ store.queue = <<>>
  /\ (phone.loaded = "yes" /\ link = "up") =>
       UnderWay(toServer, Replayer, toPhone, store.queue)

\* What BufferKept says of one step.
Kept ==
  phone.loaded = "yes" => \A i \in DOMAIN store.queue :
    \/ Holds(store'.queue, store.queue[i])
    \/ Hears("replayed") /\ \/ Holds(Head(toPhone).took, store.queue[i])
                             \/ \E events \in Unanswered' : Holds(events, store.queue[i])
    \/ Hears("stop")
    \/ Len(store.queue) = MaxQueued

-----------------------------------------------------------------------------
(* What is under way, as frames, handlers and answers come and go.         *)

\* Nothing has to be carried for a queue that is empty.
LEMMA NothingToCarry ==
  ASSUME NEW frames \in Seq(Frame), NEW task, NEW messages \in Seq(Message)
  PROVE  UnderWay(frames, task, messages, <<>>)
<1>1. \A events : Covers(events, <<>>)
  BY DEF Covers
<1>2. \A i \in DOMAIN frames : i >= i
  OBVIOUS
<1>3. Chased(frames, <<>>)
  BY <1>1, <1>2 DEF Chased
<1>4. \A i \in DOMAIN messages : i >= i
  OBVIOUS
<1>5. Acked(messages, <<>>)
  BY <1>1, <1>4 DEF Acked
<1> QED
  BY <1>1, <1>3, <1>5 DEF UnderWay

\* A frame that is no replay is sent.
LEMMA FrameSent ==
  ASSUME NEW frames \in Seq(Frame), NEW f \in Frame, f.event # "telemetry:replay",
         NEW task, NEW messages, NEW queue, UnderWay(frames, task, messages, queue)
  PROVE  UnderWay(Append(frames, f), task, messages, queue)
<1> DEFINE longer == Append(frames, f)
<1>1. /\ Len(frames) \in Nat
      /\ DOMAIN frames = 1 .. Len(frames) /\ DOMAIN longer = 1 .. Len(frames) + 1
      /\ \A i \in DOMAIN frames : longer[i] = frames[i]
      /\ longer[Len(frames) + 1] = f
  BY AppendTo
<1> HIDE DEF longer
<1>2. \A i \in DOMAIN longer : i \in DOMAIN frames \/ longer[i] = f
  BY <1>1
<1>3. \A i \in DOMAIN frames : i \in DOMAIN longer
  BY <1>1
<1>4. Sent(frames, queue) => Sent(longer, queue)
  BY <1>1, <1>3 DEF Sent
<1>5. Chased(longer, queue)
  <2> SUFFICES ASSUME NEW i \in DOMAIN longer, longer[i].event = "telemetry:replay"
               PROVE  \E j \in DOMAIN longer :
                        /\ j >= i /\ longer[j].event = "telemetry:replay"
                        /\ Covers(longer[j].events, queue)
    BY DEF Chased
  <2>1. i \in DOMAIN frames /\ frames[i].event = "telemetry:replay"
    BY <1>1, <1>2
  <2>2. PICK j \in DOMAIN frames : /\ j >= i /\ frames[j].event = "telemetry:replay"
                                   /\ Covers(frames[j].events, queue)
    BY <2>1 DEF UnderWay, Chased
  <2> QED
    BY <1>1, <1>3, <2>2
<1> QED
  BY <1>4, <1>5 DEF UnderWay, longer

\* Of a covering frame, unless it is taken, one is left on the wire.
LEMMA SentStays ==
  ASSUME NEW frames \in Seq(Frame), frames # <<>>, NEW queue, NEW j \in DOMAIN frames,
         frames[j].event = "telemetry:replay", Covers(frames[j].events, queue), j # 1
  PROVE  Sent(Tail(frames), queue)
<1>1. j \in 1 .. Len(frames)
  OBVIOUS
<1>2. j - 1 \in DOMAIN Tail(frames) /\ Tail(frames)[j - 1] = frames[j]
  BY <1>1, TailOf
<1> QED
  BY <1>2 DEF Sent

\* The frames left are still chased.
LEMMA ChasedStays ==
  ASSUME NEW frames \in Seq(Frame), frames # <<>>, NEW queue, Chased(frames, queue)
  PROVE  Chased(Tail(frames), queue)
<1> DEFINE rest == Tail(frames)
<1>1. /\ DOMAIN frames = 1 .. Len(frames) /\ Len(frames) \in Nat
      /\ DOMAIN rest = 1 .. Len(frames) - 1
      /\ \A i \in 1 .. Len(frames) : i # 1 => i - 1 \in DOMAIN rest /\ rest[i - 1] = frames[i]
      /\ \A i \in DOMAIN rest : i + 1 \in 1 .. Len(frames) /\ rest[i] = frames[i + 1]
  BY TailOf
<1> HIDE DEF rest
<1> SUFFICES ASSUME NEW i \in DOMAIN rest, rest[i].event = "telemetry:replay"
             PROVE  \E j \in DOMAIN rest : /\ j >= i /\ rest[j].event = "telemetry:replay"
                                           /\ Covers(rest[j].events, queue)
  BY DEF Chased, rest
<1>2. i + 1 \in DOMAIN frames /\ frames[i + 1].event = "telemetry:replay" /\ i \in Nat \ {0}
  BY <1>1
<1>3. PICK j \in DOMAIN frames : /\ j >= i + 1 /\ frames[j].event = "telemetry:replay"
                                 /\ Covers(frames[j].events, queue)
  BY <1>2 DEF Chased
<1>4. j \in 1 .. Len(frames) /\ j # 1 /\ j - 1 >= i
  BY <1>1, <1>2, <1>3
<1>5. j - 1 \in DOMAIN rest /\ rest[j - 1] = frames[j]
  BY <1>1, <1>4
<1> QED
  BY <1>3, <1>4, <1>5

\* A frame that is no replay is taken.
LEMMA FrameTaken ==
  ASSUME NEW frames \in Seq(Frame), frames # <<>>, Head(frames).event # "telemetry:replay",
         NEW task, NEW messages, NEW queue, UnderWay(frames, task, messages, queue)
  PROVE  UnderWay(Tail(frames), task, messages, queue)
<1>1. Head(frames) = frames[1]
  BY TailOf
<1>2. Sent(frames, queue) => Sent(Tail(frames), queue)
  <2> SUFFICES ASSUME NEW j \in DOMAIN frames, frames[j].event = "telemetry:replay",
                      Covers(frames[j].events, queue)
               PROVE  Sent(Tail(frames), queue)
    BY DEF Sent
  <2>1. j # 1
    BY <1>1
  <2> QED
    BY <2>1, SentStays
<1>3. Chased(Tail(frames), queue)
  BY ChasedStays DEF UnderWay
<1> QED
  BY <1>2, <1>3 DEF UnderWay

\* A replay is taken, and its handler goes to work on it.
LEMMA ReplayToWork ==
  ASSUME NEW frames \in Seq(Frame), frames # <<>>, Head(frames).event = "telemetry:replay",
         NEW task, NEW messages, NEW queue, UnderWay(frames, task, messages, queue),
         NEW work, work.at # "idle", work.took = Head(frames).events
  PROVE  UnderWay(Tail(frames), work, messages, queue)
<1>1. Head(frames) = frames[1] /\ 1 \in DOMAIN frames
  BY TailOf
<1>2. Covers(work.took, queue) \/ Sent(Tail(frames), queue)
  <2>1. PICK j \in DOMAIN frames : /\ j >= 1 /\ frames[j].event = "telemetry:replay"
                                   /\ Covers(frames[j].events, queue)
    BY <1>1 DEF UnderWay, Chased
  <2>2. CASE j = 1
    BY <1>1, <2>1, <2>2
  <2>3. CASE j # 1
    BY <2>1, <2>3, SentStays
  <2> QED
    BY <2>2, <2>3
<1>3. Chased(Tail(frames), queue)
  BY ChasedStays DEF UnderWay
<1> QED
  BY <1>2, <1>3 DEF UnderWay

\* The handler of a replay goes on with what it took.
LEMMA WorkGoesOn ==
  ASSUME NEW frames, NEW task, NEW messages, NEW queue,
         UnderWay(frames, task, messages, queue),
         NEW work, work.took = task.took, work.at # "idle" <=> task.at # "idle"
  PROVE  UnderWay(frames, work, messages, queue)
BY DEF UnderWay

\* An answer that is no acknowledgement goes to the phone.
LEMMA AnswerSent ==
  ASSUME NEW messages \in Seq(Message), NEW m \in Message, m.kind # "replayed",
         NEW frames, NEW task, NEW queue, UnderWay(frames, task, messages, queue)
  PROVE  UnderWay(frames, task, Append(messages, m), queue)
<1> DEFINE longer == Append(messages, m)
<1>1. /\ Len(messages) \in Nat
      /\ DOMAIN messages = 1 .. Len(messages) /\ DOMAIN longer = 1 .. Len(messages) + 1
      /\ \A i \in DOMAIN messages : longer[i] = messages[i]
      /\ longer[Len(messages) + 1] = m
  BY AppendTo
<1> HIDE DEF longer
<1>2. \A i \in DOMAIN longer : i \in DOMAIN messages \/ longer[i] = m
  BY <1>1
<1>3. \A i \in DOMAIN messages : i \in DOMAIN longer
  BY <1>1
<1>4. ASSUME Acked(messages, queue) PROVE Acked(longer, queue)
  <2> SUFFICES ASSUME NEW i \in DOMAIN longer, longer[i].kind = "replayed"
               PROVE  \E j \in DOMAIN longer : /\ j >= i /\ longer[j].kind = "replayed"
                                               /\ Covers(longer[j].took, queue)
    BY DEF Acked
  <2>1. i \in DOMAIN messages /\ messages[i].kind = "replayed"
    BY <1>1, <1>2
  <2>2. PICK j \in DOMAIN messages : /\ j >= i /\ messages[j].kind = "replayed"
                                     /\ Covers(messages[j].took, queue)
    BY <1>4, <2>1 DEF Acked
  <2> QED
    BY <1>1, <1>3, <2>2
<1> QED
  BY <1>4 DEF UnderWay, longer

\* The handler is done with its replay and acknowledges it.
LEMMA WorkAcked ==
  ASSUME NEW messages \in Seq(Message), NEW frames, NEW task, NEW queue,
         UnderWay(frames, task, messages, queue), task.at # "idle", task.took \in Queue,
         NEW work, work.at = "idle"
  PROVE  UnderWay(frames, work, Append(messages, Replayed(task.took)), queue)
<1> DEFINE m == Replayed(task.took)
           longer == Append(messages, m)
<1>0. m \in Message /\ m.kind = "replayed" /\ m.took = task.took
  BY Emissions DEF Replayed
<1> HIDE DEF m
<1>1. /\ Len(messages) \in Nat /\ DOMAIN longer = 1 .. Len(messages) + 1
      /\ longer[Len(messages) + 1] = m
  BY <1>0, AppendTo
<1> HIDE DEF longer
<1>2. ASSUME Covers(task.took, queue) PROVE Acked(longer, queue)
  <2>1. Len(messages) + 1 \in DOMAIN longer
        /\ \A i \in DOMAIN longer : Len(messages) + 1 >= i
    BY <1>1
  <2> QED
    BY <1>0, <1>1, <1>2, <2>1 DEF Acked
<1> QED
  BY <1>2 DEF UnderWay, longer, m

\* The phone hears an answer.
LEMMA AnswerHeard ==
  ASSUME NEW messages \in Seq(Message), messages # <<>>,
         NEW frames, NEW task, NEW queue, UnderWay(frames, task, messages, queue)
  PROVE  UnderWay(frames, task, Tail(messages), queue)
<1> DEFINE rest == Tail(messages)
<1>1. /\ DOMAIN messages = 1 .. Len(messages) /\ Len(messages) \in Nat
      /\ DOMAIN rest = 1 .. Len(messages) - 1
      /\ \A i \in 1 .. Len(messages) :
           i # 1 => i - 1 \in DOMAIN rest /\ rest[i - 1] = messages[i]
      /\ \A i \in DOMAIN rest : i + 1 \in 1 .. Len(messages) /\ rest[i] = messages[i + 1]
  BY TailOf
<1> HIDE DEF rest
<1>2. ASSUME Acked(messages, queue) PROVE Acked(rest, queue)
  <2> SUFFICES ASSUME NEW i \in DOMAIN rest, rest[i].kind = "replayed"
               PROVE  \E j \in DOMAIN rest : /\ j >= i /\ rest[j].kind = "replayed"
                                             /\ Covers(rest[j].took, queue)
    BY DEF Acked
  <2>1. i + 1 \in DOMAIN messages /\ messages[i + 1].kind = "replayed" /\ i \in Nat \ {0}
    BY <1>1
  <2>2. PICK j \in DOMAIN messages : /\ j >= i + 1 /\ messages[j].kind = "replayed"
                                     /\ Covers(messages[j].took, queue)
    BY <1>2, <2>1 DEF Acked
  <2>3. j \in 1 .. Len(messages) /\ j # 1 /\ j - 1 >= i
    BY <1>1, <2>1, <2>2
  <2>4. j - 1 \in DOMAIN rest /\ rest[j - 1] = messages[j]
    BY <1>1, <2>3
  <2> QED
    BY <2>2, <2>3, <2>4
<1> QED
  BY <1>2 DEF UnderWay, rest

\* A connection that opens ends with a replay of all there is.
LEMMA LastReplay ==
  ASSUME NEW frames \in Seq(Frame), NEW start \in Seq(Frame), NEW queue \in Queue,
         \A i \in DOMAIN start : start[i].event # "telemetry:replay",
         NEW task, NEW messages
  PROVE  UnderWay(frames \o <<Replay(queue)>> \o start, task, messages, queue)
<1> DEFINE out == frames \o <<Replay(queue)>> \o start
           last == Len(frames) + 1
<1>1. Replay(queue).event = "telemetry:replay" /\ Replay(queue).events = queue
      /\ Replay(queue) \in Frame
  BY Emissions DEF Replay
<1>2. Covers(queue, queue)
  BY DEF Covers, Holds
<1>3. /\ Len(frames) \in Nat /\ Len(start) \in Nat /\ DOMAIN start = 1 .. Len(start)
      /\ DOMAIN out = 1 .. Len(frames) + 1 + Len(start)
  BY <1>1
<1>4. out[last] = Replay(queue)
  BY <1>1, <1>3
<1>5. \A i \in DOMAIN out : i > last => i - last \in DOMAIN start /\ out[i] = start[i - last]
  BY <1>1, <1>3
<1>6. last \in DOMAIN out
  BY <1>3
<1> HIDE DEF out
<1>7. Sent(out, queue)
  BY <1>1, <1>2, <1>4, <1>6 DEF Sent
<1>8. \A i \in DOMAIN out : out[i].event = "telemetry:replay" => last >= i
  BY <1>3, <1>5
<1>9. Chased(out, queue)
  <2> HIDE DEF last
  <2> QED
    BY <1>1, <1>2, <1>4, <1>6, <1>8 DEF Chased
<1> QED
  BY <1>7, <1>9 DEF UnderWay, out

-----------------------------------------------------------------------------
(* The buffer, step by step. *)

BufferStep == BufferInv' /\ Kept

\* A store that is not written forgets nothing.
LEMMA StoreAlone == ASSUME store'.queue = store.queue PROVE Kept
BY DEF Kept, Holds

\* The server has no hand in the buffer, only in what is under way.
LEMMA ServerBuffer ==
  ASSUME BufferInv, phone' = phone, store' = store, link' = link, sock' = sock,
         (phone.loaded = "yes" /\ link = "up") =>
            UnderWay(toServer', tasks'[<<sock, "replay">>], toPhone', store.queue)
  PROVE  BufferStep
<1>1. Kept
  BY StoreAlone
<1>2. BufferInv'
  BY DEF BufferInv, Replayer
<1> QED
  BY <1>1, <1>2 DEF BufferStep

\* A handler that goes on, or a live frame that is taken.
LEMMA HandledBuffer ==
  ASSUME FloorInv, BufferInv, NEW h \in Handlers, Handled(h), UNCHANGED elsewhere,
         \/ toServer' = toServer /\ tasks[h].at # "idle"
         \/ Take /\ Head(toServer).event # "telemetry:replay" /\ h[2] # "replay"
  PROVE  BufferStep
<1> DEFINE r == <<sock, "replay">>
<1>1. phone' = phone /\ store' = store /\ link' = link /\ sock' = sock
  BY DEF elsewhere, client
<1>2. ASSUME phone.loaded = "yes", link = "up"
      PROVE  UnderWay(toServer', tasks'[r], toPhone', store.queue)
  <2>1. r \in Handlers /\ UnderWay(toServer, tasks[r], toPhone, store.queue)
    BY <1>2 DEF FloorInv, WireInv, Handlers, Kinds, BufferInv, Replayer
  <2>2. toServer \in Seq(Frame) /\ toPhone \in Seq(Message) /\ tasks \in [Handlers -> Task]
    BY DEF FloorInv, WireInv, ServerInv
  <2>3. UnderWay(toServer', tasks[r], toPhone, store.queue)
    <3>1. CASE toServer' = toServer
      BY <2>1, <3>1
    <3>2. CASE Take /\ Head(toServer).event # "telemetry:replay"
      BY <2>1, <2>2, <3>2, FrameTaken DEF Take
    <3> QED
      BY <3>1, <3>2
  <2>4. tasks'[r].took = tasks[r].took /\ (tasks'[r].at # "idle" <=> tasks[r].at # "idle")
    <3>1. PICK t \in Task :
            /\ tasks' = [tasks EXCEPT ![h] = t]
            /\ h[2] = "replay" => t.at # "idle" /\ t.took = tasks[h].took
      BY DEF Handled
    <3>2. CASE h = r
      BY <2>1, <2>2, <3>1, <3>2
    <3>3. CASE h # r
      BY <2>1, <2>2, <3>1, <3>3
    <3> QED
      BY <3>2, <3>3
  <2> HIDE DEF r
  <2>5. UnderWay(toServer', tasks'[r], toPhone, store.queue)
    BY <2>3, <2>4, WorkGoesOn
  <2>6. CASE toPhone' = toPhone
    BY <2>5, <2>6
  <2>7. ASSUME NEW m \in Message, m.kind # "replayed", toPhone' = Emitted(h[1], m)
        PROVE  UnderWay(toServer', tasks'[r], toPhone', store.queue)
    <3>1. toPhone' = toPhone \/ toPhone' = Append(toPhone, m)
      BY <2>7 DEF Emitted
    <3> QED
      BY <2>2, <2>5, <2>7, <3>1, AnswerSent
  <2> QED
    BY <2>6, <2>7 DEF Handled
<1> QED
  BY <1>1, <1>2, ServerBuffer

\* A replay that arrives goes to work.
LEMMA ReplayArrivesBuffer ==
  ASSUME FloorInv, BufferInv, ReplayArrives PROVE BufferStep
<1> DEFINE r == <<sock, "replay">>
           work == [at |-> "next", id |-> None, todo |-> Head(toServer).events,
                    took |-> Head(toServer).events]
<1>1. Take /\ UNCHANGED <<toPhone, elsewhere>>
  BY DEF ReplayArrives
<1>2. Head(toServer).event = "telemetry:replay" /\ tasks' = [tasks EXCEPT ![r] = work]
  BY ReplayTaken
<1>3. r \in Handlers
  BY <1>1, TakeOK DEF Kinds
<1>4. work.at # "idle" /\ work.took = Head(toServer).events
  OBVIOUS
<1>5. toServer \in Seq(Frame) /\ tasks \in [Handlers -> Task]
  BY DEF FloorInv, WireInv, ServerInv
<1> HIDE DEF work
<1>6. tasks'[r] = work
  BY <1>2, <1>3, <1>5
<1>7. ASSUME phone.loaded = "yes", link = "up"
      PROVE  UnderWay(toServer', tasks'[r], toPhone', store.queue)
  <2>1. UnderWay(toServer, tasks[r], toPhone, store.queue)
    BY <1>7 DEF BufferInv, Replayer
  <2> HIDE DEF r
  <2>2. UnderWay(Tail(toServer), work, toPhone, store.queue)
    BY <1>1, <1>2, <1>4, <1>5, <2>1, ReplayToWork DEF Take
  <2> QED
    BY <1>1, <1>6, <2>2 DEF Take
<1>8. phone' = phone /\ store' = store /\ link' = link /\ sock' = sock
  BY <1>1 DEF elsewhere, client
<1> QED
  BY <1>7, <1>8, ServerBuffer

\* A replay that is gone through is acknowledged with what it took.
LEMMA ReplayDoneBuffer ==
  ASSUME FloorInv, BufferInv, NEW k \in Socks, ReplayDone(k) PROVE BufferStep
<1> DEFINE h == <<k, "replay">>
           r == <<sock, "replay">>
<1>1. /\ tasks[h].at = "next" /\ toServer' = toServer
      /\ toPhone' = Emitted(k, Replayed(tasks[h].took))
      /\ tasks' = [tasks EXCEPT ![h] = Idle]
      /\ UNCHANGED elsewhere
  BY DEF ReplayDone
<1>2. phone' = phone /\ store' = store /\ link' = link /\ sock' = sock
  BY <1>1 DEF elsewhere, client
<1>3. tasks \in [Handlers -> Task] /\ toPhone \in Seq(Message) /\ h \in Handlers
  BY DEF FloorInv, WireInv, ServerInv, Handlers, Kinds
<1>4. Idle.at = "idle"
  BY DEF Idle
<1>5. ASSUME phone.loaded = "yes", link = "up"
      PROVE  UnderWay(toServer', tasks'[r], toPhone', store.queue)
  <2>1. UnderWay(toServer, tasks[r], toPhone, store.queue) /\ r \in Handlers
    BY <1>5 DEF FloorInv, WireInv, Handlers, Kinds, BufferInv, Replayer
  <2>2. CASE k = sock
    <3>1. tasks'[r] = Idle /\ toPhone' = Append(toPhone, Replayed(tasks[r].took))
          /\ tasks[r].at # "idle" /\ tasks[r].took \in Queue
      BY <1>1, <1>3, <1>5, <2>2 DEF Emitted, Task
    <3> HIDE DEF r
    <3>2. UnderWay(toServer, Idle, Append(toPhone, Replayed(tasks[r].took)), store.queue)
      BY <1>3, <1>4, <2>1, <3>1, WorkAcked
    <3> QED
      BY <1>1, <3>1, <3>2
  <2>3. CASE k # sock
    <3>1. tasks'[r] = tasks[r] /\ toPhone' = toPhone
      BY <1>1, <1>3, <2>1, <2>3 DEF Emitted
    <3> QED
      BY <1>1, <2>1, <3>1
  <2> QED
    BY <2>2, <2>3
<1> QED
  BY <1>2, <1>5, ServerBuffer

\* What a connection sends as it opens, of the buffer.
LEMMA FlushedBuffer ==
  ASSUME NEW p \in Phone, NEW up \in BOOLEAN, NEW frames \in Seq(Frame),
         store \in Store, stamp \in Nat, stamp + 1 <= MaxSock, FlushAndOpen(p, up, frames),
         p.queue = store.queue \/ up, NEW task, NEW messages \in Seq(Message)
  PROVE  /\ phone'.stopped = p.stopped /\ phone'.loaded = p.loaded
         /\ up => /\ phone'.queue = p.queue /\ store'.queue = store.queue
                  /\ UnderWay(toServer', task, messages, p.queue)
         /\ ~up => /\ phone'.queue = store'.queue
                   /\ p.stopped => phone'.queue = p.queue
<1> DEFINE replay == IF p.queue # <<>> THEN <<Replay(p.queue)>> ELSE <<>>
           start == IF Opens(p) /\ up THEN <<StartOf(p)>> ELSE <<>>
           queue == IF Opens(p) /\ ~up THEN Buffered(p.queue, StartOf(p)) ELSE p.queue
           out == frames \o replay \o start
<1>1. StartOf(p) \in Event /\ StartOf(p) \in Frame
  BY StartIsEvent, Emissions
<1>2. p.queue \in Queue /\ Replay(p.queue) \in Frame
  BY Emissions DEF Phone
<1>3. start \in Seq(Frame) /\ \A i \in DOMAIN start : start[i].event # "telemetry:replay"
  <2>1. StartOf(p).event # "telemetry:replay"
    BY DEF StartOf, StartEvent
  <2>2. start = <<StartOf(p)>> \/ start = <<>>
    OBVIOUS
  <2> HIDE DEF start
  <2>3. CASE start = <<StartOf(p)>>
    BY <1>1, <2>1, <2>3
  <2>4. CASE start = <<>>
    BY <2>4
  <2> QED
    BY <2>2, <2>3, <2>4
<1>4. /\ phone' = [p EXCEPT !.opening = @ \/ Opens(p), !.queue = queue,
                            !.asked = IF Opens(p) THEN sock' ELSE @]
      /\ store' = [store EXCEPT !.queue = IF queue # p.queue THEN queue ELSE @]
      /\ IF up THEN toServer' = out /\ backlog' = <<>>
         ELSE backlog' = out /\ UNCHANGED toServer
  BY DEF FlushAndOpen
<1>5. up => queue = p.queue
  OBVIOUS
<1>6. p.stopped => queue = p.queue
  BY DEF Opens
<1> HIDE DEF queue, start
<1>7. phone'.stopped = p.stopped /\ phone'.loaded = p.loaded /\ phone'.queue = queue
  BY <1>4 DEF Phone
<1>8. store'.queue = IF queue # p.queue THEN queue ELSE store.queue
  BY <1>4 DEF Store
<1>9. UnderWay(out, task, messages, p.queue)
  <2>1. CASE p.queue # <<>>
    <3>1. out = frames \o <<Replay(p.queue)>> \o start
      BY <2>1
    <3> HIDE DEF out
    <3> QED
      BY <1>2, <1>3, <3>1, LastReplay
  <2>2. CASE p.queue = <<>>
    <3>1. replay \in Seq(Frame)
      BY <2>2
    <3> HIDE DEF replay
    <3>2. out \in Seq(Frame)
      BY <1>3, <3>1
    <3> HIDE DEF out
    <3> QED
      BY <2>2, <3>2, NothingToCarry
  <2> QED
    BY <2>1, <2>2
<1> HIDE DEF out
<1> QED
  BY <1>4, <1>5, <1>6, <1>7, <1>8, <1>9

\* A connection opens with all the page has in store, if it has read it.
LEMMA ConnectBuffer == ASSUME FloorInv, BufferInv, Connect PROVE BufferStep
<1> USE DEF FloorInv
<1> DEFINE frames == Append(backlog, Register)
<1>1. frames \in Seq(Frame) /\ <<>> \in Seq(Message)
  BY Emissions DEF WireInv
<1>2. /\ sock' = sock + 1 /\ link' = "up" /\ toPhone' = <<>> /\ link = "down"
      /\ sock \in Nat /\ sock + 1 <= MaxSock
  BY BoundsAssumption DEF Connect, WireInv
<1>3. stamp \in Nat /\ stamp + 1 <= MaxSock
  <2>1. stamp \in Nat /\ stamp + Unstamped <= sock /\ Unstamped \in {0, 1}
    BY DEF PhoneInv, Unstamped
  <2> QED
    BY <2>1, <1>2, BoundsAssumption
<1>4. phone \in Phone /\ store \in Store
  BY DEF PhoneInv
<1> HIDE DEF frames
<1>5. CASE /\ phone.stopped
           /\ toServer' = frames /\ backlog' = <<>>
           /\ UNCHANGED <<phone, store, stamp>>
  <2>1. store.queue = <<>> /\ phone.queue = <<>>
    BY <1>5 DEF BufferInv
  <2>2. UnderWay(toServer', Replayer', toPhone', store'.queue)
    BY <1>1, <1>2, <1>5, <2>1, NothingToCarry
  <2>3. BufferInv'
    BY <1>5, <2>1, <2>2 DEF BufferInv
  <2> QED
    BY <1>5, <2>3, StoreAlone DEF BufferStep
<1>6. CASE /\ ~phone.stopped /\ phone.loaded = "no"
           /\ phone' = [phone EXCEPT !.loaded = "loading"]
           /\ toServer' = frames /\ backlog' = <<>>
           /\ UNCHANGED <<store, stamp>>
  <2>1. phone'.loaded = "loading" /\ phone'.stopped = phone.stopped
    BY <1>4, <1>6 DEF Phone
  <2>2. BufferInv'
    BY <1>6, <2>1 DEF BufferInv
  <2> QED
    BY <1>6, <2>2, StoreAlone DEF BufferStep
<1>7. CASE ~phone.stopped
           /\ FlushAndOpen(IF phone.loaded = "no" THEN Loaded ELSE phone, TRUE, frames)
  <2> DEFINE p == IF phone.loaded = "no" THEN Loaded ELSE phone
  <2>1. p \in Phone /\ (p.loaded = "yes" => p.queue = store.queue)
    BY <1>4, NewPhones DEF BufferInv
  <2>2. p.stopped = phone.stopped
    BY <1>4 DEF Loaded, Phone
  <2>3. FlushAndOpen(p, TRUE, frames)
    BY <1>7
  <2> HIDE DEF p
  <2>4. /\ phone'.stopped = p.stopped /\ phone'.loaded = p.loaded
        /\ phone'.queue = p.queue /\ store'.queue = store.queue
        /\ UnderWay(toServer', Replayer', <<>>, p.queue)
    BY <1>1, <1>3, <1>4, <2>1, <2>3, FlushedBuffer
  <2>5. BufferInv'
    BY <1>2, <1>7, <2>1, <2>2, <2>4 DEF BufferInv
  <2> QED
    BY <2>4, <2>5, StoreAlone DEF BufferStep
<1> QED
  BY <1>5, <1>6, <1>7 DEF Connect, frames

\* The store answers, to a page that is connected or one that is not.
LEMMA StoreAnswersBuffer == ASSUME FloorInv, BufferInv, StoreAnswers PROVE BufferStep
<1> USE DEF FloorInv
<1>1. phone.loaded = "loading" /\ link' = link /\ sock' = sock /\ toPhone' = toPhone
  BY DEF StoreAnswers
<1>2. /\ Loaded \in Phone /\ Loaded.loaded = "yes" /\ Loaded.queue = store.queue
      /\ Loaded.stopped = phone.stopped
  BY NewPhones DEF PhoneInv, Loaded, Phone
<1>3. stamp \in Nat /\ stamp + 1 <= MaxSock
  BY <1>1, BoundsAssumption DEF PhoneInv, WireInv, Unstamped
<1>4. store \in Store /\ toPhone \in Seq(Message) /\ toServer \in Seq(Frame)
      /\ backlog \in Seq(Frame) /\ TRUE \in BOOLEAN /\ FALSE \in BOOLEAN
  BY DEF PhoneInv, WireInv
<1>5. Kept
  BY <1>1 DEF Kept
<1>6. CASE link = "up"
  <2>1. FlushAndOpen(Loaded, TRUE, toServer)
    BY <1>6 DEF StoreAnswers, FlushAndOpen
  <2>2. /\ phone'.stopped = Loaded.stopped /\ phone'.loaded = Loaded.loaded
        /\ phone'.queue = Loaded.queue /\ store'.queue = store.queue
        /\ UnderWay(toServer', Replayer', toPhone, Loaded.queue)
    BY <1>2, <1>3, <1>4, <2>1, FlushedBuffer
  <2>3. BufferInv'
    BY <1>1, <1>2, <2>2 DEF BufferInv
  <2> QED
    BY <1>5, <2>3 DEF BufferStep
<1>7. CASE link = "down"
  <2>1. FlushAndOpen(Loaded, FALSE, backlog)
    BY <1>7 DEF StoreAnswers, FlushAndOpen
  <2>2. /\ phone'.stopped = Loaded.stopped /\ phone'.loaded = Loaded.loaded
        /\ phone'.queue = store'.queue
        /\ Loaded.stopped => phone'.queue = Loaded.queue
    BY <1>2, <1>3, <1>4, <2>1, FlushedBuffer
  <2>3. BufferInv'
    BY <1>1, <1>2, <1>7, <2>2 DEF BufferInv
  <2> QED
    BY <1>5, <2>3 DEF BufferStep
<1> QED
  BY <1>6, <1>7 DEF WireInv

\* A beat is sent.
LEMMA SendBeatBuffer == ASSUME FloorInv, BufferInv, SendBeat PROVE BufferStep
<1>1. /\ toServer' = Append(toServer, Beat) /\ link = "up" /\ phone' = phone /\ store' = store
      /\ link' = link /\ sock' = sock /\ toPhone' = toPhone /\ tasks' = tasks
  BY DEF SendBeat, client, server
<1>2. toServer \in Seq(Frame) /\ Beat \in Frame /\ Beat.event # "telemetry:replay"
  BY Emissions DEF FloorInv, WireInv, Beat
<1>3. phone.loaded = "yes" => UnderWay(toServer', Replayer, toPhone, store.queue)
  BY <1>1, <1>2, FrameSent DEF BufferInv
<1> QED
  BY <1>1, <1>3, ServerBuffer DEF Replayer

\* The page hides: the shift is forgotten, the buffer is not.
LEMMA PageHideBuffer == ASSUME FloorInv, BufferInv, PageHide PROVE BufferStep
<1>1. /\ link' = link /\ sock' = sock /\ toPhone' = toPhone /\ toServer' = toServer
      /\ tasks' = tasks
  BY DEF PageHide, wire, server
<1>2. phone \in Phone /\ store \in Store
  BY DEF FloorInv, PhoneInv
<1>3. /\ phone'.queue = phone.queue /\ phone'.loaded = phone.loaded
      /\ phone'.stopped = phone.stopped /\ store'.queue = store.queue
  BY <1>2 DEF PageHide, Phone, Store
<1>4. BufferInv'
  BY <1>1, <1>3 DEF BufferInv, Replayer
<1> QED
  BY <1>3, <1>4, StoreAlone DEF BufferStep

\* One more event in the buffer of a page and in its store.
LEMMA Buffering ==
  ASSUME FloorInv, BufferInv, NEW e \in Event, ~phone.stopped, link = "down", link' = link,
         phone'.queue = Buffered(phone.queue, e), store'.queue = Buffered(phone.queue, e),
         phone'.stopped = phone.stopped, phone'.loaded = phone.loaded
  PROVE  BufferStep
<1>1. BufferInv'
  BY DEF BufferInv
<1>2. ASSUME phone.loaded = "yes", NEW i \in DOMAIN store.queue
      PROVE  Holds(store'.queue, store.queue[i]) \/ Len(store.queue) = MaxQueued
  <2>1. phone.queue = store.queue /\ phone.queue \in Queue
    BY <1>2 DEF BufferInv, FloorInv, PhoneInv, Phone
  <2> QED
    BY <1>2, <2>1, BufferedQueue
<1> QED
  BY <1>1, <1>2 DEF BufferStep, Kept

\* The end of a shift is dispatched: on the wire, into the buffer, or nowhere.
LEMMA DispatchEndBuffer == ASSUME FloorInv, BufferInv, DispatchEnd PROVE BufferStep
<1> DEFINE e == EndEvent(phone.closing)
           queue == Buffered(phone.queue, e)
<1>0. phone \in Phone /\ store \in Store /\ toServer \in Seq(Frame)
  BY DEF FloorInv, PhoneInv, WireInv
<1>1. e \in Event /\ e \in Frame /\ e.event # "telemetry:replay"
  BY <1>0, Emissions DEF Phone, EndEvent
<1>2. /\ link' = link /\ sock' = sock /\ toPhone' = toPhone /\ tasks' = tasks
      /\ \/ /\ phone' = [phone EXCEPT !.closing = None] /\ store' = store
            /\ toServer' = IF phone.stopped THEN toServer ELSE Append(toServer, e)
         \/ /\ phone' = [phone EXCEPT !.closing = None, !.queue = queue]
            /\ store' = [store EXCEPT !.queue = queue]
            /\ ~phone.stopped /\ link = "down"
  BY DEF DispatchEnd, server, FloorInv, WireInv
<1> HIDE DEF queue, e
<1>3. CASE /\ phone' = [phone EXCEPT !.closing = None] /\ store' = store
           /\ toServer' = IF phone.stopped THEN toServer ELSE Append(toServer, e)
  <2>1. phone'.queue = phone.queue /\ phone'.loaded = phone.loaded
        /\ phone'.stopped = phone.stopped
    BY <1>0, <1>3 DEF Phone
  <2>2. (phone.loaded = "yes" /\ link = "up") =>
          UnderWay(toServer', Replayer, toPhone, store.queue)
    BY <1>0, <1>1, <1>3, FrameSent DEF BufferInv
  <2>3. BufferInv'
    BY <1>2, <1>3, <2>1, <2>2 DEF BufferInv, Replayer
  <2> QED
    BY <1>3, <2>3, StoreAlone DEF BufferStep
<1>4. CASE /\ phone' = [phone EXCEPT !.closing = None, !.queue = queue]
           /\ store' = [store EXCEPT !.queue = queue]
           /\ ~phone.stopped /\ link = "down"
  <2>1. phone'.queue = queue /\ store'.queue = queue /\ phone'.loaded = phone.loaded
        /\ phone'.stopped = phone.stopped
    BY <1>0, <1>4 DEF Phone, Store
  <2> QED
    BY <1>1, <1>2, <1>4, <2>1, Buffering DEF queue
<1> QED
  BY <1>2, <1>3, <1>4

\* So is a status of the glasses.
LEMMA BufferStatusBuffer == ASSUME FloorInv, BufferInv, BufferStatus PROVE BufferStep
<1> DEFINE queue == Buffered(phone.queue, HealthEvent)
<1>0. phone \in Phone /\ store \in Store /\ HealthEvent \in Event
  BY Emissions DEF FloorInv, PhoneInv
<1>1. /\ phone' = [phone EXCEPT !.queue = queue] /\ store' = [store EXCEPT !.queue = queue]
      /\ ~phone.stopped /\ link = "down" /\ link' = link
  BY DEF BufferStatus, wire
<1> HIDE DEF queue
<1>2. phone'.queue = queue /\ store'.queue = queue /\ phone'.loaded = phone.loaded
      /\ phone'.stopped = phone.stopped
  BY <1>0, <1>1 DEF Phone, Store
<1> QED
  BY <1>0, <1>1, <1>2, Buffering DEF queue

\* The phone hears of its shift, is told to stop, or that its replay was taken.
LEMMA ReceiveBuffer == ASSUME FloorInv, BufferInv, Receive PROVE BufferStep
<1> DEFINE m == Head(toPhone)
<1>0. /\ phone \in Phone /\ store \in Store /\ toPhone \in Seq(Message)
      /\ toServer \in Seq(Frame) /\ toPhone # <<>> /\ link = "up" /\ sock \in Socks
  BY DEF FloorInv, PhoneInv, WireInv, Receive
<1>1. m \in Message /\ m = toPhone[1] /\ 1 \in DOMAIN toPhone
      /\ Tail(toPhone) \in Seq(Message)
  BY <1>0, TailOf
<1>2. /\ link' = link /\ sock' = sock /\ toPhone' = Tail(toPhone) /\ toServer' = toServer
      /\ tasks' = tasks
  BY DEF Receive, server
<1>3. phone.loaded = "yes" => UnderWay(toServer, Replayer, toPhone', store.queue)
  BY <1>0, <1>2, AnswerHeard DEF BufferInv
<1>4. UnderWay(toServer, Replayer, toPhone', <<>>)
  BY <1>0, <1>1, <1>2, NothingToCarry
<1>5. CASE m.kind \in {"open", "closed", "retry"}
  <2>1. /\ phone'.queue = phone.queue /\ phone'.loaded = phone.loaded
        /\ phone'.stopped = phone.stopped /\ store'.queue = store.queue
    <3>1. CASE m.kind = "open"
      <4>1. /\ phone' = [phone EXCEPT !.opening = FALSE, !.held = m.id, !.beating = TRUE]
            /\ store' = [store EXCEPT !.held = m.id]
        BY <3>1 DEF Receive
      <4> HIDE DEF m
      <4> QED
        BY <1>0, <4>1 DEF Phone, Store
    <3>2. CASE m.kind \in {"closed", "retry"}
      <4>1. /\ phone' = [phone EXCEPT !.opening = FALSE, !.held = None, !.beating = FALSE]
            /\ store' = [store EXCEPT !.held = None]
        BY <3>2 DEF Receive
      <4> QED
        BY <1>0, <4>1 DEF Phone, Store
    <3> QED
      BY <1>5, <3>1, <3>2
  <2>2. BufferInv'
    BY <1>2, <1>3, <2>1 DEF BufferInv, Replayer
  <2> QED
    BY <2>1, <2>2, StoreAlone DEF BufferStep
<1>6. CASE m.kind = "stop"
  <2>1. /\ phone' = [phone EXCEPT !.opening = FALSE, !.held = None, !.beating = FALSE,
                                  !.stopped = TRUE, !.queue = <<>>]
        /\ store' = [held |-> None, queue |-> <<>>]
    BY <1>6 DEF Receive
  <2>2. phone'.queue = <<>> /\ store'.queue = <<>>
    BY <1>0, <2>1 DEF Phone
  <2>3. BufferInv'
    BY <1>2, <1>4, <2>2 DEF BufferInv, Replayer
  <2>4. Hears("stop")
    BY <1>0, <1>2, <1>6 DEF Hears
  <2>5. Kept
    BY <2>4 DEF Kept
  <2> QED
    BY <2>3, <2>5 DEF BufferStep
<1>7. CASE m.kind = "replayed"
  <2>1. /\ phone' = [phone EXCEPT !.queue = <<>>]
        /\ store' = [store EXCEPT !.queue = IF phone.queue # <<>> THEN <<>> ELSE @]
    BY <1>7 DEF Receive
  <2>2. /\ phone'.queue = <<>> /\ phone'.loaded = phone.loaded
        /\ phone'.stopped = phone.stopped
        /\ store'.queue = IF phone.queue # <<>> THEN <<>> ELSE store.queue
    BY <1>0, <2>1 DEF Phone, Store
  <2>3. phone.loaded = "yes" \/ phone.stopped => store'.queue = <<>>
    BY <2>2 DEF BufferInv
  <2>4. BufferInv'
    BY <1>2, <1>4, <2>2, <2>3 DEF BufferInv, Replayer
  <2>5. ASSUME phone.loaded = "yes", NEW i \in DOMAIN store.queue
        PROVE  \/ Holds(m.took, store.queue[i])
               \/ \E events \in Unanswered' : Holds(events, store.queue[i])
    <3>1. UnderWay(toServer, Replayer, toPhone, store.queue)
      BY <1>0, <2>5 DEF BufferInv
    <3>2. CASE Replayer.at # "idle" /\ Covers(Replayer.took, store.queue)
      <4>1. <<sock, "replay">> \in Handlers
        BY <1>0 DEF Handlers, Kinds
      <4>2. Replayer.took \in Unanswered'
        BY <1>2, <4>1 DEF Unanswered, Replayer, Handlers, Socks
      <4> QED
        BY <2>5, <3>2, <4>2 DEF Covers
    <3>3. CASE Sent(toServer, store.queue)
      <4>1. PICK j \in DOMAIN toServer : /\ toServer[j].event = "telemetry:replay"
                                         /\ Covers(toServer[j].events, store.queue)
        BY <3>3 DEF Sent
      <4>2. toServer[j].events \in Unanswered'
        BY <1>2, <4>1 DEF Unanswered
      <4> QED
        BY <2>5, <4>1, <4>2 DEF Covers
    <3>4. CASE Acked(toPhone, store.queue)
      <4>1. PICK j \in DOMAIN toPhone : /\ toPhone[j].kind = "replayed"
                                        /\ Covers(toPhone[j].took, store.queue)
        BY <1>1, <1>7, <3>4 DEF Acked
      <4>2. CASE j = 1
        BY <1>1, <2>5, <4>1, <4>2 DEF Covers
      <4>3. CASE j # 1
        <5>1. j \in 1 .. Len(toPhone)
          BY <1>0
        <5>2. j - 1 \in DOMAIN toPhone' /\ toPhone'[j - 1] = toPhone[j]
          BY <1>0, <1>2, <4>3, <5>1, TailOf
        <5>3. toPhone[j].took \in Unanswered'
          BY <4>1, <5>2 DEF Unanswered
        <5> QED
          BY <2>5, <4>1, <5>3 DEF Covers
      <4> QED
        BY <4>2, <4>3
    <3> QED
      BY <3>1, <3>2, <3>3, <3>4 DEF UnderWay
  <2>6. Hears("replayed")
    BY <1>0, <1>2, <1>7 DEF Hears
  <2>7. Kept
    BY <2>5, <2>6 DEF Kept
  <2> QED
    BY <2>4, <2>7 DEF BufferStep
<1>8. m.kind \in {"open", "closed", "stop", "retry", "replayed"}
  BY <1>1 DEF Message
<1> QED
  BY <1>5, <1>6, <1>7, <1>8

\* A connection that goes takes what was under way with it, the buffer stays.
LEMMA GoneBuffer ==
  ASSUME FloorInv, BufferInv, Drop \/ Teardown PROVE BufferStep
<1>1. link' = "down" /\ store' = store /\ (phone' = phone \/ phone' = NoPhone)
  BY DEF Drop, Teardown, Disconnected, client
<1>2. NoPhone.loaded = "no" /\ ~NoPhone.stopped
  BY DEF NoPhone
<1>3. BufferInv'
  BY <1>1, <1>2 DEF BufferInv
<1> QED
  BY <1>1, <1>3, StoreAlone DEF BufferStep

\* A page that comes up holds nothing yet.
LEMMA LaunchBuffer == ASSUME BufferInv, Launch PROVE BufferStep
<1>1. phone' = NoPhone /\ store' = store
  BY DEF Launch
<1>2. NoPhone.loaded = "no" /\ ~NoPhone.stopped
  BY DEF NoPhone
<1>3. BufferInv'
  BY <1>1, <1>2 DEF BufferInv
<1> QED
  BY <1>1, <1>3, StoreAlone DEF BufferStep

\* A step that leaves the phone, the wire and the handlers where they are.
LEMMA BufferAlone ==
  ASSUME BufferInv, UNCHANGED <<wire, client, server>> PROVE BufferStep
BY ServerBuffer DEF wire, client, server, BufferInv, Replayer

\* A frame that arrives.
LEMMA FrameBuffer == ASSUME FloorInv, BufferInv, FrameArrives PROVE BufferStep
<1>1. CASE RegisterArrives
  <2>1. Take /\ Head(toServer) = Register /\ UNCHANGED <<toPhone, elsewhere, tasks>>
    BY <1>1 DEF RegisterArrives
  <2>2. Head(toServer).event # "telemetry:replay" /\ toServer \in Seq(Frame)
    BY <2>1 DEF Register, FloorInv, WireInv
  <2>3. (phone.loaded = "yes" /\ link = "up") =>
          UnderWay(toServer', Replayer, toPhone, store.queue)
    BY <2>1, <2>2, FrameTaken DEF BufferInv, Take
  <2> QED
    BY <2>1, <2>3, ServerBuffer DEF Replayer, elsewhere, client
<1>2. CASE StartArrives
  <2>1. Take /\ Head(toServer).event # "telemetry:replay" /\ UNCHANGED elsewhere
    BY <1>2 DEF StartArrives
  <2>2. Handled(<<sock, "start">>) /\ <<sock, "start">> \in Handlers
    BY <1>2, <2>1, StartArrivesOK, TakeOK DEF Kinds
  <2> QED
    BY <2>1, <2>2, HandledBuffer
<1>3. CASE EndArrives
  <2>1. Take /\ Head(toServer).event # "telemetry:replay" /\ UNCHANGED elsewhere
    BY <1>3 DEF EndArrives
  <2>2. Handled(<<sock, "end">>) /\ <<sock, "end">> \in Handlers
    BY <1>3, <2>1, EndArrivesOK, TakeOK DEF Kinds
  <2> QED
    BY <2>1, <2>2, HandledBuffer
<1>4. CASE BeatArrives
  <2>1. Take /\ Head(toServer).event # "telemetry:replay" /\ UNCHANGED elsewhere
    BY <1>4 DEF BeatArrives
  <2>2. Handled(<<sock, "beat">>) /\ <<sock, "beat">> \in Handlers
    BY <1>4, <2>1, BeatArrivesOK, TakeOK DEF Kinds
  <2> QED
    BY <2>1, <2>2, HandledBuffer
<1>5. CASE ReplayArrives
  BY <1>5, ReplayArrivesBuffer
<1> QED
  BY <1>1, <1>2, <1>3, <1>4, <1>5 DEF FrameArrives

\* A handler at work.
LEMMA HandlerBuffer ==
  ASSUME FloorInv, BufferInv, NEW h \in Handlers, HandlerStep(h) PROVE BufferStep
<1>1. CASE StartRuns(h)
  BY <1>1, BufferAlone DEF StartRuns
<1>2. CASE h \in Starters /\ StartAnswered(h)
  <2>1. toServer' = toServer /\ tasks[h].at # "idle" /\ UNCHANGED elsewhere
    BY <1>2 DEF StartAnswered
  <2> QED
    BY <1>2, <2>1, StartAnsweredOK, HandledBuffer
<1>3. CASE h[2] \in {"end", "replay"} /\ EndAnswered(h)
  <2>1. toServer' = toServer /\ tasks[h].at # "idle" /\ UNCHANGED elsewhere
    BY <1>3 DEF EndAnswered
  <2> QED
    BY <1>3, <2>1, EndAnsweredOK, HandledBuffer
<1>4. CASE h[2] = "beat" /\ BeatAnswered(h[1])
  <2>1. h[1] \in Socks /\ <<h[1], "beat">> \in Handlers
    BY DEF Handlers, Kinds
  <2>2. toServer' = toServer /\ tasks[<<h[1], "beat">>].at # "idle" /\ UNCHANGED elsewhere
    BY <1>4 DEF BeatAnswered
  <2> QED
    BY <1>4, <2>1, <2>2, BeatAnsweredOK, HandledBuffer
<1> QED
  BY <1>1, <1>2, <1>3, <1>4 DEF HandlerStep

\* Every step keeps the invariant of the buffer, and forgets as it may.
LEMMA BufferNext ==
  ASSUME FloorInv, BufferInv, [Next]_vars PROVE BufferInv' /\ Kept
<1>1. CASE UNCHANGED vars
  BY <1>1, BufferAlone DEF vars, BufferStep
<1>2. ASSUME NEW k \in Socks, ReplayNext(k) PROVE BufferStep
  <2>1. toServer' = toServer /\ tasks[<<k, "replay">>].at # "idle" /\ UNCHANGED elsewhere
    BY <1>2 DEF ReplayNext
  <2>2. <<k, "replay">> \in Handlers
    BY DEF Handlers, Kinds
  <2> QED
    BY <1>2, <2>1, <2>2, ReplayNextOK, HandledBuffer
<1>3. ASSUME NEW k \in Socks, ReplayDone(k) PROVE BufferStep
  BY <1>3, ReplayDoneBuffer
<1>4. CASE PhoneNext
  BY <1>4, LaunchBuffer, ConnectBuffer, StoreAnswersBuffer, SendBeatBuffer, PageHideBuffer,
     DispatchEndBuffer, BufferStatusBuffer, ReceiveBuffer, GoneBuffer DEF PhoneNext, BufferStep
<1>5. CASE FrameArrives
  BY <1>5, FrameBuffer DEF BufferStep
<1>6. ASSUME NEW h \in Handlers, HandlerStep(h) PROVE BufferStep
  BY <1>6, HandlerBuffer
<1>7. CASE Read \/ Tick \/ Switch
  BY <1>7, BufferAlone DEF Read, Tick, Switch, BufferStep
<1> QED
  BY <1>1, <1>2, <1>3, <1>4, <1>5, <1>6, <1>7 DEF Next, BufferStep

\* Once the page has read the store, an event it has persisted is forgotten only
\* when the server has taken it or is being sent it again, when the tenant has
\* declined telemetry, or to make room (queue and onReplayed of shift.ts): for
\* every buffer, any number of connections, and whatever may go wrong.
THEOREM BufferIsKept == Spec => BufferKept
<1>1. Init => FloorInv /\ BufferInv
  <2>1. Init => BufferInv
    BY DEF Init, BufferInv, NoPhone
  <2> QED
    BY <2>1, FloorInit
<1>2. FloorInv /\ BufferInv /\ [Next]_vars => (FloorInv /\ BufferInv)'
  BY FloorStep, BufferNext
<1>3. FloorInv /\ BufferInv /\ [Next]_vars => [Kept]_vars
  BY BufferNext
<1> QED
  BY <1>1, <1>2, <1>3, PTL DEF Spec, BufferKept, Kept

-----------------------------------------------------------------------------
(* Heartbeats.  They carry no id: the server credits the shift it filed    *)
(* under the socket.  Nothing compares that with what the phone holds, and *)
(* shift:end clears it well before the phone hears so.                     *)

\* The server credits this shift to the phone's connection, or it has let go of
\* it and an answer to a clock-out is still to come.
Served(s) ==
  \/ shiftId[sock] = s
  \/ \E h \in Handlers : h[1] = sock /\ h[2] # "beat" /\ tasks[h].at = "ending"

\* What its beats are credited to: the shift the phone holds; or none, if it
\* waits for a start or was stopped.
Credited == Served(phone.held) \/ (Served(None) /\ (phone.opening \/ phone.stopped))

\* The last word on its way to the phone, or else the word the phone goes by, is
\* what the server goes by.
WordInv ==
  link = "up" =>
    /\ \A i \in DOMAIN toPhone :
         (toPhone[i].kind = "open"
            /\ \A j \in DOMAIN toPhone : j > i => toPhone[j].kind = "replayed")
         => Served(toPhone[i].id)
    /\ (phone.beating /\ \A j \in DOMAIN toPhone : toPhone[j].kind = "replayed") => Credited

BeatInv ==
  /\ phone.loaded = "no" => ~phone.beating /\ ~phone.stopped /\ link = "down"
  /\ WordInv

\* While nothing is told, what the server goes by is what it was.
LEMMA NothingTold ==
  ASSUME BeatInv, link' = link, toPhone' = toPhone,
         phone'.loaded = phone.loaded, phone'.stopped = phone.stopped,
         phone'.beating => phone.beating /\ phone'.held = phone.held
                           /\ phone'.opening = phone.opening,
         \A s : Served(s) => Served(s)'
  PROVE  BeatInv'
<1>1. phone'.beating /\ Credited => Credited'
  BY DEF Credited
<1>2. WordInv'
  BY <1>1 DEF BeatInv, WordInv
<1> QED
  BY <1>2 DEF BeatInv

\* The phone is told of a shift, or that it has none.
LEMMA WordTold ==
  ASSUME FloorInv, BeatInv, link' = link, phone' = phone, NEW m \in Message,
         toPhone' = Append(toPhone, m), m.kind # "replayed", m.kind = "open" => Served(m.id)'
  PROVE  BeatInv'
<1> DEFINE n == Len(toPhone) + 1
<1>1. /\ Len(toPhone) \in Nat /\ DOMAIN toPhone = 1 .. Len(toPhone)
      /\ DOMAIN toPhone' = 1 .. n
      /\ \A i \in DOMAIN toPhone : toPhone'[i] = toPhone[i]
      /\ toPhone'[n] = m
  BY AppendTo DEF FloorInv, WireInv
<1>2. n \in DOMAIN toPhone' /\ toPhone'[n].kind # "replayed"
  BY <1>1
<1>3. ASSUME NEW i \in DOMAIN toPhone',
             \A j \in DOMAIN toPhone' : j > i => toPhone'[j].kind = "replayed",
             toPhone'[i].kind = "open"
      PROVE  Served(toPhone[i].id)'
  <2>1. ~(n > i)
    BY <1>2, <1>3
  <2>2. i = n
    BY <1>1, <2>1
  <2> QED
    BY <1>1, <1>3, <2>2
<1>4. ~ \A j \in DOMAIN toPhone' : toPhone'[j].kind = "replayed"
  BY <1>2
<1> HIDE DEF n
<1>5. WordInv'
  BY <1>3, <1>4 DEF WordInv
<1> QED
  BY <1>5 DEF BeatInv

\* A handler that goes on without a word keeps what its socket is served, but
\* for a clock-out, which then still has its answer to give; one that speaks
\* says what it has filed.
LEMMA HandlerBeat ==
  ASSUME FloorInv, BeatInv, NEW h \in Handlers, link' = link, sock' = sock, phone' = phone,
         \A g \in Handlers \ {h} : tasks'[g] = tasks[g],
         \A k \in Socks \ {h[1]} : shiftId'[k] = shiftId[k],
         \/ /\ toPhone' = toPhone /\ shiftId' = shiftId
            /\ tasks[h].at # "ending" \/ h[2] = "beat"
         \/ toPhone' = toPhone /\ tasks'[h].at = "ending" /\ h[2] # "beat"
         \/ \E m \in Message : /\ toPhone' = Emitted(h[1], m) /\ m.kind # "replayed"
                               /\ m.kind = "open" => shiftId'[h[1]] = m.id
  PROVE  BeatInv'
<1>1. CASE link = "down"
  BY <1>1 DEF BeatInv, WordInv
<1>2. CASE link = "up" /\ toPhone' = toPhone
  <2>1. sock \in Socks
    BY <1>2 DEF FloorInv, WireInv
  <2>3. CASE h[1] # sock
    <3>1. \A s : Served(s) => Served(s)'
      BY <2>1, <2>3 DEF Served
    <3> QED
      BY <1>2, <3>1, NothingTold
  <2>4. CASE shiftId' = shiftId /\ (tasks[h].at # "ending" \/ h[2] = "beat")
    <3>1. \A s : Served(s) => Served(s)'
      BY <2>4 DEF Served
    <3> QED
      BY <1>2, <3>1, NothingTold
  <2>5. CASE h[1] = sock /\ tasks'[h].at = "ending" /\ h[2] # "beat"
    <3>1. \A s : Served(s)'
      BY <2>5 DEF Served
    <3> QED
      BY <1>2, <3>1, NothingTold
  <2>6. ASSUME h[1] = sock, NEW m \in Message, toPhone' = Emitted(h[1], m) PROVE FALSE
    <3>1. toPhone' = Append(toPhone, m)
      BY <1>2, <2>6 DEF Emitted
    <3>2. Len(toPhone') = Len(toPhone) + 1 /\ Len(toPhone) \in Nat
      BY <3>1, AppendTo DEF FloorInv, WireInv
    <3> QED
      BY <1>2, <3>2
  <2> QED
    BY <1>2, <2>3, <2>4, <2>5, <2>6
<1>3. ASSUME link = "up", NEW m \in Message, toPhone' = Emitted(h[1], m), m.kind # "replayed",
             m.kind = "open" => shiftId'[h[1]] = m.id, toPhone' # toPhone
      PROVE  BeatInv'
  <2>1. h[1] = sock /\ toPhone' = Append(toPhone, m)
    BY <1>3 DEF Emitted
  <2>2. m.kind = "open" => Served(m.id)'
    BY <1>3, <2>1 DEF Served
  <2> QED
    BY <1>3, <2>1, <2>2, WordTold
<1> QED
  BY <1>1, <1>2, <1>3 DEF FloorInv, WireInv

\* A refused start clears what its socket is served and says so.
LEMMA HandleStartBeat ==
  ASSUME FloorInv, BeatInv, NEW h \in Starters, NEW e, HandleStart(h, e),
         tasks[h].at # "ending", UNCHANGED elsewhere
  PROVE  BeatInv'
<1>0. h \in Handlers /\ link' = link /\ sock' = sock /\ phone' = phone
  BY DEF Starters, Handlers, Kinds, elsewhere, client
<1>1. \A g \in Handlers \ {h} : tasks'[g] = tasks[g]
  BY DEF HandleStart, FloorInv, ServerInv
<1>2. CASE tasks' = [tasks EXCEPT ![h].at = "calling"] /\ UNCHANGED <<shiftId, toPhone>>
  BY <1>0, <1>1, <1>2, HandlerBeat
<1>3. ASSUME NEW m \in Message, m.kind # "replayed", m.kind # "open", StartRefused(h, m)
      PROVE  BeatInv'
  <2>1. toPhone' = Emitted(h[1], m) /\ shiftId' = [shiftId EXCEPT ![h[1]] = None]
    BY <1>3 DEF StartRefused
  <2>2. \A k \in Socks \ {h[1]} : shiftId'[k] = shiftId[k]
    BY <2>1 DEF FloorInv, ServerInv
  <2> QED
    BY <1>0, <1>1, <1>3, <2>1, <2>2, HandlerBeat
<1>4. StopState.kind # "open" /\ RetryState.kind # "open"
  BY DEF StopState, RetryState
<1> QED
  BY <1>2, <1>3, <1>4, AnswerKinds DEF HandleStart

\* A clock-out takes the shift from its socket; the answer is still to come.
LEMMA HandleEndBeat ==
  ASSUME FloorInv, BeatInv, NEW h \in Handlers, HandleEnd(h), tasks[h].at # "ending",
         h[2] # "beat",
         UNCHANGED elsewhere
  PROVE  BeatInv'
<1>0. h[1] \in Socks /\ link' = link /\ sock' = sock /\ phone' = phone /\ toPhone' = toPhone
  BY DEF Handlers, elsewhere, client, HandleEnd
<1>1. \A g \in Handlers \ {h} : tasks'[g] = tasks[g]
  BY DEF HandleEnd, FloorInv, ServerInv
<1>2. \A k \in Socks \ {h[1]} : shiftId'[k] = shiftId[k]
  BY DEF HandleEnd, FloorInv, ServerInv
<1>3. CASE shiftId[h[1]] = None
  <2>1. shiftId' = shiftId
    BY <1>0, <1>3 DEF HandleEnd, FloorInv, ServerInv
  <2> QED
    BY <1>0, <1>1, <1>2, <2>1, HandlerBeat
<1>4. CASE shiftId[h[1]] # None
  <2>1. tasks'[h].at = "ending"
    BY <1>4 DEF HandleEnd, FloorInv, ServerInv, Task
  <2> QED
    BY <1>0, <1>1, <1>2, <2>1, HandlerBeat
<1> QED
  BY <1>3, <1>4

\* A frame that arrives.
LEMMA FrameBeat == ASSUME FloorInv, BeatInv, FrameArrives PROVE BeatInv'
<1>0. /\ link = "up" /\ sock \in Socks /\ UNCHANGED elsewhere /\ link' = link /\ sock' = sock
      /\ phone' = phone
      /\ \A kind \in Kinds : <<sock, kind>> \in Handlers
      /\ <<sock, "start">> \in Starters
  <2>1. Take /\ UNCHANGED elsewhere
    BY DEF FrameArrives, RegisterArrives, StartArrives, EndArrives, BeatArrives, ReplayArrives
  <2> QED
    BY <2>1, TakeOK DEF Starters, elsewhere, client
<1>1. CASE RegisterArrives
  <2>1. UNCHANGED <<toPhone, shiftId, tasks>>
    BY <1>1 DEF RegisterArrives
  <2> QED
    BY <1>0, <2>1, NothingTold DEF Served
<1>2. CASE StartArrives
  <2>1. HandleStart(<<sock, "start">>, Head(toServer)) /\ tasks[<<sock, "start">>].at # "ending"
    BY <1>2 DEF StartArrives
  <2> QED
    BY <1>0, <2>1, HandleStartBeat
<1>3. CASE EndArrives
  <2>1. HandleEnd(<<sock, "end">>) /\ tasks[<<sock, "end">>].at # "ending"
        /\ <<sock, "end">> \in Handlers
    BY <1>0, <1>3 DEF EndArrives, Kinds
  <2> QED
    BY <1>0, <2>1, HandleEndBeat
<1>4. CASE BeatArrives
  <2> DEFINE h == <<sock, "beat">>
  <2>1. /\ toPhone' = toPhone /\ shiftId' = shiftId /\ h \in Handlers
        /\ \A g \in Handlers \ {h} : tasks'[g] = tasks[g]
    BY <1>0, <1>4 DEF BeatArrives, FloorInv, ServerInv, Kinds
  <2> QED
    BY <1>0, <2>1, HandlerBeat
<1>5. CASE ReplayArrives
  <2> DEFINE h == <<sock, "replay">>
  <2>1. /\ toPhone' = toPhone /\ shiftId' = shiftId /\ h \in Handlers
        /\ \A g \in Handlers \ {h} : tasks'[g] = tasks[g]
        /\ tasks[h].at # "ending"
    BY <1>0, <1>5 DEF ReplayArrives, FloorInv, ServerInv, Kinds
  <2> QED
    BY <1>0, <2>1, HandlerBeat
<1> QED
  BY <1>1, <1>2, <1>3, <1>4, <1>5 DEF FrameArrives

\* A handler at work.
LEMMA HandlerStepBeat ==
  ASSUME FloorInv, BeatInv, NEW h \in Handlers, HandlerStep(h) PROVE BeatInv'
<1>0. h[1] \in Socks /\ <<h[1], "beat">> \in Handlers
  BY DEF Handlers, Kinds
<1>1. CASE StartRuns(h)
  <2>1. UNCHANGED <<link, sock, phone, toPhone, shiftId, tasks>>
    BY <1>1 DEF StartRuns, wire, client, server
  <2> QED
    BY <2>1, NothingTold DEF Served
<1>2. CASE h \in Starters /\ StartAnswered(h)
  <2>1. /\ tasks[h].at = "calling" /\ link' = link /\ sock' = sock /\ phone' = phone
        /\ \A g \in Handlers \ {h} : tasks'[g] = tasks[g]
    BY <1>2 DEF StartAnswered, elsewhere, client, FloorInv, ServerInv
  <2>2. \E m \in Message : /\ toPhone' = Emitted(h[1], m) /\ m.kind # "replayed"
                           /\ m.kind = "open" => shiftId'[h[1]] = m.id
    <3>1. CASE /\ shiftId' = [shiftId EXCEPT ![h[1]] = calls[h].got]
               /\ toPhone' = Emitted(h[1], OpenState(calls[h].got))
      <4>1. calls[h].got \in Known
        BY <1>2 DEF FloorInv, LedgerInv, Asked
      <4>2. OpenState(calls[h].got).id = calls[h].got /\ shiftId'[h[1]] = calls[h].got
        BY <1>0, <3>1 DEF OpenState, FloorInv, ServerInv
      <4> QED
        BY <3>1, <4>1, <4>2, AnswerKinds
    <3>2. CASE toPhone' = Emitted(h[1], RetryState)
      <4>1. RetryState.kind # "open"
        BY DEF RetryState
      <4> QED
        BY <3>2, <4>1, AnswerKinds
    <3> QED
      BY <1>2, <3>1, <3>2 DEF StartAnswered
  <2>3. \A k \in Socks \ {h[1]} : shiftId'[k] = shiftId[k]
    BY <1>2 DEF StartAnswered, FloorInv, ServerInv
  <2> QED
    BY <2>1, <2>2, <2>3, HandlerBeat
<1>3. ClosedState.kind # "open" /\ StopState.kind # "open" /\ RetryState.kind # "open"
  BY DEF ClosedState, StopState, RetryState
<1>4. CASE EndAnswered(h)
  <2>1. /\ link' = link /\ sock' = sock /\ phone' = phone /\ shiftId' = shiftId
        /\ \A g \in Handlers \ {h} : tasks'[g] = tasks[g]
    BY <1>4 DEF EndAnswered, elsewhere, client, FloorInv, ServerInv
  <2>2. PICK m \in {ClosedState, StopState, RetryState} : toPhone' = Emitted(h[1], m)
    BY <1>4 DEF EndAnswered
  <2> QED
    BY <1>3, <2>1, <2>2, AnswerKinds, HandlerBeat
<1>5. CASE h[2] = "beat" /\ BeatAnswered(h[1])
  <2> DEFINE b == <<h[1], "beat">>
  <2>1. /\ link' = link /\ sock' = sock /\ phone' = phone /\ tasks[b].at = "beating"
        /\ \A g \in Handlers \ {b} : tasks'[g] = tasks[g]
    BY <1>5 DEF BeatAnswered, elsewhere, client, FloorInv, ServerInv
  <2>2. \A k \in Socks \ {h[1]} : shiftId'[k] = shiftId[k]
    BY <1>5 DEF BeatAnswered, TellClosed, FloorInv, ServerInv
  <2>3. \/ toPhone' = toPhone /\ shiftId' = shiftId
        \/ \E m \in {ClosedState, StopState, RetryState} : toPhone' = Emitted(h[1], m)
    BY <1>5 DEF BeatAnswered, TellClosed
  <2>4. b[1] = h[1] /\ b \in Handlers /\ tasks[b].at # "ending"
    BY <1>0, <2>1
  <2> HIDE DEF b
  <2> QED
    BY <1>3, <2>1, <2>2, <2>3, <2>4, AnswerKinds, HandlerBeat
<1> QED
  BY <1>1, <1>2, <1>4, <1>5 DEF HandlerStep

\* A replay that runs, and its acknowledgement, which is no word of a shift.
LEMMA ReplayBeat ==
  ASSUME FloorInv, BeatInv, NEW k \in Socks, ReplayNext(k) \/ ReplayDone(k) PROVE BeatInv'
<1> DEFINE h == <<k, "replay">>
<1>0. /\ h \in Starters /\ h \in Handlers /\ h[1] = k /\ tasks[h].at # "ending"
      /\ UNCHANGED elsewhere /\ link' = link /\ sock' = sock /\ phone' = phone
  BY DEF Starters, Handlers, Kinds, ReplayNext, ReplayDone, elsewhere, client
<1>1. CASE ReplayNext(k)
  <2>1. CASE HandleStart(h, Head(tasks[h].todo))
    BY <1>0, <2>1, HandleStartBeat
  <2>2. CASE HandleEnd(h)
    BY <1>0, <2>2, HandleEndBeat
  <2>3. CASE tasks' = [tasks EXCEPT ![h] = HandlerDone(h)] /\ UNCHANGED <<toPhone, shiftId>>
    <3>1. \A g \in Handlers \ {h} : tasks'[g] = tasks[g]
      BY <2>3 DEF FloorInv, ServerInv
    <3> HIDE DEF h
    <3> QED
      BY <1>0, <2>3, <3>1, HandlerBeat
  <2> QED
    BY <1>1, <2>1, <2>2, <2>3 DEF ReplayNext
<1>2. CASE ReplayDone(k)
  <2> DEFINE m == Replayed(tasks[h].took)
  <2>1. /\ toPhone' = Emitted(k, m) /\ shiftId' = shiftId
        /\ \A g \in Handlers \ {h} : tasks'[g] = tasks[g]
    BY <1>2 DEF ReplayDone, FloorInv, ServerInv
  <2>2. m \in Message /\ m.kind = "replayed"
    <3>1. tasks[h].took \in Queue
      BY <1>0 DEF FloorInv, ServerInv, Task
    <3> QED
      BY <3>1, Emissions DEF Replayed
  <2>3. \A s : Served(s) => Served(s)'
    BY <1>0, <2>1 DEF Served
  <2>4. CASE toPhone' = toPhone
    BY <1>0, <2>3, <2>4, NothingTold
  <2> HIDE DEF m
  <2>5. CASE toPhone' = Append(toPhone, m)
    <3>1. /\ Len(toPhone) \in Nat /\ DOMAIN toPhone = 1 .. Len(toPhone)
          /\ DOMAIN toPhone' = 1 .. Len(toPhone) + 1
          /\ \A i \in DOMAIN toPhone : toPhone'[i] = toPhone[i]
          /\ toPhone'[Len(toPhone) + 1] = m
      BY <2>2, <2>5, AppendTo DEF FloorInv, WireInv
    <3>2. \A i \in DOMAIN toPhone' : i \in DOMAIN toPhone \/ toPhone'[i].kind = "replayed"
      BY <2>2, <3>1
    <3>3. \A i \in DOMAIN toPhone : i \in DOMAIN toPhone' /\ toPhone'[i] = toPhone[i]
      BY <3>1
    <3>4. WordInv'
      <4>1. ASSUME link = "up", NEW i \in DOMAIN toPhone', toPhone'[i].kind = "open",
                   \A j \in DOMAIN toPhone' : j > i => toPhone'[j].kind = "replayed"
            PROVE  Served(toPhone[i].id)' /\ toPhone'[i] = toPhone[i]
        <5>1. i \in DOMAIN toPhone /\ toPhone[i].kind = "open"
          BY <3>2, <3>3, <4>1
        <5>2. \A j \in DOMAIN toPhone : j > i => toPhone[j].kind = "replayed"
          BY <3>3, <4>1
        <5> QED
          BY <2>3, <3>3, <4>1, <5>1, <5>2 DEF BeatInv, WordInv
      <4> QED
        BY <1>0, <2>3, <3>3, <4>1 DEF BeatInv, WordInv, Credited
    <3> QED
      BY <1>0, <3>4 DEF BeatInv
  <2> QED
    BY <2>1, <2>4, <2>5 DEF Emitted
<1> QED
  BY <1>1, <1>2

\* The phone hears the first word on its way.
LEMMA ReceiveBeat == ASSUME FloorInv, BeatInv, Receive PROVE BeatInv'
<1> DEFINE m == Head(toPhone)
<1>0. /\ phone \in Phone /\ toPhone \in Seq(Message) /\ toPhone # <<>> /\ link = "up"
      /\ link' = link /\ sock' = sock /\ toPhone' = Tail(toPhone)
      /\ shiftId' = shiftId /\ tasks' = tasks
  BY DEF FloorInv, PhoneInv, WireInv, Receive, server
<1>1. /\ Len(toPhone) \in Nat \ {0} /\ m = toPhone[1] /\ m \in Message
      /\ \A i \in 1 .. Len(toPhone) :
           i # 1 => i - 1 \in DOMAIN toPhone' /\ toPhone'[i - 1] = toPhone[i]
      /\ \A i \in DOMAIN toPhone' : i + 1 \in 1 .. Len(toPhone) /\ toPhone'[i] = toPhone[i + 1]
      /\ DOMAIN toPhone = 1 .. Len(toPhone) /\ DOMAIN toPhone' \subseteq Int
  <2>1. DOMAIN toPhone = 1 .. Len(toPhone)
    BY <1>0
  <2>2. Tail(toPhone) \in Seq(Message)
    BY <1>0, TailOf
  <2>3. DOMAIN Tail(toPhone) \subseteq Int
    BY <2>2
  <2> QED
    BY <1>0, <2>1, <2>3, TailOf
<1>2. \A s : Served(s) => Served(s)'
  BY <1>0 DEF Served
<1> DEFINE News(messages) == \E j \in DOMAIN messages : messages[j].kind # "replayed"
<1>3. ASSUME NEW i \in DOMAIN toPhone', toPhone'[i].kind = "open",
             \A j \in DOMAIN toPhone' : j > i => toPhone'[j].kind = "replayed"
      PROVE  Served(toPhone'[i].id)
  <2>1. i + 1 \in DOMAIN toPhone /\ toPhone[i + 1] = toPhone'[i]
    BY <1>1
  <2>2. ASSUME NEW j \in DOMAIN toPhone, j > i + 1 PROVE toPhone[j].kind = "replayed"
    <3>1. j # 1 /\ j - 1 > i /\ j \in 1 .. Len(toPhone)
      <4>1. i + 1 >= 1 /\ i \in Int /\ j \in Int
        BY <1>1, <2>1
      <4> QED
        BY <1>1, <2>2, <4>1
    <3> QED
      BY <1>1, <1>3, <3>1
  <2> QED
    BY <1>0, <1>3, <2>1, <2>2 DEF BeatInv, WordInv
<1>4. ASSUME \A j \in DOMAIN toPhone' : toPhone'[j].kind = "replayed"
      PROVE  \A j \in DOMAIN toPhone : j > 1 => toPhone[j].kind = "replayed"
  <2> SUFFICES ASSUME NEW j \in DOMAIN toPhone, j > 1 PROVE toPhone[j].kind = "replayed"
    OBVIOUS
  <2>1. j \in 1 .. Len(toPhone) /\ j # 1
    BY <1>1
  <2> QED
    BY <1>1, <1>4, <2>1
<1>5. phone'.loaded = phone.loaded /\ phone.loaded # "no"
      /\ (phone'.beating /\ (\A j \in DOMAIN toPhone' : toPhone'[j].kind = "replayed")
          => Served(phone'.held) \/ (Served(None) /\ (phone'.opening \/ phone'.stopped)))
  <2> HIDE DEF m
  <2>0. phone.loaded # "no"
    BY <1>0 DEF BeatInv
  <2>1. CASE m.kind = "open"
    <3>1. phone' = [phone EXCEPT !.opening = FALSE, !.held = m.id, !.beating = TRUE]
      BY <2>1 DEF Receive, m
    <3>2. phone'.held = m.id /\ phone'.loaded = phone.loaded
      BY <1>0, <3>1 DEF Phone
    <3>3. 1 \in DOMAIN toPhone
      BY <1>1
    <3> QED
      BY <1>0, <1>1, <1>4, <2>0, <2>1, <3>2, <3>3 DEF BeatInv, WordInv
  <2>2. CASE m.kind = "stop"
    <3>1. phone' = [phone EXCEPT !.opening = FALSE, !.held = None, !.beating = FALSE,
                                 !.stopped = TRUE, !.queue = <<>>]
      BY <2>2 DEF Receive, m
    <3> QED
      BY <1>0, <2>0, <3>1 DEF Phone
  <2>3. CASE m.kind \in {"closed", "retry"}
    <3>1. phone' = [phone EXCEPT !.opening = FALSE, !.held = None, !.beating = FALSE]
      BY <2>3 DEF Receive, m
    <3> QED
      BY <1>0, <2>0, <3>1 DEF Phone
  <2>4. CASE m.kind = "replayed"
    <3>1. phone' = [phone EXCEPT !.queue = <<>>]
      BY <2>4 DEF Receive, m
    <3>2. /\ phone'.loaded = phone.loaded /\ phone'.held = phone.held
          /\ phone'.beating = phone.beating /\ phone'.opening = phone.opening
          /\ phone'.stopped = phone.stopped
      BY <1>0, <3>1 DEF Phone
    <3>3. (\A j \in DOMAIN toPhone' : toPhone'[j].kind = "replayed")
            => \A j \in DOMAIN toPhone : toPhone[j].kind = "replayed"
      <4>1. ASSUME NEW j \in DOMAIN toPhone PROVE j = 1 \/ j > 1
        BY <1>1
      <4> QED
        BY <1>1, <1>4, <2>4, <4>1
    <3> QED
      BY <1>0, <2>0, <3>2, <3>3 DEF Credited, BeatInv, WordInv
  <2>5. m.kind \in {"open", "closed", "stop", "retry", "replayed"}
    BY <1>1 DEF Message
  <2> QED
    BY <2>1, <2>2, <2>3, <2>4, <2>5
<1>6. WordInv'
  <2>1. ASSUME NEW i \in DOMAIN toPhone', toPhone'[i].kind = "open",
               \A j \in DOMAIN toPhone' : j > i => toPhone'[j].kind = "replayed"
        PROVE  (shiftId[sock] = toPhone'[i].id
                  \/ \E h \in Handlers : h[1] = sock /\ h[2] # "beat" /\ tasks[h].at = "ending")
    BY <1>3, <2>1 DEF Served
  <2>2. (phone'.beating /\ \A j \in DOMAIN toPhone' : toPhone'[j].kind = "replayed")
          => Credited'
    BY <1>0, <1>5 DEF Served, Credited
  <2> QED
    BY <1>0, <2>1, <2>2 DEF WordInv, Served
<1> QED
  BY <1>5, <1>6 DEF BeatInv

\* A page that opens waits for its start to be answered, unless it was stopped.
LEMMA FlushedBeat ==
  ASSUME NEW p \in Phone, NEW up, NEW frames, p.loaded # "no", FlushAndOpen(p, up, frames)
  PROVE  /\ phone'.loaded # "no" /\ (phone'.opening \/ phone'.stopped)
         /\ phone'.beating = p.beating /\ phone'.held = p.held
         /\ phone'.asked = IF Opens(p) THEN sock' ELSE p.asked
         /\ phone'.opening = (p.opening \/ Opens(p))
<1> DEFINE queue == IF Opens(p) /\ ~up THEN Buffered(p.queue, StartOf(p)) ELSE p.queue
<1>1. phone' = [p EXCEPT !.opening = @ \/ Opens(p), !.queue = queue,
                         !.asked = IF Opens(p) THEN sock' ELSE @]
  BY DEF FlushAndOpen
<1> HIDE DEF queue
<1> QED
  BY <1>1 DEF Opens, Phone

\* A phone beats on the shift it has persisted; it has asked on no connection
\* still to come, and no such connection has a shift.
HeldInv ==
  /\ phone.beating => store.held = phone.held
  /\ phone.asked <= sock
  /\ \A k \in Socks : k > sock => shiftId[k] = None

\* A socket that connects has no shift: what the phone still beats on is credited
\* to none, and it waits for a start or was stopped.
LEMMA ConnectBeat == ASSUME FloorInv, BeatInv, HeldInv, Connect PROVE BeatInv'
<1>0. toPhone' = <<>> /\ phone \in Phone /\ store \in Store
  BY DEF Connect, FloorInv, PhoneInv
<1>1. phone'.loaded # "no" /\ (phone'.beating => phone'.opening \/ phone'.stopped)
  <2>1. CASE phone.stopped /\ phone' = phone
    BY <2>1 DEF BeatInv
  <2>2. CASE phone.loaded = "no" /\ phone' = [phone EXCEPT !.loaded = "loading"]
    BY <1>0, <2>2 DEF BeatInv, Phone
  <2>3. CASE FlushAndOpen(IF phone.loaded = "no" THEN Loaded ELSE phone, TRUE,
                          Append(backlog, Register))
    <3> DEFINE p == IF phone.loaded = "no" THEN Loaded ELSE phone
    <3>1. p \in Phone /\ p.loaded # "no"
      BY <1>0, NewPhones
    <3>2. FlushAndOpen(p, TRUE, Append(backlog, Register))
      BY <2>3
    <3> HIDE DEF p
    <3> QED
      BY <3>1, <3>2, FlushedBeat
  <2> QED
    BY <2>1, <2>2, <2>3 DEF Connect
<1>2. \A i \in DOMAIN toPhone' : FALSE
  BY <1>0
<1>3. shiftId'[sock'] = None
  <2>1. sock' = sock + 1 /\ sock \in 0 .. MaxSock /\ sock < MaxSock /\ shiftId' = shiftId
    BY DEF Connect, server, FloorInv, WireInv
  <2>2. sock' \in Socks /\ sock' > sock
    BY <2>1, BoundsAssumption DEF Socks
  <2> QED
    BY <2>1, <2>2 DEF HeldInv
<1>4. WordInv'
  BY <1>1, <1>2, <1>3 DEF WordInv, Credited, Served
<1> QED
  BY <1>1, <1>4 DEF BeatInv

\* When the store answers, memory is overwritten with what a phone that beats has
\* persisted: the shift it beats on.
LEMMA StoreAnswersBeat == ASSUME FloorInv, BeatInv, HeldInv, StoreAnswers PROVE BeatInv'
<1>0. /\ phone \in Phone /\ Loaded \in Phone /\ Loaded.loaded = "yes"
      /\ UNCHANGED <<link, sock, toPhone, shiftId, tasks>>
  BY NewPhones DEF StoreAnswers, server, FloorInv, PhoneInv
<1>1. /\ phone'.loaded # "no" /\ (phone'.opening \/ phone'.stopped)
      /\ phone'.beating = Loaded.beating /\ phone'.held = Loaded.held
      /\ phone'.opening = (Loaded.opening \/ Opens(Loaded))
  <2>1. FlushAndOpen(Loaded, link = "up", IF link = "up" THEN toServer ELSE backlog)
    BY DEF StoreAnswers
  <2>2. ~(Loaded.loaded = "no")
    BY <1>0
  <2> HIDE DEF Loaded
  <2> QED
    BY <1>0, <2>1, <2>2, FlushedBeat
<1>2. /\ Loaded.beating = phone.beating /\ Loaded.held = store.held
  BY <1>0 DEF Loaded, Phone
<1>3. phone.beating /\ Credited => Credited'
  BY <1>0, <1>1, <1>2 DEF Credited, Served, HeldInv
<1>4. WordInv'
  BY <1>0, <1>1, <1>2, <1>3 DEF BeatInv, WordInv, Served
<1> QED
  BY <1>1, <1>4 DEF BeatInv

\* No page, no socket.
PageInv == page = "dark" => link = "down"

\* What the phone does by itself leaves it beating on what it beat on, or silent.
LEMMA PhoneBeat ==
  ASSUME FloorInv, BeatInv, PageInv, HeldInv, PhoneNext PROVE BeatInv'
<1>0. phone \in Phone
  BY DEF FloorInv, PhoneInv
<1>1. CASE Launch \/ Teardown \/ Drop
  <2>1. link' = "down"
    BY <1>1 DEF Launch, Teardown, Drop, Disconnected, PageInv, wire
  <2>2. phone' = NoPhone \/ phone' = phone
    BY <1>1 DEF Launch, Teardown, Drop, client
  <2> QED
    BY <2>1, <2>2 DEF BeatInv, WordInv, NoPhone
<1>2. CASE SendBeat
  <2>1. UNCHANGED <<link, sock, phone, toPhone, shiftId, tasks>>
    BY <1>2 DEF SendBeat, client, server
  <2> QED
    BY <2>1, NothingTold DEF Served
<1>3. CASE PageHide \/ DispatchEnd \/ BufferStatus
  <2>1. UNCHANGED <<link, sock, toPhone, shiftId, tasks>>
    BY <1>3 DEF PageHide, DispatchEnd, BufferStatus, wire, server
  <2>2. /\ phone'.loaded = phone.loaded /\ phone'.stopped = phone.stopped
        /\ phone'.beating => phone.beating /\ phone'.held = phone.held
                             /\ phone'.opening = phone.opening
    BY <1>0, <1>3 DEF PageHide, DispatchEnd, BufferStatus, Phone
  <2>3. \A s : Served(s) => Served(s)'
    BY <2>1 DEF Served
  <2> QED
    BY <2>1, <2>2, <2>3, NothingTold
<1> QED
  BY <1>1, <1>2, <1>3, ConnectBeat, StoreAnswersBeat, ReceiveBeat DEF PhoneNext

\* A page that is there no more has no socket either.
LEMMA PageStep == ASSUME PageInv, [Next]_vars PROVE PageInv'
<1>1. CASE PhoneNext
  BY <1>1 DEF PhoneNext, Launch, Connect, StoreAnswers, SendBeat, PageHide, DispatchEnd,
     BufferStatus, Receive, Drop, Teardown, Disconnected, wire, client, PageInv
<1>2. CASE FrameArrives \/ (\E k \in Socks : ReplayNext(k) \/ ReplayDone(k))
  <2>1. UNCHANGED elsewhere
    BY <1>2 DEF FrameArrives, RegisterArrives, StartArrives, EndArrives, BeatArrives,
       ReplayArrives, ReplayNext, ReplayDone
  <2> QED
    BY <2>1 DEF elsewhere, client, PageInv
<1>3. ASSUME NEW h \in Handlers, HandlerStep(h) PROVE PageInv'
  <2>1. UNCHANGED <<page, link>>
    BY <1>3 DEF HandlerStep, StartRuns, StartAnswered, EndAnswered, BeatAnswered, elsewhere,
       client, wire
  <2> QED
    BY <2>1 DEF PageInv
<1>4. CASE Read \/ Tick \/ Switch \/ UNCHANGED vars
  BY <1>4 DEF Read, Tick, Switch, vars, wire, client, PageInv
<1> QED
  BY <1>1, <1>2, <1>3, <1>4 DEF Next

\* Every step keeps the word of the server and the word the phone goes by one.
LEMMA BeatStep ==
  ASSUME FloorInv, BeatInv, PageInv, HeldInv, [Next]_vars PROVE BeatInv'
<1>1. CASE Read \/ Tick \/ Switch \/ UNCHANGED vars
  <2>1. UNCHANGED <<link, sock, phone, toPhone, shiftId, tasks>>
    BY <1>1 DEF Read, Tick, Switch, vars, wire, client, server
  <2> QED
    BY <2>1, NothingTold DEF Served
<1> QED
  BY <1>1, PhoneBeat, FrameBeat, HandlerStepBeat, ReplayBeat DEF Next

\* What a socket is served is filed under a connection that was made.
Filed ==
  \/ shiftId' = shiftId
  \/ \E k \in Socks : \E s : k <= sock /\ shiftId' = [shiftId EXCEPT ![k] = s]

\* The server's handlers leave the phone alone and file under their own socket.
LEMMA HandlersFile ==
  ASSUME FloorInv,
         \/ FrameArrives
         \/ \E h \in Handlers : HandlerStep(h)
         \/ \E k \in Socks : ReplayNext(k) \/ ReplayDone(k)
  PROVE  Filed /\ UNCHANGED <<link, sock, phone, store>>
<1>1. ASSUME NEW h, NEW e, HandleStart(h, e), h[1] \in Socks, h[1] <= sock PROVE Filed
  BY <1>1 DEF HandleStart, StartRefused, Filed
<1>2. ASSUME NEW h, HandleEnd(h), h[1] \in Socks, h[1] <= sock PROVE Filed
  BY <1>2 DEF HandleEnd, Filed
<1>3. CASE FrameArrives
  <2>1. Take /\ UNCHANGED elsewhere
    BY <1>3 DEF FrameArrives, RegisterArrives, StartArrives, EndArrives, BeatArrives,
       ReplayArrives
  <2>2. sock \in Socks /\ sock <= sock
    BY <2>1, TakeOK DEF Socks
  <2>3. ASSUME StartArrives PROVE Filed
    <3>1. HandleStart(<<sock, "start">>, Head(toServer)) /\ <<sock, "start">>[1] = sock
      BY <2>3 DEF StartArrives
    <3> QED
      BY <1>1, <2>2, <3>1
  <2>4. ASSUME EndArrives PROVE Filed
    <3>1. HandleEnd(<<sock, "end">>) /\ <<sock, "end">>[1] = sock
      BY <2>4 DEF EndArrives
    <3> QED
      BY <1>2, <2>2, <3>1
  <2>5. ASSUME RegisterArrives \/ BeatArrives \/ ReplayArrives PROVE Filed
    BY <2>5 DEF RegisterArrives, BeatArrives, ReplayArrives, Filed
  <2> QED
    BY <1>3, <2>1, <2>3, <2>4, <2>5 DEF FrameArrives, elsewhere, client
<1>4. ASSUME NEW h \in Handlers, HandlerStep(h) PROVE Filed /\ UNCHANGED <<link, sock, phone, store>>
  <2>0. h[1] \in Socks /\ (h[2] = "beat" => h = <<h[1], "beat">>)
    BY DEF Handlers
  <2>1. CASE StartRuns(h)
    BY <2>1 DEF StartRuns, wire, client, server, Filed
  <2>2. CASE StartAnswered(h) \/ EndAnswered(h)
    <3>1. h[1] <= sock
      BY <2>2 DEF StartAnswered, EndAnswered, FloorInv, ServerInv
    <3> QED
      BY <2>0, <2>2, <3>1 DEF StartAnswered, EndAnswered, elsewhere, client, Filed
  <2>3. CASE h[2] = "beat" /\ BeatAnswered(h[1])
    <3>1. h[1] <= sock
      BY <2>0, <2>3 DEF BeatAnswered, FloorInv, ServerInv
    <3> QED
      BY <2>0, <2>3, <3>1 DEF BeatAnswered, TellClosed, elsewhere, client, Filed
  <2> QED
    BY <1>4, <2>1, <2>2, <2>3 DEF HandlerStep
<1>5. ASSUME NEW k \in Socks, ReplayNext(k) \/ ReplayDone(k)
      PROVE  Filed /\ UNCHANGED <<link, sock, phone, store>>
  <2> DEFINE h == <<k, "replay">>
  <2>1. h \in Handlers /\ tasks[h].at = "next" /\ UNCHANGED elsewhere /\ h[1] = k
    BY <1>5 DEF ReplayNext, ReplayDone, Handlers, Kinds
  <2>2. k <= sock
    BY <2>1 DEF FloorInv, ServerInv
  <2>3. CASE HandleStart(h, Head(tasks[h].todo))
    BY <1>1, <2>1, <2>2, <2>3 DEF elsewhere, client
  <2>4. CASE HandleEnd(h)
    BY <1>2, <2>1, <2>2, <2>4 DEF elsewhere, client
  <2>5. CASE shiftId' = shiftId
    BY <2>1, <2>5 DEF elsewhere, client, Filed
  <2> QED
    BY <1>5, <2>3, <2>4, <2>5 DEF ReplayNext, ReplayDone
<1> QED
  BY <1>3, <1>4, <1>5

\* The phone beats on what it has persisted.
LEMMA PhoneHeld == ASSUME FloorInv, HeldInv, BeatInv, PhoneNext PROVE HeldInv'
<1>0. phone \in Phone /\ store \in Store /\ sock \in Nat
  BY BoundsAssumption DEF FloorInv, PhoneInv, WireInv
<1>1. CASE Connect
  <2>1. sock' = sock + 1 /\ shiftId' = shiftId
    BY <1>1 DEF Connect, server
  <2>2. /\ phone'.asked <= sock'
        /\ phone'.beating => store'.held = phone'.held
    <3>1. CASE phone' = phone /\ store' = store
      BY <1>0, <2>1, <3>1 DEF HeldInv, Phone
    <3>2. CASE phone.loaded = "no" /\ phone' = [phone EXCEPT !.loaded = "loading"] /\ store' = store
      BY <1>0, <2>1, <3>2 DEF HeldInv, Phone
    <3>3. CASE FlushAndOpen(IF phone.loaded = "no" THEN Loaded ELSE phone, TRUE,
                            Append(backlog, Register))
      <4> DEFINE p == IF phone.loaded = "no" THEN Loaded ELSE phone
      <4>1. /\ p \in Phone /\ p.loaded # "no" /\ p.asked = phone.asked
            /\ p.beating => store.held = p.held
        BY <1>0, NewPhones DEF Loaded, Phone, HeldInv
      <4>2. FlushAndOpen(p, TRUE, Append(backlog, Register))
        BY <3>3
      <4> HIDE DEF p
      <4>3. store'.held = store.held
        BY <1>0, <4>2 DEF FlushAndOpen, Store
      <4>4. /\ phone'.beating = p.beating /\ phone'.held = p.held
            /\ phone'.asked \in {sock', p.asked}
        BY <4>1, <4>2, FlushedBeat
      <4>5. phone.asked <= sock /\ phone.asked \in Nat
        BY <1>0 DEF HeldInv, Phone
      <4> QED
        BY <1>0, <2>1, <4>1, <4>3, <4>4, <4>5
    <3> QED
      BY <1>1, <3>1, <3>2, <3>3 DEF Connect
  <2> QED
    BY <1>0, <2>1, <2>2 DEF HeldInv, Socks
<1>2. CASE StoreAnswers
  <2>1. /\ FlushAndOpen(Loaded, link = "up", IF link = "up" THEN toServer ELSE backlog)
        /\ sock' = sock /\ shiftId' = shiftId
    BY <1>2 DEF StoreAnswers, server
  <2>2. /\ Loaded \in Phone /\ Loaded.loaded # "no"
        /\ Loaded.asked = phone.asked /\ Loaded.held = store.held
    BY <1>0, NewPhones DEF Loaded, Phone
  <2> HIDE DEF Loaded
  <2>3. store'.held = store.held
    BY <1>0, <2>1 DEF FlushAndOpen, Store
  <2> QED
    BY <1>0, <2>1, <2>2, <2>3, FlushedBeat DEF HeldInv, Phone
<1>3. CASE Launch \/ SendBeat \/ PageHide \/ DispatchEnd \/ BufferStatus
  <2>1. UNCHANGED <<sock, shiftId>>
    BY <1>3 DEF Launch, SendBeat, PageHide, DispatchEnd, BufferStatus, wire, server
  <2>2. /\ phone'.asked \in {0, phone.asked}
        /\ phone'.beating => phone.beating /\ phone'.held = phone.held /\ store'.held = store.held
    <3>1. CASE Launch
      BY <3>1 DEF Launch, NoPhone
    <3>2. CASE SendBeat
      BY <3>2 DEF SendBeat, client
    <3>3. CASE PageHide
      BY <1>0, <3>3 DEF PageHide, Phone, Store
    <3>4. CASE DispatchEnd
      BY <1>0, <3>4 DEF DispatchEnd, Phone, Store
    <3>5. CASE BufferStatus
      BY <1>0, <3>5 DEF BufferStatus, Phone, Store
    <3> QED
      BY <1>3, <3>1, <3>2, <3>3, <3>4, <3>5
  <2> QED
    BY <1>0, <2>1, <2>2 DEF HeldInv, Phone
<1>4. CASE Drop \/ Teardown
  <2>1. /\ phone'.asked \in {0, phone.asked} /\ sock' = sock
        /\ phone'.beating => phone' = phone /\ store' = store
        /\ \A k \in Socks : shiftId'[k] \in {shiftId[k], None}
    BY <1>0, <1>4 DEF Drop, Teardown, Disconnected, client, NoPhone, Phone, FloorInv, ServerInv
  <2> QED
    BY <1>0, <2>1 DEF HeldInv, Phone
<1>5. CASE Receive
  <2> DEFINE m == Head(toPhone)
  <2>1. m \in Message /\ sock' = sock /\ shiftId' = shiftId
    BY <1>5, TailOf DEF Receive, server, FloorInv, WireInv
  <2>2. m.kind \in {"open", "closed", "stop", "retry", "replayed"}
    BY <2>1 DEF Message
  <2>3. phone'.asked = phone.asked /\ (phone'.beating => store'.held = phone'.held)
    <3>1. CASE m.kind = "open"
      <4>1. /\ phone' = [phone EXCEPT !.opening = FALSE, !.held = m.id, !.beating = TRUE]
            /\ store' = [store EXCEPT !.held = m.id]
        BY <1>5, <3>1 DEF Receive
      <4> HIDE DEF m
      <4> QED
        BY <1>0, <4>1 DEF Phone, Store
    <3>2. CASE m.kind \in {"stop", "closed", "retry"}
      <4>1. \/ phone' = [phone EXCEPT !.opening = FALSE, !.held = None, !.beating = FALSE,
                                      !.stopped = TRUE, !.queue = <<>>]
            \/ phone' = [phone EXCEPT !.opening = FALSE, !.held = None, !.beating = FALSE]
        BY <1>5, <3>2 DEF Receive
      <4> QED
        BY <1>0, <4>1 DEF Phone
    <3>3. CASE m.kind = "replayed"
      <4>1. /\ phone' = [phone EXCEPT !.queue = <<>>]
            /\ store' = [store EXCEPT !.queue = IF phone.queue # <<>> THEN <<>> ELSE @]
        BY <1>5, <3>3 DEF Receive
      <4> QED
        BY <1>0, <4>1 DEF Phone, Store, HeldInv
    <3> QED
      BY <2>2, <3>1, <3>2, <3>3
  <2> HIDE DEF m
  <2> QED
    BY <2>1, <2>3 DEF HeldInv
<1> QED
  BY <1>1, <1>2, <1>3, <1>4, <1>5 DEF PhoneNext

LEMMA HeldStep == ASSUME FloorInv, HeldInv, BeatInv, [Next]_vars PROVE HeldInv'
<1>1. CASE \/ FrameArrives
           \/ \E h \in Handlers : HandlerStep(h)
           \/ \E k \in Socks : ReplayNext(k) \/ ReplayDone(k)
  <2>1. Filed /\ UNCHANGED <<sock, phone, store>>
    BY <1>1, HandlersFile
  <2>2. ASSUME NEW k \in Socks, NEW s, k <= sock, shiftId' = [shiftId EXCEPT ![k] = s],
               NEW l \in Socks, l > sock
        PROVE  shiftId'[l] = None
    <3>1. l # k
      BY <2>2 DEF FloorInv, WireInv, Socks
    <3> QED
      BY <2>2, <3>1 DEF HeldInv, FloorInv, ServerInv
  <2> QED
    BY <2>1, <2>2 DEF Filed, HeldInv
<1>2. CASE Read \/ Tick \/ Switch \/ UNCHANGED vars
  BY <1>2 DEF Read, Tick, Switch, vars, wire, client, server, HeldInv
<1> QED
  BY <1>1, <1>2, PhoneHeld DEF Next

\* A word of a shift is on its way to the phone; and the start it sent on this
\* connection is on the wire, with its handler, or answered by such a word.
Told == \E j \in DOMAIN toPhone : toPhone[j].kind # "replayed"
StartSent == \E i \in DOMAIN toServer : toServer[i].event = "shift:start"
Awaited == StartSent \/ tasks[<<sock, "start">>].at = "calling" \/ Told

AskInv == (link = "up" /\ phone.opening /\ phone.asked = sock) => Awaited

\* What is emitted does not take a word back.
LEMMA EmittedTells ==
  ASSUME FloorInv, NEW k, NEW m \in Message, toPhone' = Emitted(k, m)
  PROVE  /\ Told => Told'
         /\ (k = sock /\ link = "up" /\ m.kind # "replayed") => Told'
<1>1. CASE toPhone' = toPhone /\ ~(k = sock /\ link = "up")
  BY <1>1 DEF Told
<1>2. CASE toPhone' = Append(toPhone, m)
  <2>1. /\ Len(toPhone) \in Nat /\ DOMAIN toPhone = 1 .. Len(toPhone)
        /\ DOMAIN toPhone' = 1 .. Len(toPhone) + 1
        /\ \A i \in DOMAIN toPhone : toPhone'[i] = toPhone[i]
        /\ toPhone'[Len(toPhone) + 1] = m
    BY <1>2, AppendTo DEF FloorInv, WireInv
  <2>2. Len(toPhone) + 1 \in DOMAIN toPhone' /\ \A i \in DOMAIN toPhone : i \in DOMAIN toPhone'
    BY <2>1
  <2> QED
    BY <2>1, <2>2 DEF Told
<1> QED
  BY <1>1, <1>2 DEF Emitted

\* A start that is refused is answered; one that is not asks the ledger.
LEMMA StartAsks ==
  ASSUME FloorInv, NEW h \in Starters, NEW e, HandleStart(h, e)
  PROVE  /\ Told => Told'
         /\ \A g \in Handlers \ {h} : tasks'[g] = tasks[g]
         /\ (h[1] = sock /\ link = "up") => tasks'[h].at = "calling" \/ Told'
<1>0. h \in Handlers
  BY DEF Starters, Handlers, Kinds
<1>1. CASE tasks' = [tasks EXCEPT ![h].at = "calling"] /\ UNCHANGED <<shiftId, toPhone>>
  BY <1>0, <1>1 DEF Told, FloorInv, ServerInv, Task
<1>2. ASSUME NEW m \in {StopState, RetryState}, StartRefused(h, m),
             tasks' = [tasks EXCEPT ![h] = HandlerDone(h)]
      PROVE  /\ Told => Told'
             /\ \A g \in Handlers \ {h} : tasks'[g] = tasks[g]
             /\ (h[1] = sock /\ link = "up") => Told'
  <2>1. toPhone' = Emitted(h[1], m) /\ m \in Message /\ m.kind # "replayed"
    BY <1>2, AnswerKinds DEF StartRefused
  <2>2. \A g \in Handlers \ {h} : tasks'[g] = tasks[g]
    BY <1>0, <1>2 DEF FloorInv, ServerInv
  <2> QED
    BY <2>1, <2>2, EmittedTells
<1> QED
  BY <1>1, <1>2 DEF HandleStart

\* What is left on the wire, but for the frame that was taken.
LEMMA StillSent ==
  ASSUME FloorInv, Take, StartSent, Head(toServer).event # "shift:start"
  PROVE  StartSent'
<1>1. toServer \in Seq(Frame) /\ toServer # <<>> /\ toServer' = Tail(toServer)
  BY DEF Take, FloorInv, WireInv
<1>2. PICK i \in DOMAIN toServer : toServer[i].event = "shift:start"
  BY DEF StartSent
<1>3. DOMAIN toServer = 1 .. Len(toServer) /\ Head(toServer) = toServer[1]
  BY <1>1
<1>4. i # 1
  BY <1>2, <1>3
<1>5. i - 1 \in DOMAIN toServer' /\ toServer'[i - 1] = toServer[i]
  BY <1>1, <1>2, <1>3, <1>4, TailOf
<1> QED
  BY <1>2, <1>5 DEF StartSent

\* The start is taken, its handler works, and answers.
LEMMA HandlersAnswer ==
  ASSUME FloorInv, AskInv,
         \/ FrameArrives
         \/ \E h \in Handlers : HandlerStep(h)
         \/ \E k \in Socks : ReplayNext(k) \/ ReplayDone(k)
  PROVE  AskInv'
<1>0. UNCHANGED <<link, sock, phone, store>>
  BY HandlersFile
<1> SUFFICES ASSUME link = "up", Awaited PROVE Awaited'
  BY <1>0 DEF AskInv
<1> DEFINE s == <<sock, "start">>
<1>1. sock \in Socks /\ s \in Starters /\ s \in Handlers /\ s[1] = sock /\ s[2] = "start"
  BY DEF FloorInv, WireInv, Starters, Handlers, Kinds
<1>2. Awaited' <=> StartSent' \/ tasks'[s].at = "calling" \/ Told'
  BY <1>0 DEF Awaited
<1>3. StartSent \/ tasks[s].at = "calling" \/ Told
  BY DEF Awaited
<1> HIDE DEF s
<1>4. ASSUME NEW h \in Starters, NEW e, HandleStart(h, e), StartSent => StartSent'
      PROVE  Awaited'
  <2>1. h = s => h[1] = sock
    BY <1>1
  <2> QED
    BY <1>1, <1>2, <1>3, <1>4, <2>1, StartAsks
<1>5. ASSUME NEW h \in Handlers, HandleEnd(h), h # s, StartSent => StartSent'
      PROVE  Awaited'
  <2>1. toPhone' = toPhone /\ tasks'[s] = tasks[s]
    BY <1>1, <1>5 DEF HandleEnd, FloorInv, ServerInv
  <2> QED
    BY <1>2, <1>3, <1>5, <2>1 DEF Told
<1>6. CASE FrameArrives
  <2>1. Take
    BY <1>6 DEF FrameArrives, RegisterArrives, StartArrives, EndArrives, BeatArrives,
       ReplayArrives
  <2>2. CASE StartArrives
    <3>1. HandleStart(s, Head(toServer))
      BY <2>2 DEF StartArrives, s
    <3> QED
      BY <1>1, <1>2, <3>1, StartAsks
  <2>3. CASE EndArrives
    <3>1. StartSent => StartSent'
      BY <2>1, <2>3, StillSent DEF EndArrives
    <3>2. HandleEnd(<<sock, "end">>) /\ <<sock, "end">> \in Handlers /\ <<sock, "end">> # s
      BY <1>1, <2>3 DEF EndArrives, Handlers, Kinds, s
    <3> QED
      BY <1>5, <3>1, <3>2
  <2>4. CASE RegisterArrives \/ BeatArrives \/ ReplayArrives
    <3>1. StartSent => StartSent'
      <4>1. Head(toServer).event # "shift:start"
        BY <2>4 DEF RegisterArrives, BeatArrives, ReplayArrives, Register
      <4> QED
        BY <2>1, <4>1, StillSent
    <3>2. toPhone' = toPhone /\ tasks'[s] = tasks[s]
      BY <1>1, <2>4 DEF RegisterArrives, BeatArrives, ReplayArrives, FloorInv, ServerInv, s
    <3> QED
      BY <1>2, <1>3, <3>1, <3>2 DEF Told
  <2> QED
    BY <1>6, <2>2, <2>3, <2>4 DEF FrameArrives
<1>7. ASSUME NEW h \in Handlers, HandlerStep(h) PROVE Awaited'
  <2>1. CASE StartRuns(h)
    BY <1>2, <1>3, <2>1 DEF StartRuns, wire, server, StartSent, Told
  <2>2. CASE h \in Starters /\ StartAnswered(h)
    <3>1. toServer' = toServer /\ (tasks'[s] = tasks[s] \/ h = s)
      BY <1>1, <2>2 DEF StartAnswered, FloorInv, ServerInv
    <3>2. calls[h].got \in Known
      BY <2>2 DEF FloorInv, LedgerInv, Asked
    <3>3. PICK m \in {OpenState(calls[h].got), RetryState} : toPhone' = Emitted(h[1], m)
      BY <2>2 DEF StartAnswered
    <3>4. m \in Message /\ m.kind # "replayed"
      BY <3>2, <3>3, AnswerKinds
    <3> QED
      BY <1>1, <1>2, <1>3, <3>1, <3>3, <3>4, EmittedTells DEF StartSent
  <2>3. CASE EndAnswered(h) /\ h[2] \in {"end", "replay"}
    <3>1. toServer' = toServer /\ tasks'[s] = tasks[s]
      BY <1>1, <2>3 DEF EndAnswered, FloorInv, ServerInv
    <3>2. PICK m \in {ClosedState, StopState, RetryState} : toPhone' = Emitted(h[1], m)
      BY <2>3 DEF EndAnswered
    <3> QED
      BY <1>2, <1>3, <3>1, <3>2, AnswerKinds, EmittedTells DEF StartSent
  <2>4. CASE h[2] = "beat" /\ BeatAnswered(h[1])
    <3>1. toServer' = toServer /\ tasks'[s] = tasks[s]
      <4>1. <<h[1], "beat">> # s
        BY <1>1
      <4> QED
        BY <1>1, <2>4, <4>1 DEF BeatAnswered, FloorInv, ServerInv
    <3>2. \/ toPhone' = toPhone
          \/ \E m \in {ClosedState, StopState, RetryState} : toPhone' = Emitted(h[1], m)
      BY <2>4 DEF BeatAnswered, TellClosed
    <3>3. Told => Told'
      BY <3>2, AnswerKinds, EmittedTells DEF Told
    <3> QED
      BY <1>2, <1>3, <3>1, <3>3 DEF StartSent
  <2> QED
    BY <1>7, <2>1, <2>2, <2>3, <2>4 DEF HandlerStep
<1>8. ASSUME NEW k \in Socks, ReplayNext(k) \/ ReplayDone(k) PROVE Awaited'
  <2> DEFINE h == <<k, "replay">>
  <2>1. /\ h \in Starters /\ h \in Handlers /\ h # s /\ toServer' = toServer
        /\ tasks[h].at = "next"
    BY <1>1, <1>8 DEF ReplayNext, ReplayDone, Starters, Handlers, Kinds
  <2>2. StartSent => StartSent'
    BY <2>1 DEF StartSent
  <2>3. CASE HandleStart(h, Head(tasks[h].todo))
    BY <1>4, <2>1, <2>2, <2>3
  <2>4. CASE HandleEnd(h)
    BY <1>5, <2>1, <2>2, <2>4
  <2>5. CASE tasks' = [tasks EXCEPT ![h] = HandlerDone(h)] /\ UNCHANGED <<toPhone, shiftId>>
    <3>1. tasks'[s] = tasks[s]
      BY <1>1, <2>1, <2>5 DEF FloorInv, ServerInv
    <3> QED
      BY <1>2, <1>3, <2>2, <2>5, <3>1 DEF Told
  <2>6. CASE ReplayDone(k)
    <3>1. tasks'[s] = tasks[s]
      BY <1>1, <2>1, <2>6 DEF ReplayDone, FloorInv, ServerInv
    <3>2. tasks[h].took \in Queue
      BY <2>1 DEF FloorInv, ServerInv, Task
    <3>3. toPhone' = Emitted(k, Replayed(tasks[h].took)) /\ Replayed(tasks[h].took) \in Message
      BY <2>6, <3>2, Emissions DEF ReplayDone
    <3> HIDE DEF h
    <3> QED
      BY <1>2, <1>3, <2>2, <3>1, <3>3, EmittedTells
  <2> QED
    BY <1>8, <2>3, <2>4, <2>5, <2>6 DEF ReplayNext
<1> QED
  BY <1>6, <1>7, <1>8

\* A connection that opens with the latch free sends a start.
LEMMA ConnectAsks == ASSUME FloorInv, HeldInv, Connect PROVE AskInv'
<1>0. phone \in Phone /\ store \in Store /\ sock \in Nat /\ sock' = sock + 1
  BY BoundsAssumption DEF Connect, FloorInv, PhoneInv, WireInv
<1>1. CASE phone'.asked = phone.asked
  BY <1>0, <1>1 DEF HeldInv, AskInv, Phone
<1>2. CASE FlushAndOpen(IF phone.loaded = "no" THEN Loaded ELSE phone, TRUE,
                        Append(backlog, Register))
  <2> DEFINE p == IF phone.loaded = "no" THEN Loaded ELSE phone
             frames == Append(backlog, Register)
             replay == IF p.queue # <<>> THEN <<Replay(p.queue)>> ELSE <<>>
  <2>1. p \in Phone /\ p.loaded # "no" /\ p.asked = phone.asked /\ FlushAndOpen(p, TRUE, frames)
    BY <1>0, <1>2, NewPhones DEF Loaded, Phone
  <2>2. frames \in Seq(Frame)
    BY Emissions DEF FloorInv, WireInv
  <2>3. replay \in Seq(Frame)
    BY <2>1, Emissions DEF Phone
  <2> HIDE DEF p, frames
  <2>4. CASE Opens(p)
    <3>1. toServer' = frames \o replay \o <<StartOf(p)>>
      BY <2>1, <2>4 DEF FlushAndOpen
    <3> HIDE DEF replay
    <3>2. frames \o replay \in Seq(Frame)
      BY <2>2, <2>3
    <3>3. LET n == Len(frames \o replay) + 1 IN n \in DOMAIN toServer' /\ toServer'[n] = StartOf(p)
      BY <3>1, <3>2
    <3>4. StartOf(p).event = "shift:start"
      BY DEF StartOf, StartEvent
    <3> QED
      BY <3>3, <3>4 DEF AskInv, Awaited, StartSent
  <2>5. CASE ~Opens(p)
    <3>1. phone'.asked = phone.asked
      BY <2>1, <2>5, FlushedBeat
    <3> QED
      BY <1>1, <3>1
  <2> QED
    BY <2>4, <2>5
<1>3. CASE phone' = [phone EXCEPT !.loaded = "loading"]
  BY <1>0, <1>1, <1>3 DEF Phone
<1> QED
  BY <1>1, <1>2, <1>3 DEF Connect

LEMMA StoreAnswersAsks == ASSUME FloorInv, AskInv, StoreAnswers PROVE AskInv'
<1>0. /\ phone \in Phone /\ Loaded \in Phone /\ Loaded.loaded # "no" /\ store \in Store
      /\ Loaded.opening = phone.opening /\ Loaded.asked = phone.asked
      /\ UNCHANGED <<link, sock, toPhone, tasks>>
      /\ FlushAndOpen(Loaded, link = "up", IF link = "up" THEN toServer ELSE backlog)
  BY NewPhones DEF StoreAnswers, server, FloorInv, PhoneInv, Loaded, Phone
<1> SUFFICES ASSUME link = "up", phone'.opening, phone'.asked = sock PROVE Awaited'
  BY <1>0 DEF AskInv
<1> DEFINE replay == IF Loaded.queue # <<>> THEN <<Replay(Loaded.queue)>> ELSE <<>>
           start == IF Opens(Loaded) THEN <<StartOf(Loaded)>> ELSE <<>>
           more == replay \o start
<1>1. toServer' = toServer \o replay \o start
  BY <1>0 DEF FlushAndOpen
<1>2. toServer \in Seq(Frame) /\ replay \in Seq(Frame)
  BY <1>0, Emissions DEF FloorInv, WireInv, Phone
<1> HIDE DEF replay
<1>3. CASE Opens(Loaded)
  <2>1. toServer' = toServer \o replay \o <<StartOf(Loaded)>>
    BY <1>1, <1>3
  <2>2. toServer \o replay \in Seq(Frame)
    BY <1>2
  <2>3. LET n == Len(toServer \o replay) + 1 IN n \in DOMAIN toServer' /\ toServer'[n] = StartOf(Loaded)
    BY <2>1, <2>2
  <2>4. StartOf(Loaded).event = "shift:start"
    BY DEF StartOf, StartEvent
  <2> QED
    BY <2>3, <2>4 DEF Awaited, StartSent
<1>4. CASE ~Opens(Loaded)
  <2>1. phone.opening /\ phone.asked = sock
    BY <1>0, <1>4, FlushedBeat
  <2>2. toServer' = toServer \o replay
    BY <1>1, <1>2, <1>4
  <2>3. \A i \in DOMAIN toServer : i \in DOMAIN toServer' /\ toServer'[i] = toServer[i]
    BY <1>2, <2>2
  <2>4. Awaited
    BY <2>1 DEF AskInv
  <2> QED
    BY <1>0, <2>3, <2>4 DEF Awaited, StartSent, Told
<1> QED
  BY <1>3, <1>4

LEMMA ReceiveAsks == ASSUME FloorInv, AskInv, Receive PROVE AskInv'
<1> DEFINE m == Head(toPhone)
<1>0. /\ phone \in Phone /\ toPhone \in Seq(Message) /\ toPhone # <<>> /\ toPhone' = Tail(toPhone)
      /\ UNCHANGED <<link, sock, toServer, tasks>>
  BY DEF FloorInv, PhoneInv, WireInv, Receive, server
<1>1. m \in Message /\ m = toPhone[1] /\ DOMAIN toPhone = 1 .. Len(toPhone)
  BY <1>0, TailOf
<1>2. CASE m.kind = "replayed"
  <2>1. phone'.opening = phone.opening /\ phone'.asked = phone.asked
    <3>1. phone' = [phone EXCEPT !.queue = <<>>]
      BY <1>2 DEF Receive
    <3> QED
      BY <1>0, <3>1 DEF Phone
  <2>2. Told => Told'
    <3> SUFFICES ASSUME NEW j \in DOMAIN toPhone, toPhone[j].kind # "replayed" PROVE Told'
      BY DEF Told
    <3>1. j # 1
      BY <1>1, <1>2
    <3>2. j - 1 \in DOMAIN toPhone' /\ toPhone'[j - 1] = toPhone[j]
      BY <1>0, <1>1, <3>1, TailOf
    <3> QED
      BY <3>2 DEF Told
  <2> QED
    BY <1>0, <2>1, <2>2 DEF AskInv, Awaited, StartSent
<1>3. CASE m.kind # "replayed"
  <2>1. m.kind \in {"open", "closed", "stop", "retry"}
    BY <1>1, <1>3 DEF Message
  <2>2. \/ phone' = [phone EXCEPT !.opening = FALSE, !.held = m.id, !.beating = TRUE]
        \/ phone' = [phone EXCEPT !.opening = FALSE, !.held = None, !.beating = FALSE,
                                  !.stopped = TRUE, !.queue = <<>>]
        \/ phone' = [phone EXCEPT !.opening = FALSE, !.held = None, !.beating = FALSE]
    BY <2>1 DEF Receive
  <2> HIDE DEF m
  <2>3. ~phone'.opening
    BY <1>0, <2>2 DEF Phone
  <2> QED
    BY <2>3 DEF AskInv
<1> QED
  BY <1>2, <1>3

\* While a phone waits for the start of this connection, that start is under way:
\* only a connection that goes can lose it.
LEMMA AskStep == ASSUME FloorInv, HeldInv, PageInv, AskInv, [Next]_vars PROVE AskInv'
<1>0. phone \in Phone
  BY DEF FloorInv, PhoneInv
<1>1. CASE Launch \/ Drop \/ Teardown
  <2>1. link' = "down"
    BY <1>1 DEF Launch, Drop, Teardown, Disconnected, PageInv, wire
  <2> QED
    BY <2>1 DEF AskInv
<1>2. CASE SendBeat \/ PageHide \/ DispatchEnd \/ BufferStatus
  <2>1. UNCHANGED <<link, sock, toPhone, tasks>> /\ phone'.opening = phone.opening
        /\ phone'.asked = phone.asked
    BY <1>0, <1>2 DEF SendBeat, PageHide, DispatchEnd, BufferStatus, wire, server, client, Phone
  <2>2. toServer' = toServer \/ \E e \in Frame : toServer' = Append(toServer, e)
    <3>1. EndEvent(phone.closing) \in Frame /\ Beat \in Frame
      BY <1>0, Emissions DEF Phone
    <3> QED
      BY <1>2, <3>1 DEF SendBeat, PageHide, DispatchEnd, BufferStatus, wire
  <2>3. \A i \in DOMAIN toServer : i \in DOMAIN toServer' /\ toServer'[i] = toServer[i]
    BY <2>2, AppendTo DEF FloorInv, WireInv
  <2> QED
    BY <2>1, <2>3 DEF AskInv, Awaited, StartSent, Told
<1>3. CASE Read \/ Tick \/ Switch \/ UNCHANGED vars
  BY <1>3 DEF Read, Tick, Switch, vars, wire, client, server, AskInv, Awaited, StartSent, Told
<1> QED
  BY <1>1, <1>2, <1>3, ConnectAsks, StoreAnswersAsks, ReceiveAsks, HandlersAnswer
  DEF Next, PhoneNext

\* Once nothing is under way, the beats of a connected phone are credited to the
\* shift it holds (shift:heartbeat of index.js takes it from the socket), although
\* a clock-out clears the socket before the phone is told and replays, live starts
\* and heartbeats answer in any order: for any number of connections and whatever
\* may go wrong.  They are credited to none, never to another shift, in two states:
\* the start the phone waits for was lost with an earlier connection, or the
\* controller was stopped and has heard a late open state.
THEOREM BeatsLand == Spec => []BeatsReachTheirShift
<1> DEFINE Inv == FloorInv /\ BeatInv /\ PageInv /\ HeldInv /\ AskInv
<1>1. Init => Inv
  <2>1. Init => BeatInv /\ PageInv /\ AskInv
    BY DEF Init, BeatInv, WordInv, PageInv, AskInv, NoPhone
  <2>2. Init => HeldInv
    BY DEF Init, HeldInv, NoPhone
  <2> QED
    BY <2>1, <2>2, FloorInit
<1>2. Inv /\ [Next]_vars => Inv'
  BY FloorStep, BeatStep, PageStep, HeldStep, AskStep
<1>3. Inv => BeatsReachTheirShift
  <2> SUFFICES ASSUME Inv, Quiet, link = "up", phone.beating
               PROVE  \/ shiftId[sock] = phone.held
                      \/ shiftId[sock] = None /\ (Stranded \/ phone.stopped)
    BY DEF BeatsReachTheirShift
  <2>1. \A h \in Handlers : tasks[h].at = "idle"
    BY DEF Quiet, FloorInv, ServerInv
  <2>2. \A j \in DOMAIN toPhone : toPhone[j].kind = "replayed"
    BY DEF Quiet
  <2>3. Credited
    BY <2>2 DEF BeatInv, WordInv
  <2>4. phone.opening => Stranded
    <3>1. ~Awaited
      <4>1. <<sock, "start">> \in Handlers
        BY DEF FloorInv, WireInv, Handlers, Kinds
      <4> QED
        BY <2>1, <2>2, <4>1 DEF Awaited, StartSent, Told, Quiet
    <3>2. phone.opening => phone.asked # sock
      BY <3>1 DEF AskInv
    <3>3. phone.asked \in Nat /\ sock \in Nat /\ phone.asked <= sock
      BY BoundsAssumption DEF FloorInv, PhoneInv, WireInv, Phone, HeldInv
    <3> QED
      BY <3>2, <3>3 DEF Stranded
  <2> QED
    BY <2>1, <2>3, <2>4 DEF Credited, Served
<1> HIDE DEF Inv
<1>4. Spec => []Inv
  BY <1>1, <1>2, PTL DEF Spec
<1> QED
  BY <1>3, <1>4, PTL

-----------------------------------------------------------------------------
(* The types of TypeOK, the rows' among them. *)

RowsTyped == now \in Nat /\ shifts \in [Shift -> Ledger!Row \cup {None}]

\* A row of the table stays one when the service closes it, and when it is beaten.
LEMMA RowStaysRow ==
  ASSUME NEW row \in Ledger!Row, now \in Nat
  PROVE  /\ \A reason \in Ledger!Reasons : Ledger!ClosedAtLastBeat(row, reason) \in Ledger!Row
         /\ Ledger!Beaten(row) \in Ledger!Row
<1>1. ASSUME NEW reason \in Ledger!Reasons
      PROVE  Ledger!ClosedAtLastBeat(row, reason) \in Ledger!Row
  <2>1. Ledger!Greatest(row.started, row.beat) \in Nat
    BY DEF Ledger!Row, Ledger!Greatest
  <2>2. [at |-> Ledger!Greatest(row.started, row.beat), reason |-> reason] \in Ledger!Ending
    BY <2>1 DEF Ledger!Ending
  <2> QED
    BY <2>2 DEF Ledger!Row, Ledger!ClosedAtLastBeat
<1>2. Ledger!Beaten(row) \in Ledger!Row
  BY DEF Ledger!Row, Ledger!Beaten
<1> QED
  BY <1>1, <1>2

\* The table holds rows, whatever its callers do.
LEMMA RowsStayTyped ==
  ASSUME LedgerInv, RowsTyped, [Ledger!Next]_ledger
  PROVE  RowsTyped'
<1> USE DEF RowsTyped
<1>0. {"heartbeat_gap", "superseded"} \subseteq Ledger!Reasons
  BY DEF Ledger!Reasons
<1>1. ASSUME now' = now, shifts' = [s \in Shift |-> shifts'[s]],
             \A s \in Shift : shifts'[s] = shifts[s] \/ shifts'[s] \in Ledger!Row \cup {None}
      PROVE  RowsTyped'
  BY <1>1
<1>2. CASE UNCHANGED ledger \/ Ledger!Tick
  BY <1>2 DEF ledger, Ledger!Tick
<1>3. CASE Ledger!Sweep
  <2>1. ASSUME NEW s \in Shift, Ledger!IsStale(s)
        PROVE  Ledger!ClosedAtLastBeat(shifts[s], "heartbeat_gap") \in Ledger!Row
    BY <1>0, <2>1, RowStaysRow DEF Ledger!IsStale, Ledger!IsOpen, Ledger!IsRow
  <2> QED
    BY <1>1, <1>3, <2>1 DEF Ledger!Sweep, Ledger!SweptShifts
<1>4. CASE Ledger!Prune
  BY <1>1, <1>4 DEF Ledger!Prune
<1>5. ASSUME NEW c \in Starters, Ledger!Request(c) \/ Ledger!Return(c) PROVE RowsTyped'
  BY <1>5 DEF Ledger!Request, Ledger!BeginStart, Ledger!Return
<1>6. ASSUME NEW c \in Starters, Ledger!StartStep(c) PROVE RowsTyped'
  <2>0. /\ calls[c] \in Asked
        /\ calls[c].serial \in {Glasses, None} /\ calls[c].user = None
        /\ calls[c].stamp \in Stamps \cup {None}
    BY DEF LedgerInv, Asked
  <2>1. CASE Ledger!StartSweep(c)
    <3>1. ASSUME NEW s \in Shift, Ledger!IsStale(s)
          PROVE  Ledger!ClosedAtLastBeat(shifts[s], "heartbeat_gap") \in Ledger!Row
      BY <1>0, <3>1, RowStaysRow DEF Ledger!IsStale, Ledger!IsOpen, Ledger!IsRow
    <3> QED
      BY <1>1, <2>1, <3>1 DEF Ledger!StartSweep, Ledger!SweptShifts
  <2>2. CASE Ledger!StartResume(c)
    <3> DEFINE s == calls[c].resume
               row == [Ledger!Beaten(shifts[s]) EXCEPT
                         !.user = Ledger!Coalesce(calls[c].user, @)]
    <3>1. ASSUME Ledger!CanResume(c, s), s \in Shift PROVE row \in Ledger!Row
      <4>1. Ledger!Beaten(shifts[s]) \in Ledger!Row
        BY <3>1, RowStaysRow DEF Ledger!CanResume, Ledger!IsOpen, Ledger!IsRow
      <4> QED
        BY <2>0, <4>1 DEF Ledger!Row, Ledger!Coalesce
    <3>2. s \in Shift \/ s = None
      BY <2>0 DEF Asked, Known, LedgerInv
    <3>3. s = None => ~Ledger!CanResume(c, s)
      BY DEF Ledger!CanResume
    <3>4. \/ shifts' = shifts /\ now' = now
          \/ Ledger!CanResume(c, s) /\ shifts' = [shifts EXCEPT ![s] = row] /\ now' = now
      BY <2>2 DEF Ledger!StartResume
    <3> HIDE DEF s, row
    <3> QED
      BY <1>1, <3>1, <3>2, <3>3, <3>4
  <2>3. CASE Ledger!StartDedupe(c)
    BY <2>3 DEF Ledger!StartDedupe
  <2>4. CASE Ledger!StartSupersede(c)
    <3>1. ASSUME NEW s \in Shift, s \in Ledger!Rivals(c)
          PROVE  Ledger!ClosedAtLastBeat(shifts[s], "superseded") \in Ledger!Row
      BY <1>0, <3>1, RowStaysRow DEF Ledger!Rivals, Ledger!IsOpen, Ledger!IsRow
    <3> QED
      BY <1>1, <2>4, <3>1 DEF Ledger!StartSupersede
  <2>5. CASE Ledger!StartInsert(c)
    <3>1. Ledger!NewRow(c) \in Ledger!Row
      BY <2>0 DEF Ledger!NewRow, Ledger!Row
    <3> QED
      BY <1>1, <2>5, <3>1 DEF Ledger!StartInsert
  <2> QED
    BY <1>6, <2>1, <2>2, <2>3, <2>4, <2>5 DEF Ledger!StartStep
<1>7. ASSUME NEW s \in Shift, Ledger!Heartbeat(s) PROVE RowsTyped'
  <2>1. Ledger!Beaten(shifts[s]) \in Ledger!Row
    BY <1>7, RowStaysRow DEF Ledger!Heartbeat, Ledger!IsOpen, Ledger!IsRow
  <2> QED
    BY <1>1, <1>7, <2>1 DEF Ledger!Heartbeat
<1>8. ASSUME NEW s \in Shift, NEW reason, Ledger!End(s, reason) PROVE RowsTyped'
  <2> DEFINE ending == [at |-> Ledger!ClockOutTime(s), reason |-> Ledger!ClientReason(reason)]
  <2>1. shifts[s] \in Ledger!Row
    BY <1>8 DEF Ledger!End, Ledger!IsOpen, Ledger!IsRow
  <2>2. ending \in Ledger!Ending
    BY <2>1 DEF Ledger!Ending, Ledger!ClockOutTime, Ledger!Greatest, Ledger!ClientReason,
                Ledger!ClientReasons, Ledger!Reasons, Ledger!Row
  <2>3. shifts' = [shifts EXCEPT ![s] = [shifts[s] EXCEPT !.ended = ending]] /\ now' = now
    BY <1>8 DEF Ledger!End
  <2> HIDE DEF ending
  <2>4. [shifts[s] EXCEPT !.ended = ending] \in Ledger!Row
    BY <2>1, <2>2 DEF Ledger!Row
  <2> QED
    BY <1>1, <2>3, <2>4
<1> QED
  BY <1>2, <1>3, <1>4, <1>5, <1>6, <1>7, <1>8 DEF Ledger!Next

\* What no other invariant speaks of.
RestTyped == page \in {"dark", "up"} /\ registered \subseteq Socks /\ allowed \in BOOLEAN

\* What no invariant above speaks of has its type all the same.
LEMMA RestStaysTyped == ASSUME FloorInv, RestTyped, [Next]_vars PROVE RestTyped'
<1> USE DEF RestTyped
<1>1. CASE PhoneNext
  BY <1>1 DEF PhoneNext, Launch, Connect, StoreAnswers, SendBeat, PageHide, DispatchEnd,
     BufferStatus, Receive, Drop, Teardown, Disconnected, client, server
<1>2. CASE FrameArrives
  <2>1. Take /\ UNCHANGED elsewhere /\ (registered' = registered \cup {sock} \/ UNCHANGED registered)
    BY <1>2 DEF FrameArrives, RegisterArrives, StartArrives, EndArrives, BeatArrives, ReplayArrives
  <2>2. sock \in Socks
    BY <2>1, TakeOK
  <2> QED
    BY <2>1, <2>2 DEF elsewhere, client
<1>3. CASE \E k \in Socks : ReplayNext(k) \/ ReplayDone(k)
  BY <1>3 DEF ReplayNext, ReplayDone, elsewhere, client
<1>4. ASSUME NEW h \in Handlers, HandlerStep(h) PROVE RestTyped'
  BY <1>4 DEF HandlerStep, StartRuns, StartAnswered, EndAnswered, BeatAnswered, elsewhere,
     client, server
<1>5. CASE Read \/ Tick \/ Switch \/ UNCHANGED vars
  BY <1>5 DEF Read, Tick, Switch, vars, client, server
<1> QED
  BY <1>1, <1>2, <1>3, <1>4, <1>5 DEF Next

\* A queue of the floor is a buffer.
LEMMA QueueIsBuffer == ASSUME LedgerInv PROVE Queue \subseteq Buffer
<1>1. Event \subseteq [event: Bufferable, id: Shift \cup {None}, at: 0 .. 2 * MaxSock]
  BY DEF Event, Known, LedgerInv
<1>2. ASSUME NEW q \in Queue
      PROVE  q \in Seq([event: Bufferable, id: Shift \cup {None}, at: 0 .. 2 * MaxSock])
  BY <1>1, SeqGrows DEF Queue
<1> QED
  BY <1>2 DEF Queue, Buffer

\* The ledger's rows and calls, the phone, what it has stored, the connections and
\* the handlers are always what TypeOK of ShiftFloor says, a buffer of more events
\* than MAX_QUEUED (shift.ts, dispatch) or a second clock for one start among what
\* it rules out.
THEOREM FloorTypeCorrect == Spec => []TypeOK
<1> DEFINE Inv == FloorInv /\ PageInv /\ RowsTyped /\ RestTyped
<1>1. Init => Inv
  <2>1. Init => PageInv /\ RestTyped
    BY DEF Init, PageInv, RestTyped
  <2>2. Ledger!Init => RowsTyped
    BY DEF Ledger!Init, RowsTyped
  <2> QED
    BY <2>1, <2>2, FloorInit
<1>2. Inv /\ [Next]_vars => Inv'
  BY FloorStep, PageStep, RowsStayTyped, RestStaysTyped DEF FloorInv
<1>3. Inv => TypeOK
  <2> SUFFICES ASSUME Inv PROVE TypeOK
    OBVIOUS
  <2>1. Ledger!TypeOK
    <3>1. Asked \subseteq Ledger!Call
      BY DEF Asked, Known, Ledger!Call, FloorInv, LedgerInv
    <3> QED
      BY <3>1 DEF Ledger!TypeOK, RowsTyped, FloorInv, LedgerInv
  <2>2. Known \subseteq Shift \cup {None} /\ Queue \subseteq Buffer
    BY QueueIsBuffer DEF Known, FloorInv, LedgerInv
  <2>3. phone \in Phone /\ store \in Store
    BY DEF FloorInv, PhoneInv
  <2>4. /\ phone \in [held: Shift \cup {None}, opening: BOOLEAN, asked: 0 .. MaxSock, stopped: BOOLEAN,
                      loaded: {"no", "loading", "yes"}, beating: BOOLEAN,
                      hidden: BOOLEAN, closing: Shift \cup {None}, queue: Buffer]
        /\ store \in [held: Shift \cup {None}, queue: Buffer]
    BY <2>2, <2>3 DEF Phone, Store
  <2>5. \A h \in Handlers : tasks[h].at \in {"idle", "next", "calling", "ending", "beating"}
    BY DEF FloorInv, ServerInv, Task
  <2>6. stamp \in 0 .. 2 * MaxSock
    BY BoundsAssumption DEF FloorInv, PhoneInv, WireInv, Unstamped
  <2>7. shiftId \in [Socks -> Shift \cup {None}]
    BY <2>2 DEF FloorInv, ServerInv
  <2> QED
    BY <2>1, <2>4, <2>5, <2>6, <2>7 DEF TypeOK, FloorInv, WireInv, PageInv, RestTyped
<1> QED
  BY <1>1, <1>2, <1>3, PTL DEF Spec

-----------------------------------------------------------------------------
(* One pair of glasses, one open shift.  Two starts that run together can  *)
(* leave two rows open; what keeps them apart is the latch of open(), as   *)
(* long as the page stays and its store answers at once: the wifi, the     *)
(* control plane and the switch may do what they like.                     *)

SteadyPage == Faults \cap {"kill", "pagehide", "slow_store"} = {}

HealthOnly(queue) == \A i \in DOMAIN queue : queue[i].event = "device:health"

CalmFrame(f) ==
  \/ f.event \in {"register", "shift:heartbeat", "shift:start"}
  \/ f.event = "telemetry:replay" /\ HealthOnly(f.events)

\* A page that stays has no clock-out to send and buffers no start, so its
\* replays ask the ledger for nothing.
CalmPhone ==
  /\ phone.loaded # "loading" /\ phone.closing = None /\ ~phone.hidden
  /\ HealthOnly(phone.queue) /\ HealthOnly(store.queue)
  /\ backlog = <<>>
  /\ \A i \in DOMAIN toServer : CalmFrame(toServer[i])

CalmServer ==
  \A k \in Socks :
    /\ tasks[<<k, "start">>].at \in {"idle", "calling"}
    /\ tasks[<<k, "replay">>].at \in {"idle", "next"} /\ HealthOnly(tasks[<<k, "replay">>].todo)
    /\ tasks[<<k, "end">>].at = "idle"
    /\ tasks[<<k, "beat">>].at \in {"idle", "beating"}
    /\ k > sock => shiftId[k] = None

\* A start on the wire, and one a handler has asked the ledger for.
Starting(i) == i \in DOMAIN toServer /\ toServer[i].event = "shift:start"
Calling(k) == k \in Socks /\ tasks[<<k, "start">>].at = "calling"
Asking == (\E i : Starting(i)) \/ \E k : Calling(k)

\* There is one start at most; while there is, the latch is on, and nothing else
\* the phone can hear would release it.
LatchInv ==
  /\ \A i, j : Starting(i) /\ Starting(j) => i = j
  /\ \A k, l : Calling(k) /\ Calling(l) => k = l
  /\ \A i, k : ~(Starting(i) /\ Calling(k))
  /\ Asking => /\ page = "up" /\ phone.opening
               /\ sock \in Socks /\ shiftId[sock] = None
               /\ tasks[<<sock, "beat">>].at = "idle"
               /\ \A j \in DOMAIN toPhone : toPhone[j].kind = "replayed"

\* A row of these glasses.
OurRow(s) == shifts[s] \in Ledger!Row /\ shifts[s].serial = Glasses

\* A call is in hand for the handler that waits for it, and for these glasses;
\* between its last two transactions no row is open.
OneInv ==
  /\ now \in Nat
  /\ \A c \in Starters : calls[c].step # "idle" =>
       c[2] = "start" /\ tasks[c].at = "calling" /\ calls[c].user = None
  /\ \A c \in Starters : Ledger!InHand(c) => calls[c].serial = Glasses
  /\ \A c \in Starters : calls[c].step = "insert" => \A s \in Shift : ~Ledger!IsOpen(s)
  /\ \A s \in Shift : Ledger!IsRow(s) => OurRow(s)
  /\ \A s, t \in Shift : Ledger!IsOpen(s) /\ Ledger!IsOpen(t) => s = t

Steady == FloorInv /\ CalmPhone /\ CalmServer /\ LatchInv /\ OneInv

\* The rest of Steady, without what FloorStep gives.
StillSteady == CalmPhone' /\ CalmServer' /\ LatchInv' /\ OneInv'

\* What is left of the starts on the wire, d places nearer, is the start there
\* was, and the latch is on while there is one.
LEMMA LatchMoves ==
  ASSUME LatchInv, NEW d \in Int, toServer' \in Seq(Frame), page' = page,
         \A i \in DOMAIN toServer' : toServer'[i].event = "shift:start" => Starting(i + d),
         \A k \in Socks : tasks'[<<k, "start">>].at = "calling" => Calling(k),
         Asking => /\ phone'.opening /\ sock' \in Socks /\ shiftId'[sock'] = None
                   /\ tasks'[<<sock', "beat">>].at = "idle"
                   /\ \A j \in DOMAIN toPhone' : toPhone'[j].kind = "replayed"
  PROVE  LatchInv'
<1>1. \A i : Starting(i)' => Starting(i + d) /\ i \in Int
  <2>1. DOMAIN toServer' \subseteq Int
    OBVIOUS
  <2> QED
    BY <2>1 DEF Starting
<1>2. \A k : Calling(k)' => Calling(k)
  BY DEF Calling
<1>3. Asking' => Asking
  BY <1>1, <1>2 DEF Asking
<1>4. \A i, j : Starting(i)' /\ Starting(j)' => i = j
  <2> SUFFICES ASSUME NEW i, NEW j, Starting(i)', Starting(j)' PROVE i = j
    OBVIOUS
  <2>1. i \in Int /\ j \in Int /\ Starting(i + d) /\ Starting(j + d)
    BY <1>1
  <2>2. i + d = j + d
    BY <2>1 DEF LatchInv
  <2> QED
    BY <2>1, <2>2
<1>5. \A k, l : Calling(k)' /\ Calling(l)' => k = l
  BY <1>2 DEF LatchInv
<1>6. \A i, k : ~(Starting(i)' /\ Calling(k)')
  BY <1>1, <1>2 DEF LatchInv
<1>7. Asking' => Asking /\ page' = "up"
  BY <1>3 DEF LatchInv
<1> QED
  BY <1>4, <1>5, <1>6, <1>7 DEF LatchInv

\* A step of the floor that leaves the ledger alone leaves it one open row.
LEMMA OneAlone ==
  ASSUME OneInv, now' = now, shifts' = shifts, calls' = calls,
         \A c \in Starters : calls[c].step # "idle" /\ tasks[c].at = "calling"
                             => tasks'[c].at = "calling"
  PROVE  OneInv'
<1>1. \A c \in Starters : calls'[c].step # "idle" =>
        c[2] = "start" /\ tasks'[c].at = "calling" /\ calls'[c].user = None
  BY DEF OneInv
<1>2. \A c \in Starters : Ledger!InHand(c)' => calls'[c].serial = Glasses
  BY DEF OneInv, Ledger!InHand
<1>3. \A c \in Starters : calls'[c].step = "insert" => \A s \in Shift : ~Ledger!IsOpen(s)'
  BY DEF OneInv, Ledger!IsOpen, Ledger!IsRow
<1>4. \A s \in Shift : Ledger!IsRow(s)' => OurRow(s)'
  BY DEF OneInv, Ledger!IsRow, OurRow
<1>5. \A s, t \in Shift : Ledger!IsOpen(s)' /\ Ledger!IsOpen(t)' => s = t
  BY DEF OneInv, Ledger!IsOpen, Ledger!IsRow
<1> QED
  BY <1>1, <1>2, <1>3, <1>4, <1>5 DEF OneInv

\* What is frozen stays: a battery report is all that is put in the buffer.
LEMMA BufferedHealth ==
  ASSUME NEW q \in Queue, HealthOnly(q) PROVE HealthOnly(Buffered(q, HealthEvent))
<1> DEFINE longer == Append(q, HealthEvent)
<1>1. /\ longer \in Seq(Event) /\ Len(q) \in Nat /\ DOMAIN q = 1 .. Len(q)
      /\ DOMAIN longer = 1 .. Len(q) + 1
      /\ \A i \in DOMAIN q : longer[i] = q[i]
      /\ longer[Len(q) + 1] = HealthEvent /\ Len(longer) = Len(q) + 1
  BY AppendTo, Emissions DEF Queue
<1> HIDE DEF longer
<1>2. HealthEvent.event = "device:health"
  BY DEF HealthEvent
<1>3. HealthOnly(longer)
  <2>1. ASSUME NEW i \in DOMAIN longer PROVE longer[i].event = "device:health"
    <3>1. i \in DOMAIN q \/ i = Len(q) + 1
      BY <1>1
    <3> QED
      BY <1>1, <1>2, <3>1 DEF HealthOnly
  <2> QED
    BY <2>1 DEF HealthOnly
<1>4. longer # <<>>
  BY <1>1
<1>5. HealthOnly(Tail(longer))
  <2>1. \A i \in DOMAIN Tail(longer) :
          i + 1 \in 1 .. Len(longer) /\ Tail(longer)[i] = longer[i + 1]
    BY <1>1, <1>4, TailOf
  <2> QED
    BY <1>1, <1>3, <2>1 DEF HealthOnly
<1> QED
  BY <1>3, <1>5 DEF Buffered, longer

\* What a page that stays sends as it connects.
LEMMA FlushedSteady ==
  ASSUME NEW p \in Phone, HealthOnly(p.queue), store \in Store,
         FlushAndOpen(p, TRUE, <<Register>>), StartOf(p) \in Frame
  PROVE  /\ phone' \in [held: {p.held}, opening: {p.opening \/ Opens(p)},
                        asked: {p.asked, sock'}, stopped: {p.stopped}, loaded: {p.loaded}, beating: {p.beating}, hidden: {p.hidden},
                         closing: {p.closing}, queue: {p.queue}]
         /\ store'.queue = store.queue /\ backlog' = <<>> /\ toServer' \in Seq(Frame)
         /\ \A i \in DOMAIN toServer' : CalmFrame(toServer'[i])
         /\ \A i \in DOMAIN toServer' :
              toServer'[i].event = "shift:start"
                => Opens(p) /\ i = Len(toServer') /\ toServer'[i] = StartOf(p)
<1> DEFINE pre == IF p.queue # <<>> THEN <<Register>> \o <<Replay(p.queue)>> ELSE <<Register>> \o <<>>
           start == IF Opens(p) THEN <<StartOf(p)>> ELSE <<>>
<1>1. Register \in Frame /\ Replay(p.queue) \in Frame
  BY Emissions DEF Phone
<1>2. CalmFrame(Register) /\ CalmFrame(Replay(p.queue)) /\ CalmFrame(StartOf(p))
      /\ Register.event # "shift:start" /\ Replay(p.queue).event # "shift:start"
  BY DEF CalmFrame, Register, Replay, StartOf, StartEvent
<1>3. /\ pre \in Seq(Frame)
      /\ \A i \in DOMAIN pre : CalmFrame(pre[i]) /\ pre[i].event # "shift:start"
  <2>1. CASE p.queue # <<>>
    <3>1. pre = Append(<<Register>>, Replay(p.queue))
      BY <1>1, <2>1
    <3>2. <<Register>> \in Seq(Frame) /\ Len(<<Register>>) = 1
      BY <1>1
    <3> HIDE DEF pre
    <3>3. /\ pre \in Seq(Frame) /\ DOMAIN pre = 1 .. 2
          /\ pre[1] = Register /\ pre[2] = Replay(p.queue)
      BY <1>1, <3>1, <3>2, AppendTo
    <3>4. \A i \in 1 .. 2 : i = 1 \/ i = 2
      OBVIOUS
    <3> QED
      BY <1>2, <3>3, <3>4
  <2>2. CASE p.queue = <<>>
    <3>1. pre = <<Register>>
      BY <2>2
    <3> HIDE DEF pre
    <3> QED
      BY <1>1, <1>2, <3>1
  <2> QED
    BY <2>1, <2>2
<1>4. /\ phone' = [p EXCEPT !.opening = @ \/ Opens(p), !.queue = p.queue,
                            !.asked = IF Opens(p) THEN sock' ELSE @]
      /\ store' = [store EXCEPT !.queue = @]
      /\ toServer' = pre \o start /\ backlog' = <<>>
  BY DEF FlushAndOpen
<1>5. phone' \in [held: {p.held}, opening: {p.opening \/ Opens(p)},
                  asked: {p.asked, sock'}, stopped: {p.stopped}, loaded: {p.loaded}, beating: {p.beating}, hidden: {p.hidden},
                  closing: {p.closing}, queue: {p.queue}]
  BY <1>4 DEF Phone
<1>6. store'.queue = store.queue
  BY <1>4 DEF Store
<1> HIDE DEF pre
<1>7. CASE Opens(p)
  <2>1. toServer' = Append(pre, StartOf(p))
    BY <1>3, <1>4, <1>7
  <2>2. /\ toServer' \in Seq(Frame) /\ Len(toServer') = Len(pre) + 1 /\ Len(pre) \in Nat
        /\ DOMAIN pre = 1 .. Len(pre) /\ DOMAIN toServer' = 1 .. Len(pre) + 1
        /\ \A i \in DOMAIN pre : toServer'[i] = pre[i]
        /\ toServer'[Len(pre) + 1] = StartOf(p)
    BY <1>3, <2>1, AppendTo
  <2>3. \A i \in DOMAIN toServer' : i \in DOMAIN pre \/ i = Len(pre) + 1
    BY <2>2
  <2> QED
    BY <1>2, <1>3, <1>4, <1>5, <1>6, <1>7, <2>2, <2>3
<1>8. CASE ~Opens(p)
  <2>1. toServer' = pre
    BY <1>3, <1>4, <1>8
  <2> QED
    BY <1>3, <1>4, <1>5, <1>6, <1>8, <2>1
<1> QED
  BY <1>7, <1>8

\* What a floor that stays typed hands on.
LEMMA StillTyped ==
  ASSUME FloorInv', issued' = issued
  PROVE  toServer' \in Seq(Frame) /\ toPhone' \in Seq(Message)
BY SameIds DEF FloorInv, WireInv

\* The page comes up: nothing had asked for a shift.
LEMMA LaunchSteady == ASSUME Steady, Launch PROVE StillSteady
<1> USE DEF Steady
<1>1. /\ page = "dark" /\ phone' = NoPhone /\ store' = store
      /\ UNCHANGED <<now, shifts, calls, link, sock, backlog, toServer, toPhone, shiftId, tasks>>
  BY DEF Launch, ledger, wire, server
<1>2. ~Asking
  BY <1>1 DEF LatchInv
<1>3. CalmPhone'
  BY <1>1 DEF CalmPhone, NoPhone, HealthOnly
<1>4. CalmServer'
  BY <1>1 DEF CalmServer
<1>5. LatchInv'
  BY <1>1, <1>2 DEF LatchInv, Asking, Starting, Calling
<1>6. OneInv'
  BY <1>1, OneAlone
<1> QED
  BY <1>3, <1>4, <1>5, <1>6 DEF StillSteady

\* A connection opens: it sends one start at most, and only where none is out.
LEMMA ConnectSteady == ASSUME SteadyPage, Steady, Connect PROVE StillSteady
<1> USE DEF Steady
<1>1. /\ page = "up" /\ page' = page /\ link = "down" /\ sock' = sock + 1 /\ link' = "up"
      /\ toPhone' = <<>> /\ sock \in 0 .. MaxSock /\ sock + 1 <= MaxSock
      /\ UNCHANGED <<now, shifts, calls, shiftId, tasks>>
  <2>1. sock \in 0 .. MaxSock /\ sock < MaxSock /\ MaxSock \in Nat
    BY BoundsAssumption DEF Connect, FloorInv, WireInv
  <2>2. sock + 1 <= MaxSock
    BY <2>1
  <2> QED
    BY <2>1, <2>2 DEF Connect, ledger, server
<1>2. phone \in Phone /\ store \in Store /\ toServer = <<>> /\ backlog = <<>>
  BY <1>1 DEF FloorInv, PhoneInv, WireInv, CalmPhone
<1>3. sock' \in Socks /\ sock' > sock
  BY <1>1, BoundsAssumption DEF Socks
<1>4. shiftId'[sock'] = None /\ tasks'[<<sock', "beat">>].at = "idle"
  <2>1. ~(sock' <= sock) /\ <<sock', "beat">> \in Handlers
    BY <1>1, <1>3 DEF Handlers, Kinds
  <2>2. <<sock', "beat">>[1] = sock'
    OBVIOUS
  <2>3. tasks[<<sock', "beat">>].at = "idle"
    BY <2>1, <2>2 DEF FloorInv, ServerInv
  <2> QED
    BY <1>1, <1>3, <2>3 DEF CalmServer
<1>5. CalmServer'
  <2>1. \A k \in Socks : k > sock' => k > sock
    BY <1>1 DEF Socks
  <2> QED
    BY <1>1, <2>1 DEF CalmServer
<1>6. OneInv'
  BY <1>1, OneAlone
<1>7. \A i : ~Starting(i)
  BY <1>2 DEF Starting
<1>8. Append(backlog, Register) = <<Register>>
  BY <1>2
<1>9. CASE phone.stopped /\ toServer' = <<Register>> /\ backlog' = <<>> /\ UNCHANGED <<phone, store>>
  <2>1. \A i \in DOMAIN toServer' : toServer'[i] = Register
    BY <1>9
  <2>2. Register.event = "register"
    BY DEF Register
  <2>3. CalmPhone'
    BY <1>9, <2>1, <2>2 DEF CalmPhone, CalmFrame
  <2>4. toServer' \in Seq(Frame)
    BY <1>9, Emissions
  <2>5. Asking => phone.opening
    BY DEF LatchInv
  <2>6. LatchInv'
    <3>1. \A k \in Socks : tasks'[<<k, "start">>].at = "calling" => Calling(k)
      BY <1>1 DEF Calling
    <3>2. \A i \in DOMAIN toServer' : toServer'[i].event = "shift:start" => Starting(i + 0)
      BY <2>1, <2>2
    <3>3. 0 \in Int
      OBVIOUS
    <3> QED
      BY <1>1, <1>3, <1>4, <1>9, <2>4, <2>5, <3>1, <3>2, <3>3, LatchMoves
  <2> QED
    BY <1>5, <1>6, <2>3, <2>6 DEF StillSteady
<1>10. CASE FlushAndOpen(IF phone.loaded = "no" THEN Loaded ELSE phone, TRUE, <<Register>>)
  <2> DEFINE p == IF phone.loaded = "no" THEN Loaded ELSE phone
  <2>1. /\ p \in Phone /\ HealthOnly(p.queue) /\ p.loaded # "loading" /\ p.closing = None
        /\ ~p.hidden /\ p.opening = phone.opening
    BY <1>2, NewPhones DEF CalmPhone, Loaded, Phone
  <2>2. FlushAndOpen(p, TRUE, <<Register>>)
    BY <1>10
  <2> HIDE DEF p
  <2>3. StartOf(p) \in Frame
    <3>1. stamp \in Nat /\ stamp + Unstamped <= sock /\ Unstamped \in {0, 1}
      BY DEF FloorInv, PhoneInv, Unstamped
    <3>2. stamp + 1 <= MaxSock
      BY <1>1, <3>1, BoundsAssumption
    <3> QED
      BY <2>1, <3>1, <3>2, StartIsEvent, Emissions
  <2>4. /\ phone' \in [held: {p.held}, opening: {p.opening \/ Opens(p)},
                       asked: {p.asked, sock'}, stopped: {p.stopped}, loaded: {p.loaded}, beating: {p.beating}, hidden: {p.hidden},
                       closing: {p.closing}, queue: {p.queue}]
        /\ store'.queue = store.queue /\ backlog' = <<>> /\ toServer' \in Seq(Frame)
        /\ \A i \in DOMAIN toServer' : CalmFrame(toServer'[i])
        /\ \A i \in DOMAIN toServer' :
             toServer'[i].event = "shift:start" => Opens(p) /\ i = Len(toServer')
    BY <1>2, <2>1, <2>2, <2>3, FlushedSteady
  <2>5. CalmPhone'
    BY <2>1, <2>4 DEF CalmPhone
  <2>6. phone'.opening = (phone.opening \/ Opens(p))
    BY <2>1, <2>4
  <2>7. LatchInv'
    <3>1. CASE Asking
      <4>1. phone.opening /\ ~Opens(p)
        BY <2>1, <3>1 DEF LatchInv, Opens
      <4>2. \A k \in Socks : tasks'[<<k, "start">>].at = "calling" => Calling(k)
        BY <1>1 DEF Calling
      <4>3. \A i \in DOMAIN toServer' : toServer'[i].event = "shift:start" => Starting(i + 0)
        BY <2>4, <4>1
      <4>4. Asking => /\ phone'.opening /\ sock' \in Socks /\ shiftId'[sock'] = None
                      /\ tasks'[<<sock', "beat">>].at = "idle"
                      /\ \A j \in DOMAIN toPhone' : toPhone'[j].kind = "replayed"
        <5>1. phone'.opening
          BY <2>6, <4>1, Zenon
        <5>2. \A j \in DOMAIN toPhone' : toPhone'[j].kind = "replayed"
          BY <1>1
        <5>3. shiftId'[sock'] = None /\ tasks'[<<sock', "beat">>].at = "idle"
          BY <1>1, <1>4
        <5> QED
          BY <1>3, <5>1, <5>2, <5>3
      <4>5. 0 \in Int /\ toServer' \in Seq(Frame) /\ page' = page /\ LatchInv
        BY <1>1, <2>4
      <4> QED
        BY <4>2, <4>3, <4>4, <4>5, LatchMoves
    <3>2. CASE ~Asking
      <4>1. \A k : ~Calling(k)'
        BY <1>1, <3>2 DEF Asking, Calling
      <4>2. \A i : Starting(i)' => Opens(p) /\ i = Len(toServer')
        BY <2>4 DEF Starting
      <4>3. Asking' => phone'.opening
        BY <2>6, <4>1, <4>2 DEF Asking
      <4> QED
        BY <1>1, <1>3, <1>4, <4>1, <4>2, <4>3 DEF LatchInv
    <3> QED
      BY <3>1, <3>2
  <2> QED
    BY <1>5, <1>6, <2>5, <2>7 DEF StillSteady
<1> QED
  BY <1>8, <1>9, <1>10 DEF Connect, SteadyPage

\* A heartbeat goes out.
LEMMA SendBeatSteady == ASSUME Steady, FloorInv', SendBeat PROVE StillSteady
<1> USE DEF Steady
<1>1. /\ toServer' = Append(toServer, Beat)
      /\ UNCHANGED <<now, issued, shifts, calls, link, sock, backlog, toPhone, page, phone, store,
                     shiftId, tasks>>
  BY DEF SendBeat, ledger, client, server
<1>2. /\ DOMAIN toServer = 1 .. Len(toServer) /\ DOMAIN toServer' = 1 .. Len(toServer) + 1
      /\ Len(toServer) \in Nat
      /\ \A i \in DOMAIN toServer : toServer'[i] = toServer[i]
      /\ toServer'[Len(toServer) + 1] = Beat
  BY <1>1, AppendTo, Emissions DEF FloorInv, WireInv
<1>3. \A i \in DOMAIN toServer' : i \in DOMAIN toServer \/ i = Len(toServer) + 1
  BY <1>2
<1>4. Beat.event = "shift:heartbeat"
  BY DEF Beat
<1>5. CalmPhone'
  <2>1. \A i \in DOMAIN toServer' : CalmFrame(toServer'[i])
    BY <1>2, <1>3, <1>4 DEF CalmPhone, CalmFrame
  <2> QED
    BY <1>1, <2>1 DEF CalmPhone
<1>6. LatchInv'
  <2>1. \A i \in DOMAIN toServer' : toServer'[i].event = "shift:start" => Starting(i + 0)
    BY <1>2, <1>3, <1>4 DEF Starting
  <2>2. \A k \in Socks : tasks'[<<k, "start">>].at = "calling" => Calling(k)
    BY <1>1 DEF Calling
  <2>3. 0 \in Int /\ toServer' \in Seq(Frame)
    BY <1>1, StillTyped
  <2>4. Asking => /\ phone'.opening /\ sock' \in Socks /\ shiftId'[sock'] = None
                  /\ tasks'[<<sock', "beat">>].at = "idle"
                  /\ \A j \in DOMAIN toPhone' : toPhone'[j].kind = "replayed"
    BY <1>1 DEF LatchInv
  <2> QED
    BY <1>1, <2>1, <2>2, <2>3, <2>4, LatchMoves
<1>7. CalmServer' /\ OneInv'
  BY <1>1, OneAlone DEF CalmServer
<1> QED
  BY <1>5, <1>6, <1>7 DEF StillSteady

\* A battery report is buffered.
LEMMA BufferStatusSteady == ASSUME Steady, BufferStatus PROVE StillSteady
<1> USE DEF Steady
<1> DEFINE queue == Buffered(phone.queue, HealthEvent)
<1>1. /\ phone' = [phone EXCEPT !.queue = queue] /\ store' = [store EXCEPT !.queue = queue]
      /\ UNCHANGED <<now, shifts, calls, link, sock, backlog, toServer, toPhone, page, shiftId,
                     tasks>>
  BY DEF BufferStatus, ledger, wire, server
<1>2. phone \in Phone /\ store \in Store /\ HealthOnly(queue)
  BY BufferedHealth DEF FloorInv, PhoneInv, CalmPhone, Phone
<1> HIDE DEF queue
<1>3. /\ phone'.queue = queue /\ store'.queue = queue /\ phone'.loaded = phone.loaded
      /\ phone'.closing = phone.closing /\ phone'.hidden = phone.hidden
      /\ phone'.opening = phone.opening
  BY <1>1, <1>2 DEF Phone, Store
<1>4. CalmPhone'
  BY <1>1, <1>2, <1>3 DEF CalmPhone
<1>5. CalmServer'
  BY <1>1 DEF CalmServer
<1>6. LatchInv'
  BY <1>1, <1>3 DEF LatchInv, Asking, Starting, Calling
<1>7. OneInv'
  BY <1>1, OneAlone
<1> QED
  BY <1>4, <1>5, <1>6, <1>7 DEF StillSteady

\* While a start is out, nothing the phone hears is about a shift.
LEMMA ReceiveSteady == ASSUME Steady, Receive PROVE StillSteady
<1> USE DEF Steady
<1>0. /\ phone \in Phone /\ store \in Store /\ toPhone \in Seq(Message) /\ toPhone # <<>>
      /\ toPhone' = Tail(toPhone)
      /\ UNCHANGED <<now, shifts, calls, link, sock, backlog, toServer, page, shiftId, tasks>>
  BY DEF Receive, ledger, server, FloorInv, PhoneInv, WireInv
<1>1. /\ Head(toPhone) \in Message /\ Head(toPhone) = toPhone[1] /\ 1 \in DOMAIN toPhone
      /\ \A j \in DOMAIN toPhone' : j + 1 \in DOMAIN toPhone /\ toPhone'[j] = toPhone[j + 1]
  BY <1>0, TailOf
<1>2. Head(toPhone).kind \in {"open", "closed", "stop", "retry", "replayed"}
  BY <1>1 DEF Message
<1>3. /\ phone'.loaded = phone.loaded /\ phone'.closing = phone.closing
      /\ phone'.hidden = phone.hidden
      /\ phone'.queue = phone.queue \/ phone'.queue = <<>>
      /\ store'.queue = store.queue \/ store'.queue = <<>>
      /\ Head(toPhone).kind = "replayed" => phone'.opening = phone.opening
  <2> DEFINE m == Head(toPhone)
  <2>0. m.kind \in {"open", "closed", "stop", "retry", "replayed"}
    BY <1>2
  <2>1. /\ m.kind = "open" =>
             phone' = [phone EXCEPT !.opening = FALSE, !.held = m.id, !.beating = TRUE]
             /\ store' = [store EXCEPT !.held = m.id]
        /\ m.kind = "stop" =>
             phone' = [phone EXCEPT !.opening = FALSE, !.held = None, !.beating = FALSE,
                                    !.stopped = TRUE, !.queue = <<>>]
             /\ store' = [held |-> None, queue |-> <<>>]
        /\ m.kind \in {"closed", "retry"} =>
             phone' = [phone EXCEPT !.opening = FALSE, !.held = None, !.beating = FALSE]
             /\ store' = [store EXCEPT !.held = None]
        /\ m.kind = "replayed" =>
             phone' = [phone EXCEPT !.queue = <<>>]
             /\ store' = [store EXCEPT !.queue = IF phone.queue # <<>> THEN <<>> ELSE @]
    BY <2>0 DEF Receive
  <2> HIDE DEF m
  <2>2. CASE m.kind = "open"
    BY <1>0, <2>1, <2>2 DEF Phone, Store, m
  <2>3. CASE m.kind = "stop"
    <3>1. /\ phone' = [phone EXCEPT !.opening = FALSE, !.held = None, !.beating = FALSE,
                                    !.stopped = TRUE, !.queue = <<>>]
          /\ store' = [held |-> None, queue |-> <<>>]
      BY <2>1, <2>3
    <3>2. /\ phone'.loaded = phone.loaded /\ phone'.closing = phone.closing
          /\ phone'.hidden = phone.hidden /\ phone'.queue = <<>>
      BY <1>0, <3>1 DEF Phone
    <3>3. store'.queue = <<>>
      BY <3>1
    <3> QED
      BY <2>3, <3>2, <3>3 DEF m
  <2>4. CASE m.kind \in {"closed", "retry"}
    BY <1>0, <2>1, <2>4 DEF Phone, Store, m
  <2>5. CASE m.kind = "replayed"
    BY <1>0, <2>1, <2>5 DEF Phone, Store
  <2> QED
    BY <2>0, <2>2, <2>3, <2>4, <2>5
<1>4. HealthOnly(<<>>)
  BY DEF HealthOnly
<1>5. CalmPhone'
  BY <1>0, <1>3, <1>4 DEF CalmPhone
<1>6. CalmServer'
  BY <1>0 DEF CalmServer
<1>7. Asking => phone'.opening /\ \A j \in DOMAIN toPhone' : toPhone'[j].kind = "replayed"
  BY <1>1, <1>3 DEF LatchInv
<1>8. LatchInv'
  BY <1>0, <1>7 DEF LatchInv, Asking, Starting, Calling
<1>9. OneInv'
  BY <1>0, OneAlone
<1> QED
  BY <1>5, <1>6, <1>8, <1>9 DEF StillSteady

\* The wifi drops: a start on the wire is gone, one in hand goes on, and the
\* latch stays as it is.
LEMMA DropSteady == ASSUME Steady, Drop PROVE StillSteady
<1> USE DEF Steady
<1>1. /\ link = "up" /\ toServer' = <<>> /\ toPhone' = <<>>
      /\ shiftId' = [shiftId EXCEPT ![sock] = None]
      /\ UNCHANGED <<now, shifts, calls, sock, backlog, page, phone, store, tasks>>
  BY DEF Drop, Disconnected, ledger, client
<1>2. \A k \in Socks : shiftId'[k] = shiftId[k] \/ shiftId'[k] = None
  BY <1>1 DEF FloorInv, ServerInv
<1>3. CalmPhone' /\ CalmServer'
  BY <1>1, <1>2 DEF CalmPhone, CalmServer
<1>4. OneInv'
  BY <1>1, OneAlone
<1>5. LatchInv'
  <2>1. \A i \in DOMAIN toServer' : toServer'[i].event = "shift:start" => Starting(i + 0)
    BY <1>1
  <2>2. \A k \in Socks : tasks'[<<k, "start">>].at = "calling" => Calling(k)
    BY <1>1 DEF Calling
  <2>3. 0 \in Int /\ toServer' \in Seq(Frame)
    BY <1>1
  <2>4. Asking => /\ phone'.opening /\ sock' \in Socks /\ shiftId'[sock'] = None
                  /\ tasks'[<<sock', "beat">>].at = "idle"
                  /\ \A j \in DOMAIN toPhone' : toPhone'[j].kind = "replayed"
    BY <1>1, <1>2 DEF LatchInv
  <2> QED
    BY <1>1, <2>1, <2>2, <2>3, <2>4, LatchMoves
<1> QED
  BY <1>3, <1>4, <1>5 DEF StillSteady

\* Whatever a page that stays does.
LEMMA PhoneSteady == ASSUME SteadyPage, Steady, FloorInv', PhoneNext PROVE StillSteady
<1>1. ~StoreAnswers /\ ~Teardown /\ ~DispatchEnd /\ ~PageHide
  BY DEF Steady, CalmPhone, StoreAnswers, Teardown, DispatchEnd, PageHide, SteadyPage
<1> QED
  BY <1>1, LaunchSteady, ConnectSteady, SendBeatSteady, BufferStatusSteady, ReceiveSteady,
     DropSteady DEF PhoneNext

\* The rows go on as they are, with a later heartbeat, or over: no more of
\* them are open than were.
RowsClose ==
  \A s \in Shift :
    \/ shifts'[s] = shifts[s]
    \/ /\ Ledger!IsOpen(s)
       /\ shifts'[s] \in Ledger!Row /\ shifts'[s].serial = Glasses

\* Rows that close stay those of the glasses, and open none.
LEMMA ClosingRows ==
  ASSUME OneInv, RowsClose
  PROVE  /\ \A s \in Shift : Ledger!IsRow(s)' => OurRow(s)'
         /\ \A s \in Shift : Ledger!IsOpen(s)' => Ledger!IsOpen(s)
<1>1. ASSUME NEW s \in Shift
      PROVE  (Ledger!IsRow(s)' => OurRow(s)') /\ (Ledger!IsOpen(s)' => Ledger!IsOpen(s))
  <2>1. CASE shifts'[s] = shifts[s]
    BY <2>1 DEF OneInv, OurRow, Ledger!IsRow, Ledger!IsOpen
  <2>2. CASE /\ Ledger!IsOpen(s)
             /\ shifts'[s] \in Ledger!Row /\ shifts'[s].serial = Glasses
    BY <2>2 DEF OurRow
  <2> QED
    BY <2>1, <2>2 DEF RowsClose
<1> QED
  BY <1>1

\* Closing a row leaves a row of the same glasses, that is not open.
LEMMA ClosedOnes ==
  ASSUME OneInv, NEW s \in Shift, Ledger!IsOpen(s), NEW reason \in Ledger!Reasons
  PROVE  /\ Ledger!ClosedAtLastBeat(shifts[s], reason) \in Ledger!Row
         /\ Ledger!ClosedAtLastBeat(shifts[s], reason).serial = Glasses
         /\ Ledger!ClosedAtLastBeat(shifts[s], reason).ended # None
<1> DEFINE row == shifts[s]
           end == [at |-> Ledger!Greatest(row.started, row.beat), reason |-> reason]
<1>1. row \in Ledger!Row /\ row.serial = Glasses
  BY DEF OneInv, OurRow, Ledger!IsOpen
<1>2. Ledger!Greatest(row.started, row.beat) \in Nat
  BY <1>1 DEF Ledger!Row, Ledger!Greatest
<1>3. end \in Ledger!Ending
  BY <1>2 DEF Ledger!Ending
<1>4. end # None
  BY <1>3, NullAssumption
<1> HIDE DEF row, end
<1>5. /\ [row EXCEPT !.ended = end] \in Ledger!Row
      /\ [row EXCEPT !.ended = end].serial = Glasses /\ [row EXCEPT !.ended = end].ended = end
  BY <1>1, <1>3 DEF Ledger!Row
<1> QED
  BY <1>4, <1>5 DEF Ledger!ClosedAtLastBeat, row, end

\* The sweep, a heartbeat and a resumed start open no row.
LEMMA SweptOnes == ASSUME OneInv, shifts' = Ledger!SweptShifts PROVE RowsClose
<1>1. "heartbeat_gap" \in Ledger!Reasons
  BY DEF Ledger!Reasons
<1>2. ASSUME NEW s \in Shift, Ledger!IsStale(s)
      PROVE  Ledger!IsOpen(s) /\ shifts'[s] \in Ledger!Row /\ shifts'[s].serial = Glasses
  <2>1. Ledger!IsOpen(s) /\ shifts'[s] = Ledger!ClosedAtLastBeat(shifts[s], "heartbeat_gap")
    BY <1>2 DEF Ledger!IsStale, Ledger!SweptShifts
  <2> QED
    BY <1>1, <2>1, ClosedOnes
<1>3. ASSUME NEW s \in Shift, ~Ledger!IsStale(s) PROVE shifts'[s] = shifts[s]
  BY <1>3 DEF Ledger!SweptShifts
<1> QED
  BY <1>2, <1>3 DEF RowsClose

\* A row that is beaten or resumed was open.
LEMMA BeatenOnes ==
  ASSUME LedgerInv, OneInv, NEW s \in Shift, Ledger!IsOpen(s),
         NEW row \in Ledger!Row, row.serial = Glasses, shifts' = [shifts EXCEPT ![s] = row]
  PROVE  RowsClose
<1>1. shifts'[s] = row /\ \A t \in Shift \ {s} : shifts'[t] = shifts[t]
  BY DEF LedgerInv
<1> QED
  BY <1>1 DEF RowsClose

\* Only one start is in hand, and it is a live one's.
LEMMA OnlyCall ==
  ASSUME LatchInv, OneInv, NEW c \in Starters, calls[c].step # "idle"
  PROVE  /\ c[2] = "start" /\ Calling(c[1]) /\ calls[c].user = None
         /\ \A d \in Starters : calls[d].step # "idle" => d = c
<1>1. ASSUME NEW d \in Starters, calls[d].step # "idle"
      PROVE  /\ d = <<d[1], "start">> /\ Calling(d[1]) /\ d[2] = "start" /\ calls[d].user = None
  <2>1. d[2] = "start" /\ tasks[d].at = "calling" /\ calls[d].user = None
    BY <1>1 DEF OneInv
  <2>2. d = <<d[1], d[2]>> /\ d[1] \in Socks
    BY DEF Starters
  <2> QED
    BY <2>1, <2>2 DEF Calling
<1>2. ASSUME NEW d \in Starters, calls[d].step # "idle" PROVE d = c
  <2>1. Calling(d[1]) /\ Calling(c[1])
    BY <1>1, <1>2
  <2>2. d[1] = c[1]
    BY <2>1 DEF LatchInv
  <2> QED
    BY <1>1, <1>2, <2>2
<1> QED
  BY <1>1, <1>2

\* A call that goes on, or has its answer, leaves the others idle.
LEMMA CallGoesOn ==
  ASSUME LedgerInv, LatchInv, OneInv, NEW c \in Starters, Ledger!InHand(c),
         now' = now, tasks' = tasks,
         \/ \E step : calls' = Ledger!GoTo(c, step)
         \/ \E s : calls' = Ledger!Answered(c, s),
         calls'[c].step = "insert" => \A s \in Shift : ~Ledger!IsOpen(s)',
         \A s \in Shift : Ledger!IsRow(s)' => OurRow(s)',
         \A s, t \in Shift : Ledger!IsOpen(s)' /\ Ledger!IsOpen(t)' => s = t
  PROVE  OneInv'
<1>1. /\ c[2] = "start" /\ tasks[c].at = "calling" /\ calls[c].user = None
      /\ calls[c].serial = Glasses
      /\ \A d \in Starters \ {c} : calls[d].step = "idle"
  BY OnlyCall DEF Ledger!InHand, OneInv
<1>2. calls[c] \in Asked
  BY DEF LedgerInv
<1>3. /\ \A d \in Starters \ {c} : calls'[d] = calls[d]
      /\ calls'[c].user = None
      /\ calls'[c].step # "done" => calls'[c].serial = Glasses
  <2>1. ASSUME NEW step, calls' = Ledger!GoTo(c, step)
        PROVE  /\ \A d \in Starters \ {c} : calls'[d] = calls[d]
               /\ calls'[c].user = None /\ calls'[c].serial = Glasses
    <3>1. calls'[c] = [calls[c] EXCEPT !.step = step]
      BY <2>1 DEF LedgerInv, Ledger!GoTo
    <3> QED
      BY <1>1, <1>2, <2>1, <3>1 DEF LedgerInv, Ledger!GoTo, Asked
  <2>2. ASSUME NEW s, calls' = Ledger!Answered(c, s)
        PROVE  /\ \A d \in Starters \ {c} : calls'[d] = calls[d]
               /\ calls'[c].user = None /\ calls'[c].step = "done"
    BY <2>2 DEF LedgerInv, Ledger!Answered
  <2> QED
    BY <2>1, <2>2
<1>4. \A d \in Starters : calls'[d].step # "idle" => d = c
  BY <1>1, <1>3
<1>5. \A d \in Starters : calls'[d].step # "idle" =>
        d[2] = "start" /\ tasks'[d].at = "calling" /\ calls'[d].user = None
  BY <1>1, <1>3, <1>4
<1>6. \A d \in Starters : Ledger!InHand(d)' => calls'[d].serial = Glasses
  BY <1>3, <1>4 DEF Ledger!InHand
<1>7. \A d \in Starters : calls'[d].step = "insert" => \A s \in Shift : ~Ledger!IsOpen(s)'
  BY <1>4
<1> QED
  BY <1>5, <1>6, <1>7 DEF OneInv

\* One transaction of the only start there is.
LEMMA StartStepOne ==
  ASSUME LedgerInv, LatchInv, OneInv, NEW c \in Starters, Ledger!StartStep(c), tasks' = tasks
  PROVE  OneInv'
<1>0. /\ Ledger!InHand(c) /\ now' = now /\ calls[c] \in Asked
      /\ calls[c].serial = Glasses /\ calls[c].user = None
  <2>1. calls[c].step \in {"sweep", "resume", "dedupe", "supersede", "insert"} /\ now' = now
    BY DEF Ledger!StartStep, Ledger!StartSweep, Ledger!StartResume, Ledger!StartDedupe,
           Ledger!StartSupersede, Ledger!StartInsert
  <2> QED
    BY <2>1 DEF LedgerInv, OneInv, Ledger!InHand
<1>1. ASSUME RowsClose, NEW step, calls' = Ledger!GoTo(c, step), step # "insert" PROVE OneInv'
  <2>1. calls'[c].step = step
    BY <1>0, <1>1 DEF Ledger!GoTo, LedgerInv, Asked
  <2>2. /\ \A s \in Shift : Ledger!IsRow(s)' => OurRow(s)'
        /\ \A s, t \in Shift : Ledger!IsOpen(s)' /\ Ledger!IsOpen(t)' => s = t
    BY <1>1, ClosingRows DEF OneInv
  <2> QED
    BY <1>0, <1>1, <2>1, <2>2, CallGoesOn
<1>2. ASSUME RowsClose, NEW s, calls' = Ledger!Answered(c, s) PROVE OneInv'
  <2>1. calls'[c].step = "done"
    BY <1>2 DEF Ledger!Answered, LedgerInv
  <2>2. /\ \A t \in Shift : Ledger!IsRow(t)' => OurRow(t)'
        /\ \A t, u \in Shift : Ledger!IsOpen(t)' /\ Ledger!IsOpen(u)' => t = u
    BY <1>2, ClosingRows DEF OneInv
  <2> QED
    BY <1>0, <1>2, <2>1, <2>2, CallGoesOn
<1>3. shifts' = shifts => RowsClose
  BY DEF RowsClose
<1>4. Ledger!AfterResume(c) # "insert"
  BY DEF Ledger!AfterResume
<1>5. CASE Ledger!StartSweep(c)
  BY <1>1, <1>4, <1>5, SweptOnes DEF Ledger!StartSweep
<1>6. CASE Ledger!StartResume(c)
  <2> DEFINE s == calls[c].resume
             row == [Ledger!Beaten(shifts[s]) EXCEPT
                       !.user = Ledger!Coalesce(calls[c].user, @)]
  <2>1. CASE Ledger!CanResume(c, s)
    <3>1. shifts' = [shifts EXCEPT ![s] = row] /\ calls' = Ledger!Answered(c, s)
      BY <1>6, <2>1 DEF Ledger!StartResume
    <3>2. Ledger!IsOpen(s) /\ s \in Shift
      BY <1>0, <2>1 DEF Ledger!CanResume, Asked, Known, LedgerInv
    <3>3. shifts[s] \in Ledger!Row /\ shifts[s].serial = Glasses /\ now \in Nat
      BY <3>2 DEF OneInv, OurRow, Ledger!IsOpen
    <3>4. row \in Ledger!Row /\ row.serial = Glasses
      BY <1>0, <3>3 DEF Ledger!Row, Ledger!Beaten, Ledger!Coalesce
    <3> HIDE DEF row, s
    <3> QED
      BY <1>2, <3>1, <3>2, <3>4, BeatenOnes
  <2>2. CASE ~Ledger!CanResume(c, s)
    BY <1>1, <1>3, <1>4, <1>6, <2>2 DEF Ledger!StartResume
  <2> QED
    BY <2>1, <2>2
<1>7. CASE Ledger!StartDedupe(c)
  BY <1>1, <1>2, <1>3, <1>7 DEF Ledger!StartDedupe
<1>8. CASE Ledger!StartSupersede(c)
  <2>1. /\ calls' = Ledger!GoTo(c, "insert") /\ "superseded" \in Ledger!Reasons
        /\ shifts' = [s \in Shift |-> IF s \in Ledger!Rivals(c)
                                      THEN Ledger!ClosedAtLastBeat(shifts[s], "superseded")
                                      ELSE shifts[s]]
    BY <1>8 DEF Ledger!StartSupersede, Ledger!Reasons
  <2>2. ASSUME NEW s \in Shift, Ledger!IsOpen(s)
        PROVE  /\ shifts'[s] \in Ledger!Row /\ shifts'[s].serial = Glasses
               /\ shifts'[s].ended # None
    <3>1. shifts[s].serial = Glasses
      BY <2>2 DEF OneInv, OurRow, Ledger!IsOpen
    <3>2. s \in Ledger!Rivals(c)
      BY <1>0, <2>2, <3>1, NullAssumption DEF Ledger!Rivals
    <3> QED
      BY <2>1, <2>2, <3>2, ClosedOnes
  <2>3. ASSUME NEW s \in Shift, ~Ledger!IsOpen(s) PROVE shifts'[s] = shifts[s]
    BY <2>1, <2>3 DEF Ledger!Rivals
  <2>4. RowsClose
    BY <2>2, <2>3 DEF RowsClose
  <2>5. \A s \in Shift : ~Ledger!IsOpen(s)'
    <3> SUFFICES ASSUME NEW s \in Shift, Ledger!IsOpen(s)' PROVE FALSE
      OBVIOUS
    <3>1. Ledger!IsOpen(s)
      BY <2>4, ClosingRows
    <3> QED
      BY <2>2, <3>1 DEF Ledger!IsOpen
  <2>6. \A s \in Shift : Ledger!IsRow(s)' => OurRow(s)'
    BY <2>4, ClosingRows
  <2> QED
    BY <1>0, <2>1, <2>5, <2>6, CallGoesOn
<1>9. CASE Ledger!StartInsert(c)
  <2>1. CASE Ledger!SameEvent(c) # {}
    BY <1>2, <1>3, <1>9, <2>1 DEF Ledger!StartInsert
  <2>2. CASE Ledger!SameEvent(c) = {}
    <3>1. PICK s \in Shift \ issued :
            shifts' = [shifts EXCEPT ![s] = Ledger!NewRow(c)] /\ calls' = Ledger!Answered(c, s)
      BY <1>9, <2>2 DEF Ledger!StartInsert
    <3>2. \A t \in Shift : ~Ledger!IsOpen(t)
      BY <1>9 DEF Ledger!StartInsert, OneInv
    <3>3. shifts'[s] = Ledger!NewRow(c) /\ \A t \in Shift \ {s} : shifts'[t] = shifts[t]
      BY <3>1 DEF LedgerInv
    <3>4. Ledger!NewRow(c) \in Ledger!Row /\ Ledger!NewRow(c).serial = Glasses
      <4>1. calls[c].stamp \in Stamps \cup {None} /\ now \in Nat
        BY <1>0 DEF Asked, OneInv
      <4> QED
        BY <1>0, <4>1 DEF Ledger!NewRow, Ledger!Row
    <3>5. \A t \in Shift : Ledger!IsRow(t)' => OurRow(t)'
      BY <3>3, <3>4 DEF OneInv, OurRow, Ledger!IsRow
    <3>6. \A t \in Shift : Ledger!IsOpen(t)' => t = s
      BY <3>2, <3>3 DEF Ledger!IsOpen, Ledger!IsRow
    <3>7. calls'[c].step # "insert"
      BY <3>1 DEF Ledger!Answered, LedgerInv
    <3> QED
      BY <1>0, <3>1, <3>5, <3>6, <3>7, CallGoesOn
  <2> QED
    BY <2>1, <2>2
<1> QED
  BY <1>5, <1>6, <1>7, <1>8, <1>9 DEF Ledger!StartStep

\* A frame that was taken leaves the rest of the wire calm, one place nearer.
LEMMA TakenSteady ==
  ASSUME FloorInv, CalmPhone, Take, UNCHANGED elsewhere
  PROVE  /\ CalmPhone' /\ CalmFrame(Head(toServer)) /\ toServer' \in Seq(Frame)
         /\ Head(toServer).event = "shift:start" => Starting(1)
         /\ \A i \in DOMAIN toServer' :
              toServer'[i].event = "shift:start" => Starting(i + 1) /\ i + 1 # 1
<1>1. /\ page' = page /\ phone' = phone /\ store' = store /\ backlog' = backlog
  BY DEF elsewhere, client
<1>2. toServer # <<>> /\ toServer' = Tail(toServer) /\ toServer \in Seq(Frame)
  BY DEF Take, FloorInv, WireInv
<1>3. /\ Len(toServer) \in Nat \ {0} /\ DOMAIN toServer = 1 .. Len(toServer)
      /\ Head(toServer) = toServer[1] /\ Tail(toServer) \in Seq(Frame)
      /\ Len(Tail(toServer)) = Len(toServer) - 1
      /\ \A i \in DOMAIN Tail(toServer) :
           i + 1 \in 1 .. Len(toServer) /\ Tail(toServer)[i] = toServer[i + 1]
  BY <1>2, TailOf
<1>4. 1 \in DOMAIN toServer
  BY <1>3
<1>5. ASSUME NEW i \in DOMAIN toServer'
      PROVE  i + 1 \in DOMAIN toServer /\ toServer'[i] = toServer[i + 1] /\ i + 1 # 1
  <2>1. i \in 1 .. Len(toServer) - 1
    BY <1>2, <1>3
  <2> QED
    BY <1>2, <1>3, <2>1
<1>6. \A i \in DOMAIN toServer' : CalmFrame(toServer'[i])
  BY <1>5 DEF CalmPhone
<1>7. CalmPhone'
  BY <1>1, <1>6 DEF CalmPhone
<1> QED
  BY <1>2, <1>3, <1>4, <1>5, <1>7 DEF CalmPhone, Starting

\* A handler that goes on as it may.
LEMMA CalmHandler ==
  ASSUME FloorInv, CalmServer, NEW h \in Handlers, NEW t, sock' = sock, Filed,
         tasks' = [tasks EXCEPT ![h] = t],
         h[2] = "start" => t.at \in {"idle", "calling"},
         h[2] = "replay" => t.at \in {"idle", "next"} /\ HealthOnly(t.todo),
         h[2] = "end" => t.at = "idle",
         h[2] = "beat" => t.at \in {"idle", "beating"}
  PROVE  CalmServer'
<1>1. \A k \in Socks : k > sock => shiftId'[k] = None
  <2>1. CASE shiftId' = shiftId
    BY <2>1 DEF CalmServer
  <2>2. ASSUME NEW k \in Socks, NEW s, k <= sock, shiftId' = [shiftId EXCEPT ![k] = s],
               NEW l \in Socks, l > sock
        PROVE  shiftId'[l] = None
    <3>1. l # k
      BY <2>2 DEF FloorInv, WireInv, Socks
    <3> QED
      BY <2>2, <3>1 DEF CalmServer, FloorInv, ServerInv
  <2> QED
    BY <2>1, <2>2 DEF Filed
<1>2. tasks'[h] = t /\ \A g \in Handlers \ {h} : tasks'[g] = tasks[g]
  BY DEF FloorInv, ServerInv
<1>3. ASSUME NEW k \in Socks
      PROVE  /\ tasks'[<<k, "start">>].at \in {"idle", "calling"}
             /\ tasks'[<<k, "replay">>].at \in {"idle", "next"}
             /\ HealthOnly(tasks'[<<k, "replay">>].todo)
             /\ tasks'[<<k, "end">>].at = "idle"
             /\ tasks'[<<k, "beat">>].at \in {"idle", "beating"}
  <2>1. \A kind \in Kinds : <<k, kind>> \in Handlers /\ <<k, kind>>[2] = kind
    BY DEF Handlers
  <2>2. \A kind \in Kinds : <<k, kind>> = h => h[2] = kind /\ tasks'[<<k, kind>>] = t
    BY <1>2, <2>1
  <2>3. \A kind \in Kinds : <<k, kind>> # h => tasks'[<<k, kind>>] = tasks[<<k, kind>>]
    BY <1>2, <2>1
  <2>4. tasks'[<<k, "start">>].at \in {"idle", "calling"}
    BY <2>2, <2>3 DEF Kinds, CalmServer
  <2>5. /\ tasks'[<<k, "replay">>].at \in {"idle", "next"}
        /\ HealthOnly(tasks'[<<k, "replay">>].todo)
    BY <2>2, <2>3 DEF Kinds, CalmServer
  <2>6. tasks'[<<k, "end">>].at = "idle"
    BY <2>2, <2>3 DEF Kinds, CalmServer
  <2>7. tasks'[<<k, "beat">>].at \in {"idle", "beating"}
    BY <2>2, <2>3 DEF Kinds, CalmServer
  <2> QED
    BY <2>4, <2>5, <2>6, <2>7
<1>4. \A k \in Socks : HealthOnly(tasks'[<<k, "replay">>].todo) <=>
                         HealthOnly(tasks[<<k, "replay">>].todo)'
  BY DEF HealthOnly
<1> QED
  BY <1>1, <1>3, <1>4 DEF CalmServer

\* The start that was on the wire is now a handler's: the ledger has been asked,
LEMMA StartCalls ==
  ASSUME Steady, Take, Head(toServer).event = "shift:start", UNCHANGED elsewhere,
         NEW e, Ledger!BeginStart(<<sock, "start">>, Glasses, None, e.id, e.at),
         tasks' = [tasks EXCEPT ![<<sock, "start">>].at = "calling"],
         UNCHANGED <<shiftId, toPhone>>
  PROVE  StillSteady
<1> USE DEF Steady
<1> DEFINE h == <<sock, "start">>
           call == [step |-> "sweep", serial |-> Glasses, user |-> None,
                    resume |-> e.id, stamp |-> e.at, got |-> None]
<1>1. /\ page' = page /\ phone' = phone /\ sock' = sock /\ now' = now /\ shifts' = shifts
      /\ calls' = [calls EXCEPT ![h] = call] /\ shiftId' = shiftId /\ toPhone' = toPhone
  BY DEF elsewhere, client, Ledger!BeginStart
<1>2. /\ Starting(1) /\ CalmPhone'
      /\ \A i \in DOMAIN toServer' :
           toServer'[i].event = "shift:start" => Starting(i + 1) /\ i + 1 # 1
  BY TakenSteady
<1>3. h \in Handlers /\ h \in Starters /\ h[1] = sock /\ h[2] = "start" /\ sock \in Socks
  BY TakeOK DEF Starters, Kinds
<1>4. \A i : ~Starting(i)'
  BY <1>2 DEF LatchInv, Starting
<1>5. \A k : ~Calling(k)
  BY <1>2 DEF LatchInv
<1> DEFINE t == [tasks[h] EXCEPT !.at = "calling"]
<1>6. t.at = "calling" /\ tasks' = [tasks EXCEPT ![h] = t]
  BY <1>3 DEF FloorInv, ServerInv, Task
<1> HIDE DEF h, t
<1>7. CalmServer'
  BY <1>1, <1>3, <1>6, CalmHandler DEF Filed
<1>8. tasks'[h].at = "calling" /\ \A g \in Handlers \ {h} : tasks'[g] = tasks[g]
  BY <1>3, <1>6 DEF FloorInv, ServerInv
<1>9. \A k : Calling(k)' => k = sock
  <2>1. ASSUME NEW k \in Socks, k # sock PROVE tasks'[<<k, "start">>] = tasks[<<k, "start">>]
    <3>1. <<k, "start">> \in Handlers /\ <<k, "start">> # h
      BY <2>1 DEF h, Handlers, Kinds
    <3> QED
      BY <1>8, <3>1
  <2> QED
    BY <1>5, <2>1 DEF Calling
<1>10. tasks'[<<sock, "beat">>] = tasks[<<sock, "beat">>]
  <2>1. <<sock, "beat">> \in Handlers /\ <<sock, "beat">> # h
    BY <1>3 DEF h, Handlers, Kinds
  <2> QED
    BY <1>8, <2>1
<1>11. LatchInv'
  <2>1. Asking
    BY <1>2 DEF Asking
  <2>2. /\ page' = "up" /\ phone'.opening /\ sock' \in Socks /\ shiftId'[sock'] = None
        /\ tasks'[<<sock', "beat">>].at = "idle"
        /\ \A j \in DOMAIN toPhone' : toPhone'[j].kind = "replayed"
    BY <1>1, <1>10, <2>1 DEF LatchInv
  <2> QED
    BY <1>4, <1>9, <2>2 DEF LatchInv
<1>12. OneInv'
  <2>1. \A c \in Starters : calls[c].step = "idle"
    <3>1. ASSUME NEW c \in Starters, calls[c].step # "idle" PROVE FALSE
      BY <1>5, <3>1, OnlyCall
    <3> QED
      BY <3>1
  <2>2. calls'[h] = call /\ \A c \in Starters \ {h} : calls'[c] = calls[c]
    BY <1>1, <1>3 DEF FloorInv, LedgerInv
  <2>3. \A c \in Starters : calls'[c].step # "idle" =>
          c[2] = "start" /\ tasks'[c].at = "calling" /\ calls'[c].user = None
    BY <1>3, <1>8, <2>1, <2>2
  <2>4. \A c \in Starters : Ledger!InHand(c)' => calls'[c].serial = Glasses
    BY <2>1, <2>2 DEF Ledger!InHand
  <2>5. \A c \in Starters : calls'[c].step # "insert"
    BY <2>1, <2>2
  <2>6. \A s \in Shift : Ledger!IsRow(s)' => OurRow(s)'
    BY <1>1 DEF OneInv, Ledger!IsRow, OurRow
  <2>7. \A s, u \in Shift : Ledger!IsOpen(s)' /\ Ledger!IsOpen(u)' => s = u
    BY <1>1 DEF OneInv, Ledger!IsOpen, Ledger!IsRow
  <2> QED
    BY <1>1, <2>3, <2>4, <2>5, <2>6, <2>7 DEF OneInv
<1> QED
  BY <1>2, <1>7, <1>11, <1>12 DEF StillSteady

\* or it was refused, and there is none.
LEMMA StartIsRefused ==
  ASSUME Steady, Take, Head(toServer).event = "shift:start", UNCHANGED elsewhere,
         NEW m, StartRefused(<<sock, "start">>, m), tasks[<<sock, "start">>].at = "idle",
         tasks' = [tasks EXCEPT ![<<sock, "start">>] = HandlerDone(<<sock, "start">>)]
  PROVE  StillSteady
<1> USE DEF Steady
<1> DEFINE h == <<sock, "start">>
<1>1. /\ sock' = sock /\ now' = now /\ shifts' = shifts /\ calls' = calls
      /\ shiftId' = [shiftId EXCEPT ![h[1]] = None]
  BY DEF elsewhere, StartRefused, ledger
<1>2. /\ Starting(1) /\ CalmPhone'
      /\ \A i \in DOMAIN toServer' :
           toServer'[i].event = "shift:start" => Starting(i + 1) /\ i + 1 # 1
  BY TakenSteady
<1>3. /\ h \in Handlers /\ h[1] = sock /\ h[2] = "start" /\ sock \in Socks
      /\ tasks' = [tasks EXCEPT ![h] = Idle]
  BY TakeOK DEF Kinds, HandlerDone
<1>4. Idle.at = "idle"
  BY DEF Idle
<1>5. \A i : ~Starting(i)'
  BY <1>2 DEF LatchInv, Starting
<1>6. \A k : ~Calling(k)
  BY <1>2 DEF LatchInv
<1> HIDE DEF h
<1>7. tasks'[h].at = "idle" /\ \A g \in Handlers \ {h} : tasks'[g] = tasks[g]
  BY <1>3, <1>4 DEF FloorInv, ServerInv
<1>8. \A g \in Handlers : tasks'[g].at = "calling" => tasks[g].at = "calling"
  BY <1>7
<1>9. \A k : ~Calling(k)'
  <2>1. \A k \in Socks : <<k, "start">> \in Handlers
    BY DEF Handlers, Kinds
  <2> QED
    BY <1>6, <1>8, <2>1 DEF Calling
<1>10. LatchInv'
  BY <1>5, <1>9 DEF LatchInv, Asking
<1>11. sock <= sock
  BY DEF FloorInv, WireInv
<1>12. CalmServer'
  <2>1. Filed
    BY <1>1, <1>3, <1>11 DEF Filed
  <2> QED
    BY <1>1, <1>3, <1>4, <2>1, CalmHandler
<1>13. OneInv'
  <2>1. \A c \in Starters : calls[c].step # "idle" /\ tasks[c].at = "calling"
                            => tasks'[c].at = "calling"
    <3>1. ASSUME NEW c \in Starters, calls[c].step # "idle" PROVE FALSE
      BY <1>6, <3>1, OnlyCall
    <3> QED
      BY <3>1
  <2> QED
    BY <1>1, <2>1, OneAlone
<1> QED
  BY <1>2, <1>10, <1>12, <1>13 DEF StillSteady

\* A handler that neither starts nor is told of a shift while a start is out.
LEMMA OtherHandler ==
  ASSUME Steady, UNCHANGED elsewhere, NEW h \in Handlers, NEW t, Filed,
         h[2] # "start", tasks' = [tasks EXCEPT ![h] = t],
         h[2] = "replay" => t.at \in {"idle", "next"} /\ HealthOnly(t.todo),
         h[2] = "end" => t.at = "idle",
         h[2] = "beat" => t.at \in {"idle", "beating"},
         Asking => /\ shiftId'[sock] = None /\ tasks'[<<sock, "beat">>].at = "idle"
                   /\ \A j \in DOMAIN toPhone' : toPhone'[j].kind = "replayed",
         NEW d \in Int, toServer' \in Seq(Frame),
         \A i \in DOMAIN toServer' : toServer'[i].event = "shift:start" => Starting(i + d)
  PROVE  CalmServer' /\ LatchInv'
<1> USE DEF Steady
<1>1. page' = page /\ phone' = phone /\ sock' = sock
  BY DEF elsewhere, client
<1>2. CalmServer'
  BY <1>1, CalmHandler
<1>3. \A k \in Socks : tasks'[<<k, "start">>] = tasks[<<k, "start">>]
  <2>1. \A k \in Socks : <<k, "start">> \in Handlers /\ <<k, "start">>[2] = "start"
    BY DEF Handlers, Kinds
  <2>2. \A g \in Handlers : g # h => tasks'[g] = tasks[g]
    BY DEF FloorInv, ServerInv
  <2> QED
    BY <2>1, <2>2
<1>4. \A k \in Socks : tasks'[<<k, "start">>].at = "calling" => Calling(k)
  BY <1>3 DEF Calling
<1>5. Asking => /\ phone'.opening /\ sock' \in Socks /\ shiftId'[sock'] = None
                /\ tasks'[<<sock', "beat">>].at = "idle"
                /\ \A j \in DOMAIN toPhone' : toPhone'[j].kind = "replayed"
  BY <1>1 DEF LatchInv
<1>6. LatchInv'
  BY <1>1, <1>4, <1>5, LatchMoves
<1> QED
  BY <1>2, <1>6

\* The ledger has heard nothing of it.
LEMMA OtherAlone ==
  ASSUME Steady, UNCHANGED ledger, NEW h \in Handlers, h[2] # "start",
         \A g \in Handlers \ {h} : tasks'[g] = tasks[g]
  PROVE  OneInv'
<1> USE DEF Steady
<1>1. ASSUME NEW c \in Starters, calls[c].step # "idle" PROVE tasks'[c] = tasks[c]
  <2>1. c[2] = "start" /\ c \in Handlers
    BY <1>1 DEF OneInv, Starters, Handlers, Kinds
  <2> QED
    BY <2>1
<1> QED
  BY <1>1, OneAlone DEF ledger

\* A frame that arrives.
LEMMA FrameSteady == ASSUME Steady, FrameArrives PROVE StillSteady
<1> USE DEF Steady
<1>0. Take /\ UNCHANGED elsewhere
  BY DEF FrameArrives, RegisterArrives, StartArrives, EndArrives, BeatArrives, ReplayArrives
<1>1. /\ CalmPhone' /\ CalmFrame(Head(toServer)) /\ toServer' \in Seq(Frame) /\ 1 \in Int
      /\ \A i \in DOMAIN toServer' : toServer'[i].event = "shift:start" => Starting(i + 1)
  BY <1>0, TakenSteady
<1>2. /\ sock \in Socks /\ sock' = sock /\ page' = page /\ phone' = phone
      /\ \A kind \in Kinds : <<sock, kind>> \in Handlers
  BY <1>0, TakeOK DEF elsewhere, client
<1>3. CASE RegisterArrives
  <2>1. UNCHANGED <<ledger, toPhone, shiftId, tasks>>
    BY <1>3 DEF RegisterArrives
  <2>2. LatchInv'
    <3>1. \A k \in Socks : tasks'[<<k, "start">>].at = "calling" => Calling(k)
      BY <2>1 DEF Calling
    <3>2. Asking => /\ phone'.opening /\ sock' \in Socks /\ shiftId'[sock'] = None
                    /\ tasks'[<<sock', "beat">>].at = "idle"
                    /\ \A j \in DOMAIN toPhone' : toPhone'[j].kind = "replayed"
      BY <1>2, <2>1 DEF LatchInv
    <3> QED
      BY <1>1, <1>2, <3>1, <3>2, LatchMoves
  <2>3. CalmServer' /\ OneInv'
    BY <1>2, <2>1, OneAlone DEF CalmServer, ledger
  <2> QED
    BY <1>1, <2>2, <2>3 DEF StillSteady
<1>4. CASE StartArrives
  <2>1. /\ Head(toServer).event = "shift:start" /\ tasks[<<sock, "start">>].at = "idle"
        /\ HandleStart(<<sock, "start">>, Head(toServer))
    BY <1>4 DEF StartArrives
  <2> QED
    BY <1>0, <2>1, StartCalls, StartIsRefused DEF HandleStart
<1>5. CASE EndArrives
  BY <1>1, <1>5 DEF EndArrives, CalmFrame
<1>6. CASE BeatArrives
  <2> DEFINE h == <<sock, "beat">>
             t == IF shiftId[sock] = None THEN tasks[h]
                  ELSE [Idle EXCEPT !.at = "beating", !.id = shiftId[sock]]
  <2>1. UNCHANGED <<ledger, toPhone, shiftId>> /\ tasks' = [tasks EXCEPT ![h] = t]
    BY <1>6 DEF BeatArrives, FloorInv, ServerInv
  <2>2. h \in Handlers /\ h[2] = "beat" /\ t.at \in {"idle", "beating"}
    BY <1>2 DEF Kinds, CalmServer, Idle
  <2>3. Asking => t.at = "idle"
    BY DEF LatchInv
  <2> HIDE DEF h, t
  <2>4. tasks'[h] = t /\ \A g \in Handlers \ {h} : tasks'[g] = tasks[g]
    BY <2>1, <2>2 DEF FloorInv, ServerInv
  <2>5. OneInv'
    BY <2>1, <2>2, <2>4, OtherAlone
  <2>6. Asking => /\ shiftId'[sock] = None /\ tasks'[<<sock, "beat">>].at = "idle"
                  /\ \A j \in DOMAIN toPhone' : toPhone'[j].kind = "replayed"
    BY <2>1, <2>3, <2>4 DEF LatchInv, h
  <2>7. CalmServer' /\ LatchInv'
    BY <1>0, <1>1, <2>1, <2>2, <2>6, OtherHandler DEF Filed
  <2> QED
    BY <1>1, <2>5, <2>7 DEF StillSteady
<1>7. CASE ReplayArrives
  <2> DEFINE h == <<sock, "replay">>
             t == [at |-> "next", id |-> None, todo |-> Head(toServer).events,
                   took |-> Head(toServer).events]
  <2>1. /\ UNCHANGED <<ledger, toPhone, shiftId>> /\ tasks' = [tasks EXCEPT ![h] = t]
        /\ Head(toServer).event = "telemetry:replay"
    BY <1>7, ReplayTaken DEF ReplayArrives
  <2>2. h \in Handlers /\ h[2] = "replay" /\ t.at = "next" /\ HealthOnly(t.todo)
    BY <1>1, <1>2, <2>1 DEF Kinds, CalmFrame
  <2> HIDE DEF t
  <2>3. <<sock, "beat">> \in Handlers /\ <<sock, "beat">> # h
    BY <1>2 DEF Kinds
  <2> HIDE DEF h
  <2>4. \A g \in Handlers \ {h} : tasks'[g] = tasks[g]
    BY <2>1, <2>2 DEF FloorInv, ServerInv
  <2>5. OneInv'
    BY <2>1, <2>2, <2>4, OtherAlone
  <2>6. Asking => /\ shiftId'[sock] = None /\ tasks'[<<sock, "beat">>].at = "idle"
                  /\ \A j \in DOMAIN toPhone' : toPhone'[j].kind = "replayed"
    BY <2>1, <2>3, <2>4 DEF LatchInv
  <2>7. CalmServer' /\ LatchInv'
    BY <1>0, <1>1, <2>1, <2>2, <2>6, OtherHandler DEF Filed
  <2> QED
    BY <1>1, <2>5, <2>7 DEF StillSteady
<1> QED
  BY <1>3, <1>4, <1>5, <1>6, <1>7 DEF FrameArrives

\* Rows that at most close, while every handler goes on with its call.
LEMMA ClosedAlone ==
  ASSUME OneInv, RowsClose, calls' = calls, now' \in Nat,
         \A c \in Starters : calls[c].step # "idle" => tasks'[c] = tasks[c]
  PROVE  OneInv'
<1>1. /\ \A s \in Shift : Ledger!IsRow(s)' => OurRow(s)'
      /\ \A s \in Shift : Ledger!IsOpen(s)' => Ledger!IsOpen(s)
  BY ClosingRows
<1>2. \A c \in Starters : calls'[c].step # "idle" =>
        c[2] = "start" /\ tasks'[c].at = "calling" /\ calls'[c].user = None
  BY DEF OneInv
<1>3. \A c \in Starters : Ledger!InHand(c)' => calls'[c].serial = Glasses
  BY DEF OneInv, Ledger!InHand
<1>4. \A c \in Starters : calls'[c].step = "insert" => \A s \in Shift : ~Ledger!IsOpen(s)'
  BY <1>1 DEF OneInv
<1>5. \A s, t \in Shift : Ledger!IsOpen(s)' /\ Ledger!IsOpen(t)' => s = t
  BY <1>1 DEF OneInv
<1> QED
  BY <1>1, <1>2, <1>3, <1>4, <1>5 DEF OneInv

\* A step of the control plane alone.
LEMMA RestSteady ==
  ASSUME Steady, OneInv',
         UNCHANGED <<page, phone, store, link, sock, backlog, toServer, toPhone, shiftId, tasks>>
  PROVE  StillSteady
<1>1. CalmPhone' /\ CalmServer'
  BY DEF Steady, CalmPhone, CalmServer
<1>2. LatchInv'
  BY DEF Steady, LatchInv, Asking, Starting, Calling
<1> QED
  BY <1>1, <1>2 DEF StillSteady

\* A phone that stays as it is, with its wire to the server as it was.
LEMMA SameCalm == ASSUME CalmPhone, UNCHANGED <<toServer, elsewhere>> PROVE CalmPhone'
BY DEF CalmPhone, elsewhere, client

\* A replay goes on: it has battery reports to write and no more.
LEMMA ReplaySteady ==
  ASSUME Steady, NEW k \in Socks, ReplayNext(k) \/ ReplayDone(k) PROVE StillSteady
<1> USE DEF Steady
<1> DEFINE h == <<k, "replay">>
<1>1. UNCHANGED <<toServer, elsewhere>>
  BY DEF ReplayNext, ReplayDone
<1>2. CalmPhone' /\ sock' = sock /\ toServer' = toServer
  BY <1>1, SameCalm DEF elsewhere
<1>3. /\ h \in Handlers /\ h[2] = "replay" /\ tasks[h] \in Task /\ HealthOnly(tasks[h].todo)
      /\ \A kind \in Kinds : <<k, kind>> \in Handlers
  BY DEF Handlers, Kinds, FloorInv, ServerInv, CalmServer
<1>4. \E t : /\ tasks' = [tasks EXCEPT ![h] = t]
             /\ t.at \in {"idle", "next"} /\ HealthOnly(t.todo)
  <2>1. CASE ReplayNext(k)
    <3> DEFINE todo == tasks[h].todo
    <3>1. todo # <<>> /\ todo \in Seq(Event)
      BY <1>3, <2>1 DEF ReplayNext, Task
    <3>2. 1 \in DOMAIN todo /\ Head(todo) = todo[1]
          /\ \A i \in DOMAIN Tail(todo) : i + 1 \in DOMAIN todo /\ Tail(todo)[i] = todo[i + 1]
      BY <3>1, TailOf
    <3>3. Head(todo).event = "device:health" /\ HealthOnly(Tail(todo))
      BY <1>3, <3>2 DEF HealthOnly
    <3>4. tasks' = [tasks EXCEPT ![h] = HandlerDone(h)]
      BY <2>1, <3>3 DEF ReplayNext
    <3> HIDE DEF h
    <3>5. HandlerDone(h).at = "next" /\ HandlerDone(h).todo = Tail(todo)
      BY <1>3 DEF HandlerDone, Task
    <3> QED
      BY <3>3, <3>4, <3>5
  <2>2. CASE ReplayDone(k)
    <3>1. tasks' = [tasks EXCEPT ![h] = Idle]
      BY <2>2 DEF ReplayDone
    <3>2. Idle.at = "idle" /\ HealthOnly(Idle.todo)
      BY DEF Idle, HealthOnly
    <3> QED
      BY <3>1, <3>2
  <2> QED
    BY <2>1, <2>2
<1>5. /\ UNCHANGED <<ledger, shiftId>>
      /\ toPhone' = toPhone \/ toPhone' = Append(toPhone, Replayed(tasks[h].took))
  <2>1. CASE ReplayNext(k)
    <3>1. tasks[h].todo # <<>> /\ tasks[h].todo \in Seq(Event)
      BY <1>3, <2>1 DEF ReplayNext, Task
    <3>2. 1 \in DOMAIN tasks[h].todo /\ Head(tasks[h].todo) = tasks[h].todo[1]
      BY <3>1, TailOf
    <3>3. Head(tasks[h].todo).event = "device:health"
      BY <1>3, <3>2 DEF HealthOnly
    <3> QED
      BY <2>1, <3>3 DEF ReplayNext
  <2>2. CASE ReplayDone(k)
    BY <2>2 DEF ReplayDone, Emitted
  <2> QED
    BY <2>1, <2>2
<1>6. (\A j \in DOMAIN toPhone : toPhone[j].kind = "replayed")
        => \A j \in DOMAIN toPhone' : toPhone'[j].kind = "replayed"
  <2>1. CASE toPhone' = toPhone
    BY <2>1
  <2>2. CASE toPhone' = Append(toPhone, Replayed(tasks[h].took))
    <3> DEFINE m == Replayed(tasks[h].took)
    <3>1. m \in Message /\ m.kind = "replayed" /\ toPhone \in Seq(Message)
      BY <1>3, Emissions DEF Replayed, Task, FloorInv, WireInv
    <3> HIDE DEF m
    <3>2. \A j \in DOMAIN Append(toPhone, m) : j \in DOMAIN toPhone \/ j = Len(toPhone) + 1
      BY <3>1, AppendTo
    <3>3. /\ \A j \in DOMAIN toPhone : Append(toPhone, m)[j] = toPhone[j]
          /\ Append(toPhone, m)[Len(toPhone) + 1] = m
      BY <3>1, AppendTo
    <3> QED
      BY <2>2, <3>1, <3>2, <3>3 DEF m
  <2> QED
    BY <1>5, <2>1, <2>2
<1>7. <<sock, "beat">> # h
  OBVIOUS
<1>8. Asking => sock \in Socks /\ <<sock, "beat">> \in Handlers
  BY DEF LatchInv, Handlers, Kinds
<1>9. PICK t : /\ tasks' = [tasks EXCEPT ![h] = t]
               /\ t.at \in {"idle", "next"} /\ HealthOnly(t.todo)
  BY <1>4
<1> HIDE DEF h
<1>10. \A g \in Handlers \ {h} : tasks'[g] = tasks[g]
  BY <1>3, <1>9 DEF FloorInv, ServerInv
<1>11. OneInv'
  BY <1>3, <1>5, <1>10, OtherAlone
<1>12. Asking => /\ shiftId'[sock] = None /\ tasks'[<<sock, "beat">>].at = "idle"
                 /\ \A j \in DOMAIN toPhone' : toPhone'[j].kind = "replayed"
  BY <1>5, <1>6, <1>7, <1>8, <1>10 DEF LatchInv
<1>13. /\ toServer' \in Seq(Frame) /\ 0 \in Int
       /\ \A i \in DOMAIN toServer' : toServer'[i].event = "shift:start" => Starting(i + 0)
  BY <1>2 DEF FloorInv, WireInv, Starting
<1>14. Filed
  BY <1>5 DEF Filed
<1>15. CalmServer' /\ LatchInv'
  BY <1>1, <1>3, <1>9, <1>12, <1>13, <1>14, OtherHandler
<1> QED
  BY <1>2, <1>11, <1>15 DEF StillSteady

\* The ledger answers the start there was: none is out any more.
LEMMA AnsweredSteady ==
  ASSUME Steady, NEW h \in Starters, StartAnswered(h) PROVE StillSteady
<1> USE DEF Steady
<1>1. /\ UNCHANGED <<toServer, elsewhere>> /\ tasks[h].at = "calling"
      /\ Ledger!Return(h) /\ tasks' = [tasks EXCEPT ![h] = HandlerDone(h)]
      /\ \E s : shiftId' = [shiftId EXCEPT ![h[1]] = s]
  BY DEF StartAnswered
<1>2. CalmPhone' /\ sock' = sock /\ toServer' = toServer
  BY <1>1, SameCalm DEF elsewhere
<1>3. /\ h \in Handlers /\ h[2] = "start" /\ h = <<h[1], "start">> /\ h[1] \in Socks
      /\ h[1] <= sock
  <2>1. h = <<h[1], h[2]>> /\ h[1] \in Socks /\ h[2] \in {"start", "replay"} /\ h \in Handlers
    BY DEF Starters, Handlers, Kinds
  <2>2. h[2] # "replay"
    BY <1>1, <2>1 DEF CalmServer
  <2> QED
    BY <1>1, <2>1, <2>2, AtWork
<1>4. Calling(h[1])
  BY <1>1, <1>3 DEF Calling
<1>5. tasks' = [tasks EXCEPT ![h] = Idle] /\ Idle.at = "idle"
  BY <1>1, <1>3 DEF HandlerDone, Idle
<1>6. tasks'[h].at = "idle" /\ \A g \in Handlers \ {h} : tasks'[g] = tasks[g]
  BY <1>3, <1>5 DEF FloorInv, ServerInv
<1>7. \A i : ~Starting(i)'
  BY <1>2, <1>4 DEF LatchInv, Starting
<1>8. \A k : ~Calling(k)'
  <2> SUFFICES ASSUME NEW k \in Socks, tasks'[<<k, "start">>].at = "calling" PROVE FALSE
    BY DEF Calling
  <2>1. <<k, "start">> \in Handlers
    BY DEF Handlers, Kinds
  <2>2. <<k, "start">> # h
    BY <1>6
  <2>3. Calling(k)
    BY <1>6, <2>1, <2>2 DEF Calling
  <2>4. k = h[1]
    BY <1>4, <2>3 DEF LatchInv
  <2> QED
    BY <1>3, <2>2, <2>4
<1>9. LatchInv'
  BY <1>7, <1>8 DEF LatchInv, Asking
<1>10. CalmServer'
  <2>1. Filed
    BY <1>1, <1>3 DEF Filed
  <2> QED
    BY <1>2, <1>3, <1>5, <2>1, CalmHandler
<1>11. OneInv'
  <2>1. /\ calls[h].step # "idle" /\ calls' = [calls EXCEPT ![h] = Ledger!NoCall]
        /\ now' = now /\ shifts' = shifts
    BY <1>1 DEF Ledger!Return
  <2>2. \A c \in Starters : calls'[c].step = "idle"
    <3>1. Ledger!NoCall.step = "idle"
      BY DEF Ledger!NoCall
    <3>2. \A c \in Starters \ {h} : calls[c].step = "idle"
      BY <2>1, OnlyCall
    <3> QED
      BY <2>1, <3>1, <3>2 DEF FloorInv, LedgerInv
  <2>3. \A s \in Shift : Ledger!IsRow(s)' => OurRow(s)'
    BY <2>1 DEF OneInv, Ledger!IsRow, OurRow
  <2>4. \A s, u \in Shift : Ledger!IsOpen(s)' /\ Ledger!IsOpen(u)' => s = u
    BY <2>1 DEF OneInv, Ledger!IsOpen, Ledger!IsRow
  <2> QED
    BY <2>1, <2>2, <2>3, <2>4 DEF OneInv, Ledger!InHand
<1> QED
  BY <1>2, <1>9, <1>10, <1>11 DEF StillSteady

\* A heartbeat is answered: it opens nothing, and while a start is out it is
\* that of an earlier connection.
LEMMA BeatAnsweredSteady ==
  ASSUME Steady, NEW k \in Socks, BeatAnswered(k) PROVE StillSteady
<1> USE DEF Steady
<1> DEFINE h == <<k, "beat">>
           s == tasks[h].id
<1>1. /\ UNCHANGED <<toServer, elsewhere>> /\ tasks[h].at = "beating"
      /\ tasks' = [tasks EXCEPT ![h] = Idle]
      /\ shiftId' = shiftId \/ shiftId' = [shiftId EXCEPT ![k] = None]
      /\ toPhone' = toPhone \/ \E m : toPhone' = Emitted(k, m)
      /\ (IsOpen(s) /\ Ledger!Heartbeat(s)) \/ UNCHANGED ledger
  BY DEF BeatAnswered, TellClosed
<1>2. CalmPhone' /\ sock' = sock /\ toServer' = toServer
  BY <1>1, SameCalm DEF elsewhere
<1>3. /\ h \in Handlers /\ h[1] = k /\ h[2] = "beat" /\ k <= sock
      /\ Idle.at = "idle"
  <2>1. h \in Handlers
    BY DEF Handlers, Kinds
  <2> QED
    BY <1>1, <2>1, AtWork DEF Idle
<1>4. Asking => k # sock
  BY <1>1 DEF LatchInv
<1>5. Asking => toPhone' = toPhone /\ shiftId'[sock] = shiftId[sock]
                /\ <<sock, "beat">> \in Handlers /\ <<sock, "beat">> # h
  BY <1>1, <1>4 DEF Emitted, FloorInv, ServerInv, LatchInv, Handlers, Kinds
<1> HIDE DEF h, s
<1>6. \A g \in Handlers \ {h} : tasks'[g] = tasks[g]
  BY <1>1, <1>3 DEF FloorInv, ServerInv
<1>7. Asking => /\ shiftId'[sock] = None /\ tasks'[<<sock, "beat">>].at = "idle"
                /\ \A j \in DOMAIN toPhone' : toPhone'[j].kind = "replayed"
  BY <1>5, <1>6 DEF LatchInv
<1>8. /\ toServer' \in Seq(Frame) /\ 0 \in Int
      /\ \A i \in DOMAIN toServer' : toServer'[i].event = "shift:start" => Starting(i + 0)
  BY <1>2 DEF FloorInv, WireInv, Starting
<1>9. Filed
  BY <1>1, <1>3 DEF Filed
<1>10. CalmServer' /\ LatchInv'
  BY <1>1, <1>3, <1>7, <1>8, <1>9, OtherHandler
<1>11. OneInv'
  <2>1. CASE UNCHANGED ledger
    BY <1>3, <1>6, <2>1, OtherAlone
  <2>2. CASE IsOpen(s) /\ Ledger!Heartbeat(s)
    <3>1. /\ s \in Shift /\ Ledger!IsOpen(s) /\ now' = now /\ calls' = calls
          /\ shifts' = [shifts EXCEPT ![s] = Ledger!Beaten(shifts[s])]
      BY <2>2 DEF IsOpen, Ledger!Heartbeat
    <3>2. shifts[s] \in Ledger!Row /\ shifts[s].serial = Glasses /\ now \in Nat
      BY <3>1 DEF OneInv, OurRow, Ledger!IsOpen
    <3>3. Ledger!Beaten(shifts[s]) \in Ledger!Row /\ Ledger!Beaten(shifts[s]).serial = Glasses
      BY <3>2 DEF Ledger!Beaten, Ledger!Row
    <3>4. RowsClose
      BY <3>1, <3>3, BeatenOnes DEF FloorInv
    <3>5. \A c \in Starters : calls[c].step # "idle" => tasks'[c] = tasks[c]
      <4>1. \A c \in Starters : calls[c].step # "idle" => c \in Handlers /\ c # h
        BY <1>3 DEF OneInv, Starters, Handlers, Kinds
      <4> QED
        BY <1>6, <4>1
    <3> QED
      BY <3>1, <3>2, <3>4, <3>5, ClosedAlone
  <2> QED
    BY <1>1, <2>1, <2>2
<1> QED
  BY <1>2, <1>10, <1>11 DEF StillSteady

\* What waits for a call, and the call.
LEMMA HandlerSteady ==
  ASSUME Steady, NEW h \in Handlers, HandlerStep(h) PROVE StillSteady
<1> USE DEF Steady
<1>1. CASE h \in Starters /\ StartRuns(h)
  <2>1. Ledger!StartStep(h) /\ UNCHANGED <<wire, client, server>>
    BY <1>1 DEF StartRuns
  <2>2. /\ UNCHANGED <<page, phone, store, link, sock, backlog, toServer, toPhone, shiftId, tasks>>
    BY <2>1 DEF wire, client, server
  <2>3. OneInv'
    BY <1>1, <2>1, <2>2, StartStepOne DEF FloorInv
  <2> QED
    BY <2>2, <2>3, RestSteady
<1>2. CASE h \in Starters /\ StartAnswered(h)
  BY <1>2, AnsweredSteady
<1>3. CASE h[2] \in {"end", "replay"} /\ EndAnswered(h)
  <2>1. h = <<h[1], h[2]>> /\ h[1] \in Socks
    BY DEF Handlers
  <2> QED
    BY <1>3, <2>1 DEF EndAnswered, CalmServer
<1>4. CASE h[2] = "beat" /\ BeatAnswered(h[1])
  <2>1. h[1] \in Socks
    BY DEF Handlers
  <2> QED
    BY <1>4, <2>1, BeatAnsweredSteady
<1> QED
  BY <1>1, <1>2, <1>3, <1>4 DEF HandlerStep

\* No step of a floor whose page stays puts a second start out, nor a second
\* open row in the table.
LEMMA SteadyStep == ASSUME SteadyPage, Steady, [Next]_vars PROVE Steady'
<1>1. FloorInv'
  BY FloorStep DEF Steady
<1>2. ASSUME UNCHANGED <<wire, client, server>>,
             \/ Ledger!Sweep \/ Ledger!Tick \/ UNCHANGED ledger
      PROVE  StillSteady
  <2>1. /\ UNCHANGED <<page, phone, store, link, sock, backlog, toServer, toPhone, shiftId, tasks>>
    BY <1>2 DEF wire, client, server
  <2>2. RowsClose /\ calls' = calls /\ now' \in Nat
    BY <1>2, SweptOnes DEF Steady, OneInv, ledger, RowsClose, Ledger!Sweep, Ledger!Tick
  <2>3. OneInv'
    BY <2>1, <2>2, ClosedAlone DEF Steady
  <2> QED
    BY <2>1, <2>3, RestSteady
<1>3. Read \/ Tick \/ Switch \/ UNCHANGED vars => StillSteady
  BY <1>2 DEF Read, Tick, Switch, vars
<1>4. StillSteady
  BY <1>1, <1>3, PhoneSteady, FrameSteady, HandlerSteady, ReplaySteady DEF Next
<1> QED
  BY <1>1, <1>4 DEF Steady, StillSteady

\* A floor starts with an empty table, a dark page and nothing under way.
LEMMA SteadyInit == Init => Steady
<1> SUFFICES ASSUME Init PROVE Steady
  OBVIOUS
<1>1. FloorInv /\ Ledger!Init
  BY FloorInit
<1>2. /\ page = "dark" /\ phone = NoPhone /\ store.queue = <<>> /\ backlog = <<>>
      /\ toServer = <<>> /\ sock = 0
      /\ \A k \in Socks : shiftId[k] = None
      /\ \A h \in Handlers : tasks[h] = Idle
  BY DEF Init
<1>3. CalmPhone
  BY <1>2 DEF CalmPhone, NoPhone, HealthOnly
<1>4. CalmServer
  <2>1. ASSUME NEW k \in Socks
        PROVE  /\ tasks[<<k, "start">>] = Idle /\ tasks[<<k, "replay">>] = Idle
               /\ tasks[<<k, "end">>] = Idle /\ tasks[<<k, "beat">>] = Idle
    BY <1>2 DEF Handlers, Kinds
  <2>2. Idle.at = "idle" /\ HealthOnly(Idle.todo)
    BY DEF Idle, HealthOnly
  <2> QED
    BY <1>2, <2>1, <2>2 DEF CalmServer
<1>5. LatchInv
  <2>1. \A i : ~Starting(i)
    BY <1>2 DEF Starting
  <2>2. \A k : ~Calling(k)
    <3>1. \A k \in Socks : tasks[<<k, "start">>] = Idle
      BY <1>2 DEF Handlers, Kinds
    <3>2. Idle.at = "idle"
      BY DEF Idle
    <3> QED
      BY <3>1, <3>2 DEF Calling
  <2> QED
    BY <2>1, <2>2 DEF LatchInv, Asking
<1>6. OneInv
  <2>1. \A c \in Starters : calls[c].step = "idle"
    BY <1>1 DEF Ledger!Init, Ledger!NoCall
  <2>2. now \in Nat /\ \A s \in Shift : ~Ledger!IsRow(s)
    BY <1>1 DEF Ledger!Init, Ledger!IsRow
  <2> QED
    BY <2>1, <2>2 DEF OneInv, Ledger!InHand, Ledger!IsOpen
<1> QED
  BY <1>1, <1>3, <1>4, <1>5, <1>6 DEF Steady

\* One pair of glasses is on one shift at a time (start() of shifts.py closes
\* "anything else this hardware still has open" before it inserts, in a
\* transaction of its own), whatever the wifi, the control plane, the battery
\* and the tenant's switch do, for any number of connections: the latch of open()
\* (shift.ts) never has two starts out while the page stays.
THEOREM OneGlassesOneShift == SteadyPage /\ Spec => []OneOpenPerGlasses
<1>1. Init => Steady
  BY SteadyInit
<1>2. SteadyPage /\ Steady /\ [Next]_vars => Steady'
  BY SteadyStep
<1>3. Steady => OneOpenPerGlasses
  BY DEF Steady, OneInv, OneOpenPerGlasses, IsOpen
<1>4. SteadyPage => SteadyPage'
  BY DEF SteadyPage
<1> QED
  BY <1>1, <1>2, <1>3, <1>4, PTL DEF Spec

\* A floor whose page stays never has two starts of its glasses in hand, which is
\* all that the ledger asks of its callers for shifts not to overlap: with it,
\* NoOverlap of ShiftLedger (HoursCountedOnce) is a property of this floor, of
\* any number of connections.
THEOREM FloorSerialises == SteadyPage /\ Spec => Ledger!SerialisedSpec
<1>1. Init => Steady /\ Ledger!Init
  BY SteadyInit, FloorInit
<1>2. SteadyPage /\ Steady /\ [Next]_vars => Steady' /\ [Ledger!Next]_(Ledger!vars)
  BY SteadyStep, FloorStep DEF Steady, ledger, Ledger!vars
<1>3. Steady => Ledger!OneStartPerSerial
  <2> SUFFICES ASSUME Steady, NEW c \in Starters, NEW d \in Starters,
                      Ledger!InHand(c), Ledger!InHand(d)
               PROVE  c = d
    BY DEF Ledger!OneStartPerSerial
  <2> QED
    BY OnlyCall DEF Steady, Ledger!InHand
<1>4. SteadyPage /\ Steady /\ [Next]_vars
        => Steady' /\ [Ledger!Next /\ Ledger!OneStartPerSerial']_(Ledger!vars)
  <2>1. Steady' => Ledger!OneStartPerSerial'
    BY <1>3, PTL
  <2> QED
    BY <1>2, <2>1
<1>5. SteadyPage => SteadyPage'
  BY DEF SteadyPage
<1> QED
  BY <1>1, <1>4, <1>5, PTL DEF Spec, Ledger!SerialisedSpec

-----------------------------------------------------------------------------
(* One outing, one shift.  With no more going wrong than the wifi, the     *)
(* battery and the tenant's switch, whatever is still to ask for a shift   *)
(* names the one row that is open, or none is.                             *)

OnlyOutages == SteadyPage /\ Faults \cap {"unreachable", "lost_answer"} = {}

\* The open row, if there is one, is x; NULL is no row.
Only(x) == \A s \in Shift : Ledger!IsOpen(s) => s = x

Late(s) == shifts[s].beat + Gap < now

\* What a call will resume, or answers; between the two, no row is open.
CallNames(call) ==
  /\ call.step \in {"sweep", "resume"} => Only(call.resume)
  /\ call.step \in {"dedupe", "supersede", "insert"} => Only(None)
  /\ call.step = "done" => Only(call.got)

\* What the phone will hold when it hears this.
Tells(m) ==
  /\ m.kind = "open" => Only(m.id)
  /\ m.kind \in {"closed", "retry"} => Only(None)

Serves(k) ==
  /\ shiftId[k] # None => Only(shiftId[k])
  /\ tasks[<<k, "beat">>].at = "beating" => Only(tasks[<<k, "beat">>].id)

OutingInv ==
  /\ \A s \in Shift : Ledger!IsRow(s) => Ledger!IsOpen(s) \/ Late(s)
  /\ phone.stopped \/ phone.loaded = "no" => ~Asking
  /\ ~phone.stopped /\ ~phone.opening => Only(phone.held)
  /\ page = "dark" \/ phone.loaded = "no" => Only(None)
  /\ \A i : Starting(i) => Only(toServer[i].id)
  /\ \A c \in Starters : CallNames(calls[c])
  /\ \A j \in DOMAIN toPhone : Tells(toPhone[j])
  /\ sock \in Socks => Serves(sock)

\* Where no row is open, any name will do.
LEMMA NoneIsAny == ASSUME Only(None), NEW x PROVE Only(x)
BY NullAssumption DEF Only

\* A row that stays open, or goes late, keeps what named it.
LEMMA OutingMoves ==
  ASSUME \A s \in Shift : Ledger!IsRow(s)' => Ledger!IsOpen(s)' \/ Late(s)',
         \A s \in Shift : Ledger!IsOpen(s)' => Ledger!IsOpen(s),
         phone'.stopped \/ phone'.loaded = "no" => ~Asking',
         ~phone'.stopped /\ ~phone'.opening => Only(phone'.held),
         page' = "dark" \/ phone'.loaded = "no" => Only(None),
         \A i : Starting(i)' => Only(toServer'[i].id),
         \A c \in Starters : CallNames(calls'[c]),
         \A j \in DOMAIN toPhone' : Tells(toPhone'[j]),
         sock' \in Socks =>
           /\ shiftId'[sock'] # None => Only(shiftId'[sock'])
           /\ tasks'[<<sock', "beat">>].at = "beating"
                => Only(tasks'[<<sock', "beat">>].id)
  PROVE  OutingInv'
<1>1. ~phone'.stopped /\ ~phone'.opening => Only(phone.held)'
  BY DEF Only
<1>2. page' = "dark" \/ phone'.loaded = "no" => Only(None)'
  BY DEF Only
<1>3. \A i : Starting(i)' => Only(toServer[i].id)'
  BY DEF Only
<1>4. \A c \in Starters : CallNames(calls[c])'
  BY DEF Only, CallNames
<1>5. \A j \in DOMAIN toPhone' : Tells(toPhone[j])'
  BY DEF Only, Tells
<1>6. sock' \in Socks' => Serves(sock)'
  BY DEF Only, Serves, Socks
<1> QED
  BY <1>1, <1>2, <1>3, <1>4, <1>5, <1>6 DEF OutingInv

\* The table as it was, or a unit of time later.
LEMMA RowsAlone ==
  ASSUME OneInv, OutingInv, shifts' = shifts, now' = now \/ now' = now + 1
  PROVE  /\ \A s \in Shift : Ledger!IsRow(s)' => Ledger!IsOpen(s)' \/ Late(s)'
         /\ \A s \in Shift : Ledger!IsOpen(s)' => Ledger!IsOpen(s)
<1>1. ASSUME NEW s \in Shift, Ledger!IsRow(s), Late(s) PROVE Late(s)'
  <2>1. shifts[s].beat \in Nat /\ now \in Nat /\ Gap \in Nat
    BY <1>1, GapAssumption DEF OneInv, OurRow, Ledger!Row
  <2> QED
    BY <1>1, <2>1 DEF Late
<1> QED
  BY <1>1 DEF OutingInv, Ledger!IsRow, Ledger!IsOpen

\* A step that leaves the table alone, and the calls.
LEMMA OutingRests ==
  ASSUME Steady, OutingInv, UNCHANGED ledger,
         phone'.stopped \/ phone'.loaded = "no" => ~Asking',
         ~phone'.stopped /\ ~phone'.opening => Only(phone'.held),
         page' = "dark" \/ phone'.loaded = "no" => Only(None),
         \A i : Starting(i)' => Only(toServer'[i].id),
         \A j \in DOMAIN toPhone' : Tells(toPhone'[j]),
         sock' \in Socks =>
           /\ shiftId'[sock'] # None => Only(shiftId'[sock'])
           /\ tasks'[<<sock', "beat">>].at = "beating"
                => Only(tasks'[<<sock', "beat">>].id)
  PROVE  OutingInv'
<1>1. shifts' = shifts /\ now' = now /\ calls' = calls
  BY DEF ledger
<1>2. \A c \in Starters : CallNames(calls'[c])
  BY <1>1 DEF OutingInv
<1>3. /\ \A s \in Shift : Ledger!IsRow(s)' => Ledger!IsOpen(s)' \/ Late(s)'
      /\ \A s \in Shift : Ledger!IsOpen(s)' => Ledger!IsOpen(s)
  BY <1>1, RowsAlone DEF Steady
<1> QED
  BY <1>2, <1>3, OutingMoves

\* The page comes up with nothing open.
LEMMA LaunchOuting == ASSUME Steady, OutingInv, Launch PROVE OutingInv'
<1>1. /\ page = "dark" /\ phone' = NoPhone
      /\ UNCHANGED <<ledger, sock, toServer, toPhone, shiftId, tasks>>
  BY DEF Launch, wire, server
<1>2. Only(None)
  BY <1>1 DEF OutingInv
<1>3. ~NoPhone.stopped /\ NoPhone.held = None /\ ~Asking'
  BY <1>1 DEF NoPhone, Steady, LatchInv, Asking, Starting, Calling
<1>4. /\ \A i : Starting(i)' => Only(toServer'[i].id)
      /\ \A j \in DOMAIN toPhone' : Tells(toPhone'[j])
      /\ sock' \in Socks =>
           /\ shiftId'[sock'] # None => Only(shiftId'[sock'])
           /\ tasks'[<<sock', "beat">>].at = "beating"
                => Only(tasks'[<<sock', "beat">>].id)
  BY <1>1 DEF OutingInv, Starting, Serves
<1> QED
  BY <1>1, <1>2, <1>3, <1>4, OutingRests

\* A connection asks for what the phone holds.
LEMMA ConnectOuting == ASSUME SteadyPage, Steady, OutingInv, Connect PROVE OutingInv'
<1> USE DEF Steady
<1>1. /\ page = "up" /\ page' = page /\ sock' = sock + 1 /\ sock \in 0 .. MaxSock /\ link = "down"
      /\ sock + 1 <= MaxSock /\ toPhone' = <<>> /\ UNCHANGED <<ledger, shiftId, tasks>>
  <2>1. sock \in 0 .. MaxSock /\ sock < MaxSock /\ MaxSock \in Nat
    BY BoundsAssumption DEF Connect, FloorInv, WireInv
  <2>2. sock + 1 <= MaxSock
    BY <2>1
  <2> QED
    BY <2>1, <2>2 DEF Connect, server
<1>2. /\ phone \in Phone /\ store \in Store /\ backlog = <<>>
      /\ Append(backlog, Register) = <<Register>>
  BY DEF FloorInv, PhoneInv, CalmPhone
<1>3. sock' \in Socks /\ sock' > sock /\ ~(sock' <= sock)
  BY <1>1, BoundsAssumption DEF Socks
<1>4. shiftId'[sock'] = None /\ tasks'[<<sock', "beat">>].at # "beating"
  <2>1. <<sock', "beat">> \in Handlers /\ <<sock', "beat">>[1] = sock'
    BY <1>3 DEF Handlers, Kinds
  <2>2. tasks[<<sock', "beat">>].at = "idle"
    BY <1>3, <2>1 DEF FloorInv, ServerInv
  <2> QED
    BY <1>1, <1>3, <2>2 DEF CalmServer
<1>5. \A j \in DOMAIN toPhone' : Tells(toPhone'[j])
  BY <1>1
<1>6. CASE phone.stopped /\ toServer' = <<Register>> /\ UNCHANGED <<phone, store>>
  <2>1. \A i : ~Starting(i)'
    BY <1>6 DEF Starting, Register
  <2>2. \A k : Calling(k)' => Calling(k)
    BY <1>1 DEF Calling
  <2>3. ~Asking'
    BY <1>6, <2>1, <2>2 DEF Asking, OutingInv
  <2> QED
    BY <1>1, <1>4, <1>5, <1>6, <2>1, <2>3, OutingRests DEF OutingInv
<1>7. CASE /\ ~phone.stopped
           /\ FlushAndOpen(IF phone.loaded = "no" THEN Loaded ELSE phone, TRUE, <<Register>>)
  <2> DEFINE p == IF phone.loaded = "no" THEN Loaded ELSE phone
  <2>1. /\ p \in Phone /\ HealthOnly(p.queue) /\ p.loaded # "no" /\ ~p.stopped
        /\ p.opening = phone.opening
        /\ ~p.opening => Only(p.held)
    <3>1. CASE phone.loaded = "no"
      <4>1. p = Loaded /\ Only(None)
        BY <1>1, <3>1 DEF OutingInv
      <4>2. Only(Loaded.held)
        BY <4>1, NoneIsAny
      <4>3. /\ Loaded \in Phone /\ Loaded.loaded = "yes" /\ Loaded.stopped = phone.stopped
            /\ Loaded.opening = phone.opening /\ Loaded.queue = store.queue
        BY <1>2, NewPhones DEF Loaded, Phone
      <4> QED
        BY <1>7, <4>1, <4>2, <4>3 DEF CalmPhone
    <3>2. CASE phone.loaded # "no"
      BY <1>2, <1>7, <3>2 DEF CalmPhone, OutingInv
    <3> QED
      BY <3>1, <3>2
  <2>2. FlushAndOpen(p, TRUE, <<Register>>)
    BY <1>7
  <2> HIDE DEF p
  <2>3. StartOf(p) \in Frame
    <3>1. stamp \in Nat /\ stamp + Unstamped <= sock /\ Unstamped \in {0, 1}
      BY DEF FloorInv, PhoneInv, Unstamped
    <3>2. stamp + 1 <= MaxSock
      BY <1>1, <3>1, BoundsAssumption
    <3> QED
      BY <2>1, <3>1, <3>2, StartIsEvent, Emissions
  <2>4. /\ phone' \in [held: {p.held}, opening: {p.opening \/ Opens(p)},
                       asked: {p.asked, sock'}, stopped: {p.stopped}, loaded: {p.loaded}, beating: {p.beating}, hidden: {p.hidden},
                       closing: {p.closing}, queue: {p.queue}]
        /\ \A i \in DOMAIN toServer' :
             toServer'[i].event = "shift:start" => Opens(p) /\ toServer'[i] = StartOf(p)
    BY <1>2, <2>1, <2>2, <2>3, FlushedSteady
  <2>5. ~phone'.stopped /\ phone'.loaded # "no" /\ phone'.opening = (p.opening \/ Opens(p))
    BY <2>1, <2>4
  <2>6. p.opening \/ Opens(p)
    BY <2>1 DEF Opens
  <2>7. phone'.opening
    BY <2>5, <2>6, Zenon
  <2>8. \A i : Starting(i)' => Only(toServer'[i].id)
    <3>1. StartOf(p).id = p.held
      BY DEF StartOf, StartEvent
    <3> QED
      BY <2>1, <2>4, <3>1 DEF Starting, Opens
  <2> QED
    BY <1>1, <1>4, <1>5, <2>5, <2>7, <2>8, OutingRests
<1> QED
  BY <1>2, <1>6, <1>7 DEF Connect, SteadyPage

\* What the phone hears, it holds.
LEMMA ReceiveOuting == ASSUME Steady, OutingInv, Receive PROVE OutingInv'
<1> USE DEF Steady
<1> DEFINE m == Head(toPhone)
<1>1. /\ phone \in Phone /\ toPhone \in Seq(Message) /\ toPhone # <<>>
      /\ toPhone' = Tail(toPhone)
      /\ UNCHANGED <<ledger, sock, toServer, page, shiftId, tasks>>
  BY DEF Receive, server, FloorInv, PhoneInv, WireInv
<1>2. /\ m \in Message /\ m = toPhone[1] /\ 1 \in DOMAIN toPhone
      /\ \A j \in DOMAIN toPhone' : j + 1 \in DOMAIN toPhone /\ toPhone'[j] = toPhone[j + 1]
  BY <1>1, TailOf
<1>3. /\ m.kind \in {"open", "closed", "stop", "retry", "replayed"}
      /\ Tells(m) /\ (m.kind # "replayed" => ~Asking)
  BY <1>2 DEF Message, OutingInv, LatchInv
<1>4. \A j \in DOMAIN toPhone' : Tells(toPhone'[j])
  BY <1>2 DEF OutingInv
<1>5. Asking' <=> Asking
  BY <1>1 DEF Asking, Starting, Calling
<1>6. /\ phone'.loaded = phone.loaded
      /\ phone'.stopped => phone.stopped \/ m.kind = "stop"
      /\ ~phone'.stopped /\ ~phone'.opening => Only(phone'.held)
  <2>1. CASE m.kind = "open"
    <3>1. phone' = [phone EXCEPT !.opening = FALSE, !.held = m.id, !.beating = TRUE]
      BY <2>1 DEF Receive
    <3>2. /\ phone'.loaded = phone.loaded /\ phone'.stopped = phone.stopped
          /\ phone'.held = m.id
      BY <1>1, <3>1 DEF Phone
    <3> QED
      BY <1>3, <2>1, <3>2 DEF Tells
  <2>2. CASE m.kind = "stop"
    <3>1. phone' = [phone EXCEPT !.opening = FALSE, !.held = None, !.beating = FALSE,
                                 !.stopped = TRUE, !.queue = <<>>]
      BY <2>2 DEF Receive
    <3>2. phone'.loaded = phone.loaded /\ phone'.stopped
      BY <1>1, <3>1 DEF Phone
    <3> QED
      BY <2>2, <3>2
  <2>3. CASE m.kind \in {"closed", "retry"}
    <3>1. phone' = [phone EXCEPT !.opening = FALSE, !.held = None, !.beating = FALSE]
      BY <2>3 DEF Receive
    <3>2. /\ phone'.loaded = phone.loaded /\ phone'.stopped = phone.stopped
          /\ phone'.held = None
      BY <1>1, <3>1 DEF Phone
    <3> QED
      BY <1>3, <2>3, <3>2 DEF Tells
  <2>4. CASE m.kind = "replayed"
    <3>1. phone' = [phone EXCEPT !.queue = <<>>]
      BY <2>4 DEF Receive
    <3>2. /\ phone'.loaded = phone.loaded /\ phone'.stopped = phone.stopped
          /\ phone'.held = phone.held /\ phone'.opening = phone.opening
      BY <1>1, <3>1 DEF Phone
    <3> QED
      BY <3>2 DEF OutingInv
  <2> QED
    BY <1>3, <2>1, <2>2, <2>3, <2>4
<1>7. phone'.stopped \/ phone'.loaded = "no" => ~Asking'
  BY <1>3, <1>5, <1>6 DEF OutingInv
<1>8. page' = "dark" \/ phone'.loaded = "no" => Only(None)
  BY <1>1, <1>6 DEF OutingInv
<1>9. \A i : Starting(i)' => Only(toServer'[i].id)
  BY <1>1 DEF OutingInv, Starting
<1>10. sock' \in Socks =>
         /\ shiftId'[sock'] # None => Only(shiftId'[sock'])
         /\ tasks'[<<sock', "beat">>].at = "beating"
              => Only(tasks'[<<sock', "beat">>].id)
  BY <1>1 DEF OutingInv, Serves
<1> QED
  BY <1>1, <1>4, <1>6, <1>7, <1>8, <1>9, <1>10, OutingRests

\* The rest of what a page that stays does asks for nothing.
LEMMA PhoneOuting == ASSUME SteadyPage, Steady, OutingInv, PhoneNext PROVE OutingInv'
<1> USE DEF Steady
<1>1. ~StoreAnswers /\ ~Teardown /\ ~DispatchEnd /\ ~PageHide
  BY DEF CalmPhone, StoreAnswers, Teardown, DispatchEnd, PageHide, SteadyPage
<1>2. ASSUME UNCHANGED <<ledger, sock, page, tasks>>,
             phone' \in [held: {phone.held}, opening: {phone.opening}, asked: {phone.asked},
                         stopped: {phone.stopped}, loaded: {phone.loaded}, beating: {phone.beating},
                         hidden: {phone.hidden}, closing: {phone.closing}, queue: Queue],
             \A k \in Socks : shiftId'[k] = shiftId[k] \/ shiftId'[k] = None,
             toPhone' = toPhone \/ toPhone' = <<>>,
             \A i : Starting(i)' => Starting(i) /\ toServer'[i] = toServer[i]
      PROVE  OutingInv'
  <2>1. /\ phone'.held = phone.held /\ phone'.opening = phone.opening
        /\ phone'.stopped = phone.stopped /\ phone'.loaded = phone.loaded
    BY <1>2
  <2>2. Asking' => Asking
    BY <1>2 DEF Asking, Calling
  <2>3. phone'.stopped \/ phone'.loaded = "no" => ~Asking'
    BY <2>1, <2>2 DEF OutingInv
  <2>4. \A j \in DOMAIN toPhone' : Tells(toPhone'[j])
    BY <1>2 DEF OutingInv
  <2>5. \A i : Starting(i)' => Only(toServer'[i].id)
    BY <1>2 DEF OutingInv
  <2>6. sock' \in Socks =>
          /\ shiftId'[sock'] # None => Only(shiftId'[sock'])
          /\ tasks'[<<sock', "beat">>].at = "beating"
               => Only(tasks'[<<sock', "beat">>].id)
    BY <1>2 DEF OutingInv, Serves
  <2>7. /\ ~phone'.stopped /\ ~phone'.opening => Only(phone'.held)
        /\ page' = "dark" \/ phone'.loaded = "no" => Only(None)
    BY <1>2, <2>1 DEF OutingInv
  <2> QED
    BY <1>2, <2>3, <2>4, <2>5, <2>6, <2>7, OutingRests
<1>3. phone \in Phone /\ toServer \in Seq(Frame)
  BY DEF FloorInv, PhoneInv, WireInv
<1>4. phone \in [held: {phone.held}, opening: {phone.opening}, asked: {phone.asked},
                 stopped: {phone.stopped}, loaded: {phone.loaded}, beating: {phone.beating},
                 hidden: {phone.hidden}, closing: {phone.closing}, queue: Queue]
  BY <1>3 DEF Phone
<1>5. CASE SendBeat
  <2>1. toServer' = Append(toServer, Beat) /\ UNCHANGED <<ledger, sock, page, phone, toPhone,
                                                          shiftId, tasks>>
    BY <1>5 DEF SendBeat, client, server
  <2>2. /\ \A i \in DOMAIN toServer' : i \in DOMAIN toServer \/ i = Len(toServer) + 1
        /\ \A i \in DOMAIN toServer : toServer'[i] = toServer[i]
        /\ toServer'[Len(toServer) + 1] = Beat /\ Beat.event # "shift:start"
    BY <1>3, <2>1, AppendTo, Emissions DEF Beat
  <2>3. \A i : Starting(i)' => Starting(i) /\ toServer'[i] = toServer[i]
    BY <2>2 DEF Starting
  <2> QED
    BY <1>2, <1>4, <2>1, <2>3
<1>6. CASE BufferStatus
  <2> DEFINE queue == Buffered(phone.queue, HealthEvent)
  <2>1. /\ phone' = [phone EXCEPT !.queue = queue]
        /\ UNCHANGED <<ledger, sock, page, toServer, toPhone, shiftId, tasks>>
    BY <1>6 DEF BufferStatus, wire, server
  <2>2. queue \in Queue
    BY <1>3, BufferedQueue, Emissions DEF Phone
  <2> HIDE DEF queue
  <2>3. phone' \in [held: {phone.held}, opening: {phone.opening}, asked: {phone.asked},
                    stopped: {phone.stopped}, loaded: {phone.loaded}, beating: {phone.beating},
                    hidden: {phone.hidden}, closing: {phone.closing}, queue: Queue]
    BY <1>3, <2>1, <2>2 DEF Phone
  <2> QED
    BY <1>2, <2>1, <2>3 DEF Starting
<1>7. CASE Drop
  <2>1. /\ toServer' = <<>> /\ toPhone' = <<>> /\ shiftId' = [shiftId EXCEPT ![sock] = None]
        /\ UNCHANGED <<ledger, sock, page, phone, tasks>>
    BY <1>7 DEF Drop, Disconnected, client
  <2>2. \A k \in Socks : shiftId'[k] = shiftId[k] \/ shiftId'[k] = None
    BY <2>1 DEF FloorInv, ServerInv
  <2> QED
    BY <1>2, <1>4, <2>1, <2>2 DEF Starting
<1> QED
  BY <1>1, <1>5, <1>6, <1>7, LaunchOuting, ConnectOuting, ReceiveOuting DEF PhoneNext

\* A handler that tells nothing false, and serves nothing but what is open.
LEMMA OutingServes ==
  ASSUME Steady, OutingInv, UNCHANGED elsewhere,
         \A s \in Shift : Ledger!IsRow(s)' => Ledger!IsOpen(s)' \/ Late(s)',
         \A s \in Shift : Ledger!IsOpen(s)' => Ledger!IsOpen(s),
         \A c \in Starters : CallNames(calls'[c]),
         \A i : Starting(i)' => Only(toServer'[i].id),
         Asking' => Asking,
         \/ toPhone' = toPhone
         \/ \E k : \E m \in Message : toPhone' = Emitted(k, m) /\ (k = sock => Tells(m)),
         shiftId'[sock] = shiftId[sock] \/ shiftId'[sock] = None \/ Only(shiftId'[sock]),
         \/ tasks'[<<sock, "beat">>] = tasks[<<sock, "beat">>]
         \/ tasks'[<<sock, "beat">>].at # "beating"
         \/ Only(tasks'[<<sock, "beat">>].id)
  PROVE  OutingInv'
<1>1. page' = page /\ phone' = phone /\ sock' = sock
  BY DEF elsewhere, client
<1>2. \A j \in DOMAIN toPhone' : Tells(toPhone'[j])
  <2>1. ASSUME NEW m \in Message, toPhone' = Append(toPhone, m), Tells(m)
        PROVE  \A j \in DOMAIN toPhone' : Tells(toPhone'[j])
    <3>1. /\ \A j \in DOMAIN toPhone' : j \in DOMAIN toPhone \/ j = Len(toPhone) + 1
          /\ \A j \in DOMAIN toPhone : toPhone'[j] = toPhone[j]
          /\ toPhone'[Len(toPhone) + 1] = m
      BY <2>1, AppendTo DEF Steady, FloorInv, WireInv
    <3> QED
      BY <2>1, <3>1 DEF OutingInv
  <2> QED
    BY <2>1 DEF OutingInv, Emitted
<1>3. /\ phone'.stopped \/ phone'.loaded = "no" => ~Asking'
      /\ ~phone'.stopped /\ ~phone'.opening => Only(phone'.held)
      /\ page' = "dark" \/ phone'.loaded = "no" => Only(None)
  BY <1>1 DEF OutingInv
<1>4. sock' \in Socks =>
        /\ shiftId'[sock'] # None => Only(shiftId'[sock'])
        /\ tasks'[<<sock', "beat">>].at = "beating"
             => Only(tasks'[<<sock', "beat">>].id)
  BY <1>1 DEF OutingInv, Serves
<1> QED
  BY <1>2, <1>3, <1>4, OutingMoves

\* The same, where the ledger is left alone.
LEMMA OutingSpeaks ==
  ASSUME Steady, OutingInv, UNCHANGED <<ledger, elsewhere>>,
         \A i : Starting(i)' => Only(toServer'[i].id),
         Asking' => Asking,
         \/ toPhone' = toPhone
         \/ \E k : \E m \in Message : toPhone' = Emitted(k, m) /\ (k = sock => Tells(m)),
         shiftId'[sock] = shiftId[sock] \/ shiftId'[sock] = None \/ Only(shiftId'[sock]),
         \/ tasks'[<<sock, "beat">>] = tasks[<<sock, "beat">>]
         \/ tasks'[<<sock, "beat">>].at # "beating"
         \/ Only(tasks'[<<sock, "beat">>].id)
  PROVE  OutingInv'
<1>1. shifts' = shifts /\ now' = now /\ calls' = calls
  BY DEF ledger
<1>2. /\ \A s \in Shift : Ledger!IsRow(s)' => Ledger!IsOpen(s)' \/ Late(s)'
      /\ \A s \in Shift : Ledger!IsOpen(s)' => Ledger!IsOpen(s)
  BY <1>1, RowsAlone DEF Steady
<1>3. \A c \in Starters : CallNames(calls'[c])
  BY <1>1 DEF OutingInv
<1> QED
  BY <1>2, <1>3, OutingServes

\* A handler of a kind that never calls the ledger for a start puts none out.
LEMMA NoneCalls ==
  ASSUME Steady, NEW h \in Handlers, h[2] # "start",
         \A g \in Handlers \ {h} : tasks'[g] = tasks[g],
         \A i : Starting(i)' => \E j : Starting(j)
  PROVE  Asking' => Asking
<1>1. ASSUME NEW k \in Socks PROVE tasks'[<<k, "start">>] = tasks[<<k, "start">>]
  <2>1. <<k, "start">> \in Handlers /\ <<k, "start">>[2] = "start"
    BY DEF Handlers, Kinds
  <2> QED
    BY <2>1
<1> QED
  BY <1>1 DEF Asking, Calling

\* A frame that arrives: a start hands its name on to the call.
LEMMA FrameOuting == ASSUME OnlyOutages, Steady, OutingInv, FrameArrives PROVE OutingInv'
<1> USE DEF Steady
<1>0. Take /\ UNCHANGED elsewhere
  BY DEF FrameArrives, RegisterArrives, StartArrives, EndArrives, BeatArrives, ReplayArrives
<1>1. /\ sock \in Socks /\ sock' = sock /\ page' = page /\ phone' = phone
      /\ \A kind \in Kinds : <<sock, kind>> \in Handlers
  BY <1>0, TakeOK DEF elsewhere, client
<1>2. /\ CalmFrame(Head(toServer))
      /\ Head(toServer).event = "shift:start" => Starting(1)
      /\ \A i \in DOMAIN toServer' :
           toServer'[i].event = "shift:start" => Starting(i + 1) /\ i + 1 # 1
  BY <1>0, TakenSteady
<1>3. \A i : Starting(i)' => Starting(i + 1) /\ i + 1 # 1 /\ toServer'[i] = toServer[i + 1]
  <2>1. toServer # <<>> /\ toServer' = Tail(toServer) /\ toServer \in Seq(Frame)
    BY <1>0 DEF Take, FloorInv, WireInv
  <2>2. \A i \in DOMAIN toServer' : toServer'[i] = toServer[i + 1]
    BY <2>1, TailOf
  <2> QED
    BY <1>2, <2>2 DEF Starting
<1>4. \A i : Starting(i)' => Only(toServer'[i].id)
  BY <1>3 DEF OutingInv
<1>5. CASE RegisterArrives
  <2>1. UNCHANGED <<ledger, toPhone, shiftId, tasks>>
    BY <1>5 DEF RegisterArrives
  <2>2. Asking' => Asking
    BY <1>3, <2>1 DEF Asking, Calling
  <2> QED
    BY <1>0, <1>4, <2>1, <2>2, OutingSpeaks
<1>6. CASE StartArrives
  <2> DEFINE h == <<sock, "start">>
             e == Head(toServer)
  <2>1. /\ e.event = "shift:start" /\ HandleStart(h, e) /\ Starting(1)
    BY <1>2, <1>6 DEF StartArrives
  <2>2. /\ h \in Handlers /\ h \in Starters /\ h[1] = sock /\ h[2] = "start"
        /\ <<sock, "beat">> \in Handlers /\ <<sock, "beat">> # h
    BY <1>1 DEF Starters, Kinds
  <2>3. Only(e.id) /\ Asking
    <3>1. e = toServer[1]
      BY <1>0 DEF Take, FloorInv, WireInv
    <3> QED
      BY <2>1, <3>1 DEF OutingInv, Asking
  <2> HIDE DEF h, e
  <2>4. CASE /\ Ledger!BeginStart(h, Glasses, None, e.id, e.at)
             /\ tasks' = [tasks EXCEPT ![h].at = "calling"]
             /\ UNCHANGED <<shiftId, toPhone>>
    <3> DEFINE call == [step |-> "sweep", serial |-> Glasses, user |-> None,
                        resume |-> e.id, stamp |-> e.at, got |-> None]
    <3>1. now' = now /\ shifts' = shifts /\ calls' = [calls EXCEPT ![h] = call]
      BY <2>4 DEF Ledger!BeginStart
    <3>2. CallNames(call)
      BY <2>3 DEF CallNames
    <3> HIDE DEF call
    <3>3. \A c \in Starters : CallNames(calls'[c])
      BY <2>2, <3>1, <3>2 DEF OutingInv, FloorInv, LedgerInv
    <3>4. /\ \A s \in Shift : Ledger!IsRow(s)' => Ledger!IsOpen(s)' \/ Late(s)'
          /\ \A s \in Shift : Ledger!IsOpen(s)' => Ledger!IsOpen(s)
      BY <3>1, RowsAlone
    <3>5. tasks'[<<sock, "beat">>] = tasks[<<sock, "beat">>]
      BY <2>2, <2>4 DEF FloorInv, ServerInv
    <3> QED
      BY <1>0, <1>4, <2>3, <2>4, <3>3, <3>4, <3>5, OutingServes
  <2>5. ASSUME NEW m \in Message, m.kind = "stop", StartRefused(h, m),
               tasks' = [tasks EXCEPT ![h] = HandlerDone(h)]
        PROVE  OutingInv'
    <3>1. /\ UNCHANGED ledger /\ toPhone' = Emitted(sock, m)
          /\ shiftId' = [shiftId EXCEPT ![sock] = None]
      BY <2>2, <2>5 DEF StartRefused
    <3>2. shiftId'[sock] = None /\ Tells(m)
      BY <1>1, <2>5, <3>1 DEF FloorInv, ServerInv, Tells
    <3>3. tasks'[<<sock, "beat">>] = tasks[<<sock, "beat">>]
      BY <2>2, <2>5 DEF FloorInv, ServerInv
    <3>4. \E k : \E n \in Message : toPhone' = Emitted(k, n) /\ (k = sock => Tells(n))
      BY <3>1, <3>2
    <3> QED
      BY <1>0, <1>4, <2>3, <3>1, <3>2, <3>3, <3>4, OutingSpeaks
  <2>6. StopState \in Message /\ StopState.kind = "stop" /\ "unreachable" \notin Faults
    BY Emissions DEF StopState, OnlyOutages
  <2> QED
    BY <2>1, <2>4, <2>5, <2>6 DEF HandleStart
<1>7. CASE EndArrives
  BY <1>2, <1>7 DEF EndArrives, CalmFrame
<1>8. CASE BeatArrives
  <2> DEFINE h == <<sock, "beat">>
             t == IF shiftId[sock] = None THEN tasks[h]
                  ELSE [Idle EXCEPT !.at = "beating", !.id = shiftId[sock]]
  <2>1. UNCHANGED <<ledger, toPhone, shiftId>> /\ tasks' = [tasks EXCEPT ![h] = t]
    BY <1>8 DEF BeatArrives, FloorInv, ServerInv
  <2>2. h \in Handlers /\ h[2] = "beat"
    BY <1>1 DEF Kinds
  <2>3. t = tasks[h] \/ Only(t.id)
    BY <1>1 DEF OutingInv, Serves, Idle
  <2> HIDE DEF h, t
  <2>4. tasks'[h] = t /\ \A g \in Handlers \ {h} : tasks'[g] = tasks[g]
    BY <2>1, <2>2 DEF FloorInv, ServerInv
  <2>5. Asking' => Asking
    BY <1>3, <2>2, <2>4, NoneCalls
  <2>6. tasks'[<<sock, "beat">>] = tasks[<<sock, "beat">>] \/ Only(tasks'[<<sock, "beat">>].id)
    BY <2>3, <2>4 DEF h
  <2> QED
    BY <1>0, <1>4, <2>1, <2>5, <2>6, OutingSpeaks
<1>9. CASE ReplayArrives
  <2> DEFINE h == <<sock, "replay">>
  <2>1. UNCHANGED <<ledger, toPhone, shiftId>> /\ \E t : tasks' = [tasks EXCEPT ![h] = t]
    BY <1>9, ReplayTaken DEF ReplayArrives
  <2>2. h \in Handlers /\ h[2] = "replay" /\ <<sock, "beat">> \in Handlers /\ <<sock, "beat">> # h
    BY <1>1 DEF Kinds
  <2> HIDE DEF h
  <2>3. \A g \in Handlers \ {h} : tasks'[g] = tasks[g]
    BY <2>1, <2>2 DEF FloorInv, ServerInv
  <2>4. Asking' => Asking
    BY <1>3, <2>2, <2>3, NoneCalls
  <2>5. tasks'[<<sock, "beat">>] = tasks[<<sock, "beat">>]
    BY <2>2, <2>3
  <2> QED
    BY <1>0, <1>4, <2>1, <2>4, <2>5, OutingSpeaks
<1> QED
  BY <1>5, <1>6, <1>7, <1>8, <1>9 DEF FrameArrives

\* A replay of battery reports says nothing of a shift.
LEMMA ReplayOuting ==
  ASSUME Steady, OutingInv, NEW k \in Socks, ReplayNext(k) \/ ReplayDone(k) PROVE OutingInv'
<1> USE DEF Steady
<1> DEFINE h == <<k, "replay">>
<1>1. UNCHANGED <<toServer, elsewhere>>
  BY DEF ReplayNext, ReplayDone
<1>2. /\ h \in Handlers /\ h[2] = "replay" /\ tasks[h] \in Task /\ HealthOnly(tasks[h].todo)
      /\ Replayed(tasks[h].took) \in Message /\ Replayed(tasks[h].took).kind = "replayed"
  BY Emissions DEF Handlers, Kinds, FloorInv, ServerInv, CalmServer, Task, Replayed
<1>3. /\ UNCHANGED <<ledger, shiftId>> /\ \E t : tasks' = [tasks EXCEPT ![h] = t]
      /\ toPhone' = toPhone \/ toPhone' = Emitted(k, Replayed(tasks[h].took))
  <2>1. CASE ReplayNext(k)
    <3>1. tasks[h].todo # <<>> /\ tasks[h].todo \in Seq(Event)
      BY <1>2, <2>1 DEF ReplayNext, Task
    <3>2. 1 \in DOMAIN tasks[h].todo /\ Head(tasks[h].todo) = tasks[h].todo[1]
      BY <3>1, TailOf
    <3>3. Head(tasks[h].todo).event = "device:health"
      BY <1>2, <3>2 DEF HealthOnly
    <3> QED
      BY <2>1, <3>3 DEF ReplayNext
  <2>2. CASE ReplayDone(k)
    BY <2>2 DEF ReplayDone
  <2> QED
    BY <2>1, <2>2
<1>4. <<sock, "beat">> # h /\ (sock \in Socks => <<sock, "beat">> \in Handlers)
  BY DEF Handlers, Kinds
<1> HIDE DEF h
<1>5. \A g \in Handlers \ {h} : tasks'[g] = tasks[g]
  BY <1>2, <1>3 DEF FloorInv, ServerInv
<1>6. Asking' => Asking
  <2>1. \A i : Starting(i)' => Starting(i)
    BY <1>1 DEF Starting
  <2> QED
    BY <1>2, <1>5, <2>1, NoneCalls
<1>7. \A i : Starting(i)' => Only(toServer'[i].id)
  BY <1>1 DEF Starting, OutingInv
<1>8. \/ toPhone' = toPhone
      \/ \E l : \E m \in Message : toPhone' = Emitted(l, m) /\ (l = sock => Tells(m))
  BY <1>2, <1>3 DEF Tells
<1>9. shiftId'[sock] = shiftId[sock]
  BY <1>3
<1>10. CASE sock \in Socks
  BY <1>1, <1>3, <1>4, <1>5, <1>6, <1>7, <1>8, <1>9, <1>10, OutingSpeaks
<1>11. CASE sock \notin Socks
  <2>1. h[1] = k /\ sock \in 0 .. MaxSock
    BY DEF h, FloorInv, WireInv
  <2>2. tasks[h].at # "idle"
    BY DEF h, ReplayNext, ReplayDone
  <2>3. k <= sock
    BY <1>2, <2>1, <2>2, AtWork
  <2> QED
    BY <1>11, <2>1, <2>3, BoundsAssumption DEF Socks
<1> QED
  BY <1>10, <1>11

\* The rows after a sweep, or with a later heartbeat.
LEMMA SweptLate ==
  ASSUME OneInv, OutingInv, shifts' = Ledger!SweptShifts, now' = now
  PROVE  /\ \A s \in Shift : Ledger!IsRow(s)' => Ledger!IsOpen(s)' \/ Late(s)'
         /\ \A s \in Shift : Ledger!IsOpen(s)' => Ledger!IsOpen(s)
<1>1. ASSUME NEW s \in Shift, Ledger!IsStale(s) PROVE Late(s)' /\ Ledger!IsOpen(s)
  <2>1. shifts[s] \in Ledger!Row
    BY <1>1 DEF OneInv, OurRow, Ledger!IsStale, Ledger!IsOpen
  <2>2. shifts'[s].beat = shifts[s].beat
    BY <1>1, <2>1 DEF Ledger!SweptShifts, Ledger!ClosedAtLastBeat, Ledger!Row
  <2> QED
    BY <1>1, <2>2 DEF Ledger!IsStale, Late
<1>2. ASSUME NEW s \in Shift, ~Ledger!IsStale(s) PROVE shifts'[s] = shifts[s]
  BY <1>2 DEF Ledger!SweptShifts
<1>3. \A s \in Shift : Ledger!IsOpen(s)' => Ledger!IsOpen(s)
  BY SweptOnes, ClosingRows
<1>4. ASSUME NEW s \in Shift, Ledger!IsRow(s)' PROVE Ledger!IsOpen(s)' \/ Late(s)'
  <2>1. CASE Ledger!IsStale(s)
    BY <1>1, <2>1
  <2>2. CASE ~Ledger!IsStale(s)
    BY <1>2, <1>4, <2>2 DEF OutingInv, Ledger!IsRow, Ledger!IsOpen, Late
  <2> QED
    BY <2>1, <2>2
<1> QED
  BY <1>3, <1>4

\* It stays so, and no other row is touched.
LEMMA BeatenLate ==
  ASSUME FloorInv, OneInv, OutingInv, now' = now, NEW s \in Shift, Ledger!IsOpen(s),
         NEW row, row.ended = None, shifts' = [shifts EXCEPT ![s] = row]
  PROVE  /\ \A t \in Shift : Ledger!IsRow(t)' => Ledger!IsOpen(t)' \/ Late(t)'
         /\ \A t \in Shift : Ledger!IsOpen(t)' => Ledger!IsOpen(t)
<1>1. shifts'[s] = row /\ \A t \in Shift \ {s} : shifts'[t] = shifts[t]
  BY DEF FloorInv, LedgerInv
<1> QED
  BY <1>1 DEF OutingInv, Ledger!IsRow, Ledger!IsOpen, Late

\* A step of the control plane alone.
LEMMA OutingLedger ==
  ASSUME Steady, OutingInv, UNCHANGED <<wire, client, server>>,
         \A s \in Shift : Ledger!IsRow(s)' => Ledger!IsOpen(s)' \/ Late(s)',
         \A s \in Shift : Ledger!IsOpen(s)' => Ledger!IsOpen(s),
         \A c \in Starters : CallNames(calls'[c])
  PROVE  OutingInv'
<1>1. UNCHANGED <<sock, toServer, toPhone, page, phone, shiftId, tasks>>
  BY DEF wire, client, server
<1>2. /\ phone'.stopped \/ phone'.loaded = "no" => ~Asking'
      /\ ~phone'.stopped /\ ~phone'.opening => Only(phone'.held)
      /\ page' = "dark" \/ phone'.loaded = "no" => Only(None)
      /\ \A i : Starting(i)' => Only(toServer'[i].id)
      /\ \A j \in DOMAIN toPhone' : Tells(toPhone'[j])
  BY <1>1 DEF OutingInv, Asking, Starting, Calling
<1>3. sock' \in Socks =>
        /\ shiftId'[sock'] # None => Only(shiftId'[sock'])
        /\ tasks'[<<sock', "beat">>].at = "beating"
             => Only(tasks'[<<sock', "beat">>].id)
  BY <1>1 DEF OutingInv, Serves
<1> QED
  BY <1>2, <1>3, OutingMoves

\* One transaction of start(): what it resumes is the one that is open, and what
\* it inserts is alone.
LEMMA StartStepOuting ==
  ASSUME Steady, OutingInv, NEW c \in Starters, Ledger!StartStep(c),
         UNCHANGED <<wire, client, server>>
  PROVE  OutingInv' /\ (issued' # issued => \A s \in Shift : Ledger!IsRow(s) => Late(s))
<1> USE DEF Steady
<1>0. /\ LedgerInv /\ calls[c] \in Asked /\ CallNames(calls[c])
      /\ now' = now /\ now \in Nat /\ calls[c].serial = Glasses
      /\ calls[c].step \in {"sweep", "resume", "dedupe", "supersede", "insert"}
      /\ calls \in [Starters -> Asked]
  <2>1. calls[c].step \in {"sweep", "resume", "dedupe", "supersede", "insert"} /\ now' = now
    BY DEF Ledger!StartStep, Ledger!StartSweep, Ledger!StartResume, Ledger!StartDedupe,
           Ledger!StartSupersede, Ledger!StartInsert
  <2> QED
    BY <2>1 DEF FloorInv, LedgerInv, OutingInv, OneInv, Ledger!InHand
<1>1. shifts' = shifts =>
        /\ \A s \in Shift : Ledger!IsRow(s)' => Ledger!IsOpen(s)' \/ Late(s)'
        /\ \A s \in Shift : Ledger!IsOpen(s)' => Ledger!IsOpen(s)
  BY <1>0, RowsAlone
<1>2. ASSUME NEW call, calls' = [calls EXCEPT ![c] = call], CallNames(call)
      PROVE  \A d \in Starters : CallNames(calls'[d])
  BY <1>0, <1>2 DEF OutingInv
<1>3. ASSUME NEW step, calls' = Ledger!GoTo(c, step),
             step \in {"sweep", "resume"} => Only(calls[c].resume),
             step \in {"dedupe", "supersede", "insert"} => Only(None),
             step # "done"
      PROVE  \A d \in Starters : CallNames(calls'[d])
  <2> DEFINE call == [calls[c] EXCEPT !.step = step]
  <2>1. call.step = step /\ call.resume = calls[c].resume /\ calls' = [calls EXCEPT ![c] = call]
    BY <1>0, <1>3 DEF Asked, Ledger!GoTo
  <2> HIDE DEF call
  <2>2. CallNames(call)
    BY <1>3, <2>1 DEF CallNames
  <2> QED
    BY <1>2, <2>1, <2>2
<1>4. ASSUME NEW s, calls' = Ledger!Answered(c, s), Only(s)
      PROVE  \A d \in Starters : CallNames(calls'[d])
  <2> DEFINE call == [step |-> "done", serial |-> None, user |-> None,
                      resume |-> None, stamp |-> None, got |-> s]
  <2>1. calls' = [calls EXCEPT ![c] = call] /\ CallNames(call)
    BY <1>4 DEF Ledger!Answered, CallNames
  <2> HIDE DEF call
  <2> QED
    BY <1>2, <2>1
<1>5. Ledger!AfterResume(c) \in {"dedupe", "supersede"}
  BY DEF Ledger!AfterResume
<1>6. CASE Ledger!StartSweep(c)
  <2> DEFINE step == IF calls[c].resume # None THEN "resume" ELSE Ledger!AfterResume(c)
  <2>1. /\ calls[c].step = "sweep" /\ shifts' = Ledger!SweptShifts /\ issued' = issued
        /\ calls' = Ledger!GoTo(c, step)
    BY <1>6 DEF Ledger!StartSweep
  <2>2. Only(calls[c].resume)
    BY <1>0, <2>1 DEF CallNames
  <2>3. step \in {"dedupe", "supersede", "insert"} => Only(None)
    BY <2>2
  <2>4. step # "done"
    BY <1>5
  <2> HIDE DEF step
  <2>5. \A d \in Starters : CallNames(calls'[d])
    BY <1>3, <2>1, <2>2, <2>3, <2>4
  <2> QED
    BY <1>0, <2>1, <2>5, SweptLate, OutingLedger
<1>7. CASE Ledger!StartResume(c)
  <2> DEFINE s == calls[c].resume
             row == [Ledger!Beaten(shifts[s]) EXCEPT
                       !.user = Ledger!Coalesce(calls[c].user, @)]
  <2>1. Only(s) /\ issued' = issued /\ s \in Shift \cup {None}
    BY <1>0, <1>7 DEF CallNames, Ledger!StartResume, Asked, Known, LedgerInv
  <2>2. CASE Ledger!CanResume(c, s)
    <3>1. /\ shifts' = [shifts EXCEPT ![s] = row] /\ calls' = Ledger!Answered(c, s)
          /\ s \in Shift /\ Ledger!IsOpen(s)
      BY <1>7, <2>1, <2>2 DEF Ledger!StartResume, Ledger!CanResume
    <3>2. row.ended = None
      BY <3>1 DEF OneInv, OurRow, Ledger!Row, Ledger!Beaten, Ledger!IsOpen
    <3> HIDE DEF s, row
    <3>3. \A d \in Starters : CallNames(calls'[d])
      BY <1>4, <2>1, <3>1
    <3> QED
      BY <1>0, <2>1, <3>1, <3>2, <3>3, BeatenLate, OutingLedger
  <2>3. CASE ~Ledger!CanResume(c, s)
    <3>1. shifts' = shifts /\ calls' = Ledger!GoTo(c, Ledger!AfterResume(c))
      BY <1>7, <2>3 DEF Ledger!StartResume
    <3>2. Only(None)
      <4> SUFFICES ASSUME NEW t \in Shift, Ledger!IsOpen(t) PROVE FALSE
        BY DEF Only
      <4>1. t = s /\ shifts[t].serial = Glasses /\ t # None
        BY <2>1, NullAssumption DEF Only, OneInv, OurRow, Ledger!IsOpen
      <4> QED
        BY <1>0, <2>3, <4>1 DEF Ledger!CanResume
    <3>3. \A d \in Starters : CallNames(calls'[d])
      BY <1>3, <1>5, <3>1, <3>2
    <3> QED
      BY <1>1, <2>1, <3>1, <3>3, OutingLedger
  <2> QED
    BY <2>2, <2>3
<1>8. CASE Ledger!StartDedupe(c)
  <2>1. Only(None) /\ shifts' = shifts /\ issued' = issued
    BY <1>0, <1>8 DEF Ledger!StartDedupe, CallNames
  <2>2. \/ \E s : calls' = Ledger!Answered(c, s)
        \/ calls' = Ledger!GoTo(c, "supersede")
    BY <1>8 DEF Ledger!StartDedupe
  <2>3. \A d \in Starters : CallNames(calls'[d])
    BY <1>3, <1>4, <2>1, <2>2, NoneIsAny
  <2> QED
    BY <1>1, <2>1, <2>3, OutingLedger
<1>9. CASE Ledger!StartSupersede(c)
  <2>1. /\ Only(None) /\ issued' = issued /\ calls' = Ledger!GoTo(c, "insert")
        /\ shifts' = [s \in Shift |-> IF s \in Ledger!Rivals(c)
                                      THEN Ledger!ClosedAtLastBeat(shifts[s], "superseded")
                                      ELSE shifts[s]]
    BY <1>0, <1>9 DEF Ledger!StartSupersede, CallNames
  <2>2. \A s \in Shift : ~Ledger!IsOpen(s)
    BY <2>1, NullAssumption DEF Only
  <2>3. \A s \in Shift : s \notin Ledger!Rivals(c)
    BY <2>2 DEF Ledger!Rivals
  <2>4. shifts' = shifts
    BY <1>0, <2>1, <2>3 DEF LedgerInv
  <2>5. \A d \in Starters : CallNames(calls'[d])
    BY <1>3, <2>1
  <2> QED
    BY <1>1, <2>1, <2>4, <2>5, OutingLedger
<1>10. CASE Ledger!StartInsert(c)
  <2>1. Only(None)
    BY <1>0, <1>10 DEF Ledger!StartInsert, CallNames
  <2>2. CASE Ledger!SameEvent(c) # {}
    <3>1. calls' = Ledger!Answered(c, None) /\ shifts' = shifts /\ issued' = issued
      BY <1>10, <2>2 DEF Ledger!StartInsert
    <3>2. \A d \in Starters : CallNames(calls'[d])
      BY <1>4, <2>1, <3>1
    <3> QED
      BY <1>1, <3>1, <3>2, OutingLedger
  <2>3. CASE Ledger!SameEvent(c) = {}
    <3>1. PICK s \in Shift \ issued :
            shifts' = [shifts EXCEPT ![s] = Ledger!NewRow(c)] /\ calls' = Ledger!Answered(c, s)
      BY <1>10, <2>3 DEF Ledger!StartInsert
    <3>2. \A t \in Shift : ~Ledger!IsOpen(t)
      BY <2>1, NullAssumption DEF Only
    <3>3. \A t \in Shift : Ledger!IsRow(t) => Late(t)
      BY <3>2 DEF OutingInv
    <3>4. shifts'[s] = Ledger!NewRow(c) /\ \A t \in Shift \ {s} : shifts'[t] = shifts[t]
      BY <1>0, <3>1 DEF LedgerInv
    <3>5. \A t \in Shift : Ledger!IsRow(t)' => Ledger!IsOpen(t)' \/ Late(t)'
      <4>1. Ledger!NewRow(c).ended = None
        BY DEF Ledger!NewRow
      <4> QED
        BY <1>0, <3>3, <3>4, <4>1 DEF Ledger!IsRow, Ledger!IsOpen, Late
    <3>6. \A t \in Shift : Ledger!IsOpen(t)' => t = s
      BY <3>2, <3>4 DEF Ledger!IsOpen, Ledger!IsRow
    <3>7. Calling(c[1]) /\ \A d \in Starters : calls[d].step # "idle" => d = c
      BY <1>0, OnlyCall
    <3>8. /\ Asking /\ ~phone.stopped /\ phone.loaded # "no" /\ phone.opening /\ page = "up"
          /\ sock \in Socks /\ shiftId[sock] = None /\ tasks[<<sock, "beat">>].at = "idle"
          /\ \A j \in DOMAIN toPhone : toPhone[j].kind = "replayed"
          /\ \A i : ~Starting(i)
      <4>1. Asking
        BY <3>7 DEF Asking
      <4> QED
        BY <3>7, <4>1 DEF OutingInv, LatchInv
    <3>9. UNCHANGED <<sock, toServer, toPhone, page, phone, shiftId, tasks>>
      BY DEF wire, client, server
    <3>10. \A d \in Starters : CallNames(calls[d])'
      <4>1. calls'[c].step = "done" /\ calls'[c].got = s
        BY <1>0, <3>1 DEF Ledger!Answered
      <4>2. \A d \in Starters \ {c} : calls'[d].step = "idle"
        BY <1>0, <3>1, <3>7 DEF Ledger!Answered
      <4> QED
        BY <3>6, <4>1, <4>2 DEF CallNames, Only
    <3>11. \A j \in DOMAIN toPhone' : Tells(toPhone[j])'
      BY <3>8, <3>9 DEF Tells
    <3>12. \A i : ~Starting(i)'
      BY <3>8, <3>9 DEF Starting
    <3>13. Serves(sock)'
      BY <3>8, <3>9 DEF Serves
    <3> QED
      BY <3>3, <3>5, <3>8, <3>9, <3>10, <3>11, <3>12, <3>13 DEF OutingInv
  <2> QED
    BY <2>2, <2>3
<1> QED
  BY <1>6, <1>7, <1>8, <1>9, <1>10 DEF Ledger!StartStep

\* The ledger's answer names what is open; a start that failed was refused by
\* the table, and by then nothing was open.
LEMMA StartAnsweredOuting ==
  ASSUME OnlyOutages, Steady, OutingInv, NEW h \in Starters, StartAnswered(h)
  PROVE  OutingInv'
<1> USE DEF Steady
<1> DEFINE s == calls[h].got
<1>1. /\ UNCHANGED <<toServer, elsewhere>> /\ tasks[h].at = "calling"
      /\ Ledger!Return(h) /\ tasks' = [tasks EXCEPT ![h] = HandlerDone(h)]
  BY DEF StartAnswered
<1>2. /\ h \in Handlers /\ h[2] = "start" /\ h = <<h[1], "start">> /\ h[1] \in Socks
  <2>1. h = <<h[1], h[2]>> /\ h[1] \in Socks /\ h[2] \in {"start", "replay"} /\ h \in Handlers
    BY DEF Starters, Handlers, Kinds
  <2>2. h[2] # "replay"
    BY <1>1, <2>1 DEF CalmServer
  <2> QED
    BY <2>1, <2>2
<1>3. Calling(h[1]) /\ Asking
  BY <1>1, <1>2 DEF Calling, Asking
<1>4. sock \in Socks /\ \A i : ~Starting(i)
  BY <1>3 DEF LatchInv
<1>5. /\ calls[h].step = "done" /\ calls' = [calls EXCEPT ![h] = Ledger!NoCall]
      /\ now' = now /\ shifts' = shifts
  BY <1>1 DEF Ledger!Return
<1>6. Only(s) /\ s \in Known
  BY <1>5 DEF OutingInv, CallNames, FloorInv, LedgerInv, Asked
<1>7. \A c \in Starters : CallNames(calls'[c])
  <2>1. CallNames(Ledger!NoCall)
    BY DEF CallNames, Ledger!NoCall
  <2> QED
    BY <1>5, <2>1 DEF OutingInv, FloorInv, LedgerInv
<1>8. /\ \A t \in Shift : Ledger!IsRow(t)' => Ledger!IsOpen(t)' \/ Late(t)'
      /\ \A t \in Shift : Ledger!IsOpen(t)' => Ledger!IsOpen(t)
  BY <1>5, RowsAlone
<1>9. \A i : Starting(i)' => Only(toServer'[i].id)
  BY <1>1, <1>4 DEF Starting
<1>10. tasks'[<<sock, "beat">>] = tasks[<<sock, "beat">>]
  BY <1>1, <1>2, <1>4 DEF FloorInv, ServerInv, Handlers, Kinds
<1> HIDE DEF s
<1>11. /\ shiftId'[sock] = shiftId[sock] \/ shiftId'[sock] = None \/ Only(shiftId'[sock])
       /\ \E m \in Message : toPhone' = Emitted(h[1], m) /\ Tells(m)
  <2>1. CASE /\ s # None /\ shiftId' = [shiftId EXCEPT ![h[1]] = s]
             /\ toPhone' = Emitted(h[1], OpenState(s))
    <3>1. OpenState(s) \in Message /\ Tells(OpenState(s))
      BY <1>6, Emissions DEF Tells, OpenState
    <3>2. shiftId'[sock] = shiftId[sock] \/ shiftId'[sock] = s
      BY <1>2, <1>4, <2>1 DEF FloorInv, ServerInv
    <3> QED
      BY <1>6, <2>1, <3>1, <3>2
  <2>2. CASE /\ s = None /\ shiftId' = [shiftId EXCEPT ![h[1]] = None]
             /\ toPhone' = Emitted(h[1], RetryState)
    <3>1. RetryState \in Message /\ Tells(RetryState)
      BY <1>6, <2>2, Emissions DEF Tells, RetryState
    <3>2. shiftId'[sock] = shiftId[sock] \/ shiftId'[sock] = None
      BY <1>2, <1>4, <2>2 DEF FloorInv, ServerInv
    <3> QED
      BY <2>2, <3>1, <3>2
  <2> QED
    BY <2>1, <2>2 DEF StartAnswered, OnlyOutages, s
<1> QED
  BY <1>1, <1>3, <1>7, <1>8, <1>9, <1>10, <1>11, OutingServes

\* A heartbeat lands on the open row, or finds that there is none: what the
\* latest connection beats on is what is open.
LEMMA BeatAnsweredOuting ==
  ASSUME OnlyOutages, Steady, OutingInv, NEW k \in Socks, BeatAnswered(k)
  PROVE  OutingInv'
<1> USE DEF Steady
<1> DEFINE h == <<k, "beat">>
           s == tasks[h].id
<1>1. /\ UNCHANGED <<toServer, elsewhere>> /\ tasks[h].at = "beating"
      /\ tasks' = [tasks EXCEPT ![h] = Idle]
      /\ \/ UNCHANGED ledger /\ UNCHANGED shiftId /\ toPhone' = Emitted(k, StopState)
         \/ IsOpen(s) /\ Ledger!Heartbeat(s) /\ UNCHANGED <<shiftId, toPhone>>
         \/ ~IsOpen(s) /\ UNCHANGED ledger /\ TellClosed(k)
  BY DEF BeatAnswered, OnlyOutages, CallOutcomes
<1>2. h \in Handlers /\ h[2] = "beat" /\ h[1] = k /\ Idle.at = "idle"
  BY DEF Handlers, Kinds, Idle
<1>3. sock \in Socks
  <2>1. k <= sock /\ sock \in 0 .. MaxSock
    BY <1>1, <1>2, AtWork DEF FloorInv, WireInv
  <2> QED
    BY <2>1, BoundsAssumption DEF Socks
<1>4. k = sock => Only(s)
  BY <1>1, <1>3 DEF OutingInv, Serves
<1> HIDE DEF s
<1>5. tasks'[h] = Idle /\ \A g \in Handlers \ {h} : tasks'[g] = tasks[g]
  BY <1>1, <1>2 DEF FloorInv, ServerInv
<1>6. \/ tasks'[<<sock, "beat">>] = tasks[<<sock, "beat">>]
      \/ tasks'[<<sock, "beat">>].at # "beating"
  <2>1. <<sock, "beat">> \in Handlers
    BY <1>3 DEF Handlers, Kinds
  <2> QED
    BY <1>2, <1>5, <2>1
<1> HIDE DEF h
<1>7. Asking' => Asking
  <2>1. \A i : Starting(i)' => Starting(i)
    BY <1>1 DEF Starting
  <2> QED
    BY <1>2, <1>5, <2>1, NoneCalls
<1>8. \A i : Starting(i)' => Only(toServer'[i].id)
  BY <1>1 DEF Starting, OutingInv
<1>9. CASE UNCHANGED <<ledger, shiftId>> /\ toPhone' = Emitted(k, StopState)
  <2>1. StopState \in Message /\ Tells(StopState)
    BY Emissions DEF Tells, StopState
  <2>2. shiftId'[sock] = shiftId[sock]
    BY <1>9
  <2> QED
    BY <1>1, <1>6, <1>7, <1>8, <1>9, <2>1, <2>2, OutingSpeaks
<1>10. CASE IsOpen(s) /\ Ledger!Heartbeat(s) /\ UNCHANGED <<shiftId, toPhone>>
  <2>1. /\ s \in Shift /\ Ledger!IsOpen(s) /\ now' = now /\ calls' = calls
        /\ shifts' = [shifts EXCEPT ![s] = Ledger!Beaten(shifts[s])]
    BY <1>10 DEF IsOpen, Ledger!Heartbeat
  <2>2. Ledger!Beaten(shifts[s]).ended = None
    BY <2>1 DEF OneInv, OurRow, Ledger!Row, Ledger!Beaten, Ledger!IsOpen
  <2>3. /\ \A t \in Shift : Ledger!IsRow(t)' => Ledger!IsOpen(t)' \/ Late(t)'
        /\ \A t \in Shift : Ledger!IsOpen(t)' => Ledger!IsOpen(t)
    BY <2>1, <2>2, BeatenLate
  <2>4. \A c \in Starters : CallNames(calls'[c])
    BY <2>1 DEF OutingInv
  <2> QED
    BY <1>1, <1>6, <1>7, <1>8, <1>10, <2>3, <2>4, OutingServes
<1>11. CASE ~IsOpen(s) /\ UNCHANGED ledger /\ TellClosed(k)
  <2>1. ClosedState \in Message /\ (k = sock => Tells(ClosedState))
    <3>1. k = sock => Only(None)
      BY <1>4, <1>11 DEF Only, IsOpen
    <3> QED
      BY <3>1, Emissions DEF Tells, ClosedState
  <2>2. /\ toPhone' = Emitted(k, ClosedState)
        /\ shiftId'[sock] = shiftId[sock] \/ shiftId'[sock] = None
    BY <1>3, <1>11 DEF TellClosed, FloorInv, ServerInv
  <2> QED
    BY <1>1, <1>6, <1>7, <1>8, <1>11, <2>1, <2>2, OutingSpeaks
<1> QED
  BY <1>1, <1>9, <1>10, <1>11

\* No step of such an outing asks for a shift under another's name, and a new
\* row is made only where the ones before it are late.
LEMMA OutingStep ==
  ASSUME OnlyOutages, Steady, OutingInv, [Next]_vars
  PROVE  OutingInv' /\ SecondShiftIsLate
<1> USE DEF Steady
<1>1. SteadyPage
  BY DEF OnlyOutages
<1>2. CASE PhoneNext
  <2>1. UNCHANGED ledger
    BY <1>2, PhoneNextOK
  <2> QED
    BY <1>1, <1>2, <2>1, PhoneOuting DEF SecondShiftIsLate, ledger
<1>3. CASE FrameArrives
  <2>1. issued' = issued
    BY <1>3 DEF FrameArrives, RegisterArrives, StartArrives, EndArrives, BeatArrives,
                ReplayArrives, HandleStart, HandleEnd, StartRefused, Ledger!BeginStart, ledger
  <2> QED
    BY <1>3, <2>1, FrameOuting DEF SecondShiftIsLate
<1>4. ASSUME NEW k \in Socks, ReplayNext(k) \/ ReplayDone(k)
      PROVE  OutingInv' /\ SecondShiftIsLate
  <2>1. issued' = issued
    BY <1>4 DEF ReplayNext, ReplayDone, HandleStart, HandleEnd, StartRefused,
                Ledger!BeginStart, ledger
  <2> QED
    BY <1>4, <2>1, ReplayOuting DEF SecondShiftIsLate
<1>5. ASSUME NEW h \in Starters, StartRuns(h) PROVE OutingInv' /\ SecondShiftIsLate
  BY <1>5, StartStepOuting DEF StartRuns, SecondShiftIsLate, Late, IsRow
<1>6. ASSUME NEW h \in Starters, StartAnswered(h) PROVE OutingInv' /\ SecondShiftIsLate
  <2>1. issued' = issued
    BY <1>6 DEF StartAnswered, Ledger!Return
  <2> QED
    BY <1>6, <2>1, StartAnsweredOuting DEF SecondShiftIsLate
<1>7. ASSUME NEW h \in Handlers, h[2] \in {"end", "replay"} PROVE ~EndAnswered(h)
  <2>1. h = <<h[1], h[2]>> /\ h[1] \in Socks
    BY DEF Handlers
  <2> QED
    BY <1>7, <2>1 DEF EndAnswered, CalmServer
<1>8. ASSUME NEW k \in Socks, BeatAnswered(k) PROVE OutingInv' /\ SecondShiftIsLate
  <2>1. issued' = issued
    BY <1>8 DEF BeatAnswered, Ledger!Heartbeat, ledger
  <2> QED
    BY <1>8, <2>1, BeatAnsweredOuting DEF SecondShiftIsLate
<1>9. ASSUME NEW h \in Handlers, HandlerStep(h) PROVE OutingInv' /\ SecondShiftIsLate
  <2>1. h[1] \in Socks
    BY DEF Handlers
  <2> QED
    BY <1>5, <1>6, <1>7, <1>8, <1>9, <2>1 DEF HandlerStep
<1>10. CASE Read
  <2>1. /\ shifts' = Ledger!SweptShifts /\ now' = now /\ issued' = issued /\ calls' = calls
        /\ UNCHANGED <<wire, client, server>>
    BY <1>10 DEF Read, Ledger!Sweep
  <2>2. \A c \in Starters : CallNames(calls'[c])
    BY <2>1 DEF OutingInv
  <2> QED
    BY <2>1, <2>2, SweptLate, OutingLedger DEF SecondShiftIsLate
<1>11. ASSUME UNCHANGED <<wire, client, server, shifts, issued, calls>>,
              now' = now \/ now' = now + 1
       PROVE  OutingInv' /\ SecondShiftIsLate
  <2>1. \A c \in Starters : CallNames(calls'[c])
    BY <1>11 DEF OutingInv
  <2> QED
    BY <1>11, <2>1, RowsAlone, OutingLedger DEF SecondShiftIsLate
<1>12. CASE Tick \/ Switch \/ UNCHANGED vars
  BY <1>11, <1>12 DEF Tick, Ledger!Tick, Switch, ledger, vars
<1> QED
  BY <1>2, <1>3, <1>4, <1>9, <1>10, <1>12 DEF Next

\* A floor starts with no row, nobody asking, and nothing said.
LEMMA OutingInit == Init => Steady /\ OutingInv
<1> SUFFICES ASSUME Init PROVE Steady /\ OutingInv
  OBVIOUS
<1>1. Steady
  BY SteadyInit
<1>2. Ledger!Init
  BY FloorInit
<1>3. /\ phone = NoPhone /\ toServer = <<>> /\ toPhone = <<>> /\ sock = 0
  BY DEF Init
<1>4. \A s \in Shift : ~Ledger!IsRow(s)
  BY <1>2 DEF Ledger!Init, Ledger!IsRow
<1>5. \A x : Only(x)
  BY <1>4 DEF Only, Ledger!IsOpen
<1>6. ~Asking
  <2>1. \A i : ~Starting(i)
    BY <1>3 DEF Starting
  <2>2. \A k \in Socks : tasks[<<k, "start">>].at = "idle"
    BY DEF Init, Handlers, Kinds, Idle
  <2> QED
    BY <2>1, <2>2 DEF Asking, Calling
<1>7. \A c \in Starters : CallNames(calls[c])
  BY <1>5 DEF CallNames
<1> QED
  BY <1>1, <1>3, <1>4, <1>5, <1>6, <1>7 DEF OutingInv, Starting, Tells, Serves

\* "A WebView teardown must not fragment one shift into nine" (start() of
\* shift.ts): as long as the page stays and the control plane answers, the phone
\* opens a second shift only once the gap of every one before it has passed,
\* however often the wifi drops, the battery is reported and telemetry is
\* switched, and whatever order starts, heartbeats and replays are answered in.
THEOREM OutingIsOneShift == OnlyOutages /\ Spec => OneShiftPerOuting
<1>1. OnlyOutages /\ Steady /\ OutingInv /\ [Next]_vars
        => (OnlyOutages /\ Steady /\ OutingInv)' /\ [SecondShiftIsLate]_vars
  <2>1. OnlyOutages => SteadyPage /\ OnlyOutages'
    BY DEF OnlyOutages, SteadyPage
  <2> QED
    BY <2>1, SteadyStep, OutingStep
<1> QED
  BY <1>1, OutingInit, PTL DEF Spec, OneShiftPerOuting

-----------------------------------------------------------------------------
(* The run of the outages: what it checks of its part, of whatever size. *)

LEMMA OutagesStep ==
  [OutagesNext]_<<part, vars>> => part' = part /\ (part = "outages" => [Next]_vars)
BY DEF OutagesNext

\* With every fault but those that take the page away or hold up its store, one
\* pair of glasses has one open shift (start of shifts.py, the latch of shift.ts).
THEOREM OutagesOneOpen == SteadyPage /\ OutagesSpec => []FloorOneOpenPerGlasses
<1> DEFINE Inv == SteadyPage /\ (part = "outages" => Steady)
<1>1. SteadyPage /\ OutagesInit => Inv
  BY SteadyInit DEF OutagesInit
<1>2. Inv /\ [OutagesNext]_<<part, vars>> => Inv'
  BY OutagesStep, SteadyStep DEF SteadyPage
<1>3. Inv => FloorOneOpenPerGlasses
  BY DEF Steady, OneInv, OneOpenPerGlasses, IsOpen, FloorOneOpenPerGlasses
<1> QED
  BY <1>1, <1>2, <1>3, PTL DEF OutagesSpec

\* Where the control plane answers too, the second shift of an outing waits for
\* the gap of the first (start and open of shift.ts).
THEOREM OutagesOneShift == OnlyOutages /\ OutagesSpec => FloorOneShiftPerOuting
<1> DEFINE Inv == OnlyOutages /\ (part = "outages" => Steady /\ OutingInv)
<1>1. OnlyOutages /\ OutagesInit => Inv
  BY OutingInit DEF OutagesInit
<1>2. OnlyOutages => SteadyPage /\ OnlyOutages'
  BY DEF OnlyOutages, SteadyPage
<1>3. Inv /\ [OutagesNext]_<<part, vars>>
        => Inv' /\ [part = "outages" => SecondShiftIsLate]_<<part, vars>>
  BY <1>2, OutagesStep, SteadyStep, OutingStep
<1> QED
  BY <1>1, <1>3, PTL DEF OutagesSpec, FloorOneShiftPerOuting
=============================================================================
