----------------------------- MODULE ShiftFloor -----------------------------
(***************************************************************************)
(* One associate's phone, the realtime server's socket and the shift       *)
(* ledger, composed: packages/glasses-plugin/src/shift.ts (the controller) *)
(* as main.ts wires it, the shift:* and telemetry:replay handlers of       *)
(* packages/server/src/index.js, and ShiftLedger underneath.               *)
(*                                                                         *)
(* The handlers are async: each one is dispatched as its message arrives   *)
(* and then waits for the control plane, so handlers of one socket         *)
(* interleave, and those of a socket that is gone run on to their end.     *)
(***************************************************************************)
EXTENDS Integers, Sequences, FiniteSets

CONSTANTS
  Shift, Glasses, None, Gap, Keep, MaxTime,  \* as in ShiftLedger
  MaxSock,     \* bound: connections the phone makes in a run
  MaxQueued,   \* MAX_QUEUED: events the phone will hold
  MaxReplay,   \* MAX_REPLAY_EVENTS: events the server takes from one replay
  Faults       \* what may go wrong in a run, out of FaultKinds

FaultKinds ==
  {"drop",         \* the wifi drops
   "kill",         \* the host takes the WebView away with no event
   "pagehide",     \* the page hears pagehide, or the exit gesture, first
   "slow_store",   \* the phone's key-value store answers after other events
   "unreachable",  \* the control plane cannot be reached for a call
   "lost_answer",  \* a call is carried out and its answer is lost
   "switch",       \* an admin turns shift telemetry off, or on again
   "status",       \* the glasses report their battery while offline
   "offline_launch"}  \* and may do so before the page has first connected

ASSUME FaultsAssumption == Faults \subseteq FaultKinds
ASSUME BoundsAssumption ==
  MaxSock \in Nat \ {0} /\ MaxQueued \in Nat \ {0} /\ MaxReplay \in Nat \ {0}
\* A replay takes a whole buffer: 200 events, and a phone keeps 60.
ASSUME ReplayAssumption == MaxReplay >= MaxQueued

VARIABLES
  now, shifts, issued, calls,  \* the ledger's
  page,      \* whether the WebView is there
  phone,     \* the ShiftController in it
  store,     \* what the phone has persisted: cue.shift.id, cue.shift.queue
  link,      \* whether the phone's socket is connected
  sock,      \* the number of its latest connection
  backlog,   \* what socket.io-client holds for a socket that is not connected
  toServer,  \* frames on the wire to the server, in order
  toPhone,   \* frames on the wire to the phone, in order
  registered, \* the connections whose register frame the server has had
  shiftId,   \* socket.data.shiftId of every connection
  tasks,     \* the server's handlers in progress: socket and kind -> task
  allowed,   \* privacy.shift_telemetry of the tenant
  stamp      \* the phone's clock: start events stamped so far

ledger == <<now, shifts, issued, calls>>
wire == <<link, sock, backlog, toServer, toPhone>>
client == <<page, phone, store>>
server == <<registered, shiftId, tasks>>
\* What no handler of the server touches.
elsewhere == <<link, sock, backlog, client, allowed, stamp>>
vars == <<ledger, wire, client, server, allowed, stamp>>

Socks == 1 .. MaxSock
Kinds == {"start", "replay", "end", "beat"}
Handlers == Socks \X Kinds
Starters == Socks \X {"start", "replay"}
\* Each connection opens once, and once more when a slow store answers.
Stamps == 1 .. 2 * MaxSock

Ledger == INSTANCE ShiftLedger
            WITH Serial <- {Glasses}, User <- {}, Stamp <- Stamps,
                 Caller <- Starters, Claims <- {"app_closed"}

ASSUME GapAssumption == Gap \in Nat \ {0}
\* NULL is no id and no serial, and an ended row does not look like an open one.
ASSUME NullAssumption == None \notin Shift /\ None # Glasses /\ None \notin Ledger!Ending

IsRow(s) == s \in Shift /\ Ledger!IsRow(s)
IsOpen(s) == s \in Shift /\ Ledger!IsOpen(s)

-----------------------------------------------------------------------------
\* What a phone may buffer, and what travels.

StartEvent(resume, at) == [event |-> "shift:start", id |-> resume, at |-> at]
EndEvent(s) == [event |-> "shift:end", id |-> s, at |-> 0]
HealthEvent == [event |-> "device:health", id |-> None, at |-> 0]
Beat == [event |-> "shift:heartbeat", id |-> None, at |-> 0]
Register == [event |-> "register", id |-> None, at |-> 0]
Replay(events) == [event |-> "telemetry:replay", events |-> events]

Bufferable == {"shift:start", "shift:end", "device:health"}
Buffer == {e \in Seq([event: Bufferable, id: Shift \cup {None}, at: 0 .. 2 * MaxSock]) :
             Len(e) <= MaxQueued}

\* shift:state: the shift it opens, or why there is none. "retry" is
\* shiftFailure's word for anything that is neither a 403 nor a 404.
OpenState(s) == [kind |-> "open", id |-> s]
ClosedState == [kind |-> "closed", id |-> None]
StopState == [kind |-> "stop", id |-> None]
RetryState == [kind |-> "retry", id |-> None]
Replayed(events) == [kind |-> "replayed", id |-> None, took |-> events]

\* `asked` is a history: the connection its last start was for.
NoPhone == [held |-> None, opening |-> FALSE, asked |-> 0, stopped |-> FALSE,
            loaded |-> "no", beating |-> FALSE, hidden |-> FALSE, closing |-> None,
            queue |-> <<>>]

Idle == [at |-> "idle", id |-> None, todo |-> <<>>, took |-> <<>>]

TypeOK ==
  /\ Ledger!TypeOK
  /\ page \in {"dark", "up"}
  /\ phone \in [held: Shift \cup {None}, opening: BOOLEAN, asked: 0 .. MaxSock,
                stopped: BOOLEAN, loaded: {"no", "loading", "yes"}, beating: BOOLEAN,
                hidden: BOOLEAN, closing: Shift \cup {None}, queue: Buffer]
  /\ store \in [held: Shift \cup {None}, queue: Buffer]
  /\ link \in {"down", "up"} /\ (page = "dark" => link = "down")
  /\ sock \in 0 .. MaxSock
  /\ registered \subseteq Socks
  /\ shiftId \in [Socks -> Shift \cup {None}]
  /\ \A h \in Handlers : tasks[h].at \in {"idle", "next", "calling", "ending", "beating"}
  /\ allowed \in BOOLEAN
  /\ stamp \in 0 .. 2 * MaxSock

Init ==
  /\ Ledger!Init
  /\ page = "dark" /\ phone = NoPhone
  /\ store = [held |-> None, queue |-> <<>>]
  /\ link = "down" /\ sock = 0
  /\ backlog = <<>> /\ toServer = <<>> /\ toPhone = <<>>
  /\ registered = {} /\ shiftId = [k \in Socks |-> None]
  /\ tasks = [h \in Handlers |-> Idle]
  /\ allowed = TRUE
  /\ stamp = 0

-----------------------------------------------------------------------------
(* The phone *)

Buffered_Unbounded(queue, e) == Append(queue, e)

\* dispatch, offline: keep it, oldest out.
Buffered(queue, e) ==
  LET longer == Append(queue, e) IN
  IF Len(longer) > MaxQueued THEN Tail(longer) ELSE longer

Opens_NoLatch(p) == ~p.stopped

\* open(): at most one start unanswered, and none once stopped.
Opens(p) == ~p.stopped /\ ~p.opening

StartOf_Fresh(p) == StartEvent(None, stamp + 1)

StartOf(p) == StartEvent(p.held, stamp + 1)

\* onConnect, with the store read: what was buffered, then the shift. `frames`
\* are on the wire already; a start that finds the socket gone is buffered.
FlushAndOpen(p, up, frames) ==
  LET replay == IF p.queue # <<>> THEN <<Replay(p.queue)>> ELSE <<>>
      start == IF Opens(p) /\ up THEN <<StartOf(p)>> ELSE <<>>
      queue == IF Opens(p) /\ ~up THEN Buffered(p.queue, StartOf(p)) ELSE p.queue
      out == frames \o replay \o start
  IN
  /\ phone' = [p EXCEPT !.opening = @ \/ Opens(p), !.queue = queue,
                        !.asked = IF Opens(p) THEN sock' ELSE @]
  /\ store' = [store EXCEPT !.queue = IF queue # p.queue THEN queue ELSE @]
  /\ stamp' = IF Opens(p) THEN stamp + 1 ELSE stamp
  /\ IF up THEN toServer' = out /\ backlog' = <<>>
     ELSE backlog' = out /\ UNCHANGED toServer

Loaded == [phone EXCEPT !.loaded = "yes", !.held = store.held, !.queue = store.queue]

Launch ==
  /\ page = "dark" /\ sock < MaxSock
  /\ page' = "up" /\ phone' = NoPhone
  /\ UNCHANGED <<ledger, wire, store, server, allowed, stamp>>

\* The socket's connect event. The client library first sends what was emitted
\* while it was down, then comes register. load() runs once: a connect that
\* finds it running goes on with the empty controller.
Connect ==
  LET frames == Append(backlog, Register) IN
  /\ page = "up" /\ link = "down" /\ sock < MaxSock
  /\ sock' = sock + 1 /\ link' = "up" /\ toPhone' = <<>>
  /\ \/ /\ phone.stopped
        /\ toServer' = frames /\ backlog' = <<>>
        /\ UNCHANGED <<phone, store, stamp>>
     \/ /\ ~phone.stopped /\ phone.loaded = "no" /\ "slow_store" \in Faults
        /\ phone' = [phone EXCEPT !.loaded = "loading"]
        /\ toServer' = frames /\ backlog' = <<>>
        /\ UNCHANGED <<store, stamp>>
     \/ ~phone.stopped /\ FlushAndOpen(IF phone.loaded = "no" THEN Loaded ELSE phone, TRUE, frames)
  /\ UNCHANGED <<ledger, page, server, allowed>>

\* The store answers: memory is overwritten with what it held, and onConnect
\* goes on from there, whatever the socket has done in between.
StoreAnswers ==
  /\ phone.loaded = "loading"
  /\ UNCHANGED <<ledger, link, sock, toPhone, page, server, allowed>>
  /\ FlushAndOpen(Loaded, link = "up", IF link = "up" THEN toServer ELSE backlog)

\* Bound: answers on their way to a phone that goes on beating.
MaxUnheard == 2

\* The heartbeat timer; never buffered, and one in hand is enough.
SendBeat ==
  /\ Len(toPhone) < MaxUnheard
  /\ phone.beating /\ phone.held # None /\ link = "up"
  /\ \A i \in DOMAIN toServer : toServer[i].event # "shift:heartbeat"
  /\ tasks[<<sock, "beat">>].at = "idle"
  /\ toServer' = Append(toServer, Beat)
  /\ UNCHANGED <<ledger, link, sock, backlog, toPhone, client, server, allowed, stamp>>

\* pagehide or the exit gesture: close() forgets the shift before the event
\* that ends it is dispatched.
PageHide ==
  /\ "pagehide" \in Faults /\ page = "up" /\ ~phone.hidden
  /\ IF phone.stopped \/ phone.held = None
     THEN phone' = [phone EXCEPT !.hidden = TRUE] /\ UNCHANGED store
     ELSE /\ phone' = [phone EXCEPT !.hidden = TRUE, !.closing = phone.held,
                                    !.held = None, !.beating = FALSE]
          /\ store' = [store EXCEPT !.held = None]
  /\ UNCHANGED <<ledger, wire, page, server, allowed, stamp>>

DispatchEnd ==
  LET e == EndEvent(phone.closing)
      queue == Buffered(phone.queue, e) IN
  /\ phone.closing # None
  /\ IF phone.stopped \/ link = "up"
     THEN /\ phone' = [phone EXCEPT !.closing = None]
          /\ toServer' = IF phone.stopped THEN toServer ELSE Append(toServer, e)
          /\ UNCHANGED store
     ELSE /\ phone' = [phone EXCEPT !.closing = None, !.queue = queue]
          /\ store' = [store EXCEPT !.queue = queue]
          /\ UNCHANGED toServer
  /\ UNCHANGED <<ledger, link, sock, backlog, toPhone, page, server, allowed, stamp>>

\* A DeviceStatus while offline. The controller buffers it whether or not it
\* has loaded what an earlier page left in the store.
BufferStatus ==
  LET queue == Buffered(phone.queue, HealthEvent) IN
  /\ "status" \in Faults /\ page = "up" /\ link = "down" /\ ~phone.stopped
  /\ phone.loaded = "yes" \/ "offline_launch" \in Faults
  /\ phone' = [phone EXCEPT !.queue = queue]
  /\ store' = [store EXCEPT !.queue = queue]
  /\ UNCHANGED <<ledger, wire, page, server, allowed, stamp>>

\* onState and onReplayed. A stopped controller still takes an open state.
Receive ==
  LET m == Head(toPhone) IN
  /\ toPhone # <<>>
  /\ toPhone' = Tail(toPhone)
  /\ CASE m.kind = "open" ->
            /\ phone' = [phone EXCEPT !.opening = FALSE, !.held = m.id, !.beating = TRUE]
            /\ store' = [store EXCEPT !.held = m.id]
       [] m.kind = "stop" ->
            /\ phone' = [phone EXCEPT !.opening = FALSE, !.held = None, !.beating = FALSE,
                                      !.stopped = TRUE, !.queue = <<>>]
            /\ store' = [held |-> None, queue |-> <<>>]
       [] m.kind \in {"closed", "retry"} ->
            /\ phone' = [phone EXCEPT !.opening = FALSE, !.held = None, !.beating = FALSE]
            /\ store' = [store EXCEPT !.held = None]
       [] m.kind = "replayed" ->
            /\ phone' = [phone EXCEPT !.queue = <<>>]
            /\ store' = [store EXCEPT !.queue = IF phone.queue # <<>> THEN <<>> ELSE @]
  /\ UNCHANGED <<ledger, link, sock, backlog, toServer, page, server, allowed, stamp>>

\* The connection is gone, with every frame that was still on the wire. The
\* server's disconnect handler forgets the shift and does not end it.
Disconnected ==
  /\ link' = "down" /\ toServer' = <<>> /\ toPhone' = <<>>
  /\ shiftId' = IF link = "up" THEN [shiftId EXCEPT ![sock] = None] ELSE shiftId
  /\ UNCHANGED <<sock, registered, tasks>>

Drop ==
  /\ "drop" \in Faults /\ link = "up"
  /\ Disconnected
  /\ UNCHANGED <<ledger, backlog, client, allowed, stamp>>

\* The WebView is taken away: memory goes, the store stays.
Teardown ==
  /\ page = "up" /\ ("kill" \in Faults \/ phone.hidden)
  /\ page' = "dark" /\ phone' = NoPhone /\ backlog' = <<>>
  /\ Disconnected
  /\ UNCHANGED <<ledger, store, allowed, stamp>>

-----------------------------------------------------------------------------
(* The realtime server *)

\* socket.emit: nothing reaches a phone that has gone.
Emitted(k, m) == IF k = sock /\ link = "up" THEN Append(toPhone, m) ELSE toPhone

\* A handler of socket k has come to its end: a live one is over, a replayed
\* one lets the replay go on with the next event.
HandlerDone(h) ==
  IF h[2] = "replay" THEN [tasks[h] EXCEPT !.at = "next", !.id = None, !.todo = Tail(@)]
  ELSE Idle

StartRefused_Silently(h, m) ==
  /\ shiftId' = [shiftId EXCEPT ![h[1]] = None]
  /\ UNCHANGED <<ledger, toPhone>>

\* shiftFailure, for a start that did not get as far as the ledger.
StartRefused(h, m) ==
  /\ shiftId' = [shiftId EXCEPT ![h[1]] = None]
  /\ toPhone' = Emitted(h[1], m)
  /\ UNCHANGED ledger

\* shift:start, up to its call. A socket that has not registered is filed under
\* the demo tenant, which has the settings a tenant is born with: switched off.
HandleStart(h, e) ==
  \/ /\ allowed /\ h[1] \in registered
     /\ Ledger!BeginStart(h, Glasses, None, e.id, e.at)
     /\ tasks' = [tasks EXCEPT ![h].at = "calling"]
     /\ UNCHANGED <<shiftId, toPhone>>
  \/ /\ ~(allowed /\ h[1] \in registered)
     /\ StartRefused(h, StopState) /\ tasks' = [tasks EXCEPT ![h] = HandlerDone(h)]
  \/ /\ "unreachable" \in Faults
     /\ StartRefused(h, RetryState) /\ tasks' = [tasks EXCEPT ![h] = HandlerDone(h)]

\* shift:end, up to its call: the socket's own shift, never the payload's.
HandleEnd(h) ==
  LET s == shiftId[h[1]] IN
  /\ tasks' = [tasks EXCEPT ![h] = IF s = None THEN HandlerDone(h)
                                   ELSE [@ EXCEPT !.at = "ending", !.id = s]]
  /\ shiftId' = [shiftId EXCEPT ![h[1]] = None]
  /\ UNCHANGED <<ledger, toPhone>>

Take == toServer # <<>> /\ toServer' = Tail(toServer)

RegisterArrives ==
  /\ Take /\ Head(toServer) = Register
  /\ registered' = registered \cup {sock}
  /\ UNCHANGED <<ledger, toPhone, elsewhere, shiftId, tasks>>

\* One live handler of a kind at a time is in hand on a socket.
StartArrives ==
  LET h == <<sock, "start">> IN
  /\ Take /\ Head(toServer).event = "shift:start" /\ tasks[h].at = "idle"
  /\ HandleStart(h, Head(toServer))
  /\ UNCHANGED <<elsewhere, registered>>

EndArrives ==
  LET h == <<sock, "end">> IN
  /\ Take /\ Head(toServer).event = "shift:end" /\ tasks[h].at = "idle"
  /\ HandleEnd(h)
  /\ UNCHANGED <<elsewhere, registered>>

BeatArrives ==
  LET h == <<sock, "beat">> IN
  /\ Take /\ Head(toServer).event = "shift:heartbeat"
  /\ tasks' = IF shiftId[sock] = None THEN tasks
              ELSE [tasks EXCEPT ![h] = [Idle EXCEPT !.at = "beating", !.id = shiftId[sock]]]
  /\ UNCHANGED <<ledger, toPhone, elsewhere, registered, shiftId>>

Admitted_OneTooFew(events) == SubSeq(events, 1, Len(events) - 1)

Admitted(events) ==
  IF Len(events) > MaxReplay THEN SubSeq(events, 1, MaxReplay) ELSE events

ReplayArrives ==
  LET h == <<sock, "replay">> events == Admitted(Head(toServer).events) IN
  /\ Take /\ Head(toServer).event = "telemetry:replay" /\ tasks[h].at = "idle"
  /\ tasks' = [tasks EXCEPT ![h] = [at |-> "next", id |-> None, todo |-> events, took |-> events]]
  /\ UNCHANGED <<ledger, toPhone, elsewhere, registered, shiftId>>

\* The loop of telemetry:replay: one event at a time, through the handlers of
\* live events, each awaited. device:health is a write of its own (ingest).
ReplayNext(k) ==
  LET h == <<k, "replay">> e == Head(tasks[h].todo) IN
  /\ tasks[h].at = "next" /\ tasks[h].todo # <<>>
  /\ \/ e.event = "shift:start" /\ HandleStart(h, e)
     \/ e.event = "shift:end" /\ HandleEnd(h)
     \/ /\ e.event = "device:health"
        /\ tasks' = [tasks EXCEPT ![h] = HandlerDone(h)]
        /\ UNCHANGED <<ledger, toPhone, shiftId>>
  /\ UNCHANGED <<toServer, elsewhere, registered>>

ReplayDone(k) ==
  LET h == <<k, "replay">> IN
  /\ tasks[h].at = "next" /\ tasks[h].todo = <<>>
  /\ toPhone' = Emitted(k, Replayed(tasks[h].took))
  /\ tasks' = [tasks EXCEPT ![h] = Idle]
  /\ UNCHANGED <<ledger, toServer, elsewhere, registered, shiftId>>

\* The ledger's answer to a start; a 500 and a lost answer look alike.
StartAnswered(h) ==
  LET s == calls[h].got IN
  /\ tasks[h].at = "calling" /\ Ledger!Return(h)
  /\ \/ /\ s # None
        /\ shiftId' = [shiftId EXCEPT ![h[1]] = s]
        /\ toPhone' = Emitted(h[1], OpenState(s))
     \/ /\ s = None \/ "lost_answer" \in Faults
        /\ shiftId' = [shiftId EXCEPT ![h[1]] = None]
        /\ toPhone' = Emitted(h[1], RetryState)
  /\ tasks' = [tasks EXCEPT ![h] = HandlerDone(h)]
  /\ UNCHANGED <<toServer, elsewhere, registered>>

\* What a call that only writes one row comes back with: done, refused by the
\* tenant's switch, not carried out, or carried out without an answer.
CallOutcomes ==
  {IF allowed THEN "done" ELSE "stop"}
    \cup (IF "unreachable" \in Faults THEN {"unreachable"} ELSE {})
    \cup (IF allowed /\ "lost_answer" \in Faults THEN {"lost"} ELSE {})

EndAnswered(h) ==
  /\ tasks[h].at = "ending"
  /\ \E outcome \in CallOutcomes :
       /\ IF outcome \in {"done", "lost"} /\ IsOpen(tasks[h].id)
          THEN Ledger!End(tasks[h].id, "app_closed") ELSE UNCHANGED ledger
       /\ toPhone' = Emitted(h[1], CASE outcome = "done" -> ClosedState
                                     [] outcome = "stop" -> StopState
                                     [] OTHER -> RetryState)
  /\ tasks' = [tasks EXCEPT ![h] = HandlerDone(h)]
  /\ UNCHANGED <<toServer, elsewhere, registered, shiftId>>

TellClosed_Silently(k) == shiftId' = [shiftId EXCEPT ![k] = None] /\ UNCHANGED toPhone

\* A closed row takes socket.data.shiftId with it, whatever that has become.
TellClosed(k) ==
  /\ shiftId' = [shiftId EXCEPT ![k] = None]
  /\ toPhone' = Emitted(k, ClosedState)

BeatAnswered(k) ==
  LET h == <<k, "beat">> s == tasks[h].id IN
  /\ tasks[h].at = "beating"
  /\ \E outcome \in CallOutcomes :
       /\ IF outcome \in {"done", "lost"} /\ IsOpen(s)
          THEN Ledger!Heartbeat(s) ELSE UNCHANGED ledger
       /\ IF outcome = "done"
          THEN IF IsOpen(s) THEN UNCHANGED <<shiftId, toPhone>>
               ELSE TellClosed(k)
          ELSE /\ toPhone' = Emitted(k, IF outcome = "stop" THEN StopState ELSE RetryState)
               /\ UNCHANGED shiftId
  /\ tasks' = [tasks EXCEPT ![h] = Idle]
  /\ UNCHANGED <<toServer, elsewhere, registered>>

-----------------------------------------------------------------------------
(* The control plane underneath *)

StartRuns(h) == Ledger!StartStep(h) /\ UNCHANGED <<wire, client, server, allowed, stamp>>

Read_NoSweep == UNCHANGED vars

\* Some manager opens a dashboard.
Read == Ledger!Sweep /\ UNCHANGED <<wire, client, server, allowed, stamp>>

\* HEARTBEAT_SECONDS is a fifteenth of the gap: while a connected page beats on
\* the shift its socket serves, no unit of time passes without a beat landing.
TimelyBeats ==
  (link = "up" /\ phone.beating /\ phone.held = shiftId[sock] /\ IsOpen(phone.held))
    => shifts[phone.held].beat = now

Tick == TimelyBeats /\ Ledger!Tick /\ UNCHANGED <<wire, client, server, allowed, stamp>>

Switch ==
  /\ "switch" \in Faults
  /\ allowed' = ~allowed
  /\ UNCHANGED <<ledger, wire, client, server, stamp>>

PhoneNext ==
  Launch \/ Connect \/ StoreAnswers \/ SendBeat \/ PageHide \/ DispatchEnd
  \/ BufferStatus \/ Receive \/ Drop \/ Teardown

FrameArrives ==
  RegisterArrives \/ StartArrives \/ EndArrives \/ BeatArrives \/ ReplayArrives

\* The steps of one handler that has been dispatched, and of its call.
HandlerStep(h) ==
  \/ h \in Starters /\ StartRuns(h)
  \/ h \in Starters /\ StartAnswered(h)
  \/ h[2] \in {"end", "replay"} /\ EndAnswered(h)
  \/ h[2] = "beat" /\ BeatAnswered(h[1])

\* A replay that is not waiting for a call runs on without giving way.
Replaying == \E k \in Socks : tasks[<<k, "replay">>].at = "next"

Next ==
  \/ \E k \in Socks : ReplayNext(k) \/ ReplayDone(k)
  \/ ~Replaying /\ (PhoneNext \/ FrameArrives \/ \E h \in Handlers : HandlerStep(h))
  \/ ~Replaying /\ (Read \/ Tick \/ Switch)

Spec == Init /\ [][Next]_vars

\* The wifi comes back, the phone and the server run what they have to run, the
\* clock advances and somebody looks at a dashboard. Nobody has to launch or
\* leave the app, and nothing has to fail.
FairSpec ==
  /\ Spec
  /\ WF_vars(Connect) /\ WF_vars(StoreAnswers) /\ WF_vars(Receive)
  /\ WF_vars(SendBeat) /\ WF_vars(DispatchEnd) /\ WF_vars(FrameArrives)
  /\ \A h \in Handlers : WF_vars(HandlerStep(h))
  /\ \A k \in Socks : WF_vars(ReplayNext(k) \/ ReplayDone(k))
  /\ WF_vars(Tick) /\ WF_vars(Read)

-----------------------------------------------------------------------------
\* The step in which the phone hears an answer of this kind.
Hears(kind) ==
  toPhone # <<>> /\ Head(toPhone).kind = kind /\ toPhone' = Tail(toPhone) /\ link' = "up"

Holds(queue, e) == \E i \in DOMAIN queue : queue[i] = e

\* The replays of this connection whose answer the phone has not had.
Unanswered ==
  {toServer[i].events : i \in {j \in DOMAIN toServer : toServer[j].event = "telemetry:replay"}}
    \cup {tasks[h].took : h \in {<<sock, "replay">>} \cap Handlers}
    \cup {toPhone[i].took : i \in {j \in DOMAIN toPhone : toPhone[j].kind = "replayed"}}

\* Once the page has read the store, an event persisted is forgotten only when
\* the server says it took that event, when the tenant has declined telemetry, or
\* to make room: "cleared on acknowledgement, not on send" (onConnect).  An
\* acknowledgement names no event: that of an older replay also forgets what a
\* second one on the same connection is still to deliver.
BufferKept ==
  [][phone.loaded = "yes" => \A i \in DOMAIN store.queue :
       \/ Holds(store'.queue, store.queue[i])
       \/ Hears("replayed") /\ \/ Holds(Head(toPhone).took, store.queue[i])
                                \/ \E events \in Unanswered' : Holds(events, store.queue[i])
       \/ Hears("stop")
       \/ Len(store.queue) = MaxQueued]_vars

Quiet ==
  /\ toServer = <<>> /\ toPhone = <<>> /\ phone.closing = None /\ phone.loaded = "yes"
  /\ \A h \in DOMAIN tasks : tasks[h].at = "idle"

\* The start this phone waits for was lost with an earlier connection: Drop leaves
\* `opening` set, so onConnect on this one has asked for nothing (open).
Stranded == phone.opening /\ phone.asked < sock

\* Once nothing is under way, the beats of a connected phone are credited to the
\* shift it holds, or to none: heartbeats carry no id, so nothing else would notice.
\* To none only in two states.  A phone that was resuming when the connection
\* went asks no more, though "the plugin hands its shift id back on the next
\* shift:start" (disconnect, index.js), until the page is gone.  A controller
\* that was stopped and then heard a late open state beats on, and its next
\* connection has no shift for it: onConnect returns before open().
BeatsReachTheirShift ==
  (Quiet /\ link = "up" /\ phone.beating) =>
    \/ shiftId[sock] = phone.held
    \/ shiftId[sock] = None /\ (Stranded \/ phone.stopped)

\* Each start is answered, whatever becomes of its call, unless the connection
\* goes first: an unanswered one would stop the phone from ever asking again.
EveryStartAnswered == phone.opening ~> (~phone.opening \/ link = "down")

\* A shift nobody beats any more does not stay open: it is closed, or its last
\* heartbeat is too near the end of the run for it to have gone stale.
StaleIsClosed ==
  \A s \in Shift : IsOpen(s) ~> (~IsOpen(s) \/ shifts[s].beat + Gap >= MaxTime)

SecondShiftIsLate ==
  issued' # issued => \A s \in issued : IsRow(s) => shifts[s].beat + Gap < now

\* "A WebView teardown must not fragment one shift into nine" (start()): a phone
\* opens a second shift only once the gap of the one before it has passed.
OneShiftPerOuting == [][SecondShiftIsLate]_vars

\* One pair of glasses is on one shift at a time.
OneOpenPerGlasses == \A s, t \in Shift : IsOpen(s) /\ IsOpen(t) => s = t

\* "The queue is how an event that happened while the phone was offline -
\* including the end of a shift - reaches the server at all" (load): once the
\* server has taken a clock-out, the shift it names is over.
ClockOutDelivered ==
  [][Hears("replayed") =>
       \A i \in DOMAIN Head(toPhone).took :
         Head(toPhone).took[i].event = "shift:end" => ~IsOpen(Head(toPhone).took[i].id)]_vars
=============================================================================
