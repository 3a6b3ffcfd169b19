# A formal model of GapVision / CueSea

GapVision puts a store associate's cues on a pair of glasses. The phone the glasses are paired with runs a
plugin in a WebView; it talks over socket.io to a realtime server, which keeps the floor of each store in
memory and asks a control plane (FastAPI over Postgres) for everything that must last. Guests check in on a
web page, associates take their requests and ask questions by voice, and the clock-in of each pair of glasses
is recorded as a shift.

This directory holds TLA+ modules translated from that code, TLC configurations that check them on small
instances, and proofs, checked by TLAPS, of what the parts guarantee for instances of any size: the shift ledger,
the floor that calls it, the guests, the voice questions, and most of the control plane.

## 1. The system

| Part | Code | State it keeps | Operations | What is hard about it |
|---|---|---|---|---|
| Shift ledger | `ai-service/app/shifts.py`, migration 010 | `shifts` rows | sweep, prune, start (resume, dedupe, supersede, insert), heartbeat, end | every statement is its own transaction, so a start is up to five, and two interleave; ids come back late; nothing but a read sweeps |
| Shift controller | `glasses-plugin/src/shift.ts`, wired in `main.ts` | shift held, latch, event queue; a persisted copy of both | open, beat, end, status, replay, stop | the WebView is taken away with or without an event; store and socket answer in any order |
| Shift handlers | `server/src/index.js` (`shift:*`, `telemetry:replay`) | `socket.data.shiftId` per connection | forward to the ledger, answer | async handlers of one socket interleave, and go on after it has gone |
| Guest presence | `web/src/CheckIn.jsx`, `presence.py`, `/api/presence*` | live check-ins | check in, revoke, lapse | calls nobody waits for land late |
| Guest requests | `requests.py`, `/api/request`, `request:*` | `guest_requests` | ask, claim, clear, cancel for guest | two claims at once; Stop against a claim; lost answers |
| Engagements and the till | `enterGuest`, `session:end` in `index.js`, `analytics.py` | `engagements`; the engagement each socket serves; `posSessions` | arrive, engage, end | three awaits between the guest being set and the engagement id being set |
| Lens of an associate | `glasses-plugin/src/main.ts` | which frame owns the lens: cue, request, menu, ruler, urgent, notice | frames from the server, presses, swipes | what a press means depends on a frame that may just have changed |
| Voice questions | `glasses-plugin/src/voice.ts`, `voiceSessions` in `index.js` | controller state, timers, mic; one session per socket | start, audio, stop, dismiss, answer, time out | the host's mic and the glass are awaited; four things end a question |
| Camera | `glasses-plugin/src/vision.ts` | a scan, its dwell | scan, answer, dismiss | same shape as voice |
| Radio, roster, handshake | `server/src/index.js` | associates of a store, radio log, cached setting | register, send, disconnect | the setting is awaited before the addressee is looked up |
| Pocket | `pocket/src` | queue of actions, stored token, screen | push, flush, sign in, sign out | two flushes at once; sign-out while the network is gone |
| Accounts | `identity.py`, `routes_auth.py`, user routes of `routes_admin.py` | users, sessions, single-use password links | sign in and out, ask for a link, redeem, create, change, disable, delete | a redemption is a read and three writes, and sessions got with the old password must go |
| Devices | `devices.py`, `routes_device.py`, `preflight.py` | one row per pair of glasses or phone; the hash of its provision code | mint, reissue, revoke, register by serial, check a code | the preflight asks an outside host between the read and the write |
| Store connection | `crm_credentials.py`, `crm_provider.py` | one credential per tenant, its last test; per replica, one adapter with its time | connect, test, disconnect, look up | replicas learn of a change late; a lookup can hold what a rotation replaced; a failed read is cached as an answer |
| Plates | `plates.py` | plates, last counter of a rotating tag | mint, replace, revoke, resolve | the counter is compared and stored separately |
| Rate limits | `auth.py` | a table of deques shared by all threads | limit per address, limit per bucket | no lock; idle buckets are listed and then dropped under the calls that made them |
| Growth and decks | `growth.py`, `decks.py`, `sales-site/api/lead.js` | leads, touches, deck opens | record, edit, log a touch, work queue, two sweeps | the sweep is two statements that each read the clock; a reply must not be lost among later touches |
| Retention, start-up, migrations | `retention.py`, `db.py`, `main.py` | redacted columns, receipts, `schema_migrations` | boot, migrate, loop, run by hand, sweep | replicas boot and sweep together; a boot that fails sweeps nothing; caps and failures stop a sweep halfway |
| Log of the floor | `analytics.py`, `routes_analytics.py` | engagements, questions, assists, readings, daily usage | ingest, end an engagement, summarise | who it was about is looked up in several statements while the Console assigns and deletes |
| Answers by voice | `voice.py`, `personas.py` | none | transcript to answer | sizes of different schemes; what an item, a guest or the model lacks |
| Store reads | `vision.py`, `checkout.py`, `crm_shopify.py` | cached answers, the store's token, draft orders | scan, checkout, guest card, question | one cache shared by threads without a lock; one lookup of several fails |
| Language and speech models | `llm.py`, `stt.py` | none | answer, or fall back | outside services |
| Deck | `lens-core`, `meta-lens` | cursor, inside/outside a card | press, swipe | shared by two renderers |
| Consoles and pages | `internal`, `web`, `sales-site`, `storefront`, `brand` | none of their own | forms over routes | presentation |

How they meet: the phone and the realtime server exchange ordered frames over one socket per connection; the
realtime server calls the control plane over HTTP, each call its own request, so two calls of one handler's
lifetime can overtake another's; every `db.execute` or `db.query_one` in the control plane commits by itself.
The last fact is the reason most models below have one action per statement and not one per route.

What makes each part correct, in a line: a shift is counted once and never for time nobody vouched for; an event the
phone has stored is not lost without a reason; a heartbeat credits the shift the phone holds; a guest who presses
Stop is off the floor; the two who take a request hear the same name; the engagement in front of an associate is
open; a question is put to the AI once and ends. A password that is changed ends the sessions of the old one; a code
that was replaced opens nothing; an adapter is out of date for a recheck period at most; a tap works once; a limit
is exact for calls that do not overlap. Words are kept by consent, credited to the wearer, and leave with the sweep,
which comes back while its loop runs; a receipt does not hide what remains. A merchant's reply stays on top; a count
on the glass is recent; a checkout accounts for every code; what is said of a size is true of the rail.

`PROJECT.json` lists every part with its status and every hazard at its line.

## 2. The modules

`ShiftLedger` — the `shifts` table. Variables: `now`, `shifts` (id to row), `issued` (ids handed out), `calls`
(each `start()` in progress and the transaction it runs next). `StartSweep`, `StartResume`, `StartDedupe`,
`StartSupersede` and `StartInsert` are the statements of `start()` in order; `Heartbeat`, `End`, `Sweep`, `Prune`
are one statement each; `Tick` is time. The insert obeys the unique index on serial and client clock, so the
loser of a race falls back to the row that won. The zone, the arrival records and the health rows are left out:
no statement decides on them. Time is an integer of which `Gap` units are `GAP_MINUTES`.

`ShiftPromise` — the abstract specification: the life of a shift, unused, open, over, gone. It has no calls, no
keys and no rival shifts. `ShiftLedger!KeepsPromise` maps each row to a life.

`NoValue` — the null that the modules of the control plane share, so that one module can extend several of them.

`ShiftFloor` — the phone, the socket and the handlers over an instance of `ShiftLedger`. `phone` is the
controller's fields, `store` what it has persisted, `toServer` and `toPhone` the frames on the wire, `tasks` the
server's handlers in progress by socket and kind, `shiftId` what each connection remembers. A frame's handler runs
to its first await as the frame arrives; then each call and each answer is a step. A replay that is not waiting
for a call runs to its end without giving way. What may fail is the constant `Faults`, one switch per
kind, so a run says what it assumes of the world. Frames a phone flushes ahead of its `register` are handled, and
rows they open belong to the demo tenant, as in the code.

`GuestFloor` — check-in pages, the request table, engagements and the lenses. A call has one of the `Fates`: landed,
refused, or unheard (done, the answer lost). A claim writes the account of the claimer's e-mail, or NULL where the
look-up finds none (`LookedUp`); whose claim it was is kept beside it as history (`taker`). Calls the server does
not wait for sit in `wire` and land later, in any order. A lens shows a cue, over it perhaps a request. One store
and one zone; a reconnecting lens is another `Sock`, as it is a fresh socket to the server.

`VoiceTurn` — the voice controller with each of its awaits, the host's mic, and the server's sessions. Timers
that no field refers to any more are kept (`stray`, `leaked`), because they still go off. Time is left out: a
timer that is set may go off at any moment, except that the server's (17 s) waits for the phone's (12 s).
Endpointing by loudness is a stop at any moment.

`Accounts` — `users`, `sessions` and `links` are the tables, `calls` the requests under way. A request's leading
reads, the principal's among them, are one step; every write is its own: `Authenticate` then `IssueToken`; `Burn`
then `Mint`; `Redeem`, `SetPassword`, `MarkUsed`, `RevokeAll`; `CreateUser` then `InsertUser`; `UpdateUser`,
`WriteUser`; `DeleteUser`, `RevokeAll`, `Delete`. The unique index on the address, the foreign keys and the check
that staff alone have no tenant refuse what they refuse in the database. A session that has ended and a link that
opens nothing are not told from ones that never were.

`Devices` — `devices` (with the code of each row as a number in order of minting), `staff`, and `asks`, the
requests under way. `MintAsked` and `ReissueAsked` read, `Preflight` is the answer of the launch URL's host and its
verdict, `Create` and `Reissue` write. `Resolves` is the check of a code by the register handshake.

`CrmCredential` — one tenant's `row` and `provider` column, and the `cache` of one replica; requests are served here
(`Here`) or by another replica. The connect, test and disconnect routes are stepped through statement by statement
(`Arrive` to `SyncProvider`, `Forget`, `Disconnect`); `Lookup`, `ReadTenant`, `ReadCredential`, `Store` are
`get_crm_for` under its lock. An adapter is known by the save whose credential it was built from. `MisreadTenant` is a
read of the tenant that fails: the code takes it for an unknown slug and builds the demo adapter.

`Plates` — the `plates` table and the taps under way: `Tap` reads and compares, `StoreCounter` writes.

`Throttle` — the deques, the table that finds them, and each thread's place in `throttle`: `Enter`, `Look`,
`PopLeft`, `Count`, `AppendHit`. The call that finds the table too large walks it (`ListIdle`, `Examine`,
`EndList`), gives up if its size changes (`RaiseResized`), and then pops what it listed, one key a step (`DropIdle`,
`EndDrop`). Calls take far less than a window, so the clock waits for them.

`Pipeline` — leads, their touches in order, the addresses of deck opens. `Upsert` is the one statement behind the
three doors; `Mirror` the deck open that becomes a lead; `Edit`, `Write` a stage change and the touch that logs it;
`Insert`, `StampLead` the two statements that log a touch. Time is two facts of a lead: it is old enough to be swept
(`ComesOfAge`), and nobody has touched it in 120 days (`GoesStale`). `SweepWords`, `SweepLeads` are the two
statements of `sweep_leads`, of which each finds the leads that are of age by then. `Selected` is what the work
queue reads, `Returned` a lead that is sure to be in it whatever the `LIMIT` leaves out, `Reason` its sorting. Where
a lead came from is left out.

`Retention` — replicas that boot (`Start`, `Migrate`, `BootFails`, `Loop`, `Stop`), and sweeps by the timer or by
hand: `Pick` takes up to `BATCH` rows of a table, `Redact` clears them, `Receipt` records the run, `Fail` is a
tenant's statement that raises. After the tenants come three parts, shifts, deck leads and leads, each in a try of
its own (`PruneOurs`, or `OursFails` and on to the next). A boot ends `up` with a loop, `lost` to another's
migration, `failed` by any other exception, or `off` where the interval (`Timed`) starts no loop.

`FloorLog` — the ingest calls (`call`), the rows they write (`log`), `usage_daily`, and the Console's changes
beside them. A call reads the tenant, then asks by lens (`AskLens`), by serial (`AskSerial`, `Register`), by
e-mail (`AskEmail`), then writes (`WriteRow`) and counts (`BumpUsage`), each a transaction.

`VoiceAnswer` — a pure function: `answer_query` and what it calls, under the names of `voice.py`, from what the
rules see of a question to the lines of the answer. Its one action is the evaluation. Counts of a variant are
integers, as Shopify's are: below zero, a variant is oversold.

`StoreLookup` — the Shopify adapter (`_cached`, `Mint`, `query`, `Answered`, `Fails`) with its cache and token, and
the requests that read through it: a scan, a part of a photo, a checkout link, a question, a guest card. What each
does with an answer or an exception is `_sku_answer`, `_part_answer`, `build_link`, `guest_context`. Shoppers buy
and restock meanwhile (`Sell`).

The MC modules give TLC its instances; each extends the modules it runs, so that the assumptions on their constants
are evaluated. `MCShiftLedger` and `MCShiftFloor` add symmetry. `MCShiftOutages` runs `ShiftFloor` in two parts with
the bounds where each needs them: `outages` has the constants of the configuration, with connections, time and only
what wifi does; `faults` (the instance `F`) has every fault, no time and no more than `FaultySocks` connections.
`MCGuestFloor` does the same with the requests of an anonymous guest (`Desk`) and the visits of a known one
(`Visit`). `MCBackOffice` and `MCServices` hold components of the control plane side by side, as no call of one
touches the tables of another; the store connection has two parts there, one where a replica is told of every
rotation and no time passes (`rotation`, where every tenant row is read), and one where all of them happen elsewhere
(`recheck`, without tests of a stored credential); the rate limits have one thread at a time walk their table. In
all of these a behaviour chooses its `part` at the start and the other parts do not move, so their interleavings,
which commute, are not multiplied. `MCRetention` names the tenants and tables. Symmetry is only used where the
elements are interchangeable in the specification and the run has no liveness property.

The proofs stand in modules of their own, which extend the modules they are about: `ShiftLedgerProofs`,
`ShiftFloorProofs` (the floor, and `MCShiftOutages`), `GuestFloorProofs`, `VoiceTurnProofs`, `BackOfficeProofs`
(accounts, devices, plates, the store connection, rate limits, and `MCBackOffice`), `StoreLookupProofs`,
`RecordsProofs` (the log, the pipeline, and `MCServices`) and `ServiceProofs` (retention, answers by voice). Section 5
says what they show.

## 3. The runs

| Run | Question | Bounds and faults | Result |
|---|---|---|---|
| `ledger_race` | Two starts interleave statement by statement, with sweep, prune, heartbeats and clock-outs: is history fixed, each closing honest, each clock-in one row? | 2 ids, 1 pair of glasses, 1 client stamp, 2 callers, time to 2 gaps | holds |
| `ledger_serial` | With starts of one pair of glasses one at a time: do shifts never overlap, and does the table implement `ShiftPromise`? | 2 ids, 2 callers, time to 2 | holds |
| `floor_outages` | Is a stored event only forgotten for a stated reason, are the beats of a phone credited to the shift it holds, or to none for one of two named reasons, and does wifi that comes and goes keep one outing one shift? | 3 ids, buffer of 3, replay of 3. Part `faults`: 2 connections, no time; all nine faults, lost answers and battery reports before the first connection among them. Part `outages`: 3 connections, time to 2; drops, switch, battery | holds |
| `floor_progress` | Is every start answered, and is every abandoned shift closed? | 2 ids, time to 2; kills, pagehide, slow store, unreachable, lost answers, battery reports before the first connection (which are replayed on it) | holds |
| `floor_clockout` | Does a clock-out that waited for a reconnection close its shift? | drop and pagehide suffice | violated |
| `guest_floor` | Whatever overtakes what, are the engagements that sockets serve open, and do lenses agree with the table of requests against claims and against Stop? | 2 lenses. Part `visit`: 1 guest, 1 check-in, 2 arrivals; drops, refused and unheard calls. Part `desk`: 1 guest, 2 requests; drops, refused calls, lapse | holds |
| `voice_turns` | Is a question put to the AI once, does its session end, does THINKING end? | 2 questions, 2 connections, cap of 2 chunks; drops, mic refused | holds |
| `voice_mic` | Does the mic ever stay open? | 2 questions, 1 connection, no faults | violated |
| `back_office` | Statement by statement, two requests at once: do changed passwords end sessions, dead codes stay dead, adapters go stale in time, taps and limits count as promised? | 2 requests everywhere. `accounts`: 2 people, 2 links, 1 session; links lapse, mails fail. `devices`: 2 rows, 2 codes. `rotation`: 2 saves, one request here and one elsewhere, no time, no misread row. `recheck`: 2 saves elsewhere, no test, 2 recheck periods, misread rows. `plates`: 2 plates, counters to 2. `throttle`: limit 1, window 1, time to 2, 3 deques, one walk of the table at a time | holds |
| `services` | Are counts recent, codes accounted for, size answers true, the log by consent and by wearer, replies on top and swept words gone? | `store`: 2 codes, 2 requests, 1 sale, time to 3 with a cache life and a timeout of 1. `log`: 2 people, 1 pair of glasses, 2 calls at once, 1 change by the Console. `voice`: 6 floors, 3 guests, every question of 3 words and 2 sizes. `leads`: 1 lead, 2 writers, 2 touches, a queue of 1 | holds |
| `retention` | With replicas, caps, failures and restarts: are receipts honest, do replicas that boot together not all lose, and is what has aged redacted while a loop runs? | 2 replicas with a timer, 2 tenants, 2 rows of one of them and one lead of the service's own, batch of 1, 1 migration, 1 failure of a boot, a statement or a part, 2 starts | holds |
| `log_past` | Does deleting a person leave the numbers of past days alone? | 1 call, 2 people, 1 change, 2 days | violated |

Why these bounds are enough to be worth having. Two callers and two ids give every race of two statements over a row
and its rival; a third caller only repeats the roles. Three ids in the floor runs let a phone lose a shift, open one
and be superseded by another. A buffer of three events overflows within two connections. `MaxTime = 2` with `Gap =
1` lets a shift go stale and another start after it. Two arrivals let a second guest take the place of the first
while the first one's calls are still out. Two questions let an answer arrive in the other question's time. Two
requests interleave every pair of calls of the back office, and a third would have to meet two at once, which
single-statement checks do not make different. Two saves are an old credential and a new one; two links the burned
one and the next; two touches a reply and what comes after it. A batch of one leaves something over with two rows.
In `retention` both rows belong to the first tenant; what a failure leaves out is the second tenant, which has no
rows, and the service's own row, which comes last. With one lead the limit of the work queue is never passed in
`services`; what it does to a reply is in the theorem only. Nobody runs a sweep by hand there (`Manual` is empty),
as such a run takes the same steps and would only help the timer. The clock stands still (`MaxTime = 0`) in runs
whose properties are about order and not age; there the ledger's sweep has nothing to do. `Gap` and `Keep` are 1
because only comparisons with them matter. `MaxSock`, `MaxTaps`, `MaxAsks`, `MaxArrivals`, `MaxTurns`, `MaxConn`,
`MaxWire` and `MaxStops` bound otherwise unbounded behaviour and stand in the guards of the actions that consume
them; `MaxQueued`, `MaxReplay` and `MaxBytes` are constants of the code, made small. `MaxBytes` is 9 in `voice_mic`
so that the byte cap is not what closes the microphone.

Deadlock is checked in the ledger and shift-floor runs. The others stop when nobody comes in, asks or calls any
more, or when every bounded thing has been used up, so their configurations turn it off. The larger runs visit some
537,000 (`floor_outages`), 1,250,000 (`guest_floor`), 1,750,000 (`back_office`) and 2,010,000 (`services`) states, in
one to four minutes each.

One heartbeat is on its way at a time, and none is sent while two answers (`MaxUnheard`) wait for the phone.
While a connected page beats on the open shift its socket serves, time waits for a beat to land (`TimelyBeats`):
the phone beats every minute and the gap is fifteen of them. A phone that is disconnected, or whose socket has
forgotten the shift, gets no such help. `floor_progress` has no drops: after one the latch of section 4 may stay set
over the next connection, and `EveryStartAnswered` with it.

### Fairness

Safety runs use the bare specification. `ShiftFloor!FairSpec` assumes that the wifi returns, that the page and
the server run what is ready to run, that the clock advances, and that somebody reads a dashboard or starts a
shift now and then: the sweep runs in those reads and nowhere else, so without the last `StaleIsClosed` is simply
false. Nothing obliges anyone to launch or leave the app, and no fault has to happen. `VoiceTurn!FairSpec`
assumes the host carries out mic calls, the glass draws, timers that are set go off, frames arrive, and the AI
service's call returns or fails, as `fetch` gives up by
itself in the end; nobody has to press anything and the wifi need not come back. `Retention!RetFairSpec` assumes that
a timer that is set fires again and that a statement returns or fails; nobody has to restart a process, run a
sweep by hand, or let a row age, and nothing has to fail. `AgedIsRedacted` is a promise only while one process with the
loop stays up.

## 4. What the runs found

Each is a behaviour of the code that contradicts a sentence of the repository; `PROJECT.json` quotes both.

* **A replayed clock-out ends nothing** (`floor_clockout`). `shift:end` acts on `socket.data.shiftId` and ignores
  the id in the event. On the fresh connection that replays it there is none, so the event is acknowledged and the
  shift stays open until it goes stale.
* **The mic can stay open for good** (`voice_mic`). The answer of a dismissed question clears the timers of the
  next one and sets the state its stop then returns from.
* **Deleting a person rewrites past numbers** (`log_past`). Engagements survive a deletion without the name, as the
  docstring of `delete_user` says; assists go with their helper, and the count of a past day falls.

Other differences seen while modelling. They follow from the modules but no run is spent on them.

On the floor:

* The latch that stops several starts from one WebView is released only by an answer; a drop during a start leaves
  it set, and the reconnection does not hand the shift back (`shift.ts:259` against `index.js:1216-1217`). If the phone
  was resuming it still shows the shift and beats to no effect until the page goes: `BeatsReachTheirShift` excepts
  that state by name (`Stranded`) and says that no other shift is credited.
* The loser of a claim is not told: the press takes the request's frame down, and `request:taken` looks for that
  frame and does nothing (`main.ts:2790` against `:1271-1274` and `test_requests.py:133`).
* A resume with another user leaves a person with two open shifts (`shifts.py:302` against `:288`); with two
  starts at once the duplicate of a clock-in closes the row of the first (`shifts.py:350` against `:323-325`).
* A heartbeat that fails makes the phone drop an open shift (`shift.ts:298-303`, `index.js:421`), and a phone
  told its shift is closed does not open another (`shift.ts:300`, `index.js:830-831`).
* `pagehide` ends a shift a returning page would have continued (`main.ts:2555`, `shifts.py:282-284`); a replayed
  start supersedes a newer live one (`index.js:892`, `shift.ts:229-232`).
* A battery report before the first connection overwrites a stored clock-out (`shift.ts:222`, `:154-156`). The
  fault `offline_launch` shows it. `BufferKept` speaks of a page that has read the store, which such a page has not.
* One acknowledgement clears two replays. A health report made while a replay is out sends the buffer again
  (`shift.ts:250-254`), and the answer to the first clears what the second carries (`:234-237`). What was cleared is
  still with the server's handler, so `BufferKept` allows it; a drop before that handler is done loses it.
* A controller stopped by telemetry off that then hears a late "open" beats on, with no shift, on its next connection
  (`shift.ts:288-294` against `:240`). `BeatsReachTheirShift` excepts it by name.
* A request sent before Stop may be inserted after the cancellation (`requests.py:78-104`,
  `CheckIn.jsx:216-223`); a failed revoke is swallowed (`CheckIn.jsx:193-198`) and a failed cancellation answered
  ok (`index.js:1643-1646`); the presence call of `enterGuest` may land after a revoke (`index.js:451-457`).
* `request:cleared` names no request and clears any (`main.ts:2796-2802`); a claim whose answer is lost leaves a
  request claimed that nobody walks to (`index.js:1021-1027`).
* An engagement may be set on a socket that has gone (`index.js:500-522`); a voice record takes the engagement of
  the moment of the answer (`index.js:1303`).
* THINKING with no session after a dismissal while the mic closes, or after a drop; late audio or `voice:end` of
  one question ends or joins the next (`index.js:941`); a drop ends the session although `index.js:937-938` says
  the question survives.
* A deck frame over the ruler leaves `onRuler` set (`main.ts:948`, `:1287`).

In the control plane:

* Two redemptions of one link that overlap both set a password, though "the link works once"; a login in flight when
  an account is disabled still gets its session. `SessionsAreEarned` excepts the second by name.
* Asking for a reset burns earlier links, also an unused invitation, although the mail says "If it wasn't you, nothing
  has changed" (`mailer.py:362`, `identity.py:139`).
* A reissue clears a revocation made during its preflight (`routes_device.py:171`, `:190`); `update_device` does not
  compare the person's tenant; preflight blocks on a status that is an error where its comment allows one.
* A store is switched on before its credential is tested; a test is recorded by tenant alone, so it may land on the
  credential that came after (`crm_credentials.py:142`); a credential that cannot be opened keeps its last test.
  A disconnect that read the provider before a connect leaves a store with no credential, a 503 rather than the demo.
* A read of the tenant row that fails is swallowed and taken for an unknown slug, so the replica answers a live
  store with the demo data and keeps that answer for a recheck period (`crm_provider.py:149-154`, `:239-240`),
  though its comment says the caller falls back to the environment and then to `TenantNotConfigured`.
  `StaleWithinRecheck` excepts it by name.
* The counter of a plate can move back when two taps overlap (`plates.py:39`, `:179`). Two calls that overlap are
  both let through at the limit (`auth.py:101`), and so is one that appends its hit to a bucket another call has
  listed as idle and is about to pop (`auth.py:157-158`): the hit is lost with the bucket. `LimitIsExact` excepts
  both (`contended`).
* A replica that loses the race of a migration serves for good without a retention loop (`main.py:67`, `:86-87`),
  and so does one whose `migrate()` raises for any other reason, no connection or a bad file among them; with an
  interval of 0 none has one (`main.py:100-102`). `SomebodySweeps` says that the race alone never leaves nobody
  sweeping; a database that is away while all replicas boot does, until one is restarted. A retention period too
  large for `make_interval` raises in every sweep and leaves out the tenants after it (`retention.py:70` says the
  API clamps; `update_tenant` merges unclamped). The total that a manual run returns leaves out requests.
* A touch written to a lead after its sweep began keeps its words and no later sweep looks at it (`growth.py:471`).
  The second statement evaluates the cut-off again (`growth.py:481-489`): a lead that comes of age between the two
  is redacted with all its words kept for good. `SweepTakesTheWords` excepts both (`after`, `crossed`).
* A merchant who waits for an answer leaves the work queue when nobody has touched the lead for 120 days
  (`growth.py:367`), and may when more leads are in play than the 500 it reads, without an order (`:368`), although
  nothing went out. A reply logged on such a lead brings it back only with the second of two statements, which the
  service may not live to run (`growth.py:281-298`).
* A claim made with an e-mail that is nobody's, or with none, leaves `claimed_by` NULL on a claimed row
  (`routes_guest.py:162-168`): the Console shows it as claimed by nobody.
* Coverage totals leave out people who are disabled or no longer associates (`shifts.py`, `coverage`).
* An error of the store and a truthful miss take the same way: the glass says "not in floor records" for an adapter
  that raised, and "no floor records loaded" for an empty floor (`vision.py:244-246`, `:303-304`). A question by voice
  fails when the adapter raises (`main.py:285`).
* An item of a basket with no code and no title, or with a title of spaces, is dropped without a word, although
  `checkout.py:72` says never silently; an outage is reported as not found; a draft whose answer is lost stays.
* `_is_bottoms` finds "short" in a short sleeve; a question about a garment the floor does not have can be answered
  with an item (`voice.py:217`); ties of `item_scheme` depend on the order of a set; the "Nothing selected" branch of
  `_answer_open` cannot be reached.
* A flat "no" can be said of a 32 of which pieces hang, when another 32 of the rail is oversold: the inventory query
  of Shopify gives a count below zero (`crm_shopify.py:582-613`) and the counts are added up (`voice.py:340-341`),
  though the docstring of `voice.py` calls a confidently wrong "no" the failure to avoid. A size on the rail that is
  gone is a "no" also where another of its waist hangs. And on a mixed rail, {M, 32} say, the commonest scheme
  counts and a tie is decided by the order of a set (`voice.py:155`): a 32 that hangs may be told as "isn't sized
  32" (`voice.py:484-493`). `SizeAnswerIsTrue` says which of these there are and excepts no other.
* "A domain names at most one tenant" (`pos.py:59`), but no index says so.

## 5. What is proved

Each theorem below is checked by TLAPS for every value of the constants that the named `ASSUME`s of its module admit:
any number of ids, people, glasses, connections, requests, replicas, any gap, cache life, batch or buffer, any set of
faults. A formula in parentheses is a further assumption, written in the theorem.

| Module | Theorem | States |
|---|---|---|
| `ShiftLedgerProofs` | `TypeCorrect`, `HonestClose`, `HistoryIsFixed`, `OneRow` | `Spec` keeps `TypeOK`, `ClosedHonestly`, `HistoryFixed`, `OneRowPerClockIn` |
| | `HoursCountedOnce` | `SerialisedSpec => []NoOverlap` |
| | `LedgerKeepsPromise` | `Spec => KeepsPromise`: the ledger implements `ShiftPromise` |
| `ShiftFloorProofs` | `FloorTyped`, `FloorTypeCorrect` | types, `TypeOK` |
| | `FloorKeepsLedger` | `Spec => Ledger!Spec`: phone, sockets and handlers implement the ledger |
| | `BufferIsKept`, `BeatsLand` | `BufferKept`, `BeatsReachTheirShift` |
| | `OneGlassesOneShift` (`SteadyPage`) | `OneOpenPerGlasses` |
| | `FloorSerialises` (`SteadyPage`) | `Spec => Ledger!SerialisedSpec` |
| | `OutingIsOneShift` (`OnlyOutages`) | `OneShiftPerOuting` |
| | `OutagesOneOpen` (`SteadyPage`), `OutagesOneShift` (`OnlyOutages`) | `OutagesSpec` keeps `FloorOneOpenPerGlasses`, `FloorOneShiftPerOuting` |
| `GuestFloorProofs` | `GuestsTypeCorrect` | `TypeOK` |
| | `PointersAreOpen`, `StopCloses`, `TakenIsTrue` | `ServingIsOpen`, `StopClosesEarlierAsks`, `TakenNamesTheClaimer` |
| | `TakenLeavesTheGlass` (`AllHeard`) | `TakenIsNotOffered` |
| `VoiceTurnProofs` | `VoiceTyped`, `OneAnswer` | `TypeOK`, `OneAnswerPerTurn` |
| `BackOfficeProofs` | `AccountsTyped`, `SessionsEarned` | types, `SessionsAreEarned` |
| | `FleetTyped`, `DeadCodes` | types, `DeadCodesStayDead` |
| | `PlatesTyped`, `OldLinks` | types, `OldLinksStayOld` |
| | `CrmTyped`, `Rotation`, `Staleness` | types, `RotationTakesEffect`, `StaleWithinRecheck` |
| | `RatesKeepTypes`, `ExactLimit` | types, `LimitIsExact` |
| | `OfficeRunsItsParts`, `OfficeTyped` | `OfficeSpec` implements every component's specification; `OfficeTypeOK` |
| `StoreLookupProofs` | `StoreTyped`, `Accounted`, `RecentCounts` | types, `CodesAreAccountedFor`, `CountsAreRecent` |
| `RecordsProofs` | `LogTyped`, `Consent`, `Credit` | types and the bill, `RecordedByConsent`, `CreditedToTheWearer` |
| | `PipelineTyped`, `SweptWords`, `RepliesStay` | types, `SweepTakesTheWords`, `ReplyStaysOnTop` |
| | `ServicesRunTheirParts`, `ServicesTyped` | `ServicesSpec` implements every component's specification; `ServicesTypeOK` |
| `ServiceProofs` | `RetentionTyped`, `HonestReceipts`, `OneSweeps` | types, `ReceiptIsHonest`, `SomebodySweeps` |
| | `TrueOfSizes` | `VoiceSpec => []SizeAnswerIsTrue` |

### The assumptions

Most of the `ASSUME`s say that bounds are numbers, that constants have their shape and that `None` is not a datum.
Those that say more are facts of the code: `ReplayAssumption`, a replay takes a whole buffer (200 events against
60); `GapAssumption`, the gap is positive; `PipelineAssumption` and `DevicesAssumption`, the stages of a lead and
the surfaces of a device that the database's checks admit; `ThrottleAssumption`, limit and window are at least one,
and a bucket is idle no sooner than its hits have left the window (`RATE_WINDOW * 5`); `VoiceAssumption`, the words
are finitely many, and only a size of the schemes waist and numeric names a waist.

* `SteadyPage`: the page is not killed, does not hide and reads its store at once. Without it two starts can be out
  together: a start of a page that was killed is still with the server when the next page sends its own, neither
  finds the other's row, and both insert. Everything else may fail: wifi, control plane, lost answers, battery, switch.
* `OnlyOutages`: besides, calls reach the control plane and their answers come. A start whose answer is lost made a
  row that the phone knows nothing of, and its next start is a second shift; a heartbeat that fails makes the phone
  forget the shift it has.
* `AllHeard`: no answer of the control plane is lost. If one is, a claim was done and nobody told.

The runs check the statements that need these under `OnlyOutages` (`floor_outages`, part `outages`) and `AllHeard`
(`guest_floor`, part `desk`).

### The arguments

*The ledger.* Neither `ClosedHonestly` nor `HistoryFixed` is inductive alone: a row may be closed honestly only
because it was last seen no earlier than it started and not in the future (`RowTimes`). So `IInv` is `TypeOK`,
`RowTimes` and `ClosedHonestly`. Rather than prove each property against each action, the lemma
`StepEffect` says once what any step does to a row: keep it, touch its heartbeat while open, end it, delete it,
or insert it at a fresh id (and `OneInsertAtMost`: one row a step). One lemma per action establishes it;
the theorems, the refinement included, then only look at those five effects. `OneRow` needs besides that the insert
checks its key in the very transaction that writes, which is the unique index of migration 010; the earlier look-up of
`start()` is not needed for it. `NoOverlap` needs that while one start of a pair of glasses is past its supersede
step no other can have inserted; this is what serialisation gives and what two concurrent starts lack. The constraint
is on the environment, which is why the theorem is about `SerialisedSpec`.

*The floor.* `FloorInv` types the wire, the phone and the handlers, and says that every id anywhere was handed out by
the ledger; with it each of the floor's actions is one statement of the ledger or leaves it alone (`FloorStep`), which
is the refinement. A theorem about an instance cannot be cited, so what the floor's own properties need of the ledger
is stated again as lemmas over `Ledger`.

* `BufferKept` is about one step, and an acknowledgement clears the whole queue. `BufferInv` says why it may: behind
  every acknowledgement there is, on the wire, with the handler or on its way back, a replay that carries all that the
  store holds (`UnderWay`).
* `BeatsReachTheirShift` is about quiet states; `BeatInv` is about all of them. `WordInv`: the last open state on
  its way to the phone, or else the shift the phone beats on, is what the socket remembers (`Served`), unless a
  clock-out is being answered, which will tell the phone so; a phone that waits for a start or was stopped may
  instead beat on a socket that remembers none. `AskInv` says what waiting means: the start of this connection is on
  the wire, with its handler, or answered; so in a quiet state a latch that is set belongs to an earlier connection
  (`Stranded`).
* `OneOpenPerGlasses` rests on the latch. `LatchInv`: at most one start is out, as a frame or as a handler, and
  while one is, the latch is on and no answer on its way would release it, also when the socket it came from has
  gone. `OneInv` follows a start through its statements: past the supersede step no row is open. The same invariant
  shows that starts of the glasses never overlap in the ledger (`FloorSerialises`), which is the assumption of
  `HoursCountedOnce`: the environment that theorem asks for is the one a page that stays provides.
* `OneShiftPerOuting` needs that whatever is still to ask for a shift names the one that is open: `OutingInv` says it
  of the phone, of its frames, of the handlers, of the answers and of what the socket remembers, and that every row
  that is not open is late. Then an insert finds nothing to resume only when the gap has passed.

*The guests.* An engagement is open while a socket or its till record points at it, or an arrival carries it
(`PointedIsOpen`, `CarriedIsOpen`), because it is in one pair of hands at a time (`HeldOnce`): to end what one
socket points at ends nothing of another's. For requests, `RequestInv` says what is known of a frame about a request
as long as it is on its way (`Holds`): what was true when it was sent stays true of the table (`Kept`). `OfferInv`
adds that a request that somebody has, and that a lens shows or will show, is followed in that lens's queue by the
frame that takes it down, or is with the handler that will send it. That the rows keep within their bounds
(`GuestsTypeCorrect`) needs that an arrival begins one engagement at most (`Begun`): of those begun, each is counted
by a different arrival.

*Voice.* `VInv`: a question on the wire was asked, once, and is neither in session nor answered; one in session is
not on the wire and not answered.

*The back office.* `SessionsAreEarned` is inductive with the types and what a request under way knows of its
account. `DeadCodesStayDead` needs that codes are minted in order, that two rows never hold one, and that a dead
code is in a row only while that row is revoked. `OldLinksStayOld` needs that the counter stored for a plate is at
least the highest answered unless its taps crossed. The store connection needs `MayServe`, kept by the cache and by
the lookup that is being built: an adapter was right at some moment since the lookup began, or is the demo data of a
tenant that was misread since then, and is none the replica was told to forget.

*Store, log, pipeline, retention.* `InCache` and `Waits` date a cached answer and one on its way by the shelf's
history; `LinkStands` follows a checkout line by line, over baskets of any length. `Sound` says what a log call
knows at each of its look-ups. What is billed (`LogTyped`) is counted as a set, `Tally`, a pair for every count of a
day: a call adds one pair at most, and does so as its own row, which nothing deletes, becomes settled (`BillInv`),
so no count outruns the rows. An assist on record names its helper because it is refused before it is written
otherwise (`Proper`). `SweptAreWiped` is about leads from the first statement of the sweep on, but for those that
came of age after it. `NothingForgotten` says of a sweep in progress that what was due and is not clean is in a
table still to come, in the statement under way, or behind a cap; `OneGetsThrough` that some replica has still to
apply the next migration or is up, unless one is down, failed by itself or has no timer: the one that loses a race
does not change that, for another has won it.

*Rate limits.* For a key whose calls do not overlap, its deque holds the last of its admissions, and those before
have left the window (`HoldsTheLast`); the admissions of any window that ends with one of them are at most `Limit`
in a row (`Spread`). What makes the history of one key its own is `Owners`: a deque is of one key, also for the
calls that took it from the table before it was dropped as idle. A bucket that was listed as idle, and whose key
nobody has called since, is still idle when it is popped, so dropping it forgets nothing that counts.

*Answers by voice.* `VoiceAnswer` is a function, so the invariant is trivial (a question that is answered has the
answer of `answer_query`) and the work is in lemmas on operators. The best-scoring item and the majority scheme
exist because the naturals have least elements; stock is added up over the rail as the cardinality of a set of
pieces, so what a "yes" counts is compared with what hangs there by inclusion; a flat "no" is followed branch by
branch to the guard that admits it; and "isn't sized so" to the scheme that has as many variants as the one asked
for (`SchemeOnRail`, `NotSized`).

*The runs that hold several parts.* A step of one part is a step of its component and leaves every other as it is, so
the composed specification implies each component's (`OfficeRunsItsParts`, `ServicesRunTheirParts`), and with it
every theorem above. In `MCShiftOutages` the part that is chosen stays chosen and a step of `outages` is one of
`ShiftFloor` with the constants of the run (`OutagesStep`), so the invariants of the floor hold in that part, which is
the one its two properties speak of.

### Only model-checked

* Liveness (`EveryStartAnswered`, `StaleIsClosed`, `SessionsEnd`, `ThinkingEnds`, `AgedIsRedacted`): fairness and
  `ENABLED` are outside what TLAPS proves here.

Every other property of a passing run, the types included, is stated by a theorem.

## 6. What is left out, and why

Drawing, layout, wording and images of the glasses; the answers of the language, speech and vision models; HTML
pages; static assets. They compute a picture or a text from their inputs, and the properties above do not tell
pictures apart. In the modelled parts: the roster's status words, statistics, simulated sales, other stores and
zones (isolation between stores is a matter of one room name), the focus SKU, and the urgent, menu and ruler frames.
The uplink of a lens is taken as instantaneous in `GuestFloor`, as what a press means is decided on the phone when
it is pressed; only downlink frames are delayed. The heartbeat's period and the timers' lengths are replaced by
order.

In the control plane: hashing, sealing and signatures (a token is known by who minted it); last-seen and
last-login stamps that only a list shows; `llm.py` and `stt.py`, one call each with a fallback; the forms of
`routes_admin.py` over single rows; the signature of the point of sale; dashboards other than `summary()`, which read
the same rows. `Retention` has no archived tenants, and `Pipeline` no deck links.

Not modelled yet: the pocket app (its queue of actions, `queue.ts:158`, and its sign-out), the radio and roster of the
realtime server beyond what requests need, the frame stack and camera of the glasses, and the deck of `lens-core`.
They keep state of their own and could be modelled. The consoles and pages keep none that the server does not.

## 7. Plan

Modules, in this order:

1. `PocketQueue`: push, overflow, flush with its await, connection events, sign-out and closing of the page. The
   abstract queue: actions leave in order, once each, and none leaves unsent.
2. `GlassFrame`: the frame that owns the lens, and the press, swipe and double press in each; the camera.
   What was pressed is what was shown.
3. `Radio`: register, roster, send with its awaited setting and its cache.
4. `LensDeck`: the deck cursor against the number of cards.

Proofs: the invariants of the new modules. The two steps of
the ledger's argument that the floor repeats could be shared by stating the ledger's lemmas over its rows alone.
