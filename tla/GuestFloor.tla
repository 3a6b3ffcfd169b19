----------------------------- MODULE GuestFloor -----------------------------
(***************************************************************************)
(* Guests and the associates who serve them: the check-in page of          *)
(* packages/web, the presence, request and engagement handlers of          *)
(* packages/server/src/index.js, the tables behind them (presence.py,      *)
(* requests.py, analytics.py) and what an associate's lens offers          *)
(* (packages/glasses-plugin/src/main.ts).                                  *)
(*                                                                         *)
(* Every call from the realtime server to the AI service is an HTTP        *)
(* request of its own, so calls overtake one another, and a handler that   *)
(* awaits one resumes in whatever the floor has become.  One store, one    *)
(* zone; a socket is one connection of one lens and does not come back.    *)
(***************************************************************************)
EXTENDS Integers, Sequences, FiniteSets

CONSTANTS
  Sock,         \* connections of associates' lenses
  Covering,     \* those of them registered in the zone of the guests
  User,         \* accounts
  UserOf,       \* the account that each lens's e-mail is meant to be of
  Guest,        \* guest_refs
  Anonymous,    \* those of them minted by the page: "anon-..."
  None,
  MaxTaps,      \* bound: check-ins made in a run
  MaxAsks,      \* bound: requests made in a run
  MaxArrivals,  \* bound: guests put in front of an associate in a run
  Faults        \* what may go wrong, out of FaultKinds

FaultKinds ==
  {"drop",      \* a lens's socket closes
   "refused",   \* a call to the AI service fails before it does anything
   "unheard",   \* a call does its work and its answer is lost
   "lapse"}     \* CUE_PRESENCE_TTL_MINUTES pass

ASSUME GuestAssumption ==
  /\ Covering \subseteq Sock /\ Anonymous \subseteq Guest
  /\ UserOf \in [Sock -> User]
  /\ None \notin Sock \cup User \cup Guest \cup Nat \cup [guest: Guest, engagement: Nat \cup {None}]
  /\ Faults \subseteq FaultKinds
  /\ {MaxTaps, MaxAsks, MaxArrivals} \subseteq Nat

VARIABLES
  present,      \* presence_events: the guests with a live check-in
  requests,     \* guest_requests, in the order they were inserted: `by' is
                \* claimed_by; `taker', which is history, is whose claim it was
                \* and None while claimed_at is NULL
  engagements,  \* the engagements table, in the order they were inserted
  sock,         \* whether each connection is yet to come, up or gone
  serving,      \* socket.data.guestId and socket.data.engagementId
  till,         \* state.posSessions: what the till may pull, by socket
  arriving,     \* enterGuest calls in progress, numbered from 1
  wire,         \* calls nobody waits for that have not landed yet
  page,         \* each guest's check-in page
  walked,       \* the sockets a check-in has visited on its way round the floor
  ask,          \* each guest's POST /api/request, while it is in progress
  stop,         \* each guest's POST /api/presence/revoke, likewise
  claims,       \* request:claim handlers in progress
  down,         \* frames on their way to each lens, in order
  lens,         \* what each lens shows: a guest's cue under a request's frame
  taps          \* check-ins made

tables == <<present, requests, engagements>>
visits == <<serving, till, arriving, wire>>
guests == <<page, walked, ask, stop, taps>>
floor == <<sock, claims, down, lens>>
vars == <<tables, visits, guests, floor>>

Request == 1 .. MaxAsks
Engagement == 1 .. MaxArrivals
Warning == "AI service unavailable"

Waiting == {"open", "claimed"}
Waits(r) == requests[r].status \in Waiting
AsksOf(g) == {r \in DOMAIN requests : requests[r].guest = g}

\* What becomes of a call: ingest answers null for the last two.
Fates == {"landed"} \cup (Faults \cap {"refused", "unheard"})
Lands(fate) == fate \in {"landed", "unheard"}
Heard(fate) == fate = "landed"

DisplayFrame(g) == [what |-> "glasses:display", about |-> g, by |-> None]
NewFrame(r) == [what |-> "request:new", about |-> r, by |-> None]
TakenFrame(r, s) == [what |-> "request:taken", about |-> r, by |-> s]
ClearedFrame == [what |-> "request:cleared", about |-> None, by |-> None]

PresenceCall(n, g) == [call |-> "presence", arrival |-> n, guest |-> g]
EndCall(e, outcome) == [call |-> "engagement/end", engagement |-> e, outcome |-> outcome]

BlankLens == [cue |-> None, offer |-> None]
Nobody == [guest |-> None, engagement |-> None]
NoAsk == [at |-> "none", req |-> None]
NoStop == [at |-> "none", before |-> {}, dropped |-> {}]

Up == {s \in Sock : sock[s] = "up"}
\* What pushRequest and /api/presence keep of the roster.
Covered == Up \cap Covering

\* emit: a frame for every socket of set that is still connected.
Emit(set, frame) ==
  down' = [s \in Sock |-> IF s \in set \cap Up THEN Append(down[s], frame) ELSE down[s]]

TypeOK ==
  /\ present \subseteq Guest
  /\ requests \in Seq([guest: Guest, status: Waiting \cup {"cancelled"},
                       by: User \cup {None}, taker: Sock \cup {None}])
  /\ \A r \in DOMAIN requests : requests[r].status = "open" => requests[r].by = None
  /\ engagements \in Seq([sock: Sock, guest: Guest,
                          outcome: {None, "no_sale", "abandoned"}])
  /\ Len(requests) <= MaxAsks /\ Len(engagements) <= MaxArrivals
  /\ sock \in [Sock -> {"coming", "up", "gone"}]
  /\ serving \in [Sock -> [guest: Guest \cup {None},
                            engagement: DOMAIN engagements \cup {None}]]
  /\ till \in [Sock -> [guest: Guest, engagement: Engagement \cup {None}] \cup {None}]
  /\ \A n \in DOMAIN arriving :
       arriving[n] \in [sock: Sock, guest: Guest, walk: BOOLEAN,
                        at: {"context", "opening", "opened", "done"},
                        engagement: Engagement \cup {None}]
  /\ page \in [Guest -> {"away", "checking in", "walking", "ask", "stopped", "error"}]
  /\ walked \in [Guest -> SUBSET Sock]
  /\ ask \in [Guest -> [at: {"none", "checking", "inserting", "inserted"},
                        req: Request \cup {None}]]
  /\ stop \in [Guest -> [at: {"none", "revoking", "cancelling", "cancelled", "failed"},
                         before: SUBSET Request, dropped: SUBSET Request]]
  /\ claims \subseteq [sock: Sock, req: Request, at: {"asked", "won", "refused"}]
  /\ lens \in [Sock -> [cue: Guest \cup {Warning, None}, offer: Request \cup {None}]]
  /\ taps \in 0 .. MaxTaps

Init ==
  /\ present = {} /\ requests = <<>> /\ engagements = <<>>
  /\ sock = [s \in Sock |-> "coming"]
  /\ serving = [s \in Sock |-> Nobody] /\ till = [s \in Sock |-> None]
  /\ arriving = <<>> /\ wire = {}
  /\ page = [g \in Guest |-> "away"] /\ walked = [g \in Guest |-> {}]
  /\ ask = [g \in Guest |-> NoAsk] /\ stop = [g \in Guest |-> NoStop]
  /\ claims = {} /\ down = [s \in Sock |-> <<>>]
  /\ lens = [s \in Sock |-> BlankLens]
  /\ taps = 0

-----------------------------------------------------------------------------
(* The guest's page and the routes behind it *)

\* The effect in CheckIn.jsx: a plate is tapped and POST /api/presence is sent.
TapPlate(g) ==
  /\ taps < MaxTaps
  /\ page[g] \in {"away", "stopped", "error"} /\ ask[g] = NoAsk /\ stop[g] = NoStop
  /\ taps' = taps + 1
  /\ page' = [page EXCEPT ![g] = "checking in"]
  /\ UNCHANGED <<tables, visits, walked, ask, stop, floor>>

\* presence.record: a first check-in is inserted and a repeat of one still
\* live finds it; either way the guest is present.
Recorded(g) == present \cup {g}

CheckInLands(g, fate) ==
  /\ page[g] = "checking in"
  /\ present' = IF Lands(fate) THEN Recorded(g) ELSE present
  /\ page' = [page EXCEPT ![g] = CASE ~Heard(fate) -> "error"
                                   [] g \in Anonymous -> "ask"
                                   [] OTHER -> "walking"]
  /\ walked' = [walked EXCEPT ![g] = {}]
  /\ UNCHANGED <<requests, engagements, visits, ask, stop, taps, floor>>

\* enterGuest up to its first await: the presence call is sent off unawaited.
EnterGuest(s, g, walk) ==
  /\ Len(arriving) < MaxArrivals
  /\ arriving' = Append(arriving, [sock |-> s, guest |-> g, walk |-> walk,
                                   at |-> "context", engagement |-> None])
  /\ wire' = wire \cup {PresenceCall(Len(arriving) + 1, g)}

\* The loop of /api/presence: one associate at a time, over the roster as it
\* is when the one before has been served.
WalkOn(g) ==
  /\ page[g] = "walking"
  /\ ~ \E n \in DOMAIN arriving :
         arriving[n].walk /\ arriving[n].guest = g /\ arriving[n].at # "done"
  /\ \E s \in Covered \ walked[g] :
       /\ EnterGuest(s, g, TRUE)
       /\ walked' = [walked EXCEPT ![g] = @ \cup {s}]
       /\ UNCHANGED page
  /\ UNCHANGED <<tables, serving, till, ask, stop, taps, floor>>

WalkDone(g) ==
  /\ page[g] = "walking"
  /\ Covered \subseteq walked[g]
  /\ \A n \in DOMAIN arriving :
       arriving[n].walk /\ arriving[n].guest = g => arriving[n].at = "done"
  /\ page' = [page EXCEPT ![g] = "ask"] /\ walked' = [walked EXCEPT ![g] = {}]
  /\ UNCHANGED <<tables, visits, ask, stop, taps, floor>>

\* send() on the page; the button is off while one is in progress.
Send(g) ==
  /\ page[g] = "ask" /\ ask[g] = NoAsk
  /\ Len(requests) < MaxAsks
  /\ ask' = [ask EXCEPT ![g].at = "checking"]
  /\ UNCHANGED <<tables, visits, page, walked, stop, taps, floor>>

\* open_request looks for a live check-in first: 409 without one...
AskChecks(g, fate) ==
  /\ ask[g].at = "checking"
  /\ ask' = [ask EXCEPT ![g] = IF Lands(fate) /\ g \in present
                               THEN [at |-> "inserting", req |-> None] ELSE NoAsk]
  /\ UNCHANGED <<tables, visits, page, walked, stop, taps, floor>>

\* ... and inserts the row in a transaction of its own.
AskInserts(g, fate) ==
  /\ ask[g].at = "inserting" /\ Lands(fate)
  /\ Len(requests) < MaxAsks
  /\ requests' = Append(requests, [guest |-> g, status |-> "open", by |-> None, taker |-> None])
  /\ ask' = [ask EXCEPT ![g] = IF Heard(fate)
                               THEN [at |-> "inserted", req |-> Len(requests) + 1]
                               ELSE NoAsk]
  /\ UNCHANGED <<present, engagements, visits, page, walked, stop, taps, floor>>

\* pushRequest and the 201; the page that asked shows "sent", a stage with the
\* same two ways on as the form.
AskPushed(g) ==
  /\ ask[g].at = "inserted"
  /\ Emit(Covered, NewFrame(ask[g].req))
  /\ ask' = [ask EXCEPT ![g] = NoAsk]
  /\ page' = [page EXCEPT ![g] = "ask"]
  /\ UNCHANGED <<tables, visits, walked, stop, taps, sock, claims, lens>>

\* stop() on the page, offered on the form, while it is sending too.
PressStop(g) ==
  /\ page[g] = "ask" /\ stop[g] = NoStop
  /\ stop' = [stop EXCEPT ![g] = [at |-> "revoking", before |-> AsksOf(g), dropped |-> {}]]
  /\ UNCHANGED <<tables, visits, page, walked, ask, taps, floor>>

Revoke(g, fate) ==
  /\ stop[g].at = "revoking"
  /\ present' = IF Lands(fate) THEN present \ {g} ELSE present
  /\ stop' = [stop EXCEPT ![g].at = IF Heard(fate) THEN "cancelling" ELSE "failed"]
  /\ UNCHANGED <<requests, engagements, visits, page, walked, ask, taps, floor>>

CancelsOf_OpenOnly(g) == {r \in AsksOf(g) : requests[r].status = "open"}

\* cancel_for_guest.
CancelsOf(g) == {r \in AsksOf(g) : Waits(r)}

Cancel(g, fate) ==
  /\ stop[g].at = "cancelling"
  /\ requests' = IF Lands(fate)
                 THEN [r \in DOMAIN requests |->
                         IF r \in CancelsOf(g)
                         THEN [requests[r] EXCEPT !.status = "cancelled"] ELSE requests[r]]
                 ELSE requests
  /\ stop' = [stop EXCEPT ![g].at = IF Heard(fate) THEN "cancelled" ELSE "failed",
                          ![g].dropped = CancelsOf(g)]
  /\ UNCHANGED <<present, engagements, visits, page, walked, ask, taps, floor>>

\* The answer.  The page says it has checked the guest out whatever it was.
StopAnswered(g) ==
  /\ \/ stop[g].at = "cancelled" /\ stop[g].dropped # {} /\ Emit(Up, ClearedFrame)
     \/ stop[g].at = "cancelled" /\ stop[g].dropped = {} /\ UNCHANGED down
     \/ stop[g].at = "failed" /\ UNCHANGED down
  /\ stop' = [stop EXCEPT ![g] = NoStop]
  /\ page' = [page EXCEPT ![g] = "stopped"]
  /\ UNCHANGED <<tables, visits, walked, ask, taps, sock, claims, lens>>

\* expires_at passes.
Lapse(g) ==
  /\ "lapse" \in Faults /\ g \in present
  /\ present' = present \ {g}
  /\ UNCHANGED <<requests, engagements, visits, guests, floor>>

-----------------------------------------------------------------------------
(* Engagements *)

\* beacon:guest-enter: a guest picked on the phone page, or one resumed.
Beacon(s, g) ==
  /\ s \in Up /\ g \notin Anonymous
  /\ EnterGuest(s, g, FALSE)
  /\ UNCHANGED <<tables, serving, till, guests, floor>>

\* /api/guest-context answers, or does not and the lens says so.
ContextAnswered(n, fate) ==
  LET s == arriving[n].sock g == arriving[n].guest IN
  /\ arriving[n].at = "context"
  /\ arriving' = [arriving EXCEPT ![n].at = IF Heard(fate) THEN "opening" ELSE "done"]
  /\ IF Heard(fate)
     THEN serving' = [serving EXCEPT ![s].guest = g] /\ UNCHANGED down
     ELSE Emit({s}, DisplayFrame(Warning)) /\ UNCHANGED serving
  /\ UNCHANGED <<tables, till, wire, guests, sock, claims, lens>>

AnswerOf_AnyFate(fate, id) == id

\* What a caller of ingest is left with: the answer, or null.
AnswerOf(fate, id) == IF Heard(fate) THEN id ELSE None

\* start_engagement.
EngagementStarts(n, fate) ==
  LET a == arriving[n] IN
  /\ a.at = "opening"
  /\ engagements' = IF Lands(fate)
                    THEN Append(engagements, [sock |-> a.sock, guest |-> a.guest,
                                              outcome |-> None])
                    ELSE engagements
  /\ arriving' = [arriving EXCEPT ![n].at = "opened",
                    ![n].engagement = AnswerOf(fate, Len(engagements) + 1)]
  /\ UNCHANGED <<present, requests, serving, till, wire, guests, floor>>

\* enterGuest after its last await.
Engage(n) ==
  LET s == arriving[n].sock g == arriving[n].guest e == arriving[n].engagement IN
  /\ arriving[n].at = "opened"
  /\ serving' = [serving EXCEPT ![s].engagement = e]
  /\ till' = [till EXCEPT ![s] = [guest |-> g, engagement |-> e]]
  /\ Emit({s}, DisplayFrame(g))
  /\ arriving' = [arriving EXCEPT ![n].at = "done", ![n].engagement = None]
  /\ UNCHANGED <<tables, wire, guests, sock, claims, lens>>

Released_Kept(s) == serving[s]

\* What is left on the socket by session:end and disconnect.
Released(s) == Nobody

\* What both handlers do to the socket's engagement.
CloseEngagement(s, outcome) ==
  /\ wire' = wire \cup (IF serving[s].engagement = None THEN {}
                        ELSE {EndCall(serving[s].engagement, outcome)})
  /\ serving' = [serving EXCEPT ![s] = Released(s)]
  /\ till' = [till EXCEPT ![s] = None]

\* A press on the cue: session:end, and the lens goes idle.
PressCue(s) ==
  /\ s \in Up /\ lens[s].offer = None /\ lens[s].cue # None
  /\ CloseEngagement(s, "no_sale")
  /\ lens' = [lens EXCEPT ![s] = BlankLens]
  /\ UNCHANGED <<tables, arriving, guests, sock, claims, down>>

Drop(s) ==
  /\ "drop" \in Faults /\ s \in Up
  /\ sock' = [sock EXCEPT ![s] = "gone"]
  /\ CloseEngagement(s, "abandoned")
  /\ down' = [down EXCEPT ![s] = <<>>]
  /\ lens' = [lens EXCEPT ![s] = BlankLens]
  /\ UNCHANGED <<tables, arriving, guests, claims>>

\* end_engagement: a row that has ended stays as it ended.
Ended(e, outcome) ==
  [engagements EXCEPT ![e].outcome = IF @ = None THEN outcome ELSE @]

\* A call nobody waits for lands, or is lost.
WireLands(call, fate) ==
  /\ wire' = wire \ {call}
  /\ present' = IF Lands(fate) /\ call.call = "presence" THEN Recorded(call.guest) ELSE present
  /\ engagements' = IF Lands(fate) /\ call.call = "engagement/end"
                    THEN Ended(call.engagement, call.outcome) ELSE engagements
  /\ UNCHANGED <<requests, serving, till, arriving, guests, floor>>

-----------------------------------------------------------------------------
(* Requests on the glass *)

\* register.
Register(s) ==
  /\ sock[s] = "coming"
  /\ sock' = [sock EXCEPT ![s] = "up"]
  /\ UNCHANGED <<tables, visits, guests, claims, down, lens>>

\* A press on an offered request: the frame goes on the assumption it worked.
PressOffer(s) ==
  LET r == lens[s].offer IN
  /\ s \in Up /\ r # None
  /\ claims' = claims \cup {[sock |-> s, req |-> r, at |-> "asked"]}
  /\ lens' = [lens EXCEPT ![s].offer = None]
  /\ UNCHANGED <<tables, visits, guests, sock, down>>

Claimable_Waiting(r) == Waits(r)

\* claim's WHERE: first one wins.
Claimable(r) == requests[r].status = "open"

\* The route looks the socket's e-mail up among the accounts.  There may be
\* none, or no e-mail: the claim is made all the same, by nobody.
LookedUp(s) == {UserOf[s], None}

Claimed_ByOnly(row, s, user) == [row EXCEPT !.by = user, !.taker = s]

\* claim's SET.
Claimed(row, s, user) == [row EXCEPT !.status = "claimed", !.by = user, !.taker = s]

ClaimLands(c, fate) ==
  LET wins == Lands(fate) /\ Claimable(c.req) IN
  /\ c \in claims /\ c.at = "asked"
  /\ \E user \in LookedUp(c.sock) :
       requests' = IF wins THEN [requests EXCEPT ![c.req] = Claimed(@, c.sock, user)]
                   ELSE requests
  /\ claims' = (claims \ {c}) \cup
                 {[c EXCEPT !.at = IF wins /\ Heard(fate) THEN "won" ELSE "refused"]}
  /\ UNCHANGED <<present, engagements, visits, guests, sock, down, lens>>

ToldOfTheClaim_ClaimerOnly(c) == {c.sock}

\* A claim that stood is told to the room, one that did not to its maker.
ToldOfTheClaim(c) == IF c.at = "won" THEN Up ELSE {c.sock}

ClaimAnswered(c) ==
  /\ c \in claims /\ c.at # "asked"
  /\ Emit(ToldOfTheClaim(c), TakenFrame(c.req, IF c.at = "won" THEN c.sock ELSE None))
  /\ claims' = claims \ {c}
  /\ UNCHANGED <<tables, visits, guests, sock, lens>>

\* The lens's handlers.  request:taken is about the request on the frame or
\* about nothing, request:cleared takes down whichever is there.
Hear(s) ==
  LET frame == Head(down[s])
      leaves == frame.what = "request:taken" /\ lens[s].offer = frame.about IN
  /\ down[s] # <<>>
  /\ down' = [down EXCEPT ![s] = Tail(@)]
  /\ lens' = [lens EXCEPT
       ![s].cue = IF frame.what = "glasses:display" THEN frame.about ELSE @,
       ![s].offer = CASE frame.what = "request:new" -> frame.about
                      [] leaves \/ frame.what = "request:cleared" -> None
                      [] OTHER -> @]
  /\ UNCHANGED <<tables, visits, guests, sock, claims>>

-----------------------------------------------------------------------------
GuestStep(g) ==
  \/ TapPlate(g) \/ WalkOn(g) \/ WalkDone(g) \/ Send(g) \/ AskPushed(g)
  \/ PressStop(g) \/ StopAnswered(g) \/ Lapse(g)
  \/ \E fate \in Fates : \/ CheckInLands(g, fate) \/ AskChecks(g, fate)
                         \/ AskInserts(g, fate) \/ Revoke(g, fate) \/ Cancel(g, fate)

ArrivalStep(n) ==
  \/ Engage(n)
  \/ \E fate \in Fates : ContextAnswered(n, fate) \/ EngagementStarts(n, fate)

LensStep(s) ==
  \/ Register(s) \/ Drop(s) \/ PressCue(s) \/ PressOffer(s) \/ Hear(s)
  \/ \E g \in Guest : Beacon(s, g)

ClaimStep(c) == ClaimAnswered(c) \/ \E fate \in Fates : ClaimLands(c, fate)

WireStep == \E call \in wire, fate \in Fates : WireLands(call, fate)

Next ==
  \/ \E g \in Guest : GuestStep(g)
  \/ \E n \in DOMAIN arriving : ArrivalStep(n)
  \/ \E s \in Sock : LensStep(s)
  \/ \E c \in claims : ClaimStep(c)
  \/ WireStep

Spec == Init /\ [][Next]_vars

-----------------------------------------------------------------------------
(* Properties *)

\* e has not ended and is not about to.
Open(e) ==
  /\ engagements[e].outcome = None
  /\ \A call \in wire : call.call = "engagement/end" => call.engagement # e

\* The engagement a socket points at, to which voice questions are attributed,
\* and the one the till would pull are still open: no path leaves a pointer on
\* an engagement that has been ended, or is being (the session:end and
\* disconnect handlers against enterGuest's awaits, index.js).
ServingIsOpen ==
  \A s \in Sock :
    /\ serving[s].engagement # None => Open(serving[s].engagement)
    /\ till[s] # None /\ till[s].engagement # None => Open(till[s].engagement)

\* Whatever a guest asked for before pressing Stop is off the floor once the
\* cancellation is answered, a request being claimed meanwhile included
\* (requests.cancel_for_guest against requests.claim).
StopClosesEarlierAsks ==
  \A g \in Guest : stop[g].at = "cancelled" =>
    \A r \in stop[g].before : ~Waits(r)

\* A lens told that a request is taken is told by whom it was: of two claims at
\* once one stands, and what the table says of it, where it says anybody, is the
\* account of the lens named (requests.claim, request:claim).
TakenNamesTheClaimer ==
  \A s \in Sock : \A i \in DOMAIN down[s] :
    down[s][i].what = "request:taken" /\ down[s][i].by # None =>
      /\ requests[down[s][i].about].taker = down[s][i].by
      /\ requests[down[s][i].about].by \in LookedUp(down[s][i].by)

Quiet(r) ==
  /\ \A c \in claims : c.req # r
  /\ \A s \in Sock : \A i \in DOMAIN down[s] : down[s][i].about # r

\* Once a claim has been answered and its frames have arrived no lens goes on
\* offering the request, whatever it was showing when they did (the broadcast
\* of request:claim, the request:taken handler).  Where answers get lost the
\* room is not told: the runs of this property have no "unheard".
TakenIsNotOffered ==
  \A r \in DOMAIN requests : Quiet(r) /\ requests[r].taker # None =>
    \A s \in Up : lens[s].offer # r
=============================================================================
