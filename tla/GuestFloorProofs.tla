-------------------------- MODULE GuestFloorProofs --------------------------
(***************************************************************************)
(* What GuestFloor promises of engagements and of requests, proved for     *)
(* every number of lenses, guests, visits and requests.                    *)
(***************************************************************************)
EXTENDS GuestFloor, SequenceTheorems, FiniteSetTheorems, TLAPS

-----------------------------------------------------------------------------
(* The engagements: what is held, and where. *)

EngagementRow == [sock: Sock, guest: Guest, outcome: {None, "no_sale", "abandoned"}]
Arrival == [sock: Sock, guest: Guest, walk: BOOLEAN,
            at: {"context", "opening", "opened", "done"}, engagement: Nat \cup {None}]
PresenceCalls == [call: {"presence"}, arrival: Nat, guest: Guest]
EndCalls == [call: {"engagement/end"}, engagement: Nat, outcome: {"no_sale", "abandoned"}]
Started(e) == e \in 1 .. Len(engagements)

VisitsTyped ==
  /\ engagements \in Seq(EngagementRow)
  /\ serving \in [Sock -> [guest: Guest \cup {None}, engagement: Nat \cup {None}]]
  /\ till \in [Sock -> [guest: Guest, engagement: Nat \cup {None}] \cup {None}]
  /\ arriving \in Seq(Arrival)
  /\ wire \subseteq PresenceCalls \cup EndCalls
  /\ \A call \in wire : call \in EndCalls => Started(call.engagement)

\* The till record of a socket and the socket itself speak of one engagement.
TillFollows ==
  \A s \in Sock :
    serving[s].engagement = IF till[s] = None THEN None ELSE till[s].engagement

\* A visit carries its engagement from the answer to enterGuest's last lines.
CarriedIsOpen ==
  \A n \in 1 .. Len(arriving) : arriving[n].engagement # None =>
    /\ arriving[n].at = "opened"
    /\ Started(arriving[n].engagement) /\ Open(arriving[n].engagement)
PointedIsOpen ==
  \A s \in Sock : serving[s].engagement # None =>
    Started(serving[s].engagement) /\ Open(serving[s].engagement)

\* Each engagement is in one pair of hands, so that to end what one socket
\* points at ends nothing of another's.
HeldOnce ==
  /\ \A n, m \in 1 .. Len(arriving) :
       arriving[n].engagement # None /\ arriving[n].engagement = arriving[m].engagement => n = m
  /\ \A s, q \in Sock :
       serving[s].engagement # None /\ serving[s].engagement = serving[q].engagement => s = q
  /\ \A n \in 1 .. Len(arriving), s \in Sock :
       arriving[n].engagement # None => arriving[n].engagement # serving[s].engagement

VisitInv == VisitsTyped /\ TillFollows /\ CarriedIsOpen /\ PointedIsOpen /\ HeldOnce

visitvars == <<engagements, serving, till, arriving, wire>>

\* Nothing of a visit moves.
LEMMA VisitsStay == ASSUME VisitInv, UNCHANGED visitvars PROVE VisitInv'
BY DEF VisitInv, visitvars, VisitsTyped, TillFollows, CarriedIsOpen, PointedIsOpen, HeldOnce,
       Started, Open

\* enterGuest begins with nothing in hand.
LEMMA EnterKeeps ==
  ASSUME VisitInv, NEW s \in Sock, NEW g \in Guest, NEW walk \in BOOLEAN, EnterGuest(s, g, walk),
         UNCHANGED <<engagements, serving, till>>
  PROVE  VisitInv'
<1> DEFINE a == [sock |-> s, guest |-> g, walk |-> walk, at |-> "context", engagement |-> None]
<1>1. arriving \in Seq(Arrival) /\ a \in Arrival /\ a.engagement = None /\ Len(arriving) \in Nat
  BY LenProperties DEF VisitInv, VisitsTyped, Arrival
<1>2. arriving' = Append(arriving, a) /\ wire' = wire \cup {PresenceCall(Len(arriving) + 1, g)}
  BY DEF EnterGuest
<1> HIDE DEF a
<1>3. /\ arriving' \in Seq(Arrival) /\ Len(arriving') = Len(arriving) + 1
      /\ \A n \in 1 .. Len(arriving) : arriving'[n] = arriving[n]
      /\ arriving'[Len(arriving) + 1] = a
  BY <1>1, <1>2, AppendProperties
<1>4. \A n \in 1 .. Len(arriving') :
        arriving'[n].engagement # None => n \in 1 .. Len(arriving) /\ arriving'[n] = arriving[n]
  BY <1>1, <1>3
<1>5. PresenceCall(Len(arriving) + 1, g) \in PresenceCalls /\ PresenceCalls \cap EndCalls = {}
  BY <1>1 DEF PresenceCall, PresenceCalls, EndCalls
<1>6. \A call \in wire' : call.call = "engagement/end" => call \in wire
  BY <1>2 DEF PresenceCall
<1>7. VisitsTyped'
  BY <1>2, <1>3, <1>5 DEF VisitInv, VisitsTyped, Started
<1>8. TillFollows'
  BY DEF VisitInv, TillFollows
<1>9. CarriedIsOpen' /\ PointedIsOpen'
  BY <1>4, <1>6 DEF VisitInv, CarriedIsOpen, PointedIsOpen, Started, Open
<1>10. HeldOnce'
  BY <1>4 DEF VisitInv, HeldOnce
<1> QED
  BY <1>7, <1>8, <1>9, <1>10 DEF VisitInv

\* One visit moves on: what becomes of the list.
LEMMA OneArrives ==
  ASSUME VisitInv, NEW n \in 1 .. Len(arriving), NEW a \in Arrival,
         arriving' = [arriving EXCEPT ![n] = a]
  PROVE  /\ arriving' \in Seq(Arrival) /\ Len(arriving') = Len(arriving)
         /\ arriving'[n] = a
         /\ \A m \in 1 .. Len(arriving) : m # n => arriving'[m] = arriving[m]
BY ExceptSeq DEF VisitInv, VisitsTyped

\* The record of a visit.
LEMMA ArrivalType ==
  ASSUME VisitInv, NEW n \in DOMAIN arriving
  PROVE  n \in 1 .. Len(arriving) /\ arriving[n] \in Arrival
BY ElementOfSeq, LenProperties DEF VisitInv, VisitsTyped

\* The context comes, or does not.
LEMMA ContextKeeps ==
  ASSUME VisitInv, NEW n \in DOMAIN arriving, NEW fate, ContextAnswered(n, fate)
  PROVE  VisitInv'
<1> DEFINE a == [arriving[n] EXCEPT !.at = IF Heard(fate) THEN "opening" ELSE "done"]
           s == arriving[n].sock
           g == arriving[n].guest
<1>1. n \in 1 .. Len(arriving) /\ arriving[n] \in Arrival
  BY ArrivalType
<1>2. a \in Arrival /\ a.engagement = arriving[n].engagement /\ arriving[n].engagement = None
      /\ s \in Sock /\ g \in Guest
  <2>1. arriving[n].engagement = None
    BY <1>1 DEF VisitInv, CarriedIsOpen, ContextAnswered
  <2> QED
    BY <1>1, <2>1 DEF Arrival
<1>3. /\ arriving' = [arriving EXCEPT ![n] = a] /\ UNCHANGED <<engagements, till, wire>>
      /\ serving' = [serving EXCEPT ![s].guest = g] \/ serving' = serving
  BY DEF ContextAnswered, tables
<1> HIDE DEF a
<1>4. /\ arriving' \in Seq(Arrival) /\ Len(arriving') = Len(arriving)
      /\ \A m \in 1 .. Len(arriving) : arriving'[m].engagement = arriving[m].engagement
      /\ \A m \in 1 .. Len(arriving) : arriving[m].engagement # None => arriving'[m] = arriving[m]
  BY <1>1, <1>2, <1>3, OneArrives
<1>5. /\ serving' \in [Sock -> [guest: Guest \cup {None}, engagement: Nat \cup {None}]]
      /\ \A q \in Sock : serving'[q].engagement = serving[q].engagement
  <2> DEFINE row == [serving[s] EXCEPT !.guest = g]
  <2>1. serving \in [Sock -> [guest: Guest \cup {None}, engagement: Nat \cup {None}]]
    BY DEF VisitInv, VisitsTyped
  <2>2. /\ row \in [guest: Guest \cup {None}, engagement: Nat \cup {None}]
        /\ row.engagement = serving[s].engagement
    BY <1>2, <2>1
  <2>3. serving' = [serving EXCEPT ![s] = row] \/ serving' = serving
    BY <1>3
  <2> HIDE DEF row
  <2> QED
    BY <1>2, <2>1, <2>2, <2>3
<1>6. VisitsTyped'
  BY <1>3, <1>4, <1>5 DEF VisitInv, VisitsTyped, Started
<1>7. TillFollows'
  BY <1>3, <1>5 DEF VisitInv, TillFollows
<1>8. CarriedIsOpen' /\ PointedIsOpen'
  BY <1>3, <1>4, <1>5 DEF VisitInv, CarriedIsOpen, PointedIsOpen, Started, Open
<1>9. HeldOnce'
  BY <1>4, <1>5 DEF VisitInv, HeldOnce
<1> QED
  BY <1>6, <1>7, <1>8, <1>9 DEF VisitInv

\* An engagement starts: its number is new, and the visit carries it or nothing.
LEMMA StartsKeeps ==
  ASSUME VisitInv, NEW n \in DOMAIN arriving, NEW fate, EngagementStarts(n, fate)
  PROVE  VisitInv'
<1> DEFINE new == Len(engagements) + 1
           got == AnswerOf(fate, new)
           a == [arriving[n] EXCEPT !.at = "opened", !.engagement = got]
           row == [sock |-> arriving[n].sock, guest |-> arriving[n].guest, outcome |-> None]
<1>1. n \in 1 .. Len(arriving) /\ arriving[n] \in Arrival /\ arriving[n].at = "opening"
  BY ArrivalType DEF EngagementStarts
<1>2. /\ engagements \in Seq(EngagementRow) /\ Len(engagements) \in Nat
      /\ new \in Nat /\ new # None /\ got \in {new, None} /\ (got # None => Lands(fate))
  BY LenProperties, GuestAssumption
     DEF VisitInv, VisitsTyped, AnswerOf, Lands, Heard
<1>3. a \in Arrival /\ a.at = "opened" /\ a.engagement = got
  BY <1>1, <1>2 DEF Arrival
<1>4. row \in EngagementRow /\ row.outcome = None
  BY <1>1 DEF Arrival, EngagementRow
<1>5. /\ arriving' = [arriving EXCEPT ![n] = a] /\ UNCHANGED <<serving, till, wire>>
      /\ engagements' = IF Lands(fate) THEN Append(engagements, row) ELSE engagements
  BY DEF EngagementStarts
<1> HIDE DEF a, row, got
<1>6. /\ arriving' \in Seq(Arrival) /\ Len(arriving') = Len(arriving) /\ arriving'[n] = a
      /\ \A m \in 1 .. Len(arriving) : m # n => arriving'[m] = arriving[m]
  BY <1>1, <1>3, <1>5, OneArrives
<1>7. /\ engagements' \in Seq(EngagementRow)
      /\ \A e \in 1 .. Len(engagements) : e \in 1 .. Len(engagements') /\ engagements'[e] = engagements[e]
      /\ got # None => new \in 1 .. Len(engagements') /\ engagements'[new] = row
  <2>1. CASE Lands(fate)
    BY <1>2, <1>4, <1>5, <2>1, AppendProperties
  <2>2. CASE ~Lands(fate)
    BY <1>2, <1>5, <2>2
  <2> QED
    BY <2>1, <2>2
<1>8. new \notin 1 .. Len(engagements)
  BY <1>2
<1>9. VisitsTyped'
  BY <1>5, <1>6, <1>7 DEF VisitInv, VisitsTyped, Started
<1>10. TillFollows'
  BY <1>5 DEF VisitInv, TillFollows
<1>11. PointedIsOpen'
  BY <1>5, <1>7 DEF VisitInv, PointedIsOpen, Started, Open
<1>12. \A call \in wire : call.call = "engagement/end" => call.engagement # new
  BY <1>8 DEF VisitInv, VisitsTyped, Started, EndCalls, PresenceCalls
<1>13. CarriedIsOpen'
  <2> SUFFICES ASSUME NEW m \in 1 .. Len(arriving), arriving'[m].engagement # None
               PROVE  /\ arriving'[m].at = "opened"
                      /\ arriving'[m].engagement \in 1 .. Len(engagements')
                      /\ engagements'[arriving'[m].engagement].outcome = None
                      /\ \A call \in wire : call.call = "engagement/end" =>
                           call.engagement # arriving'[m].engagement
    BY <1>5, <1>6 DEF CarriedIsOpen, Started, Open
  <2>1. CASE m = n
    BY <1>2, <1>3, <1>4, <1>6, <1>7, <1>12, <2>1
  <2>2. CASE m # n
    BY <1>6, <1>7, <2>2 DEF VisitInv, CarriedIsOpen, Started, Open
  <2> QED
    BY <2>1, <2>2
<1>14. HeldOnce'
  <2>1. \A m \in 1 .. Len(arriving) : arriving[m].engagement # new
    BY <1>2, <1>8 DEF VisitInv, CarriedIsOpen, Started
  <2>2. \A s \in Sock : serving[s].engagement # new
    BY <1>2, <1>8 DEF VisitInv, PointedIsOpen, Started
  <2> QED
    BY <1>2, <1>3, <1>5, <1>6, <2>1, <2>2 DEF VisitInv, HeldOnce
<1> QED
  BY <1>9, <1>10, <1>11, <1>13, <1>14 DEF VisitInv

\* The visit hands its engagement to the socket and to the till.
LEMMA EngageKeeps ==
  ASSUME VisitInv, NEW n \in DOMAIN arriving, Engage(n)
  PROVE  VisitInv'
<1> DEFINE s == arriving[n].sock
           g == arriving[n].guest
           e == arriving[n].engagement
           a == [arriving[n] EXCEPT !.at = "done", !.engagement = None]
<1>1. n \in 1 .. Len(arriving) /\ arriving[n] \in Arrival
  BY ArrivalType
<1>2. /\ s \in Sock /\ g \in Guest /\ e \in Nat \cup {None}
      /\ a \in Arrival /\ a.engagement = None
  BY <1>1 DEF Arrival
<1>3. /\ arriving' = [arriving EXCEPT ![n] = a] /\ UNCHANGED <<engagements, wire>>
      /\ serving' = [serving EXCEPT ![s].engagement = e]
      /\ till' = [till EXCEPT ![s] = [guest |-> g, engagement |-> e]]
  BY DEF Engage, tables
<1> HIDE DEF a
<1>4. /\ arriving' \in Seq(Arrival) /\ Len(arriving') = Len(arriving) /\ arriving'[n].engagement = None
      /\ \A m \in 1 .. Len(arriving) : m # n => arriving'[m] = arriving[m]
  BY <1>1, <1>2, <1>3, OneArrives
<1>5. /\ serving' \in [Sock -> [guest: Guest \cup {None}, engagement: Nat \cup {None}]]
      /\ serving'[s].engagement = e
      /\ \A q \in Sock : q # s => serving'[q] = serving[q]
  BY <1>2, <1>3 DEF VisitInv, VisitsTyped
<1>6. /\ [guest |-> g, engagement |-> e] \in [guest: Guest, engagement: Nat \cup {None}]
      /\ till \in [Sock -> [guest: Guest, engagement: Nat \cup {None}] \cup {None}]
  BY <1>2 DEF VisitInv, VisitsTyped
<1>7. /\ till' \in [Sock -> [guest: Guest, engagement: Nat \cup {None}] \cup {None}]
      /\ till'[s] # None /\ till'[s].engagement = e
      /\ \A q \in Sock : q # s => till'[q] = till[q]
  BY <1>2, <1>3, <1>6, GuestAssumption
<1>8. VisitsTyped'
  BY <1>3, <1>4, <1>5, <1>7 DEF VisitInv, VisitsTyped, Started
<1>9. TillFollows'
  BY <1>5, <1>7 DEF VisitInv, TillFollows
<1>10. e # None => Started(e) /\ Open(e)
  BY <1>1 DEF VisitInv, CarriedIsOpen
<1>11. CarriedIsOpen'
  BY <1>3, <1>4 DEF VisitInv, CarriedIsOpen, Started, Open
<1>12. PointedIsOpen'
  BY <1>3, <1>5, <1>10 DEF VisitInv, PointedIsOpen, Started, Open
<1>13. HeldOnce'
  BY <1>1, <1>4, <1>5 DEF VisitInv, HeldOnce
<1> QED
  BY <1>8, <1>9, <1>11, <1>12, <1>13 DEF VisitInv

\* A socket lets go of its engagement, which is to end.
LEMMA CloseKeeps ==
  ASSUME VisitInv, NEW s \in Sock, NEW outcome \in {"no_sale", "abandoned"},
         CloseEngagement(s, outcome), UNCHANGED <<engagements, arriving>>
  PROVE  VisitInv'
<1> DEFINE e == serving[s].engagement
<1>1. /\ wire' = wire \cup (IF e = None THEN {} ELSE {EndCall(e, outcome)})
      /\ serving' = [serving EXCEPT ![s] = Nobody] /\ till' = [till EXCEPT ![s] = None]
  BY DEF CloseEngagement, Released
<1>2. /\ serving \in [Sock -> [guest: Guest \cup {None}, engagement: Nat \cup {None}]]
      /\ till \in [Sock -> [guest: Guest, engagement: Nat \cup {None}] \cup {None}]
      /\ Nobody \in [guest: Guest \cup {None}, engagement: Nat \cup {None}]
      /\ Nobody.engagement = None
  BY DEF VisitInv, VisitsTyped, Nobody
<1>3. /\ serving' \in [Sock -> [guest: Guest \cup {None}, engagement: Nat \cup {None}]]
      /\ till' \in [Sock -> [guest: Guest, engagement: Nat \cup {None}] \cup {None}]
      /\ serving'[s].engagement = None /\ till'[s] = None
      /\ \A q \in Sock : q # s => serving'[q] = serving[q] /\ till'[q] = till[q]
  BY <1>1, <1>2
<1>4. e # None => Started(e) /\ EndCall(e, outcome) \in EndCalls
  BY <1>2 DEF VisitInv, PointedIsOpen, EndCall, EndCalls
<1>5. wire' \subseteq PresenceCalls \cup EndCalls
  BY <1>1, <1>4 DEF VisitInv, VisitsTyped
<1>6. \A call \in wire' : call \in wire \/ (e # None /\ call.engagement = e)
  BY <1>1 DEF EndCall
<1>7. VisitsTyped'
  BY <1>3, <1>4, <1>5, <1>6 DEF VisitInv, VisitsTyped, Started
<1>8. TillFollows'
  BY <1>3 DEF VisitInv, TillFollows
<1>9. CarriedIsOpen'
  BY <1>6 DEF VisitInv, CarriedIsOpen, HeldOnce, Started, Open
<1>10. PointedIsOpen'
  BY <1>3, <1>6 DEF VisitInv, PointedIsOpen, HeldOnce, Started, Open
<1>11. HeldOnce'
  BY <1>3 DEF VisitInv, HeldOnce
<1> QED
  BY <1>7, <1>8, <1>9, <1>10, <1>11 DEF VisitInv

\* A call lands: it ends an engagement that nobody holds any more.
LEMMA WireKeeps ==
  ASSUME VisitInv, NEW call \in wire, NEW fate, WireLands(call, fate)
  PROVE  VisitInv'
<1> DEFINE e == call.engagement
<1>1. /\ wire' = wire \ {call} /\ UNCHANGED <<serving, till, arriving>>
      /\ engagements' = IF Lands(fate) /\ call.call = "engagement/end"
                        THEN Ended(e, call.outcome) ELSE engagements
  BY DEF WireLands
<1>2. engagements \in Seq(EngagementRow)
  BY DEF VisitInv, VisitsTyped
<1>3. CASE engagements' = engagements
  BY <1>1, <1>3 DEF VisitInv, VisitsTyped, TillFollows, CarriedIsOpen, PointedIsOpen, HeldOnce,
                    Started, Open
<1>4. CASE call.call = "engagement/end" /\ engagements' = Ended(e, call.outcome)
  <2> DEFINE row == [engagements[e] EXCEPT !.outcome = IF @ = None THEN call.outcome ELSE @]
  <2>1. call \in EndCalls /\ Started(e) /\ call.outcome \in {"no_sale", "abandoned"}
    BY <1>4 DEF VisitInv, VisitsTyped, PresenceCalls, EndCalls
  <2>2. row \in EngagementRow /\ engagements' = [engagements EXCEPT ![e] = row]
    <3>1. engagements[e] \in EngagementRow
      BY <1>2, <2>1, ElementOfSeq DEF Started
    <3>2. row \in EngagementRow
      BY <2>1, <3>1 DEF EngagementRow
    <3>3. engagements' = [engagements EXCEPT ![e] = row]
      BY <1>4 DEF Ended
    <3> QED
      BY <3>2, <3>3
  <2> HIDE DEF row
  <2>3. /\ engagements' \in Seq(EngagementRow) /\ Len(engagements') = Len(engagements)
        /\ \A f \in 1 .. Len(engagements) : f # e => engagements'[f] = engagements[f]
    BY <1>2, <2>1, <2>2, ExceptSeq DEF Started
  <2>4. VisitsTyped'
    BY <1>1, <2>3 DEF VisitInv, VisitsTyped, Started
  <2>5. /\ \A n \in 1 .. Len(arriving) : arriving[n].engagement # None => arriving[n].engagement # e
        /\ \A s \in Sock : serving[s].engagement # None => serving[s].engagement # e
    BY <1>4 DEF VisitInv, CarriedIsOpen, PointedIsOpen, Open
  <2>6. CarriedIsOpen' /\ PointedIsOpen'
    BY <1>1, <2>3, <2>5 DEF VisitInv, CarriedIsOpen, PointedIsOpen, Started, Open
  <2>7. TillFollows' /\ HeldOnce'
    BY <1>1 DEF VisitInv, TillFollows, HeldOnce
  <2> QED
    BY <2>4, <2>6, <2>7 DEF VisitInv
<1> QED
  BY <1>1, <1>3, <1>4

\* Nobody is served at first.
LEMMA VisitInit == Init => VisitInv
<1> SUFFICES ASSUME Init PROVE VisitInv
  OBVIOUS
<1>1. /\ engagements = <<>> /\ arriving = <<>> /\ wire = {}
      /\ \A s \in Sock : serving[s] = Nobody /\ till[s] = None
      /\ serving \in [Sock -> {Nobody}] /\ till \in [Sock -> {None}]
  BY DEF Init
<1>2. Nobody \in [guest: Guest \cup {None}, engagement: Nat \cup {None}] /\ Nobody.engagement = None
  BY DEF Nobody
<1>3. VisitsTyped
  BY <1>1, <1>2, EmptySeq DEF VisitsTyped
<1> QED
  BY <1>1, <1>2, <1>3 DEF VisitInv, TillFollows, CarriedIsOpen, PointedIsOpen, HeldOnce

\* Every step keeps what is known of the visits.
LEMMA VisitStep == VisitInv /\ [Next]_vars => VisitInv'
<1> SUFFICES ASSUME VisitInv, [Next]_vars PROVE VisitInv'
  OBVIOUS
<1>1. CASE UNCHANGED vars
  BY <1>1, VisitsStay DEF vars, visitvars, tables, visits
<1>2. ASSUME NEW g \in Guest, GuestStep(g) PROVE VisitInv'
  <2>1. CASE WalkOn(g)
    <3>1. PICK s \in Sock : EnterGuest(s, g, TRUE)
      BY <2>1 DEF WalkOn, Covered, Up
    <3> QED
      BY <2>1, <3>1, EnterKeeps DEF WalkOn, tables
  <2>2. CASE ~WalkOn(g)
    <3>1. UNCHANGED visitvars
      BY <1>2, <2>2 DEF GuestStep, TapPlate, WalkDone, Send, AskPushed, PressStop, StopAnswered, Lapse,
                        CheckInLands, AskChecks, AskInserts, Revoke, Cancel, visitvars, tables, visits
    <3> QED
      BY <3>1, VisitsStay
  <2> QED
    BY <2>1, <2>2
<1>3. ASSUME NEW n \in DOMAIN arriving, ArrivalStep(n) PROVE VisitInv'
  BY <1>3, ContextKeeps, StartsKeeps, EngageKeeps DEF ArrivalStep
<1>4. ASSUME NEW s \in Sock, LensStep(s) PROVE VisitInv'
  <2>1. CASE Drop(s)
    BY <2>1, CloseKeeps DEF Drop, tables
  <2>2. CASE PressCue(s)
    BY <2>2, CloseKeeps DEF PressCue, tables
  <2>3. CASE Register(s) \/ PressOffer(s) \/ Hear(s)
    <3>1. UNCHANGED visitvars
      BY <2>3 DEF Register, PressOffer, Hear, visitvars, tables, visits
    <3> QED
      BY <3>1, VisitsStay
  <2>4. ASSUME NEW g \in Guest, Beacon(s, g) PROVE VisitInv'
    BY <2>4, EnterKeeps DEF Beacon, tables
  <2> QED
    BY <1>4, <2>1, <2>2, <2>3, <2>4 DEF LensStep
<1>5. ASSUME NEW c \in claims, ClaimStep(c) PROVE VisitInv'
  <2>1. UNCHANGED visitvars
    BY <1>5 DEF ClaimStep, ClaimAnswered, ClaimLands, visitvars, tables, visits
  <2> QED
    BY <2>1, VisitsStay
<1>6. CASE WireStep
  BY <1>6, WireKeeps DEF WireStep
<1> QED
  BY <1>1, <1>2, <1>3, <1>4, <1>5, <1>6 DEF Next

\* No path of index.js, the session:end and disconnect handlers against the
\* awaits of enterGuest, leaves a socket or its till record pointing at an
\* engagement that has been ended or is being.
THEOREM PointersAreOpen == Spec => []ServingIsOpen
<1>1. VisitInv => ServingIsOpen
  BY DEF VisitInv, TillFollows, PointedIsOpen, ServingIsOpen
<1> QED
  BY VisitInit, VisitStep, <1>1, PTL DEF Spec

-----------------------------------------------------------------------------
(* The requests: who asked, who has one, who has been told. *)

RequestRow == [guest: Guest, status: Waiting \cup {"cancelled"},
               by: User \cup {None}, taker: Sock \cup {None}]
Frame == [what: {"glasses:display"}, about: Guest \cup {Warning}, by: {None}]
         \cup [what: {"request:new"}, about: Nat, by: {None}]
         \cup [what: {"request:taken"}, about: Nat, by: Sock \cup {None}]
         \cup {ClearedFrame}
AskRecord == [at: {"none", "checking", "inserting", "inserted"}, req: Nat \cup {None}]
StopRecord == [at: {"none", "revoking", "cancelling", "cancelled", "failed"},
               before: SUBSET Nat, dropped: SUBSET Nat]
ClaimRecord == [sock: Sock, req: Nat, at: {"asked", "won", "refused"}]
LensRecord == [cue: Guest \cup {Warning, None}, offer: Nat \cup {None}]

\* Only a claimed request was taken, though a cancelled one may have been; the
\* account it names, if any, is the taker's.
RowsTyped ==
  /\ requests \in Seq(RequestRow)
  /\ \A r \in 1 .. Len(requests) :
       /\ requests[r].status = "open" => requests[r].taker = None
       /\ IF requests[r].taker = None THEN requests[r].by = None
          ELSE requests[r].by \in LookedUp(requests[r].taker)

AsksTyped ==
  /\ ask \in [Guest -> AskRecord]
  /\ \A g \in Guest : ask[g].at = "inserted" => ask[g].req \in 1 .. Len(requests)

\* What a guest pressed Stop on was asked for by them.
StopsTyped ==
  /\ stop \in [Guest -> StopRecord]
  /\ \A g \in Guest : \A r \in stop[g].before :
       r \in 1 .. Len(requests) /\ requests[r].guest = g

\* A claim that won is the one in the table.
ClaimsTyped ==
  /\ claims \subseteq ClaimRecord
  /\ \A c \in claims :
       c.req \in 1 .. Len(requests) /\ (c.at = "won" => requests[c.req].taker = c.sock)

\* What a frame says of a request is what its row in the table says.
Holds(f, rows) ==
  f.what \in {"request:new", "request:taken"} =>
    /\ f.about \in 1 .. Len(rows)
    /\ f.what = "request:taken" /\ f.by # None => rows[f.about].taker = f.by

DownTyped ==
  /\ down \in [Sock -> Seq(Frame)]
  /\ \A s \in Sock : \A i \in 1 .. Len(down[s]) : Holds(down[s][i], requests)

LensesTyped ==
  /\ lens \in [Sock -> LensRecord]
  /\ \A s \in Sock : lens[s].offer # None => lens[s].offer \in 1 .. Len(requests)

SockTyped == sock \in [Sock -> {"coming", "up", "gone"}]

RequestInv ==
  /\ RowsTyped /\ AsksTyped /\ StopsTyped /\ ClaimsTyped /\ DownTyped /\ LensesTyped /\ SockTyped
  /\ StopClosesEarlierAsks

\* What happens to the rows of the table in any step: none goes or changes
\* hands, and none that is done waits again.
Kept(rows, next) ==
  \A r \in 1 .. Len(rows) :
    /\ r \in 1 .. Len(next) /\ next[r].guest = rows[r].guest
    /\ rows[r].status \notin Waiting => next[r].status \notin Waiting
    /\ rows[r].taker # None => next[r].taker = rows[r].taker

\* Frames hold of what the table becomes.
LEMMA HoldsStill ==
  ASSUME NEW rows, NEW next, Kept(rows, next), NEW f, Holds(f, rows)
  PROVE  Holds(f, next)
BY DEF Kept, Holds

\* What the table becomes keeps the rest, where the rest stays.
LEMMA RowsMove ==
  ASSUME RequestInv, RowsTyped', Kept(requests, requests')
  PROVE  /\ ask' = ask => AsksTyped'
         /\ stop' = stop => StopsTyped' /\ StopClosesEarlierAsks'
         /\ claims' = claims => ClaimsTyped'
         /\ down' = down => DownTyped'
         /\ lens' = lens => LensesTyped'
<1>1. ask' = ask => AsksTyped'
  BY DEF RequestInv, Kept, AsksTyped
<1>2. stop' = stop => StopsTyped' /\ StopClosesEarlierAsks'
  BY DEF RequestInv, Kept, StopsTyped, StopClosesEarlierAsks, Waits
<1>3. claims' = claims => ClaimsTyped'
  BY GuestAssumption DEF RequestInv, Kept, ClaimsTyped, ClaimRecord
<1>4. down' = down => DownTyped'
  BY HoldsStill DEF RequestInv, DownTyped
<1>5. lens' = lens => LensesTyped'
  BY DEF RequestInv, Kept, LensesTyped
<1> QED
  BY <1>1, <1>2, <1>3, <1>4, <1>5

\* The table stays.
LEMMA RowsStay == ASSUME RequestInv, requests' = requests
                  PROVE  RowsTyped' /\ Kept(requests, requests')
BY DEF RequestInv, RowsTyped, Kept

\* A frame is sent to some of the lenses.
LEMMA Emitted ==
  ASSUME DownTyped, NEW set, NEW frame \in Frame, Emit(set, frame)
  PROVE  /\ down' \in [Sock -> Seq(Frame)]
         /\ \A s \in Sock : s \notin set \cap Up => down'[s] = down[s]
         /\ \A s \in set \cap Up :
              /\ s \in Sock /\ Len(down[s]) \in Nat /\ Len(down'[s]) = Len(down[s]) + 1
              /\ \A i \in 1 .. Len(down[s]) : down'[s][i] = down[s][i]
              /\ down'[s][Len(down[s]) + 1] = frame
<1>1. \A s \in Sock : down[s] \in Seq(Frame)
  BY DEF DownTyped
<1>2. \A s \in Sock : down'[s] = IF s \in set \cap Up THEN Append(down[s], frame) ELSE down[s]
  BY DEF Emit
<1>3. \A s \in Sock : Append(down[s], frame) \in Seq(Frame)
  BY <1>1, AppendProperties
<1>4. down' \in [Sock -> Seq(Frame)]
  BY <1>1, <1>3 DEF Emit
<1>5. ASSUME NEW s \in set \cap Up
      PROVE  /\ s \in Sock /\ Len(down[s]) \in Nat /\ Len(down'[s]) = Len(down[s]) + 1
             /\ \A i \in 1 .. Len(down[s]) : down'[s][i] = down[s][i]
             /\ down'[s][Len(down[s]) + 1] = frame
  <2>1. s \in Sock
    BY DEF Up
  <2>2. down[s] \in Seq(Frame) /\ down'[s] = Append(down[s], frame)
    BY <1>1, <1>2, <2>1
  <2>3. /\ Len(Append(down[s], frame)) = Len(down[s]) + 1
        /\ \A i \in 1 .. Len(down[s]) : Append(down[s], frame)[i] = down[s][i]
        /\ Append(down[s], frame)[Len(down[s]) + 1] = frame
    BY <2>2, AppendProperties
  <2>4. Len(down[s]) \in Nat
    BY <2>2, LenProperties
  <2> QED
    BY <2>1, <2>2, <2>3, <2>4
<1> QED
  BY <1>2, <1>4, <1>5

\* ... and says what the table says.
LEMMA EmitKeeps ==
  ASSUME RequestInv, NEW set, NEW frame \in Frame, Emit(set, frame), requests' = requests,
         Holds(frame, requests)
  PROVE  DownTyped'
<1>1. DownTyped
  BY DEF RequestInv
<1>2. /\ down' \in [Sock -> Seq(Frame)]
      /\ \A s \in Sock : s \notin set \cap Up => down'[s] = down[s]
      /\ \A s \in set \cap Up :
           /\ s \in Sock /\ Len(down[s]) \in Nat /\ Len(down'[s]) = Len(down[s]) + 1
           /\ \A i \in 1 .. Len(down[s]) : down'[s][i] = down[s][i]
           /\ down'[s][Len(down[s]) + 1] = frame
  BY <1>1, Emitted
<1>3. ASSUME NEW s \in Sock, NEW i \in 1 .. Len(down'[s]) PROVE Holds(down'[s][i], requests)
  <2>1. CASE s \notin set \cap Up
    BY <1>1, <1>2, <2>1 DEF DownTyped
  <2>2. CASE s \in set \cap Up
    <3>1. i \in 1 .. Len(down[s]) \/ i = Len(down[s]) + 1
      BY <1>2, <2>2
    <3> QED
      BY <1>1, <1>2, <2>2, <3>1 DEF DownTyped
  <2> QED
    BY <2>1, <2>2
<1> QED
  BY <1>2, <1>3 DEF DownTyped

\* The frames there are.
LEMMA FramesSent ==
  /\ \A g \in Guest \cup {Warning} :
       DisplayFrame(g) \in Frame /\ \A rows : Holds(DisplayFrame(g), rows)
  /\ ClearedFrame \in Frame /\ \A rows : Holds(ClearedFrame, rows)
  /\ \A r \in Nat : /\ NewFrame(r) \in Frame
                    /\ \A rows : r \in 1 .. Len(rows) => Holds(NewFrame(r), rows)
  /\ \A r \in Nat, s \in Sock \cup {None} :
       /\ TakenFrame(r, s) \in Frame
       /\ \A rows : r \in 1 .. Len(rows) /\ (s # None => rows[r].taker = s) =>
            Holds(TakenFrame(r, s), rows)
BY DEF DisplayFrame, ClearedFrame, NewFrame, TakenFrame, Frame, Holds

-----------------------------------------------------------------------------
(* The three writes of the table. *)

\* A row is inserted.
LEMMA RowInserted ==
  ASSUME RequestInv, NEW g \in Guest,
         requests' = Append(requests, [guest |-> g, status |-> "open", by |-> None, taker |-> None])
  PROVE  /\ RowsTyped' /\ Kept(requests, requests')
         /\ Len(requests) \in Nat /\ Len(requests') = Len(requests) + 1
         /\ requests'[Len(requests) + 1].taker = None
         /\ \A r \in 1 .. Len(requests) : requests'[r] = requests[r]
<1> DEFINE row == [guest |-> g, status |-> "open", by |-> None, taker |-> None]
<1>1. requests \in Seq(RequestRow) /\ Len(requests) \in Nat
  BY LenProperties DEF RequestInv, RowsTyped
<1>2. row \in RequestRow /\ row.status = "open" /\ row.taker = None /\ row.by = None
  BY DEF RequestRow, Waiting
<1> HIDE DEF row
<1>3. /\ requests' \in Seq(RequestRow) /\ Len(requests') = Len(requests) + 1
      /\ \A r \in 1 .. Len(requests) : requests'[r] = requests[r]
      /\ requests'[Len(requests) + 1] = row
  <2>1. requests' = Append(requests, row)
    BY DEF row
  <2> QED
    BY <1>1, <1>2, <2>1, AppendProperties
<1>4. \A r \in 1 .. Len(requests') : r \in 1 .. Len(requests) \/ r = Len(requests) + 1
  BY <1>1, <1>3
<1>5. RowsTyped'
  BY <1>2, <1>3, <1>4 DEF RequestInv, RowsTyped
<1>6. Kept(requests, requests')
  BY <1>1, <1>3 DEF Kept
<1> QED
  BY <1>1, <1>2, <1>3, <1>5, <1>6

\* A guest's requests are withdrawn.
LEMMA RowsCancelled ==
  ASSUME RequestInv, NEW g \in Guest,
         requests' = [r \in DOMAIN requests |->
                        IF r \in CancelsOf(g)
                        THEN [requests[r] EXCEPT !.status = "cancelled"] ELSE requests[r]]
  PROVE  /\ RowsTyped' /\ Kept(requests, requests') /\ Len(requests') = Len(requests)
         /\ \A r \in 1 .. Len(requests) :
              /\ requests'[r].taker = requests[r].taker
              /\ requests[r].guest = g => requests'[r].status \notin Waiting
<1>1. requests \in Seq(RequestRow) /\ Len(requests) \in Nat /\ DOMAIN requests = 1 .. Len(requests)
  BY LenProperties DEF RequestInv, RowsTyped
<1>2. \A r \in 1 .. Len(requests) : requests[r] \in RequestRow
  BY <1>1, ElementOfSeq
<1>3. requests' \in [1 .. Len(requests) -> RequestRow]
  BY <1>1, <1>2 DEF RequestRow
<1>4. requests' \in Seq(RequestRow)
  BY <1>1, <1>3, SeqDef
<1>5. Len(requests') = Len(requests)
  <2>1. DOMAIN requests' = 1 .. Len(requests') /\ Len(requests') \in Nat
    BY <1>4, LenProperties
  <2> QED
    BY <1>1, <1>3, <2>1
<1>6. \A r \in 1 .. Len(requests) :
        /\ requests'[r].guest = requests[r].guest /\ requests'[r].taker = requests[r].taker
        /\ requests'[r].by = requests[r].by
        /\ requests'[r].status = IF requests[r].guest = g /\ requests[r].status \in Waiting
                                 THEN "cancelled" ELSE requests[r].status
  BY <1>1, <1>2 DEF CancelsOf, AsksOf, Waits, RequestRow
<1>7. RowsTyped'
  BY <1>4, <1>5, <1>6 DEF RequestInv, RowsTyped
<1>8. "cancelled" \notin Waiting
  BY DEF Waiting
<1>9. \A r \in 1 .. Len(requests) :
        /\ requests[r].status \notin Waiting => requests'[r].status \notin Waiting
        /\ requests[r].guest = g => requests'[r].status \notin Waiting
  <2> SUFFICES ASSUME NEW r \in 1 .. Len(requests)
               PROVE  /\ requests[r].status \notin Waiting => requests'[r].status \notin Waiting
                      /\ requests[r].guest = g => requests'[r].status \notin Waiting
    OBVIOUS
  <2>1. CASE requests[r].guest = g /\ requests[r].status \in Waiting
    <3>1. requests'[r].status = "cancelled"
      BY <1>6, <2>1
    <3> QED
      BY <1>8, <3>1
  <2>2. CASE ~(requests[r].guest = g /\ requests[r].status \in Waiting)
    <3>1. requests'[r].status = requests[r].status
      BY <1>6, <2>2
    <3> QED
      BY <2>2, <3>1
  <2> QED
    BY <2>1, <2>2
<1>10. Kept(requests, requests')
  BY <1>5, <1>6, <1>9 DEF Kept
<1> QED
  BY <1>5, <1>6, <1>7, <1>9, <1>10

\* A claim is stored.
LEMMA RowClaimed ==
  ASSUME RequestInv, NEW r \in 1 .. Len(requests), NEW s \in Sock, Claimable(r),
         NEW user \in LookedUp(s), requests' = [requests EXCEPT ![r] = Claimed(@, s, user)]
  PROVE  /\ RowsTyped' /\ Kept(requests, requests') /\ Len(requests') = Len(requests)
         /\ requests'[r].taker = s
         /\ \A q \in 1 .. Len(requests) : q # r => requests'[q] = requests[q]
<1> DEFINE row == Claimed(requests[r], s, user)
<1>1. requests \in Seq(RequestRow) /\ requests[r] \in RequestRow
  BY ElementOfSeq DEF RequestInv, RowsTyped
<1>2. /\ row \in RequestRow /\ row.guest = requests[r].guest /\ row.taker = s /\ row.status = "claimed"
      /\ row.by \in LookedUp(s) /\ s # None
  BY <1>1, GuestAssumption DEF RequestRow, Claimed, Waiting, LookedUp
<1>3. requests[r].status = "open" /\ requests[r].taker = None
  BY DEF RequestInv, RowsTyped, Claimable
<1> HIDE DEF row
<1>4. /\ requests' \in Seq(RequestRow) /\ Len(requests') = Len(requests) /\ requests'[r] = row
      /\ \A q \in 1 .. Len(requests) : q # r => requests'[q] = requests[q]
  <2>1. requests' = [requests EXCEPT ![r] = row]
    BY DEF row
  <2> QED
    BY <1>1, <1>2, <2>1, ExceptSeq
<1>5. RowsTyped'
  BY <1>2, <1>4, GuestAssumption DEF RequestInv, RowsTyped
<1>6. Kept(requests, requests')
  BY <1>2, <1>3, <1>4 DEF Kept, Waiting
<1> QED
  BY <1>2, <1>4, <1>5, <1>6

-----------------------------------------------------------------------------
(* What each actor does. *)

\* Where the table stays, so does all that is left alone.
LEMMA TableStays ==
  ASSUME RequestInv, requests' = requests
  PROVE  /\ RowsTyped'
         /\ ask' = ask => AsksTyped'
         /\ stop' = stop => StopsTyped' /\ StopClosesEarlierAsks'
         /\ claims' = claims => ClaimsTyped'
         /\ down' = down => DownTyped'
         /\ lens' = lens => LensesTyped'
         /\ sock' = sock => SockTyped'
<1>1. RowsTyped' /\ Kept(requests, requests')
  BY RowsStay
<1>2. sock' = sock => SockTyped'
  BY DEF RequestInv, SockTyped
<1> QED
  BY <1>1, <1>2, RowsMove

\* A guest's POST /api/request moves on.
LEMMA AskMoves ==
  ASSUME RequestInv, NEW g \in Guest, NEW a \in AskRecord, ask' = [ask EXCEPT ![g] = a],
         a.at = "inserted" => a.req \in 1 .. Len(requests'), Kept(requests, requests')
  PROVE  AsksTyped'
<1>1. ask' \in [Guest -> AskRecord] /\ \A h \in Guest : ask'[h] = IF h = g THEN a ELSE ask[h]
  BY DEF RequestInv, AsksTyped
<1>2. \A h \in Guest : ask[h].at = "inserted" => ask[h].req \in 1 .. Len(requests')
  BY DEF RequestInv, AsksTyped, Kept
<1> QED
  BY <1>1, <1>2 DEF AsksTyped

\* A guest's POST /api/presence/revoke moves on, about what it was about.
LEMMA StopMoves ==
  ASSUME RequestInv, NEW g \in Guest, NEW p \in StopRecord, stop' = [stop EXCEPT ![g] = p],
         \A r \in p.before : /\ r \in 1 .. Len(requests') /\ requests'[r].guest = g
                             /\ p.at = "cancelled" => requests'[r].status \notin Waiting,
         Kept(requests, requests')
  PROVE  StopsTyped' /\ StopClosesEarlierAsks'
<1>1. stop' \in [Guest -> StopRecord] /\ \A h \in Guest : stop'[h] = IF h = g THEN p ELSE stop[h]
  BY DEF RequestInv, StopsTyped
<1>2. \A h \in Guest : \A r \in stop[h].before :
        /\ r \in 1 .. Len(requests') /\ requests'[r].guest = h
        /\ stop[h].at = "cancelled" => requests'[r].status \notin Waiting
  <2> SUFFICES ASSUME NEW h \in Guest, NEW r \in stop[h].before
               PROVE  /\ r \in 1 .. Len(requests') /\ requests'[r].guest = h
                      /\ stop[h].at = "cancelled" => requests'[r].status \notin Waiting
    OBVIOUS
  <2>1. r \in 1 .. Len(requests) /\ requests[r].guest = h
    BY DEF RequestInv, StopsTyped
  <2>2. stop[h].at = "cancelled" => requests[r].status \notin Waiting
    BY DEF RequestInv, StopClosesEarlierAsks, Waits
  <2> QED
    BY <2>1, <2>2 DEF Kept
<1> QED
  BY <1>1, <1>2 DEF StopsTyped, StopClosesEarlierAsks, Waits

\* A POST /api/request inserts its row and pushes it to the floor.
LEMMA AskKeeps ==
  ASSUME RequestInv, NEW g \in Guest,
         \/ Send(g) \/ AskPushed(g)
         \/ \E fate \in Fates : AskChecks(g, fate) \/ AskInserts(g, fate)
  PROVE  RequestInv'
<1>1. ask[g] \in AskRecord /\ NoAsk \in AskRecord /\ NoAsk.at # "inserted"
  BY DEF RequestInv, AsksTyped, AskRecord, NoAsk
<1>2. CASE Send(g)
  <2> DEFINE a == [ask[g] EXCEPT !.at = "checking"]
  <2>1. a \in AskRecord /\ a.at # "inserted"
    BY <1>1 DEF AskRecord
  <2>2. ask' = [ask EXCEPT ![g] = a] /\ UNCHANGED <<requests, stop, claims, down, lens, sock>>
    BY <1>2 DEF Send, tables, floor
  <2> HIDE DEF a
  <2>3. Kept(requests, requests')
    BY <2>2, RowsStay
  <2>4. AsksTyped'
    BY <2>1, <2>2, <2>3, AskMoves
  <2> QED
    BY <2>2, <2>4, TableStays DEF RequestInv
<1>3. ASSUME NEW fate \in Fates, AskChecks(g, fate) PROVE RequestInv'
  <2> DEFINE a == IF Lands(fate) /\ g \in present THEN [at |-> "inserting", req |-> None] ELSE NoAsk
  <2>1. a \in AskRecord /\ a.at # "inserted"
    BY <1>1 DEF AskRecord
  <2>2. ask' = [ask EXCEPT ![g] = a] /\ UNCHANGED <<requests, stop, claims, down, lens, sock>>
    BY <1>3 DEF AskChecks, tables, floor
  <2> HIDE DEF a
  <2>3. Kept(requests, requests')
    BY <2>2, RowsStay
  <2>4. AsksTyped'
    BY <2>1, <2>2, <2>3, AskMoves
  <2> QED
    BY <2>2, <2>4, TableStays DEF RequestInv
<1>4. ASSUME NEW fate \in Fates, AskInserts(g, fate) PROVE RequestInv'
  <2> DEFINE a == IF Heard(fate) THEN [at |-> "inserted", req |-> Len(requests) + 1] ELSE NoAsk
  <2>1. /\ requests' = Append(requests, [guest |-> g, status |-> "open", by |-> None, taker |-> None])
        /\ ask' = [ask EXCEPT ![g] = a] /\ UNCHANGED <<stop, claims, down, lens, sock>>
    BY <1>4 DEF AskInserts, floor
  <2>2. /\ RowsTyped' /\ Kept(requests, requests')
        /\ Len(requests) \in Nat /\ Len(requests') = Len(requests) + 1
    BY <2>1, RowInserted
  <2>3. a \in AskRecord /\ (a.at = "inserted" => a.req \in 1 .. Len(requests'))
    BY <1>1, <2>2 DEF AskRecord
  <2> HIDE DEF a
  <2>4. AsksTyped'
    BY <2>1, <2>2, <2>3, AskMoves
  <2>5. StopsTyped' /\ StopClosesEarlierAsks' /\ ClaimsTyped' /\ DownTyped' /\ LensesTyped'
    BY <2>1, <2>2, RowsMove
  <2>6. SockTyped'
    BY <2>1 DEF RequestInv, SockTyped
  <2> QED
    BY <2>2, <2>4, <2>5, <2>6 DEF RequestInv
<1>5. CASE AskPushed(g)
  <2>1. /\ ask' = [ask EXCEPT ![g] = NoAsk] /\ UNCHANGED <<requests, stop, claims, lens, sock>>
        /\ Emit(Covered, NewFrame(ask[g].req))
    BY <1>5 DEF AskPushed, tables
  <2>2. ask[g].req \in 1 .. Len(requests) /\ ask[g].req \in Nat
    BY <1>5 DEF AskPushed, RequestInv, AsksTyped
  <2>3. NewFrame(ask[g].req) \in Frame /\ Holds(NewFrame(ask[g].req), requests)
    BY <2>2, FramesSent
  <2>4. DownTyped'
    BY <2>1, <2>3, EmitKeeps
  <2>5. Kept(requests, requests')
    BY <2>1, RowsStay
  <2>6. AsksTyped'
    BY <1>1, <2>1, <2>5, AskMoves
  <2> QED
    BY <2>1, <2>4, <2>6, TableStays DEF RequestInv
<1> QED
  BY <1>2, <1>3, <1>4, <1>5

\* A POST /api/presence/revoke withdraws every request of its guest, those
\* being claimed meanwhile included.
LEMMA StopKeeps ==
  ASSUME RequestInv, NEW g \in Guest,
         \/ PressStop(g) \/ StopAnswered(g)
         \/ \E fate \in Fates : Revoke(g, fate) \/ Cancel(g, fate)
  PROVE  RequestInv'
<1>1. /\ stop[g] \in StopRecord /\ NoStop \in StopRecord /\ NoStop.before = {}
      /\ \A r \in stop[g].before : r \in 1 .. Len(requests) /\ requests[r].guest = g
  BY DEF RequestInv, StopsTyped, StopRecord, NoStop
<1>2. requests \in Seq(RequestRow) /\ Len(requests) \in Nat /\ DOMAIN requests = 1 .. Len(requests)
  BY LenProperties DEF RequestInv, RowsTyped
<1>3. CASE PressStop(g)
  <2> DEFINE p == [at |-> "revoking", before |-> AsksOf(g), dropped |-> {}]
  <2>1. /\ stop' = [stop EXCEPT ![g] = p] /\ UNCHANGED <<requests, ask, claims, down, lens, sock>>
    BY <1>3 DEF PressStop, tables, floor
  <2>2. \A r \in AsksOf(g) : r \in 1 .. Len(requests) /\ r \in Nat /\ requests[r].guest = g
    BY <1>2 DEF AsksOf
  <2>3. AsksOf(g) \in SUBSET Nat
    BY <2>2
  <2>4. p \in StopRecord /\ p.at # "cancelled"
    BY <2>3 DEF StopRecord
  <2>5. \A r \in p.before : r \in 1 .. Len(requests) /\ requests[r].guest = g
    BY <2>2
  <2> HIDE DEF p
  <2>6. Kept(requests, requests')
    BY <2>1, RowsStay
  <2>7. StopsTyped' /\ StopClosesEarlierAsks'
    BY <2>1, <2>4, <2>5, <2>6, StopMoves
  <2> QED
    BY <2>1, <2>7, TableStays DEF RequestInv
<1>4. ASSUME NEW fate \in Fates, Revoke(g, fate) PROVE RequestInv'
  <2> DEFINE p == [stop[g] EXCEPT !.at = IF Heard(fate) THEN "cancelling" ELSE "failed"]
  <2>1. /\ stop' = [stop EXCEPT ![g] = p] /\ UNCHANGED <<requests, ask, claims, down, lens, sock>>
    BY <1>4 DEF Revoke, floor
  <2>2. p \in StopRecord /\ p.at # "cancelled" /\ p.before = stop[g].before
    BY <1>1 DEF StopRecord
  <2> HIDE DEF p
  <2>3. Kept(requests, requests')
    BY <2>1, RowsStay
  <2>4. StopsTyped' /\ StopClosesEarlierAsks'
    BY <1>1, <2>1, <2>2, <2>3, StopMoves
  <2> QED
    BY <2>1, <2>4, TableStays DEF RequestInv
<1>5. ASSUME NEW fate \in Fates, Cancel(g, fate) PROVE RequestInv'
  <2> DEFINE p == [stop[g] EXCEPT !.at = IF Heard(fate) THEN "cancelled" ELSE "failed",
                                  !.dropped = CancelsOf(g)]
  <2>1. stop' = [stop EXCEPT ![g] = p] /\ UNCHANGED <<ask, claims, down, lens, sock>>
    BY <1>5 DEF Cancel, floor
  <2>2. CancelsOf(g) \in SUBSET Nat
    BY <1>2 DEF CancelsOf, AsksOf
  <2>3. /\ p \in StopRecord /\ p.before = stop[g].before
        /\ p.at = "cancelled" => Lands(fate)
    BY <1>1, <2>2 DEF StopRecord, Heard, Lands
  <2> HIDE DEF p
  <2>4. /\ RowsTyped' /\ Kept(requests, requests') /\ Len(requests') = Len(requests)
        /\ Lands(fate) => \A r \in 1 .. Len(requests) :
                            requests[r].guest = g => requests'[r].status \notin Waiting
    <3>1. CASE Lands(fate)
      <4>1. requests' = [r \in DOMAIN requests |->
                           IF r \in CancelsOf(g)
                           THEN [requests[r] EXCEPT !.status = "cancelled"] ELSE requests[r]]
        BY <1>5, <3>1 DEF Cancel
      <4> QED
        BY <4>1, RowsCancelled
    <3>2. CASE ~Lands(fate)
      <4>1. requests' = requests
        BY <1>5, <3>2 DEF Cancel
      <4> QED
        BY <3>2, <4>1, RowsStay
    <3> QED
      BY <3>1, <3>2
  <2>5. \A r \in p.before : /\ r \in 1 .. Len(requests') /\ requests'[r].guest = g
                            /\ p.at = "cancelled" => requests'[r].status \notin Waiting
    BY <1>1, <2>3, <2>4 DEF Kept
  <2>6. StopsTyped' /\ StopClosesEarlierAsks'
    BY <2>1, <2>3, <2>4, <2>5, StopMoves
  <2>7. AsksTyped' /\ ClaimsTyped' /\ DownTyped' /\ LensesTyped'
    BY <2>1, <2>4, RowsMove
  <2>8. SockTyped'
    BY <2>1 DEF RequestInv, SockTyped
  <2> QED
    BY <2>4, <2>6, <2>7, <2>8 DEF RequestInv
<1>6. CASE StopAnswered(g)
  <2>1. /\ stop' = [stop EXCEPT ![g] = NoStop] /\ UNCHANGED <<requests, ask, claims, lens, sock>>
        /\ Emit(Up, ClearedFrame) \/ UNCHANGED down
    BY <1>6 DEF StopAnswered, tables
  <2>2. Kept(requests, requests')
    BY <2>1, RowsStay
  <2>3. StopsTyped' /\ StopClosesEarlierAsks'
    BY <1>1, <2>1, <2>2, StopMoves
  <2>4. DownTyped'
    <3>1. ClearedFrame \in Frame /\ Holds(ClearedFrame, requests)
      BY FramesSent
    <3> QED
      BY <2>1, <3>1, EmitKeeps, TableStays
  <2> QED
    BY <2>1, <2>3, <2>4, TableStays DEF RequestInv
<1> QED
  BY <1>3, <1>4, <1>5, <1>6

\* A visit tells its lens about a guest, or that the service did not answer.
LEMMA ArrivalKeeps ==
  ASSUME VisitInv, RequestInv, NEW n \in DOMAIN arriving, ArrivalStep(n) PROVE RequestInv'
<1>1. arriving[n].guest \in Guest
  <2>1. arriving \in Seq(Arrival)
    BY DEF VisitInv, VisitsTyped
  <2>2. arriving[n] \in Arrival
    BY <2>1, ElementOfSeq, LenProperties
  <2> QED
    BY <2>2 DEF Arrival
<1>2. UNCHANGED <<requests, ask, stop, claims, lens, sock>>
  BY DEF ArrivalStep, Engage, ContextAnswered, EngagementStarts, tables, guests, floor
<1>3. UNCHANGED down \/ \E s, g : g \in Guest \cup {Warning} /\ Emit({s}, DisplayFrame(g))
  BY <1>1 DEF ArrivalStep, Engage, ContextAnswered, EngagementStarts, floor
<1>4. DownTyped'
  <2>1. CASE UNCHANGED down
    BY <1>2, <2>1, TableStays
  <2>2. ASSUME NEW s, NEW g \in Guest \cup {Warning}, Emit({s}, DisplayFrame(g)) PROVE DownTyped'
    <3>1. DisplayFrame(g) \in Frame /\ Holds(DisplayFrame(g), requests)
      BY FramesSent
    <3> QED
      BY <1>2, <2>2, <3>1, EmitKeeps
  <2> QED
    BY <1>3, <2>1, <2>2
<1> QED
  BY <1>2, <1>4, TableStays DEF RequestInv

\* A lens hears the first of its frames.
LEMMA HearKeeps == ASSUME RequestInv, NEW s \in Sock, Hear(s) PROVE RequestInv'
<1> DEFINE frame == Head(down[s])
           l == [lens[s] EXCEPT
                   !.cue = IF frame.what = "glasses:display" THEN frame.about ELSE @,
                   !.offer = CASE frame.what = "request:new" -> frame.about
                               [] \/ frame.what = "request:taken" /\ lens[s].offer = frame.about
                                  \/ frame.what = "request:cleared" -> None
                               [] OTHER -> @]
<1>1. /\ down' = [down EXCEPT ![s] = Tail(down[s])] /\ lens' = [lens EXCEPT ![s] = l]
      /\ down[s] # <<>> /\ UNCHANGED <<requests, ask, stop, claims, sock>>
  BY DEF Hear, tables, guests
<1>2. down \in [Sock -> Seq(Frame)] /\ down[s] \in Seq(Frame) /\ lens[s] \in LensRecord
  BY DEF RequestInv, DownTyped, LensesTyped
<1>3. /\ Head(down[s]) \in Frame /\ Head(down[s]) = down[s][1] /\ 1 \in 1 .. Len(down[s])
      /\ Tail(down[s]) \in Seq(Frame) /\ Len(Tail(down[s])) = Len(down[s]) - 1
      /\ \A i \in 1 .. Len(Tail(down[s])) : Tail(down[s])[i] = down[s][i+1] /\ i+1 \in 1 .. Len(down[s])
  BY <1>1, <1>2, HeadTailProperties, LenProperties, EmptySeq
<1>4. DownTyped'
  <2>1. down' \in [Sock -> Seq(Frame)]
    BY <1>1, <1>2, <1>3
  <2>2. ASSUME NEW q \in Sock, NEW i \in 1 .. Len(down'[q]) PROVE Holds(down'[q][i], requests)
    BY <1>1, <1>2, <1>3 DEF RequestInv, DownTyped
  <2> QED
    BY <1>1, <2>1, <2>2 DEF DownTyped
<1>5. frame.what = "request:new" => frame.about \in 1 .. Len(requests)
  BY <1>3 DEF RequestInv, DownTyped, Holds
<1>6. frame.what = "glasses:display" => frame.about \in Guest \cup {Warning}
  BY <1>3 DEF Frame, ClearedFrame
<1>7. l \in LensRecord /\ (l.offer # None => l.offer \in 1 .. Len(requests))
  <2>1. lens[s].offer # None => lens[s].offer \in 1 .. Len(requests)
    BY DEF RequestInv, LensesTyped
  <2>2. l.offer \in {frame.about, None, lens[s].offer}
        /\ (l.offer = None \/ l.offer = lens[s].offer \/ (l.offer = frame.about /\ frame.what = "request:new"))
    BY <1>2 DEF LensRecord
  <2>3. l.offer # None => l.offer \in 1 .. Len(requests)
    BY <1>5, <2>1, <2>2
  <2> DEFINE z == IF frame.what = "glasses:display" THEN frame.about ELSE lens[s].cue
             u == CASE frame.what = "request:new" -> frame.about
                    [] \/ frame.what = "request:taken" /\ lens[s].offer = frame.about
                       \/ frame.what = "request:cleared" -> None
                    [] OTHER -> lens[s].offer
  <2>4. l = [lens[s] EXCEPT !.cue = z, !.offer = u]
    OBVIOUS
  <2>5. l.offer = u
    BY <1>2 DEF LensRecord
  <2>6. z \in Guest \cup {Warning, None}
    BY <1>2, <1>6 DEF LensRecord
  <2> HIDE DEF l, z, u
  <2>7. u \in Nat \cup {None}
    BY <2>3, <2>5
  <2>8. l \in LensRecord
    BY <1>2, <2>4, <2>6, <2>7 DEF LensRecord
  <2> QED
    BY <2>3, <2>8
<1> HIDE DEF l
<1>8. LensesTyped'
  BY <1>1, <1>7 DEF RequestInv, LensesTyped
<1> QED
  BY <1>1, <1>4, <1>8, TableStays DEF RequestInv

\* A lens connects, goes, is pressed or hears something.
LEMMA LensKeeps == ASSUME RequestInv, NEW s \in Sock, LensStep(s) PROVE RequestInv'
<1>1. /\ down \in [Sock -> Seq(Frame)] /\ lens \in [Sock -> LensRecord] /\ lens[s] \in LensRecord
      /\ \A q \in Sock : lens[q].offer # None => lens[q].offer \in 1 .. Len(requests)
      /\ BlankLens \in LensRecord /\ BlankLens.offer = None
  BY DEF RequestInv, DownTyped, LensesTyped, LensRecord, BlankLens
<1>2. CASE Register(s)
  <2>1. UNCHANGED <<requests, ask, stop, claims, down, lens>> /\ SockTyped'
    BY <1>2 DEF Register, tables, guests, RequestInv, SockTyped
  <2> QED
    BY <2>1, TableStays DEF RequestInv
<1>3. CASE Drop(s)
  <2>1. /\ UNCHANGED <<requests, ask, stop, claims>> /\ down' = [down EXCEPT ![s] = <<>>]
        /\ lens' = [lens EXCEPT ![s] = BlankLens]
    BY <1>3 DEF Drop, tables, guests
  <2>2. SockTyped'
    BY <1>3 DEF Drop, RequestInv, SockTyped
  <2>3. LensesTyped'
    BY <1>1, <2>1 DEF LensesTyped
  <2>4. <<>> \in Seq(Frame) /\ Len(<<>>) = 0
    BY EmptySeq
  <2>5. /\ down' \in [Sock -> Seq(Frame)]
        /\ \A q \in Sock : \A i \in 1 .. Len(down'[q]) : Holds(down'[q][i], requests)
    BY <1>1, <2>1, <2>4 DEF RequestInv, DownTyped
  <2>6. DownTyped'
    BY <2>1, <2>5 DEF DownTyped
  <2> QED
    BY <2>1, <2>2, <2>3, <2>6, TableStays DEF RequestInv
<1>4. CASE PressCue(s)
  <2>1. /\ UNCHANGED <<requests, ask, stop, claims, down, sock>>
        /\ lens' = [lens EXCEPT ![s] = BlankLens]
    BY <1>4 DEF PressCue, tables, guests
  <2>2. LensesTyped'
    BY <1>1, <2>1 DEF LensesTyped
  <2> QED
    BY <2>1, <2>2, TableStays DEF RequestInv
<1>5. CASE PressOffer(s)
  <2> DEFINE c == [sock |-> s, req |-> lens[s].offer, at |-> "asked"]
             l == [lens[s] EXCEPT !.offer = None]
  <2>1. /\ UNCHANGED <<requests, ask, stop, down, sock>> /\ claims' = claims \cup {c}
        /\ lens' = [lens EXCEPT ![s] = l] /\ lens[s].offer # None
    BY <1>5 DEF PressOffer, tables, guests
  <2>2. c \in ClaimRecord /\ c.req \in 1 .. Len(requests) /\ c.at # "won"
    BY <1>1, <2>1 DEF ClaimRecord
  <2>3. l \in LensRecord /\ l.offer = None
    BY <1>1 DEF LensRecord
  <2> HIDE DEF c, l
  <2>4. ClaimsTyped'
    BY <2>1, <2>2 DEF RequestInv, ClaimsTyped
  <2>5. LensesTyped'
    BY <1>1, <2>1, <2>3 DEF LensesTyped
  <2> QED
    BY <2>1, <2>4, <2>5, TableStays DEF RequestInv
<1>6. ASSUME NEW g \in Guest, Beacon(s, g) PROVE RequestInv'
  <2>1. UNCHANGED <<requests, ask, stop, claims, down, lens, sock>>
    BY <1>6 DEF Beacon, tables, guests, floor
  <2> QED
    BY <2>1, TableStays DEF RequestInv
<1> QED
  BY <1>2, <1>3, <1>4, <1>5, <1>6, HearKeeps DEF LensStep

\* Of two claims at once one is stored, and whoever is told is told of that one.
LEMMA ClaimKeeps == ASSUME RequestInv, NEW c \in claims, ClaimStep(c) PROVE RequestInv'
<1>1. /\ c \in ClaimRecord /\ c.req \in 1 .. Len(requests) /\ c.req \in Nat /\ c.sock \in Sock
      /\ c.at = "won" => requests[c.req].taker = c.sock
  BY DEF RequestInv, ClaimsTyped, ClaimRecord
<1>2. CASE ClaimAnswered(c)
  <2> DEFINE by == IF c.at = "won" THEN c.sock ELSE None
  <2>1. /\ UNCHANGED <<requests, ask, stop, lens, sock>> /\ claims' = claims \ {c}
        /\ Emit(ToldOfTheClaim(c), TakenFrame(c.req, by))
    BY <1>2 DEF ClaimAnswered, tables, guests
  <2>2. by \in Sock \cup {None} /\ (by # None => requests[c.req].taker = by)
    BY <1>1
  <2> HIDE DEF by
  <2>3. TakenFrame(c.req, by) \in Frame /\ Holds(TakenFrame(c.req, by), requests)
    BY <1>1, <2>2, FramesSent
  <2>4. DownTyped'
    BY <2>1, <2>3, EmitKeeps
  <2>5. ClaimsTyped'
    BY <2>1 DEF RequestInv, ClaimsTyped
  <2> QED
    BY <2>1, <2>4, <2>5, TableStays DEF RequestInv
<1>3. ASSUME NEW fate \in Fates, ClaimLands(c, fate) PROVE RequestInv'
  <2> DEFINE wins == Lands(fate) /\ Claimable(c.req)
             next == [c EXCEPT !.at = IF wins /\ Heard(fate) THEN "won" ELSE "refused"]
  <2>0. PICK user \in LookedUp(c.sock) :
          requests' = IF wins THEN [requests EXCEPT ![c.req] = Claimed(@, c.sock, user)] ELSE requests
    BY <1>3 DEF ClaimLands
  <2>1. /\ UNCHANGED <<ask, stop, down, lens, sock>> /\ claims' = (claims \ {c}) \cup {next}
        /\ requests' = IF wins THEN [requests EXCEPT ![c.req] = Claimed(@, c.sock, user)] ELSE requests
    BY <1>3, <2>0 DEF ClaimLands, guests
  <2>2. /\ next \in ClaimRecord /\ next.req = c.req /\ next.sock = c.sock
        /\ next.at = "won" => wins
    BY <1>1 DEF ClaimRecord
  <2>3. /\ RowsTyped' /\ Kept(requests, requests')
        /\ wins => requests'[c.req].taker = c.sock
    <3>1. CASE wins
      BY <1>1, <2>1, <3>1, RowClaimed
    <3>2. CASE ~wins
      BY <2>1, <3>2, RowsStay
    <3> QED
      BY <3>1, <3>2
  <2> HIDE DEF wins, next
  <2>4. ClaimsTyped'
    <3>1. claims' \subseteq ClaimRecord
      BY <2>1, <2>2 DEF RequestInv, ClaimsTyped
    <3>2. ASSUME NEW d \in claims'
          PROVE  d.req \in 1 .. Len(requests') /\ (d.at = "won" => requests'[d.req].taker = d.sock)
      <4>1. CASE d = next
        BY <1>1, <2>2, <2>3, <4>1 DEF Kept
      <4>2. CASE d \in claims
        <5>1. d.req \in 1 .. Len(requests) /\ d.sock \in Sock
              /\ (d.at = "won" => requests[d.req].taker = d.sock)
          BY <4>2 DEF RequestInv, ClaimsTyped, ClaimRecord
        <5> QED
          BY <2>3, <5>1, GuestAssumption DEF Kept
      <4> QED
        BY <2>1, <4>1, <4>2
    <3> QED
      BY <3>1, <3>2 DEF ClaimsTyped
  <2>5. AsksTyped' /\ StopsTyped' /\ StopClosesEarlierAsks' /\ DownTyped' /\ LensesTyped'
    BY <2>1, <2>3, RowsMove
  <2>6. SockTyped'
    BY <2>1 DEF RequestInv, SockTyped
  <2> QED
    BY <2>3, <2>4, <2>5, <2>6 DEF RequestInv
<1> QED
  BY <1>2, <1>3 DEF ClaimStep

\* Nothing has been asked at first.
LEMMA RequestInit == Init => RequestInv
<1> SUFFICES ASSUME Init PROVE RequestInv
  OBVIOUS
<1>1. /\ requests = <<>> /\ claims = {}
      /\ ask = [g \in Guest |-> NoAsk] /\ stop = [g \in Guest |-> NoStop]
      /\ down = [s \in Sock |-> <<>>] /\ lens = [s \in Sock |-> BlankLens]
      /\ sock = [s \in Sock |-> "coming"]
  BY DEF Init
<1>2. /\ NoAsk \in AskRecord /\ NoAsk.at # "inserted"
      /\ NoStop \in StopRecord /\ NoStop.before = {} /\ NoStop.at # "cancelled"
      /\ BlankLens \in LensRecord /\ BlankLens.offer = None
  BY DEF NoAsk, AskRecord, NoStop, StopRecord, BlankLens, LensRecord
<1>3. <<>> \in Seq(RequestRow) /\ <<>> \in Seq(Frame) /\ Len(<<>>) = 0
  BY EmptySeq
<1>4. RowsTyped /\ ClaimsTyped /\ SockTyped
  BY <1>1, <1>3 DEF RowsTyped, ClaimsTyped, SockTyped
<1>5. AsksTyped /\ StopsTyped /\ StopClosesEarlierAsks
  BY <1>1, <1>2 DEF AsksTyped, StopsTyped, StopClosesEarlierAsks
<1>6. DownTyped /\ LensesTyped
  BY <1>1, <1>2, <1>3 DEF DownTyped, LensesTyped
<1> QED
  BY <1>4, <1>5, <1>6 DEF RequestInv

\* Every step keeps what is known of the requests.
LEMMA RequestStep == VisitInv /\ RequestInv /\ [Next]_vars => RequestInv'
<1> SUFFICES ASSUME VisitInv, RequestInv, [Next]_vars PROVE RequestInv'
  OBVIOUS
<1>1. CASE UNCHANGED vars
  <2>1. UNCHANGED <<requests, ask, stop, claims, down, lens, sock>>
    BY <1>1 DEF vars, tables, guests, floor
  <2> QED
    BY <2>1, TableStays DEF RequestInv
<1>2. ASSUME NEW g \in Guest, GuestStep(g) PROVE RequestInv'
  <2>1. CASE UNCHANGED <<requests, ask, stop, claims, down, lens, sock>>
    BY <2>1, TableStays DEF RequestInv
  <2>2. CASE \/ TapPlate(g) \/ WalkOn(g) \/ WalkDone(g) \/ Lapse(g)
             \/ \E fate \in Fates : CheckInLands(g, fate)
    <3>1. UNCHANGED <<requests, ask, stop, claims, down, lens, sock>>
      BY <2>2 DEF TapPlate, WalkOn, WalkDone, Lapse, CheckInLands, tables, guests, floor
    <3> QED
      BY <2>1, <3>1
  <2>3. CASE \/ Send(g) \/ AskPushed(g)
             \/ \E fate \in Fates : AskChecks(g, fate) \/ AskInserts(g, fate)
    BY <2>3, AskKeeps
  <2>4. CASE \/ PressStop(g) \/ StopAnswered(g)
             \/ \E fate \in Fates : Revoke(g, fate) \/ Cancel(g, fate)
    BY <2>4, StopKeeps
  <2> QED
    BY <1>2, <2>2, <2>3, <2>4 DEF GuestStep
<1>3. CASE WireStep
  <2>1. UNCHANGED <<requests, ask, stop, claims, down, lens, sock>>
    BY <1>3 DEF WireStep, WireLands, guests, floor
  <2> QED
    BY <2>1, TableStays DEF RequestInv
<1> QED
  BY <1>1, <1>2, <1>3, ArrivalKeeps, LensKeeps, ClaimKeeps DEF Next

\* In every state both.
LEMMA FloorInv == Spec => [](VisitInv /\ RequestInv)
BY VisitInit, VisitStep, RequestInit, RequestStep, PTL DEF Spec

\* Whatever a guest asked for before pressing Stop is off the floor once the
\* cancellation is answered, a request being claimed meanwhile included
\* (requests.cancel_for_guest against requests.claim).
THEOREM StopCloses == Spec => []StopClosesEarlierAsks
<1>1. RequestInv => StopClosesEarlierAsks
  BY DEF RequestInv
<1> QED
  BY FloorInv, <1>1, PTL

\* A lens told that a request is taken is told by whom it was, and no other
\* account is in the table, however claims, cancellations and lost answers fall
\* (requests.claim, request:claim).
THEOREM TakenIsTrue == Spec => []TakenNamesTheClaimer
<1>1. RequestInv => TakenNamesTheClaimer
  <2> SUFFICES ASSUME RequestInv, NEW s \in Sock, NEW i \in DOMAIN down[s],
                      down[s][i].what = "request:taken", down[s][i].by # None
               PROVE  /\ requests[down[s][i].about].taker = down[s][i].by
                      /\ requests[down[s][i].about].by \in LookedUp(down[s][i].by)
    BY DEF TakenNamesTheClaimer
  <2>1. down[s] \in Seq(Frame)
    BY DEF RequestInv, DownTyped
  <2>2. i \in 1 .. Len(down[s])
    BY <2>1, LenProperties
  <2>3. /\ requests[down[s][i].about].taker = down[s][i].by
        /\ down[s][i].about \in 1 .. Len(requests)
    BY <2>2 DEF RequestInv, DownTyped, Holds
  <2> QED
    BY <2>3 DEF RequestInv, RowsTyped
<1> QED
  BY FloorInv, <1>1, PTL

-----------------------------------------------------------------------------
(* The offers: what a lens shows of a request that somebody has. *)

AllHeard == "unheard" \notin Faults

News(f, r) == f.what = "request:new" /\ f.about = r
Takes(f, r) == f.what = "request:taken" /\ f.about = r

\* A lens with these frames to come and this offer shows r, or will.
Exposed(queue, offer, r) == offer = r \/ \E i \in 1 .. Len(queue) : News(queue[i], r)
\* It will hear that r is taken after the last it hears of r.
Answered(queue, r) ==
  \E i \in 1 .. Len(queue) :
    /\ Takes(queue[i], r)
    /\ \A j \in 1 .. Len(queue) : News(queue[j], r) => j < i
\* A claim of r stood, and its handler has yet to tell the room.
Won(handlers, r) == \E c \in handlers : c.req = r /\ c.at = "won"

\* Of a request that has not been pushed nobody knows.
FreshAsks ==
  \A g \in Guest : ask[g].at = "inserted" =>
    /\ requests[ask[g].req].guest = g /\ requests[ask[g].req].taker = None
    /\ \A c \in claims : c.req # ask[g].req
    /\ \A s \in Sock : ~Exposed(down[s], lens[s].offer, ask[g].req)

\* Whoever shows a request that somebody has is about to be told.
OffersAreAnswered ==
  \A s \in Sock, r \in 1 .. Len(requests) :
    requests[r].taker # None /\ Exposed(down[s], lens[s].offer, r) =>
      Won(claims, r) \/ Answered(down[s], r)

\* A connection that is not up has nothing to come and shows nothing.
SilentUnlessUp == \A s \in Sock : s \notin Up => down[s] = <<>> /\ lens[s].offer = None

OfferInv == AllHeard /\ FreshAsks /\ OffersAreAnswered /\ SilentUnlessUp

\* p is q with f at its end.
Grows(q, p, f) ==
  /\ Len(q) \in Nat /\ Len(p) = Len(q) + 1
  /\ \A i \in 1 .. Len(q) : p[i] = q[i]
  /\ p[Len(q) + 1] = f

\* What a frame at the end of a queue changes.
LEMMA QueueGrows ==
  ASSUME NEW q, NEW p, NEW f, NEW r, NEW o, Grows(q, p, f)
  PROVE  /\ Exposed(p, o, r) => Exposed(q, o, r) \/ News(f, r)
         /\ Answered(q, r) /\ ~News(f, r) => Answered(p, r)
         /\ Takes(f, r) => Answered(p, r)
<1>1. \A i \in 1 .. Len(p) : \/ i \in 1 .. Len(q) /\ p[i] = q[i]
                             \/ i = Len(q) + 1 /\ p[i] = f
  BY DEF Grows
<1>2. \A i \in 1 .. Len(q) : i \in 1 .. Len(p) /\ i < Len(q) + 1 /\ p[i] = q[i]
  BY DEF Grows
<1>3. Len(q) + 1 \in 1 .. Len(p) /\ p[Len(q) + 1] = f
  BY DEF Grows
<1>4. Exposed(p, o, r) => Exposed(q, o, r) \/ News(f, r)
  BY <1>1 DEF Exposed
<1>5. ASSUME Answered(q, r), ~News(f, r) PROVE Answered(p, r)
  <2>1. PICK i \in 1 .. Len(q) : /\ Takes(q[i], r)
                                 /\ \A j \in 1 .. Len(q) : News(q[j], r) => j < i
    BY <1>5 DEF Answered
  <2>2. i \in 1 .. Len(p) /\ Takes(p[i], r)
    BY <1>2, <2>1
  <2>3. \A j \in 1 .. Len(p) : News(p[j], r) => j < i
    BY <1>1, <1>5, <2>1
  <2> QED
    BY <2>2, <2>3 DEF Answered
<1>6. ASSUME Takes(f, r) PROVE Answered(p, r)
  <2>1. ~News(f, r)
    BY <1>6 DEF Takes, News
  <2>2. \A j \in 1 .. Len(p) : News(p[j], r) => j < Len(q) + 1
    BY <1>1, <1>2, <2>1
  <2> QED
    BY <1>3, <1>6, <2>2 DEF Answered
<1> QED
  BY <1>4, <1>5, <1>6

\* ... where a frame is sent to some of the lenses.
LEMMA QueueEmit ==
  ASSUME DownTyped, NEW set, NEW f \in Frame, Emit(set, f), NEW s \in Sock, NEW r, NEW o
  PROVE  /\ Exposed(down'[s], o, r) => Exposed(down[s], o, r) \/ News(f, r)
         /\ Answered(down[s], r) /\ ~News(f, r) => Answered(down'[s], r)
         /\ Takes(f, r) /\ s \in set \cap Up => Answered(down'[s], r)
         /\ s \notin Up => down'[s] = down[s]
<1>1. CASE s \in set \cap Up
  <2>1. Grows(down[s], down'[s], f)
    BY <1>1, Emitted DEF Grows
  <2>2. /\ Exposed(down'[s], o, r) => Exposed(down[s], o, r) \/ News(f, r)
        /\ Answered(down[s], r) /\ ~News(f, r) => Answered(down'[s], r)
        /\ Takes(f, r) => Answered(down'[s], r)
    BY <2>1, QueueGrows
  <2> QED
    BY <1>1, <2>2
<1>2. CASE s \notin set \cap Up
  <2>1. down'[s] = down[s]
    BY <1>2, Emitted
  <2> QED
    BY <1>2, <2>1
<1> QED
  BY <1>1, <1>2

\* What the lens's handler of the first frame changes.
LEMMA QueueHeard ==
  ASSUME NEW q \in Seq(Frame), q # <<>>, NEW o, NEW n, NEW r \in Nat,
         n = CASE Head(q).what = "request:new" -> Head(q).about
               [] \/ Head(q).what = "request:taken" /\ o = Head(q).about
                  \/ Head(q).what = "request:cleared" -> None
               [] OTHER -> o,
         Exposed(Tail(q), n, r)
  PROVE  Exposed(q, o, r) /\ (Answered(q, r) => Answered(Tail(q), r))
<1> DEFINE p == Tail(q)
           f == Head(q)
<1>1. /\ Len(q) \in Nat /\ Len(p) \in Nat /\ Len(q) = Len(p) + 1 /\ q[1] = f
      /\ \A i \in 1 .. Len(p) : p[i] = q[i + 1]
  BY HeadTailProperties, LenProperties, EmptySeq
<1>2. r # None
  BY GuestAssumption
<1>3. (\E i \in 1 .. Len(p) : News(p[i], r)) \/ n = r
  BY DEF Exposed
<1>4. n = r => News(f, r) \/ (o = r /\ ~Takes(f, r))
  BY <1>2 DEF News, Takes
<1> HIDE DEF p, f
<1>5. Exposed(q, o, r)
  BY <1>1, <1>3, <1>4 DEF Exposed
<1>6. ASSUME Answered(q, r) PROVE Answered(p, r)
  <2>1. PICK i \in 1 .. Len(q) : /\ Takes(q[i], r)
                                 /\ \A j \in 1 .. Len(q) : News(q[j], r) => j < i
    BY <1>6 DEF Answered
  <2>2. i # 1
    <3> SUFFICES ASSUME i = 1 PROVE FALSE
      OBVIOUS
    <3>1. \A j \in 1 .. Len(q) : ~News(q[j], r)
      BY <2>1
    <3>2. n = r /\ ~News(f, r)
      BY <1>1, <1>3, <3>1
    <3> QED
      BY <1>1, <1>4, <2>1, <3>2
  <2>3. i - 1 \in 1 .. Len(p) /\ p[i - 1] = q[i]
    BY <1>1, <2>2
  <2>4. \A j \in 1 .. Len(p) : News(p[j], r) => j < i - 1
    BY <1>1, <2>1
  <2> QED
    BY <2>1, <2>3, <2>4 DEF Answered
<1> QED
  BY <1>5, <1>6 DEF p

\* The rows keep who asked and who has them, and no request is newly inserted:
\* the offers stay answered.
LEMMA OffersStay ==
  ASSUME OfferInv, UNCHANGED <<claims, down, lens, sock>>,
         Len(requests') = Len(requests), RequestInv,
         \A r \in 1 .. Len(requests) :
           requests'[r].guest = requests[r].guest /\ requests'[r].taker = requests[r].taker,
         \A g \in Guest : ask'[g].at = "inserted" => ask'[g] = ask[g]
  PROVE  OfferInv'
<1>1. \A g \in Guest : ask[g].at = "inserted" => ask[g].req \in 1 .. Len(requests)
  BY DEF RequestInv, AsksTyped
<1>2. FreshAsks'
  BY <1>1 DEF OfferInv, FreshAsks
<1>3. OffersAreAnswered'
  BY DEF OfferInv, OffersAreAnswered
<1>4. SilentUnlessUp' /\ AllHeard'
  BY DEF OfferInv, SilentUnlessUp, AllHeard, Up
<1> QED
  BY <1>2, <1>3, <1>4 DEF OfferInv

\* A frame that announces no request is sent.
LEMMA OffersHearOther ==
  ASSUME RequestInv, OfferInv, UNCHANGED <<requests, ask, claims, lens, sock>>,
         NEW set, NEW f \in Frame, Emit(set, f), \A r : ~News(f, r)
  PROVE  OfferInv'
<1>1. DownTyped
  BY DEF RequestInv
<1>2. ASSUME NEW s \in Sock, NEW r, NEW o
      PROVE  /\ Exposed(down'[s], o, r) => Exposed(down[s], o, r)
             /\ Answered(down[s], r) => Answered(down'[s], r)
             /\ s \notin Up => down'[s] = down[s]
  BY <1>1, QueueEmit
<1>3. FreshAsks'
  BY <1>2 DEF OfferInv, FreshAsks
<1>4. OffersAreAnswered'
  BY <1>2 DEF OfferInv, OffersAreAnswered
<1>5. SilentUnlessUp' /\ AllHeard'
  BY <1>2 DEF OfferInv, SilentUnlessUp, AllHeard, Up
<1> QED
  BY <1>3, <1>4, <1>5 DEF OfferInv

\* A request is inserted, and nobody has heard of it.
LEMMA OffersInserted ==
  ASSUME RequestInv, OfferInv, NEW g \in Guest, NEW fate \in Fates, AskInserts(g, fate)
  PROVE  OfferInv'
<1>1. /\ requests' = Append(requests, [guest |-> g, status |-> "open", by |-> None, taker |-> None])
      /\ ask' = [ask EXCEPT ![g] = IF Heard(fate)
                                   THEN [at |-> "inserted", req |-> Len(requests) + 1] ELSE NoAsk]
      /\ UNCHANGED <<claims, down, lens, sock>>
  BY DEF AskInserts, floor
<1>2. /\ Len(requests) \in Nat /\ Len(requests') = Len(requests) + 1
      /\ requests'[Len(requests) + 1].taker = None /\ Kept(requests, requests')
      /\ \A r \in 1 .. Len(requests) : requests'[r] = requests[r]
  BY <1>1, RowInserted
<1>3. requests'[Len(requests) + 1].guest = g
  <2>1. requests \in Seq(RequestRow)
    BY DEF RequestInv, RowsTyped
  <2>2. [guest |-> g, status |-> "open", by |-> None, taker |-> None] \in RequestRow
    BY DEF RequestRow, Waiting
  <2>3. requests'[Len(requests) + 1] = [guest |-> g, status |-> "open", by |-> None, taker |-> None]
    BY <1>1, <2>1, <2>2, AppendProperties
  <2> QED
    BY <2>3
<1>4. \A c \in claims : c.req # Len(requests) + 1
  BY <1>2 DEF RequestInv, ClaimsTyped
<1>5. \A s \in Sock : ~Exposed(down[s], lens[s].offer, Len(requests) + 1)
  <2> SUFFICES ASSUME NEW s \in Sock PROVE ~Exposed(down[s], lens[s].offer, Len(requests) + 1)
    OBVIOUS
  <2>1. lens[s].offer # Len(requests) + 1
    BY <1>2, GuestAssumption DEF RequestInv, LensesTyped
  <2>2. \A i \in 1 .. Len(down[s]) : ~News(down[s][i], Len(requests) + 1)
    BY <1>2 DEF RequestInv, DownTyped, Holds, News
  <2> QED
    BY <2>1, <2>2 DEF Exposed
<1>6. \A h \in Guest : ask[h].at = "inserted" => ask[h].req \in 1 .. Len(requests)
  BY DEF RequestInv, AsksTyped
<1>7. \A h \in Guest : ask'[h].at = "inserted" =>
        \/ h = g /\ ask'[h].req = Len(requests) + 1
        \/ ask'[h] = ask[h]
  BY <1>1 DEF NoAsk, RequestInv, AsksTyped
<1>8. FreshAsks'
  <2> SUFFICES ASSUME NEW h \in Guest, ask'[h].at = "inserted"
               PROVE  /\ requests'[ask'[h].req].guest = h /\ requests'[ask'[h].req].taker = None
                      /\ \A c \in claims : c.req # ask'[h].req
                      /\ \A s \in Sock : ~Exposed(down[s], lens[s].offer, ask'[h].req)
    BY <1>1 DEF FreshAsks
  <2>1. CASE h = g /\ ask'[h].req = Len(requests) + 1
    BY <1>2, <1>3, <1>4, <1>5, <2>1
  <2>2. CASE ask'[h] = ask[h]
    BY <1>2, <1>6, <2>2 DEF OfferInv, FreshAsks
  <2> QED
    BY <1>7, <2>1, <2>2
<1>9. OffersAreAnswered'
  BY <1>1, <1>2 DEF OfferInv, OffersAreAnswered
<1>10. SilentUnlessUp' /\ AllHeard'
  BY <1>1 DEF OfferInv, SilentUnlessUp, AllHeard, Up
<1> QED
  BY <1>8, <1>9, <1>10 DEF OfferInv

\* A request is pushed to the floor: nobody has it, and no other is the same.
LEMMA OffersPushed ==
  ASSUME RequestInv, OfferInv, NEW g \in Guest, AskPushed(g) PROVE OfferInv'
<1> DEFINE q == ask[g].req
<1>1. /\ ask' = [ask EXCEPT ![g] = NoAsk] /\ UNCHANGED <<requests, claims, lens, sock>>
      /\ Emit(Covered, NewFrame(q)) /\ ask[g].at = "inserted"
  BY DEF AskPushed, tables
<1>2. /\ q \in 1 .. Len(requests) /\ q \in Nat
      /\ requests[q].guest = g /\ requests[q].taker = None
  BY <1>1 DEF RequestInv, AsksTyped, OfferInv, FreshAsks
<1>3. NewFrame(q) \in Frame /\ \A r : News(NewFrame(q), r) <=> r = q
  BY <1>2, FramesSent DEF News, NewFrame
<1>4. \A h \in Guest : ask'[h].at = "inserted" => h # g /\ ask'[h] = ask[h]
  BY <1>1 DEF NoAsk, RequestInv, AsksTyped
<1> HIDE DEF q
<1>5. DownTyped
  BY DEF RequestInv
<1>6. ASSUME NEW s \in Sock, NEW r, NEW o, r # q
      PROVE  /\ Exposed(down'[s], o, r) => Exposed(down[s], o, r)
             /\ Answered(down[s], r) => Answered(down'[s], r)
  BY <1>1, <1>3, <1>5, <1>6, QueueEmit
<1>7. FreshAsks'
  <2> SUFFICES ASSUME NEW h \in Guest, ask'[h].at = "inserted"
               PROVE  /\ requests[ask'[h].req].guest = h /\ requests[ask'[h].req].taker = None
                      /\ \A c \in claims : c.req # ask'[h].req
                      /\ \A s \in Sock : ~Exposed(down'[s], lens[s].offer, ask'[h].req)
    BY <1>1 DEF FreshAsks
  <2>1. /\ requests[ask'[h].req].guest = h /\ requests[ask'[h].req].taker = None
        /\ \A c \in claims : c.req # ask'[h].req
        /\ \A s \in Sock : ~Exposed(down[s], lens[s].offer, ask'[h].req)
    BY <1>4 DEF OfferInv, FreshAsks
  <2>2. ask'[h].req # q
    BY <1>2, <1>4, <2>1
  <2> QED
    BY <1>6, <2>1, <2>2
<1>8. OffersAreAnswered'
  <2> SUFFICES ASSUME NEW s \in Sock, NEW r \in 1 .. Len(requests), requests[r].taker # None,
                      Exposed(down'[s], lens[s].offer, r)
               PROVE  Won(claims, r) \/ Answered(down'[s], r)
    BY <1>1 DEF OffersAreAnswered
  <2>1. r # q
    BY <1>2
  <2> QED
    BY <1>6, <2>1 DEF OfferInv, OffersAreAnswered
<1>9. \A s \in Sock : s \notin Up => down'[s] = down[s]
  BY <1>1, <1>3, <1>5, QueueEmit
<1>10. SilentUnlessUp' /\ AllHeard'
  BY <1>1, <1>9 DEF OfferInv, SilentUnlessUp, AllHeard, Up
<1> QED
  BY <1>7, <1>8, <1>10 DEF OfferInv

\* A lens shows no more than before, and is still to be told what it was.
LEMMA OffersShrink ==
  ASSUME RequestInv, OfferInv, NEW s \in Sock, UNCHANGED <<requests, ask>>, claims \subseteq claims',
         \A c \in claims' \ claims : c.req = lens[s].offer,
         \A x \in Sock : x # s => /\ down'[x] = down[x] /\ lens'[x] = lens[x]
                                  /\ sock'[x] = sock[x],
         \A r \in Nat : Exposed(down'[s], lens'[s].offer, r) =>
           /\ Exposed(down[s], lens[s].offer, r)
           /\ Answered(down[s], r) => Answered(down'[s], r),
         sock'[s] = "up" \/ (down'[s] = <<>> /\ lens'[s].offer = None)
  PROVE  OfferInv'
<1>1. \A r \in Nat, x \in Sock : Exposed(down'[x], lens'[x].offer, r) =>
        /\ Exposed(down[x], lens[x].offer, r)
        /\ Answered(down[x], r) => Answered(down'[x], r)
  OBVIOUS
<1>2. \A g \in Guest : ask[g].at = "inserted" => ask[g].req \in Nat
  BY DEF RequestInv, AsksTyped
<1>3. FreshAsks'
  <2> SUFFICES ASSUME NEW g \in Guest, ask[g].at = "inserted"
               PROVE  /\ requests[ask[g].req].guest = g /\ requests[ask[g].req].taker = None
                      /\ \A c \in claims' : c.req # ask[g].req
                      /\ \A x \in Sock : ~Exposed(down'[x], lens'[x].offer, ask[g].req)
    BY DEF FreshAsks
  <2>1. /\ requests[ask[g].req].guest = g /\ requests[ask[g].req].taker = None
        /\ \A c \in claims : c.req # ask[g].req
        /\ \A x \in Sock : ~Exposed(down[x], lens[x].offer, ask[g].req)
    BY DEF OfferInv, FreshAsks
  <2>2. lens[s].offer # ask[g].req
    BY <2>1 DEF Exposed
  <2> QED
    BY <1>1, <1>2, <2>1, <2>2
<1>4. OffersAreAnswered'
  <2> SUFFICES ASSUME NEW x \in Sock, NEW r \in 1 .. Len(requests), requests[r].taker # None,
                      Exposed(down'[x], lens'[x].offer, r)
               PROVE  Won(claims', r) \/ Answered(down'[x], r)
    BY DEF OffersAreAnswered
  <2>1. Won(claims, r) \/ Answered(down[x], r)
    BY <1>1 DEF OfferInv, OffersAreAnswered
  <2>2. Won(claims, r) => Won(claims', r)
    BY DEF Won
  <2> QED
    BY <1>1, <2>1, <2>2
<1>5. SilentUnlessUp' /\ AllHeard'
  BY DEF OfferInv, SilentUnlessUp, AllHeard, Up
<1> QED
  BY <1>3, <1>4, <1>5 DEF OfferInv

\* A lens connects, goes, is pressed or hears something.
LEMMA OffersLens == ASSUME RequestInv, OfferInv, NEW s \in Sock, LensStep(s) PROVE OfferInv'
<1>1. /\ down \in [Sock -> Seq(Frame)] /\ lens \in [Sock -> LensRecord]
      /\ sock \in [Sock -> {"coming", "up", "gone"}]
      /\ lens[s] \in LensRecord /\ down[s] \in Seq(Frame)
  BY DEF RequestInv, DownTyped, LensesTyped, SockTyped
<1>2. /\ sock[s] # "up" => down[s] = <<>> /\ lens[s].offer = None
      /\ BlankLens.offer = None /\ Len(<<>>) = 0 /\ None \notin Nat
  BY EmptySeq, GuestAssumption DEF OfferInv, SilentUnlessUp, Up, BlankLens
<1>3. \A r \in Nat : ~Exposed(<<>>, None, r)
  BY <1>2 DEF Exposed
<1>4. CASE Register(s)
  <2>1. UNCHANGED <<requests, ask, claims, down, lens>> /\ sock' = [sock EXCEPT ![s] = "up"]
    BY <1>4 DEF Register, tables, guests
  <2> QED
    BY <1>1, <2>1, OffersShrink
<1>5. CASE Drop(s)
  <2>1. /\ UNCHANGED <<requests, ask, claims>> /\ down' = [down EXCEPT ![s] = <<>>]
        /\ lens' = [lens EXCEPT ![s] = BlankLens] /\ sock' = [sock EXCEPT ![s] = "gone"]
    BY <1>5 DEF Drop, tables, guests
  <2>2. down'[s] = <<>> /\ lens'[s].offer = None
    BY <1>1, <1>2, <2>1
  <2>3. \A x \in Sock : x # s => /\ down'[x] = down[x] /\ lens'[x] = lens[x] /\ sock'[x] = sock[x]
    BY <1>1, <2>1
  <2> QED
    BY <1>3, <2>1, <2>2, <2>3, OffersShrink
<1>6. CASE PressCue(s)
  <2>1. /\ UNCHANGED <<requests, ask, claims, down, sock>> /\ sock[s] = "up"
        /\ lens' = [lens EXCEPT ![s] = BlankLens] /\ lens[s].offer = None
    BY <1>6 DEF PressCue, tables, guests, Up
  <2>2. lens'[s].offer = lens[s].offer
    BY <1>1, <1>2, <2>1
  <2>3. \A x \in Sock : x # s => lens'[x] = lens[x]
    BY <1>1, <2>1
  <2> QED
    BY <2>1, <2>2, <2>3, OffersShrink
<1>7. CASE PressOffer(s)
  <2> DEFINE c == [sock |-> s, req |-> lens[s].offer, at |-> "asked"]
  <2>1. /\ UNCHANGED <<requests, ask, down, sock>> /\ claims' = claims \cup {c} /\ sock[s] = "up"
        /\ lens' = [lens EXCEPT ![s].offer = None]
    BY <1>7 DEF PressOffer, tables, guests, Up
  <2>2. lens'[s].offer = None /\ c.req = lens[s].offer
    BY <1>1, <2>1 DEF LensRecord
  <2>3. \A x \in Sock : x # s => lens'[x] = lens[x]
    BY <1>1, <2>1
  <2> HIDE DEF c
  <2>4. \A r \in Nat : Exposed(down'[s], lens'[s].offer, r) => Exposed(down[s], lens[s].offer, r)
    BY <1>2, <2>1, <2>2 DEF Exposed
  <2> QED
    BY <2>1, <2>2, <2>3, <2>4, OffersShrink
<1>8. CASE Hear(s)
  <2> DEFINE q == down[s]
             n == CASE Head(q).what = "request:new" -> Head(q).about
                    [] \/ Head(q).what = "request:taken" /\ lens[s].offer = Head(q).about
                       \/ Head(q).what = "request:cleared" -> None
                    [] OTHER -> lens[s].offer
  <2>1. /\ UNCHANGED <<requests, ask, claims, sock>> /\ q # <<>>
        /\ down' = [down EXCEPT ![s] = Tail(@)]
        /\ lens' = [lens EXCEPT
              ![s].cue = IF Head(q).what = "glasses:display" THEN Head(q).about ELSE @,
              ![s].offer = n]
    BY <1>8 DEF Hear, tables, guests
  <2>2. lens'[s].offer = n /\ down'[s] = Tail(q)
    BY <1>1, <2>1 DEF LensRecord
  <2>3. \A x \in Sock : x # s => down'[x] = down[x] /\ lens'[x] = lens[x]
    BY <1>1, <2>1
  <2>4. \A r \in Nat : Exposed(Tail(q), n, r) =>
          Exposed(q, lens[s].offer, r) /\ (Answered(q, r) => Answered(Tail(q), r))
    BY <1>1, <2>1, QueueHeard
  <2>5. sock[s] = "up"
    BY <1>1, <1>2, <2>1
  <2> HIDE DEF n
  <2> QED
    BY <2>1, <2>2, <2>3, <2>4, <2>5, OffersShrink
<1>9. ASSUME NEW g \in Guest, Beacon(s, g) PROVE OfferInv'
  <2>1. UNCHANGED <<requests, ask, claims, down, lens, sock>>
    BY <1>9 DEF Beacon, tables, guests, floor
  <2> QED
    BY <2>1, OffersStay
<1> QED
  BY <1>4, <1>5, <1>6, <1>7, <1>8, <1>9 DEF LensStep

\* A claim that stands tells every lens that is up.
LEMMA OffersAnsweredFor ==
  ASSUME RequestInv, OfferInv, NEW c \in claims, ClaimAnswered(c) PROVE OfferInv'
<1> DEFINE by == IF c.at = "won" THEN c.sock ELSE None
           f == TakenFrame(c.req, by)
<1>1. /\ UNCHANGED <<requests, ask, lens, sock>> /\ claims' = claims \ {c}
      /\ Emit(ToldOfTheClaim(c), f)
  BY DEF ClaimAnswered, tables, guests
<1>2. c \in ClaimRecord
  BY DEF RequestInv, ClaimsTyped
<1>3. f \in Frame /\ Takes(f, c.req) /\ \A r : ~News(f, r)
  <2>1. c.req \in Nat /\ by \in Sock \cup {None}
    BY <1>2 DEF ClaimRecord
  <2> QED
    BY <2>1, FramesSent DEF Takes, News, TakenFrame
<1> HIDE DEF by, f
<1>4. DownTyped
  BY DEF RequestInv
<1>5. ASSUME NEW s \in Sock, NEW r, NEW o
      PROVE  /\ Exposed(down'[s], o, r) => Exposed(down[s], o, r)
             /\ Answered(down[s], r) => Answered(down'[s], r)
             /\ s \notin Up => down'[s] = down[s]
             /\ Takes(f, r) /\ s \in ToldOfTheClaim(c) \cap Up => Answered(down'[s], r)
  BY <1>1, <1>3, <1>4, QueueEmit
<1>6. FreshAsks'
  BY <1>1, <1>5 DEF OfferInv, FreshAsks
<1>7. OffersAreAnswered'
  <2> SUFFICES ASSUME NEW s \in Sock, NEW r \in 1 .. Len(requests), requests[r].taker # None,
                      Exposed(down'[s], lens[s].offer, r)
               PROVE  Won(claims', r) \/ Answered(down'[s], r)
    BY <1>1 DEF OffersAreAnswered
  <2>1. Exposed(down[s], lens[s].offer, r)
    BY <1>5
  <2>2. CASE Answered(down[s], r)
    BY <1>5, <2>2
  <2>3. CASE Won(claims, r)
    <3>1. PICK d \in claims : d.req = r /\ d.at = "won"
      BY <2>3 DEF Won
    <3>2. CASE d # c
      BY <1>1, <3>1, <3>2 DEF Won
    <3>3. CASE d = c
      <4>1. s \in Up
        <5> SUFFICES ASSUME s \notin Up PROVE FALSE
          OBVIOUS
        <5>1. down[s] = <<>> /\ lens[s].offer = None
          BY DEF OfferInv, SilentUnlessUp
        <5> QED
          BY <2>1, <5>1, EmptySeq, GuestAssumption DEF Exposed
      <4>2. s \in ToldOfTheClaim(c) \cap Up /\ Takes(f, r)
        BY <1>3, <3>1, <3>3, <4>1 DEF ToldOfTheClaim
      <4> QED
        BY <1>5, <4>2
    <3> QED
      BY <3>2, <3>3
  <2> QED
    BY <2>1, <2>2, <2>3 DEF OfferInv, OffersAreAnswered
<1>8. SilentUnlessUp' /\ AllHeard'
  BY <1>1, <1>5 DEF OfferInv, SilentUnlessUp, AllHeard, Up
<1> QED
  BY <1>6, <1>7, <1>8 DEF OfferInv

\* A claim reaches the table; where answers are not lost, one that stands is told.
LEMMA OffersClaimed ==
  ASSUME RequestInv, OfferInv, NEW c \in claims, NEW fate \in Fates, ClaimLands(c, fate)
  PROVE  OfferInv'
<1> DEFINE wins == Lands(fate) /\ Claimable(c.req)
           next == [c EXCEPT !.at = IF wins /\ Heard(fate) THEN "won" ELSE "refused"]
<1>0. PICK user \in LookedUp(c.sock) :
        requests' = IF wins THEN [requests EXCEPT ![c.req] = Claimed(@, c.sock, user)] ELSE requests
  BY DEF ClaimLands
<1>1. /\ UNCHANGED <<ask, down, lens, sock>> /\ claims' = (claims \ {c}) \cup {next}
      /\ requests' = IF wins THEN [requests EXCEPT ![c.req] = Claimed(@, c.sock, user)] ELSE requests
      /\ c.at = "asked"
  BY <1>0 DEF ClaimLands, guests
<1>2. /\ c \in ClaimRecord /\ c.req \in 1 .. Len(requests) /\ c.sock \in Sock
  BY DEF RequestInv, ClaimsTyped, ClaimRecord
<1>3. next.req = c.req /\ (wins => next.at = "won")
  <2>1. Lands(fate) => Heard(fate)
    BY DEF Fates, Lands, Heard, OfferInv, AllHeard
  <2> QED
    BY <1>2, <2>1 DEF ClaimRecord
<1>4. /\ Len(requests') = Len(requests)
      /\ \A r \in 1 .. Len(requests) : r # c.req \/ ~wins => requests'[r] = requests[r]
  <2>1. CASE wins
    BY <1>1, <1>2, <2>1, RowClaimed
  <2>2. CASE ~wins
    BY <1>1, <2>2
  <2> QED
    BY <2>1, <2>2
<1> HIDE DEF wins, next
<1>5. FreshAsks'
  <2> SUFFICES ASSUME NEW g \in Guest, ask[g].at = "inserted"
               PROVE  /\ requests'[ask[g].req].guest = g /\ requests'[ask[g].req].taker = None
                      /\ \A d \in claims' : d.req # ask[g].req
                      /\ \A s \in Sock : ~Exposed(down[s], lens[s].offer, ask[g].req)
    BY <1>1 DEF FreshAsks
  <2>1. /\ requests[ask[g].req].guest = g /\ requests[ask[g].req].taker = None
        /\ \A d \in claims : d.req # ask[g].req
        /\ \A s \in Sock : ~Exposed(down[s], lens[s].offer, ask[g].req)
        /\ ask[g].req \in 1 .. Len(requests)
    BY DEF OfferInv, FreshAsks, RequestInv, AsksTyped
  <2> QED
    BY <1>1, <1>3, <1>4, <2>1
<1>6. OffersAreAnswered'
  <2> SUFFICES ASSUME NEW s \in Sock, NEW r \in 1 .. Len(requests), requests'[r].taker # None,
                      Exposed(down[s], lens[s].offer, r)
               PROVE  Won(claims', r) \/ Answered(down[s], r)
    BY <1>1, <1>4 DEF OffersAreAnswered
  <2>1. CASE r = c.req /\ wins
    BY <1>1, <1>3, <2>1 DEF Won
  <2>2. CASE r # c.req \/ ~wins
    <3>1. Won(claims, r) \/ Answered(down[s], r)
      BY <1>4, <2>2 DEF OfferInv, OffersAreAnswered
    <3>2. Won(claims, r) => Won(claims', r)
      BY <1>1 DEF Won
    <3> QED
      BY <3>1, <3>2
  <2> QED
    BY <2>1, <2>2
<1>7. SilentUnlessUp' /\ AllHeard'
  BY <1>1 DEF OfferInv, SilentUnlessUp, AllHeard, Up
<1> QED
  BY <1>5, <1>6, <1>7 DEF OfferInv

\* A guest's page and the routes behind it.
LEMMA OffersGuest == ASSUME RequestInv, OfferInv, NEW g \in Guest, GuestStep(g) PROVE OfferInv'
<1>1. ask \in [Guest -> AskRecord] /\ NoAsk.at # "inserted"
  BY DEF RequestInv, AsksTyped, NoAsk
<1>2. CASE \/ TapPlate(g) \/ WalkOn(g) \/ WalkDone(g) \/ Lapse(g) \/ PressStop(g)
           \/ \E fate \in Fates : CheckInLands(g, fate) \/ Revoke(g, fate)
  <2>1. UNCHANGED <<requests, ask, claims, down, lens, sock>>
    BY <1>2 DEF TapPlate, WalkOn, WalkDone, Lapse, PressStop, CheckInLands, Revoke, tables, guests, floor
  <2> QED
    BY <2>1, OffersStay
<1>3. CASE Send(g) \/ \E fate \in Fates : AskChecks(g, fate)
  <2>1. UNCHANGED <<requests, claims, down, lens, sock>>
    BY <1>3 DEF Send, AskChecks, tables, floor
  <2>2. \A h \in Guest : ask'[h].at = "inserted" => ask'[h] = ask[h]
    BY <1>1, <1>3 DEF Send, AskChecks, AskRecord
  <2> QED
    BY <2>1, <2>2, OffersStay
<1>4. ASSUME NEW fate \in Fates, Cancel(g, fate) PROVE OfferInv'
  <2>1. UNCHANGED <<ask, claims, down, lens, sock>>
    BY <1>4 DEF Cancel, floor
  <2>2. /\ Len(requests') = Len(requests)
        /\ \A r \in 1 .. Len(requests) :
             requests'[r].guest = requests[r].guest /\ requests'[r].taker = requests[r].taker
    <3>1. CASE Lands(fate)
      <4>1. requests' = [r \in DOMAIN requests |->
                           IF r \in CancelsOf(g)
                           THEN [requests[r] EXCEPT !.status = "cancelled"] ELSE requests[r]]
        BY <1>4, <3>1 DEF Cancel
      <4> QED
        BY <4>1, RowsCancelled DEF Kept
    <3>2. CASE ~Lands(fate)
      BY <1>4, <3>2 DEF Cancel
    <3> QED
      BY <3>1, <3>2
  <2> QED
    BY <2>1, <2>2, OffersStay
<1>5. CASE StopAnswered(g)
  <2>1. UNCHANGED <<requests, ask, claims, lens, sock>> /\ (Emit(Up, ClearedFrame) \/ UNCHANGED down)
    BY <1>5 DEF StopAnswered, tables
  <2>2. ClearedFrame \in Frame /\ \A r : ~News(ClearedFrame, r)
    BY FramesSent DEF News, ClearedFrame
  <2> QED
    BY <2>1, <2>2, OffersStay, OffersHearOther
<1> QED
  BY <1>2, <1>3, <1>4, <1>5, OffersInserted, OffersPushed DEF GuestStep

\* A visit tells its lens about a guest, and no request.
LEMMA OffersArrival ==
  ASSUME VisitInv, RequestInv, OfferInv, NEW n \in DOMAIN arriving, ArrivalStep(n) PROVE OfferInv'
<1>1. arriving[n].guest \in Guest
  <2>1. arriving \in Seq(Arrival)
    BY DEF VisitInv, VisitsTyped
  <2>2. arriving[n] \in Arrival
    BY <2>1, ElementOfSeq, LenProperties
  <2> QED
    BY <2>2 DEF Arrival
<1>2. UNCHANGED <<requests, ask, claims, lens, sock>>
  BY DEF ArrivalStep, Engage, ContextAnswered, EngagementStarts, tables, guests, floor
<1>3. UNCHANGED down \/ \E s, g : g \in Guest \cup {Warning} /\ Emit({s}, DisplayFrame(g))
  BY <1>1 DEF ArrivalStep, Engage, ContextAnswered, EngagementStarts, floor
<1>4. CASE UNCHANGED down
  BY <1>2, <1>4, OffersStay
<1>5. ASSUME NEW s, NEW g \in Guest \cup {Warning}, Emit({s}, DisplayFrame(g)) PROVE OfferInv'
  <2>1. DisplayFrame(g) \in Frame /\ \A r : ~News(DisplayFrame(g), r)
    BY FramesSent DEF News, DisplayFrame
  <2> QED
    BY <1>2, <1>5, <2>1, OffersHearOther
<1> QED
  BY <1>3, <1>4, <1>5

\* Nothing is offered at first.
LEMMA OfferInit == ASSUME Init, AllHeard PROVE OfferInv
<1>1. FreshAsks
  BY DEF Init, FreshAsks, NoAsk
<1>2. OffersAreAnswered
  BY EmptySeq DEF Init, OffersAreAnswered
<1>3. SilentUnlessUp
  BY DEF Init, SilentUnlessUp, BlankLens
<1> QED
  BY <1>1, <1>2, <1>3 DEF OfferInv

\* Every step keeps what is known of the offers.
LEMMA OfferStep == VisitInv /\ RequestInv /\ OfferInv /\ [Next]_vars => OfferInv'
<1> SUFFICES ASSUME VisitInv, RequestInv, OfferInv, [Next]_vars PROVE OfferInv'
  OBVIOUS
<1>1. CASE UNCHANGED vars \/ WireStep
  <2>1. UNCHANGED <<requests, ask, claims, down, lens, sock>>
    BY <1>1 DEF vars, WireStep, WireLands, tables, guests, floor
  <2> QED
    BY <2>1, OffersStay
<1>2. ASSUME NEW c \in claims, ClaimStep(c) PROVE OfferInv'
  BY <1>2, OffersAnsweredFor, OffersClaimed DEF ClaimStep
<1> QED
  BY <1>1, <1>2, OffersGuest, OffersArrival, OffersLens DEF Next

\* Where the answers of the service are not lost, no lens goes on offering a
\* request that somebody has once the frames about it have arrived: not one that
\* was pushed while it was claimed, nor one a lens was not showing when the claim
\* was told (the broadcast of request:claim, the request:taken handler).
THEOREM TakenLeavesTheGlass == AllHeard /\ Spec => []TakenIsNotOffered
<1>1. RequestInv /\ OfferInv => TakenIsNotOffered
  <2> SUFFICES ASSUME RequestInv, OfferInv, NEW r \in DOMAIN requests, Quiet(r),
                      requests[r].taker # None, NEW s \in Up, lens[s].offer = r
               PROVE  FALSE
    BY DEF TakenIsNotOffered
  <2>1. requests \in Seq(RequestRow) /\ down \in [Sock -> Seq(Frame)] /\ s \in Sock
    BY DEF RequestInv, RowsTyped, DownTyped, Up
  <2>2. r \in 1 .. Len(requests) /\ DOMAIN down[s] = 1 .. Len(down[s])
    BY <2>1, LenProperties
  <2>3. Exposed(down[s], lens[s].offer, r)
    BY DEF Exposed
  <2>4. Won(claims, r) \/ Answered(down[s], r)
    BY <2>1, <2>2, <2>3 DEF OfferInv, OffersAreAnswered
  <2> QED
    BY <2>1, <2>2, <2>4 DEF Won, Answered, Takes, Quiet
<1>2. AllHeard /\ Init => OfferInv
  BY OfferInit
<1> QED
  BY VisitInit, VisitStep, RequestInit, RequestStep, OfferStep, <1>1, <1>2, PTL DEF Spec

-----------------------------------------------------------------------------
(* The bounds, and the guests' own state. *)

\* The visits that have asked for their engagement, or never will.
Begun == {n \in 1 .. Len(arriving) : arriving[n].at \in {"opened", "done"}}

GuestsTyped ==
  /\ present \subseteq Guest
  /\ page \in [Guest -> {"away", "checking in", "walking", "ask", "stopped", "error"}]
  /\ walked \in [Guest -> SUBSET Sock]
  /\ taps \in 0 .. MaxTaps

\* A visit begins one engagement at most.
VisitsBounded == Len(arriving) <= MaxArrivals /\ Len(engagements) <= Cardinality(Begun)

\* A guest's calls name requests that were made.
AsksBounded ==
  /\ Len(requests) <= MaxAsks
  /\ \A g \in Guest : /\ ask[g].req \in 1 .. Len(requests) \cup {None}
                      /\ stop[g].dropped \subseteq 1 .. Len(requests)

LEMMA BegunCount ==
  ASSUME VisitInv
  PROVE  /\ IsFiniteSet(Begun) /\ Cardinality(Begun) \in Nat
         /\ Cardinality(Begun) <= Len(arriving)
<1> DEFINE n == Len(arriving)
<1>1. n \in Nat /\ n \in Int /\ 1 \in Int
  BY LenProperties DEF VisitInv, VisitsTyped
<1>2. IsFiniteSet(1 .. n) /\ Cardinality(1 .. n) = n
  <2> HIDE DEF n
  <2>1. IsFiniteSet(1 .. n) /\ Cardinality(1 .. n) = IF 1 > n THEN 0 ELSE n - 1 + 1
    BY ONLY <1>1, FS_Interval
  <2> QED
    BY ONLY <1>1, <2>1
<1>3. Begun \in SUBSET (1 .. n)
  BY DEF Begun
<1> HIDE DEF n
<1>4. IsFiniteSet(Begun) /\ Cardinality(Begun) <= n
  BY <1>2, <1>3, FS_Subset
<1> QED
  BY <1>4, FS_CardinalityType DEF n

LEMMA WithinTypes ==
  ASSUME VisitInv, RequestInv, GuestsTyped, VisitsBounded, AsksBounded
  PROVE  TypeOK
<1>1. /\ Len(requests) \in Nat /\ DOMAIN requests = 1 .. Len(requests)
      /\ Len(engagements) \in Nat /\ DOMAIN engagements = 1 .. Len(engagements)
      /\ Len(arriving) \in Nat /\ DOMAIN arriving = 1 .. Len(arriving)
  BY LenProperties DEF VisitInv, VisitsTyped, RequestInv, RowsTyped
<1>2. Len(engagements) <= MaxArrivals
  BY <1>1, BegunCount, GuestAssumption DEF VisitsBounded
<1>3. 1 .. Len(requests) \subseteq Request /\ 1 .. Len(engagements) \subseteq Engagement
  BY <1>1, <1>2, GuestAssumption DEF VisitsBounded, AsksBounded, Request, Engagement
<1>4. \A s \in Sock : /\ serving[s] \in [guest: Guest \cup {None}, engagement: DOMAIN engagements \cup {None}]
                      /\ till[s] \in [guest: Guest, engagement: Engagement \cup {None}] \cup {None}
  BY <1>1, <1>3 DEF VisitInv, VisitsTyped, TillFollows, PointedIsOpen, Started
<1>5. \A n \in DOMAIN arriving :
       arriving[n] \in [sock: Sock, guest: Guest, walk: BOOLEAN,
                        at: {"context", "opening", "opened", "done"},
                        engagement: Engagement \cup {None}]
  <2>1. TAKE n \in DOMAIN arriving
  <2>2. n \in 1 .. Len(arriving) /\ arriving[n] \in Arrival
    BY ArrivalType
  <2>3. arriving[n].engagement \in Engagement \cup {None}
    BY <1>3, <2>2 DEF VisitInv, CarriedIsOpen, Started
  <2> QED
    BY <2>2, <2>3 DEF Arrival
<1>6. \A g \in Guest : /\ ask[g] \in [at: {"none", "checking", "inserting", "inserted"}, req: Request \cup {None}]
                       /\ stop[g] \in [at: {"none", "revoking", "cancelling", "cancelled", "failed"},
                                       before: SUBSET Request, dropped: SUBSET Request]
  <2>1. TAKE g \in Guest
  <2>2. ask[g] \in AskRecord /\ stop[g] \in StopRecord
    BY DEF RequestInv, AsksTyped, StopsTyped
  <2>3. ask[g].req \in Request \cup {None} /\ stop[g].dropped \subseteq Request
    BY <1>3 DEF AsksBounded
  <2>4. stop[g].before \subseteq Request
    BY <1>3 DEF RequestInv, StopsTyped
  <2> QED
    BY <2>2, <2>3, <2>4 DEF AskRecord, StopRecord
<1>7. claims \subseteq [sock: Sock, req: Request, at: {"asked", "won", "refused"}]
  BY <1>3 DEF RequestInv, ClaimsTyped, ClaimRecord
<1>8. \A s \in Sock : lens[s] \in [cue: Guest \cup {Warning, None}, offer: Request \cup {None}]
  BY <1>3 DEF RequestInv, LensesTyped, LensRecord
<1>9. /\ DOMAIN serving = Sock /\ DOMAIN till = Sock /\ DOMAIN ask = Guest /\ DOMAIN stop = Guest
      /\ DOMAIN lens = Sock
      /\ serving = [s \in Sock |-> serving[s]] /\ till = [s \in Sock |-> till[s]]
      /\ ask = [g \in Guest |-> ask[g]] /\ stop = [g \in Guest |-> stop[g]]
      /\ lens = [s \in Sock |-> lens[s]]
  BY DEF VisitInv, VisitsTyped, RequestInv, AsksTyped, StopsTyped, LensesTyped
<1>10. /\ present \subseteq Guest /\ requests \in Seq(RequestRow) /\ engagements \in Seq(EngagementRow)
       /\ \A r \in DOMAIN requests :
            requests[r].status = "open" => requests[r].by = None
       /\ Len(requests) <= MaxAsks /\ Len(engagements) <= MaxArrivals
       /\ sock \in [Sock -> {"coming", "up", "gone"}]
  BY <1>1, <1>2 DEF VisitInv, VisitsTyped, RequestInv, RowsTyped, SockTyped, GuestsTyped, VisitsBounded, AsksBounded
<1>11. /\ serving \in [Sock -> [guest: Guest \cup {None}, engagement: DOMAIN engagements \cup {None}]]
       /\ till \in [Sock -> [guest: Guest, engagement: Engagement \cup {None}] \cup {None}]
  BY <1>4, <1>9
<1>12. /\ ask \in [Guest -> [at: {"none", "checking", "inserting", "inserted"}, req: Request \cup {None}]]
       /\ stop \in [Guest -> [at: {"none", "revoking", "cancelling", "cancelled", "failed"},
                              before: SUBSET Request, dropped: SUBSET Request]]
       /\ lens \in [Sock -> [cue: Guest \cup {Warning, None}, offer: Request \cup {None}]]
  BY <1>6, <1>8, <1>9
<1> QED
  BY <1>5, <1>7, <1>10, <1>11, <1>12 DEF TypeOK, RequestRow, EngagementRow, GuestsTyped

LEMMA GuestsKeep ==
  ASSUME VisitInv, GuestsTyped, [Next]_vars
  PROVE  GuestsTyped'
<1>1. CASE UNCHANGED <<present, page, walked, taps>>
  BY <1>1 DEF GuestsTyped
<1>2. ASSUME NEW g \in Guest, GuestStep(g) PROVE GuestsTyped'
  <2>1. CASE TapPlate(g)
    <3>1. taps' \in 0 .. MaxTaps
      <4>1. MaxTaps \in Nat
        BY GuestAssumption
      <4>2. taps' = taps + 1 /\ taps < MaxTaps /\ taps \in 0 .. MaxTaps
        BY <2>1 DEF TapPlate, GuestsTyped
      <4> QED
        BY <4>1, <4>2
    <3>2. UNCHANGED <<present, walked>> /\ page' = [page EXCEPT ![g] = "checking in"]
      BY <2>1 DEF TapPlate, tables
    <3> QED
      BY <3>1, <3>2 DEF GuestsTyped
  <2>2. CASE WalkOn(g)
    <3>1. PICK s \in Covered : walked' = [walked EXCEPT ![g] = @ \cup {s}]
      BY <2>2 DEF WalkOn
    <3>2. s \in Sock
      BY DEF Covered, Up
    <3>3. UNCHANGED <<present, page, taps>>
      BY <2>2 DEF WalkOn, tables
    <3> QED
      BY <3>1, <3>2, <3>3 DEF GuestsTyped
  <2>3. CASE WalkDone(g)
    BY <2>3 DEF WalkDone, GuestsTyped, tables
  <2>4. CASE AskPushed(g)
    BY <2>4 DEF AskPushed, GuestsTyped, tables
  <2>5. CASE StopAnswered(g)
    BY <2>5 DEF StopAnswered, GuestsTyped, tables
  <2>6. CASE Lapse(g)
    BY <2>6 DEF Lapse, GuestsTyped, guests
  <2>7. ASSUME NEW fate \in Fates, CheckInLands(g, fate) PROVE GuestsTyped'
    <3>1. page' \in [Guest -> {"away", "checking in", "walking", "ask", "stopped", "error"}]
      BY <2>7 DEF CheckInLands, GuestsTyped
    <3> QED
      BY <2>7, <3>1 DEF CheckInLands, Recorded, GuestsTyped
  <2>8. ASSUME NEW fate \in Fates, Revoke(g, fate) PROVE GuestsTyped'
    BY <2>8 DEF Revoke, GuestsTyped
  <2>9. CASE Send(g) \/ PressStop(g)
    BY <1>1, <2>9 DEF Send, PressStop, tables
  <2>10. CASE \E fate \in Fates : AskChecks(g, fate) \/ AskInserts(g, fate) \/ Cancel(g, fate)
    BY <1>1, <2>10 DEF AskChecks, AskInserts, Cancel, tables
  <2> QED
    BY <1>2, <2>1, <2>2, <2>3, <2>4, <2>5, <2>6, <2>7, <2>8, <2>9, <2>10 DEF GuestStep
<1>3. ASSUME NEW call \in wire, NEW fate \in Fates, WireLands(call, fate) PROVE GuestsTyped'
  <2>1. call.call = "presence" => call.guest \in Guest
    BY DEF VisitInv, VisitsTyped, PresenceCalls, EndCalls
  <2>2. present' \subseteq Guest /\ UNCHANGED <<page, walked, taps>>
    BY <1>3, <2>1 DEF WireLands, Recorded, GuestsTyped, guests
  <2> QED
    BY <2>2 DEF GuestsTyped
<1>4. ASSUME NEW n \in DOMAIN arriving, ArrivalStep(n) PROVE GuestsTyped'
  BY <1>1, <1>4 DEF ArrivalStep, Engage, ContextAnswered, EngagementStarts, tables, guests
<1>5. ASSUME NEW s \in Sock, LensStep(s) PROVE GuestsTyped'
  BY <1>1, <1>5 DEF LensStep, Register, Drop, PressCue, PressOffer, Hear, Beacon, tables, guests
<1>6. ASSUME NEW c \in claims, ClaimStep(c) PROVE GuestsTyped'
  BY <1>1, <1>6 DEF ClaimStep, ClaimAnswered, ClaimLands, tables, guests
<1>7. CASE UNCHANGED vars
  BY <1>1, <1>7 DEF vars, tables, guests
<1> QED
  BY <1>2, <1>3, <1>4, <1>5, <1>6, <1>7 DEF Next, WireStep

\* A visit moves on: it has begun if it had, and one more has when one begins.
LEMMA BegunGrows ==
  ASSUME VisitInv, NEW n \in 1 .. Len(arriving), NEW a \in Arrival,
         arriving' = [arriving EXCEPT ![n] = a],
         arriving[n].at \in {"opened", "done"} => a.at \in {"opened", "done"}
  PROVE  /\ Len(arriving') = Len(arriving)
         /\ Cardinality(Begun)' \in Nat /\ Cardinality(Begun) \in Nat
         /\ Cardinality(Begun)' >= Cardinality(Begun)
         /\ a.at \in {"opened", "done"} /\ arriving[n].at \notin {"opened", "done"} =>
              Cardinality(Begun)' = Cardinality(Begun) + 1
<1>1. /\ Len(arriving') = Len(arriving) /\ arriving'[n] = a
      /\ \A m \in 1 .. Len(arriving) : m # n => arriving'[m] = arriving[m]
  BY OneArrives
<1>2. IsFiniteSet(Begun) /\ Cardinality(Begun) \in Nat
  BY BegunCount
<1>3. Begun' = IF a.at \in {"opened", "done"} THEN Begun \cup {n} ELSE Begun
  BY <1>1 DEF Begun
<1>4. n \in Begun <=> arriving[n].at \in {"opened", "done"}
  BY DEF Begun
<1>5. CASE Begun' = Begun
  <2>1. Cardinality(Begun') = Cardinality(Begun)
    BY <1>5
  <2>2. ~ (a.at \in {"opened", "done"} /\ arriving[n].at \notin {"opened", "done"})
    BY <1>3, <1>4, <1>5
  <2> QED
    BY <1>1, <1>2, <2>1, <2>2
<1>6. CASE Begun' = Begun \cup {n} /\ n \notin Begun
  <2>1. Cardinality(Begun') = Cardinality(Begun) + 1
    BY <1>2, <1>6, FS_AddElement
  <2> QED
    BY <1>1, <1>2, <2>1
<1> QED
  BY <1>3, <1>4, <1>5, <1>6

\* The visits and the engagements stay within their bound.
LEMMA EnterBounded ==
  ASSUME VisitInv, VisitsBounded, NEW s \in Sock, NEW g \in Guest, NEW walk \in BOOLEAN,
         EnterGuest(s, g, walk), engagements' = engagements
  PROVE  VisitsBounded'
<1> DEFINE a == [sock |-> s, guest |-> g, walk |-> walk, at |-> "context", engagement |-> None]
<1>1. arriving \in Seq(Arrival) /\ a \in Arrival /\ a.at = "context" /\ Len(arriving) \in Nat
  BY LenProperties DEF VisitInv, VisitsTyped, Arrival
<1>2. arriving' = Append(arriving, a) /\ Len(arriving) < MaxArrivals
  BY DEF EnterGuest
<1> HIDE DEF a
<1>3. /\ Len(arriving') = Len(arriving) + 1
      /\ \A n \in 1 .. Len(arriving) : arriving'[n] = arriving[n]
      /\ arriving'[Len(arriving) + 1] = a
  BY <1>1, <1>2, AppendProperties
<1>4. Begun' = Begun
  <2>1. \A n \in 1 .. Len(arriving') : n \in 1 .. Len(arriving) \/ n = Len(arriving) + 1
    BY <1>1, <1>3
  <2>2. \A n \in 1 .. Len(arriving) : n \in 1 .. Len(arriving')
    BY <1>1, <1>3
  <2> QED
    BY <1>1, <1>3, <2>1, <2>2 DEF Begun
<1>5. Cardinality(Begun') = Cardinality(Begun)
  BY <1>4
<1>6. Len(arriving') <= MaxArrivals
  BY <1>1, <1>2, <1>3, GuestAssumption
<1> QED
  BY <1>5, <1>6 DEF VisitsBounded

LEMMA VisitBounded ==
  ASSUME VisitInv, VisitsBounded, NEW n \in DOMAIN arriving, ArrivalStep(n)
  PROVE  VisitsBounded'
<1>1. n \in 1 .. Len(arriving) /\ arriving[n] \in Arrival
  BY ArrivalType
<1>2. Len(engagements) \in Nat /\ Cardinality(Begun) \in Nat /\ engagements \in Seq(EngagementRow)
  BY LenProperties, BegunCount DEF VisitInv, VisitsTyped
<1>3. ASSUME NEW fate \in Fates, ContextAnswered(n, fate) PROVE VisitsBounded'
  <2> DEFINE a == [arriving[n] EXCEPT !.at = IF Heard(fate) THEN "opening" ELSE "done"]
  <2>1. a \in Arrival /\ arriving[n].at = "context"
    BY <1>1, <1>3 DEF ContextAnswered, Arrival
  <2>2. arriving' = [arriving EXCEPT ![n] = a] /\ engagements' = engagements
    BY <1>3 DEF ContextAnswered, tables
  <2> HIDE DEF a
  <2>3. arriving[n].at \in {"opened", "done"} => a.at \in {"opened", "done"}
    BY <2>1
  <2>4. Len(arriving') = Len(arriving) /\ Cardinality(Begun)' >= Cardinality(Begun)
        /\ Cardinality(Begun)' \in Nat
    BY <1>1, <2>1, <2>2, <2>3, BegunGrows
  <2> QED
    BY <1>2, <2>2, <2>4 DEF VisitsBounded
<1>4. ASSUME NEW fate \in Fates, EngagementStarts(n, fate) PROVE VisitsBounded'
  <2> DEFINE got == AnswerOf(fate, Len(engagements) + 1)
             a == [arriving[n] EXCEPT !.at = "opened", !.engagement = got]
             row == [sock |-> arriving[n].sock, guest |-> arriving[n].guest, outcome |-> None]
  <2>1. got \in Nat \cup {None} /\ row \in EngagementRow
    BY <1>1, <1>2 DEF AnswerOf, Arrival, EngagementRow
  <2>2. a \in Arrival /\ a.at = "opened" /\ arriving[n].at = "opening"
    BY <1>1, <1>4, <2>1 DEF EngagementStarts, Arrival
  <2>3. /\ arriving' = [arriving EXCEPT ![n] = a]
        /\ engagements' = IF Lands(fate) THEN Append(engagements, row) ELSE engagements
    BY <1>4 DEF EngagementStarts
  <2> HIDE DEF a, row
  <2>4. Len(engagements') <= Len(engagements) + 1 /\ Len(engagements') \in Nat
    <3>1. CASE Lands(fate)
      BY <1>2, <2>1, <2>3, <3>1, AppendProperties
    <3>2. CASE ~Lands(fate)
      BY <1>2, <2>3, <3>2
    <3> QED
      BY <3>1, <3>2
  <2>5. Len(arriving') = Len(arriving) /\ Cardinality(Begun)' = Cardinality(Begun) + 1
    BY <1>1, <2>2, <2>3, BegunGrows
  <2> QED
    BY <1>2, <2>4, <2>5 DEF VisitsBounded
<1>5. CASE Engage(n)
  <2> DEFINE a == [arriving[n] EXCEPT !.at = "done", !.engagement = None]
  <2>1. a \in Arrival /\ a.at = "done"
    BY <1>1 DEF Arrival
  <2>2. arriving' = [arriving EXCEPT ![n] = a] /\ engagements' = engagements
    BY <1>5 DEF Engage, tables
  <2> HIDE DEF a
  <2>3. Len(arriving') = Len(arriving) /\ Cardinality(Begun)' >= Cardinality(Begun)
        /\ Cardinality(Begun)' \in Nat
    BY <1>1, <2>1, <2>2, BegunGrows
  <2> QED
    BY <1>2, <2>2, <2>3 DEF VisitsBounded
<1> QED
  BY <1>3, <1>4, <1>5 DEF ArrivalStep

\* The requests stay within theirs.
LEMMA GuestAsksBounded ==
  ASSUME RequestInv, AsksBounded, NEW g \in Guest, GuestStep(g)
  PROVE  AsksBounded'
<1>1. /\ requests \in Seq(RequestRow) /\ Len(requests) \in Nat /\ DOMAIN requests = 1 .. Len(requests)
      /\ ask \in [Guest -> AskRecord] /\ stop \in [Guest -> StopRecord]
  BY LenProperties DEF RequestInv, RowsTyped, AsksTyped, StopsTyped
<1>2. CASE UNCHANGED <<requests, ask, stop>>
  BY <1>2 DEF AsksBounded
<1>3. ASSUME NEW a \in AskRecord, requests' = requests, stop' = stop, ask' = [ask EXCEPT ![g] = a],
             a.req \in {None, ask[g].req}
      PROVE  AsksBounded'
  BY <1>1, <1>3 DEF AsksBounded
<1>4. ASSUME NEW p \in StopRecord, requests' = requests, ask' = ask, stop' = [stop EXCEPT ![g] = p],
             p.dropped \subseteq 1 .. Len(requests)
      PROVE  AsksBounded'
  BY <1>1, <1>4 DEF AsksBounded
<1>5. CASE Send(g)
  <2> DEFINE a == [ask[g] EXCEPT !.at = "checking"]
  <2>1. a \in AskRecord /\ a.req = ask[g].req
    BY <1>1 DEF AskRecord
  <2>2. ask' = [ask EXCEPT ![g] = a] /\ requests' = requests /\ stop' = stop
    BY <1>5 DEF Send, tables
  <2> HIDE DEF a
  <2> QED
    BY <1>3, <2>1, <2>2
<1>6. ASSUME NEW fate \in Fates, AskChecks(g, fate) PROVE AsksBounded'
  <2> DEFINE a == IF Lands(fate) /\ g \in present THEN [at |-> "inserting", req |-> None] ELSE NoAsk
  <2>1. a \in AskRecord /\ a.req = None
    BY DEF AskRecord, NoAsk
  <2>2. ask' = [ask EXCEPT ![g] = a] /\ requests' = requests /\ stop' = stop
    BY <1>6 DEF AskChecks, tables
  <2> HIDE DEF a
  <2> QED
    BY <1>3, <2>1, <2>2
<1>7. ASSUME NEW fate \in Fates, AskInserts(g, fate) PROVE AsksBounded'
  <2>1. /\ Len(requests) < MaxAsks /\ stop' = stop
        /\ requests' = Append(requests, [guest |-> g, status |-> "open", by |-> None, taker |-> None])
        /\ \E a \in {NoAsk, [at |-> "inserted", req |-> Len(requests) + 1]} : ask' = [ask EXCEPT ![g] = a]
    BY <1>7 DEF AskInserts
  <2>2. Len(requests') = Len(requests) + 1
    BY <2>1, RowInserted
  <2>3. PICK a \in {NoAsk, [at |-> "inserted", req |-> Len(requests) + 1]} : ask' = [ask EXCEPT ![g] = a]
    BY <2>1
  <2>4. a.req \in 1 .. Len(requests') \cup {None}
    BY <1>1, <2>2 DEF NoAsk
  <2>5. \A h \in Guest : ask'[h].req \in 1 .. Len(requests') \cup {None}
    BY <1>1, <2>2, <2>3, <2>4 DEF AsksBounded
  <2>6. \A h \in Guest : stop'[h].dropped \subseteq 1 .. Len(requests')
    BY <1>1, <2>1, <2>2 DEF AsksBounded
  <2>7. Len(requests') <= MaxAsks
    BY <1>1, <2>1, <2>2, GuestAssumption
  <2> QED
    BY <2>5, <2>6, <2>7 DEF AsksBounded
<1>8. CASE AskPushed(g)
  <2>1. NoAsk \in AskRecord /\ NoAsk.req = None
    BY DEF AskRecord, NoAsk
  <2>2. ask' = [ask EXCEPT ![g] = NoAsk] /\ requests' = requests /\ stop' = stop
    BY <1>8 DEF AskPushed, tables
  <2> QED
    BY <1>3, <2>1, <2>2
<1>9. CASE PressStop(g)
  <2> DEFINE p == [at |-> "revoking", before |-> AsksOf(g), dropped |-> {}]
  <2>1. p \in StopRecord /\ p.dropped = {}
    BY <1>1 DEF StopRecord, AsksOf
  <2>2. stop' = [stop EXCEPT ![g] = p] /\ requests' = requests /\ ask' = ask
    BY <1>9 DEF PressStop, tables
  <2> HIDE DEF p
  <2> QED
    BY <1>4, <2>1, <2>2
<1>10. ASSUME NEW fate \in Fates, Revoke(g, fate) PROVE AsksBounded'
  <2> DEFINE p == [stop[g] EXCEPT !.at = IF Heard(fate) THEN "cancelling" ELSE "failed"]
  <2>1. p \in StopRecord /\ p.dropped = stop[g].dropped
    BY <1>1 DEF StopRecord
  <2>2. stop' = [stop EXCEPT ![g] = p] /\ requests' = requests /\ ask' = ask
    BY <1>10 DEF Revoke
  <2>3. stop[g].dropped \subseteq 1 .. Len(requests)
    BY DEF AsksBounded
  <2> HIDE DEF p
  <2> QED
    BY <1>4, <2>1, <2>2, <2>3
<1>11. ASSUME NEW fate \in Fates, Cancel(g, fate) PROVE AsksBounded'
  <2> DEFINE p == [stop[g] EXCEPT !.at = IF Heard(fate) THEN "cancelled" ELSE "failed", !.dropped = CancelsOf(g)]
  <2>1. p.dropped \subseteq 1 .. Len(requests)
    BY <1>1 DEF CancelsOf, AsksOf, StopRecord
  <2>2. stop' = [stop EXCEPT ![g] = p] /\ ask' = ask
    BY <1>11 DEF Cancel
  <2>3. Len(requests') = Len(requests)
    <3>1. CASE requests' = requests
      BY <3>1
    <3>2. CASE requests' = [r \in DOMAIN requests |->
                              IF r \in CancelsOf(g)
                              THEN [requests[r] EXCEPT !.status = "cancelled"] ELSE requests[r]]
      BY <3>2, RowsCancelled
    <3> QED
      BY <1>11, <3>1, <3>2 DEF Cancel
  <2> HIDE DEF p
  <2> QED
    BY <1>1, <2>1, <2>2, <2>3 DEF AsksBounded
<1>12. CASE StopAnswered(g)
  <2>1. NoStop \in StopRecord /\ NoStop.dropped = {}
    BY DEF StopRecord, NoStop
  <2>2. stop' = [stop EXCEPT ![g] = NoStop] /\ requests' = requests /\ ask' = ask
    BY <1>12 DEF StopAnswered, tables
  <2> QED
    BY <1>4, <2>1, <2>2
<1>13. CASE \/ TapPlate(g) \/ WalkOn(g) \/ WalkDone(g) \/ Lapse(g)
            \/ \E fate \in Fates : CheckInLands(g, fate)
  BY <1>2, <1>13 DEF TapPlate, WalkOn, WalkDone, Lapse, CheckInLands, tables, guests
<1> QED
  BY <1>5, <1>6, <1>7, <1>8, <1>9, <1>10, <1>11, <1>12, <1>13 DEF GuestStep

\* Everything begun stays within its bound.
LEMMA BoundsStep ==
  ASSUME VisitInv, RequestInv, VisitsBounded, AsksBounded, [Next]_vars
  PROVE  VisitsBounded' /\ AsksBounded'
<1>1. UNCHANGED <<arriving, engagements>> => VisitsBounded'
  BY DEF VisitsBounded, Begun
<1>2. UNCHANGED <<requests, ask, stop>> => AsksBounded'
  BY DEF AsksBounded
<1>3. ASSUME NEW g \in Guest, GuestStep(g) PROVE VisitsBounded' /\ AsksBounded'
  <2>1. CASE WalkOn(g)
    <3>1. PICK s \in Sock : EnterGuest(s, g, TRUE)
      BY <2>1 DEF WalkOn, Covered, Up
    <3> QED
      BY <1>3, <2>1, <3>1, EnterBounded, GuestAsksBounded DEF WalkOn, tables
  <2>2. CASE ~WalkOn(g)
    <3>1. UNCHANGED <<arriving, engagements>>
      BY <1>3, <2>2 DEF GuestStep, TapPlate, WalkDone, Send, AskPushed, PressStop, StopAnswered, Lapse,
                        CheckInLands, AskChecks, AskInserts, Revoke, Cancel, tables, visits
    <3> QED
      BY <1>1, <1>3, <3>1, GuestAsksBounded
  <2> QED
    BY <2>1, <2>2
<1>4. ASSUME NEW n \in DOMAIN arriving, ArrivalStep(n) PROVE VisitsBounded' /\ AsksBounded'
  <2>1. UNCHANGED <<requests, ask, stop>>
    BY <1>4 DEF ArrivalStep, Engage, ContextAnswered, EngagementStarts, tables, guests
  <2> QED
    BY <1>2, <1>4, <2>1, VisitBounded
<1>5. ASSUME NEW s \in Sock, LensStep(s) PROVE VisitsBounded' /\ AsksBounded'
  <2>1. UNCHANGED <<requests, ask, stop>>
    BY <1>5 DEF LensStep, Register, Drop, PressCue, PressOffer, Hear, Beacon, tables, guests
  <2>2. CASE \E g \in Guest : Beacon(s, g)
    BY <1>2, <2>1, <2>2, EnterBounded DEF Beacon, tables
  <2>3. CASE Register(s) \/ Drop(s) \/ PressCue(s) \/ PressOffer(s) \/ Hear(s)
    <3>1. UNCHANGED <<arriving, engagements>>
      BY <2>3 DEF Register, Drop, PressCue, PressOffer, Hear, tables, visits
    <3> QED
      BY <1>1, <1>2, <2>1, <3>1
  <2> QED
    BY <1>5, <2>2, <2>3 DEF LensStep
<1>6. ASSUME NEW c \in claims, ClaimStep(c) PROVE VisitsBounded' /\ AsksBounded'
  <2>1. UNCHANGED <<arriving, engagements, ask, stop>>
    BY <1>6 DEF ClaimStep, ClaimAnswered, ClaimLands, tables, visits, guests
  <2>2. CASE requests' = requests
    BY <1>1, <1>2, <2>1, <2>2
  <2>3. CASE /\ Claimable(c.req)
             /\ \E user \in LookedUp(c.sock) :
                  requests' = [requests EXCEPT ![c.req] = Claimed(@, c.sock, user)]
    <3>1. c.req \in 1 .. Len(requests) /\ c.sock \in Sock
      BY DEF RequestInv, ClaimsTyped, ClaimRecord
    <3>2. Len(requests') = Len(requests)
      BY <2>3, <3>1, RowClaimed
    <3> QED
      BY <1>1, <2>1, <3>2 DEF AsksBounded
  <2> QED
    BY <1>6, <2>2, <2>3 DEF ClaimStep, ClaimAnswered, ClaimLands, tables
<1>7. ASSUME NEW call \in wire, NEW fate \in Fates, WireLands(call, fate)
      PROVE  VisitsBounded' /\ AsksBounded'
  <2>1. UNCHANGED <<requests, ask, stop, arriving>>
    BY <1>7 DEF WireLands, guests
  <2>2. Len(engagements') = Len(engagements)
    <3>1. engagements \in Seq(EngagementRow)
      BY DEF VisitInv, VisitsTyped
    <3> QED
      BY <1>7, <3>1 DEF WireLands, Ended
  <2> QED
    BY <1>2, <2>1, <2>2 DEF VisitsBounded, Begun
<1>8. CASE UNCHANGED vars
  BY <1>1, <1>2, <1>8 DEF vars, tables, visits, guests
<1> QED
  BY <1>3, <1>4, <1>5, <1>6, <1>7, <1>8 DEF Next, WireStep

\* The tables, the calls in progress and the lenses keep their types, and no
\* more engagements are begun than guests arrive, answers lost or not.
THEOREM GuestsTypeCorrect == Spec => []TypeOK
<1> DEFINE Inv == VisitInv /\ RequestInv /\ GuestsTyped /\ VisitsBounded /\ AsksBounded
<1>1. Init => GuestsTyped /\ VisitsBounded /\ AsksBounded
  <2> SUFFICES ASSUME Init PROVE GuestsTyped /\ VisitsBounded /\ AsksBounded
    OBVIOUS
  <2>1. GuestsTyped
    BY GuestAssumption DEF Init, GuestsTyped
  <2>2. arriving = <<>> /\ engagements = <<>> /\ Len(arriving) = 0 /\ Len(engagements) = 0 /\ Begun = {}
    BY DEF Init, Begun
  <2>3. VisitsBounded
    BY <2>2, FS_EmptySet, GuestAssumption DEF VisitsBounded
  <2>4. AsksBounded
    BY GuestAssumption DEF Init, AsksBounded, NoAsk, NoStop
  <2> QED
    BY <2>1, <2>3, <2>4
<1>2. Init => Inv
  BY <1>1, VisitInit, RequestInit
<1>3. Inv /\ [Next]_vars => Inv'
  BY VisitStep, RequestStep, GuestsKeep, BoundsStep
<1>4. Inv => TypeOK
  BY WithinTypes
<1> QED
  BY <1>2, <1>3, <1>4, PTL DEF Spec
=============================================================================
