------------------------------ MODULE Pipeline ------------------------------
(***************************************************************************)
(* The sales pipeline: growth.py and the deck opens of decks.py that feed  *)
(* it.  A lead, its touches and the raw record of opens are written by     *)
(* separate statements, and an open, an edit and the two sweeps run beside *)
(* each other.                                                             *)
(***************************************************************************)
EXTENDS NoValue, Integers, Sequences, FiniteSets

CONSTANTS
  Lead,           \* row ids to hand out
  Email,          \* addresses, case folded
  Stage,          \* the stages that edits name
  MaxTouches,     \* bound on the touches of a lead
  Writer,         \* requests under way at once
  QueueLimit      \* rows the work queue reads, 500

ASSUME PipelineAssumption ==
  /\ Stage \subseteq {"new", "contacted", "replied", "demo", "pilot_scoped",
                      "pilot_live", "won", "lost", "nurture"}
  /\ "new" \in Stage
  /\ MaxTouches \in Nat /\ QueueLimit \in Nat /\ None # "awaiting_reply"
  /\ IsFiniteSet(Lead)

VARIABLES
  leads,     \* the table leads
  activities, \* the table lead_activities: per lead, its touches in order
  opens,     \* the table deck_leads: addresses that opened a deck and are not redacted
  writers,   \* requests under way
  sweeping   \* growth.sweep_leads() under way: the leads whose words it took

pipevars == <<leads, activities, opens, writers, sweeping>>

\* `words' is body IS NOT NULL; `after' is history: written once the sweep that
\* takes the lead's words had begun.
Touch == [kind: {"email", "note", "deck", "stage"}, dir: {"in", "out", None}, words: BOOLEAN, after: BOOLEAN]
\* Which door produced the lead decides nothing, and is left out.
\* `aged': created more than 730 days ago; `stale': not updated in 120.  `crossed'
\* is history: it came of age between the two statements that redacted it.
LeadRow == [email: Email, stage: Stage, named: BOOLEAN, redacted: BOOLEAN,
            aged: BOOLEAN, stale: BOOLEAN, crossed: BOOLEAN]
Off == [at |-> "off"]

ASSUME NoRowAssumption == None \notin LeadRow

PipeInit ==
  /\ leads = [l \in Lead |-> None] /\ activities = [l \in Lead |-> <<>>]
  /\ opens = {}
  /\ writers = [w \in Writer |-> Off]
  /\ sweeping = None

Made == {l \in Lead : leads[l] # None}
\* The partial unique index: one row per address that is not redacted.
Current(e) == {l \in Made : leads[l].email = e /\ ~leads[l].redacted}

-----------------------------------------------------------------------------
(* The doors. *)

\* The conflict arms: names are filled in, the stage is left alone, and
\* updated_at is now.
Refreshed(row) == [row EXCEPT !.named = TRUE, !.stale = FALSE]

\* record_site_lead(), create_lead() and the first statement of record_deck_open():
\* one upsert, whose stage counts for a new row alone.
Upsert(e, stage, l) ==
  \/ /\ l \in Current(e)
     /\ leads' = [leads EXCEPT ![l] = Refreshed(@)]
  \/ /\ Current(e) = {} /\ l \notin Made
     /\ leads' = [leads EXCEPT ![l] = [email |-> e, stage |-> stage, named |-> TRUE,
                                       redacted |-> FALSE,
                                       aged |-> FALSE, stale |-> FALSE, crossed |-> FALSE]]

SiteLead(e) ==
  /\ \E l \in Lead : Upsert(e, "new", l)
  /\ UNCHANGED <<activities, opens, writers, sweeping>>

CreateLead(e, stage) ==
  /\ \E l \in Lead : Upsert(e, stage, l)
  /\ UNCHANGED <<activities, opens, writers, sweeping>>

\* decks.record_lead(): the raw record first.
DeckOpen(w, e) ==
  /\ writers[w] = Off
  /\ opens' = opens \cup {e}
  /\ writers' = [writers EXCEPT ![w] = [at |-> "mirror", email |-> e]]
  /\ UNCHANGED <<leads, activities, sweeping>>

\* record_deck_open(), whose failure is printed and costs the reader nothing.
Mirror(w) ==
  /\ writers[w].at = "mirror"
  /\ \/ \E l \in Lead :
          /\ Upsert(writers[w].email, "new", l)
          /\ writers' = [writers EXCEPT ![w] =
               [at |-> "touch", lead |-> l, kind |-> "deck", dir |-> None]]
     \/ writers' = [writers EXCEPT ![w] = Off] /\ UNCHANGED leads
  /\ UNCHANGED <<activities, opens, sweeping>>

-----------------------------------------------------------------------------
(* Touches and stages. *)

\* add_activity() as the panel calls it: an email, a reply or a note.
AddActivity(w, l, kind, dir) ==
  /\ writers[w] = Off /\ l \in Made
  /\ writers' = [writers EXCEPT ![w] =
       [at |-> "touch", lead |-> l, kind |-> kind, dir |-> dir]]
  /\ UNCHANGED <<leads, activities, opens, sweeping>>

InSweep(l) == leads[l].redacted \/ (sweeping # None /\ l \in sweeping)

\* Its insert ...
Insert(w) ==
  /\ writers[w].at = "touch"
  /\ LET l == writers[w].lead IN
     /\ Len(activities[l]) < MaxTouches
     /\ activities' = [activities EXCEPT ![l] = Append(@,
          [kind |-> writers[w].kind, dir |-> writers[w].dir, words |-> TRUE, after |-> InSweep(l)])]
  /\ writers' = [writers EXCEPT ![w] = [at |-> "stamp", lead |-> writers[w].lead]]
  /\ UNCHANGED <<leads, opens, sweeping>>

\* ... and then updated_at, which decides whether the queue looks at the lead;
\* the service may stop before it.
StampLead(w) ==
  /\ writers[w].at = "stamp"
  /\ writers' = [writers EXCEPT ![w] = Off]
  /\ leads' \in {leads, [leads EXCEPT ![writers[w].lead].stale = FALSE]}
  /\ UNCHANGED <<activities, opens, sweeping>>

\* update_lead(): the row is read, and its stage compared with the one asked for.
Edit(w, l, stage) ==
  /\ writers[w] = Off /\ l \in Made
  /\ writers' = [writers EXCEPT ![w] = [at |-> "edit", lead |-> l, from |-> leads[l].stage,
                                        to |-> stage]]
  /\ UNCHANGED <<leads, activities, opens, sweeping>>

\* A stage change writes its own activity row.
Logged(w) == [at |-> "touch", lead |-> writers[w].lead, kind |-> "stage", dir |-> None]

\* The UPDATE, and the service may stop before the row that logs it.
Write(w) ==
  /\ writers[w].at = "edit"
  /\ LET l == writers[w].lead IN
     IF writers[w].to = writers[w].from
     THEN /\ writers' = [writers EXCEPT ![w] = Off]
          /\ leads' = [leads EXCEPT ![l].stale = FALSE]
     ELSE /\ leads' = [leads EXCEPT ![l].stage = writers[w].to, ![l].stale = FALSE]
          /\ \/ writers' = [writers EXCEPT ![w] = Logged(w)]
             \/ writers' = [writers EXCEPT ![w] = Off]
  /\ UNCHANGED <<activities, opens, sweeping>>

-----------------------------------------------------------------------------
(* Time, and retention, run by one sweep at a time here. *)

ComesOfAge(l) ==
  /\ l \in Made /\ leads' = [leads EXCEPT ![l].aged = TRUE]
  /\ UNCHANGED <<activities, opens, writers, sweeping>>

GoesStale(l) ==
  /\ l \in Made /\ leads' = [leads EXCEPT ![l].stale = TRUE]
  /\ UNCHANGED <<activities, opens, writers, sweeping>>

\* The rows either statement of the sweep is about, when it runs.
ToRedact == {l \in Made : leads[l].aged /\ ~leads[l].redacted}

Wordless_Replies(touches) == [i \in DOMAIN touches |-> [touches[i] EXCEPT !.words = @ /\ touches[i].dir # "in"]]
\* SET body = NULL, of every touch of the lead.
Wordless(touches) == [i \in DOMAIN touches |-> [touches[i] EXCEPT !.words = FALSE]]

\* growth.sweep_leads(): the bodies of the touches of aged leads ...
SweepWords ==
  /\ sweeping = None
  /\ sweeping' = ToRedact
  /\ activities' = [l \in Lead |-> IF l \in ToRedact THEN Wordless(activities[l]) ELSE activities[l]]
  /\ UNCHANGED <<leads, opens, writers>>

\* ... and then the leads that are aged by now, unless it stops or fails before.
SweepLeads ==
  /\ sweeping # None
  /\ \/ leads' = [l \in Lead |->
           IF l \in ToRedact
           THEN [leads[l] EXCEPT !.named = FALSE, !.redacted = TRUE, !.crossed = (l \notin sweeping)]
           ELSE leads[l]]
     \/ UNCHANGED leads
  /\ sweeping' = None
  /\ UNCHANGED <<activities, opens, writers>>

\* decks.sweep_leads()
SweepOpens(e) ==
  /\ e \in opens
  /\ opens' = opens \ {e}
  /\ UNCHANGED <<leads, activities, writers, sweeping>>

PipeNext ==
  \/ \E e \in Email : \/ SiteLead(e) \/ SweepOpens(e)
                      \/ \E t \in Stage : CreateLead(e, t)
  \/ \E w \in Writer : \/ \E e \in Email : DeckOpen(w, e)
                       \/ Mirror(w) \/ Insert(w) \/ StampLead(w) \/ Write(w)
                       \/ \E l \in Lead : \/ \E t \in Stage : Edit(w, l, t)
                                          \/ AddActivity(w, l, "email", "in")
                                          \/ AddActivity(w, l, "email", "out")
                                          \/ AddActivity(w, l, "note", None)
  \/ \E l \in Lead : ComesOfAge(l) \/ GoesStale(l)
  \/ SweepWords \/ SweepLeads

PipeSpec == PipeInit /\ [][PipeNext]_pipevars

-----------------------------------------------------------------------------
(* The work queue. *)

\* The place of the newest touch of a sort, 0 for never: max(at) FILTER (...).
Newest(places) == CHOOSE i \in places \cup {0} : \A j \in places : j <= i

LastReply(l)    == Newest({i \in DOMAIN activities[l] : activities[l][i].dir = "in"})
LastOutbound(l) == Newest({i \in DOMAIN activities[l] : activities[l][i].dir = "out"})
LastOpen(l)     == Newest({i \in DOMAIN activities[l] : activities[l][i].kind = "deck"})
LastTouch(l)    == Newest(DOMAIN activities[l])

\* The rows work_queue() selects, and those it is sure to return: beyond its
\* LIMIT, which has no ORDER BY, any of them may be missing.
InPlay(l) ==
  leads[l].stage \notin {"won", "lost", "nurture"} /\ ~leads[l].redacted /\ ~leads[l].stale
Selected == {l \in Made : InPlay(l)}
Returned(l) == l \in Selected /\ Cardinality(Selected) <= QueueLimit

AnsweredBy_LastTouch(l) == LastTouch(l)
\* What an unanswered reply is measured against.
AnsweredBy(l) == LastOutbound(l)

\* _why_it_needs_you(), `quiet' when enough days have gone by.
Reason(l, quiet) ==
  IF LastReply(l) > 0 /\ LastReply(l) >= AnsweredBy(l) THEN "awaiting_reply"
  ELSE IF LastOpen(l) > 0 /\ LastOpen(l) >= LastOutbound(l) THEN "opened_untouched"
  ELSE IF LastOutbound(l) > LastReply(l) /\ quiet THEN "gone_quiet"
  ELSE IF leads[l].stage \in {"demo", "pilot_scoped", "pilot_live"} /\ quiet THEN "stalled"
  ELSE None

-----------------------------------------------------------------------------
(* Properties. *)

PipeTypeOK ==
  /\ leads \in [Lead -> LeadRow \cup {None}]
  /\ \A l \in Lead : \A i \in DOMAIN activities[l] : activities[l][i] \in Touch
  /\ \A l \in Lead : leads[l] = None => activities[l] = <<>>
  /\ opens \subseteq Email

\* "The person in it is not" worth keeping: a redacted lead has no name, and
\* keeps no word but those written once its sweep had begun and, for good, those
\* of a lead that came of age between the two statements of the sweep.
SweepTakesTheWords ==
  \A l \in Made : leads[l].redacted =>
    /\ ~leads[l].named
    /\ leads[l].crossed \/ \A i \in DOMAIN activities[l] : activities[l][i].words => activities[l][i].after

\* A lead that the queue is sure to show first, as one that waits on us.
WaitsOnUs(l) == Returned(l) /\ Reason(l, FALSE) = "awaiting_reply"

\* "A warm merchant is waiting on you": a reply stays first in the queue through
\* every note, deck open and edit, until something goes out, the lead is ended,
\* parked or redacted, nobody has touched it in 120 days, or more leads are in
\* play than the queue reads.
ReplyStaysOnTop ==
  [][\A l \in Made :
       WaitsOnUs(l) =>
         \/ WaitsOnUs(l)'
         \/ LastOutbound(l)' > LastOutbound(l)
         \/ leads'[l].stage \in {"won", "lost", "nurture"}
         \/ leads'[l].redacted \/ leads'[l].stale
         \/ Cardinality(Selected') > QueueLimit]_pipevars
=============================================================================
