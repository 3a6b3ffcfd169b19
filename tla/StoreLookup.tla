---------------------------- MODULE StoreLookup ----------------------------
(***************************************************************************)
(* The Shopify adapter of a tenant and the requests that read the store    *)
(* through it: the photograph of a tag (vision.py), the floor checkout     *)
(* (checkout.py), the question by voice and the guest card (main.py).      *)
(* They share one adapter: its minted token and its cache.  A query takes  *)
(* time, may fail, and is stamped in the cache when its answer arrives.    *)
(*                                                                         *)
(* Photographs, the language model and the transcription are what they may *)
(* return; a product is a code and the units of it the store has.          *)
(***************************************************************************)
EXTENDS NoValue, Naturals, Sequences, FiniteSets, SequencesExt

CONSTANTS
    Code,             \* codes a tag may carry
    Page,             \* codes among the thirty products of the floor records
    Units,            \* counts of the store
    Basket,           \* baskets that are checked out: sequences of items
    Request, Kinds,   \* requests, each made once, and what each may be
    TTL, FetchTime,   \* CACHE_TTL and the timeout of a query
    Life, Margin,     \* life of a minted token, and how long before its end it is minted again
    MaxTime,          \* bound on the clock
    MaxSales,         \* bound on the changes of the store
    Raised            \* a query that failed

\* An item that carries no code: a resolved variant, a custom line, a custom
\* line whose title is only spaces, and an item that names nothing.
OtherItems == {"variant", "titled", "spaces", "nothing"}

ASSUME StoreAssumption ==
    /\ {TTL, FetchTime, Life, Margin, MaxTime} \subseteq Nat
    /\ Page \subseteq Code /\ Units \subseteq Nat /\ {None, Raised} \cap Units = {}
    /\ Code \cap (OtherItems \cup {"inventory", "guest", "cart", "draft"}) = {}
    /\ Basket \subseteq Seq(Code \cup OtherItems) /\ Raised # "url"
    /\ Kinds \in [Request -> SUBSET {"scan", "part", "link", "ask", "visit"}]

VARIABLES
    clock,
    shelf,    \* the store: the units of a code, None when it does not carry it
    was,      \* history: the units a code had, and until when
    drafts,   \* draft orders in the store: who made it, and what is on it
    token,    \* the minted token: when the adapter holds it to end
    cached,   \* _cache: per key, None or the value and its stamp
    req       \* the requests

storevars == <<clock, shelf, was, drafts, token, cached, req>>

CacheKeys == Code \cup {"inventory"}

NotAsked == [kind |-> "none", stage |-> "idle", key |-> None, code |-> None, items |-> <<>>,
             lines |-> <<>>, skipped |-> {}, at |-> 0, got |-> None,
             says |-> "nothing", count |-> None]

StoreInit ==
    /\ clock = 0 /\ shelf \in [Code -> Units] /\ was = {} /\ drafts = {}
    /\ token = None /\ cached = [k \in CacheKeys |-> None] /\ req = [r \in Request |-> NotAsked]

Calls(kind, key, code) == [NotAsked EXCEPT !.kind = kind, !.stage = "call", !.key = key, !.code = code]
Says(q, what, n) == [NotAsked EXCEPT !.kind = q.kind, !.stage = "done", !.code = q.code, !.skipped = q.skipped,
                                     !.says = what, !.count = n]
Become(r, q) == req' = [req EXCEPT ![r] = q]

----------------------------------------------------------------------------
(* What each request does with an answer of the adapter.                   *)

\* A record by its code, else a record among the floor's, else nothing: the
\* lookup that raised and the lookup that found nothing go the same way.
_lookup(v) == IF v \in Units THEN v ELSE None

_sku_answer(q, v) ==
    CASE q.key # "inventory" /\ _lookup(v) # None -> Says(q, "record", v)
      [] q.key # "inventory" /\ _lookup(v) = None -> [q EXCEPT !.stage = "call", !.key = "inventory"]
      [] q.key = "inventory" /\ (v = Raised \/ v = <<>>) -> Says(q, "no_records", None)
      [] OTHER -> IF q.code \in DOMAIN v THEN Says(q, "record", v[q.code]) ELSE Says(q, "not_carried", None)

_part_answer(q, v) ==
    IF v # Raised /\ q.code \in DOMAIN v THEN Says(q, "record", v[q.code]) ELSE Says(q, "model_read", None)

\* A lookup without a hit is named as skipped, whatever the reason.
Unresolved_Forgets(q, c) == [q EXCEPT !.items = Tail(@), !.stage = "resolve"]
Unresolved(q, c) == [q EXCEPT !.items = Tail(@), !.stage = "resolve", !.skipped = @ \cup {c}]

build_link(q, v) ==
    CASE q.key = "draft" -> Says(q, IF v = "url" THEN "link" ELSE "refused", None)
      [] q.key # "draft" /\ v \in Units ->
            [q EXCEPT !.items = Tail(@), !.stage = "resolve", !.lines = Append(@, q.key)]
      [] OTHER -> Unresolved(q, q.key)

\* The guest, then the cart (without which the card goes on), then the floor.
guest_context(q, v) ==
    CASE q.key = "guest" /\ v = Raised -> Says(q, "error", None)
      [] q.key = "guest" /\ v = None -> IF q.kind = "visit" THEN Says(q, "unknown_guest", None)
                                        ELSE [q EXCEPT !.stage = "call", !.key = "inventory"]
      [] q.key = "guest" /\ v = "found" -> [q EXCEPT !.stage = "call", !.key = "cart"]
      [] q.key = "cart" -> [q EXCEPT !.stage = "call", !.key = "inventory"]
      [] OTHER -> Says(q, IF v = Raised THEN "error" ELSE "answer", None)

Goes(q, v) ==
    CASE q.kind = "scan" -> _sku_answer(q, v)
      [] q.kind = "part" -> _part_answer(q, v)
      [] q.kind = "link" -> build_link(q, v)
      [] OTHER -> guest_context(q, v)

----------------------------------------------------------------------------
(* The requests.                                                           *)

\* Without a code: refused by a gate (the switch, the kind, the type, the
\* payload, a provider without vision), or a line that says why there is
\* none (an outage, a person, no reading).
NotACode == {"refused", "no_code"}

analyze(r, photo) ==
    /\ "scan" \in Kinds[r] /\ req[r].stage = "idle"
    /\ Become(r, IF photo \in Code THEN Calls("scan", photo, photo)
                 ELSE Says([NotAsked EXCEPT !.kind = "scan"], photo, None))
    /\ UNCHANGED <<clock, shelf, was, drafts, token, cached>>

analyze_part(r, code) ==
    /\ "part" \in Kinds[r] /\ req[r].stage = "idle" /\ Become(r, Calls("part", "inventory", code))
    /\ UNCHANGED <<clock, shelf, was, drafts, token, cached>>

checkout_link(r, basket) ==
    /\ "link" \in Kinds[r] /\ req[r].stage = "idle"
    /\ Become(r, IF basket = <<>> THEN Says([NotAsked EXCEPT !.kind = "link"], "refused", None)
                 ELSE [NotAsked EXCEPT !.kind = "link", !.stage = "resolve", !.items = basket, !.code = ToSet(basket)])
    /\ UNCHANGED <<clock, shelf, was, drafts, token, cached>>

\* One turn of the loop over the items; after it, the draft.
Resolve(r) ==
    LET q == req[r]
    IN /\ q.stage = "resolve"
       /\ Become(r,
            CASE q.items = <<>> /\ q.lines = <<>> -> Says(q, "refused", None)
              [] q.items = <<>> /\ ToSet(q.lines) = {"spaces"} -> Says(q, "refused", None)
              [] q.items = <<>> /\ ToSet(q.lines) \ {"spaces"} # {} -> [q EXCEPT !.stage = "call", !.key = "draft"]
              [] q.items # <<>> /\ Head(q.items) \in Code -> [q EXCEPT !.stage = "call", !.key = Head(q.items)]
              [] q.items # <<>> /\ Head(q.items) = "nothing" -> [q EXCEPT !.items = Tail(@)]
              [] OTHER -> [q EXCEPT !.items = Tail(@), !.lines = Append(@, Head(q.items))])
       /\ UNCHANGED <<clock, shelf, was, drafts, token, cached>>

\* A question by voice: refused (the switch, the audio), not caught, or
\* answered with or without a guest.  The guest card asks for the guest first.
voice_query(r, heard) ==
    /\ "ask" \in Kinds[r] /\ req[r].stage = "idle"
    /\ Become(r, CASE heard \in {"refused", "not_caught"} -> Says([NotAsked EXCEPT !.kind = "ask"], heard, None)
                   [] heard = "about_guest" -> Calls("ask", "guest", None)
                   [] heard = "about_floor" -> Calls("ask", "inventory", None))
    /\ UNCHANGED <<clock, shelf, was, drafts, token, cached>>

visit(r) ==
    /\ "visit" \in Kinds[r] /\ req[r].stage = "idle" /\ Become(r, Calls("visit", "guest", None))
    /\ UNCHANGED <<clock, shelf, was, drafts, token, cached>>

----------------------------------------------------------------------------
(* The adapter.                                                            *)

Fresh_Forever(e) == e # None
Fresh(e) == e # None /\ clock - e.stamp < TTL

Hits(q) == q.key \in CacheKeys /\ Fresh(cached[q.key])

TokenEnds(until) == until # None => clock + Margin > until

_cached(r) ==
    /\ req[r].stage = "call" /\ Hits(req[r])
    /\ Become(r, Goes(req[r], cached[req[r].key].value))
    /\ UNCHANGED <<clock, shelf, was, drafts, token, cached>>

\* _token: its life is counted from the answer.
Mint(r) ==
    /\ req[r].stage = "call" /\ ~Hits(req[r]) /\ TokenEnds(token)
    /\ Become(r, [req[r] EXCEPT !.stage = "minting", !.at = clock])
    /\ UNCHANGED <<clock, shelf, was, drafts, token, cached>>

\* What the store may answer now.
Replies(q) ==
    CASE q.key \in Code -> {shelf[q.key]}
      [] q.key = "inventory" -> LET carried == {c \in Page : shelf[c] # None}
                                IN {IF carried = {} THEN <<>> ELSE [c \in carried |-> shelf[c]]}
      [] q.key = "guest" -> {"found", None}
      [] q.key = "cart" -> {"found"}
      [] q.key = "draft" -> {"url", "no_url", "user_errors"}
      [] OTHER -> {}

\* The token that was minted, or the one still held, goes with the query.
Sends(r, t, v) ==
    LET q == req[r]
    IN /\ token' = t
       /\ Become(r, [q EXCEPT !.stage = "sent", !.at = clock, !.got = v])
       /\ drafts' = IF q.key = "draft" /\ v # "user_errors"
                    THEN drafts \cup {[by |-> r, lines |-> ToSet(q.lines) \ {"spaces"}]} ELSE drafts
       /\ UNCHANGED <<clock, shelf, was, cached>>

Minted(r, v) == req[r].stage = "minting" /\ Sends(r, clock + Life, v)
query(r, v) == req[r].stage = "call" /\ ~Hits(req[r]) /\ ~TokenEnds(token) /\ Sends(r, token, v)

Answered(r) ==
    LET q == req[r]
    IN /\ q.stage = "sent"
       /\ cached' = IF q.key \in CacheKeys THEN [cached EXCEPT ![q.key] = [value |-> q.got, stamp |-> clock]] ELSE cached
       /\ Become(r, Goes(q, q.got))
       /\ UNCHANGED <<clock, shelf, was, drafts, token>>

\* A timeout, an HTTP error or a GraphQL error, of the token or of the query.
Fails(r) ==
    /\ req[r].stage \in {"minting", "sent"}
    /\ Become(r, Goes(req[r], Raised))
    /\ UNCHANGED <<clock, shelf, was, drafts, token, cached>>

\* The store: somebody buys, restocks, lists or delists.
Sell(c, n) ==
    /\ Cardinality(was) < MaxSales /\ n # shelf[c]
    /\ was' = was \cup {[code |-> c, count |-> shelf[c], until |-> clock]}
    /\ shelf' = [shelf EXCEPT ![c] = n]
    /\ UNCHANGED <<clock, drafts, token, cached, req>>

\* No query outlasts its timeout.
Passes ==
    /\ clock < MaxTime /\ \A r \in Request : req[r].stage \in {"minting", "sent"} => clock - req[r].at < FetchTime
    /\ clock' = clock + 1
    /\ UNCHANGED <<shelf, was, drafts, token, cached, req>>

StoreNext ==
    \/ \E r \in Request :
        \/ \E photo \in Code \cup NotACode : analyze(r, photo)
        \/ \E code \in Code \cup {None} : analyze_part(r, code)
        \/ \E basket \in Basket : checkout_link(r, basket)
        \/ \E heard \in {"refused", "not_caught", "about_guest", "about_floor"} : voice_query(r, heard)
        \/ visit(r) \/ Resolve(r) \/ _cached(r) \/ Mint(r) \/ Answered(r) \/ Fails(r)
        \/ \E v \in Replies(req[r]) : Minted(r, v) \/ query(r, v)
    \/ \E c \in Code, n \in Units \cup {None} : Sell(c, n)
    \/ Passes

StoreSpec == StoreInit /\ [][StoreNext]_storevars

----------------------------------------------------------------------------

\* The state stays within the shapes the adapter and the requests give it.
StoreTypeOK ==
    /\ clock \in 0..MaxTime /\ shelf \in [Code -> Units \cup {None}]
    /\ \A k \in CacheKeys : cached[k] # None => cached[k].stamp <= clock
    /\ \A r \in Request : req[r].at <= clock /\ req[r].skipped \subseteq Code

\* A value the store held for c at some time since t.
HeldSince(c, n, t) ==
    \/ shelf[c] = n
    \/ \E w \in was : w.code = c /\ w.count = n /\ w.until >= t

(* A count printed on the glass was the store's at most a cache life and a *)
(* query before it was printed: the cache is stamped when the answer       *)
(* arrives, and two queries for one key may finish in the other order.     *)
CountsAreRecent ==
    [][\A r \in Request : req'[r].says = "record" /\ req[r].says # "record" =>
        \/ clock <= TTL + FetchTime
        \/ HeldSince(req'[r].code, req'[r].count, clock - TTL - FetchTime)]_storevars

(* Every code of the basket of a link is a line of its draft order in the  *)
(* store or named as skipped, whatever failed between the lookups.         *)
CodesAreAccountedFor ==
    \A r \in Request : req[r].says = "link" =>
        \E d \in drafts : d.by = r /\ req[r].code \cap Code \subseteq d.lines \cup req[r].skipped
============================================================================
