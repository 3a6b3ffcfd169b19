------------------------------ MODULE Throttle ------------------------------
(***************************************************************************)
(* The rate limits of the service (auth.py): one table of deques, keyed by *)
(* address or by bucket and address, shared by the threads that serve the  *)
(* requests.  A call reads the time and finds its deque, drops the hits    *)
(* that have left the window, compares the length with the limit and       *)
(* appends itself: four steps, without a lock.  A call that finds the      *)
(* table too large lists the idle buckets and then drops them one by one,  *)
(* whatever the other threads have done to them meanwhile.                 *)
(***************************************************************************)
EXTENDS Naturals, Sequences, FiniteSets, NoValue

CONSTANTS
    Key,            \* addresses, and buckets with an address or an e-mail
    Thread,         \* threads that serve requests
    Limit, Window,  \* hits a key may have in a window, and its length
    IdleAfter,      \* age of the last hit from which a bucket is idle (RATE_WINDOW * 5)
    MaxClock,       \* bound on the clock
    MaxDeques       \* bound on the deques made

ASSUME ThrottleAssumption ==
    /\ Limit \in Nat \ {0} /\ Window \in Nat \ {0} /\ IdleAfter \in Nat /\ IdleAfter >= Window
    /\ MaxClock \in Nat /\ MaxDeques \in Nat /\ None \notin Nat

VARIABLES
    clock,      \* the monotonic clock
    hits,       \* the deques, in the order they were made
    table,      \* _hits: the deque of each key, None when it has none
    call,       \* what each thread is doing: step, key, deque, its time
    listing,    \* keys the table began with, those examined, those listed as idle
    admitted,   \* history: when each key was let through
    contended,  \* history: keys with two calls at once, or a call while they were listed
    refusedAt   \* history: key and time of the last refusal of this instant

throttlevars == <<clock, hits, table, call, listing, admitted, contended, refusedAt>>

AtRest == [step |-> "rest", key |-> None, deque |-> 0, now |-> 0]
NoList == [began |-> {}, seen |-> {}, idle |-> {}]

ThrottleInit ==
    /\ clock = 0 /\ hits = <<>> /\ table = [k \in Key |-> None]
    /\ call = [c \in Thread |-> AtRest] /\ listing = [c \in Thread |-> NoList]
    /\ admitted = [k \in Key |-> <<>>] /\ contended = {} /\ refusedAt = None

Left_OneLate(now, at) == now - at > Window + 1
Left(now, at) == now - at > Window

Reached_Over(n) == n > Limit
Reached(n) == n >= Limit

\* Threads under way with key k.
Inside(k) == {c \in Thread : call[c].step # "rest" /\ call[c].key = k}
\* Threads that have listed k as idle, and have not dropped it yet.
HeldAsIdle(k) == {c \in Thread : k \in listing[c].idle}

Enter(c, k) ==
    /\ call[c].step = "rest"
    /\ table[k] = None => Len(hits) < MaxDeques
    /\ LET d == IF table[k] = None THEN Len(hits) + 1 ELSE table[k]
       IN /\ hits' = IF table[k] = None THEN Append(hits, <<>>) ELSE hits
          /\ table' = [table EXCEPT ![k] = d]
          /\ call' = [call EXCEPT ![c] = [step |-> "prune", key |-> k, deque |-> d, now |-> clock]]
    /\ contended' = IF Inside(k) = {} /\ HeldAsIdle(k) = {} THEN contended ELSE contended \cup {k}
    /\ UNCHANGED <<clock, listing, admitted, refusedAt>>

\* The head of the while loop.
Look(c) ==
    /\ call[c].step = "prune"
    /\ LET h == hits[call[c].deque]
           old == h # <<>> /\ Left(call[c].now, Head(h))
       IN call' = [call EXCEPT ![c].step = IF old THEN "pop" ELSE "count"]
    /\ UNCHANGED <<clock, hits, table, listing, admitted, contended, refusedAt>>

\* popleft takes whatever is first by now; of an empty deque it raises.
PopLeft(c) ==
    /\ call[c].step = "pop"
    /\ LET d == call[c].deque
       IN \/ /\ hits[d] # <<>>
             /\ hits' = [hits EXCEPT ![d] = Tail(@)]
             /\ call' = [call EXCEPT ![c].step = "prune"]
          \/ hits[d] = <<>> /\ hits' = hits /\ call' = [call EXCEPT ![c] = AtRest]
    /\ UNCHANGED <<clock, table, listing, admitted, contended, refusedAt>>

Count(c) ==
    /\ call[c].step = "count"
    /\ LET over == Reached(Len(hits[call[c].deque]))
       IN /\ call' = [call EXCEPT ![c] = IF over THEN AtRest ELSE [@ EXCEPT !.step = "append"]]
          /\ refusedAt' = IF over THEN <<call[c].key, call[c].now>> ELSE refusedAt
    /\ UNCHANGED <<clock, hits, table, listing, admitted, contended>>

AppendHit(c) ==
    /\ call[c].step = "append"
    /\ hits' = [hits EXCEPT ![call[c].deque] = Append(@, call[c].now)]
    /\ admitted' = [admitted EXCEPT ![call[c].key] = Append(@, call[c].now)]
    /\ \E next \in {"rest", "bound"} :   \* only the limit per address bounds the table
          call' = [call EXCEPT ![c] = IF next = "rest" THEN AtRest ELSE [@ EXCEPT !.step = next]]
    /\ UNCHANGED <<clock, table, listing, contended, refusedAt>>

\* More than five thousand keys: the idle buckets are listed, one after the
\* other, one that a call has just made and not yet filled among them.
IdleBucket(d, now) == hits[d] = <<>> \/ now - hits[d][Len(hits[d])] > IdleAfter
Live == {k \in Key : table[k] # None}

ListIdle(c) ==
    /\ call[c].step = "bound"
    /\ call' = [call EXCEPT ![c].step = "list"]
    /\ listing' = [listing EXCEPT ![c] = [began |-> Live, seen |-> {}, idle |-> {}]]
    /\ UNCHANGED <<clock, hits, table, admitted, contended, refusedAt>>

\* The walk raises when the table has grown or shrunk under it: nothing is dropped.
Resized(c) == Cardinality(Live) # Cardinality(listing[c].began)
RaiseResized(c) ==
    /\ call[c].step = "list" /\ Resized(c)
    /\ call' = [call EXCEPT ![c] = AtRest]
    /\ listing' = [listing EXCEPT ![c] = NoList]
    /\ UNCHANGED <<clock, hits, table, admitted, contended, refusedAt>>

Examine(c, k) ==
    /\ call[c].step = "list" /\ ~Resized(c)
    /\ k \in Live \ listing[c].seen
    /\ LET idle == IdleBucket(table[k], call[c].now)
       IN /\ listing' = [listing EXCEPT ![c] =
                            [listing[c] EXCEPT !.seen = @ \cup {k},
                                                !.idle = IF idle THEN @ \cup {k} ELSE @]]
          /\ contended' = IF idle /\ Inside(k) # {} THEN contended \cup {k} ELSE contended
    /\ UNCHANGED <<clock, hits, table, call, admitted, refusedAt>>

EndList(c) ==
    /\ call[c].step = "list" /\ ~Resized(c) /\ Live \subseteq listing[c].seen
    /\ call' = [call EXCEPT ![c].step = "drop"]
    /\ UNCHANGED <<clock, hits, table, listing, admitted, contended, refusedAt>>

\* _hits.pop(k, None): the bucket k has by now, with whatever is in it.
DropIdle(c, k) ==
    /\ call[c].step = "drop" /\ k \in listing[c].idle
    /\ table' = [table EXCEPT ![k] = None]
    /\ listing' = [listing EXCEPT ![c] = [listing[c] EXCEPT !.idle = @ \ {k}]]
    /\ UNCHANGED <<clock, hits, call, admitted, contended, refusedAt>>

EndDrop(c) ==
    /\ call[c].step = "drop" /\ listing[c].idle = {}
    /\ call' = [call EXCEPT ![c] = AtRest]
    /\ listing' = [listing EXCEPT ![c] = NoList]
    /\ UNCHANGED <<clock, hits, table, admitted, contended, refusedAt>>

\* A call takes far less than a window.
ClockTicks ==
    /\ clock < MaxClock /\ \A c \in Thread : call[c].step = "rest"
    /\ clock' = clock + 1
    /\ refusedAt' = None
    /\ UNCHANGED <<hits, table, call, listing, admitted, contended>>

ThrottleNext ==
    \/ \E c \in Thread : \/ \E k \in Key : Enter(c, k) \/ Examine(c, k) \/ DropIdle(c, k)
                         \/ Look(c) \/ PopLeft(c) \/ Count(c) \/ AppendHit(c)
                         \/ ListIdle(c) \/ RaiseResized(c) \/ EndList(c) \/ EndDrop(c)
    \/ ClockTicks

ThrottleSpec == ThrottleInit /\ [][ThrottleNext]_throttlevars

----------------------------------------------------------------------------
\* Admissions of k in the window that ends at now.
InWindow(k, now) ==
    Cardinality({i \in DOMAIN admitted[k] : admitted[k][i] <= now /\ now - admitted[k][i] <= Window})

\* Every key of the table has its deque, and every call is at a step.
ThrottleTypeOK ==
    /\ clock \in 0..MaxClock /\ Len(hits) <= MaxDeques
    /\ \A k \in Key : table[k] = None \/ table[k] \in DOMAIN hits
    /\ \A c \in Thread :
         call[c].step \in {"rest", "prune", "pop", "count", "append", "bound", "list", "drop"}
    /\ listing \in [Thread -> [began: SUBSET Key, seen: SUBSET Key, idle: SUBSET Key]]

(***************************************************************************)
(* A key with one call at a time, and none while a call of another key     *)
(* held it listed as idle, is limited exactly: no window holds more than   *)
(* Limit of its admissions, and a refusal found Limit of its own           *)
(* admissions in the window, however the table was cleared meanwhile.      *)
(* (Calls that overlap are not: both count, then both append.  Nor is a    *)
(* key called between the listing and the drop: the drop takes its hit.)   *)
(***************************************************************************)
LimitIsExact ==
    \A k \in Key \ contended :
        /\ \A i \in DOMAIN admitted[k] : InWindow(k, admitted[k][i]) <= Limit
        /\ refusedAt # None => (refusedAt[1] = k => InWindow(k, refusedAt[2]) >= Limit)
=============================================================================
