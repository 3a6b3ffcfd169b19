------------------------- MODULE StoreLookupProofs -------------------------
(***************************************************************************)
(* What StoreLookup promises of a count on the glass and of a checkout,    *)
(* proved for every number of codes, requests, items and sales, and for    *)
(* every cache life and timeout.                                           *)
(***************************************************************************)
EXTENDS StoreLookup, SequenceTheorems, TLAPS

-----------------------------------------------------------------------------
(* One request. *)

Wanted == Code \cup OtherItems
Calling == {"call", "minting", "sent"}

Field == {"kind", "stage", "key", "code", "items", "lines", "skipped", "at", "got", "says", "count"}
Shaped(q) == q = [f \in Field |-> q[f]]

\* A request says something when it is done.
StagesFit(q) ==
    /\ q.stage \in {"idle", "resolve", "done"} \cup Calling
    /\ q.stage # "done" => q.says = "nothing"
    /\ q.stage = "resolve" => q.kind = "link"

\* A scan asks for its code and then for the floor, a part of a photograph for the floor.
ScanFits(q) ==
    q.stage \in Calling =>
        /\ q.kind = "scan" => q.code \in Code /\ q.key \in {q.code, "inventory"}
        /\ q.kind = "part" => q.key = "inventory"

\* A checkout has looked up every code, skipped it, or has it before it; with
\* none before it, it asks for the draft.
LinkFits(q) ==
    q.kind = "link" /\ q.stage \in {"resolve"} \cup Calling =>
        /\ q.items \in Seq(Wanted) /\ q.lines \in Seq(Wanted)
        /\ q.code \cap Code \subseteq ToSet(q.lines) \cup q.skipped \cup ToSet(q.items)
        /\ q.stage \in Calling => \/ q.items # <<>> /\ q.key = Head(q.items) /\ q.key \in Code
                                  \/ q.items = <<>> /\ q.key = "draft"

\* The store has a draft with all that was asked for and not skipped.
Drafted(q, r, orders) ==
    \E d \in orders : d.by = r /\ q.code \cap Code \subseteq d.lines \cup q.skipped

LinkStands(q, r, orders) ==
    /\ q.says = "link" => Drafted(q, r, orders)
    /\ q.kind = "link" /\ q.stage = "sent" /\ q.key = "draft" /\ q.got = "url" => Drafted(q, r, orders)

Fits(q, r, orders) ==
    Shaped(q) /\ StagesFit(q) /\ ScanFits(q) /\ LinkFits(q) /\ LinkStands(q, r, orders)

\* The request nobody has made.
LEMMA NotAskedFits ==
    /\ Shaped(NotAsked) /\ NotAsked.kind = "none" /\ NotAsked.stage = "idle"
    /\ NotAsked.items = <<>> /\ NotAsked.lines = <<>> /\ NotAsked.skipped = {}
    /\ NotAsked.says = "nothing" /\ NotAsked.code = None
BY DEF Shaped, Field, NotAsked

\* What one constructor of a request builds ...
LEMMA CallsBuilds ==
    ASSUME NEW kind, NEW key, NEW code, NEW p, p = Calls(kind, key, code)
    PROVE  /\ Shaped(p) /\ p.kind = kind /\ p.stage = "call" /\ p.key = key /\ p.code = code
           /\ p.says = "nothing"
BY NotAskedFits DEF Calls, Shaped, Field

\* ... and the other.
LEMMA SaysBuilds ==
    ASSUME NEW q, NEW what, NEW n, NEW p, p = Says(q, what, n)
    PROVE  /\ Shaped(p) /\ p.kind = q.kind /\ p.stage = "done" /\ p.code = q.code
           /\ p.skipped = q.skipped /\ p.says = what /\ p.count = n
BY NotAskedFits DEF Says, Shaped, Field

\* A request that says anything but a link fits, and one that says a link if it has its draft.
LEMMA SaysFits ==
    ASSUME NEW q, NEW r, NEW orders, NEW what, NEW n, NEW p, p = Says(q, what, n),
           what = "link" => Drafted(q, r, orders)
    PROVE  Fits(p, r, orders)
<1>1. /\ Shaped(p) /\ p.kind = q.kind /\ p.stage = "done" /\ p.code = q.code
      /\ p.skipped = q.skipped /\ p.says = what
  BY SaysBuilds
<1>2. StagesFit(p) /\ ScanFits(p) /\ LinkFits(p)
  BY <1>1 DEF StagesFit, ScanFits, LinkFits, Calling
<1>3. LinkStands(p, r, orders)
  BY <1>1 DEF LinkStands, Drafted
<1> QED
  BY <1>1, <1>2, <1>3 DEF Fits

\* A request goes on to a call; one of its items is dealt with.
GoesOn(p, q, key) == p = [q EXCEPT !.stage = "call", !.key = key]
Deals(p, q, stage, lines, skipped) ==
    p = [q EXCEPT !.items = Tail(q.items), !.stage = stage, !.lines = lines, !.skipped = skipped]

\* What a request is left with where some of its fields change.
LEMMA Moved ==
    ASSUME NEW q, Shaped(q), NEW key, NEW p, GoesOn(p, q, key)
    PROVE  /\ Shaped(p) /\ p.stage = "call" /\ p.key = key /\ p.kind = q.kind /\ p.code = q.code
           /\ p.items = q.items /\ p.lines = q.lines /\ p.skipped = q.skipped /\ p.says = q.says
BY DEF Shaped, Field, GoesOn

\* ... an item that is dealt with,
LEMMA Looked ==
    ASSUME NEW q, Shaped(q), NEW stage, NEW lines, NEW skipped, NEW p, Deals(p, q, stage, lines, skipped)
    PROVE  /\ Shaped(p) /\ p.stage = stage /\ p.items = Tail(q.items) /\ p.lines = lines
           /\ p.kind = q.kind /\ p.code = q.code
           /\ p.key = q.key /\ p.skipped = skipped /\ p.says = q.says
BY DEF Shaped, Field, Deals

\* ... whichever of its fields the code names.
LEMMA LookedIs ==
    ASSUME NEW q, Shaped(q), NEW x, NEW p
    PROVE  /\ p = [q EXCEPT !.items = Tail(q.items), !.stage = "resolve", !.lines = x]
                => Deals(p, q, "resolve", x, q.skipped)
           /\ p = [q EXCEPT !.items = Tail(q.items), !.stage = "resolve", !.skipped = x]
                => Deals(p, q, "resolve", q.lines, x)
           /\ p = [q EXCEPT !.items = Tail(q.items), !.lines = x]
                => Deals(p, q, q.stage, x, q.skipped)
           /\ p = [q EXCEPT !.items = Tail(q.items)]
                => Deals(p, q, q.stage, q.lines, q.skipped)
BY DEF Shaped, Field, Deals

-----------------------------------------------------------------------------
(* What a request does with an answer. *)

\* A request of no checkout goes on to another call.
LEMMA MovedFits ==
    ASSUME NEW q, NEW r, NEW orders, Fits(q, r, orders), q.stage \in Calling, NEW key, NEW p,
           GoesOn(p, q, key), q.kind # "link",
           q.kind \in {"scan", "part"} => key = "inventory"
    PROVE  Fits(p, r, orders) /\ p.stage = "call" /\ p.says = "nothing"
<1>1. Shaped(q) /\ q.says = "nothing"
  BY DEF Fits, StagesFit, Calling
<1>2. /\ Shaped(p) /\ p.stage = "call" /\ p.key = key /\ p.kind = q.kind /\ p.code = q.code
      /\ p.says = "nothing"
  BY <1>1, Moved
<1>3. StagesFit(p) /\ LinkFits(p) /\ LinkStands(p, r, orders)
  BY <1>2 DEF StagesFit, LinkFits, LinkStands, Calling
<1>4. ScanFits(p)
  BY <1>2 DEF Fits, ScanFits, Calling
<1> QED
  BY <1>2, <1>3, <1>4 DEF Fits

\* A sequence is its head and its tail.
LEMMA HeadOrTail ==
    ASSUME NEW S, NEW s \in Seq(S), s # <<>>
    PROVE  /\ ToSet(s) = {Head(s)} \cup ToSet(Tail(s)) /\ Head(s) \in S /\ Tail(s) \in Seq(S)
<1>1. /\ Head(s) \in S /\ Tail(s) \in Seq(S) /\ Len(Tail(s)) = Len(s) - 1
      /\ \A i \in 1 .. Len(Tail(s)) : Tail(s)[i] = s[i + 1]
  BY HeadTailProperties
<1>2. /\ Len(s) \in Nat /\ DOMAIN s = 1 .. Len(s) /\ DOMAIN Tail(s) = 1 .. Len(Tail(s))
      /\ Len(s) # 0 /\ Head(s) = s[1]
  BY <1>1, LenProperties, EmptySeq
<1>3. \A i \in 1 .. Len(s) : i = 1 \/ (i - 1 \in 1 .. Len(Tail(s)) /\ Tail(s)[i - 1] = s[i])
  BY <1>1, <1>2
<1>4. ToSet(s) \subseteq {Head(s)} \cup ToSet(Tail(s))
  BY <1>2, <1>3 DEF ToSet
<1>5. Head(s) \in ToSet(s)
  BY <1>2 DEF ToSet
<1>6. ToSet(Tail(s)) \subseteq ToSet(s)
  <2> SUFFICES ASSUME NEW i \in 1 .. Len(Tail(s)) PROVE Tail(s)[i] \in ToSet(s)
    BY <1>2 DEF ToSet
  <2>1. i + 1 \in 1 .. Len(s) /\ Tail(s)[i] = s[i + 1]
    BY <1>1, <1>2
  <2> QED
    BY <1>2, <2>1 DEF ToSet
<1> QED
  BY <1>1, <1>4, <1>5, <1>6

\* A sequence grows by an element.
LEMMA ToSetGrows ==
    ASSUME NEW S, NEW s \in Seq(S), NEW x \in S
    PROVE  ToSet(Append(s, x)) = ToSet(s) \cup {x} /\ Append(s, x) \in Seq(S)
<1>1. /\ Append(s, x) \in Seq(S) /\ Len(Append(s, x)) = Len(s) + 1
      /\ \A i \in 1 .. Len(s) : Append(s, x)[i] = s[i]
      /\ Append(s, x)[Len(s) + 1] = x
  BY AppendProperties
<1>2. /\ Len(s) \in Nat /\ DOMAIN s = 1 .. Len(s) /\ DOMAIN Append(s, x) = 1 .. Len(s) + 1
  BY <1>1, LenProperties
<1>3. ToSet(Append(s, x)) \subseteq ToSet(s) \cup {x}
  BY <1>1, <1>2 DEF ToSet
<1>4. ToSet(s) \subseteq ToSet(Append(s, x))
  BY <1>1, <1>2 DEF ToSet
<1>5. x \in ToSet(Append(s, x))
  <2>1. Len(s) + 1 \in DOMAIN Append(s, x)
    BY <1>2
  <2> QED
    BY <1>1, <2>1 DEF ToSet
<1> QED
  BY <1>1, <1>3, <1>4, <1>5

\* The item at hand is dealt with: on the draft, skipped, or of no code.
DealtWith(p, q) ==
    \E lines, skipped :
        /\ lines \in Seq(Wanted)
        /\ Deals(p, q, "resolve", lines, skipped)
        /\ ToSet(q.lines) \subseteq ToSet(lines) /\ q.skipped \subseteq skipped
        /\ Head(q.items) \in Code => Head(q.items) \in ToSet(lines) \cup skipped

\* A checkout goes on to its next item with every code accounted for.
LEMMA LookedFits ==
    ASSUME NEW q, NEW r, NEW orders, Fits(q, r, orders), q.kind = "link",
           q.stage \in {"resolve"} \cup Calling, q.items # <<>>, NEW p, DealtWith(p, q)
    PROVE  Fits(p, r, orders) /\ p.stage = "resolve" /\ p.says = "nothing"
<1> PICK lines, skipped :
      /\ lines \in Seq(Wanted)
      /\ Deals(p, q, "resolve", lines, skipped)
      /\ ToSet(q.lines) \subseteq ToSet(lines) /\ q.skipped \subseteq skipped
      /\ Head(q.items) \in Code => Head(q.items) \in ToSet(lines) \cup skipped
  BY DEF DealtWith
<1>1. /\ Shaped(q) /\ q.says = "nothing" /\ q.items \in Seq(Wanted)
      /\ q.code \cap Code \subseteq ToSet(q.lines) \cup q.skipped \cup ToSet(q.items)
  BY DEF Fits, StagesFit, LinkFits, Calling
<1>2. /\ Shaped(p) /\ p.stage = "resolve" /\ p.items = Tail(q.items) /\ p.lines = lines
      /\ p.kind = "link" /\ p.code = q.code /\ p.skipped = skipped /\ p.says = "nothing"
  BY <1>1, Looked
<1>3. ToSet(q.items) = {Head(q.items)} \cup ToSet(Tail(q.items)) /\ Tail(q.items) \in Seq(Wanted)
  BY <1>1, HeadOrTail
<1>4. q.code \cap Code \subseteq ToSet(lines) \cup skipped \cup ToSet(Tail(q.items))
  BY <1>1, <1>3
<1>5. LinkFits(p)
  BY <1>2, <1>3, <1>4 DEF LinkFits, Calling
<1>6. StagesFit(p) /\ ScanFits(p) /\ LinkStands(p, r, orders)
  BY <1>2 DEF StagesFit, ScanFits, LinkStands, Calling
<1> QED
  BY <1>2, <1>5, <1>6 DEF Fits

\* Whatever comes back, a request goes on as it should.
LEMMA GoesFits ==
    ASSUME NEW q, NEW r, NEW orders, Fits(q, r, orders), q.stage \in Calling, NEW v, NEW p, p = Goes(q, v),
           q.kind = "link" /\ q.key = "draft" /\ v = "url" => Drafted(q, r, orders)
    PROVE  Fits(p, r, orders) /\ p.stage \in {"call", "resolve", "done"}
<1>1. \A what, n : what # "link" => /\ Fits(Says(q, what, n), r, orders)
                                    /\ Says(q, what, n).stage = "done"
  BY SaysFits, SaysBuilds
<1>2. CASE q.kind = "scan"
  <2>1. p = _sku_answer(q, v)
    BY <1>2 DEF Goes
  <2>2. \/ GoesOn(p, q, "inventory")
        \/ \E what, n : what # "link" /\ p = Says(q, what, n)
    BY <2>1 DEF _sku_answer, GoesOn
  <2> QED
    BY <1>1, <1>2, <2>2, MovedFits
<1>3. CASE q.kind = "part"
  <2>1. \E what, n : what # "link" /\ p = Says(q, what, n)
    BY <1>3 DEF Goes, _part_answer
  <2> QED
    BY <1>1, <2>1
<1>4. CASE q.kind = "link"
  <2>1. p = build_link(q, v)
    BY <1>4 DEF Goes
  <2>2. CASE q.key = "draft"
    <3>1. p = Says(q, IF v = "url" THEN "link" ELSE "refused", None)
      BY <2>1, <2>2 DEF build_link
    <3>2. (IF v = "url" THEN "link" ELSE "refused") = "link" => Drafted(q, r, orders)
      BY <1>4, <2>2
    <3> QED
      BY <3>1, <3>2, SaysFits, SaysBuilds
  <2>3. CASE q.key # "draft"
    <3>1. /\ Shaped(q) /\ q.items # <<>> /\ q.key = Head(q.items) /\ q.key \in Code /\ q.key \in Wanted
          /\ q.lines \in Seq(Wanted)
      BY <1>4, <2>3 DEF Fits, LinkFits, Wanted
    <3>2. CASE v \in Units
      <4> DEFINE grown == Append(q.lines, q.key)
      <4>1. p = [q EXCEPT !.items = Tail(q.items), !.stage = "resolve", !.lines = grown]
        BY <2>1, <2>3, <3>2 DEF build_link
      <4>2. ToSet(grown) = ToSet(q.lines) \cup {q.key} /\ grown \in Seq(Wanted)
        BY <3>1, ToSetGrows
      <4>3. Deals(p, q, "resolve", grown, q.skipped)
        BY <3>1, <4>1, LookedIs
      <4> HIDE DEF grown
      <4>4. DealtWith(p, q)
        BY <3>1, <4>2, <4>3 DEF DealtWith
      <4>5. q.items # <<>> /\ q.stage \in {"resolve"} \cup Calling
        BY <3>1
      <4>6. Fits(p, r, orders) /\ p.stage = "resolve"
        BY <1>4, <4>4, <4>5, LookedFits
      <4> QED
        BY <4>6
    <3>3. CASE v \notin Units
      <4> DEFINE skipped == q.skipped \cup {q.key}
      <4>1. p = [q EXCEPT !.items = Tail(q.items), !.stage = "resolve", !.skipped = skipped]
        BY <2>1, <2>3, <3>3 DEF build_link, Unresolved
      <4>2. q.skipped \subseteq skipped /\ Head(q.items) \in skipped
        BY <3>1
      <4> HIDE DEF skipped
      <4>3. Deals(p, q, "resolve", q.lines, skipped)
        BY <3>1, <4>1, LookedIs
      <4>4. DealtWith(p, q)
        BY <3>1, <4>2, <4>3 DEF DealtWith
      <4>5. q.items # <<>> /\ q.stage \in {"resolve"} \cup Calling
        BY <3>1
      <4>6. Fits(p, r, orders) /\ p.stage = "resolve"
        BY <1>4, <4>4, <4>5, LookedFits
      <4> QED
        BY <4>6
    <3> QED
      BY <3>2, <3>3
  <2> QED
    BY <2>2, <2>3
<1>5. CASE q.kind \notin {"scan", "part", "link"}
  <2>1. p = guest_context(q, v)
    BY <1>5 DEF Goes
  <2>2. \/ \E key : GoesOn(p, q, key)
        \/ \E what, n : what # "link" /\ p = Says(q, what, n)
    BY <2>1 DEF guest_context, GoesOn
  <2> QED
    BY <1>1, <1>5, <2>2, MovedFits
<1> QED
  BY <1>2, <1>3, <1>4, <1>5

\* A checkout asks for a code, or for its draft.
LEMMA AsksFits ==
    ASSUME NEW q, NEW r, NEW orders, Fits(q, r, orders), q.stage = "resolve", NEW key, NEW p,
           GoesOn(p, q, key),
           \/ q.items # <<>> /\ key = Head(q.items) /\ key \in Code
           \/ q.items = <<>> /\ key = "draft"
    PROVE  Fits(p, r, orders) /\ p.stage = "call" /\ p.says = "nothing"
<1>1. /\ Shaped(q) /\ q.says = "nothing" /\ q.kind = "link"
      /\ q.items \in Seq(Wanted) /\ q.lines \in Seq(Wanted)
      /\ q.code \cap Code \subseteq ToSet(q.lines) \cup q.skipped \cup ToSet(q.items)
  BY DEF Fits, StagesFit, LinkFits, Calling
<1>2. /\ Shaped(p) /\ p.stage = "call" /\ p.key = key /\ p.kind = "link" /\ p.code = q.code
      /\ p.says = "nothing" /\ p.items = q.items /\ p.lines = q.lines /\ p.skipped = q.skipped
  BY <1>1, Moved
<1>3. LinkFits(p)
  BY <1>1, <1>2 DEF LinkFits
<1>4. StagesFit(p) /\ ScanFits(p) /\ LinkStands(p, r, orders)
  BY <1>2 DEF StagesFit, ScanFits, LinkStands, Calling
<1> QED
  BY <1>2, <1>3, <1>4 DEF Fits

\* One turn of the loop over the items of a checkout.
LEMMA ResolveFits ==
    ASSUME NEW r \in Request, NEW orders, Fits(req[r], r, orders), Resolve(r), NEW p,
           req' = [req EXCEPT ![r] = p], req' = [x \in Request |-> req'[x]], r \in DOMAIN req
    PROVE  Fits(p, r, orders) /\ p.stage \in {"call", "resolve", "done"} /\ p.says # "record"
<1> DEFINE q == req[r]
<1>1. /\ q.stage = "resolve" /\ Shaped(q) /\ q.says = "nothing" /\ q.kind = "link"
      /\ q.items \in Seq(Wanted) /\ q.lines \in Seq(Wanted)
  BY DEF Resolve, Fits, StagesFit, LinkFits
<1>2. p = CASE q.items = <<>> /\ q.lines = <<>> -> Says(q, "refused", None)
            [] q.items = <<>> /\ ToSet(q.lines) = {"spaces"} -> Says(q, "refused", None)
            [] q.items = <<>> /\ ToSet(q.lines) \ {"spaces"} # {} -> [q EXCEPT !.stage = "call", !.key = "draft"]
            [] q.items # <<>> /\ Head(q.items) \in Code -> [q EXCEPT !.stage = "call", !.key = Head(q.items)]
            [] q.items # <<>> /\ Head(q.items) = "nothing" -> [q EXCEPT !.items = Tail(q.items)]
            [] OTHER -> [q EXCEPT !.items = Tail(q.items), !.lines = Append(q.lines, Head(q.items))]
  BY DEF Resolve, Become
<1> HIDE DEF q
<1>3. Fits(q, r, orders)
  BY DEF q
<1>4. ASSUME q.lines # <<>> PROVE ToSet(q.lines) # {}
  <2>1. ToSet(q.lines) = {Head(q.lines)} \cup ToSet(Tail(q.lines))
    BY <1>1, <1>4, HeadOrTail
  <2> QED
    BY <2>1
<1>5. CASE q.items = <<>>
  <2>1. p = Says(q, "refused", None) \/ GoesOn(p, q, "draft")
    BY <1>2, <1>4, <1>5 DEF GoesOn
  <2>2. CASE p = Says(q, "refused", None)
    BY <2>2, SaysFits, SaysBuilds
  <2>3. CASE GoesOn(p, q, "draft")
    BY <1>1, <1>3, <1>5, <2>3, AsksFits
  <2> QED
    BY <2>1, <2>2, <2>3
<1>6. CASE q.items # <<>> /\ Head(q.items) \in Code
  <2>1. Head(q.items) # "nothing"
    BY <1>6, StoreAssumption DEF OtherItems
  <2>2. GoesOn(p, q, Head(q.items))
    BY <1>2, <1>6, <2>1 DEF GoesOn
  <2> QED
    BY <1>1, <1>3, <1>6, <2>2, AsksFits
<1>7. CASE q.items # <<>> /\ Head(q.items) \notin Code
  <2>1. Head(q.items) \in Wanted
    BY <1>1, <1>7, HeadOrTail
  <2>2. DealtWith(p, q)
    <3>1. CASE Head(q.items) = "nothing"
      <4>1. p = [q EXCEPT !.items = Tail(q.items)]
        BY <1>2, <1>7, <3>1
      <4>2. Deals(p, q, "resolve", q.lines, q.skipped)
        BY <1>1, <4>1, LookedIs
      <4> QED
        BY <1>1, <1>7, <4>2 DEF DealtWith
    <3>2. CASE Head(q.items) # "nothing"
      <4> DEFINE grown == Append(q.lines, Head(q.items))
      <4>1. p = [q EXCEPT !.items = Tail(q.items), !.lines = grown]
        BY <1>2, <1>7, <3>2
      <4>2. ToSet(grown) = ToSet(q.lines) \cup {Head(q.items)} /\ grown \in Seq(Wanted)
        BY <1>1, <2>1, ToSetGrows
      <4> HIDE DEF grown
      <4>3. Deals(p, q, "resolve", grown, q.skipped)
        BY <1>1, <4>1, LookedIs
      <4> QED
        BY <1>7, <4>2, <4>3 DEF DealtWith
    <3> QED
      BY <3>1, <3>2
  <2>3. q.stage \in {"resolve"} \cup Calling /\ q.kind = "link" /\ q.items # <<>>
    BY <1>1, <1>7
  <2>4. Fits(p, r, orders) /\ p.stage = "resolve" /\ p.says = "nothing"
    BY <1>3, <2>2, <2>3, LookedFits
  <2> QED
    BY <2>4
<1> QED
  BY <1>5, <1>6, <1>7

\* A request waits for a token; one has sent its query.
Waiting(p, q, at) == p = [q EXCEPT !.stage = "minting", !.at = at]
SentOff(p, q, at, v) == p = [q EXCEPT !.stage = "sent", !.at = at, !.got = v]

\* The drafts of the store once it has answered v.
Drafting(q, r, v, orders) ==
    IF q.key = "draft" /\ v # "user_errors"
    THEN orders \cup {[by |-> r, lines |-> ToSet(q.lines) \ {"spaces"}]} ELSE orders

\* A query is sent, and with it the draft of a checkout that got one.
LEMMA SentFits ==
    ASSUME NEW q, NEW r, NEW orders, Fits(q, r, orders), q.stage \in Calling, NEW v, NEW at, NEW p, NEW more,
           SentOff(p, q, at, v),
           more = Drafting(q, r, v, orders)
    PROVE  Fits(p, r, more) /\ p.stage = "sent" /\ p.at = at /\ p.got = v /\ p.key = q.key /\ p.says = "nothing"
<1>1. Shaped(q) /\ q.says = "nothing"
  BY DEF Fits, StagesFit, Calling
<1>2. /\ Shaped(p) /\ p.stage = "sent" /\ p.at = at /\ p.got = v /\ p.kind = q.kind /\ p.code = q.code
      /\ p.key = q.key
      /\ p.items = q.items /\ p.lines = q.lines /\ p.skipped = q.skipped /\ p.says = "nothing"
  BY <1>1 DEF Shaped, Field, SentOff
<1>3. StagesFit(p) /\ ScanFits(p) /\ LinkFits(p)
  BY <1>2 DEF Fits, StagesFit, ScanFits, LinkFits, Calling
<1>4. ASSUME p.kind = "link", p.key = "draft", v = "url" PROVE Drafted(p, r, more)
  <2>1. /\ q.code \cap Code \subseteq ToSet(q.lines) \cup q.skipped \cup ToSet(q.items)
        /\ q.items = <<>>
    BY <1>2, <1>4, StoreAssumption DEF Fits, LinkFits
  <2>2. ToSet(<<>>) = {} /\ "spaces" \notin Code
    BY EmptySeq, LenProperties, StoreAssumption DEF ToSet, OtherItems
  <2>3. [by |-> r, lines |-> ToSet(q.lines) \ {"spaces"}] \in more
    BY <1>2, <1>4 DEF Drafting
  <2>4. q.code \cap Code \subseteq (ToSet(q.lines) \ {"spaces"}) \cup q.skipped
    BY <2>1, <2>2
  <2> QED
    BY <1>2, <2>3, <2>4 DEF Drafted
<1>5. LinkStands(p, r, more)
  BY <1>2, <1>4 DEF LinkStands
<1> QED
  BY <1>2, <1>3, <1>5 DEF Fits

\* A token is asked for.
LEMMA MintingFits ==
    ASSUME NEW q, NEW r, NEW orders, Fits(q, r, orders), q.stage \in Calling, NEW at, NEW p,
           Waiting(p, q, at)
    PROVE  Fits(p, r, orders) /\ p.stage = "minting" /\ p.says = "nothing"
<1>1. Shaped(q) /\ q.says = "nothing"
  BY DEF Fits, StagesFit, Calling
<1>2. /\ Shaped(p) /\ p.stage = "minting" /\ p.kind = q.kind /\ p.code = q.code /\ p.key = q.key
      /\ p.items = q.items /\ p.lines = q.lines /\ p.skipped = q.skipped /\ p.says = "nothing"
  BY <1>1 DEF Shaped, Field, Waiting
<1>3. StagesFit(p) /\ ScanFits(p) /\ LinkFits(p) /\ LinkStands(p, r, orders)
  BY <1>2 DEF Fits, StagesFit, ScanFits, LinkFits, LinkStands, Calling
<1> QED
  BY <1>2, <1>3 DEF Fits

\* Drafts stay, and so does what stands on them.
LEMMA MoreDrafts ==
    ASSUME NEW q, NEW r, NEW orders, NEW more, Fits(q, r, orders), orders \subseteq more
    PROVE  Fits(q, r, more)
BY DEF Fits, LinkStands, Drafted

-----------------------------------------------------------------------------
(* What the store has held.                                                *)

\* HeldSince, of a given store and history.
Since(sh, ws, c, n, t) ==
    \/ sh[c] = n
    \/ \E w \in ws : w.code = c /\ w.count = n /\ w.until >= t

\* An answer for a key was the store's at some time since t.
Held(sh, ws, key, v, t) ==
    /\ key \in Code /\ v \in Units => Since(sh, ws, key, v, t)
    /\ key = "inventory" => \A c \in DOMAIN v : c \in Code /\ Since(sh, ws, c, v[c], t)

\* A query is younger than its timeout, and its answer no older than the query.
Waits(q, sh, ws, now) ==
    q.stage \in {"minting", "sent"} =>
        /\ q.at \in Nat /\ q.at <= now /\ now <= q.at + FetchTime
        /\ q.stage = "sent" => Held(sh, ws, q.key, q.got, q.at)

\* An entry of the cache is at most a query older than its stamp.
InCache(e, key, sh, ws, now) ==
    e # None =>
        /\ e.stamp \in Nat /\ e.stamp <= now
        /\ \E t \in Nat : t <= now /\ e.stamp <= t + FetchTime /\ Held(sh, ws, key, e.value, t)

\* What was held since a time was held since an earlier one.
LEMMA SinceEarlier ==
    ASSUME NEW sh, NEW ws, \A w \in ws : w.until \in Nat, NEW c, NEW n, NEW t \in Nat, NEW s \in Nat, s <= t,
           Since(sh, ws, c, n, t)
    PROVE  Since(sh, ws, c, n, s)
BY DEF Since

\* Sell, of a given store and history.
Sold(sh, ws, sh2, ws2, now, c) ==
    /\ sh \in [Code -> Units \cup {None}] /\ c \in Code
    /\ sh2 = [sh EXCEPT ![c] = sh2[c]]
    /\ ws2 = ws \cup {[code |-> c, count |-> sh[c], until |-> now]}

\* A change of the store is kept as history.
LEMMA SinceKept ==
    ASSUME NEW sh, NEW ws, NEW sh2, NEW ws2, NEW now \in Nat, NEW c, Sold(sh, ws, sh2, ws2, now, c),
           NEW k \in Code, NEW m, NEW t \in Nat, t <= now, Since(sh, ws, k, m, t)
    PROVE  Since(sh2, ws2, k, m, t)
<1>1. CASE sh[k] = m /\ k = c
  <2>1. [code |-> c, count |-> sh[c], until |-> now] \in ws2
    BY DEF Sold
  <2> QED
    BY <1>1, <2>1 DEF Since
<1>2. CASE sh[k] = m /\ k # c
  BY <1>2 DEF Since, Sold
<1>3. CASE sh[k] # m
  BY <1>3 DEF Since, Sold
<1> QED
  BY <1>1, <1>2, <1>3

\* ... for the answers that were held too.
LEMMA HeldKept ==
    ASSUME NEW sh, NEW ws, NEW sh2, NEW ws2, NEW now \in Nat, NEW c, Sold(sh, ws, sh2, ws2, now, c),
           NEW key, NEW v, NEW t \in Nat, t <= now, Held(sh, ws, key, v, t)
    PROVE  Held(sh2, ws2, key, v, t)
<1>1. ASSUME key \in Code, v \in Units PROVE Since(sh2, ws2, key, v, t)
  BY <1>1, SinceKept DEF Held
<1>2. ASSUME key = "inventory", NEW d \in DOMAIN v PROVE d \in Code /\ Since(sh2, ws2, d, v[d], t)
  <2>1. d \in Code /\ Since(sh, ws, d, v[d], t)
    BY <1>2 DEF Held
  <2> QED
    BY <2>1, SinceKept
<1> QED
  BY <1>1, <1>2 DEF Held

\* A record is printed with a count its answer carried.
LEMMA GoesRecords ==
    ASSUME NEW q, NEW r, NEW orders, Fits(q, r, orders), q.stage \in Calling, NEW v, NEW p, p = Goes(q, v),
           NEW sh, NEW ws, NEW t, v = Raised \/ Held(sh, ws, q.key, v, t), p.says = "record"
    PROVE  Since(sh, ws, p.code, p.count, t)
<1>1. \A what, n : /\ Says(q, what, n).says = what /\ Says(q, what, n).code = q.code
                   /\ Says(q, what, n).count = n
  BY SaysBuilds
<1>2. Shaped(q) /\ q.says = "nothing"
  BY DEF Fits, StagesFit, Calling
<1>3. CASE q.kind = "scan"
  <2>1. p = _sku_answer(q, v)
    BY <1>3 DEF Goes
  <2>2. q.code \in Code /\ q.key \in {q.code, "inventory"} /\ "inventory" \notin Code
    BY <1>3, StoreAssumption DEF Fits, ScanFits
  <2>3. CASE q.key # "inventory"
    <3>1. CASE v \in Units
      <4>1. p = Says(q, "record", v)
        BY <2>1, <2>3, <3>1, StoreAssumption DEF _sku_answer, _lookup
      <4>2. v # Raised /\ q.key = q.code
        BY <2>2, <2>3, <3>1, StoreAssumption
      <4> QED
        BY <1>1, <2>2, <3>1, <4>1, <4>2 DEF Held
    <3>2. CASE v \notin Units
      <4>1. GoesOn(p, q, "inventory")
        BY <2>1, <2>3, <3>2 DEF _sku_answer, _lookup, GoesOn
      <4>2. p.says = "nothing"
        BY <1>2, <4>1, Moved
      <4> QED
        BY <4>2
    <3> QED
      BY <3>1, <3>2
  <2>4. CASE q.key = "inventory"
    <3>1. \/ p = Says(q, "no_records", None)
          \/ p = Says(q, "not_carried", None)
          \/ v # Raised /\ q.code \in DOMAIN v /\ p = Says(q, "record", v[q.code])
      BY <2>1, <2>4 DEF _sku_answer
    <3>2. v # Raised /\ q.code \in DOMAIN v /\ p = Says(q, "record", v[q.code])
      BY <1>1, <3>1
    <3> QED
      BY <1>1, <2>4, <3>2 DEF Held
  <2> QED
    BY <2>3, <2>4
<1>4. CASE q.kind = "part"
  <2>1. p = _part_answer(q, v) /\ q.key = "inventory"
    BY <1>4 DEF Goes, Fits, ScanFits
  <2>2. \/ p = Says(q, "model_read", None)
        \/ v # Raised /\ q.code \in DOMAIN v /\ p = Says(q, "record", v[q.code])
    BY <2>1 DEF _part_answer
  <2>3. v # Raised /\ q.code \in DOMAIN v /\ p = Says(q, "record", v[q.code])
    BY <1>1, <2>2
  <2> QED
    BY <1>1, <2>1, <2>3 DEF Held
<1>5. CASE q.kind = "link"
  <2>1. p = build_link(q, v)
    BY <1>5 DEF Goes
  <2>2. CASE q.key = "draft"
    <3>1. p = Says(q, "link", None) \/ p = Says(q, "refused", None)
      BY <2>1, <2>2 DEF build_link
    <3> QED
      BY <1>1, <3>1
  <2>3. CASE q.key # "draft"
    <3>1. PICK x : \/ p = [q EXCEPT !.items = Tail(q.items), !.stage = "resolve", !.lines = x]
                   \/ p = [q EXCEPT !.items = Tail(q.items), !.stage = "resolve", !.skipped = x]
      BY <2>1, <2>3 DEF build_link, Unresolved
    <3>2. p.says = "nothing"
      BY <1>2, <3>1 DEF Shaped, Field
    <3> QED
      BY <3>2
  <2> QED
    BY <2>2, <2>3
<1>6. CASE q.kind \notin {"scan", "part", "link"}
  <2>1. p = guest_context(q, v)
    BY <1>6 DEF Goes
  <2>2. \/ \E key : GoesOn(p, q, key)
        \/ \E what : what # "record" /\ p = Says(q, what, None)
    BY <2>1 DEF guest_context, GoesOn
  <2>3. p.says # "record"
    BY <1>1, <1>2, <2>2, Moved
  <2> QED
    BY <2>3
<1> QED
  BY <1>3, <1>4, <1>5, <1>6

\* The answer of the store is what it holds.
LEMMA RepliesHeld ==
    ASSUME NEW q, NEW v \in Replies(q), NEW t
    PROVE  Held(shelf, was, q.key, v, t)
<1>1. ASSUME q.key \in Code PROVE v = shelf[q.key]
  BY <1>1, StoreAssumption DEF Replies
<1>2. ASSUME q.key = "inventory", NEW c \in DOMAIN v PROVE c \in Code /\ v[c] = shelf[c]
  <2> DEFINE carried == {d \in Page : shelf[d] # None}
  <2>1. v = IF carried = {} THEN <<>> ELSE [d \in carried |-> shelf[d]]
    BY <1>2, StoreAssumption DEF Replies
  <2>2. DOMAIN <<>> = {}
    BY EmptySeq, LenProperties
  <2>3. carried \subseteq Code
    BY StoreAssumption
  <2> QED
    BY <1>2, <2>1, <2>2, <2>3
<1> QED
  BY <1>1, <1>2 DEF Held, Since

-----------------------------------------------------------------------------
(* The inductive invariant. *)

Typed ==
    /\ clock \in Nat /\ shelf \in [Code -> Units \cup {None}] /\ \A w \in was : w.until \in Nat
    /\ cached = [k \in CacheKeys |-> cached[k]] /\ req = [r \in Request |-> req[r]]

CacheInv == \A k \in CacheKeys : InCache(cached[k], k, shelf, was, clock)

ReqInv == \A r \in Request : Fits(req[r], r, drafts) /\ Waits(req[r], shelf, was, clock)

StoreInv == Typed /\ CacheInv /\ ReqInv

\* A request that prints a record prints a recent one (the step of CountsAreRecent).
Recent(p, sh, ws, now) ==
    p.says = "record" => now <= TTL + FetchTime \/ Since(sh, ws, p.code, p.count, now - TTL - FetchTime)

Prints == \A r \in Request :
    req'[r].says = "record" /\ req[r].says # "record" => Recent(req'[r], shelf, was, clock)

\* One request goes on while the store stands still.
LEMMA OneGoesOn ==
    ASSUME StoreInv, NEW r \in Request, NEW p, Become(r, p), UNCHANGED <<clock, shelf, was>>,
           drafts \subseteq drafts',
           cached' = [k \in CacheKeys |-> cached'[k]],
           \A k \in CacheKeys : InCache(cached'[k], k, shelf, was, clock),
           Fits(p, r, drafts'), Waits(p, shelf, was, clock), Recent(p, shelf, was, clock)
    PROVE  StoreInv' /\ Prints
<1>1. /\ req' = [req EXCEPT ![r] = p] /\ req' = [x \in Request |-> req'[x]] /\ req'[r] = p
      /\ \A x \in Request : x # r => req'[x] = req[x]
  BY DEF Become, StoreInv, Typed
<1>2. Typed' /\ CacheInv'
  BY <1>1 DEF StoreInv, Typed, CacheInv, CacheKeys
<1>3. ASSUME NEW x \in Request PROVE Fits(req'[x], x, drafts') /\ Waits(req'[x], shelf, was, clock)
  <2>1. CASE x = r
    BY <1>1, <2>1
  <2>2. CASE x # r
    <3>1. Fits(req[x], x, drafts) /\ Waits(req[x], shelf, was, clock)
      BY DEF StoreInv, ReqInv
    <3>2. Fits(req[x], x, drafts')
      BY <3>1, MoreDrafts
    <3> QED
      BY <1>1, <2>2, <3>1, <3>2
  <2> QED
    BY <2>1, <2>2
<1>4. ReqInv'
  BY <1>3 DEF ReqInv
<1>5. Prints
  BY <1>1 DEF Prints
<1> QED
  BY <1>2, <1>4, <1>5 DEF StoreInv

\* ... and the adapter's state, but for its token, too.
LEMMA OneAsks ==
    ASSUME StoreInv, NEW r \in Request, NEW p, Become(r, p), UNCHANGED <<clock, shelf, was, drafts, cached>>,
           Fits(p, r, drafts), p.stage \notin {"minting", "sent"}, p.says # "record"
    PROVE  StoreInv' /\ Prints
<1>1. /\ cached' = [k \in CacheKeys |-> cached'[k]]
      /\ \A k \in CacheKeys : InCache(cached'[k], k, shelf, was, clock)
  BY DEF StoreInv, Typed, CacheInv
<1>2. drafts \subseteq drafts' /\ Fits(p, r, drafts')
  OBVIOUS
<1>3. Waits(p, shelf, was, clock) /\ Recent(p, shelf, was, clock)
  BY DEF Waits, Recent
<1> QED
  BY <1>1, <1>2, <1>3, OneGoesOn

\* A request that is made fits.
LEMMA CallsFits ==
    ASSUME NEW kind, NEW key, NEW code, NEW r, NEW orders, NEW p, p = Calls(kind, key, code),
           kind # "link", kind = "scan" => code \in Code /\ key = code, kind = "part" => key = "inventory"
    PROVE  Fits(p, r, orders) /\ p.stage = "call" /\ p.says = "nothing"
<1>1. /\ Shaped(p) /\ p.kind = kind /\ p.stage = "call" /\ p.key = key /\ p.code = code
      /\ p.says = "nothing"
  BY CallsBuilds
<1>2. StagesFit(p) /\ ScanFits(p) /\ LinkFits(p) /\ LinkStands(p, r, orders)
  BY <1>1 DEF StagesFit, ScanFits, LinkFits, LinkStands, Calling
<1> QED
  BY <1>1, <1>2 DEF Fits

\* A photograph is read.
LEMMA AnalyzeStep ==
    ASSUME StoreInv, NEW r \in Request, NEW photo \in Code \cup NotACode, analyze(r, photo)
    PROVE  StoreInv' /\ Prints
<1>1. CASE photo \in Code
  <2> DEFINE p == Calls("scan", photo, photo)
  <2>1. Become(r, p) /\ UNCHANGED <<clock, shelf, was, drafts, cached>>
    BY <1>1 DEF analyze
  <2>2. Fits(p, r, drafts) /\ p.stage = "call" /\ p.says = "nothing"
    BY <1>1, CallsFits
  <2> HIDE DEF p
  <2> QED
    BY <2>1, <2>2, OneAsks
<1>2. CASE photo \notin Code
  <2> DEFINE p == Says([NotAsked EXCEPT !.kind = "scan"], photo, None)
  <2>1. Become(r, p) /\ UNCHANGED <<clock, shelf, was, drafts, cached>>
    BY <1>2 DEF analyze
  <2>2. photo # "link" /\ photo # "record"
    BY <1>2 DEF NotACode
  <2>3. Fits(p, r, drafts) /\ p.stage = "done" /\ p.says = photo
    BY <2>2, SaysFits, SaysBuilds
  <2> HIDE DEF p
  <2> QED
    BY <2>1, <2>2, <2>3, OneAsks
<1> QED
  BY <1>1, <1>2

\* Its parts are named.
LEMMA AnalyzePartStep ==
    ASSUME StoreInv, NEW r \in Request, NEW code, analyze_part(r, code)
    PROVE  StoreInv' /\ Prints
<1> DEFINE p == Calls("part", "inventory", code)
<1>1. Become(r, p) /\ UNCHANGED <<clock, shelf, was, drafts, cached>>
  BY DEF analyze_part
<1>2. Fits(p, r, drafts) /\ p.stage = "call" /\ p.says = "nothing"
  BY CallsFits
<1> HIDE DEF p
<1> QED
  BY <1>1, <1>2, OneAsks

\* A basket is checked out.
LEMMA CheckoutStep ==
    ASSUME StoreInv, NEW r \in Request, NEW basket \in Basket, checkout_link(r, basket)
    PROVE  StoreInv' /\ Prints
<1>1. CASE basket = <<>>
  <2> DEFINE p == Says([NotAsked EXCEPT !.kind = "link"], "refused", None)
  <2>1. Become(r, p) /\ UNCHANGED <<clock, shelf, was, drafts, cached>>
    BY <1>1 DEF checkout_link
  <2>2. Fits(p, r, drafts) /\ p.stage = "done" /\ p.says = "refused"
    BY SaysFits, SaysBuilds
  <2> HIDE DEF p
  <2> QED
    BY <2>1, <2>2, OneAsks
<1>2. CASE basket # <<>>
  <2> DEFINE p == [NotAsked EXCEPT !.kind = "link", !.stage = "resolve", !.items = basket,
                                   !.code = ToSet(basket)]
  <2>1. Become(r, p) /\ UNCHANGED <<clock, shelf, was, drafts, cached>>
    BY <1>2 DEF checkout_link
  <2>2. /\ Shaped(p) /\ p.kind = "link" /\ p.stage = "resolve" /\ p.items = basket
        /\ p.code = ToSet(basket) /\ p.lines = <<>> /\ p.says = "nothing"
    BY NotAskedFits DEF Shaped, Field
  <2> HIDE DEF p
  <2>3. basket \in Seq(Wanted) /\ <<>> \in Seq(Wanted)
    BY StoreAssumption, EmptySeq DEF Wanted
  <2>4. StagesFit(p) /\ ScanFits(p) /\ LinkFits(p) /\ LinkStands(p, r, drafts)
    BY <2>2, <2>3 DEF StagesFit, ScanFits, LinkFits, LinkStands, Calling
  <2>5. Fits(p, r, drafts)
    BY <2>2, <2>4 DEF Fits
  <2> QED
    BY <2>1, <2>2, <2>5, OneAsks
<1> QED
  BY <1>1, <1>2

\* A question is heard, or the card of a guest asked for.
LEMMA GuestStep ==
    ASSUME StoreInv, NEW r \in Request,
           \/ visit(r)
           \/ \E heard \in {"refused", "not_caught", "about_guest", "about_floor"} : voice_query(r, heard)
    PROVE  StoreInv' /\ Prints
<1>1. /\ UNCHANGED <<clock, shelf, was, drafts, cached>>
      /\ \/ \E kind \in {"ask", "visit"} : \E key : Become(r, Calls(kind, key, None))
         \/ \E heard \in {"refused", "not_caught"} :
               Become(r, Says([NotAsked EXCEPT !.kind = "ask"], heard, None))
  BY DEF visit, voice_query
<1>2. ASSUME NEW kind \in {"ask", "visit"}, NEW key, Become(r, Calls(kind, key, None))
      PROVE  StoreInv' /\ Prints
  <2> DEFINE p == Calls(kind, key, None)
  <2>1. Fits(p, r, drafts) /\ p.stage = "call" /\ p.says = "nothing"
    BY CallsFits
  <2>2. Become(r, p)
    BY <1>2
  <2> HIDE DEF p
  <2> QED
    BY <1>1, <2>1, <2>2, OneAsks
<1>3. ASSUME NEW heard \in {"refused", "not_caught"},
             Become(r, Says([NotAsked EXCEPT !.kind = "ask"], heard, None))
      PROVE  StoreInv' /\ Prints
  <2> DEFINE p == Says([NotAsked EXCEPT !.kind = "ask"], heard, None)
  <2>1. Fits(p, r, drafts) /\ p.stage = "done" /\ p.says = heard
    BY SaysFits, SaysBuilds
  <2>2. Become(r, p)
    BY <1>3
  <2> HIDE DEF p
  <2> QED
    BY <1>1, <2>1, <2>2, OneAsks
<1> QED
  BY <1>1, <1>2, <1>3

\* A checkout goes through its items.
LEMMA ResolveStep ==
    ASSUME StoreInv, NEW r \in Request, Resolve(r)
    PROVE  StoreInv' /\ Prints
<1>1. UNCHANGED <<clock, shelf, was, drafts, cached>>
  BY DEF Resolve
<1>2. req = [x \in Request |-> req[x]] /\ Fits(req[r], r, drafts)
  BY DEF StoreInv, Typed, ReqInv
<1>3. PICK p : req' = [req EXCEPT ![r] = p]
  BY DEF Resolve, Become
<1>4. req' = [x \in Request |-> req'[x]] /\ r \in DOMAIN req
  BY <1>2, <1>3
<1>5. Fits(p, r, drafts) /\ p.stage \in {"call", "resolve", "done"} /\ p.says # "record"
  BY <1>2, <1>3, <1>4, ResolveFits
<1> QED
  BY <1>1, <1>3, <1>5, OneAsks DEF Become

\* A request that has its answer goes on.
LEMMA OneHears ==
    ASSUME StoreInv, NEW r \in Request, req[r].stage \in Calling, NEW v, Become(r, Goes(req[r], v)),
           req[r].key = "draft" /\ v = "url" => (req[r].kind = "link" => Drafted(req[r], r, drafts)),
           UNCHANGED <<clock, shelf, was, drafts>>,
           cached' = [k \in CacheKeys |-> cached'[k]],
           \A k \in CacheKeys : InCache(cached'[k], k, shelf, was, clock),
           NEW t \in Nat, clock <= t + TTL + FetchTime,
           v = Raised \/ Held(shelf, was, req[r].key, v, t)
    PROVE  StoreInv' /\ Prints
<1> DEFINE q == req[r]
           p == Goes(q, v)
<1>1. Fits(q, r, drafts)
  BY DEF StoreInv, ReqInv
<1>2. Become(r, p)
  OBVIOUS
<1>3. q.kind = "link" /\ q.key = "draft" /\ v = "url" => Drafted(q, r, drafts)
  OBVIOUS
<1>4. q.stage \in Calling
  OBVIOUS
<1>5. Fits(p, r, drafts) /\ p.stage \in {"call", "resolve", "done"}
  BY <1>1, <1>3, <1>4, GoesFits
<1>6. p.says = "record" => Since(shelf, was, p.code, p.count, t)
  BY <1>1, <1>4, GoesRecords
<1> HIDE DEF p, q
<1>7. Recent(p, shelf, was, clock)
  <2> SUFFICES ASSUME p.says = "record", ~(clock <= TTL + FetchTime)
               PROVE  Since(shelf, was, p.code, p.count, clock - TTL - FetchTime)
    BY DEF Recent
  <2> DEFINE s == clock - TTL - FetchTime
  <2>1. s \in Nat /\ s <= t
    BY StoreAssumption DEF StoreInv, Typed
  <2>2. \A w \in was : w.until \in Nat
    BY DEF StoreInv, Typed
  <2> HIDE DEF s
  <2>3. Since(shelf, was, p.code, p.count, s)
    BY <1>6, <2>1, <2>2, SinceEarlier
  <2> QED
    BY <2>3 DEF s
<1>8. Waits(p, shelf, was, clock)
  BY <1>5 DEF Waits
<1>9. drafts \subseteq drafts' /\ Fits(p, r, drafts')
  BY <1>5
<1> QED
  BY <1>2, <1>7, <1>8, <1>9, OneGoesOn

\* The cache answers.
LEMMA CachedStep ==
    ASSUME StoreInv, NEW r \in Request, _cached(r)
    PROVE  StoreInv' /\ Prints
<1> DEFINE e == cached[req[r].key]
           v == e.value
<1>1. /\ req[r].stage \in Calling /\ req[r].key \in CacheKeys /\ e # None /\ clock - e.stamp < TTL
      /\ Become(r, Goes(req[r], v)) /\ UNCHANGED <<clock, shelf, was, drafts, cached>>
  BY DEF _cached, Hits, Fresh, Calling
<1>2. InCache(e, req[r].key, shelf, was, clock)
  BY <1>1 DEF StoreInv, CacheInv
<1>3. PICK t \in Nat : e.stamp \in Nat /\ t <= clock /\ e.stamp <= t + FetchTime
                       /\ Held(shelf, was, req[r].key, v, t)
  BY <1>1, <1>2 DEF InCache
<1>4. clock <= t + TTL + FetchTime
  BY <1>1, <1>3, StoreAssumption DEF StoreInv, Typed
<1>5. req[r].key # "draft"
  BY <1>1, StoreAssumption DEF CacheKeys
<1>6. /\ cached' = [k \in CacheKeys |-> cached'[k]]
      /\ \A k \in CacheKeys : InCache(cached'[k], k, shelf, was, clock)
  BY <1>1 DEF StoreInv, Typed, CacheInv
<1> HIDE DEF v, e
<1>7. UNCHANGED <<clock, shelf, was, drafts>>
  BY <1>1
<1> QED
  BY <1>1, <1>3, <1>4, <1>5, <1>6, <1>7, OneHears

\* The token is minted first.
LEMMA MintStep ==
    ASSUME StoreInv, NEW r \in Request, Mint(r)
    PROVE  StoreInv' /\ Prints
<1> DEFINE q == req[r]
           p == [q EXCEPT !.stage = "minting", !.at = clock]
<1>1. Become(r, p) /\ UNCHANGED <<clock, shelf, was, drafts, cached>> /\ q.stage \in Calling
  BY DEF Mint, Calling
<1>2. Fits(q, r, drafts)
  BY DEF StoreInv, ReqInv
<1>3. Waiting(p, q, clock) /\ q.stage \in Calling
  BY <1>1 DEF Waiting
<1>4. p.at = clock
  BY <1>2 DEF Fits, Shaped, Field
<1> HIDE DEF p, q
<1>5. Fits(p, r, drafts) /\ p.stage = "minting" /\ p.says = "nothing"
  BY <1>2, <1>3, MintingFits
<1>6. Waits(p, shelf, was, clock)
  BY <1>4, <1>5, StoreAssumption DEF Waits, StoreInv, Typed
<1>7. Recent(p, shelf, was, clock)
  BY <1>5 DEF Recent
<1>8. /\ cached' = [k \in CacheKeys |-> cached'[k]]
      /\ \A k \in CacheKeys : InCache(cached'[k], k, shelf, was, clock)
  BY <1>1 DEF StoreInv, Typed, CacheInv
<1>9. drafts \subseteq drafts' /\ Fits(p, r, drafts') /\ UNCHANGED <<clock, shelf, was>>
  BY <1>1, <1>5
<1> QED
  BY <1>1, <1>6, <1>7, <1>8, <1>9, OneGoesOn

\* A query is sent.
LEMMA SendsStep ==
    ASSUME StoreInv, NEW r \in Request, NEW v \in Replies(req[r]), Minted(r, v) \/ query(r, v)
    PROVE  StoreInv' /\ Prints
<1> DEFINE q == req[r]
           p == [q EXCEPT !.stage = "sent", !.at = clock, !.got = v]
<1>1. /\ Become(r, p) /\ UNCHANGED <<clock, shelf, was, cached>> /\ q.stage \in Calling
      /\ drafts' = Drafting(q, r, v, drafts)
  BY DEF Minted, query, Sends, Calling, Drafting
<1>2. Fits(q, r, drafts)
  BY DEF StoreInv, ReqInv
<1>3. SentOff(p, q, clock, v) /\ q.stage \in Calling
  BY <1>1 DEF SentOff
<1>4. Held(shelf, was, q.key, v, clock)
  BY RepliesHeld
<1>5. drafts \subseteq drafts'
  BY <1>1 DEF Drafting
<1> HIDE DEF p, q
<1>6. /\ Fits(p, r, drafts') /\ p.stage = "sent" /\ p.at = clock /\ p.got = v /\ p.key = q.key
      /\ p.says = "nothing"
  BY <1>1, <1>2, <1>3, SentFits
<1>7. Waits(p, shelf, was, clock)
  BY <1>4, <1>6, StoreAssumption DEF Waits, StoreInv, Typed
<1>8. Recent(p, shelf, was, clock)
  BY <1>6 DEF Recent
<1>9. /\ cached' = [k \in CacheKeys |-> cached'[k]]
      /\ \A k \in CacheKeys : InCache(cached'[k], k, shelf, was, clock)
  BY <1>1 DEF StoreInv, Typed, CacheInv
<1> QED
  BY <1>1, <1>5, <1>6, <1>7, <1>8, <1>9, OneGoesOn

\* Its answer arrives, and is stamped.
LEMMA AnsweredStep ==
    ASSUME StoreInv, NEW r \in Request, Answered(r)
    PROVE  StoreInv' /\ Prints
<1> DEFINE q == req[r]
           v == q.got
           e == [value |-> v, stamp |-> clock]
<1>1. /\ q.stage = "sent" /\ Become(r, Goes(q, v)) /\ UNCHANGED <<clock, shelf, was, drafts>>
      /\ cached' = IF q.key \in CacheKeys THEN [cached EXCEPT ![q.key] = e] ELSE cached
  BY DEF Answered
<1>2. Fits(q, r, drafts) /\ Waits(q, shelf, was, clock)
  BY DEF StoreInv, ReqInv
<1>3. q.at \in Nat /\ q.at <= clock /\ clock <= q.at + FetchTime /\ Held(shelf, was, q.key, v, q.at)
  BY <1>1, <1>2 DEF Waits
<1>4. clock <= q.at + TTL + FetchTime
  BY <1>3, StoreAssumption DEF StoreInv, Typed
<1>5. q.key = "draft" /\ v = "url" => (q.kind = "link" => Drafted(q, r, drafts))
  BY <1>1, <1>2 DEF Fits, LinkStands
<1>6. e.value = v /\ e.stamp = clock
  OBVIOUS
<1> HIDE DEF e
<1>7. InCache(e, q.key, shelf, was, clock)
  BY <1>3, <1>6 DEF InCache, StoreInv, Typed
<1>8. cached' = [k \in CacheKeys |-> cached'[k]]
  BY <1>1 DEF StoreInv, Typed
<1>9. ASSUME NEW k \in CacheKeys PROVE InCache(cached'[k], k, shelf, was, clock)
  <2>1. InCache(cached[k], k, shelf, was, clock)
    BY DEF StoreInv, CacheInv
  <2>2. cached'[k] = cached[k] \/ (k = q.key /\ cached'[k] = e)
    BY <1>1 DEF StoreInv, Typed
  <2> QED
    BY <1>7, <2>1, <2>2
<1>10. req[r].stage \in Calling
  BY <1>1 DEF Calling
<1> QED
  BY <1>1, <1>3, <1>4, <1>5, <1>8, <1>9, <1>10, OneHears

\* The token or the query fails.
LEMMA FailsStep ==
    ASSUME StoreInv, NEW r \in Request, Fails(r)
    PROVE  StoreInv' /\ Prints
<1>1. /\ req[r].stage \in Calling /\ Become(r, Goes(req[r], Raised))
      /\ UNCHANGED <<clock, shelf, was, drafts, cached>>
  BY DEF Fails, Calling
<1>2. /\ cached' = [k \in CacheKeys |-> cached'[k]]
      /\ \A k \in CacheKeys : InCache(cached'[k], k, shelf, was, clock)
  BY <1>1 DEF StoreInv, Typed, CacheInv
<1>3. Raised # "url"
  BY StoreAssumption
<1>4. clock \in Nat /\ clock <= clock + TTL + FetchTime
  BY StoreAssumption DEF StoreInv, Typed
<1>5. UNCHANGED <<clock, shelf, was, drafts>>
  BY <1>1
<1> QED
  BY <1>1, <1>2, <1>3, <1>4, <1>5, OneHears

\* The store sells.
LEMMA SellStep ==
    ASSUME StoreInv, NEW c \in Code, NEW n \in Units \cup {None}, Sell(c, n)
    PROVE  StoreInv' /\ Prints
<1>1. /\ shelf' = [shelf EXCEPT ![c] = n] /\ UNCHANGED <<clock, drafts, token, cached, req>>
      /\ was' = was \cup {[code |-> c, count |-> shelf[c], until |-> clock]}
  BY DEF Sell
<1>2. Typed'
  BY <1>1 DEF StoreInv, Typed
<1>3. shelf'[c] = n /\ Sold(shelf, was, shelf', was', clock, c) /\ clock \in Nat
  BY <1>1 DEF Sold, StoreInv, Typed
<1>4. \A key, v : \A t \in Nat : t <= clock /\ Held(shelf, was, key, v, t) => Held(shelf', was', key, v, t)
  BY <1>3, HeldKept
<1>5. ASSUME NEW k \in CacheKeys PROVE InCache(cached[k], k, shelf', was', clock)
  <2>1. InCache(cached[k], k, shelf, was, clock)
    BY DEF StoreInv, CacheInv
  <2> QED
    BY <1>4, <2>1 DEF InCache
<1>6. CacheInv'
  BY <1>1, <1>5 DEF CacheInv, CacheKeys
<1>7. ASSUME NEW r \in Request PROVE Fits(req[r], r, drafts) /\ Waits(req[r], shelf', was', clock)
  <2>1. Fits(req[r], r, drafts) /\ Waits(req[r], shelf, was, clock)
    BY DEF StoreInv, ReqInv
  <2> QED
    BY <1>4, <2>1 DEF Waits
<1>8. ReqInv'
  BY <1>1, <1>7 DEF ReqInv
<1> QED
  BY <1>1, <1>2, <1>6, <1>8 DEF StoreInv, Prints

\* Time passes.
LEMMA PassesStep ==
    ASSUME StoreInv, Passes
    PROVE  StoreInv' /\ Prints
<1>1. /\ clock' = clock + 1 /\ clock \in Nat /\ UNCHANGED <<shelf, was, drafts, token, cached, req>>
      /\ \A r \in Request : req[r].stage \in {"minting", "sent"} => clock - req[r].at < FetchTime
  BY DEF Passes, StoreInv, Typed
<1>2. Typed'
  BY <1>1 DEF StoreInv, Typed
<1>3. ASSUME NEW k \in CacheKeys PROVE InCache(cached[k], k, shelf, was, clock + 1)
  <2>1. InCache(cached[k], k, shelf, was, clock)
    BY DEF StoreInv, CacheInv
  <2> QED
    BY <1>1, <2>1 DEF InCache
<1>4. CacheInv'
  BY <1>1, <1>3 DEF CacheInv, CacheKeys
<1>5. ASSUME NEW r \in Request PROVE Fits(req[r], r, drafts) /\ Waits(req[r], shelf, was, clock + 1)
  <2>1. Fits(req[r], r, drafts) /\ Waits(req[r], shelf, was, clock)
    BY DEF StoreInv, ReqInv
  <2>2. Waits(req[r], shelf, was, clock + 1)
    BY <1>1, <2>1, StoreAssumption DEF Waits
  <2> QED
    BY <2>1, <2>2
<1>6. ReqInv'
  BY <1>1, <1>5 DEF ReqInv
<1> QED
  BY <1>1, <1>2, <1>4, <1>6 DEF StoreInv, Prints

-----------------------------------------------------------------------------

\* The store opens with nobody asking.
LEMMA StoreOpens == StoreInit => StoreInv
<1> SUFFICES ASSUME StoreInit PROVE StoreInv
  OBVIOUS
<1>1. Typed
  BY DEF StoreInit, Typed
<1>2. CacheInv
  BY DEF StoreInit, CacheInv, InCache
<1>3. \A r \in Request : req[r] = NotAsked
  BY DEF StoreInit
<1>4. \A r \in Request : Fits(NotAsked, r, drafts) /\ Waits(NotAsked, shelf, was, clock)
  BY NotAskedFits DEF Fits, StagesFit, ScanFits, LinkFits, LinkStands, Waits, Calling
<1> QED
  BY <1>1, <1>2, <1>3, <1>4 DEF StoreInv, ReqInv

\* Every step keeps the invariant, and prints only counts that are recent.
LEMMA StoreStep == StoreInv /\ [StoreNext]_storevars => StoreInv' /\ (Prints \/ UNCHANGED storevars)
<1> SUFFICES ASSUME StoreInv, [StoreNext]_storevars
             PROVE  StoreInv' /\ (Prints \/ UNCHANGED storevars)
  OBVIOUS
<1>1. ASSUME NEW r \in Request, NEW photo \in Code \cup NotACode, analyze(r, photo) PROVE StoreInv' /\ Prints
  BY <1>1, AnalyzeStep
<1>2. ASSUME NEW r \in Request, NEW code, analyze_part(r, code) PROVE StoreInv' /\ Prints
  BY <1>2, AnalyzePartStep
<1>3. ASSUME NEW r \in Request, NEW basket \in Basket, checkout_link(r, basket) PROVE StoreInv' /\ Prints
  BY <1>3, CheckoutStep
<1>4. ASSUME NEW r \in Request, NEW heard \in {"refused", "not_caught", "about_guest", "about_floor"},
             voice_query(r, heard)
      PROVE  StoreInv' /\ Prints
  BY <1>4, GuestStep
<1>5. ASSUME NEW r \in Request, visit(r) PROVE StoreInv' /\ Prints
  BY <1>5, GuestStep
<1>6. ASSUME NEW r \in Request, Resolve(r) PROVE StoreInv' /\ Prints
  BY <1>6, ResolveStep
<1>7. ASSUME NEW r \in Request, _cached(r) PROVE StoreInv' /\ Prints
  BY <1>7, CachedStep
<1>8. ASSUME NEW r \in Request, Mint(r) PROVE StoreInv' /\ Prints
  BY <1>8, MintStep
<1>9. ASSUME NEW r \in Request, Answered(r) PROVE StoreInv' /\ Prints
  BY <1>9, AnsweredStep
<1>10. ASSUME NEW r \in Request, Fails(r) PROVE StoreInv' /\ Prints
  BY <1>10, FailsStep
<1>11. ASSUME NEW r \in Request, NEW v \in Replies(req[r]), Minted(r, v) \/ query(r, v)
       PROVE  StoreInv' /\ Prints
  BY <1>11, SendsStep
<1>12. ASSUME NEW c \in Code, NEW n \in Units \cup {None}, Sell(c, n) PROVE StoreInv' /\ Prints
  BY <1>12, SellStep
<1>13. CASE Passes
  BY <1>13, PassesStep
<1>14. CASE UNCHANGED storevars
  <2>1. Typed' /\ CacheInv' /\ ReqInv'
    BY <1>14 DEF storevars, StoreInv, Typed, CacheInv, ReqInv, CacheKeys
  <2> QED
    BY <1>14, <2>1 DEF StoreInv
<1> QED
  BY <1>1, <1>2, <1>3, <1>4, <1>5, <1>6, <1>7, <1>8, <1>9, <1>10, <1>11, <1>12, <1>13, <1>14 DEF StoreNext

\* The invariant holds of the adapter and of whatever reads through it.
LEMMA StoreInvariant == StoreSpec => []StoreInv
<1>1. StoreInv /\ [StoreNext]_storevars => StoreInv'
  BY StoreStep
<1> QED
  BY <1>1, StoreOpens, PTL DEF StoreSpec

(* The floor checkout (checkout.py build_link): a link that is handed over  *)
(* has a draft in the store with every code of the basket, but for those it *)
(* names as skipped, whichever lookups failed on the way.                   *)
THEOREM Accounted == StoreSpec => []CodesAreAccountedFor
<1>1. StoreInv => CodesAreAccountedFor
  BY DEF StoreInv, ReqInv, Fits, LinkStands, Drafted, CodesAreAccountedFor
<1> QED
  BY <1>1, StoreInvariant, PTL

(* The records of the floor (shopify.py _query, vision.py): a count that    *)
(* goes on the glass was the store's at most a cache life and a query       *)
(* earlier, whichever requests filled the cache and in whatever order their *)
(* answers came.                                                            *)
THEOREM RecentCounts == StoreSpec => CountsAreRecent
<1> DEFINE Step == \A r \in Request : req'[r].says = "record" /\ req[r].says # "record" =>
                     \/ clock <= TTL + FetchTime
                     \/ HeldSince(req'[r].code, req'[r].count, clock - TTL - FetchTime)
<1>1. StoreInv /\ [StoreNext]_storevars => [Step]_storevars
  BY StoreStep DEF Prints, Recent, Since, HeldSince
<1>2. StoreSpec => [][Step]_storevars
  BY <1>1, StoreInvariant, PTL DEF StoreSpec
<1> QED
  BY <1>2 DEF CountsAreRecent

-----------------------------------------------------------------------------
(* The shape of what the adapter and the requests hold. *)

\* A request was sent off in the past and has skipped codes of the store.
Dated(q, now) == q.at \in Nat /\ q.at <= now /\ q.skipped \subseteq Code

StoreDated == clock \in 0..MaxTime /\ \A r \in Request : Dated(req[r], clock)

\* Requests that are made, and those that are done, are of no time.
LEMMA MadeDated ==
    ASSUME NEW now \in Nat
    PROVE  /\ Dated(NotAsked, now)
           /\ \A kind, key, code : Dated(Calls(kind, key, code), now)
           /\ \A kind, what : Dated(Says([NotAsked EXCEPT !.kind = kind], what, None), now)
BY DEF Dated, NotAsked, Calls, Says

LEMMA DoneDated ==
    ASSUME NEW now \in Nat, NEW q, Dated(q, now)
    PROVE  \A what, n : Dated(Says(q, what, n), now)
BY DEF Dated, NotAsked, Says

\* A request that has its answer goes on with what it knew.
LEMMA GoesDated ==
    ASSUME NEW q, NEW r, NEW orders, Fits(q, r, orders), q.stage \in Calling, NEW v, NEW p, p = Goes(q, v),
           NEW now \in Nat, Dated(q, now)
    PROVE  Dated(p, now)
<1>1. Shaped(q)
  BY DEF Fits
<1>2. \A what, n : Dated(Says(q, what, n), now)
  BY DoneDated
<1>3. ASSUME NEW key, GoesOn(p, q, key) PROVE Dated(p, now)
  BY <1>1, <1>3 DEF GoesOn, Dated, Shaped, Field
<1>4. CASE q.kind = "scan"
  <2>1. \/ \E what, n : p = Says(q, what, n)
        \/ \E key : GoesOn(p, q, key)
    BY <1>4 DEF Goes, _sku_answer, GoesOn
  <2> QED
    BY <1>2, <1>3, <2>1
<1>5. CASE q.kind = "part"
  <2>1. \E what, n : p = Says(q, what, n)
    BY <1>5 DEF Goes, _part_answer
  <2> QED
    BY <1>2, <2>1
<1>6. CASE q.kind = "link"
  <2>1. p = build_link(q, v)
    BY <1>6 DEF Goes
  <2>2. CASE q.key = "draft"
    <3>1. \E what : p = Says(q, what, None)
      BY <2>1, <2>2 DEF build_link
    <3> QED
      BY <1>2, <3>1
  <2>3. CASE q.key # "draft" /\ v \in Units
    <3> DEFINE lines == Append(q.lines, q.key)
               items == Tail(q.items)
    <3>1. p = [q EXCEPT !.items = items, !.stage = "resolve", !.lines = lines]
      BY <2>1, <2>3 DEF build_link
    <3> HIDE DEF lines, items
    <3> QED
      BY <1>1, <3>1 DEF Dated, Shaped, Field
  <2>4. CASE q.key # "draft" /\ v \notin Units
    <3> DEFINE skipped == q.skipped \cup {q.key}
               items == Tail(q.items)
    <3>1. p = [q EXCEPT !.items = items, !.stage = "resolve", !.skipped = skipped]
      BY <2>1, <2>4 DEF build_link, Unresolved
    <3>2. q.key \in Code
      BY <1>6, <2>4 DEF Fits, LinkFits
    <3>3. skipped \subseteq Code
      BY <3>2 DEF Dated
    <3> HIDE DEF skipped, items
    <3> QED
      BY <1>1, <3>1, <3>3 DEF Dated, Shaped, Field
  <2> QED
    BY <2>2, <2>3, <2>4
<1>7. CASE q.kind \notin {"scan", "part", "link"}
  <2>1. p = guest_context(q, v)
    BY <1>7 DEF Goes
  <2>2. \/ \E what : p = Says(q, what, None)
        \/ \E key : GoesOn(p, q, key)
    BY <2>1 DEF guest_context, GoesOn
  <2> QED
    BY <1>2, <1>3, <2>2
<1> QED
  BY <1>4, <1>5, <1>6, <1>7

LEMMA StoreDates ==
    ASSUME StoreInv, StoreDated, [StoreNext]_storevars
    PROVE  StoreDated'
<1>1. /\ clock \in Nat /\ clock \in 0..MaxTime /\ MaxTime \in Nat
      /\ \A r \in Request : Fits(req[r], r, drafts) /\ Shaped(req[r]) /\ Dated(req[r], clock)
      /\ req = [r \in Request |-> req[r]]
  BY StoreAssumption DEF StoreInv, Typed, ReqInv, StoreDated, Fits
<1>2. ASSUME NEW r \in Request, NEW p, Become(r, p), clock' = clock, Dated(p, clock) PROVE StoreDated'
  BY <1>1, <1>2 DEF Become, StoreDated
<1>3. ASSUME NEW r \in Request, NEW p, Become(r, p), clock' = clock,
             \E v : p = Goes(req[r], v), req[r].stage \in Calling
      PROVE  StoreDated'
  BY <1>1, <1>2, <1>3, GoesDated
<1>4. ASSUME NEW r \in Request, NEW photo \in Code \cup NotACode, analyze(r, photo) PROVE StoreDated'
  <2>1. /\ clock' = clock
        /\ \/ Become(r, Calls("scan", photo, photo))
           \/ Become(r, Says([NotAsked EXCEPT !.kind = "scan"], photo, None))
    BY <1>4 DEF analyze
  <2> QED
    BY <1>1, <1>2, <2>1, MadeDated
<1>5. ASSUME NEW r \in Request, NEW code, analyze_part(r, code) PROVE StoreDated'
  BY <1>1, <1>2, <1>5, MadeDated DEF analyze_part
<1>6. ASSUME NEW r \in Request, NEW basket \in Basket, checkout_link(r, basket) PROVE StoreDated'
  <2>1. CASE basket = <<>>
    BY <1>1, <1>2, <1>6, <2>1, MadeDated DEF checkout_link
  <2>2. CASE basket # <<>>
    <3> DEFINE p == [NotAsked EXCEPT !.kind = "link", !.stage = "resolve", !.items = basket, !.code = ToSet(basket)]
    <3>1. Become(r, p) /\ clock' = clock
      BY <1>6, <2>2 DEF checkout_link
    <3>2. Dated(p, clock)
      BY <1>1 DEF Dated, NotAsked
    <3> HIDE DEF p
    <3> QED
      BY <1>2, <3>1, <3>2
  <2> QED
    BY <2>1, <2>2
<1>7. ASSUME NEW r \in Request,
             \/ visit(r)
             \/ \E heard \in {"refused", "not_caught", "about_guest", "about_floor"} : voice_query(r, heard)
      PROVE  StoreDated'
  <2>1. /\ clock' = clock
        /\ \/ \E kind \in {"ask", "visit"} : \E key : Become(r, Calls(kind, key, None))
           \/ \E heard \in {"refused", "not_caught"} :
                 Become(r, Says([NotAsked EXCEPT !.kind = "ask"], heard, None))
    BY <1>7 DEF visit, voice_query
  <2> QED
    BY <1>1, <1>2, <2>1, MadeDated
<1>8. ASSUME NEW r \in Request, Resolve(r) PROVE StoreDated'
  <2> DEFINE q == req[r]
  <2>1. clock' = clock
        /\ \E p : /\ Become(r, p)
                  /\ \/ \E what : p = Says(q, what, None)
                     \/ \E key : GoesOn(p, q, key)
                     \/ p = [q EXCEPT !.items = Tail(q.items)]
                     \/ \E x : p = [q EXCEPT !.items = Tail(q.items), !.lines = x]
    BY <1>8 DEF Resolve, GoesOn
  <2>2. PICK p : /\ Become(r, p)
                 /\ \/ \E what : p = Says(q, what, None)
                    \/ \E key : GoesOn(p, q, key)
                    \/ p = [q EXCEPT !.items = Tail(q.items)]
                    \/ \E x : p = [q EXCEPT !.items = Tail(q.items), !.lines = x]
    BY <2>1
  <2>3. Shaped(q) /\ Dated(q, clock)
    BY <1>1
  <2> HIDE DEF q
  <2>4. Dated(p, clock)
    <3>1. (\E what : p = Says(q, what, None)) => Dated(p, clock)
      BY <1>1, <2>3, DoneDated
    <3>2. p # Says(q, "x", None) /\ (\E key : GoesOn(p, q, key)) => Dated(p, clock)
      BY <2>3 DEF GoesOn, Dated, Shaped, Field
    <3> QED
      BY <2>2, <2>3, <3>1 DEF Dated, Shaped, Field, GoesOn
  <2> QED
    BY <1>2, <2>1, <2>2, <2>4
<1>9. ASSUME NEW r \in Request, _cached(r) \/ Answered(r) \/ Fails(r) PROVE StoreDated'
  <2>1. clock' = clock /\ req[r].stage \in Calling /\ \E v : Become(r, Goes(req[r], v))
    BY <1>9 DEF _cached, Answered, Fails, Calling
  <2> QED
    BY <1>3, <2>1
<1>10. ASSUME NEW r \in Request, Mint(r) PROVE StoreDated'
  <2> DEFINE p == [req[r] EXCEPT !.stage = "minting", !.at = clock]
  <2>1. Become(r, p) /\ clock' = clock
    BY <1>10 DEF Mint
  <2>2. Dated(p, clock)
    BY <1>1 DEF Dated, Shaped, Field
  <2> HIDE DEF p
  <2> QED
    BY <1>2, <2>1, <2>2
<1>11. ASSUME NEW r \in Request, NEW v, Minted(r, v) \/ query(r, v) PROVE StoreDated'
  <2> DEFINE p == [req[r] EXCEPT !.stage = "sent", !.at = clock, !.got = v]
  <2>1. Become(r, p) /\ clock' = clock
    BY <1>11 DEF Minted, query, Sends
  <2>2. Dated(p, clock)
    BY <1>1 DEF Dated, Shaped, Field
  <2> HIDE DEF p
  <2> QED
    BY <1>2, <2>1, <2>2
<1>12. ASSUME UNCHANGED <<clock, req>> PROVE StoreDated'
  BY <1>12 DEF StoreDated
<1>13. CASE Passes
  <2>1. clock' = clock + 1 /\ clock < MaxTime /\ req' = req
    BY <1>13 DEF Passes
  <2>2. clock' \in 0..MaxTime
    BY <1>1, <2>1
  <2>3. \A r \in Request : Dated(req'[r], clock')
    BY <1>1, <2>1 DEF Dated
  <2> QED
    BY <2>2, <2>3 DEF StoreDated
<1>14. ASSUME NEW c \in Code, NEW n \in Units \cup {None}, Sell(c, n) PROVE StoreDated'
  BY <1>12, <1>14 DEF Sell
<1>15. CASE UNCHANGED storevars
  BY <1>12, <1>15 DEF storevars
<1> QED
  BY <1>4, <1>5, <1>6, <1>7, <1>8, <1>9, <1>10, <1>11, <1>13, <1>14, <1>15 DEF StoreNext

\* The clock, the shelf, the cache and the requests keep their shape, and only
\* codes of the store are named as skipped (crm_shopify.py, checkout.py).
THEOREM StoreTyped == StoreSpec => []StoreTypeOK
<1>1. StoreInit => StoreDated
  BY MadeDated, StoreAssumption DEF StoreInit, StoreDated
<1>2. StoreInv /\ StoreDated /\ [StoreNext]_storevars => StoreDated'
  BY StoreDates
<1>3. StoreInv /\ StoreDated => StoreTypeOK
  BY DEF StoreInv, Typed, CacheInv, InCache, StoreDated, Dated, StoreTypeOK
<1> QED
  BY <1>1, <1>2, <1>3, StoreInvariant, PTL DEF StoreSpec
=============================================================================
