---------------------------- MODULE VoiceAnswer ----------------------------
(***************************************************************************)
(* How a spoken question is answered (voice.py, personas.py): a pure       *)
(* function of the question, the floor's inventory, the guest and the item *)
(* on the lens.  A question is what the rules see of it: the words that    *)
(* name things (singular and plural are one word), the sizes, whether it   *)
(* points ("these"), the phrases that give its intent away and the topics  *)
(* of a guest record it touches.  A line of the answer is "words" when it  *)
(* has wording of its own, else the text of the record it quotes.          *)
(***************************************************************************)
EXTENDS Integers, Sequences, FiniteSets, FiniteSetsExt, NoValue

CONSTANTS
    Word, Garment,     \* words that name things; those of _GARMENT_WORDS
    Bottoms,           \* words by which _is_bottoms knows trousers
    Size, SchemeOf, WaistOf,   \* sizes as said and on rails, their scheme, their waist
    Inventory,         \* floors: sequences of items
    Guest,             \* guest records the CRM may have, None for no guest
    Model              \* what the language model may do, and the text it answers with

Intents == <<"stock", "location", "price", "history", "recommend">>
Topic == {"size", "cart", "points", "address", "contact", "order"}
Schemes == <<"waist", "numeric", "letter">>

\* An item may expose how many it has of each variant.  The counts are the
\* store's, not clamped: a variant that is oversold has fewer than none.
CountsVariants(item) ==
    item.sizes = None \/ (DOMAIN item.sizes \subseteq Size /\ item.sizes \in [DOMAIN item.sizes -> Int])

ASSUME VoiceAssumption ==
    /\ IsFiniteSet(Word) /\ Garment \subseteq Word /\ Bottoms \subseteq Word
    /\ IsFiniteSet(Size) /\ None \notin Size
    /\ None \notin {"waist", "numeric", "letter"}
    /\ SchemeOf \in [Size -> {"waist", "numeric", "letter", None}]
    /\ \A z \in Size : WaistOf[z] = None <=> SchemeOf[z] \notin {"waist", "numeric"}
    /\ \A f \in Inventory : f \in Seq(Range(f)) /\ \A i \in DOMAIN f : CountsVariants(f[i])
    /\ \A g \in Guest \ {None} : {g.bottoms, g.tops} \subseteq Size \cup {None}

VARIABLES
    stage,    \* "asked", then "answered"
    heard, inventory, guest, focus,   \* the question and its context; focus 0: none
    order,    \* the order a Python set of scheme names is iterated in
    model,    \* what the language model does
    out       \* the answer

voicevars == <<stage, heard, inventory, guest, focus, order, model, out>>

Items == DOMAIN inventory
Item(i) == inventory[i]

----------------------------------------------------------------------------
(* Sizes                                                                   *)

\* Waist by inseam wins, then a word, then a bare number; among several of one
\* kind the first said, which a set does not tell: any of them.
extract_size ==
    LET of(s) == {z \in heard.sizes : SchemeOf[z] = s}
    IN IF of("waist") # {} THEN of("waist")
       ELSE IF of("letter") # {} THEN of("letter")
       ELSE IF of("numeric") # {} THEN of("numeric") ELSE {None}

size_scheme(z) == IF z = None THEN None ELSE SchemeOf[z]

\* The keys of the item's variants, up to case; none when it exposes none.
Rail(item) == IF item.sizes = None THEN {} ELSE DOMAIN item.sizes

\* The scheme most of the variants have; a tie goes to the first in the order
\* of iteration, which changes from one process to the next.
Many(item, s) == Cardinality({z \in Rail(item) : SchemeOf[z] = s})
item_scheme(item) ==
    LET most == {k \in 1..3 : /\ Many(item, order[k]) > 0
                              /\ \A l \in 1..3 : Many(item, order[l]) <= Many(item, order[k])}
    IN IF most = {} THEN None ELSE order[Min(most)]

Comparable(a, b) == (a = b /\ a # None) \/ {a, b} = {"numeric", "waist"}

_scheme_compatible(item, z) ==
    size_scheme(z) = None \/ item_scheme(item) = None \/ Comparable(size_scheme(z), item_scheme(item))

_size_keys_matching(item, z) ==
    IF z \in Rail(item) THEN {z}
    ELSE {k \in Rail(item) : {SchemeOf[k], SchemeOf[z]} = {"numeric", "waist"} /\ WaistOf[k] = WaistOf[z]}

\* What hangs under these keys, and what was sold beyond it: their counts add
\* up to the difference.
Hanging(item, keys) == UNION {{k} \X (1..item.sizes[k]) : k \in keys}
Oversold(item, keys) == UNION {{k} \X (1..-item.sizes[k]) : k \in keys}
UnitsOf(item, keys) == Cardinality(Hanging(item, keys)) - Cardinality(Oversold(item, keys))

Blind_IsNo(item, z) == FALSE
\* The sizes cannot be lined up: reporting "no" would report our blindness.
Blind(item, z) ==
    \/ size_scheme(z) = None \/ item_scheme(item) = None
    \/ ~ Comparable(size_scheme(z), item_scheme(item))

size_availability(item, z) ==
    IF z = None THEN [verdict |-> IF item.stock > 0 THEN "yes" ELSE "no", units |-> item.stock]
    ELSE IF item.sizes = None THEN [verdict |-> "unknown", units |-> None]
    ELSE LET keys == _size_keys_matching(item, z)
             n == UnitsOf(item, keys)
         IN IF keys # {} THEN [verdict |-> IF n > 0 THEN "yes" ELSE "no", units |-> n]
            ELSE IF Blind(item, z) THEN [verdict |-> "unknown", units |-> None]
            ELSE [verdict |-> "no", units |-> 0]

\* All the sizes it may offer; the answer says the first two of them.
nearest_sizes(item, z) ==
    {k \in Rail(item) : /\ item.sizes[k] > 0
                        /\ z # None => k \notin _size_keys_matching(item, z)
                        /\ size_scheme(z) # None => Comparable(size_scheme(z), SchemeOf[k])}

----------------------------------------------------------------------------
(* Which product is meant                                                  *)

score(i) == 2 * Cardinality(heard.words \cap Item(i).name) + Cardinality(heard.words \cap Item(i).tags)
Best == CHOOSE i \in Items : \A j \in Items : score(j) < score(i) \/ (score(j) = score(i) /\ j >= i)
BestScore == IF inventory = <<>> THEN 0 ELSE score(Best)

Stocked == UNION {Item(i).name \cup Item(i).tags : i \in Items}
_names_absent_garment ==
    LET spoken == heard.words \cap Garment
    IN spoken # {} /\ spoken \cap Stocked = {}

Means(i, how) == [item |-> i, how |-> how]

\* They point at something that the item on the lens cannot be.
PointsElsewhere(z) ==
    LET sized == {i \in Items : item_scheme(Item(i)) # None /\ _scheme_compatible(Item(i), z)}
    IN IF Cardinality(sized) = 1 THEN Means(CHOOSE i \in sized : TRUE, "size-scheme")
       ELSE Means(0, "ambiguous")

resolve_product(z) ==
    IF BestScore >= 2 THEN Means(Best, "named")
    ELSE IF focus # 0 /\ heard.deictic
         THEN IF _scheme_compatible(Item(focus), z) THEN Means(focus, "focus") ELSE PointsElsewhere(z)
    ELSE IF BestScore >= 1 THEN Means(Best, "named")
    ELSE IF _names_absent_garment THEN Means(0, "unstocked")
    ELSE IF focus # 0 /\ _scheme_compatible(Item(focus), z) THEN Means(focus, "focus")
    ELSE Means(0, "none")

detect_intent(z) ==
    LET hit == {k \in DOMAIN Intents : Intents[k] \in heard.phrases}
    IN IF heard.record THEN "history"
       ELSE IF hit # {} THEN Intents[Min(hit)]
       ELSE IF z # None THEN "stock" ELSE "open"

----------------------------------------------------------------------------
(* The answers                                                             *)

\* cue.build: the first three lines that are not blank.
build(lines) == LET filled == SelectSeq(lines, LAMBDA l : l # "")
                IN SubSeq(filled, 1, Min({3, Len(filled)}))

_package(kind, i, how, z, lines) ==
    [kind |-> kind, item |-> i, how |-> how, size |-> z, lines |-> build(lines), verdict |-> None, units |-> None]

Say(kind) == _package(kind, 0, "none", None, <<"words", "words">>)

_is_bottoms(item) == (item.name \cup item.tags) \cap Bottoms # {}

\* The guest's own size, when the question has none.
Asked(item, z) ==
    IF z # None \/ guest = None THEN z
    ELSE IF _is_bottoms(item) THEN guest.bottoms ELSE guest.tops

_answer_stock(i, how, z) ==
    LET s == Asked(Item(i), z)
        a == size_availability(Item(i), s)
    IN IF s # None /\ ~ _scheme_compatible(Item(i), s)
       THEN _package("not_sized", i, how, s, <<"words", "words", "words">>)
       ELSE [_package("stock", i, how, s, <<"words", "words", "words">>)
                EXCEPT !.verdict = a.verdict, !.units = a.units]

_answer_location(i, how) == _package("location", i, how, None, <<Item(i).location, Item(i).text, "words">>)
_answer_price(i, how) == _package("price", i, how, None, <<"words", Item(i).text, "words">>)

\* The first topic the question touches, in the order they are tried.
_answer_history ==
    IF guest = None THEN Say("no_guest")
    ELSE IF "size" \in heard.topics THEN Say("guest_sizes")
    ELSE IF "cart" \in heard.topics THEN Say("cart")
    ELSE IF "points" \in heard.topics THEN Say("points")
    ELSE IF "address" \in heard.topics
         THEN IF guest.address = "" THEN Say("no_address")
              ELSE _package("address", 0, "none", None, <<guest.address, guest.address>>)
    ELSE IF "contact" \in heard.topics
         THEN IF guest.contact = "" THEN Say("no_contact")
              ELSE _package("contact", 0, "none", None, <<guest.text, guest.contact>>)
    ELSE IF "order" \in heard.topics /\ guest.ordered THEN Say("last_order")
    ELSE IF guest.owned = {} THEN Say("no_history") ELSE Say("history")

\* match_products: by overlap of tags, stock breaking ties below one tag; when
\* nothing overlaps, the deepest stock.  Never what the guest owns.
Unowned == {i \in Items : Item(i).sku \notin guest.owned}
Overlap(i) == Cardinality(Item(i).tags \cap guest.tags)
match_products ==
    LET fits == {i \in Unowned : Overlap(i) > 0}
        ahead(i, j) == \/ Overlap(i) > Overlap(j)
                       \/ Overlap(i) = Overlap(j) /\ Item(i).stock >= Item(j).stock
    IN IF fits # {} THEN {i \in fits : \A j \in fits : ahead(i, j)}
       ELSE LET some == {i \in Unowned : Item(i).stock > 0}
            IN {i \in some : \A j \in some : Item(i).stock >= Item(j).stock}

\* Any of the best when several tie: the first in the inventory, in the code.
_answer_recommend ==
    IF guest = None
    THEN _package("deepest", IF inventory = <<>> THEN 0
                             ELSE CHOOSE i \in Items : \A j \in Items : Item(i).stock >= Item(j).stock,
                  "none", None, <<"words">>)
    ELSE IF match_products = {} THEN Say("no_match")
    ELSE _package("recommend", Min(match_products), "none", None, <<"words", "words">>)

\* No model, a silent one and one that raises all end in an answer.  It is only
\* asked about an item: the branch without one is never reached.
_answer_open(i, how) ==
    IF model.does = "answers" THEN _package("model", i, how, None, <<model.text, Item(i).text>>)
    ELSE IF model.does = "raises" THEN _package("unavailable", i, how, None, <<"words", Item(i).text>>)
    ELSE _package("facts", i, how, None, <<Item(i).text, "words", "words">>)

answer_query(z) ==
    LET intent == detect_intent(z)
        m == resolve_product(z)
    IN IF intent = "history" THEN _answer_history
       ELSE IF intent = "recommend" THEN _answer_recommend
       ELSE IF m.item = 0 THEN IF m.how = "none" THEN Say("none")
                               ELSE [Say(m.how) EXCEPT !.how = m.how, !.size = z]
       ELSE IF intent = "location" THEN _answer_location(m.item, m.how)
       ELSE IF intent = "price" THEN _answer_price(m.item, m.how)
       ELSE IF intent = "stock" THEN _answer_stock(m.item, m.how, z)
       ELSE _answer_open(m.item, m.how)

----------------------------------------------------------------------------
(* A question about things, or about the guest's record                    *)

AboutThings ==
    [words : SUBSET Word, deictic : BOOLEAN, 
     sizes : {S \in SUBSET {z \in Size : SchemeOf[z] # None} : Cardinality(S) <= 2},
     phrases : {{}} \cup {{x} : x \in {"stock", "location", "price", "recommend"}},
     record : {FALSE}, topics : {{}}]
AboutTheGuest ==
    [words : {{}}, deictic : {FALSE}, sizes : {{}}, phrases : {{}, {"history"}}, record : BOOLEAN,
     topics : {T \in SUBSET Topic : Cardinality(T) <= 2}]

VoiceInit ==
    /\ stage = "asked" /\ out = None
    /\ heard \in AboutThings \cup AboutTheGuest \cup {None}
    /\ inventory \in Inventory /\ guest \in Guest /\ focus \in 0..Len(inventory)
    /\ order \in {<<"waist", "numeric", "letter">>, <<"letter", "numeric", "waist">>}
    /\ model \in Model

\* None is the transcript nothing was heard in.
Answer ==
    /\ stage = "asked" /\ stage' = "answered"
    /\ IF heard = None THEN out' = Say("empty")
       ELSE \E z \in extract_size : out' = answer_query(z)
    /\ UNCHANGED <<heard, inventory, guest, focus, order, model>>

VoiceSpec == VoiceInit /\ [][Answer]_voicevars

----------------------------------------------------------------------------
\* The variants that a size names: its own, and those of the same waist where
\* one is waist by inseam and the other waist alone.
Named(item, z) ==
    {k \in Rail(item) : \/ k = z
                        \/ /\ WaistOf[k] # None /\ WaistOf[k] = WaistOf[z]
                           /\ SchemeOf[k] # SchemeOf[z]}

TrueOfRail(item, said) ==
    LET named == Named(item, said.size)
        left == {k \in named : item.sizes[k] > 0}
    IN /\ said.verdict = "yes" =>
            left # {} /\ said.units \in 1..Cardinality(Hanging(item, named))
       /\ said.verdict = "no" =>
            IF said.size \in Rail(item) THEN said.size \notin left
            ELSE /\ left = {} \/ \E k \in named : item.sizes[k] < 0
                 /\ \E k \in Rail(item) : Comparable(SchemeOf[k], SchemeOf[said.size])
       /\ said.verdict = "unknown" => named = {}
       /\ \A k \in nearest_sizes(item, said.size) : item.sizes[k] > 0 /\ k # said.size

\* Each variant that the size names is of a scheme no commoner on the rail than
\* one it cannot be compared with.
Outnumbered(item, z) ==
    \A k \in Named(item, z) :
       \E t \in {"waist", "numeric", "letter"} :
          ~ Comparable(t, SchemeOf[k]) /\ Many(item, t) >= Many(item, SchemeOf[k])

(***************************************************************************)
(* What is said of a size is true of the rail (size_availability).  "yes"  *)
(* counts no more pieces than the size names.  "no" is said of a size on   *)
(* the rail when it is gone itself, though a size of the same waist may    *)
(* hang beside it, and of a size that is not when comparable ones are and  *)
(* nothing it names is left, or some of it is oversold.  "unknown" is said *)
(* where it names nothing, and what is offered instead is there.  An item  *)
(* "isn't sized" so only where it names nothing, or the rail is mixed and  *)
(* what it names is outnumbered, or in a tie: it may hang all the same.    *)
(***************************************************************************)
SizeAnswerIsTrue ==
    stage = "answered" =>
      /\ out.kind = "stock" /\ out.size # None => TrueOfRail(Item(out.item), out)
      /\ out.kind = "not_sized" => Outnumbered(Item(out.item), out.size)

=============================================================================
