----------------------------- MODULE MCServices -----------------------------
(***************************************************************************)
(* What a working day asks of the AI service, for TLC: tags, baskets and   *)
(* cards read from the store, questions answered, the log of the floor and *)
(* the leads of the sales site.  No call of one touches the tables of      *)
(* another: a run takes one part, and the others stay as they begin.       *)
(***************************************************************************)
EXTENDS StoreLookup, FloorLog, Pipeline, VoiceAnswer, TLC

CONSTANTS
    tag1, tag2, r1, r2      \* codes and requests

VARIABLE part

Baskets == {<<"titled", tag1, "nothing", "spaces">>}
KindsOf == r1 :> {"scan"} @@ r2 :> {"scan", "part", "link", "ask", "visit"}

\* Rails, guests and models that reach every branch of the answers.
Sizes == {"32", "32x30", "32x32", "M", "OS"}
Schemes5 == [z \in Sizes |-> CASE z = "32" -> "numeric" [] z = "M" -> "letter" [] z = "OS" -> None [] OTHER -> "waist"]
Waists == [z \in Sizes |-> IF z \in {"M", "OS"} THEN None ELSE "32"]
Jean(sizes) == [sku |-> "j", name |-> {"jean"}, tags |-> {"blue"}, sizes |-> sizes, stock |-> 1,
                location |-> "plain", text |-> "plain"]
Tee(sizes) == [Jean(sizes) EXCEPT !.sku = "t", !.name = {"tee"}, !.tags = {"blue", "soft"}, !.stock = 0]
Floors == {<<>>, <<Jean(None), Tee("OS" :> 1)>>, <<Jean("32" :> 1), Tee("M" :> 0 @@ "OS" :> 0)>>,
           <<Jean("32x30" :> 2 @@ "32x32" :> -1), Tee("M" :> 1 @@ "32" :> 1)>>,
           <<Jean("32x30" :> 1 @@ "32x32" :> -1)>>, <<Jean("32x30" :> 0 @@ "32" :> 1)>>}
Guests ==
    {None,
     [bottoms |-> "32", tops |-> "M", tags |-> {"soft"}, owned |-> {}, address |-> "plain",
      contact |-> "plain", ordered |-> TRUE, text |-> "plain"],
     [bottoms |-> "32x30", tops |-> "OS", tags |-> {"blue"}, owned |-> {"j"}, address |-> "",
      contact |-> "", ordered |-> FALSE, text |-> "plain"]}
Models == [does : {"none", "answers", "raises"}, text : {"plain"}]

\* The question is the whole of a voice run; other runs have none.
Silent ==
    /\ stage = None /\ heard = None /\ inventory = None /\ guest = None
    /\ focus = None /\ order = None /\ model = None /\ out = None

ServicesInit ==
    /\ part \in {"store", "log", "voice", "leads"}
    /\ StoreInit /\ LogInit /\ PipeInit
    /\ part # "log" => \A g \in Serial : worn[g] = Nobody
    /\ IF part = "voice" THEN VoiceInit ELSE Silent

ServicesNext ==
    \/ /\ part = "store" /\ StoreNext
       /\ UNCHANGED <<part, logvars, voicevars, pipevars>>
    \/ /\ part = "log" /\ LogNext
       /\ UNCHANGED <<part, storevars, voicevars, pipevars>>
    \/ /\ part = "voice" /\ Answer
       /\ UNCHANGED <<part, storevars, logvars, pipevars>>
    \/ /\ part = "leads" /\ PipeNext
       /\ UNCHANGED <<part, storevars, logvars, voicevars>>

ServicesSpec == ServicesInit /\ [][ServicesNext]_<<part, storevars, logvars, voicevars, pipevars>>

Symmetry == Permutations(Call) \cup Permutations(Person)

----------------------------------------------------------------------------
(* The other properties of the run are those of the components extended    *)
(* here, where they are described.                                         *)

\* The tables and the requests of every part keep their shape.
ServicesTypeOK ==
    /\ StoreTypeOK /\ LogTypeOK /\ PipeTypeOK
    /\ IF part = "voice" THEN stage \in {"asked", "answered"} ELSE stage = None
============================================================================
