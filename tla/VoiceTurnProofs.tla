-------------------------- MODULE VoiceTurnProofs --------------------------
(***************************************************************************)
(* A question is put to the AI service once at most, proved for every      *)
(* number of questions, connections and chunks, and every fault.           *)
(***************************************************************************)
EXTENDS VoiceTurn, SequenceTheorems, TLAPS

Frame == [frame: {"voice:start", "voice:chunk", "voice:end", "voice:cancel"},
          turn: Turn \cup {None}]
IsStart(f) == f.frame = "voice:start"

FramesTyped == toServer \in Seq(Frame)

\* A question on the wire was asked, once, and is neither in session nor answered.
OnTheWireIsNew ==
  \A i \in 1 .. Len(toServer) : IsStart(toServer[i]) =>
    /\ toServer[i].turn \in 1 .. turns /\ toServer[i].turn # session.turn
    /\ resolved[toServer[i].turn] = 0
    /\ \A j \in 1 .. Len(toServer) :
         IsStart(toServer[j]) /\ toServer[j].turn = toServer[i].turn => j = i

\* The question in session has not been put to the AI service.
InSessionIsNew ==
  session.turn # None => session.turn \in 1 .. turns /\ resolved[session.turn] = 0

\* Nothing is put to it that was not asked.
ResolvedWasAsked == \A t \in Turn : resolved[t] # 0 => t <= turns

VInv == /\ TypeOK /\ FramesTyped /\ OnTheWireIsNew /\ InSessionIsNew
        /\ ResolvedWasAsked /\ OneAnswerPerTurn

Questions == <<turns, toServer, session, resolved>>

-----------------------------------------------------------------------------
(* Frames. *)

\* The frames the phone sends; one of them starts a session.
LEMMA Sent ==
  /\ ChunkFrame \in Frame /\ EndFrame \in Frame /\ CancelFrame \in Frame
  /\ ~IsStart(ChunkFrame) /\ ~IsStart(EndFrame) /\ ~IsStart(CancelFrame)
  /\ \A t \in Turn : /\ StartFrame(t) \in Frame /\ IsStart(StartFrame(t))
                     /\ StartFrame(t).turn = t
  /\ \A heardSpeech : Closing(heardSpeech) \in {EndFrame, CancelFrame}
BY DEF ChunkFrame, EndFrame, CancelFrame, StartFrame, Frame, IsStart, Closing

\* One more frame on the wire, that starts nothing.
LEMMA Longer ==
  ASSUME NEW q \in Seq(Frame), NEW f \in Frame, ~IsStart(f)
  PROVE  LET more == q \o <<f>> IN
         /\ more \in Seq(Frame) /\ Len(more) \in Nat
         /\ \A i \in 1 .. Len(more) : IsStart(more[i]) => i \in 1 .. Len(q) /\ more[i] = q[i]
<1> DEFINE more == Append(q, f)
<1>1. /\ more \in Seq(Frame) /\ Len(more) = Len(q) + 1 /\ Len(q) \in Nat
      /\ \A i \in 1 .. Len(q) : more[i] = q[i]
      /\ more[Len(q) + 1] = f
  BY AppendProperties, LenProperties
<1>2. q \o <<f>> = more
  BY AppendIsConcat
<1> HIDE DEF more
<1>3. \A i \in 1 .. Len(more) : i \in 1 .. Len(q) \/ i = Len(q) + 1
  BY <1>1
<1> QED
  BY <1>1, <1>2, <1>3

\* Of a wire whose questions are those it had, each is as new as it was.
LEMMA StillNew ==
  ASSUME VInv, NEW shift \in Nat,
         \A i \in 1 .. Len(toServer') : IsStart(toServer'[i]) =>
           i + shift \in 1 .. Len(toServer) /\ toServer'[i] = toServer[i + shift]
  PROVE  \A i \in 1 .. Len(toServer') : IsStart(toServer'[i]) =>
           /\ toServer'[i].turn \in 1 .. turns /\ toServer'[i].turn # session.turn
           /\ resolved[toServer'[i].turn] = 0
           /\ \A j \in 1 .. Len(toServer') :
                IsStart(toServer'[j]) /\ toServer'[j].turn = toServer'[i].turn => j = i
<1> SUFFICES ASSUME NEW i \in 1 .. Len(toServer'), IsStart(toServer'[i])
             PROVE  /\ toServer'[i].turn \in 1 .. turns /\ toServer'[i].turn # session.turn
                    /\ resolved[toServer'[i].turn] = 0
                    /\ \A j \in 1 .. Len(toServer') :
                         IsStart(toServer'[j]) /\ toServer'[j].turn = toServer'[i].turn => j = i
  OBVIOUS
<1>1. i + shift \in 1 .. Len(toServer) /\ toServer'[i] = toServer[i + shift]
  OBVIOUS
<1>2. ASSUME NEW j \in 1 .. Len(toServer'), IsStart(toServer'[j]),
             toServer'[j].turn = toServer'[i].turn
      PROVE  j = i
  <2>1. j + shift \in 1 .. Len(toServer) /\ toServer'[j] = toServer[j + shift]
    BY <1>2
  <2>2. j + shift = i + shift
    BY <1>1, <1>2, <2>1 DEF VInv, OnTheWireIsNew
  <2>3. j \in Int /\ i \in Int
    OBVIOUS
  <2> QED
    BY <2>2, <2>3
<1> QED
  BY <1>1, <1>2 DEF VInv, OnTheWireIsNew

\* Such a wire keeps the invariant, where nothing else moves.
LEMMA SameQuestions ==
  ASSUME VInv, turns' = turns, session' = session, resolved' = resolved,
         NEW shift \in Nat, toServer' \in Seq(Frame),
         \A i \in 1 .. Len(toServer') : IsStart(toServer'[i]) =>
           i + shift \in 1 .. Len(toServer) /\ toServer'[i] = toServer[i + shift]
  PROVE  FramesTyped' /\ OnTheWireIsNew' /\ InSessionIsNew' /\ ResolvedWasAsked' /\ OneAnswerPerTurn'
<1>1. FramesTyped' /\ InSessionIsNew' /\ ResolvedWasAsked' /\ OneAnswerPerTurn'
  BY DEF VInv, FramesTyped, InSessionIsNew, ResolvedWasAsked, OneAnswerPerTurn
<1>2. OnTheWireIsNew'
  BY StillNew DEF OnTheWireIsNew
<1> QED
  BY <1>1, <1>2

\* The phone and the server leave the questions as they are.
LEMMA QuestionsStay ==
  ASSUME VInv, UNCHANGED Questions
  PROVE  FramesTyped' /\ OnTheWireIsNew' /\ InSessionIsNew' /\ ResolvedWasAsked' /\ OneAnswerPerTurn'
BY DEF VInv, Questions, FramesTyped, OnTheWireIsNew, InSessionIsNew, ResolvedWasAsked,
       OneAnswerPerTurn

\* The phone sends frames that start nothing.
LEMMA OneMore ==
  ASSUME VInv, turns' = turns, session' = session, resolved' = resolved,
         NEW f \in Frame, ~IsStart(f), toServer' = toServer \o <<f>>
  PROVE  FramesTyped' /\ OnTheWireIsNew' /\ InSessionIsNew' /\ ResolvedWasAsked' /\ OneAnswerPerTurn'
<1>1. toServer \in Seq(Frame)
  BY DEF VInv, FramesTyped
<1>2. /\ toServer' \in Seq(Frame)
      /\ \A i \in 1 .. Len(toServer') :
           IsStart(toServer'[i]) => i \in 1 .. Len(toServer) /\ toServer'[i] = toServer[i]
  BY <1>1, Longer
<1>3. \A i \in 1 .. Len(toServer') : i + 0 = i
  BY <1>2
<1>4. \A i \in 1 .. Len(toServer') : IsStart(toServer'[i]) =>
        i + 0 \in 1 .. Len(toServer) /\ toServer'[i] = toServer[i + 0]
  BY <1>2, <1>3
<1> QED
  BY <1>2, <1>4, 0 \in Nat, SameQuestions

-----------------------------------------------------------------------------
(* The phone. *)

\* What a step of the phone that asks nothing and sends nothing leaves alone.
PhoneOnly ==
  \/ MicOpens \/ MicDismissed \/ Painted \/ Drawn \/ Excused \/ Cap \/ StrayCap \/ Dwelt
  \/ Stop \/ Hear \/ \E speech \in BOOLEAN : Audio(speech)

\* The queue of the host.
LEMMA HostSteps ==
  ASSUME TypeOK
  PROVE  /\ \A call \in {OpenMic, StopMic, DismissMic} :
              Append(host, call) \in Seq({OpenMic, StopMic, DismissMic})
         /\ host # <<>> => Tail(host) \in Seq({OpenMic, StopMic, DismissMic})
BY AppendProperties, HeadTailProperties DEF TypeOK

\* Types, where nothing is sent.
LEMMA PhoneOnlyTyped == ASSUME TypeOK, PhoneOnly PROVE TypeOK'
<1> USE DEF controller, orphans, wire, server, Stopping
<1>1. CASE MicOpens
  <2>1. {painting, stray, drawing, excuses}' \subseteq Nat
    BY <1>1 DEF MicOpens, TypeOK
  <2>2. host' \in Seq({OpenMic, StopMic, DismissMic})
    BY <1>1, HostSteps DEF MicOpens, TypeOK
  <2> QED
    BY <1>1, <2>1, <2>2 DEF MicOpens, TypeOK
<1>2. CASE MicDismissed
  BY <1>2, HostSteps DEF MicDismissed, TypeOK
<1>3. CASE Painted
  BY <1>3, HostSteps DEF Painted, TypeOK
<1>4. CASE Drawn
  BY <1>4, HostSteps DEF Drawn, TypeOK
<1>5. CASE Excused
  BY <1>5, HostSteps DEF Excused, TypeOK
<1>6. CASE Cap
  BY <1>6, HostSteps DEF Cap, TypeOK
<1>7. CASE StrayCap
  <2>1. {painting, stray, drawing, excuses}' \subseteq Nat
    BY <1>7 DEF StrayCap, TypeOK
  <2>2. host' \in Seq({OpenMic, StopMic, DismissMic})
    BY <1>7, HostSteps DEF StrayCap, TypeOK
  <2> QED
    BY <1>7, <2>1, <2>2 DEF StrayCap, TypeOK
<1>8. CASE Dwelt
  BY <1>8, HostSteps DEF Dwelt, TypeOK
<1>9. CASE Stop
  BY <1>9, HostSteps DEF Stop, TypeOK
<1>10. CASE Hear
  <2>1. {painting, stray, drawing, excuses}' \subseteq Nat
    BY <1>10 DEF Hear, TypeOK
  <2>2. host' \in Seq({OpenMic, StopMic, DismissMic})
    BY <1>10, HostSteps DEF Hear, TypeOK
  <2> QED
    BY <1>10, <2>1, <2>2 DEF Hear, TypeOK
<1>11. ASSUME NEW speech \in BOOLEAN, Audio(speech) PROVE TypeOK'
  BY <1>11 DEF Audio, TypeOK
<1> QED
  BY <1>1, <1>2, <1>3, <1>4, <1>5, <1>6, <1>7, <1>8, <1>9, <1>10, <1>11 DEF PhoneOnly

\* A step of the phone that sends nothing.
LEMMA PhoneOnlyStep == ASSUME VInv, PhoneOnly PROVE VInv'
<1>1. UNCHANGED Questions
  BY DEF PhoneOnly, MicOpens, MicDismissed, Painted, Drawn, Excused, Cap, StrayCap, Dwelt, Stop,
         Stopping, Hear, Audio, Questions, controller, orphans, wire, server
<1>2. TypeOK'
  BY PhoneOnlyTyped DEF VInv
<1> QED
  BY <1>1, <1>2, QuestionsStay DEF VInv

\* The press that asks: a question that was never on the wire.
LEMMA StartStep == ASSUME VInv, Start PROVE VInv'
<1> DEFINE t == turns + 1
           q == Append(toServer, StartFrame(t))
<1>1. /\ toServer \in Seq(Frame) /\ turns \in Nat /\ t \in Turn
      /\ session.turn # t /\ resolved[t] = 0 /\ resolved \in [Turn -> Nat]
      /\ \A i \in 1 .. Len(toServer) : IsStart(toServer[i]) => toServer[i].turn \in 1 .. turns
  <2>1. turns \in Nat /\ MaxTurns \in Nat /\ turns < MaxTurns
    BY BoundsAssumption DEF VInv, TypeOK, Start
  <2>2. t \in Turn /\ t > turns /\ t # None
    BY <2>1, BoundsAssumption DEF Turn
  <2>3. resolved \in [Turn -> Nat]
    BY DEF VInv, TypeOK
  <2>4. resolved[t] = 0
    BY <2>1, <2>2, <2>3 DEF VInv, ResolvedWasAsked
  <2>5. session.turn # t
    BY <2>1, <2>2 DEF VInv, InSessionIsNew
  <2> QED
    BY <2>1, <2>2, <2>3, <2>4, <2>5 DEF VInv, FramesTyped, OnTheWireIsNew
<1>2. /\ StartFrame(t) \in Frame /\ StartFrame(t).turn = t
  BY <1>1, Sent
<1>3. /\ q \in Seq(Frame) /\ Len(q) = Len(toServer) + 1 /\ Len(toServer) \in Nat
      /\ \A i \in 1 .. Len(toServer) : q[i] = toServer[i]
      /\ q[Len(toServer) + 1] = StartFrame(t)
  BY <1>1, <1>2, AppendProperties, LenProperties
<1>4. /\ toServer' = q /\ turns' = t /\ UNCHANGED <<session, resolved>>
  <2>1. toServer' = toServer \o <<StartFrame(t)>>
    BY DEF Start, Emit
  <2> QED
    BY <1>1, <1>2, <2>1, AppendIsConcat DEF Start, server
<1> HIDE DEF q
<1>5. OnTheWireIsNew'
  <2> SUFFICES ASSUME NEW i \in 1 .. Len(q), IsStart(q[i])
               PROVE  /\ q[i].turn \in 1 .. t /\ q[i].turn # session.turn
                      /\ resolved[q[i].turn] = 0
                      /\ \A j \in 1 .. Len(q) : IsStart(q[j]) /\ q[j].turn = q[i].turn => j = i
    BY <1>4 DEF OnTheWireIsNew
  <2>1. \A j \in 1 .. Len(q) : j \in 1 .. Len(toServer) \/ j = Len(toServer) + 1
    BY <1>3
  <2>2. \A j \in 1 .. Len(toServer) : IsStart(q[j]) => q[j].turn \in 1 .. turns /\ q[j].turn # t
    BY <1>1, <1>3
  <2>3. CASE i \in 1 .. Len(toServer)
    <3>1. q[i] = toServer[i] /\ IsStart(toServer[i])
      BY <1>3, <2>3
    <3>2. /\ toServer[i].turn \in 1 .. turns /\ toServer[i].turn # session.turn
          /\ resolved[toServer[i].turn] = 0
          /\ \A j \in 1 .. Len(toServer) :
               IsStart(toServer[j]) /\ toServer[j].turn = toServer[i].turn => j = i
      BY <2>3, <3>1 DEF VInv, OnTheWireIsNew
    <3>3. \A j \in 1 .. Len(q) : IsStart(q[j]) /\ q[j].turn = q[i].turn => j = i
      BY <1>1, <1>2, <1>3, <2>1, <3>1, <3>2
    <3>4. q[i].turn \in 1 .. t
      BY <1>1, <3>1, <3>2
    <3> QED
      BY <3>1, <3>2, <3>3, <3>4
  <2>4. CASE i = Len(toServer) + 1
    BY <1>1, <1>2, <1>3, <2>1, <2>2, <2>4
  <2> QED
    BY <2>1, <2>3, <2>4
<1>6. InSessionIsNew' /\ ResolvedWasAsked' /\ OneAnswerPerTurn' /\ FramesTyped'
  <2>1. /\ \A k \in 1 .. turns : k \in 1 .. t
        /\ \A k \in Turn : k <= turns => k <= t
    BY <1>1 DEF Turn
  <2> QED
    BY <1>3, <1>4, <2>1 DEF VInv, InSessionIsNew, ResolvedWasAsked, OneAnswerPerTurn, FramesTyped
<1>7. TypeOK'
  <2>1. t \in 0 .. MaxTurns
    BY <1>1 DEF Turn
  <2>2. host' \in Seq({OpenMic, StopMic, DismissMic})
    BY HostSteps DEF Start, VInv
  <2> QED
    BY <2>1, <2>2 DEF VInv, TypeOK, Start, server, orphans
<1> QED
  BY <1>5, <1>6, <1>7 DEF VInv

\* The host refuses, and the question is taken back; or it is dismissed.
LEMMA CancelSteps == ASSUME VInv, MicRefused \/ Dismiss PROVE VInv'
<1>1. /\ turns' = turns /\ session' = session /\ resolved' = resolved
      /\ toServer' = toServer \o <<CancelFrame>> \/ toServer' = toServer
  BY DEF MicRefused, Dismiss, Emit, server
<1>2. FramesTyped' /\ OnTheWireIsNew' /\ InSessionIsNew' /\ ResolvedWasAsked' /\ OneAnswerPerTurn'
  <2>1. CASE toServer' = toServer
    BY <1>1, <2>1, QuestionsStay DEF Questions
  <2>2. CASE toServer' = toServer \o <<CancelFrame>>
    BY <1>1, <2>2, Sent, OneMore
  <2> QED
    BY <1>1, <2>1, <2>2
<1>3. TypeOK'
  <2>1. TypeOK
    BY DEF VInv
  <2>2. CASE MicRefused
    BY <2>1, <2>2, HostSteps DEF MicRefused, TypeOK, server, orphans
  <2>3. CASE Dismiss
    BY <2>1, <2>3, HostSteps DEF Dismiss, TypeOK, server, orphans
  <2> QED
    BY <2>2, <2>3
<1> QED
  BY <1>2, <1>3 DEF VInv

\* What is buffered goes, and the question with it or without.
LEMMA FlushSteps == ASSUME VInv, Flush \/ MicCloses PROVE VInv'
<1>1. /\ turns' = turns /\ session' = session /\ resolved' = resolved
      /\ toServer \in Seq(Frame)
  BY DEF Flush, MicCloses, server, VInv, FramesTyped
<1>2. FramesTyped' /\ OnTheWireIsNew' /\ InSessionIsNew' /\ ResolvedWasAsked' /\ OneAnswerPerTurn'
  <2>1. CASE Flush
    <3>1. toServer' = toServer \o <<ChunkFrame>>
      BY <2>1 DEF Flush, Emit, Buffered
    <3> QED
      BY <1>1, <3>1, Sent, OneMore
  <2>2. CASE MicCloses
    <3> DEFINE last == Closing(heard)
    <3>1. last \in Frame /\ ~IsStart(last)
      BY Sent
    <3>2. toServer' = toServer \o Append(Buffered, last)
      BY <2>2 DEF MicCloses, Emit
    <3> HIDE DEF last
    <3>3. CASE ~pending
      <4>1. Append(Buffered, last) = <<last>>
        BY <3>3 DEF Buffered
      <4> QED
        BY <1>1, <3>1, <3>2, <4>1, OneMore
    <3>4. CASE pending
      <4> DEFINE q == toServer \o <<ChunkFrame>>
      <4>1. Buffered = <<ChunkFrame>> /\ <<ChunkFrame>> \in Seq(Frame)
        BY <3>4, Sent DEF Buffered
      <4>2. Append(Buffered, last) = <<ChunkFrame>> \o <<last>>
        BY <3>1, <4>1, AppendIsConcat
      <4>3. <<last>> \in Seq(Frame)
        BY <3>1
      <4>4. toServer' = q \o <<last>>
        BY <1>1, <3>2, <4>1, <4>2, <4>3, ConcatAssociative
      <4>5. /\ q \in Seq(Frame)
            /\ \A i \in 1 .. Len(q) : IsStart(q[i]) => i \in 1 .. Len(toServer) /\ q[i] = toServer[i]
        BY <1>1, Sent, Longer
      <4> HIDE DEF q
      <4>6. /\ toServer' \in Seq(Frame)
            /\ \A i \in 1 .. Len(toServer') :
                 IsStart(toServer'[i]) => i \in 1 .. Len(q) /\ toServer'[i] = q[i]
        BY <3>1, <4>4, <4>5, Longer
      <4>7. \A i \in 1 .. Len(toServer') : i + 0 = i
        BY <4>6
      <4>8. \A i \in 1 .. Len(toServer') : IsStart(toServer'[i]) =>
              i + 0 \in 1 .. Len(toServer) /\ toServer'[i] = toServer[i + 0]
        BY <4>5, <4>6, <4>7
      <4> QED
        BY <1>1, <4>6, <4>8, 0 \in Nat, SameQuestions
    <3> QED
      BY <3>3, <3>4
  <2> QED
    BY <2>1, <2>2
<1>3. TypeOK'
  <2>1. TypeOK
    BY DEF VInv
  <2>2. CASE Flush
    BY <2>1, <2>2, HostSteps DEF Flush, TypeOK, server, orphans
  <2>3. CASE MicCloses
    <3>1. {painting, stray, drawing, excuses}' \subseteq Nat
      BY <2>1, <2>3 DEF MicCloses, TypeOK, orphans
    <3>2. host' \in Seq({OpenMic, StopMic, DismissMic})
      BY <2>1, <2>3, HostSteps DEF MicCloses, TypeOK
    <3> QED
      BY <2>1, <2>3, <3>1, <3>2 DEF MicCloses, TypeOK, server, orphans
  <2> QED
    BY <2>2, <2>3
<1> QED
  BY <1>2, <1>3 DEF VInv

-----------------------------------------------------------------------------
(* The server. *)

\* A frame arrives: the rest of the wire moves up.
LEMMA Shorter ==
  ASSUME VInv, toServer # <<>>, toServer' = Tail(toServer)
  PROVE  /\ Head(toServer) = toServer[1] /\ Head(toServer) \in Frame
         /\ 1 \in 1 .. Len(toServer) /\ toServer' \in Seq(Frame)
         /\ \A i \in 1 .. Len(toServer') :
              /\ i + 1 \in 1 .. Len(toServer) /\ i + 1 # 1 /\ toServer'[i] = toServer[i + 1]
              /\ i \in Int
<1>1. toServer \in Seq(Frame)
  BY DEF VInv, FramesTyped
<1>2. /\ Head(toServer) \in Frame /\ toServer' \in Seq(Frame)
      /\ Len(toServer') = Len(toServer) - 1
      /\ \A i \in 1 .. Len(toServer') : toServer'[i] = toServer[i + 1]
  BY <1>1, HeadTailProperties
<1>3. Len(toServer) \in Nat \ {0}
  BY <1>1, EmptySeq
<1> QED
  BY <1>1, <1>2, <1>3

\* What is left of the wire when a frame has arrived, or none has.
LEMMA Rest ==
  ASSUME VInv, toServer' = toServer \/ (toServer # <<>> /\ toServer' = Tail(toServer))
  PROVE  /\ toServer' \in Seq(Frame)
         /\ \A i \in 1 .. Len(toServer') : IsStart(toServer'[i]) =>
              /\ toServer'[i].turn \in 1 .. turns /\ toServer'[i].turn # session.turn
              /\ resolved[toServer'[i].turn] = 0
              /\ \A j \in 1 .. Len(toServer') :
                   IsStart(toServer'[j]) /\ toServer'[j].turn = toServer'[i].turn => j = i
<1>1. CASE toServer' = toServer
  BY <1>1 DEF VInv, FramesTyped, OnTheWireIsNew
<1>2. CASE toServer # <<>> /\ toServer' = Tail(toServer)
  BY <1>2, Shorter, 1 \in Nat, StillNew
<1> QED
  BY <1>1, <1>2

\* A frame arrives, or a timer fires, that ends the session without a question
\* or lets it go on.
LEMMA NothingPut ==
  ASSUME VInv, toServer' = toServer \/ (toServer # <<>> /\ toServer' = Tail(toServer)),
         turns' = turns, resolved' = resolved, session'.turn \in {session.turn, None}
  PROVE  FramesTyped' /\ OnTheWireIsNew' /\ InSessionIsNew' /\ ResolvedWasAsked' /\ OneAnswerPerTurn'
<1>1. FramesTyped'
  BY Rest DEF FramesTyped
<1>2. OnTheWireIsNew'
  <2>1. \A k \in 1 .. turns : k # None
    BY BoundsAssumption DEF VInv, TypeOK
  <2> QED
    BY <2>1, Rest DEF OnTheWireIsNew
<1>3. InSessionIsNew' /\ ResolvedWasAsked' /\ OneAnswerPerTurn'
  BY DEF VInv, InSessionIsNew, ResolvedWasAsked, OneAnswerPerTurn
<1> QED
  BY <1>1, <1>2, <1>3

\* The session ends and its question is put.
LEMMA PutOnce ==
  ASSUME VInv, toServer' = toServer \/ (toServer # <<>> /\ toServer' = Tail(toServer)),
         turns' = turns, session.turn # None, session' = NoSession,
         resolved' = [resolved EXCEPT ![session.turn] = @ + 1]
  PROVE  FramesTyped' /\ OnTheWireIsNew' /\ InSessionIsNew' /\ ResolvedWasAsked' /\ OneAnswerPerTurn'
<1> DEFINE t == session.turn
<1>1. /\ t \in Turn /\ t \in 1 .. turns /\ resolved[t] = 0
      /\ resolved \in [Turn -> Nat] /\ turns \in Nat /\ turns <= MaxTurns
  BY DEF VInv, TypeOK, InSessionIsNew
<1>2. /\ \A k \in Turn : resolved'[k] = IF k = t THEN 1 ELSE resolved[k]
      /\ session'.turn = None
  BY <1>1 DEF NoSession
<1>3. \A k \in 1 .. turns : k \in Turn /\ k # None
  BY <1>1, BoundsAssumption DEF Turn
<1>4. FramesTyped'
  BY Rest DEF FramesTyped
<1>5. OnTheWireIsNew'
  BY <1>2, <1>3, Rest DEF OnTheWireIsNew
<1>6. InSessionIsNew' /\ ResolvedWasAsked' /\ OneAnswerPerTurn'
  BY <1>1, <1>2 DEF VInv, InSessionIsNew, ResolvedWasAsked, OneAnswerPerTurn
<1> QED
  BY <1>4, <1>5, <1>6

\* A question that arrives is in session, and no more on the wire.
LEMMA StartArrivesStep == ASSUME VInv, StartArrives PROVE VInv'
<1> DEFINE t == Head(toServer).turn
<1>1. /\ toServer # <<>> /\ toServer' = Tail(toServer) /\ IsStart(toServer[1])
      /\ t = toServer[1].turn /\ 1 \in 1 .. Len(toServer)
      /\ turns' = turns /\ UNCHANGED <<asking, resolved, controller, mic, host, link, conn>>
      /\ session' = [NoSession EXCEPT !.turn = t]
  <2>1. toServer # <<>> /\ toServer' = Tail(toServer)
    BY DEF StartArrives, Heeds
  <2>2. Head(toServer) = toServer[1] /\ 1 \in 1 .. Len(toServer)
    BY <2>1, Shorter
  <2> QED
    BY <2>1, <2>2 DEF StartArrives, Heeds, IsStart, controller
<1>2. /\ t \in 1 .. turns /\ t # session.turn /\ resolved[t] = 0
      /\ \A j \in 1 .. Len(toServer) : IsStart(toServer[j]) /\ toServer[j].turn = t => j = 1
  BY <1>1 DEF VInv, OnTheWireIsNew
<1>3. t \in Turn
  BY <1>2, BoundsAssumption DEF VInv, TypeOK, Turn
<1>4. session'.turn = t /\ session' \in [turn: Turn \cup {None}, bytes: 0 .. MaxBytes - 1]
  BY <1>1, <1>3, BoundsAssumption DEF NoSession
<1>5. OnTheWireIsNew'
  <2>1. \A i \in 1 .. Len(toServer') : IsStart(toServer'[i]) => toServer'[i].turn # t
    BY <1>1, <1>2, Shorter
  <2> QED
    BY <1>1, <1>4, <2>1, Rest DEF OnTheWireIsNew
<1>6. FramesTyped' /\ InSessionIsNew' /\ ResolvedWasAsked' /\ OneAnswerPerTurn'
  BY <1>1, <1>2, <1>4, Rest
     DEF VInv, FramesTyped, InSessionIsNew, ResolvedWasAsked, OneAnswerPerTurn
<1>7. TypeOK'
  BY <1>1, <1>4 DEF VInv, TypeOK, controller, orphans
<1> QED
  BY <1>5, <1>6, <1>7 DEF VInv

\* What is left of the session has its type.
LEMMA SessionTyped ==
  /\ NoSession \in [turn: Turn \cup {None}, bytes: 0 .. MaxBytes - 1] /\ NoSession.turn = None
  /\ TypeOK /\ session.turn # None =>
       /\ session.turn \in Turn
       /\ resolved \in [Turn -> Nat] => [resolved EXCEPT ![session.turn] = @ + 1] \in [Turn -> Nat]
       /\ [turn |-> session.turn, conn |-> conn] \in [turn: Turn, conn: 1 .. MaxConn]
BY BoundsAssumption DEF NoSession, TypeOK

\* Audio, an end, a cancellation and the timer.
LEMMA SessionSteps ==
  ASSUME VInv, ChunkArrives \/ EndArrives \/ CancelArrives \/ TimesOut
  PROVE  VInv'
<1>1. /\ turns' = turns /\ UNCHANGED <<controller, mic, host, link, conn>>
      /\ toServer' = toServer \/ (toServer # <<>> /\ toServer' = Tail(toServer))
  BY DEF ChunkArrives, EndArrives, CancelArrives, TimesOut, Heeds, controller, wire
<1>2. \/ UNCHANGED server
      \/ UNCHANGED <<asking, resolved>> /\ session' = NoSession
      \/ /\ UNCHANGED <<asking, resolved>> /\ session.turn # None
         /\ session' = [session EXCEPT !.bytes = @ + 1] /\ Fits(session')
      \/ /\ session.turn # None /\ session' = NoSession
         /\ asking' = asking \cup {[turn |-> session.turn, conn |-> conn]}
         /\ resolved' = [resolved EXCEPT ![session.turn] = @ + 1]
  <2>1. [session EXCEPT !.bytes = session.bytes + 1].turn = session.turn
    BY DEF VInv, TypeOK
  <2> QED
    BY <2>1 DEF ChunkArrives, EndArrives, CancelArrives, TimesOut, TimerSet, Finalize, Ended, Fits
<1>3. FramesTyped' /\ OnTheWireIsNew' /\ InSessionIsNew' /\ ResolvedWasAsked' /\ OneAnswerPerTurn'
  <2>1. CASE UNCHANGED server
    BY <1>1, <2>1, NothingPut DEF server
  <2>2. CASE UNCHANGED <<asking, resolved>> /\ session' = NoSession
    BY <1>1, <2>2, SessionTyped, NothingPut
  <2>3. CASE UNCHANGED <<asking, resolved>> /\ session' = [session EXCEPT !.bytes = @ + 1]
    <3>1. session'.turn = session.turn
      BY <2>3 DEF VInv, TypeOK
    <3> QED
      BY <1>1, <2>3, <3>1, NothingPut
  <2>4. CASE /\ session.turn # None /\ session' = NoSession
             /\ resolved' = [resolved EXCEPT ![session.turn] = @ + 1]
    BY <1>1, <2>4, PutOnce
  <2> QED
    BY <1>2, <2>1, <2>2, <2>3, <2>4
<1>4. /\ session' \in [turn: Turn \cup {None}, bytes: 0 .. MaxBytes - 1]
      /\ asking' \subseteq [turn: Turn, conn: 1 .. MaxConn]
      /\ resolved' \in [Turn -> Nat]
  <2>1. CASE UNCHANGED server
    BY <2>1 DEF VInv, TypeOK, server
  <2>2. CASE UNCHANGED <<asking, resolved>> /\ session' = NoSession
    BY <2>2, SessionTyped DEF VInv, TypeOK
  <2>3. CASE /\ UNCHANGED <<asking, resolved>>
             /\ session' = [session EXCEPT !.bytes = @ + 1] /\ Fits(session')
    <3>1. session.bytes \in Nat /\ session'.bytes = session.bytes + 1 /\ session'.bytes < MaxBytes
      BY <2>3 DEF VInv, TypeOK, Fits
    <3>2. session.bytes + 1 \in 0 .. MaxBytes - 1
      BY <3>1, BoundsAssumption
    <3> QED
      BY <2>3, <3>2 DEF VInv, TypeOK
  <2>4. CASE /\ session.turn # None /\ session' = NoSession
             /\ asking' = asking \cup {[turn |-> session.turn, conn |-> conn]}
             /\ resolved' = [resolved EXCEPT ![session.turn] = @ + 1]
    <3>1. TypeOK
      BY DEF VInv
    <3>2. resolved \in [Turn -> Nat] /\ asking \subseteq [turn: Turn, conn: 1 .. MaxConn]
      BY <3>1 DEF TypeOK
    <3> QED
      BY <2>4, <3>1, <3>2, SessionTyped
  <2> QED
    BY <1>2, <2>1, <2>2, <2>3, <2>4
<1>5. TypeOK'
  BY <1>1, <1>4 DEF VInv, TypeOK, controller, orphans
<1> QED
  BY <1>3, <1>5 DEF VInv

\* An answer comes, and the wifi goes and comes back.
LEMMA LinkSteps ==
  ASSUME VInv, Drop \/ Reconnect \/ \E a \in asking, fine \in BOOLEAN : Answered(a, fine)
  PROVE  VInv'
<1>1. CASE Drop
  <2>1. /\ toServer' = <<>> /\ session' = NoSession /\ UNCHANGED <<turns, asking, resolved>>
    BY <1>1 DEF Drop, controller
  <2>2. FramesTyped' /\ OnTheWireIsNew'
    BY <2>1 DEF FramesTyped, OnTheWireIsNew
  <2>3. InSessionIsNew' /\ ResolvedWasAsked' /\ OneAnswerPerTurn'
    BY <2>1, SessionTyped DEF VInv, InSessionIsNew, ResolvedWasAsked, OneAnswerPerTurn
  <2>4. TypeOK'
    BY <1>1, SessionTyped DEF Drop, VInv, TypeOK, controller, orphans
  <2> QED
    BY <2>2, <2>3, <2>4 DEF VInv
<1>2. CASE Reconnect
  <2>1. UNCHANGED Questions
    BY <1>2 DEF Reconnect, Questions, controller, server
  <2>2. TypeOK'
    BY <1>2, BoundsAssumption DEF Reconnect, VInv, TypeOK, controller, server, orphans
  <2> QED
    BY <2>1, <2>2, QuestionsStay DEF VInv
<1>3. ASSUME NEW a \in asking, NEW fine \in BOOLEAN, Answered(a, fine) PROVE VInv'
  <2>1. UNCHANGED Questions
    BY <1>3 DEF Answered, Questions, controller
  <2>2. TypeOK'
    BY <1>3 DEF Answered, VInv, TypeOK, controller, orphans
  <2> QED
    BY <2>1, <2>2, QuestionsStay DEF VInv
<1> QED
  BY <1>1, <1>2, <1>3

-----------------------------------------------------------------------------
(* The theorems. *)

\* Nothing is asked at first.
LEMMA VoiceInit == Init => VInv
<1> SUFFICES ASSUME Init PROVE VInv
  OBVIOUS
<1>1. TypeOK
  <2>1. host \in Seq({OpenMic, StopMic, DismissMic}) /\ {painting, stray, drawing, excuses} \subseteq Nat
    BY EmptySeq DEF Init
  <2>2. conn \in 1 .. MaxConn /\ turns \in 0 .. MaxTurns
    BY BoundsAssumption DEF Init
  <2> QED
    BY <2>1, <2>2, SessionTyped DEF Init, TypeOK
<1>2. FramesTyped /\ OnTheWireIsNew
  BY DEF Init, FramesTyped, OnTheWireIsNew
<1>3. InSessionIsNew /\ ResolvedWasAsked /\ OneAnswerPerTurn
  BY SessionTyped DEF Init, InSessionIsNew, ResolvedWasAsked, OneAnswerPerTurn
<1> QED
  BY <1>1, <1>2, <1>3 DEF VInv

\* Every step keeps the invariant.
LEMMA VoiceStep == VInv /\ [Next]_vars => VInv'
<1> SUFFICES ASSUME VInv, [Next]_vars PROVE VInv'
  OBVIOUS
<1>1. CASE UNCHANGED vars
  <2>1. UNCHANGED Questions
    BY <1>1 DEF vars, controller, wire, server, Questions
  <2>2. TypeOK'
    BY <1>1 DEF VInv, TypeOK, vars, controller, orphans, wire, server
  <2> QED
    BY <2>1, <2>2, QuestionsStay DEF VInv
<1> QED
  BY <1>1, PhoneOnlyStep, StartStep, CancelSteps, FlushSteps, StartArrivesStep, SessionSteps, LinkSteps
     DEF Next, Press, HostStep, GlassStep, TimerStep, FrameArrives, PhoneOnly

\* The controller of voice.ts, the sessions of index.js and the calls of
\* finalizeVoice keep their shape.
THEOREM VoiceTyped == Spec => []TypeOK
<1>1. VInv => TypeOK
  BY DEF VInv
<1> QED
  BY VoiceInit, VoiceStep, <1>1, PTL DEF Spec

\* However voice:end, the byte cap and the timeout race, a question is put to
\* the AI service once at most.
THEOREM OneAnswer == Spec => []OneAnswerPerTurn
<1>1. VInv => OneAnswerPerTurn
  BY DEF VInv
<1> QED
  BY VoiceInit, VoiceStep, <1>1, PTL DEF Spec
=============================================================================
