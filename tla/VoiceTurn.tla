----------------------------- MODULE VoiceTurn ------------------------------
(***************************************************************************)
(* A spoken question, from the press to the answer: the VoiceController of *)
(* packages/glasses-plugin/src/voice.ts on the phone, the host's mic under *)
(* it, and the voice sessions of packages/server/src/index.js.             *)
(*                                                                         *)
(* Opening and closing the mic and drawing on the glass are awaited, so a  *)
(* press, an audio frame, a timer or an answer can come in between.  Time  *)
(* is left out: a timer that is set may go off at any moment, except that  *)
(* the server's waits for the phone's, which is five seconds shorter.      *)
(***************************************************************************)
EXTENDS Integers, Sequences, FiniteSets

CONSTANTS
  None,
  MaxTurns,   \* bound: voice:start frames sent in a run
  MaxConn,    \* bound: connections of the phone in a run
  MaxBytes,   \* MAX_UTTERANCE_BYTES, in chunks
  MaxWire,    \* bound: frames on the wire when a question or chunk is added
  MaxStops,   \* bound: mic calls and excuses pending when another stop begins
  Faults      \* out of FaultKinds

FaultKinds ==
  {"drop",     \* the socket closes, and opens again
   "no_mic"}   \* the host refuses the mic

ASSUME BoundsAssumption ==
  /\ MaxTurns \in Nat /\ MaxConn \in Nat \ {0} /\ MaxBytes \in Nat \ {0}
  /\ MaxWire \in Nat /\ MaxStops \in Nat
  /\ None \notin 1 .. MaxTurns
ASSUME FaultsAssumption == Faults \subseteq FaultKinds

VARIABLES
  state,      \* VoiceController.state
  heard,      \* heardSpeech
  pending,    \* audio is buffered on the phone
  turns,      \* voice:start frames sent so far
  painting,   \* starts waiting for the glass before they set their timers
  capTimer,   \* this.capTimer is set; flushTimer and meterTimer go with it
  stray,      \* cap timers still to go off that no field refers to any more
  leaked,     \* an interval that flushes goes on with no field to clear it by
  dwellTimer, \* this.dwellTimer is set
  drawing,    \* answers being drawn, their dwell not yet scheduled
  excuses,    \* DIDNT HEAR ANYTHING or MIC UNAVAILABLE being drawn
  mic,        \* the host's mic is open
  host,       \* audioControl calls the host has yet to carry out, in order
  link, conn, \* whether the phone's socket is connected, and its number
  toServer, toPhone,   \* frames in order; toServer is kept by a phone offline
  session,    \* voiceSessions, of the connection that is up
  asking,     \* finalizeVoice calls waiting for /api/voice-query
  resolved    \* how often each turn has been put to the AI service

orphans == <<stray, leaked>>
controller == <<state, heard, pending, turns, painting, capTimer, orphans,
                dwellTimer, drawing, excuses>>
wire == <<link, conn, toServer, toPhone>>
server == <<session, asking, resolved>>
vars == <<controller, mic, host, wire, server>>

Turn == 1 .. MaxTurns

StartFrame(t) == [frame |-> "voice:start", turn |-> t]
ChunkFrame == [frame |-> "voice:chunk", turn |-> None]
EndFrame == [frame |-> "voice:end", turn |-> None]
CancelFrame == [frame |-> "voice:cancel", turn |-> None]
ResultFrame(t) == [frame |-> "voice:result", turn |-> t]

OpenMic == "open"        \* with the rest of start() behind it
StopMic == "stop"        \* with the rest of stop() behind it
DismissMic == "dismiss"  \* nobody waits for this one

NoSession == [turn |-> None, bytes |-> 0]

TypeOK ==
  /\ state \in {"idle", "listening", "thinking", "answering"} /\ heard \in BOOLEAN
  /\ pending \in BOOLEAN /\ turns \in 0 .. MaxTurns
  /\ {painting, stray, drawing, excuses} \subseteq Nat
  /\ capTimer \in BOOLEAN /\ dwellTimer \in BOOLEAN /\ leaked \in BOOLEAN
  /\ mic \in BOOLEAN
  /\ host \in Seq({OpenMic, StopMic, DismissMic})
  /\ link \in {"up", "down"} /\ conn \in 1 .. MaxConn
  /\ session \in [turn: Turn \cup {None}, bytes: 0 .. MaxBytes - 1]
  /\ asking \subseteq [turn: Turn, conn: 1 .. MaxConn]
  /\ resolved \in [Turn -> Nat]

Init ==
  /\ state = "idle" /\ heard = FALSE /\ pending = FALSE /\ turns = 0
  /\ painting = 0 /\ capTimer = FALSE /\ stray = 0 /\ leaked = FALSE
  /\ dwellTimer = FALSE /\ drawing = 0 /\ excuses = 0
  /\ mic = FALSE /\ host = <<>>
  /\ link = "up" /\ conn = 1 /\ toServer = <<>> /\ toPhone = <<>>
  /\ session = NoSession /\ asking = {} /\ resolved = [t \in Turn |-> 0]

-----------------------------------------------------------------------------
(* The phone *)

Emit(frames) == toServer' = toServer \o frames

\* flush(): what is buffered goes as one chunk.
Buffered == IF pending THEN <<ChunkFrame>> ELSE <<>>

\* start(), up to audioControl(true): the press that asks.
Start ==
  /\ state \in {"idle", "answering"} /\ turns < MaxTurns
  /\ Len(toServer) < MaxWire
  /\ dwellTimer' = FALSE
  /\ turns' = turns + 1
  /\ Emit(<<StartFrame(turns + 1)>>)
  /\ host' = Append(host, OpenMic)
  /\ UNCHANGED <<state, heard, pending, painting, capTimer, orphans, drawing, excuses,
                 mic, link, conn, toPhone, server>>

\* ... after it, up to the paint: listening, with no timer set yet,
MicOpens ==
  /\ host # <<>> /\ Head(host) = OpenMic
  /\ host' = Tail(host)
  /\ mic' = TRUE
  /\ state' = "listening" /\ heard' = FALSE /\ pending' = FALSE
  /\ painting' = painting + 1
  /\ UNCHANGED <<turns, capTimer, orphans, dwellTimer, drawing, excuses, wire, server>>

\* or the host refuses.
MicRefused ==
  /\ "no_mic" \in Faults
  /\ host # <<>> /\ Head(host) = OpenMic
  /\ host' = Tail(host)
  /\ Emit(<<CancelFrame>>)
  /\ excuses' = excuses + 1
  /\ UNCHANGED <<state, heard, pending, turns, painting, capTimer, orphans, dwellTimer,
                 drawing, mic, link, conn, toPhone, server>>

\* The timers are set, over those of a start that came before.
Painted ==
  /\ painting > 0
  /\ painting' = painting - 1
  /\ capTimer' = TRUE
  /\ stray' = IF capTimer THEN stray + 1 ELSE stray
  /\ leaked' = (leaked \/ capTimer)
  /\ UNCHANGED <<state, heard, pending, turns, dwellTimer, drawing, excuses, mic, host,
                 wire, server>>

\* onAudioChunk: ignored unless listening.
Audio(speech) ==
  /\ mic /\ state = "listening"
  /\ pending' = TRUE
  /\ heard' = (heard \/ speech)
  /\ UNCHANGED <<state, turns, painting, capTimer, orphans, dwellTimer, drawing,
                 excuses, mic, host, wire, server>>

\* The flush interval, or a buffer that has filled up.
Flush ==
  /\ pending /\ (capTimer \/ leaked \/ state = "listening") /\ Len(toServer) < MaxWire
  /\ Emit(Buffered)
  /\ pending' = FALSE
  /\ UNCHANGED <<state, heard, turns, painting, capTimer, orphans, dwellTimer, drawing,
                 excuses, mic, host, link, conn, toPhone, server>>

\* stop(), up to audioControl(false): it goes on being "listening" until then,
\* so another press, silence or timer can start a second stop.
Stopping ==
  /\ state = "listening" /\ Len(host) + excuses < MaxStops
  /\ host' = Append(host, StopMic)

\* A second press, or silence after speech.
Stop ==
  /\ Stopping
  /\ capTimer' = FALSE
  /\ UNCHANGED <<state, heard, pending, turns, painting, orphans, dwellTimer, drawing,
                 excuses, mic, wire, server>>

\* A cap timer that the fields have lost track of; stop() clears the others.
StrayCap ==
  /\ stray > 0 /\ stray' = stray - 1
  /\ IF state = "listening" THEN Stopping /\ capTimer' = FALSE ELSE UNCHANGED <<host, capTimer>>
  /\ UNCHANGED <<state, heard, pending, turns, painting, leaked, dwellTimer, drawing,
                 excuses, mic, wire, server>>

\* this.capTimer after MAX_UTTERANCE_MS.
Cap ==
  /\ capTimer /\ capTimer' = FALSE
  /\ IF state = "listening" THEN Stopping ELSE UNCHANGED host
  /\ UNCHANGED <<state, heard, pending, turns, painting, orphans, dwellTimer, drawing,
                 excuses, mic, wire, server>>

Closing(heardSpeech) == IF heardSpeech THEN EndFrame ELSE CancelFrame

\* stop() after audioControl(false), whatever has become of the state since.
MicCloses ==
  /\ host # <<>> /\ Head(host) = StopMic
  /\ host' = Tail(host)
  /\ mic' = FALSE /\ pending' = FALSE
  /\ Emit(Append(Buffered, Closing(heard)))
  /\ IF heard THEN state' = "thinking" /\ UNCHANGED excuses
              ELSE excuses' = excuses + 1 /\ UNCHANGED state
  /\ UNCHANGED <<heard, turns, painting, capTimer, orphans, dwellTimer, drawing, link,
                 conn, toPhone, server>>

\* Either of them is idle once it has said so, whatever it was before.
Excused ==
  /\ excuses > 0 /\ excuses' = excuses - 1
  /\ state' = "idle" /\ dwellTimer' = TRUE
  /\ UNCHANGED <<heard, pending, turns, painting, capTimer, orphans, drawing, mic, host,
                 wire, server>>

\* dismiss(): a press on anything voice has put up.
Dismiss ==
  /\ state # "idle"
  /\ capTimer' = FALSE /\ dwellTimer' = FALSE
  /\ IF state = "listening"
     THEN host' = Append(host, DismissMic) /\ Emit(<<CancelFrame>>)
     ELSE UNCHANGED <<host, toServer>>
  /\ state' = "idle"
  /\ UNCHANGED <<heard, pending, turns, painting, orphans, drawing, excuses, mic, link,
                 conn, toPhone, server>>

MicDismissed ==
  /\ host # <<>> /\ Head(host) = DismissMic
  /\ host' = Tail(host)
  /\ mic' = FALSE
  /\ UNCHANGED <<controller, wire, server>>

\* onResult(): of whichever turn the answer is.
Hear ==
  /\ toPhone # <<>>
  /\ toPhone' = Tail(toPhone)
  /\ capTimer' = FALSE
  /\ state' = "answering" /\ drawing' = drawing + 1
  /\ UNCHANGED <<heard, pending, turns, painting, orphans, dwellTimer, excuses, mic,
                 host, link, conn, toServer, server>>

Drawn ==
  /\ drawing > 0 /\ drawing' = drawing - 1
  /\ dwellTimer' = TRUE
  /\ UNCHANGED <<state, heard, pending, turns, painting, capTimer, orphans, excuses,
                 mic, host, wire, server>>

Dwelt ==
  /\ dwellTimer /\ dwellTimer' = FALSE
  /\ state' = "idle"
  /\ UNCHANGED <<heard, pending, turns, painting, capTimer, orphans, drawing, excuses,
                 mic, host, wire, server>>

-----------------------------------------------------------------------------
(* The server *)

Ended_StillThere == session

\* endVoiceSession.
Ended == NoSession

\* finalizeVoice up to its fetch, for the session as it then is.
Finalize(s) ==
  /\ session' = Ended
  /\ asking' = asking \cup {[turn |-> s.turn, conn |-> conn]}
  /\ resolved' = [resolved EXCEPT ![s.turn] = @ + 1]

Heeds(frame) == Head(toServer).frame = frame /\ link = "up" /\ toServer' = Tail(toServer)

\* voice:start restarts rather than interleaves.
StartArrives ==
  /\ toServer # <<>> /\ Heeds("voice:start")
  /\ session' = [NoSession EXCEPT !.turn = Head(toServer).turn]
  /\ UNCHANGED <<asking, resolved, controller, mic, host, link, conn, toPhone>>

Fits_OffByOne(s) == s.bytes <= MaxBytes

\* What a session may hold without being finalised on the spot.
Fits(s) == s.bytes < MaxBytes

ChunkArrives ==
  LET fed == [session EXCEPT !.bytes = @ + 1] IN
  /\ toServer # <<>> /\ Heeds("voice:chunk")
  /\ \/ session.turn = None /\ UNCHANGED server
     \/ session.turn # None /\ Fits(fed) /\ session' = fed /\ UNCHANGED <<asking, resolved>>
     \/ session.turn # None /\ ~Fits(fed) /\ Finalize(fed)
  /\ UNCHANGED <<controller, mic, host, link, conn, toPhone>>

EndArrives ==
  /\ toServer # <<>> /\ Heeds("voice:end")
  /\ IF session.turn = None THEN UNCHANGED server ELSE Finalize(session)
  /\ UNCHANGED <<controller, mic, host, link, conn, toPhone>>

CancelArrives ==
  /\ toServer # <<>> /\ Heeds("voice:cancel")
  /\ session' = NoSession
  /\ UNCHANGED <<asking, resolved, controller, mic, host, link, conn, toPhone>>

TimerSet_Never == FALSE

\* Every session has a timer of its own until it ends.
TimerSet == session.turn # None

\* The phone's cap, its host and the wire take less than those five seconds.
TimesOut ==
  /\ TimerSet /\ ~capTimer /\ host = <<>> /\ painting = 0 /\ toServer = <<>>
  /\ Finalize(session)
  /\ UNCHANGED <<controller, mic, host, wire>>

Answer_OnlyFine(a, fine) == IF fine THEN <<ResultFrame(a.turn)>> ELSE <<>>

\* A failed query is answered too, with a warning for the glass.
Answer(a, fine) == <<ResultFrame(a.turn)>>

\* /api/voice-query answers, or fails; a socket that is gone hears nothing.
Answered(a, fine) ==
  /\ a \in asking
  /\ asking' = asking \ {a}
  /\ toPhone' = IF a.conn = conn /\ link = "up" THEN toPhone \o Answer(a, fine) ELSE toPhone
  /\ UNCHANGED <<session, resolved, controller, mic, host, link, conn, toServer>>

Drop ==
  /\ "drop" \in Faults /\ link = "up"
  /\ link' = "down" /\ toServer' = <<>> /\ toPhone' = <<>>
  /\ session' = NoSession
  /\ UNCHANGED <<asking, resolved, controller, mic, host, conn>>

Reconnect ==
  /\ link = "down" /\ conn < MaxConn
  /\ link' = "up" /\ conn' = conn + 1
  /\ UNCHANGED <<controller, mic, host, toServer, toPhone, server>>

-----------------------------------------------------------------------------
Press == Start \/ Stop \/ Dismiss
HostStep == MicOpens \/ MicRefused \/ MicCloses \/ MicDismissed
GlassStep == Painted \/ Drawn \/ Excused
TimerStep == Cap \/ StrayCap \/ Dwelt
FrameArrives == StartArrives \/ ChunkArrives \/ EndArrives \/ CancelArrives

Next ==
  \/ Press \/ HostStep \/ GlassStep \/ TimerStep \/ FrameArrives
  \/ Hear \/ Flush \/ TimesOut \/ Drop \/ Reconnect
  \/ \E speech \in BOOLEAN : Audio(speech)
  \/ \E a \in asking, fine \in BOOLEAN : Answered(a, fine)

Spec == Init /\ [][Next]_vars

\* The host, the glass, the timers, the server and the wire do their part;
\* nobody has to press anything, and the wifi need not come back.
FairSpec ==
  /\ Spec
  /\ WF_vars(HostStep) /\ WF_vars(GlassStep) /\ WF_vars(TimerStep)
  /\ WF_vars(FrameArrives) /\ WF_vars(Hear) /\ WF_vars(TimesOut)
  /\ WF_vars(\E a \in asking, fine \in BOOLEAN : Answered(a, fine))

-----------------------------------------------------------------------------
(* What should be true of a question *)

\* However voice:end, the byte cap and the timeout race, a question is put to
\* the AI service once at most: one transcription paid for, one answer.
OneAnswerPerTurn == \A t \in Turn : resolved[t] <= 1

\* Once nobody asks any more no voice session is left holding its audio,
\* whatever the phone forgot to send: the safety net of voice:start.
SessionsEnd == session.turn # None ~> session.turn = None

\* "THINKING" does not outlast the AI's reply, good or bad, while the phone
\* stays connected.
ThinkingEnds ==
  (state = "thinking" /\ link = "up" /\ \E a \in asking : a.conn = conn)
    ~> (state # "thinking" \/ link = "down")

\* "a hard 12 s cap so a stuck mic can't stream forever" (voice.ts:15).
MicCapHolds == mic ~> ~mic
=============================================================================
