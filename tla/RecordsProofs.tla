---------------------------- MODULE RecordsProofs ----------------------------
(***************************************************************************)
(* What the log of the floor and the sales pipeline promise of the records *)
(* they keep, proved for any number of calls, people, glasses, leads and   *)
(* touches, whatever the Console and the sweeps do between the statements  *)
(* of a call; and that a day at the AI service keeps the types of all.     *)
(***************************************************************************)
EXTENDS MCServices, StoreLookupProofs, FiniteSetTheorems, TLAPS

-----------------------------------------------------------------------------
(* The log of the floor *)

\* A call that has not written its row, and one that has.
CallInHand ==
  [kind: {"engagement", "voice", "assist", "health"}, serial: Opt(Serial),
   email: Opt(Person), lens: Opt(Serial), stamp: Opt(Stamp),
   step: {"lens", "serial", "register", "email", "write"}, user: Opt(Person),
   mayKeep: BOOLEAN, allowed: BOOLEAN,
   wearers: SUBSET Opt(Person), lensers: SUBSET Opt(Person)]
CallBehind == [step: {"bump", "done"}]

\* What is known of the call's user, by where the call is: nothing was assigned
\* where the look-up went on, and a user found by a device was assigned to it.
UserIsFounded(q) ==
  /\ q.step \in {"serial", "register", "email"} => Nobody \in q.lensers
  /\ q.step \in {"serial", "register"} => q.serial \in Serial
  /\ q.step = "lens" => q.lens \in Serial
  /\ q.step \in {"register", "email"} => Nobody \in q.wearers
  /\ q.step = "write" =>
       \/ q.user # Nobody /\ q.user \in q.lensers \cup q.wearers
       \/ Nobody \in q.lensers /\ Nobody \in q.wearers /\ q.user \in {q.email, Nobody}

\* The store allowed what the call may keep, at some moment of the call.
IsAllowed(q) == q.mayKeep \/ q.kind = "health" => q.allowed

\* History is kept up: whoever is assigned now has been seen by the call.
SeesAssignments(q) == Wearer(q.serial) \in q.wearers /\ Wearer(q.lens) \in q.lensers

Sound(q) == IsAllowed(q) /\ SeesAssignments(q) /\ UserIsFounded(q)

LogInv ==
  /\ privacy \in BOOLEAN
  /\ staff \in [Person -> {"active", "disabled", "gone"}]
  /\ worn \in [Serial -> Person \cup {Nobody, Unknown}]
  /\ call \in [Call -> {None} \cup CallInHand \cup CallBehind]
  /\ log = [c \in Call |-> log[c]]
  /\ \A c \in Call : UnderWay(c) => call[c] \in CallInHand /\ Sound(call[c])

\* A call that is under way is one of the full records.
LEMMA InHand ==
  ASSUME LogInv, NEW c \in Call, call[c] # None,
         call[c].step \in {"lens", "serial", "register", "email", "write"}
  PROVE  UnderWay(c) /\ call[c] \in CallInHand /\ Sound(call[c])
BY DEF LogInv, UnderWay

\* One call moves on, and the Console's tables stay.
LEMMA CallMoves ==
  ASSUME LogInv, NEW c \in Call, NEW q,
         q \in CallBehind \/ (q \in CallInHand /\ Sound(q)),
         call' = [call EXCEPT ![c] = q], UNCHANGED <<staff, worn, privacy>>,
         log' = [o \in Call |-> log'[o]]
  PROVE  LogInv'
<1>1. call' \in [Call -> {None} \cup CallInHand \cup CallBehind]
  BY DEF LogInv
<1>2. ASSUME NEW o \in Call, UnderWay(o)'
      PROVE  (call[o] \in CallInHand /\ Sound(call[o]))'
  <2>1. call'[o] \in CallInHand /\ Sound(call'[o])
    <3>1. CASE o = c
      <4>1. call'[o] = q
        BY <3>1 DEF LogInv
      <4>2. q \in CallInHand /\ Sound(q)
        BY <1>2, <4>1 DEF UnderWay, CallBehind
      <4> QED
        BY <4>1, <4>2
    <3>2. CASE o # c
      <4>1. call'[o] = call[o]
        BY <3>2 DEF LogInv
      <4>2. UnderWay(o)
        BY <1>2, <4>1 DEF UnderWay
      <4> QED
        BY <4>1, <4>2 DEF LogInv
    <3> QED
      BY <3>1, <3>2
  <2>2. Wearer(call[o].serial)' = Wearer(call'[o].serial)
        /\ Wearer(call[o].lens)' = Wearer(call'[o].lens)
    BY DEF Wearer
  <2> QED
    BY <2>1, <2>2 DEF Sound, IsAllowed, SeesAssignments, UserIsFounded
<1>3. /\ privacy' \in BOOLEAN
      /\ staff' \in [Person -> {"active", "disabled", "gone"}]
      /\ worn' \in [Serial -> Person \cup {Nobody, Unknown}]
  BY DEF LogInv
<1>4. (\A o \in Call : UnderWay(o) => call[o] \in CallInHand /\ Sound(call[o]))'
  BY <1>2
<1> QED
  BY <1>1, <1>3, <1>4 DEF LogInv

\* Whatever a serial is worn by is a person or nobody.
LEMMA WearerIs ==
  ASSUME LogInv, NEW s \in Opt(Serial)
  PROVE  /\ Wearer(s) \in Opt(Person) /\ (s = None => Wearer(s) = Nobody)
         /\ s \in Serial /\ worn[s] # Unknown => Wearer(s) = worn[s]
         /\ s \in Serial /\ worn[s] = Unknown => Wearer(s) = Nobody
BY LogAssumption DEF LogInv, Wearer, Opt, Nobody, Unknown

\* A call begins.
LEMMA BeginStep ==
  ASSUME LogInv, NEW c \in Call, NEW asked \in IngestRequest, Begin(c, asked) PROVE LogInv'
<1>1. CASE Refused(asked)
  <2>1. call' = [call EXCEPT ![c] = [step |-> "done"]]
    BY <1>1 DEF Begin, Done, Rest
  <2> QED
    BY <2>1, CallMoves DEF Begin, CallBehind, LogInv
<1>2. CASE ~Refused(asked)
  <2> DEFINE q == [kind |-> asked.kind, serial |-> asked.serial, email |-> asked.email,
                   lens |-> asked.lens, stamp |-> asked.stamp,
                   step |-> IF asked.lens # None THEN "lens"
                            ELSE IF asked.serial # None THEN "serial" ELSE "email",
                   user |-> None, mayKeep |-> privacy, allowed |-> privacy,
                   wearers |-> {Wearer(asked.serial)}, lensers |-> {Wearer(asked.lens)}]
  <2>1. call' = [call EXCEPT ![c] = q]
    BY <1>2 DEF Begin
  <2>2. /\ asked.kind \in {"engagement", "voice", "assist", "health"}
        /\ asked.serial \in Opt(Serial) /\ asked.email \in Opt(Person)
        /\ asked.lens \in Opt(Serial) /\ asked.stamp \in Opt(Stamp)
    BY DEF IngestRequest, EngagementStart, VoiceRecord, AssistRecord, DeviceHealth, Opt
  <2>3. /\ Wearer(asked.serial) \in Opt(Person) /\ (asked.serial = None => Wearer(asked.serial) = Nobody)
        /\ Wearer(asked.lens) \in Opt(Person) /\ (asked.lens = None => Wearer(asked.lens) = Nobody)
    BY <2>2, WearerIs
  <2>4. q \in CallInHand
    BY <2>2, <2>3 DEF CallInHand, Opt, LogInv
  <2>5. IsAllowed(q)
    BY <1>2 DEF IsAllowed, Refused, LogInv
  <2>6. SeesAssignments(q)
    BY DEF SeesAssignments
  <2>7. UserIsFounded(q)
    BY <2>2, <2>3 DEF UserIsFounded, Opt, Nobody
  <2>8. log' = [o \in Call |-> log'[o]]
    BY DEF Begin, LogInv
  <2>9. UNCHANGED <<staff, worn, privacy>>
    BY DEF Begin
  <2> HIDE DEF q
  <2> QED
    BY <2>1, <2>4, <2>5, <2>6, <2>7, <2>8, <2>9, CallMoves DEF Sound
<1> QED
  BY <1>1, <1>2

\* What a look-up changes in a call, and what it must have found.
LEMMA LookUpMoves ==
  ASSUME LogInv, NEW c \in Call, UnderWay(c), NEW user \in Opt(Person),
         NEW step \in {"serial", "register", "email", "write"},
         UserIsFounded([call[c] EXCEPT !.user = user, !.step = step]),
         call' = [call EXCEPT ![c].user = user, ![c].step = step],
         UNCHANGED <<staff, worn, privacy, log>>
  PROVE  LogInv'
<1> DEFINE q == [call[c] EXCEPT !.user = user, !.step = step]
<1>1. call[c] \in CallInHand /\ Sound(call[c])
  BY DEF LogInv
<1>2. call' = [call EXCEPT ![c] = q]
  BY <1>1 DEF LogInv
<1>3. q \in CallInHand
  BY <1>1 DEF CallInHand
<1>4. q.mayKeep = call[c].mayKeep /\ q.kind = call[c].kind /\ q.allowed = call[c].allowed
      /\ q.serial = call[c].serial /\ q.wearers = call[c].wearers
      /\ q.lens = call[c].lens /\ q.lensers = call[c].lensers
  BY <1>1 DEF CallInHand
<1>5. IsAllowed(q) /\ SeesAssignments(q) /\ UserIsFounded(q)
  BY <1>1, <1>4 DEF Sound, IsAllowed, SeesAssignments
<1>6. log' = [o \in Call |-> log'[o]]
  BY DEF LogInv
<1> HIDE DEF q
<1> QED
  BY <1>2, <1>3, <1>5, <1>6, CallMoves DEF Sound

\* The device row an engagement came through is read.
LEMMA AskLensStep == ASSUME LogInv, NEW c \in Call, AskLens(c) PROVE LogInv'
<1> DEFINE p == Wearer(call[c].lens)
           step == IF p # Nobody THEN "write"
                   ELSE IF call[c].serial # None THEN "serial" ELSE "email"
           q == [call[c] EXCEPT !.user = p, !.step = step]
<1>1. UnderWay(c) /\ call[c] \in CallInHand /\ Sound(call[c]) /\ call[c].step = "lens"
  BY InHand DEF AskLens
<1>2. call[c].lens \in Serial /\ call[c].serial \in Opt(Serial)
  BY <1>1 DEF Sound, UserIsFounded, CallInHand
<1>3. p \in Opt(Person) /\ (call[c].serial = None => Wearer(call[c].serial) = Nobody)
  BY <1>2, WearerIs DEF Opt
<1>4. /\ q.user = p /\ q.step = step /\ q.serial = call[c].serial /\ q.lens = call[c].lens
      /\ q.wearers = call[c].wearers /\ q.lensers = call[c].lensers
  BY <1>1 DEF CallInHand
<1>5. p \in call[c].lensers /\ Wearer(call[c].serial) \in call[c].wearers
  BY <1>1 DEF Sound, SeesAssignments
<1>6. UserIsFounded(q)
  BY <1>2, <1>3, <1>4, <1>5 DEF UserIsFounded, Opt, Nobody
<1>7. call' = [call EXCEPT ![c].user = p, ![c].step = step]
  BY DEF AskLens
<1>8. step \in {"serial", "register", "email", "write"}
  OBVIOUS
<1>9. UNCHANGED <<staff, worn, privacy, log>>
  BY DEF AskLens
<1> HIDE DEF p, step
<1> QED
  BY <1>1, <1>3, <1>6, <1>7, <1>8, <1>9, LookUpMoves

\* The serial an associate's phone names is read.
LEMMA AskSerialStep == ASSUME LogInv, NEW c \in Call, AskSerial(c) PROVE LogInv'
<1> DEFINE s == call[c].serial
<1>1. UnderWay(c) /\ call[c] \in CallInHand /\ Sound(call[c]) /\ call[c].step = "serial"
  BY InHand DEF AskSerial
<1>2. s \in Serial /\ Nobody \in call[c].lensers /\ Wearer(s) \in call[c].wearers
  BY <1>1 DEF Sound, UserIsFounded, SeesAssignments
<1>3. UNCHANGED <<staff, worn, privacy, log>>
  BY DEF AskSerial
<1>4. CASE worn[s] = Unknown
  <2>1. Nobody \in call[c].wearers
    BY <1>2, <1>4, WearerIs DEF Opt
  <2> DEFINE q == [call[c] EXCEPT !.user = call[c].user, !.step = "register"]
  <2>2. /\ q.step = "register" /\ q.serial = call[c].serial
        /\ q.wearers = call[c].wearers /\ q.lensers = call[c].lensers
    BY <1>1 DEF CallInHand
  <2>3. UserIsFounded(q)
    BY <1>2, <2>1, <2>2 DEF UserIsFounded
  <2>4. call' = [call EXCEPT ![c].user = call[c].user, ![c].step = "register"]
    BY <1>1, <1>4 DEF AskSerial, Step, CallInHand, LogInv
  <2>5. call[c].user \in Opt(Person)
    BY <1>1 DEF CallInHand
  <2> QED
    BY <1>1, <1>3, <2>3, <2>4, <2>5, LookUpMoves
<1>5. CASE worn[s] # Unknown
  <2> DEFINE user == worn[s]
             step == IF FallsThrough(c, worn[s]) THEN "email" ELSE "write"
             q == [call[c] EXCEPT !.user = user, !.step = step]
  <2>1. Wearer(s) = user /\ user \in Opt(Person)
    BY <1>2, <1>5, WearerIs DEF Opt
  <2>2. /\ q.user = user /\ q.step = step /\ q.serial = call[c].serial
        /\ q.wearers = call[c].wearers /\ q.lensers = call[c].lensers
    BY <1>1 DEF CallInHand
  <2>3. UserIsFounded(q)
    BY <1>2, <2>1, <2>2 DEF UserIsFounded, FallsThrough
  <2>4. call' = [call EXCEPT ![c].user = user, ![c].step = step]
    BY <1>5 DEF AskSerial
  <2>5. step \in {"serial", "register", "email", "write"}
    OBVIOUS
  <2> HIDE DEF user, step
  <2> QED
    BY <1>1, <1>3, <2>1, <2>3, <2>4, <2>5, LookUpMoves
<1> QED
  BY <1>4, <1>5

\* A call that only learns more: of who was assigned, of what was allowed.
Learns(q, r) ==
  /\ r \in CallInHand
  /\ r.kind = q.kind /\ r.serial = q.serial /\ r.email = q.email /\ r.lens = q.lens
  /\ r.step = q.step /\ r.user = q.user /\ r.mayKeep = q.mayKeep
  /\ q.allowed => r.allowed
  /\ q.wearers \subseteq r.wearers /\ q.lensers \subseteq r.lensers

\* The Console changes something, and the calls under way learn of it.
LEMMA CallsLearn ==
  ASSUME LogInv, privacy' \in BOOLEAN, staff' \in [Person -> {"active", "disabled", "gone"}],
         worn' \in [Serial -> Person \cup {Nobody, Unknown}],
         log' = [o \in Call |-> log'[o]], call' = [o \in Call |-> call'[o]],
         \A o \in Call : ~UnderWay(o) => call'[o] = call[o],
         \A o \in Call : UnderWay(o) =>
           /\ Learns(call[o], call'[o])
           /\ Wearer(call[o].serial)' \in call'[o].wearers
           /\ Wearer(call[o].lens)' \in call'[o].lensers
  PROVE  LogInv'
<1>1. \A o \in Call : call'[o] \in {None} \cup CallInHand \cup CallBehind
  BY DEF LogInv, Learns
<1>2. ASSUME NEW o \in Call, UnderWay(o)'
      PROVE  (call[o] \in CallInHand /\ Sound(call[o]))'
  <2>1. UnderWay(o)
    BY <1>2 DEF UnderWay
  <2>2. Learns(call[o], call'[o]) /\ call[o] \in CallInHand /\ Sound(call[o])
    BY <2>1 DEF LogInv
  <2>3. SeesAssignments(call[o])'
    BY <2>1 DEF SeesAssignments
  <2>4. IsAllowed(call'[o])
    BY <2>2 DEF Learns, Sound, IsAllowed
  <2>5. UserIsFounded(call'[o])
    BY <2>2 DEF Learns, Sound, UserIsFounded
  <2> QED
    BY <2>2, <2>3, <2>4, <2>5 DEF Sound, IsAllowed, UserIsFounded, Learns
<1>3. (\A o \in Call : UnderWay(o) => call[o] \in CallInHand /\ Sound(call[o]))'
  BY <1>2
<1> QED
  BY <1>1, <1>3 DEF LogInv

\* Glasses are put on record.
LEMMA RegisterStep == ASSUME LogInv, NEW c \in Call, Register(c) PROVE LogInv'
<1> DEFINE s == call[c].serial
           learnt == [o \in Call |-> call[o]]
<1>1. UnderWay(c) /\ call[c] \in CallInHand /\ Sound(call[c]) /\ call[c].step = "register"
  BY InHand DEF Register
<1>2. s \in Serial /\ Nobody \in call[c].lensers /\ Nobody \in call[c].wearers
  BY <1>1 DEF Sound, UserIsFounded
<1>3. worn' \in [Serial -> Person \cup {Nobody, Unknown}]
  BY <1>2 DEF Register, LogInv
<1>4. \A x \in Opt(Serial) : Wearer(x)' = Wearer(x)
  BY <1>2 DEF Register, LogInv, Wearer, Opt, Nobody
<1>5. call'[c] \in CallInHand /\ Sound(call'[c]) /\ call'[c].serial = s /\ call'[c].lens = call[c].lens
  <2>1. call'[c] = [call[c] EXCEPT !.step = "email"]
    BY <1>1 DEF Register, Step, LogInv
  <2> DEFINE q == [call[c] EXCEPT !.step = "email"]
  <2>2. /\ q \in CallInHand /\ q.step = "email" /\ q.mayKeep = call[c].mayKeep
        /\ q.kind = call[c].kind /\ q.allowed = call[c].allowed
        /\ q.serial = s /\ q.wearers = call[c].wearers
        /\ q.lens = call[c].lens /\ q.lensers = call[c].lensers
    BY <1>1 DEF CallInHand
  <2>3. IsAllowed(q) /\ SeesAssignments(q) /\ UserIsFounded(q)
    BY <1>1, <1>2, <2>2 DEF Sound, IsAllowed, SeesAssignments, UserIsFounded
  <2> HIDE DEF q
  <2> QED
    BY <2>1, <2>2, <2>3 DEF Sound, q
<1>6. \A o \in Call : o # c => call'[o] = call[o]
  BY DEF Register, Step, LogInv
<1>7. ASSUME NEW o \in Call, UnderWay(o)'
      PROVE  (call[o] \in CallInHand /\ Sound(call[o]))'
  <2>1. call'[o] \in CallInHand /\ Sound(call'[o])
    <3>1. CASE o = c
      BY <1>5, <3>1
    <3>2. CASE o # c
      <4>1. call'[o] = call[o] /\ UnderWay(o)
        BY <1>6, <1>7, <3>2 DEF UnderWay
      <4> QED
        BY <4>1 DEF LogInv
    <3> QED
      BY <3>1, <3>2
  <2>2. call'[o].serial \in Opt(Serial) /\ call'[o].lens \in Opt(Serial)
    BY <2>1 DEF CallInHand
  <2>3. Wearer(call[o].serial)' = Wearer(call'[o].serial)
        /\ Wearer(call[o].lens)' = Wearer(call'[o].lens)
    BY <1>4, <2>2 DEF Wearer
  <2> QED
    BY <2>1, <2>3 DEF Sound, IsAllowed, SeesAssignments, UserIsFounded
<1>8. (\A o \in Call : UnderWay(o) => call[o] \in CallInHand /\ Sound(call[o]))'
  BY <1>7
<1>9. call' \in [Call -> {None} \cup CallInHand \cup CallBehind]
  BY <1>5, <1>6 DEF Register, Step, LogInv
<1> QED
  BY <1>3, <1>8, <1>9 DEF Register, LogInv

\* The e-mail is looked up, where no device answered.
LEMMA AskEmailStep == ASSUME LogInv, NEW c \in Call, AskEmail(c) PROVE LogInv'
<1> DEFINE p == call[c].email
           user == IF p # None THEN IF staff[p] # "gone" THEN p ELSE Nobody ELSE Nobody
<1>1. UnderWay(c) /\ call[c] \in CallInHand /\ Sound(call[c]) /\ call[c].step = "email"
  BY InHand DEF AskEmail
<1>2. UNCHANGED <<staff, worn, privacy, log>>
  BY DEF AskEmail
<1>3. CASE call[c].kind = "assist" /\ user = Nobody
  <2>1. call' = [call EXCEPT ![c] = [step |-> "done"]]
    BY <1>3 DEF AskEmail, Done, Rest
  <2> QED
    BY <1>2, <2>1, CallMoves DEF CallBehind, LogInv
<1>4. CASE ~(call[c].kind = "assist" /\ user = Nobody)
  <2> DEFINE q == [call[c] EXCEPT !.user = user, !.step = "write"]
  <2>1. /\ q.user = user /\ q.step = "write" /\ q.email = p
        /\ q.wearers = call[c].wearers /\ q.lensers = call[c].lensers
    BY <1>1 DEF CallInHand
  <2>2. UserIsFounded(q)
    BY <1>1, <2>1 DEF Sound, UserIsFounded
  <2>3. call' = [call EXCEPT ![c].user = user, ![c].step = "write"]
    BY <1>4 DEF AskEmail
  <2>4. user \in Opt(Person)
    BY <1>1 DEF CallInHand, Opt, Nobody
  <2> HIDE DEF user
  <2> QED
    BY <1>1, <1>2, <2>2, <2>3, <2>4, LookUpMoves
<1> QED
  BY <1>3, <1>4

\* The row is written, or refused by the database.
LEMMA WriteRowStep == ASSUME LogInv, NEW c \in Call, WriteRow(c) PROVE LogInv'
<1>1. PICK s \in {"bump", "done"} : call' = [call EXCEPT ![c] = [step |-> s]]
  BY DEF WriteRow, Done, Rest
<1>2. log' = [o \in Call |-> log'[o]]
  BY DEF WriteRow, LogInv
<1>3. [step |-> s] \in CallBehind
  BY DEF CallBehind
<1> QED
  BY <1>1, <1>2, <1>3, CallMoves DEF WriteRow

\* The row is counted, or the count is lost.
LEMMA BumpUsageStep == ASSUME LogInv, NEW c \in Call, BumpUsage(c) PROVE LogInv'
<1>1. call' = [call EXCEPT ![c] = [step |-> "done"]] /\ [step |-> "done"] \in CallBehind
  BY DEF BumpUsage, Done, Rest, CallBehind
<1>2. log' = [o \in Call |-> log'[o]]
  BY DEF BumpUsage, LogInv
<1> QED
  BY <1>1, <1>2, CallMoves DEF BumpUsage

\* Steps that no call takes part in.
LEMMA CallsStay ==
  ASSUME LogInv, UNCHANGED <<call, worn, privacy>>,
         staff' \in [Person -> {"active", "disabled", "gone"}], log' = [o \in Call |-> log'[o]]
  PROVE  LogInv'
BY DEF LogInv, UnderWay, Sound, IsAllowed, SeesAssignments, UserIsFounded, Wearer

\* Glasses are assigned to somebody, or to nobody.
LEMMA AssignStep ==
  ASSUME LogInv, NEW s \in Serial, NEW p \in Person \cup {Nobody}, Assign(s, p) PROVE LogInv'
<1>1. /\ worn' \in [Serial -> Person \cup {Nobody, Unknown}]
      /\ worn'[s] = p /\ p # Unknown /\ \A x \in Serial : x # s => worn'[x] = worn[x]
  BY LogAssumption DEF Assign, LogInv, Unknown, Nobody
<1>2. ASSUME NEW o \in Call, UnderWay(o)
      PROVE  /\ Learns(call[o], call'[o])
             /\ Wearer(call[o].serial)' \in call'[o].wearers
             /\ Wearer(call[o].lens)' \in call'[o].lensers
  <2>1. call[o] \in CallInHand /\ SeesAssignments(call[o])
    BY <1>2 DEF LogInv, Sound
  <2>2. call'[o] = [call[o] EXCEPT !.wearers = IF call[o].serial = s THEN @ \cup {p} ELSE @,
                                   !.lensers = IF call[o].lens = s THEN @ \cup {p} ELSE @]
    BY <1>2 DEF Assign
  <2>3. /\ call'[o].wearers = IF call[o].serial = s THEN call[o].wearers \cup {p} ELSE call[o].wearers
        /\ call'[o].lensers = IF call[o].lens = s THEN call[o].lensers \cup {p} ELSE call[o].lensers
        /\ call'[o].serial = call[o].serial /\ call'[o].lens = call[o].lens
        /\ call[o].serial \in Opt(Serial) /\ call[o].lens \in Opt(Serial)
    BY <2>1, <2>2 DEF CallInHand
  <2>4. Learns(call[o], call'[o])
    <3>1. p \in Opt(Person) /\ call[o].wearers \subseteq Opt(Person) /\ call[o].lensers \subseteq Opt(Person)
      BY <2>1 DEF CallInHand, Opt, Nobody
    <3>2. call'[o].wearers \in SUBSET Opt(Person) /\ call'[o].lensers \in SUBSET Opt(Person)
      BY <2>3, <3>1
    <3>3. call'[o] = [call[o] EXCEPT !.wearers = call'[o].wearers, !.lensers = call'[o].lensers]
      BY <2>1, <2>2, <2>3 DEF CallInHand
    <3>4. call'[o] \in CallInHand
      BY <2>1, <3>2, <3>3 DEF CallInHand
    <3> QED
      BY <2>1, <2>3, <3>3, <3>4 DEF Learns, CallInHand
  <2>5. Wearer(call[o].serial)' \in call'[o].wearers
    <3>1. Wearer(call[o].serial) \in call[o].wearers
      BY <2>1 DEF SeesAssignments
    <3>2. Wearer(call[o].serial)' = IF call[o].serial = s THEN p ELSE Wearer(call[o].serial)
      BY <1>1, <2>3, LogAssumption DEF Wearer, Opt
    <3> QED
      BY <2>3, <3>1, <3>2
  <2>6. Wearer(call[o].lens)' \in call'[o].lensers
    <3>1. Wearer(call[o].lens) \in call[o].lensers
      BY <2>1 DEF SeesAssignments
    <3>2. Wearer(call[o].lens)' = IF call[o].lens = s THEN p ELSE Wearer(call[o].lens)
      BY <1>1, <2>3, LogAssumption DEF Wearer, Opt
    <3> QED
      BY <2>3, <3>1, <3>2
  <2> QED
    BY <2>4, <2>5, <2>6
<1>3. \A o \in Call : ~UnderWay(o) => call'[o] = call[o]
  BY DEF Assign
<1>4. call' = [o \in Call |-> call'[o]] /\ log' = [o \in Call |-> log'[o]]
  BY DEF Assign, LogInv
<1>5. privacy' \in BOOLEAN /\ staff' \in [Person -> {"active", "disabled", "gone"}]
  BY DEF Assign, LogInv
<1> QED
  BY <1>1, <1>2, <1>3, <1>4, <1>5, CallsLearn

\* The store's switch is turned.
LEMMA SwitchPrivacyStep == ASSUME LogInv, SwitchPrivacy PROVE LogInv'
<1>1. ASSUME NEW o \in Call, UnderWay(o)
      PROVE  /\ Learns(call[o], call'[o])
             /\ Wearer(call[o].serial)' \in call'[o].wearers
             /\ Wearer(call[o].lens)' \in call'[o].lensers
  <2>1. call[o] \in CallInHand /\ SeesAssignments(call[o])
    BY <1>1 DEF LogInv, Sound
  <2>2. call'[o] = [call[o] EXCEPT !.allowed = @ \/ ~privacy]
    BY <1>1 DEF SwitchPrivacy
  <2>3. Learns(call[o], call'[o])
    BY <2>1, <2>2 DEF Learns, CallInHand, LogInv
  <2>4. Wearer(call[o].serial)' = Wearer(call'[o].serial) /\ Wearer(call'[o].serial) = Wearer(call[o].serial)
    BY <2>3 DEF SwitchPrivacy, Wearer, Learns
  <2>5. Wearer(call[o].lens)' = Wearer(call'[o].lens) /\ Wearer(call'[o].lens) = Wearer(call[o].lens)
    BY <2>3 DEF SwitchPrivacy, Wearer, Learns
  <2> QED
    BY <2>1, <2>3, <2>4, <2>5 DEF SeesAssignments, Learns
<1>2. \A o \in Call : ~UnderWay(o) => call'[o] = call[o]
  BY DEF SwitchPrivacy
<1>3. call' = [o \in Call |-> call'[o]] /\ log' = [o \in Call |-> log'[o]]
  BY DEF SwitchPrivacy, LogInv
<1>4. /\ privacy' \in BOOLEAN /\ staff' \in [Person -> {"active", "disabled", "gone"}]
      /\ worn' \in [Serial -> Person \cup {Nobody, Unknown}]
  BY DEF SwitchPrivacy, LogInv
<1> QED
  BY <1>1, <1>2, <1>3, <1>4, CallsLearn

\* Somebody is deleted, and their glasses are nobody's.
LEMMA DeleteUserStep == ASSUME LogInv, NEW p \in Person, DeleteUser(p) PROVE LogInv'
<1>1. /\ worn' \in [Serial -> Person \cup {Nobody, Unknown}]
      /\ staff' \in [Person -> {"active", "disabled", "gone"}] /\ privacy' \in BOOLEAN
  BY DEF DeleteUser, LogInv
<1>2. ASSUME NEW o \in Call, UnderWay(o)
      PROVE  /\ Learns(call[o], call'[o])
             /\ Wearer(call[o].serial)' \in call'[o].wearers
             /\ Wearer(call[o].lens)' \in call'[o].lensers
  <2>1. call[o] \in CallInHand /\ SeesAssignments(call[o])
    BY <1>2 DEF LogInv, Sound
  <2>2. call'[o] = [call[o] EXCEPT !.wearers = IF p \in @ THEN @ \cup {Nobody} ELSE @,
                                   !.lensers = IF p \in @ THEN @ \cup {Nobody} ELSE @]
    BY <1>2 DEF DeleteUser
  <2>3. /\ call'[o].wearers = IF p \in call[o].wearers THEN call[o].wearers \cup {Nobody} ELSE call[o].wearers
        /\ call'[o].lensers = IF p \in call[o].lensers THEN call[o].lensers \cup {Nobody} ELSE call[o].lensers
        /\ call'[o].serial = call[o].serial /\ call'[o].lens = call[o].lens
        /\ call[o].serial \in Opt(Serial) /\ call[o].lens \in Opt(Serial)
    BY <2>1, <2>2 DEF CallInHand
  <2>4. Learns(call[o], call'[o])
    <3>1. call[o].wearers \subseteq Opt(Person) /\ call[o].lensers \subseteq Opt(Person)
      BY <2>1 DEF CallInHand
    <3>2. call'[o].wearers \in SUBSET Opt(Person) /\ call'[o].lensers \in SUBSET Opt(Person)
      BY <2>3, <3>1 DEF Opt, Nobody
    <3>3. call'[o] = [call[o] EXCEPT !.wearers = call'[o].wearers, !.lensers = call'[o].lensers]
      BY <2>1, <2>2, <2>3 DEF CallInHand
    <3>4. call'[o] \in CallInHand
      BY <2>1, <3>2, <3>3 DEF CallInHand
    <3> QED
      BY <2>1, <2>3, <3>3, <3>4 DEF Learns, CallInHand
  <2>5. Wearer(call[o].serial)' = (IF Wearer(call[o].serial) = p THEN Nobody ELSE Wearer(call[o].serial))
        /\ Wearer(call[o].lens)' = (IF Wearer(call[o].lens) = p THEN Nobody ELSE Wearer(call[o].lens))
    <3>1. Wearer(call[o].serial)' = IF Wearer(call[o].serial) = p THEN Nobody ELSE Wearer(call[o].serial)
      <4>1. CASE call[o].serial = None
        BY <2>3, <4>1, LogAssumption DEF Wearer, Nobody
      <4>2. CASE call[o].serial \in Serial
        <5>1. worn'[call[o].serial] = IF worn[call[o].serial] = p THEN Nobody ELSE worn[call[o].serial]
          BY <4>2 DEF DeleteUser
        <5>2. worn[call[o].serial] \in Person \cup {Nobody, Unknown} /\ call[o].serial # None
          BY <4>2, LogAssumption DEF LogInv
        <5> QED
          BY <2>3, <5>1, <5>2, LogAssumption DEF Wearer, Nobody, Unknown
      <4> QED
        BY <2>3, <4>1, <4>2 DEF Opt
    <3>2. Wearer(call[o].lens)' = IF Wearer(call[o].lens) = p THEN Nobody ELSE Wearer(call[o].lens)
      <4>1. CASE call[o].lens = None
        BY <2>3, <4>1, LogAssumption DEF Wearer, Nobody
      <4>2. CASE call[o].lens \in Serial
        <5>1. worn'[call[o].lens] = IF worn[call[o].lens] = p THEN Nobody ELSE worn[call[o].lens]
          BY <4>2 DEF DeleteUser
        <5>2. worn[call[o].lens] \in Person \cup {Nobody, Unknown} /\ call[o].lens # None
          BY <4>2, LogAssumption DEF LogInv
        <5> QED
          BY <2>3, <5>1, <5>2, LogAssumption DEF Wearer, Nobody, Unknown
      <4> QED
        BY <2>3, <4>1, <4>2 DEF Opt
    <3> QED
      BY <3>1, <3>2
  <2> QED
    BY <2>1, <2>3, <2>4, <2>5 DEF SeesAssignments
<1>3. \A o \in Call : ~UnderWay(o) => call'[o] = call[o]
  BY DEF DeleteUser
<1>4. call' = [o \in Call |-> call'[o]] /\ log' = [o \in Call |-> log'[o]]
  BY DEF DeleteUser
<1> QED
  BY <1>1, <1>2, <1>3, <1>4, CallsLearn

\* The log begins without calls.
LEMMA LogInitInv == LogInit => LogInv
BY DEF LogInit, LogInv, UnderWay

\* Every step keeps the invariant of the log.
LEMMA LogStepInv == LogInv /\ [LogNext]_logvars => LogInv'
<1> SUFFICES ASSUME LogInv, [LogNext]_logvars PROVE LogInv'
  OBVIOUS
<1>1. ASSUME NEW c \in Call, NEW asked \in IngestRequest, Begin(c, asked) PROVE LogInv'
  BY <1>1, BeginStep
<1>2. ASSUME NEW c \in Call,
             AskLens(c) \/ AskSerial(c) \/ Register(c) \/ AskEmail(c) \/ WriteRow(c) \/ BumpUsage(c)
      PROVE  LogInv'
  BY <1>2, AskLensStep, AskSerialStep, RegisterStep, AskEmailStep, WriteRowStep, BumpUsageStep
<1>3. ASSUME NEW c \in Call, NEW sale \in Sale, EndEngagement(c, sale) PROVE LogInv'
  <2>1. log' = [o \in Call |-> log'[o]] /\ staff' \in [Person -> {"active", "disabled", "gone"}]
    BY <1>3 DEF EndEngagement, LogInv
  <2> QED
    BY <1>3, <2>1, CallsStay DEF EndEngagement
<1>4. ASSUME NEW s \in Serial, NEW p \in Person \cup {Nobody}, Assign(s, p) PROVE LogInv'
  BY <1>4, AssignStep
<1>5. CASE SwitchPrivacy
  BY <1>5, SwitchPrivacyStep
<1>6. ASSUME NEW p \in Person, Disable(p) PROVE LogInv'
  <2>1. log' = [o \in Call |-> log'[o]] /\ staff' \in [Person -> {"active", "disabled", "gone"}]
    BY <1>6 DEF Disable, LogInv
  <2> QED
    BY <1>6, <2>1, CallsStay DEF Disable
<1>7. ASSUME NEW p \in Person, DeleteUser(p) PROVE LogInv'
  BY <1>7, DeleteUserStep
<1>8. CASE NextDay
  <2>1. log' = [o \in Call |-> log'[o]] /\ staff' \in [Person -> {"active", "disabled", "gone"}]
    BY <1>8 DEF NextDay, LogInv
  <2> QED
    BY <1>8, <2>1, CallsStay DEF NextDay
<1>9. CASE UNCHANGED logvars
  <2>1. log' = [o \in Call |-> log'[o]] /\ staff' \in [Person -> {"active", "disabled", "gone"}]
    BY <1>9 DEF logvars, LogInv
  <2> QED
    BY <1>9, <2>1, CallsStay DEF logvars
<1> QED
  BY <1>1, <1>2, <1>3, <1>4, <1>5, <1>6, <1>7, <1>8, <1>9 DEF LogNext

\* A row comes on record by the one step that writes it.
LEMMA OnlyWriteRowWrites ==
  ASSUME LogInv, [LogNext]_logvars, NEW c \in Call, Written(c)
  PROVE  /\ WriteRow(c) /\ UnderWay(c) /\ call[c] \in CallInHand /\ Sound(call[c])
         /\ call[c].step = "write" /\ log'[c] = RowOf(c)
<1>1. log[c] = None /\ log'[c] # None
  BY DEF Written
<1>2. WriteRow(c)
  <2>1. ASSUME NEW o \in Call, WriteRow(o) PROVE WriteRow(c)
    <3>1. o # c => log'[c] = log[c]
      BY <2>1 DEF WriteRow, LogInv
    <3> QED
      BY <1>1, <2>1, <3>1
  <2>2. ASSUME NEW o \in Call, NEW sale \in Sale, EndEngagement(o, sale) PROVE FALSE
    <3>1. o # c
      BY <1>1, <2>2 DEF EndEngagement
    <3> QED
      BY <1>1, <2>2, <3>1 DEF EndEngagement, LogInv
  <2>3. ASSUME NEW p \in Person, DeleteUser(p) PROVE FALSE
    BY <1>1, <2>3 DEF DeleteUser, Kept
  <2>4. ASSUME log' = log PROVE FALSE
    BY <1>1, <2>4
  <2> QED
    BY <2>1, <2>2, <2>3, <2>4
    DEF LogNext, logvars, Begin, AskLens, AskSerial, Register, AskEmail, BumpUsage, Assign,
        SwitchPrivacy, Disable, NextDay
<1>3. UnderWay(c) /\ call[c] \in CallInHand /\ Sound(call[c]) /\ call[c].step = "write"
  BY <1>2, InHand DEF WriteRow
<1>4. log'[c] = RowOf(c)
  BY <1>1, <1>2 DEF WriteRow, LogInv
<1> QED
  BY <1>2, <1>3, <1>4

\* What a row says, by the kind of its call.
LEMMA RowSays ==
  ASSUME NEW c \in Call, call[c] \in CallInHand
  PROVE  /\ call[c].kind = "health" <=> RowOf(c).kind = "health"
         /\ call[c].kind # "health" => RowOf(c).user = call[c].user
         /\ call[c].kind # "health" => RowOf(c).words = KeepsWords(c)
<1>1. call[c].kind \in {"engagement", "voice", "assist", "health"}
  BY DEF CallInHand
<1>2. CASE call[c].kind = "engagement"
  BY <1>2 DEF RowOf, EngagementRow, KeepsWords
<1>3. CASE call[c].kind = "voice"
  BY <1>3 DEF RowOf, VoiceRow
<1>4. CASE call[c].kind = "assist"
  BY <1>4 DEF RowOf, AssistRow, KeepsWords
<1>5. CASE call[c].kind = "health"
  BY <1>5 DEF RowOf, HealthRow
<1> QED
  BY <1>1, <1>2, <1>3, <1>4, <1>5

\* Words and readings go on record only if the store allowed them during the
\* call (record_voice_query of analytics.py, _telemetry_tenant of
\* routes_analytics.py), however often the switch is turned between the
\* statements of the call.
THEOREM Consent == LogSpec => RecordedByConsent
<1>1. LogInv /\ [LogNext]_logvars =>
        [\A c \in Call : Written(c) /\ ~ call[c].allowed =>
           log'[c].kind # "health" /\ ~ log'[c].words]_logvars
  <2> SUFFICES ASSUME LogInv, [LogNext]_logvars, NEW c \in Call, Written(c), ~ call[c].allowed
               PROVE  log'[c].kind # "health" /\ ~ log'[c].words
    OBVIOUS
  <2>1. /\ call[c] \in CallInHand /\ IsAllowed(call[c]) /\ log'[c] = RowOf(c)
    BY OnlyWriteRowWrites DEF Sound
  <2>2. ~ call[c].mayKeep /\ call[c].kind # "health"
    BY <2>1 DEF IsAllowed
  <2>3. ~ KeepsWords(c)
    BY <2>2 DEF KeepsWords
  <2> QED
    BY <2>1, <2>2, <2>3, RowSays
<1> QED
  BY <1>1, LogInitInv, LogStepInv, PTL DEF LogSpec, RecordedByConsent

\* A row names somebody the hardware was assigned to during the call, or the
\* e-mail's owner when nobody was (_associate of routes_analytics.py), whatever
\* is reassigned or deleted between the look-ups.
THEOREM Credit == LogSpec => CreditedToTheWearer
<1>1. LogInv /\ [LogNext]_logvars =>
        [\A c \in Call : Written(c) /\ log'[c].kind # "health" =>
           LET who == log'[c].user
           IN \/ who # Nobody /\ who \in call[c].lensers \cup call[c].wearers
              \/ Nobody \in call[c].lensers /\ Nobody \in call[c].wearers
                 /\ who \in {call[c].email, Nobody}]_logvars
  <2> SUFFICES ASSUME LogInv, [LogNext]_logvars, NEW c \in Call, Written(c),
                      log'[c].kind # "health"
               PROVE  LET who == log'[c].user
                      IN \/ who # Nobody /\ who \in call[c].lensers \cup call[c].wearers
                         \/ Nobody \in call[c].lensers /\ Nobody \in call[c].wearers
                            /\ who \in {call[c].email, Nobody}
    OBVIOUS
  <2>1. /\ call[c] \in CallInHand /\ UserIsFounded(call[c]) /\ call[c].step = "write"
        /\ log'[c] = RowOf(c)
    BY OnlyWriteRowWrites DEF Sound
  <2>2. log'[c].user = call[c].user
    BY <2>1, RowSays
  <2> QED
    BY <2>1, <2>2 DEF UserIsFounded
<1> QED
  BY <1>1, LogInitInv, LogStepInv, PTL DEF LogSpec, CreditedToTheWearer

-----------------------------------------------------------------------------
(* The rows of the log, and what is billed of them *)

\* A reading is of a serial; an assist came through no lens, and is written once
\* its helper is known.
Proper(q) ==
  /\ q.kind = "health" => q.serial \in Serial
  /\ q.kind = "assist" => q.lens = None /\ (q.step = "write" => q.user # Nobody)

\* A row of a billed kind whose call is over.
Settled(c) == log[c] # None /\ log[c].kind \in Billed /\ call[c].step = "done"
AllSettled == {c \in Call : Settled(c)}

RowsInv ==
  /\ today \in 0..MaxDay /\ usage \in [0..MaxDay -> Nat]
  /\ log \in [Call -> {None} \cup LoggedRow]
  /\ \A c \in Call : log[c] # None => call[c] # None /\ call[c].step \in {"bump", "done"}
  /\ \A c \in Call : call[c] # None /\ call[c].step = "bump" => log[c] # None /\ log[c].kind \in Billed
  /\ \A c \in Call : UnderWay(c) => Proper(call[c])

BillInv ==
  IsFiniteSet(AllSettled) /\ IsFiniteSet(Tally) /\ Cardinality(Tally) <= Cardinality(AllSettled)

\* Nothing is counted and no billed call ends.
LEMMA BillStands ==
  ASSUME BillInv, usage' = usage, \A o \in Call : Settled(o)' <=> Settled(o)
  PROVE  BillInv'
<1>1. AllSettled' = AllSettled
  BY DEF AllSettled
<1>2. Tally' = Tally
  BY DEF Tally
<1> QED
  BY <1>1, <1>2 DEF BillInv

\* Calls go on that have written no row, and none is left with a count to make.
LEMMA RowsRest ==
  ASSUME LogInv', RowsInv, BillInv, log' = log, usage' = usage, today' \in 0..MaxDay,
         \A o \in Call : call'[o] # call[o] =>
            /\ log[o] = None /\ call'[o].step # "bump"
            /\ UnderWay(o)' => Proper(call'[o])
  PROVE  RowsInv' /\ BillInv'
<1>1. /\ today' \in 0..MaxDay /\ usage' \in [0..MaxDay -> Nat]
      /\ log' \in [Call -> {None} \cup LoggedRow]
  BY DEF RowsInv
<1>2. ASSUME NEW o \in Call
      PROVE  /\ log'[o] # None => call'[o] # None /\ call'[o].step \in {"bump", "done"}
             /\ call'[o] # None /\ call'[o].step = "bump" => log'[o] # None /\ log'[o].kind \in Billed
             /\ UnderWay(o)' => Proper(call'[o])
  <2>1. CASE call'[o] = call[o]
    BY <2>1 DEF RowsInv, UnderWay
  <2>2. CASE call'[o] # call[o]
    BY <2>2
  <2> QED
    BY <2>1, <2>2
<1>3. RowsInv'
  BY <1>1, <1>2 DEF RowsInv
<1>4. \A o \in Call : Settled(o)' <=> Settled(o)
  BY DEF Settled
<1> QED
  BY <1>3, <1>4, BillStands

\* A call that is under way has no row.
LEMMA NoRowYet ==
  ASSUME RowsInv, NEW c \in Call, UnderWay(c) \/ call[c] = None
  PROVE  log[c] = None
BY DEF RowsInv, UnderWay

\* A call finds out more of who it is about, and stays what it is.
LEMMA LookUpKeeps ==
  ASSUME LogInv, NEW c \in Call, Proper(call[c]),
         AskLens(c) \/ AskSerial(c) \/ Register(c) \/ AskEmail(c)
  PROVE  /\ \A o \in Call : o # c => call'[o] = call[o]
         /\ UnderWay(c) /\ call'[c].step # "bump"
         /\ call'[c].step # "done" => Proper(call'[c])
<1>1. UnderWay(c) /\ call[c] \in CallInHand /\ (call[c].step = "lens" => call[c].lens \in Serial)
  BY InHand DEF Sound, UserIsFounded, AskLens, AskSerial, Register, AskEmail
<1>2. CASE AskLens(c)
  <2> DEFINE p == Wearer(call[c].lens)
             step == IF p # Nobody THEN "write"
                     ELSE IF call[c].serial # None THEN "serial" ELSE "email"
  <2>1. call' = [call EXCEPT ![c].user = p, ![c].step = step] /\ step # "bump"
    BY <1>2 DEF AskLens
  <2>2. call[c].kind # "assist"
    BY <1>1, <1>2, LogAssumption DEF AskLens, Proper
  <2> HIDE DEF p, step
  <2> QED
    BY <1>1, <2>1, <2>2 DEF CallInHand, LogInv, Proper
<1>3. CASE AskSerial(c)
  <2> DEFINE s == call[c].serial
             step == IF FallsThrough(c, worn[s]) THEN "email" ELSE "write"
  <2>1. \/ call' = [call EXCEPT ![c].step = "register"]
        \/ /\ call' = [call EXCEPT ![c].user = worn[s], ![c].step = step] /\ step # "bump"
           /\ step = "write" => worn[s] # Nobody
    BY <1>3 DEF AskSerial, Step, FallsThrough
  <2> HIDE DEF s, step
  <2> QED
    BY <1>1, <2>1 DEF CallInHand, LogInv, Proper
<1>4. CASE Register(c)
  <2>1. call' = [call EXCEPT ![c].step = "email"]
    BY <1>4 DEF Register, Step
  <2> QED
    BY <1>1, <2>1 DEF CallInHand, LogInv, Proper
<1>5. CASE AskEmail(c)
  <2> DEFINE p == call[c].email
             user == IF p # None THEN IF staff[p] # "gone" THEN p ELSE Nobody ELSE Nobody
  <2>1. \/ call' = [call EXCEPT ![c] = [step |-> "done"]]
        \/ /\ call' = [call EXCEPT ![c].user = user, ![c].step = "write"]
           /\ call[c].kind = "assist" => user # Nobody
    BY <1>5 DEF AskEmail, Done, Rest
  <2> HIDE DEF user
  <2> QED
    BY <1>1, <2>1 DEF CallInHand, LogInv, Proper
<1> QED
  BY <1>2, <1>3, <1>4, <1>5

LEMMA LookUpRows ==
  ASSUME LogInv, LogInv', RowsInv, BillInv, NEW c \in Call,
         AskLens(c) \/ AskSerial(c) \/ Register(c) \/ AskEmail(c)
  PROVE  RowsInv' /\ BillInv'
<1> Proper(call[c])
  BY InHand DEF AskLens, AskSerial, Register, AskEmail, RowsInv
<1>1. log[c] = None
  BY LookUpKeeps, NoRowYet
<1>2. today' \in 0..MaxDay /\ log' = log /\ usage' = usage
  BY DEF AskLens, AskSerial, Register, AskEmail, RowsInv
<1>3. UnderWay(c)' => Proper(call'[c])
  BY LookUpKeeps DEF UnderWay
<1> QED
  BY <1>1, <1>2, <1>3, LookUpKeeps, RowsRest

\* A call begins.
LEMMA BeginRows ==
  ASSUME LogInv, LogInv', RowsInv, BillInv, NEW c \in Call, NEW asked \in IngestRequest, Begin(c, asked)
  PROVE  RowsInv' /\ BillInv'
<1>1. log[c] = None
  BY NoRowYet DEF Begin
<1>2. today' \in 0..MaxDay /\ log' = log /\ usage' = usage
  BY DEF Begin, RowsInv
<1>3. \A o \in Call : o # c => call'[o] = call[o]
  BY DEF Begin, Done, Rest, LogInv
<1>4. \/ call'[c] = [step |-> "done"]
      \/ call'[c].step # "bump" /\ call'[c].kind = asked.kind /\ call'[c].serial = asked.serial
         /\ call'[c].lens = asked.lens /\ call'[c].step # "write"
  BY DEF Begin, Done, Rest, LogInv
<1>5. /\ asked.kind = "health" => asked.serial \in Serial
      /\ asked.kind = "assist" => asked.lens = None
  BY DEF IngestRequest, EngagementStart, VoiceRecord, AssistRecord, DeviceHealth
<1>6. /\ call'[c].step # "bump"
      /\ UnderWay(c)' => Proper(call'[c])
  BY <1>4, <1>5 DEF UnderWay, Proper
<1> QED
  BY <1>1, <1>2, <1>3, <1>6, RowsRest

\* The Console changes something, and the calls under way learn of it.
LEMMA ConsoleRows ==
  ASSUME LogInv, LogInv', RowsInv, BillInv,
         \/ \E s \in Serial, p \in Person \cup {Nobody} : Assign(s, p)
         \/ SwitchPrivacy \/ \E p \in Person : Disable(p)
         \/ NextDay
  PROVE  RowsInv' /\ BillInv'
<1>1. log' = log /\ usage' = usage
  BY DEF Assign, SwitchPrivacy, Disable, NextDay
<1>2. today' \in 0..MaxDay
  <2>1. today \in 0..MaxDay /\ MaxDay \in Nat
    BY LogAssumption DEF RowsInv
  <2>2. today' = today \/ (today < MaxDay /\ today' = today + 1)
    BY DEF Assign, SwitchPrivacy, Disable, NextDay
  <2> QED
    BY <2>1, <2>2
<1>3. ASSUME NEW o \in Call, call'[o] # call[o]
      PROVE  /\ log[o] = None /\ call'[o].step # "bump"
             /\ UnderWay(o)' => Proper(call'[o])
  <2>1. UnderWay(o)
    BY <1>3 DEF Assign, SwitchPrivacy, Disable, NextDay
  <2>2. call[o] \in CallInHand /\ Proper(call[o])
    BY <2>1 DEF LogInv, RowsInv
  <2>3. call'[o].step = call[o].step /\ Proper(call'[o])
    <3>1. ASSUME NEW s \in Serial, NEW p \in Person \cup {Nobody}, Assign(s, p)
          PROVE  call'[o].step = call[o].step /\ Proper(call'[o])
      <4> DEFINE w == IF call[o].serial = s THEN call[o].wearers \cup {p} ELSE call[o].wearers
                 l == IF call[o].lens = s THEN call[o].lensers \cup {p} ELSE call[o].lensers
      <4>1. call'[o] = [call[o] EXCEPT !.wearers = w, !.lensers = l]
        BY <2>1, <3>1 DEF Assign
      <4> HIDE DEF w, l
      <4> QED
        BY <2>2, <4>1 DEF CallInHand, Proper
    <3>2. CASE SwitchPrivacy
      <4> DEFINE a == call[o].allowed \/ ~ privacy
      <4>1. call'[o] = [call[o] EXCEPT !.allowed = a]
        BY <2>1, <3>2 DEF SwitchPrivacy
      <4> HIDE DEF a
      <4> QED
        BY <2>2, <4>1 DEF CallInHand, Proper
    <3> QED
      BY <1>3, <3>1, <3>2 DEF Disable, NextDay
  <2> QED
    BY <2>1, <2>3, NoRowYet DEF UnderWay
<1> QED
  BY <1>1, <1>2, <1>3, RowsRest

\* The row a call writes.
LEMMA RowIs ==
  ASSUME RowsInv, NEW c \in Call, call[c] \in CallInHand,
         Proper(call[c]), call[c].step = "write"
  PROVE  RowOf(c) \in LoggedRow /\ RowOf(c).kind = call[c].kind /\ RowOf(c) # None
<1>1. call[c].kind \in {"engagement", "voice", "assist", "health"}
  BY DEF CallInHand
<1>2. /\ call[c].user \in Opt(Person) /\ today \in 0..MaxDay /\ KeepsWords(c) \in BOOLEAN
      /\ call[c].serial \in Opt(Serial) /\ call[c].stamp \in Opt(Stamp) /\ 0 \in Nat
      /\ Nobody \in Opt(Person)
  BY DEF CallInHand, RowsInv, KeepsWords, Opt, Nobody
<1>3. CASE call[c].kind = "engagement"
  <2>1. RowOf(c) = EngagementRow(c)
    BY <1>3 DEF RowOf
  <2>2. EngagementRow(c) \in [kind : {"engagement"}, user : Opt(Person), day : 0..MaxDay, words : BOOLEAN, open : BOOLEAN, sale : Nat]
    BY <1>2, <1>3 DEF EngagementRow
  <2>3. EngagementRow(c).kind = "engagement"
    BY DEF EngagementRow
  <2> QED
    BY <1>3, <2>1, <2>2, <2>3, NoLogAssumption DEF LoggedRow
<1>4. CASE call[c].kind = "voice"
  <2>1. RowOf(c) = VoiceRow(c)
    BY <1>4 DEF RowOf
  <2>2. VoiceRow(c) \in [kind : {"voice"}, user : Opt(Person), day : 0..MaxDay, words : BOOLEAN]
    BY <1>2, <1>4 DEF VoiceRow
  <2>3. VoiceRow(c).kind = "voice"
    BY DEF VoiceRow
  <2> QED
    BY <1>4, <2>1, <2>2, <2>3, NoLogAssumption DEF LoggedRow
<1>5. CASE call[c].kind = "assist"
  <2>1. RowOf(c) = AssistRow(c)
    BY <1>5 DEF RowOf
  <2>2. call[c].user \in Person
    BY <1>2, <1>5 DEF Proper, Opt, Nobody
  <2>3. AssistRow(c) \in [kind : {"assist"}, user : Person, day : 0..MaxDay, words : {FALSE}]
    BY <1>2, <2>2 DEF AssistRow
  <2>4. AssistRow(c).kind = "assist"
    BY DEF AssistRow
  <2> QED
    BY <1>5, <2>1, <2>3, <2>4, NoLogAssumption DEF LoggedRow
<1>6. CASE call[c].kind = "health"
  <2>1. RowOf(c) = HealthRow(c)
    BY <1>6 DEF RowOf
  <2>2. HealthRow(c) \in [kind : {"health"}, user : {None}, day : 0..MaxDay, words : {FALSE},
                         serial : Serial, stamp : Opt(Stamp)]
    BY <1>2, <1>6 DEF HealthRow, Nobody, Proper
  <2>3. HealthRow(c).kind = "health"
    BY DEF HealthRow
  <2> QED
    BY <1>6, <2>1, <2>2, <2>3, NoLogAssumption DEF LoggedRow
<1> QED
  BY <1>1, <1>3, <1>4, <1>5, <1>6

\* The row is written, or refused by the database.
LEMMA WriteRowRows ==
  ASSUME LogInv, RowsInv, BillInv, NEW c \in Call, WriteRow(c)
  PROVE  RowsInv' /\ BillInv'
<1>1. UnderWay(c) /\ call[c] \in CallInHand /\ log[c] = None /\ call[c].step = "write"
  BY InHand, NoRowYet DEF WriteRow
<1>2. /\ today' \in 0..MaxDay /\ usage' \in [0..MaxDay -> Nat] /\ usage' = usage
  BY DEF WriteRow, RowsInv
<1>3. \A o \in Call : o # c => call'[o] = call[o] /\ log'[o] = log[o]
  BY DEF WriteRow, Done, Rest, LogInv
<1>4. \/ log'[c] = None /\ call'[c] = [step |-> "done"]
      \/ log'[c] = RowOf(c) /\ call'[c] = [step |-> IF call[c].kind \in Billed THEN "bump" ELSE "done"]
  BY <1>1 DEF WriteRow, Done, Rest, LogInv
<1>5. RowOf(c) \in LoggedRow /\ RowOf(c).kind = call[c].kind /\ RowOf(c) # None
  BY <1>1, RowIs DEF RowsInv
<1>6. log' \in [Call -> {None} \cup LoggedRow]
  <2>1. log' = log \/ log' = [log EXCEPT ![c] = RowOf(c)]
    BY DEF WriteRow
  <2> QED
    BY <1>5, <2>1 DEF RowsInv
<1>7. /\ call'[c].step \in {"bump", "done"} /\ call'[c] # None
      /\ call'[c].step = "bump" => log'[c] # None /\ log'[c].kind \in Billed
      /\ ~ (log'[c] # None /\ log'[c].kind \in Billed /\ call'[c].step = "done")
  <2>1. [step |-> "done"] # None /\ [step |-> "bump"] # None
    BY NoLogAssumption
  <2>2. CASE log'[c] = None /\ call'[c] = [step |-> "done"]
    BY <2>1, <2>2
  <2>3. CASE log'[c] = RowOf(c) /\ call'[c] = [step |-> "bump"] /\ call[c].kind \in Billed
    BY <1>5, <2>1, <2>3
  <2>4. CASE log'[c] = RowOf(c) /\ call'[c] = [step |-> "done"] /\ call[c].kind \notin Billed
    BY <1>5, <2>1, <2>4
  <2> QED
    BY <1>4, <2>2, <2>3, <2>4
<1>8. ASSUME NEW o \in Call
      PROVE  /\ log'[o] # None => call'[o] # None /\ call'[o].step \in {"bump", "done"}
             /\ call'[o] # None /\ call'[o].step = "bump" => log'[o] # None /\ log'[o].kind \in Billed
             /\ UnderWay(o)' => Proper(call'[o])
             /\ Settled(o)' <=> Settled(o)
  <2>1. CASE o = c
    BY <1>1, <1>7, <2>1 DEF Settled, UnderWay
  <2>2. CASE o # c
    BY <1>3, <2>2 DEF Settled, RowsInv, UnderWay
  <2> QED
    BY <2>1, <2>2
<1>9. RowsInv'
  BY <1>2, <1>6, <1>8 DEF RowsInv
<1> QED
  BY <1>2, <1>8, <1>9, BillStands

\* Rows of a billed kind stay, and keep their kind; none is written.
LEMMA RowsStay ==
  ASSUME RowsInv, BillInv, UNCHANGED <<today, usage>>,
         log' \in [Call -> {None} \cup LoggedRow],
         \A o \in Call :
            /\ log'[o] # None => log[o] # None /\ log'[o].kind = log[o].kind
            /\ log[o] # None /\ log[o].kind \in Billed => log'[o] # None
            /\ \/ call'[o] = call[o]
               \/ /\ UnderWay(o) /\ call'[o].step = call[o].step
                  /\ Proper(call'[o])
  PROVE  RowsInv' /\ BillInv'
<1>1. today' \in 0..MaxDay /\ usage' \in [0..MaxDay -> Nat]
  BY DEF RowsInv
<1>2. ASSUME NEW o \in Call
      PROVE  /\ log'[o] # None => call'[o] # None /\ call'[o].step \in {"bump", "done"}
             /\ call'[o] # None /\ call'[o].step = "bump" => log'[o] # None /\ log'[o].kind \in Billed
             /\ UnderWay(o)' => Proper(call'[o])
             /\ Settled(o)' <=> Settled(o)
  <2>1. CASE call'[o] = call[o]
    BY <2>1 DEF Settled, RowsInv, UnderWay
  <2>2. CASE UnderWay(o) /\ call'[o].step = call[o].step
             /\ Proper(call'[o])
    BY <2>2, NoRowYet DEF Settled, RowsInv, UnderWay
  <2> QED
    BY <2>1, <2>2
<1>3. RowsInv'
  BY <1>1, <1>2 DEF RowsInv
<1> QED
  BY <1>2, <1>3, BillStands

\* The greater of two amounts is one of them.
LEMMA MaxOfTwo == ASSUME NEW m \in Nat, NEW n \in Nat PROVE Max({m, n}) \in Nat
<1>1. \E x \in {m, n} : \A y \in {m, n} : x >= y
  OBVIOUS
<1>2. Max({m, n}) \in {m, n}
  BY <1>1 DEF Max
<1> QED
  BY <1>2

\* An engagement ends.
LEMMA EndRows ==
  ASSUME LogInv, RowsInv, BillInv, NEW e \in Call, NEW sale \in Sale, EndEngagement(e, sale)
  PROVE  RowsInv' /\ BillInv'
<1> DEFINE Open == [kind : {"engagement"}, user : Opt(Person), day : 0..MaxDay, words : BOOLEAN,
                    open : BOOLEAN, sale : Nat]
           most == Max({log[e].sale, sale})
           closed == [log[e] EXCEPT !.open = FALSE, !.sale = most]
<1>1. log[e] \in Open /\ log[e].kind = "engagement"
  BY DEF EndEngagement, RowsInv, LoggedRow
<1>2. most \in Nat
  BY <1>1, MaxOfTwo, LogAssumption
<1>3. log' = [log EXCEPT ![e] = closed]
  BY <1>1 DEF EndEngagement, RowsInv
<1> HIDE DEF most
<1>4. closed \in Open /\ closed.kind = log[e].kind
  BY <1>1, <1>2
<1>5. closed \in LoggedRow
  BY <1>4 DEF LoggedRow
<1> HIDE DEF closed
<1>6. log' \in [Call -> {None} \cup LoggedRow]
  BY <1>3, <1>5 DEF RowsInv
<1>7. ASSUME NEW o \in Call
      PROVE  /\ log'[o] # None => log[o] # None /\ log'[o].kind = log[o].kind
             /\ log[o] # None /\ log[o].kind \in Billed => log'[o] # None
  <2>1. CASE o = e
    <3>1. log'[e] = closed
      BY <1>3 DEF RowsInv
    <3>2. closed # None
      BY <1>5, NoLogAssumption
    <3>3. log[e] # None
      BY DEF EndEngagement
    <3> QED
      BY <1>4, <2>1, <3>1, <3>2, <3>3
  <2>2. CASE o # e
    <3>1. log'[o] = log[o]
      BY <1>3, <2>2 DEF RowsInv
    <3> QED
      BY <3>1
  <2> QED
    BY <2>1, <2>2
<1> QED
  BY <1>6, <1>7, RowsStay DEF EndEngagement

\* Somebody is deleted: what is billed stays, without the name.
LEMMA DeleteRows ==
  ASSUME LogInv, RowsInv, BillInv, NEW p \in Person, DeleteUser(p)
  PROVE  RowsInv' /\ BillInv'
<1>1. ASSUME NEW o \in Call
      PROVE  /\ log'[o] \in {None} \cup LoggedRow
             /\ log'[o] # None => log[o] # None /\ log'[o].kind = log[o].kind
             /\ log[o] # None /\ log[o].kind \in Billed => log'[o] # None
  <2> DEFINE row == log[o]
             bare == [row EXCEPT !.user = Nobody]
  <2>1. log'[o] = Kept(p, row)
    BY DEF DeleteUser
  <2>2. row \in {None} \cup LoggedRow
    BY DEF RowsInv
  <2>3. CASE log'[o] \in {None, row} /\ (row.kind = "assist" \/ log'[o] = row)
    BY <2>2, <2>3 DEF Billed
  <2>4. CASE row # None /\ row.kind # "assist" /\ log'[o] = bare
    <3>1. row \in LoggedRow
      BY <2>2, <2>4
    <3>2. Nobody \in Opt(Person) /\ Nobody \in {None}
      BY DEF Nobody, Opt
    <3>3. bare \in LoggedRow /\ bare.kind = row.kind
      <4>1. CASE row \in [kind : {"engagement"}, user : Opt(Person), day : 0..MaxDay,
                           words : BOOLEAN, open : BOOLEAN, sale : Nat]
        BY <3>2, <4>1 DEF LoggedRow
      <4>2. CASE row \in [kind : {"voice"}, user : Opt(Person), day : 0..MaxDay, words : BOOLEAN]
        BY <3>2, <4>2 DEF LoggedRow
      <4>3. CASE row \in [kind : {"health"}, user : {None}, day : 0..MaxDay, words : {FALSE},
                           serial : Serial, stamp : Opt(Stamp)]
        BY <3>2, <4>3 DEF LoggedRow
      <4> QED
        BY <2>4, <3>1, <4>1, <4>2, <4>3 DEF LoggedRow
    <3> QED
      BY <2>4, <3>3, NoLogAssumption
  <2> QED
    BY <2>1, <2>3, <2>4 DEF Kept
<1>2. log' = [o \in Call |-> log'[o]] /\ today' = today /\ usage' = usage
  BY DEF DeleteUser
<1>3. log' \in [Call -> {None} \cup LoggedRow]
  BY <1>1, <1>2
<1>4. ASSUME NEW o \in Call, call'[o] # call[o]
      PROVE  /\ UnderWay(o) /\ call'[o].step = call[o].step
             /\ Proper(call'[o])
  <2>1. UnderWay(o)
    BY <1>4 DEF DeleteUser
  <2>2. call[o] \in CallInHand /\ Proper(call[o])
    BY <2>1 DEF LogInv, RowsInv
  <2> DEFINE w == IF p \in call[o].wearers THEN call[o].wearers \cup {Nobody} ELSE call[o].wearers
             l == IF p \in call[o].lensers THEN call[o].lensers \cup {Nobody} ELSE call[o].lensers
  <2>3. call'[o] = [call[o] EXCEPT !.wearers = w, !.lensers = l]
    BY <2>1 DEF DeleteUser
  <2> HIDE DEF w, l
  <2> QED
    BY <2>1, <2>2, <2>3 DEF CallInHand, Proper
<1> QED
  BY <1>1, <1>2, <1>3, <1>4, RowsStay

\* The count of a billed call, or the failure that loses it: one row more is
\* settled, and one more is counted at most.
LEMMA BumpRows ==
  ASSUME LogInv, RowsInv, BillInv, NEW c \in Call, BumpUsage(c)
  PROVE  RowsInv' /\ BillInv'
<1>1. /\ log[c] # None /\ log[c].kind \in Billed /\ call[c].step = "bump"
      /\ log' = log /\ today' = today /\ today \in 0..MaxDay
  BY DEF BumpUsage, RowsInv
<1>2. call'[c] = [step |-> "done"] /\ call'[c] # None /\ \A o \in Call : o # c => call'[o] = call[o]
  BY NoLogAssumption DEF BumpUsage, Done, Rest, LogInv
<1> DEFINE n == usage[today]
<1>3. n \in Nat
  BY <1>1 DEF RowsInv
<1>4. \/ usage' = [usage EXCEPT ![today] = n + 1]
      \/ usage' = usage
  BY DEF BumpUsage, CountsIn
<1>5. usage' \in [0..MaxDay -> Nat]
  BY <1>3, <1>4 DEF RowsInv
<1>6. RowsInv'
  <2>1. log' \in [Call -> {None} \cup LoggedRow] /\ today' \in 0..MaxDay
    BY <1>1 DEF RowsInv
  <2>2. ASSUME NEW o \in Call
        PROVE  /\ log'[o] # None => call'[o] # None /\ call'[o].step \in {"bump", "done"}
               /\ call'[o] # None /\ call'[o].step = "bump" => log'[o] # None /\ log'[o].kind \in Billed
               /\ UnderWay(o)' => Proper(call'[o])
    BY <1>1, <1>2 DEF RowsInv, UnderWay
  <2> QED
    BY <1>5, <2>1, <2>2 DEF RowsInv
<1>7. AllSettled' = AllSettled \cup {c} /\ c \notin AllSettled
  <2>1. ~ Settled(c) /\ Settled(c)' /\ \A o \in Call : o # c => (Settled(o)' <=> Settled(o))
    BY <1>1, <1>2 DEF Settled
  <2> QED
    BY <2>1 DEF AllSettled
<1>8. IsFiniteSet(AllSettled') /\ Cardinality(AllSettled') = Cardinality(AllSettled) + 1
  BY <1>7, FS_AddElement DEF BillInv
<1>9. Cardinality(AllSettled) \in Nat /\ Cardinality(Tally) \in Nat
  BY FS_CardinalityType DEF BillInv
<1>10. CASE usage' = usage
  <2>1. Tally' = Tally
    BY <1>10 DEF Tally
  <2> QED
    BY <1>6, <1>8, <1>9, <2>1 DEF BillInv
<1>11. CASE usage' = [usage EXCEPT ![today] = n + 1]
  <2> DEFINE x == <<today, n + 1>>
  <2>1. Tally' = Tally \cup {x}
    <3>1. \A t : t \in Tally' <=> \E d \in 0..MaxDay : \E i \in 1..usage'[d] : t = <<d, i>>
      BY DEF Tally
    <3>2. \A t : t \in Tally <=> \E d \in 0..MaxDay : \E i \in 1..usage[d] : t = <<d, i>>
      BY DEF Tally
    <3>3. usage'[today] = n + 1 /\ \A d \in 0..MaxDay : d # today => usage'[d] = usage[d]
      BY <1>1, <1>11 DEF RowsInv
    <3>4. \A i : i \in 1..(n + 1) <=> i \in 1..n \/ i = n + 1
      BY <1>3
    <3> HIDE DEF n
    <3>5. \A t : t \in Tally' <=> t \in Tally \/ t = x
      BY <1>1, <3>1, <3>2, <3>3, <3>4 DEF n
    <3> QED
      BY <3>5
  <2>2. IsFiniteSet(Tally') /\ Cardinality(Tally') <= Cardinality(Tally) + 1
    <3> HIDE DEF x
    <3>1. /\ IsFiniteSet(Tally \cup {x})
          /\ Cardinality(Tally \cup {x}) = IF x \in Tally THEN Cardinality(Tally) ELSE Cardinality(Tally) + 1
      BY FS_AddElement DEF BillInv
    <3> QED
      BY <1>9, <2>1, <3>1
  <2>3. Cardinality(Tally') \in Nat
    BY <2>2, FS_CardinalityType
  <2>4. Cardinality(Tally') <= Cardinality(AllSettled')
    BY <1>8, <1>9, <2>2, <2>3 DEF BillInv
  <2> QED
    BY <1>6, <1>8, <2>2, <2>4 DEF BillInv
<1> QED
  BY <1>4, <1>10, <1>11

\* Nothing is counted at the beginning.
LEMMA RowsInit == LogInit => RowsInv /\ BillInv
<1> SUFFICES ASSUME LogInit PROVE RowsInv /\ BillInv
  OBVIOUS
<1>1. RowsInv
  BY LogAssumption DEF LogInit, RowsInv, UnderWay
<1>2. AllSettled = {}
  BY DEF LogInit, AllSettled, Settled
<1>3. Tally = {}
  BY DEF LogInit, Tally
<1>4. IsFiniteSet({}) /\ Cardinality({}) = 0
  BY FS_EmptySet
<1> QED
  BY <1>1, <1>2, <1>3, <1>4 DEF BillInv

\* Every step keeps the rows and what is billed.
LEMMA RowsStep == LogInv /\ LogInv' /\ RowsInv /\ BillInv /\ [LogNext]_logvars => RowsInv' /\ BillInv'
<1> SUFFICES ASSUME LogInv, LogInv', RowsInv, BillInv, [LogNext]_logvars PROVE RowsInv' /\ BillInv'
  OBVIOUS
<1>1. CASE UNCHANGED logvars
  <2>1. today' \in 0..MaxDay /\ log' = log /\ usage' = usage /\ call' = call
    BY <1>1 DEF logvars, RowsInv
  <2> QED
    BY <2>1, RowsRest
<1> QED
  BY <1>1, BeginRows, LookUpRows, WriteRowRows, BumpRows, EndRows, ConsoleRows, DeleteRows DEF LogNext

\* Every row is of its kind, of a call that has written it, and the daily usage
\* never bills what was not recorded (_bump_usage of analytics.py), whatever
\* fails or is deleted between the row and its count.
THEOREM LogTyped == LogSpec => []LogTypeOK
<1>1. LogInv /\ RowsInv /\ BillInv => LogTypeOK
  <2> SUFFICES ASSUME LogInv, RowsInv, BillInv PROVE LogTypeOK
    OBVIOUS
  <2>1. {c \in Rows("engagement", 0..MaxDay) \cup Rows("voice", 0..MaxDay) : call[c].step = "done"} = AllSettled
    <3>1. \A c \in Call : log[c] # None => log[c].day \in 0..MaxDay
      BY DEF RowsInv, LoggedRow
    <3> QED
      BY <3>1 DEF Rows, AllSettled, Settled, Billed
  <2>2. \A c \in Call : call[c] # None =>
          call[c].step \in {"lens", "serial", "register", "email", "write", "bump", "done"}
    BY DEF LogInv, CallInHand, CallBehind
  <2>3. log \in [Call -> LoggedRow \cup {None}] /\ today \in 0..MaxDay
        /\ \A c \in Call : log[c] # None => call[c].step \in {"bump", "done"}
    BY DEF RowsInv
  <2> QED
    BY <2>1, <2>2, <2>3 DEF LogTypeOK, LogInv, BillInv
<1> QED
  BY <1>1, LogInitInv, LogStepInv, RowsInit, RowsStep, PTL DEF LogSpec

-----------------------------------------------------------------------------
(* The pipeline *)

\* The requests under way.
WriterRecord ==
  {Off} \cup [at: {"mirror"}, email: Email]
        \cup [at: {"touch"}, lead: Lead, kind: {"email", "note", "deck", "stage"},
              dir: {"in", "out", None}]
        \cup [at: {"stamp"}, lead: Lead]
        \cup [at: {"edit"}, lead: Lead, from: Stage, to: Stage]

\* A request works on a lead that is there, as leads never leave the table.
WorksOn(q) == q.at \in {"touch", "stamp", "edit"} => leads[q.lead] # None

PipeTyped ==
  /\ leads \in [Lead -> LeadRow \cup {None}]
  /\ activities \in [Lead -> Seq(Touch)]
  /\ \A l \in Lead : leads[l] = None => activities[l] = <<>>
  /\ opens \subseteq Email
  /\ writers \in [Writer -> WriterRecord]
  /\ \A w \in Writer : WorksOn(writers[w])
  /\ sweeping # None => sweeping \subseteq Made

\* A lead is being redacted from the moment its words are taken, unless they
\* never were.
Redacting(l) ==
  \/ leads[l] # None /\ leads[l].redacted /\ ~ leads[l].crossed
  \/ sweeping # None /\ l \in sweeping
Wiped(touches) == \A i \in DOMAIN touches : touches[i].words => touches[i].after
SweptAreWiped == \A l \in Lead : Redacting(l) => Wiped(activities[l])
SweptAreNameless == \A l \in Lead : leads[l] # None /\ leads[l].redacted => ~ leads[l].named

\* There is a newest touch of either direction, or none at all: what the
\* definition of Newest chooses.
Going(touches, dir) == {i \in DOMAIN touches : touches[i].dir = dir}
IsNewest(m, places) == m \in places \cup {0} /\ \A j \in places : j <= m
HasNewest(places) == \E m \in places \cup {0} : IsNewest(m, places)
QueueInv ==
  \A l \in Lead : HasNewest(Going(activities[l], "in")) /\ HasNewest(Going(activities[l], "out"))

PipeInv == PipeTyped /\ SweptAreWiped /\ SweptAreNameless /\ QueueInv

\* No row of the table goes.
RowsKept == \A l \in Lead : leads[l] # None => leads'[l] # None

\* Newest is the greatest place, where there is one.
LEMMA NewestIs ==
  ASSUME NEW places \in SUBSET Nat, NEW m, IsNewest(m, places)
  PROVE  Newest(places) = m
<1>1. m \in places \cup {0} /\ \A j \in places : j <= m
  BY DEF IsNewest
<1> DEFINE c == Newest(places)
<1>2. c \in places \cup {0} /\ \A j \in places : j <= c
  BY <1>1 DEF Newest
<1> HIDE DEF c
<1>3. c \in Nat /\ m \in Nat
  BY <1>1, <1>2
<1>4. c <= m /\ m <= c
  BY <1>1, <1>2, <1>3
<1> QED
  BY <1>3, <1>4 DEF c

\* A touch added at the end is the newest of its direction, and leaves the newest
\* of the other as it was.
LEMMA AppendedPlaces ==
  ASSUME NEW touches \in Seq(Touch), NEW t \in Touch, NEW dir
  PROVE  /\ t.dir = dir => IsNewest(Len(touches) + 1, Going(Append(touches, t), dir))
         /\ t.dir # dir => Going(Append(touches, t), dir) = Going(touches, dir)
         /\ Going(touches, dir) \subseteq 1 .. Len(touches)
<1> DEFINE n == Len(touches)
           longer == Append(touches, t)
<1>1. /\ n \in Nat /\ DOMAIN touches = 1 .. n /\ DOMAIN longer = 1 .. (n + 1)
      /\ longer[n + 1] = t /\ \A i \in 1 .. n : longer[i] = touches[i]
  OBVIOUS
<1> HIDE DEF n, longer
<1>2. Going(touches, dir) \subseteq 1 .. n
  BY <1>1 DEF Going
<1>3. ASSUME t.dir = dir PROVE IsNewest(n + 1, Going(longer, dir))
  BY <1>1, <1>3 DEF IsNewest, Going
<1>4. ASSUME t.dir # dir PROVE Going(longer, dir) = Going(touches, dir)
  BY <1>1, <1>4 DEF Going
<1> QED
  BY <1>2, <1>3, <1>4 DEF n, longer

\* Taking the words away leaves everything else.
LEMMA WordlessIs ==
  ASSUME NEW touches \in Seq(Touch)
  PROVE  /\ Wordless(touches) \in Seq(Touch) /\ Wiped(Wordless(touches))
         /\ \A dir : Going(Wordless(touches), dir) = Going(touches, dir)
<1>1. DOMAIN touches = 1 .. Len(touches) /\ Len(touches) \in Nat
  OBVIOUS
<1>2. /\ DOMAIN Wordless(touches) = DOMAIN touches
      /\ \A i \in DOMAIN touches : Wordless(touches)[i] = [touches[i] EXCEPT !.words = FALSE]
  BY DEF Wordless
<1>3. ASSUME NEW i \in DOMAIN touches
      PROVE  /\ Wordless(touches)[i] \in Touch /\ Wordless(touches)[i].words = FALSE
             /\ Wordless(touches)[i].dir = touches[i].dir
  <2>1. touches[i] \in Touch
    BY <1>1
  <2>2. [touches[i] EXCEPT !.words = FALSE] \in Touch
    BY <2>1 DEF Touch
  <2>3. [touches[i] EXCEPT !.words = FALSE].words = FALSE
        /\ [touches[i] EXCEPT !.words = FALSE].dir = touches[i].dir
    BY <2>1 DEF Touch
  <2> QED
    BY <1>2, <2>2, <2>3
<1>4. Wordless(touches) = [i \in 1 .. Len(touches) |-> Wordless(touches)[i]]
  BY <1>1 DEF Wordless
<1>5. Wordless(touches) \in Seq(Touch)
  <2>1. Wordless(touches) \in [1 .. Len(touches) -> Touch]
    BY <1>1, <1>3, <1>4
  <2> QED
    BY <1>1, <2>1
<1> QED
  BY <1>2, <1>3, <1>5 DEF Wiped, Going

\* Selected come and rows change, but stay rows, and none is redacted by that.
RowsGoOn ==
  /\ leads' \in [Lead -> LeadRow \cup {None}]
  /\ \A l \in Lead : leads[l] # None =>
       /\ leads'[l] \in LeadRow /\ leads'[l].redacted = leads[l].redacted
       /\ leads'[l].crossed = leads[l].crossed
       /\ leads[l].redacted => leads'[l].named = leads[l].named
  /\ \A l \in Lead : leads[l] = None => leads'[l] = None \/ ~ leads'[l].redacted

\* A step of a request that writes no touch.
LEMMA RequestStep ==
  ASSUME PipeInv, RowsGoOn, UNCHANGED <<activities, sweeping>>, opens' \subseteq Email,
         writers' \in [Writer -> WriterRecord], (\A w \in Writer : WorksOn(writers[w]))'
  PROVE  PipeInv' /\ RowsKept
<1>1. \A l \in Lead : leads[l] # None => leads'[l] # None
  BY NoRowAssumption DEF RowsGoOn
<1>2. PipeTyped'
  BY <1>1 DEF PipeInv, PipeTyped, RowsGoOn, Made
<1>3. ASSUME NEW l \in Lead PROVE Redacting(l)' => Redacting(l)
  BY DEF Redacting, RowsGoOn
<1>4. SweptAreWiped'
  BY <1>3 DEF PipeInv, SweptAreWiped
<1>5. SweptAreNameless'
  BY DEF PipeInv, SweptAreNameless, RowsGoOn
<1> QED
  BY <1>1, <1>2, <1>4, <1>5 DEF PipeInv, QueueInv, RowsKept

\* A row is written over by one that is redacted when it was, and named the same.
LEMMA RowChange ==
  ASSUME PipeInv, NEW l \in Lead, leads[l] # None, NEW row \in LeadRow,
         leads' = [leads EXCEPT ![l] = row],
         row.redacted = leads[l].redacted, row.crossed = leads[l].crossed,
         row.redacted => row.named = leads[l].named
  PROVE  RowsGoOn
BY NoRowAssumption DEF PipeInv, PipeTyped, RowsGoOn

\* What the steps write over a row of.
LEMMA RowFields ==
  ASSUME NEW row \in LeadRow, NEW to \in Stage, NEW b \in BOOLEAN
  PROVE  /\ [row EXCEPT !.stale = b] \in LeadRow /\ [row EXCEPT !.aged = b] \in LeadRow
         /\ [row EXCEPT !.stage = to, !.stale = b] \in LeadRow
         /\ \A r \in {[row EXCEPT !.stale = b], [row EXCEPT !.aged = b], [row EXCEPT !.stage = to, !.stale = b]} :
              r.redacted = row.redacted /\ r.crossed = row.crossed /\ r.named = row.named
BY DEF LeadRow

\* The requests go on with leads that are still there.
LEMMA WritersWork ==
  ASSUME PipeInv, RowsGoOn, NEW w \in Writer, NEW q \in WriterRecord,
         WorksOn(q)', writers' = [writers EXCEPT ![w] = q]
  PROVE  writers' \in [Writer -> WriterRecord] /\ (\A x \in Writer : WorksOn(writers[x]))'
<1>1. writers' \in [Writer -> WriterRecord]
  BY DEF PipeInv, PipeTyped
<1>2. ASSUME NEW x \in Writer PROVE WorksOn(writers[x])'
  <2>1. CASE x = w
    BY <2>1 DEF PipeInv, PipeTyped, WorksOn
  <2>2. CASE x # w
    <3>1. writers'[x] = writers[x] /\ writers[x] \in WriterRecord /\ WorksOn(writers[x])
      BY <2>2 DEF PipeInv, PipeTyped
    <3>2. writers[x].at \in {"touch", "stamp", "edit"} => writers[x].lead \in Lead
      BY <3>1 DEF WriterRecord, Off
    <3> QED
      BY <3>1, <3>2, NoRowAssumption DEF WorksOn, RowsGoOn
  <2> QED
    BY <2>1, <2>2
<1>3. (\A x \in Writer : WorksOn(writers[x]))'
  BY <1>2
<1> QED
  BY <1>1, <1>3

\* The requests stay, and their leads are still there.
LEMMA WritersStay ==
  ASSUME PipeInv, RowsGoOn, writers' = writers
  PROVE  writers' \in [Writer -> WriterRecord] /\ (\A x \in Writer : WorksOn(writers[x]))'
<1>1. ASSUME NEW x \in Writer PROVE WorksOn(writers[x])'
  <2>1. writers'[x] = writers[x] /\ writers[x] \in WriterRecord /\ WorksOn(writers[x])
    BY DEF PipeInv, PipeTyped
  <2>2. writers[x].at \in {"touch", "stamp", "edit"} => writers[x].lead \in Lead
    BY <2>1 DEF WriterRecord, Off
  <2> QED
    BY <2>1, <2>2, NoRowAssumption DEF WorksOn, RowsGoOn
<1>2. (\A x \in Writer : WorksOn(writers[x]))'
  BY <1>1
<1> QED
  BY <1>2 DEF PipeInv, PipeTyped

\* Every door writes a row that goes on, and leaves a lead.
LEMMA UpsertIs ==
  ASSUME PipeInv, NEW e \in Email, NEW to \in Stage, NEW l \in Lead,
         Upsert(e, to, l)
  PROVE  RowsGoOn /\ leads'[l] # None
<1>1. CASE l \in Current(e) /\ leads' = [leads EXCEPT ![l] = Refreshed(@)]
  <2>1. leads[l] \in LeadRow
    BY <1>1 DEF Current, Made, PipeInv, PipeTyped
  <2> DEFINE row == Refreshed(leads[l])
  <2>2. /\ row \in LeadRow /\ row.redacted = leads[l].redacted
        /\ row.crossed = leads[l].crossed /\ ~ leads[l].redacted
    BY <1>1, <2>1 DEF Refreshed, LeadRow, Current
  <2>3. leads' = [leads EXCEPT ![l] = row] /\ leads[l] # None
    BY <1>1, <2>1, NoRowAssumption
  <2>4. leads'[l] = row
    BY <2>3 DEF PipeInv, PipeTyped
  <2> HIDE DEF row
  <2> QED
    BY <2>2, <2>3, <2>4, RowChange, NoRowAssumption
<1>2. CASE /\ l \notin Made
           /\ leads' = [leads EXCEPT ![l] = [email |-> e, stage |-> to, named |-> TRUE,
                                             redacted |-> FALSE,
                                             aged |-> FALSE, stale |-> FALSE, crossed |-> FALSE]]
  <2> DEFINE row == [email |-> e, stage |-> to, named |-> TRUE, redacted |-> FALSE,
                     aged |-> FALSE, stale |-> FALSE, crossed |-> FALSE]
  <2>1. row \in LeadRow /\ row.redacted = FALSE
    BY DEF LeadRow
  <2>2. leads[l] = None /\ leads' = [leads EXCEPT ![l] = row]
    BY <1>2 DEF Made
  <2> HIDE DEF row
  <2> QED
    BY <2>1, <2>2, NoRowAssumption DEF PipeInv, PipeTyped, RowsGoOn
<1> QED
  BY <1>1, <1>2 DEF Upsert

\* A lead comes in by the site or is typed in.
LEMMA DoorStep ==
  ASSUME PipeInv, NEW e \in Email, NEW to \in Stage,
         \E l \in Lead : Upsert(e, to, l),
         UNCHANGED <<activities, opens, writers, sweeping>>
  PROVE  PipeInv' /\ RowsKept
<1>1. RowsGoOn
  <2>1. PICK l \in Lead : Upsert(e, to, l)
    OBVIOUS
  <2> QED
    BY <2>1, UpsertIs
<1>2. opens' \subseteq Email
  BY DEF PipeInv, PipeTyped
<1> QED
  BY <1>1, <1>2, WritersStay, RequestStep

\* Where no row changes, rows go on.
LEMMA SameRows ==
  ASSUME PipeInv, leads' = leads PROVE RowsGoOn
BY DEF PipeInv, PipeTyped, RowsGoOn

\* A deck is opened.
LEMMA DeckOpenStep ==
  ASSUME PipeInv, NEW w \in Writer, NEW e \in Email, DeckOpen(w, e) PROVE PipeInv' /\ RowsKept
<1> DEFINE q == [at |-> "mirror", email |-> e]
<1>1. RowsGoOn /\ opens' \subseteq Email
  BY SameRows DEF DeckOpen, PipeInv, PipeTyped
<1>2. q \in WriterRecord /\ WorksOn(q)'
  BY DEF WriterRecord, WorksOn
<1>3. writers' = [writers EXCEPT ![w] = q] /\ UNCHANGED <<activities, sweeping>>
  BY DEF DeckOpen
<1> HIDE DEF q
<1> QED
  BY <1>1, <1>2, <1>3, WritersWork, RequestStep

\* The open is mirrored into the pipeline, or fails to be.
LEMMA MirrorStep == ASSUME PipeInv, NEW w \in Writer, Mirror(w) PROVE PipeInv' /\ RowsKept
<1>1. opens' \subseteq Email /\ UNCHANGED <<activities, sweeping>>
  BY DEF Mirror, PipeInv, PipeTyped
<1>2. writers[w].email \in Email
  BY DEF Mirror, PipeInv, PipeTyped, WriterRecord, Off
<1>3. ASSUME NEW l \in Lead, Upsert(writers[w].email, "new", l),
             writers' = [writers EXCEPT ![w] = [at |-> "touch", lead |-> l, kind |-> "deck", dir |-> None]]
      PROVE  PipeInv' /\ RowsKept
  <2> DEFINE q == [at |-> "touch", lead |-> l, kind |-> "deck", dir |-> None]
  <2>1. RowsGoOn /\ leads'[l] # None
    BY <1>2, <1>3, UpsertIs, PipelineAssumption
  <2>2. q \in WriterRecord /\ WorksOn(q)'
    BY <2>1 DEF WriterRecord, WorksOn
  <2>3. writers' = [writers EXCEPT ![w] = q]
    BY <1>3
  <2> HIDE DEF q
  <2> QED
    BY <1>1, <2>1, <2>2, <2>3, WritersWork, RequestStep
<1>4. CASE writers' = [writers EXCEPT ![w] = Off] /\ UNCHANGED leads
  <2>1. RowsGoOn /\ Off \in WriterRecord /\ WorksOn(Off)'
    BY <1>4, SameRows DEF WriterRecord, WorksOn, Off
  <2> QED
    BY <1>1, <1>4, <2>1, WritersWork, RequestStep
<1> QED
  BY <1>3, <1>4 DEF Mirror

\* A touch or an edit is asked for, of a lead that is there.
LEMMA AskStep ==
  ASSUME PipeInv, NEW w \in Writer, NEW q \in WriterRecord, WorksOn(q),
         writers' = [writers EXCEPT ![w] = q],
         UNCHANGED <<leads, activities, opens, sweeping>>
  PROVE  PipeInv' /\ RowsKept
<1>1. RowsGoOn /\ opens' \subseteq Email /\ WorksOn(q)'
  BY SameRows DEF PipeInv, PipeTyped, WorksOn
<1> QED
  BY <1>1, WritersWork, RequestStep

\* A touch goes on record: after the sweep that is under way, if one is.
LEMMA InsertStep == ASSUME PipeInv, NEW w \in Writer, Insert(w) PROVE PipeInv' /\ RowsKept
<1> DEFINE l == writers[w].lead
           t == [kind |-> writers[w].kind, dir |-> writers[w].dir, words |-> TRUE, after |-> InSweep(l)]
<1>1. /\ writers[w] \in WriterRecord /\ writers[w].at = "touch" /\ WorksOn(writers[w])
  BY DEF Insert, PipeInv, PipeTyped
<1>2. /\ l \in Lead /\ leads[l] # None /\ leads[l] \in LeadRow
      /\ writers[w].kind \in {"email", "note", "deck", "stage"} /\ writers[w].dir \in {"in", "out", None}
  BY <1>1 DEF WriterRecord, Off, WorksOn, PipeInv, PipeTyped
<1>3. t \in Touch /\ (Redacting(l) => t.after)
  BY <1>2 DEF Touch, InSweep, Redacting, LeadRow
<1>4. /\ activities' = [activities EXCEPT ![l] = Append(@, t)]
      /\ writers' = [writers EXCEPT ![w] = [at |-> "stamp", lead |-> l]]
      /\ UNCHANGED <<leads, opens, sweeping>>
  BY DEF Insert
<1>9. PICK next \in {[at |-> "stamp", lead |-> l]} : writers' = [writers EXCEPT ![w] = next]
  BY <1>4
<1>10. next \in WriterRecord /\ WorksOn(next)'
  BY <1>2, <1>4, <1>9 DEF WriterRecord, WorksOn
<1> HIDE DEF l, t
<1>5. /\ activities' \in [Lead -> Seq(Touch)]
      /\ activities'[l] = Append(activities[l], t) /\ activities[l] \in Seq(Touch)
      /\ \A x \in Lead : x # l => activities'[x] = activities[x]
  BY <1>2, <1>3, <1>4 DEF PipeInv, PipeTyped
<1>6. PipeTyped'
  <2>1. RowsGoOn
    BY <1>4, SameRows
  <2>2. writers' \in [Writer -> WriterRecord] /\ (\A x \in Writer : WorksOn(writers[x]))'
    BY <1>9, <1>10, <2>1, WritersWork
  <2>3. \A x \in Lead : leads'[x] = None => activities'[x] = <<>>
    BY <1>2, <1>4, <1>5 DEF PipeInv, PipeTyped
  <2> QED
    BY <1>4, <1>5, <2>2, <2>3 DEF PipeInv, PipeTyped, Made
<1>7. SweptAreWiped'
  <2>1. ASSUME NEW x \in Lead, Redacting(x)' PROVE Wiped(activities'[x])
    <3>1. Redacting(x) /\ Wiped(activities[x])
      BY <1>4, <2>1 DEF Redacting, PipeInv, SweptAreWiped
    <3>2. CASE x = l
      <4>1. /\ DOMAIN activities[l] = 1 .. Len(activities[l]) /\ Len(activities[l]) \in Nat
            /\ DOMAIN Append(activities[l], t) = 1 .. (Len(activities[l]) + 1)
            /\ \A i \in DOMAIN activities[l] : Append(activities[l], t)[i] = activities[l][i]
            /\ Append(activities[l], t)[Len(activities[l]) + 1] = t
        BY <1>5
      <4> QED
        BY <1>3, <1>5, <3>1, <3>2, <4>1 DEF Wiped
    <3> QED
      BY <1>5, <3>1, <3>2
  <2>2. \A x \in Lead : (Redacting(x) => Wiped(activities[x]))'
    BY <2>1
  <2> QED
    BY <2>2 DEF SweptAreWiped
<1>8. QueueInv'
  <2>1. ASSUME NEW x \in Lead, NEW dir \in {"in", "out"}
        PROVE  HasNewest(Going(activities'[x], dir))
    <3>1. HasNewest(Going(activities[x], dir))
      BY <2>1 DEF PipeInv, QueueInv
    <3>2. CASE x = l /\ t.dir = dir
      <4>1. IsNewest(Len(activities[l]) + 1, Going(activities'[l], dir))
        BY <1>3, <1>5, <3>2, AppendedPlaces
      <4> QED
        BY <3>2, <4>1 DEF HasNewest, IsNewest
    <3>3. CASE x = l /\ t.dir # dir
      <4>1. Going(activities'[l], dir) = Going(activities[l], dir)
        BY <1>3, <1>5, <3>3, AppendedPlaces
      <4> QED
        BY <3>1, <3>3, <4>1
    <3> QED
      BY <1>5, <3>1, <3>2, <3>3
  <2> QED
    BY <2>1 DEF QueueInv
<1> QED
  BY <1>4, <1>6, <1>7, <1>8 DEF PipeInv, SweptAreNameless, RowsKept

\* updated_at follows the touch, or the service stops before.
LEMMA StampStep == ASSUME PipeInv, NEW w \in Writer, StampLead(w) PROVE PipeInv' /\ RowsKept
<1> DEFINE l == writers[w].lead
           row == [leads[l] EXCEPT !.stale = FALSE]
<1>1. /\ writers[w] \in WriterRecord /\ writers[w].at = "stamp" /\ WorksOn(writers[w])
  BY DEF StampLead, PipeInv, PipeTyped
<1>2. l \in Lead /\ leads[l] # None /\ leads[l] \in LeadRow
  BY <1>1 DEF WriterRecord, Off, WorksOn, PipeInv, PipeTyped
<1>3. /\ opens' \subseteq Email /\ UNCHANGED <<activities, sweeping>>
      /\ writers' = [writers EXCEPT ![w] = Off]
      /\ leads' \in {leads, [leads EXCEPT ![l] = row]}
  BY DEF StampLead, PipeInv, PipeTyped
<1>4. /\ row \in LeadRow /\ row.redacted = leads[l].redacted
      /\ row.crossed = leads[l].crossed /\ row.named = leads[l].named
  BY <1>2 DEF LeadRow
<1> HIDE DEF row, l
<1>5. RowsGoOn
  BY <1>2, <1>3, <1>4, SameRows, RowChange
<1>6. Off \in WriterRecord /\ WorksOn(Off)'
  BY DEF WriterRecord, WorksOn, Off
<1> QED
  BY <1>3, <1>5, <1>6, WritersWork, RequestStep

\* The stage is written, or found to be the same.
LEMMA WriteStep == ASSUME PipeInv, NEW w \in Writer, Write(w) PROVE PipeInv' /\ RowsKept
<1> DEFINE l == writers[w].lead
<1>1. /\ writers[w] \in WriterRecord /\ writers[w].at = "edit" /\ WorksOn(writers[w])
  BY DEF Write, PipeInv, PipeTyped
<1>2. l \in Lead /\ leads[l] # None /\ leads[l] \in LeadRow /\ writers[w].to \in Stage
  BY <1>1 DEF WriterRecord, Off, WorksOn, PipeInv, PipeTyped
<1>3. opens' \subseteq Email /\ UNCHANGED <<activities, sweeping>>
  BY DEF Write, PipeInv, PipeTyped
<1>4. CASE writers[w].to = writers[w].from
  <2> DEFINE row == [leads[l] EXCEPT !.stale = FALSE]
  <2>1. writers' = [writers EXCEPT ![w] = Off] /\ leads' = [leads EXCEPT ![l] = row]
    BY <1>4 DEF Write
  <2>2. /\ row \in LeadRow /\ row.redacted = leads[l].redacted
        /\ row.crossed = leads[l].crossed /\ row.named = leads[l].named
    BY <1>2 DEF LeadRow
  <2> HIDE DEF row
  <2>3. RowsGoOn
    BY <1>2, <2>1, <2>2, RowChange
  <2>4. Off \in WriterRecord /\ WorksOn(Off)'
    BY DEF WriterRecord, WorksOn, Off
  <2> QED
    BY <1>3, <2>1, <2>3, <2>4, WritersWork, RequestStep
<1>5. CASE writers[w].to # writers[w].from
  <2> DEFINE row == [leads[l] EXCEPT !.stage = writers[w].to, !.stale = FALSE]
  <2>1. leads' = [leads EXCEPT ![l] = row]
    BY <1>5 DEF Write
  <2>2. PICK q \in {Logged(w), Off} : writers' = [writers EXCEPT ![w] = q]
    BY <1>5 DEF Write
  <2>3. /\ row \in LeadRow /\ row.redacted = leads[l].redacted
        /\ row.crossed = leads[l].crossed /\ row.named = leads[l].named
    BY <1>2 DEF LeadRow
  <2>6. leads'[l] = row
    BY <1>2, <2>1 DEF PipeInv, PipeTyped
  <2> HIDE DEF row
  <2>4. RowsGoOn
    BY <1>2, <2>1, <2>3, RowChange
  <2>5. q \in WriterRecord /\ WorksOn(q)'
    <3>1. leads'[l] # None
      BY <2>3, <2>6, NoRowAssumption
    <3> QED
      BY <1>2, <3>1 DEF Logged, WriterRecord, WorksOn, Off
  <2> QED
    BY <1>3, <2>2, <2>4, <2>5, WritersWork, RequestStep
<1> QED
  BY <1>4, <1>5

\* A lead comes of age, or has not been touched for long.
LEMMA TimeStep ==
  ASSUME PipeInv, NEW l \in Lead, ComesOfAge(l) \/ GoesStale(l) PROVE PipeInv' /\ RowsKept
<1>1. PICK row \in {[leads[l] EXCEPT !.aged = TRUE], [leads[l] EXCEPT !.stale = TRUE]} :
        leads' = [leads EXCEPT ![l] = row]
  BY DEF ComesOfAge, GoesStale
<1>2. leads[l] # None /\ leads[l] \in LeadRow
  BY DEF ComesOfAge, GoesStale, Made, PipeInv, PipeTyped
<1>3. /\ row \in LeadRow /\ row.redacted = leads[l].redacted
      /\ row.crossed = leads[l].crossed /\ row.named = leads[l].named
  BY <1>1, <1>2 DEF LeadRow
<1>4. RowsGoOn
  BY <1>1, <1>2, <1>3, RowChange
<1>5. UNCHANGED <<activities, opens, writers, sweeping>> /\ opens' \subseteq Email
  BY DEF ComesOfAge, GoesStale, PipeInv, PipeTyped
<1> QED
  BY <1>4, <1>5, WritersStay, RequestStep

\* The words of aged leads are taken.
LEMMA SweepWordsStep == ASSUME PipeInv, SweepWords PROVE PipeInv' /\ RowsKept
<1>1. /\ sweeping' = ToRedact
      /\ activities' = [l \in Lead |-> IF l \in ToRedact THEN Wordless(activities[l]) ELSE activities[l]]
  BY DEF SweepWords
<1>2. sweeping = None /\ UNCHANGED <<leads, opens, writers>>
  BY DEF SweepWords
<1>3. ASSUME NEW l \in Lead
      PROVE  /\ activities'[l] \in Seq(Touch)
             /\ l \in ToRedact => Wiped(activities'[l])
             /\ l \notin ToRedact => activities'[l] = activities[l]
             /\ \A dir : Going(activities'[l], dir) = Going(activities[l], dir)
             /\ l \in ToRedact => leads[l] # None
  <2>1. activities[l] \in Seq(Touch)
    BY DEF PipeInv, PipeTyped
  <2> QED
    BY <1>1, <2>1, WordlessIs DEF Made, ToRedact
<1>7. ToRedact \subseteq Made
  BY DEF ToRedact
<1>4. PipeTyped'
  BY <1>1, <1>2, <1>3, <1>7 DEF PipeInv, PipeTyped, Made, WorksOn
<1>5. SweptAreWiped'
  <2>1. ASSUME NEW l \in Lead, Redacting(l)' PROVE Wiped(activities'[l])
    <3>1. l \in ToRedact \/ Redacting(l)
      BY <1>1, <1>2, <2>1 DEF Redacting
    <3> QED
      BY <1>3, <3>1 DEF PipeInv, SweptAreWiped
  <2>2. \A l \in Lead : (Redacting(l) => Wiped(activities[l]))'
    BY <2>1
  <2> QED
    BY <2>2 DEF SweptAreWiped
<1>6. QueueInv'
  BY <1>3 DEF PipeInv, QueueInv
<1> QED
  BY <1>2, <1>4, <1>5, <1>6 DEF PipeInv, SweptAreNameless, RowsKept

\* The leads that are aged by now are redacted, or the sweep stops.
LEMMA SweepLeadsStep == ASSUME PipeInv, SweepLeads PROVE PipeInv' /\ RowsKept
<1> DEFINE swept(l) == [leads[l] EXCEPT !.named = FALSE, !.redacted = TRUE, !.crossed = (l \notin sweeping)]
<1>1. /\ sweeping # None /\ sweeping \subseteq Made /\ sweeping' = None
      /\ UNCHANGED <<activities, opens, writers>>
      /\ \/ leads' = [l \in Lead |-> IF l \in ToRedact THEN swept(l) ELSE leads[l]]
         \/ leads' = leads
  BY DEF SweepLeads, PipeInv, PipeTyped
<1>2. ASSUME NEW l \in Lead
      PROVE  /\ leads'[l] \in LeadRow \cup {None} /\ (leads'[l] = None <=> leads[l] = None)
             /\ \/ leads'[l] = leads[l]
                \/ /\ leads'[l].redacted /\ ~ leads'[l].named
                   /\ leads'[l].crossed \/ l \in sweeping
  <2>1. CASE l \in ToRedact /\ leads'[l] = swept(l)
    <3>1. leads[l] \in LeadRow
      BY <2>1 DEF ToRedact, Made, PipeInv, PipeTyped
    <3>2. /\ swept(l) \in LeadRow /\ swept(l).redacted = TRUE /\ swept(l).named = FALSE
          /\ swept(l).crossed = (l \notin sweeping)
      BY <3>1 DEF LeadRow
    <3> HIDE DEF swept
    <3> QED
      BY <2>1, <3>1, <3>2, NoRowAssumption
  <2>2. CASE leads'[l] = leads[l]
    BY <2>2 DEF PipeInv, PipeTyped
  <2> HIDE DEF swept
  <2> QED
    BY <1>1, <2>1, <2>2
<1>3. ASSUME NEW x \in Writer PROVE WorksOn(writers[x])'
  <2>1. writers'[x] = writers[x] /\ writers[x] \in WriterRecord /\ WorksOn(writers[x])
    BY <1>1 DEF PipeInv, PipeTyped
  <2>2. writers[x].at \in {"touch", "stamp", "edit"} => writers[x].lead \in Lead
    BY <2>1 DEF WriterRecord, Off
  <2> QED
    BY <1>2, <2>1, <2>2 DEF WorksOn
<1>4. (\A x \in Writer : WorksOn(writers[x]))'
  BY <1>3
<1>5. PipeTyped'
  <2>1. leads' \in [Lead -> LeadRow \cup {None}]
    <3>1. DOMAIN leads' = Lead /\ leads' = [l \in Lead |-> leads'[l]]
      BY <1>1 DEF PipeInv, PipeTyped
    <3> QED
      BY <1>2, <3>1
  <2> QED
    BY <1>1, <1>2, <1>4, <2>1 DEF PipeInv, PipeTyped
<1>6. SweptAreWiped'
  <2>1. ASSUME NEW l \in Lead PROVE Redacting(l)' => Redacting(l)
    BY <1>1, <1>2 DEF Redacting
  <2> QED
    BY <1>1, <2>1 DEF PipeInv, SweptAreWiped
<1>7. SweptAreNameless'
  BY <1>2 DEF PipeInv, SweptAreNameless
<1>8. RowsKept
  BY <1>2 DEF RowsKept
<1> QED
  BY <1>1, <1>5, <1>6, <1>7, <1>8 DEF PipeInv, QueueInv

\* The pipeline begins empty.
LEMMA PipeInitInv == PipeInit => PipeInv
<1> SUFFICES ASSUME PipeInit PROVE PipeInv
  OBVIOUS
<1>1. PipeTyped
  BY DEF PipeInit, PipeTyped, WriterRecord, WorksOn, Off
<1>2. ASSUME NEW l \in Lead
      PROVE  /\ Wiped(activities[l]) /\ HasNewest(Going(activities[l], "in"))
             /\ HasNewest(Going(activities[l], "out"))
  BY DEF PipeInit, Wiped, HasNewest, IsNewest, Going
<1>3. SweptAreNameless
  BY DEF PipeInit, SweptAreNameless
<1> QED
  BY <1>1, <1>2, <1>3 DEF PipeInv, SweptAreWiped, QueueInv

\* Every step keeps the invariant of the pipeline.
LEMMA PipeStepInv == PipeInv /\ [PipeNext]_pipevars => PipeInv' /\ RowsKept
<1> SUFFICES ASSUME PipeInv, [PipeNext]_pipevars PROVE PipeInv' /\ RowsKept
  OBVIOUS
<1>1. ASSUME NEW e \in Email, SiteLead(e) PROVE PipeInv' /\ RowsKept
  <2>1. "new" \in Stage
    BY PipelineAssumption
  <2> QED
    BY <1>1, <2>1, DoorStep DEF SiteLead
<1>2. ASSUME NEW e \in Email, NEW t \in Stage, CreateLead(e, t)
      PROVE  PipeInv' /\ RowsKept
  BY <1>2, DoorStep DEF CreateLead
<1>3. ASSUME NEW e \in Email, SweepOpens(e) PROVE PipeInv' /\ RowsKept
  <2>1. RowsGoOn /\ opens' \subseteq Email
    BY <1>3, SameRows DEF SweepOpens, PipeInv, PipeTyped
  <2> QED
    BY <1>3, <2>1, WritersStay, RequestStep DEF SweepOpens
<1>4. ASSUME NEW w \in Writer, NEW e \in Email, DeckOpen(w, e) PROVE PipeInv' /\ RowsKept
  BY <1>4, DeckOpenStep
<1>5. ASSUME NEW w \in Writer, Mirror(w) \/ Insert(w) \/ StampLead(w) \/ Write(w) PROVE PipeInv' /\ RowsKept
  BY <1>5, MirrorStep, InsertStep, StampStep, WriteStep
<1>6. ASSUME NEW w \in Writer, NEW l \in Lead, NEW t \in Stage, Edit(w, l, t) PROVE PipeInv' /\ RowsKept
  <2> DEFINE q == [at |-> "edit", lead |-> l, from |-> leads[l].stage, to |-> t]
  <2>1. leads[l] \in LeadRow /\ leads[l] # None
    BY <1>6 DEF Edit, Made, PipeInv, PipeTyped
  <2>2. q \in WriterRecord /\ WorksOn(q)
    BY <2>1 DEF WriterRecord, WorksOn, LeadRow
  <2>3. writers' = [writers EXCEPT ![w] = q] /\ UNCHANGED <<leads, activities, opens, sweeping>>
    BY <1>6 DEF Edit
  <2> HIDE DEF q
  <2> QED
    BY <2>2, <2>3, AskStep
<1>7. ASSUME NEW w \in Writer, NEW l \in Lead, NEW kind \in {"email", "note"},
             NEW dir \in {"in", "out", None}, AddActivity(w, l, kind, dir)
      PROVE  PipeInv' /\ RowsKept
  <2> DEFINE q == [at |-> "touch", lead |-> l, kind |-> kind, dir |-> dir]
  <2>1. q \in WriterRecord /\ WorksOn(q)
    BY <1>7 DEF AddActivity, Made, WriterRecord, WorksOn
  <2>2. writers' = [writers EXCEPT ![w] = q] /\ UNCHANGED <<leads, activities, opens, sweeping>>
    BY <1>7 DEF AddActivity
  <2> HIDE DEF q
  <2> QED
    BY <2>1, <2>2, AskStep
<1>8. CASE SweepWords \/ SweepLeads
  BY <1>8, SweepWordsStep, SweepLeadsStep
<1>10. ASSUME NEW l \in Lead, ComesOfAge(l) \/ GoesStale(l) PROVE PipeInv' /\ RowsKept
  BY <1>10, TimeStep
<1>9. CASE UNCHANGED pipevars
  <2>1. RowsGoOn /\ opens' \subseteq Email
    BY <1>9, SameRows DEF pipevars, PipeInv, PipeTyped
  <2> QED
    BY <1>9, <2>1, WritersStay, RequestStep DEF pipevars
<1> QED
  BY <1>1, <1>2, <1>3, <1>4, <1>5, <1>6, <1>7, <1>8, <1>9, <1>10 DEF PipeNext

\* The invariant holds throughout.
LEMMA PipeInvariant == PipeSpec => []PipeInv
BY PipeInitInv, PipeStepInv, PTL DEF PipeSpec

\* The tables of leads, of their touches and of opens keep their types, and no
\* touch is of a lead that is not there (growth.py).
THEOREM PipelineTyped == PipeSpec => []PipeTypeOK
<1>1. PipeInv => PipeTypeOK
  <2> SUFFICES ASSUME PipeInv PROVE PipeTypeOK
    OBVIOUS
  <2>1. ASSUME NEW l \in Lead, NEW i \in DOMAIN activities[l] PROVE activities[l][i] \in Touch
    <3>1. activities[l] \in Seq(Touch)
      BY DEF PipeInv, PipeTyped
    <3> QED
      BY <3>1
  <2> QED
    BY <2>1 DEF PipeInv, PipeTyped, PipeTypeOK
<1> QED
  BY <1>1, PipeInvariant, PTL

\* Whatever is added beside the two statements of growth.sweep_leads(), a
\* redacted lead keeps no name, and no word that was there when the sweep came
\* unless it came of age between the two statements.
THEOREM SweptWords == PipeSpec => []SweepTakesTheWords
<1>1. PipeInv => SweepTakesTheWords
  BY DEF PipeInv, PipeTyped, SweptAreWiped, SweptAreNameless, Redacting, Wiped, SweepTakesTheWords, Made
<1> QED
  BY <1>1, PipeInvariant, PTL

\* The newest reply, and the newest message sent, are what the work queue takes
\* them for.
LEMMA NewestTouches ==
  ASSUME PipeInv, NEW l \in Lead
  PROVE  /\ IsNewest(LastReply(l), Going(activities[l], "in"))
         /\ IsNewest(LastOutbound(l), Going(activities[l], "out"))
         /\ LastReply(l) \in 0 .. Len(activities[l]) /\ LastOutbound(l) \in 0 .. Len(activities[l])
         /\ LastReply(l) = Newest(Going(activities[l], "in"))
         /\ LastOutbound(l) = Newest(Going(activities[l], "out"))
<1>1. activities[l] \in Seq(Touch)
  BY DEF PipeInv, PipeTyped
<1>2. /\ DOMAIN activities[l] = 1 .. Len(activities[l]) /\ Len(activities[l]) \in Nat
  BY <1>1
<1>3. ASSUME NEW dir \in {"in", "out"}
      PROVE  /\ IsNewest(Newest(Going(activities[l], dir)), Going(activities[l], dir))
             /\ Newest(Going(activities[l], dir)) \in 0 .. Len(activities[l])
  <2>1. Going(activities[l], dir) \subseteq 1 .. Len(activities[l])
    BY <1>2 DEF Going
  <2>2. PICK m \in Going(activities[l], dir) \cup {0} : IsNewest(m, Going(activities[l], dir))
    BY DEF PipeInv, QueueInv, HasNewest
  <2>3. Newest(Going(activities[l], dir)) = m
    BY <2>1, <2>2, NewestIs
  <2> QED
    BY <1>2, <2>1, <2>2, <2>3
<1>4. /\ LastReply(l) = Newest(Going(activities[l], "in"))
      /\ LastOutbound(l) = Newest(Going(activities[l], "out"))
  BY DEF LastReply, LastOutbound, Going
<1> QED
  BY <1>3, <1>4

\* A lead awaits a reply exactly when its last reply came after all that went out.
LEMMA AwaitingIs ==
  ASSUME NEW l \in Lead
  PROVE  Reason(l, FALSE) = "awaiting_reply" <=> LastReply(l) > 0 /\ LastReply(l) >= LastOutbound(l)
BY PipelineAssumption DEF Reason, AnsweredBy

\* A reply stays first in the work queue until something goes out to the merchant
\* (work_queue and _why_it_needs_you of growth.py), whatever notes, opens and edits
\* come, unless the lead is ended, parked or redacted, nobody touches it in 120
\* days, or the queue is longer than the rows it reads.
THEOREM RepliesStay == PipeSpec => ReplyStaysOnTop
<1>1. ASSUME PipeInv, PipeInv', PipeNext, NEW l \in Lead,
             LastReply(l) > 0, LastReply(l) >= LastOutbound(l)
      PROVE  \/ LastReply(l)' > 0 /\ LastReply(l)' >= LastOutbound(l)'
             \/ LastOutbound(l)' > LastOutbound(l)
  <2>1. ASSUME activities'[l] = activities[l]
        PROVE  LastReply(l)' = LastReply(l) /\ LastOutbound(l)' = LastOutbound(l)
    BY <2>1 DEF LastReply, LastOutbound
  <2>2. ASSUME NEW w \in Writer, Insert(w), writers[w].lead = l
        PROVE  \/ LastReply(l)' > 0 /\ LastReply(l)' >= LastOutbound(l)'
               \/ LastOutbound(l)' > LastOutbound(l)
    <3> DEFINE t == [kind |-> writers[w].kind, dir |-> writers[w].dir, words |-> TRUE, after |-> InSweep(l)]
               n == Len(activities[l])
    <3>1. /\ activities[l] \in Seq(Touch) /\ n \in Nat
          /\ activities'[l] = Append(activities[l], t)
      BY <1>1, <2>2 DEF Insert, PipeInv, PipeTyped
    <3>2. t \in Touch
      <4>1. /\ writers[w] \in WriterRecord /\ writers[w].at = "touch" /\ WorksOn(writers[w])
        BY <1>1, <2>2 DEF Insert, PipeInv, PipeTyped
      <4>2. leads[l] \in LeadRow /\ writers[w].dir \in {"in", "out", None}
            /\ writers[w].kind \in {"email", "note", "deck", "stage"}
        BY <1>1, <2>2, <4>1 DEF WriterRecord, WorksOn, Off, PipeInv, PipeTyped
      <4> QED
        BY <4>2 DEF Touch, InSweep, LeadRow
    <3>3. /\ LastReply(l) = Newest(Going(activities[l], "in")) /\ LastReply(l) \in 0 .. n
          /\ LastOutbound(l) = Newest(Going(activities[l], "out")) /\ LastOutbound(l) \in 0 .. n
      BY <1>1, NewestTouches
    <3>4. /\ LastReply(l)' = Newest(Going(activities'[l], "in"))
          /\ LastOutbound(l)' = Newest(Going(activities'[l], "out"))
      BY DEF LastReply, LastOutbound, Going
    <3> HIDE DEF t
    <3>5. ASSUME NEW dir \in {"in", "out"}
          PROVE  /\ t.dir = dir => Newest(Going(activities'[l], dir)) = n + 1
                 /\ t.dir # dir => Newest(Going(activities'[l], dir)) = Newest(Going(activities[l], dir))
      <4>1. /\ t.dir = dir => IsNewest(n + 1, Going(activities'[l], dir))
            /\ t.dir # dir => Going(activities'[l], dir) = Going(activities[l], dir)
        BY <3>1, <3>2, AppendedPlaces
      <4>2. Going(activities'[l], dir) \in SUBSET Nat
        <5>1. activities'[l] \in Seq(Touch)
          BY <1>1 DEF PipeInv, PipeTyped
        <5>2. DOMAIN activities'[l] \subseteq Nat
          BY <5>1
        <5> QED
          BY <5>2 DEF Going
      <4> QED
        BY <4>1, <4>2, NewestIs
    <3>6. /\ t.dir = "in" => LastReply(l)' = n + 1 /\ LastOutbound(l)' = LastOutbound(l)
          /\ t.dir = "out" => LastOutbound(l)' = n + 1
          /\ t.dir # "in" /\ t.dir # "out" =>
               LastReply(l)' = LastReply(l) /\ LastOutbound(l)' = LastOutbound(l)
      BY <3>3, <3>4, <3>5
    <3> HIDE DEF n
    <3> QED
      BY <1>1, <3>1, <3>3, <3>6
  <2>3. ASSUME NEW w \in Writer, Insert(w), writers[w].lead # l
        PROVE  activities'[l] = activities[l]
    BY <1>1, <2>3 DEF Insert, PipeInv, PipeTyped
  <2>4. ASSUME SweepWords
        PROVE  LastReply(l)' = LastReply(l) /\ LastOutbound(l)' = LastOutbound(l)
    <3>1. activities[l] \in Seq(Touch) /\ activities'[l] \in {activities[l], Wordless(activities[l])}
      BY <1>1, <2>4 DEF SweepWords, PipeInv, PipeTyped
    <3>2. \A dir : Going(activities'[l], dir) = Going(activities[l], dir)
      BY <3>1, WordlessIs
    <3>3. /\ Going(activities'[l], "in") = Going(activities[l], "in")
          /\ Going(activities'[l], "out") = Going(activities[l], "out")
      BY <3>2
    <3> QED
      BY <3>3 DEF LastReply, LastOutbound, Going
  <2>5. CASE activities' = activities
    BY <1>1, <2>1, <2>5
  <2> QED
    BY <1>1, <2>1, <2>2, <2>3, <2>4, <2>5
    DEF PipeNext, SiteLead, CreateLead, DeckOpen, Mirror, AddActivity, StampLead, Edit, Write,
        ComesOfAge, GoesStale, SweepLeads, SweepOpens
<1>2. ASSUME NEW l \in Lead
      PROVE  Reason(l, FALSE)' = "awaiting_reply" <=> LastReply(l)' > 0 /\ LastReply(l)' >= LastOutbound(l)'
  BY PipelineAssumption DEF Reason, AnsweredBy
<1>3. Cardinality(Selected)' \in Int
  <2>1. Selected' \in SUBSET Lead
    BY DEF Selected, Made
  <2> QED
    BY <2>1, PipelineAssumption, FS_Subset, FS_CardinalityType
<1>4. PipeInv /\ PipeInv' /\ RowsKept /\ [PipeNext]_pipevars =>
        [\A l \in Made :
           WaitsOnUs(l) =>
             \/ WaitsOnUs(l)'
             \/ LastOutbound(l)' > LastOutbound(l)
             \/ leads'[l].stage \in {"won", "lost", "nurture"}
             \/ leads'[l].redacted \/ leads'[l].stale
             \/ Cardinality(Selected') > QueueLimit]_pipevars
  <2> SUFFICES ASSUME PipeInv, PipeInv', RowsKept, PipeNext, NEW l \in Made, WaitsOnUs(l),
                      leads'[l].stage \notin {"won", "lost", "nurture"},
                      ~ leads'[l].redacted, ~ leads'[l].stale,
                      ~ (Cardinality(Selected') > QueueLimit)
               PROVE  \/ WaitsOnUs(l)'
                      \/ LastOutbound(l)' > LastOutbound(l)
    OBVIOUS
  <2>1. l \in Lead /\ leads'[l] # None
    BY DEF Made, RowsKept
  <2>2. LastReply(l) > 0 /\ LastReply(l) >= LastOutbound(l)
    BY <2>1, AwaitingIs DEF WaitsOnUs
  <2>3. Reason(l, FALSE)' = "awaiting_reply" \/ LastOutbound(l)' > LastOutbound(l)
    BY <1>1, <1>2, <2>1, <2>2
  <2>4. l \in Selected'
    BY <2>1 DEF Selected, Made, InPlay
  <2>5. Cardinality(Selected') <= QueueLimit
    BY <1>3, PipelineAssumption
  <2> QED
    BY <2>3, <2>4, <2>5 DEF WaitsOnUs, Returned
<1>5. PipeInv /\ [PipeNext]_pipevars => PipeInv' /\ RowsKept
  BY PipeStepInv
<1> QED
  BY <1>4, <1>5, PipeInvariant, PTL DEF PipeSpec, ReplyStaysOnTop

-----------------------------------------------------------------------------
(* The AI service as a whole. *)

\* A question is asked once and answered once, in a run that is about one.
QuestionFits == IF part = "voice" THEN stage \in {"asked", "answered"} ELSE stage = None

LEMMA QuestionsFit ==
  QuestionFits /\ [ServicesNext]_<<part, storevars, logvars, voicevars, pipevars>> => QuestionFits'
<1> SUFFICES ASSUME QuestionFits, [ServicesNext]_<<part, storevars, logvars, voicevars, pipevars>>
             PROVE  QuestionFits'
  OBVIOUS
<1>1. CASE part = "voice" /\ Answer /\ part' = part
  BY <1>1 DEF Answer, QuestionFits
<1>2. CASE UNCHANGED <<part, stage>>
  BY <1>2 DEF QuestionFits
<1> QED
  BY <1>1, <1>2 DEF ServicesNext, voicevars

\* A step of one part of the AI service is a step of its component and none of
\* another's: no call of crm_shopify.py, checkout.py, analytics.py, voice.py or
\* growth.py writes what two of them read.  So the theorems about each component
\* hold of the whole.
THEOREM ServicesRunTheirParts ==
  ServicesSpec => StoreSpec /\ LogSpec /\ PipeSpec /\ []QuestionFits /\ (part = "voice" => VoiceSpec)
<1> DEFINE step == [ServicesNext]_<<part, storevars, logvars, voicevars, pipevars>>
<1>1. ServicesInit => StoreInit /\ LogInit /\ PipeInit /\ QuestionFits /\ (part = "voice" => VoiceInit)
  BY DEF ServicesInit, QuestionFits, VoiceInit, Silent
<1>2. step => [StoreNext]_storevars
  BY DEF ServicesNext
<1>3. step => [LogNext]_logvars
  BY DEF ServicesNext
<1>4. step => [PipeNext]_pipevars
  BY DEF ServicesNext
<1>5. step => [Answer]_voicevars
  BY DEF ServicesNext
<1> QED
  BY <1>1, <1>2, <1>3, <1>4, <1>5, QuestionsFit, PTL
     DEF ServicesSpec, StoreSpec, LogSpec, PipeSpec, VoiceSpec

\* Whatever part of the AI service works, its requests, rows and leads keep their
\* shape, and the other parts theirs.
THEOREM ServicesTyped == ServicesSpec => []ServicesTypeOK
<1>1. StoreTypeOK /\ LogTypeOK /\ PipeTypeOK /\ QuestionFits => ServicesTypeOK
  BY DEF ServicesTypeOK, QuestionFits
<1> QED
  BY <1>1, ServicesRunTheirParts, StoreTyped, LogTyped, PipelineTyped, PTL
=============================================================================
