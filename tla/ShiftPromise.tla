---------------------------- MODULE ShiftPromise ----------------------------
(***************************************************************************)
(* What the shift record promises a reader of it, whatever tables and      *)
(* calls sit underneath: a shift starts once, is seen while it lasts, is   *)
(* over once, no later than Gap after it was last seen, and is then only   *)
(* ever forgotten.                                                         *)
(***************************************************************************)
EXTENDS Integers

CONSTANTS Shift, Gap

VARIABLES clock, life

Lives == [phase: {"unused", "open", "over", "gone"}, start: Nat, seen: Nat, over: Nat]

Unused == [phase |-> "unused", start |-> 0, seen |-> 0, over |-> 0]
Gone == [Unused EXCEPT !.phase = "gone"]

Init ==
  /\ clock = 0
  /\ life = [s \in Shift |-> Unused]

ClockIn(s) ==
  /\ life[s] = Unused
  /\ life'[s] = [phase |-> "open", start |-> clock, seen |-> clock, over |-> 0]

SeenAgain(s) ==
  /\ life[s].phase = "open"
  /\ life'[s] = [life[s] EXCEPT !.seen = clock]

\* Over no earlier than last seen, less than Gap after it, never in the future.
ClockOut(s) ==
  /\ life[s].phase = "open"
  /\ \E at \in life[s].seen .. clock :
       /\ at < life[s].seen + Gap
       /\ life'[s] = [phase |-> "over", start |-> life[s].start,
                       seen |-> life[s].seen, over |-> at]

Forgotten(s) ==
  /\ life[s].phase \in {"open", "over"}
  /\ life'[s] = Gone

Change(s) == ClockIn(s) \/ SeenAgain(s) \/ ClockOut(s) \/ Forgotten(s)

\* Time passes, or some shifts (a sweep closes several at once) take one step.
Next ==
  \/ clock' = clock + 1 /\ life' = life
  \/ /\ clock' = clock
     /\ life' \in [Shift -> Lives]
     /\ \A s \in Shift : life'[s] = life[s] \/ Change(s)

Spec == Init /\ [][Next]_<<clock, life>>
=============================================================================
