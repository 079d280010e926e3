----------------------------- MODULE Detention -----------------------------
(***************************************************************************)
(* What the phone box promises (final/rasp_4.c and its forerunner          *)
(* slot1/timer.c): a phone locked in for a number of minutes stays in for  *)
(* that time, nothing changes the number meanwhile, and afterwards the box *)
(* opens.                                                                  *)
(***************************************************************************)
EXTENDS Integers

CONSTANT Minute   \* seconds in a minute, a positive number

VARIABLES
  minutes,   \* the time chosen
  door,      \* "open", "closing" while the servo turns, or "shut"
  elapsed    \* seconds since the door was shut, as long as they matter

vars == <<minutes, door, elapsed>>

Init == minutes = 0 /\ door = "open" /\ elapsed = 0

Set == /\ door = "open"
       /\ minutes' \in {minutes + 1, minutes - 1} \cap Nat
       /\ UNCHANGED <<door, elapsed>>

Close == /\ door = "open" /\ minutes > 0
         /\ door' = "closing"
         /\ UNCHANGED <<minutes, elapsed>>

Shut == /\ door = "closing" /\ door' = "shut"
        /\ elapsed' = 0
        /\ UNCHANGED minutes

Expired == elapsed >= minutes * Minute

Tick == /\ door = "shut" /\ ~Expired
        /\ elapsed' = elapsed + 1
        /\ UNCHANGED <<minutes, door>>

Open == /\ door = "shut" /\ Expired
        /\ door' = "open" /\ minutes' = 0
        /\ UNCHANGED elapsed

Next == Set \/ Close \/ Shut \/ Tick \/ Open

Spec == Init /\ [][Next]_vars

FairSpec == Spec /\ WF_vars(Shut) /\ WF_vars(Tick) /\ WF_vars(Open)
=============================================================================
