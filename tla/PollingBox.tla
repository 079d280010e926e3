---------------------------- MODULE PollingBox -----------------------------
(***************************************************************************)
(* The phone box of slot1/timer.c, the single-threaded forerunner of       *)
(* final/rasp_4.c: one loop reads the three buttons and then acts on what  *)
(* it read, although the buttons may have changed meanwhile, above all in  *)
(* the seconds the servo and the messages take.                            *)
(***************************************************************************)
EXTENDS BoxPanel

VARIABLES
  seen,         \* start_button, increase_button and decrease_button
  last,         \* last_start_button, last_increase_button, ...
  pc            \* where main is

reads == <<seen, last>>
vars  == <<inputs, reads, pc, timer, servo>>

Init ==
  /\ PanelInit
  /\ seen = [b \in Buttons |-> "up"] /\ last = [b \in Buttons |-> "up"]
  /\ pc = "boot"

-----------------------------------------------------------------------------
\* The loop of main

Goto(from, to) == pc = from /\ pc' = to

\* The pins are not set up yet and may read LOW on their own.
Boot == Goto("boot", "read") /\ UNCHANGED <<inputs, reads, timer, servo>>

Read ==
  /\ Goto("read", "increase")
  /\ seen' = button
  /\ UNCHANGED <<inputs, last, timer, servo>>

\* A button counts as pressed by what was read of it, now and a round ago.
Pressed(b) == seen[b] = "down" /\ last[b] = "up"

ActOn(b, from, to) ==
  /\ Goto(from, to)
  /\ fresh' = [fresh EXCEPT ![b] = @ /\ ~Pressed(b)]
  /\ UNCHANGED <<button, reads, running, elapsed>>

Increase ==
  /\ ActOn("increase", "increase", "decrease")
  /\ minutes' = IF Pressed("increase") /\ ~running THEN minutes + 1 ELSE minutes
  /\ UNCHANGED servo

\* Faulty Decrease: also while the timer runs.
DecreaseAlways ==
  /\ ActOn("decrease", "decrease", "start")
  /\ minutes' = IF Pressed("decrease") /\ minutes > 0 THEN minutes - 1
                                                      ELSE minutes
  /\ UNCHANGED servo

\* Faulty Decrease: below zero.
DecreaseBelowZero ==
  /\ ActOn("decrease", "decrease", "start")
  /\ minutes' = IF Pressed("decrease") /\ ~running THEN minutes - 1 ELSE minutes
  /\ UNCHANGED servo

Decrease ==
  /\ ActOn("decrease", "decrease", "start")
  /\ minutes' = IF Pressed("decrease") /\ ~running /\ minutes > 0
                THEN minutes - 1 ELSE minutes
  /\ UNCHANGED servo

\* rotateServo takes a second, and another passes before the timer starts.
Start ==
  /\ UNCHANGED minutes
  /\ LET starting == Pressed("start") /\ ~running /\ minutes > 0 IN
     \/ starting /\ ActOn("start", "start", "arm") /\ servo' = 90
     \/ ~starting /\ ActOn("start", "start", "check") /\ UNCHANGED servo

Arm ==
  /\ Goto("arm", "check")
  /\ running' = TRUE /\ elapsed' = 0
  /\ UNCHANGED <<inputs, reads, minutes, servo>>

\* Faulty Remember: only the start button is remembered.
RememberStart == last' = [last EXCEPT !["start"] = seen["start"]]

Remember == last' = seen

\* The progress bar is left out: it changes nothing but the LCD.
CountDown ==
  /\ Goto("check", "read") /\ (running => ~Expired)
  /\ Remember
  /\ UNCHANGED <<inputs, seen, timer, servo>>

Open ==
  /\ Goto("check", "reset") /\ running /\ Expired
  /\ Remember
  /\ servo' = 0
  /\ UNCHANGED <<inputs, seen, timer>>

Reset ==
  /\ Goto("reset", "invite")
  /\ running' = FALSE /\ minutes' = 0
  /\ UNCHANGED <<inputs, reads, elapsed, servo>>

\* The loop stands still until some button is down when scroll_text looks.
Invite ==
  /\ Goto("invite", "read")
  /\ \E b \in Buttons : button[b] = "down"
  /\ UNCHANGED <<inputs, reads, timer, servo>>

-----------------------------------------------------------------------------
Main == Boot \/ Read \/ Increase \/ Decrease \/ Start \/ Arm
        \/ CountDown \/ Open \/ Reset \/ Invite

Next == Main \/ ((User \/ Clock) /\ UNCHANGED <<reads, pc>>)

Spec == Init /\ [][Next]_vars

\* The one thread of the program runs; the user owes nothing.
FairSpec == Spec /\ WF_vars(Main) /\ WF_vars(Clock /\ UNCHANGED <<reads, pc>>)

-----------------------------------------------------------------------------
TypeOK ==
  /\ PanelTypeOK
  /\ seen \in [Buttons -> {"up", "down"}] /\ last \in [Buttons -> {"up", "down"}]
  /\ pc \in {"boot", "read", "increase", "decrease", "start", "arm", "check",
             "reset", "invite"}

\* A press is acted on at most once, however long the button is held and
\* however long the loop was away.
PressCountsOnce ==
  [][/\ minutes' > minutes => fresh["increase"]
     /\ minutes' < minutes /\ pc # "reset" => fresh["decrease"]
     /\ servo' > servo => fresh["start"]]_vars

\* The polling box implements Detention too: it misses presses, but a phone
\* locked in stays in for the minutes chosen, and then gets out.
KeepsPromise == Promise!FairSpec
=============================================================================
