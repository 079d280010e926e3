----------------------------- MODULE BoxPanel ------------------------------
(***************************************************************************)
(* What both phone boxes (PhoneBox and PollingBox) have around the         *)
(* program: three buttons that the user presses and releases at any        *)
(* moment, the clock, the servo, and the timer the program keeps.          *)
(*                                                                         *)
(* Only time(NULL) - start_time matters to the programs, so that is what   *)
(* elapsed is; the clock is not set while the box is locked.               *)
(* timer_seconds is always 0.                                              *)
(***************************************************************************)
EXTENDS Integers

CONSTANTS
  Minute,       \* seconds in a minute; fewer of them in the instances
  MaxMinutes    \* bound: the increase button is left alone from here on

ASSUME BoxAssumption == Minute \in Nat \ {0} /\ MaxMinutes \in Nat

Buttons == {"start", "increase", "decrease"}

VARIABLES
  button,       \* button[b]: "down" or "up", as digitalRead finds it
  fresh,        \* fresh[b]: b was pressed since the program last acted on it
  minutes,      \* timer_minutes
  running,      \* is_timer_running
  elapsed,      \* time(NULL) - start_time, as long as it matters
  servo         \* the angle the servo was rotated to

inputs == <<button, fresh>>
timer  == <<minutes, running, elapsed>>

PanelInit ==
  /\ button = [b \in Buttons |-> "up"] /\ fresh = [b \in Buttons |-> FALSE]
  /\ minutes = 0 /\ running = FALSE /\ elapsed = 0
  /\ servo = 0

Press(b) ==
  /\ button[b] = "up" /\ button' = [button EXCEPT ![b] = "down"]
  /\ b = "increase" => minutes < MaxMinutes
  /\ fresh' = [fresh EXCEPT ![b] = TRUE]

Release(b) ==
  /\ button[b] = "down" /\ button' = [button EXCEPT ![b] = "up"]
  /\ UNCHANGED fresh

User == /\ \E b \in Buttons : Press(b) \/ Release(b)
        /\ UNCHANGED <<timer, servo>>

Expired == elapsed >= minutes * Minute

\* How many seconds have passed since the end of the time makes no difference.
Clock == /\ running /\ ~Expired
         /\ elapsed' = elapsed + 1
         /\ UNCHANGED <<inputs, minutes, running, servo>>

PanelTypeOK ==
  /\ button \in [Buttons -> {"up", "down"}] /\ fresh \in [Buttons -> BOOLEAN]
  /\ minutes \in Nat /\ running \in BOOLEAN /\ elapsed \in Nat
  /\ servo \in {0, 90}

\* The door is shut once the timer runs; when it is open again, the time
\* that is up does not count any more.
Promise == INSTANCE Detention WITH
  minutes <- IF servo = 0 /\ running THEN 0 ELSE minutes,
  door    <- IF servo = 0 THEN "open" ELSE IF running THEN "shut" ELSE "closing"
=============================================================================
