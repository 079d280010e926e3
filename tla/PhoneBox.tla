------------------------------ MODULE PhoneBox ------------------------------
(***************************************************************************)
(* The phone box of final/rasp_4.c: a thread per button and the main loop  *)
(* share the timer, the servo and the LCD under one mutex.  The user       *)
(* presses and releases buttons at any moment, in particular between the   *)
(* polls, while a thread waits for the mutex, and while main, which keeps  *)
(* it, shows "Timer done!" or the invitation.                              *)
(***************************************************************************)
EXTENDS BoxPanel

Processes == Buttons \cup {"main"}

VARIABLES
  last,         \* last[b]: last_state of b's thread
  pc,           \* pc[p]: where the thread of p is
  lock,         \* the process that holds the mutex, or "nobody"
  display       \* what the LCD shows

vars == <<inputs, last, pc, lock, timer, servo, display>>

Init ==
  /\ PanelInit
  /\ last = [b \in Buttons |-> "up"]
  /\ pc = [p \in Processes |-> IF p = "main" THEN "boot" ELSE "unborn"]
  /\ lock = "nobody" /\ display = "invitation"

Move(p, from, to) == pc[p] = from /\ pc' = [pc EXCEPT ![p] = to]

Lock(p) ==
  /\ Move(p, "lock", "inside")
  /\ lock = "nobody" /\ lock' = p
  /\ UNCHANGED <<inputs, last, timer, servo, display>>

-----------------------------------------------------------------------------
\* The three button threads

Pressed(b) == button[b] = "down" /\ last[b] = "up"

Poll(b) ==
  /\ \/ /\ Pressed(b)
        /\ Move(b, "poll", IF b = "start" THEN "debounce" ELSE "lock")
        /\ UNCHANGED last
     \/ /\ ~Pressed(b)
        /\ Move(b, "poll", "poll")
        /\ last' = [last EXCEPT ![b] = button[b]]
  /\ UNCHANGED <<inputs, lock, timer, servo, display>>

\* Only the start button is read again 50 ms later.
Debounce ==
  /\ \/ /\ button["start"] = "down"
        /\ Move("start", "debounce", "lock")
        /\ UNCHANGED last
     \/ /\ button["start"] = "up"
        /\ Move("start", "debounce", "poll")
        /\ last' = [last EXCEPT !["start"] = "down"]
  /\ UNCHANGED <<inputs, lock, timer, servo, display>>

\* What a button does is decided under the mutex.
ActOn(b, to) ==
  /\ Move(b, "inside", to)
  /\ fresh' = [fresh EXCEPT ![b] = FALSE]
  /\ UNCHANGED <<button, last, lock, elapsed, running>>

\* Faulty Increase: also while the timer runs.
IncreaseAlways ==
  /\ ActOn("increase", "unlock")
  /\ minutes' = minutes + 1 /\ display' = "setting"
  /\ UNCHANGED servo

Increase ==
  /\ ActOn("increase", "unlock")
  /\ \/ ~running /\ minutes' = minutes + 1 /\ display' = "setting"
     \/ running /\ UNCHANGED <<minutes, display>>
  /\ UNCHANGED servo

\* Faulty Decrease: below zero.
DecreaseAlways ==
  /\ ActOn("decrease", "unlock")
  /\ minutes' = minutes - 1 /\ display' = "setting"
  /\ UNCHANGED servo

Decrease ==
  /\ ActOn("decrease", "unlock")
  /\ \/ ~running /\ minutes > 0 /\ minutes' = minutes - 1 /\ display' = "setting"
     \/ (running \/ minutes = 0) /\ UNCHANGED <<minutes, display>>
  /\ UNCHANGED servo

\* rotateServo takes a second, and another passes before the timer starts.
Start ==
  /\ \/ ~running /\ minutes > 0 /\ ActOn("start", "arm") /\ servo' = 90
     \/ (running \/ minutes = 0) /\ ActOn("start", "unlock") /\ UNCHANGED servo
  /\ UNCHANGED <<minutes, display>>

Arm ==
  /\ Move("start", "arm", "unlock")
  /\ running' = TRUE /\ elapsed' = 0 /\ display' = "start"
  /\ UNCHANGED <<inputs, last, lock, minutes, servo>>

\* Faulty Unlock: last_state is left as it was.
UnlockForgets(b) ==
  /\ Move(b, "unlock", "poll")
  /\ lock' = "nobody"
  /\ UNCHANGED <<inputs, last, timer, servo, display>>

\* last_state becomes the state read before the wait for the mutex.
Unlock(b) ==
  /\ Move(b, "unlock", "poll")
  /\ lock' = "nobody"
  /\ last' = [last EXCEPT ![b] = "down"]
  /\ UNCHANGED <<inputs, timer, servo, display>>

-----------------------------------------------------------------------------
\* main

\* The invitation scrolls until a button reads LOW.  The pins are not set up
\* yet, and may read LOW on their own.
Boot ==
  /\ pc["main"] = "boot"
  /\ pc' = [p \in Processes |-> IF p = "main" THEN "lock" ELSE "poll"]
  /\ UNCHANGED <<inputs, last, lock, timer, servo, display>>

\* percent_remaining goes to the progress bar.
CountDown ==
  /\ Move("main", "inside", "unlock")
  /\ \/ ~running /\ UNCHANGED display
     \/ running /\ ~Expired /\ display' = "progress"
  /\ UNCHANGED <<inputs, last, lock, timer, servo>>

Open ==
  /\ Move("main", "inside", "reset")
  /\ running /\ Expired
  /\ servo' = 0 /\ display' = "done"
  /\ UNCHANGED <<inputs, last, lock, timer>>

\* Faulty Reset: timer_minutes keeps the time served.
ResetKeeps ==
  /\ Move("main", "reset", "invite")
  /\ running' = FALSE /\ display' = "invitation"
  /\ UNCHANGED <<inputs, last, lock, minutes, elapsed, servo>>

Reset ==
  /\ Move("main", "reset", "invite")
  /\ running' = FALSE /\ minutes' = 0 /\ display' = "invitation"
  /\ UNCHANGED <<inputs, last, lock, elapsed, servo>>

\* The mutex is held until some button is down when scroll_text looks.
Invite ==
  /\ Move("main", "invite", "unlock")
  /\ \E b \in Buttons : button[b] = "down"
  /\ UNCHANGED <<inputs, last, lock, timer, servo, display>>

UnlockMain ==
  /\ Move("main", "unlock", "lock")
  /\ lock' = "nobody"
  /\ UNCHANGED <<inputs, last, timer, servo, display>>

-----------------------------------------------------------------------------
StartThread == Poll("start") \/ Debounce \/ Lock("start") \/ Start \/ Arm
               \/ Unlock("start")
IncreaseThread == Poll("increase") \/ Lock("increase") \/ Increase
                  \/ Unlock("increase")
DecreaseThread == Poll("decrease") \/ Lock("decrease") \/ Decrease
                  \/ Unlock("decrease")
Main == Boot \/ Lock("main") \/ CountDown \/ Open \/ Reset \/ Invite \/ UnlockMain

Environment == (User \/ Clock) /\ UNCHANGED <<last, pc, lock, display>>

Next == StartThread \/ IncreaseThread \/ DecreaseThread \/ Main \/ Environment

Spec == Init /\ [][Next]_vars

\* The button threads sleep 50 ms between two uses of the mutex, so main,
\* which tries every 500 ms, finds it free again and again and gets it.  The
\* user owes nothing.
FairSpec ==
  /\ Spec /\ WF_vars(Clock /\ UNCHANGED <<last, pc, lock, display>>)
  /\ WF_vars(StartThread) /\ WF_vars(IncreaseThread) /\ WF_vars(DecreaseThread)
  /\ WF_vars(Main) /\ SF_vars(Lock("main"))

-----------------------------------------------------------------------------
TypeOK ==
  /\ PanelTypeOK
  /\ last \in [Buttons -> {"up", "down"}]
  /\ pc \in [Processes -> {"unborn", "boot", "poll", "debounce", "lock",
                           "inside", "arm", "reset", "invite", "unlock"}]
  /\ lock \in Processes \cup {"nobody"}
  /\ display \in {"invitation", "setting", "start", "progress", "done"}

\* Whenever the mutex is free the LCD shows what the box does: the countdown
\* exactly while a phone is locked in, the invitation only if no time is set.
DisplayAgrees ==
  lock = "nobody" =>
    /\ display \in {"start", "progress"} <=> running
    /\ running <=> servo = 90
    /\ display = "invitation" => minutes = 0
    /\ display # "done"

\* A press is acted on at most once, however long the button is held and
\* however long its thread has to wait for the mutex.
PressCountsOnce ==
  [][/\ minutes' > minutes => fresh["increase"]
     /\ minutes' < minutes /\ pc["main"] # "reset" => fresh["decrease"]
     /\ servo' > servo => fresh["start"]]_vars

\* The box implements Detention: whatever the user presses, a phone locked in
\* stays in for the minutes chosen, and then gets out.
KeepsPromise == Promise!FairSpec
=============================================================================
