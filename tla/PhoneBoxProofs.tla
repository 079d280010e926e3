--------------------------- MODULE PhoneBoxProofs ---------------------------
(***************************************************************************)
(* Proofs, for any length of a minute and any bound on the time, that the  *)
(* threads of final/rasp_4.c count a press once, keep the LCD true to what *)
(* the box does, and never let a phone out before its time.                *)
(***************************************************************************)
EXTENDS PhoneBox, TLAPS

Points == {"unborn", "boot", "poll", "debounce", "lock",
           "inside", "arm", "reset", "invite", "unlock"}

\* Between taking the mutex and giving it back.
Inside == {"inside", "arm", "reset", "invite", "unlock"}

LockHeld == \A p \in Processes : pc[p] \in Inside <=> lock = p

\* main creates the threads: until then there are none.
Born == pc["main"] = "boot" => \A b \in Buttons : pc[b] = "unborn"

\* A press that its thread has seen, or will see at its next poll, has not
\* been acted on: what was acted on is in last_state before the next poll.
PressPending ==
  \A b \in Buttons :
    \/ pc[b] \in {"debounce", "lock", "inside"}
    \/ pc[b] \in {"unborn", "poll"} /\ button[b] = "down" /\ last[b] = "up"
    => fresh[b]

\* What DisplayAgrees says of the LCD.
Agree ==
  /\ display \in {"start", "progress"} <=> running
  /\ running <=> servo = 90
  /\ display = "invitation" => minutes = 0
  /\ display # "done"

\* It only fails while the servo turns, when the thread that turns it has the
\* mutex.
Turning ==
  /\ pc["start"] = "arm" => servo = 90 /\ ~running /\ minutes > 0
  /\ pc["main"] = "reset" => servo = 0 /\ running /\ Expired
  /\ pc["start"] # "arm" /\ pc["main"] # "reset" => Agree

IInv == TypeOK /\ LockHeld /\ Born /\ PressPending /\ Turning

-----------------------------------------------------------------------------
\* The invariant holds when the threads are started.
LEMMA InitIInv == Init => IInv
<1> SUFFICES ASSUME Init PROVE IInv
  OBVIOUS
<1> USE DEF Init, PanelInit
<1>1. /\ \A p \in Processes : pc[p] = IF p = "main" THEN "boot" ELSE "unborn"
      /\ pc \in [Processes -> Points] /\ "nobody" \notin Processes
      /\ \A b \in Buttons : b # "main" /\ b \in Processes
  BY DEF Processes, Points, Buttons
<1>2. TypeOK
  BY <1>1 DEF TypeOK, PanelTypeOK, Points
<1>3. LockHeld /\ Born
  BY <1>1 DEF LockHeld, Born, Inside
<1>4. PressPending
  BY <1>1 DEF PressPending
<1>5. Turning
  BY <1>1 DEF Turning, Agree, Processes, Buttons
<1> QED
  BY <1>2, <1>3, <1>4, <1>5 DEF IInv

\* A step of one process leaves the others where they are.
LEMMA MoveEffect ==
  ASSUME IInv, NEW p \in Processes, NEW from, NEW to \in Points, Move(p, from, to)
  PROVE  /\ pc[p] = from /\ pc'[p] = to /\ pc' \in [Processes -> Points]
         /\ \A q \in Processes \ {p} : pc'[q] = pc[q]
BY DEF IInv, TypeOK, Move, Points

\* The threads of the buttons and main are different threads.
LEMMA Names == /\ Buttons \subseteq Processes /\ "main" \in Processes \ Buttons
               /\ Processes = {"main", "start", "increase", "decrease"}
               /\ "nobody" \notin Processes
BY DEF Processes, Buttons

\* What the steps inside the mutex have in common.
LEMMA InsideStep ==
  ASSUME IInv, NEW p \in Processes, NEW from \in Inside, NEW to \in Inside,
         Move(p, from, to), lock' = lock
  PROVE  /\ pc[p] = from /\ pc'[p] = to /\ pc' \in [Processes -> Points]
         /\ \A q \in Processes \ {p} : pc'[q] = pc[q] /\ pc[q] \notin Inside
         /\ LockHeld' /\ Born'
<1>1. /\ pc[p] = from /\ pc'[p] = to /\ pc' \in [Processes -> Points]
      /\ \A q \in Processes \ {p} : pc'[q] = pc[q]
  BY MoveEffect DEF Points, Inside
<1>2. LockHeld' /\ \A q \in Processes \ {p} : pc[q] \notin Inside
  BY <1>1 DEF IInv, LockHeld
<1>3. Born'
  <2>1. pc'["main"] = "boot" => p # "main" /\ pc["main"] = "boot"
    BY <1>1, Names DEF Inside
  <2>2. p # "main" => pc["main"] # "boot"
    BY <1>1, Names DEF IInv, Born, Processes, Inside
  <2> QED
    BY <2>1, <2>2 DEF Born
<1> QED
  BY <1>1, <1>2, <1>3

\* The steps that leave the box as it is: the polls and the mutex.
LEMMA QuietKeeps ==
  ASSUME IInv, NEW p \in Processes, NEW from \in Points, NEW to \in Points,
         Move(p, from, to), UNCHANGED <<timer, servo, display>>,
         from \notin {"arm", "reset"}, to \notin {"arm", "reset"}
  PROVE  Turning'
<1>1. (pc'["start"] = "arm" <=> pc["start"] = "arm")
      /\ (pc'["main"] = "reset" <=> pc["main"] = "reset")
  <2>1. /\ pc[p] = from /\ pc'[p] = to
        /\ \A q \in Processes \ {p} : pc'[q] = pc[q]
    BY MoveEffect
  <2> QED
    BY <2>1, Names
<1> QED
  BY <1>1 DEF IInv, Turning, Agree, Expired, timer

\* A poll, and the debounce after it.
LEMMA PollKeeps ==
  ASSUME IInv, \/ \E b \in Buttons : Poll(b)
               \/ Debounce
  PROVE  IInv'
<1>1. PICK b \in Buttons, from \in {"poll", "debounce"},
           to \in {"poll", "debounce", "lock"} :
        /\ Move(b, from, to)
        /\ \/ UNCHANGED last /\ to # "poll" /\ (from = "poll" => Pressed(b))
           \/ /\ to = "poll"
              /\ last' = [last EXCEPT ![b] = IF from = "poll" THEN button[b] ELSE "down"]
  BY DEF Poll, Debounce, Buttons
<1>2. UNCHANGED <<inputs, lock, timer, servo, display>>
  BY DEF Poll, Debounce
<1>3. /\ pc[b] = from /\ pc'[b] = to /\ pc' \in [Processes -> Points]
      /\ \A q \in Processes \ {b} : pc'[q] = pc[q]
  BY <1>1, Names, MoveEffect DEF Points
<1>4. last' \in [Buttons -> {"up", "down"}]
  BY <1>1 DEF IInv, TypeOK, PanelTypeOK
<1>5. TypeOK'
  BY <1>2, <1>3, <1>4 DEF IInv, TypeOK, PanelTypeOK, Points, inputs, timer
<1>6. LockHeld' /\ Born'
  BY <1>2, <1>3, Names DEF IInv, LockHeld, Born, Inside
<1>7. PressPending'
  <2> SUFFICES ASSUME NEW c \in Buttons,
                      \/ pc'[c] \in {"debounce", "lock", "inside"}
                      \/ /\ pc'[c] \in {"unborn", "poll"}
                         /\ button'[c] = "down" /\ last'[c] = "up"
               PROVE  fresh'[c]
    BY DEF PressPending
  <2>1. CASE c # b
    BY <1>1, <1>2, <1>3, <2>1, Names DEF IInv, PressPending, inputs, TypeOK
  <2>2. CASE c = b
    BY <1>1, <1>2, <1>3, <2>2 DEF IInv, PressPending, inputs, TypeOK, Pressed
  <2> QED
    BY <2>1, <2>2
<1>8. Turning'
  BY <1>1, <1>2, Names, QuietKeeps DEF Points
<1> QED
  BY <1>5, <1>6, <1>7, <1>8 DEF IInv

\* pthread_mutex_lock.
LEMMA LockKeeps == ASSUME IInv, NEW p \in Processes, Lock(p) PROVE IInv'
<1>1. /\ pc[p] = "lock" /\ pc'[p] = "inside" /\ pc' \in [Processes -> Points]
      /\ \A q \in Processes \ {p} : pc'[q] = pc[q]
  BY MoveEffect DEF Lock, Points
<1>2. /\ lock = "nobody" /\ lock' = p
      /\ UNCHANGED <<inputs, last, timer, servo, display>>
  BY DEF Lock
<1>3. TypeOK'
  BY <1>1, <1>2 DEF IInv, TypeOK, PanelTypeOK, Points, inputs, timer
<1>4. LockHeld'
  BY <1>1, <1>2, Names DEF IInv, LockHeld, Inside
<1>5. Born' /\ PressPending'
  BY <1>1, <1>2, Names DEF IInv, Born, PressPending, inputs
<1>6. Turning'
  BY <1>2, QuietKeeps DEF Lock, Points
<1> QED
  BY <1>3, <1>4, <1>5, <1>6 DEF IInv

\* pthread_mutex_unlock.
LEMMA UnlockKeeps ==
  ASSUME IInv, \/ \E b \in Buttons : Unlock(b)
               \/ UnlockMain
  PROVE  IInv'
<1>1. PICK p \in Processes, to \in {"poll", "lock"} :
        /\ Move(p, "unlock", to)
        /\ \/ p \in Buttons /\ to = "poll" /\ last' = [last EXCEPT ![p] = "down"]
           \/ p = "main" /\ to = "lock" /\ UNCHANGED last
  BY Names DEF Unlock, UnlockMain
<1>2. lock' = "nobody" /\ UNCHANGED <<inputs, timer, servo, display>>
  BY DEF Unlock, UnlockMain
<1>3. /\ pc[p] = "unlock" /\ pc'[p] = to /\ pc' \in [Processes -> Points]
      /\ \A q \in Processes \ {p} : pc'[q] = pc[q]
  BY <1>1, MoveEffect DEF Points
<1>4. last' \in [Buttons -> {"up", "down"}]
  BY <1>1 DEF IInv, TypeOK
<1>5. TypeOK'
  BY <1>2, <1>3, <1>4 DEF IInv, TypeOK, PanelTypeOK, Points, inputs, timer
<1>6. LockHeld' /\ Born'
  BY <1>1, <1>2, <1>3, Names DEF IInv, LockHeld, Born, Inside
<1>7. PressPending'
  BY <1>1, <1>2, <1>3, Names DEF IInv, PressPending, inputs, TypeOK
<1>8. Turning'
  BY <1>1, <1>2, QuietKeeps DEF Points
<1> QED
  BY <1>5, <1>6, <1>7, <1>8 DEF IInv
\* A thread acts on its button: it has the mutex, and the press is spent.
LEMMA ActOnEffect ==
  ASSUME IInv, NEW b \in Buttons, NEW to \in {"arm", "unlock"}, ActOn(b, to)
  PROVE  /\ pc[b] = "inside" /\ pc'[b] = to /\ pc' \in [Processes -> Points]
         /\ \A p \in Processes \ {b} : pc'[p] = pc[p] /\ pc[p] \notin Inside
         /\ pc[b] # "arm" /\ LockHeld' /\ Born' /\ PressPending' /\ Agree
         /\ fresh[b] /\ fresh' \in [Buttons -> BOOLEAN]
<1>1. /\ pc[b] = "inside" /\ pc'[b] = to /\ pc' \in [Processes -> Points]
      /\ \A p \in Processes \ {b} : pc'[p] = pc[p] /\ pc[p] \notin Inside
      /\ LockHeld' /\ Born'
  BY Names, InsideStep DEF ActOn, Inside
<1>2. /\ fresh' = [fresh EXCEPT ![b] = FALSE] /\ UNCHANGED <<button, last>>
      /\ fresh \in [Buttons -> BOOLEAN]
  BY DEF ActOn, IInv, TypeOK, PanelTypeOK
<1>3. fresh[b]
  BY <1>1 DEF IInv, PressPending
<1>4. PressPending'
  BY <1>1, <1>2, Names DEF IInv, PressPending
<1>5. Agree
  BY <1>1, Names DEF IInv, Turning, Inside
<1> QED
  BY <1>1, <1>2, <1>3, <1>4, <1>5

\* The handlers of increase and decrease.
LEMMA SetKeeps == ASSUME IInv, Increase \/ Decrease PROVE IInv'
<1>1. PICK b \in {"increase", "decrease"} : ActOn(b, "unlock")
  BY DEF Increase, Decrease
<1>2. /\ pc[b] = "inside" /\ pc'[b] = "unlock" /\ pc' \in [Processes -> Points]
      /\ \A p \in Processes \ {b} : pc'[p] = pc[p] /\ pc[p] \notin Inside
      /\ LockHeld' /\ Born' /\ PressPending' /\ Agree
      /\ fresh' \in [Buttons -> BOOLEAN]
  BY <1>1, ActOnEffect DEF Buttons
<1>3. UNCHANGED <<button, last, lock, elapsed, running, servo>>
  BY <1>1 DEF ActOn, Increase, Decrease
<1>4. /\ minutes' \in Nat
      /\ \/ ~running /\ display' = "setting"
         \/ UNCHANGED <<minutes, display>>
  BY DEF Increase, Decrease, IInv, TypeOK, PanelTypeOK
<1>5. TypeOK'
  BY <1>2, <1>3, <1>4 DEF IInv, TypeOK, PanelTypeOK, Points
<1>6. pc'["start"] # "arm" /\ pc'["main"] # "reset"
  BY <1>2, Names DEF Inside
<1>7. Agree'
  BY <1>2, <1>3, <1>4 DEF Agree
<1> QED
  BY <1>2, <1>5, <1>6, <1>7 DEF IInv, Turning

\* The start handler before the servo has moved.
LEMMA StartKeeps == ASSUME IInv, Start PROVE IInv'
<1>1. PICK to \in {"arm", "unlock"} :
        /\ ActOn("start", to)
        /\ \/ to = "arm" /\ ~running /\ minutes > 0 /\ servo' = 90
           \/ to = "unlock" /\ UNCHANGED servo
  BY DEF Start
<1>2. /\ pc["start"] = "inside" /\ pc'["start"] = to /\ pc' \in [Processes -> Points]
      /\ \A p \in Processes \ {"start"} : pc'[p] = pc[p] /\ pc[p] \notin Inside
      /\ LockHeld' /\ Born' /\ PressPending' /\ Agree
      /\ fresh' \in [Buttons -> BOOLEAN]
  BY <1>1, ActOnEffect DEF Buttons
<1>3. UNCHANGED <<button, last, lock, elapsed, running, minutes, display>>
  BY <1>1 DEF ActOn, Start
<1>4. TypeOK'
  BY <1>1, <1>2, <1>3 DEF IInv, TypeOK, PanelTypeOK, Points
<1>5. pc'["main"] # "reset"
  BY <1>2, Names DEF Inside
<1>6. Turning'
  BY <1>1, <1>2, <1>3, <1>5 DEF Turning, Agree
<1> QED
  BY <1>2, <1>4, <1>6 DEF IInv

\* The start handler after the servo has moved.
LEMMA ArmKeeps == ASSUME IInv, Arm PROVE IInv'
<1>1. /\ pc["start"] = "arm" /\ pc'["start"] = "unlock" /\ pc' \in [Processes -> Points]
      /\ \A p \in Processes \ {"start"} : pc'[p] = pc[p] /\ pc[p] \notin Inside
      /\ LockHeld' /\ Born'
  BY Names, InsideStep DEF Arm, Inside, Buttons
<1>2. /\ running' = TRUE /\ elapsed' = 0 /\ display' = "start"
      /\ UNCHANGED <<inputs, last, lock, minutes, servo>>
  BY DEF Arm
<1>3. servo = 90 /\ minutes > 0
  BY <1>1 DEF IInv, Turning
<1>4. TypeOK'
  BY <1>1, <1>2 DEF IInv, TypeOK, PanelTypeOK, Points, inputs
<1>5. PressPending'
  BY <1>1, <1>2, Names DEF IInv, PressPending, inputs
<1>6. pc'["main"] # "reset"
  BY <1>1, Names DEF Inside
<1>7. Turning'
  BY <1>1, <1>2, <1>3, <1>6 DEF Turning, Agree, IInv, TypeOK, PanelTypeOK
<1> QED
  BY <1>1, <1>4, <1>5, <1>7 DEF IInv

\* main's set-up and the creation of the threads.
LEMMA BootKeeps == ASSUME IInv, Boot PROVE IInv'
<1>1. /\ pc["main"] = "boot" /\ \A b \in Buttons : pc[b] = "unborn"
      /\ pc' = [p \in Processes |-> IF p = "main" THEN "lock" ELSE "poll"]
      /\ UNCHANGED <<inputs, last, lock, timer, servo, display>>
  BY DEF Boot, IInv, Born
<1>2. /\ pc'["main"] = "lock" /\ \A b \in Buttons : pc'[b] = "poll"
      /\ pc' \in [Processes -> Points]
  BY <1>1, Names DEF Points
<1>3. TypeOK'
  BY <1>1, <1>2 DEF IInv, TypeOK, PanelTypeOK, Points, inputs, timer
<1>4. LockHeld' /\ Born'
  <2>1. \A p \in Processes : pc[p] \notin Inside /\ pc'[p] \notin Inside
    BY <1>1, <1>2 DEF Processes, Inside
  <2> QED
    BY <1>1, <1>2, <2>1 DEF IInv, LockHeld, Born
<1>5. PressPending'
  BY <1>1, <1>2 DEF IInv, PressPending, inputs
<1>6. Turning'
  <2>1. Agree
    BY <1>1 DEF IInv, Turning, Buttons
  <2> QED
    BY <1>1, <1>2, <2>1 DEF Turning, Agree, timer, Buttons
<1> QED
  BY <1>3, <1>4, <1>5, <1>6 DEF IInv

\* main's countdown and the parts of its branch for the end of the time.
LEMMA MainKeeps == ASSUME IInv, CountDown \/ Open \/ Reset \/ Invite PROVE IInv'
<1>1. PICK from \in {"inside", "reset", "invite"},
           to \in {"unlock", "reset", "invite"} :
        /\ Move("main", from, to)
        /\ \/ /\ from = "inside" /\ to = "unlock"
              /\ running \/ UNCHANGED display
              /\ UNCHANGED display \/ display' = "progress"
              /\ UNCHANGED <<timer, servo>>
           \/ /\ from = "inside" /\ to = "reset" /\ running /\ Expired
              /\ servo' = 0 /\ display' = "done" /\ UNCHANGED timer
           \/ /\ from = "reset" /\ to = "invite"
              /\ running' = FALSE /\ minutes' = 0 /\ display' = "invitation"
              /\ UNCHANGED <<elapsed, servo>>
           \/ from = "invite" /\ to = "unlock" /\ UNCHANGED <<timer, servo, display>>
  BY DEF CountDown, Open, Reset, Invite
<1>2. UNCHANGED <<inputs, last, lock>>
  BY DEF CountDown, Open, Reset, Invite
<1>3. /\ pc["main"] = from /\ pc'["main"] = to /\ pc' \in [Processes -> Points]
      /\ \A p \in Processes \ {"main"} : pc'[p] = pc[p] /\ pc[p] \notin Inside
      /\ LockHeld' /\ Born'
  BY <1>1, <1>2, Names, InsideStep DEF Inside
<1>4. TypeOK'
  <2>1. /\ minutes' \in Nat /\ running' \in BOOLEAN /\ elapsed' \in Nat
        /\ servo' \in {0, 90}
        /\ display' \in {"invitation", "setting", "start", "progress", "done"}
    <3>1. /\ minutes \in Nat /\ running \in BOOLEAN /\ elapsed \in Nat
          /\ servo \in {0, 90}
          /\ display \in {"invitation", "setting", "start", "progress", "done"}
      BY DEF IInv, TypeOK, PanelTypeOK
    <3>2. /\ minutes' \in {minutes, 0}
          /\ running' = running \/ running' = FALSE
      BY <1>1 DEF timer
    <3>3. elapsed' = elapsed /\ servo' \in {servo, 0}
      BY <1>1 DEF timer
    <3>4. display' \in {display, "invitation", "progress", "done"}
      BY <1>1
    <3>5. running' \in BOOLEAN
      BY <3>1, <3>2
    <3>6. /\ minutes' \in Nat /\ elapsed' \in Nat /\ servo' \in {0, 90}
      BY <3>1, <3>2, <3>3
    <3> QED
      BY <3>1, <3>4, <3>5, <3>6
  <2> QED
    BY <1>2, <1>3, <2>1 DEF IInv, TypeOK, PanelTypeOK, Points, inputs
<1>5. PressPending'
  BY <1>2, <1>3, Names DEF IInv, PressPending, inputs
<1>6. pc["start"] # "arm" /\ pc'["start"] # "arm"
  BY <1>3, Names DEF Inside
<1>7. Turning'
  BY <1>1, <1>3, <1>6 DEF IInv, Turning, Agree, timer, Expired
<1> QED
  BY <1>3, <1>4, <1>5, <1>7 DEF IInv

\* The user and the clock.
LEMMA EnvironmentKeeps == ASSUME IInv, Environment PROVE IInv'
<1>1. UNCHANGED <<last, pc, lock, display, minutes, running, servo>>
  BY DEF Environment, User, Clock, timer
<1> DEFINE Pushed ==
             /\ button' \in [Buttons -> {"up", "down"}]
             /\ fresh' \in [Buttons -> BOOLEAN]
             /\ \A b \in Buttons : \/ fresh'[b]
                                   \/ fresh'[b] = fresh[b] /\ button'[b] = button[b]
                                   \/ fresh'[b] = fresh[b] /\ button'[b] = "up"
<1>2. Pushed /\ elapsed' \in Nat
  <2>1. /\ button \in [Buttons -> {"up", "down"}] /\ fresh \in [Buttons -> BOOLEAN]
        /\ elapsed \in Nat
    BY DEF IInv, TypeOK, PanelTypeOK
  <2>2. ASSUME NEW b \in Buttons, Press(b) PROVE Pushed
    BY <2>1, <2>2 DEF Press
  <2>3. ASSUME NEW b \in Buttons, Release(b) PROVE Pushed
    BY <2>1, <2>3 DEF Release
  <2>4. CASE Clock
    BY <2>1, <2>4 DEF Clock, inputs
  <2> QED
    BY <2>1, <2>2, <2>3, <2>4 DEF Environment, User, timer
<1>3. TypeOK'
  BY <1>1, <1>2 DEF IInv, TypeOK, PanelTypeOK
<1>4. LockHeld' /\ Born'
  BY <1>1 DEF IInv, LockHeld, Born
<1>5. PressPending'
  BY <1>1, <1>2 DEF IInv, PressPending
<1>6. pc["main"] = "reset" => UNCHANGED elapsed
  BY DEF IInv, Turning, Environment, User, Clock, timer
<1>7. Turning'
  BY <1>1, <1>6 DEF IInv, Turning, Agree, Expired
<1> QED
  BY <1>3, <1>4, <1>5, <1>7 DEF IInv

\* No step breaks the invariant.
LEMMA NextKeepsIInv == IInv /\ [Next]_vars => IInv'
<1> SUFFICES ASSUME IInv, [Next]_vars PROVE IInv'
  OBVIOUS
<1> USE DEF Buttons, Processes
<1>1. CASE StartThread
  BY <1>1, PollKeeps, LockKeeps, StartKeeps, ArmKeeps, UnlockKeeps DEF StartThread
<1>2. CASE IncreaseThread
  BY <1>2, PollKeeps, LockKeeps, SetKeeps, UnlockKeeps DEF IncreaseThread
<1>3. CASE DecreaseThread
  BY <1>3, PollKeeps, LockKeeps, SetKeeps, UnlockKeeps DEF DecreaseThread
<1>4. CASE Main
  BY <1>4, BootKeeps, LockKeeps, MainKeeps, UnlockKeeps DEF Main
<1>5. CASE Environment
  BY <1>5, EnvironmentKeeps
<1>6. CASE UNCHANGED vars
  BY <1>6 DEF vars, inputs, timer, IInv, TypeOK, PanelTypeOK, LockHeld, Born,
              PressPending, Turning, Agree, Expired
<1> QED
  BY <1>1, <1>2, <1>3, <1>4, <1>5, <1>6 DEF Next

\* The inductive invariant holds in every reachable state.
LEMMA IInvAlways == Spec => []IInv
BY InitIInv, NextKeepsIInv, PTL DEF Spec
-----------------------------------------------------------------------------
\* The timer, the buttons, the mutex and the LCD of rasp_4.c keep their types;
\* in particular the minutes never fall below zero.
THEOREM BoxTypeCorrect == Spec => []TypeOK
<1>1. IInv => TypeOK
  BY DEF IInv
<1> QED
  BY <1>1, IInvAlways, PTL

\* Whenever no thread has the mutex the LCD agrees with the timer and the
\* servo (rasp_4.c:95-220).
THEOREM DisplayIsTrue == Spec => []DisplayAgrees
<1>1. IInv => DisplayAgrees
  BY Names DEF IInv, LockHeld, Turning, Agree, DisplayAgrees, Inside
<1> QED
  BY <1>1, IInvAlways, PTL

\* A step that changes the time uses up the press it is for.
LEMMA StepCountsOnce ==
  ASSUME IInv, [Next]_vars
  PROVE  /\ minutes' > minutes => fresh["increase"]
         /\ minutes' < minutes /\ pc["main"] # "reset" => fresh["decrease"]
         /\ servo' > servo => fresh["start"]
<1>1. minutes \in Nat /\ servo \in {0, 90}
  BY DEF IInv, TypeOK, PanelTypeOK
<1>2. CASE Increase
  BY <1>1, <1>2, ActOnEffect DEF Increase, Buttons
<1>3. CASE Decrease
  BY <1>1, <1>3, ActOnEffect DEF Decrease, Buttons
<1>4. CASE Start
  BY <1>1, <1>4, ActOnEffect DEF Start, Buttons
<1>5. CASE Reset
  BY <1>1, <1>5 DEF Reset, Move
<1>6. CASE Open
  BY <1>1, <1>6 DEF Open, timer
<1>7. CASE UNCHANGED <<minutes, servo>>
  BY <1>1, <1>7
<1>8. \/ Increase \/ Decrease \/ Start \/ Reset \/ Open
      \/ UNCHANGED <<minutes, servo>>
  <2> USE DEF inputs, timer, vars
  <2>1. ASSUME NEW b, Poll(b) \/ Unlock(b) \/ Lock(b)
        PROVE  UNCHANGED <<minutes, servo>>
    BY <2>1 DEF Poll, Unlock, Lock
  <2>2. ASSUME Debounce \/ Arm \/ Boot \/ CountDown \/ Invite \/ UnlockMain
        PROVE  UNCHANGED <<minutes, servo>>
    BY <2>2 DEF Debounce, Arm, Boot, CountDown, Invite, UnlockMain
  <2>3. ASSUME Environment PROVE UNCHANGED <<minutes, servo>>
    BY <2>3 DEF Environment, User, Clock
  <2> QED
    BY <2>1, <2>2, <2>3 DEF Next, StartThread, IncreaseThread, DecreaseThread, Main
<1> QED
  BY <1>2, <1>3, <1>4, <1>5, <1>6, <1>7, <1>8

\* Each button thread of rasp_4.c acts on a press once, however long the
\* button is held and the mutex is waited for: last_state is set to the state
\* that was read before the wait (rasp_4.c:117, 139, 161).
THEOREM PressCounts == Spec => PressCountsOnce
<1>1. IInv /\ [Next]_vars =>
        [/\ minutes' > minutes => fresh["increase"]
         /\ minutes' < minutes /\ pc["main"] # "reset" => fresh["decrease"]
         /\ servo' > servo => fresh["start"]]_vars
  BY StepCountsOnce
<1> QED
  BY <1>1, IInvAlways, PTL DEF Spec, PressCountsOnce

-----------------------------------------------------------------------------
\* What Detention speaks of, of the state of rasp_4.c.
chosen == IF servo = 0 /\ running THEN 0 ELSE minutes
door   == IF servo = 0 THEN "open" ELSE IF running THEN "shut" ELSE "closing"

\* Outside "arm" and "reset" the door is shut while the timer runs, and open
\* while it does not.
LEMMA DoorAgrees ==
  ASSUME IInv, pc["start"] # "arm", pc["main"] # "reset"
  PROVE  /\ chosen = minutes /\ (running => door = "shut") /\ (~running => door = "open")
         /\ (running <=> servo = 90) /\ (~running <=> servo = 0)
BY DEF IInv, Turning, Agree, chosen, door, TypeOK, PanelTypeOK

\* With the mutex a thread that is neither of the two has the box to itself.
LEMMA InsideDoor ==
  ASSUME IInv, NEW p \in Processes, pc[p] = "inside"
  PROVE  pc["start"] # "arm" /\ pc["main"] # "reset"
BY Names DEF IInv, LockHeld, Inside

\* A press of increase or decrease sets the time while the door is open.
LEMMA SetImplements ==
  ASSUME IInv, Increase \/ Decrease PROVE [Promise!Next]_(Promise!vars)
<1>1. pc["start"] # "arm" /\ pc["main"] # "reset"
  BY ActOnEffect, InsideDoor, Names DEF Increase, Decrease, Buttons
<1>2. UNCHANGED <<elapsed, running, servo>>
  BY DEF Increase, Decrease, ActOn
<1>3. CASE UNCHANGED minutes
  BY <1>2, <1>3 DEF Promise!vars
<1>4. CASE ~running /\ minutes' \in {minutes + 1, minutes - 1} \cap Nat
  <2>1. servo = 0 /\ servo' = 0 /\ ~running'
    BY <1>1, <1>2, <1>4, DoorAgrees
  <2>2. Promise!Set
    BY <1>2, <1>4, <2>1 DEF Promise!Set
  <2> QED
    BY <2>2 DEF Promise!Next
<1>5. \/ UNCHANGED minutes
      \/ ~running /\ minutes' \in {minutes + 1, minutes - 1} \cap Nat
  BY DEF Increase, Decrease, IInv, TypeOK, PanelTypeOK
<1> QED
  BY <1>3, <1>4, <1>5

\* Start shuts the door, on a positive time only.
LEMMA StartImplements == ASSUME IInv, Start PROVE [Promise!Next]_(Promise!vars)
<1>1. pc["start"] # "arm" /\ pc["main"] # "reset"
  BY ActOnEffect, InsideDoor, Names DEF Start, Buttons
<1>2. UNCHANGED <<elapsed, running, minutes>>
  BY DEF Start, ActOn
<1>3. CASE UNCHANGED servo
  BY <1>2, <1>3 DEF Promise!vars
<1>4. CASE ~running /\ minutes > 0 /\ servo' = 90
  <2>1. servo = 0 /\ ~running'
    BY <1>1, <1>2, <1>4, DoorAgrees
  <2>2. Promise!Close
    BY <1>2, <1>4, <2>1 DEF Promise!Close
  <2> QED
    BY <2>2 DEF Promise!Next
<1> QED
  BY <1>3, <1>4 DEF Start

\* The time starts to count once the door is shut.
LEMMA ArmImplements == ASSUME IInv, Arm PROVE [Promise!Next]_(Promise!vars)
<1>1. servo = 90 /\ ~running /\ servo' = 90 /\ running' /\ elapsed' = 0
      /\ UNCHANGED minutes
  BY DEF IInv, Turning, Arm, Move
<1>2. Promise!Shut
  BY <1>1 DEF Promise!Shut
<1> QED
  BY <1>2 DEF Promise!Next

\* main opens the door only at the end of the time.
LEMMA OpenImplements == ASSUME IInv, Open PROVE [Promise!Next]_(Promise!vars)
<1>1. pc["main"] = "inside" /\ running /\ Expired /\ servo' = 0 /\ UNCHANGED timer
  BY DEF Open, Move
<1>2. servo = 90
  BY <1>1, InsideDoor, DoorAgrees, Names
<1>3. Promise!Open
  BY <1>1, <1>2 DEF Promise!Open, Promise!Expired, Expired, timer
<1> QED
  BY <1>3 DEF Promise!Next

\* When main resets the timer the phone is out already.
LEMMA ResetImplements == ASSUME IInv, Reset PROVE UNCHANGED Promise!vars
BY DEF IInv, Turning, Reset, Move, Promise!vars

\* A second passes in the promise as it does in the box.
LEMMA ClockImplements == ASSUME IInv, Clock PROVE [Promise!Next]_(Promise!vars)
<1>1. /\ running /\ ~Expired /\ elapsed' = elapsed + 1
      /\ UNCHANGED <<minutes, running, servo>>
  BY DEF Clock
<1>2. servo = 90
  BY <1>1 DEF IInv, Turning, Agree
<1>3. Promise!Tick
  BY <1>1, <1>2 DEF Promise!Tick, Promise!Expired, Expired
<1> QED
  BY <1>3 DEF Promise!Next

\* Every step of the threads is a step of Detention, or none.
LEMMA StepImplements ==
  ASSUME IInv, [Next]_vars PROVE [Promise!Next]_(Promise!vars)
<1> USE DEF inputs, timer
<1>1. ASSUME UNCHANGED <<timer, servo>> PROVE UNCHANGED Promise!vars
  BY <1>1 DEF Promise!vars
<1>2. ASSUME NEW b, Poll(b) \/ Unlock(b) \/ Lock(b) PROVE UNCHANGED <<timer, servo>>
  BY <1>2 DEF Poll, Unlock, Lock
<1>3. ASSUME Debounce \/ Boot \/ CountDown \/ Invite \/ UnlockMain
      PROVE  UNCHANGED <<timer, servo>>
  BY <1>3 DEF Debounce, Boot, CountDown, Invite, UnlockMain
<1>4. CASE Environment
  BY <1>1, <1>4, ClockImplements DEF Environment, User
<1>5. CASE UNCHANGED vars
  BY <1>1, <1>5 DEF vars
<1> QED
  BY <1>1, <1>2, <1>3, <1>4, <1>5, SetImplements, StartImplements, ArmImplements,
     OpenImplements, ResetImplements
     DEF Next, StartThread, IncreaseThread, DecreaseThread, Main

\* The safety half of KeepsPromise: whatever the user presses and however the
\* threads of rasp_4.c take turns, a phone locked in stays in for the minutes
\* chosen, and nothing changes them meanwhile.
THEOREM NeverOutEarly == Spec => Promise!Spec
<1>1. Init => Promise!Init
  BY DEF Init, PanelInit, Promise!Init
<1>2. IInv /\ [Next]_vars => [Promise!Next]_(Promise!vars)
  BY StepImplements
<1> QED
  BY <1>1, <1>2, IInvAlways, PTL DEF Spec, Promise!Spec
=============================================================================
