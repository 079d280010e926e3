-------------------------- MODULE PollingBoxProofs --------------------------
(***************************************************************************)
(* Proofs, for any length of a minute and any bound on the time, that the  *)
(* loop of slot1/timer.c counts a press at most once and never lets a      *)
(* phone out before its time.                                              *)
(***************************************************************************)
EXTENDS PollingBox, TLAPS

\* Where the loop is when it has not acted yet on what it read of b.
Ahead(b) == CASE b = "increase" -> {"increase"}
              [] b = "decrease" -> {"increase", "decrease"}
              [] b = "start"    -> {"increase", "decrease", "start"}

\* A press since the last reading, and one that was read and not acted on,
\* is fresh; outside the round what was read is what is remembered.
PressPending ==
  \A b \in Buttons :
    /\ seen[b] = "up" /\ button[b] = "down" => fresh[b]
    /\ pc \in Ahead(b) /\ Pressed(b) => fresh[b]
    /\ pc \in {"boot", "read", "reset", "invite"} => last[b] = seen[b]

\* The servo and the timer agree but for the seconds the servo turns.
Turning ==
  /\ pc = "arm" => servo = 90 /\ ~running /\ minutes > 0
  /\ pc = "reset" => servo = 0 /\ running /\ Expired
  /\ pc \notin {"arm", "reset"} => (running <=> servo = 90)

IInv == TypeOK /\ PressPending /\ Turning

-----------------------------------------------------------------------------
\* The invariant holds at the start of main.
LEMMA InitIInv == Init => IInv
<1> SUFFICES ASSUME Init PROVE IInv
  OBVIOUS
<1>1. TypeOK
  BY DEF Init, PanelInit, TypeOK, PanelTypeOK
<1>2. PressPending
  BY DEF Init, PanelInit, PressPending, Pressed
<1>3. Turning
  BY DEF Init, PanelInit, Turning
<1> QED
  BY <1>1, <1>2, <1>3 DEF IInv

\* The program acts on a button, if it was pressed; that press is spent.
LEMMA ActOnEffect ==
  ASSUME IInv, NEW b \in Buttons, NEW to, ActOn(b, b, to),
         \A c \in Buttons : to \in Ahead(c) => b \in Ahead(c) /\ c # b,
         to \notin {"boot", "read", "reset", "invite"}
  PROVE  /\ pc = b /\ pc' = to /\ UNCHANGED <<button, seen, last, running, elapsed>>
         /\ Pressed(b) => fresh[b]
         /\ fresh' \in [Buttons -> BOOLEAN] /\ PressPending'
<1>1. /\ pc = b /\ pc' = to /\ UNCHANGED <<button, seen, last, running, elapsed>>
      /\ fresh' = [fresh EXCEPT ![b] = fresh[b] /\ ~Pressed(b)]
      /\ fresh \in [Buttons -> BOOLEAN]
  BY DEF ActOn, Goto, reads, IInv, TypeOK, PanelTypeOK
<1>2. b \in Ahead(b)
  BY DEF Ahead, Buttons
<1>3. Pressed(b) => fresh[b]
  BY <1>1, <1>2 DEF IInv, PressPending
<1>4. fresh' \in [Buttons -> BOOLEAN]
  BY <1>1
<1>5. ASSUME NEW c \in Buttons
      PROVE  /\ seen[c] = "up" /\ button[c] = "down" => fresh'[c]
             /\ to \in Ahead(c) /\ Pressed(c) => fresh'[c]
  <2>1. /\ seen[c] = "up" /\ button[c] = "down" => fresh[c]
        /\ b \in Ahead(c) /\ Pressed(c) => fresh[c]
    BY <1>1 DEF IInv, PressPending
  <2>2. CASE c = b
    BY <1>1, <2>1, <2>2 DEF Pressed
  <2>3. CASE c # b
    BY <1>1, <2>1, <2>3
  <2> QED
    BY <2>2, <2>3
<1>6. PressPending'
  BY <1>1, <1>5 DEF PressPending, Pressed, Ahead
<1> QED
  BY <1>1, <1>3, <1>4, <1>6

\* Increase and decrease.
LEMMA SetKeeps == ASSUME IInv, Increase \/ Decrease PROVE IInv'
<1>1. PICK b \in {"increase", "decrease"} :
        /\ ActOn(b, b, IF b = "increase" THEN "decrease" ELSE "start")
        /\ minutes' # minutes => ~running
        /\ minutes' \in Nat
  BY DEF Increase, Decrease, IInv, TypeOK, PanelTypeOK
<1> DEFINE to == IF b = "increase" THEN "decrease" ELSE "start"
<1>2. \A c \in Buttons : to \in Ahead(c) => b \in Ahead(c) /\ c # b
  BY DEF Ahead, Buttons
<1>3. /\ pc = b /\ pc' = to /\ UNCHANGED <<button, seen, last, running, elapsed>>
      /\ fresh' \in [Buttons -> BOOLEAN] /\ PressPending'
  BY <1>1, <1>2, ActOnEffect DEF Buttons
<1>4. UNCHANGED servo
  BY DEF Increase, Decrease
<1>5. TypeOK'
  BY <1>1, <1>3, <1>4 DEF IInv, TypeOK, PanelTypeOK
<1>6. Turning'
  BY <1>1, <1>3, <1>4 DEF IInv, Turning
<1> QED
  BY <1>3, <1>5, <1>6 DEF IInv

\* The start button.
LEMMA StartKeeps == ASSUME IInv, Start PROVE IInv'
<1>1. PICK to \in {"arm", "check"} :
        /\ ActOn("start", "start", to)
        /\ \/ to = "arm" /\ ~running /\ minutes > 0 /\ servo' = 90
           \/ to = "check" /\ UNCHANGED servo
  BY DEF Start
<1>2. \A c \in Buttons : to \notin Ahead(c)
  BY DEF Ahead, Buttons
<1>3. /\ pc = "start" /\ pc' = to /\ UNCHANGED <<button, seen, last, running, elapsed>>
      /\ fresh' \in [Buttons -> BOOLEAN] /\ PressPending'
  BY <1>1, <1>2, ActOnEffect DEF Buttons
<1>4. UNCHANGED minutes
  BY DEF Start
<1>5. TypeOK'
  BY <1>1, <1>3, <1>4 DEF IInv, TypeOK, PanelTypeOK
<1>6. Turning'
  BY <1>1, <1>3, <1>4 DEF IInv, Turning
<1> QED
  BY <1>3, <1>5, <1>6 DEF IInv

\* The reading of the buttons, the countdown and the opening.
LEMMA LoopKeeps ==
  ASSUME IInv, Boot \/ Read \/ Arm \/ CountDown \/ Open \/ Reset \/ Invite
  PROVE  IInv'
<1> USE DEF IInv, Goto, inputs, reads, timer
<1>1. CASE Boot
  BY <1>1 DEF Boot, TypeOK, PanelTypeOK, PressPending, Pressed, Ahead, Buttons,
              Turning, Expired
<1>2. CASE Read
  <2>1. TypeOK' /\ Turning'
    BY <1>2 DEF Read, TypeOK, PanelTypeOK, Turning, Expired
  <2>2. PressPending'
    BY <1>2 DEF Read, TypeOK, PanelTypeOK, PressPending, Pressed
  <2> QED
    BY <2>1, <2>2
<1>3. CASE Arm
  BY <1>3 DEF Arm, TypeOK, PanelTypeOK, PressPending, Pressed, Ahead, Buttons, Turning
<1>4. CASE CountDown \/ Open
  <2>1. TypeOK' /\ Turning'
    BY <1>4 DEF CountDown, Open, Remember, TypeOK, PanelTypeOK, Turning, Expired
  <2>2. PressPending'
    BY <1>4 DEF CountDown, Open, Remember, TypeOK, PressPending, Pressed
  <2> QED
    BY <2>1, <2>2
<1>5. CASE Reset
  <2>1. TypeOK'
    BY <1>5 DEF Reset, TypeOK, PanelTypeOK
  <2>2. PressPending'
    BY <1>5 DEF Reset, PressPending, Pressed, Ahead, Buttons
  <2>3. Turning'
    BY <1>5 DEF Reset, Turning
  <2> QED
    BY <2>1, <2>2, <2>3
<1>6. CASE Invite
  <2>1. TypeOK' /\ Turning'
    BY <1>6 DEF Invite, TypeOK, PanelTypeOK, Turning, Expired
  <2>2. PressPending'
    BY <1>6 DEF Invite, PressPending, Pressed, Ahead, Buttons
  <2> QED
    BY <2>1, <2>2
<1> QED
  BY <1>1, <1>2, <1>3, <1>4, <1>5, <1>6

\* The user and the clock.
LEMMA EnvironmentKeeps ==
  ASSUME IInv, User \/ Clock, UNCHANGED <<reads, pc>> PROVE IInv'
<1> USE DEF IInv, reads, timer, inputs
<1>1. CASE Clock
  BY <1>1 DEF Clock, TypeOK, PanelTypeOK, PressPending, Pressed, Turning, Expired
<1>2. ASSUME NEW b \in Buttons, Press(b), UNCHANGED <<timer, servo>> PROVE IInv'
  <2>1. TypeOK' /\ Turning'
    BY <1>2 DEF Press, TypeOK, PanelTypeOK, Turning, Expired
  <2>2. PressPending'
    BY <1>2 DEF Press, TypeOK, PanelTypeOK, PressPending, Pressed
  <2> QED
    BY <2>1, <2>2
<1>3. ASSUME NEW b \in Buttons, Release(b), UNCHANGED <<timer, servo>> PROVE IInv'
  <2>1. TypeOK' /\ Turning'
    BY <1>3 DEF Release, TypeOK, PanelTypeOK, Turning, Expired
  <2>2. PressPending'
    BY <1>3 DEF Release, TypeOK, PanelTypeOK, PressPending, Pressed
  <2> QED
    BY <2>1, <2>2
<1> QED
  BY <1>1, <1>2, <1>3 DEF User

\* No step breaks the invariant.
LEMMA NextKeepsIInv == IInv /\ [Next]_vars => IInv'
<1>1. ASSUME IInv, UNCHANGED vars PROVE IInv'
  BY <1>1 DEF vars, inputs, reads, timer, IInv, TypeOK, PanelTypeOK, PressPending,
              Pressed, Turning, Expired
<1> QED
  BY <1>1, SetKeeps, StartKeeps, LoopKeeps, EnvironmentKeeps DEF Next, Main

\* The inductive invariant holds in every reachable state.
LEMMA IInvAlways == Spec => []IInv
BY InitIInv, NextKeepsIInv, PTL DEF Spec
-----------------------------------------------------------------------------
\* The timer, the buttons and what the loop of timer.c remembers of them keep
\* their types; in particular the minutes never fall below zero.
THEOREM PollingTypeCorrect == Spec => []TypeOK
<1>1. IInv => TypeOK
  BY DEF IInv
<1> QED
  BY <1>1, IInvAlways, PTL

\* Only four steps of the loop change the minutes or the servo.
LEMMA MovingSteps ==
  ASSUME [Next]_vars
  PROVE  \/ Increase \/ Decrease \/ Start \/ Arm \/ Open \/ Reset
         \/ Clock
         \/ UNCHANGED <<timer, servo>>
BY DEF Next, Main, User, Boot, Read, CountDown, Invite, vars

\* A step that changes the time uses up the press it is for.
LEMMA StepCountsOnce ==
  ASSUME IInv, [Next]_vars
  PROVE  /\ minutes' > minutes => fresh["increase"]
         /\ minutes' < minutes /\ pc # "reset" => fresh["decrease"]
         /\ servo' > servo => fresh["start"]
<1>1. minutes \in Nat /\ servo \in {0, 90}
  BY DEF IInv, TypeOK, PanelTypeOK
<1>2. \A b \in Buttons : pc = b /\ Pressed(b) => fresh[b]
  BY DEF IInv, PressPending, Ahead, Buttons
<1>3. CASE Increase
  BY <1>1, <1>2, <1>3 DEF Increase, ActOn, Goto, Buttons
<1>4. CASE Decrease
  BY <1>1, <1>2, <1>4 DEF Decrease, ActOn, Goto, Buttons
<1>5. CASE Start
  BY <1>1, <1>2, <1>5 DEF Start, ActOn, Goto, Buttons
<1>6. CASE Reset
  BY <1>1, <1>6 DEF Reset, Goto
<1>7. CASE Open
  BY <1>1, <1>7 DEF Open, timer
<1>8. CASE UNCHANGED <<minutes, servo>>
  BY <1>1, <1>8
<1> QED
  BY <1>3, <1>4, <1>5, <1>6, <1>7, <1>8, MovingSteps DEF Arm, Clock, timer

\* timer.c acts on a press at most once, however long the button is held and
\* however long the servo and the messages kept the loop away.
THEOREM PollingCounts == Spec => PressCountsOnce
<1>1. IInv /\ [Next]_vars =>
        [/\ minutes' > minutes => fresh["increase"]
         /\ minutes' < minutes /\ pc # "reset" => fresh["decrease"]
         /\ servo' > servo => fresh["start"]]_vars
  BY StepCountsOnce
<1> QED
  BY <1>1, IInvAlways, PTL DEF Spec, PressCountsOnce

-----------------------------------------------------------------------------
\* Every step of the loop is a step of Detention, or none.
LEMMA StepImplements ==
  ASSUME IInv, [Next]_vars PROVE [Promise!Next]_(Promise!vars)
<1>1. minutes \in Nat /\ running \in BOOLEAN /\ servo \in {0, 90}
  BY DEF IInv, TypeOK, PanelTypeOK
<1>2. CASE UNCHANGED <<timer, servo>>
  BY <1>2 DEF timer, Promise!vars
<1>3. CASE Increase \/ Decrease
  <2>1. UNCHANGED <<elapsed, running, servo>> /\ (running <=> servo = 90)
    BY <1>3 DEF Increase, Decrease, ActOn, Goto, IInv, Turning
  <2>2. CASE UNCHANGED minutes
    BY <2>1, <2>2 DEF Promise!vars
  <2>3. CASE ~running /\ minutes' \in {minutes + 1, minutes - 1} \cap Nat
    <3>1. servo = 0 /\ servo' = 0 /\ ~running'
      BY <1>1, <2>1, <2>3
    <3>2. Promise!Set
      BY <2>1, <2>3, <3>1 DEF Promise!Set
    <3> QED
      BY <3>2 DEF Promise!Next
  <2> QED
    BY <1>1, <1>3, <2>2, <2>3 DEF Increase, Decrease
<1>4. CASE Start
  <2>1. UNCHANGED <<elapsed, running, minutes>> /\ (running <=> servo = 90)
    BY <1>4 DEF Start, ActOn, Goto, IInv, Turning
  <2>2. CASE UNCHANGED servo
    BY <2>1, <2>2 DEF Promise!vars
  <2>3. CASE ~running /\ minutes > 0 /\ servo' = 90
    <3>1. servo = 0 /\ ~running'
      BY <1>1, <2>1, <2>3
    <3>2. Promise!Close
      BY <2>1, <2>3, <3>1 DEF Promise!Close
    <3> QED
      BY <3>2 DEF Promise!Next
  <2> QED
    BY <1>4, <2>2, <2>3 DEF Start
<1>5. CASE Arm
  <2>1. /\ servo = 90 /\ ~running /\ servo' = 90 /\ running' /\ elapsed' = 0
        /\ UNCHANGED minutes
    BY <1>5 DEF IInv, Turning, Arm, Goto
  <2>2. Promise!Shut
    BY <2>1 DEF Promise!Shut
  <2> QED
    BY <2>2 DEF Promise!Next
<1>6. CASE Open
  <2>1. servo = 90 /\ running /\ Expired /\ servo' = 0 /\ UNCHANGED timer
    BY <1>6 DEF IInv, Turning, Open, Goto
  <2>2. Promise!Open
    BY <2>1 DEF Promise!Open, Promise!Expired, Expired, timer
  <2> QED
    BY <2>2 DEF Promise!Next
<1>7. CASE Reset
  BY <1>7 DEF IInv, Turning, Reset, Goto, Promise!vars
<1>8. CASE Clock
  <2>1. /\ running /\ ~Expired /\ elapsed' = elapsed + 1
        /\ UNCHANGED <<minutes, running, servo>>
    BY <1>8 DEF Clock
  <2>2. servo = 90
    BY <2>1 DEF IInv, Turning
  <2>3. Promise!Tick
    BY <2>1, <2>2 DEF Promise!Tick, Promise!Expired, Expired
  <2> QED
    BY <2>3 DEF Promise!Next
<1> QED
  BY <1>2, <1>3, <1>4, <1>5, <1>6, <1>7, <1>8, MovingSteps

\* The safety half of KeepsPromise for timer.c: a phone locked in stays in for
\* the minutes chosen, and nothing changes them meanwhile.
THEOREM PollingNeverEarly == Spec => Promise!Spec
<1>1. Init => Promise!Init
  BY DEF Init, PanelInit, Promise!Init
<1>2. IInv /\ [Next]_vars => [Promise!Next]_(Promise!vars)
  BY StepImplements
<1> QED
  BY <1>1, <1>2, IInvAlways, PTL DEF Spec, Promise!Spec
=============================================================================
