------------------------------ MODULE UserList ------------------------------
(***************************************************************************)
(* The user list of slot1/button.c: a thread per button moves the cursor,  *)
(* deletes the user it is on or shows the time.  There is no lock: between *)
(* any load, store or drawing of one thread come those of the others.      *)
(*                                                                         *)
(* The LCD is one level above Lcd: a drawing that nobody disturbs shows    *)
(* what it wrote, since it begins with lcd_init (InStep of ClockDisplay);  *)
(* of two that overlap nothing is known.                                   *)
(***************************************************************************)
EXTENDS Integers, FiniteSets

CONSTANTS
  MAX_USERS,
  Hands         \* bound: buttons pressed or worked on at the same time

ASSUME ListAssumption == MAX_USERS \in Nat \ {0} /\ Hands \in Nat

Buttons == {"next", "previous", "delete", "time"}
Slots == 0 .. MAX_USERS - 1

VARIABLES
  held,         \* the buttons that are down
  owed,         \* history: pressed, and neither acted on nor let go unseen
  seen,         \* the buttons whose lastState is LOW
  pc,           \* pc[b]: where the thread of button b is
  i,            \* i[b]: the index it has in hand
  name, mileage,\* the fields of userList
  numUsers, currentUserIndex,
  lcd           \* what each line shows, or Garbled

panel == <<held, owed, seen>>
list  == <<name, mileage, numUsers>>
vars  == <<panel, pc, i, list, currentUserIndex, lcd>>

\* What a line shows besides a name or a mileage, which are numbers from 1.
Blank   == <<0, 0>>
Clock   == <<-1, -1>>
Garbled == <<-2, -2>>

Init ==
  /\ held = {} /\ owed = {} /\ seen = {}
  /\ pc = [b \in Buttons |-> "poll"] /\ i = [b \in Buttons |-> 0]
  /\ name = [s \in Slots |-> s + 1] /\ mileage = [s \in Slots |-> s + 1]
  /\ numUsers = MAX_USERS /\ currentUserIndex = 0
  /\ lcd = Blank

Goto(b, from, to) == pc[b] = from /\ pc' = [pc EXCEPT ![b] = to]

\* digitalRead: a press the thread has not seen yet starts its function.
Begin(b) == CASE b \in {"next", "previous"} -> "load"
              [] b = "delete" -> IF numUsers > 0 THEN "from" ELSE "poll"
              [] b = "time" -> "init"

Poll(b) ==
  /\ \/ /\ b \in held \ seen /\ Goto(b, "poll", Begin(b))
        /\ seen' = seen \cup {b}
        /\ owed' = IF Begin(b) \in {"poll", "init"} THEN owed \ {b} ELSE owed
     \/ /\ b \notin held \ seen /\ Goto(b, "poll", "poll")
        /\ seen' = seen \ ({b} \ held) /\ UNCHANGED owed
  /\ UNCHANGED <<held, i, list, currentUserIndex, lcd>>

-----------------------------------------------------------------------------
\* The first two buttons: both go round all MAX_USERS entries.
StepPlain(b, c) ==      \* faulty: back from the first entry is before it
  IF b = "next" THEN (c + 1) % MAX_USERS ELSE c - 1

Step(b, c) == IF b = "next" THEN (c + 1) % MAX_USERS
              ELSE (c - 1 + MAX_USERS) % MAX_USERS

LoadCursor(b) ==
  /\ Goto(b, "load", "store")
  /\ i' = [i EXCEPT ![b] = Step(b, currentUserIndex)]
  /\ UNCHANGED <<panel, list, currentUserIndex, lcd>>

StoreCursor(b) ==
  /\ Goto(b, "store", "init") /\ owed' = owed \ {b}
  /\ currentUserIndex' = i[b] /\ i' = [i EXCEPT ![b] = 0]
  /\ UNCHANGED <<held, seen, list, lcd>>

-----------------------------------------------------------------------------
\* delete_current_user.  Only its thread changes the list and numUsers.
From ==
  /\ Goto("delete", "from", "name") /\ owed' = owed \ {"delete"}
  /\ i' = [i EXCEPT !["delete"] = currentUserIndex]
  /\ UNCHANGED <<held, seen, list, currentUserIndex, lcd>>

\* One entry moves up, the name before the mileage.
CopyNameShort ==        \* faulty: stops one entry early
  LET k == i["delete"] IN
  /\ \/ /\ k < numUsers - 2 /\ Goto("delete", "name", "mileage")
        /\ name' = [name EXCEPT ![k] = name[k + 1]]
     \/ k >= numUsers - 2 /\ Goto("delete", "name", "shrink") /\ UNCHANGED name
  /\ UNCHANGED <<panel, i, mileage, numUsers, currentUserIndex, lcd>>

CopyName ==
  LET k == i["delete"] IN
  /\ \/ /\ k < numUsers - 1 /\ Goto("delete", "name", "mileage")
        /\ name' = [name EXCEPT ![k] = name[k + 1]]
     \/ k >= numUsers - 1 /\ Goto("delete", "name", "shrink") /\ UNCHANGED name
  /\ UNCHANGED <<panel, i, mileage, numUsers, currentUserIndex, lcd>>

CopyMileage ==
  LET k == i["delete"] IN
  /\ Goto("delete", "mileage", "name") /\ i' = [i EXCEPT !["delete"] = k + 1]
  /\ mileage' = [mileage EXCEPT ![k] = mileage[k + 1]]
  /\ UNCHANGED <<panel, name, numUsers, currentUserIndex, lcd>>

Shrink ==
  /\ Goto("delete", "shrink", "check") /\ numUsers' = numUsers - 1
  /\ UNCHANGED <<panel, i, name, mileage, currentUserIndex, lcd>>

CheckSilent ==          \* faulty: only a cursor that moves is drawn
  /\ Goto("delete", "check", IF currentUserIndex >= numUsers THEN "wrap" ELSE "poll")
  /\ i' = [i EXCEPT !["delete"] = 0]
  /\ UNCHANGED <<panel, list, currentUserIndex, lcd>>

Check ==
  /\ Goto("delete", "check", IF currentUserIndex >= numUsers THEN "wrap" ELSE "init")
  /\ i' = [i EXCEPT !["delete"] = 0]
  /\ UNCHANGED <<panel, list, currentUserIndex, lcd>>

Wrap ==
  /\ Goto("delete", "wrap", "init") /\ currentUserIndex' = 0
  /\ UNCHANGED <<panel, i, list, lcd>>

-----------------------------------------------------------------------------
\* display_user and display_time: lcd_init, then a line after the other.
Drawing == {b \in Buttons : pc[b] \in {"line1", "line2"}}

\* The lines are written one after the other, each as it is drawn.
Draws(b, picture) ==
  lcd' = IF Drawing \subseteq {b} /\ lcd # Garbled THEN picture ELSE Garbled

InitLcd(b) ==
  /\ Goto(b, "init", "line1") /\ lcd' = IF Drawing = {} THEN Blank ELSE Garbled
  /\ UNCHANGED <<panel, i, list, currentUserIndex>>

Line1(b) ==
  /\ Goto(b, "line1", "line2")
  /\ Draws(b, [lcd EXCEPT ![1] = IF b = "time" THEN Clock[1]
                                 ELSE name[currentUserIndex]])
  /\ UNCHANGED <<panel, i, list, currentUserIndex>>

\* selectedUserIndex is -1 for ever, so that "Selected" is never shown.
Line2(b) ==
  /\ Goto(b, "line2", "poll")
  /\ Draws(b, [lcd EXCEPT ![2] = IF b = "time" THEN Clock[2]
                                 ELSE mileage[currentUserIndex]])
  /\ UNCHANGED <<panel, i, list, currentUserIndex>>

-----------------------------------------------------------------------------
Busy == held \cup owed \cup seen \cup {b \in Buttons : pc[b] # "poll"}

\* A press that follows a release nobody has seen goes unseen with it.
Press(b) ==
  /\ b \notin held /\ Cardinality(Busy \cup {b}) <= Hands
  /\ held' = held \cup {b} /\ owed' = owed \cup ({b} \ seen)
  /\ UNCHANGED <<seen, pc, i, list, currentUserIndex, lcd>>

\* So does a press shorter than the 50 ms between two polls.
Release(b) ==
  /\ b \in held /\ held' = held \ {b} /\ owed' = owed \ ({b} \ seen)
  /\ UNCHANGED <<seen, pc, i, list, currentUserIndex, lcd>>

Run(b) == \/ Poll(b) \/ InitLcd(b) \/ Line1(b) \/ Line2(b)
          \/ LoadCursor(b) \/ StoreCursor(b)
          \/ b = "delete" /\ (From \/ CopyName \/ CopyMileage \/ Shrink
                                \/ Check \/ Wrap)

Next == \E b \in Buttons : Run(b) \/ Press(b) \/ Release(b)

Spec == Init /\ [][Next]_vars

FairSpec == Spec /\ \A b \in Buttons : WF_vars(Run(b))

-----------------------------------------------------------------------------
ListTypeOK ==
  /\ held \subseteq Buttons /\ owed \subseteq Buttons /\ seen \subseteq Buttons
  /\ pc \in [Buttons -> {"poll", "load", "store", "from", "name", "mileage",
                         "shrink", "check", "wrap", "init", "line1", "line2"}]
  /\ i \in [Buttons -> Slots]
  /\ name \in [Slots -> 1 .. MAX_USERS] /\ mileage \in [Slots -> 1 .. MAX_USERS]
  /\ numUsers \in 0 .. MAX_USERS /\ currentUserIndex \in Slots

\* With all threads at rest the LCD shows both fields of the user the cursor
\* is on, or the time, unless two drawings overlapped: whatever moved the
\* cursor or the list draws after it has done so.
ShowsUser ==
  (\A b \in Buttons : pc[b] = "poll") =>
    lcd \in {Blank, Clock, Garbled,
             <<name[currentUserIndex], mileage[currentUserIndex]>>}

\* The list without the entry that a deletion is about to overwrite, or that
\* it has left behind in the moves so far.
Users ==
  LET deleting == pc["delete"] \in {"name", "mileage", "shrink"}
      hole == IF i["delete"] < numUsers THEN i["delete"] ELSE numUsers - 1
  IN [k \in 1 .. IF deleting THEN numUsers - 1 ELSE numUsers |->
        LET s == IF deleting /\ k > hole THEN k ELSE k - 1
        IN <<name[s], mileage[s]>>]

List == INSTANCE Roster WITH
  pressed  <- owed,
  users    <- Users,
  cursor   <- currentUserIndex,
  settling <- pc["delete"] \in {"name", "mileage", "shrink", "check", "wrap"}

\* Without a lock, and although an entry moves in two writes, no user is lost,
\* doubled or mixed with another, each press deletes one, and every press is
\* answered.
ImplementsRoster == List!FairSpec
=============================================================================
