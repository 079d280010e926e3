--------------------------- MODULE UserListProofs ---------------------------
(***************************************************************************)
(* Proofs, for any number of users and of buttons pressed at once, that    *)
(* the threads of slot1/button.c, which have no lock, lose no user, delete *)
(* one for each press, stay within the array and leave the LCD as it       *)
(* should be.                                                              *)
(***************************************************************************)
EXTENDS UserList, SequenceTheorems, TLAPS

Draw == {"init", "line1", "line2"}
Lane == [next     |-> {"poll", "load", "store"} \cup Draw,
         previous |-> {"poll", "load", "store"} \cup Draw,
         delete   |-> {"poll", "from", "name", "mileage", "shrink", "check", "wrap"}
                        \cup Draw,
         time     |-> {"poll"} \cup Draw]
Points == {"poll", "load", "store", "from", "name", "mileage", "shrink", "check",
           "wrap", "init", "line1", "line2"}

InLane == \A b \in Buttons : pc[b] \in Lane[b]

\* A press that has not been seen, or not been acted on, is owed.
Owing ==
  \A b \in Buttons :
    /\ b \in held \ seen => b \in owed
    /\ pc[b] # "poll" => b \in seen
    /\ pc[b] \in {"load", "store", "from"} => b \in owed

\* How far a deletion has come.  Its thread alone writes the list.
Deleting ==
  LET k == i["delete"] IN
  /\ pc["delete"] \in {"from", "name", "mileage", "shrink"} => numUsers > 0
  /\ pc["delete"] = "mileage" => k < numUsers - 1 /\ name[k] = name[k + 1]
  /\ pc["delete"] = "shrink" => k >= numUsers - 1

\* Some thread will draw from the beginning.
Pending == \E b \in Buttons : pc[b] \notin {"poll", "line1", "line2"}

Cursor == <<name[currentUserIndex], mileage[currentUserIndex]>>
First(b) == IF b = "time" THEN -1 ELSE name[currentUserIndex]

\* Two drawings at once garble the LCD.  If none is to come it shows what the
\* one under way has drawn, or what the last one drew.
Drawn ==
  /\ \A b, c \in Drawing : b # c => lcd = Garbled
  /\ ~Pending /\ lcd # Garbled =>
       /\ \A b \in Drawing : lcd = IF pc[b] = "line1" THEN Blank ELSE <<First(b), 0>>
       /\ Drawing = {} => lcd \in {Blank, Clock, Cursor}

IInv == ListTypeOK /\ InLane /\ Owing /\ Deleting /\ Drawn

-----------------------------------------------------------------------------
\* The array has a first slot.
LEMMA ListFacts ==
  /\ MAX_USERS \in Nat /\ MAX_USERS > 0 /\ 0 \in Slots
  /\ \A k \in Slots : k \in Nat /\ k < MAX_USERS
BY ListAssumption DEF ListAssumption, Slots

\* Where each thread can be.
LEMMA LaneFacts ==
  \A b \in Buttons :
    /\ Lane[b] \subseteq Points /\ {"poll", "init", "line1", "line2"} \subseteq Lane[b]
    /\ b \in {"next", "previous"} => {"load", "store"} \subseteq Lane[b]
    /\ b \notin {"next", "previous"} => {"load", "store"} \cap Lane[b] = {}
    /\ b # "delete" => Lane[b] \subseteq {"poll", "load", "store"} \cup Draw
BY DEF Lane, Points, Draw, Buttons

\* The invariant holds when the threads are started.
LEMMA InitIInv == Init => IInv
<1> SUFFICES ASSUME Init PROVE IInv
  OBVIOUS
<1>1. \A b \in Buttons : pc[b] = "poll"
  BY DEF Init
<1>2. ListTypeOK
  BY ListFacts DEF Init, ListTypeOK, Slots
<1>3. InLane /\ Owing
  BY <1>1, LaneFacts DEF InLane, Owing, Init
<1>4. Deleting
  BY <1>1 DEF Deleting, Buttons
<1>5. Drawn
  <2>1. Drawing = {}
    BY <1>1 DEF Drawing
  <2> QED
    BY <2>1 DEF Drawn, Init
<1> QED
  BY <1>2, <1>3, <1>4, <1>5 DEF IInv

\* A step of one thread leaves the others where they are.
LEMMA GotoEffect ==
  ASSUME IInv, NEW b \in Buttons, NEW from, NEW to \in Lane[b], Goto(b, from, to)
  PROVE  /\ pc[b] = from /\ pc'[b] = to /\ pc' \in [Buttons -> Points]
         /\ \A c \in Buttons \ {b} : pc'[c] = pc[c]
         /\ InLane'
<1>1. to \in Points /\ pc \in [Buttons -> Points]
  BY LaneFacts DEF IInv, ListTypeOK, Points
<1>2. /\ pc[b] = from /\ pc'[b] = to /\ pc' \in [Buttons -> Points]
      /\ \A c \in Buttons \ {b} : pc'[c] = pc[c]
  BY <1>1 DEF Goto
<1> QED
  BY <1>2 DEF IInv, InLane

\* Once a thread is to draw from the beginning the LCD may show anything.
LEMMA PendingKeepsDrawn ==
  ASSUME IInv, NEW b \in Buttons, pc[b] \notin {"line1", "line2"},
         pc'[b] \notin {"poll", "line1", "line2"},
         \A c \in Buttons \ {b} : pc'[c] = pc[c], UNCHANGED lcd
  PROVE  Drawn'
<1>1. Drawing' = Drawing
  BY DEF Drawing
<1>2. Pending'
  BY DEF Pending
<1> QED
  BY <1>1, <1>2 DEF IInv, Drawn

\* A step of another thread that leaves the list leaves the deletion alone.
LEMMA DeletingKept ==
  ASSUME IInv, UNCHANGED list, pc'["delete"] = pc["delete"],
         i'["delete"] = i["delete"]
  PROVE  Deleting'
BY DEF IInv, Deleting, list

\* The user presses and releases.
LEMMA UserKeeps ==
  ASSUME IInv, NEW b \in Buttons, Press(b) \/ Release(b)
  PROVE  IInv'
<1>1. UNCHANGED <<seen, pc, i, list, currentUserIndex, lcd>>
  BY DEF Press, Release
<1>2. ListTypeOK'
  BY <1>1 DEF IInv, ListTypeOK, list, Press, Release
<1>3. InLane' /\ Deleting'
  BY <1>1 DEF IInv, InLane, Deleting, list
<1>4. Owing'
  BY <1>1 DEF IInv, Owing, Press, Release
<1>5. Drawn'
  BY <1>1 DEF IInv, Drawn, Drawing, Pending, First, Cursor, list
<1> QED
  BY <1>2, <1>3, <1>4, <1>5 DEF IInv

\* Where a poll takes a thread, and what becomes of the press.
LEMMA PollGoes ==
  ASSUME IInv, NEW b \in Buttons, Poll(b)
  PROVE  \E to \in {"poll", "load", "from", "init"} :
           /\ Goto(b, "poll", to) /\ to \in Lane[b]
           /\ to = "from" => b = "delete" /\ numUsers > 0
           /\ \/ /\ b \in held \ seen /\ seen' = seen \cup {b}
                 /\ owed' = IF to \in {"poll", "init"} THEN owed \ {b} ELSE owed
                 /\ to = "init" => b = "time"
                 /\ to = "poll" => b = "delete" /\ ~(numUsers > 0)
              \/ /\ b \notin held \ seen /\ to = "poll"
                 /\ seen' = seen \ ({b} \ held) /\ UNCHANGED owed
<1>1. /\ Begin(b) \in {"poll", "load", "from", "init"} /\ Begin(b) \in Lane[b]
      /\ Begin(b) = "from" => b = "delete" /\ numUsers > 0
      /\ Begin(b) = "init" => b = "time"
      /\ Begin(b) = "poll" => b = "delete" /\ ~(numUsers > 0)
  BY DEF Begin, Buttons, Lane, Draw
<1> QED
  BY <1>1, LaneFacts DEF Poll

\* A thread reads its pin.
LEMMA PollKeeps == ASSUME IInv, NEW b \in Buttons, Poll(b) PROVE IInv'
<1>1. PICK to \in {"poll", "load", "from", "init"} :
        /\ Goto(b, "poll", to) /\ to \in Lane[b]
        /\ to = "from" => b = "delete" /\ numUsers > 0
        /\ \/ /\ b \in held \ seen /\ seen' = seen \cup {b}
              /\ owed' = IF to \in {"poll", "init"} THEN owed \ {b} ELSE owed
           \/ /\ b \notin held \ seen /\ to = "poll"
              /\ seen' = seen \ ({b} \ held) /\ UNCHANGED owed
  BY PollGoes
<1>2. UNCHANGED <<held, i, list, currentUserIndex, lcd>>
  BY DEF Poll
<1>3. /\ pc[b] = "poll" /\ pc'[b] = to /\ pc' \in [Buttons -> Points]
      /\ (\A c \in Buttons \ {b} : pc'[c] = pc[c]) /\ InLane'
  BY <1>1, GotoEffect
<1>4. owed' \subseteq Buttons /\ seen' \subseteq Buttons
  BY <1>1 DEF IInv, ListTypeOK
<1>5. ListTypeOK'
  BY <1>2, <1>3, <1>4 DEF IInv, ListTypeOK, Points, list
<1>6. Owing'
  BY <1>1, <1>2, <1>3 DEF IInv, Owing
<1>7. Deleting'
  BY <1>1, <1>2, <1>3 DEF IInv, Deleting, list, Buttons
<1>8. Drawn'
  <2>1. CASE to = "poll"
    <3>1. \A c \in Buttons : pc'[c] = pc[c]
      BY <1>3, <2>1
    <3>2. Drawing' = Drawing /\ (Pending' <=> Pending)
      BY <3>1 DEF Drawing, Pending
    <3> QED
      BY <1>2, <3>1, <3>2 DEF IInv, Drawn, First, Cursor, list, Drawing
  <2>2. CASE to # "poll"
    BY <1>1, <1>2, <1>3, <2>2, PendingKeepsDrawn
  <2> QED
    BY <2>1, <2>2
<1> QED
  BY <1>3, <1>5, <1>6, <1>7, <1>8 DEF IInv

\* (c + 1) % n and (c - 1 + n) % n are indexes again.
LEMMA StepInside ==
  ASSUME NEW b \in {"next", "previous"}, NEW c \in Slots PROVE Step(b, c) \in Slots
BY ListFacts DEF Step, Slots

\* Next and previous load and store the cursor.
LEMMA MoveKeeps ==
  ASSUME IInv, NEW b \in Buttons, LoadCursor(b) \/ StoreCursor(b)
  PROVE  IInv'
<1>1. b \in {"next", "previous"} /\ pc[b] \in {"load", "store"}
  BY LaneFacts DEF IInv, InLane, LoadCursor, StoreCursor, Goto
<1>2. PICK to \in {"store", "init"} :
        /\ Goto(b, pc[b], to)
        /\ to = "store" => UNCHANGED owed
        /\ to = "init" => owed' = owed \ {b}
  BY DEF LoadCursor, StoreCursor, Goto, panel
<1>3. UNCHANGED <<held, seen, list, lcd>>
  BY DEF LoadCursor, StoreCursor, panel
<1>4. /\ i' \in [Buttons -> Slots] /\ currentUserIndex' \in Slots
      /\ i'["delete"] = i["delete"]
  <2>1. /\ i \in [Buttons -> Slots] /\ currentUserIndex \in Slots /\ 0 \in Slots
        /\ Step(b, currentUserIndex) \in Slots
    BY <1>1, StepInside, ListFacts DEF IInv, ListTypeOK
  <2>2. CASE LoadCursor(b)
    BY <1>1, <2>1, <2>2 DEF LoadCursor, Buttons
  <2>3. CASE StoreCursor(b)
    BY <1>1, <2>1, <2>3 DEF StoreCursor, Buttons
  <2> QED
    BY <2>2, <2>3
<1>5. /\ pc'[b] = to /\ pc' \in [Buttons -> Points]
      /\ (\A c \in Buttons \ {b} : pc'[c] = pc[c]) /\ InLane'
  BY <1>1, <1>2, GotoEffect, LaneFacts
<1>6. ListTypeOK'
  BY <1>2, <1>3, <1>4, <1>5 DEF IInv, ListTypeOK, Points, list
<1>7. Owing'
  BY <1>1, <1>2, <1>3, <1>5 DEF IInv, Owing
<1>8. Deleting'
  BY <1>1, <1>3, <1>4, <1>5, DeletingKept DEF Buttons
<1>9. Drawn'
  BY <1>1, <1>3, <1>5, PendingKeepsDrawn
<1> QED
  BY <1>5, <1>6, <1>7, <1>8, <1>9 DEF IInv
-----------------------------------------------------------------------------
\* What the steps of a deletion have in common: the thread goes on to draw.
LEMMA DeleteStep ==
  ASSUME IInv, NEW from \in Points \ {"poll", "load", "store", "line1", "line2"},
         NEW to \in Lane["delete"] \ {"poll", "from", "line1", "line2"},
         Goto("delete", from, to), UNCHANGED <<held, seen, lcd>>,
         \/ UNCHANGED owed
         \/ owed' = owed \ {"delete"}
  PROVE  /\ pc["delete"] = from /\ pc'["delete"] = to /\ pc' \in [Buttons -> Points]
         /\ owed' \subseteq Buttons
         /\ \A c \in Buttons \ {"delete"} : pc'[c] = pc[c]
         /\ InLane' /\ Owing' /\ Drawn'
<1>1. /\ pc["delete"] = from /\ pc'["delete"] = to /\ pc' \in [Buttons -> Points]
      /\ (\A c \in Buttons \ {"delete"} : pc'[c] = pc[c]) /\ InLane'
  BY GotoEffect DEF Buttons
<1>2. to \notin {"load", "store"}
  BY LaneFacts DEF Buttons
<1>3. Owing'
  BY <1>1, <1>2 DEF IInv, Owing
<1>4. Drawn'
  BY <1>1, PendingKeepsDrawn DEF Buttons
<1>5. owed' \subseteq Buttons
  BY DEF IInv, ListTypeOK
<1> QED
  BY <1>1, <1>3, <1>4, <1>5

\* delete_current_user takes the entry out and moves the others up.
LEMMA DeleteKeeps ==
  ASSUME IInv, From \/ CopyName \/ CopyMileage \/ Shrink \/ Check \/ Wrap
  PROVE  IInv'
<1> DEFINE k == i["delete"]
<1>1. /\ i \in [Buttons -> Slots] /\ k \in Slots /\ k \in Nat
      /\ numUsers \in 0 .. MAX_USERS /\ numUsers \in Nat /\ MAX_USERS \in Nat
      /\ name \in [Slots -> 1 .. MAX_USERS] /\ mileage \in [Slots -> 1 .. MAX_USERS]
      /\ currentUserIndex \in Slots /\ 0 \in Slots
      /\ k < numUsers - 1 => k + 1 \in Slots
  <2>1. i \in [Buttons -> Slots] /\ numUsers \in 0 .. MAX_USERS /\ k \in Slots
    BY DEF IInv, ListTypeOK, Buttons
  <2>2. /\ k \in Nat /\ numUsers \in Nat /\ numUsers <= MAX_USERS
        /\ MAX_USERS \in Nat /\ 0 \in Slots
    BY <2>1, ListFacts
  <2>3. k < numUsers - 1 => k + 1 \in Slots
    BY <2>2 DEF Slots
  <2> QED
    BY <2>1, <2>2, <2>3 DEF IInv, ListTypeOK
<1>2. "delete" \in Buttons
  BY DEF Buttons
<1>3. {"name", "mileage", "shrink", "check", "wrap", "init"}
        \subseteq Lane["delete"] \ {"poll", "from", "line1", "line2"}
  BY DEF Lane, Draw
<1>4. {"from", "name", "mileage", "shrink", "check", "wrap"}
        \subseteq Points \ {"poll", "load", "store", "line1", "line2"}
  BY DEF Points
<1> DEFINE Kept(to) ==
             /\ pc'["delete"] = to /\ pc' \in [Buttons -> Points]
             /\ owed' \subseteq Buttons /\ InLane' /\ Owing' /\ Drawn'
<1>5. CASE From
  <2>1. pc["delete"] = "from" /\ Kept("name")
    BY <1>3, <1>4, <1>5, DeleteStep DEF From
  <2>2. i' \in [Buttons -> Slots] /\ UNCHANGED <<held, seen, list, currentUserIndex>>
    BY <1>1, <1>5 DEF From
  <2>3. ListTypeOK'
    BY <2>1, <2>2 DEF IInv, ListTypeOK, Points, list
  <2>4. Deleting'
    BY <2>1, <2>2 DEF IInv, Deleting, list
  <2> QED
    BY <2>1, <2>3, <2>4 DEF IInv
<1>6. CASE CopyName
  <2>1. PICK to \in {"mileage", "shrink"} :
          /\ Goto("delete", "name", to)
          /\ \/ to = "mileage" /\ k < numUsers - 1
                /\ name' = [name EXCEPT ![k] = name[k + 1]]
             \/ to = "shrink" /\ k >= numUsers - 1 /\ UNCHANGED name
    BY <1>6 DEF CopyName
  <2>2. UNCHANGED <<panel, i, mileage, numUsers, currentUserIndex, lcd>>
    BY <1>6 DEF CopyName
  <2>3. pc["delete"] = "name" /\ Kept(to)
    BY <1>3, <1>4, <2>1, <2>2, DeleteStep DEF panel
  <2>4. name' \in [Slots -> 1 .. MAX_USERS]
    BY <1>1, <2>1
  <2>5. ListTypeOK'
    BY <2>2, <2>3, <2>4 DEF IInv, ListTypeOK, Points, panel
  <2>6. Deleting'
    BY <1>1, <2>1, <2>2, <2>3 DEF IInv, Deleting
  <2> QED
    BY <2>3, <2>5, <2>6 DEF IInv
<1>7. CASE CopyMileage
  <2>1. pc["delete"] = "mileage" /\ Kept("name")
    BY <1>3, <1>4, <1>7, DeleteStep DEF CopyMileage, panel
  <2>2. k + 1 \in Slots
    BY <1>1, <2>1 DEF IInv, Deleting
  <2>3. /\ i' \in [Buttons -> Slots] /\ mileage' \in [Slots -> 1 .. MAX_USERS]
        /\ UNCHANGED <<panel, name, numUsers, currentUserIndex>>
    BY <1>1, <1>7, <2>2 DEF CopyMileage
  <2>4. ListTypeOK'
    BY <2>1, <2>3 DEF IInv, ListTypeOK, Points, panel
  <2>5. Deleting'
    BY <2>1, <2>3 DEF IInv, Deleting
  <2> QED
    BY <2>1, <2>4, <2>5 DEF IInv
<1>8. CASE Shrink
  <2>1. pc["delete"] = "shrink" /\ Kept("check")
    BY <1>3, <1>4, <1>8, DeleteStep DEF Shrink, panel
  <2>2. numUsers' \in 0 .. MAX_USERS
    BY <1>1, <1>8, <2>1 DEF IInv, Deleting, Shrink
  <2>3. ListTypeOK'
    BY <1>8, <2>1, <2>2 DEF IInv, ListTypeOK, Points, panel, Shrink
  <2>4. Deleting'
    BY <2>1 DEF Deleting
  <2> QED
    BY <2>1, <2>3, <2>4 DEF IInv
<1>9. CASE Check \/ Wrap
  <2>1. PICK from \in {"check", "wrap"}, to \in {"wrap", "init"} :
          Goto("delete", from, to)
    BY <1>9 DEF Check, Wrap
  <2>2. UNCHANGED <<panel, list, lcd>>
    BY <1>9 DEF Check, Wrap
  <2>3. pc["delete"] = from /\ Kept(to)
    BY <1>3, <1>4, <2>1, <2>2, DeleteStep DEF panel
  <2>4. i' \in [Buttons -> Slots] /\ currentUserIndex' \in Slots
    BY <1>1, <1>9 DEF Check, Wrap
  <2>5. ListTypeOK'
    BY <2>2, <2>3, <2>4 DEF IInv, ListTypeOK, Points, panel, list
  <2>6. Deleting'
    BY <2>3 DEF Deleting
  <2> QED
    BY <2>3, <2>5, <2>6 DEF IInv
<1> QED
  BY <1>5, <1>6, <1>7, <1>8, <1>9

-----------------------------------------------------------------------------
\* What the steps of display_user and display_time have in common.
LEMMA DrawStep ==
  ASSUME IInv, NEW b \in Buttons, NEW from \in Draw,
         NEW to \in {"line1", "line2", "poll"}, Goto(b, from, to),
         UNCHANGED <<panel, i, list, currentUserIndex>>
  PROVE  /\ pc[b] = from /\ pc'[b] = to /\ \A c \in Buttons \ {b} : pc'[c] = pc[c]
         /\ ListTypeOK' /\ InLane' /\ Owing' /\ Deleting'
<1>1. /\ pc[b] = from /\ pc'[b] = to /\ pc' \in [Buttons -> Points]
      /\ (\A c \in Buttons \ {b} : pc'[c] = pc[c]) /\ InLane'
  BY GotoEffect, LaneFacts
<1>2. ListTypeOK'
  BY <1>1 DEF IInv, ListTypeOK, Points, panel, list
<1>3. Owing'
  BY <1>1 DEF IInv, Owing, panel, Draw
<1>4. Deleting'
  <2>1. CASE b = "delete"
    BY <1>1, <2>1 DEF Deleting
  <2>2. CASE b # "delete"
    BY <1>1, <2>2, DeletingKept DEF Buttons
  <2> QED
    BY <2>1, <2>2
<1> QED
  BY <1>1, <1>2, <1>3, <1>4

\* A drawing starts with lcd_init.
LEMMA InitLcdKeeps == ASSUME IInv, NEW b \in Buttons, InitLcd(b) PROVE IInv'
<1>1. /\ pc[b] = "init" /\ pc'[b] = "line1" /\ \A c \in Buttons \ {b} : pc'[c] = pc[c]
      /\ ListTypeOK' /\ InLane' /\ Owing' /\ Deleting'
  BY DrawStep DEF InitLcd, Draw
<1>2. Drawing' = Drawing \cup {b}
  BY <1>1 DEF Drawing
<1>3. Drawn'
  <2>1. CASE Drawing = {}
    <3>1. lcd' = Blank /\ Drawing' = {b}
      BY <1>2, <2>1 DEF InitLcd
    <3> QED
      BY <1>1, <3>1 DEF Drawn
  <2>2. CASE Drawing # {}
    BY <2>2 DEF Drawn, InitLcd
  <2> QED
    BY <2>1, <2>2
<1> QED
  BY <1>1, <1>3 DEF IInv

\* Writes its lines.
LEMMA LineKeeps == ASSUME IInv, NEW b \in Buttons, Line1(b) \/ Line2(b) PROVE IInv'
<1>1. PICK from \in {"line1", "line2"} :
        /\ Goto(b, from, IF from = "line1" THEN "line2" ELSE "poll")
        /\ from = "line1" => Draws(b, [lcd EXCEPT ![1] = First(b)])
        /\ from = "line2" =>
             Draws(b, [lcd EXCEPT ![2] = IF b = "time" THEN -1
                                         ELSE mileage[currentUserIndex]])
  BY DEF Line1, Line2, First, Clock
<1>2. UNCHANGED <<panel, i, list, currentUserIndex>>
  BY DEF Line1, Line2
<1> DEFINE to == IF from = "line1" THEN "line2" ELSE "poll"
<1>3. /\ pc[b] = from /\ pc'[b] = to /\ \A c \in Buttons \ {b} : pc'[c] = pc[c]
      /\ ListTypeOK' /\ InLane' /\ Owing' /\ Deleting'
  BY <1>1, <1>2, DrawStep DEF Draw
<1>4. b \in Drawing /\ Drawing' = IF from = "line1" THEN Drawing ELSE Drawing \ {b}
  BY <1>3 DEF Drawing
<1>5. Pending' <=> Pending
  BY <1>3 DEF Pending
<1>6. Drawn'
  <2>1. CASE lcd' = Garbled
    BY <2>1 DEF Drawn
  <2>2. CASE lcd' # Garbled
    <3>1. lcd # Garbled /\ Drawing = {b}
      BY <1>1, <1>4, <2>2 DEF Draws
    <3>2. (First(b))' = First(b) /\ Cursor' = Cursor
      BY <1>2 DEF First, Cursor, list
    <3>3. CASE from = "line1"
      <4>1. Drawing' = {b} /\ lcd' = [lcd EXCEPT ![1] = First(b)]
        BY <1>1, <1>4, <3>1, <3>3 DEF Draws
      <4>2. ~Pending => lcd' = <<First(b), 0>>
        BY <1>3, <3>1, <3>3, <4>1 DEF IInv, Drawn, Blank
      <4> QED
        BY <1>3, <1>5, <3>2, <3>3, <4>1, <4>2 DEF Drawn
    <3>4. CASE from = "line2"
      <4>1. Drawing' = {} /\ lcd' = [lcd EXCEPT ![2] = IF b = "time" THEN -1
                                                 ELSE mileage[currentUserIndex]]
        BY <1>1, <1>4, <3>1, <3>4 DEF Draws
      <4>2. ~Pending => lcd = <<First(b), 0>>
        BY <1>3, <3>1, <3>4 DEF IInv, Drawn
      <4>3. ~Pending => lcd' \in {Clock, Cursor}
        BY <4>1, <4>2 DEF First, Clock, Cursor
      <4> QED
        BY <1>5, <3>2, <4>1, <4>3 DEF Drawn
    <3> QED
      BY <3>3, <3>4
  <2> QED
    BY <2>1, <2>2
<1> QED
  BY <1>3, <1>6 DEF IInv

\* No step breaks the invariant.
LEMMA NextKeepsIInv == IInv /\ [Next]_vars => IInv'
<1> SUFFICES ASSUME IInv, [Next]_vars PROVE IInv'
  OBVIOUS
<1>1. CASE UNCHANGED vars
  <2>1. ListTypeOK' /\ InLane' /\ Owing'
    BY <1>1 DEF vars, panel, list, IInv, ListTypeOK, InLane, Owing
  <2>2. Deleting' /\ Drawn'
    BY <1>1 DEF vars, panel, list, IInv, Deleting, Drawn, Drawing, Pending,
                First, Cursor
  <2> QED
    BY <2>1, <2>2 DEF IInv
<1> QED
  BY <1>1, UserKeeps, PollKeeps, MoveKeeps, DeleteKeeps, InitLcdKeeps, LineKeeps
  DEF Next, Run

\* The inductive invariant holds in every reachable state.
LEMMA IInvAlways == Spec => []IInv
BY InitIInv, NextKeepsIInv, PTL DEF Spec

-----------------------------------------------------------------------------
\* No thread of button.c ever takes an index out of the array, and the
\* fields stay those of the users it began with (button.c:85-140).
THEOREM ListTypeCorrect == Spec => []ListTypeOK
<1>1. IInv => ListTypeOK
  BY DEF IInv
<1> QED
  BY <1>1, IInvAlways, PTL

\* Once all threads of button.c are at rest the LCD shows the user the cursor
\* is on, or the time, unless two drawings overlapped.
THEOREM LcdShowsUser == Spec => []ShowsUser
<1>1. IInv => ShowsUser
  BY DEF IInv, Drawn, Drawing, Pending, Cursor, ShowsUser
<1> QED
  BY <1>1, IInvAlways, PTL
-----------------------------------------------------------------------------
\* The refinement: the array as the list of users it stands for.
Removing == pc["delete"] \in {"name", "mileage", "shrink"}
Settling == pc["delete"] \in {"name", "mileage", "shrink", "check", "wrap"}
Hole == IF i["delete"] < numUsers THEN i["delete"] ELSE numUsers - 1
Entry(s) == <<name[s], mileage[s]>>
All == [k \in 1 .. numUsers |-> Entry(k - 1)]
Others == [k \in 1 .. numUsers - 1 |-> IF k > Hole THEN Entry(k) ELSE Entry(k - 1)]

\* The list of the roster is the array, without the hole of a deletion.
LEMMA UsersAre == Users = IF Removing THEN Others ELSE All
<1>1. CASE Removing
  BY <1>1 DEF Users, Removing, Others, Hole, Entry
<1>2. CASE ~Removing
  BY <1>2 DEF Users, Removing, All, Entry
<1> QED
  BY <1>1, <1>2

\* The same of the next state.
LEMMA UsersNext == Users' = IF Removing' THEN Others' ELSE All'
<1>1. CASE Removing'
  BY <1>1 DEF Users, Removing, Others, Hole, Entry
<1>2. CASE ~Removing'
  BY <1>2 DEF Users, Removing, All, Entry
<1> QED
  BY <1>1, <1>2

\* A step that leaves the list leaves the users, unless a deletion begins.
LEMMA UsersKept ==
  ASSUME UNCHANGED list, Removing' <=> Removing,
         Removing => i'["delete"] = i["delete"]
  PROVE  Users' = Users
<1>1. All' = All
  BY DEF All, Entry, list
<1>2. Removing => Others' = Others
  BY DEF Others, Hole, Entry, list
<1> QED
  BY <1>1, <1>2, UsersAre, UsersNext

\* What the abstract list does to a sequence, entry by entry.
LEMMA RemoveAtIs ==
  ASSUME NEW S, NEW s \in Seq(S), NEW c \in 0 .. Len(s) - 1
  PROVE  List!RemoveAt(s, c + 1)
           = [k \in 1 .. Len(s) - 1 |-> IF k > c THEN s[k + 1] ELSE s[k]]
<1> DEFINE p == SubSeq(s, 1, (c + 1) - 1)
           q == SubSeq(s, (c + 1) + 1, Len(s))
           r == [k \in 1 .. Len(s) - 1 |-> IF k > c THEN s[k + 1] ELSE s[k]]
<1>0. Len(s) \in Nat /\ c \in Nat /\ c <= Len(s) - 1
  OBVIOUS
<1>1. p \in Seq(S) /\ Len(p) = c /\ \A k \in 1 .. c : p[k] = s[k]
  OBVIOUS
<1>2. /\ q \in Seq(S) /\ Len(q) = Len(s) - 1 - c
      /\ \A k \in 1 .. Len(s) - 1 - c : q[k] = s[k + c + 1]
  OBVIOUS
<1>3. List!RemoveAt(s, c + 1) = p \o q
  BY DEF List!RemoveAt
<1> HIDE DEF p, q
<1>4. p \o q \in Seq(S) /\ Len(p \o q) = Len(s) - 1
  <2>1. p \o q \in Seq(S) /\ Len(p \o q) = Len(p) + Len(q)
    BY <1>1, <1>2, ConcatProperties
  <2> QED
    BY <1>0, <1>1, <1>2, <2>1
<1>5. ASSUME NEW k \in 1 .. Len(s) - 1 PROVE (p \o q)[k] = r[k]
  <2>1. CASE k <= c
    BY <1>1, <1>2, <2>1
  <2>2. CASE k > c
    <3>1. (p \o q)[k] = q[k - c] /\ k - c \in 1 .. Len(s) - 1 - c
      BY <1>1, <1>2, <2>2
    <3> QED
      BY <1>2, <2>2, <3>1
  <2>3. k <= c \/ k > c
    BY <1>0
  <2> QED
    BY <2>1, <2>2, <2>3
<1>6. r \in Seq(S) /\ Len(r) = Len(s) - 1
  <2>1. \A k \in 1 .. Len(s) - 1 : k + 1 \in 1 .. Len(s) /\ k \in 1 .. Len(s)
    OBVIOUS
  <2> QED
    BY <2>1
<1> HIDE DEF r
<1>7. p \o q = r
  BY <1>4, <1>5, <1>6, SeqEqual
<1> QED
  BY <1>3, <1>7 DEF r

\* The array without its last slot.
LEMMA FrontIs ==
  ASSUME NEW S, NEW s \in Seq(S), s # <<>>
  PROVE  List!Front(s) = [k \in 1 .. Len(s) - 1 |-> s[k]]
BY DEF List!Front

-----------------------------------------------------------------------------
\* The two functions that answer a press without a deletion in hand.
LEMMA UserInRoster ==
  ASSUME IInv, NEW b \in Buttons, Press(b) \/ Release(b)
  PROVE  List!Press(b) \/ List!Release(b)
<1>1. UNCHANGED <<seen, pc, i, list, currentUserIndex>>
  BY DEF Press, Release
<1>2. Users' = Users /\ (Settling' <=> Settling)
  BY <1>1, UsersKept DEF Removing, Settling
<1>3. CASE Press(b)
  BY <1>1, <1>2, <1>3 DEF Press, List!Press, Settling
<1>4. CASE Release(b)
  BY <1>1, <1>2, <1>4 DEF Release, List!Release, Settling
<1> QED
  BY <1>3, <1>4

\* A press that is seen: the time is about to be shown, or there is nothing
\* left to delete, or nothing happens yet.
LEMMA PollInRoster ==
  ASSUME IInv, NEW b \in Buttons, Poll(b)
  PROVE  List!Serve(b) \/ UNCHANGED List!vars
<1>1. UNCHANGED <<held, i, list, currentUserIndex>>
  BY DEF Poll
<1>2. PICK to \in {"poll", "load", "from", "init"} :
        /\ Goto(b, "poll", to) /\ to \in Lane[b]
        /\ \/ /\ b \in held \ seen
              /\ owed' = IF to \in {"poll", "init"} THEN owed \ {b} ELSE owed
              /\ to = "init" => b = "time"
              /\ to = "poll" => b = "delete" /\ ~(numUsers > 0)
           \/ UNCHANGED owed
  BY PollGoes
<1>3. /\ pc[b] = "poll" /\ pc'[b] = to
      /\ \A c \in Buttons \ {b} : pc'[c] = pc[c]
  BY <1>2, GotoEffect
<1>4. Users' = Users /\ (Settling' <=> Settling)
  <2>1. (Removing' <=> Removing) /\ (Settling' <=> Settling)
    BY <1>3 DEF Removing, Settling, Buttons
  <2> QED
    BY <1>1, <2>1, UsersKept
<1>5. CASE UNCHANGED owed
  BY <1>1, <1>4, <1>5 DEF List!vars, Settling
<1>6. CASE owed' # owed
  <2>1. /\ b \in owed /\ owed' = owed \ {b}
        /\ \/ b = "time"
           \/ b = "delete" /\ ~(numUsers > 0)
    <3>1. owed' = owed \ {b} /\ to \in {"poll", "init"}
      BY <1>2, <1>6
    <3>2. b \in owed
      BY <1>6, <3>1
    <3> QED
      BY <1>2, <1>6, <3>1, <3>2
  <2>2. CASE b = "time"
    BY <1>1, <1>4, <2>1, <2>2
    DEF List!Serve, List!ShowTime, List!Answer, Settling
  <2>3. CASE b = "delete"
    <3>1. numUsers = 0 /\ ~Settling /\ ~Removing
      BY <1>3, <2>1, <2>3 DEF IInv, ListTypeOK, Settling, Removing
    <3>2. Users = <<>>
      BY <3>1, UsersAre DEF All
    <3> QED
      BY <1>1, <1>4, <2>1, <2>3, <3>1, <3>2
      DEF List!Serve, List!Delete, List!Answer, Settling
  <2> QED
    BY <2>1, <2>2, <2>3
<1> QED
  BY <1>5, <1>6

\* Loads and stores of the cursor are moves of the roster, or none.
LEMMA MoveInRoster ==
  ASSUME IInv, NEW b \in Buttons, LoadCursor(b) \/ StoreCursor(b)
  PROVE  List!Serve(b) \/ UNCHANGED List!vars
<1>1. b \in {"next", "previous"}
  BY LaneFacts DEF IInv, InLane, LoadCursor, StoreCursor, Goto
<1>2. pc'["delete"] = pc["delete"] /\ i'["delete"] = i["delete"]
  BY <1>1 DEF IInv, ListTypeOK, LoadCursor, StoreCursor, Goto, Buttons
<1>3. UNCHANGED <<held, list>>
  BY DEF LoadCursor, StoreCursor, panel
<1>4. Users' = Users /\ (Settling' <=> Settling)
  BY <1>2, <1>3, UsersKept DEF Removing, Settling
<1>5. CASE LoadCursor(b)
  BY <1>3, <1>4, <1>5 DEF LoadCursor, panel, List!vars, Settling
<1>6. CASE StoreCursor(b)
  <2>1. b \in owed /\ owed' = owed \ {b} /\ currentUserIndex' \in List!Slots
    BY <1>6 DEF IInv, Owing, ListTypeOK, StoreCursor, Goto, List!Slots, Slots
  <2> QED
    BY <1>1, <1>3, <1>4, <2>1 DEF List!Serve, List!Move, List!Answer, Settling
<1> QED
  BY <1>5, <1>6

\* Polls and drawings are no steps of the roster.
LEMMA DrawInRoster ==
  ASSUME IInv, NEW b \in Buttons, InitLcd(b) \/ Line1(b) \/ Line2(b)
  PROVE  UNCHANGED List!vars
<1>1. UNCHANGED <<panel, i, list, currentUserIndex>>
  BY DEF InitLcd, Line1, Line2
<1>2. (Removing' <=> Removing) /\ (Settling' <=> Settling)
  <2>1. PICK from \in Draw, to \in {"line1", "line2", "poll"} : Goto(b, from, to)
    BY DEF InitLcd, Line1, Line2, Draw
  <2>2. /\ pc[b] = from /\ pc'[b] = to /\ \A c \in Buttons \ {b} : pc'[c] = pc[c]
    BY <1>1, <2>1, DrawStep
  <2> QED
    BY <2>2 DEF Removing, Settling, Buttons, Draw
<1>3. Users' = Users
  BY <1>1, <1>2, UsersKept
<1> QED
  BY <1>1, <1>2, <1>3 DEF List!vars, panel, Settling

-----------------------------------------------------------------------------
\* A deletion takes effect when it has read the cursor.
LEMMA FromInRoster == ASSUME IInv, From PROVE List!Serve("delete")
<1>1. /\ pc["delete"] = "from" /\ pc'["delete"] = "name"
      /\ i'["delete"] = currentUserIndex
      /\ numUsers \in Nat /\ numUsers > 0 /\ currentUserIndex \in Nat
  <2>1. currentUserIndex \in Nat
    BY ListFacts DEF IInv, ListTypeOK
  <2> QED
    BY <2>1 DEF IInv, ListTypeOK, Deleting, From, Goto, Buttons
<1>2. UNCHANGED <<held, list, currentUserIndex>>
  BY DEF From
<1>3. ~Settling /\ Settling'
  BY <1>1 DEF Settling
<1>4. "delete" \in owed /\ owed' = owed \ {"delete"}
  BY <1>1 DEF IInv, Owing, From, Buttons
<1>5. Users = All /\ Users' = Others'
  BY <1>1, UsersAre, UsersNext DEF Removing
<1> DEFINE S == {Entry(k - 1) : k \in 1 .. numUsers}
           c == currentUserIndex
<1>6. /\ All \in Seq(S) /\ Len(All) = numUsers /\ All # <<>>
      /\ \A k \in 1 .. numUsers : All[k] = Entry(k - 1)
  <2>1. \A k \in 1 .. numUsers : Entry(k - 1) \in S
    OBVIOUS
  <2> HIDE DEF S
  <2>2. All \in Seq(S) /\ Len(All) = numUsers
    BY <1>1, <2>1 DEF All
  <2>3. \A k \in 1 .. numUsers : All[k] = Entry(k - 1)
    BY DEF All
  <2> QED
    BY <1>1, <2>2, <2>3
<1>7. Others' = [k \in 1 .. numUsers - 1 |->
                   IF k > (IF c < numUsers THEN c ELSE numUsers - 1)
                   THEN Entry(k) ELSE Entry(k - 1)]
  BY <1>1, <1>2 DEF Others, Hole, Entry, list
<1>8. \A k \in 1 .. numUsers - 1 : /\ All[k + 1] = Entry(k) /\ All[k] = Entry(k - 1)
                                   /\ k \in Nat /\ k <= numUsers - 1
  <2>1. \A k \in 1 .. numUsers - 1 : /\ k + 1 \in 1 .. numUsers /\ (k + 1) - 1 = k
                                     /\ k \in 1 .. numUsers
    BY <1>1
  <2> QED
    BY <1>1, <1>6, <2>1
<1>9. CASE c < numUsers
  <2>1. c \in 0 .. Len(All) - 1
    BY <1>1, <1>6, <1>9
  <2>2. List!RemoveAt(All, c + 1)
          = [k \in 1 .. Len(All) - 1 |-> IF k > c THEN All[k + 1] ELSE All[k]]
    BY <1>6, <2>1, RemoveAtIs
  <2>3. Others' = List!RemoveAt(All, c + 1)
    BY <1>6, <1>7, <1>8, <1>9, <2>2
  <2> QED
    BY <1>2, <1>3, <1>4, <1>5, <1>6, <1>9, <2>3
    DEF List!Serve, List!Delete, List!Answer, Settling
<1>10. CASE ~(c < numUsers)
  <2>1. List!Front(All) = [k \in 1 .. Len(All) - 1 |-> All[k]]
    BY <1>6, FrontIs
  <2>2. \A k \in 1 .. numUsers - 1 : ~(k > numUsers - 1)
    BY <1>1, <1>8
  <2>3. Others' = List!Front(All)
    BY <1>6, <1>7, <1>8, <1>10, <2>1, <2>2
  <2>4. c >= Len(All)
    BY <1>1, <1>6, <1>10
  <2> QED
    BY <1>2, <1>3, <1>4, <1>5, <1>6, <2>3, <2>4
    DEF List!Serve, List!Delete, List!Answer, Settling
<1> QED
  BY <1>9, <1>10

\* Its moves leave the users as they are: an entry that has moved up but for
\* its mileage is not read, nor is the last one when the others have moved.
LEMMA CopyInRoster ==
  ASSUME IInv, CopyName \/ CopyMileage
  PROVE  UNCHANGED List!vars
<1> DEFINE k == i["delete"]
<1>1. /\ k \in Slots /\ k \in Nat /\ numUsers \in Nat /\ i \in [Buttons -> Slots]
      /\ name \in [Slots -> 1 .. MAX_USERS] /\ mileage \in [Slots -> 1 .. MAX_USERS]
  <2>1. k \in Slots
    BY DEF IInv, ListTypeOK, Buttons
  <2> QED
    BY <2>1, ListFacts DEF IInv, ListTypeOK
<1>2. UNCHANGED <<panel, numUsers, currentUserIndex>>
  BY DEF CopyName, CopyMileage
<1>3. /\ pc["delete"] \in {"name", "mileage"}
      /\ pc'["delete"] \in {"name", "mileage", "shrink"}
  BY DEF CopyName, CopyMileage, Goto, IInv, ListTypeOK, Buttons
<1>4. /\ Removing /\ Removing' /\ Settling /\ Settling'
      /\ Users = Others /\ Users' = Others'
  BY <1>3, UsersAre, UsersNext DEF Removing, Settling
<1> DEFINE At(m) == IF m > Hole THEN m ELSE m - 1
<1>5. Others = [m \in 1 .. numUsers - 1 |-> Entry(At(m))]
  BY DEF Others
<1>6. ASSUME NEW m \in 1 .. numUsers - 1
      PROVE  (IF m > Hole THEN Entry(m) ELSE Entry(m - 1))'
                = IF m > Hole THEN Entry(m) ELSE Entry(m - 1)
  <2>1. m \in Nat /\ m > 0 /\ m < numUsers
    BY <1>1
  <2>2. CASE CopyName
    <3>1. Hole' = Hole /\ UNCHANGED mileage
      BY <2>2 DEF CopyName, Hole
    <3>2. CASE UNCHANGED name
      BY <3>1, <3>2 DEF Entry
    <3>3. CASE k < numUsers - 1 /\ name' = [name EXCEPT ![k] = name[k + 1]]
      <4>1. Hole = k
        BY <1>1, <3>3 DEF Hole
      <4>2. \A s \in Int : s # k => name'[s] = name[s]
        BY <1>1, <3>3
      <4> QED
        BY <1>1, <2>1, <3>1, <4>1, <4>2 DEF Entry
    <3> QED
      BY <2>2, <3>2, <3>3 DEF CopyName
  <2>3. CASE CopyMileage
    <3>1. k < numUsers - 1 /\ name[k] = name[k + 1]
      BY <2>3 DEF IInv, Deleting, CopyMileage, Goto
    <3>2. i'["delete"] = k + 1 /\ UNCHANGED <<name, numUsers>>
      BY <1>1, <2>3 DEF CopyMileage, Buttons
    <3>3. Hole = k /\ Hole' = k + 1
      BY <1>1, <3>1, <3>2 DEF Hole
    <3>4. /\ \A s \in Int : s # k => mileage'[s] = mileage[s]
          /\ mileage'[k] = mileage[k + 1]
      BY <1>1, <2>3 DEF CopyMileage
    <3>5. CASE m > k + 1
      BY <1>1, <2>1, <3>2, <3>3, <3>4, <3>5 DEF Entry
    <3>6. CASE m = k + 1
      BY <1>1, <2>1, <3>1, <3>2, <3>3, <3>4, <3>6 DEF Entry
    <3>7. CASE m <= k
      BY <1>1, <2>1, <3>2, <3>3, <3>4, <3>7 DEF Entry
    <3> QED
      BY <1>1, <2>1, <3>5, <3>6, <3>7
  <2> QED
    BY <2>2, <2>3
<1>7. Others' = Others
  BY <1>2, <1>6 DEF Others
<1> QED
  BY <1>2, <1>4, <1>7 DEF List!vars, panel, Settling

\* numUsers-- drops the hole, which the roster never had.
LEMMA ShrinkInRoster == ASSUME IInv, Shrink PROVE UNCHANGED List!vars
<1>1. /\ pc["delete"] = "shrink" /\ pc'["delete"] = "check"
      /\ i["delete"] >= numUsers - 1 /\ numUsers > 0 /\ numUsers \in Nat
      /\ i["delete"] \in Slots
  BY DEF IInv, ListTypeOK, Deleting, Shrink, Goto, Buttons
<1>2. UNCHANGED <<panel, i, name, mileage, currentUserIndex>>
      /\ numUsers' = numUsers - 1
  BY DEF Shrink
<1>3. Settling /\ Settling' /\ Users = Others /\ Users' = All'
  BY <1>1, UsersAre, UsersNext DEF Removing, Settling
<1>4. Hole = numUsers - 1
  BY <1>1, ListFacts DEF Hole
<1>5. Others = [k \in 1 .. numUsers - 1 |-> Entry(k - 1)]
  <2>1. \A k \in 1 .. numUsers - 1 : ~(k > Hole)
    BY <1>1, <1>4
  <2> QED
    BY <2>1 DEF Others
<1>6. All' = [k \in 1 .. numUsers - 1 |-> Entry(k - 1)]
  BY <1>2 DEF All, Entry
<1> QED
  BY <1>2, <1>3, <1>5, <1>6 DEF List!vars, panel, Settling

\* It is over when the cursor has been looked at again.
LEMMA SettleInRoster ==
  ASSUME IInv, Check \/ Wrap
  PROVE  List!Settle \/ UNCHANGED List!vars
<1>1. PICK from \in {"check", "wrap"}, to \in {"wrap", "init"} :
        /\ pc["delete"] = from /\ pc'["delete"] = to
        /\ from = "check" => UNCHANGED currentUserIndex
        /\ from = "wrap" => to = "init" /\ currentUserIndex' = 0
  BY DEF IInv, ListTypeOK, Check, Wrap, Goto, Buttons
<1>2. UNCHANGED <<panel, list>>
  BY DEF Check, Wrap
<1>3. Users' = Users
  BY <1>1, <1>2, UsersKept DEF Removing
<1>4. Settling /\ (Settling' <=> to = "wrap")
  BY <1>1 DEF Settling
<1>5. CASE to = "wrap"
  BY <1>1, <1>2, <1>3, <1>4, <1>5 DEF List!vars, panel, Settling
<1>6. CASE to = "init"
  BY <1>1, <1>2, <1>3, <1>4, <1>6 DEF List!Settle, panel, Settling
<1> QED
  BY <1>5, <1>6

-----------------------------------------------------------------------------
\* Both start with the same users.
LEMMA InitInRoster == Init => List!Init
<1> SUFFICES ASSUME Init PROVE List!Init
  OBVIOUS
<1>1. ~Removing /\ ~Settling
  BY DEF Init, Removing, Settling, Buttons
<1>2. Users = [k \in 1 .. MAX_USERS |-> Entry(k - 1)]
  BY <1>1, UsersAre DEF All, Init
<1>3. ASSUME NEW k \in 1 .. MAX_USERS PROVE Entry(k - 1) = <<k, k>>
  <2>1. k - 1 \in Slots /\ (k - 1) + 1 = k
    BY ListFacts DEF Slots
  <2> QED
    BY <2>1 DEF Init, Entry
<1>4. Users = List!Everybody
  BY <1>2, <1>3 DEF List!Everybody
<1> QED
  BY <1>1, <1>4 DEF Init, List!Init, Settling

\* Every step of the threads is a step of Roster, or none.
LEMMA NextInRoster == IInv /\ [Next]_vars => [List!Next]_(List!vars)
<1> SUFFICES ASSUME IInv, [Next]_vars PROVE [List!Next]_(List!vars)
  OBVIOUS
<1>1. Buttons = List!Buttons /\ "delete" \in Buttons
  BY DEF Buttons, List!Buttons
<1>2. CASE UNCHANGED vars
  <2>1. Users' = Users
    BY <1>2, UsersKept DEF vars, Removing
  <2> QED
    BY <1>2, <2>1 DEF vars, panel, List!vars
<1>3. ASSUME NEW b \in Buttons, Run(b)
      PROVE  List!Serve(b) \/ List!Settle \/ UNCHANGED List!vars
  BY <1>3, PollInRoster, MoveInRoster, DrawInRoster, FromInRoster, CopyInRoster,
     ShrinkInRoster, SettleInRoster DEF Run
<1>4. ASSUME NEW b \in Buttons, Press(b) \/ Release(b)
      PROVE  List!Press(b) \/ List!Release(b)
  BY <1>4, UserInRoster
<1> QED
  BY <1>1, <1>2, <1>3, <1>4 DEF Next, List!Next

\* Although button.c has no lock, and an entry moves up in two writes, the
\* array stands for the list of those users that no press has deleted, each
\* press deletes one, the user the cursor is on if there is one, and the
\* cursor stays inside the array.  (That each press is answered at all is the
\* rest of ImplementsRoster.)
THEOREM NoUserLost == Spec => List!Spec
<1>1. Init => List!Init
  BY InitInRoster
<1>2. IInv /\ [Next]_vars => [List!Next]_(List!vars)
  BY NextInRoster
<1> QED
  BY <1>1, <1>2, IInvAlways, PTL DEF Spec, List!Spec
=============================================================================
