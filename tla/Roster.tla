------------------------------- MODULE Roster -------------------------------
(***************************************************************************)
(* What the user list of slot1/button.c promises whatever its four buttons *)
(* do at the same time: one press deletes one user, the one the cursor is  *)
(* on, and the others keep their order.  The cursor runs over all entries  *)
(* of the array, the deleted ones too, and on one of those a press deletes *)
(* the last user.  Presses at the same time may undo each other's moves of *)
(* the cursor, but never take it out of the array.                         *)
(***************************************************************************)
EXTENDS Integers, SequencesExt

CONSTANT MAX_USERS

VARIABLES
  held,         \* the buttons that are down
  pressed,      \* the buttons whose press is not answered yet
  users,        \* the users, in order
  cursor,       \* an index into the array that once held them all
  settling      \* the cursor may still leave the entry the deletion freed

vars == <<held, pressed, users, cursor, settling>>

Slots == 0 .. MAX_USERS - 1

\* A user is a name and a mileage; both are numbered.
Everybody == [k \in 1 .. MAX_USERS |-> <<k, k>>]

Init == /\ held = {} /\ pressed = {}
        /\ users = Everybody /\ cursor = 0 /\ settling = FALSE

\* A press can go unseen if the button is let go or was let go just before.
Press(b) == /\ b \notin held /\ held' = held \cup {b}
            /\ pressed' \in {pressed, pressed \cup {b}}
            /\ UNCHANGED <<users, cursor, settling>>

Release(b) == /\ b \in held /\ held' = held \ {b}
              /\ pressed' \in {pressed, pressed \ {b}}
              /\ UNCHANGED <<users, cursor, settling>>

Answer(b) == b \in pressed /\ pressed' = pressed \ {b} /\ UNCHANGED held

Move(b) == /\ b \in {"next", "previous"} /\ Answer(b) /\ cursor' \in Slots
           /\ UNCHANGED <<users, settling>>

Delete == /\ Answer("delete") /\ ~settling
          /\ \/ users # <<>> /\ cursor < Len(users)
                /\ users' = RemoveAt(users, cursor + 1) /\ settling' = TRUE
             \/ users # <<>> /\ cursor >= Len(users)
                /\ users' = Front(users) /\ settling' = TRUE
             \/ users = <<>> /\ UNCHANGED <<users, settling>>
          /\ UNCHANGED cursor

Settle == /\ settling /\ settling' = FALSE /\ cursor' \in {cursor, 0}
          /\ UNCHANGED <<held, pressed, users>>

ShowTime == Answer("time") /\ UNCHANGED <<users, cursor, settling>>

Serve(b) == \/ Move(b)
            \/ b = "delete" /\ Delete
            \/ b = "time" /\ ShowTime

Buttons == {"next", "previous", "delete", "time"}

Next == Settle \/ \E b \in Buttons : Press(b) \/ Release(b) \/ Serve(b)

Spec == Init /\ [][Next]_vars

\* No press is left without an answer.
FairSpec == Spec /\ WF_vars(Settle) /\ \A b \in Buttons : WF_vars(Serve(b))
=============================================================================
