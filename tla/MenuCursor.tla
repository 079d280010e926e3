----------------------------- MODULE MenuCursor -----------------------------
(***************************************************************************)
(* What the four buttons of the terminal (final/terminal_2.c) promise: a   *)
(* position in a menu, an item and one of the items in its list.  Up and   *)
(* down go round the list, right goes into the item chosen, left goes back *)
(* out.  Every press does so once, and can go unseen only if the button is *)
(* let go; afterwards the terminal becomes ready for the next one.  The    *)
(* code makes no promise of a button pressed before, of a menu that could  *)
(* not be read, nor of up and down in an item without a list.              *)
(***************************************************************************)
EXTENDS MenuDocument

CONSTANT Documents

VARIABLES
  doc,          \* the menu in the file
  held,         \* the buttons that are down
  pressed,      \* the buttons whose press is not answered yet
  item, index,  \* the position; item is NULL while there is no menu
  ready,        \* all presses are answered, and shown where they are shown
  broken        \* something happened that nothing is promised about

vars == <<doc, held, pressed, item, index, ready, broken>>

MenuButtons == {"up", "down", "right", "left"}

Init == /\ doc \in Documents /\ held = {} /\ pressed = {} /\ item = NULL /\ index = 0
        /\ ready = FALSE /\ broken = FALSE

Count == Len(doc.children[item])

Open == /\ item = NULL /\ item' = doc.root
        /\ UNCHANGED <<doc, held, pressed, index, ready, broken>>

Press(b) == /\ b \notin held /\ held' = held \cup {b}
            /\ pressed' = pressed \cup {b}
            /\ ready' = FALSE /\ broken' = (broken \/ ~ready)
            /\ UNCHANGED <<doc, item, index>>

Idle == held = {} /\ pressed = {} /\ item # NULL

Release(b) == /\ b \in held /\ held' = held \ {b}
              /\ pressed' \in {pressed, pressed \ {b}}
              /\ ready' \in {ready, Idle'}
              /\ UNCHANGED <<doc, item, index, broken>>

Settle == /\ ~broken /\ Idle /\ ~ready /\ ready' = TRUE
          /\ UNCHANGED <<doc, held, pressed, item, index, broken>>

Answer(b) == /\ b \in pressed /\ pressed' = pressed \ {b} /\ item # NULL
             /\ UNCHANGED <<doc, held, ready, broken>>

Up   == /\ Answer("up") /\ Count > 0
        /\ index' = IF index = 0 THEN Count - 1 ELSE index - 1
        /\ UNCHANGED item

Down == /\ Answer("down") /\ Count > 0
        /\ index' = IF index = Count - 1 THEN 0 ELSE index + 1
        /\ UNCHANGED item

Right == /\ Answer("right")
         /\ \/ Count > 0 /\ item' = doc.children[item][index + 1] /\ index' = 0
            \/ Count = 0 /\ UNCHANGED <<item, index>>

Left == LET above == ParentOf(doc.children, item) IN
        /\ Answer("left")
        /\ \/ above # NULL /\ item' = above /\ index' = 0
           \/ above = NULL /\ UNCHANGED <<item, index>>

Break == /\ item # NULL /\ Count = 0 /\ pressed \cap {"up", "down"} # {}
         /\ broken' = TRUE
         /\ UNCHANGED <<doc, held, pressed, item, index, ready>>

Move == ~broken /\ (Up \/ Down \/ Right \/ Left \/ Break)

Unpromised == broken /\ broken'

Next == \/ Open \/ Move \/ Settle \/ Unpromised
        \/ \E b \in MenuButtons : Press(b) \/ Release(b)

Spec == Init /\ [][Next]_vars

\* No press is left without an answer, and there can be a next one.
FairSpec == Spec /\ WF_vars(Move) /\ WF_vars(Settle)
=============================================================================
