-------------------------------- MODULE Menu --------------------------------
(***************************************************************************)
(* The menu terminal of final/terminal_2.c: main reads the menu and shows  *)
(* it, while a thread per button already moves currentNode and             *)
(* currentIndex.  No thread takes the mutex, so any load and store of one  *)
(* may come between those of another.                                      *)
(*                                                                         *)
(* The menu is the tree that MenuTree builds while the threads run.  An    *)
(* undefined operation ends the model.  Left out is display_thread: it     *)
(* waits for a buttonEvent that nobody sets.                               *)
(***************************************************************************)
EXTENDS MenuTree

CONSTANT Haste      \* bound: for each menu, how often a button is pressed while
                    \* the terminal is not ready

ASSUME MenuAssumption == Haste \in [Documents -> Nat]

Buttons == {"up", "down", "right", "left"}
Threads == Buttons \cup {"main"}

VARIABLES
  held,         \* the buttons that are down
  owed,         \* history: pressed, and neither acted on nor let go unseen
  hasty,        \* history: how often the user did not wait until the terminal
                \* was ready
  seen,         \* the buttons whose previousState is 0
  pc,           \* pc[t]: where thread t is
  node, index,  \* node[t], index[t]: what t has loaded, or is about to store
  currentNode, currentIndex,
  lcd,          \* <<first line, second line>>: the item each shows, or NULL
  status        \* "up", or the operation that ended the model: "no_menu", a
                \* NULL node used; "no_items", a remainder by 0; "stray",
                \* subItems read outside its items

panel    == <<held, owed, hasty, seen>>
position == <<currentNode, currentIndex>>
vars == <<panel, pc, node, index, position, lcd, status, tree>>

Blank == <<NULL, NULL>>

Init ==
  /\ held = {} /\ owed = {} /\ hasty = 0 /\ seen = {}
  /\ pc = [t \in Threads |-> IF t = "main" THEN "read" ELSE "poll"]
  /\ node = [t \in Threads |-> NULL] /\ index = [t \in Threads |-> 0]
  /\ currentNode = NULL /\ currentIndex = 0
  /\ lcd = Blank /\ status = "up" /\ TreeInit

Count(n) == IF n = NULL THEN 0 ELSE subItemCount[n]
Item(n, i) == subItems[n][i]

Goto(t, from, to) == pc[t] = from /\ pc' = [pc EXCEPT ![t] = to]

\* Where a thread goes on once handle_button_event or display_menu is done.
After(t) == IF t = "main" THEN "join" ELSE "poll"

\* What t has loaded is of no use any more.
Forget(t) == /\ node' = [node EXCEPT ![t] = NULL]
             /\ index' = [index EXCEPT ![t] = 0]

Crash(t, from, how) ==
  /\ pc[t] = from /\ status' = how
  /\ UNCHANGED <<panel, pc, node, index, position, lcd>>

-----------------------------------------------------------------------------
\* Faulty Poll: previousState is not updated by a press.
PollForgets(b) ==
  /\ \/ b \in held \ seen /\ Goto(b, "poll", "enter") /\ UNCHANGED seen
     \/ b \notin held \ seen /\ Goto(b, "poll", "poll") /\ seen' = seen \ ({b} \ held)
  /\ UNCHANGED <<held, owed, hasty, node, index, position, lcd, status>>

Poll(b) ==
  /\ \/ b \in held \ seen /\ Goto(b, "poll", "enter") /\ seen' = seen \cup {b}
     \/ b \notin held \ seen /\ Goto(b, "poll", "poll") /\ seen' = seen \ ({b} \ held)
  /\ UNCHANGED <<held, owed, hasty, node, index, position, lcd, status>>

\* handle_button_event for left and right: the first load of currentNode, and
\* what is asked of it.  Right does nothing in a menu without items, left
\* nothing at the top.
LoadNode(b) ==
  LET n == currentNode
      idle == IF b = "left" THEN parent[n] = NULL ELSE Count(n) = 0
  IN /\ b \in {"left", "right"}
     /\ \/ n = NULL /\ Crash(b, "enter", "no_menu")
        \/ /\ n # NULL /\ idle /\ Goto(b, "enter", "poll") /\ owed' = owed \ {b}
           /\ UNCHANGED <<held, hasty, seen, node, index, position, lcd, status>>
        \/ /\ n # NULL /\ ~idle /\ Goto(b, "enter", "load")
           /\ node' = [node EXCEPT ![b] = n]
           /\ UNCHANGED <<panel, index, position, lcd, status>>

\* Up and down load one after the other what the expression names, from left
\* to right: currentIndex, for up the items of currentNode to be added, and
\* the items to divide by.  A count of 0 is an error in the divisor only.
LoadIndex(b) ==
  /\ b \in {"up", "down"} /\ Goto(b, "enter", IF b = "up" THEN "count" ELSE "load")
  /\ index' = [index EXCEPT ![b] = currentIndex]
  /\ UNCHANGED <<panel, node, position, lcd, status>>

LoadCount(b) ==
  /\ b = "up"
  /\ \/ currentNode = NULL /\ Crash(b, "count", "no_menu")
     \/ /\ currentNode # NULL /\ Goto(b, "count", "load")
        /\ index' = [index EXCEPT ![b] = @ - 1 + Count(currentNode)]
        /\ UNCHANGED <<panel, node, position, lcd, status>>

\* Faulty Rem: the remainder by one more than n.
RemPlusOne(a, n) == IF a >= 0 THEN a % (n + 1) ELSE -((-a) % (n + 1))

\* C's remainder has the sign of a.
Rem(a, n) == IF a >= 0 THEN a % n ELSE -((-a) % n)

LoadModulus(b) ==
  /\ b \in {"up", "down"}
  /\ LET n == currentNode
         sum == IF b = "down" THEN index[b] + 1 ELSE index[b]
     IN \/ n = NULL /\ Crash(b, "load", "no_menu")
        \/ n # NULL /\ Count(n) = 0 /\ Crash(b, "load", "no_items")
        \/ /\ n # NULL /\ Count(n) > 0 /\ Goto(b, "load", "store")
           /\ index' = [index EXCEPT ![b] = Rem(sum, Count(n))]
           /\ UNCHANGED <<panel, node, position, lcd, status>>

\* i is not the place of an item of n.
Outside(i, n) == i < 0 \/ i >= Count(n)

\* The node to go to: a member of subItems for right, the parent for left, of
\* the node loaded before or of currentNode loaded again.
LoadTarget(b) ==
  /\ b \in {"left", "right"}
  /\ \E n \in {node[b], currentNode} :
       \/ n = NULL /\ Crash(b, "load", "no_menu")
       \/ /\ n # NULL /\ b = "right" /\ Outside(currentIndex, n)
          /\ Crash(b, "load", "stray")
       \/ /\ n # NULL /\ (b = "right" => ~Outside(currentIndex, n))
          /\ Goto(b, "load", "store")
          /\ node' = [node EXCEPT ![b] = IF b = "left" THEN parent[n]
                                         ELSE Item(n, currentIndex)]
          /\ UNCHANGED <<panel, index, position, lcd, status>>

\* Up and down store the index and leave the LCD alone.
StoreIndex(b) ==
  /\ b \in {"up", "down"} /\ Goto(b, "store", "poll")
  /\ currentIndex' = index[b] /\ owed' = owed \ {b} /\ Forget(b)
  /\ UNCHANGED <<held, hasty, seen, currentNode, lcd, status>>

StoreNode(b) ==
  /\ b \in {"left", "right"} /\ Goto(b, "store", "first")
  /\ currentNode' = node[b] /\ owed' = owed \ {b} /\ Forget(b)
  /\ UNCHANGED <<held, hasty, seen, currentIndex, lcd, status>>

\* Faulty First: the index of the menu before is kept.
FirstKeeps(t) ==
  /\ Goto(t, "first", IF t = "main" THEN "show" ELSE "clear")
  /\ UNCHANGED <<panel, node, index, position, lcd, status>>

First(t) ==
  /\ Goto(t, "first", IF t = "main" THEN "show" ELSE "clear")
  /\ currentIndex' = 0
  /\ UNCHANGED <<panel, node, index, currentNode, lcd, status>>

\* Faulty Clear: the LCD is not cleared.
ClearKeeps(b) ==
  /\ Goto(b, "clear", "show")
  /\ UNCHANGED <<panel, node, index, position, lcd, status>>

Clear(b) ==
  /\ Goto(b, "clear", "show") /\ lcd' = Blank
  /\ UNCHANGED <<panel, node, index, position, status>>

\* display_menu: its arguments are loaded, the index is used as it is.
Show(t) ==
  LET n == currentNode IN
  \/ /\ Count(n) = 0
     /\ Goto(t, "show", After(t))
     /\ UNCHANGED <<panel, node, index, position, lcd, status>>
  \/ Count(n) > 0 /\ Outside(currentIndex, n) /\ Crash(t, "show", "stray")
  \/ /\ ~Outside(currentIndex, n)
     /\ Goto(t, "show", "line1")
     /\ node' = [node EXCEPT ![t] = Item(n, currentIndex)]
     /\ UNCHANGED <<panel, index, position, lcd, status>>

Line1(t) ==
  /\ Goto(t, "line1", "line2") /\ lcd' = [lcd EXCEPT ![1] = node[t]]
  /\ UNCHANGED <<panel, node, index, position, status>>

\* The item after, or a cleared line.
Line2(t) ==
  /\ Goto(t, "line2", After(t))
  /\ lcd' = [lcd EXCEPT ![2] = sibling[node[t]]] /\ Forget(t)
  /\ UNCHANGED <<panel, position, status>>

-----------------------------------------------------------------------------
\* main in read_json.
BuildMenu ==
  /\ pc["main"] = "read" /\ read_json
  /\ UNCHANGED <<panel, pc, node, index, position, lcd, status>>

\* read_json has returned the root of the tree, or NULL if it could not read.
ReadMenu ==
  /\ Goto("main", "read", "first")
  /\ \/ file = "built" /\ currentNode' = doc.root
     \/ file = "failed" /\ currentNode' = NULL
  /\ UNCHANGED <<panel, node, index, currentIndex, lcd, status>>

Ready == /\ pc = [t \in Threads |-> After(t)] /\ currentNode # NULL
         /\ owed = {} /\ held = {} /\ seen = {}

Press(b) ==
  /\ b \notin held /\ held' = held \cup {b} /\ owed' = owed \cup {b}
  /\ \/ Ready /\ UNCHANGED hasty
     \/ ~Ready /\ hasty < Haste[doc] /\ hasty' = hasty + 1
  /\ UNCHANGED <<seen, pc, node, index, position, lcd, status>>

\* Where the thread of a button is while its press is not acted on yet.
Underway == {"enter", "count", "load", "store"}

\* A press shorter than the 50 ms between two polls goes unseen.
Release(b) ==
  /\ b \in held /\ held' = held \ {b}
  /\ owed' = IF pc[b] \in Underway THEN owed ELSE owed \ {b}
  /\ UNCHANGED <<hasty, seen, pc, node, index, position, lcd, status>>

Work(t) == \/ First(t) \/ Show(t) \/ Line1(t) \/ Line2(t)
           \/ t = "main" /\ ReadMenu
           \/ t \in Buttons /\ (Poll(t) \/ LoadNode(t) \/ LoadTarget(t)
                \/ LoadIndex(t) \/ LoadCount(t) \/ LoadModulus(t)
                \/ StoreIndex(t) \/ StoreNode(t) \/ Clear(t))

Up == status = "up" /\ file # "overrun"

Run(t) == /\ Up
          /\ \/ Work(t) /\ UNCHANGED tree
             \/ t = "main" /\ BuildMenu

User == Up /\ (\E b \in Buttons : Press(b) \/ Release(b)) /\ UNCHANGED tree

Next == User \/ \E t \in Threads : Run(t)

Spec == Init /\ [][Next]_vars

FairSpec == Spec /\ \A t \in Threads : WF_vars(Run(t))

-----------------------------------------------------------------------------
\* Whatever the threads load and store in between each other, currentIndex is
\* less than Room away from 0, and an index about to be stored too.  It may be
\* negative: up adds the items of one menu and divides by those of another.
MenuTypeOK ==
  /\ held \subseteq Buttons /\ owed \subseteq Buttons /\ seen \subseteq Buttons
  /\ hasty \in 0 .. Haste[doc]
  /\ pc \in [Threads -> {"read", "join", "poll", "first", "clear", "show", "line1",
                         "line2"} \cup Underway]
  /\ node \in [Threads -> Items \cup {NULL}] /\ index \in [Threads -> Int]
  /\ \A b \in {"up", "down"} : pc[b] = "store" => index[b] \in 1 - Room .. Room - 1
  /\ currentNode \in Items \cup {NULL} /\ currentIndex \in 1 - Room .. Room - 1
  /\ lcd \in (Items \cup {NULL}) \X (Items \cup {NULL})
  /\ status \in {"up", "no_menu", "no_items", "stray"}

\* However long a button is held and whatever the other threads do, each
\* press stores one move at most.
OneMovePerPress ==
  [][\A b \in Buttons : pc[b] = "store" /\ pc'[b] # "store" => b \in owed]_vars

\* To a user who waits until the terminal is ready: the buttons move a
\* position in the menu of the file that always exists, at once each, no press
\* is left without an answer, and the terminal becomes ready again.
Cursor == INSTANCE MenuCursor WITH
  pressed <- owed,
  item    <- currentNode,
  index   <- IF \E t \in Threads : pc[t] = "first" THEN 0 ELSE currentIndex,
  ready   <- Ready,
  broken  <- hasty > 0 \/ status # "up"

ImplementsCursor == Cursor!FairSpec

\* The lines for the items from place i of a list on.
LinesFrom(list, i) ==
  [l \in 1 .. 2 |-> IF i + l <= Len(list) THEN list[i + l] ELSE NULL]

\* With all threads at rest and no button pressed in haste, the LCD shows the
\* first two items of the current menu, and nothing of the menus before: what
\* it showed when left or right entered the menu.  Up and down leave it so.
ShowsMenuTop ==
  hasty = 0 /\ status = "up" /\ currentNode # NULL /\ pc = [t \in Threads |-> After(t)]
    => lcd = LinesFrom(doc.children[currentNode], 0)

\* What the comments in display_menu say: the first line shows the current
\* item, the second line the next item.  The code does not keep to it.
LinesShowCurrent ==
  hasty = 0 /\ status = "up" /\ Ready
    => lcd = LinesFrom(doc.children[currentNode], currentIndex)
=============================================================================
