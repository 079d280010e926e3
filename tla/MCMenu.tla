------------------------------- MODULE MCMenu -------------------------------
(***************************************************************************)
(* Instances of Menu for TLC: the menu of final/menu.json, item by item in *)
(* the order of the file, and every menu of at most MaxItems items,        *)
(* numbered from the root on.                                              *)
(***************************************************************************)
EXTENDS Menu, FiniteSetsExt, SequencesExt

CONSTANTS MaxItems, MaxList   \* bounds: items of a menu, and of one list

FileItems == 1 .. 18

\* 2 administrator: 3 mileage, 6 users, 10 accounts; 15 general.
FileMenu ==
  [root |-> 1, children |-> [n \in FileItems |->
     CASE n = 1 -> <<2, 15>>       [] n = 2 -> <<3, 6, 10>>
       [] n = 3 -> <<4, 5>>        [] n = 6 -> <<7>>
       [] n = 7 -> <<8, 9>>        [] n = 10 -> <<11, 13>>
       [] n = 11 -> <<12>>         [] n = 13 -> <<14>>
       [] n = 15 -> <<16, 17, 18>> [] OTHER -> <<>>]]

\* Item n > 1 is in the list of above[n], or unused: in no list.
List(above, p) == SetToSortSeq({n \in DOMAIN above : above[n] = p}, <)

EveryMenu ==
  {[root |-> 1, children |-> [p \in Items |-> List(above, p)]] :
     above \in {a \in [2 .. MaxItems -> 0 .. MaxItems - 1] :
                  /\ \A n \in DOMAIN a : a[n] < n
                  /\ \A n \in 3 .. MaxItems : a[n - 1] = 0 => a[n] = 0
                  /\ \A p \in 1 .. MaxItems :
                       Cardinality({n \in DOMAIN a : a[n] = p}) <= MaxList}}

AllMenus == {FileMenu} \cup EveryMenu

SmallMenu ==
  [root |-> 1, children |-> [n \in Items |->
     CASE n = 1 -> <<2, 4>> [] n = 2 -> <<3>> [] OTHER -> <<>>]]

\* In the small menu buttons are also pressed while the terminal is at work,
\* so that up to three threads act on the same position.
RushedHaste == [d \in AllMenus |-> IF d = SmallMenu THEN 2 ELSE 0]
=============================================================================
