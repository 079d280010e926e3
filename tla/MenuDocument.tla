---------------------------- MODULE MenuDocument ----------------------------
(***************************************************************************)
(* What a menu is to the terminal of final/terminal_2.c: items that hold   *)
(* an ordered list of items, as final/menu.json writes it down.  A menu is *)
(* its root and children, where children[n] is the list of n.              *)
(***************************************************************************)
EXTENDS Integers, Sequences, FiniteSets

CONSTANTS
  Items,        \* the items a menu is made of
  NULL          \* no item

ASSUME NullAssumption == NULL \notin Items

\* Every item stands at one place only and the root at none.  The lists hang
\* together: into items with lists, the root not among them, some list leads
\* from outside.
IsMenu(root, children) ==
  /\ root \in Items /\ children \in [Items -> Seq(Items)]
  /\ \A p, q \in Items : \A i \in DOMAIN children[p], j \in DOMAIN children[q] :
       /\ children[p][i] = children[q][j] => p = q /\ i = j
       /\ children[p][i] # root
  /\ \A S \in SUBSET {p \in Items : children[p] # <<>>} \ {{}} :
       root \notin S => \E p \in Items \ S : \E i \in DOMAIN children[p] :
                          children[p][i] \in S

\* The item whose list n is in, and the one after n in that list.
ParentOf(children, n) ==
  IF \E p \in Items : \E i \in DOMAIN children[p] : children[p][i] = n
  THEN CHOOSE p \in Items : \E i \in DOMAIN children[p] : children[p][i] = n
  ELSE NULL

SiblingOf(children, n) ==
  IF \E p \in Items : \E i \in 1 .. Len(children[p]) - 1 : children[p][i] = n
  THEN CHOOSE s \in Items : \E p \in Items : \E i \in 1 .. Len(children[p]) - 1 :
                               children[p][i] = n /\ children[p][i + 1] = s
  ELSE NULL
=============================================================================
