------------------------------ MODULE MenuTree ------------------------------
(***************************************************************************)
(* How the terminal reads its menu (final/terminal_2.c): read_json,        *)
(* parse_json, which calls itself for each item of a list, and the two     *)
(* functions that make and link the nodes.                                 *)
(***************************************************************************)
EXTENDS MenuDocument

CONSTANTS
  Documents,    \* the menus the file may hold: [root, children]
  Room          \* pointers the chunk from malloc(sizeof(TreeNode *)) can hold:
                \* one by the rules of C, three with the GNU allocator

ASSUME TreeAssumption ==
  /\ Room \in Nat \ {0}
  /\ \A d \in Documents : IsMenu(d.root, d.children)

VARIABLES
  doc,          \* the document read
  calls,        \* the running calls of parse_json, the innermost one last:
                \* the item, and how many of its list it is done with
  parent, sibling, subItems, subItemCount,  \* the fields of the nodes
  file          \* read_json is "reading", has "built" the tree or "failed"
                \* (NULL was returned), or wrote past a subItems array: "overrun"

nodes == <<parent, sibling, subItems, subItemCount>>
tree  == <<doc, calls, nodes, file>>

Slots == 0 .. Room - 1

Call(n) == [item |-> n, taken |-> 0]

\* fopen or cJSON_Parse may fail.
TreeInit ==
  /\ doc \in Documents
  /\ \/ file = "reading" /\ calls = <<Call(doc.root)>>
     \/ file = "failed" /\ calls = <<>>
  /\ parent = [n \in Items |-> NULL] /\ sibling = [n \in Items |-> NULL]
  /\ subItems = [n \in Items |-> [i \in Slots |-> NULL]]
  /\ subItemCount = [n \in Items |-> 0]

Top == calls[Len(calls)]

\* Faulty Parsed: the last item of a list is left out.
ParsedButOne(call) == call.taken + 1 >= Len(doc.children[call.item])

\* The call of parse_json for an item is through with its list.
Parsed(call) == call.taken = Len(doc.children[call.item])

\* Faulty create_node: the count is what malloc left there.
create_node_unset(n) ==
  /\ parent' = [parent EXCEPT ![n] = NULL]
  /\ sibling' = [sibling EXCEPT ![n] = NULL]
  /\ subItems' = [subItems EXCEPT ![n] = [i \in Slots |-> NULL]]
  /\ subItemCount' = [subItemCount EXCEPT ![n] = Room + 1]

create_node(n) ==
  /\ parent' = [parent EXCEPT ![n] = NULL]
  /\ sibling' = [sibling EXCEPT ![n] = NULL]
  /\ subItems' = [subItems EXCEPT ![n] = [i \in Slots |-> NULL]]
  /\ subItemCount' = [subItemCount EXCEPT ![n] = 0]

\* parse_json calls itself for the next item of the list.
ParseSubItem ==
  /\ file = "reading" /\ ~Parsed(Top)
  /\ LET n == doc.children[Top.item][Top.taken + 1]
     IN calls' = Append(calls, Call(n)) /\ create_node(n)
  /\ UNCHANGED <<doc, file>>

\* Faulty Linked: the new node becomes the sibling of the first one.
LinkedToFirst(p, child) ==
  IF subItemCount[p] > 0
  THEN [sibling EXCEPT ![subItems[p][0]] = child]
  ELSE sibling

Linked(p, child) ==
  IF subItemCount[p] > 0
  THEN [sibling EXCEPT ![subItems[p][subItemCount[p] - 1]] = child]
  ELSE sibling

\* Nothing looks whether there is room for the child.
add_sub_item(p, child) ==
  \/ /\ subItemCount[p] \in Slots
     /\ sibling' = Linked(p, child)
     /\ subItems' = [subItems EXCEPT ![p][subItemCount[p]] = child]
     /\ subItemCount' = [subItemCount EXCEPT ![p] = @ + 1]
     /\ parent' = [parent EXCEPT ![child] = p]
     /\ UNCHANGED file
  \/ /\ subItemCount[p] \notin Slots
     /\ file' = "overrun"
     /\ UNCHANGED nodes

\* The call for an item returns, and its caller adds the node.
AddSubItem ==
  LET n == Len(calls) IN
  /\ file = "reading" /\ n > 1 /\ Parsed(Top)
  /\ add_sub_item(calls[n - 1].item, Top.item)
  /\ calls' = [SubSeq(calls, 1, n - 1) EXCEPT ![n - 1].taken = @ + 1]
  /\ UNCHANGED doc

ReturnRoot ==
  /\ file = "reading" /\ Len(calls) = 1 /\ Parsed(Top)
  /\ calls' = <<>> /\ file' = "built"
  /\ UNCHANGED <<doc, nodes>>

read_json == ParseSubItem \/ AddSubItem \/ ReturnRoot

-----------------------------------------------------------------------------
TreeTypeOK ==
  /\ doc \in Documents
  /\ calls \in Seq([item : Items, taken : Nat])
  /\ parent \in [Items -> Items \cup {NULL}]
  /\ sibling \in [Items -> Items \cup {NULL}]
  /\ subItems \in [Items -> [Slots -> Items \cup {NULL}]]
  /\ subItemCount \in [Items -> 0 .. Room]
  /\ file \in {"reading", "built", "failed", "overrun"}

\* At every moment, also in a half-built tree: the array of a node holds the
\* items of its list from the first on, each with this node as its parent,
\* and the siblings lead along the array and end at its end.
LinksAgree ==
  \A p \in Items : \A i \in 0 .. subItemCount[p] - 1 :
    LET child == subItems[p][i] IN
    /\ i < Len(doc.children[p]) /\ child = doc.children[p][i + 1]
    /\ parent[child] = p
    /\ sibling[child] = IF i + 1 < subItemCount[p] THEN subItems[p][i + 1] ELSE NULL

\* The finished tree is the menu the file describes.
TreeIsMenu ==
  file = "built" =>
    \A p \in Items :
      /\ subItemCount[p] = Len(doc.children[p])
      /\ \A i \in DOMAIN doc.children[p] : subItems[p][i - 1] = doc.children[p][i]
      /\ parent[p] = ParentOf(doc.children, p)
      /\ sibling[p] = SiblingOf(doc.children, p)
=============================================================================
