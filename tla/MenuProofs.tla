----------------------------- MODULE MenuProofs -----------------------------
(***************************************************************************)
(* Proofs about the terminal of final/terminal_2.c, for any set of menus   *)
(* and any room in the subItems arrays: read_json builds the tree of the   *)
(* menu in the file and keeps its links consistent while it does; no press *)
(* makes two moves; and for a user who presses one button at a time the    *)
(* buttons move a position in that menu and the LCD shows it.              *)
(***************************************************************************)
EXTENDS Menu, SequenceTheorems, TLAPS

\* The list of an item in the file, and the items that stand in an array.
Kids(p)   == doc.children[p]
InTree(n) == \E p \in Items : \E i \in 0 .. subItemCount[p] - 1 : Kids(p)[i + 1] = n
Active(n) == \E m \in 1 .. Len(calls) : calls[m].item = n

\* The running calls of parse_json lead from the root down, list by list, and
\* meet no item twice.
Path ==
  /\ file = "reading" => Len(calls) > 0 /\ calls[1].item = doc.root
  /\ file = "built" => calls = <<>>
  /\ \A m \in 1 .. Len(calls) : calls[m].taken <= Len(Kids(calls[m].item))
  /\ \A m \in 1 .. Len(calls) - 1 :
       /\ calls[m].taken < Len(Kids(calls[m].item))
       /\ calls[m + 1].item = Kids(calls[m].item)[calls[m].taken + 1]
  /\ \A a, b \in 1 .. Len(calls) : calls[a].item = calls[b].item => a = b

\* A node has as many items as its call is through with: all of them once it
\* is in the tree, none before it is made.
Counted ==
  file \in {"reading", "built"} =>
    /\ \A m \in 1 .. Len(calls) : subItemCount[calls[m].item] = calls[m].taken
    /\ \A p \in Items : ~Active(p) =>
         subItemCount[p] = IF InTree(p) \/ (p = doc.root /\ file = "built")
                           THEN Len(Kids(p)) ELSE 0

Unlinked == \A n \in Items : ~InTree(n) => parent[n] = NULL /\ sibling[n] = NULL

TreeInv == TreeTypeOK /\ LinksAgree /\ Path /\ Counted /\ Unlinked

-----------------------------------------------------------------------------
\* What IsMenu says, of the document read.
LEMMA DocFacts ==
  ASSUME TreeTypeOK
  PROVE  /\ doc.root \in Items
         /\ \A p \in Items : Kids(p) \in Seq(Items) /\ Len(Kids(p)) \in Nat
         /\ \A p \in Items : \A i \in 1 .. Len(Kids(p)) :
              Kids(p)[i] \in Items /\ Kids(p)[i] # doc.root
         /\ \A p, q \in Items :
              \A i \in 1 .. Len(Kids(p)), j \in 1 .. Len(Kids(q)) :
                Kids(p)[i] = Kids(q)[j] => p = q /\ i = j
<1>1. IsMenu(doc.root, doc.children)
  BY TreeAssumption DEF TreeAssumption, TreeTypeOK
<1>2. \A p \in Items : Kids(p) \in Seq(Items)
  BY <1>1 DEF IsMenu, Kids
<1>3. \A p \in Items : DOMAIN Kids(p) = 1 .. Len(Kids(p)) /\ Len(Kids(p)) \in Nat
  BY <1>2
<1>4. \A p \in Items : \A i \in 1 .. Len(Kids(p)) : Kids(p)[i] \in Items
  BY <1>2
<1>5. doc.root \in Items
      /\ \A p, q \in Items : \A i \in DOMAIN Kids(p), j \in DOMAIN Kids(q) :
           /\ Kids(p)[i] = Kids(q)[j] => p = q /\ i = j
           /\ Kids(p)[i] # doc.root
  BY <1>1 DEF IsMenu, Kids
<1>6. \A p, q \in Items :
        \A i \in 1 .. Len(Kids(p)), j \in 1 .. Len(Kids(q)) :
          Kids(p)[i] = Kids(q)[j] => p = q /\ i = j
  BY <1>3, <1>5
<1>7. \A p \in Items : \A i \in 1 .. Len(Kids(p)) : Kids(p)[i] # doc.root
  BY <1>3, <1>5
<1> QED
  BY <1>2, <1>3, <1>4, <1>5, <1>6, <1>7

\* The running calls, as a sequence of typed records.
LEMMA CallFacts ==
  ASSUME TreeTypeOK
  PROVE  /\ Len(calls) \in Nat
         /\ \A m \in 1 .. Len(calls) :
              calls[m].item \in Items /\ calls[m].taken \in Nat
              /\ calls[m] \in [item : Items, taken : Nat]
<1> DEFINE R == [item : Items, taken : Nat]
<1> HIDE DEF R
<1>1. calls \in Seq(R)
  BY DEF TreeTypeOK, R
<1>2. Len(calls) \in Nat /\ \A m \in 1 .. Len(calls) : calls[m] \in R
  BY <1>1
<1> QED
  BY <1>2 DEF R

\* Before the file is read.
LEMMA TreeInitInv == TreeInit => TreeInv
<1> SUFFICES ASSUME TreeInit PROVE TreeInv
  OBVIOUS
<1>1. doc.root \in Items /\ doc \in Documents
  BY TreeAssumption DEF TreeAssumption, TreeInit, IsMenu
<1>2. \/ file = "reading" /\ calls = <<Call(doc.root)>>
      \/ file = "failed" /\ calls = <<>>
  BY DEF TreeInit
<1>3. Call(doc.root) \in [item : Items, taken : Nat] /\ Call(doc.root).item = doc.root
      /\ Call(doc.root).taken = 0
  BY <1>1 DEF Call
<1>4. calls \in Seq([item : Items, taken : Nat])
  <2> DEFINE R == [item : Items, taken : Nat]
  <2>1. Call(doc.root) \in R
    BY <1>3
  <2> HIDE DEF R
  <2>2. <<Call(doc.root)>> \in Seq(R) /\ <<>> \in Seq(R)
    BY <2>1
  <2> QED
    BY <1>2, <2>2 DEF R
<1>5. TreeTypeOK
  BY <1>1, <1>2, <1>4, TreeAssumption DEF TreeInit, TreeTypeOK, TreeAssumption
<1>6. (\A p \in Items : subItemCount[p] = 0) /\ \A n : ~InTree(n)
  BY DEF TreeInit, InTree
<1>7. LinksAgree /\ Unlinked
  BY <1>6 DEF LinksAgree, Unlinked, TreeInit
<1>8. CASE file = "reading" /\ calls = <<Call(doc.root)>>
  <2>1. Len(calls) = 1 /\ calls[1] = Call(doc.root)
    BY <1>8
  <2>2. 0 <= Len(Kids(doc.root))
    BY <1>1, <1>5, DocFacts
  <2>3. Path
    BY <1>3, <1>8, <2>1, <2>2 DEF Path
  <2>4. Counted
    BY <1>1, <1>3, <1>6, <1>8, <2>1 DEF Counted, Active
  <2> QED
    BY <1>5, <1>7, <2>3, <2>4 DEF TreeInv
<1>9. CASE file = "failed" /\ calls = <<>>
  BY <1>5, <1>7, <1>9 DEF TreeInv, Path, Counted
<1> QED
  BY <1>2, <1>8, <1>9

-----------------------------------------------------------------------------
\* The item parse_json is called for has no node yet.
LEMMA NextItem ==
  ASSUME TreeInv, ParseSubItem
  PROVE  LET n == Kids(Top.item)[Top.taken + 1]
         IN /\ Len(calls) > 0 /\ Top.item \in Items
            /\ Top.taken \in Nat /\ Top.taken < Len(Kids(Top.item))
            /\ n \in Items /\ n # doc.root /\ ~InTree(n) /\ ~Active(n)
<1> DEFINE k == Len(calls)
           n == Kids(Top.item)[Top.taken + 1]
<1> USE DEF TreeInv
<1>1. /\ k \in Nat /\ k > 0 /\ Top = calls[k] /\ k \in 1 .. k
      /\ Top.item \in Items /\ Top.taken \in Nat
  <2>1. k \in Nat /\ k > 0
    BY CallFacts DEF ParseSubItem, Path
  <2> QED
    BY <2>1, CallFacts DEF Top
<1>2. Top.taken < Len(Kids(Top.item)) /\ Top.taken + 1 \in 1 .. Len(Kids(Top.item))
  <2>1. Top.taken # Len(Kids(Top.item)) /\ Top.taken <= Len(Kids(Top.item))
    BY <1>1 DEF ParseSubItem, Parsed, Path, Kids
  <2> QED
    BY <1>1, <2>1, DocFacts
<1>3. n \in Items /\ n # doc.root
  BY <1>1, <1>2, DocFacts
<1>4. ~InTree(n)
  <2> SUFFICES ASSUME NEW p \in Items, NEW i \in 0 .. subItemCount[p] - 1,
                      Kids(p)[i + 1] = n
               PROVE  FALSE
    BY DEF InTree
  <2>1. subItemCount[p] \in Nat /\ i < Len(Kids(p)) /\ i \in Nat
    BY TreeAssumption DEF LinksAgree, TreeTypeOK, TreeAssumption, Kids
  <2>2. i + 1 \in 1 .. Len(Kids(p))
    BY <2>1, DocFacts
  <2>3. p = Top.item /\ i + 1 = Top.taken + 1
    <3>1. Kids(p)[i + 1] = Kids(Top.item)[Top.taken + 1]
      OBVIOUS
    <3>2. \A q, r \in Items :
            \A a \in 1 .. Len(Kids(q)), b \in 1 .. Len(Kids(r)) :
              Kids(q)[a] = Kids(r)[b] => q = r /\ a = b
      BY DocFacts
    <3> QED
      BY <1>1, <1>2, <2>2, <3>1, <3>2
  <2>4. subItemCount[p] = Top.taken
    BY <1>1, <2>3 DEF Counted, ParseSubItem
  <2> QED
    BY <1>1, <2>1, <2>3, <2>4
<1>5. ~Active(n)
  <2> SUFFICES ASSUME NEW m \in 1 .. k, calls[m].item = n PROVE FALSE
    BY DEF Active
  <2>1. CASE m = 1
    <3>1. calls[1].item = doc.root
      BY DEF Path, ParseSubItem
    <3> QED
      BY <1>3, <2>1, <3>1
  <2>2. CASE m # 1
    <3>1. m - 1 \in 1 .. k - 1 /\ m - 1 \in 1 .. k /\ (m - 1) + 1 = m
      BY <1>1, <2>2
    <3> DEFINE c == calls[m - 1]
    <3>2. /\ c.taken < Len(Kids(c.item)) /\ n = Kids(c.item)[c.taken + 1]
          /\ c.item \in Items /\ c.taken \in Nat
      BY <3>1, CallFacts DEF Path
    <3>3. c.taken + 1 \in 1 .. Len(Kids(c.item))
      BY <3>2, DocFacts
    <3>4. c.item = Top.item
      <4>1. Kids(c.item)[c.taken + 1] = Kids(Top.item)[Top.taken + 1]
        BY <3>2
      <4>2. \A p, q \in Items :
              \A i \in 1 .. Len(Kids(p)), j \in 1 .. Len(Kids(q)) :
                Kids(p)[i] = Kids(q)[j] => p = q
        BY DocFacts
      <4> HIDE DEF c
      <4> QED
        BY <1>1, <1>2, <3>2, <3>3, <4>1, <4>2
    <3>5. m - 1 = k
      BY <1>1, <3>1, <3>4 DEF Path
    <3> QED
      BY <1>1, <3>1, <3>5
  <2> QED
    BY <2>1, <2>2
<1> QED
  BY <1>1, <1>2, <1>3, <1>4, <1>5

\* Making the node changes nothing in the tree so far.
LEMMA ParseKeeps == ASSUME TreeInv, ParseSubItem PROVE TreeInv'
<1> DEFINE k == Len(calls)
           n == Kids(Top.item)[Top.taken + 1]
           R == [item : Items, taken : Nat]
<1>0. /\ \A m \in 1 .. k : calls[m].taken <= Len(Kids(calls[m].item))
      /\ \A m \in 1 .. k - 1 :
           /\ calls[m].taken < Len(Kids(calls[m].item))
           /\ calls[m + 1].item = Kids(calls[m].item)[calls[m].taken + 1]
      /\ \A a, b \in 1 .. k : calls[a].item = calls[b].item => a = b
  BY DEF TreeInv, Path
<1>1. /\ k \in Nat /\ k > 0 /\ Top = calls[k] /\ Top.item \in Items
      /\ Top.taken \in Nat /\ Top.taken < Len(Kids(Top.item))
      /\ n \in Items /\ n # doc.root /\ ~InTree(n) /\ ~Active(n)
  BY NextItem, CallFacts DEF TreeInv, Top
<1>2. /\ file = "reading" /\ UNCHANGED <<doc, file>>
      /\ calls' = Append(calls, Call(n)) /\ create_node(n)
  BY DEF ParseSubItem, Kids
<1> HIDE DEF n
<1>3. /\ Len(calls') = k + 1 /\ calls'[k + 1].item = n /\ calls'[k + 1].taken = 0
      /\ \A m \in 1 .. k : calls'[m] = calls[m]
      /\ calls' \in Seq(R)
  <2> HIDE DEF R
  <2>1. calls \in Seq(R)
    BY DEF TreeInv, TreeTypeOK, R
  <2>2. Call(n) \in R /\ Call(n).item = n /\ Call(n).taken = 0
    BY <1>1 DEF Call, R
  <2> QED
    BY <1>2, <2>1, <2>2, AppendProperties
<1>4. /\ UNCHANGED <<parent, sibling, subItemCount>>
      /\ subItems' = [subItems EXCEPT ![n] = [i \in Slots |-> NULL]]
  <2>1. parent[n] = NULL /\ sibling[n] = NULL /\ subItemCount[n] = 0
    BY <1>1, <1>2 DEF TreeInv, Unlinked, Counted
  <2> QED
    BY <1>1, <1>2, <2>1 DEF create_node, TreeInv, TreeTypeOK
<1>5. TreeTypeOK'
  <2>1. subItems' \in [Items -> [Slots -> Items \cup {NULL}]]
    BY <1>4 DEF TreeInv, TreeTypeOK
  <2> QED
    BY <1>2, <1>3, <1>4, <2>1 DEF TreeInv, TreeTypeOK
<1>6. \A p : Kids(p)' = Kids(p)
  BY <1>2 DEF Kids
<1>7. \A x : InTree(x)' <=> InTree(x)
  BY <1>4, <1>6 DEF InTree
<1>8. \A x : Active(x)' <=> (Active(x) \/ x = n)
  BY <1>1, <1>3 DEF Active
<1>9. LinksAgree'
  <2> SUFFICES ASSUME NEW p \in Items, NEW i \in 0 .. subItemCount[p] - 1
               PROVE  /\ i < Len(doc.children[p])
                      /\ subItems'[p][i] = doc.children[p][i + 1]
                      /\ parent[subItems'[p][i]] = p
                      /\ sibling[subItems'[p][i]]
                           = IF i + 1 < subItemCount[p] THEN subItems'[p][i + 1]
                             ELSE NULL
    BY <1>2, <1>4 DEF LinksAgree
  <2>1. p # n
    BY <1>1, <1>2 DEF TreeInv, Counted
  <2>2. subItems'[p] = subItems[p]
    BY <1>4, <2>1 DEF TreeInv, TreeTypeOK
  <2> QED
    BY <2>2 DEF TreeInv, LinksAgree
<1>10. Path'
  <2>1. Len(calls') > 0 /\ calls'[1].item = doc.root /\ file' = "reading"
    BY <1>1, <1>2, <1>3 DEF TreeInv, Path
  <2>2. \A m \in 1 .. k + 1 : calls'[m].taken <= Len(Kids(calls'[m].item))
    <3>1. Len(Kids(n)) \in Nat
      BY <1>1, DocFacts DEF TreeInv
    <3>2. \A m \in 1 .. k + 1 : m \in 1 .. k \/ m = k + 1
      BY <1>1
    <3> QED
      BY <1>0, <1>3, <3>1, <3>2
  <2>3. \A m \in 1 .. k :
          /\ calls'[m].taken < Len(Kids(calls'[m].item))
          /\ calls'[m + 1].item = Kids(calls'[m].item)[calls'[m].taken + 1]
    <3> SUFFICES ASSUME NEW m \in 1 .. k
                 PROVE  /\ calls[m].taken < Len(Kids(calls[m].item))
                        /\ calls'[m + 1].item = Kids(calls[m].item)[calls[m].taken + 1]
      BY <1>3
    <3>1. CASE m = k
      BY <1>1, <1>3, <3>1 DEF n
    <3>2. CASE m # k
      <4>1. m \in 1 .. k - 1 /\ m + 1 \in 1 .. k
        BY <1>1, <3>2
      <4> QED
        BY <1>0, <1>3, <4>1
    <3> QED
      BY <3>1, <3>2
  <2>4. \A a, b \in 1 .. k + 1 : calls'[a].item = calls'[b].item => a = b
    <3>1. \A a \in 1 .. k : calls[a].item # n
      BY <1>1 DEF Active
    <3>2. \A a \in 1 .. k + 1 : a \in 1 .. k \/ a = k + 1
      BY <1>1
    <3> QED
      BY <1>0, <1>3, <3>1, <3>2
  <2>5. (k + 1) - 1 = k
    BY <1>1
  <2> QED
    BY <1>2, <1>3, <2>1, <2>2, <2>3, <2>4, <2>5 DEF Path, Kids
<1>11. Counted'
  <2>1. \A m \in 1 .. k + 1 : subItemCount[calls'[m].item] = calls'[m].taken
    <3>1. subItemCount[n] = 0
      BY <1>1, <1>2 DEF TreeInv, Counted
    <3>2. \A a \in 1 .. k + 1 : a \in 1 .. k \/ a = k + 1
      BY <1>1
    <3> QED
      BY <1>2, <1>3, <3>1, <3>2 DEF TreeInv, Counted
  <2> QED
    BY <1>2, <1>3, <1>4, <1>6, <1>7, <1>8, <2>1 DEF TreeInv, Counted
<1>12. Unlinked'
  BY <1>4, <1>7 DEF TreeInv, Unlinked
<1> QED
  BY <1>5, <1>9, <1>10, <1>11, <1>12 DEF TreeInv

\* A call returns: all but what becomes of the node.
LEMMA PopKeeps ==
  ASSUME TreeInv, AddSubItem
  PROVE  LET k == Len(calls)
             p == calls[k - 1].item
             c == Top.item
         IN /\ k \in Nat /\ k > 1 /\ file = "reading" /\ doc' = doc
            /\ add_sub_item(p, c) /\ p \in Items /\ c \in Items /\ p # c
            /\ calls' \in Seq([item : Items, taken : Nat]) /\ Len(calls') = k - 1
            /\ \A m \in 1 .. k - 2 : calls'[m] = calls[m]
            /\ calls'[k - 1].item = p /\ calls'[k - 1].taken = subItemCount[p] + 1
            /\ subItemCount[p] \in Nat /\ subItemCount[p] < Len(Kids(p))
            /\ Kids(p)[subItemCount[p] + 1] = c
            /\ subItemCount[c] = Len(Kids(c))
            /\ \A x : Active(x)' <=> (Active(x) /\ x # c)
            /\ (file' # "built" => Path')
<1> DEFINE k == Len(calls)
           p == calls[k - 1].item
           c == Top.item
           R == [item : Items, taken : Nat]
           s == SubSeq(calls, 1, k - 1)
<1> USE DEF TreeInv
<1>0. /\ \A m \in 1 .. k : calls[m].taken <= Len(Kids(calls[m].item))
      /\ \A m \in 1 .. k - 1 :
           /\ calls[m].taken < Len(Kids(calls[m].item))
           /\ calls[m + 1].item = Kids(calls[m].item)[calls[m].taken + 1]
      /\ \A a, b \in 1 .. k : calls[a].item = calls[b].item => a = b
  BY DEF Path
<1>1. /\ k \in Nat /\ k > 1 /\ k - 1 \in 1 .. k /\ k \in 1 .. k /\ Top = calls[k]
      /\ (k - 1) + 1 = k /\ k - 1 \in 1 .. k - 1
      /\ file = "reading" /\ doc' = doc /\ add_sub_item(p, c) /\ Parsed(Top)
      /\ calls' = [s EXCEPT ![k - 1].taken = @ + 1]
  BY CallFacts DEF AddSubItem, Top
<1>2. /\ p \in Items /\ c \in Items /\ p # c
      /\ subItemCount[p] = calls[k - 1].taken /\ calls[k - 1].taken \in Nat
      /\ subItemCount[c] = Top.taken
  BY <1>1, CallFacts DEF Path, Counted
<1>3. /\ subItemCount[p] < Len(Kids(p)) /\ Kids(p)[subItemCount[p] + 1] = c
      /\ subItemCount[c] = Len(Kids(c))
  BY <1>1, <1>2 DEF Path, Parsed, Kids
<1>4. /\ calls' \in Seq(R) /\ Len(calls') = k - 1
      /\ \A m \in 1 .. k - 2 : calls'[m] = calls[m]
      /\ calls'[k - 1] = [item |-> p, taken |-> subItemCount[p] + 1]
  <2> DEFINE e == [item |-> p, taken |-> subItemCount[p] + 1]
  <2>1. s \in Seq(R) /\ Len(s) = k - 1 /\ \A m \in 1 .. k - 1 : s[m] = calls[m]
    <3> HIDE DEF R
    <3>1. calls \in Seq(R)
      BY DEF TreeTypeOK, R
    <3> QED
      BY <1>1, <3>1
  <2>2. calls[k - 1] \in R /\ e \in R
    BY <1>1, <1>2, CallFacts
  <2>3. [calls[k - 1] EXCEPT !.taken = @ + 1] = e
    BY <1>2, <2>2
  <2>4. calls' = [s EXCEPT ![k - 1] = e]
    BY <1>1, <2>1, <2>3
  <2> HIDE DEF R, e, s
  <2>5. calls' \in Seq(R) /\ Len(calls') = k - 1
        /\ \A m \in 1 .. k - 1 : calls'[m] = IF m = k - 1 THEN e ELSE s[m]
    <3>1. k - 1 \in 1 .. Len(s)
      BY <1>1, <2>1
    <3> QED
      BY <2>1, <2>2, <2>4, <3>1, ExceptSeq
  <2>6. \A m \in 1 .. k - 2 : m \in 1 .. k - 1 /\ m # k - 1
    BY <1>1
  <2> QED
    BY <1>1, <2>1, <2>5, <2>6 DEF e
<1>5. \A m \in 1 .. k - 1 : calls'[m].item = calls[m].item /\ m \in 1 .. k
  <2>1. \A m \in 1 .. k - 1 : m \in 1 .. k - 2 \/ m = k - 1
    BY <1>1
  <2> QED
    BY <1>1, <1>4, <2>1
<1>6. \A x : Active(x)' <=> (Active(x) /\ x # c)
  <2>1. \A m \in 1 .. k - 1 : calls[m].item # c
    BY <1>0, <1>1, <1>5
  <2>2. \A m \in 1 .. k : m \in 1 .. k - 1 \/ m = k
    BY <1>1
  <2> QED
    <3> SUFFICES ASSUME NEW x
                 PROVE  (\E m \in 1 .. k - 1 : calls'[m].item = x)
                          <=> ((\E m \in 1 .. k : calls[m].item = x) /\ x # c)
      BY <1>4 DEF Active
    <3> QED
      BY <1>1, <1>5, <2>1, <2>2
<1>7. ASSUME file' # "built" PROVE Path'
  <2>1. Len(calls') > 0 /\ calls'[1].item = doc.root
    <3>1. 1 \in 1 .. k - 1
      BY <1>1
    <3>2. calls[1].item = doc.root
      BY <1>1 DEF Path
    <3>3. calls'[1].item = doc.root
      BY <1>5, <3>1, <3>2
    <3>4. Len(calls') > 0
      BY <1>1, <1>4, <3>1
    <3> QED
      BY <3>3, <3>4
  <2>2. \A m \in 1 .. k - 1 : calls'[m].taken <= Len(Kids(calls'[m].item))
    <3>1. subItemCount[p] + 1 <= Len(Kids(p))
      BY <1>2, <1>3, DocFacts
    <3>2. \A m \in 1 .. k - 1 : m \in 1 .. k - 2 \/ m = k - 1
      BY <1>1
    <3> QED
      <4> SUFFICES ASSUME NEW m \in 1 .. k - 1
                   PROVE  calls'[m].taken <= Len(Kids(calls'[m].item))
        OBVIOUS
      <4>1. CASE m = k - 1
        BY <1>4, <3>1, <4>1
      <4>2. CASE m \in 1 .. k - 2
        BY <1>0, <1>4, <1>5, <4>2
      <4> QED
        BY <3>2, <4>1, <4>2
  <2>3. \A m \in 1 .. k - 2 :
          /\ calls'[m].taken < Len(Kids(calls'[m].item))
          /\ calls'[m + 1].item = Kids(calls'[m].item)[calls'[m].taken + 1]
    <3>1. \A m \in 1 .. k - 2 : m + 1 \in 1 .. k - 1 /\ m \in 1 .. k - 1
      BY <1>1
    <3> QED
      BY <1>0, <1>4, <1>5, <3>1
  <2>4. \A a, b \in 1 .. k - 1 : calls'[a].item = calls'[b].item => a = b
    BY <1>0, <1>5
  <2>5. \A x : Kids(x)' = Kids(x)
    BY <1>1 DEF Kids
  <2>6. (k - 1) - 1 = k - 2 /\ doc' = doc
    BY <1>1
  <2> QED
    BY <1>4, <1>7, <2>1, <2>2, <2>3, <2>4, <2>5, <2>6 DEF Path
<1> QED
  BY <1>1, <1>2, <1>3, <1>4, <1>6, <1>7

\* A call returns: its node is added to the tree, or does not fit.
LEMMA AddKeeps == ASSUME TreeInv, AddSubItem PROVE TreeInv'
<1>0. PICK k \in Nat, p \in Items, c \in Items, n \in Nat :
      /\ k = Len(calls) /\ p = calls[k - 1].item /\ n = subItemCount[p] /\ k > 1
      /\ file = "reading" /\ doc' = doc /\ add_sub_item(p, c) /\ p # c
      /\ calls' \in Seq([item : Items, taken : Nat]) /\ Len(calls') = k - 1
      /\ \A m \in 1 .. k - 2 : calls'[m] = calls[m]
      /\ calls'[k - 1].item = p /\ calls'[k - 1].taken = n + 1
      /\ n < Len(Kids(p)) /\ Kids(p)[n + 1] = c /\ subItemCount[c] = Len(Kids(c))
      /\ \A x : Active(x)' <=> (Active(x) /\ x # c)
      /\ (file' # "built" => Path')
  BY PopKeeps
<1>1. /\ k \in Nat /\ k > 1 /\ p \in Items /\ c \in Items /\ p # c /\ n \in Nat
      /\ n = subItemCount[p] /\ n < Len(Kids(p)) /\ Kids(p)[n + 1] = c
      /\ subItemCount[c] = Len(Kids(c)) /\ file = "reading" /\ doc' = doc
  BY <1>0
<1>2. \A x : Kids(x)' = Kids(x)
  BY <1>1 DEF Kids
<1>21. /\ \A q \in Items : Len(Kids(q)) \in Nat
       /\ \A q \in Items : \A i \in 1 .. Len(Kids(q)) : Kids(q)[i] \in Items
       /\ \A q, x \in Items :
            \A i \in 1 .. Len(Kids(q)), j \in 1 .. Len(Kids(x)) :
              Kids(q)[i] = Kids(x)[j] => q = x /\ i = j
  BY DocFacts DEF TreeInv
<1>22. n + 1 \in 1 .. Len(Kids(p))
  BY <1>1, <1>21
<1>3. CASE n \notin Slots
  <2>1. file' = "overrun" /\ UNCHANGED nodes
    BY <1>0, <1>1, <1>3 DEF add_sub_item
  <2>2. TreeTypeOK'
    BY <1>0, <1>1, <2>1 DEF TreeInv, TreeTypeOK, nodes
  <2>3. LinksAgree'
    BY <1>1, <2>1 DEF TreeInv, LinksAgree, nodes
  <2>4. Counted' /\ Unlinked'
    BY <1>1, <2>1 DEF TreeInv, Counted, Unlinked, InTree, Kids, nodes
  <2> QED
    BY <1>0, <1>1, <2>1, <2>2, <2>3, <2>4 DEF TreeInv
<1>4. CASE n \in Slots
  <2>1. /\ sibling' = Linked(p, c) /\ UNCHANGED file
        /\ subItems' = [subItems EXCEPT ![p][n] = c]
        /\ subItemCount' = [subItemCount EXCEPT ![p] = n + 1]
        /\ parent' = [parent EXCEPT ![c] = p]
    BY <1>0, <1>1, <1>4 DEF add_sub_item
  <2>2. /\ parent \in [Items -> Items \cup {NULL}]
        /\ sibling \in [Items -> Items \cup {NULL}]
        /\ subItems \in [Items -> [Slots -> Items \cup {NULL}]]
        /\ subItemCount \in [Items -> 0 .. Room] /\ Room \in Nat
        /\ n + 1 \in 0 .. Room
    <3>1. Room \in Nat /\ n < Room
      BY <1>4, TreeAssumption DEF TreeAssumption, Slots
    <3> QED
      BY <3>1 DEF TreeInv, TreeTypeOK
  <2>3. /\ subItemCount'[p] = n + 1 /\ subItems'[p][n] = c /\ parent'[c] = p
        /\ \A i \in Slots : i # n => subItems'[p][i] = subItems[p][i]
        /\ \A q \in Items : q # p => /\ subItemCount'[q] = subItemCount[q]
                                     /\ subItems'[q] = subItems[q]
        /\ \A x \in Items : x # c => parent'[x] = parent[x]
    BY <1>1, <1>4, <2>1, <2>2
  \* The node before in the array is another one than any that changes.
  <2>4. \A q \in Items : \A i \in 0 .. subItemCount[q] - 1 :
          /\ i \in Nat /\ i < Len(Kids(q)) /\ i + 1 \in 1 .. Len(Kids(q))
          /\ i \in Slots /\ subItems[q][i] = Kids(q)[i + 1]
          /\ subItems[q][i] \in Items /\ subItems[q][i] # c
          /\ parent[subItems[q][i]] = q
          /\ sibling[subItems[q][i]]
               = IF i + 1 < subItemCount[q] THEN subItems[q][i + 1] ELSE NULL
    <3> SUFFICES ASSUME NEW q \in Items, NEW i \in 0 .. subItemCount[q] - 1
                 PROVE  /\ i \in Nat /\ i < Len(Kids(q)) /\ i + 1 \in 1 .. Len(Kids(q))
                        /\ i \in Slots /\ subItems[q][i] = Kids(q)[i + 1]
                        /\ subItems[q][i] \in Items /\ subItems[q][i] # c
                        /\ parent[subItems[q][i]] = q
                        /\ sibling[subItems[q][i]]
                             = IF i + 1 < subItemCount[q] THEN subItems[q][i + 1]
                               ELSE NULL
      OBVIOUS
    <3>1. /\ i < Len(Kids(q)) /\ subItems[q][i] = Kids(q)[i + 1]
          /\ parent[subItems[q][i]] = q
          /\ sibling[subItems[q][i]]
               = IF i + 1 < subItemCount[q] THEN subItems[q][i + 1] ELSE NULL
      BY DEF TreeInv, LinksAgree, Kids
    <3>2. i \in Nat /\ i \in Slots
      BY <2>2 DEF Slots
    <3>3. i + 1 \in 1 .. Len(Kids(q)) /\ Kids(q)[i + 1] \in Items
      BY <1>21, <3>1, <3>2
    <3>4. Kids(q)[i + 1] # c
      <4>1. Kids(q)[i + 1] = Kids(p)[n + 1] => q = p /\ i + 1 = n + 1
        BY <1>21, <1>22, <3>3
      <4> QED
        BY <1>1, <3>2, <4>1
    <3> QED
      BY <3>1, <3>2, <3>3, <3>4
  <2>5. \A q \in Items : \A i \in 0 .. subItemCount[q] - 1 :
          sibling'[subItems[q][i]]
            = IF q = p /\ i = n - 1 THEN c ELSE sibling[subItems[q][i]]
    <3> SUFFICES ASSUME NEW q \in Items, NEW i \in 0 .. subItemCount[q] - 1
                 PROVE  sibling'[subItems[q][i]]
                          = IF q = p /\ i = n - 1 THEN c ELSE sibling[subItems[q][i]]
      OBVIOUS
    <3>1. CASE n > 0
      <4>1. sibling' = [sibling EXCEPT ![subItems[p][n - 1]] = c]
        BY <1>1, <2>1, <3>1 DEF Linked
      <4>2. n - 1 \in 0 .. subItemCount[p] - 1
        BY <1>1, <3>1
      <4>3. subItems[q][i] = subItems[p][n - 1] <=> (q = p /\ i = n - 1)
        <5>1. subItems[q][i] = Kids(q)[i + 1] /\ i + 1 \in 1 .. Len(Kids(q)) /\ i \in Nat
          BY <2>4
        <5>2. /\ subItems[p][n - 1] = Kids(p)[(n - 1) + 1]
              /\ (n - 1) + 1 \in 1 .. Len(Kids(p))
          BY <1>1, <2>4, <4>2
        <5>3. Kids(q)[i + 1] = Kids(p)[(n - 1) + 1] => q = p /\ i + 1 = (n - 1) + 1
          BY <1>21, <5>1, <5>2
        <5> QED
          BY <1>1, <5>1, <5>2, <5>3
      <4> QED
        BY <1>1, <2>2, <2>4, <4>1, <4>3
    <3>2. CASE ~(n > 0)
      BY <1>1, <2>1, <3>2 DEF Linked
    <3> QED
      BY <3>1, <3>2
  <2>6. ~InTree(c)
    BY <2>4 DEF InTree
  <2>7. sibling'[c] = NULL
    <3>1. sibling[c] = NULL
      BY <1>1, <2>6 DEF TreeInv, Unlinked
    <3>2. n > 0 => n - 1 \in 0 .. subItemCount[p] - 1
      BY <1>1
    <3>3. n > 0 => subItems[p][n - 1] # c
      BY <1>1, <2>4, <3>2
    <3> QED
      BY <1>1, <2>1, <2>2, <3>1, <3>3 DEF Linked
  <2>8. TreeTypeOK'
    <3>1. sibling' \in [Items -> Items \cup {NULL}]
      BY <1>1, <2>1, <2>2 DEF Linked
    <3>2. subItems' \in [Items -> [Slots -> Items \cup {NULL}]]
      BY <1>1, <2>1, <2>2
    <3>3. parent' \in [Items -> Items \cup {NULL}] /\ subItemCount' \in [Items -> 0 .. Room]
      BY <1>1, <2>1, <2>2
    <3> QED
      BY <1>0, <1>1, <2>1, <3>1, <3>2, <3>3 DEF TreeInv, TreeTypeOK
  <2>9. LinksAgree'
    <3> SUFFICES ASSUME NEW q \in Items, NEW i \in 0 .. subItemCount'[q] - 1
                 PROVE  /\ i < Len(Kids(q))
                        /\ subItems'[q][i] = Kids(q)[i + 1]
                        /\ parent'[subItems'[q][i]] = q
                        /\ sibling'[subItems'[q][i]]
                             = IF i + 1 < subItemCount'[q] THEN subItems'[q][i + 1]
                               ELSE NULL
      BY <1>1 DEF LinksAgree, Kids
    <3>1. CASE q = p /\ i = n
      BY <1>1, <2>3, <2>7, <3>1
    <3>2. CASE q = p /\ i # n
      <4>1. i \in 0 .. subItemCount[p] - 1 /\ i < n /\ i \in Slots
        BY <1>1, <2>2, <2>3, <3>2 DEF Slots
      <4>2. subItems'[p][i] = subItems[p][i]
        BY <2>3, <3>2, <4>1
      <4>3. i + 1 < n => i + 1 \in Slots /\ subItems'[p][i + 1] = subItems[p][i + 1]
        <5>1. i \in Nat /\ n < Room /\ Room \in Nat
          BY <1>1, <1>4, <2>2, <4>1 DEF Slots
        <5>2. i + 1 < n => i + 1 \in Slots /\ i + 1 # n
          BY <1>1, <5>1 DEF Slots
        <5> QED
          BY <2>3, <5>2
      <4>4. /\ i < Len(Kids(p)) /\ subItems[p][i] = Kids(p)[i + 1]
            /\ subItems[p][i] # c /\ subItems[p][i] \in Items
            /\ parent[subItems[p][i]] = p
            /\ sibling[subItems[p][i]]
                 = IF i + 1 < n THEN subItems[p][i + 1] ELSE NULL
        BY <1>1, <2>4, <4>1
      <4>5. sibling'[subItems[p][i]]
              = IF i = n - 1 THEN c ELSE sibling[subItems[p][i]]
        BY <1>1, <2>5, <4>1
      <4>6. i = n - 1 => i + 1 = n /\ subItems'[p][i + 1] = c
        BY <1>1, <2>3
      <4>7. i # n - 1 => i + 1 < n
        BY <1>1, <4>1
      <4> QED
        BY <1>1, <2>3, <3>2, <4>1, <4>2, <4>3, <4>4, <4>5, <4>6, <4>7
    <3>3. CASE q # p
      BY <2>3, <2>4, <2>5, <3>3
    <3> QED
      BY <3>1, <3>2, <3>3
  <2>10. \A x : InTree(x)' <=> (InTree(x) \/ x = c)
    <3>1. ASSUME NEW x, InTree(x)' PROVE InTree(x) \/ x = c
      <4>1. PICK q \in Items : \E i \in 0 .. subItemCount'[q] - 1 : Kids(q)[i + 1] = x
        BY <1>2, <3>1 DEF InTree
      <4>2. PICK i \in 0 .. subItemCount'[q] - 1 : Kids(q)[i + 1] = x
        BY <4>1
      <4>3. CASE q = p /\ i = n
        BY <1>1, <4>2, <4>3
      <4>4. CASE ~(q = p /\ i = n)
        <5>1. i \in 0 .. subItemCount[q] - 1
          BY <1>1, <2>3, <4>2, <4>4
        <5> QED
          BY <4>2, <5>1 DEF InTree
      <4> QED
        BY <4>3, <4>4
    <3>2. InTree(c)'
      <4>1. n \in 0 .. subItemCount'[p] - 1
        BY <1>1, <2>3
      <4> QED
        BY <1>1, <1>2, <4>1 DEF InTree
    <3>3. ASSUME NEW x, InTree(x) PROVE InTree(x)'
      <4>1. PICK q \in Items : \E i \in 0 .. subItemCount[q] - 1 : Kids(q)[i + 1] = x
        BY <3>3 DEF InTree
      <4>2. PICK i \in 0 .. subItemCount[q] - 1 : Kids(q)[i + 1] = x
        BY <4>1
      <4>3. i \in 0 .. subItemCount'[q] - 1
        BY <1>1, <2>3, <4>2
      <4> QED
        BY <1>2, <4>2, <4>3 DEF InTree
    <3> QED
      BY <3>1, <3>2, <3>3
  <2>11. Counted'
    <3>1. \A m \in 1 .. k - 1 : subItemCount'[calls'[m].item] = calls'[m].taken
      <4> SUFFICES ASSUME NEW m \in 1 .. k - 1
                   PROVE  subItemCount'[calls'[m].item] = calls'[m].taken
        OBVIOUS
      <4>1. CASE m = k - 1
        BY <1>0, <1>1, <2>3, <4>1
      <4>2. CASE m # k - 1
        <5>1. m \in 1 .. k - 2 /\ m \in 1 .. k /\ k - 1 \in 1 .. k
          BY <1>1, <4>2
        <5>2. calls[m].item # p /\ calls[m].item \in Items
          BY <1>0, <1>1, <4>2, <5>1, CallFacts DEF TreeInv, Path
        <5>3. subItemCount[calls[m].item] = calls[m].taken
          BY <1>0, <1>1, <5>1 DEF TreeInv, Counted
        <5>4. calls'[m] = calls[m]
          BY <1>0, <5>1
        <5>5. subItemCount'[calls[m].item] = subItemCount[calls[m].item]
          BY <2>3, <5>2
        <5> QED
          BY <5>3, <5>4, <5>5
      <4> QED
        BY <4>1, <4>2
    <3>2. Active(p) /\ p # c
      <4>1. k - 1 \in 1 .. k
        BY <1>1
      <4> QED
        BY <1>0, <1>1, <4>1 DEF Active
    <3>3. \A x \in Items : ~(Active(x) /\ x # c) =>
            subItemCount'[x] = IF InTree(x) \/ x = c \/ (x = doc.root /\ file = "built")
                               THEN Len(Kids(x)) ELSE 0
      BY <1>1, <2>3, <3>2 DEF TreeInv, Counted
    <3> QED
      BY <1>0, <1>1, <1>2, <2>1, <2>10, <3>1, <3>3 DEF Counted
  <2>12. Unlinked'
    <3> SUFFICES ASSUME NEW x \in Items, ~InTree(x), x # c
                 PROVE  parent'[x] = NULL /\ sibling'[x] = NULL
      BY <2>10 DEF Unlinked
    <3>1. parent[x] = NULL /\ sibling[x] = NULL
      BY DEF TreeInv, Unlinked
    <3>2. n > 0 => subItems[p][n - 1] # x
      <4>1. ASSUME n > 0 PROVE n - 1 \in 0 .. subItemCount[p] - 1
        BY <1>1, <4>1
      <4>2. ASSUME n > 0 PROVE subItems[p][n - 1] = Kids(p)[(n - 1) + 1]
        BY <1>1, <2>4, <4>1, <4>2
      <4> QED
        BY <1>1, <4>1, <4>2 DEF InTree
    <3> QED
      BY <1>1, <2>1, <2>2, <2>3, <3>1, <3>2 DEF Linked
  <2> QED
    BY <1>0, <1>1, <2>1, <2>8, <2>9, <2>11, <2>12 DEF TreeInv
<1> QED
  BY <1>3, <1>4

\* Parse_json is through with the root: the tree is complete.
LEMMA ReturnKeeps == ASSUME TreeInv, ReturnRoot PROVE TreeInv'
<1> USE DEF TreeInv
<1>1. /\ file = "reading" /\ Len(calls) = 1 /\ Parsed(Top) /\ Top = calls[1]
      /\ calls' = <<>> /\ file' = "built" /\ UNCHANGED <<doc, nodes>>
  BY DEF ReturnRoot, Top
<1>2. TreeTypeOK' /\ LinksAgree' /\ Unlinked'
  BY <1>1 DEF TreeTypeOK, LinksAgree, Unlinked, InTree, Kids, nodes
<1>3. Path'
  BY <1>1 DEF Path
<1>4. /\ \A x : Active(x) <=> x = doc.root
      /\ subItemCount[doc.root] = Len(Kids(doc.root))
  <2>1. calls[1].item = doc.root /\ 1 \in 1 .. Len(calls)
    BY <1>1 DEF Path
  <2> QED
    BY <1>1, <2>1 DEF Active, Counted, Parsed, Kids
<1>5. \A p \in Items :
        subItemCount[p] = IF InTree(p) \/ p = doc.root THEN Len(Kids(p)) ELSE 0
  BY <1>1, <1>4 DEF Counted
<1>6. Counted'
  BY <1>1, <1>5 DEF Counted, InTree, Kids, nodes
<1> QED
  BY <1>2, <1>3, <1>6

\* No step of read_json, and no other, breaks the invariant.
LEMMA TreeNext == TreeInv /\ (read_json \/ UNCHANGED tree) => TreeInv'
<1>1. ASSUME TreeInv, UNCHANGED tree PROVE TreeInv'
  <2>1. UNCHANGED <<doc, calls, parent, sibling, subItems, subItemCount, file>>
    BY <1>1 DEF tree, nodes
  <2>2. TreeTypeOK'
    BY <1>1, <2>1 DEF TreeInv, TreeTypeOK
  <2>3. LinksAgree'
    BY <1>1, <2>1 DEF TreeInv, LinksAgree
  <2>4. Path'
    BY <1>1, <2>1 DEF TreeInv, Path, Kids
  <2>5. Counted' /\ Unlinked'
    BY <1>1, <2>1 DEF TreeInv, Counted, Unlinked, InTree, Active, Kids
  <2> QED
    BY <2>2, <2>3, <2>4, <2>5 DEF TreeInv
<1> QED
  BY <1>1, ParseKeeps, AddKeeps, ReturnKeeps DEF read_json
\* The running calls, the arrays and the links as read_json leaves them.
LEMMA TreeAlways == Spec => []TreeInv
<1>1. Init => TreeInv
  BY TreeInitInv DEF Init
<1>2. TreeInv /\ [Next]_vars => TreeInv'
  <2>1. [Next]_vars => read_json \/ UNCHANGED tree
    BY DEF Next, User, Run, BuildMenu, vars
  <2> QED
    BY <2>1, TreeNext
<1> QED
  BY <1>1, <1>2, PTL DEF Spec

-----------------------------------------------------------------------------
\* The variables of read_json keep their types.
THEOREM TreeTypeCorrect == Spec => []TreeTypeOK
<1>1. TreeInv => TreeTypeOK
  BY DEF TreeInv
<1> QED
  BY <1>1, TreeAlways, PTL

\* In the half-built tree as in the finished one, whatever the menu and the
\* room: add_sub_item keeps arrays, parents and siblings in agreement.
THEOREM LinksAlwaysAgree == Spec => []LinksAgree
<1>1. TreeInv => LinksAgree
  BY DEF TreeInv
<1> QED
  BY <1>1, TreeAlways, PTL

\* Nothing of the menu is missing: the items with lists that are not in the
\* tree could be entered from their like only.
LEMMA AllAdded ==
  ASSUME TreeInv, file = "built"
  PROVE  \A p \in Items : subItemCount[p] = Len(Kids(p))
<1> DEFINE S == {p \in Items : Kids(p) # <<>> /\ p # doc.root /\ ~InTree(p)}
<1>1. /\ \A p \in Items : Kids(p) \in Seq(Items) /\ Len(Kids(p)) \in Nat
      /\ doc.root \in Items
  BY DocFacts DEF TreeInv
<1>2. \A p \in Items :
        subItemCount[p] = IF InTree(p) \/ p = doc.root THEN Len(Kids(p)) ELSE 0
  BY DEF TreeInv, Path, Counted, Active
<1>3. \A T : T \subseteq {p \in Items : Kids(p) # <<>>} /\ T # {} /\ doc.root \notin T =>
        \E p \in Items \ T : \E i \in DOMAIN Kids(p) : Kids(p)[i] \in T
  BY TreeAssumption DEF TreeInv, TreeTypeOK, TreeAssumption, IsMenu, Kids
<1>4. S = {}
  <2> SUFFICES ASSUME S # {} PROVE FALSE
    OBVIOUS
  <2>1. S \subseteq {p \in Items : Kids(p) # <<>>} /\ doc.root \notin S
    OBVIOUS
  <2>2. PICK p \in Items \ S : \E i \in DOMAIN Kids(p) : Kids(p)[i] \in S
    BY <1>3, <2>1
  <2>3. PICK i \in 1 .. Len(Kids(p)) : Kids(p)[i] \in S
    BY <1>1, <2>2
  <2>4. Kids(p) # <<>>
    BY <1>1, <2>3
  <2>5. subItemCount[p] = Len(Kids(p))
    BY <1>2, <2>2, <2>4
  <2>6. i - 1 \in 0 .. subItemCount[p] - 1 /\ (i - 1) + 1 = i
    BY <1>1, <2>3, <2>5
  <2>7. InTree(Kids(p)[i])
    BY <2>2, <2>6 DEF InTree
  <2> QED
    BY <2>3, <2>7
<1> QED
  BY <1>1, <1>2, <1>4

\* A finished tree is the menu in the file, link for link.
LEMMA BuiltMenu == TreeInv => TreeIsMenu
<1> SUFFICES ASSUME TreeInv, file = "built", NEW n \in Items
             PROVE  /\ subItemCount[n] = Len(Kids(n))
                    /\ \A i \in DOMAIN Kids(n) : subItems[n][i - 1] = Kids(n)[i]
                    /\ parent[n] = ParentOf(doc.children, n)
                    /\ sibling[n] = SiblingOf(doc.children, n)
  BY DEF TreeIsMenu, Kids
<1>1. /\ \A p \in Items : Kids(p) \in Seq(Items) /\ Len(Kids(p)) \in Nat
      /\ \A p \in Items : \A i \in 1 .. Len(Kids(p)) : Kids(p)[i] \in Items
      /\ \A p, q \in Items :
           \A i \in 1 .. Len(Kids(p)), j \in 1 .. Len(Kids(q)) :
             Kids(p)[i] = Kids(q)[j] => p = q /\ i = j
  BY DocFacts DEF TreeInv
<1>2. \A p \in Items : subItemCount[p] = Len(Kids(p)) /\ DOMAIN Kids(p) = 1 .. Len(Kids(p))
  BY <1>1, AllAdded
<1>3. \A p \in Items : \A i \in 1 .. Len(Kids(p)) :
        /\ subItems[p][i - 1] = Kids(p)[i] /\ parent[Kids(p)[i]] = p
        /\ sibling[Kids(p)[i]] = IF i < Len(Kids(p)) THEN Kids(p)[i + 1] ELSE NULL
  <2> SUFFICES ASSUME NEW p \in Items, NEW i \in 1 .. Len(Kids(p))
               PROVE  /\ subItems[p][i - 1] = Kids(p)[i] /\ parent[Kids(p)[i]] = p
                      /\ sibling[Kids(p)[i]]
                           = IF i < Len(Kids(p)) THEN Kids(p)[i + 1] ELSE NULL
    OBVIOUS
  <2>1. i - 1 \in 0 .. subItemCount[p] - 1 /\ (i - 1) + 1 = i
    BY <1>1, <1>2
  <2>2. /\ subItems[p][i - 1] = Kids(p)[i] /\ parent[Kids(p)[i]] = p
        /\ sibling[Kids(p)[i]] = IF i < Len(Kids(p)) THEN subItems[p][i] ELSE NULL
    BY <1>2, <2>1 DEF TreeInv, LinksAgree, Kids
  <2>3. i < Len(Kids(p)) => subItems[p][i] = Kids(p)[i + 1]
    <3>1. i < Len(Kids(p)) => i \in 0 .. subItemCount[p] - 1
      BY <1>1, <1>2
    <3> QED
      BY <3>1 DEF TreeInv, LinksAgree, Kids
  <2> QED
    BY <2>2, <2>3
<1>4. parent[n] = ParentOf(doc.children, n)
  <2> DEFINE Above(q) == \E i \in DOMAIN Kids(q) : Kids(q)[i] = n
  <2>0. ParentOf(doc.children, n)
          = IF \E p \in Items : Above(p) THEN CHOOSE p \in Items : Above(p) ELSE NULL
    BY DEF ParentOf, Kids
  <2>1. CASE \E p \in Items : Above(p)
    <3>1. PICK p \in Items : \E i \in 1 .. Len(Kids(p)) : Kids(p)[i] = n
      BY <1>2, <2>1
    <3>2. PICK i \in 1 .. Len(Kids(p)) : Kids(p)[i] = n
      BY <3>1
    <3>3. ASSUME NEW q \in Items, Above(q) PROVE q = p
      <4>1. PICK j \in 1 .. Len(Kids(q)) : Kids(q)[j] = n
        BY <1>2, <3>3
      <4> QED
        BY <1>1, <3>2, <4>1
    <3>4. Above(p)
      BY <1>2, <3>2
    <3> HIDE DEF Above
    <3>5. (CHOOSE q \in Items : Above(q)) = p
      BY <3>3, <3>4
    <3>6. parent[n] = p
      BY <1>3, <3>2
    <3> QED
      BY <2>0, <3>4, <3>5, <3>6
  <2>2. CASE ~\E p \in Items : Above(p)
    <3>1. ~InTree(n)
      BY <1>1, <1>2, <2>2 DEF InTree
    <3> QED
      BY <2>0, <2>2, <3>1 DEF TreeInv, Unlinked
  <2> QED
    BY <2>1, <2>2
<1>5. sibling[n] = SiblingOf(doc.children, n)
  <2> DEFINE Follows(s) == \E p \in Items : \E i \in 1 .. Len(Kids(p)) - 1 :
                            Kids(p)[i] = n /\ Kids(p)[i + 1] = s
  <2>0. SiblingOf(doc.children, n)
          = IF \E s \in Items : Follows(s) THEN CHOOSE s \in Items : Follows(s) ELSE NULL
    <3>1. (\E s \in Items : Follows(s))
            <=> \E p \in Items : \E i \in 1 .. Len(Kids(p)) - 1 : Kids(p)[i] = n
      <4>1. \A p \in Items : \A i \in 1 .. Len(Kids(p)) - 1 : Kids(p)[i + 1] \in Items
        BY <1>1
      <4> QED
        BY <4>1
    <3> QED
      BY <3>1 DEF SiblingOf, Kids
  <2>1. CASE \E s \in Items : Follows(s)
    <3>1. PICK p \in Items : \E i \in 1 .. Len(Kids(p)) - 1 : Kids(p)[i] = n
      BY <2>1
    <3>2. PICK i \in 1 .. Len(Kids(p)) - 1 : Kids(p)[i] = n
      BY <3>1
    <3>3. i \in 1 .. Len(Kids(p)) /\ i < Len(Kids(p)) /\ i + 1 \in 1 .. Len(Kids(p))
      BY <1>1
    <3>4. \A q \in Items : \A j \in 1 .. Len(Kids(q)) - 1 :
            Kids(q)[j] = n => q = p /\ j = i
      <4>1. \A q \in Items : \A j \in 1 .. Len(Kids(q)) - 1 : j \in 1 .. Len(Kids(q))
        BY <1>1
      <4> QED
        BY <1>1, <3>2, <3>3, <4>1
    <3>5. \A s \in Items : Follows(s) => s = Kids(p)[i + 1]
      BY <3>4
    <3>6. Kids(p)[i + 1] \in Items /\ Follows(Kids(p)[i + 1])
      BY <1>1, <3>2, <3>3
    <3> HIDE DEF Follows
    <3>7. (CHOOSE s \in Items : Follows(s)) = Kids(p)[i + 1]
      BY <3>5, <3>6
    <3>8. sibling[n] = Kids(p)[i + 1]
      BY <1>3, <3>2, <3>3
    <3> QED
      BY <2>0, <3>6, <3>7, <3>8
  <2>2. CASE ~\E s \in Items : Follows(s)
    <3>1. CASE InTree(n)
      <4>1. PICK p \in Items : \E i \in 0 .. subItemCount[p] - 1 : Kids(p)[i + 1] = n
        BY <3>1 DEF InTree
      <4>2. PICK i \in 0 .. subItemCount[p] - 1 : Kids(p)[i + 1] = n
        BY <4>1
      <4>3. i + 1 \in 1 .. Len(Kids(p))
        BY <1>1, <1>2
      <4>4. ~(i + 1 < Len(Kids(p)))
        <5> SUFFICES ASSUME i + 1 < Len(Kids(p)) PROVE FALSE
          OBVIOUS
        <5>1. /\ i + 1 \in 1 .. Len(Kids(p)) - 1 /\ (i + 1) + 1 \in 1 .. Len(Kids(p))
              /\ Kids(p)[(i + 1) + 1] \in Items
          BY <1>1, <4>3
        <5>2. Follows(Kids(p)[(i + 1) + 1])
          BY <1>1, <4>2, <5>1
        <5> QED
          BY <1>1, <2>2, <5>1, <5>2
      <4> QED
        BY <1>3, <2>0, <2>2, <4>2, <4>3, <4>4
    <3>2. CASE ~InTree(n)
      BY <2>0, <2>2, <3>2 DEF TreeInv, Unlinked
    <3> QED
      BY <3>1, <3>2
  <2> QED
    BY <2>1, <2>2
<1> QED
  BY <1>2, <1>3, <1>4, <1>5

\* What read_json returns is the menu in the file, for every menu.
THEOREM TreeBuilt == Spec => []TreeIsMenu
  BY BuiltMenu, TreeAlways, PTL
-----------------------------------------------------------------------------
\* Where the threads can be; the lines are drawn for an item.
Places ==
  /\ pc["main"] \in {"read", "first", "show", "line1", "line2", "join"}
  /\ \A b \in Buttons : pc[b] \in {"poll", "first", "clear", "show", "line1", "line2"}
                                   \cup Underway
  /\ \A t \in Threads : pc[t] \in {"line1", "line2"} => node[t] \in Items

\* A press is owed a move from the button on, until it is made.
Owing ==
  \A b \in Buttons :
    /\ b \in held \ seen => b \in owed
    /\ pc[b] # "poll" => b \in seen
    /\ pc[b] \in Underway => b \in owed

DeskInv == MenuTypeOK /\ Places /\ Owing

Pcs == {"read", "join", "poll", "first", "clear", "show", "line1", "line2",
        "enter", "count", "load", "store"}

\* What a move of a thread from one point to another says of pc.
LEMMA GotoFacts ==
  ASSUME MenuTypeOK, NEW t \in Threads, NEW from, NEW to \in Pcs, Goto(t, from, to)
  PROVE  /\ pc[t] = from /\ pc'[t] = to /\ pc' \in [Threads -> Pcs]
         /\ \A u \in Threads : u # t => pc'[u] = pc[u]
  BY DEF MenuTypeOK, Goto, Pcs, Underway

\* The threads other than main are those of the buttons.
LEMMA ButtonFacts == /\ \A b \in Buttons : b \in Threads /\ b # "main"
                     /\ "main" \in Threads
                     /\ \A t \in Threads : t = "main" \/ t \in Buttons
                     /\ \A b \in {"up", "down"} : b \in Buttons
  BY DEF Buttons, Threads

\* What a thread finds in a node.
LEMMA NodeFacts ==
  ASSUME TreeInv
  PROVE  /\ \A n \in Items : parent[n] \in Items \cup {NULL}
                             /\ sibling[n] \in Items \cup {NULL}
         /\ \A n \in Items \cup {NULL} : Count(n) \in 0 .. Room
         /\ \A n \in Items \cup {NULL}, i \in Int :
              ~Outside(i, n) => n \in Items /\ i \in Nat /\ Item(n, i) \in Items
<1>0. Room \in Nat \ {0}
  BY TreeAssumption DEF TreeAssumption
<1>1. /\ \A n \in Items : parent[n] \in Items \cup {NULL}
                          /\ sibling[n] \in Items \cup {NULL}
                          /\ subItemCount[n] \in 0 .. Room
  BY DEF TreeInv, TreeTypeOK
<1>2. \A n \in Items \cup {NULL} :
        Count(n) \in 0 .. Room /\ (Count(n) # 0 => n \in Items)
  BY <1>0, <1>1, NullAssumption DEF Count
<1>3. \A n \in Items : \A i \in Nat : i < Count(n) => Item(n, i) \in Items
  <2> SUFFICES ASSUME NEW n \in Items, NEW i \in Nat, i < Count(n)
               PROVE  Item(n, i) \in Items
    OBVIOUS
  <2>1. i \in 0 .. subItemCount[n] - 1
    BY <1>1, NullAssumption DEF Count
  <2>2. i < Len(Kids(n)) /\ subItems[n][i] = Kids(n)[i + 1]
    BY <2>1 DEF TreeInv, LinksAgree, Kids
  <2>3. i + 1 \in 1 .. Len(Kids(n))
    BY <2>2, DocFacts DEF TreeInv
  <2> QED
    BY <2>2, <2>3, DocFacts DEF TreeInv, Item
<1>4. \A n \in Items \cup {NULL}, i \in Int :
        ~Outside(i, n) => n \in Items /\ i \in Nat /\ i < Count(n)
  BY <1>0, <1>2 DEF Outside
<1> QED
  BY <1>1, <1>2, <1>3, <1>4

\* What is left by C's remainder is on the side of what is divided.
LEMMA RemInside ==
  ASSUME NEW a \in Int, NEW n \in Nat \ {0}
  PROVE  Rem(a, n) \in 1 - n .. n - 1 /\ (a >= 0 => Rem(a, n) \in 0 .. n - 1)
<1>1. \A c \in Nat : c % n \in 0 .. n - 1
  OBVIOUS
<1>2. CASE a >= 0
  BY <1>1, <1>2 DEF Rem
<1>3. CASE a < 0
  BY <1>1, <1>3 DEF Rem
<1> QED
  BY <1>2, <1>3

\* One step: the user's, a thread's beside the tree, or one of read_json.
LEMMA Steps ==
  ASSUME Next
  PROVE  \/ UNCHANGED tree /\ \E b \in Buttons : Press(b) \/ Release(b)
         \/ UNCHANGED tree /\ \E b \in Buttons : \/ Poll(b) \/ LoadNode(b) \/ LoadTarget(b)
                                                 \/ LoadIndex(b) \/ LoadCount(b)
                                                 \/ LoadModulus(b) \/ StoreIndex(b)
                                                 \/ StoreNode(b) \/ Clear(b)
         \/ UNCHANGED tree /\ \E t \in Threads : \/ First(t) \/ Show(t)
                                                 \/ Line1(t) \/ Line2(t)
         \/ UNCHANGED tree /\ ReadMenu
         \/ BuildMenu
  BY DEF Next, User, Run, Work

\* Every step keeps the types.
LEMMA TypeKeeps ==
  ASSUME TreeInv, MenuTypeOK, Places, Next
  PROVE  MenuTypeOK'
<1> USE ButtonFacts DEF panel, position
<1> DEFINE Stored == \A b \in {"up", "down"} :
                       pc[b] = "store" => index[b] \in 1 - Room .. Room - 1
<1>d. doc' = doc
  BY DEF Next, User, Run, BuildMenu, read_json, ParseSubItem, AddSubItem, ReturnRoot, tree
<1> USE <1>d
\* Only the step to the store makes an index one to be stored.
<1>0. ASSUME NEW t \in Threads, NEW to \in Pcs, Goto(t, pc[t], to), to # "store",
             \A u \in Threads : u # t => index'[u] = index[u]
      PROVE  pc' \in [Threads -> Pcs] /\ Stored'
  <2>1. pc'[t] = to /\ pc' \in [Threads -> Pcs] /\ \A u \in Threads : u # t => pc'[u] = pc[u]
    BY <1>0, GotoFacts
  <2> QED
    BY <1>0, <2>1 DEF MenuTypeOK
<1>1. ASSUME NEW b \in Buttons, Press(b) \/ Release(b) PROVE MenuTypeOK'
  <2>1. Haste[doc] \in Nat
    BY MenuAssumption DEF MenuAssumption, TreeInv, TreeTypeOK
  <2>2. hasty' \in 0 .. Haste[doc]
    BY <1>1, <2>1 DEF Press, Release, MenuTypeOK
  <2> QED
    BY <1>1, <2>2 DEF Press, Release, MenuTypeOK
<1>2. ASSUME NEW b \in Buttons, Poll(b) PROVE MenuTypeOK'
  <2>1. pc' \in [Threads -> Pcs] /\ Stored'
    BY <1>0, <1>2 DEF Poll, Goto, Pcs
  <2> QED
    BY <1>2, <2>1 DEF Poll, MenuTypeOK, Pcs, Underway
<1>3. ASSUME NEW b \in Buttons, LoadNode(b) PROVE MenuTypeOK'
  <2>1. CASE Crash(b, "enter", "no_menu")
    BY <2>1 DEF Crash, MenuTypeOK
  <2>2. CASE ~Crash(b, "enter", "no_menu")
    <3>1. \E to \in {"poll", "load"} : Goto(b, pc[b], to) /\ UNCHANGED index
      BY <1>3, <2>2 DEF LoadNode, Goto
    <3>2. pc' \in [Threads -> Pcs] /\ Stored'
      BY <1>0, <3>1 DEF Pcs
    <3>3. node' \in [Threads -> Items \cup {NULL}] /\ owed' \subseteq Buttons
      BY <1>3, <2>2 DEF LoadNode, MenuTypeOK
    <3>4. UNCHANGED <<held, hasty, seen, index, currentNode, currentIndex, lcd, status>>
      BY <1>3, <2>2 DEF LoadNode
    <3> QED
      BY <3>2, <3>3, <3>4 DEF MenuTypeOK, Pcs, Underway
  <2> QED
    BY <2>1, <2>2
<1>4. ASSUME NEW b \in Buttons, LoadIndex(b) \/ LoadCount(b) PROVE MenuTypeOK'
  <2>1. CASE Crash(b, "count", "no_menu")
    BY <2>1 DEF Crash, MenuTypeOK
  <2>2. CASE ~Crash(b, "count", "no_menu")
    <3>1. /\ \E to \in {"count", "load"} : Goto(b, pc[b], to)
          /\ \E i \in Int : index' = [index EXCEPT ![b] = i]
          /\ UNCHANGED <<panel, node, position, lcd, status>>
      <4>1. currentIndex \in Int /\ index[b] - 1 + Count(currentNode) \in Int
        BY NodeFacts DEF MenuTypeOK
      <4> QED
        BY <1>4, <2>2, <4>1 DEF LoadIndex, LoadCount, Goto
    <3>2. /\ index' \in [Threads -> Int]
          /\ \A u \in Threads : u # b => index'[u] = index[u]
      BY <3>1 DEF MenuTypeOK
    <3>3. pc' \in [Threads -> Pcs] /\ Stored'
      BY <1>0, <3>1, <3>2 DEF Pcs
    <3> QED
      BY <3>1, <3>2, <3>3 DEF MenuTypeOK, Pcs, Underway
  <2> QED
    BY <2>1, <2>2
<1>14. ASSUME NEW b \in Buttons, LoadModulus(b) PROVE MenuTypeOK'
  <2> DEFINE sum == IF b = "down" THEN index[b] + 1 ELSE index[b]
  <2>1. CASE Crash(b, "load", "no_menu") \/ Crash(b, "load", "no_items")
    BY <2>1 DEF Crash, MenuTypeOK
  <2>2. CASE /\ currentNode # NULL /\ Count(currentNode) > 0 /\ Goto(b, "load", "store")
             /\ index' = [index EXCEPT ![b] = Rem(sum, Count(currentNode))]
             /\ UNCHANGED <<panel, node, position, lcd, status>>
    <3>1. Rem(sum, Count(currentNode)) \in 1 - Room .. Room - 1
      <4>1. sum \in Int /\ Count(currentNode) \in Nat \ {0} /\ Count(currentNode) <= Room
            /\ Room \in Nat
        BY <2>2, NodeFacts, TreeAssumption DEF MenuTypeOK, TreeAssumption
      <4> HIDE DEF sum
      <4>2. Rem(sum, Count(currentNode)) \in 1 - Count(currentNode) .. Count(currentNode) - 1
        BY <4>1, RemInside
      <4> QED
        BY <4>1, <4>2
    <3> HIDE DEF sum
    <3>2. /\ index'[b] \in 1 - Room .. Room - 1 /\ index' \in [Threads -> Int]
          /\ \A u \in Threads : u # b => index'[u] = index[u]
      BY <2>2, <3>1, TreeAssumption DEF MenuTypeOK, TreeAssumption
    <3>3. pc' \in [Threads -> Pcs] /\ \A u \in Threads : u # b => pc'[u] = pc[u]
      BY <2>2, GotoFacts DEF Pcs
    <3>4. Stored'
      BY <3>2, <3>3 DEF MenuTypeOK
    <3> QED
      BY <2>2, <3>2, <3>3, <3>4 DEF MenuTypeOK, Pcs, Underway
  <2> QED
    BY <1>14, <2>1, <2>2 DEF LoadModulus
<1>5. ASSUME NEW b \in Buttons, LoadTarget(b) PROVE MenuTypeOK'
  <2>1. PICK n \in {node[b], currentNode} :
          \/ n = NULL /\ Crash(b, "load", "no_menu")
          \/ /\ n # NULL /\ b = "right" /\ Outside(currentIndex, n)
             /\ Crash(b, "load", "stray")
          \/ /\ n # NULL /\ (b = "right" => ~Outside(currentIndex, n))
             /\ Goto(b, "load", "store")
             /\ node' = [node EXCEPT ![b] = IF b = "left" THEN parent[n]
                                            ELSE Item(n, currentIndex)]
             /\ UNCHANGED <<panel, index, position, lcd, status>>
    BY <1>5 DEF LoadTarget
  <2>2. CASE Crash(b, "load", "no_menu") \/ Crash(b, "load", "stray")
    BY <2>2 DEF Crash, MenuTypeOK
  <2>3. CASE /\ n # NULL /\ (b = "right" => ~Outside(currentIndex, n))
             /\ Goto(b, "load", "store")
             /\ node' = [node EXCEPT ![b] = IF b = "left" THEN parent[n]
                                            ELSE Item(n, currentIndex)]
             /\ UNCHANGED <<panel, index, position, lcd, status>>
    <3>0. b = "left" \/ b = "right"
      BY <1>5 DEF LoadTarget
    <3>1. (IF b = "left" THEN parent[n] ELSE Item(n, currentIndex)) \in Items \cup {NULL}
      <4>1. currentIndex \in Int /\ n \in Items
        BY <2>3 DEF MenuTypeOK
      <4> QED
        BY <2>3, <3>0, <4>1, NodeFacts
    <3>2. pc' \in [Threads -> Pcs] /\ \A u \in Threads : u # b => pc'[u] = pc[u]
      BY <2>3, GotoFacts DEF Pcs
    <3>3. Stored'
      BY <2>3, <3>0, <3>2 DEF MenuTypeOK
    <3> QED
      BY <2>3, <3>1, <3>2, <3>3 DEF MenuTypeOK, Pcs, Underway
  <2> QED
    BY <2>1, <2>2, <2>3
<1>6. ASSUME NEW b \in Buttons, StoreIndex(b) \/ StoreNode(b) PROVE MenuTypeOK'
  <2>1. /\ \E to \in {"poll", "first"} : Goto(b, pc[b], to)
        /\ pc[b] = "store" /\ Forget(b)
    BY <1>6 DEF StoreIndex, StoreNode, Goto
  <2>2. /\ index' \in [Threads -> Int] /\ node' \in [Threads -> Items \cup {NULL}]
        /\ \A u \in Threads : u # b => index'[u] = index[u]
    BY <2>1 DEF Forget, MenuTypeOK
  <2>3. pc' \in [Threads -> Pcs] /\ Stored'
    BY <1>0, <2>1, <2>2 DEF Pcs
  <2>4. /\ currentNode' \in Items \cup {NULL} /\ currentIndex' \in 1 - Room .. Room - 1
        /\ owed' \subseteq Buttons /\ UNCHANGED <<held, hasty, seen, lcd, status>>
    BY <1>6, <2>1 DEF StoreIndex, StoreNode, MenuTypeOK
  <2> QED
    BY <2>2, <2>3, <2>4 DEF MenuTypeOK, Pcs, Underway
<1>7. ASSUME NEW b \in Buttons, Clear(b) PROVE MenuTypeOK'
  <2>1. pc' \in [Threads -> Pcs] /\ Stored'
    BY <1>0, <1>7 DEF Clear, Goto, Pcs
  <2> QED
    BY <1>7, <2>1 DEF Clear, Blank, MenuTypeOK, Pcs, Underway
<1>8. ASSUME NEW t \in Threads, First(t) PROVE MenuTypeOK'
  <2>1. pc' \in [Threads -> Pcs] /\ Stored'
    BY <1>0, <1>8 DEF First, Goto, Pcs
  <2>2. 0 \in 1 - Room .. Room - 1
    BY TreeAssumption DEF TreeAssumption
  <2> QED
    BY <1>8, <2>1, <2>2 DEF First, MenuTypeOK, Pcs, Underway
<1>9. ASSUME NEW t \in Threads, Show(t) PROVE MenuTypeOK'
  <2>1. CASE Crash(t, "show", "stray")
    BY <2>1 DEF Crash, MenuTypeOK
  <2>2. CASE ~Crash(t, "show", "stray")
    <3>1. /\ \E to \in {"line1", After(t)} : Goto(t, pc[t], to)
          /\ UNCHANGED <<panel, index, position, lcd, status>>
      BY <1>9, <2>2 DEF Show, Goto
    <3>2. pc' \in [Threads -> Pcs] /\ Stored'
      BY <1>0, <3>1 DEF After, Pcs
    <3>3. node' \in [Threads -> Items \cup {NULL}]
      <4>1. currentIndex \in Int /\ currentNode \in Items \cup {NULL}
        BY TreeAssumption DEF MenuTypeOK, TreeAssumption
      <4>2. \/ UNCHANGED node
            \/ /\ ~Outside(currentIndex, currentNode)
               /\ node' = [node EXCEPT ![t] = Item(currentNode, currentIndex)]
        BY <1>9, <2>2 DEF Show
      <4>3. ~Outside(currentIndex, currentNode) => Item(currentNode, currentIndex) \in Items
        BY <4>1, NodeFacts
      <4> QED
        BY <4>2, <4>3 DEF MenuTypeOK
    <3> QED
      BY <3>1, <3>2, <3>3 DEF MenuTypeOK, Pcs, Underway
  <2> QED
    BY <2>1, <2>2
<1>10. ASSUME NEW t \in Threads, Line1(t) PROVE MenuTypeOK'
  <2>1. pc' \in [Threads -> Pcs] /\ Stored'
    BY <1>0, <1>10 DEF Line1, Goto, Pcs
  <2> QED
    BY <1>10, <2>1 DEF Line1, MenuTypeOK, Pcs, Underway
<1>11. ASSUME NEW t \in Threads, Line2(t) PROVE MenuTypeOK'
  <2>1. /\ pc[t] = "line2" /\ index' \in [Threads -> Int]
        /\ node' \in [Threads -> Items \cup {NULL}]
        /\ \A u \in Threads : u # t => index'[u] = index[u]
        /\ UNCHANGED <<panel, position, status>>
    BY <1>11 DEF Line2, Forget, Goto, MenuTypeOK
  <2>2. pc' \in [Threads -> Pcs] /\ Stored'
    BY <1>0, <1>11, <2>1 DEF Line2, Goto, After, Pcs
  <2>3. sibling[node[t]] \in Items \cup {NULL}
    BY <2>1, NodeFacts DEF Places
  <2>4. lcd' \in (Items \cup {NULL}) \X (Items \cup {NULL})
    BY <1>11, <2>3 DEF Line2, MenuTypeOK
  <2> QED
    BY <2>1, <2>2, <2>4 DEF MenuTypeOK, Pcs, Underway
<1>12. ASSUME ReadMenu PROVE MenuTypeOK'
  <2>1. pc' \in [Threads -> Pcs] /\ Stored'
    BY <1>0, <1>12 DEF ReadMenu, Goto, Pcs
  <2>2. currentNode' \in Items \cup {NULL}
    BY <1>12, DocFacts DEF ReadMenu, TreeInv
  <2> QED
    BY <1>12, <2>1, <2>2 DEF ReadMenu, MenuTypeOK, Pcs, Underway
<1>13. ASSUME BuildMenu PROVE MenuTypeOK'
  BY <1>13 DEF BuildMenu, MenuTypeOK
<1> QED
  BY <1>1, <1>2, <1>3, <1>4, <1>5, <1>6, <1>7, <1>8, <1>9, <1>10, <1>11, <1>12, <1>13,
     <1>14, Steps
\* Every step leaves its thread at a point that is its own.
LEMMA PlacesKeep ==
  ASSUME TreeInv, MenuTypeOK, Places, Next
  PROVE  Places'
<1> USE ButtonFacts DEF panel, position
<1>1. ASSUME NEW b \in Buttons, Press(b) \/ Release(b) PROVE Places'
  BY <1>1 DEF Press, Release, Places
<1>2. ASSUME NEW b \in Buttons, NEW to \in Pcs \ {"read", "join", "line1", "line2"},
             Goto(b, pc[b], to), \A u \in Threads : u # b => node'[u] = node[u]
      PROVE  Places'
  <2>1. pc'[b] = to /\ \A u \in Threads : u # b => pc'[u] = pc[u]
    BY <1>2, GotoFacts
  <2> QED
    BY <1>2, <2>1 DEF Places, Pcs, Underway
<1>3. ASSUME NEW b \in Threads, NEW from, NEW to, Crash(b, from, to) PROVE Places'
  BY <1>3 DEF Crash, Places
<1>4. ASSUME NEW b \in Buttons, Poll(b) \/ LoadNode(b) \/ Clear(b) PROVE Places'
  <2>1. \/ \E to \in {"enter", "poll", "load", "show"} : Goto(b, pc[b], to)
        \/ Crash(b, "enter", "no_menu")
    BY <1>4 DEF Poll, LoadNode, Clear, Goto
  <2>2. \A u \in Threads : u # b => node'[u] = node[u]
    BY <1>4 DEF Poll, LoadNode, Clear, Crash, MenuTypeOK
  <2> QED
    BY <1>2, <1>3, <2>1, <2>2 DEF Pcs
<1>5. ASSUME NEW b \in Buttons,
             LoadIndex(b) \/ LoadCount(b) \/ LoadModulus(b) \/ LoadTarget(b)
      PROVE  Places'
  <2>1. \/ \E to \in {"count", "load", "store"} : Goto(b, pc[b], to)
        \/ \E from \in {"count", "load"}, how \in {"no_menu", "no_items", "stray"} :
             Crash(b, from, how)
    BY <1>5 DEF LoadIndex, LoadCount, LoadModulus, LoadTarget, Goto
  <2>2. \A u \in Threads : u # b => node'[u] = node[u]
    BY <1>5 DEF LoadIndex, LoadCount, LoadModulus, LoadTarget, Crash, MenuTypeOK
  <2> QED
    BY <1>2, <1>3, <2>1, <2>2 DEF Pcs
<1>6. ASSUME NEW b \in Buttons, StoreIndex(b) \/ StoreNode(b) PROVE Places'
  <2>1. \E to \in {"poll", "first"} : Goto(b, pc[b], to)
    BY <1>6 DEF StoreIndex, StoreNode, Goto
  <2>2. \A u \in Threads : u # b => node'[u] = node[u]
    BY <1>6 DEF StoreIndex, StoreNode, Forget, MenuTypeOK
  <2> QED
    BY <1>2, <2>1, <2>2 DEF Pcs
<1>7. ASSUME NEW t \in Threads, First(t) PROVE Places'
  <2>1. /\ pc'[t] = IF t = "main" THEN "show" ELSE "clear"
        /\ \A u \in Threads : u # t => pc'[u] = pc[u]
    BY <1>7, GotoFacts DEF First, Pcs
  <2> QED
    BY <1>7, <2>1 DEF First, Places
<1>8. ASSUME NEW t \in Threads, Show(t) PROVE Places'
  <2>1. CASE Crash(t, "show", "stray")
    BY <1>3, <2>1
  <2>2. CASE Goto(t, "show", After(t)) /\ UNCHANGED node
    <3>1. pc'[t] = After(t) /\ \A u \in Threads : u # t => pc'[u] = pc[u]
      BY <2>2, GotoFacts DEF After, Pcs
    <3> QED
      BY <2>2, <3>1 DEF After, Places
  <2>3. CASE /\ Goto(t, "show", "line1") /\ ~Outside(currentIndex, currentNode)
             /\ node' = [node EXCEPT ![t] = Item(currentNode, currentIndex)]
    <3>1. pc'[t] = "line1" /\ \A u \in Threads : u # t => pc'[u] = pc[u]
      BY <2>3, GotoFacts DEF Pcs
    <3>2. Item(currentNode, currentIndex) \in Items
      BY <2>3, NodeFacts DEF MenuTypeOK
    <3>3. node'[t] \in Items /\ \A u \in Threads : u # t => node'[u] = node[u]
      BY <2>3, <3>2 DEF MenuTypeOK
    <3> QED
      BY <3>1, <3>3 DEF Places
  <2> QED
    BY <1>8, <2>1, <2>2, <2>3 DEF Show
<1>9. ASSUME NEW t \in Threads, Line1(t) PROVE Places'
  <2>1. /\ pc[t] = "line1" /\ pc'[t] = "line2"
        /\ \A u \in Threads : u # t => pc'[u] = pc[u]
    BY <1>9, GotoFacts DEF Line1, Pcs
  <2> QED
    BY <1>9, <2>1 DEF Line1, Places
<1>10. ASSUME NEW t \in Threads, Line2(t) PROVE Places'
  <2>1. pc'[t] = After(t) /\ \A u \in Threads : u # t => pc'[u] = pc[u]
    BY <1>10, GotoFacts DEF Line2, After, Pcs
  <2>2. \A u \in Threads : u # t => node'[u] = node[u]
    BY <1>10 DEF Line2, Forget, MenuTypeOK
  <2> QED
    BY <2>1, <2>2 DEF After, Places
<1>11. ASSUME ReadMenu PROVE Places'
  <2>1. pc'["main"] = "first" /\ \A u \in Threads : u # "main" => pc'[u] = pc[u]
    BY <1>11, GotoFacts DEF ReadMenu, Pcs
  <2> QED
    BY <1>11, <2>1 DEF ReadMenu, Places
<1>12. ASSUME BuildMenu PROVE Places'
  BY <1>12 DEF BuildMenu, Places
<1> QED
  BY <1>1, <1>4, <1>5, <1>6, <1>7, <1>8, <1>9, <1>10, <1>11, <1>12, Steps

\* A store is made for a press that was not acted on, in every state.
LEMMA OwingKeeps ==
  ASSUME TreeInv, MenuTypeOK, Places, Owing, Next
  PROVE  Owing'
<1> USE ButtonFacts DEF panel, position
<1>1. ASSUME NEW b \in Buttons, Press(b) \/ Release(b) PROVE Owing'
  BY <1>1 DEF Press, Release, Owing
<1>2. ASSUME NEW b \in Buttons, Poll(b) PROVE Owing'
  <2>1. /\ pc[b] = "poll" /\ \A u \in Threads : u # b => pc'[u] = pc[u]
        /\ UNCHANGED <<held, owed>>
    BY <1>2, GotoFacts DEF Poll, Pcs
  <2>2. \/ b \in held \ seen /\ pc'[b] = "enter" /\ seen' = seen \cup {b}
        \/ b \notin held \ seen /\ pc'[b] = "poll" /\ seen' = seen \ ({b} \ held)
    BY <1>2, GotoFacts DEF Poll, Pcs
  <2> QED
    BY <2>1, <2>2 DEF Owing
<1>3. ASSUME NEW b \in Threads, NEW from, NEW to, Crash(b, from, to) PROVE Owing'
  BY <1>3 DEF Crash, Owing
\* On its way a button keeps its claim, and gives it up on the way back.
<1>4. ASSUME NEW b \in Buttons, NEW to \in Pcs, Goto(b, pc[b], to), pc[b] # "poll",
             UNCHANGED <<held, seen>>,
             \/ owed' = owed \ {b} /\ to \notin Underway
             \/ UNCHANGED owed /\ (to \in Underway => pc[b] \in Underway)
      PROVE  Owing'
  <2>1. pc'[b] = to /\ \A u \in Threads : u # b => pc'[u] = pc[u]
    BY <1>4, GotoFacts
  <2> QED
    BY <1>4, <2>1 DEF Owing
<1>5. ASSUME NEW b \in Buttons, LoadNode(b) PROVE Owing'
  <2>1. \/ Crash(b, "enter", "no_menu")
        \/ Goto(b, "enter", "poll") /\ owed' = owed \ {b} /\ UNCHANGED <<held, seen>>
        \/ Goto(b, "enter", "load") /\ UNCHANGED <<held, owed, seen>>
    BY <1>5 DEF LoadNode
  <2> QED
    BY <1>3, <1>4, <2>1 DEF Goto, Pcs, Underway
<1>6. ASSUME NEW b \in Buttons,
             LoadIndex(b) \/ LoadCount(b) \/ LoadModulus(b) \/ LoadTarget(b)
      PROVE  Owing'
  <2>1. \/ /\ \E to \in {"count", "load", "store"} : Goto(b, pc[b], to)
           /\ pc[b] \in Underway /\ UNCHANGED <<held, owed, seen>>
        \/ \E from \in {"count", "load"}, how \in {"no_menu", "no_items", "stray"} :
             Crash(b, from, how)
    BY <1>6 DEF LoadIndex, LoadCount, LoadModulus, LoadTarget, Goto, Underway
  <2> QED
    BY <1>3, <1>4, <2>1 DEF Pcs, Underway
<1>7. ASSUME NEW b \in Buttons, StoreIndex(b) \/ StoreNode(b) PROVE Owing'
  <2>1. /\ Goto(b, "store", "poll") \/ Goto(b, "store", "first")
        /\ owed' = owed \ {b} /\ UNCHANGED <<held, seen>>
    BY <1>7 DEF StoreIndex, StoreNode
  <2> QED
    BY <1>4, <2>1 DEF Goto, Pcs, Underway
\* The steps that display the menu, for a button and for main.
<1>8. ASSUME NEW t \in Threads, NEW to \in Pcs, Goto(t, pc[t], to), UNCHANGED panel,
             t \in Buttons => pc[t] # "poll" /\ to \notin Underway
      PROVE  Owing'
  <2>1. CASE t \in Buttons
    BY <1>4, <1>8, <2>1
  <2>2. CASE t = "main"
    <3>1. \A b \in Buttons : pc'[b] = pc[b]
      BY <1>8, <2>2, GotoFacts
    <3> QED
      BY <1>8, <3>1 DEF Owing
  <2> QED
    BY <2>1, <2>2
<1>9. ASSUME NEW t \in Threads, \/ t \in Buttons /\ Clear(t)
                                \/ First(t) \/ Line1(t) \/ Line2(t) PROVE Owing'
  <2>1. /\ pc[t] \in {"first", "clear", "line1", "line2"} /\ UNCHANGED panel
        /\ \E to \in {"show", "clear", "line2", "poll", "join"} : Goto(t, pc[t], to)
    BY <1>9 DEF Clear, First, Line1, Line2, Goto, After
  <2> QED
    BY <1>8, <2>1 DEF Pcs, Underway
<1>10. ASSUME NEW t \in Threads, Show(t) PROVE Owing'
  <2>1. \/ Crash(t, "show", "stray")
        \/ /\ pc[t] = "show" /\ UNCHANGED panel
           /\ \E to \in {"line1", "poll", "join"} : Goto(t, pc[t], to)
    BY <1>10 DEF Show, Goto, After
  <2> QED
    BY <1>3, <1>8, <2>1 DEF Pcs, Underway
<1>11. ASSUME ReadMenu PROVE Owing'
  <2>1. Goto("main", pc["main"], "first") /\ UNCHANGED panel
    BY <1>11 DEF ReadMenu, Goto
  <2> QED
    BY <1>8, <2>1 DEF Pcs
<1>12. ASSUME BuildMenu PROVE Owing'
  BY <1>12 DEF BuildMenu, Owing
<1> QED
  BY <1>1, <1>2, <1>5, <1>6, <1>7, <1>9, <1>10, <1>11, <1>12, Steps

\* The three together hold at every moment, whatever buttons are pressed when.
LEMMA DeskAlways == Spec => [](TreeInv /\ DeskInv)
<1>1. Init => TreeInv /\ DeskInv
  <2> SUFFICES ASSUME Init PROVE TreeInv /\ DeskInv
    OBVIOUS
  <2>1. MenuTypeOK
    <3>1. doc \in Documents /\ Haste[doc] \in Nat /\ 0 \in 1 - Room .. Room - 1
      BY TreeAssumption, MenuAssumption
      DEF Init, TreeInit, TreeAssumption, MenuAssumption
    <3> QED
      BY <3>1, ButtonFacts DEF Init, MenuTypeOK, Blank, Underway
  <2>2. Places /\ Owing
    BY ButtonFacts DEF Init, Places, Owing, Underway
  <2> QED
    BY <2>1, <2>2, TreeInitInv DEF Init, DeskInv
<1>2. TreeInv /\ DeskInv /\ [Next]_vars => TreeInv' /\ DeskInv'
  <2> SUFFICES ASSUME TreeInv, DeskInv, [Next]_vars PROVE TreeInv' /\ DeskInv'
    OBVIOUS
  <2>1. TreeInv'
    <3>1. read_json \/ UNCHANGED tree
      BY DEF Next, User, Run, BuildMenu, vars
    <3> QED
      BY <3>1, TreeNext
  <2>2. DeskInv'
    <3>1. CASE Next
      BY <3>1, TypeKeeps, PlacesKeep, OwingKeeps DEF DeskInv
    <3>2. CASE UNCHANGED vars
      BY <3>2 DEF DeskInv, MenuTypeOK, Places, Owing, vars, panel, position, tree
    <3> QED
      BY <3>1, <3>2
  <2> QED
    BY <2>1, <2>2
<1> QED
  BY <1>1, <1>2, PTL DEF Spec

\* The loads and stores of any threads may mix: no thread ever holds anything
\* but an item, and currentIndex stays less than Room away from 0.
THEOREM MenuTypeCorrect == Spec => []MenuTypeOK
<1>1. DeskInv => MenuTypeOK
  BY DEF DeskInv
<1> QED
  BY <1>1, DeskAlways, PTL

\* A button that is held, bounces or is pressed again while its thread works:
\* every move that is stored has a press of its own.
THEOREM OneMove == Spec => OneMovePerPress
<1>1. DeskInv => \A b \in Buttons : pc[b] = "store" /\ pc'[b] # "store" => b \in owed
  BY DEF DeskInv, Owing, Underway
<1> QED
  BY <1>1, DeskAlways, PTL DEF OneMovePerPress
-----------------------------------------------------------------------------
\* From here on the user has always waited: hasty is 0.  One button at a time,
\* and none before the menu is shown.
Busy == held \cup owed \cup seen \cup {b \in Buttons : pc[b] # "poll"}

Alone ==
  /\ \A a, b \in Busy : a = b
  /\ pc["main"] # "join" \/ currentNode = NULL => Busy = {}

\* The menu is read before it is used, and the index stays inside the list.
Steady ==
  /\ currentNode # NULL => file = "built" /\ pc["main"] # "read"
  /\ currentIndex \in Nat /\ (currentNode = NULL => currentIndex = 0)
  /\ (\A t \in Threads : pc[t] # "first") =>
       currentIndex = 0 \/ currentIndex < Count(currentNode)

\* One step round a list of count items.
Around(b, i, count) == Rem(IF b = "up" THEN i - 1 + count ELSE i + 1, count)

\* What a thread has loaded is still so, for nobody else works.
LoadedAt(t) ==
  /\ pc[t] = "count" => t = "up" /\ index[t] = currentIndex
  /\ pc[t] = "load" /\ t = "down" => index[t] = currentIndex
  /\ pc[t] = "load" /\ t = "up" => index[t] = currentIndex - 1 + Count(currentNode)
  /\ pc[t] = "load" /\ t \in {"left", "right"} =>
       /\ node[t] = currentNode
       /\ IF t = "left" THEN parent[currentNode] # NULL ELSE Count(currentNode) > 0
  /\ pc[t] = "store" /\ t \in {"up", "down"} =>
       /\ Count(currentNode) > 0
       /\ index[t] = Around(t, currentIndex, Count(currentNode))
  /\ pc[t] = "store" /\ t = "left" => node[t] = parent[currentNode] /\ node[t] # NULL
  /\ pc[t] = "store" /\ t = "right" =>
       currentIndex < Count(currentNode) /\ node[t] = Item(currentNode, currentIndex)
  /\ pc[t] \in {"line1", "line2"} =>
       Count(currentNode) > 0 /\ node[t] = Item(currentNode, 0)

\* The two lines of a menu, and the LCD step by step of display_menu.
Lines(n) == [l \in 1 .. 2 |-> IF l <= Len(Kids(n)) THEN Kids(n)[l] ELSE NULL]
AtRest(t) == pc[t] \in {After(t)} \cup Underway

DrawnAt(t) ==
  /\ pc[t] \in {"clear", "show", "line1", "line2"} => currentIndex = 0
  /\ pc[t] \in {"show", "line1"} => lcd = Blank
  /\ pc[t] = "line2" => lcd = <<node[t], NULL>>
  /\ t = "main" /\ pc[t] \in {"read", "first"} => lcd = Blank
  /\ AtRest(t) /\ currentNode # NULL /\ (\A u \in Threads : AtRest(u)) =>
       lcd = Lines(currentNode)

CalmInv == Alone /\ Steady /\ \A t \in Threads : LoadedAt(t) /\ DrawnAt(t)

\* A thread at work is the only one, and has a menu if it is a button's.
LEMMA OneAtWork ==
  ASSUME TreeInv, DeskInv, CalmInv, NEW t \in Threads, t \in Buttons \/ pc[t] # "join",
         t \in Buttons => t \in Busy
  PROVE  /\ \A u \in Threads : u # t => pc[u] = After(u)
         /\ t \in Buttons => /\ pc["main"] = "join" /\ currentNode \in Items
                             /\ file = "built" /\ Busy = {t}
         /\ t = "main" => Busy = {}
<1> USE ButtonFacts
<1>1. CASE t \in Buttons
  <2>1. Busy = {t} /\ pc["main"] = "join" /\ currentNode # NULL
    BY <1>1 DEF CalmInv, Alone
  <2>2. \A u \in Buttons : u # t => pc[u] = "poll"
    BY <2>1 DEF Busy
  <2> QED
    BY <1>1, <2>1, <2>2 DEF After, CalmInv, Steady, DeskInv, MenuTypeOK
<1>2. CASE t = "main"
  <2>1. Busy = {}
    BY <1>2 DEF CalmInv, Alone
  <2> QED
    BY <1>2, <2>1 DEF After, Busy
<1> QED
  BY <1>1, <1>2

\* Then only what it has loaded and drawn matters after its step.
LEMMA Focus ==
  ASSUME NEW t \in Threads, \A u \in Threads : u # t => pc'[u] = After(u),
         pc'["main"] = "join" \/ t = "main",
         LoadedAt(t)', DrawnAt(t)'
  PROVE  \A u \in Threads : LoadedAt(u)' /\ DrawnAt(u)'
<1> SUFFICES ASSUME NEW u \in Threads, u # t PROVE LoadedAt(u)' /\ DrawnAt(u)'
  OBVIOUS
<1>1. pc'[u] = After(u) /\ pc'[u] \in {"join", "poll"}
  BY DEF After
<1>2. LoadedAt(u)'
  BY <1>1 DEF LoadedAt
<1>3. DrawnAt(u)'
  BY <1>1 DEF DrawnAt, AtRest
<1> QED
  BY <1>2, <1>3

\* A step that leaves program and position alone, as one that ends the model.
LEMMA CrashStays ==
  ASSUME CalmInv, UNCHANGED <<pc, node, index, position, lcd, tree>>,
         Busy' \subseteq Busy
  PROVE  CalmInv'
<1>1. UNCHANGED <<currentNode, currentIndex, doc, parent, sibling, subItems,
                  subItemCount, file>>
  BY DEF position, tree, nodes
<1>2. Alone'
  BY <1>1 DEF CalmInv, Alone
<1>3. Steady'
  BY <1>1 DEF CalmInv, Steady, Count
<1>4. \A t \in Threads : LoadedAt(t)'
  BY <1>1 DEF CalmInv, LoadedAt, Count, Item
<1>5. \A t \in Threads : DrawnAt(t)'
  BY <1>1 DEF CalmInv, DrawnAt, AtRest, Lines, Kids
<1> QED
  BY <1>2, <1>3, <1>4, <1>5 DEF CalmInv
\* Then a second thread never leaves its poll.
LEMMA AloneStays ==
  ASSUME Alone, Busy' \subseteq Busy, currentNode' = NULL => currentNode = NULL,
         pc'["main"] # "join" => pc["main"] # "join"
  PROVE  Alone'
  BY DEF Alone

\* A button's thread from the press to the stored move.
LEMMA ButtonCalm ==
  ASSUME TreeInv, DeskInv, CalmInv, UNCHANGED tree, NEW b \in Buttons,
         \/ LoadNode(b) \/ LoadTarget(b) \/ LoadIndex(b) \/ LoadCount(b)
         \/ LoadModulus(b) \/ StoreIndex(b) \/ StoreNode(b)
  PROVE  CalmInv'
<1> USE ButtonFacts
<1>0. UNCHANGED <<doc, parent, sibling, subItems, subItemCount, file>>
  BY DEF tree, nodes
<1>1. b \in Threads /\ pc[b] \in Underway /\ pc[b] # "poll" /\ b \in Busy
  BY DEF LoadNode, LoadTarget, LoadIndex, LoadCount, LoadModulus, StoreIndex, StoreNode,
         Crash, Goto, Busy, Underway
<1>2. /\ \A u \in Threads : u # b => pc[u] = After(u)
      /\ pc["main"] = "join" /\ currentNode \in Items /\ file = "built" /\ Busy = {b}
  BY <1>1, OneAtWork
<1>3. /\ MenuTypeOK /\ currentNode # NULL /\ currentIndex \in Nat
      /\ Count(currentNode) \in Nat
  BY <1>2, NullAssumption, NodeFacts DEF DeskInv, MenuTypeOK, CalmInv, Steady
<1>4. LoadedAt(b) /\ DrawnAt(b) /\ Steady /\ Alone /\ AtRest(b)
  BY <1>1 DEF CalmInv, AtRest
<1>5. /\ \A u \in Threads : AtRest(u)
      /\ lcd = Lines(currentNode)
      /\ currentIndex = 0 \/ currentIndex < Count(currentNode)
  <2>1. \A u \in Threads : AtRest(u) /\ pc[u] # "first"
    BY <1>1, <1>2 DEF AtRest, After, Underway
  <2> QED
    BY <1>3, <1>4, <2>1 DEF DrawnAt, Steady
\* The steps that move neither the position nor the LCD.
<1>6. ASSUME NEW to \in {"poll", "count", "load", "store"}, Goto(b, pc[b], to),
             UNCHANGED <<held, seen, position, lcd>>, owed' \subseteq owed,
             LoadedAt(b)'
      PROVE  CalmInv'
  <2>1. pc'[b] = to /\ \A u \in Threads : u # b => pc'[u] = After(u)
    BY <1>2, <1>3, <1>6, GotoFacts DEF Pcs
  <2>2. UNCHANGED <<currentNode, currentIndex>>
    BY <1>6 DEF position
  <2>3. Busy' \subseteq Busy
    BY <1>2, <1>6, <2>1 DEF Busy, After
  <2>4. Alone'
    BY <1>2, <1>4, <2>1, <2>2, <2>3, AloneStays DEF After
  <2>5. Steady'
    BY <1>0, <1>2, <1>3, <1>5, <2>1, <2>2 DEF Steady, Count, After
  <2>6. DrawnAt(b)'
    BY <1>0, <1>5, <1>6, <2>1, <2>2 DEF DrawnAt, Lines, Kids
  <2>7. \A u \in Threads : LoadedAt(u)' /\ DrawnAt(u)'
    BY <1>2, <1>6, <2>1, <2>6, Focus DEF After
  <2> QED
    BY <2>4, <2>5, <2>7 DEF CalmInv
<1>7. ASSUME NEW from, NEW how, Crash(b, from, how) PROVE CalmInv'
  BY <1>7, CrashStays DEF Crash, panel, Busy
<1>8. CASE LoadNode(b)
  <2> DEFINE idle == IF b = "left" THEN parent[currentNode] = NULL
                     ELSE Count(currentNode) = 0
  <2>1. \/ Crash(b, "enter", "no_menu")
        \/ /\ Goto(b, "enter", "poll") /\ owed' = owed \ {b}
           /\ UNCHANGED <<held, hasty, seen, node, index, position, lcd, status>>
        \/ /\ ~idle /\ Goto(b, "enter", "load") /\ node' = [node EXCEPT ![b] = currentNode]
           /\ UNCHANGED <<panel, index, position, lcd, status>>
    BY <1>8 DEF LoadNode
  <2>2. CASE /\ Goto(b, "enter", "poll") /\ owed' = owed \ {b}
             /\ UNCHANGED <<held, hasty, seen, node, index, position, lcd, status>>
    <3>1. pc'[b] = "poll"
      BY <1>1, <1>3, <2>2, GotoFacts DEF Pcs
    <3>2. LoadedAt(b)'
      BY <3>1 DEF LoadedAt
    <3> QED
      BY <1>6, <2>2, <3>2 DEF Goto
  <2>3. CASE /\ ~idle /\ Goto(b, "enter", "load")
             /\ node' = [node EXCEPT ![b] = currentNode]
             /\ UNCHANGED <<panel, index, position, lcd, status>>
    <3>1. pc'[b] = "load" /\ node'[b] = currentNode /\ b \in {"left", "right"}
      BY <1>1, <1>3, <1>8, <2>3, GotoFacts DEF Pcs, MenuTypeOK, LoadNode
    <3>2. LoadedAt(b)'
      BY <1>0, <1>3, <2>3, <3>1 DEF LoadedAt, Count, position
    <3> QED
      BY <1>6, <2>3, <3>2 DEF Goto, panel
  <2> QED
    BY <1>7, <2>1, <2>2, <2>3
<1>9. CASE LoadIndex(b)
  <2>1. /\ \E to \in {"count", "load"} : Goto(b, pc[b], to)
        /\ UNCHANGED <<held, owed, seen, position, lcd>>
    BY <1>9 DEF LoadIndex, Goto, panel
  <2>2. /\ b \in {"up", "down"} /\ pc'[b] = IF b = "up" THEN "count" ELSE "load"
        /\ index'[b] = currentIndex
    BY <1>3, <1>9, GotoFacts DEF LoadIndex, Pcs, MenuTypeOK
  <2>3. LoadedAt(b)'
    BY <2>1, <2>2 DEF LoadedAt, position
  <2> QED
    BY <1>6, <2>1, <2>3
<1>13. CASE LoadCount(b)
  <2>1. CASE Crash(b, "count", "no_menu")
    BY <1>7, <2>1
  <2>2. CASE ~Crash(b, "count", "no_menu")
    <3>1. /\ Goto(b, "count", "load") /\ b = "up"
          /\ index' = [index EXCEPT ![b] = @ - 1 + Count(currentNode)]
          /\ UNCHANGED <<held, owed, seen, position, lcd>>
      BY <1>13, <2>2 DEF LoadCount, panel
    <3>2. pc[b] = "count" /\ pc'[b] = "load"
      BY <1>3, <3>1, GotoFacts DEF Pcs
    <3>3. index'[b] = currentIndex - 1 + Count(currentNode)
      BY <1>3, <1>4, <3>1, <3>2 DEF LoadedAt, MenuTypeOK
    <3>4. Count(currentNode)' = Count(currentNode) /\ currentIndex' = currentIndex
      BY <1>0, <3>1 DEF Count, position
    <3>5. LoadedAt(b)'
      BY <3>1, <3>2, <3>3, <3>4 DEF LoadedAt
    <3> QED
      BY <1>6, <3>1, <3>5 DEF Goto
  <2> QED
    BY <2>1, <2>2
<1>14. CASE LoadModulus(b)
  <2> DEFINE sum == IF b = "down" THEN index[b] + 1 ELSE index[b]
  <2>1. \/ \E how \in {"no_menu", "no_items"} : Crash(b, "load", how)
        \/ /\ Count(currentNode) > 0 /\ Goto(b, "load", "store")
           /\ index' = [index EXCEPT ![b] = Rem(sum, Count(currentNode))]
           /\ UNCHANGED <<held, owed, seen, node, position, lcd>>
    BY <1>14 DEF LoadModulus, panel
  <2>2. CASE /\ Count(currentNode) > 0 /\ Goto(b, "load", "store")
             /\ index' = [index EXCEPT ![b] = Rem(sum, Count(currentNode))]
             /\ UNCHANGED <<held, owed, seen, node, position, lcd>>
    <3>1. pc[b] = "load" /\ pc'[b] = "store" /\ b \in {"up", "down"}
      BY <1>3, <1>14, <2>2, GotoFacts DEF Pcs, LoadModulus
    <3>2. sum = IF b = "up" THEN currentIndex - 1 + Count(currentNode) ELSE currentIndex + 1
      BY <1>4, <3>1 DEF LoadedAt
    <3>3. index'[b] = Around(b, currentIndex, Count(currentNode))
      BY <1>3, <2>2, <3>2 DEF Around, MenuTypeOK
    <3>4. Count(currentNode)' = Count(currentNode) /\ currentIndex' = currentIndex
      BY <1>0, <2>2 DEF Count, position
    <3>5. LoadedAt(b)'
      BY <2>2, <3>1, <3>3, <3>4 DEF LoadedAt, Around
    <3> QED
      BY <1>6, <2>2, <3>5 DEF Goto
  <2> QED
    BY <1>7, <2>1, <2>2
<1>10. CASE LoadTarget(b)
  <2>1. /\ b \in {"left", "right"} /\ pc[b] = "load" /\ node[b] = currentNode
    BY <1>4, <1>10 DEF LoadTarget, LoadedAt, Goto, Crash
  <2>2. \/ \E how \in {"no_menu", "stray"} : Crash(b, "load", how)
        \/ /\ (b = "right" => ~Outside(currentIndex, currentNode))
           /\ Goto(b, "load", "store")
           /\ node' = [node EXCEPT ![b] = IF b = "left" THEN parent[currentNode]
                                          ELSE Item(currentNode, currentIndex)]
           /\ UNCHANGED <<panel, index, position, lcd, status>>
    BY <1>10, <2>1 DEF LoadTarget
  <2>3. CASE /\ (b = "right" => ~Outside(currentIndex, currentNode))
             /\ Goto(b, "load", "store")
             /\ node' = [node EXCEPT ![b] = IF b = "left" THEN parent[currentNode]
                                            ELSE Item(currentNode, currentIndex)]
             /\ UNCHANGED <<panel, index, position, lcd, status>>
    <3>1. /\ pc'[b] = "store"
          /\ node'[b] = IF b = "left" THEN parent[currentNode]
                        ELSE Item(currentNode, currentIndex)
      BY <1>1, <1>3, <2>3, GotoFacts DEF Pcs, MenuTypeOK
    <3>2. currentNode' = currentNode /\ currentIndex' = currentIndex
      BY <2>3 DEF position
    <3>3. /\ Count(currentNode)' = Count(currentNode)
          /\ Item(currentNode, currentIndex)' = Item(currentNode, currentIndex)
      BY <1>0, <3>2 DEF Count, Item
    <3>4. b = "left" => parent[currentNode] # NULL
      BY <1>4, <2>1 DEF LoadedAt
    <3>5. b = "right" => currentIndex < Count(currentNode)
      BY <1>3, <2>3 DEF Outside
    <3>6. LoadedAt(b)'
      BY <1>0, <2>1, <3>1, <3>2, <3>3, <3>4, <3>5 DEF LoadedAt
    <3> QED
      BY <1>6, <2>3, <3>6 DEF Goto, panel
  <2> QED
    BY <1>7, <2>2, <2>3
<1>11. CASE StoreIndex(b)
  <2>1. /\ pc[b] = "store" /\ pc'[b] = "poll" /\ b \in {"up", "down"}
        /\ \A u \in Threads : u # b => pc'[u] = After(u)
        /\ currentIndex' = index[b] /\ owed' = owed \ {b}
        /\ UNCHANGED <<held, seen, currentNode, lcd>>
    BY <1>2, <1>3, <1>11, GotoFacts DEF StoreIndex, Pcs
  <2>2. index[b] \in 0 .. Count(currentNode) - 1
    <3>1. /\ Count(currentNode) \in Nat \ {0}
          /\ index[b] = Around(b, currentIndex, Count(currentNode))
      BY <1>3, <1>4, <2>1 DEF LoadedAt
    <3> QED
      BY <1>3, <3>1, RemInside DEF Around
  <2>3. Busy' \subseteq Busy
    BY <1>2, <2>1 DEF Busy, After
  <2>4. Alone'
    BY <1>2, <1>4, <2>1, <2>3, AloneStays DEF After
  <2>5. Steady'
    BY <1>0, <1>2, <1>3, <2>1, <2>2 DEF Steady, Count, After
  <2>6. LoadedAt(b)' /\ DrawnAt(b)'
    BY <1>0, <1>5, <2>1 DEF LoadedAt, DrawnAt, Lines, Kids
  <2>7. \A u \in Threads : LoadedAt(u)' /\ DrawnAt(u)'
    BY <1>2, <2>1, <2>6, Focus DEF After
  <2> QED
    BY <2>4, <2>5, <2>7 DEF CalmInv
<1>12. CASE StoreNode(b)
  <2>1. /\ pc[b] = "store" /\ pc'[b] = "first" /\ b \in {"left", "right"}
        /\ \A u \in Threads : u # b => pc'[u] = After(u)
        /\ currentNode' = node[b] /\ owed' = owed \ {b}
        /\ UNCHANGED <<held, seen, currentIndex, lcd>>
    BY <1>2, <1>3, <1>12, GotoFacts DEF StoreNode, Pcs
  <2>2. node[b] \in Items
    <3>1. b = "left" => node[b] = parent[currentNode] /\ node[b] # NULL
      BY <1>4, <2>1 DEF LoadedAt
    <3>2. b = "right" => /\ currentIndex < Count(currentNode)
                         /\ node[b] = Item(currentNode, currentIndex)
      BY <1>4, <2>1 DEF LoadedAt
    <3>3. b = "right" => ~Outside(currentIndex, currentNode)
      BY <1>3, <3>2 DEF Outside
    <3> QED
      BY <1>2, <1>3, <2>1, <3>1, <3>2, <3>3, NodeFacts
  <2>3. Busy' \subseteq Busy /\ currentNode' # NULL
    BY <1>2, <2>1, <2>2, NullAssumption DEF Busy, After
  <2>4. Alone'
    BY <1>2, <1>4, <2>1, <2>3, AloneStays DEF After
  <2>5. Steady'
    BY <1>0, <1>1, <1>2, <1>3, <2>1, <2>3 DEF Steady, After
  <2>6. LoadedAt(b)' /\ DrawnAt(b)'
    BY <2>1 DEF LoadedAt, DrawnAt, AtRest, After, Underway
  <2>7. \A u \in Threads : LoadedAt(u)' /\ DrawnAt(u)'
    BY <1>2, <2>1, <2>6, Focus DEF After
  <2> QED
    BY <2>4, <2>5, <2>7 DEF CalmInv
<1> QED
  BY <1>8, <1>9, <1>10, <1>11, <1>12, <1>13, <1>14
\* What display_menu shows of a menu: nothing, or its first two items.
LEMMA LinesShown ==
  ASSUME TreeInv, file = "built", NEW n \in Items
  PROVE  /\ Count(n) = 0 => Lines(n) = Blank
         /\ Count(n) > 0 => Lines(n) = <<Item(n, 0), sibling[Item(n, 0)]>>
<1>1. Count(n) = Len(Kids(n)) /\ Len(Kids(n)) \in Nat /\ subItemCount[n] = Len(Kids(n))
  BY AllAdded, DocFacts, NullAssumption DEF Count, TreeInv
<1>2. ASSUME Count(n) = 0 PROVE Lines(n) = Blank
  BY <1>1, <1>2 DEF Lines, Blank
<1>3. ASSUME Count(n) > 0 PROVE Lines(n) = <<Item(n, 0), sibling[Item(n, 0)]>>
  <2>1. /\ Item(n, 0) = Kids(n)[1]
        /\ sibling[Item(n, 0)] = IF 1 < Len(Kids(n)) THEN subItems[n][1] ELSE NULL
    <3>1. 0 \in 0 .. subItemCount[n] - 1 /\ 0 + 1 = 1
      BY <1>1, <1>3
    <3> QED
      BY <1>1, <3>1 DEF TreeInv, LinksAgree, Kids, Item
  <2>2. 1 < Len(Kids(n)) => subItems[n][1] = Kids(n)[2]
    <3>1. 1 < Len(Kids(n)) => 1 \in 0 .. subItemCount[n] - 1 /\ 1 + 1 = 2
      BY <1>1
    <3> QED
      BY <3>1 DEF TreeInv, LinksAgree, Kids
  <2> QED
    BY <1>1, <1>3, <2>1, <2>2 DEF Lines
<1> QED
  BY <1>2, <1>3

\* A thread in display_menu or on its way there, a button's or main.
LEMMA DisplayCalm ==
  ASSUME TreeInv, DeskInv, CalmInv, UNCHANGED tree, NEW t \in Threads,
         \/ t \in Buttons /\ Clear(t)
         \/ First(t) \/ Show(t) \/ Line1(t) \/ Line2(t)
  PROVE  CalmInv'
<1> USE ButtonFacts
<1>0. UNCHANGED <<doc, parent, sibling, subItems, subItemCount, file>>
  BY DEF tree, nodes
<1>1. /\ pc[t] \in {"first", "clear", "show", "line1", "line2"}
      /\ t \in Buttons => t \in Busy
  BY DEF Clear, First, Show, Line1, Line2, Crash, Goto, Busy
<1>2. /\ \A u \in Threads : u # t => pc[u] = After(u)
      /\ t \in Buttons => /\ pc["main"] = "join" /\ currentNode \in Items
                          /\ file = "built" /\ Busy = {t}
      /\ t = "main" => Busy = {}
  BY <1>1, OneAtWork
<1>3. /\ MenuTypeOK /\ Steady /\ Alone /\ LoadedAt(t) /\ DrawnAt(t)
      /\ currentIndex \in Nat /\ Count(currentNode) \in Nat
  BY NodeFacts DEF DeskInv, CalmInv, MenuTypeOK, Steady
\* After its step the thread is on, the position stands and the index is 0.
<1>4. ASSUME NEW to \in {"clear", "show", "line1", "line2", After(t)},
             Goto(t, pc[t], to), UNCHANGED <<panel, currentNode>>, currentIndex' = 0,
             LoadedAt(t)', DrawnAt(t)'
      PROVE  CalmInv'
  <2>1. pc'[t] = to /\ \A u \in Threads : u # t => pc'[u] = After(u)
    BY <1>2, <1>3, <1>4, GotoFacts DEF Pcs, After
  <2>2. Busy' \subseteq Busy
    BY <1>1, <1>2, <1>4, <2>1 DEF Busy, After, panel
  <2>3. pc'["main"] # "join" => pc["main"] # "join"
    BY <1>1, <1>2, <2>1 DEF After
  <2>4. Alone'
    BY <1>3, <1>4, <2>2, <2>3, AloneStays
  <2>5. Steady'
    <3>1. pc'["main"] # "read"
      BY <1>2, <1>4, <2>1 DEF After
    <3>2. currentNode # NULL => file = "built"
      BY <1>3 DEF Steady
    <3> QED
      BY <1>0, <1>4, <3>1, <3>2 DEF Steady
  <2>6. \A u \in Threads : LoadedAt(u)' /\ DrawnAt(u)'
    BY <1>2, <1>4, <2>1, Focus DEF After
  <2> QED
    BY <2>4, <2>5, <2>6 DEF CalmInv
<1>5. CASE First(t)
  <2> DEFINE to == IF t = "main" THEN "show" ELSE "clear"
  <2>1. /\ Goto(t, pc[t], to) /\ currentIndex' = 0
        /\ UNCHANGED <<panel, node, index, currentNode, lcd>> /\ pc[t] = "first"
    BY <1>5 DEF First, Goto
  <2>2. pc'[t] = to
    BY <1>3, <2>1, GotoFacts DEF Pcs
  <2>3. t = "main" => lcd = Blank
    BY <1>3, <2>1 DEF DrawnAt
  <2>4. LoadedAt(t)' /\ DrawnAt(t)'
    BY <2>1, <2>2, <2>3 DEF LoadedAt, DrawnAt, AtRest, After, Underway
  <2> QED
    BY <1>4, <2>1, <2>4
<1>6. CASE t \in Buttons /\ Clear(t)
  <2>1. /\ Goto(t, pc[t], "show") /\ lcd' = Blank /\ pc[t] = "clear" /\ currentIndex = 0
        /\ UNCHANGED <<panel, node, index, currentNode, currentIndex>>
    BY <1>3, <1>6 DEF Clear, Goto, DrawnAt, position
  <2>2. pc'[t] = "show"
    BY <1>3, <2>1, GotoFacts DEF Pcs
  <2>3. LoadedAt(t)' /\ DrawnAt(t)'
    BY <2>1, <2>2 DEF LoadedAt, DrawnAt, AtRest, After, Underway
  <2> QED
    BY <1>4, <2>1, <2>3
<1>7. CASE Show(t)
  <2>1. pc[t] = "show" /\ currentIndex = 0 /\ lcd = Blank
    BY <1>3, <1>7 DEF Show, Goto, Crash, DrawnAt
  <2>2. CASE Crash(t, "show", "stray")
    BY <2>2, CrashStays DEF Crash, panel, Busy
  <2>3. CASE /\ Count(currentNode) = 0 /\ Goto(t, "show", After(t))
             /\ UNCHANGED <<panel, node, index, position, lcd, status>>
    <3>1. pc'[t] = After(t)
      BY <1>3, <2>3, GotoFacts DEF Pcs, After
    <3>2. currentNode # NULL => lcd = Lines(currentNode)
      BY <1>3, <2>1, <2>3, LinesShown DEF Steady, MenuTypeOK
    <3>3. UNCHANGED <<currentNode, currentIndex>>
      BY <2>3 DEF position
    <3>4. LoadedAt(t)' /\ DrawnAt(t)'
      BY <1>0, <2>1, <2>3, <3>1, <3>2, <3>3 DEF LoadedAt, DrawnAt, After, Lines, Kids
    <3> QED
      BY <1>4, <2>1, <2>3, <3>3, <3>4
  <2>4. CASE /\ ~Outside(currentIndex, currentNode) /\ Goto(t, "show", "line1")
             /\ node' = [node EXCEPT ![t] = Item(currentNode, currentIndex)]
             /\ UNCHANGED <<panel, index, position, lcd, status>>
    <3>1. pc'[t] = "line1" /\ node'[t] = Item(currentNode, 0)
      BY <1>3, <2>1, <2>4, GotoFacts DEF Pcs, MenuTypeOK
    <3>2. UNCHANGED <<currentNode, currentIndex>>
      BY <2>4 DEF position
    <3>0. Count(currentNode) > 0
      BY <1>3, <2>1, <2>4 DEF Outside
    <3>3. LoadedAt(t)' /\ DrawnAt(t)'
      BY <1>0, <2>1, <2>4, <3>0, <3>1, <3>2
      DEF LoadedAt, DrawnAt, AtRest, After, Underway, Count, Item
    <3> QED
      BY <1>4, <2>1, <2>4, <3>2, <3>3
  <2> QED
    BY <1>7, <2>2, <2>3, <2>4 DEF Show
<1>8. CASE Line1(t)
  <2>1. /\ Goto(t, pc[t], "line2") /\ lcd' = [lcd EXCEPT ![1] = node[t]]
        /\ pc[t] = "line1" /\ currentIndex = 0 /\ lcd = Blank
        /\ UNCHANGED <<panel, node, index, currentNode, currentIndex>>
    BY <1>3, <1>8 DEF Line1, Goto, DrawnAt, position
  <2>2. lcd' = <<node[t], NULL>> /\ pc'[t] = "line2"
    BY <1>3, <2>1, GotoFacts DEF Blank, Pcs
  <2>3. LoadedAt(t)' /\ DrawnAt(t)'
    BY <1>0, <1>3, <2>1, <2>2 DEF LoadedAt, DrawnAt, AtRest, After, Underway, Count, Item
  <2> QED
    BY <1>4, <2>1, <2>3
<1>9. CASE Line2(t)
  <2>1. /\ Goto(t, pc[t], After(t)) /\ lcd' = [lcd EXCEPT ![2] = sibling[node[t]]]
        /\ pc[t] = "line2" /\ currentIndex = 0 /\ lcd = <<node[t], NULL>>
        /\ Count(currentNode) > 0 /\ node[t] = Item(currentNode, 0)
        /\ UNCHANGED <<panel, currentNode, currentIndex>>
    BY <1>3, <1>9 DEF Line2, Goto, DrawnAt, LoadedAt, position
  <2>2. pc'[t] = After(t) /\ lcd' = <<node[t], sibling[node[t]]>>
    BY <1>3, <2>1, GotoFacts DEF After, Pcs
  <2>3. currentNode # NULL => lcd' = Lines(currentNode)
    BY <1>3, <2>1, <2>2, LinesShown DEF Steady, MenuTypeOK
  <2>4. LoadedAt(t)' /\ DrawnAt(t)'
    BY <1>0, <2>1, <2>2, <2>3 DEF LoadedAt, DrawnAt, After, Lines, Kids
  <2> QED
    BY <1>4, <2>1, <2>4
<1> QED
  BY <1>5, <1>6, <1>7, <1>8, <1>9
\* Every step keeps what a lone thread knows of position and LCD.
LEMMA CalmKeeps ==
  ASSUME TreeInv, DeskInv, CalmInv, Next, hasty' = 0
  PROVE  CalmInv'
<1> USE ButtonFacts
<1>1. ASSUME UNCHANGED tree, NEW b \in Buttons, Press(b) PROVE CalmInv'
  <2>1. /\ Ready /\ held' = held \cup {b} /\ owed' = owed \cup {b}
        /\ UNCHANGED <<seen, pc, node, index, position, lcd>>
    <3>1. hasty + 1 # 0
      BY DEF DeskInv, MenuTypeOK
    <3> QED
      BY <1>1, <3>1 DEF Press
  <2>2. /\ UNCHANGED <<currentNode, currentIndex, doc, parent, sibling, subItems,
                       subItemCount, file>>
    BY <1>1, <2>1 DEF position, tree, nodes
  <2>3. Alone'
    <3>1. Busy' = {b} /\ pc["main"] = "join" /\ currentNode # NULL
      BY <2>1 DEF Ready, Busy, After
    <3> QED
      BY <2>1, <2>2, <3>1 DEF Alone
  <2>4. Steady'
    BY <2>1, <2>2 DEF CalmInv, Steady, Count
  <2>5. \A t \in Threads : LoadedAt(t)'
    BY <2>1, <2>2 DEF CalmInv, LoadedAt, Count, Item
  <2>6. \A t \in Threads : DrawnAt(t)'
    BY <2>1, <2>2 DEF CalmInv, DrawnAt, AtRest, Lines, Kids
  <2> QED
    BY <2>3, <2>4, <2>5, <2>6 DEF CalmInv
<1>2. ASSUME UNCHANGED tree, NEW b \in Buttons, Release(b) PROVE CalmInv'
  <2>1. /\ UNCHANGED <<seen, pc, node, index, position, lcd>>
        /\ held' \subseteq held /\ owed' \subseteq owed
    BY <1>2 DEF Release
  <2>2. Busy' \subseteq Busy
    BY <2>1 DEF Busy
  <2>3. UNCHANGED <<currentNode, currentIndex, doc, parent, sibling, subItems,
                    subItemCount, file>>
    BY <1>2, <2>1 DEF position, tree, nodes
  <2>4. Alone'
    BY <2>1, <2>2, <2>3, AloneStays DEF CalmInv
  <2>5. Steady'
    BY <2>1, <2>3 DEF CalmInv, Steady, Count
  <2>6. \A t \in Threads : LoadedAt(t)'
    BY <2>1, <2>3 DEF CalmInv, LoadedAt, Count, Item
  <2>7. \A t \in Threads : DrawnAt(t)'
    BY <2>1, <2>3 DEF CalmInv, DrawnAt, AtRest, Lines, Kids
  <2> QED
    BY <2>4, <2>5, <2>6, <2>7 DEF CalmInv
<1>3. ASSUME UNCHANGED tree, NEW b \in Buttons, Poll(b) PROVE CalmInv'
  <2>1. /\ UNCHANGED <<held, owed, node, index, position, lcd>> /\ pc[b] = "poll"
        /\ \A u \in Threads : u # b => pc'[u] = pc[u]
        /\ \/ b \in held \ seen /\ pc'[b] = "enter" /\ seen' = seen \cup {b}
           \/ b \notin held \ seen /\ pc'[b] = "poll" /\ seen' \subseteq seen
        /\ pc' \in [Threads -> Pcs]
    BY <1>3, GotoFacts DEF Poll, Pcs, DeskInv
  <2>2. UNCHANGED <<currentNode, currentIndex, doc, parent, sibling, subItems,
                    subItemCount, file>>
    BY <1>3, <2>1 DEF position, tree, nodes
  <2>3. Busy' \subseteq Busy
    BY <2>1 DEF Busy
  <2>4. \A u \in Threads : \/ pc'[u] = pc[u]
                           \/ u = b /\ pc[u] = "poll" /\ pc'[u] = "enter"
    BY <2>1
  <2>5. \A u \in Threads : (pc'[u] \in {After(u)} \cup Underway)
                             <=> (pc[u] \in {After(u)} \cup Underway)
    BY <2>4 DEF After, Underway
  <2>6. Alone'
    BY <2>1, <2>2, <2>3, AloneStays DEF CalmInv
  <2>7. Steady'
    BY <2>2, <2>4 DEF CalmInv, Steady, Count
  <2>8. \A t \in Threads : LoadedAt(t)'
    BY <2>1, <2>2, <2>4 DEF CalmInv, LoadedAt, Count, Item
  <2>9. \A t \in Threads : DrawnAt(t)'
    BY <2>1, <2>2, <2>4, <2>5 DEF CalmInv, DrawnAt, AtRest, Lines, Kids
  <2> QED
    BY <2>6, <2>7, <2>8, <2>9 DEF CalmInv
\* main is still reading: no button is pressed, and nothing shown.
<1>4. ASSUME pc["main"] = "read"
      PROVE  /\ Busy = {} /\ currentNode = NULL /\ currentIndex = 0 /\ lcd = Blank
             /\ \A u \in Threads : u # "main" => pc[u] = After(u)
  BY <1>4, OneAtWork DEF CalmInv, Alone, Steady, DrawnAt
<1>5. ASSUME UNCHANGED tree, ReadMenu PROVE CalmInv'
  <2>1. /\ pc["main"] = "read" /\ pc'["main"] = "first"
        /\ \A u \in Threads : u # "main" => pc'[u] = pc[u]
        /\ currentNode' # NULL => file = "built"
        /\ UNCHANGED <<panel, currentIndex, lcd, file>>
    <3>1. Goto("main", "read", "first") /\ UNCHANGED <<panel, currentIndex, lcd, file>>
          /\ (currentNode' # NULL => file = "built")
      BY <1>5 DEF ReadMenu, tree
    <3> QED
      BY <3>1, GotoFacts DEF Pcs, DeskInv
  <2>2. Alone'
    BY <1>4, <2>1 DEF Alone, Busy, panel
  <2>3. Steady'
    BY <1>4, <2>1 DEF Steady
  <2>4. LoadedAt("main")' /\ DrawnAt("main")'
    BY <1>4, <2>1 DEF LoadedAt, DrawnAt, AtRest, After, Underway
  <2>5. \A u \in Threads : LoadedAt(u)' /\ DrawnAt(u)'
    BY <1>4, <2>1, <2>4, Focus
  <2> QED
    BY <2>2, <2>3, <2>5 DEF CalmInv
<1>6. ASSUME BuildMenu PROVE CalmInv'
  <2>1. pc["main"] = "read" /\ UNCHANGED <<panel, pc, currentNode, currentIndex, lcd>>
    BY <1>6 DEF BuildMenu, position
  <2>2. Alone'
    BY <1>4, <2>1 DEF Alone, Busy, panel
  <2>3. Steady'
    BY <1>4, <2>1 DEF Steady
  <2>4. LoadedAt("main")' /\ DrawnAt("main")'
    BY <1>4, <2>1 DEF LoadedAt, DrawnAt, AtRest, After, Underway
  <2>5. \A u \in Threads : LoadedAt(u)' /\ DrawnAt(u)'
    BY <1>4, <2>1, <2>4, Focus
  <2> QED
    BY <2>2, <2>3, <2>5 DEF CalmInv
<1> QED
  BY <1>1, <1>2, <1>3, <1>5, <1>6, ButtonCalm, DisplayCalm, Steps

\* At the start main alone is at work and nothing is drawn.
LEMMA CalmInit == Init => CalmInv
<1> SUFFICES ASSUME Init PROVE CalmInv
  OBVIOUS
<1>1. Alone /\ Steady
  BY ButtonFacts DEF Init, Alone, Steady, Busy
<1>2. \A t \in Threads : LoadedAt(t) /\ DrawnAt(t)
  BY ButtonFacts DEF Init, LoadedAt, DrawnAt, AtRest, Underway, After
<1> QED
  BY <1>1, <1>2 DEF CalmInv

\* The user who has waited has waited before, too.
LEMMA HastyStays ==
  ASSUME DeskInv, [Next]_vars, hasty' = 0
  PROVE  hasty = 0
<1>1. hasty \in Nat
  BY DEF DeskInv, MenuTypeOK
<1>2. hasty' = hasty \/ hasty' = hasty + 1
  BY DEF Next, User, Run, Work, BuildMenu, ReadMenu, First, Show, Line1, Line2, Poll,
         LoadNode, LoadTarget, LoadIndex, LoadCount, LoadModulus, StoreIndex, StoreNode,
         Clear, Crash, Press, Release, panel, vars
<1> QED
  BY <1>1, <1>2

\* As long as the user waits, the terminal keeps its state consistent.
LEMMA CalmAlways == Spec => [](TreeInv /\ DeskInv /\ (hasty = 0 => CalmInv))
<1> DEFINE Calm == hasty = 0 => CalmInv
<1>1. Calm /\ TreeInv /\ DeskInv /\ [Next]_vars => Calm'
  <2> SUFFICES ASSUME Calm, TreeInv, DeskInv, [Next]_vars, hasty' = 0 PROVE CalmInv'
    OBVIOUS
  <2>1. CalmInv
    BY HastyStays
  <2>2. CASE Next
    BY <2>1, <2>2, CalmKeeps
  <2>3. CASE UNCHANGED vars
    <3>1. UNCHANGED <<pc, held, owed, node, index, position, lcd, tree, seen>>
      BY <2>3 DEF vars, panel
    <3> QED
      BY <2>1, <3>1, CrashStays DEF Busy
  <2> QED
    BY <2>2, <2>3
<1>2. Init => Calm
  BY CalmInit
<1> HIDE DEF Calm
<1>3. Spec => [](TreeInv /\ DeskInv /\ Calm)
  BY <1>1, <1>2, DeskAlways, PTL DEF Spec
<1> QED
  BY <1>3 DEF Calm

\* Whatever menu was read and wherever the buttons have led in it: at rest the
\* LCD shows the first two items of the current menu.
THEOREM LcdShowsMenu == Spec => []ShowsMenuTop
<1>1. DeskInv /\ (hasty = 0 => CalmInv) => ShowsMenuTop
  <2> SUFFICES ASSUME DeskInv, CalmInv, currentNode # NULL,
                      pc = [t \in Threads |-> After(t)]
               PROVE  lcd = LinesFrom(doc.children[currentNode], 0)
    BY DEF ShowsMenuTop
  <2>1. \A t \in Threads : AtRest(t)
    BY DEF AtRest
  <2>2. lcd = Lines(currentNode)
    BY <2>1, ButtonFacts DEF CalmInv, DrawnAt
  <2>3. \A l \in 1 .. 2 : 0 + l = l
    OBVIOUS
  <2> QED
    BY <2>2, <2>3 DEF Lines, LinesFrom, Kids
<1> QED
  BY <1>1, CalmAlways, PTL
-----------------------------------------------------------------------------
\* Round the list: from the first item up to the last, from the last down to
\* the first, else one further.
LEMMA AroundOnce ==
  ASSUME NEW i \in Nat, NEW count \in Nat \ {0}, i < count
  PROVE  /\ Around("up", i, count) = IF i = 0 THEN count - 1 ELSE i - 1
         /\ Around("down", i, count) = IF i = count - 1 THEN 0 ELSE i + 1
<1>1. \A x \in 0 .. count - 1 : x % count = x
  OBVIOUS
<1>2. \A x \in 0 .. count - 1 : (x + count) % count = x
  OBVIOUS
<1>3. count % count = 0
  BY <1>2
<1>4. /\ Around("up", i, count) = (i - 1 + count) % count
      /\ Around("down", i, count) = (i + 1) % count
  BY DEF Around, Rem
<1>5. (i - 1 + count) % count = IF i = 0 THEN count - 1 ELSE i - 1
  <2>1. CASE i = 0
    <3>1. i - 1 + count = count - 1 /\ count - 1 \in 0 .. count - 1
      BY <2>1
    <3> QED
      BY <1>1, <2>1, <3>1
  <2>2. CASE i # 0
    <3>1. i - 1 \in 0 .. count - 1
      BY <2>2
    <3> QED
      BY <1>2, <2>2, <3>1
  <2> QED
    BY <2>1, <2>2
<1>6. (i + 1) % count = IF i = count - 1 THEN 0 ELSE i + 1
  <2>1. CASE i = count - 1
    <3>1. i + 1 = count
      BY <2>1
    <3> QED
      BY <1>3, <2>1, <3>1
  <2>2. CASE i # count - 1
    <3>1. i + 1 \in 0 .. count - 1
      BY <2>2
    <3> QED
      BY <1>1, <2>2, <3>1
  <2> QED
    BY <2>1, <2>2
<1> QED
  BY <1>4, <1>5, <1>6
\* The index that counts: a move into or out of a list starts at its first item.
Position == IF \E t \in Threads : pc[t] = "first" THEN 0 ELSE currentIndex

\* The menu a button's thread works in, as the file has it.
LEMMA AtButton ==
  ASSUME TreeInv, DeskInv, CalmInv, NEW b \in Buttons,
         pc[b] \in Underway
  PROVE  /\ currentNode \in Items /\ currentNode # NULL /\ b \in owed
         /\ \A t \in Threads : t # b => pc[t] = After(t)
         /\ Position = currentIndex /\ currentIndex \in Nat
         /\ Count(currentNode) = Len(doc.children[currentNode])
         /\ Count(currentNode) \in Nat
         /\ currentIndex = 0 \/ currentIndex < Count(currentNode)
         /\ parent[currentNode] = Cursor!ParentOf(doc.children, currentNode)
         /\ \A i \in Nat : i < Count(currentNode) =>
              Item(currentNode, i) = doc.children[currentNode][i + 1]
<1> USE ButtonFacts
<1>1. b \in Busy
  BY DEF Busy, Underway
<1>2. /\ \A t \in Threads : t # b => pc[t] = After(t)
      /\ currentNode \in Items /\ file = "built"
  BY <1>1, OneAtWork
<1>3. currentNode # NULL /\ b \in owed /\ currentIndex \in Nat
  BY <1>2, NullAssumption DEF DeskInv, Owing, MenuTypeOK, CalmInv, Steady
<1>4. \A t \in Threads : pc[t] # "first"
  BY <1>2 DEF After, Underway
<1>5. Position = currentIndex /\ (currentIndex = 0 \/ currentIndex < Count(currentNode))
  BY <1>4 DEF Position, CalmInv, Steady
<1>6. /\ subItemCount[currentNode] = Len(doc.children[currentNode])
      /\ parent[currentNode] = Cursor!ParentOf(doc.children, currentNode)
  BY <1>2, BuiltMenu DEF TreeIsMenu, ParentOf, Cursor!ParentOf
<1>7. /\ Count(currentNode) = Len(doc.children[currentNode])
      /\ Count(currentNode) = subItemCount[currentNode] /\ Count(currentNode) \in Nat
  BY <1>2, <1>3, <1>6, NodeFacts DEF Count
<1>8. \A i \in Nat : i < Count(currentNode) =>
        Item(currentNode, i) = doc.children[currentNode][i + 1]
  <2>1. \A i \in Nat : i < Count(currentNode) => i \in 0 .. subItemCount[currentNode] - 1
    BY <1>7
  <2> QED
    BY <1>2, <2>1 DEF TreeInv, LinksAgree, Item
<1> QED
  BY <1>2, <1>3, <1>5, <1>6, <1>7, <1>8

\* Steps the cursor does not see, but that the terminal may be ready after.
LEMMA CursorStays ==
  ASSUME UNCHANGED <<doc, held, owed, currentNode, hasty, status>>,
         Position' = Position, Ready => Ready', hasty = 0, status = "up"
  PROVE  [Cursor!Next]_(Cursor!vars)
<1>1. CASE Ready' = Ready
  BY <1>1 DEF Cursor!vars, Position
<1>2. CASE Ready' # Ready
  <2>1. ~Ready /\ Ready'
    BY <1>2 DEF Ready
  <2>2. held = {} /\ owed = {} /\ currentNode # NULL
    BY <2>1 DEF Ready
  <2>3. Cursor!Settle
    BY <2>1, <2>2 DEF Cursor!Settle, Cursor!Idle, Position
  <2> QED
    BY <2>3 DEF Cursor!Next
<1> QED
  BY <1>1, <1>2

\* A press that finds something to do is one move of the cursor, a press that
\* cannot move it is answered, and only what nothing is promised about breaks.
LEMMA ButtonMoves ==
  ASSUME TreeInv, DeskInv, CalmInv, status = "up", hasty = 0, UNCHANGED tree,
         NEW b \in Buttons,
         \/ LoadNode(b) \/ LoadTarget(b) \/ LoadIndex(b) \/ LoadCount(b)
         \/ LoadModulus(b) \/ StoreIndex(b) \/ StoreNode(b)
  PROVE  [Cursor!Next]_(Cursor!vars)
<1> USE ButtonFacts
<1>1. /\ b \in Threads /\ pc[b] \in Underway /\ pc[b] # "poll"
      /\ UNCHANGED <<hasty, seen>>
  BY DEF LoadNode, LoadTarget, LoadIndex, LoadCount, LoadModulus, StoreIndex, StoreNode,
         Crash, Goto, Underway, panel
<1>2. /\ currentNode \in Items /\ currentNode # NULL /\ b \in owed
      /\ \A t \in Threads : t # b => pc[t] = After(t)
      /\ Position = currentIndex /\ currentIndex \in Nat
      /\ Count(currentNode) = Len(doc.children[currentNode])
      /\ Count(currentNode) \in Nat
      /\ currentIndex = 0 \/ currentIndex < Count(currentNode)
      /\ parent[currentNode] = Cursor!ParentOf(doc.children, currentNode)
      /\ \A i \in Nat : i < Count(currentNode) =>
           Item(currentNode, i) = doc.children[currentNode][i + 1]
  BY <1>1, AtButton
<1>3. /\ LoadedAt(b) /\ MenuTypeOK
      /\ \A t \in Threads : t # b => pc[t] # "first"
      /\ UNCHANGED doc
  BY <1>1, <1>2 DEF CalmInv, DeskInv, After, tree
\* The button's previousState is 0 until its thread is back in the poll.
<1>r. Ready = FALSE /\ Ready' = FALSE
  <2>1. b \in seen /\ b \in seen'
    BY <1>1 DEF DeskInv, Owing
  <2> QED
    BY <2>1 DEF Ready
<1>4. ASSUME NEW to \in Pcs, Goto(b, pc[b], to), to # "first",
             UNCHANGED <<held, currentNode, currentIndex>>
      PROVE  Position' = Position
  <2>1. \A t \in Threads : pc'[t] # "first"
    BY <1>1, <1>3, <1>4, GotoFacts
  <2> QED
    BY <1>2, <1>4, <2>1 DEF Position
<1>5. CASE LoadNode(b)
  <2> DEFINE idle == IF b = "left" THEN parent[currentNode] = NULL
                     ELSE Count(currentNode) = 0
  <2>1. \/ /\ idle /\ b \in {"left", "right"}
           /\ Goto(b, "enter", "poll") /\ owed' = owed \ {b}
           /\ UNCHANGED <<held, hasty, seen, node, index, position, lcd, status>>
        \/ /\ Goto(b, "enter", "load")
           /\ UNCHANGED <<panel, index, position, lcd, status>>
    BY <1>2, <1>5 DEF LoadNode
  <2>2. CASE /\ idle /\ b \in {"left", "right"}
             /\ Goto(b, "enter", "poll") /\ owed' = owed \ {b}
             /\ UNCHANGED <<held, hasty, seen, node, index, position, lcd, status>>
    <3>1. UNCHANGED <<held, currentNode, currentIndex>> /\ Position' = Position
      BY <1>4, <2>2 DEF position, Pcs, Goto
    <3>2. CASE b = "left"
      <4>1. Cursor!ParentOf(doc.children, currentNode) = NULL
        BY <1>2, <2>2, <3>2
      <4>2. Cursor!Left
        BY <1>2, <1>3, <1>r, <2>2, <3>1, <3>2, <4>1
        DEF Cursor!Left, Cursor!Answer, Position
      <4> QED
        BY <4>2 DEF Cursor!Next, Cursor!Move
    <3>3. CASE b = "right"
      <4>1. Cursor!Right
        BY <1>2, <1>3, <1>r, <2>2, <3>1, <3>3
        DEF Cursor!Right, Cursor!Answer, Cursor!Count, Position
      <4> QED
        BY <4>1 DEF Cursor!Next, Cursor!Move
    <3> QED
      BY <2>2, <3>2, <3>3
  <2>3. CASE /\ Goto(b, "enter", "load")
             /\ UNCHANGED <<panel, index, position, lcd, status>>
    <3>1. UNCHANGED <<held, owed, currentNode, currentIndex>> /\ Position' = Position
      BY <1>4, <2>3 DEF panel, position, Pcs, Goto
    <3> QED
      BY <1>1, <1>3, <1>r, <2>3, <3>1, CursorStays
  <2> QED
    BY <2>1, <2>2, <2>3
\* The loads in between; up and down in a menu without items end the model.
<1>6. CASE LoadIndex(b) \/ LoadCount(b) \/ LoadModulus(b) \/ LoadTarget(b)
  <2>1. b \in {"left", "right"} /\ pc[b] = "load" =>
          /\ node[b] = currentNode
          /\ b = "right" => ~Outside(currentIndex, currentNode)
    BY <1>2, <1>3 DEF LoadedAt, Outside
  <2>2. \/ /\ \E to \in {"count", "load", "store"} : Goto(b, pc[b], to)
           /\ UNCHANGED <<panel, position, status>>
        \/ /\ b \in {"up", "down"} /\ Count(currentNode) = 0
           /\ Crash(b, "load", "no_items")
    BY <1>2, <1>6, <2>1
    DEF LoadIndex, LoadCount, LoadModulus, LoadTarget, Goto, Crash
  <2>3. CASE /\ \E to \in {"count", "load", "store"} : Goto(b, pc[b], to)
             /\ UNCHANGED <<panel, position, status>>
    <3>1. UNCHANGED <<held, owed, currentNode, currentIndex>> /\ Position' = Position
      BY <1>4, <2>3 DEF panel, position, Pcs
    <3> QED
      BY <1>1, <1>3, <1>r, <2>3, <3>1, CursorStays
  <2>4. CASE /\ b \in {"up", "down"} /\ Count(currentNode) = 0
             /\ Crash(b, "load", "no_items")
    <3>1. /\ Count(currentNode) = 0 /\ status' # "up"
          /\ UNCHANGED <<pc, held, owed, currentNode, currentIndex>>
      BY <2>4 DEF Crash, panel, position
    <3>2. owed \cap {"up", "down"} # {} /\ Position' = Position
      BY <1>2, <2>4, <3>1 DEF Position
    <3>3. Cursor!Break
      BY <1>2, <1>3, <1>r, <3>1, <3>2 DEF Cursor!Break, Cursor!Count, Position
    <3> QED
      BY <3>3 DEF Cursor!Next, Cursor!Move
  <2> QED
    BY <2>2, <2>3, <2>4
<1>7. CASE StoreIndex(b)
  <2>1. /\ pc[b] = "store" /\ pc'[b] = "poll" /\ b \in {"up", "down"}
        /\ \A t \in Threads : t # b => pc'[t] = pc[t]
        /\ currentIndex' = index[b] /\ owed' = owed \ {b}
        /\ UNCHANGED <<held, hasty, currentNode, status>>
    BY <1>1, <1>3, <1>7, GotoFacts DEF StoreIndex, Pcs
  <2>2. Position' = index[b]
    BY <1>3, <2>1 DEF Position
  <2>3. /\ Count(currentNode) \in Nat \ {0} /\ currentIndex < Count(currentNode)
        /\ index[b] = Around(b, currentIndex, Count(currentNode))
    BY <1>2, <1>3, <2>1 DEF LoadedAt
  <2>4. CASE b = "up"
    <3>1. index[b] = IF currentIndex = 0 THEN Count(currentNode) - 1 ELSE currentIndex - 1
      BY <1>2, <2>3, <2>4, AroundOnce
    <3>2. Cursor!Answer("up")
      BY <1>2, <1>3, <1>r, <2>1, <2>4 DEF Cursor!Answer
    <3>3. Cursor!Up
      BY <1>2, <2>1, <2>2, <2>3, <3>1, <3>2 DEF Cursor!Up, Cursor!Count, Position
    <3> QED
      BY <3>3 DEF Cursor!Next, Cursor!Move
  <2>5. CASE b = "down"
    <3>1. index[b] = IF currentIndex = Count(currentNode) - 1 THEN 0 ELSE currentIndex + 1
      BY <1>2, <2>3, <2>5, AroundOnce
    <3>2. Cursor!Answer("down")
      BY <1>2, <1>3, <1>r, <2>1, <2>5 DEF Cursor!Answer
    <3>3. Cursor!Down
      BY <1>2, <2>1, <2>2, <2>3, <3>1, <3>2 DEF Cursor!Down, Cursor!Count, Position
    <3> QED
      BY <3>3 DEF Cursor!Next, Cursor!Move
  <2> QED
    BY <2>1, <2>4, <2>5
<1>8. CASE StoreNode(b)
  <2>1. /\ pc[b] = "store" /\ pc'[b] = "first" /\ b \in {"left", "right"}
        /\ currentNode' = node[b] /\ owed' = owed \ {b}
        /\ UNCHANGED <<held, hasty, currentIndex, status>>
    BY <1>1, <1>3, <1>8, GotoFacts DEF StoreNode, Pcs
  <2>2. Position' = 0
    BY <1>1, <2>1 DEF Position
  <2>3. CASE b = "left"
    <3>1. node[b] = Cursor!ParentOf(doc.children, currentNode) /\ node[b] # NULL
      BY <1>2, <1>3, <2>1, <2>3 DEF LoadedAt
    <3>2. Cursor!Left
      BY <1>2, <1>3, <1>r, <2>1, <2>2, <2>3, <3>1
      DEF Cursor!Left, Cursor!Answer, Position
    <3> QED
      BY <3>2 DEF Cursor!Next, Cursor!Move
  <2>4. CASE b = "right"
    <3>1. /\ currentIndex < Count(currentNode)
          /\ node[b] = Item(currentNode, currentIndex)
      BY <1>3, <2>1, <2>4 DEF LoadedAt
    <3>2. Count(currentNode) > 0 /\ node[b] = doc.children[currentNode][currentIndex + 1]
      BY <1>2, <3>1
    <3>3. Cursor!Right
      BY <1>2, <1>3, <1>r, <2>1, <2>2, <2>4, <3>2
      DEF Cursor!Right, Cursor!Answer, Cursor!Count, Position
    <3> QED
      BY <3>3 DEF Cursor!Next, Cursor!Move
  <2> QED
    BY <2>1, <2>3, <2>4
<1> QED
  BY <1>5, <1>6, <1>7, <1>8

\* To the cursor, displaying the menu is nothing but becoming ready again.
LEMMA DisplayStays ==
  ASSUME TreeInv, DeskInv, CalmInv, status = "up", hasty = 0, UNCHANGED tree,
         NEW t \in Threads,
         \/ t \in Buttons /\ Clear(t)
         \/ First(t) \/ Show(t) \/ Line1(t) \/ Line2(t)
  PROVE  [Cursor!Next]_(Cursor!vars)
<1> USE ButtonFacts
<1>1. /\ pc[t] \in {"first", "clear", "show", "line1", "line2"}
      /\ t \in Buttons => t \in Busy
  BY DEF Clear, First, Show, Line1, Line2, Crash, Goto, Busy
<1>2. \A u \in Threads : u # t => pc[u] # "first"
  BY <1>1, OneAtWork DEF After
<1>3. MenuTypeOK /\ DrawnAt(t) /\ UNCHANGED doc
  BY DEF DeskInv, CalmInv, tree
<1>r. ~Ready
  BY <1>1 DEF Ready, After
<1>4. CASE First(t)
  <2>1. /\ UNCHANGED <<held, owed, hasty, currentNode, status>>
        /\ currentIndex' = 0 /\ pc[t] = "first"
    BY <1>4 DEF First, Goto, panel
  <2>2. Position = 0 /\ Position' = 0
    BY <2>1 DEF Position
  <2> QED
    BY <1>3, <1>r, <2>1, <2>2, CursorStays
<1>5. CASE \/ t \in Buttons /\ Clear(t)
           \/ Show(t) \/ Line1(t) \/ Line2(t)
  <2>1. pc[t] \in {"clear", "show", "line1", "line2"} /\ currentIndex = 0
    BY <1>3, <1>5 DEF Clear, Show, Line1, Line2, Crash, Goto, DrawnAt
  <2>2. /\ \E to \in {"show", "line1", "line2", "poll", "join"} : Goto(t, pc[t], to)
        /\ UNCHANGED <<held, owed, hasty, currentNode, currentIndex, status>>
    <3>1. ~(Count(currentNode) > 0 /\ Outside(currentIndex, currentNode))
      BY <1>3, <2>1, NodeFacts DEF MenuTypeOK, Outside
    <3> QED
      BY <1>5, <2>1, <3>1
      DEF Clear, Show, Line1, Line2, Goto, After, panel, position
  <2>3. \A u \in Threads : pc'[u] # "first"
    BY <1>2, <1>3, <2>2, GotoFacts DEF Pcs
  <2>4. Position' = Position
    BY <1>2, <2>1, <2>2, <2>3 DEF Position
  <2> QED
    BY <1>3, <1>r, <2>2, <2>4, CursorStays
<1> QED
  BY <1>4, <1>5

\* Every step of the program is a step of MenuCursor, or none, as long as the
\* user has waited.
LEMMA StepMoves ==
  ASSUME TreeInv, DeskInv, CalmInv, hasty = 0, Next
  PROVE  [Cursor!Next]_(Cursor!vars)
<1> USE ButtonFacts
<1>1. ASSUME UNCHANGED tree, NEW b \in Buttons, Press(b)
      PROVE  [Cursor!Next]_(Cursor!vars)
  <2>1. /\ b \notin held /\ held' = held \cup {b} /\ owed' = owed \cup {b}
        /\ UNCHANGED <<pc, currentNode, currentIndex, status, doc>>
        /\ hasty' = IF Ready THEN 0 ELSE 1
    BY <1>1 DEF Press, position, tree
  <2>2. Ready' = FALSE
    BY <2>1 DEF Ready
  <2>3. Cursor!Press(b)
    <3>1. (hasty' > 0 \/ status' # "up") = ((hasty > 0 \/ status # "up") \/ ~Ready)
      BY <2>1
    <3> QED
      BY <2>1, <2>2, <3>1 DEF Cursor!Press
  <2> QED
    BY <2>3 DEF Cursor!Next, Cursor!MenuButtons, Buttons
<1>2. ASSUME UNCHANGED tree, NEW b \in Buttons, Release(b)
      PROVE  [Cursor!Next]_(Cursor!vars)
  <2>1. /\ b \in held /\ held' = held \ {b} /\ owed' \in {owed, owed \ {b}}
        /\ UNCHANGED <<pc, hasty, currentNode, currentIndex, status, doc>>
    BY <1>2 DEF Release, position, tree
  <2>2. Ready = FALSE
    BY <2>1 DEF Ready
  <2>3. Ready' \in {Ready, held' = {} /\ owed' = {} /\ currentNode' # NULL}
    BY <2>2 DEF Ready
  <2>4. Cursor!Release(b)
    BY <2>1, <2>3 DEF Cursor!Release, Cursor!Idle
  <2> QED
    BY <2>4 DEF Cursor!Next, Cursor!MenuButtons, Buttons
<1>7. status = "up"
  BY DEF Next, User, Run, Up
<1>3. ASSUME UNCHANGED tree, NEW b \in Buttons, Poll(b)
      PROVE  [Cursor!Next]_(Cursor!vars)
  <2>1. /\ pc[b] = "poll" /\ pc'[b] \in {"enter", "poll"}
        /\ \A u \in Threads : u # b => pc'[u] = pc[u]
        /\ UNCHANGED <<held, owed, hasty, currentNode, currentIndex, status, doc>>
    BY <1>3, GotoFacts DEF Poll, Pcs, DeskInv, position, tree
  <2>2. Position' = Position
    BY <2>1 DEF Position
  <2>3. Ready => Ready'
    <3> SUFFICES ASSUME Ready PROVE Ready'
      OBVIOUS
    <3>1. pc' = pc /\ seen' = {}
      BY <1>3 DEF Poll, Goto, Ready
    <3> QED
      BY <2>1, <3>1 DEF Ready
  <2> QED
    BY <1>7, <2>1, <2>2, <2>3, CursorStays
<1>4. ASSUME pc["main"] = "read"
      PROVE  currentNode = NULL /\ currentIndex = 0 /\ Position = 0 /\ Ready = FALSE
  BY <1>4 DEF CalmInv, Steady, Position, Ready, After
<1>5. ASSUME UNCHANGED tree, ReadMenu PROVE [Cursor!Next]_(Cursor!vars)
  <2>1. /\ pc["main"] = "read" /\ pc'["main"] = "first"
        /\ \/ currentNode' = doc.root
           \/ currentNode' = NULL
        /\ UNCHANGED <<held, owed, hasty, currentIndex, status, doc>>
    <3>1. /\ Goto("main", "read", "first")
          /\ \/ currentNode' = doc.root
             \/ currentNode' = NULL
          /\ UNCHANGED <<held, owed, hasty, currentIndex, status, doc>>
      BY <1>5 DEF ReadMenu, panel, tree
    <3> QED
      BY <3>1, GotoFacts DEF Pcs, DeskInv
  <2>2. Position' = Position
    BY <1>4, <2>1 DEF Position
  <2>3. Ready' = FALSE
    BY <2>1 DEF Ready, After
  <2>4. CASE currentNode' = doc.root
    <3>1. Cursor!Open
      BY <1>4, <2>1, <2>2, <2>3, <2>4 DEF Cursor!Open, Position
    <3> QED
      BY <3>1 DEF Cursor!Next
  <2>5. CASE currentNode' = NULL
    BY <1>4, <1>7, <2>1, <2>2, <2>3, <2>5, CursorStays
  <2> QED
    BY <2>1, <2>4, <2>5
<1>6. ASSUME BuildMenu PROVE [Cursor!Next]_(Cursor!vars)
  <2>1. UNCHANGED <<pc, held, owed, hasty, seen, currentNode, currentIndex, status, doc>>
    BY <1>6 DEF BuildMenu, read_json, ParseSubItem, AddSubItem, ReturnRoot, panel, position
  <2>2. Position' = Position /\ Ready' = Ready
    BY <2>1 DEF Position, Ready
  <2> QED
    BY <1>7, <2>1, <2>2, CursorStays
<1> QED
  BY <1>1, <1>2, <1>3, <1>5, <1>6, <1>7, ButtonMoves, DisplayStays, Steps

\* As long as the user waits for it, the four threads move the position the
\* way the menu in the file has it, and a press before that breaks the promise:
\* the safety half of ImplementsCursor.
THEOREM ButtonsMoveCursor == Spec => Cursor!Spec
<1>1. Init => Cursor!Init
  BY ButtonFacts DEF Init, TreeInit, Cursor!Init, Ready
<1>2. TreeInv /\ DeskInv /\ (hasty = 0 => CalmInv) /\ DeskInv' /\ [Next]_vars
        => [Cursor!Next]_(Cursor!vars)
  <2> SUFFICES ASSUME TreeInv, DeskInv, hasty = 0 => CalmInv, DeskInv', [Next]_vars
               PROVE  [Cursor!Next]_(Cursor!vars)
    OBVIOUS
  <2>1. CASE UNCHANGED vars
    <3>1. UNCHANGED <<pc, held, owed, hasty, seen, currentNode, currentIndex, status, doc>>
      BY <2>1 DEF vars, panel, position, tree
    <3> QED
      BY <3>1 DEF Cursor!vars, Ready
  <2>2. CASE Next /\ hasty = 0
    BY <2>2, StepMoves
  <2>3. CASE hasty # 0
    <3>1. hasty > 0 /\ hasty' > 0
      BY <2>3, HastyStays DEF DeskInv, MenuTypeOK
    <3>2. Cursor!Unpromised
      BY <3>1 DEF Cursor!Unpromised
    <3> QED
      BY <3>2 DEF Cursor!Next
  <2> QED
    BY <2>1, <2>2, <2>3
<1> QED
  BY <1>1, <1>2, CalmAlways, PTL DEF Spec, Cursor!Spec
=============================================================================
