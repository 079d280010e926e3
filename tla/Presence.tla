------------------------------ MODULE Presence ------------------------------
(***************************************************************************)
(* What the RFID slot promises: a phone is there or is not, and each time  *)
(* it was there makes at most one record, of what was read when it came    *)
(* and of the time from then to when it was missed.  That there is a       *)
(* record at all takes a server that is there and asks for it.             *)
(***************************************************************************)
EXTENDS Integers, Sequences

CONSTANTS Texts, NoText   \* what may be read of a tag; no tag

VARIABLES
  now,
  tag, since,   \* what is in the slot, and since when
  reported,     \* a record of it has been sent
  records       \* the records sent

vars == <<now, tag, since, reported, records>>

Init == /\ now = 1 /\ tag = NoText /\ since = 0
        /\ reported = FALSE /\ records = <<>>

Tick == now' = now + 1 /\ UNCHANGED <<tag, since, reported, records>>

Come(x) == /\ tag = NoText /\ tag' = x /\ since' = now
           /\ UNCHANGED <<now, reported, records>>

Report == /\ tag # NoText /\ ~reported /\ reported' = TRUE
          /\ \E e \in since .. now :
               records' = Append(records, [RFID |-> tag, start |-> since, end |-> e])
          /\ UNCHANGED <<now, tag, since>>

Leave == /\ tag # NoText /\ tag' = NoText /\ since' = 0 /\ reported' = FALSE
         /\ UNCHANGED <<now, records>>

Next == Tick \/ Report \/ Leave \/ \E x \in Texts : Come(x)

Spec == Init /\ [][Next]_vars
=============================================================================
