----------------------------- MODULE UserData ------------------------------
(***************************************************************************)
(* The data the user server keeps and the requests it is sent              *)
(* (final/server_1.h, and the message bodies client_handler decodes in     *)
(* final/server_1.c).  The specifications of what the server promises      *)
(* (UserLedger) and of how its threads do it (UserStore) both rest on it.  *)
(***************************************************************************)
EXTENDS Integers

CONSTANTS
  Ids,            \* RFID identifiers of users and administrators
  NoId,           \* the empty string of a zero-initialised table entry
  MAX_USERS,      \* capacity of users[]
  MAX_ADMINS,     \* capacity of admins[]
  MAX_INTERVALS,  \* capacity of intervals[] in struct user (10 in the code)
  Requests        \* the requests the clients may send

\* The functions a request ends up in.  "list", "add_admin", "delete_admin"
\* are the request types 1, 2 and 3 of handle_admin_request, "no_such_type"
\* stands for every other type, which only takes and releases the lock.
Ops == {"save", "query", "list", "add_admin", "delete_admin", "no_such_type"}

\* start and end are read by "save" only.
Request == [op : Ops, id : Ids, start : Nat \ {0}, end : Nat]

ASSUME DataAssumption ==
  /\ NoId \notin Ids
  /\ MAX_USERS \in Nat \ {0}
  /\ MAX_ADMINS \in Nat \ {0}
  /\ MAX_INTERVALS \in Nat \ {0}
  /\ Requests \subseteq Request

NoRequest == [op |-> "none", id |-> NoId, start |-> 0, end |-> 0]

UserSlots     == 0 .. MAX_USERS - 1
AdminSlots    == 0 .. MAX_ADMINS - 1
IntervalSlots == 0 .. MAX_INTERVALS - 1

Interval == [start : Int, end : Int]
User     == [id : Ids \cup {NoId},
             mileage : Int,
             intervals : [IntervalSlots -> Interval]]

\* An interval slot is free when its start is 0.
NoInterval == [start |-> 0, end |-> 0]

\* What an uninitialised stack slot may hold instead of zeroes.  Only whether
\* its start is 0 makes a difference to the program.
Junk == [start |-> 7, end |-> 4000]

\* The entry of a global array before the program writes it.
ZeroUser == [id |-> NoId, mileage |-> 0,
             intervals |-> [j \in IntervalSlots |-> NoInterval]]

(***************************************************************************)
(* difftime(end, start) / 60 is converted to int, which truncates towards  *)
(* zero; every full minute earns ten points.                               *)
(***************************************************************************)
calculate_mileage(start, end) ==
  10 * (IF end >= start THEN (end - start) \div 60
                        ELSE -((start - end) \div 60))
=============================================================================
