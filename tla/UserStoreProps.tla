--------------------------- MODULE UserStoreProps --------------------------
(***************************************************************************)
(* What is claimed of UserStore: its invariants, and that it implements    *)
(* UserLedger.                                                             *)
(***************************************************************************)
EXTENDS UserStore, FiniteSetsExt

\* Entries of users[] and admins[] that are in use.
UsedUsers  == 0 .. user_count - 1
UsedAdmins == 0 .. admin_count - 1

\* The mutex is held by a thread exactly as long as it is between the lock
\* and the unlock of its function: two threads never work on the tables at
\* once, and no way out of a function leaves the mutex locked.
LockHeld == \A t \in Threads : pc[t] \in Critical <=> lock = t

\* No RFID has two entries in users[], although looking for the id and
\* appending the entry are separate steps of save_user_data: a second entry
\* would split the user's mileage.
OneEntryPerUser ==
  \A j, k \in UsedUsers : users[j].id = users[k].id => j = k

\* As long as a user's list has a free slot, every session that was saved
\* for the user is in it, as often as it was saved: recording a session
\* neither overwrites another nor is lost between two threads.  It holds
\* whatever new_user's uninitialised slots contained.
FinishedSaves(id) == {t \in Threads : /\ pc[t] = "done" /\ req[t].op = "save"
                                      /\ req[t].id = id}

SessionsRecorded ==
  \A k \in UsedUsers :
    LET iv    == users[k].intervals
        saves == FinishedSaves(users[k].id)
    IN (\E j \in IntervalSlots : iv[j].start = 0) =>
         \A t \in saves :
           Cardinality({s \in saves : Session(s) = Session(t)})
             <= Cardinality({j \in IntervalSlots : iv[j] = Session(t)})

-----------------------------------------------------------------------------
(***************************************************************************)
(* UserStore implements UserLedger.  A request takes effect when its last  *)
(* table write or read is done, except for a deletion: the list is without *)
(* the entry as soon as it is found, and the loop that moves the later     *)
(* entries up only moves the hole it left.                                 *)
(***************************************************************************)
Accounts ==
  [a \in {users[k].id : k \in UsedUsers} |->
     users[CHOOSE k \in UsedUsers : users[k].id = a].mileage]

AdminList ==
  IF lock # NoThread /\ pc[lock] = "shift"
  THEN [k \in 0 .. admin_count - 2 |->
          admins[IF k < cursor[lock] THEN k ELSE k + 1]]
  ELSE [k \in UsedAdmins |-> admins[k]]

CallOf(t) == IF pc[t] = "idle" THEN "idle"
             ELSE IF pc[t] \in {"shift", "unlock", "done"} THEN "done"
             ELSE "pending"

AnswerOf(t) ==
  IF pc[t] = "list" THEN {}
  ELSE {[id |-> u.id, mileage |-> u.mileage] : u \in Range(outbox[t])}

Ledger == INSTANCE UserLedger WITH
  accounts   <- Accounts,
  admin_list <- AdminList,
  call       <- [t \in Threads |-> CallOf(t)],
  request    <- req,
  answer     <- [t \in Threads |-> AnswerOf(t)]

\* The threads' interleaved steps amount to one request after another: no
\* credit is lost, a list is a snapshot, the administrators keep their order.
ImplementsLedger == Ledger!Spec
=============================================================================
