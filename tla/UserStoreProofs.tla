-------------------------- MODULE UserStoreProofs --------------------------
(***************************************************************************)
(* Proofs, for any number of threads, users and administrators and for any *)
(* table capacities, that the tables of final/server_1.c keep their shape, *)
(* that the mutex excludes, that no user gets a second entry, that no      *)
(* session is lost while there is room for it, that no points are lost or  *)
(* made up, and that the threads serve the requests as if one after        *)
(* another (UserLedger).                                                   *)
(***************************************************************************)
EXTENDS UserStoreProps, FiniteSetTheorems, WellFoundedInduction, TLAPS

Points == Critical \cup {"idle", "lock", "done"}

\* What a thread inside save_user_data, send_user_data_to_terminal or
\* handle_admin_request has found out so far.  It stays true because only
\* the thread that holds the mutex writes the tables.
Found(t) ==
  /\ pc[t] # "idle" => req[t] \in Requests
  /\ pc[t] = "find" =>
       \A k \in UsedUsers : k < cursor[t] => users[k].id # req[t].id
  /\ pc[t] = "append" => \A k \in UsedUsers : users[k].id # req[t].id
  /\ pc[t] \in {"interval", "credit", "reply"} =>
       cursor[t] \in UsedUsers /\ users[cursor[t]].id = req[t].id
  /\ pc[t] = "shift" => cursor[t] \in UsedAdmins

\* OneEntryPerUser is not inductive: that AppendUser keeps it depends on the
\* search that came before, and on nobody else having written since.
IInv == /\ TypeOK
        /\ LockHeld
        /\ \A t \in Threads : Found(t)
        /\ OneEntryPerUser

-----------------------------------------------------------------------------
\* calculate_mileage gives a number.
LEMMA MileageType ==
  ASSUME NEW s \in Nat, NEW e \in Nat
  PROVE  calculate_mileage(s, e) \in Int
BY DEF calculate_mileage

\* What the model takes from a request it serves.
LEMMA RequestType ==
  ASSUME NEW r \in Requests
  PROVE  /\ r.op \in Ops
         /\ r.id \in Ids
         /\ [start |-> r.start, end |-> r.end] \in Interval
         /\ calculate_mileage(r.start, r.end) \in Int
<1>1. r \in Request
  BY DataAssumption DEF DataAssumption
<1>2. r.op \in Ops /\ r.id \in Ids /\ r.start \in Nat /\ r.end \in Nat
  BY <1>1 DEF Request
<1> QED
  BY <1>2, MileageType DEF Interval

\* What Move changes, one thread at a time.
LEMMA MoveEffect ==
  ASSUME TypeOK, NEW t \in Threads, NEW from, NEW to \in Points,
         NEW i \in Nat, Move(t, from, to, i)
  PROVE  /\ pc[t] = from /\ pc'[t] = to /\ cursor'[t] = i
         /\ \A u \in Threads \ {t} : pc'[u] = pc[u] /\ cursor'[u] = cursor[u]
         /\ pc' \in [Threads -> Points]
         /\ cursor' \in [Threads -> Nat]
         /\ status' = status /\ req' = req
BY DEF TypeOK, Move, Points

\* A thread that stays inside, or outside, leaves LockHeld alone.
LEMMA LockKept ==
  ASSUME LockHeld, NEW t \in Threads, lock' = lock,
         \A u \in Threads \ {t} : pc'[u] = pc[u],
         pc[t] \in Critical <=> pc'[t] \in Critical
  PROVE  LockHeld'
BY DEF LockHeld

\* Threads other than the one inside have nothing to lose but their request.
LEMMA OthersKeep ==
  ASSUME LockHeld, NEW t \in Threads, lock = t, req' = req,
         NEW u \in Threads \ {t}, Found(u),
         pc'[u] = pc[u], cursor'[u] = cursor[u]
  PROVE  Found(u)'
<1>1. pc[u] \notin Critical
  BY DEF LockHeld
<1>2. /\ pc[u] # "find" /\ pc[u] # "append" /\ pc[u] # "shift"
      /\ pc[u] \notin {"interval", "credit", "reply"}
  BY <1>1 DEF Critical
<1> QED
  BY <1>2 DEF Found

\* The invariant holds of the empty tables.
LEMMA InitIInv == Init => IInv
<1> SUFFICES ASSUME Init PROVE IInv
  OBVIOUS
<1>1. ZeroUser \in User
  BY DEF ZeroUser, User, NoInterval, Interval
<1>2. TypeOK
  BY <1>1, DataAssumption DEF DataAssumption, Init, TypeOK
<1>3. LockHeld
  BY ThreadAssumption DEF ThreadAssumption, Init, LockHeld, Critical
<1>4. \A t \in Threads : Found(t)
  BY DEF Init, Found
<1>5. OneEntryPerUser
  BY DEF Init, OneEntryPerUser, UsedUsers
<1> QED
  BY <1>2, <1>3, <1>4, <1>5 DEF IInv

\* A thread is created for a request.
LEMMA CallKeeps ==
  ASSUME IInv, NEW t \in Threads, NEW r \in Requests, Call(t, r)
  PROVE  IInv'
<1> USE DEF IInv, Call, userTable, adminTable
<1>1. TypeOK'
  BY DEF TypeOK
<1>2. LockHeld'
  BY DEF LockHeld, TypeOK, Critical
<1>3. ASSUME NEW u \in Threads PROVE Found(u)'
  BY DEF Found, TypeOK, UsedUsers, UsedAdmins
<1>4. OneEntryPerUser'
  BY DEF OneEntryPerUser, UsedUsers
<1> QED
  BY <1>1, <1>2, <1>3, <1>4

\* pthread_mutex_lock.
LEMMA LockKeeps ==
  ASSUME IInv, NEW t \in Threads, Lock(t)
  PROVE  IInv'
<1> USE DEF IInv
<1> DEFINE to == Entry[req[t].op]
<1>1. req[t] \in Requests
  BY DEF Found, Lock, Move
<1>2. to \in {"find", "list", "add", "find_admin", "unlock"}
  <2>1. req[t].op \in Ops
    BY <1>1, RequestType
  <2> QED
    BY <2>1 DEF Ops, Entry
<1>3. to \in Points
  BY <1>2 DEF Points, Critical
<1>4. /\ pc[t] = "lock" /\ pc'[t] = to /\ cursor'[t] = 0
      /\ \A u \in Threads \ {t} : pc'[u] = pc[u] /\ cursor'[u] = cursor[u]
      /\ pc' \in [Threads -> Points] /\ cursor' \in [Threads -> Nat]
      /\ status' = status /\ req' = req
  <2>1. Move(t, "lock", to, 0)
    BY DEF Lock
  <2> HIDE DEF to
  <2> QED
    BY <1>3, <2>1, MoveEffect
<1> HIDE DEF to
<1>5. lock = NoThread /\ lock' = t /\ UNCHANGED <<userTable, adminTable, outbox>>
  BY DEF Lock
<1>6. TypeOK'
  BY <1>4, <1>5 DEF TypeOK, Points, userTable, adminTable
<1>7. LockHeld'
  BY <1>2, <1>4, <1>5, ThreadAssumption
  DEF LockHeld, Critical, ThreadAssumption
<1>8. ASSUME NEW u \in Threads PROVE Found(u)'
  <2>1. CASE u = t
    BY <1>1, <1>2, <1>4, <2>1 DEF Found, UsedUsers
  <2>2. CASE u # t
    BY <1>4, <1>5, <2>2 DEF Found, UsedUsers, UsedAdmins, userTable, adminTable
  <2> QED
    BY <2>1, <2>2
<1>9. OneEntryPerUser'
  BY <1>5 DEF OneEntryPerUser, UsedUsers, userTable
<1> QED
  BY <1>6, <1>7, <1>8, <1>9

\* pthread_mutex_unlock.
LEMMA UnlockKeeps ==
  ASSUME IInv, NEW t \in Threads, Unlock(t)
  PROVE  IInv'
<1> USE DEF IInv
<1>1. /\ pc[t] = "unlock" /\ pc'[t] = "done" /\ cursor'[t] = 0
      /\ \A u \in Threads \ {t} : pc'[u] = pc[u] /\ cursor'[u] = cursor[u]
      /\ pc' \in [Threads -> Points] /\ cursor' \in [Threads -> Nat]
      /\ status' = status /\ req' = req
  <2>1. Move(t, "unlock", "done", 0) /\ "done" \in Points /\ 0 \in Nat /\ TypeOK
    BY DEF Unlock, Points
  <2> HIDE DEF IInv
  <2> QED
    BY <2>1, MoveEffect
<1>2. lock' = NoThread /\ UNCHANGED <<userTable, adminTable, outbox>>
  BY DEF Unlock
<1>3. lock = t
  BY <1>1 DEF LockHeld, Critical
<1>4. TypeOK'
  BY <1>1, <1>2 DEF TypeOK, Points, userTable, adminTable
<1>5. LockHeld'
  BY <1>1, <1>2, <1>3, ThreadAssumption
  DEF LockHeld, Critical, ThreadAssumption
<1>6. ASSUME NEW u \in Threads PROVE Found(u)'
  BY <1>1, <1>2 DEF Found, UsedUsers, UsedAdmins, userTable, adminTable
<1>7. OneEntryPerUser'
  BY <1>2 DEF OneEntryPerUser, UsedUsers, userTable
<1> QED
  BY <1>4, <1>5, <1>6, <1>7

-----------------------------------------------------------------------------
\* All that the steps between the lock and the unlock have in common.
LEMMA InsideStep ==
  ASSUME IInv, NEW t \in Threads, NEW from \in Critical, NEW to \in Critical,
         NEW i \in Nat, Move(t, from, to, i), lock' = lock
  PROVE  /\ pc[t] = from /\ pc'[t] = to /\ cursor'[t] = i
         /\ req[t] \in Requests /\ req' = req /\ status' = status
         /\ pc' \in [Threads -> Points] /\ cursor' \in [Threads -> Nat]
         /\ LockHeld'
         /\ \A u \in Threads \ {t} : Found(u)'
<1>1. to \in Points /\ TypeOK
  BY DEF Points, IInv
<1>2. /\ pc[t] = from /\ pc'[t] = to /\ cursor'[t] = i
      /\ \A u \in Threads \ {t} : pc'[u] = pc[u] /\ cursor'[u] = cursor[u]
      /\ pc' \in [Threads -> Points] /\ cursor' \in [Threads -> Nat]
      /\ status' = status /\ req' = req
  <2>1. /\ pc[t] = from /\ pc' = [pc EXCEPT ![t] = to]
        /\ cursor' = [cursor EXCEPT ![t] = i] /\ UNCHANGED <<req, status>>
    BY DEF Move
  <2>2. pc \in [Threads -> Points] /\ cursor \in [Threads -> Nat]
    BY <1>1 DEF TypeOK, Points
  <2> QED
    BY ONLY <1>1, <2>1, <2>2, t \in Threads, i \in Nat
<1> USE DEF IInv
<1>3. lock = t
  BY <1>2 DEF LockHeld
<1>4. req[t] \in Requests
  BY <1>2 DEF Found, Critical
<1>5. LockHeld'
  BY <1>2, LockKept
<1>6. \A u \in Threads \ {t} : Found(u)'
  BY <1>2, <1>3, OthersKeep
<1> QED
  BY <1>2, <1>4, <1>5, <1>6

\* One round of a search.  The caller says what the table still shows of the
\* entry at the cursor and of those before it.
LEMMA FindUserKeeps ==
  ASSUME IInv, NEW t \in Threads, FindUser(t)
  PROVE  IInv'
<1> USE DEF IInv
<1> DEFINE saving == req[t].op = "save"
           found  == IF saving THEN "interval" ELSE "reply"
           missed == IF saving THEN "append" ELSE "unlock"
           hit    == users[cursor[t]].id = req[t].id
<1>1. UNCHANGED <<userTable, adminTable, lock, outbox>>
  BY DEF FindUser, Scan
<1>2. \/ cursor[t] < user_count /\ ~hit /\ Move(t, "find", "find", cursor[t] + 1)
      \/ cursor[t] < user_count /\ hit /\ Move(t, "find", found, cursor[t])
      \/ cursor[t] >= user_count /\ Move(t, "find", missed, cursor[t])
  BY DEF FindUser, Scan
<1>3. /\ found \in {"interval", "reply"} /\ missed \in {"append", "unlock"}
      /\ missed = "append" => saving
  OBVIOUS
<1>4. cursor[t] \in Nat /\ cursor[t] + 1 \in Nat /\ user_count \in Nat
  BY DEF TypeOK
<1> HIDE DEF found, missed
<1>5. PICK to \in Critical, i \in Nat : Move(t, "find", to, i)
  BY <1>2, <1>3, <1>4 DEF Critical
<1>6. /\ pc[t] = "find" /\ pc'[t] = to /\ cursor'[t] = i
      /\ req[t] \in Requests /\ req' = req /\ status' = status
      /\ pc' \in [Threads -> Points] /\ cursor' \in [Threads -> Nat]
      /\ LockHeld'
      /\ \A u \in Threads \ {t} : Found(u)'
  <2>1. "find" \in Critical /\ lock' = lock
    BY <1>1 DEF Critical
  <2> QED
    BY <1>5, <2>1, InsideStep
<1>7. TypeOK'
  BY <1>1, <1>6 DEF TypeOK, Points, userTable, adminTable
<1>8. Found(t)'
  <2>1. \A k \in UsedUsers : k < cursor[t] => users[k].id # req[t].id
    BY <1>6 DEF Found
  <2>2. /\ users' = users /\ req' = req /\ req[t] \in Requests
        /\ UsedUsers' = UsedUsers
    BY <1>1, <1>6 DEF userTable, UsedUsers
  <2>3. CASE cursor[t] < user_count /\ ~hit /\ Move(t, "find", "find", cursor[t] + 1)
    <3>1. pc'[t] = "find" /\ cursor'[t] = cursor[t] + 1
      BY <2>3 DEF Move, TypeOK
    <3>2. \A k \in UsedUsers : k < cursor[t] + 1 => users[k].id # req[t].id
      BY <1>4, <2>1, <2>3 DEF UsedUsers
    <3> QED
      BY <2>2, <3>1, <3>2 DEF Found
  <2>4. CASE cursor[t] < user_count /\ hit /\ Move(t, "find", found, cursor[t])
    <3>1. pc'[t] \in {"interval", "reply"} /\ cursor'[t] = cursor[t]
      BY <1>3, <2>4 DEF Move, TypeOK
    <3>2. cursor[t] \in UsedUsers
      BY <1>4, <2>4 DEF UsedUsers
    <3> QED
      BY <2>2, <2>4, <3>1, <3>2 DEF Found
  <2>5. CASE cursor[t] >= user_count /\ Move(t, "find", missed, cursor[t])
    <3>1. pc'[t] \in {"append", "unlock"}
      BY <1>3, <2>5 DEF Move, TypeOK
    <3>2. \A k \in UsedUsers : users[k].id # req[t].id
      BY <1>4, <2>1, <2>5 DEF UsedUsers
    <3> QED
      BY <2>2, <3>1, <3>2 DEF Found
  <2> QED
    BY <1>2, <2>3, <2>4, <2>5
<1>9. OneEntryPerUser'
  BY <1>1 DEF OneEntryPerUser, UsedUsers, userTable
<1> QED
  BY <1>6, <1>7, <1>8, <1>9

\* A round of the loop over admins[].
LEMMA FindAdminKeeps ==
  ASSUME IInv, NEW t \in Threads, FindAdmin(t)
  PROVE  IInv'
<1> USE DEF IInv
<1>1. UNCHANGED <<userTable, adminTable, lock, outbox>>
  BY DEF FindAdmin, Scan
<1>2. cursor[t] \in Nat /\ cursor[t] + 1 \in Nat /\ admin_count \in Nat
  BY DEF TypeOK
<1>3. \E to \in {"find_admin", "shift", "unlock"}, i \in Nat :
        /\ Move(t, "find_admin", to, i)
        /\ to = "shift" => i = cursor[t] /\ cursor[t] < admin_count
  BY <1>2 DEF FindAdmin, Scan
<1>4. PICK to \in {"find_admin", "shift", "unlock"}, i \in Nat :
        /\ Move(t, "find_admin", to, i)
        /\ to = "shift" => i = cursor[t] /\ cursor[t] < admin_count
  BY <1>3
<1>5. /\ pc[t] = "find_admin" /\ pc'[t] = to /\ cursor'[t] = i
      /\ req[t] \in Requests /\ req' = req /\ status' = status
      /\ pc' \in [Threads -> Points] /\ cursor' \in [Threads -> Nat]
      /\ LockHeld'
      /\ \A u \in Threads \ {t} : Found(u)'
  <2>1. "find_admin" \in Critical /\ to \in Critical /\ lock' = lock
    BY <1>1 DEF Critical
  <2> QED
    BY <1>4, <2>1, InsideStep
<1>6. TypeOK'
  BY <1>1, <1>5 DEF TypeOK, Points, userTable, adminTable
<1>7. Found(t)'
  <2>1. pc'[t] = "shift" => cursor'[t] \in UsedAdmins'
    BY <1>1, <1>2, <1>4, <1>5 DEF UsedAdmins, adminTable
  <2>2. pc'[t] \in {"find_admin", "shift", "unlock"} /\ req'[t] \in Requests
    BY <1>5
  <2> QED
    BY <2>1, <2>2 DEF Found
<1>8. OneEntryPerUser'
  BY <1>1 DEF OneEntryPerUser, UsedUsers, userTable
<1> QED
  BY <1>5, <1>6, <1>7, <1>8

\* The two writes to an entry that is there leave its id alone.
LEMMA EntryKeepsId ==
  ASSUME TypeOK, NEW c \in UsedUsers, NEW e \in User, e.id = users[c].id,
         users' = [users EXCEPT ![c] = e], user_count' = user_count
  PROVE  /\ users' \in [UserSlots -> User]
         /\ UsedUsers' = UsedUsers
         /\ \A k \in UsedUsers : users'[k].id = users[k].id
<1>1. UsedUsers \subseteq UserSlots
  BY DataAssumption DEF TypeOK, UsedUsers, UserSlots, DataAssumption
<1>2. users \in [UserSlots -> User]
  BY DEF TypeOK
<1> QED
  BY <1>1, <1>2 DEF UsedUsers

\* OneEntryPerUser is about the ids alone.
LEMMA SameIds ==
  ASSUME OneEntryPerUser, UsedUsers' = UsedUsers,
         \A k \in UsedUsers : users'[k].id = users[k].id
  PROVE  OneEntryPerUser'
BY DEF OneEntryPerUser

\* The first write of save_user_data, of an interval.
LEMMA RecordIntervalKeeps ==
  ASSUME IInv, NEW t \in Threads, RecordInterval(t)
  PROVE  IInv'
<1> USE DEF IInv
<1> DEFINE c  == cursor[t]
           iv == users[c].intervals
<1>1. /\ Move(t, "interval", "credit", c)
      /\ UNCHANGED <<user_count, adminTable, lock, outbox>>
      /\ \/ \E j \in IntervalSlots :
              users' = [users EXCEPT ![c].intervals[j] = Session(t)]
         \/ UNCHANGED users
  BY DEF RecordInterval
<1>2. /\ pc[t] = "interval" /\ pc'[t] = "credit" /\ cursor'[t] = c
      /\ req[t] \in Requests /\ req' = req /\ status' = status
      /\ pc' \in [Threads -> Points] /\ cursor' \in [Threads -> Nat]
      /\ LockHeld'
      /\ \A u \in Threads \ {t} : Found(u)'
  <2>1. "interval" \in Critical /\ "credit" \in Critical /\ c \in Nat
    BY DEF Critical, TypeOK
  <2> QED
    BY <1>1, <2>1, InsideStep
<1>3. c \in UsedUsers /\ users[c].id = req[t].id
  BY <1>2 DEF Found
<1>4. users[c] \in User
  BY <1>3, DataAssumption DEF TypeOK, UsedUsers, UserSlots, DataAssumption
<1>5. PICK e \in User : e.id = users[c].id /\ users' = [users EXCEPT ![c] = e]
  <2>1. CASE UNCHANGED users
    BY <1>4, <2>1 DEF TypeOK
  <2>2. ASSUME NEW j \in IntervalSlots,
               users' = [users EXCEPT ![c].intervals[j] = Session(t)]
        PROVE  \E e \in User : e.id = users[c].id /\ users' = [users EXCEPT ![c] = e]
    <3> DEFINE e == [id |-> users[c].id, mileage |-> users[c].mileage,
                     intervals |-> [iv EXCEPT ![j] = Session(t)]]
    <3>1. Session(t) \in Interval
      BY <1>2, RequestType DEF Session
    <3>2. e \in User
      BY <1>4, <3>1 DEF User
    <3>3. [users[c] EXCEPT !.intervals[j] = Session(t)] = e
      BY <1>4 DEF User
    <3>4. users' = [users EXCEPT ![c] = e]
      BY <2>2, <3>3
    <3> QED
      BY <3>2, <3>4
  <2> QED
    BY <1>1, <2>1, <2>2
<1>6. /\ users' \in [UserSlots -> User] /\ UsedUsers' = UsedUsers
      /\ \A k \in UsedUsers : users'[k].id = users[k].id
  BY <1>1, <1>3, <1>5, EntryKeepsId
<1>7. TypeOK'
  BY <1>1, <1>2, <1>6 DEF TypeOK, Points, adminTable
<1>8. Found(t)'
  BY <1>2, <1>3, <1>6 DEF Found
<1>9. OneEntryPerUser'
  BY <1>6, SameIds
<1> QED
  BY <1>2, <1>7, <1>8, <1>9

\* The second, of the points.
LEMMA CreditMileageKeeps ==
  ASSUME IInv, NEW t \in Threads, CreditMileage(t)
  PROVE  IInv'
<1> USE DEF IInv
<1> DEFINE c == cursor[t]
           e == [id |-> users[c].id, mileage |-> users[c].mileage + Earned(t),
                 intervals |-> users[c].intervals]
<1>1. /\ Move(t, "credit", "unlock", c)
      /\ UNCHANGED <<user_count, adminTable, lock, outbox>>
      /\ users' = [users EXCEPT ![c].mileage = @ + Earned(t)]
  BY DEF CreditMileage
<1>2. /\ pc[t] = "credit" /\ pc'[t] = "unlock" /\ cursor'[t] = c
      /\ req[t] \in Requests /\ req' = req /\ status' = status
      /\ pc' \in [Threads -> Points] /\ cursor' \in [Threads -> Nat]
      /\ LockHeld'
      /\ \A u \in Threads \ {t} : Found(u)'
  <2>1. "credit" \in Critical /\ "unlock" \in Critical /\ c \in Nat
    BY DEF Critical, TypeOK
  <2> QED
    BY <1>1, <2>1, InsideStep
<1>3. c \in UsedUsers
  BY <1>2 DEF Found
<1>4. users[c] \in User
  BY <1>3, DataAssumption DEF TypeOK, UsedUsers, UserSlots, DataAssumption
<1>5. e \in User
  <2>1. Earned(t) \in Int
    BY <1>2, RequestType DEF Earned
  <2> QED
    BY <1>4, <2>1 DEF User
<1>6. users' = [users EXCEPT ![c] = e]
  <2>1. [users[c] EXCEPT !.mileage = @ + Earned(t)] = e
    BY <1>4 DEF User
  <2> QED
    BY <1>1, <2>1
<1>7. /\ users' \in [UserSlots -> User] /\ UsedUsers' = UsedUsers
      /\ \A k \in UsedUsers : users'[k].id = users[k].id
  <2>1. e.id = users[c].id
    OBVIOUS
  <2> HIDE DEF e
  <2> QED
    BY <1>1, <1>3, <1>5, <1>6, <2>1, EntryKeepsId
<1>8. TypeOK'
  BY <1>1, <1>2, <1>7 DEF TypeOK, Points, adminTable
<1>9. Found(t)'
  BY <1>2 DEF Found
<1>10. OneEntryPerUser'
  BY <1>7, SameIds
<1> QED
  BY <1>2, <1>8, <1>9, <1>10

\* The entry appended is the first with its id: the search has just missed.
LEMMA AppendUserKeeps ==
  ASSUME IInv, NEW t \in Threads, AppendUser(t)
  PROVE  IInv'
<1> USE DEF IInv
<1>1. /\ user_count < MAX_USERS
      /\ Move(t, "append", "unlock", cursor[t])
      /\ user_count' = user_count + 1
      /\ UNCHANGED <<adminTable, lock, outbox>>
  BY DEF AppendUser
<1>2. PICK stack \in [IntervalSlots -> {NoInterval, Junk}] :
        users' = [users EXCEPT ![user_count] = NewUser(t, stack)]
  BY DEF AppendUser
<1>3. /\ pc[t] = "append" /\ pc'[t] = "unlock" /\ cursor'[t] = cursor[t]
      /\ req[t] \in Requests /\ req' = req /\ status' = status
      /\ pc' \in [Threads -> Points] /\ cursor' \in [Threads -> Nat]
      /\ LockHeld'
      /\ \A u \in Threads \ {t} : Found(u)'
  <2>1. "append" \in Critical /\ "unlock" \in Critical /\ cursor[t] \in Nat
    BY DEF Critical, TypeOK
  <2> QED
    BY <1>1, <2>1, InsideStep
<1>4. NewUser(t, stack) \in User /\ NewUser(t, stack).id = req[t].id
  <2>1. req[t].id \in Ids /\ Session(t) \in Interval /\ Earned(t) \in Int
    BY <1>3, RequestType DEF Session, Earned
  <2>2. [stack EXCEPT ![0] = Session(t)] \in [IntervalSlots -> Interval]
    <3>1. NoInterval \in Interval /\ Junk \in Interval
      BY DEF NoInterval, Junk, Interval
    <3>2. stack \in [IntervalSlots -> Interval]
      BY <3>1
    <3> QED
      BY <2>1, <3>2
  <2> QED
    BY <2>1, <2>2 DEF NewUser, User
<1>5. user_count \in UserSlots /\ user_count \in Nat
  BY <1>1, DataAssumption DEF TypeOK, UserSlots, DataAssumption
<1>6. TypeOK'
  <2>1. users' \in [UserSlots -> User]
    BY <1>2, <1>4 DEF TypeOK
  <2>2. user_count' \in 0 .. MAX_USERS
    BY <1>1, <1>5, DataAssumption DEF DataAssumption
  <2> QED
    BY <1>1, <1>3, <2>1, <2>2 DEF TypeOK, Points, adminTable
<1>7. Found(t)'
  BY <1>3 DEF Found
<1>8. OneEntryPerUser'
  <2>1. UsedUsers' = UsedUsers \cup {user_count} /\ user_count \notin UsedUsers
    BY <1>1, <1>5 DEF UsedUsers
  <2>2. \A k \in UsedUsers : users[k].id # req[t].id
    BY <1>3 DEF Found
  <2>3. /\ \A k \in UsedUsers : users'[k] = users[k]
        /\ users'[user_count].id = req[t].id
    <3>1. users \in [UserSlots -> User] /\ UsedUsers \subseteq UserSlots
      BY DataAssumption DEF TypeOK, UsedUsers, UserSlots, DataAssumption
    <3> QED
      BY <1>2, <1>4, <1>5, <2>1, <3>1
  <2> QED
    BY <2>1, <2>2, <2>3 DEF OneEntryPerUser
<1> QED
  BY <1>3, <1>6, <1>7, <1>8

\* Both replies send an entry that is in use.
LEMMA SendKeepsType ==
  ASSUME TypeOK, NEW t \in Threads, NEW c \in UsedUsers, Send(t, users[c])
  PROVE  outbox' \in [Threads -> Seq(User)]
<1>1. users[c] \in User
  BY DataAssumption DEF TypeOK, UsedUsers, UserSlots, DataAssumption
<1>2. outbox \in [Threads -> Seq(User)]
  BY DEF TypeOK
<1>3. Append(outbox[t], users[c]) \in Seq(User)
  BY <1>1, <1>2
<1> QED
  BY <1>2, <1>3 DEF Send

\* The reply to a query.
LEMMA SendUserKeeps ==
  ASSUME IInv, NEW t \in Threads, SendUser(t)
  PROVE  IInv'
<1> USE DEF IInv
<1>1. /\ Move(t, "reply", "unlock", cursor[t]) /\ Send(t, users[cursor[t]])
      /\ UNCHANGED <<userTable, adminTable, lock>>
  BY DEF SendUser, Send
<1>2. /\ pc[t] = "reply" /\ pc'[t] = "unlock" /\ cursor'[t] = cursor[t]
      /\ req[t] \in Requests /\ req' = req /\ status' = status
      /\ pc' \in [Threads -> Points] /\ cursor' \in [Threads -> Nat]
      /\ LockHeld'
      /\ \A u \in Threads \ {t} : Found(u)'
  <2>1. "reply" \in Critical /\ "unlock" \in Critical /\ cursor[t] \in Nat
    BY DEF Critical, TypeOK
  <2> QED
    BY <1>1, <2>1, InsideStep
<1>3. cursor[t] \in UsedUsers
  BY <1>2 DEF Found
<1>4. outbox' \in [Threads -> Seq(User)]
  BY <1>1, <1>3, SendKeepsType
<1>5. TypeOK'
  BY <1>1, <1>2, <1>4 DEF TypeOK, Points, userTable, adminTable
<1>6. Found(t)'
  BY <1>2 DEF Found
<1>7. OneEntryPerUser'
  BY <1>1 DEF OneEntryPerUser, UsedUsers, userTable
<1> QED
  BY <1>2, <1>5, <1>6, <1>7

\* A round of the list.
LEMMA ListUsersKeeps ==
  ASSUME IInv, NEW t \in Threads, ListUsers(t)
  PROVE  IInv'
<1> USE DEF IInv
<1>1. cursor[t] \in Nat /\ cursor[t] + 1 \in Nat /\ user_count \in Nat
  BY DEF TypeOK
<1>2. UNCHANGED <<userTable, adminTable, lock>>
  BY DEF ListUsers, Send
<1>3. \E to \in {"list", "unlock"}, i \in Nat : Move(t, "list", to, i)
  BY <1>1 DEF ListUsers
<1>4. PICK to \in {"list", "unlock"}, i \in Nat : Move(t, "list", to, i)
  BY <1>3
<1>5. /\ pc[t] = "list" /\ pc'[t] = to /\ cursor'[t] = i
      /\ req[t] \in Requests /\ req' = req /\ status' = status
      /\ pc' \in [Threads -> Points] /\ cursor' \in [Threads -> Nat]
      /\ LockHeld'
      /\ \A u \in Threads \ {t} : Found(u)'
  <2>1. "list" \in Critical /\ to \in Critical /\ lock' = lock
    BY <1>2 DEF Critical
  <2> QED
    BY <1>4, <2>1, InsideStep
<1>6. outbox' \in [Threads -> Seq(User)]
  <2>1. CASE cursor[t] < user_count /\ Send(t, users[cursor[t]])
    <3>1. cursor[t] \in UsedUsers
      BY <1>1, <2>1 DEF UsedUsers
    <3> QED
      BY <2>1, <3>1, SendKeepsType
  <2>2. CASE UNCHANGED outbox
    BY <2>2 DEF TypeOK
  <2> QED
    BY <2>1, <2>2 DEF ListUsers
<1>7. TypeOK'
  BY <1>2, <1>5, <1>6 DEF TypeOK, Points, userTable, adminTable
<1>8. Found(t)'
  BY <1>4, <1>5 DEF Found
<1>9. OneEntryPerUser'
  BY <1>2 DEF OneEntryPerUser, UsedUsers, userTable
<1> QED
  BY <1>5, <1>7, <1>8, <1>9

\* The entry of an administrator.
LEMMA AddAdminKeeps ==
  ASSUME IInv, NEW t \in Threads, AddAdmin(t)
  PROVE  IInv'
<1> USE DEF IInv
<1>1. /\ Move(t, "add", "unlock", cursor[t])
      /\ UNCHANGED <<userTable, lock, outbox>>
  BY DEF AddAdmin
<1>2. /\ pc[t] = "add" /\ pc'[t] = "unlock" /\ cursor'[t] = cursor[t]
      /\ req[t] \in Requests /\ req' = req /\ status' = status
      /\ pc' \in [Threads -> Points] /\ cursor' \in [Threads -> Nat]
      /\ LockHeld'
      /\ \A u \in Threads \ {t} : Found(u)'
  <2>1. "add" \in Critical /\ "unlock" \in Critical /\ cursor[t] \in Nat
    BY DEF Critical, TypeOK
  <2> QED
    BY <1>1, <2>1, InsideStep
<1>3. /\ admins' \in [AdminSlots -> Ids \cup {NoId}]
      /\ admin_count' \in 0 .. MAX_ADMINS
  <2>1. req[t].id \in Ids
    BY <1>2, RequestType
  <2>2. CASE /\ admin_count < MAX_ADMINS
             /\ admins' = [admins EXCEPT ![admin_count] = req[t].id]
             /\ admin_count' = admin_count + 1
    <3>1. /\ admins \in [AdminSlots -> Ids \cup {NoId}]
          /\ admin_count \in Nat /\ MAX_ADMINS \in Nat
      BY DataAssumption DEF TypeOK, DataAssumption
    <3>2. admins' \in [AdminSlots -> Ids \cup {NoId}]
      BY <2>1, <2>2, <3>1
    <3>3. admin_count' \in 0 .. MAX_ADMINS
      BY <2>2, <3>1
    <3> QED
      BY <3>2, <3>3
  <2>3. CASE UNCHANGED adminTable
    BY <2>3 DEF TypeOK, adminTable
  <2> QED
    BY <2>2, <2>3 DEF AddAdmin
<1>4. TypeOK'
  BY <1>1, <1>2, <1>3 DEF TypeOK, Points, userTable
<1>5. Found(t)'
  BY <1>2 DEF Found
<1>6. OneEntryPerUser'
  BY <1>1 DEF OneEntryPerUser, UsedUsers, userTable
<1> QED
  BY <1>2, <1>4, <1>5, <1>6

\* A move of the deletion.
LEMMA DeleteAdminKeeps ==
  ASSUME IInv, NEW t \in Threads, DeleteAdmin(t)
  PROVE  IInv'
<1> USE DEF IInv
<1> DEFINE c == cursor[t]
<1>1. UNCHANGED <<userTable, lock, outbox>>
  BY DEF DeleteAdmin
<1>2. \/ /\ c < admin_count - 1 /\ Move(t, "shift", "shift", c + 1)
         /\ admins' = [admins EXCEPT ![c] = admins[c + 1]]
         /\ admin_count' = admin_count
      \/ /\ c >= admin_count - 1 /\ Move(t, "shift", "unlock", c)
         /\ admin_count' = admin_count - 1
         /\ admins' = admins
  BY DEF DeleteAdmin
<1>3. pc[t] = "shift" /\ c \in UsedAdmins /\ c \in Nat /\ c + 1 \in Nat
  <2>1. pc[t] = "shift"
    BY <1>2 DEF Move
  <2> QED
    BY <2>1 DEF Found, TypeOK
<1>4. PICK to \in {"shift", "unlock"}, i \in Nat :
        /\ Move(t, "shift", to, i)
        /\ to = "shift" => i = c + 1 /\ c < admin_count - 1
                           /\ admin_count' = admin_count
  BY <1>2, <1>3
<1>5. /\ pc'[t] = to /\ cursor'[t] = i
      /\ req[t] \in Requests /\ req' = req /\ status' = status
      /\ pc' \in [Threads -> Points] /\ cursor' \in [Threads -> Nat]
      /\ LockHeld'
      /\ \A u \in Threads \ {t} : Found(u)'
  <2>1. "shift" \in Critical /\ to \in Critical /\ lock' = lock
    BY <1>1 DEF Critical
  <2> QED
    BY <1>4, <2>1, InsideStep
<1>6. /\ admins' \in [AdminSlots -> Ids \cup {NoId}]
      /\ admin_count' \in 0 .. MAX_ADMINS
  <2>1. /\ admins \in [AdminSlots -> Ids \cup {NoId}]
        /\ admin_count \in 1 .. MAX_ADMINS /\ MAX_ADMINS \in Nat
    BY <1>3, DataAssumption DEF TypeOK, UsedAdmins, DataAssumption
  <2>2. c < admin_count - 1 => c + 1 \in AdminSlots
    BY <1>3, <2>1 DEF AdminSlots
  <2> QED
    BY <1>2, <2>1, <2>2
<1>7. TypeOK'
  BY <1>1, <1>5, <1>6 DEF TypeOK, Points, userTable
<1>8. Found(t)'
  <2>1. pc'[t] = "shift" => cursor'[t] \in UsedAdmins'
    BY <1>3, <1>4, <1>5 DEF UsedAdmins, TypeOK
  <2>2. pc'[t] \in {"shift", "unlock"} /\ req'[t] \in Requests
    BY <1>5
  <2> QED
    BY <2>1, <2>2 DEF Found
<1>9. OneEntryPerUser'
  BY <1>1 DEF OneEntryPerUser, UsedUsers, userTable
<1> QED
  BY <1>5, <1>7, <1>8, <1>9

-----------------------------------------------------------------------------
\* A step that changes nothing.
LEMMA UnchangedKeeps ==
  ASSUME IInv, UNCHANGED vars
  PROVE  IInv'
<1> USE DEF IInv, vars, userTable, adminTable
<1>1. TypeOK'
  BY DEF TypeOK
<1>2. LockHeld'
  BY DEF LockHeld
<1>3. \A t \in Threads : Found(t)'
  BY DEF Found, UsedUsers, UsedAdmins
<1>4. OneEntryPerUser'
  BY DEF OneEntryPerUser, UsedUsers
<1> QED
  BY <1>1, <1>2, <1>3, <1>4

\* The end of the model at a write past users[].
LEMMA OverrunKeeps ==
  ASSUME IInv, NEW t \in Threads, Overrun(t)
  PROVE  IInv'
<1> USE DEF IInv, Overrun, userTable, adminTable
<1>1. TypeOK'
  BY DEF TypeOK
<1>2. LockHeld'
  BY DEF LockHeld
<1>3. \A u \in Threads : Found(u)'
  BY DEF Found, UsedUsers, UsedAdmins
<1>4. OneEntryPerUser'
  BY DEF OneEntryPerUser, UsedUsers
<1> QED
  BY <1>1, <1>2, <1>3, <1>4

\* No step breaks the invariant.
LEMMA NextKeepsIInv == IInv /\ [Next]_vars => IInv'
<1> SUFFICES ASSUME IInv, [Next]_vars PROVE IInv'
  OBVIOUS
<1>1. ASSUME NEW t \in Threads, Work(t) PROVE IInv'
  BY <1>1, LockKeeps, UnlockKeeps, FindUserKeeps, RecordIntervalKeeps,
     CreditMileageKeeps, AppendUserKeeps, OverrunKeeps, SendUserKeeps,
     ListUsersKeeps, AddAdminKeeps, FindAdminKeeps, DeleteAdminKeeps DEF Work
<1>2. ASSUME NEW t \in Threads, Arrive(t) PROVE IInv'
  BY <1>2, CallKeeps DEF Arrive
<1>3. CASE Rest
  BY <1>3, UnchangedKeeps DEF Rest
<1>4. CASE UNCHANGED vars
  BY <1>4, UnchangedKeeps
<1> QED
  BY <1>1, <1>2, <1>3, <1>4 DEF Next

\* The inductive invariant holds in every reachable state.
LEMMA IInvAlways == Spec => []IInv
<1> QED
  BY InitIInv, NextKeepsIInv, PTL DEF Spec

\* The tables keep their shape: the counters stay within the arrays, every
\* entry is a struct the code has written (final/server_1.c:25-93).
THEOREM TypeCorrect == Spec => []TypeOK
<1>1. IInv => TypeOK
  BY DEF IInv
<1> QED
  BY <1>1, IInvAlways, PTL

\* pthread_mutex_lock and the unlock on each way out of the three functions
\* bracket all accesses to the tables: the thread inside is the one that
\* holds the mutex, so there is one at most.
THEOREM MutexHeld == Spec => []LockHeld
<1>1. IInv => LockHeld
  BY DEF IInv
<1> QED
  BY <1>1, IInvAlways, PTL

\* However many save_user_data calls race, a user has one entry in users[].
THEOREM NoSecondEntry == Spec => []OneEntryPerUser
<1>1. IInv => OneEntryPerUser
  BY DEF IInv
<1> QED
  BY <1>1, IInvAlways, PTL
-----------------------------------------------------------------------------
(***************************************************************************)
(* UserStore implements UserLedger.  Besides IInv this needs what a thread *)
(* has sent so far, and that it is where its request takes it.             *)
(***************************************************************************)
Sent(t) ==
  /\ pc[t] \notin {"list", "unlock", "done"} => outbox[t] = <<>>
  /\ pc[t] = "list" =>
       Range(outbox[t]) = {users[k] : k \in {j \in UsedUsers : j < cursor[t]}}

Passed(t) == pc[t] = "find_admin" =>
  \A k \in UsedAdmins : k < cursor[t] => admins[k] # req[t].id

OpsAt == [find |-> {"save", "query"}, interval |-> {"save"}, credit |-> {"save"},
          append |-> {"save"}, reply |-> {"query"}, list |-> {"list"},
          add |-> {"add_admin"}, find_admin |-> {"delete_admin"},
          shift |-> {"delete_admin"}]

Routed(t) == pc[t] \in Critical \ {"unlock"} => req[t].op \in OpsAt[pc[t]]

Served(t) == Sent(t) /\ Passed(t) /\ Routed(t)

LInv == IInv /\ \A t \in Threads : Served(t)

\* The variables of UserLedger that are functions on the threads.
calls   == [t \in Threads |-> CallOf(t)]
answers == [t \in Threads |-> AnswerOf(t)]

LedgerStep == [Ledger!Next]_(Ledger!vars)

-----------------------------------------------------------------------------
\* With one entry per user it does not matter which one Accounts chooses.
LEMMA AccountsOf ==
  ASSUME NEW u, NEW n, \A j, k \in 0 .. n - 1 : u[j].id = u[k].id => j = k
  PROVE  \A k \in 0 .. n - 1 :
           [a \in {u[j].id : j \in 0 .. n - 1} |->
              u[CHOOSE j \in 0 .. n - 1 : u[j].id = a].mileage][u[k].id] = u[k].mileage
<1> TAKE k \in 0 .. n - 1
<1> DEFINE c == CHOOSE j \in 0 .. n - 1 : u[j].id = u[k].id
<1>1. c \in 0 .. n - 1 /\ u[c].id = u[k].id
  OBVIOUS
<1>2. c = k
  BY <1>1
<1> QED
  BY <1>2

\* The accounts of the ledger, as a function on the slots.
LEMMA AccountsValue ==
  /\ DOMAIN Accounts = {users[k].id : k \in UsedUsers}
  /\ OneEntryPerUser => \A k \in UsedUsers : Accounts[users[k].id] = users[k].mileage
BY AccountsOf DEF Accounts, UsedUsers, OneEntryPerUser

\* The same of the next state.
LEMMA AccountsValueNext ==
  /\ DOMAIN Accounts' = {users'[k].id : k \in UsedUsers'}
  /\ OneEntryPerUser' =>
       \A k \in UsedUsers' : Accounts'[users'[k].id] = users'[k].mileage
BY AccountsOf DEF Accounts, UsedUsers, OneEntryPerUser

\* Writes of intervals leave the accounts alone.
LEMMA SameTotals ==
  ASSUME OneEntryPerUser, UsedUsers' = UsedUsers,
         \A k \in UsedUsers : /\ users'[k].id = users[k].id
                             /\ users'[k].mileage = users[k].mileage
  PROVE  UNCHANGED Accounts
<1>1. OneEntryPerUser'
  BY SameIds
<1>2. DOMAIN Accounts' = DOMAIN Accounts
  BY AccountsValue, AccountsValueNext
<1>3. ASSUME NEW a \in DOMAIN Accounts PROVE Accounts'[a] = Accounts[a]
  <2>1. PICK k \in UsedUsers : users[k].id = a
    BY AccountsValue
  <2>2. Accounts[a] = users[k].mileage
    BY <2>1, AccountsValue
  <2>3. Accounts'[a] = users'[k].mileage
    BY <1>1, <2>1, AccountsValueNext
  <2> QED
    BY <2>2, <2>3
<1>4. Accounts = [a \in DOMAIN Accounts |-> Accounts[a]]
  BY DEF Accounts
<1>5. Accounts' = [a \in DOMAIN Accounts' |-> Accounts'[a]]
  BY DEF Accounts
<1> HIDE DEF Accounts
<1> QED
  BY <1>2, <1>3, <1>4, <1>5

\* The accounts after one more is appended.
LEMMA RangeAppend ==
  ASSUME NEW S, NEW s \in Seq(S), NEW x \in S
  PROVE  Range(Append(s, x)) = Range(s) \cup {x}
<1>1. /\ DOMAIN Append(s, x) = DOMAIN s \cup {Len(s) + 1}
      /\ \A i \in DOMAIN s : Append(s, x)[i] = s[i]
      /\ Append(s, x)[Len(s) + 1] = x /\ Len(s) + 1 \notin DOMAIN s
  OBVIOUS
<1> QED
  BY <1>1 DEF Range

\* A step of thread t leaves the others' part of the ledger alone.
LEMMA OthersInLedger ==
  ASSUME NEW t \in Threads,
         \A u \in Threads \ {t} : pc'[u] = pc[u] /\ outbox'[u] = outbox[u]
  PROVE  /\ calls' = [calls EXCEPT ![t] = CallOf(t)']
         /\ answers' = [answers EXCEPT ![t] = AnswerOf(t)']
<1>1. \A u \in Threads \ {t} : CallOf(u)' = CallOf(u) /\ AnswerOf(u)' = AnswerOf(u)
  BY DEF CallOf, AnswerOf
<1> QED
  BY <1>1 DEF calls, answers

\* What a thread has been served with, no other changes.
LEMMA OthersServed ==
  ASSUME LInv, NEW t \in Threads,
         lock = t \/ UNCHANGED <<userTable, adminTable>>,
         NEW u \in Threads \ {t}, pc'[u] = pc[u], cursor'[u] = cursor[u],
         req'[u] = req[u], outbox'[u] = outbox[u]
  PROVE  Served(u)'
<1>1. Served(u)
  BY DEF LInv
<1>2. CASE lock = t
  <2>1. pc[u] \notin Critical
    BY <1>2 DEF LInv, IInv, LockHeld
  <2>2. pc[u] # "list" /\ pc[u] # "find_admin"
    BY <2>1 DEF Critical
  <2> QED
    BY <1>1, <2>1, <2>2 DEF Served, Sent, Passed, Routed
<1>3. CASE UNCHANGED <<userTable, adminTable>>
  <2>1. UNCHANGED <<users, user_count, admins, admin_count>>
    BY <1>3 DEF userTable, adminTable
  <2>2. Sent(u)'
    BY <1>1, <2>1 DEF Served, Sent, UsedUsers
  <2>3. Passed(u)' /\ Routed(u)'
    BY <1>1, <2>1 DEF Served, Passed, Routed, UsedAdmins
  <2> QED
    BY <2>2, <2>3 DEF Served
<1> QED
  BY <1>2, <1>3

\* All that the steps between the lock and the unlock have in common.
LEMMA InsideLedger ==
  ASSUME LInv, NEW t \in Threads, NEW from \in Critical, NEW to \in Critical,
         NEW i \in Nat, Move(t, from, to, i), lock' = lock,
         \A u \in Threads \ {t} : outbox'[u] = outbox[u]
  PROVE  /\ pc[t] = from /\ pc'[t] = to /\ cursor'[t] = i /\ req' = req
         /\ req[t] \in Requests /\ lock = t /\ lock' = t /\ t # NoThread
         /\ Served(t) /\ \A u \in Threads \ {t} : Served(u)'
         /\ calls' = [calls EXCEPT ![t] = CallOf(t)']
         /\ answers' = [answers EXCEPT ![t] = AnswerOf(t)']
<1>1. TypeOK
  BY DEF LInv, IInv
<1>2. /\ pc[t] = from /\ pc'[t] = to /\ cursor'[t] = i /\ req' = req
      /\ \A u \in Threads \ {t} : pc'[u] = pc[u] /\ cursor'[u] = cursor[u]
  BY <1>1 DEF Move, TypeOK
<1>3. lock = t
  BY <1>2 DEF LInv, IInv, LockHeld
<1>4. req[t] \in Requests
  BY <1>2 DEF LInv, IInv, Found, Critical
<1>5. t # NoThread
  BY ThreadAssumption DEF ThreadAssumption
<1>6. \A u \in Threads \ {t} : Served(u)'
  BY <1>2, <1>3, OthersServed
<1>7. /\ calls' = [calls EXCEPT ![t] = CallOf(t)']
      /\ answers' = [answers EXCEPT ![t] = AnswerOf(t)']
  BY <1>2, OthersInLedger
<1>8. Served(t)
  BY DEF LInv
<1> QED
  BY <1>2, <1>3, <1>4, <1>5, <1>6, <1>7, <1>8

\* A step the ledger does not see.
LEMMA Unseen ==
  ASSUME NEW t \in Threads, UNCHANGED <<Accounts, AdminList, req>>,
         calls' = [calls EXCEPT ![t] = CallOf(t)'], CallOf(t)' = CallOf(t),
         answers' = [answers EXCEPT ![t] = AnswerOf(t)'], AnswerOf(t)' = AnswerOf(t)
  PROVE  LedgerStep
<1>1. calls' = calls /\ answers' = answers
  BY DEF calls, answers
<1> QED
  BY <1>1 DEF LedgerStep, Ledger!vars, calls, answers

\* The accounts depend on users[] alone.
LEMMA SameAccounts == UNCHANGED userTable => UNCHANGED Accounts
BY DEF userTable, Accounts, UsedUsers

\* Outside the loop of a deletion the list is what admins[] shows.
LEMMA AdminListIs ==
  ASSUME NEW t, lock \in {t, NoThread}, lock = t => pc[t] # "shift"
  PROVE  AdminList = [k \in UsedAdmins |-> admins[k]]
BY DEF AdminList

\* The list of administrators in the next state.
LEMMA AdminListIsNext ==
  ASSUME NEW t, lock' \in {t, NoThread}, lock' = t => pc'[t] # "shift"
  PROVE  AdminList' = [k \in UsedAdmins' |-> admins'[k]]
BY DEF AdminList

\* The list depends on admins[] and on who deletes in it.
LEMMA SameAdmins ==
  ASSUME NEW t, lock \in {t, NoThread}, lock' \in {t, NoThread},
         pc[t] # "shift", pc'[t] # "shift", UNCHANGED adminTable
  PROVE  UNCHANGED AdminList
BY DEF AdminList, adminTable, UsedAdmins

-----------------------------------------------------------------------------
\* The call of the ledger.
LEMMA CallInLedger ==
  ASSUME LInv, NEW t \in Threads, NEW r \in Requests, Call(t, r)
  PROVE  LedgerStep /\ \A u \in Threads : Served(u)'
<1>1. /\ pc[t] = "idle" /\ pc'[t] = "lock" /\ req' = [req EXCEPT ![t] = r]
      /\ \A u \in Threads \ {t} : pc'[u] = pc[u] /\ req'[u] = req[u]
      /\ UNCHANGED <<userTable, adminTable, lock, cursor, outbox>>
  BY DEF Call, LInv, IInv, TypeOK
<1>2. /\ calls' = [calls EXCEPT ![t] = CallOf(t)']
      /\ answers' = [answers EXCEPT ![t] = AnswerOf(t)']
  BY <1>1, OthersInLedger
<1>3. UNCHANGED Accounts
  BY <1>1, SameAccounts
<1>4. UNCHANGED AdminList
  <2>1. lock # t
    BY <1>1 DEF LInv, IInv, LockHeld, Critical
  <2>2. lock # NoThread => pc'[lock] = pc[lock]
    BY <1>1, <2>1 DEF LInv, IInv, TypeOK
  <2> QED
    BY <1>1, <2>2 DEF AdminList, adminTable, UsedAdmins
<1>5. AnswerOf(t)' = AnswerOf(t)
  BY <1>1 DEF AnswerOf
<1>6. Ledger!Begin(t, r)
  <2>1. answers' = answers
    BY <1>2, <1>5 DEF answers
  <2>2. calls[t] = "idle" /\ calls' = [calls EXCEPT ![t] = "pending"]
    BY <1>1, <1>2 DEF calls, CallOf
  <2> QED
    BY <1>1, <1>3, <1>4, <2>1, <2>2 DEF Ledger!Begin, calls, answers
<1>7. Served(t)'
  <2>1. outbox[t] = <<>>
    BY <1>1 DEF LInv, Served, Sent
  <2> QED
    BY <1>1, <2>1 DEF Served, Sent, Passed, Routed, Critical
<1>8. \A u \in Threads \ {t} : Served(u)'
  BY <1>1, OthersServed
<1> QED
  BY <1>6, <1>7, <1>8 DEF LedgerStep, Ledger!Next

\* A request of no known type is done when its thread has got the mutex.
LEMMA LockInLedger ==
  ASSUME LInv, NEW t \in Threads, Lock(t)
  PROVE  LedgerStep /\ \A u \in Threads : Served(u)'
<1> DEFINE to == Entry[req[t].op]
<1>1. req[t] \in Requests /\ req[t].op \in Ops
  BY RequestType DEF LInv, IInv, Found, Lock, Move
<1>2. /\ to \in Critical /\ to \notin {"shift", "done"}
      /\ to = "unlock" <=> req[t].op = "no_such_type"
      /\ to # "unlock" => req[t].op \in OpsAt[to]
  BY <1>1 DEF Ops, Entry, Critical, OpsAt
<1>3. Move(t, "lock", to, 0)
  BY DEF Lock
<1> HIDE DEF to
<1>4. /\ pc[t] = "lock" /\ pc'[t] = to /\ cursor'[t] = 0 /\ req' = req
      /\ \A u \in Threads \ {t} : pc'[u] = pc[u] /\ cursor'[u] = cursor[u]
  BY <1>3 DEF Move, LInv, IInv, TypeOK
<1>5. lock = NoThread /\ lock' = t /\ UNCHANGED <<userTable, adminTable, outbox>>
  BY DEF Lock
<1>6. /\ calls' = [calls EXCEPT ![t] = CallOf(t)']
      /\ answers' = [answers EXCEPT ![t] = AnswerOf(t)']
  BY <1>4, <1>5, OthersInLedger
<1>7. UNCHANGED <<Accounts, AdminList>>
  <2>1. UNCHANGED AdminList
    BY <1>2, <1>4, <1>5, ThreadAssumption
    DEF ThreadAssumption, AdminList, adminTable, UsedAdmins
  <2> QED
    BY <1>5, <2>1, SameAccounts
<1>8. Served(t)' /\ AnswerOf(t)' = AnswerOf(t)
  <2>1. outbox[t] = <<>> /\ outbox'[t] = <<>>
    BY <1>4, <1>5 DEF LInv, Served, Sent
  <2>2. cursor'[t] = 0 /\ UsedUsers' = UsedUsers /\ UsedAdmins' = UsedAdmins
    BY <1>4, <1>5 DEF UsedUsers, UsedAdmins, userTable, adminTable
  <2>3. Range(outbox'[t]) = {} /\ Range(outbox[t]) = {}
    BY <2>1 DEF Range
  <2>4. Sent(t)'
    BY <2>1, <2>2, <2>3 DEF Sent, UsedUsers
  <2>5. Passed(t)' /\ Routed(t)'
    BY <1>2, <1>4, <2>2 DEF Passed, Routed, UsedAdmins
  <2> QED
    BY <1>4, <2>3, <2>4, <2>5 DEF Served, AnswerOf
<1>9. \A u \in Threads \ {t} : Served(u)'
  BY <1>4, <1>5, OthersServed
<1>10. LedgerStep
  <2>1. CASE to # "unlock"
    <3>1. CallOf(t)' = CallOf(t)
      BY <1>2, <1>4, <2>1 DEF CallOf, Critical
    <3> QED
      BY <1>4, <1>6, <1>7, <1>8, <3>1, Unseen
  <2>2. CASE to = "unlock"
    <3>1. answers' = answers /\ req[t].op = "no_such_type"
      BY <1>2, <1>6, <1>8, <2>2 DEF answers
    <3>2. calls[t] = "pending" /\ calls' = [calls EXCEPT ![t] = "done"]
      BY <1>4, <1>6, <2>2 DEF calls, CallOf
    <3>3. Ledger!Ignore(t)
      BY <1>4, <1>7, <3>1, <3>2 DEF Ledger!Ignore, Ledger!Finish, calls, answers
    <3> QED
      BY <3>3 DEF LedgerStep, Ledger!Next, Ledger!Serve
  <2> QED
    BY <2>1, <2>2
<1> QED
  BY <1>8, <1>9, <1>10

\* The answer of the ledger.
LEMMA UnlockInLedger ==
  ASSUME LInv, NEW t \in Threads, Unlock(t)
  PROVE  LedgerStep /\ \A u \in Threads : Served(u)'
<1>1. /\ pc[t] = "unlock" /\ pc'[t] = "done" /\ req' = req
      /\ \A u \in Threads \ {t} : pc'[u] = pc[u] /\ cursor'[u] = cursor[u]
      /\ lock' = NoThread /\ UNCHANGED <<userTable, adminTable, outbox>>
  BY DEF Unlock, Move, LInv, IInv, TypeOK
<1>2. lock = t
  BY <1>1 DEF LInv, IInv, LockHeld, Critical
<1>3. UNCHANGED <<Accounts, AdminList>>
  BY <1>1, <1>2, SameAccounts DEF AdminList, adminTable, UsedAdmins
<1>4. /\ calls' = [calls EXCEPT ![t] = CallOf(t)']
      /\ answers' = [answers EXCEPT ![t] = AnswerOf(t)']
  BY <1>1, OthersInLedger
<1>5. CallOf(t)' = CallOf(t) /\ AnswerOf(t)' = AnswerOf(t)
  BY <1>1 DEF CallOf, AnswerOf
<1>6. Served(t)'
  BY <1>1 DEF Served, Sent, Passed, Routed, Critical
<1>7. \A u \in Threads \ {t} : Served(u)'
  BY <1>1, <1>2, OthersServed
<1> QED
  BY <1>1, <1>3, <1>4, <1>5, <1>6, <1>7, Unseen

-----------------------------------------------------------------------------
\* A query that finds no entry is answered with nothing.
LEMMA FindUserInLedger ==
  ASSUME LInv, NEW t \in Threads, FindUser(t)
  PROVE  LedgerStep /\ \A u \in Threads : Served(u)'
<1> DEFINE saving == req[t].op = "save"
           found  == IF saving THEN "interval" ELSE "reply"
           missed == IF saving THEN "append" ELSE "unlock"
<1>1. cursor[t] \in Nat /\ cursor[t] + 1 \in Nat /\ user_count \in Nat
  BY DEF LInv, IInv, TypeOK
<1>2. PICK to \in {"find", found, missed}, i \in Nat :
        /\ Move(t, "find", to, i)
        /\ to = "unlock" => cursor[t] >= user_count
  BY <1>1 DEF FindUser, Scan
<1>3. UNCHANGED <<userTable, adminTable, lock, outbox>>
  BY DEF FindUser, Scan
<1>4. {"find", found, missed} \subseteq Critical
  BY DEF Critical
<1>5. /\ pc[t] = "find" /\ pc'[t] = to /\ req' = req
      /\ lock = t /\ lock' = t /\ t # NoThread
      /\ Served(t) /\ \A u \in Threads \ {t} : Served(u)'
      /\ calls' = [calls EXCEPT ![t] = CallOf(t)']
      /\ answers' = [answers EXCEPT ![t] = AnswerOf(t)']
  <2>1. "find" \in Critical /\ to \in Critical /\ lock' = lock
        /\ \A u \in Threads \ {t} : outbox'[u] = outbox[u]
    BY <1>2, <1>3, <1>4 DEF Critical
  <2> HIDE DEF found, missed
  <2> QED
    BY <1>2, <2>1, InsideLedger
<1>6. outbox[t] = <<>> /\ outbox'[t] = <<>> /\ req[t].op \in {"save", "query"}
  BY <1>3, <1>5 DEF Served, Sent, Routed, Critical, OpsAt
<1>7. /\ to \in {"find", "interval", "reply", "append", "unlock"}
      /\ to \in {"interval", "append"} => req[t].op = "save"
      /\ to \in {"reply", "unlock"} => req[t].op = "query"
  BY <1>2, <1>6
<1>8. UNCHANGED <<Accounts, AdminList>>
  <2>1. UNCHANGED AdminList
    BY <1>3, <1>5, <1>7, SameAdmins
  <2> QED
    BY <1>3, <2>1, SameAccounts
<1>9. Served(t)'
  BY <1>5, <1>6, <1>7 DEF Served, Sent, Passed, Routed, OpsAt
<1>10. AnswerOf(t) = {} /\ AnswerOf(t)' = {}
  <2>1. Range(outbox[t]) = {} /\ Range(outbox'[t]) = {}
    BY <1>6 DEF Range
  <2> QED
    BY <2>1 DEF AnswerOf
<1>11. CASE to # "unlock"
  <2>1. CallOf(t)' = CallOf(t)
    BY <1>5, <1>7, <1>11 DEF CallOf
  <2> QED
    BY <1>5, <1>8, <1>9, <1>10, <2>1, Unseen
<1>12. CASE to = "unlock"
  <2>1. \A k \in UsedUsers : users[k].id # req[t].id
    BY <1>1, <1>2, <1>5, <1>12 DEF LInv, IInv, Found, UsedUsers
  <2>2. DOMAIN Accounts \cap {req[t].id} = {}
    BY <2>1, AccountsValue
  <2>3. calls[t] = "pending" /\ calls' = [calls EXCEPT ![t] = "done"]
    BY <1>5, <1>12 DEF calls, CallOf
  <2>4. answers' = [answers EXCEPT ![t] =
                      {Ledger!Account(a) : a \in DOMAIN Accounts \cap {req[t].id}}]
    BY <1>5, <1>10, <2>2
  <2>5. Ledger!Query(t)
    BY <1>5, <1>7, <1>8, <1>12, <2>3, <2>4
    DEF Ledger!Query, Ledger!Finish, calls, answers
  <2>6. LedgerStep
    BY <2>5 DEF LedgerStep, Ledger!Next, Ledger!Serve
  <2> QED
    BY <1>5, <1>9, <2>6
<1> QED
  BY <1>11, <1>12

\* An interval, which the ledger has none of.
LEMMA RecordIntervalInLedger ==
  ASSUME LInv, NEW t \in Threads, RecordInterval(t)
  PROVE  LedgerStep /\ \A u \in Threads : Served(u)'
<1>1. /\ Move(t, "interval", "credit", cursor[t])
      /\ UNCHANGED <<user_count, adminTable, lock, outbox>>
  BY DEF RecordInterval
<1>2. /\ pc[t] = "interval" /\ pc'[t] = "credit" /\ req' = req
      /\ lock = t /\ lock' = t /\ t # NoThread
      /\ Served(t) /\ \A u \in Threads \ {t} : Served(u)'
      /\ calls' = [calls EXCEPT ![t] = CallOf(t)']
      /\ answers' = [answers EXCEPT ![t] = AnswerOf(t)']
  <2>1. "interval" \in Critical /\ "credit" \in Critical /\ cursor[t] \in Nat
        /\ lock' = lock /\ \A u \in Threads \ {t} : outbox'[u] = outbox[u]
    BY <1>1 DEF Critical, LInv, IInv, TypeOK
  <2> QED
    BY <1>1, <2>1, InsideLedger
<1>3. /\ UsedUsers' = UsedUsers
      /\ \A k \in UsedUsers : /\ users'[k].id = users[k].id
                              /\ users'[k].mileage = users[k].mileage
  <2>1. /\ users \in [UserSlots -> User] /\ UsedUsers \subseteq UserSlots
        /\ UsedUsers' = UsedUsers
    BY <1>1, DataAssumption
    DEF DataAssumption, LInv, IInv, TypeOK, UsedUsers, UserSlots
  <2>2. ASSUME NEW j \in IntervalSlots,
               users' = [users EXCEPT ![cursor[t]].intervals[j] = Session(t)]
        PROVE  \A k \in UsedUsers : /\ users'[k].id = users[k].id
                                    /\ users'[k].mileage = users[k].mileage
    BY <2>1, <2>2 DEF User
  <2> QED
    BY <2>1, <2>2 DEF RecordInterval
<1>4. UNCHANGED Accounts
  BY <1>3, SameTotals DEF LInv, IInv
<1>5. UNCHANGED AdminList
  BY <1>1, <1>2, SameAdmins
<1>6. Served(t)' /\ AnswerOf(t)' = AnswerOf(t) /\ CallOf(t)' = CallOf(t)
  BY <1>1, <1>2 DEF Served, Sent, Passed, Routed, OpsAt, Critical, AnswerOf, CallOf
<1> QED
  BY <1>2, <1>4, <1>5, <1>6, Unseen

\* Accounts changes as Credit says if the entries do.
LEMMA CreditIs ==
  ASSUME NEW id, NEW points,
         DOMAIN Accounts' = DOMAIN Accounts \cup {id},
         \A a \in DOMAIN Accounts' :
           Accounts'[a] = (IF a \in DOMAIN Accounts THEN Accounts[a] ELSE 0)
                            + (IF a = id THEN points ELSE 0)
  PROVE  Accounts' = Ledger!Credit(id, points)
<1>1. Accounts' = [a \in DOMAIN Accounts' |-> Accounts'[a]]
  BY DEF Accounts
<1> QED
  BY <1>1 DEF Ledger!Credit

\* The credit, and with it the effect of a save.
LEMMA CreditMileageInLedger ==
  ASSUME LInv, NEW t \in Threads, CreditMileage(t)
  PROVE  LedgerStep /\ \A u \in Threads : Served(u)'
<1> DEFINE c == cursor[t]
<1>1. /\ Move(t, "credit", "unlock", c)
      /\ UNCHANGED <<user_count, adminTable, lock, outbox>>
      /\ users' = [users EXCEPT ![c].mileage = @ + Earned(t)]
  BY DEF CreditMileage
<1>2. /\ pc[t] = "credit" /\ pc'[t] = "unlock" /\ req' = req
      /\ req[t] \in Requests /\ lock = t /\ lock' = t /\ t # NoThread
      /\ Served(t) /\ \A u \in Threads \ {t} : Served(u)'
      /\ calls' = [calls EXCEPT ![t] = CallOf(t)']
      /\ answers' = [answers EXCEPT ![t] = AnswerOf(t)']
  <2>1. "credit" \in Critical /\ "unlock" \in Critical /\ cursor[t] \in Nat
        /\ lock' = lock /\ \A u \in Threads \ {t} : outbox'[u] = outbox[u]
    BY <1>1 DEF Critical, LInv, IInv, TypeOK
  <2> QED
    BY <1>1, <2>1, InsideLedger
<1>3. c \in UsedUsers /\ users[c].id = req[t].id
  BY <1>2 DEF LInv, IInv, Found
<1>4. Earned(t) \in Int
  BY <1>2, RequestType DEF Earned
<1>5. /\ UsedUsers' = UsedUsers
      /\ \A k \in UsedUsers :
           /\ users[k].mileage \in Int /\ users'[k].id = users[k].id
           /\ users'[k].mileage = users[k].mileage + (IF k = c THEN Earned(t) ELSE 0)
  <2>1. /\ users \in [UserSlots -> User] /\ UsedUsers \subseteq UserSlots
        /\ UsedUsers' = UsedUsers
    BY <1>1, DataAssumption
    DEF DataAssumption, LInv, IInv, TypeOK, UsedUsers, UserSlots
  <2> QED
    BY <1>1, <1>4, <2>1 DEF User
<1>6. Accounts' = Ledger!Credit(req[t].id, Earned(t))
  <2>1. OneEntryPerUser /\ OneEntryPerUser'
    BY <1>5, SameIds DEF LInv, IInv
  <2>2. /\ DOMAIN Accounts' = DOMAIN Accounts
        /\ req[t].id \in DOMAIN Accounts
    BY <1>3, <1>5, AccountsValue, AccountsValueNext
  <2>3. ASSUME NEW a \in DOMAIN Accounts
        PROVE  Accounts'[a] = Accounts[a] + (IF a = req[t].id THEN Earned(t) ELSE 0)
    <3>1. PICK k \in UsedUsers : users[k].id = a
      BY AccountsValue
    <3>2. Accounts[a] = users[k].mileage
      BY <2>1, <3>1, AccountsValue
    <3>3. Accounts'[a] = users'[k].mileage
      BY <1>5, <2>1, <3>1, AccountsValueNext
    <3>4. k = c <=> a = req[t].id
      BY <1>3, <2>1, <3>1 DEF OneEntryPerUser
    <3> QED
      BY <1>5, <3>2, <3>3, <3>4
  <2> QED
    BY <2>2, <2>3, CreditIs
<1>7. UNCHANGED AdminList
  BY <1>1, <1>2, SameAdmins
<1>8. req[t].op = "save" /\ outbox[t] = <<>>
  BY <1>2 DEF Served, Sent, Routed, OpsAt, Critical
<1>9. Served(t)'
  BY <1>2 DEF Served, Sent, Passed, Routed, Critical
<1>10. LedgerStep
  <2>1. calls[t] = "pending" /\ calls' = [calls EXCEPT ![t] = "done"]
    BY <1>2 DEF calls, CallOf
  <2>2. answers' = answers
    BY <1>1, <1>2 DEF answers, AnswerOf
  <2>3. Earned(t) = Ledger!calculate_mileage(req[t].start, req[t].end)
    BY DEF Earned, calculate_mileage, Ledger!calculate_mileage
  <2>4. Ledger!Save(t)
    BY <1>2, <1>6, <1>7, <1>8, <2>1, <2>2, <2>3
    DEF Ledger!Save, Ledger!Finish, calls, answers
  <2> QED
    BY <2>4 DEF LedgerStep, Ledger!Next, Ledger!Serve
<1> QED
  BY <1>2, <1>9, <1>10

\* A new user.
LEMMA AppendUserInLedger ==
  ASSUME LInv, NEW t \in Threads, AppendUser(t)
  PROVE  LedgerStep /\ \A u \in Threads : Served(u)'
<1>1. /\ user_count < MAX_USERS /\ user_count' = user_count + 1
      /\ Move(t, "append", "unlock", cursor[t])
      /\ UNCHANGED <<adminTable, lock, outbox>>
  BY DEF AppendUser
<1>2. /\ pc[t] = "append" /\ pc'[t] = "unlock" /\ req' = req
      /\ req[t] \in Requests /\ lock = t /\ lock' = t /\ t # NoThread
      /\ Served(t) /\ \A u \in Threads \ {t} : Served(u)'
      /\ calls' = [calls EXCEPT ![t] = CallOf(t)']
      /\ answers' = [answers EXCEPT ![t] = AnswerOf(t)']
  <2>1. "append" \in Critical /\ "unlock" \in Critical /\ cursor[t] \in Nat
        /\ lock' = lock /\ \A u \in Threads \ {t} : outbox'[u] = outbox[u]
    BY <1>1 DEF Critical, LInv, IInv, TypeOK
  <2> QED
    BY <1>1, <2>1, InsideLedger
<1>3. \A k \in UsedUsers : users[k].id # req[t].id
  BY <1>2 DEF LInv, IInv, Found
<1>4. Earned(t) \in Int
  BY <1>2, RequestType DEF Earned
<1>5. /\ UsedUsers' = UsedUsers \cup {user_count} /\ user_count \notin UsedUsers
      /\ users'[user_count].id = req[t].id /\ users'[user_count].mileage = Earned(t)
      /\ \A k \in UsedUsers : users[k].mileage \in Int /\ users'[k] = users[k]
  <2>1. /\ users \in [UserSlots -> User] /\ UsedUsers \subseteq UserSlots
        /\ user_count \in UserSlots /\ user_count \in Nat
    BY <1>1, DataAssumption
    DEF DataAssumption, LInv, IInv, TypeOK, UsedUsers, UserSlots
  <2>2. UsedUsers' = UsedUsers \cup {user_count} /\ user_count \notin UsedUsers
    BY <1>1, <2>1 DEF UsedUsers
  <2>3. PICK e : e.id = req[t].id /\ e.mileage = Earned(t)
                 /\ users' = [users EXCEPT ![user_count] = e]
    BY DEF AppendUser, NewUser
  <2> QED
    BY <2>1, <2>2, <2>3 DEF User
<1>6. Accounts' = Ledger!Credit(req[t].id, Earned(t))
  <2>1. OneEntryPerUser /\ OneEntryPerUser'
    BY AppendUserKeeps DEF LInv, IInv
  <2>2. /\ DOMAIN Accounts' = DOMAIN Accounts \cup {req[t].id}
        /\ req[t].id \notin DOMAIN Accounts
    BY <1>3, <1>5, AccountsValue, AccountsValueNext
  <2>3. Accounts'[req[t].id] = Earned(t)
    BY <1>5, <2>1, AccountsValueNext
  <2>4. ASSUME NEW a \in DOMAIN Accounts
        PROVE  Accounts'[a] = Accounts[a] /\ Accounts[a] \in Int
    <3>1. PICK k \in UsedUsers : users[k].id = a
      BY AccountsValue
    <3>2. Accounts[a] = users[k].mileage
      BY <2>1, <3>1, AccountsValue
    <3>3. Accounts'[a] = users'[k].mileage
      BY <1>5, <2>1, <3>1, AccountsValueNext
    <3> QED
      BY <1>5, <3>1, <3>2, <3>3
  <2> QED
    BY <1>4, <2>2, <2>3, <2>4, CreditIs
<1>7. UNCHANGED AdminList
  BY <1>1, <1>2, SameAdmins
<1>8. req[t].op = "save" /\ outbox[t] = <<>>
  BY <1>2 DEF Served, Sent, Routed, OpsAt, Critical
<1>9. Served(t)'
  BY <1>2 DEF Served, Sent, Passed, Routed, Critical
<1>10. LedgerStep
  <2>1. calls[t] = "pending" /\ calls' = [calls EXCEPT ![t] = "done"]
    BY <1>2 DEF calls, CallOf
  <2>2. answers' = answers
    BY <1>1, <1>2 DEF answers, AnswerOf
  <2>3. Earned(t) = Ledger!calculate_mileage(req[t].start, req[t].end)
    BY DEF Earned, calculate_mileage, Ledger!calculate_mileage
  <2>4. Ledger!Save(t)
    BY <1>2, <1>6, <1>7, <1>8, <2>1, <2>2, <2>3
    DEF Ledger!Save, Ledger!Finish, calls, answers
  <2> QED
    BY <2>4 DEF LedgerStep, Ledger!Next, Ledger!Serve
<1> QED
  BY <1>2, <1>9, <1>10

\* What a thread sent is seen in the ledger as the accounts of the entries.
LEMMA AnswerIs ==
  ASSUME OneEntryPerUser, NEW ks \in SUBSET UsedUsers
  PROVE  {[id |-> u.id, mileage |-> u.mileage] : u \in {users[k] : k \in ks}}
           = {Ledger!Account(a) : a \in {users[k].id : k \in ks}}
<1>1. \A k \in ks : [id |-> users[k].id, mileage |-> users[k].mileage]
                      = Ledger!Account(users[k].id)
  BY AccountsValue DEF Ledger!Account
<1> QED
  BY <1>1

\* The effect of a query.
LEMMA SendUserInLedger ==
  ASSUME LInv, NEW t \in Threads, SendUser(t)
  PROVE  LedgerStep /\ \A u \in Threads : Served(u)'
<1> DEFINE c == cursor[t]
<1>1. /\ Move(t, "reply", "unlock", c) /\ Send(t, users[c])
      /\ UNCHANGED <<userTable, adminTable, lock>>
  BY DEF SendUser, Send
<1>2. /\ pc[t] = "reply" /\ pc'[t] = "unlock" /\ req' = req
      /\ lock = t /\ lock' = t /\ t # NoThread
      /\ Served(t) /\ \A u \in Threads \ {t} : Served(u)'
      /\ calls' = [calls EXCEPT ![t] = CallOf(t)']
      /\ answers' = [answers EXCEPT ![t] = AnswerOf(t)']
  <2>1. "reply" \in Critical /\ "unlock" \in Critical /\ cursor[t] \in Nat
        /\ lock' = lock /\ \A u \in Threads \ {t} : outbox'[u] = outbox[u]
    BY <1>1 DEF Critical, LInv, IInv, TypeOK, Send
  <2> QED
    BY <1>1, <2>1, InsideLedger
<1>3. c \in UsedUsers /\ users[c].id = req[t].id /\ users[c] \in User
  BY <1>2, DataAssumption DEF DataAssumption, LInv, IInv, Found, TypeOK, UsedUsers, UserSlots
<1>4. req[t].op = "query" /\ outbox[t] = <<>>
  BY <1>2 DEF Served, Sent, Routed, OpsAt, Critical
<1>5. UNCHANGED <<Accounts, AdminList>>
  BY <1>1, <1>2, SameAccounts, SameAdmins
<1>6. AnswerOf(t)' = {Ledger!Account(a) : a \in DOMAIN Accounts \cap {req[t].id}}
  <2>1. outbox'[t] = Append(<<>>, users[c])
    BY <1>1, <1>4 DEF Send, LInv, IInv, TypeOK
  <2>2. Range(outbox'[t]) = {users[k] : k \in {c}}
    BY <2>1 DEF Range
  <2>3. DOMAIN Accounts \cap {req[t].id} = {users[k].id : k \in {c}}
    BY <1>3, AccountsValue
  <2>4. AnswerOf(t)' = {[id |-> u.id, mileage |-> u.mileage] :
                          u \in {users[k] : k \in {c}}}
    BY <1>2, <2>2 DEF AnswerOf
  <2>5. {c} \in SUBSET UsedUsers /\ OneEntryPerUser
    BY <1>3 DEF LInv, IInv
  <2> QED
    BY <2>3, <2>4, <2>5, AnswerIs
<1>7. Served(t)'
  BY <1>2 DEF Served, Sent, Passed, Routed, Critical
<1>8. LedgerStep
  <2>1. calls[t] = "pending" /\ calls' = [calls EXCEPT ![t] = "done"]
    BY <1>2 DEF calls, CallOf
  <2>2. Ledger!Query(t)
    BY <1>2, <1>4, <1>5, <1>6, <2>1 DEF Ledger!Query, Ledger!Finish, calls, answers
  <2> QED
    BY <2>2 DEF LedgerStep, Ledger!Next, Ledger!Serve
<1> QED
  BY <1>2, <1>7, <1>8

\* One round of the list, or its end, when all entries have been sent.
LEMMA ListUsersInLedger ==
  ASSUME LInv, NEW t \in Threads, ListUsers(t)
  PROVE  LedgerStep /\ \A u \in Threads : Served(u)'
<1> DEFINE c == cursor[t]
           Upto(i) == {users[k] : k \in {j \in UsedUsers : j < i}}
<1>1. c \in Nat /\ c + 1 \in Nat /\ user_count \in Nat
  BY DEF LInv, IInv, TypeOK
<1>2. UNCHANGED <<userTable, adminTable, lock>>
  BY DEF ListUsers, Send
<1>3. PICK to \in {"list", "unlock"}, i \in Nat :
        /\ Move(t, "list", to, i)
        /\ \/ to = "list" /\ i = c + 1 /\ c < user_count /\ Send(t, users[c])
           \/ to = "unlock" /\ c >= user_count /\ UNCHANGED outbox
  BY <1>1 DEF ListUsers
<1>4. /\ pc[t] = "list" /\ pc'[t] = to /\ cursor'[t] = i /\ req' = req
      /\ lock = t /\ lock' = t /\ t # NoThread
      /\ Served(t) /\ \A u \in Threads \ {t} : Served(u)'
      /\ calls' = [calls EXCEPT ![t] = CallOf(t)']
      /\ answers' = [answers EXCEPT ![t] = AnswerOf(t)']
  <2>1. "list" \in Critical /\ to \in Critical /\ lock' = lock
        /\ \A u \in Threads \ {t} : outbox'[u] = outbox[u]
    BY <1>2, <1>3 DEF Critical, Send, LInv, IInv, TypeOK
  <2> QED
    BY <1>3, <2>1, InsideLedger
<1>5. Range(outbox[t]) = Upto(c) /\ req[t].op = "list"
  BY <1>4 DEF Served, Sent, Routed, OpsAt, Critical
<1>6. UNCHANGED <<Accounts, AdminList>>
  BY <1>2, <1>4, SameAccounts, SameAdmins
<1>7. AnswerOf(t) = {}
  BY <1>4 DEF AnswerOf
<1>8. CASE to = "list"
  <2>1. outbox'[t] = Append(outbox[t], users[c]) /\ outbox[t] \in Seq(User)
    BY <1>3, <1>8 DEF Send, LInv, IInv, TypeOK
  <2>2. c \in UsedUsers /\ users[c] \in User
    BY <1>1, <1>3, <1>8, DataAssumption
    DEF DataAssumption, LInv, IInv, TypeOK, UsedUsers, UserSlots
  <2>3. Range(outbox'[t]) = Upto(c) \cup {users[c]}
    BY <1>5, <2>1, <2>2, RangeAppend
  <2>4. Upto(c) \cup {users[c]} = Upto(c + 1)
    BY <1>1, <2>2 DEF UsedUsers
  <2>5. users' = users /\ UsedUsers' = UsedUsers
    BY <1>2 DEF userTable, UsedUsers
  <2>6. Sent(t)'
    BY <1>3, <1>4, <1>8, <2>3, <2>4, <2>5 DEF Sent
  <2>7. Served(t)'
    BY <1>4, <1>5, <1>8, <2>6 DEF Served, Passed, Routed, OpsAt
  <2>8. AnswerOf(t)' = AnswerOf(t) /\ CallOf(t)' = CallOf(t)
    BY <1>4, <1>7, <1>8 DEF AnswerOf, CallOf
  <2> QED
    BY <1>4, <1>6, <2>7, <2>8, Unseen
<1>9. CASE to = "unlock"
  <2>1. Upto(c) = {users[k] : k \in UsedUsers}
    BY <1>1, <1>3, <1>9 DEF UsedUsers
  <2>2. AnswerOf(t)' = {[id |-> u.id, mileage |-> u.mileage] :
                          u \in {users[k] : k \in UsedUsers}}
    BY <1>3, <1>4, <1>5, <1>9, <2>1 DEF AnswerOf
  <2>3. AnswerOf(t)' = {Ledger!Account(a) : a \in DOMAIN Accounts}
    BY <2>2, AnswerIs, AccountsValue DEF LInv, IInv
  <2>4. calls[t] = "pending" /\ calls' = [calls EXCEPT ![t] = "done"]
    BY <1>4, <1>9 DEF calls, CallOf
  <2>5. Ledger!List(t)
    BY <1>4, <1>5, <1>6, <2>3, <2>4 DEF Ledger!List, Ledger!Finish, calls, answers
  <2>6. LedgerStep
    BY <2>5 DEF LedgerStep, Ledger!Next, Ledger!Serve
  <2>7. Served(t)'
    BY <1>4, <1>9 DEF Served, Sent, Passed, Routed, Critical
  <2> QED
    BY <1>4, <2>6, <2>7
<1> QED
  BY <1>8, <1>9

-----------------------------------------------------------------------------
\* A new administrator.
LEMMA AddAdminInLedger ==
  ASSUME LInv, NEW t \in Threads, AddAdmin(t)
  PROVE  LedgerStep /\ \A u \in Threads : Served(u)'
<1>1. /\ Move(t, "add", "unlock", cursor[t])
      /\ UNCHANGED <<userTable, lock, outbox>>
  BY DEF AddAdmin
<1>2. /\ pc[t] = "add" /\ pc'[t] = "unlock" /\ req' = req
      /\ lock = t /\ lock' = t /\ t # NoThread
      /\ Served(t) /\ \A u \in Threads \ {t} : Served(u)'
      /\ calls' = [calls EXCEPT ![t] = CallOf(t)']
      /\ answers' = [answers EXCEPT ![t] = AnswerOf(t)']
  <2>1. "add" \in Critical /\ "unlock" \in Critical /\ cursor[t] \in Nat
        /\ lock' = lock /\ \A u \in Threads \ {t} : outbox'[u] = outbox[u]
    BY <1>1 DEF Critical, LInv, IInv, TypeOK
  <2> QED
    BY <1>1, <2>1, InsideLedger
<1>3. /\ admins \in [AdminSlots -> Ids \cup {NoId}] /\ admin_count \in Nat
      /\ admin_count <= MAX_ADMINS /\ MAX_ADMINS \in Nat
  BY DataAssumption DEF DataAssumption, LInv, IInv, TypeOK
<1>4. /\ AdminList = [k \in UsedAdmins |-> admins[k]]
      /\ AdminList' = [k \in UsedAdmins' |-> admins'[k]]
  BY <1>2, AdminListIs, AdminListIsNext
<1>5. \/ \E n \in 0 .. MAX_ADMINS - 1 :
           /\ DOMAIN AdminList = 0 .. n - 1
           /\ AdminList' = [k \in 0 .. n |->
                              IF k = n THEN req[t].id ELSE AdminList[k]]
      \/ DOMAIN AdminList = AdminSlots /\ UNCHANGED AdminList
  <2>1. CASE /\ admin_count < MAX_ADMINS
             /\ admins' = [admins EXCEPT ![admin_count] = req[t].id]
             /\ admin_count' = admin_count + 1
    <3>1. UsedAdmins' = 0 .. admin_count /\ UsedAdmins = 0 .. admin_count - 1
      BY <1>3, <2>1 DEF UsedAdmins
    <3>2. /\ admins'[admin_count] = req[t].id
          /\ \A k \in UsedAdmins : admins'[k] = admins[k] /\ k # admin_count
      BY <1>3, <2>1, <3>1 DEF AdminSlots
    <3>3. AdminList' = [k \in 0 .. admin_count |->
                          IF k = admin_count THEN req[t].id ELSE AdminList[k]]
      BY <1>3, <1>4, <3>1, <3>2
    <3> QED
      BY <1>3, <1>4, <2>1, <3>1, <3>3
  <2>2. CASE admin_count >= MAX_ADMINS /\ UNCHANGED adminTable
    <3>1. UsedAdmins = AdminSlots
      BY <1>3, <2>2 DEF UsedAdmins, AdminSlots
    <3> QED
      BY <1>4, <2>2, <3>1 DEF adminTable, UsedAdmins
  <2> QED
    BY <2>1, <2>2 DEF AddAdmin
<1>6. UNCHANGED Accounts
  BY <1>1, SameAccounts
<1>7. req[t].op = "add_admin" /\ outbox[t] = <<>>
  BY <1>2 DEF Served, Sent, Routed, OpsAt, Critical
<1>8. Served(t)'
  BY <1>2 DEF Served, Sent, Passed, Routed, Critical
<1>9. LedgerStep
  <2>1. calls[t] = "pending" /\ calls' = [calls EXCEPT ![t] = "done"]
    BY <1>2 DEF calls, CallOf
  <2>2. answers' = answers
    BY <1>1, <1>2 DEF answers, AnswerOf
  <2>3. AdminSlots = Ledger!AdminSlots
    BY DEF AdminSlots, Ledger!AdminSlots
  <2>4. Ledger!AddAdmin(t)
    BY <1>2, <1>5, <1>6, <1>7, <2>1, <2>2, <2>3
    DEF Ledger!AddAdmin, Ledger!Finish, calls, answers
  <2> QED
    BY <2>4 DEF LedgerStep, Ledger!Next, Ledger!Serve
<1> QED
  BY <1>2, <1>8, <1>9

\* A deletion counts when the entry is found, or when none is.
LEMMA FindAdminInLedger ==
  ASSUME LInv, NEW t \in Threads, FindAdmin(t)
  PROVE  LedgerStep /\ \A u \in Threads : Served(u)'
<1> DEFINE c == cursor[t]
<1>1. /\ c \in Nat /\ c + 1 \in Nat /\ admin_count \in Nat
      /\ admin_count <= MAX_ADMINS /\ MAX_ADMINS \in Nat
  BY DataAssumption DEF DataAssumption, LInv, IInv, TypeOK
<1>2. PICK to \in {"find_admin", "shift", "unlock"}, i \in Nat :
        /\ Move(t, "find_admin", to, i)
        /\ \/ to = "find_admin" /\ i = c + 1 /\ c < admin_count
              /\ admins[c] # req[t].id
           \/ to = "shift" /\ i = c /\ c < admin_count /\ admins[c] = req[t].id
           \/ to = "unlock" /\ c >= admin_count
  BY <1>1 DEF FindAdmin, Scan
<1>3. UNCHANGED <<userTable, adminTable, lock, outbox>>
  BY DEF FindAdmin, Scan
<1>4. /\ pc[t] = "find_admin" /\ pc'[t] = to /\ cursor'[t] = i /\ req' = req
      /\ lock = t /\ lock' = t /\ t # NoThread
      /\ Served(t) /\ \A u \in Threads \ {t} : Served(u)'
      /\ calls' = [calls EXCEPT ![t] = CallOf(t)']
      /\ answers' = [answers EXCEPT ![t] = AnswerOf(t)']
  <2>1. "find_admin" \in Critical /\ to \in Critical /\ lock' = lock
        /\ \A u \in Threads \ {t} : outbox'[u] = outbox[u]
    BY <1>2, <1>3 DEF Critical
  <2> QED
    BY <1>2, <2>1, InsideLedger
<1>5. /\ outbox[t] = <<>> /\ outbox'[t] = <<>> /\ req[t].op = "delete_admin"
      /\ \A k \in UsedAdmins : k < c => admins[k] # req[t].id
  BY <1>3, <1>4 DEF Served, Sent, Passed, Routed, OpsAt, Critical
<1>6. UNCHANGED <<admins, admin_count, UsedAdmins>>
  BY <1>3 DEF adminTable, UsedAdmins
<1>7. Served(t)'
  <2>1. Passed(t)'
    BY <1>1, <1>2, <1>4, <1>5, <1>6 DEF Passed, UsedAdmins
  <2>2. Sent(t)'
    BY <1>4, <1>5 DEF Sent
  <2>3. Routed(t)'
    BY <1>4, <1>5 DEF Routed, OpsAt
  <2> QED
    BY <2>1, <2>2, <2>3 DEF Served
<1>8. UNCHANGED Accounts
  BY <1>3, SameAccounts
<1>9. AnswerOf(t)' = AnswerOf(t)
  BY <1>4, <1>5 DEF AnswerOf
<1>10. AdminList = [k \in UsedAdmins |-> admins[k]]
  BY <1>4, AdminListIs
<1>11. CASE to = "find_admin"
  <2>1. UNCHANGED AdminList
    BY <1>3, <1>4, <1>11, SameAdmins
  <2>2. CallOf(t)' = CallOf(t)
    BY <1>4, <1>11 DEF CallOf
  <2> QED
    BY <1>4, <1>7, <1>8, <1>9, <2>1, <2>2, Unseen
<1>12. CASE to \in {"shift", "unlock"}
  <2>1. \/ \E n \in 1 .. MAX_ADMINS : \E j \in 0 .. n - 1 :
             /\ DOMAIN AdminList = 0 .. n - 1
             /\ AdminList[j] = req[t].id
             /\ \A k \in 0 .. j - 1 : AdminList[k] # req[t].id
             /\ AdminList' = [k \in 0 .. n - 2 |->
                                AdminList[IF k < j THEN k ELSE k + 1]]
        \/ /\ \A k \in DOMAIN AdminList : AdminList[k] # req[t].id
           /\ UNCHANGED AdminList
    <3>1. CASE to = "shift"
      <4>1. AdminList' = [k \in 0 .. admin_count - 2 |->
                            admins[IF k < c THEN k ELSE k + 1]]
        BY <1>2, <1>4, <1>6, <3>1 DEF AdminList
      <4>2. UsedAdmins = 0 .. admin_count - 1 /\ c \in 0 .. admin_count - 1
            /\ admin_count \in 1 .. MAX_ADMINS
        BY <1>1, <1>2, <3>1 DEF UsedAdmins
      <4>3. \A k \in 0 .. admin_count - 2 : (IF k < c THEN k ELSE k + 1) \in UsedAdmins
        BY <1>1, <4>2
      <4>4. AdminList' = [k \in 0 .. admin_count - 2 |->
                            AdminList[IF k < c THEN k ELSE k + 1]]
        BY <1>10, <4>1, <4>3
      <4>5. /\ DOMAIN AdminList = 0 .. admin_count - 1 /\ AdminList[c] = req[t].id
            /\ \A k \in 0 .. c - 1 : AdminList[k] # req[t].id
        BY <1>1, <1>2, <1>5, <1>10, <3>1, <4>2
      <4> QED
        BY <4>2, <4>4, <4>5
    <3>2. CASE to = "unlock"
      <4>1. UNCHANGED AdminList
        BY <1>3, <1>4, <3>2, SameAdmins
      <4>2. \A k \in UsedAdmins : admins[k] # req[t].id
        BY <1>1, <1>2, <1>5, <3>2 DEF UsedAdmins
      <4> QED
        BY <1>10, <4>1, <4>2
    <3> QED
      BY <1>12, <3>1, <3>2
  <2>2. calls[t] = "pending" /\ calls' = [calls EXCEPT ![t] = "done"]
    BY <1>4, <1>12 DEF calls, CallOf
  <2>3. answers' = answers
    BY <1>4, <1>9 DEF answers
  <2>4. Ledger!DeleteAdmin(t)
    BY <1>4, <1>5, <1>8, <2>1, <2>2, <2>3
    DEF Ledger!DeleteAdmin, Ledger!Finish, calls, answers
  <2>5. LedgerStep
    BY <2>4 DEF LedgerStep, Ledger!Next, Ledger!Serve
  <2> QED
    BY <1>4, <1>7, <2>5
<1> QED
  BY <1>11, <1>12

\* The loop moves the hole the entry left to the end of admins[].
LEMMA DeleteAdminInLedger ==
  ASSUME LInv, NEW t \in Threads, DeleteAdmin(t)
  PROVE  LedgerStep /\ \A u \in Threads : Served(u)'
<1> DEFINE c == cursor[t]
<1>1. /\ c \in Nat /\ c + 1 \in Nat /\ admin_count \in Nat
      /\ admin_count <= MAX_ADMINS /\ MAX_ADMINS \in Nat
      /\ admins \in [AdminSlots -> Ids \cup {NoId}]
  BY DataAssumption DEF DataAssumption, LInv, IInv, TypeOK
<1>2. PICK to \in {"shift", "unlock"}, i \in Nat :
        /\ Move(t, "shift", to, i)
        /\ \/ /\ to = "shift" /\ i = c + 1 /\ c < admin_count - 1
              /\ admins' = [admins EXCEPT ![c] = admins[c + 1]]
              /\ admin_count' = admin_count
           \/ /\ to = "unlock" /\ c >= admin_count - 1
              /\ admins' = admins /\ admin_count' = admin_count - 1
  BY <1>1 DEF DeleteAdmin
<1>3. UNCHANGED <<userTable, lock, outbox>>
  BY DEF DeleteAdmin
<1>4. /\ pc[t] = "shift" /\ pc'[t] = to /\ cursor'[t] = i /\ req' = req
      /\ lock = t /\ lock' = t /\ t # NoThread
      /\ Served(t) /\ \A u \in Threads \ {t} : Served(u)'
      /\ calls' = [calls EXCEPT ![t] = CallOf(t)']
      /\ answers' = [answers EXCEPT ![t] = AnswerOf(t)']
  <2>1. "shift" \in Critical /\ to \in Critical /\ lock' = lock
        /\ \A u \in Threads \ {t} : outbox'[u] = outbox[u]
    BY <1>2, <1>3 DEF Critical
  <2> QED
    BY <1>2, <2>1, InsideLedger
<1>5. c \in UsedAdmins /\ req[t].op = "delete_admin" /\ outbox[t] = <<>>
  BY <1>4 DEF LInv, IInv, Found, Served, Sent, Routed, OpsAt, Critical
<1>6. AdminList = [k \in 0 .. admin_count - 2 |->
                     admins[IF k < c THEN k ELSE k + 1]]
  BY <1>4 DEF AdminList
<1>7. UNCHANGED AdminList
  <2>1. CASE to = "shift"
    <3>1. AdminList' = [k \in 0 .. admin_count - 2 |->
                          admins'[IF k < c + 1 THEN k ELSE k + 1]]
      BY <1>2, <1>4, <2>1 DEF AdminList
    <3>2. ASSUME NEW k \in 0 .. admin_count - 2
          PROVE  admins'[IF k < c + 1 THEN k ELSE k + 1]
                   = admins[IF k < c THEN k ELSE k + 1]
      <4>1. /\ admins' = [admins EXCEPT ![c] = admins[c + 1]]
            /\ c \in AdminSlots /\ c \in 0 .. admin_count - 2
        BY <1>1, <1>2, <1>5, <2>1 DEF AdminSlots, UsedAdmins
      <4>2. \A x \in AdminSlots : admins'[x] = IF x = c THEN admins[c + 1] ELSE admins[x]
        BY <1>1, <4>1
      <4>3. k \in AdminSlots /\ k + 1 \in AdminSlots
        BY <1>1 DEF AdminSlots
      <4>4. CASE k < c
        BY ONLY <1>1, <4>2, <4>3, <4>4
      <4>5. CASE k = c
        BY ONLY <1>1, <4>2, <4>3, <4>5
      <4>6. CASE k > c
        BY ONLY <1>1, <4>2, <4>3, <4>6
      <4> QED
        BY <1>1, <4>4, <4>5, <4>6
    <3> QED
      BY <1>6, <3>1, <3>2
  <2>2. CASE to = "unlock"
    <3>1. AdminList' = [k \in 0 .. admin_count - 2 |-> admins[k]]
      <4>1. AdminList' = [k \in UsedAdmins' |-> admins'[k]]
        BY <1>4, <2>2, AdminListIsNext
      <4>2. UsedAdmins' = 0 .. admin_count - 2
        BY <1>1, <1>2, <2>2 DEF UsedAdmins
      <4> QED
        BY <1>2, <2>2, <4>1, <4>2
    <3>2. \A k \in 0 .. admin_count - 2 : k < c
      BY <1>1, <1>2, <2>2
    <3> QED
      BY <1>6, <3>1, <3>2
  <2> QED
    BY <2>1, <2>2
<1>8. UNCHANGED Accounts
  BY <1>3, SameAccounts
<1>9. AnswerOf(t)' = AnswerOf(t) /\ CallOf(t)' = CallOf(t)
  BY <1>3, <1>4, <1>5 DEF AnswerOf, CallOf
<1>10. Served(t)'
  BY <1>3, <1>4, <1>5 DEF Served, Sent, Passed, Routed, OpsAt, Critical
<1> QED
  BY <1>4, <1>7, <1>8, <1>9, <1>10, Unseen

-----------------------------------------------------------------------------
\* The end of the model.
LEMMA StoppedInLedger ==
  ASSUME LInv,
         UNCHANGED <<userTable, adminTable, lock, pc, req, cursor, outbox>>
  PROVE  LedgerStep /\ \A u \in Threads : Served(u)'
<1>1. UNCHANGED <<Accounts, AdminList, req>>
  BY SameAccounts DEF AdminList, adminTable, UsedAdmins
<1>2. UNCHANGED <<calls, answers>>
  BY DEF calls, answers, CallOf, AnswerOf
<1>3. LedgerStep
  BY <1>1, <1>2 DEF LedgerStep, Ledger!vars, calls, answers
<1>4. ASSUME NEW u \in Threads PROVE Served(u)'
  BY DEF LInv, Served, Sent, Passed, Routed, UsedUsers, UsedAdmins, userTable,
         adminTable
<1> QED
  BY <1>3, <1>4

\* Every step of the threads is a step of UserLedger, or none.
LEMMA StepInLedger == LInv /\ [Next]_vars => LInv' /\ LedgerStep
<1> SUFFICES ASSUME LInv, [Next]_vars
             PROVE  LedgerStep /\ \A u \in Threads : Served(u)'
  BY NextKeepsIInv DEF LInv
<1>1. ASSUME NEW t \in Threads, Work(t)
      PROVE  LedgerStep /\ \A u \in Threads : Served(u)'
  BY <1>1, LockInLedger, UnlockInLedger, FindUserInLedger, RecordIntervalInLedger,
     CreditMileageInLedger, AppendUserInLedger, StoppedInLedger, SendUserInLedger,
     ListUsersInLedger, AddAdminInLedger, FindAdminInLedger, DeleteAdminInLedger
  DEF Work, Overrun
<1>2. ASSUME NEW t \in Threads, Arrive(t)
      PROVE  LedgerStep /\ \A u \in Threads : Served(u)'
  BY <1>2, CallInLedger DEF Arrive
<1>3. CASE UNCHANGED vars
  BY <1>3, StoppedInLedger DEF vars
<1> QED
  BY <1>1, <1>2, <1>3 DEF Next, Rest

\* Both start with empty tables.
LEMMA InitInLedger == Init => LInv /\ Ledger!Init
<1> SUFFICES ASSUME Init PROVE LInv /\ Ledger!Init
  OBVIOUS
<1>1. \A t \in Threads : Served(t)
  BY DEF Init, Served, Sent, Passed, Routed, Critical
<1>2. UsedUsers = {} /\ UsedAdmins = {}
  BY DEF Init, UsedUsers, UsedAdmins
<1>3. Accounts = [a \in {} |-> 0]
  BY <1>2 DEF Accounts
<1>4. AdminList = [k \in {} |-> NoId]
  BY <1>2 DEF Init, AdminList
<1>5. \A t \in Threads : CallOf(t) = "idle" /\ AnswerOf(t) = {}
  <2>1. \A t \in Threads : Range(outbox[t]) = {}
    BY DEF Init, Range
  <2> QED
    BY <2>1 DEF Init, CallOf, AnswerOf
<1>6. Ledger!Init
  BY <1>3, <1>4, <1>5 DEF Init, Ledger!Init, NoRequest, Ledger!NoRequest
<1> QED
  BY <1>1, <1>6, InitIInv DEF LInv

\* However the threads of server_1.c take turns, the requests take effect one
\* at a time, each between its call and its return: no credit is lost, a list
\* is a snapshot of the accounts, the administrators keep their order, and a
\* save, query or deletion finds the entry if there is one.
THEOREM ServesOneAtATime == Spec => ImplementsLedger
<1>1. LInv /\ [Next]_vars => [Ledger!Next]_(Ledger!vars)
  BY StepInLedger DEF LedgerStep
<1>2. LInv /\ [Next]_vars => LInv'
  BY StepInLedger
<1> QED
  BY <1>1, <1>2, InitInLedger, PTL DEF Spec, ImplementsLedger, Ledger!Spec
-----------------------------------------------------------------------------
(***************************************************************************)
(* No session is lost.  A session counts from the moment it is written,    *)
(* before its call returns, and each value it may have is counted on its   *)
(* own: as many calls with it as slots, if not more slots.                 *)
(***************************************************************************)
Writing == {"credit", "unlock", "done"}
Recorded == {t \in Threads : pc[t] \in Writing /\ req[t].op = "save"}
Of(id, x) == {t \in Recorded : req[t].id = id /\ Session(t) = x}
SlotsWith(k, x) == {j \in IntervalSlots : users[k].intervals[j] = x}
HasRoom(k) == \E j \in IntervalSlots : users[k].intervals[j].start = 0
RealSessions == {x \in Interval : x.start # 0}

Known == \A t \in Recorded : \E k \in UsedUsers : users[k].id = req[t].id

NoneLost ==
  \A k \in UsedUsers, x \in RealSessions :
    HasRoom(k) => Cardinality(Of(users[k].id, x)) <= Cardinality(SlotsWith(k, x))

\* Only finitely many calls have been made at any time.
Entered == {t \in Threads : pc[t] # "idle"}

SInv == LInv /\ IsFiniteSet(Entered) /\ Known /\ NoneLost

\* The slots of an interval list that hold one session can be counted.
LEMMA SlotsFinite ==
  ASSUME NEW k, NEW x
  PROVE  IsFiniteSet(SlotsWith(k, x)) /\ Cardinality(SlotsWith(k, x)) \in Nat
<1>1. IsFiniteSet(IntervalSlots)
  BY FS_Interval, DataAssumption DEF IntervalSlots, DataAssumption
<1> QED
  BY <1>1, FS_Subset, FS_CardinalityType DEF SlotsWith

\* So can the saves of a user among finitely many threads.
LEMMA OfFinite ==
  ASSUME IsFiniteSet(Entered), NEW id, NEW x
  PROVE  IsFiniteSet(Of(id, x)) /\ Cardinality(Of(id, x)) \in Nat
<1>1. Of(id, x) \subseteq Entered
  BY DEF Of, Recorded, Writing, Entered
<1> QED
  BY <1>1, FS_Subset, FS_CardinalityType

\* A step that neither writes a session nor makes one count.
LEMMA QuietStep ==
  ASSUME SInv, Recorded' = Recorded, \A t \in Recorded : req'[t] = req[t],
         user_count' = user_count,
         \A k \in UsedUsers : /\ users'[k].id = users[k].id
                              /\ users'[k].intervals = users[k].intervals
  PROVE  Known' /\ NoneLost'
<1>1. UsedUsers' = UsedUsers
  BY DEF UsedUsers
<1>2. \A id, x : Of(id, x)' = Of(id, x)
  BY DEF Of, Session
<1>3. \A k \in UsedUsers : \A x : SlotsWith(k, x)' = SlotsWith(k, x)
  BY DEF SlotsWith
<1>4. \A k \in UsedUsers : HasRoom(k)' <=> HasRoom(k)
  BY DEF HasRoom
<1>5. Known'
  BY <1>1 DEF SInv, Known
<1>6. NoneLost'
  BY <1>1, <1>2, <1>3, <1>4 DEF SInv, NoneLost
<1> QED
  BY <1>5, <1>6

\* A thread outside save_user_data leaves the count of sessions as it was.
LEMMA MoveKeepsRecorded ==
  ASSUME TypeOK, NEW t \in Threads, NEW from, NEW to, NEW i, Move(t, from, to, i),
         req[t].op = "save" => (from \in Writing <=> to \in Writing)
  PROVE  Recorded' = Recorded /\ req' = req
BY DEF TypeOK, Move, Recorded

\* The threads that have been served can be counted.
LEMMA ServedFinite ==
  ASSUME IsFiniteSet(Entered), NEW t \in Threads, TypeOK,
         \A u \in Threads \ {t} : pc'[u] = pc[u]
  PROVE  IsFiniteSet(Entered')
<1>1. Entered' \subseteq Entered \cup {t}
  BY DEF Entered
<1>2. IsFiniteSet(Entered \cup {t})
  BY FS_AddElement
<1> QED
  BY <1>1, <1>2, FS_Subset

\* The steps that write no interval keep the count.
LEMMA QuietWork ==
  ASSUME SInv, NEW t \in Threads,
         \/ Lock(t) \/ Unlock(t) \/ FindUser(t) \/ CreditMileage(t) \/ SendUser(t)
         \/ ListUsers(t) \/ AddAdmin(t) \/ FindAdmin(t) \/ DeleteAdmin(t)
  PROVE  Known' /\ NoneLost'
<1>1. TypeOK /\ Routed(t) /\ Found(t)
  BY DEF SInv, LInv, IInv, Served
<1>2. Recorded' = Recorded /\ req' = req
  <2>1. CASE Lock(t)
    <3>1. Move(t, "lock", Entry[req[t].op], 0)
      BY <2>1 DEF Lock
    <3>2. req[t].op = "save" => Entry[req[t].op] = "find"
      BY DEF Entry
    <3> QED
      BY <1>1, <3>1, <3>2, MoveKeepsRecorded DEF Writing
  <2>2. CASE Unlock(t)
    BY <1>1, <2>2, MoveKeepsRecorded DEF Unlock, Writing
  <2>3. CASE FindUser(t)
    <3>1. PICK to, i : /\ Move(t, "find", to, i)
                       /\ req[t].op = "save" => to \in {"find", "interval", "append"}
      BY <2>3 DEF FindUser, Scan
    <3> QED
      BY <1>1, <3>1, MoveKeepsRecorded DEF Writing
  <2>4. CASE CreditMileage(t)
    BY <1>1, <2>4, MoveKeepsRecorded DEF CreditMileage, Writing
  <2>5. ASSUME \/ SendUser(t) \/ ListUsers(t) \/ AddAdmin(t) \/ FindAdmin(t)
               \/ DeleteAdmin(t)
        PROVE  Recorded' = Recorded /\ req' = req
    <3>1. PICK from \in {"reply", "list", "add", "find_admin", "shift"} :
            \E to, i : Move(t, from, to, i)
      BY <2>5 DEF SendUser, ListUsers, AddAdmin, FindAdmin, DeleteAdmin, Scan
    <3>2. req[t].op # "save"
      BY <1>1, <3>1 DEF Routed, OpsAt, Move, Critical
    <3>3. PICK to, i : Move(t, from, to, i)
      BY <3>1
    <3> QED
      BY <1>1, <3>2, <3>3, MoveKeepsRecorded
  <2> QED
    BY <2>1, <2>2, <2>3, <2>4, <2>5
<1>3. user_count' = user_count
  BY DEF Lock, Unlock, FindUser, CreditMileage, SendUser, ListUsers, AddAdmin,
         FindAdmin, DeleteAdmin, Scan, Send, userTable
<1>4. ASSUME NEW k \in UsedUsers
      PROVE  /\ users'[k].id = users[k].id
             /\ users'[k].intervals = users[k].intervals
  <2>1. CASE UNCHANGED users
    BY <2>1
  <2>2. CASE CreditMileage(t)
    <3>1. k \in UserSlots /\ users[k] \in User /\ users \in [UserSlots -> User]
      BY <1>1, DataAssumption
      DEF TypeOK, UsedUsers, UserSlots, DataAssumption
    <3> QED
      BY <2>2, <3>1 DEF CreditMileage, User
  <2> QED
    BY <2>1, <2>2 DEF Lock, Unlock, FindUser, SendUser, ListUsers, AddAdmin,
       FindAdmin, DeleteAdmin, Scan, Send, userTable
<1> QED
  BY <1>2, <1>3, <1>4, QuietStep

\* One more call counts, and one more slot holds its session.
LEMMA RecordsOne ==
  ASSUME SInv, NEW t \in Threads, RecordInterval(t)
  PROVE  Known' /\ NoneLost'
<1> DEFINE c == cursor[t]
<1>1. /\ TypeOK /\ OneEntryPerUser /\ req[t] \in Requests /\ req[t].op = "save"
      /\ c \in UsedUsers /\ users[c].id = req[t].id /\ c \in Nat
  <2>1. pc[t] = "interval" /\ TypeOK /\ Found(t) /\ Routed(t) /\ OneEntryPerUser
    BY DEF RecordInterval, Move, SInv, LInv, IInv, Served
  <2> QED
    BY <2>1 DEF Found, Routed, OpsAt, Critical, TypeOK
<1>2. /\ Recorded' = Recorded \cup {t} /\ t \notin Recorded /\ req' = req
      /\ UNCHANGED user_count
  BY <1>1 DEF RecordInterval, Move, Recorded, Writing, TypeOK
<1>3. /\ c \in UserSlots /\ users \in [UserSlots -> User]
      /\ \A k \in UsedUsers : users[k] \in User
  BY <1>1, DataAssumption DEF TypeOK, UsedUsers, UserSlots, DataAssumption
<1>4. /\ UsedUsers' = UsedUsers
      /\ \A k \in UsedUsers : users'[k].id = users[k].id
      /\ \A k \in UsedUsers \ {c} : users'[k] = users[k]
  <2>1. UsedUsers' = UsedUsers
    BY <1>2 DEF UsedUsers
  <2>2. UsedUsers \subseteq UserSlots
    BY <1>1, DataAssumption DEF TypeOK, UsedUsers, UserSlots, DataAssumption
  <2>3. CASE UNCHANGED users
    BY <2>1, <2>3
  <2>4. ASSUME NEW j \in IntervalSlots,
               users' = [users EXCEPT ![c].intervals[j] = Session(t)]
        PROVE  /\ \A k \in UsedUsers : users'[k].id = users[k].id
               /\ \A k \in UsedUsers \ {c} : users'[k] = users[k]
    <3>1. users'[c].id = users[c].id
      BY <1>1, <1>3, <2>4 DEF User
    <3>2. \A k \in UsedUsers \ {c} : users'[k] = users[k]
      BY <1>3, <2>2, <2>4
    <3> QED
      BY <3>1, <3>2
  <2> QED
    BY <2>1, <2>3, <2>4 DEF RecordInterval
<1>5. Session(t) \in RealSessions
  <2>1. req[t] \in Request
    BY <1>1, DataAssumption DEF DataAssumption
  <2> QED
    BY <2>1 DEF Request, RealSessions, Interval, Session
<1>6. Known'
  BY <1>1, <1>2, <1>4 DEF SInv, Known
<1>7. ASSUME NEW k \in UsedUsers, NEW x \in RealSessions, HasRoom(k)'
      PROVE  Cardinality(Of(users[k].id, x)') <= Cardinality(SlotsWith(k, x)')
  <2>1. CASE k # c
    <3>1. users[k].id # req[t].id
      BY <1>1, <2>1 DEF OneEntryPerUser
    <3>2. Of(users[k].id, x)' = Of(users[k].id, x)
      BY <1>2, <1>4, <3>1 DEF Of, Session
    <3>3. SlotsWith(k, x)' = SlotsWith(k, x) /\ HasRoom(k)
      BY <1>4, <1>7, <2>1 DEF SlotsWith, HasRoom
    <3> QED
      BY <3>2, <3>3 DEF SInv, NoneLost
  <2>2. CASE k = c
    <3>1. PICK j \in IntervalSlots :
            /\ users[c].intervals[j].start = 0
            /\ users' = [users EXCEPT ![c].intervals[j] = Session(t)]
      <4>1. CASE UNCHANGED users
        BY <1>7, <2>2, <4>1 DEF HasRoom, RecordInterval
      <4>2. CASE ~UNCHANGED users
        BY <4>2 DEF RecordInterval
      <4> QED
        BY <4>1, <4>2
    <3>2. users'[k].intervals = [users[k].intervals EXCEPT ![j] = Session(t)]
      BY <1>3, <2>2, <3>1 DEF User
    <3>3. users[k].intervals \in [IntervalSlots -> Interval]
      BY <1>1, <1>3, <2>2 DEF User
    <3>4. HasRoom(k)
      BY <2>2, <3>1 DEF HasRoom
    <3>5. Cardinality(Of(users[k].id, x)) <= Cardinality(SlotsWith(k, x))
      BY <1>1, <3>4 DEF SInv, NoneLost
    <3>6. CASE x = Session(t)
      <4>1. Of(users[k].id, x)' = Of(users[k].id, x) \cup {t} /\ t \notin Of(users[k].id, x)
        BY <1>1, <1>2, <1>4, <2>2, <3>6 DEF Of, Session
      <4>2. SlotsWith(k, x)' = SlotsWith(k, x) \cup {j} /\ j \notin SlotsWith(k, x)
        BY <1>5, <2>2, <3>1, <3>2, <3>3, <3>6 DEF SlotsWith, RealSessions
      <4>3. /\ Cardinality(Of(users[k].id, x)') = Cardinality(Of(users[k].id, x)) + 1
            /\ Cardinality(SlotsWith(k, x)') = Cardinality(SlotsWith(k, x)) + 1
        BY <4>1, <4>2, OfFinite, SlotsFinite, FS_AddElement DEF SInv
      <4>4. Cardinality(Of(users[k].id, x)) \in Nat /\ Cardinality(SlotsWith(k, x)) \in Nat
        BY OfFinite, SlotsFinite DEF SInv
      <4> QED
        BY <3>5, <4>3, <4>4
    <3>7. CASE x # Session(t)
      <4>1. Of(users[k].id, x)' = Of(users[k].id, x)
        BY <1>2, <1>4, <3>7 DEF Of, Session
      <4>2. SlotsWith(k, x)' = SlotsWith(k, x)
        BY <2>2, <3>1, <3>2, <3>3, <3>7 DEF SlotsWith, RealSessions
      <4> QED
        BY <2>2, <3>5, <4>1, <4>2
    <3> QED
      BY <3>6, <3>7
  <2> QED
    BY <2>1, <2>2
<1>8. NoneLost'
  BY <1>4, <1>7 DEF NoneLost
<1> QED
  BY <1>6, <1>8

\* A new user starts with the one session saved.
LEMMA AppendsOne ==
  ASSUME SInv, NEW t \in Threads, AppendUser(t)
  PROVE  Known' /\ NoneLost'
<1> DEFINE n == user_count
<1>1. /\ TypeOK /\ req[t] \in Requests /\ req[t].op = "save"
      /\ \A k \in UsedUsers : users[k].id # req[t].id
  <2>1. pc[t] = "append" /\ TypeOK /\ Found(t) /\ Routed(t)
    BY DEF AppendUser, Move, SInv, LInv, IInv, Served
  <2> QED
    BY <2>1 DEF Found, Routed, OpsAt, Critical
<1>2. /\ Recorded' = Recorded \cup {t} /\ t \notin Recorded /\ req' = req
      /\ n \in Nat /\ n < MAX_USERS /\ user_count' = n + 1
  BY <1>1, DataAssumption
  DEF AppendUser, Move, Recorded, Writing, TypeOK, DataAssumption
<1>3. PICK stack \in [IntervalSlots -> {NoInterval, Junk}] :
        users' = [users EXCEPT ![n] = NewUser(t, stack)]
  BY DEF AppendUser
<1>4. /\ n \notin UsedUsers /\ UsedUsers' = UsedUsers \cup {n}
      /\ \A k \in UsedUsers : users'[k] = users[k]
      /\ users'[n] = NewUser(t, stack)
  <2>1. n \in UserSlots /\ UsedUsers \subseteq UserSlots /\ users \in [UserSlots -> User]
    BY <1>1, <1>2, DataAssumption DEF UserSlots, UsedUsers, TypeOK, DataAssumption
  <2>2. n \notin UsedUsers /\ UsedUsers' = UsedUsers \cup {n}
    BY <1>2 DEF UsedUsers
  <2> QED
    BY <1>3, <2>1, <2>2
<1>5. users'[n].id = req[t].id /\ users'[n].intervals[0] = Session(t) /\ 0 \in IntervalSlots
  <2>1. 0 \in IntervalSlots
    BY DataAssumption DEF IntervalSlots, DataAssumption
  <2> QED
    BY <1>3, <1>4, <2>1 DEF NewUser
<1>6. Known'
  BY <1>2, <1>4, <1>5 DEF SInv, Known
<1>7. ASSUME NEW k \in UsedUsers', NEW x \in RealSessions, HasRoom(k)'
      PROVE  Cardinality(Of(users[k].id, x)') <= Cardinality(SlotsWith(k, x)')
  <2>1. CASE k \in UsedUsers
    <3>1. Of(users[k].id, x)' = Of(users[k].id, x)
      BY <1>1, <1>2, <1>4, <2>1 DEF Of, Session
    <3>2. SlotsWith(k, x)' = SlotsWith(k, x) /\ HasRoom(k)
      BY <1>4, <1>7, <2>1 DEF SlotsWith, HasRoom
    <3> QED
      BY <2>1, <3>1, <3>2 DEF SInv, NoneLost
  <2>2. CASE k = n
    <3>1. \A s \in Recorded : req[s].id # req[t].id
      BY <1>1 DEF SInv, Known
    <3>2. Of(users[k].id, x)' = IF x = Session(t) THEN {t} ELSE {}
      BY <1>2, <1>5, <2>2, <3>1 DEF Of, Session
    <3>3. IsFiniteSet(SlotsWith(k, x)') /\ Cardinality(SlotsWith(k, x)') \in Nat
      <4>1. SlotsWith(k, x)' \subseteq IntervalSlots /\ IsFiniteSet(IntervalSlots)
        BY FS_Interval, DataAssumption DEF SlotsWith, IntervalSlots, DataAssumption
      <4> QED
        BY <4>1, FS_Subset, FS_CardinalityType
    <3>4. CASE x = Session(t)
      <4>1. {0} \subseteq SlotsWith(k, x)'
        BY <1>5, <2>2, <3>4 DEF SlotsWith
      <4>2. Cardinality({0}) = 1 /\ Cardinality({t}) = 1
        BY FS_Singleton
      <4>3. Cardinality({0}) <= Cardinality(SlotsWith(k, x)')
        BY <3>3, <4>1, FS_Subset
      <4> QED
        BY <3>2, <3>4, <4>2, <4>3
    <3>5. CASE x # Session(t)
      BY <3>2, <3>3, <3>5, FS_EmptySet
    <3> QED
      BY <3>4, <3>5
  <2> QED
    BY <1>4, <2>1, <2>2
<1>8. NoneLost'
  BY <1>7 DEF NoneLost
<1> QED
  BY <1>6, <1>8

\* Every step keeps the count.
LEMMA NextKeepsSInv == SInv /\ [Next]_vars => SInv'
<1> SUFFICES ASSUME SInv, [Next]_vars PROVE IsFiniteSet(Entered') /\ Known' /\ NoneLost'
  BY StepInLedger DEF SInv
<1>0. TypeOK
  BY DEF SInv, LInv, IInv
<1>1. CASE UNCHANGED vars
  <2>1. Recorded' = Recorded /\ Entered' = Entered
    BY <1>1 DEF vars, Recorded, Entered
  <2> QED
    BY <1>1, <2>1, QuietStep DEF SInv, vars, userTable
<1>2. ASSUME NEW t \in Threads, Work(t)
      PROVE  IsFiniteSet(Entered') /\ Known' /\ NoneLost'
  <2>1. \A u \in Threads \ {t} : pc'[u] = pc[u]
    BY <1>0, <1>2
    DEF Work, Lock, Unlock, FindUser, RecordInterval, CreditMileage, AppendUser,
        Overrun, SendUser, ListUsers, AddAdmin, FindAdmin, DeleteAdmin, Scan, Move,
        TypeOK
  <2>2. IsFiniteSet(Entered')
    BY <1>0, <2>1, ServedFinite DEF SInv
  <2>3. CASE Overrun(t)
    <3>1. Recorded' = Recorded
      BY <2>3 DEF Overrun, Recorded
    <3> QED
      BY <2>2, <2>3, <3>1, QuietStep DEF Overrun, userTable
  <2> QED
    BY <1>2, <2>2, <2>3, QuietWork, RecordsOne, AppendsOne DEF Work
<1>3. ASSUME NEW t \in Threads, Arrive(t)
      PROVE  IsFiniteSet(Entered') /\ Known' /\ NoneLost'
  <2>1. PICK r \in Requests : Call(t, r)
    BY <1>3 DEF Arrive
  <2>2. /\ pc[t] = "idle" /\ pc'[t] = "lock" /\ UNCHANGED userTable
        /\ \A u \in Threads \ {t} : pc'[u] = pc[u] /\ req'[u] = req[u]
    BY <1>0, <2>1 DEF Call, TypeOK
  <2>3. IsFiniteSet(Entered')
    BY <1>0, <2>2, ServedFinite DEF SInv
  <2>4. Recorded' = Recorded /\ t \notin Recorded
    BY <2>2 DEF Recorded, Writing
  <2>5. \A s \in Recorded : req'[s] = req[s]
    BY <2>2, <2>4 DEF Recorded
  <2> QED
    BY <2>2, <2>3, <2>4, <2>5, QuietStep DEF userTable
<1> QED
  BY <1>1, <1>2, <1>3 DEF Next, Rest

\* Nothing is counted at the start.
LEMMA InitSInv == Init => SInv
<1> SUFFICES ASSUME Init PROVE SInv
  OBVIOUS
<1>1. Entered = {} /\ Recorded = {} /\ UsedUsers = {}
  BY DEF Init, Entered, Recorded, Writing, UsedUsers
<1> QED
  BY <1>1, InitInLedger, FS_EmptySet DEF SInv, Known, NoneLost

\* As long as a user's list in users[] has a free slot, it holds every session
\* that save_user_data has been called for, once for each call, whatever the
\* threads did in between and the stack left in the entry.
THEOREM NoSessionLost == Spec => []SessionsRecorded
<1>1. SInv => SessionsRecorded
  <2> SUFFICES ASSUME SInv, NEW k \in UsedUsers,
                      \E j \in IntervalSlots : users[k].intervals[j].start = 0,
                      NEW t \in FinishedSaves(users[k].id)
               PROVE  Cardinality({s \in FinishedSaves(users[k].id) :
                                     Session(s) = Session(t)})
                        <= Cardinality({j \in IntervalSlots :
                                          users[k].intervals[j] = Session(t)})
    BY DEF SessionsRecorded
  <2> DEFINE F == {s \in FinishedSaves(users[k].id) : Session(s) = Session(t)}
             x == Session(t)
             id == users[k].id
  <2>1. x \in RealSessions
    <3>1. t \in Threads /\ pc[t] = "done" /\ Found(t)
      BY DEF FinishedSaves, SInv, LInv, IInv
    <3>2. req[t] \in Request
      BY <3>1, DataAssumption DEF Found, DataAssumption
    <3> QED
      BY <3>2 DEF Request, RealSessions, Interval, Session
  <2>2. Cardinality(Of(id, x)) <= Cardinality(SlotsWith(k, x))
    BY <2>1 DEF SInv, NoneLost, HasRoom
  <2>3. F \subseteq Of(id, x)
    BY DEF FinishedSaves, Of, Recorded, Writing
  <2>4. /\ IsFiniteSet(Of(id, x)) /\ Cardinality(Of(id, x)) \in Nat
        /\ Cardinality(SlotsWith(k, x)) \in Nat
    BY OfFinite, SlotsFinite DEF SInv
  <2>5. Cardinality(F) <= Cardinality(Of(id, x)) /\ Cardinality(F) \in Nat
    BY <2>3, <2>4, FS_Subset, FS_CardinalityType
  <2> HIDE DEF F
  <2>6. Cardinality(F) <= Cardinality(SlotsWith(k, x))
    BY <2>2, <2>4, <2>5
  <2> QED
    BY <2>6 DEF F, SlotsWith
<1> QED
  BY <1>1, InitSInv, NextKeepsSInv, PTL DEF Spec

-----------------------------------------------------------------------------
(***************************************************************************)
(* No points are lost or made up.  SumFunctionOnSet is a fold that takes   *)
(* the members of its set in an order nobody knows; that the order makes   *)
(* no difference is proved over the subsets of a finite set.               *)
(***************************************************************************)
\* Induction over the subsets of a finite set, with the property as a set.
LEMMA SubsetInduction ==
  ASSUME NEW S, IsFiniteSet(S), NEW T,
         \A U \in SUBSET S : (\A x \in U : U \ {x} \in T) => U \in T
  PROVE  SUBSET S \subseteq T
<1> SUFFICES ASSUME ~(SUBSET S \subseteq T) PROVE FALSE
  OBVIOUS
<1> DEFINE B == {U \in SUBSET S : U \notin T}
<1>1. B # {} /\ B \subseteq FiniteSubsetsOf(S)
  BY FS_FiniteSubsetsOfFinite
<1>2. PICK U \in B : \A V \in B : ~ (<<V, U>> \in StrictSubsetOrdering(S))
  <2> HIDE DEF B
  <2> QED
    BY <1>1, FS_StrictSubsetOrderingWellFounded, WFMin
<1>3. ASSUME NEW x \in U PROVE U \ {x} \in T
  <2>1. <<U \ {x}, U>> \in StrictSubsetOrdering(S)
    BY <1>2 DEF StrictSubsetOrdering
  <2> QED
    BY <1>2, <2>1
<1> QED
  BY <1>2, <1>3

\* g gives the sum of f over every subset of S, in whatever order it is added.
Sums(g, f, S) ==
  /\ g \in [SUBSET S -> Int] /\ g[{}] = 0
  /\ \A U \in SUBSET S : \A x \in U : g[U] = f[x] + g[U \ {x}]

\* One number more.
LEMMA SumsAdd ==
  ASSUME NEW U, NEW a \in U, NEW f, \A x \in U : f[x] \in Int,
         NEW g, Sums(g, f, U \ {a})
  PROVE  \E h : Sums(h, f, U)
<1> DEFINE h == [V \in SUBSET U |-> IF a \in V THEN f[a] + g[V \ {a}] ELSE g[V]]
<1>1. \A V \in SUBSET U : V \ {a} \in SUBSET (U \ {a}) /\ (a \notin V => V \ {a} = V)
  OBVIOUS
<1>2. h \in [SUBSET U -> Int] /\ h[{}] = 0
  BY <1>1 DEF Sums
<1>3. ASSUME NEW V \in SUBSET U, NEW x \in V
      PROVE  h[V] = f[x] + h[V \ {x}]
  <2>1. CASE x = a
    BY <1>1, <2>1 DEF Sums
  <2>2. CASE x # a /\ a \notin V
    BY <1>1, <2>2 DEF Sums
  <2>3. CASE x # a /\ a \in V
    <3>1. (V \ {a}) \ {x} = (V \ {x}) \ {a} /\ x \in V \ {a}
      BY <2>3
    <3>2. g[V \ {a}] = f[x] + g[(V \ {x}) \ {a}]
      <4>1. V \ {a} \in SUBSET (U \ {a})
        BY <1>1
      <4>2. g[V \ {a}] = f[x] + g[(V \ {a}) \ {x}]
        BY <3>1, <4>1 DEF Sums
      <4> QED
        BY <3>1, <4>2
    <3>3. f[x] \in Int /\ f[a] \in Int /\ g[(V \ {x}) \ {a}] \in Int
      BY <1>1 DEF Sums
    <3>4. h[V] = f[a] + g[V \ {a}] /\ h[V \ {x}] = f[a] + g[(V \ {x}) \ {a}]
      BY <2>3
    <3> HIDE DEF h
    <3> QED
      BY <3>2, <3>3, <3>4
  <2> QED
    BY <2>1, <2>2, <2>3
<1> HIDE DEF h
<1>4. Sums(h, f, U)
  BY <1>2, <1>3 DEF Sums
<1> QED
  BY <1>4

\* There is such a g for numbers indexed by a finite set.
LEMMA SumsExist ==
  ASSUME NEW S, IsFiniteSet(S), NEW f, \A x \in S : f[x] \in Int
  PROVE  \E g : Sums(g, f, S)
<1> DEFINE T == {U \in SUBSET S : \E g : Sums(g, f, U)}
<1>1. ASSUME NEW U \in SUBSET S, \A x \in U : U \ {x} \in T
      PROVE  U \in T
  <2>1. CASE U = {}
    <3>1. Sums([V \in SUBSET U |-> 0], f, U)
      BY <2>1 DEF Sums
    <3> QED
      BY <3>1
  <2>2. ASSUME NEW a \in U PROVE U \in T
    <3>1. PICK g : Sums(g, f, U \ {a})
      BY <1>1
    <3> QED
      BY <3>1, SumsAdd
  <2> QED
    BY <2>1, <2>2
<1>2. SUBSET S \subseteq T
  <2> HIDE DEF T
  <2> QED
    BY <1>1, SubsetInduction
<1> QED
  BY <1>2

\* g adds the numbers in the order the fold takes them.
FoldOf(g, f, S) ==
  g = [s \in SUBSET S |-> IF s = {} THEN 0
                          ELSE LET x == CHOOSE x \in s : TRUE
                               IN  f[x] + g[s \ {x}]]

\* The order makes no difference.
LEMMA FoldSums ==
  ASSUME NEW S, IsFiniteSet(S), NEW f, NEW g, NEW h,
         Sums(h, f, S), FoldOf(g, f, S)
  PROVE  g[S] = h[S]
<1> DEFINE T == {U \in SUBSET S : g[U] = h[U]}
<1>1. ASSUME NEW U \in SUBSET S, \A x \in U : U \ {x} \in T
      PROVE  U \in T
  <2>1. CASE U = {}
    BY <2>1 DEF FoldOf, Sums
  <2>2. CASE U # {}
    <3> DEFINE x == CHOOSE y \in U : TRUE
    <3>1. x \in U /\ g[U] = f[x] + g[U \ {x}]
      BY <2>2 DEF FoldOf
    <3>2. h[U] = f[x] + h[U \ {x}]
      BY <3>1 DEF Sums
    <3> QED
      BY <1>1, <3>1, <3>2
  <2> QED
    BY <2>1, <2>2
<1>2. SUBSET S \subseteq T
  <2> HIDE DEF T
  <2> QED
    BY <1>1, SubsetInduction
<1> QED
  BY <1>2

\* Added in any order is added in that order.
LEMMA SumsFold ==
  ASSUME NEW S, NEW f, NEW g, Sums(g, f, S)
  PROVE  FoldOf(g, f, S)
<1>1. ASSUME NEW U \in SUBSET S, U # {}
      PROVE  LET x == CHOOSE x \in U : TRUE IN g[U] = f[x] + g[U \ {x}]
  BY <1>1 DEF Sums
<1> QED
  BY <1>1 DEF Sums, FoldOf

\* What the library's operator computes.
LEMMA SumIs ==
  ASSUME NEW S, IsFiniteSet(S), NEW f, NEW h, Sums(h, f, S)
  PROVE  SumFunctionOnSet(f, S) = h[S]
<1> DEFINE g == CHOOSE g : FoldOf(g, f, S)
<1>1. FoldOf(g, f, S)
  BY SumsFold
<1>2. SumFunctionOnSet(f, S) = g[S]
  BY DEF SumFunctionOnSet, FoldFunctionOnSet, MapThenFoldSet, FoldOf
<1> HIDE DEF g
<1> QED
  BY <1>1, <1>2, FoldSums

\* No numbers add up to 0.
LEMMA SumEmpty ==
  ASSUME NEW f
  PROVE  SumFunctionOnSet(f, {}) = 0
<1>1. Sums([V \in SUBSET {} |-> 0], f, {})
  BY DEF Sums
<1> QED
  BY <1>1, SumIs, FS_EmptySet

\* Numbers add up to a number.
LEMMA SumType ==
  ASSUME NEW S, IsFiniteSet(S), NEW f, \A x \in S : f[x] \in Int
  PROVE  SumFunctionOnSet(f, S) \in Int
<1>1. PICK h : Sums(h, f, S)
  BY SumsExist
<1>2. SumFunctionOnSet(f, S) = h[S]
  BY <1>1, SumIs
<1>3. h[S] \in Int
  BY <1>1 DEF Sums
<1> QED
  BY <1>2, <1>3

\* Any of the numbers can be added last.
LEMMA SumTake ==
  ASSUME NEW S, IsFiniteSet(S), NEW f, \A x \in S : f[x] \in Int, NEW a \in S
  PROVE  SumFunctionOnSet(f, S) = f[a] + SumFunctionOnSet(f, S \ {a})
<1>1. PICK h : Sums(h, f, S)
  BY SumsExist
<1> DEFINE g == [U \in SUBSET (S \ {a}) |-> h[U]]
<1>2. Sums(g, f, S \ {a})
  BY <1>1 DEF Sums
<1>3. IsFiniteSet(S \ {a})
  BY FS_RemoveElement
<1>4. SumFunctionOnSet(f, S \ {a}) = g[S \ {a}] /\ SumFunctionOnSet(f, S) = h[S]
  <2> HIDE DEF g
  <2> QED
    BY <1>1, <1>2, <1>3, SumIs
<1> QED
  BY <1>1, <1>4 DEF Sums

\* The sum looks at the numbers in the set only.
LEMMA SumSame ==
  ASSUME NEW S, IsFiniteSet(S), NEW f, \A x \in S : f[x] \in Int,
         NEW g, \A x \in S : g[x] = f[x]
  PROVE  SumFunctionOnSet(g, S) = SumFunctionOnSet(f, S)
<1>1. PICK h : Sums(h, f, S)
  BY SumsExist
<1>2. Sums(h, g, S)
  BY <1>1 DEF Sums
<1> QED
  BY <1>1, <1>2, SumIs

\* One number more to add.
LEMMA SumAdds ==
  ASSUME NEW S, IsFiniteSet(S), NEW f, \A x \in S : f[x] \in Int,
         NEW a, a \notin S, NEW R, R = S \cup {a},
         NEW g, g[a] \in Int, \A x \in S : g[x] = f[x]
  PROVE  SumFunctionOnSet(g, R) = SumFunctionOnSet(f, S) + g[a]
<1>1. IsFiniteSet(R) /\ \A x \in R : g[x] \in Int
  BY FS_AddElement
<1>2. SumFunctionOnSet(g, R) = g[a] + SumFunctionOnSet(g, R \ {a})
  BY <1>1, SumTake
<1>3. R \ {a} = S
  OBVIOUS
<1>4. SumFunctionOnSet(g, R \ {a}) = SumFunctionOnSet(g, S)
  BY <1>3, Zenon
<1>5. SumFunctionOnSet(g, S) = SumFunctionOnSet(f, S)
  BY SumSame
<1>6. SumFunctionOnSet(f, S) \in Int
  BY SumType
<1> QED
  BY <1>2, <1>4, <1>5, <1>6

\* One of the numbers grows.
LEMMA SumGrows ==
  ASSUME NEW S, IsFiniteSet(S), NEW f, \A x \in S : f[x] \in Int,
         NEW g, NEW a \in S, NEW n \in Int, g[a] = f[a] + n,
         \A x \in S \ {a} : g[x] = f[x]
  PROVE  SumFunctionOnSet(g, S) = SumFunctionOnSet(f, S) + n
<1>1. IsFiniteSet(S \ {a}) /\ g[a] \in Int /\ \A x \in S : g[x] \in Int
  BY FS_RemoveElement
<1>2. /\ SumFunctionOnSet(g, S) = g[a] + SumFunctionOnSet(g, S \ {a})
      /\ SumFunctionOnSet(f, S) = f[a] + SumFunctionOnSet(f, S \ {a})
  BY <1>1, SumTake
<1>3. SumFunctionOnSet(g, S \ {a}) = SumFunctionOnSet(f, S \ {a})
  BY <1>1, SumSame
<1>4. SumFunctionOnSet(f, S \ {a}) \in Int
  BY <1>1, SumType
<1> QED
  BY <1>2, <1>3, <1>4

-----------------------------------------------------------------------------
\* A save has credited its points once it has left its last table write.
Credited == {t \in Threads : pc[t] \in {"unlock", "done"} /\ req[t].op = "save"}
Earnings == [t \in Credited |-> Earned(t)]
Balances == [k \in UsedUsers |-> users[k].mileage]

Balanced ==
  SumFunctionOnSet(Balances, UsedUsers) = SumFunctionOnSet(Earnings, Credited)

PInv == SInv /\ Balanced

\* Finitely many numbers stand on either side.
LEMMA PointsType ==
  ASSUME SInv
  PROVE  /\ IsFiniteSet(UsedUsers) /\ \A k \in UsedUsers : Balances[k] \in Int
         /\ IsFiniteSet(Credited) /\ \A t \in Credited : Earnings[t] \in Int
<1>1. TypeOK /\ \A t \in Threads : Found(t)
  BY DEF SInv, LInv, IInv
<1>2. IsFiniteSet(UsedUsers)
  BY <1>1, FS_Interval DEF UsedUsers, TypeOK
<1>3. \A k \in UsedUsers : Balances[k] \in Int
  <2>1. \A k \in UsedUsers : users[k] \in User
    BY <1>1, DataAssumption DEF TypeOK, UsedUsers, UserSlots, DataAssumption
  <2> QED
    BY <2>1 DEF Balances, User
<1>4. IsFiniteSet(Credited)
  <2>1. Credited \subseteq Entered
    BY DEF Credited, Entered
  <2> QED
    BY <2>1, FS_Subset DEF SInv
<1>5. ASSUME NEW t \in Credited PROVE Earnings[t] \in Int
  <2>1. req[t] \in Requests
    BY <1>1 DEF Credited, Found
  <2> QED
    BY <2>1, RequestType DEF Earnings, Earned
<1> QED
  BY <1>2, <1>3, <1>4, <1>5

\* A step that gives nobody points and finishes no save.
LEMMA QuietPoints ==
  ASSUME Balanced, Credited' = Credited, \A t \in Credited : req'[t] = req[t],
         user_count' = user_count,
         \A k \in UsedUsers : users'[k].mileage = users[k].mileage
  PROVE  Balanced'
<1>1. UsedUsers' = UsedUsers
  BY DEF UsedUsers
<1>2. Earnings' = Earnings
  BY DEF Earnings, Earned
<1>3. Balances' = Balances
  BY <1>1 DEF Balances
<1> QED
  BY <1>1, <1>2, <1>3 DEF Balanced

\* A thread that does not leave save_user_data finishes no save.
LEMMA MoveKeepsCredited ==
  ASSUME TypeOK, NEW t \in Threads, NEW from, NEW to, NEW i, Move(t, from, to, i),
         req[t].op = "save" =>
           (from \in {"unlock", "done"} <=> to \in {"unlock", "done"})
  PROVE  Credited' = Credited /\ req' = req
BY DEF TypeOK, Move, Credited

\* The steps that write no mileage.
LEMMA QuietPointsWork ==
  ASSUME PInv, NEW t \in Threads,
         \/ Lock(t) \/ Unlock(t) \/ FindUser(t) \/ RecordInterval(t) \/ SendUser(t)
         \/ ListUsers(t) \/ AddAdmin(t) \/ FindAdmin(t) \/ DeleteAdmin(t)
  PROVE  Balanced'
<1>1. TypeOK /\ Routed(t) /\ Found(t) /\ Balanced
  BY DEF PInv, SInv, LInv, IInv, Served
<1>2. Credited' = Credited /\ req' = req
  <2>1. CASE Lock(t)
    <3>1. Move(t, "lock", Entry[req[t].op], 0)
      BY <2>1 DEF Lock
    <3>2. req[t].op = "save" => Entry[req[t].op] = "find"
      BY DEF Entry
    <3> QED
      BY <1>1, <3>1, <3>2, MoveKeepsCredited
  <2>2. CASE Unlock(t)
    BY <1>1, <2>2, MoveKeepsCredited DEF Unlock
  <2>3. CASE FindUser(t)
    <3>1. PICK to, i : /\ Move(t, "find", to, i)
                       /\ req[t].op = "save" => to \in {"find", "interval", "append"}
      BY <2>3 DEF FindUser, Scan
    <3> QED
      BY <1>1, <3>1, MoveKeepsCredited
  <2>4. CASE RecordInterval(t)
    BY <1>1, <2>4, MoveKeepsCredited DEF RecordInterval
  <2>5. ASSUME \/ SendUser(t) \/ ListUsers(t) \/ AddAdmin(t) \/ FindAdmin(t)
               \/ DeleteAdmin(t)
        PROVE  Credited' = Credited /\ req' = req
    <3>1. PICK from \in {"reply", "list", "add", "find_admin", "shift"} :
            \E to, i : Move(t, from, to, i)
      BY <2>5 DEF SendUser, ListUsers, AddAdmin, FindAdmin, DeleteAdmin, Scan
    <3>2. req[t].op # "save"
      BY <1>1, <3>1 DEF Routed, OpsAt, Move, Critical
    <3>3. PICK to, i : Move(t, from, to, i)
      BY <3>1
    <3> QED
      BY <1>1, <3>2, <3>3, MoveKeepsCredited
  <2> QED
    BY <2>1, <2>2, <2>3, <2>4, <2>5
<1>3. user_count' = user_count
  BY DEF Lock, Unlock, FindUser, RecordInterval, SendUser, ListUsers, AddAdmin,
         FindAdmin, DeleteAdmin, Scan, Send, userTable
<1>4. ASSUME NEW k \in UsedUsers PROVE users'[k].mileage = users[k].mileage
  <2>1. CASE UNCHANGED users
    BY <2>1
  <2>2. ASSUME NEW j \in IntervalSlots,
               users' = [users EXCEPT ![cursor[t]].intervals[j] = Session(t)]
        PROVE  users'[k].mileage = users[k].mileage
    <3>1. k \in UserSlots /\ users[k] \in User /\ users \in [UserSlots -> User]
      BY <1>1, DataAssumption
      DEF TypeOK, UsedUsers, UserSlots, DataAssumption
    <3> QED
      BY <2>2, <3>1 DEF User
  <2> QED
    BY <2>1, <2>2 DEF Lock, Unlock, FindUser, RecordInterval, SendUser, ListUsers,
       AddAdmin, FindAdmin, DeleteAdmin, Scan, Send, userTable
<1> QED
  BY <1>1, <1>2, <1>3, <1>4, QuietPoints

\* A save that ends adds what it earned to one side.
LEMMA OneMoreCredited ==
  ASSUME SInv, NEW t \in Threads, t \notin Credited, Credited' = Credited \cup {t},
         req' = req, req[t] \in Requests
  PROVE  /\ SumFunctionOnSet(Earnings', Credited')
              = SumFunctionOnSet(Earnings, Credited) + Earned(t)
         /\ Earned(t) \in Int
<1>1. Earned(t) \in Int
  BY RequestType DEF Earned
<1>2. /\ Earnings'[t] = Earned(t)
      /\ \A s \in Credited : Earnings'[s] = Earnings[s]
  BY DEF Earnings, Earned
<1> QED
  BY <1>1, <1>2, PointsType, SumAdds

\* CreditMileage adds it to the other side too, to the user's entry.
LEMMA CreditBalances ==
  ASSUME PInv, NEW t \in Threads, CreditMileage(t)
  PROVE  Balanced'
<1> DEFINE c == cursor[t]
<1>1. /\ TypeOK /\ req[t] \in Requests /\ req[t].op = "save" /\ c \in UsedUsers
  <2>1. pc[t] = "credit" /\ TypeOK /\ Found(t) /\ Routed(t)
    BY DEF CreditMileage, Move, PInv, SInv, LInv, IInv, Served
  <2> QED
    BY <2>1 DEF Found, Routed, OpsAt, Critical
<1>2. /\ Credited' = Credited \cup {t} /\ t \notin Credited /\ req' = req
      /\ UNCHANGED user_count
  BY <1>1 DEF CreditMileage, Move, Credited, TypeOK
<1>3. /\ SumFunctionOnSet(Earnings', Credited')
           = SumFunctionOnSet(Earnings, Credited) + Earned(t)
      /\ Earned(t) \in Int
  BY <1>1, <1>2, OneMoreCredited DEF PInv
<1>4. UsedUsers' = UsedUsers
  BY <1>2 DEF UsedUsers
<1>5. /\ Balances'[c] = Balances[c] + Earned(t)
      /\ \A k \in UsedUsers \ {c} : Balances'[k] = Balances[k]
  <2>1. /\ UsedUsers \subseteq UserSlots /\ users \in [UserSlots -> User]
    BY <1>1, DataAssumption DEF TypeOK, UsedUsers, UserSlots, DataAssumption
  <2>2. users' = [users EXCEPT ![c].mileage = @ + Earned(t)]
    BY DEF CreditMileage
  <2>3. users'[c].mileage = users[c].mileage + Earned(t)
    BY <1>1, <2>1, <2>2 DEF User
  <2>4. \A k \in UsedUsers \ {c} : users'[k] = users[k]
    BY <2>1, <2>2
  <2> QED
    BY <1>1, <1>4, <2>3, <2>4 DEF Balances
<1>6. SumFunctionOnSet(Balances', UsedUsers)
        = SumFunctionOnSet(Balances, UsedUsers) + Earned(t)
  BY <1>1, <1>3, <1>5, PointsType, SumGrows DEF PInv
<1> QED
  BY <1>3, <1>4, <1>6 DEF PInv, Balanced

\* AppendUser does so with the entry of a new user.
LEMMA AppendBalances ==
  ASSUME PInv, NEW t \in Threads, AppendUser(t)
  PROVE  Balanced'
<1> DEFINE n == user_count
<1>1. TypeOK /\ req[t] \in Requests /\ req[t].op = "save"
  <2>1. pc[t] = "append" /\ TypeOK /\ Found(t) /\ Routed(t)
    BY DEF AppendUser, Move, PInv, SInv, LInv, IInv, Served
  <2> QED
    BY <2>1 DEF Found, Routed, OpsAt, Critical
<1>2. /\ Credited' = Credited \cup {t} /\ t \notin Credited /\ req' = req
      /\ n \in Nat /\ n < MAX_USERS /\ user_count' = n + 1
  BY <1>1, DataAssumption
  DEF AppendUser, Move, Credited, TypeOK, DataAssumption
<1>3. /\ SumFunctionOnSet(Earnings', Credited')
           = SumFunctionOnSet(Earnings, Credited) + Earned(t)
      /\ Earned(t) \in Int
  BY <1>1, <1>2, OneMoreCredited DEF PInv
<1>4. /\ n \notin UsedUsers /\ UsedUsers' = UsedUsers \cup {n}
  BY <1>2 DEF UsedUsers
<1>5. /\ Balances'[n] = Earned(t)
      /\ \A k \in UsedUsers : Balances'[k] = Balances[k]
  <2>1. PICK stack \in [IntervalSlots -> {NoInterval, Junk}] :
          users' = [users EXCEPT ![n] = NewUser(t, stack)]
    BY DEF AppendUser
  <2>2. n \in UserSlots /\ UsedUsers \subseteq UserSlots /\ users \in [UserSlots -> User]
    BY <1>1, <1>2, DataAssumption DEF UserSlots, UsedUsers, TypeOK, DataAssumption
  <2>3. users'[n].mileage = Earned(t) /\ \A k \in UsedUsers : users'[k] = users[k]
    BY <1>4, <2>1, <2>2 DEF NewUser
  <2> QED
    BY <1>4, <2>3 DEF Balances
<1>6. SumFunctionOnSet(Balances', UsedUsers')
        = SumFunctionOnSet(Balances, UsedUsers) + Earned(t)
  BY <1>3, <1>4, <1>5, PointsType, SumAdds DEF PInv
<1> QED
  BY <1>3, <1>6 DEF PInv, Balanced

\* Every step keeps the two sides equal.
LEMMA NextKeepsPInv == PInv /\ [Next]_vars => PInv'
<1> SUFFICES ASSUME PInv, [Next]_vars PROVE Balanced'
  BY NextKeepsSInv DEF PInv
<1>0. TypeOK /\ Balanced
  BY DEF PInv, SInv, LInv, IInv
<1>1. CASE UNCHANGED vars
  <2>1. Credited' = Credited
    BY <1>1 DEF vars, Credited
  <2> QED
    BY <1>0, <1>1, <2>1, QuietPoints DEF vars, userTable
<1>2. ASSUME NEW t \in Threads, Work(t) PROVE Balanced'
  <2>1. CASE Overrun(t)
    <3>1. Credited' = Credited
      BY <2>1 DEF Overrun, Credited
    <3> QED
      BY <1>0, <2>1, <3>1, QuietPoints DEF Overrun, userTable
  <2> QED
    BY <1>2, <2>1, QuietPointsWork, CreditBalances, AppendBalances DEF Work
<1>3. ASSUME NEW t \in Threads, Arrive(t) PROVE Balanced'
  <2>1. PICK r \in Requests : Call(t, r)
    BY <1>3 DEF Arrive
  <2>2. /\ pc[t] = "idle" /\ pc'[t] = "lock" /\ UNCHANGED userTable
        /\ \A u \in Threads \ {t} : pc'[u] = pc[u] /\ req'[u] = req[u]
    BY <1>0, <2>1 DEF Call, TypeOK
  <2>3. Credited' = Credited /\ \A s \in Credited : req'[s] = req[s]
    BY <2>2 DEF Credited
  <2> QED
    BY <1>0, <2>2, <2>3, QuietPoints DEF userTable
<1> QED
  BY <1>1, <1>2, <1>3 DEF Next, Rest

\* The mileages are added up by the library in two ways, which agree.
LEMMA MileageSum ==
  MapThenSumSet(LAMBDA k : users[k].mileage, UsedUsers)
    = SumFunctionOnSet(Balances, UsedUsers)
BY DEF MapThenSumSet, MapThenFoldSet, SumFunctionOnSet, FoldFunctionOnSet, Balances

\* Nobody has points at the start.
LEMMA InitPInv == Init => PInv
<1> SUFFICES ASSUME Init PROVE Balanced
  BY InitSInv DEF PInv
<1>1. UsedUsers = {} /\ Credited = {}
  BY DEF Init, UsedUsers, Credited
<1> QED
  BY <1>1, SumEmpty DEF Balanced

\* The mileages of users[] always add up to what the sessions of the calls of
\* save_user_data that have written them earned: however the threads
\* interleave, no credit overwrites another and none is given twice.
THEOREM PointsAddUp ==
  Spec => [](SumFunctionOnSet(Balances, UsedUsers)
               = SumFunctionOnSet(Earnings, Credited))
<1>1. PInv => SumFunctionOnSet(Balances, UsedUsers)
                = SumFunctionOnSet(Earnings, Credited)
  BY DEF PInv, Balanced
<1> QED
  BY <1>1, InitPInv, NextKeepsPInv, PTL DEF Spec
=============================================================================
