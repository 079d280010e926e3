----------------------------- MODULE UserStore -----------------------------
(***************************************************************************)
(* The tables of final/server_1.c and the three functions its threads call *)
(* on them: save_user_data, send_user_data_to_terminal and                 *)
(* handle_admin_request.  Each runs under the one mutex, and each loop     *)
(* iteration, table write and sendto is a step of its own, so that a       *)
(* missing or misplaced lock shows.  How a request reaches a thread, and   *)
(* where its reply goes, is the transport's (UdpServer).                   *)
(***************************************************************************)
EXTENDS UserData, Sequences

CONSTANTS
  Threads,        \* one thread per request received; bounds the model
  NoThread        \* the mutex is free

ASSUME ThreadAssumption == NoThread \notin Threads

VARIABLES
  users,          \* struct user users[MAX_USERS]
  user_count,
  admins,         \* struct admin admins[MAX_ADMINS]
  admin_count,
  lock,           \* the thread that holds the mutex
  status,         \* "overrun" once a user was stored past the end of users[]
  pc,             \* pc[t]: where thread t is
  req,            \* req[t]: what thread t was asked
  cursor,         \* cursor[t]: the loop index of thread t
  outbox          \* outbox[t]: the entries thread t sent, in order

userTable  == <<users, user_count>>
adminTable == <<admins, admin_count>>
vars == <<userTable, adminTable, lock, status, pc, req, cursor, outbox>>

\* The program points between a thread's pthread_mutex_lock and its unlock.
Critical == {"find", "interval", "credit", "append", "reply", "list",
             "add", "find_admin", "shift", "unlock"}

Init ==
  /\ users = [k \in UserSlots |-> ZeroUser] /\ user_count = 0
  /\ admins = [k \in AdminSlots |-> NoId] /\ admin_count = 0
  /\ lock = NoThread /\ status = "up"
  /\ pc = [t \in Threads |-> "idle"] /\ req = [t \in Threads |-> NoRequest]
  /\ cursor = [t \in Threads |-> 0] /\ outbox = [t \in Threads |-> <<>>]

\* client_handler has decoded a request and calls the function it is for.
Call(t, r) ==
  /\ pc[t] = "idle" /\ pc' = [pc EXCEPT ![t] = "lock"]
  /\ req' = [req EXCEPT ![t] = r]
  /\ UNCHANGED <<userTable, adminTable, lock, status, cursor, outbox>>

\* The first point after the lock.
Entry == [save |-> "find", query |-> "find", list |-> "list",
          add_admin |-> "add", delete_admin |-> "find_admin",
          no_such_type |-> "unlock"]

\* Thread t goes from a point to a point, its loop index becoming i.
Move(t, from, to, i) ==
  /\ pc[t] = from /\ pc' = [pc EXCEPT ![t] = to]
  /\ cursor' = [cursor EXCEPT ![t] = i]
  /\ UNCHANGED <<status, req>>

Lock(t) ==
  /\ lock = NoThread /\ lock' = t
  /\ Move(t, "lock", Entry[req[t].op], 0)
  /\ UNCHANGED <<userTable, adminTable, outbox>>

Unlock(t) ==
  /\ Move(t, "unlock", "done", 0)
  /\ lock' = NoThread
  /\ UNCHANGED <<userTable, adminTable, outbox>>

\* Faulty Scan: the loop index does not advance.
ScanStuck(t, here, n, hit, found, missed) ==
  /\ \/ cursor[t] < n /\ ~hit /\ Move(t, here, here, cursor[t])
     \/ cursor[t] < n /\ hit /\ Move(t, here, found, cursor[t])
     \/ cursor[t] >= n /\ Move(t, here, missed, cursor[t])
  /\ UNCHANGED <<userTable, adminTable, lock, outbox>>

\* One round of a loop over the first n entries of a table: hit says that
\* the entry at the loop index is the one looked for.
Scan(t, here, n, hit, found, missed) ==
  /\ \/ cursor[t] < n /\ ~hit /\ Move(t, here, here, cursor[t] + 1)
     \/ cursor[t] < n /\ hit /\ Move(t, here, found, cursor[t])
     \/ cursor[t] >= n /\ Move(t, here, missed, cursor[t])
  /\ UNCHANGED <<userTable, adminTable, lock, outbox>>

-----------------------------------------------------------------------------
\* save_user_data and send_user_data_to_terminal

\* Faulty FindUser: the search stops one entry early.
FindUserSkipsLast(t) ==
  LET saving == req[t].op = "save" IN
  Scan(t, "find", user_count - 1, users[cursor[t]].id = req[t].id,
       IF saving THEN "interval" ELSE "reply",
       IF saving THEN "append" ELSE "unlock")

FindUser(t) ==
  LET saving == req[t].op = "save" IN
  Scan(t, "find", user_count, users[cursor[t]].id = req[t].id,
       IF saving THEN "interval" ELSE "reply",
       IF saving THEN "append" ELSE "unlock")

Session(t) == [start |-> req[t].start, end |-> req[t].end]
Earned(t)  == calculate_mileage(req[t].start, req[t].end)

\* Faulty RecordInterval: always the first slot.
RecordIntervalFirst(t) ==
  /\ Move(t, "interval", "credit", cursor[t])
  /\ users' = [users EXCEPT ![cursor[t]].intervals[0] = Session(t)]
  /\ UNCHANGED <<user_count, adminTable, lock, outbox>>

\* The session goes into the first slot whose start is 0; a full list keeps
\* its intervals, and the new one is dropped.
RecordInterval(t) ==
  LET iv == users[cursor[t]].intervals
      InUse(j) == iv[j].start # 0
  IN
  /\ Move(t, "interval", "credit", cursor[t])
  /\ \/ \E j \in IntervalSlots :
          /\ ~InUse(j) /\ \A k \in 0 .. j - 1 : InUse(k)
          /\ users' = [users EXCEPT ![cursor[t]].intervals[j] = Session(t)]
     \/ (\A j \in IntervalSlots : InUse(j)) /\ UNCHANGED users
  /\ UNCHANGED <<user_count, adminTable, lock, outbox>>

\* Faulty CreditMileage: = for +=.
CreditMileageResets(t) ==
  /\ Move(t, "credit", "unlock", cursor[t])
  /\ users' = [users EXCEPT ![cursor[t]].mileage = Earned(t)]
  /\ UNCHANGED <<user_count, adminTable, lock, outbox>>

CreditMileage(t) ==
  /\ Move(t, "credit", "unlock", cursor[t])
  /\ users' = [users EXCEPT ![cursor[t]].mileage = @ + Earned(t)]
  /\ UNCHANGED <<user_count, adminTable, lock, outbox>>

\* new_user is a local variable of which only intervals[0] is assigned: the
\* other slots hold zeroes or whatever the stack held.
NewUser(t, stack) ==
  [id |-> req[t].id, mileage |-> Earned(t),
   intervals |-> [stack EXCEPT ![0] = Session(t)]]

AppendUser(t) ==
  /\ user_count < MAX_USERS
  /\ Move(t, "append", "unlock", cursor[t])
  /\ \E stack \in [IntervalSlots -> {NoInterval, Junk}] :
       users' = [users EXCEPT ![user_count] = NewUser(t, stack)]
  /\ user_count' = user_count + 1
  /\ UNCHANGED <<adminTable, lock, outbox>>

\* user_count is not compared with MAX_USERS: the entry lands in whatever
\* follows users[].  What the program does from there on is undefined, and
\* the model stops.
Overrun(t) ==
  /\ pc[t] = "append" /\ user_count = MAX_USERS
  /\ status' = "overrun"
  /\ UNCHANGED <<userTable, adminTable, lock, pc, req, cursor, outbox>>

Send(t, u) == /\ outbox' = [outbox EXCEPT ![t] = Append(@, u)]
              /\ UNCHANGED <<userTable, adminTable, lock>>

\* Faulty SendUser: the early return forgets the unlock.
SendUserLocked(t) == /\ Move(t, "reply", "done", cursor[t])
                     /\ Send(t, users[cursor[t]])

SendUser(t) == /\ Move(t, "reply", "unlock", cursor[t])
               /\ Send(t, users[cursor[t]])

-----------------------------------------------------------------------------
\* handle_admin_request

ListUsers(t) ==
  \/ /\ cursor[t] < user_count
     /\ Move(t, "list", "list", cursor[t] + 1)
     /\ Send(t, users[cursor[t]])
  \/ /\ cursor[t] >= user_count
     /\ Move(t, "list", "unlock", cursor[t])
     /\ UNCHANGED <<userTable, adminTable, lock, outbox>>

\* Faulty AddAdmin: <= for <.
AddAdminOneMore(t) ==
  /\ Move(t, "add", "unlock", cursor[t])
  /\ \/ /\ admin_count <= MAX_ADMINS
        /\ admins' = [admins EXCEPT ![admin_count] = req[t].id]
        /\ admin_count' = admin_count + 1
     \/ admin_count > MAX_ADMINS /\ UNCHANGED adminTable
  /\ UNCHANGED <<userTable, lock, outbox>>

\* Nothing looks whether the id is an administrator already.
AddAdmin(t) ==
  /\ Move(t, "add", "unlock", cursor[t])
  /\ \/ /\ admin_count < MAX_ADMINS
        /\ admins' = [admins EXCEPT ![admin_count] = req[t].id]
        /\ admin_count' = admin_count + 1
     \/ admin_count >= MAX_ADMINS /\ UNCHANGED adminTable
  /\ UNCHANGED <<userTable, lock, outbox>>

FindAdmin(t) ==
  Scan(t, "find_admin", admin_count, admins[cursor[t]] = req[t].id,
       "shift", "unlock")

\* Faulty DeleteAdmin: the last entry does not move up.
DeleteAdminShort(t) ==
  /\ \/ /\ cursor[t] < admin_count - 2
        /\ Move(t, "shift", "shift", cursor[t] + 1)
        /\ admins' = [admins EXCEPT ![cursor[t]] = admins[cursor[t] + 1]]
        /\ UNCHANGED admin_count
     \/ /\ cursor[t] >= admin_count - 2
        /\ Move(t, "shift", "unlock", cursor[t])
        /\ admin_count' = admin_count - 1
        /\ UNCHANGED admins
  /\ UNCHANGED <<userTable, lock, outbox>>

\* The entries after the one found move up, then the last one is dropped.
DeleteAdmin(t) ==
  /\ \/ /\ cursor[t] < admin_count - 1
        /\ Move(t, "shift", "shift", cursor[t] + 1)
        /\ admins' = [admins EXCEPT ![cursor[t]] = admins[cursor[t] + 1]]
        /\ UNCHANGED admin_count
     \/ /\ cursor[t] >= admin_count - 1
        /\ Move(t, "shift", "unlock", cursor[t])
        /\ admin_count' = admin_count - 1
        /\ UNCHANGED admins
  /\ UNCHANGED <<userTable, lock, outbox>>

-----------------------------------------------------------------------------
\* A step of thread t inside one of the three functions.
Work(t) ==
  /\ status = "up"
  /\ \/ Lock(t) \/ Unlock(t) \/ FindUser(t) \/ RecordInterval(t)
     \/ CreditMileage(t) \/ AppendUser(t) \/ Overrun(t) \/ SendUser(t)
     \/ ListUsers(t) \/ AddAdmin(t) \/ FindAdmin(t) \/ DeleteAdmin(t)

Arrive(t) == status = "up" /\ \E r \in Requests : Call(t, r)

\* The server waits for a request, all it got having been served, or is dead.
Rest == /\ status = "overrun" \/ \A t \in Threads : pc[t] = "done"
        /\ UNCHANGED vars

Next == Rest \/ \E t \in Threads : Work(t) \/ Arrive(t)

Spec == Init /\ [][Next]_vars

FairSpec == Spec /\ \A t \in Threads : WF_vars(Work(t))

-----------------------------------------------------------------------------
TypeOK ==
  /\ users \in [UserSlots -> User]
  /\ user_count \in 0 .. MAX_USERS
  /\ admins \in [AdminSlots -> Ids \cup {NoId}]
  /\ admin_count \in 0 .. MAX_ADMINS
  /\ lock \in Threads \cup {NoThread}
  /\ status \in {"up", "overrun"}
  /\ pc \in [Threads -> Critical \cup {"idle", "lock", "done"}]
  /\ req \in [Threads -> Requests \cup {NoRequest}]
  /\ cursor \in [Threads -> Nat]
  /\ outbox \in [Threads -> Seq(User)]
=============================================================================
