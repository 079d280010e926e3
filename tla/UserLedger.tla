---------------------------- MODULE UserLedger -----------------------------
(***************************************************************************)
(* What the user server promises: every request takes effect at one        *)
(* instant between its call and its return, as if the requests were served *)
(* one at a time.  A save adds the points of one session to one account, a *)
(* query or a list answers with accounts as they are at that instant, and  *)
(* the administrators are a list that keeps its order.                     *)
(*                                                                         *)
(* Intervals are not part of the promise: the program may drop them (see   *)
(* UserStore).  Nor is anything promised once users[] is full.             *)
(***************************************************************************)
EXTENDS UserData

CONSTANT Threads   \* one per request in progress

VARIABLES
  accounts,     \* function from the ids of the known users to their mileage
  admin_list,   \* the administrators, a function on 0 .. n-1
  call,         \* call[t]: how far the request of thread t has got
  request,      \* request[t]: what thread t was asked
  answer        \* answer[t]: the accounts thread t sent back

vars == <<accounts, admin_list, call, request, answer>>

Account(a) == [id |-> a, mileage |-> accounts[a]]

\* The account of id after a session worth points; the first session of an
\* unknown id opens its account.
Credit(id, points) ==
  [a \in DOMAIN accounts \cup {id} |->
     (IF a \in DOMAIN accounts THEN accounts[a] ELSE 0)
       + (IF a = id THEN points ELSE 0)]

Init ==
  /\ accounts = [a \in {} |-> 0]
  /\ admin_list = [k \in {} |-> NoId]
  /\ call = [t \in Threads |-> "idle"]
  /\ request = [t \in Threads |-> NoRequest]
  /\ answer = [t \in Threads |-> {}]

Begin(t, r) ==
  /\ call[t] = "idle"
  /\ call' = [call EXCEPT ![t] = "pending"]
  /\ request' = [request EXCEPT ![t] = r]
  /\ UNCHANGED <<accounts, admin_list, answer>>

Finish(t, op) ==
  /\ call[t] = "pending"
  /\ request[t].op = op
  /\ call' = [call EXCEPT ![t] = "done"]
  /\ UNCHANGED request

Save(t) ==
  /\ Finish(t, "save")
  /\ accounts' = Credit(request[t].id,
                        calculate_mileage(request[t].start, request[t].end))
  /\ UNCHANGED <<admin_list, answer>>

Query(t) ==
  /\ Finish(t, "query")
  /\ answer' = [answer EXCEPT ![t] =
                  {Account(a) : a \in DOMAIN accounts \cap {request[t].id}}]
  /\ UNCHANGED <<accounts, admin_list>>

List(t) ==
  /\ Finish(t, "list")
  /\ answer' = [answer EXCEPT ![t] = {Account(a) : a \in DOMAIN accounts}]
  /\ UNCHANGED <<accounts, admin_list>>

\* A full list stays as it is.
AddAdmin(t) ==
  /\ Finish(t, "add_admin")
  /\ \/ \E n \in 0 .. MAX_ADMINS - 1 :
          /\ DOMAIN admin_list = 0 .. n - 1
          /\ admin_list' = [k \in 0 .. n |->
                              IF k = n THEN request[t].id ELSE admin_list[k]]
     \/ /\ DOMAIN admin_list = AdminSlots
        /\ UNCHANGED admin_list
  /\ UNCHANGED <<accounts, answer>>

\* The first entry that holds the id goes, the later ones move up.
DeleteAdmin(t) ==
  /\ Finish(t, "delete_admin")
  /\ \/ \E n \in 1 .. MAX_ADMINS : \E i \in 0 .. n - 1 :
          /\ DOMAIN admin_list = 0 .. n - 1
          /\ admin_list[i] = request[t].id
          /\ \A k \in 0 .. i - 1 : admin_list[k] # request[t].id
          /\ admin_list' = [k \in 0 .. n - 2 |->
                              admin_list[IF k < i THEN k ELSE k + 1]]
     \/ /\ \A k \in DOMAIN admin_list : admin_list[k] # request[t].id
        /\ UNCHANGED admin_list
  /\ UNCHANGED <<accounts, answer>>

Ignore(t) ==
  /\ Finish(t, "no_such_type")
  /\ UNCHANGED <<accounts, admin_list, answer>>

Serve(t) ==
  \/ Save(t) \/ Query(t) \/ List(t)
  \/ AddAdmin(t) \/ DeleteAdmin(t) \/ Ignore(t)

Next == \E t \in Threads : Serve(t) \/ \E r \in Requests : Begin(t, r)

Spec == Init /\ [][Next]_vars
=============================================================================
