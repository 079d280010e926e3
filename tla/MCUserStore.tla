---------------------------- MODULE MCUserStore ----------------------------
(***************************************************************************)
(* Instances of UserStore for TLC: three RFIDs, sessions of one and of two *)
(* minutes (and one that ends before it starts), every kind of request.    *)
(***************************************************************************)
EXTENDS UserStoreProps, TLC

CONSTANTS u1, u2, u3

R(op, id, end) == [op |-> op, id |-> id, start |-> 60, end |-> end]

UserRequests ==
  {R("save", u1, 125), R("save", u1, 180), R("save", u2, 0), R("save", u3, 60),
   R("query", u1, 60), R("list", u1, 60)}

AdminRequests ==
  {R("add_admin", u1, 60), R("add_admin", u2, 60), R("delete_admin", u1, 60),
   R("no_such_type", u1, 60)}

AllRequests == UserRequests \cup AdminRequests

Symmetric == Permutations(Threads)
=============================================================================
