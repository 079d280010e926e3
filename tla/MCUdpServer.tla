---------------------------- MODULE MCUdpServer ----------------------------
(***************************************************************************)
(* Instances of UdpServer for TLC: two terminals, short and full           *)
(* datagrams, one datagram of a type the server does not know.             *)
(***************************************************************************)
EXTENDS UdpServer, TLC

CONSTANTS u1, u2, c1, c2

R(op, id, end) == [op |-> op, id |-> id, start |-> 60, end |-> end]
D(request, from, full) == [request |-> request, from |-> from, full |-> full]

MCRequests ==
  {R("save", u1, 125), R("save", u1, 180), R("save", u2, 240),
   R("query", u1, 60), R("list", u1, 60), R("add_admin", u1, 60)}

MCDatagrams == {D(r, c1, FALSE) : r \in MCRequests}
               \cup {D(R("query", u1, 60), c2, TRUE), D(NoRequest, c2, FALSE)}

Symmetric == Permutations(Threads)
=============================================================================
