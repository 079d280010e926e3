---------------------------- MODULE MCTcpServer ----------------------------
(***************************************************************************)
(* Instances of TcpServer for TLC.                                         *)
(***************************************************************************)
EXTENDS TcpServer

CONSTANTS u1, u2

R(op, id, end) == [op |-> op, id |-> id, start |-> 60, end |-> end]

MCRequests == {R("save", u1, 125), R("query", u2, 60), R("list", u1, 60)}
=============================================================================
