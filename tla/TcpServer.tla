----------------------------- MODULE TcpServer -----------------------------
(***************************************************************************)
(* The TCP server of server/server.c: main accepts connections and starts  *)
(* a detached thread for each, client_handler reads once, takes what it    *)
(* got for a message, calls the function it is for and closes the socket.  *)
(* The three functions are those of final/server_1.c, line by line, with   *)
(* write(client_socket, ...) for sendto, so UserStore stands for them; a   *)
(* connection is named after its thread.                                   *)
(***************************************************************************)
EXTENDS ServerThreads

VARIABLES
  open,           \* the connections whose socket is open in the server
  sent,           \* sent[t]: the request of the client, NoRequest if its type
                  \* is none the server knows
  arrived,        \* arrived[t]: how much of it came in time to be read: "none",
                  \* "part" or "whole"
  gone            \* the connections the client has closed

tcpVars == <<main, tid, thread, open, sent, arrived, gone>>

Messages == Requests \cup {NoRequest}

TcpInit ==
  /\ Init /\ NoneCreated /\ open = {}
  /\ sent = [t \in Threads |-> NoRequest]
  /\ arrived = [t \in Threads |-> "none"] /\ gone = {}

-----------------------------------------------------------------------------
\* The clients, and the network between.

Arrives(t) ==
  /\ thread[t] = "reading" /\ t \notin gone
  /\ \/ arrived[t] # "whole" /\ arrived' = [arrived EXCEPT ![t] = "whole"]
     \/ arrived[t] = "none" /\ arrived' = [arrived EXCEPT ![t] = "part"]
  /\ UNCHANGED <<vars, main, tid, thread, open, sent, gone>>

ClosesEnd(t) ==
  /\ thread[t] \in {"reading", "running"} /\ t \notin gone
  /\ gone' = gone \cup {t}
  /\ UNCHANGED <<vars, main, tid, thread, open, sent, arrived>>

-----------------------------------------------------------------------------
Accept(t, m) ==
  /\ thread[t] = "none"
  /\ open' = open \cup {t} /\ sent' = [sent EXCEPT ![t] = m]
  /\ UNCHANGED <<vars, arrived, gone>>

\* pthread_detach gets the thread just created, ended or not.
Create(t) ==
  /\ thread' = [thread EXCEPT ![t] = "reading"] /\ tid' = t
  /\ UNCHANGED main

\* The descriptor's number is freed, the socket stays open.
CreateFails(t) == thread' = [thread EXCEPT ![t] = "failed"] /\ DetachStale

\* Faulty ReadFails: returns without closing the socket.
ReadFailsOpen(t) ==
  /\ thread[t] = "reading" /\ t \in gone
  /\ thread' = [thread EXCEPT ![t] = "exited"]
  /\ UNCHANGED <<vars, main, tid, open, sent, arrived, gone>>

\* The connection was reset before the message was read.
ReadFails(t) ==
  /\ thread[t] = "reading" /\ t \in gone
  /\ thread' = [thread EXCEPT ![t] = "exited"] /\ open' = open \ {t}
  /\ UNCHANGED <<vars, main, tid, sent, arrived, gone>>

\* What msg holds after one read: the message, or, if it came in part or the
\* client closed first, whatever the stack had in the rest.
Read(t) == CASE arrived[t] = "whole" -> {sent[t]}
             [] arrived[t] = "part"  -> Messages
             [] arrived[t] = "none"  -> IF t \in gone THEN Messages ELSE {}

Handle(t) ==
  /\ thread[t] = "reading"
  /\ \E m \in Read(t) :
       \/ /\ m # NoRequest /\ Call(t, m)
          /\ thread' = [thread EXCEPT ![t] = "running"] /\ UNCHANGED open
       \/ /\ m = NoRequest /\ UNCHANGED vars
          /\ thread' = [thread EXCEPT ![t] = "exited"] /\ open' = open \ {t}
  /\ UNCHANGED <<main, tid, sent, arrived, gone>>

\* A write to a connection the client has closed may raise SIGPIPE, which
\* nobody handles.
Serve(t) ==
  /\ thread[t] = "running" /\ Work(t)
  /\ \/ main' = main
     \/ outbox'[t] # outbox[t] /\ t \in gone /\ main' = "killed"
  /\ UNCHANGED <<tid, thread, open, sent, arrived, gone>>

Close(t) ==
  /\ Exit(t) /\ open' = open \ {t}
  /\ UNCHANGED <<vars, main, tid, sent, arrived, gone>>

-----------------------------------------------------------------------------
TcpRun(t) == Alive /\ (ReadFails(t) \/ Handle(t) \/ Serve(t) \/ Close(t))

\* main is blocked in accept and the threads have ended, or wait for clients
\* that send nothing; or the process is dead.
Waits(t) == thread[t] \in {"exited", "failed"} \/ (thread[t] = "reading" /\ Read(t) = {})

TcpRest == /\ ~Alive \/ \A t \in Threads : Waits(t)
           /\ UNCHANGED <<vars, tcpVars>>

TcpNext ==
  \/ \E t \in Threads : TcpRun(t) \/ (Alive /\ (Arrives(t) \/ ClosesEnd(t)))
  \/ \E t \in Threads, m \in Messages :
       Alive /\ Accept(t, m) /\ (Create(t) \/ CreateFails(t))
  \/ TcpRest

TcpSpec == TcpInit /\ [][TcpNext]_<<vars, tcpVars>>

FairTcpSpec == TcpSpec /\ \A t \in Threads : WF_<<vars, tcpVars>>(TcpRun(t))

-----------------------------------------------------------------------------
\* A socket is open exactly until its thread has returned.
TcpTypeOK ==
  /\ main \in {"listening", "crashed", "killed"}
  /\ tid \in Threads \cup {NoThread}
  /\ thread \in [Threads -> {"none", "reading", "running", "exited", "failed"}]
  /\ open = {t \in Threads : thread[t] \in {"reading", "running", "failed"}}
  /\ gone \subseteq Threads /\ sent \in [Threads -> Messages]
  /\ arrived \in [Threads -> {"none", "part", "whole"}]

\* Whenever no request is being worked on, and if every message handled had
\* arrived whole before the one read, the mileages add up to what the
\* sessions sent by the clients that were served earned.
PointsAsSent ==
  LET served == {t \in Threads : pc[t] # "idle"}
      saves  == {t \in served : sent[t].op = "save"}
      earned == [t \in saves |-> calculate_mileage(sent[t].start, sent[t].end)]
  IN Alive /\ (\A t \in served : pc[t] = "done" /\ arrived[t] = "whole") =>
       MapThenSumSet(LAMBDA k : users[k].mileage, UsedUsers)
         = SumFunctionOnSet(earned, saves)

\* A thread that has something to read, or whose client has closed, closes
\* its socket in the end, on every way through client_handler.
EverySocketClosed ==
  \A t \in Threads :
    thread[t] = "reading" /\ (arrived[t] # "none" \/ t \in gone)
      ~> t \notin open \/ ~Alive
=============================================================================
