----------------------------- MODULE UdpServer -----------------------------
(***************************************************************************)
(* The transport of final/server_1.c around UserStore: main receives       *)
(* datagrams and starts one detached thread for each, client_handler       *)
(* decodes the datagram and calls the store.  A datagram may be lost, come *)
(* twice or overtake another, so main may receive any of Datagrams at any  *)
(* time; it does so once per thread, which bounds the model.               *)
(***************************************************************************)
EXTENDS ServerThreads

CONSTANTS
  Clients,        \* addresses of the terminals
  NoClient,       \* any other address
  Datagrams       \* the datagrams the clients may send

\* request is NoRequest for a type client_handler does not know; full says
\* that recvfrom returned BUFFER_SIZE bytes.
Datagram == [request : Requests \cup {NoRequest}, from : Clients,
             full : BOOLEAN]

ASSUME UdpAssumption == Datagrams \subseteq Datagram /\ NoClient \notin Clients

VARIABLES
  datagram,       \* datagram[t]: what thread t was created for
  reply_to        \* reply_to[t]: the address in thread t's clientAddr

udpVars == <<main, tid, thread, datagram, reply_to>>

NoDatagram == [request |-> NoRequest, from |-> NoClient, full |-> FALSE]

UdpInit ==
  /\ Init /\ NoneCreated
  /\ datagram = [t \in Threads |-> NoDatagram]
  /\ reply_to = [t \in Threads |-> NoClient]

\* Faulty Receive: the threads share main's buffer.
ReceiveShared(t, d) ==
  /\ thread[t] = "none" /\ thread' = [thread EXCEPT ![t] = "created"]
  /\ datagram' = [u \in Threads |-> IF thread'[u] = "none" THEN NoDatagram ELSE d]
  /\ tid' = t
  /\ UNCHANGED <<vars, main, reply_to>>

Receive(t, d) ==
  /\ thread[t] = "none" /\ thread' = [thread EXCEPT ![t] = "created"]
  /\ datagram' = [datagram EXCEPT ![t] = d]
  /\ tid' = t
  /\ UNCHANGED <<vars, main, reply_to>>

\* A datagram is received, but no thread can be created for it.
Discard == DetachStale /\ UNCHANGED <<vars, thread, datagram, reply_to>>

\* client_handler looks for the address at BUFFER_SIZE, but main put it right
\* after the bytes received: of a shorter datagram it reads other memory.
Decode(t) ==
  LET d == datagram[t] IN
  /\ thread[t] = "created"
  /\ \E c \in IF d.full THEN {d.from} ELSE Clients \cup {NoClient} :
       reply_to' = [reply_to EXCEPT ![t] = c]
  /\ \/ /\ d.request # NoRequest /\ Call(t, d.request)
        /\ thread' = [thread EXCEPT ![t] = "running"]
     \/ /\ d.request = NoRequest /\ UNCHANGED vars
        /\ thread' = [thread EXCEPT ![t] = "exited"]
  /\ UNCHANGED <<main, tid, datagram>>

Return(t) == Exit(t) /\ UNCHANGED <<vars, main, tid, datagram, reply_to>>

UdpRun(t) ==
  /\ Alive
  /\ Decode(t) \/ Return(t) \/ (Work(t) /\ UNCHANGED udpVars)

\* main is blocked in recvfrom, or the process is dead.
UdpRest == /\ ~Alive \/ \A t \in Threads : thread[t] = "exited"
           /\ UNCHANGED <<vars, udpVars>>

UdpNext ==
  \/ Alive /\ Discard
  \/ \E t \in Threads : UdpRun(t)
  \/ \E t \in Threads, d \in Datagrams : Alive /\ Receive(t, d)
  \/ UdpRest

UdpSpec == UdpInit /\ [][UdpNext]_<<vars, udpVars>>

-----------------------------------------------------------------------------
\* Every thread has a datagram of its own, makes the one call it asks for, or
\* none, and ends when the call has returned; what it answers to is found
\* where main put it if the datagram filled the buffer.
Accounted ==
  \A t \in Threads :
    /\ thread[t] = "none" <=> datagram[t] = NoDatagram
    /\ thread[t] \in {"none", "created"} => pc[t] = "idle" /\ reply_to[t] = NoClient
    /\ thread[t] = "running" => pc[t] # "idle" /\ datagram[t].request # NoRequest
    /\ thread[t] = "exited" =>
         pc[t] = IF datagram[t].request = NoRequest THEN "idle" ELSE "done"
    /\ pc[t] # "idle" => req[t] = datagram[t].request
    /\ thread[t] \in {"running", "exited"} /\ datagram[t].full =>
         reply_to[t] = datagram[t].from

UdpTypeOK ==
  /\ main \in {"listening", "crashed"}
  /\ tid \in Threads \cup {NoThread}
  /\ thread \in [Threads -> {"none", "created", "running", "exited"}]
  /\ datagram \in [Threads -> Datagrams \cup {NoDatagram}]
  /\ reply_to \in [Threads -> Clients \cup {NoClient}]
  /\ Accounted

\* Points are neither lost nor made up on the way from the datagrams to the
\* table: once the threads of the save datagrams have exited, the mileages
\* add up to what these sessions earned, in whatever order they came.
PointsConserved ==
  LET saves  == {t \in Threads : datagram[t].request.op = "save"}
      earned == [t \in saves |-> calculate_mileage(datagram[t].request.start,
                                                   datagram[t].request.end)]
  IN Alive /\ (\A t \in saves : thread[t] = "exited") =>
       MapThenSumSet(LAMBDA k : users[k].mileage, UsedUsers)
         = SumFunctionOnSet(earned, saves)

\* "send user data to the terminal": a reply goes to the terminal that asked.
ReplyReachesTerminal ==
  \A t \in Threads : outbox[t] # <<>> => reply_to[t] = datagram[t].from
=============================================================================
