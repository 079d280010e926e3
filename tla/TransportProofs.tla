--------------------------- MODULE TransportProofs ---------------------------
(***************************************************************************)
(* Proofs that either server as a whole calls the functions of UserStore   *)
(* as UserStore says they are called, so that whatever holds of the tables *)
(* there holds in the server: final/server_1.c, datagrams lost, doubled    *)
(* and out of order, threads that could not be created and all, and        *)
(* server/server.c with clients that close early or send half a message;   *)
(* and that the points on the tables are those of the messages.            *)
(***************************************************************************)
EXTENDS UdpServer, TcpServer, UserStoreProofs

-----------------------------------------------------------------------------
(* final/server_1.c                                                        *)

UdpRanges ==
  /\ main \in {"listening", "crashed"}
  /\ tid \in Threads \cup {NoThread}
  /\ thread \in [Threads -> {"none", "created", "running", "exited"}]
  /\ datagram \in [Threads -> Datagrams \cup {NoDatagram}]
  /\ reply_to \in [Threads -> Clients \cup {NoClient}]

\* A datagram has a client, a request and a length.
LEMMA DatagramType ==
  \A d \in Datagrams \cup {NoDatagram} :
    /\ d.request \in Requests \cup {NoRequest}
    /\ d.from \in Clients \cup {NoClient}
<1>1. \A d \in Datagrams : d \in Datagram
  BY UdpAssumption DEF UdpAssumption
<1> QED
  BY <1>1 DEF Datagram, NoDatagram

\* A step of the transport is none of UserStore, a call, or a step inside.
LEMMA UdpStep ==
  ASSUME UdpRanges, [UdpNext]_<<vars, udpVars>>
  PROVE  [Next]_vars
<1>1. ASSUME NEW t \in Threads, UdpRun(t) PROVE [Next]_vars
  <2>1. CASE Decode(t)
    <3>1. datagram[t].request \in Requests \cup {NoRequest}
      BY DatagramType DEF UdpRanges
    <3>2. CASE datagram[t].request # NoRequest /\ Call(t, datagram[t].request)
      BY <1>1, <3>1, <3>2 DEF UdpRun, Alive, Arrive, Next
    <3>3. CASE UNCHANGED vars
      BY <3>3
    <3> QED
      BY <2>1, <3>2, <3>3 DEF Decode
  <2>2. CASE Return(t)
    BY <2>2 DEF Return, Exit
  <2>3. CASE Work(t)
    BY <2>3 DEF Next
  <2> QED
    BY <1>1, <2>1, <2>2, <2>3 DEF UdpRun
<1>2. CASE Discard \/ UdpRest \/ UNCHANGED <<vars, udpVars>>
  BY <1>2 DEF Discard, UdpRest
<1>3. ASSUME NEW t \in Threads, NEW d \in Datagrams, Receive(t, d)
      PROVE  [Next]_vars
  BY <1>3 DEF Receive
<1> QED
  BY <1>1, <1>2, <1>3 DEF UdpNext

\* Before main receives anything.
LEMMA UdpRangesInit == UdpInit => UdpRanges
BY DEF UdpInit, NoneCreated, UdpRanges

\* Every step keeps the ranges of the transport's variables.
LEMMA UdpRangesNext == UdpRanges /\ [UdpNext]_<<vars, udpVars>> => UdpRanges'
<1> SUFFICES ASSUME UdpRanges, [UdpNext]_<<vars, udpVars>> PROVE UdpRanges'
  OBVIOUS
<1> USE DEF UdpRanges
<1>1. ASSUME NEW t \in Threads, Decode(t) PROVE UdpRanges'
  <2>1. reply_to' \in [Threads -> Clients \cup {NoClient}]
    <3>1. /\ datagram[t].from \in Clients \cup {NoClient}
      BY DatagramType
    <3> QED
      BY <1>1, <3>1 DEF Decode
  <2>2. thread' \in [Threads -> {"none", "created", "running", "exited"}]
    BY <1>1 DEF Decode
  <2> QED
    BY <1>1, <2>1, <2>2 DEF Decode
<1>2. ASSUME NEW t \in Threads, Return(t) PROVE UdpRanges'
  BY <1>2 DEF Return, Exit
<1>3. ASSUME NEW t \in Threads, UdpRun(t) PROVE UdpRanges'
  BY <1>1, <1>2, <1>3 DEF UdpRun, udpVars
<1>4. CASE Discard
  BY <1>4 DEF Discard, DetachStale
<1>5. ASSUME NEW t \in Threads, NEW d \in Datagrams, Receive(t, d)
      PROVE  UdpRanges'
  BY <1>5 DEF Receive
<1>6. CASE UNCHANGED udpVars
  BY <1>6 DEF udpVars
<1> QED
  BY <1>3, <1>4, <1>5, <1>6 DEF UdpNext, UdpRest

LEMMA UdpRangesAlways == UdpSpec => []UdpRanges
BY UdpRangesInit, UdpRangesNext, PTL DEF UdpSpec

\* The UDP server is the table server with a transport around it: what main
\* and client_handler do to the tables, whatever the network does to the
\* datagrams, is what UserStore does.
THEOREM UdpServesStore == UdpSpec => Spec
<1>1. UdpInit => Init
  BY DEF UdpInit, NoneCreated
<1>2. UdpRanges /\ [UdpNext]_<<vars, udpVars>> => [Next]_vars
  BY UdpStep
<1> QED
  BY <1>1, <1>2, UdpRangesAlways, PTL DEF UdpSpec, Spec

\* So the mutex excludes, no user gets a second entry, no session is lost and
\* the requests take effect one after another in the UDP server too, also
\* when a datagram was delivered twice: its copy is a request of its own.
THEOREM UdpTables ==
  UdpSpec => /\ []TypeOK /\ []LockHeld /\ []OneEntryPerUser
             /\ []SessionsRecorded /\ ImplementsLedger
BY UdpServesStore, TypeCorrect, MutexHeld, NoSecondEntry, NoSessionLost,
   ServesOneAtATime

-----------------------------------------------------------------------------
\* Only a thread that is inside its call moves on inside UserStore.
LEMMA WorkMoves ==
  ASSUME TypeOK, NEW t \in Threads, Work(t)
  PROVE  /\ pc[t] \notin {"idle", "done"} /\ req' = req
         /\ \A u \in Threads \ {t} : pc'[u] = pc[u]
BY DEF Work, Lock, Unlock, FindUser, RecordInterval, CreditMileage, AppendUser,
       Overrun, SendUser, ListUsers, AddAdmin, FindAdmin, DeleteAdmin, Scan, Move,
       TypeOK

\* A call that has been made is not unmade.
LEMMA CallGoesOn ==
  ASSUME TypeOK, UdpRanges, Accounted, NEW t \in Threads, Work(t)
  PROVE  pc'[t] # "idle"
<1>1. CASE Lock(t)
  <2>1. pc[t] = "lock" /\ pc' = [pc EXCEPT ![t] = Entry[req[t].op]]
    BY <1>1 DEF Lock, Move
  <2>2. thread[t] = "running" /\ req[t] \in Requests
    BY <2>1, DatagramType DEF UdpRanges, Accounted
  <2>3. Entry[req[t].op] # "idle"
    <3>1. req[t].op \in Ops
      BY <2>2, RequestType
    <3> QED
      BY <3>1 DEF Entry, Ops
  <2> QED
    BY <2>1, <2>3 DEF TypeOK
<1>2. CASE Overrun(t)
  BY <1>2 DEF Overrun
<1>3. CASE FindUser(t) \/ FindAdmin(t)
  <2>1. \E to \in Points \ {"idle"} : pc' = [pc EXCEPT ![t] = to]
    BY <1>3 DEF FindUser, FindAdmin, Scan, Move, Points, Critical
  <2> QED
    BY <2>1 DEF TypeOK
<1>4. CASE \/ Unlock(t) \/ RecordInterval(t) \/ CreditMileage(t) \/ AppendUser(t)
           \/ SendUser(t) \/ ListUsers(t) \/ AddAdmin(t) \/ DeleteAdmin(t)
  <2>1. \E to \in Points \ {"idle"} : pc' = [pc EXCEPT ![t] = to]
    BY <1>4 DEF Unlock, RecordInterval, CreditMileage, AppendUser, SendUser,
                ListUsers, AddAdmin, DeleteAdmin, Move, Points, Critical
  <2> QED
    BY <2>1 DEF TypeOK
<1> QED
  BY <1>1, <1>2, <1>3, <1>4 DEF Work

\* Every step keeps the threads accounted for.
LEMMA AccountedNext ==
  TypeOK /\ UdpRanges /\ Accounted /\ [UdpNext]_<<vars, udpVars>> => Accounted'
<1> SUFFICES ASSUME TypeOK, UdpRanges, Accounted, [UdpNext]_<<vars, udpVars>>
             PROVE  Accounted'
  OBVIOUS
<1>1. ASSUME NEW t \in Threads, Decode(t) PROVE Accounted'
  <2>1. /\ thread[t] = "created" /\ datagram' = datagram
        /\ \A u \in Threads \ {t} : thread'[u] = thread[u] /\ reply_to'[u] = reply_to[u]
        /\ datagram[t].full => reply_to'[t] = datagram[t].from
    BY <1>1 DEF Decode, UdpRanges
  <2>2. \A u \in Threads \ {t} : pc'[u] = pc[u] /\ req'[u] = req[u]
    BY <1>1 DEF Decode, Call, TypeOK, vars
  <2>3. \/ /\ thread'[t] = "running" /\ req'[t] = datagram[t].request
           /\ pc'[t] = "lock" /\ datagram[t].request # NoRequest
        \/ /\ thread'[t] = "exited" /\ datagram[t].request = NoRequest
           /\ pc'[t] = pc[t]
    BY <1>1 DEF Decode, Call, TypeOK, UdpRanges, vars
  <2> QED
    BY <2>1, <2>2, <2>3 DEF Accounted
<1>2. ASSUME NEW t \in Threads, Return(t) PROVE Accounted'
  BY <1>2 DEF Return, Exit, Accounted, UdpRanges, vars
<1>3. ASSUME NEW t \in Threads, Work(t), UNCHANGED udpVars PROVE Accounted'
  BY <1>3, WorkMoves, CallGoesOn DEF Accounted, udpVars
<1>4. ASSUME NEW t \in Threads, NEW d \in Datagrams, Receive(t, d) PROVE Accounted'
  <2>1. d # NoDatagram
    BY UdpAssumption DEF UdpAssumption, Datagram, NoDatagram
  <2>2. /\ thread[t] = "none" /\ thread'[t] = "created" /\ datagram'[t] = d
        /\ \A u \in Threads \ {t} : thread'[u] = thread[u] /\ datagram'[u] = datagram[u]
        /\ pc' = pc /\ req' = req /\ reply_to' = reply_to
    BY <1>4 DEF Receive, UdpRanges, vars
  <2> QED
    BY <2>1, <2>2 DEF Accounted
<1>5. CASE UNCHANGED <<vars, thread, datagram, reply_to>>
  BY <1>5 DEF Accounted, vars
<1> QED
  BY <1>1, <1>2, <1>3, <1>4, <1>5 DEF UdpNext, UdpRun, Discard, UdpRest, udpVars

\* Whatever comes and in whatever order the threads run, a thread of server_1.c
\* that was created has a datagram, is in the call that one asks for or in none,
\* has ended only when that call has returned, and knows the sender of a full
\* datagram.
THEOREM UdpTypeCorrect == UdpSpec => []UdpTypeOK
<1>1. UdpInit => Accounted
  BY DEF UdpInit, NoneCreated, Init, Accounted
<1>2. UdpTypeOK <=> UdpRanges /\ Accounted
  BY DEF UdpTypeOK, UdpRanges
<1> QED
  BY <1>1, <1>2, AccountedNext, UdpRangesAlways, UdpServesStore, TypeCorrect, PTL
  DEF UdpSpec

-----------------------------------------------------------------------------
\* The reply to a datagram of BUFFER_SIZE bytes goes to the terminal that sent
\* it; only of a shorter one does client_handler look for the address at the
\* wrong place (ReplyReachesTerminal, final/server_1.c:100).
THEOREM FullDatagramAnswered ==
  UdpSpec => [](\A t \in Threads : datagram[t].full /\ outbox[t] # <<>> =>
                  reply_to[t] = datagram[t].from)
<1>1. LInv /\ [Next]_vars => LInv'
  BY StepInLedger
<1>2. Spec => []LInv
  BY <1>1, InitInLedger, PTL DEF Spec
<1>3. LInv /\ UdpTypeOK =>
        \A t \in Threads : datagram[t].full /\ outbox[t] # <<>> =>
          reply_to[t] = datagram[t].from
  BY DEF LInv, Served, Sent, UdpTypeOK, Accounted
<1> QED
  BY <1>2, <1>3, UdpServesStore, UdpTypeCorrect, PTL

-----------------------------------------------------------------------------
\* Once the threads of the save datagrams have exited, the mileages add up to
\* what the sessions in these datagrams earned, lost credits and double ones
\* excluded, in whatever order they came and the threads ran.
THEOREM PointsKept == UdpSpec => []PointsConserved
<1>1. Spec => []PInv
  BY InitPInv, NextKeepsPInv, PTL DEF Spec
<1>2. PInv /\ UdpTypeOK => PointsConserved
  <2> DEFINE saves  == {t \in Threads : datagram[t].request.op = "save"}
             earned == [t \in saves |-> calculate_mileage(datagram[t].request.start,
                                                          datagram[t].request.end)]
  <2> SUFFICES ASSUME PInv, Accounted, \A t \in saves : thread[t] = "exited"
               PROVE  MapThenSumSet(LAMBDA k : users[k].mileage, UsedUsers)
                        = SumFunctionOnSet(earned, saves)
    BY DEF PointsConserved, UdpTypeOK
  <2>1. ASSUME NEW t \in saves PROVE t \in Credited
    <3>1. pc[t] = "done"
      BY DEF Accounted, NoRequest
    <3> QED
      BY <3>1 DEF Accounted, Credited
  <2>2. \A t \in Credited : t \in saves /\ req[t] = datagram[t].request
    BY DEF Accounted, Credited
  <2>3. Credited = saves /\ Earnings = earned
    BY <2>1, <2>2 DEF Earnings, Earned
  <2> QED
    BY <2>3, MileageSum DEF PInv, Balanced
<1> QED
  BY <1>1, <1>2, UdpServesStore, UdpTypeCorrect, PTL

-----------------------------------------------------------------------------
(* server/server.c                                                         *)

\* A step of the transport is none of UserStore, a call, or a step inside.
LEMMA TcpStep ==
  ASSUME TcpTypeOK, [TcpNext]_<<vars, tcpVars>>
  PROVE  [Next]_vars
<1>1. ASSUME NEW t \in Threads, TcpRun(t) PROVE [Next]_vars
  <2>1. CASE Handle(t)
    <3>1. PICK m \in Read(t) : (m # NoRequest /\ Call(t, m)) \/ UNCHANGED vars
      BY <2>1 DEF Handle
    <3>2. m \in Messages
      BY DEF Read, TcpTypeOK
    <3> QED
      BY <1>1, <3>1, <3>2 DEF TcpRun, Alive, Messages, Arrive, Next
  <2>2. CASE Serve(t)
    BY <2>2 DEF Serve, Next
  <2>3. CASE ReadFails(t) \/ Close(t)
    BY <2>3 DEF ReadFails, Close, Exit
  <2> QED
    BY <1>1, <2>1, <2>2, <2>3 DEF TcpRun
<1>2. ASSUME NEW t \in Threads, Arrives(t) \/ ClosesEnd(t) PROVE [Next]_vars
  BY <1>2 DEF Arrives, ClosesEnd
<1>3. ASSUME NEW t \in Threads, NEW m \in Messages, Accept(t, m) PROVE [Next]_vars
  BY <1>3 DEF Accept
<1>4. CASE TcpRest \/ UNCHANGED <<vars, tcpVars>>
  BY <1>4 DEF TcpRest
<1> QED
  BY <1>1, <1>2, <1>3, <1>4 DEF TcpNext

Stages == {"none", "reading", "running", "exited", "failed"}
WithSocket == {"reading", "running", "failed"}

\* One thread's stage and socket change together.
LEMMA StageChanges ==
  ASSUME TcpTypeOK, NEW t \in Threads, NEW to \in Stages,
         thread' = [thread EXCEPT ![t] = to],
         open' = IF to \in WithSocket THEN open \cup {t} ELSE open \ {t}
  PROVE  /\ thread' \in [Threads -> Stages]
         /\ open' = {u \in Threads : thread'[u] \in WithSocket}
<1>1. thread \in [Threads -> Stages]
      /\ open = {u \in Threads : thread[u] \in WithSocket}
  BY DEF TcpTypeOK, Stages, WithSocket
<1>2. /\ thread'[t] = to
      /\ \A u \in Threads \ {t} : thread'[u] = thread[u]
  BY <1>1
<1> QED
  BY <1>1, <1>2

\* Every step keeps the types of the transport.
LEMMA TcpTypeNext == TcpTypeOK /\ [TcpNext]_<<vars, tcpVars>> => TcpTypeOK'
<1> SUFFICES ASSUME TcpTypeOK, [TcpNext]_<<vars, tcpVars>> PROVE TcpTypeOK'
  OBVIOUS
<1> DEFINE Sockets == /\ thread \in [Threads -> Stages]
                      /\ open = {u \in Threads : thread[u] \in WithSocket}
           Others == /\ main \in {"listening", "crashed", "killed"}
                     /\ tid \in Threads \cup {NoThread}
                     /\ gone \subseteq Threads /\ sent \in [Threads -> Messages]
                     /\ arrived \in [Threads -> {"none", "part", "whole"}]
<1>0. /\ Sockets /\ Others
      /\ Sockets' /\ Others' => TcpTypeOK'
  BY DEF TcpTypeOK, Stages, WithSocket
<1>1. ASSUME NEW t \in Threads, TcpRun(t) PROVE Sockets' /\ Others'
  <2>1. UNCHANGED <<tid, sent, arrived, gone>>
        /\ main' \in {"listening", "crashed", "killed"}
    BY <1>0, <1>1 DEF TcpRun, ReadFails, Handle, Serve, Close, Exit
  <2>2. CASE ReadFails(t) \/ Close(t)
    <3>1. thread' = [thread EXCEPT ![t] = "exited"] /\ open' = open \ {t}
      BY <2>2 DEF ReadFails, Close, Exit
    <3> QED
      BY <1>0, <2>1, <3>1, StageChanges DEF Stages, WithSocket
  <2>3. CASE Handle(t)
    <3>1. \/ thread' = [thread EXCEPT ![t] = "running"] /\ open' = open \cup {t}
          \/ thread' = [thread EXCEPT ![t] = "exited"] /\ open' = open \ {t}
      BY <2>3 DEF Handle, TcpTypeOK
    <3> QED
      BY <1>0, <2>1, <3>1, StageChanges DEF Stages, WithSocket
  <2>4. CASE Serve(t)
    BY <1>0, <2>1, <2>4 DEF Serve
  <2> QED
    BY <1>1, <2>2, <2>3, <2>4 DEF TcpRun
<1>2. ASSUME NEW t \in Threads, Arrives(t) \/ ClosesEnd(t) PROVE Sockets' /\ Others'
  BY <1>0, <1>2 DEF Arrives, ClosesEnd
<1>3. ASSUME NEW t \in Threads, NEW m \in Messages,
             Accept(t, m), Create(t) \/ CreateFails(t)
      PROVE  Sockets' /\ Others'
  <2>1. /\ UNCHANGED <<arrived, gone>> /\ sent' \in [Threads -> Messages]
        /\ main' \in {"listening", "crashed", "killed"}
        /\ tid' \in Threads \cup {NoThread}
    BY <1>0, <1>3 DEF Accept, Create, CreateFails, DetachStale
  <2>2. PICK to \in {"reading", "failed"} : thread' = [thread EXCEPT ![t] = to]
    BY <1>3 DEF Create, CreateFails
  <2>3. open' = open \cup {t}
    BY <1>3 DEF Accept
  <2> QED
    BY <1>0, <2>1, <2>2, <2>3, StageChanges DEF Stages, WithSocket
<1>4. CASE UNCHANGED tcpVars
  BY <1>0, <1>4 DEF tcpVars
<1> QED
  BY <1>0, <1>1, <1>2, <1>3, <1>4 DEF TcpNext, TcpRest

-----------------------------------------------------------------------------
\* A socket of server.c is open from accept until its thread has returned,
\* on every way through client_handler, but one whose thread could not be
\* created stays open for ever; the other variables keep their shape.
THEOREM TcpTypeCorrect == TcpSpec => []TcpTypeOK
<1>1. TcpInit => TcpTypeOK
  BY DEF TcpInit, NoneCreated, TcpTypeOK, Messages
<1> QED
  BY <1>1, TcpTypeNext, PTL DEF TcpSpec

\* The TCP server is the table server with another transport around it:
\* whatever a client sends, half sends or cuts off, what reaches the tables
\* are requests, each handled as UserStore does.
THEOREM TcpServesStore == TcpSpec => Spec
<1>1. TcpInit => Init
  BY DEF TcpInit, NoneCreated
<1>2. TcpTypeOK /\ [TcpNext]_<<vars, tcpVars>> => [Next]_vars
  BY TcpStep
<1> QED
  BY <1>1, <1>2, TcpTypeCorrect, PTL DEF TcpSpec, Spec

\* So the mutex excludes, no user gets a second entry, no session is lost and
\* the requests take effect one after another in the TCP server too.
THEOREM TcpTables ==
  TcpSpec => /\ []TypeOK /\ []LockHeld /\ []OneEntryPerUser
             /\ []SessionsRecorded /\ ImplementsLedger
BY TcpServesStore, TypeCorrect, MutexHeld, NoSecondEntry, NoSessionLost,
   ServesOneAtATime

-----------------------------------------------------------------------------
\* A thread that has read a whole message makes the call it asks for.
Heard ==
  \A t \in Threads :
    /\ thread[t] \in {"none", "reading", "failed"} => pc[t] = "idle"
    /\ pc[t] # "idle" /\ arrived[t] = "whole" => req[t] = sent[t]

\* Every step keeps the calls those of the messages.
LEMMA HeardNext ==
  TypeOK /\ TcpTypeOK /\ Heard /\ [TcpNext]_<<vars, tcpVars>> => Heard'
<1> SUFFICES ASSUME TypeOK, TcpTypeOK, Heard, [TcpNext]_<<vars, tcpVars>>
             PROVE  Heard'
  OBVIOUS
<1>1. ASSUME NEW t \in Threads, Handle(t) PROVE Heard'
  <2>1. /\ thread[t] = "reading" /\ UNCHANGED <<sent, arrived>>
        /\ \A u \in Threads \ {t} : thread'[u] = thread[u]
        /\ thread'[t] \in {"running", "exited"}
    BY <1>1 DEF Handle, TcpTypeOK
  <2>2. \A u \in Threads \ {t} : pc'[u] = pc[u] /\ req'[u] = req[u]
    BY <1>1 DEF Handle, Call, TypeOK, vars
  <2>3. \/ pc'[t] = pc[t]
        \/ arrived[t] = "whole" => req'[t] = sent[t]
    <3>1. PICK m \in Read(t) : (m # NoRequest /\ Call(t, m)) \/ UNCHANGED vars
      BY <1>1 DEF Handle
    <3>2. ASSUME arrived[t] = "whole" PROVE m = sent[t]
      <4>1. Read(t) = {sent[t]}
        BY <3>2 DEF Read
      <4> QED
        BY <4>1
    <3> QED
      BY <3>1, <3>2 DEF Call, TypeOK, vars
  <2> QED
    BY <2>1, <2>2, <2>3 DEF Heard
<1>2. ASSUME NEW t \in Threads, ReadFails(t) \/ Close(t) PROVE Heard'
  BY <1>2 DEF ReadFails, Close, Exit, Heard, TcpTypeOK, vars
<1>3. ASSUME NEW t \in Threads, Serve(t) PROVE Heard'
  BY <1>3, WorkMoves DEF Serve, Heard
<1>4. ASSUME NEW t \in Threads, Arrives(t) \/ ClosesEnd(t) PROVE Heard'
  BY <1>4 DEF Arrives, ClosesEnd, Heard, TcpTypeOK, vars
<1>5. ASSUME NEW t \in Threads, NEW m \in Messages,
             Accept(t, m), Create(t) \/ CreateFails(t)
      PROVE  Heard'
  BY <1>5 DEF Accept, Create, CreateFails, Heard, TcpTypeOK, vars
<1>6. CASE UNCHANGED <<vars, tcpVars>>
  BY <1>6 DEF Heard, vars, tcpVars
<1> QED
  BY <1>1, <1>2, <1>3, <1>4, <1>5, <1>6 DEF TcpNext, TcpRun, TcpRest

\* Whenever no request is being worked on, and if every message handled came
\* whole in the one read, the mileages add up to what the sessions sent by
\* the clients that were served earned.
THEOREM TcpPointsKept == TcpSpec => []PointsAsSent
<1>1. TcpInit => Heard
  BY DEF TcpInit, NoneCreated, Init, Heard
<1>2. Spec => []PInv
  BY InitPInv, NextKeepsPInv, PTL DEF Spec
<1>3. PInv => TypeOK
  BY DEF PInv, SInv, LInv, IInv
<1>4. PInv /\ Heard => PointsAsSent
  <2> DEFINE served == {t \in Threads : pc[t] # "idle"}
             saves  == {t \in served : sent[t].op = "save"}
             earned == [t \in saves |-> calculate_mileage(sent[t].start, sent[t].end)]
  <2> SUFFICES ASSUME PInv, Heard,
                      \A t \in served : pc[t] = "done" /\ arrived[t] = "whole"
               PROVE  MapThenSumSet(LAMBDA k : users[k].mileage, UsedUsers)
                        = SumFunctionOnSet(earned, saves)
    BY DEF PointsAsSent
  <2>1. \A t \in served : pc[t] = "done" /\ req[t] = sent[t]
    BY DEF Heard
  <2>2. Credited \subseteq served
    BY DEF Credited
  <2>3. Credited = saves /\ Earnings = earned
    BY <2>1, <2>2 DEF Credited, Earnings, Earned
  <2> QED
    BY <2>3, MileageSum DEF PInv, Balanced
<1> QED
  BY <1>1, <1>2, <1>3, <1>4, HeardNext, TcpServesStore, TcpTypeCorrect, PTL
  DEF TcpSpec
=============================================================================
