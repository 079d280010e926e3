-------------------------------- MODULE Slot --------------------------------
(***************************************************************************)
(* The RFID slot of slot(deprecated)/slot.c: one thread reads what the     *)
(* reader process prints into a pipe, keeps the record of the tag that is  *)
(* there and sends it to the server once the tag is missed; another shows  *)
(* how long it has been there.  Both take the one mutex, and the first one *)
(* keeps it while it waits for the server.                                 *)
(*                                                                         *)
(* The reader is either of the scripts in the repository.  The server need *)
(* not do anything: slot(deprecated)/server.c accepts, and neither answers *)
(* nor hangs up.  Another one may send the answer slot.c waits for.        *)
(***************************************************************************)
EXTENDS Integers, Sequences

CONSTANTS
  Tags,         \* the ids of tags
  NoText,       \* what a read returns at the end of the pipe
  NULL,         \* what readRFID returns after an error
  Answers,      \* what a server may answer: {} for slot(deprecated)/server.c
  MaxPipe,      \* bound: lines in the pipe
  MaxNow,       \* bound: the clock
  MaxErrors     \* bound: reads that fail

\* What a read may begin with: the scripts print more than ids.
Texts == Tags \cup {"notag", "Hold_a_tag"}

ASSUME SlotAssumption ==
  /\ MaxPipe \in Nat \ {0, 1} /\ MaxNow \in Nat \ {0} /\ MaxErrors \in Nat
  /\ NoText \notin Texts /\ NULL \notin Texts \cup {NoText}

VARIABLES
  now,          \* time(NULL)
  reader,       \* the reader process: "waiting", "printing" or "ended"
  pipe,         \* the lines in the pipe
  uid,          \* what readRFID returned last
  pc,           \* where the two threads are
  lock,         \* the thread that holds the mutex
  isPresent, record_instance,
  conn,         \* the connection: its state, and the answer that has come
  server,       \* "up" or "down"
  received,     \* the records the server has got
  errors,       \* reads that failed
  status        \* "running", "exited" by error_handling or "killed" by SIGPIPE

outside == <<now, reader, pipe, server, errors>>
slot    == <<uid, lock, isPresent, record_instance>>
net     == <<conn, received>>
vars    == <<outside, slot, net, pc, status>>

Threads  == {"t_RFID", "t_screen"}
NoThread == "none"
NoAnswer == "none"
Closed   == [state |-> "closed", answer |-> NoAnswer]
NoRecord == [RFID |-> NoText, start |-> 0, end |-> 0]

Init ==
  /\ now = 1 /\ reader = "waiting" /\ pipe = <<>> /\ server \in {"up", "down"}
  /\ uid = NoText /\ lock = NoThread /\ isPresent = FALSE
  /\ record_instance = NoRecord /\ conn = Closed /\ received = <<>>
  /\ errors = 0 /\ status = "running"
  /\ pc = [t_RFID |-> "select", t_screen |-> "lock"]

Goto(t, from, to) == pc[t] = from /\ pc' = [pc EXCEPT ![t] = to]

-----------------------------------------------------------------------------
\* The reader process: final/rfid_reader.py prints one id, or nothing, and
\* ends; etc/rfid_reader_slot.py goes on until it is stopped.  Python keeps
\* what is not flushed, the first line and each "!", until the next flush.
PrintOnce ==
  /\ reader = "waiting" /\ reader' = "ended"
  /\ \E x \in Tags \cup {"Hold_a_tag"} : pipe' = <<x>>

PrintFirst ==
  /\ reader = "waiting" /\ reader' = "printing"
  /\ \E x \in Tags \cup {"notag"} : pipe' = <<"Hold_a_tag", x>>

PrintNext ==
  /\ reader = "printing" /\ Len(pipe) < MaxPipe /\ UNCHANGED reader
  /\ \E x \in Tags \cup {"notag"} : pipe' = Append(pipe, x)

End == reader # "ended" /\ reader' = "ended" /\ UNCHANGED pipe

Reader == /\ PrintOnce \/ PrintFirst \/ PrintNext \/ End
          /\ UNCHANGED <<now, server, errors, slot, net, pc, status>>

-----------------------------------------------------------------------------
\* select, and readRFID if there is something to read, or the end of the
\* pipe: 13 bytes, which may be some lines or the beginning of one.
ReadRFID ==
  /\ Goto("t_RFID", "select", "lock")
  /\ \/ /\ \E n \in 0 .. Len(pipe) :
             pipe # <<>> /\ pipe' = SubSeq(pipe, n + 1, Len(pipe))
        /\ uid' = Head(pipe) /\ UNCHANGED errors
     \/ pipe = <<>> /\ reader = "ended" /\ uid' = NoText /\ UNCHANGED <<pipe, errors>>
     \/ /\ errors < MaxErrors /\ errors' = errors + 1
        /\ uid' = NULL /\ UNCHANGED pipe
  /\ UNCHANGED <<now, reader, server, lock, isPresent, record_instance, net, status>>

SelectFails ==
  /\ errors < MaxErrors /\ errors' = errors + 1 /\ Goto("t_RFID", "select", "returned")
  /\ UNCHANGED <<now, reader, pipe, server, slot, net, status>>

Lock(t, to) ==
  /\ Goto(t, "lock", to) /\ lock = NoThread /\ lock' = t
  /\ UNCHANGED <<outside, uid, isPresent, record_instance, net, status>>

Unlock(t, to) ==
  /\ Goto(t, "unlock", to) /\ lock' = NoThread
  /\ UNCHANGED <<outside, uid, isPresent, record_instance, net, status>>

\* Something was read: a tag has come, unless one is there already.
DetectedNull == uid # NoText    \* faulty: a read that failed is a text
Detected == uid \in Texts

NewRecord == [RFID |-> uid, start |-> now, end |-> 0]

DetectEach ==           \* faulty: each reading begins a record
  /\ Detected /\ Goto("t_RFID", "decide", "unlock")
  /\ isPresent' = TRUE /\ record_instance' = NewRecord
  /\ UNCHANGED <<outside, uid, lock, net, status>>

Detect ==
  /\ Detected /\ Goto("t_RFID", "decide", "unlock")
  /\ \/ isPresent /\ UNCHANGED <<isPresent, record_instance>>
     \/ ~isPresent /\ isPresent' = TRUE /\ record_instance' = NewRecord
  /\ UNCHANGED <<outside, uid, lock, net, status>>

\* Nothing was read: the tag that was there is missed.
MissUnlocked ==         \* faulty: sends without the mutex
  /\ ~Detected /\ isPresent /\ Goto("t_RFID", "decide", "connect")
  /\ record_instance' = [record_instance EXCEPT !.end = now]
  /\ lock' = NoThread
  /\ UNCHANGED <<outside, uid, isPresent, net, status>>

Miss ==
  /\ ~Detected
  /\ \/ /\ ~isPresent /\ Goto("t_RFID", "decide", "unlock")
        /\ UNCHANGED record_instance
     \/ /\ isPresent /\ Goto("t_RFID", "decide", "connect")
        /\ record_instance' = [record_instance EXCEPT !.end = now]
  /\ UNCHANGED <<outside, uid, lock, isPresent, net, status>>

-----------------------------------------------------------------------------
\* sendRecord, with the mutex held.
Connect ==
  /\ \/ /\ server = "up" /\ Goto("t_RFID", "connect", "request")
        /\ conn' = [state |-> "queued", answer |-> NoAnswer] /\ UNCHANGED status
     \/ /\ server = "down" /\ pc["t_RFID"] = "connect"
        /\ status' = "exited" /\ UNCHANGED <<pc, conn>>
  /\ UNCHANGED <<outside, slot, received>>

\* A write to a server that has gone may raise SIGPIPE.
Broken(from) ==
  /\ pc["t_RFID"] = from /\ conn.state = "closed" /\ status' = "killed"
  /\ UNCHANGED <<outside, slot, net, pc>>

WriteRequest ==
  /\ Goto("t_RFID", "request", "read")
  /\ UNCHANGED <<outside, slot, net, status>>

\* The answer, or, if the server closes first, what the stack had in msg: it
\* may well be the OK of the record before.
Reply == ({conn.answer} \ {NoAnswer})
         \cup (IF conn.state = "closed" THEN {"OK", "garbage"} ELSE {})

ReadReply ==
  /\ \E a \in Reply : Goto("t_RFID", "read", IF a = "OK" THEN "record" ELSE "close")
  /\ UNCHANGED <<outside, slot, net, status>>

WriteRecord ==
  /\ \/ /\ conn.state = "closed" /\ Goto("t_RFID", "record", "close")
        /\ UNCHANGED received
     \/ /\ conn.state # "closed" /\ Goto("t_RFID", "record", "sent")
        /\ received' = Append(received, record_instance)
  /\ UNCHANGED <<outside, slot, conn, status>>

CloseLocked ==          \* faulty: goes on without unlocking
  /\ \E from \in {"sent", "close"} : Goto("t_RFID", from, "select")
  /\ conn' = Closed /\ isPresent' = FALSE
  /\ UNCHANGED <<outside, uid, lock, record_instance, received, status>>

Close ==
  /\ \E from \in {"sent", "close"} : Goto("t_RFID", from, "unlock")
  /\ conn' = Closed /\ isPresent' = FALSE
  /\ UNCHANGED <<outside, uid, lock, record_instance, received, status>>

-----------------------------------------------------------------------------
\* t_screen_handler prints how long the tag has been there.
Show ==
  /\ Goto("t_screen", "show", "unlock")
  /\ UNCHANGED <<outside, slot, net, status>>

-----------------------------------------------------------------------------
\* The server.  The thread that slot(deprecated)/server.c creates for the
\* connection prints a line, and that is all.
Accept ==
  /\ server = "up" /\ conn.state = "queued" /\ conn' = [conn EXCEPT !.state = "accepted"]
  /\ UNCHANGED <<outside, slot, received, pc, status>>

\* The server slot.c is written for, which is not in the repository.
Answer ==
  /\ conn.state = "accepted" /\ conn.answer = NoAnswer
  /\ \E a \in Answers : conn' = [conn EXCEPT !.answer = a]
  /\ UNCHANGED <<outside, slot, received, pc, status>>

HangUp ==
  /\ Answers # {} /\ conn.state = "accepted" /\ conn' = [conn EXCEPT !.state = "closed"]
  /\ UNCHANGED <<outside, slot, received, pc, status>>

ServerStops ==
  /\ server = "up" /\ server' = "down" /\ conn' = [conn EXCEPT !.state = "closed"]
  /\ UNCHANGED <<now, reader, pipe, errors, slot, received, pc, status>>

ServerStarts ==
  /\ server = "down" /\ server' = "up"
  /\ UNCHANGED <<now, reader, pipe, errors, slot, net, pc, status>>

Tick ==
  /\ now < MaxNow /\ now' = now + 1
  /\ UNCHANGED <<reader, pipe, server, errors, slot, net, pc, status>>

-----------------------------------------------------------------------------
Alive == status = "running"

RFID == Alive /\ (\/ ReadRFID \/ SelectFails \/ Detect \/ Miss
                  \/ Connect \/ WriteRequest \/ ReadReply \/ WriteRecord \/ Close
                  \/ Broken("request") \/ Broken("record")
                  \/ Lock("t_RFID", "decide") \/ Unlock("t_RFID", "select"))

ScreenLock == Alive /\ Lock("t_screen", "show")
Screen == Alive /\ (Show \/ Unlock("t_screen", "lock"))

Next == \/ RFID \/ ScreenLock \/ Screen \/ Reader \/ Tick
        \/ Accept \/ Answer \/ HangUp \/ ServerStops \/ ServerStarts

Spec == Init /\ [][Next]_vars

\* The two threads run.  Nothing is assumed of the server, nor of who gets the
\* mutex when both threads want it.
FairSpec == Spec /\ WF_vars(RFID) /\ WF_vars(Screen)

-----------------------------------------------------------------------------
SlotTypeOK ==
  /\ now \in 1 .. MaxNow /\ reader \in {"waiting", "printing", "ended"}
  /\ pipe \in Seq(Texts) /\ Len(pipe) <= MaxPipe
  /\ uid \in Texts \cup {NoText, NULL} /\ isPresent \in BOOLEAN
  /\ pc["t_RFID"] \in {"select", "lock", "decide", "connect", "request", "read",
                       "record", "sent", "close", "unlock", "returned"}
  /\ pc["t_screen"] \in {"lock", "show", "unlock"}
  /\ lock \in Threads \cup {NoThread}
  /\ record_instance.RFID \in Texts \cup {NoText}
  /\ conn.state \in {"closed", "queued", "accepted"}
  /\ server \in {"up", "down"} /\ status \in {"running", "exited", "killed"}

\* The thread that shows the time never sees a record that is over, nor one
\* that is being sent: the mutex is held from the miss to the reset.
ScreenSeesOpenRecord ==
  pc["t_screen"] = "show" /\ isPresent =>
    /\ record_instance.RFID # NoText /\ record_instance.end = 0
    /\ conn = Closed

Slot == INSTANCE Presence WITH
  tag      <- IF isPresent THEN record_instance.RFID ELSE NoText,
  since    <- IF isPresent THEN record_instance.start ELSE 0,
  reported <- pc["t_RFID"] = "sent",
  records  <- received

\* However often a tag is read, whatever fails and whenever the server comes,
\* answers or goes: a stay makes at most one record, of what was read first
\* and of the time it was there.
ImplementsPresence == Slot!Spec

\* The read of the answer, which has not come and may never come.
WaitsForServer ==
  pc["t_RFID"] = "read" /\ conn.state # "closed" /\ conn.answer = NoAnswer

\* Whatever a thread was at when it took the mutex, it gives it back: on every
\* path through the record, the failed answer and the lost server included.
\* A server that is silent is the one thing that keeps it, while it is silent.
MutexGivenBack ==
  \A t \in Threads :
    (lock = t) ~> (lock # t \/ (t = "t_RFID" /\ WaitsForServer) \/ ~Alive)
=============================================================================
