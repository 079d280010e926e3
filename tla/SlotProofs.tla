----------------------------- MODULE SlotProofs -----------------------------
(***************************************************************************)
(* Proofs, for any tags and answers and any bounds, that the RFID slot of  *)
(* slot(deprecated)/slot.c keeps the record of the tag that is there to    *)
(* itself until it is sent, and sends at most one for each stay.           *)
(***************************************************************************)
EXTENDS Slot, TLAPS

\* Where t_RFID is inside sendRecord, and inside the mutex.
Sending == {"connect", "request", "read", "record", "sent", "close"}
Inside  == Sending \cup {"decide", "unlock"}
RFIDPoints == Inside \cup {"select", "lock", "returned"}
Points == RFIDPoints \cup {"show"}

\* SlotTypeOK and what it leaves open.
Types ==
  /\ SlotTypeOK
  /\ pc \in [Threads -> Points] /\ pipe \in Seq(Texts)
  /\ record_instance \in [RFID : Texts \cup {NoText}, start : Nat, end : Nat]
  /\ conn \in [state : {"closed", "queued", "accepted"},
               answer : Answers \cup {NoAnswer}]

\* A thread between lock and unlock is the one that holds the mutex.
LockHeld ==
  /\ pc["t_RFID"] \in Inside <=> lock = "t_RFID"
  /\ pc["t_screen"] \in {"show", "unlock"} <=> lock = "t_screen"

\* While a tag is there its record was begun, with a text and not later than
\* now, and ends only when t_RFID is about to send it.
RecordKept ==
  /\ pc["t_RFID"] \in Sending => isPresent
  /\ isPresent =>
       /\ record_instance.RFID \in Texts /\ record_instance.start <= now
       /\ pc["t_RFID"] \notin Sending => record_instance.end = 0
       /\ pc["t_RFID"] \in Sending =>
            record_instance.end \in record_instance.start .. now

\* There is a connection only inside sendRecord, from connect to close.
ConnKept == conn # Closed => pc["t_RFID"] \in Sending \ {"connect"}

IInv == Types /\ LockHeld /\ RecordKept /\ ConnKept

-----------------------------------------------------------------------------
\* The invariant holds when the two threads are started.
LEMMA InitIInv == Init => IInv
<1> SUFFICES ASSUME Init PROVE IInv
  OBVIOUS
<1> USE SlotAssumption DEF SlotAssumption, Init, Threads, NoThread
<1>1. /\ pc["t_RFID"] = "select" /\ pc["t_screen"] = "lock"
      /\ pc \in [Threads -> Points]
  BY DEF Points, RFIDPoints
<1>2. pipe \in Seq(Texts) /\ Len(pipe) = 0
  OBVIOUS
<1>3. Types
  <2>1. /\ record_instance \in [RFID : Texts \cup {NoText}, start : Nat, end : Nat]
        /\ conn \in [state : {"closed", "queued", "accepted"},
                     answer : Answers \cup {NoAnswer}]
    BY DEF NoRecord, Closed
  <2>2. /\ record_instance.RFID \in Texts \cup {NoText}
        /\ conn.state \in {"closed", "queued", "accepted"}
    BY <2>1
  <2>3. now \in 1 .. MaxNow /\ Len(pipe) <= MaxPipe
    BY <1>2
  <2>4. SlotTypeOK
    BY <1>1, <1>2, <2>2, <2>3 DEF SlotTypeOK
  <2> QED
    BY <1>1, <1>2, <2>1, <2>4 DEF Types
<1>4. LockHeld /\ RecordKept /\ ConnKept
  BY <1>1 DEF LockHeld, RecordKept, ConnKept, Inside, Sending
<1> QED
  BY <1>3, <1>4 DEF IInv

\* A step of one thread leaves the other where it is.
LEMMA GotoEffect ==
  ASSUME Types, NEW t \in Threads, NEW from, NEW to \in Points, Goto(t, from, to)
  PROVE  /\ pc[t] = from /\ pc'[t] = to /\ pc' \in [Threads -> Points]
         /\ \A u \in Threads \ {t} : pc'[u] = pc[u]
BY DEF Types, Goto

\* The reader prints, or ends.
LEMMA ReaderKeeps == ASSUME IInv, Reader PROVE IInv'
<1> USE DEF IInv, Reader, slot, net
<1>1. /\ reader' \in {"waiting", "printing", "ended"}
      /\ pipe' \in Seq(Texts) /\ Len(pipe') <= MaxPipe
  <2>1. /\ Tags \cup {"Hold_a_tag"} \subseteq Texts
        /\ Tags \cup {"notag"} \subseteq Texts /\ "Hold_a_tag" \in Texts
    BY DEF Texts
  <2>2. pipe \in Seq(Texts) /\ Len(pipe) <= MaxPipe
    BY DEF Types, SlotTypeOK
  <2>3. MaxPipe \in Nat /\ MaxPipe >= 2
    BY SlotAssumption DEF SlotAssumption
  <2>4. CASE PrintOnce
    BY <2>1, <2>3, <2>4 DEF PrintOnce
  <2>5. CASE PrintFirst
    BY <2>1, <2>3, <2>5 DEF PrintFirst
  <2>6. CASE PrintNext
    BY <2>1, <2>2, <2>3, <2>6 DEF PrintNext, Types, SlotTypeOK
  <2>7. CASE End
    BY <2>2, <2>7 DEF End
  <2> QED
    BY <2>4, <2>5, <2>6, <2>7
<1>2. Types'
  BY <1>1 DEF Types, SlotTypeOK
<1>3. LockHeld' /\ RecordKept' /\ ConnKept'
  BY DEF LockHeld, RecordKept, ConnKept
<1> QED
  BY <1>2, <1>3

\* t_RFID reads the pipe, or its select fails.
LEMMA ReadKeeps == ASSUME IInv, ReadRFID \/ SelectFails PROVE IInv'
<1> USE DEF IInv, slot, net
<1>1. PICK to \in {"lock", "returned"} : Goto("t_RFID", "select", to)
  BY DEF ReadRFID, SelectFails
<1>2. /\ pc["t_RFID"] = "select" /\ pc'["t_RFID"] = to
      /\ pc'["t_screen"] = pc["t_screen"] /\ pc' \in [Threads -> Points]
  BY <1>1, GotoEffect DEF Points, RFIDPoints, Threads
<1>3. /\ pipe' \in Seq(Texts) /\ Len(pipe') <= MaxPipe
      /\ uid' \in Texts \cup {NoText, NULL}
  <2> USE DEF Types, SlotTypeOK
  <2>1. ASSUME NEW n \in 0 .. Len(pipe), pipe # <<>>, pipe' = SubSeq(pipe, n + 1, Len(pipe)),
               uid' = Head(pipe)
        PROVE  /\ pipe' \in Seq(Texts) /\ Len(pipe') <= MaxPipe
               /\ uid' \in Texts
    BY <2>1, SlotAssumption DEF SlotAssumption
  <2>2. CASE ReadRFID
    BY <2>1, <2>2 DEF ReadRFID
  <2>3. CASE SelectFails
    BY <2>3 DEF SelectFails
  <2> QED
    BY <2>2, <2>3
<1>4. UNCHANGED <<now, reader, server, lock, isPresent, record_instance, conn, received, status>>
  BY DEF ReadRFID, SelectFails
<1>5. Types'
  BY <1>2, <1>3, <1>4 DEF Types, SlotTypeOK
<1>6. LockHeld' /\ RecordKept' /\ ConnKept'
  BY <1>2, <1>4 DEF LockHeld, RecordKept, ConnKept, Inside, Sending
<1> QED
  BY <1>5, <1>6

\* pthread_mutex_lock.
LEMMA LockKeeps ==
  ASSUME IInv, \/ Lock("t_RFID", "decide") \/ Lock("t_screen", "show")
  PROVE  IInv'
<1> USE DEF IInv, Threads, NoThread
<1>1. PICK t \in Threads, to \in {"decide", "show"} :
        /\ Lock(t, to) /\ to = IF t = "t_RFID" THEN "decide" ELSE "show"
  OBVIOUS
<1>2. /\ pc[t] = "lock" /\ pc'[t] = to /\ pc' \in [Threads -> Points]
      /\ \A u \in Threads \ {t} : pc'[u] = pc[u]
  BY <1>1, GotoEffect DEF Lock, Points, RFIDPoints, Inside
<1>3. /\ lock = NoThread /\ lock' = t
      /\ UNCHANGED <<outside, uid, isPresent, record_instance, net, status>>
  BY <1>1 DEF Lock
<1> USE DEF outside, net
<1>4. Types'
  BY <1>1, <1>2, <1>3 DEF Types, SlotTypeOK
<1>5. LockHeld' /\ RecordKept' /\ ConnKept'
  BY <1>1, <1>2, <1>3 DEF LockHeld, RecordKept, ConnKept, Inside, Sending
<1> QED
  BY <1>4, <1>5

\* pthread_mutex_unlock.
LEMMA UnlockKeeps ==
  ASSUME IInv, \/ Unlock("t_RFID", "select") \/ Unlock("t_screen", "lock")
  PROVE  IInv'
<1> USE DEF IInv, Threads, NoThread
<1>1. PICK t \in Threads, to \in {"select", "lock"} :
        /\ Unlock(t, to) /\ to = IF t = "t_RFID" THEN "select" ELSE "lock"
  OBVIOUS
<1>2. /\ pc[t] = "unlock" /\ pc'[t] = to /\ pc' \in [Threads -> Points]
      /\ \A u \in Threads \ {t} : pc'[u] = pc[u]
  BY <1>1, GotoEffect DEF Unlock, Points, RFIDPoints, Inside
<1>3. /\ lock' = NoThread
      /\ UNCHANGED <<outside, uid, isPresent, record_instance, net, status>>
  BY <1>1 DEF Unlock
<1> USE DEF outside, net
<1>4. Types'
  BY <1>1, <1>2, <1>3 DEF Types, SlotTypeOK
<1>5. LockHeld' /\ RecordKept' /\ ConnKept'
  BY <1>1, <1>2, <1>3 DEF LockHeld, RecordKept, ConnKept, Inside, Sending
<1> QED
  BY <1>4, <1>5

\* What the steps of t_RFID inside the mutex have in common.
LEMMA InsideStep ==
  ASSUME IInv, NEW from \in Inside, NEW to \in Inside, Goto("t_RFID", from, to),
         lock' = lock
  PROVE  /\ pc["t_RFID"] = from /\ pc'["t_RFID"] = to
         /\ pc' \in [Threads -> Points] /\ pc'["t_screen"] \in {"lock", "show", "unlock"}
         /\ LockHeld'
<1>1. "t_RFID" \in Threads /\ "t_screen" \in Threads \ {"t_RFID"} /\ to \in Points
  BY DEF Threads, Points, RFIDPoints
<1>2. /\ pc["t_RFID"] = from /\ pc'["t_RFID"] = to
      /\ pc'["t_screen"] = pc["t_screen"] /\ pc' \in [Threads -> Points]
  BY <1>1, GotoEffect DEF IInv
<1> QED
  BY <1>2 DEF IInv, LockHeld, Types, SlotTypeOK

\* A tag is there.
LEMMA DetectKeeps == ASSUME IInv, Detect PROVE IInv'
<1> USE DEF IInv
<1>1. /\ pc["t_RFID"] = "decide" /\ pc'["t_RFID"] = "unlock"
      /\ pc' \in [Threads -> Points] /\ pc'["t_screen"] \in {"lock", "show", "unlock"}
      /\ LockHeld'
  BY InsideStep DEF Detect, Inside
<1>2. /\ uid \in Texts /\ isPresent' = TRUE
      /\ \/ isPresent /\ UNCHANGED record_instance
         \/ record_instance' = NewRecord
      /\ UNCHANGED <<outside, uid, lock, net, status>>
  BY DEF Detect, Detected, Types, SlotTypeOK
<1>3. now \in Nat /\ now >= 1
  BY SlotAssumption DEF SlotAssumption, Types, SlotTypeOK
<1> USE DEF outside, net
<1>4. record_instance' \in [RFID : Texts \cup {NoText}, start : Nat, end : Nat]
  BY <1>2, <1>3 DEF Types, NewRecord
<1>5. Types'
  BY <1>1, <1>2, <1>4 DEF Types, SlotTypeOK
<1>6. RecordKept'
  BY <1>1, <1>2, <1>3 DEF RecordKept, NewRecord, Sending
<1>7. ConnKept'
  BY <1>1, <1>2 DEF ConnKept, Sending
<1> QED
  BY <1>1, <1>5, <1>6, <1>7

\* A tag is gone.
LEMMA MissKeeps == ASSUME IInv, Miss PROVE IInv'
<1> USE DEF IInv
<1>1. PICK to \in {"unlock", "connect"} :
        /\ Goto("t_RFID", "decide", to)
        /\ \/ to = "unlock" /\ ~isPresent /\ UNCHANGED record_instance
           \/ /\ to = "connect" /\ isPresent
              /\ record_instance' = [record_instance EXCEPT !.end = now]
  BY DEF Miss
<1>2. UNCHANGED <<outside, uid, lock, isPresent, net, status>>
  BY DEF Miss
<1>3. /\ pc["t_RFID"] = "decide" /\ pc'["t_RFID"] = to
      /\ pc' \in [Threads -> Points] /\ pc'["t_screen"] \in {"lock", "show", "unlock"}
      /\ LockHeld'
  BY <1>1, <1>2, InsideStep DEF Inside, Sending
<1>4. now \in Nat
  BY SlotAssumption DEF SlotAssumption, Types, SlotTypeOK
<1> USE DEF outside, net
<1>5. /\ record_instance' \in [RFID : Texts \cup {NoText}, start : Nat, end : Nat]
      /\ record_instance'.RFID = record_instance.RFID
      /\ record_instance'.start = record_instance.start
      /\ to = "connect" => record_instance'.end = now
      /\ to = "unlock" => record_instance'.end = record_instance.end
  BY <1>1, <1>4 DEF Types
<1>6. Types'
  BY <1>2, <1>3, <1>5 DEF Types, SlotTypeOK
<1>7. RecordKept'
  BY <1>1, <1>2, <1>3, <1>4, <1>5 DEF RecordKept, Sending, Types
<1>8. ConnKept'
  BY <1>2, <1>3 DEF ConnKept, Sending
<1> QED
  BY <1>3, <1>6, <1>7, <1>8

\* connect, in sendRecord.
LEMMA ConnectKeeps == ASSUME IInv, Connect PROVE IInv'
<1> USE DEF IInv, outside, slot
<1>1. CASE Goto("t_RFID", "connect", "request")
  <2>1. /\ pc["t_RFID"] = "connect" /\ pc'["t_RFID"] = "request"
        /\ pc' \in [Threads -> Points] /\ pc'["t_screen"] \in {"lock", "show", "unlock"}
        /\ LockHeld'
    BY <1>1, InsideStep DEF Inside, Sending, Connect
  <2>2. /\ UNCHANGED <<outside, slot, received>>
        /\ \/ UNCHANGED conn
           \/ conn' = [state |-> "queued", answer |-> NoAnswer]
        /\ status' \in {status, "exited"}
    BY DEF Connect
  <2>3. Types'
    BY <2>1, <2>2 DEF Types, SlotTypeOK
  <2>4. RecordKept' /\ ConnKept'
    BY <2>1, <2>2 DEF RecordKept, ConnKept, Sending
  <2> QED
    BY <2>1, <2>3, <2>4
<1>2. CASE ~Goto("t_RFID", "connect", "request")
  <2>1. UNCHANGED <<outside, slot, net, pc>> /\ status' = "exited"
    BY <1>2 DEF Connect, net
  <2> QED
    BY <2>1 DEF Types, SlotTypeOK, LockHeld, RecordKept, ConnKept, net
<1> QED
  BY <1>1, <1>2

\* The steps of sendRecord that only move on.
LEMMA ExchangeKeeps ==
  ASSUME IInv, WriteRequest \/ ReadReply \/ WriteRecord
  PROVE  IInv'
<1> USE DEF IInv, outside, slot
<1>1. PICK from \in {"request", "read", "record"},
           to \in {"read", "record", "sent", "close"} : Goto("t_RFID", from, to)
  BY DEF WriteRequest, ReadReply, WriteRecord
<1>2. UNCHANGED <<outside, slot, conn, status>>
  BY DEF WriteRequest, ReadReply, WriteRecord, net
<1>3. /\ pc["t_RFID"] = from /\ pc'["t_RFID"] = to
      /\ pc' \in [Threads -> Points] /\ pc'["t_screen"] \in {"lock", "show", "unlock"}
      /\ LockHeld'
  BY <1>1, <1>2, InsideStep DEF Inside, Sending
<1>4. Types'
  BY <1>2, <1>3 DEF Types, SlotTypeOK
<1>5. RecordKept' /\ ConnKept'
  BY <1>2, <1>3 DEF RecordKept, ConnKept, Sending
<1> QED
  BY <1>3, <1>4, <1>5

\* close, the end of sendRecord.
LEMMA CloseKeeps == ASSUME IInv, Close PROVE IInv'
<1> USE DEF IInv, outside
<1>1. PICK from \in {"sent", "close"} : Goto("t_RFID", from, "unlock")
  BY DEF Close
<1>2. /\ conn' = Closed /\ isPresent' = FALSE
      /\ UNCHANGED <<outside, uid, lock, record_instance, received, status>>
  BY DEF Close
<1>3. /\ pc["t_RFID"] = from /\ pc'["t_RFID"] = "unlock"
      /\ pc' \in [Threads -> Points] /\ pc'["t_screen"] \in {"lock", "show", "unlock"}
      /\ LockHeld'
  BY <1>1, <1>2, InsideStep DEF Inside, Sending
<1>4. Types'
  BY <1>2, <1>3 DEF Types, SlotTypeOK, Closed
<1>5. RecordKept' /\ ConnKept'
  BY <1>2, <1>3 DEF RecordKept, ConnKept, Sending
<1> QED
  BY <1>3, <1>4, <1>5

\* t_screen reads the record.
LEMMA ShowKeeps == ASSUME IInv, Show PROVE IInv'
<1> USE DEF IInv, outside, slot, net
<1>1. /\ pc["t_screen"] = "show" /\ pc'["t_screen"] = "unlock"
      /\ pc'["t_RFID"] = pc["t_RFID"] /\ pc' \in [Threads -> Points]
  BY GotoEffect DEF Show, Threads, Points, RFIDPoints, Inside
<1>2. UNCHANGED <<outside, slot, net, status>>
  BY DEF Show
<1> QED
  BY <1>1, <1>2 DEF Types, SlotTypeOK, LockHeld, RecordKept, ConnKept

\* A failing connect or a SIGPIPE ends the process.
LEMMA BrokenKeeps == ASSUME IInv, NEW from, Broken(from) PROVE IInv'
BY DEF IInv, Broken, outside, slot, net, Types, SlotTypeOK, LockHeld,
       RecordKept, ConnKept

\* The server takes, answers or closes a connection that is there.
LEMMA ServerKeeps ==
  ASSUME IInv, Accept \/ Answer \/ HangUp \/ ServerStops \/ ServerStarts
  PROVE  IInv'
<1> USE DEF IInv
<1>1. UNCHANGED <<now, reader, pipe, errors, slot, received, pc, status>>
  BY DEF Accept, Answer, HangUp, ServerStops, ServerStarts, outside, net
<1>2. server' \in {"up", "down"}
  BY DEF Accept, Answer, HangUp, ServerStops, ServerStarts, outside, Types, SlotTypeOK
<1>3. /\ conn' \in [state : {"closed", "queued", "accepted"},
                    answer : Answers \cup {NoAnswer}]
      /\ conn' # Closed => conn # Closed
  <2>1. conn \in [state : {"closed", "queued", "accepted"},
                  answer : Answers \cup {NoAnswer}]
    BY DEF Types
  <2> QED
    BY <2>1 DEF Accept, Answer, HangUp, ServerStops, ServerStarts, Closed, net
<1> USE DEF slot
<1>4. Types'
  BY <1>1, <1>2, <1>3 DEF Types, SlotTypeOK
<1>5. LockHeld' /\ RecordKept' /\ ConnKept'
  BY <1>1, <1>3 DEF LockHeld, RecordKept, ConnKept
<1> QED
  BY <1>4, <1>5

\* The clock goes on.
LEMMA TickKeeps == ASSUME IInv, Tick PROVE IInv'
<1> USE DEF IInv, Tick, slot, net
<1>1. now \in Nat /\ now' = now + 1 /\ now' \in 1 .. MaxNow
  BY SlotAssumption DEF SlotAssumption, Types, SlotTypeOK
<1>2. Types'
  BY <1>1 DEF Types, SlotTypeOK
<1>3. RecordKept'
  BY <1>1 DEF RecordKept, Types
<1>4. LockHeld' /\ ConnKept'
  BY DEF LockHeld, ConnKept
<1> QED
  BY <1>2, <1>3, <1>4

\* No step breaks the invariant.
LEMMA NextKeepsIInv == IInv /\ [Next]_vars => IInv'
<1> SUFFICES ASSUME IInv, [Next]_vars PROVE IInv'
  OBVIOUS
<1>1. CASE RFID
  BY <1>1, ReadKeeps, DetectKeeps, MissKeeps, ConnectKeeps, ExchangeKeeps,
     CloseKeeps, BrokenKeeps, LockKeeps, UnlockKeeps DEF RFID
<1>2. CASE ScreenLock \/ Screen
  BY <1>2, LockKeeps, UnlockKeeps, ShowKeeps DEF ScreenLock, Screen
<1>3. CASE Reader \/ Tick
  BY <1>3, ReaderKeeps, TickKeeps
<1>4. CASE Accept \/ Answer \/ HangUp \/ ServerStops \/ ServerStarts
  BY <1>4, ServerKeeps
<1>5. CASE UNCHANGED vars
  BY <1>5 DEF vars, outside, slot, net, IInv, Types, SlotTypeOK, LockHeld,
              RecordKept, ConnKept
<1> QED
  BY <1>1, <1>2, <1>3, <1>4, <1>5 DEF Next

\* The inductive invariant holds in every reachable state.
LEMMA IInvAlways == Spec => []IInv
BY InitIInv, NextKeepsIInv, PTL DEF Spec

-----------------------------------------------------------------------------
\* The variables of slot.c, the pipe and the connection keep their types,
\* whatever the reader prints and the server does.
THEOREM SlotTypeCorrect == Spec => []SlotTypeOK
<1>1. IInv => SlotTypeOK
  BY DEF IInv, Types
<1> QED
  BY <1>1, IInvAlways, PTL

\* t_screen_handler never shows a record that is over or on its way to the
\* server: from the miss to the reset t_RFID keeps the mutex (slot.c:131-153).
THEOREM ScreenTellsTruth == Spec => []ScreenSeesOpenRecord
<1>1. IInv => ScreenSeesOpenRecord
  <2> SUFFICES ASSUME IInv, pc["t_screen"] = "show", isPresent
               PROVE  /\ record_instance.RFID # NoText /\ record_instance.end = 0
                      /\ conn = Closed
    BY DEF ScreenSeesOpenRecord
  <2>1. pc["t_RFID"] \notin Sending
    BY DEF IInv, LockHeld, Inside
  <2> QED
    BY <2>1, SlotAssumption DEF SlotAssumption, IInv, RecordKept, ConnKept
<1> QED
  BY <1>1, IInvAlways, PTL

-----------------------------------------------------------------------------
\* What Presence speaks of, of the state of slot.c.
tag      == IF isPresent THEN record_instance.RFID ELSE NoText
since    == IF isPresent THEN record_instance.start ELSE 0
reported == pc["t_RFID"] = "sent"
presence == <<now, tag, since, reported, received>>

\* The steps that move t_RFID neither to "sent" nor away from it, and leave
\* the record, if it counts, with its text and start, are not seen.
LEMMA DetectImplements == ASSUME IInv, Detect PROVE [Slot!Next]_presence
<1>1. /\ pc["t_RFID"] = "decide" /\ pc'["t_RFID"] = "unlock"
  BY InsideStep DEF Detect, Inside
<1>2. uid \in Texts /\ NoText \notin Texts
  BY SlotAssumption DEF SlotAssumption, IInv, Types, SlotTypeOK, Detect, Detected
<1>3. UNCHANGED <<now, received, reported>>
  BY <1>1 DEF Detect, outside, net, reported
<1>4. CASE isPresent /\ UNCHANGED <<isPresent, record_instance>>
  BY <1>3, <1>4 DEF presence, tag, since
<1>5. CASE ~isPresent /\ isPresent' = TRUE /\ record_instance' = NewRecord
  <2>1. tag = NoText /\ tag' = uid /\ since' = now
    BY <1>5 DEF tag, since, NewRecord
  <2>2. Slot!Come(uid)
    BY <1>3, <2>1 DEF Slot!Come, tag, since, reported
  <2> QED
    BY <1>2, <2>2 DEF Slot!Next
<1> QED
  BY <1>4, <1>5 DEF Detect

\* To notice that the tag is gone is no step of Presence: the record comes first.
LEMMA MissImplements == ASSUME IInv, Miss PROVE UNCHANGED presence
<1>1. PICK to \in {"unlock", "connect"} :
        /\ Goto("t_RFID", "decide", to)
        /\ \/ UNCHANGED record_instance
           \/ record_instance' = [record_instance EXCEPT !.end = now]
  BY DEF Miss
<1>2. pc["t_RFID"] = "decide" /\ pc'["t_RFID"] = to
  BY <1>1, InsideStep DEF Inside, Sending, Miss
<1>3. /\ record_instance'.RFID = record_instance.RFID
      /\ record_instance'.start = record_instance.start
  BY <1>1 DEF IInv, Types
<1> QED
  BY <1>2, <1>3 DEF Miss, outside, net, presence, tag, since, reported

\* The write of the record is the one record of the stay.
LEMMA WriteRecordImplements ==
  ASSUME IInv, WriteRecord PROVE [Slot!Next]_presence
<1>1. UNCHANGED <<now, isPresent, record_instance>>
  BY DEF WriteRecord, outside, slot
<1>2. CASE Goto("t_RFID", "record", "close") /\ UNCHANGED received
  <2>1. pc["t_RFID"] = "record" /\ pc'["t_RFID"] = "close"
    BY <1>1, <1>2, InsideStep DEF Inside, Sending, WriteRecord, slot
  <2> QED
    BY <1>1, <1>2, <2>1 DEF presence, tag, since, reported
<1>3. CASE /\ Goto("t_RFID", "record", "sent")
           /\ received' = Append(received, record_instance)
  <2>1. pc["t_RFID"] = "record" /\ pc'["t_RFID"] = "sent"
    BY <1>1, <1>3, InsideStep DEF Inside, Sending, WriteRecord, slot
  <2>2. /\ isPresent /\ record_instance.RFID \in Texts
        /\ record_instance.end \in record_instance.start .. now
    BY <2>1 DEF IInv, RecordKept, Sending
  <2>3. tag # NoText /\ ~reported /\ reported' /\ UNCHANGED <<now, tag, since>>
    BY <1>1, <2>1, <2>2, SlotAssumption DEF SlotAssumption, tag, since, reported
  <2>4. record_instance = [RFID |-> tag, start |-> since, end |-> record_instance.end]
    BY <2>2 DEF IInv, Types, tag, since
  <2>5. Slot!Report
    BY <1>3, <2>2, <2>3, <2>4 DEF Slot!Report, tag, since, reported
  <2> QED
    BY <2>5 DEF Slot!Next
<1> QED
  BY <1>2, <1>3 DEF WriteRecord

\* The end of sendRecord ends the stay.
LEMMA CloseImplements == ASSUME IInv, Close PROVE [Slot!Next]_presence
<1>1. PICK from \in {"sent", "close"} : Goto("t_RFID", from, "unlock")
  BY DEF Close
<1>2. pc["t_RFID"] = from /\ pc'["t_RFID"] = "unlock"
  BY <1>1, InsideStep DEF Inside, Sending, Close
<1>3. isPresent /\ record_instance.RFID \in Texts
  BY <1>2 DEF IInv, RecordKept, Sending
<1>4. tag # NoText /\ tag' = NoText /\ since' = 0 /\ ~reported'
  BY <1>2, <1>3, SlotAssumption DEF SlotAssumption, Close, tag, since, reported
<1>5. Slot!Leave
  BY <1>4 DEF Close, outside, Slot!Leave, tag, since, reported
<1> QED
  BY <1>5 DEF Slot!Next

\* The other steps of t_RFID, and those of the other thread.
LEMMA OthersUnseen ==
  ASSUME IInv, \/ ReadRFID \/ SelectFails \/ Connect \/ WriteRequest \/ ReadReply
               \/ Lock("t_RFID", "decide") \/ Unlock("t_RFID", "select")
               \/ ScreenLock \/ Screen
  PROVE  UNCHANGED presence
<1> USE DEF outside, slot, net, ReadRFID, SelectFails, Connect, WriteRequest,
            ReadReply, Lock, Unlock, ScreenLock, Screen, Show
<1>1. UNCHANGED <<now, isPresent, record_instance, received>>
  OBVIOUS
<1>2. pc \in [Threads -> Points] /\ "t_RFID" \in Threads /\ "t_screen" \in Threads
  BY DEF IInv, Types, Threads
<1>3. pc'["t_RFID"] = "sent" <=> pc["t_RFID"] = "sent"
  BY <1>2 DEF Goto
<1> QED
  BY <1>1, <1>3 DEF presence, tag, since, reported

\* Every step of the slot is a step of Presence, or none.
LEMMA StepImplements ==
  ASSUME IInv, [Next]_vars
  PROVE  [Slot!Next]_presence
<1>1. CASE RFID
  <2>1. ASSUME NEW from, Broken(from) PROVE UNCHANGED presence
    BY <2>1 DEF Broken, outside, slot, net, presence, tag, since, reported
  <2> QED
    BY <1>1, <2>1, DetectImplements, MissImplements, WriteRecordImplements,
       CloseImplements, OthersUnseen DEF RFID
<1>2. CASE ScreenLock \/ Screen
  BY <1>2, OthersUnseen
<1>3. CASE Tick
  <2>1. Slot!Tick
    BY <1>3 DEF Tick, slot, net, Slot!Tick
  <2> QED
    BY <2>1 DEF Slot!Next
<1>4. CASE Reader
  BY <1>4 DEF Reader, slot, net, presence, tag, since, reported
<1>5. CASE Accept \/ Answer \/ HangUp \/ ServerStops \/ ServerStarts
  BY <1>5 DEF Accept, Answer, HangUp, ServerStops, ServerStarts, outside, slot,
              net, presence, tag, since, reported
<1>6. CASE UNCHANGED vars
  BY <1>6 DEF vars, outside, slot, net, presence, tag, since, reported
<1> QED
  BY <1>1, <1>2, <1>3, <1>4, <1>5, <1>6 DEF Next

\* However often a tag is read, whatever fails and whenever the server comes,
\* answers or goes, what slot.c sends are records of stays: at most one of
\* each, of the text read first and of the time it was there.
THEOREM OneRecordPerStay == Spec => ImplementsPresence
<1>1. Init => Slot!Init
  BY DEF Init, Slot!Init
<1>2. IInv /\ [Next]_vars => [Slot!Next]_(Slot!vars)
  BY StepImplements DEF presence, tag, since, reported, Slot!vars
<1> QED
  BY <1>1, <1>2, IInvAlways, PTL DEF Spec, ImplementsPresence, Slot!Spec
=============================================================================
