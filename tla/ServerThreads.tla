--------------------------- MODULE ServerThreads ---------------------------
(***************************************************************************)
(* What both servers, final/server_1.c and server/server.c, have around    *)
(* the tables: main, which starts a detached thread per request and lets   *)
(* go of it, and the end of such a thread.                                 *)
(***************************************************************************)
EXTENDS UserStoreProps

VARIABLES
  main,           \* "listening"; "crashed" after pthread_detach met a stale
                  \* thread id, "killed" after SIGPIPE
  tid,            \* main's variable for the thread created last
  thread          \* thread[t]: how far in its life thread t is

NoneCreated == /\ main = "listening" /\ tid = NoThread
               /\ thread = [t \in Threads |-> "none"]

Alive == status = "up" /\ main = "listening"

\* After a failed pthread_create main still detaches tid, which it never set
\* or which names the previous thread.  That is refused while that thread
\* runs, and undefined once it has gone (or never was): nothing or a crash.
DetachStale ==
  /\ UNCHANGED tid
  /\ \/ main' = main
     \/ /\ tid \in {NoThread} \cup {t \in Threads : thread[t] = "exited"}
        /\ main' = "crashed"

\* client_handler returns from the function it has called.
Exit(t) == /\ thread[t] = "running" /\ pc[t] = "done"
           /\ thread' = [thread EXCEPT ![t] = "exited"]
=============================================================================
