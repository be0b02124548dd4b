--------------------------- MODULE ShutdownProofs ---------------------------
(***************************************************************************)
(* The shutdown of a server with any number of connections: the processor  *)
(* is destroyed after every thread that uses it, with an empty queue, and  *)
(* no connection that has ended stays registered.                          *)
(*                                                                         *)
(* The invariant has three layers.  Control says which threads are in stop *)
(* and which run; Promises says that a thread that waits has exactly one   *)
(* task queued, one pending command or one answer; Registration follows a  *)
(* client through the processor.                                           *)
(***************************************************************************)
EXTENDS Shutdown, TLAPS

Destroying == {"destroy", "join_connections", "join_replication", "destroy_processor",
               "stuck", "done"}
NoThread == {"new", "refused", "joined", "killed"}
Running == ConnPlaces \ (NoThread \cup {"finished"})
StopPlaces == {"outside", "lock", "exchange", "shut_listener", "stop_replication",
               "lock_workers", "stop_workers", "cancel", "join_workers",
               "join_replication", "unlock"}

(* Where a thread waits for the future of a task. *)
Waits(kind) ==
  CASE kind = "register" -> {"registering"}
    [] kind = "command" -> {"waiting"}
    [] kind = "block" -> {"waiting"}
    [] kind = "unregister" -> {"unregistering", "detaching"}
    [] kind = "register_replica" -> {"attaching"}
Waiting == {"registering", "waiting", "unregistering", "detaching", "attaching"}

-----------------------------------------------------------------------------
(* Control *)
Types == /\ at \in [Stoppers -> StopPlaces]
         /\ conn \in [Connections -> ConnPlaces]
         /\ queue \in Seq(Tasks)

(* Who is past the lock of stop holds its mutex. *)
StopExclusive == \A t \in Stoppers : at[t] \notin {"outside", "lock"} => stop_mutex = t

(* Who may be in stop, and when there is no signal thread. *)
StopCalled == /\ signal # "stopping" => at["signal"] = "outside"
              /\ main \notin {"run_ends", "destroy"} => at["main"] = "outside"
              /\ main \in {"load", "listen", "connect", "killed"} \cup Destroying
                   => signal = "returned"

(* A thread that runs, or has not been joined, is among the workers. *)
ThreadsOwned == \A c \in Connections : conn[c] \notin NoThread => c \in workers

ConnectionsEnded ==
  main \in {"join_replication", "destroy_processor", "stuck", "done"} =>
    \A c \in Connections : conn[c] \in {"new", "refused", "finished", "joined"}

ReplicationEnded ==
  main \in {"destroy_processor", "stuck", "done"} => replication \in {"none", "finished", "joined"}

(* Unregistrations asked for by stop are awaited there. *)
CancellationsAwaited ==
  main # "killed" /\ cancellations # {} => \E t \in Stoppers : at[t] = "cancel"

Terminated ==
  /\ main = "killed" => queue = <<>> /\ blocked = {}
                        /\ \A c \in Connections : conn[c] = "killed"
  /\ \A c \in Connections : conn[c] = "killed" => main = "killed"

Control ==
  /\ Types /\ StopExclusive /\ StopCalled /\ ThreadsOwned /\ ConnectionsEnded
  /\ ReplicationEnded /\ CancellationsAwaited /\ Terminated

(* Promises *)
TasksAwaited ==
  \A i \in 1..Len(queue) :
    IF queue[i].cancels
    THEN queue[i].kind = "unregister" /\ queue[i].client \in cancellations
    ELSE /\ conn[queue[i].client] \in Waits(queue[i].kind)
         /\ queue[i].client \notin ready /\ queue[i].client \notin blocked

TasksDistinct ==
  \A i, j \in 1..Len(queue) :
    queue[i].cancels = queue[j].cancels /\ queue[i].client = queue[j].client => i = j

AnswersAwaited ==
  \A c \in Connections :
    /\ c \in ready => conn[c] \in Waiting \cup {"killed"}
    /\ c \in blocked => conn[c] = "waiting" /\ c \notin ready
    /\ c \in active => c \notin cancellations

Promises == TasksAwaited /\ TasksDistinct /\ AnswersAwaited

(* Registration *)
Registration ==
  /\ \A c \in Connections : c \in clients =>
       /\ conn[c] \notin {"close", "finished", "joined"}
       /\ conn[c] = "unregistering" => c \notin ready
  /\ blocked \subseteq clients

IInv == Control /\ Promises /\ Registration

-----------------------------------------------------------------------------
(* The shapes of a step of a connection thread. *)
Busy == Running \ (Waiting \cup {"close"})
Kinds == {"register", "command", "block", "unregister", "register_replica"}

Submits(c) ==
  \E from \in Busy, kind \in Kinds : \E to \in Waits(kind) : submits(c, from, kind, to)
Gets(c) ==
  \E from \in Waiting, to \in Busy \cup {"close"} :
    gets(c, from, to) /\ (to = "close" => from = "unregistering")
Goes(c) == \E from \in Busy, to \in Busy : goes(c, from, to)
Terminates(c) == conn[c] \in Busy /\ terminate

(* Every step of a connection thread has one of these shapes.                 *)
LEMMA ConnectionShapes ==
  ASSUME NEW c \in Connections, Connection(c) \/ receive(c)
  PROVE  Submits(c) \/ Gets(c) \/ Goes(c) \/ Terminates(c) \/ attach(c) \/ finish(c)
<1> USE DEF Busy, Running, ConnPlaces, NoThread, Waiting, Kinds
<1>a. ASSUME NEW from \in Busy, NEW kind \in Kinds, NEW to \in Waits(kind),
             submits(c, from, kind, to)
      PROVE  Submits(c)
  BY <1>a, Zenon DEF Submits
<1>b. ASSUME NEW from \in Waiting, NEW to \in Busy \cup {"close"}, gets(c, from, to),
             to = "close" => from = "unregistering"
      PROVE  Gets(c)
  BY <1>b, Zenon DEF Gets
<1>c. ASSUME NEW from \in Busy, NEW to \in Busy, goes(c, from, to)
      PROVE  Goes(c)
  BY <1>c, Zenon DEF Goes
<1>d. ASSUME NEW from \in Busy, NEW to \in Busy, sends(c, from, to)
      PROVE  Goes(c) \/ Terminates(c)
  <2>1. CASE goes(c, from, to)
    BY <2>1, <1>c
  <2>2. CASE goes(c, from, "leave")
    <3>1. "leave" \in Busy
      OBVIOUS
    <3> QED
      BY <2>2, <3>1, <1>c
  <2>3. CASE conn[c] = from /\ terminate
    BY <2>3, Zenon DEF Terminates
  <2> QED
    BY <1>d, <2>1, <2>2, <2>3, Zenon DEF sends
<1>1. CASE register(c)
  <2>1. submits(c, "starting", "register", "registering")
    BY <1>1 DEF register
  <2> QED
    BY <2>1, <1>a DEF Waits
<1>2. CASE registered(c)
  <2>1. gets(c, "registering", IF stopped(c) THEN "leave" ELSE "loop")
    BY <1>2 DEF registered
  <2> QED
    BY <2>1, <1>b
<1>3. CASE poll(c)
  <2>1. goes(c, "loop", IF stopped(c) THEN "leave" ELSE "poll")
    BY <1>3 DEF poll
  <2> QED
    BY <2>1, <1>c
<1>4. CASE receive(c) \/ end_of_input(c)
  <2>1. goes(c, "poll", "parse") \/ goes(c, "poll", "leave")
    BY <1>4 DEF receive, end_of_input
  <2> QED
    BY <2>1, <1>c
<1>5. CASE submit(c)
  <2>1. PICK kind \in {"command", "block"} : submits(c, "parse", kind, "waiting")
    BY <1>5 DEF submit
  <2> QED
    BY <2>1, <1>a DEF Waits
<1>6. CASE incomplete(c) \/ invalid(c)
  <2>1. goes(c, "parse", "loop") \/ goes(c, "parse", "leave")
    BY <1>6 DEF incomplete, invalid
  <2> QED
    BY <2>1, <1>c
<1>7. CASE answered(c)
  <2>1. gets(c, "waiting", "answered")
    BY <1>7 DEF answered
  <2> QED
    BY <2>1, <1>b
<1>8. CASE check(c)
  <2>1. goes(c, "answered", IF stopped(c) THEN "leave" ELSE "send")
    BY <1>8 DEF check
  <2> QED
    BY <2>1, <1>c
<1>9. CASE send(c) \/ send_full_resync(c)
  <2>1. sends(c, "send", "parse") \/ sends(c, "resync", "replica")
    BY <1>9 DEF send, send_full_resync
  <2> QED
    BY <2>1, <1>d
<1>10. CASE psync(c)
  <2>1. submits(c, "parse", "unregister", "detaching")
    BY <1>10 DEF psync
  <2> QED
    BY <2>1, <1>a DEF Waits
<1>11. CASE attached(c)
  <2>1. gets(c, "attaching", "resync")
    BY <1>11 DEF attached
  <2> QED
    BY <2>1, <1>b
<1>12. CASE end_of_acknowledgements(c)
  <2>1. goes(c, "replica", "leave")
    BY <1>12 DEF end_of_acknowledgements
  <2> QED
    BY <2>1, <1>c
<1>13. CASE leave(c)
  <2>1. submits(c, "leave", "unregister", "unregistering")
    BY <1>13 DEF leave
  <2> QED
    BY <2>1, <1>a DEF Waits
<1>14. CASE unregistered(c)
  <2>1. gets(c, "unregistering", "close")
    BY <1>14 DEF unregistered
  <2> QED
    BY <2>1, <1>b
<1> QED
  BY <1>1, <1>2, <1>3, <1>4, <1>5, <1>6, <1>7, <1>8, <1>9, <1>10, <1>11, <1>12, <1>13, <1>14,
     Zenon DEF Connection

(* A step of a connection thread that does not end the process touches its    *)
(* own place and the processor only.                                          *)
LEMMA ConnectionEffect ==
  ASSUME NEW c \in Connections, Types,
         Submits(c) \/ Gets(c) \/ Goes(c) \/ attach(c) \/ finish(c)
  PROVE  /\ UNCHANGED <<threads, stopper, replica>>
         /\ conn[c] \in Running
         /\ \E to \in Running \cup {"finished"} : conn' = [conn EXCEPT ![c] = to]
         /\ queue' \in Seq(Tasks)
<1> USE DEF Busy, Running, ConnPlaces, NoThread, Waiting
<1>1. CASE Submits(c)
  <2>1. PICK from \in Busy, kind \in Kinds : \E to \in Waits(kind) : submits(c, from, kind, to)
    BY <1>1, Zenon DEF Submits
  <2>2. PICK to \in Waits(kind) : submits(c, from, kind, to)
    BY <2>1
  <2>3. to \in Waiting
    BY <2>2, <2>1 DEF Waits, Kinds
  <2>4. task(kind, c) \in Tasks
    BY <2>1 DEF task, Tasks, Kinds
  <2>5. queue' \in Seq(Tasks)
    BY <2>2, <2>4 DEF submits, Types
  <2> QED
    BY <2>1, <2>2, <2>3, <2>5, ZenonT(30) DEF submits, moves
<1>2. CASE Gets(c)
  BY <1>2, ZenonT(30) DEF Gets, gets, moves, Types
<1>3. CASE Goes(c)
  BY <1>3, ZenonT(30) DEF Goes, goes, moves, processor, Types
<1>4. CASE attach(c)
  <2>1. task("register_replica", c) \in Tasks
    BY DEF task, Tasks
  <2>2. queue' \in Seq(Tasks)
    BY <1>4, <2>1 DEF attach, Types
  <2> QED
    BY <1>4, <2>2, ZenonT(30) DEF attach, moves
<1>5. CASE finish(c)
  BY <1>5, ZenonT(30) DEF finish, moves, processor, Types
<1> QED
  BY <1>1, <1>2, <1>3, <1>4, <1>5

(* A step of a connection thread preserves Control.                           *)
LEMMA ControlConnection ==
  ASSUME NEW c \in Connections, Control, Connection(c) \/ receive(c)
  PROVE  Control'
<1> USE DEF Control
<1>1. CASE Terminates(c)
  <2>1. terminate
    BY <1>1 DEF Terminates
  <2>2. Types'
    BY <2>1 DEF terminate, Types, StopPlaces, ConnPlaces
  <2> QED
    BY <2>1, <2>2 DEF terminate, StopExclusive, StopCalled, ThreadsOwned, ConnectionsEnded,
                      ReplicationEnded, CancellationsAwaited, Terminated, NoThread, Stoppers
<1>2. CASE Submits(c) \/ Gets(c) \/ Goes(c) \/ attach(c) \/ finish(c)
  <2>1. /\ UNCHANGED <<threads, stopper, replica>>
        /\ conn[c] \in Running
        /\ \E to \in Running \cup {"finished"} : conn' = [conn EXCEPT ![c] = to]
        /\ queue' \in Seq(Tasks)
    BY <1>2, ConnectionEffect
  <2>2. PICK to \in Running \cup {"finished"} : conn' = [conn EXCEPT ![c] = to]
    BY <2>1, ZenonT(30)
  <2>3. Types'
    BY <2>1, <2>2 DEF Types, Running, ConnPlaces, threads
  <2>4. main # "killed"
    BY <2>1 DEF Terminated, Running, NoThread
  <2>5. \A d \in Connections : conn'[d] = IF d = c THEN to ELSE conn[d]
    BY <2>2 DEF Types
  <2>6. StopExclusive' /\ StopCalled' /\ ReplicationEnded' /\ CancellationsAwaited'
    BY <2>1 DEF threads, stopper, replica, StopExclusive, StopCalled, ReplicationEnded,
                CancellationsAwaited
  <2>7. ThreadsOwned'
    BY <2>1, <2>5 DEF ThreadsOwned, stopper, Running
  <2>8. ConnectionsEnded'
    BY <2>1, <2>5 DEF ConnectionsEnded, threads, Running, NoThread
  <2>9. Terminated'
    BY <2>1, <2>2, <2>4, <2>5 DEF Terminated, threads, Running, NoThread
  <2> QED
    BY <2>3, <2>6, <2>7, <2>8, <2>9
<1> QED
  BY <1>1, <1>2, ConnectionShapes

(* The thread is past the lock and moves on, and no connection thread ends.   *)
LEMMA ControlAdvance ==
  ASSUME NEW t \in Stoppers, NEW to \in StopPlaces \ {"lock"}, Control,
         at[t] \notin {"outside", "lock"},
         at' = [at EXCEPT ![t] = to],
         stop_mutex' = IF to = "outside" THEN "none" ELSE stop_mutex,
         at[t] = "cancel" => to = "cancel" \/ cancellations = {},
         cancellations' = cancellations,
         UNCHANGED <<main, signal, conn, queue, blocked>>,
         workers' = workers,
         replication' = replication \/ replication' = "joined"
  PROVE  Control'
<1> USE DEF Control
<1>1. stop_mutex = t
  BY DEF StopExclusive
<1>2. \A u \in Stoppers : at'[u] = IF u = t THEN to ELSE at[u]
  BY DEF Types
<1>3. \A u \in Stoppers : u # t => at[u] \in {"outside", "lock"}
  BY <1>1 DEF StopExclusive
<1>4. Types'
  BY DEF Types
<1>5. StopExclusive'
  BY <1>1, <1>2, <1>3 DEF StopExclusive
<1>6. StopCalled'
  BY <1>2 DEF StopCalled, Stoppers
<1>7. CancellationsAwaited'
  BY <1>2, <1>3 DEF CancellationsAwaited
<1> QED
  BY <1>4, <1>5, <1>6, <1>7
     DEF ThreadsOwned, ConnectionsEnded, ReplicationEnded, Terminated

(* A step of stop preserves Control.                                          *)
LEMMA ControlStop ==
  ASSUME NEW t \in Stoppers, Control, stop(t)
  PROVE  Control'
<1> USE DEF Control
<1>1. at[t] # "outside" /\ main' = main /\ signal' = signal
  BY ZenonT(30) DEF stop, lock, exchange, shut_listener, stop_replication, lock_workers, unlock_workers,
         cancelled, workers_joined, join_replication, unlock, stop_worker, cancel, join_worker,
         advances, threads
<1>2. main # "killed"
  BY <1>1 DEF StopCalled, Stoppers
<1>3. CASE lock(t)
  <2>1. stop_mutex = "none" /\ stop_mutex' = t /\ at[t] = "lock"
        /\ at' = [at EXCEPT ![t] = "exchange"]
    BY <1>3 DEF lock, advances
  <2>2. StopExclusive'
    BY <2>1 DEF StopExclusive, Stoppers, Types
  <2>3. CancellationsAwaited'
    BY <1>3, <2>1 DEF lock, CancellationsAwaited, Types
  <2> QED
    BY <1>1, <1>2, <1>3, <2>1, <2>2, <2>3
       DEF lock, Types, StopPlaces, StopCalled, ThreadsOwned, ConnectionsEnded,
           ReplicationEnded, Terminated, connection, processor, replica, Stoppers
<1>4. CASE exchange(t)
  <2>1. PICK to \in {"unlock", "shut_listener"} : at' = [at EXCEPT ![t] = to]
    BY <1>4, ZenonT(30) DEF exchange, advances
  <2> QED
    BY <1>4, <2>1, ControlAdvance, ZenonT(30)
       DEF exchange, advances, connection, processor, replica, StopPlaces
<1>5. CASE shut_listener(t)
  BY <1>5, ControlAdvance, ZenonT(30)
     DEF shut_listener, advances, connection, processor, replica, StopPlaces
<1>6. CASE stop_replication(t)
  BY <1>6, ControlAdvance, ZenonT(30)
     DEF stop_replication, advances, stopper, connection, processor, replica, StopPlaces
<1>7. CASE lock_workers(t)
  BY <1>7, ControlAdvance, ZenonT(30)
     DEF lock_workers, advances, connection, processor, replica, StopPlaces
<1>8. CASE unlock_workers(t)
  BY <1>8, ControlAdvance, ZenonT(30)
     DEF unlock_workers, advances, connection, processor, replica, StopPlaces
<1>9. CASE cancelled(t)
  BY <1>9, ControlAdvance, ZenonT(30)
     DEF cancelled, advances, connection, processor, replica, StopPlaces
<1>10. CASE workers_joined(t)
  BY <1>10, ControlAdvance, ZenonT(30)
     DEF workers_joined, advances, connection, processor, replica, StopPlaces
<1>11. CASE join_replication(t)
  BY <1>11, ControlAdvance, ZenonT(30)
     DEF join_replication, advances, stopper, connection, processor, StopPlaces
<1>12. CASE unlock(t)
  BY <1>12, ControlAdvance, ZenonT(30)
     DEF unlock, advances, connection, processor, replica, StopPlaces
<1>13. CASE \E c \in Connections : stop_worker(t, c)
  <2>1. UNCHANGED <<main, signal, at, stop_mutex, workers, cancellations, replication, conn,
                    queue, blocked>>
    BY <1>13 DEF stop_worker, threads, replica, processor
  <2> QED
    BY <2>1 DEF Types, StopExclusive, StopCalled, ThreadsOwned, ConnectionsEnded,
                ReplicationEnded, CancellationsAwaited, Terminated
<1>14. CASE \E c \in Connections : cancel(t, c)
  <2>1. PICK c \in Connections : cancel(t, c)
    BY <1>14
  <2>2. [kind |-> "unregister", client |-> c, cancels |-> TRUE] \in Tasks
    BY DEF Tasks
  <2>3. /\ UNCHANGED <<main, signal, at, stop_mutex, workers, replication, conn, blocked>>
        /\ at[t] = "cancel"
    BY <2>1 DEF cancel, threads, replica, connection
  <2>4. Types'
    BY <2>1, <2>2, <2>3 DEF Types, cancel
  <2> QED
    BY <2>3, <2>4, <1>2 DEF StopExclusive, StopCalled, ThreadsOwned, ConnectionsEnded,
                       ReplicationEnded, CancellationsAwaited, Terminated
<1>15. CASE \E c \in Connections : join_worker(t, c)
  <2>1. PICK c \in Connections : join_worker(t, c)
    BY <1>15
  <2>2. /\ UNCHANGED <<main, signal, at, stop_mutex, cancellations, replication, queue, blocked>>
        /\ workers' = workers \ {c} /\ conn' = [conn EXCEPT ![c] = "joined"]
    BY <2>1 DEF join_worker, moves, threads, replica, processor
  <2>3. \A d \in Connections : conn'[d] = IF d = c THEN "joined" ELSE conn[d]
    BY <2>2 DEF Types
  <2>4. Types' /\ ThreadsOwned'
    BY <2>2, <2>3 DEF Types, ConnPlaces, ThreadsOwned, NoThread
  <2>5. ConnectionsEnded' /\ Terminated'
    BY <2>2, <2>3, <1>2 DEF ConnectionsEnded, Terminated
  <2> QED
    BY <2>2, <2>4, <2>5 DEF StopExclusive, StopCalled, ReplicationEnded, CancellationsAwaited
<1> QED
  BY <1>3, <1>4, <1>5, <1>6, <1>7, <1>8, <1>9, <1>10, <1>11, <1>12, <1>13, <1>14, <1>15,
     Zenon DEF stop

(* The main thread: it calls stop only from outside of it, starts and joins   *)
(* connection threads, and destroys the members of the server.                *)
LEMMA ControlMain ==
  ASSUME Control, Main
  PROVE  Control'
<1> USE DEF Control
<1>1. CASE initialize_persistence \/ setup_server \/ setup_replication
  <2>1. /\ main \in {"load", "listen", "connect"}
        /\ UNCHANGED <<stop_mutex, workers, cancellations, replication, conn, queue, blocked>>
        /\ \/ main' \in {"listen", "connect", "start"} /\ at' = at
           \/ main' = "destroy" /\ at' = [at EXCEPT !["main"] = "lock"]
        /\ main' # "start" => signal' = signal
    BY <1>1 DEF initialize_persistence, setup_server, setup_replication, sets_up, connection,
                processor
  <2>2. at["main"] = "outside" /\ at["signal"] = "outside" /\ signal = "returned"
    BY <2>1 DEF StopCalled
  <2>3. Types' /\ at' \in [Stoppers -> {"outside", "lock"}] /\ at'["signal"] = "outside"
    BY <2>1, <2>2 DEF Types, StopPlaces, Stoppers
  <2>4. StopCalled'
    BY <2>1, <2>2, <2>3 DEF StopCalled, Destroying
  <2>5. cancellations = {}
    BY <2>1, <2>2 DEF CancellationsAwaited, Stoppers
  <2> QED
    BY <2>1, <2>3, <2>4, <2>5
       DEF StopExclusive, ThreadsOwned, ConnectionsEnded, ReplicationEnded,
           CancellationsAwaited, Terminated
<1>2. CASE run \/ poll_times_out
  <2>1. /\ main \in {"start", "poll"} /\ main' = "loop"
        /\ UNCHANGED <<signal, at, stop_mutex, workers, cancellations, conn, queue, blocked>>
    BY <1>2 DEF run, poll_times_out, continues, connection, processor, stopper
  <2> QED
    BY <2>1 DEF Types, StopExclusive, StopCalled, ThreadsOwned, ConnectionsEnded,
                ReplicationEnded, CancellationsAwaited, Terminated, Destroying
<1>3. CASE reap_completed_connections
  <2>1. /\ main = "loop" /\ main' = "poll"
        /\ UNCHANGED <<signal, at, stop_mutex, cancellations, queue, blocked>>
        /\ workers' = workers \ {c \in workers : conn[c] = "finished"}
        /\ conn' = [c \in Connections |->
                      IF c \in {d \in workers : conn[d] = "finished"} THEN "joined" ELSE conn[c]]
    BY <1>3, Zenon DEF reap_completed_connections, continues, processor
  <2>2. Types' /\ ThreadsOwned'
    BY <2>1 DEF Types, ThreadsOwned, NoThread, ConnPlaces
  <2>3. Terminated'
    BY <2>1 DEF Terminated
  <2> QED
    BY <2>1, <2>2, <2>3 DEF StopExclusive, StopCalled, ConnectionsEnded, ReplicationEnded,
                            CancellationsAwaited, Destroying
<1>4. CASE \E c \in Connections : accept(c)
  <2>1. /\ main = "poll" /\ main' = "start_connection"
        /\ UNCHANGED <<signal, at, stop_mutex, workers, cancellations, conn, queue, blocked>>
    BY <1>4 DEF accept, continues, stopper, processor
  <2> QED
    BY <2>1 DEF Types, StopExclusive, StopCalled, ThreadsOwned, ConnectionsEnded,
                ReplicationEnded, CancellationsAwaited, Terminated, Destroying
<1>5. CASE \E c \in Connections : start_connection(c)
  <2>1. PICK c \in Connections : start_connection(c)
    BY <1>5
  <2>2. /\ main = "start_connection" /\ main' = "loop"
        /\ UNCHANGED <<signal, at, stop_mutex, cancellations, queue, blocked>>
        /\ \/ conn' = [conn EXCEPT ![c] = "refused"] /\ workers' = workers
           \/ conn' = [conn EXCEPT ![c] = "starting"] /\ workers' = workers \cup {c}
    BY <2>1 DEF start_connection, continues, processor
  <2>3. Types' /\ ThreadsOwned'
    BY <2>2 DEF Types, ThreadsOwned, NoThread, ConnPlaces
  <2>4. Terminated'
    BY <2>2 DEF Terminated, Types
  <2> QED
    BY <2>2, <2>3, <2>4 DEF StopExclusive, StopCalled, ConnectionsEnded, ReplicationEnded,
                            CancellationsAwaited, Destroying
<1>6. CASE end_loop \/ leave_main
  <2>1. /\ main \in {"loop", "poll", "run_ends"} /\ at["main"] = "outside"
        /\ \/ main' = "run_ends"
           \/ main' = "destroy" /\ signal = "returned"
        /\ at' = [at EXCEPT !["main"] = "lock"]
        /\ UNCHANGED <<signal, stop_mutex, workers, cancellations, replication, conn, queue,
                       blocked>>
    BY <1>6 DEF end_loop, leave_main, stopper, replica, connection, processor
  <2>2. /\ Types' /\ at'["signal"] = at["signal"] /\ at'["main"] = "lock"
    BY <2>1 DEF Types, StopPlaces, Stoppers
  <2>3. StopExclusive' /\ CancellationsAwaited'
    BY <2>1, <2>2 DEF StopExclusive, CancellationsAwaited, Stoppers
  <2> QED
    BY <2>1, <2>2, <2>3 DEF StopCalled, ThreadsOwned, ConnectionsEnded, ReplicationEnded,
                            Terminated, Destroying
<1>7. CASE close_descriptors \/ destroy_processor
  <2>1. /\ \/ main = "destroy" /\ main' = "join_connections"
           \/ main = "destroy_processor" /\ main' \in {"stuck", "done"}
        /\ at["main"] = "outside"
        /\ UNCHANGED <<signal, at, stop_mutex, workers, cancellations, replication, conn, queue,
                       blocked>>
    BY <1>7 DEF close_descriptors, destroy_processor, continues, stopper, replica, connection,
                processor
  <2> QED
    BY <2>1 DEF Types, StopExclusive, StopCalled, ThreadsOwned, ConnectionsEnded,
                ReplicationEnded, CancellationsAwaited, Terminated, Destroying
<1>8. CASE destroy_connections
  <2>1. /\ main = "join_connections" /\ main' = "join_replication"
        /\ \A c \in workers : conn[c] = "finished"
        /\ UNCHANGED <<signal, at, stop_mutex, workers, cancellations, replication, conn, queue,
                       blocked>>
    BY <1>8 DEF destroy_connections, continues, stopper, replica, connection, processor
  <2>2. ConnectionsEnded'
    BY <2>1 DEF ConnectionsEnded, ThreadsOwned, NoThread, Terminated
  <2> QED
    BY <2>1, <2>2 DEF Types, StopExclusive, StopCalled, ThreadsOwned,
                ReplicationEnded, CancellationsAwaited, Terminated, Destroying
<1>9. CASE destroy_replication
  <2>1. /\ main = "join_replication" /\ main' = "destroy_processor"
        /\ replication \in {"none", "finished", "joined"}
        /\ UNCHANGED <<signal, at, stop_mutex, workers, cancellations, replication, conn, queue,
                       blocked>>
    BY <1>9 DEF destroy_replication, joinable, continues, stopper, replica, connection, processor
  <2> QED
    BY <2>1 DEF Types, StopExclusive, StopCalled, ThreadsOwned, ConnectionsEnded,
                ReplicationEnded, CancellationsAwaited, Terminated, Destroying
<1> QED
  BY <1>1, <1>2, <1>3, <1>4, <1>5, <1>6, <1>7, <1>8, <1>9, Zenon DEF Main

(* The signal thread, the replication thread, the worker and the clients.     *)
LEMMA ControlOthers ==
  ASSUME Control,
         \/ Signal \/ receive_signal \/ wait_fails
         \/ Replication \/ master_sends
         \/ process_task
         \/ \E c \in Connections : serve(c) \/ client_leaves(c)
  PROVE  Control'
<1> USE DEF Control
<1>1. CASE Signal \/ wait_fails
  <2>1. /\ signal' = "returned" /\ at["signal"] = "outside"
        /\ UNCHANGED <<main, at, stop_mutex, workers, cancellations, replication, conn, queue,
                       blocked>>
    BY <1>1, Zenon DEF Signal, return_from_stop, end_wait, wait_fails, stopper, replica, connection,
                processor, StopCalled
  <2> QED
    BY <2>1, SMTT(30) DEF Types, StopExclusive, StopCalled, ThreadsOwned, ConnectionsEnded,
                ReplicationEnded, CancellationsAwaited, Terminated
<1>2. CASE receive_signal
  <2>1. /\ signal = "wait" /\ signal' = "stopping" /\ at["signal"] = "outside"
        /\ at' = [at EXCEPT !["signal"] = "lock"]
        /\ UNCHANGED <<main, stop_mutex, workers, cancellations, replication, conn, queue,
                       blocked>>
    BY <1>2 DEF receive_signal, stopper, replica, connection, processor, StopCalled
  <2>2. Types' /\ at'["main"] = at["main"] /\ at'["signal"] = "lock"
    BY <2>1 DEF Types, StopPlaces, Stoppers
  <2>3. StopExclusive' /\ CancellationsAwaited'
    BY <2>1, <2>2 DEF StopExclusive, CancellationsAwaited, Stoppers
  <2> QED
    BY <2>1, <2>2, <2>3 DEF StopCalled, ThreadsOwned, ConnectionsEnded, ReplicationEnded,
                            Terminated
<1>3. CASE Replication \/ master_sends
  <2>1. /\ replication \in {"busy", "recv"}
        /\ UNCHANGED <<main, signal, at, stop_mutex, workers, cancellations, conn, queue, blocked>>
    BY <1>3, Zenon DEF Replication, replicate, replication_woken, master_sends, threads, stopper,
                connection, processor
  <2> QED
    BY <2>1, SMTT(30) DEF Types, StopExclusive, StopCalled, ThreadsOwned, ConnectionsEnded,
                ReplicationEnded, CancellationsAwaited, Terminated
<1>4. CASE process_task
  <2>1. /\ queue # <<>> /\ queue' = Tail(queue)
        /\ UNCHANGED <<main, signal, at, stop_mutex, workers, replication, conn>>
        /\ cancellations' \subseteq cancellations
    BY <1>4 DEF process_task, threads, replica, connection
  <2>2. Types'
    BY <2>1 DEF Types
  <2>3. main # "killed"
    BY <2>1 DEF Terminated
  <2>4. CancellationsAwaited'
    BY <2>1 DEF CancellationsAwaited
  <2> QED
    BY <2>1, <2>2, <2>3, <2>4 DEF StopExclusive, StopCalled, ThreadsOwned, ConnectionsEnded,
                             ReplicationEnded, Terminated
<1>5. CASE \E c \in Connections : serve(c) \/ client_leaves(c)
  <2>1. /\ UNCHANGED <<main, signal, at, stop_mutex, workers, cancellations, replication, conn,
                       queue>>
        /\ blocked' \subseteq blocked
    BY <1>5, Zenon DEF serve, client_leaves, threads, stopper, replica, connection, processor
  <2> QED
    BY <2>1, Zenon DEF Types, StopExclusive, StopCalled, ThreadsOwned, ConnectionsEnded,
                ReplicationEnded, CancellationsAwaited, Terminated
<1> QED
  BY <1>1, <1>2, <1>3, <1>4, <1>5

-----------------------------------------------------------------------------
(* What the queue holds are tasks of connections.                             *)
LEMMA QueueElements ==
  ASSUME Types, NEW i \in 1..Len(queue)
  PROVE  /\ queue[i] \in Tasks
         /\ queue[i].kind \in Kinds /\ queue[i].client \in Connections
         /\ queue[i].cancels \in BOOLEAN
<1>1. queue[i] \in Tasks
  BY DEF Types
<1> QED
  BY <1>1 DEF Tasks, Kinds

(* A connection whose thread does not wait has no task of its own queued.     *)
LEMMA NoTaskQueued ==
  ASSUME Types, TasksAwaited, NEW c \in Connections, conn[c] \notin Waiting
  PROVE  \A i \in 1..Len(queue) : ~queue[i].cancels => queue[i].client # c
<1> SUFFICES ASSUME NEW i \in 1..Len(queue), ~queue[i].cancels, queue[i].client = c
             PROVE  FALSE
  OBVIOUS
<1>1. queue[i].kind \in Kinds
  BY QueueElements
<1>2. conn[c] \in Waits(queue[i].kind)
  BY DEF TasksAwaited
<1> QED
  BY <1>1, <1>2 DEF Waits, Kinds, Waiting

(* A thread that does not wait, or has its answer, submits a task.            *)
LEMMA PromisesSubmit ==
  ASSUME NEW c \in Connections, Types, Promises, NEW kind \in Kinds, NEW to \in Waits(kind),
         \A i \in 1..Len(queue) : ~queue[i].cancels => queue[i].client # c,
         conn' = [conn EXCEPT ![c] = to],
         queue' = Append(queue, task(kind, c)),
         c \notin blocked, ready' = ready \ {c},
         UNCHANGED <<blocked, active, cancellations>>
  PROVE  Promises'
<1> USE DEF Promises
<1>1. /\ Len(queue') = Len(queue) + 1 /\ queue'[Len(queue) + 1] = task(kind, c)
      /\ \A i \in 1..Len(queue) : queue'[i] = queue[i]
      /\ Len(queue) \in Nat
  BY DEF Types
<1>2. \A i \in 1..Len(queue') : i \in 1..Len(queue) \/ i = Len(queue) + 1
  BY <1>1
<1>3. task(kind, c).kind = kind /\ task(kind, c).client = c /\ task(kind, c).cancels = FALSE
  BY DEF task
<1>4. \A d \in Connections : conn'[d] = IF d = c THEN to ELSE conn[d]
  BY SMTT(30) DEF Types
<1>5. TasksAwaited'
  <2> SUFFICES ASSUME NEW i \in 1..Len(queue')
               PROVE  IF queue'[i].cancels
                      THEN queue'[i].kind = "unregister" /\ queue'[i].client \in cancellations'
                      ELSE /\ conn'[queue'[i].client] \in Waits(queue'[i].kind)
                           /\ queue'[i].client \notin ready' /\ queue'[i].client \notin blocked'
    BY Zenon DEF TasksAwaited, Waits
  <2>1. CASE i \in 1..Len(queue)
    <3>1. queue'[i] = queue[i] /\ queue[i].client \in Connections
      BY <2>1, <1>1, QueueElements, Zenon
    <3>2. IF queue[i].cancels
          THEN queue[i].kind = "unregister" /\ queue[i].client \in cancellations
          ELSE /\ conn[queue[i].client] \in Waits(queue[i].kind)
               /\ queue[i].client \notin ready /\ queue[i].client \notin blocked
      BY <2>1, Zenon DEF TasksAwaited
    <3>3. ~queue[i].cancels => conn'[queue[i].client] = conn[queue[i].client]
      BY <2>1, <3>1, <1>4
    <3> QED
      BY <3>1, <3>2, <3>3, ZenonT(30)
  <2>2. CASE i = Len(queue) + 1
    <3>1. queue'[i].kind = kind /\ queue'[i].client = c /\ queue'[i].cancels = FALSE
      BY <2>2, <1>1, <1>3, Zenon
    <3>2. conn'[c] = to
      BY <1>4
    <3> QED
      BY <3>1, <3>2, Zenon
  <2> QED
    BY <2>1, <2>2, <1>2, Zenon
<1>6. TasksDistinct'
  BY <1>1, <1>2, <1>3, SMTT(30) DEF TasksDistinct
<1>7. to \in Waiting
  BY DEF Waits, Kinds, Waiting
<1>8. AnswersAwaited'
  <2>1. \A d \in Connections : d \in ready' \/ d \in blocked' => d # c /\ conn'[d] = conn[d]
    BY <1>4
  <2>2. \A d \in Connections : d \in ready' => d \in ready
    OBVIOUS
  <2> QED
    BY <2>1, <2>2, Zenon DEF AnswersAwaited
<1> QED
  BY <1>5, <1>6, <1>8

(* A step that leaves the queue alone, after which every thread that has a    *)
(* task queued still waits for it without an answer.                          *)
LEMMA PromisesKept ==
  ASSUME Types, Promises, queue' = queue,
         \A i \in 1..Len(queue) : ~queue[i].cancels =>
           LET c == queue[i].client
           IN  conn'[c] = conn[c] /\ c \notin ready' /\ c \notin blocked',
         cancellations' = cancellations,
         AnswersAwaited'
  PROVE  Promises'
<1> USE DEF Promises
<1>1. TasksDistinct'
  BY Zenon DEF TasksDistinct
<1>2. TasksAwaited'
  <2> SUFFICES ASSUME NEW i \in 1..Len(queue)
               PROVE  IF queue[i].cancels
                      THEN queue[i].kind = "unregister" /\ queue[i].client \in cancellations'
                      ELSE /\ conn'[queue[i].client] \in Waits(queue[i].kind)
                           /\ queue[i].client \notin ready' /\ queue[i].client \notin blocked'
    BY Zenon DEF TasksAwaited, Waits
  <2>1. IF queue[i].cancels
        THEN queue[i].kind = "unregister" /\ queue[i].client \in cancellations
        ELSE /\ conn[queue[i].client] \in Waits(queue[i].kind)
             /\ queue[i].client \notin ready /\ queue[i].client \notin blocked
    BY Zenon DEF TasksAwaited
  <2> QED
    BY <2>1, Zenon
<1> QED
  BY <1>1, <1>2, SMTT(30)

(* A step in which only threads that do not wait move.                        *)
LEMMA PromisesMove ==
  ASSUME Types, Promises, UNCHANGED <<queue, ready, blocked, cancellations>>,
         active' = active,
         \A c \in Connections : conn'[c] = conn[c] \/ conn[c] \notin Waiting \cup {"killed"}
  PROVE  Promises'
<1>1. \A i \in 1..Len(queue) : ~queue[i].cancels =>
        LET c == queue[i].client
        IN  conn'[c] = conn[c] /\ c \notin ready' /\ c \notin blocked'
  <2> SUFFICES ASSUME NEW i \in 1..Len(queue), ~queue[i].cancels
               PROVE  /\ conn'[queue[i].client] = conn[queue[i].client]
                      /\ queue[i].client \notin ready' /\ queue[i].client \notin blocked'
    BY Zenon
  <2>1. queue[i].client \in Connections
    BY QueueElements
  <2>2. conn[queue[i].client] \in Waiting
    BY <2>1, NoTaskQueued DEF Promises
  <2>3. queue[i].client \notin ready /\ queue[i].client \notin blocked
    BY DEF Promises, TasksAwaited
  <2> QED
    BY <2>1, <2>2, <2>3
<1>2. AnswersAwaited'
  BY DEF Promises, AnswersAwaited, Waiting
<1> QED
  BY <1>1, <1>2, PromisesKept

(* A step of a connection thread keeps the promises.                          *)
LEMMA PromisesConnection ==
  ASSUME NEW c \in Connections, Types, Promises,
         Submits(c) \/ Gets(c) \/ Goes(c) \/ Terminates(c) \/ attach(c) \/ finish(c)
  PROVE  Promises'
<1>1. ASSUME conn[c] \in Busy
      PROVE  /\ c \notin ready /\ c \notin blocked
             /\ \A i \in 1..Len(queue) : ~queue[i].cancels => queue[i].client # c
  <2>1. conn[c] \notin Waiting \cup {"killed"}
    BY <1>1 DEF Busy, Running, NoThread
  <2>2. c \notin ready /\ c \notin blocked
    BY <2>1 DEF Promises, AnswersAwaited, Waiting
  <2> QED
    BY <2>1, <2>2, NoTaskQueued, Zenon DEF Promises
<1>2. CASE Submits(c)
  <2>1. PICK from \in Busy, kind \in Kinds : \E to \in Waits(kind) : submits(c, from, kind, to)
    BY <1>2, Zenon DEF Submits
  <2>2. PICK to \in Waits(kind) : submits(c, from, kind, to)
    BY <2>1
  <2>3. /\ conn[c] \in Busy /\ conn' = [conn EXCEPT ![c] = to]
        /\ queue' = Append(queue, task(kind, c))
        /\ UNCHANGED <<ready, blocked, active, cancellations>>
    BY <2>2 DEF submits, moves, stopper
  <2>4. ready' = ready \ {c}
    BY <2>3, <1>1
  <2> QED
    BY <2>3, <2>4, <1>1, PromisesSubmit, ZenonT(30)
<1>3. CASE attach(c)
  <2>1. /\ c \in ready /\ conn[c] = "detaching" /\ conn' = [conn EXCEPT ![c] = "attaching"]
        /\ queue' = Append(queue, task("register_replica", c)) /\ ready' = ready \ {c}
        /\ UNCHANGED <<blocked, active, cancellations>>
    BY <1>3 DEF attach, moves, stopper
  <2>2. \A i \in 1..Len(queue) : ~queue[i].cancels => queue[i].client # c
    BY <2>1, Zenon DEF Promises, TasksAwaited
  <2>3. c \notin blocked
    BY <2>1 DEF Promises, AnswersAwaited
  <2>4. "attaching" \in Waits("register_replica") /\ "register_replica" \in Kinds
    BY DEF Waits, Kinds
  <2> QED
    BY <2>1, <2>2, <2>3, <2>4, PromisesSubmit, ZenonT(30)
<1>4. CASE Gets(c)
  <2>1. PICK to \in Busy \cup {"close"} :
          c \in ready /\ conn' = [conn EXCEPT ![c] = to] /\ ready' = ready \ {c}
    BY <1>4, Zenon DEF Gets, gets, moves
  <2>2. UNCHANGED <<queue, blocked, active, cancellations>>
    BY <1>4, Zenon DEF Gets, gets, stopper
  <2>3. \A d \in Connections : d # c => conn'[d] = conn[d]
    BY <2>1 DEF Types
  <2>4. \A i \in 1..Len(queue) : ~queue[i].cancels =>
          queue[i].client # c /\ queue[i].client \notin ready /\ queue[i].client \notin blocked
    BY <2>1, ZenonT(30) DEF Promises, TasksAwaited
  <2>5. \A i \in 1..Len(queue) : queue[i].client \in Connections
    BY QueueElements, Zenon
  <2>6. AnswersAwaited'
    BY <2>1, <2>2, <2>3 DEF Promises, AnswersAwaited
  <2>7. \A i \in 1..Len(queue) : ~queue[i].cancels =>
          LET d == queue[i].client
          IN  conn'[d] = conn[d] /\ d \notin ready' /\ d \notin blocked'
    BY <2>1, <2>2, <2>3, <2>4, <2>5, SMTT(30)
  <2> QED
    BY <2>2, <2>6, <2>7, PromisesKept, Zenon
<1>5. CASE Goes(c) \/ finish(c)
  <2>1. /\ conn[c] \in Busy \cup {"close"}
        /\ \E to \in ConnPlaces : conn' = [conn EXCEPT ![c] = to]
    BY <1>5, ZenonT(30) DEF Goes, goes, finish, moves, Busy, Running, ConnPlaces
  <2>2. UNCHANGED <<queue, ready, blocked, cancellations>> /\ active' = active
    BY <1>5, Zenon DEF Goes, goes, finish, stopper, processor
  <2>3. conn[c] \notin Waiting \cup {"killed"}
    BY <2>1 DEF Busy, Running, NoThread, Waiting
  <2>4. \A d \in Connections : d # c => conn'[d] = conn[d]
    BY <2>1 DEF Types
  <2> QED
    BY <2>2, <2>3, <2>4, PromisesMove, Zenon
<1>6. CASE Terminates(c)
  <2>1. queue' = <<>> /\ blocked' = {} /\ UNCHANGED <<ready, active, cancellations>>
    BY <1>6, Zenon DEF Terminates, terminate, stopper
  <2>2. \A d \in Connections : conn'[d] = "killed"
    BY <1>6, SMTT(30) DEF Terminates, terminate
  <2>3. TasksAwaited' /\ TasksDistinct'
    <3>1. Len(queue') = 0
      BY <2>1
    <3>2. \A i \in 1..Len(queue') : FALSE
      BY <3>1, SMTT(30)
    <3> QED
      BY <3>2, Zenon DEF TasksAwaited, TasksDistinct
  <2>4. AnswersAwaited'
    BY <2>1, <2>2, ZenonT(30) DEF Promises, AnswersAwaited
  <2> QED
    BY <2>3, <2>4 DEF Promises
<1> QED
  BY <1>2, <1>3, <1>4, <1>5, <1>6

(* Whoever tells the workers to stop does so before the first cancellation.   *)
LEMMA NoCancellationYet ==
  ASSUME Control, NEW t \in Stoppers, at[t] = "stop_workers"
  PROVE  cancellations = {}
<1>1. main # "killed"
  BY DEF Control, StopCalled, Stoppers
<1>2. SUFFICES ASSUME NEW u \in Stoppers, at[u] = "cancel"
               PROVE  FALSE
  BY <1>1 DEF Control, CancellationsAwaited
<1>3. stop_mutex = t /\ stop_mutex = u
  BY <1>2 DEF Control, StopExclusive
<1> QED
  BY <1>2, <1>3

(* A step of stop keeps the promises.                                         *)
LEMMA PromisesStop ==
  ASSUME NEW t \in Stoppers, Control, Promises, stop(t)
  PROVE  Promises'
<1>0. Types
  BY Zenon DEF Control
<1>1. CASE \E c \in Connections : stop_worker(t, c)
  <2>1. PICK c \in Connections : stop_worker(t, c)
    BY <1>1, Zenon
  <2>2. /\ at[t] = "stop_workers"
        /\ active' = IF conn[c] = "finished" THEN active ELSE active \cup {c}
        /\ UNCHANGED <<queue, conn, ready, blocked, cancellations>>
    BY <2>1, ZenonT(30) DEF stop_worker, processor
  <2>3. cancellations = {}
    BY <2>2, NoCancellationYet
  <2>4. AnswersAwaited'
    BY <2>2, <2>3 DEF Promises, AnswersAwaited
  <2>5. \A i \in 1..Len(queue) : ~queue[i].cancels =>
          LET d == queue[i].client
          IN  conn'[d] = conn[d] /\ d \notin ready' /\ d \notin blocked'
    BY <2>2, Zenon DEF Promises, TasksAwaited
  <2> QED
    BY <1>0, <2>2, <2>4, <2>5, PromisesKept, ZenonT(30)
<1>2. CASE \E c \in Connections : cancel(t, c)
  <2>1. PICK c \in Connections : cancel(t, c)
    BY <1>2
  <2> DEFINE new == [kind |-> "unregister", client |-> c, cancels |-> TRUE]
  <2>2. /\ c \in active /\ active' = active \ {c} /\ cancellations' = cancellations \cup {c}
        /\ queue' = Append(queue, new)
        /\ UNCHANGED <<conn, ready, blocked>>
    BY <2>1, Zenon DEF cancel, connection
  <2>3. c \notin cancellations
    BY <2>2, SMTT(30) DEF Promises, AnswersAwaited
  <2>4. /\ Len(queue') = Len(queue) + 1 /\ queue'[Len(queue) + 1] = new
        /\ \A i \in 1..Len(queue) : queue'[i] = queue[i]
        /\ Len(queue) \in Nat
    BY <1>0, <2>2 DEF Types
  <2>5. new.kind = "unregister" /\ new.client = c /\ new.cancels = TRUE
    OBVIOUS
  <2>6. \A i \in 1..Len(queue) : queue[i].cancels => queue[i].client # c
    BY <2>3, Zenon DEF Promises, TasksAwaited
  <2>7. \A i \in 1..Len(queue) : queue[i].cancels \in BOOLEAN
    BY <1>0, QueueElements, Zenon
  <2> HIDE DEF new
  <2>8. \A i \in 1..Len(queue') : i \in 1..Len(queue) \/ i = Len(queue) + 1
    BY <2>4
  <2>9. TasksDistinct'
    BY <2>4, <2>5, <2>6, <2>7, <2>8, SMTT(30) DEF Promises, TasksDistinct
  <2>10. TasksAwaited'
    <3> SUFFICES ASSUME NEW i \in 1..Len(queue')
                 PROVE  IF queue'[i].cancels
                        THEN queue'[i].kind = "unregister" /\ queue'[i].client \in cancellations'
                        ELSE /\ conn'[queue'[i].client] \in Waits(queue'[i].kind)
                             /\ queue'[i].client \notin ready' /\ queue'[i].client \notin blocked'
      BY Zenon DEF TasksAwaited, Waits
    <3>1. CASE i \in 1..Len(queue)
      <4>1. queue'[i] = queue[i]
        BY <3>1, <2>4
      <4>2. IF queue[i].cancels
            THEN queue[i].kind = "unregister" /\ queue[i].client \in cancellations
            ELSE /\ conn[queue[i].client] \in Waits(queue[i].kind)
                 /\ queue[i].client \notin ready /\ queue[i].client \notin blocked
        BY <3>1, Zenon DEF Promises, TasksAwaited
      <4>3. cancellations \subseteq cancellations'
        BY <2>2
      <4> QED
        BY <4>1, <4>2, <4>3, <2>2, Zenon
    <3>2. CASE i = Len(queue) + 1
      <4>1. queue'[i].kind = "unregister" /\ queue'[i].client = c /\ queue'[i].cancels = TRUE
        BY <3>2, <2>4, <2>5
      <4>2. c \in cancellations'
        BY <2>2
      <4> QED
        BY <4>1, <4>2, Zenon
    <3> QED
      BY <3>1, <3>2, <2>8, Zenon
  <2>11. AnswersAwaited'
    BY <2>2, <2>3 DEF Promises, AnswersAwaited
  <2> QED
    BY <2>9, <2>10, <2>11 DEF Promises
<1>3. CASE \E c \in Connections : join_worker(t, c)
  <2>1. PICK c \in Connections : join_worker(t, c)
    BY <1>3
  <2>2. /\ conn[c] = "finished" /\ conn' = [conn EXCEPT ![c] = "joined"]
        /\ UNCHANGED <<queue, ready, blocked, cancellations>> /\ active' = active
    BY <2>1, Zenon DEF join_worker, moves, processor
  <2>3. \A d \in Connections : d # c => conn'[d] = conn[d]
    BY <1>0, <2>2 DEF Types
  <2>4. conn[c] \notin Waiting \cup {"killed"}
    BY <2>2 DEF Waiting
  <2> QED
    BY <1>0, <2>2, <2>3, <2>4, PromisesMove
<1>4. CASE \/ lock(t) \/ exchange(t) \/ shut_listener(t) \/ stop_replication(t)
           \/ lock_workers(t) \/ unlock_workers(t) \/ cancelled(t) \/ workers_joined(t)
           \/ join_replication(t) \/ unlock(t)
  <2>1. UNCHANGED <<queue, ready, blocked, cancellations>> /\ active' = active /\ conn' = conn
    BY <1>4, Zenon
    DEF lock, exchange, shut_listener, stop_replication, lock_workers, unlock_workers, cancelled,
        workers_joined, join_replication, unlock, processor, connection, stopper
  <2> QED
    BY <1>0, <2>1, PromisesMove
<1> QED
  BY <1>1, <1>2, <1>3, <1>4 DEF stop

(* The worker fulfils one promise: the thread that waits for the first task   *)
(* has its answer or a pending command.                                       *)
LEMMA PromisesProcess ==
  ASSUME Types, Promises, process_task
  PROVE  Promises'
<1> DEFINE t == queue[1]
<1>1. /\ 1 \in 1..Len(queue) /\ Len(queue) \in Nat /\ Head(queue) = t
      /\ Len(queue') = Len(queue) - 1
      /\ \A i \in 1..Len(queue') : queue'[i] = queue[i + 1]
  BY DEF process_task, Types
<1>2. /\ blocked' = CASE t.kind = "block" /\ t.client \in clients -> blocked \cup {t.client}
                      [] t.kind = "unregister" -> blocked \ {t.client}
                      [] OTHER -> blocked
      /\ cancellations' = IF t.cancels THEN cancellations \ {t.client} ELSE cancellations
      /\ ready' = IF \/ t.kind = "block" /\ t.client \in clients
                     \/ t.cancels /\ t.client \notin blocked
                  THEN ready ELSE ready \cup {t.client}
      /\ conn' = conn /\ active' = active
  BY <1>1, Zenon DEF process_task, connection
<1>3. t.kind \in Kinds /\ t.client \in Connections /\ t.cancels \in BOOLEAN
  BY <1>1, QueueElements, Zenon
<1>4. /\ t.cancels => t.kind = "unregister" /\ t.client \in cancellations
      /\ ~t.cancels => /\ conn[t.client] \in Waits(t.kind)
                       /\ t.client \notin ready /\ t.client \notin blocked
  BY <1>1, Zenon DEF Promises, TasksAwaited
<1>5. \A i \in 1..Len(queue') :
        /\ i + 1 \in 1..Len(queue)
        /\ queue[i + 1].cancels = t.cancels => queue[i + 1].client # t.client
  <2> SUFFICES ASSUME NEW i \in 1..Len(queue')
               PROVE  /\ i + 1 \in 1..Len(queue) /\ i + 1 # 1
                      /\ queue[i + 1].cancels = t.cancels => queue[i + 1].client # t.client
    OBVIOUS
  <2>1. i + 1 \in 1..Len(queue) /\ i + 1 # 1
    BY <1>1
  <2>2. queue[i + 1].cancels = queue[1].cancels => queue[i + 1].client # queue[1].client
    BY <1>1, <2>1, Zenon DEF Promises, TasksDistinct
  <2> QED
    BY <2>1, <2>2
<1> HIDE DEF t
<1>6. TasksDistinct'
  <2> SUFFICES ASSUME NEW i \in 1..Len(queue'), NEW j \in 1..Len(queue'),
                      queue'[i].cancels = queue'[j].cancels, queue'[i].client = queue'[j].client
               PROVE  i = j
    BY Zenon DEF TasksDistinct
  <2>1. queue[i + 1].cancels = queue[j + 1].cancels /\ queue[i + 1].client = queue[j + 1].client
    BY <1>1, Zenon
  <2>2. i + 1 = j + 1
    BY <2>1, <1>5, Zenon DEF Promises, TasksDistinct
  <2> QED
    BY <2>2, <1>1
<1>7. TasksAwaited'
  <2> SUFFICES ASSUME NEW i \in 1..Len(queue')
               PROVE  IF queue'[i].cancels
                      THEN queue'[i].kind = "unregister" /\ queue'[i].client \in cancellations'
                      ELSE /\ conn'[queue'[i].client] \in Waits(queue'[i].kind)
                           /\ queue'[i].client \notin ready' /\ queue'[i].client \notin blocked'
    BY Zenon DEF TasksAwaited, Waits
  <2> DEFINE q == queue[i + 1]
  <2>1. queue'[i] = q /\ i + 1 \in 1..Len(queue)
    BY <1>1, <1>5
  <2>2. q.cancels = t.cancels => q.client # t.client
    BY <1>5
  <2>3. /\ q.cancels => q.kind = "unregister" /\ q.client \in cancellations
        /\ ~q.cancels => /\ conn[q.client] \in Waits(q.kind)
                         /\ q.client \notin ready /\ q.client \notin blocked
    BY <2>1, Zenon DEF Promises, TasksAwaited
  <2>4. q.cancels \in BOOLEAN
    BY <2>1, QueueElements
  <2> HIDE DEF q
  <2>5. CASE q.cancels
    BY <2>5, <2>1, <2>2, <2>3, <1>2, <1>3, ZenonT(30)
  <2>6. CASE ~q.cancels
    <3>1. q.client \notin ready'
      BY <2>6, <2>2, <2>3, <1>2, <1>3, <1>4, <2>4
    <3>2. q.client \notin blocked'
      BY <2>6, <2>2, <2>3, <1>2, <1>3, <1>4, <2>4 DEF Kinds
    <3> QED
      BY <2>6, <3>1, <3>2, <2>1, <2>3, <1>2, Zenon
  <2> QED
    BY <2>5, <2>6, Zenon
<1>8. AnswersAwaited'
  <2> SUFFICES ASSUME NEW c \in Connections
               PROVE  /\ c \in ready' => conn[c] \in Waiting \cup {"killed"}
                      /\ c \in blocked' => conn[c] = "waiting" /\ c \notin ready'
                      /\ c \in active => c \notin cancellations'
    BY <1>2 DEF AnswersAwaited
  <2>1. /\ c \in ready => conn[c] \in Waiting \cup {"killed"}
        /\ c \in blocked => conn[c] = "waiting" /\ c \notin ready
        /\ c \in active => c \notin cancellations
    BY DEF Promises, AnswersAwaited
  <2>2. ~t.cancels => conn[t.client] \in Waiting
    BY <1>3, <1>4 DEF Waits, Kinds, Waiting
  <2>3. t.client \in blocked => conn[t.client] = "waiting"
    BY <1>3 DEF Promises, AnswersAwaited
  <2>4. c \in ready' => conn[c] \in Waiting \cup {"killed"}
    BY <1>2, <2>1, <2>2, <2>3 DEF Waiting
  <2>5. c \in active => c \notin cancellations'
    BY <1>2, <2>1
  <2>6. ASSUME c \in blocked'
        PROVE  conn[c] = "waiting" /\ c \notin ready'
    <3>1. CASE t.kind = "block" /\ t.client \in clients
      <4>1. ~t.cancels /\ conn[t.client] = "waiting" /\ t.client \notin ready
        BY <3>1, <1>3, <1>4 DEF Waits
      <4>2. ready' = ready /\ (c \in blocked \/ c = t.client)
        BY <3>1, <2>6, <1>2
      <4> QED
        BY <4>1, <4>2, <2>1, Zenon
    <3>2. CASE ~(t.kind = "block" /\ t.client \in clients)
      <4>1. c \in blocked /\ (t.kind = "unregister" => c # t.client)
        BY <3>2, <2>6, <1>2 DEF Kinds
      <4>2. c \notin ready /\ conn[c] = "waiting"
        BY <4>1, <2>1, Zenon
      <4>3. c # t.client \/ ready' = ready
        BY <4>1, <1>2, <1>3, <1>4, SMTT(30)
      <4> QED
        BY <4>2, <4>3, <1>2
    <3> QED
      BY <3>1, <3>2
  <2> QED
    BY <2>4, <2>5, <2>6, Zenon
<1> QED
  BY <1>6, <1>7, <1>8 DEF Promises

(* A pending command is answered: its thread has no task queued.              *)
LEMMA PromisesServe ==
  ASSUME Types, Promises, NEW c \in Connections, serve(c)
  PROVE  Promises'
<1>1. /\ c \in blocked /\ blocked' = blocked \ {c} /\ ready' = ready \cup {c}
      /\ UNCHANGED <<queue, conn, active, cancellations>>
  BY DEF serve, stopper, connection
<1>2. conn[c] = "waiting"
  BY <1>1 DEF Promises, AnswersAwaited
<1>3. \A i \in 1..Len(queue) : ~queue[i].cancels =>
        queue[i].client # c /\ queue[i].client \notin ready /\ queue[i].client \notin blocked
  BY <1>1, ZenonT(30) DEF Promises, TasksAwaited
<1>4. \A i \in 1..Len(queue) : ~queue[i].cancels =>
        LET d == queue[i].client
        IN  conn'[d] = conn[d] /\ d \notin ready' /\ d \notin blocked'
  BY <1>1, <1>3, Zenon
<1>5. AnswersAwaited'
  BY <1>1, <1>2, Zenon DEF Promises, AnswersAwaited, Waiting
<1> QED
  BY <1>1, <1>4, <1>5, PromisesKept, Zenon

(* What the main thread does with a connection outside stop.                  *)
LEMMA MainEffect ==
  ASSUME Types, Main
  PROVE  /\ UNCHANGED <<queue, ready, blocked, clients, cancellations>> /\ active' = active
         /\ \A c \in Connections :
              \/ conn'[c] = conn[c]
              \/ conn[c] = "finished" /\ conn'[c] = "joined"
              \/ conn[c] = "new" /\ conn'[c] \in {"starting", "refused"}
<1>1. CASE reap_completed_connections
  <2>1. UNCHANGED <<queue, ready, blocked, clients, cancellations>> /\ active' = active
    BY <1>1, Zenon DEF reap_completed_connections, processor
  <2>2. \A c \in Connections : conn'[c] = conn[c] \/ (conn[c] = "finished" /\ conn'[c] = "joined")
    BY <1>1 DEF reap_completed_connections
  <2> QED
    BY <2>1, <2>2, Zenon
<1>2. CASE \E c \in Connections : start_connection(c)
  <2>1. PICK c \in Connections : start_connection(c)
    BY <1>2
  <2>2. UNCHANGED <<queue, ready, blocked, clients, cancellations>> /\ active' = active
    BY <2>1 DEF start_connection, processor
  <2>3. /\ conn[c] = "new"
        /\ \E to \in {"starting", "refused"} : conn' = [conn EXCEPT ![c] = to]
    BY <2>1, Zenon DEF start_connection
  <2>4. \A d \in Connections : conn'[d] = conn[d] \/ (d = c /\ conn'[c] \in {"starting", "refused"})
    BY <2>3 DEF Types
  <2> QED
    BY <2>2, <2>3, <2>4
<1>3. CASE \/ initialize_persistence \/ setup_server \/ setup_replication \/ run
           \/ poll_times_out \/ (\E c \in Connections : accept(c)) \/ end_loop \/ leave_main
           \/ close_descriptors \/ destroy_connections \/ destroy_replication \/ destroy_processor
  <2>1. /\ UNCHANGED <<queue, ready, blocked, clients, cancellations>> /\ active' = active
        /\ conn' = conn
    BY <1>3, ZenonT(30)
    DEF initialize_persistence, setup_server, setup_replication, sets_up, run, poll_times_out,
        accept, end_loop, leave_main, close_descriptors, destroy_connections,
        destroy_replication, destroy_processor, processor, connection, stopper
  <2> QED
    BY <2>1
<1> QED
  BY <1>1, <1>2, <1>3, Zenon DEF Main

(* What the signal thread, the replication thread, the clients and the master *)
(* do leaves the promises and the registrations alone.                        *)
LEMMA OthersEffect ==
  ASSUME \/ Signal \/ Replication \/ receive_signal \/ wait_fails \/ master_sends
         \/ \E c \in Connections : client_leaves(c)
  PROVE  UNCHANGED <<queue, ready, blocked, clients, cancellations, active, conn>>
<1>1. CASE \E c \in Connections : client_leaves(c)
  BY <1>1, Zenon DEF client_leaves, processor, stopper
<1>2. CASE \/ Signal \/ Replication \/ receive_signal \/ wait_fails \/ master_sends
  BY <1>2, Zenon
  DEF Signal, return_from_stop, end_wait, Replication, replicate, replication_woken,
      receive_signal, wait_fails, master_sends, processor, connection, stopper
<1> QED
  BY <1>1, <1>2

-----------------------------------------------------------------------------
(* A step that registers nobody: a thread that goes to unregister has no      *)
(* answer yet, and only one that is not registered closes its connection.     *)
LEMMA RegistrationMove ==
  ASSUME Registration, UNCHANGED <<clients, blocked>>,
         \A c \in Connections :
           /\ c \in ready' => c \in ready
           /\ \/ conn'[c] = conn[c]
              \/ conn'[c] \notin {"close", "finished", "joined", "unregistering"}
              \/ conn'[c] = "unregistering" /\ c \notin ready
              \/ c \notin clients
  PROVE  Registration'
BY Zenon DEF Registration

(* A step of a connection thread respects the registrations.                  *)
LEMMA RegistrationConnection ==
  ASSUME NEW c \in Connections, Types, Promises, Registration,
         Submits(c) \/ Gets(c) \/ Goes(c) \/ Terminates(c) \/ attach(c) \/ finish(c)
  PROVE  Registration'
<1> DEFINE Ends1 == {"close", "finished", "joined"}
<1>1. ASSUME NEW to, conn' = [conn EXCEPT ![c] = to], UNCHANGED <<clients, blocked>>,
             \A d \in Connections : d \in ready' => d \in ready,
             \/ to \notin Ends1 \cup {"unregistering"}
             \/ to = "unregistering" /\ c \notin ready
             \/ c \notin clients
      PROVE  Registration'
  <2>1. \A d \in Connections : conn'[d] = IF d = c THEN to ELSE conn[d]
    BY <1>1 DEF Types
  <2> QED
    BY <1>1, <2>1, RegistrationMove, Zenon
<1>2. CASE Submits(c)
  <2>1. PICK from \in Busy, kind \in Kinds : \E to \in Waits(kind) : submits(c, from, kind, to)
    BY <1>2, Zenon DEF Submits
  <2>2. PICK to \in Waits(kind) : submits(c, from, kind, to)
    BY <2>1
  <2>3. /\ conn[c] \in Busy /\ conn' = [conn EXCEPT ![c] = to]
        /\ UNCHANGED <<ready, blocked, clients>>
    BY <2>2, Zenon DEF submits, moves
  <2>4. c \notin ready
    BY <2>3, Zenon DEF Promises, AnswersAwaited, Busy, Running, NoThread
  <2>5. to \notin Ends1
    BY <2>1 DEF Waits, Kinds
  <2> QED
    BY <2>3, <2>4, <2>5, <1>1, ZenonT(30)
<1>3. CASE attach(c)
  <2>1. /\ conn' = [conn EXCEPT ![c] = "attaching"] /\ ready' = ready \ {c}
        /\ UNCHANGED <<blocked, clients>>
    BY <1>3, Zenon DEF attach, moves
  <2> QED
    BY <2>1, <1>1, ZenonT(30)
<1>4. CASE Gets(c)
  <2>1. PICK from \in Waiting, to \in Busy \cup {"close"} :
          gets(c, from, to) /\ (to = "close" => from = "unregistering")
    BY <1>4, Zenon DEF Gets
  <2>2. /\ c \in ready /\ conn[c] = from /\ conn' = [conn EXCEPT ![c] = to]
        /\ ready' = ready \ {c} /\ UNCHANGED <<blocked, clients>>
    BY <2>1 DEF gets, moves
  <2>3. to = "close" => c \notin clients
    BY <2>1, <2>2, Zenon DEF Registration
  <2>4. to \in Busy => to \notin Ends1 \cup {"unregistering"}
    BY DEF Busy, Running, NoThread, Waiting
  <2> QED
    BY <2>1, <2>2, <2>3, <2>4, <1>1, ZenonT(30)
<1>5. CASE Goes(c)
  <2>1. PICK to \in Busy : conn' = [conn EXCEPT ![c] = to]
    BY <1>5, Zenon DEF Goes, goes, moves
  <2>2. UNCHANGED <<ready, blocked, clients>>
    BY <1>5, Zenon DEF Goes, goes, processor
  <2>3. to \notin Ends1 \cup {"unregistering"}
    BY DEF Busy, Running, NoThread, Waiting
  <2> QED
    BY <2>1, <2>2, <2>3, <1>1, ZenonT(30)
<1>6. CASE finish(c)
  <2>1. /\ conn[c] = "close" /\ conn' = [conn EXCEPT ![c] = "finished"]
        /\ UNCHANGED <<ready, blocked, clients>>
    BY <1>6, Zenon DEF finish, moves, processor
  <2>2. c \notin clients
    BY <2>1 DEF Registration
  <2> QED
    BY <2>1, <2>2, <1>1, ZenonT(30)
<1>7. CASE Terminates(c)
  <2>1. blocked' = {} /\ clients' = clients
    BY <1>7, Zenon DEF Terminates, terminate
  <2>2. \A d \in Connections : conn'[d] = "killed"
    BY <1>7, SMTT(30) DEF Terminates, terminate
  <2> QED
    BY <2>1, <2>2, Zenon DEF Registration
<1> QED
  BY <1>2, <1>3, <1>4, <1>5, <1>6, <1>7

(* A step of stop respects the registrations: only a thread that has finished *)
(* is joined.                                                                 *)
LEMMA RegistrationStop ==
  ASSUME NEW t \in Stoppers, Types, Registration, stop(t)
  PROVE  Registration'
<1>1. CASE \E c \in Connections : stop_worker(t, c) \/ cancel(t, c)
  <2>1. UNCHANGED <<conn, ready, blocked, clients>>
    BY <1>1, Zenon DEF stop_worker, cancel, processor, connection
  <2> QED
    BY <2>1, RegistrationMove
<1>2. CASE \E c \in Connections : join_worker(t, c)
  <2>1. PICK c \in Connections : join_worker(t, c)
    BY <1>2, Zenon
  <2>2. /\ conn[c] = "finished" /\ conn' = [conn EXCEPT ![c] = "joined"]
        /\ UNCHANGED <<ready, blocked, clients>>
    BY <2>1 DEF join_worker, moves, processor
  <2>3. \A d \in Connections : d # c => conn'[d] = conn[d]
    BY <2>2 DEF Types
  <2>4. c \notin clients
    BY <2>2 DEF Registration
  <2> QED
    BY <2>2, <2>3, <2>4, RegistrationMove
<1>3. CASE \/ lock(t) \/ exchange(t) \/ shut_listener(t) \/ stop_replication(t)
           \/ lock_workers(t) \/ unlock_workers(t) \/ cancelled(t) \/ workers_joined(t)
           \/ join_replication(t) \/ unlock(t)
  <2>1. UNCHANGED <<conn, ready, blocked, clients>>
    BY <1>3, Zenon
    DEF lock, exchange, shut_listener, stop_replication, lock_workers, unlock_workers, cancelled,
        workers_joined, join_replication, unlock, processor, connection
  <2> QED
    BY <2>1, RegistrationMove
<1> QED
  BY <1>1, <1>2, <1>3, Zenon DEF stop

(* The worker registers only a client whose thread waits for it, and answers  *)
(* a thread that unregisters only when its client is no longer registered.    *)
LEMMA RegistrationProcess ==
  ASSUME Types, Promises, Registration, process_task
  PROVE  Registration'
<1> DEFINE t == queue[1]
<1>1. 1 \in 1..Len(queue) /\ Head(queue) = t
  BY DEF process_task, Types
<1>2. /\ blocked' = CASE t.kind = "block" /\ t.client \in clients -> blocked \cup {t.client}
                      [] t.kind = "unregister" -> blocked \ {t.client}
                      [] OTHER -> blocked
      /\ clients' = CASE t.kind = "register" -> clients \cup {t.client}
                      [] t.kind = "unregister" -> clients \ {t.client}
                      [] OTHER -> clients
      /\ ready' \subseteq ready \cup {t.client}
      /\ conn' = conn
  <2>1. /\ ready' = IF \/ t.kind = "block" /\ t.client \in clients
                       \/ t.cancels /\ t.client \notin blocked
                    THEN ready ELSE ready \cup {t.client}
        /\ conn' = conn
    BY <1>1, Zenon DEF process_task, connection
  <2>2. /\ blocked' = CASE t.kind = "block" /\ t.client \in clients -> blocked \cup {t.client}
                        [] t.kind = "unregister" -> blocked \ {t.client}
                        [] OTHER -> blocked
        /\ clients' = CASE t.kind = "register" -> clients \cup {t.client}
                        [] t.kind = "unregister" -> clients \ {t.client}
                        [] OTHER -> clients
    BY <1>1, Zenon DEF process_task
  <2> HIDE DEF t
  <2>3. ready' \subseteq ready \cup {t.client}
    BY <2>1
  <2> QED
    BY <2>1, <2>2, <2>3, Zenon
<1>3. t.kind \in Kinds /\ t.client \in Connections
  BY <1>1, QueueElements
<1>4. t.kind # "unregister" => conn[t.client] \in Waits(t.kind)
  BY <1>1, Zenon DEF Promises, TasksAwaited
<1> HIDE DEF t
<1>5. /\ t.kind # "unregister" => conn[t.client] # "unregistering"
      /\ t.kind = "register" => conn[t.client] = "registering"
  BY <1>3, <1>4 DEF Waits, Kinds
<1>6. blocked' \subseteq clients'
  BY <1>2, <1>3 DEF Registration, Kinds
<1>7. ASSUME NEW c \in Connections, c \in clients'
      PROVE  /\ conn[c] \notin {"close", "finished", "joined"}
             /\ conn[c] = "unregistering" => c \notin ready'
  <2>1. CASE c = t.client
    <3>1. t.kind # "unregister"
      BY <2>1, <1>2, <1>7
    <3>2. c \in clients \/ t.kind = "register"
      BY <2>1, <1>2, <1>3, <1>7 DEF Kinds
    <3> QED
      BY <2>1, <3>1, <3>2, <1>5, Zenon DEF Registration
  <2>2. CASE c # t.client
    <3>1. c \in clients /\ (c \in ready' => c \in ready)
      BY <2>2, <1>2, <1>3, <1>7 DEF Kinds
    <3> QED
      BY <3>1 DEF Registration
  <2> QED
    BY <2>1, <2>2, Zenon
<1> QED
  BY <1>2, <1>6, <1>7 DEF Registration

(* A pending command is answered: its thread waits for the command.           *)
LEMMA RegistrationServe ==
  ASSUME Promises, Registration, NEW c \in Connections, serve(c)
  PROVE  Registration'
<1>1. /\ c \in blocked /\ blocked' = blocked \ {c} /\ ready' = ready \cup {c}
      /\ UNCHANGED <<conn, clients>>
  BY DEF serve, connection
<1>2. conn[c] = "waiting"
  BY <1>1, Zenon DEF Promises, AnswersAwaited
<1> QED
  BY <1>1, <1>2 DEF Registration

-----------------------------------------------------------------------------
(* The initial state satisfies the invariant.                                 *)
LEMMA InitIInv == Init => IInv
<1> SUFFICES ASSUME Init PROVE IInv
  OBVIOUS
<1>1. /\ main = "load" /\ signal = "returned" /\ cancellations = {} /\ workers = {}
      /\ queue = <<>> /\ ready = {} /\ blocked = {} /\ clients = {} /\ active = {}
  BY DEF Init
<1>2. \A t \in Stoppers : at[t] = "outside"
  BY DEF Init
<1>3. \A c \in Connections : conn[c] = "new"
  BY DEF Init
<1>4. Types
  <2>1. at \in [Stoppers -> StopPlaces]
    BY Zenon DEF Init, StopPlaces
  <2>2. conn \in [Connections -> ConnPlaces]
    BY DEF Init, ConnPlaces
  <2> QED
    BY <2>1, <2>2, <1>1 DEF Types
<1>5. Control
  BY <1>1, <1>2, <1>3, <1>4, Zenon DEF Control, StopExclusive, StopCalled, ThreadsOwned, ConnectionsEnded, ReplicationEnded,
      CancellationsAwaited, Terminated, NoThread, Stoppers, Destroying
<1>6. \A i \in 1..Len(queue) : FALSE
  <2>1. Len(queue) = 0
    BY <1>1
  <2> QED
    BY <2>1
<1>7. Promises
  BY <1>1, <1>6, Zenon DEF Promises, TasksAwaited, TasksDistinct, AnswersAwaited
<1>8. Registration
  BY <1>1 DEF Registration
<1> QED
  BY <1>5, <1>7, <1>8 DEF IInv

(* Every step preserves it.                                                   *)
LEMMA NextIInv == IInv /\ [Next]_vars => IInv'
<1> SUFFICES ASSUME IInv, [Next]_vars PROVE IInv'
  OBVIOUS
<1>1. Types /\ Control /\ Promises /\ Registration
  BY Zenon DEF IInv, Control
<1>2. CASE \E c \in Connections : Connection(c) \/ receive(c)
  <2>1. PICK c \in Connections : Connection(c) \/ receive(c)
    BY <1>2, Zenon
  <2>2. Submits(c) \/ Gets(c) \/ Goes(c) \/ Terminates(c) \/ attach(c) \/ finish(c)
    BY <2>1, ConnectionShapes, Zenon
  <2> QED
    BY <1>1, <2>1, <2>2, ControlConnection, PromisesConnection, RegistrationConnection, Zenon
    DEF IInv
<1>3. CASE \E t \in Stoppers : stop(t)
  BY <1>1, <1>3, ControlStop, PromisesStop, RegistrationStop, Zenon DEF IInv
<1>4. CASE Main
  <2>1. Control'
    BY <1>1, <1>4, ControlMain, Zenon
  <2>2. /\ UNCHANGED <<queue, ready, blocked, clients, cancellations>> /\ active' = active
        /\ \A c \in Connections :
             \/ conn'[c] = conn[c]
             \/ conn[c] = "finished" /\ conn'[c] = "joined"
             \/ conn[c] = "new" /\ conn'[c] \in {"starting", "refused"}
    BY <1>1, <1>4, MainEffect, Zenon
  <2>3. Promises'
    <3>1. \A c \in Connections : conn'[c] = conn[c] \/ conn[c] \notin Waiting \cup {"killed"}
      BY <2>2 DEF Waiting
    <3> QED
      BY <1>1, <2>2, <3>1, PromisesMove
  <2>4. Registration'
    BY <1>1, <2>2, Zenon DEF Registration
  <2> QED
    BY <2>1, <2>3, <2>4, Zenon DEF IInv
<1>5. CASE process_task
  BY <1>1, <1>5, ControlOthers, PromisesProcess, RegistrationProcess, Zenon DEF IInv
<1>6. CASE \E c \in Connections : serve(c)
  BY <1>1, <1>6, ControlOthers, PromisesServe, RegistrationServe, Zenon DEF IInv
<1>7. CASE \/ Signal \/ Replication \/ receive_signal \/ wait_fails \/ master_sends
           \/ \E c \in Connections : client_leaves(c)
  <2>1. Control'
    BY <1>1, <1>7, ControlOthers, Zenon
  <2>2. UNCHANGED <<queue, ready, blocked, clients, cancellations, active, conn>>
    BY <1>7, OthersEffect, Zenon
  <2>3. Promises'
    BY <1>1, <2>2, PromisesMove
  <2>4. Registration'
    BY <1>1, <2>2, RegistrationMove
  <2> QED
    BY <2>1, <2>3, <2>4, Zenon DEF IInv
<1>8. CASE UNCHANGED vars
  <2>1. UNCHANGED <<queue, ready, blocked, clients, cancellations, active, conn>>
    BY <1>8 DEF vars, stopper, connection, processor
  <2>2. UNCHANGED <<main, signal, at, stop_mutex, workers, replication>>
    BY <1>8 DEF vars, threads, stopper, replica
  <2>3. Control'
    BY <1>1, <2>1, <2>2, Zenon DEF Control, Types, StopExclusive, StopCalled, ThreadsOwned, ConnectionsEnded,
        ReplicationEnded, CancellationsAwaited, Terminated
  <2>4. Promises' /\ Registration'
    BY <1>1, <2>1, PromisesMove, RegistrationMove
  <2> QED
    BY <2>3, <2>4, Zenon DEF IInv
<1> QED
  BY <1>2, <1>3, <1>4, <1>5, <1>6, <1>7, <1>8, Zenon DEF Next, Environment

(* Who waits for nothing has nothing queued: once the connection threads have *)
(* ended and stop has returned, the queue is empty.                           *)
LEMMA NothingQueued ==
  ASSUME IInv, main \in {"destroy_processor", "stuck", "done"}
  PROVE  queue = <<>>
<1>1. Types /\ TasksAwaited
  BY Zenon DEF IInv, Control, Promises
<1>2. \A c \in Connections : conn[c] \in {"new", "refused", "finished", "joined"}
  BY DEF IInv, Control, ConnectionsEnded
<1>3. cancellations = {}
  BY DEF IInv, Control, StopCalled, CancellationsAwaited, Stoppers, Destroying
<1>4. \A i \in 1..Len(queue) : FALSE
  <2> SUFFICES ASSUME NEW i \in 1..Len(queue) PROVE FALSE
    OBVIOUS
  <2>1. queue[i].kind \in Kinds /\ queue[i].client \in Connections
    BY <1>1, QueueElements, Zenon
  <2>2. conn[queue[i].client] \in Waits(queue[i].kind)
    BY <1>1, <1>3, Zenon DEF TasksAwaited
  <2> QED
    BY <2>1, <2>2, <1>2 DEF Waits, Kinds
<1>5. Len(queue) = 0
  <2>1. Len(queue) \in Nat
    BY <1>1 DEF Types
  <2> QED
    BY <2>1, <1>4
<1> QED
  BY <1>1, <1>5 DEF Types

(* With any number of connections, the processor is destroyed after every     *)
(* connection thread, the replication thread and the signal thread have       *)
(* ended, and with an empty queue.                                            *)
THEOREM ProcessorOutlivesThreadsAlways == Spec => []ProcessorOutlivesThreads
<1>1. IInv => ProcessorOutlivesThreads
  <2> SUFFICES ASSUME IInv, main \in {"destroy_processor", "stuck", "done"}
               PROVE  /\ \A c \in Connections : conn[c] \in {"new", "refused", "finished", "joined"}
                      /\ replication \in {"none", "finished", "joined"}
                      /\ signal = "returned" /\ queue = <<>>
    BY Zenon DEF ProcessorOutlivesThreads
  <2>1. queue = <<>>
    BY NothingQueued
  <2>2. \A c \in Connections : conn[c] \in {"new", "refused", "finished", "joined"}
    BY DEF IInv, Control, ConnectionsEnded
  <2>3. replication \in {"none", "finished", "joined"} /\ signal = "returned"
    BY DEF IInv, Control, ReplicationEnded, StopCalled, Destroying
  <2> QED
    BY <2>1, <2>2, <2>3
<1> QED
  BY InitIInv, NextIInv, <1>1, PTL DEF Spec

(* With any number of connections, and however stop and the threads           *)
(* interleave, a connection whose thread has ended is not registered in the   *)
(* processor and has no command pending there.                                *)
THEOREM NothingRegisteredAlways == Spec => []NothingRegistered
<1>1. IInv => NothingRegistered
  BY DEF IInv, Registration, NothingRegistered
<1> QED
  BY InitIInv, NextIInv, <1>1, PTL DEF Spec
=============================================================================
