------------------------------ MODULE Shutdown ------------------------------
(***************************************************************************)
(* The life of a server process: the accept loop of the main thread, one   *)
(* thread per connection, the replication thread of a replica, the thread  *)
(* that waits for SIGINT and SIGTERM, and TcpServer::stop, which the last  *)
(* and the first may both execute.                                         *)
(*                                                                         *)
(* The processor is a queue of tasks that are executed in order, as        *)
(* SerialExecutor promises; of a command it matters only whether it        *)
(* blocks.  The destructor of the processor may wait for its worker for    *)
(* ever; the steps that lead to it are the subject of TaskQueue.           *)
(***************************************************************************)
EXTENDS Naturals, Sequences, FiniteSets

CONSTANTS
  Connections,  \* the connections that may be accepted
  HasMaster     \* whether the server is a replica

ASSUME ShutdownAssumption == IsFiniteSet(Connections) /\ HasMaster \in BOOLEAN

VARIABLES
  main,               \* where the main thread is
  signal,             \* where the thread that waits for signals is
  at,                 \* where these two are in stop
  stop_mutex,         \* who holds _stop_mutex
  connections_mutex,  \* who holds _connections_mutex
  stopping,           \* _stopping
  listening,          \* whether _server_fd has not been shut down
  workers,            \* the connections in _connection_workers
  todo,               \* those that a loop of stop has still to visit
  active,             \* active_client_ids that are not yet cancelled
  cancellations,      \* cancellation_results that are not ready
  master,             \* the connection to the master
  replication,        \* where the replication thread is
  replication_stop,   \* its stop token
  conn,               \* where the thread of a connection is
  socket,             \* its socket
  gone,               \* the clients that have closed their end
  stop_requested,     \* the connections whose stop token is set
  queue,              \* the task queue of the processor
  ready,              \* the connections whose future is ready
  blocked,            \* the clients with a pending command
  clients             \* _clients

threads == <<main, signal, at>>
stopper == <<stop_mutex, connections_mutex, stopping, listening, workers, todo, active,
             cancellations>>
replica == <<master, replication, replication_stop>>
connection == <<conn, socket, gone, stop_requested>>
processor == <<queue, ready, blocked, clients>>
vars == <<threads, stopper, replica, connection, processor>>

Stoppers == {"main", "signal"}

(* A connection thread waits for a future in the first five of these places,  *)
(* and for its client in "poll" and "replica".                                *)
ConnPlaces ==
  {"registering", "waiting", "unregistering", "detaching", "attaching", "new", "starting",
   "loop", "poll", "parse", "answered", "send", "resync", "replica", "leave", "close",
   "finished", "joined", "refused", "killed"}

Tasks == [kind : {"register", "command", "block", "unregister", "register_replica"},
          client : Connections, cancels : BOOLEAN]

task(kind, c) == [kind |-> kind, client |-> c, cancels |-> FALSE]

-----------------------------------------------------------------------------
(* The worker executes the first task.  A command of a client that is not     *)
(* registered is answered with NOAUTH; unregistration answers what is         *)
(* pending, and the future of the thread that asked for it is ready.          *)
process_task ==
  /\ queue # <<>>
  /\ queue' = Tail(queue)
  /\ LET t == Head(queue)
     IN /\ clients' = CASE t.kind = "register" -> clients \cup {t.client}
                        [] t.kind = "unregister" -> clients \ {t.client}
                        [] OTHER -> clients
        /\ blocked' = CASE t.kind = "block" /\ t.client \in clients -> blocked \cup {t.client}
                        [] t.kind = "unregister" -> blocked \ {t.client}
                        [] OTHER -> blocked
        /\ cancellations' = IF t.cancels THEN cancellations \ {t.client} ELSE cancellations
        /\ ready' = IF \/ t.kind = "block" /\ t.client \in clients
                       \/ t.cancels /\ t.client \notin blocked
                    THEN ready ELSE ready \cup {t.client}
  /\ UNCHANGED <<threads, stop_mutex, connections_mutex, stopping, listening, workers, todo,
                 active, replica, connection>>

(* A pending command is served or its deadline passes. *)
serve(c) ==
  /\ c \in blocked
  /\ blocked' = blocked \ {c}
  /\ ready' = ready \cup {c}
  /\ UNCHANGED <<threads, stopper, replica, connection, queue, clients>>

-----------------------------------------------------------------------------
(* A connection thread moves from one place to another. *)
moves(c, from, to) == conn[c] = from /\ conn' = [conn EXCEPT ![c] = to]

(* It submits a task and goes to the place where it waits for the future. *)
submits(c, from, kind, to) ==
  /\ moves(c, from, to)
  /\ queue' = Append(queue, task(kind, c))
  /\ UNCHANGED <<threads, stopper, replica, socket, gone, stop_requested, ready, blocked,
                 clients>>

(* Its future is ready. *)
gets(c, from, to) ==
  /\ c \in ready
  /\ moves(c, from, to)
  /\ ready' = ready \ {c}
  /\ UNCHANGED <<threads, stopper, replica, socket, gone, stop_requested, queue, blocked,
                 clients>>

(* A step of its own. *)
goes(c, from, to) ==
  /\ moves(c, from, to)
  /\ UNCHANGED <<threads, stopper, replica, socket, gone, stop_requested, processor>>

stopped(c) == c \in stop_requested

(* The beginning of handle_connection. *)
register(c) == submits(c, "starting", "register", "registering")
registered(c) == gets(c, "registering", IF stopped(c) THEN "leave" ELSE "loop")

(* The loop of handle_connection: poll returns when there is input, which may *)
(* be older than the end of the connection, or when the socket was shut down  *)
(* or closed by the client and recv returns zero.                             *)
poll(c) == goes(c, "loop", IF stopped(c) THEN "leave" ELSE "poll")
receive(c) == goes(c, "poll", "parse")
end_of_input(c) == (socket[c] # "open" \/ c \in gone) /\ goes(c, "poll", "leave")

(* The inner loop: the rest of the input is parsed unless a stop is           *)
(* requested; an incomplete command ends it, an invalid one the connection.   *)
submit(c) == ~stopped(c) /\ \E kind \in {"command", "block"} : submits(c, "parse", kind, "waiting")
incomplete(c) == goes(c, "parse", "loop")
invalid(c) == ~stopped(c) /\ goes(c, "parse", "leave")
answered(c) == gets(c, "waiting", "answered")
check(c) == goes(c, "answered", IF stopped(c) THEN "leave" ELSE "send")

(* SIGPIPE, whose action is not changed, ends the process with all its        *)
(* threads.                                                                   *)
terminate ==
  /\ main' = "killed" /\ signal' = "returned" /\ at' = [t \in Stoppers |-> "outside"]
  /\ replication' = "finished"
  /\ conn' = [c \in Connections |-> "killed"] /\ socket' = [c \in Connections |-> "closed"]
  /\ queue' = <<>> /\ blocked' = {}
  /\ UNCHANGED <<stopper, master, replication_stop, gone, stop_requested, ready, clients>>

(* send_bytes: a socket that was shut down raises SIGPIPE; a client that is   *)
(* gone may make it fail.                                                     *)
sends(c, from, to) ==
  \/ socket[c] = "open" /\ goes(c, from, to)
  \/ socket[c] = "open" /\ c \in gone /\ goes(c, from, "leave")
  \/ socket[c] = "shut" /\ conn[c] = from /\ terminate

send(c) == sends(c, "send", "parse")

(* PSYNC: the client becomes a replica; its thread then reads                 *)
(* acknowledgements until the connection ends.                                *)
psync(c) == ~stopped(c) /\ submits(c, "parse", "unregister", "detaching")
attach(c) ==
  /\ c \in ready
  /\ moves(c, "detaching", "attaching")
  /\ ready' = ready \ {c}
  /\ queue' = Append(queue, task("register_replica", c))
  /\ UNCHANGED <<threads, stopper, replica, socket, gone, stop_requested, blocked, clients>>
attached(c) == gets(c, "attaching", "resync")
send_full_resync(c) == sends(c, "resync", "replica")
end_of_acknowledgements(c) == (socket[c] # "open" \/ c \in gone) /\ goes(c, "replica", "leave")

(* Faulty variant: a connection that is being stopped leaves its              *)
(* unregistration to stop.                                                    *)
leave_unless_stopped(c) ==
  \/ ~stopped(c) /\ submits(c, "leave", "unregister", "unregistering")
  \/ stopped(c) /\ goes(c, "leave", "close")

(* The end of handle_connection. *)
leave(c) == submits(c, "leave", "unregister", "unregistering")
unregistered(c) == gets(c, "unregistering", "close")

(* The end of the thread: the socket is closed, finished is set. *)
finish(c) ==
  /\ moves(c, "close", "finished")
  /\ socket' = [socket EXCEPT ![c] = "closed"]
  /\ UNCHANGED <<threads, stopper, replica, gone, stop_requested, processor>>

(* A client closes its connection. *)
client_leaves(c) ==
  /\ socket[c] = "open" /\ c \notin gone
  /\ gone' = gone \cup {c}
  /\ UNCHANGED <<threads, stopper, replica, conn, socket, stop_requested, processor>>

Connection(c) ==
  \/ register(c) \/ registered(c) \/ poll(c) \/ end_of_input(c)
  \/ submit(c) \/ incomplete(c) \/ invalid(c) \/ answered(c) \/ check(c) \/ send(c)
  \/ psync(c) \/ attach(c) \/ attached(c) \/ send_full_resync(c) \/ end_of_acknowledgements(c)
  \/ leave(c) \/ unregistered(c) \/ finish(c)

-----------------------------------------------------------------------------
(* A thread moves inside stop. *)
advances(t, from, to) == at[t] = from /\ at' = [at EXCEPT ![t] = to]

lock(t) ==
  /\ stop_mutex = "none"
  /\ advances(t, "lock", "exchange")
  /\ stop_mutex' = t
  /\ UNCHANGED <<main, signal, connections_mutex, stopping, listening, workers, todo, active,
                 cancellations, replica, connection, processor>>

(* _stopping.exchange: only the first caller goes on. *)
exchange(t) ==
  /\ advances(t, "exchange", IF stopping THEN "unlock" ELSE "shut_listener")
  /\ stopping' = TRUE
  /\ UNCHANGED <<main, signal, stop_mutex, connections_mutex, listening, workers, todo, active,
                 cancellations, replica, connection, processor>>

shut_listener(t) ==
  /\ advances(t, "shut_listener", "stop_replication")
  /\ listening' = FALSE
  /\ UNCHANGED <<main, signal, stop_mutex, connections_mutex, stopping, workers, todo, active,
                 cancellations, replica, connection, processor>>

(* _replication_thread.joinable() *)
joinable == replication \notin {"none", "joined"}

stop_replication(t) ==
  /\ advances(t, "stop_replication", "lock_workers")
  /\ IF joinable THEN replication_stop' = TRUE /\ master' = "shut"
     ELSE UNCHANGED <<replication_stop, master>>
  /\ UNCHANGED <<main, signal, stopper, replication, connection, processor>>

(* stop_connection_workers: with the mutex, every worker is told to stop and  *)
(* its socket is shut down; those that have not finished are collected.       *)
lock_workers(t) ==
  /\ connections_mutex = "none"
  /\ advances(t, "lock_workers", "stop_workers")
  /\ connections_mutex' = t
  /\ todo' = workers
  /\ UNCHANGED <<main, signal, stop_mutex, stopping, listening, workers, active, cancellations,
                 replica, connection, processor>>

stop_worker(t, c) ==
  /\ at[t] = "stop_workers" /\ c \in todo
  /\ todo' = todo \ {c}
  /\ stop_requested' = stop_requested \cup {c}
  /\ socket' = [socket EXCEPT ![c] = IF @ = "open" THEN "shut" ELSE @]
  /\ active' = IF conn[c] = "finished" THEN active ELSE active \cup {c}
  /\ UNCHANGED <<threads, stop_mutex, connections_mutex, stopping, listening, workers,
                 cancellations, replica, conn, gone, processor>>

unlock_workers(t) ==
  /\ todo = {}
  /\ advances(t, "stop_workers", "cancel")
  /\ connections_mutex' = "none"
  /\ UNCHANGED <<main, signal, stop_mutex, stopping, listening, workers, todo, active,
                 cancellations, replica, connection, processor>>

(* Faulty variant: the pending commands of the connections are not cancelled. *)
cancel_nothing(t, c) ==
  /\ at[t] = "cancel" /\ c \in active
  /\ active' = active \ {c}
  /\ UNCHANGED <<threads, stop_mutex, connections_mutex, stopping, listening, workers, todo,
                 cancellations, replica, connection, processor>>

(* Each collected client is unregistered, which answers its pending command.  *)
cancel(t, c) ==
  /\ at[t] = "cancel" /\ c \in active
  /\ active' = active \ {c}
  /\ cancellations' = cancellations \cup {c}
  /\ queue' = Append(queue, [kind |-> "unregister", client |-> c, cancels |-> TRUE])
  /\ UNCHANGED <<threads, stop_mutex, connections_mutex, stopping, listening, workers, todo,
                 replica, connection, ready, blocked, clients>>

(* The futures are ready; the mutex is taken again for the joins. *)
cancelled(t) ==
  /\ active = {} /\ cancellations = {}
  /\ connections_mutex = "none"
  /\ advances(t, "cancel", "join_workers")
  /\ connections_mutex' = t
  /\ UNCHANGED <<main, signal, stop_mutex, stopping, listening, workers, todo, active,
                 cancellations, replica, connection, processor>>

join_worker(t, c) ==
  /\ at[t] = "join_workers" /\ c \in workers
  /\ moves(c, "finished", "joined")
  /\ workers' = workers \ {c}
  /\ UNCHANGED <<threads, stop_mutex, connections_mutex, stopping, listening, todo, active,
                 cancellations, replica, socket, gone, stop_requested, processor>>

workers_joined(t) ==
  /\ workers = {}
  /\ advances(t, "join_workers", "join_replication")
  /\ connections_mutex' = "none"
  /\ UNCHANGED <<main, signal, stop_mutex, stopping, listening, workers, todo, active,
                 cancellations, replica, connection, processor>>

(* Whether there is a thread to join is asked anew. *)
join_replication(t) ==
  /\ joinable => replication = "finished"
  /\ advances(t, "join_replication", "unlock")
  /\ replication' = IF joinable THEN "joined" ELSE replication
  /\ UNCHANGED <<main, signal, stopper, master, replication_stop, connection, processor>>

unlock(t) ==
  /\ advances(t, "unlock", "outside")
  /\ stop_mutex' = "none"
  /\ UNCHANGED <<main, signal, connections_mutex, stopping, listening, workers, todo, active,
                 cancellations, replica, connection, processor>>

stop(t) ==
  \/ lock(t) \/ exchange(t) \/ shut_listener(t) \/ stop_replication(t)
  \/ lock_workers(t) \/ unlock_workers(t) \/ cancelled(t) \/ workers_joined(t)
  \/ join_replication(t) \/ unlock(t)
  \/ \E c \in Connections : stop_worker(t, c) \/ cancel(t, c) \/ join_worker(t, c)

-----------------------------------------------------------------------------
(* The main thread moves outside stop. *)
continues(from, to) == main = from /\ at["main"] = "outside" /\ main' = to

(* main sets the server up; what fails leads to the destructor. *)
sets_up(from, to) ==
  /\ main = from
  /\ \/ main' = to /\ UNCHANGED at
     \/ main' = "destroy" /\ at' = [at EXCEPT !["main"] = "lock"]
  /\ UNCHANGED <<stop_mutex, connections_mutex, stopping, workers, todo, active, cancellations,
                 replication, replication_stop, connection, processor>>

initialize_persistence ==
  /\ sets_up("load", "listen")
  /\ UNCHANGED <<signal, listening, master>>

(* A descriptor that cannot be used is closed again. *)
setup_server ==
  /\ sets_up("listen", "connect")
  /\ listening' = (main' = "connect")
  /\ UNCHANGED <<signal, master>>

(* A replica connects to its master; then the signal thread starts. *)
setup_replication ==
  /\ sets_up("connect", "start")
  /\ ~HasMaster => main' = "start"
  /\ master' = IF HasMaster /\ main' = "start" THEN "open" ELSE "none"
  /\ signal' = IF main' = "start" THEN "wait" ELSE signal
  /\ UNCHANGED listening

(* run: the replication thread is assigned, then the loop begins. *)
run ==
  /\ continues("start", "loop")
  /\ replication' = IF HasMaster THEN "busy" ELSE "none"
  /\ UNCHANGED <<signal, at, stopper, master, replication_stop, connection, processor>>

(* run_connection_loop: what has finished is joined, then poll. *)
reap_completed_connections ==
  /\ ~stopping /\ connections_mutex = "none"
  /\ continues("loop", "poll")
  /\ LET completed == {c \in workers : conn[c] = "finished"}
     IN /\ workers' = workers \ completed
        /\ conn' = [c \in Connections |-> IF c \in completed THEN "joined" ELSE conn[c]]
  /\ UNCHANGED <<signal, at, stop_mutex, connections_mutex, stopping, listening, todo, active,
                 cancellations, replica, socket, gone, stop_requested, processor>>

(* poll returns after half a second, or with a connection to accept. *)
poll_times_out ==
  /\ continues("poll", "loop")
  /\ UNCHANGED <<signal, at, stopper, replica, connection, processor>>

accept(c) ==
  /\ listening /\ conn[c] = "new" /\ socket[c] = "none"
  /\ continues("poll", "start_connection")
  /\ socket' = [socket EXCEPT ![c] = "open"]
  /\ UNCHANGED <<signal, at, stopper, replica, conn, gone, stop_requested, processor>>

(* start_connection: with the mutex, unless the server is stopping. *)
start_connection(c) ==
  /\ connections_mutex = "none"
  /\ socket[c] = "open" /\ conn[c] = "new"
  /\ continues("start_connection", "loop")
  /\ \/ /\ stopping
        /\ socket' = [socket EXCEPT ![c] = "closed"]
        /\ conn' = [conn EXCEPT ![c] = "refused"]
        /\ UNCHANGED workers
     \/ /\ ~stopping
        /\ conn' = [conn EXCEPT ![c] = "starting"]
        /\ workers' = workers \cup {c}
        /\ UNCHANGED socket
  /\ UNCHANGED <<signal, at, stop_mutex, connections_mutex, stopping, listening, todo, active,
                 cancellations, replica, gone, stop_requested, processor>>

(* The loop ends: the server is stopping, the listening socket was shut down, *)
(* or poll or accept failed.  Then run calls stop.                            *)
end_loop ==
  /\ (main = "loop" /\ stopping) \/ main = "poll"
  /\ at["main"] = "outside"
  /\ main' = "run_ends"
  /\ at' = [at EXCEPT !["main"] = "lock"]
  /\ UNCHANGED <<signal, stopper, replica, connection, processor>>

(* main joins the signal thread, then ~TcpServer calls stop again. *)
leave_main ==
  /\ signal = "returned"
  /\ main = "run_ends" /\ at["main"] = "outside"
  /\ main' = "destroy"
  /\ at' = [at EXCEPT !["main"] = "lock"]
  /\ UNCHANGED <<signal, stopper, replica, connection, processor>>

close_descriptors ==
  /\ continues("destroy", "join_connections")
  /\ listening' = FALSE
  /\ master' = IF master = "none" THEN "none" ELSE "closed"
  /\ stop_requested' = stop_requested \cup workers
  /\ UNCHANGED <<signal, at, stop_mutex, connections_mutex, stopping, workers, todo, active,
                 cancellations, replication, replication_stop, conn, socket, gone, processor>>

(* The members of TcpServer are destroyed in reverse: a std::jthread that is  *)
(* still joinable is told to stop and joined.  The processor comes last.      *)
destroy_connections ==
  /\ \A c \in workers : conn[c] = "finished"
  /\ continues("join_connections", "join_replication")
  /\ replication_stop' = (replication_stop \/ joinable)
  /\ UNCHANGED <<signal, at, stopper, master, replication, connection, processor>>

(* Faulty variant: the thread is detached when its owner is destroyed.        *)
destroy_replication_detached ==
  /\ continues("join_replication", "destroy_processor")
  /\ UNCHANGED <<signal, at, stopper, replica, connection, processor>>

destroy_replication ==
  /\ joinable => replication = "finished"
  /\ continues("join_replication", "destroy_processor")
  /\ UNCHANGED <<signal, at, stopper, replica, connection, processor>>

(* ~CommandProcessor joins the worker, which ends, or has missed the          *)
(* notification and sleeps for ever (TaskQueue: request_stop).                *)
destroy_processor ==
  /\ \E to \in {"done", "stuck"} : continues("destroy_processor", to)
  /\ UNCHANGED <<signal, at, stopper, replica, connection, processor>>

Main ==
  \/ initialize_persistence \/ setup_server \/ setup_replication
  \/ run \/ reap_completed_connections \/ poll_times_out
  \/ \E c \in Connections : accept(c) \/ start_connection(c)
  \/ end_loop \/ leave_main \/ close_descriptors
  \/ destroy_connections \/ destroy_replication \/ destroy_processor

-----------------------------------------------------------------------------
(* The signal thread: sigtimedwait returns a signal, or the thread is asked   *)
(* to stop after run has returned.                                            *)
receive_signal ==
  /\ signal = "wait"
  /\ signal' = "stopping"
  /\ at' = [at EXCEPT !["signal"] = "lock"]
  /\ UNCHANGED <<main, stopper, replica, connection, processor>>

return_from_stop ==
  /\ signal = "stopping" /\ at["signal"] = "outside"
  /\ signal' = "returned"
  /\ UNCHANGED <<main, at, stopper, replica, connection, processor>>

end_wait ==
  /\ signal = "wait" /\ main = "run_ends" /\ at["main"] = "outside"
  /\ signal' = "returned"
  /\ UNCHANGED <<main, at, stopper, replica, connection, processor>>

wait_fails ==
  /\ signal = "wait"
  /\ signal' = "returned"
  /\ UNCHANGED <<main, at, stopper, replica, connection, processor>>

Signal == return_from_stop \/ end_wait

-----------------------------------------------------------------------------
(* replication_loop: between two calls it looks at its stop token or fails on *)
(* a descriptor that was shut down or closed; an error of the master ends it. *)
replicate ==
  /\ replication = "busy"
  /\ \/ ~replication_stop /\ master = "open" /\ replication' = "recv"
     \/ replication' = "finished"
  /\ UNCHANGED <<threads, stopper, master, replication_stop, connection, processor>>

(* recv returns what the master sends, and zero when the descriptor is shut   *)
(* down; to close a descriptor does not wake a thread that reads it.          *)
master_sends ==
  /\ replication = "recv" /\ master \in {"open", "closed"}
  /\ replication' \in {"busy", "finished"}
  /\ UNCHANGED <<threads, stopper, master, replication_stop, connection, processor>>

replication_woken ==
  /\ replication = "recv" /\ master = "shut"
  /\ replication' = "finished"
  /\ UNCHANGED <<threads, stopper, master, replication_stop, connection, processor>>

Replication == replicate \/ replication_woken

-----------------------------------------------------------------------------
Init ==
  /\ main = "load" /\ signal = "returned" /\ at = [t \in Stoppers |-> "outside"]
  /\ stop_mutex = "none" /\ connections_mutex = "none"
  /\ stopping = FALSE /\ listening = FALSE
  /\ workers = {} /\ todo = {} /\ active = {} /\ cancellations = {}
  /\ master = "none"
  /\ replication = "none" /\ replication_stop = FALSE
  /\ conn = [c \in Connections |-> "new"] /\ socket = [c \in Connections |-> "none"]
  /\ gone = {} /\ stop_requested = {}
  /\ queue = <<>> /\ ready = {} /\ blocked = {} /\ clients = {}

Environment == receive_signal \/ wait_fails \/ master_sends \/ \E c \in Connections :
                 serve(c) \/ receive(c) \/ client_leaves(c)

Next ==
  \/ Main \/ Signal \/ Replication \/ process_task \/ Environment
  \/ \E t \in Stoppers : stop(t)
  \/ \E c \in Connections : Connection(c)

Spec == Init /\ [][Next]_vars

(* Every thread of the process runs; clients, master and signals need not     *)
(* come.                                                                      *)
FairSpec ==
  /\ Spec
  /\ WF_vars(Main) /\ WF_vars(Signal) /\ WF_vars(Replication) /\ WF_vars(process_task)
  /\ \A t \in Stoppers : WF_vars(stop(t))
  /\ \A c \in Connections : WF_vars(Connection(c))

-----------------------------------------------------------------------------
(* Every connection thread, the replication thread and the signal thread have *)
(* ended before the processor is destroyed, and no thread waits for it        *)
(* (README, "Thread lifecycle").                                              *)
ProcessorOutlivesThreads ==
  main \in {"destroy_processor", "stuck", "done"} =>
    /\ \A c \in Connections : conn[c] \in {"new", "refused", "finished", "joined"}
    /\ replication \in {"none", "finished", "joined"}
    /\ signal = "returned" /\ queue = <<>>

(* A connection whose thread has ended is not registered in the processor and *)
(* has no command pending there, although stop and the thread both unregister *)
(* it and its registration may come after the first of them.                  *)
NothingRegistered ==
  \A c \in Connections : conn[c] \in {"finished", "joined"} => c \notin clients /\ c \notin blocked

killed == main = "killed"

(* Once a stop has begun after the replication thread was started, the main   *)
(* thread comes to the destruction of the processor whatever clients and      *)
(* master do: blocked commands are cancelled, sockets shut down, all threads  *)
(* but the worker joined.  The one way out is SIGPIPE, when a connection      *)
(* sends on a socket that stop has shut down.  Nothing is said of the join of *)
(* the worker after that.                                                     *)
StopReachesProcessor ==
  (main # "start" /\ \E t \in Stoppers : at[t] = "shut_listener")
    ~> (main = "destroy_processor" \/ killed)
=============================================================================
