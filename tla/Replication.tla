---------------------------- MODULE Replication -----------------------------
(***************************************************************************)
(* A master, its replicas and WAIT.  The worker of the master appends      *)
(* frames to the sessions of its replicas; for each replica a sender       *)
(* thread writes the frames to the socket and a connection thread reads    *)
(* acknowledgements; the replication thread of the replica applies the     *)
(* stream.  Connections may break at any time and lose what is in flight.  *)
(*                                                                         *)
(* The worker executes a task as SerialExecutor promises: one at a time.   *)
(* A command in a stream carries its kind and the number of its write, or  *)
(* of the last write before it, and, for the properties only, the offset   *)
(* at which it ends.  What a write does to a database is the subject of    *)
(* Commands.                                                               *)
(***************************************************************************)
EXTENDS Naturals, Sequences, FiniteSets

CONSTANTS
  Clients,       \* clients of the master
  Replicas,      \* replica servers; one that comes back counts as another
  Size,          \* the length in bytes of a command of each kind
  Transactions,  \* how many writes a transaction may have
  Requests,      \* the arguments of WAIT: replicas required, timeout or none
  MaxWrites,     \* bound: writes in a behaviour
  MaxWaits       \* bound: GETACK frames in a behaviour

Kinds == {"WRITE", "MULTI", "EXEC", "GETACK"}
WaitRequest == [required : Nat, timeout : BOOLEAN]

ASSUME ReplicationAssumption ==
  /\ Size \in [Kinds -> Nat \ {0}]
  /\ Transactions \subseteq Nat \ {0}
  /\ Requests \subseteq WaitRequest
  /\ MaxWrites \in Nat /\ MaxWaits \in Nat
  /\ IsFiniteSet(Replicas)

VARIABLES
  offset,      \* _replication_state.offset of the master
  effective,   \* history: for each write, the offset at which its frame ends
  getacks,     \* how many GETACK frames were appended
  client_write_offsets, \* _client_write_offsets; 0 where there is none
  last_write,  \* history: the last write of each client
  acknowledged,         \* _replica_acknowledged_offsets; 0 where there is none
  sessions,    \* the replicas with an entry in _replica_sessions
  waits,       \* _pending_waits, by client
  pass,        \* the loop of `run`: "task", "retry" or "expire"
  todo,        \* the pending WAITs this loop has still to judge
  answer,      \* the last answer to a WAIT of each client
  conn,        \* where the connection thread of each replica is
  pending_frames, \* the commands queued in the session of each replica
  closed,      \* _closed of each session
  starting_offset, \* _starting_offset of each session
  link,        \* "up" or "down": the connection to each replica
  stream,      \* bytes in flight to each replica
  acks,        \* offsets in flight from each replica
  replica      \* the replica servers

log == <<offset, effective, getacks>>
written == <<client_write_offsets, last_write>>
worker == <<log, written, acknowledged, sessions, waits, pass, todo, answer>>
session == <<pending_frames, closed, starting_offset>>
wire == <<link, stream, acks>>
connections == <<conn, session, wire>>
vars == <<worker, connections, replica>>

Command == [op : Kinds, id : 0..MaxWrites, ends : Nat]
FullResync == [op : {"FULLRESYNC"}, id : 0..MaxWrites, ends : Nat]
None == [pending |-> FALSE]
writes == Len(effective)

Init ==
  /\ offset = 0 /\ effective = <<>> /\ getacks = 0
  /\ client_write_offsets = [c \in Clients |-> 0] /\ last_write = [c \in Clients |-> 0]
  /\ acknowledged = [r \in Replicas |-> 0]
  /\ sessions = {} /\ starting_offset = [r \in Replicas |-> 0]
  /\ waits = [c \in Clients |-> None]
  /\ pass = "task" /\ todo = {}
  /\ answer = [c \in Clients |-> [counted |-> {}, upto |-> 0]]
  /\ conn = [r \in Replicas |-> "commands"]
  /\ pending_frames = [r \in Replicas |-> <<>>]
  /\ closed = [r \in Replicas |-> FALSE]
  /\ link = [r \in Replicas |-> "up"]
  /\ stream = [r \in Replicas |-> <<>>]
  /\ acks = [r \in Replicas |-> <<>>]
  /\ replica = [r \in Replicas |->
       [pc |-> "connected", offset |-> 0, open |-> FALSE, queued |-> <<>>, done |-> <<>>,
        first |-> 0]]

-----------------------------------------------------------------------------
(* Frames *)

(* A session lives as long as its connection thread holds it: the worker has *)
(* weak pointers only.                                                       *)
alive(r) == conn[r] \in {"resync", "acks"}

live_sessions == {r \in sessions : alive(r)}

(* Every live session gets the frame, unless it is closed. *)
enqueue(payload) ==
  pending_frames' = [r \in Replicas |->
    IF r \in live_sessions /\ ~closed[r] THEN pending_frames[r] \o payload ELSE pending_frames[r]]

append_replication_frame(payload) ==
  /\ offset' = payload[Len(payload)].ends
  /\ enqueue(payload)
  /\ sessions' = live_sessions

direct_payload == <<[op |-> "WRITE", id |-> writes + 1, ends |-> offset + Size["WRITE"]]>>

(* MULTI, the writes, EXEC *)
transaction_payload(n) ==
  [i \in 1..(n + 2) |->
    CASE i = 1 -> [op |-> "MULTI", id |-> writes, ends |-> offset + Size["MULTI"]]
      [] i = n + 2 -> [op |-> "EXEC", id |-> writes + n,
                       ends |-> offset + Size["MULTI"] + n * Size["WRITE"] + Size["EXEC"]]
      [] OTHER -> [op |-> "WRITE", id |-> writes + i - 1,
                   ends |-> offset + Size["MULTI"] + (i - 1) * Size["WRITE"]]]

getack_payload == <<[op |-> "GETACK", id |-> writes, ends |-> offset + Size["GETACK"]]>>

-----------------------------------------------------------------------------
(* The worker of the master *)

waiting == {c \in Clients : waits[c].pending}

(* After a task, the pending WAITs are retried and then expired. *)
start_retries(pending) ==
  /\ pass' = IF pending = {} THEN "task" ELSE "retry"
  /\ todo' = pending

idle == pass = "task"

(* Faulty variant: the offset of the client is read before the append.       *)
append_client_replication_frame_early(c, payload, n) ==
  /\ append_replication_frame(payload)
  /\ client_write_offsets' = [client_write_offsets EXCEPT ![c] = offset]
  /\ effective' = effective \o [i \in 1..n |-> offset']
  /\ last_write' = [last_write EXCEPT ![c] = writes + n]

append_client_replication_frame(c, payload, n) ==
  /\ append_replication_frame(payload)
  /\ client_write_offsets' = [client_write_offsets EXCEPT ![c] = offset']
  /\ effective' = effective \o [i \in 1..n |-> offset']
  /\ last_write' = [last_write EXCEPT ![c] = writes + n]

(* A successful write, direct or in a transaction. *)
write(c) ==
  /\ idle /\ c \notin waiting
  /\ \/ writes < MaxWrites /\ append_client_replication_frame(c, direct_payload, 1)
     \/ \E n \in Transactions :
          /\ writes + n <= MaxWrites
          /\ append_client_replication_frame(c, transaction_payload(n), n)
  /\ start_retries(waiting)
  /\ UNCHANGED <<getacks, acknowledged, waits, answer, conn, closed, starting_offset, wire,
                 replica>>

acknowledged_replicas(target) ==
  {r \in live_sessions : target = 0 \/ acknowledged[r] >= target}

reply(c, target, upto) ==
  answer' = [answer EXCEPT ![c] = [counted |-> acknowledged_replicas(target), upto |-> upto]]

(* Faulty variant: the replicas are not asked.                               *)
process_wait_silent(c, request) ==
  LET target == client_write_offsets[c] IN
  /\ idle /\ c \notin waiting
  /\ \/ /\ target = 0 \/ Cardinality(acknowledged_replicas(target)) >= request.required
        /\ reply(c, target, last_write[c])
        /\ sessions' = live_sessions
        /\ start_retries(waiting)
        /\ UNCHANGED <<offset, pending_frames, getacks, waits>>
     \/ /\ target # 0 /\ Cardinality(acknowledged_replicas(target)) < request.required
        /\ getacks < MaxWaits /\ getacks' = getacks + 1
        /\ waits' = [waits EXCEPT ![c] =
             [pending |-> TRUE, required |-> request.required, target |-> target,
              timeout |-> request.timeout, due |-> FALSE,
              upto |-> last_write[c], asked |-> live_sessions]]
        /\ start_retries(waiting \cup {c})
        /\ UNCHANGED <<offset, pending_frames, sessions, answer>>
  /\ UNCHANGED <<effective, written, acknowledged, conn, closed, starting_offset, wire,
                 replica>>

process_wait(c, request) ==
  LET target == client_write_offsets[c] IN
  /\ idle /\ c \notin waiting
  /\ \/ /\ target = 0 \/ Cardinality(acknowledged_replicas(target)) >= request.required
        /\ reply(c, target, last_write[c])
        /\ sessions' = live_sessions
        /\ start_retries(waiting)
        /\ UNCHANGED <<offset, pending_frames, getacks, waits>>
     \/ /\ target # 0 /\ Cardinality(acknowledged_replicas(target)) < request.required
        /\ getacks < MaxWaits /\ getacks' = getacks + 1
        /\ append_replication_frame(getack_payload)
        /\ waits' = [waits EXCEPT ![c] =
             [pending |-> TRUE, required |-> request.required, target |-> target,
              timeout |-> request.timeout, due |-> FALSE,
              upto |-> last_write[c], asked |-> {r \in live_sessions : ~closed[r]}]]
        /\ start_retries(waiting \cup {c})
        /\ UNCHANGED answer
  /\ UNCHANGED <<effective, written, acknowledged, conn, closed, starting_offset, wire,
                 replica>>

(* A loop is left when it has judged every entry. *)
judged(c, answered) ==
  /\ waits' = IF answered THEN [waits EXCEPT ![c] = None] ELSE waits
  /\ sessions' = live_sessions
  /\ UNCHANGED <<log, written, acknowledged, connections, replica>>

(* Faulty variant: an answered WAIT is judged again.                         *)
retry_pending_wait_again(c) ==
  LET enough == Cardinality(acknowledged_replicas(waits[c].target)) >= waits[c].required IN
  /\ pass = "retry" /\ c \in todo
  /\ judged(c, enough)
  /\ IF enough THEN reply(c, waits[c].target, waits[c].upto) ELSE UNCHANGED answer
  /\ todo' = IF enough THEN todo ELSE todo \ {c}
  /\ UNCHANGED pass

retry_pending_wait(c) ==
  LET enough == Cardinality(acknowledged_replicas(waits[c].target)) >= waits[c].required IN
  /\ pass = "retry" /\ c \in todo
  /\ judged(c, enough)
  /\ IF enough THEN reply(c, waits[c].target, waits[c].upto) ELSE UNCHANGED answer
  /\ todo' = todo \ {c}
  /\ UNCHANGED pass

end_retries ==
  LET due == {c \in waiting : waits[c].due} IN
  /\ pass = "retry" /\ todo = {}
  /\ pass' = IF due = {} THEN "task" ELSE "expire"
  /\ todo' = due
  /\ UNCHANGED <<log, written, acknowledged, sessions, waits, answer, connections, replica>>

(* wait_until returns at a deadline although no task came. *)
wake_at_deadline ==
  LET due == {c \in waiting : waits[c].due} IN
  /\ idle /\ due # {}
  /\ pass' = "expire" /\ todo' = due
  /\ UNCHANGED <<log, written, acknowledged, sessions, waits, answer, connections, replica>>

expire_pending_wait(c) ==
  /\ pass = "expire" /\ c \in todo
  /\ judged(c, TRUE)
  /\ reply(c, waits[c].target, waits[c].upto)
  /\ todo' = todo \ {c}
  /\ pass' = IF todo' = {} THEN "task" ELSE "expire"

elapse(c) ==
  /\ c \in waiting /\ waits[c].timeout /\ ~waits[c].due
  /\ waits' = [waits EXCEPT ![c].due = TRUE]
  /\ UNCHANGED <<log, written, acknowledged, sessions, pass, todo, answer, connections,
                 replica>>

(* process_client_unregistration of a client that has nothing to wait for or *)
(* whose WAIT is cancelled.                                                  *)
unregister_client(c) ==
  /\ idle
  /\ waits' = [waits EXCEPT ![c] = None]
  /\ client_write_offsets' = [client_write_offsets EXCEPT ![c] = 0]
  /\ last_write' = [last_write EXCEPT ![c] = 0]
  /\ start_retries(waiting \ {c})
  /\ UNCHANGED <<log, acknowledged, sessions, answer, connections, replica>>

-----------------------------------------------------------------------------
(* The connection thread and the sender thread of a replica *)

(* After PSYNC, process_replica_registration: the session starts at the       *)
(* offset the worker has reached.                                             *)
register_replica(r) ==
  /\ idle /\ conn[r] = "commands" /\ replica[r].pc = "handshake"
  /\ sessions' = sessions \cup {r}
  /\ conn' = [conn EXCEPT ![r] = "resync"]
  /\ replica' = [replica EXCEPT ![r].first = writes]
  /\ starting_offset' = [starting_offset EXCEPT ![r] = offset]
  /\ start_retries(waiting)
  /\ UNCHANGED <<log, written, acknowledged, waits, answer, pending_frames, closed, wire>>

(* wait_for_frame of a session that is open and has a frame; close. *)
wait_for_frame(r) ==
  /\ ~closed[r] /\ pending_frames[r] # <<>>
  /\ pending_frames' = [pending_frames EXCEPT ![r] = Tail(@)]

close(r) == closed' = [closed EXCEPT ![r] = TRUE]

(* The answer to PSYNC and an empty RDB file, and then the sender is started. *)
send_full_resync(r) ==
  /\ conn[r] = "resync"
  /\ \/ /\ link[r] = "up"
        /\ stream' = [stream EXCEPT ![r] =
             Append(@, [op |-> "FULLRESYNC", id |-> replica[r].first,
                        ends |-> starting_offset[r]])]
        /\ conn' = [conn EXCEPT ![r] = "acks"]
        /\ UNCHANGED closed
     \/ /\ link[r] = "down"
        /\ close(r)
        /\ conn' = [conn EXCEPT ![r] = "leave"]
        /\ UNCHANGED stream
  /\ UNCHANGED <<worker, pending_frames, starting_offset, link, acks, replica>>

(* The sender writes the payload of a frame piece by piece.  On a broken     *)
(* connection a piece is lost or the call fails.                             *)
send_replication_frame(r) ==
  /\ conn[r] = "acks"
  /\ wait_for_frame(r)
  /\ \/ /\ link[r] = "up"
        /\ stream' = [stream EXCEPT ![r] = Append(@, Head(pending_frames[r]))]
        /\ UNCHANGED closed
     \/ /\ link[r] = "down"
        /\ close(r) \/ UNCHANGED closed
        /\ UNCHANGED stream
  /\ UNCHANGED <<worker, conn, starting_offset, link, acks, replica>>

max(a, b) == IF a < b THEN b ELSE a

(* process_replica_acknowledgement, for a connection thread that waits for it *)
acknowledge_replica(r) ==
  /\ idle /\ conn[r] = "acks" /\ acks[r] # <<>>
  /\ acknowledged' = [acknowledged EXCEPT ![r] = max(@, Head(acks[r]))]
  /\ acks' = [acks EXCEPT ![r] = Tail(@)]
  /\ start_retries(waiting)
  /\ UNCHANGED <<log, written, sessions, waits, answer, conn, session, link, stream, replica>>

(* recv returns 0: the session is closed and the sender joined. *)
end_replica_connection(r) ==
  /\ conn[r] = "acks" /\ acks[r] = <<>> /\ link[r] = "down"
  /\ close(r)
  /\ conn' = [conn EXCEPT ![r] = "leave"]
  /\ UNCHANGED <<worker, pending_frames, starting_offset, wire, replica>>

unregister_replica(r) ==
  /\ idle /\ conn[r] = "leave"
  /\ acknowledged' = [acknowledged EXCEPT ![r] = 0]
  /\ conn' = [conn EXCEPT ![r] = "ended"]
  /\ start_retries(waiting)
  /\ UNCHANGED <<log, written, sessions, waits, answer, session, wire, replica>>

(* The connection breaks, and what is in flight is lost from some point on. *)
break_connection(r) ==
  /\ link[r] = "up" /\ conn[r] # "commands"
  /\ link' = [link EXCEPT ![r] = "down"]
  /\ \E i \in 0..Len(stream[r]) : stream' = [stream EXCEPT ![r] = SubSeq(@, 1, i)]
  /\ \E i \in 0..Len(acks[r]) : acks' = [acks EXCEPT ![r] = SubSeq(@, 1, i)]
  /\ UNCHANGED <<worker, conn, session, replica>>

-----------------------------------------------------------------------------
(* The replication thread of a replica server *)

(* PING, two REPLCONF and PSYNC.  The master answers the first three like any *)
(* client's commands; an answer other than the expected one ends the thread. *)
perform_replication_handshake(r) ==
  /\ replica[r].pc = "connected"
  /\ \E pc \in {"handshake", "ended"} : replica' = [replica EXCEPT ![r].pc = pc]
  /\ UNCHANGED <<worker, connections>>

(* receive_full_resync, receive_rdb_payload, install_replication_state *)
install_replication_state(r) ==
  /\ replica[r].pc = "handshake" /\ stream[r] # <<>>
  /\ replica' = [replica EXCEPT ![r].pc = "stream", ![r].offset = Head(stream[r]).ends]
  /\ stream' = [stream EXCEPT ![r] = Tail(@)]
  /\ UNCHANGED <<worker, conn, session, link, acks>>

(* Faulty variant: the first write after MULTI takes effect at once.         *)
executed_at_once(server, command) ==
  CASE command.op = "WRITE" -> [server EXCEPT !.done = Append(@, command.id)]
    [] command.op = "MULTI" -> [server EXCEPT !.open = TRUE, !.queued = <<>>]
    [] command.op = "EXEC" -> [server EXCEPT !.open = FALSE, !.queued = <<>>]
    [] OTHER -> server

(* What the processor of the replica does with a command of its master.  An  *)
(* error inside EXEC is part of its answer and stops nothing.                *)
executed(server, command) ==
  CASE command.op = "WRITE" /\ server.open -> [server EXCEPT !.queued = Append(@, command.id)]
    [] command.op = "WRITE" /\ ~server.open -> [server EXCEPT !.done = Append(@, command.id)]
    [] command.op = "MULTI" -> [server EXCEPT !.open = TRUE, !.queued = <<>>]
    [] command.op = "EXEC" ->
         [server EXCEPT !.done = @ \o server.queued, !.open = FALSE, !.queued = <<>>]
    [] OTHER -> server

(* Faulty variant: a queued command does not count until EXEC.               *)
counted_without_queued(server, command) ==
  IF server.open /\ command.op = "WRITE" THEN 0 ELSE Size[command.op]

counted(server, command) == Size[command.op]

(* Faulty variant: the offset is read when the command is received.          *)
acknowledged_offset_received(r) == stream[r][Len(stream[r])].ends

acknowledged_offset(r) == replica[r].offset

counts(server, command) == [server EXCEPT !.offset = @ + counted(server, command)]

(* How the processor of the replica is left by a command that is answered     *)
(* with an error, which ends the thread: a direct write that failed, one that *)
(* took effect and counts although the replica's own append-only file refused *)
(* it, or a transaction of which this is so, which then does not count.       *)
failed(server, command) ==
  (IF command.op = "WRITE" /\ ~server.open
   THEN {server, counts(executed(server, command), command)} ELSE {})
    \cup (IF command.op = "EXEC" THEN {executed(server, command)} ELSE {})

apply_replication(r) ==
  LET command == Head(stream[r]) IN
  /\ replica[r].pc = "stream" /\ stream[r] # <<>>
  /\ \/ /\ replica' = [replica EXCEPT ![r] = counts(executed(replica[r], command), command)]
        /\ acks' = IF command.op = "GETACK" /\ link[r] = "up"
                   THEN [acks EXCEPT ![r] = Append(@, acknowledged_offset(r))] ELSE acks
     \/ /\ \E server \in failed(replica[r], command) :
             replica' = [replica EXCEPT ![r] = [server EXCEPT !.pc = "ended"]]
        /\ UNCHANGED acks
  /\ stream' = [stream EXCEPT ![r] = Tail(@)]
  /\ UNCHANGED <<worker, conn, session, link>>

(* The master closed the stream, or an acknowledgement could not be sent. *)
end_replication(r) ==
  /\ replica[r].pc \in {"handshake", "stream"} /\ link[r] = "down" /\ stream[r] = <<>>
  /\ replica' = [replica EXCEPT ![r].pc = "ended"]
  /\ UNCHANGED <<worker, connections>>

-----------------------------------------------------------------------------
Judge == \/ end_retries \/ wake_at_deadline
         \/ \E c \in todo : retry_pending_wait(c) \/ expire_pending_wait(c)

Worker ==
  \/ Judge
  \/ \E r \in Replicas : register_replica(r) \/ acknowledge_replica(r) \/ unregister_replica(r)

Connection(r) == send_full_resync(r) \/ send_replication_frame(r) \/ end_replica_connection(r)

Replica(r) == \/ perform_replication_handshake(r)
              \/ install_replication_state(r) \/ apply_replication(r) \/ end_replication(r)

Client(c) == \/ write(c) \/ unregister_client(c) \/ elapse(c)
             \/ \E request \in Requests : process_wait(c, request)

Next ==
  \/ Worker
  \/ \E c \in Clients : Client(c)
  \/ \E r \in Replicas : Connection(r) \/ Replica(r) \/ break_connection(r)

Spec == Init /\ [][Next]_vars

(* Every thread that can run does, time passes, and a message in flight       *)
(* arrives.  Nothing is assumed of clients and of connections.                *)
FairSpec ==
  /\ Spec
  /\ WF_vars(Judge)
  /\ \A r \in Replicas :
       /\ WF_vars(Connection(r)) /\ WF_vars(Replica(r))
       /\ SF_vars(acknowledge_replica(r)) /\ SF_vars(unregister_replica(r))
  /\ \A c \in Clients : WF_vars(elapse(c))

-----------------------------------------------------------------------------
(* Properties *)

(* Every variable has its type. *)
TypeOK ==
  /\ offset \in Nat /\ effective \in Seq(Nat) /\ getacks \in Nat
  /\ client_write_offsets \in [Clients -> Nat] /\ last_write \in [Clients -> 0..writes]
  /\ acknowledged \in [Replicas -> Nat]
  /\ sessions \subseteq Replicas
  /\ DOMAIN waits = Clients
  /\ \A c \in Clients : waits[c].pending =>
       /\ waits[c].required \in Nat /\ waits[c].target \in Nat \ {0}
       /\ waits[c].upto \in 1..writes /\ waits[c].asked \subseteq Replicas
  /\ pass \in {"task", "retry", "expire"} /\ todo \subseteq waiting
  /\ conn \in [Replicas -> {"commands", "resync", "acks", "leave", "ended"}]
  /\ pending_frames \in [Replicas -> Seq(Command)]
  /\ closed \in [Replicas -> BOOLEAN] /\ starting_offset \in [Replicas -> Nat]
  /\ link \in [Replicas -> {"up", "down"}]
  /\ stream \in [Replicas -> Seq(Command \cup FullResync)]
  /\ acks \in [Replicas -> Seq(Nat)]
  /\ \A r \in Replicas :
       /\ replica[r].pc \in {"connected", "handshake", "stream", "ended"}
       /\ replica[r].offset \in Nat /\ replica[r].open \in BOOLEAN
       /\ replica[r].queued \in Seq(Nat) /\ replica[r].done \in Seq(Nat)
       /\ replica[r].first \in 0..writes

(* Nothing is lost or counted twice between a master and a replica that is   *)
(* connected: the first command in flight begins at the offset of the        *)
(* replica, each begins where the one before it ends, and the last ends at   *)
(* the offset of the master.                                                 *)
OffsetsAgree ==
  \A r \in Replicas :
    LET flight == stream[r] \o pending_frames[r]
        start == IF replica[r].pc = "handshake" THEN starting_offset[r] ELSE replica[r].offset
    IN
    replica[r].pc # "ended" /\ alive(r) /\ link[r] = "up" =>
      /\ \A i \in DOMAIN flight : flight[i].op # "FULLRESYNC" =>
           LET before == IF i = 1 THEN start ELSE flight[i - 1].ends IN
           flight[i].ends = before + Size[flight[i].op]
      /\ offset = IF flight = <<>> THEN start ELSE flight[Len(flight)].ends

(* A replica executes the writes of its master in order, from the first one  *)
(* after it registered, without a gap, and a transaction as a whole: what it *)
(* has executed ends where a frame ends, even if the connection broke inside *)
(* one.                                                                      *)
ExecutesPrefix ==
  \A r \in Replicas :
    LET first == replica[r].first
        done == replica[r].done
        last == first + Len(done)
    IN /\ \A i \in DOMAIN done : done[i] = first + i
       /\ last <= writes
       /\ 0 < last /\ last < writes => effective[last] < effective[last + 1]

(* A replica never acknowledges more than it has executed.                   *)
AcknowledgesExecuted ==
  \A r \in Replicas, n \in 1..writes :
    /\ n > replica[r].first
    /\ \/ effective[n] <= acknowledged[r]
       \/ \E i \in DOMAIN acks[r] : effective[n] <= acks[r][i]
    => \E i \in DOMAIN replica[r].done : replica[r].done[i] = n

(* A replica that WAIT counted has executed every write up to the last one   *)
(* of the waiting client, except those from before it registered.            *)
WaitCountsExecuted ==
  \A c \in Clients : \A r \in answer[c].counted : \A n \in 1..answer[c].upto :
    n > replica[r].first => \E i \in DOMAIN replica[r].done : replica[r].done[i] = n

lost(r) == link[r] = "down" \/ replica[r].pc = "ended"

(* A WAIT is answered if it has a timeout, whatever the replicas do, or if   *)
(* enough replicas were connected when it was sent, unless one of them is    *)
(* lost: one GETACK is enough, since it follows every write of the client in *)
(* every stream.                                                             *)
WaitAnswered ==
  \A c \in Clients :
    (c \in waiting /\ (waits[c].timeout \/ Cardinality(waits[c].asked) >= waits[c].required))
      ~> (c \notin waiting \/ (~waits[c].timeout /\ \E r \in waits[c].asked : lost(r)))
=============================================================================
