-------------------------- MODULE CommandProcessor --------------------------
(***************************************************************************)
(* The worker of src/command_processor.cpp, once a task has passed the     *)
(* authentication and subscription gates: direct commands, transactions    *)
(* and WATCH, blocking BLPOP and XREAD with their retries and timeouts,    *)
(* and the propagation of writes to the append-only file and the           *)
(* replication backlog.                                                    *)
(*                                                                         *)
(* `run` takes one task, then walks its pending queues.  Every iteration   *)
(* of those loops, and every command of an EXEC, is a step of its own,     *)
(* because each reads the clock again; the clock may advance between any   *)
(* two steps.  A connection submits a command only after the answer to its *)
(* previous one, so the hand-over through _tasks is part of taking a task. *)
(***************************************************************************)
EXTENDS Commands

CONSTANTS
  Clients,            \* client connections
  ReplicationClient,  \* client id 0: the commands of the master, on a replica
  WallTimes,          \* readings of the system clock
  Scenarios           \* by name: how the server was started, what its peers submit, bounds

Sessions == Clients \cup {ReplicationClient}

ASSUME ProcessorAssumption ==
  /\ ReplicationClient \notin Clients
  /\ WallTimes \subseteq 0..IdMax
  /\ \A name \in DOMAIN Scenarios :
       /\ Scenarios[name].role \in {"master", "replica"}
       /\ Scenarios[name].aof \in {"off", "on", "may_fail"}
       /\ \A c \in Sessions : Scenarios[name].commands[c] \subseteq Command
       /\ Scenarios[name].max_time \in Nat
       /\ Scenarios[name].max_revision \in Nat
       /\ Scenarios[name].max_queued \in Nat

VARIABLES
  scenario,              \* the name of the scenario, fixed when the server starts
  db,                    \* _database
  now,                   \* steady_clock::now()
  transactions,          \* _transactions
  watched_keys,          \* _watched_keys
  pending_list_pops,     \* _pending_list_pops
  pending_stream_reads,  \* _pending_stream_reads
  aof,                   \* the commands in the append-only file
  frame,                 \* the replication frame the last step appended, or <<>>
  executing,             \* the transaction execute_transaction is working through
  pc,                    \* where the worker is in `run`
  cursor,                \* `pending` in the loop the worker is in
  checked_at,            \* `now` in the expiry loop the worker is in
  waiting,               \* sessions whose promise is not set
  answer,                \* the promise the last step set, or NoAnswer
  snapshot               \* history: the entry a session saw when it watched a key

data == <<db, transactions, watched_keys, snapshot>>
pending == <<pending_list_pops, pending_stream_reads>>
output == <<aof, frame, waiting, answer>>
control == <<executing, pc, cursor, checked_at>>
vars == <<data, now, scenario, pending, output, control>>

Role == Scenarios[scenario].role
AofEnabled == Scenarios[scenario].aof # "off"        \* whether _aof_file is set
AofMayFail == Scenarios[scenario].aof = "may_fail"   \* whether an append may fail
commands_of(c) == {cmd \in Scenarios[scenario].commands[c] : cmd \in Command}
MaxTime == Scenarios[scenario].max_time              \* bound on the steady clock
MaxRevision == Scenarios[scenario].max_revision      \* bound on the writes
MaxQueued == Scenarios[scenario].max_queued          \* bound on the commands of one MULTI

NoTransaction == [open |-> FALSE, commands |-> <<>>, has_error |-> FALSE]
NotWatched == -1
Idle == [client |-> ReplicationClient, commands |-> <<>>, payload |-> <<>>]
Torn == [op |-> "TORN"]    \* a command of which only some bytes were written
Queued == [kind |-> "queued"]
Executed == [kind |-> "executed"]
NoResponse == [kind |-> "none"]
NoAnswer == [client |-> ReplicationClient, reply |-> NoResponse]

source(c) == IF c = ReplicationClient THEN "MASTER" ELSE "CLIENT"
deadline_after(timeout) == IF timeout = 0 THEN Never ELSE now + timeout

is_due(deadline, time) == deadline # Never /\ time >= deadline

Init ==
  /\ scenario \in DOMAIN Scenarios
  /\ db = EmptyDatabase
  /\ now = 0
  /\ transactions = [c \in Sessions |-> NoTransaction]
  /\ watched_keys = [c \in Sessions |-> [k \in Keys |-> NotWatched]]
  /\ snapshot = [c \in Sessions |-> [k \in Keys |-> Absent]]
  /\ pending_list_pops = <<>>
  /\ pending_stream_reads = <<>>
  /\ aof = <<>>
  /\ frame = <<>>
  /\ executing = Idle
  /\ pc = "wait"
  /\ cursor = 1
  /\ checked_at = 0
  /\ waiting = {}
  /\ answer = NoAnswer

-----------------------------------------------------------------------------
(* Answers, persistence and replication *)

Answer(c, reply) ==
  /\ answer' = [client |-> c, reply |-> reply]
  /\ waiting' = waiting \ {c}

NoFrame == frame' = <<>> /\ UNCHANGED aof

(* A step that sets no promise, appends nothing and sends nothing. *)
Silent == answer' = NoAnswer /\ UNCHANGED waiting /\ NoFrame

(* The task is kept and its promise stays open. *)
Block(c) ==
  /\ waiting' = waiting \cup {c}
  /\ answer' = NoAnswer
  /\ NoFrame

(* AppendOnlyFile::append: a failed write leaves any part of the payload     *)
(* behind, a failed fsync all of it.                                         *)
append_outcomes(payload) ==
  {[ok |-> TRUE, file |-> aof \o payload]} \cup
  IF ~AofMayFail THEN {}
  ELSE {[ok |-> FALSE, file |-> aof \o SubSeq(payload, 1, n)] : n \in 0..Len(payload)}
       \cup {[ok |-> FALSE, file |-> Append(aof \o SubSeq(payload, 1, n), Torn)] :
                n \in 0..(Len(payload) - 1)}

(* A payload is appended to the file, then becomes a replication frame; a    *)
(* failure replaces the reply and stops the replication.                     *)
Propagate(c, payload, reply) ==
  IF payload = <<>>
  THEN Answer(c, reply) /\ NoFrame
  ELSE \E out \in IF AofEnabled THEN append_outcomes(payload) ELSE {[ok |-> TRUE, file |-> aof]} :
         /\ aof' = out.file
         /\ frame' = IF out.ok /\ Role = "master" /\ source(c) = "CLIENT"
                     THEN payload ELSE <<>>
         /\ Answer(c, IF out.ok THEN reply ELSE Error("MISCONF"))

AnswerOnly(c, reply) == Answer(c, reply) /\ NoFrame

(* Faulty variant: the pending commands expire without a last retry.          *)
StartRetries_expire_only ==
  pc' = "expire_pops" /\ cursor' = 1 /\ checked_at' = now /\ UNCHANGED executing

(* After the task, `run` retries and then expires the pending commands. *)
StartRetries == pc' = "pops" /\ cursor' = 1 /\ UNCHANGED <<executing, checked_at>>

-----------------------------------------------------------------------------
(* process_task *)

(* The worker takes the next command of session c.                           *)
Take(c, cmd) ==
  /\ pc = "wait"
  /\ c \notin waiting
  /\ is_write_command(cmd) \/ cmd.op = "EXEC" => db.next_revision < MaxRevision
  /\ cmd.op \in {"BLPOP", "XREAD"} => now + cmd.timeout <= MaxTime
  /\ cmd \in commands_of(c)

is_rejected(c, cmd) == Role = "replica" /\ source(c) = "CLIENT" /\ is_write_command(cmd)

RejectReplicaWrite(c, cmd) ==
  /\ Take(c, cmd)
  /\ is_rejected(c, cmd)
  /\ transactions' = IF transactions[c].open
                     THEN [transactions EXCEPT ![c].has_error = TRUE] ELSE transactions
  /\ AnswerOnly(c, Error("READONLY"))
  /\ StartRetries
  /\ UNCHANGED <<db, watched_keys, snapshot, now, scenario, pending>>

(* Faulty variant: the latest waiter is put first.                            *)
push_back_first(queue, request) == <<request>> \o queue

(* A blocked command joins the end of its queue. *)
push_back(queue, request) == Append(queue, request)

(* BLPOP and XREAD outside a transaction go to handlers of their own. *)
process_blpop(c, cmd) ==
  /\ Take(c, cmd) /\ ~is_rejected(c, cmd)
  /\ cmd.op = "BLPOP" /\ ~transactions[c].open
  /\ LET popped == pop_list_element(db, now, cmd.key)
     IN /\ db' = popped.db
        /\ \/ /\ popped.reply.kind = "bulk"
              /\ Propagate(c, <<[op |-> "LPOP", key |-> cmd.key, count |-> 0]>>,
                           Popped(cmd.key, popped.reply.value))
              /\ UNCHANGED pending_list_pops
           \/ /\ popped.reply.kind = "error"
              /\ AnswerOnly(c, WrongType)
              /\ UNCHANGED pending_list_pops
           \/ /\ popped.reply.kind = "nil"
              /\ pending_list_pops' =
                   push_back(pending_list_pops,
                             [client |-> c, key |-> cmd.key,
                              deadline |-> deadline_after(cmd.timeout)])
              /\ Block(c)
  /\ StartRetries
  /\ UNCHANGED <<transactions, watched_keys, snapshot, now, scenario, pending_stream_reads>>

process_xread(c, cmd) ==
  /\ Take(c, cmd)
  /\ cmd.op = "XREAD" /\ ~transactions[c].open
  /\ LET read == read_streams(db, now, cmd.requests)
     IN /\ db' = read.db
        /\ \/ /\ read.reply.kind # "nil" \/ cmd.mode = "immediate"
              /\ AnswerOnly(c, read.reply)
              /\ UNCHANGED pending_stream_reads
           \/ /\ read.reply.kind = "nil" /\ cmd.mode = "block"
              /\ pending_stream_reads' =
                   push_back(pending_stream_reads,
                             [client |-> c, requests |-> read.requests,
                              deadline |-> deadline_after(cmd.timeout)])
              /\ Block(c)
  /\ StartRetries
  /\ UNCHANGED <<transactions, watched_keys, snapshot, now, scenario, pending_list_pops>>

(* Any other command of the table outside a transaction. *)
ExecuteDirectly(c, cmd) ==
  /\ Take(c, cmd) /\ ~is_rejected(c, cmd)
  /\ ~is_control_command(cmd) /\ cmd.op \notin {"BLPOP", "XREAD"} /\ ~transactions[c].open
  /\ \E wall \in WallTimes :
       LET result == dispatch(db, now, wall, cmd)
       IN /\ db' = result.db
          /\ IF result.reply.kind = "abort"
             THEN /\ pc' = "terminated"
                  /\ Silent
                  /\ UNCHANGED <<executing, cursor, checked_at>>
             ELSE /\ Propagate(c, logged(cmd, result.reply), result.reply)
                  /\ StartRetries
  /\ UNCHANGED <<transactions, watched_keys, snapshot, now, scenario, pending>>

QueueCommand(c, cmd) ==
  /\ Take(c, cmd) /\ ~is_rejected(c, cmd)
  /\ ~is_control_command(cmd) /\ transactions[c].open
  /\ Len(transactions[c].commands) < MaxQueued
  /\ transactions' = [transactions EXCEPT ![c].commands = Append(@, cmd)]
  /\ AnswerOnly(c, Queued)
  /\ StartRetries
  /\ UNCHANGED <<db, watched_keys, snapshot, now, scenario, pending>>
-----------------------------------------------------------------------------
(* Transactions: the commands process_command handles before it looks at the *)
(* transaction of the client.                                                *)

Control(c, cmd, op) == Take(c, cmd) /\ cmd.op = op

Unwatched == [k \in Keys |-> NotWatched]
Unseen == [k \in Keys |-> Absent]

Watch(c, cmd) ==
  /\ Control(c, cmd, "WATCH")
  /\ IF transactions[c].open
     THEN AnswerOnly(c, Error("ERR")) /\ UNCHANGED <<db, watched_keys, snapshot>>
     ELSE LET new == {k \in Range(cmd.keys) : watched_keys[c][k] = NotWatched}
          IN /\ db' = find_active_entries(db, now, new)
             /\ watched_keys' = [watched_keys EXCEPT ![c] =
                                   [k \in Keys |-> IF k \in new THEN db'.revisions[k] ELSE @[k]]]
             /\ snapshot' = [snapshot EXCEPT ![c] =
                               [k \in Keys |-> IF k \in new THEN db'.entries[k] ELSE @[k]]]
             /\ AnswerOnly(c, Ok)
  /\ StartRetries
  /\ UNCHANGED <<transactions, now, scenario, pending>>

Forget(c) ==
  /\ watched_keys' = [watched_keys EXCEPT ![c] = Unwatched]
  /\ snapshot' = [snapshot EXCEPT ![c] = Unseen]

Unwatch(c, cmd) ==
  /\ Control(c, cmd, "UNWATCH")
  /\ Forget(c)
  /\ AnswerOnly(c, Ok)
  /\ StartRetries
  /\ UNCHANGED <<db, transactions, now, scenario, pending>>

Multi(c, cmd) ==
  /\ Control(c, cmd, "MULTI")
  /\ transactions' = [transactions EXCEPT ![c].open = TRUE]
  /\ AnswerOnly(c, IF transactions[c].open THEN Error("ERR") ELSE Ok)
  /\ StartRetries
  /\ UNCHANGED <<db, watched_keys, snapshot, now, scenario, pending>>

Discard(c, cmd) ==
  /\ Control(c, cmd, "DISCARD")
  /\ IF transactions[c].open
     THEN /\ transactions' = [transactions EXCEPT ![c] = NoTransaction]
          /\ Forget(c)
          /\ AnswerOnly(c, Ok)
     ELSE AnswerOnly(c, Error("ERR")) /\ UNCHANGED <<transactions, watched_keys, snapshot>>
  /\ StartRetries
  /\ UNCHANGED <<db, now, scenario, pending>>

(* Watched keys whose revision is no longer the one WATCH recorded. *)
changed_keys(c) ==
  {k \in Keys : watched_keys[c][k] # NotWatched
                /\ key_revision(db, now, k).revision # watched_keys[c][k]}

(* execute_transaction up to its loop.  The check stops at the first key that *)
(* changed, in the order of an unordered_map, and may evict that key.         *)
StartExec(c, cmd) ==
  /\ Control(c, cmd, "EXEC")
  /\ LET transaction == transactions[c]
         changed == changed_keys(c)
         runs == ~transaction.has_error /\ changed = {} /\ transaction.commands # <<>>
     IN IF ~transaction.open
        THEN /\ AnswerOnly(c, Error("ERR"))
             /\ StartRetries
             /\ UNCHANGED data
        ELSE /\ IF changed = {} THEN UNCHANGED db
                ELSE \E k \in changed : db' = find_active_entry(db, now, k)
             /\ transactions' = [transactions EXCEPT ![c] = NoTransaction]
             /\ Forget(c)
             /\ IF runs
                THEN /\ executing' = [client |-> c, commands |-> transaction.commands,
                                      payload |-> <<>>]
                     /\ pc' = "exec"
                     /\ Block(c)
                     /\ UNCHANGED <<cursor, checked_at>>
                ELSE /\ AnswerOnly(c, IF transaction.has_error THEN Error("EXECABORT")
                                    ELSE IF changed # {} THEN Nil ELSE Array(<<>>))
                     /\ StartRetries
  /\ UNCHANGED <<now, scenario, pending>>

(* One command of the transaction. *)
ExecCommand ==
  /\ pc = "exec" /\ executing.commands # <<>>
  /\ \E wall \in WallTimes :
       LET cmd == Head(executing.commands)
           result == dispatch(db, now, wall, cmd)
       IN /\ db' = result.db
          /\ pc' = IF result.reply.kind = "abort" THEN "terminated" ELSE "exec"
          /\ executing' = [executing EXCEPT
                             !.commands = Tail(@),
                             !.payload = @ \o logged(cmd, result.reply)]
  /\ Silent
  /\ UNCHANGED <<transactions, watched_keys, snapshot, now, scenario, pending, cursor, checked_at>>

(* Faulty variant: the writes of a transaction are logged without its bounds. *)
transaction_payload_bare(writes) == writes

(* The writes of a transaction are propagated together, in MULTI and EXEC. *)
transaction_payload(writes) ==
  IF writes = <<>> THEN <<>> ELSE <<MultiMark>> \o writes \o <<ExecMark>>

FinishExec ==
  /\ pc = "exec" /\ executing.commands = <<>>
  /\ Propagate(executing.client, transaction_payload(executing.payload), Executed)
  /\ executing' = Idle
  /\ pc' = "pops" /\ cursor' = 1
  /\ UNCHANGED <<data, now, scenario, pending, checked_at>>

-----------------------------------------------------------------------------
(* The queue after pending_commands.erase at position i. *)
erase(queue, i) == SubSeq(queue, 1, i - 1) \o SubSeq(queue, i + 1, Len(queue))

(* process_client_unregistration.  A connection unregisters when it is idle;  *)
(* at shutdown the server unregisters blocked clients, whose one pending      *)
(* command is cancelled.                                                      *)

positions(queue, c) == {i \in DOMAIN queue : queue[i].client = c}

(* Faulty variant: the pending command of a lost client is not cancelled.     *)
without_client_kept(queue, c) == queue

without_client(queue, c) ==
  IF positions(queue, c) = {} THEN queue
  ELSE erase(queue, CHOOSE i \in positions(queue, c) : TRUE)

unregister_client(c) ==
  /\ pc = "wait" /\ c \in Clients
  /\ pending_list_pops' = without_client(pending_list_pops, c)
  /\ pending_stream_reads' = without_client(pending_stream_reads, c)
  /\ transactions' = [transactions EXCEPT ![c] = NoTransaction]
  /\ Forget(c)
  /\ IF positions(pending_list_pops, c) \cup positions(pending_stream_reads, c) # {}
     THEN AnswerOnly(c, NoResponse) ELSE Silent
  /\ StartRetries
  /\ UNCHANGED <<db, now, scenario>>
-----------------------------------------------------------------------------
(* The loops `run` goes through after every task *)

(* The loop in which the worker is ends, and the next one begins. *)
EndLoop(queue, here, next) ==
  /\ pc = here
  /\ cursor > Len(queue)
  /\ pc' = next
  /\ cursor' = 1
  /\ checked_at' = IF next \in {"expire_pops", "expire_reads"} THEN now ELSE 0
  /\ Silent
  /\ UNCHANGED <<data, now, scenario, pending, executing>>

At(queue, here) == pc = here /\ cursor <= Len(queue)

Advance == cursor' = cursor + 1 /\ Silent

(* One iteration of retry_pending_list_pops. *)
retry_pending_list_pop ==
  /\ At(pending_list_pops, "pops")
  /\ LET request == pending_list_pops[cursor]
         popped == pop_list_element(db, now, request.key)
     IN /\ db' = popped.db
        /\ \/ /\ popped.reply.kind = "nil"
              /\ Advance
              /\ UNCHANGED pending_list_pops
           \/ /\ popped.reply.kind # "nil"
              /\ pending_list_pops' = erase(pending_list_pops, cursor)
              /\ IF popped.reply.kind = "error" THEN AnswerOnly(request.client, WrongType)
                 ELSE Propagate(request.client,
                                <<[op |-> "LPOP", key |-> request.key, count |-> 0]>>,
                                Popped(request.key, popped.reply.value))
              /\ UNCHANGED cursor
  /\ UNCHANGED <<transactions, watched_keys, snapshot, now, scenario, pending_stream_reads,
                 executing, pc, checked_at>>

(* One iteration of retry_pending_stream_reads. *)
retry_pending_stream_read ==
  /\ At(pending_stream_reads, "reads")
  /\ LET request == pending_stream_reads[cursor]
         read == read_streams(db, now, request.requests)
     IN /\ db' = read.db
        /\ \/ /\ read.reply.kind = "nil"
              /\ pending_stream_reads' =
                   [pending_stream_reads EXCEPT ![cursor].requests = read.requests]
              /\ Advance
           \/ /\ read.reply.kind # "nil"
              /\ pending_stream_reads' = erase(pending_stream_reads, cursor)
              /\ AnswerOnly(request.client, read.reply)
              /\ UNCHANGED cursor
  /\ UNCHANGED <<transactions, watched_keys, snapshot, now, scenario, pending_list_pops,
                 executing, pc, checked_at>>

(* One iteration of expire_pending_list_pops. *)
expire_pending_list_pop ==
  /\ At(pending_list_pops, "expire_pops")
  /\ IF is_due(pending_list_pops[cursor].deadline, checked_at)
     THEN /\ pending_list_pops' = erase(pending_list_pops, cursor)
          /\ AnswerOnly(pending_list_pops[cursor].client, Nil)
          /\ UNCHANGED cursor
     ELSE Advance /\ UNCHANGED pending_list_pops
  /\ UNCHANGED <<data, now, scenario, pending_stream_reads, executing, pc, checked_at>>

(* One iteration of expire_pending_stream_reads. *)
expire_pending_stream_read ==
  /\ At(pending_stream_reads, "expire_reads")
  /\ IF is_due(pending_stream_reads[cursor].deadline, checked_at)
     THEN /\ pending_stream_reads' = erase(pending_stream_reads, cursor)
          /\ AnswerOnly(pending_stream_reads[cursor].client, Nil)
          /\ UNCHANGED cursor
     ELSE Advance /\ UNCHANGED pending_stream_reads
  /\ UNCHANGED <<data, now, scenario, pending_list_pops, executing, pc, checked_at>>

(* Faulty variant: the deadlines of blocked reads are forgotten.              *)
deadlines_of_pops == {pending_list_pops[i].deadline : i \in DOMAIN pending_list_pops}

deadlines == {pending_list_pops[i].deadline : i \in DOMAIN pending_list_pops}
             \cup {pending_stream_reads[i].deadline : i \in DOMAIN pending_stream_reads}

(* wait_until returns without a task at the earliest deadline of a pending   *)
(* command, and only the expiry loops run.                                   *)
WakeAtDeadline ==
  /\ pc = "wait"
  /\ \E deadline \in deadlines : is_due(deadline, now)
  /\ pc' = "expire_pops" /\ cursor' = 1 /\ checked_at' = now
  /\ Silent
  /\ UNCHANGED <<data, now, scenario, pending, executing>>

Tick ==
  /\ now < MaxTime
  /\ now' = now + 1
  /\ Silent
  /\ UNCHANGED <<data, scenario, pending, control>>

-----------------------------------------------------------------------------
ProcessTask(c, cmd) ==
  \/ RejectReplicaWrite(c, cmd)
  \/ process_blpop(c, cmd)
  \/ process_xread(c, cmd)
  \/ ExecuteDirectly(c, cmd)
  \/ QueueCommand(c, cmd)
  \/ Watch(c, cmd)
  \/ Unwatch(c, cmd)
  \/ Multi(c, cmd)
  \/ Discard(c, cmd)
  \/ StartExec(c, cmd)

(* What the worker does once it has a task, without waiting for anyone. *)
Work ==
  \/ ExecCommand
  \/ FinishExec
  \/ retry_pending_list_pop
  \/ EndLoop(pending_list_pops, "pops", "reads")
  \/ retry_pending_stream_read
  \/ EndLoop(pending_stream_reads, "reads", "expire_pops")
  \/ expire_pending_list_pop
  \/ EndLoop(pending_list_pops, "expire_pops", "expire_reads")
  \/ expire_pending_stream_read
  \/ EndLoop(pending_stream_reads, "expire_reads", "wait")
  \/ WakeAtDeadline

Next ==
  \/ \E c \in Sessions : \E cmd \in commands_of(c) : ProcessTask(c, cmd)
  \/ \E c \in Clients : unregister_client(c)
  \/ Work
  \/ Tick

Spec == Init /\ [][Next]_vars

(* The worker thread keeps running and time passes; clients owe nothing. *)
FairSpec == Spec /\ WF_vars(Work) /\ WF_vars(Tick)
-----------------------------------------------------------------------------
(* Properties *)

PopRequest == [client: Sessions, key: Keys, deadline: Times]
ReadRequests == [client: Sessions, requests: Seq(ReadRequest), deadline: Times]

(* Every variable stays in the range its C++ type and the code give it. *)
TypeOK ==
  /\ db \in DatabaseType
  /\ now \in Nat
  /\ transactions \in [Sessions -> [open: BOOLEAN, commands: Seq(DataCommand), has_error: BOOLEAN]]
  /\ watched_keys \in [Sessions -> [Keys -> Nat \cup {NotWatched}]]
  /\ snapshot \in [Sessions -> [Keys -> Entry]]
  /\ pending_list_pops \in Seq(PopRequest)
  /\ pending_stream_reads \in Seq(ReadRequests)
  /\ executing \in [client: Sessions, commands: Seq(DataCommand), payload: Seq(DataCommand)]
  /\ pc \in {"wait", "exec", "pops", "reads", "expire_pops", "expire_reads", "terminated"}
  /\ cursor \in Nat \ {0}
  /\ checked_at \in Nat
  /\ waiting \subseteq Sessions

(* While the worker waits for a task, no pending BLPOP waits on a key that     *)
(* holds anything: whatever a task, a transaction or a served waiter left in   *)
(* the database has been offered to the waiters (retry_pending_list_pops).     *)
NoServableWaiter ==
  pc = "wait" =>
    \A i \in DOMAIN pending_list_pops : db.entries[pending_list_pops[i].key] = Absent

nothing_to_read(d, request) ==
  LET entry == d.entries[request.key]
  IN  /\ ~request.latest
      /\ entry.type \in {"none", "stream"}
      /\ entry.type = "stream" =>
           \A j \in DOMAIN entry.ids : ~id_less(request.after, entry.ids[j])

(* While the worker waits for a task, no stream a pending XREAD asked for has  *)
(* an entry after the position asked for (retry_pending_stream_reads), "$"     *)
(* being the position at the time of the XREAD.                                *)
NoMissedRead ==
  pc = "wait" =>
    \A i \in DOMAIN pending_stream_reads :
      \A j \in DOMAIN pending_stream_reads[i].requests :
        nothing_to_read(db, pending_stream_reads[i].requests[j])

(* A watched key whose revision is still the one WATCH recorded holds exactly  *)
(* the entry it held then: no path of the database changes an entry without a  *)
(* fresh revision (mark_key_modified).                                         *)
WatchSound ==
  \A c \in Sessions, k \in Keys :
    watched_keys[c][k] # NotWatched /\ db.revisions[k] = watched_keys[c][k]
      => db.entries[k] = snapshot[c][k]

SeesWatched ==
  pc = "wait" /\ pc' = "exec" =>
    \A k \in Keys : watched_keys[executing'.client][k] # NotWatched =>
      /\ db'.entries[k] = snapshot[executing'.client][k]
      /\ ~is_expired(db'.entries[k], now)

(* EXEC starts to execute commands only if every key the client watches holds  *)
(* what it held when the client watched it, and has not expired since.         *)
ExecSeesWatchedState == [][SeesWatched]_vars

clients_of(queue) == {queue[i].client : i \in DOMAIN queue}

one_each(queue) == \A i, j \in DOMAIN queue : queue[i].client = queue[j].client => i = j

(* Until an exception ends the process, a promise is open exactly while its    *)
(* command is pending or its transaction executes, and a session has one       *)
(* command in the processor: every command is answered, none twice (a second   *)
(* set_value would throw).                                                     *)
AnsweredOnce ==
  /\ one_each(pending_list_pops) /\ one_each(pending_stream_reads)
  /\ pc # "terminated" =>
       LET popping == clients_of(pending_list_pops)
           reading == clients_of(pending_stream_reads)
           running == IF pc = "exec" THEN {executing.client} ELSE {}
       IN  /\ waiting = popping \cup reading \cup running
           /\ popping \cap reading = {} /\ (popping \cup reading) \cap running = {}

(* Whoever was in the queue stays ahead of, and in the same order as before, whoever joins. *)
keeps_order(queue, new_queue) ==
  \A i, j \in DOMAIN new_queue : i < j =>
    \A n \in positions(queue, new_queue[j].client) :
      \E m \in positions(queue, new_queue[i].client) : m < n

ServesInOrder ==
  /\ keeps_order(pending_list_pops, pending_list_pops')
  /\ answer'.reply.kind = "popped" =>
       \A i \in DOMAIN pending_list_pops :
         pending_list_pops[i].key = answer'.reply.key =>
           \E j \in 1..i : pending_list_pops[j].client = answer'.client

(* Waiters for a key are served in the order in which they began to wait: a    *)
(* client that gets an element from a BLPOP never overtakes one that was       *)
(* waiting for the key, neither by asking later (process_blpop) nor in the     *)
(* retry loop, and no step changes the order of those who wait.                *)
ServedInOrder == [][ServesInOrder]_vars

timed_out(deadline) == deadline # Never /\ now >= deadline

GivesUpRight ==
  \A c \in Sessions :
    answer' = [client |-> c, reply |-> Nil] =>
      /\ \A i \in positions(pending_list_pops, c) :
           /\ timed_out(pending_list_pops[i].deadline)
           /\ db.entries[pending_list_pops[i].key] = Absent
      /\ \A i \in positions(pending_stream_reads, c) :
           /\ timed_out(pending_stream_reads[i].deadline)
           /\ \A j \in DOMAIN pending_stream_reads[i].requests :
                nothing_to_read(db, pending_stream_reads[i].requests[j])

(* A blocked command gives up only at or after its deadline, and only if there *)
(* is nothing for it: a push or an XADD that the worker processed before it    *)
(* noticed the deadline wins, because `run` retries before it expires.         *)
GivesUpOnlyWhenEmpty == [][GivesUpRight]_vars

(* Entries are well formed: ids of a stream strictly increase (what the binary *)
(* searches of XRANGE and XREAD rely on), and a list or a stream that became   *)
(* empty, or never got an entry, is not kept.                                  *)
EntriesWellFormed == \A k \in Keys : well_formed(db.entries[k])

ReadsOnly ==
  Role = "replica" =>
    \/ \E cmd \in commands_of(ReplicationClient) : ProcessTask(ReplicationClient, cmd)
    \/ pc = "exec" /\ executing.client = ReplicationClient
    \/ /\ At(pending_list_pops, "pops")
       /\ pending_list_pops[cursor].client = ReplicationClient
    \/ \A k \in Keys : \/ db'.entries[k] = db.entries[k]
                       \/ is_expired(db.entries[k], now) /\ db'.entries[k] = Absent

(* On a replica only the commands of the master change the database: a task of *)
(* its session, a command of its transaction, or its pending BLPOP.  Whatever  *)
(* clients ask for, at most finds that a key has expired.                      *)
ReplicaReadOnly == [][ReadsOnly]_vars

(* A blocked command with a timeout is answered: with data, or when the        *)
(* deadline passes and the worker wakes (next_pending_deadline).               *)
TimeoutAnswered ==
  \A c \in Clients :
    (\/ \E i \in positions(pending_list_pops, c) : pending_list_pops[i].deadline # Never
     \/ \E i \in positions(pending_stream_reads, c) : pending_stream_reads[i].deadline # Never)
    ~> (c \notin waiting)

-----------------------------------------------------------------------------
(* The inductive invariant *)

(* A recorded revision has been handed out, so no later change can reuse it. *)
WatchInv ==
  \A c \in Sessions, k \in Keys :
    watched_keys[c][k] # NotWatched =>
      /\ watched_keys[c][k] < db.next_revision
      /\ db.revisions[k] = watched_keys[c][k] => db.entries[k] = snapshot[c][k]

(* The waiters the retry loop has passed found nothing, and nothing has been *)
(* stored since: only process_task and ExecCommand store, before the loop.   *)
WaitersOffered ==
  \A i \in DOMAIN pending_list_pops :
    pc \in {"reads", "expire_pops", "expire_reads", "wait"} \/ (pc = "pops" /\ i < cursor)
      => db.entries[pending_list_pops[i].key] = Absent

IInv == TypeOK /\ Good(db) /\ WatchInv /\ WaitersOffered
=============================================================================
