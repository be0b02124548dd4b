# A TLA+ model of the C++23 Redis clone

The modules in this directory model the server in `src/`: its database and
commands, the worker that executes them and its task queue, the append-only file
and the RDB loader, Pub/Sub, replication with `WAIT`, authentication, the RESP
protocol, and the threads of the process from start to shutdown. TLC checks the
models on small instances; TLAPS proves the most important properties for every
instance. `PROJECT.json` maps each definition to the lines it models and lists
the runs, the findings, the hazards and the theorems.

## The system

| Part | Source | Threads and shared state | Modules |
| --- | --- | --- | --- |
| Database | `database.cpp` | one map of typed entries with lazy expiry and a revision per key; only the worker touches it | `Database` |
| Command handlers | `commands.cpp`, `rlist.cpp`, `rstream.cpp`, command table in `command_processor.cpp` | functions of the database and a command | `Commands` |
| Command processor | `command_processor.cpp` | one worker thread: transactions, watched keys, pending blocking commands, subscriptions, replica sessions, clients | `CommandProcessor`, `PubSub`, `Replication`, `Acl` |
| Task queue | `command_processor.cpp` | a queue, a mutex, a condition variable and a stop token shared by the worker and all other threads | `TaskQueue`, `SerialExecutor` |
| Append-only file | `aof.cpp` | written by the worker after a successful write, replayed at startup | `AofFile`, `AofReplay` |
| Pub/Sub sessions | `pubsub.cpp` | a frame queue and an eventfd shared by the worker and one connection | `PubSub` |
| Replication | `replication.cpp`, `server.cpp` | a frame queue and a sender thread per replica on the master; on a replica a thread that applies the stream of the master | `Replication` |
| RDB | `rdb.cpp` | read at startup, before there are clients | `Rdb` |
| RESP | `resp.cpp` | parsing and serialisation, with a receive buffer per connection | `Resp` |
| Server | `server.cpp`, `main.cpp` | accept loop, a thread per connection, replication thread, signal thread, `stop` | `Shutdown` |
| ACL | `acl.hpp`, `command_processor.cpp` | the default user and a flag per client | `Acl` |
| Configuration, time | `server_config.cpp`, `utils/` | sequential helpers | none |

A connection submits one command and waits for its promise, so at most one
command per client is in the processor. The worker takes a task, executes it,
then walks its pending queues: it retries the blocked commands, then expires
those whose deadline has passed, and sleeps until the next task or deadline.

The modules fit together through `SerialExecutor`: tasks are executed one at a
time, in the order of submission, each promise is set at most once and each task
is taken in the end. `TaskQueue` shows that the mutex, the condition variable
and the loop of `run` implement it. `CommandProcessor`, `PubSub`, `Replication`,
`Acl` and `Shutdown` each take it for granted and model a task as one step, or as
a few steps of one thread. `TaskQueue` in turn assumes that the processor is
destroyed after the threads that use it; `Shutdown` shows that it is.

## Modules

**`Database`** has one operator per member function of `Database`. An operator
takes the database and the clocks it reads, and returns the database it leaves
behind with the answer. An entry is absent, a string with an optional expiry, a
list, or a stream; a stream is the sequence of its ids. Integers and ids have a
bounded range with the wrap-around or undefined overflow of the code. The
revision counter and the eviction inside `find_active_entry` are kept exactly.

**`Commands`** has the parsed commands, `dispatch`, the set of writes,
`write_modified_database` and `normalize_replication_command`. A command whose
arguments a handler refuses is one malformed command: an error and no effect.

**`CommandProcessor`** is the worker. Its variables are the members of the class
(`db`, `transactions`, `watched_keys`, the two pending queues), the commands in
the append-only file (`aof`), the last replication frame (`frame`), and the
position of the worker in `run` (`pc`, `cursor`, `checked_at`, `executing`).
`waiting` and `answer` stand for the promises. `snapshot` is a history variable:
the entry a client saw when it watched a key. `scenario`, chosen in `Init` and
never changed, says how the server was started (master or replica, with or
without an append-only file, which may fail) and what each session submits.

| Action | Code |
| --- | --- |
| `RejectReplicaWrite`, `process_blpop`, `process_xread`, `ExecuteDirectly` | `process_task` and the handlers it calls |
| `QueueCommand`, `Watch`, `Unwatch`, `Multi`, `Discard` | `process_command` |
| `StartExec`, `ExecCommand`, `FinishExec` | `execute_transaction`: checks, one command per step, propagation |
| `retry_pending_list_pop`, `retry_pending_stream_read`, `expire_pending_list_pop`, `expire_pending_stream_read`, `EndLoop` | one iteration, or the end, of the loops of `run` |
| `WakeAtDeadline` | `wait_until` returns without a task |
| `unregister_client` | `process_client_unregistration` |
| `Tick` | the steady clock advances, between any two steps |

Each iteration of a loop and each command of an `EXEC` is a step of its own,
because each reads the clock again. Within a step the clock is read once. The
code reads it again for every key in three places: the watched keys that `EXEC`
checks, the keys of `WATCH`, and the streams of a read. There a key that expires
between two readings is seen by the model only before or after the whole loop.
Loops over an `unordered_map` choose their order nondeterministically where the
order matters (the key at which `EXEC` stops).

**`AofReplay`** extends the worker with what a restart would load from the file:
`process_aof_initialization` folds the replay of one command over the file. A
crash may happen between any two steps, so the file is judged in every state.

**`AofFile`** is the file on disk and the process that writes it. A payload has
`Parts` pieces, the units in which `write` may be cut short; `log` holds the
pieces in the file and `durable` says how many of them are sure to survive a
power failure. `policy`, chosen in `Init`, is the fsync policy. `acknowledged` and
`recent` are history: which writes clients were told of, and when; `failed` holds
the writes whose append failed while writing. `append` never truncates, so a payload it cut
short stays in the file and others follow it. The parser then takes bytes of the
later payloads for the missing ones: a start refuses such a file, or misreads it,
and then any of the writes from the cut on may be missing (`cuts`, `misread`).

| Action | Code |
| --- | --- |
| `open_manifest`, `create_manifest`, `open`, `read_commands` | `AppendOnlyFile::open`, `create_manifest`, `read_commands` and `process_aof_initialization`; each may refuse |
| `execute`, `write`, `written`, `sync` | a write in the worker and the steps of `append` and `sync`; each may fail and then the client is told `MISCONF` |
| `kill`, `lose_power` | the process dies; the machine loses what was not fsynced, from some point on |

`fsync` of the file makes its name durable, as on the usual file systems, and an
`fsync` that failed may be tried again. `LossWindow` speaks of one process: a
restart resets `_last_sync`. Its times are the clock readings of `append`; the
answer reaches the client later.

**`TaskQueue`** is the hand-over of tasks. A wait is two steps, the test of the
predicate with the mutex held and the sleep, because a notification between the
two reaches nobody. Tasks set their promise or are kept, with or without a
deadline. `Executor == INSTANCE SerialExecutor WITH queue <- tasks` is the
refinement: `tasks`, `current` and `open` are the abstract state.

| Action | Code |
| --- | --- |
| `push`, `notify_one`, `get` | `enqueue` and its siblings, `future.get()` in a connection thread or in `stop` |
| `lock`, `test`, `sleep`, `wake`, `wake_spuriously`, `time_out`, `elapse` | `wait` and `wait_until` on `_task_available` |
| `take`, `process`, `serve`, `end_retries`, `expire`, `end_expiry` | the loop of `run` |
| `request_stop`, `notify_all`, `join` | `~CommandProcessor` |

**`SerialExecutor`** is the abstract specification described above: `Submit`,
`Take`, `SetPromise`, `Finish`, and fairness of `Take`.

**`PubSub`** is the worker, the connection threads and the session they share,
for the part of the code that speaks of subscriptions; the database is left out.
The worker is at `current`, with `recipients` still to be given `frame` and
`holding` the mutex of a session. A connection is at `conn[c].pc`, its promise is
`response[c]`; `pending_frames` and `notified` are the queue and the eventfd of a
session. `owed` and `sent` are history: what the worker produced for a client, and
what the last step wrote to a socket.

| Action | Code |
| --- | --- |
| `process_client_registration`, `process_client_unregistration`, `subscribe`, `unsubscribe`, `publish` | the functions of that name |
| `RefuseWhileSubscribed`, `AnswerPlain`, `Complete` | `process_task`: the gate, the answer by frame or by promise, the promise |
| `EnqueueFrame`, `Notify` | `enqueue` up to, and from, the write to the eventfd |
| `Register`, `Registered`, `Poll`, `Submit`, `Incomplete`, `Answered`, `Disconnect`, `Close` | `handle_connection` |
| `clear_notification`, `pop_frame` | the functions of that name, `pop_frame` with the send that follows |

The eventfd has no mutex, so `clear_notification` may fall between
`EnqueueFrame` and `Notify`; `pop_frame` may not. A write to an eventfd is taken
to fail only with `EAGAIN` or `EINTR`.

**`Replication`** composes a master, the sender and connection threads of each
replica, the sockets, and the replica servers. A command in a stream has a kind
and a length; a broken connection loses what is in flight, possibly in the
middle of a frame. A replica that comes back counts as another one, because the
server keeps no history to resume from. `effective`, `last_write` and `ends` of a
command are history; `id` is the number of its write, or of the last write before
it, and stands for its content.

| Action | Code |
| --- | --- |
| `write`, `process_wait`, `register_replica`, `acknowledge_replica`, `unregister_replica`, `unregister_client` | the tasks of the master's worker, with `append_replication_frame` and the start of the retry loop |
| `retry_pending_wait`, `expire_pending_wait`, `end_retries`, `wake_at_deadline`, `elapse` | the loops of `run` over `_pending_waits`, one judgement per step, and the deadlines |
| `send_full_resync`, `send_replication_frame`, `end_replica_connection` | `handle_replica_connection` and the sender thread |
| `perform_replication_handshake`, `install_replication_state`, `apply_replication`, `end_replication` | the replication thread of a replica |
| `break_connection` | either side loses the connection |

A command that the replica's processor answers with an error ends the replication
thread. `failed` has the states it may leave: nothing done; a write done and
counted, which the replica's own append-only file refused; or a transaction of which
this is so, done and not counted.

**`Shutdown`** is a process from `main` to the end of `~TcpServer`: the main
thread with its set-up, accept loop and destructors, the signal thread, the
replication thread, the connection threads, and `stop`, which the main and the
signal thread may both execute. `stop_mutex` and `connections_mutex` are the locks
of the code, `socket` and `master` the descriptors, `queue`, `ready`, `blocked` and
`clients` what matters of the processor.

| Action | Code |
| --- | --- |
| `initialize_persistence` … `run`, `poll_times_out`, `accept`, `start_connection`, `reap_completed_connections`, `end_loop` | set-up and `TcpServer::run` |
| `register` … `finish` | `handle_connection` and `handle_replica_connection`, one step per blocking call |
| `lock` … `unlock` | the phases of `TcpServer::stop`, one worker per step where it loops |
| `receive_signal`, `wait_fails`, `end_wait`, `return_from_stop` | the signal thread of `main` |
| `leave_main`, `close_descriptors`, `destroy_…` | the end of `run` and the destructors |
| `terminate` | `SIGPIPE` from a socket the server itself has shut down |

How the processor itself is destroyed is the subject of `TaskQueue`. Here
`destroy_processor` ends or is stuck for ever, since `~CommandProcessor` may miss the
sleeping worker.

**`Resp`** has `parse_command`, `serialize_command` and `serialize_response` byte by
byte, and the receive loop of a connection, which gets what was sent in any
cuts. A reference reader (`read_reply`, `meaning`) reads the answers as a client
would, and reports a protocol error where they make no sense. The framing is the
subject, so bytes are not abstracted. `SizeMax` stands for the largest `size_t`.

**`Rdb`** has the parser of `rdb.cpp` byte by byte and the load task. `written` is
the encoder of the program that saved the file (external), which may use every
form the parser accepts. A file that cannot be opened, sized or read is
`unreadable`. Times stay below 2^31, so the high bytes of 64-bit
numbers are zero; `RepMax` and `NanosPerMilli` stand for the range of the
nanosecond clock.

**`Acl`** has the default user, the flag of each client, the gate of
`process_task`, `AUTH` and `ACL SETUSER`. A password stands for its hash, and
hashing may fail.

**`MCCommandProcessor`**, **`MCAofReplay`**, **`MCPubSub`**, **`MCTaskQueue`**,
**`MCReplication`**, **`MCShutdown`**, **`MCResp`**, **`MCRdb`** and
**`MCAcl`** hold the scenarios, inputs and symmetries of the runs.

The operators marked *faulty variant* are not part of the model. Each is a
plausible bug in the definition that follows it, and shows that the property
named with it in `PROJECT.json` depends on that definition.

## Runs

| Run | Checks | Instance |
| --- | --- | --- |
| `Worker` | `TypeOK`, `WatchSound`, `ExecSeesWatchedState`, `NoServableWaiter`, `NoMissedRead`, `AnsweredOnce`, `ServedInOrder`, `GivesUpOnlyWhenEmpty`, `EntriesWellFormed`, `ReplicaReadOnly`, `TimeoutAnswered` | four scenarios: transactions raced by writes and expiry; three clients blocked on one list; blocked stream readers under a system clock that jumps back; a replica with a master |
| `Persistence` | `RecoversEntries`, `AllOrNothing` | three scenarios: every kind of lasting write; a replica; appends that fail after any part |
| `ReplayExpired` | `ReplayAccepted` is violated | a key that expires and becomes a list |
| `PubSub` | `SubscriptionsAgree`, `NoLostWakeup`, `DeliveredInOrder`, `FramesSent` | 2 connections, 2 channels, 3 commands |
| `TaskQueue` | `NoLostWakeup`, `NothingLeftBehind`, `OpenTasksKnown`, `ExecutorSpec`, `TimedAnswered` | a connection and the stopping thread, each in two rounds |
| `Replication` | `TypeOK`, `OffsetsAgree`, `ExecutesPrefix`, `AcknowledgesExecuted`, `WaitCountsExecuted` | 2 clients, 1 replica, 3 writes, one `GETACK` |
| `Wait` | `WaitAnswered` | 1 client, 1 replica, requests for one or two replicas with and without a timeout |
| `AofFile` | `AcknowledgedKept`, `LossWindow` | the three policies, payloads in two pieces, 3 writes, 2 crashes, failing disk |
| `Shutdown` | `ProcessorOutlivesThreads`, `NothingRegistered`, `StopReachesProcessor` | a replica with one connection |
| `Resp` | `FramedExactly`, `RepliesReadable` | up to two commands with tricky arguments, 14 tails, answers of every type, errors with line breaks |
| `RdbLoad` | `WholeFileOrNone`, `Restored` | files of two records in every encoding, cut after any byte, expirations up to and beyond the range of the clock |
| `Authentication` | `SubscribersAuthenticated`, `SessionKept`, `SetUserAllOrNothing` | 2 clients, 3 passwords, lists of up to 3 rules |

What they show:

- While the worker sleeps no client waits beside its data, for lists and for
  streams; a client gives up only after its deadline and with nothing to take;
  waiters of a key are served first come, first served; every promise is set
  once; a timeout is always answered.
- A transaction starts only if every watched key is as its client saw it,
  expiry included. During the transaction a watched key may still expire,
  because each command reads the clock again.
- Without lifetimes and failures the file always rebuilds the worker's entries.
  An append that fails part-way can make the file unusable, but as long as no
  command before was cut short, it never makes a restart load half a
  transaction. A server that serves has every write that its policy promised to
  keep: after a kill all acknowledged ones, after a power failure those of
  `always`. The exception is a write whose payload follows one that a failed append
  cut short: it is in the file, but a start may misread it. `everysec` risks the
  second before the latest acknowledgement of a process.
- The queue, the mutex and the condition variable implement `SerialExecutor`
  with its fairness; no wake-up of the worker is lost while the processor lives.
- The subscription maps agree and hold registered clients only. A connection
  never sleeps beside a frame, and every frame is sent or its connection ends.
  Answers and messages reach a client in the order the worker produced them,
  although some come by promise and some by frame.
- A replica executes a prefix of the master's writes in order, transactions
  whole, whenever it registers and wherever its connection breaks. It
  acknowledges only what it has executed, and `WAIT` counts a replica only if it
  has every write of the waiting client that came after its registration.
- No thread outlives its use of the processor, no ended connection stays
  registered although two threads unregister it, and a stop that begins after
  `run` has started the replication thread brings the main thread to the
  destruction of the processor, unless `SIGPIPE` kills the process before.
- The processor gets exactly the commands that arrived whole, in any cut of the
  bytes. Pipelined answers are read back as what was answered if, and only if,
  no simple string or error among them holds a line break.
- An RDB file is loaded whole or refused; the live records have their values,
  and the expirations that the steady clock can hold.
- A subscribed client is authenticated. A session begins only with an `AUTH` that
  was answered `OK`, or with the connection, and lasts as long as that: changes of
  the user neither end nor begin one. `ACL SETUSER` applies all of its rules or none.

### Bounds

The worker is bounded in the guards of `Take`, `QueueCommand` and `Tick`:
`MaxTime` (1 or 2, and 0 where nothing expires) lets a lifetime or a timeout of one unit pass, before and
after other commands; `MaxRevision` (3 or 4) bounds the writes to two or three,
enough to push, serve and push again, or to wrap a sequence number; `MaxQueued`
(1 or 2) bounds a transaction. The commands of a scenario are few, but each
handler occurs in one. In `PubSub`, `MaxCommands` = 3 lets two subscriptions meet a
publish. In `TaskQueue`, `MaxRounds` = 2 lets a thread submit while its earlier
task is kept. In `Replication`, `MaxWrites` = 3 is a direct write and a transaction
of two, and one `GETACK` suffices because it follows every write of its client in the
stream; `Wait` has two, for a second `WAIT`. In `AofFile`, two pieces are the least that can be torn, `Second` = 2
within `MaxTime` = 3 puts an acknowledgement before, at and after a sync, and two
crashes let a restarted process crash again. In `Shutdown` one connection meets the
two threads that may call `stop`; the proofs cover any number. In `Resp` and
`RdbLoad` the inputs hold the bytes of the framing itself. Clients are a symmetry set in
`Replication` and `Authentication`, which check no liveness.

### Fairness

Threads that can run do; clients, masters, signals and crashes need not come.

- `CommandProcessor`: the worker takes its steps (`WF(Work)`) and time passes
  (`WF(Tick)`). The worker never waits for a client, and `wait_until` returns at
  a deadline.
- `PubSub`: the worker and each connection thread run; `send` to a client that
  reads its socket returns, and one that is gone makes it fail.
- `TaskQueue`: a thread that has pushed notifies and waits, the worker and the
  destructor run, and deadlines pass. Weak fairness is enough for the mutex: a
  thread holds it for one push at a time.
- `Replication`: the loops of the worker, the threads and the replica run, and time
  passes. The tasks of a connection thread have strong fairness: they are
  enabled whenever the worker is between two tasks, and the queue is served in
  order, which is what `SerialExecutor` promises.
- `Shutdown`: each thread of the process runs.

Deadlock is not checked where the system may stop: all clients gone, the process
ended, or the file read.

## Proofs

All proofs hold for any number of keys, clients, commands, threads, connections
and writes, and for all bounds, from the assumptions named in the modules.

The worker is proved in three modules. `ProcessorInvariantProofs` states the laws
the processor needs of the database (`DatabaseLaws`) and shows, from them, that
every action keeps an inductive invariant `IInv`:

- `TypeOK` and `Good(db)` (typed; every revision below the next one; entries well
  formed);
- `WatchInv`: a recorded revision is below the next one, and if it is still the
  key's revision, the entry is the snapshot. This is `WatchSound` strengthened
  by the bound, without which a fresh revision could equal a recorded one;
- `WaitersOffered`: every pending pop that the worker has passed in its retry
  loop, or any of them once the loop is over, waits on an absent key. This is
  `NoServableWaiter` made inductive over the positions of the loop. It needs
  `Good(db)`: a popped-out list is not kept, and eviction only removes entries.

`ProcessorProofs` shows, given `IInv`, what a step does to promises, pending
commands and data. Three further invariants are needed: `AnsweredOnce` itself;
`ReadsOffered` (the reads that the retry loop has passed found nothing, nothing has
been stored since, and the clock reading of an expiry loop is not in the future);
and `OnlyMasterWrites` (on a replica no client has a pending pop, nor a write in its
transaction).

`CommandProcessorProofs` proves `DatabaseLaws`, with one lemma per operation of the
database: `dispatch`, for any command, keeps a database good and gives every key
whose entry changes a revision no one has seen (`DispatchStep`). The assumptions are
those of `Database`: finitely many keys, an integer range around zero, texts that
are not integers. With the laws proved, the theorems follow: `TypeCorrect`,
`WatchIsSound`, `NoWaiterMissed` and `WellFormedEntries` from `IInv`; `ExecIsOptimistic`
for the step that begins an `EXEC`; `EveryCommandAnsweredOnce`; `WaitersServedInOrder`,
from `WaitersOffered` and because a client waits once; `NoReadMissed` and
`GivesUpRightly`, from `ReadsOffered`; `ReplicaIsReadOnly`, from `OnlyMasterWrites`.
That covers every safety property of the run `Worker`.

`PubSubProofs` proves `PInv`: `TypeOK`, `SubscriptionsAgree`, `FrameReady` (a frame
exists while someone is to get it) and `WakeupPending`. The last is `NoLostWakeup`
at every place of a connection except `drain`, which it leaves only on an empty
queue, and the places after the disconnect. `MapsAgree` and `WakeupNotLost` follow.
`SentInOrder` (`DeliveredInOrder`) needs more, the invariant `DInv`: a connection has
at most one task, which is queued, executed or answered; frames go to
subscribers or are the answer of the client itself; a client without
subscriptions has no frames but an acknowledgement on its way, and only such a
client is answered by promise. Hence what a client is owed is the content of its
queue, or one answer, and never both.

`TaskQueueProofs` proves `TypeOK`, `NoLostWakeup`, `Places` (an open task is in
exactly one place: the queue, the worker's hand, or kept), `InHand` (when the
worker has one) and `Joined` (the destructor runs when nothing is open). From
them follow `NoLostWakeupAlways`, `OpenTasksKnownAlways`, `NothingLeftBehindAlways`
and `ImplementsExecutor`: every step of the queue is a step of `SerialExecutor` or
leaves it unchanged. Its fairness is checked by TLC.

`AofFileProofs` proves `TypeOK`, `Appending` (what `append` still has to write ends
the payload of the current write), `CutsFailed` (the first payload that others
follow although it was cut short is one whose append failed), `Kept` (an acknowledged
write is in the file until power fails, and among what survives it if the policy is
`always`; a serving process has it or is behind such a cut) and `Window` (an
acknowledgement that is not synced is no older than the last sync and less than
a second younger). `CutsFailed` is needed where a start misreads a file: it makes the
first cut one of a failed append, and what comes before it is loaded. It holds because
a start refuses a file that ends inside a payload, so that only a process whose own
append failed goes on behind one, or one that misread a file with an earlier cut.
`AcknowledgedKeptAlways` and `LossWindowAlways` follow.

`ShutdownProofs` proves `Control` (who is in `stop`, which threads run), `Promises`
(a waiting thread has exactly one task queued, one pending command or one
answer) and `Registration` (where a client may be registered).
`ProcessorOutlivesThreadsAlways` and `NothingRegisteredAlways` follow. The former is
the premise under which `TaskQueue` lets the destructor of the processor begin.

Only model-checked: all liveness, with the fairness of the refinement (out of
the prover's reach); `RecoversEntries` and `AllOrNothing` (replay is a fold over the
file, which needs induction over data); `Resp` and `Rdb` (recursive parsers, the
same); `Acl`, whose `SetUserAllOrNothing` is about a fold over the rules; and all of
`Replication`, with one replica.

## Behaviour the models show

Reading the code for the models brought up behaviour that a maintainer may want
to know. The first has a run of its own; for the others the models have the steps
and the properties are stated so that they hold beside them.

- Eviction is not logged, so a write that relied on it can make replay fail
  (`ReplayExpired`; `database.cpp:40`, against `src/README.md:119`).
- `UNWATCH` takes effect inside `MULTI` instead of being queued
  (`command_processor.cpp:626`, against `src/README.md:53`).
- `~CommandProcessor` requests the stop and notifies without the mutex. Between the
  test of the predicate and the sleep of the worker both are missed, and `join`
  waits for ever (`command_processor.cpp:292`). `StopReachesProcessor` ends before that
  join.
- A signal may call `stop` before the replication thread exists. That `stop`
  asks nobody to stop, yet joins the thread if it exists by then, and waits for
  the master to close the connection (`server.cpp:77`).
- `stop` shuts the sockets of busy connections down; an answer that is sent after
  that raises `SIGPIPE`, which ends the process (`server.cpp:844`).
- With `everysec` the file is synced by the next append only: an idle server does
  not sync its last writes (`aof.cpp:308`).
- A crash between the creation of the manifest and its flush leaves a manifest
  that later starts refuse (`aof.cpp:116`).
- Between two commands of an `EXEC` a watched key may expire
  (`command_processor.cpp:773`).
- An expiry in an RDB file that is further away than the steady clock can hold
  overflows (`database.cpp:53`). `Restored` says nothing of such an expiration.
- After an append that failed part-way the server goes on writing behind the cut
  payload, and tells clients that these writes succeeded. A later start refuses
  the file or may miss them (`aof.cpp:289`).
- Errors repeat bytes of the client, and `append_value` escapes nothing: one that
  holds a line break is not read back as one reply (`resp.cpp:55`).
- `WAIT` counts a replica that registered after a write of the client. A resync
  sends no data, so the replica does not have that write; `WaitCountsExecuted`
  leaves writes from before the registration out.

## Not modelled

- `server_config.cpp`, `main`'s arguments, and the parsing of times: sequential code
  that runs before any thread; its results are constants and fields.
- `INFO`, `CONFIG GET`, `KEYS` patterns, `ECHO`, `PING`, `ACL WHOAMI` and `ACL GETUSER`:
  no effect on modelled state. Argument syntax and the wording of answers are
  abstracted; so are the fields of stream entries.
- SHA-256 (a library); a password stands for its hash.
- `SIGPIPE` for a peer that is gone: except in `Shutdown`, the models follow the
  error path of `send_bytes`, as if the signal were ignored.
- Single-line replies of the replication handshake byte by byte.
- What a command that was put together from two payloads does to the database: a
  misread file may also load a value no client wrote. The properties speak of
  what is missing.
- The overflow check of `INCR` has no property of its own: `Persistence` shows only
  that replay stores what the worker stored.

Work that remains: proofs of the invariants of `Replication`, and of
`SubscribersAuthenticated` and `SessionKept` of `Acl`.
