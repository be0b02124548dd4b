----------------------------- MODULE TaskQueue ------------------------------
(***************************************************************************)
(* How the threads of the server hand tasks to the worker of the           *)
(* CommandProcessor, and how the destructor stops it: _tasks, _task_mutex, *)
(* the condition variable _task_available, the loop of `run` around        *)
(* wait/wait_until, and the stop token.  What a task does is the subject   *)
(* of CommandProcessor; here it sets its promise or is kept for later,     *)
(* with or without a deadline.                                             *)
(*                                                                         *)
(* A wait is two steps: the worker tests the predicate with the mutex      *)
(* held, and only then joins the waiters of the condition variable and     *)
(* releases the mutex.  A notification between the two reaches nobody.     *)
(***************************************************************************)
EXTENDS Naturals, Sequences

CONSTANTS
  Threads,   \* threads that submit tasks
  Burst,     \* tasks a thread submits before it waits for their futures
  MaxRounds  \* bound: how often a thread submits a burst

ASSUME QueueAssumption ==
  /\ Burst \in [Threads -> Nat \ {0}]
  /\ MaxRounds \in Nat

VARIABLES
  tasks,      \* _tasks
  thread,     \* where each thread is in `enqueue` or one of its siblings
  sent,       \* how many tasks each thread has pushed
  open,       \* tasks whose promise is not set
  worker,     \* where the worker is in `run`
  notified,   \* a notification has reached the sleeping worker
  current,    \* the task `run` has popped, or NoTask
  timed,      \* kept tasks with a deadline
  untimed,    \* kept tasks without one
  due,        \* kept tasks whose deadline has passed
  expiring,   \* due tasks the expiry loop has still to answer
  stop,       \* the stop token of _worker
  destructor  \* where ~CommandProcessor is

submitters == <<thread, sent>>
kept == <<timed, untimed, due, expiring>>
shutdown == <<stop, destructor>>
vars == <<tasks, submitters, open, worker, notified, current, kept, shutdown>>

MaxTasks(s) == MaxRounds * Burst[s]
Task == UNION {{s} \X (1..MaxTasks(s)) : s \in Threads}
NoTask == <<>>
Queued == {tasks[i] : i \in DOMAIN tasks}
Pending == timed \cup untimed

Init ==
  /\ tasks = <<>>
  /\ thread = [s \in Threads |-> "idle"]
  /\ sent = [s \in Threads |-> 0]
  /\ open = {}
  /\ worker = "lock"
  /\ notified = FALSE
  /\ current = NoTask
  /\ timed = {} /\ untimed = {} /\ due = {} /\ expiring = {}
  /\ stop = FALSE
  /\ destructor = "idle"

-----------------------------------------------------------------------------
(* The mutex is held for one step by a thread that pushes, and by the worker *)
(* from the test of the predicate until it sleeps or has popped a task.      *)
MutexFree == worker \notin {"test", "sleep", "take"}

OpenOf(s) == {t \in open : t[1] = s}

(* Faulty variant: the task is pushed without the mutex.                     *)
push_unlocked(s) ==
  /\ thread[s] = "idle" /\ sent[s] < MaxTasks(s) /\ destructor = "idle"
  /\ sent' = [sent EXCEPT ![s] = @ + 1]
  /\ tasks' = Append(tasks, <<s, sent'[s]>>)
  /\ open' = open \cup {<<s, sent'[s]>>}
  /\ thread' = [thread EXCEPT ![s] = "notify"]
  /\ UNCHANGED <<worker, notified, current, kept, shutdown>>

(* The critical section of `enqueue` and of the other submitting functions. *)
push(s) ==
  /\ thread[s] = "idle" /\ sent[s] < MaxTasks(s) /\ destructor = "idle"
  /\ MutexFree
  /\ sent' = [sent EXCEPT ![s] = @ + 1]
  /\ tasks' = Append(tasks, <<s, sent'[s]>>)
  /\ open' = open \cup {<<s, sent'[s]>>}
  /\ thread' = [thread EXCEPT ![s] = "notify"]
  /\ UNCHANGED <<worker, notified, current, kept, shutdown>>

(* A notification counts for a worker that is asleep at that moment. *)
WakeWorker == notified' = (notified \/ worker = "asleep")

(* notify_one, after the mutex was released; then the next task of the burst *)
(* or the futures of all of them.                                            *)
notify_one(s) ==
  /\ thread[s] = "notify"
  /\ WakeWorker
  /\ thread' = [thread EXCEPT ![s] = IF sent[s] % Burst[s] = 0 THEN "get" ELSE "idle"]
  /\ UNCHANGED <<tasks, sent, open, worker, current, kept, shutdown>>

(* future.get() of every task of the burst. *)
get(s) ==
  /\ thread[s] = "get" /\ OpenOf(s) = {}
  /\ thread' = [thread EXCEPT ![s] = "idle"]
  /\ UNCHANGED <<tasks, sent, open, worker, notified, current, kept, shutdown>>

-----------------------------------------------------------------------------
(* The worker: waiting for a task *)

(* The loop takes the mutex and reads the next deadline, which only the      *)
(* worker itself can change.                                                 *)
lock ==
  /\ worker = "lock"
  /\ worker' = "test"
  /\ UNCHANGED <<tasks, submitters, open, notified, current, kept, shutdown>>

task_is_available == stop \/ tasks # <<>>

test ==
  /\ worker = "test"
  /\ worker' = IF task_is_available THEN "take" ELSE "sleep"
  /\ UNCHANGED <<tasks, submitters, open, notified, current, kept, shutdown>>

(* The worker joins the waiters and releases the mutex. *)
sleep ==
  /\ worker = "sleep"
  /\ worker' = "asleep"
  /\ notified' = FALSE
  /\ UNCHANGED <<tasks, submitters, open, current, kept, shutdown>>

(* Woken before any deadline, it takes the mutex back and tests the predicate *)
(* again.                                                                     *)
wake ==
  /\ worker = "asleep" /\ notified /\ due = {}
  /\ worker' = "test"
  /\ UNCHANGED <<tasks, submitters, open, notified, current, kept, shutdown>>

(* A condition variable may also return without a notification. *)
wake_spuriously ==
  /\ worker = "asleep" /\ ~notified /\ due = {}
  /\ worker' = "test"
  /\ UNCHANGED <<tasks, submitters, open, notified, current, kept, shutdown>>

(* Faulty variant: the wait has no deadline.                                  *)
time_out_never == FALSE /\ UNCHANGED vars

(* Whatever ends the wait, once the earliest deadline has passed wait_until  *)
(* reports a time-out and returns whether or not the predicate holds.        *)
time_out ==
  /\ worker = "asleep" /\ due # {}
  /\ worker' = "take"
  /\ UNCHANGED <<tasks, submitters, open, notified, current, kept, shutdown>>

(* Faulty variant: the latest task is taken first.                            *)
take_latest ==
  /\ worker = "take"
  /\ \/ /\ tasks # <<>>
        /\ current' = tasks[Len(tasks)]
        /\ tasks' = SubSeq(tasks, 1, Len(tasks) - 1)
        /\ worker' = "process"
        /\ UNCHANGED expiring
     \/ /\ tasks = <<>> /\ stop
        /\ worker' = "returned"
        /\ UNCHANGED <<tasks, current, expiring>>
     \/ /\ tasks = <<>> /\ ~stop
        /\ worker' = "expire"
        /\ expiring' = due
        /\ UNCHANGED <<tasks, current>>
  /\ UNCHANGED <<submitters, open, notified, timed, untimed, due, shutdown>>

(* The worker pops a task, returns when it was told to stop, or, after a     *)
(* time-out, goes to expire commands.  The mutex is released.                *)
take ==
  /\ worker = "take"
  /\ \/ /\ tasks # <<>>
        /\ current' = Head(tasks)
        /\ tasks' = Tail(tasks)
        /\ worker' = "process"
        /\ UNCHANGED expiring
     \/ /\ tasks = <<>> /\ stop
        /\ worker' = "returned"
        /\ UNCHANGED <<tasks, current, expiring>>
     \/ /\ tasks = <<>> /\ ~stop
        /\ worker' = "expire"
        /\ expiring' = due
        /\ UNCHANGED <<tasks, current>>
  /\ UNCHANGED <<submitters, open, notified, timed, untimed, due, shutdown>>

-----------------------------------------------------------------------------
(* The worker: executing a task *)

(* Faulty variant: a blocked command is not added to the pending ones.        *)
process_dropping ==
  /\ worker = "process"
  /\ \/ open' = open \ {current} /\ UNCHANGED <<timed, untimed>>
     \/ timed' = timed \cup {current} /\ UNCHANGED <<open, untimed>>
     \/ UNCHANGED <<open, timed, untimed>>
  /\ worker' = "retry"
  /\ UNCHANGED <<tasks, submitters, notified, current, due, expiring, shutdown>>

(* The task sets its promise, or is kept with or without a deadline. *)
process ==
  /\ worker = "process"
  /\ \/ open' = open \ {current} /\ UNCHANGED <<timed, untimed>>
     \/ timed' = timed \cup {current} /\ UNCHANGED <<open, untimed>>
     \/ untimed' = untimed \cup {current} /\ UNCHANGED <<open, timed>>
  /\ worker' = "retry"
  /\ UNCHANGED <<tasks, submitters, notified, current, due, expiring, shutdown>>

forget(t) ==
  /\ open' = open \ {t}
  /\ timed' = timed \ {t}
  /\ untimed' = untimed \ {t}
  /\ due' = due \ {t}

(* retry_pending_* and, for a client that leaves, cancel_pending_commands:   *)
(* the promise of a kept task is set.                                        *)
serve(t) ==
  /\ worker = "retry" /\ t \in Pending
  /\ forget(t)
  /\ UNCHANGED <<tasks, submitters, worker, notified, current, expiring, shutdown>>

end_retries ==
  /\ worker = "retry"
  /\ worker' = "expire"
  /\ expiring' = due
  /\ UNCHANGED <<tasks, submitters, open, notified, current, timed, untimed, due, shutdown>>

(* expire_pending_*: every command that was due when the loop read the clock. *)
expire(t) ==
  /\ worker = "expire" /\ t \in expiring
  /\ forget(t)
  /\ expiring' = expiring \ {t}
  /\ UNCHANGED <<tasks, submitters, worker, notified, current, shutdown>>

end_expiry ==
  /\ worker = "expire" /\ expiring = {}
  /\ worker' = "lock"
  /\ current' = NoTask
  /\ UNCHANGED <<tasks, submitters, open, notified, kept, shutdown>>

(* Time passes the deadline of a kept task. *)
elapse(t) ==
  /\ t \in timed \ due
  /\ due' = due \cup {t}
  /\ UNCHANGED <<tasks, submitters, open, worker, notified, current, timed, untimed,
                 expiring, shutdown>>

-----------------------------------------------------------------------------
(* ~CommandProcessor.  TcpServer destroys its processor after it has joined  *)
(* every thread that submits tasks.                                          *)

(* Faulty variant: the processor is destroyed before the threads are joined.  *)
request_stop_early ==
  /\ destructor = "idle"
  /\ stop' = TRUE
  /\ destructor' = "notify"
  /\ UNCHANGED <<tasks, submitters, open, worker, notified, current, kept>>

request_stop ==
  /\ destructor = "idle"
  /\ \A s \in Threads : thread[s] = "idle" /\ sent[s] % Burst[s] = 0
  /\ stop' = TRUE
  /\ destructor' = "notify"
  /\ UNCHANGED <<tasks, submitters, open, worker, notified, current, kept>>

(* The mutex is not taken between the two. *)
notify_all ==
  /\ destructor = "notify"
  /\ WakeWorker
  /\ destructor' = "join"
  /\ UNCHANGED <<tasks, submitters, open, worker, current, kept, stop>>

join ==
  /\ destructor = "join" /\ worker = "returned"
  /\ destructor' = "done"
  /\ UNCHANGED <<tasks, submitters, open, worker, notified, current, kept, stop>>

-----------------------------------------------------------------------------
Submitter(s) == push(s) \/ notify_one(s) \/ get(s)

Worker ==
  \/ lock \/ test \/ sleep \/ wake \/ time_out \/ take \/ process \/ end_retries \/ end_expiry
  \/ \E t \in Pending : serve(t) \/ expire(t)

Destructor == request_stop \/ notify_all \/ join

Next ==
  \/ \E s \in Threads : Submitter(s)
  \/ Worker \/ wake_spuriously \/ Destructor
  \/ \E t \in timed : elapse(t)

Spec == Init /\ [][Next]_vars

(* The scheduler runs every thread that can run, and time passes. *)
FairSpec ==
  /\ Spec
  /\ \A s \in Threads : WF_vars(notify_one(s)) /\ WF_vars(get(s))
  /\ WF_vars(Worker)
  /\ WF_vars(notify_all) /\ WF_vars(join)
  /\ WF_vars(\E t \in timed : elapse(t))

-----------------------------------------------------------------------------
(* Properties *)

(* Every variable has its type. *)
TypeOK ==
  /\ tasks \in Seq(Task)
  /\ thread \in [Threads -> {"idle", "notify", "get"}]
  /\ sent \in [Threads -> Nat]
  /\ open \subseteq Task
  /\ worker \in {"lock", "test", "sleep", "asleep", "take", "process", "retry", "expire",
                 "returned"}
  /\ notified \in BOOLEAN
  /\ current \in Task \cup {NoTask}
  /\ timed \subseteq Task /\ untimed \subseteq Task
  /\ due \subseteq timed /\ expiring \subseteq due
  /\ stop \in BOOLEAN
  /\ destructor \in {"idle", "notify", "join", "done"}

(* The worker never sleeps on work: while tasks are queued and it is asleep,  *)
(* it has been notified or the thread that pushed one is about to notify it.  *)
(* Pushing under the mutex is what makes notifying outside it enough.         *)
NoLostWakeup ==
  worker \in {"sleep", "asleep"} /\ tasks # <<>> =>
    /\ worker = "asleep"
    /\ notified \/ \E s \in Threads : thread[s] = "notify"

(* When the worker has returned no promise is left unset: nothing was queued, *)
(* kept or in hand, so no future.get() can throw broken_promise.              *)
NothingLeftBehind == worker = "returned" => open = {}

(* A thread that has submitted its tasks and waits for their futures is not   *)
(* waiting for nothing: each of its open tasks is queued, in hand or kept.    *)
OpenTasksKnown == open = Queued \cup ({current} \cap open) \cup Pending

(* A command that was kept with a deadline is answered, whatever else arrives: *)
(* the worker wakes at the earliest deadline and expires after every task.     *)
TimedAnswered == \A t \in Task : t \in timed ~> t \notin open

Executor == INSTANCE SerialExecutor WITH queue <- tasks

(* The queue, the mutex and the loop of `run` together implement the serial    *)
(* executor: tasks are executed one at a time in the order of submission, a    *)
(* promise is set once, and every submitted task is eventually executed.       *)
ExecutorSpec == Executor!Spec
=============================================================================
