-------------------------- MODULE TaskQueueProofs ---------------------------
(***************************************************************************)
(* For any number of threads and tasks: the worker of the CommandProcessor *)
(* never sleeps on a queued task, leaves no promise unset when it returns, *)
(* and every step of the queue is a step of SerialExecutor.                *)
(***************************************************************************)
EXTENDS TaskQueue, TLAPS

RoundDone(s) == sent[s] % Burst[s] = 0

(* A task is pushed once, so it is in one place only: in the queue, in hand,
   or kept; and nothing is open that is in none of them. *)
Places ==
  /\ \A i, j \in DOMAIN tasks : tasks[i] = tasks[j] => i = j
  /\ \A i \in DOMAIN tasks : /\ tasks[i] \in open
                             /\ tasks[i] # current
                             /\ tasks[i] \notin timed /\ tasks[i] \notin untimed
  /\ timed \subseteq open /\ untimed \subseteq open
  /\ \A t \in open : t[2] <= sent[t[1]]
  /\ \A t \in open : \/ \E i \in DOMAIN tasks : tasks[i] = t
                     \/ worker = "process" /\ t = current
                     \/ t \in timed \/ t \in untimed

(* The worker has a task in hand only while it executes it. *)
InHand ==
  /\ worker \notin {"process", "retry", "expire"} => current = NoTask
  /\ worker # "expire" => expiring = {}
  /\ worker = "process" => current \in open /\ current \notin timed /\ current \notin untimed
  /\ current # NoTask => current[2] <= sent[current[1]]

(* The destructor runs when no thread has anything left to wait for. *)
Joined ==
  /\ stop = TRUE => destructor # "idle"
  /\ destructor # "idle" => open = {}
  /\ worker = "returned" => stop = TRUE
  /\ \A s \in Threads : thread[s] = "idle" /\ RoundDone(s) => \A t \in open : t[1] # s

IInv == TypeOK /\ NoLostWakeup /\ Places /\ InHand /\ Joined

-----------------------------------------------------------------------------
(* Facts about tasks and queues *)

(* How many tasks a thread may submit is a number. *)
LEMMA MaxTasksType == \A s \in Threads : MaxTasks(s) \in Nat
  BY QueueAssumption DEF MaxTasks

(* A task names its thread and its number. *)
LEMMA TaskType ==
  /\ \A t \in Task : t[1] \in Threads /\ t[2] \in Nat \ {0} /\ t # NoTask
  /\ \A s \in Threads, n \in Nat \ {0} : n <= MaxTasks(s) => <<s, n>> \in Task
<1>1. ASSUME NEW t \in Task PROVE t[1] \in Threads /\ t[2] \in Nat \ {0} /\ t # NoTask
  <2>1. PICK s \in Threads : t \in {s} \X (1..MaxTasks(s))
    BY DEF Task
  <2>2. PICK n \in 1..MaxTasks(s) : t = <<s, n>>
    BY <2>1
  <2>3. MaxTasks(s) \in Nat
    BY MaxTasksType
  <2>4. n \in Nat \ {0}
    BY <2>2, <2>3
  <2> QED
    BY <2>2, <2>4 DEF NoTask
<1>2. ASSUME NEW s \in Threads, NEW n \in Nat \ {0}, n <= MaxTasks(s) PROVE <<s, n>> \in Task
  <2>1. <<s, n>> \in {s} \X (1..MaxTasks(s))
    BY <1>2, MaxTasksType
  <2> QED
    BY <2>1 DEF Task
<1> QED
  BY <1>1, <1>2

(* A queue after a push at its end. *)
LEMMA Pushed ==
  ASSUME NEW S, NEW q \in Seq(S), NEW x \in S
  PROVE  /\ Append(q, x) \in Seq(S) /\ Append(q, x) # <<>>
         /\ DOMAIN q = 1..Len(q) /\ DOMAIN Append(q, x) = 1..(Len(q) + 1)
         /\ Len(q) \in Nat
         /\ \A i \in 1..Len(q) : Append(q, x)[i] = q[i]
         /\ Append(q, x)[Len(q) + 1] = x
  OBVIOUS

(* A queue after its front was popped. *)
LEMMA Popped ==
  ASSUME NEW S, NEW q \in Seq(S), q # <<>>
  PROVE  /\ Head(q) \in S /\ Tail(q) \in Seq(S)
         /\ Len(q) \in Nat \ {0}
         /\ DOMAIN q = 1..Len(q) /\ DOMAIN Tail(q) = 1..(Len(q) - 1)
         /\ Head(q) = q[1]
         /\ \A i \in 1..(Len(q) - 1) : Tail(q)[i] = q[i + 1]
  OBVIOUS

(* Initially nothing is queued, kept or in hand. *)
LEMMA InitIInv == Init => IInv
<1> SUFFICES ASSUME Init PROVE IInv
  OBVIOUS
<1>1. TypeOK
  <2>1. tasks \in Seq(Task)
    BY DEF Init
  <2>2. thread \in [Threads -> {"idle", "notify", "get"}] /\ sent \in [Threads -> Nat]
    BY DEF Init
  <2> QED
    BY <2>1, <2>2, Zenon DEF Init, TypeOK
<1>2. NoLostWakeup /\ InHand
  BY DEF Init, NoLostWakeup, InHand
<1>3. Places
  BY DEF Init, Places
<1>4. Joined
  BY DEF Init, Joined
<1> QED
  BY <1>1, <1>2, <1>3, <1>4 DEF IInv

-----------------------------------------------------------------------------
(* One lemma per action that changes the queue or the promises *)

(* A push happens outside the critical sections of the worker. *)
LEMMA PushIInv ==
  ASSUME IInv, NEW s \in Threads, push(s)
  PROVE  IInv'
<1> DEFINE n == sent[s] + 1
           t == <<s, n>>
<1>1. /\ thread[s] = "idle" /\ sent[s] < MaxTasks(s) /\ destructor = "idle"
      /\ worker \notin {"test", "sleep", "take"}
      /\ sent' = [sent EXCEPT ![s] = @ + 1]
      /\ tasks' = Append(tasks, <<s, sent'[s]>>)
      /\ open' = open \cup {<<s, sent'[s]>>}
      /\ thread' = [thread EXCEPT ![s] = "notify"]
      /\ worker' = worker /\ notified' = notified /\ current' = current
      /\ timed' = timed /\ untimed' = untimed /\ due' = due /\ expiring' = expiring
      /\ stop' = stop /\ destructor' = destructor
  BY DEF push, MutexFree, kept, shutdown
<1>2. /\ TypeOK /\ sent \in [Threads -> Nat] /\ sent[s] \in Nat
      /\ tasks \in Seq(Task) /\ open \subseteq Task
      /\ thread \in [Threads -> {"idle", "notify", "get"}]
  BY DEF IInv, TypeOK
<1>3. sent'[s] = n /\ n \in Nat \ {0} /\ n <= MaxTasks(s) /\ sent' \in [Threads -> Nat]
  BY <1>1, <1>2, MaxTasksType
<1>4. t \in Task /\ t[1] = s /\ t[2] = n
  BY <1>3, TaskType
<1> HIDE DEF n, t
<1>5. t \notin open /\ t # current
  <2>1. \A u \in open : u[2] <= sent[u[1]]
    BY DEF IInv, Places
  <2>2. current # NoTask => current[2] <= sent[current[1]]
    BY DEF IInv, InHand
  <2>3. ~(t[2] <= sent[t[1]]) /\ t # NoTask
    BY <1>2, <1>4, TaskType DEF n
  <2> QED
    BY <2>1, <2>2, <2>3
<1>6. /\ tasks' = Append(tasks, t) /\ open' = open \cup {t}
  BY <1>1, <1>3 DEF t
<1>7. /\ tasks' \in Seq(Task) /\ tasks' # <<>>
      /\ DOMAIN tasks = 1..Len(tasks) /\ DOMAIN tasks' = 1..(Len(tasks) + 1)
      /\ Len(tasks) \in Nat
      /\ \A i \in 1..Len(tasks) : tasks'[i] = tasks[i]
      /\ tasks'[Len(tasks) + 1] = t
  BY <1>2, <1>4, <1>6, Pushed
<1>8. TypeOK'
  <2>1. thread' \in [Threads -> {"idle", "notify", "get"}]
    BY <1>1, <1>2
  <2>2. open' \subseteq Task
    BY <1>2, <1>4, <1>6
  <2> QED
    BY <1>1, <1>3, <1>7, <2>1, <2>2, Zenon DEF IInv, TypeOK
<1>9. NoLostWakeup'
  BY <1>1, <1>2 DEF NoLostWakeup
<1>10. Places'
  <2>1. \A i, j \in DOMAIN tasks' : tasks'[i] = tasks'[j] => i = j
    <3>1. \A i \in 1..Len(tasks) : tasks[i] \in open
      BY <1>7 DEF IInv, Places
    <3>2. \A i, j \in 1..Len(tasks) : tasks[i] = tasks[j] => i = j
      BY <1>7 DEF IInv, Places
    <3>3. \A i \in 1..Len(tasks) : tasks'[i] # t
      BY <3>1, <1>5, <1>7
    <3> SUFFICES ASSUME NEW i \in 1..(Len(tasks) + 1), NEW j \in 1..(Len(tasks) + 1),
                        tasks'[i] = tasks'[j]
                 PROVE  i = j
      BY <1>7, Zenon
    <3>4. (i \in 1..Len(tasks) \/ i = Len(tasks) + 1) /\ (j \in 1..Len(tasks) \/ j = Len(tasks) + 1)
      BY <1>7
    <3> QED
      BY <3>2, <3>3, <3>4, <1>7, Zenon
  <2>2. \A i \in DOMAIN tasks' : /\ tasks'[i] \in open' /\ tasks'[i] # current'
                                 /\ tasks'[i] \notin timed' /\ tasks'[i] \notin untimed'
    <3>1. t \notin timed /\ t \notin untimed
      BY <1>5 DEF IInv, Places
    <3>2. \A i \in 1..Len(tasks) : /\ tasks[i] \in open /\ tasks[i] # current
                                   /\ tasks[i] \notin timed /\ tasks[i] \notin untimed
      BY <1>7 DEF IInv, Places
    <3>3. \A i \in DOMAIN tasks' : i \in 1..Len(tasks) \/ tasks'[i] = t
      BY <1>7
    <3>4. \A i \in 1..Len(tasks) : tasks'[i] = tasks[i]
      BY <1>7
    <3> QED
      BY <3>1, <3>2, <3>3, <3>4, <1>1, <1>5, <1>6, Zenon
  <2>3. \A u \in open' : u[2] <= sent'[u[1]]
    <3>1. ASSUME NEW u \in open PROVE u[2] <= sent'[u[1]]
      <4>1. u[2] <= sent[u[1]] /\ u \in Task
        BY <1>2 DEF IInv, Places
      <4>2. u[1] \in Threads /\ u[2] \in Nat
        BY <4>1, TaskType
      <4> QED
        BY <4>1, <4>2, <1>1, <1>2
    <3>2. t[2] <= sent'[t[1]]
      BY <1>3, <1>4
    <3> QED
      BY <3>1, <3>2, <1>6
  <2>4. \A u \in open' : \/ \E i \in DOMAIN tasks' : tasks'[i] = u
                         \/ worker' = "process" /\ u = current'
                         \/ u \in timed' \/ u \in untimed'
    <3>1. \E i \in DOMAIN tasks' : tasks'[i] = t
      BY <1>7
    <3>2. ASSUME NEW i \in DOMAIN tasks PROVE \E j \in DOMAIN tasks' : tasks'[j] = tasks[i]
      BY <1>7
    <3>3. ASSUME NEW u \in open
          PROVE  \/ \E i \in DOMAIN tasks' : tasks'[i] = u
                 \/ worker' = "process" /\ u = current'
                 \/ u \in timed' \/ u \in untimed'
      <4>1. \/ \E i \in DOMAIN tasks : tasks[i] = u
            \/ worker = "process" /\ u = current
            \/ u \in timed \/ u \in untimed
        BY DEF IInv, Places
      <4> QED
        BY <4>1, <3>2, <1>1
    <3> QED
      BY <3>1, <3>3, <1>6
  <2>5. timed' \subseteq open' /\ untimed' \subseteq open'
    BY <1>1, <1>6 DEF IInv, Places
  <2> QED
    BY <2>1, <2>2, <2>3, <2>4, <2>5 DEF Places
<1>11. InHand'
  <2>1. current # NoTask => current[2] <= sent'[current[1]]
    <3> SUFFICES ASSUME current # NoTask PROVE current[2] <= sent'[current[1]]
      OBVIOUS
    <3>1. current[2] <= sent[current[1]] /\ current[1] \in Threads /\ current[2] \in Nat
      BY TaskType DEF IInv, InHand, TypeOK
    <3> QED
      BY <3>1, <1>1, <1>2
  <2> QED
    BY <2>1, <1>1, <1>6 DEF IInv, InHand
<1>12. Joined'
  <2>1. /\ stop' = TRUE => destructor' # "idle"
        /\ destructor' = "idle"
        /\ worker' = "returned" => stop' = TRUE
    BY <1>1 DEF IInv, Joined
  <2>2. ASSUME NEW r \in Threads, thread'[r] = "idle", RoundDone(r)', NEW u \in open'
        PROVE  u[1] # r
    <3>1. r # s /\ thread[r] = "idle" /\ sent'[r] = sent[r]
      BY <2>2, <1>1, <1>2
    <3>2. RoundDone(r)
      BY <3>1, <2>2 DEF RoundDone
    <3>3. \A v \in open : v[1] # r
      BY <3>1, <3>2 DEF IInv, Joined
    <3> QED
      BY <3>1, <3>3, <1>4, <1>6
  <2> QED
    BY <2>1, <2>2 DEF Joined
<1> QED
  BY <1>8, <1>9, <1>10, <1>11, <1>12 DEF IInv

(* A notification wakes a worker that sleeps, and a worker that does not sleep
   will look at the queue before it does. *)
LEMMA NotifyIInv ==
  ASSUME IInv, NEW s \in Threads, notify_one(s)
  PROVE  IInv'
<1>1. /\ thread[s] = "notify"
      /\ notified' = (notified \/ worker = "asleep")
      /\ thread' = [thread EXCEPT ![s] = IF RoundDone(s) THEN "get" ELSE "idle"]
      /\ tasks' = tasks /\ sent' = sent /\ open' = open /\ worker' = worker
      /\ current' = current
      /\ timed' = timed /\ untimed' = untimed /\ due' = due /\ expiring' = expiring
      /\ stop' = stop /\ destructor' = destructor
  BY DEF notify_one, WakeWorker, kept, shutdown, RoundDone
<1>2. thread \in [Threads -> {"idle", "notify", "get"}] /\ notified \in BOOLEAN
  BY DEF IInv, TypeOK
<1>3. TypeOK'
  <2>1. thread' \in [Threads -> {"idle", "notify", "get"}] /\ notified' \in BOOLEAN
    BY <1>1, <1>2
  <2> QED
    BY <1>1, <2>1, Zenon DEF IInv, TypeOK
<1>4. NoLostWakeup'
  BY <1>1, Zenon DEF IInv, NoLostWakeup
<1>5. Places' /\ InHand'
  BY <1>1, Zenon DEF IInv, Places, InHand
<1>6. Joined'
  <2>1. /\ stop' = TRUE => destructor' # "idle"
        /\ destructor' # "idle" => open' = {}
        /\ worker' = "returned" => stop' = TRUE
    BY <1>1 DEF IInv, Joined
  <2>2. ASSUME NEW r \in Threads, thread'[r] = "idle", RoundDone(r)', NEW u \in open'
        PROVE  u[1] # r
    <3>1. RoundDone(r)
      BY <2>2, <1>1 DEF RoundDone
    <3>2. r # s /\ thread[r] = "idle"
      BY <2>2, <3>1, <1>1, <1>2
    <3> QED
      BY <3>1, <3>2, <1>1 DEF IInv, Joined
  <2> QED
    BY <2>1, <2>2 DEF Joined
<1> QED
  BY <1>3, <1>4, <1>5, <1>6 DEF IInv

(* A thread goes on when none of its promises is open. *)
LEMMA GetIInv ==
  ASSUME IInv, NEW s \in Threads, get(s)
  PROVE  IInv'
<1>1. /\ thread[s] = "get" /\ \A t \in open : t[1] # s
      /\ thread' = [thread EXCEPT ![s] = "idle"]
      /\ tasks' = tasks /\ sent' = sent /\ open' = open /\ worker' = worker
      /\ notified' = notified /\ current' = current
      /\ timed' = timed /\ untimed' = untimed /\ due' = due /\ expiring' = expiring
      /\ stop' = stop /\ destructor' = destructor
  BY DEF get, OpenOf, kept, shutdown
<1>2. thread \in [Threads -> {"idle", "notify", "get"}]
  BY DEF IInv, TypeOK
<1>3. TypeOK'
  <2>1. thread' \in [Threads -> {"idle", "notify", "get"}]
    BY <1>1, <1>2
  <2> QED
    BY <1>1, <2>1, Zenon DEF IInv, TypeOK
<1>4. NoLostWakeup'
  BY <1>1, <1>2 DEF IInv, NoLostWakeup
<1>5. Places' /\ InHand'
  BY <1>1, Zenon DEF IInv, Places, InHand
<1>6. Joined'
  <2>1. \A r \in Threads : RoundDone(r)' <=> RoundDone(r)
    BY <1>1 DEF RoundDone
  <2>2. \A r \in Threads : thread'[r] = "idle" => thread[r] = "idle" \/ r = s
    BY <1>1, <1>2
  <2> QED
    BY <2>1, <2>2, <1>1 DEF IInv, Joined
<1> QED
  BY <1>3, <1>4, <1>5, <1>6 DEF IInv

(* The worker locks, tests, sleeps and wakes without touching a task. *)
LEMMA WorkerMoves ==
  ASSUME IInv, NoLostWakeup', notified' \in BOOLEAN,
         worker \in {"lock", "test", "sleep", "asleep"},
         worker' \in {"test", "sleep", "asleep", "take"},
         UNCHANGED <<tasks, submitters, open, current, kept, shutdown>>
  PROVE  IInv'
<1>1. /\ tasks' = tasks /\ thread' = thread /\ sent' = sent /\ open' = open
      /\ current' = current
      /\ timed' = timed /\ untimed' = untimed /\ due' = due /\ expiring' = expiring
      /\ stop' = stop /\ destructor' = destructor
  BY DEF submitters, kept, shutdown
<1>2. /\ worker # "process" /\ worker \notin {"process", "retry", "expire"}
      /\ worker' # "process" /\ worker' # "returned"
      /\ worker' \in {"lock", "test", "sleep", "asleep", "take", "process", "retry",
                      "expire", "returned"}
  OBVIOUS
<1>3. TypeOK'
  BY <1>1, <1>2, Zenon DEF IInv, TypeOK
<1>4. Places'
  BY <1>1, <1>2, Zenon DEF IInv, Places
<1>5. InHand'
  BY <1>1, <1>2, Zenon DEF IInv, InHand
<1>6. Joined'
  BY <1>1, <1>2, Zenon DEF IInv, Joined, RoundDone
<1> QED
  BY <1>3, <1>4, <1>5, <1>6 DEF IInv

(* The worker sleeps only when it found the queue empty, under the mutex that
   every push needs. *)
LEMMA WaitIInv ==
  ASSUME IInv, lock \/ test \/ sleep \/ wake \/ wake_spuriously \/ time_out
  PROVE  IInv'
<1>1. /\ UNCHANGED <<tasks, submitters, open, current, kept, shutdown>>
      /\ worker \in {"lock", "test", "sleep", "asleep"}
      /\ worker' \in {"test", "sleep", "asleep", "take"}
      /\ notified' \in {notified, FALSE}
  BY Zenon DEF lock, test, sleep, wake, wake_spuriously, time_out
<1>2. notified' \in BOOLEAN
  BY <1>1, Zenon DEF IInv, TypeOK
<1>3. /\ worker' = "sleep" => tasks = <<>>
      /\ worker' = "asleep" => worker = "sleep"
      /\ tasks' = tasks
  BY DEF lock, test, sleep, wake, wake_spuriously, time_out, task_is_available
<1>4. NoLostWakeup'
  BY <1>3, Zenon DEF IInv, NoLostWakeup
<1> QED
  BY <1>1, <1>2, <1>4, WorkerMoves, Zenon

(* The task that is popped leaves the queue for the hand of the worker. *)
LEMMA TakeIInv ==
  ASSUME IInv, take
  PROVE  IInv'
<1>1. /\ worker = "take" /\ thread' = thread /\ sent' = sent /\ open' = open
      /\ notified' = notified /\ timed' = timed /\ untimed' = untimed /\ due' = due
      /\ stop' = stop /\ destructor' = destructor
      /\ \/ /\ tasks # <<>> /\ current' = Head(tasks) /\ tasks' = Tail(tasks)
            /\ worker' = "process" /\ expiring' = expiring
         \/ /\ tasks' = tasks /\ current' = current
            /\ \/ worker' = "returned" /\ stop /\ expiring' = expiring
               \/ worker' = "expire" /\ expiring' = due
  BY DEF take, submitters, shutdown
<1>2. tasks \in Seq(Task) /\ current = NoTask
  BY <1>1 DEF IInv, TypeOK, InHand
<1>3. NoLostWakeup'
  BY <1>1 DEF NoLostWakeup
<1>4. CASE tasks # <<>> /\ current' = Head(tasks) /\ tasks' = Tail(tasks)
           /\ worker' = "process" /\ expiring' = expiring
  <2> DEFINE n == Len(tasks)
  <2>1. /\ current' \in Task /\ tasks' \in Seq(Task) /\ n \in Nat \ {0}
        /\ DOMAIN tasks = 1..n /\ DOMAIN tasks' = 1..(n - 1)
        /\ current' = tasks[1] /\ \A i \in 1..(n - 1) : tasks'[i] = tasks[i + 1]
    BY <1>2, <1>4, Popped
  <2> HIDE DEF n
  <2>2. 1 \in DOMAIN tasks /\ \A i \in DOMAIN tasks' : i + 1 \in DOMAIN tasks /\ i + 1 # 1
    BY <2>1
  <2>3. \A i \in DOMAIN tasks' : tasks'[i] = tasks[i + 1]
    BY <2>1
  <2>4. TypeOK'
    BY <1>1, <1>4, <2>1, Zenon DEF IInv, TypeOK
  <2>5. /\ tasks[1] \in open /\ tasks[1] \notin timed /\ tasks[1] \notin untimed
        /\ \A i \in DOMAIN tasks : tasks[i] = tasks[1] => i = 1
    BY <2>2, Zenon DEF IInv, Places
  <2>6. Places'
    <3>1. \A i, j \in DOMAIN tasks' : tasks'[i] = tasks'[j] => i = j
      <4> SUFFICES ASSUME NEW i \in DOMAIN tasks', NEW j \in DOMAIN tasks',
                          tasks'[i] = tasks'[j]
                   PROVE  i = j
        BY Zenon
      <4>1. tasks[i + 1] = tasks[j + 1] /\ i + 1 \in DOMAIN tasks /\ j + 1 \in DOMAIN tasks
        BY <2>2, <2>3, Zenon
      <4>2. \A k, l \in DOMAIN tasks : tasks[k] = tasks[l] => k = l
        BY DEF IInv, Places
      <4>3. i + 1 = j + 1
        BY <4>1, <4>2, Zenon
      <4> QED
        BY <4>3, <2>1
    <3>2. \A i \in DOMAIN tasks' : /\ tasks'[i] \in open' /\ tasks'[i] # current'
                                   /\ tasks'[i] \notin timed' /\ tasks'[i] \notin untimed'
      <4> SUFFICES ASSUME NEW i \in DOMAIN tasks'
                   PROVE  /\ tasks'[i] \in open' /\ tasks'[i] # current'
                          /\ tasks'[i] \notin timed' /\ tasks'[i] \notin untimed'
        BY Zenon
      <4>1. i + 1 \in DOMAIN tasks /\ i + 1 # 1 /\ tasks'[i] = tasks[i + 1]
        BY <2>2, <2>3
      <4>2. tasks[i + 1] # tasks[1]
        BY <4>1, <2>5, Zenon
      <4>3. /\ tasks[i + 1] \in open /\ tasks[i + 1] \notin timed /\ tasks[i + 1] \notin untimed
        BY <4>1, Zenon DEF IInv, Places
      <4> QED
        BY <4>1, <4>2, <4>3, <1>1, <2>1, Zenon
    <3>3. \A u \in open' : \/ \E i \in DOMAIN tasks' : tasks'[i] = u
                           \/ worker' = "process" /\ u = current'
                           \/ u \in timed' \/ u \in untimed'
      <4> SUFFICES ASSUME NEW u \in open
                   PROVE  \/ \E i \in DOMAIN tasks' : tasks'[i] = u
                          \/ u = current'
                          \/ u \in timed \/ u \in untimed
        BY <1>1, <1>4, Zenon
      <4>1. (\E i \in DOMAIN tasks : tasks[i] = u) \/ u \in timed \/ u \in untimed
        BY <1>1 DEF IInv, Places
      <4>2. ASSUME NEW i \in DOMAIN tasks, tasks[i] = u, i # 1
            PROVE  \E j \in DOMAIN tasks' : tasks'[j] = u
        <5>1. i - 1 \in DOMAIN tasks' /\ i = (i - 1) + 1
          BY <4>2, <2>1
        <5>2. tasks'[i - 1] = tasks[i]
          BY <5>1, <2>3
        <5> QED
          BY <5>1, <5>2, <4>2, Zenon
      <4> QED
        BY <4>1, <4>2, <2>1, Zenon
    <3> QED
      BY <3>1, <3>2, <3>3, <1>1, Zenon DEF IInv, Places
  <2>7. InHand'
    <3>1. current'[2] <= sent[current'[1]]
      BY <2>1, <2>5, Zenon DEF IInv, Places
    <3>2. /\ worker' = "process" /\ current' \in open' /\ current' \notin timed'
          /\ current' \notin untimed' /\ sent' = sent
      BY <1>1, <1>4, <2>1, <2>5, Zenon
    <3>3. expiring' = {}
      BY <1>1, <1>4 DEF IInv, InHand
    <3> QED
      BY <3>1, <3>2, <3>3 DEF InHand
  <2>8. Joined'
    BY <1>1, <1>4, Zenon DEF IInv, Joined, RoundDone
  <2> QED
    BY <2>4, <2>6, <2>7, <2>8, <1>3 DEF IInv
<1>5. CASE /\ tasks' = tasks /\ current' = current
           /\ \/ worker' = "returned" /\ stop /\ expiring' = expiring
              \/ worker' = "expire" /\ expiring' = due
  <2>1. /\ worker' # "process" /\ worker # "process" /\ worker' \in {"returned", "expire"}
        /\ worker' = "returned" => stop
        /\ expiring' \in {expiring, due}
    BY <1>1, <1>5
  <2>2. TypeOK'
    <3>1. expiring' \subseteq due'
      BY <1>1, <2>1 DEF IInv, TypeOK
    <3> QED
      BY <3>1, <1>1, <1>5, <2>1, Zenon DEF IInv, TypeOK
  <2>3. Places'
    BY <1>1, <1>5, <2>1, Zenon DEF IInv, Places
  <2>4. InHand'
    BY <1>1, <1>2, <1>5, <2>1, Zenon DEF IInv, InHand
  <2>5. Joined'
    <3>1. stop' \in BOOLEAN /\ (worker' = "returned" => stop' = TRUE)
      BY <1>1, <2>1 DEF IInv, TypeOK
    <3> QED
      BY <3>1, <1>1, Zenon DEF IInv, Joined, RoundDone
  <2> QED
    BY <2>2, <2>3, <2>4, <2>5, <1>3 DEF IInv
<1> QED
  BY <1>1, <1>4, <1>5, Zenon

(* The task in hand is answered, or kept for later. *)
LEMMA ProcessIInv ==
  ASSUME IInv, process
  PROVE  IInv'
<1>1. /\ worker = "process" /\ worker' = "retry"
      /\ \/ open' = open \ {current} /\ timed' = timed /\ untimed' = untimed
         \/ open' = open /\ timed' = timed \cup {current} /\ untimed' = untimed
         \/ open' = open /\ timed' = timed /\ untimed' = untimed \cup {current}
      /\ tasks' = tasks /\ thread' = thread /\ sent' = sent /\ notified' = notified
      /\ current' = current /\ due' = due /\ expiring' = expiring
      /\ stop' = stop /\ destructor' = destructor
  BY DEF process, submitters, shutdown
<1>2. /\ current \in open /\ current \notin timed /\ current \notin untimed
      /\ open \subseteq Task /\ timed \subseteq open /\ untimed \subseteq open
      /\ due \subseteq timed /\ expiring \subseteq due
  BY <1>1 DEF IInv, TypeOK, InHand, Places
<1>3. /\ open' \subseteq open /\ timed' \subseteq open' /\ untimed' \subseteq open'
      /\ timed \subseteq timed' /\ untimed \subseteq untimed'
      /\ timed' \subseteq timed \cup {current} /\ untimed' \subseteq untimed \cup {current}
      /\ \A u \in open : u \in open' \/ u = current
      /\ current \in open' => current \in timed' \/ current \in untimed'
  BY <1>1, <1>2
<1>4. TypeOK'
  <2>1. /\ open' \subseteq Task /\ timed' \subseteq Task /\ untimed' \subseteq Task
        /\ due' \subseteq timed' /\ expiring' \subseteq due'
    BY <1>1, <1>2, <1>3
  <2> QED
    BY <1>1, <2>1, Zenon DEF IInv, TypeOK
<1>5. NoLostWakeup'
  BY <1>1 DEF NoLostWakeup
<1>6. Places'
  <2>1. \A i \in DOMAIN tasks : /\ tasks[i] \in open' /\ tasks[i] # current
                                /\ tasks[i] \notin timed' /\ tasks[i] \notin untimed'
    BY <1>3 DEF IInv, Places
  <2>2. \A u \in open' : \/ \E i \in DOMAIN tasks : tasks[i] = u
                         \/ u \in timed' \/ u \in untimed'
    <3> SUFFICES ASSUME NEW u \in open', u # current
                 PROVE  \/ \E i \in DOMAIN tasks : tasks[i] = u
                        \/ u \in timed \/ u \in untimed
      BY <1>3
    <3> QED
      BY <1>3 DEF IInv, Places
  <2>3. \A u \in open' : u[2] <= sent[u[1]]
    BY <1>3 DEF IInv, Places
  <2> QED
    BY <2>1, <2>2, <2>3, <1>1, <1>3, Zenon DEF IInv, Places
<1>7. InHand'
  BY <1>1, Zenon DEF IInv, InHand
<1>8. Joined'
  <2>1. open = {} => open' = {}
    BY <1>3
  <2>2. \A s : (\A u \in open : u[1] # s) => (\A u \in open' : u[1] # s)
    BY <1>3
  <2> QED
    BY <2>1, <2>2, <1>1, Zenon DEF IInv, Joined, RoundDone
<1> QED
  BY <1>4, <1>5, <1>6, <1>7, <1>8 DEF IInv

(* A kept task is answered and forgotten, by a retry or by its deadline. *)
LEMMA ForgetIInv ==
  ASSUME IInv, NEW t \in Pending, forget(t), worker \in {"retry", "expire"},
         expiring' = expiring \ {t},
         UNCHANGED <<tasks, submitters, worker, notified, current, shutdown>>
  PROVE  IInv'
<1>1. /\ open' = open \ {t} /\ timed' = timed \ {t} /\ untimed' = untimed \ {t}
      /\ due' = due \ {t} /\ expiring' = expiring \ {t}
      /\ tasks' = tasks /\ thread' = thread /\ sent' = sent /\ worker' = worker
      /\ notified' = notified /\ current' = current
      /\ stop' = stop /\ destructor' = destructor
  BY DEF forget, submitters, shutdown
<1>2. TypeOK'
  <2>1. /\ open' \subseteq Task /\ timed' \subseteq Task /\ untimed' \subseteq Task
        /\ due' \subseteq timed' /\ expiring' \subseteq due'
    BY <1>1 DEF IInv, TypeOK
  <2> QED
    BY <1>1, <2>1, Zenon DEF IInv, TypeOK
<1>3. NoLostWakeup'
  BY <1>1, Zenon DEF IInv, NoLostWakeup
<1>4. Places'
  <2>1. \A i \in DOMAIN tasks : /\ tasks[i] \in open' /\ tasks[i] # current
                                /\ tasks[i] \notin timed' /\ tasks[i] \notin untimed'
    BY <1>1 DEF IInv, Places, Pending
  <2>2. \A u \in open' : \/ \E i \in DOMAIN tasks : tasks[i] = u
                         \/ worker = "process" /\ u = current
                         \/ u \in timed' \/ u \in untimed'
    BY <1>1 DEF IInv, Places
  <2>3. timed' \subseteq open' /\ untimed' \subseteq open'
    BY <1>1 DEF IInv, Places
  <2>4. \A u \in open' : u[2] <= sent[u[1]]
    BY <1>1 DEF IInv, Places
  <2> QED
    BY <2>1, <2>2, <2>3, <2>4, <1>1, Zenon DEF IInv, Places
<1>5. InHand'
  BY <1>1 DEF IInv, InHand
<1>6. Joined'
  <2>1. open = {} => open' = {}
    BY <1>1
  <2>2. \A s : (\A u \in open : u[1] # s) => (\A u \in open' : u[1] # s)
    BY <1>1
  <2> QED
    BY <2>1, <2>2, <1>1, Zenon DEF IInv, Joined, RoundDone
<1> QED
  BY <1>2, <1>3, <1>4, <1>5, <1>6 DEF IInv

(* retry_pending_* answers a kept task. *)
LEMMA ServeIInv ==
  ASSUME IInv, NEW t \in Pending, serve(t)
  PROVE  IInv'
<1>1. /\ worker = "retry" /\ forget(t) /\ expiring' = expiring
      /\ UNCHANGED <<tasks, submitters, worker, notified, current, shutdown>>
  BY DEF serve
<1>2. expiring' = expiring \ {t}
  BY <1>1 DEF IInv, InHand
<1>3. worker \in {"retry", "expire"}
  BY <1>1
<1> QED
  BY <1>1, <1>2, <1>3, ForgetIInv, Zenon

(* expire_pending_* answers a task whose deadline has passed. *)
LEMMA ExpireIInv ==
  ASSUME IInv, NEW t \in Pending, expire(t)
  PROVE  IInv'
<1>1. /\ forget(t) /\ expiring' = expiring \ {t} /\ worker \in {"retry", "expire"}
      /\ UNCHANGED <<tasks, submitters, worker, notified, current, shutdown>>
  BY DEF expire
<1> QED
  BY <1>1, ForgetIInv, Zenon

(* The loop moves on from the retries to the deadlines, and then to the queue. *)
LEMMA LoopIInv ==
  ASSUME IInv, end_retries \/ end_expiry
  PROVE  IInv'
<1>1. /\ tasks' = tasks /\ thread' = thread /\ sent' = sent /\ open' = open
      /\ notified' = notified /\ timed' = timed /\ untimed' = untimed /\ due' = due
      /\ stop' = stop /\ destructor' = destructor
      /\ worker \in {"retry", "expire"} /\ worker' \in {"expire", "lock"}
      /\ \/ worker' = "expire" /\ expiring' = due /\ current' = current
         \/ worker' = "lock" /\ expiring' = {} /\ current' = NoTask
  BY DEF end_retries, end_expiry, submitters, kept, shutdown
<1>2. expiring' \subseteq due' /\ current' \in {current, NoTask} /\ worker # "process"
      /\ worker' # "process" /\ worker' # "returned" /\ worker' \notin {"sleep", "asleep"}
  BY <1>1 DEF IInv, TypeOK
<1>3. TypeOK'
  BY <1>1, <1>2, Zenon DEF IInv, TypeOK
<1>4. NoLostWakeup'
  BY <1>2, Zenon DEF NoLostWakeup
<1>5. Places'
  <2>1. \A i \in DOMAIN tasks : tasks[i] # current'
    <3>1. \A i \in DOMAIN tasks : tasks[i] \in Task /\ tasks[i] # current
      BY DEF IInv, TypeOK, Places
    <3> QED
      BY <3>1, <1>2, TaskType
  <2> QED
    BY <2>1, <1>1, <1>2, Zenon DEF IInv, Places
<1>6. InHand'
  BY <1>1, <1>2 DEF IInv, InHand
<1>7. Joined'
  BY <1>1, <1>2, Zenon DEF IInv, Joined, RoundDone
<1> QED
  BY <1>3, <1>4, <1>5, <1>6, <1>7 DEF IInv

(* A deadline that passes changes nothing until the worker reads the clock. *)
LEMMA ElapseIInv ==
  ASSUME IInv, NEW t \in timed, elapse(t)
  PROVE  IInv'
<1>1. /\ due' = due \cup {t}
      /\ tasks' = tasks /\ thread' = thread /\ sent' = sent /\ open' = open
      /\ worker' = worker /\ notified' = notified /\ current' = current
      /\ timed' = timed /\ untimed' = untimed /\ expiring' = expiring
      /\ stop' = stop /\ destructor' = destructor
  BY DEF elapse, submitters, shutdown
<1>2. due' \subseteq timed' /\ expiring' \subseteq due'
  BY <1>1 DEF IInv, TypeOK
<1>3. TypeOK'
  BY <1>1, <1>2, Zenon DEF IInv, TypeOK
<1>4. NoLostWakeup' /\ Places' /\ InHand' /\ Joined'
  BY <1>1, Zenon DEF IInv, NoLostWakeup, Places, InHand, Joined, RoundDone
<1> QED
  BY <1>3, <1>4 DEF IInv

(* The processor is destroyed when every promise is set, and stays so. *)
LEMMA DestructorIInv ==
  ASSUME IInv, Destructor
  PROVE  IInv'
<1>1. /\ tasks' = tasks /\ thread' = thread /\ sent' = sent /\ open' = open
      /\ worker' = worker /\ current' = current
      /\ timed' = timed /\ untimed' = untimed /\ due' = due /\ expiring' = expiring
      /\ destructor' \in {"notify", "join", "done"}
      /\ \/ /\ stop' = TRUE /\ notified' = notified
            /\ \A s \in Threads : thread[s] = "idle" /\ RoundDone(s)
         \/ /\ stop' = stop /\ destructor # "idle"
            /\ notified' = notified \/ notified' = (notified \/ worker = "asleep")
  BY Zenon DEF Destructor, request_stop, notify_all, join, WakeWorker, submitters, kept, RoundDone
<1>2. open = {}
  <2>1. CASE destructor # "idle"
    BY <2>1 DEF IInv, Joined
  <2>2. CASE \A s \in Threads : thread[s] = "idle" /\ RoundDone(s)
    <3>1. \A u \in open : u[1] \in Threads
      BY TaskType DEF IInv, TypeOK
    <3> QED
      BY <2>2, <3>1 DEF IInv, Joined
  <2> QED
    BY <1>1, <2>1, <2>2, Zenon
<1>3. /\ stop' \in BOOLEAN /\ notified' \in BOOLEAN
      /\ destructor' \in {"idle", "notify", "join", "done"} /\ destructor' # "idle"
  BY <1>1, Zenon DEF IInv, TypeOK
<1>4. TypeOK'
  BY <1>1, <1>3, Zenon DEF IInv, TypeOK
<1>5. NoLostWakeup'
  <2>1. notified => notified'
    BY <1>1, Zenon
  <2>2. tasks' = tasks /\ thread' = thread /\ worker' = worker
    BY <1>1
  <2> QED
    BY <2>1, <2>2, Zenon DEF IInv, NoLostWakeup
<1>6. Places' /\ InHand'
  BY <1>1, Zenon DEF IInv, Places, InHand
<1>7. Joined'
  <2>1. open' = {} /\ destructor' # "idle"
    BY <1>1, <1>2, <1>3
  <2>2. worker' = "returned" => stop' = TRUE
    BY <1>1, Zenon DEF IInv, Joined
  <2> QED
    BY <2>1, <2>2 DEF Joined
<1> QED
  BY <1>4, <1>5, <1>6, <1>7 DEF IInv

-----------------------------------------------------------------------------
(* Every step keeps the invariant, so it always holds. *)
LEMMA NextIInv == IInv /\ [Next]_vars => IInv'
<1> SUFFICES ASSUME IInv, [Next]_vars PROVE IInv'
  OBVIOUS
<1>1. ASSUME NEW s \in Threads, Submitter(s) PROVE IInv'
  BY <1>1, PushIInv, NotifyIInv, GetIInv, Zenon DEF Submitter
<1>2. CASE Worker
  <2>1. CASE lock \/ test \/ sleep \/ wake \/ wake_spuriously \/ time_out
    BY <2>1, WaitIInv, Zenon
  <2>2. CASE take
    BY <2>2, TakeIInv, Zenon
  <2>3. CASE process
    BY <2>3, ProcessIInv, Zenon
  <2>4. CASE end_retries \/ end_expiry
    BY <2>4, LoopIInv, Zenon
  <2>5. CASE \E t \in Pending : serve(t) \/ expire(t)
    BY <2>5, ServeIInv, ExpireIInv, Zenon
  <2> QED
    BY <1>2, <2>1, <2>2, <2>3, <2>4, <2>5, Zenon DEF Worker
<1>3. CASE wake_spuriously
  BY <1>3, WaitIInv, Zenon
<1>4. CASE Destructor
  BY <1>4, DestructorIInv, Zenon
<1>5. CASE \E t \in timed : elapse(t)
  BY <1>5, ElapseIInv, Zenon
<1>6. CASE UNCHANGED vars
  <2>1. /\ tasks' = tasks /\ thread' = thread /\ sent' = sent /\ open' = open
        /\ worker' = worker /\ notified' = notified /\ current' = current
        /\ timed' = timed /\ untimed' = untimed /\ due' = due /\ expiring' = expiring
        /\ stop' = stop /\ destructor' = destructor
    BY <1>6 DEF vars, submitters, kept, shutdown
  <2>2. TypeOK' /\ NoLostWakeup' /\ InHand'
    BY <2>1, ZenonT(30) DEF IInv, TypeOK, NoLostWakeup, InHand
  <2>3. Places' /\ Joined'
    BY <2>1, ZenonT(30) DEF IInv, Places, Joined, RoundDone
  <2> QED
    BY <2>2, <2>3, Zenon DEF IInv
<1> QED
  BY <1>1, <1>2, <1>3, <1>4, <1>5, <1>6, Zenon DEF Next

(* The inductive invariant holds in every reachable state. *)
LEMMA AlwaysIInv == Spec => []IInv
  BY InitIInv, NextIInv, PTL DEF Spec

(* The worker never sleeps while a task is queued and nobody is about to wake
   it: enqueue may notify after it has released the mutex. *)
THEOREM NoLostWakeupAlways == Spec => []NoLostWakeup
<1>1. IInv => NoLostWakeup
  BY DEF IInv
<1> QED
  BY <1>1, AlwaysIInv, PTL

(* No promise is open when the worker has returned, so no future is broken. *)
THEOREM NothingLeftBehindAlways == Spec => []NothingLeftBehind
<1>1. IInv => NothingLeftBehind
  BY DEF IInv, Joined, NothingLeftBehind
<1> QED
  BY <1>1, AlwaysIInv, PTL

(* Every open promise belongs to a task that is queued, in hand or kept. *)
THEOREM OpenTasksKnownAlways == Spec => []OpenTasksKnown
<1>1. IInv => OpenTasksKnown
  <2> SUFFICES ASSUME IInv PROVE OpenTasksKnown
    OBVIOUS
  <2>1. /\ \A t \in Queued : t \in open
        /\ \A t \in open : t \in Queued \/ t = current \/ t \in timed \/ t \in untimed
        /\ timed \subseteq open /\ untimed \subseteq open
    BY DEF IInv, Places, Queued
  <2> QED
    BY <2>1 DEF OpenTasksKnown, Pending
<1> QED
  BY <1>1, AlwaysIInv, PTL

-----------------------------------------------------------------------------
(* The queue implements SerialExecutor *)

(* One step of the queue is one step of the executor, or none. *)
LEMMA StepSimulation ==
  ASSUME IInv, [Next]_vars
  PROVE  [Executor!Next]_(Executor!executor)
<1> USE DEF Executor!executor
<1>1. ASSUME UNCHANGED <<tasks, current, open>> PROVE [Executor!Next]_(Executor!executor)
  BY <1>1
<1>2. ASSUME NEW s \in Threads, push(s) PROVE [Executor!Next]_(Executor!executor)
  <2> DEFINE t == <<s, sent[s] + 1>>
  <2>1. /\ sent[s] < MaxTasks(s) /\ sent' = [sent EXCEPT ![s] = @ + 1]
        /\ tasks' = Append(tasks, <<s, sent'[s]>>)
        /\ open' = open \cup {<<s, sent'[s]>>} /\ current' = current
    BY <1>2 DEF push
  <2>2. sent \in [Threads -> Nat] /\ sent[s] \in Nat
    BY DEF IInv, TypeOK
  <2>3. sent'[s] = sent[s] + 1 /\ sent[s] + 1 \in Nat \ {0} /\ sent[s] + 1 <= MaxTasks(s)
    BY <2>1, <2>2, MaxTasksType
  <2>4. t \in Task /\ ~(t[2] <= sent[t[1]])
    BY <2>2, <2>3, TaskType
  <2>5. t \notin open
    BY <2>4, Zenon DEF IInv, Places
  <2>6. Executor!Submit(t)
    BY <2>1, <2>3, <2>5 DEF Executor!Submit
  <2> QED
    BY <2>4, <2>6, Zenon DEF Executor!Next
<1>3. ASSUME take PROVE [Executor!Next]_(Executor!executor)
  <2>1. /\ worker = "take" /\ open' = open
        /\ \/ tasks # <<>> /\ current' = Head(tasks) /\ tasks' = Tail(tasks)
           \/ tasks' = tasks /\ current' = current
    BY <1>3 DEF take
  <2>2. current = NoTask
    BY <2>1 DEF IInv, InHand
  <2> QED
    BY <2>1, <2>2, <1>1 DEF Executor!Next, Executor!Take
<1>4. ASSUME process PROVE [Executor!Next]_(Executor!executor)
  <2>1. /\ worker = "process" /\ tasks' = tasks /\ current' = current
        /\ open' = open \/ open' = open \ {current}
    BY <1>4 DEF process
  <2>2. current \in open /\ current \in Task /\ \A i \in DOMAIN tasks : tasks[i] # current
    BY <2>1 DEF IInv, InHand, Places, TypeOK
  <2> QED
    BY <2>1, <2>2, <1>1 DEF Executor!Next, Executor!SetPromise
<1>5. ASSUME NEW t \in Pending, serve(t) \/ expire(t) PROVE [Executor!Next]_(Executor!executor)
  <2>1. tasks' = tasks /\ current' = current /\ open' = open \ {t}
    BY <1>5 DEF serve, expire, forget
  <2>2. t \in open /\ t \in Task /\ \A i \in DOMAIN tasks : tasks[i] # t
    BY DEF IInv, Places, TypeOK, Pending
  <2> QED
    BY <2>1, <2>2 DEF Executor!Next, Executor!SetPromise
<1>6. ASSUME end_expiry PROVE [Executor!Next]_(Executor!executor)
  <2>1. tasks' = tasks /\ open' = open /\ current' = NoTask
    BY <1>6, SMTT(30) DEF end_expiry
  <2> QED
    BY <2>1, <1>1 DEF Executor!Next, Executor!Finish
<1>7. ASSUME \/ \E s \in Threads : notify_one(s) \/ get(s)
             \/ lock \/ test \/ sleep \/ wake \/ wake_spuriously \/ time_out \/ end_retries
             \/ Destructor \/ (\E t \in timed : elapse(t)) \/ UNCHANGED vars
      PROVE  UNCHANGED <<tasks, current, open>>
  BY <1>7, Zenon DEF notify_one, get, lock, test, sleep, wake, wake_spuriously, time_out, end_retries,
              Destructor, request_stop, notify_all, join, elapse, vars
<1> QED
  BY <1>1, <1>2, <1>3, <1>4, <1>5, <1>6, <1>7, Zenon DEF Next, Submitter, Worker

(* Whatever the threads do, tasks are executed one at a time in the order in
   which they were pushed, and each promise is set at most once. *)
THEOREM ImplementsExecutor ==
  Spec => Executor!Init /\ [][Executor!Next]_(Executor!executor)
<1>1. Init => Executor!Init
  BY DEF Init, Executor!Init
<1> QED
  BY <1>1, AlwaysIInv, StepSimulation, PTL DEF Spec
=============================================================================
