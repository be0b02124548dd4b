-------------------------- MODULE SerialExecutor ---------------------------
(***************************************************************************)
(* What the threads of the server rely on when they hand work to the       *)
(* CommandProcessor: tasks are taken one at a time, in the order in which  *)
(* they were submitted; a promise is set only after its task was taken,    *)
(* and at most once; and every submitted task is eventually taken.         *)
(* TaskQueue shows that the mutex, the condition variable and the worker   *)
(* loop keep this promise.                                                 *)
(***************************************************************************)
EXTENDS Sequences

CONSTANTS Task, NoTask   \* NoTask is no member of Task

VARIABLES
  queue,     \* tasks submitted and not yet taken
  current,   \* the task that is being executed, or NoTask
  open       \* submitted tasks whose promise is not set

executor == <<queue, current, open>>

Init == queue = <<>> /\ current = NoTask /\ open = {}

Submit(t) ==
  /\ t \notin open
  /\ queue' = Append(queue, t)
  /\ open' = open \cup {t}
  /\ UNCHANGED current

Take ==
  /\ current = NoTask /\ queue # <<>>
  /\ current' = Head(queue)
  /\ queue' = Tail(queue)
  /\ UNCHANGED open

(* The promise of the current task or of one that was kept for later is set. *)
SetPromise(t) ==
  /\ t \in open /\ \A i \in DOMAIN queue : queue[i] # t
  /\ open' = open \ {t}
  /\ UNCHANGED <<queue, current>>

Finish == current # NoTask /\ current' = NoTask /\ UNCHANGED <<queue, open>>

Next == Take \/ Finish \/ \E t \in Task : Submit(t) \/ SetPromise(t)

(* Every task is taken, and no task holds the executor for ever. *)
Spec == Init /\ [][Next]_executor /\ WF_executor(Take) /\ WF_executor(Finish)
=============================================================================
