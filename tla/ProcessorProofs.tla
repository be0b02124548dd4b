-------------------------- MODULE ProcessorProofs --------------------------
(* What a step of the worker does to the promises, to the pending commands    *)
(* and to the data, given the inductive invariant of ProcessorInvariantProofs. *)
EXTENDS ProcessorInvariantProofs

-----------------------------------------------------------------------------
(* What every task, and every later step of the worker, leaves alone *)

(* A task leaves the clocks alone and starts the retries, a transaction, or   *)
(* nothing more; only BLPOP adds to its queue.                                *)
LEMMA TaskFrame ==
  ASSUME NEW c, NEW cmd, ProcessTask(c, cmd)
  PROVE  /\ Take(c, cmd) /\ UNCHANGED <<now, scenario, checked_at>>
         /\ pc' \in {"exec", "pops", "terminated"}
         /\ pc' = "exec" => StartExec(c, cmd)
         /\ process_blpop(c, cmd) \/ UNCHANGED pending_list_pops
<1> DEFINE Framed == Take(c, cmd) /\ UNCHANGED <<now, scenario, checked_at>>
<1>1. CASE RejectReplicaWrite(c, cmd) \/ QueueCommand(c, cmd)
  <2>1. Framed /\ pc' = "pops" /\ UNCHANGED pending_list_pops
    BY <1>1, ZenonT(20) DEF RejectReplicaWrite, QueueCommand, StartRetries, pending
  <2> QED
    BY <2>1
<1>2. CASE process_blpop(c, cmd)
  <2>1. Framed /\ pc' = "pops"
    BY <1>2, ZenonT(20) DEF process_blpop, StartRetries
  <2> QED
    BY <1>2, <2>1
<1>3. CASE process_xread(c, cmd)
  <2>1. Framed /\ pc' = "pops" /\ UNCHANGED pending_list_pops
    BY <1>3, ZenonT(20) DEF process_xread, StartRetries
  <2> QED
    BY <2>1
<1>4. CASE ExecuteDirectly(c, cmd)
  <2>1. Framed /\ pc' \in {"pops", "terminated"} /\ UNCHANGED pending_list_pops
    BY <1>4, ZenonT(20) DEF ExecuteDirectly, StartRetries, pending
  <2> QED
    BY <2>1
<1>5. CASE Watch(c, cmd) \/ Unwatch(c, cmd) \/ Multi(c, cmd) \/ Discard(c, cmd)
  <2>1. Framed /\ pc' = "pops" /\ UNCHANGED pending_list_pops
    BY <1>5, ZenonT(20) DEF Watch, Unwatch, Multi, Discard, Control, StartRetries, pending
  <2> QED
    BY <2>1
<1>6. CASE StartExec(c, cmd)
  <2>1. Framed /\ pc' \in {"exec", "pops"} /\ UNCHANGED pending_list_pops
    BY <1>6, ZenonT(20) DEF StartExec, Control, StartRetries, pending
  <2> QED
    BY <1>6, <2>1
<1> QED
  BY <1>1, <1>2, <1>3, <1>4, <1>5, <1>6, ZenonT(20) DEF ProcessTask

(* After a task, the worker leaves the scenario and the transactions alone,   *)
(* executes no other transaction, and only takes a BLPOP out of its queue.    *)
LEMMA WorkFrame ==
  ASSUME Work
  PROVE  /\ UNCHANGED <<scenario, transactions>>
         /\ pc' = "exec" => ExecCommand
         /\ \/ UNCHANGED pending_list_pops
            \/ /\ pending_list_pops' = erase(pending_list_pops, cursor)
               /\ cursor <= Len(pending_list_pops)
<1> DEFINE Framed == UNCHANGED <<scenario, transactions>>
<1>1. CASE ExecCommand
  <2>1. Framed /\ UNCHANGED pending_list_pops
    BY <1>1, Zenon DEF ExecCommand, pending
  <2> QED
    BY <1>1, <2>1
<1>2. CASE FinishExec \/ WakeAtDeadline
  <2>1. Framed /\ pc' # "exec" /\ UNCHANGED pending_list_pops
    BY <1>2, ZenonT(20) DEF FinishExec, WakeAtDeadline, data, pending
  <2> QED
    BY <2>1
<1>3. ASSUME NEW queue, NEW here, NEW next, EndLoop(queue, here, next)
      PROVE  Framed /\ pc' = next /\ UNCHANGED pending_list_pops
  BY <1>3 DEF EndLoop, data, pending
<1>4. CASE retry_pending_stream_read \/ expire_pending_stream_read
  <2>1. Framed /\ pc' # "exec" /\ UNCHANGED pending_list_pops
    BY <1>4, Zenon DEF retry_pending_stream_read, expire_pending_stream_read, At, data
  <2> QED
    BY <2>1
<1>5. CASE retry_pending_list_pop \/ expire_pending_list_pop
  <2>1. Framed /\ pc' # "exec"
    BY <1>5, Zenon DEF retry_pending_list_pop, expire_pending_list_pop, At, data
  <2>2. \/ UNCHANGED pending_list_pops
        \/ /\ pending_list_pops' = erase(pending_list_pops, cursor)
           /\ cursor <= Len(pending_list_pops)
    BY <1>5, ZenonT(20) DEF retry_pending_list_pop, expire_pending_list_pop, At
  <2> QED
    BY <2>1, <2>2
<1> QED
  BY <1>1, <1>2, <1>3, <1>4, <1>5 DEF Work

-----------------------------------------------------------------------------
(* Transactions *)

(* EXEC starts on the state that was watched. *)
LEMMA ExecSeesStep == IInv /\ [Next]_vars => [SeesWatched]_vars
(* A key whose revision is the recorded one after find_active_entry has not   *)
(* expired, because eviction would have given it a new revision.              *)
<1>UnchangedKey.
  ASSUME IInv, NEW c \in Sessions, NEW k \in Keys, watched_keys[c][k] # NotWatched,
         key_revision(db, now, k).revision = watched_keys[c][k]
  PROVE  db.entries[k] = snapshot[c][k] /\ ~is_expired(db.entries[k], now)
  <2> USE <1>UnchangedKey
  <2>0. db \in DatabaseType /\ WatchInv /\ watched_keys \in WatchType
    BY IInvTypes, ZenonT(20) DEF Good
  <2>1. /\ watched_keys[c][k] \in Nat /\ watched_keys[c][k] < db.next_revision
        /\ db.next_revision \in Nat
        /\ db.revisions[k] = watched_keys[c][k] => db.entries[k] = snapshot[c][k]
    BY <2>0 DEF WatchInv, WatchType, DatabaseType
  <2>2. is_expired(db.entries[k], now) => key_revision(db, now, k).revision = db.next_revision
    BY <2>0, ZenonT(20) DEF key_revision, find_active_entry, Put, DatabaseType
  <2>3. ~is_expired(db.entries[k], now) => key_revision(db, now, k).revision = db.revisions[k]
    BY ZenonT(20) DEF key_revision, find_active_entry
  <2> QED
    BY <2>1, <2>2, <2>3, SMTT(30)

(* The worker goes from waiting to executing only by an EXEC whose watched    *)
(* keys have not changed.                                                     *)
<1>ExecStep.
  ASSUME IInv, [Next]_vars, pc = "wait", pc' = "exec"
  PROVE  \E c \in Sessions : /\ executing'.client = c /\ db' = db
                             /\ changed_keys(c) = {}
  <2> USE <1>ExecStep
  <2>1. ASSUME NEW c \in Sessions, NEW cmd, ProcessTask(c, cmd)
        PROVE  StartExec(c, cmd)
    BY <2>1, TaskFrame
  <2>2. ASSUME NEW c \in Sessions, NEW cmd, StartExec(c, cmd)
        PROVE  executing'.client = c /\ db' = db /\ changed_keys(c) = {}
    BY <2>2 DEF StartExec, StartRetries
  <2>3. ~ \E c \in Clients : unregister_client(c)
    BY ZenonT(20) DEF unregister_client, StartRetries
  <2>4. ~Work
    BY WorkFrame DEF ExecCommand
  <2>5. ~Tick /\ ~UNCHANGED vars
    BY ZenonT(20) DEF Tick, control, vars
  <2> QED
    BY <2>1, <2>2, <2>3, <2>4, <2>5, ZenonT(20) DEF Next

<1> SUFFICES ASSUME IInv, [Next]_vars, pc = "wait", pc' = "exec",
                    NEW k \in Keys, watched_keys[executing'.client][k] # NotWatched
             PROVE  /\ db'.entries[k] = snapshot[executing'.client][k]
                    /\ ~is_expired(db'.entries[k], now)
  BY ZenonT(20) DEF SeesWatched
<1>1. PICK c \in Sessions : executing'.client = c /\ db' = db /\ changed_keys(c) = {}
  BY <1>ExecStep
<1>2. key_revision(db, now, k).revision = watched_keys[c][k]
  BY <1>1, ZenonT(20) DEF changed_keys
<1> QED
  BY <1>1, <1>2, <1>UnchangedKey, ZenonT(20)

-----------------------------------------------------------------------------
(* One answer for every command *)

(* A client joins the end of a queue in which it was not. *)
LEMMA PushedOnce ==
  ASSUME NEW S, NEW q \in Seq(S), NEW r \in S, one_each(q), r.client \notin clients_of(q)
  PROVE  /\ one_each(push_back(q, r))
         /\ clients_of(push_back(q, r)) = clients_of(q) \cup {r.client}
         /\ keeps_order(q, push_back(q, r))
<1> DEFINE p == push_back(q, r)
<1>1. /\ DOMAIN p = 1..Len(q) + 1 /\ DOMAIN q = 1..Len(q) /\ Len(q) \in Nat
      /\ \A i \in 1..Len(q) : p[i] = q[i]
      /\ p[Len(q) + 1] = r
  BY DEF push_back
<1>2. \A i \in 1..Len(q) : q[i].client # r.client
  BY <1>1, ZenonT(20) DEF clients_of
<1> HIDE DEF p
<1>3. \A i \in 1..Len(q) + 1 : i \in 1..Len(q) \/ i = Len(q) + 1
  BY <1>1
<1>4. one_each(p)
  <2> SUFFICES ASSUME NEW i \in 1..Len(q) + 1, NEW j \in 1..Len(q) + 1,
                      p[i].client = p[j].client
               PROVE  i = j
    BY <1>1, ZenonT(20) DEF one_each
  <2> QED
    BY <1>1, <1>2, <1>3, ZenonT(20) DEF one_each
<1>5. clients_of(p) = clients_of(q) \cup {r.client}
  BY <1>1, <1>3, SMTT(30) DEF clients_of
<1>6. keeps_order(q, p)
  <2> SUFFICES ASSUME NEW i \in 1..Len(q) + 1, NEW j \in 1..Len(q) + 1, i < j,
                      NEW n \in positions(q, p[j].client)
               PROVE  \E m \in positions(q, p[i].client) : m < n
    BY <1>1, ZenonT(20) DEF keeps_order
  <2>1. n \in 1..Len(q) /\ q[n].client = p[j].client
    BY <1>1, ZenonT(20) DEF positions
  <2>2. j \in 1..Len(q) /\ p[j] = q[j]
    BY <1>1, <1>2, <1>3, <2>1, ZenonT(20)
  <2>3. n = j
    BY <1>1, <2>1, <2>2, ZenonT(20) DEF one_each
  <2>4. i \in 1..Len(q) /\ p[i] = q[i]
    BY <1>1, <2>2
  <2>5. i \in positions(q, p[i].client)
    BY <1>1, <2>4, ZenonT(20) DEF positions
  <2> QED
    BY <2>3, <2>5
<1> QED
  BY <1>4, <1>5, <1>6 DEF p

(* What erase leaves in a queue was there before. *)
LEMMA ErasedElements ==
  ASSUME NEW S, NEW q \in Seq(S), NEW i \in 1..Len(q)
  PROVE  /\ DOMAIN erase(q, i) = 1..Len(q) - 1
         /\ \A n \in 1..Len(q) - 1 : \E m \in DOMAIN q : erase(q, i)[n] = q[m]
<1> DEFINE p == erase(q, i)
<1>1. /\ p \in Seq(S) /\ Len(p) = Len(q) - 1
      /\ \A n \in 1..Len(q) - 1 : p[n] = IF n < i THEN q[n] ELSE q[n + 1]
  BY Removed, Zenon
<1>2. \A n \in 1..Len(q) - 1 : n \in DOMAIN q /\ n + 1 \in DOMAIN q
  OBVIOUS
<1> HIDE DEF p
<1>3. DOMAIN p = 1..Len(q) - 1
  BY <1>1
<1> QED
  BY <1>1, <1>2, <1>3, Zenon DEF p

(* Append leaves the elements where they are and adds one. *)
LEMMA AppendedElements ==
  ASSUME NEW S, NEW q \in Seq(S), NEW e
  PROVE  \A n \in DOMAIN Append(q, e) :
           Append(q, e)[n] = e \/ (n \in DOMAIN q /\ Append(q, e)[n] = q[n])
<1> SUFFICES ASSUME NEW n \in DOMAIN Append(q, e)
             PROVE  Append(q, e)[n] = e \/ (n \in DOMAIN q /\ Append(q, e)[n] = q[n])
  OBVIOUS
<1>1. /\ Len(q) \in Nat /\ DOMAIN q = 1..Len(q) /\ n \in 1..Len(q) + 1
      /\ Append(q, e)[Len(q) + 1] = e
  OBVIOUS
<1>2. \A m \in 1..Len(q) : Append(q, e)[m] = q[m]
  OBVIOUS
<1>3. n \in 1..Len(q) \/ n = Len(q) + 1
  BY <1>1
<1>4. CASE n \in 1..Len(q)
  BY <1>1, <1>2, <1>4, Zenon
<1>5. CASE n = Len(q) + 1
  BY <1>1, <1>5, Zenon
<1> QED
  BY <1>3, <1>4, <1>5, Zenon

(* A client is taken out of a queue. *)
LEMMA ErasedOnce ==
  ASSUME NEW S, NEW q \in Seq(S), NEW i \in 1..Len(q), one_each(q)
  PROVE  /\ one_each(erase(q, i))
         /\ clients_of(erase(q, i)) = clients_of(q) \ {q[i].client}
         /\ keeps_order(q, erase(q, i))
<1> DEFINE p == erase(q, i)
           back(n) == IF n < i THEN n ELSE n + 1
<1>1. /\ DOMAIN p = 1..Len(q) - 1 /\ DOMAIN q = 1..Len(q) /\ Len(q) \in Nat
      /\ \A n \in 1..Len(q) - 1 : p[n] = IF n < i THEN q[n] ELSE q[n + 1]
  BY Removed
<1>2. \A n \in 1..Len(q) - 1 : p[n] = q[back(n)] /\ back(n) \in 1..Len(q) /\ back(n) # i
  BY <1>1
<1>3. \A m, n \in 1..Len(q) - 1 : /\ back(m) = back(n) => m = n
                                  /\ m < n => back(m) < back(n)
  BY <1>1
<1>4. \A m \in 1..Len(q) : m # i => \E n \in 1..Len(q) - 1 : back(n) = m
  <2> SUFFICES ASSUME NEW m \in 1..Len(q), m # i
               PROVE  \E n \in 1..Len(q) - 1 : back(n) = m
    OBVIOUS
  <2> DEFINE n == IF m < i THEN m ELSE m - 1
  <2>1. n \in 1..Len(q) - 1 /\ back(n) = m
    BY <1>1
  <2> QED
    BY <2>1, ZenonT(20)
<1> HIDE DEF p, back
<1>5. one_each(p)
  <2> SUFFICES ASSUME NEW m \in DOMAIN p, NEW n \in DOMAIN p, p[m].client = p[n].client
               PROVE  m = n
    BY Zenon DEF one_each
  <2>1. /\ p[m] = q[back(m)] /\ p[n] = q[back(n)]
        /\ back(m) \in DOMAIN q /\ back(n) \in DOMAIN q
    BY <1>1, <1>2, Zenon
  <2> QED
    BY <1>1, <1>3, <2>1, Zenon DEF one_each
<1>6. clients_of(p) = clients_of(q) \ {q[i].client}
  <2>1. \A n \in 1..Len(q) - 1 : p[n].client \in clients_of(q) /\ p[n].client # q[i].client
    <3> SUFFICES ASSUME NEW n \in 1..Len(q) - 1
                 PROVE  p[n].client \in clients_of(q) /\ p[n].client # q[i].client
      OBVIOUS
    <3>1. p[n] = q[back(n)] /\ back(n) \in DOMAIN q /\ back(n) # i /\ i \in DOMAIN q
      BY <1>1, <1>2, Zenon
    <3> QED
      BY <3>1, Zenon DEF clients_of, one_each
  <2>2. \A m \in 1..Len(q) : m # i => \E n \in 1..Len(q) - 1 : p[n].client = q[m].client
    BY <1>2, <1>4, Zenon
  <2>3. ASSUME NEW c \in clients_of(p) PROVE c \in clients_of(q) /\ c # q[i].client
    <3>1. PICK n \in 1..Len(q) - 1 : c = p[n].client
      BY <1>1, ZenonT(20) DEF clients_of
    <3> QED
      BY <2>1, <3>1, ZenonT(20)
  <2>4. ASSUME NEW c \in clients_of(q), c # q[i].client PROVE c \in clients_of(p)
    <3>1. PICK m \in 1..Len(q) : c = q[m].client
      BY <1>1, ZenonT(20) DEF clients_of
    <3>2. PICK n \in 1..Len(q) - 1 : p[n].client = c
      BY <2>2, <2>4, <3>1, ZenonT(20)
    <3> QED
      BY <1>1, <3>2, ZenonT(20) DEF clients_of
  <2> QED
    BY <2>3, <2>4
<1>7. keeps_order(q, p)
  <2> SUFFICES ASSUME NEW k \in 1..Len(q) - 1, NEW j \in 1..Len(q) - 1, k < j,
                      NEW n \in positions(q, p[j].client)
               PROVE  \E m \in positions(q, p[k].client) : m < n
    BY <1>1, Zenon DEF keeps_order
  <2>1. n \in 1..Len(q) /\ q[n].client = p[j].client
    BY <1>1, ZenonT(20) DEF positions
  <2>2. n = back(j)
    <3>1. p[j] = q[back(j)] /\ back(j) \in DOMAIN q /\ n \in DOMAIN q
      BY <1>1, <1>2, <2>1, ZenonT(20)
    <3> QED
      BY <2>1, <3>1, Zenon DEF one_each
  <2>3. back(k) \in positions(q, p[k].client) /\ back(k) < n
    BY <1>1, <1>2, <1>3, <2>2, ZenonT(20) DEF positions
  <2> QED
    BY <2>3, ZenonT(20)
<1> QED
  BY <1>5, <1>6, <1>7 DEF p

(* cancel_pending_commands takes a client out of a queue, if it is there. *)
LEMMA WithoutOnce ==
  ASSUME NEW S, NEW q \in Seq(S), NEW c, one_each(q)
  PROVE  /\ one_each(without_client(q, c))
         /\ clients_of(without_client(q, c)) = clients_of(q) \ {c}
         /\ keeps_order(q, without_client(q, c))
         /\ positions(q, c) # {} <=> c \in clients_of(q)
<1>1. positions(q, c) # {} <=> c \in clients_of(q)
  BY DEF positions, clients_of
<1>2. CASE positions(q, c) = {}
  <2>1. keeps_order(q, q)
    <3> SUFFICES ASSUME NEW i \in DOMAIN q, NEW j \in DOMAIN q, i < j,
                        NEW n \in positions(q, q[j].client)
                 PROVE  \E m \in positions(q, q[i].client) : m < n
      BY Zenon DEF keeps_order
    <3>1. n = j /\ i \in positions(q, q[i].client)
      BY DEF positions, one_each
    <3> QED
      BY <3>1
  <2> QED
    BY <1>1, <1>2, <2>1 DEF without_client
<1>3. CASE positions(q, c) # {}
  <2> DEFINE i == CHOOSE i \in positions(q, c) : TRUE
  <2>1. i \in positions(q, c)
    BY <1>3
  <2> HIDE DEF i
  <2>2. i \in 1..Len(q) /\ q[i].client = c
    BY <2>1 DEF positions
  <2>3. without_client(q, c) = erase(q, i)
    BY <1>3, Zenon DEF without_client, i
  <2> QED
    BY <1>1, <2>2, <2>3, ErasedOnce
<1> QED
  BY <1>2, <1>3, ZenonT(20)

(* A session whose command the worker takes has no other one in the processor. *)
LEMMA TakenOnce ==
  ASSUME NEW c \in Sessions, NEW cmd, AnsweredOnce, Take(c, cmd)
  PROVE  /\ pc = "wait" /\ c \notin waiting
         /\ c \notin clients_of(pending_list_pops) /\ c \notin clients_of(pending_stream_reads)
         /\ waiting = clients_of(pending_list_pops) \cup clients_of(pending_stream_reads)
         /\ clients_of(pending_list_pops) \cap clients_of(pending_stream_reads) = {}
         /\ one_each(pending_list_pops) /\ one_each(pending_stream_reads)
  BY ZenonT(20) DEF Take, AnsweredOnce

(* Propagation sets the promise, with the reply or an error. *)
LEMMA PropagateAnswers ==
  ASSUME NEW c, NEW payload, NEW reply, Propagate(c, payload, reply)
  PROVE  Answer(c, reply) \/ Answer(c, Error("MISCONF"))
  BY ZenonT(20) DEF Propagate

(* A task that is answered at once leaves the open promises as they were. *)
LEMMA AnsweredAtOnce ==
  ASSUME NEW c \in Sessions, NEW cmd, NEW reply, AnsweredOnce, Take(c, cmd),
         Answer(c, reply), UNCHANGED pending, pc' # "exec"
  PROVE  AnsweredOnce'
<1>1. waiting' = waiting
  BY TakenOnce, ZenonT(20) DEF Answer
<1> QED
  BY <1>1, TakenOnce, ZenonT(20) DEF AnsweredOnce, pending

(* BLPOP is answered or kept. *)
LEMMA BlpopOnce ==
  ASSUME NEW c \in Sessions, NEW cmd, IInv, AnsweredOnce, process_blpop(c, cmd)
  PROVE  /\ AnsweredOnce'
         /\ UNCHANGED pending_list_pops \/ keeps_order(pending_list_pops, pending_list_pops')
<1> DEFINE request == [client |-> c, key |-> cmd.key, deadline |-> deadline_after(cmd.timeout)]
<1>1. /\ Take(c, cmd) /\ pc' = "pops" /\ UNCHANGED pending_stream_reads
      /\ \/ /\ UNCHANGED pending_list_pops
            /\ \E reply : Answer(c, reply)
         \/ /\ pending_list_pops' = push_back(pending_list_pops, request)
            /\ waiting' = waiting \cup {c}
  BY PropagateAnswers, ZenonT(20) DEF process_blpop, AnswerOnly, Block, StartRetries
<1>2. CASE UNCHANGED pending_list_pops /\ \E reply : Answer(c, reply)
  BY <1>1, <1>2, AnsweredAtOnce, ZenonT(20) DEF pending
<1>3. CASE pending_list_pops' = push_back(pending_list_pops, request) /\ waiting' = waiting \cup {c}
  <2>1. request \in PopRequest
    <3>1. cmd \in BlockingPopCommand
      BY <1>1, TakeCommand, CommandSets, ZenonT(20) DEF process_blpop
    <3> QED
      BY <3>1, DeadlineType, IInvTypes, ZenonT(20) DEF PopRequest, BlockingPopCommand
  <2>2. request.client = c
    BY Zenon
  <2> HIDE DEF request
  <2>3. /\ one_each(pending_list_pops')
        /\ clients_of(pending_list_pops') = clients_of(pending_list_pops) \cup {c}
        /\ keeps_order(pending_list_pops, pending_list_pops')
    <3>1. /\ pending_list_pops \in Seq(PopRequest) /\ one_each(pending_list_pops)
          /\ request.client \notin clients_of(pending_list_pops)
      BY <1>1, <2>2, TakenOnce, IInvTypes, ZenonT(20)
    <3> QED
      BY <1>3, <2>1, <2>2, <3>1, PushedOnce
  <2> QED
    BY <1>1, <1>3, <2>3, TakenOnce, ZenonT(20) DEF AnsweredOnce
<1> QED
  BY <1>1, <1>2, <1>3, ZenonT(20)

(* Every step keeps one promise per command. *)
LEMMA NextOnce == IInv /\ AnsweredOnce /\ [Next]_vars => AnsweredOnce'
(* XREAD is answered or kept, with its positions resolved. *)
<1>XreadOnce.
  ASSUME NEW c \in Sessions, NEW cmd, IInv, AnsweredOnce, process_xread(c, cmd)
  PROVE  AnsweredOnce'
  <2> USE <1>XreadOnce
  <2> DEFINE read == read_streams(db, now, cmd.requests)
             request == [client |-> c, requests |-> read.requests,
                         deadline |-> deadline_after(cmd.timeout)]
  <2>1. /\ Take(c, cmd) /\ pc' = "pops" /\ UNCHANGED pending_list_pops
        /\ \/ /\ UNCHANGED pending_stream_reads
              /\ \E reply : Answer(c, reply)
           \/ /\ pending_stream_reads' = push_back(pending_stream_reads, request)
              /\ waiting' = waiting \cup {c}
    BY ZenonT(20) DEF process_xread, AnswerOnly, Block, StartRetries
  <2>2. CASE UNCHANGED pending_stream_reads /\ \E reply : Answer(c, reply)
    BY <2>1, <2>2, AnsweredAtOnce, ZenonT(20) DEF pending
  <2>3. CASE /\ pending_stream_reads' = push_back(pending_stream_reads, request)
             /\ waiting' = waiting \cup {c}
    <3> DEFINE S == ReadRequests \cup {request}
    <3>2. request.client = c
      BY Zenon
    <3> HIDE DEF request
    <3>3. /\ one_each(pending_stream_reads')
          /\ clients_of(pending_stream_reads') = clients_of(pending_stream_reads) \cup {c}
      <4>1. /\ pending_stream_reads \in Seq(ReadRequests) /\ one_each(pending_stream_reads)
            /\ request.client \notin clients_of(pending_stream_reads)
        BY <2>1, <3>2, TakenOnce, IInvTypes, ZenonT(20)
      <4>2. pending_stream_reads \in Seq(S) /\ request \in S
        BY <4>1
      <4> HIDE DEF S
      <4> QED
        BY <2>3, <3>2, <4>1, <4>2, PushedOnce
    <3> QED
      BY <2>1, <2>3, <3>3, TakenOnce, ZenonT(20) DEF AnsweredOnce
  <2> QED
    BY <2>1, <2>2, <2>3, ZenonT(20)

(* EXEC is answered, or its promise stays open while its commands execute. *)
<1>StartExecOnce.
  ASSUME NEW c \in Sessions, NEW cmd, AnsweredOnce, StartExec(c, cmd)
  PROVE  AnsweredOnce'
  <2> USE <1>StartExecOnce
  <2>1. /\ Take(c, cmd) /\ UNCHANGED pending
        /\ \/ pc' = "pops" /\ \E reply : Answer(c, reply)
           \/ pc' = "exec" /\ executing'.client = c /\ waiting' = waiting \cup {c}
    BY DEF StartExec, Control, AnswerOnly, Block, StartRetries
  <2>2. CASE pc' = "pops" /\ \E reply : Answer(c, reply)
    BY <2>1, <2>2, AnsweredAtOnce
  <2>3. CASE pc' = "exec" /\ executing'.client = c /\ waiting' = waiting \cup {c}
    BY <2>1, <2>3, TakenOnce, ZenonT(20) DEF AnsweredOnce, pending
  <2> QED
    BY <2>1, <2>2, <2>3

(* Every task is answered or kept. *)
<1>TaskOnce.
  ASSUME NEW c \in Sessions, NEW cmd, IInv, AnsweredOnce, ProcessTask(c, cmd)
  PROVE  AnsweredOnce'
  <2> USE <1>TaskOnce
  <2>1. CASE RejectReplicaWrite(c, cmd) \/ QueueCommand(c, cmd) \/ Unwatch(c, cmd)
    <3>1. UNCHANGED pending /\ pc' = "pops" /\ \E reply : Answer(c, reply)
      BY <2>1, ZenonT(20) DEF RejectReplicaWrite, QueueCommand, Unwatch, AnswerOnly, StartRetries
    <3> QED
      BY <3>1, TaskFrame, AnsweredAtOnce
  <2>3. CASE Watch(c, cmd) \/ Multi(c, cmd) \/ Discard(c, cmd)
    <3>1. UNCHANGED pending /\ pc' = "pops" /\ \E reply : Answer(c, reply)
      BY <2>3, ZenonT(20) DEF Watch, Multi, Discard, AnswerOnly, StartRetries
    <3> QED
      BY <3>1, TaskFrame, AnsweredAtOnce
  <2>2. CASE ExecuteDirectly(c, cmd)
    <3>1. /\ Take(c, cmd) /\ UNCHANGED pending
          /\ pc' = "terminated" \/ (pc' = "pops" /\ \E reply : Answer(c, reply))
      BY <2>2, PropagateAnswers, ZenonT(20) DEF ExecuteDirectly, StartRetries
    <3>2. CASE pc' = "terminated"
      BY <3>1, <3>2, ZenonT(20) DEF AnsweredOnce, pending
    <3> QED
      BY <3>1, <3>2, AnsweredAtOnce
  <2> QED
    BY <2>1, <2>2, <2>3, BlpopOnce, <1>XreadOnce, <1>StartExecOnce, ZenonT(20) DEF ProcessTask

(* A pending pop is answered and leaves the queue. *)
<1>PopLeaves.
  ASSUME IInv, AnsweredOnce, pc \in {"pops", "expire_pops"}, pc' = pc,
         cursor <= Len(pending_list_pops),
         pending_list_pops' = erase(pending_list_pops, cursor), UNCHANGED pending_stream_reads,
         NEW reply, Answer(pending_list_pops[cursor].client, reply)
  PROVE  AnsweredOnce'
  <2> USE <1>PopLeaves
  <2>1. /\ pending_list_pops \in Seq(PopRequest) /\ cursor \in 1..Len(pending_list_pops)
        /\ one_each(pending_list_pops)
    BY IInvTypes DEF AnsweredOnce
  <2>2. /\ one_each(pending_list_pops')
        /\ clients_of(pending_list_pops')
             = clients_of(pending_list_pops) \ {pending_list_pops[cursor].client}
    BY <2>1, ErasedOnce, ZenonT(20)
  <2>3. pending_list_pops[cursor].client \in clients_of(pending_list_pops)
    BY <2>1 DEF clients_of
  <2> QED
    BY <2>2, <2>3 DEF AnsweredOnce, Answer

(* A pending read is answered and leaves the queue. *)
<1>ReadLeaves.
  ASSUME IInv, AnsweredOnce, pc \in {"reads", "expire_reads"}, pc' = pc,
         cursor <= Len(pending_stream_reads),
         pending_stream_reads' = erase(pending_stream_reads, cursor), UNCHANGED pending_list_pops,
         NEW reply, Answer(pending_stream_reads[cursor].client, reply)
  PROVE  AnsweredOnce'
  <2> USE <1>ReadLeaves
  <2>1. /\ pending_stream_reads \in Seq(ReadRequests) /\ cursor \in 1..Len(pending_stream_reads)
        /\ one_each(pending_stream_reads)
    BY IInvTypes DEF AnsweredOnce
  <2>2. /\ one_each(pending_stream_reads')
        /\ clients_of(pending_stream_reads')
             = clients_of(pending_stream_reads) \ {pending_stream_reads[cursor].client}
    BY <2>1, ErasedOnce, ZenonT(20)
  <2>3. pending_stream_reads[cursor].client \in clients_of(pending_stream_reads)
    BY <2>1 DEF clients_of
  <2> QED
    BY <2>2, <2>3, ZenonT(20) DEF AnsweredOnce, Answer

(* Nothing is answered and nobody leaves a queue. *)
<1>NobodyLeaves.
  ASSUME AnsweredOnce, pc # "terminated", pc' # "terminated",
         pc' = "exec" <=> pc = "exec", executing'.client = executing.client,
         UNCHANGED <<waiting, pending>>
  PROVE  AnsweredOnce'
  BY <1>NobodyLeaves, ZenonT(20) DEF AnsweredOnce, pending

(* A client that unregisters leaves no promise open. *)
<1>UnregisterOnce.
  ASSUME NEW c \in Clients, IInv, AnsweredOnce, unregister_client(c)
  PROVE  AnsweredOnce'
  <2> USE <1>UnregisterOnce
  <2>1. /\ pending_list_pops \in Seq(PopRequest) /\ pending_stream_reads \in Seq(ReadRequests)
        /\ one_each(pending_list_pops) /\ one_each(pending_stream_reads)
    BY IInvTypes, ZenonT(20) DEF AnsweredOnce, unregister_client
  <2>2. /\ one_each(pending_list_pops')
        /\ clients_of(pending_list_pops') = clients_of(pending_list_pops) \ {c}
        /\ positions(pending_list_pops, c) # {} <=> c \in clients_of(pending_list_pops)
    BY <2>1, WithoutOnce, ZenonT(20) DEF unregister_client
  <2>3. /\ one_each(pending_stream_reads')
        /\ clients_of(pending_stream_reads') = clients_of(pending_stream_reads) \ {c}
        /\ positions(pending_stream_reads, c) # {} <=> c \in clients_of(pending_stream_reads)
    BY <2>1, WithoutOnce, ZenonT(20) DEF unregister_client
  <2>4. /\ pc = "wait" /\ pc' = "pops"
        /\ \/ /\ positions(pending_list_pops, c) \cup positions(pending_stream_reads, c) # {}
              /\ waiting' = waiting \ {c}
           \/ /\ positions(pending_list_pops, c) \cup positions(pending_stream_reads, c) = {}
              /\ waiting' = waiting
    BY ZenonT(20) DEF unregister_client, StartRetries, AnswerOnly, Answer, Silent
  <2>5. waiting = clients_of(pending_list_pops) \cup clients_of(pending_stream_reads)
    BY <2>4, ZenonT(20) DEF AnsweredOnce
  <2>6. waiting' = waiting \ {c}
    BY <2>2, <2>3, <2>4, <2>5
  <2> QED
    BY <2>2, <2>3, <2>4, <2>5, <2>6, ZenonT(20) DEF AnsweredOnce

(* The retry loop of BLPOP. *)
<1>RetryPopOnce.
  ASSUME IInv, AnsweredOnce, retry_pending_list_pop
  PROVE  AnsweredOnce'
  <2> USE <1>RetryPopOnce
  <2>1. /\ pc = "pops" /\ pc' = pc /\ cursor <= Len(pending_list_pops)
        /\ UNCHANGED <<pending_stream_reads, executing>>
        /\ \/ waiting' = waiting /\ UNCHANGED pending_list_pops
           \/ /\ pending_list_pops' = erase(pending_list_pops, cursor)
              /\ \E reply : Answer(pending_list_pops[cursor].client, reply)
    BY PropagateAnswers, Zenon DEF retry_pending_list_pop, At, Advance, Silent, AnswerOnly
  <2>2. CASE waiting' = waiting /\ UNCHANGED pending_list_pops
    BY <2>1, <2>2, <1>NobodyLeaves DEF pending
  <2> QED
    BY <2>1, <2>2, <1>PopLeaves

(* The retry loop of XREAD: resolving "$" changes no client. *)
<1>RetryReadOnce.
  ASSUME IInv, AnsweredOnce, retry_pending_stream_read
  PROVE  AnsweredOnce'
  <2> USE <1>RetryReadOnce
  <2>1. /\ pc = "reads" /\ pc' = pc /\ cursor <= Len(pending_stream_reads)
        /\ UNCHANGED <<pending_list_pops, executing>>
        /\ \/ /\ waiting' = waiting
              /\ \E requests : pending_stream_reads' =
                    [pending_stream_reads EXCEPT ![cursor].requests = requests]
           \/ /\ pending_stream_reads' = erase(pending_stream_reads, cursor)
              /\ \E reply : Answer(pending_stream_reads[cursor].client, reply)
    BY ZenonT(20) DEF retry_pending_stream_read, At, Advance, Silent, AnswerOnly
  <2>2. ASSUME waiting' = waiting, NEW requests,
               pending_stream_reads' = [pending_stream_reads EXCEPT ![cursor].requests = requests]
        PROVE  AnsweredOnce'
    <3>1. /\ pending_stream_reads \in Seq(ReadRequests)
          /\ cursor \in DOMAIN pending_stream_reads
      BY <2>1, IInvTypes
    <3>2. /\ DOMAIN pending_stream_reads' = DOMAIN pending_stream_reads
          /\ \A i \in DOMAIN pending_stream_reads :
               pending_stream_reads'[i].client = pending_stream_reads[i].client
      <4>1. pending_stream_reads[cursor] \in ReadRequests
        BY <3>1
      <4> QED
        BY <2>2, <3>1, <4>1 DEF ReadRequests
    <3>3. clients_of(pending_stream_reads') = clients_of(pending_stream_reads)
      BY <3>2 DEF clients_of
    <3>4. one_each(pending_stream_reads) => one_each(pending_stream_reads')
      BY <3>2, Zenon DEF one_each
    <3> QED
      BY <2>1, <2>2, <3>3, <3>4, Zenon DEF AnsweredOnce
  <2> QED
    BY <2>1, <2>2, <1>ReadLeaves

(* The expiry loops. *)
<1>ExpireOnce.
  ASSUME IInv, AnsweredOnce, expire_pending_list_pop \/ expire_pending_stream_read
  PROVE  AnsweredOnce'
  <2> USE <1>ExpireOnce
  <2>1. CASE expire_pending_list_pop
    <3>1. /\ pc = "expire_pops" /\ pc' = pc /\ cursor <= Len(pending_list_pops)
          /\ UNCHANGED <<pending_stream_reads, executing>>
          /\ \/ waiting' = waiting /\ UNCHANGED pending_list_pops
             \/ /\ pending_list_pops' = erase(pending_list_pops, cursor)
                /\ Answer(pending_list_pops[cursor].client, Nil)
      BY <2>1, ZenonT(20) DEF expire_pending_list_pop, At, Advance, Silent, AnswerOnly
    <3>2. CASE waiting' = waiting /\ UNCHANGED pending_list_pops
      BY <3>1, <3>2, <1>NobodyLeaves DEF pending
    <3> QED
      BY <3>1, <3>2, <1>PopLeaves
  <2>2. CASE expire_pending_stream_read
    <3>1. /\ pc = "expire_reads" /\ pc' = pc /\ cursor <= Len(pending_stream_reads)
          /\ UNCHANGED <<pending_list_pops, executing>>
          /\ \/ waiting' = waiting /\ UNCHANGED pending_stream_reads
             \/ /\ pending_stream_reads' = erase(pending_stream_reads, cursor)
                /\ Answer(pending_stream_reads[cursor].client, Nil)
      BY <2>2, ZenonT(20) DEF expire_pending_stream_read, At, Advance, Silent, AnswerOnly
    <3>2. CASE waiting' = waiting /\ UNCHANGED pending_stream_reads
      BY <3>1, <3>2, <1>NobodyLeaves DEF pending
    <3> QED
      BY <3>1, <3>2, <1>ReadLeaves
  <2> QED
    BY <2>1, <2>2

(* The steps of a transaction: its promise is open until the last one. *)
<1>ExecOnce.
  ASSUME IInv, AnsweredOnce, ExecCommand \/ FinishExec
  PROVE  AnsweredOnce'
  <2> USE <1>ExecOnce
  <2>1. CASE ExecCommand
    <3>1. /\ pc = "exec" /\ pc' \in {"exec", "terminated"}
          /\ UNCHANGED <<waiting, pending>>
      BY <2>1, Zenon DEF ExecCommand, Silent
    <3>2. executing'.client = executing.client
      <4>1. executing \in ExecutingType
        BY IInvTypes
      <4>2. PICK commands, payload :
              executing' = [executing EXCEPT !.commands = commands, !.payload = payload]
        BY <2>1, Zenon DEF ExecCommand
      <4> QED
        BY <4>1, <4>2 DEF ExecutingType
    <3>3. CASE pc' = "terminated"
      BY <3>1, <3>3 DEF AnsweredOnce, pending
    <3> QED
      BY <3>1, <3>2, <3>3, <1>NobodyLeaves
  <2>2. CASE FinishExec
    <3>1. /\ pc = "exec" /\ pc' = "pops" /\ UNCHANGED pending
          /\ \E reply : Answer(executing.client, reply)
      BY <2>2, PropagateAnswers, ZenonT(20) DEF FinishExec
    <3> QED
      BY <3>1, ZenonT(20) DEF AnsweredOnce, Answer, pending
  <2> QED
    BY <2>1, <2>2

(* The steps between the loops, and the clock. *)
<1>QuietOnce.
  ASSUME IInv, AnsweredOnce,
         \/ WakeAtDeadline \/ Tick
         \/ \E queue, here, next : /\ EndLoop(queue, here, next)
                                   /\ here # "exec" /\ here # "terminated"
                                   /\ next # "exec" /\ next # "terminated"
  PROVE  AnsweredOnce'
  <2> USE <1>QuietOnce
  <2>1. CASE Tick
    BY <2>1, ZenonT(20) DEF Tick, Silent, pending, control, AnsweredOnce
  <2>2. CASE ~Tick
    <3>1. /\ pc # "exec" /\ pc # "terminated" /\ pc' # "exec" /\ pc' # "terminated"
          /\ UNCHANGED <<waiting, pending, executing>>
      BY <2>2 DEF WakeAtDeadline, EndLoop, Silent
    <3> QED
      BY <3>1, <1>NobodyLeaves
  <2> QED
    BY <2>1, <2>2

<1> SUFFICES ASSUME IInv, AnsweredOnce, [Next]_vars PROVE AnsweredOnce'
  OBVIOUS
<1>1. CASE Work
  BY <1>1, <1>ExecOnce, <1>RetryPopOnce, <1>RetryReadOnce, <1>ExpireOnce, <1>QuietOnce, ZenonT(20)
     DEF Work
<1>2. CASE UNCHANGED vars
  BY <1>2, ZenonT(20) DEF vars, pending, control, output, AnsweredOnce
<1> QED
  BY <1>1, <1>2, <1>TaskOnce, <1>UnregisterOnce, <1>QuietOnce, ZenonT(20) DEF Next

-----------------------------------------------------------------------------
(* Service in order *)

(* Every step serves the waiters in order. *)
LEMMA ServedStep == IInv /\ AnsweredOnce /\ [Next]_vars => [ServesInOrder]_vars
(* A queue that does not change keeps its order. *)
<1>SameOrder.
  ASSUME NEW q, one_each(q), DOMAIN q \subseteq Nat
  PROVE  keeps_order(q, q)
  <2> USE <1>SameOrder
  <2> SUFFICES ASSUME NEW i \in DOMAIN q, NEW j \in DOMAIN q, i < j,
                      NEW n \in positions(q, q[j].client)
               PROVE  \E m \in positions(q, q[i].client) : m < n
    BY ZenonT(20) DEF keeps_order
  <2>1. n = j /\ i \in positions(q, q[i].client)
    BY DEF positions, one_each
  <2> QED
    BY <2>1

(* XREAD answers an error, nil or the streams that have something new. *)
<1>ReadReply.
  ASSUME NEW d, NEW time, NEW requests
  PROVE  read_streams(d, time, requests).reply.kind \in {"error", "nil", "array"}
  <2> USE <1>ReadReply
  <2>1. \E items : read_streams(d, time, requests).reply \in {WrongType, Nil, Array(items)}
    BY Zenon DEF read_streams
  <2> QED
    BY <2>1 DEF WrongType, Error, Nil, Array

(* Only BLPOP answers with a popped pair. *)
<1>OnlyBlpopPops.
  ASSUME NEW d, NEW time, NEW wall, NEW cmd, cmd.op # "BLPOP"
  PROVE  dispatch(d, time, wall, cmd).reply.kind # "popped"
  <2> USE <1>OnlyBlpopPops
  <2> DEFINE Other(r) == r.reply.kind # "popped"
  <2>0. /\ \A f : /\ Other(Result(f, Ok)) /\ Other(Result(f, Nil))
                 /\ Other(Result(f, Abort)) /\ Other(Result(f, WrongType))
        /\ \A f, x : /\ Other(Result(f, Error(x))) /\ Other(Result(f, Bulk(x)))
                    /\ Other(Result(f, Number(x))) /\ Other(Result(f, Id(x)))
                    /\ Other(Result(f, TypeName(x))) /\ Other(Result(f, KeySet(x)))
                    /\ Other(Result(f, Array(x)))
    BY ZenonT(20) DEF Result, Ok, Nil, Error, Bulk, Number, Id, TypeName, KeySet, Array, Abort,
                    WrongType
  <2> HIDE DEF Other
  <2>1. /\ \A k, v, ttl : Other(set(d, time, k, v, ttl))
        /\ \A k : /\ Other(get(d, time, k)) /\ Other(get_type(d, time, k))
                 /\ Other(get_list_length(d, time, k))
        /\ Other(keys(d, time))
    BY <2>0, ZenonT(30) DEF set, get, get_type, get_list_length, keys
  <2>2. /\ \A k : Other(increment_key(d, time, k))
        /\ \A k, values, mode : Other(add_list_elements(d, time, k, values, mode))
    BY <2>0, ZenonT(30) DEF increment_key, add_list_elements
  <2>3. \A k, start, stop : Other(list_elements(d, time, k, start, stop))
    BY <2>0, ZenonT(30) DEF list_elements
  <2>7. \A k, start, stop : Other(stream_range(d, time, k, start, stop))
    BY <2>0, ZenonT(30) DEF stream_range
  <2>4. Other(lpop(d, time, cmd)) /\ Other(xadd(d, time, wall, cmd))
    BY <2>0, ZenonT(30) DEF lpop, pop_list_element, pop_list_elements, xadd, add_stream
  <2>5. Other(xread(d, time, cmd))
    BY <1>ReadReply, ZenonT(20) DEF xread, Result, Other
  <2>6. Other(dispatch(d, time, wall, cmd))
    BY <2>0, <2>1, <2>2, <2>3, <2>4, <2>5, <2>7, ZenonT(20) DEF dispatch
  <2> QED
    BY <2>6 DEF Other

(* Nothing is popped from a key that holds nothing. *)
<1>NothingToPop.
  ASSUME Good(db), NEW k \in Keys, db.entries[k] = Absent
  PROVE  pop_list_element(db, now, k).reply.kind = "nil"
  BY <1>NothingToPop, SMTT(30)
     DEF pop_list_element, find_active_entry, is_expired, Absent, Result, Nil

(* What is propagated is answered, or the failure to append it. *)
<1>PropagatedReply.
  ASSUME NEW c, NEW payload, NEW reply, Propagate(c, payload, reply),
         answer'.reply.kind = "popped"
  PROVE  answer'.client = c /\ answer'.reply = reply
  BY <1>PropagatedReply, PropagateAnswers, SMTT(30) DEF Answer, Error

(* A pair is answered by BLPOP or by its retry. *)
<1>PoppedStep.
  ASSUME IInv, Next, answer'.reply.kind = "popped"
  PROVE  \/ \E c \in Sessions : \E cmd :
              /\ process_blpop(c, cmd) /\ answer'.reply.key = cmd.key
              /\ pop_list_element(db, now, cmd.key).reply.kind = "bulk"
         \/ /\ At(pending_list_pops, "pops")
            /\ answer'.client = pending_list_pops[cursor].client
            /\ answer'.reply.key = pending_list_pops[cursor].key
            /\ pop_list_element(db, now, pending_list_pops[cursor].key).reply.kind # "nil"
  <2> USE <1>PoppedStep
  <2>0. /\ ~Silent /\ \A c : ~Block(c)
        /\ \A c, reply : AnswerOnly(c, reply) => reply.kind = "popped"
    BY SMTT(30) DEF Silent, Block, AnswerOnly, Answer, NoAnswer, NoResponse
  <2>4. /\ \A c : /\ ~AnswerOnly(c, Ok) /\ ~AnswerOnly(c, Nil) /\ ~AnswerOnly(c, Queued)
                 /\ ~AnswerOnly(c, Executed) /\ ~AnswerOnly(c, NoResponse)
        /\ \A c, x : ~AnswerOnly(c, Error(x)) /\ ~AnswerOnly(c, Array(x))
    BY <2>0, SMTT(30) DEF Ok, Nil, Error, Array, Queued, Executed, NoResponse
  <2>1. ASSUME NEW c \in Sessions, NEW cmd, ProcessTask(c, cmd)
        PROVE  /\ process_blpop(c, cmd) /\ answer'.reply.key = cmd.key
               /\ pop_list_element(db, now, cmd.key).reply.kind = "bulk"
    <3>1. ~RejectReplicaWrite(c, cmd) /\ ~QueueCommand(c, cmd) /\ ~Unwatch(c, cmd)
      BY <2>4, ZenonT(20) DEF RejectReplicaWrite, QueueCommand, Unwatch
    <3>2. ~Watch(c, cmd) /\ ~Multi(c, cmd) /\ ~Discard(c, cmd)
      BY <2>4, ZenonT(20) DEF Watch, Multi, Discard
    <3>3. ~StartExec(c, cmd)
      BY <2>0, <2>4, ZenonT(20) DEF StartExec
    <3>4. ~ExecuteDirectly(c, cmd)
      <4> SUFFICES ASSUME ExecuteDirectly(c, cmd) PROVE FALSE
        OBVIOUS
      <4>1. cmd.op # "BLPOP"
        BY ZenonT(20) DEF ExecuteDirectly
      <4>2. PICK wall \in WallTimes :
              Propagate(c, logged(cmd, dispatch(db, now, wall, cmd).reply),
                        dispatch(db, now, wall, cmd).reply)
        BY <2>0, ZenonT(20) DEF ExecuteDirectly
      <4> QED
        BY <4>1, <4>2, <1>PropagatedReply, <1>OnlyBlpopPops
    <3>5. ~process_xread(c, cmd)
      BY <2>0, <1>ReadReply, ZenonT(20) DEF process_xread
    <3>6. ASSUME process_blpop(c, cmd)
          PROVE  /\ answer'.reply.key = cmd.key
                 /\ pop_list_element(db, now, cmd.key).reply.kind = "bulk"
      <4>1. /\ pop_list_element(db, now, cmd.key).reply.kind = "bulk"
            /\ Propagate(c, <<[op |-> "LPOP", key |-> cmd.key, count |-> 0]>>,
                         Popped(cmd.key, pop_list_element(db, now, cmd.key).reply.value))
        BY <2>0, <2>4, <3>6, ZenonT(20) DEF process_blpop, WrongType
      <4> QED
        BY <4>1, <1>PropagatedReply, SMTT(30) DEF Popped
    <3> QED
      BY <2>1, <3>1, <3>2, <3>3, <3>4, <3>5, <3>6, ZenonT(20) DEF ProcessTask
  <2>2. ~Tick /\ \A c \in Clients : ~unregister_client(c)
    BY <2>0, <2>4, ZenonT(20) DEF Tick, unregister_client
  <2>3. CASE Work
    <3>1. ~ExecCommand /\ ~WakeAtDeadline /\ \A queue, here, next : ~EndLoop(queue, here, next)
      BY <2>0, ZenonT(30) DEF ExecCommand, WakeAtDeadline, EndLoop
    <3>2. ~FinishExec
      BY <1>PropagatedReply, SMTT(30) DEF FinishExec, Executed
    <3>3. ~expire_pending_list_pop /\ ~expire_pending_stream_read
      BY <2>0, <2>4, ZenonT(20) DEF expire_pending_list_pop, expire_pending_stream_read, Advance
    <3>4. ~retry_pending_stream_read
      BY <2>0, <1>ReadReply, ZenonT(20) DEF retry_pending_stream_read, Advance
    <3>5. retry_pending_list_pop
      BY <2>3, <3>1, <3>2, <3>3, <3>4 DEF Work
    <3> DEFINE request == pending_list_pops[cursor]
               popped == pop_list_element(db, now, request.key)
    <3>6. /\ At(pending_list_pops, "pops") /\ popped.reply.kind # "nil"
          /\ Propagate(request.client, <<[op |-> "LPOP", key |-> request.key, count |-> 0]>>,
                       Popped(request.key, popped.reply.value))
      BY <2>0, <2>4, <3>5, ZenonT(20) DEF retry_pending_list_pop, Advance, WrongType
    <3> HIDE DEF request, popped
    <3>7. answer'.client = request.client /\ answer'.reply.key = request.key
      BY <3>6, <1>PropagatedReply, SMTT(30) DEF Popped
    <3> QED
      BY <3>6, <3>7, ZenonT(20) DEF request, popped
  <2> QED
    BY <2>1, <2>2, <2>3, ZenonT(20) DEF Next

(* How a step changes the queue of BLPOP. *)
<1>QueueStep.
  ASSUME IInv, AnsweredOnce, [Next]_vars
  PROVE  keeps_order(pending_list_pops, pending_list_pops')
  <2> USE <1>QueueStep
  <2>1. pending_list_pops \in Seq(PopRequest) /\ one_each(pending_list_pops)
    BY IInvTypes, ZenonT(20) DEF AnsweredOnce
  <2>2. CASE UNCHANGED pending_list_pops
    BY <2>1, <2>2, <1>SameOrder
  <2>3. CASE pending_list_pops' = erase(pending_list_pops, cursor)
             /\ cursor <= Len(pending_list_pops)
    BY <2>1, <2>3, IInvTypes, ErasedOnce
  <2>4. ASSUME NEW c \in Sessions, NEW cmd, ProcessTask(c, cmd)
        PROVE  process_blpop(c, cmd) \/ UNCHANGED pending_list_pops
    BY <2>4, TaskFrame
  <2>5. ASSUME NEW c \in Sessions, NEW cmd, process_blpop(c, cmd)
        PROVE  keeps_order(pending_list_pops, pending_list_pops')
    BY <2>2, <2>5, BlpopOnce
  <2>6. ASSUME NEW c \in Clients, unregister_client(c)
        PROVE  keeps_order(pending_list_pops, pending_list_pops')
    BY <2>1, <2>6, WithoutOnce, ZenonT(20) DEF unregister_client
  <2>7. CASE Work
    <3>1. \/ UNCHANGED pending_list_pops
          \/ /\ pending_list_pops' = erase(pending_list_pops, cursor)
             /\ cursor <= Len(pending_list_pops)
      BY <2>7, WorkFrame
    <3> QED
      BY <2>2, <2>3, <3>1
  <2>8. Tick \/ UNCHANGED vars => UNCHANGED pending_list_pops
    BY ZenonT(20) DEF Tick, vars, pending
  <2> QED
    BY <2>2, <2>4, <2>5, <2>6, <2>7, <2>8, ZenonT(20) DEF Next

<1> SUFFICES ASSUME IInv, AnsweredOnce, Next, answer'.reply.kind = "popped",
                    NEW i \in DOMAIN pending_list_pops,
                    pending_list_pops[i].key = answer'.reply.key
             PROVE  \E j \in 1..i : pending_list_pops[j].client = answer'.client
  BY <1>QueueStep, ZenonT(20) DEF ServesInOrder
<1>1. /\ i \in 1..Len(pending_list_pops) /\ cursor \in Nat \ {0}
      /\ pending_list_pops[i].key \in Keys /\ Good(db)
  <2>1. pending_list_pops \in Seq(PopRequest) /\ cursor \in Nat \ {0} /\ Good(db)
    BY IInvTypes, ZenonT(20)
  <2>2. i \in 1..Len(pending_list_pops) /\ pending_list_pops[i] \in PopRequest
    BY <2>1
  <2> QED
    BY <2>1, <2>2 DEF PopRequest
<1>2. ASSUME NEW c \in Sessions, NEW cmd, process_blpop(c, cmd), answer'.reply.key = cmd.key,
             pop_list_element(db, now, cmd.key).reply.kind = "bulk"
      PROVE  FALSE
  <2>1. pc = "wait"
    BY <1>2, ZenonT(20) DEF process_blpop, Take
  <2>2. db.entries[cmd.key] = Absent
    BY <1>2, <2>1, IInvTypes, ZenonT(20) DEF WaitersOffered
  <2> QED
    BY <1>1, <1>2, <2>2, <1>NothingToPop, ZenonT(20)
<1>3. ASSUME At(pending_list_pops, "pops"),
             answer'.client = pending_list_pops[cursor].client,
             answer'.reply.key = pending_list_pops[cursor].key,
             pop_list_element(db, now, pending_list_pops[cursor].key).reply.kind # "nil"
      PROVE  \E j \in 1..i : pending_list_pops[j].client = answer'.client
  <2>1. CASE i < cursor
    <3>1. db.entries[pending_list_pops[i].key] = Absent
      BY <1>3, <2>1, IInvTypes, ZenonT(20) DEF At, WaitersOffered
    <3> QED
      BY <1>1, <1>3, <3>1, <1>NothingToPop, ZenonT(20)
  <2>2. CASE cursor <= i
    BY <1>1, <1>3, <2>2
  <2> QED
    BY <1>1, <2>1, <2>2
<1> QED
  BY <1>2, <1>3, <1>PoppedStep, ZenonT(20)

-----------------------------------------------------------------------------
(* Blocked reads *)

(* From d to e, nothing happened but that keys that had expired were evicted. *)
Evicts(d, e, time) ==
  \A k \in Keys : \/ e.entries[k] = d.entries[k]
                  \/ is_expired(d.entries[k], time) /\ e.entries[k] = Absent

(* Looking keys up only evicts. *)
LEMMA FindEvicts ==
  ASSUME NEW d, NEW time, Good(d)
  PROVE  /\ Evicts(d, d, time)
         /\ \A k \in Keys : Evicts(d, find_active_entry(d, time, k), time)
         /\ \A ks : Evicts(d, find_active_entries(d, time, ks), time)
<1>1. Evicts(d, d, time)
  BY DEF Evicts
<1>2. ASSUME NEW k \in Keys PROVE Evicts(d, find_active_entry(d, time, k), time)
  BY ZenonT(20) DEF Evicts, find_active_entry, Put, Good, DatabaseType
<1>3. ASSUME NEW ks PROVE Evicts(d, find_active_entries(d, time, ks), time)
  BY ZenonT(20) DEF Evicts, find_active_entries
<1> QED
  BY <1>1, <1>2, <1>3

(* Reading streams only evicts. *)
LEMMA ReadEvicts ==
  ASSUME NEW d, NEW time, NEW requests, Good(d)
  PROVE  Evicts(d, read_streams(d, time, requests).db, time)
<1>1. \E ks : read_streams(d, time, requests).db = find_active_entries(d, time, ks)
  BY Zenon DEF read_streams
<1> QED
  BY <1>1, FindEvicts, Zenon

(* Eviction brings nothing to read. *)
LEMMA EvictionBringsNothing ==
  ASSUME NEW d, NEW e, NEW time, NEW request \in ReadRequest, Evicts(d, e, time),
         nothing_to_read(d, request)
  PROVE  nothing_to_read(e, request)
<1>1. request.key \in Keys
  BY DEF ReadRequest
<1>2. ~is_expired(d.entries[request.key], time)
  BY ZenonT(20) DEF nothing_to_read, is_expired
<1>3. e.entries[request.key] = d.entries[request.key]
  BY <1>1, <1>2, ZenonT(20) DEF Evicts
<1> QED
  BY <1>3, ZenonT(20) DEF nothing_to_read

(* The reads the retry loop has passed found nothing, and nothing has been    *)
(* stored since; the clock reading of an expiry loop is not in the future.    *)
ReadsOffered ==
  /\ checked_at <= now
  /\ \A i \in DOMAIN pending_stream_reads :
       pc \in {"expire_pops", "expire_reads", "wait"} \/ (pc = "reads" /\ i < cursor) =>
         \A j \in DOMAIN pending_stream_reads[i].requests :
           nothing_to_read(db, pending_stream_reads[i].requests[j])

(* The requests of a pending read. *)
LEMMA PendingRequests ==
  ASSUME IInv, NEW i \in DOMAIN pending_stream_reads
  PROVE  /\ pending_stream_reads[i].requests \in Seq(ReadRequest)
         /\ \A j \in DOMAIN pending_stream_reads[i].requests :
              pending_stream_reads[i].requests[j] \in ReadRequest
<1>1. pending_stream_reads[i] \in ReadRequests
  BY IInvTypes
<1> QED
  BY <1>1 DEF ReadRequests

(* A pending read that was offered stays offered when keys are evicted. *)
LEMMA StaysOffered ==
  ASSUME IInv, ReadsOffered, NEW i \in DOMAIN pending_stream_reads, Evicts(db, db', now),
         pc \in {"expire_pops", "expire_reads", "wait"} \/ (pc = "reads" /\ i < cursor)
  PROVE  \A j \in DOMAIN pending_stream_reads[i].requests :
           nothing_to_read(db', pending_stream_reads[i].requests[j])
<1> SUFFICES ASSUME NEW j \in DOMAIN pending_stream_reads[i].requests
             PROVE  nothing_to_read(db', pending_stream_reads[i].requests[j])
  BY Zenon
<1>1. nothing_to_read(db, pending_stream_reads[i].requests[j])
  BY ZenonT(20) DEF ReadsOffered
<1> QED
  BY <1>1, PendingRequests, EvictionBringsNothing, ZenonT(20)

(* Every step but that of the retry loop of XREAD keeps the claim about the   *)
(* reads.                                                                     *)
LEMMA NextOffered ==
  IInv /\ ReadsOffered /\ [Next]_vars => retry_pending_stream_read \/ ReadsOffered'
(* A step after which the reads are yet to be retried claims nothing of them. *)
<1>NothingClaimed.
  ASSUME checked_at' <= now',
         \/ pc' \in {"exec", "pops", "terminated"}
         \/ pc' = "reads" /\ cursor' = 1 /\ pending_stream_reads' \in Seq(ReadRequests)
  PROVE  ReadsOffered'
  BY <1>NothingClaimed DEF ReadsOffered

(* The loops that follow, in which the database does not change. *)
<1>OfferedKept.
  ASSUME IInv, ReadsOffered, UNCHANGED <<db, pending_stream_reads>>, checked_at' <= now',
         \/ pc \in {"expire_pops", "expire_reads", "wait"}
         \/ pc = "reads" /\ cursor > Len(pending_stream_reads)
         \/ UNCHANGED <<pc, cursor>>
  PROVE  ReadsOffered'
  <2> USE <1>OfferedKept
  <2>1. pending_stream_reads \in Seq(ReadRequests) /\ cursor \in Nat
    BY IInvTypes, ZenonT(20)
  <2> QED
    BY <2>1, SMTT(30) DEF ReadsOffered

(* An expired read leaves the others as they were. *)
<1>ExpireReadOffered.
  ASSUME IInv, ReadsOffered, expire_pending_stream_read
  PROVE  ReadsOffered'
  <2> USE <1>ExpireReadOffered
  <2>1. /\ pc = "expire_reads" /\ pc' = pc /\ db' = db /\ checked_at' <= now'
        /\ cursor \in 1..Len(pending_stream_reads) /\ pending_stream_reads \in Seq(ReadRequests)
        /\ \/ UNCHANGED pending_stream_reads
           \/ pending_stream_reads' = erase(pending_stream_reads, cursor)
    BY IInvTypes DEF expire_pending_stream_read, At, ReadsOffered, data
  <2>2. CASE UNCHANGED pending_stream_reads
    BY <2>1, <2>2, <1>OfferedKept
  <2>3. CASE pending_stream_reads' = erase(pending_stream_reads, cursor)
    <3>1. /\ DOMAIN pending_stream_reads' = 1..Len(pending_stream_reads) - 1
          /\ \A i \in 1..Len(pending_stream_reads) - 1 :
               \E n \in DOMAIN pending_stream_reads :
                 pending_stream_reads'[i] = pending_stream_reads[n]
      BY <2>1, <2>3, ErasedElements, Zenon
    <3> QED
      BY <2>1, <3>1, Zenon DEF ReadsOffered
  <2> QED
    BY <2>1, <2>2, <2>3

<1> SUFFICES ASSUME IInv, ReadsOffered, [Next]_vars, ~retry_pending_stream_read
             PROVE  ReadsOffered'
  OBVIOUS
<1>0. now \in Nat /\ checked_at \in Nat /\ checked_at <= now
      /\ pending_stream_reads \in Seq(ReadRequests)
  BY IInvTypes, ZenonT(20) DEF ReadsOffered
<1>1. ASSUME NEW c \in Sessions, NEW cmd, ProcessTask(c, cmd) PROVE ReadsOffered'
  <2>1. pc' \in {"exec", "pops", "terminated"} /\ checked_at' = checked_at /\ now' = now
    BY <1>1, TaskFrame
  <2> QED
    BY <1>0, <2>1, <1>NothingClaimed
<1>2. ASSUME NEW c \in Clients, unregister_client(c) PROVE ReadsOffered'
  BY <1>0, <1>2, <1>NothingClaimed, ZenonT(20) DEF unregister_client, StartRetries
<1>3. CASE ExecCommand \/ FinishExec \/ retry_pending_list_pop
  <2>1. pc' \in {"exec", "pops", "terminated"} /\ checked_at' = checked_at /\ now' = now
    <3>1. CASE ExecCommand
      BY <3>1, ZenonT(20) DEF ExecCommand
    <3>2. CASE FinishExec
      BY <3>2 DEF FinishExec
    <3>3. CASE retry_pending_list_pop
      BY <3>3, Zenon DEF retry_pending_list_pop, At
    <3> QED
      BY <1>3, <3>1, <3>2, <3>3
  <2> QED
    BY <1>0, <2>1, <1>NothingClaimed
<1>4. CASE EndLoop(pending_list_pops, "pops", "reads")
  BY <1>0, <1>4, <1>NothingClaimed DEF EndLoop, pending
<1>5. CASE \/ EndLoop(pending_stream_reads, "reads", "expire_pops")
           \/ EndLoop(pending_list_pops, "expire_pops", "expire_reads")
           \/ EndLoop(pending_stream_reads, "expire_reads", "wait")
           \/ WakeAtDeadline
  <2>1. /\ UNCHANGED <<db, pending_stream_reads>> /\ checked_at' <= now'
        /\ \/ pc \in {"expire_pops", "expire_reads", "wait"}
           \/ pc = "reads" /\ cursor > Len(pending_stream_reads)
    BY <1>0, <1>5 DEF EndLoop, WakeAtDeadline, data, pending
  <2> QED
    BY <2>1, <1>OfferedKept
<1>6. CASE expire_pending_list_pop
  BY <1>0, <1>6, <1>OfferedKept, ZenonT(20) DEF expire_pending_list_pop, At, data
<1>7. CASE Tick \/ UNCHANGED vars
  BY <1>0, <1>7, <1>OfferedKept DEF Tick, vars, data, pending, control
<1> QED
  BY <1>1, <1>2, <1>3, <1>4, <1>5, <1>6, <1>7, <1>ExpireReadOffered, ZenonT(20) DEF Next, Work

-----------------------------------------------------------------------------
(* Giving up *)

(* Every step gives up only when there is nothing. *)
LEMMA GivesUpStep == IInv /\ AnsweredOnce /\ ReadsOffered /\ [Next]_vars => [GivesUpRight]_vars
(* A client that is in no queue, or in one once. *)
<1>Positions.
  ASSUME NEW q, NEW c
  PROVE  /\ c \notin clients_of(q) => positions(q, c) = {}
         /\ \A i \in DOMAIN q : one_each(q) /\ q[i].client = c => positions(q, c) = {i}
  <2> USE <1>Positions
  <2>1. c \notin clients_of(q) => positions(q, c) = {}
    BY DEF positions, clients_of
  <2>2. ASSUME NEW i \in DOMAIN q, one_each(q), q[i].client = c PROVE positions(q, c) = {i}
    BY <2>2 DEF positions, one_each
  <2> QED
    BY <2>1, <2>2

(* Nil is answered to a client that waits for nothing, or by an expiry loop. *)
<1>NilStep.
  ASSUME IInv, AnsweredOnce, Next, NEW c, answer' = [client |-> c, reply |-> Nil]
  PROVE  \/ c \notin clients_of(pending_list_pops) /\ c \notin clients_of(pending_stream_reads)
         \/ /\ At(pending_list_pops, "expire_pops") /\ c = pending_list_pops[cursor].client
            /\ is_due(pending_list_pops[cursor].deadline, checked_at)
         \/ /\ At(pending_stream_reads, "expire_reads") /\ c = pending_stream_reads[cursor].client
            /\ is_due(pending_stream_reads[cursor].deadline, checked_at)
  <2> USE <1>NilStep
  <2>0. /\ ~Silent /\ \A s : ~Block(s)
        /\ \A s, reply : Answer(s, reply) => s = c /\ reply = Nil
    BY ZenonT(20) DEF Silent, Block, Answer, NoAnswer, NoResponse, Nil
  <2>1. ASSUME NEW s, NEW payload, NEW reply, Propagate(s, payload, reply)
        PROVE  s = c /\ reply = Nil
    <3>1. Error("MISCONF") # Nil
      BY ZenonT(20) DEF Error, Nil
    <3> QED
      BY <2>0, <2>1, <3>1, PropagateAnswers
  <2>2. ASSUME NEW s \in Sessions, NEW cmd, ProcessTask(s, cmd)
        PROVE  s = c
    <3>2. CASE RejectReplicaWrite(s, cmd) \/ QueueCommand(s, cmd) \/ Unwatch(s, cmd)
      BY <2>0, <3>2 DEF RejectReplicaWrite, QueueCommand, Unwatch, AnswerOnly
    <3>3. CASE Watch(s, cmd) \/ Multi(s, cmd) \/ Discard(s, cmd)
      BY <2>0, <3>3 DEF Watch, Multi, Discard, AnswerOnly
    <3>4. CASE StartExec(s, cmd)
      <4>1. Block(s) \/ \E reply : Answer(s, reply)
        BY <3>4, ZenonT(20) DEF StartExec, AnswerOnly
      <4> QED
        BY <2>0, <4>1, Zenon
    <3>5. CASE ExecuteDirectly(s, cmd)
      BY <2>0, <2>1, <3>5, ZenonT(20) DEF ExecuteDirectly
    <3>6. CASE process_blpop(s, cmd)
      <4>1. Block(s) \/ \E reply : Answer(s, reply)
        BY <3>6, PropagateAnswers, ZenonT(20) DEF process_blpop, AnswerOnly
      <4> QED
        BY <2>0, <4>1, Zenon
    <3>7. CASE process_xread(s, cmd)
      BY <2>0, <3>7, ZenonT(20) DEF process_xread, AnswerOnly
    <3> QED
      BY <2>2, <3>2, <3>3, <3>4, <3>5, <3>6, <3>7, ZenonT(20) DEF ProcessTask
  <2>3. ~Tick /\ \A s \in Clients : ~unregister_client(s)
    <3>1. NoResponse # Nil
      BY ZenonT(20) DEF NoResponse, Nil
    <3> QED
      BY <2>0, <3>1, ZenonT(20) DEF Tick, unregister_client, AnswerOnly
  <2>4. ~ExecCommand /\ ~WakeAtDeadline /\ \A queue, here, next : ~EndLoop(queue, here, next)
    BY <2>0, Zenon DEF ExecCommand, WakeAtDeadline, EndLoop
  <2>5. ~FinishExec
    <3>1. Executed # Nil
      BY ZenonT(20) DEF Executed, Nil
    <3> QED
      BY <2>1, <3>1 DEF FinishExec
  <2>6. ~retry_pending_list_pop
    <3>1. WrongType # Nil /\ Error("MISCONF") # Nil /\ \A k, v : Popped(k, v) # Nil
      BY ZenonT(20) DEF WrongType, Error, Popped, Nil
    <3> QED
      BY <2>0, <3>1, PropagateAnswers, ZenonT(20)
      DEF retry_pending_list_pop, Advance, AnswerOnly
  <2>7. ~retry_pending_stream_read
    <3>1. Nil.kind = "nil"
      BY ZenonT(20) DEF Nil
    <3> QED
      BY <2>0, <3>1, ZenonT(20) DEF retry_pending_stream_read, Advance, AnswerOnly
  <2>8. CASE expire_pending_list_pop
    BY <2>0, <2>8, ZenonT(20) DEF expire_pending_list_pop, Advance, AnswerOnly
  <2>9. CASE expire_pending_stream_read
    BY <2>0, <2>9, ZenonT(20) DEF expire_pending_stream_read, Advance, AnswerOnly
  <2>10. ASSUME NEW s \in Sessions, NEW cmd, ProcessTask(s, cmd)
         PROVE  c \notin clients_of(pending_list_pops) /\ c \notin clients_of(pending_stream_reads)
    BY <2>2, <2>10, TaskFrame, TakenOnce, ZenonT(20)
  <2> QED
    BY <2>10, <2>3, <2>4, <2>5, <2>6, <2>7, <2>8, <2>9, ZenonT(20) DEF Next, Work

<1> DEFINE P(c) == \A i \in positions(pending_list_pops, c) :
                     /\ timed_out(pending_list_pops[i].deadline)
                     /\ db.entries[pending_list_pops[i].key] = Absent
           R(c) == \A i \in positions(pending_stream_reads, c) :
                     /\ timed_out(pending_stream_reads[i].deadline)
                     /\ \A j \in DOMAIN pending_stream_reads[i].requests :
                          nothing_to_read(db, pending_stream_reads[i].requests[j])
<1> SUFFICES ASSUME IInv, AnsweredOnce, ReadsOffered, Next, NEW c \in Sessions,
                    answer' = [client |-> c, reply |-> Nil]
             PROVE  P(c) /\ R(c)
  BY ZenonT(20) DEF GivesUpRight
<1>1. /\ now \in Nat /\ checked_at \in Nat /\ checked_at <= now /\ cursor \in Nat \ {0}
      /\ pending_list_pops \in Seq(PopRequest) /\ pending_stream_reads \in Seq(ReadRequests)
      /\ one_each(pending_list_pops) /\ one_each(pending_stream_reads)
  BY IInvTypes, ZenonT(20) DEF ReadsOffered, AnsweredOnce
<1>2. CASE /\ c \notin clients_of(pending_list_pops)
           /\ c \notin clients_of(pending_stream_reads)
  BY <1>2, <1>Positions, ZenonT(20)
<1>3. CASE /\ At(pending_list_pops, "expire_pops") /\ c = pending_list_pops[cursor].client
           /\ is_due(pending_list_pops[cursor].deadline, checked_at)
  <2>1. /\ pc = "expire_pops" /\ cursor \in DOMAIN pending_list_pops
        /\ pending_list_pops[cursor] \in PopRequest
    BY <1>1, <1>3 DEF At
  <2>2. timed_out(pending_list_pops[cursor].deadline)
    <3>1. pending_list_pops[cursor].deadline \in Times
      BY <2>1 DEF PopRequest
    <3> QED
      BY <1>1, <1>3, <3>1 DEF is_due, timed_out, Times, Never
  <2>3. db.entries[pending_list_pops[cursor].key] = Absent
    BY <2>1, IInvTypes, ZenonT(20) DEF WaitersOffered
  <2>4. positions(pending_list_pops, c) = {cursor}
    BY <1>1, <1>3, <2>1, <1>Positions, ZenonT(20)
  <2>5. c \in clients_of(pending_list_pops)
    BY <1>3, <2>1, ZenonT(20) DEF clients_of
  <2>6. positions(pending_stream_reads, c) = {}
    BY <2>1, <2>5, <1>Positions, ZenonT(20) DEF AnsweredOnce
  <2> QED
    BY <2>2, <2>3, <2>4, <2>6, ZenonT(20)
<1>4. CASE /\ At(pending_stream_reads, "expire_reads")
           /\ c = pending_stream_reads[cursor].client
           /\ is_due(pending_stream_reads[cursor].deadline, checked_at)
  <2>1. /\ pc = "expire_reads" /\ cursor \in DOMAIN pending_stream_reads
        /\ pending_stream_reads[cursor] \in ReadRequests
    BY <1>1, <1>4 DEF At
  <2>2. timed_out(pending_stream_reads[cursor].deadline)
    <3>1. pending_stream_reads[cursor].deadline \in Times
      BY <2>1 DEF ReadRequests
    <3> QED
      BY <1>1, <1>4, <3>1 DEF is_due, timed_out, Times, Never
  <2>3. \A j \in DOMAIN pending_stream_reads[cursor].requests :
          nothing_to_read(db, pending_stream_reads[cursor].requests[j])
    BY <2>1, ZenonT(20) DEF ReadsOffered
  <2>4. positions(pending_stream_reads, c) = {cursor}
    BY <1>1, <1>4, <2>1, <1>Positions, ZenonT(20)
  <2>5. c \in clients_of(pending_stream_reads)
    BY <1>4, <2>1, ZenonT(20) DEF clients_of
  <2>6. positions(pending_list_pops, c) = {}
    BY <2>1, <2>5, <1>Positions, ZenonT(20) DEF AnsweredOnce
  <2> QED
    BY <2>2, <2>3, <2>4, <2>6, ZenonT(20)
<1> HIDE DEF P, R
<1> QED
  BY <1>2, <1>3, <1>4, <1>NilStep, ZenonT(20)

-----------------------------------------------------------------------------
(* Replicas *)

no_writes(commands) == \A i \in DOMAIN commands : ~is_write_command(commands[i])

(* On a replica, the clients have no BLPOP pending and no write queued. *)
OnlyMasterWrites ==
  Role = "replica" =>
    /\ \A i \in DOMAIN pending_list_pops : pending_list_pops[i].client = ReplicationClient
    /\ \A c \in Clients : no_writes(transactions[c].commands)
    /\ pc = "exec" /\ executing.client # ReplicationClient => no_writes(executing.commands)

(* A client of a replica that is not refused does not write. *)
LEMMA NotRejected ==
  ASSUME NEW c \in Clients, NEW cmd, Role = "replica", ~is_rejected(c, cmd)
  PROVE  ~is_write_command(cmd)
<1>1. c # ReplicationClient
  BY ProcessorAssumption
<1> QED
  BY <1>1 DEF is_rejected, source

(* Every step keeps it. *)
LEMMA NextReplica == IInv /\ OnlyMasterWrites /\ [Next]_vars => OnlyMasterWrites'
(* A task keeps it. *)
<1>TaskReplica.
  ASSUME NEW c \in Sessions, NEW cmd, IInv, OnlyMasterWrites, Role = "replica", ProcessTask(c, cmd)
  PROVE  /\ \A i \in DOMAIN pending_list_pops' : pending_list_pops'[i].client = ReplicationClient
         /\ \A s \in Clients : no_writes(transactions'[s].commands)
         /\ pc' = "exec" /\ executing'.client # ReplicationClient => no_writes(executing'.commands)
  <2> USE <1>TaskReplica
  <2>1. /\ pending_list_pops \in Seq(PopRequest) /\ transactions \in TransactionType
        /\ \A i \in DOMAIN pending_list_pops : pending_list_pops[i].client = ReplicationClient
        /\ \A s \in Clients : no_writes(transactions[s].commands)
    BY IInvTypes, ZenonT(20) DEF OnlyMasterWrites
  <2>2. \A s \in Clients : s \in Sessions /\ transactions[s].commands \in Seq(DataCommand)
    BY <2>1, ZenonT(20) DEF Sessions, TransactionType
  <2>3. \A i \in DOMAIN pending_list_pops' : pending_list_pops'[i].client = ReplicationClient
    <3>1. CASE UNCHANGED pending_list_pops
      BY <2>1, <3>1
    <3>2. CASE process_blpop(c, cmd) /\ ~UNCHANGED pending_list_pops
      <4>1. c = ReplicationClient
        BY <3>2, NotRejected, ZenonT(20)
           DEF process_blpop, is_write_command, WriteCommands, Sessions
      <4> DEFINE request == [client |-> c, key |-> cmd.key, deadline |-> deadline_after(cmd.timeout)]
      <4>2. pending_list_pops' = Append(pending_list_pops, request)
        BY <3>2, ZenonT(20) DEF process_blpop, push_back
      <4>3. request.client = ReplicationClient
        BY <4>1
      <4> HIDE DEF request
      <4>4. \A i \in DOMAIN pending_list_pops' :
              \/ pending_list_pops'[i] = request
              \/ i \in DOMAIN pending_list_pops /\ pending_list_pops'[i] = pending_list_pops[i]
        BY <2>1, <4>2, AppendedElements, Zenon
      <4> QED
        BY <2>1, <4>3, <4>4, Zenon
    <3>3. process_blpop(c, cmd) \/ UNCHANGED pending_list_pops
      BY TaskFrame
    <3> QED
      BY <3>1, <3>2, <3>3
  <2>4. ASSUME NEW s \in Clients PROVE no_writes(transactions'[s].commands)
    <3>1. CASE transactions'[s].commands = transactions[s].commands
      BY <2>1, <3>1
    <3>2. CASE transactions'[s] = NoTransaction
      <4>1. DOMAIN <<>> = {}
        OBVIOUS
      <4>2. no_writes(<<>>)
        BY <4>1, Zenon DEF no_writes
      <4>3. NoTransaction.commands = <<>>
        BY Zenon DEF NoTransaction
      <4> QED
        BY <3>2, <4>2, <4>3, Zenon
    <3>3. CASE QueueCommand(c, cmd) /\ s = c
      <4>1. ~is_write_command(cmd)
        BY <3>3, NotRejected, ZenonT(20) DEF QueueCommand
      <4>2. transactions'[s].commands = Append(transactions[s].commands, cmd)
        BY <2>1, <2>2, <3>3, ZenonT(20) DEF QueueCommand, TransactionType
      <4> DEFINE commands == transactions[s].commands
      <4>3. commands \in Seq(DataCommand) /\ no_writes(commands)
        BY <2>1, <2>2, Zenon
      <4> HIDE DEF no_writes, commands
      <4>4. \A i \in DOMAIN Append(commands, cmd) :
              \/ Append(commands, cmd)[i] = cmd
              \/ i \in DOMAIN commands /\ Append(commands, cmd)[i] = commands[i]
        BY <4>3, AppendedElements, Zenon
      <4>5. no_writes(Append(commands, cmd))
        BY <4>1, <4>3, <4>4, Zenon DEF no_writes
      <4> QED
        BY <4>2, <4>5, Zenon DEF commands
    <3>4. CASE ~(QueueCommand(c, cmd) /\ s = c)
      <4>1. \/ transactions' = transactions
            \/ transactions' = [transactions EXCEPT ![c].has_error = TRUE]
            \/ transactions' = [transactions EXCEPT ![c].open = TRUE]
            \/ transactions' = [transactions EXCEPT ![c] = NoTransaction]
            \/ s # c /\ transactions' = [transactions EXCEPT ![c].commands = Append(@, cmd)]
        BY <3>4, Zenon DEF ProcessTask, RejectReplicaWrite, process_blpop, process_xread,
           ExecuteDirectly, QueueCommand, Watch, Unwatch, Multi, Discard, StartExec, data
      <4>2. \/ transactions'[s].commands = transactions[s].commands
            \/ transactions'[s] = NoTransaction
        BY <2>1, <2>2, <4>1, SMTT(30) DEF TransactionType
      <4> QED
        BY <3>1, <3>2, <4>2
    <3> QED
      BY <3>3, <3>4
  <2>5. ASSUME pc' = "exec", executing'.client # ReplicationClient
        PROVE  no_writes(executing'.commands)
    <3>1. StartExec(c, cmd)
      BY <2>5, TaskFrame
    <3>2. executing' = [client |-> c, commands |-> transactions[c].commands, payload |-> <<>>]
      BY <2>5, <3>1, ZenonT(20) DEF StartExec, StartRetries
    <3>3. c \in Clients
      BY <2>5, <3>2 DEF Sessions
    <3> QED
      BY <2>1, <3>2, <3>3, ZenonT(20)
  <2> QED
    BY <2>3, <2>4, <2>5

(* The scenario, and with it the role, never changes. *)
<1>SameRole.
  ASSUME [Next]_vars
  PROVE  Role' = Role
  <2> USE <1>SameRole
  <2>1. ASSUME NEW c \in Sessions, NEW cmd, ProcessTask(c, cmd) PROVE scenario' = scenario
    BY <2>1, TaskFrame
  <2>2. ASSUME NEW c \in Clients, unregister_client(c) PROVE scenario' = scenario
    BY <2>2 DEF unregister_client
  <2>3. ASSUME Work PROVE scenario' = scenario
    BY <2>3, WorkFrame
  <2>4. Tick \/ UNCHANGED vars => scenario' = scenario
    BY DEF Tick, vars
  <2>5. scenario' = scenario
    BY <2>1, <2>2, <2>3, <2>4, SMTT(30) DEF Next
  <2> QED
    BY <2>5 DEF Role

(* The steps of the worker after the task. *)
<1>WorkReplica.
  ASSUME IInv, OnlyMasterWrites, Role = "replica", Work
  PROVE  /\ \A i \in DOMAIN pending_list_pops' : pending_list_pops'[i].client = ReplicationClient
         /\ UNCHANGED transactions
         /\ pc' = "exec" /\ executing'.client # ReplicationClient => no_writes(executing'.commands)
  <2> USE <1>WorkReplica
  <2>0. /\ pending_list_pops \in Seq(PopRequest) /\ cursor \in Nat \ {0}
        /\ \A i \in DOMAIN pending_list_pops : pending_list_pops[i].client = ReplicationClient
        /\ pc = "exec" /\ executing.client # ReplicationClient => no_writes(executing.commands)
    BY IInvTypes, ZenonT(20) DEF OnlyMasterWrites
  <2>1. CASE ExecCommand
    <3>1. UNCHANGED <<pending_list_pops, transactions>> /\ pc = "exec"
      BY <2>1, ZenonT(20) DEF ExecCommand, pending
    <3>2. /\ executing \in [client: Sessions, commands: Seq(DataCommand), payload: Seq(DataCommand)]
          /\ executing.commands # <<>>
      BY <2>1, IInvTypes, Zenon DEF ExecCommand, ExecutingType
    <3>3. PICK payload :
            executing' = [executing EXCEPT !.commands = Tail(@), !.payload = payload]
      BY <2>1, Zenon DEF ExecCommand
    <3>4. executing'.client = executing.client /\ executing'.commands = Tail(executing.commands)
      BY <3>2, <3>3
    <3>5. no_writes(executing.commands) => no_writes(Tail(executing.commands))
      <4> DEFINE s == executing.commands
      <4>1. s \in Seq(DataCommand) /\ s # <<>>
        BY <3>2
      <4> HIDE DEF s
      <4>2. \A i \in DOMAIN Tail(s) : i + 1 \in DOMAIN s /\ Tail(s)[i] = s[i + 1]
        BY <4>1
      <4> QED
        BY <4>2 DEF no_writes, s
    <3> QED
      BY <2>0, <3>1, <3>4, <3>5
  <2>2. CASE ~ExecCommand
    <3>1. pc' # "exec"
      BY <2>2, WorkFrame
    <3>2. UNCHANGED transactions
      BY WorkFrame
    <3>3. \/ UNCHANGED pending_list_pops
          \/ /\ pending_list_pops' = erase(pending_list_pops, cursor)
             /\ cursor <= Len(pending_list_pops)
      BY WorkFrame
    <3>4. CASE /\ pending_list_pops' = erase(pending_list_pops, cursor)
               /\ cursor <= Len(pending_list_pops)
      <4> DEFINE p == erase(pending_list_pops, cursor)
                 n == Len(pending_list_pops)
      <4>1. n \in Nat /\ cursor \in 1..n
        BY <2>0, <3>4
      <4>2. /\ DOMAIN p = 1..n - 1
            /\ \A i \in 1..n - 1 : \E m \in DOMAIN pending_list_pops : p[i] = pending_list_pops[m]
        BY <2>0, <4>1, ErasedElements, Zenon
      <4> HIDE DEF p, n
      <4>3. \A i \in DOMAIN p : p[i].client = ReplicationClient
        BY <2>0, <4>2, Zenon
      <4> QED
        BY <3>1, <3>2, <3>4, <4>3 DEF p
    <3> QED
      BY <2>0, <3>1, <3>2, <3>3, <3>4, ZenonT(20)
  <2> QED
    BY <2>1, <2>2

(* A client that unregisters takes its BLPOP and its transaction with it. *)
<1>UnregisterReplica.
  ASSUME NEW c \in Clients, IInv, OnlyMasterWrites, Role = "replica", unregister_client(c)
  PROVE  /\ \A i \in DOMAIN pending_list_pops' : pending_list_pops'[i].client = ReplicationClient
         /\ \A s \in Clients : no_writes(transactions'[s].commands)
         /\ pc' # "exec"
  <2> USE <1>UnregisterReplica
  <2>1. /\ transactions \in TransactionType
        /\ \A i \in DOMAIN pending_list_pops : pending_list_pops[i].client = ReplicationClient
        /\ \A s \in Clients : no_writes(transactions[s].commands)
    BY IInvTypes, ZenonT(20) DEF OnlyMasterWrites
  <2>2. c # ReplicationClient
    BY ProcessorAssumption, Zenon
  <2>3. positions(pending_list_pops, c) = {}
    BY <2>1, <2>2, Zenon DEF positions
  <2>4. pending_list_pops' = pending_list_pops
    BY <2>3, ZenonT(20) DEF unregister_client, without_client
  <2>5. \A s \in Clients : transactions'[s] = transactions[s] \/ transactions'[s] = NoTransaction
    BY <2>1, ZenonT(20) DEF unregister_client, TransactionType, Sessions
  <2>6. no_writes(NoTransaction.commands)
    BY DEF NoTransaction, no_writes
  <2> QED
    BY <2>1, <2>4, <2>5, <2>6, ZenonT(20) DEF unregister_client, StartRetries

<1> SUFFICES ASSUME IInv, OnlyMasterWrites, [Next]_vars, Role = "replica"
             PROVE  /\ \A i \in DOMAIN pending_list_pops' :
                         pending_list_pops'[i].client = ReplicationClient
                    /\ \A s \in Clients : no_writes(transactions'[s].commands)
                    /\ pc' = "exec" /\ executing'.client # ReplicationClient
                         => no_writes(executing'.commands)
  BY <1>SameRole, Zenon DEF OnlyMasterWrites
<1>1. CASE Work
  BY <1>1, <1>WorkReplica, ZenonT(20) DEF OnlyMasterWrites
<1>2. CASE Tick \/ UNCHANGED vars
  BY <1>2, ZenonT(20) DEF Tick, vars, data, pending, control, OnlyMasterWrites
<1> QED
  BY <1>1, <1>2, <1>TaskReplica, <1>UnregisterReplica, ZenonT(20) DEF Next

(* Every step keeps a replica read-only. *)
LEMMA ReplicaStep == IInv /\ OnlyMasterWrites /\ [Next]_vars => [ReadsOnly]_vars
(* A command that is not a write only evicts. *)
<1>QueryEvicts.
  ASSUME NEW d, NEW time, NEW wall, NEW cmd \in DataCommand, ~is_write_command(cmd), Good(d)
  PROVE  Evicts(d, dispatch(d, time, wall, cmd).db, time)
  BY <1>QueryEvicts, QueryData, FindEvicts, ReadEvicts, ZenonT(30)

(* A task of a client of a replica only evicts. *)
<1>TaskEvicts.
  ASSUME NEW c \in Clients, NEW cmd, IInv, Role = "replica", ProcessTask(c, cmd)
  PROVE  Evicts(db, db', now)
  <2> USE <1>TaskEvicts
  <2>1. Good(db) /\ Evicts(db, db, now)
    BY IInvTypes, FindEvicts, ZenonT(20)
  <2>2. CASE \/ RejectReplicaWrite(c, cmd) \/ QueueCommand(c, cmd) \/ Unwatch(c, cmd)
             \/ Multi(c, cmd) \/ Discard(c, cmd)
    <3>1. db' = db
      BY <2>2, ZenonT(20) DEF RejectReplicaWrite, QueueCommand, Unwatch, Multi, Discard
    <3> QED
      BY <2>1, <3>1
  <2>3. CASE Watch(c, cmd)
    <3>1. db' = db \/ \E ks : db' = find_active_entries(db, now, ks)
      BY <2>3, ZenonT(20) DEF Watch
    <3> QED
      BY <2>1, <3>1, FindEvicts
  <2>4. CASE StartExec(c, cmd)
    <3>1. db' = db \/ \E k \in Keys : db' = find_active_entry(db, now, k)
      BY <2>4, ZenonT(20) DEF StartExec, changed_keys, data
    <3> QED
      BY <2>1, <3>1, FindEvicts
  <2>5. CASE process_xread(c, cmd)
    BY <2>1, <2>5, ReadEvicts, ZenonT(20) DEF process_xread
  <2>6. ~process_blpop(c, cmd)
    BY NotRejected, ZenonT(20) DEF process_blpop, is_write_command, WriteCommands
  <2>7. CASE ExecuteDirectly(c, cmd)
    <3>1. ~is_write_command(cmd)
      BY <2>7, NotRejected, Zenon DEF ExecuteDirectly
    <3>2. cmd \in DataCommand
      BY <2>7, TakeCommand, CommandSets, ZenonT(20) DEF ExecuteDirectly, Sessions
    <3>3. PICK wall \in WallTimes : db' = dispatch(db, now, wall, cmd).db
      BY <2>7, ZenonT(20) DEF ExecuteDirectly
    <3> QED
      BY <2>1, <3>1, <3>2, <3>3, <1>QueryEvicts
  <2> QED
    BY <2>2, <2>3, <2>4, <2>5, <2>6, <2>7, ZenonT(20) DEF ProcessTask

<1> SUFFICES ASSUME IInv, OnlyMasterWrites, Next, Role = "replica",
                    ~ \E cmd \in commands_of(ReplicationClient) :
                        ProcessTask(ReplicationClient, cmd),
                    ~(pc = "exec" /\ executing.client = ReplicationClient),
                    ~ (/\ At(pending_list_pops, "pops")
                       /\ pending_list_pops[cursor].client = ReplicationClient)
             PROVE  Evicts(db, db', now)
  BY ZenonT(20) DEF Evicts, ReadsOnly
<1>1. Good(db) /\ Evicts(db, db, now)
  BY IInvTypes, FindEvicts, ZenonT(20)
<1>2. ASSUME NEW c \in Sessions, NEW cmd \in commands_of(c), ProcessTask(c, cmd)
      PROVE  Evicts(db, db', now)
  <2>1. c \in Clients
    BY <1>2 DEF Sessions
  <2> QED
    BY <1>2, <2>1, <1>TaskEvicts, Zenon
<1>3. CASE ExecCommand
  <2>1. /\ executing \in [client: Sessions, commands: Seq(DataCommand), payload: Seq(DataCommand)]
        /\ executing.commands # <<>> /\ pc = "exec"
    BY <1>3, IInvTypes, Zenon DEF ExecCommand, ExecutingType
  <2>2. /\ executing.commands \in Seq(DataCommand)
        /\ Head(executing.commands) = executing.commands[1]
        /\ 1 \in DOMAIN executing.commands
    BY <2>1
  <2>3. /\ Head(executing.commands) \in DataCommand
        /\ ~is_write_command(Head(executing.commands))
    <3>1. executing.commands[1] \in DataCommand
      BY <2>2
    <3> QED
      BY <2>1, <2>2, <3>1, Zenon DEF OnlyMasterWrites, no_writes
  <2>4. PICK wall \in WallTimes : db' = dispatch(db, now, wall, Head(executing.commands)).db
    BY <1>3, ZenonT(20) DEF ExecCommand
  <2> QED
    BY <1>1, <2>3, <2>4, <1>QueryEvicts, ZenonT(20)
<1>4. ~retry_pending_list_pop
  <2> SUFFICES ASSUME At(pending_list_pops, "pops") PROVE FALSE
    BY ZenonT(20) DEF retry_pending_list_pop
  <2>1. cursor \in DOMAIN pending_list_pops
    BY IInvTypes DEF At
  <2> QED
    BY <2>1, Zenon DEF OnlyMasterWrites
<1>5. CASE retry_pending_stream_read
  BY <1>1, <1>5, ReadEvicts, ZenonT(20) DEF retry_pending_stream_read
<1>6. CASE db' = db
  BY <1>1, <1>6
<1>7. \A c \in Clients : unregister_client(c) => db' = db
  BY ZenonT(20) DEF unregister_client
<1>8. /\ FinishExec \/ expire_pending_list_pop \/ expire_pending_stream_read => db' = db
      /\ WakeAtDeadline \/ Tick => db' = db
      /\ \A queue, here, next : EndLoop(queue, here, next) => db' = db
  BY Zenon
     DEF FinishExec, expire_pending_list_pop, expire_pending_stream_read, WakeAtDeadline, Tick,
     EndLoop, data
<1> QED
  BY <1>2, <1>3, <1>4, <1>5, <1>6, <1>7, <1>8, ZenonT(20) DEF Next, Work
=============================================================================
