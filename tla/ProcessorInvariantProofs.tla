---------------------- MODULE ProcessorInvariantProofs ----------------------
(***************************************************************************)
(* The inductive invariant of CommandProcessor, for any keys, clients,     *)
(* commands and bounds: Init establishes it, and every task, every step of *)
(* EXEC, the departure of a client, the clock and the loops of `run` keep  *)
(* it.  Of the database only DatabaseLaws is used, which                   *)
(* CommandProcessorProofs shows of its operations.                         *)
(***************************************************************************)
EXTENDS CommandProcessor, TLAPS

(* From d to e, a key that differs in any way has a revision unused in d. *)
Evolves(d, e) ==
  /\ d.next_revision <= e.next_revision
  /\ \A k \in Keys :
       \/ e.entries[k] = d.entries[k] /\ e.revisions[k] = d.revisions[k]
       \/ d.next_revision <= e.revisions[k]

Step(d, e) == Good(e) /\ Evolves(d, e)

(* What the processor relies on: the operations of the database change a key *)
(* only with a fresh revision and keep entries well formed; pops and reads   *)
(* bring no key to life.                                                     *)
DatabaseLaws ==
  /\ \A d, time : \A k \in Keys : Good(d) => Step(d, find_active_entry(d, time, k))
  /\ \A d, time : \A ks \in SUBSET Keys : Good(d) => Step(d, find_active_entries(d, time, ks))
  /\ \A d, time : \A k \in Keys : Good(d) =>
       LET popped == pop_list_element(d, time, k)
       IN  /\ Step(d, popped.db)
           /\ popped.reply.kind = "nil" => popped.db.entries[k] = Absent
           /\ \A j \in Keys : d.entries[j] = Absent => popped.db.entries[j] = Absent
  /\ \A d, time : \A requests \in Seq(ReadRequest) : Good(d) =>
       LET read == read_streams(d, time, requests)
       IN  /\ Step(d, read.db) /\ read.requests \in Seq(ReadRequest)
           /\ \A j \in Keys : d.entries[j] = Absent => read.db.entries[j] = Absent
  /\ \A d : \A time \in Nat, wall \in 0..IdMax, cmd \in DataCommand : Good(d) =>
       LET result == dispatch(d, time, wall, cmd)
       IN  Step(d, result.db) /\ logged(cmd, result.reply) \in Seq(DataCommand)

-----------------------------------------------------------------------------
(* Types *)

(* Which record set a command belongs to, from its name. *)
LEMMA CommandSets ==
  ASSUME NEW cmd \in Command
  PROVE  /\ ~is_control_command(cmd) => cmd \in DataCommand
         /\ cmd.op = "BLPOP" => cmd \in BlockingPopCommand
         /\ cmd.op = "XREAD" => cmd \in ReadCommand
         /\ cmd.op = "XADD" => cmd \in AddCommand
         /\ cmd.op = "WATCH" => cmd.keys \in Seq(Keys)
<1>1. ~is_control_command(cmd) => cmd \in DataCommand
  BY DEF Command, ControlCommand, is_control_command
<1>2. cmd \in ControlCommand =>
        cmd.op \in {"MULTI", "EXEC", "DISCARD", "UNWATCH", "WATCH"}
        /\ (cmd.op = "WATCH" => cmd.keys \in Seq(Keys))
  BY DEF ControlCommand
<1>3. cmd \in DataCommand => cmd.op \notin {"MULTI", "EXEC", "DISCARD", "UNWATCH", "WATCH"}
  BY DEF DataCommand, SetCommand, KeyCommand, PushCommand, RangeCommand, PopCommand,
         BlockingPopCommand, AddCommand, StreamRangeCommand, ReadCommand, PlainCommand
<1>4. cmd \in DataCommand => /\ cmd.op = "BLPOP" => cmd \in BlockingPopCommand
                             /\ cmd.op = "XREAD" => cmd \in ReadCommand
                             /\ cmd.op = "XADD" => cmd \in AddCommand
  BY ZenonT(20) DEF DataCommand, SetCommand, KeyCommand, PushCommand, RangeCommand, PopCommand,
         BlockingPopCommand, AddCommand, StreamRangeCommand, ReadCommand, PlainCommand
<1> QED
  BY <1>1, <1>2, <1>3, <1>4, ZenonT(20) DEF Command

(* What the commands of the table that do not write do to the database. *)
LEMMA QueryData ==
  ASSUME NEW d, NEW time, NEW wall, NEW cmd \in DataCommand, ~is_write_command(cmd)
  PROVE  LET e == dispatch(d, time, wall, cmd).db
         IN  \/ e = d
             \/ \E k \in Keys : e = find_active_entry(d, time, k)
             \/ e = find_active_entries(d, time, Keys)
             \/ e = read_streams(d, time, cmd.requests).db
<1>0. PICK r : r = dispatch(d, time, wall, cmd)
  OBVIOUS
<1>1. /\ cmd.op \in {"GET", "TYPE", "LLEN", "LRANGE", "XRANGE"} => cmd.key \in Keys
      /\ cmd.op \in {"GET", "TYPE", "LLEN", "LRANGE", "XRANGE", "XREAD", "PING", "KEYS", "MALFORMED"}
  BY ZenonT(20) DEF is_write_command, WriteCommands, DataCommand, SetCommand, KeyCommand, PushCommand,
     RangeCommand, PopCommand, BlockingPopCommand, AddCommand, StreamRangeCommand, ReadCommand,
     PlainCommand
<1>2. /\ cmd.op = "GET" => r = get(d, time, cmd.key)
      /\ cmd.op = "TYPE" => r = get_type(d, time, cmd.key)
      /\ cmd.op = "LLEN" => r = get_list_length(d, time, cmd.key)
      /\ cmd.op = "LRANGE" => r = list_elements(d, time, cmd.key, cmd.start, cmd.stop)
      /\ cmd.op = "XRANGE" => r = stream_range(d, time, cmd.key, cmd.start, cmd.stop)
      /\ cmd.op = "XREAD" => r = xread(d, time, cmd)
      /\ cmd.op = "KEYS" => r = keys(d, time)
      /\ cmd.op = "PING" => r = Result(d, Ok)
      /\ cmd.op = "MALFORMED" => r = Result(d, Error("ERR"))
  BY <1>0, ZenonT(30) DEF dispatch
<1>3. /\ get(d, time, cmd.key).db = find_active_entry(d, time, cmd.key)
      /\ get_type(d, time, cmd.key).db = find_active_entry(d, time, cmd.key)
      /\ get_list_length(d, time, cmd.key).db = find_active_entry(d, time, cmd.key)
      /\ keys(d, time).db = find_active_entries(d, time, Keys)
      /\ xread(d, time, cmd).db = read_streams(d, time, cmd.requests).db
      /\ Result(d, Ok).db = d /\ Result(d, Error("ERR")).db = d
  BY DEF get, get_type, get_list_length, keys, xread, Result
<1>4. /\ list_elements(d, time, cmd.key, cmd.start, cmd.stop).db = find_active_entry(d, time, cmd.key)
      /\ stream_range(d, time, cmd.key, cmd.start, cmd.stop).db = find_active_entry(d, time, cmd.key)
  BY DEF list_elements, stream_range, Result
<1>5. \/ r.db = d
      \/ \E k \in Keys : r.db = find_active_entry(d, time, k)
      \/ r.db = find_active_entries(d, time, Keys)
      \/ r.db = read_streams(d, time, cmd.requests).db
  BY <1>1, <1>2, <1>3, <1>4, ZenonT(20)
<1> QED
  BY <1>0, <1>5, Zenon

(* A command the worker takes is one of the commands sessions may send. *)
LEMMA TakeCommand ==
  ASSUME NEW c \in Sessions, NEW cmd, Take(c, cmd)
  PROVE  pc = "wait" /\ cmd \in Command
  BY DEF Take, commands_of

TransactionType == [Sessions -> [open: BOOLEAN, commands: Seq(DataCommand), has_error: BOOLEAN]]

WatchType == [Sessions -> [Keys -> Nat \cup {NotWatched}]]

SnapshotType == [Sessions -> [Keys -> Entry]]

ExecutingType == [client: Sessions, commands: Seq(DataCommand), payload: Seq(DataCommand)]

Places == {"wait", "exec", "pops", "reads", "expire_pops", "expire_reads", "terminated"}

(* What the invariant says of each variable. *)
LEMMA IInvTypes ==
  ASSUME IInv
  PROVE  /\ TypeOK /\ Good(db) /\ WatchInv /\ WaitersOffered
         /\ now \in Nat /\ checked_at \in Nat /\ cursor \in Nat \ {0} /\ pc \in Places
         /\ transactions \in TransactionType
         /\ watched_keys \in WatchType /\ snapshot \in SnapshotType
         /\ pending_list_pops \in Seq(PopRequest) /\ pending_stream_reads \in Seq(ReadRequests)
         /\ executing \in ExecutingType /\ waiting \subseteq Sessions
  BY Zenon DEF IInv, TypeOK, TransactionType, WatchType, SnapshotType, ExecutingType, Places

(* And what there is to show of each variable. *)
LEMMA KeepsIInv ==
  ASSUME Good(db'), WatchInv', WaitersOffered',
         now' \in Nat, checked_at' \in Nat, cursor' \in Nat \ {0}, pc' \in Places,
         transactions' \in TransactionType,
         watched_keys' \in WatchType, snapshot' \in SnapshotType,
         pending_list_pops' \in Seq(PopRequest), pending_stream_reads' \in Seq(ReadRequests),
         executing' \in ExecutingType, waiting' \subseteq Sessions
  PROVE  IInv'
<1>1. db' \in DatabaseType
  BY DEF Good
<1>2. TypeOK'
  BY <1>1, ZenonT(30) DEF TypeOK, TransactionType, WatchType, SnapshotType, ExecutingType, Places
<1> QED
  BY <1>2, Zenon DEF IInv

(* The deadline of a command is an instant or never. *)
LEMMA DeadlineType ==
  ASSUME IInv, NEW timeout \in Nat
  PROVE  deadline_after(timeout) \in Times
<1>1. now \in Nat
  BY IInvTypes
<1> QED
  BY <1>1 DEF deadline_after, Times, Never

(* A queue without one of its elements. *)
LEMMA Removed ==
  ASSUME NEW S, NEW q \in Seq(S), NEW i \in 1..Len(q)
  PROVE  /\ erase(q, i) \in Seq(S)
         /\ Len(erase(q, i)) = Len(q) - 1
         /\ \A j \in 1..Len(q) - 1 :
              erase(q, i)[j] = IF j < i THEN q[j] ELSE q[j + 1]
<1> DEFINE left == SubSeq(q, 1, i - 1)
           right == SubSeq(q, i + 1, Len(q))
<1>1. left \in Seq(S) /\ Len(left) = i - 1 /\ \A j \in 1..i - 1 : left[j] = q[j]
  OBVIOUS
<1>2. right \in Seq(S) /\ Len(right) = Len(q) - i /\ \A j \in 1..Len(q) - i : right[j] = q[i + j]
  OBVIOUS
<1> HIDE DEF left, right
<1>3. left \in Seq(S) /\ right \in Seq(S)
  BY <1>1, <1>2
<1>4. /\ left \o right \in Seq(S)
      /\ Len(left \o right) = Len(left) + Len(right)
      /\ \A j \in 1..Len(left) + Len(right) :
           (left \o right)[j] = IF j <= Len(left) THEN left[j] ELSE right[j - Len(left)]
  BY <1>3
<1>5. ASSUME NEW j \in 1..Len(q) - 1
      PROVE  (left \o right)[j] = IF j < i THEN q[j] ELSE q[j + 1]
  <2>1. i \in 1..Len(q) /\ Len(q) \in Nat /\ j \in 1..Len(left) + Len(right)
    BY <1>1, <1>2
  <2>2. CASE j < i
    BY <2>1, <2>2, <1>1, <1>4, SMTT(30)
  <2>3. CASE ~(j < i)
    <3>1. /\ ~(j <= Len(left)) /\ j - Len(left) \in 1..Len(q) - i
          /\ i + (j - Len(left)) = j + 1
      BY <2>1, <2>3, <1>1
    <3>2. (left \o right)[j] = right[j - Len(left)]
      BY <2>1, <3>1, <1>4, ZenonT(20)
    <3>3. right[j - Len(left)] = q[i + (j - Len(left))]
      BY <3>1, <1>2, ZenonT(20)
    <3> QED
      BY <3>1, <3>2, <3>3, <2>3, ZenonT(20)
  <2> QED
    BY <2>2, <2>3, Zenon
<1>6. Len(left \o right) = Len(q) - 1
  BY <1>1, <1>2, <1>4
<1> QED
  BY <1>4, <1>5, <1>6, ZenonT(30) DEF erase, left, right

-----------------------------------------------------------------------------
(* The initial state satisfies the inductive invariant. *)
LEMMA InitIInv == Init => IInv
<1> SUFFICES ASSUME Init PROVE IInv
  OBVIOUS
<1>1. Good(db)
  BY DEF Init, Good, EmptyDatabase, DatabaseType, RevisionsBelow, WellFormed, GoodEntry, well_formed,
         Entry, Absent
<1>2. db \in DatabaseType /\ ReplicationClient \in Sessions
  BY <1>1 DEF Good, Sessions
<1>3. TypeOK
  BY <1>2 DEF Init, TypeOK, NoTransaction, NotWatched, Absent, Entry, Idle
<1>4. WatchInv /\ WaitersOffered
  BY DEF Init, WatchInv, WaitersOffered
<1> QED
  BY <1>1, <1>3, <1>4 DEF IInv

(* Every step preserves the inductive invariant. *)
LEMMA NextIInv == DatabaseLaws /\ IInv /\ [Next]_vars => IInv'
<1> SUFFICES ASSUME DatabaseLaws PROVE IInv /\ [Next]_vars => IInv'
  OBVIOUS
(* The laws of the database, one by one. *)
<1>StepRefl. ASSUME NEW d, Good(d) PROVE Step(d, d)
  BY <1>StepRefl DEF Step, Evolves, Good, DatabaseType
<1>FindStep. \A d, time : \A k \in Keys : Good(d) => Step(d, find_active_entry(d, time, k))
  BY Zenon DEF DatabaseLaws
<1>FindAllStep. \A d, time : \A ks \in SUBSET Keys :
                  Good(d) => Step(d, find_active_entries(d, time, ks))
  BY Zenon DEF DatabaseLaws
<1>PopStep.
  ASSUME NEW d, NEW time, NEW k \in Keys, Good(d)
  PROVE  LET popped == pop_list_element(d, time, k)
         IN  /\ Step(d, popped.db)
             /\ popped.reply.kind = "nil" => popped.db.entries[k] = Absent
             /\ \A j \in Keys : d.entries[j] = Absent => popped.db.entries[j] = Absent
  BY <1>PopStep, Zenon DEF DatabaseLaws
<1>ReadStep.
  ASSUME NEW d, NEW time, NEW requests \in Seq(ReadRequest), Good(d)
  PROVE  LET read == read_streams(d, time, requests)
         IN  /\ Step(d, read.db) /\ read.requests \in Seq(ReadRequest)
             /\ \A j \in Keys : d.entries[j] = Absent => read.db.entries[j] = Absent
  BY <1>ReadStep, Zenon DEF DatabaseLaws
<1>DispatchStep.
  ASSUME NEW d, NEW time \in Nat, NEW wall \in 0..IdMax, NEW cmd \in DataCommand, Good(d)
  PROVE  LET result == dispatch(d, time, wall, cmd)
         IN  Step(d, result.db) /\ logged(cmd, result.reply) \in Seq(DataCommand)
  BY <1>DispatchStep, Zenon DEF DatabaseLaws

(* Watches survive a step that changes keys only with fresh revisions, and   *)
(* that keeps, drops or newly records each watch.                            *)
<1>WatchKept.
  ASSUME IInv, Step(db, db'),
         \A c \in Sessions, k \in Keys :
           \/ watched_keys'[c][k] = NotWatched
           \/ /\ watched_keys'[c][k] = watched_keys[c][k]
              /\ snapshot'[c][k] = snapshot[c][k]
           \/ /\ watched_keys'[c][k] = db'.revisions[k]
              /\ snapshot'[c][k] = db'.entries[k]
  PROVE  WatchInv'
  <2> USE <1>WatchKept
  <2> SUFFICES ASSUME NEW c \in Sessions, NEW k \in Keys, watched_keys'[c][k] # NotWatched
               PROVE  /\ watched_keys'[c][k] < db'.next_revision
                      /\ db'.revisions[k] = watched_keys'[c][k] => db'.entries[k] = snapshot'[c][k]
    BY ZenonT(20) DEF WatchInv
  <2>1. /\ db.next_revision \in Nat /\ db'.next_revision \in Nat
        /\ db'.revisions[k] \in Nat /\ db'.revisions[k] < db'.next_revision
        /\ db.next_revision <= db'.next_revision
        /\ \/ db'.entries[k] = db.entries[k] /\ db'.revisions[k] = db.revisions[k]
           \/ db.next_revision <= db'.revisions[k]
    BY IInvTypes, ZenonT(20) DEF Step, Good, Evolves, RevisionsBelow, DatabaseType
  <2>2. CASE watched_keys'[c][k] = watched_keys[c][k] /\ snapshot'[c][k] = snapshot[c][k]
    <3>1. /\ watched_keys[c][k] \in Nat
          /\ watched_keys[c][k] < db.next_revision
          /\ db.revisions[k] = watched_keys[c][k] => db.entries[k] = snapshot[c][k]
      BY <2>2, IInvTypes DEF WatchInv, WatchType
    <3> QED
      BY <2>1, <2>2, <3>1, SMTT(30)
  <2>3. CASE watched_keys'[c][k] = db'.revisions[k] /\ snapshot'[c][k] = db'.entries[k]
    BY <2>1, <2>3, ZenonT(20)
  <2> QED
    BY <2>2, <2>3, ZenonT(20)

(* At the start of the retry loop no waiter has been offered anything yet. *)
<1>LoopStart.
  ASSUME pc' = "pops", cursor' = 1, pending_list_pops' \in Seq(PopRequest)
  PROVE  WaitersOffered'
  BY <1>LoopStart DEF WaitersOffered

(* The worker is not in a phase that claims anything about waiters. *)
<1>NoClaim.
  ASSUME pc' \in {"exec", "terminated"}
  PROVE  WaitersOffered'
  BY <1>NoClaim DEF WaitersOffered

(* An answer closes the promise of one session. *)
<1>AnswerType.
  ASSUME NEW c, NEW reply, TypeOK, Answer(c, reply)
  PROVE  waiting' \subseteq Sessions
  BY <1>AnswerType, ZenonT(20) DEF Answer, TypeOK

(* A step of a loop sets one promise or none. *)
<1>WaitingType.
  ASSUME TypeOK, (\E c, reply : Answer(c, reply)) \/ UNCHANGED waiting
  PROVE  waiting' \subseteq Sessions
  BY <1>WaitingType, <1>AnswerType, Zenon DEF TypeOK

(* Whatever the append to the file does, the promise is set. *)
<1>PropagateType.
  ASSUME NEW c, NEW payload, NEW reply, TypeOK, Propagate(c, payload, reply)
  PROVE  waiting' \subseteq Sessions
  BY <1>PropagateType, <1>AnswerType, ZenonT(20) DEF Propagate

(* Steps that leave the database and the watches alone. *)
<1>SameData.
  ASSUME IInv, db' = db,
         \A c \in Sessions, k \in Keys :
           \/ watched_keys'[c][k] = NotWatched
           \/ watched_keys'[c][k] = watched_keys[c][k] /\ snapshot'[c][k] = snapshot[c][k]
  PROVE  Good(db') /\ db' \in DatabaseType /\ WatchInv'
  <2> USE <1>SameData
  <2>1. Step(db, db')
    BY <1>StepRefl, IInvTypes, Zenon
  <2> QED
    BY <2>1, <1>WatchKept, ZenonT(20) DEF Step, Good

(* Steps that change the database and leave the watches alone. *)
<1>SameWatches.
  ASSUME IInv, Step(db, db'), UNCHANGED <<watched_keys, snapshot>>
  PROVE  Good(db') /\ db' \in DatabaseType /\ WatchInv'
  BY <1>SameWatches, <1>WatchKept, ZenonT(20) DEF Step, Good

(* The ways in which process_task changes the transaction of one session. *)
<1>TransactionUpdate.
  ASSUME NEW t \in TransactionType, NEW c \in Sessions
  PROVE  /\ [t EXCEPT ![c].has_error = TRUE] \in TransactionType
         /\ [t EXCEPT ![c].open = TRUE] \in TransactionType
         /\ [t EXCEPT ![c] = NoTransaction] \in TransactionType
         /\ \A cmd \in DataCommand :
              [t EXCEPT ![c].commands = Append(@, cmd)] \in TransactionType
  <2> USE <1>TransactionUpdate
  <2>1. t[c] \in [open: BOOLEAN, commands: Seq(DataCommand), has_error: BOOLEAN]
    BY DEF TransactionType
  <2>2. NoTransaction \in [open: BOOLEAN, commands: Seq(DataCommand), has_error: BOOLEAN]
    BY DEF NoTransaction
  <2>3. \A cmd \in DataCommand : Append(t[c].commands, cmd) \in Seq(DataCommand)
    BY <2>1
  <2>4. /\ [t[c] EXCEPT !.has_error = TRUE] \in [open: BOOLEAN, commands: Seq(DataCommand),
                                                has_error: BOOLEAN]
        /\ [t[c] EXCEPT !.open = TRUE] \in [open: BOOLEAN, commands: Seq(DataCommand),
                                           has_error: BOOLEAN]
        /\ \A cmd \in DataCommand :
             [t[c] EXCEPT !.commands = Append(@, cmd)]
               \in [open: BOOLEAN, commands: Seq(DataCommand), has_error: BOOLEAN]
    BY <2>1, <2>3, Zenon
  <2> QED
    BY <2>2, <2>4, Zenon DEF TransactionType

(* A task that answers or blocks its client and leaves every variable in its
   type keeps the invariant: the retry loop starts, and claims nothing yet. *)
<1>TaskEnds.
  ASSUME IInv, StartRetries, now' = now, Good(db'), WatchInv',
         transactions' \in TransactionType,
         watched_keys' \in WatchType, snapshot' \in SnapshotType,
         pending_list_pops' \in Seq(PopRequest), pending_stream_reads' \in Seq(ReadRequests),
         waiting' \subseteq Sessions
  PROVE  IInv'
  <2> USE <1>TaskEnds
  <2>1. pc' = "pops" /\ cursor' = 1 /\ executing' = executing /\ checked_at' = checked_at
    BY DEF StartRetries
  <2>2. pc' \in Places /\ cursor' \in Nat \ {0}
    BY <2>1 DEF Places
  <2>3. WaitersOffered'
    BY <2>1, <1>LoopStart, Zenon
  <2> QED
    BY <2>1, <2>2, <2>3, IInvTypes, KeepsIInv, ZenonT(30)

(* The same, when the task touches neither the data nor the pending commands. *)
<1>QuietTaskEnds.
  ASSUME IInv, StartRetries, UNCHANGED <<db, watched_keys, snapshot, now>>,
         UNCHANGED <<pending_list_pops, pending_stream_reads>>,
         transactions' \in TransactionType, waiting' \subseteq Sessions
  PROVE  IInv'
  <2> USE <1>QuietTaskEnds
  <2>1. /\ db' = db /\ watched_keys' = watched_keys /\ snapshot' = snapshot /\ now' = now
        /\ pending_list_pops' = pending_list_pops /\ pending_stream_reads' = pending_stream_reads
    OBVIOUS
  <2>2. Good(db') /\ WatchInv'
    BY <2>1, <1>SameData, Zenon
  <2> QED
    BY <2>1, <2>2, IInvTypes, <1>TaskEnds, ZenonT(30)

(* The same, when the task changes the database and leaves the watches alone. *)
<1>DataTaskEnds.
  ASSUME IInv, StartRetries, Step(db, db'),
         UNCHANGED <<transactions, watched_keys, snapshot, now>>,
         pending_list_pops' \in Seq(PopRequest), pending_stream_reads' \in Seq(ReadRequests),
         waiting' \subseteq Sessions
  PROVE  IInv'
  <2> USE <1>DataTaskEnds
  <2>1. /\ watched_keys' = watched_keys /\ snapshot' = snapshot /\ now' = now
        /\ transactions' = transactions
    OBVIOUS
  <2>2. Good(db') /\ WatchInv'
    BY <2>1, <1>SameWatches, Zenon
  <2> QED
    BY <2>1, <2>2, IInvTypes, <1>TaskEnds, ZenonT(30)

(* A promise stays open while its command is pending. *)
<1>BlockType.
  ASSUME NEW c \in Sessions, TypeOK, Block(c)
  PROVE  waiting' \subseteq Sessions
  BY <1>BlockType, Zenon DEF Block, TypeOK

(* A request joins the end of its queue. *)
<1>PushType.
  ASSUME NEW S, NEW q \in Seq(S), NEW r \in S
  PROVE  push_back(q, r) \in Seq(S)
  BY <1>PushType DEF push_back

(* A write a replica refuses changes only the error flag of a transaction. *)
<1>RejectIInv.
  ASSUME NEW c \in Sessions, NEW cmd, IInv, RejectReplicaWrite(c, cmd)
  PROVE  IInv'
  <2> USE <1>RejectIInv
  <2>1. /\ UNCHANGED <<db, watched_keys, snapshot, now>>
        /\ UNCHANGED <<pending_list_pops, pending_stream_reads>>
        /\ transactions' = transactions
           \/ transactions' = [transactions EXCEPT ![c].has_error = TRUE]
        /\ Answer(c, Error("READONLY")) /\ StartRetries
    BY ZenonT(20) DEF RejectReplicaWrite, AnswerOnly, pending
  <2>2. transactions \in TransactionType
    BY IInvTypes, Zenon
  <2>3. transactions' \in TransactionType
    BY <2>1, <2>2, <1>TransactionUpdate, Zenon
  <2> QED
    BY <2>1, <2>3, IInvTypes, <1>AnswerType, <1>QuietTaskEnds, ZenonT(30)

(* process_blpop pops, refuses or queues; the retry loop then starts anew. *)
<1>BlpopIInv.
  ASSUME NEW c \in Sessions, NEW cmd, IInv, process_blpop(c, cmd)
  PROVE  IInv'
  <2> USE <1>BlpopIInv
  <2> DEFINE request == [client |-> c, key |-> cmd.key, deadline |-> deadline_after(cmd.timeout)]
  <2>1. /\ Take(c, cmd) /\ cmd.op = "BLPOP"
        /\ db' = pop_list_element(db, now, cmd.key).db
        /\ UNCHANGED <<transactions, watched_keys, snapshot, now>>
        /\ pending_stream_reads' = pending_stream_reads
        /\ StartRetries
    BY ZenonT(20) DEF process_blpop
  <2>2. \/ \E payload, reply : Propagate(c, payload, reply) /\ UNCHANGED pending_list_pops
        \/ \E reply : Answer(c, reply) /\ UNCHANGED pending_list_pops
        \/ Block(c) /\ pending_list_pops' = push_back(pending_list_pops, request)
    BY Zenon DEF process_blpop, AnswerOnly
  <2>3. cmd \in BlockingPopCommand
    BY <2>1, TakeCommand, CommandSets, ZenonT(30)
  <2>4. cmd.key \in Keys /\ cmd.timeout \in Nat
    BY <2>3 DEF BlockingPopCommand
  <2>5. Step(db, db')
    BY <2>1, <2>4, <1>PopStep, IInvTypes, ZenonT(30)
  <2>6. request \in PopRequest
    BY <2>4, DeadlineType DEF PopRequest
  <2> HIDE DEF request
  <2>7. pending_list_pops' \in Seq(PopRequest) /\ pending_stream_reads' \in Seq(ReadRequests)
    BY <2>1, <2>2, <2>6, IInvTypes, <1>PushType, ZenonT(30)
  <2>8. waiting' \subseteq Sessions
    BY <2>2, IInvTypes, <1>AnswerType, <1>PropagateType, <1>BlockType, ZenonT(30)
  <2> QED
    BY <2>1, <2>5, <2>7, <2>8, <1>DataTaskEnds, ZenonT(30)

(* process_xread only evicts expired keys; a blocked read is queued. *)
<1>XreadIInv.
  ASSUME NEW c \in Sessions, NEW cmd, IInv, process_xread(c, cmd)
  PROVE  IInv'
  <2> USE <1>XreadIInv
  <2> DEFINE read == read_streams(db, now, cmd.requests)
             request == [client |-> c, requests |-> read.requests,
                         deadline |-> deadline_after(cmd.timeout)]
  <2>1. /\ Take(c, cmd) /\ cmd.op = "XREAD"
        /\ db' = read.db
        /\ UNCHANGED <<transactions, watched_keys, snapshot, now>>
        /\ pending_list_pops' = pending_list_pops
        /\ StartRetries
    BY ZenonT(20) DEF process_xread
  <2>2. \/ \E reply : Answer(c, reply) /\ UNCHANGED pending_stream_reads
        \/ Block(c) /\ pending_stream_reads' = push_back(pending_stream_reads, request)
    BY Zenon DEF process_xread, AnswerOnly
  <2>3. cmd \in ReadCommand
    BY <2>1, TakeCommand, CommandSets, ZenonT(30)
  <2>4. cmd.requests \in Seq(ReadRequest) /\ cmd.timeout \in Nat
    BY <2>3 DEF ReadCommand
  <2>5. Step(db, db') /\ read.requests \in Seq(ReadRequest)
    BY <2>1, <2>4, <1>ReadStep, IInvTypes, ZenonT(30)
  <2> HIDE DEF read
  <2>6. request \in ReadRequests
    BY <2>4, <2>5, DeadlineType DEF ReadRequests
  <2> HIDE DEF request
  <2>7. pending_list_pops' \in Seq(PopRequest) /\ pending_stream_reads' \in Seq(ReadRequests)
    BY <2>1, <2>2, <2>6, IInvTypes, <1>PushType, ZenonT(30)
  <2>8. waiting' \subseteq Sessions
    BY <2>2, IInvTypes, <1>AnswerType, <1>BlockType, Zenon
  <2> QED
    BY <2>1, <2>5, <2>7, <2>8, <1>DataTaskEnds, ZenonT(30)

(* A direct command changes keys only with fresh revisions (DispatchStep). *)
<1>DirectIInv.
  ASSUME NEW c \in Sessions, NEW cmd, IInv, ExecuteDirectly(c, cmd)
  PROVE  IInv'
  <2> USE <1>DirectIInv
  <2>1. /\ Take(c, cmd) /\ ~is_control_command(cmd)
        /\ UNCHANGED <<transactions, watched_keys, snapshot, now>>
        /\ UNCHANGED <<pending_list_pops, pending_stream_reads>>
    BY Zenon DEF ExecuteDirectly, pending
  <2>2. PICK wall \in WallTimes :
          /\ db' = dispatch(db, now, wall, cmd).db
          /\ \/ /\ pc' = "terminated" /\ Silent
                /\ UNCHANGED <<executing, cursor, checked_at>>
             \/ /\ \E payload, reply : Propagate(c, payload, reply)
                /\ StartRetries
    BY Zenon DEF ExecuteDirectly
  <2>3. wall \in 0..IdMax /\ now \in Nat /\ Good(db)
    BY ProcessorAssumption, IInvTypes, Zenon
  <2>4. cmd \in DataCommand
    BY <2>1, TakeCommand, CommandSets, Zenon
  <2>5. Step(db, db')
    BY <2>2, <2>3, <2>4, <1>DispatchStep, ZenonT(30)
  <2>6. /\ transactions' = transactions /\ watched_keys' = watched_keys /\ snapshot' = snapshot
        /\ now' = now /\ pending_list_pops' = pending_list_pops
        /\ pending_stream_reads' = pending_stream_reads
    BY <2>1
  <2>7. CASE (\E payload, reply : Propagate(c, payload, reply)) /\ StartRetries
    <3>1. waiting' \subseteq Sessions
      BY <2>7, IInvTypes, <1>PropagateType, Zenon
    <3> QED
      BY <2>1, <2>5, <2>6, <2>7, <3>1, IInvTypes, <1>DataTaskEnds, ZenonT(30)
  <2>8. CASE pc' = "terminated" /\ Silent /\ UNCHANGED <<executing, cursor, checked_at>>
    <3>1. Good(db') /\ db' \in DatabaseType /\ WatchInv'
      BY <2>5, <2>6, <1>SameWatches, ZenonT(30)
    <3>2. /\ executing' = executing /\ cursor' = cursor /\ checked_at' = checked_at
          /\ waiting' = waiting /\ pc' \in Places
      BY <2>8 DEF Silent, Places
    <3>3. WaitersOffered'
      BY <2>8, <1>NoClaim
    <3> QED
      BY <2>6, <3>1, <3>2, <3>3, IInvTypes, KeepsIInv, ZenonT(30)
  <2> QED
    BY <2>2, <2>7, <2>8, Zenon

(* Queueing a command touches one transaction. *)
<1>QueueIInv.
  ASSUME NEW c \in Sessions, NEW cmd, IInv, QueueCommand(c, cmd)
  PROVE  IInv'
  <2> USE <1>QueueIInv
  <2>1. /\ Take(c, cmd) /\ ~is_control_command(cmd)
        /\ UNCHANGED <<db, watched_keys, snapshot, now>>
        /\ UNCHANGED <<pending_list_pops, pending_stream_reads>>
        /\ transactions' = [transactions EXCEPT ![c].commands = Append(@, cmd)]
        /\ Answer(c, Queued) /\ StartRetries
    BY ZenonT(20) DEF QueueCommand, AnswerOnly, pending
  <2>2. cmd \in DataCommand
    BY <2>1, TakeCommand, CommandSets, Zenon
  <2>3. transactions' \in TransactionType
    BY <2>1, <2>2, IInvTypes, <1>TransactionUpdate, ZenonT(30)
  <2> QED
    BY <2>1, <2>3, IInvTypes, <1>AnswerType, <1>QuietTaskEnds, ZenonT(30)

(* Forgetting the watches of one session. *)
<1>ForgetWatches.
  ASSUME NEW c \in Sessions, TypeOK, Forget(c)
  PROVE  /\ watched_keys' \in WatchType
         /\ snapshot' \in SnapshotType
         /\ \A s \in Sessions, k \in Keys :
              \/ watched_keys'[s][k] = NotWatched
              \/ watched_keys'[s][k] = watched_keys[s][k] /\ snapshot'[s][k] = snapshot[s][k]
  <2> USE <1>ForgetWatches
  <2>1. Unwatched \in [Keys -> Nat \cup {NotWatched}] /\ \A k \in Keys : Unwatched[k] = NotWatched
    BY DEF Unwatched
  <2>2. Unseen \in [Keys -> Entry]
    BY DEF Unseen, Entry
  <2> QED
    BY <2>1, <2>2, ZenonT(20) DEF Forget, TypeOK, WatchType, SnapshotType

(* A task that drops the watches of one session, or keeps them. *)
<1>ForgetTaskEnds.
  ASSUME NEW c \in Sessions, IInv, StartRetries, UNCHANGED <<db, now>>,
         Forget(c) \/ UNCHANGED <<watched_keys, snapshot>>,
         pending_list_pops' \in Seq(PopRequest), pending_stream_reads' \in Seq(ReadRequests),
         transactions' \in TransactionType, waiting' \subseteq Sessions
  PROVE  IInv'
  <2> USE <1>ForgetTaskEnds
  <2>1. db' = db /\ now' = now
    OBVIOUS
  <2>2. /\ watched_keys' \in WatchType /\ snapshot' \in SnapshotType
        /\ \A s \in Sessions, k \in Keys :
             \/ watched_keys'[s][k] = NotWatched
             \/ watched_keys'[s][k] = watched_keys[s][k] /\ snapshot'[s][k] = snapshot[s][k]
    BY IInvTypes, <1>ForgetWatches, Zenon
  <2>3. Good(db') /\ WatchInv'
    BY <2>1, <2>2, <1>SameData, Zenon
  <2> QED
    BY <2>1, <2>2, <2>3, <1>TaskEnds, ZenonT(30)

(* UNWATCH drops watches. *)
<1>UnwatchIInv.
  ASSUME NEW c \in Sessions, NEW cmd, IInv, Unwatch(c, cmd)
  PROVE  IInv'
  <2> USE <1>UnwatchIInv
  <2>1. /\ UNCHANGED <<db, now>> /\ transactions' = transactions
        /\ pending_list_pops' = pending_list_pops /\ pending_stream_reads' = pending_stream_reads
        /\ Forget(c) /\ Answer(c, Ok) /\ StartRetries
    BY DEF Unwatch, AnswerOnly, pending
  <2> QED
    BY <2>1, IInvTypes, <1>AnswerType, <1>ForgetTaskEnds, ZenonT(30)

(* MULTI opens one transaction. *)
<1>MultiIInv.
  ASSUME NEW c \in Sessions, NEW cmd, IInv, Multi(c, cmd)
  PROVE  IInv'
  <2> USE <1>MultiIInv
  <2>1. /\ UNCHANGED <<db, watched_keys, snapshot, now>>
        /\ UNCHANGED <<pending_list_pops, pending_stream_reads>>
        /\ transactions' = [transactions EXCEPT ![c].open = TRUE]
        /\ \E reply : Answer(c, reply)
        /\ StartRetries
    BY DEF Multi, AnswerOnly, pending
  <2>2. transactions' \in TransactionType
    BY <2>1, IInvTypes, <1>TransactionUpdate, Zenon
  <2> QED
    BY <2>1, <2>2, IInvTypes, <1>AnswerType, <1>QuietTaskEnds, ZenonT(30)

(* DISCARD drops one transaction and its watches. *)
<1>DiscardIInv.
  ASSUME NEW c \in Sessions, NEW cmd, IInv, Discard(c, cmd)
  PROVE  IInv'
  <2> USE <1>DiscardIInv
  <2>1. /\ UNCHANGED <<db, now>>
        /\ pending_list_pops' = pending_list_pops /\ pending_stream_reads' = pending_stream_reads
        /\ StartRetries
        /\ \E reply : Answer(c, reply)
    BY ZenonT(20) DEF Discard, AnswerOnly, pending
  <2>2. Forget(c) \/ UNCHANGED <<watched_keys, snapshot>>
    BY Zenon DEF Discard
  <2>3. transactions' = transactions \/ transactions' = [transactions EXCEPT ![c] = NoTransaction]
    BY ZenonT(20) DEF Discard
  <2>4. transactions \in TransactionType
    BY IInvTypes, Zenon
  <2>5. transactions' \in TransactionType
    BY <2>3, <2>4, <1>TransactionUpdate, ZenonT(30)
  <2> QED
    BY <2>1, <2>2, <2>5, IInvTypes, <1>AnswerType, <1>ForgetTaskEnds, ZenonT(30)

(* The keys a WATCH names are keys. *)
<1>RangeOfKeys.
  ASSUME NEW s \in Seq(Keys)
  PROVE  Range(s) \subseteq Keys
  BY <1>RangeOfKeys DEF Range

(* WATCH records, for each new key, the revision and the entry of the moment. *)
<1>WatchIInv.
  ASSUME NEW c \in Sessions, NEW cmd, IInv, Watch(c, cmd)
  PROVE  IInv'
  <2> USE <1>WatchIInv
  <2> DEFINE new == {k \in Range(cmd.keys) : watched_keys[c][k] = NotWatched}
             revisions == [k \in Keys |-> IF k \in new THEN db'.revisions[k] ELSE watched_keys[c][k]]
             entries == [k \in Keys |-> IF k \in new THEN db'.entries[k] ELSE snapshot[c][k]]
  <2>1. /\ Take(c, cmd) /\ cmd.op = "WATCH"
        /\ transactions' = transactions /\ now' = now
        /\ pending_list_pops' = pending_list_pops /\ pending_stream_reads' = pending_stream_reads
        /\ StartRetries
        /\ \E reply : Answer(c, reply)
    BY ZenonT(20) DEF Watch, Control, AnswerOnly, pending
  <2>2. \/ UNCHANGED <<db, watched_keys, snapshot>>
        \/ /\ db' = find_active_entries(db, now, new)
           /\ watched_keys' = [watched_keys EXCEPT ![c] = revisions]
           /\ snapshot' = [snapshot EXCEPT ![c] = entries]
    BY ZenonT(20) DEF Watch
  <2>3. waiting' \subseteq Sessions
    BY <2>1, IInvTypes, <1>AnswerType, ZenonT(30)
  <2>4. CASE UNCHANGED <<db, watched_keys, snapshot>>
    <3>1. db' = db /\ watched_keys' = watched_keys /\ snapshot' = snapshot
      BY <2>4
    <3> QED
      BY <2>1, <2>3, <3>1, IInvTypes, <1>QuietTaskEnds, ZenonT(30)
  <2>5. CASE /\ db' = find_active_entries(db, now, new)
             /\ watched_keys' = [watched_keys EXCEPT ![c] = revisions]
             /\ snapshot' = [snapshot EXCEPT ![c] = entries]
    <3>1. new \in SUBSET Keys
      <4>1. cmd.keys \in Seq(Keys)
        BY <2>1, TakeCommand, CommandSets, ZenonT(30)
      <4> QED
        BY <4>1, <1>RangeOfKeys, Zenon
    <3>2. Step(db, db')
      <4> HIDE DEF new
      <4> QED
        BY <3>1, <2>5, <1>FindAllStep, IInvTypes, ZenonT(30)
    <3>3. Good(db') /\ db' \in DatabaseType
      BY <3>2 DEF Step, Good
    <3>4. watched_keys \in WatchType /\ snapshot \in SnapshotType
      BY IInvTypes, ZenonT(30)
    <3> HIDE DEF new
    <3>5. revisions \in [Keys -> Nat \cup {NotWatched}] /\ entries \in [Keys -> Entry]
      BY <3>3, <3>4, SMTT(30) DEF DatabaseType, WatchType, SnapshotType
    <3>6. \A k \in Keys : \/ revisions[k] = db'.revisions[k] /\ entries[k] = db'.entries[k]
                          \/ revisions[k] = watched_keys[c][k] /\ entries[k] = snapshot[c][k]
      BY Zenon
    <3> HIDE DEF revisions, entries
    <3>7. watched_keys' \in WatchType /\ snapshot' \in SnapshotType /\ WatchInv'
      <4>1. watched_keys' \in WatchType /\ snapshot' \in SnapshotType
        BY <2>5, <3>4, <3>5, ZenonT(30) DEF WatchType, SnapshotType
      <4>2. \A s \in Sessions : \/ watched_keys'[s] = watched_keys[s] /\ snapshot'[s] = snapshot[s]
                                \/ s = c /\ watched_keys'[s] = revisions /\ snapshot'[s] = entries
        BY <2>5, <3>4 DEF WatchType, SnapshotType
      <4>3. \A s \in Sessions, k \in Keys :
               \/ /\ watched_keys'[s][k] = watched_keys[s][k]
                  /\ snapshot'[s][k] = snapshot[s][k]
               \/ /\ watched_keys'[s][k] = db'.revisions[k]
                  /\ snapshot'[s][k] = db'.entries[k]
        BY <3>6, <4>2, ZenonT(30)
      <4>4. WatchInv'
        BY <3>2, <4>3, <1>WatchKept, ZenonT(30)
      <4> QED
        BY <4>1, <4>4
    <3> QED
      BY <2>1, <2>3, <3>3, <3>7, IInvTypes, <1>TaskEnds, ZenonT(30)
  <2> QED
    BY <2>2, <2>4, <2>5, ZenonT(30)

(* EXEC drops the transaction and its watches before it executes anything. *)
<1>StartExecIInv.
  ASSUME NEW c \in Sessions, NEW cmd, IInv, StartExec(c, cmd)
  PROVE  IInv'
  <2> USE <1>StartExecIInv
  <2> DEFINE started == [client |-> c, commands |-> transactions[c].commands, payload |-> <<>>]
  <2>1. /\ db' = db \/ \E k \in Keys : db' = find_active_entry(db, now, k)
        /\ Forget(c) \/ UNCHANGED <<watched_keys, snapshot>>
        /\ UNCHANGED <<now, pending_list_pops, pending_stream_reads>>
    BY ZenonT(20) DEF StartExec, changed_keys, data, pending
  <2>2. transactions' = transactions \/ transactions' = [transactions EXCEPT ![c] = NoTransaction]
    BY ZenonT(20) DEF StartExec, data
  <2>3. \/ StartRetries /\ \E reply : Answer(c, reply)
        \/ /\ Block(c) /\ executing' = started
           /\ pc' = "exec" /\ cursor' = cursor /\ checked_at' = checked_at
    BY ZenonT(20) DEF StartExec, AnswerOnly
  <2>4. now' = now /\ pending_list_pops' = pending_list_pops
        /\ pending_stream_reads' = pending_stream_reads
    BY <2>1
  <2>5. Step(db, db')
    BY <2>1, <1>FindStep, <1>StepRefl, IInvTypes, ZenonT(30)
  <2>6. /\ watched_keys' \in WatchType /\ snapshot' \in SnapshotType
        /\ \A s \in Sessions, k \in Keys :
             \/ watched_keys'[s][k] = NotWatched
             \/ watched_keys'[s][k] = watched_keys[s][k] /\ snapshot'[s][k] = snapshot[s][k]
    BY <2>1, IInvTypes, <1>ForgetWatches, ZenonT(30)
  <2>7. Good(db') /\ db' \in DatabaseType /\ WatchInv'
    <3>1. WatchInv'
      BY <2>5, <2>6, <1>WatchKept, Zenon
    <3> QED
      BY <2>5, <3>1 DEF Step, Good
  <2>8. transactions \in TransactionType
    BY IInvTypes, Zenon
  <2>9. transactions' \in TransactionType
    BY <2>2, <2>8, <1>TransactionUpdate, ZenonT(30)
  <2>10. waiting' \subseteq Sessions
    BY <2>3, IInvTypes, <1>AnswerType, <1>BlockType, ZenonT(30)
  <2>11. CASE StartRetries
    BY <2>4, <2>6, <2>7, <2>9, <2>10, <2>11, IInvTypes, <1>TaskEnds, ZenonT(30)
  <2>12. CASE /\ executing' = started
              /\ pc' = "exec" /\ cursor' = cursor /\ checked_at' = checked_at
    <3>1. executing' \in ExecutingType /\ pc' \in Places
      BY <2>8, <2>12 DEF TransactionType, ExecutingType, Places
    <3>2. WaitersOffered'
      BY <2>12, <1>NoClaim
    <3> QED
      BY <2>4, <2>6, <2>7, <2>9, <2>10, <2>12, <3>1, <3>2, IInvTypes, KeepsIInv, ZenonT(30)
  <2> QED
    BY <2>3, <2>11, <2>12, ZenonT(30)

(* A command of a transaction changes keys only with fresh revisions. *)
<1>ExecCommandIInv.
  ASSUME IInv, ExecCommand
  PROVE  IInv'
  <2> USE <1>ExecCommandIInv
  <2> DEFINE cmd == Head(executing.commands)
             result(wall) == dispatch(db, now, wall, cmd)
  <2>1. PICK wall \in WallTimes :
          /\ db' = result(wall).db
          /\ pc' \in {"terminated", "exec"}
          /\ executing' = [executing EXCEPT !.commands = Tail(@),
                                           !.payload = @ \o logged(cmd, result(wall).reply)]
    BY Zenon DEF ExecCommand
  <2>2. /\ executing \in [client: Sessions, commands: Seq(DataCommand), payload: Seq(DataCommand)]
        /\ executing.commands # <<>>
        /\ now \in Nat /\ wall \in 0..IdMax
    BY ProcessorAssumption, IInvTypes, ZenonT(20) DEF ExecutingType, ExecCommand
  <2>3. executing.commands \in Seq(DataCommand) /\ executing.payload \in Seq(DataCommand)
    BY <2>2
  <2>4. cmd \in DataCommand /\ Tail(executing.commands) \in Seq(DataCommand)
    BY <2>2, <2>3
  <2> HIDE DEF cmd
  <2>5. Step(db, db') /\ logged(cmd, result(wall).reply) \in Seq(DataCommand)
    BY <2>1, <2>2, <2>4, <1>DispatchStep, IInvTypes, ZenonT(30)
  <2>12. /\ transactions' = transactions /\ watched_keys' = watched_keys /\ snapshot' = snapshot
        /\ now' = now /\ pending_list_pops' = pending_list_pops
        /\ pending_stream_reads' = pending_stream_reads /\ cursor' = cursor
        /\ checked_at' = checked_at /\ waiting' = waiting
    BY ZenonT(20) DEF ExecCommand, Silent, pending
  <2>6. Good(db') /\ db' \in DatabaseType /\ WatchInv'
    BY <2>5, <2>12, <1>SameWatches, Zenon
  <2> HIDE DEF result
  <2>7. executing.payload \o logged(cmd, result(wall).reply) \in Seq(DataCommand)
    BY <2>3, <2>5
  <2>8. executing' \in ExecutingType
    BY <2>1, <2>2, <2>4, <2>7, ZenonT(30) DEF ExecutingType
  <2>9. pc' \in Places
    BY <2>1 DEF Places
  <2>10. WaitersOffered'
    BY <2>1, <1>NoClaim
  <2> QED
    BY <2>6, <2>8, <2>9, <2>10, <2>12, IInvTypes, KeepsIInv, ZenonT(30)

(* The end of a transaction starts the retry loop. *)
<1>FinishExecIInv.
  ASSUME IInv, FinishExec
  PROVE  IInv'
  <2> USE <1>FinishExecIInv
  <2>1. /\ db' = db /\ transactions' = transactions /\ watched_keys' = watched_keys
        /\ snapshot' = snapshot /\ now' = now /\ pending_list_pops' = pending_list_pops
        /\ pending_stream_reads' = pending_stream_reads /\ checked_at' = checked_at
        /\ executing' = Idle /\ pc' = "pops" /\ cursor' = 1
        /\ \E c, payload, reply : Propagate(c, payload, reply)
    BY ZenonT(20) DEF FinishExec, data, pending
  <2>2. Good(db') /\ db' \in DatabaseType /\ WatchInv'
    BY <2>1, <1>SameData, Zenon
  <2>3. waiting' \subseteq Sessions
    BY <2>1, IInvTypes, <1>PropagateType, ZenonT(30)
  <2>4. executing' \in ExecutingType /\ pc' \in Places /\ cursor' \in Nat \ {0}
    BY <2>1 DEF Idle, Sessions, ExecutingType, Places
  <2>5. WaitersOffered'
    BY <2>1, IInvTypes, <1>LoopStart, ZenonT(30)
  <2> QED
    BY <2>1, <2>2, <2>3, <2>4, <2>5, IInvTypes, KeepsIInv, ZenonT(30)

(* cancel_pending_commands leaves a queue of the same type. *)
<1>WithoutClientType.
  ASSUME NEW S, NEW q \in Seq(S), NEW c
  PROVE  without_client(q, c) \in Seq(S)
  <2> USE <1>WithoutClientType
  <2>1. CASE positions(q, c) = {}
    BY <2>1 DEF without_client
  <2>2. CASE positions(q, c) # {}
    <3>1. (CHOOSE i \in positions(q, c) : TRUE) \in 1..Len(q)
      BY <2>2 DEF positions
    <3> QED
      BY <3>1, <2>2, Removed, ZenonT(20) DEF without_client
  <2> QED
    BY <2>1, <2>2

(* A client that leaves takes its pending command and watches with it. *)
<1>UnregisterIInv.
  ASSUME NEW c \in Clients, IInv, unregister_client(c)
  PROVE  IInv'
  <2> USE <1>UnregisterIInv
  <2>1. c \in Sessions
    BY DEF Sessions
  <2>2. /\ UNCHANGED <<db, now>> /\ Forget(c) /\ StartRetries
        /\ pending_list_pops' = without_client(pending_list_pops, c)
        /\ pending_stream_reads' = without_client(pending_stream_reads, c)
        /\ transactions' = [transactions EXCEPT ![c] = NoTransaction]
        /\ (\E s, reply : Answer(s, reply)) \/ UNCHANGED waiting
    BY ZenonT(20) DEF unregister_client, AnswerOnly, Silent
  <2>3. /\ pending_list_pops' \in Seq(PopRequest)
        /\ pending_stream_reads' \in Seq(ReadRequests)
    BY <2>2, IInvTypes, <1>WithoutClientType, ZenonT(30)
  <2>4. transactions \in TransactionType
    BY IInvTypes, Zenon
  <2>5. transactions' \in TransactionType
    BY <2>1, <2>2, <2>4, <1>TransactionUpdate, ZenonT(30)
  <2>6. waiting' \subseteq Sessions
    BY <2>2, IInvTypes, <1>WaitingType, ZenonT(30)
  <2> QED
    BY <2>1, <2>2, <2>3, <2>5, <2>6, <1>ForgetTaskEnds, ZenonT(30)

(* Time passing changes nothing the invariant mentions. *)
<1>TickIInv.
  ASSUME IInv, Tick
  PROVE  IInv'
  <2> USE <1>TickIInv
  <2>1. /\ db' = db /\ transactions' = transactions /\ watched_keys' = watched_keys
        /\ snapshot' = snapshot /\ pending_list_pops' = pending_list_pops
        /\ pending_stream_reads' = pending_stream_reads /\ executing' = executing /\ pc' = pc
        /\ cursor' = cursor /\ checked_at' = checked_at /\ waiting' = waiting
    BY DEF Tick, Silent, data, pending, control
  <2>2. now' \in Nat
    BY IInvTypes DEF Tick
  <2>3. Good(db') /\ WatchInv'
    BY <2>1, <1>SameData, Zenon
  <2>4. WaitersOffered'
    BY <2>1, IInvTypes, ZenonT(20) DEF WaitersOffered
  <2> QED
    BY <2>1, <2>2, <2>3, <2>4, IInvTypes, KeepsIInv, ZenonT(30)

(* The worker moves from one loop to another, or out of the last; what the    *)
(* loops have offered stays offered.                                          *)
<1>LoopEnds.
  ASSUME IInv, UNCHANGED <<data, now, pending, executing>>, Silent,
         cursor' = 1, checked_at' \in {now, 0},
         pc' \in {"reads", "expire_pops", "expire_reads", "wait"},
         \/ pc \in {"reads", "expire_pops", "expire_reads", "wait"}
         \/ pc = "pops" /\ cursor > Len(pending_list_pops)
  PROVE  IInv'
  <2> USE <1>LoopEnds
  <2>1. /\ db' = db /\ transactions' = transactions /\ watched_keys' = watched_keys
        /\ snapshot' = snapshot /\ pending_list_pops' = pending_list_pops /\ now' = now
        /\ pending_stream_reads' = pending_stream_reads /\ executing' = executing
        /\ waiting' = waiting
    BY DEF Silent, data, pending
  <2>2. pc' \in Places /\ cursor' \in Nat \ {0} /\ checked_at' \in Nat
    BY IInvTypes DEF Places
  <2>3. Good(db') /\ WatchInv'
    BY <2>1, <1>SameData, Zenon
  <2>4. WaitersOffered'
    <3>1. pending_list_pops \in Seq(PopRequest) /\ cursor \in Nat /\ WaitersOffered
      BY IInvTypes, ZenonT(20)
    <3> QED
      BY <2>1, <3>1 DEF WaitersOffered
  <2> QED
    BY <2>1, <2>2, <2>3, <2>4, IInvTypes, KeepsIInv, ZenonT(30)

(* Waking at a deadline skips the retry loop, which has nothing to offer. *)
<1>WakeIInv.
  ASSUME IInv, WakeAtDeadline
  PROVE  IInv'
  BY <1>WakeIInv, <1>LoopEnds DEF WakeAtDeadline

(* The retry loop over BLPOPs ends when every waiter has been offered its key. *)
<1>EndLoopIInv.
  ASSUME IInv,
         \/ EndLoop(pending_list_pops, "pops", "reads")
         \/ EndLoop(pending_stream_reads, "reads", "expire_pops")
         \/ EndLoop(pending_list_pops, "expire_pops", "expire_reads")
         \/ EndLoop(pending_stream_reads, "expire_reads", "wait")
  PROVE  IInv'
  BY <1>EndLoopIInv, <1>LoopEnds, ZenonT(20) DEF EndLoop

(* One iteration of a loop leaves most variables alone. *)
<1>IterationKeeps.
  ASSUME IInv, Good(db'), WatchInv', WaitersOffered',
         UNCHANGED <<transactions, watched_keys, snapshot, now, executing, pc, checked_at>>,
         pending_list_pops' \in Seq(PopRequest), pending_stream_reads' \in Seq(ReadRequests),
         cursor' \in Nat \ {0}, waiting' \subseteq Sessions
  PROVE  IInv'
  <2> USE <1>IterationKeeps
  <2>1. /\ transactions' = transactions /\ watched_keys' = watched_keys /\ snapshot' = snapshot
        /\ now' = now /\ executing' = executing /\ pc' = pc /\ checked_at' = checked_at
    OBVIOUS
  <2> QED
    BY <2>1, IInvTypes, KeepsIInv, ZenonT(30)

(* A waiter that finds nothing leaves its key absent; one that is served or
   refused leaves the waiters before it as they were. *)
<1>RetryPopIInv.
  ASSUME IInv, retry_pending_list_pop
  PROVE  IInv'
  <2> USE <1>RetryPopIInv
  <2> DEFINE request == pending_list_pops[cursor]
             popped == pop_list_element(db, now, request.key)
  <2>1. /\ pc = "pops" /\ cursor \in 1..Len(pending_list_pops) /\ cursor \in Nat \ {0}
        /\ pending_list_pops \in Seq(PopRequest)
        /\ UNCHANGED <<transactions, watched_keys, snapshot, now, pending_stream_reads,
                       executing, pc, checked_at>>
    <3>1. /\ pc = "pops" /\ cursor <= Len(pending_list_pops)
          /\ UNCHANGED <<transactions, watched_keys, snapshot, now, pending_stream_reads,
                         executing, pc, checked_at>>
      BY Zenon DEF retry_pending_list_pop, At
    <3>2. cursor \in Nat \ {0} /\ pending_list_pops \in Seq(PopRequest)
      BY IInvTypes, Zenon
    <3>3. cursor \in 1..Len(pending_list_pops)
      BY <3>1, <3>2
    <3> QED
      BY <3>1, <3>2, <3>3, Zenon
  <2>2. request \in PopRequest /\ request.key \in Keys
    <3>1. request \in PopRequest
      BY <2>1
    <3> QED
      BY <3>1 DEF PopRequest
  <2>3. /\ db' = popped.db
        /\ \/ /\ popped.reply.kind = "nil" /\ Advance /\ UNCHANGED pending_list_pops
           \/ /\ pending_list_pops' = erase(pending_list_pops, cursor)
              /\ UNCHANGED cursor
              /\ \E c, payload, reply : AnswerOnly(c, reply) \/ Propagate(c, payload, reply)
    BY ZenonT(30) DEF retry_pending_list_pop
  <2>4. /\ Step(db, db')
        /\ popped.reply.kind = "nil" => db'.entries[request.key] = Absent
        /\ \A k \in Keys : db.entries[k] = Absent => db'.entries[k] = Absent
    BY <2>2, <2>3, <1>PopStep, IInvTypes, ZenonT(30)
  <2>5. Good(db') /\ db' \in DatabaseType /\ WatchInv'
    BY <2>1, <2>4, <1>SameWatches, ZenonT(30)
  <2>6. waiting' \subseteq Sessions
    BY <2>3, <1>AnswerType, <1>PropagateType, IInvTypes, ZenonT(30) DEF AnswerOnly, Advance, Silent
  <2>7. \A i \in 1..Len(pending_list_pops) : pending_list_pops[i].key \in Keys
    <3>1. \A i \in 1..Len(pending_list_pops) : pending_list_pops[i] \in PopRequest
      BY <2>1, SMTT(30)
    <3> QED
      BY <3>1 DEF PopRequest
  <2>8. \A i \in 1..Len(pending_list_pops) :
          i < cursor => db'.entries[pending_list_pops[i].key] = Absent
    <3>1. WaitersOffered
      BY IInvTypes
    <3> QED
      BY <2>1, <2>4, <2>7, <3>1, SMTT(30) DEF WaitersOffered
  <2> HIDE DEF popped, request
  <2>9. CASE /\ popped.reply.kind = "nil" /\ Advance /\ UNCHANGED pending_list_pops
    <3>1. cursor' = cursor + 1 /\ pending_list_pops' = pending_list_pops
      BY <2>9 DEF Advance
    <3>2. cursor' \in Nat \ {0} /\ pending_list_pops' \in Seq(PopRequest)
      BY <2>1, <3>1, SMTT(30)
    <3>3. WaitersOffered'
      BY <2>1, <2>4, <2>8, <2>9, <3>1, SMTT(30) DEF WaitersOffered, request
    <3> QED
      BY <2>1, <2>5, <2>6, <3>2, <3>3, IInvTypes, <1>IterationKeeps, ZenonT(30)
  <2>10. CASE pending_list_pops' = erase(pending_list_pops, cursor) /\ UNCHANGED cursor
    <3>1. /\ pending_list_pops' \in Seq(PopRequest)
          /\ Len(pending_list_pops') = Len(pending_list_pops) - 1
          /\ \A j \in 1..Len(pending_list_pops) - 1 :
               j < cursor => pending_list_pops'[j] = pending_list_pops[j]
      BY <2>1, <2>10, Removed, ZenonT(30)
    <3>2. cursor' = cursor /\ pc' = "pops"
      BY <2>1, <2>10, SMTT(30)
    <3>3. WaitersOffered'
      BY <2>1, <2>8, <3>1, <3>2, SMTT(30) DEF WaitersOffered
    <3> QED
      BY <2>1, <2>5, <2>6, <3>1, <3>2, <3>3, IInvTypes, <1>IterationKeeps, ZenonT(30)
  <2> QED
    BY <2>3, <2>9, <2>10, ZenonT(30)

(* Retrying an XREAD stores nothing, so absent keys stay absent. *)
<1>RetryReadIInv.
  ASSUME IInv, retry_pending_stream_read
  PROVE  IInv'
  <2> USE <1>RetryReadIInv
  <2> DEFINE request == pending_stream_reads[cursor]
             read == read_streams(db, now, request.requests)
  <2>1. /\ pc = "reads" /\ cursor \in 1..Len(pending_stream_reads) /\ cursor \in Nat \ {0}
        /\ pending_stream_reads \in Seq(ReadRequests)
        /\ UNCHANGED <<transactions, watched_keys, snapshot, now, pending_list_pops,
                       executing, pc, checked_at>>
    BY IInvTypes DEF retry_pending_stream_read, At
  <2>2. request \in ReadRequests /\ request.requests \in Seq(ReadRequest)
    <3>1. request \in ReadRequests
      BY <2>1, SMTT(30)
    <3> QED
      BY <3>1, Zenon DEF ReadRequests
  <2>3. /\ db' = read.db
        /\ \/ /\ pending_stream_reads' =
                  [pending_stream_reads EXCEPT ![cursor].requests = read.requests]
              /\ Advance
           \/ /\ pending_stream_reads' = erase(pending_stream_reads, cursor)
              /\ UNCHANGED cursor
              /\ \E c, reply : AnswerOnly(c, reply)
    BY ZenonT(20) DEF retry_pending_stream_read
  <2>4. /\ Step(db, db') /\ read.requests \in Seq(ReadRequest)
        /\ \A k \in Keys : db.entries[k] = Absent => db'.entries[k] = Absent
    BY <2>2, <2>3, <1>ReadStep, IInvTypes, SMTT(30)
  <2>5. Good(db') /\ db' \in DatabaseType /\ WatchInv'
    BY <2>1, <2>4, <1>SameWatches, ZenonT(30)
  <2>6. waiting' \subseteq Sessions
    BY <2>3, <1>WaitingType, IInvTypes, ZenonT(20) DEF AnswerOnly, Advance, Silent
  <2> HIDE DEF read
  <2>7. cursor' \in Nat \ {0}
    BY <2>1, <2>3, SMTT(30) DEF Advance
  <2>8. pending_stream_reads' \in Seq(ReadRequests)
    <3>1. [request EXCEPT !.requests = read.requests] \in ReadRequests
      BY <2>2, <2>4, ZenonT(20) DEF ReadRequests
    <3>2. [pending_stream_reads EXCEPT ![cursor].requests = read.requests]
            = [pending_stream_reads EXCEPT ![cursor] = [request EXCEPT !.requests = read.requests]]
      OBVIOUS
    <3> DEFINE new == [request EXCEPT !.requests = read.requests]
    <3> HIDE DEF new, request
    <3>3. [pending_stream_reads EXCEPT ![cursor] = new] \in Seq(ReadRequests)
      BY <3>1, <2>1, SMTT(30) DEF new
    <3>4. CASE pending_stream_reads' =
                 [pending_stream_reads EXCEPT ![cursor].requests = read.requests]
      BY <3>2, <3>3, <3>4, ZenonT(20) DEF new
    <3>5. CASE pending_stream_reads' = erase(pending_stream_reads, cursor)
      BY <3>5, <2>1, Removed, ZenonT(20)
    <3> QED
      BY <3>4, <3>5, <2>3, SMTT(30)
  <2>10. WaitersOffered'
    <3>1. pending_list_pops \in Seq(PopRequest) /\ WaitersOffered
      BY IInvTypes
    <3>2. \A i \in 1..Len(pending_list_pops) : pending_list_pops[i].key \in Keys
      <4>1. \A i \in 1..Len(pending_list_pops) : pending_list_pops[i] \in PopRequest
        BY <3>1
      <4> QED
        BY <4>1 DEF PopRequest
    <3>3. DOMAIN pending_list_pops = 1..Len(pending_list_pops)
      BY <3>1
    <3> QED
      BY <3>1, <3>2, <3>3, <2>1, <2>4, ZenonT(20) DEF WaitersOffered
  <2> QED
    BY <2>1, <2>5, <2>6, <2>7, <2>8, <2>10, IInvTypes, <1>IterationKeeps, ZenonT(30)

(* Expiring a BLPOP removes it and leaves the others in place. *)
<1>ExpirePopIInv.
  ASSUME IInv, expire_pending_list_pop
  PROVE  IInv'
  <2> USE <1>ExpirePopIInv
  <2>1. /\ pc = "expire_pops" /\ cursor \in 1..Len(pending_list_pops) /\ cursor \in Nat \ {0}
        /\ pending_list_pops \in Seq(PopRequest)
        /\ UNCHANGED <<data, now, pending_stream_reads, executing, pc, checked_at>>
    BY IInvTypes DEF expire_pending_list_pop, At
  <2>2. \/ /\ pending_list_pops' = erase(pending_list_pops, cursor)
           /\ UNCHANGED cursor
           /\ \E c, reply : AnswerOnly(c, reply)
        \/ Advance /\ UNCHANGED pending_list_pops
    BY ZenonT(20) DEF expire_pending_list_pop
  <2>3. Good(db') /\ db' \in DatabaseType /\ WatchInv'
    BY <2>1, <1>SameData DEF data
  <2>4. waiting' \subseteq Sessions /\ cursor' \in Nat \ {0}
    <3>1. waiting' \subseteq Sessions
      BY <2>2, <1>WaitingType, IInvTypes, ZenonT(20) DEF AnswerOnly, Advance, Silent
    <3>2. cursor' \in Nat \ {0}
      BY <2>1, <2>2, SMTT(30) DEF Advance
    <3> QED
      BY <3>1, <3>2, SMTT(30)
  <2>5. /\ pending_list_pops' \in Seq(PopRequest)
        /\ \A j \in DOMAIN pending_list_pops' :
             \E i \in DOMAIN pending_list_pops : pending_list_pops'[j] = pending_list_pops[i]
    <3>1. CASE pending_list_pops' = erase(pending_list_pops, cursor)
      <4>1. /\ pending_list_pops' \in Seq(PopRequest)
            /\ Len(pending_list_pops') = Len(pending_list_pops) - 1
            /\ \A j \in 1..Len(pending_list_pops) - 1 :
                 \/ pending_list_pops'[j] = pending_list_pops[j]
                 \/ pending_list_pops'[j] = pending_list_pops[j + 1]
        BY <3>1, <2>1, Removed, ZenonT(30)
      <4>2. \A j \in 1..Len(pending_list_pops) - 1 :
              j \in DOMAIN pending_list_pops /\ j + 1 \in DOMAIN pending_list_pops
        BY <2>1
      <4>3. DOMAIN pending_list_pops' = 1..Len(pending_list_pops) - 1
        BY <4>1, SMTT(30)
      <4>4. ASSUME NEW j \in 1..Len(pending_list_pops) - 1
            PROVE  \E i \in DOMAIN pending_list_pops : pending_list_pops'[j] = pending_list_pops[i]
        <5>1. j \in DOMAIN pending_list_pops /\ j + 1 \in DOMAIN pending_list_pops
          BY <4>2, SMTT(30)
        <5>2. CASE pending_list_pops'[j] = pending_list_pops[j]
          BY <5>1, <5>2, SMTT(30)
        <5>3. CASE pending_list_pops'[j] = pending_list_pops[j + 1]
          BY <5>1, <5>3, SMTT(30)
        <5> QED
          BY <5>2, <5>3, <4>1, ZenonT(20)
      <4> QED
        BY <4>1, <4>3, <4>4, SMTT(30)
    <3> QED
      BY <3>1, <2>1, <2>2, ZenonT(20)
  <2>6. UNCHANGED <<transactions, watched_keys, snapshot, now, executing, pc, checked_at>>
    BY <2>1, SMTT(30) DEF data
  <2>7. WaitersOffered'
    BY <2>1, <2>5, IInvTypes DEF WaitersOffered, data
  <2> QED
    BY <2>1, <2>3, <2>4, <2>5, <2>6, <2>7, IInvTypes, <1>IterationKeeps, ZenonT(30)

(* Expiring an XREAD touches no BLPOP. *)
<1>ExpireReadIInv.
  ASSUME IInv, expire_pending_stream_read
  PROVE  IInv'
  <2> USE <1>ExpireReadIInv
  <2>1. /\ pc = "expire_reads" /\ cursor \in 1..Len(pending_stream_reads) /\ cursor \in Nat \ {0}
        /\ pending_stream_reads \in Seq(ReadRequests)
        /\ UNCHANGED <<data, now, pending_list_pops, executing, pc, checked_at>>
    BY IInvTypes DEF expire_pending_stream_read, At
  <2>2. \/ /\ pending_stream_reads' = erase(pending_stream_reads, cursor)
           /\ UNCHANGED cursor
           /\ \E c, reply : AnswerOnly(c, reply)
        \/ Advance /\ UNCHANGED pending_stream_reads
    BY ZenonT(20) DEF expire_pending_stream_read
  <2>3. Good(db') /\ db' \in DatabaseType /\ WatchInv'
    BY <2>1, <1>SameData, ZenonT(20) DEF data
  <2>4. waiting' \subseteq Sessions /\ cursor' \in Nat \ {0}
    <3>1. waiting' \subseteq Sessions
      BY <2>2, <1>WaitingType, IInvTypes, ZenonT(20) DEF AnswerOnly, Advance, Silent
    <3>2. cursor' \in Nat \ {0}
      BY <2>1, <2>2, SMTT(30) DEF Advance
    <3> QED
      BY <3>1, <3>2, SMTT(30)
  <2>5. pending_stream_reads' \in Seq(ReadRequests)
    BY <2>1, <2>2, Removed, ZenonT(20)
  <2>6. UNCHANGED <<transactions, watched_keys, snapshot, now, executing, pc, checked_at>>
    BY <2>1, SMTT(30) DEF data
  <2>7. WaitersOffered'
    BY <2>1, IInvTypes, ZenonT(20) DEF WaitersOffered, data
  <2> QED
    BY <2>1, <2>3, <2>4, <2>5, <2>6, <2>7, IInvTypes, <1>IterationKeeps, ZenonT(30)

(* Every action. *)
<1> SUFFICES ASSUME IInv, [Next]_vars PROVE IInv'
  OBVIOUS
<1>1. ASSUME NEW c \in Sessions, NEW cmd, ProcessTask(c, cmd) PROVE IInv'
  BY <1>1, <1>RejectIInv, <1>BlpopIInv, <1>XreadIInv, <1>DirectIInv, <1>QueueIInv,
     <1>WatchIInv, <1>UnwatchIInv,
     <1>MultiIInv, <1>DiscardIInv, <1>StartExecIInv, SMTT(30) DEF ProcessTask
<1>2. ASSUME NEW c \in Clients, unregister_client(c) PROVE IInv'
  BY <1>2, <1>UnregisterIInv
<1>3. CASE Work
  BY <1>3, <1>ExecCommandIInv, <1>FinishExecIInv, <1>RetryPopIInv, <1>RetryReadIInv, <1>ExpirePopIInv,
     <1>ExpireReadIInv, <1>EndLoopIInv, <1>WakeIInv, SMTT(30) DEF Work
<1>4. CASE Tick
  BY <1>4, <1>TickIInv, SMTT(30)
<1>5. CASE UNCHANGED vars
  <2>1. /\ db' = db /\ transactions' = transactions /\ watched_keys' = watched_keys
        /\ snapshot' = snapshot /\ pending_list_pops' = pending_list_pops /\ now' = now
        /\ pending_stream_reads' = pending_stream_reads /\ executing' = executing
        /\ waiting' = waiting /\ pc' = pc /\ cursor' = cursor /\ checked_at' = checked_at
    BY <1>5 DEF vars, data, pending, output, control
  <2>2. Good(db') /\ WatchInv'
    BY <2>1, <1>SameData, Zenon
  <2>3. WaitersOffered'
    BY <2>1, IInvTypes, ZenonT(20) DEF WaitersOffered
  <2> QED
    BY <2>1, <2>2, <2>3, IInvTypes, KeepsIInv, ZenonT(30)
<1> QED
  BY <1>1, <1>2, <1>3, <1>4, <1>5, SMTT(30) DEF Next
=============================================================================
