------------------------------ MODULE Commands ------------------------------
(***************************************************************************)
(* The command table of src/command_processor.cpp and the handlers of      *)
(* src/{commands,rlist,rstream}.cpp, over parsed commands: a command is a  *)
(* record of its name and its parsed arguments.  A command whose arguments *)
(* a handler refuses is [op |-> "MALFORMED"]: an error, no effect.         *)
(***************************************************************************)
EXTENDS Database

SetCommand == [op: {"SET"}, key: Keys, value: Strings, ttl: {Never} \cup (Nat \ {0})]
KeyCommand == [op: {"GET", "TYPE", "INCR", "LLEN"}, key: Keys]
PushCommand == [op: {"RPUSH", "LPUSH"}, key: Keys, values: Seq(Texts) \ {<<>>}]
RangeCommand == [op: {"LRANGE"}, key: Keys, start: Int, stop: Int]
PopCommand == [op: {"LPOP"}, key: Keys, count: Nat]          \* count 0: no count given
BlockingPopCommand == [op: {"BLPOP"}, key: Keys, timeout: Nat]   \* timeout 0: for ever
IdRequest == [mode: {"explicit"}, ms: 0..IdMax, seq: 0..IdMax]
             \cup [mode: {"automatic_sequence"}, ms: 0..IdMax]
             \cup [mode: {"automatic"}]
AddCommand == [op: {"XADD"}, key: Keys, id: IdRequest]
StreamRangeCommand == [op: {"XRANGE"}, key: Keys, start: StreamIds, stop: StreamIds]
ReadRequest == [key: Keys, latest: BOOLEAN, after: StreamIds]
ReadCommand == [op: {"XREAD"}, requests: Seq(ReadRequest),
                mode: {"immediate", "block"}, timeout: Nat]      \* timeout 0: for ever
PlainCommand == [op: {"PING", "KEYS", "MALFORMED"}]

(* Commands the table holds, which MULTI queues and dispatch executes... *)
DataCommand == SetCommand \cup KeyCommand \cup PushCommand \cup RangeCommand \cup PopCommand
               \cup BlockingPopCommand \cup AddCommand \cup StreamRangeCommand
               \cup ReadCommand \cup PlainCommand

(* ... and those process_command handles itself. *)
ControlCommand == [op: {"MULTI", "EXEC", "DISCARD", "UNWATCH"}]
                  \cup [op: {"WATCH"}, keys: Seq(Keys) \ {<<>>}]

Command == DataCommand \cup ControlCommand

is_control_command(cmd) == cmd.op \in {"MULTI", "EXEC", "DISCARD", "WATCH", "UNWATCH"}

MultiMark == [op |-> "MULTI"]
ExecMark == [op |-> "EXEC"]

-----------------------------------------------------------------------------
(* LPOP with and without a count; parse_number_of_elements admits only counts above 0. *)
lpop(db, now, cmd) ==
  IF cmd.count = 0 THEN pop_list_element(db, now, cmd.key)
  ELSE pop_list_elements(db, now, cmd.key, cmd.count)

(* BLPOP inside a transaction does not block. *)
blpop(db, now, cmd) ==
  LET popped == pop_list_element(db, now, cmd.key)
  IN IF popped.reply.kind = "bulk"
     THEN Result(popped.db, Popped(cmd.key, popped.reply.value))
     ELSE popped

xadd(db, now, wall, cmd) ==
  IF cmd.id.mode = "explicit" /\ cmd.id.ms = 0 /\ cmd.id.seq = 0
  THEN Result(db, Error("ERR"))
  ELSE add_stream(db, now, wall, cmd.key, cmd.id)

(* XREAD inside a transaction does not block. *)
xread(db, now, cmd) ==
  LET read == read_streams(db, now, cmd.requests) IN Result(read.db, read.reply)

dispatch(db, now, wall, cmd) ==
  CASE cmd.op = "PING"   -> Result(db, Ok)
    [] cmd.op = "SET"    -> set(db, now, cmd.key, cmd.value, cmd.ttl)
    [] cmd.op = "GET"    -> get(db, now, cmd.key)
    [] cmd.op = "KEYS"   -> keys(db, now)
    [] cmd.op = "TYPE"   -> get_type(db, now, cmd.key)
    [] cmd.op = "INCR"   -> increment_key(db, now, cmd.key)
    [] cmd.op = "RPUSH"  -> add_list_elements(db, now, cmd.key, cmd.values, "append")
    [] cmd.op = "LPUSH"  -> add_list_elements(db, now, cmd.key, cmd.values, "prepend")
    [] cmd.op = "LRANGE" -> list_elements(db, now, cmd.key, cmd.start, cmd.stop)
    [] cmd.op = "LLEN"   -> get_list_length(db, now, cmd.key)
    [] cmd.op = "LPOP"   -> lpop(db, now, cmd)
    [] cmd.op = "BLPOP"  -> blpop(db, now, cmd)
    [] cmd.op = "XADD"   -> xadd(db, now, wall, cmd)
    [] cmd.op = "XRANGE" -> stream_range(db, now, cmd.key, cmd.start, cmd.stop)
    [] cmd.op = "XREAD"  -> xread(db, now, cmd)
    [] OTHER             -> Result(db, Error("ERR"))

-----------------------------------------------------------------------------
(* Faulty variant: the table does not mark BLPOP as a write.                  *)
WriteCommands_no_blpop == {"SET", "INCR", "RPUSH", "LPUSH", "LPOP", "XADD"}

WriteCommands == {"SET", "INCR", "RPUSH", "LPUSH", "LPOP", "BLPOP", "XADD"}

is_write_command(cmd) == cmd.op \in WriteCommands

(* Only a pop that found nothing succeeds without modifying the database. *)
write_modified_database(cmd, reply) ==
  /\ ~response_is_error(reply)
  /\ cmd.op = "BLPOP" => reply.kind = "popped"
  /\ cmd.op = "LPOP" => reply.kind # "nil" /\ reply # Array(<<>>)

(* Faulty variant: an XADD is logged as the client sent it.                   *)
normalize_replication_command_raw_id(cmd, reply) ==
  IF cmd.op = "BLPOP" THEN [op |-> "LPOP", key |-> cmd.key, count |-> 0] ELSE cmd

(* The form in which a write is logged and propagated: the id XADD generated *)
(* becomes explicit and a BLPOP that popped becomes an LPOP.                 *)
normalize_replication_command(cmd, reply) ==
  CASE cmd.op = "XADD"  -> [cmd EXCEPT !.id = [mode |-> "explicit", ms |-> reply.id[1],
                                               seq |-> reply.id[2]]]
    [] cmd.op = "BLPOP" -> [op |-> "LPOP", key |-> cmd.key, count |-> 0]
    [] OTHER            -> cmd

(* The lists of commands an operation contributes to the log: at most one.   *)
logged(cmd, reply) ==
  IF is_write_command(cmd) /\ write_modified_database(cmd, reply)
  THEN <<normalize_replication_command(cmd, reply)>>
  ELSE <<>>
=============================================================================
