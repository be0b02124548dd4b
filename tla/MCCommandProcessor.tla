------------------------- MODULE MCCommandProcessor -------------------------
(* Small instances of CommandProcessor for TLC: the command sets of its runs. *)
EXTENDS CommandProcessor, TLC

CONSTANTS a, b, c1, c2, c3, master

Op(op) == [op |-> op]
Set(k, v, ttl) == [op |-> "SET", key |-> k, value |-> v, ttl |-> ttl]
OnKey(op, k) == [op |-> op, key |-> k]
Push(op, k, values) == [op |-> op, key |-> k, values |-> values]
Pop(k, count) == [op |-> "LPOP", key |-> k, count |-> count]
Blpop(k, timeout) == [op |-> "BLPOP", key |-> k, timeout |-> timeout]
WatchKeys(ks) == [op |-> "WATCH", keys |-> ks]
Explicit(ms, seq) == [mode |-> "explicit", ms |-> ms, seq |-> seq]
Add(k, id) == [op |-> "XADD", key |-> k, id |-> id]
After(k, id) == [key |-> k, latest |-> FALSE, after |-> id]
Latest(k) == [key |-> k, latest |-> TRUE, after |-> ZeroId]
Read(requests, mode, timeout) ==
  [op |-> "XREAD", requests |-> requests, mode |-> mode, timeout |-> timeout]

MCKeys == {1, 2}

Scenario(role, file, commands, time, revision, queued) ==
  [role |-> role, aof |-> file, commands |-> commands,
   max_time |-> time, max_revision |-> revision, max_queued |-> queued]

(* What each session submits. *)
Submit(first, second, third, from_master) ==
  [c \in Sessions |-> CASE c = c1 -> first [] c = c2 -> second [] c = c3 -> third
                        [] c = master -> from_master]

(* Transactions: a client watches two keys, one of which may expire, while   *)
(* another one writes them, directly and in transactions.                    *)
WatcherCommands ==
  {Set(1, a, 1), OnKey("INCR", 2), OnKey("GET", 1), WatchKeys(<<1, 2>>), Op("UNWATCH"),
   Op("MULTI"), Op("EXEC"), Op("DISCARD")}
WriterCommands ==
  {Set(1, a, Never), OnKey("INCR", 2), WatchKeys(<<2>>), Op("MULTI"), Op("EXEC")}

(* Blocking pops: two clients wait on one list while a third one pushes and  *)
(* pops, directly and inside a transaction, and may store a string instead.  *)
WaiterCommands == {Blpop(1, 0), Blpop(1, 1)}
PusherCommands ==
  {Push("RPUSH", 1, <<a>>), Push("LPUSH", 1, <<a, b>>), Pop(1, 0), Blpop(1, 1),
   Set(1, a, 1), Op("MULTI"), Op("EXEC")}

(* Streams: ids of every kind, a clock that jumps back, readers that block on *)
(* two streams from an id and from "$".                                       *)
StreamCommands ==
  {Add(1, Explicit(1, 0)), Add(1, [mode |-> "automatic"]),
   Add(2, [mode |-> "automatic_sequence", ms |-> 0]), Set(2, a, 1),
   Read(<<Latest(1), After(2, ZeroId)>>, "block", 1), Read(<<After(1, <<1, 0>>)>>, "block", 0),
   Read(<<Latest(2)>>, "immediate", 0)}

(* A replica: what its master sends and what its clients try. *)
ReplicaMasterCommands ==
  {Set(1, a, 1), Push("RPUSH", 1, <<a, b>>), Pop(1, 2), Add(2, Explicit(1, 1)),
   Op("MULTI"), Op("EXEC")}
ReplicaClientCommands ==
  {Set(1, b, Never), OnKey("INCR", 1), Push("LPUSH", 1, <<b>>), Pop(1, 0), Blpop(1, 0),
   Add(2, [mode |-> "automatic"]), OnKey("GET", 1), OnKey("TYPE", 1), OnKey("LLEN", 1),
   [op |-> "LRANGE", key |-> 1, start |-> -2, stop |-> 0], Op("PING"), Op("MALFORMED"),
   [op |-> "XRANGE", key |-> 2, start |-> ZeroId, stop |-> <<2, 2>>],
   Read(<<Latest(2)>>, "block", 1), Op("KEYS"), Op("MULTI"), Op("EXEC")}

MCScenarios ==
  [transactions |->
     Scenario("master", "off", Submit(WatcherCommands, WriterCommands, {}, {}), 1, 3, 1),
   blocking |->
     Scenario("master", "off", Submit(WaiterCommands, WaiterCommands, PusherCommands, {}), 2, 4, 1),
   streams |->
     Scenario("master", "off", Submit(StreamCommands, StreamCommands, {}, {}), 2, 4, 1),
   replica |->
     Scenario("replica", "off",
              Submit(ReplicaClientCommands, {}, {}, ReplicaMasterCommands), 1, 3, 1)]
=============================================================================
