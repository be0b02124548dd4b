---------------------------- MODULE MCAofReplay -----------------------------
(* Small instances of AofReplay for TLC. *)
EXTENDS AofReplay, MCCommandProcessor

(* Every kind of write, none with a lifetime, directly, blocked and queued. *)
LastingCommands ==
  {Set(1, 0, Never), OnKey("INCR", 1), Push("RPUSH", 1, <<a, b>>), Pop(1, 0), Blpop(1, 0),
   Add(2, [mode |-> "automatic"]), Op("MULTI"), Op("EXEC")}

(* A string that expires, and a list under the same key. *)
ExpiringCommands == {Set(1, a, 1), Push("RPUSH", 1, <<a>>), Op("MULTI"), Op("EXEC"), Pop(1, 0)}

(* Transactions of two writes. *)
FailingCommands == {OnKey("INCR", 1), Push("RPUSH", 2, <<a>>), Op("MULTI"), Op("EXEC")}

(* What the master of a replica sends: no blocking pop, only explicit ids. *)
ReplicatedCommands ==
  {Set(1, 0, Never), Push("RPUSH", 1, <<a, b>>), Pop(1, 0), Add(2, Explicit(1, 1)),
   Op("MULTI"), Op("EXEC")}

PersistenceScenarios ==
  [lasting |->
     Scenario("master", "on", Submit(LastingCommands, LastingCommands, {}, {}), 0, 4, 1),
   replica |->
     Scenario("replica", "on", Submit({OnKey("INCR", 1)}, {}, {}, ReplicatedCommands), 0, 4, 1),
   failing |->
     Scenario("master", "may_fail", Submit(FailingCommands, {}, {}, {}), 0, 4, 2)]

ExpiringScenario ==
  [expiring |->
     Scenario("master", "on", Submit(ExpiringCommands, {}, {}, {}), 1, 4, 1)]
=============================================================================
