---------------------------- MODULE MCTaskQueue ----------------------------
(***************************************************************************)
(* An instance of TaskQueue: a connection thread, which waits for the      *)
(* future of each task, and the stopping thread, which submits two tasks   *)
(* before it waits.                                                        *)
(***************************************************************************)
EXTENDS TaskQueue

CONSTANTS connection, stopper

MCThreads == {connection, stopper}
MCBurst == [s \in MCThreads |-> IF s = stopper THEN 2 ELSE 1]
=============================================================================
