----------------------------- MODULE AofReplay ------------------------------
(***************************************************************************)
(* The append-only file as a recovery log: what a server that starts with  *)
(* the file the worker has written so far would load                       *)
(* (AppendOnlyFile::read_commands, process_aof_initialization).  A crash   *)
(* may happen between any two steps of the worker, so the file is judged   *)
(* in every state.                                                         *)
(***************************************************************************)
EXTENDS CommandProcessor, SequencesExt

(* What replay has built so far: the database, the transaction of the        *)
(* replaying client, and whether a command was answered with an error.       *)
Recovery == [db: DatabaseType, open: BOOLEAN, commands: Seq(Command), failed: BOOLEAN]

NothingReplayed == [db |-> EmptyDatabase, open |-> FALSE, commands |-> <<>>, failed |-> FALSE]

(* A logged command does not read the system clock: its ids are explicit.    *)
replayed(database, cmd) == dispatch(database, now, 0, cmd)

(* The queued commands of a transaction; their errors are not looked at. *)
replay_transaction(database, commands) ==
  FoldLeft(LAMBDA d, cmd : replayed(d, cmd).db, database, commands)

(* process_command for the replaying client, which watches nothing.  A        *)
(* command that was cut short is refused, as it is at the end of the file.    *)
replay_command(r, cmd) ==
  CASE r.failed -> r
    [] cmd.op = "TORN" -> [r EXCEPT !.failed = TRUE]
    [] cmd.op = "MULTI" -> IF r.open THEN [r EXCEPT !.failed = TRUE] ELSE [r EXCEPT !.open = TRUE]
    [] cmd.op = "EXEC" ->
         IF r.open
         THEN [r EXCEPT !.db = replay_transaction(@, r.commands), !.open = FALSE, !.commands = <<>>]
         ELSE [r EXCEPT !.failed = TRUE]
    [] OTHER -> IF r.open THEN [r EXCEPT !.commands = Append(@, cmd)]
                ELSE LET result == replayed(r.db, cmd)
                     IN [r EXCEPT !.db = result.db, !.failed = response_is_error(result.reply)]

process_aof_initialization(file) == FoldLeft(replay_command, NothingReplayed, file)

(* The server starts: every command was replayed and no transaction is open. *)
starts(r) == ~r.failed /\ ~r.open

-----------------------------------------------------------------------------
(* If no append fails and no lifetime passes, a server restarted with the     *)
(* file loads exactly the entries the worker had, on a master and on a        *)
(* replica: every modification was logged, in the order and the form in which *)
(* replay repeats it, and nothing else was.  While a transaction executes the *)
(* file holds the state before it.                                            *)
RecoversEntries ==
  ~AofMayFail /\ pc # "exec" =>
    LET r == process_aof_initialization(aof)
    IN starts(r) /\ r.db.entries = db.entries

(* Whatever the worker has logged, a server accepts when it starts.           *)
ReplayAccepted == starts(process_aof_initialization(aof))

(* However much of a transaction an append that failed left at the end of the *)
(* file, no restart loads a database in which only some of its commands took  *)
(* effect (execute_transaction logs them between MULTI and EXEC), provided    *)
(* that no command before it was cut short (AofFile: misread).                *)
AllOrNothing ==
  [][pc = "exec" /\ pc' # "exec" /\ (\A i \in DOMAIN aof : aof[i] # Torn) =>
       LET before == process_aof_initialization(aof)
           after == process_aof_initialization(aof')
       IN starts(after) =>
            after.db.entries \in {before.db.entries,
                                 replay_transaction(before.db, executing.payload).entries}]_vars
=============================================================================
