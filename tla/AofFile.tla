------------------------------ MODULE AofFile -------------------------------
(***************************************************************************)
(* The append-only file on disk: the manifest, the writes and fsyncs of    *)
(* the worker, and the start of a server after it was killed or after the  *)
(* machine lost power.                                                     *)
(*                                                                         *)
(* The payload of a write is Parts pieces, the units in which write() may  *)
(* be cut short.  A payload stands for a command or for a transaction with *)
(* its MULTI and EXEC.  Whether a whole payload replays without an error   *)
(* is the subject of AofReplay.                                            *)
(*                                                                         *)
(* The kernel keeps what was written when the process dies.  When power    *)
(* fails it keeps at least what was fsynced and at most what was written;  *)
(* fsync of a file makes its name durable, as on the usual file systems,   *)
(* and an fsync that fails may be tried again.                             *)
(***************************************************************************)
EXTENDS Naturals, Sequences

CONSTANTS
  Policies,     \* the values of appendfsync a server may be started with
  Parts,        \* pieces of a payload
  Second,       \* the period of everysec
  DiskFails,    \* whether write and fsync may fail
  MaxWrites,    \* bound: writes in a behaviour
  MaxTime,      \* bound: the clock
  MaxCrashes    \* bound: crashes in a behaviour

ASSUME AofFileAssumption ==
  /\ Policies \subseteq {"always", "everysec", "no"}
  /\ Parts \in Nat \ {0} /\ Second \in Nat \ {0}
  /\ DiskFails \in BOOLEAN
  /\ MaxWrites \in Nat /\ MaxTime \in Nat /\ MaxCrashes \in Nat

VARIABLES
  policy,         \* _sync_policy, the same whenever the server is started
  pc,             \* where the process is
  manifest,       \* what the manifest holds
  manifest_disk,  \* what of it survived the last power failure
  log,            \* the pieces in the active file
  durable,        \* how many of them are sure to survive a power failure
  last_sync,      \* _last_sync
  now,            \* the steady clock
  rest,           \* the pieces that append has still to write
  database,       \* the writes that took effect in this process, or were replayed
  writes,         \* how many writes were executed
  acknowledged,   \* history: the writes whose clients were told of success
  recent,         \* history: those of this process, with the time
  failed,         \* history: the writes whose append failed in write()
  crashes,        \* how many crashes have happened
  power_lost      \* history: whether power has failed

files == <<manifest, manifest_disk, log, durable>>
history == <<acknowledged, recent, failed, writes>>
machine == <<policy, crashes, power_lost>>
vars == <<pc, files, last_sync, now, rest, database, history, machine>>

(* The start: the manifest is looked for, filled after it was created, the   *)
(* active file is opened, then read.  Then the server is ready, or append is *)
(* writing, looking at the clock or syncing.                                 *)
Serving == {"ready", "write", "written", "sync"}
Places == {"down", "flush", "open", "read", "refused"} \cup Serving

ManifestContents == {"absent", "empty", "entry"}
Piece == [write : Nat, part : 1..Parts]

serialized(w) == [i \in 1..Parts |-> [write |-> w, part |-> i]]

-----------------------------------------------------------------------------
(* read_active_filename: the only line the server writes names an             *)
(* incremental file; without one there is nothing to open.                    *)
names_active_file(contents) == contents = "entry"

(* AppendOnlyFile::open: an existing manifest must name an incremental file;  *)
(* otherwise one is created, empty at first.                                  *)
open_manifest ==
  /\ pc \in {"down", "refused"}
  /\ \/ /\ manifest = "entry"
        /\ pc' = "open"
        /\ UNCHANGED manifest
     \/ /\ manifest # "absent" /\ ~names_active_file(manifest)
        /\ pc' = "refused"
        /\ UNCHANGED manifest
     \/ /\ manifest = "absent"
        /\ pc' = "flush"
        /\ manifest' = "empty"
  /\ UNCHANGED <<manifest_disk, log, durable, last_sync, now, rest, database, history, machine>>

(* create_manifest writes its line, or fails and leaves the empty file. *)
create_manifest ==
  /\ pc = "flush"
  /\ \/ /\ pc' = "open"
        /\ manifest' = "entry"
     \/ /\ DiskFails
        /\ pc' = "refused"
        /\ UNCHANGED manifest
  /\ UNCHANGED <<manifest_disk, log, durable, last_sync, now, rest, database, history, machine>>

(* The active file is created or opened for appending; the constructor        *)
(* starts the period of everysec.                                             *)
open ==
  /\ pc = "open"
  /\ \/ /\ pc' = "read"
        /\ last_sync' = now
        /\ recent' = {}
     \/ /\ DiskFails
        /\ pc' = "refused"
        /\ UNCHANGED <<last_sync, recent>>
  /\ UNCHANGED <<files, now, rest, database, acknowledged, failed, writes, machine>>

(* The file is a sequence of whole payloads: every piece is followed by the   *)
(* next one of its payload, every last piece by a first piece or by nothing.  *)
whole(file) ==
  /\ file # <<>> => file[1].part = 1
  /\ \A i \in 1..Len(file) :
       IF file[i].part < Parts
       THEN i < Len(file) /\ file[i + 1] = [file[i] EXCEPT !.part = @ + 1]
       ELSE i < Len(file) => file[i + 1].part = 1

replayed(file) == {file[i].write : i \in 1..Len(file)}

(* The last pieces of payloads that were cut short and followed by others.    *)
cuts(file) == {i \in 1..(Len(file) - 1) :
                 file[i].part < Parts /\ file[i + 1].write # file[i].write}

(* What may be read behind a cut.  parse_command takes the length of a value  *)
(* from the payload that was cut and the rest of its bytes from those that    *)
(* follow, and checks only that CR LF comes after them.  Which of the later   *)
(* commands it swallows, and with which it falls into step again, depends on  *)
(* lengths and contents, so any of them may be missing.  What is before the   *)
(* first cut is read as it was written.                                       *)
misread(file, loaded) ==
  \E i \in cuts(file) :
    /\ \A j \in cuts(file) : i <= j
    /\ loaded \subseteq replayed(file)
    /\ \A j \in 1..(i - 1) : file[j].part = Parts => file[j].write \in loaded

(* AppendOnlyFile::read_commands and process_aof_initialization: a file that  *)
(* ends inside a payload is refused, one with a cut is refused or misread,    *)
(* and an error while reading refuses any file.                               *)
read_commands ==
  /\ pc = "read"
  /\ \/ /\ whole(log)
        /\ pc' = "ready"
        /\ database' = replayed(log)
     \/ /\ pc' = "ready"
        /\ \E loaded \in SUBSET replayed(log) : misread(log, loaded) /\ database' = loaded
     \/ /\ ~whole(log) \/ DiskFails
        /\ pc' = "refused"
        /\ UNCHANGED database
  /\ UNCHANGED <<files, last_sync, now, rest, history, machine>>

-----------------------------------------------------------------------------
(* The worker executes a write in memory and calls append with its payload.   *)
execute ==
  /\ pc = "ready"
  /\ writes < MaxWrites
  /\ writes' = writes + 1
  /\ database' = database \cup {writes + 1}
  /\ rest' = serialized(writes + 1)
  /\ pc' = "write"
  /\ UNCHANGED <<files, last_sync, now, acknowledged, recent, failed, machine>>

(* The client is told that its write succeeded. *)
acknowledge ==
  /\ acknowledged' = acknowledged \cup {writes}
  /\ recent' = recent \cup {[write |-> writes, time |-> now]}
  /\ pc' = "ready"

(* The client is told MISCONF; the write stays in the database. *)
fail == DiskFails /\ pc' = "ready" /\ UNCHANGED <<acknowledged, recent>>

(* write() takes some of the payload; EINTR changes nothing.  After an error  *)
(* what was written of the payload stays in the file.                         *)
write ==
  /\ pc = "write"
  /\ \/ \E n \in 1..Len(rest) :
          /\ log' = log \o SubSeq(rest, 1, n)
          /\ rest' = SubSeq(rest, n + 1, Len(rest))
          /\ pc' = IF n = Len(rest) THEN "written" ELSE "write"
          /\ UNCHANGED <<acknowledged, recent, failed>>
     \/ /\ fail
        /\ rest' = <<>>
        /\ failed' = failed \cup {writes}
        /\ UNCHANGED log
  /\ UNCHANGED <<manifest, manifest_disk, durable, last_sync, now, database, writes, machine>>

(* Faulty variant: always is treated like everysec.                           *)
must_sync_every_second == policy \in {"always", "everysec"} /\ now >= last_sync + Second

must_sync ==
  \/ policy = "always"
  \/ policy = "everysec" /\ now >= last_sync + Second

(* After the last byte append looks at the policy and the clock.  Without an  *)
(* fsync the time of the acknowledgement is that of this look at the clock.   *)
written ==
  /\ pc = "written"
  /\ IF must_sync THEN pc' = "sync" /\ UNCHANGED <<acknowledged, recent>> ELSE acknowledge
  /\ UNCHANGED <<files, last_sync, now, rest, database, writes, failed, machine>>

(* Faulty variant: the time of the last fsync is set although it failed.      *)
sync_stamped_early ==
  /\ pc = "sync"
  /\ last_sync' = now
  /\ \/ acknowledge /\ durable' = Len(log)
     \/ fail /\ UNCHANGED durable
  /\ UNCHANGED <<manifest, manifest_disk, log, now, rest, database, writes, failed, machine>>

(* AppendOnlyFile::sync *)
sync ==
  /\ pc = "sync"
  /\ \/ /\ acknowledge
        /\ durable' = Len(log)
        /\ last_sync' = now
     \/ /\ fail
        /\ UNCHANGED <<durable, last_sync>>
  /\ UNCHANGED <<manifest, manifest_disk, log, now, rest, database, writes, failed, machine>>

-----------------------------------------------------------------------------
(* The process dies. *)
crash ==
  /\ crashes < MaxCrashes
  /\ crashes' = crashes + 1
  /\ pc' = "down"
  /\ rest' = <<>>
  /\ database' = {}
  /\ UNCHANGED <<last_sync, now, history, policy>>

kill == pc \notin {"down", "refused"} /\ crash /\ UNCHANGED <<files, power_lost>>

(* What a power failure may leave of the manifest, which is never synced. *)
remains_of_manifest ==
  {m \in ManifestContents :
     /\ m = "absent" => manifest_disk = "absent"
     /\ m = "empty" => manifest_disk # "entry" /\ manifest # "absent"
     /\ m = "entry" => manifest = "entry"}

lose_power ==
  /\ crash
  /\ power_lost' = TRUE
  /\ \E n \in durable..Len(log) : log' = SubSeq(log, 1, n) /\ durable' = n
  /\ manifest' \in remains_of_manifest
  /\ manifest_disk' = manifest'

tick ==
  /\ now < MaxTime
  /\ now' = now + 1
  /\ UNCHANGED <<pc, files, last_sync, rest, database, history, machine>>

-----------------------------------------------------------------------------
Init ==
  /\ policy \in Policies
  /\ pc = "down"
  /\ manifest = "absent" /\ manifest_disk = "absent"
  /\ log = <<>> /\ durable = 0
  /\ last_sync = 0 /\ now = 0
  /\ rest = <<>>
  /\ database = {}
  /\ writes = 0 /\ acknowledged = {} /\ recent = {} /\ failed = {}
  /\ crashes = 0 /\ power_lost = FALSE

Start == open_manifest \/ create_manifest \/ open \/ read_commands
Append_ == write \/ written \/ sync

Next == Start \/ execute \/ Append_ \/ kill \/ lose_power \/ tick

Spec == Init /\ [][Next]_vars

-----------------------------------------------------------------------------
TypeOK ==
  /\ policy \in Policies
  /\ pc \in Places
  /\ manifest \in ManifestContents /\ manifest_disk \in ManifestContents
  /\ log \in Seq(Piece) /\ durable \in 0..Len(log)
  /\ last_sync \in Nat /\ now \in Nat /\ last_sync <= now
  /\ rest \in Seq(Piece)
  /\ database \subseteq Nat /\ writes \in Nat
  /\ acknowledged \subseteq Nat /\ recent \subseteq [write : Nat, time : Nat] /\ failed \subseteq Nat
  /\ crashes \in Nat /\ power_lost \in BOOLEAN

(* The payload of a write is in the file behind one that a failed append cut  *)
(* short.                                                                     *)
behind_failed_append(w) ==
  \E i \in cuts(log) :
    /\ log[i].write \in failed
    /\ \E j \in (i + 1)..Len(log) : log[j] = [write |-> w, part |-> Parts]

(* A server that serves has every write that was ever acknowledged, by this   *)
(* process or by one before it, however often processes died in between,      *)
(* except that a start may miss those behind a payload that a failed append   *)
(* cut short: these are still in the file, since append never truncates.      *)
(* With appendfsync always this holds across power failures, with every       *)
(* policy as long as the machine stays up.                                    *)
AcknowledgedKept ==
  pc \in Serving /\ (policy = "always" \/ ~power_lost) =>
    \A w \in acknowledged : w \in database \/ behind_failed_append(w)

synced(w) == \E i \in 1..durable : log[i] = [write |-> w, part |-> Parts]

(* With everysec, a write that a power failure may still take was             *)
(* acknowledged less than a second before the latest acknowledgement of the   *)
(* same process, also when some fsyncs fail; the times are those at which     *)
(* append, or a successful sync, read the clock.                              *)
LossWindow ==
  policy = "everysec" =>
    \A a, b \in recent : ~synced(a.write) => b.time < a.time + Second
=============================================================================
