-------------------------------- MODULE Rdb ---------------------------------
(***************************************************************************)
(* Startup from an RDB file: the parser of rdb.cpp and the load task of    *)
(* the processor, which turns times of the system clock into times of the  *)
(* steady clock.                                                           *)
(*                                                                         *)
(* The file is a sequence of bytes that another program wrote for a        *)
(* sequence of records and that may have been cut short.  The processor    *)
(* has no clients yet, so its database is what was loaded.  The checksum   *)
(* after the end marker is not read.                                       *)
(***************************************************************************)
EXTENDS Integers, Sequences, FiniteSetsExt, SequencesExt

CONSTANTS
  Saves,          \* what the file was written for: database number and records
  Cuts,           \* how many bytes of its end may be missing
  Epoch,          \* what the system clock shows when the steady clock shows 0, in ms
  NanosPerMilli,  \* ticks of the steady clock in a millisecond
  RepMax,         \* the largest std::int64_t, which counts milliseconds and ticks
  MaxTime         \* bound: the steady clock, in ms

VARIABLES
  save,        \* what the file was written for
  cut,         \* how many bytes are missing
  pc,          \* "start", "read", "loading", "ready", "refused" or "unreadable"
  entries,     \* the entries still to load
  unix_now,    \* the system clock as process_rdb_load read it
  now,         \* the steady clock, in ms
  database     \* a function from the keys that are loaded

vars == <<save, cut, pc, entries, unix_now, now, database>>

NoExpiry == [unit |-> "none", at |-> 0]
Unlimited == [limited |-> FALSE, tick |-> 0]

-----------------------------------------------------------------------------
(* std::to_string, in ASCII.                                                  *)
to_string(n) ==
  LET decimal[m \in Nat] ==
        (IF m < 10 THEN <<>> ELSE decimal[m \div 10]) \o <<48 + (m % 10)>>
  IN  IF n < 0 THEN <<45>> \o decimal[-n] ELSE decimal[n]

big_endian(bytes) == FoldLeft(LAMBDA n, b : n * 256 + b, 0, bytes)
little_endian(bytes) == FoldRight(LAMBDA b, n : n * 256 + b, bytes, 0)

(* std::bit_cast to the signed type of the same width.                        *)
signed(bytes) ==
  LET top == Last(bytes)
  IN  little_endian(Front(bytes) \o <<0>>)
        + (IF top >= 128 THEN top - 256 ELSE top) * 256 ^ (Len(bytes) - 1)

-----------------------------------------------------------------------------
(* Reader.  A read yields a value and the position after it, or fails.        *)
Failure == [ok |-> FALSE]
Read(value, next) == [ok |-> TRUE, value |-> value, next |-> next]
and_then(read, Continue(_, _)) ==
  IF read.ok THEN Continue(read.value, read.next) ELSE Failure

read_bytes(input, position, count) ==
  IF count > Len(input) - position + 1 THEN Failure
  ELSE Read(SubSeq(input, position, position + count - 1), position + count)

read_byte(input, position) ==
  and_then(read_bytes(input, position, 1), LAMBDA bytes, next : Read(bytes[1], next))

read_number(input, position, count) ==
  and_then(read_bytes(input, position, count),
           LAMBDA bytes, next : Read(little_endian(bytes), next))

Length(value, encoded) == [value |-> value, encoded |-> encoded]

(* The two top bits of the first byte choose the form of a length.            *)
read_length(input, position) ==
  and_then(read_byte(input, position), LAMBDA first, next :
    CASE first \div 64 = 0 -> Read(Length(first % 64, FALSE), next)
      [] first \div 64 = 1 ->
           and_then(read_byte(input, next), LAMBDA second, after :
             Read(Length((first % 64) * 256 + second, FALSE), after))
      [] first \div 64 = 3 -> Read(Length(first % 64, TRUE), next)
      [] first \in {128, 129} ->
           and_then(read_bytes(input, next, IF first = 128 THEN 4 ELSE 8),
                    LAMBDA bytes, after : Read(Length(big_endian(bytes), FALSE), after))
      [] OTHER -> Failure)

read_plain_length(input, position) ==
  and_then(read_length(input, position), LAMBDA length, next :
    IF length.encoded THEN Failure ELSE Read(length.value, next))

(* A string, or an integer of one, two or four bytes that stands for its      *)
(* decimal digits; other encodings are not supported.                         *)
read_string(input, position) ==
  and_then(read_length(input, position), LAMBDA length, next :
    IF ~length.encoded THEN read_bytes(input, next, length.value)
    ELSE IF length.value > 2 THEN Failure
    ELSE and_then(read_bytes(input, next, 2 ^ length.value), LAMBDA bytes, after :
           Read(to_string(signed(bytes)), after)))

-----------------------------------------------------------------------------
(* What parse has gathered: the entries and the pending expiration.           *)
Gathered(found, pending) == [found |-> found, pending |-> pending]

(* Faulty variant: the pending expiration stays for the next entries.         *)
push_entry_keep_pending(gathered, key, value) ==
  Gathered(Append(gathered.found, [key |-> key, value |-> value, expiry |-> gathered.pending]),
           gathered.pending)

(* An entry takes the pending expiration, which is then reset.                *)
push_entry(gathered, key, value) ==
  Gathered(Append(gathered.found, [key |-> key, value |-> value, expiry |-> gathered.pending]),
           NoExpiry)

expires(gathered, at) == Gathered(gathered.found, [unit |-> "ms", at |-> at])

(* What one marker other than the end marker stands for.                      *)
read_item(input, marker, position, gathered) ==
  CASE marker = 250 ->  \* auxiliary field
         and_then(read_string(input, position), LAMBDA key, next :
         and_then(read_string(input, next), LAMBDA value, after : Read(gathered, after)))
    [] marker = 254 ->  \* select database
         and_then(read_plain_length(input, position), LAMBDA number, next :
           IF number = 0 THEN Read(gathered, next) ELSE Failure)
    [] marker = 251 ->  \* resize database
         and_then(read_plain_length(input, position), LAMBDA count, next :
         and_then(read_plain_length(input, next), LAMBDA expiring, after :
           Read(gathered, after)))
    [] marker = 252 ->  \* expiration in milliseconds
         and_then(read_number(input, position, 8), LAMBDA at, next :
           Read(expires(gathered, at), next))
    [] marker = 253 ->  \* expiration in seconds
         and_then(read_number(input, position, 4), LAMBDA at, next :
           Read(expires(gathered, at * 1000), next))
    [] marker = 248 ->  \* idle time
         and_then(read_plain_length(input, position), LAMBDA idle, next : Read(gathered, next))
    [] marker = 249 ->  \* access frequency
         and_then(read_byte(input, position), LAMBDA frequency, next : Read(gathered, next))
    [] marker = 0 ->    \* a string value
         and_then(read_string(input, position), LAMBDA key, next :
         and_then(read_string(input, next), LAMBDA value, after :
           Read(push_entry(gathered, key, value), after)))
    [] OTHER -> Failure

(* Faulty variant: a file without an end marker yields what it holds.         *)
out_of_data_accepted(gathered) == Read(gathered.found, 0)

(* The loop ended without an end marker.                                      *)
out_of_data(gathered) == Failure

RECURSIVE parse_items(_, _, _)
parse_items(input, position, gathered) ==
  IF position > Len(input) THEN out_of_data(gathered)
  ELSE IF input[position] = 255 THEN Read(gathered.found, position + 1)
  ELSE and_then(read_item(input, input[position], position + 1, gathered),
                LAMBDA more, next : parse_items(input, next, more))

REDIS == <<82, 69, 68, 73, 83>>

parse(input) ==
  IF /\ Len(input) >= 10
     /\ SubSeq(input, 1, 5) = REDIS
     /\ \A i \in 6..9 : input[i] \in 48..57
  THEN parse_items(input, 10, Gathered(<<>>, NoExpiry))
  ELSE Failure

-----------------------------------------------------------------------------
(* How Redis writes a file.  A record has a type, a key, a value, an          *)
(* expiration and a note on its last use; a string is written plain, after a  *)
(* length of any width, or as an integer.                                     *)
low_bytes(n, count) == [i \in 1..count |-> (n \div 256 ^ (i - 1)) % 256]

written_string(string) ==
  CASE string.form = "short" -> <<Len(string.text)>> \o string.text
    [] string.form = "medium" -> <<64, Len(string.text)>> \o string.text
    [] string.form = "wide" -> <<128, 0, 0, 0, Len(string.text)>> \o string.text
    [] string.form = "widest" -> <<129, 0, 0, 0, 0, 0, 0, 0, Len(string.text)>> \o string.text
    [] string.form = "int8" -> <<192>> \o low_bytes(string.number, 1)
    [] string.form = "int16" -> <<193>> \o low_bytes(string.number, 2)
    [] string.form = "int32" -> <<194>> \o low_bytes(string.number, 4)
    [] string.form = "lzf" -> <<195, 1, 1, 97>>

text_of(string) ==
  IF string.form \in {"int8", "int16", "int32"} THEN to_string(string.number) ELSE string.text

written_expiry(record) ==
  CASE record.expiry.unit = "none" -> <<>>
    [] record.expiry.unit = "ms" ->
         <<252>> \o low_bytes(record.expiry.at, 4) \o <<0, 0, 0, 0>>
    [] record.expiry.unit = "s" -> <<253>> \o low_bytes(record.expiry.at, 4)

written_use(record) ==
  CASE record.use = "none" -> <<>>
    [] record.use = "idle" -> <<248, 63>>
    [] record.use = "frequency" -> <<249, 255>>

written(contents) ==
  REDIS \o <<48, 48, 49, 49>>
    \o <<250, 1, 97>> \o <<192, 64>>
    \o <<254, contents.number>>
    \o <<251, Len(contents.records), 0>>
    \o FlattenSeq([i \in DOMAIN contents.records |->
         LET record == contents.records[i]
         IN  written_expiry(record) \o written_use(record)
               \o <<record.type, Len(record.key)>> \o record.key
               \o written_string(record.value)])
    \o <<255>>

(* The checksum that follows the end marker.                                  *)
Checksum == <<1, 2, 3, 4, 5, 6, 7, 8>>

contents_of(contents, missing) ==
  LET whole == written(contents) \o Checksum IN SubSeq(whole, 1, Len(whole) - missing)

-----------------------------------------------------------------------------
(* initialize_persistence reads the file; one that cannot be inspected,       *)
(* opened or read, or that does not parse, ends the start; one that does not  *)
(* exist is an empty one.                                                     *)
read_file ==
  /\ pc = "start"
  /\ \/ LET parsed == parse(contents_of(save, cut))
        IN  IF parsed.ok
            THEN pc' = "read" /\ entries' = parsed.value
            ELSE pc' = "refused" /\ UNCHANGED entries
     \/ pc' = "unreadable" /\ UNCHANGED entries
  /\ UNCHANGED <<save, cut, unix_now, now, database>>

read_missing_file ==
  /\ pc = "start"
  /\ save.records = <<>> /\ save.number = 0 /\ cut = 0
  /\ pc' = "read"
  /\ UNCHANGED <<save, cut, entries, unix_now, now, database>>

(* process_rdb_load reads the system clock once,                              *)
begin_load ==
  /\ pc = "read"
  /\ pc' = "loading"
  /\ unix_now' = now + Epoch
  /\ UNCHANGED <<save, cut, entries, now, database>>

(* A sum of ticks in the signed type of the steady clock: its overflow is     *)
(* undefined, and wraps around in the code that compilers emit.               *)
wrapped(ticks) == ((ticks + RepMax + 1) % (2 * (RepMax + 1))) - (RepMax + 1)

remaining(at) == Min({at - unix_now, RepMax})

(* skips what has expired,                                                    *)
skip_entry ==
  /\ pc = "loading" /\ entries # <<>>
  /\ Head(entries).expiry # NoExpiry /\ Head(entries).expiry.at <= unix_now
  /\ entries' = Tail(entries)
  /\ UNCHANGED <<save, cut, pc, unix_now, now, database>>

(* and gives the rest to Database::set, which reads the steady clock.         *)
set_entry ==
  /\ pc = "loading" /\ entries # <<>>
  /\ LET entry == Head(entries)
         expires_at ==
           IF entry.expiry = NoExpiry THEN Unlimited
           ELSE [limited |-> TRUE,
                 tick |-> wrapped((now + remaining(entry.expiry.at)) * NanosPerMilli)]
     IN  /\ entry.expiry = NoExpiry \/ entry.expiry.at > unix_now
         /\ database' = [k \in DOMAIN database \cup {entry.key} |->
                           IF k = entry.key
                           THEN [value |-> entry.value, expires_at |-> expires_at]
                           ELSE database[k]]
  /\ entries' = Tail(entries)
  /\ UNCHANGED <<save, cut, pc, unix_now, now>>

end_load ==
  /\ pc = "loading" /\ entries = <<>>
  /\ pc' = "ready"
  /\ UNCHANGED <<save, cut, entries, unix_now, now, database>>

(* Both clocks advance.                                                       *)
tick ==
  /\ now < MaxTime
  /\ now' = now + 1
  /\ UNCHANGED <<save, cut, pc, entries, unix_now, database>>

Init ==
  /\ save \in Saves
  /\ cut \in Cuts
  /\ cut <= Len(written(save)) + Len(Checksum)
  /\ pc = "start"
  /\ entries = <<>>
  /\ unix_now = 0 /\ now = 0
  /\ database = <<>>

Next ==
  \/ read_file \/ read_missing_file
  \/ begin_load \/ skip_entry \/ set_entry \/ end_load
  \/ tick

Spec == Init /\ [][Next]_vars

-----------------------------------------------------------------------------
(* What the server does not support.                                          *)
unsupported ==
  \/ save.number # 0
  \/ \E i \in DOMAIN save.records :
       save.records[i].type # 0 \/ save.records[i].value.form = "lzf"

(* A start succeeds if and only if the file reaches to its end marker and      *)
(* holds nothing unsupported: a file cut anywhere before is never loaded in    *)
(* part, and bytes of keys, values or times are never taken for markers.       *)
WholeFileOrNone ==
  /\ pc = "refused" => cut > Len(Checksum) \/ unsupported
  /\ pc \in {"read", "loading", "ready"} => cut <= Len(Checksum) /\ ~unsupported

(* When the records were due, in milliseconds of the system clock.             *)
due(record) == IF record.expiry.unit = "s" THEN record.expiry.at * 1000 ELSE record.expiry.at

(* When the server is ready it holds exactly the records that had not expired  *)
(* when the load began, each with its own value, whatever the encoding, and    *)
(* with an expiration if and only if it had one.  If the steady clock can show *)
(* the time in the file, its expiration is never before that time, and later   *)
(* by no more than the load has taken, since the two clocks are read apart.    *)
(* The clamp of process_rdb_load does not reach a time beyond that range: the  *)
(* sum in Database::set overflows and nothing is said of the expiration.       *)
Restored ==
  pc = "ready" =>
    LET live == {i \in DOMAIN save.records :
                   \/ save.records[i].expiry.unit = "none"
                   \/ due(save.records[i]) > unix_now}
        tick_of(unix_time) == (unix_time - Epoch) * NanosPerMilli
        latest(record) == tick_of(due(record) + (now + Epoch - unix_now))
    IN  /\ DOMAIN database = {save.records[i].key : i \in live}
        /\ \A i \in live :
             LET record == save.records[i]
                 entry == database[record.key]
             IN  /\ entry.value = text_of(record.value)
                 /\ entry.expires_at.limited <=> record.expiry.unit # "none"
                 /\ entry.expires_at.limited /\ latest(record) <= RepMax =>
                      entry.expires_at.tick \in tick_of(due(record))..latest(record)
=============================================================================
