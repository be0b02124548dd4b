------------------------------ MODULE Database ------------------------------
(***************************************************************************)
(* The keyspace of src/database.{hpp,cpp}: one map from keys to entries    *)
(* (string, list or stream), lazy expiration, and the key revisions that   *)
(* WATCH and EXEC compare.  Every public member function is an operator    *)
(* that takes the database `db` and the clocks it reads and returns the    *)
(* database it leaves behind together with what it answers.                *)
(*                                                                         *)
(* Keys are numbered; the number stands for the order in which a loop over *)
(* the unordered_map meets them.  A string value is a number that INCR can *)
(* parse or a text it cannot; the fields of a stream entry are left out,   *)
(* so a stream is the sequence of its entry ids.                           *)
(***************************************************************************)
EXTENDS Integers, Sequences, FiniteSets, Functions

CONSTANTS
  Keys,             \* the keys of the map
  Texts,            \* string values and list elements that are not integers
  IntMin, IntMax,   \* the range of std::int64_t
  OverflowResult,   \* the string INCR stores when signed ++ overflows: undefined
                    \* behaviour, so any string the build produces
  IdMax             \* the largest std::uint64_t: bound of both parts of an id

Strings == Texts \cup IntMin..IntMax

ASSUME KeysAssumption == Keys \subseteq Nat /\ IsFiniteSet(Keys)
ASSUME ValuesAssumption ==
  /\ IntMin \in Int /\ IntMax \in Int /\ IntMin <= 0 /\ IntMax >= 1
  /\ Texts \cap Int = {}
  /\ OverflowResult \in Strings
ASSUME IdAssumption == IdMax \in Nat \ {0}

(* Absent optional time points and durations. *)
Never == -1
Times == Nat \cup {Never}

StreamIds == (0..IdMax) \X (0..IdMax)
ZeroId == <<0, 0>>

(* operator<=> of rstream::StreamId. *)
id_less(a, b) == a[1] < b[1] \/ (a[1] = b[1] /\ a[2] < b[2])

(* Database::Entry; Absent stands for a key the map does not hold. *)
Absent == [type |-> "none"]
StringEntry(v, t) == [type |-> "string", text |-> v, expires_at |-> t]
ListEntry(items) == [type |-> "list", items |-> items]
StreamEntry(ids) == [type |-> "stream", ids |-> ids]

Entry == {Absent}
         \cup [type: {"string"}, text: Strings, expires_at: Times]
         \cup [type: {"list"}, items: Seq(Texts)]
         \cup [type: {"stream"}, ids: Seq(StreamIds)]

DatabaseType == [entries: [Keys -> Entry], revisions: [Keys -> Nat], next_revision: Nat \ {0}]

EmptyDatabase == [entries |-> [k \in Keys |-> Absent],
                  revisions |-> [k \in Keys |-> 0],
                  next_revision |-> 1]

-----------------------------------------------------------------------------
(* What a command answers (resp::Response), without its wording. *)
Ok == [kind |-> "ok"]
Nil == [kind |-> "nil"]
Error(code) == [kind |-> "error", code |-> code]
Bulk(v) == [kind |-> "bulk", value |-> v]
Number(n) == [kind |-> "integer", number |-> n]
Id(id) == [kind |-> "id", id |-> id]
TypeName(t) == [kind |-> "type", type |-> t]
KeySet(ks) == [kind |-> "keys", keys |-> ks]
Array(items) == [kind |-> "array", items |-> items]
Popped(k, v) == [kind |-> "popped", key |-> k, value |-> v]   \* BLPOP's pair
Abort == [kind |-> "abort"]   \* no answer: an exception ends the process

response_is_error(reply) == reply.kind = "error"

WrongType == Error("WRONGTYPE")

(* A database operation's effect and answer. *)
Result(db, reply) == [db |-> db, reply |-> reply]

-----------------------------------------------------------------------------
(* An entry is stored under k (or erased, for Absent) and k is marked modified. *)
Put(db, k, entry) ==
  [entries |-> [db.entries EXCEPT ![k] = entry],
   revisions |-> [db.revisions EXCEPT ![k] = db.next_revision],
   next_revision |-> db.next_revision + 1]

is_expired(entry, now) ==
  entry.type = "string" /\ entry.expires_at # Never /\ now >= entry.expires_at

(* Faulty variant: the eviction of an expired key is not marked.              *)
find_active_entry_unmarked(db, now, k) ==
  IF is_expired(db.entries[k], now) THEN [db EXCEPT !.entries[k] = Absent] ELSE db

find_active_entry(db, now, k) ==
  IF is_expired(db.entries[k], now) THEN Put(db, k, Absent) ELSE db

(* find_active_entry for each key of ks in turn, with one reading of the clock. *)
find_active_entries(db, now, ks) ==
  LET dead == {k \in ks : is_expired(db.entries[k], now)}
  IN [entries |-> [k \in Keys |-> IF k \in dead THEN Absent ELSE db.entries[k]],
      revisions |-> [k \in Keys |->
                       IF k \in dead
                       THEN db.next_revision + Cardinality({j \in dead : j < k})
                       ELSE db.revisions[k]],
      next_revision |-> db.next_revision + Cardinality(dead)]

(* Faulty variant: an expired key keeps its revision until it is accessed.    *)
key_revision_stale(db, now, k) == [db |-> db, revision |-> db.revisions[k]]

key_revision(db, now, k) ==
  LET found == find_active_entry(db, now, k)
  IN [db |-> found, revision |-> found.revisions[k]]

-----------------------------------------------------------------------------
(* Strings and keys *)

set(db, now, k, v, ttl) ==
  Result(Put(db, k, StringEntry(v, IF ttl = Never THEN Never ELSE now + ttl)), Ok)

get(db0, now, k) ==
  LET db == find_active_entry(db0, now, k)
      entry == db.entries[k]
  IN Result(db, CASE entry.type = "none"   -> Nil
                  [] entry.type = "string" -> Bulk(entry.text)
                  [] OTHER                 -> WrongType)

get_type(db0, now, k) ==
  LET db == find_active_entry(db0, now, k) IN Result(db, TypeName(db.entries[k].type))

keys(db0, now) ==
  LET db == find_active_entries(db0, now, Keys)
  IN Result(db, KeySet({k \in Keys : db.entries[k] # Absent}))

increment_key(db0, now, k) ==
  LET db == find_active_entry(db0, now, k)
      entry == db.entries[k]
      next == IF entry.text = IntMax THEN OverflowResult ELSE entry.text + 1
  IN CASE entry.type = "none" -> Result(Put(db, k, StringEntry(1, Never)), Number(1))
       [] entry.type \in {"list", "stream"} -> Result(db, WrongType)
       [] entry.type = "string" /\ entry.text \in Texts -> Result(db, Error("ERR"))
       [] OTHER -> Result(Put(db, k, [entry EXCEPT !.text = next]), Number(next))

-----------------------------------------------------------------------------
(* Lists *)

(* From the last value to the first (rbegin to rend). *)
reversed(values) == [i \in 1..Len(values) |-> values[Len(values) - i + 1]]

add_list_elements(db0, now, k, values, mode) ==
  LET db == find_active_entry(db0, now, k)
      entry == db.entries[k]
      old == IF entry.type = "none" THEN <<>> ELSE entry.items
      new == IF mode = "append" THEN old \o values ELSE reversed(values) \o old
  IN IF entry.type \in {"string", "stream"} THEN Result(db, WrongType)
     ELSE Result(Put(db, k, ListEntry(new)), Number(Len(new)))

(* The window of LRANGE: 1-based first and last index, empty when first > last. *)
range_window(size, start, stop) ==
  LET first == IF start < 0 THEN start + size ELSE start
      last == IF stop < 0 THEN stop + size ELSE stop
      from == IF first < 0 THEN 0 ELSE first
      to == IF last >= size THEN size - 1 ELSE last
  IN IF to < 0 \/ from >= size \/ from > to THEN <<1, 0>> ELSE <<from + 1, to + 1>>

list_elements(db0, now, k, start, stop) ==
  LET db == find_active_entry(db0, now, k)
      entry == db.entries[k]
      window == range_window(Len(entry.items), start, stop)
  IN Result(db, CASE entry.type = "none" -> Array(<<>>)
                  [] entry.type = "list" -> Array(SubSeq(entry.items, window[1], window[2]))
                  [] OTHER               -> WrongType)

get_list_length(db0, now, k) ==
  LET db == find_active_entry(db0, now, k)
      entry == db.entries[k]
  IN Result(db, CASE entry.type = "none" -> Number(0)
                  [] entry.type = "list" -> Number(Len(entry.items))
                  [] OTHER               -> WrongType)

(* Faulty variant: an empty list stays in the map.                            *)
drop_elements_keep_empty(db, k, items, count) ==
  Put(db, k, ListEntry(SubSeq(items, count + 1, Len(items))))

(* Erases the key when the last element goes. *)
drop_elements(db, k, items, count) ==
  LET rest == SubSeq(items, count + 1, Len(items))
  IN Put(db, k, IF rest = <<>> THEN Absent ELSE ListEntry(rest))

(* KEY_NOT_FOUND is answered as Nil by every caller that does not block. *)
pop_list_element(db0, now, k) ==
  LET db == find_active_entry(db0, now, k)
      entry == db.entries[k]
  IN CASE entry.type = "none" -> Result(db, Nil)
       [] entry.type \in {"string", "stream"} -> Result(db, WrongType)
       [] entry.type = "list" /\ entry.items = <<>> -> Result(db, Nil)
       [] OTHER -> Result(drop_elements(db, k, entry.items, 1), Bulk(Head(entry.items)))

pop_list_elements(db0, now, k, number_of_items) ==
  LET db == find_active_entry(db0, now, k)
      entry == db.entries[k]
      count == IF number_of_items < Len(entry.items) THEN number_of_items ELSE Len(entry.items)
  IN CASE entry.type = "none" -> Result(db, Nil)
       [] entry.type \in {"string", "stream"} -> Result(db, WrongType)
       [] entry.type = "list" /\ entry.items = <<>> -> Result(db, Nil)
       [] OTHER -> IF number_of_items <= 0 THEN Result(db, Array(<<>>))
                   ELSE Result(drop_elements(db, k, entry.items, count),
                               Array(SubSeq(entry.items, 1, count)))

-----------------------------------------------------------------------------
(* Streams *)

(* Faulty variant: the sequence number leaves its range.                      *)
next_sequence_unbounded(seq) == seq + 1

(* An unsigned sequence number wraps at the end of its range. *)
next_sequence(seq) == IF seq = IdMax THEN 0 ELSE seq + 1

(* The id XADD gives an entry; `wall` is the reading of the system clock. *)
new_stream_id(ids, request, wall) ==
  LET has_entries == ids # <<>>
      last_id == IF has_entries THEN ids[Len(ids)] ELSE ZeroId
  IN CASE request.mode = "explicit" -> <<request.ms, request.seq>>
       [] request.mode = "automatic_sequence" ->
            <<request.ms, IF has_entries /\ request.ms = last_id[1]
                          THEN next_sequence(last_id[2])
                          ELSE IF request.ms = 0 THEN 1 ELSE 0>>
       [] OTHER -> IF has_entries /\ wall <= last_id[1]
                   THEN <<last_id[1], next_sequence(last_id[2])>>
                   ELSE <<wall, 0>>

(* Faulty variant: the id of the last entry is accepted again.                *)
is_stale_id_before(ids, id) == ids # <<>> /\ id_less(id, ids[Len(ids)])

(* An entry must have an id after that of the last entry. *)
is_stale_id(ids, id) == ids # <<>> /\ ~id_less(ids[Len(ids)], id)

add_stream(db0, now, wall, k, request) ==
  LET db == find_active_entry(db0, now, k)
      entry == db.entries[k]
      ids == IF entry.type = "none" THEN <<>> ELSE entry.ids
      id == new_stream_id(ids, request, wall)
  IN IF entry.type \in {"string", "list"} THEN Result(db, WrongType)
     ELSE IF is_stale_id(ids, id) THEN Result(db, Error("ERR"))
     ELSE Result(Put(db, k, StreamEntry(Append(ids, id))), Id(id))

(* std::ranges::lower_bound and upper_bound over entries in id order: the    *)
(* position of the first entry that is not before, or is after, the id.      *)
lower_bound(ids, id) == 1 + Cardinality({i \in DOMAIN ids : id_less(ids[i], id)})
upper_bound(ids, id) == 1 + Cardinality({i \in DOMAIN ids : ~id_less(id, ids[i])})

(* A vector cannot be built from a negative range: std::length_error leaves  *)
(* the worker, which nothing catches, and the process terminates.            *)
stream_range(db0, now, k, start, end) ==
  LET db == find_active_entry(db0, now, k)
      entry == db.entries[k]
      first == lower_bound(entry.ids, start)
      last == upper_bound(entry.ids, end)
  IN Result(db, CASE entry.type # "stream" -> Error("ERR")
                  [] entry.type = "stream" /\ first > last -> Abort
                  [] OTHER -> Array(SubSeq(entry.ids, first, last - 1)))

(* LATEST ("$") becomes the id of the stream's last entry, or 0-0. *)
resolve_latest(db, request) ==
  LET entry == db.entries[request.key]
  IN IF ~request.latest THEN request
     ELSE [request EXCEPT
             !.latest = FALSE,
             !.after = IF entry.type = "stream" /\ entry.ids # <<>>
                       THEN entry.ids[Len(entry.ids)] ELSE ZeroId]

(* Faulty variant: the first entry after the position is skipped.             *)
entries_after_next(db, request) ==
  LET entry == db.entries[request.key]
  IN IF entry.type # "stream" THEN <<>>
     ELSE SubSeq(entry.ids, upper_bound(entry.ids, request.after) + 1, Len(entry.ids))

entries_after(db, request) ==
  LET entry == db.entries[request.key]
  IN IF entry.type # "stream" THEN <<>>
     ELSE SubSeq(entry.ids, upper_bound(entry.ids, request.after), Len(entry.ids))

(* The result also carries the requests with their positions resolved; the   *)
(* answer lists the streams that have something new.  The walk stops at the  *)
(* first key of the wrong type.                                              *)
read_streams(db0, now, requests) ==
  LET wrong == {i \in DOMAIN requests :
                  LET entry == db0.entries[requests[i].key]
                  IN entry.type \in {"string", "list"} /\ ~is_expired(entry, now)}
      seen == {requests[i].key : i \in {j \in DOMAIN requests : \A w \in wrong : j <= w}}
      db == find_active_entries(db0, now, seen)
      resolved == [i \in DOMAIN requests |-> resolve_latest(db, requests[i])]
      found == {i \in DOMAIN resolved : entries_after(db, resolved[i]) # <<>>}
  IN [db |-> db,
      requests |-> resolved,
      reply |-> IF wrong # {} THEN WrongType
                ELSE IF found = {} THEN Nil
                ELSE Array([i \in found |-> entries_after(db, resolved[i])])]

-----------------------------------------------------------------------------
(* The entries the operations above leave behind: no empty list or stream,   *)
(* and the ids of a stream in strictly increasing order.                     *)
increasing(ids) == \A i, j \in DOMAIN ids : i < j => id_less(ids[i], ids[j])

well_formed(entry) ==
  /\ entry.type = "list" => entry.items # <<>>
  /\ entry.type = "stream" => entry.ids # <<>> /\ increasing(entry.ids)

(* Revisions were handed out by _next_revision. *)
RevisionsBelow(d) == \A k \in Keys : d.revisions[k] < d.next_revision

GoodEntry == {e \in Entry : well_formed(e)}

WellFormed(d) == \A k \in Keys : d.entries[k] \in GoodEntry

Good(d) == d \in DatabaseType /\ RevisionsBelow(d) /\ WellFormed(d)
=============================================================================
