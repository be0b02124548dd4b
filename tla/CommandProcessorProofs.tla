----------------------- MODULE CommandProcessorProofs -----------------------
(***************************************************************************)
(* CommandProcessor is correct for any keys, clients, commands and bounds. *)
(* First, what every operation of the database preserves: the types, the   *)
(* freshness of revisions, and that entries stay well formed.  Then the    *)
(* theorems: each property follows from the inductive invariant of         *)
(* ProcessorInvariantProofs, from what ProcessorProofs shows of a step     *)
(* and, where it needs one, from an invariant of its own.                  *)
(***************************************************************************)
EXTENDS ProcessorProofs, FiniteSetTheorems

-----------------------------------------------------------------------------
(* The database *)

(* Nothing happened. *)
LEMMA StepRefl == \A d : Good(d) => Step(d, d)
  BY DEF Step, Good, Evolves, DatabaseType

(* Two steps make one. *)
LEMMA StepTrans ==
  ASSUME NEW d, NEW e, NEW f, Good(d), Step(d, e), Step(e, f)
  PROVE  Step(d, f)
  BY DEF Step, Good, Evolves, DatabaseType

(* Storing or erasing an entry and marking its key modified. *)
LEMMA PutStep ==
  ASSUME NEW d, NEW k \in Keys, NEW entry \in GoodEntry, Good(d)
  PROVE  Step(d, Put(d, k, entry))
<1> DEFINE e == Put(d, k, entry)
<1>1. /\ e.next_revision = d.next_revision + 1
      /\ \A j \in Keys : e.entries[j] = IF j = k THEN entry ELSE d.entries[j]
      /\ \A j \in Keys : e.revisions[j] = IF j = k THEN d.next_revision ELSE d.revisions[j]
  BY ZenonT(20) DEF Put, Good, DatabaseType
<1>2. e \in DatabaseType
  BY DEF Put, Good, DatabaseType, GoodEntry, well_formed
<1>3. Evolves(d, e)
  BY <1>1 DEF Evolves, Good, DatabaseType
<1>4. RevisionsBelow(e) /\ WellFormed(e)
  BY <1>1 DEF RevisionsBelow, WellFormed, Good, DatabaseType
<1> QED
  BY <1>2, <1>3, <1>4 DEF Step, Good

(* A key that is not in the map is well formed. *)
LEMMA AbsentGood == Absent \in GoodEntry
  BY DEF Absent, GoodEntry, well_formed, Entry

(* The kinds of entry, and what a stream holds. *)
LEMMA EntryKinds ==
  ASSUME NEW e \in GoodEntry
  PROVE  /\ e.type \in {"none", "string", "list", "stream"}
         /\ e.type = "stream" => e.ids \in Seq(StreamIds) /\ increasing(e.ids)
  BY DEF GoodEntry, well_formed, Entry, Absent

(* Lazy expiration of one key. *)
LEMMA FindStep ==
  ASSUME NEW d, NEW time, NEW k \in Keys, Good(d)
  PROVE  Step(d, find_active_entry(d, time, k))
  BY StepRefl, PutStep, AbsentGood DEF find_active_entry

(* Lazy expiration of several keys: each gets a revision of its own. *)
LEMMA FindAllStep ==
  ASSUME NEW d, NEW time, NEW ks \in SUBSET Keys, Good(d)
  PROVE  Step(d, find_active_entries(d, time, ks))
<1> DEFINE dead == {k \in ks : is_expired(d.entries[k], time)}
           below(k) == {j \in dead : j < k}
           e == find_active_entries(d, time, ks)
<1>1. IsFiniteSet(dead) /\ Cardinality(dead) \in Nat
  BY FS_Subset, FS_CardinalityType, KeysAssumption, Zenon
<1>2. \A k \in dead : /\ Cardinality(below(k)) \in Nat
                      /\ Cardinality(below(k)) < Cardinality(dead)
  <2> SUFFICES ASSUME NEW k \in dead
               PROVE  /\ Cardinality(below(k)) \in Nat
                      /\ Cardinality(below(k)) < Cardinality(dead)
    BY Zenon
  <2>1. k \notin below(k) /\ below(k) \in SUBSET dead
    BY KeysAssumption
  <2>2. /\ IsFiniteSet(below(k))
        /\ Cardinality(below(k)) <= Cardinality(dead)
        /\ Cardinality(below(k)) # Cardinality(dead)
    BY <2>1, <1>1, FS_Subset, ZenonT(20)
  <2>3. Cardinality(below(k)) \in Nat
    BY <2>2, FS_CardinalityType, ZenonT(20)
  <2> QED BY <2>2, <2>3, <1>1
<1> HIDE DEF below
<1>3. /\ e.next_revision = d.next_revision + Cardinality(dead)
      /\ \A k \in Keys : e.entries[k] = IF k \in dead THEN Absent ELSE d.entries[k]
      /\ \A k \in Keys : e.revisions[k] = IF k \in dead
                                          THEN d.next_revision + Cardinality(below(k))
                                          ELSE d.revisions[k]
  BY ZenonT(20) DEF find_active_entries, below
<1>4. e.entries \in [Keys -> Entry]
  BY AbsentGood, ZenonT(20) DEF find_active_entries, Good, DatabaseType, GoodEntry, well_formed
<1>5. e.revisions \in [Keys -> Nat]
  <2>1. \A k \in Keys : e.revisions[k] \in Nat
    BY <1>1, <1>2, <1>3 DEF Good, DatabaseType
  <2>2. e.revisions = [k \in Keys |-> e.revisions[k]]
    BY ZenonT(20) DEF find_active_entries
  <2> QED BY <2>1, <2>2
<1>0. e \in DatabaseType
  <2>1. e = [entries |-> e.entries, revisions |-> e.revisions, next_revision |-> e.next_revision]
    BY ZenonT(20) DEF find_active_entries
  <2>2. e.next_revision \in Nat \ {0}
    BY <1>1, <1>3 DEF Good, DatabaseType
  <2> HIDE DEF e
  <2> QED BY <1>4, <1>5, <2>1, <2>2 DEF DatabaseType
<1> HIDE DEF dead, e
<1>6. Evolves(d, e)
  BY <1>1, <1>2, <1>3 DEF Evolves, Good, DatabaseType
<1>7. RevisionsBelow(e) /\ WellFormed(e)
  BY <1>1, <1>2, <1>3, AbsentGood DEF RevisionsBelow, WellFormed, Good, DatabaseType
<1> QED
  BY <1>0, <1>6, <1>7 DEF Step, Good, e

-----------------------------------------------------------------------------
(* SET stores a string. *)
LEMMA SetStep ==
  ASSUME NEW d, NEW time \in Nat, NEW k \in Keys, NEW v \in Strings, NEW ttl \in Times, Good(d)
  PROVE  Step(d, set(d, time, k, v, ttl).db)
<1> DEFINE entry == StringEntry(v, IF ttl = Never THEN Never ELSE time + ttl)
<1>1. (IF ttl = Never THEN Never ELSE time + ttl) \in Times
  BY DEF Times, Never
<1>2. entry \in GoodEntry
  BY <1>1 DEF StringEntry, GoodEntry, well_formed, Entry
<1> HIDE DEF entry
<1>3. Step(d, Put(d, k, entry))
  BY <1>2, PutStep
<1> QED
  BY <1>3 DEF set, Result, entry

(* What find_active_entry returns is an entry of the type declared. *)
LEMMA FoundEntry ==
  ASSUME NEW d, NEW time, NEW k \in Keys, Good(d)
  PROVE  /\ Good(find_active_entry(d, time, k))
         /\ find_active_entry(d, time, k).entries[k] \in GoodEntry
  BY FindStep, ZenonT(20) DEF Step, Good, WellFormed

(* Two-stage operations: evict an expired key, then store an entry under it. *)
LEMMA FindPutStep ==
  ASSUME NEW d, NEW time, NEW k \in Keys, NEW entry \in GoodEntry, Good(d)
  PROVE  Step(d, Put(find_active_entry(d, time, k), k, entry))
<1> DEFINE f == find_active_entry(d, time, k)
<1>1. Step(d, f) /\ Good(f)
  BY FindStep DEF Step
<1> HIDE DEF f
<1>2. Step(f, Put(f, k, entry))
  BY <1>1, PutStep
<1> QED
  BY <1>1, <1>2, StepTrans DEF f

(* INCR stores a string, or nothing. *)
LEMMA IncrementStep ==
  ASSUME NEW d, NEW time, NEW k \in Keys, Good(d)
  PROVE  Step(d, increment_key(d, time, k).db)
<1> DEFINE f == find_active_entry(d, time, k)
           old == f.entries[k]
           next == IF old.text = IntMax THEN OverflowResult ELSE old.text + 1
<1>1. old \in GoodEntry /\ Step(d, f)
  BY FoundEntry, FindStep
<1>2. StringEntry(1, Never) \in GoodEntry
  BY ValuesAssumption DEF StringEntry, GoodEntry, well_formed, Entry, Times, Never, Strings
<1>3. ASSUME old.type = "string", old.text \notin Texts
      PROVE  [old EXCEPT !.text = next] \in GoodEntry
  <2> HIDE DEF f
  <2>1. old \in [type: {"string"}, text: Strings, expires_at: Times]
    BY <1>1, <1>3 DEF GoodEntry, well_formed, Entry, Absent
  <2>2. next \in Strings
    BY <2>1, <1>3, ValuesAssumption DEF Strings
  <2> HIDE DEF next
  <2> QED
    BY <2>1, <2>2, ZenonT(20) DEF GoodEntry, well_formed, Entry
<1>4. \A x \in GoodEntry : Step(d, Put(f, k, x))
  BY FindPutStep
<1>5. old.type \in {"none", "string", "list", "stream"}
  BY <1>1, SMTT(30) DEF GoodEntry, well_formed, Entry, Absent
<1>6. increment_key(d, time, k).db \in
        {f, Put(f, k, StringEntry(1, Never))}
        \cup IF old.type = "string" /\ old.text \notin Texts
             THEN {Put(f, k, [old EXCEPT !.text = next])} ELSE {}
  <2> HIDE DEF f, next
  <2> QED
    BY <1>5, ZenonT(20) DEF increment_key, Result, f, next
<1> HIDE DEF f, next
<1> QED
  BY <1>1, <1>2, <1>3, <1>4, <1>6, ZenonT(20)

(* reversed keeps the length. *)
LEMMA ReverseType ==
  ASSUME NEW S, NEW s \in Seq(S)
  PROVE  reversed(s) \in Seq(S) /\ Len(reversed(s)) = Len(s)
  BY DEF reversed

(* A list entry with at least one element. *)
LEMMA ListEntryGood ==
  ASSUME NEW s \in Seq(Texts), s # <<>>
  PROVE  ListEntry(s) \in GoodEntry
  BY DEF ListEntry, GoodEntry, well_formed, Entry

(* RPUSH and LPUSH store a list that is not empty, or nothing. *)
LEMMA AddStep ==
  ASSUME NEW d, NEW time, NEW k \in Keys, NEW values \in Seq(Texts), values # <<>>,
         NEW mode, Good(d)
  PROVE  Step(d, add_list_elements(d, time, k, values, mode).db)
<1> DEFINE f == find_active_entry(d, time, k)
           entry == f.entries[k]
           old == IF entry.type = "none" THEN <<>> ELSE entry.items
           new == IF mode = "append" THEN old \o values ELSE reversed(values) \o old
<1>1. entry \in GoodEntry /\ Step(d, f)
  BY FoundEntry, FindStep
<1>2. ASSUME entry.type \notin {"string", "stream"}
      PROVE  ListEntry(new) \in GoodEntry
  <2> HIDE DEF f
  <2>1. old \in Seq(Texts)
    BY <1>1, <1>2 DEF GoodEntry, well_formed, Entry, Absent
  <2>2. reversed(values) \in Seq(Texts) /\ Len(reversed(values)) = Len(values)
    BY ReverseType
  <2>3. Len(values) \in Nat /\ Len(values) > 0
    OBVIOUS
  <2> HIDE DEF old
  <2>4. new \in Seq(Texts) /\ Len(new) > 0
    BY <2>1, <2>2, <2>3
  <2> HIDE DEF new
  <2>5. new # <<>>
    BY <2>4
  <2> QED
    BY <2>4, <2>5, ListEntryGood
<1>3. add_list_elements(d, time, k, values, mode).db
        = IF entry.type \in {"string", "stream"} THEN f ELSE Put(f, k, ListEntry(new))
  BY ZenonT(20) DEF add_list_elements, Result
<1>4. ListEntry(new) \in GoodEntry => Step(d, Put(f, k, ListEntry(new)))
  BY FindPutStep, ZenonT(20)
<1> HIDE DEF f, new, entry
<1> QED
  BY <1>1, <1>2, <1>3, <1>4

(* Dropping elements from the front of a list. *)
LEMMA DropStep ==
  ASSUME NEW d, NEW k \in Keys, NEW items \in Seq(Texts), NEW count \in Nat, Good(d)
  PROVE  Step(d, drop_elements(d, k, items, count))
<1> DEFINE rest == SubSeq(items, count + 1, Len(items))
           entry == IF rest = <<>> THEN Absent ELSE ListEntry(rest)
<1>1. rest \in Seq(Texts)
  OBVIOUS
<1>2. entry \in GoodEntry
  BY <1>1, ListEntryGood, AbsentGood, Zenon
<1> HIDE DEF entry
<1>3. Step(d, Put(d, k, entry))
  BY <1>2, PutStep, SMTT(30)
<1> QED
  BY <1>3 DEF drop_elements, entry

(* A pop changes its key only; a pop that finds nothing leaves it absent. *)
LEMMA PopStep ==
  ASSUME NEW d, NEW time, NEW k \in Keys, Good(d)
  PROVE  LET p == pop_list_element(d, time, k)
         IN /\ Step(d, p.db)
            /\ p.reply.kind \in {"nil", "error", "bulk"}
            /\ p.reply.kind = "nil" => p.db.entries[k] = Absent
            /\ \A j \in Keys : d.entries[j] = Absent => p.db.entries[j] = Absent
<1> DEFINE f == find_active_entry(d, time, k)
           entry == f.entries[k]
           dropped == drop_elements(f, k, entry.items, 1)
           p == pop_list_element(d, time, k)
<1>1. entry \in GoodEntry /\ Step(d, f) /\ Good(f)
  BY FoundEntry, FindStep
<1>2. \A j \in Keys : d.entries[j] = Absent => f.entries[j] = Absent
  BY DEF find_active_entry, Put, Good, DatabaseType
<1> HIDE DEF f
<1>3. entry.type \in {"none", "string", "list", "stream"} /\ (entry.type = "none" => entry = Absent)
  BY <1>1 DEF GoodEntry, well_formed, Entry, Absent
<1>4. CASE entry.type = "none"
  <2>1. p.db = f /\ p.reply = Nil
    BY <1>4 DEF pop_list_element, Result, f
  <2> QED
    BY <2>1, <1>1, <1>2, <1>3, <1>4 DEF Nil
<1>5. CASE entry.type \in {"string", "stream"}
  <2>1. p.db = f /\ p.reply = WrongType
    BY <1>5, ZenonT(20) DEF pop_list_element, Result, f
  <2> QED
    BY <2>1, <1>1, <1>2 DEF WrongType, Error
<1>6. CASE entry.type = "list"
  <2>1. entry.items \in Seq(Texts) /\ entry.items # <<>>
    BY <1>1, <1>6 DEF GoodEntry, well_formed, Entry, Absent
  <2>2. p.db = dropped /\ p.reply = Bulk(Head(entry.items))
    BY <2>1, <1>6, ZenonT(20) DEF pop_list_element, Result, f
  <2>3. Step(f, dropped)
    BY <2>1, <1>1, DropStep
  <2>4. Step(d, dropped)
    BY <2>3, <1>1, StepTrans
  <2>5. \A j \in Keys : f.entries[j] = Absent => dropped.entries[j] = Absent
    <3>1. f.entries[k] # Absent
      BY <1>6 DEF Absent
    <3> QED
      BY <3>1, <1>1, ZenonT(20) DEF drop_elements, Put, Good, DatabaseType
  <2> HIDE DEF dropped
  <2> QED
    BY <2>2, <2>4, <2>5, <1>2, SMTT(30) DEF Bulk
<1> HIDE DEF entry, p
<1> QED
  BY <1>3, <1>4, <1>5, <1>6, ZenonT(20) DEF p

(* LPOP with a count. *)
LEMMA PopManyStep ==
  ASSUME NEW d, NEW time, NEW k \in Keys, NEW n \in Nat, Good(d)
  PROVE  Step(d, pop_list_elements(d, time, k, n).db)
<1> DEFINE f == find_active_entry(d, time, k)
           entry == f.entries[k]
           count == IF n < Len(entry.items) THEN n ELSE Len(entry.items)
           dropped == drop_elements(f, k, entry.items, count)
           p == pop_list_elements(d, time, k, n)
<1>1. entry \in GoodEntry /\ Step(d, f) /\ Good(f)
  BY FoundEntry, FindStep
<1> HIDE DEF f
<1>2. entry.type \in {"none", "string", "list", "stream"}
  BY <1>1 DEF GoodEntry, Entry, Absent
<1>3. CASE entry.type # "list"
  <2>1. p.db = f
    BY <1>2, <1>3, ZenonT(20) DEF pop_list_elements, Result, f
  <2> QED
    BY <2>1, <1>1, SMTT(30)
<1>4. CASE entry.type = "list"
  <2>1. entry.items \in Seq(Texts) /\ entry.items # <<>>
    BY <1>1, <1>4 DEF GoodEntry, well_formed, Entry, Absent
  <2>2. p.db \in {f, dropped}
    BY <2>1, <1>4, ZenonT(20) DEF pop_list_elements, Result, f
  <2>3. count \in Nat
    BY <2>1
  <2> HIDE DEF count
  <2>4. Step(f, dropped)
    BY <2>1, <2>3, <1>1, DropStep
  <2>5. Step(d, dropped)
    BY <2>4, <1>1, StepTrans
  <2> HIDE DEF dropped, p
  <2> QED
    BY <2>2, <2>5, <1>1 DEF p
<1> QED
  BY <1>3, <1>4

(* Reads only evict what has expired. *)
LEMMA LookupStep ==
  ASSUME NEW d, NEW time, NEW k \in Keys, Good(d)
  PROVE  /\ Step(d, get(d, time, k).db)
         /\ Step(d, get_type(d, time, k).db)
         /\ Step(d, keys(d, time).db)
         /\ Step(d, get_list_length(d, time, k).db)
         /\ \A i, j : Step(d, list_elements(d, time, k, i, j).db)
         /\ \A i, j : Step(d, stream_range(d, time, k, i, j).db)
  BY FindStep, FindAllStep
     DEF get, get_type, keys, get_list_length, list_elements, stream_range, Result

(* The order of stream ids. *)
LEMMA IdOrder ==
  \A a, b, c \in StreamIds : id_less(a, b) /\ id_less(b, c) => id_less(a, c)
  BY IdAssumption DEF StreamIds, id_less

(* An id after the last one keeps a stream in order. *)
LEMMA AppendId ==
  ASSUME NEW ids \in Seq(StreamIds), NEW id \in StreamIds, increasing(ids),
         ids # <<>> => id_less(ids[Len(ids)], id)
  PROVE  StreamEntry(Append(ids, id)) \in GoodEntry
<1> DEFINE new == Append(ids, id)
<1>1. new \in Seq(StreamIds) /\ new # <<>> /\ Len(new) = Len(ids) + 1
  OBVIOUS
<1>2. \A i \in 1..Len(ids) : new[i] = ids[i]
  OBVIOUS
<1>3. new[Len(ids) + 1] = id
  OBVIOUS
<1>4. ASSUME NEW i \in 1..Len(ids) PROVE id_less(ids[i], id)
  <2>1. ids # <<>> /\ ids[i] \in StreamIds /\ ids[Len(ids)] \in StreamIds
    OBVIOUS
  <2>2. id_less(ids[Len(ids)], id)
    BY <2>1
  <2>3. i = Len(ids) \/ id_less(ids[i], ids[Len(ids)])
    BY DEF increasing
  <2> QED
    BY <2>1, <2>2, <2>3, IdOrder
<1> HIDE DEF new
<1>5. increasing(new)
  <2> SUFFICES ASSUME NEW i \in 1..Len(ids) + 1, NEW j \in 1..Len(ids) + 1, i < j
               PROVE  id_less(new[i], new[j])
    BY <1>1 DEF increasing
  <2>1. CASE j = Len(ids) + 1
    BY <2>1, <1>2, <1>3, <1>4
  <2>2. CASE j <= Len(ids)
    BY <2>2, <1>2 DEF increasing
  <2> QED
    BY <2>1, <2>2
<1> QED
  BY <1>1, <1>5, Zenon DEF StreamEntry, GoodEntry, well_formed, Entry, new

(* The id XADD computes is in range, whatever the last id and the clock say. *)
LEMMA NewIdType ==
  ASSUME NEW ids \in Seq(StreamIds), NEW request \in IdRequest, NEW wall \in 0..IdMax
  PROVE  new_stream_id(ids, request, wall) \in StreamIds
<1> DEFINE last == IF ids # <<>> THEN ids[Len(ids)] ELSE ZeroId
<1>1. last \in StreamIds
  BY IdAssumption DEF StreamIds, ZeroId
<1>2. \A n \in 0..IdMax : next_sequence(n) \in 0..IdMax
  BY IdAssumption DEF next_sequence
<1>3. last[1] \in 0..IdMax /\ next_sequence(last[2]) \in 0..IdMax
  BY <1>1, <1>2, Zenon DEF StreamIds
<1> HIDE DEF last
<1>4. CASE request.mode = "explicit"
  <2>1. request.ms \in 0..IdMax /\ request.seq \in 0..IdMax
    BY <1>4 DEF IdRequest
  <2> QED
    BY <2>1, <1>4 DEF new_stream_id, StreamIds
<1>5. CASE request.mode = "automatic_sequence"
  <2>1. request.ms \in 0..IdMax /\ 0 \in 0..IdMax /\ 1 \in 0..IdMax
    BY <1>5, IdAssumption DEF IdRequest
  <2> QED
    BY <2>1, <1>3, <1>5, ZenonT(20) DEF new_stream_id, StreamIds, last
<1>6. CASE request.mode = "automatic"
  <2>1. 0 \in 0..IdMax
    BY IdAssumption
  <2> QED
    BY <2>1, <1>3, <1>6, ZenonT(20) DEF new_stream_id, StreamIds, last
<1> QED
  BY <1>4, <1>5, <1>6 DEF IdRequest

(* XADD appends an id after the last one, or stores nothing. *)
LEMMA AddStreamStep ==
  ASSUME NEW d, NEW time, NEW k \in Keys, NEW request \in IdRequest, NEW wall \in 0..IdMax,
         Good(d)
  PROVE  LET r == add_stream(d, time, wall, k, request)
         IN /\ Step(d, r.db)
            /\ r.reply.kind \in {"error", "id"}
            /\ r.reply.kind = "id" => r.reply.id \in StreamIds
<1> DEFINE f == find_active_entry(d, time, k)
           entry == f.entries[k]
           ids == IF entry.type = "none" THEN <<>> ELSE entry.ids
           id == new_stream_id(ids, request, wall)
           r == add_stream(d, time, wall, k, request)
<1>1. entry \in GoodEntry /\ Step(d, f)
  BY FoundEntry, FindStep
<1>2. CASE entry.type \in {"string", "list"}
  <2>1. r.db = f /\ r.reply = WrongType
    BY <1>2, ZenonT(20) DEF add_stream, is_stale_id, Result
  <2>2. WrongType.kind = "error"
    BY Zenon DEF WrongType, Error
  <2> QED
    BY <2>1, <2>2, <1>1
<1>3. CASE entry.type \notin {"string", "list"}
  <2>1. ids \in Seq(StreamIds) /\ increasing(ids)
    <3> HIDE DEF f, entry
    <3>1. CASE entry.type = "none"
      BY <3>1 DEF increasing
    <3>2. CASE entry.type = "stream"
      BY <3>2, <1>1, EntryKinds, Zenon
    <3> QED
      BY <3>1, <3>2, <1>1, <1>3, EntryKinds, Zenon
  <2> HIDE DEF ids
  <2>2. id \in StreamIds
    BY <2>1, NewIdType
  <2> HIDE DEF id
  <2>3. CASE ids # <<>> /\ ~id_less(ids[Len(ids)], id)
    <3>1. r.db = f /\ r.reply = Error("ERR")
      BY <2>3, <1>3, ZenonT(20) DEF add_stream, is_stale_id, Result, ids, id
    <3> QED
      BY <3>1, <1>1, SMTT(30) DEF Error
  <2>4. CASE ~(ids # <<>> /\ ~id_less(ids[Len(ids)], id))
    <3>1. r.db = Put(f, k, StreamEntry(Append(ids, id))) /\ r.reply = Id(id)
      BY <2>4, <1>3, Zenon DEF add_stream, is_stale_id, Result, ids, id
    <3>2. StreamEntry(Append(ids, id)) \in GoodEntry
      BY <2>1, <2>2, <2>4, AppendId
    <3>3. Step(d, Put(f, k, StreamEntry(Append(ids, id))))
      BY <3>2, FindPutStep
    <3> QED
      BY <3>1, <3>3, <2>2 DEF Id
  <2> QED
    BY <2>3, <2>4, ZenonT(20)
<1> QED
  BY <1>2, <1>3, ZenonT(20)

(* Reading streams only evicts, resolves the positions asked for and keeps   *)
(* absent keys absent.                                                       *)
LEMMA ReadStep ==
  ASSUME NEW d, NEW time, NEW requests \in Seq(ReadRequest), Good(d)
  PROVE  LET r == read_streams(d, time, requests)
         IN /\ Step(d, r.db)
            /\ r.requests \in Seq(ReadRequest)
            /\ \A j \in Keys : d.entries[j] = Absent => r.db.entries[j] = Absent
<1> DEFINE wrong == {i \in DOMAIN requests :
                       LET entry == d.entries[requests[i].key]
                       IN entry.type \in {"string", "list"} /\ ~is_expired(entry, time)}
           seen == {requests[i].key : i \in {j \in DOMAIN requests : \A w \in wrong : j <= w}}
           f == find_active_entries(d, time, seen)
           r == read_streams(d, time, requests)
<1>1. \A i \in DOMAIN requests : requests[i] \in ReadRequest /\ requests[i].key \in Keys
  <2>1. \A i \in DOMAIN requests : requests[i] \in ReadRequest
    OBVIOUS
  <2>2. \A x \in ReadRequest : x.key \in Keys
    BY DEF ReadRequest
  <2> QED
    BY <2>1, <2>2
<1>2. seen \in SUBSET Keys
  BY <1>1, ZenonT(20)
<1>3. /\ r.db = f
      /\ r.requests = [i \in DOMAIN requests |-> resolve_latest(f, requests[i])]
  BY Zenon DEF read_streams
<1> HIDE DEF wrong, seen
<1>4. Step(d, f) /\ Good(f)
  BY <1>2, FindAllStep DEF Step
<1>5. \A j \in Keys : d.entries[j] = Absent => f.entries[j] = Absent
  BY ZenonT(20) DEF find_active_entries
<1> HIDE DEF f, r
<1>6. ASSUME NEW request \in ReadRequest PROVE resolve_latest(f, request) \in ReadRequest
  <2>1. f.entries[request.key] \in GoodEntry
    BY <1>4 DEF Good, WellFormed, ReadRequest
  <2> DEFINE entry == f.entries[request.key]
             after == IF entry.type = "stream" /\ entry.ids # <<>>
                      THEN entry.ids[Len(entry.ids)] ELSE ZeroId
  <2>2. ASSUME entry.type = "stream" PROVE entry.ids \in Seq(StreamIds)
    BY <2>1, <2>2 DEF GoodEntry, Entry, Absent
  <2> HIDE DEF entry
  <2>3. after \in StreamIds
    BY <2>2, IdAssumption DEF StreamIds, ZeroId
  <2> HIDE DEF after
  <2>4. [request EXCEPT !.latest = FALSE, !.after = after] \in ReadRequest
    BY <2>3, Zenon DEF ReadRequest
  <2> QED
    BY <2>4, ZenonT(20) DEF resolve_latest, after, entry
<1>7. r.requests \in Seq(ReadRequest)
  BY <1>1, <1>3, <1>6
<1> QED
  BY <1>3, <1>4, <1>5, <1>7 DEF r

-----------------------------------------------------------------------------
(* Whatever the command and the clocks, dispatch preserves the invariants of *)
(* the database and gives a fresh revision to every key it changes.          *)
LEMMA DispatchStep ==
  ASSUME NEW d, NEW time \in Nat, NEW wall \in 0..IdMax, NEW cmd \in DataCommand, Good(d)
  PROVE  Step(d, dispatch(d, time, wall, cmd).db)
<1> DEFINE e == dispatch(d, time, wall, cmd).db
<1>1. CASE cmd \in SetCommand
  <2>1. cmd.op = "SET" /\ cmd.key \in Keys /\ cmd.value \in Strings /\ cmd.ttl \in Times
    BY <1>1 DEF SetCommand, Times, Never
  <2>2. e = set(d, time, cmd.key, cmd.value, cmd.ttl).db
    BY <2>1, SMTT(30) DEF dispatch
  <2> QED
    BY <2>1, <2>2, SetStep
<1>2. CASE cmd \in KeyCommand
  <2>1. cmd.op \in {"GET", "TYPE", "INCR", "LLEN"} /\ cmd.key \in Keys
    BY <1>2, SMTT(30) DEF KeyCommand
  <2>2. e \in {get(d, time, cmd.key).db, get_type(d, time, cmd.key).db,
               increment_key(d, time, cmd.key).db, get_list_length(d, time, cmd.key).db}
    BY <2>1, ZenonT(20) DEF dispatch
  <2> HIDE DEF e
  <2> QED
    BY <2>1, <2>2, LookupStep, IncrementStep, ZenonT(20) DEF e
<1>3. CASE cmd \in PushCommand
  <2>1. /\ cmd.op \in {"RPUSH", "LPUSH"} /\ cmd.key \in Keys
        /\ cmd.values \in Seq(Texts) /\ cmd.values # <<>>
    BY <1>3 DEF PushCommand
  <2>2. \E mode : e = add_list_elements(d, time, cmd.key, cmd.values, mode).db
    BY <2>1, ZenonT(20) DEF dispatch
  <2> HIDE DEF e
  <2> QED
    BY <2>1, <2>2, AddStep, Zenon DEF e
<1>4. CASE cmd \in RangeCommand
  <2>1. cmd.op = "LRANGE" /\ cmd.key \in Keys
    BY <1>4 DEF RangeCommand
  <2>2. e = list_elements(d, time, cmd.key, cmd.start, cmd.stop).db
    BY <2>1 DEF dispatch
  <2> QED
    BY <2>1, <2>2, LookupStep, Zenon
<1>5. CASE cmd \in PopCommand
  <2>1. cmd.op = "LPOP" /\ cmd.key \in Keys /\ cmd.count \in Nat
    BY <1>5 DEF PopCommand
  <2>2. e \in {pop_list_element(d, time, cmd.key).db,
               pop_list_elements(d, time, cmd.key, cmd.count).db}
    BY <2>1 DEF dispatch, lpop
  <2> HIDE DEF e
  <2> QED
    BY <2>1, <2>2, PopStep, PopManyStep, ZenonT(20) DEF e
<1>6. CASE cmd \in BlockingPopCommand
  <2>1. cmd.op = "BLPOP" /\ cmd.key \in Keys
    BY <1>6 DEF BlockingPopCommand
  <2>2. e = pop_list_element(d, time, cmd.key).db
    BY <2>1 DEF dispatch, blpop, Result
  <2> QED
    BY <2>1, <2>2, PopStep, ZenonT(20)
<1>7. CASE cmd \in AddCommand
  <2>1. cmd.op = "XADD" /\ cmd.key \in Keys /\ cmd.id \in IdRequest
    BY <1>7 DEF AddCommand
  <2>2. e \in {d, add_stream(d, time, wall, cmd.key, cmd.id).db}
    BY <2>1 DEF dispatch, xadd, Result
  <2> HIDE DEF e
  <2> QED
    BY <2>1, <2>2, AddStreamStep, StepRefl, ZenonT(20) DEF e
<1>8. CASE cmd \in StreamRangeCommand
  <2>1. cmd.op = "XRANGE" /\ cmd.key \in Keys
    BY <1>8 DEF StreamRangeCommand
  <2>2. e = stream_range(d, time, cmd.key, cmd.start, cmd.stop).db
    BY <2>1 DEF dispatch
  <2> QED
    BY <2>1, <2>2, LookupStep, Zenon
<1>9. CASE cmd \in ReadCommand
  <2>1. cmd.op = "XREAD" /\ cmd.requests \in Seq(ReadRequest)
    BY <1>9 DEF ReadCommand
  <2>2. e = read_streams(d, time, cmd.requests).db
    BY <2>1 DEF dispatch, xread, Result
  <2> QED
    BY <2>1, <2>2, ReadStep, ZenonT(20)
<1>10. CASE cmd \in PlainCommand
  <2>1. cmd.op \in {"PING", "KEYS", "MALFORMED"}
    BY <1>10 DEF PlainCommand
  <2>2. e \in {d, keys(d, time).db}
    BY <2>1, ZenonT(20) DEF dispatch, Result
  <2>3. Step(d, keys(d, time).db)
    BY FindAllStep DEF keys, Result
  <2> HIDE DEF e
  <2> QED
    BY <2>2, <2>3, StepRefl, ZenonT(20) DEF e
<1> HIDE DEF e
<1> QED
  BY <1>1, <1>2, <1>3, <1>4, <1>5, <1>6, <1>7, <1>8, <1>9, <1>10, ZenonT(20) DEF DataCommand, e

(* What is logged for a command is again a command, in its normalized form. *)
LEMMA LoggedType ==
  ASSUME NEW d, NEW time, NEW wall \in 0..IdMax, NEW cmd \in DataCommand, Good(d)
  PROVE  logged(cmd, dispatch(d, time, wall, cmd).reply) \in Seq(DataCommand)
<1> DEFINE reply == dispatch(d, time, wall, cmd).reply
           normal == normalize_replication_command(cmd, reply)
<1>1. CASE ~(is_write_command(cmd) /\ write_modified_database(cmd, reply))
  BY <1>1 DEF logged
<1>2. CASE is_write_command(cmd) /\ write_modified_database(cmd, reply)
  <2>1. CASE cmd \in AddCommand
    <3>1. cmd.op = "XADD" /\ cmd.key \in Keys /\ cmd.id \in IdRequest
      BY <2>1 DEF AddCommand
    <3>2. reply \in {Error("ERR"), add_stream(d, time, wall, cmd.key, cmd.id).reply}
      BY <3>1 DEF dispatch, xadd, Result
    <3>3. reply.kind # "error"
      BY <1>2, ZenonT(20) DEF write_modified_database, response_is_error
    <3> HIDE DEF reply
    <3>4. reply.id \in StreamIds
      BY <3>1, <3>2, <3>3, AddStreamStep, SMTT(30) DEF Error
    <3>5. [mode |-> "explicit", ms |-> reply.id[1], seq |-> reply.id[2]] \in IdRequest
      BY <3>4 DEF StreamIds, IdRequest
    <3>6. normal = [cmd EXCEPT !.id = [mode |-> "explicit", ms |-> reply.id[1],
                                       seq |-> reply.id[2]]]
      BY <3>1 DEF normalize_replication_command
    <3>7. normal \in AddCommand
      BY <2>1, <3>5, <3>6 DEF AddCommand
    <3> HIDE DEF normal
    <3> QED
      BY <3>7, <1>2 DEF logged, DataCommand, normal, reply
  <2>2. CASE cmd \in BlockingPopCommand
    <3>1. cmd.op = "BLPOP" /\ cmd.key \in Keys
      BY <2>2 DEF BlockingPopCommand
    <3>2. normal = [op |-> "LPOP", key |-> cmd.key, count |-> 0]
      BY <3>1 DEF normalize_replication_command
    <3>3. normal \in PopCommand
      BY <3>1, <3>2 DEF PopCommand
    <3> HIDE DEF normal, reply
    <3> QED
      BY <3>3, <1>2 DEF logged, DataCommand, normal, reply
  <2>3. CASE cmd \notin AddCommand \cup BlockingPopCommand
    <3>1. cmd.op \notin {"XADD", "BLPOP"}
      BY <2>3, Zenon DEF DataCommand, SetCommand, KeyCommand, PushCommand, RangeCommand, PopCommand,
                  StreamRangeCommand, ReadCommand, PlainCommand
    <3>2. normal = cmd
      BY <3>1 DEF normalize_replication_command
    <3> HIDE DEF normal, reply
    <3> QED
      BY <3>2, <1>2 DEF logged, normal, reply
  <2> QED
    BY <2>1, <2>2, <2>3
<1> QED
  BY <1>1, <1>2

(* The operations of the database do what the processor relies on. *)
LEMMA Laws == DatabaseLaws
<1>1. \A d : \A time \in Nat, wall \in 0..IdMax, cmd \in DataCommand : Good(d) =>
        LET result == dispatch(d, time, wall, cmd)
        IN  Step(d, result.db) /\ logged(cmd, result.reply) \in Seq(DataCommand)
  BY DispatchStep, LoggedType, Zenon
<1>2. \A d, time : \A k \in Keys : Good(d) =>
        LET popped == pop_list_element(d, time, k)
        IN  /\ Step(d, popped.db)
            /\ popped.reply.kind = "nil" => popped.db.entries[k] = Absent
            /\ \A j \in Keys : d.entries[j] = Absent => popped.db.entries[j] = Absent
  BY PopStep, ZenonT(20)
<1>3. \A d, time : \A requests \in Seq(ReadRequest) : Good(d) =>
        LET read == read_streams(d, time, requests)
        IN  /\ Step(d, read.db) /\ read.requests \in Seq(ReadRequest)
            /\ \A j \in Keys : d.entries[j] = Absent => read.db.entries[j] = Absent
  BY ReadStep, Zenon
<1>4. /\ \A d, time : \A k \in Keys : Good(d) => Step(d, find_active_entry(d, time, k))
      /\ \A d, time : \A ks \in SUBSET Keys : Good(d) => Step(d, find_active_entries(d, time, ks))
  BY FindStep, FindAllStep, Zenon
<1> QED
  BY <1>1, <1>2, <1>3, <1>4, Zenon DEF DatabaseLaws

-----------------------------------------------------------------------------
(* The theorems *)

(* The inductive invariant holds in every reachable state. *)
THEOREM Invariance == Spec => []IInv
  BY InitIInv, NextIInv, Laws, PTL DEF Spec

(* Every variable stays in the range its C++ type gives it, for any commands, *)
(* clients and clock readings.                                                *)
THEOREM TypeCorrect == Spec => []TypeOK
<1>1. IInv => TypeOK
  BY DEF IInv
<1> QED
  BY <1>1, Invariance, PTL

(* A watched key whose revision has not changed holds what it held when it    *)
(* was watched: comparing revisions is enough for EXEC.                       *)
THEOREM WatchIsSound == Spec => []WatchSound
<1>1. IInv => WatchSound
  BY ZenonT(20) DEF IInv, WatchInv, WatchSound
<1> QED
  BY <1>1, Invariance, PTL

(* No BLPOP is left waiting while its key holds something: the retry loop     *)
(* after each task is enough, whatever the task and whoever is served.        *)
THEOREM NoWaiterMissed == Spec => []NoServableWaiter
<1>1. IInv => NoServableWaiter
  BY Zenon DEF IInv, WaitersOffered, NoServableWaiter
<1> QED
  BY <1>1, Invariance, PTL

(* Streams stay in strictly increasing id order and no empty list or stream   *)
(* is kept, whatever the clock and the ids clients give.                      *)
THEOREM WellFormedEntries == Spec => []EntriesWellFormed
<1>1. IInv => EntriesWellFormed
  BY DEF IInv, Good, WellFormed, GoodEntry, EntriesWellFormed
<1> QED
  BY <1>1, Invariance, PTL

-----------------------------------------------------------------------------

(* EXEC starts only on the state the client watched: no write of another      *)
(* client, and no expiry, between WATCH and EXEC goes unnoticed.              *)
THEOREM ExecIsOptimistic == Spec => ExecSeesWatchedState
  BY ExecSeesStep, Invariance, PTL DEF Spec, ExecSeesWatchedState

(* Every command is answered at most once, and a promise is open exactly      *)
(* while its command waits or its transaction executes.                       *)
THEOREM EveryCommandAnsweredOnce == Spec => []AnsweredOnce
<1>1. Init => AnsweredOnce
  BY DEF Init, AnsweredOnce, clients_of, one_each
<1> QED
  BY <1>1, NextOnce, Invariance, PTL DEF Spec

(* No waiter is overtaken by a later one, whether it asks or is retried: a    *)
(* client that finds an element finds no one waiting for the key.             *)
THEOREM WaitersServedInOrder == Spec => ServedInOrder
  BY ServedStep, Invariance, EveryCommandAnsweredOnce, PTL
     DEF Spec, ServedInOrder

(* The claim about the reads holds in every reachable state. *)
LEMMA OfferedInvariance == Spec => []ReadsOffered
(* The search for the first entry after a position fails only if there is none. *)
<1>NoneAfter.
  ASSUME NEW ids \in Seq(StreamIds), NEW id,
         SubSeq(ids, upper_bound(ids, id), Len(ids)) = <<>>
  PROVE  \A j \in DOMAIN ids : ~id_less(id, ids[j])
  <2> USE <1>NoneAfter
  <2> DEFINE before == {j \in DOMAIN ids : ~id_less(id, ids[j])}
  <2>1. DOMAIN ids = 1..Len(ids) /\ Len(ids) \in Nat
    OBVIOUS
  <2>2. IsFiniteSet(1..Len(ids)) /\ Cardinality(1..Len(ids)) = Len(ids)
    <3> DEFINE n == Len(ids)
    <3>1. n \in Int /\ 1 \in Int /\ n >= 0
      BY <2>1
    <3> HIDE DEF n
    <3>2. IsFiniteSet(1..n) /\ Cardinality(1..n) = IF 1 > n THEN 0 ELSE n - 1 + 1
      BY <3>1, FS_Interval, Zenon
    <3> QED
      BY <3>1, <3>2 DEF n
  <2>3. /\ before \in SUBSET (1..Len(ids)) /\ IsFiniteSet(before) /\ Cardinality(before) \in Nat
        /\ Cardinality(before) <= Len(ids)
        /\ Cardinality(before) = Len(ids) => before = 1..Len(ids)
    BY <2>1, <2>2, FS_Subset, FS_CardinalityType, Zenon
  <2>4. upper_bound(ids, id) = 1 + Cardinality(before)
    BY DEF upper_bound
  <2> HIDE DEF before
  <2>5. Cardinality(before) = Len(ids)
    <3> SUFFICES ASSUME Cardinality(before) < Len(ids) PROVE FALSE
      BY <2>1, <2>3
    <3> DEFINE n == 1 + Cardinality(before)
    <3>1. n \in 1..Len(ids)
      BY <2>1, <2>3
    <3> HIDE DEF n
    <3>2. Len(SubSeq(ids, n, Len(ids))) = Len(ids) - n + 1
      BY <2>1, <3>1
    <3>3. SubSeq(ids, n, Len(ids)) = <<>>
      BY <2>4 DEF n
    <3> QED
      BY <2>1, <3>1, <3>2, <3>3
  <2> QED
    BY <2>1, <2>3, <2>5, Zenon DEF before

(* A read that finds nothing leaves positions after which there is nothing. *)
<1>ReadNil.
  ASSUME NEW d, NEW time, NEW requests \in Seq(ReadRequest), Good(d),
         read_streams(d, time, requests).reply.kind = "nil"
  PROVE  LET read == read_streams(d, time, requests)
         IN  \A i \in DOMAIN read.requests : nothing_to_read(read.db, read.requests[i])
  <2> USE <1>ReadNil
  <2> DEFINE wrong == {i \in DOMAIN requests :
                         LET entry == d.entries[requests[i].key]
                         IN entry.type \in {"string", "list"} /\ ~is_expired(entry, time)}
             seen == {requests[i].key : i \in {j \in DOMAIN requests : \A w \in wrong : j <= w}}
             f == find_active_entries(d, time, seen)
             resolved == [i \in DOMAIN requests |-> resolve_latest(f, requests[i])]
             found == {i \in DOMAIN resolved : entries_after(f, resolved[i]) # <<>>}
             items == [i \in found |-> entries_after(f, resolved[i])]
             read == read_streams(d, time, requests)
  <2>1. /\ read.db = f /\ read.requests = resolved
        /\ read.reply = IF wrong # {} THEN WrongType ELSE IF found = {} THEN Nil ELSE Array(items)
    BY Zenon DEF read_streams
  <2>2. Good(f) /\ read.requests \in Seq(ReadRequest)
    <3>1. Step(d, read.db) /\ read.requests \in Seq(ReadRequest)
      BY ReadStep, Zenon
    <3> QED
      BY <2>1, <3>1, Zenon DEF Step
  <2> HIDE DEF items
  <2>3. wrong = {} /\ found = {}
    <3>1. WrongType.kind # "nil" /\ Array(items).kind # "nil"
      BY Zenon DEF WrongType, Error, Array
    <3> HIDE DEF wrong, found
    <3> QED
      BY <2>1, <3>1, Zenon
  <2> SUFFICES ASSUME NEW i \in DOMAIN requests PROVE nothing_to_read(f, resolved[i])
    BY <2>1, Zenon
  <2>4. /\ requests[i] \in ReadRequest /\ resolved[i] \in ReadRequest
        /\ resolved[i] = resolve_latest(f, requests[i])
    <3>1. resolved \in Seq(ReadRequest) /\ DOMAIN resolved = DOMAIN requests
      BY <2>1, <2>2, Zenon
    <3>2. resolved[i] = resolve_latest(f, requests[i])
      BY Zenon
    <3> HIDE DEF resolved, f
    <3> QED
      BY <3>1, <3>2
  <2> DEFINE k == requests[i].key
  <2>5. k \in Keys /\ resolved[i].key = k /\ ~resolved[i].latest
    BY <2>4, Zenon DEF ReadRequest, resolve_latest
  <2>6. k \in seen
    BY <2>3, ZenonT(20)
  <2>7. d.entries[k].type \in {"string", "list"} => is_expired(d.entries[k], time)
    BY <2>3, ZenonT(20)
  <2>8. f.entries[k] = IF is_expired(d.entries[k], time) THEN Absent ELSE d.entries[k]
    BY <2>5, <2>6, Zenon DEF find_active_entries
  <2>9. entries_after(f, resolved[i]) = <<>>
    BY <2>3, Zenon
  <2> HIDE DEF wrong, seen, f, resolved, found, k
  <2>10. f.entries[k] \in GoodEntry
    BY <2>2, <2>5, Zenon DEF Good, WellFormed
  <2>11. f.entries[k].type \in {"none", "stream"}
    <3>1. CASE is_expired(d.entries[k], time)
      <4>1. Absent.type = "none"
        BY Zenon DEF Absent
      <4> QED
        BY <2>8, <3>1, <4>1, Zenon
    <3>2. CASE ~is_expired(d.entries[k], time)
      <4>1. f.entries[k].type \notin {"string", "list"}
        BY <2>7, <2>8, <3>2, Zenon
      <4> QED
        BY <2>10, <4>1, EntryKinds, Zenon
    <3> QED
      BY <3>1, <3>2, Zenon
  <2>12. ASSUME f.entries[k].type = "stream"
         PROVE  \A j \in DOMAIN f.entries[k].ids : ~id_less(resolved[i].after, f.entries[k].ids[j])
    <3>1. f.entries[k].ids \in Seq(StreamIds)
      BY <2>10, <2>12, EntryKinds, Zenon
    <3>2. SubSeq(f.entries[k].ids, upper_bound(f.entries[k].ids, resolved[i].after),
                 Len(f.entries[k].ids)) = <<>>
      BY <2>5, <2>9, <2>12, ZenonT(20) DEF entries_after
    <3> QED
      BY <3>1, <3>2, <1>NoneAfter, Zenon
  <2> QED
    BY <2>5, <2>11, <2>12, ZenonT(20) DEF nothing_to_read

(* The retry loop of XREAD. *)
<1>RetryReadOffered.
  ASSUME IInv, ReadsOffered, retry_pending_stream_read
  PROVE  ReadsOffered'
  <2> USE <1>RetryReadOffered
  <2> DEFINE read == read_streams(db, now, pending_stream_reads[cursor].requests)
  <2>1. /\ pc = "reads" /\ pc' = "reads" /\ checked_at' <= now' /\ db' = read.db
        /\ cursor \in 1..Len(pending_stream_reads)
        /\ pending_stream_reads \in Seq(ReadRequests) /\ Good(db)
    BY IInvTypes DEF retry_pending_stream_read, At, ReadsOffered
  <2>2. pending_stream_reads[cursor].requests \in Seq(ReadRequest)
    BY <2>1, PendingRequests
  <2>3. Evicts(db, db', now)
    BY <2>1, ReadEvicts, Zenon
  <2>4. \A i \in DOMAIN pending_stream_reads : i < cursor =>
          \A j \in DOMAIN pending_stream_reads[i].requests :
            nothing_to_read(db', pending_stream_reads[i].requests[j])
    BY <2>1, <2>3, StaysOffered, ZenonT(20)
  <2>5. CASE /\ read.reply.kind = "nil" /\ cursor' = cursor + 1
             /\ pending_stream_reads' =
                  [pending_stream_reads EXCEPT ![cursor].requests = read.requests]
    <3>1. \A j \in DOMAIN read.requests : nothing_to_read(db', read.requests[j])
      BY <2>1, <2>2, <2>5, <1>ReadNil, ZenonT(20)
    <3> HIDE DEF read
    <3>2. /\ DOMAIN pending_stream_reads' = DOMAIN pending_stream_reads
          /\ \A i \in DOMAIN pending_stream_reads : i # cursor =>
               pending_stream_reads'[i] = pending_stream_reads[i]
          /\ pending_stream_reads'[cursor].requests = read.requests
      <4>1. pending_stream_reads[cursor] \in ReadRequests
        BY <2>1
      <4> QED
        BY <2>1, <2>5, <4>1 DEF ReadRequests
    <3>3. ASSUME NEW i \in DOMAIN pending_stream_reads', i < cursor'
          PROVE  \A j \in DOMAIN pending_stream_reads'[i].requests :
                   nothing_to_read(db', pending_stream_reads'[i].requests[j])
      <4>1. CASE i = cursor
        BY <3>1, <3>2, <4>1, Zenon
      <4>2. CASE i # cursor
        <5>1. i < cursor /\ i \in DOMAIN pending_stream_reads
          BY <2>1, <2>5, <3>2, <3>3, <4>2
        <5> QED
          BY <2>4, <3>2, <4>2, <5>1, Zenon
      <4> QED
        BY <4>1, <4>2
    <3> QED
      BY <2>1, <3>3, Zenon DEF ReadsOffered
  <2>6. CASE cursor' = cursor /\ pending_stream_reads' = erase(pending_stream_reads, cursor)
    <3>1. /\ DOMAIN pending_stream_reads' = 1..Len(pending_stream_reads) - 1
          /\ \A i \in 1..Len(pending_stream_reads) - 1 : i < cursor =>
               /\ i \in DOMAIN pending_stream_reads
               /\ pending_stream_reads'[i] = pending_stream_reads[i]
      <4>1. /\ erase(pending_stream_reads, cursor) \in Seq(ReadRequests)
            /\ Len(erase(pending_stream_reads, cursor)) = Len(pending_stream_reads) - 1
            /\ \A i \in 1..Len(pending_stream_reads) - 1 : i < cursor =>
                 erase(pending_stream_reads, cursor)[i] = pending_stream_reads[i]
        BY <2>1, Removed, Zenon
      <4> QED
        BY <2>1, <2>6, <4>1
    <3>2. ASSUME NEW i \in DOMAIN pending_stream_reads', i < cursor'
          PROVE  \A j \in DOMAIN pending_stream_reads'[i].requests :
                   nothing_to_read(db', pending_stream_reads'[i].requests[j])
      <4>1. /\ i < cursor /\ i \in DOMAIN pending_stream_reads
            /\ pending_stream_reads'[i] = pending_stream_reads[i]
        BY <2>6, <3>1, <3>2, Zenon
      <4> QED
        BY <2>4, <4>1, Zenon
    <3> QED
      BY <2>1, <3>2, Zenon DEF ReadsOffered
  <2> QED
    BY <2>5, <2>6, ZenonT(20) DEF retry_pending_stream_read, Advance

<1>1. Init => ReadsOffered
  BY DEF Init, ReadsOffered
<1>2. IInv /\ ReadsOffered /\ [Next]_vars => ReadsOffered'
  BY NextOffered, <1>RetryReadOffered
<1> QED
  BY <1>1, <1>2, Invariance, PTL DEF Spec

(* No XREAD is left waiting while a stream it asked for has an entry after    *)
(* the position asked for, "$" being the end of the stream when it asked.     *)
THEOREM NoReadMissed == Spec => []NoMissedRead
<1>1. ReadsOffered => NoMissedRead
  BY Zenon DEF ReadsOffered, NoMissedRead
<1> QED
  BY <1>1, OfferedInvariance, PTL

(* A blocked command gives up only when its deadline has passed and there is  *)
(* nothing for it: what was stored before the worker noticed the deadline is  *)
(* served first.                                                              *)
THEOREM GivesUpRightly == Spec => GivesUpOnlyWhenEmpty
  BY GivesUpStep, Invariance, EveryCommandAnsweredOnce, OfferedInvariance, PTL
     DEF Spec, GivesUpOnlyWhenEmpty

(* On a replica only what comes from the master changes the database; clients *)
(* at most find that a key has expired.                                       *)
THEOREM ReplicaIsReadOnly == Spec => ReplicaReadOnly
<1>1. ASSUME Init PROVE OnlyMasterWrites
  <2>1. DOMAIN <<>> = {}
    OBVIOUS
  <2>2. /\ no_writes(<<>>) /\ pending_list_pops = <<>> /\ pc # "exec"
        /\ \A c \in Clients : transactions[c].commands = <<>>
    BY <1>1, <2>1, Zenon DEF Init, NoTransaction, no_writes, Sessions
  <2> QED
    BY <2>1, <2>2, Zenon DEF OnlyMasterWrites
<1> QED
  BY <1>1, ReplicaStep, NextReplica, Invariance, PTL DEF Spec, ReplicaReadOnly
=============================================================================
