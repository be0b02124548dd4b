-------------------------------- MODULE MCRdb -------------------------------
(* Small instances of Rdb for TLC. *)
EXTENDS Rdb

(* Texts that hold the bytes of markers and of the largest time.              *)
Texts == {<<>>, <<255, 0>>, <<252, 250>>}

Values ==
  {[form |-> "short", text |-> t] : t \in Texts}
    \cup {[form |-> f, text |-> <<97, 255>>] : f \in {"medium", "wide", "widest", "lzf"}}
    \cup {[form |-> "int8", number |-> n] : n \in {-128, 12}}
    \cup {[form |-> "int16", number |-> n] : n \in {-2, 255}}
    \cup {[form |-> "int32", number |-> n] : n \in {-65536, 1000000}}

(* The last time that the steady clock can show after three milliseconds of   *)
(* loading, one that it cannot show, and one beyond the clamp.                *)
Far == {101995, 102100, 2000000}

Expiries ==
  {NoExpiry} \cup {[unit |-> "ms", at |-> t] : t \in {1999, 2001} \cup Far}
    \cup {[unit |-> "s", at |-> t] : t \in {1, 2, 3}}

Record(type, key, value, expiry, use) ==
  [type |-> type, key |-> key, value |-> value, expiry |-> expiry, use |-> use]

Short == [form |-> "short", text |-> <<255, 0>>]

(* First records that differ in value and expiration, and second records that *)
(* show what the first one left behind.                                       *)
First ==
  {Record(0, <<1>>, v, e, "none") : v \in Values, e \in {NoExpiry, [unit |-> "s", at |-> 2]}}
    \cup {Record(0, <<1>>, Short, e, u) : e \in Expiries, u \in {"idle", "frequency"}}
    \cup {Record(1, <<1>>, Short, NoExpiry, "none")}
Second == {Record(0, <<255>>, Short, e, "none") : e \in Expiries}

SavedFiles ==
  {[number |-> n, records |-> <<>>] : n \in {0, 1}}
    \cup {[number |-> 0, records |-> <<x, y>>] : x \in First, y \in Second}

(* As many bytes as the longest of these files has.                           *)
AnyCut == 0..80
=============================================================================
