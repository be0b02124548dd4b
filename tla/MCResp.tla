------------------------------- MODULE MCResp -------------------------------
(* Small instances of Resp for TLC. *)
EXTENDS Resp

(* Arguments that are empty, that look like framing and that need two digits. *)
Tricky == {<<>>, <<"a">>, <<"cr", "lf">>, <<"$", "1", "cr", "lf">>}
Long == [i \in 1..11 |-> IF i % 4 = 0 THEN "cr" ELSE IF i % 4 = 1 THEN "lf" ELSE "a"]

TrickyCommands ==
  {<<>>, <<Long>>} \cup {<<x>> : x \in Tricky} \cup {<<x, y>> : x \in {<<"a">>, CRLF}, y \in Tricky}

NoTail == [bytes |-> <<>>, malformed |-> FALSE]

(* A command that was not sent to its end, and bytes that each check of the   *)
(* parser refuses.                                                            *)
AllTails ==
  {NoTail}
    \cup {[bytes |-> SubSeq(serialize_command(<<<<"a">>, CRLF>>), 1, n),
           malformed |-> FALSE] : n \in {1, 3, 5, 8, 12, 17}}
    \cup {[bytes |-> b, malformed |-> TRUE] :
            b \in {<<"a">>, <<"*", "a", "cr", "lf">>, <<"*", "cr", "lf">>,
                   <<"*", "9", "9", "9", "cr", "lf">>, <<"*", "1", "cr", "lf", "a">>,
                   <<"*", "1", "cr", "lf", "$", "-", "1", "cr", "lf">>,
                   <<"*", "1", "cr", "lf", "$", "0", "cr", "lf", "a", "cr", "lf">>}}

(* Texts of errors: one of the server alone, and some that repeat bytes of a  *)
(* client, among them line breaks.                                            *)
ErrorTexts == {<<"a">> \o x : x \in Tricky}

Leaves ==
  {[type |-> "SimpleString", value |-> <<"a">>]}
    \cup {[type |-> "SimpleError", value |-> v] : v \in ErrorTexts}
    \cup {[type |-> "BulkString", value |-> v] : v \in Tricky \cup {Long}}
    \cup {[type |-> "Integer", number |-> n] : n \in {-1, 0, 17}}
    \cup {[type |-> t] : t \in {"NullBulkString", "NullArray", "EmptyArray"}}

Arrays == {[type |-> "Array", values |-> <<x, y>>] : x, y \in Tricky}

AllResponses ==
  Leaves \cup Arrays \cup {[type |-> "NoResponse"]}
    \cup {[type |-> "ResponseArray", values |-> <<x, y>>] : x, y \in Leaves}
    \cup {[type |-> "ResponseArray", values |-> <<x>>] : x \in Arrays}

(* Any commands with any tail; and two commands sent together, to which the   *)
(* processor gives any answers.                                               *)
Query == <<<<"q">>>>
MCSessions ==
  {[commands |-> list, tail |-> rest] :
     list \in UNION {[1..n -> TrickyCommands] : n \in 0..2}, rest \in AllTails}
    \cup {[commands |-> <<Query, Query>>, tail |-> NoTail]}
MCResponses(command) ==
  IF command = Query THEN AllResponses ELSE {[type |-> "SimpleString", value |-> <<"a">>]}
=============================================================================
