-------------------------------- MODULE Resp --------------------------------
(***************************************************************************)
(* RESP framing.  Commands travel as arrays of length-prefixed strings;    *)
(* recv returns any part of what the peer has sent, and parse_command is   *)
(* called on the buffer that has gathered.  The same parser reads the      *)
(* stream of a master, the acknowledgements of a replica and the           *)
(* append-only file.                                                       *)
(*                                                                         *)
(* A byte is a one-character string; CR and LF are named "cr" and "lf".    *)
(* The peer sends whole commands as serialize_command writes them, then a  *)
(* tail: nothing, part of a command, or bytes that are no command.         *)
(***************************************************************************)
EXTENDS Integers, Sequences, FiniteSetsExt, SequencesExt

CONSTANTS
  Sessions,      \* what a peer may send: commands, which are sequences of byte
                 \* sequences, and a tail with its bytes and whether it is malformed
  Responses(_),  \* the answers the processor may give to a command
  SizeMax        \* the largest std::size_t

VARIABLES
  stream,        \* the bytes the peer has sent that recv has not returned
  input_buffer,  \* input_buffer of handle_connection
  pc,            \* "receive", "parse" or "closed"
  asked,         \* the commands the peer sent
  tail,          \* what it sent after them
  commands,      \* the commands given to submit
  answers,       \* their answers
  output         \* the bytes sent to the peer

vars == <<stream, input_buffer, pc, asked, tail, commands, answers, output>>

CRLF == <<"cr", "lf">>
Digits == <<"0", "1", "2", "3", "4", "5", "6", "7", "8", "9">>
digit(byte) == CHOOSE d \in 0..9 : Digits[d + 1] = byte

-----------------------------------------------------------------------------
(* std::to_string of a length or an integer.                                  *)
to_string(n) ==
  LET decimal[m \in Nat] ==
        (IF m < 10 THEN <<>> ELSE decimal[m \div 10]) \o <<Digits[(m % 10) + 1]>>
  IN  IF n < 0 THEN <<"-">> \o decimal[-n] ELSE decimal[n]

append_bulk_string(value) == <<"$">> \o to_string(Len(value)) \o CRLF \o value \o CRLF

serialize_command(command) ==
  <<"*">> \o to_string(Len(command)) \o CRLF
    \o FlattenSeq([i \in DOMAIN command |-> append_bulk_string(command[i])])

(* Faulty variant: a null string is written as an empty one without contents. *)
append_null_bulk_string_empty == <<"$", "0">> \o CRLF

append_null_bulk_string == <<"$", "-", "1">> \o CRLF

(* serialize_response, one case per alternative of Response.                  *)
RECURSIVE append_value(_)
append_value(response) ==
  CASE response.type = "SimpleString" -> <<"+">> \o response.value \o CRLF
    [] response.type = "SimpleError" -> <<"-">> \o response.value \o CRLF
    [] response.type = "BulkString" -> append_bulk_string(response.value)
    [] response.type = "Integer" -> <<":">> \o to_string(response.number) \o CRLF
    [] response.type = "NullBulkString" -> append_null_bulk_string
    [] response.type = "NullArray" -> <<"*", "-", "1">> \o CRLF
    [] response.type = "EmptyArray" -> <<"*", "0">> \o CRLF
    [] response.type = "NoResponse" -> <<>>
    [] response.type = "Array" -> serialize_command(response.values)
    [] response.type = "ResponseArray" ->
         <<"*">> \o to_string(Len(response.values)) \o CRLF
           \o FlattenSeq([i \in DOMAIN response.values |-> append_value(response.values[i])])

-----------------------------------------------------------------------------
Incomplete == [kind |-> "incomplete"]
ParseError == [kind |-> "error"]

(* read_line: where the line that starts at a position ends, if it does.      *)
line_ends(input, position) ==
  {q \in position..(Len(input) - 1) : input[q] = "cr" /\ input[q + 1] = "lf"}

(* parse_length: from_chars must consume all of a non-empty text, which an    *)
(* unsigned length has no sign in, and the value must fit.                    *)
parse_length(text) ==
  LET value == FoldLeft(LAMBDA n, byte : n * 10 + digit(byte), 0, text)
  IN  IF text # <<>> /\ Range(text) \subseteq Range(Digits) /\ value <= SizeMax
      THEN [kind |-> "length", length |-> value]
      ELSE ParseError

(* A line with a length, and where the text after it starts.                  *)
read_length(input, position) ==
  LET end == Min(line_ends(input, position))
      length == parse_length(SubSeq(input, position, end - 1))
  IN  IF line_ends(input, position) = {} THEN Incomplete
      ELSE IF length = ParseError THEN ParseError
      ELSE [kind |-> "length", length |-> length.length, next |-> end + 2]

(* Faulty variant: contents whose CRLF has not arrived are taken for bad ones. *)
read_contents_hasty(input, position, length) ==
  LET after == position + length
  IN  IF length > Len(input) - position + 1 THEN Incomplete
      ELSE IF Len(input) - after + 1 < 2 \/ SubSeq(input, after, after + 1) # CRLF THEN ParseError
      ELSE [kind |-> "argument", argument |-> SubSeq(input, position, after - 1),
            next |-> after + 2]

(* The contents of a bulk string and the CRLF after it: the length decides    *)
(* where they end, not what they hold.                                        *)
read_contents(input, position, length) ==
  LET after == position + length
  IN  IF length > Len(input) - position + 1 \/ Len(input) - after + 1 < 2 THEN Incomplete
      ELSE IF SubSeq(input, after, after + 1) # CRLF THEN ParseError
      ELSE [kind |-> "argument", argument |-> SubSeq(input, position, after - 1),
            next |-> after + 2]

RECURSIVE parse_arguments(_, _, _, _)
parse_arguments(input, position, left, command) ==
  IF left = 0 THEN [kind |-> "command", command |-> command, bytes_consumed |-> position - 1]
  ELSE IF position > Len(input) THEN Incomplete
  ELSE IF input[position] # "$" THEN ParseError
  ELSE LET length == read_length(input, position + 1)
           contents == read_contents(input, length.next, length.length)
       IN  IF length.kind # "length" THEN length
           ELSE IF contents.kind # "argument" THEN contents
           ELSE parse_arguments(input, contents.next, left - 1,
                                Append(command, contents.argument))

parse_command(input) ==
  IF input = <<>> THEN Incomplete
  ELSE IF Head(input) # "*" THEN ParseError
  ELSE LET length == read_length(input, 2)
       IN  IF length.kind # "length" THEN length
           ELSE parse_arguments(input, length.next, length.length, <<>>)

-----------------------------------------------------------------------------
(* recv returns some of the bytes the peer has sent.                          *)
receive ==
  /\ pc = "receive"
  /\ \E count \in 1..Len(stream) :
       /\ input_buffer' = input_buffer \o SubSeq(stream, 1, count)
       /\ stream' = SubSeq(stream, count + 1, Len(stream))
  /\ pc' = "parse"
  /\ UNCHANGED <<asked, tail, commands, answers, output>>

(* The loop over the buffer: a whole command is submitted, its answer sent    *)
(* and its bytes dropped; an incomplete one waits for more; anything else     *)
(* closes the connection.                                                     *)
submit ==
  /\ pc = "parse"
  /\ LET outcome == parse_command(input_buffer)
     IN  /\ outcome.kind = "command"
         /\ commands' = Append(commands, outcome.command)
         /\ input_buffer' =
              SubSeq(input_buffer, outcome.bytes_consumed + 1, Len(input_buffer))
  /\ \E response \in Responses(Last(commands')) :
       /\ answers' = Append(answers, response)
       /\ output' = output \o append_value(response)
  /\ UNCHANGED <<stream, pc, asked, tail>>

wait_for_more ==
  /\ pc = "parse"
  /\ parse_command(input_buffer) = Incomplete
  /\ pc' = "receive"
  /\ UNCHANGED <<stream, input_buffer, asked, tail, commands, answers, output>>

close ==
  /\ pc = "parse"
  /\ parse_command(input_buffer) = ParseError
  /\ pc' = "closed"
  /\ UNCHANGED <<stream, input_buffer, asked, tail, commands, answers, output>>

sent(list) == FlattenSeq([i \in DOMAIN list |-> serialize_command(list[i])])

Init ==
  /\ \E session \in Sessions : asked = session.commands /\ tail = session.tail
  /\ stream = sent(asked) \o tail.bytes
  /\ input_buffer = <<>> /\ output = <<>>
  /\ commands = <<>> /\ answers = <<>>
  /\ pc = "receive"

Next == receive \/ submit \/ wait_for_more \/ close

Spec == Init /\ [][Next]_vars

-----------------------------------------------------------------------------
(* How many bytes recv has returned, and the commands that lie wholly in them. *)
received == Len(sent(asked)) + Len(tail.bytes) - Len(stream)
arrived ==
  LET whole == {n \in 0..Len(asked) : Len(sent(SubSeq(asked, 1, n))) <= received}
  IN  SubSeq(asked, 1, Max(whole))

(* However the bytes are cut into receives, the processor gets exactly the     *)
(* commands that have arrived whole, unchanged, in order and as soon as they   *)
(* have: the buffer of handle_connection neither loses, repeats nor joins      *)
(* bytes, whatever bytes the arguments hold.  A connection is closed for a     *)
(* parse error if and only if the peer sent bytes that are no command; a cut   *)
(* in an unlucky place is never taken for one.                                 *)
FramedExactly ==
  /\ pc # "parse" => commands = arrived
  /\ pc = "closed" => tail.malformed
  /\ pc = "receive" /\ stream = <<>> => ~tail.malformed

(* What a client of the protocol reads from a position: the reply and where    *)
(* the next one starts.  Arrays are read as the sequences of their elements;   *)
(* bytes that begin no reply are the last that is read.                        *)
RECURSIVE read_reply(_, _)
read_reply(bytes, position) ==
  LET end == Min(line_ends(bytes, position) \cup {Len(bytes)})
      line == SubSeq(bytes, position + 1, end - 1)
      number == parse_length(line).length
      read_next(state) ==
        LET element == read_reply(bytes, state.next)
        IN  [values |-> Append(state.values, element.reply), next |-> element.next]
      elements[n \in Nat] ==
        IF n = 0 THEN [values |-> <<>>, next |-> end + 2] ELSE read_next(elements[n - 1])
  IN  CASE bytes[position] \in {"+", "-", ":"} ->
             [reply |-> <<bytes[position], line>>, next |-> end + 2]
        [] bytes[position] \in {"$", "*"} /\ line = <<"-", "1">> ->
             [reply |-> <<bytes[position], "null">>, next |-> end + 2]
        [] bytes[position] = "$" /\ line # <<"-", "1">> ->
             [reply |-> <<"$", SubSeq(bytes, end + 2, end + 1 + number)>>,
              next |-> end + 4 + number]
        [] bytes[position] = "*" /\ line # <<"-", "1">> ->
             [reply |-> <<"*", elements[number].values>>, next |-> elements[number].next]
        [] OTHER -> [reply |-> <<"protocol error">>, next |-> Len(bytes) + 1]

(* What a response means to the client.                                        *)
RECURSIVE meaning(_)
meaning(response) ==
  CASE response.type = "SimpleString" -> <<"+", response.value>>
    [] response.type = "SimpleError" -> <<"-", response.value>>
    [] response.type = "BulkString" -> <<"$", response.value>>
    [] response.type = "Integer" -> <<":", to_string(response.number)>>
    [] response.type = "NullBulkString" -> <<"$", "null">>
    [] response.type = "NullArray" -> <<"*", "null">>
    [] response.type = "EmptyArray" -> <<"*", <<>>>>
    [] response.type = "Array" ->
         <<"*", [i \in DOMAIN response.values |-> <<"$", response.values[i]>>]>>
    [] response.type = "ResponseArray" ->
         <<"*", [i \in DOMAIN response.values |-> meaning(response.values[i])]>>

RECURSIVE replies(_)
replies(position) ==
  IF position > Len(output) THEN <<>>
  ELSE LET first == read_reply(output, position) IN <<first.reply>> \o replies(first.next)

(* A simple string or an error with a line break inside.  The text of an error *)
(* may repeat bytes of its client: the name of a command that is refused to a  *)
(* subscriber (process_task), or a rule of ACL SETUSER.                        *)
RECURSIVE breaks_its_line(_)
breaks_its_line(response) ==
  \/ /\ response.type \in {"SimpleString", "SimpleError"}
     /\ line_ends(response.value, 1) # {}
  \/ /\ response.type = "ResponseArray"
     /\ \E i \in DOMAIN response.values : breaks_its_line(response.values[i])

(* A client that pipelines commands finds in the bytes it gets one reply per   *)
(* answer, in order and with the meaning the processor gave it, also when the  *)
(* answers are nested arrays of EXEC, if and only if no simple string or error *)
(* among them holds a line break, since append_value escapes nothing: bulk     *)
(* strings may hold any bytes.  An answer that was queued as a Pub/Sub frame   *)
(* leaves nothing here.                                                        *)
RepliesReadable ==
  LET spoken == SelectSeq(answers, LAMBDA r : r.type # "NoResponse")
  IN  replies(1) = [i \in DOMAIN spoken |-> meaning(spoken[i])]
        <=> \A i \in DOMAIN spoken : ~breaks_its_line(spoken[i])
=============================================================================
