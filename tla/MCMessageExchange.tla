-------------------------- MODULE MCMessageExchange --------------------------
(***************************************************************************)
(* A small instance of MessageExchange for TLC.                            *)
(***************************************************************************)
EXTENDS MessageExchange

AllKinds == Requests \cup Responses

\* The default, a value of two groups, and the one of ten bytes whose low 31
\* bits are all zero.
SmallInts == {0, 300, -2147483647 - 1}

SmallUInts == {0, 300}

\* No byte, and one byte more than a length of one byte can say.
SmallStrings == {<<>>, [i \in 1 .. 128 |-> 97]}

SmallDoubles == {[i \in 1 .. 8 |-> i]}

\* A field of each wire type a type of bike.proto has: a varint of two bytes,
\* eight bytes, and bytes behind a length.  The tag of field 16 has two bytes.
SmallExtras ==
  {[number |-> 16, type |-> "int32", value |-> 300],
   [number |-> 16, type |-> "double", value |-> [i \in 1 .. 8 |-> i]],
   [number |-> 16, type |-> "string", value |-> [i \in 1 .. 128 |-> 97]]}

\* Two records where a message has little else, one where it has six fields.
FewRecords ==
  [list_account_records_response |-> 2, list_travel_records_response |-> 1]

\* Nothing, an empty string with its tag, a tag of two bytes and more, and
\* the whole of an added varint.
SmallLost == {0, 2, 3, 4}
=============================================================================
