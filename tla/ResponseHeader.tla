---------------------------- MODULE ResponseHeader ----------------------------
(***************************************************************************)
(* The header of a response, byte by byte: handleAllResponseEvent writes   *)
(* it with memcpy and two unaligned stores, and socket_read_data of the    *)
(* client reads it.  Integers are little-endian, as on the machines the    *)
(* program is built for.                                                   *)
(***************************************************************************)
EXTENDS Integers, Sequences

CONSTANTS
  Lengths,  \* the lengths of serialized responses
  None

VARIABLES
  len,     \* the length of the response in hand, or None
  header,  \* the first MESSAGE_HEADER_LEN bytes of write_buf
  got      \* what the client took the response for, or None

vars == <<len, header, got>>

HeaderLen == 10
BIKE == <<66, 73, 75, 69>>
MobileCodeRsp == 2

\* sizeof(MESSAGE_HEADER_ID): the literal with its terminating zero.
MagicSize == Len(BIKE) + 1

\* n as `width' bytes; the bytes of b put at offset at; a number read there.
Encode(n, width) == [i \in 1 .. width |-> (n \div 256 ^ (i - 1)) % 256]
Put(b, at, bytes) ==
  [i \in DOMAIN b |-> IF i \in at + 1 .. at + Len(bytes) THEN bytes[i - at] ELSE b[i]]
Fetch16(b, at) == b[at + 1] + 256 * b[at + 2]
Fetch32(b, at) == Fetch16(b, at) + 65536 * Fetch16(b, at + 2)

Blank == [i \in 1 .. HeaderLen |-> 0]

Init == len = None /\ header = Blank /\ got = None

\* The stores of handleAllResponseEvent, in their order.
Assemble(n) ==
  /\ len = None
  /\ len' = n
  /\ header' =
       Put(Put(Put(Blank, 0, Append(BIKE, 0)),
               MagicSize, Encode(MobileCodeRsp, 2)),
           6, Encode(n, 4))
  /\ got' = None

\* socket_read_data.
Receive ==
  /\ len # None
  /\ got = None
  /\ got' = IF SubSeq(header, 1, 4) = BIKE
            THEN [code |-> Fetch16(header, 4), len |-> Fetch32(header, 6)]
            ELSE [code |-> 0, len |-> 0]
  /\ UNCHANGED <<len, header>>

Forget == got # None /\ len' = None /\ header' = Blank /\ got' = None

Next == (\E n \in Lengths : Assemble(n)) \/ Receive \/ Forget

Spec == Init /\ [][Next]_vars

-----------------------------------------------------------------------------

\* NetworkInterface.cpp:142-143 gives the format: 4 bytes BIKE, 2 bytes event
\* id, 4 bytes length.  client.cpp:135 takes a response with event id 2 for the
\* answer to a mobile code request; so it has to find that id in this one.
ResponseRecognised == got # None => got = [code |-> MobileCodeRsp, len |-> len]
=============================================================================
