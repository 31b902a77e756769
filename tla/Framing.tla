------------------------------- MODULE Framing -------------------------------
(***************************************************************************)
(* How handle_request puts the requests of one connection together from    *)
(* whatever bytes a call finds in the evbuffer.  BikeServer takes a header *)
(* and a body as wholes; here they come byte by byte.                      *)
(*                                                                         *)
(* A byte is <<m, i>>, the i-th of the m-th request; its first HeaderLen   *)
(* bytes are the header.  The length a header announces is what matters of *)
(* its contents.  Ten bytes that are not the header of one request are     *)
(* taken not to begin with "BIKE".                                         *)
(***************************************************************************)
EXTENDS Integers, Sequences

CONSTANTS
  HeaderLen,   \* MESSAGE_HEADER_LEN
  MaxMessage,  \* MAX_MESSAGE_LEN
  Lengths,     \* the lengths a client announces (and sends)
  MaxRequests  \* how many requests a client sends (bounds a behaviour)

ASSUME FramingAssumption ==
  /\ HeaderLen \in Nat \ {0} /\ MaxMessage \in Nat
  /\ Lengths \subseteq Nat
  /\ MaxRequests \in Nat

VARIABLES
  lens,      \* the lengths announced by the requests sent, oldest first
  answered,  \* how many responses were written
  wire,      \* bytes sent and not handed over by the kernel
  buffer,    \* the input evbuffer of the bufferevent
  open,      \* FALSE once bufferevent and session are freed
  stat,      \* session_stat: "request" or "response"
  reading,   \* req_stat: "header" or "message"
  header,    \* the bytes of cs->header; its length is read_header_len
  need,      \* message_len
  body,      \* the bytes of cs->read_buf; its length is read_message_len
  parsed     \* what parseEvent was given, oldest first

session == <<stat, reading, header, need, body>>
vars == <<lens, answered, wire, buffer, open, session, parsed>>

Bytes(m, first, last) == [i \in 1 .. last - first + 1 |-> <<m, first + i - 1>>]
BodyOf(m, len) == Bytes(m, HeaderLen + 1, HeaderLen + len)

Init ==
  /\ lens = <<>> /\ answered = 0
  /\ wire = <<>> /\ buffer = <<>> /\ parsed = <<>>
  /\ open = TRUE
  /\ stat = "request" /\ reading = "header"
  /\ header = <<>> /\ need = 0 /\ body = <<>>

Send(len) ==
  /\ open
  /\ Len(lens) < MaxRequests
  /\ lens' = Append(lens, len)
  /\ wire' = wire \o Bytes(Len(lens) + 1, 1, HeaderLen + len)
  /\ UNCHANGED <<answered, buffer, open, session, parsed>>

\* bufferevent_free and session_free.
Close ==
  /\ open' = FALSE
  /\ wire' = <<>> /\ buffer' = <<>>
  /\ UNCHANGED <<lens, answered, session, parsed>>

\* handle_error, or a body that parseEvent refuses.
HangUp == open /\ Close

(***************************************************************************)
(* handle_request, called when the first n bytes of the wire arrive.       *)
(***************************************************************************)

\* bufferevent_read: at most k of the bytes s are taken, the others stay.
Read(s, k) == SubSeq(s, 1, IF k < Len(s) THEN k ELSE Len(s))
Left(s, k) == SubSeq(s, k + 1, Len(s))

Found(n) == buffer \o Read(wire, n)

\* The header bytes this call asks for, the header with those it finds, and
\* what stays in the evbuffer behind them.
Asked == IF reading = "header" THEN HeaderLen - Len(header) ELSE 0
HeaderWith(n) == header \o Read(Found(n), Asked)
Behind(n) == Left(Found(n), Asked)

\* The header is one that a client wrote, and announces a length in bounds.
IsGood(h) ==
  /\ h = Bytes(h[1][1], 1, HeaderLen)
  /\ lens[h[1][1]] \in 1 .. MaxMessage

\* message_len and read_buf once the header is there.
Announced(n) == IF reading = "header" THEN lens[HeaderWith(n)[1][1]] ELSE need

Kept == IF reading = "header" THEN <<>> ELSE body

\* Mutant of Missing: the length of the message, whatever was read of it.
MissingAll(n) == Announced(n)

Missing(n) == Announced(n) - Len(Kept)

Arrives(n) ==
  /\ open
  /\ n \in 1 .. Len(wire)
  /\ wire' = Left(wire, n)
  /\ UNCHANGED <<lens, answered, open>>

HandleWrongState(n) ==
  /\ Arrives(n)
  /\ stat # "request"
  /\ buffer' = Found(n)
  /\ UNCHANGED <<session, parsed>>

HandlePartOfHeader(n) ==
  /\ Arrives(n)
  /\ stat = "request"
  /\ Len(HeaderWith(n)) < HeaderLen
  /\ header' = HeaderWith(n)
  /\ buffer' = <<>>
  /\ UNCHANGED <<stat, reading, need, body, parsed>>

HandleBadHeader(n) ==
  /\ open
  /\ n \in 1 .. Len(wire)
  /\ stat = "request" /\ reading = "header"
  /\ Len(HeaderWith(n)) = HeaderLen
  /\ ~IsGood(HeaderWith(n))
  /\ Close

\* The header is complete, now or from before.
HasHeader(n) ==
  /\ stat = "request"
  /\ Len(HeaderWith(n)) = HeaderLen
  /\ reading = "header" => IsGood(HeaderWith(n))
  /\ header' = HeaderWith(n)
  /\ need' = Announced(n)
  /\ reading' = "message"

HandlePartOfBody(n) ==
  /\ Arrives(n)
  /\ HasHeader(n)
  /\ Len(Behind(n)) < Missing(n)
  /\ body' = Kept \o Behind(n)
  /\ buffer' = <<>>
  /\ UNCHANGED <<stat, parsed>>

\* Mutant of HandleWhole: all bytes there are, not those of the message.
HandleWholeGreedy(n) ==
  /\ Arrives(n)
  /\ HasHeader(n)
  /\ Len(Behind(n)) >= Missing(n)
  /\ parsed' = Append(parsed, Kept \o Behind(n))
  /\ buffer' = <<>>
  /\ stat' = "response"
  /\ body' = <<>>

\* The last byte of the body: parseEvent, and read_buf is deleted.
HandleWhole(n) ==
  /\ Arrives(n)
  /\ HasHeader(n)
  /\ Len(Behind(n)) >= Missing(n)
  /\ parsed' = Append(parsed, Kept \o Read(Behind(n), Missing(n)))
  /\ buffer' = Left(Behind(n), Missing(n))
  /\ stat' = "response"
  /\ body' = <<>>

HandleRequest ==
  \E n \in 1 .. Len(wire) :
    \/ HandleWrongState(n) \/ HandlePartOfHeader(n) \/ HandleBadHeader(n)
    \/ HandlePartOfBody(n) \/ HandleWhole(n)

\* send_response_message writes the response and resets the session.
Respond ==
  /\ open
  /\ stat = "response"
  /\ answered' = answered + 1
  /\ stat' = "request" /\ reading' = "header"
  /\ header' = <<>> /\ need' = 0 /\ body' = <<>>
  /\ UNCHANGED <<lens, wire, buffer, open, parsed>>

Next == (\E len \in Lengths : Send(len)) \/ HangUp \/ HandleRequest \/ Respond

Spec == Init /\ [][Next]_vars

\* The loop of main comes back to every socket with bytes, and the pool and
\* handleAllResponseEvent answer.
FairSpec == Spec /\ WF_vars(HandleRequest) /\ WF_vars(Respond)

-----------------------------------------------------------------------------

AllBytes == (1 .. MaxRequests) \X Nat

\* The arrays header and read_buf hold what is read into them.
TypeOK ==
  /\ lens \in Seq(Lengths)
  /\ answered \in 0 .. Len(parsed)
  /\ wire \in Seq(AllBytes) /\ buffer \in Seq(AllBytes)
  /\ open \in BOOLEAN
  /\ stat \in {"request", "response"} /\ reading \in {"header", "message"}
  /\ header \in Seq(AllBytes) /\ Len(header) <= HeaderLen
  /\ need \in 0 .. MaxMessage
  /\ body \in Seq(AllBytes) /\ Len(body) <= need
  /\ parsed \in Seq(Seq(AllBytes))

MS == INSTANCE MessageStream WITH busy <- stat = "response"

(***************************************************************************)
(* However the stream is cut into calls of handle_request, and however     *)
(* many requests a client sends ahead, parseEvent is given the bodies that *)
(* the client sent, whole, in order and one at a time, and nothing but a   *)
(* bad length or a hang-up ends the connection                             *)
(* (NetworkInterface.cpp:152-236, 284-301).                                *)
(***************************************************************************)
ImplementsMessageStream == MS!Spec

(***************************************************************************)
(* handle_request closes the connection on its own only when the next      *)
(* request announces a length out of bounds: bytes of one request are      *)
(* never taken for the header of another                                   *)
(* (NetworkInterface.cpp:163-183).                                         *)
(***************************************************************************)
RejectsOnlyBadLengths ==
  [][HandleRequest /\ ~open' =>
       Len(parsed) < Len(lens) /\ ~MS!Good(lens[Len(parsed) + 1])]_vars

(***************************************************************************)
(* A client that waits for each response before it sends the next request  *)
(* has every request parsed: no byte stays in the evbuffer for want of a   *)
(* callback (NetworkInterface.cpp:206).                                    *)
(***************************************************************************)
Patient == Len(lens) <= answered + 1

PatientClientServed ==
  []Patient => (Len(parsed) < Len(lens) ~> Len(parsed) = Len(lens) \/ ~open)
=============================================================================
