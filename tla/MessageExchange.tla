--------------------------- MODULE MessageExchange ---------------------------
(***************************************************************************)
(* One message from the side that writes it to the side that reads it: a   *)
(* request from client to server, or a response back.  The writer sets     *)
(* fields of its object, takes ByteSizeLong for the length in the header,  *)
(* and serialises; the reader gets as many bytes as were announced and     *)
(* parses them field by field with ParseFromArray.  Either side uses the   *)
(* classes it was built with.                                              *)
(***************************************************************************)
EXTENDS Protobuf

CONSTANTS
  Kinds,       \* the messages exchanged
  Ints,        \* values of an int32 field
  UInts,       \* values of a uint32 or uint64 field
  Strings,     \* values of a string field
  Doubles,     \* values of a double field
  Extras,      \* fields a newer bike.proto may add: [number, type, value]
  MaxRecords,  \* how many records the writer adds to a list of each kind
  Lost         \* how many bytes too few a header may announce

Client == INSTANCE ClientMessages
Server == INSTANCE ServerMessages

Requests == DOMAIN Client!Writers
Responses == DOMAIN Server!Writers

\* What may be set in a field of a type.
Values(type) ==
  CASE type = "int32" -> Ints
    [] type \in {"uint32", "uint64"} -> UInts
    [] type = "string" -> Strings
    [] type = "double" -> Doubles

\* Numbers are those VarintValue can tell; every type has more than its default.
ASSUME ExchangeAssumption ==
  /\ Kinds \subseteq Requests \cup Responses
  /\ \A k \in DOMAIN MaxRecords : MaxRecords[k] \in Nat
  /\ 0 \in Lost /\ Lost \subseteq Nat
  /\ \A v \in Ints :
       v \in Int /\ -2147483647 - 1 <= v /\ v <= 2147483647
  /\ \A v \in UInts : v \in Nat /\ v <= 2147483647
  /\ \A v \in Strings : v \in Seq(0 .. 255) /\ Len(v) <= 2147483647
  /\ Doubles \subseteq [1 .. 8 -> 0 .. 255]
  /\ \A type \in Scalars : \E v \in Values(type) : v # Zero(type)
  /\ \A x \in Extras :
       /\ x.number \in Nat /\ 16 <= x.number /\ x.number <= 268435455
       /\ x.type \in Scalars /\ x.value \in Values(x.type)

VARIABLES
  kind,     \* the message
  object,   \* the writer's object
  phase,    \* "fill", "parse" or "done"
  size,     \* what ByteSizeLong returned, the length in the header
  lost,     \* how many bytes less the header announces
  wire,     \* the serialised bytes
  pos,      \* how many of them the reader has read
  frames,   \* the objects being read, a record above its message, and the
            \* limit of each: [msg, end]
  verdict   \* what ParseFromArray returned

sending == <<kind, object, size, lost, wire>>
vars == <<sending, phase, pos, frames, verdict>>

W == IF kind \in Requests THEN Client!Writers[kind] ELSE Server!Writers[kind]
R == IF kind \in Requests THEN Server!Readers[kind] ELSE Client!Readers[kind]

\* An object of class k whose fields fs were set, to some values.
Filled(k, fs) ==
  [has |-> {k.has[f] : f \in fs},
   val |-> [f \in DOMAIN k.fields |->
              IF f \in fs THEN CHOOSE v \in Values(k.fields[f]) :
                                 v # Zero(k.fields[f])
                          ELSE k.SharedCtor[f]],
   unknown |-> <<>>]

\* A record with all its fields, and one that lacks a field.
Records(k) ==
  LET f == CHOOSE g \in DOMAIN k.fields : TRUE
  IN  {Filled(k, DOMAIN k.fields), Filled(k, DOMAIN k.fields \ {f})}

\* An object that was read into before, with something in all its fields.
Used(k) ==
  LET scalars == {f \in DOMAIN k.fields : k.fields[f] # "records"}
      m == [Filled(k, {}) EXCEPT !.unknown = <<120, 1>>,
              !.has = {k.has[f] : f \in scalars},
              !.val = [f \in DOMAIN k.fields |->
                         IF f \in scalars THEN Filled(k, {f}).val[f] ELSE <<>>]]
  IN  IF scalars = DOMAIN k.fields THEN m
      ELSE AddRecord(m, Filled(k.record, DOMAIN k.record.fields))

-----------------------------------------------------------------------------

Init ==
  /\ kind \in Kinds
  /\ object = New(W)
  /\ phase = "fill"
  /\ size = 0 /\ lost = 0 /\ wire = <<>>
  /\ pos = 0 /\ frames = <<>> /\ verdict = FALSE

(***************************************************************************)
(* The writer.                                                             *)
(***************************************************************************)

Fill(m) ==
  /\ phase = "fill"
  /\ object' = m
  /\ UNCHANGED <<kind, size, lost, wire, phase, pos, frames, verdict>>

\* set_x
Set(f) ==
  /\ W.fields[f] # "records"
  /\ \E v \in Values(W.fields[f]) : Fill(SetField(W, object, f, v))

\* clear_x
Unset(f) ==
  /\ W.fields[f] # "records"
  /\ Fill(ClearField(W, object, f))

\* add_records and clear_records
Add ==
  /\ HasRecords(object)
  /\ Len(object.val.records) < MaxRecords[kind]
  /\ \E r \in Records(W.record) : Fill(AddRecord(object, r))

Drop == HasRecords(object) /\ Fill(ClearRecords(object))

\* The writer was built from a newer bike.proto and sets a field of it.
Extend ==
  \E x \in Extras :
    Fill([object EXCEPT !.unknown =
            WriteTag(x.number, x.type) \o Payload(x.type, x.value)])

\* ByteSizeLong, SerializeToArray, and on the other side ParseFromArray up to
\* its loop.  The object it reads into is new or was used before.
Send ==
  /\ phase = "fill"
  /\ phase' = "parse"
  /\ size' = ByteSizeLong(W, object)
  /\ wire' = SerializeWithCachedSizes(W, object)
  /\ \E n \in Lost, into \in {New(R), Used(R)} :
       /\ n <= size'
       /\ lost' = n
       /\ frames' = <<[msg |-> Clear(R, into), end |-> size' - n]>>
  /\ UNCHANGED <<kind, object, pos, verdict>>

(***************************************************************************)
(* The reader: MergePartialFromCodedStream, one field a step.              *)
(***************************************************************************)

Depth == Len(frames)
Top == frames[Depth]
InRecord == Depth = 2
K == IF InRecord THEN R.record ELSE R

NextTag == ReadTag(wire, pos, Top.end)

\* The field the next bytes are read into, and those that are skipped.
Target(t) == Cases(K, t.tag)

ReadOn(m, p) ==
  /\ frames' = [frames EXCEPT ![Depth].msg = m]
  /\ pos' = p
  /\ UNCHANGED <<phase, verdict>>

\* ParseFromArray returns.
Return(result) ==
  /\ phase' = "done"
  /\ verdict' = result
  /\ UNCHANGED <<pos, frames>>

ReadField(t) ==
  \E f \in Target(t) :
    /\ K.read[f].type # "records"
    /\ \E r \in Read(K.read[f].type, wire, t.next, Top.end) :
         ReadOn(SetField(K, Top.msg, f, r.value), r.next)

\* add_records, PushLimit, and on with the record's own loop.
ReadRecord(t) ==
  \E f \in Target(t) :
    /\ K.read[f].type = "records"
    /\ \E n \in ReadVarint(wire, t.next, Top.end) :
         /\ pos' = t.next + n
         /\ frames' = Append(frames,
              [msg |-> New(R.record),
               end |-> PushLimit(pos', VarintValue(wire, t.next, n), Top.end)])
    /\ UNCHANGED <<phase, verdict>>

\* Mutant of SkipUnknown: the loop goes on where it was.
SkipNothing(t) ==
  /\ Target(t) = {}
  /\ \E q \in SkipField(t.tag, wire, t.next, Top.end) : ReadOn(Top.msg, pos)

\* Mutant of SkipUnknown: the field is kept, and not read past.
SkipAndStay(t) ==
  /\ Target(t) = {}
  /\ \E q \in SkipField(t.tag, wire, t.next, Top.end) :
       ReadOn([Top.msg EXCEPT !.unknown = @ \o SubSeq(wire, pos + 1, q)], pos)

SkipUnknown(t) ==
  /\ Target(t) = {}
  /\ \E q \in SkipField(t.tag, wire, t.next, Top.end) :
       ReadOn([Top.msg EXCEPT !.unknown = @ \o SubSeq(wire, pos + 1, q)], q)

\* What the tag announces is not there.  What a failed call leaves in the
\* object is left open: the server drops it, the test client prints it.
ReadFails(t) ==
  /\ \/ Target(t) = {} /\ SkipField(t.tag, wire, t.next, Top.end) = {}
     \/ \E f \in Target(t) :
          IF K.read[f].type = "records"
            THEN ReadVarint(wire, t.next, Top.end) = {}
            ELSE Read(K.read[f].type, wire, t.next, Top.end) = {}
  /\ Return(FALSE)

\* ConsumedEntireMessage: the loop ended at the limit.
AtLimit == pos = Top.end

\* PopLimit
EndRecord ==
  /\ InRecord
  /\ IF AtLimit
       THEN /\ frames' = <<[frames[1] EXCEPT !.msg = AddRecord(@, Top.msg)]>>
            /\ UNCHANGED <<phase, pos, verdict>>
       ELSE Return(FALSE)

EndMessage ==
  /\ ~InRecord
  /\ Return(IsInitialized(R, Top.msg) /\ AtLimit)

-----------------------------------------------------------------------------

WriterNext ==
  \/ \E f \in DOMAIN W.fields : Set(f) \/ Unset(f)
  \/ Add \/ Drop \/ Extend \/ Send

ReaderNext ==
  /\ phase = "parse"
  /\ \/ \E t \in NextTag :
          ReadField(t) \/ ReadRecord(t) \/ SkipUnknown(t) \/ ReadFails(t)
     \/ NextTag = {} /\ (EndRecord \/ EndMessage)
  /\ UNCHANGED sending

Next == WriterNext \/ ReaderNext

\* The writer may stop before it sends; ParseFromArray is one call.
Spec == Init /\ [][Next]_vars /\ WF_vars(ReaderNext)

-----------------------------------------------------------------------------

\* An object as the program can reach it: unset fields hold their defaults.
IsObject(k, m) ==
  /\ m.has \subseteq {k.has[f] : f \in DOMAIN k.has}
  /\ DOMAIN m.val = DOMAIN k.fields
  /\ \A f \in DOMAIN k.has :
       IF k.has[f] \in m.has THEN m.val[f] \in Values(k.fields[f])
                             ELSE m.val[f] = Zero(k.fields[f])

\* Both sides hold objects of their classes, however often one was cleared,
\* used again, or read into by the loop of MergePartialFromCodedStream.
TypeOK ==
  /\ phase \in {"fill", "parse", "done"}
  /\ pos \in 0 .. Len(wire)
  /\ verdict \in BOOLEAN
  /\ IsObject(W, object)
  /\ Depth <= 2
  /\ \A i \in DOMAIN frames :
       IsObject(IF i = 1 THEN R ELSE R.record, frames[i].msg)

(***************************************************************************)
(* The length in a header is the number of bytes that follow it, whatever  *)
(* fields are set and however many bytes their values take: the two sides  *)
(* of every class that compute it agree (client.cpp:91-96;                 *)
(* DispatchMsgService.cpp:236-246).                                        *)
(***************************************************************************)
SizeMatches == phase # "fill" => Len(wire) = size

(***************************************************************************)
(* What was read is what was set: the exchange implements bike.proto.      *)
(***************************************************************************)

SetFields(k, m) == {f \in DOMAIN k.has : k.has[f] \in m.has}

RecordMeaning(k, m) ==
  [set |-> [f \in SetFields(k, m) |-> m.val[f]], extra |-> m.unknown]

Meaning(k, m) ==
  LET records == IF HasRecords(m) /\ m.val.records # <<>> THEN {"records"} ELSE {}
  IN  [set |-> [f \in SetFields(k, m) \cup records |->
                  IF f \in records
                    THEN [i \in DOMAIN m.val.records |->
                            RecordMeaning(k.record, m.val.records[i])]
                    ELSE m.val[f]],
       extra |-> m.unknown]

Declared == INSTANCE BikeProto WITH
  draft <- Meaning(W, object),
  whole <- lost = 0,
  outcome <- IF phase # "done" THEN [is |-> "none"]
             ELSE IF ~verdict THEN [is |-> "refused"]
             ELSE [is |-> "read", message |-> Meaning(R, frames[1].msg)]

(***************************************************************************)
(* A message is accepted exactly if no required field of it or of its      *)
(* records is missing, and is then read as it was written, into a new      *)
(* object or a used one, with negative and default values, and over fields *)
(* the reader does not know.  One that was announced too short is refused, *)
(* unless nothing required is cut off (bike.pb.cpp on both sides).         *)
(***************************************************************************)
ImplementsBikeProto == Declared!Spec

(***************************************************************************)
(* A turn of the parser's loop that changes anything ends the call or gets *)
(* on by a byte at least, whatever the bytes are and whether or not it     *)
(* knows the field; and only the very end of a record leads back to the    *)
(* message around it (MergePartialFromCodedStream, bike.pb.cpp:892-951).   *)
(***************************************************************************)
LoopAdvances ==
  [][phase = "parse" =>
       \/ phase' = "done"
       \/ pos' > pos
       \/ InRecord /\ AtLimit /\ pos' = pos /\ Depth' = 1]_vars

(***************************************************************************)
(* ParseFromArray returns for whatever bytes it is given: every turn of    *)
(* its loop gets on (MergePartialFromCodedStream, for (;;)).               *)
(***************************************************************************)
ParseReturns == phase = "parse" ~> phase = "done"
=============================================================================
