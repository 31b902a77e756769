------------------------ MODULE MessageExchangeProofs ------------------------
(***************************************************************************)
(* What is proved of one message with TLAPS: the loop of                   *)
(* MergePartialFromCodedStream gets on, whatever the bytes; the tables of  *)
(* the two sides agree, class by class; the length in the header is the    *)
(* number of bytes behind it; and the message is read as it was written,   *)
(* so that the exchange implements BikeProto.                              *)
(***************************************************************************)
EXTENDS MessageExchange, ProtobufProofs, TLAPS

-----------------------------------------------------------------------------
(***************************************************************************)
(* What is read lies ahead.                                                *)
(***************************************************************************)

\* A varint has a byte at least.
LEMMA VarintAhead ==
  ASSUME NEW b, NEW p \in Nat, NEW e, NEW n \in ReadVarint(b, p, e)
  PROVE  n \in Nat /\ n >= 1
BY DEF ReadVarint

\* Reading n bytes never goes back, also when n is negative.
LEMMA BytesAhead ==
  ASSUME NEW b, NEW p \in Nat, NEW n, NEW e, NEW r \in ReadBytes(b, p, n, e)
  PROVE  r.next \in Nat /\ r.next >= p
BY DEF ReadBytes

\* A string is read behind its length.
LEMMA StringAhead ==
  ASSUME NEW b, NEW p \in Nat, NEW e, NEW r \in ReadString(b, p, e)
  PROVE  r.next \in Nat /\ r.next >= p
<1>1. PICK n \in ReadVarint(b, p, e) :
             r \in ReadBytes(b, p + n, VarintValue(b, p, n), e)
  BY DEF ReadString
<1>2. n \in Nat /\ n >= 1
  BY VarintAhead
<1>3. p + n \in Nat
  BY <1>2
<1>4. r.next \in Nat /\ r.next >= p + n
  BY <1>1, <1>3, BytesAhead
<1> QED
  BY <1>2, <1>4

\* So is every type of value,
LEMMA ReadAhead ==
  ASSUME NEW type, NEW b, NEW p \in Nat, NEW e, NEW r \in Read(type, b, p, e)
  PROVE  r.next \in Nat /\ r.next >= p
<1>1. CASE type = "string"
  <2>1. r \in ReadString(b, p, e)
    BY <1>1 DEF Read
  <2> QED
    BY <2>1, StringAhead
<1>2. CASE type = "double"
  <2>1. r \in ReadBytes(b, p, 8, e)
    BY <1>2 DEF Read
  <2> QED
    BY <2>1, BytesAhead
<1>3. CASE type \notin {"string", "double"}
  <2>1. PICK n \in ReadVarint(b, p, e) :
               r = [value |-> VarintValue(b, p, n), next |-> p + n]
    BY <1>3 DEF Read
  <2> QED
    BY <2>1, VarintAhead
<1> QED
  BY <1>1, <1>2, <1>3

\* A tag has a byte at least.
LEMMA TagAhead ==
  ASSUME NEW b, NEW p \in Nat, NEW e, NEW t \in ReadTag(b, p, e)
  PROVE  t.next \in Nat /\ t.next > p
<1>1. PICK n \in ReadVarint(b, p, e) :
             t = [tag |-> VarintValue(b, p, n), next |-> p + n]
  BY DEF ReadTag
<1> QED
  BY <1>1, VarintAhead

\* and what is skipped ends no earlier either.
LEMMA SkipAhead ==
  ASSUME NEW tag, NEW b, NEW p \in Nat, NEW e, NEW q \in SkipField(tag, b, p, e)
  PROVE  q \in Nat /\ q >= p
<1>1. PICK r \in Read("uint64", b, p, e) \cup ReadBytes(b, p, 8, e)
                   \cup ReadString(b, p, e) \cup ReadBytes(b, p, 4, e) :
             q = r.next
  BY DEF SkipField
<1> QED
  BY <1>1, ReadAhead, BytesAhead, StringAhead

-----------------------------------------------------------------------------
(***************************************************************************)
(* The loop.                                                               *)
(***************************************************************************)

\* A turn that finds a tag returns, or reads on behind it.
LEMMA TurnAdvances ==
  ASSUME pos \in Nat, NEW t \in NextTag,
         ReadField(t) \/ ReadRecord(t) \/ SkipUnknown(t) \/ ReadFails(t)
  PROVE  \/ phase' = "done" /\ pos' = pos
         \/ pos' \in Nat /\ pos' > pos
<1> DEFINE e == Top.end
<1>1. t.next \in Nat /\ t.next > pos
  BY TagAhead DEF NextTag
<1>2. CASE ReadField(t)
  <2>1. PICK f \in Target(t) :
               \E r \in Read(K.read[f].type, wire, t.next, e) : pos' = r.next
    BY <1>2 DEF ReadField, ReadOn
  <2>2. PICK r \in Read(K.read[f].type, wire, t.next, e) : pos' = r.next
    BY <2>1
  <2>3. r.next \in Nat /\ r.next >= t.next
    BY <1>1, ReadAhead
  <2> QED
    BY <1>1, <2>2, <2>3
<1>3. CASE ReadRecord(t)
  <2>1. PICK n \in ReadVarint(wire, t.next, e) : pos' = t.next + n
    BY <1>3 DEF ReadRecord
  <2>2. n \in Nat /\ n >= 1
    BY <1>1, <2>1, VarintAhead
  <2> QED
    BY <1>1, <2>1, <2>2
<1>4. CASE SkipUnknown(t)
  <2>1. PICK q \in SkipField(t.tag, wire, t.next, e) : pos' = q
    BY <1>4 DEF SkipUnknown, ReadOn
  <2>2. q \in Nat /\ q >= t.next
    BY <1>1, <2>1, SkipAhead
  <2> QED
    BY <1>1, <2>1, <2>2
<1>5. CASE ReadFails(t)
  BY <1>5 DEF ReadFails, Return
<1> QED
  BY <1>2, <1>3, <1>4, <1>5

\* A turn that finds none ends the record, at its limit, or the call.
LEMMA EndsAtLimit ==
  ASSUME EndRecord \/ EndMessage
  PROVE  /\ pos' = pos
         /\ phase' = "done" \/ (InRecord /\ AtLimit /\ Depth' = 1)
<1>1. CASE EndRecord
  <2>1. CASE AtLimit
    <3>1. frames' = <<[frames[1] EXCEPT !.msg = AddRecord(@, Top.msg)]>>
      BY <1>1, <2>1 DEF EndRecord
    <3> HIDE DEF AddRecord, Top
    <3>2. Len(frames') = 1
      BY <3>1
    <3> QED
      BY <1>1, <2>1, <3>2 DEF EndRecord, Depth
  <2>2. CASE ~AtLimit
    BY <1>1, <2>2 DEF EndRecord, Return
  <2> QED
    BY <2>1, <2>2
<1>2. CASE EndMessage
  BY <1>2 DEF EndMessage, Return
<1> QED
  BY <1>1, <1>2

\* What a step does to the place of the reader.
Advances ==
  \/ phase' = "done"
  \/ pos' > pos
  \/ InRecord /\ AtLimit /\ pos' = pos /\ Depth' = 1

\* Every step of the reader gets on, those that change nothing included.
LEMMA StepAdvances ==
  ASSUME pos \in Nat, [Next]_vars
  PROVE  /\ pos' \in Nat
         /\ ReaderNext => Advances
         /\ phase = "parse" => Advances \/ UNCHANGED vars
<1>1. CASE WriterNext
  <2>1. phase = "fill" /\ pos' = pos
    BY <1>1 DEF WriterNext, Set, Unset, Add, Drop, Extend, Send, Fill
  <2>2. ~ReaderNext
    BY <2>1 DEF ReaderNext
  <2> QED
    BY <2>1, <2>2
<1>2. CASE ReaderNext
  <2>1. CASE \E t \in NextTag :
               ReadField(t) \/ ReadRecord(t) \/ SkipUnknown(t) \/ ReadFails(t)
    BY <2>1, TurnAdvances DEF Advances
  <2>2. CASE EndRecord \/ EndMessage
    BY <2>2, EndsAtLimit DEF Advances
  <2> QED
    BY <1>2, <2>1, <2>2 DEF ReaderNext
<1>3. CASE UNCHANGED vars /\ ~ReaderNext
  BY <1>3 DEF vars
<1> QED
  BY <1>1, <1>2, <1>3 DEF Next

\* The loop of MergePartialFromCodedStream always gets on, so that a call of
\* ParseFromArray takes at most a turn for each byte and each record, and one.
THEOREM LoopCorrect == Spec => LoopAdvances
<1>1. Init => pos \in Nat
  BY DEF Init
<1>2. pos \in Nat /\ [Next]_vars => (pos \in Nat)'
  BY StepAdvances
<1>3. pos \in Nat /\ [Next]_vars => [phase = "parse" => Advances]_vars
  BY StepAdvances
<1> QED
  BY <1>1, <1>2, <1>3, PTL DEF Spec, LoopAdvances, Advances

-----------------------------------------------------------------------------
(***************************************************************************)
(* The tables of the two sides, class by class.                            *)
(***************************************************************************)

\* What one side writes of this class, the other reads.
LEMMA MobileRequestTables ==
  Agree(Client!Writers["mobile_request"], Server!Readers["mobile_request"])
<1> DEFINE w == Client!Writers["mobile_request"]
           r == Server!Readers["mobile_request"]
<1>1. /\ w.fields = Client!mobile_request_fields
      /\ w.has = Client!mobile_request_has
      /\ w.SharedCtor = Client!mobile_request_SharedCtor
      /\ w.write = Client!mobile_request_write
      /\ w.size = Client!mobile_request_size
  BY DEF Client!Writers, Client!Writer
<1>2. /\ r.fields = Server!mobile_request_fields
      /\ r.has = Server!mobile_request_has
      /\ r.SharedCtor = Server!mobile_request_SharedCtor
      /\ r.Clear = Server!mobile_request_Clear
      /\ r.read = Server!mobile_request_read
  BY DEF Server!Readers, Server!Reader
<1> HIDE DEF w, r
<1>3. HasTables(w)
  BY <1>1 DEF HasTables, Scalars, CountsFields, WritesFields,
         Client!mobile_request_fields, Client!mobile_request_has,
         Client!mobile_request_size, Client!mobile_request_write, Client!Write,
         Client!WriteEach
<1>4. /\ DOMAIN w.has = DOMAIN w.fields \ {"records"}
      /\ "records" \in DOMAIN w.fields => w.fields["records"] = "records"
      /\ \A f, g \in DOMAIN w.has : w.has[f] = w.has[g] => f = g
  BY <1>1 DEF Client!mobile_request_fields, Client!mobile_request_has
<1>5. w.SharedCtor = [f \in DOMAIN w.fields |-> Zero(w.fields[f])]
  BY <1>1 DEF Zero, Client!mobile_request_fields,
         Client!mobile_request_SharedCtor
<1>6. HasBits(w)
  BY <1>4, <1>5 DEF HasBits
<1>7. ListLast(w)
  BY <1>1 DEF ListLast, Lists, Client!mobile_request_fields,
         Client!mobile_request_write, Client!Write, Client!WriteEach
<1>8. r.fields = w.fields /\ r.has = w.has
  BY <1>1, <1>2 DEF Client!mobile_request_fields, Client!mobile_request_has,
         Server!mobile_request_fields, Server!mobile_request_has
<1>9. r.SharedCtor = w.SharedCtor
  BY <1>1, <1>2 DEF Client!mobile_request_SharedCtor,
         Server!mobile_request_SharedCtor, Client!ZeroDouble, Server!ZeroDouble
<1>10. /\ DOMAIN r.read = DOMAIN r.fields
       /\ \A f, g \in DOMAIN r.read :
            r.read[f].number = r.read[g].number => f = g
  BY <1>2 DEF Server!mobile_request_fields, Server!mobile_request_read,
         Server!Case
<1>11. \A i \in DOMAIN w.write :
         LET x == w.write[i]
         IN  r.read[x.field] =
               Case(x.number, 8 * x.number + WireType(x.type), x.type)
  BY <1>1, <1>2 DEF Server!mobile_request_read, Client!mobile_request_write,
         Server!Case, Case, WireType, Client!Write, Client!WriteEach
<1>12. Reads(r, w)
  BY <1>8, <1>9, <1>10, <1>11 DEF Reads
<1>13. Clears(r)
  BY <1>2 DEF Clears, Bits, Server!mobile_request_fields,
         Server!mobile_request_has, Server!mobile_request_Clear
<1>14. ~Lists(w)
  BY <1>1 DEF Lists, Client!mobile_request_write, Client!Write
<1> QED
  BY <1>3, <1>6, <1>7, <1>12, <1>13, <1>14 DEF Agree, Written, w, r

\* What one side writes of this class, the other reads.
LEMMA LoginRequestTables ==
  Agree(Client!Writers["login_request"], Server!Readers["login_request"])
<1> DEFINE w == Client!Writers["login_request"]
           r == Server!Readers["login_request"]
<1>1. /\ w.fields = Client!login_request_fields
      /\ w.has = Client!login_request_has
      /\ w.SharedCtor = Client!login_request_SharedCtor
      /\ w.write = Client!login_request_write
      /\ w.size = Client!login_request_size
  BY DEF Client!Writers, Client!Writer
<1>2. /\ r.fields = Server!login_request_fields
      /\ r.has = Server!login_request_has
      /\ r.SharedCtor = Server!login_request_SharedCtor
      /\ r.Clear = Server!login_request_Clear
      /\ r.read = Server!login_request_read
  BY DEF Server!Readers, Server!Reader
<1> HIDE DEF w, r
<1>3. HasTables(w)
  BY <1>1 DEF HasTables, Scalars, CountsFields, WritesFields,
         Client!login_request_fields, Client!login_request_has,
         Client!login_request_size, Client!login_request_write, Client!Write,
         Client!WriteEach
<1>4. /\ DOMAIN w.has = DOMAIN w.fields \ {"records"}
      /\ "records" \in DOMAIN w.fields => w.fields["records"] = "records"
      /\ \A f, g \in DOMAIN w.has : w.has[f] = w.has[g] => f = g
  BY <1>1 DEF Client!login_request_fields, Client!login_request_has
<1>5. w.SharedCtor = [f \in DOMAIN w.fields |-> Zero(w.fields[f])]
  BY <1>1 DEF Zero, Client!login_request_fields,
         Client!login_request_SharedCtor
<1>6. HasBits(w)
  BY <1>4, <1>5 DEF HasBits
<1>7. ListLast(w)
  BY <1>1 DEF ListLast, Lists, Client!login_request_fields,
         Client!login_request_write, Client!Write, Client!WriteEach
<1>8. r.fields = w.fields /\ r.has = w.has
  BY <1>1, <1>2 DEF Client!login_request_fields, Client!login_request_has,
         Server!login_request_fields, Server!login_request_has
<1>9. r.SharedCtor = w.SharedCtor
  BY <1>1, <1>2 DEF Client!login_request_SharedCtor,
         Server!login_request_SharedCtor, Client!ZeroDouble, Server!ZeroDouble
<1>10. /\ DOMAIN r.read = DOMAIN r.fields
       /\ \A f, g \in DOMAIN r.read :
            r.read[f].number = r.read[g].number => f = g
  BY <1>2 DEF Server!login_request_fields, Server!login_request_read,
         Server!Case
<1>11. \A i \in DOMAIN w.write :
         LET x == w.write[i]
         IN  r.read[x.field] =
               Case(x.number, 8 * x.number + WireType(x.type), x.type)
  BY <1>1, <1>2 DEF Server!login_request_read, Client!login_request_write,
         Server!Case, Case, WireType, Client!Write, Client!WriteEach
<1>12. Reads(r, w)
  BY <1>8, <1>9, <1>10, <1>11 DEF Reads
<1>13. Clears(r)
  BY <1>2 DEF Clears, Bits, Server!login_request_fields,
         Server!login_request_has, Server!login_request_Clear
<1>14. ~Lists(w)
  BY <1>1 DEF Lists, Client!login_request_write, Client!Write
<1> QED
  BY <1>3, <1>6, <1>7, <1>12, <1>13, <1>14 DEF Agree, Written, w, r

\* What one side writes of this class, the other reads.
LEMMA RechargeRequestTables ==
  Agree(Client!Writers["recharge_request"],
        Server!Readers["recharge_request"])
<1> DEFINE w == Client!Writers["recharge_request"]
           r == Server!Readers["recharge_request"]
<1>1. /\ w.fields = Client!recharge_request_fields
      /\ w.has = Client!recharge_request_has
      /\ w.SharedCtor = Client!recharge_request_SharedCtor
      /\ w.write = Client!recharge_request_write
      /\ w.size = Client!recharge_request_size
  BY DEF Client!Writers, Client!Writer
<1>2. /\ r.fields = Server!recharge_request_fields
      /\ r.has = Server!recharge_request_has
      /\ r.SharedCtor = Server!recharge_request_SharedCtor
      /\ r.Clear = Server!recharge_request_Clear
      /\ r.read = Server!recharge_request_read
  BY DEF Server!Readers, Server!Reader
<1> HIDE DEF w, r
<1>3. HasTables(w)
  BY <1>1 DEF HasTables, Scalars, CountsFields, WritesFields,
         Client!recharge_request_fields, Client!recharge_request_has,
         Client!recharge_request_size, Client!recharge_request_write,
         Client!Write, Client!WriteEach
<1>4. /\ DOMAIN w.has = DOMAIN w.fields \ {"records"}
      /\ "records" \in DOMAIN w.fields => w.fields["records"] = "records"
      /\ \A f, g \in DOMAIN w.has : w.has[f] = w.has[g] => f = g
  BY <1>1 DEF Client!recharge_request_fields, Client!recharge_request_has
<1>5. w.SharedCtor = [f \in DOMAIN w.fields |-> Zero(w.fields[f])]
  BY <1>1 DEF Zero, Client!recharge_request_fields,
         Client!recharge_request_SharedCtor
<1>6. HasBits(w)
  BY <1>4, <1>5 DEF HasBits
<1>7. ListLast(w)
  BY <1>1 DEF ListLast, Lists, Client!recharge_request_fields,
         Client!recharge_request_write, Client!Write, Client!WriteEach
<1>8. r.fields = w.fields /\ r.has = w.has
  BY <1>1, <1>2 DEF Client!recharge_request_fields,
         Client!recharge_request_has, Server!recharge_request_fields,
         Server!recharge_request_has
<1>9. r.SharedCtor = w.SharedCtor
  BY <1>1, <1>2 DEF Client!recharge_request_SharedCtor,
         Server!recharge_request_SharedCtor, Client!ZeroDouble,
         Server!ZeroDouble
<1>10. /\ DOMAIN r.read = DOMAIN r.fields
       /\ \A f, g \in DOMAIN r.read :
            r.read[f].number = r.read[g].number => f = g
  BY <1>2 DEF Server!recharge_request_fields, Server!recharge_request_read,
         Server!Case
<1>11. \A i \in DOMAIN w.write :
         LET x == w.write[i]
         IN  r.read[x.field] =
               Case(x.number, 8 * x.number + WireType(x.type), x.type)
  BY <1>1, <1>2 DEF Server!recharge_request_read,
         Client!recharge_request_write, Server!Case, Case, WireType,
         Client!Write, Client!WriteEach
<1>12. Reads(r, w)
  BY <1>8, <1>9, <1>10, <1>11 DEF Reads
<1>13. Clears(r)
  BY <1>2 DEF Clears, Bits, Server!recharge_request_fields,
         Server!recharge_request_has, Server!recharge_request_Clear
<1>14. ~Lists(w)
  BY <1>1 DEF Lists, Client!recharge_request_write, Client!Write
<1> QED
  BY <1>3, <1>6, <1>7, <1>12, <1>13, <1>14 DEF Agree, Written, w, r

\* What one side writes of this class, the other reads.
LEMMA AccountBalanceRequestTables ==
  Agree(Client!Writers["account_balance_request"],
        Server!Readers["account_balance_request"])
<1>1. Client!Writers["account_balance_request"]
        = Client!Writers["mobile_request"]
  BY DEF Client!Writers, Client!Writer, Client!account_balance_request_fields,
         Client!account_balance_request_has,
         Client!account_balance_request_SharedCtor,
         Client!account_balance_request_Clear,
         Client!account_balance_request_write,
         Client!account_balance_request_size, Client!mobile_request_fields,
         Client!mobile_request_has, Client!mobile_request_SharedCtor,
         Client!mobile_request_Clear, Client!mobile_request_write,
         Client!mobile_request_size, Client!Write
<1>2. Server!Readers["account_balance_request"]
        = Server!Readers["mobile_request"]
  BY DEF Server!Readers, Server!Reader, Server!account_balance_request_fields,
         Server!account_balance_request_has,
         Server!account_balance_request_SharedCtor,
         Server!account_balance_request_Clear,
         Server!account_balance_request_read,
         Server!account_balance_request_needs, Server!mobile_request_fields,
         Server!mobile_request_has, Server!mobile_request_SharedCtor,
         Server!mobile_request_Clear, Server!mobile_request_read,
         Server!mobile_request_needs, Server!Case
<1> QED
  BY <1>1, <1>2, MobileRequestTables

\* What one side writes of this class, the other reads.
LEMMA ListAccountRecordsRequestTables ==
  Agree(Client!Writers["list_account_records_request"],
        Server!Readers["list_account_records_request"])
<1>1. Client!Writers["list_account_records_request"]
        = Client!Writers["mobile_request"]
  BY DEF Client!Writers, Client!Writer,
         Client!list_account_records_request_fields,
         Client!list_account_records_request_has,
         Client!list_account_records_request_SharedCtor,
         Client!list_account_records_request_Clear,
         Client!list_account_records_request_write,
         Client!list_account_records_request_size,
         Client!mobile_request_fields, Client!mobile_request_has,
         Client!mobile_request_SharedCtor, Client!mobile_request_Clear,
         Client!mobile_request_write, Client!mobile_request_size, Client!Write
<1>2. Server!Readers["list_account_records_request"]
        = Server!Readers["mobile_request"]
  BY DEF Server!Readers, Server!Reader,
         Server!list_account_records_request_fields,
         Server!list_account_records_request_has,
         Server!list_account_records_request_SharedCtor,
         Server!list_account_records_request_Clear,
         Server!list_account_records_request_read,
         Server!list_account_records_request_needs,
         Server!mobile_request_fields, Server!mobile_request_has,
         Server!mobile_request_SharedCtor, Server!mobile_request_Clear,
         Server!mobile_request_read, Server!mobile_request_needs, Server!Case
<1> QED
  BY <1>1, <1>2, MobileRequestTables

\* What one side writes of this class, the other reads.
LEMMA ListTravelRecordsRequestTables ==
  Agree(Client!Writers["list_travel_records_request"],
        Server!Readers["list_travel_records_request"])
<1>1. Client!Writers["list_travel_records_request"]
        = Client!Writers["mobile_request"]
  BY DEF Client!Writers, Client!Writer,
         Client!list_travel_records_request_fields,
         Client!list_travel_records_request_has,
         Client!list_travel_records_request_SharedCtor,
         Client!list_travel_records_request_Clear,
         Client!list_travel_records_request_write,
         Client!list_travel_records_request_size, Client!mobile_request_fields,
         Client!mobile_request_has, Client!mobile_request_SharedCtor,
         Client!mobile_request_Clear, Client!mobile_request_write,
         Client!mobile_request_size, Client!Write
<1>2. Server!Readers["list_travel_records_request"]
        = Server!Readers["mobile_request"]
  BY DEF Server!Readers, Server!Reader,
         Server!list_travel_records_request_fields,
         Server!list_travel_records_request_has,
         Server!list_travel_records_request_SharedCtor,
         Server!list_travel_records_request_Clear,
         Server!list_travel_records_request_read,
         Server!list_travel_records_request_needs,
         Server!mobile_request_fields, Server!mobile_request_has,
         Server!mobile_request_SharedCtor, Server!mobile_request_Clear,
         Server!mobile_request_read, Server!mobile_request_needs, Server!Case
<1> QED
  BY <1>1, <1>2, MobileRequestTables

\* What one side writes of this class, the other reads.
LEMMA MobileResponseTables ==
  Agree(Server!Writers["mobile_response"], Client!Readers["mobile_response"])
<1> DEFINE w == Server!Writers["mobile_response"]
           r == Client!Readers["mobile_response"]
<1>1. /\ w.fields = Server!mobile_response_fields
      /\ w.has = Server!mobile_response_has
      /\ w.SharedCtor = Server!mobile_response_SharedCtor
      /\ w.write = Server!mobile_response_write
      /\ w.size = Server!mobile_response_size
  BY DEF Server!Writers, Server!Writer
<1>2. /\ r.fields = Client!mobile_response_fields
      /\ r.has = Client!mobile_response_has
      /\ r.SharedCtor = Client!mobile_response_SharedCtor
      /\ r.Clear = Client!mobile_response_Clear
      /\ r.read = Client!mobile_response_read
  BY DEF Client!Readers, Client!Reader
<1> HIDE DEF w, r
<1>3. HasTables(w)
  BY <1>1 DEF HasTables, Scalars, CountsFields, WritesFields,
         Server!mobile_response_fields, Server!mobile_response_has,
         Server!mobile_response_size, Server!mobile_response_write,
         Server!Write, Server!WriteEach
<1>4. /\ DOMAIN w.has = DOMAIN w.fields \ {"records"}
      /\ "records" \in DOMAIN w.fields => w.fields["records"] = "records"
      /\ \A f, g \in DOMAIN w.has : w.has[f] = w.has[g] => f = g
  BY <1>1 DEF Server!mobile_response_fields, Server!mobile_response_has
<1>5. w.SharedCtor = [f \in DOMAIN w.fields |-> Zero(w.fields[f])]
  BY <1>1 DEF Zero, Server!mobile_response_fields,
         Server!mobile_response_SharedCtor
<1>6. HasBits(w)
  BY <1>4, <1>5 DEF HasBits
<1>7. ListLast(w)
  BY <1>1 DEF ListLast, Lists, Server!mobile_response_fields,
         Server!mobile_response_write, Server!Write, Server!WriteEach
<1>8. r.fields = w.fields /\ r.has = w.has
  BY <1>1, <1>2 DEF Server!mobile_response_fields, Server!mobile_response_has,
         Client!mobile_response_fields, Client!mobile_response_has
<1>9. r.SharedCtor = w.SharedCtor
  BY <1>1, <1>2 DEF Server!mobile_response_SharedCtor,
         Client!mobile_response_SharedCtor, Client!ZeroDouble,
         Server!ZeroDouble
<1>10. /\ DOMAIN r.read = DOMAIN r.fields
       /\ \A f, g \in DOMAIN r.read :
            r.read[f].number = r.read[g].number => f = g
  BY <1>2 DEF Client!mobile_response_fields, Client!mobile_response_read,
         Client!Case
<1>11. \A i \in DOMAIN w.write :
         LET x == w.write[i]
         IN  r.read[x.field] =
               Case(x.number, 8 * x.number + WireType(x.type), x.type)
  BY <1>1, <1>2 DEF Client!mobile_response_read, Server!mobile_response_write,
         Client!Case, Case, WireType, Server!Write, Server!WriteEach
<1>12. Reads(r, w)
  BY <1>8, <1>9, <1>10, <1>11 DEF Reads
<1>13. Clears(r)
  BY <1>2 DEF Clears, Bits, Client!mobile_response_fields,
         Client!mobile_response_has, Client!mobile_response_Clear
<1>14. ~Lists(w)
  BY <1>1 DEF Lists, Server!mobile_response_write, Server!Write
<1> QED
  BY <1>3, <1>6, <1>7, <1>12, <1>13, <1>14 DEF Agree, Written, w, r

\* What one side writes of this class, the other reads.
LEMMA LoginResponseTables ==
  Agree(Server!Writers["login_response"], Client!Readers["login_response"])
<1> DEFINE w == Server!Writers["login_response"]
           r == Client!Readers["login_response"]
<1>1. /\ w.fields = Server!login_response_fields
      /\ w.has = Server!login_response_has
      /\ w.SharedCtor = Server!login_response_SharedCtor
      /\ w.write = Server!login_response_write
      /\ w.size = Server!login_response_size
  BY DEF Server!Writers, Server!Writer
<1>2. /\ r.fields = Client!login_response_fields
      /\ r.has = Client!login_response_has
      /\ r.SharedCtor = Client!login_response_SharedCtor
      /\ r.Clear = Client!login_response_Clear
      /\ r.read = Client!login_response_read
  BY DEF Client!Readers, Client!Reader
<1> HIDE DEF w, r
<1>3. HasTables(w)
  BY <1>1 DEF HasTables, Scalars, CountsFields, WritesFields,
         Server!login_response_fields, Server!login_response_has,
         Server!login_response_size, Server!login_response_write, Server!Write,
         Server!WriteEach
<1>4. /\ DOMAIN w.has = DOMAIN w.fields \ {"records"}
      /\ "records" \in DOMAIN w.fields => w.fields["records"] = "records"
      /\ \A f, g \in DOMAIN w.has : w.has[f] = w.has[g] => f = g
  BY <1>1 DEF Server!login_response_fields, Server!login_response_has
<1>5. w.SharedCtor = [f \in DOMAIN w.fields |-> Zero(w.fields[f])]
  BY <1>1 DEF Zero, Server!login_response_fields,
         Server!login_response_SharedCtor
<1>6. HasBits(w)
  BY <1>4, <1>5 DEF HasBits
<1>7. ListLast(w)
  BY <1>1 DEF ListLast, Lists, Server!login_response_fields,
         Server!login_response_write, Server!Write, Server!WriteEach
<1>8. r.fields = w.fields /\ r.has = w.has
  BY <1>1, <1>2 DEF Server!login_response_fields, Server!login_response_has,
         Client!login_response_fields, Client!login_response_has
<1>9. r.SharedCtor = w.SharedCtor
  BY <1>1, <1>2 DEF Server!login_response_SharedCtor,
         Client!login_response_SharedCtor, Client!ZeroDouble, Server!ZeroDouble
<1>10. /\ DOMAIN r.read = DOMAIN r.fields
       /\ \A f, g \in DOMAIN r.read :
            r.read[f].number = r.read[g].number => f = g
  BY <1>2 DEF Client!login_response_fields, Client!login_response_read,
         Client!Case
<1>11. \A i \in DOMAIN w.write :
         LET x == w.write[i]
         IN  r.read[x.field] =
               Case(x.number, 8 * x.number + WireType(x.type), x.type)
  BY <1>1, <1>2 DEF Client!login_response_read, Server!login_response_write,
         Client!Case, Case, WireType, Server!Write, Server!WriteEach
<1>12. Reads(r, w)
  BY <1>8, <1>9, <1>10, <1>11 DEF Reads
<1>13. Clears(r)
  BY <1>2 DEF Clears, Bits, Client!login_response_fields,
         Client!login_response_has, Client!login_response_Clear
<1>14. ~Lists(w)
  BY <1>1 DEF Lists, Server!login_response_write, Server!Write
<1> QED
  BY <1>3, <1>6, <1>7, <1>12, <1>13, <1>14 DEF Agree, Written, w, r

\* What one side writes of this class, the other reads.
LEMMA RechargeResponseTables ==
  Agree(Server!Writers["recharge_response"],
        Client!Readers["recharge_response"])
<1> DEFINE w == Server!Writers["recharge_response"]
           r == Client!Readers["recharge_response"]
<1>1. /\ w.fields = Server!recharge_response_fields
      /\ w.has = Server!recharge_response_has
      /\ w.SharedCtor = Server!recharge_response_SharedCtor
      /\ w.write = Server!recharge_response_write
      /\ w.size = Server!recharge_response_size
  BY DEF Server!Writers, Server!Writer
<1>2. /\ r.fields = Client!recharge_response_fields
      /\ r.has = Client!recharge_response_has
      /\ r.SharedCtor = Client!recharge_response_SharedCtor
      /\ r.Clear = Client!recharge_response_Clear
      /\ r.read = Client!recharge_response_read
  BY DEF Client!Readers, Client!Reader
<1> HIDE DEF w, r
<1>3. HasTables(w)
  BY <1>1 DEF HasTables, Scalars, CountsFields, WritesFields,
         Server!recharge_response_fields, Server!recharge_response_has,
         Server!recharge_response_size, Server!recharge_response_write,
         Server!Write, Server!WriteEach
<1>4. /\ DOMAIN w.has = DOMAIN w.fields \ {"records"}
      /\ "records" \in DOMAIN w.fields => w.fields["records"] = "records"
      /\ \A f, g \in DOMAIN w.has : w.has[f] = w.has[g] => f = g
  BY <1>1 DEF Server!recharge_response_fields, Server!recharge_response_has
<1>5. w.SharedCtor = [f \in DOMAIN w.fields |-> Zero(w.fields[f])]
  BY <1>1 DEF Zero, Server!recharge_response_fields,
         Server!recharge_response_SharedCtor
<1>6. HasBits(w)
  BY <1>4, <1>5 DEF HasBits
<1>7. ListLast(w)
  BY <1>1 DEF ListLast, Lists, Server!recharge_response_fields,
         Server!recharge_response_write, Server!Write, Server!WriteEach
<1>8. r.fields = w.fields /\ r.has = w.has
  BY <1>1, <1>2 DEF Server!recharge_response_fields,
         Server!recharge_response_has, Client!recharge_response_fields,
         Client!recharge_response_has
<1>9. r.SharedCtor = w.SharedCtor
  BY <1>1, <1>2 DEF Server!recharge_response_SharedCtor,
         Client!recharge_response_SharedCtor, Client!ZeroDouble,
         Server!ZeroDouble
<1>10. /\ DOMAIN r.read = DOMAIN r.fields
       /\ \A f, g \in DOMAIN r.read :
            r.read[f].number = r.read[g].number => f = g
  BY <1>2 DEF Client!recharge_response_fields, Client!recharge_response_read,
         Client!Case
<1>11. \A i \in DOMAIN w.write :
         LET x == w.write[i]
         IN  r.read[x.field] =
               Case(x.number, 8 * x.number + WireType(x.type), x.type)
  BY <1>1, <1>2 DEF Client!recharge_response_read,
         Server!recharge_response_write, Client!Case, Case, WireType,
         Server!Write, Server!WriteEach
<1>12. Reads(r, w)
  BY <1>8, <1>9, <1>10, <1>11 DEF Reads
<1>13. Clears(r)
  BY <1>2 DEF Clears, Bits, Client!recharge_response_fields,
         Client!recharge_response_has, Client!recharge_response_Clear
<1>14. ~Lists(w)
  BY <1>1 DEF Lists, Server!recharge_response_write, Server!Write
<1> QED
  BY <1>3, <1>6, <1>7, <1>12, <1>13, <1>14 DEF Agree, Written, w, r

\* What one side writes of this class, the other reads.
LEMMA AccountBalanceResponseTables ==
  Agree(Server!Writers["account_balance_response"],
        Client!Readers["account_balance_response"])
<1>1. Server!Writers["account_balance_response"]
        = Server!Writers["recharge_response"]
  BY DEF Server!Writers, Server!Writer, Server!account_balance_response_fields,
         Server!account_balance_response_has,
         Server!account_balance_response_SharedCtor,
         Server!account_balance_response_Clear,
         Server!account_balance_response_write,
         Server!account_balance_response_size, Server!recharge_response_fields,
         Server!recharge_response_has, Server!recharge_response_SharedCtor,
         Server!recharge_response_Clear, Server!recharge_response_write,
         Server!recharge_response_size, Server!Write
<1>2. Client!Readers["account_balance_response"]
        = Client!Readers["recharge_response"]
  BY DEF Client!Readers, Client!Reader, Client!account_balance_response_fields,
         Client!account_balance_response_has,
         Client!account_balance_response_SharedCtor,
         Client!account_balance_response_Clear,
         Client!account_balance_response_read,
         Client!account_balance_response_needs,
         Client!recharge_response_fields, Client!recharge_response_has,
         Client!recharge_response_SharedCtor, Client!recharge_response_Clear,
         Client!recharge_response_read, Client!recharge_response_needs,
         Client!Case
<1> QED
  BY <1>1, <1>2, RechargeResponseTables

\* What one side writes of this class, the other reads.
LEMMA ListAccountRecordsResponseTables ==
  Agree(Server!Writers["list_account_records_response"],
        Client!Readers["list_account_records_response"])
<1> DEFINE w == Server!Writers["list_account_records_response"]
           r == Client!Readers["list_account_records_response"]
           c == w.record
           d == r.record
<1>1. /\ w.fields = Server!list_account_records_response_fields
      /\ w.has = Server!list_account_records_response_has
      /\ w.SharedCtor = Server!list_account_records_response_SharedCtor
      /\ w.write = Server!list_account_records_response_write
      /\ w.size = Server!list_account_records_response_size
  BY DEF Server!Writers, Server!Writer
<1>2. /\ r.fields = Client!list_account_records_response_fields
      /\ r.has = Client!list_account_records_response_has
      /\ r.SharedCtor = Client!list_account_records_response_SharedCtor
      /\ r.Clear = Client!list_account_records_response_Clear
      /\ r.read = Client!list_account_records_response_read
  BY DEF Client!Readers, Client!Reader
<1>3. /\ c.fields =
           Server!list_account_records_response_account_record_fields
      /\ c.has =
           Server!list_account_records_response_account_record_has
      /\ c.SharedCtor =
           Server!list_account_records_response_account_record_SharedCtor
      /\ c.write =
           Server!list_account_records_response_account_record_write
      /\ c.size =
           Server!list_account_records_response_account_record_size
  BY DEF Server!Writers, Server!Writer
<1>4. /\ d.fields =
           Client!list_account_records_response_account_record_fields
      /\ d.has =
           Client!list_account_records_response_account_record_has
      /\ d.SharedCtor =
           Client!list_account_records_response_account_record_SharedCtor
      /\ d.needs =
           Client!list_account_records_response_account_record_needs
      /\ d.read =
           Client!list_account_records_response_account_record_read
  BY DEF Client!Readers, Client!Reader
<1> HIDE DEF w, r, c, d
<1>5. HasTables(w)
  BY <1>1 DEF HasTables, Scalars, CountsFields, WritesFields,
         Server!list_account_records_response_fields,
         Server!list_account_records_response_has,
         Server!list_account_records_response_size,
         Server!list_account_records_response_write, Server!Write,
         Server!WriteEach
<1>6. /\ DOMAIN w.has = DOMAIN w.fields \ {"records"}
      /\ "records" \in DOMAIN w.fields => w.fields["records"] = "records"
      /\ \A f, g \in DOMAIN w.has : w.has[f] = w.has[g] => f = g
  BY <1>1 DEF Server!list_account_records_response_fields,
         Server!list_account_records_response_has
<1>7. w.SharedCtor = [f \in DOMAIN w.fields |-> Zero(w.fields[f])]
  BY <1>1 DEF Zero, Server!list_account_records_response_fields,
         Server!list_account_records_response_SharedCtor
<1>8. HasBits(w)
  BY <1>6, <1>7 DEF HasBits
<1>9. ListLast(w)
  BY <1>1 DEF ListLast, Lists, Server!list_account_records_response_fields,
         Server!list_account_records_response_write, Server!Write,
         Server!WriteEach
<1>10. r.fields = w.fields /\ r.has = w.has
  BY <1>1, <1>2 DEF Server!list_account_records_response_fields,
         Server!list_account_records_response_has,
         Client!list_account_records_response_fields,
         Client!list_account_records_response_has
<1>11. r.SharedCtor = w.SharedCtor
  BY <1>1, <1>2 DEF Server!list_account_records_response_SharedCtor,
         Client!list_account_records_response_SharedCtor, Client!ZeroDouble,
         Server!ZeroDouble
<1>12. /\ DOMAIN r.read = DOMAIN r.fields
       /\ \A f, g \in DOMAIN r.read :
            r.read[f].number = r.read[g].number => f = g
  BY <1>2 DEF Client!list_account_records_response_fields,
         Client!list_account_records_response_read, Client!Case
<1>13. \A i \in DOMAIN w.write :
         LET x == w.write[i]
         IN  r.read[x.field] =
               Case(x.number, 8 * x.number + WireType(x.type), x.type)
  BY <1>1, <1>2 DEF Client!list_account_records_response_read,
         Server!list_account_records_response_write, Client!Case, Case,
         WireType, Server!Write, Server!WriteEach
<1>14. Reads(r, w)
  BY <1>10, <1>11, <1>12, <1>13 DEF Reads
<1>15. Clears(r)
  BY <1>2 DEF Clears, Bits, Client!list_account_records_response_fields,
         Client!list_account_records_response_has,
         Client!list_account_records_response_Clear
<1>16. HasTables(c)
  BY <1>3 DEF HasTables, Scalars, CountsFields, WritesFields,
         Server!list_account_records_response_account_record_fields,
         Server!list_account_records_response_account_record_has,
         Server!list_account_records_response_account_record_size,
         Server!list_account_records_response_account_record_write,
         Server!Write, Server!WriteEach
<1>17. /\ DOMAIN c.has = DOMAIN c.fields \ {"records"}
       /\ "records" \in DOMAIN c.fields => c.fields["records"] = "records"
       /\ \A f, g \in DOMAIN c.has : c.has[f] = c.has[g] => f = g
  BY <1>3 DEF Server!list_account_records_response_account_record_fields,
         Server!list_account_records_response_account_record_has
<1>18. c.SharedCtor = [f \in DOMAIN c.fields |-> Zero(c.fields[f])]
  BY <1>3 DEF Zero, Server!list_account_records_response_account_record_fields,
         Server!list_account_records_response_account_record_SharedCtor
<1>19. HasBits(c)
  BY <1>17, <1>18 DEF HasBits
<1>20. ListLast(c)
  BY <1>3 DEF ListLast, Lists,
         Server!list_account_records_response_account_record_fields,
         Server!list_account_records_response_account_record_write,
         Server!Write, Server!WriteEach
<1>21. ~Lists(c)
  BY <1>3 DEF Lists, Server!list_account_records_response_account_record_write,
         Server!Write
<1>22. d.fields = c.fields /\ d.has = c.has
  BY <1>3, <1>4 DEF Server!list_account_records_response_account_record_fields,
         Server!list_account_records_response_account_record_has,
         Client!list_account_records_response_account_record_fields,
         Client!list_account_records_response_account_record_has
<1>23. d.SharedCtor = c.SharedCtor
  BY <1>3, <1>4 DEF
         Server!list_account_records_response_account_record_SharedCtor,
         Client!list_account_records_response_account_record_SharedCtor,
         Client!ZeroDouble, Server!ZeroDouble
<1>24. /\ DOMAIN d.read = DOMAIN d.fields
       /\ \A f, g \in DOMAIN d.read :
            d.read[f].number = d.read[g].number => f = g
  BY <1>4 DEF Client!list_account_records_response_account_record_fields,
         Client!list_account_records_response_account_record_read, Client!Case
<1>25. \A i \in DOMAIN c.write :
         LET x == c.write[i]
         IN  d.read[x.field] =
               Case(x.number, 8 * x.number + WireType(x.type), x.type)
  BY <1>3, <1>4 DEF Client!list_account_records_response_account_record_read,
         Server!list_account_records_response_account_record_write,
         Client!Case, Case, WireType, Server!Write, Server!WriteEach
<1>26. Reads(d, c)
  BY <1>22, <1>23, <1>24, <1>25 DEF Reads
<1>27. DOMAIN c.has = {"type", "limit", "timestamp"}
  BY <1>3 DEF Server!list_account_records_response_account_record_has
<1>28. \A f \in DOMAIN c.has :
         c.fields[f] \in {"int32", "uint32", "uint64"}
  BY <1>3 DEF Server!list_account_records_response_account_record_fields,
         Server!list_account_records_response_account_record_has
<1>29. Short(c)
  BY <1>27, <1>28 DEF Short
<1>30. d.needs = Bits(d)
  BY <1>4 DEF Bits, Client!list_account_records_response_account_record_has,
         Client!list_account_records_response_account_record_needs
<1> QED
  BY <1>5, <1>8, <1>9, <1>14, <1>15, <1>16, <1>19, <1>20, <1>21, <1>26, <1>29,
         <1>30 DEF Agree, Written, w, r, c, d

\* What one side writes of this class, the other reads.
LEMMA ListTravelRecordsResponseTables ==
  Agree(Server!Writers["list_travel_records_response"],
        Client!Readers["list_travel_records_response"])
<1> DEFINE w == Server!Writers["list_travel_records_response"]
           r == Client!Readers["list_travel_records_response"]
           c == w.record
           d == r.record
<1>1. /\ w.fields = Server!list_travel_records_response_fields
      /\ w.has = Server!list_travel_records_response_has
      /\ w.SharedCtor = Server!list_travel_records_response_SharedCtor
      /\ w.write = Server!list_travel_records_response_write
      /\ w.size = Server!list_travel_records_response_size
  BY DEF Server!Writers, Server!Writer
<1>2. /\ r.fields = Client!list_travel_records_response_fields
      /\ r.has = Client!list_travel_records_response_has
      /\ r.SharedCtor = Client!list_travel_records_response_SharedCtor
      /\ r.Clear = Client!list_travel_records_response_Clear
      /\ r.read = Client!list_travel_records_response_read
  BY DEF Client!Readers, Client!Reader
<1>3. /\ c.fields =
           Server!list_travel_records_response_travel_record_fields
      /\ c.has = Server!list_travel_records_response_travel_record_has
      /\ c.SharedCtor =
           Server!list_travel_records_response_travel_record_SharedCtor
      /\ c.write =
           Server!list_travel_records_response_travel_record_write
      /\ c.size = Server!list_travel_records_response_travel_record_size
  BY DEF Server!Writers, Server!Writer
<1>4. /\ d.fields =
           Client!list_travel_records_response_travel_record_fields
      /\ d.has = Client!list_travel_records_response_travel_record_has
      /\ d.SharedCtor =
           Client!list_travel_records_response_travel_record_SharedCtor
      /\ d.needs =
           Client!list_travel_records_response_travel_record_needs
      /\ d.read = Client!list_travel_records_response_travel_record_read
  BY DEF Client!Readers, Client!Reader
<1> HIDE DEF w, r, c, d
<1>5. HasTables(w)
  BY <1>1 DEF HasTables, Scalars, CountsFields, WritesFields,
         Server!list_travel_records_response_fields,
         Server!list_travel_records_response_has,
         Server!list_travel_records_response_size,
         Server!list_travel_records_response_write, Server!Write,
         Server!WriteEach
<1>6. /\ DOMAIN w.has = DOMAIN w.fields \ {"records"}
      /\ "records" \in DOMAIN w.fields => w.fields["records"] = "records"
      /\ \A f, g \in DOMAIN w.has : w.has[f] = w.has[g] => f = g
  BY <1>1 DEF Server!list_travel_records_response_fields,
         Server!list_travel_records_response_has
<1>7. ZeroDouble = Server!ZeroDouble
  BY DEF ZeroDouble, Server!ZeroDouble
<1>8. w.SharedCtor = [f \in DOMAIN w.fields |-> Zero(w.fields[f])]
  BY <1>1, <1>7, SMT DEF Zero, Server!list_travel_records_response_fields,
         Server!list_travel_records_response_SharedCtor
<1>9. HasBits(w)
  BY <1>6, <1>8 DEF HasBits
<1>10. ListLast(w)
  BY <1>1 DEF ListLast, Lists, Server!list_travel_records_response_fields,
         Server!list_travel_records_response_write, Server!Write,
         Server!WriteEach
<1>11. r.fields = w.fields /\ r.has = w.has
  BY <1>1, <1>2 DEF Server!list_travel_records_response_fields,
         Server!list_travel_records_response_has,
         Client!list_travel_records_response_fields,
         Client!list_travel_records_response_has
<1>12. r.SharedCtor = w.SharedCtor
  BY <1>1, <1>2 DEF Server!list_travel_records_response_SharedCtor,
         Client!list_travel_records_response_SharedCtor, Client!ZeroDouble,
         Server!ZeroDouble
<1>13. /\ DOMAIN r.read = DOMAIN r.fields
       /\ \A f, g \in DOMAIN r.read :
            r.read[f].number = r.read[g].number => f = g
  BY <1>2 DEF Client!list_travel_records_response_fields,
         Client!list_travel_records_response_read, Client!Case
<1>14. \A i \in DOMAIN w.write :
         LET x == w.write[i]
         IN  r.read[x.field] =
               Case(x.number, 8 * x.number + WireType(x.type), x.type)
  BY <1>1, <1>2 DEF Client!list_travel_records_response_read,
         Server!list_travel_records_response_write, Client!Case, Case,
         WireType, Server!Write, Server!WriteEach
<1>15. Reads(r, w)
  BY <1>11, <1>12, <1>13, <1>14 DEF Reads
<1>16. Clears(r)
  BY <1>2 DEF Clears, Bits, Client!list_travel_records_response_fields,
         Client!list_travel_records_response_has,
         Client!list_travel_records_response_Clear
<1>17. HasTables(c)
  BY <1>3 DEF HasTables, Scalars, CountsFields, WritesFields,
         Server!list_travel_records_response_travel_record_fields,
         Server!list_travel_records_response_travel_record_has,
         Server!list_travel_records_response_travel_record_size,
         Server!list_travel_records_response_travel_record_write, Server!Write,
         Server!WriteEach
<1>18. /\ DOMAIN c.has = DOMAIN c.fields \ {"records"}
       /\ "records" \in DOMAIN c.fields => c.fields["records"] = "records"
       /\ \A f, g \in DOMAIN c.has : c.has[f] = c.has[g] => f = g
  BY <1>3 DEF Server!list_travel_records_response_travel_record_fields,
         Server!list_travel_records_response_travel_record_has
<1>19. c.SharedCtor = [f \in DOMAIN c.fields |-> Zero(c.fields[f])]
  BY <1>3 DEF Zero, Server!list_travel_records_response_travel_record_fields,
         Server!list_travel_records_response_travel_record_SharedCtor
<1>20. HasBits(c)
  BY <1>18, <1>19 DEF HasBits
<1>21. ListLast(c)
  BY <1>3 DEF ListLast, Lists,
         Server!list_travel_records_response_travel_record_fields,
         Server!list_travel_records_response_travel_record_write, Server!Write,
         Server!WriteEach
<1>22. ~Lists(c)
  BY <1>3 DEF Lists, Server!list_travel_records_response_travel_record_write,
         Server!Write
<1>23. d.fields = c.fields /\ d.has = c.has
  BY <1>3, <1>4 DEF Server!list_travel_records_response_travel_record_fields,
         Server!list_travel_records_response_travel_record_has,
         Client!list_travel_records_response_travel_record_fields,
         Client!list_travel_records_response_travel_record_has
<1>24. d.SharedCtor = c.SharedCtor
  BY <1>3, <1>4 DEF
         Server!list_travel_records_response_travel_record_SharedCtor,
         Client!list_travel_records_response_travel_record_SharedCtor,
         Client!ZeroDouble, Server!ZeroDouble
<1>25. /\ DOMAIN d.read = DOMAIN d.fields
       /\ \A f, g \in DOMAIN d.read :
            d.read[f].number = d.read[g].number => f = g
  BY <1>4 DEF Client!list_travel_records_response_travel_record_fields,
         Client!list_travel_records_response_travel_record_read, Client!Case
<1>26. \A i \in DOMAIN c.write :
         LET x == c.write[i]
         IN  d.read[x.field] =
               Case(x.number, 8 * x.number + WireType(x.type), x.type)
  BY <1>3, <1>4 DEF Client!list_travel_records_response_travel_record_read,
         Server!list_travel_records_response_travel_record_write, Client!Case,
         Case, WireType, Server!Write, Server!WriteEach
<1>27. Reads(d, c)
  BY <1>23, <1>24, <1>25, <1>26 DEF Reads
<1>28. DOMAIN c.has = {"stm", "duration", "amount"}
  BY <1>3 DEF Server!list_travel_records_response_travel_record_has
<1>29. \A f \in DOMAIN c.has :
         c.fields[f] \in {"int32", "uint32", "uint64"}
  BY <1>3 DEF Server!list_travel_records_response_travel_record_fields,
         Server!list_travel_records_response_travel_record_has
<1>30. Short(c)
  BY <1>28, <1>29 DEF Short
<1>31. d.needs = Bits(d)
  BY <1>4 DEF Bits, Client!list_travel_records_response_travel_record_has,
         Client!list_travel_records_response_travel_record_needs
<1> QED
  BY <1>5, <1>9, <1>10, <1>15, <1>16, <1>17, <1>20, <1>21, <1>22, <1>27, <1>30,
         <1>31 DEF Agree, Written, w, r, c, d

\* The messages by name.
LEMMA KindsAre ==
  /\ Requests = {"mobile_request", "login_request", "recharge_request",
                 "account_balance_request", "list_account_records_request",
                 "list_travel_records_request"}
  /\ Responses = {"mobile_response", "login_response", "recharge_response",
                  "account_balance_response", "list_account_records_response",
                  "list_travel_records_response"}
<1>1. Requests = {"mobile_request", "login_request", "recharge_request",
                  "account_balance_request", "list_account_records_request",
                  "list_travel_records_request"}
  BY DEF Requests, Client!Writers
<1>2. Responses = {"mobile_response", "login_response", "recharge_response",
                   "account_balance_response",
                   "list_account_records_response",
                   "list_travel_records_response"}
  BY DEF Responses, Server!Writers
<1> QED
  BY <1>1, <1>2

\* Whatever message is exchanged, the copy of bike.pb of the side that writes
\* it and that of the side that reads it agree on its class (bike.pb.cpp).
THEOREM SidesAgree ==
  ASSUME kind \in Kinds
  PROVE  Agree(W, R)
<1>1. kind \in Requests \cup Responses
  BY ExchangeAssumption
<1>2. CASE kind \in Requests
  <2>1. W = Client!Writers[kind] /\ R = Server!Readers[kind]
    BY <1>2 DEF W, R
  <2>2. kind \in {"mobile_request", "login_request", "recharge_request",
                  "account_balance_request", "list_account_records_request",
                  "list_travel_records_request"}
    BY <1>2, KindsAre
  <2> QED
    BY <2>1, <2>2, MobileRequestTables, LoginRequestTables,
       RechargeRequestTables, AccountBalanceRequestTables,
       ListAccountRecordsRequestTables, ListTravelRecordsRequestTables
<1>3. CASE kind \notin Requests
  <2>1. W = Server!Writers[kind] /\ R = Client!Readers[kind]
    BY <1>3 DEF W, R
  <2>2. kind \in {"mobile_response", "login_response", "recharge_response",
                  "account_balance_response", "list_account_records_response",
                  "list_travel_records_response"}
    BY <1>1, <1>3, KindsAre
  <2> QED
    BY <2>1, <2>2, MobileResponseTables, LoginResponseTables,
       RechargeResponseTables, AccountBalanceResponseTables,
       ListAccountRecordsResponseTables, ListTravelRecordsResponseTables
<1> QED
  BY <1>2, <1>3

-----------------------------------------------------------------------------
(***************************************************************************)
(* The writer's object.                                                    *)
(***************************************************************************)

\* What may be set can be read back.
LEMMA ValuesReadable ==
  ASSUME NEW type \in Scalars
  PROVE  Values(type) \subseteq Readable(type)
<1>1. CASE type = "string"
  <2>1. Values(type) = Strings
    BY <1>1 DEF Values
  <2>2. \A v \in Strings : v \in Seq(Byte) /\ Len(v) \in Int32
    <3> SUFFICES ASSUME NEW v \in Strings PROVE v \in Seq(Byte) /\ Len(v) \in Int32
      OBVIOUS
    <3>1. v \in Seq(0 .. 255) /\ Len(v) <= 2147483647
      BY ExchangeAssumption, SMT
    <3>2. v \in Seq(Byte) /\ Len(v) \in Nat
      BY <3>1, SMT DEF Byte
    <3> DEFINE n == Len(v)
    <3>3. n \in Nat /\ n <= 2147483647
      BY <3>1, <3>2, SMT
    <3> HIDE DEF n
    <3>4. n \in Int32
      BY <3>3, SMT DEF Int32
    <3> QED
      BY <3>2, <3>4, SMT DEF n
  <2> QED
    BY <1>1, <2>1, <2>2 DEF Readable
<1>2. CASE type = "double"
  BY <1>2, ExchangeAssumption, SMT DEF Values, Readable, Byte
<1>3. CASE type = "int32"
  BY <1>3, ExchangeAssumption, SMT DEF Values, Readable, Int32
<1>4. CASE type \in {"uint32", "uint64"}
  BY <1>4, ExchangeAssumption, SMT DEF Values, Readable, Int32
<1> QED
  BY <1>1, <1>2, <1>3, <1>4 DEF Scalars

\* An object has its three parts, and a value in every field.
Shape(k, m) ==
  /\ m = [has |-> m.has, val |-> m.val, unknown |-> m.unknown]
  /\ m.val = [f \in DOMAIN k.fields |-> m.val[f]]

\* An object of the exchange is one that can be read back.
LEMMA ShapeIsObject ==
  ASSUME NEW k, NEW m, HasTables(k), Shape(k, m), IsObject(k, m)
  PROVE  Object(k, m)
<1>1. \A f \in DOMAIN k.has : Values(k.fields[f]) \subseteq Readable(k.fields[f])
  BY ValuesReadable DEF HasTables
<1> QED
  BY <1>1 DEF Shape, IsObject, Object, Bits

\* The constructor makes one.
LEMMA NewIsObject ==
  ASSUME NEW k, HasBits(k)
  PROVE  Shape(k, New(k)) /\ IsObject(k, New(k))
<1> DEFINE m == New(k)
<1>1. /\ m = [has |-> {}, val |-> k.SharedCtor, unknown |-> <<>>]
      /\ k.SharedCtor = [f \in DOMAIN k.fields |-> Zero(k.fields[f])]
  BY DEF New, HasBits
<1> HIDE DEF m
<1>2. /\ m.has = {} /\ m.unknown = <<>>
      /\ m.val = [f \in DOMAIN k.fields |-> Zero(k.fields[f])]
  BY <1>1
<1>3. DOMAIN k.has \subseteq DOMAIN k.fields
  BY DEF HasBits
<1>4. Shape(k, m)
  BY <1>1, <1>2 DEF Shape
<1>5. IsObject(k, m)
  BY <1>2, <1>3 DEF IsObject
<1> QED
  BY <1>4, <1>5 DEF m

\* set_x
LEMMA SetIsObject ==
  ASSUME NEW k, NEW m, HasBits(k), Shape(k, m), IsObject(k, m),
         NEW f \in DOMAIN k.has, NEW v \in Values(k.fields[f])
  PROVE  /\ Shape(k, SetField(k, m, f, v)) /\ IsObject(k, SetField(k, m, f, v))
         /\ SetField(k, m, f, v).unknown = m.unknown
         /\ SetField(k, m, f, v).val["records"] = m.val["records"]
<1> DEFINE n == SetField(k, m, f, v)
           h == m.has  w == m.val  u == m.unknown
           x == [w EXCEPT ![f] = v]
<1>1. m = [has |-> h, val |-> w, unknown |-> u]
  BY DEF Shape
<1>2. /\ DOMAIN k.has = DOMAIN k.fields \ {"records"}
      /\ \A g \in DOMAIN k.has : k.has[g] = k.has[f] => g = f
  BY DEF HasBits
<1>3. w = [g \in DOMAIN k.fields |-> w[g]]
  BY DEF Shape
<1>4. n = [m EXCEPT !.has = h \cup {k.has[f]}, !.val = x]
  BY <1>1 DEF SetField
<1> HIDE DEF n, h, w, u
<1>5. n = [has |-> h \cup {k.has[f]}, val |-> x, unknown |-> u]
  BY <1>1, <1>4
<1>6. /\ n.has = h \cup {k.has[f]} /\ n.val = x /\ n.unknown = u
      /\ n = [has |-> n.has, val |-> n.val, unknown |-> n.unknown]
  BY <1>5
<1>7. /\ x = [g \in DOMAIN k.fields |-> x[g]]
      /\ x[f] = v /\ \A g : g # f => x[g] = w[g]
  BY <1>2, <1>3
<1> HIDE DEF x
<1>8. Shape(k, n)
  BY <1>6, <1>7 DEF Shape
<1>9. IsObject(k, n)
  <2>1. n.has \subseteq {k.has[g] : g \in DOMAIN k.has}
    BY <1>6 DEF IsObject, h
  <2>2. DOMAIN n.val = DOMAIN k.fields
    BY <1>6, <1>7
  <2>3. ASSUME NEW g \in DOMAIN k.has
        PROVE  IF k.has[g] \in n.has THEN n.val[g] \in Values(k.fields[g])
                                     ELSE n.val[g] = Zero(k.fields[g])
    <3>1. CASE g = f
      BY <1>6, <1>7, <3>1
    <3>2. CASE g # f
      <4>1. (k.has[g] \in n.has <=> k.has[g] \in m.has) /\ n.val[g] = m.val[g]
        BY <1>2, <1>6, <1>7, <3>2 DEF h, w
      <4> QED
        BY <4>1 DEF IsObject
    <3> QED
      BY <3>1, <3>2
  <2> QED
    BY <2>1, <2>2, <2>3 DEF IsObject
<1>10. n.unknown = m.unknown /\ n.val["records"] = m.val["records"]
  BY <1>2, <1>6, <1>7 DEF u, w
<1> QED
  BY <1>8, <1>9, <1>10 DEF n

\* clear_x
LEMMA ClearIsObject ==
  ASSUME NEW k, NEW m, HasBits(k), Shape(k, m), IsObject(k, m),
         NEW f \in DOMAIN k.has
  PROVE  /\ Shape(k, ClearField(k, m, f)) /\ IsObject(k, ClearField(k, m, f))
         /\ ClearField(k, m, f).unknown = m.unknown
         /\ ClearField(k, m, f).val["records"] = m.val["records"]
<1> DEFINE n == ClearField(k, m, f)
           h == m.has  w == m.val  u == m.unknown
           z == Zero(k.fields[f])
           x == [w EXCEPT ![f] = z]
<1>1. m = [has |-> h, val |-> w, unknown |-> u]
  BY DEF Shape
<1>2. /\ DOMAIN k.has = DOMAIN k.fields \ {"records"}
      /\ \A g \in DOMAIN k.has : k.has[g] = k.has[f] => g = f
  BY DEF HasBits
<1>3. w = [g \in DOMAIN k.fields |-> w[g]]
  BY DEF Shape
<1>4. n = [m EXCEPT !.has = h \ {k.has[f]}, !.val = x]
  BY <1>1 DEF ClearField
<1> HIDE DEF n, h, w, u, z
<1>5. n = [has |-> h \ {k.has[f]}, val |-> x, unknown |-> u]
  BY <1>1, <1>4
<1>6. /\ n.has = h \ {k.has[f]} /\ n.val = x /\ n.unknown = u
      /\ n = [has |-> n.has, val |-> n.val, unknown |-> n.unknown]
  BY <1>5
<1>7. /\ x = [g \in DOMAIN k.fields |-> x[g]]
      /\ x[f] = z /\ \A g : g # f => x[g] = w[g]
  BY <1>2, <1>3
<1> HIDE DEF x
<1>8. Shape(k, n)
  BY <1>6, <1>7 DEF Shape
<1>9. IsObject(k, n)
  <2>1. n.has \subseteq {k.has[g] : g \in DOMAIN k.has}
    BY <1>6 DEF IsObject, h
  <2>2. DOMAIN n.val = DOMAIN k.fields
    BY <1>6, <1>7
  <2>3. ASSUME NEW g \in DOMAIN k.has
        PROVE  IF k.has[g] \in n.has THEN n.val[g] \in Values(k.fields[g])
                                     ELSE n.val[g] = Zero(k.fields[g])
    <3>1. CASE g = f
      BY <1>6, <1>7, <3>1 DEF z
    <3>2. CASE g # f
      <4>1. (k.has[g] \in n.has <=> k.has[g] \in m.has) /\ n.val[g] = m.val[g]
        BY <1>2, <1>6, <1>7, <3>2 DEF h, w
      <4> QED
        BY <4>1 DEF IsObject
    <3> QED
      BY <3>1, <3>2
  <2> QED
    BY <2>1, <2>2, <2>3 DEF IsObject
<1>10. n.unknown = m.unknown /\ n.val["records"] = m.val["records"]
  BY <1>2, <1>6, <1>7 DEF u, w
<1> QED
  BY <1>8, <1>9, <1>10 DEF n

\* add_records, clear_records
WithList(m, rs) == [m EXCEPT !.val.records = rs]

\* They leave everything else as it was.
LEMMA ListIsObject ==
  ASSUME NEW k, NEW m, HasBits(k), Shape(k, m), IsObject(k, m),
         HasRecords(m), NEW rs
  PROVE  /\ Shape(k, WithList(m, rs)) /\ IsObject(k, WithList(m, rs))
         /\ WithList(m, rs).unknown = m.unknown
         /\ WithList(m, rs).val["records"] = rs
<1> DEFINE n == WithList(m, rs)
           h == m.has  w == m.val  u == m.unknown
           x == [w EXCEPT !["records"] = rs]
<1>1. m = [has |-> h, val |-> w, unknown |-> u]
  BY DEF Shape
<1>2. DOMAIN k.has = DOMAIN k.fields \ {"records"} /\ "records" \in DOMAIN w
  BY DEF HasBits, HasRecords
<1>3. w = [g \in DOMAIN k.fields |-> w[g]]
  BY DEF Shape
<1>4. n = [m EXCEPT !.val = x]
  BY <1>1 DEF WithList
<1> HIDE DEF n, h, w, u
<1>5. n = [has |-> h, val |-> x, unknown |-> u]
  BY <1>1, <1>4
<1>6. /\ n.has = h /\ n.val = x /\ n.unknown = u
      /\ n = [has |-> n.has, val |-> n.val, unknown |-> n.unknown]
  BY <1>5
<1>7. /\ x = [g \in DOMAIN k.fields |-> x[g]]
      /\ x["records"] = rs /\ \A g : g # "records" => x[g] = w[g]
  BY <1>2, <1>3
<1> HIDE DEF x
<1>8. Shape(k, n)
  BY <1>6, <1>7 DEF Shape
<1>9. \A g \in DOMAIN k.has : n.val[g] = m.val[g]
  BY <1>2, <1>6, <1>7 DEF w
<1>10. n.has = m.has /\ DOMAIN n.val = DOMAIN k.fields
  BY <1>6, <1>7 DEF h
<1>11. IsObject(k, n)
  BY <1>9, <1>10 DEF IsObject
<1> QED
  BY <1>6, <1>7, <1>8, <1>11 DEF n, u

\* A field can be told from one that is not set.
LEMMA MoreThanDefault ==
  \A type \in Scalars : \E v \in Values(type) : v # Zero(type)
BY ExchangeAssumption, SMT

\* A record with all its fields, or with some.
LEMMA FilledIsObject ==
  ASSUME NEW k, HasTables(k), HasBits(k), NEW fs, fs \subseteq DOMAIN k.has
  PROVE  /\ Shape(k, Filled(k, fs)) /\ IsObject(k, Filled(k, fs))
         /\ Filled(k, fs).unknown = <<>>
<1> DEFINE m == Filled(k, fs)
           c(f) == CHOOSE v \in Values(k.fields[f]) : v # Zero(k.fields[f])
<1>1. ASSUME NEW f \in fs PROVE c(f) \in Values(k.fields[f])
  <2>1. k.fields[f] \in Scalars
    BY DEF HasTables
  <2>2. \E v \in Values(k.fields[f]) : v # Zero(k.fields[f])
    BY <2>1, MoreThanDefault
  <2> QED
    BY <2>2
<1>2. /\ DOMAIN k.has = DOMAIN k.fields \ {"records"}
      /\ \A f, g \in DOMAIN k.has : k.has[f] = k.has[g] => f = g
      /\ k.SharedCtor = [f \in DOMAIN k.fields |-> Zero(k.fields[f])]
  BY DEF HasBits
<1>3. m = [has |-> {k.has[f] : f \in fs},
           val |-> [f \in DOMAIN k.fields |->
                      IF f \in fs THEN c(f) ELSE k.SharedCtor[f]],
           unknown |-> <<>>]
  BY DEF Filled
<1> HIDE DEF m, c
<1>4. /\ m.has = {k.has[f] : f \in fs} /\ m.unknown = <<>>
      /\ m.val = [f \in DOMAIN k.fields |->
                    IF f \in fs THEN c(f) ELSE k.SharedCtor[f]]
      /\ m = [has |-> m.has, val |-> m.val, unknown |-> m.unknown]
  BY <1>3
<1>5. Shape(k, m)
  BY <1>4 DEF Shape
<1>6. IsObject(k, m)
  <2>1. /\ m.has \subseteq {k.has[f] : f \in DOMAIN k.has}
        /\ DOMAIN m.val = DOMAIN k.fields
    BY <1>4
  <2>2. ASSUME NEW f \in DOMAIN k.has
        PROVE  IF k.has[f] \in m.has THEN m.val[f] \in Values(k.fields[f])
                                     ELSE m.val[f] = Zero(k.fields[f])
    <3>1. f \in DOMAIN k.fields /\ k.SharedCtor[f] = Zero(k.fields[f])
      BY <1>2
    <3>2. m.val[f] = IF f \in fs THEN c(f) ELSE Zero(k.fields[f])
      BY <1>4, <3>1
    <3>3. k.has[f] \in m.has <=> f \in fs
      BY <1>2, <1>4
    <3> QED
      BY <1>1, <3>2, <3>3
  <2> QED
    BY <2>1, <2>2 DEF IsObject
<1> QED
  BY <1>4, <1>5, <1>6 DEF m

\* The records that the writer adds are objects.
LEMMA RecordsAreObjects ==
  ASSUME NEW k, HasTables(k), HasBits(k), ListLast(k), ~Lists(k),
         NEW x \in Records(k)
  PROVE  Shape(k, x) /\ IsObject(k, x) /\ x.unknown = <<>>
<1>1. DOMAIN k.fields = DOMAIN k.has
  BY DEF HasBits, ListLast
<1>2. PICK fs : fs \subseteq DOMAIN k.has /\ x = Filled(k, fs)
  BY <1>1 DEF Records
<1> QED
  BY <1>2, FilledIsObject

-----------------------------------------------------------------------------
(***************************************************************************)
(* The writer, and the size in the header.                                 *)
(***************************************************************************)

\* What the writer has built, whatever it set and cleared before.
Built ==
  /\ kind \in Kinds
  /\ Shape(W, object) /\ IsObject(W, object)
  /\ object.unknown = <<>> \/ Extra(object.unknown)
  /\ Lists(W) => object.val["records"] \in Seq(Records(W.record))

\* It can be sized, written and read back.
LEMMA BuiltIsMessage ==
  ASSUME Built
  PROVE  Message(W, object) /\ Writable(W, object)
<1>1. Agree(W, R)
  BY SidesAgree DEF Built
<1>2. Object(W, object)
  BY <1>1, ShapeIsObject DEF Agree, Written, Built
<1>3. ASSUME Lists(W)
      PROVE  /\ object.val.records \in Seq(Records(W.record))
             /\ \A x \in Records(W.record) :
                  Object(W.record, x) /\ x.unknown = <<>>
  <2> DEFINE k == W.record
  <2>1. HasTables(k) /\ HasBits(k) /\ ListLast(k) /\ ~Lists(k)
    BY <1>1, <1>3 DEF Agree, Written
  <2>2. object.val.records \in Seq(Records(k))
    BY <1>3 DEF Built
  <2> HIDE DEF k
  <2>3. \A x \in Records(k) : Object(k, x) /\ x.unknown = <<>>
    BY <2>1, RecordsAreObjects, ShapeIsObject
  <2> QED
    BY <2>2, <2>3 DEF k
<1>4. Message(W, object)
  BY <1>2, <1>3 DEF Message, Built
<1> QED
  BY <1>1, <1>4, MessageIsWritable DEF Agree, Written

\* The writer begins with a new object.
LEMMA InitBuilt ==
  ASSUME Init
  PROVE  Built
<1>1. kind \in Kinds /\ object = New(W)
  BY DEF Init
<1>2. HasBits(W) /\ ListLast(W)
  BY <1>1, SidesAgree DEF Agree, Written
<1>3. Shape(W, object) /\ IsObject(W, object)
  BY <1>1, <1>2, NewIsObject
<1>4. object.unknown = <<>>
  BY <1>1 DEF New
<1>5. Lists(W) => object.val["records"] = <<>>
  <2>1. object.val = [f \in DOMAIN W.fields |-> Zero(W.fields[f])]
    BY <1>1, <1>2 DEF New, HasBits
  <2>2. Lists(W) => /\ "records" \in DOMAIN W.fields
                    /\ W.fields["records"] = "records"
    BY <1>2 DEF HasBits, ListLast
  <2> QED
    BY <2>1, <2>2 DEF Zero
<1>6. <<>> \in Seq(Records(W.record))
  OBVIOUS
<1> QED
  BY <1>1, <1>3, <1>4, <1>5, <1>6 DEF Built

\* What a step has to show to keep it.
LEMMA BuiltOn ==
  ASSUME Built, kind' = kind, Shape(W, object'), IsObject(W, object'),
         object'.unknown = <<>> \/ Extra(object'.unknown),
         Lists(W) => object'.val["records"] \in Seq(Records(W.record))
  PROVE  Built'
<1>1. W' = W
  BY DEF W
<1>2. kind' \in Kinds
  BY DEF Built
<1> QED
  BY <1>1, <1>2 DEF Built

\* The fields with a has bit are those that hold no list.
LEMMA FieldsWithBits ==
  ASSUME Built, NEW f \in DOMAIN W.fields, W.fields[f] # "records"
  PROVE  f \in DOMAIN W.has
<1>1. HasBits(W)
  BY SidesAgree DEF Agree, Written, Built
<1> QED
  BY <1>1 DEF HasBits

\* The fields of a newer bike.proto are fields that are not known.
LEMMA ExtrasAre ==
  ASSUME NEW x \in Extras
  PROVE  Extra(WriteTag(x.number, x.type) \o Payload(x.type, x.value))
<1>1. /\ x.number \in Nat /\ 16 <= x.number /\ x.number <= 268435455
      /\ x.type \in Scalars /\ x.value \in Values(x.type)
  BY ExchangeAssumption, SMT
<1>2. x.number \in FieldNumbers /\ x.number >= 16
  BY <1>1, SMT DEF FieldNumbers
<1>3. x.type \in Scalars /\ x.value \in Readable(x.type)
  <2>1. x.type \in Scalars /\ x.value \in Values(x.type)
    BY <1>1, SMT
  <2> QED
    BY ONLY <2>1, ValuesReadable
<1> QED
  BY ONLY <1>2, <1>3 DEF Extra

\* Each setter and each clear keeps it.
LEMMA WriterKeepsBuilt ==
  ASSUME Built, WriterNext
  PROVE  Built'
<1>1. /\ HasBits(W) /\ ListLast(W) /\ Shape(W, object) /\ IsObject(W, object)
      /\ object.unknown = <<>> \/ Extra(object.unknown)
      /\ Lists(W) => object.val["records"] \in Seq(Records(W.record))
  BY SidesAgree DEF Agree, Written, Built
<1>2. ASSUME NEW f \in DOMAIN W.fields, Set(f) \/ Unset(f)
      PROVE  Built'
  <2>1. /\ f \in DOMAIN W.has /\ kind' = kind
        /\ \/ \E v \in Values(W.fields[f]) : object' = SetField(W, object, f, v)
           \/ object' = ClearField(W, object, f)
    BY <1>2, FieldsWithBits DEF Set, Unset, Fill
  <2>2. /\ Shape(W, object') /\ IsObject(W, object')
        /\ object'.unknown = object.unknown
        /\ object'.val["records"] = object.val["records"]
    <3>1. CASE \E v \in Values(W.fields[f]) :
                 object' = SetField(W, object, f, v)
      BY <1>1, <2>1, <3>1, SetIsObject
    <3>2. CASE object' = ClearField(W, object, f)
      BY <1>1, <2>1, <3>2, ClearIsObject
    <3> QED
      BY <2>1, <3>1, <3>2
  <2> QED
    BY <1>1, <2>1, <2>2, BuiltOn
<1>3. CASE Add
  <2>1. PICK r \in Records(W.record) : object' = AddRecord(object, r)
    BY <1>3 DEF Add, Fill
  <2> DEFINE rs == object.val["records"]
             longer == Append(rs, r)
  <2>2. kind' = kind /\ HasRecords(object)
    BY <1>3 DEF Add, Fill
  <2>3. object' = WithList(object, longer)
    <3>1. "records" \in DOMAIN object.val
      BY <2>2 DEF HasRecords
    <3> QED
      BY <1>1, <2>1, <3>1 DEF AddRecord, WithList, Shape
  <2>4. /\ Shape(W, object') /\ IsObject(W, object')
        /\ object'.unknown = object.unknown
        /\ object'.val["records"] = longer
    <3> HIDE DEF longer
    <3> QED
      BY <1>1, <2>2, <2>3, ListIsObject
  <2>5. Lists(W) => longer \in Seq(Records(W.record))
    BY <1>1
  <2> QED
    BY <1>1, <2>2, <2>4, <2>5, BuiltOn
<1>4. CASE Drop
  <2>1. /\ kind' = kind /\ HasRecords(object)
        /\ object' = WithList(object, <<>>)
    BY <1>4 DEF Drop, Fill, ClearRecords, WithList
  <2>2. /\ Shape(W, object') /\ IsObject(W, object')
        /\ object'.unknown = object.unknown
        /\ object'.val["records"] = <<>>
    BY <1>1, <2>1, ListIsObject
  <2>3. <<>> \in Seq(Records(W.record))
    OBVIOUS
  <2> QED
    BY <1>1, <2>1, <2>2, <2>3, BuiltOn
<1>5. CASE Extend
  <2>1. PICK x \in Extras :
               object' = [object EXCEPT !.unknown =
                            WriteTag(x.number, x.type) \o Payload(x.type, x.value)]
    BY <1>5 DEF Extend, Fill
  <2> DEFINE s == WriteTag(x.number, x.type) \o Payload(x.type, x.value)
             h == object.has  v == object.val
  <2>2. Extra(s)
    BY ExtrasAre
  <2>3. kind' = kind
    BY <1>5 DEF Extend, Fill
  <2>4. object = [has |-> h, val |-> v, unknown |-> object.unknown]
    BY <1>1 DEF Shape
  <2>5. object' = [object EXCEPT !.unknown = s]
    BY <2>1
  <2> HIDE DEF s, h, v
  <2>6. object' = [has |-> h, val |-> v, unknown |-> s]
    BY <2>4, <2>5
  <2>7. object'.has = h /\ object'.val = v /\ object'.unknown = s
    BY <2>6
  <2>8. Shape(W, object') /\ IsObject(W, object')
    BY <1>1, <2>6, <2>7 DEF Shape, IsObject, h, v
  <2> QED
    BY <1>1, <2>2, <2>3, <2>7, <2>8, BuiltOn DEF v
<1>6. CASE Send
  BY <1>1, <1>6, BuiltOn DEF Send
<1> QED
  BY <1>2, <1>3, <1>4, <1>5, <1>6 DEF WriterNext

\* The writer always holds what it has built.
LEMMA BuiltInvariant == Spec => []Built
<1>1. Built /\ [Next]_vars => Built'
  <2> SUFFICES ASSUME Built, [Next]_vars PROVE Built'
    OBVIOUS
  <2>1. CASE WriterNext
    BY <2>1, WriterKeepsBuilt
  <2>2. CASE ReaderNext \/ UNCHANGED vars
    <3>1. kind' = kind /\ object' = object
      BY <2>2 DEF ReaderNext, vars, sending
    <3> QED
      BY <3>1, BuiltOn DEF Built
  <2> QED
    BY <2>1, <2>2 DEF Next
<1> QED
  BY <1>1, InitBuilt, PTL DEF Spec

\* What was sent is what was built.
Sent ==
  phase # "fill" =>
    /\ wire = SerializeWithCachedSizes(W, object)
    /\ size = ByteSizeLong(W, object)
    /\ lost \in Nat /\ lost <= size

\* Nothing changes what was sent.
LEMMA SentInvariant == Spec => []Sent
<1>1. Init => Sent
  BY DEF Init, Sent
<1>2. Sent /\ [Next]_vars => Sent'
  <2> SUFFICES ASSUME Sent, [Next]_vars PROVE Sent'
    OBVIOUS
  <2>1. kind' = kind => W' = W
    BY DEF W
  <2>2. CASE WriterNext
    <3>1. CASE Send
      <4>1. /\ kind' = kind /\ object' = object
            /\ size' = ByteSizeLong(W, object)
            /\ wire' = SerializeWithCachedSizes(W, object)
            /\ \E n \in Lost : n <= size' /\ lost' = n
        BY <3>1 DEF Send
      <4>2. lost' \in Nat /\ lost' <= size'
        <5>1. Lost \subseteq Nat
          BY ExchangeAssumption, SMT
        <5> QED
          BY <4>1, <5>1
      <4> QED
        BY <2>1, <4>1, <4>2 DEF Sent
    <3>2. CASE ~Send
      BY <2>2, <3>2 DEF WriterNext, Set, Unset, Add, Drop, Extend, Fill, Sent
    <3> QED
      BY <3>1, <3>2
  <2>3. CASE ReaderNext
    BY <2>1, <2>3 DEF ReaderNext, sending, Sent
  <2>4. CASE UNCHANGED vars
    BY <2>1, <2>4 DEF vars, sending, Sent
  <2> QED
    BY <2>2, <2>3, <2>4 DEF Next
<1> QED
  BY <1>1, <1>2, PTL DEF Spec

\* The length in the header is the number of bytes that were serialised, in
\* every message the writer can build (client.cpp:91-96,
\* DispatchMsgService.cpp:236-246).
THEOREM SizeCorrect == Spec => []SizeMatches
<1>1. Built /\ Sent => SizeMatches
  BY BuiltIsMessage, SizeIsLength DEF Sent, SizeMatches
<1> QED
  BY <1>1, BuiltInvariant, SentInvariant, PTL

-----------------------------------------------------------------------------
(***************************************************************************)
(* A turn of the reader's loop, at a message or at one of its records.     *)
(***************************************************************************)

\* The turn reads the next part of the message m whose bytes begin at p.
GoesOn(k, m, p) ==
  \E msg, y :
    /\ y \in Nat /\ pos < y /\ y <= Top.end
    /\ ReadOn(msg, y) /\ Reached(k, m, wire, p, y, msg)

\* The turn begins the next record of its list.
Descends(k, m, p) ==
  /\ Lists(k)
  /\ \E i \in 1 .. Len(ListOf(k, m)) : \E s, y :
       LET d == ListOf(k, m)[i]
       IN  /\ s \in Nat /\ y \in Nat /\ pos < s /\ s <= y /\ s <= Top.end
           /\ y <= EndOf(k, m, p) /\ y = s + Len(WriteLeaf(k.record, d))
           /\ Holds(wire, s, WriteLeaf(k.record, d))
           /\ Reached(k, m, wire, p, y, AddRecord(Top.msg, d))
           /\ pos' = s
           /\ frames' = Append(frames, [msg |-> New(R.record),
                                        end |-> Min({y, Top.end})])
           /\ UNCHANGED <<phase, verdict>>

\* The turn finds no tag.
Ends == NextTag = {} /\ (EndRecord \/ EndMessage)

\* What a turn does with a field.
LEMMA TurnAtField ==
  ASSUME ReaderNext, pos \in Nat, Top.end \in Int, NEW f, NEW v, NEW y \in Nat,
         pos < y, FindsField(K, wire, pos, Top.end, f, v, y)
  PROVE  \/ y <= Top.end /\ ReadOn(SetField(K, Top.msg, f, v), y)
         \/ Top.end < y /\ (Return(FALSE) \/ Ends)
<1> DEFINE e == Top.end
<1>1. PICK tag :
        /\ NextTag = IF pos + 1 <= e THEN {[tag |-> tag, next |-> pos + 1]}
                                     ELSE {}
        /\ Cases(K, tag) = {f} /\ K.read[f].type # "records"
        /\ Read(K.read[f].type, wire, pos + 1, e) =
             IF y <= e THEN {[value |-> v, next |-> y]} ELSE {}
  BY DEF FindsField, NextTag
<1> DEFINE t == [tag |-> tag, next |-> pos + 1]
<1>2. t.next = pos + 1 /\ Target(t) = {f}
  BY <1>1 DEF Target
<1>3. e \in Int
  OBVIOUS
<1>4. CASE pos + 1 <= e
  <2>1. NextTag = {t}
    BY <1>1, <1>4
  <2> HIDE DEF t, e
  <2>2. ReadField(t) \/ ReadRecord(t) \/ SkipUnknown(t) \/ ReadFails(t)
    BY <2>1 DEF ReaderNext
  <2>3. CASE ReadField(t)
    <3>1. \E r \in Read(K.read[f].type, wire, pos + 1, e) :
            ReadOn(SetField(K, Top.msg, f, r.value), r.next)
      BY <1>2, <2>3 DEF ReadField, e
    <3>2. y <= e
      BY <1>1, <3>1
    <3>3. Read(K.read[f].type, wire, pos + 1, e) = {[value |-> v, next |-> y]}
      BY <1>1, <3>2
    <3>4. ReadOn(SetField(K, Top.msg, f, v), y)
      BY <3>1, <3>3
    <3> QED
      BY <3>2, <3>4 DEF e
  <2>4. ~ReadRecord(t)
    BY <1>1, <1>2 DEF ReadRecord
  <2>5. ~SkipUnknown(t)
    BY <1>2 DEF SkipUnknown
  <2>6. CASE ReadFails(t)
    <3>1. Return(FALSE) /\ Read(K.read[f].type, wire, pos + 1, e) = {}
      BY <1>1, <1>2, <2>6 DEF ReadFails, e
    <3>2. e < y
      <4>1. ~(y <= e)
        BY <1>1, <3>1
      <4> QED
        BY <1>3, <4>1
    <3> QED
      BY <3>1, <3>2 DEF e
  <2> QED
    BY <2>2, <2>3, <2>4, <2>5, <2>6
<1>5. CASE ~(pos + 1 <= e)
  <2>1. NextTag = {}
    BY <1>1, <1>5
  <2>2. Ends
    BY <2>1 DEF ReaderNext, Ends
  <2>3. e < y
    BY <1>5
  <2> QED
    BY <2>2, <2>3
<1> QED
  BY <1>4, <1>5

\* What a turn does with a record.
LEMMA TurnAtRecord ==
  ASSUME ReaderNext, pos \in Nat, Top.end \in Int, NEW s \in Nat, NEW y \in Nat,
         pos < s, s <= y, FindsRecord(K, wire, pos, Top.end, s, y)
  PROVE  \/ /\ s <= Top.end /\ pos' = s
            /\ frames' = Append(frames, [msg |-> New(R.record),
                                         end |-> Min({y, Top.end})])
            /\ UNCHANGED <<phase, verdict>>
         \/ Top.end < y /\ (Return(FALSE) \/ Ends)
<1> DEFINE e == Top.end
<1>1. PICK tag, n :
        /\ NextTag = IF pos + 1 <= e THEN {[tag |-> tag, next |-> pos + 1]}
                                     ELSE {}
        /\ Cases(K, tag) = {"records"} /\ K.read["records"].type = "records"
        /\ ReadVarint(wire, pos + 1, e) = IF s <= e THEN {n} ELSE {}
        /\ n \in Nat /\ s = pos + 1 + n /\ s + VarintValue(wire, pos + 1, n) = y
  BY DEF FindsRecord, NextTag
<1> DEFINE t == [tag |-> tag, next |-> pos + 1]
<1>2. t.next = pos + 1 /\ Target(t) = {"records"}
  BY <1>1 DEF Target
<1>3. CASE pos + 1 <= e
  <2>1. NextTag = {t}
    BY <1>1, <1>3
  <2> HIDE DEF t, e
  <2>2. ReadField(t) \/ ReadRecord(t) \/ SkipUnknown(t) \/ ReadFails(t)
    BY <2>1 DEF ReaderNext
  <2>3. ~ReadField(t)
    BY <1>1, <1>2 DEF ReadField
  <2>4. CASE ReadRecord(t)
    <3>1. /\ \E l \in ReadVarint(wire, pos + 1, e) :
               /\ pos' = pos + 1 + l
               /\ frames' = Append(frames,
                    [msg |-> New(R.record),
                     end |-> PushLimit(pos', VarintValue(wire, pos + 1, l), e)])
          /\ UNCHANGED <<phase, verdict>>
      BY <1>2, <2>4 DEF ReadRecord, e
    <3>2. s <= e
      BY <1>1, <3>1
    <3>3. ReadVarint(wire, pos + 1, e) = {n}
      BY <1>1, <3>2
    <3>4. /\ pos' = s
          /\ frames' = Append(frames,
               [msg |-> New(R.record),
                end |-> PushLimit(s, VarintValue(wire, pos + 1, n), e)])
      BY <1>1, <3>1, <3>3
    <3>5. PushLimit(s, VarintValue(wire, pos + 1, n), e) = Min({y, e})
      BY <1>1 DEF PushLimit
    <3> QED
      BY <3>1, <3>2, <3>4, <3>5 DEF e
  <2>5. ~SkipUnknown(t)
    BY <1>2 DEF SkipUnknown
  <2>6. CASE ReadFails(t)
    <3>1. Return(FALSE) /\ ReadVarint(wire, pos + 1, e) = {}
      BY <1>1, <1>2, <2>6 DEF ReadFails, e
    <3>2. ~(s <= e)
      BY <1>1, <3>1
    <3>3. e < y
      BY <3>2 DEF e
    <3> QED
      BY <3>1, <3>3 DEF e
  <2> QED
    BY <2>2, <2>3, <2>4, <2>5, <2>6
<1>4. CASE ~(pos + 1 <= e)
  <2>1. NextTag = {}
    BY <1>1, <1>4
  <2>2. Ends
    BY <2>1 DEF ReaderNext, Ends
  <2>3. e < y
    BY <1>4
  <2> QED
    BY <2>2, <2>3
<1> QED
  BY <1>3, <1>4

\* What a turn does with a field that its class does not have.
LEMMA TurnAtUnknown ==
  ASSUME ReaderNext, pos \in Nat, Top.end \in Int, NEW y \in Nat,
         pos < y, FindsUnknown(K, wire, pos, Top.end, y)
  PROVE  \/ /\ y <= Top.end
            /\ ReadOn([Top.msg EXCEPT !.unknown =
                         @ \o SubSeq(wire, pos + 1, y)], y)
         \/ Top.end < y /\ (Return(FALSE) \/ Ends)
<1> DEFINE e == Top.end
<1>1. PICK tag, next :
        /\ next \in Nat /\ pos < next /\ next <= y
        /\ NextTag = IF next <= e THEN {[tag |-> tag, next |-> next]} ELSE {}
        /\ Cases(K, tag) = {}
        /\ SkipField(tag, wire, next, e) = IF y <= e THEN {y} ELSE {}
  BY DEF FindsUnknown, NextTag
<1> DEFINE t == [tag |-> tag, next |-> next]
<1>2. t.next = next /\ t.tag = tag /\ Target(t) = {}
  BY <1>1 DEF Target
<1>3. e \in Int
  OBVIOUS
<1>4. CASE next <= e
  <2>1. NextTag = {t}
    BY <1>1, <1>4
  <2> HIDE DEF t, e
  <2>2. ReadField(t) \/ ReadRecord(t) \/ SkipUnknown(t) \/ ReadFails(t)
    BY <2>1 DEF ReaderNext
  <2>3. ~ReadField(t) /\ ~ReadRecord(t)
    BY <1>2 DEF ReadField, ReadRecord
  <2>4. CASE SkipUnknown(t)
    <3>1. \E q \in SkipField(tag, wire, next, e) :
            ReadOn([Top.msg EXCEPT !.unknown = @ \o SubSeq(wire, pos + 1, q)], q)
      BY <1>2, <2>4 DEF SkipUnknown, e
    <3>2. y <= e
      BY <1>1, <3>1
    <3>3. SkipField(tag, wire, next, e) = {y}
      BY <1>1, <3>2
    <3> QED
      BY <3>1, <3>2, <3>3 DEF e
  <2>5. CASE ReadFails(t)
    <3>1. Return(FALSE) /\ SkipField(tag, wire, next, e) = {}
      BY <1>2, <2>5 DEF ReadFails, e
    <3>2. e < y
      <4>1. ~(y <= e)
        BY <1>1, <3>1
      <4> QED
        BY <1>3, <4>1
    <3> QED
      BY <3>1, <3>2 DEF e
  <2> QED
    BY <2>2, <2>3, <2>4, <2>5
<1>5. CASE ~(next <= e)
  <2>1. NextTag = {}
    BY <1>1, <1>5
  <2>2. Ends
    BY <2>1 DEF ReaderNext, Ends
  <2>3. e < y
    BY <1>1, <1>5
  <2> QED
    BY <2>2, <2>3
<1> QED
  BY <1>4, <1>5

\* At the limit there is no tag.
LEMMA TurnAtLimit ==
  ASSUME ReaderNext, pos \in Nat, Top.end = pos
  PROVE  Ends
<1>1. ReadVarint(wire, pos, pos) = {}
  BY DEF ReadVarint
<1>2. NextTag = {}
  BY <1>1 DEF NextTag, ReadTag
<1> QED
  BY <1>2 DEF ReaderNext, Ends

\* A turn reads the next part, or it finds that one is not there.
LEMMA Turn ==
  ASSUME ReaderNext, NEW k, NEW m, Exchanged(k, m), Reads(K, k),
         wire \in Seq(Byte), NEW p \in Nat, Top.end \in 0 .. Len(wire),
         EndOf(k, m, p) <= Len(wire), EndOf(k, m, p) \in Nat,
         Reached(k, m, wire, p, pos, Top.msg), pos <= Top.end,
         Top.end <= EndOf(k, m, p)
  PROVE  \/ GoesOn(k, m, p) \/ Descends(k, m, p)
         \/ Return(FALSE) /\ Top.end < EndOf(k, m, p)
         \/ Ends /\ (pos = EndOf(k, m, p) \/ Top.end < EndOf(k, m, p))
<1> DEFINE e == Top.end
           z == EndOf(k, m, p)
           msg == Top.msg
<1>1. pos \in Nat /\ pos <= z /\ e \in Int /\ e \in Nat /\ z \in Nat
  BY ReachedWithin
<1>2. CASE pos = z
  <2>1. e = pos
    <3>1. pos <= e /\ e <= z
      OBVIOUS
    <3> HIDE DEF e, z
    <3> QED
      BY <1>1, <1>2, <3>1
  <2> QED
    BY <1>1, <1>2, <2>1, TurnAtLimit
<1>3. CASE pos # z
  <2>1. \/ FieldTurn(k, m, K, wire, p, pos, e, msg)
        \/ RecordTurn(k, m, K, wire, p, pos, e, msg)
        \/ UnknownTurn(k, m, K, wire, p, pos, e, msg)
    BY <1>3, ReachedTurn
  <2>2. CASE FieldTurn(k, m, K, wire, p, pos, e, msg)
    <3>1. PICK f, v, y :
            /\ FindsField(K, wire, pos, e, f, v, y)
            /\ y \in Nat /\ pos < y /\ y <= z
            /\ Reached(k, m, wire, p, y, SetField(K, msg, f, v))
      BY <2>2 DEF FieldTurn
    <3>2. \/ y <= e /\ ReadOn(SetField(K, msg, f, v), y)
          \/ e < y /\ (Return(FALSE) \/ Ends)
      BY <1>1, <3>1, TurnAtField
    <3>3. CASE y <= e /\ ReadOn(SetField(K, msg, f, v), y)
      <4> DEFINE g == SetField(K, msg, f, v)
      <4>1. y <= e /\ ReadOn(g, y) /\ Reached(k, m, wire, p, y, g)
        BY <3>1, <3>3
      <4> HIDE DEF g
      <4> QED
        BY <3>1, <4>1 DEF GoesOn
    <3>4. CASE e < y /\ (Return(FALSE) \/ Ends)
      <4>1. e < z
        <5> HIDE DEF e, z
        <5> QED
          BY <1>1, <3>1, <3>4
      <4> QED
        BY <3>4, <4>1
    <3> QED
      BY <3>2, <3>3, <3>4
  <2>3. CASE RecordTurn(k, m, K, wire, p, pos, e, msg)
    <3>1. PICK i \in 1 .. Len(ListOf(k, m)) : \E s, y :
            /\ FindsRecord(K, wire, pos, e, s, y)
            /\ Holds(wire, s, WriteLeaf(k.record, ListOf(k, m)[i]))
            /\ y = s + Len(WriteLeaf(k.record, ListOf(k, m)[i]))
            /\ s \in Nat /\ y \in Nat /\ pos < s /\ s <= y /\ y <= z
            /\ Reached(k, m, wire, p, y, AddRecord(msg, ListOf(k, m)[i]))
      BY <2>3 DEF RecordTurn
    <3>2. PICK s, y :
            /\ FindsRecord(K, wire, pos, e, s, y)
            /\ Holds(wire, s, WriteLeaf(k.record, ListOf(k, m)[i]))
            /\ y = s + Len(WriteLeaf(k.record, ListOf(k, m)[i]))
            /\ s \in Nat /\ y \in Nat /\ pos < s /\ s <= y /\ y <= z
            /\ Reached(k, m, wire, p, y, AddRecord(msg, ListOf(k, m)[i]))
      BY <3>1
    <3>3. \/ /\ s <= e /\ pos' = s
             /\ frames' = Append(frames, [msg |-> New(R.record),
                                          end |-> Min({y, e})])
             /\ UNCHANGED <<phase, verdict>>
          \/ e < y /\ (Return(FALSE) \/ Ends)
      BY <1>1, <3>2, TurnAtRecord
    <3>4. CASE /\ s <= e /\ pos' = s
               /\ frames' = Append(frames, [msg |-> New(R.record),
                                            end |-> Min({y, e})])
               /\ UNCHANGED <<phase, verdict>>
      <4>1. Lists(k)
        BY <2>3 DEF RecordTurn
      <4> QED
        BY <3>2, <3>4, <4>1 DEF Descends
    <3>5. CASE e < y /\ (Return(FALSE) \/ Ends)
      <4>1. e < z
        <5> HIDE DEF e, z
        <5> QED
          BY <1>1, <3>2, <3>5
      <4> QED
        BY <3>5, <4>1
    <3> QED
      BY <3>3, <3>4, <3>5
  <2>4. CASE UnknownTurn(k, m, K, wire, p, pos, e, msg)
    <3>1. PICK y :
            /\ FindsUnknown(K, wire, pos, e, y)
            /\ y \in Nat /\ pos < y /\ y <= z
            /\ Reached(k, m, wire, p, y,
                       [msg EXCEPT !.unknown = @ \o SubSeq(wire, pos + 1, y)])
      BY <2>4 DEF UnknownTurn
    <3> DEFINE g == [msg EXCEPT !.unknown = @ \o SubSeq(wire, pos + 1, y)]
    <3>2. \/ y <= e /\ ReadOn(g, y)
          \/ e < y /\ (Return(FALSE) \/ Ends)
      BY <1>1, <3>1, TurnAtUnknown
    <3>3. CASE y <= e /\ ReadOn(g, y)
      <4>1. y <= e /\ ReadOn(g, y) /\ Reached(k, m, wire, p, y, g)
        BY <3>1, <3>3
      <4> HIDE DEF g
      <4> QED
        BY <3>1, <4>1 DEF GoesOn
    <3>4. CASE e < y /\ (Return(FALSE) \/ Ends)
      <4>1. e < z
        <5> HIDE DEF e, z, g
        <5> QED
          BY <1>1, <3>1, <3>4
      <4> QED
        BY <3>4, <4>1
    <3> QED
      BY <3>2, <3>3, <3>4
  <2> QED
    BY <2>1, <2>2, <2>3, <2>4
<1> QED
  BY <1>2, <1>3

-----------------------------------------------------------------------------
(***************************************************************************)
(* Where the reader is.                                                    *)
(***************************************************************************)

\* msg has some of what m has, and nothing else.
Partly(k, m, msg) ==
  /\ msg.has \subseteq m.has
  /\ \A f \in DOMAIN k.has :
       k.has[f] \in msg.has => msg.val[f] = m.val[f]
  /\ Lists(k) => \E l \in 0 .. Len(ListOf(k, m)) :
                   msg.val["records"] = SubSeq(ListOf(k, m), 1, l)
  /\ msg.unknown \in {<<>>, m.unknown}

\* What has been read of an object is an object with some of it.
LEMMA ReachedIsObject ==
  ASSUME NEW k, NEW m, NEW r, Exchanged(k, m), Reads(r, k), IsObject(k, m),
         NEW b, NEW p, NEW x, NEW msg, Reached(k, m, b, p, x, msg)
  PROVE  Shape(r, msg) /\ IsObject(r, msg) /\ Partly(k, m, msg)
<1>1. PICK i \in 0 .. PartCount(k, m) : msg = Partial(k, m, i)
  BY DEF Reached
<1> DEFINE d == Done(k, i)
           n == Len(ListOf(k, m))
           l == ListDone(k, m, i)
           h == {k.has[f] : f \in d} \cap m.has
           v == [f \in DOMAIN k.fields |->
                   IF f = "records" THEN SubSeq(ListOf(k, m), 1, l)
                   ELSE IF f \in d THEN m.val[f] ELSE Zero(k.fields[f])]
           u == IF i = PartCount(k, m) THEN m.unknown ELSE <<>>
<1>2. msg = [has |-> h, val |-> v, unknown |-> u]
  BY <1>1 DEF Partial
<1>3. /\ DOMAIN k.has = DOMAIN k.fields \ {"records"}
      /\ \A f, g \in DOMAIN k.has : k.has[f] = k.has[g] => f = g
      /\ Lists(k) => "records" \in DOMAIN k.fields
  BY ExchangedIsWritable DEF HasBits, ListLast
<1>4. d \subseteq DOMAIN k.has
  BY WrittenFields DEF Done, Exchanged
<1>5. l \in 0 .. n
  <2> DEFINE q == FieldCount(k)
  <2>1. n \in Nat /\ q \in Nat /\ i \in 0 .. q + n + 1
    BY ExchangedIsWritable DEF PartCount
  <2>2. l = IF i <= q THEN 0 ELSE IF i - q <= n THEN i - q ELSE n
    BY DEF ListDone
  <2> HIDE DEF q, n, l
  <2> QED
    BY <2>1, <2>2
<1> HIDE DEF d, h, u, l, n
<1>6. \A f \in DOMAIN k.has :
        /\ v[f] = IF f \in d THEN m.val[f] ELSE Zero(k.fields[f])
        /\ k.has[f] \in h <=> f \in d /\ k.has[f] \in m.has
  BY <1>3, <1>4 DEF h
<1>7. DOMAIN v = DOMAIN k.fields /\ v = [f \in DOMAIN k.fields |-> v[f]]
  OBVIOUS
<1>8. Lists(k) => v["records"] = SubSeq(ListOf(k, m), 1, l)
  BY <1>3
<1> HIDE DEF v
<1>9. /\ msg.has = h /\ msg.val = v /\ msg.unknown = u
      /\ msg = [has |-> msg.has, val |-> msg.val, unknown |-> msg.unknown]
  BY <1>2
<1>10. r.fields = k.fields /\ r.has = k.has
  BY DEF Reads
<1>11. Shape(r, msg)
  BY <1>7, <1>9, <1>10 DEF Shape
<1>12. h \subseteq {k.has[f] : f \in DOMAIN k.has} /\ h \subseteq m.has
  BY <1>4 DEF h
<1>13. \A f \in DOMAIN k.has :
         IF k.has[f] \in m.has THEN m.val[f] \in Values(k.fields[f])
                               ELSE m.val[f] = Zero(k.fields[f])
  BY DEF IsObject
<1>14. IsObject(r, msg)
  <2>1. \A f \in DOMAIN k.has :
          IF k.has[f] \in h THEN v[f] \in Values(k.fields[f])
                            ELSE v[f] = Zero(k.fields[f])
    BY <1>6, <1>13
  <2> QED
    BY <1>7, <1>9, <1>10, <1>12, <2>1 DEF IsObject
<1>15. Partly(k, m, msg)
  <2>1. \A f \in DOMAIN k.has : k.has[f] \in h => v[f] = m.val[f]
    BY <1>6
  <2>2. u \in {<<>>, m.unknown}
    BY DEF u
  <2> QED
    BY <1>5, <1>8, <1>9, <1>12, <2>1, <2>2 DEF Partly, n
<1> QED
  BY <1>11, <1>14, <1>15

\* The message of this exchange, and its records.
LEMMA BuiltIsExchanged ==
  ASSUME Built
  PROVE  /\ Exchanged(W, object) /\ Reads(R, W) /\ IsObject(W, object)
         /\ HasBits(R)
<1>1. Agree(W, R)
  BY SidesAgree DEF Built
<1>2. Exchanged(W, object)
  BY <1>1, BuiltIsMessage DEF Exchanged, Agree, Written
<1>3. HasBits(W) /\ Reads(R, W)
  BY <1>1 DEF Agree, Written
<1>4. HasBits(R)
  BY <1>3 DEF HasBits, Reads
<1> QED
  BY <1>2, <1>3, <1>4 DEF Built

\* A record is a message of its own class, without records.
LEMMA RecordIsBuilt ==
  ASSUME Built, Lists(W), NEW i \in 1 .. Len(ListOf(W, object))
  PROVE  LET d == ListOf(W, object)[i]
         IN  /\ Exchanged(W.record, d) /\ d.unknown = <<>>
             /\ Reads(R.record, W.record) /\ IsObject(W.record, d)
             /\ ~Lists(W.record) /\ R.record.needs = Bits(W.record)
             /\ WriteLeaf(W.record, d) = SerializeWithCachedSizes(W.record, d)
<1> DEFINE d == ListOf(W, object)[i]
           k == W.record
<1>1. Agree(W, R)
  BY SidesAgree DEF Built
<1>2. Exchanged(k, d) /\ d.unknown = <<>>
  BY BuiltIsExchanged, RecordIsExchanged
<1>3. Reads(R.record, k) /\ ~Lists(k) /\ R.record.needs = Bits(R.record)
  BY <1>1 DEF Agree
<1>4. R.record.needs = Bits(k)
  BY <1>3 DEF Reads, Bits
<1>5. d \in Records(k)
  <2>1. ListOf(W, object) \in Seq(Records(k))
    BY DEF Built, ListOf
  <2> QED
    BY <2>1, ElementOfSeq
<1>6. IsObject(k, d)
  <2>1. HasTables(k) /\ HasBits(k) /\ ListLast(k)
    BY <1>1 DEF Agree, Written
  <2> HIDE DEF d, k
  <2> QED
    BY <1>3, <1>5, <2>1, RecordsAreObjects
<1>7. WriteLeaf(k, d) = SerializeWithCachedSizes(k, d)
  BY <1>3, LeafIsSerialized
<1> QED
  BY <1>2, <1>3, <1>4, <1>6, <1>7

\* The bytes that the header announces.
Limit == size - lost

Frame(msg, end) == [msg |-> msg, end |-> end]

\* The reader is between two fields of the message,
AtMessage ==
  \E msg :
    /\ frames = <<Frame(msg, Limit)>> /\ pos <= Limit
    /\ Reached(W, object, wire, 0, pos, msg)

\* or between two fields of a record, that ends at y,
AtRecord ==
  /\ Lists(W)
  /\ \E i \in 1 .. Len(ListOf(W, object)) : \E msg, part, x, s, y :
       LET d == ListOf(W, object)[i]
       IN  /\ frames = <<Frame(msg, Limit), Frame(part, Min({y, Limit}))>>
           /\ s \in Nat /\ y \in Nat /\ y <= size
           /\ y = EndOf(W.record, d, s) /\ pos <= Min({y, Limit})
           /\ Reached(W, object, wire, 0, x, msg)
           /\ Reached(W, object, wire, 0, y, AddRecord(msg, d))
           /\ Reached(W.record, d, wire, s, pos, part)

\* or at the limit, behind a record of which the end was cut off.
CutOff ==
  \E msg :
    /\ frames = <<Frame(msg, Limit)>> /\ pos = Limit /\ lost > 0
    /\ IsObject(R, msg) /\ ~IsInitialized(R, msg)

\* The bytes on the wire, and how many of them are announced.
LEMMA SentIsHeld ==
  ASSUME Built, Sent, phase # "fill"
  PROVE  /\ wire \in Seq(Byte) /\ Len(wire) = size /\ size \in Nat
         /\ EndOf(W, object, 0) = size /\ Limit \in 0 .. size
         /\ lost \in Nat /\ Limit = size - lost
         /\ Holds(wire, 0, SerializeWithCachedSizes(W, object))
<1>1. /\ wire = SerializeWithCachedSizes(W, object)
      /\ size = ByteSizeLong(W, object) /\ lost \in Nat /\ lost <= size
  BY DEF Sent
<1>2. wire \in Seq(Byte) /\ Len(wire) = size
  BY <1>1, BuiltIsMessage, SizeIsLength
<1>3. size \in Nat
  BY <1>2
<1>4. EndOf(W, object, 0) = size
  BY <1>1, <1>2, <1>3 DEF EndOf
<1>5. Limit \in 0 .. size
  BY <1>1, <1>3 DEF Limit
<1>6. Holds(wire, 0, wire)
  <2>1. \A i \in 1 .. Len(wire) : 0 + i = i
    OBVIOUS
  <2> QED
    BY <2>1 DEF Holds
<1> QED
  BY <1>1, <1>2, <1>3, <1>4, <1>5, <1>6 DEF Limit

\* A second element after the first.
LEMMA AppendToOne ==
  ASSUME NEW g, NEW f
  PROVE  Append(<<g>>, f) = <<g, f>>
<1> DEFINE s == Append(<<g>>, f)
<1>1. <<g>> \in Seq({g, f}) /\ Len(<<g>>) = 1
  OBVIOUS
<1>2. s \in Seq({g, f})
  BY <1>1
<1>3. Len(s) = 2 /\ s[1] = g /\ s[2] = f
  BY <1>1
<1> HIDE DEF s
<1>4. s = <<g, f>>
  BY <1>2, <1>3
<1> QED
  BY <1>4 DEF s

\* One object is being read, or one in another.
LEMMA OneFrame ==
  ASSUME NEW a, NEW e, frames = <<Frame(a, e)>>
  PROVE  /\ Depth = 1 /\ Top.msg = a /\ Top.end = e /\ ~InRecord /\ K = R
         /\ frames[1].msg = a
         /\ \A m, y : ReadOn(m, y) => /\ frames' = <<Frame(m, e)>> /\ pos' = y
                                      /\ UNCHANGED <<phase, verdict>>
         /\ \A f : Append(frames, f) = <<Frame(a, e), f>>
<1>1. Depth = 1 /\ frames[1] = Frame(a, e)
  BY DEF Depth
<1>2. Top = Frame(a, e)
  BY <1>1 DEF Top
<1>3. ASSUME NEW m, NEW y, ReadOn(m, y)
      PROVE  /\ frames' = <<Frame(m, e)>> /\ pos' = y
             /\ UNCHANGED <<phase, verdict>>
  <2>1. frames' = [frames EXCEPT ![1].msg = m]
    BY <1>1, <1>3 DEF ReadOn
  <2>2. frames' = <<[Frame(a, e) EXCEPT !.msg = m]>>
    BY <2>1
  <2>3. [Frame(a, e) EXCEPT !.msg = m] = Frame(m, e)
    BY DEF Frame
  <2> QED
    BY <1>3, <2>2, <2>3 DEF ReadOn
<1>4. \A f : Append(frames, f) = <<Frame(a, e), f>>
  BY AppendToOne
<1>5. /\ Top.msg = a /\ Top.end = e /\ frames[1].msg = a
      /\ ~InRecord /\ K = R
  BY <1>1, <1>2 DEF Frame, InRecord, K
<1> QED
  BY <1>1, <1>3, <1>4, <1>5

\* The same of a record above its message.
LEMMA TwoFrames ==
  ASSUME NEW a, NEW e, NEW c, NEW l, frames = <<Frame(a, e), Frame(c, l)>>
  PROVE  /\ Depth = 2 /\ Top.msg = c /\ Top.end = l /\ InRecord /\ K = R.record
         /\ frames[1].msg = a /\ frames[2].msg = c
         /\ \A m, y : ReadOn(m, y) =>
              /\ frames' = <<Frame(a, e), Frame(m, l)>> /\ pos' = y
              /\ UNCHANGED <<phase, verdict>>
<1>1. Depth = 2 /\ frames[1] = Frame(a, e) /\ frames[2] = Frame(c, l)
  BY DEF Depth
<1>2. Top = Frame(c, l)
  BY <1>1 DEF Top
<1>3. ASSUME NEW m, NEW y, ReadOn(m, y)
      PROVE  /\ frames' = <<Frame(a, e), Frame(m, l)>> /\ pos' = y
             /\ UNCHANGED <<phase, verdict>>
  <2>1. frames' = [frames EXCEPT ![2].msg = m]
    BY <1>1, <1>3 DEF ReadOn
  <2>2. frames' = <<Frame(a, e), [Frame(c, l) EXCEPT !.msg = m]>>
    BY <2>1
  <2>3. [Frame(c, l) EXCEPT !.msg = m] = Frame(m, l)
    BY DEF Frame
  <2> QED
    BY <1>3, <2>2, <2>3 DEF ReadOn
<1> QED
  BY <1>1, <1>2, <1>3 DEF Frame, InRecord, K

\* Between two fields of the message a turn comes to another such place, to
\* the first field of a record, or to the end of the call.
LEMMA MessageTurn ==
  ASSUME Built, Sent, phase = "parse", AtMessage, ReaderNext
  PROVE  \/ phase' = phase /\ verdict' = verdict /\ (AtMessage \/ AtRecord)'
         \/ /\ Return(FALSE)
            /\ lost > 0 \/ ~IsInitialized(R, object)
         \/ Return(TRUE) /\ pos = Limit /\ IsInitialized(R, frames[1].msg)
<1>1. PICK msg :
        /\ frames = <<Frame(msg, Limit)>> /\ pos <= Limit
        /\ Reached(W, object, wire, 0, pos, msg)
  BY DEF AtMessage
<1>2. /\ Depth = 1 /\ Top.msg = msg /\ Top.end = Limit /\ ~InRecord /\ K = R
      /\ frames[1].msg = msg
  BY <1>1, OneFrame
<1>3. /\ wire \in Seq(Byte) /\ Len(wire) = size /\ size \in Nat
      /\ EndOf(W, object, 0) = size /\ Limit \in 0 .. size
      /\ lost \in Nat /\ Limit = size - lost
  BY SentIsHeld
<1>4. /\ Exchanged(W, object) /\ Reads(R, W) /\ IsObject(W, object)
      /\ HasBits(R)
  BY BuiltIsExchanged
<1>5. /\ W' = W /\ R' = R /\ object' = object /\ wire' = wire /\ size' = size
      /\ Limit' = Limit
  BY DEF ReaderNext, sending, W, R, Limit
<1>6. \/ GoesOn(W, object, 0) \/ Descends(W, object, 0)
      \/ Return(FALSE) /\ Limit < size
      \/ Ends /\ (pos = size \/ Limit < size)
  <2>1. /\ 0 \in Nat /\ Limit \in 0 .. Len(wire)
        /\ EndOf(W, object, 0) <= Len(wire) /\ EndOf(W, object, 0) \in Nat
        /\ Limit <= EndOf(W, object, 0)
    BY <1>3
  <2> QED
    BY <1>1, <1>2, <1>3, <1>4, <2>1, Turn
<1>7. Limit < size => lost > 0
  <2> HIDE DEF Limit
  <2> QED
    BY <1>3
<1>8. CASE GoesOn(W, object, 0)
  <2>1. PICK n, y :
          /\ y \in Nat /\ pos < y /\ y <= Top.end
          /\ ReadOn(n, y) /\ Reached(W, object, wire, 0, y, n)
    BY <1>8 DEF GoesOn
  <2>2. /\ frames' = <<Frame(n, Limit)>> /\ pos' = y
        /\ UNCHANGED <<phase, verdict>>
    BY <1>1, <2>1, OneFrame
  <2>3. AtMessage'
    BY <1>2, <1>5, <2>1, <2>2 DEF AtMessage, Frame
  <2> QED
    BY <2>2, <2>3
<1>9. CASE Descends(W, object, 0)
  <2>1. Lists(W)
    BY <1>9 DEF Descends
  <2>2. PICK i \in 1 .. Len(ListOf(W, object)) : \E s, y :
          LET d == ListOf(W, object)[i]
          IN  /\ s \in Nat /\ y \in Nat /\ pos < s /\ s <= y /\ s <= Top.end
              /\ y <= EndOf(W, object, 0) /\ y = s + Len(WriteLeaf(W.record, d))
              /\ Holds(wire, s, WriteLeaf(W.record, d))
              /\ Reached(W, object, wire, 0, y, AddRecord(Top.msg, d))
              /\ pos' = s
              /\ frames' = Append(frames, [msg |-> New(R.record),
                                           end |-> Min({y, Top.end})])
              /\ UNCHANGED <<phase, verdict>>
    BY <1>9 DEF Descends
  <2> DEFINE d == ListOf(W, object)[i]
             k == W.record
  <2>3. PICK s, y :
          /\ s \in Nat /\ y \in Nat /\ pos < s /\ s <= y /\ s <= Top.end
          /\ y <= EndOf(W, object, 0) /\ y = s + Len(WriteLeaf(k, d))
          /\ Holds(wire, s, WriteLeaf(k, d))
          /\ Reached(W, object, wire, 0, y, AddRecord(Top.msg, d))
          /\ pos' = s
          /\ frames' = Append(frames, [msg |-> New(R.record),
                                       end |-> Min({y, Top.end})])
          /\ UNCHANGED <<phase, verdict>>
    BY <2>2
  <2>4. /\ Exchanged(k, d) /\ Reads(R.record, k)
        /\ WriteLeaf(k, d) = SerializeWithCachedSizes(k, d)
    BY <2>1, RecordIsBuilt
  <2> HIDE DEF k, d
  <2>5. Reached(k, d, wire, s, s, New(R.record))
    BY <2>3, <2>4, ReachedStart
  <2>6. y = EndOf(k, d, s)
    BY <2>3, <2>4 DEF EndOf
  <2>7. frames' = <<Frame(msg, Limit), Frame(New(R.record), Min({y, Limit}))>>
    BY <1>1, <1>2, <2>3, OneFrame DEF Frame
  <2>8. s <= Min({y, Limit})
    <3>1. Min({y, Limit}) = IF y <= Limit THEN y ELSE Limit
      BY <1>3, <2>3, MinOfTwo
    <3> QED
      BY <1>2, <2>3, <3>1
  <2>9. y <= size
    BY <1>3, <2>3
  <2>10. Reached(W, object, wire, 0, y, AddRecord(msg, d))
    BY <1>2, <2>3
  <2>11. AtRecord'
    <3>1. /\ s \in Nat /\ y \in Nat /\ pos' = s
      BY <2>3
    <3> QED
      BY <1>1, <1>5, <2>1, <2>5, <2>6, <2>7, <2>8, <2>9, <2>10, <3>1
         DEF AtRecord, k, d
  <2> QED
    BY <2>3, <2>11
<1>10. CASE Return(FALSE) /\ Limit < size
  BY <1>7, <1>10
<1>11. CASE Ends /\ (pos = size \/ Limit < size)
  <2>1. EndMessage
    BY <1>2, <1>11 DEF Ends, EndRecord
  <2>2. Return(IsInitialized(R, msg) /\ pos = Limit)
    BY <1>2, <2>1 DEF EndMessage, AtLimit
  <2>3. CASE IsInitialized(R, msg) /\ pos = Limit
    <3>1. Return(TRUE)
      BY <2>2, <2>3 DEF Return
    <3> QED
      BY <1>2, <2>3, <3>1
  <2>4. CASE ~(IsInitialized(R, msg) /\ pos = Limit)
    <3>1. Return(FALSE)
      BY <2>2, <2>4 DEF Return
    <3>2. CASE Limit < size
      BY <1>7, <3>1, <3>2
    <3>3. CASE ~(Limit < size)
      <4>1. pos = size /\ pos = Limit
        BY <1>1, <1>3, <1>11, <3>3
      <4>2. msg = object
        BY <1>1, <1>3, <1>4, <4>1, ReachedWithin
      <4> QED
        BY <2>4, <3>1, <4>1, <4>2
    <3> QED
      BY <3>2, <3>3
  <2> QED
    BY <2>3, <2>4
<1> QED
  BY <1>6, <1>8, <1>9, <1>10, <1>11

\* A record of which something is missing makes the message incomplete.
LEMMA CutRecord ==
  ASSUME NEW k, NEW a, NEW c, NEW X, HasRecords(a), Shape(k, a),
         a.val["records"] \in Seq(X), ~(k.record.needs \subseteq c.has)
  PROVE  ~IsInitialized(k, AddRecord(a, c))
<1> DEFINE rs == a.val["records"]
           longer == Append(rs, c)
           n == Len(rs)
           g == AddRecord(a, c)
<1>1. n \in Nat /\ DOMAIN rs = 1 .. n
  OBVIOUS
<1>2. longer \in Seq(X \cup {c}) /\ Len(longer) = n + 1 /\ longer[n + 1] = c
  <2>1. rs \in Seq(X \cup {c}) /\ c \in X \cup {c}
    OBVIOUS
  <2> HIDE DEF rs
  <2> QED
    BY <2>1
<1>3. "records" \in DOMAIN a.val
  BY DEF HasRecords
<1> DEFINE w == a.val
           v == [w EXCEPT !["records"] = longer]
<1>4. a = [has |-> a.has, val |-> w, unknown |-> a.unknown]
  BY DEF Shape
<1>5. g = [a EXCEPT !.val = v]
  BY <1>4 DEF AddRecord
<1> HIDE DEF w, longer
<1>6. g.val = v
  BY <1>4, <1>5
<1>7. "records" \in DOMAIN v /\ v["records"] = longer
  BY <1>3 DEF w
<1> HIDE DEF v, g, n
<1>8. n + 1 \in DOMAIN longer /\ longer[n + 1] = c
  <2>1. DOMAIN longer = 1 .. Len(longer)
    BY <1>2
  <2> QED
    BY <1>1, <1>2, <2>1
<1>9. HasRecords(g) /\ g.val.records = longer
  BY <1>6, <1>7 DEF HasRecords
<1>10. ~IsInitialized(k, g)
  BY <1>8, <1>9 DEF IsInitialized
<1> QED
  BY <1>10 DEF g

\* Between two fields of a record a turn comes to another such place, or back
\* to the message, with all of the record unless the bytes end before it.
LEMMA RecordStep ==
  ASSUME Built, Sent, phase = "parse", AtRecord, ReaderNext
  PROVE  \/ /\ phase' = phase /\ verdict' = verdict
            /\ (AtMessage \/ AtRecord \/ CutOff)'
         \/ Return(FALSE) /\ lost > 0
<1> DEFINE k == W.record
<1>1. PICK i \in 1 .. Len(ListOf(W, object)) : \E msg, part, x, s, y :
        LET d == ListOf(W, object)[i]
        IN  /\ frames = <<Frame(msg, Limit), Frame(part, Min({y, Limit}))>>
            /\ s \in Nat /\ y \in Nat /\ y <= size
            /\ y = EndOf(W.record, d, s) /\ pos <= Min({y, Limit})
            /\ Reached(W, object, wire, 0, x, msg)
            /\ Reached(W, object, wire, 0, y, AddRecord(msg, d))
            /\ Reached(W.record, d, wire, s, pos, part)
  BY DEF AtRecord
<1> DEFINE d == ListOf(W, object)[i]
<1>2. PICK msg, part, x, s, y :
        /\ frames = <<Frame(msg, Limit), Frame(part, Min({y, Limit}))>>
        /\ s \in Nat /\ y \in Nat /\ y <= size
        /\ y = EndOf(k, d, s) /\ pos <= Min({y, Limit})
        /\ Reached(W, object, wire, 0, x, msg)
        /\ Reached(W, object, wire, 0, y, AddRecord(msg, d))
        /\ Reached(k, d, wire, s, pos, part)
  BY <1>1
<1> DEFINE e == Min({y, Limit})
<1>3. Lists(W)
  BY DEF AtRecord
<1>4. /\ Exchanged(k, d) /\ d.unknown = <<>> /\ Reads(R.record, k)
      /\ ~Lists(k) /\ R.record.needs = Bits(k)
  BY <1>3, RecordIsBuilt
<1>5. /\ Depth = 2 /\ Top.msg = part /\ Top.end = e /\ InRecord
      /\ K = R.record
  <2>1. frames = <<Frame(msg, Limit), Frame(part, e)>>
    BY <1>2
  <2> HIDE DEF e
  <2> QED
    BY <2>1, TwoFrames
<1>6. /\ wire \in Seq(Byte) /\ Len(wire) = size /\ size \in Nat
      /\ EndOf(W, object, 0) = size /\ Limit \in 0 .. size
      /\ lost \in Nat /\ Limit = size - lost
  BY SentIsHeld
<1>7. e = (IF y <= Limit THEN y ELSE Limit) /\ e \in 0 .. size /\ e <= y
  <2>1. Limit \in Int /\ y \in Int
    BY <1>2, <1>6
  <2>2. e = IF y <= Limit THEN y ELSE Limit
    BY <2>1, MinOfTwo
  <2> HIDE DEF e, Limit
  <2> QED
    BY <1>2, <1>6, <2>2
<1>8. /\ Exchanged(W, object) /\ Reads(R, W) /\ IsObject(W, object)
      /\ HasBits(R)
  BY BuiltIsExchanged
<1>9. /\ W' = W /\ R' = R /\ object' = object /\ wire' = wire /\ size' = size
      /\ lost' = lost /\ Limit' = Limit
  BY DEF ReaderNext, sending, W, R, Limit
<1>10. Limit < y => lost > 0
  <2> HIDE DEF Limit
  <2> QED
    BY <1>2, <1>6
<1>11. \/ GoesOn(k, d, s) \/ Descends(k, d, s)
       \/ Return(FALSE) /\ e < y
       \/ Ends /\ (pos = y \/ e < y)
  <2>1. e \in 0 .. Len(wire) /\ y <= Len(wire) /\ y \in Nat /\ pos <= e
    BY <1>2, <1>6, <1>7
  <2> HIDE DEF k, d, e
  <2> QED
    BY <1>2, <1>4, <1>5, <1>6, <1>7, <2>1, Turn
<1>12. CASE GoesOn(k, d, s)
  <2> HIDE DEF k, d, e
  <2>1. PICK n, z :
          /\ z \in Nat /\ pos < z /\ z <= Top.end
          /\ ReadOn(n, z) /\ Reached(k, d, wire, s, z, n)
    BY <1>12 DEF GoesOn
  <2>2. /\ frames' = <<Frame(msg, Limit), Frame(n, e)>> /\ pos' = z
        /\ UNCHANGED <<phase, verdict>>
    BY <1>2, <2>1, TwoFrames DEF e
  <2>3. z <= e
    BY <1>5, <2>1
  <2>4. AtRecord'
    BY <1>2, <1>3, <1>9, <2>1, <2>2, <2>3 DEF AtRecord, k, d, e
  <2> QED
    BY <2>2, <2>4
<1>13. ~Descends(k, d, s)
  BY <1>4 DEF Descends
<1>14. e < y => lost > 0
  <2> HIDE DEF e, Limit
  <2> QED
    BY <1>2, <1>6, <1>7, <1>10
<1>15. CASE Return(FALSE) /\ e < y
  BY <1>14, <1>15
<1>16. CASE Ends /\ (pos = y \/ e < y)
  <2>1. EndRecord
    BY <1>5, <1>16 DEF Ends, EndMessage
  <2>2. /\ pos = e => /\ frames' = <<Frame(AddRecord(msg, part), Limit)>>
                      /\ UNCHANGED <<phase, pos, verdict>>
        /\ pos # e => Return(FALSE)
    <3>1. frames = <<Frame(msg, Limit), Frame(part, e)>>
      BY <1>2
    <3> HIDE DEF k, d, e
    <3>2. frames[1] = Frame(msg, Limit)
      BY <3>1
    <3>3. [frames[1] EXCEPT !.msg = AddRecord(@, Top.msg)]
            = Frame(AddRecord(msg, part), Limit)
      BY <1>5, <3>2 DEF Frame
    <3>4. AtLimit <=> pos = e
      BY <1>5 DEF AtLimit
    <3> QED
      BY <2>1, <3>3, <3>4 DEF EndRecord
  <2>3. pos \in Nat /\ (pos = y => part = d)
    <3> HIDE DEF k, d
    <3> QED
      BY <1>2, <1>4, ReachedWithin
  <2>4. CASE pos # e
    <3>1. e < y
      <4>1. pos <= e
        BY <1>2
      <4> HIDE DEF e
      <4> QED
        BY <1>2, <1>7, <1>16, <2>3, <2>4, <4>1
    <3> QED
      BY <1>14, <2>2, <2>4, <3>1
  <2>5. CASE pos = e /\ e = y
    <3>1. frames' = <<Frame(AddRecord(msg, d), Limit)>> /\ pos' = y
      BY <2>2, <2>3, <2>5
    <3>2. y <= Limit
      <4> HIDE DEF e
      <4> QED
        BY <1>2, <1>6, <1>7, <2>5
    <3>3. AtMessage'
      BY <1>2, <1>9, <3>1, <3>2 DEF AtMessage
    <3> QED
      BY <2>2, <2>5, <3>3
  <2>6. CASE pos = e /\ e # y
    <3>1. e < y /\ e = Limit
      <4> HIDE DEF e, Limit
      <4> QED
        BY <1>2, <1>6, <1>7, <2>6
    <3>2. ~(R.record.needs \subseteq part.has)
      <4>1. pos # EndOf(k, d, s)
        BY <1>2, <2>6
      <4> HIDE DEF k, d, e
      <4> QED
        BY <1>2, <1>4, <4>1, ReachedNotAll
    <3>3. Shape(R, msg) /\ IsObject(R, msg) /\ Partly(W, object, msg)
      BY <1>2, <1>8, ReachedIsObject
    <3>4. HasRecords(msg)
      <4>1. "records" \in DOMAIN R.fields
        BY <1>3, <1>8, ExchangedIsWritable DEF ListLast, Reads
      <4> QED
        BY <3>3, <4>1 DEF Shape, HasRecords
    <3>5. msg.val["records"] \in Seq(Records(k))
      <4>1. ListOf(W, object) \in Seq(Records(k))
        BY <1>3 DEF Built, ListOf
      <4>2. PICK l \in 0 .. Len(ListOf(W, object)) :
              msg.val["records"] = SubSeq(ListOf(W, object), 1, l)
        BY <1>3, <3>3 DEF Partly
      <4> HIDE DEF k
      <4>3. SubSeq(ListOf(W, object), 1, l) \in Seq(Records(k))
        BY <4>1
      <4> QED
        BY <4>2, <4>3
    <3> DEFINE g == AddRecord(msg, part)
    <3>6. ~IsInitialized(R, g)
      <4> HIDE DEF k, d
      <4> QED
        BY <3>2, <3>3, <3>4, <3>5, CutRecord
    <3>7. IsObject(R, g)
      <4> DEFINE longer == Append(msg.val["records"], part)
      <4>1. g = WithList(msg, longer)
        <5>1. "records" \in DOMAIN msg.val
          BY <3>4 DEF HasRecords
        <5> QED
          BY <3>3, <5>1 DEF AddRecord, WithList, Shape
      <4> HIDE DEF longer, g
      <4> QED
        BY <1>8, <3>3, <3>4, <4>1, ListIsObject
    <3>8. frames' = <<Frame(g, Limit)>> /\ pos' = Limit /\ pos' = pos
      BY <2>2, <2>6, <3>1
    <3>9. lost > 0
      BY <1>14, <3>1
    <3> HIDE DEF g
    <3>10. CutOff'
      BY <1>9, <3>6, <3>7, <3>8, <3>9 DEF CutOff
    <3> QED
      BY <2>2, <2>6, <3>10
  <2> QED
    BY <2>4, <2>5, <2>6
<1> QED
  BY <1>11, <1>12, <1>13, <1>15, <1>16

\* Behind a record that was cut off the call ends.
LEMMA CutOffStep ==
  ASSUME Built, Sent, phase = "parse", CutOff, ReaderNext
  PROVE  Return(FALSE) /\ lost > 0
<1>1. PICK msg :
        /\ frames = <<Frame(msg, Limit)>> /\ pos = Limit /\ lost > 0
        /\ IsObject(R, msg) /\ ~IsInitialized(R, msg)
  BY DEF CutOff
<1>2. /\ Top.msg = msg /\ Top.end = Limit /\ ~InRecord
  BY <1>1, OneFrame
<1>3. Limit \in 0 .. size /\ size \in Nat
  BY SentIsHeld
<1>4. pos \in Nat
  <2>1. Limit \in Nat
    BY <1>3
  <2> QED
    BY <1>1, <2>1
<1>5. Ends
  BY <1>1, <1>2, <1>4, TurnAtLimit
<1>6. Return(IsInitialized(R, msg) /\ pos = Limit)
  BY <1>2, <1>5 DEF Ends, EndRecord, EndMessage, AtLimit
<1> QED
  BY <1>1, <1>6 DEF Return

-----------------------------------------------------------------------------
(***************************************************************************)
(* The invariant of the reader.                                            *)
(***************************************************************************)

\* An object that was used before is as good as a new one, once cleared.
LEMMA ClearIsNew ==
  ASSUME NEW k, HasBits(k), Clears(k),
         \A f \in DOMAIN k.has : k.fields[f] \in Scalars,
         NEW m \in {New(k), Used(k)}
  PROVE  Clear(k, m) = New(k)
<1> DEFINE zeros == [f \in DOMAIN k.fields |-> Zero(k.fields[f])]
<1>1. /\ DOMAIN k.has = DOMAIN k.fields \ {"records"}
      /\ "records" \in DOMAIN k.fields => k.fields["records"] = "records"
      /\ k.SharedCtor = zeros
  BY DEF HasBits
<1>2. New(k) = [has |-> {}, val |-> zeros, unknown |-> <<>>]
  BY <1>1 DEF New
<1>3. ASSUME DOMAIN m.val = DOMAIN k.fields,
             \A f \in DOMAIN k.fields :
               \/ k.Clear[f] = {} \/ k.Clear[f] \cap m.has # {}
               \/ m.val[f] = Zero(k.fields[f])
      PROVE  Clear(k, m) = New(k)
  <2> DEFINE v == [f \in DOMAIN m.val |->
                     IF k.Clear[f] = {} \/ k.Clear[f] \cap m.has # {}
                       THEN Zero(k.fields[f]) ELSE m.val[f]]
  <2>1. v = zeros
    BY <1>3
  <2>2. Clear(k, m) = [has |-> {}, unknown |-> <<>>, val |-> v]
    BY DEF Clear
  <2> HIDE DEF v, zeros
  <2> QED
    BY <1>2, <2>1, <2>2
<1>4. CASE m = New(k)
  <2>1. m.val = zeros
    BY <1>2, <1>4
  <2> QED
    BY <1>3, <2>1
<1>5. CASE m = Used(k)
  <2> DEFINE scalars == {f \in DOMAIN k.fields : k.fields[f] # "records"}
             h == {k.has[f] : f \in scalars}
             v == [f \in DOMAIN k.fields |->
                     IF f \in scalars THEN Filled(k, {f}).val[f] ELSE <<>>]
             u == [Filled(k, {}) EXCEPT !.unknown = <<120, 1>>, !.has = h,
                                        !.val = v]
             x == Filled(k.record, DOMAIN k.record.fields)
  <2>1. m = IF scalars = DOMAIN k.fields THEN u ELSE AddRecord(u, x)
    BY <1>5 DEF Used
  <2>2. scalars = DOMAIN k.has /\ h = Bits(k)
    <3>1. scalars = DOMAIN k.has
      BY <1>1 DEF Scalars
    <3> QED
      BY <3>1 DEF Bits
  <2>3. DOMAIN v = DOMAIN k.fields
    OBVIOUS
  <2> HIDE DEF h, v
  <2>4. u = [has |-> h, val |-> v, unknown |-> <<120, 1>>]
    <3> DEFINE a == {k.has[f] : f \in {}}
               c == [f \in DOMAIN k.fields |->
                       IF f \in {} THEN CHOOSE w \in Values(k.fields[f]) :
                                          w # Zero(k.fields[f])
                                   ELSE k.SharedCtor[f]]
    <3>1. Filled(k, {}) = [has |-> a, val |-> c, unknown |-> <<>>]
      BY DEF Filled
    <3> DEFINE g == Filled(k, {})
               z == <<120, 1>>
    <3>2. u = [g EXCEPT !.unknown = z, !.has = h, !.val = v]
      OBVIOUS
    <3> HIDE DEF a, c, z, u
    <3>3. g = [has |-> a, val |-> c, unknown |-> <<>>]
      BY <3>1
    <3> HIDE DEF g
    <3>4. u = [has |-> h, val |-> v, unknown |-> z]
      BY <3>2, <3>3
    <3> QED
      BY <3>4 DEF u, z
  <2>5. m.has = h /\ DOMAIN m.val = DOMAIN k.fields
    <3> HIDE DEF u, x, scalars
    <3>1. u.has = h /\ u.val = v
      BY <2>4
    <3>2. CASE m = u
      BY <2>3, <3>1, <3>2
    <3>3. CASE m = AddRecord(u, x)
      <4> DEFINE longer == [v EXCEPT !["records"] = Append(v["records"], x)]
      <4>1. m = [u EXCEPT !.val = longer]
        BY <2>4, <3>3 DEF AddRecord
      <4>2. DOMAIN longer = DOMAIN v
        OBVIOUS
      <4> HIDE DEF longer
      <4>3. m.has = h /\ m.val = longer
        BY <2>4, <4>1
      <4> QED
        BY <2>3, <4>2, <4>3
    <3> QED
      BY <2>1, <3>2, <3>3
  <2>6. \A f \in DOMAIN k.fields : k.Clear[f] = {} \/ k.Clear[f] \cap m.has # {}
    BY <2>2, <2>5 DEF Clears
  <2> QED
    BY <1>3, <2>5, <2>6
<1> QED
  BY <1>4, <1>5

\* A sequence holds itself at its beginning.
LEMMA HoldsItself ==
  ASSUME NEW s \in Seq(Byte)
  PROVE  Holds(s, 0, s)
<1>1. \A i \in 1 .. Len(s) : 0 + i = i
  OBVIOUS
<1> QED
  BY <1>1 DEF Holds

\* Where the reader is, with what it holds.
Reading ==
  /\ phase \in {"fill", "parse", "done"} /\ verdict \in BOOLEAN
  /\ phase = "fill" => pos = 0 /\ frames = <<>> /\ wire = <<>> /\ lost = 0
  /\ phase # "fill" => AtMessage \/ AtRecord \/ CutOff

\* What was sent is read from its beginning.
LEMMA SendReads ==
  ASSUME Built, Reading, Send, Sent'
  PROVE  AtMessage'
<1>1. /\ phase = "fill" /\ phase' = "parse" /\ size' = ByteSizeLong(W, object)
      /\ kind' = kind /\ object' = object /\ pos' = pos
      /\ \E n \in Lost, into \in {New(R), Used(R)} :
           /\ n <= size'
           /\ lost' = n
           /\ frames' = <<[msg |-> Clear(R, into), end |-> size' - n]>>
  BY DEF Send
<1>2. W' = W /\ R' = R /\ pos' = 0
  BY <1>1 DEF W, R, Reading
<1>3. Agree(W, R)
  BY SidesAgree DEF Built
<1>4. Exchanged(W, object) /\ Reads(R, W) /\ HasBits(R)
  BY BuiltIsExchanged
<1>5. \A f \in DOMAIN R.has : R.fields[f] \in Scalars
  BY <1>3 DEF Agree, Written, HasTables, Reads
<1>6. \A into \in {New(R), Used(R)} : Clear(R, into) = New(R)
  BY <1>3, <1>4, <1>5, ClearIsNew DEF Agree
<1>7. frames' = <<Frame(New(R), size' - lost')>>
  BY <1>1, <1>6 DEF Frame
<1>8. /\ wire' = SerializeWithCachedSizes(W, object)
      /\ lost' \in Nat /\ lost' <= size'
  BY <1>1, <1>2 DEF Sent
<1>9. wire' \in Seq(Byte) /\ Len(wire') = size'
  BY <1>1, <1>8, BuiltIsMessage, SizeIsLength
<1>10. Holds(wire', 0, SerializeWithCachedSizes(W, object))
  BY <1>8, <1>9, HoldsItself
<1>11. Reached(W, object, wire', 0, 0, New(R))
  BY <1>4, <1>10, ReachedStart
<1>12. Limit' = size' - lost' /\ pos' <= Limit'
  <2>1. size' \in Nat
    BY <1>9
  <2> QED
    <3>1. Limit' = size' - lost'
      BY DEF Limit
    <3> DEFINE a == size'  c == lost'
    <3>2. a \in Nat /\ c \in Nat /\ c <= a
      BY <1>8, <2>1
    <3> HIDE DEF a, c
    <3>3. 0 <= a - c
      BY <3>2
    <3> QED
      BY <1>2, <3>1, <3>3 DEF a, c
<1> QED
  BY <1>1, <1>2, <1>7, <1>11, <1>12 DEF AtMessage

\* Every step keeps the reader at such a place.
LEMMA ReadingKept ==
  ASSUME Built, Sent, Reading, [Next]_vars, Sent'
  PROVE  Reading'
<1>1. CASE UNCHANGED vars
  <2>1. /\ W' = W /\ R' = R /\ Limit' = Limit
    BY <1>1 DEF vars, sending, W, R, Limit
  <2>2. AtMessage' = AtMessage /\ AtRecord' = AtRecord /\ CutOff' = CutOff
    BY <1>1, <2>1 DEF vars, sending, AtMessage, AtRecord, CutOff
  <2> QED
    BY <1>1, <2>2 DEF vars, sending, Reading
<1>2. CASE WriterNext
  <2>1. CASE Send
    BY <2>1, SendReads DEF Send, Reading
  <2>2. CASE ~Send
    <3>1. \E m : Fill(m)
      BY <1>2, <2>2 DEF WriterNext, Set, Unset, Add, Drop, Extend
    <3> QED
      BY <3>1 DEF Fill, Reading
  <2> QED
    BY <2>1, <2>2
<1>3. CASE ReaderNext
  <2>1. phase = "parse"
    BY <1>3 DEF ReaderNext
  <2>2. AtMessage \/ AtRecord \/ CutOff
    BY <2>1 DEF Reading
  <2>3. ASSUME NEW result \in BOOLEAN, Return(result)
        PROVE  Reading'
    <3>1. /\ W' = W /\ R' = R /\ Limit' = Limit /\ wire' = wire /\ size' = size
          /\ object' = object /\ lost' = lost /\ frames' = frames /\ pos' = pos
      BY <1>3, <2>3 DEF ReaderNext, Return, sending, W, R, Limit
    <3>2. AtMessage' = AtMessage /\ AtRecord' = AtRecord /\ CutOff' = CutOff
      BY <3>1 DEF AtMessage, AtRecord, CutOff
    <3> QED
      BY <2>2, <2>3, <3>2 DEF Return, Reading
  <2>4. ASSUME phase' = phase, verdict' = verdict,
               (AtMessage \/ AtRecord \/ CutOff)'
        PROVE  Reading'
    BY <2>1, <2>4 DEF Reading
  <2>5. CASE AtMessage
    BY <1>3, <2>1, <2>3, <2>4, <2>5, MessageTurn
  <2>6. CASE AtRecord
    BY <1>3, <2>1, <2>3, <2>4, <2>6, RecordStep
  <2>7. CASE CutOff
    BY <1>3, <2>1, <2>3, <2>7, CutOffStep
  <2> QED
    BY <2>2, <2>5, <2>6, <2>7
<1> QED
  BY <1>1, <1>2, <1>3 DEF Next

\* The reader is always at such a place.
LEMMA ReadingInvariant == Spec => []Reading
<1>1. Init => Reading
  BY DEF Init, Reading
<1>2. Built /\ Sent /\ Sent' /\ Reading /\ [Next]_vars => Reading'
  BY ReadingKept
<1> QED
  BY <1>1, <1>2, BuiltInvariant, SentInvariant, PTL DEF Spec

\* At each such place it holds objects of its classes.
LEMMA ReadingIsTyped ==
  ASSUME Built, Sent, Reading
  PROVE  TypeOK
<1>1. IsObject(W, object)
  BY DEF Built
<1>2. CASE phase = "fill"
  <2>1. pos = 0 /\ frames = <<>> /\ wire = <<>>
    BY <1>2 DEF Reading
  <2>2. Len(wire) = 0 /\ Depth = 0 /\ DOMAIN frames = {}
    BY <2>1 DEF Depth
  <2> QED
    BY <1>1, <2>1, <2>2 DEF TypeOK, Reading
<1>3. CASE phase # "fill"
  <2>1. /\ Len(wire) = size /\ size \in Nat /\ Limit \in 0 .. size
    BY <1>3, SentIsHeld
  <2>2. /\ Exchanged(W, object) /\ Reads(R, W) /\ IsObject(W, object)
    BY BuiltIsExchanged
  <2>3. ASSUME NEW a, NEW e, frames = <<Frame(a, e)>>, IsObject(R, a)
        PROVE  /\ Depth <= 2
               /\ \A i \in DOMAIN frames :
                    IsObject(IF i = 1 THEN R ELSE R.record, frames[i].msg)
    <3>1. Depth = 1 /\ frames[1].msg = a
      BY <2>3, OneFrame
    <3>2. DOMAIN frames = {1}
      BY <2>3
    <3> QED
      BY <2>3, <3>1, <3>2
  <2>4. CASE AtMessage
    <3>1. PICK msg :
            /\ frames = <<Frame(msg, Limit)>> /\ pos <= Limit
            /\ Reached(W, object, wire, 0, pos, msg)
      BY <2>4 DEF AtMessage
    <3>2. IsObject(R, msg)
      BY <2>2, <3>1, ReachedIsObject
    <3>3. pos \in Nat
      BY <2>2, <3>1, ReachedWithin
    <3>4. pos \in 0 .. Len(wire)
      <4> HIDE DEF Limit
      <4> QED
        BY <2>1, <3>1, <3>3
    <3> QED
      BY <1>1, <2>3, <3>1, <3>2, <3>4 DEF TypeOK, Reading
  <2>5. CASE AtRecord
    <3>1. Lists(W)
      BY <2>5 DEF AtRecord
    <3>2. PICK i \in 1 .. Len(ListOf(W, object)) : \E msg, part, x, s, y :
            LET d == ListOf(W, object)[i]
            IN  /\ frames = <<Frame(msg, Limit), Frame(part, Min({y, Limit}))>>
                /\ s \in Nat /\ y \in Nat /\ y <= size
                /\ y = EndOf(W.record, d, s) /\ pos <= Min({y, Limit})
                /\ Reached(W, object, wire, 0, x, msg)
                /\ Reached(W, object, wire, 0, y, AddRecord(msg, d))
                /\ Reached(W.record, d, wire, s, pos, part)
      BY <2>5 DEF AtRecord
    <3> DEFINE d == ListOf(W, object)[i]
               k == W.record
    <3>3. PICK msg, part, x, s, y :
            /\ frames = <<Frame(msg, Limit), Frame(part, Min({y, Limit}))>>
            /\ s \in Nat /\ y \in Nat /\ y <= size
            /\ y = EndOf(k, d, s) /\ pos <= Min({y, Limit})
            /\ Reached(W, object, wire, 0, x, msg)
            /\ Reached(W, object, wire, 0, y, AddRecord(msg, d))
            /\ Reached(k, d, wire, s, pos, part)
      BY <3>2
    <3>4. Exchanged(k, d) /\ Reads(R.record, k) /\ IsObject(k, d)
      BY <3>1, RecordIsBuilt
    <3> HIDE DEF k, d
    <3>5. IsObject(R, msg) /\ IsObject(R.record, part)
      BY <2>2, <3>3, <3>4, ReachedIsObject
    <3>6. pos \in Nat /\ pos <= y
      BY <3>3, <3>4, ReachedWithin
    <3>7. pos \in 0 .. Len(wire)
      BY <2>1, <3>3, <3>6
    <3> DEFINE e == Min({y, Limit})
    <3>8. frames = <<Frame(msg, Limit), Frame(part, e)>>
      BY <3>3
    <3> HIDE DEF e
    <3>9. Depth = 2 /\ frames[1].msg = msg /\ frames[2].msg = part
      BY <3>8, TwoFrames
    <3>10. DOMAIN frames = {1, 2}
      BY <3>8
    <3>11. \A j \in DOMAIN frames :
             IsObject(IF j = 1 THEN R ELSE R.record, frames[j].msg)
      BY <3>5, <3>9, <3>10
    <3> QED
      BY <1>1, <3>7, <3>9, <3>11 DEF TypeOK, Reading
  <2>6. CASE CutOff
    <3>1. PICK msg :
            /\ frames = <<Frame(msg, Limit)>> /\ pos = Limit
            /\ IsObject(R, msg)
      BY <2>6 DEF CutOff
    <3>2. pos \in 0 .. Len(wire)
      BY <2>1, <3>1
    <3> QED
      BY <1>1, <2>3, <3>1, <3>2 DEF TypeOK, Reading
  <2> QED
    BY <1>3, <2>4, <2>5, <2>6 DEF Reading
<1> QED
  BY <1>2, <1>3

\* Both sides hold objects of their classes, whatever the writer set and
\* cleared before, and however far the reader has come (bike.pb.cpp).
THEOREM TypeCorrect == Spec => []TypeOK
<1>1. Built /\ Sent /\ Reading => TypeOK
  BY ReadingIsTyped
<1> QED
  BY <1>1, BuiltInvariant, SentInvariant, ReadingInvariant, PTL

-----------------------------------------------------------------------------
(***************************************************************************)
(* The exchange implements bike.proto.                                     *)
(***************************************************************************)

\* The class r has the fields that bike.proto declares of this message, and
\* IsInitialized asks for those that it requires.
Declares(kd, r) ==
  LET s == Declared!Schema[kd]
  IN  /\ DOMAIN r.fields = s.required \cup s.optional
      /\ s.required \subseteq DOMAIN r.has
      /\ r.needs = {r.has[f] : f \in s.required}
      /\ "records" \in DOMAIN r.fields =>
           Declared!RecordSchema[kd] = DOMAIN r.record.has

\* Every message is read by a class that has the fields, and in IsInitialized
\* the required ones, that bike.proto declares of it (bike.pb.cpp).
THEOREM DeclaredTables ==
  /\ \A kd \in Requests : Declares(kd, Server!Readers[kd])
  /\ \A kd \in Responses : Declares(kd, Client!Readers[kd])
<1>1. Declares("mobile_request", Server!Readers["mobile_request"])
  <2> DEFINE r == Server!Readers["mobile_request"]
  <2>1. /\ r.fields = Server!mobile_request_fields
        /\ r.has = Server!mobile_request_has
        /\ r.needs = Server!mobile_request_needs
    BY DEF Server!Readers, Server!Reader
  <2> HIDE DEF r
  <2>2. Declares("mobile_request", r)
    BY <2>1 DEF Declares, Declared!Schema, Declared!Declared,
           Declared!RecordSchema, Server!mobile_request_fields,
           Server!mobile_request_has, Server!mobile_request_needs
  <2> QED
    BY <2>2 DEF r
<1>2. Declares("login_request", Server!Readers["login_request"])
  <2> DEFINE r == Server!Readers["login_request"]
  <2>1. /\ r.fields = Server!login_request_fields
        /\ r.has = Server!login_request_has
        /\ r.needs = Server!login_request_needs
    BY DEF Server!Readers, Server!Reader
  <2> HIDE DEF r
  <2>2. Declares("login_request", r)
    BY <2>1 DEF Declares, Declared!Schema, Declared!Declared,
           Declared!RecordSchema, Server!login_request_fields,
           Server!login_request_has, Server!login_request_needs
  <2> QED
    BY <2>2 DEF r
<1>3. Declares("recharge_request", Server!Readers["recharge_request"])
  <2> DEFINE r == Server!Readers["recharge_request"]
  <2>1. /\ r.fields = Server!recharge_request_fields
        /\ r.has = Server!recharge_request_has
        /\ r.needs = Server!recharge_request_needs
    BY DEF Server!Readers, Server!Reader
  <2> HIDE DEF r
  <2>2. Declares("recharge_request", r)
    BY <2>1 DEF Declares, Declared!Schema, Declared!Declared,
           Declared!RecordSchema, Server!recharge_request_fields,
           Server!recharge_request_has, Server!recharge_request_needs
  <2> QED
    BY <2>2 DEF r
<1>4. Declares("account_balance_request",
              Server!Readers["account_balance_request"])
  <2> DEFINE r == Server!Readers["account_balance_request"]
  <2>1. /\ r.fields = Server!account_balance_request_fields
        /\ r.has = Server!account_balance_request_has
        /\ r.needs = Server!account_balance_request_needs
    BY DEF Server!Readers, Server!Reader
  <2> HIDE DEF r
  <2>2. Declares("account_balance_request", r)
    BY <2>1 DEF Declares, Declared!Schema, Declared!Declared,
           Declared!RecordSchema, Server!account_balance_request_fields,
           Server!account_balance_request_has,
           Server!account_balance_request_needs
  <2> QED
    BY <2>2 DEF r
<1>5. Declares("list_account_records_request",
              Server!Readers["list_account_records_request"])
  <2> DEFINE r == Server!Readers["list_account_records_request"]
  <2>1. /\ r.fields = Server!list_account_records_request_fields
        /\ r.has = Server!list_account_records_request_has
        /\ r.needs = Server!list_account_records_request_needs
    BY DEF Server!Readers, Server!Reader
  <2> HIDE DEF r
  <2>2. Declares("list_account_records_request", r)
    BY <2>1 DEF Declares, Declared!Schema, Declared!Declared,
           Declared!RecordSchema, Server!list_account_records_request_fields,
           Server!list_account_records_request_has,
           Server!list_account_records_request_needs
  <2> QED
    BY <2>2 DEF r
<1>6. Declares("list_travel_records_request",
              Server!Readers["list_travel_records_request"])
  <2> DEFINE r == Server!Readers["list_travel_records_request"]
  <2>1. /\ r.fields = Server!list_travel_records_request_fields
        /\ r.has = Server!list_travel_records_request_has
        /\ r.needs = Server!list_travel_records_request_needs
    BY DEF Server!Readers, Server!Reader
  <2> HIDE DEF r
  <2>2. Declares("list_travel_records_request", r)
    BY <2>1 DEF Declares, Declared!Schema, Declared!Declared,
           Declared!RecordSchema, Server!list_travel_records_request_fields,
           Server!list_travel_records_request_has,
           Server!list_travel_records_request_needs
  <2> QED
    BY <2>2 DEF r
<1>7. Declares("mobile_response", Client!Readers["mobile_response"])
  <2> DEFINE r == Client!Readers["mobile_response"]
  <2>1. /\ r.fields = Client!mobile_response_fields
        /\ r.has = Client!mobile_response_has
        /\ r.needs = Client!mobile_response_needs
    BY DEF Client!Readers, Client!Reader
  <2> HIDE DEF r
  <2>2. Declares("mobile_response", r)
    BY <2>1 DEF Declares, Declared!Schema, Declared!Declared,
           Declared!RecordSchema, Client!mobile_response_fields,
           Client!mobile_response_has, Client!mobile_response_needs
  <2> QED
    BY <2>2 DEF r
<1>8. Declares("login_response", Client!Readers["login_response"])
  <2> DEFINE r == Client!Readers["login_response"]
  <2>1. /\ r.fields = Client!login_response_fields
        /\ r.has = Client!login_response_has
        /\ r.needs = Client!login_response_needs
    BY DEF Client!Readers, Client!Reader
  <2> HIDE DEF r
  <2>2. Declares("login_response", r)
    BY <2>1 DEF Declares, Declared!Schema, Declared!Declared,
           Declared!RecordSchema, Client!login_response_fields,
           Client!login_response_has, Client!login_response_needs
  <2> QED
    BY <2>2 DEF r
<1>9. Declares("recharge_response", Client!Readers["recharge_response"])
  <2> DEFINE r == Client!Readers["recharge_response"]
  <2>1. /\ r.fields = Client!recharge_response_fields
        /\ r.has = Client!recharge_response_has
        /\ r.needs = Client!recharge_response_needs
    BY DEF Client!Readers, Client!Reader
  <2> HIDE DEF r
  <2>2. Declares("recharge_response", r)
    BY <2>1 DEF Declares, Declared!Schema, Declared!Declared,
           Declared!RecordSchema, Client!recharge_response_fields,
           Client!recharge_response_has, Client!recharge_response_needs
  <2> QED
    BY <2>2 DEF r
<1>10. Declares("account_balance_response",
              Client!Readers["account_balance_response"])
  <2> DEFINE r == Client!Readers["account_balance_response"]
  <2>1. /\ r.fields = Client!account_balance_response_fields
        /\ r.has = Client!account_balance_response_has
        /\ r.needs = Client!account_balance_response_needs
    BY DEF Client!Readers, Client!Reader
  <2> HIDE DEF r
  <2>2. Declares("account_balance_response", r)
    BY <2>1 DEF Declares, Declared!Schema, Declared!Declared,
           Declared!RecordSchema, Client!account_balance_response_fields,
           Client!account_balance_response_has,
           Client!account_balance_response_needs
  <2> QED
    BY <2>2 DEF r
<1>11. Declares("list_account_records_response",
              Client!Readers["list_account_records_response"])
  <2> DEFINE r == Client!Readers["list_account_records_response"]
  <2>1. /\ r.fields = Client!list_account_records_response_fields
        /\ r.has = Client!list_account_records_response_has
        /\ r.needs = Client!list_account_records_response_needs
        /\ r.record.has =
             Client!list_account_records_response_account_record_has
    BY DEF Client!Readers, Client!Reader
  <2> HIDE DEF r
  <2>2. Declares("list_account_records_response", r)
    BY <2>1 DEF Declares, Declared!Schema, Declared!Declared,
           Declared!RecordSchema, Client!list_account_records_response_fields,
           Client!list_account_records_response_has,
           Client!list_account_records_response_needs,
           Client!list_account_records_response_account_record_has
  <2> QED
    BY <2>2 DEF r
<1>12. Declares("list_travel_records_response",
              Client!Readers["list_travel_records_response"])
  <2> DEFINE r == Client!Readers["list_travel_records_response"]
  <2>1. /\ r.fields = Client!list_travel_records_response_fields
        /\ r.has = Client!list_travel_records_response_has
        /\ r.needs = Client!list_travel_records_response_needs
        /\ r.record.has =
             Client!list_travel_records_response_travel_record_has
    BY DEF Client!Readers, Client!Reader
  <2> HIDE DEF r
  <2>2. Declares("list_travel_records_response", r)
    BY <2>1 DEF Declares, Declared!Schema, Declared!Declared,
           Declared!RecordSchema, Client!list_travel_records_response_fields,
           Client!list_travel_records_response_has,
           Client!list_travel_records_response_needs,
           Client!list_travel_records_response_travel_record_has
  <2> QED
    BY <2>2 DEF r
<1> QED
  BY <1>1, <1>2, <1>3, <1>4, <1>5, <1>6, <1>7, <1>8, <1>9, <1>10, <1>11, <1>12,
     KindsAre

\* What a message means: its fields,
LEMMA FieldsMean ==
  ASSUME NEW k, NEW m, HasBits(k)
  PROVE  /\ SetFields(k, m) = DOMAIN Meaning(k, m).set \ {"records"}
         /\ "records" \in DOMAIN Meaning(k, m).set <=>
              HasRecords(m) /\ m.val["records"] # <<>>
         /\ \A f \in SetFields(k, m) : Meaning(k, m).set[f] = m.val[f]
         /\ Meaning(k, m).extra = m.unknown
<1> DEFINE l == m.val["records"]
           s == SetFields(k, m)
           rs == [i \in DOMAIN l |-> RecordMeaning(k.record, l[i])]
           records == IF HasRecords(m) /\ l # <<>> THEN {"records"} ELSE {}
           v == m.val
           t == [f \in s \cup records |-> IF f \in records THEN rs ELSE v[f]]
           n == Meaning(k, m)
<1>1. n = [set |-> t, extra |-> m.unknown]
  BY DEF Meaning
<1>2. "records" \notin s
  BY DEF SetFields, HasBits
<1> HIDE DEF s, rs, l, v, n
<1>3. /\ s = DOMAIN t \ {"records"}
      /\ "records" \in DOMAIN t <=> HasRecords(m) /\ l # <<>>
  BY <1>2
<1>4. \A f \in s : t[f] = v[f]
  BY <1>2
<1> HIDE DEF t
<1>5. n.set = t /\ n.extra = m.unknown
  BY <1>1
<1> QED
  BY <1>3, <1>4, <1>5 DEF s, n, l, v

\* and its records, one by one.
LEMMA RecordsMean ==
  ASSUME NEW k, NEW m, HasBits(k)
  PROVE  LET rs == Declared!RecordsOf(Meaning(k, m))
         IN  /\ ~HasRecords(m) => DOMAIN rs = {}
             /\ \A X : HasRecords(m) /\ m.val["records"] \in Seq(X) =>
                  /\ DOMAIN rs = 1 .. Len(m.val["records"])
                  /\ \A i \in DOMAIN rs :
                       rs[i] = RecordMeaning(k.record, m.val["records"][i])
<1> DEFINE n == Meaning(k, m)
           l == m.val["records"]
           q == HasRecords(m) /\ l # <<>>
           s == SetFields(k, m)
           r == [i \in DOMAIN l |-> RecordMeaning(k.record, l[i])]
           records == IF q THEN {"records"} ELSE {}
           v == m.val
           t == [f \in s \cup records |-> IF f \in records THEN r ELSE v[f]]
           rs == Declared!RecordsOf(n)
<1>1. rs = IF "records" \in DOMAIN n.set THEN n.set["records"] ELSE <<>>
  BY DEF Declared!RecordsOf
<1>2. ("records" \in DOMAIN n.set) <=> q
  BY FieldsMean
<1>3. n = [set |-> t, extra |-> m.unknown]
  BY DEF Meaning
<1> HIDE DEF n, rs, l, r, s, v, q
<1>4. q => t["records"] = r
  OBVIOUS
<1> HIDE DEF t
<1>5. q => n.set["records"] = r
  BY <1>3, <1>4
<1>6. ~q => DOMAIN rs = {}
  BY <1>1, <1>2
<1>7. q => DOMAIN rs = DOMAIN l /\ \A i \in DOMAIN rs :
                                     rs[i] = RecordMeaning(k.record, l[i])
  BY <1>1, <1>2, <1>5 DEF r
<1>8. ASSUME NEW X, HasRecords(m), l \in Seq(X)
      PROVE  /\ DOMAIN rs = 1 .. Len(l)
             /\ \A i \in DOMAIN rs : rs[i] = RecordMeaning(k.record, l[i])
  <2>1. DOMAIN l = 1 .. Len(l)
    BY <1>8
  <2>2. CASE l = <<>>
    BY <1>6, <2>1, <2>2 DEF q
  <2>3. CASE l # <<>>
    BY <1>7, <1>8, <2>1, <2>3 DEF q
  <2> QED
    BY <2>2, <2>3
<1>9. ~HasRecords(m) => DOMAIN rs = {}
  BY <1>6 DEF q
<1> QED
  BY <1>8, <1>9 DEF n, rs, l

\* A message has no other fields than those that bike.proto declares.
LEMMA MeaningIsDeclared ==
  ASSUME NEW kd, NEW k, NEW r, NEW m, HasBits(k), Shape(k, m),
         Declares(kd, r), r.fields = k.fields
  PROVE  DOMAIN Meaning(k, m).set \subseteq
           Declared!Schema[kd].required \cup Declared!Schema[kd].optional
<1> DEFINE a == Declared!Schema[kd].required \cup Declared!Schema[kd].optional
<1>1. DOMAIN k.fields = a
  BY DEF Declares
<1>2. SetFields(k, m) \subseteq DOMAIN k.fields
  BY DEF SetFields, HasBits
<1>3. HasRecords(m) => "records" \in DOMAIN k.fields
  BY DEF HasRecords, Shape
<1>4. DOMAIN Meaning(k, m).set \subseteq SetFields(k, m) \cup
        (IF HasRecords(m) THEN {"records"} ELSE {})
  BY FieldsMean
<1> HIDE DEF a
<1>5. DOMAIN Meaning(k, m).set \subseteq a
  BY <1>1, <1>2, <1>3, <1>4
<1> QED
  BY <1>5 DEF a

\* IsInitialized asks for what bike.proto requires.
LEMMA InitializedIsComplete ==
  ASSUME NEW k, NEW m, NEW X, HasBits(k), Shape(k, m), Declares(kind, k),
         HasRecords(m) => /\ m.val["records"] \in Seq(X)
                          /\ k.record.needs = Bits(k.record)
  PROVE  IsInitialized(k, m) <=> Declared!Complete(Meaning(k, m))
<1> DEFINE n == Meaning(k, m)
           l == m.val["records"]
           rs == Declared!RecordsOf(n)
           required == Declared!Schema[kind].required
           recorded == Declared!RecordSchema[kind]
           has == k.has
           bits == k.record.has
<1>1. /\ k.needs = {has[f] : f \in required} /\ required \subseteq DOMAIN has
      /\ "records" \in DOMAIN k.fields => recorded = DOMAIN bits
  BY DEF Declares
<1>2. HasRecords(m) => "records" \in DOMAIN k.fields
  BY DEF HasRecords, Shape
<1>3. Declared!Complete(n) <=>
        /\ required \subseteq DOMAIN n.set
        /\ \A i \in DOMAIN rs : recorded \subseteq DOMAIN rs[i].set
  BY DEF Declared!Complete
<1>4. k.needs \subseteq m.has <=> required \subseteq DOMAIN n.set
  <2>1. SetFields(k, m) = DOMAIN n.set \ {"records"}
    BY FieldsMean
  <2>2. "records" \notin DOMAIN has
    BY DEF HasBits
  <2>3. \A f \in DOMAIN has : f \in SetFields(k, m) <=> has[f] \in m.has
    BY DEF SetFields
  <2> HIDE DEF n, required, has
  <2>4. \A f \in required : f \in DOMAIN n.set <=> has[f] \in m.has
    BY <1>1, <2>1, <2>2, <2>3
  <2> QED
    BY <1>1, <2>4
<1>5. IsInitialized(k, m) <=>
        /\ k.needs \subseteq m.has
        /\ HasRecords(m) =>
             \A i \in DOMAIN l : k.record.needs \subseteq l[i].has
  BY DEF IsInitialized
<1>6. CASE ~HasRecords(m)
  <2>1. DOMAIN rs = {}
    BY <1>6, RecordsMean
  <2> HIDE DEF n, rs, required, recorded
  <2>2. IsInitialized(k, m) <=> Declared!Complete(n)
    BY <1>3, <1>4, <1>5, <1>6, <2>1
  <2> QED
    BY <2>2 DEF n
<1>7. CASE HasRecords(m)
  <2>1. /\ DOMAIN rs = 1 .. Len(l)
        /\ \A i \in DOMAIN rs : rs[i] = RecordMeaning(k.record, l[i])
    BY <1>7, RecordsMean
  <2>2. DOMAIN rs = DOMAIN l
    BY <1>7, <2>1
  <2>3. \A i \in DOMAIN rs : DOMAIN rs[i].set = SetFields(k.record, l[i])
    <3> TAKE i \in DOMAIN rs
    <3>1. rs[i] = RecordMeaning(k.record, l[i])
      BY <2>1
    <3> HIDE DEF rs
    <3> QED
      BY <3>1 DEF RecordMeaning
  <2>4. recorded = DOMAIN bits /\ k.record.needs = {bits[f] : f \in DOMAIN bits}
    BY <1>1, <1>2, <1>7 DEF Bits
  <2>5. \A i \in DOMAIN l : SetFields(k.record, l[i]) =
                              {f \in DOMAIN bits : bits[f] \in l[i].has}
    BY DEF SetFields
  <2> HIDE DEF n, rs, required, recorded, bits, l
  <2>6. \A i \in DOMAIN l :
          k.record.needs \subseteq l[i].has <=>
            recorded \subseteq DOMAIN rs[i].set
    BY <2>2, <2>3, <2>4, <2>5
  <2>7. IsInitialized(k, m) <=> Declared!Complete(n)
    BY <1>3, <1>4, <1>5, <1>7, <2>2, <2>6
  <2> QED
    BY <2>7 DEF n
<1> QED
  BY <1>6, <1>7

\* Its reader sees in an object what its writer sees.
LEMMA BothMean ==
  ASSUME NEW w, NEW r, NEW m, r.has = w.has,
         HasRecords(m) => r.record.has = w.record.has
  PROVE  Meaning(r, m) = Meaning(w, m)
<1> DEFINE s == SetFields(w, m)
           records == IF HasRecords(m) /\ m.val.records # <<>>
                        THEN {"records"} ELSE {}
           M(k) == [i \in DOMAIN m.val.records |->
                      RecordMeaning(k.record, m.val.records[i])]
<1>1. SetFields(r, m) = s
  BY DEF SetFields
<1>2. HasRecords(m) => \A x : RecordMeaning(r.record, x) = RecordMeaning(w.record, x)
  BY DEF RecordMeaning, SetFields
<1>3. HasRecords(m) => M(r) = M(w)
  BY <1>2
<1>4. \A k \in {w, r} :
        Meaning(k, m) =
          [set |-> [f \in SetFields(k, m) \cup records |->
                      IF f \in records THEN M(k) ELSE m.val[f]],
           extra |-> m.unknown]
  BY DEF Meaning
<1>5. /\ Meaning(w, m) =
           [set |-> [f \in s \cup records |->
                       IF f \in records THEN M(w) ELSE m.val[f]],
            extra |-> m.unknown]
      /\ Meaning(r, m) =
           [set |-> [f \in s \cup records |->
                       IF f \in records THEN M(r) ELSE m.val[f]],
            extra |-> m.unknown]
  BY <1>1, <1>4
<1>6. CASE HasRecords(m)
  <2>1. M(r) = M(w)
    BY <1>3, <1>6
  <2> HIDE DEF M, s, records
  <2> QED
    BY <1>5, <2>1
<1>7. CASE ~HasRecords(m)
  <2>1. records = {}
    BY <1>7
  <2> HIDE DEF M, s, records
  <2> QED
    BY <1>5, <2>1
<1> QED
  BY <1>6, <1>7

\* What a message lacks of another, it also lacks in its meaning.
LEMMA PartlyIsPart ==
  ASSUME NEW w, NEW r, NEW m, NEW msg, NEW X, HasBits(w), HasBits(r),
         r.has = w.has, Shape(w, m), Shape(r, msg), r.fields = w.fields,
         Lists(w) <=> "records" \in DOMAIN w.fields,
         Lists(w) => m.val["records"] \in Seq(X) /\ r.record.has = w.record.has,
         Partly(w, m, msg)
  PROVE  Declared!PartOf(Meaning(r, msg), Meaning(w, m))
<1> DEFINE a == Meaning(r, msg)
           d == Meaning(w, m)
           ra == Declared!RecordsOf(a)
           rd == Declared!RecordsOf(d)
           l == m.val["records"]
<1>1. \A f \in DOMAIN a.set \ {"records"} :
        f \in DOMAIN d.set /\ a.set[f] = d.set[f]
  <2> TAKE f \in DOMAIN a.set \ {"records"}
  <2>1. f \in SetFields(r, msg) /\ a.set[f] = msg.val[f]
    BY FieldsMean
  <2>2. f \in DOMAIN w.has /\ w.has[f] \in msg.has
    BY <2>1 DEF SetFields
  <2>3. f \in SetFields(w, m) /\ msg.val[f] = m.val[f]
    BY <2>2 DEF Partly, SetFields
  <2>4. f \in DOMAIN d.set /\ d.set[f] = m.val[f]
    BY <2>3, FieldsMean
  <2> QED
    BY <2>1, <2>3, <2>4
<1>2. \A i \in DOMAIN ra : i \in DOMAIN rd /\ ra[i].set = rd[i].set
  <2>1. (HasRecords(m) <=> Lists(w)) /\ (HasRecords(msg) <=> Lists(w))
    BY DEF HasRecords, Shape
  <2>2. CASE ~Lists(w)
    <3>1. DOMAIN ra = {}
      BY <2>1, <2>2, RecordsMean
    <3> QED
      BY <3>1
  <2>3. CASE Lists(w)
    <3>1. PICK n \in 0 .. Len(l) : msg.val["records"] = SubSeq(l, 1, n)
      BY <2>3 DEF Partly, ListOf
    <3> DEFINE b == SubSeq(l, 1, n)
    <3>2. b \in Seq(X) /\ Len(b) = n /\ l \in Seq(X) /\ n \in Nat /\ Len(l) \in Nat
      BY <2>3, <3>1
    <3>3. \A i \in 1 .. n : b[i] = l[i]
      BY <3>2
    <3>4. /\ DOMAIN ra = 1 .. Len(b)
          /\ \A i \in DOMAIN ra : ra[i] = RecordMeaning(r.record, b[i])
      <4>1. HasRecords(msg) /\ msg.val["records"] \in Seq(X)
        BY <2>1, <2>3, <3>1, <3>2
      <4>2. /\ DOMAIN ra = 1 .. Len(msg.val["records"])
            /\ \A i \in DOMAIN ra :
                 ra[i] = RecordMeaning(r.record, msg.val["records"][i])
        BY <4>1, RecordsMean
      <4> QED
        BY <3>1, <4>2
    <3>5. /\ DOMAIN rd = 1 .. Len(l)
          /\ \A i \in DOMAIN rd : rd[i] = RecordMeaning(w.record, l[i])
      BY <2>1, <2>3, <3>2, RecordsMean
    <3>6. \A x : RecordMeaning(r.record, x) = RecordMeaning(w.record, x)
      BY <2>3 DEF RecordMeaning, SetFields
    <3> HIDE DEF ra, rd, l, b
    <3>7. 1 .. n \subseteq 1 .. Len(l)
      BY <3>2, <3>1
    <3> QED
      BY <3>2, <3>3, <3>4, <3>5, <3>6, <3>7
  <2> QED
    BY <2>2, <2>3
<1>3. a.extra \in {<<>>, d.extra}
  <2>1. a.extra = msg.unknown /\ d.extra = m.unknown
    BY FieldsMean
  <2> QED
    BY <2>1 DEF Partly
<1> QED
  BY <1>1, <1>2, <1>3 DEF Declared!PartOf

\* The two classes of the exchange, and what is set in either.
LEMMA ClassesAre ==
  ASSUME Built
  PROVE  /\ Declares(kind, R)
         /\ HasBits(W) /\ HasBits(R) /\ R.has = W.has /\ R.fields = W.fields
         /\ Lists(W) <=> "records" \in DOMAIN W.fields
         /\ Lists(W) => /\ R.record.has = W.record.has
                        /\ R.record.needs = Bits(R.record)
         /\ Shape(W, object) /\ Shape(R, object)
<1>1. Agree(W, R) /\ kind \in Kinds
  BY SidesAgree DEF Built
<1>2. Declares(kind, R)
  <2>1. kind \in Requests \/ kind \in Responses
    BY <1>1, ExchangeAssumption, SMT
  <2>2. CASE kind \in Requests
    <3>1. R = Server!Readers[kind]
      BY <2>2 DEF R
    <3> QED
      BY <2>2, <3>1, DeclaredTables
  <2>3. CASE kind \notin Requests
    <3>1. R = Client!Readers[kind]
      BY <2>3 DEF R
    <3> QED
      BY <2>1, <2>3, <3>1, DeclaredTables
  <2> QED
    BY <2>2, <2>3
<1>3. HasBits(W) /\ R.has = W.has /\ R.fields = W.fields
  BY <1>1 DEF Agree, Written, Reads
<1>4. HasBits(R)
  BY BuiltIsExchanged
<1>5. Lists(W) <=> "records" \in DOMAIN W.fields
  BY <1>1 DEF Agree, Written, ListLast
<1>6. Lists(W) => R.record.has = W.record.has /\ R.record.needs = Bits(R.record)
  BY <1>1 DEF Agree, Reads
<1>7. Shape(W, object)
  BY DEF Built
<1>8. Shape(R, object)
  BY <1>3, <1>7 DEF Shape
<1> QED
  BY <1>2, <1>3, <1>4, <1>5, <1>6, <1>7, <1>8

\* The reader would accept what the writer has built, if it read all of it, as
\* bike.proto says.
LEMMA DraftIsComplete ==
  ASSUME Built
  PROVE  /\ Meaning(R, object) = Meaning(W, object)
         /\ IsInitialized(R, object) <=> Declared!Complete(Meaning(W, object))
<1>1. HasRecords(object) => Lists(W)
  BY ClassesAre DEF HasRecords, Shape
<1>2. Meaning(R, object) = Meaning(W, object)
  BY <1>1, ClassesAre, BothMean
<1>3. HasRecords(object) =>
        /\ object.val["records"] \in Seq(Records(W.record))
        /\ R.record.needs = Bits(R.record)
  BY <1>1, ClassesAre DEF Built
<1>4. IsInitialized(R, object) <=> Declared!Complete(Meaning(R, object))
  <2> DEFINE r == R
             X == Records(W.record)
  <2>1. /\ HasBits(r) /\ Shape(r, object) /\ Declares(kind, r)
        /\ HasRecords(object) => /\ object.val["records"] \in Seq(X)
                                 /\ r.record.needs = Bits(r.record)
    BY <1>3, ClassesAre
  <2> HIDE DEF r, X
  <2>2. IsInitialized(r, object) <=> Declared!Complete(Meaning(r, object))
    BY <2>1, InitializedIsComplete
  <2> QED
    BY <2>2 DEF r
<1> QED
  BY <1>2, <1>4

\* What has been read is a part of what was sent, and is asked for what
\* bike.proto requires.
LEMMA ReachedIsPart ==
  ASSUME Built, NEW p, NEW msg, Reached(W, object, wire, 0, p, msg)
  PROVE  /\ IsInitialized(R, msg) <=> Declared!Complete(Meaning(R, msg))
         /\ Declared!PartOf(Meaning(R, msg), Meaning(W, object))
<1> DEFINE r == R
           w == W
           X == Records(W.record)
           l == object.val["records"]
<1>1. Shape(r, msg) /\ Partly(w, object, msg)
  BY BuiltIsExchanged, ReachedIsObject
<1>2. /\ Declares(kind, r)
      /\ HasBits(w) /\ HasBits(r) /\ r.has = w.has /\ r.fields = w.fields
      /\ Lists(w) <=> "records" \in DOMAIN w.fields
      /\ Lists(w) => r.record.has = w.record.has /\ r.record.needs = Bits(r.record)
      /\ Shape(w, object)
  BY ClassesAre
<1>3. Lists(w) => l \in Seq(X)
  BY DEF Built
<1> HIDE DEF r, w, X
<1>4. Declared!PartOf(Meaning(r, msg), Meaning(w, object))
  BY <1>1, <1>2, <1>3, PartlyIsPart
<1>5. HasRecords(msg) => Lists(w)
  BY <1>1, <1>2 DEF HasRecords, Shape
<1>6. Lists(w) => msg.val["records"] \in Seq(X)
  <2> HAVE Lists(w)
  <2>1. PICK n \in 0 .. Len(l) : msg.val["records"] = SubSeq(l, 1, n)
    BY <1>1 DEF Partly, ListOf
  <2> HIDE DEF l
  <2> QED
    BY <1>3, <2>1
<1>7. IsInitialized(r, msg) <=> Declared!Complete(Meaning(r, msg))
  BY <1>1, <1>2, <1>5, <1>6, InitializedIsComplete
<1> QED
  BY <1>4, <1>7 DEF r, w

\* At first nothing is set, and nothing is read.
LEMMA RefinesInit == Init => Declared!Init
<1> SUFFICES ASSUME Init
             PROVE  Declared!Init
  OBVIOUS
<1>1. Built
  BY InitBuilt
<1> DEFINE k == W
           m == New(k)
<1>2. HasBits(k) /\ Declares(kind, R)
  BY <1>1, ClassesAre
<1>3. m = [has |-> {}, val |-> k.SharedCtor, unknown |-> <<>>]
  BY DEF New
<1>4. kind \in DOMAIN Declared!Schema
  BY <1>1, ExchangeAssumption, KindsAre, SMT DEF Built, Declared!Schema
<1>5. Meaning(k, m) = [set |-> <<>>, extra |-> <<>>]
  <2> HIDE DEF k
  <2>1. m.has = {} /\ m.val = k.SharedCtor /\ m.unknown = <<>>
    BY <1>3
  <2>2. SetFields(k, m) = {}
    BY <2>1 DEF SetFields
  <2>3. ~(HasRecords(m) /\ m.val.records # <<>>)
    BY <1>2, <2>1 DEF HasRecords, HasBits, Zero
  <2> HIDE DEF m
  <2> DEFINE records == IF HasRecords(m) /\ m.val.records # <<>>
                          THEN {"records"} ELSE {}
             r == [i \in DOMAIN m.val.records |->
                     RecordMeaning(k.record, m.val.records[i])]
             v == m.val
             s == SetFields(k, m)
             t == [f \in s \cup records |-> IF f \in records THEN r ELSE v[f]]
  <2>4. Meaning(k, m) = [set |-> t, extra |-> m.unknown]
    BY DEF Meaning
  <2>5. s \cup records = {}
    BY <2>2, <2>3
  <2> HIDE DEF s, records, r, v
  <2>6. t = <<>>
    BY <2>5
  <2> HIDE DEF t
  <2> QED
    BY <2>1, <2>4, <2>6
<1>6. lost = 0 /\ phase = "fill" /\ object = m
  BY DEF Init
<1> HIDE DEF m
<1> QED
  BY <1>4, <1>5, <1>6 DEF Declared!Init, Declared!Nobody, k

\* What became of the message, once it is read.
LEMMA RefinesReturn ==
  ASSUME Built, phase = "parse", UNCHANGED sending, NEW result \in BOOLEAN,
         Return(result),
         ~result => lost > 0 \/ ~Declared!Complete(Meaning(W, object)),
         result => \/ /\ Meaning(R, frames[1].msg) = Meaning(W, object)
                      /\ Declared!Complete(Meaning(W, object))
                   \/ /\ lost > 0
                      /\ Declared!Complete(Meaning(R, frames[1].msg))
                      /\ Declared!PartOf(Meaning(R, frames[1].msg),
                                         Meaning(W, object))
  PROVE  Declared!Next
<1> DEFINE d == Meaning(W, object)
           a == Meaning(R, frames[1].msg)
           whole == lost = 0
           o == IF phase # "done" THEN [is |-> "none"]
                ELSE IF ~verdict THEN [is |-> "refused"]
                ELSE [is |-> "read", message |-> a]
<1>1. /\ kind' = kind /\ W' = W /\ R' = R /\ object' = object /\ lost' = lost
      /\ frames' = frames /\ phase' = "done" /\ verdict' = result
  BY DEF sending, Return, W, R
<1>2. d' = d /\ a' = a /\ whole' = whole
  BY <1>1
<1>3. o = [is |-> "none"]
  OBVIOUS
<1>4. CASE ~result
  <2>1. o' = [is |-> "refused"]
    BY <1>1, <1>4
  <2>2. ~Declared!Complete(d) \/ ~whole
    BY <1>4
  <2> QED
    BY <1>1, <1>2, <1>3, <2>1, <2>2
    DEF Declared!Next, Declared!Refuse, Declared!Refused, Declared!Nobody
<1>5. CASE result
  <2>1. o' = [is |-> "read", message |-> a]
    BY <1>1, <1>2, <1>5
  <2>2. CASE a = d /\ Declared!Complete(d)
    BY <1>1, <1>2, <1>3, <2>1, <2>2
    DEF Declared!Next, Declared!Accept, Declared!ReadAs, Declared!Nobody
  <2>3. CASE lost > 0 /\ Declared!Complete(a) /\ Declared!PartOf(a, d)
    <3>1. ~whole
      BY <2>3
    <3>2. o'.is = "read" /\ o'.message = a
      BY <2>1
    <3>3. Declared!AcceptPart
      BY <1>1, <1>2, <1>3, <2>3, <3>1, <3>2
      DEF Declared!AcceptPart, Declared!Nobody
    <3> QED
      BY <3>3 DEF Declared!Next
  <2> QED
    BY <1>5, <2>2, <2>3
<1> QED
  BY <1>4, <1>5

\* A step within the loop of the reader says nothing yet of the message.
LEMMA RefinesReading ==
  ASSUME phase = "parse", phase' = phase, UNCHANGED sending
  PROVE  UNCHANGED Declared!vars
<1> DEFINE d == Meaning(W, object)
<1>1. /\ kind' = kind /\ W' = W /\ object' = object /\ lost' = lost
  BY DEF sending, W
<1>2. d' = d
  BY <1>1
<1> QED
  BY <1>1, <1>2 DEF Declared!vars

\* The writer edits its message, and sends it whole or cut short.
LEMMA RefinesWriter ==
  ASSUME Built, Built', Reading, WriterNext
  PROVE  Declared!Next \/ UNCHANGED Declared!vars
<1> DEFINE d == Meaning(W, object)
           whole == lost = 0
<1>1. CASE Send
  <2>1. /\ kind' = kind /\ W' = W /\ object' = object
        /\ phase = "fill" /\ phase' = "parse"
    BY <1>1 DEF Send, W
  <2>2. d' = d /\ lost = 0
    BY <2>1 DEF Reading
  <2>3. CASE lost' = 0
    BY <2>1, <2>2, <2>3 DEF Declared!vars
  <2>4. CASE lost' # 0
    BY <2>1, <2>2, <2>4 DEF Declared!Next, Declared!Cut, Declared!Nobody
  <2> QED
    BY <2>3, <2>4
<1>2. CASE ~Send
  <2>1. PICK m : Fill(m)
    BY <1>2 DEF WriterNext, Set, Unset, Add, Drop, Extend
  <2>2. /\ kind' = kind /\ W' = W /\ R' = R /\ object' = m /\ lost' = lost
        /\ phase = "fill" /\ phase' = "fill"
    BY <2>1 DEF Fill, W, R
  <2>3. DOMAIN d'.set \subseteq
          Declared!Schema[kind].required \cup Declared!Schema[kind].optional
    <3> DEFINE k == W
               r == R
    <3>1. Declares(kind, r) /\ HasBits(k) /\ r.fields = k.fields
      BY ClassesAre
    <3>2. Shape(k, m)
      BY <2>2 DEF Built
    <3>3. d' = Meaning(k, m)
      BY <2>2
    <3> HIDE DEF k, r, d
    <3>4. DOMAIN Meaning(k, m).set \subseteq
            Declared!Schema[kind].required \cup Declared!Schema[kind].optional
      BY <3>1, <3>2, MeaningIsDeclared
    <3> QED
      BY <3>3, <3>4
  <2> QED
    BY <2>2, <2>3 DEF Declared!Next, Declared!Edit, Declared!Nobody
<1> QED
  BY <1>1, <1>2

\* The reader accepts what is complete and whole, and refuses what is not; of
\* what was cut short it may accept a part.
LEMMA RefinesReader ==
  ASSUME Built, Sent, Reading, ReaderNext
  PROVE  Declared!Next \/ UNCHANGED Declared!vars
<1>1. phase = "parse" /\ UNCHANGED sending
  BY DEF ReaderNext
<1>2. ASSUME Return(FALSE), lost > 0 \/ ~IsInitialized(R, object)
      PROVE  Declared!Next
  <2>1. lost > 0 \/ ~Declared!Complete(Meaning(W, object))
    BY <1>2, DraftIsComplete
  <2> QED
    BY <1>1, <1>2, <2>1, RefinesReturn
<1>3. ASSUME AtMessage, Return(TRUE), pos = Limit,
             IsInitialized(R, frames[1].msg)
      PROVE  Declared!Next
  <2>1. PICK msg : /\ frames = <<Frame(msg, Limit)>>
                   /\ Reached(W, object, wire, 0, pos, msg)
    BY <1>3 DEF AtMessage
  <2>2. frames[1].msg = msg
    BY <2>1, OneFrame
  <2>3. /\ Declared!Complete(Meaning(R, msg))
        /\ Declared!PartOf(Meaning(R, msg), Meaning(W, object))
    BY <1>3, <2>1, <2>2, ReachedIsPart
  <2>4. /\ lost \in Nat /\ size \in Nat /\ Limit = size - lost
        /\ EndOf(W, object, 0) = size
    BY <1>1, SentIsHeld
  <2>5. CASE lost = 0
    <3>1. pos = EndOf(W, object, 0)
      BY <1>3, <2>4, <2>5
    <3>2. msg = object
      BY <2>1, <3>1, BuiltIsExchanged, ReachedWithin
    <3>3. /\ Meaning(R, frames[1].msg) = Meaning(W, object)
          /\ Declared!Complete(Meaning(W, object))
      BY <2>2, <2>3, <3>2, DraftIsComplete
    <3> QED
      BY <1>1, <1>3, <3>3, RefinesReturn
  <2>6. CASE lost > 0
    BY <1>1, <1>3, <2>2, <2>3, <2>6, RefinesReturn
  <2> QED
    BY <2>4, <2>5, <2>6
<1>4. CASE AtMessage
  BY <1>1, <1>2, <1>3, <1>4, MessageTurn, RefinesReading
<1>5. CASE AtRecord
  BY <1>1, <1>2, <1>5, RecordStep, RefinesReading
<1>6. CASE CutOff
  BY <1>1, <1>2, <1>6, CutOffStep
<1> QED
  BY <1>1, <1>4, <1>5, <1>6 DEF Reading

\* A message is accepted exactly if no required field of it or of its records
\* is missing, and is then read as it was written; one that was announced too
\* short is refused unless nothing required is cut off (bike.pb.cpp).
THEOREM ExchangeRefinesBikeProto == Spec => ImplementsBikeProto
<1>1. /\ Built /\ Built' /\ Sent /\ Sent' /\ Reading /\ [Next]_vars
      => [Declared!Next]_(Declared!vars)
  <2> SUFFICES ASSUME Built, Built', Sent, Sent', Reading, [Next]_vars
               PROVE  Declared!Next \/ UNCHANGED Declared!vars
    OBVIOUS
  <2>1. CASE UNCHANGED vars
    <3> DEFINE d == Meaning(W, object)
               a == Meaning(R, frames[1].msg)
    <3>1. /\ kind' = kind /\ W' = W /\ R' = R /\ object' = object
          /\ lost' = lost /\ frames' = frames /\ phase' = phase
          /\ verdict' = verdict
      BY <2>1 DEF vars, sending, W, R
    <3>2. d' = d /\ a' = a
      BY <3>1
    <3> QED
      BY <3>1, <3>2 DEF Declared!vars
  <2>2. CASE Next
    BY <2>2, RefinesWriter, RefinesReader DEF Next
  <2> QED
    BY <2>1, <2>2
<1>2. Init => Declared!Init
  BY RefinesInit
<1> QED
  BY <1>1, <1>2, BuiltInvariant, SentInvariant, ReadingInvariant, PTL
  DEF Spec, Declared!Spec, ImplementsBikeProto
=============================================================================
