------------------------------ MODULE BikeProto ------------------------------
(***************************************************************************)
(* What bike.proto promises of one message from one side to the other: the *)
(* reader gets exactly the fields the writer set, with their values, and   *)
(* accepts the message if and only if no required field is missing.        *)
(*                                                                         *)
(* A message is [set, extra]: the values of the fields that are set, and   *)
(* the fields a newer writer added, which the reader passes over.          *)
(***************************************************************************)
EXTENDS Naturals, Sequences

VARIABLES
  kind,     \* the message type
  draft,    \* the message as its writer has it
  whole,    \* FALSE if the end of its bytes was cut off
  outcome   \* what became of it

vars == <<kind, draft, whole, outcome>>

Declared(required, optional) == [required |-> required, optional |-> optional]

\* The messages of bike.proto.  A list also has repeated records.
Schema ==
  [mobile_request |-> Declared({"mobile"}, {}),
   mobile_response |-> Declared({"code", "icode"}, {"data"}),
   login_request |-> Declared({"mobile", "icode"}, {}),
   login_response |-> Declared({"code"}, {"desc"}),
   recharge_request |-> Declared({"mobile", "amount"}, {}),
   recharge_response |-> Declared({"code", "balance"}, {"desc"}),
   account_balance_request |-> Declared({"mobile"}, {}),
   account_balance_response |-> Declared({"code", "balance"}, {"desc"}),
   list_account_records_request |-> Declared({"mobile"}, {}),
   list_account_records_response |-> Declared({"code"}, {"desc", "records"}),
   list_travel_records_request |-> Declared({"mobile"}, {}),
   list_travel_records_response |->
     Declared({"code", "mileage", "discharge", "calorie"}, {"desc", "records"})]

\* The records nested in the two lists; all their fields are required.
RecordSchema ==
  [list_account_records_response |-> {"type", "limit", "timestamp"},
   list_travel_records_response |-> {"stm", "duration", "amount"}]

Nobody == [is |-> "none"]
Refused == [is |-> "refused"]
ReadAs(m) == [is |-> "read", message |-> m]

RecordsOf(m) == IF "records" \in DOMAIN m.set THEN m.set.records ELSE <<>>

Complete(m) ==
  /\ Schema[kind].required \subseteq DOMAIN m.set
  /\ \A i \in DOMAIN RecordsOf(m) :
       RecordSchema[kind] \subseteq DOMAIN RecordsOf(m)[i].set

\* m lacks something of d that nobody requires: optional fields, the last of
\* its records, or added fields.  What it has, it has as d does.
PartOf(m, d) ==
  /\ \A f \in DOMAIN m.set \ {"records"} :
       f \in DOMAIN d.set /\ m.set[f] = d.set[f]
  /\ \A i \in DOMAIN RecordsOf(m) :
       /\ i \in DOMAIN RecordsOf(d)
       /\ RecordsOf(m)[i].set = RecordsOf(d)[i].set
  /\ m.extra \in {<<>>, d.extra}

-----------------------------------------------------------------------------

Init ==
  /\ kind \in DOMAIN Schema
  /\ draft = [set |-> <<>>, extra |-> <<>>]
  /\ whole = TRUE
  /\ outcome = Nobody

Edit ==
  /\ outcome = Nobody
  /\ DOMAIN draft'.set \subseteq Schema[kind].required \cup Schema[kind].optional
  /\ UNCHANGED <<kind, whole, outcome>>

Cut ==
  /\ outcome = Nobody
  /\ whole' = FALSE
  /\ UNCHANGED <<kind, draft, outcome>>

Accept ==
  /\ outcome = Nobody
  /\ outcome' = ReadAs(draft)
  /\ Complete(draft)
  /\ UNCHANGED <<kind, draft, whole>>

Refuse ==
  /\ outcome = Nobody
  /\ outcome' = Refused
  /\ ~Complete(draft) \/ ~whole
  /\ UNCHANGED <<kind, draft, whole>>

AcceptPart ==
  /\ outcome = Nobody
  /\ ~whole
  /\ outcome'.is = "read"
  /\ Complete(outcome'.message)
  /\ PartOf(outcome'.message, draft)
  /\ UNCHANGED <<kind, draft, whole>>

Next == Edit \/ Cut \/ Accept \/ Refuse \/ AcceptPart

Spec == Init /\ [][Next]_vars
=============================================================================
