--------------------------- MODULE ClientMessages ----------------------------
(***************************************************************************)
(* The message classes as the client is built with them: it writes         *)
(* requests and reads responses.  Protobuf says what the tables stand for. *)
(***************************************************************************)
EXTENDS Protobuf

-----------------------------------------------------------------------------

\* Written: mobile_request.
mobile_request_fields == [mobile |-> "string"]
mobile_request_has == [mobile |-> 0]
mobile_request_SharedCtor == [mobile |-> <<>>]
mobile_request_Clear == [mobile |-> {0}]
mobile_request_write == <<Write("mobile", 1, "string", 0)>>
mobile_request_size ==
  [all |-> {}, required |-> <<>>, guarded |-> [mobile |-> "string"]]

\* Written: login_request.
login_request_fields == [mobile |-> "string", icode |-> "int32"]
login_request_has == [mobile |-> 0, icode |-> 1]
login_request_SharedCtor == [mobile |-> <<>>, icode |-> 0]
login_request_Clear == [mobile |-> {0}, icode |-> {}]
login_request_write ==
  <<Write("mobile", 1, "string", 0), Write("icode", 2, "int32", 1)>>
login_request_size ==
  [all |-> {0, 1}, required |-> [mobile |-> "string", icode |-> "int32"],
   guarded |-> <<>>]

\* Written: recharge_request.
recharge_request_fields == [mobile |-> "string", amount |-> "int32"]
recharge_request_has == [mobile |-> 0, amount |-> 1]
recharge_request_SharedCtor == [mobile |-> <<>>, amount |-> 0]
recharge_request_Clear == [mobile |-> {0}, amount |-> {}]
recharge_request_write ==
  <<Write("mobile", 1, "string", 0), Write("amount", 2, "int32", 1)>>
recharge_request_size ==
  [all |-> {0, 1}, required |-> [mobile |-> "string", amount |-> "int32"],
   guarded |-> <<>>]

\* Written: account_balance_request.
account_balance_request_fields == [mobile |-> "string"]
account_balance_request_has == [mobile |-> 0]
account_balance_request_SharedCtor == [mobile |-> <<>>]
account_balance_request_Clear == [mobile |-> {0}]
account_balance_request_write == <<Write("mobile", 1, "string", 0)>>
account_balance_request_size ==
  [all |-> {}, required |-> <<>>, guarded |-> [mobile |-> "string"]]

\* Written: list_account_records_request.
list_account_records_request_fields == [mobile |-> "string"]
list_account_records_request_has == [mobile |-> 0]
list_account_records_request_SharedCtor == [mobile |-> <<>>]
list_account_records_request_Clear == [mobile |-> {0}]
list_account_records_request_write == <<Write("mobile", 1, "string", 0)>>
list_account_records_request_size ==
  [all |-> {}, required |-> <<>>, guarded |-> [mobile |-> "string"]]

\* Written: list_travel_records_request.
list_travel_records_request_fields == [mobile |-> "string"]
list_travel_records_request_has == [mobile |-> 0]
list_travel_records_request_SharedCtor == [mobile |-> <<>>]
list_travel_records_request_Clear == [mobile |-> {0}]
list_travel_records_request_write == <<Write("mobile", 1, "string", 0)>>
list_travel_records_request_size ==
  [all |-> {}, required |-> <<>>, guarded |-> [mobile |-> "string"]]
-----------------------------------------------------------------------------

\* Read: mobile_response.
mobile_response_fields ==
  [data |-> "string", code |-> "int32", icode |-> "int32"]
mobile_response_has == [data |-> 0, code |-> 1, icode |-> 2]
mobile_response_SharedCtor == [data |-> <<>>, code |-> 0, icode |-> 0]
mobile_response_Clear == [data |-> {0}, code |-> {1, 2}, icode |-> {1, 2}]
mobile_response_read ==
  [code |-> Case(1, 8, "int32"), icode |-> Case(2, 16, "int32"),
   data |-> Case(3, 26, "string")]
mobile_response_needs == {1, 2}

\* Read: login_response.
login_response_fields == [desc |-> "string", code |-> "int32"]
login_response_has == [desc |-> 0, code |-> 1]
login_response_SharedCtor == [desc |-> <<>>, code |-> 0]
login_response_Clear == [desc |-> {0}, code |-> {}]
login_response_read ==
  [code |-> Case(1, 8, "int32"), desc |-> Case(2, 18, "string")]
login_response_needs == {1}

\* Read: recharge_response.
recharge_response_fields ==
  [desc |-> "string", code |-> "int32", balance |-> "int32"]
recharge_response_has == [desc |-> 0, code |-> 1, balance |-> 2]
recharge_response_SharedCtor == [desc |-> <<>>, code |-> 0, balance |-> 0]
recharge_response_Clear == [desc |-> {0}, code |-> {1, 2}, balance |-> {1, 2}]
recharge_response_read ==
  [code |-> Case(1, 8, "int32"), desc |-> Case(2, 18, "string"),
   balance |-> Case(3, 24, "int32")]
recharge_response_needs == {1, 2}

\* Read: account_balance_response.
account_balance_response_fields ==
  [desc |-> "string", code |-> "int32", balance |-> "int32"]
account_balance_response_has == [desc |-> 0, code |-> 1, balance |-> 2]
account_balance_response_SharedCtor ==
  [desc |-> <<>>, code |-> 0, balance |-> 0]
account_balance_response_Clear ==
  [desc |-> {0}, code |-> {1, 2}, balance |-> {1, 2}]
account_balance_response_read ==
  [code |-> Case(1, 8, "int32"), desc |-> Case(2, 18, "string"),
   balance |-> Case(3, 24, "int32")]
account_balance_response_needs == {1, 2}

\* Read: list_account_records_response_account_record.
list_account_records_response_account_record_fields ==
  [type |-> "int32", limit |-> "int32", timestamp |-> "uint64"]
list_account_records_response_account_record_has ==
  [type |-> 0, limit |-> 1, timestamp |-> 2]
list_account_records_response_account_record_SharedCtor ==
  [type |-> 0, limit |-> 0, timestamp |-> 0]
list_account_records_response_account_record_Clear ==
  [type |-> {0, 1, 2}, limit |-> {0, 1, 2}, timestamp |-> {0, 1, 2}]
list_account_records_response_account_record_read ==
  [type |-> Case(1, 8, "int32"), limit |-> Case(2, 16, "int32"),
   timestamp |-> Case(3, 24, "uint64")]
list_account_records_response_account_record_needs == {0, 1, 2}

\* Read: list_account_records_response.
list_account_records_response_fields ==
  [records |-> "records", desc |-> "string", code |-> "int32"]
list_account_records_response_has == [desc |-> 0, code |-> 1]
list_account_records_response_SharedCtor ==
  [records |-> <<>>, desc |-> <<>>, code |-> 0]
list_account_records_response_Clear ==
  [records |-> {}, desc |-> {0}, code |-> {}]
list_account_records_response_read ==
  [code |-> Case(1, 8, "int32"), desc |-> Case(2, 18, "string"),
   records |-> Case(3, 26, "records")]
list_account_records_response_needs == {1}

\* Read: list_travel_records_response_travel_record.
list_travel_records_response_travel_record_fields ==
  [stm |-> "uint64", duration |-> "uint32", amount |-> "uint32"]
list_travel_records_response_travel_record_has ==
  [stm |-> 0, duration |-> 1, amount |-> 2]
list_travel_records_response_travel_record_SharedCtor ==
  [stm |-> 0, duration |-> 0, amount |-> 0]
list_travel_records_response_travel_record_Clear ==
  [stm |-> {0, 1, 2}, duration |-> {0, 1, 2}, amount |-> {0, 1, 2}]
list_travel_records_response_travel_record_read ==
  [stm |-> Case(1, 8, "uint64"), duration |-> Case(2, 16, "uint32"),
   amount |-> Case(3, 24, "uint32")]
list_travel_records_response_travel_record_needs == {0, 1, 2}

\* Read: list_travel_records_response.
list_travel_records_response_fields ==
  [records |-> "records", desc |-> "string", mileage |-> "double",
   discharge |-> "double", calorie |-> "double", code |-> "int32"]
list_travel_records_response_has ==
  [desc |-> 0, mileage |-> 1, discharge |-> 2, calorie |-> 3, code |-> 4]
list_travel_records_response_SharedCtor ==
  [records |-> <<>>, desc |-> <<>>, mileage |-> ZeroDouble,
   discharge |-> ZeroDouble, calorie |-> ZeroDouble, code |-> 0]
list_travel_records_response_Clear ==
  [records |-> {}, desc |-> {0}, mileage |-> {1, 2, 3, 4},
   discharge |-> {1, 2, 3, 4}, calorie |-> {1, 2, 3, 4},
   code |-> {1, 2, 3, 4}]
list_travel_records_response_read ==
  [code |-> Case(1, 8, "int32"), desc |-> Case(2, 18, "string"),
   mileage |-> Case(3, 25, "double"), discharge |-> Case(4, 33, "double"),
   calorie |-> Case(5, 41, "double"), records |-> Case(6, 50, "records")]
list_travel_records_response_needs == {1, 2, 3, 4}

Writers ==
  [mobile_request |->
     Writer(mobile_request_fields, mobile_request_has,
            mobile_request_SharedCtor, mobile_request_Clear,
            mobile_request_write, mobile_request_size, <<>>),
   login_request |->
     Writer(login_request_fields, login_request_has,
            login_request_SharedCtor, login_request_Clear,
            login_request_write, login_request_size, <<>>),
   recharge_request |->
     Writer(recharge_request_fields, recharge_request_has,
            recharge_request_SharedCtor, recharge_request_Clear,
            recharge_request_write, recharge_request_size, <<>>),
   account_balance_request |->
     Writer(account_balance_request_fields, account_balance_request_has,
            account_balance_request_SharedCtor,
            account_balance_request_Clear, account_balance_request_write,
            account_balance_request_size, <<>>),
   list_account_records_request |->
     Writer(list_account_records_request_fields,
            list_account_records_request_has,
            list_account_records_request_SharedCtor,
            list_account_records_request_Clear,
            list_account_records_request_write,
            list_account_records_request_size, <<>>),
   list_travel_records_request |->
     Writer(list_travel_records_request_fields,
            list_travel_records_request_has,
            list_travel_records_request_SharedCtor,
            list_travel_records_request_Clear,
            list_travel_records_request_write,
            list_travel_records_request_size, <<>>)]

Readers ==
  [mobile_response |->
     Reader(mobile_response_fields, mobile_response_has,
            mobile_response_SharedCtor, mobile_response_Clear,
            mobile_response_read, mobile_response_needs, <<>>),
   login_response |->
     Reader(login_response_fields, login_response_has,
            login_response_SharedCtor, login_response_Clear,
            login_response_read, login_response_needs, <<>>),
   recharge_response |->
     Reader(recharge_response_fields, recharge_response_has,
            recharge_response_SharedCtor, recharge_response_Clear,
            recharge_response_read, recharge_response_needs, <<>>),
   account_balance_response |->
     Reader(account_balance_response_fields, account_balance_response_has,
            account_balance_response_SharedCtor,
            account_balance_response_Clear, account_balance_response_read,
            account_balance_response_needs, <<>>),
   list_account_records_response |->
     Reader(list_account_records_response_fields,
            list_account_records_response_has,
            list_account_records_response_SharedCtor,
            list_account_records_response_Clear,
            list_account_records_response_read,
            list_account_records_response_needs,
            Reader(list_account_records_response_account_record_fields,
                   list_account_records_response_account_record_has,
                   list_account_records_response_account_record_SharedCtor,
                   list_account_records_response_account_record_Clear,
                   list_account_records_response_account_record_read,
                   list_account_records_response_account_record_needs, <<>>)),
   list_travel_records_response |->
     Reader(list_travel_records_response_fields,
            list_travel_records_response_has,
            list_travel_records_response_SharedCtor,
            list_travel_records_response_Clear,
            list_travel_records_response_read,
            list_travel_records_response_needs,
            Reader(list_travel_records_response_travel_record_fields,
                   list_travel_records_response_travel_record_has,
                   list_travel_records_response_travel_record_SharedCtor,
                   list_travel_records_response_travel_record_Clear,
                   list_travel_records_response_travel_record_read,
                   list_travel_records_response_travel_record_needs, <<>>))]
=============================================================================
