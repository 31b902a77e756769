--------------------------- MODULE ServerMessages ----------------------------
(***************************************************************************)
(* The message classes as the server is built with them: it reads          *)
(* requests and writes responses.  Protobuf says what the tables stand for. *)
(***************************************************************************)
EXTENDS Protobuf

-----------------------------------------------------------------------------

\* Written: mobile_response.
mobile_response_fields ==
  [data |-> "string", code |-> "int32", icode |-> "int32"]
mobile_response_has == [data |-> 0, code |-> 1, icode |-> 2]
mobile_response_SharedCtor == [data |-> <<>>, code |-> 0, icode |-> 0]
mobile_response_Clear == [data |-> {0}, code |-> {1, 2}, icode |-> {1, 2}]
mobile_response_write ==
  <<Write("code", 1, "int32", 1), Write("icode", 2, "int32", 2),
    Write("data", 3, "string", 0)>>
mobile_response_size ==
  [all |-> {1, 2}, required |-> [code |-> "int32", icode |-> "int32"],
   guarded |-> [data |-> "string"]]

\* Written: login_response.
login_response_fields == [desc |-> "string", code |-> "int32"]
login_response_has == [desc |-> 0, code |-> 1]
login_response_SharedCtor == [desc |-> <<>>, code |-> 0]
login_response_Clear == [desc |-> {0}, code |-> {}]
login_response_write ==
  <<Write("code", 1, "int32", 1), Write("desc", 2, "string", 0)>>
login_response_size ==
  [all |-> {}, required |-> <<>>,
   guarded |-> [code |-> "int32", desc |-> "string"]]

\* Written: recharge_response.
recharge_response_fields ==
  [desc |-> "string", code |-> "int32", balance |-> "int32"]
recharge_response_has == [desc |-> 0, code |-> 1, balance |-> 2]
recharge_response_SharedCtor == [desc |-> <<>>, code |-> 0, balance |-> 0]
recharge_response_Clear == [desc |-> {0}, code |-> {1, 2}, balance |-> {1, 2}]
recharge_response_write ==
  <<Write("code", 1, "int32", 1), Write("desc", 2, "string", 0),
    Write("balance", 3, "int32", 2)>>
recharge_response_size ==
  [all |-> {1, 2}, required |-> [code |-> "int32", balance |-> "int32"],
   guarded |-> [desc |-> "string"]]

\* Written: account_balance_response.
account_balance_response_fields ==
  [desc |-> "string", code |-> "int32", balance |-> "int32"]
account_balance_response_has == [desc |-> 0, code |-> 1, balance |-> 2]
account_balance_response_SharedCtor ==
  [desc |-> <<>>, code |-> 0, balance |-> 0]
account_balance_response_Clear ==
  [desc |-> {0}, code |-> {1, 2}, balance |-> {1, 2}]
account_balance_response_write ==
  <<Write("code", 1, "int32", 1), Write("desc", 2, "string", 0),
    Write("balance", 3, "int32", 2)>>
account_balance_response_size ==
  [all |-> {1, 2}, required |-> [code |-> "int32", balance |-> "int32"],
   guarded |-> [desc |-> "string"]]

\* Written: list_account_records_response_account_record.
list_account_records_response_account_record_fields ==
  [type |-> "int32", limit |-> "int32", timestamp |-> "uint64"]
list_account_records_response_account_record_has ==
  [type |-> 0, limit |-> 1, timestamp |-> 2]
list_account_records_response_account_record_SharedCtor ==
  [type |-> 0, limit |-> 0, timestamp |-> 0]
list_account_records_response_account_record_Clear ==
  [type |-> {0, 1, 2}, limit |-> {0, 1, 2}, timestamp |-> {0, 1, 2}]
list_account_records_response_account_record_write ==
  <<Write("type", 1, "int32", 0), Write("limit", 2, "int32", 1),
    Write("timestamp", 3, "uint64", 2)>>
list_account_records_response_account_record_size ==
  [all |-> {0, 1, 2},
   required |-> [type |-> "int32", limit |-> "int32",
                 timestamp |-> "uint64"],
   guarded |-> <<>>]

\* Written: list_account_records_response.
list_account_records_response_fields ==
  [records |-> "records", desc |-> "string", code |-> "int32"]
list_account_records_response_has == [desc |-> 0, code |-> 1]
list_account_records_response_SharedCtor ==
  [records |-> <<>>, desc |-> <<>>, code |-> 0]
list_account_records_response_Clear ==
  [records |-> {}, desc |-> {0}, code |-> {}]
list_account_records_response_write ==
  <<Write("code", 1, "int32", 1), Write("desc", 2, "string", 0),
    WriteEach("records", 3)>>
list_account_records_response_size ==
  [all |-> {}, required |-> <<>>,
   guarded |-> [code |-> "int32", desc |-> "string"]]

\* Written: list_travel_records_response_travel_record.
list_travel_records_response_travel_record_fields ==
  [stm |-> "uint64", duration |-> "uint32", amount |-> "uint32"]
list_travel_records_response_travel_record_has ==
  [stm |-> 0, duration |-> 1, amount |-> 2]
list_travel_records_response_travel_record_SharedCtor ==
  [stm |-> 0, duration |-> 0, amount |-> 0]
list_travel_records_response_travel_record_Clear ==
  [stm |-> {0, 1, 2}, duration |-> {0, 1, 2}, amount |-> {0, 1, 2}]
list_travel_records_response_travel_record_write ==
  <<Write("stm", 1, "uint64", 0), Write("duration", 2, "uint32", 1),
    Write("amount", 3, "uint32", 2)>>
list_travel_records_response_travel_record_size ==
  [all |-> {0, 1, 2},
   required |-> [stm |-> "uint64", duration |-> "uint32",
                 amount |-> "uint32"],
   guarded |-> <<>>]

\* Written: list_travel_records_response.
list_travel_records_response_fields ==
  [records |-> "records", desc |-> "string", mileage |-> "double",
   discharge |-> "double", calorie |-> "double", code |-> "int32"]
list_travel_records_response_has ==
  [desc |-> 0, mileage |-> 1, discharge |-> 2, calorie |-> 3, code |-> 4]
list_travel_records_response_SharedCtor ==
  [records |-> <<>>, desc |-> <<>>, mileage |-> ZeroDouble,
   discharge |-> ZeroDouble, calorie |-> ZeroDouble, code |-> 0]
list_travel_records_response_Clear ==
  [records |-> {}, desc |-> {0}, mileage |-> {1, 2, 3, 4},
   discharge |-> {1, 2, 3, 4}, calorie |-> {1, 2, 3, 4},
   code |-> {1, 2, 3, 4}]
list_travel_records_response_write ==
  <<Write("code", 1, "int32", 4), Write("desc", 2, "string", 0),
    Write("mileage", 3, "double", 1), Write("discharge", 4, "double", 2),
    Write("calorie", 5, "double", 3), WriteEach("records", 6)>>
list_travel_records_response_size ==
  [all |-> {1, 2, 3, 4},
   required |-> [mileage |-> "double", discharge |-> "double",
                 calorie |-> "double", code |-> "int32"],
   guarded |-> [desc |-> "string"]]
-----------------------------------------------------------------------------

\* Read: mobile_request.
mobile_request_fields == [mobile |-> "string"]
mobile_request_has == [mobile |-> 0]
mobile_request_SharedCtor == [mobile |-> <<>>]
mobile_request_Clear == [mobile |-> {0}]
mobile_request_read == [mobile |-> Case(1, 10, "string")]
mobile_request_needs == {0}

\* Read: login_request.
login_request_fields == [mobile |-> "string", icode |-> "int32"]
login_request_has == [mobile |-> 0, icode |-> 1]
login_request_SharedCtor == [mobile |-> <<>>, icode |-> 0]
login_request_Clear == [mobile |-> {0}, icode |-> {}]
login_request_read ==
  [mobile |-> Case(1, 10, "string"), icode |-> Case(2, 16, "int32")]
login_request_needs == {0, 1}

\* Read: recharge_request.
recharge_request_fields == [mobile |-> "string", amount |-> "int32"]
recharge_request_has == [mobile |-> 0, amount |-> 1]
recharge_request_SharedCtor == [mobile |-> <<>>, amount |-> 0]
recharge_request_Clear == [mobile |-> {0}, amount |-> {}]
recharge_request_read ==
  [mobile |-> Case(1, 10, "string"), amount |-> Case(2, 16, "int32")]
recharge_request_needs == {0, 1}

\* Read: account_balance_request.
account_balance_request_fields == [mobile |-> "string"]
account_balance_request_has == [mobile |-> 0]
account_balance_request_SharedCtor == [mobile |-> <<>>]
account_balance_request_Clear == [mobile |-> {0}]
account_balance_request_read == [mobile |-> Case(1, 10, "string")]
account_balance_request_needs == {0}

\* Read: list_account_records_request.
list_account_records_request_fields == [mobile |-> "string"]
list_account_records_request_has == [mobile |-> 0]
list_account_records_request_SharedCtor == [mobile |-> <<>>]
list_account_records_request_Clear == [mobile |-> {0}]
list_account_records_request_read == [mobile |-> Case(1, 10, "string")]
list_account_records_request_needs == {0}

\* Read: list_travel_records_request.
list_travel_records_request_fields == [mobile |-> "string"]
list_travel_records_request_has == [mobile |-> 0]
list_travel_records_request_SharedCtor == [mobile |-> <<>>]
list_travel_records_request_Clear == [mobile |-> {0}]
list_travel_records_request_read == [mobile |-> Case(1, 10, "string")]
list_travel_records_request_needs == {0}

Writers ==
  [mobile_response |->
     Writer(mobile_response_fields, mobile_response_has,
            mobile_response_SharedCtor, mobile_response_Clear,
            mobile_response_write, mobile_response_size, <<>>),
   login_response |->
     Writer(login_response_fields, login_response_has,
            login_response_SharedCtor, login_response_Clear,
            login_response_write, login_response_size, <<>>),
   recharge_response |->
     Writer(recharge_response_fields, recharge_response_has,
            recharge_response_SharedCtor, recharge_response_Clear,
            recharge_response_write, recharge_response_size, <<>>),
   account_balance_response |->
     Writer(account_balance_response_fields, account_balance_response_has,
            account_balance_response_SharedCtor,
            account_balance_response_Clear, account_balance_response_write,
            account_balance_response_size, <<>>),
   list_account_records_response |->
     Writer(list_account_records_response_fields,
            list_account_records_response_has,
            list_account_records_response_SharedCtor,
            list_account_records_response_Clear,
            list_account_records_response_write,
            list_account_records_response_size,
            Writer(list_account_records_response_account_record_fields,
                   list_account_records_response_account_record_has,
                   list_account_records_response_account_record_SharedCtor,
                   list_account_records_response_account_record_Clear,
                   list_account_records_response_account_record_write,
                   list_account_records_response_account_record_size, <<>>)),
   list_travel_records_response |->
     Writer(list_travel_records_response_fields,
            list_travel_records_response_has,
            list_travel_records_response_SharedCtor,
            list_travel_records_response_Clear,
            list_travel_records_response_write,
            list_travel_records_response_size,
            Writer(list_travel_records_response_travel_record_fields,
                   list_travel_records_response_travel_record_has,
                   list_travel_records_response_travel_record_SharedCtor,
                   list_travel_records_response_travel_record_Clear,
                   list_travel_records_response_travel_record_write,
                   list_travel_records_response_travel_record_size, <<>>))]

Readers ==
  [mobile_request |->
     Reader(mobile_request_fields, mobile_request_has,
            mobile_request_SharedCtor, mobile_request_Clear,
            mobile_request_read, mobile_request_needs, <<>>),
   login_request |->
     Reader(login_request_fields, login_request_has,
            login_request_SharedCtor, login_request_Clear,
            login_request_read, login_request_needs, <<>>),
   recharge_request |->
     Reader(recharge_request_fields, recharge_request_has,
            recharge_request_SharedCtor, recharge_request_Clear,
            recharge_request_read, recharge_request_needs, <<>>),
   account_balance_request |->
     Reader(account_balance_request_fields, account_balance_request_has,
            account_balance_request_SharedCtor,
            account_balance_request_Clear, account_balance_request_read,
            account_balance_request_needs, <<>>),
   list_account_records_request |->
     Reader(list_account_records_request_fields,
            list_account_records_request_has,
            list_account_records_request_SharedCtor,
            list_account_records_request_Clear,
            list_account_records_request_read,
            list_account_records_request_needs, <<>>),
   list_travel_records_request |->
     Reader(list_travel_records_request_fields,
            list_travel_records_request_has,
            list_travel_records_request_SharedCtor,
            list_travel_records_request_Clear,
            list_travel_records_request_read,
            list_travel_records_request_needs, <<>>)]
=============================================================================
