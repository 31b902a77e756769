--------------------------- MODULE UserEventHandler ---------------------------
(***************************************************************************)
(* The business handlers the workers of the pool run: UserEventHandler and *)
(* UserService over a MysqlConnection.  Several workers are inside         *)
(* UserEventHandler::handle at once and share the map m2c_ (under pm_),    *)
(* the generator of the C library, and the table userinfo, for which each  *)
(* login opens a connection of its own and no transaction.                 *)
(*                                                                         *)
(* A mobile is a model value, and so is a row of userinfo up to its column *)
(* mobile.  exist and insert paste the text of a mobile, without quotes,   *)
(* into a statement of at most 1023 bytes; a model value stands for a text *)
(* that is a number which fits, so that the statement is about its rows    *)
(* and no others.  A statement is atomic in the database; one that fails   *)
(* may have taken effect there, when its answer is what was lost.          *)
(***************************************************************************)
EXTENDS Integers, FiniteSets

CONSTANTS
  Workers,      \* the threads of the pool
  Mobiles,      \* mobiles, each the text of a number
  MaxSeconds,   \* how long a behaviour lasts (bounds it)
  CodeOf,       \* CodeOf[t]: what rand() yields after srand(t), as a code
  MaxRequests,  \* how many requests reach the handlers (bounds a behaviour)
  DbFails,      \* TRUE if connections and statements may fail
  None

Seconds == 0 .. MaxSeconds

\* What the handlers answer: a code, or the result of a login.
Answers == {"code", "invalid", "failed", "success"}

ASSUME HandlerAssumption ==
  /\ IsFiniteSet(Workers) /\ Workers # {}
  /\ MaxSeconds \in Nat /\ MaxRequests \in Nat
  /\ DOMAIN CodeOf = Seconds
  /\ DbFails \in BOOLEAN
  /\ None \notin Workers /\ None \notin Answers
  /\ None \notin {CodeOf[t] : t \in Seconds}

Codes == {CodeOf[t] : t \in Seconds}

\* handle is given a MobileCodeReqEv or a LoginReqEv.
Events ==
  [eid : {"mobile"}, mobile : Mobiles, icode : {None}]
    \cup [eid : {"login"}, mobile : Mobiles, icode : Codes]

VARIABLES
  clock,   \* the time in seconds
  begun,   \* how many requests have reached the handlers
  pm,      \* the thread that holds pm_, or None
  seed,    \* the state of the generator
  m2c,     \* m2c_: the code of each mobile, or None
  latest,  \* the code each mobile was issued last, or None (history)
  fresh,   \* the codes that were the latest of its mobile at some time since
           \* a worker was given its event (history)
  rows,    \* how many rows of userinfo have this mobile
  misses,  \* how many times a SELECT for this mobile failed
  wpc,     \* where each worker is
  ev,      \* the event it handles
  second,  \* what time(NULL) returned to it
  icode,   \* the code it generated
  linked,  \* TRUE if mysql_real_connect succeeded
  rsp      \* the response it has made, or None

env == <<clock, begun>>
book == <<m2c, latest, fresh>>
table == <<rows, misses>>
drawn == <<second, icode>>
vars == <<env, pm, seed, book, table, wpc, ev, drawn, linked, rsp>>

Locked == {"srand", "rand", "store", "verify", "unlock"}
PCs == Locked \cup {"idle", "lock", "init", "exist", "insert", "done"}

Inserting(m) == {w \in Workers : wpc[w] = "insert" /\ ev[w].mobile = m}

-----------------------------------------------------------------------------

Init ==
  /\ clock = 0
  /\ begun = 0
  /\ pm = None
  /\ seed = 0
  /\ m2c = [m \in Mobiles |-> None]
  /\ latest = [m \in Mobiles |-> None]
  /\ fresh = [w \in Workers |-> {}]
  /\ rows \in [Mobiles -> {0, 1}]
  /\ misses = [m \in Mobiles |-> 0]
  /\ wpc = [w \in Workers |-> "idle"]
  /\ ev = [w \in Workers |-> None]
  /\ second = [w \in Workers |-> 0]
  /\ icode = [w \in Workers |-> None]
  /\ linked = [w \in Workers |-> FALSE]
  /\ rsp = [w \in Workers |-> None]

Tick ==
  /\ clock < MaxSeconds
  /\ clock' = clock + 1
  /\ UNCHANGED <<begun, pm, seed, book, table, wpc, ev, drawn, linked, rsp>>

\* The pool runs svc on an event, and process calls handle with it.
Handle(w, e) ==
  /\ wpc[w] = "idle"
  /\ begun < MaxRequests
  /\ begun' = begun + 1
  /\ ev' = [ev EXCEPT ![w] = e]
  /\ fresh' = [fresh EXCEPT ![w] = {latest[e.mobile]} \ {None}]
  /\ rsp' = [rsp EXCEPT ![w] = None]
  /\ wpc' = [wpc EXCEPT ![w] = "lock"]
  /\ UNCHANGED <<clock, pm, seed, m2c, latest, table, drawn, linked>>

\* handle calls handle_mobile_code_req or handle_login_req.
Branch(eid) == IF eid = "mobile" THEN "srand" ELSE "verify"

\* Mutant of Lock: pm_ is not waited for.
LockAnyway(w) ==
  /\ wpc[w] = "lock"
  /\ pm' = w
  /\ wpc' = [wpc EXCEPT ![w] = Branch(ev[w].eid)]
  /\ UNCHANGED <<env, seed, book, table, ev, drawn, linked, rsp>>

\* Both handlers begin with thread_mutex_lock(&pm_).
Lock(w) ==
  /\ wpc[w] = "lock"
  /\ pm = None
  /\ pm' = w
  /\ wpc' = [wpc EXCEPT ![w] = Branch(ev[w].eid)]
  /\ UNCHANGED <<env, seed, book, table, ev, drawn, linked, rsp>>

(***************************************************************************)
(* handle_mobile_code_req.                                                 *)
(***************************************************************************)

\* Mutant of Srand: code_gen returns before it calls rand().
SrandOnly(w) ==
  /\ wpc[w] = "srand"
  /\ second' = [second EXCEPT ![w] = clock]
  /\ seed' = clock
  /\ wpc' = [wpc EXCEPT ![w] = "store"]
  /\ UNCHANGED <<env, pm, book, table, ev, icode, linked, rsp>>

\* code_gen: srand(time(NULL)).
Srand(w) ==
  /\ wpc[w] = "srand"
  /\ second' = [second EXCEPT ![w] = clock]
  /\ seed' = clock
  /\ wpc' = [wpc EXCEPT ![w] = "rand"]
  /\ UNCHANGED <<env, pm, book, table, ev, icode, linked, rsp>>

\* code_gen: rand().
Rand(w) ==
  /\ wpc[w] = "rand"
  /\ icode' = [icode EXCEPT ![w] = CodeOf[seed]]
  /\ wpc' = [wpc EXCEPT ![w] = "store"]
  /\ UNCHANGED <<env, pm, seed, book, table, ev, second, linked, rsp>>

\* The history of a Store: every login for the mobile that is being handled
\* may find the new code.
Issue(m, code) ==
  /\ latest' = [latest EXCEPT ![m] = code]
  /\ fresh' = [v \in Workers |-> IF wpc[v] # "idle" /\ ev[v].mobile = m
                                 THEN fresh[v] \cup {code}
                                 ELSE fresh[v]]

\* Mutant of Store: m2c_.insert in place of m2c_[mobile] =, which keeps a code
\* that is already there.
StoreFirst(w) ==
  /\ wpc[w] = "store"
  /\ m2c' = [m2c EXCEPT ![ev[w].mobile] = IF @ = None THEN icode[w] ELSE @]
  /\ Issue(ev[w].mobile, icode[w])
  /\ rsp' = [rsp EXCEPT ![w] = "code"]
  /\ wpc' = [wpc EXCEPT ![w] = "unlock"]
  /\ UNCHANGED <<env, pm, seed, table, ev, drawn, linked>>

\* m2c_[mobile] = icode; the response that will carry it.
Store(w) ==
  /\ wpc[w] = "store"
  /\ m2c' = [m2c EXCEPT ![ev[w].mobile] = icode[w]]
  /\ Issue(ev[w].mobile, icode[w])
  /\ rsp' = [rsp EXCEPT ![w] = "code"]
  /\ wpc' = [wpc EXCEPT ![w] = "unlock"]
  /\ UNCHANGED <<env, pm, seed, table, ev, drawn, linked>>

(***************************************************************************)
(* handle_login_req.                                                       *)
(***************************************************************************)

\* The mobile is not in m2c_, or it is there with another code.
WrongCode(w) == m2c[ev[w].mobile] = None \/ m2c[ev[w].mobile] # ev[w].icode

Verify(w) ==
  /\ wpc[w] = "verify"
  /\ rsp' = [rsp EXCEPT ![w] = IF WrongCode(w) THEN "invalid" ELSE None]
  /\ wpc' = [wpc EXCEPT ![w] = "unlock"]
  /\ UNCHANGED <<env, pm, seed, book, table, ev, drawn, linked>>

\* Mutant of Unlock: a response already made is returned with pm_ held.
UnlockUnlessAnswered(w) ==
  /\ wpc[w] = "unlock"
  /\ pm' = IF rsp[w] = "invalid" THEN pm ELSE None
  /\ wpc' = [wpc EXCEPT ![w] = IF rsp[w] # None THEN "done" ELSE "init"]
  /\ UNCHANGED <<env, seed, book, table, ev, drawn, linked, rsp>>

\* Both handlers unlock pm_; a response already made is returned.
Unlock(w) ==
  /\ wpc[w] = "unlock"
  /\ pm' = None
  /\ wpc' = [wpc EXCEPT ![w] = IF rsp[w] # None THEN "done" ELSE "init"]
  /\ UNCHANGED <<env, seed, book, table, ev, drawn, linked, rsp>>

\* MysqlConnection::Init returns true when mysql_real_connect fails, too.
InitConnection(w) ==
  /\ wpc[w] = "init"
  /\ \E up \in (IF DbFails THEN BOOLEAN ELSE {TRUE}) :
       linked' = [linked EXCEPT ![w] = up]
  /\ wpc' = [wpc EXCEPT ![w] = "exist"]
  /\ UNCHANGED <<env, pm, seed, book, table, ev, drawn, rsp>>

\* MysqlConnection::Init returns FALSE when mysql_init makes no handle.
InitFails(w) ==
  /\ wpc[w] = "init"
  /\ DbFails
  /\ rsp' = [rsp EXCEPT ![w] = "failed"]
  /\ wpc' = [wpc EXCEPT ![w] = "done"]
  /\ UNCHANGED <<env, pm, seed, book, table, ev, drawn, linked>>

\* A statement may fail: always when there never was a connection.  A
\* connection that was lost is made again by mysql_ping or by the client
\* library (MYSQL_OPT_RECONNECT), so the next statement may succeed.
MayFail(w) == DbFails \/ ~linked[w]
MaySucceed(w) == linked[w]

\* UserService::exist answers "yes", or "no", which is also what it answers
\* when the SELECT fails.
ExistFound(w) ==
  /\ wpc[w] = "exist"
  /\ MaySucceed(w)
  /\ rows[ev[w].mobile] > 0
  /\ rsp' = [rsp EXCEPT ![w] = "success"]
  /\ wpc' = [wpc EXCEPT ![w] = "done"]
  /\ UNCHANGED <<env, pm, seed, book, table, ev, drawn, linked>>

\* Mutant of ExistNotFound: the number of rows is not looked at.
ExistNever(w) ==
  /\ wpc[w] = "exist"
  /\ wpc' = [wpc EXCEPT ![w] = "insert"]
  /\ UNCHANGED <<env, pm, seed, book, table, ev, drawn, linked, rsp>>

ExistNotFound(w) ==
  /\ wpc[w] = "exist"
  /\ \/ MaySucceed(w) /\ rows[ev[w].mobile] = 0 /\ UNCHANGED misses
     \/ MayFail(w) /\ misses' = [misses EXCEPT ![ev[w].mobile] = @ + 1]
  /\ wpc' = [wpc EXCEPT ![w] = "insert"]
  /\ UNCHANGED <<env, pm, seed, book, rows, ev, drawn, linked, rsp>>

\* UserService::insert.  userinfo has no unique key on mobile: a row is added
\* whatever is there.
InsertSucceeds(w) ==
  /\ wpc[w] = "insert"
  /\ MaySucceed(w)
  /\ rows' = [rows EXCEPT ![ev[w].mobile] = @ + 1]
  /\ rsp' = [rsp EXCEPT ![w] = "success"]
  /\ wpc' = [wpc EXCEPT ![w] = "done"]
  /\ UNCHANGED <<env, pm, seed, book, misses, ev, drawn, linked>>

\* Mutant of InsertFails: the result of insert is not looked at.
InsertUnchecked(w) ==
  /\ wpc[w] = "insert"
  /\ MayFail(w)
  /\ rsp' = [rsp EXCEPT ![w] = "success"]
  /\ wpc' = [wpc EXCEPT ![w] = "done"]
  /\ UNCHANGED <<env, pm, seed, book, table, ev, drawn, linked>>

\* The row may be there all the same.
InsertFails(w) ==
  /\ wpc[w] = "insert"
  /\ MayFail(w)
  /\ \/ UNCHANGED rows
     \/ MaySucceed(w) /\ rows' = [rows EXCEPT ![ev[w].mobile] = @ + 1]
  /\ rsp' = [rsp EXCEPT ![w] = "failed"]
  /\ wpc' = [wpc EXCEPT ![w] = "done"]
  /\ UNCHANGED <<env, pm, seed, book, misses, ev, drawn, linked>>

\* handle returns the response to process, and the connection is closed.
Return(w) ==
  /\ wpc[w] = "done"
  /\ ev' = [ev EXCEPT ![w] = None]
  /\ fresh' = [fresh EXCEPT ![w] = {}]
  /\ linked' = [linked EXCEPT ![w] = FALSE]
  /\ wpc' = [wpc EXCEPT ![w] = "idle"]
  /\ UNCHANGED <<env, pm, seed, m2c, latest, table, drawn, rsp>>

-----------------------------------------------------------------------------

\* What a worker does on its own once it is in handle, but for Lock.
Step(w) ==
  \/ Srand(w) \/ Rand(w) \/ Store(w) \/ Verify(w) \/ Unlock(w)
  \/ InitConnection(w) \/ InitFails(w) \/ ExistFound(w) \/ ExistNotFound(w)
  \/ InsertSucceeds(w) \/ InsertFails(w) \/ Return(w)

Next ==
  \/ Tick
  \/ \E w \in Workers : Lock(w) \/ Step(w) \/ \E e \in Events : Handle(w, e)

Spec == Init /\ [][Next]_vars

(***************************************************************************)
(* A worker that is not blocked goes on, pm_ starves nobody for ever, and  *)
(* the client library answers every call.  Nothing is assumed of requests. *)
(***************************************************************************)
FairSpec ==
  Spec /\ \A w \in Workers : WF_vars(Step(w)) /\ SF_vars(Lock(w))

-----------------------------------------------------------------------------

TypeOK ==
  /\ clock \in Seconds /\ seed \in Seconds
  /\ begun \in 0 .. MaxRequests
  /\ pm \in Workers \cup {None}
  /\ m2c \in [Mobiles -> Codes \cup {None}]
  /\ latest \in [Mobiles -> Codes \cup {None}]
  /\ fresh \in [Workers -> SUBSET Codes]
  /\ rows \in [Mobiles -> Nat] /\ misses \in [Mobiles -> Nat]
  /\ wpc \in [Workers -> PCs]
  /\ ev \in [Workers -> Events \cup {None}]
  /\ second \in [Workers -> Seconds]
  /\ icode \in [Workers -> Codes \cup {None}]
  /\ linked \in [Workers -> BOOLEAN]
  /\ rsp \in [Workers -> Answers \cup {None}]

(***************************************************************************)
(* The code a worker generates is the one of the second it read, although  *)
(* the generator is shared by all workers: pm_ covers srand and rand       *)
(* (user_event_handler.cpp:75-80, 87-95).                                  *)
(***************************************************************************)
CodeFromOwnSecond ==
  \A w \in Workers : wpc[w] = "store" => icode[w] = CodeOf[second[w]]

(***************************************************************************)
(* Nobody reaches the database, or is told that a login succeeded, but     *)
(* with the code that was the latest of that mobile at some moment while   *)
(* the login was handled.  m2c_ is read under pm_ and what was found there *)
(* is used after the unlock, so the code may be replaced in between; one   *)
(* that was replaced before the login came never passes                    *)
(* (user_event_handler.cpp:77-78, 106-119, 135-146).                       *)
(***************************************************************************)
VerifiedBeforeDb ==
  \A w \in Workers :
    \/ wpc[w] \in {"init", "exist", "insert"}
    \/ wpc[w] = "done" /\ rsp[w] = "success"
    => ev[w].icode \in fresh[w]

(***************************************************************************)
(* A login that succeeds leaves the user with a row in userinfo, whatever  *)
(* fails on the way to it (user_event_handler.cpp:135-146).  This is said  *)
(* of mobiles that are numbers: with another text the SELECT of            *)
(* user_service.cpp:14 may find rows that are not this user's.             *)
(***************************************************************************)
SuccessMeansRegistered ==
  \A w \in Workers :
    wpc[w] = "done" /\ rsp[w] = "success" => rows[ev[w].mobile] > 0

(***************************************************************************)
(* A mobile gets at most as many rows as there are workers and as SELECTs  *)
(* for it failed, however many logins there are: only logins that looked   *)
(* before the first of them inserted, or could not look, add a row         *)
(* (user_event_handler.cpp:135-137, user_service.cpp:16-22).               *)
(***************************************************************************)
RowsPerRace ==
  \A m \in Mobiles :
    rows[m] + Cardinality(Inserting(m)) <= Cardinality(Workers) + misses[m]

(***************************************************************************)
(* Every request handed to handle is answered: pm_ is released on every    *)
(* path, that of an invalid code included (user_event_handler.cpp:106-119).*)
(***************************************************************************)
EveryRequestReturns == \A w \in Workers : wpc[w] = "lock" ~> wpc[w] = "done"

-----------------------------------------------------------------------------
(***************************************************************************)
(* What a comment of the code says, which the code does not keep.          *)
(***************************************************************************)

\* user_event_handler.cpp:121 says that a login inserts a record when the
\* user does not exist: no user is registered twice.
RegisteredOnce == \A m \in Mobiles : rows[m] <= 1
=============================================================================
