------------------------------- MODULE Startup -------------------------------
(***************************************************************************)
(* How the server comes up: main, from its arguments to the loop, with     *)
(* every failure main looks at and every one it ignores, and what the      *)
(* first requests then find.  One action is one call main makes, or one of *)
(* the calls thread_pool_init makes, because the workers run from the      *)
(* moment they are created.                                                *)
(*                                                                         *)
(* Undefined behaviour is a choice: a worker that locks a mutex in freed   *)
(* memory gets an error, waits for ever or crashes the process, and so     *)
(* does one that locks pm_ when that was never made, or it just goes on.   *)
(* The counter `waiting' and its limit are in ThreadPool.                  *)
(***************************************************************************)
EXTENDS Integers, Sequences, FiniteSets, SequencesExt

CONSTANTS
  Workers,      \* the threads thread_pool_init is to create
  MaxRequests,  \* how many requests arrive (bounds a behaviour)
  Null

Tables == {"userinfo", "bikeinfo"}
Locks == {"pm_", "queue_mutex", "mtx", "cond"}

\* The event ids of the requests, and those of the responses.
Requests == {"mobile_code_req", "login_req", "recharge_req"}
Responses == {"mobile_code_rsp", "login_rsp", "exit_rsp"}

ASSUME StartupAssumption ==
  /\ IsFiniteSet(Workers) /\ Workers # {}
  /\ MaxRequests \in Nat
  /\ Null \notin Responses

VARIABLES
  at,           \* the call main is at, or how the process ended
  logger,       \* TRUE if category_ was set
  loaded,       \* Iniconfig::_isload
  linked,       \* TRUE while the connection of main is up
  dbFailed,     \* TRUE if connecting or a statement failed
  tables,       \* the tables in the database
  subscribers,  \* subscribers_: the handlers of each event id
  made,         \* the mutexes and the condition variable that were made
  pool,         \* the memory of the pool: none, live or freed
  tp,           \* TRUE if DispatchMsgService::tp is not NULL
  base,         \* TRUE if there is an event base
  listener,     \* TRUE if there is a listener
  wpc,          \* where each worker is
  ev,           \* the event it handles
  queue,        \* the events in the queue of the pool
  responses,    \* response_events
  arrived,      \* how many requests have arrived
  accepted,     \* how many of them the pool took
  answered      \* how many responses were popped

setup == <<logger, loaded, linked, dbFailed, tables, subscribers>>
memory == <<made, pool, tp>>
network == <<base, listener>>
threads == <<wpc, ev>>
traffic == <<queue, responses, arrived, accepted, answered>>
vars == <<at, setup, memory, network, threads, traffic>>

Created == {w \in Workers : wpc[w] # "none"}

-----------------------------------------------------------------------------
(* A database may hold the tables from an earlier start of the server.     *)

Init ==
  /\ at = "args"
  /\ logger = FALSE /\ loaded = FALSE
  /\ linked = FALSE /\ dbFailed = FALSE /\ tables \in SUBSET Tables
  /\ subscribers = [id \in Requests |-> <<>>]
  /\ made = {} /\ pool = "none" /\ tp = FALSE
  /\ base = FALSE /\ listener = FALSE
  /\ wpc = [w \in Workers |-> "none"]
  /\ ev = [w \in Workers |-> Null]
  /\ queue = <<>> /\ responses = <<>>
  /\ arrived = 0 /\ accepted = 0 /\ answered = 0

-----------------------------------------------------------------------------
(* main up to the pool.                                                    *)

CheckArguments ==
  /\ at = "args"
  /\ at' \in {"logger", "exited"}
  /\ UNCHANGED <<setup, memory, network, threads, traffic>>

\* Logger::init: a ConfigureFailure ends main with -2.
InitLogger ==
  /\ at = "logger"
  /\ logger' \in BOOLEAN
  /\ at' = IF logger' THEN "config" ELSE "exited"
  /\ UNCHANGED <<loaded, linked, dbFailed, tables, subscribers>>
  /\ UNCHANGED <<memory, network, threads, traffic>>

LoadFile ==
  /\ at = "config"
  /\ ~loaded
  /\ loaded' = TRUE
  /\ at' = "database"
  /\ UNCHANGED <<logger, linked, dbFailed, tables, subscribers>>
  /\ UNCHANGED <<memory, network, threads, traffic>>

\* Mutant of LoadFileFails: main does not look at is_load_config.
LoadFileUnchecked ==
  /\ at = "config"
  /\ at' = "database"
  /\ UNCHANGED <<setup, memory, network, threads, traffic>>

\* iniparser_load cannot read the file, or load_file was called before.
LoadFileFails ==
  /\ at = "config"
  /\ at' = "exited"
  /\ UNCHANGED <<setup, memory, network, threads, traffic>>

\* MysqlConnection::Init answers TRUE also when it could not connect.
InitDatabase ==
  /\ at = "database"
  /\ linked' \in BOOLEAN
  /\ dbFailed' = ~linked'
  /\ at' = "subscribe"
  /\ UNCHANGED <<logger, loaded, tables, subscribers>>
  /\ UNCHANGED <<memory, network, threads, traffic>>

\* mysql_init fails: main returns -4, and the destructor of the connection
\* closes a handle nobody initialised, which may crash on the way out.
InitDatabaseFails ==
  /\ at = "database"
  /\ at' \in {"exited", "crashed"}
  /\ UNCHANGED <<setup, memory, network, threads, traffic>>

\* DispatchMsgService::subscribe
Subscribe(subs, id, handler) ==
  IF handler \in ToSet(subs[id]) THEN subs
  ELSE [subs EXCEPT ![id] = Append(@, handler)]

\* thread_mutex_create and thread_cond_create: made, or an error is returned.
TryToMake(lock) == made' \in {made, made \cup {lock}}

\* The constructor of UserEventHandler does not look whether pm_ was made.
NewHandler ==
  /\ at = "subscribe"
  /\ TryToMake("pm_")
  /\ subscribers' =
       Subscribe(Subscribe(subscribers, "mobile_code_req", "ueh"),
                 "login_req", "ueh")
  /\ at' = "userinfo"
  /\ UNCHANGED <<logger, loaded, linked, dbFailed, tables>>
  /\ UNCHANGED <<pool, tp, network, threads, traffic>>

CreateTable(table, next) ==
  /\ at = table
  /\ linked
  /\ tables' = tables \cup {table}
  /\ at' = next
  /\ UNCHANGED <<logger, loaded, linked, dbFailed, subscribers>>
  /\ UNCHANGED <<memory, network, threads, traffic>>

\* A statement fails, perhaps after its effect: Execute may connect again,
\* but does not repeat it; init gives up, and main does not look.
CreateTableFails ==
  /\ at \in Tables
  /\ dbFailed' = TRUE
  /\ linked' \in BOOLEAN
  /\ tables' \in {tables, IF linked THEN tables \cup {at} ELSE tables}
  /\ at' = "open"
  /\ UNCHANGED <<logger, loaded, subscribers>>
  /\ UNCHANGED <<memory, network, threads, traffic>>

\* DispatchMsgService::open does not look whether queue_mutex was made: it is
\* a static variable, whose zeros are a usable mutex.
OpenQueue ==
  /\ at = "open"
  /\ TryToMake("queue_mutex")
  /\ at' = "calloc"
  /\ UNCHANGED <<setup, pool, tp, network, threads, traffic>>

-----------------------------------------------------------------------------
(* thread_pool_init.                                                       *)

\* When calloc fails its result is used all the same.
AllocatePool ==
  /\ at = "calloc"
  /\ \/ pool' = "live" /\ at' = "mtx"
     \/ pool' = pool /\ at' = "crashed"
  /\ UNCHANGED <<setup, made, tp, network, threads, traffic>>

MakeLock(lock, next) ==
  /\ at = lock
  /\ made' = made \cup {lock}
  /\ at' = next
  /\ UNCHANGED <<setup, pool, tp, network, threads, traffic>>

\* The early returns: the pool is freed, and with it what was made in it.
Abandon ==
  /\ pool' = "freed"
  /\ made' = made \ {"mtx", "cond"}
  /\ at' = "listen"
  /\ UNCHANGED <<setup, tp, network, threads, traffic>>

MakeLockFails == at \in {"mtx", "cond"} /\ Abandon

\* pthread_attr_init, pthread_attr_setdetachstate
MakeAttributes ==
  /\ at = "attr"
  /\ at' = "create"
  /\ UNCHANGED <<setup, memory, network, threads, traffic>>

MakeAttributesFails == at = "attr" /\ Abandon

CreateWorker ==
  /\ at = "create"
  /\ \E w \in Workers \ Created : wpc' = [wpc EXCEPT ![w] = "started"]
  /\ UNCHANGED <<at, setup, memory, network, ev, traffic>>

\* Mutant of CreateWorkerFails: a failure ends the loop, and tp is returned.
CreateWorkerBreaks ==
  /\ at = "create"
  /\ Created # Workers
  /\ pool' = "freed"
  /\ made' = made \ {"mtx", "cond"}
  /\ tp' = TRUE
  /\ at' = "listen"
  /\ UNCHANGED <<setup, network, threads, traffic>>

CreateWorkerFails == at = "create" /\ Created # Workers /\ Abandon

ReturnPool ==
  /\ at = "create"
  /\ Created = Workers
  /\ tp' = TRUE
  /\ at' = "listen"
  /\ UNCHANGED <<setup, made, pool, network, threads, traffic>>

-----------------------------------------------------------------------------
(* The network, and the loop of main.                                      *)

\* NetworkInterface::start: main does not look whether it listens, but
\* network_event_dispatch needs an event base.
StartNetwork ==
  /\ at = "listen"
  /\ base' \in BOOLEAN
  /\ listener' \in {FALSE, base'}
  /\ at' = IF base' THEN "loop" ELSE "crashed"
  /\ UNCHANGED <<setup, memory, threads, traffic>>

\* thread_cond_signal wakes one of the workers asleep, if there is one.
Signal ==
  IF \E w \in Workers : wpc[w] = "asleep"
  THEN \E w \in Workers :
         wpc[w] = "asleep" /\ wpc' = [wpc EXCEPT ![w] = "awake"]
  ELSE UNCHANGED wpc

\* parseEvent makes an event of two of the requests; enqueue posts it.
Request(id) ==
  /\ at = "loop"
  /\ listener
  /\ arrived < MaxRequests
  /\ arrived' = arrived + 1
  /\ id \in {"mobile_code_req", "login_req"}
  /\ tp
  /\ Signal
  /\ queue' = Append(queue, id)
  /\ accepted' = accepted + 1
  /\ UNCHANGED <<at, setup, memory, network, ev, responses, answered>>

\* Without a pool, or without memory for the task, enqueue uses NULL.
RequestCrashes(id) ==
  /\ at = "loop"
  /\ listener
  /\ arrived < MaxRequests
  /\ arrived' = arrived + 1
  /\ id \in {"mobile_code_req", "login_req"}
  /\ at' = "crashed"
  /\ UNCHANGED <<setup, memory, network, threads, queue, responses>>
  /\ UNCHANGED <<accepted, answered>>

\* parseEvent returns NULL: the connection is closed.
RequestUnknown(id) ==
  /\ at = "loop"
  /\ listener
  /\ arrived < MaxRequests
  /\ arrived' = arrived + 1
  /\ id \notin {"mobile_code_req", "login_req"}
  /\ UNCHANGED <<at, setup, memory, network, threads, queue, responses>>
  /\ UNCHANGED <<accepted, answered>>

\* Mutant of PopResponse: the front is read and not popped.
PopForgotten ==
  /\ at = "loop"
  /\ responses # <<>>
  /\ answered' = answered + 1
  /\ UNCHANGED <<at, setup, memory, network, threads, queue, responses>>
  /\ UNCHANGED <<arrived, accepted>>

\* handleAllResponseEvent pops a response, whatever it does with it.
PopResponse ==
  /\ at = "loop"
  /\ responses # <<>>
  /\ responses' = Tail(responses)
  /\ answered' = answered + 1
  /\ UNCHANGED <<at, setup, memory, network, threads, queue, arrived>>
  /\ UNCHANGED accepted

-----------------------------------------------------------------------------
(* A worker: thread_pool_cycle, and svc with process and handle.           *)

Running == at \notin {"exited", "crashed"}

\* Mutant of Cycle: a worker waits first, and looks into the queue after.
CycleWaitsFirst(w) ==
  /\ Running
  /\ wpc[w] \in {"started", "awake"}
  /\ pool = "live"
  /\ IF queue = <<>> \/ wpc[w] = "started"
     THEN /\ wpc' = [wpc EXCEPT ![w] = "asleep"]
          /\ UNCHANGED <<ev, queue>>
     ELSE /\ wpc' = [wpc EXCEPT ![w] = "handling"]
          /\ ev' = [ev EXCEPT ![w] = Head(queue)]
          /\ queue' = Tail(queue)
  /\ UNCHANGED <<at, setup, memory, network, responses, arrived>>
  /\ UNCHANGED <<accepted, answered>>

\* From the lock to the unlock, which releases it in thread_cond_wait, too.
Cycle(w) ==
  /\ Running
  /\ wpc[w] \in {"started", "awake"}
  /\ pool = "live"
  /\ IF queue = <<>>
     THEN /\ wpc' = [wpc EXCEPT ![w] = "asleep"]
          /\ UNCHANGED <<ev, queue>>
     ELSE /\ wpc' = [wpc EXCEPT ![w] = "handling"]
          /\ ev' = [ev EXCEPT ![w] = Head(queue)]
          /\ queue' = Tail(queue)
  /\ UNCHANGED <<at, setup, memory, network, responses, arrived>>
  /\ UNCHANGED <<accepted, answered>>

\* Mutant of Handle: handle has no branch for logins.
HandleMobileOnly(id) ==
  IF id = "mobile_code_req" THEN "mobile_code_rsp" ELSE Null

\* UserEventHandler::handle
Handle(id) ==
  CASE id = "mobile_code_req" -> "mobile_code_rsp"
    [] id = "login_req" -> "login_rsp"
    [] OTHER -> Null

\* process returns what the last handler made, and NULL if there is none;
\* of NULL svc makes an EXIT_RSP.
Process(id) ==
  LET rsp == IF subscribers[id] = <<>> THEN Null ELSE Handle(id)
  IN  IF rsp = Null THEN "exit_rsp" ELSE rsp

Answer(w) ==
  /\ Running
  /\ wpc[w] = "handling"
  /\ responses' = Append(responses, Process(ev[w]))
  /\ wpc' = [wpc EXCEPT ![w] = "started"]
  /\ ev' = [ev EXCEPT ![w] = Null]
  /\ UNCHANGED <<at, setup, memory, network, queue, arrived, accepted>>
  /\ UNCHANGED answered

\* The handler locks a pm_ that was never made.
LosesItself(w) ==
  /\ Running
  /\ wpc[w] = "handling"
  /\ "pm_" \notin made
  /\ \/ at' = at /\ wpc' = [wpc EXCEPT ![w] = "stuck"]
     \/ at' = "crashed" /\ UNCHANGED wpc
  /\ UNCHANGED <<setup, memory, network, ev, traffic>>

\* The pool was freed under the worker.
Stray(w) ==
  /\ Running
  /\ wpc[w] \in {"started", "asleep"}
  /\ pool = "freed"
  /\ \/ at' = at /\ \E end \in {"stuck", "gone"} :
                      wpc' = [wpc EXCEPT ![w] = end]
     \/ at' = "crashed" /\ UNCHANGED wpc
  /\ UNCHANGED <<setup, memory, network, ev, traffic>>

-----------------------------------------------------------------------------

MainNext ==
  \/ CheckArguments \/ InitLogger \/ LoadFile \/ LoadFileFails
  \/ InitDatabase \/ InitDatabaseFails \/ NewHandler
  \/ CreateTable("userinfo", "bikeinfo") \/ CreateTable("bikeinfo", "open")
  \/ CreateTableFails \/ OpenQueue \/ AllocatePool
  \/ MakeLock("mtx", "cond") \/ MakeLock("cond", "attr") \/ MakeLockFails
  \/ MakeAttributes \/ MakeAttributesFails
  \/ CreateWorker \/ CreateWorkerFails \/ ReturnPool
  \/ StartNetwork \/ PopResponse

ClientNext ==
  \E id \in Requests : Request(id) \/ RequestCrashes(id) \/ RequestUnknown(id)

WorkerNext(w) == Cycle(w) \/ Answer(w) \/ LosesItself(w) \/ Stray(w)

Next == MainNext \/ ClientNext \/ \E w \in Workers : WorkerNext(w)

\* main goes on, and so does every worker that is not asleep or stuck.
Spec ==
  /\ Init /\ [][Next]_vars
  /\ WF_vars(MainNext)
  /\ \A w \in Workers : WF_vars(WorkerNext(w))

-----------------------------------------------------------------------------
(* Properties.                                                             *)

Calls == {"args", "logger", "config", "database", "subscribe", "open",
          "calloc", "mtx", "cond", "attr", "create", "listen", "loop"}
           \cup Tables

\* Every variable has its type; a worker has an event while it handles one.
TypeOK ==
  /\ at \in Calls \cup {"exited", "crashed"}
  /\ {logger, loaded, linked, dbFailed, tp, base, listener} \subseteq BOOLEAN
  /\ tables \subseteq Tables
  /\ made \subseteq Locks
  /\ subscribers \in [Requests -> Seq({"ueh"})]
  /\ pool \in {"none", "live", "freed"}
  /\ wpc \in [Workers -> {"none", "started", "asleep", "awake", "handling",
                          "stuck", "gone"}]
  /\ \A w \in Workers : wpc[w] = "handling" => ev[w] \in Requests
  /\ queue \in Seq(Requests)
  /\ responses \in Seq(Responses)
  /\ answered + Len(responses) <= accepted /\ accepted <= arrived

\* The threads come last.  A worker finds in place what it will use and
\* nobody locks -- the log, the configuration, the subscribers -- and main
\* does not return any more.  The tables are there, unless the database
\* failed, which main does not look at.
ThreadsComeLast ==
  Created # {} =>
    /\ logger /\ loaded
    /\ subscribers["mobile_code_req"] # <<>> /\ subscribers["login_req"] # <<>>
    /\ at # "exited"
    /\ dbFailed \/ tables = Tables

\* A failure in thread_pool_init leaves no way to the memory it freed: what
\* open keeps is a pool with all its workers, its mutex and its condition
\* variable, or nothing.  Workers of a freed pool never get an event.
FreedPoolAbandoned ==
  /\ tp => /\ pool = "live"
           /\ Created = Workers
           /\ {"mtx", "cond"} \subseteq made
  /\ pool = "freed" => queue = <<>> /\ \A w \in Workers : wpc[w] # "handling"

\* svc never makes an EXIT_RSP, for which handleAllResponseEvent would send a
\* write_buf that was not allocated: each event that parseEvent makes has a
\* handler that answers it.
AnsweredByHandler ==
  \A i \in DOMAIN responses : responses[i] # "exit_rsp"

\* A request that the pool took is answered, also when it came before the
\* workers had got to their first wait, unless a handler is stuck on a pm_
\* that could not be made, or the process crashes.
AcceptedAnswered ==
  \A n \in 1 .. MaxRequests :
    (accepted >= n /\ "pm_" \in made) ~> (answered >= n \/ at = "crashed")
=============================================================================
