---------------------------- MODULE StartupProofs ----------------------------
(***************************************************************************)
(* What Startup keeps for every number of workers and of requests, and     *)
(* whichever of its calls fail, proved with TLAPS.  The invariants come in *)
(* layers, each proved inductive with the help of the layers before it:    *)
(*                                                                         *)
(*   Shape       types                                                     *)
(*   Setup       what main has done when it is at a call                   *)
(*   Threads     what there is when a thread, or tp, is there              *)
(*   Conserved   the pool's requests are no more than it took              *)
(***************************************************************************)
EXTENDS Startup, FiniteSetTheorems, SequenceTheorems, TLAPS

-----------------------------------------------------------------------------
(***************************************************************************)
(* First layer.                                                            *)
(***************************************************************************)

WorkerPlaces ==
  {"none", "started", "asleep", "awake", "handling", "stuck", "gone"}

\* TypeOK but for the bound on responses, which needs the last layer.
Shape ==
  /\ at \in Calls \cup {"exited", "crashed"}
  /\ logger \in BOOLEAN /\ loaded \in BOOLEAN /\ linked \in BOOLEAN
  /\ dbFailed \in BOOLEAN /\ tp \in BOOLEAN
  /\ base \in BOOLEAN /\ listener \in BOOLEAN
  /\ tables \subseteq Tables
  /\ made \subseteq Locks
  /\ subscribers \in [Requests -> Seq({"ueh"})]
  /\ pool \in {"none", "live", "freed"}
  /\ wpc \in [Workers -> WorkerPlaces]
  /\ ev \in [Workers -> Requests \cup {Null}]
  /\ \A w \in Workers : wpc[w] = "handling" => ev[w] \in Requests
  /\ queue \in Seq(Requests)
  /\ responses \in Seq(Responses)
  /\ arrived \in Nat /\ accepted \in Nat /\ answered \in Nat

\* Shape holds at first.
LEMMA ShapeInit == Init => Shape
<1> SUFFICES ASSUME Init PROVE Shape
  OBVIOUS
<1>1. subscribers \in [Requests -> Seq({"ueh"})]
  BY EmptySeq DEF Init
<1>2. queue \in Seq(Requests) /\ responses \in Seq(Responses)
  BY EmptySeq DEF Init
<1> QED
  BY <1>1, <1>2 DEF Init, Shape, Calls, Tables, WorkerPlaces

\* A handler that subscribes to an event id is among the handlers of it, and
\* nobody's subscription is lost.
LEMMA SubscribeKeeps ==
  ASSUME NEW subs \in [Requests -> Seq({"ueh"})], NEW id \in Requests
  PROVE  /\ Subscribe(subs, id, "ueh") \in [Requests -> Seq({"ueh"})]
         /\ Subscribe(subs, id, "ueh")[id] # <<>>
         /\ \A j \in Requests :
              subs[j] # <<>> => Subscribe(subs, id, "ueh")[j] # <<>>
<1>1. CASE "ueh" \in ToSet(subs[id])
  <2>1. subs[id] # <<>>
    BY <1>1 DEF ToSet
  <2> QED
    BY <1>1, <2>1 DEF Subscribe
<1>2. CASE "ueh" \notin ToSet(subs[id])
  <2>1. Append(subs[id], "ueh") \in Seq({"ueh"}) \ {<<>>}
    BY AppendProperties
  <2>2. Subscribe(subs, id, "ueh") = [subs EXCEPT ![id] = Append(@, "ueh")]
    BY <1>2 DEF Subscribe
  <2> QED
    BY <2>1, <2>2
<1> QED
  BY <1>1, <1>2

\* What handle is given has a response, or is not one it knows.
LEMMA ProcessType == \A id : Process(id) \in Responses
  BY DEF Process, Handle, Responses

\* Shape is kept by every step.
LEMMA ShapeStep == Shape /\ [Next]_vars => Shape'
<1> SUFFICES ASSUME Shape, [Next]_vars PROVE Shape'
  OBVIOUS
<1> USE DEF Shape, Calls, Tables, Locks, WorkerPlaces, setup, memory, network,
            threads, traffic
<1>1. CASE CheckArguments
  BY <1>1 DEF CheckArguments
<1>2. CASE InitLogger
  BY <1>2 DEF InitLogger
<1>3. CASE LoadFile
  BY <1>3 DEF LoadFile
<1>4. CASE LoadFileFails
  BY <1>4 DEF LoadFileFails
<1>5. CASE InitDatabase
  BY <1>5 DEF InitDatabase
<1>6. CASE InitDatabaseFails
  BY <1>6 DEF InitDatabaseFails
<1>7. CASE NewHandler
  <2>1. subscribers' \in [Requests -> Seq({"ueh"})]
    BY <1>7, SubscribeKeeps DEF NewHandler, Requests
  <2> QED
    BY <1>7, <2>1 DEF NewHandler, TryToMake
<1>8. CASE CreateTable("userinfo", "bikeinfo")
  BY <1>8 DEF CreateTable
<1>9. CASE CreateTable("bikeinfo", "open")
  BY <1>9 DEF CreateTable
<1>10. CASE CreateTableFails
  BY <1>10 DEF CreateTableFails
<1>11. CASE OpenQueue
  BY <1>11 DEF OpenQueue, TryToMake
<1>12. CASE AllocatePool
  BY <1>12 DEF AllocatePool
<1>13. CASE MakeLock("mtx", "cond")
  BY <1>13 DEF MakeLock
<1>14. CASE MakeLock("cond", "attr")
  BY <1>14 DEF MakeLock
<1>15. CASE MakeLockFails
  BY <1>15 DEF MakeLockFails, Abandon
<1>16. CASE MakeAttributes
  BY <1>16 DEF MakeAttributes
<1>17. CASE MakeAttributesFails
  BY <1>17 DEF MakeAttributesFails, Abandon
<1>18. CASE CreateWorker
  BY <1>18 DEF CreateWorker
<1>19. CASE CreateWorkerFails
  BY <1>19 DEF CreateWorkerFails, Abandon
<1>20. CASE ReturnPool
  BY <1>20 DEF ReturnPool
<1>21. CASE StartNetwork
  BY <1>21 DEF StartNetwork
<1>22. CASE PopResponse
  BY <1>22 DEF PopResponse
<1>23. ASSUME NEW id \in Requests, Request(id) PROVE Shape'
  <2>1. /\ wpc' \in [Workers -> WorkerPlaces]
        /\ \A w \in Workers : wpc'[w] = "handling" => wpc[w] = "handling"
    BY <1>23 DEF Request, Signal
  <2>2. queue' \in Seq(Requests)
    BY <1>23 DEF Request
  <2> QED
    BY <1>23, <2>1, <2>2 DEF Request
<1>24. ASSUME NEW id \in Requests, RequestCrashes(id) PROVE Shape'
  BY <1>24 DEF RequestCrashes
<1>25. ASSUME NEW id \in Requests, RequestUnknown(id) PROVE Shape'
  BY <1>25 DEF RequestUnknown
<1>26. ASSUME NEW w \in Workers, Cycle(w) PROVE Shape'
  <2>1. CASE queue = <<>>
    BY <1>26, <2>1 DEF Cycle
  <2>2. CASE queue # <<>>
    <3>1. Head(queue) \in Requests /\ Tail(queue) \in Seq(Requests)
      BY <2>2, HeadTailProperties
    <3>2. /\ wpc' \in [Workers -> WorkerPlaces]
          /\ ev' \in [Workers -> Requests \cup {Null}]
          /\ \A v \in Workers : wpc'[v] = "handling" => ev'[v] \in Requests
      BY <1>26, <2>2, <3>1 DEF Cycle
    <3>3. queue' \in Seq(Requests)
      BY <1>26, <2>2, <3>1 DEF Cycle
    <3>4. UNCHANGED <<at, setup, memory, network, responses, arrived, accepted,
                      answered>>
      BY <1>26 DEF Cycle
    <3> QED
      BY <3>2, <3>3, <3>4
  <2> QED
    BY <2>1, <2>2
<1>27. ASSUME NEW w \in Workers, Answer(w) PROVE Shape'
  BY <1>27, ProcessType DEF Answer
<1>28. ASSUME NEW w \in Workers, LosesItself(w) PROVE Shape'
  <2>1. /\ wpc' \in [Workers -> WorkerPlaces]
        /\ \A v \in Workers : wpc'[v] = "handling" => wpc[v] = "handling"
    BY <1>28 DEF LosesItself
  <2> QED
    BY <1>28, <2>1 DEF LosesItself
<1>29. ASSUME NEW w \in Workers, Stray(w) PROVE Shape'
  <2>1. /\ wpc' \in [Workers -> WorkerPlaces]
        /\ \A v \in Workers : wpc'[v] = "handling" => wpc[v] = "handling"
    BY <1>29 DEF Stray
  <2> QED
    BY <1>29, <2>1 DEF Stray
<1>30. CASE UNCHANGED vars
  BY <1>30 DEF vars
<1> QED
  BY <1>1, <1>2, <1>3, <1>4, <1>5, <1>6, <1>7, <1>8, <1>9, <1>10, <1>11,
     <1>12, <1>13, <1>14, <1>15, <1>16, <1>17, <1>18, <1>19, <1>20, <1>21,
     <1>22, <1>23, <1>24, <1>25, <1>26, <1>27, <1>28, <1>29, <1>30
  DEF Next, MainNext, ClientNext, WorkerNext

-----------------------------------------------------------------------------
(***************************************************************************)
(* Second layer: what main has done when it is at a call.                  *)
(***************************************************************************)

Ended == {"exited", "crashed"}

\* Before the subscriptions, and from thread_pool_init on.
Opening == {"args", "logger", "config", "database", "subscribe"}
PoolCalls == {"calloc", "mtx", "cond", "attr", "create", "listen", "loop"}

Subscribed ==
  subscribers["mobile_code_req"] # <<>> /\ subscribers["login_req"] # <<>>

Setup ==
  /\ at \notin {"args", "logger"} \cup Ended => logger
  /\ at \notin {"args", "logger", "config"} \cup Ended => loaded
  /\ at \notin Opening \cup Ended => Subscribed
  /\ at = "bikeinfo" => dbFailed \/ "userinfo" \in tables
  /\ at \in {"open"} \cup PoolCalls => dbFailed \/ tables = Tables

\* Setup holds at first.
LEMMA SetupInit == Init => Setup
  BY DEF Init, Setup, Ended, Opening, PoolCalls

\* Setup is kept by every step from a state with Shape.
LEMMA SetupStep == Shape /\ Setup /\ [Next]_vars => Setup'
<1> SUFFICES ASSUME Shape, Setup, [Next]_vars PROVE Setup'
  OBVIOUS
<1>1. /\ subscribers \in [Requests -> Seq({"ueh"})]
      /\ logger \in BOOLEAN /\ loaded \in BOOLEAN /\ dbFailed \in BOOLEAN
      /\ linked \in BOOLEAN /\ tables \subseteq Tables
  BY DEF Shape
<1> USE DEF Setup, Ended, Opening, PoolCalls, Subscribed, Tables, setup,
            memory, network, threads, traffic
<1>2. CASE CheckArguments
  BY <1>2 DEF CheckArguments
<1>3. CASE InitLogger
  BY <1>1, <1>3 DEF InitLogger
<1>4. CASE LoadFile
  BY <1>1, <1>4 DEF LoadFile
<1>5. CASE LoadFileFails
  BY <1>5 DEF LoadFileFails
<1>6. CASE InitDatabase
  BY <1>1, <1>6 DEF InitDatabase
<1>7. CASE InitDatabaseFails
  BY <1>7 DEF InitDatabaseFails
<1>8. CASE NewHandler
  <2>1. /\ subscribers'["mobile_code_req"] # <<>>
        /\ subscribers'["login_req"] # <<>>
    BY <1>1, <1>8, SubscribeKeeps DEF NewHandler, Requests
  <2> QED
    BY <1>8, <2>1 DEF NewHandler
<1>9. CASE CreateTable("userinfo", "bikeinfo")
  BY <1>1, <1>9 DEF CreateTable
<1>10. CASE CreateTable("bikeinfo", "open")
  BY <1>1, <1>10 DEF CreateTable
<1>11. CASE CreateTableFails
  BY <1>1, <1>11 DEF CreateTableFails
<1>12. CASE OpenQueue
  BY <1>12 DEF OpenQueue, TryToMake
<1>13. CASE AllocatePool
  BY <1>13 DEF AllocatePool
<1>14. CASE MakeLock("mtx", "cond")
  BY <1>14 DEF MakeLock
<1>15. CASE MakeLock("cond", "attr")
  BY <1>15 DEF MakeLock
<1>16. CASE MakeLockFails
  BY <1>16 DEF MakeLockFails, Abandon
<1>17. CASE MakeAttributes
  BY <1>17 DEF MakeAttributes
<1>18. CASE MakeAttributesFails
  BY <1>18 DEF MakeAttributesFails, Abandon
<1>19. CASE CreateWorker
  BY <1>19 DEF CreateWorker
<1>20. CASE CreateWorkerFails
  BY <1>20 DEF CreateWorkerFails, Abandon
<1>21. CASE ReturnPool
  BY <1>21 DEF ReturnPool
<1>22. CASE StartNetwork
  BY <1>22 DEF StartNetwork
<1>23. CASE PopResponse
  BY <1>23 DEF PopResponse
<1>24. ASSUME NEW id \in Requests, Request(id) PROVE Setup'
  BY <1>24 DEF Request, Signal
<1>25. ASSUME NEW id \in Requests, RequestCrashes(id) PROVE Setup'
  BY <1>25 DEF RequestCrashes
<1>26. ASSUME NEW id \in Requests, RequestUnknown(id) PROVE Setup'
  BY <1>26 DEF RequestUnknown
<1>27. ASSUME NEW w \in Workers, Cycle(w) PROVE Setup'
  BY <1>27 DEF Cycle
<1>28. ASSUME NEW w \in Workers, Answer(w) PROVE Setup'
  BY <1>28 DEF Answer
<1>29. ASSUME NEW w \in Workers, LosesItself(w) PROVE Setup'
  BY <1>29 DEF LosesItself
<1>30. ASSUME NEW w \in Workers, Stray(w) PROVE Setup'
  BY <1>30 DEF Stray
<1>31. CASE UNCHANGED vars
  BY <1>31 DEF vars
<1> QED
  BY <1>2, <1>3, <1>4, <1>5, <1>6, <1>7, <1>8, <1>9, <1>10, <1>11, <1>12,
     <1>13, <1>14, <1>15, <1>16, <1>17, <1>18, <1>19, <1>20, <1>21, <1>22,
     <1>23, <1>24, <1>25, <1>26, <1>27, <1>28, <1>29, <1>30, <1>31
  DEF Next, MainNext, ClientNext, WorkerNext

-----------------------------------------------------------------------------
(***************************************************************************)
(* Third layer: what there is when there is a thread, and when DispatchMsg-*)
(* Service has a pool.                                                     *)
(***************************************************************************)

\* What Setup says of the calls that create threads; it does not depend on
\* the call, so that it is still true after a crash.
Ready == logger /\ loaded /\ Subscribed /\ (dbFailed \/ tables = Tables)

\* The pool while thread_pool_init works on it.
Building ==
  /\ at \in {"mtx", "cond", "attr", "create"} => pool = "live"
  /\ at \in {"cond", "attr", "create"} => "mtx" \in made
  /\ at \in {"attr", "create"} => "cond" \in made
  /\ Created # {} => at \in {"create", "listen", "loop", "crashed"} /\ Ready

Known == {"mobile_code_req", "login_req"}

\* What DispatchMsgService keeps, and what comes through it.
Threads ==
  /\ tp => /\ at \in {"listen", "loop", "crashed"}
           /\ pool = "live"
           /\ Created = Workers
           /\ {"mtx", "cond"} \subseteq made
  /\ ~tp => queue = <<>> /\ \A w \in Workers : wpc[w] # "handling"
  /\ \A i \in DOMAIN queue : queue[i] \in Known
  /\ \A w \in Workers : wpc[w] = "handling" => ev[w] \in Known
  /\ AnsweredByHandler

\* Both hold at first.
LEMMA ThreadsInit == Init => Building /\ Threads
  BY DEF Init, Building, Threads, Created, AnsweredByHandler

\* A step creates threads at "create" only, and ends none.
LEMMA CreatedGrows ==
  Shape /\ [Next]_vars =>
    /\ Created \subseteq Created'
    /\ Created' # Created => at = "create"
<1> SUFFICES ASSUME Shape, [Next]_vars
             PROVE  /\ \A w \in Workers : wpc[w] # "none" => wpc'[w] # "none"
                    /\ at # "create" =>
                         \A w \in Workers : wpc[w] = "none" => wpc'[w] = "none"
  BY DEF Created
<1>1. wpc \in [Workers -> WorkerPlaces]
  BY DEF Shape
<1>2. CASE UNCHANGED wpc
  BY <1>2
<1>3. CASE CreateWorker
  BY <1>1, <1>3 DEF CreateWorker, Created
<1>4. ASSUME NEW id \in Requests, Request(id)
      PROVE  \A w \in Workers : wpc[w] = "none" <=> wpc'[w] = "none"
  BY <1>1, <1>4 DEF Request, Signal
<1>5. ASSUME NEW w \in Workers, WorkerNext(w)
      PROVE  \A v \in Workers : wpc[v] = "none" <=> wpc'[v] = "none"
  BY <1>1, <1>5 DEF WorkerNext, Cycle, Answer, LosesItself, Stray
<1>6. \/ UNCHANGED wpc \/ CreateWorker
      \/ \E id \in Requests : Request(id)
      \/ \E w \in Workers : WorkerNext(w)
  BY DEF Next, MainNext, ClientNext, vars, threads, CheckArguments, InitLogger,
         LoadFile, LoadFileFails, InitDatabase, InitDatabaseFails, NewHandler,
         CreateTable, CreateTableFails, OpenQueue, AllocatePool, MakeLock,
         MakeLockFails, Abandon, MakeAttributes, MakeAttributesFails,
         CreateWorkerFails, ReturnPool, StartNetwork, PopResponse,
         RequestCrashes, RequestUnknown
<1> QED
  BY <1>2, <1>3, <1>4, <1>5, <1>6

\* Building is kept by every step from a state with Shape and Setup.
LEMMA BuildingStep == Shape /\ Setup /\ Building /\ [Next]_vars => Building'
<1> SUFFICES ASSUME Shape, Setup, Building, [Next]_vars PROVE Building'
  OBVIOUS
<1>1. /\ Created \subseteq Created'
      /\ Created' # Created => at = "create"
  BY CreatedGrows
<1>2. at = "create" => Ready
  BY DEF Setup, Ready, Ended, Opening, PoolCalls
<1> USE DEF Building, Ready, Subscribed, Tables, Locks, setup, memory, network,
            threads, traffic
<1>3. CASE CheckArguments
  BY <1>1, <1>2, <1>3 DEF CheckArguments
<1>4. CASE InitLogger
  BY <1>1, <1>2, <1>4 DEF InitLogger
<1>5. CASE LoadFile
  BY <1>1, <1>2, <1>5 DEF LoadFile
<1>6. CASE LoadFileFails
  BY <1>1, <1>2, <1>6 DEF LoadFileFails
<1>7. CASE InitDatabase
  BY <1>1, <1>2, <1>7 DEF InitDatabase
<1>8. CASE InitDatabaseFails
  BY <1>1, <1>2, <1>8 DEF InitDatabaseFails
<1>9. CASE NewHandler
  BY <1>1, <1>2, <1>9 DEF NewHandler, TryToMake
<1>10. CASE CreateTable("userinfo", "bikeinfo")
  BY <1>1, <1>2, <1>10 DEF CreateTable
<1>11. CASE CreateTable("bikeinfo", "open")
  BY <1>1, <1>2, <1>11 DEF CreateTable
<1>12. CASE CreateTableFails
  BY <1>1, <1>2, <1>12 DEF CreateTableFails
<1>13. CASE OpenQueue
  BY <1>1, <1>2, <1>13 DEF OpenQueue, TryToMake
<1>14. CASE AllocatePool
  BY <1>1, <1>2, <1>14 DEF AllocatePool
<1>15. CASE MakeLock("mtx", "cond")
  BY <1>1, <1>2, <1>15 DEF MakeLock
<1>16. CASE MakeLock("cond", "attr")
  BY <1>1, <1>2, <1>16 DEF MakeLock
<1>17. CASE MakeLockFails
  BY <1>1, <1>2, <1>17 DEF MakeLockFails, Abandon
<1>18. CASE MakeAttributes
  BY <1>1, <1>2, <1>18 DEF MakeAttributes
<1>19. CASE MakeAttributesFails
  BY <1>1, <1>2, <1>19 DEF MakeAttributesFails, Abandon
<1>20. CASE CreateWorker
  BY <1>1, <1>2, <1>20 DEF CreateWorker
<1>21. CASE CreateWorkerFails
  BY <1>1, <1>2, <1>21 DEF CreateWorkerFails, Abandon
<1>22. CASE ReturnPool
  BY <1>1, <1>2, <1>22 DEF ReturnPool
<1>23. CASE StartNetwork
  BY <1>1, <1>2, <1>23 DEF StartNetwork
<1>24. CASE PopResponse
  BY <1>1, <1>2, <1>24 DEF PopResponse
<1>25. ASSUME NEW id \in Requests, Request(id) PROVE Building'
  BY <1>1, <1>2, <1>25 DEF Request, Signal
<1>26. ASSUME NEW id \in Requests, RequestCrashes(id) PROVE Building'
  BY <1>1, <1>2, <1>26 DEF RequestCrashes
<1>27. ASSUME NEW id \in Requests, RequestUnknown(id) PROVE Building'
  BY <1>1, <1>2, <1>27 DEF RequestUnknown
<1>28. ASSUME NEW w \in Workers, Cycle(w) PROVE Building'
  BY <1>1, <1>2, <1>28 DEF Cycle
<1>29. ASSUME NEW w \in Workers, Answer(w) PROVE Building'
  BY <1>1, <1>2, <1>29 DEF Answer
<1>30. ASSUME NEW w \in Workers, LosesItself(w) PROVE Building'
  BY <1>1, <1>2, <1>30 DEF LosesItself
<1>31. ASSUME NEW w \in Workers, Stray(w) PROVE Building'
  BY <1>1, <1>2, <1>31 DEF Stray
<1>32. CASE UNCHANGED vars
  BY <1>1, <1>2, <1>32 DEF vars
<1> QED
  BY <1>3, <1>4, <1>5, <1>6, <1>7, <1>8, <1>9, <1>10, <1>11, <1>12, <1>13,
     <1>14, <1>15, <1>16, <1>17, <1>18, <1>19, <1>20, <1>21, <1>22, <1>23,
     <1>24, <1>25, <1>26, <1>27, <1>28, <1>29, <1>30, <1>31, <1>32
  DEF Next, MainNext, ClientNext, WorkerNext

\* What a worker answers to an event that has a handler.
LEMMA KnownAnswered ==
  ASSUME Subscribed, NEW id \in Known
  PROVE  Process(id) # "exit_rsp"
  BY StartupAssumption DEF Subscribed, Known, Process, Handle, Responses

\* Threads is kept by every step from a state with the layers before it.
LEMMA ThreadsStep ==
  Shape /\ Setup /\ Building /\ Threads /\ [Next]_vars => Threads'
<1> SUFFICES ASSUME Shape, Setup, Building, Threads, [Next]_vars PROVE Threads'
  OBVIOUS
<1>1. /\ Created \subseteq Created'
      /\ Created' # Created => at = "create"
      /\ Created \subseteq Workers /\ Created' \subseteq Workers
  BY CreatedGrows DEF Created
<1>2. /\ wpc \in [Workers -> WorkerPlaces]
      /\ ev \in [Workers -> Requests \cup {Null}]
      /\ queue \in Seq(Requests) /\ responses \in Seq(Responses)
      /\ tp \in BOOLEAN
      /\ made \subseteq Locks
  BY DEF Shape
<1> USE DEF Threads, AnsweredByHandler, Ended, setup, memory, network, threads,
            traffic
<1>3. CASE CheckArguments
  BY <1>1, <1>3 DEF CheckArguments
<1>4. CASE InitLogger
  BY <1>1, <1>4 DEF InitLogger
<1>5. CASE LoadFile
  BY <1>1, <1>5 DEF LoadFile
<1>6. CASE LoadFileFails
  BY <1>1, <1>6 DEF LoadFileFails
<1>7. CASE InitDatabase
  BY <1>1, <1>7 DEF InitDatabase
<1>8. CASE InitDatabaseFails
  BY <1>1, <1>8 DEF InitDatabaseFails
<1>9. CASE NewHandler
  BY <1>1, <1>9 DEF NewHandler, TryToMake
<1>10. CASE CreateTable("userinfo", "bikeinfo")
  BY <1>1, <1>10 DEF CreateTable
<1>11. CASE CreateTable("bikeinfo", "open")
  BY <1>1, <1>11 DEF CreateTable
<1>12. CASE CreateTableFails
  BY <1>1, <1>12 DEF CreateTableFails, Tables
<1>13. CASE OpenQueue
  BY <1>1, <1>13 DEF OpenQueue, TryToMake
<1>14. CASE AllocatePool
  BY <1>1, <1>14 DEF AllocatePool
<1>15. CASE MakeLock("mtx", "cond")
  BY <1>1, <1>15 DEF MakeLock
<1>16. CASE MakeLock("cond", "attr")
  BY <1>1, <1>16 DEF MakeLock
<1>17. CASE MakeLockFails
  BY <1>1, <1>17 DEF MakeLockFails, Abandon
<1>18. CASE MakeAttributes
  BY <1>1, <1>18 DEF MakeAttributes
<1>19. CASE MakeAttributesFails
  BY <1>1, <1>19 DEF MakeAttributesFails, Abandon
<1>20. CASE CreateWorker
  BY <1>1, <1>2, <1>20 DEF CreateWorker, Created
<1>21. CASE CreateWorkerFails
  BY <1>1, <1>21 DEF CreateWorkerFails, Abandon
<1>22. CASE ReturnPool
  BY <1>1, <1>2, <1>22 DEF ReturnPool, Building
<1>23. CASE StartNetwork
  BY <1>1, <1>23 DEF StartNetwork
<1>24. CASE PopResponse
  <2>1. \A i \in DOMAIN responses' : responses'[i] # "exit_rsp"
    BY <1>2, <1>24, HeadTailProperties DEF PopResponse
  <2> QED
    BY <1>1, <1>24, <2>1 DEF PopResponse
<1>25. ASSUME NEW id \in Requests, Request(id) PROVE Threads'
  <2>1. \A v \in Workers : wpc'[v] = "handling" => wpc[v] = "handling"
    BY <1>2, <1>25 DEF Request, Signal
  <2>2. \A i \in DOMAIN queue' : queue'[i] \in Known
    BY <1>2, <1>25, AppendProperties DEF Request, Known
  <2> QED
    BY <1>1, <1>25, <2>1, <2>2 DEF Request
<1>26. ASSUME NEW id \in Requests, RequestCrashes(id) PROVE Threads'
  BY <1>1, <1>26 DEF RequestCrashes
<1>27. ASSUME NEW id \in Requests, RequestUnknown(id) PROVE Threads'
  BY <1>1, <1>27 DEF RequestUnknown
<1>28. ASSUME NEW w \in Workers, Cycle(w) PROVE Threads'
  <2>1. CASE queue = <<>>
    BY <1>1, <1>2, <1>28, <2>1 DEF Cycle
  <2>2. CASE queue # <<>>
    <3>1. /\ Head(queue) \in Known
          /\ \A i \in DOMAIN Tail(queue) : Tail(queue)[i] \in Known
      BY <1>2, <2>2, HeadTailProperties
    <3>2. tp
      BY <2>2
    <3>3. \A v \in Workers : wpc'[v] = "handling" => ev'[v] \in Known
      BY <1>2, <1>28, <2>2, <3>1 DEF Cycle
    <3> QED
      BY <1>1, <1>28, <2>2, <3>1, <3>2, <3>3 DEF Cycle
  <2> QED
    BY <2>1, <2>2
<1>29. ASSUME NEW w \in Workers, Answer(w) PROVE Threads'
  <2>1. Subscribed /\ ev[w] \in Known
    BY <1>29 DEF Answer, Building, Ready, Created
  <2>2. Process(ev[w]) # "exit_rsp" /\ Process(ev[w]) \in Responses
    BY <2>1, KnownAnswered, ProcessType
  <2>3. \A i \in DOMAIN responses' : responses'[i] # "exit_rsp"
    BY <1>2, <1>29, <2>2, AppendProperties DEF Answer
  <2>4. \A v \in Workers :
          wpc'[v] = "handling" => wpc[v] = "handling" /\ ev'[v] = ev[v]
    BY <1>2, <1>29 DEF Answer
  <2> QED
    BY <1>1, <1>29, <2>3, <2>4 DEF Answer
<1>30. ASSUME NEW w \in Workers, LosesItself(w) PROVE Threads'
  <2>1. \A v \in Workers : wpc'[v] = "handling" => wpc[v] = "handling"
    BY <1>2, <1>30 DEF LosesItself
  <2> QED
    BY <1>1, <1>30, <2>1 DEF LosesItself
<1>31. ASSUME NEW w \in Workers, Stray(w) PROVE Threads'
  <2>1. \A v \in Workers : wpc'[v] = "handling" => wpc[v] = "handling"
    BY <1>2, <1>31 DEF Stray
  <2> QED
    BY <1>1, <1>31, <2>1 DEF Stray
<1>32. CASE UNCHANGED vars
  BY <1>1, <1>32 DEF vars
<1> QED
  BY <1>3, <1>4, <1>5, <1>6, <1>7, <1>8, <1>9, <1>10, <1>11, <1>12, <1>13,
     <1>14, <1>15, <1>16, <1>17, <1>18, <1>19, <1>20, <1>21, <1>22, <1>23,
     <1>24, <1>25, <1>26, <1>27, <1>28, <1>29, <1>30, <1>31, <1>32
  DEF Next, MainNext, ClientNext, WorkerNext

-----------------------------------------------------------------------------
(***************************************************************************)
(* Last layer: a request the pool took is in its queue, with one worker,   *)
(* or answered, or it was lost with the worker.                            *)
(***************************************************************************)

Handlers == {w \in Workers : wpc[w] = "handling"}

Conserved ==
  /\ Len(queue) + Cardinality(Handlers) + Len(responses) + answered <= accepted
  /\ accepted <= arrived

\* The workers that handle a request are finitely many.
LEMMA HandlersFinite ==
  /\ IsFiniteSet(Handlers) /\ Cardinality(Handlers) \in Nat
  /\ IsFiniteSet(Handlers') /\ Cardinality(Handlers') \in Nat
<1>1. Handlers \in SUBSET Workers /\ Handlers' \in SUBSET Workers
  BY DEF Handlers
<1> QED
  BY <1>1, StartupAssumption, FS_Subset, FS_CardinalityType

\* Conserved holds at first.
LEMMA ConservedInit == Init => Conserved
<1> SUFFICES ASSUME Init PROVE Conserved
  OBVIOUS
<1>1. Handlers = {}
  BY DEF Init, Handlers
<1> QED
  BY <1>1, FS_EmptySet DEF Init, Conserved

\* Conserved is kept by every step from a state with Shape.
LEMMA ConservedStep == Shape /\ Conserved /\ [Next]_vars => Conserved'
<1> SUFFICES ASSUME Shape, Conserved, [Next]_vars PROVE Conserved'
  OBVIOUS
<1>1. /\ wpc \in [Workers -> WorkerPlaces]
      /\ queue \in Seq(Requests) /\ responses \in Seq(Responses)
      /\ Len(queue) \in Nat /\ Len(responses) \in Nat
      /\ arrived \in Nat /\ accepted \in Nat /\ answered \in Nat
      /\ Len(queue') \in Nat /\ Len(responses') \in Nat
  BY ShapeStep DEF Shape
<1>2. /\ IsFiniteSet(Handlers)
      /\ Cardinality(Handlers) \in Nat /\ Cardinality(Handlers') \in Nat
  BY HandlersFinite
<1> USE DEF Conserved
<1>3. ASSUME NEW id \in Requests, Request(id) PROVE Conserved'
  <2>1. Handlers' = Handlers
    BY <1>1, <1>3 DEF Request, Signal, Handlers
  <2>2. Len(queue') = Len(queue) + 1
    BY <1>1, <1>3, AppendProperties DEF Request
  <2> QED
    BY <1>1, <1>2, <1>3, <2>1, <2>2 DEF Request
<1>4. ASSUME NEW id \in Requests, RequestCrashes(id) \/ RequestUnknown(id)
      PROVE  Conserved'
  <2>1. Handlers' = Handlers
    BY <1>4 DEF RequestCrashes, RequestUnknown, threads, Handlers
  <2> QED
    BY <1>1, <1>2, <1>4, <2>1 DEF RequestCrashes, RequestUnknown
<1>5. CASE PopResponse
  <2>1. Handlers' = Handlers
    BY <1>5 DEF PopResponse, threads, Handlers
  <2>2. Len(responses') = Len(responses) - 1
    BY <1>1, <1>5, HeadTailProperties DEF PopResponse
  <2> QED
    BY <1>1, <1>2, <1>5, <2>1, <2>2 DEF PopResponse
<1>6. ASSUME NEW w \in Workers, Cycle(w) PROVE Conserved'
  <2>1. CASE queue = <<>>
    <3>1. Handlers' = Handlers
      BY <1>1, <1>6, <2>1 DEF Cycle, Handlers
    <3> QED
      BY <1>6, <2>1, <3>1 DEF Cycle
  <2>2. CASE queue # <<>>
    <3>1. Handlers' = Handlers \cup {w} /\ w \notin Handlers
      BY <1>1, <1>6, <2>2 DEF Cycle, Handlers
    <3>2. Cardinality(Handlers') = Cardinality(Handlers) + 1
      BY <1>2, <3>1, FS_AddElement
    <3>3. Len(queue') = Len(queue) - 1
      BY <1>1, <1>6, <2>2, HeadTailProperties DEF Cycle
    <3> QED
      BY <1>1, <1>2, <1>6, <3>2, <3>3 DEF Cycle
  <2> QED
    BY <2>1, <2>2
<1>7. ASSUME NEW w \in Workers, Answer(w) PROVE Conserved'
  <2>1. Handlers' = Handlers \ {w} /\ w \in Handlers
    BY <1>1, <1>7 DEF Answer, Handlers
  <2>2. Cardinality(Handlers') = Cardinality(Handlers) - 1
    BY <1>2, <2>1, FS_RemoveElement
  <2>3. Len(responses') = Len(responses) + 1
    BY <1>1, <1>7, ProcessType, AppendProperties DEF Answer
  <2>4. UNCHANGED <<queue, arrived, accepted, answered>>
    BY <1>7 DEF Answer
  <2>5. Len(queue) + Cardinality(Handlers') + Len(responses') + answered
          <= accepted
    <3> DEFINE h == Cardinality(Handlers)
               q == Len(queue)
               r == Len(responses)
    <3>1. /\ q \in Nat /\ r \in Nat /\ h \in Nat /\ accepted \in Nat
          /\ answered \in Nat /\ q + h + r + answered <= accepted
      BY <1>1, <1>2 DEF Conserved
    <3>2. Cardinality(Handlers') = h - 1 /\ Len(responses') = r + 1
      BY <2>2, <2>3
    <3> HIDE DEF h, q, r
    <3>3. q + Cardinality(Handlers') + Len(responses') + answered <= accepted
      BY <3>1, <3>2
    <3> QED
      BY <3>3 DEF q
  <2> QED
    BY <2>4, <2>5 DEF Conserved
<1>8. ASSUME NEW w \in Workers, LosesItself(w) \/ Stray(w) PROVE Conserved'
  <2>1. Handlers' \in SUBSET Handlers
    BY <1>1, <1>8 DEF LosesItself, Stray, Handlers
  <2>2. Cardinality(Handlers') <= Cardinality(Handlers)
    BY <1>2, <2>1, FS_Subset
  <2> QED
    BY <1>1, <1>2, <1>8, <2>2 DEF LosesItself, Stray, traffic
<1>9. CASE UNCHANGED traffic /\ Handlers' = Handlers
  BY <1>9 DEF traffic
<1>10. CreateWorker => UNCHANGED traffic /\ Handlers' = Handlers
  BY <1>1 DEF CreateWorker, Created, Handlers
<1>11. \/ UNCHANGED traffic /\ Handlers' = Handlers
       \/ PopResponse \/ CreateWorker
       \/ \E id \in Requests :
            Request(id) \/ RequestCrashes(id) \/ RequestUnknown(id)
       \/ \E w \in Workers : WorkerNext(w)
  BY DEF Next, MainNext, ClientNext, vars, threads, Handlers, CheckArguments,
         InitLogger, LoadFile, LoadFileFails, InitDatabase, InitDatabaseFails,
         NewHandler, CreateTable, CreateTableFails, OpenQueue, AllocatePool,
         MakeLock, MakeLockFails, Abandon, MakeAttributes, MakeAttributesFails,
         CreateWorkerFails, ReturnPool, StartNetwork
<1> QED
  BY <1>3, <1>4, <1>5, <1>6, <1>7, <1>8, <1>9, <1>10, <1>11 DEF WorkerNext

-----------------------------------------------------------------------------
(***************************************************************************)
(* The theorems.                                                           *)
(***************************************************************************)

IInv == Shape /\ Setup /\ Building /\ Threads /\ Conserved

\* The layers together are inductive.
LEMMA Invariance == Spec => []IInv
<1>1. Init => IInv
  BY ShapeInit, SetupInit, ThreadsInit, ConservedInit DEF IInv
<1>2. IInv /\ [Next]_vars => IInv'
  BY ShapeStep, SetupStep, BuildingStep, ThreadsStep, ConservedStep DEF IInv
<1> QED
  BY <1>1, <1>2, PTL DEF Spec

\* Every variable keeps its type, and no more responses are about than the
\* pool took requests (main.cpp:19-101; DispatchMsgService.cpp:53-98).
THEOREM TypeCorrect == Spec => []TypeOK
<1>1. IInv => TypeOK
  <2> SUFFICES ASSUME IInv PROVE TypeOK
    OBVIOUS
  <2>1. answered + Len(responses) <= accepted /\ accepted <= arrived
    BY HandlersFinite, LenProperties DEF IInv, Shape, Conserved
  <2> QED
    BY <2>1 DEF IInv, Shape, WorkerPlaces, TypeOK
<1> QED
  BY <1>1, Invariance, PTL

\* No thread runs before the log, the configuration, the subscribers and,
\* unless the database failed, the tables are there (main.cpp:33-90).
THEOREM ThreadsLast == Spec => []ThreadsComeLast
<1>1. IInv => ThreadsComeLast
  BY DEF IInv, Building, Ready, Subscribed, ThreadsComeLast
<1> QED
  BY <1>1, Invariance, PTL

\* Whatever call of thread_pool_init fails after whatever number of workers,
\* nobody posts to the memory it freed (thread_pool.cpp:14-70).
THEOREM FreedPoolUnreachable == Spec => []FreedPoolAbandoned
<1>1. IInv => FreedPoolAbandoned
  BY DEF IInv, Shape, Threads, FreedPoolAbandoned
<1> QED
  BY <1>1, Invariance, PTL

\* No response event is an EXIT_RSP (DispatchMsgService.cpp:53-80, 134-170).
THEOREM HandlersAnswer == Spec => []AnsweredByHandler
<1>1. IInv => AnsweredByHandler
  BY DEF IInv, Threads
<1> QED
  BY <1>1, Invariance, PTL
=============================================================================
