# Verification of shared_bike_server

TLA+ modules, TLC configurations and TLAPS proofs for the server of this
repository: a single-threaded libevent front end, a thread pool of four workers,
a queue of responses back to the front end, and business handlers on MySQL.
Paths below are relative to `src/src/` of the repository unless they say more.

## The system

One **main thread** runs `while (1) { network_event_dispatch(); sleep(1); }`. Each
turn first lets libevent call back (`handle_request`, `handle_error`,
`listener_cb`) and then runs `handleAllResponseEvent`. A complete request becomes
an event whose `args_` is the *address* of the `ConnectSession`, and is posted to
the pool. A **worker** runs `DispatchMsgService::svc`, which calls the subscribed
handler and pushes the response event, with the same `args_`, on
`response_events`. The main thread pops it, writes it to the `bufferevent` of the
session at that address, and resets the session.

| Component | State | Operations | Talks to |
|---|---|---|---|
| Thread pool (`ThreadPool/thread_pool.cpp`) | `mtx`, `cond`, list of tasks, signed `waiting`, workers | `thread_task_alloc`, `thread_task_post`, `thread_pool_cycle`, `thread_pool_init`, `thread_pool_destroy` | main posts, workers run `svc` |
| Mutex and condition (`thread_mutex.cpp`, `thread_cond.cpp`) | an error-checking mutex, a condition variable | lock, unlock, wait, signal | the pool, `queue_mutex`, `pm_` |
| NetworkInterface | a `ConnectSession` per connection, the evbuffers of libevent | `listener_cb`, `handle_request`, `handle_error`, `send_response_message`, `session_*` | calls `parseEvent`, `enqueue` |
| DispatchMsgService | `response_events` under `queue_mutex`, `subscribers_`, `tp`, `svr_exit_` | `open`, `close`, `enqueue`, `svc`, `process`, `subscribe`, `parseEvent`, `handleAllResponseEvent` | pool, handlers, NetworkInterface |
| UserEventHandler, UserService | `m2c_` under `pm_`, the generator of the C library, table `userinfo` | `handle_mobile_code_req`, `handle_login_req`, `exist`, `insert` | called by workers, calls MySQL |
| MysqlConnection | a MySQL handle per login | `Init`, `Execute`, `Reconnect` | MySQL |
| Events | `sn_` from an unprotected static counter | constructors, `generateSeqNo` | all threads |
| Protocol buffers (`bike.pb.cpp`, one copy per side) | has bits, values, unknown fields of a message | setters, `Clear`, `ByteSizeLong`, `SerializeToArray`, `ParseFromArray`, `IsInitialized` | `parseEvent`, response events, the test client |
| BusinessProcessor, SqlTables | tables `userinfo`, `bikeinfo` | constructor subscribes the handler, `init` creates the tables | MySQL, DispatchMsgService |
| Iniconfig, Logger, main | configuration, log category | startup in sequence, then the loop | all of the above |
| Test client (`../client/client.cpp`) | `icode` | two commands, reads responses | the server |

What makes it hard: five threads share the pool, the response queue, `m2c_` and
the generator; a request travels with a bare address while its session may end
(`EOF`, error, 60 s timeout) and the address be used again; the pool refuses
requests when it is full; bytes come in any portions and libevent calls back for
*new* bytes only; database statements fail, also after they took effect; the
shutdown of the pool spins on a flag that the exiting worker clears; startup
ignores the results of half the calls it makes, and its threads run before it is
over; message sizes are computed apart from the bytes they announce. Every hazard
is listed at its line under `hazards` in `PROJECT.json`.

What makes each component correct: the pool runs every accepted task exactly once
in FIFO order, never sleeps on work, and leaves nobody in freed memory; the front
end hands requests to `parseEvent` whole, in order and once, answers the connection
that asked, in order, and every request; the handlers register and admit only
mobiles with a code that was issued to them, and register a mobile once; a message
is read as it was written or refused; startup leaves a server whose workers find
everything in place, or none.

## The modules

| Module | Models |
|---|---|
| `TaskQueue` | what the pool promises: a bounded FIFO of run-once tasks, and exit tasks that retire a worker |
| `ThreadPool` | `thread_pool.cpp`, one step per access between lock and unlock |
| `ThreadPoolProofs` | the theorems about `ThreadPool` |
| `BikeServer` | NetworkInterface and DispatchMsgService over an instance of `TaskQueue` |
| `BikeServerProofs` | the theorems about `BikeServer` |
| `MessageStream` | what the front end promises of one connection: whole requests, in order, one at a time |
| `Framing` | `handle_request` byte by byte, for one connection |
| `FramingProofs` | the theorems about `Framing`: it implements `MessageStream` |
| `ResponseHeader` | the bytes of a response header, as written and as the client reads them |
| `UserEventHandler` | both handlers, `exist`/`insert` and the connection, run by concurrent workers |
| `UserEventHandlerProofs` | the theorems about `UserEventHandler` |
| `Protobuf` | the methods `protoc` writes for every class, and the parts of the runtime they call |
| `ClientMessages`, `ServerMessages` | the tables of every class, as `../client/bike.pb.cpp` and `SourceFiles/bike.pb.cpp` have them |
| `BikeProto` | what `../test/bike.proto` promises of one message |
| `MessageExchange` | one message from the side that writes it to the side that reads it |
| `FoldProofs` | what `SumFunction` adds up and `FlattenSeq` joins, for the two modules below |
| `ProtobufProofs` | theorems about `Protobuf`, for every class with tables that agree |
| `MessageExchangeProofs` | the theorems about `MessageExchange`: it implements `BikeProto` |
| `Startup` | `main` to its loop, `thread_pool_init` with its failures, `subscribe` and `process` |
| `StartupProofs` | the theorems about `Startup` |
| `MC*` | definitions of small instances |

### ThreadPool

`mtx`, `first`, `last`, `waiting` are the fields of `thread_pool_t`, `next[t]` that of a task; `wpc[w]` and `task[w]`
are a worker's place in `thread_pool_cycle` and its local variable; `opc`, `arg`,
`lock`, `exits` are the owner's place, the argument of `thread_task_post`, and the
locals of `thread_pool_destroy`; `heap` records what became of each `thread_task_t`
(`leaked` is a task whose post was refused: `enqueue` keeps no pointer to it).
Between `lock` and `unlock` each access is its own step, and other threads'
steps come between them, so it is the mutex that has to keep them apart.
`pthread_cond_wait` is `CondWait` (sleep and release at once), `SpuriousWake` or a
signal, and `Relock`. The error returns of
the mutex functions (`EDEADLK`, `EPERM`) have no actions: `MutexDiscipline` shows
that their causes cannot occur. The initial state is what `thread_pool_init`
leaves; its failure paths are in `Startup`.

`waiting` is worth a note: `thread_pool.h:49` calls it the number of waiting
threads, while it is queued tasks less idle workers (`WaitingCount`), so that
`waiting >= max_queue` admits up to `max_queue` plus the number of idle workers
(`QueueBound`), against `thread_pool.h:54`.

The code's list is kept with its links: `last` is the address of the link to be written next,
that is `First` (the field `queue.first` of an empty list) or a task, for its `next`. Every test
and every store goes through the links; `queue` is history, the tasks posted and not yet
taken. `LinksMatch` says that the links spell it. A task here is one allocation. In memory
`calloc` may return an address that was freed before, and the exit task is posted again and again
at one address of `thread_pool_destroy`'s stack; an old link that was left somewhere would then
lead to the new task. `LinksMatch` rules that out, since `first`, `last` and the links of
what is in the list lead only to tasks in the list.

### BikeServer

`link`, `asked`, `kind`, `wire` are the clients and the network; `input` is the
evbuffer; `sess[s]` is the memory at address `s`, free or a session; `args` is
`args_`; `responses` is `response_events`; `phase` is the half of
`network_event_dispatch` the main thread is in; `sent` and `unsent` say where
popped responses went. One action is one callback: it takes the bytes that
arrived and does all `handle_request` does with them. `Accept` gives a session *any*
free address. `HandleError` may happen at any time, also while the pool has the
request. What the code then does with the address is undefined; the model takes
two outcomes: the memory is still free and the write reaches nobody
(`RespondFreed`), or it is the session of a later connection and the write goes
there (`Respond`). A crash is not modelled, since it ends every behaviour.
The pool is used through `TaskQueue` (`Pool!Submit` and so on), which
`ThreadPool` implements; `MaxPending` is the larger limit `QueueBound` gives.
The properties of sessions are stated for an *undisturbed* connection, one that
never got a stray response; `StrayAnswersConfined` says where strays can come from.

### Framing and MessageStream

A byte is `<<m, i>>`, so that a body glued from the wrong bytes is told from the
right one. One action is one call of `handle_request` with `n` new bytes. The
contents of a header are its announced length; a misaligned header is taken not to
begin with `BIKE`. The refinement mapping is the identity on `lens`, `parsed`
and `open`, and `busy` is `stat = "response"`; partial reads are stutters.
`MessageStream` lets a client hang up at any time, so that an implementation that
took a body for a header and closed the connection would satisfy it:
`RejectsOnlyBadLengths` says of each step that this never happens.

### ResponseHeader

The three stores of `DispatchMsgService.cpp:241-244` on concrete bytes,
little-endian, and the two loads of `client.cpp:130-133`.

### UserEventHandler

`pm` is `pm_`, `seed` the state of `srand`/`rand`, `m2c` is `m2c_`; `rows[m]` counts the
rows of `userinfo` with mobile `m`. `latest`, `fresh` and `misses` are history: the code each mobile
was issued last, the codes that were so while a worker had its request, the failed SELECTs. `CodeOf`
is any function from seconds to codes. `InitConnection` may leave `linked` FALSE
and go on, as `MysqlConnection::Init` returns TRUE when the connection failed; `InitFails` is its
other path, where `mysql_init` makes no handle and the login is answered with a failure (what the
destructor then does with the handle is undefined; a crash ends the behaviour). A
statement that fails may have taken effect, and the next one may
succeed on the connection that was made again. Statements are atomic, there is no
transaction.

A mobile is a model value and stands for the text of a number that fits the statement.
`exist` and `insert` (`user_service.cpp:14, 31`) print that text without quotes into a buffer of
1024 bytes, and nothing in the handlers tests that it is a number. Of two things the model
therefore says nothing. Leading zeros are lost, so two texts may be one mobile. And with a text
that is not a number the SELECT is about other rows than this mobile's, so that `exist` may answer
yes, and the login succeed, without a row for it: `SuccessMeansRegistered` and `RowsPerRace`, and
the theorems `RegistrationCorrect` and `RowsBounded`, hold for numbers only.

### Protobuf, ClientMessages, ServerMessages

Generated code is regular, and is modelled as such: `Protobuf` has one operator for
each method all classes have (`Clear`, `ByteSizeLong`, `SerializeWithCachedSizes`,
`IsInitialized` and so on), over tables that say what differs. The tables are
transcribed method by method, not from the schema: which bits `Clear` tests before
it resets a value, which tag a `case` compares with, what number, type and bit
`SerializeWithCachedSizes` uses, what mask `IsInitialized` has, which fields
`ByteSizeLong` adds under which bit. Nothing makes them agree but the code. Each side has
the tables of its own copy: `ClientMessages` writes requests and reads responses,
`ServerMessages` the reverse. An object is `[has, val, unknown]`; a value lives on
when its bit is cleared, as it does in memory. Varints are computed on real bytes,
with the ten of a negative `int32`.

### BikeProto and MessageExchange

`MessageExchange` fills an object with any setters, clears and added records, sends
the size and the bytes, and parses them on the other side one field a step
(`MergePartialFromCodedStream`), with a frame per nested record as `PushLimit` keeps
it. The header may announce fewer bytes than were written (`Lost`), and the
reader's object is new or was used before. The writer may also know a newer
`bike.proto` and set one field of it (`Extras`). `BikeProto` knows none of this: fields
set, fields required, a message read or refused. The refinement mapping forgets
bytes and bits (`Meaning`). What an object holds after a *failed* parse is left open:
the server drops it.

### Startup

`at` is the call `main` is at, or how the process ended. Each call either succeeds or
fails as its code can; what `main` checks ends it, what it ignores goes on
(`MysqlConnection::Init` when it could not connect, `busPro.init`, `open`, `start`, the
creation of `pm_`). `pool` is the memory of the pool and `tp` the pointer to it that
`open` keeps; the calls inside `thread_pool_init` are steps of their own, since workers
run as soon as they are created. A worker whose pool was freed under it (`Stray`)
gets an error, hangs or crashes the process. With no pool, the first request
crashes it (`RequestCrashes`). Nothing in the repository says otherwise of either, so
both are behaviours of the model and not findings; `FreedPoolAbandoned` says how far the damage
goes. `subscribe`, `process` and `handle` are modelled with their results, from which
`AnsweredByHandler` follows: the branch of `EXIT_RSP` in `handleAllResponseEvent`, which
would send an unallocated buffer, is never taken.

## The runs

| Run | Question | Bounds |
|---|---|---|
| `pool` | discipline, counter, wake-ups, links of the list, shutdown; implements `TaskQueue`; every accepted task runs; destroy returns | 3 workers, 3 tasks, `MaxQueue` 1 |
| `pool_destroy_full` | *violation*: destroy destroys nothing on a full queue | 2 workers, 2 tasks |
| `server` | matching of requests, sessions, responses; mobile requests are answered | 2 connections, one of which pipelines (`Pipeliners`), 2 addresses, 2 workers, 2 requests each, 4 kinds |
| `server_login` | *violation*: the login response is dropped | 1 connection |
| `server_reuse` | *violation*: a response reaches another client | 2 connections, 1 address |
| `server_overflow` | *violation*: a refused request leaves the session waiting | 3 connections, 1 worker |
| `framing` | implements `MessageStream`; closes a connection for a bad length only; patient clients are served | 3-byte header, bodies 0, 1, 3 and 4 of at most 3, 3 requests |
| `response_header` | *violation*: the client does not recognise a response | lengths around one byte and beyond two |
| `user_handlers` | codes, registration, rows per race, `pm_` released | 2 workers, 2 mobiles, 3 requests, 2 seconds, failing database |
| `user_duplicates` | *violation*: a mobile is registered twice by logins that race | 2 workers, no failure |
| `messages` | sizes, parsing, refusal; implements `BikeProto`; the parser gets on, and returns | all 12 messages; ints 0, 300, -2^31; strings of 0 and 128 bytes; up to 2 records; an added field 16 of each wire type the types of `bike.proto` have; 0, 2, 3 or 4 bytes cut off |
| `startup` | what workers find; freed pools; handlers answer; accepted requests are answered | 2 workers, 2 requests, each call may fail |

Three workers are the least with one that sleeps, one woken and one that
overtakes it; `MaxQueue` 1 makes the limit bite and every wider limit behaves alike
between the extremes. A session's life is at most one request at a time, so two
requests show a request and its successor, and two connections on two addresses
show every reuse. Lengths 0 and `MaxMessage + 1` are refused, 1 and `MaxMessage`
are the extreme bodies. A login needs an issued code first, so three
requests are a code and two racing logins. Strings of 128 bytes have a length of
two, 300 a varint of two groups, and -2^31 the ten bytes of a negative number with
nothing but zeros in its low 31 bits; two records are the least of which one is
complete and the other is not. Two bytes are an empty string with its tag, three a tag of
two bytes with part of its value, four the varint a newer writer added: so a message cut short is
sometimes accepted without what was optional. An added field comes last, as the
writers put unknown fields behind all others; a message has at most one, and records
have none. Three tasks and the exit task are enough for a list with a middle, and for one that is
emptied and filled again. Two workers are the least for a `pthread_create` that fails
after one succeeded, with the other in the pool. Bounds on behaviours are `Tasks`,
`MaxRequests`, `MaxRecords` and `MaxSeconds`; where these let a run stop, its cfg turns the
deadlock check off. BikeServer keeps it on: the main loop never stops.

**Fairness.** Threads that are not blocked are scheduled (`WF` per worker and for the
owner). `SF` for a lock, because a mutex taken and released for ever by others
would only satisfy `WF`, and pthread mutexes do not starve a waiter for ever. In
BikeServer, `EndDispatch` and the responses have `WF` (the loop of main never ends), and
`HandleRequest(c)` has `SF`, being enabled in every other half of the loop:
libevent reports a readable socket until it is read. Database calls return.
`ParseFromArray` is one call on one thread (`WF` of `ReaderNext`), and so is each step
of `main`; in Startup a critical section is one step, so that `WF` per worker stands
for what `SF` does in ThreadPool.
Nothing is assumed of clients, hang-ups, spurious wake-ups, or the owner's choice
to post or destroy.

**Findings.** Each violation run checks what a comment says, and `findings` in
`PROJECT.json` quotes it. In short: login responses have no branch; response
headers carry the event id one byte too late; sessions are freed with requests in
flight; a refused `enqueue` is ignored; destroy gives up on a full queue; `exist` and
`insert` race without a unique key.

## The proofs

Every invariant of the passing runs is a theorem, and so are the action properties and
the refinements; what is left to TLC alone is liveness. A theorem holds
for every value of the constants that the `ASSUME` of its component's module
allows; nothing else is assumed. These ask for finite sets of threads, connections
and addresses, natural bounds, at least one worker (`thread_pool_init` makes
`DEFAULT_THREADS_NUM`, 4), and that a value standing for "nothing" (`None`, `Null`, `ExitTask`) is not
taken for something, nor `First` for a task. Where a bound of a run is a constant (`MaxRequests`, `MaxSeconds`,
`Tasks`), the theorem holds for all of them. `ExchangeAssumption` asks that the values of
fields are of their types, unsigned ones below 2^31, that every type has a value besides its
default (so that a set field can be told from one that is not), and that a field of a
newer `bike.proto` has a number that its older one does not use, from 16 on.

Few of the properties are inductive. Each module strengthens them to an invariant in
named layers, each kept by every step with the help of the layers before it. The
layers were run through TLC on the instances of the runs before they were proved.

### ThreadPoolProofs

| Theorem | States |
|---|---|
| `TypeCorrect` | `TypeOK`, with `waiting` in `-Threads .. MaxQueue` |
| `MutexCorrect` | `MutexDiscipline` |
| `WaitingCorrect` | `WaitingCount` |
| `QueueBounded` | `QueueBound` |
| `NoWakeupLost` | `NoLostWakeup` |
| `LinksCorrect` | `LinksMatch` |
| `DestroyCorrect` | `DestroyDrains` |
| `PoolRefinesQueue` | `Spec => ImplementsTaskQueue` |

1. `Control`: types, the mutex, and what the owner knows between the test of the
   limit and the append (`waiting < MaxQueue` from the test on, because nobody else
   increments it).
2. `Counts`: `WaitingCount` and the wake-ups. `NoLostWakeup` alone is not
   inductive, since the signal comes before the append: between the two, a sleeper
   needs one more worker on its way than there are tasks. The lemmas `CountRange`,
   `CountMove` and `StepMove` say how a cardinality changes when one worker moves.
3. `Owned`: a heap task is with the owner, at one place of the queue, or with one
   worker. This makes `Finish` happen once, and no task be freed twice.
4. `Exits`: exit tasks are posted one at a time, always behind every other task, so
   that when the first is taken the queue is empty for good, and as many workers
   have left as were answered.
5. `Links`: `LinksMatch`, and a task between the test and the append has no successor. It needs
   `Owned` and `Exits`, by which no task is twice in the queue (`QueuedOnce`), the task to be
   appended is not in it (`ArgNotQueued`), and a freed one has left it. The other layers
   need it in turn: a worker finds at `first` the head of the queue (`FirstIsHead`).

`PoolRefinesQueue` maps the initial state (`RefinesInit`), shows the steps that
change no mapped variable to be stutters (`RefinesStutter`), and the others
(post, refusal, pop, end of a task, exit) to be steps of `TaskQueue` (`RefinesStep`).

### BikeServerProofs

| Theorem | States |
|---|---|
| `Invariance` | the inductive invariant `IInv` |
| `TypeCorrect` | `TypeOK` |
| `InFlightOwnedCorrect` | `InFlightOwned` |
| `OrderCorrect` | `AnswersInOrder` |
| `AlignedCorrect` | `Aligned` |
| `StrayAnswersCorrect` | `StrayAnswersConfined` |
| `InputCorrect` | `InputConsumed` |
| `ReadsOnCorrect` | `ReadsOnAfterAnswer`, of each step |

1. `Links`: an open connection has exactly one session, and what is not open has no
   bytes under way. A connection is never opened twice, which is what makes an address
   that was used again tell apart who asked and who has it now.
2. `Places`: a request is at its client, in the pool's queue, at a worker, in the
   response queue, or written, and only at one of these; no queue names it twice.
   `StrayAnswersConfined` needs it for "at most once".
3. `Sessioned`, for the session of each connection. `Stream`: what is unread is the
   end of what was sent, and no request is in the pool whose last byte is unread.
   `Position`: the number of units consumed is odd exactly in the middle of a message;
   this is what `Aligned` says of the next byte only. `Awaits`: a session that waits
   does so for the latest request it handed over. `Outstanding`: a client that does
   not pipeline has one request under way, from which `InputConsumed` follows.
4. `Owned`: the address of a request in flight is that of its connection's session, while
   that is open. It is `InFlightOwned`, and more for a disturbed connection, whose
   session may wait for something else.
5. `Answered`: the answers a connection was sent are to ever later requests, which `Awaits`
   carries on to the next one; so the n-th answer is never to a request before the n-th.
6. `Confined`: an answer goes astray only when the one who asked has hung up.

Much of 3 to 5 is true only while no stray answer has come to a connection
(`Undisturbed`), and the invariant says so conjunct by conjunct: a stray response
resets a session in the middle of a message, and this is where `Position` ends. For
each of `Accept`, `Ask`, the callbacks of `handle_request`, `HandleError`, the pool's
steps and `Respond` there is one lemma per layer; a session that a step does not touch
is dealt with once, in `UntouchedSession`.

### FramingProofs

| Theorem | States |
|---|---|
| `Invariance` | the inductive invariant `IInv` |
| `TypeCorrect` | `TypeOK`: `header` and `read_buf` are never overrun |
| `Implementation` | `Spec => ImplementsMessageStream` |
| `RejectionCorrect` | `RejectsOnlyBadLengths`, of each step |

`Shape` has the types; `Reading` says that `header` and `body` are the first bytes of the
request after those parsed, which the refinement needs when the last of them comes.
Where the unread bytes of each request lie is a recursion over the requests, and the
prover has no induction. `Stream` says instead that there *is* a function `start` that
gives the place of each: it grows by the length of the request, and ends where the
bytes end. A call that takes `n` bytes shifts it, a `Send` adds a value at its end, and
no step has to compute it. The lemma `Ahead` reads from it what the next call finds.

### UserEventHandlerProofs

| Theorem | States |
|---|---|
| `TypeCorrect` | `TypeOK` |
| `CodeCorrect` | `CodeFromOwnSecond` |
| `VerificationCorrect` | `VerifiedBeforeDb` |
| `RegistrationCorrect` | `SuccessMeansRegistered` |
| `RowsBounded` | `RowsPerRace` |

`Places`: who holds `pm_`, and which event and response a worker has at each place.
`Generated`: at `rand`, the generator is where this worker's `srand` left it, because
`pm_` covers both. `Verified`: `m2c_` holds what was issued last, which is
among the `fresh` codes of every login that could find it there, and a worker past the comparison
has one of its own, also after `m2c_` has changed (`FreshGrows`). `RowsPerRace` is
inductive as it stands: `exist` that finds no row makes its worker one of those it counts.

### StartupProofs

| Theorem | States |
|---|---|
| `TypeCorrect` | `TypeOK` |
| `ThreadsLast` | `ThreadsComeLast` |
| `FreedPoolUnreachable` | `FreedPoolAbandoned` |
| `HandlersAnswer` | `AnsweredByHandler` |

`Shape`: types. `Setup`: what is in place when `main` is at a call. `Building`: what
`thread_pool_init` has made so far; it keeps what `Setup` says for as long as there is
a thread, since a crash ends `at` and not the threads. `Threads`: `tp` is set last and
nothing comes into a queue without it. `Conserved`: requests are queued, handled,
waiting as a response, or answered, and no more than were accepted.

### FoldProofs and ProtobufProofs

| Theorem | States |
|---|---|
| `SizeIsLength` | `ByteSizeLong` is the length of what `SerializeWithCachedSizes` writes |
| `VarintIsValue` | a varint is read as the number that was written |
| `PayloadIsRead` | `Read` finds the value that was written, or fails at the limit |
| `ReachedTurn` | between two fields, the next turn finds the next one |

These are about the operators, for *every* table of a class that satisfies `HasTables`
(each field with a bit is written once and sized once, under that bit), `HasBits`
(a bit of its own for each field, defaults in a new object) and `Reads` (a case for
each field that is written, with its number, tag and type). Two obstacles had to be gone
round, since sums and joins over fields are recursive:

- *Induction.* The library's theorems for it take an operator as a parameter, which the
  provers cannot instantiate. `NatInduct`, `UpTo` and `FiniteInduct` state it for a
  *set* that has the start and is closed under the step; each use defines the set of
  the numbers, or subsets, for which the goal holds.
- *Folds.* `SumFunction` takes its elements in an order of its own choice
  (`SumAnyOrder`: any order gives the same), so that a sum over a union of disjoint sets is
  a sum of two (`SumUnion`); `FlattenParts` gives the function of what is joined up to
  each element, from which its type, its length and the place of each part follow.

`SizeIsLength` follows the table that is written: after its first `i` entries the writer has
as many bytes as `Sum` has for the fields among them, and `ByteSizeLong`, which counts
required fields by one of two functions and the rest by another rule, adds up the same
fields. `VarintSizeIsLength` compares the two ways to count the groups of a number:
`(9 * Log2(v) + 73) \div 64`, and by comparison with powers of 128.

Read-back: `VarintIsRead` (how many bytes), `VarintIsValue` (`MadeOfGroups`: a number is made of its
groups of seven bits, with the sign in the fifth), `PayloadIsRead`, `TagIsRead`,
`PayloadIsSkipped`. `Parts` are the bytes of a message field by field, record by record;
`Places` is a function that gives where each begins, and `Partial(k, m, i)` is the
object of which `i` parts were read. `Reached` says that the reader is at one of these places
with that object: it is at the start with a new object (`ReachedStart`), has all of the
message if it is at the end (`ReachedWithin`), and gets from each place to the next one
(`ReachedTurn`, from `FieldIsFound`, `RecordIsFound`, `UnknownIsFound`).

### MessageExchangeProofs

| Theorem | States |
|---|---|
| `LoopCorrect` | `LoopAdvances`, of each step |
| `SidesAgree` | the two copies of every class agree |
| `DeclaredTables` | they are what `bike.proto` declares |
| `SizeCorrect` | `SizeMatches` |
| `TypeCorrect` | `TypeOK` |
| `ExchangeRefinesBikeProto` | `Spec => ImplementsBikeProto` |

*The loop.* The lemmas `VarintAhead` to `SkipAhead` say of each operator that reads that it
ends behind the place where it began, whatever the bytes, the limit and the length
they announce; nothing is asked of the tables of the classes. `StepAdvances` puts
them together: each step of `ReaderNext` returns, consumes a byte, or leaves a record at
its limit, which is why `ParseReturns` holds. The invariant is that `pos` is a number.

*The tables.* One lemma for each of the twelve messages (`MobileRequestTables` and so on) checks
the hypotheses of ProtobufProofs against the tables of the side that writes it and of the
side that reads it; `SidesAgree` puts them together.

*The invariant* has three layers.

1. `Built`: whatever was set and cleared, the writer has an object of its class, with at
   most one unknown field, and a list of records that the writer can make.
   `BuiltIsMessage` is what makes ProtobufProofs apply.
2. `Sent`: `wire` and `size` are what `Built` says of that object. `SizeCorrect` is these two
   and `SizeIsLength`.
3. `Reading`: while the reader is in its loop it is in one of three places. `AtMessage`: between
   two parts of the message, in the sense of `Reached`. `AtRecord`: between two fields of
   the record that comes next, above a message that has `Reached` the record. `CutOff`:
   at the limit, after a record of which the end was missing; its fields are all required,
   so this object is not initialized, and the call returns FALSE. One lemma for
   each place says where a turn leads (`MessageTurn`, `RecordStep`, `CutOffStep`).
   That a used object is read into as a new one is `ClearIsNew`.

*The refinement* follows from where a call ends. It ends with TRUE only at the limit between
two parts of the message. If nothing was cut off, the limit is the end of the bytes, so that by
`ReachedWithin` the object is the one that was written (`Accept`); otherwise it is a
`Partial` one, which `ReachedIsPart` maps to `PartOf` (`AcceptPart`). It ends with FALSE only if
something was cut off, or at the end with an object that is not initialized, which is not
complete by `DraftIsComplete` (`Refuse`). A setter is an `Edit` within the fields
`bike.proto` declares (`MeaningIsDeclared`), and every other turn of the loop is a stutter.

### Only model-checked

- Liveness: `AcceptedTasksRun`, `DestroyReturns`, `MobileAnswered`, `PatientClientServed`,
  `EveryRequestReturns`, `ParseReturns`, `AcceptedAnswered`. Fairness and ENABLED are
  outside what the prover handles.
- That `BikeServer` may take the pool for a `TaskQueue` is `PoolRefinesQueue`; that it may
  take a header and a body for wholes is `Implementation`. That the three put together
  are one system is an argument of this page, not a theorem.

## Not modelled

- Of the generated classes, `MergeFrom`, `CopyFrom`, `Swap`, arenas, descriptors and
  reflection: nothing in the program calls them (`MergeFrom` and `CopyFrom` are the
  largest part of the generated code that is left). `VerifyUTF8StringNamedField` only logs. Groups have
  no writer. TLC's integers end at 2^31, so unsigned values stay below that.
- Logging, reading the configuration file, `dump`: input, output and formatting.
- The error-checking mutex beyond its contract.
- `DispatchMsgService::close`, `unsubscribe`, the destructors of `BusinessProcessor` and
  `UserEventHandler`: they come after the endless loop of main, or when main
  returns, which it does only before they exist. `thread_pool_destroy`, which
  `close` calls, is in ThreadPool, as the pool's own operation.
- `generateSeqNo` increments a static counter without a lock. Nothing reads the
  number but `dump`, and no comment calls it unique.
- Memory running out, but for the `calloc` of the pool and of a task.
- The vendored libraries (log4cpp, iniparser, libevent, protobuf, MySQL), beyond what
  the code relies on.

## Plan

What a next step could be:

1. Model more: `UserEventHandler` composed with BikeServer, so that a code travels to the client
   and back.
2. State the composition of ThreadPool, Framing, MessageExchange and BikeServer as one
   specification, and prove that it implements BikeServer.
