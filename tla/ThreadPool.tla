----------------------------- MODULE ThreadPool -----------------------------
(***************************************************************************)
(* The thread pool of src/src/ThreadPool: one mutex, one condition         *)
(* variable, a FIFO of tasks, the signed counter `waiting', and detached   *)
(* workers that loop in thread_pool_cycle.  One owner thread (main) posts  *)
(* tasks and may at last destroy the pool.                                 *)
(*                                                                         *)
(* Every access the code makes to the pool between a lock and its unlock   *)
(* is a step of its own here, so that the mutex, and not the model, is     *)
(* what keeps the threads apart.  The initial state is the one             *)
(* thread_pool_init leaves: a worker that got ahead of the others during   *)
(* the creation loop does nothing it could not do after it, because no     *)
(* task can be posted before thread_pool_init returns.                     *)
(*                                                                         *)
(* The list of tasks is kept with its links, as thread_pool_queue_t has    *)
(* it: the code reads and writes `first', `last' and `next', and `queue'   *)
(* only records what the list ought to hold.                               *)
(***************************************************************************)
EXTENDS Integers, Sequences, FiniteSets

CONSTANTS
  Workers,    \* the threads created by thread_pool_init
  Tasks,      \* the heap tasks the owner may post (bounds a behaviour)
  MaxQueue,   \* max_queue
  Owner,      \* the thread that posts and destroys
  ExitTask,   \* the task on the stack of thread_pool_destroy
  First,      \* the address of the field tp->queue.first
  None        \* no thread, no task, NULL

ASSUME PoolAssumption ==
  /\ IsFiniteSet(Workers)
  /\ Workers # {}
  /\ MaxQueue \in Nat
  /\ Owner \notin Workers
  /\ None \notin Workers \cup {Owner}
  /\ ExitTask \notin Tasks
  /\ None \notin Tasks \cup {ExitTask}
  /\ First \notin Tasks \cup {ExitTask, None}

VARIABLES
  mtx,        \* the thread that holds tp->mtx, or None
  first,      \* tp->queue.first
  last,       \* tp->queue.last: First, or the task whose field `next' it is
  next,       \* the field `next' of each task
  queue,      \* the tasks posted and not taken, oldest first (history)
  waiting,    \* tp->waiting
  wpc,        \* where each worker is in thread_pool_cycle
  task,       \* the local variable `task' of each worker
  heap,       \* what became of each heap task
  opc,        \* where the owner is
  arg,        \* the task thread_task_post was called with
  lock,       \* the variable `lock' of thread_pool_destroy
  exits       \* the variable `n' of thread_pool_destroy

links == <<first, last, next>>
vars == <<mtx, links, queue, waiting, wpc, task, heap, opc, arg, lock, exits>>
ownerVars == <<opc, arg, exits>>

AllTasks == Tasks \cup {ExitTask}
Threads == Cardinality(Workers)

\* Program points of a worker at which it holds the mutex, and all of them.
WorkerHolds == {"decr", "test", "unlock"}
WorkerPCs ==
  WorkerHolds \cup {"top", "asleep", "wake", "run", "free", "exiting", "exited"}

\* Program points of the owner inside thread_task_post with the mutex held.
OwnerHolds == {"check", "signal", "append", "release"}
OwnerPCs ==
  OwnerHolds \cup {"idle", "lock", "loop", "spin", "abandoned", "freed"}

HeapStates == {"none", "allocated", "queued", "taken", "freed", "leaked"}

\* Workers blocked in pthread_cond_wait; workers that decremented `waiting'
\* for a task they have not popped; those of them on their way to the test
\* of the queue.
At(points) == {w \in Workers : wpc[w] \in points}
Asleep == At({"asleep"})
Idle == At({"test", "asleep", "wake"})
Coming == At({"test", "wake"})
Gone == At({"exiting", "exited"})

\* Mutant of Full: `>' for `>='.
FullOffByOne == waiting > MaxQueue

\* The test with which thread_task_post refuses a task.
Full == waiting >= MaxQueue

-----------------------------------------------------------------------------

Init ==
  /\ mtx = None
  /\ first = None
  /\ last = First
  /\ next = [t \in AllTasks |-> None]
  /\ queue = <<>>
  /\ waiting = 0
  /\ wpc = [w \in Workers |-> "top"]
  /\ task = [w \in Workers |-> None]
  /\ heap = [t \in Tasks |-> "none"]
  /\ opc = "idle"
  /\ arg = None
  /\ lock = 0
  /\ exits = 0

(***************************************************************************)
(* thread_task_alloc and thread_task_post, by the owner.                   *)
(***************************************************************************)

\* enqueue allocates a task and calls thread_task_post with it.
Alloc(t) ==
  /\ opc = "idle"
  /\ heap[t] = "none"
  /\ heap' = [heap EXCEPT ![t] = "allocated"]
  /\ arg' = t
  /\ opc' = "lock"
  /\ UNCHANGED <<mtx, links, queue, waiting, wpc, task, lock, exits>>

PostLock ==
  /\ opc = "lock"
  /\ mtx = None
  /\ mtx' = Owner
  /\ opc' = "check"
  /\ UNCHANGED <<links, queue, waiting, wpc, task, heap, lock, arg, exits>>

\* Mutant of PostFull: the error return forgets the unlock.
PostFullKeepsLock ==
  /\ opc = "check"
  /\ Full
  /\ opc' = IF arg = ExitTask THEN "abandoned" ELSE "idle"
  /\ heap' = IF arg = ExitTask THEN heap ELSE [heap EXCEPT ![arg] = "leaked"]
  /\ UNCHANGED <<mtx, links, queue, waiting, wpc, task, lock, arg, exits>>

\* The queue is full: unlock and return T_ERROR.  DispatchMsgService::enqueue
\* passes the error on and keeps no pointer to the task; thread_pool_destroy
\* returns at once.
PostFull ==
  /\ opc = "check"
  /\ Full
  /\ mtx' = None
  /\ IF arg = ExitTask
     THEN opc' = "abandoned" /\ UNCHANGED heap
     ELSE opc' = "idle" /\ heap' = [heap EXCEPT ![arg] = "leaked"]
  /\ UNCHANGED <<links, queue, waiting, wpc, task, lock, arg, exits>>

\* There is room: task->next = NULL.
PostCheck ==
  /\ opc = "check"
  /\ ~Full
  /\ next' = [next EXCEPT ![arg] = None]
  /\ opc' = "signal"
  /\ UNCHANGED <<mtx, first, last, queue, waiting, wpc, task, heap, lock, arg,
                 exits>>

\* Mutant of PostSignal: only the first task of the queue is signalled.
SignalFirstOnly ==
  /\ opc = "signal"
  /\ IF Asleep = {} \/ queue # <<>>
     THEN UNCHANGED wpc
     ELSE \E w \in Asleep : wpc' = [wpc EXCEPT ![w] = "wake"]
  /\ opc' = "append"
  /\ UNCHANGED <<mtx, links, queue, waiting, task, heap, lock, arg, exits>>

\* Mutant of PostSignal: `waiting' taken for a count of waiting threads.
SignalIfWaiting ==
  /\ opc = "signal"
  /\ IF Asleep = {} \/ waiting <= 0
     THEN UNCHANGED wpc
     ELSE \E w \in Asleep : wpc' = [wpc EXCEPT ![w] = "wake"]
  /\ opc' = "append"
  /\ UNCHANGED <<mtx, links, queue, waiting, task, heap, lock, arg, exits>>

\* thread_cond_signal wakes a worker that sleeps, if there is one.
PostSignal ==
  /\ opc = "signal"
  /\ IF Asleep = {}
     THEN UNCHANGED wpc
     ELSE \E w \in Asleep : wpc' = [wpc EXCEPT ![w] = "wake"]
  /\ opc' = "append"
  /\ UNCHANGED <<mtx, links, queue, waiting, task, heap, lock, arg, exits>>

\* Mutant of PostAppend: the task goes to the front of the list.
PostPrepend ==
  /\ opc = "append"
  /\ first' = arg
  /\ next' = [next EXCEPT ![arg] = first]
  /\ last' = IF last = First THEN arg ELSE last
  /\ queue' = <<arg>> \o queue
  /\ waiting' = waiting + 1
  /\ heap' = IF arg = ExitTask THEN heap
                               ELSE [heap EXCEPT ![arg] = "queued"]
  /\ opc' = "release"
  /\ UNCHANGED <<mtx, wpc, task, lock, arg, exits>>

\* *tp->queue.last = task; tp->queue.last = &task->next.
PostAppend ==
  /\ opc = "append"
  /\ IF last = First
     THEN first' = arg /\ UNCHANGED next
     ELSE next' = [next EXCEPT ![last] = arg] /\ UNCHANGED first
  /\ last' = arg
  /\ queue' = Append(queue, arg)
  /\ waiting' = waiting + 1
  /\ heap' = IF arg = ExitTask THEN heap
                               ELSE [heap EXCEPT ![arg] = "queued"]
  /\ opc' = "release"
  /\ UNCHANGED <<mtx, wpc, task, lock, arg, exits>>

\* Unlock and return T_OK, to enqueue or to the spin of thread_pool_destroy.
PostUnlock ==
  /\ opc = "release"
  /\ mtx' = None
  /\ opc' = IF arg = ExitTask THEN "spin" ELSE "idle"
  /\ UNCHANGED <<links, queue, waiting, wpc, task, heap, lock, arg, exits>>

(***************************************************************************)
(* thread_pool_destroy, by the owner.                                      *)
(***************************************************************************)

DestroyCall ==
  /\ opc = "idle"
  /\ opc' = "loop"
  /\ UNCHANGED <<mtx, links, queue, waiting, wpc, task, heap, lock, arg, exits>>

\* for (n = 0; n < tp->threads; n++): set lock, post the exit task.
DestroyPost ==
  /\ opc = "loop"
  /\ exits < Threads
  /\ lock' = 1
  /\ arg' = ExitTask
  /\ opc' = "lock"
  /\ UNCHANGED <<mtx, links, queue, waiting, wpc, task, heap, exits>>

\* Mutant of DestroySpin: the last exit task is not waited for.
DestroySpinsLess ==
  /\ opc = "spin"
  /\ lock = 0 \/ exits = Threads - 1
  /\ exits' = exits + 1
  /\ opc' = "loop"
  /\ UNCHANGED <<mtx, links, queue, waiting, wpc, task, heap, lock, arg>>

\* while (lock) sched_yield();
DestroySpin ==
  /\ opc = "spin"
  /\ lock = 0
  /\ exits' = exits + 1
  /\ opc' = "loop"
  /\ UNCHANGED <<mtx, links, queue, waiting, wpc, task, heap, lock, arg>>

\* Every exit task was answered: destroy cond and mtx, free(tp).
DestroyFree ==
  /\ opc = "loop"
  /\ exits = Threads
  /\ opc' = "freed"
  /\ UNCHANGED <<mtx, links, queue, waiting, wpc, task, heap, lock, arg, exits>>

(***************************************************************************)
(* thread_pool_cycle, by worker w.                                         *)
(***************************************************************************)

Lock(w) ==
  /\ wpc[w] = "top"
  /\ mtx = None
  /\ mtx' = w
  /\ wpc' = [wpc EXCEPT ![w] = "decr"]
  /\ UNCHANGED <<links, queue, waiting, task, heap, lock, ownerVars>>

Decrement(w) ==
  /\ wpc[w] = "decr"
  /\ waiting' = waiting - 1
  /\ wpc' = [wpc EXCEPT ![w] = "test"]
  /\ UNCHANGED <<mtx, links, queue, task, heap, lock, ownerVars>>

\* pthread_cond_wait gives the mutex up and goes to sleep in one step.
CondWait(w) ==
  /\ wpc[w] = "test"
  /\ first = None
  /\ mtx' = None
  /\ wpc' = [wpc EXCEPT ![w] = "asleep"]
  /\ UNCHANGED <<links, queue, waiting, task, heap, lock, ownerVars>>

\* pthread_cond_wait may return without a signal.
SpuriousWake(w) ==
  /\ wpc[w] = "asleep"
  /\ wpc' = [wpc EXCEPT ![w] = "wake"]
  /\ UNCHANGED <<mtx, links, queue, waiting, task, heap, lock, ownerVars>>

\* Mutant of Relock: `waiting--' moved into the loop.
RelockDecrements(w) ==
  /\ wpc[w] = "wake"
  /\ mtx = None
  /\ mtx' = w
  /\ waiting' = waiting - 1
  /\ wpc' = [wpc EXCEPT ![w] = "test"]
  /\ UNCHANGED <<links, queue, task, heap, lock, ownerVars>>

\* pthread_cond_wait takes the mutex again before it returns.
Relock(w) ==
  /\ wpc[w] = "wake"
  /\ mtx = None
  /\ mtx' = w
  /\ wpc' = [wpc EXCEPT ![w] = "test"]
  /\ UNCHANGED <<links, queue, waiting, task, heap, lock, ownerVars>>

\* Mutant of Pop: `last' is left at the task that was taken.
PopLeavesLast(w) ==
  /\ wpc[w] = "test"
  /\ first # None
  /\ task' = [task EXCEPT ![w] = first]
  /\ first' = next[first]
  /\ heap' = IF first = ExitTask THEN heap ELSE [heap EXCEPT ![first] = "taken"]
  /\ queue' = Tail(queue)
  /\ wpc' = [wpc EXCEPT ![w] = "unlock"]
  /\ UNCHANGED <<mtx, last, next, waiting, lock, ownerVars>>

\* task = tp->queue.first; tp->queue.first = task->next; and when the list is
\* empty now, tp->queue.last = &tp->queue.first.
Pop(w) ==
  /\ wpc[w] = "test"
  /\ first # None
  /\ task' = [task EXCEPT ![w] = first]
  /\ first' = next[first]
  /\ last' = IF next[first] = None THEN First ELSE last
  /\ heap' = IF first = ExitTask THEN heap ELSE [heap EXCEPT ![first] = "taken"]
  /\ queue' = Tail(queue)
  /\ wpc' = [wpc EXCEPT ![w] = "unlock"]
  /\ UNCHANGED <<mtx, next, waiting, lock, ownerVars>>

Unlock(w) ==
  /\ wpc[w] = "unlock"
  /\ mtx' = None
  /\ wpc' = [wpc EXCEPT ![w] = "run"]
  /\ UNCHANGED <<links, queue, waiting, task, heap, lock, ownerVars>>

\* task->handler(task->ctx) of a heap task: DispatchMsgService::svc.
Run(w) ==
  /\ wpc[w] = "run"
  /\ task[w] # ExitTask
  /\ wpc' = [wpc EXCEPT ![w] = "free"]
  /\ UNCHANGED <<mtx, links, queue, waiting, task, heap, lock, ownerVars>>

\* Mutant of RunExit: the handler does not clear the owner's flag.
RunExitSilent(w) ==
  /\ wpc[w] = "run"
  /\ task[w] = ExitTask
  /\ task' = [task EXCEPT ![w] = None]
  /\ wpc' = [wpc EXCEPT ![w] = "exiting"]
  /\ UNCHANGED <<mtx, links, queue, waiting, heap, lock, ownerVars>>

\* thread_pool_exit_handler: clear the owner's flag, then pthread_exit.  The
\* handler never returns, so the task on the owner's stack is not freed.
RunExit(w) ==
  /\ wpc[w] = "run"
  /\ task[w] = ExitTask
  /\ lock' = 0
  /\ task' = [task EXCEPT ![w] = None]
  /\ wpc' = [wpc EXCEPT ![w] = "exiting"]
  /\ UNCHANGED <<mtx, links, queue, waiting, heap, ownerVars>>

PthreadExit(w) ==
  /\ wpc[w] = "exiting"
  /\ wpc' = [wpc EXCEPT ![w] = "exited"]
  /\ UNCHANGED <<mtx, links, queue, waiting, task, heap, lock, ownerVars>>

\* task->next = NULL, thread_task_free(task), then the next turn of the loop.
Free(w) ==
  /\ wpc[w] = "free"
  /\ next' = [next EXCEPT ![task[w]] = None]
  /\ heap' = [heap EXCEPT ![task[w]] = "freed"]
  /\ task' = [task EXCEPT ![w] = None]
  /\ wpc' = [wpc EXCEPT ![w] = "top"]
  /\ UNCHANGED <<mtx, first, last, queue, waiting, lock, ownerVars>>

-----------------------------------------------------------------------------

OwnerNext ==
  \/ \E t \in Tasks : Alloc(t)
  \/ PostLock \/ PostFull \/ PostCheck \/ PostSignal \/ PostAppend \/ PostUnlock
  \/ DestroyCall \/ DestroyPost \/ DestroySpin \/ DestroyFree

WorkerNext(w) ==
  \/ Lock(w) \/ Decrement(w) \/ CondWait(w) \/ SpuriousWake(w) \/ Relock(w)
  \/ Pop(w) \/ Unlock(w) \/ Run(w) \/ RunExit(w) \/ PthreadExit(w) \/ Free(w)

Next == OwnerNext \/ \E w \in Workers : WorkerNext(w)

Spec == Init /\ [][Next]_vars

(***************************************************************************)
(* A thread that is not blocked is scheduled again; the mutex does not     *)
(* starve the owner for ever; the handler of a task returns.  Nothing is   *)
(* assumed of SpuriousWake, nor of the owner's choice to post or destroy.  *)
(***************************************************************************)
OwnerProgress ==
  PostFull \/ PostCheck \/ PostSignal \/ PostAppend \/ PostUnlock
  \/ DestroyPost \/ DestroySpin \/ DestroyFree

WorkerProgress(w) ==
  \/ Lock(w) \/ Decrement(w) \/ CondWait(w) \/ Relock(w) \/ Pop(w)
  \/ Unlock(w) \/ Run(w) \/ RunExit(w) \/ PthreadExit(w) \/ Free(w)

Fairness ==
  /\ WF_vars(OwnerProgress)
  /\ SF_vars(PostLock)
  /\ \A w \in Workers : WF_vars(WorkerProgress(w))

FairSpec == Spec /\ Fairness

-----------------------------------------------------------------------------

TypeOK ==
  /\ mtx \in Workers \cup {Owner, None}
  /\ first \in AllTasks \cup {None}
  /\ last \in AllTasks \cup {First}
  /\ next \in [AllTasks -> AllTasks \cup {None}]
  /\ queue \in Seq(AllTasks)
  /\ waiting \in -Threads .. MaxQueue
  /\ wpc \in [Workers -> WorkerPCs]
  /\ task \in [Workers -> AllTasks \cup {None}]
  /\ heap \in [Tasks -> HeapStates]
  /\ opc \in OwnerPCs
  /\ arg \in AllTasks \cup {None}
  /\ lock \in {0, 1}
  /\ exits \in 0 .. Threads

(***************************************************************************)
(* A thread is at a point between a lock and its unlock exactly while it   *)
(* holds the mutex.  This is what makes the error returns of the error     *)
(* checking mutex (EDEADLK, EPERM: thread_pool.cpp:144, 194, 217)          *)
(* unreachable, and every other access to the pool exclusive.              *)
(***************************************************************************)
MutexDiscipline ==
  /\ \A w \in Workers : mtx = w <=> wpc[w] \in WorkerHolds
  /\ mtx = Owner <=> opc \in OwnerHolds

(***************************************************************************)
(* `waiting' is the number of queued tasks less the number of workers that *)
(* have announced themselves and hold no task yet; it is negative whenever *)
(* more workers idle than tasks wait (thread_pool.cpp:169, 199).           *)
(***************************************************************************)
WaitingCount == waiting = Len(queue) - Cardinality(Idle)

\* The limit that `waiting >= max_queue' really enforces on the queue: one
\* task more than max_queue for each idle worker (thread_pool.cpp:148).
QueueBound == Len(queue) <= MaxQueue + Cardinality(Idle)

(***************************************************************************)
(* No lost wake-up: while a worker sleeps, there is for every queued task  *)
(* a worker on its way to the queue.  The code signals before it appends   *)
(* and lets a worker that never slept take the task meant for the one it   *)
(* woke (thread_pool.cpp:161-169, 201-211).                                *)
(***************************************************************************)
NoLostWakeup == Asleep # {} => Len(queue) <= Cardinality(Coming)

(***************************************************************************)
(* Followed from `first', the links are the tasks that were posted and not *)
(* taken, each once and in order, and `last' is the link at their end.  So *)
(* no link leads into a task that a worker has taken, and may have freed,  *)
(* though the exit task is posted again and again at one address, and no   *)
(* post cuts the list or writes into memory of another owner               *)
(* (thread_pool.cpp:158-167, 201-215, 230-231; thread_pool.h:40-43).       *)
(***************************************************************************)
LinksMatch ==
  /\ first = IF queue = <<>> THEN None ELSE queue[1]
  /\ last = IF queue = <<>> THEN First ELSE queue[Len(queue)]
  /\ \A i \in 1 .. Len(queue) :
       next[queue[i]] = IF i = Len(queue) THEN None ELSE queue[i + 1]

(***************************************************************************)
(* When the pool is freed, every worker has left thread_pool_cycle, and    *)
(* every task thread_task_post accepted has been run and freed: nothing is *)
(* left that could use the memory of the pool (thread_pool.cpp:84-101).    *)
(***************************************************************************)
DestroyDrains ==
  opc = "freed" =>
    /\ Gone = Workers
    /\ queue = <<>>
    /\ \A t \in Tasks : heap[t] \in {"none", "freed", "leaked"}

(***************************************************************************)
(* Every task thread_task_post accepted is run to its end and freed,       *)
(* whatever the owner does afterwards.                                     *)
(***************************************************************************)
AcceptedTasksRun == \A t \in Tasks : heap[t] = "queued" ~> heap[t] = "freed"

(***************************************************************************)
(* A call of thread_pool_destroy returns: no worker is left that waits for *)
(* an exit task, and the owner does not spin for ever.                     *)
(***************************************************************************)
DestroyReturns == opc = "loop" ~> opc \in {"freed", "abandoned"}

\* The pool is the FIFO of run-once tasks that TaskQueue states.  Each idle
\* worker adds one place to the MaxQueue places of the queue.
TQ == INSTANCE TaskQueue WITH
  MaxPending <- MaxQueue + Threads,
  fresh <- {t \in Tasks : heap[t] \in {"none", "allocated"}},
  pending <- queue,
  running <- task,
  finished <- {t \in Tasks : heap[t] = "freed"},
  refused <- {t \in Tasks : heap[t] = "leaked"},
  retired <- Gone

\* Every step of the pool is a step of TaskQueue or changes nothing there.
ImplementsTaskQueue == TQ!Spec

-----------------------------------------------------------------------------
(***************************************************************************)
(* What comments of the code say, which the code does not keep.            *)
(***************************************************************************)

\* DispatchMsgService.cpp:35 and thread_pool.cpp:72: the call destroys the pool.
DestroyDestroys == opc \notin {"abandoned"}
=============================================================================
