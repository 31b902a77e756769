------------------------------ MODULE TaskQueue ------------------------------
(***************************************************************************)
(* What the thread pool of src/src/ThreadPool promises its client, with    *)
(* the mutex, the condition variable and the counter abstracted away: one  *)
(* bounded FIFO of tasks, workers that start tasks in the order in which   *)
(* they were accepted and run each of them once, and exit tasks, each of   *)
(* which retires the worker that takes it.                                 *)
(***************************************************************************)
EXTENDS Integers, Sequences

CONSTANTS
  Workers,    \* the threads of the pool
  Tasks,      \* the tasks a client may submit, each of them once
  ExitTask,   \* the task that ends the worker that runs it
  None,       \* no task
  MaxQueue,   \* the length from which the pool may refuse a task
  MaxPending  \* the length beyond which the queue never grows

VARIABLES
  fresh,      \* tasks not submitted yet
  pending,    \* accepted tasks no worker has started, oldest first
  running,    \* running[w] is the task worker w has started and not ended
  finished,   \* tasks that ran to their end
  refused,    \* tasks the pool did not accept
  retired     \* workers that took an exit task

vars == <<fresh, pending, running, finished, refused, retired>>

-----------------------------------------------------------------------------

Init ==
  /\ fresh = Tasks
  /\ pending = <<>>
  /\ running = [w \in Workers |-> None]
  /\ finished = {}
  /\ refused = {}
  /\ retired = {}

Submit(t) ==
  /\ t \in fresh
  /\ Len(pending) < MaxPending
  /\ fresh' = fresh \ {t}
  /\ pending' = Append(pending, t)
  /\ UNCHANGED <<running, finished, refused, retired>>

Refuse(t) ==
  /\ t \in fresh
  /\ Len(pending) >= MaxQueue
  /\ fresh' = fresh \ {t}
  /\ refused' = refused \cup {t}
  /\ UNCHANGED <<pending, running, finished, retired>>

SubmitExit ==
  /\ Len(pending) < MaxPending
  /\ pending' = Append(pending, ExitTask)
  /\ UNCHANGED <<fresh, running, finished, refused, retired>>

Start(w) ==
  /\ w \notin retired
  /\ running[w] = None
  /\ pending # <<>>
  /\ running' = [running EXCEPT ![w] = Head(pending)]
  /\ pending' = Tail(pending)
  /\ UNCHANGED <<fresh, finished, refused, retired>>

Finish(w) ==
  /\ running[w] \in Tasks
  /\ finished' = finished \cup {running[w]}
  /\ running' = [running EXCEPT ![w] = None]
  /\ UNCHANGED <<fresh, pending, refused, retired>>

Retire(w) ==
  /\ running[w] = ExitTask
  /\ retired' = retired \cup {w}
  /\ running' = [running EXCEPT ![w] = None]
  /\ UNCHANGED <<fresh, pending, finished, refused>>

Next ==
  \/ \E t \in Tasks : Submit(t) \/ Refuse(t)
  \/ SubmitExit
  \/ \E w \in Workers : Start(w) \/ Finish(w) \/ Retire(w)

Spec == Init /\ [][Next]_vars
=============================================================================
