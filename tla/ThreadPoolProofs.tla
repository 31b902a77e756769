-------------------------- MODULE ThreadPoolProofs --------------------------
(***************************************************************************)
(* What ThreadPool keeps for every number of workers, every set of tasks   *)
(* and every max_queue, proved with TLAPS.  The invariants come in layers, *)
(* each proved inductive with the help of the layers before it:            *)
(*                                                                         *)
(*   Control     the shape of the state, the mutex, the calls of the owner *)
(*   Counts      `waiting', and the wake-ups under way                     *)
(*   Owned       each heap task is in one place: with the owner, in the    *)
(*               queue once, or with one worker                            *)
(*   Exits       how many exit tasks are about, and how many workers left  *)
(*   Links       the links of the list, which the steps of the other       *)
(*               layers need and which needs them                          *)
(***************************************************************************)
EXTENDS ThreadPool, FiniteSetTheorems, SequenceTheorems, TLAPS

\* The pool has a number of workers.
LEMMA ThreadsNat == Threads \in Nat
  BY PoolAssumption, FS_CardinalityType DEF Threads

-----------------------------------------------------------------------------
(***************************************************************************)
(* First layer.                                                            *)
(***************************************************************************)

\* TypeOK, with `waiting' any integer: its range needs the second layer.
Shape ==
  /\ mtx \in Workers \cup {Owner, None}
  /\ first \in AllTasks \cup {None}
  /\ last \in AllTasks \cup {First}
  /\ next \in [AllTasks -> AllTasks \cup {None}]
  /\ queue \in Seq(AllTasks)
  /\ waiting \in Int
  /\ wpc \in [Workers -> WorkerPCs]
  /\ task \in [Workers -> AllTasks \cup {None}]
  /\ heap \in [Tasks -> HeapStates]
  /\ opc \in OwnerPCs
  /\ arg \in AllTasks \cup {None}
  /\ lock \in {0, 1}
  /\ exits \in 0 .. Threads

Posting == opc \in {"lock", "check", "signal", "append", "release"}

\* What the owner knows inside thread_task_post and thread_pool_destroy.
OwnerCalls ==
  /\ waiting <= MaxQueue
  /\ Posting => arg # None
  /\ opc \in {"signal", "append"} => waiting < MaxQueue
  /\ Posting /\ arg = ExitTask => exits < Threads
  /\ opc = "spin" => exits < Threads

Control == Shape /\ MutexDiscipline /\ OwnerCalls

\* Control holds at first.
LEMMA ControlInit == Init => Control
  BY PoolAssumption, ThreadsNat
  DEF Init, Control, Shape, MutexDiscipline, OwnerCalls, Posting, OwnerPCs,
      OwnerHolds, WorkerPCs, WorkerHolds, HeapStates, AllTasks

\* A task whose link is cleared keeps it so until it is appended.
ArgEnds == opc \in {"signal", "append"} => next[arg] = None

Links == LinksMatch /\ ArgEnds

\* What a worker finds at `first' is the oldest task, if there is one.
LEMMA FirstIsHead ==
  ASSUME Control, LinksMatch
  PROVE  /\ first = None <=> queue = <<>>
         /\ first # None => /\ first = queue[1] /\ first = Head(queue)
                            /\ Len(queue) \in Nat /\ Len(queue) >= 1
                            /\ queue[1] \in AllTasks
                            /\ Tail(queue) \in Seq(AllTasks)
<1>1. queue \in Seq(AllTasks)
  BY DEF Control, Shape
<1>2. CASE queue = <<>>
  BY <1>2 DEF LinksMatch
<1>3. CASE queue # <<>>
  <2>1. Len(queue) \in Nat /\ Len(queue) >= 1 /\ queue[1] \in AllTasks
    BY <1>1, <1>3, LenProperties, EmptySeq
  <2>2. Head(queue) = queue[1] /\ Tail(queue) \in Seq(AllTasks)
    BY <1>1, <1>3, HeadTailProperties
  <2>3. queue[1] # None
    BY <2>1, PoolAssumption DEF AllTasks
  <2> QED
    BY <1>3, <2>1, <2>2, <2>3 DEF LinksMatch
<1> QED
  BY <1>2, <1>3

\* Control is kept by every step from a state with Links.
LEMMA ControlStep == Control /\ Links /\ [Next]_vars => Control'
<1> SUFFICES ASSUME Control, Links, [Next]_vars PROVE Control'
  OBVIOUS
<1>0. LinksMatch
  BY DEF Links
<1> USE PoolAssumption, ThreadsNat
    DEF Control, Shape, MutexDiscipline, OwnerCalls, Posting, OwnerPCs,
        OwnerHolds, WorkerPCs, WorkerHolds, HeapStates, AllTasks
<1>1. ASSUME NEW t \in Tasks, Alloc(t) PROVE Control'
  BY <1>1 DEF Alloc, links
<1>2. CASE PostLock
  BY <1>2 DEF PostLock, links
<1>3. CASE PostFull
  BY <1>3 DEF PostFull, links
<1>4. CASE PostCheck
  BY <1>4 DEF PostCheck, Full
<1>5. CASE PostSignal
  BY <1>5 DEF PostSignal, Asleep, At, links
<1>6. CASE PostAppend
  <2>1. arg \in AllTasks
    BY <1>6 DEF PostAppend
  <2>2. first' \in AllTasks \cup {None} /\ next' \in [AllTasks -> AllTasks \cup {None}]
    <3>1. CASE last = First
      BY <1>6, <2>1, <3>1 DEF PostAppend
    <3>2. CASE last # First
      BY <1>6, <2>1, <3>2 DEF PostAppend
    <3> QED
      BY <3>1, <3>2
  <2>3. /\ last' = arg /\ queue' = Append(queue, arg) /\ waiting' = waiting + 1
        /\ opc = "append" /\ opc' = "release"
        /\ UNCHANGED <<mtx, wpc, task, lock, arg, exits>>
        /\ heap' = IF arg = ExitTask THEN heap
                                     ELSE [heap EXCEPT ![arg] = "queued"]
    BY <1>6 DEF PostAppend
  <2> QED
    BY <2>1, <2>2, <2>3
<1>7. CASE PostUnlock
  BY <1>7 DEF PostUnlock, links
<1>8. CASE DestroyCall
  BY <1>8 DEF DestroyCall, links
<1>9. CASE DestroyPost
  BY <1>9 DEF DestroyPost, links
<1>10. CASE DestroySpin
  BY <1>10 DEF DestroySpin, links
<1>11. CASE DestroyFree
  BY <1>11 DEF DestroyFree, links
<1>12. ASSUME NEW w \in Workers, WorkerNext(w) PROVE Control'
  <2>1. CASE Lock(w)
    BY <2>1 DEF Lock, links, ownerVars
  <2>2. CASE Decrement(w)
    BY <2>2 DEF Decrement, links, ownerVars
  <2>3. CASE CondWait(w)
    BY <2>3 DEF CondWait, links, ownerVars
  <2>4. CASE SpuriousWake(w)
    BY <2>4 DEF SpuriousWake, links, ownerVars
  <2>5. CASE Relock(w)
    BY <2>5 DEF Relock, links, ownerVars
  <2>6. CASE Pop(w)
    <3>1. Tail(queue) \in Seq(AllTasks)
      BY <1>0, <2>6, FirstIsHead DEF Pop
    <3> QED
      BY <2>6, <3>1 DEF Pop, ownerVars
  <2>7. CASE Unlock(w)
    BY <2>7 DEF Unlock, links, ownerVars
  <2>8. CASE Run(w)
    BY <2>8 DEF Run, links, ownerVars
  <2>9. CASE RunExit(w)
    BY <2>9 DEF RunExit, links, ownerVars
  <2>10. CASE PthreadExit(w)
    BY <2>10 DEF PthreadExit, links, ownerVars
  <2>11. CASE Free(w)
    <3>1. next' \in [AllTasks -> AllTasks \cup {None}]
      BY <2>11 DEF Free
    <3>2. /\ heap' = [heap EXCEPT ![task[w]] = "freed"]
          /\ task' = [task EXCEPT ![w] = None]
          /\ wpc[w] = "free" /\ wpc' = [wpc EXCEPT ![w] = "top"]
          /\ UNCHANGED <<mtx, first, last, queue, waiting, lock, opc, arg, exits>>
      BY <2>11 DEF Free, ownerVars
    <3>3. wpc' \in [Workers -> WorkerPCs] /\ task' \in [Workers -> AllTasks \cup {None}]
      BY <3>2
    <3>4. heap' \in [Tasks -> HeapStates]
      BY <3>2
    <3>5. Shape'
      BY <3>1, <3>2, <3>3, <3>4
    <3>6. MutexDiscipline'
      BY <3>2
    <3>7. OwnerCalls'
      BY <3>2
    <3> QED
      BY <3>5, <3>6, <3>7
  <2> QED
    BY <1>12, <2>1, <2>2, <2>3, <2>4, <2>5, <2>6, <2>7, <2>8, <2>9, <2>10,
       <2>11 DEF WorkerNext
<1>13. CASE UNCHANGED vars
  BY <1>13 DEF vars, links
<1> QED
  BY <1>1, <1>2, <1>3, <1>4, <1>5, <1>6, <1>7, <1>8, <1>9, <1>10, <1>11,
     <1>12, <1>13 DEF Next, OwnerNext

-----------------------------------------------------------------------------
(***************************************************************************)
(* Second layer: how many workers are where.                               *)
(***************************************************************************)

\* How many workers are at some points, when f says where each one is.
Count(f, P) == Cardinality({w \in Workers : f[w] \in P})

\* The workers at some points are finitely many, and not more than all.
LEMMA CountRange ==
  ASSUME NEW f, NEW P
  PROVE  /\ IsFiniteSet({w \in Workers : f[w] \in P})
         /\ Count(f, P) \in Nat
         /\ Count(f, P) <= Threads
         /\ Count(f, P) = 0 <=> {w \in Workers : f[w] \in P} = {}
<1> DEFINE S == {w \in Workers : f[w] \in P}
<1>1. S \in SUBSET Workers
  OBVIOUS
<1>2. IsFiniteSet(S) /\ Cardinality(S) <= Cardinality(Workers)
  BY <1>1, PoolAssumption, FS_Subset
<1>3. Cardinality(S) \in Nat /\ (Cardinality(S) = 0 <=> S = {})
  BY <1>2, FS_CardinalityType, FS_EmptySet
<1> QED
  BY <1>2, <1>3 DEF Threads, Count

\* When one worker moves, the number of workers at some points changes by its
\* leaving one of them and its reaching one of them.
LEMMA CountMove ==
  ASSUME NEW f, NEW g, NEW P, NEW w \in Workers,
         \A v \in Workers \ {w} : g[v] = f[v]
  PROVE  Count(g, P) = Count(f, P) - (IF f[w] \in P THEN 1 ELSE 0)
                                   + (IF g[w] \in P THEN 1 ELSE 0)
<1> DEFINE S == {v \in Workers : f[v] \in P}
           T == {v \in Workers : g[v] \in P}
<1>1. IsFiniteSet(S) /\ Cardinality(S) \in Nat
  BY CountRange DEF Count
<1>2. w \in S <=> f[w] \in P
  OBVIOUS
<1>3. CASE g[w] \in P
  <2>1. T = S \cup {w}
    BY <1>3
  <2>2. Cardinality(T) = IF w \in S THEN Cardinality(S) ELSE Cardinality(S) + 1
    BY <1>1, <2>1, FS_AddElement
  <2> QED
    BY <1>1, <1>2, <1>3, <2>2 DEF Count
<1>4. CASE g[w] \notin P
  <2>1. T = S \ {w}
    BY <1>4
  <2>2. Cardinality(T) = IF w \in S THEN Cardinality(S) - 1 ELSE Cardinality(S)
    BY <1>1, <2>1, FS_RemoveElement
  <2> QED
    BY <1>1, <1>2, <1>4, <2>2 DEF Count
<1> QED
  BY <1>3, <1>4

\* The same of one step, by the three ways a worker can go.
LEMMA StepMove ==
  ASSUME NEW P, NEW w \in Workers, \A v \in Workers \ {w} : wpc'[v] = wpc[v]
  PROVE  /\ (wpc[w] \in P <=> wpc'[w] \in P) => Count(wpc', P) = Count(wpc, P)
         /\ wpc[w] \in P /\ wpc'[w] \notin P => Count(wpc', P) = Count(wpc, P) - 1
         /\ wpc[w] \notin P /\ wpc'[w] \in P => Count(wpc', P) = Count(wpc, P) + 1
<1>1. Count(wpc, P) \in Nat
  BY CountRange
<1>2. Count(wpc', P) = Count(wpc, P) - (IF wpc[w] \in P THEN 1 ELSE 0)
                                     + (IF wpc'[w] \in P THEN 1 ELSE 0)
  BY CountMove
<1> QED
  BY <1>1, <1>2

\* The three numbers that WaitingCount and NoLostWakeup speak of.
NIdle(f) == Count(f, {"test", "asleep", "wake"})
NAsleep(f) == Count(f, {"asleep"})
NComing(f) == Count(f, {"test", "wake"})

\* The counters of Counts are integers with the bounds that arithmetic needs.
LEMMA Numbers ==
  ASSUME NEW f
  PROVE  /\ NIdle(f) \in Nat /\ NIdle(f) <= Threads
         /\ NAsleep(f) \in Nat
         /\ NComing(f) \in Nat
         /\ NAsleep(f) = 0 <=> \A w \in Workers : f[w] # "asleep"
<1>1. NAsleep(f) = 0 <=> {w \in Workers : f[w] \in {"asleep"}} = {}
  BY CountRange DEF NAsleep
<1> QED
  BY <1>1, CountRange DEF NIdle, NAsleep, NComing

\* A worker that sleeps needs, between the signal and the append, one more
\* worker on its way than there are tasks.
WakeupUnderWay ==
  opc = "append" /\ NAsleep(wpc) # 0 => Len(queue) + 1 <= NComing(wpc)

Counts ==
  /\ waiting = Len(queue) - NIdle(wpc)
  /\ NAsleep(wpc) # 0 => Len(queue) <= NComing(wpc)
  /\ WakeupUnderWay

\* Counts holds at first.
LEMMA CountsInit == Init => Counts
<1> SUFFICES ASSUME Init PROVE Counts
  OBVIOUS
<1>1. {w \in Workers : wpc[w] \in {"test", "asleep", "wake"}} = {}
  BY DEF Init
<1>2. NIdle(wpc) = 0
  BY <1>1, CountRange DEF NIdle
<1>3. NAsleep(wpc) = 0
  BY Numbers DEF Init
<1> QED
  BY <1>2, <1>3 DEF Init, Counts, WakeupUnderWay

\* Counts is kept by every step from a state with Control and Links.
LEMMA CountsStep == Control /\ Links /\ Counts /\ [Next]_vars => Counts'
<1> SUFFICES ASSUME Control, Links, Counts, [Next]_vars PROVE Counts'
  OBVIOUS
<1>0. LinksMatch
  BY DEF Links
<1>1. /\ NIdle(wpc) \in Nat /\ NIdle(wpc') \in Nat
      /\ NAsleep(wpc) \in Nat /\ NAsleep(wpc') \in Nat
      /\ NComing(wpc) \in Nat /\ NComing(wpc') \in Nat
      /\ Len(queue) \in Nat
      /\ waiting \in Int
      /\ wpc \in [Workers -> WorkerPCs]
  BY Numbers, LenProperties DEF Control, Shape
<1> USE DEF Counts, WakeupUnderWay
<1>2. CASE UNCHANGED <<wpc, queue, waiting>> /\ opc' # "append"
  BY <1>2
<1>3. CASE PostSignal
  <2>1. CASE Asleep = {}
    <3>1. NAsleep(wpc) = 0
      BY <2>1, Numbers DEF Asleep, At
    <3> QED
      BY <1>3, <2>1, <3>1 DEF PostSignal
  <2>2. CASE Asleep # {}
    <3>1. PICK w \in Workers :
            wpc[w] = "asleep" /\ wpc' = [wpc EXCEPT ![w] = "wake"]
      BY <1>3, <2>2 DEF PostSignal, Asleep, At
    <3>2. /\ NIdle(wpc') = NIdle(wpc)
          /\ NAsleep(wpc') = NAsleep(wpc) - 1
          /\ NComing(wpc') = NComing(wpc) + 1
      <4>1. wpc'[w] = "wake" /\ \A v \in Workers \ {w} : wpc'[v] = wpc[v]
        BY <1>1, <3>1
      <4>2. NIdle(wpc') = NIdle(wpc)
        BY <3>1, <4>1, StepMove DEF NIdle
      <4>3. NAsleep(wpc') = NAsleep(wpc) - 1
        BY <3>1, <4>1, StepMove DEF NAsleep
      <4>4. NComing(wpc') = NComing(wpc) + 1
        BY <3>1, <4>1, StepMove DEF NComing
      <4> QED
        BY <4>2, <4>3, <4>4
    <3>3. NAsleep(wpc) # 0
      BY <3>1, Numbers
    <3> QED
      BY <1>1, <1>3, <3>2, <3>3 DEF PostSignal
  <2> QED
    BY <2>1, <2>2
<1>4. CASE PostAppend
  <2>1. Len(queue') = Len(queue) + 1
    BY <1>4 DEF PostAppend, Control, Shape, OwnerCalls, Posting
  <2> QED
    BY <1>1, <1>4, <2>1 DEF PostAppend
<1>5. ASSUME NEW w \in Workers, WorkerNext(w) PROVE Counts'
  <2>1. CASE Lock(w)
    <3>1. /\ wpc[w] = "top" /\ wpc'[w] = "decr"
          /\ \A v \in Workers \ {w} : wpc'[v] = wpc[v]
      BY <1>1, <2>1 DEF Lock
    <3>2. NIdle(wpc') = NIdle(wpc)
      BY <3>1, StepMove DEF NIdle
    <3>3. NAsleep(wpc') = NAsleep(wpc)
      BY <3>1, StepMove DEF NAsleep
    <3>4. NComing(wpc') = NComing(wpc)
      BY <3>1, StepMove DEF NComing
    <3> QED
      BY <1>1, <2>1, <3>2, <3>3, <3>4 DEF Lock, ownerVars
  <2>2. CASE Decrement(w)
    <3>1. /\ wpc[w] = "decr" /\ wpc'[w] = "test"
          /\ \A v \in Workers \ {w} : wpc'[v] = wpc[v]
      BY <1>1, <2>2 DEF Decrement
    <3>2. NIdle(wpc') = NIdle(wpc) + 1
      BY <3>1, StepMove DEF NIdle
    <3>3. NAsleep(wpc') = NAsleep(wpc)
      BY <3>1, StepMove DEF NAsleep
    <3>4. NComing(wpc') = NComing(wpc) + 1
      BY <3>1, StepMove DEF NComing
    <3>5. opc # "append"
      BY <2>2, PoolAssumption
      DEF Decrement, Control, MutexDiscipline, WorkerHolds, OwnerHolds
    <3> QED
      BY <1>1, <2>2, <3>2, <3>3, <3>4, <3>5 DEF Decrement, ownerVars
  <2>3. CASE CondWait(w)
    <3>1. /\ wpc[w] = "test" /\ wpc'[w] = "asleep"
          /\ \A v \in Workers \ {w} : wpc'[v] = wpc[v]
      BY <1>1, <2>3 DEF CondWait
    <3>2. NIdle(wpc') = NIdle(wpc)
      BY <3>1, StepMove DEF NIdle
    <3>3. NAsleep(wpc') = NAsleep(wpc) + 1
      BY <3>1, StepMove DEF NAsleep
    <3>4. NComing(wpc') = NComing(wpc) - 1
      BY <3>1, StepMove DEF NComing
    <3>5. opc # "append"
      BY <2>3, PoolAssumption
      DEF CondWait, Control, MutexDiscipline, WorkerHolds, OwnerHolds
    <3>6. queue = <<>>
      BY <1>0, <2>3, FirstIsHead DEF CondWait
    <3> QED
      BY <1>1, <2>3, <3>2, <3>3, <3>4, <3>5, <3>6 DEF CondWait, ownerVars
  <2>4. CASE SpuriousWake(w)
    <3>1. /\ wpc[w] = "asleep" /\ wpc'[w] = "wake"
          /\ \A v \in Workers \ {w} : wpc'[v] = wpc[v]
      BY <1>1, <2>4 DEF SpuriousWake
    <3>2. NIdle(wpc') = NIdle(wpc)
      BY <3>1, StepMove DEF NIdle
    <3>3. NAsleep(wpc') = NAsleep(wpc) - 1
      BY <3>1, StepMove DEF NAsleep
    <3>4. NComing(wpc') = NComing(wpc) + 1
      BY <3>1, StepMove DEF NComing
    <3>5. NAsleep(wpc) # 0
      BY <3>1, Numbers
    <3> QED
      BY <1>1, <2>4, <3>2, <3>3, <3>4, <3>5 DEF SpuriousWake, ownerVars
  <2>5. CASE Relock(w)
    <3>1. /\ wpc[w] = "wake" /\ wpc'[w] = "test"
          /\ \A v \in Workers \ {w} : wpc'[v] = wpc[v]
      BY <1>1, <2>5 DEF Relock
    <3>2. NIdle(wpc') = NIdle(wpc)
      BY <3>1, StepMove DEF NIdle
    <3>3. NAsleep(wpc') = NAsleep(wpc)
      BY <3>1, StepMove DEF NAsleep
    <3>4. NComing(wpc') = NComing(wpc)
      BY <3>1, StepMove DEF NComing
    <3> QED
      BY <1>1, <2>5, <3>2, <3>3, <3>4 DEF Relock, ownerVars
  <2>6. CASE Pop(w)
    <3>1. /\ wpc[w] = "test" /\ wpc'[w] = "unlock"
          /\ \A v \in Workers \ {w} : wpc'[v] = wpc[v]
      BY <1>1, <2>6 DEF Pop
    <3>2. NIdle(wpc') = NIdle(wpc) - 1
      BY <3>1, StepMove DEF NIdle
    <3>3. NAsleep(wpc') = NAsleep(wpc)
      BY <3>1, StepMove DEF NAsleep
    <3>4. NComing(wpc') = NComing(wpc) - 1
      BY <3>1, StepMove DEF NComing
    <3>5. opc # "append"
      BY <2>6, PoolAssumption
      DEF Pop, Control, MutexDiscipline, WorkerHolds, OwnerHolds
    <3>6. Len(queue') = Len(queue) - 1
      <4>1. queue # <<>> /\ queue' = Tail(queue)
        BY <1>0, <2>6, FirstIsHead DEF Pop
      <4> QED
        BY <4>1, HeadTailProperties DEF Control, Shape
    <3>7. UNCHANGED <<waiting, opc>>
      BY <2>6 DEF Pop, ownerVars
    <3> QED
      BY <1>1, <3>2, <3>3, <3>4, <3>5, <3>6, <3>7
  <2>7. CASE Unlock(w)
    <3>1. /\ wpc[w] = "unlock" /\ wpc'[w] = "run"
          /\ \A v \in Workers \ {w} : wpc'[v] = wpc[v]
      BY <1>1, <2>7 DEF Unlock
    <3>2. NIdle(wpc') = NIdle(wpc)
      BY <3>1, StepMove DEF NIdle
    <3>3. NAsleep(wpc') = NAsleep(wpc)
      BY <3>1, StepMove DEF NAsleep
    <3>4. NComing(wpc') = NComing(wpc)
      BY <3>1, StepMove DEF NComing
    <3> QED
      BY <1>1, <2>7, <3>2, <3>3, <3>4 DEF Unlock, ownerVars
  <2>8. CASE Run(w)
    <3>1. /\ wpc[w] = "run" /\ wpc'[w] = "free"
          /\ \A v \in Workers \ {w} : wpc'[v] = wpc[v]
      BY <1>1, <2>8 DEF Run
    <3>2. NIdle(wpc') = NIdle(wpc)
      BY <3>1, StepMove DEF NIdle
    <3>3. NAsleep(wpc') = NAsleep(wpc)
      BY <3>1, StepMove DEF NAsleep
    <3>4. NComing(wpc') = NComing(wpc)
      BY <3>1, StepMove DEF NComing
    <3> QED
      BY <1>1, <2>8, <3>2, <3>3, <3>4 DEF Run, ownerVars
  <2>9. CASE RunExit(w)
    <3>1. /\ wpc[w] = "run" /\ wpc'[w] = "exiting"
          /\ \A v \in Workers \ {w} : wpc'[v] = wpc[v]
      BY <1>1, <2>9 DEF RunExit
    <3>2. NIdle(wpc') = NIdle(wpc)
      BY <3>1, StepMove DEF NIdle
    <3>3. NAsleep(wpc') = NAsleep(wpc)
      BY <3>1, StepMove DEF NAsleep
    <3>4. NComing(wpc') = NComing(wpc)
      BY <3>1, StepMove DEF NComing
    <3> QED
      BY <1>1, <2>9, <3>2, <3>3, <3>4 DEF RunExit, ownerVars
  <2>10. CASE PthreadExit(w)
    <3>1. /\ wpc[w] = "exiting" /\ wpc'[w] = "exited"
          /\ \A v \in Workers \ {w} : wpc'[v] = wpc[v]
      BY <1>1, <2>10 DEF PthreadExit
    <3>2. NIdle(wpc') = NIdle(wpc)
      BY <3>1, StepMove DEF NIdle
    <3>3. NAsleep(wpc') = NAsleep(wpc)
      BY <3>1, StepMove DEF NAsleep
    <3>4. NComing(wpc') = NComing(wpc)
      BY <3>1, StepMove DEF NComing
    <3> QED
      BY <1>1, <2>10, <3>2, <3>3, <3>4 DEF PthreadExit, ownerVars
  <2>11. CASE Free(w)
    <3>1. /\ wpc[w] = "free" /\ wpc'[w] = "top"
          /\ \A v \in Workers \ {w} : wpc'[v] = wpc[v]
      BY <1>1, <2>11 DEF Free
    <3>2. NIdle(wpc') = NIdle(wpc)
      BY <3>1, StepMove DEF NIdle
    <3>3. NAsleep(wpc') = NAsleep(wpc)
      BY <3>1, StepMove DEF NAsleep
    <3>4. NComing(wpc') = NComing(wpc)
      BY <3>1, StepMove DEF NComing
    <3> QED
      BY <1>1, <2>11, <3>2, <3>3, <3>4 DEF Free, ownerVars
  <2> QED
    BY <1>5, <2>1, <2>2, <2>3, <2>4, <2>5, <2>6, <2>7, <2>8, <2>9, <2>10,
       <2>11 DEF WorkerNext
<1>6. CASE UNCHANGED vars
  BY <1>6 DEF vars
<1> QED
  BY <1>2, <1>3, <1>4, <1>5, <1>6
  DEF Next, OwnerNext, Alloc, PostLock, PostFull, PostCheck, PostUnlock,
      DestroyCall, DestroyPost, DestroySpin, DestroyFree

-----------------------------------------------------------------------------
(***************************************************************************)
(* Third layer: who owns a task.                                           *)
(***************************************************************************)

HasTask == {"unlock", "run", "free"}
Submitting == opc \in {"lock", "check", "signal", "append"}

\* A worker has a task at the points where thread_pool_cycle uses one.
WorkerTasks ==
  \A w \in Workers :
    /\ wpc[w] \in HasTask <=> task[w] # None
    /\ wpc[w] = "free" => task[w] # ExitTask

\* Every heap task between its allocation and its end has one owner: the
\* owner thread, one place of the queue, or one worker.
Ownership ==
  /\ \A t \in Tasks : heap[t] = "allocated" <=> Submitting /\ arg = t
  /\ \A i \in 1 .. Len(queue) : queue[i] \in Tasks => heap[queue[i]] = "queued"
  /\ \A t \in Tasks : heap[t] = "queued" => \E i \in 1 .. Len(queue) : queue[i] = t
  /\ \A i, j \in 1 .. Len(queue) :
       queue[i] \in Tasks /\ queue[i] = queue[j] => i = j
  /\ \A w \in Workers : task[w] \in Tasks => heap[task[w]] = "taken"
  /\ \A t \in Tasks : heap[t] = "taken" => \E w \in Workers : task[w] = t
  /\ \A v, w \in Workers : task[v] \in Tasks /\ task[v] = task[w] => v = w

Owned == WorkerTasks /\ Ownership

\* Owned holds at first.
LEMMA OwnedInit == Init => Owned
  BY PoolAssumption
  DEF Init, Owned, WorkerTasks, Ownership, HasTask, Submitting

\* Owned is kept by every step from a state with Control and Links.
LEMMA OwnedStep == Control /\ Links /\ Owned /\ [Next]_vars => Owned'
<1> SUFFICES ASSUME Control, Links, Owned, [Next]_vars PROVE Owned'
  OBVIOUS
<1>0. ASSUME NEW w \in Workers, Pop(w)
      PROVE  queue # <<>> /\ first = queue[1] /\ queue' = Tail(queue)
  BY <1>0, FirstIsHead DEF Pop, Links
<1> USE PoolAssumption
    DEF Owned, WorkerTasks, Ownership, HasTask, Submitting, Control, Shape,
        OwnerCalls, Posting, AllTasks, HeapStates
<1>1. ASSUME NEW t \in Tasks, Alloc(t) PROVE Owned'
  BY <1>1 DEF Alloc
<1>2. CASE PostLock
  BY <1>2 DEF PostLock
<1>3. CASE PostFull
  BY <1>3 DEF PostFull
<1>4. CASE PostCheck
  BY <1>4 DEF PostCheck
<1>5. CASE PostSignal
  <2>1. UNCHANGED <<queue, task, heap, arg>> /\ opc = "signal" /\ opc' = "append"
    BY <1>5 DEF PostSignal
  <2>2. CASE UNCHANGED wpc
    BY <2>1, <2>2
  <2>3. ASSUME NEW w \in Workers, wpc[w] = "asleep",
               wpc' = [wpc EXCEPT ![w] = "wake"]
        PROVE  Owned'
    <3>1. \A v \in Workers : wpc'[v] = IF v = w THEN "wake" ELSE wpc[v]
      BY <2>3
    <3>2. WorkerTasks'
      BY <2>1, <2>3, <3>1
    <3>3. Ownership'
      BY <2>1
    <3> QED
      BY <3>2, <3>3
  <2> QED
    BY <1>5, <2>2, <2>3 DEF PostSignal, Asleep, At
<1>6. CASE PostAppend
  BY <1>6 DEF PostAppend
<1>7. CASE PostUnlock
  BY <1>7 DEF PostUnlock
<1>8. CASE DestroyCall
  BY <1>8 DEF DestroyCall
<1>9. CASE DestroyPost
  BY <1>9 DEF DestroyPost
<1>10. CASE DestroySpin
  BY <1>10 DEF DestroySpin
<1>11. CASE DestroyFree
  BY <1>11 DEF DestroyFree
<1>12. ASSUME NEW w \in Workers, WorkerNext(w) PROVE Owned'
  <2>1. CASE Lock(w)
    BY <2>1 DEF Lock, ownerVars
  <2>2. CASE Decrement(w)
    BY <2>2 DEF Decrement, ownerVars
  <2>3. CASE CondWait(w)
    BY <2>3 DEF CondWait, ownerVars
  <2>4. CASE SpuriousWake(w)
    BY <2>4 DEF SpuriousWake, ownerVars
  <2>5. CASE Relock(w)
    BY <2>5 DEF Relock, ownerVars
  <2>6. CASE Pop(w)
    <3> DEFINE n == Len(queue)
    <3>1. /\ queue \in Seq(AllTasks) /\ queue # <<>>
          /\ n \in Nat /\ n >= 1
          /\ Head(queue) = queue[1]
          /\ Len(queue') = n - 1
          /\ \A i \in 1 .. Len(queue') : queue'[i] = queue[i + 1]
      BY <1>0, <2>6, HeadTailProperties, LenProperties, EmptySeq
    <3>2. /\ wpc[w] = "test" /\ wpc' = [wpc EXCEPT ![w] = "unlock"]
          /\ task' = [task EXCEPT ![w] = queue[1]]
          /\ heap' = IF queue[1] = ExitTask THEN heap
                                            ELSE [heap EXCEPT ![queue[1]] = "taken"]
          /\ opc' = opc /\ arg' = arg
          /\ queue[1] \in Tasks \cup {ExitTask}
      BY <1>0, <2>6, <3>1 DEF Pop, ownerVars
    <3> HIDE DEF n
    <3>3. WorkerTasks'
      BY <3>2
    <3>4. ASSUME NEW t \in Tasks
          PROVE  heap'[t] = IF t = queue[1] THEN "taken" ELSE heap[t]
      BY <3>2
    <3>5. queue[1] \in Tasks => heap[queue[1]] = "queued"
      BY <3>1 DEF n
    <3>6. \A t \in Tasks : heap'[t] = "allocated" <=> Submitting' /\ arg' = t
      BY <3>2, <3>4, <3>5
    <3>7. ASSUME NEW i \in 1 .. Len(queue'), queue'[i] \in Tasks
          PROVE  heap'[queue'[i]] = "queued"
      <4>1. i + 1 \in 1 .. n /\ 1 \in 1 .. n /\ i + 1 # 1
        BY <3>1
      <4>2. queue'[i] = queue[i + 1] /\ queue[i + 1] # queue[1]
        BY <3>1, <3>7, <4>1 DEF n
      <4>3. heap[queue[i + 1]] = "queued"
        BY <3>7, <4>1, <4>2 DEF n
      <4> QED
        BY <3>4, <3>7, <4>2, <4>3
    <3>8. ASSUME NEW t \in Tasks, heap'[t] = "queued"
          PROVE  \E i \in 1 .. Len(queue') : queue'[i] = t
      <4>1. t # queue[1] /\ heap[t] = "queued"
        BY <3>4, <3>8
      <4>2. PICK k \in 1 .. n : queue[k] = t
        BY <4>1 DEF n
      <4>3. k - 1 \in 1 .. Len(queue') /\ queue'[k - 1] = t
        BY <3>1, <4>1, <4>2
      <4> QED
        BY <4>3
    <3>9. ASSUME NEW i \in 1 .. Len(queue'), NEW j \in 1 .. Len(queue'),
                 queue'[i] \in Tasks, queue'[i] = queue'[j]
          PROVE  i = j
      <4>1. i + 1 \in 1 .. n /\ j + 1 \in 1 .. n
        BY <3>1
      <4> QED
        BY <3>1, <3>9, <4>1 DEF n
    <3>10. \A v \in Workers : task'[v] \in Tasks => heap'[task'[v]] = "taken"
      BY <3>2, <3>4, <3>5
    <3>11. \A t \in Tasks : heap'[t] = "taken" => \E v \in Workers : task'[v] = t
      BY <3>2, <3>4, <3>5
    <3>12. \A u, v \in Workers :
             task'[u] \in Tasks /\ task'[u] = task'[v] => u = v
      BY <3>2, <3>4, <3>5
    <3> QED
      BY <3>3, <3>6, <3>7, <3>8, <3>9, <3>10, <3>11, <3>12
  <2>7. CASE Unlock(w)
    BY <2>7 DEF Unlock, ownerVars
  <2>8. CASE Run(w)
    BY <2>8 DEF Run, ownerVars
  <2>9. CASE RunExit(w)
    BY <2>9 DEF RunExit, ownerVars
  <2>10. CASE PthreadExit(w)
    BY <2>10 DEF PthreadExit, ownerVars
  <2>11. CASE Free(w)
    BY <2>11 DEF Free, ownerVars
  <2> QED
    BY <1>12, <2>1, <2>2, <2>3, <2>4, <2>5, <2>6, <2>7, <2>8, <2>9, <2>10,
       <2>11 DEF WorkerNext
<1>13. CASE UNCHANGED vars
  BY <1>13 DEF vars
<1> QED
  BY <1>1, <1>2, <1>3, <1>4, <1>5, <1>6, <1>7, <1>8, <1>9, <1>10, <1>11,
     <1>12, <1>13 DEF Next, OwnerNext

-----------------------------------------------------------------------------
(***************************************************************************)
(* Fourth layer: the exit tasks of thread_pool_destroy.                    *)
(***************************************************************************)

NGone(f) == Count(f, {"exiting", "exited"})

\* The exit task is in the pool, from the append to the answer of a worker.
Posted == (opc = "release" /\ arg = ExitTask) \/ opc = "spin"
Awaited == Posted /\ lock = 1

\* The exit task, while it is awaited, is the last of the queue or with the
\* one worker that emptied the queue; otherwise it is nowhere.
ExitTaskPlace ==
  /\ \A i \in 1 .. Len(queue) : queue[i] = ExitTask => Awaited /\ i = Len(queue)
  /\ \A w \in Workers : task[w] = ExitTask => Awaited /\ queue = <<>>
  /\ \A v, w \in Workers : task[v] = ExitTask /\ task[w] = ExitTask => v = w

\* What thread_pool_destroy has reached: exit tasks are posted one after the
\* other, and once the first is answered the queue is empty for good.
DestroyProgress ==
  /\ opc = "idle" => exits = 0
  /\ Posting /\ arg # ExitTask => exits = 0
  /\ Submitting /\ arg = ExitTask => lock = 1
  /\ Posted /\ lock = 0 => queue = <<>>
  /\ opc = "loop" /\ exits > 0 => queue = <<>>
  /\ Submitting /\ arg = ExitTask /\ exits > 0 => queue = <<>>
  /\ opc = "freed" => queue = <<>> /\ exits = Threads
  /\ NGone(wpc) = exits + IF Posted /\ lock = 0 THEN 1 ELSE 0

Exits == ExitTaskPlace /\ DestroyProgress

\* Exits holds at first.
LEMMA ExitsInit == Init => Exits
<1> SUFFICES ASSUME Init PROVE Exits
  OBVIOUS
<1>1. {w \in Workers : wpc[w] \in {"exiting", "exited"}} = {}
  BY DEF Init
<1>2. NGone(wpc) = 0
  BY <1>1, CountRange DEF NGone
<1> QED
  BY <1>2, PoolAssumption
  DEF Init, Exits, ExitTaskPlace, DestroyProgress, Posting, Posted,
      Submitting, Awaited

\* Exits is kept by every step from a state with Control, Links and Owned.
LEMMA ExitsStep == Control /\ Links /\ Owned /\ Exits /\ [Next]_vars => Exits'
<1> SUFFICES ASSUME Control, Links, Owned, Exits, [Next]_vars PROVE Exits'
  OBVIOUS
<1>0. LinksMatch
  BY DEF Links
<1>1. /\ NGone(wpc) \in Nat
      /\ queue \in Seq(AllTasks) /\ Len(queue) \in Nat
      /\ queue # <<>> <=> Len(queue) > 0
      /\ wpc \in [Workers -> WorkerPCs]
      /\ Threads \in Nat \ {0}
      /\ exits \in Nat
  <2>1. NGone(wpc) \in Nat
    BY CountRange DEF NGone
  <2>2. Threads \in Nat \ {0}
    BY PoolAssumption, FS_EmptySet, ThreadsNat DEF Threads
  <2>3. queue \in Seq(AllTasks) /\ wpc \in [Workers -> WorkerPCs] /\ exits \in Nat
    BY <2>2 DEF Control, Shape
  <2>4. Len(queue) \in Nat /\ (queue # <<>> <=> Len(queue) > 0)
    BY <2>3, LenProperties, EmptySeq
  <2> QED
    BY <2>1, <2>2, <2>3, <2>4
<1>2. UNCHANGED wpc => UNCHANGED NGone(wpc)
  OBVIOUS
<1>3. ASSUME NEW w \in Workers, \A v \in Workers \ {w} : wpc'[v] = wpc[v]
      PROVE  /\ wpc[w] \notin {"exiting", "exited"} /\ wpc'[w] \notin {"exiting", "exited"}
                  => NGone(wpc') = NGone(wpc)
             /\ wpc[w] \notin {"exiting", "exited"} /\ wpc'[w] \in {"exiting", "exited"}
                  => NGone(wpc') = NGone(wpc) + 1
             /\ wpc[w] \in {"exiting", "exited"} /\ wpc'[w] \in {"exiting", "exited"}
                  => NGone(wpc') = NGone(wpc)
  <2> DEFINE P == {"exiting", "exited"}
  <2> HIDE DEF P
  <2>1. /\ (wpc[w] \in P <=> wpc'[w] \in P) => Count(wpc', P) = Count(wpc, P)
        /\ wpc[w] \notin P /\ wpc'[w] \in P => Count(wpc', P) = Count(wpc, P) + 1
    BY <1>3, StepMove
  <2> QED
    BY <2>1 DEF NGone, P
<1> USE PoolAssumption, <1>1
    DEF Exits, ExitTaskPlace, DestroyProgress, Posting, Posted, Submitting, Awaited
<1>4. ASSUME NEW t \in Tasks, Alloc(t) PROVE Exits'
  BY <1>2, <1>4 DEF Alloc
<1>5. CASE PostLock
  BY <1>2, <1>5 DEF PostLock
<1>6. CASE PostFull
  BY <1>2, <1>6 DEF PostFull
<1>7. CASE PostCheck
  BY <1>2, <1>7 DEF PostCheck
<1>8. CASE PostSignal
  <2>1. NGone(wpc') = NGone(wpc)
    <3>1. CASE UNCHANGED wpc
      BY <1>2, <3>1
    <3>2. ASSUME NEW w \in Workers, wpc[w] = "asleep",
                 wpc' = [wpc EXCEPT ![w] = "wake"]
          PROVE  NGone(wpc') = NGone(wpc)
      <4>1. wpc'[w] = "wake" /\ \A v \in Workers \ {w} : wpc'[v] = wpc[v]
        BY <3>2
      <4> QED
        BY <1>3, <3>2, <4>1
    <3> QED
      BY <1>8, <3>1, <3>2 DEF PostSignal, Asleep, At
  <2> QED
    BY <1>8, <2>1 DEF PostSignal
<1>9. CASE PostAppend
  BY <1>2, <1>9 DEF PostAppend, Control, Shape, OwnerCalls
<1>10. CASE PostUnlock
  BY <1>2, <1>10 DEF PostUnlock
<1>11. CASE DestroyCall
  BY <1>2, <1>11 DEF DestroyCall
<1>12. CASE DestroyPost
  BY <1>2, <1>12 DEF DestroyPost
<1>13. CASE DestroySpin
  BY <1>2, <1>13 DEF DestroySpin
<1>14. CASE DestroyFree
  BY <1>2, <1>14 DEF DestroyFree
<1>15. ASSUME NEW w \in Workers, WorkerNext(w) PROVE Exits'
  <2> DEFINE Others == \A v \in Workers \ {w} : wpc'[v] = wpc[v]
  <2>1. CASE Lock(w)
    <3>1. NGone(wpc') = NGone(wpc)
      <4>1. wpc[w] = "top" /\ wpc'[w] = "decr" /\ Others
        BY <2>1 DEF Lock
      <4> QED
        BY <1>3, <4>1
    <3> QED
      BY <2>1, <3>1 DEF Lock, ownerVars
  <2>2. CASE Decrement(w)
    <3>1. NGone(wpc') = NGone(wpc)
      <4>1. wpc[w] = "decr" /\ wpc'[w] = "test" /\ Others
        BY <2>2 DEF Decrement
      <4> QED
        BY <1>3, <4>1
    <3> QED
      BY <2>2, <3>1 DEF Decrement, ownerVars
  <2>3. CASE CondWait(w)
    <3>1. NGone(wpc') = NGone(wpc)
      <4>1. wpc[w] = "test" /\ wpc'[w] = "asleep" /\ Others
        BY <2>3 DEF CondWait
      <4> QED
        BY <1>3, <4>1
    <3> QED
      BY <2>3, <3>1 DEF CondWait, ownerVars
  <2>4. CASE SpuriousWake(w)
    <3>1. NGone(wpc') = NGone(wpc)
      <4>1. wpc[w] = "asleep" /\ wpc'[w] = "wake" /\ Others
        BY <2>4 DEF SpuriousWake
      <4> QED
        BY <1>3, <4>1
    <3> QED
      BY <2>4, <3>1 DEF SpuriousWake, ownerVars
  <2>5. CASE Relock(w)
    <3>1. NGone(wpc') = NGone(wpc)
      <4>1. wpc[w] = "wake" /\ wpc'[w] = "test" /\ Others
        BY <2>5 DEF Relock
      <4> QED
        BY <1>3, <4>1
    <3> QED
      BY <2>5, <3>1 DEF Relock, ownerVars
  <2>6. CASE Pop(w)
    <3>2. NGone(wpc') = NGone(wpc)
      <4>1. wpc[w] = "test" /\ wpc'[w] = "unlock" /\ Others
        BY <2>6 DEF Pop
      <4> QED
        BY <1>3, <4>1
    <3>3. /\ Len(queue) >= 1
          /\ Head(queue) = queue[1]
          /\ Len(queue') = Len(queue) - 1
          /\ \A i \in 1 .. Len(queue') : queue'[i] = queue[i + 1]
          /\ queue' = <<>> <=> Len(queue) = 1
      <4>1. queue # <<>> /\ queue' = Tail(queue)
        BY <1>0, <2>6, FirstIsHead DEF Pop
      <4>2. /\ queue' \in Seq(AllTasks)
            /\ Len(queue') = Len(queue) - 1
            /\ \A i \in 1 .. Len(queue') : queue'[i] = queue[i + 1]
        BY <4>1, HeadTailProperties
      <4>3. queue' = <<>> <=> Len(queue') = 0
        BY <4>2, EmptySeq
      <4>4. Head(queue) = queue[1] /\ Len(queue) >= 1
        BY <4>1
      <4> QED
        BY <4>2, <4>3, <4>4
    <3>4. task' = [task EXCEPT ![w] = queue[1]] /\ UNCHANGED <<lock, opc, arg, exits>>
      BY <1>0, <2>6, <3>3, FirstIsHead DEF Pop, ownerVars
    <3>5. task \in [Workers -> AllTasks \cup {None}]
      BY DEF Control, Shape
    <3>6. \A v \in Workers : task[v] # ExitTask
      BY <3>3
    <3>7. queue[1] = ExitTask => Awaited /\ queue' = <<>>
      BY <3>3
    <3>8. ExitTaskPlace'
      BY <3>3, <3>4, <3>5, <3>6, <3>7
    <3>9. DestroyProgress'
      BY <2>6, <3>2, <3>4 DEF Pop
    <3> QED
      BY <3>8, <3>9
  <2>7. CASE Unlock(w)
    <3>1. NGone(wpc') = NGone(wpc)
      <4>1. wpc[w] = "unlock" /\ wpc'[w] = "run" /\ Others
        BY <2>7 DEF Unlock
      <4> QED
        BY <1>3, <4>1
    <3> QED
      BY <2>7, <3>1 DEF Unlock, ownerVars
  <2>8. CASE Run(w)
    <3>1. NGone(wpc') = NGone(wpc)
      <4>1. wpc[w] = "run" /\ wpc'[w] = "free" /\ Others
        BY <2>8 DEF Run
      <4> QED
        BY <1>3, <4>1
    <3> QED
      BY <2>8, <3>1 DEF Run, ownerVars
  <2>9. CASE RunExit(w)
    <3>2. NGone(wpc') = NGone(wpc) + 1
      <4>1. wpc[w] = "run" /\ wpc'[w] = "exiting" /\ Others
        BY <2>9 DEF RunExit
      <4> QED
        BY <1>3, <4>1
    <3>3. Awaited /\ queue = <<>> /\ task[w] = ExitTask
      BY <2>9 DEF RunExit
    <3>4. \A v \in Workers : task'[v] # ExitTask
      BY <2>9, <3>3 DEF RunExit, Control, Shape
    <3> QED
      BY <2>9, <3>2, <3>3, <3>4 DEF RunExit, ownerVars
  <2>10. CASE PthreadExit(w)
    <3>1. NGone(wpc') = NGone(wpc)
      <4>1. wpc[w] = "exiting" /\ wpc'[w] = "exited" /\ Others
        BY <2>10 DEF PthreadExit
      <4> QED
        BY <1>3, <4>1
    <3> QED
      BY <2>10, <3>1 DEF PthreadExit, ownerVars
  <2>11. CASE Free(w)
    <3>2. NGone(wpc') = NGone(wpc)
      <4>1. wpc[w] = "free" /\ wpc'[w] = "top" /\ Others
        BY <2>11 DEF Free
      <4> QED
        BY <1>3, <4>1
    <3>3. \A v \in Workers : task'[v] = ExitTask => task[v] = ExitTask
      BY <2>11 DEF Free, Control, Shape
    <3> QED
      BY <2>11, <3>2, <3>3 DEF Free, ownerVars
  <2> QED
    BY <1>15, <2>1, <2>2, <2>3, <2>4, <2>5, <2>6, <2>7, <2>8, <2>9, <2>10,
       <2>11 DEF WorkerNext
<1>16. CASE UNCHANGED vars
  BY <1>2, <1>16 DEF vars
<1> QED
  BY <1>4, <1>5, <1>6, <1>7, <1>8, <1>9, <1>10, <1>11, <1>12, <1>13, <1>14,
     <1>15, <1>16 DEF Next, OwnerNext

-----------------------------------------------------------------------------
(***************************************************************************)
(* Fifth layer: the links of the list.                                     *)
(***************************************************************************)

\* Links holds at first.
LEMMA LinksInit == Init => Links
  BY DEF Init, Links, LinksMatch, ArgEnds

\* No task is twice in the queue.
LEMMA QueuedOnce ==
  ASSUME Control, Owned, Exits,
         NEW i \in 1 .. Len(queue), NEW j \in 1 .. Len(queue), queue[i] = queue[j]
  PROVE  i = j
<1>1. queue[i] \in Tasks \cup {ExitTask}
  BY DEF Control, Shape, AllTasks
<1> QED
  BY <1>1 DEF Owned, Ownership, Exits, ExitTaskPlace

\* The task that is being posted is not in the queue yet.
LEMMA ArgNotQueued ==
  ASSUME Control, Owned, Exits, opc \in {"check", "append"},
         NEW i \in 1 .. Len(queue)
  PROVE  queue[i] # arg
<1>1. arg \in Tasks \cup {ExitTask}
  BY DEF Control, Shape, OwnerCalls, Posting, AllTasks
<1>2. CASE arg \in Tasks
  BY <1>2 DEF Owned, Ownership, Submitting
<1>3. CASE arg = ExitTask
  BY <1>3 DEF Exits, ExitTaskPlace, Awaited, Posted
<1> QED
  BY <1>1, <1>2, <1>3

\* Links is kept by every step from a state with Control, Owned and Exits.
LEMMA LinksStep == Control /\ Owned /\ Exits /\ Links /\ [Next]_vars => Links'
<1> SUFFICES ASSUME Control, Owned, Exits, Links, [Next]_vars PROVE Links'
  OBVIOUS
<1> DEFINE n == Len(queue)
<1>1. /\ n \in Nat /\ (queue = <<>> <=> n = 0)
      /\ queue \in Seq(AllTasks)
      /\ \A i \in 1 .. n : queue[i] \in AllTasks
      /\ next \in [AllTasks -> AllTasks \cup {None}]
      /\ First \notin AllTasks /\ None \notin AllTasks
  BY LenProperties, EmptySeq, PoolAssumption DEF Control, Shape, AllTasks
<1>2. /\ first = IF n = 0 THEN None ELSE queue[1]
      /\ last = IF n = 0 THEN First ELSE queue[n]
      /\ \A i \in 1 .. n : next[queue[i]] = IF i = n THEN None ELSE queue[i + 1]
  BY <1>1 DEF Links, LinksMatch
<1> HIDE DEF n
<1>3. CASE UNCHANGED <<links, queue, arg>> /\ (opc' = opc \/ opc = "signal")
  BY <1>3 DEF Links, LinksMatch, ArgEnds, links
<1>4. CASE UNCHANGED <<links, queue>> /\ opc' \notin {"signal", "append"}
  BY <1>4 DEF Links, LinksMatch, ArgEnds, links
<1>5. CASE PostCheck
  <2>1. \A i \in 1 .. n : queue[i] # arg
    BY <1>5, ArgNotQueued DEF PostCheck, n
  <2>2. arg \in AllTasks
    BY <1>5 DEF PostCheck, Control, Shape, OwnerCalls, Posting
  <2>3. next'[arg] = None /\ \A i \in 1 .. n : next'[queue[i]] = next[queue[i]]
    BY <1>1, <1>5, <2>1, <2>2 DEF PostCheck
  <2> QED
    BY <1>5, <2>3 DEF PostCheck, Links, LinksMatch, ArgEnds, n
<1>6. CASE PostAppend
  <2>1. \A i \in 1 .. n : queue[i] # arg
    BY <1>6, ArgNotQueued DEF PostAppend, n
  <2>2. arg \in AllTasks /\ next[arg] = None
    BY <1>6
    DEF PostAppend, Control, Shape, OwnerCalls, Posting, Links, ArgEnds
  <2>3. /\ queue' # <<>> /\ Len(queue') = n + 1 /\ queue'[n + 1] = arg
        /\ \A i \in 1 .. n : queue'[i] = queue[i]
    BY <1>1, <1>6, <2>2, AppendProperties DEF PostAppend, n
  <2>4. CASE n = 0
    BY <1>1, <1>2, <1>6, <2>2, <2>3, <2>4
    DEF PostAppend, Links, LinksMatch, ArgEnds, n
  <2>5. CASE n # 0
    <3>1. last = queue[n] /\ last # First /\ n \in 1 .. n /\ 1 \in 1 .. n
      BY <1>1, <1>2, <2>5
    <3>2. next' = [next EXCEPT ![queue[n]] = arg] /\ first' = first /\ last' = arg
      BY <1>6, <3>1 DEF PostAppend
    <3>3. first' = queue'[1]
      BY <1>2, <2>3, <2>5, <3>1, <3>2
    <3>4. ASSUME NEW i \in 1 .. n + 1
          PROVE  next'[queue'[i]] = IF i = n + 1 THEN None ELSE queue'[i + 1]
      <4>1. CASE i = n + 1
        BY <1>1, <2>1, <2>2, <2>3, <3>1, <3>2, <4>1
      <4>2. CASE i = n
        BY <1>1, <2>3, <3>1, <3>2, <4>2
      <4>3. CASE i \in 1 .. n /\ i # n
        <5>1. queue[i] # queue[n]
          BY <3>1, <4>3, QueuedOnce DEF n
        <5>2. i + 1 \in 1 .. n
          BY <1>1, <4>3
        <5> QED
          BY <1>1, <1>2, <2>3, <3>2, <4>3, <5>1, <5>2
      <4> QED
        BY <1>1, <4>1, <4>2, <4>3
    <3>5. ArgEnds'
      BY <1>6 DEF PostAppend, ArgEnds
    <3> QED
      BY <1>1, <2>3, <3>2, <3>3, <3>4, <3>5 DEF Links, LinksMatch, n
  <2> QED
    BY <2>4, <2>5
<1>7. ASSUME NEW w \in Workers, Pop(w) PROVE Links'
  <2>1. n # 0 /\ 1 \in 1 .. n /\ n \in 1 .. n /\ first = queue[1]
    BY <1>1, <1>2, <1>7 DEF Pop
  <2>2. /\ Len(queue') = n - 1 /\ (queue' = <<>> <=> n = 1)
        /\ \A i \in 1 .. n - 1 : queue'[i] = queue[i + 1]
    <3>1. /\ queue' = Tail(queue) /\ queue' \in Seq(AllTasks)
          /\ Len(queue') = n - 1
          /\ \A i \in 1 .. n - 1 : queue'[i] = queue[i + 1]
      BY <1>1, <1>7, <2>1, HeadTailProperties DEF Pop, n
    <3>2. queue' = <<>> <=> Len(queue') = 0
      BY <3>1, EmptySeq
    <3> QED
      BY <1>1, <3>1, <3>2
  <2>3. next' = next /\ first' = next[queue[1]]
        /\ last' = IF next[queue[1]] = None THEN First ELSE last
    BY <1>7, <2>1 DEF Pop
  <2>4. next[queue[1]] = IF n = 1 THEN None ELSE queue[2]
    BY <1>1, <1>2, <2>1, 1 + 1 = 2
  <2>5. ArgEnds'
    BY <1>7 DEF Pop, ArgEnds, Links, ownerVars
  <2>6. CASE n = 1
    BY <2>2, <2>3, <2>4, <2>5, <2>6 DEF Links, LinksMatch, n
  <2>7. CASE n # 1
    <3>1. n - 1 \in 1 .. n - 1 /\ 1 \in 1 .. n - 1 /\ 2 \in 1 .. n
      BY <1>1, <2>1, <2>7
    <3>2. first' = queue'[1] /\ last' = queue'[n - 1]
      BY <1>1, <1>2, <2>1, <2>2, <2>3, <2>4, <2>7, <3>1
    <3>3. ASSUME NEW i \in 1 .. n - 1
          PROVE  next'[queue'[i]] = IF i = n - 1 THEN None ELSE queue'[i + 1]
      <4>1. i + 1 \in 1 .. n /\ (i # n - 1 => i + 1 \in 1 .. n - 1)
        BY <1>1
      <4> QED
        BY <1>1, <1>2, <2>2, <2>3, <4>1
    <3> QED
      BY <2>2, <2>5, <2>7, <3>2, <3>3 DEF Links, LinksMatch, n
  <2> QED
    BY <2>6, <2>7
<1>8. ASSUME NEW w \in Workers, Free(w) PROVE Links'
  <2>1. task[w] \in Tasks /\ heap[task[w]] = "taken"
    BY <1>8, PoolAssumption
    DEF Free, Control, Shape, Owned, WorkerTasks, Ownership, HasTask, AllTasks
  <2>2. \A i \in 1 .. n : queue[i] # task[w]
    BY <2>1 DEF Owned, Ownership, n
  <2>3. \A i \in 1 .. n : next'[queue[i]] = next[queue[i]]
    BY <1>1, <1>8, <2>2 DEF Free
  <2>4. next[arg] = None /\ arg \in AllTasks => next'[arg] = None
    BY <1>1, <1>8, <2>1 DEF Free, AllTasks
  <2>5. opc \in {"signal", "append"} => arg \in AllTasks
    BY DEF Control, Shape, OwnerCalls, Posting
  <2> QED
    BY <1>8, <2>3, <2>4, <2>5 DEF Free, Links, LinksMatch, ArgEnds, ownerVars, n
<1>9. ASSUME NEW w \in Workers, WorkerNext(w), ~Pop(w), ~Free(w) PROVE Links'
  <2>1. UNCHANGED <<links, queue, arg, opc>>
    BY <1>9
    DEF WorkerNext, Lock, Decrement, CondWait, SpuriousWake, Relock, Unlock,
        Run, RunExit, PthreadExit, ownerVars
  <2> QED
    BY <1>3, <2>1
<1>10. CASE PostSignal
  BY <1>3, <1>10 DEF PostSignal
<1>11. ASSUME NEW t \in Tasks, Alloc(t) PROVE Links'
  BY <1>4, <1>11 DEF Alloc
<1>12. CASE PostLock \/ PostFull \/ PostUnlock \/ DestroyCall \/ DestroyPost
            \/ DestroySpin \/ DestroyFree
  BY <1>4, <1>12
  DEF PostLock, PostFull, PostUnlock, DestroyCall, DestroyPost, DestroySpin,
      DestroyFree
<1>13. CASE UNCHANGED vars
  BY <1>3, <1>13 DEF vars
<1> QED
  BY <1>5, <1>6, <1>7, <1>8, <1>9, <1>10, <1>11, <1>12, <1>13
  DEF Next, OwnerNext

-----------------------------------------------------------------------------
(***************************************************************************)
(* The theorems.                                                           *)
(***************************************************************************)

\* Every reachable state satisfies the five layers.
LEMMA Invariance == Spec => [](Control /\ Counts /\ Owned /\ Exits /\ Links)
<1>1. Init => Control /\ Counts /\ Owned /\ Exits /\ Links
  BY ControlInit, CountsInit, OwnedInit, ExitsInit, LinksInit
<1>2. Control /\ Counts /\ Owned /\ Exits /\ Links /\ [Next]_vars
        => (Control /\ Counts /\ Owned /\ Exits /\ Links)'
  BY ControlStep, CountsStep, OwnedStep, ExitsStep, LinksStep
<1> QED
  BY <1>1, <1>2, PTL DEF Spec

\* The variables of the pool keep their types, and `waiting' stays between
\* -threads and max_queue (thread_pool.cpp:148, 169, 199).
THEOREM TypeCorrect == Spec => []TypeOK
<1>1. Control /\ Counts => TypeOK
  <2> SUFFICES ASSUME Control, Counts PROVE TypeOK
    OBVIOUS
  <2>1. NIdle(wpc) \in 0 .. Threads /\ Len(queue) \in Nat
    BY Numbers, ThreadsNat, LenProperties DEF Control, Shape
  <2>2. waiting \in -Threads .. MaxQueue
    BY <2>1, ThreadsNat, PoolAssumption
    DEF Control, Shape, OwnerCalls, Counts
  <2> QED
    BY <2>2 DEF Control, Shape, TypeOK
<1> QED
  BY <1>1, Invariance, PTL

\* A thread is between a lock and its unlock exactly while it holds the mutex,
\* so no error return of the error checking mutex is ever taken
\* (thread_pool.cpp:144, 194, 217).
THEOREM MutexCorrect == Spec => []MutexDiscipline
<1>1. Control => MutexDiscipline
  BY DEF Control
<1> QED
  BY <1>1, Invariance, PTL

\* `waiting' counts the queued tasks less the idle workers
\* (thread_pool.cpp:148, 169, 199).
THEOREM WaitingCorrect == Spec => []WaitingCount
<1>1. Control /\ Counts => WaitingCount
  <2>1. Cardinality(Idle) = NIdle(wpc)
    BY DEF Idle, At, NIdle, Count
  <2> QED
    BY <2>1 DEF WaitingCount, Counts
<1> QED
  BY <1>1, Invariance, PTL

\* The test of `waiting' in thread_task_post bounds the queue: it holds one
\* task more than max_queue for each idle worker (thread_pool.cpp:148).
THEOREM QueueBounded == Spec => []QueueBound
<1>1. Control /\ Counts => QueueBound
  <2> SUFFICES ASSUME Control, Counts PROVE QueueBound
    OBVIOUS
  <2>1. Cardinality(Idle) = NIdle(wpc)
    BY DEF Idle, At, NIdle, Count
  <2>2. NIdle(wpc) \in Nat /\ Len(queue) \in Nat
    BY Numbers, LenProperties DEF Control, Shape
  <2> QED
    BY <2>1, <2>2, PoolAssumption
    DEF QueueBound, Counts, Control, Shape, OwnerCalls
<1> QED
  BY <1>1, Invariance, PTL

\* No wake-up is lost: while a worker sleeps, every queued task has a worker
\* on its way to it (thread_pool.cpp:161-169, 201-211).
THEOREM NoWakeupLost == Spec => []NoLostWakeup
<1>1. Counts => NoLostWakeup
  <2> SUFFICES ASSUME Counts PROVE NoLostWakeup
    OBVIOUS
  <2>1. Cardinality(Coming) = NComing(wpc)
    BY DEF Coming, At, NComing, Count
  <2>2. Asleep # {} => NAsleep(wpc) # 0
    BY Numbers DEF Asleep, At
  <2> QED
    BY <2>1, <2>2 DEF NoLostWakeup, Counts
<1> QED
  BY <1>1, Invariance, PTL

\* The links of the list are the tasks that were posted and not taken, in
\* order, and `last' is their end: no link leads to a task that a worker took
\* and may have freed (thread_pool.cpp:158-167, 201-215, 230-231).
THEOREM LinksCorrect == Spec => []LinksMatch
<1>1. Links => LinksMatch
  BY DEF Links
<1> QED
  BY <1>1, Invariance, PTL

\* When thread_pool_destroy frees the pool, no worker is left that could use
\* it, and no accepted task was dropped (thread_pool.cpp:84-101).
THEOREM DestroyCorrect == Spec => []DestroyDrains
<1>1. Control /\ Owned /\ Exits => DestroyDrains
  <2> SUFFICES ASSUME Control, Owned, Exits, opc = "freed"
               PROVE  /\ Gone = Workers
                      /\ queue = <<>>
                      /\ \A t \in Tasks : heap[t] \in {"none", "freed", "leaked"}
    BY DEF DestroyDrains
  <2>1. queue = <<>> /\ NGone(wpc) = Threads
    BY ThreadsNat DEF Exits, DestroyProgress, Posted
  <2>2. Gone = Workers
    <3>1. Cardinality(Gone) = Cardinality(Workers)
      BY <2>1 DEF Gone, At, NGone, Count, Threads
    <3>2. Gone \in SUBSET Workers
      BY DEF Gone, At
    <3> QED
      BY <3>1, <3>2, PoolAssumption, FS_Subset
  <2>3. \A w \in Workers : task[w] = None
    BY <2>2 DEF Gone, At, Owned, WorkerTasks, HasTask
  <2>4. \A t \in Tasks : heap[t] \notin {"allocated", "queued", "taken"}
    BY <2>1, <2>3, PoolAssumption DEF Owned, Ownership, Submitting
  <2> QED
    BY <2>1, <2>2, <2>4 DEF Control, Shape, HeapStates
<1> QED
  BY <1>1, Invariance, PTL

-----------------------------------------------------------------------------
(***************************************************************************)
(* The pool implements TaskQueue.                                          *)
(***************************************************************************)

\* The initial states of the pool are initial states of the queue.
LEMMA RefinesInit == Init => TQ!Init
  BY DEF Init, TQ!Init, Gone, At

\* A step that leaves the queue, the tasks of the workers and the heap alone,
\* and retires nobody, is no step of the queue.
LEMMA RefinesStutter ==
  ASSUME UNCHANGED <<queue, task, heap>>, Gone' = Gone
  PROVE  UNCHANGED TQ!vars
  BY DEF TQ!vars

\* Every other step of the pool is a step of the queue.
LEMMA RefinesStep ==
  Control /\ Counts /\ Owned /\ Links /\ [Next]_vars => [TQ!Next]_(TQ!vars)
<1> SUFFICES ASSUME Control, Counts, Owned, Links, [Next]_vars
             PROVE  [TQ!Next]_(TQ!vars)
  OBVIOUS
<1> DEFINE fresh == {t \in Tasks : heap[t] \in {"none", "allocated"}}
           finished == {t \in Tasks : heap[t] = "freed"}
           refused == {t \in Tasks : heap[t] = "leaked"}
<1>1. /\ Len(queue) \in Nat /\ waiting \in Int /\ queue \in Seq(AllTasks)
      /\ NIdle(wpc) \in Nat /\ NIdle(wpc) <= Threads
      /\ waiting = Len(queue) - NIdle(wpc)
      /\ Threads \in Nat /\ MaxQueue \in Nat
      /\ heap \in [Tasks -> HeapStates]
      /\ task \in [Workers -> AllTasks \cup {None}]
      /\ wpc \in [Workers -> WorkerPCs]
  BY Numbers, ThreadsNat, LenProperties, PoolAssumption
  DEF Control, Shape, Counts
<1>2. ASSUME NEW t \in Tasks, arg = t, PostFull PROVE TQ!Next
  <2>1. heap[t] = "allocated" /\ heap' = [heap EXCEPT ![t] = "leaked"]
    BY <1>2, PoolAssumption DEF PostFull, Owned, Ownership, Submitting
  <2>2. fresh' = fresh \ {t} /\ refused' = refused \cup {t} /\ finished' = finished
    BY <1>1, <1>2, <2>1
  <2>3. Len(queue) >= MaxQueue
    BY <1>1, <1>2 DEF PostFull, Full
  <2>4. UNCHANGED <<queue, task>> /\ Gone' = Gone
    BY <1>2 DEF PostFull, Gone, At
  <2>5. TQ!Refuse(t)
    BY <1>2, <2>1, <2>2, <2>3, <2>4 DEF TQ!Refuse
  <2> QED
    BY <1>2, <2>5 DEF TQ!Next
<1>3. CASE PostAppend
  <2>1. Len(queue) < MaxQueue + Threads
    <3>1. waiting < MaxQueue
      BY <1>3 DEF PostAppend, Control, OwnerCalls
    <3> QED
      BY <1>1, <3>1
  <2>2. queue' = Append(queue, arg) /\ UNCHANGED task /\ Gone' = Gone
    BY <1>3 DEF PostAppend, Gone, At
  <2>3. CASE arg = ExitTask
    <3>1. heap' = heap
      BY <1>3, <2>3 DEF PostAppend
    <3>2. TQ!SubmitExit
      BY <2>1, <2>2, <2>3, <3>1 DEF TQ!SubmitExit
    <3> QED
      BY <3>2 DEF TQ!Next
  <2>4. ASSUME NEW t \in Tasks, arg = t PROVE TQ!Next
    <3>1. heap[t] = "allocated" /\ heap' = [heap EXCEPT ![t] = "queued"]
      BY <1>3, <2>4, PoolAssumption DEF PostAppend, Owned, Ownership, Submitting
    <3>2. fresh' = fresh \ {t} /\ refused' = refused /\ finished' = finished
      BY <1>1, <3>1
    <3>3. TQ!Submit(t)
      BY <2>1, <2>2, <2>4, <3>1, <3>2 DEF TQ!Submit
    <3> QED
      BY <3>3 DEF TQ!Next
  <2>5. arg \in Tasks \cup {ExitTask}
    BY <1>3 DEF PostAppend, Control, Shape, OwnerCalls, Posting, AllTasks
  <2> QED
    BY <2>3, <2>4, <2>5
<1>4. ASSUME NEW w \in Workers, Pop(w) PROVE TQ!Next
  <2>0. queue # <<>> /\ first = Head(queue)
    BY <1>4, FirstIsHead DEF Pop, Links
  <2>1. w \notin Gone /\ Gone' = Gone
    BY <1>1, <1>4 DEF Pop, Gone, At
  <2>2. task[w] = None
    BY <1>4 DEF Pop, Owned, WorkerTasks, HasTask
  <2>3. Head(queue) = queue[1] /\ queue[1] \in AllTasks /\ 1 \in 1 .. Len(queue)
    BY <1>1, <2>0, HeadTailProperties, EmptySeq
  <2>4. queue[1] \in Tasks => heap[queue[1]] = "queued"
    BY <2>3 DEF Owned, Ownership
  <2>5. fresh' = fresh /\ refused' = refused /\ finished' = finished
    BY <1>1, <1>4, <2>0, <2>3, <2>4 DEF Pop, AllTasks
  <2>6. TQ!Start(w)
    BY <1>4, <2>0, <2>1, <2>2, <2>5 DEF Pop, TQ!Start
  <2> QED
    BY <2>6 DEF TQ!Next
<1>5. ASSUME NEW w \in Workers, RunExit(w) PROVE TQ!Next
  <2>1. Gone' = Gone \cup {w}
    BY <1>1, <1>5 DEF RunExit, Gone, At
  <2>2. TQ!Retire(w)
    BY <1>5, <2>1 DEF RunExit, TQ!Retire
  <2> QED
    BY <2>2 DEF TQ!Next
<1>6. ASSUME NEW w \in Workers, Free(w) PROVE TQ!Next
  <2>1. task[w] \in Tasks /\ heap[task[w]] = "taken"
    BY <1>1, <1>6, PoolAssumption
    DEF Free, Owned, WorkerTasks, Ownership, HasTask, AllTasks
  <2>2. fresh' = fresh /\ refused' = refused /\ finished' = finished \cup {task[w]}
    BY <1>1, <1>6, <2>1 DEF Free
  <2>3. Gone' = Gone
    BY <1>1, <1>6 DEF Free, Gone, At
  <2>4. TQ!Finish(w)
    BY <1>6, <2>1, <2>2, <2>3 DEF Free, TQ!Finish
  <2> QED
    BY <2>4 DEF TQ!Next
<1>7. ASSUME NEW t \in Tasks, Alloc(t) PROVE UNCHANGED TQ!vars
  <2>1. fresh' = fresh /\ refused' = refused /\ finished' = finished
    BY <1>1, <1>7 DEF Alloc
  <2>2. UNCHANGED <<queue, task>> /\ Gone' = Gone
    BY <1>7 DEF Alloc, Gone, At
  <2> QED
    BY <2>1, <2>2 DEF TQ!vars
<1>8. ASSUME NEW w \in Workers,
             Lock(w) \/ Decrement(w) \/ CondWait(w) \/ SpuriousWake(w)
               \/ Relock(w) \/ Unlock(w) \/ Run(w) \/ PthreadExit(w)
      PROVE  UNCHANGED TQ!vars
  <2>1. UNCHANGED <<queue, task, heap>>
    BY <1>8
    DEF Lock, Decrement, CondWait, SpuriousWake, Relock, Unlock, Run, PthreadExit
  <2>2. Gone' = Gone
    BY <1>1, <1>8
    DEF Gone, At, Lock, Decrement, CondWait, SpuriousWake, Relock, Unlock, Run,
        PthreadExit
  <2> QED
    BY <2>1, <2>2, RefinesStutter
<1>9. CASE PostSignal
  <2>1. UNCHANGED <<queue, task, heap>> /\ Gone' = Gone
    BY <1>1, <1>9 DEF PostSignal, Asleep, Gone, At
  <2> QED
    BY <2>1, RefinesStutter
<1>10. CASE PostLock \/ (PostFull /\ arg = ExitTask) \/ PostCheck \/ PostUnlock
            \/ DestroyCall \/ DestroyPost \/ DestroySpin \/ DestroyFree
            \/ UNCHANGED vars
  <2>1. UNCHANGED <<queue, task, heap>> /\ Gone' = Gone
    BY <1>10
    DEF PostLock, PostFull, PostCheck, PostUnlock, DestroyCall, DestroyPost,
        DestroySpin, DestroyFree, vars, Gone, At
  <2> QED
    BY <2>1, RefinesStutter
<1>11. PostFull => arg \in Tasks \/ arg = ExitTask
  BY DEF PostFull, Control, Shape, OwnerCalls, Posting, AllTasks
<1> QED
  BY <1>2, <1>3, <1>4, <1>5, <1>6, <1>7, <1>8, <1>9, <1>10, <1>11
  DEF Next, OwnerNext, WorkerNext

\* With its mutex, its condition variable and its counter, the pool shows its
\* client nothing but the FIFO of run-once tasks of TaskQueue: no task is
\* lost, run twice or started out of order (thread_pool.cpp:139-235).
THEOREM PoolRefinesQueue == Spec => ImplementsTaskQueue
<1>1. Spec => TQ!Init
  BY RefinesInit DEF Spec
<1>2. Spec => [][TQ!Next]_(TQ!vars)
  BY RefinesStep, Invariance, PTL DEF Spec
<1> QED
  BY <1>1, <1>2 DEF ImplementsTaskQueue, TQ!Spec
=============================================================================
