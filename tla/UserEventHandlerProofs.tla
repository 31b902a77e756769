------------------------ MODULE UserEventHandlerProofs ------------------------
(***************************************************************************)
(* What UserEventHandler keeps for every number of workers, every set of   *)
(* mobiles, every generator and however long it runs, proved with TLAPS.   *)
(* The invariants come in layers, each proved inductive with the help of   *)
(* the layers before it:                                                   *)
(*                                                                         *)
(*   Places      types, and what a worker has at each place of a handler,  *)
(*               pm_ first of all                                          *)
(*   Generated   the state of the generator between srand and rand         *)
(*   Verified    codes that are compared, and those that were the latest   *)
(*   Registered  what is in userinfo when a login has succeeded            *)
(*   RowsPerRace is inductive as it stands                                 *)
(***************************************************************************)
EXTENDS UserEventHandler, FiniteSetTheorems, TLAPS

-----------------------------------------------------------------------------
(***************************************************************************)
(* First layer.                                                            *)
(***************************************************************************)

MobileOnly == {"srand", "rand", "store"}
LoginOnly == {"verify", "init", "exist", "insert"}

\* A worker is between lock and unlock exactly when it holds pm_.
Mutex == \A w \in Workers : wpc[w] \in Locked <=> pm = w

\* A worker has an event while it handles one, of the kind of the handler it
\* is in, and no response before there is one.
Handling(w) ==
  /\ wpc[w] # "idle" => ev[w] \in Events
  /\ wpc[w] \in MobileOnly => ev[w].eid = "mobile"
  /\ wpc[w] \in LoginOnly => ev[w].eid = "login"
  /\ wpc[w] \in MobileOnly \cup LoginOnly \cup {"lock"} => rsp[w] = None
  /\ wpc[w] = "unlock" => \/ rsp[w] \in {"code", "invalid"}
                          \/ rsp[w] = None /\ ev[w].eid = "login"
  /\ wpc[w] = "done" => rsp[w] \in Answers
  /\ wpc[w] = "done" /\ rsp[w] = "success" => ev[w].eid = "login"
  /\ wpc[w] = "store" => icode[w] \in Codes

Places == TypeOK /\ Mutex /\ \A w \in Workers : Handling(w)

\* Places holds at first.
LEMMA PlacesInit == Init => Places
<1> SUFFICES ASSUME Init PROVE Places
  OBVIOUS
<1> USE HandlerAssumption
<1>1. TypeOK
  BY DEF Init, TypeOK, Seconds, PCs, Answers
<1>2. Mutex
  BY DEF Init, Mutex, Locked
<1>3. \A w \in Workers : Handling(w)
  BY DEF Init, Handling, MobileOnly, LoginOnly
<1> QED
  BY <1>1, <1>2, <1>3 DEF Places

\* Places is kept by every step.
LEMMA PlacesStep == Places /\ [Next]_vars => Places'
<1> SUFFICES ASSUME Places, [Next]_vars PROVE Places'
  OBVIOUS
<1> USE HandlerAssumption
    DEF Places, TypeOK, Mutex, Handling, MobileOnly, LoginOnly, PCs, Locked,
        Answers, env, book, table, drawn
<1>1. CASE Tick
  BY <1>1 DEF Tick, Seconds
<1>2. ASSUME NEW w \in Workers PROVE Lock(w) => Places'
  BY DEF Lock, Branch, Events
<1>3. ASSUME NEW w \in Workers, NEW e \in Events PROVE Handle(w, e) => Places'
  BY DEF Handle, Events
<1>4. ASSUME NEW w \in Workers, Step(w) PROVE Places'
  <2>1. CASE Srand(w)
    BY <2>1 DEF Srand
  <2>2. CASE Rand(w)
    BY <2>2 DEF Rand, Codes
  <2>3. CASE Store(w)
    BY <2>3 DEF Store, Issue, Events
  <2>4. CASE Verify(w)
    BY <2>4 DEF Verify
  <2>5. CASE Unlock(w)
    BY <2>5 DEF Unlock
  <2>6. CASE InitConnection(w)
    <3>1. linked' \in [Workers -> BOOLEAN]
      BY <2>6 DEF InitConnection
    <3>2. /\ wpc[w] = "init" /\ wpc' = [wpc EXCEPT ![w] = "exist"]
          /\ UNCHANGED <<env, pm, seed, book, table, ev, drawn, rsp>>
      BY <2>6 DEF InitConnection
    <3> QED
      BY <3>1, <3>2
  <2>7. CASE ExistFound(w)
    BY <2>7 DEF ExistFound
  <2>8. CASE ExistNotFound(w)
    BY <2>8 DEF ExistNotFound, Events
  <2>9. CASE InsertSucceeds(w)
    BY <2>9 DEF InsertSucceeds, Events
  <2>10. CASE InsertFails(w)
    BY <2>10 DEF InsertFails, Events
  <2>11. CASE Return(w)
    BY <2>11 DEF Return
  <2>12. CASE InitFails(w)
    BY <2>12 DEF InitFails
  <2> QED
    BY <1>4, <2>1, <2>2, <2>3, <2>4, <2>5, <2>6, <2>7, <2>8, <2>9, <2>10,
       <2>11, <2>12
    DEF Step
<1>5. CASE UNCHANGED vars
  BY <1>5 DEF vars
<1> QED
  BY <1>1, <1>2, <1>3, <1>4, <1>5 DEF Next

-----------------------------------------------------------------------------
(***************************************************************************)
(* Second layer: while a worker is between srand and rand, nobody else is, *)
(* so that the generator is where it left it.                              *)
(***************************************************************************)

Generated ==
  /\ \A w \in Workers : wpc[w] = "rand" => seed = second[w]
  /\ CodeFromOwnSecond

\* Generated holds at first.
LEMMA GeneratedInit == Init => Generated
  BY DEF Init, Generated, CodeFromOwnSecond

\* Generated is kept by every step from a state with Places.
LEMMA GeneratedStep == Places /\ Generated /\ [Next]_vars => Generated'
<1> SUFFICES ASSUME Places, Generated, [Next]_vars PROVE Generated'
  OBVIOUS
<1>1. /\ wpc \in [Workers -> PCs]
      /\ second \in [Workers -> Seconds]
      /\ icode \in [Workers -> Codes \cup {None}]
      /\ \A w \in Workers : wpc[w] \in Locked <=> pm = w
  BY DEF Places, TypeOK, Mutex
<1> USE DEF Generated, CodeFromOwnSecond, env, book, table, drawn
<1>2. CASE Tick
  BY <1>2 DEF Tick
<1>3. ASSUME NEW w \in Workers PROVE Lock(w) => Generated'
  BY <1>1 DEF Lock, Branch
<1>4. ASSUME NEW w \in Workers, NEW e \in Events
      PROVE  Handle(w, e) => Generated'
  BY <1>1 DEF Handle
<1>5. ASSUME NEW w \in Workers, Step(w) PROVE Generated'
  <2>1. CASE Srand(w)
    <3>1. \A v \in Workers \ {w} : wpc'[v] \notin Locked
      BY <1>1, <2>1 DEF Srand, Locked
    <3> QED
      BY <1>1, <2>1, <3>1 DEF Srand, Locked
  <2>2. CASE Rand(w)
    BY <1>1, <2>2 DEF Rand
  <2>3. CASE Store(w) \/ Verify(w) \/ Unlock(w) \/ InitConnection(w)
               \/ InitFails(w) \/ ExistFound(w) \/ ExistNotFound(w)
               \/ InsertSucceeds(w) \/ InsertFails(w) \/ Return(w)
    <3>1. /\ UNCHANGED <<seed, second, icode>>
          /\ wpc'[w] \notin {"rand", "store"}
          /\ \A v \in Workers \ {w} : wpc'[v] = wpc[v]
      BY <1>1, <2>3
      DEF Store, Verify, Unlock, InitConnection, InitFails, ExistFound,
          ExistNotFound, InsertSucceeds, InsertFails, Return
    <3> QED
      BY <3>1
  <2> QED
    BY <1>5, <2>1, <2>2, <2>3 DEF Step
<1>6. CASE UNCHANGED vars
  BY <1>6 DEF vars
<1> QED
  BY <1>2, <1>3, <1>4, <1>5, <1>6 DEF Next

-----------------------------------------------------------------------------
(***************************************************************************)
(* Third layer: what is in m2c_ is what was issued last; so a login that   *)
(* passes the comparison carries a code that was the latest while it was   *)
(* handled, whatever happens to m2c_ after it let go of pm_.               *)
(***************************************************************************)

\* From the comparison on, also where VerifiedBeforeDb does not look yet.
Passed(w) ==
  \/ wpc[w] \in {"init", "exist", "insert"}
  \/ wpc[w] = "unlock" /\ rsp[w] = None
  \/ wpc[w] = "done" /\ rsp[w] = "success"

\* A code that a login could find in m2c_ now is one of its fresh codes.
Findable(w) == latest[ev[w].mobile] \in fresh[w] \cup {None}

Verified ==
  /\ m2c = latest
  /\ \A w \in Workers : wpc[w] # "idle" => Findable(w)
  /\ \A w \in Workers : Passed(w) => ev[w].icode \in fresh[w]

\* Verified holds at first.
LEMMA VerifiedInit == Init => Verified
  BY DEF Init, Verified, Passed

\* A code that was the latest while a login is handled stays so for this login.
LEMMA FreshGrows ==
  ASSUME Places, [Next]_vars, NEW v \in Workers, wpc[v] # "idle"
  PROVE  wpc'[v] = "idle" \/ (fresh[v] \subseteq fresh'[v] /\ ev'[v] = ev[v])
<1>1. /\ wpc \in [Workers -> PCs]
      /\ fresh \in [Workers -> SUBSET Codes]
      /\ ev \in [Workers -> Events \cup {None}]
  BY DEF Places, TypeOK
<1>2. ASSUME NEW w \in Workers, Store(w)
      PROVE  fresh[v] \subseteq fresh'[v] /\ ev'[v] = ev[v]
  BY <1>1, <1>2 DEF Store, Issue
<1>3. ASSUME NEW w \in Workers, NEW e \in Events, Handle(w, e)
      PROVE  fresh'[v] = fresh[v] /\ ev'[v] = ev[v]
  BY <1>1, <1>3 DEF Handle
<1>4. ASSUME NEW w \in Workers, Return(w)
      PROVE  wpc'[v] = "idle" \/ (fresh'[v] = fresh[v] /\ ev'[v] = ev[v])
  BY <1>1, <1>4 DEF Return
<1>5. \/ UNCHANGED <<fresh, ev>>
      \/ \E w \in Workers : \/ Store(w) \/ Return(w)
                            \/ \E e \in Events : Handle(w, e)
  BY DEF Next, vars, Tick, Lock, Step, Srand, Rand, Verify, Unlock,
         InitConnection, InitFails, ExistFound, ExistNotFound, InsertSucceeds,
         InsertFails, book
<1> QED
  BY <1>2, <1>3, <1>4, <1>5

\* Verified is kept by every step from a state with Places.
LEMMA VerifiedStep == Places /\ Verified /\ [Next]_vars => Verified'
<1> SUFFICES ASSUME Places, Verified, [Next]_vars PROVE Verified'
  OBVIOUS
<1>1. /\ wpc \in [Workers -> PCs]
      /\ latest \in [Mobiles -> Codes \cup {None}]
      /\ fresh \in [Workers -> SUBSET Codes]
      /\ ev \in [Workers -> Events \cup {None}]
      /\ rsp \in [Workers -> Answers \cup {None}]
      /\ \A w \in Workers : Handling(w)
  BY DEF Places, TypeOK
<1>2. \A w \in Workers : wpc[w] # "idle" => ev[w].mobile \in Mobiles
  BY <1>1 DEF Handling, Events
<1>3. m2c = latest
  BY DEF Verified
<1>4. \A w \in Workers : wpc[w] # "idle" => Findable(w)
  BY DEF Verified
<1>5. m2c' = latest'
  <2>1. ASSUME NEW w \in Workers, Store(w) PROVE m2c' = latest'
    BY <1>3, <2>1 DEF Store, Issue
  <2>2. UNCHANGED <<m2c, latest>> \/ \E w \in Workers : Store(w)
    BY DEF Next, vars, Tick, Lock, Handle, Step, Srand, Rand, Verify, Unlock,
           InitConnection, InitFails, ExistFound, ExistNotFound,
           InsertSucceeds, InsertFails, Return, book
  <2> QED
    BY <1>3, <2>1, <2>2
<1>6. ASSUME NEW v \in Workers, wpc'[v] # "idle" PROVE Findable(v)'
  <2>1. ASSUME NEW w \in Workers, Store(w) PROVE Findable(v)'
    <3>1. wpc[v] # "idle" /\ ev' = ev
      BY <1>1, <1>6, <2>1 DEF Store
    <3> QED
      BY <1>1, <1>2, <1>4, <2>1, <3>1 DEF Store, Issue, Findable
  <2>2. ASSUME NEW e \in Events, Handle(v, e) PROVE Findable(v)'
    BY <1>1, <2>2 DEF Handle, Findable
  <2>3. CASE wpc[v] # "idle" /\ UNCHANGED latest
    BY <1>4, <1>6, <2>3, FreshGrows DEF Findable
  <2>4. \/ \E w \in Workers : Store(w)
        \/ \E e \in Events : Handle(v, e)
        \/ wpc[v] # "idle" /\ UNCHANGED latest
    <3>1. CASE wpc[v] # "idle"
      BY <3>1
      DEF Next, vars, Tick, Lock, Handle, Step, Srand, Rand, Verify, Unlock,
          InitConnection, InitFails, ExistFound, ExistNotFound,
          InsertSucceeds, InsertFails, Return, book
    <3>2. CASE wpc[v] = "idle"
      <4>1. ASSUME NEW w \in Workers, Lock(w) \/ Step(w) PROVE FALSE
        BY <1>1, <1>6, <3>2, <4>1
        DEF Lock, Branch, Step, Srand, Rand, Store, Verify, Unlock,
            InitConnection, InitFails, ExistFound, ExistNotFound,
            InsertSucceeds, InsertFails, Return
      <4>2. ASSUME NEW w \in Workers, NEW e \in Events, Handle(w, e), w # v
            PROVE  FALSE
        BY <1>1, <1>6, <3>2, <4>2 DEF Handle
      <4>3. ~(Tick \/ UNCHANGED vars)
        BY <1>6, <3>2 DEF Tick, vars
      <4> QED
        BY <4>1, <4>2, <4>3 DEF Next
    <3> QED
      BY <3>1, <3>2
  <2> QED
    BY <2>1, <2>2, <2>3, <2>4
<1>7. ASSUME NEW v \in Workers, Passed(v)' PROVE ev'[v].icode \in fresh'[v]
  <2>1. CASE Passed(v)
    BY <1>7, <2>1, FreshGrows DEF Verified, Passed
  <2>2. CASE Verify(v)
    BY <1>1, <1>2, <1>3, <1>4, <1>7, <2>2, HandlerAssumption
    DEF Verify, WrongCode, Passed, Findable, book, Answers
  <2>3. Passed(v) \/ Verify(v)
    <3> USE <1>1, <1>7, HandlerAssumption DEF Passed, Answers
    <3>1. CASE Tick
      BY <3>1 DEF Tick
    <3>2. ASSUME NEW w \in Workers, Lock(w) PROVE Passed(v)
      BY <3>2 DEF Lock, Branch
    <3>3. ASSUME NEW w \in Workers, NEW e \in Events, Handle(w, e)
          PROVE  Passed(v)
      BY <3>3 DEF Handle
    <3>4. ASSUME NEW w \in Workers, Step(w), w # v PROVE Passed(v)
      BY <3>4
      DEF Step, Srand, Rand, Store, Verify, Unlock, InitConnection, InitFails,
          ExistFound, ExistNotFound, InsertSucceeds, InsertFails, Return
    <3>5. CASE Step(v)
      <4>1. wpc[v] = "unlock" => rsp[v] # "success"
        BY DEF Handling
      <4> QED
        BY <3>5, <4>1
        DEF Step, Srand, Rand, Store, Unlock, InitConnection, InitFails,
            ExistFound, ExistNotFound, InsertSucceeds, InsertFails, Return
    <3>6. CASE UNCHANGED vars
      BY <3>6 DEF vars
    <3> QED
      BY <3>1, <3>2, <3>3, <3>4, <3>5, <3>6 DEF Next
  <2> QED
    BY <2>1, <2>2, <2>3
<1> QED
  BY <1>5, <1>6, <1>7 DEF Verified

-----------------------------------------------------------------------------
(***************************************************************************)
(* Fourth layer: rows are added and never taken away.                      *)
(***************************************************************************)

\* No step removes a row, or forgets a SELECT that failed.
LEMMA RowsGrow ==
  Places /\ [Next]_vars =>
    \A m \in Mobiles : rows'[m] >= rows[m] /\ misses'[m] >= misses[m]
<1> SUFFICES ASSUME Places, [Next]_vars, NEW m \in Mobiles
             PROVE  rows'[m] >= rows[m] /\ misses'[m] >= misses[m]
  OBVIOUS
<1>1. rows \in [Mobiles -> Nat] /\ misses \in [Mobiles -> Nat]
  BY DEF Places, TypeOK
<1>2. ASSUME NEW w \in Workers,
             ExistNotFound(w) \/ InsertSucceeds(w) \/ InsertFails(w)
      PROVE  rows'[m] >= rows[m] /\ misses'[m] >= misses[m]
  BY <1>1, <1>2 DEF ExistNotFound, InsertSucceeds, InsertFails, table
<1>3. \/ UNCHANGED table
      \/ \E w \in Workers :
           ExistNotFound(w) \/ InsertSucceeds(w) \/ InsertFails(w)
  BY DEF Next, vars, Tick, Lock, Handle, Step, Srand, Rand, Store, Verify,
         Unlock, InitConnection, InitFails, ExistFound, Return
<1> QED
  BY <1>1, <1>2, <1>3 DEF table

\* SuccessMeansRegistered is kept by every step from a state with Places.
LEMMA RegisteredStep ==
  Places /\ SuccessMeansRegistered /\ [Next]_vars => SuccessMeansRegistered'
<1> SUFFICES ASSUME Places, SuccessMeansRegistered, [Next]_vars,
                    NEW v \in Workers, wpc'[v] = "done", rsp'[v] = "success"
             PROVE  rows'[ev'[v].mobile] > 0
  BY DEF SuccessMeansRegistered
<1>1. /\ wpc \in [Workers -> PCs]
      /\ rows \in [Mobiles -> Nat] /\ rows' \in [Mobiles -> Nat]
      /\ ev \in [Workers -> Events \cup {None}]
      /\ rsp \in [Workers -> Answers \cup {None}]
      /\ \A w \in Workers : Handling(w)
  BY PlacesStep DEF Places, TypeOK
<1>2. \A w \in Workers : wpc[w] # "idle" => ev[w].mobile \in Mobiles
  BY <1>1 DEF Handling, Events
<1>3. CASE wpc[v] = "done" /\ rsp[v] = "success" /\ ev'[v] = ev[v]
  <2>1. rows[ev[v].mobile] > 0 /\ ev[v].mobile \in Mobiles
    BY <1>2, <1>3 DEF SuccessMeansRegistered
  <2> QED
    BY <1>1, <1>3, <2>1, RowsGrow
<1>4. CASE ExistFound(v)
  BY <1>1, <1>2, <1>4 DEF ExistFound, table
<1>5. CASE InsertSucceeds(v)
  BY <1>1, <1>2, <1>5 DEF InsertSucceeds
<1>6. \/ wpc[v] = "done" /\ rsp[v] = "success" /\ ev'[v] = ev[v]
      \/ ExistFound(v) \/ InsertSucceeds(v)
  <2> USE <1>1, HandlerAssumption DEF Answers
  <2>1. CASE Tick
    BY <2>1 DEF Tick
  <2>2. ASSUME NEW w \in Workers, Lock(w)
        PROVE  wpc[v] = "done" /\ rsp[v] = "success" /\ ev'[v] = ev[v]
    BY <2>2 DEF Lock, Branch
  <2>3. ASSUME NEW w \in Workers, NEW e \in Events, Handle(w, e)
        PROVE  wpc[v] = "done" /\ rsp[v] = "success" /\ ev'[v] = ev[v]
    BY <2>3 DEF Handle
  <2>4. ASSUME NEW w \in Workers, Step(w), w # v
        PROVE  wpc[v] = "done" /\ rsp[v] = "success" /\ ev'[v] = ev[v]
    BY <2>4
    DEF Step, Srand, Rand, Store, Verify, Unlock, InitConnection, InitFails,
        ExistFound, ExistNotFound, InsertSucceeds, InsertFails, Return
  <2>5. CASE Step(v)
    <3>1. wpc[v] = "unlock" => rsp[v] # "success"
      BY DEF Handling
    <3> QED
      BY <2>5, <3>1
      DEF Step, Srand, Rand, Store, Verify, Unlock, InitConnection, InitFails,
          ExistNotFound, InsertFails, Return
  <2>6. CASE UNCHANGED vars
    BY <2>6 DEF vars
  <2> QED
    BY <2>1, <2>2, <2>3, <2>4, <2>5, <2>6 DEF Next
<1> QED
  BY <1>3, <1>4, <1>5, <1>6

-----------------------------------------------------------------------------
(***************************************************************************)
(* Last layer: rows, and logins that are about to add one.                 *)
(***************************************************************************)

\* The workers about to add a row for a mobile are not more than all.
LEMMA InsertingFinite ==
  ASSUME NEW m
  PROVE  /\ IsFiniteSet(Inserting(m))
         /\ Cardinality(Inserting(m)) \in Nat
         /\ Cardinality(Workers) \in Nat
         /\ Cardinality(Inserting(m)) <= Cardinality(Workers)
<1>1. Inserting(m) \in SUBSET Workers
  BY DEF Inserting
<1> QED
  BY <1>1, HandlerAssumption, FS_Subset, FS_CardinalityType

\* RowsPerRace holds at first.
LEMMA RowsInit == Init => RowsPerRace
<1> SUFFICES ASSUME Init, NEW m \in Mobiles
             PROVE  rows[m] + Cardinality(Inserting(m))
                      <= Cardinality(Workers) + misses[m]
  BY DEF RowsPerRace
<1>1. Inserting(m) = {}
  BY DEF Init, Inserting
<1>2. Cardinality(Workers) \in Nat /\ Cardinality(Workers) # 0
  BY HandlerAssumption, FS_CardinalityType, FS_EmptySet
<1> QED
  BY <1>1, <1>2, FS_EmptySet DEF Init

\* RowsPerRace is kept by every step from a state with Places.
LEMMA RowsStep == Places /\ RowsPerRace /\ [Next]_vars => RowsPerRace'
<1> SUFFICES ASSUME Places, RowsPerRace, [Next]_vars, NEW m \in Mobiles
             PROVE  rows'[m] + Cardinality(Inserting(m)')
                      <= Cardinality(Workers) + misses'[m]
  BY DEF RowsPerRace
<1>1. /\ wpc \in [Workers -> PCs]
      /\ rows \in [Mobiles -> Nat] /\ misses \in [Mobiles -> Nat]
      /\ ev \in [Workers -> Events \cup {None}]
      /\ \A w \in Workers : wpc[w] # "idle" => ev[w].mobile \in Mobiles
  BY DEF Places, TypeOK, Handling, Events
<1>2. /\ Cardinality(Workers) \in Nat
      /\ Cardinality(Inserting(m)) \in Nat
      /\ Cardinality(Inserting(m)') \in Nat
      /\ Cardinality(Inserting(m)) <= Cardinality(Workers)
      /\ IsFiniteSet(Inserting(m))
  <2>1. Inserting(m)' \in SUBSET Workers
    BY DEF Inserting
  <2> QED
    BY <2>1, InsertingFinite, HandlerAssumption, FS_Subset, FS_CardinalityType
<1>3. rows[m] + Cardinality(Inserting(m)) <= Cardinality(Workers) + misses[m]
  BY DEF RowsPerRace
<1>4. CASE UNCHANGED table /\ Inserting(m)' = Inserting(m)
  BY <1>3, <1>4 DEF table
<1>5. ASSUME NEW w \in Workers, ExistNotFound(w)
      PROVE  rows'[m] + Cardinality(Inserting(m)')
               <= Cardinality(Workers) + misses'[m]
  <2>1. CASE ev[w].mobile # m
    <3>1. /\ Inserting(m)' = Inserting(m)
          /\ rows'[m] = rows[m] /\ misses'[m] = misses[m]
      BY <1>1, <1>5, <2>1 DEF ExistNotFound, Inserting
    <3> QED
      BY <1>3, <3>1
  <2>2. CASE ev[w].mobile = m
    <3>1. Inserting(m)' = Inserting(m) \cup {w} /\ w \notin Inserting(m)
      BY <1>1, <1>5, <2>2 DEF ExistNotFound, Inserting
    <3>2. Cardinality(Inserting(m)') = Cardinality(Inserting(m)) + 1
      BY <1>2, <3>1, FS_AddElement
    <3>3. Cardinality(Inserting(m)') <= Cardinality(Workers)
      <4>1. Inserting(m)' \in SUBSET Workers
        BY DEF Inserting
      <4> QED
        BY <4>1, HandlerAssumption, FS_Subset
    <3>4. \/ rows[m] = 0 /\ misses'[m] = misses[m]
          \/ misses'[m] = misses[m] + 1
      BY <1>1, <1>5, <2>2 DEF ExistNotFound
    <3>5. rows'[m] = rows[m]
      BY <1>5 DEF ExistNotFound
    <3> QED
      BY <1>1, <1>2, <1>3, <3>2, <3>3, <3>4, <3>5
  <2> QED
    BY <2>1, <2>2
<1>6. ASSUME NEW w \in Workers, InsertSucceeds(w) \/ InsertFails(w)
      PROVE  rows'[m] + Cardinality(Inserting(m)')
               <= Cardinality(Workers) + misses'[m]
  <2>1. misses'[m] = misses[m]
    BY <1>6 DEF InsertSucceeds, InsertFails
  <2>2. CASE ev[w].mobile # m
    <3>1. Inserting(m)' = Inserting(m) /\ rows'[m] = rows[m]
      BY <1>1, <1>6, <2>2 DEF InsertSucceeds, InsertFails, Inserting
    <3> QED
      BY <1>3, <2>1, <3>1
  <2>3. CASE ev[w].mobile = m
    <3>1. Inserting(m)' = Inserting(m) \ {w} /\ w \in Inserting(m)
      BY <1>1, <1>6, <2>3 DEF InsertSucceeds, InsertFails, Inserting
    <3>2. Cardinality(Inserting(m)') = Cardinality(Inserting(m)) - 1
      BY <1>2, <3>1, FS_RemoveElement
    <3>3. rows'[m] \in {rows[m], rows[m] + 1}
      BY <1>1, <1>6, <2>3 DEF InsertSucceeds, InsertFails
    <3> QED
      BY <1>1, <1>2, <1>3, <2>1, <3>2, <3>3
  <2> QED
    BY <2>2, <2>3
<1>7. \/ UNCHANGED table /\ Inserting(m)' = Inserting(m)
      \/ \E w \in Workers :
           ExistNotFound(w) \/ InsertSucceeds(w) \/ InsertFails(w)
  <2>1. ASSUME NEW w \in Workers,
               \/ Srand(w) \/ Rand(w) \/ Store(w) \/ Verify(w) \/ Unlock(w)
               \/ InitConnection(w) \/ InitFails(w) \/ ExistFound(w)
               \/ Return(w) \/ Lock(w) \/ \E e \in Events : Handle(w, e)
        PROVE  UNCHANGED table /\ Inserting(m)' = Inserting(m)
    <3>1. /\ UNCHANGED table
          /\ wpc[w] # "insert" /\ wpc'[w] # "insert"
          /\ \A v \in Workers \ {w} : wpc'[v] = wpc[v] /\ ev'[v] = ev[v]
      BY <1>1, <2>1
      DEF Srand, Rand, Store, Verify, Unlock, InitConnection, InitFails,
          ExistFound, Return, Lock, Branch, Handle
    <3> QED
      BY <3>1 DEF Inserting
  <2>2. CASE Tick \/ UNCHANGED vars
    BY <2>2 DEF Tick, vars, Inserting
  <2> QED
    BY <2>1, <2>2 DEF Next, Step
<1> QED
  BY <1>4, <1>5, <1>6, <1>7

-----------------------------------------------------------------------------
(***************************************************************************)
(* The theorems.                                                           *)
(***************************************************************************)

IInv ==
  Places /\ Generated /\ Verified /\ SuccessMeansRegistered /\ RowsPerRace

\* The layers together are inductive.
LEMMA Invariance == Spec => []IInv
<1>1. Init => IInv
  BY PlacesInit, GeneratedInit, VerifiedInit, RowsInit
  DEF IInv, Init, SuccessMeansRegistered
<1>2. IInv /\ [Next]_vars => IInv'
  BY PlacesStep, GeneratedStep, VerifiedStep, RegisteredStep, RowsStep DEF IInv
<1> QED
  BY <1>1, <1>2, PTL DEF Spec

\* Every variable keeps its type; no handler uses an event, a code or a
\* response before it has one (user_event_handler.cpp:35-151).
THEOREM TypeCorrect == Spec => []TypeOK
<1>1. IInv => TypeOK
  BY DEF IInv, Places
<1> QED
  BY <1>1, Invariance, PTL

\* The code a worker generates is the one of the second it read, however many
\* workers share the generator (user_event_handler.cpp:75-80, 87-95).
THEOREM CodeCorrect == Spec => []CodeFromOwnSecond
<1>1. IInv => CodeFromOwnSecond
  BY DEF IInv, Generated
<1> QED
  BY <1>1, Invariance, PTL

\* Nobody reaches the database, or is told that a login succeeded, but with a
\* code that was the latest of that mobile while the login was handled, even
\* if m2c_ changed since the comparison (user_event_handler.cpp:77-78, 106-146).
THEOREM VerificationCorrect == Spec => []VerifiedBeforeDb
<1>1. IInv => VerifiedBeforeDb
  BY DEF IInv, Verified, Passed, VerifiedBeforeDb
<1> QED
  BY <1>1, Invariance, PTL

\* A login that succeeds leaves the user with a row, whatever statement fails
\* and whatever other logins do, for mobiles that are numbers
\* (user_event_handler.cpp:135-146).
THEOREM RegistrationCorrect == Spec => []SuccessMeansRegistered
<1>1. IInv => SuccessMeansRegistered
  BY DEF IInv
<1> QED
  BY <1>1, Invariance, PTL

\* Any number of logins adds at most as many rows for a mobile as there are
\* workers and as SELECTs for it failed (user_event_handler.cpp:135-137).
THEOREM RowsBounded == Spec => []RowsPerRace
<1>1. IInv => RowsPerRace
  BY DEF IInv
<1> QED
  BY <1>1, Invariance, PTL
=============================================================================
