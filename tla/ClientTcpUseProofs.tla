------------------------- MODULE ClientTcpUseProofs -------------------------
(***************************************************************************)
(* Theorems about what client-tcp does with its adapters, on top of their  *)
(* having one owner: the pools keep their sizes, the adapters in use run   *)
(* with the current configuration, and an adapter serves one source at a   *)
(* time.                                                                   *)
(***************************************************************************)
EXTENDS ClientTcpProofs

USE SourcesAssumption, AdaptersAssumption, ThreadsAssumption

LEMMA AllInvariance == Spec => [](TypeInv /\ OwnershipInv)
  BY TypeInvariance, OwnershipInvariance, PTL

-----------------------------------------------------------------------------
(* The sizes of the pools                                                  *)

SizesInv ==
    gen > 0 /\ phase # "stopped" =>
        /\ Len(pool.primary) = opt.primary
        /\ Len(pool.secondary) <= opt.secondary
        /\ Len(pool.startup) <= opt.startup

\* create_ takes from the startup and the secondary pool and replaces what it
\* takes from the primary one.
LEMMA CreateSizes ==
    ASSUME SizesInv, TypeInv, NEW t \in Threads, UpsertCreate(t)
    PROVE  SizesInv'
<1>1. /\ pool.startup \in Seq(Adapters)
      /\ pool.primary \in Seq(Adapters)
      /\ pool.secondary \in Seq(Adapters)
      /\ opt \in PoolSizes
      /\ pool \in Pools
  BY DEF TypeInv, TypeOK, Pools
<1>2. \A q \in Seq(Adapters) : q # <<>> => Len(Tail(q)) = Len(q) - 1 /\ Len(q) \in Nat
  OBVIOUS
<1>3. PICK cli \in Adapters :
          TakeStartup(cli) \/ TakeSecondary(cli) \/ TakePrimary(cli) \/ TakeNew(cli)
  BY DEF UpsertCreate
<1>4. UNCHANGED <<opt, gen, phase>>
  BY DEF UpsertCreate, mainVars
<1>5. CASE TakeStartup(cli)
  <2>1. /\ Len(pool'.startup) <= Len(pool.startup)
        /\ pool'.primary = pool.primary /\ pool'.secondary = pool.secondary
    BY <1>1, <1>2, <1>5 DEF TakeStartup, Pools
  <2> QED
    BY <1>1, <1>4, <2>1 DEF SizesInv, PoolSizes, TakeStartup, Pools
<1>6. CASE TakeSecondary(cli)
  <2>1. /\ Len(pool'.secondary) <= Len(pool.secondary)
        /\ pool'.primary = pool.primary /\ pool'.startup = pool.startup
    BY <1>1, <1>2, <1>6 DEF TakeSecondary, Pools
  <2> QED
    BY <1>1, <1>4, <2>1 DEF SizesInv, PoolSizes
<1>7. CASE TakePrimary(cli)
  <2>1. PICK new \in Adapters : pool' = [pool EXCEPT !.primary = Append(Tail(@), new)]
    BY <1>7 DEF TakePrimary
  <2>2. Tail(pool.primary) \in Seq(Adapters) /\ Len(Tail(pool.primary)) = Len(pool.primary) - 1
    BY <1>1, <1>2, <1>7 DEF TakePrimary
  <2>3. Len(Append(Tail(pool.primary), new)) = Len(pool.primary)
    BY <1>1, <2>2
  <2>4. /\ Len(pool'.primary) = Len(pool.primary)
        /\ pool'.secondary = pool.secondary /\ pool'.startup = pool.startup
    BY <1>1, <2>1, <2>3 DEF Pools
  <2> QED
    BY <1>4, <2>4 DEF SizesInv
<1>8. CASE TakeNew(cli)
  BY <1>4, <1>8 DEF TakeNew, SizesInv
<1> QED
  BY <1>3, <1>5, <1>6, <1>7, <1>8

\* unreg_io puts an adapter in the secondary pool only if it has room.
LEMMA EraseSizes ==
    ASSUME SizesInv, TypeInv, NEW t \in Threads, Erase(t)
    PROVE  SizesInv'
<1>1. pool \in Pools /\ pool.secondary \in Seq(Adapters) /\ opt \in PoolSizes
  BY DEF TypeInv, TypeOK, Pools
<1>2. UNCHANGED <<opt, gen, phase>>
  BY DEF Erase, mainVars
<1>3. call[t].cli \in Adapters
  BY ClientCall DEF Erase, ClientSteps
<1>4. CASE /\ Len(pool.secondary) < opt.secondary
           /\ pool' = [pool EXCEPT !.secondary = Append(@, call[t].cli)]
  <2>1. Len(Append(pool.secondary, call[t].cli)) = Len(pool.secondary) + 1
    BY <1>1, <1>3
  <2>2. /\ Len(pool'.secondary) = Len(pool.secondary) + 1
        /\ pool'.primary = pool.primary /\ pool'.startup = pool.startup
    BY <1>1, <1>4, <2>1 DEF Pools
  <2>3. Len(pool.secondary) \in Nat /\ opt.secondary \in Nat
    BY <1>1 DEF PoolSizes
  <2> QED
    BY <1>2, <1>4, <2>2, <2>3 DEF SizesInv
<1>5. CASE UNCHANGED pool
  BY <1>2, <1>5 DEF SizesInv
<1> QED
  BY <1>4, <1>5 DEF Erase

\* reconfigure_and_start makes the pools anew.
LEMMA RebuildSizes ==
    ASSUME TypeInv, Rebuild
    PROVE  SizesInv'
<1> DEFINE n == Cardinality(Used)
           m(o) == IF startup_flag THEN o.startup ELSE 0
<1>1. PICK o \in Options :
          /\ next_id + n + o.primary + m(o) \in 0 .. MaxAdapters
          /\ pool' = [startup |-> NewPool(next_id + n + o.primary, m(o)),
                      primary |-> NewPool(next_id + n, o.primary),
                      secondary |-> <<>>]
          /\ opt' = o
  BY DEF Rebuild
<1>2. /\ n \in Nat /\ next_id \in Nat /\ m(o) \in Nat /\ o.primary \in Nat
      /\ o.secondary \in Nat /\ o.startup \in Nat /\ m(o) <= o.startup
  BY UsedCount, OptionsAssumption DEF PoolSizes, TypeInv, TypeOK, AdapterTypeOK
<1> HIDE DEF n, m
<1>3. /\ next_id + n + o.primary \in Nat /\ next_id + n \in Nat
      /\ next_id + n + o.primary + m(o) <= MaxAdapters
      /\ next_id + n + o.primary <= MaxAdapters
  BY <1>1, <1>2
<1>4. /\ Len(NewPool(next_id + n + o.primary, m(o))) = m(o)
      /\ Len(NewPool(next_id + n, o.primary)) = o.primary
  BY <1>2, <1>3, NewPoolType
<1> QED
  BY <1>1, <1>2, <1>4 DEF SizesInv

LEMMA SizesSame ==
    ASSUME SizesInv, pool' = pool, opt' = opt, gen' = gen,
           phase # "stopped" \/ phase' = phase
    PROVE  SizesInv'
  BY DEF SizesInv

LEMMA SizesStep ==
    ASSUME SizesInv, TypeInv, [Next]_vars
    PROVE  SizesInv'
<1> USE DEF mapVars, mainVars
<1>2. ASSUME NEW t \in Threads, CallStep(t) PROVE SizesInv'
  <2>1. CASE UpsertCreate(t)
    BY <2>1, CreateSizes
  <2>2. CASE Erase(t)
    BY <2>2, EraseSizes
  <2>3. CASE ~UpsertCreate(t) /\ ~Erase(t)
    BY SizesSame, <1>2, <2>3
       DEF CallStep, TestStarted, Wait, MapStep, TestStopFlag, Find, UpsertFind,
           AdapterRegIo, AdapterUnregIo, StopErased, Bind, Send
  <2> QED
    BY <2>1, <2>2, <2>3
<1>3. ASSUME NEW s \in Sources, SourceStep(s) PROVE SizesInv'
  BY SizesSame, <1>3 DEF SourceStep, Connect, Ask, Post, Disconnect, Destroy, Answer
<1>4. ASSUME NEW w \in Workers, Take(w) PROVE SizesInv'
  BY SizesSame, <1>4 DEF Take
<1>5. CASE StartRefused \/ Start \/ Stop \/ SetSuspend
  BY SizesSame, <1>5 DEF StartRefused, Start, Stop, SetSuspend
<1>6. CASE SetStarted \/ LockWaitList \/ RegisterWaiting \/ UnlockWaitList
  BY SizesSame, <1>6 DEF SetStarted, LockWaitList, RegisterWaiting, UnlockWaitList
<1>7. CASE Rebuild
  BY <1>7, RebuildSizes
<1>8. CASE ClearAll
  BY <1>8 DEF ClearAll, SizesInv
<1>9. CASE (Reconfigure \/ StopMap) /\ ~Rebuild /\ ~ClearAll
  BY SizesSame, <1>9 DEF Reconfigure, StopMap, ListClients, StopListed, AllStopped, StartListed,
                    LowerStopFlag, RaiseStopFlag
<1>10. CASE UNCHANGED vars
  BY SizesSame, <1>10 DEF vars
<1> QED
  BY <1>2, <1>3, <1>4, <1>5, <1>6, <1>7, <1>8, <1>9, <1>10
     DEF Next, LifeCycleStep, Terminated

\* The primary pool always has the size the configuration asks for, and the
\* other two never more, from the first start until stop has cleared them: also
\* in the middle of a restart, and however many threads take from the pools.
THEOREM PoolSizesKept == Spec => []PoolsAsConfigured
<1>1. Init => SizesInv
  BY DEF Init, MapInit, SizesInv
<1>2. SizesInv => PoolsAsConfigured
  BY DEF SizesInv, PoolsAsConfigured, Settled
<1>3. TypeInv /\ SizesInv /\ [Next]_vars => SizesInv'
  BY SizesStep
<1> QED
  BY <1>1, <1>2, <1>3, TypeInvariance, PTL DEF Spec

-----------------------------------------------------------------------------
(* What a step does to the map, to the clients that threads hold, and to   *)
(* the holders of adapters                                                 *)

\* Only create_, unreg_io, a restart and stop change the map and the pools.
LEMMA MapChange ==
    ASSUME [Next]_vars
    PROVE  \/ UNCHANGED <<clients, pool, next_id, opt>>
           \/ \E t \in Threads : UpsertCreate(t) \/ Erase(t)
           \/ Rebuild
           \/ ClearAll
<1> USE DEF mapVars, adapterVars
<1>1. ASSUME NEW t \in Threads, CallStep(t), ~UpsertCreate(t), ~Erase(t)
      PROVE  UNCHANGED <<clients, pool, next_id, opt>>
  BY <1>1 DEF CallStep, TestStarted, Wait, MapStep, TestStopFlag, Find, UpsertFind,
              AdapterRegIo, AdapterUnregIo, StopErased, Bind, Send
<1>2. ASSUME NEW s \in Sources, SourceStep(s)
      PROVE  UNCHANGED <<clients, pool, next_id, opt>>
  BY <1>2 DEF SourceStep, Connect, Ask, Post, Disconnect, Destroy, Answer, Answered
<1>3. ASSUME NEW w \in Workers, Take(w)
      PROVE  UNCHANGED <<clients, pool, next_id, opt>>
  BY <1>3 DEF Take
<1>4. ASSUME \/ StartRefused \/ Start \/ Stop \/ SetSuspend
             \/ SetStarted \/ LockWaitList \/ RegisterWaiting \/ UnlockWaitList
      PROVE  UNCHANGED <<clients, pool, next_id, opt>>
  BY <1>4 DEF StartRefused, Start, Stop, SetSuspend, SetStarted, LockWaitList,
              RegisterWaiting, UnlockWaitList
<1>5. ASSUME Reconfigure \/ StopMap, ~Rebuild, ~ClearAll
      PROVE  UNCHANGED <<clients, pool, next_id, opt>>
  BY <1>5 DEF Reconfigure, StopMap, ListClients, StopListed, AllStopped, StartListed,
              LowerStopFlag, RaiseStopFlag
<1>6. CASE UNCHANGED vars
  BY <1>6 DEF vars
<1> QED
  BY <1>1, <1>2, <1>3, <1>4, <1>5, <1>6 DEF Next, LifeCycleStep, Terminated

\* How the call a thread is in changes: not at all, to another one that has no
\* client yet, or because the thread found or made a client.
Looks(t) == Find(t) \/ UpsertFind(t)

ThreadChange(u) ==
    \/ call'[u] = call[u]
    \/ call'[u].cli = NoAdapter
    \/ /\ Looks(u) \/ UpsertCreate(u)
       /\ call'[u].id = call[u].id /\ call'[u].op = call[u].op

LEMMA EnterChange ==
    ASSUME TypeInv, NEW t \in Threads, NEW op, NEW id, NEW step,
           Enter(t, op, id, step) \/ UNCHANGED threadVars,
           NEW u \in Threads
    PROVE  call'[u] = call[u] \/ call'[u].cli = NoAdapter
  BY DEF TypeInv, TypeOK, Enter, threadVars

LEMMA CallChange ==
    ASSUME TypeInv, [Next]_vars, NEW u \in Threads
    PROVE  ThreadChange(u)
<1> USE DEF threadVars, ThreadChange
<1>1. ASSUME NEW t \in Threads, CallStep(t) PROVE ThreadChange(u)
  <2>1. ASSUME Looks(t) \/ UpsertCreate(t), call' # call, ~Return(t)
        PROVE  ThreadChange(u)
    <3>1. PICK cli : call' = [call EXCEPT ![t].cli = cli]
      BY <2>1 DEF Looks, Find, UpsertFind, UpsertCreate, With
    <3>2. pc[t] # "idle"
      BY <2>1 DEF Looks, Find, UpsertFind, UpsertCreate
    <3>3. call[t] \in Calls /\ call[t] # NoCall
      BY <3>2 DEF TypeInv, TypeOK, CallsOK, CallOK
    <3>4. call[t] \in [op : Operations, id : Sources, cli : Adapters \cup {NoAdapter}]
      BY <3>3 DEF Calls
    <3>5. call'[t].id = call[t].id /\ call'[t].op = call[t].op
      BY <3>1, <3>4 DEF TypeInv, TypeOK
    <3>6. u # t => call'[u] = call[u]
      BY <3>1 DEF TypeInv, TypeOK
    <3> QED
      BY <2>1, <3>5, <3>6
  <2>2. ASSUME Return(t) PROVE ThreadChange(u)
    BY <2>2 DEF Return, NoCall, TypeInv, TypeOK
  <2>3. ASSUME call' = call PROVE ThreadChange(u)
    BY <2>3
  <2>4. ASSUME MapStep(t), ~Looks(t), ~UpsertCreate(t) PROVE Return(t) \/ call' = call
    BY <2>4 DEF Looks, MapStep, TestStopFlag, AdapterRegIo, AdapterUnregIo, Erase,
                StopErased, Bind, Send
  <2>5. ASSUME TestStarted(t) \/ Wait(t) PROVE Return(t) \/ call' = call
    BY <2>5 DEF TestStarted, Wait
  <2> QED
    BY <1>1, <2>1, <2>2, <2>3, <2>4, <2>5 DEF CallStep
<1>2. ASSUME NEW s \in Sources, SourceStep(s) PROVE ThreadChange(u)
  <2>0. s \in Threads
    BY DEF Threads
  <2>1. CASE Connect(s)
    BY <2>0, <2>1, EnterChange DEF Connect
  <2>2. CASE Ask(s)
    <3>1. PICK op \in Messages : PerformIo(s, op, s)
      BY <2>2 DEF Ask
    <3> QED
      BY <2>0, <3>1, EnterChange DEF PerformIo
  <2>3. CASE Disconnect(s)
    BY <2>0, <2>3, EnterChange DEF Disconnect
  <2>4. CASE Post(s) \/ Destroy(s) \/ \E a \in Adapters : Answer(a, s)
    BY <2>4 DEF Post, Destroy, Answer
  <2> QED
    BY <1>2, <2>1, <2>2, <2>3, <2>4 DEF SourceStep
<1>3. ASSUME NEW w \in Workers, Take(w) PROVE ThreadChange(u)
  <2>1. w \in Threads
    BY DEF Threads
  <2> QED
    BY <1>3, <2>1, EnterChange DEF Take, PerformIo
<1>4. ASSUME RegisterWaiting PROVE ThreadChange(u)
  <2>1. Main \in Threads
    BY DEF Threads
  <2>2. PICK s \in todo : \/ suspended /\ UNCHANGED threadVars
                          \/ ~suspended /\ Enter(Main, "reg", s, "route")
    BY <1>4 DEF RegisterWaiting
  <2> QED
    BY <2>1, <2>2, EnterChange
<1>5. ASSUME \/ StartRefused \/ Start \/ Stop \/ SetSuspend
             \/ SetStarted \/ LockWaitList \/ UnlockWaitList
      PROVE  call' = call
  BY <1>5 DEF StartRefused, Start, Stop, SetSuspend, SetStarted, LockWaitList, UnlockWaitList
<1>6. ASSUME Reconfigure \/ StopMap
      PROVE  call' = call
  BY <1>6 DEF Reconfigure, StopMap, ListClients, StopListed, AllStopped, Rebuild,
              StartListed, LowerStopFlag, RaiseStopFlag, ClearAll
<1>7. CASE UNCHANGED vars
  BY <1>7 DEF vars
<1> QED
  BY <1>1, <1>2, <1>3, <1>4, <1>5, <1>6, <1>7 DEF Next, LifeCycleStep, Terminated

\* How the holder of an adapter changes: not at all, by the operations that
\* set it and release it, or because the adapter is new.
SameHolder(a) ==
    /\ adapter'[a].holder_id = adapter[a].holder_id
    /\ adapter'[a].holder = adapter[a].holder

HolderSet(a, t) ==
    /\ AdapterRegIo(t) \/ Bind(t)
    /\ a = call[t].cli
    /\ adapter'[a].holder_id = call[t].id
    /\ adapter'[a].holder = call[t].id

HolderReleased(a, t) ==
    /\ AdapterUnregIo(t)
    /\ a = call[t].cli
    /\ adapter'[a].holder_id = IF adapter[a].holder_id = call[t].id
                               THEN NoId ELSE adapter[a].holder_id
    /\ adapter'[a].holder \in {adapter[a].holder, NoId}

HolderNew(a) ==
    /\ a > next_id
    /\ adapter'[a].holder_id = NoId
    /\ adapter'[a].holder = NoId

HolderChange(a) ==
    \/ SameHolder(a) /\ (a <= next_id \/ a > next_id')
    \/ \E t \in Threads : HolderSet(a, t) \/ HolderReleased(a, t)
    \/ HolderNew(a)

\* Starting and stopping leave the holder alone; a new adapter has none.
LEMMA LifeKeepsHolder ==
    ASSUME NEW ad \in AdapterState, NEW g \in Nat
    PROVE  /\ Started(ad, g).holder_id = ad.holder_id /\ Started(ad, g).holder = ad.holder
           /\ Stopped(ad).holder_id = ad.holder_id /\ Stopped(ad).holder = ad.holder
           /\ Made.holder_id = NoId /\ Made.holder = NoId
           /\ Started(Made, g).holder_id = NoId /\ Started(Made, g).holder = NoId
  BY DEF Started, Stopped, Made, Unmade, AdapterState

LEMMA HolderOperations ==
    ASSUME NEW ad \in AdapterState, NEW id \in Sources
    PROVE  /\ RegisteredTo(ad, id).holder_id = id /\ RegisteredTo(ad, id).holder = id
           /\ Wrapped(ad, id).holder_id = id /\ Wrapped(ad, id).holder = id
           /\ UnregisteredFrom(ad, id).holder_id =
                IF ad.holder_id = id THEN NoId ELSE ad.holder_id
           /\ UnregisteredFrom(ad, id).holder \in {ad.holder, NoId}
  BY DEF RegisteredTo, Wrapped, UnregisteredFrom, AdapterState

\* One adapter is started or stopped.
LEMMA LifeStep ==
    ASSUME TypeInv, NEW b \in Adapters, NEW ad \in AdapterState,
           adapter' = [adapter EXCEPT ![b] = ad], next_id' = next_id,
           ad.holder_id = adapter[b].holder_id, ad.holder = adapter[b].holder,
           NEW a \in Adapters
    PROVE  HolderChange(a)
<1>1. SameHolder(a)
  BY DEF SameHolder, TypeInv, TypeOK, AdapterTypeOK
<1>2. a <= next_id \/ a > next_id'
  BY DEF TypeInv, TypeOK, AdapterTypeOK, Adapters
<1> QED
  BY <1>1, <1>2 DEF HolderChange

LEMMA SameStep ==
    ASSUME TypeInv, UNCHANGED <<adapter, next_id>>, NEW a \in Adapters
    PROVE  HolderChange(a)
  BY DEF HolderChange, SameHolder, TypeInv, TypeOK, AdapterTypeOK, Adapters

LEMMA MakeHolder ==
    ASSUME TypeInv, NEW b, MakeStarted(b), NEW a \in Adapters
    PROVE  HolderChange(a)
<1>1. /\ next_id \in Nat /\ gen \in Nat /\ b \in Adapters /\ b = next_id + 1 /\ next_id' = b
      /\ adapter' = [adapter EXCEPT ![b] = Started(Made, gen)]
      /\ adapter \in [Adapters -> AdapterState]
  BY DEF MakeStarted, TypeInv, TypeOK, AdapterTypeOK
<1>2. CASE a = b
  <2>1. adapter[a] \in AdapterState
    BY <1>1
  <2> QED
    BY <1>1, <1>2, <2>1, LifeKeepsHolder DEF HolderChange, HolderNew
<1>3. CASE a # b
  BY <1>1, <1>3 DEF HolderChange, SameHolder, Adapters
<1> QED
  BY <1>2, <1>3

LEMMA RebuildHolder ==
    ASSUME TypeInv, Rebuild, NEW a \in Adapters
    PROVE  HolderChange(a) /\ next_id <= next_id'
<1> DEFINE n == Cardinality(Used)
           m(o) == IF startup_flag THEN o.startup ELSE 0
           last(o) == next_id + n + o.primary + m(o)
<1>1. PICK o \in Options :
          /\ last(o) \in 0 .. MaxAdapters
          /\ adapter' = [b \in Adapters |->
                           IF b \in next_id + 1 .. last(o) THEN Made ELSE adapter[b]]
          /\ next_id' = last(o)
  BY DEF Rebuild
<1>2. /\ n \in Nat /\ next_id \in Nat /\ m(o) \in Nat /\ o.primary \in Nat
      /\ adapter[a] \in AdapterState
  BY UsedCount, OptionsAssumption DEF PoolSizes, TypeInv, TypeOK, AdapterTypeOK
<1> HIDE DEF n, m
<1>3. next_id <= last(o) /\ last(o) \in Nat
  BY <1>2
<1>8. next_id' = last(o)
  BY <1>1
<1> HIDE DEF last
<1>4. Made.holder_id = NoId /\ Made.holder = NoId
  BY <1>2, LifeKeepsHolder
<1>5. HolderChange(a)
  <2>1. CASE a > next_id /\ a <= last(o)
    BY <1>1, <1>2, <1>3, <1>4, <2>1 DEF HolderChange, HolderNew, Adapters
  <2>2. CASE ~(a > next_id /\ a <= last(o))
    <3>1. a \in Nat /\ (a <= next_id \/ a > last(o))
      BY <1>2, <1>3, <2>2 DEF Adapters
    <3>2. adapter'[a] = adapter[a]
      BY <1>1, <1>2, <1>3, <2>2, <3>1
    <3> QED
      BY <1>8, <3>1, <3>2 DEF HolderChange, SameHolder
  <2> QED
    BY <2>1, <2>2
<1> QED
  BY <1>3, <1>5, <1>8

LEMMA HolderChanges ==
    ASSUME TypeInv, [Next]_vars, NEW a \in Adapters
    PROVE  HolderChange(a)
<1> USE DEF adapterVars
<1>0. /\ adapter \in [Adapters -> AdapterState] /\ gen \in Nat /\ listed \in Seq(Adapters)
      /\ Stopped(adapter[a]) \in AdapterState
  <2>1. /\ adapter \in [Adapters -> AdapterState] /\ gen \in Nat /\ listed \in Seq(Adapters)
    BY DEF TypeInv, TypeOK, AdapterTypeOK
  <2> QED
    BY <2>1, AdapterLives
<1>1. ASSUME NEW t \in Threads, MapStep(t) PROVE HolderChange(a)
  <2>1. CASE UpsertCreate(t)
    <3>1. PICK cli \in Adapters :
              TakeStartup(cli) \/ TakeSecondary(cli) \/ TakePrimary(cli) \/ TakeNew(cli)
      BY <2>1 DEF UpsertCreate
    <3> QED
      BY <3>1, SameStep, MakeHolder DEF TakeStartup, TakeSecondary, TakePrimary, TakeNew
  <2>2. CASE pc[t] \in ClientSteps /\ ~Erase(t) /\ ~Send(t)
    <3> DEFINE b == call[t].cli
    <3>1. b \in Adapters /\ call[t].id \in Sources /\ adapter[b] \in AdapterState
      BY <2>2, ClientCall
    <3>2. CASE a # b
      <4>1. adapter'[a] = adapter[a] /\ next_id' = next_id
        BY <1>0, <1>1, <2>2, <3>1, <3>2
           DEF MapStep, TestStopFlag, Find, UpsertFind, UpsertCreate, AdapterRegIo,
               AdapterUnregIo, StopErased, StopAdapter, Bind, ClientSteps
      <4> QED
        BY <4>1 DEF HolderChange, SameHolder, TypeInv, TypeOK, AdapterTypeOK, Adapters
    <3>3. CASE a = b /\ AdapterRegIo(t)
      <4>1. adapter'[a] = RegisteredTo(adapter[a], call[t].id)
        BY <1>0, <3>1, <3>3 DEF AdapterRegIo
      <4> QED
        BY <3>1, <3>3, <4>1, HolderOperations DEF HolderChange, HolderSet
    <3>4. CASE a = b /\ AdapterUnregIo(t)
      <4>1. adapter'[a] = UnregisteredFrom(adapter[a], call[t].id)
        BY <1>0, <3>1, <3>4 DEF AdapterUnregIo
      <4> QED
        BY <3>1, <3>4, <4>1, HolderOperations DEF HolderChange, HolderReleased
    <3>5. CASE a = b /\ StopErased(t)
      <4>1. adapter' = [adapter EXCEPT ![b] = Stopped(adapter[b])] /\ next_id' = next_id
        BY <3>5 DEF StopErased, StopAdapter
      <4>2. Stopped(adapter[b]) \in AdapterState
        BY <1>0, <3>1, AdapterLives
      <4> QED
        BY <1>0, <3>1, <4>1, <4>2, LifeKeepsHolder, LifeStep
    <3>6. CASE a = b /\ Bind(t)
      <4>1. CASE adapter' = adapter
        BY <3>6, <4>1, SameStep DEF Bind
      <4>2. CASE adapter' = [adapter EXCEPT ![b] = Wrapped(@, call[t].id)]
        <5>1. adapter'[a] = Wrapped(adapter[a], call[t].id)
          BY <1>0, <3>1, <3>6, <4>2
        <5> QED
          BY <3>1, <3>6, <5>1, HolderOperations DEF HolderChange, HolderSet
      <4> QED
        BY <3>6, <4>1, <4>2 DEF Bind
    <3> QED
      BY <1>1, <2>2, <3>2, <3>3, <3>4, <3>5, <3>6
         DEF MapStep, TestStopFlag, Find, UpsertFind, UpsertCreate, ClientSteps
  <2>3. CASE TestStopFlag(t) \/ Find(t) \/ UpsertFind(t) \/ Erase(t) \/ Send(t)
    BY <2>3, SameStep DEF TestStopFlag, Find, UpsertFind, Erase, Send
  <2> QED
    BY <1>1, <2>1, <2>2, <2>3
       DEF MapStep, AdapterRegIo, AdapterUnregIo, StopErased, Bind, ClientSteps
<1>2. ASSUME NEW t \in Threads, TestStarted(t) \/ Wait(t) PROVE HolderChange(a)
  BY <1>2, SameStep DEF TestStarted, Wait
<1>3. ASSUME NEW s \in Sources, SourceStep(s) PROVE HolderChange(a)
  BY <1>3, SameStep DEF SourceStep, Connect, Ask, Post, Disconnect, Destroy, Answer, Answered
<1>4. ASSUME NEW w \in Workers, Take(w) PROVE HolderChange(a)
  BY <1>4, SameStep DEF Take
<1>5. ASSUME \/ StartRefused \/ Start \/ Stop \/ SetSuspend
             \/ SetStarted \/ LockWaitList \/ RegisterWaiting \/ UnlockWaitList
      PROVE  HolderChange(a)
  BY <1>5, SameStep DEF StartRefused, Start, Stop, SetSuspend, SetStarted, LockWaitList,
              RegisterWaiting, UnlockWaitList
<1>6. ASSUME NEW at, StopListed(at) PROVE HolderChange(a)
  <2>1. Head(listed) \in Adapters
    BY <1>0, <1>6, PoolTail DEF StopListed
  <2>2. Stopped(adapter[Head(listed)]) \in AdapterState
    BY <1>0, <2>1, AdapterLives
  <2>3. /\ adapter' = [adapter EXCEPT ![Head(listed)] = Stopped(adapter[Head(listed)])]
        /\ next_id' = next_id
    BY <1>6 DEF StopListed, StopAdapter
  <2> QED
    BY <1>0, <2>1, <2>2, <2>3, LifeKeepsHolder, LifeStep
<1>7. CASE StartListed
  <2>1. Head(listed) \in Adapters
    BY <1>0, <1>7, PoolTail DEF StartListed
  <2>2. Started(adapter[Head(listed)], gen) \in AdapterState
    BY <1>0, <2>1, AdapterLives
  <2>3. /\ adapter' = [adapter EXCEPT ![Head(listed)] = Started(adapter[Head(listed)], gen)]
        /\ next_id' = next_id
    BY <1>7 DEF StartListed
  <2> QED
    BY <1>0, <2>1, <2>2, <2>3, LifeKeepsHolder, LifeStep
<1>8. CASE Rebuild
  BY <1>8, RebuildHolder
<1>9. ASSUME Reconfigure \/ StopMap, ~Rebuild, ~StartListed, ~ \E at : StopListed(at)
      PROVE  HolderChange(a)
  BY <1>9, SameStep DEF Reconfigure, StopMap, ListClients, AllStopped,
                        LowerStopFlag, RaiseStopFlag, ClearAll
<1>10. CASE UNCHANGED vars
  BY <1>10, SameStep DEF vars
<1> QED
  BY <1>1, <1>2, <1>3, <1>4, <1>5, <1>6, <1>7, <1>8, <1>9, <1>10
     DEF Next, CallStep, LifeCycleStep, Terminated

-----------------------------------------------------------------------------
(* Adapters begin to serve a source only when they are in a pool or new    *)

Fresh(a) == InPool(a) \/ a > next_id

Gains(a) ==
    /\ InPool(a)' => Fresh(a)
    /\ \A s \in Sources : Serves(s, a)' => Serves(s, a) \/ Fresh(a)
    /\ Fresh(a) => \A s \in Sources : Serves(s, a)' =>
                      ~InPool(a)' /\ \A r \in Sources : Serves(r, a)' => r = s

(***************************************************************************)
(* An adapter serves one source, and waits in no pool meanwhile.           *)
(***************************************************************************)
ApartInv ==
    \A a \in Adapters, s \in Sources : Serves(s, a) =>
        /\ ~InPool(a)
        /\ \A r \in Sources : Serves(r, a) => r = s

LEMMA NobodysFresh ==
    ASSUME TypeInv, OwnershipInv, ApartInv, NEW a \in Adapters, NEW s \in Sources, Serves(s, a)
    PROVE  ~Fresh(a) /\ a <= next_id
<1>1. next_id \in Nat /\ a \in Nat
  BY DEF TypeInv, TypeOK, AdapterTypeOK, Adapters
<1>2. a <= next_id
  BY DEF Serves, OwnershipInv, Numbered
<1>3. ~InPool(a)
  BY DEF ApartInv
<1> QED
  BY <1>1, <1>2, <1>3 DEF Fresh

\* The adapters of _clients and of the threads come from where they were.
LEMMA ShrinkGains ==
    ASSUME TypeInv, OwnershipInv, ApartInv, NEW a \in Adapters,
           InPool(a)' => InPool(a),
           \A s \in Sources : Serves(s, a)' => Serves(s, a)
    PROVE  Gains(a)
  BY NobodysFresh DEF Gains, Fresh

\* create_ and insert: one adapter begins to serve one source.
LEMMA CreateGains ==
    ASSUME TypeInv, OwnershipInv, ApartInv, NEW t \in Threads, UpsertCreate(t),
           NEW a \in Adapters
    PROVE  Gains(a) /\ next_id <= next_id'
<1> DEFINE id == call[t].id
<1>1. PICK cli \in Adapters :
          /\ TakeStartup(cli) \/ TakeSecondary(cli) \/ TakePrimary(cli) \/ TakeNew(cli)
          /\ Insert(id, cli)
          /\ With(t, cli, Deliver(t))
  BY DEF UpsertCreate
<1>2. /\ ~In(pool', cli)
      /\ In(pool, cli) \/ cli > next_id
      /\ \A b : In(pool', b) => In(pool, b) \/ b > next_id
      /\ next_id <= next_id'
  BY <1>1, CreateTakes
<1>3. /\ call[t] \in Calls /\ call[t] # NoCall /\ id \in Sources
  BY CallFields DEF UpsertCreate, TypeInv, TypeOK, CallsOK, CallOK
<1>4. /\ call'[t].cli = cli /\ call'[t].id = id
      /\ \A u \in Threads \ {t} : call'[u] = call[u]
  BY <1>1, <1>3 DEF With, TypeInv, TypeOK, Calls, NoCall
<1>5. \A s \in Sources : clients'[s] = clients[s] \/ (s = id /\ clients'[s] = cli)
  BY <1>1 DEF Insert, TypeInv, TypeOK
<1> HIDE DEF id
<1>6. \A s \in Sources : Serves(s, a)' => Serves(s, a) \/ (s = id /\ a = cli)
  BY <1>4, <1>5 DEF Serves
<1>7. InPool(a)' => Fresh(a)
  BY <1>2, OwnershipParts DEF Fresh
<1>8. a = cli => Fresh(a) /\ ~InPool(a)'
  BY <1>2, OwnershipParts DEF Fresh
<1>9. Fresh(a) => \A s \in Sources : ~Serves(s, a)
  BY NobodysFresh
<1> QED
  BY <1>2, <1>6, <1>7, <1>8, <1>9 DEF Gains

\* reconfigure_and_start: every source that had a client gets a new one.
LEMMA RebuildGains ==
    ASSUME TypeInv, OwnershipInv, ApartInv, OwnershipInv', Rebuild, NEW a \in Adapters
    PROVE  Gains(a)
<1> DEFINE n == Cardinality(Used)
           m(o) == IF startup_flag THEN o.startup ELSE 0
<1>1. PICK o \in Options :
          /\ \E f \in [Used -> next_id + 1 .. next_id + n] :
               clients' = [s \in Sources |-> IF s \in Used THEN f[s] ELSE NoAdapter]
          /\ pool' = [startup |-> NewPool(next_id + n + o.primary, m(o)),
                      primary |-> NewPool(next_id + n, o.primary),
                      secondary |-> <<>>]
          /\ call' = call
  BY DEF Rebuild, threadVars
<1>2. n \in Nat /\ next_id \in Nat /\ m(o) \in Nat /\ o.primary \in Nat /\ a \in Nat \ {0}
  BY UsedCount, OptionsAssumption DEF PoolSizes, TypeInv, TypeOK, AdapterTypeOK, Adapters
<1> HIDE DEF n, m
<1>3. \A s \in Sources : clients'[s] = a => a > next_id
  BY <1>1, <1>2 DEF NoAdapter
<1>4. InPool(a)' => a > next_id
  <2>1. SUFFICES ASSUME In(pool', a) PROVE a > next_id
    BY OwnershipParts
  <2>2. PICK q \in PoolNames : \E i \in DOMAIN pool'[q] : pool'[q][i] = a
    BY <1>1, <2>1 DEF In, PoolNames
  <2>3. CASE q = "startup"
    BY <1>1, <1>2, <2>2, <2>3 DEF NewPool
  <2>4. CASE q = "primary"
    BY <1>1, <1>2, <2>2, <2>4 DEF NewPool
  <2>5. CASE q = "secondary"
    BY <1>1, <2>2, <2>5
  <2> QED
    BY <2>2, <2>3, <2>4, <2>5 DEF PoolNames
<1>5. \A s \in Sources : Serves(s, a)' => Serves(s, a) \/ (clients'[s] = a /\ a > next_id)
  BY <1>1, <1>3 DEF Serves
<1>6. Fresh(a) => \A s \in Sources : ~Serves(s, a)
  BY NobodysFresh
<1>7. \A s \in Sources : clients'[s] = a =>
          ~InPool(a)' /\ \A r \in Sources : clients'[r] = a => r = s
  <2>1. \A s \in Sources : ~In(pool', clients'[s])
    BY OwnershipParts DEF OwnershipInv, ExclusiveOwnership, SlotsNotPooled
  <2>2. \A s, r \in Sources : clients'[s] = clients'[r] /\ clients'[s] # NoAdapter => s = r
    BY DEF OwnershipInv, ExclusiveOwnership, SlotsDistinct
  <2>3. a # NoAdapter
    BY <1>2 DEF NoAdapter
  <2> QED
    BY <2>1, <2>2, <2>3, OwnershipParts
<1> QED
  BY <1>4, <1>5, <1>6, <1>7 DEF Gains, Fresh

\* Threads only take clients their source had: nobody gains an adapter.
LEMMA FoundServes ==
    ASSUME TypeInv, [Next]_vars, NEW u \in Threads, ~UpsertCreate(u),
           NEW a \in Adapters, call'[u].cli = a
    PROVE  \/ call'[u] = call[u]
           \/ call'[u].id = call[u].id /\ call[u].id \in Sources /\ clients[call[u].id] = a
<1>1. call'[u].cli # NoAdapter
  BY DEF Adapters, NoAdapter
<1>2. \/ call'[u] = call[u]
      \/ Looks(u) /\ call'[u].id = call[u].id
  BY <1>1, CallChange DEF ThreadChange
<1>3. CASE Looks(u) /\ call'[u] # call[u] /\ call'[u].id = call[u].id
  <2>1. call[u] \in Calls /\ call[u] # NoCall
    BY <1>3 DEF Looks, Find, UpsertFind, TypeInv, TypeOK, CallsOK, CallOK
  <2>2. call[u].id \in Sources
    BY <2>1, CallFields
  <2>3. \A step : With(u, clients[call[u].id], step) => call'[u].cli = clients[call[u].id]
    BY <2>1 DEF With, TypeInv, TypeOK, Calls, NoCall
  <2>4. Return(u) => call'[u].cli = NoAdapter
    BY DEF Return, NoCall, TypeInv, TypeOK
  <2> QED
    BY <1>1, <1>3, <2>2, <2>3, <2>4 DEF Looks, Find, UpsertFind
<1> QED
  BY <1>2, <1>3

LEMMA GainsStep ==
    ASSUME TypeInv, OwnershipInv, ApartInv, OwnershipInv', [Next]_vars, NEW a \in Adapters,
           \A t \in Threads : Erase(t) => pool' = pool
    PROVE  Gains(a) /\ next_id <= next_id'
<1>0. next_id \in Nat
  BY DEF TypeInv, TypeOK, AdapterTypeOK
<1>1. CASE \E t \in Threads : UpsertCreate(t)
  BY <1>1, CreateGains
<1>2. CASE Rebuild
  BY <1>2, RebuildGains, RebuildHolder
<1>3. ASSUME ~ \E t \in Threads : UpsertCreate(t), ~Rebuild
      PROVE  Gains(a) /\ next_id <= next_id'
  <2>1. /\ pool' = pool \/ \A b : ~In(pool', b)
        /\ \A s \in Sources : clients'[s] \in {clients[s], NoAdapter}
        /\ next_id' = next_id
    <3>1. CASE UNCHANGED <<clients, pool, next_id>>
      BY <3>1
    <3>2. ASSUME NEW t \in Threads, Erase(t)
          PROVE  /\ pool' = pool
                 /\ \A s \in Sources : clients'[s] \in {clients[s], NoAdapter}
                 /\ next_id' = next_id
      BY <3>2 DEF Erase, adapterVars, TypeInv, TypeOK
    <3>3. CASE ClearAll
      BY <3>3 DEF ClearAll, adapterVars, In
    <3> QED
      BY <1>3, <3>1, <3>2, <3>3, MapChange
  <2>2. InPool(a)' => InPool(a)
    BY <2>1, OwnershipParts
  <2>3. ASSUME NEW s \in Sources, Serves(s, a)' PROVE Serves(s, a)
    <3>1. a # NoAdapter
      BY DEF Adapters, NoAdapter
    <3>2. CASE clients'[s] = a
      BY <2>1, <3>1, <3>2 DEF Serves
    <3>3. ASSUME NEW u \in Threads, call'[u].cli = a, call'[u].id = s PROVE Serves(s, a)
      BY <1>3, <3>3, FoundServes DEF Serves
    <3> QED
      BY <2>3, <3>2, <3>3 DEF Serves
  <2> QED
    BY <1>0, <2>1, <2>2, <2>3, ShrinkGains
<1> QED
  BY <1>1, <1>2, <1>3

LEMMA ApartStep ==
    ASSUME TypeInv, OwnershipInv, ApartInv, \A a \in Adapters : Gains(a)
    PROVE  ApartInv'
<1>1. SUFFICES ASSUME NEW a \in Adapters, NEW s \in Sources, Serves(s, a)'
               PROVE  /\ ~InPool(a)'
                      /\ \A r \in Sources : Serves(r, a)' => r = s
  BY DEF ApartInv
<1>2. CASE Fresh(a)
  BY <1>1, <1>2 DEF Gains
<1>3. CASE ~Fresh(a)
  <2>1. Serves(s, a) /\ ~InPool(a)'
    BY <1>1, <1>3 DEF Gains
  <2>2. \A r \in Sources : Serves(r, a)' => Serves(r, a)
    BY <1>3 DEF Gains
  <2> QED
    BY <2>1, <2>2 DEF ApartInv
<1> QED
  BY <1>2, <1>3

-----------------------------------------------------------------------------
(* The holder of an adapter is the source the adapter serves               *)

HolderIdInv ==
    \A a \in Adapters :
        /\ InPool(a) => adapter[a].holder_id = NoId
        /\ \A s \in Sources : Serves(s, a) => adapter[a].holder_id \in {NoId, s}

LEMMA WorkerServes ==
    ASSUME TypeInv, NEW t \in Threads, pc[t] \in ClientSteps
    PROVE  call[t].cli \in Adapters /\ call[t].id \in Sources /\ Serves(call[t].id, call[t].cli)
  BY ClientCall DEF Serves

\* An adapter that serves nobody has the holder it had, or is made now.
LEMMA FreshHolder ==
    ASSUME TypeInv, OwnershipInv, ApartInv, TypeInv', [Next]_vars,
           NEW a \in Adapters, Fresh(a), a <= next_id'
    PROVE  (InPool(a) /\ SameHolder(a)) \/ HolderNew(a)
<1>1. \A s \in Sources : ~Serves(s, a)
  BY NobodysFresh
<1>2. \A t \in Threads : ~HolderSet(a, t) /\ ~HolderReleased(a, t)
  BY <1>1, WorkerServes
     DEF HolderSet, HolderReleased, AdapterRegIo, Bind, AdapterUnregIo, ClientSteps
<1>3. a \in Nat /\ next_id \in Nat /\ next_id' \in Nat
  BY DEF Adapters, TypeInv, TypeOK, AdapterTypeOK
<1>4. HolderChange(a)
  BY HolderChanges
<1> QED
  BY <1>2, <1>3, <1>4 DEF HolderChange, Fresh

\* An adapter that serves s keeps its holder, gets s or is released.
LEMMA ServingHolder ==
    ASSUME TypeInv, OwnershipInv, ApartInv, [Next]_vars,
           NEW a \in Adapters, NEW s \in Sources, Serves(s, a)
    PROVE  \/ SameHolder(a)
           \/ adapter'[a].holder_id = s /\ adapter'[a].holder = s
           \/ \E t \in Threads : HolderReleased(a, t)
<1>1. ASSUME NEW t \in Threads, HolderSet(a, t)
      PROVE  adapter'[a].holder_id = s /\ adapter'[a].holder = s
  <2>1. call[t].id \in Sources /\ Serves(call[t].id, a)
    BY <1>1, WorkerServes DEF HolderSet, AdapterRegIo, Bind, ClientSteps
  <2>2. call[t].id = s
    BY <2>1 DEF ApartInv
  <2> QED
    BY <1>1, <2>2 DEF HolderSet
<1>2. ~HolderNew(a)
  BY NobodysFresh DEF HolderNew, Fresh
<1>3. HolderChange(a)
  BY HolderChanges
<1> QED
  BY <1>1, <1>2, <1>3 DEF HolderChange

LEMMA HolderIdStep ==
    ASSUME TypeInv, OwnershipInv, ApartInv, HolderIdInv, TypeInv', OwnershipInv', [Next]_vars,
           NEW a \in Adapters, Gains(a)
    PROVE  /\ InPool(a)' => adapter'[a].holder_id = NoId
           /\ \A s \in Sources : Serves(s, a)' => adapter'[a].holder_id \in {NoId, s}
<1>1. InPool(a)' \/ (\E s \in Sources : Serves(s, a)') => a <= next_id'
  BY DEF OwnershipInv, Numbered, Serves
<1>2. CASE Fresh(a)
  <2>1. a <= next_id' => adapter'[a].holder_id = NoId
    BY <1>2, FreshHolder DEF SameHolder, HolderNew, HolderIdInv
  <2> QED
    BY <1>1, <2>1
<1>3. CASE ~Fresh(a)
  <2>1. ~InPool(a)' /\ \A s \in Sources : Serves(s, a)' => Serves(s, a)
    BY <1>3 DEF Gains
  <2>2. ASSUME NEW s \in Sources, Serves(s, a) PROVE adapter'[a].holder_id \in {NoId, s}
    BY <2>2, ServingHolder DEF SameHolder, HolderReleased, HolderIdInv
  <2> QED
    BY <2>1, <2>2
<1> QED
  BY <1>2, <1>3

\* reg_io of an adapter finds it free or registered for the same source.
LEMMA UsesNeverSeveral ==
    ASSUME TypeInv, HolderIdInv
    PROVE  NeverSeveralSources
<1>1. ASSUME NEW t \in Threads, pc[t] = "areg" PROVE ~SeveralSources(call[t].cli, call[t].id)
  <2>1. /\ call[t].cli \in Adapters /\ call[t].id \in Sources
        /\ Serves(call[t].id, call[t].cli)
    BY <1>1, WorkerServes DEF ClientSteps
  <2> QED
    BY <2>1 DEF SeveralSources, HolderIdInv
<1> QED
  BY <1>1 DEF NeverSeveralSources

-----------------------------------------------------------------------------
(* When no configuration has a secondary pool                              *)

NoneReturns == \A o \in Options : o.secondary = 0

ReturnInv == opt.secondary = 0

UseInv == ReturnInv /\ ApartInv /\ HolderIdInv

LEMMA ReturnStep ==
    ASSUME NoneReturns, ReturnInv, TypeInv, [Next]_vars
    PROVE  ReturnInv' /\ \A t \in Threads : Erase(t) => pool' = pool
<1>1. ASSUME NEW t \in Threads, Erase(t) PROVE pool' = pool
  <2>1. Len(pool.secondary) \in Nat
    BY DEF TypeInv, TypeOK
  <2> QED
    BY <1>1, <2>1 DEF Erase, ReturnInv
<1>2. CASE opt' = opt
  BY <1>1, <1>2 DEF ReturnInv
<1>3. CASE Rebuild
  <2>1. opt' \in Options
    BY <1>3 DEF Rebuild
  <2> QED
    BY <1>1, <2>1 DEF ReturnInv, NoneReturns
<1> QED
  BY <1>2, <1>3, MapChange DEF UpsertCreate, Erase, ClearAll

LEMMA UseInit == Init => ApartInv /\ HolderIdInv /\ ReturnInv
<1> SUFFICES ASSUME Init PROVE ApartInv /\ HolderIdInv /\ ReturnInv
  OBVIOUS
<1>1. \A a \in Adapters, s \in Sources : ~Serves(s, a)
  BY DEF Init, MapInit, Serves, NoCall, NoAdapter, Adapters
<1>2. \A a : ~InPool(a)
  BY DEF Init, MapInit, InPool
<1> QED
  BY <1>1, <1>2 DEF Init, MapInit, ApartInv, HolderIdInv, ReturnInv

LEMMA UseStep ==
    ASSUME NoneReturns, TypeInv, OwnershipInv, UseInv, TypeInv', OwnershipInv', [Next]_vars
    PROVE  UseInv' /\ next_id <= next_id' /\ \A a \in Adapters : Gains(a)
<1>1. ReturnInv' /\ \A t \in Threads : Erase(t) => pool' = pool
  BY ReturnStep DEF UseInv
<1>2. \A a \in Adapters : Gains(a) /\ next_id <= next_id'
  BY <1>1, GainsStep DEF UseInv
<1>3. ApartInv'
  BY <1>2, ApartStep DEF UseInv
<1>4. HolderIdInv'
  BY <1>2, HolderIdStep DEF UseInv, HolderIdInv
<1>5. 1 \in Adapters
  BY DEF Adapters
<1> QED
  BY <1>1, <1>2, <1>3, <1>4, <1>5 DEF UseInv

LEMMA UseInvariance ==
    ASSUME NoneReturns
    PROVE  Spec => [](TypeInv /\ OwnershipInv /\ UseInv)
<1>1. Init => UseInv
  BY UseInit DEF UseInv
<1>2. UseInv /\ (TypeInv /\ OwnershipInv) /\ (TypeInv /\ OwnershipInv)' /\ [Next]_vars => UseInv'
  BY UseStep
<1> QED
  BY <1>1, <1>2, AllInvariance, PTL DEF Spec

\* Without a secondary pool the assertion "Several sources are unacceptable"
\* is never met, in front of a queue or not, although a queue performs requests
\* of sources that have left.
THEOREM OneHolderWithoutReturn ==
    ASSUME NoneReturns
    PROVE  Spec => []NeverSeveralSources
<1>1. TypeInv /\ UseInv => NeverSeveralSources
  BY UsesNeverSeveral DEF UseInv
<1> QED
  BY <1>1, UseInvariance, PTL

-----------------------------------------------------------------------------
(* Answers                                                                 *)

HolderInv ==
    \A a \in Adapters :
        /\ InPool(a) => adapter[a].holder = NoId
        /\ \A s \in Sources : Serves(s, a) => adapter[a].holder \in {NoId, s}

(***************************************************************************)
(* Whatever comes to adapter a can be for s only: a is out of the pools for *)
(* good, and who else would become its holder does not get it.             *)
(***************************************************************************)
Reserved(a, s) ==
    /\ a <= next_id
    /\ ~InPool(a)
    /\ \A r \in Sources : Serves(r, a) => r = s
    /\ adapter[a].holder \in {NoId, s}

InflightInv == \A r \in inflight : Reserved(r[1], r[2])

AnswerInv == HolderInv /\ InflightInv

LEMMA HolderStep ==
    ASSUME TypeInv, OwnershipInv, ApartInv, HolderInv, TypeInv', OwnershipInv', [Next]_vars,
           NEW a \in Adapters, Gains(a)
    PROVE  /\ InPool(a)' => adapter'[a].holder = NoId
           /\ \A s \in Sources : Serves(s, a)' => adapter'[a].holder \in {NoId, s}
<1>1. InPool(a)' \/ (\E s \in Sources : Serves(s, a)') => a <= next_id'
  BY DEF OwnershipInv, Numbered, Serves
<1>2. CASE Fresh(a)
  <2>1. a <= next_id' => adapter'[a].holder = NoId
    BY <1>2, FreshHolder DEF SameHolder, HolderNew, HolderInv
  <2> QED
    BY <1>1, <2>1
<1>3. CASE ~Fresh(a)
  <2>1. ~InPool(a)' /\ \A s \in Sources : Serves(s, a)' => Serves(s, a)
    BY <1>3 DEF Gains
  <2>2. ASSUME NEW s \in Sources, Serves(s, a) PROVE adapter'[a].holder \in {NoId, s}
    BY <2>2, ServingHolder DEF SameHolder, HolderReleased, HolderInv
  <2> QED
    BY <2>1, <2>2
<1> QED
  BY <1>2, <1>3

LEMMA ReservedStep ==
    ASSUME TypeInv, [Next]_vars, TypeInv', next_id <= next_id',
           NEW a \in Adapters, NEW s \in Sources, Gains(a), Reserved(a, s)
    PROVE  Reserved(a, s)'
<1>1. next_id \in Nat /\ next_id' \in Nat /\ a \in Nat
  BY DEF TypeInv, TypeOK, AdapterTypeOK, Adapters
<1>2. a <= next_id' /\ ~Fresh(a)
  BY <1>1 DEF Reserved, Fresh
<1>3. ~InPool(a)' /\ \A r \in Sources : Serves(r, a)' => r = s
  BY <1>2 DEF Gains, Reserved
<1>4. ASSUME NEW t \in Threads, HolderSet(a, t) PROVE adapter'[a].holder = s
  <2>1. call[t].id \in Sources /\ Serves(call[t].id, a)
    BY <1>4, WorkerServes DEF HolderSet, AdapterRegIo, Bind, ClientSteps
  <2> QED
    BY <1>4, <2>1 DEF HolderSet, Reserved
<1>5. HolderChange(a)
  BY HolderChanges
<1>6. adapter'[a].holder \in {NoId, s}
  BY <1>4, <1>5 DEF HolderChange, SameHolder, HolderReleased, HolderNew, Reserved
<1> QED
  BY <1>2, <1>3, <1>6 DEF Reserved

\* Only perform_io of an adapter that serves its caller sends requests.
LEMMA InflightChange ==
    ASSUME TypeInv, [Next]_vars, NEW r \in inflight'
    PROVE  r \in inflight \/ \E t \in Threads : Send(t) /\ r = <<call[t].cli, call[t].id>>
<1> USE DEF adapterVars
<1>1. ASSUME NEW t \in Threads, CallStep(t), ~Send(t) PROVE r \in inflight
  BY <1>1 DEF CallStep, TestStarted, Wait, MapStep, TestStopFlag, Find, UpsertFind, UpsertCreate,
              AdapterRegIo, AdapterUnregIo, Erase, StopErased, StopAdapter, Bind
<1>2. ASSUME NEW t \in Threads, Send(t) PROVE r \in inflight \/ r = <<call[t].cli, call[t].id>>
  BY <1>2 DEF Send, SendOk, SendRefused
<1>3. ASSUME NEW s \in Sources, SourceStep(s) PROVE r \in inflight
  BY <1>3 DEF SourceStep, Connect, Ask, Post, Disconnect, Destroy, Answer, Answered
<1>4. ASSUME NEW w \in Workers, Take(w) PROVE r \in inflight
  BY <1>4 DEF Take
<1>5. ASSUME \/ StartRefused \/ Start \/ Stop \/ SetSuspend
             \/ SetStarted \/ LockWaitList \/ RegisterWaiting \/ UnlockWaitList
      PROVE  r \in inflight
  BY <1>5 DEF StartRefused, Start, Stop, SetSuspend, SetStarted, LockWaitList,
              RegisterWaiting, UnlockWaitList
<1>6. ASSUME Reconfigure \/ StopMap PROVE r \in inflight
  BY <1>6 DEF Reconfigure, StopMap, ListClients, StopListed, StopAdapter, AllStopped, Rebuild,
              StartListed, LowerStopFlag, RaiseStopFlag, ClearAll
<1>7. CASE UNCHANGED vars
  BY <1>7 DEF vars
<1> QED
  BY <1>1, <1>2, <1>3, <1>4, <1>5, <1>6, <1>7 DEF Next, LifeCycleStep, Terminated

LEMMA AnswerStep ==
    ASSUME TypeInv, OwnershipInv, ApartInv, AnswerInv, TypeInv', OwnershipInv', [Next]_vars,
           next_id <= next_id', \A a \in Adapters : Gains(a)
    PROVE  AnswerInv'
<1>1. HolderInv'
  BY HolderStep DEF HolderInv, AnswerInv
<1>2. ASSUME NEW r \in inflight' PROVE Reserved(r[1], r[2])'
  <2>1. CASE r \in inflight
    <3>1. r[1] \in Adapters /\ r[2] \in Sources
      BY <2>1 DEF TypeInv, TypeOK, AdapterTypeOK
    <3>2. Reserved(r[1], r[2])
      BY <2>1 DEF AnswerInv, InflightInv
    <3> QED
      BY <3>1, <3>2, ReservedStep
  <2>2. ASSUME NEW t \in Threads, Send(t), r = <<call[t].cli, call[t].id>>
        PROVE  Reserved(r[1], r[2])'
    <3>1. /\ r[1] \in Adapters /\ r[2] \in Sources /\ Serves(r[2], r[1])
      BY <2>2, WorkerServes DEF Send, ClientSteps
    <3>2. Reserved(r[1], r[2])
      BY <3>1, NobodysFresh DEF AnswerInv, HolderInv, ApartInv, Reserved
    <3> QED
      BY <3>1, <3>2, ReservedStep
  <2> QED
    BY <2>1, <2>2, InflightChange
<1> QED
  BY <1>1, <1>2 DEF AnswerInv, InflightInv

LEMMA AnswersFromInv ==
    ASSUME TypeInv, AnswerInv
    PROVE  AnswersGoToTheAsker
<1>1. ASSUME NEW r \in inflight PROVE GetHolder(r[1]) \in {NoId, r[2]}
  BY <1>1 DEF AnswerInv, InflightInv, Reserved, GetHolder
<1> QED
  BY <1>1 DEF AnswersGoToTheAsker

\* Without a secondary pool an answer goes to the source that asked, or to
\* nobody, although by then that source may have left, its client may have been
\* replaced by a restart, and a queue may still perform its requests.
THEOREM AnswersReachAsker ==
    ASSUME NoneReturns
    PROVE  Spec => []AnswersGoToTheAsker
<1> DEFINE I == TypeInv /\ OwnershipInv /\ UseInv
<1>1. Init => AnswerInv
  <2>1. SUFFICES ASSUME Init PROVE AnswerInv
    OBVIOUS
  <2>2. \A a \in Adapters : adapter[a].holder = NoId
    BY <2>1 DEF Init, AdapterInit, Unmade
  <2> QED
    BY <2>1, <2>2 DEF Init, AdapterInit, AnswerInv, HolderInv, InflightInv
<1>2. I /\ I' /\ AnswerInv /\ [Next]_vars => AnswerInv'
  BY UseStep, AnswerStep DEF UseInv
<1>3. I /\ AnswerInv => AnswersGoToTheAsker
  BY AnswersFromInv
<1>4. Spec => []I
  BY UseInvariance
<1> QED
  BY <1>1, <1>2, <1>3, <1>4, PTL DEF Spec

-----------------------------------------------------------------------------
(* Refinement                                                              *)

User == [a \in Adapters |->
            IF Served(a) THEN CHOOSE s \in Sources : Serves(s, a) ELSE NoId]

Spent == {a \in Adapters : a <= next_id /\ ~InPool(a) /\ ~Served(a)}

LEMMA UserNow ==
    ASSUME ApartInv, NEW a \in Adapters
    PROVE  /\ \A s \in Sources : Serves(s, a) => User[a] = s
           /\ ~Served(a) => User[a] = NoId
<1>1. ASSUME NEW s \in Sources, Serves(s, a) PROVE User[a] = s
  <2>1. \A r \in Sources : Serves(r, a) => r = s
    BY <1>1 DEF ApartInv
  <2> QED
    BY <1>1, <2>1 DEF User, Served
<1> QED
  BY <1>1 DEF User

LEMMA UserNext ==
    ASSUME ApartInv', NEW a \in Adapters
    PROVE  /\ \A s \in Sources : Serves(s, a)' => User'[a] = s
           /\ ~Served(a)' => User'[a] = NoId
<1>1. ASSUME NEW s \in Sources, Serves(s, a)' PROVE User'[a] = s
  <2>1. \A r \in Sources : Serves(r, a)' => r = s
    BY <1>1 DEF ApartInv
  <2> QED
    BY <1>1, <2>1 DEF User, Served
<1> QED
  BY <1>1 DEF User

\* Each adapter is given to a source, retired or left as it is.
LEMMA PrivateStep ==
    ASSUME TypeInv, OwnershipInv, ApartInv, TypeInv', OwnershipInv', ApartInv',
           next_id <= next_id', NEW a \in Adapters, Gains(a)
    PROVE  \/ User[a] = NoId /\ a \notin Spent /\ User'[a] \in Sources /\ a \notin Spent'
           \/ a \notin Spent /\ User'[a] = NoId /\ a \in Spent'
           \/ User'[a] = User[a] /\ (a \in Spent' <=> a \in Spent)
<1>1. a \in Nat /\ next_id \in Nat /\ next_id' \in Nat
  BY DEF TypeInv, TypeOK, AdapterTypeOK, Adapters
<1>2. /\ a \in Spent <=> a <= next_id /\ ~InPool(a) /\ ~Served(a)
      /\ a \in Spent' <=> a <= next_id' /\ ~InPool(a)' /\ ~Served(a)'
  BY DEF Spent
<1>3. CASE Served(a)
  <2>1. PICK s \in Sources : Serves(s, a)
    BY <1>3 DEF Served
  <2>2. User[a] = s /\ a \notin Spent /\ ~Fresh(a) /\ a <= next_id
    BY <1>2, <1>3, <2>1, UserNow, NobodysFresh
  <2>3. CASE Served(a)'
    <3>1. PICK r \in Sources : Serves(r, a)'
      BY <2>3 DEF Served
    <3>2. r = s
      BY <2>1, <2>2, <3>1 DEF Gains, ApartInv
    <3>3. User'[a] = s
      BY <3>1, <3>2, UserNext
    <3> QED
      BY <1>2, <2>2, <2>3, <3>3
  <2>4. CASE ~Served(a)'
    <3>1. ~InPool(a)' /\ a <= next_id'
      BY <1>1, <2>2 DEF Gains
    <3> QED
      BY <1>2, <2>2, <2>4, <3>1, UserNext
  <2> QED
    BY <2>3, <2>4
<1>4. CASE ~Served(a) /\ ~Fresh(a)
  <2>1. a \in Spent /\ User[a] = NoId
    BY <1>1, <1>2, <1>4, UserNow DEF Fresh
  <2>2. ~Served(a)' /\ ~InPool(a)' /\ a <= next_id'
    BY <1>1, <1>2, <1>4, <2>1 DEF Gains, Served
  <2> QED
    BY <1>2, <2>1, <2>2, UserNext
<1>5. CASE ~Served(a) /\ Fresh(a)
  <2>1. a \notin Spent /\ User[a] = NoId
    BY <1>1, <1>2, <1>5, UserNow DEF Fresh
  <2>2. CASE Served(a)'
    <3>1. PICK s \in Sources : Serves(s, a)'
      BY <2>2 DEF Served
    <3> QED
      BY <1>2, <2>1, <2>2, <3>1, UserNext
  <2>3. CASE ~Served(a)'
    BY <2>1, <2>3, UserNext
  <2> QED
    BY <2>2, <2>3
<1> QED
  BY <1>3, <1>4, <1>5

\* Without a secondary pool client-tcp implements PrivateClients: a client is
\* made, given to one source, and never used for another.
THEOREM ImplementsPrivate ==
    ASSUME NoneReturns
    PROVE  Spec => ClientsPrivate
<1> DEFINE I == TypeInv /\ OwnershipInv /\ UseInv
<1>1. Init => Private!Init
  <2>1. SUFFICES ASSUME Init PROVE Private!Init
    OBVIOUS
  <2>2. \A a \in Adapters : ~Served(a) /\ ~(a <= next_id)
    BY <2>1 DEF Init, MapInit, AdapterInit, Served, Serves, NoCall, NoAdapter, Adapters
  <2> QED
    BY <2>2 DEF Private!Init
<1>2. I /\ I' /\ [Next]_vars => [Private!Next]_<<User, Spent>>
  <2>1. SUFFICES ASSUME I, I', [Next]_vars, NEW c \in Adapters
                 PROVE  Private!Give(c) \/ Private!Retire(c) \/ Private!Keep(c)
    BY DEF Private!Next
  <2>2. next_id <= next_id' /\ Gains(c)
    BY <2>1, UseStep
  <2>3. \/ User[c] = NoId /\ c \notin Spent /\ User'[c] \in Sources /\ c \notin Spent'
        \/ c \notin Spent /\ User'[c] = NoId /\ c \in Spent'
        \/ User'[c] = User[c] /\ (c \in Spent' <=> c \in Spent)
    BY <2>1, <2>2, PrivateStep DEF UseInv
  <2> QED
    BY <2>3 DEF Private!Give, Private!Retire, Private!Keep, User, Spent
<1>3. Spec => []I
  BY UseInvariance
<1> QED
  BY <1>1, <1>2, <1>3, PTL DEF Spec, ClientsPrivate, Private!Spec, User, Spent

-----------------------------------------------------------------------------
(* How a thread goes on                                                    *)

\* A thread that is in no call enters one.
Enters(u) ==
    \/ u \in Sources /\ (Connect(u) \/ Ask(u) \/ Disconnect(u))
    \/ u \in Workers /\ Take(u)
    \/ u = Main /\ RegisterWaiting

\* Only its own steps move a thread.
LEMMA OwnSteps ==
    ASSUME TypeInv, [Next]_vars, NEW u \in Threads
    PROVE  \/ pc'[u] = pc[u] /\ call'[u] = call[u]
           \/ CallStep(u)
           \/ Enters(u)
<1> DEFINE Still == pc'[u] = pc[u] /\ call'[u] = call[u]
<1> USE DEF threadVars
<1>1. ASSUME NEW t \in Threads, t # u, CallStep(t) PROVE Still
  <2>1. \A step, cli : /\ Goto(t, step) => pc'[u] = pc[u]
                       /\ With(t, cli, step) => Still
    BY <1>1 DEF Goto, With, TypeInv, TypeOK
  <2>2. Return(t) => Still
    BY <1>1 DEF Goto, Return, TypeInv, TypeOK
  <2>3. \A step : Goto(t, step) /\ UNCHANGED call => Still
    BY <2>1
  <2> HIDE DEF Still
  <2>4. CASE TestStarted(t) \/ Wait(t) \/ TestStopFlag(t) \/ AdapterRegIo(t)
             \/ AdapterUnregIo(t) \/ StopErased(t) \/ Send(t)
    BY <2>2, <2>3, <2>4 DEF TestStarted, Wait, TestStopFlag, AdapterRegIo, AdapterUnregIo,
                            StopErased, Send
  <2>5. CASE Find(t) \/ UpsertFind(t) \/ UpsertCreate(t)
    BY <2>1, <2>2, <2>3, <2>5 DEF Find, UpsertFind, UpsertCreate
  <2>6. CASE Erase(t) \/ Bind(t)
    BY <2>2, <2>3, <2>6 DEF Erase, Bind
  <2> QED
    BY <1>1, <2>4, <2>5, <2>6 DEF CallStep, MapStep
<1>2. ASSUME NEW t \in Threads, t # u, NEW op, NEW id, NEW step,
             Enter(t, op, id, step) \/ UNCHANGED threadVars
      PROVE  Still
  BY <1>2 DEF Enter, TypeInv, TypeOK
<1>3. ASSUME NEW s \in Sources, SourceStep(s), ~Enters(u) PROVE Still
  <2>0. s \in Threads
    BY DEF Threads
  <2>1. CASE Connect(s)
    BY <1>2, <1>3, <2>0, <2>1 DEF Connect, Enters
  <2>2. CASE Ask(s)
    <3>1. PICK op \in Messages : PerformIo(s, op, s)
      BY <2>2 DEF Ask
    <3> QED
      BY <1>2, <1>3, <2>0, <2>2, <3>1 DEF PerformIo, Enters
  <2>3. CASE Disconnect(s)
    BY <1>2, <1>3, <2>0, <2>3 DEF Disconnect, Enters
  <2>4. CASE Post(s) \/ Destroy(s) \/ \E a \in Adapters : Answer(a, s)
    BY <2>4 DEF Post, Destroy, Answer
  <2> QED
    BY <1>3, <2>1, <2>2, <2>3, <2>4 DEF SourceStep
<1>4. ASSUME NEW w \in Workers, Take(w), ~Enters(u) PROVE Still
  <2>1. w \in Threads
    BY DEF Threads
  <2>2. w # u
    BY <1>4 DEF Enters
  <2> QED
    BY <1>2, <1>4, <2>1, <2>2 DEF Take, PerformIo
<1>5. ASSUME RegisterWaiting, ~Enters(u) PROVE Still
  <2>1. Main \in Threads /\ Main # u
    BY <1>5 DEF Threads, Enters
  <2>2. PICK s \in todo : \/ suspended /\ UNCHANGED threadVars
                          \/ ~suspended /\ Enter(Main, "reg", s, "route")
    BY <1>5 DEF RegisterWaiting
  <2> QED
    BY <1>2, <2>1, <2>2
<1>6. ASSUME \/ StartRefused \/ Start \/ Stop \/ SetSuspend
             \/ SetStarted \/ LockWaitList \/ UnlockWaitList
      PROVE  Still
  BY <1>6 DEF StartRefused, Start, Stop, SetSuspend, SetStarted, LockWaitList, UnlockWaitList
<1>7. ASSUME Reconfigure \/ StopMap PROVE Still
  BY <1>7 DEF Reconfigure, StopMap, ListClients, StopListed, AllStopped, Rebuild,
              StartListed, LowerStopFlag, RaiseStopFlag, ClearAll
<1>8. CASE UNCHANGED vars
  BY <1>8 DEF vars
<1> HIDE DEF Still
<1> QED
  BY <1>1, <1>3, <1>4, <1>5, <1>6, <1>7, <1>8
     DEF Next, LifeCycleStep, Terminated, Still

\* A source comes up and goes away by its own calls.
LEMMA StageChange ==
    ASSUME TypeInv, [Next]_vars, NEW s \in Sources
    PROVE  \/ stage'[s] = stage[s]
           \/ Connect(s) /\ stage[s] = "new" /\ stage'[s] = "up"
           \/ Disconnect(s) /\ stage[s] = "up" /\ stage'[s] = "left"
<1> USE DEF sourceVars
<1>1. ASSUME NEW t \in Threads, CallStep(t) PROVE stage' = stage
  BY <1>1 DEF CallStep, TestStarted, Wait
<1>2. ASSUME NEW r \in Sources, SourceStep(r)
      PROVE  \/ stage'[s] = stage[s]
             \/ Connect(s) /\ stage[s] = "new" /\ stage'[s] = "up"
             \/ Disconnect(s) /\ stage[s] = "up" /\ stage'[s] = "left"
  <2>1. CASE Connect(r)
    BY <2>1 DEF Connect, TypeInv, TypeOK
  <2>2. CASE Disconnect(r)
    BY <2>2 DEF Disconnect, TypeInv, TypeOK
  <2>3. CASE Ask(r) \/ Post(r) \/ Destroy(r) \/ \E a \in Adapters : Answer(a, r)
    BY <2>3 DEF Ask, Post, Destroy, Answer
  <2> QED
    BY <1>2, <2>1, <2>2, <2>3 DEF SourceStep
<1>3. ASSUME NEW w \in Workers, Take(w) PROVE stage' = stage
  BY <1>3 DEF Take
<1>4. ASSUME \/ StartRefused \/ Start \/ Stop \/ SetSuspend
             \/ SetStarted \/ LockWaitList \/ RegisterWaiting \/ UnlockWaitList
             \/ Reconfigure \/ StopMap
      PROVE  stage' = stage
  BY <1>4 DEF StartRefused, Start, Stop, SetSuspend, SetStarted, LockWaitList,
              RegisterWaiting, UnlockWaitList, Reconfigure, StopMap
<1>5. CASE UNCHANGED vars
  BY <1>5 DEF vars
<1> QED
  BY <1>1, <1>2, <1>3, <1>4, <1>5 DEF Next, LifeCycleStep, Terminated

(***************************************************************************)
(* A thread that is in no call has no arguments, and a source makes its    *)
(* first call when it comes up.                                            *)
(***************************************************************************)
IdleInv ==
    /\ \A t \in Threads : pc[t] = "idle" => call[t] = NoCall
    /\ \A s \in Sources : stage[s] = "new" => pc[s] = "idle"

\* Whoever enters a call was in none and has no client yet.
LEMMA EntersFresh ==
    ASSUME TypeInv, IdleInv, NEW u \in Threads, Enters(u)
    PROVE  /\ pc[u] = "idle"
           /\ \/ pc'[u] = pc[u] /\ call'[u] = call[u]
              \/ pc'[u] \in {"route", "flag"} /\ call'[u].cli = NoAdapter
<1>1. \A op, id, step : Enter(u, op, id, step) =>
          pc'[u] = step /\ call'[u].cli = NoAdapter
  BY DEF Enter, TypeInv, TypeOK
<1> USE DEF threadVars
<1>2. CASE u \in Sources /\ Connect(u)
  <2>1. pc[u] = "idle"
    BY <1>2 DEF Connect, IdleInv
  <2> QED
    BY <1>1, <1>2, <2>1 DEF Connect
<1>3. CASE u \in Sources /\ Ask(u)
  BY <1>1, <1>3 DEF Ask, CanAsk, PerformIo
<1>4. CASE u \in Sources /\ Disconnect(u)
  BY <1>1, <1>4 DEF Disconnect
<1>5. CASE u \in Workers /\ Take(u)
  BY <1>1, <1>5 DEF Take, PerformIo
<1>6. CASE u = Main /\ RegisterWaiting
  BY <1>1, <1>6 DEF RegisterWaiting
<1> QED
  BY <1>2, <1>3, <1>4, <1>5, <1>6 DEF Enters

\* A step of a call leaves it through Return only.
LEMMA CallStepStays ==
    ASSUME TypeInv, NEW t \in Threads, CallStep(t)
    PROVE  pc[t] # "idle" /\ (pc'[t] = "idle" => call'[t] = NoCall)
<1>1. \A step, cli : With(t, cli, step) \/ Goto(t, step) => pc'[t] = step
  BY DEF With, Goto, TypeInv, TypeOK
<1>2. Return(t) => call'[t] = NoCall
  BY DEF Return, TypeInv, TypeOK
<1>3. CASE TestStarted(t) \/ Wait(t) \/ TestStopFlag(t) \/ AdapterRegIo(t)
           \/ AdapterUnregIo(t) \/ StopErased(t) \/ Send(t)
  BY <1>1, <1>2, <1>3 DEF TestStarted, Wait, TestStopFlag, AdapterRegIo, AdapterUnregIo,
                          StopErased, Send
<1>4. CASE Find(t) \/ UpsertFind(t) \/ UpsertCreate(t)
  BY <1>1, <1>2, <1>4 DEF Find, UpsertFind, UpsertCreate, Deliver
<1>5. CASE Erase(t) \/ Bind(t)
  BY <1>1, <1>2, <1>5 DEF Erase, Bind
<1> QED
  BY <1>3, <1>4, <1>5 DEF CallStep, MapStep

LEMMA IdleStep ==
    ASSUME TypeInv, IdleInv, [Next]_vars
    PROVE  IdleInv'
<1>1. ASSUME NEW t \in Threads, pc'[t] = "idle" PROVE call'[t] = NoCall
  BY <1>1, OwnSteps, EntersFresh, CallStepStays DEF IdleInv
<1>2. ASSUME NEW s \in Sources, stage'[s] = "new" PROVE pc'[s] = "idle"
  <2>1. s \in Threads /\ s \notin Workers /\ s # Main
    BY DEF Threads
  <2>2. stage[s] = "new" /\ pc[s] = "idle"
    BY <1>2, StageChange DEF IdleInv
  <2>3. ~Connect(s) /\ ~Ask(s) /\ ~Disconnect(s)
    BY <1>2, <2>2 DEF Connect, Ask, CanAsk, Disconnect, TypeInv, TypeOK
  <2>4. ~CallStep(s)
    BY <2>1, <2>2, CallStepStays
  <2> QED
    BY <2>1, <2>2, <2>3, <2>4, OwnSteps DEF Enters
<1> QED
  BY <1>1, <1>2 DEF IdleInv

LEMMA IdleInvariance == Spec => []IdleInv
<1>1. Init => IdleInv
  BY DEF Init, MapInit, IdleInv, Threads
<1>2. TypeInv /\ IdleInv /\ [Next]_vars => IdleInv'
  BY IdleStep
<1> QED
  BY <1>1, <1>2, TypeInvariance, PTL DEF Spec

-----------------------------------------------------------------------------
(* Adapters in use run with the current configuration                      *)

(***************************************************************************)
(* An adapter that unreg_io is about to stop is nobody's, and nobody else  *)
(* is about to give it back.                                               *)
(***************************************************************************)
DiscardInv ==
    \A t \in Threads : pc[t] = "astop" =>
        /\ ~Owned(call[t].cli)
        /\ \A u \in Threads : Giving(u) => call[u].cli # call[t].cli

\* Where an adapter that somebody owns comes from.
LEMMA RebuildNew ==
    ASSUME TypeInv, Rebuild, NEW a \in Adapters, Owned(a)'
    PROVE  /\ a > next_id
           /\ \E i \in DOMAIN listed' : listed'[i] = a
<1> DEFINE n == Cardinality(Used)
           m(o) == IF startup_flag THEN o.startup ELSE 0
           last(o) == next_id + n + o.primary + m(o)
<1>1. PICK o \in Options :
          /\ \E f \in [Used -> next_id + 1 .. next_id + n] :
               clients' = [s \in Sources |-> IF s \in Used THEN f[s] ELSE NoAdapter]
          /\ pool' = [startup |-> NewPool(next_id + n + o.primary, m(o)),
                      primary |-> NewPool(next_id + n, o.primary),
                      secondary |-> <<>>]
          /\ listed' = NewPool(next_id, last(o) - next_id)
  BY DEF Rebuild
<1>2. n \in Nat /\ next_id \in Nat /\ m(o) \in Nat /\ o.primary \in Nat /\ a \in Nat \ {0}
  BY UsedCount, OptionsAssumption DEF PoolSizes, TypeInv, TypeOK, AdapterTypeOK, Adapters
<1> HIDE DEF n, m
<1>3. \A s \in Sources : clients'[s] = a => a > next_id /\ a <= last(o)
  BY <1>1, <1>2 DEF NoAdapter
<1>4. InPool(a)' => a > next_id /\ a <= last(o)
  <2>1. SUFFICES ASSUME In(pool', a) PROVE a > next_id /\ a <= last(o)
    BY OwnershipParts
  <2>2. PICK q \in PoolNames : \E i \in DOMAIN pool'[q] : pool'[q][i] = a
    BY <1>1, <2>1 DEF In, PoolNames
  <2>3. CASE q = "startup"
    BY <1>1, <1>2, <2>2, <2>3 DEF NewPool
  <2>4. CASE q = "primary"
    BY <1>1, <1>2, <2>2, <2>4 DEF NewPool
  <2>5. CASE q = "secondary"
    BY <1>1, <2>2, <2>5
  <2> QED
    BY <2>2, <2>3, <2>4, <2>5 DEF PoolNames
<1>5. a > next_id /\ a <= last(o)
  BY <1>3, <1>4 DEF Owned
<1>6. last(o) - next_id \in Nat /\ a - next_id \in 1 .. last(o) - next_id
  BY <1>2, <1>5
<1> HIDE DEF last
<1>7. /\ DOMAIN listed' = 1 .. last(o) - next_id
      /\ listed'[a - next_id] = next_id + (a - next_id)
  BY <1>1, <1>6 DEF NewPool
<1> QED
  BY <1>2, <1>5, <1>6, <1>7

Returns(t) == Erase(t) /\ pool' # pool

LEMMA OwnedGrows ==
    ASSUME TypeInv, OwnershipInv, [Next]_vars, NEW a \in Adapters, Owned(a)'
    PROVE  Owned(a) \/ a > next_id \/ \E t \in Threads : Returns(t) /\ a = call[t].cli
<1>0. a # NoAdapter
  BY DEF Adapters, NoAdapter
<1>1. CASE UNCHANGED <<clients, pool, next_id, opt>>
  BY <1>1, OwnershipParts DEF Owned
<1>2. ASSUME NEW t \in Threads, UpsertCreate(t) PROVE Owned(a) \/ a > next_id
  <2>1. PICK cli \in Adapters :
            /\ TakeStartup(cli) \/ TakeSecondary(cli) \/ TakePrimary(cli) \/ TakeNew(cli)
            /\ Insert(call[t].id, cli)
    BY <1>2 DEF UpsertCreate
  <2>2. /\ In(pool, cli) \/ cli > next_id
        /\ In(pool', a) => In(pool, a) \/ a > next_id
    BY <2>1, CreateTakes
  <2>3. \A s \in Sources : clients'[s] \in {clients[s], cli}
    BY <2>1 DEF Insert, TypeInv, TypeOK
  <2> QED
    BY <2>2, <2>3, OwnershipParts DEF Owned
<1>3. ASSUME NEW t \in Threads, Erase(t)
      PROVE  Owned(a) \/ (Returns(t) /\ a = call[t].cli)
  <2>1. \A s \in Sources : clients'[s] \in {clients[s], NoAdapter}
    BY <1>3 DEF Erase, TypeInv, TypeOK
  <2>2. call[t].cli \in Adapters /\ ~In(pool, call[t].cli)
    BY <1>3, ClientCall, OwnershipParts
       DEF Erase, ClientSteps, OwnershipInv, HeldApart, Giving
  <2>3. pool \in Pools /\ Distinct(pool)
    BY OwnershipParts DEF TypeInv, TypeOK, Pools, OwnershipInv, ExclusiveOwnership
  <2>4. \/ pool' = pool
        \/ pool' = [pool EXCEPT !.secondary = Append(@, call[t].cli)]
    BY <1>3 DEF Erase
  <2>5. In(pool', a) => In(pool, a) \/ (a = call[t].cli /\ pool' # pool)
    BY <2>2, <2>3, <2>4, PushBack DEF PoolNames
  <2> QED
    BY <1>0, <1>3, <2>1, <2>5, OwnershipParts DEF Owned, Returns
<1>4. CASE Rebuild
  BY <1>4, RebuildNew
<1>5. CASE ClearAll
  <2>1. ~In(pool', a) /\ \A s \in Sources : clients'[s] # a
    BY <1>0, <1>5 DEF ClearAll, In
  <2> QED
    BY <2>1, OwnershipParts DEF Owned
<1> QED
  BY <1>1, <1>2, <1>3, <1>4, <1>5, MapChange

\* A thread comes to give an adapter back by finding it in _clients, and to
\* stop one by not giving it back.
LEMMA GivingChange ==
    ASSUME TypeInv, IdleInv, [Next]_vars, NEW u \in Threads
    PROVE  /\ Giving(u)' => \/ Giving(u) /\ call'[u].cli = call[u].cli
                            \/ /\ call[u].id \in Sources
                               /\ call'[u].cli = clients[call[u].id]
           /\ pc'[u] = "astop" => \/ pc[u] = "astop" /\ call'[u] = call[u]
                                  \/ Erase(u) /\ ~Returns(u) /\ call'[u] = call[u]
<1>1. CASE pc'[u] = pc[u] /\ call'[u] = call[u]
  BY <1>1 DEF Giving
<1>2. CASE Enters(u)
  BY <1>1, <1>2, EntersFresh DEF Giving
<1>3. CASE CallStep(u)
  <2>1. \A step, cli : With(u, cli, step) \/ Goto(u, step) => pc'[u] = step
    BY DEF With, Goto, TypeInv, TypeOK
  <2>2. Return(u) => pc'[u] = "idle"
    BY <2>1 DEF Return
  <2>3. CASE Find(u)
    <3>1. call[u] \in Calls /\ call[u] # NoCall
      BY <2>3 DEF Find, TypeInv, TypeOK, CallsOK, CallOK
    <3>2. call[u].id \in Sources
      BY <3>1, CallFields
    <3>3. \A step : With(u, clients[call[u].id], step) => call'[u].cli = clients[call[u].id]
      BY <3>1 DEF With, TypeInv, TypeOK, Calls, NoCall
    <3> QED
      BY <2>1, <2>2, <2>3, <3>2, <3>3 DEF Find, Giving
  <2>4. CASE AdapterUnregIo(u)
    BY <2>1, <2>4 DEF AdapterUnregIo, Giving
  <2>5. CASE Erase(u)
    BY <2>1, <2>2, <2>5 DEF Erase, Giving, Returns
  <2>6. CASE TestStarted(u) \/ Wait(u) \/ TestStopFlag(u) \/ AdapterRegIo(u)
             \/ StopErased(u) \/ Bind(u) \/ Send(u)
    BY <2>1, <2>2, <2>6 DEF TestStarted, Wait, TestStopFlag, AdapterRegIo, StopErased, Bind,
                            Send, Giving
  <2>7. CASE UpsertFind(u) \/ UpsertCreate(u)
    BY <2>1, <2>2, <2>7 DEF UpsertFind, UpsertCreate, Deliver, Giving
  <2> QED
    BY <1>3, <2>3, <2>4, <2>5, <2>6, <2>7 DEF CallStep, MapStep
<1> QED
  BY <1>1, <1>2, <1>3, OwnSteps

LEMMA DiscardStep ==
    ASSUME TypeInv, OwnershipInv, IdleInv, DiscardInv, [Next]_vars
    PROVE  DiscardInv'
<1>1. SUFFICES ASSUME NEW t \in Threads, pc'[t] = "astop"
               PROVE  /\ ~Owned(call[t].cli)'
                      /\ \A u \in Threads : Giving(u)' => call'[u].cli # call'[t].cli
  BY DEF DiscardInv
<1>2. /\ call'[t] = call[t]
      /\ pc[t] = "astop" \/ (Erase(t) /\ ~Returns(t))
  BY <1>1, GivingChange
<1>3. PICK a \in Adapters : a = call[t].cli /\ a # NoAdapter
  BY <1>2, ClientCall DEF Erase, ClientSteps, Adapters, NoAdapter
<1>4. a \in Nat /\ next_id \in Nat /\ a <= next_id
  BY <1>3, CallNumbers DEF TypeInv, TypeOK, AdapterTypeOK
<1>5. CASE pc[t] = "astop"
  <2>1. ~Owned(a) /\ \A u \in Threads : Giving(u) => call[u].cli # a
    BY <1>3, <1>5 DEF DiscardInv
  <2>2. ~ \E u \in Threads : Returns(u) /\ a = call[u].cli
    BY <2>1 DEF Returns, Erase, Giving
  <2>3. ~Owned(a)'
    BY <1>3, <1>4, <2>1, <2>2, OwnedGrows
  <2>4. \A u \in Threads : Giving(u)' => call'[u].cli # a
    BY <1>3, <2>1, GivingChange DEF Owned
  <2> QED
    BY <1>2, <1>3, <2>3, <2>4 DEF Owned, InPool
<1>6. CASE Erase(t) /\ ~Returns(t)
  <2>1. /\ ~InPool(a)
        /\ \A s \in Sources : clients[s] = a => s = t
        /\ \A u \in Threads : Giving(u) /\ call[u].cli = a => u = t
    BY <1>3, <1>6 DEF OwnershipInv, HeldApart, Giving, Erase
  <2>2. call[t].id = t /\ t \in Sources
    BY <1>6, ClientCall DEF Erase, ClientSteps, TypeInv, CallsOK, CallOK
  <2>3. /\ \A s \in Sources : clients'[s] # a
        /\ pool' = pool
    BY <1>3, <1>6, <2>1, <2>2 DEF Erase, Returns, TypeInv, TypeOK
  <2>4. ~Owned(a)'
    BY <2>1, <2>3, OwnershipParts DEF Owned
  <2>5. ASSUME NEW u \in Threads, Giving(u)', call'[u].cli = a PROVE FALSE
    <3>1. u # t
      BY <1>1, <2>5 DEF Giving
    <3>2. pc'[u] = pc[u] /\ call'[u] = call[u]
      BY <1>6, <3>1 DEF Erase, Return, Goto, TypeInv, TypeOK
    <3> QED
      BY <2>1, <2>5, <3>1, <3>2 DEF Giving
  <2> QED
    BY <1>2, <1>3, <2>4, <2>5 DEF Owned, InPool
<1> QED
  BY <1>2, <1>5, <1>6

Current(a) == adapter[a].life = "started" /\ adapter[a].options = gen

(***************************************************************************)
(* While a restart starts its list, what somebody owns is started or on    *)
(* the list; before the list is made anew, old adapters may be stopped.    *)
(***************************************************************************)
CurrentInv ==
    opt.secondary = 0 =>
        /\ phase \in Settled =>
             \A a \in Adapters : Owned(a) => Current(a)
        /\ phase = "start_clients" =>
             \A a \in Adapters : Owned(a) =>
                 Current(a) \/ \E i \in DOMAIN listed : listed[i] = a

LEMMA LifeOperations ==
    ASSUME NEW ad \in AdapterState, NEW g \in Nat, NEW id \in Sources
    PROVE  /\ Started(ad, g).life = "started" /\ Started(ad, g).options = g
           /\ Started(Made, g).life = "started" /\ Started(Made, g).options = g
           /\ \A x \in {RegisteredTo(ad, id), Wrapped(ad, id), UnregisteredFrom(ad, id)} :
                 x.life = ad.life /\ x.options = ad.options
  BY DEF Started, Made, Unmade, RegisteredTo, Wrapped, UnregisteredFrom, AdapterState

SameLife(a) ==
    /\ gen' = gen
    /\ adapter'[a].life = adapter[a].life
    /\ adapter'[a].options = adapter[a].options

\* What a call makes is started, and what it stops belongs to nobody.
LEMMA CallKeepsLife ==
    ASSUME TypeInv, DiscardInv, NEW t \in Threads, CallStep(t),
           NEW a \in Adapters, Owned(a), a <= next_id
    PROVE  SameLife(a)
<1>1. /\ adapter \in [Adapters -> AdapterState] /\ adapter[a] \in AdapterState
      /\ gen \in Nat /\ next_id \in Nat /\ a \in Nat
  BY DEF TypeInv, TypeOK, AdapterTypeOK, Adapters
<1>2. gen' = gen
  BY DEF CallStep, TestStarted, Wait, MapStep, TestStopFlag, Find, UpsertFind, UpsertCreate,
         AdapterRegIo, AdapterUnregIo, Erase, StopErased, Bind, Send, mapVars
<1>3. ASSUME adapter' = adapter PROVE SameLife(a)
  BY <1>2, <1>3 DEF SameLife
<1>4. CASE UpsertCreate(t)
  <2>1. PICK cli \in Adapters :
            TakeStartup(cli) \/ TakeSecondary(cli) \/ TakePrimary(cli) \/ TakeNew(cli)
    BY <1>4 DEF UpsertCreate
  <2>2. ASSUME NEW b, MakeStarted(b) PROVE adapter'[a] = adapter[a]
    BY <1>1, <2>2 DEF MakeStarted
  <2> QED
    BY <1>2, <2>1, <2>2
       DEF TakeStartup, TakeSecondary, TakePrimary, TakeNew, SameLife
<1>5. CASE AdapterRegIo(t) \/ AdapterUnregIo(t) \/ Bind(t)
  <2> DEFINE b == call[t].cli
             id == call[t].id
  <2>1. b \in Adapters /\ id \in Sources /\ adapter[b] \in AdapterState
    BY <1>5, ClientCall DEF AdapterRegIo, AdapterUnregIo, Bind, ClientSteps
  <2>2. \A x \in {RegisteredTo(adapter[b], id), Wrapped(adapter[b], id),
                  UnregisteredFrom(adapter[b], id)} :
           x.life = adapter[b].life /\ x.options = adapter[b].options
    BY <1>1, <2>1, LifeOperations
  <2>3. \/ adapter' = adapter
        \/ \E x \in {RegisteredTo(adapter[b], id), Wrapped(adapter[b], id),
                     UnregisteredFrom(adapter[b], id)} :
             adapter' = [adapter EXCEPT ![b] = x]
    BY <1>5 DEF AdapterRegIo, AdapterUnregIo, Bind
  <2> HIDE DEF b, id
  <2> QED
    BY <1>1, <1>2, <2>1, <2>2, <2>3 DEF SameLife
<1>6. CASE StopErased(t)
  <2>1. call[t].cli # a
    BY <1>6 DEF StopErased, DiscardInv
  <2> QED
    BY <1>1, <1>2, <1>6, <2>1 DEF StopErased, StopAdapter, SameLife
<1> QED
  BY <1>3, <1>4, <1>5, <1>6
     DEF CallStep, TestStarted, Wait, MapStep, TestStopFlag, Find, UpsertFind, Erase, Send,
         adapterVars

LEMMA LifeKept ==
    ASSUME TypeInv, DiscardInv, [Next]_vars, ~Rebuild, phase \in Settled \cup {"start_clients"},
           NEW a \in Adapters, Owned(a), a <= next_id
    PROVE  \/ SameLife(a) /\ (StartListed => a # Head(listed))
           \/ StartListed /\ Current(a)'
<1>1. adapter \in [Adapters -> AdapterState] /\ gen \in Nat
  BY DEF TypeInv, TypeOK, AdapterTypeOK
<1>2. CASE StartListed
  <2>1. adapter[a] \in AdapterState /\ gen' = gen
    BY <1>1, <1>2 DEF StartListed, mapVars
  <2>2. a = Head(listed) => adapter'[a] = Started(adapter[a], gen)
    BY <1>1, <1>2 DEF StartListed
  <2>3. a # Head(listed) => adapter'[a] = adapter[a]
    BY <1>1, <1>2 DEF StartListed
  <2>4. Started(adapter[a], gen).life = "started" /\ Started(adapter[a], gen).options = gen
    BY DEF Started, AdapterState, TypeInv, TypeOK, AdapterTypeOK
  <2> QED
    BY <1>2, <2>1, <2>2, <2>3, <2>4 DEF SameLife, Current
<1>3. ASSUME ~StartListed PROVE SameLife(a)
  <2> USE DEF adapterVars, mapVars
  <2>1. ASSUME NEW t \in Threads, CallStep(t) PROVE SameLife(a)
    BY <2>1, CallKeepsLife
  <2>2. ASSUME UNCHANGED <<adapter, gen>> PROVE SameLife(a)
    BY <2>2 DEF SameLife
  <2>3. ASSUME NEW s \in Sources, SourceStep(s) PROVE SameLife(a)
    BY <2>2, <2>3
       DEF SourceStep, Connect, Ask, Post, Disconnect, Destroy, Answer, Answered
  <2>4. ASSUME NEW w \in Workers, Take(w) PROVE SameLife(a)
    BY <2>2, <2>4 DEF Take
  <2>5. ASSUME \/ StartRefused \/ Start \/ Stop \/ SetSuspend
               \/ SetStarted \/ LockWaitList \/ RegisterWaiting \/ UnlockWaitList
        PROVE  SameLife(a)
    BY <2>2, <2>5 DEF StartRefused, Start, Stop, SetSuspend, SetStarted, LockWaitList,
                      RegisterWaiting, UnlockWaitList
  <2>6. ASSUME Reconfigure \/ StopMap PROVE SameLife(a)
    <3>1. ~StopListed("stop_clients") /\ ~StopListed("final_stop")
      BY DEF StopListed, Settled
    <3> QED
      BY <1>3, <2>2, <2>6, <3>1 DEF Reconfigure, StopMap, ListClients, AllStopped,
                                  LowerStopFlag, RaiseStopFlag, ClearAll
  <2>7. CASE UNCHANGED vars
    BY <2>2, <2>7 DEF vars
  <2> QED
    BY <2>1, <2>3, <2>4, <2>5, <2>6, <2>7 DEF Next, LifeCycleStep, Terminated
<1> QED
  BY <1>2, <1>3

\* The configuration of Main's phases.
LEMMA PhaseChange ==
    ASSUME [Next]_vars
    PROVE  \/ phase' = phase /\ (listed' = listed \/ StartListed
                                   \/ StopListed("stop_clients") \/ StopListed("final_stop"))
           \/ phase' \notin Settled \cup {"start_clients"}
           \/ Rebuild
           \/ phase = "start_clients" /\ listed = <<>> /\ phase' \in {"running", "set_started"}
           \/ phase \in Settled /\ phase' \in Settled
<1> USE DEF mainVars
<1>1. ASSUME NEW t \in Threads, CallStep(t) PROVE UNCHANGED <<phase, listed>>
  BY <1>1 DEF CallStep, TestStarted, Wait, MapStep, TestStopFlag, Find, UpsertFind, UpsertCreate,
              AdapterRegIo, AdapterUnregIo, Erase, StopErased, Bind, Send
<1>2. ASSUME NEW s \in Sources, SourceStep(s) PROVE UNCHANGED <<phase, listed>>
  BY <1>2 DEF SourceStep, Connect, Ask, Post, Disconnect, Destroy, Answer
<1>3. ASSUME NEW w \in Workers, Take(w) PROVE UNCHANGED <<phase, listed>>
  BY <1>3 DEF Take
<1>4. ASSUME StartRefused \/ SetStarted \/ LockWaitList \/ UnlockWaitList
      PROVE  phase \in Settled /\ phase' \in Settled
  BY <1>4 DEF StartRefused, SetStarted, LockWaitList, UnlockWaitList, Settled
<1>5. ASSUME Start \/ Stop PROVE phase' \notin Settled \cup {"start_clients"}
  BY <1>5 DEF Start, Stop, Settled
<1>6. ASSUME SetSuspend \/ RegisterWaiting PROVE UNCHANGED <<phase, listed>>
  BY <1>6 DEF SetSuspend, RegisterWaiting
<1>7. ASSUME Reconfigure, ~Rebuild
      PROVE  \/ StopListed("stop_clients") /\ phase' = phase
             \/ StartListed /\ phase' = phase
             \/ phase' \notin Settled \cup {"start_clients"}
             \/ phase = "start_clients" /\ listed = <<>> /\ phase' \in {"running", "set_started"}
  BY <1>7 DEF Reconfigure, ListClients, StopListed, AllStopped, StartListed, LowerStopFlag,
              Settled
<1>8. ASSUME StopMap
      PROVE  \/ StopListed("final_stop") /\ phase' = phase
             \/ phase' \notin Settled \cup {"start_clients"}
  BY <1>8 DEF StopMap, RaiseStopFlag, ListClients, StopListed, AllStopped, ClearAll, Settled
<1>9. CASE UNCHANGED vars
  BY <1>9 DEF vars
<1> QED
  BY <1>1, <1>2, <1>3, <1>4, <1>5, <1>6, <1>7, <1>8, <1>9 DEF Next, LifeCycleStep, Terminated

\* A new adapter that is owned outside a restart was made and started by create_.
LEMMA NewIsCurrent ==
    ASSUME TypeInv, [Next]_vars, ~Rebuild, TypeInv',
           NEW a \in Adapters, a > next_id, a <= next_id'
    PROVE  Current(a)'
<1>1. adapter \in [Adapters -> AdapterState] /\ gen \in Nat /\ next_id \in Nat /\ next_id' \in Nat
      /\ a \in Nat
  BY DEF TypeInv, TypeOK, AdapterTypeOK, Adapters
<1>2. PICK t \in Threads : UpsertCreate(t)
  BY <1>1, MapChange DEF Erase, ClearAll, adapterVars
<1>3. PICK cli \in Adapters :
          TakeStartup(cli) \/ TakeSecondary(cli) \/ TakePrimary(cli) \/ TakeNew(cli)
  BY <1>2 DEF UpsertCreate
<1>4. PICK b \in Adapters : MakeStarted(b)
  BY <1>1, <1>3 DEF TakeStartup, TakeSecondary, TakePrimary, TakeNew
<1>5. a = b /\ adapter'[a] = Started(Made, gen) /\ gen' = gen
  BY <1>1, <1>2, <1>4 DEF MakeStarted, UpsertCreate
<1>6. Started(Made, gen).life = "started" /\ Started(Made, gen).options = gen
  BY DEF Started, Made, Unmade
<1> QED
  BY <1>5, <1>6 DEF Current

LEMMA CurrentStep ==
    ASSUME TypeInv, OwnershipInv, DiscardInv, CurrentInv, TypeInv', OwnershipInv', [Next]_vars
    PROVE  CurrentInv'
<1>1. CASE Rebuild
  <2>1. phase' = "start_clients"
    BY <1>1 DEF Rebuild
  <2> QED
    BY <1>1, <2>1, RebuildNew DEF CurrentInv, Settled
<1>2. CASE ~Rebuild
  <2>1. SUFFICES ASSUME opt'.secondary = 0, phase' \in Settled \cup {"start_clients"},
                        NEW a \in Adapters, Owned(a)'
                 PROVE  \/ Current(a)'
                        \/ phase' = "start_clients" /\ \E i \in DOMAIN listed' : listed'[i] = a
    BY DEF CurrentInv, Settled
  <2>2. opt' = opt /\ phase \in Settled \cup {"start_clients"}
    BY <1>2, <2>1, MapChange, PhaseChange DEF UpsertCreate, Erase, ClearAll
  <2>3. \A t \in Threads : ~Returns(t)
    <3>1. Len(pool.secondary) \in Nat
      BY DEF TypeInv, TypeOK
    <3> QED
      BY <2>1, <2>2, <3>1 DEF Returns, Erase
  <2>4. /\ next_id \in Nat /\ next_id' \in Nat /\ a \in Nat /\ a <= next_id'
        /\ listed \in Seq(Adapters)
    BY <2>1 DEF TypeInv, TypeOK, AdapterTypeOK, Adapters, OwnershipInv, Numbered, Owned
  <2>5. CASE a > next_id
    BY <1>2, <2>4, <2>5, NewIsCurrent
  <2>6. CASE a <= next_id
    <3>1. Owned(a)
      BY <2>1, <2>3, <2>4, <2>6, OwnedGrows
    <3>2. CASE Current(a)
      BY <1>2, <2>2, <2>6, <3>1, <3>2, LifeKept DEF SameLife, Current
    <3>3. CASE ~Current(a)
      <4>1. phase = "start_clients" /\ \E i \in DOMAIN listed : listed[i] = a
        BY <2>1, <2>2, <3>1, <3>3 DEF CurrentInv
      <4>2. phase' = phase /\ (listed' = listed \/ StartListed)
        <5>1. listed # <<>>
          BY <4>1
        <5> QED
          BY <1>2, <2>1, <4>1, <5>1, PhaseChange DEF StopListed, Settled
      <4>3. CASE listed' = listed
        BY <4>1, <4>2, <4>3
      <4>4. CASE StartListed /\ a # Head(listed)
        <5>1. PICK i \in DOMAIN listed : listed[i] = a
          BY <4>1
        <5>2. i \in 1 .. Len(listed) /\ i # 1 /\ listed' = Tail(listed)
          BY <2>4, <4>4, <5>1 DEF StartListed
        <5>3. i - 1 \in DOMAIN listed' /\ listed'[i - 1] = a
          BY <2>4, <5>1, <5>2
        <5> QED
          BY <4>1, <4>2, <5>3
      <4>5. CASE StartListed /\ a = Head(listed)
        BY <1>2, <2>2, <2>6, <3>1, <4>5, LifeKept
      <4> QED
        BY <4>2, <4>3, <4>4, <4>5
    <3> QED
      BY <3>2, <3>3
  <2> QED
    BY <2>4, <2>5, <2>6
<1> QED
  BY <1>1, <1>2

\* Outside restart and stop, when no client comes back to a pool, every client
\* that serves a source or waits in a pool runs, and with the configuration of
\* the last restart, whatever sources and threads of a queue did meanwhile.
THEOREM OwnedAreCurrent == Spec => []OwnedClientsAreCurrent
<1>1. Init => DiscardInv /\ CurrentInv
  <2>1. SUFFICES ASSUME Init PROVE DiscardInv /\ CurrentInv
    OBVIOUS
  <2>2. \A a \in Adapters : ~Owned(a)
    BY <2>1 DEF Init, MapInit, Owned, InPool, Adapters, NoAdapter
  <2>3. phase = "initialized" /\ \A t \in Threads : pc[t] = "idle"
    BY <2>1 DEF Init, MapInit
  <2> QED
    BY <2>2, <2>3 DEF DiscardInv, CurrentInv
<1>2. /\ TypeInv /\ OwnershipInv /\ IdleInv /\ (TypeInv /\ OwnershipInv)'
      /\ DiscardInv /\ CurrentInv /\ [Next]_vars
      => (DiscardInv /\ CurrentInv)'
  BY DiscardStep, CurrentStep
<1>3. CurrentInv => OwnedClientsAreCurrent
  BY DEF CurrentInv, OwnedClientsAreCurrent, Current
<1> QED
  BY <1>1, <1>2, <1>3, AllInvariance, IdleInvariance, PTL DEF Spec

=============================================================================
