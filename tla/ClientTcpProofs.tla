-------------------------- MODULE ClientTcpProofs ---------------------------
(***************************************************************************)
(* Theorems about client-tcp, for any sources, workers, options and        *)
(* bounds: every behaviour is well typed, and no adapter ever has two      *)
(* owners.                                                                 *)
(***************************************************************************)
EXTENDS ClientTcp, FiniteSetTheorems, TLAPS

-----------------------------------------------------------------------------
(* Type correctness                                                        *)

TypeInv == TypeOK /\ CallsOK

USE SourcesAssumption, AdaptersAssumption, ThreadsAssumption

\* The operations of an adapter keep its members in their types.
LEMMA AdapterLives ==
    ASSUME NEW ad \in AdapterState, NEW g \in Nat
    PROVE  /\ Unmade \in AdapterState
           /\ Made \in AdapterState
           /\ Started(Made, g) \in AdapterState
           /\ Started(ad, g) \in AdapterState
           /\ Stopped(ad) \in AdapterState
<1>1. Unmade \in AdapterState
  BY DEF Unmade, AdapterState
<1>2. Made \in AdapterState
  BY <1>1 DEF Made, AdapterState
<1>3. \A x \in AdapterState : Started(x, g) \in AdapterState /\ Stopped(x) \in AdapterState
  BY DEF Started, Stopped, AdapterState
<1> QED
  BY <1>1, <1>2, <1>3

LEMMA AdapterOperations ==
    ASSUME NEW ad \in AdapterState, NEW s \in Sources
    PROVE  /\ RegisteredTo(ad, s) \in AdapterState
           /\ UnregisteredFrom(ad, s) \in AdapterState
           /\ Wrapped(ad, s) \in AdapterState
<1>1. RegisteredTo(ad, s) \in AdapterState /\ Wrapped(ad, s) \in AdapterState
  BY DEF RegisteredTo, Wrapped, AdapterState
<1>2. UnregisteredFrom(ad, s) \in AdapterState
  BY DEF UnregisteredFrom, AdapterState
<1> QED
  BY <1>1, <1>2

\* A call in progress names a source and an operation.
LEMMA CallFields ==
    ASSUME NEW c \in Calls, c # NoCall
    PROVE  /\ c.id \in Sources
           /\ c.op \in Operations
           /\ c.cli \in Adapters \cup {NoAdapter}
           /\ \A a \in Adapters \cup {NoAdapter} : [c EXCEPT !.cli = a] \in Calls
           /\ \A a : [c EXCEPT !.cli = a] # NoCall
  BY DEF Calls, NoCall, Operations, Sends

\* The invariant speaks of the state only.
LEMMA TypeStutter == TypeInv /\ UNCHANGED vars => TypeInv'
  BY DEF TypeInv, TypeOK, CallsOK, CallOK, AdapterTypeOK, vars, adapterVars,
         mapVars, threadVars, mainVars, ownVars, sourceVars

\* Threads that go on inside a call, return from it or enter one.
LEMMA GotoType ==
    ASSUME TypeInv, NEW t \in Threads, NEW step \in Steps \ ClientSteps,
           pc[t] # "idle", step # "idle", Goto(t, step), UNCHANGED call
    PROVE  pc' \in [Threads -> Steps] /\ call' \in [Threads -> Calls] /\ CallsOK'
<1>1. pc' \in [Threads -> Steps] /\ call' \in [Threads -> Calls]
  BY DEF TypeInv, TypeOK, Goto
<1>2. ASSUME NEW u \in Threads PROVE CallOK(u)'
  BY DEF TypeInv, TypeOK, CallsOK, CallOK, Goto, ClientSteps
<1> QED
  BY <1>1, <1>2 DEF CallsOK

LEMMA ReturnType ==
    ASSUME TypeInv, NEW t \in Threads, Return(t)
    PROVE  pc' \in [Threads -> Steps] /\ call' \in [Threads -> Calls] /\ CallsOK'
<1>1. pc' \in [Threads -> Steps] /\ call' \in [Threads -> Calls]
  BY DEF TypeInv, TypeOK, Return, Goto, Steps, Calls
<1>2. ASSUME NEW u \in Threads PROVE CallOK(u)'
  BY DEF TypeInv, TypeOK, CallsOK, CallOK, Return, Goto, ClientSteps, NoCall, Calls
<1> QED
  BY <1>1, <1>2 DEF CallsOK

LEMMA WithType ==
    ASSUME TypeInv, NEW t \in Threads, NEW step \in ClientSteps,
           NEW cli \in Adapters,
           pc[t] # "idle", With(t, cli, step),
           step \in {"aunreg", "erase", "astop"} => call[t].op = "unreg"
    PROVE  pc' \in [Threads -> Steps] /\ call' \in [Threads -> Calls] /\ CallsOK'
<1>1. call[t] \in Calls /\ call[t] # NoCall
  BY DEF TypeInv, TypeOK, CallsOK, CallOK
<1>2. [call[t] EXCEPT !.cli = cli] \in Calls /\ [call[t] EXCEPT !.cli = cli] # NoCall
  BY <1>1, CallFields
<1>3. pc' \in [Threads -> Steps] /\ call' \in [Threads -> Calls]
  BY <1>2 DEF TypeInv, TypeOK, With, Goto, Steps, ClientSteps
<1>4. call'[t].cli = cli /\ call'[t].op = call[t].op /\ call'[t].id = call[t].id
  BY <1>1, CallFields DEF TypeInv, TypeOK, With, Calls, NoCall
<1>5. ASSUME NEW u \in Threads PROVE CallOK(u)'
  <2>1. CASE u = t
    BY <1>2, <1>4, <2>1 DEF TypeInv, TypeOK, CallsOK, CallOK, With, Goto, ClientSteps
  <2>2. CASE u # t
    BY <2>2 DEF TypeInv, TypeOK, CallsOK, CallOK, With, Goto
  <2> QED
    BY <2>1, <2>2
<1> QED
  BY <1>3, <1>5 DEF CallsOK

LEMMA EnterType ==
    ASSUME TypeInv, NEW t \in Threads, NEW op \in Operations, NEW id \in Sources,
           NEW step \in {"route", "flag"}, Enter(t, op, id, step),
           op = "unreg" => id = t
    PROVE  pc' \in [Threads -> Steps] /\ call' \in [Threads -> Calls] /\ CallsOK'
<1> DEFINE c == [op |-> op, id |-> id, cli |-> NoAdapter]
<1>1. c \in Calls /\ c # NoCall
  BY DEF Calls, NoCall, Operations, Sends
<1>2. pc' \in [Threads -> Steps] /\ call' \in [Threads -> Calls]
  BY <1>1 DEF TypeInv, TypeOK, Enter, Steps
<1>3. ASSUME NEW u \in Threads PROVE CallOK(u)'
  BY <1>1 DEF TypeInv, TypeOK, CallsOK, CallOK, Enter, ClientSteps
<1> QED
  BY <1>2, <1>3 DEF CallsOK

\* The client an adapter step works with, and the call it is part of.
LEMMA ClientCall ==
    ASSUME TypeInv, NEW t \in Threads, pc[t] \in ClientSteps
    PROVE  /\ call[t].cli \in Adapters
           /\ call[t].id \in Sources
           /\ adapter[call[t].cli] \in AdapterState
<1>1. call[t] \in Calls /\ call[t] # NoCall /\ call[t].cli \in Adapters
  BY DEF TypeInv, TypeOK, CallsOK, CallOK, ClientSteps
<1> QED
  BY <1>1, CallFields DEF TypeInv, TypeOK, AdapterTypeOK

\* A new adapter takes the next number; the others keep their state.
LEMMA MakeStartedType ==
    ASSUME TypeInv, NEW a, MakeStarted(a)
    PROVE  /\ a \in Adapters
           /\ adapter' \in [Adapters -> AdapterState]
           /\ next_id' \in 0 .. MaxAdapters
<1>1. a \in Adapters /\ next_id' = a
  BY DEF MakeStarted
<1>2. adapter[a] \in AdapterState /\ gen \in Nat
  BY <1>1 DEF TypeInv, TypeOK, AdapterTypeOK
<1>3. Started(Made, gen) \in AdapterState
  BY <1>2, AdapterLives
<1> QED
  BY <1>1, <1>3 DEF MakeStarted, TypeInv, TypeOK, AdapterTypeOK, Adapters

\* The pools hold adapters: what is taken from one, and what is put into one.
LEMMA PoolTail ==
    ASSUME NEW q \in Seq(Adapters), q # <<>>
    PROVE  Head(q) \in Adapters /\ Tail(q) \in Seq(Adapters)
  OBVIOUS

LEMMA PoolAppend ==
    ASSUME NEW q \in Seq(Adapters), NEW a \in Adapters
    PROVE  Append(q, a) \in Seq(Adapters)
  OBVIOUS

\* n adapters numbered in a row.
LEMMA NewPoolType ==
    ASSUME NEW done \in Nat, NEW n \in Nat, done + n <= MaxAdapters
    PROVE  /\ NewPool(done, n) \in Seq(Adapters)
           /\ Len(NewPool(done, n)) = n
           /\ \A i \in 1 .. n : NewPool(done, n)[i] = done + i
<1>1. \A i \in 1 .. n : done + i \in Adapters
  BY DEF Adapters
<1> QED
  BY <1>1 DEF NewPool

-----------------------------------------------------------------------------
\* The steps of a thread inside a call of the map keep the types.
LEMMA MapStepType ==
    ASSUME TypeInv, NEW t \in Threads, MapStep(t), UNCHANGED <<ownVars, sourceVars>>
    PROVE  TypeInv'
<1> USE DEF ownVars, sourceVars, mapVars, mainVars
<1>1. CASE TestStopFlag(t)
  <2>1. pc' \in [Threads -> Steps] /\ call' \in [Threads -> Calls] /\ CallsOK'
    BY <1>1, GotoType, ReturnType DEF TestStopFlag, Steps, ClientSteps
  <2> QED
    BY <1>1, <2>1 DEF TestStopFlag, TypeInv, TypeOK, AdapterTypeOK, adapterVars
<1>2. CASE Find(t)
  <2>1. call[t] \in Calls /\ call[t] # NoCall /\ pc[t] # "idle"
    BY <1>2 DEF Find, TypeInv, TypeOK, CallsOK, CallOK
  <2>2. clients[call[t].id] \in Adapters \cup {NoAdapter}
    BY <2>1, CallFields DEF TypeInv, TypeOK
  <2>3. pc' \in [Threads -> Steps] /\ call' \in [Threads -> Calls] /\ CallsOK'
    BY <1>2, <2>1, <2>2, GotoType, ReturnType, WithType DEF Find, Steps, ClientSteps
  <2> QED
    BY <1>2, <2>3 DEF Find, TypeInv, TypeOK, AdapterTypeOK, adapterVars
<1>3. CASE UpsertFind(t)
  <2>1. call[t] \in Calls /\ call[t] # NoCall /\ pc[t] # "idle"
    BY <1>3 DEF UpsertFind, TypeInv, TypeOK, CallsOK, CallOK
  <2>2. clients[call[t].id] \in Adapters \cup {NoAdapter}
    BY <2>1, CallFields DEF TypeInv, TypeOK
  <2>3. pc' \in [Threads -> Steps] /\ call' \in [Threads -> Calls] /\ CallsOK'
    BY <1>3, <2>1, <2>2, GotoType, WithType DEF UpsertFind, Deliver, Steps, ClientSteps
  <2> QED
    BY <1>3, <2>3 DEF UpsertFind, TypeInv, TypeOK, AdapterTypeOK, adapterVars
<1>4. CASE UpsertCreate(t)
  <2>1. PICK cli \in Adapters :
            /\ \/ TakeStartup(cli)
               \/ TakeSecondary(cli)
               \/ TakePrimary(cli)
               \/ TakeNew(cli)
            /\ Insert(call[t].id, cli)
            /\ With(t, cli, Deliver(t))
    BY <1>4 DEF UpsertCreate
  <2>2. pc' \in [Threads -> Steps] /\ call' \in [Threads -> Calls] /\ CallsOK'
    BY <1>4, <2>1, WithType DEF UpsertCreate, Deliver, ClientSteps
  <2>3. clients' \in [Sources -> Adapters \cup {NoAdapter}]
    BY <2>1 DEF Insert, TypeInv, TypeOK
  <2>4. /\ pool' \in [startup : Seq(Adapters), primary : Seq(Adapters),
                      secondary : Seq(Adapters)]
        /\ adapter' \in [Adapters -> AdapterState]
        /\ next_id' \in 0 .. MaxAdapters
    <3>1. CASE TakeStartup(cli)
      BY <3>1, PoolTail DEF TakeStartup, TypeInv, TypeOK, AdapterTypeOK
    <3>2. CASE TakeSecondary(cli)
      BY <3>2, PoolTail DEF TakeSecondary, TypeInv, TypeOK, AdapterTypeOK
    <3>3. CASE TakePrimary(cli)
      <4>1. PICK new \in Adapters :
                /\ MakeStarted(new)
                /\ pool' = [pool EXCEPT !.primary = Append(Tail(@), new)]
        BY <3>3 DEF TakePrimary
      <4>2. Append(Tail(pool.primary), new) \in Seq(Adapters)
        BY <3>3, PoolTail, PoolAppend DEF TakePrimary, TypeInv, TypeOK
      <4> QED
        BY <4>1, <4>2, MakeStartedType DEF TypeInv, TypeOK
    <3>4. CASE TakeNew(cli)
      BY <3>4, MakeStartedType DEF TakeNew, TypeInv, TypeOK
    <3> QED
      BY <2>1, <3>1, <3>2, <3>3, <3>4
  <2> QED
    BY <1>4, <2>2, <2>3, <2>4 DEF UpsertCreate, TypeInv, TypeOK, AdapterTypeOK
<1>5. CASE AdapterRegIo(t)
  <2>1. pc' \in [Threads -> Steps] /\ call' \in [Threads -> Calls] /\ CallsOK'
    BY <1>5, ReturnType DEF AdapterRegIo
  <2>2. RegisteredTo(adapter[call[t].cli], call[t].id) \in AdapterState
    BY <1>5, ClientCall, AdapterOperations DEF AdapterRegIo, ClientSteps
  <2> QED
    BY <1>5, <2>1, <2>2 DEF AdapterRegIo, TypeInv, TypeOK, AdapterTypeOK
<1>6. CASE AdapterUnregIo(t)
  <2>1. pc' \in [Threads -> Steps] /\ call' \in [Threads -> Calls] /\ CallsOK'
    BY <1>6 DEF AdapterUnregIo, Goto, TypeInv, TypeOK, CallsOK, CallOK, Steps, ClientSteps
  <2>2. UnregisteredFrom(adapter[call[t].cli], call[t].id) \in AdapterState
    BY <1>6, ClientCall, AdapterOperations DEF AdapterUnregIo, ClientSteps
  <2> QED
    BY <1>6, <2>1, <2>2 DEF AdapterUnregIo, TypeInv, TypeOK, AdapterTypeOK
<1>7. CASE Erase(t)
  <2>1. pc' \in [Threads -> Steps] /\ call' \in [Threads -> Calls] /\ CallsOK'
    <3>1. CASE Return(t)
      BY <3>1, ReturnType
    <3>2. CASE Goto(t, "astop") /\ UNCHANGED call
      BY <1>7, <3>2 DEF Erase, Goto, TypeInv, TypeOK, CallsOK, CallOK, Steps, ClientSteps
    <3> QED
      BY <1>7, <3>1, <3>2 DEF Erase
  <2>2. Append(pool.secondary, call[t].cli) \in Seq(Adapters)
    BY <1>7, ClientCall, PoolAppend DEF Erase, ClientSteps, TypeInv, TypeOK
  <2>3. /\ pool' \in [startup : Seq(Adapters), primary : Seq(Adapters),
                      secondary : Seq(Adapters)]
        /\ clients' \in [Sources -> Adapters \cup {NoAdapter}]
    BY <1>7, <2>2 DEF Erase, TypeInv, TypeOK
  <2> QED
    BY <1>7, <2>1, <2>3 DEF Erase, TypeInv, TypeOK, AdapterTypeOK, adapterVars
<1>8. CASE StopErased(t)
  <2>1. pc' \in [Threads -> Steps] /\ call' \in [Threads -> Calls] /\ CallsOK'
    BY <1>8, ReturnType DEF StopErased
  <2>2. Stopped(adapter[call[t].cli]) \in AdapterState
    BY <1>8, ClientCall, AdapterLives DEF StopErased, ClientSteps, TypeInv, TypeOK
  <2> QED
    BY <1>8, <2>1, <2>2 DEF StopErased, StopAdapter, TypeInv, TypeOK, AdapterTypeOK
<1>9. CASE Bind(t)
  <2>1. pc' \in [Threads -> Steps] /\ call' \in [Threads -> Calls] /\ CallsOK'
    BY <1>9 DEF Bind, Goto, TypeInv, TypeOK, CallsOK, CallOK, Steps, ClientSteps
  <2>2. Wrapped(adapter[call[t].cli], call[t].id) \in AdapterState
    BY <1>9, ClientCall, AdapterOperations DEF Bind, ClientSteps
  <2> QED
    BY <1>9, <2>1, <2>2 DEF Bind, TypeInv, TypeOK, AdapterTypeOK
<1>10. CASE Send(t)
  <2>1. pc' \in [Threads -> Steps] /\ call' \in [Threads -> Calls] /\ CallsOK'
    BY <1>10, ReturnType DEF Send
  <2>2. <<call[t].cli, call[t].id>> \in Adapters \X Sources
    BY <1>10, ClientCall DEF Send, ClientSteps
  <2> QED
    BY <1>10, <2>1, <2>2
       DEF Send, SendOk, SendRefused, TypeInv, TypeOK, AdapterTypeOK
<1> QED
  BY <1>1, <1>2, <1>3, <1>4, <1>5, <1>6, <1>7, <1>8, <1>9, <1>10 DEF MapStep

-----------------------------------------------------------------------------
\* The sizes Rebuild works with: the clients in use are finitely many, and the
\* new adapters are numbered in a row below the bound.
LEMMA UsedCount ==
    Cardinality(Used) \in Nat
<1>1. Used \in SUBSET Sources
  BY DEF Used
<1> QED
  BY <1>1, SourcesAssumption, FS_Subset, FS_CardinalityType

LEMMA RebuildPools ==
    ASSUME NEW n \in Nat, NEW p \in Nat, NEW m \in Nat, NEW d \in Nat,
           d + n + p + m <= MaxAdapters
    PROVE  /\ NewPool(d + n + p, m) \in Seq(Adapters)
           /\ NewPool(d + n, p) \in Seq(Adapters)
           /\ NewPool(d, n + p + m) \in Seq(Adapters)
           /\ d + 1 .. d + n \subseteq Adapters
  BY NewPoolType DEF Adapters

\* The steps of Main inside the map keep the types.
LEMMA LifeCycleMapType ==
    ASSUME TypeInv, Reconfigure \/ StopMap
    PROVE  TypeInv'
<1> USE DEF ownVars, sourceVars, mapVars, adapterVars, threadVars
<1>1. ASSUME NEW from \in Phases, NEW to \in Phases, ListClients(from, to),
             UNCHANGED <<ownVars, sourceVars>>
      PROVE  TypeInv'
  <2>1. ClientLists \subseteq Seq(Adapters)
    <3>1. {clients[s] : s \in Used} \subseteq Adapters
      BY DEF Used, TypeInv, TypeOK
    <3>2. ASSUME NEW l \in ClientLists PROVE l \in Seq(Adapters)
      <4>1. l \in [1 .. Cardinality(Used) -> Adapters]
        BY <3>1 DEF ClientLists
      <4> QED
        BY <4>1, UsedCount
    <3> QED
      BY <3>2
  <2>2. listed' \in Seq(Adapters)
    BY <1>1, <2>1 DEF ListClients, TypeInv, TypeOK
  <2> QED
    BY <1>1, <2>2 DEF ListClients, TypeInv, TypeOK, AdapterTypeOK, CallsOK, CallOK
<1>2. ASSUME NEW at, StopListed(at), UNCHANGED <<ownVars, sourceVars>>
      PROVE  TypeInv'
  <2>1. Head(listed) \in Adapters /\ Tail(listed) \in Seq(Adapters)
    BY <1>2, PoolTail DEF StopListed, TypeInv, TypeOK
  <2>2. Stopped(adapter[Head(listed)]) \in AdapterState
    <3>1. adapter[Head(listed)] \in AdapterState /\ gen \in Nat
      BY <2>1 DEF TypeInv, TypeOK, AdapterTypeOK
    <3> QED
      BY <3>1, AdapterLives
  <2> QED
    BY <1>2, <2>1, <2>2
       DEF StopListed, StopAdapter, TypeInv, TypeOK, AdapterTypeOK, CallsOK, CallOK
<1>3. ASSUME NEW at, NEW to \in Phases, AllStopped(at, to),
             UNCHANGED <<ownVars, sourceVars>>
      PROVE  TypeInv'
  BY <1>3 DEF AllStopped, TypeInv, TypeOK, AdapterTypeOK, CallsOK, CallOK
<1>4. CASE Rebuild /\ UNCHANGED <<ownVars, sourceVars>>
  <2> DEFINE n == Cardinality(Used)
             m(o) == IF startup_flag THEN o.startup ELSE 0
             last(o) == next_id + n + o.primary + m(o)
  <2>1. PICK o \in Options :
            /\ last(o) \in 0 .. MaxAdapters
            /\ \E f \in [Used -> next_id + 1 .. next_id + n] :
                 clients' = [s \in Sources |-> IF s \in Used THEN f[s] ELSE NoAdapter]
            /\ pool' = [startup |-> NewPool(next_id + n + o.primary, m(o)),
                        primary |-> NewPool(next_id + n, o.primary),
                        secondary |-> <<>>]
            /\ adapter' = [a \in Adapters |->
                             IF a \in next_id + 1 .. last(o) THEN Made ELSE adapter[a]]
            /\ next_id' = last(o)
            /\ listed' = NewPool(next_id, last(o) - next_id)
            /\ opt' = o
    BY <1>4 DEF Rebuild
  <2>2. /\ n \in Nat /\ next_id \in Nat /\ m(o) \in Nat /\ o.primary \in Nat
        /\ o \in PoolSizes
    BY UsedCount, OptionsAssumption DEF PoolSizes, TypeInv, TypeOK, AdapterTypeOK
  <2>3. /\ NewPool(next_id + n + o.primary, m(o)) \in Seq(Adapters)
        /\ NewPool(next_id + n, o.primary) \in Seq(Adapters)
        /\ NewPool(next_id, n + o.primary + m(o)) \in Seq(Adapters)
        /\ next_id + 1 .. next_id + n \subseteq Adapters
    <3>1. next_id + n + o.primary + m(o) <= MaxAdapters
      BY <2>1, <2>2
    <3> HIDE DEF n, m
    <3> QED
      BY <2>2, <3>1, RebuildPools
  <2>4. last(o) - next_id = n + o.primary + m(o)
    <3> HIDE DEF n, m
    <3> QED
      BY <2>2
  <2>5. clients' \in [Sources -> Adapters \cup {NoAdapter}]
    <3> HIDE DEF n, m
    <3> QED
      BY <2>1, <2>3
  <2>6. /\ pool' \in [startup : Seq(Adapters), primary : Seq(Adapters),
                      secondary : Seq(Adapters)]
        /\ listed' \in Seq(Adapters)
    <3> HIDE DEF n, m
    <3> QED
      BY <2>1, <2>3, <2>4
  <2>7. adapter' \in [Adapters -> AdapterState]
    <3> HIDE DEF n, m
    <3>1. Made \in AdapterState
      BY DEF Made, Unmade, AdapterState
    <3> QED
      BY <2>1, <3>1 DEF TypeInv, TypeOK, AdapterTypeOK
  <2>8. /\ gen' \in Nat /\ startup_flag' \in BOOLEAN /\ phase' \in Phases
        /\ UNCHANGED <<inflight, alive, stop_flag, threadVars>>
    <3>1. /\ gen' = gen + 1 /\ startup_flag' = FALSE /\ phase' = "start_clients"
          /\ UNCHANGED <<inflight, alive, stop_flag, threadVars>>
      BY <1>4 DEF Rebuild
    <3>2. gen \in Nat
      BY DEF TypeInv, TypeOK
    <3>3. gen' \in Nat /\ phase' \in Phases
      BY <3>1, <3>2 DEF Phases
    <3>4. startup_flag' \in BOOLEAN
      BY <3>1
    <3> QED
      BY <3>1, <3>3, <3>4
  <2> HIDE DEF n, m, last
  <2> QED
    BY <1>4, <2>1, <2>2, <2>5, <2>6, <2>7, <2>8
       DEF TypeInv, TypeOK, AdapterTypeOK, CallsOK, CallOK
<1>5. CASE StartListed /\ UNCHANGED <<ownVars, sourceVars>>
  <2>1. Head(listed) \in Adapters /\ Tail(listed) \in Seq(Adapters)
    BY <1>5, PoolTail DEF StartListed, TypeInv, TypeOK
  <2>2. Started(adapter[Head(listed)], gen) \in AdapterState
    <3>1. adapter[Head(listed)] \in AdapterState /\ gen \in Nat
      BY <2>1 DEF TypeInv, TypeOK, AdapterTypeOK
    <3> QED
      BY <3>1, AdapterLives
  <2> QED
    BY <1>5, <2>1, <2>2
       DEF StartListed, TypeInv, TypeOK, AdapterTypeOK, CallsOK, CallOK
<1>6. ASSUME NEW to \in Phases, LowerStopFlag(to), UNCHANGED <<ownVars, sourceVars>>
      PROVE  TypeInv'
  BY <1>6 DEF LowerStopFlag, TypeInv, TypeOK, AdapterTypeOK, CallsOK, CallOK
<1>7. CASE RaiseStopFlag /\ UNCHANGED <<ownVars, sourceVars>>
  BY <1>7 DEF RaiseStopFlag, TypeInv, TypeOK, AdapterTypeOK, CallsOK, CallOK, Phases
<1>8. CASE ClearAll /\ UNCHANGED <<ownVars, sourceVars>>
  BY <1>8 DEF ClearAll, TypeInv, TypeOK, AdapterTypeOK, CallsOK, CallOK, Phases
<1> QED
  BY <1>1, <1>2, <1>3, <1>4, <1>5, <1>6, <1>7, <1>8
     DEF Reconfigure, StopMap, Phases

-----------------------------------------------------------------------------
LEMMA TypeInit == Init => TypeInv
<1> SUFFICES ASSUME Init PROVE TypeInv
  OBVIOUS
<1>1. TypeOK
  <2>1. AdapterTypeOK
    BY DEF Init, AdapterInit, AdapterTypeOK, AdapterState, Unmade
  <2>2. /\ clients \in [Sources -> Adapters \cup {NoAdapter}]
        /\ pool \in [startup : Seq(Adapters), primary : Seq(Adapters),
                     secondary : Seq(Adapters)]
        /\ opt \in PoolSizes
        /\ gen \in Nat
        /\ listed \in Seq(Adapters)
    <3>1. <<>> \in Seq(Adapters)
      OBVIOUS
    <3> QED
      BY <3>1 DEF Init, MapInit, PoolSizes
  <2>3. pc \in [Threads -> Steps] /\ call \in [Threads -> Calls]
    BY DEF Init, MapInit, Steps, Calls
  <2>4. startup_flag \in BOOLEAN /\ stop_flag \in BOOLEAN
    BY DEF Init, MapInit
  <2>5. phase \in Phases /\ started \in BOOLEAN /\ suspended \in BOOLEAN
    BY DEF Init, Phases
  <2>6. /\ wait_list \subseteq Sources
        /\ stage \in [Sources -> {"new", "up", "left"}]
        /\ todo \subseteq Sources
        /\ late \subseteq Sources
    BY DEF Init
  <2>7. budget \in [Sources -> Nat] /\ posted \in Seq(Sources \X Sends)
    BY DEF Init
  <2> QED
    BY <2>1, <2>2, <2>3, <2>4, <2>5, <2>6, <2>7 DEF TypeOK
<1>2. CallsOK
  BY DEF Init, MapInit, CallsOK, CallOK, NoCall, ClientSteps
<1> QED
  BY <1>1, <1>2 DEF TypeInv

\* The other steps of threads, sources and Main keep the types.
LEMMA OwnStepType ==
    ASSUME TypeInv, Next,
           ~ \E t \in Threads : MapStep(t) /\ UNCHANGED <<ownVars, sourceVars>>,
           ~ (Reconfigure \/ StopMap)
    PROVE  TypeInv'
<1> USE DEF ownVars, sourceVars, mapVars, mainVars
<1>1. ASSUME NEW t \in Threads, TestStarted(t) PROVE TypeInv'
  <2>1. pc' \in [Threads -> Steps] /\ call' \in [Threads -> Calls] /\ CallsOK'
    BY <1>1, GotoType DEF TestStarted, Steps, ClientSteps
  <2> QED
    BY <1>1, <2>1 DEF TestStarted, TypeInv, TypeOK, AdapterTypeOK, adapterVars
<1>2. ASSUME NEW t \in Threads, Wait(t) PROVE TypeInv'
  <2>1. pc' \in [Threads -> Steps] /\ call' \in [Threads -> Calls] /\ CallsOK'
    BY <1>2, ReturnType DEF Wait
  <2>2. call[t].id \in Sources
    BY <1>2, CallFields DEF Wait, TypeInv, TypeOK, CallsOK, CallOK
  <2> QED
    BY <1>2, <2>1, <2>2 DEF Wait, TypeInv, TypeOK, AdapterTypeOK, adapterVars
<1>3. ASSUME NEW s \in Sources, SourceStep(s) PROVE TypeInv'
  <2> USE DEF Threads
  <2>1. CASE Connect(s)
    <3>1. pc' \in [Threads -> Steps] /\ call' \in [Threads -> Calls] /\ CallsOK'
      BY <2>1, EnterType DEF Connect, Operations, TypeInv, TypeOK, CallsOK, CallOK, threadVars
    <3> QED
      BY <2>1, <3>1 DEF Connect, TypeInv, TypeOK, AdapterTypeOK
  <2>2. CASE Ask(s)
    <3>1. PICK op \in Messages : PerformIo(s, op, s)
      BY <2>2 DEF Ask
    <3>2. op \in Operations /\ op # "unreg"
      BY RequestsAssumption DEF Operations, Sends
    <3>3. pc' \in [Threads -> Steps] /\ call' \in [Threads -> Calls] /\ CallsOK'
      BY <3>1, <3>2, EnterType DEF PerformIo, TypeInv, TypeOK, CallsOK, CallOK, threadVars
    <3>4. budget' \in [Sources -> Nat]
      BY <2>2 DEF Ask, TypeInv, TypeOK
    <3>5. UNCHANGED <<adapterVars, mapVars, mainVars, ownVars, stage, posted>>
      BY <2>2 DEF Ask
    <3> QED
      BY <3>3, <3>4, <3>5 DEF TypeInv, TypeOK, AdapterTypeOK, adapterVars
  <2>3. CASE Post(s)
    BY <2>3, RequestsAssumption
       DEF Post, TypeInv, TypeOK, AdapterTypeOK, adapterVars, threadVars, CallsOK, CallOK
  <2>4. CASE Disconnect(s)
    <3>1. pc' \in [Threads -> Steps] /\ call' \in [Threads -> Calls] /\ CallsOK'
      BY <2>4, EnterType DEF Disconnect, Operations
    <3> QED
      BY <2>4, <3>1 DEF Disconnect, TypeInv, TypeOK, AdapterTypeOK, adapterVars
  <2>5. CASE Destroy(s)
    BY <2>5 DEF Destroy, TypeInv, TypeOK, AdapterTypeOK, threadVars, CallsOK, CallOK
  <2>6. ASSUME NEW a \in Adapters, Answer(a, s) PROVE TypeInv'
    BY <2>6 DEF Answer, Answered, TypeInv, TypeOK, AdapterTypeOK, threadVars, CallsOK, CallOK
  <2> QED
    BY <1>3, <2>1, <2>2, <2>3, <2>4, <2>5, <2>6 DEF SourceStep
<1>4. ASSUME NEW w \in Workers, Take(w) PROVE TypeInv'
  <2>1. Head(posted) \in Sources \X Sends /\ Tail(posted) \in Seq(Sources \X Sends)
    BY <1>4 DEF Take, TypeInv, TypeOK
  <2>2. Head(posted)[1] \in Sources /\ Head(posted)[2] \in Operations \ {"unreg"}
    BY <2>1 DEF Operations, Sends
  <2>3. pc' \in [Threads -> Steps] /\ call' \in [Threads -> Calls] /\ CallsOK'
    BY <1>4, <2>2, EnterType
       DEF Take, PerformIo, Threads, TypeInv, TypeOK, CallsOK, CallOK, threadVars
  <2> QED
    BY <1>4, <2>1, <2>3 DEF Take, TypeInv, TypeOK, AdapterTypeOK, adapterVars
<1>5. CASE StartRefused \/ Start \/ Stop
  BY <1>5 DEF StartRefused, Start, Stop, TypeInv, TypeOK, AdapterTypeOK,
       adapterVars, threadVars, CallsOK, CallOK, Phases
<1>9. CASE SetSuspend
  <2>1. suspended' \in BOOLEAN
    BY <1>9, SwitchesAssumption DEF SetSuspend
  <2> QED
    BY <1>9, <2>1 DEF SetSuspend, TypeInv, TypeOK, AdapterTypeOK, adapterVars,
       threadVars, CallsOK, CallOK
<1>6. CASE SetStarted \/ LockWaitList \/ UnlockWaitList
  BY <1>6 DEF SetStarted, LockWaitList, UnlockWaitList, TypeInv, TypeOK, AdapterTypeOK,
       adapterVars, threadVars, CallsOK, CallOK, Phases
<1>7. CASE RegisterWaiting
  <2>1. PICK s \in todo :
            /\ todo' = todo \ {s}
            /\ \/ suspended /\ UNCHANGED threadVars
               \/ ~suspended /\ Enter(Main, "reg", s, "route")
    BY <1>7 DEF RegisterWaiting
  <2>2. s \in Sources /\ Main \in Threads
    BY DEF TypeInv, TypeOK, Threads
  <2>3. pc' \in [Threads -> Steps] /\ call' \in [Threads -> Calls] /\ CallsOK'
    BY <2>1, <2>2, EnterType
       DEF Operations, TypeInv, TypeOK, CallsOK, CallOK, threadVars
  <2> QED
    BY <1>7, <2>1, <2>3 DEF RegisterWaiting, TypeInv, TypeOK, AdapterTypeOK, adapterVars
<1>8. CASE Terminated
  BY <1>8, TypeStutter DEF Terminated
<1> QED
  BY <1>1, <1>2, <1>3, <1>4, <1>5, <1>6, <1>7, <1>8, <1>9
     DEF Next, CallStep, LifeCycleStep

LEMMA TypeInvariance == Spec => []TypeInv
<1>1. TypeInv /\ [Next]_vars => TypeInv'
  BY TypeStutter, MapStepType, LifeCycleMapType, OwnStepType
<1> QED
  BY <1>1, TypeInit, PTL DEF Spec

\* Every reachable state is well typed.
THEOREM TypeCorrect == Spec => []TypeOK
<1>1. TypeInv => TypeOK
  BY DEF TypeInv
<1> QED
  BY <1>1, TypeInvariance, PTL

\* Every call in progress carries the arguments the code at its step relies
\* on: in particular no thread works with a null client_ptr, which unreg_io
\* alone tests for, and only a source itself unregisters its io_id.
THEOREM CallsFit == Spec => []CallsOK
<1>1. TypeInv => CallsOK
  BY DEF TypeInv
<1> QED
  BY <1>1, TypeInvariance, PTL

-----------------------------------------------------------------------------
(* Exclusive ownership                                                     *)

\* The contents of three pools p, and that they hold nothing twice.
PoolNames == {"startup", "primary", "secondary"}
Pools == [startup : Seq(Adapters), primary : Seq(Adapters), secondary : Seq(Adapters)]
In(p, a) == \E k \in DOMAIN p : \E i \in DOMAIN p[k] : p[k][i] = a
Distinct(p) ==
    \A k, l \in DOMAIN p :
        \A i \in DOMAIN p[k], j \in DOMAIN p[l] :
            p[k][i] = p[l][j] => k = l /\ i = j

LEMMA PoolShape ==
    ASSUME NEW p \in Pools
    PROVE  /\ DOMAIN p = PoolNames
           /\ \A k \in PoolNames : p[k] \in Seq(Adapters) /\ DOMAIN p[k] = 1 .. Len(p[k])
           /\ \A a : In(p, a) => a \in Adapters
           /\ \A k \in PoolNames, q \in Seq(Adapters) : [p EXCEPT ![k] = q] \in Pools
<1>1. DOMAIN p = PoolNames
  BY DEF Pools, PoolNames
<1>2. \A k \in PoolNames : p[k] \in Seq(Adapters)
  BY DEF Pools, PoolNames
<1>3. \A k \in PoolNames : DOMAIN p[k] = 1 .. Len(p[k])
  BY <1>2
<1>4. \A a : In(p, a) => a \in Adapters
  BY <1>1, <1>2, <1>3 DEF In
<1>5. \A k \in PoolNames, q \in Seq(Adapters) : [p EXCEPT ![k] = q] \in Pools
  BY DEF Pools, PoolNames
<1> QED
  BY <1>1, <1>2, <1>3, <1>4, <1>5

\* front() and pop_front() take one adapter out of the pools.
LEMMA PopFront ==
    ASSUME NEW p \in Pools, Distinct(p), NEW k \in PoolNames, p[k] # <<>>,
           NEW r, r = [p EXCEPT ![k] = Tail(@)]
    PROVE  /\ r \in Pools
           /\ Distinct(r)
           /\ Head(p[k]) \in Adapters
           /\ In(p, Head(p[k]))
           /\ ~In(r, Head(p[k]))
           /\ \A a : In(r, a) => In(p, a)
<1>1. p[k] \in Seq(Adapters) /\ DOMAIN p = PoolNames /\ Len(p[k]) \in Nat \ {0}
  BY PoolShape
<1>2. /\ Head(p[k]) = p[k][1] /\ Head(p[k]) \in Adapters
      /\ Tail(p[k]) \in Seq(Adapters)
      /\ Len(Tail(p[k])) = Len(p[k]) - 1
      /\ \A i \in 1 .. Len(p[k]) - 1 : Tail(p[k])[i] = p[k][i + 1]
  BY <1>1
<1>3. r \in Pools /\ r[k] = Tail(p[k]) /\ DOMAIN r = PoolNames
  BY <1>1, <1>2, PoolShape
<1>4. \A l \in PoolNames \ {k} : r[l] = p[l]
  BY <1>1
<1>5. \A l \in PoolNames : /\ DOMAIN p[l] = 1 .. Len(p[l])
                           /\ DOMAIN r[l] = 1 .. Len(r[l])
  BY <1>3, PoolShape
<1>6. \A i \in DOMAIN r[k] : i \in Nat /\ i + 1 \in DOMAIN p[k] /\ r[k][i] = p[k][i + 1]
  BY <1>1, <1>2, <1>3, <1>5
<1>7. ASSUME NEW l \in PoolNames, NEW i \in DOMAIN r[l]
      PROVE  \E j \in DOMAIN p[l] : /\ r[l][i] = p[l][j]
                                    /\ j = IF l = k THEN i + 1 ELSE i
  BY <1>4, <1>6
<1>8. Distinct(r)
  <2>1. SUFFICES ASSUME NEW l \in PoolNames, NEW m \in PoolNames,
                        NEW i \in DOMAIN r[l], NEW j \in DOMAIN r[m],
                        r[l][i] = r[m][j]
                 PROVE  l = m /\ i = j
    BY <1>3 DEF Distinct
  <2>2. PICK ii \in DOMAIN p[l] : r[l][i] = p[l][ii] /\ ii = IF l = k THEN i + 1 ELSE i
    BY <1>7
  <2>3. PICK jj \in DOMAIN p[m] : r[m][j] = p[m][jj] /\ jj = IF m = k THEN j + 1 ELSE j
    BY <1>7
  <2>4. l = m /\ ii = jj
    BY <1>1, <2>1, <2>2, <2>3 DEF Distinct
  <2>5. i \in Nat /\ j \in Nat
    BY <1>5
  <2> QED
    BY <2>2, <2>3, <2>4, <2>5
<1>9. \A a : In(r, a) => In(p, a)
  BY <1>1, <1>3, <1>7 DEF In
<1>10. 1 \in DOMAIN p[k]
  BY <1>1, <1>5
<1>11. In(p, Head(p[k]))
  BY <1>1, <1>2, <1>10 DEF In
<1>12. ~In(r, Head(p[k]))
  <2>1. SUFFICES ASSUME NEW l \in PoolNames, NEW i \in DOMAIN r[l], r[l][i] = p[k][1]
                 PROVE  FALSE
    BY <1>2, <1>3 DEF In
  <2>2. PICK ii \in DOMAIN p[l] : r[l][i] = p[l][ii] /\ ii = IF l = k THEN i + 1 ELSE i
    BY <1>7
  <2>3. p[l][ii] = p[k][1] /\ l \in DOMAIN p /\ k \in DOMAIN p /\ ii \in DOMAIN p[l]
    BY <1>1, <2>1, <2>2
  <2>5. l = k /\ ii = 1
    <3>1. \A i1 \in DOMAIN p[l], j1 \in DOMAIN p[k] :
              p[l][i1] = p[k][j1] => l = k /\ i1 = j1
      BY <2>3 DEF Distinct
    <3> QED
      BY <1>10, <2>3, <3>1
  <2>4. i \in Nat \ {0}
    BY <1>5
  <2> QED
    BY <2>2, <2>4, <2>5
<1> QED
  BY <1>2, <1>3, <1>8, <1>9, <1>11, <1>12

\* push_back puts an adapter in that the pools do not have.
LEMMA PushBack ==
    ASSUME NEW p \in Pools, Distinct(p), NEW k \in PoolNames,
           NEW a \in Adapters, ~In(p, a),
           NEW r, r = [p EXCEPT ![k] = Append(@, a)]
    PROVE  /\ r \in Pools
           /\ Distinct(r)
           /\ \A b : In(r, b) => In(p, b) \/ b = a
<1>1. p[k] \in Seq(Adapters) /\ DOMAIN p = PoolNames /\ Len(p[k]) \in Nat
  BY PoolShape
<1> DEFINE n == Len(p[k])
<1>2. /\ Append(p[k], a) \in Seq(Adapters)
      /\ Len(Append(p[k], a)) = n + 1
      /\ \A i \in 1 .. n : Append(p[k], a)[i] = p[k][i]
      /\ Append(p[k], a)[n + 1] = a
  BY <1>1
<1>3. r \in Pools /\ r[k] = Append(p[k], a) /\ DOMAIN r = PoolNames
  BY <1>1, <1>2, PoolShape
<1>4. \A l \in PoolNames \ {k} : r[l] = p[l]
  BY <1>1
<1>5. \A l \in PoolNames : /\ DOMAIN p[l] = 1 .. Len(p[l])
                           /\ DOMAIN r[l] = 1 .. Len(r[l])
  BY <1>3, PoolShape
<1>6. ASSUME NEW l \in PoolNames, NEW i \in DOMAIN r[l]
      PROVE  \/ i \in DOMAIN p[l] /\ r[l][i] = p[l][i]
             \/ l = k /\ i = n + 1 /\ r[l][i] = a
  <2>1. CASE l = k
    BY <1>1, <1>2, <1>3, <1>5, <2>1
  <2>2. CASE l # k
    BY <1>4, <2>2
  <2> QED
    BY <2>1, <2>2
<1>7. \A b : In(r, b) => In(p, b) \/ b = a
  BY <1>1, <1>3, <1>6 DEF In
<1>8. Distinct(r)
  <2>1. SUFFICES ASSUME NEW l \in PoolNames, NEW m \in PoolNames,
                        NEW i \in DOMAIN r[l], NEW j \in DOMAIN r[m],
                        r[l][i] = r[m][j]
                 PROVE  l = m /\ i = j
    BY <1>3 DEF Distinct
  <2>2. \A o \in PoolNames : \A x \in DOMAIN p[o] : p[o][x] # a
    BY <1>1 DEF In
  <2>3. \/ i \in DOMAIN p[l] /\ r[l][i] = p[l][i]
        \/ l = k /\ i = n + 1 /\ r[l][i] = a
    BY <1>6
  <2>4. \/ j \in DOMAIN p[m] /\ r[m][j] = p[m][j]
        \/ m = k /\ j = n + 1 /\ r[m][j] = a
    BY <1>6
  <2> HIDE DEF n
  <2>5. CASE i \in DOMAIN p[l] /\ r[l][i] = p[l][i]
    <3>1. j \in DOMAIN p[m] /\ r[m][j] = p[m][j]
      BY <2>1, <2>2, <2>4, <2>5
    <3> QED
      BY <1>1, <2>1, <2>5, <3>1 DEF Distinct
  <2>6. CASE l = k /\ i = n + 1 /\ r[l][i] = a
    <3>1. m = k /\ j = n + 1
      BY <2>1, <2>2, <2>4, <2>6
    <3> QED
      BY <2>6, <3>1
  <2> QED
    BY <2>3, <2>5, <2>6
<1> QED
  BY <1>3, <1>7, <1>8

\* The parts of the invariant in terms of In and Distinct.
LEMMA OwnershipParts ==
    /\ PoolsDistinct <=> Distinct(pool)
    /\ PoolsDistinct' <=> Distinct(pool')
    /\ \A a : InPool(a) <=> In(pool, a)
    /\ \A a : InPool(a)' <=> In(pool', a)
  BY DEF PoolsDistinct, Distinct, InPool, In

\* A step that leaves the map and the pools alone keeps the invariant if every
\* thread that then gives an adapter back gave the same one back before, and
\* nobody holds a number that was not given out.
LEMMA MapUntouched ==
    ASSUME OwnershipInv, TypeInv, UNCHANGED <<clients, pool, next_id>>,
           \A t \in Threads : call'[t].cli <= next_id,
           \A t \in Threads : Giving(t)' => Giving(t) /\ call'[t].cli = call[t].cli
    PROVE  OwnershipInv'
<1>1. \A a : InPool(a)' <=> InPool(a)
  BY OwnershipParts
<1>2. ExclusiveOwnership'
  BY DEF OwnershipInv, ExclusiveOwnership, SlotsDistinct, PoolsDistinct, SlotsNotPooled, InPool
<1>3. Numbered'
  BY <1>1 DEF OwnershipInv, Numbered
<1>4. ASSUME NEW t \in Threads, Giving(t)'
      PROVE  /\ ~InPool(call[t].cli)'
             /\ \A s \in Sources : clients'[s] = call'[t].cli => s = t
             /\ \A u \in Threads : Giving(u)' /\ call'[u].cli = call'[t].cli => u = t
  <2>1. Giving(t) /\ call'[t].cli = call[t].cli
    BY <1>4
  <2>2. HeldApart(t)
    BY DEF OwnershipInv
  <2>3. ~InPool(call[t].cli)'
    <3>1. ~In(pool, call[t].cli)
      BY <2>1, <2>2, OwnershipParts DEF HeldApart
    <3> QED
      BY <2>1, <3>1, OwnershipParts
  <2>4. \A u \in Threads : Giving(u)' /\ call'[u].cli = call'[t].cli => u = t
    BY <2>1, <2>2 DEF HeldApart
  <2> QED
    BY <2>1, <2>2, <2>3, <2>4 DEF HeldApart
<1> QED
  BY <1>2, <1>3, <1>4 DEF OwnershipInv, HeldApart

\* Going on inside a call, returning and entering do so.
LEMMA ThreadUntouched ==
    ASSUME OwnershipInv, TypeInv, UNCHANGED <<clients, pool, next_id>>,
           NEW t \in Threads,
           \/ \E step \in Steps \ {"aunreg", "erase"} : Goto(t, step) /\ UNCHANGED call
           \/ Return(t)
           \/ \E op \in Operations, id \in Sources, step \in {"route", "flag"} :
                Enter(t, op, id, step)
           \/ UNCHANGED threadVars
    PROVE  OwnershipInv'
<1>1. next_id \in Nat /\ \A u \in Threads : call[u].cli <= next_id
  BY DEF OwnershipInv, Numbered, TypeInv, TypeOK, AdapterTypeOK
<1>2. CASE \E step \in Steps \ {"aunreg", "erase"} : Goto(t, step) /\ UNCHANGED call
  <2>1. \A u \in Threads : Giving(u)' => Giving(u)
    BY <1>2 DEF Goto, Giving, TypeInv, TypeOK
  <2> QED
    BY <1>1, <1>2, <2>1, MapUntouched
<1>3. CASE Return(t)
  <2>1. \A u \in Threads : Giving(u)' => Giving(u) /\ call'[u].cli = call[u].cli
    BY <1>3 DEF Return, Goto, Giving, TypeInv, TypeOK
  <2>2. \A u \in Threads : call'[u].cli <= next_id
    BY <1>1, <1>3 DEF Return, NoCall, NoAdapter, TypeInv, TypeOK
  <2> QED
    BY <2>1, <2>2, MapUntouched
<1>4. CASE \E op \in Operations, id \in Sources, step \in {"route", "flag"} :
             Enter(t, op, id, step)
  <2>1. \A u \in Threads : Giving(u)' => Giving(u) /\ call'[u].cli = call[u].cli
    BY <1>4 DEF Enter, Giving, TypeInv, TypeOK
  <2>2. \A u \in Threads : call'[u].cli <= next_id
    BY <1>1, <1>4 DEF Enter, NoAdapter, TypeInv, TypeOK
  <2> QED
    BY <2>1, <2>2, MapUntouched
<1>5. CASE UNCHANGED threadVars
  BY <1>1, <1>5, MapUntouched DEF threadVars, Giving
<1> QED
  BY <1>2, <1>3, <1>4, <1>5

\* A thread takes up the client of the source its call is about.
LEMMA FoundClient ==
    ASSUME OwnershipInv, TypeInv, UNCHANGED <<clients, pool, next_id>>,
           NEW t \in Threads, pc[t] # "idle", ~Giving(t), NEW step \in Steps,
           clients[call[t].id] # NoAdapter,
           With(t, clients[call[t].id], step),
           step \in {"aunreg", "erase"} => call[t].op = "unreg"
    PROVE  OwnershipInv'
<1> DEFINE id == call[t].id
           cli == clients[id]
<1>1. /\ call[t] \in Calls /\ id \in Sources /\ cli \in Adapters
  BY CallFields DEF TypeInv, TypeOK, CallsOK, CallOK
<1>2. call' = [call EXCEPT ![t].cli = cli] /\ pc' = [pc EXCEPT ![t] = step]
  BY DEF With, Goto
<1>3. /\ call'[t].cli = cli
      /\ \A u \in Threads \ {t} : call'[u] = call[u] /\ pc'[u] = pc[u]
  BY <1>1, <1>2 DEF TypeInv, TypeOK, Calls, NoCall
<1>4. ExclusiveOwnership'
  BY DEF OwnershipInv, ExclusiveOwnership, SlotsDistinct, PoolsDistinct, SlotsNotPooled, InPool
<1>5. Numbered'
  <2>1. \A u \in Threads : call'[u].cli <= next_id
    BY <1>1, <1>3 DEF OwnershipInv, Numbered
  <2> QED
    BY <2>1, OwnershipParts DEF OwnershipInv, Numbered
<1>6. ASSUME NEW u \in Threads PROVE HeldApart(u)'
  <2> HIDE DEF cli
  <2>1. SUFFICES ASSUME Giving(u)' PROVE HeldApart(u)'
    BY DEF HeldApart
  <2>2. \A v \in Threads \ {t} : Giving(v)' => Giving(v)
    BY <1>3 DEF Giving
  <2>3. CASE u = t
    <3>1. id = t
      BY <1>2, <2>1, <2>3 DEF Giving, TypeInv, TypeOK, CallsOK, CallOK
    <3>2. ~In(pool', call'[t].cli)
      BY <1>1, <1>3, OwnershipParts DEF OwnershipInv, ExclusiveOwnership, SlotsNotPooled, cli
    <3>3. \A s \in Sources : clients'[s] = call'[t].cli => s = t
      BY <1>1, <1>3, <3>1
         DEF OwnershipInv, ExclusiveOwnership, SlotsDistinct, cli, NoAdapter, Adapters
    <3>4. ASSUME NEW v \in Threads \ {t}, Giving(v)', call'[v].cli = call'[t].cli
          PROVE  v = t
      <4>1. Giving(v) /\ clients[id] = call[v].cli
        BY <1>3, <2>2, <3>4 DEF cli
      <4> QED
        BY <1>1, <3>1, <4>1 DEF OwnershipInv, HeldApart
    <3> QED
      BY <2>3, <3>2, <3>3, <3>4, OwnershipParts DEF HeldApart
  <2>4. CASE u # t
    <3>1. Giving(u) /\ call'[u].cli = call[u].cli
      BY <1>3, <2>1, <2>2, <2>4
    <3>2. HeldApart(u)
      BY DEF OwnershipInv
    <3>3. ~In(pool', call'[u].cli)
      BY <3>1, <3>2, OwnershipParts DEF HeldApart
    <3>4. ASSUME NEW v \in Threads, Giving(v)', call'[v].cli = call'[u].cli
          PROVE  v = u
      <4>1. CASE v = t
        <5>1. id = t
          BY <1>2, <3>4, <4>1 DEF Giving, TypeInv, TypeOK, CallsOK, CallOK
        <5> QED
          BY <1>1, <1>3, <3>1, <3>2, <3>4, <4>1, <5>1 DEF HeldApart, cli
      <4>2. CASE v # t
        BY <1>3, <2>2, <3>1, <3>2, <3>4, <4>2 DEF HeldApart
      <4> QED
        BY <4>1, <4>2
    <3> QED
      BY <3>1, <3>2, <3>3, <3>4, OwnershipParts DEF HeldApart
  <2> QED
    BY <2>3, <2>4
<1> QED
  BY <1>4, <1>5, <1>6 DEF OwnershipInv

\* create_(): the adapter it returns is in no pool any more, comes from a pool
\* or is new, and whatever the pools gained is new.
LEMMA CreateTakes ==
    ASSUME OwnershipInv, TypeInv, NEW cli \in Adapters,
           TakeStartup(cli) \/ TakeSecondary(cli) \/ TakePrimary(cli) \/ TakeNew(cli)
    PROVE  /\ Distinct(pool')
           /\ ~In(pool', cli)
           /\ In(pool, cli) \/ cli > next_id
           /\ \A a : In(pool', a) => In(pool, a) \/ a > next_id
           /\ \A a \in Adapters : In(pool', a) => a <= next_id'
           /\ cli <= next_id'
           /\ next_id' \in Nat /\ next_id <= next_id'
<1>1. /\ pool \in Pools /\ Distinct(pool) /\ next_id \in Nat
      /\ \A a \in Adapters : In(pool, a) => a <= next_id
      /\ \A a : In(pool, a) => a \in Adapters
  BY OwnershipParts, PoolShape
     DEF OwnershipInv, ExclusiveOwnership, Numbered, TypeInv, TypeOK, AdapterTypeOK, Pools
<1>2. CASE TakeStartup(cli)
  <2> DEFINE r == [pool EXCEPT !.startup = Tail(@)]
  <2>1. /\ pool.startup # <<>> /\ cli = Head(pool.startup)
        /\ pool' = r /\ next_id' = next_id
    BY <1>2 DEF TakeStartup
  <2>2. /\ Distinct(r) /\ In(pool, cli) /\ ~In(r, cli)
        /\ \A a : In(r, a) => In(pool, a)
    BY <1>1, <2>1, PopFront DEF PoolNames
  <2> HIDE DEF r
  <2> QED
    BY <1>1, <2>1, <2>2
<1>3. CASE TakeSecondary(cli)
  <2> DEFINE r == [pool EXCEPT !.secondary = Tail(@)]
  <2>1. /\ pool.secondary # <<>> /\ cli = Head(pool.secondary)
        /\ pool' = r /\ next_id' = next_id
    BY <1>3 DEF TakeSecondary
  <2>2. /\ Distinct(r) /\ In(pool, cli) /\ ~In(r, cli)
        /\ \A a : In(r, a) => In(pool, a)
    BY <1>1, <2>1, PopFront DEF PoolNames
  <2> HIDE DEF r
  <2> QED
    BY <1>1, <2>1, <2>2
<1>4. CASE TakePrimary(cli)
  <2>1. PICK new \in Adapters :
            MakeStarted(new) /\ pool' = [pool EXCEPT !.primary = Append(Tail(@), new)]
    BY <1>4 DEF TakePrimary
  <2> DEFINE r == [pool EXCEPT !.primary = Tail(@)]
  <2>2. pool.primary # <<>> /\ cli = Head(pool.primary)
    BY <1>4 DEF TakePrimary
  <2>3. /\ r \in Pools /\ Distinct(r) /\ In(pool, cli) /\ ~In(r, cli)
        /\ \A a : In(r, a) => In(pool, a)
    BY <1>1, <2>2, PopFront DEF PoolNames
  <2>4. new = next_id + 1 /\ next_id' = new
    BY <2>1 DEF MakeStarted
  <2>5. ~In(r, new)
    <3>1. ~In(pool, new)
      BY <1>1, <2>4
    <3> HIDE DEF r
    <3> QED
      BY <2>3, <3>1
  <2>6. pool' = [r EXCEPT !.primary = Append(@, new)]
    BY <1>1, <2>1 DEF Pools
  <2>7. Distinct(pool') /\ \A b : In(pool', b) => In(r, b) \/ b = new
    <3> HIDE DEF r
    <3> QED
      BY <2>3, <2>5, <2>6, PushBack DEF PoolNames
  <2>8. cli <= next_id
    BY <1>1, <2>3
  <2> HIDE DEF r
  <2> QED
    BY <1>1, <2>3, <2>4, <2>7, <2>8 DEF Adapters
<1>5. CASE TakeNew(cli)
  BY <1>1, <1>5 DEF TakeNew, MakeStarted, Adapters
<1> QED
  BY <1>2, <1>3, <1>4, <1>5

\* The clients threads hold are numbered, NoAdapter included.
LEMMA CallNumbers ==
    ASSUME OwnershipInv, TypeInv, NEW u \in Threads
    PROVE  call[u].cli <= next_id /\ call[u].cli \in Nat
<1>1. call[u].cli \in Adapters \cup {NoAdapter}
  <2>1. call[u] \in Calls
    BY DEF TypeInv, TypeOK
  <2>2. CASE call[u] = NoCall
    BY <2>2 DEF NoCall
  <2> QED
    BY <2>1, <2>2, CallFields
<1> QED
  BY <1>1 DEF OwnershipInv, Numbered, Adapters, NoAdapter

\* upsert_: the adapter is put into the map if the place is still free.
LEMMA UpsertOwnership ==
    ASSUME OwnershipInv, TypeInv, NEW t \in Threads, UpsertCreate(t)
    PROVE  OwnershipInv'
<1>1. PICK cli \in Adapters :
          /\ TakeStartup(cli) \/ TakeSecondary(cli) \/ TakePrimary(cli) \/ TakeNew(cli)
          /\ Insert(call[t].id, cli)
          /\ With(t, cli, Deliver(t))
  BY DEF UpsertCreate
<1> DEFINE id == call[t].id
<1>2. id \in Sources /\ call[t] \in Calls /\ next_id \in Nat /\ pc[t] = "ucreate"
  BY CallFields DEF UpsertCreate, TypeInv, TypeOK, AdapterTypeOK, CallsOK, CallOK
<1>3. /\ Distinct(pool')
      /\ ~In(pool', cli)
      /\ In(pool, cli) \/ cli > next_id
      /\ \A a : In(pool', a) => In(pool, a) \/ a > next_id
      /\ \A a \in Adapters : In(pool', a) => a <= next_id'
      /\ cli <= next_id'
      /\ next_id' \in Nat /\ next_id <= next_id'
  BY <1>1, CreateTakes
<1>4. \A s \in Sources : clients'[s] = clients[s] \/ (s = id /\ clients'[s] = cli)
  BY <1>1, <1>2 DEF Insert, TypeInv, TypeOK
<1>5. /\ \A s \in Sources : clients[s] \in Adapters \cup {NoAdapter} /\ clients[s] <= next_id
      /\ \A s \in Sources : ~In(pool, clients[s])
      /\ \A s, q \in Sources : clients[s] = clients[q] /\ clients[s] # NoAdapter => s = q
  BY OwnershipParts DEF OwnershipInv, ExclusiveOwnership, SlotsDistinct, SlotsNotPooled,
     Numbered, TypeInv, TypeOK
<1>6. \A s \in Sources : clients[s] # cli
  BY <1>3, <1>5, <1>2 DEF Adapters, NoAdapter
<1>7. /\ call'[t].cli = cli /\ pc'[t] \in {"areg", "bind"}
      /\ \A u \in Threads \ {t} : call'[u] = call[u] /\ pc'[u] = pc[u]
  BY <1>1, <1>2 DEF With, Goto, Deliver, TypeInv, TypeOK, Calls, NoCall
<1> HIDE DEF id
<1>8. ExclusiveOwnership'
  <2>1. SlotsDistinct'
    BY <1>4, <1>5, <1>6 DEF SlotsDistinct
  <2>2. \A s \in Sources : ~In(pool', clients'[s])
    <3> SUFFICES ASSUME NEW s \in Sources PROVE ~In(pool', clients'[s])
      OBVIOUS
    <3>1. CASE clients'[s] = cli
      BY <1>3, <3>1
    <3>2. CASE clients'[s] = clients[s]
      BY <1>2, <1>3, <1>5, <3>2 DEF Adapters, NoAdapter
    <3> QED
      BY <1>4, <3>1, <3>2
  <2> QED
    BY <1>3, <2>1, <2>2, OwnershipParts DEF ExclusiveOwnership, SlotsNotPooled
<1>9. Numbered'
  <2>1. \A u \in Threads : call[u].cli <= next_id /\ call[u].cli \in Nat
    BY CallNumbers
  <2>2. \A u \in Threads : call'[u].cli <= next_id'
    BY <1>2, <1>3, <1>7, <2>1
  <2>3. \A s \in Sources : clients'[s] <= next_id'
    BY <1>2, <1>3, <1>4, <1>5 DEF Adapters, NoAdapter
  <2>4. \A a \in Adapters : InPool(a)' => a <= next_id'
    BY <1>3, OwnershipParts
  <2> QED
    BY <2>2, <2>3, <2>4 DEF Numbered
<1>10. ASSUME NEW u \in Threads, Giving(u)' PROVE HeldApart(u)'
  <2>1. u # t /\ Giving(u) /\ call'[u] = call[u]
    BY <1>7, <1>10 DEF Giving
  <2>2. HeldApart(u) /\ call[u].cli <= next_id /\ call[u].cli \in Nat
    BY CallNumbers DEF OwnershipInv
  <2>3. ~In(pool, call[u].cli)
    BY <2>1, <2>2, OwnershipParts DEF HeldApart
  <2>4. call[u].cli # cli /\ ~In(pool', call[u].cli)
    BY <1>2, <1>3, <2>2, <2>3
  <2>5. \A s \in Sources : clients'[s] = call'[u].cli => s = u
    BY <1>4, <2>1, <2>2, <2>4 DEF HeldApart
  <2>6. \A v \in Threads : Giving(v)' /\ call'[v].cli = call'[u].cli => v = u
    BY <1>7, <2>1, <2>2 DEF HeldApart, Giving
  <2> QED
    BY <2>1, <2>4, <2>5, <2>6, OwnershipParts DEF HeldApart
<1> QED
  BY <1>8, <1>9, <1>10 DEF OwnershipInv, HeldApart

\* unreg_io: the adapter leaves the map and goes to the pool or to nobody.
LEMMA EraseOwnership ==
    ASSUME OwnershipInv, TypeInv, NEW t \in Threads, Erase(t), UNCHANGED next_id
    PROVE  OwnershipInv'
<1> DEFINE a == call[t].cli
<1>1. /\ call[t].id = t /\ t \in Sources /\ a \in Adapters /\ Giving(t)
      /\ next_id \in Nat
  BY ClientCall DEF Erase, Giving, ClientSteps, TypeInv, TypeOK, AdapterTypeOK, CallsOK, CallOK
<1>2. /\ ~In(pool, a)
      /\ \A s \in Sources : clients[s] = a => s = t
      /\ \A u \in Threads : Giving(u) /\ call[u].cli = a => u = t
      /\ a <= next_id
  BY <1>1, OwnershipParts DEF OwnershipInv, HeldApart, Numbered
<1>3. /\ pool \in Pools /\ Distinct(pool)
      /\ \A b \in Adapters : In(pool, b) => b <= next_id
      /\ \A b : In(pool, b) => b \in Adapters
  BY OwnershipParts, PoolShape
     DEF OwnershipInv, ExclusiveOwnership, Numbered, TypeInv, TypeOK, Pools
<1>4. \A s \in Sources : clients'[s] = IF s = t THEN NoAdapter ELSE clients[s]
  BY <1>1 DEF Erase, TypeInv, TypeOK
<1>5. /\ Distinct(pool')
      /\ \A b : In(pool', b) => In(pool, b) \/ b = a
  <2>1. CASE pool' = [pool EXCEPT !.secondary = Append(@, a)]
    BY <1>1, <1>2, <1>3, <2>1, PushBack DEF PoolNames
  <2>2. CASE pool' = pool
    BY <1>3, <2>2
  <2> QED
    BY <2>1, <2>2 DEF Erase
<1>6. /\ \A u \in Threads \ {t} : call'[u] = call[u] /\ pc'[u] = pc[u]
      /\ ~Giving(t)'
      /\ call'[t].cli \in {a, NoAdapter}
  BY DEF Erase, Return, Goto, Giving, NoCall, TypeInv, TypeOK
<1> HIDE DEF a
<1>7. ExclusiveOwnership'
  <2>1. SlotsDistinct'
    BY <1>4 DEF SlotsDistinct, OwnershipInv, ExclusiveOwnership
  <2>2. \A s \in Sources : ~In(pool', clients'[s])
    <3> SUFFICES ASSUME NEW s \in Sources PROVE ~In(pool', clients'[s])
      OBVIOUS
    <3>1. CASE s = t
      BY <1>1, <1>3, <1>4, <1>5, <3>1 DEF NoAdapter, Adapters
    <3>2. CASE s # t
      <4>1. ~In(pool, clients[s]) /\ clients[s] # a
        BY <1>2, <3>2, OwnershipParts DEF OwnershipInv, ExclusiveOwnership, SlotsNotPooled
      <4> QED
        BY <1>4, <1>5, <3>2, <4>1
    <3> QED
      BY <3>1, <3>2
  <2> QED
    BY <1>5, <2>1, <2>2, OwnershipParts DEF ExclusiveOwnership, SlotsNotPooled
<1>8. Numbered'
  <2>1. \A u \in Threads : call'[u].cli <= next_id
    BY <1>1, <1>2, <1>6 DEF OwnershipInv, Numbered, NoAdapter
  <2>2. \A s \in Sources : clients'[s] <= next_id
    BY <1>1, <1>4 DEF OwnershipInv, Numbered, NoAdapter
  <2>3. \A b \in Adapters : InPool(b)' => b <= next_id
    BY <1>2, <1>3, <1>5, OwnershipParts
  <2> QED
    BY <2>1, <2>2, <2>3 DEF Numbered
<1>9. ASSUME NEW u \in Threads, Giving(u)' PROVE HeldApart(u)'
  <2>1. u # t /\ Giving(u) /\ call'[u] = call[u]
    BY <1>6, <1>9 DEF Giving
  <2>2. HeldApart(u) /\ call[u].cli # a /\ call[u].cli \in Adapters
    BY <1>2, <2>1, ClientCall DEF OwnershipInv, Giving, ClientSteps
  <2>3. ~In(pool', call[u].cli)
    BY <1>5, <2>1, <2>2, OwnershipParts DEF HeldApart
  <2>4. \A s \in Sources : clients'[s] = call'[u].cli => s = u
    BY <1>4, <2>1, <2>2 DEF HeldApart, NoAdapter, Adapters
  <2>5. \A v \in Threads : Giving(v)' /\ call'[v].cli = call'[u].cli => v = u
    BY <1>6, <2>1, <2>2 DEF HeldApart, Giving
  <2> QED
    BY <2>1, <2>3, <2>4, <2>5, OwnershipParts DEF HeldApart
<1> QED
  BY <1>7, <1>8, <1>9 DEF OwnershipInv, HeldApart

\* reconfigure_and_start: every adapter in the map and in the pools is new.
LEMMA RebuildOwnership ==
    ASSUME OwnershipInv, TypeInv, Rebuild
    PROVE  OwnershipInv'
<1> DEFINE n == Cardinality(Used)
           m(o) == IF startup_flag THEN o.startup ELSE 0
           last(o) == next_id + n + o.primary + m(o)
<1>1. PICK o \in Options :
          /\ last(o) \in 0 .. MaxAdapters
          /\ \E f \in [Used -> next_id + 1 .. next_id + n] :
               /\ \A s, r \in Used : f[s] = f[r] => s = r
               /\ clients' = [s \in Sources |-> IF s \in Used THEN f[s] ELSE NoAdapter]
          /\ pool' = [startup |-> NewPool(next_id + n + o.primary, m(o)),
                      primary |-> NewPool(next_id + n, o.primary),
                      secondary |-> <<>>]
          /\ next_id' = last(o)
  BY DEF Rebuild
<1>2. PICK f \in [Used -> next_id + 1 .. next_id + n] :
          /\ \A s, r \in Used : f[s] = f[r] => s = r
          /\ clients' = [s \in Sources |-> IF s \in Used THEN f[s] ELSE NoAdapter]
  BY <1>1
<1> DEFINE d == next_id
           p == o.primary
           k == m(o)
<1>3. n \in Nat /\ d \in Nat /\ p \in Nat /\ k \in Nat
  BY UsedCount, OptionsAssumption DEF PoolSizes, TypeInv, TypeOK, AdapterTypeOK
<1>4. d' = d + n + p + k /\ d + n + p + k <= MaxAdapters
  BY <1>1, <1>3
<1>5. pool' = [startup |-> NewPool(d + n + p, k), primary |-> NewPool(d + n, p),
               secondary |-> <<>>]
  BY <1>1
<1>6. \A s \in Sources : clients'[s] = IF s \in Used THEN f[s] ELSE NoAdapter
  BY <1>2
<1>7. \A s \in Used : f[s] \in Nat /\ d < f[s] /\ f[s] <= d + n
  BY <1>2, <1>3
<1>8. UNCHANGED threadVars
  BY DEF Rebuild
<1> HIDE DEF n, m, last, d, p, k
<1>9. /\ DOMAIN pool' = PoolNames
      /\ DOMAIN pool'["startup"] = 1 .. k
      /\ \A i \in 1 .. k : pool'["startup"][i] = d + n + p + i
      /\ DOMAIN pool'["primary"] = 1 .. p
      /\ \A i \in 1 .. p : pool'["primary"][i] = d + n + i
      /\ DOMAIN pool'["secondary"] = {}
  BY <1>5 DEF PoolNames, NewPool
<1>10. ASSUME NEW a, In(pool', a)
       PROVE  a \in Nat /\ d + n < a /\ a <= d + n + p + k
  <2>1. PICK q \in PoolNames : \E i \in DOMAIN pool'[q] : pool'[q][i] = a
    BY <1>9, <1>10 DEF In
  <2>2. CASE q = "startup"
    BY <1>3, <1>9, <2>1, <2>2
  <2>3. CASE q = "primary"
    BY <1>3, <1>9, <2>1, <2>3
  <2>4. CASE q = "secondary"
    BY <1>9, <2>1, <2>4
  <2> QED
    BY <2>2, <2>3, <2>4 DEF PoolNames
<1>11. Distinct(pool')
  <2>1. SUFFICES ASSUME NEW q \in PoolNames, NEW r \in PoolNames,
                        NEW i \in DOMAIN pool'[q], NEW j \in DOMAIN pool'[r],
                        pool'[q][i] = pool'[r][j]
                 PROVE  q = r /\ i = j
    BY <1>9 DEF Distinct
  <2>2. \/ q = "startup" /\ i \in 1 .. k /\ pool'[q][i] = d + n + p + i
        \/ q = "primary" /\ i \in 1 .. p /\ pool'[q][i] = d + n + i
    BY <1>9 DEF PoolNames
  <2>3. \/ r = "startup" /\ j \in 1 .. k /\ pool'[r][j] = d + n + p + j
        \/ r = "primary" /\ j \in 1 .. p /\ pool'[r][j] = d + n + j
    BY <1>9 DEF PoolNames
  <2> QED
    BY <1>3, <2>1, <2>2, <2>3
<1>12. ExclusiveOwnership'
  <2>1. SlotsDistinct'
    BY <1>2, <1>6 DEF SlotsDistinct
  <2>2. \A s \in Sources : ~In(pool', clients'[s])
    BY <1>3, <1>6, <1>7, <1>10 DEF NoAdapter
  <2> QED
    BY <1>11, <2>1, <2>2, OwnershipParts DEF ExclusiveOwnership, SlotsNotPooled
<1>13. \A u \in Threads : call'[u].cli <= d /\ call'[u].cli \in Nat
  BY <1>8, CallNumbers DEF threadVars, d
<1>14. Numbered'
  <2>1. next_id' = d + n + p + k
    BY <1>4 DEF d
  <2>2. \A u \in Threads : call'[u].cli <= next_id'
    BY <1>3, <1>13, <2>1
  <2>3. \A s \in Sources : clients'[s] <= next_id'
    BY <1>3, <1>6, <1>7, <2>1 DEF NoAdapter
  <2>4. \A a \in Adapters : InPool(a)' => a <= next_id'
    BY <1>10, <2>1, OwnershipParts
  <2> QED
    BY <2>2, <2>3, <2>4 DEF Numbered
<1>15. ASSUME NEW u \in Threads, Giving(u)' PROVE HeldApart(u)'
  <2>1. Giving(u) /\ call' = call /\ pc' = pc
    BY <1>8, <1>15 DEF Giving, threadVars
  <2>2. HeldApart(u) /\ call[u].cli \in Adapters
    BY <2>1, ClientCall DEF OwnershipInv, Giving, ClientSteps
  <2>3. call[u].cli \in Nat /\ call[u].cli # 0 /\ call[u].cli <= d
    BY <1>13, <2>1, <2>2 DEF Adapters
  <2>4. ~In(pool', call'[u].cli)
    BY <1>3, <1>10, <2>1, <2>3
  <2>5. \A s \in Sources : clients'[s] # call'[u].cli
    BY <1>3, <1>6, <1>7, <2>1, <2>3 DEF NoAdapter
  <2>6. \A v \in Threads : Giving(v)' /\ call'[v].cli = call'[u].cli => v = u
    BY <2>1, <2>2 DEF HeldApart, Giving
  <2> QED
    BY <2>4, <2>5, <2>6, OwnershipParts DEF HeldApart
<1> QED
  BY <1>12, <1>14, <1>15 DEF OwnershipInv, HeldApart

\* stop(): the map and the pools are empty.
LEMMA ClearOwnership ==
    ASSUME OwnershipInv, TypeInv, ClearAll
    PROVE  OwnershipInv'
<1>1. /\ clients' = [s \in Sources |-> NoAdapter]
      /\ pool' = [startup |-> <<>>, primary |-> <<>>, secondary |-> <<>>]
      /\ UNCHANGED <<pc, call, next_id>>
  BY DEF ClearAll, threadVars, adapterVars
<1>2. \A a : ~In(pool', a)
  BY <1>1 DEF In
<1>3. Distinct(pool')
  BY <1>1 DEF Distinct
<1>4. ExclusiveOwnership'
  BY <1>1, <1>2, <1>3, OwnershipParts DEF ExclusiveOwnership, SlotsDistinct, SlotsNotPooled
<1>5. Numbered'
  <2>1. next_id \in Nat
    BY DEF TypeInv, TypeOK, AdapterTypeOK
  <2> QED
    BY <1>1, <1>2, <2>1, OwnershipParts DEF OwnershipInv, Numbered, NoAdapter
<1>6. ASSUME NEW u \in Threads, Giving(u)' PROVE HeldApart(u)'
  <2>1. Giving(u)
    BY <1>1, <1>6 DEF Giving
  <2>2. HeldApart(u) /\ call[u].cli # NoAdapter
    BY <2>1, ClientCall DEF OwnershipInv, Giving, ClientSteps, NoAdapter, Adapters
  <2> QED
    BY <1>1, <1>2, <2>1, <2>2, OwnershipParts DEF HeldApart, Giving
<1> QED
  BY <1>4, <1>5, <1>6 DEF OwnershipInv, HeldApart

-----------------------------------------------------------------------------
LEMMA OwnershipInit == Init => OwnershipInv
<1> SUFFICES ASSUME Init PROVE OwnershipInv
  OBVIOUS
<1>1. \A a : ~InPool(a)
  BY DEF Init, MapInit, InPool
<1>2. ExclusiveOwnership
  BY <1>1 DEF Init, MapInit, ExclusiveOwnership, SlotsDistinct, PoolsDistinct, SlotsNotPooled
<1>3. Numbered
  BY <1>1 DEF Init, MapInit, AdapterInit, Numbered, NoCall, NoAdapter
<1>4. \A t \in Threads : HeldApart(t)
  BY DEF Init, MapInit, HeldApart, Giving
<1> QED
  BY <1>2, <1>3, <1>4 DEF OwnershipInv

\* The steps of a thread inside a call of the map keep the invariant.
LEMMA MapStepOwnership ==
    ASSUME OwnershipInv, TypeInv, NEW t \in Threads, MapStep(t)
    PROVE  OwnershipInv'
<1> USE DEF mapVars, adapterVars, Giving
<1>1. CASE TestStopFlag(t)
  BY <1>1, ThreadUntouched DEF TestStopFlag, Steps
<1>2. CASE Find(t)
  <2>1. CASE clients[call[t].id] = NoAdapter
    BY <1>2, <2>1, ThreadUntouched DEF Find, Steps
  <2>2. CASE clients[call[t].id] # NoAdapter
    BY <1>2, <2>2, FoundClient DEF Find, Steps
  <2> QED
    BY <2>1, <2>2
<1>3. CASE UpsertFind(t)
  <2>1. CASE clients[call[t].id] = NoAdapter
    BY <1>3, <2>1, ThreadUntouched DEF UpsertFind, Steps
  <2>2. CASE clients[call[t].id] # NoAdapter
    BY <1>3, <2>2, FoundClient DEF UpsertFind, Deliver, Steps
  <2> QED
    BY <2>1, <2>2
<1>4. CASE UpsertCreate(t)
  BY <1>4, UpsertOwnership
<1>5. CASE AdapterRegIo(t) \/ StopErased(t) \/ Send(t)
  BY <1>5, ThreadUntouched DEF AdapterRegIo, StopErased, Send
<1>6. CASE AdapterUnregIo(t)
  <2>1. /\ UNCHANGED <<clients, pool, next_id, call>>
        /\ \A u \in Threads : Giving(u)' => Giving(u)
    BY <1>6 DEF AdapterUnregIo, Goto, TypeInv, TypeOK
  <2>2. \A u \in Threads : call'[u].cli <= next_id
    BY <2>1, CallNumbers
  <2> QED
    BY <2>1, <2>2, MapUntouched
<1>7. CASE Erase(t)
  BY <1>7, EraseOwnership DEF Erase
<1>8. CASE Bind(t)
  BY <1>8, ThreadUntouched DEF Bind, Steps
<1> QED
  BY <1>1, <1>2, <1>3, <1>4, <1>5, <1>6, <1>7, <1>8 DEF MapStep

\* A step that changes neither threads nor the map keeps it.
LEMMA OwnershipStutter ==
    ASSUME OwnershipInv, TypeInv, UNCHANGED <<clients, pool, next_id, pc, call>>
    PROVE  OwnershipInv'
  BY CallNumbers, MapUntouched DEF Giving

LEMMA OwnershipStep ==
    ASSUME OwnershipInv, TypeInv, [Next]_vars
    PROVE  OwnershipInv'
<1> USE DEF mapVars, adapterVars, threadVars
<1>1. ASSUME NEW t \in Threads, CallStep(t) PROVE OwnershipInv'
  <2>1. CASE TestStarted(t)
    BY <2>1, ThreadUntouched DEF TestStarted, Steps
  <2>2. CASE Wait(t)
    BY <2>2, ThreadUntouched DEF Wait
  <2>3. CASE MapStep(t)
    BY <2>3, MapStepOwnership
  <2> QED
    BY <1>1, <2>1, <2>2, <2>3 DEF CallStep
<1>2. ASSUME NEW s \in Sources, SourceStep(s) PROVE OwnershipInv'
  <2>1. CASE Connect(s)
    BY <2>1, ThreadUntouched DEF Connect, Threads, Operations
  <2>2. CASE Ask(s)
    <3>1. PICK op \in Messages : PerformIo(s, op, s)
      BY <2>2 DEF Ask
    <3>2. op \in Operations /\ UNCHANGED <<clients, pool, next_id>>
      BY <2>2, RequestsAssumption DEF Ask, Operations
    <3> QED
      BY <3>1, <3>2, ThreadUntouched DEF PerformIo, Threads
  <2>3. CASE Post(s)
    BY <2>3, OwnershipStutter DEF Post
  <2>4. CASE Disconnect(s)
    BY <2>4, ThreadUntouched DEF Disconnect, Threads, Operations
  <2>5. CASE Destroy(s)
    BY <2>5, OwnershipStutter DEF Destroy
  <2>6. ASSUME NEW a \in Adapters, Answer(a, s) PROVE OwnershipInv'
    BY <2>6, OwnershipStutter DEF Answer, Answered
  <2> QED
    BY <1>2, <2>1, <2>2, <2>3, <2>4, <2>5, <2>6 DEF SourceStep
<1>3. ASSUME NEW w \in Workers, Take(w) PROVE OwnershipInv'
  <2>1. Head(posted) \in Sources \X Sends
    BY <1>3 DEF Take, TypeInv, TypeOK
  <2>2. Head(posted)[1] \in Sources /\ Head(posted)[2] \in Operations
    BY <2>1 DEF Operations
  <2> QED
    BY <1>3, <2>2, ThreadUntouched DEF Take, PerformIo, Threads
<1>4. CASE StartRefused \/ Start \/ Stop \/ SetSuspend
  BY <1>4, OwnershipStutter DEF StartRefused, Start, Stop, SetSuspend
<1>5. CASE SetStarted \/ LockWaitList \/ UnlockWaitList \/ Terminated
  BY <1>5, OwnershipStutter DEF SetStarted, LockWaitList, UnlockWaitList, Terminated, vars
<1>6. CASE RegisterWaiting
  <2>1. PICK s \in todo :
            \/ suspended /\ UNCHANGED threadVars
            \/ ~suspended /\ Enter(Main, "reg", s, "route")
    BY <1>6 DEF RegisterWaiting
  <2>2. s \in Sources /\ Main \in Threads /\ UNCHANGED <<clients, pool, next_id>>
    BY <1>6 DEF RegisterWaiting, TypeInv, TypeOK, Threads
  <2> QED
    BY <2>1, <2>2, ThreadUntouched DEF Operations
<1>7. CASE Reconfigure
  <2>1. CASE Rebuild
    BY <2>1, RebuildOwnership
  <2>2. CASE ~Rebuild
    BY <1>7, <2>2, OwnershipStutter
       DEF Reconfigure, ListClients, StopListed, StopAdapter, AllStopped, StartListed, LowerStopFlag
  <2> QED
    BY <2>1, <2>2
<1>8. CASE StopMap
  <2>1. CASE ClearAll
    BY <2>1, ClearOwnership
  <2>2. CASE ~ClearAll
    BY <1>8, <2>2, OwnershipStutter
       DEF StopMap, RaiseStopFlag, ListClients, StopListed, StopAdapter, AllStopped
  <2> QED
    BY <2>1, <2>2
<1>9. CASE UNCHANGED vars
  BY <1>9, OwnershipStutter DEF vars
<1> QED
  BY <1>1, <1>2, <1>3, <1>4, <1>5, <1>6, <1>7, <1>8, <1>9 DEF Next, LifeCycleStep

\* Whatever reg_io, unreg_io, perform_io, restart and stop do to the map and
\* the pools at the same time, an adapter that unreg_io has found and not yet
\* given back belongs to the source that leaves and to nobody else, and an
\* adapter that is made is nobody's.
THEOREM OwnershipInvariance == Spec => []OwnershipInv
<1>1. Init => TypeInv /\ OwnershipInv
  BY TypeInit, OwnershipInit
<1>2. TypeInv /\ OwnershipInv /\ [Next]_vars => (TypeInv /\ OwnershipInv)'
  BY OwnershipStep, TypeStutter, MapStepType, LifeCycleMapType, OwnStepType
<1> QED
  BY <1>1, <1>2, PTL DEF Spec

\* No adapter ever has two owners: two sources never share a client, and a
\* client that serves a source waits in no pool, whatever calls of reg_io,
\* unreg_io and perform_io race with each other, with a restart and with stop.
THEOREM OwnershipExclusive == Spec => []ExclusiveOwnership
<1>1. OwnershipInv => ExclusiveOwnership
  BY DEF OwnershipInv
<1> QED
  BY <1>1, OwnershipInvariance, PTL
=============================================================================
