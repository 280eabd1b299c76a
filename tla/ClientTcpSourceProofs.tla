------------------------ MODULE ClientTcpSourceProofs ------------------------
(***************************************************************************)
(* Theorems about client-tcp as its sources see it: sources that are not   *)
(* late for the wait list get a client, and, for sources that call it      *)
(* directly, a source that has left leaves nothing behind and an adapter   *)
(* is registered for one source at a time although it comes back to a pool *)
(* in between.                                                             *)
(***************************************************************************)
EXTENDS ClientTcpUseProofs

USE SourcesAssumption, AdaptersAssumption, ThreadsAssumption

-----------------------------------------------------------------------------
(* What a step does to a call, to the wait list and to the life cycle      *)

\* A step inside a call ends it, for one of the reasons of the code, or goes on
\* to the next step of the same call.
Ends(t) ==
    /\ pc'[t] = "idle" /\ call'[t] = NoCall
    /\ pc[t] \in {"wait", "flag", "find", "areg", "erase", "astop", "send"}
    /\ pc[t] = "flag" => stop_flag
    /\ pc[t] = "find" => call[t].op = "unreg" /\ clients[call[t].id] = NoAdapter

GoesOn(t) ==
    /\ call'[t].op = call[t].op /\ call'[t].id = call[t].id
    /\ \/ pc[t] = "route" /\ pc'[t] = IF started THEN "flag" ELSE "wait"
       \/ pc[t] = "flag" /\ pc'[t] = "ufind" /\ call[t].op = "reg"
       \/ pc[t] = "flag" /\ pc'[t] = "find" /\ call[t].op # "reg"
       \/ pc[t] = "find" /\ pc'[t] \in {"ufind", "bind"} /\ call[t].op # "unreg"
       \/ pc[t] = "find" /\ pc'[t] = "aunreg"
       \/ pc[t] = "ufind" /\ pc'[t] = "ucreate"
       \/ pc[t] = "ufind" /\ pc'[t] \in {"areg", "bind"} /\ clients[call[t].id] # NoAdapter
       \/ pc[t] = "ucreate" /\ pc'[t] \in {"areg", "bind"}
       \/ pc[t] = "aunreg" /\ pc'[t] = "erase"
       \/ pc[t] = "erase" /\ pc'[t] = "astop"
       \/ pc[t] = "bind" /\ pc'[t] = "send"

LEMMA CallFlow ==
    ASSUME TypeInv, NEW t \in Threads, CallStep(t)
    PROVE  Ends(t) \/ GoesOn(t)
<1>1. pc[t] # "idle"
  BY CallStepStays
<1>2. call[t] \in Calls /\ call[t] # NoCall
  BY <1>1 DEF TypeInv, TypeOK, CallsOK, CallOK
<1>3. call[t] \in [op : Operations, id : Sources, cli : Adapters \cup {NoAdapter}]
  BY <1>2 DEF Calls
<1>4. \A step : Goto(t, step) => pc'[t] = step
  BY DEF Goto, TypeInv, TypeOK
<1>5. \A step, cli : With(t, cli, step) =>
          pc'[t] = step /\ call'[t].op = call[t].op /\ call'[t].id = call[t].id
  BY <1>3, <1>4 DEF With, TypeInv, TypeOK
<1>6. Return(t) => pc'[t] = "idle" /\ call'[t] = NoCall
  BY <1>4 DEF Return, TypeInv, TypeOK
<1>7. CASE TestStarted(t) \/ TestStopFlag(t) \/ AdapterUnregIo(t) \/ Bind(t)
  BY <1>4, <1>6, <1>7 DEF TestStarted, TestStopFlag, AdapterUnregIo, Bind, Ends, GoesOn
<1>8. CASE Wait(t) \/ AdapterRegIo(t) \/ StopErased(t) \/ Send(t)
  BY <1>6, <1>8 DEF Wait, AdapterRegIo, StopErased, Send, Ends
<1>9. CASE Find(t)
  BY <1>4, <1>5, <1>6, <1>9 DEF Find, Ends, GoesOn
<1>10. CASE UpsertFind(t) \/ UpsertCreate(t)
  BY <1>4, <1>5, <1>10 DEF UpsertFind, UpsertCreate, Deliver, GoesOn
<1>11. CASE Erase(t)
  BY <1>4, <1>6, <1>11 DEF Erase, Ends, GoesOn
<1> QED
  BY <1>7, <1>8, <1>9, <1>10, <1>11 DEF CallStep, MapStep

\* The calls a thread enters.
Entered(u) ==
    \/ /\ u \in Sources /\ Connect(u)
       /\ pc'[u] = "route" /\ call'[u].op = "reg" /\ call'[u].id = u
    \/ /\ u \in Sources /\ Ask(u)
       /\ pc'[u] = "flag" /\ call'[u].op \in Sends /\ call'[u].id = u
    \/ /\ u \in Sources /\ Disconnect(u)
       /\ pc'[u] = "route" /\ call'[u].op = "unreg" /\ call'[u].id = u
    \/ /\ u \in Workers /\ Take(u)
       /\ pc'[u] = "flag" /\ call'[u].op \in Sends
    \/ /\ u = Main /\ RegisterWaiting
       /\ pc'[u] = "route" /\ call'[u].op = "reg" /\ call'[u].id \in todo
       /\ todo' = todo \ {call'[u].id}

LEMMA EntersHow ==
    ASSUME TypeInv, NEW u \in Threads, Enters(u)
    PROVE  \/ suspended /\ pc'[u] = pc[u] /\ call'[u] = call[u]
           \/ u \in Workers /\ pc'[u] = pc[u] /\ call'[u] = call[u]
           \/ Entered(u)
<1>1. \A op, id, step : Enter(u, op, id, step) =>
          pc'[u] = step /\ call'[u].op = op /\ call'[u].id = id
  BY DEF Enter, TypeInv, TypeOK
<1> USE DEF threadVars
<1>2. CASE u \in Sources /\ Connect(u)
  BY <1>1, <1>2 DEF Connect, Entered
<1>3. CASE u \in Sources /\ Ask(u)
  <2>1. PICK op \in Messages : PerformIo(u, op, u)
    BY <1>3 DEF Ask
  <2> QED
    BY <1>1, <1>3, <2>1, RequestsAssumption DEF PerformIo, Entered
<1>4. CASE u \in Sources /\ Disconnect(u)
  BY <1>1, <1>4 DEF Disconnect, Entered
<1>5. CASE u \in Workers /\ Take(u)
  <2>1. posted \in Seq(Sources \X Sends) /\ posted # <<>>
    BY <1>5 DEF Take, TypeInv, TypeOK
  <2>2. Head(posted) \in Sources \X Sends
    BY <2>1
  <2> QED
    BY <1>1, <1>5, <2>2 DEF Take, PerformIo, Entered
<1>6. CASE u = Main /\ RegisterWaiting
  BY <1>1, <1>6 DEF RegisterWaiting, Entered
<1> QED
  BY <1>2, <1>3, <1>4, <1>5, <1>6 DEF Enters

\* Where the wait list, the switches and the place of Main come from.
OwnChange ==
    /\ wait_list' = wait_list \/ \E t \in Threads : Wait(t)
    /\ todo' = todo \/ LockWaitList \/ RegisterWaiting
    /\ late' = late \/ LockWaitList
    /\ started' = started \/ SetStarted \/ Stop
    /\ suspended' = suspended \/ SetSuspend
    /\ stop_flag' = stop_flag \/ (phase = "start_clients" /\ stop_flag' = FALSE) \/ RaiseStopFlag

Restarting == {"list", "stop_clients", "rebuild", "start_clients"}

Ended == {"final_list", "final_stop", "clear", "stopped"}

PhaseMove ==
    \/ phase' = phase
    \/ SetStarted \/ LockWaitList \/ UnlockWaitList \/ Stop \/ RaiseStopFlag
    \/ /\ phase \in Restarting \cup {"initialized", "running"}
       /\ phase' \in Restarting \cup {"set_started", "running"}
    \/ phase \in Ended /\ phase' \in Ended

LEMMA OwnChanges ==
    ASSUME [Next]_vars
    PROVE  OwnChange /\ PhaseMove
<1> USE DEF ownVars, mainVars, mapVars, OwnChange, PhaseMove
<1>1. ASSUME NEW t \in Threads, CallStep(t) PROVE OwnChange /\ PhaseMove
  <2>1. CASE MapStep(t) /\ UNCHANGED ownVars
    BY <2>1 DEF MapStep, TestStopFlag, Find, UpsertFind, UpsertCreate, AdapterRegIo,
                AdapterUnregIo, Erase, StopErased, Bind, Send
  <2>2. CASE TestStarted(t) \/ Wait(t)
    BY <2>2 DEF TestStarted, Wait
  <2> QED
    BY <1>1, <2>1, <2>2 DEF CallStep
<1>2. ASSUME NEW s \in Sources, SourceStep(s) PROVE OwnChange /\ PhaseMove
  BY <1>2 DEF SourceStep, Connect, Ask, Post, Disconnect, Destroy, Answer
<1>3. ASSUME NEW w \in Workers, Take(w) PROVE OwnChange /\ PhaseMove
  BY <1>3 DEF Take
<1>4. CASE StartRefused \/ Start \/ Stop \/ SetSuspend
  BY <1>4 DEF StartRefused, Start, Stop, SetSuspend, Restarting
<1>5. CASE SetStarted \/ LockWaitList \/ RegisterWaiting \/ UnlockWaitList
  BY <1>5 DEF SetStarted, LockWaitList, RegisterWaiting, UnlockWaitList
<1>6. CASE Reconfigure
  BY <1>6 DEF Reconfigure, ListClients, StopListed, AllStopped, Rebuild, StartListed,
              LowerStopFlag, Restarting
<1>7. CASE StopMap
  BY <1>7 DEF StopMap, RaiseStopFlag, ListClients, StopListed, AllStopped, ClearAll, Ended
<1>8. CASE UNCHANGED vars
  BY <1>8 DEF vars
<1> QED
  BY <1>1, <1>2, <1>3, <1>4, <1>5, <1>6, <1>7, <1>8 DEF Next, LifeCycleStep, Terminated

\* The place of a source in _clients.
LEMMA SlotChange ==
    ASSUME TypeInv, [Next]_vars, NEW s \in Sources
    PROVE  \/ clients'[s] = NoAdapter <=> clients[s] = NoAdapter
           \/ \E t \in Threads : UpsertCreate(t) /\ call[t].id = s /\ clients'[s] # NoAdapter
           \/ \E t \in Threads : Erase(t) /\ call[t].id = s /\ clients'[s] = NoAdapter
           \/ ClearAll
<1>1. ASSUME NEW t \in Threads, UpsertCreate(t)
      PROVE  \/ clients'[s] = NoAdapter <=> clients[s] = NoAdapter
             \/ call[t].id = s /\ clients'[s] # NoAdapter
  <2>1. PICK cli \in Adapters : Insert(call[t].id, cli)
    BY <1>1 DEF UpsertCreate
  <2> QED
    BY <2>1 DEF Insert, TypeInv, TypeOK, Adapters, NoAdapter
<1>2. ASSUME NEW t \in Threads, Erase(t)
      PROVE  \/ clients'[s] = NoAdapter <=> clients[s] = NoAdapter
             \/ call[t].id = s /\ clients'[s] = NoAdapter
  BY <1>2 DEF Erase, TypeInv, TypeOK
<1>3. CASE Rebuild
  <2>1. PICK f, n : /\ n = Cardinality(Used)
                    /\ f \in [Used -> next_id + 1 .. next_id + n]
                    /\ clients' = [r \in Sources |-> IF r \in Used THEN f[r] ELSE NoAdapter]
    BY <1>3 DEF Rebuild
  <2>2. next_id \in Nat /\ n \in Nat
    BY <2>1, UsedCount DEF TypeInv, TypeOK, AdapterTypeOK
  <2>3. s \in Used => f[s] # NoAdapter
    BY <2>1, <2>2 DEF NoAdapter
  <2> QED
    BY <2>1, <2>3 DEF Used
<1> QED
  BY <1>1, <1>2, <1>3, MapChange

\* After create_ and insert the source has a client.
LEMMA CreateFills ==
    ASSUME TypeInv, NEW t \in Threads, UpsertCreate(t)
    PROVE  call[t].id \in Sources /\ clients'[call[t].id] # NoAdapter
<1>1. call[t].id \in Sources
  BY CallFields DEF UpsertCreate, TypeInv, TypeOK, CallsOK, CallOK
<1>2. PICK cli \in Adapters : Insert(call[t].id, cli)
  BY DEF UpsertCreate
<1> QED
  BY <1>1, <1>2 DEF Insert, TypeInv, TypeOK, Adapters, NoAdapter

-----------------------------------------------------------------------------
(* What calls there are                                                    *)

Ending == phase \in Ended \cup {"raise_flag"}

(***************************************************************************)
(* _stop_flag is up from the stop on, and never before; only reg_io and    *)
(* unreg_io go by way of the wait list; unreg_io makes no client; and it   *)
(* is called by sources that have left.                                    *)
(***************************************************************************)
FlagInv == stop_flag <=> phase \in Ended

CallerInv ==
    \A t \in Threads :
        /\ pc[t] \in {"ufind", "ucreate", "areg", "bind", "send"} => call[t].op # "unreg"
        /\ pc[t] \in {"route", "wait"} => call[t].op \in {"reg", "unreg"}
        /\ call[t].op = "unreg" => stage[t] = "left"

LEMMA FlagStep ==
    ASSUME FlagInv, [Next]_vars
    PROVE  FlagInv' /\ (Ending => Ending')
<1>1. OwnChange /\ PhaseMove
  BY OwnChanges
<1>2. CASE RaiseStopFlag
  BY <1>2 DEF RaiseStopFlag, FlagInv, Ending, Ended
<1>3. CASE ~RaiseStopFlag
  BY <1>1, <1>3 DEF OwnChange, PhaseMove, FlagInv, Ending, Ended, Restarting, SetStarted,
                    LockWaitList, UnlockWaitList, Stop
<1> QED
  BY <1>2, <1>3

\* A source that has left is gone for good.
LEMMA LeftStays ==
    ASSUME TypeInv, [Next]_vars, NEW s \in Sources
    PROVE  /\ stage[s] = "left" => stage'[s] = "left"
           /\ stage[s] # "new" => stage'[s] # "new"
           /\ stage'[s] = "up" => stage[s] = "up" \/ Connect(s)
  BY StageChange

LEMMA CallerStep ==
    ASSUME TypeInv, IdleInv, CallerInv, [Next]_vars
    PROVE  CallerInv'
<1>1. SUFFICES ASSUME NEW t \in Threads
      PROVE /\ pc'[t] \in {"ufind", "ucreate", "areg", "bind", "send"} => call'[t].op # "unreg"
            /\ pc'[t] \in {"route", "wait"} => call'[t].op \in {"reg", "unreg"}
            /\ call'[t].op = "unreg" => stage'[t] = "left"
  BY DEF CallerInv
<1>2. call[t].op = "unreg" => t \in Sources
  <2>1. call[t].op = "unreg" => call[t] # NoCall /\ call[t].id = t
    BY DEF TypeInv, CallsOK, CallOK, NoCall
  <2> QED
    BY <2>1, CallFields DEF TypeInv, TypeOK
<1>3. CASE pc'[t] = pc[t] /\ call'[t] = call[t]
  BY <1>2, <1>3, LeftStays DEF CallerInv
<1>4. CASE CallStep(t)
  <2>1. CASE Ends(t)
    BY <2>1 DEF Ends, NoCall
  <2>2. CASE GoesOn(t)
    <3>1. call'[t].op = "unreg" => stage'[t] = "left"
      BY <1>2, <2>2, LeftStays DEF GoesOn, CallerInv
    <3> QED
      BY <2>2, <3>1 DEF GoesOn, CallerInv
  <2> QED
    BY <1>4, <2>1, <2>2, CallFlow
<1>5. CASE Entered(t)
  <2>1. CASE t \in Sources /\ Disconnect(t)
    BY <1>5, <2>1 DEF Entered, Disconnect, TypeInv, TypeOK
  <2> QED
    BY <1>5, <2>1 DEF Entered, Sends
<1> QED
  BY <1>3, <1>4, <1>5, OwnSteps, EntersHow

CallsInv == FlagInv /\ IdleInv /\ CallerInv

LEMMA CallsInvariance == Spec => [](TypeInv /\ OwnershipInv /\ CallsInv)
<1>1. Init => FlagInv /\ CallerInv
  BY DEF Init, MapInit, FlagInv, Ended, CallerInv, NoCall
<1>2. TypeInv /\ IdleInv /\ FlagInv /\ CallerInv /\ [Next]_vars => FlagInv' /\ CallerInv'
  BY FlagStep, CallerStep
<1> QED
  BY <1>1, <1>2, AllInvariance, IdleInvariance, PTL DEF Spec, CallsInv

-----------------------------------------------------------------------------
(* Sources that call client-tcp directly                                   *)

DirectCallers == Workers = {} /\ EarlySources = FALSE

\* The client of a source that has left is on its way out.
Leaving(s) ==
    /\ call[s].op = "unreg"
    /\ pc[s] \in {"route", "flag", "find", "aunreg", "erase"}

(***************************************************************************)
(* The only threads are the sources themselves, each in a call for its own *)
(* io_id.  Nobody has come before the start, so the wait list stays empty  *)
(* until client-tcp is stopped, no unreg_io ends in it, and a client       *)
(* belongs to a source that is up or whose unreg_io has not erased it yet. *)
(***************************************************************************)
DirectInv ==
    /\ pc[Main] = "idle" /\ todo = {}
    /\ \A s \in Sources :
          pc[s] # "idle" => call[s].id = s /\ (call[s].op # "unreg" => stage[s] = "up")
    /\ ~Ending =>
          /\ wait_list = {}
          /\ started \/ \A s \in Sources : stage[s] = "new"
          /\ \A s \in Sources : pc[s] # "wait"
          /\ \A s \in Sources : clients[s] # NoAdapter => stage[s] = "up" \/ Leaving(s)

\* The parts of the invariant, one step later.
LEMMA DirectMain ==
    ASSUME DirectCallers, TypeInv, CallsInv, DirectInv, [Next]_vars
    PROVE  pc'[Main] = "idle" /\ todo' = {}
<1>1. ~RegisterWaiting
  BY DEF RegisterWaiting, DirectInv
<1>2. Main \in Threads /\ Main \notin Sources /\ Main \notin Workers
  BY DEF Threads
<1>3. ~Enters(Main) /\ ~CallStep(Main)
  BY <1>1, <1>2, CallStepStays DEF Enters, DirectInv
<1>4. pc'[Main] = "idle"
  BY <1>2, <1>3, OwnSteps DEF DirectInv
<1>5. LockWaitList => todo' = {}
  BY DEF LockWaitList, DirectInv, Ending, Ended
<1> QED
  BY <1>1, <1>4, <1>5, OwnChanges DEF OwnChange, DirectInv

\* A source's own calls are all there are.
LEMMA DirectThreads ==
    ASSUME DirectCallers, TypeInv, DirectInv, NEW t \in Threads, pc[t] # "idle"
    PROVE  t \in Sources /\ call[t].id = t
  BY DEF Threads, DirectCallers, DirectInv

LEMMA DirectCalls ==
    ASSUME DirectCallers, TypeInv, CallsInv, DirectInv, [Next]_vars,
           NEW s \in Sources, pc'[s] # "idle"
    PROVE  call'[s].id = s /\ (call'[s].op # "unreg" => stage'[s] = "up")
<1>1. s \in Threads /\ s \notin Workers /\ s # Main
  BY DEF Threads
<1>2. stage[s] = "up" => stage'[s] = "up" \/ Disconnect(s)
  BY StageChange
<1>3. Disconnect(s) => pc[s] = "idle" /\ call'[s].op = "unreg" /\ call'[s].id = s
  BY <1>1 DEF Disconnect, Enter, TypeInv, TypeOK
<1>4. CASE pc'[s] = pc[s] /\ call'[s] = call[s]
  BY <1>2, <1>3, <1>4 DEF DirectInv
<1>5. CASE CallStep(s)
  <2>1. pc[s] # "idle" /\ (Ends(s) \/ GoesOn(s))
    BY <1>1, <1>5, CallFlow, CallStepStays
  <2> QED
    BY <1>2, <1>3, <2>1 DEF Ends, GoesOn, DirectInv
<1>6. CASE Entered(s)
  <2>1. call'[s].id = s
    BY <1>1, <1>6 DEF Entered
  <2>2. Connect(s) => stage'[s] = "up"
    BY DEF Connect, TypeInv, TypeOK
  <2>3. Ask(s) => stage'[s] = "up"
    BY DEF Ask, CanAsk
  <2> QED
    BY <1>1, <1>6, <2>1, <2>2, <2>3 DEF Entered
<1> QED
  BY <1>1, <1>4, <1>5, <1>6, OwnSteps, EntersHow

\* Before the stop no call comes to the wait list.
LEMMA DirectStarted ==
    ASSUME DirectCallers, TypeInv, CallsInv, DirectInv, [Next]_vars, ~Ending, ~Ending'
    PROVE  /\ wait_list' = {}
           /\ started' \/ \A s \in Sources : stage'[s] = "new"
           /\ \A s \in Sources : pc'[s] # "wait"
<1>1. \A t \in Threads : pc[t] # "wait"
  BY DirectThreads DEF DirectInv
<1>2. wait_list' = {}
  BY <1>1, OwnChanges DEF OwnChange, Wait, DirectInv
<1>3. ~Stop
  BY DEF Stop, Ending
<1>4. started => started'
  BY <1>3, OwnChanges DEF OwnChange, SetStarted
<1>5. ~started => \A s \in Sources : stage'[s] = "new"
  BY StageChange DEF Connect, Disconnect, DirectCallers, DirectInv
<1>6. ASSUME NEW s \in Sources PROVE pc'[s] # "wait"
  <2>1. s \in Threads
    BY DEF Threads
  <2>2. pc[s] = "route" => started
    BY DEF DirectInv, CallsInv, IdleInv
  <2>3. CallStep(s) => pc'[s] # "wait"
    BY <2>1, <2>2, CallFlow DEF Ends, GoesOn
  <2>4. Enters(s) => pc'[s] # "wait"
    BY <2>1, EntersFresh DEF CallsInv
  <2> QED
    BY <1>1, <2>1, <2>3, <2>4, OwnSteps
<1> QED
  BY <1>2, <1>4, <1>5, <1>6 DEF DirectInv

LEMMA DirectClients ==
    ASSUME DirectCallers, TypeInv, CallsInv, DirectInv, [Next]_vars, ~Ending, ~Ending',
           NEW s \in Sources, clients'[s] # NoAdapter
    PROVE  stage'[s] = "up" \/ Leaving(s)'
<1>1. s \in Threads
  BY DEF Threads
<1>2. stage[s] = "up" => stage'[s] = "up" \/ Leaving(s)'
  <2>1. Disconnect(s) => pc'[s] = "route" /\ call'[s].op = "unreg"
    BY <1>1 DEF Disconnect, Enter, TypeInv, TypeOK
  <2> QED
    BY <2>1, StageChange DEF Leaving
<1>3. ASSUME NEW t \in Threads, UpsertCreate(t), call[t].id = s PROVE stage[s] = "up"
  <2>1. pc[t] = "ucreate" /\ t = s /\ call[t].op # "unreg"
    BY <1>3, DirectThreads DEF UpsertCreate, CallsInv, CallerInv
  <2> QED
    BY <2>1 DEF DirectInv
<1>4. ASSUME clients[s] # NoAdapter, Leaving(s), ~Erase(s) PROVE Leaving(s)'
  <2>1. ~stop_flag /\ pc[s] # "idle" /\ call[s].id = s
    BY <1>4 DEF CallsInv, FlagInv, Ending, Leaving, DirectInv
  <2>2. ~Enters(s)
    BY <1>1, <2>1, EntersFresh DEF CallsInv
  <2>3. CASE CallStep(s)
    <3>1. pc[s] # "erase"
      BY <1>4, <2>3 DEF CallStep, TestStarted, Wait, MapStep, TestStopFlag, Find, UpsertFind,
                        UpsertCreate, AdapterRegIo, AdapterUnregIo, StopErased, Bind, Send
    <3>2. pc'[s] # "wait"
      BY DirectStarted
    <3> QED
      BY <1>1, <1>4, <2>1, <2>3, <3>1, <3>2, CallFlow DEF Ends, GoesOn, Leaving
  <2> QED
    BY <1>1, <1>4, <2>2, <2>3, OwnSteps DEF Leaving
<1>5. Erase(s) => clients'[s] = NoAdapter
  <2>1. Erase(s) => call[s].id = s
    BY <1>1, DirectThreads DEF Erase
  <2> QED
    BY <2>1 DEF Erase, TypeInv, TypeOK
<1>6. ~ClearAll
  BY DEF ClearAll, Ending, Ended
<1>7. clients[s] # NoAdapter => stage[s] = "up" \/ Leaving(s)
  BY DEF DirectInv
<1> QED
  BY <1>2, <1>3, <1>4, <1>5, <1>6, <1>7, SlotChange

LEMMA DirectStep ==
    ASSUME DirectCallers, TypeInv, CallsInv, DirectInv, [Next]_vars
    PROVE  DirectInv'
<1>1. Ending => Ending'
  BY FlagStep DEF CallsInv
<1>2. ASSUME ~Ending'
      PROVE  /\ wait_list' = {}
             /\ started' \/ \A s \in Sources : stage'[s] = "new"
             /\ \A s \in Sources : pc'[s] # "wait"
             /\ \A s \in Sources : clients'[s] # NoAdapter => stage'[s] = "up" \/ Leaving(s)'
  BY <1>1, <1>2, DirectStarted, DirectClients
<1> QED
  BY <1>2, DirectMain, DirectCalls DEF DirectInv

LEMMA DirectInvariance ==
    ASSUME DirectCallers
    PROVE  Spec => [](TypeInv /\ OwnershipInv /\ CallsInv /\ DirectInv)
<1>1. Init => DirectInv
  BY DEF Init, MapInit, DirectInv, Threads
<1>2. TypeInv /\ CallsInv /\ DirectInv /\ [Next]_vars => DirectInv'
  BY DirectStep
<1> QED
  BY <1>1, <1>2, CallsInvariance, PTL DEF Spec

\* While client-tcp is not being stopped, a source that has called it directly
\* and left, its unreg_io included, has no client any more, even if restarts
\* replaced its client while it left.
THEOREM NothingLeftBehind ==
    ASSUME DirectCallers
    PROVE  Spec => []NoClientLeftBehind
<1>1. DirectInv => NoClientLeftBehind
  <2>1. SUFFICES ASSUME DirectInv, NEW s \in Sources, stage[s] = "left", ~Busy(s),
                        phase \in Settled
                 PROVE  clients[s] = NoAdapter
    BY DEF NoClientLeftBehind
  <2>2. ~Ending /\ s \in Threads
    BY <2>1 DEF Settled, Ending, Ended, Threads
  <2>3. pc[s] = "idle"
    BY <2>1, <2>2 DEF Busy, DirectInv
  <2> QED
    BY <2>1, <2>2, <2>3 DEF DirectInv, Leaving
<1> QED
  BY <1>1, DirectInvariance, PTL

-----------------------------------------------------------------------------
(* Direct callers and adapters that come back                              *)

(***************************************************************************)
(* unreg_io has released the holder of the adapter it is about to put back *)
(* into the pool, and nobody registers there in between: the source whose  *)
(* thread this is has the adapter to itself.                               *)
(***************************************************************************)
ErasedFree == \A t \in Threads : pc[t] = "erase" => adapter[call[t].cli].holder_id = NoId

\* The thread that works with an adapter is the only one that does.
LEMMA OneWorker ==
    ASSUME DirectCallers, TypeInv, DirectInv, ApartInv, NEW t \in Threads, NEW u \in Threads,
           pc[t] \in ClientSteps, pc[u] # "idle", call[u].cli = call[t].cli
    PROVE  u = t
<1>1. t \in Sources /\ u \in Sources /\ call[t].id = t /\ call[u].id = u
  BY DirectThreads DEF ClientSteps
<1>2. call[t].cli \in Adapters
  BY ClientCall
<1>3. Serves(t, call[t].cli) /\ Serves(u, call[t].cli)
  BY <1>1 DEF Serves
<1> QED
  BY <1>1, <1>2, <1>3 DEF ApartInv

\* The steps of a call before and after erase.
LEMMA EraseStage ==
    ASSUME TypeInv, IdleInv, [Next]_vars, NEW t \in Threads, pc'[t] = "erase"
    PROVE  call'[t].cli = call[t].cli /\ (pc[t] = "erase" \/ AdapterUnregIo(t))
<1>1. CASE CallStep(t)
  <2>1. pc[t] = "aunreg"
    BY <1>1, CallFlow DEF Ends, GoesOn
  <2> QED
    BY <1>1, <2>1 DEF CallStep, TestStarted, Wait, MapStep, TestStopFlag, Find, UpsertFind,
          UpsertCreate, AdapterRegIo, AdapterUnregIo, Erase, StopErased, Bind, Send
<1>2. CASE Enters(t)
  BY <1>2, EntersFresh
<1> QED
  BY <1>1, <1>2, OwnSteps

LEMMA ErasedStep ==
    ASSUME DirectCallers, TypeInv, OwnershipInv, CallsInv, DirectInv, ApartInv, HolderIdInv,
           ErasedFree, [Next]_vars
    PROVE  ErasedFree'
<1>1. SUFFICES ASSUME NEW t \in Threads, pc'[t] = "erase"
               PROVE  adapter'[call'[t].cli].holder_id = NoId
  BY DEF ErasedFree
<1>2. PICK a : a = call[t].cli
  OBVIOUS
<1>3. call'[t].cli = a /\ (pc[t] = "erase" \/ AdapterUnregIo(t))
  BY <1>1, <1>2, EraseStage DEF CallsInv
<1>4. pc[t] \in {"aunreg", "erase"}
  BY <1>3 DEF AdapterUnregIo
<1>5. a \in Adapters /\ call[t].id \in Sources /\ Serves(call[t].id, a)
  BY <1>2, <1>4, WorkerServes DEF ClientSteps
<1>6. CASE AdapterUnregIo(t)
  <2>1. adapter[a].holder_id \in {NoId, call[t].id} /\ adapter[a] \in AdapterState
    BY <1>5 DEF HolderIdInv, TypeInv, TypeOK, AdapterTypeOK
  <2>2. adapter'[a] = UnregisteredFrom(adapter[a], call[t].id)
    BY <1>2, <1>5, <1>6 DEF AdapterUnregIo, TypeInv, TypeOK, AdapterTypeOK
  <2> QED
    BY <1>3, <1>5, <2>1, <2>2, HolderOperations
<1>7. CASE pc[t] = "erase"
  <2>1. adapter[a].holder_id = NoId
    BY <1>2, <1>7 DEF ErasedFree
  <2>2. ASSUME NEW u \in Threads PROVE ~HolderSet(a, u)
    <3>1. HolderSet(a, u) => pc[u] \in {"areg", "bind"} /\ call[u].cli = call[t].cli
      BY <1>2 DEF HolderSet, AdapterRegIo, Bind
    <3> QED
      BY <1>7, <3>1, OneWorker DEF ClientSteps
  <2>3. HolderChange(a)
    BY <1>5, HolderChanges
  <2> QED
    BY <1>3, <2>1, <2>2, <2>3 DEF HolderChange, SameHolder, HolderReleased, HolderNew
<1> QED
  BY <1>3, <1>6, <1>7

\* unreg_io puts an adapter back: nobody serves a source with it any more.
LEMMA ReturnApart ==
    ASSUME DirectCallers, TypeInv, OwnershipInv, CallsInv, DirectInv, ApartInv, HolderIdInv,
           ErasedFree, NEW t \in Threads, Erase(t), pool' # pool, NEW a \in Adapters
    PROVE  /\ a # call[t].cli => Gains(a)
           /\ a = call[t].cli => /\ adapter'[a].holder_id = NoId
                                 /\ \A s \in Sources : ~Serves(s, a)'
<1> DEFINE b == call[t].cli
<1>0. pc[t] = "erase" /\ b \in Adapters /\ b # NoAdapter
  BY ClientCall DEF Erase, ClientSteps, Adapters, NoAdapter
<1>1. /\ pool' = [pool EXCEPT !.secondary = Append(@, b)]
      /\ Return(t)
      /\ UNCHANGED adapterVars
  BY DEF Erase
<1>2. call'[t] = NoCall /\ \A u \in Threads \ {t} : call'[u] = call[u]
  BY <1>1 DEF Return, TypeInv, TypeOK
<1>3. \A s \in Sources : clients'[s] \in {clients[s], NoAdapter} /\ clients'[call[t].id] = NoAdapter
  <2>1. call[t].id \in Sources
    BY <1>0, ClientCall DEF ClientSteps
  <2> QED
    BY <2>1 DEF Erase, TypeInv, TypeOK
<1>4. a # NoAdapter
  BY DEF Adapters, NoAdapter
<1>5. \A s \in Sources : Serves(s, a)' => Serves(s, a)
  BY <1>2, <1>3, <1>4 DEF Serves, NoCall
<1>6. CASE a # b
  <2>1. ~In(pool, b) /\ pool \in Pools /\ Distinct(pool)
    BY <1>0, OwnershipParts
       DEF TypeInv, TypeOK, Pools, OwnershipInv, ExclusiveOwnership, HeldApart, Giving
  <2>2. In(pool', a) => In(pool, a)
    BY <1>0, <1>1, <1>6, <2>1, PushBack DEF PoolNames
  <2> QED
    BY <1>5, <1>6, <2>2, OwnershipParts, ShrinkGains
<1>7. CASE a = b
  <2>1. adapter'[a].holder_id = NoId
    BY <1>0, <1>1, <1>7 DEF ErasedFree, adapterVars
  <2>2. call[t].id = t /\ t \in Sources
    BY <1>0, DirectThreads
  <2>3. \A s \in Sources : clients'[s] # a
    BY <1>0, <1>3, <1>4, <1>7, <2>2 DEF OwnershipInv, HeldApart, Giving
  <2>4. ASSUME NEW u \in Threads \ {t} PROVE call[u].cli # a
    <3>1. call[u].cli = a => pc[u] # "idle"
      BY <1>4 DEF CallsInv, IdleInv, NoCall
    <3> QED
      BY <1>0, <1>7, <3>1, OneWorker DEF ClientSteps
  <2> QED
    BY <1>2, <1>4, <1>7, <2>1, <2>3, <2>4 DEF Serves, NoCall
<1> QED
  BY <1>6, <1>7

ReuseInv == ApartInv /\ HolderIdInv /\ ErasedFree

LEMMA ReuseStep ==
    ASSUME DirectCallers, TypeInv, OwnershipInv, CallsInv, DirectInv, ReuseInv,
           TypeInv', OwnershipInv', [Next]_vars
    PROVE  ReuseInv'
<1>1. ErasedFree'
  BY ErasedStep DEF ReuseInv
<1>2. CASE \A t \in Threads : Erase(t) => pool' = pool
  <2>1. \A a \in Adapters : Gains(a)
    BY <1>2, GainsStep DEF ReuseInv
  <2>2. ApartInv'
    BY <2>1, ApartStep DEF ReuseInv
  <2>3. HolderIdInv'
    BY <2>1, HolderIdStep DEF ReuseInv, HolderIdInv
  <2> QED
    BY <1>1, <2>2, <2>3 DEF ReuseInv
<1>3. ASSUME NEW t \in Threads, Erase(t), pool' # pool
      PROVE  ApartInv' /\ HolderIdInv'
  <2>1. ASSUME NEW a \in Adapters, a # call[t].cli
        PROVE  /\ \A s \in Sources : Serves(s, a)' =>
                     ~InPool(a)' /\ \A r \in Sources : Serves(r, a)' => r = s
               /\ InPool(a)' => adapter'[a].holder_id = NoId
               /\ \A s \in Sources : Serves(s, a)' => adapter'[a].holder_id \in {NoId, s}
    <3>1. Gains(a)
      BY <1>3, <2>1, ReturnApart DEF ReuseInv
    <3>2. /\ InPool(a)' => adapter'[a].holder_id = NoId
          /\ \A s \in Sources : Serves(s, a)' => adapter'[a].holder_id \in {NoId, s}
      BY <3>1, HolderIdStep DEF ReuseInv
    <3>3. ASSUME NEW s \in Sources, Serves(s, a)'
          PROVE  ~InPool(a)' /\ \A r \in Sources : Serves(r, a)' => r = s
      <4>1. CASE Fresh(a)
        BY <3>1, <3>3, <4>1 DEF Gains
      <4>2. CASE ~Fresh(a)
        BY <3>1, <3>3, <4>2 DEF Gains, ReuseInv, ApartInv
      <4> QED
        BY <4>1, <4>2
    <3> QED
      BY <3>2, <3>3
  <2>2. ASSUME NEW a \in Adapters, a = call[t].cli
        PROVE  adapter'[a].holder_id = NoId /\ \A s \in Sources : ~Serves(s, a)'
    BY <1>3, <2>2, ReturnApart DEF ReuseInv
  <2>3. ApartInv'
    BY <2>1, <2>2 DEF ApartInv
  <2>4. HolderIdInv'
    BY <2>1, <2>2 DEF HolderIdInv
  <2> QED
    BY <2>3, <2>4
<1> QED
  BY <1>1, <1>2, <1>3 DEF ReuseInv

LEMMA ReuseInvariance ==
    ASSUME DirectCallers
    PROVE  Spec => [](TypeInv /\ ReuseInv)
<1> DEFINE I == TypeInv /\ OwnershipInv /\ CallsInv /\ DirectInv
<1>1. Init => ReuseInv
  <2>1. Init => ErasedFree
    BY DEF Init, MapInit, ErasedFree
  <2> QED
    BY <2>1, UseInit DEF ReuseInv
<1>2. I /\ I' /\ ReuseInv /\ [Next]_vars => ReuseInv'
  BY ReuseStep
<1>3. Spec => []I
  BY DirectInvariance
<1> QED
  BY <1>1, <1>2, <1>3, PTL DEF Spec

\* Sources that call client-tcp directly never meet the assertion "Several
\* sources are unacceptable", although their adapters come back to the secondary
\* pool and are handed out again.
THEOREM OneHolderWhenDirect ==
    ASSUME DirectCallers
    PROVE  Spec => []NeverSeveralSources
<1>1. TypeInv /\ ReuseInv => NeverSeveralSources
  BY UsesNeverSeveral DEF ReuseInv
<1> QED
  BY <1>1, ReuseInvariance, PTL

-----------------------------------------------------------------------------
(* Registrations                                                           *)

NeverSuspended == TRUE \notin Suspends

\* Thread t is in reg_io for source s, which it has not put anywhere yet.
Registering(t, s) ==
    /\ call[t].op = "reg" /\ call[t].id = s
    /\ pc[t] \in {"route", "wait", "flag", "ufind", "ucreate"}

(***************************************************************************)
(* Main is inside reg_io only while it registers the wait list, and never  *)
(* waits for itself there.                                                 *)
(***************************************************************************)
MainInv ==
    /\ suspended = FALSE
    /\ pc[Main] # "idle" => phase = "register" /\ pc[Main] # "wait" /\ call[Main].op = "reg"
    /\ phase \in {"lock", "register"} => started

\* The sources that reg_io and unreg_io are called for have come up, and so have
\* those in the wait list.
CameInv ==
    /\ \A t \in Threads : call[t].op \in {"reg", "unreg"} => stage[call[t].id] # "new"
    /\ \A s \in wait_list \cup todo : stage[s] # "new"

(***************************************************************************)
(* A source that is up has a client, is in the wait list, or is on its way *)
(* to one of them; and while Main registers the wait list, each source of  *)
(* it that is up is still to come, is being registered by Main, or has a   *)
(* client.                                                                 *)
(***************************************************************************)
KeptInv ==
    /\ ~Ending => \A s \in Sources : stage[s] = "up" =>
          clients[s] # NoAdapter \/ s \in wait_list \/ Registering(s, s)
    /\ phase = "register" => \A s \in wait_list : stage[s] = "up" =>
          s \in todo \/ clients[s] # NoAdapter \/ Registering(Main, s)

(***************************************************************************)
(* _client_started is down before the start and from the stop on; once it  *)
(* is set nobody is on the way to the wait list but those who are late for *)
(* it; and after the start whoever is not late has a client or is on the   *)
(* way to one.                                                             *)
(***************************************************************************)
ServedInv ==
    /\ Ending => ~started
    /\ started /\ phase # "lock" => \A s \in Sources \ late : pc[s] # "wait"
    /\ started /\ phase \notin {"lock", "register"} =>
          \A s \in Sources \ late : stage[s] = "up" =>
              clients[s] # NoAdapter \/ Registering(s, s)

RegistrationInv == MainInv /\ CameInv /\ KeptInv /\ ServedInv

LEMMA MainStep ==
    ASSUME NeverSuspended, TypeInv, CallsInv, MainInv, [Next]_vars
    PROVE  MainInv'
<1>1. suspended' = FALSE
  <2>1. ~SetSuspend
    BY SwitchesAssumption DEF SetSuspend, NeverSuspended, MainInv
  <2> QED
    BY <2>1, OwnChanges DEF OwnChange, MainInv
<1>2. phase' \in {"lock", "register"} => started'
  <2>1. CASE phase \in {"lock", "register"}
    <3>1. ~Stop
      BY <2>1 DEF Stop
    <3>2. started
      BY <2>1 DEF MainInv
    <3> QED
      BY <3>1, <3>2, OwnChanges DEF OwnChange, SetStarted
  <2>2. CASE phase \notin {"lock", "register"} /\ phase' \in {"lock", "register"}
    <3>1. SetStarted
      BY <2>2, OwnChanges DEF PhaseMove, LockWaitList, UnlockWaitList, Stop, RaiseStopFlag,
                              Restarting, Ended
    <3> QED
      BY <3>1 DEF SetStarted
  <2> QED
    BY <2>1, <2>2
<1>3. Main \in Threads /\ Main \notin Sources /\ Main \notin Workers
  BY DEF Threads
<1>4. ASSUME pc'[Main] # "idle"
      PROVE  phase' = "register" /\ pc'[Main] # "wait" /\ call'[Main].op = "reg"
  <2>1. CASE CallStep(Main)
    <3>1. pc[Main] # "idle"
      BY <1>3, <2>1, CallStepStays
    <3>2. phase = "register" /\ pc[Main] # "wait" /\ call[Main].op = "reg" /\ started
      BY <3>1 DEF MainInv
    <3>3. pc'[Main] # "wait" /\ call'[Main].op = "reg"
      BY <1>3, <1>4, <2>1, <3>2, CallFlow DEF Ends, GoesOn
    <3>4. ~UnlockWaitList
      BY <3>1 DEF UnlockWaitList
    <3>5. phase' = "register"
      BY <3>2, <3>4, OwnChanges DEF PhaseMove, SetStarted, LockWaitList, Stop, RaiseStopFlag,
                                    Restarting, Ended
    <3> QED
      BY <3>3, <3>5
  <2>2. CASE Enters(Main)
    <3>1. RegisterWaiting
      BY <1>3, <2>2 DEF Enters
    <3>2. phase' = "register" /\ pc[Main] = "idle"
      BY <3>1 DEF RegisterWaiting, mainVars
    <3>3. Entered(Main)
      BY <1>3, <1>4, <2>2, <3>2, EntersHow DEF MainInv
    <3> QED
      BY <1>3, <3>2, <3>3 DEF Entered
  <2>3. CASE pc'[Main] = pc[Main] /\ call'[Main] = call[Main]
    <3>1. phase = "register" /\ pc[Main] # "wait" /\ call[Main].op = "reg"
      BY <1>4, <2>3 DEF MainInv
    <3>2. ~UnlockWaitList
      BY <1>4, <2>3 DEF UnlockWaitList
    <3>3. phase' = "register"
      BY <3>1, <3>2, OwnChanges DEF PhaseMove, SetStarted, LockWaitList, Stop, RaiseStopFlag,
                                    Restarting, Ended
    <3> QED
      BY <2>3, <3>1, <3>3
  <2> QED
    BY <1>3, <2>1, <2>2, <2>3, OwnSteps
<1> QED
  BY <1>1, <1>2, <1>4 DEF MainInv

LEMMA CameStep ==
    ASSUME TypeInv, CallsInv, CameInv, [Next]_vars
    PROVE  CameInv'
<1>1. ASSUME NEW t \in Threads, call'[t].op \in {"reg", "unreg"}
      PROVE  stage'[call'[t].id] # "new"
  <2>1. ASSUME call[t].op \in {"reg", "unreg"} PROVE stage'[call[t].id] # "new"
    <3>1. call[t] \in Calls /\ call[t] # NoCall
      BY <2>1 DEF TypeInv, TypeOK, NoCall
    <3>2. call[t].id \in Sources
      BY <3>1, CallFields
    <3> QED
      BY <2>1, <3>2, LeftStays DEF CameInv
  <2>2. CASE pc'[t] = pc[t] /\ call'[t] = call[t]
    BY <1>1, <2>1, <2>2
  <2>3. CASE CallStep(t)
    BY <1>1, <2>1, <2>3, CallFlow DEF Ends, GoesOn, NoCall
  <2>4. CASE Entered(t)
    <3>1. call'[t].op = "reg" /\ t = Main => call'[t].id \in todo /\ stage'[call'[t].id] # "new"
      <4>1. Main \notin Sources /\ Main \notin Workers
        BY DEF Threads
      <4>2. todo \subseteq Sources
        BY DEF TypeInv, TypeOK
      <4> QED
        BY <2>4, <4>1, <4>2, LeftStays DEF Entered, CameInv
    <3>2. t \in Sources => (Connect(t) => stage'[t] # "new") /\ (Disconnect(t) => stage'[t] # "new")
      BY DEF Connect, Disconnect, TypeInv, TypeOK
    <3> QED
      BY <1>1, <2>4, <3>1, <3>2 DEF Entered, Sends
  <2> QED
    BY <2>2, <2>3, <2>4, OwnSteps, EntersHow
<1>2. ASSUME NEW s \in wait_list' \cup todo' PROVE stage'[s] # "new"
  <2>1. wait_list \subseteq Sources /\ todo \subseteq Sources
    BY DEF TypeInv, TypeOK
  <2>2. \A r \in wait_list \cup todo : stage'[r] # "new"
    BY <2>1, LeftStays DEF CameInv
  <2>3. todo' \subseteq todo \cup wait_list
    BY OwnChanges DEF OwnChange, LockWaitList, RegisterWaiting
  <2>4. ASSUME NEW t \in Threads, Wait(t), s \in wait_list' PROVE stage'[s] # "new"
    <3>1. pc[t] = "wait" /\ call[t].op \in {"reg", "unreg"}
      BY <2>4 DEF Wait, CallsInv, CallerInv
    <3>2. call[t].id \in Sources /\ stage[call[t].id] # "new"
      BY <3>1, CallFields DEF CameInv, TypeInv, TypeOK, CallsOK, CallOK
    <3>3. stage'[call[t].id] # "new"
      BY <3>2, LeftStays
    <3> QED
      BY <2>2, <2>4, <3>3 DEF Wait
  <2> QED
    BY <1>2, <2>2, <2>3, <2>4, OwnChanges DEF OwnChange
<1> QED
  BY <1>1, <1>2 DEF CameInv

\* unreg_io only takes away the client and the place in the wait list of a
\* source that has left.
LEMMA UpKeeps ==
    ASSUME TypeInv, CallsInv, [Next]_vars, ~Ending, NEW s \in Sources, stage[s] = "up"
    PROVE  /\ clients[s] # NoAdapter => clients'[s] # NoAdapter
           /\ s \in wait_list => s \in wait_list'
<1>1. ASSUME NEW t \in Threads, call[t].op = "unreg" PROVE call[t].id # s
  BY <1>1 DEF CallsInv, CallerInv, TypeInv, CallsOK, CallOK
<1>2. ASSUME NEW t \in Threads, Erase(t) PROVE call[t].id # s
  BY <1>1, <1>2 DEF Erase, TypeInv, CallsOK, CallOK
<1>3. ASSUME NEW t \in Threads, Wait(t), s \in wait_list PROVE s \in wait_list'
  BY <1>1, <1>3 DEF Wait, CallsInv, CallerInv
<1>4. ~ClearAll
  BY DEF ClearAll, Ending, Ended
<1> QED
  BY <1>2, <1>3, <1>4, SlotChange, OwnChanges DEF OwnChange

\* reg_io goes on until the source is in the wait list or has a client.
LEMMA RegisteringStep ==
    ASSUME TypeInv, CallsInv, [Next]_vars, ~Ending, NEW t \in Threads, NEW s \in Sources,
           Registering(t, s)
    PROVE  \/ Registering(t, s)'
           \/ clients[s] # NoAdapter \/ clients'[s] # NoAdapter
           \/ pc[t] = "wait" /\ s \in wait_list'
<1>1. ~Enters(t)
  BY EntersFresh DEF Registering, CallsInv
<1>2. CASE CallStep(t)
  <2>1. ~stop_flag
    BY DEF CallsInv, FlagInv, Ending
  <2>2. pc[t] = "wait" => s \in wait_list'
    BY <1>2 DEF CallStep, TestStarted, Wait, MapStep, TestStopFlag, Find, UpsertFind,
          UpsertCreate, AdapterRegIo, AdapterUnregIo, Erase, StopErased, Bind, Send, Registering
  <2>3. pc[t] = "ucreate" => UpsertCreate(t)
    BY <1>2 DEF CallStep, TestStarted, Wait, MapStep, TestStopFlag, Find, UpsertFind,
          AdapterRegIo, AdapterUnregIo, Erase, StopErased, Bind, Send
  <2>4. pc[t] = "ucreate" => clients'[s] # NoAdapter
    BY <2>3, CreateFills DEF Registering
  <2> QED
    BY <1>2, <2>1, <2>2, <2>4, CallFlow DEF Ends, GoesOn, Registering
<1>3. CASE pc'[t] = pc[t] /\ call'[t] = call[t]
  BY <1>3 DEF Registering
<1> QED
  BY <1>1, <1>2, <1>3, OwnSteps

LEMMA KeptStep ==
    ASSUME TypeInv, CallsInv, RegistrationInv, [Next]_vars
    PROVE  KeptInv'
<1> USE DEF RegistrationInv
<1>1. Ending => Ending'
  BY FlagStep DEF CallsInv
<1>2. ASSUME ~Ending', NEW s \in Sources, stage'[s] = "up"
      PROVE  clients'[s] # NoAdapter \/ s \in wait_list' \/ Registering(s, s)'
  <2>1. s \in Threads /\ s # Main /\ s \notin Workers
    BY DEF Threads
  <2>2. CASE stage[s] = "up"
    <3>1. clients[s] # NoAdapter \/ s \in wait_list \/ Registering(s, s)
      BY <1>1, <1>2, <2>2 DEF KeptInv
    <3> QED
      BY <1>1, <1>2, <2>1, <2>2, <3>1, UpKeeps, RegisteringStep
  <2>3. CASE stage[s] # "up"
    <3>1. Connect(s) /\ stage[s] = "new"
      BY <1>2, <2>3, StageChange
    <3>2. Enters(s) /\ pc[s] = "idle"
      BY <2>1, <3>1 DEF Enters, CallsInv, IdleInv
    <3>3. Enter(s, "reg", s, "route")
      BY <3>1 DEF Connect, MainInv
    <3> QED
      BY <2>1, <3>3 DEF Enter, Registering, TypeInv, TypeOK
  <2> QED
    BY <2>2, <2>3
<1>3. ASSUME phase' = "register", NEW s \in wait_list', stage'[s] = "up"
      PROVE  s \in todo' \/ clients'[s] # NoAdapter \/ Registering(Main, s)'
  <2>1. Main \in Threads /\ Main \notin Sources /\ Main \notin Workers
    BY DEF Threads
  <2>2. CASE LockWaitList
    BY <1>3, <2>2 DEF LockWaitList
  <2>3. CASE ~LockWaitList
    <3>1. phase = "register" /\ ~Ending
      BY <1>3, <2>3, OwnChanges
         DEF PhaseMove, SetStarted, UnlockWaitList, Stop, RaiseStopFlag, Restarting,
             Ending, Ended
    <3>2. wait_list' = wait_list
      BY <3>1, OwnChanges DEF OwnChange, Wait, MainInv
    <3>3. s \in wait_list /\ s \in Sources /\ stage[s] = "up"
      <4>1. s \in wait_list /\ s \in Sources /\ stage[s] # "new"
        BY <1>3, <3>2 DEF CameInv, TypeInv, TypeOK
      <4> QED
        BY <1>3, <4>1, StageChange DEF TypeInv, TypeOK
    <3>4. CASE clients[s] # NoAdapter
      BY <3>1, <3>3, <3>4, UpKeeps
    <3>5. CASE Registering(Main, s)
      <4>1. pc[Main] # "wait"
        BY <3>5 DEF MainInv, Registering
      <4> QED
        BY <2>1, <3>1, <3>3, <3>4, <3>5, <4>1, RegisteringStep
    <3>6. CASE s \in todo /\ s \notin todo'
      <4>1. RegisterWaiting
        BY <2>3, <3>6, OwnChanges DEF OwnChange
      <4>2. PICK r \in todo : todo' = todo \ {r} /\ Enter(Main, "reg", r, "route")
        BY <4>1 DEF RegisterWaiting, MainInv
      <4> QED
        BY <2>1, <3>6, <4>2 DEF Enter, Registering, TypeInv, TypeOK
    <3> QED
      BY <3>1, <3>3, <3>4, <3>5, <3>6 DEF KeptInv
  <2> QED
    BY <2>2, <2>3
<1> QED
  BY <1>2, <1>3 DEF KeptInv

LEMMA ServedStep ==
    ASSUME TypeInv, CallsInv, RegistrationInv, [Next]_vars
    PROVE  ServedInv'
<1> USE DEF RegistrationInv
<1>1. Ending' => ~started'
  <2>1. CASE Stop
    BY <2>1 DEF Stop
  <2>2. CASE ~Stop
    <3>1. Ending' => Ending
      BY <2>2, OwnChanges DEF PhaseMove, SetStarted, LockWaitList, UnlockWaitList, RaiseStopFlag,
                              Restarting, Ending, Ended
    <3>2. SetStarted => ~Ending'
      BY DEF SetStarted, Ending, Ended
    <3> QED
      BY <2>2, <3>1, <3>2, OwnChanges DEF OwnChange, ServedInv
  <2> QED
    BY <2>1, <2>2
\* After the walk of the wait list was begun, the flag and `late' stay.
<1>2. ASSUME started', phase' # "lock", ~LockWaitList
      PROVE  started /\ phase # "lock" /\ late' = late
  <2>1. ~SetStarted /\ ~Stop
    BY <1>2 DEF SetStarted, Stop
  <2>2. phase # "lock"
    BY <1>2, <2>1, OwnChanges DEF PhaseMove, UnlockWaitList, RaiseStopFlag, Restarting, Ended
  <2> QED
    BY <1>2, <2>1, <2>2, OwnChanges DEF OwnChange
<1>3. ASSUME started', phase' # "lock", NEW s \in Sources, s \notin late'
      PROVE  pc'[s] # "wait"
  <2>1. CASE LockWaitList
    BY <1>3, <2>1 DEF LockWaitList, threadVars
  <2>2. CASE ~LockWaitList
    <3>1. started /\ pc[s] # "wait"
      BY <1>2, <1>3, <2>2 DEF ServedInv
    <3>2. s \in Threads
      BY DEF Threads
    <3>3. CASE CallStep(s)
      BY <3>1, <3>2, <3>3, CallFlow DEF Ends, GoesOn
    <3>4. CASE Enters(s)
      BY <3>1, <3>2, <3>4, EntersHow DEF Entered
    <3> QED
      BY <3>1, <3>2, <3>3, <3>4, OwnSteps
  <2> QED
    BY <2>1, <2>2
<1>4. ASSUME started', phase' \notin {"lock", "register"},
             NEW s \in Sources, s \notin late', stage'[s] = "up"
      PROVE  clients'[s] # NoAdapter \/ Registering(s, s)'
  <2>1. ~LockWaitList /\ ~Ending' /\ s \in Threads /\ s # Main /\ s \notin Workers
    BY <1>1, <1>4 DEF LockWaitList, Threads
  <2>2. ~Ending /\ started /\ phase # "lock" /\ late' = late /\ pc'[s] # "wait"
    BY <1>2, <1>3, <1>4, <2>1, FlagStep DEF CallsInv
  <2>3. CASE UnlockWaitList
    <3>1. /\ stage' = stage /\ clients' = clients /\ pc' = pc /\ call' = call
          /\ phase = "register" /\ todo = {} /\ pc[Main] = "idle"
      BY <2>3 DEF UnlockWaitList, mapVars, threadVars, sourceVars
    <3>2. clients[s] # NoAdapter \/ Registering(s, s)
      BY <1>4, <2>2, <3>1 DEF KeptInv, Registering
    <3> QED
      BY <3>1, <3>2 DEF Registering
  <2>4. CASE ~UnlockWaitList /\ stage[s] = "up"
    <3>1. phase # "register"
      BY <1>4, <2>4, OwnChanges DEF PhaseMove, SetStarted, LockWaitList, Stop, RaiseStopFlag,
                                    Restarting, Ended
    <3>2. clients[s] # NoAdapter \/ Registering(s, s)
      BY <1>4, <2>2, <2>4, <3>1 DEF ServedInv
    <3>3. pc[s] # "wait"
      BY <1>4, <2>2 DEF ServedInv
    <3> QED
      BY <2>1, <2>2, <2>4, <3>2, <3>3, UpKeeps, RegisteringStep
  <2>5. CASE stage[s] # "up"
    <3>1. Connect(s) /\ stage[s] = "new"
      BY <1>4, <2>5, StageChange
    <3>2. Enter(s, "reg", s, "route")
      BY <3>1 DEF Connect, MainInv
    <3> QED
      BY <2>1, <3>2 DEF Enter, Registering, TypeInv, TypeOK
  <2> QED
    BY <2>3, <2>4, <2>5
<1> QED
  BY <1>1, <1>3, <1>4 DEF ServedInv

LEMMA RegistrationInvariance ==
    ASSUME NeverSuspended
    PROVE  Spec => [](TypeInv /\ CallsInv /\ RegistrationInv)
<1>1. Init => RegistrationInv
  <2>1. Init => MainInv
    BY DEF Init, MapInit, MainInv, Threads
  <2>2. Init => CameInv
    BY DEF Init, MapInit, CameInv, NoCall
  <2>3. Init => KeptInv
    BY DEF Init, KeptInv
  <2>4. Init => ServedInv
    BY DEF Init, ServedInv, Ending, Ended
  <2> QED
    BY <2>1, <2>2, <2>3, <2>4 DEF RegistrationInv
<1>2. TypeInv /\ CallsInv /\ RegistrationInv /\ [Next]_vars => RegistrationInv'
  BY MainStep, CameStep, KeptStep, ServedStep DEF RegistrationInv
<1> QED
  BY <1>1, <1>2, CallsInvariance, PTL DEF Spec

\* Where an adapter is registered for one source at a time.
LEMMA HolderIdInvariance ==
    ASSUME NoneReturns \/ DirectCallers
    PROVE  Spec => []HolderIdInv
<1>1. CASE NoneReturns
  <2>1. UseInv => HolderIdInv
    BY DEF UseInv
  <2> QED
    BY <1>1, <2>1, UseInvariance, PTL
<1>2. CASE DirectCallers
  <2>1. ReuseInv => HolderIdInv
    BY DEF ReuseInv
  <2> QED
    BY <1>2, <2>1, ReuseInvariance, PTL
<1> QED
  BY <1>1, <1>2

\* Once the start went through the wait list, and until a stop, every source
\* that has registered, before, during or after the start, has a client which no
\* other source holds, whatever restarts, other sources and workers did
\* meanwhile; but for those who found client-tcp not started and came to the wait
\* list only when Main held it.
THEOREM PromptRegistrationsServed ==
    ASSUME NeverSuspended, NoneReturns \/ DirectCallers
    PROVE  Spec => []PromptSourcesServed
<1>1. TypeInv /\ CallsInv /\ RegistrationInv /\ HolderIdInv => PromptSourcesServed
  <2>1. SUFFICES ASSUME TypeInv, CallsInv, RegistrationInv, HolderIdInv, WaitListServed,
                        NEW s \in Sources, s \notin late, stage[s] = "up", ~Busy(s)
                 PROVE  /\ clients[s] # NoAdapter
                        /\ adapter[clients[s]].holder_id \in {NoId, s}
    BY DEF PromptSourcesServed
  <2>2. ~Registering(s, s) /\ ~Registering(Main, s)
    BY <2>1 DEF Registering, Busy, Threads
  <2>3. started /\ ~Ending /\ phase # "lock"
    BY <2>1 DEF WaitListServed, RegistrationInv, ServedInv
  <2>4. clients[s] # NoAdapter
    <3>1. CASE phase = "register"
      BY <2>1, <2>2, <2>3, <3>1 DEF WaitListServed, RegistrationInv, KeptInv
    <3>2. CASE phase # "register"
      BY <2>1, <2>2, <2>3, <3>2 DEF RegistrationInv, ServedInv
    <3> QED
      BY <3>1, <3>2
  <2>5. clients[s] \in Adapters
    BY <2>1, <2>4 DEF TypeInv, TypeOK
  <2> QED
    BY <2>1, <2>4, <2>5 DEF HolderIdInv, Serves
<1> QED
  BY <1>1, RegistrationInvariance, HolderIdInvariance, PTL
=============================================================================
