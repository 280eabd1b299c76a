------------------------------ MODULE ClientTcp ------------------------------
(***************************************************************************)
(* The domain object client-tcp (class client_tcp) with the threads that   *)
(* call it: sources, which register, send and unregister, directly or      *)
(* through an io-queue that hands their requests to its worker threads,    *)
(* and the thread Main of the application, which starts, restarts and      *)
(* stops the object.                                                       *)
(***************************************************************************)
EXTENDS ClientTcpMap

CONSTANTS
    MaxRequests,    \* bound on the requests of one source
    Messages,       \* the kinds of perform_io used: a subset of Sends
    EarlySources,   \* whether sources may connect before client-tcp is started
    Tracking,       \* whether the io-queue drops requests of gone sources
    Suspends,       \* values the suspend flag may be given
    AddrMayBeEmpty  \* whether start() can find the addr option empty

ASSUME RequestsAssumption == MaxRequests \in Nat /\ Messages \subseteq Sends

ASSUME SwitchesAssumption ==
    /\ EarlySources \in BOOLEAN
    /\ Tracking \in BOOLEAN
    /\ Suspends \subseteq BOOLEAN
    /\ AddrMayBeEmpty \in BOOLEAN

VARIABLES
    wait_list,      \* _wait_list: sources that registered before the start
    started,        \* _client_started
    suspended,      \* suspended()
    stage,          \* stage[s]: new, up (between reg_io and unreg_io) or left
    budget,         \* requests each source has made
    posted,         \* requests <<s, op>> waiting in the io-queue
    todo,           \* part of the wait list Main has yet to register
    late            \* history: sources that found client-tcp not started, and
                    \* Main in the wait list when they came to it

ownVars == <<wait_list, started, suspended, todo, late>>
sourceVars == <<stage, budget, posted>>
vars == <<adapterVars, mapVars, threadVars, mainVars, ownVars, sourceVars>>

\* phase "register": Main holds the mutex of client_tcp.
Phases == {"initialized", "list", "stop_clients", "rebuild", "start_clients",
           "set_started", "lock", "register", "running",
           "raise_flag", "final_list", "final_stop", "clear", "stopped"}

Busy(s) == \E t \in Threads : call[t].id = s

-----------------------------------------------------------------------------
(* Calls of client_tcp                                                     *)

Enter(t, op, id, step) ==
    /\ pc' = [pc EXCEPT ![t] = step]
    /\ call' = [call EXCEPT ![t] = [op |-> op, id |-> id, cli |-> NoAdapter]]

\* if ( _client_started ): on to the map, or to the wait list.
TestStarted(t) ==
    /\ pc[t] = "route"
    /\ Goto(t, IF started THEN "flag" ELSE "wait")
    /\ UNCHANGED <<adapterVars, mapVars, call, mainVars, ownVars, sourceVars>>

\* The critical section of reg_io and unreg_io on the wait list: the mutex is
\* recursive, so it does not stop Main itself.
Wait(t) ==
    /\ pc[t] = "wait"
    /\ phase # "register" \/ t = Main
    /\ wait_list' = IF call[t].op = "reg"
                    THEN wait_list \cup {call[t].id}
                    ELSE wait_list \ {call[t].id}
    /\ Return(t)
    /\ UNCHANGED <<adapterVars, mapVars, mainVars, started, suspended, todo, late, sourceVars>>

\* perform_io(d, id, handler) on thread t; when suspended it only answers
\* handler(nullptr).
PerformIo(t, op, id) ==
    \/ suspended /\ UNCHANGED threadVars
    \/ ~suspended /\ Enter(t, op, id, "flag")

-----------------------------------------------------------------------------
(* The sources and the io-queue                                            *)

\* A source comes up and calls reg_io, which a suspended client-tcp ignores.
Connect(s) ==
    /\ stage[s] = "new"
    /\ EarlySources \/ started
    /\ stage' = [stage EXCEPT ![s] = "up"]
    /\ alive' = alive \cup {s}
    /\ \/ suspended /\ UNCHANGED threadVars
       \/ ~suspended /\ Enter(s, "reg", s, "route")
    /\ UNCHANGED <<adapter, next_id, inflight, mapVars, mainVars, ownVars, budget, posted>>

CanAsk(s) == stage[s] = "up" /\ pc[s] = "idle" /\ budget[s] < MaxRequests

\* A source connected to client-tcp directly sends.
Ask(s) ==
    /\ Workers = {}
    /\ CanAsk(s)
    /\ budget' = [budget EXCEPT ![s] = @ + 1]
    /\ \E op \in Messages : PerformIo(s, op, s)
    /\ UNCHANGED <<adapterVars, mapVars, mainVars, ownVars, stage, posted>>

\* A source behind an io-queue sends: queue::perform_io posts the request.
Post(s) ==
    /\ Workers # {}
    /\ CanAsk(s)
    /\ budget' = [budget EXCEPT ![s] = @ + 1]
    /\ \E op \in Messages : posted' = Append(posted, <<s, op>>)
    /\ UNCHANGED <<adapterVars, mapVars, threadVars, mainVars, ownVars, stage>>

\* A worker takes the oldest request.  One whose source has unregistered is
\* dropped when its io_id is tracked.
Take(w) ==
    /\ pc[w] = "idle"
    /\ posted # <<>>
    /\ posted' = Tail(posted)
    /\ LET s == Head(posted)[1]
           op == Head(posted)[2]
       IN \/ Tracking /\ stage[s] = "left" /\ UNCHANGED threadVars
          \/ ~(Tracking /\ stage[s] = "left") /\ PerformIo(w, op, s)
    /\ UNCHANGED <<adapterVars, mapVars, mainVars, ownVars, stage, budget>>

\* A source goes away and calls unreg_io.
Disconnect(s) ==
    /\ stage[s] = "up"
    /\ pc[s] = "idle"
    /\ stage' = [stage EXCEPT ![s] = "left"]
    /\ Enter(s, "unreg", s, "route")
    /\ UNCHANGED <<adapterVars, mapVars, mainVars, ownVars, budget, posted>>

\* The last reference to the interface of the source is dropped.
Destroy(s) ==
    /\ stage[s] = "left"
    /\ pc[s] = "idle"
    /\ s \in alive
    /\ alive' = alive \ {s}
    /\ UNCHANGED <<adapter, next_id, inflight, mapVars, threadVars, mainVars, ownVars, sourceVars>>

Answer(a, s) ==
    /\ Referenced(a)
    /\ Answered(a, s)
    /\ UNCHANGED <<mapVars, threadVars, mainVars, ownVars, sourceVars>>

-----------------------------------------------------------------------------
(* The life cycle of client_tcp                                            *)

\* start() refuses to run without an address.
StartRefused ==
    /\ phase = "initialized"
    /\ AddrMayBeEmpty
    /\ ~suspended
    /\ phase' = "running"
    /\ UNCHANGED <<adapterVars, mapVars, threadVars, listed, ownVars, sourceVars>>

\* start() or restart(): reconfigure_and_start_.
Start ==
    /\ phase \in {"initialized", "running"}
    /\ gen < MaxConfigs
    /\ phase' = "list"
    /\ UNCHANGED <<adapterVars, mapVars, threadVars, listed, ownVars, sourceVars>>

\* The call of reconfigure_and_start of the map.
Reconfigure ==
    /\ \/ ListClients("list", "stop_clients")
       \/ StopListed("stop_clients")
       \/ AllStopped("stop_clients", "rebuild")
       \/ Rebuild
       \/ StartListed
       \/ LowerStopFlag(IF started THEN "running" ELSE "set_started")
    /\ UNCHANGED <<ownVars, sourceVars>>

\* Mutant: _client_started is not set before the wait list is registered.
StaysUnstarted ==
    /\ phase = "set_started"
    /\ phase' = "lock"
    /\ UNCHANGED <<adapterVars, mapVars, threadVars, listed, ownVars, sourceVars>>

SetStarted ==
    /\ phase = "set_started"
    /\ started' = TRUE
    /\ phase' = "lock"
    /\ UNCHANGED <<adapterVars, mapVars, threadVars, listed, wait_list, suspended, todo, late, sourceVars>>

\* Mutant: the wait list is taken but nobody is registered.
WaitListIgnored ==
    /\ phase = "lock"
    /\ todo' = {}
    /\ late' = {s \in Sources : pc[s] = "wait"}
    /\ phase' = "register"
    /\ UNCHANGED <<adapterVars, mapVars, threadVars, listed, wait_list, started, suspended, sourceVars>>

\* The lock of the wait list is taken; it is held until all are registered.
\* Who is between the test of _client_started and the lock comes too late.
LockWaitList ==
    /\ phase = "lock"
    /\ todo' = wait_list
    /\ late' = {s \in Sources : pc[s] = "wait"}
    /\ phase' = "register"
    /\ UNCHANGED <<adapterVars, mapVars, threadVars, listed, wait_list, started, suspended, sourceVars>>

\* this->reg_io(item.first, item.second) for one source of the wait list.
RegisterWaiting ==
    /\ phase = "register"
    /\ pc[Main] = "idle"
    /\ \E s \in todo :
         /\ todo' = todo \ {s}
         /\ \/ suspended /\ UNCHANGED threadVars
            \/ ~suspended /\ Enter(Main, "reg", s, "route")
    /\ UNCHANGED <<adapterVars, mapVars, mainVars, wait_list, started, suspended, late, sourceVars>>

\* Mutant: the lock of the wait list is never released.
KeepsLock ==
    /\ phase = "register"
    /\ pc[Main] = "idle"
    /\ todo = {}
    /\ UNCHANGED vars

UnlockWaitList ==
    /\ phase = "register"
    /\ pc[Main] = "idle"
    /\ todo = {}
    /\ phase' = "running"
    /\ UNCHANGED <<adapterVars, mapVars, threadVars, listed, ownVars, sourceVars>>

\* stop(): _client_started first, then stop of the map.
Stop ==
    /\ phase \in {"initialized", "running"}
    /\ started' = FALSE
    /\ phase' = "raise_flag"
    /\ UNCHANGED <<adapterVars, mapVars, threadVars, listed, wait_list, suspended, todo, late, sourceVars>>

StopMap ==
    /\ \/ RaiseStopFlag
       \/ ListClients("final_list", "final_stop")
       \/ StopListed("final_stop")
       \/ AllStopped("final_stop", "clear")
       \/ ClearAll
    /\ UNCHANGED <<ownVars, sourceVars>>

\* A new configuration may also turn the suspend flag.
SetSuspend ==
    /\ phase \in {"initialized", "running"}
    /\ suspended' \in Suspends \ {suspended}
    /\ UNCHANGED <<adapterVars, mapVars, threadVars, mainVars, wait_list, started, todo, late, sourceVars>>

-----------------------------------------------------------------------------
\* Steps of a thread inside a call of client_tcp.
CallStep(t) ==
    \/ TestStarted(t)
    \/ Wait(t)
    \/ MapStep(t) /\ UNCHANGED <<ownVars, sourceVars>>

\* Steps of Main that finish a life cycle method once it was called.
LifeCycleStep ==
    \/ Reconfigure \/ SetStarted \/ LockWaitList \/ RegisterWaiting
    \/ UnlockWaitList \/ StopMap

SourceStep(s) ==
    \/ Connect(s) \/ Ask(s) \/ Post(s) \/ Disconnect(s) \/ Destroy(s)
    \/ \E a \in Adapters : Answer(a, s)

\* The application has stopped and every source is gone.
Terminated ==
    /\ phase = "stopped"
    /\ posted = <<>>
    /\ \A t \in Threads : pc[t] = "idle"
    /\ UNCHANGED vars

Init ==
    /\ AdapterInit
    /\ MapInit
    /\ phase = "initialized"
    /\ wait_list = {}
    /\ started = FALSE
    /\ suspended = FALSE
    /\ stage = [s \in Sources |-> "new"]
    /\ budget = [s \in Sources |-> 0]
    /\ posted = <<>>
    /\ todo = {}
    /\ late = {}

Next ==
    \/ \E t \in Threads : CallStep(t)
    \/ \E s \in Sources : SourceStep(s)
    \/ \E w \in Workers : Take(w)
    \/ StartRefused \/ Start \/ Stop \/ SetSuspend
    \/ LifeCycleStep
    \/ Terminated

Spec == Init /\ [][Next]_vars

\* Main finishes what it began, a thread inside a call goes on, and the
\* io-queue serves its requests; nobody has to connect, send, leave or restart.
FairSpec ==
    /\ Spec
    /\ WF_vars(LifeCycleStep)
    /\ \A t \in Threads : WF_vars(CallStep(t))
    /\ \A w \in Workers : WF_vars(Take(w))

-----------------------------------------------------------------------------
(* Properties                                                              *)

\* Every variable stays in the set its declaration in the code describes.
TypeOK ==
    /\ AdapterTypeOK
    /\ clients \in [Sources -> Adapters \cup {NoAdapter}]
    /\ pool \in [startup : Seq(Adapters), primary : Seq(Adapters),
                 secondary : Seq(Adapters)]
    /\ opt \in PoolSizes
    /\ gen \in Nat
    /\ startup_flag \in BOOLEAN
    /\ stop_flag \in BOOLEAN
    /\ pc \in [Threads -> Steps]
    /\ call \in [Threads -> Calls]
    /\ phase \in Phases
    /\ listed \in Seq(Adapters)
    /\ wait_list \subseteq Sources
    /\ started \in BOOLEAN
    /\ suspended \in BOOLEAN
    /\ stage \in [Sources -> {"new", "up", "left"}]
    /\ budget \in [Sources -> Nat]
    /\ posted \in Seq(Sources \X Sends)
    /\ todo \subseteq Sources
    /\ late \subseteq Sources

(***************************************************************************)
(* The arguments of a call fit the step the thread is at: no thread works  *)
(* with a null client_ptr, which find can return and unreg_io tests for,   *)
(* and only a source itself unregisters its io_id.                         *)
(***************************************************************************)
ClientSteps == {"areg", "aunreg", "erase", "astop", "bind", "send"}

CallOK(t) ==
    /\ pc[t] # "idle" => call[t] # NoCall
    /\ pc[t] \in ClientSteps => call[t].cli \in Adapters
    /\ pc[t] \in {"aunreg", "erase", "astop"} => call[t].op = "unreg"
    /\ call[t].op = "unreg" => call[t].id = t

CallsOK == \A t \in Threads : CallOK(t)

(***************************************************************************)
(* An adapter has one owner: it is the client of one source, or it is at   *)
(* one place in one pool.  Handing out an adapter, taking it back and      *)
(* replacing all of them on restart race with each other on every thread.  *)
(***************************************************************************)
SlotsDistinct ==
    \A s, r \in Sources :
        clients[s] = clients[r] /\ clients[s] # NoAdapter => s = r

PoolsDistinct ==
    \A k, l \in DOMAIN pool :
        \A i \in DOMAIN pool[k], j \in DOMAIN pool[l] :
            pool[k][i] = pool[l][j] => k = l /\ i = j

SlotsNotPooled == \A s \in Sources : ~InPool(clients[s])

ExclusiveOwnership == SlotsDistinct /\ PoolsDistinct /\ SlotsNotPooled

(***************************************************************************)
(* ExclusiveOwnership alone is not inductive: unreg_io holds an adapter    *)
(* between find and the critical section that erases it, and gives it to   *)
(* the secondary pool there, whatever happened to the map in between.  The *)
(* invariant says of an adapter so held that no pool has it, that no other *)
(* source and no other call of unreg_io has it either, and of all adapters *)
(* in sight that they are numbered up to next_id, so that a new one is     *)
(* nobody's.                                                               *)
(***************************************************************************)
Giving(t) == pc[t] \in {"aunreg", "erase"}

HeldApart(t) ==
    Giving(t) =>
        /\ ~InPool(call[t].cli)
        /\ \A s \in Sources : clients[s] = call[t].cli => s = t
        /\ \A u \in Threads : Giving(u) /\ call[u].cli = call[t].cli => u = t

Numbered ==
    /\ \A s \in Sources : clients[s] <= next_id
    /\ \A a \in Adapters : InPool(a) => a <= next_id
    /\ \A t \in Threads : call[t].cli <= next_id

OwnershipInv ==
    /\ ExclusiveOwnership
    /\ Numbered
    /\ \A t \in Threads : HeldApart(t)

(***************************************************************************)
(* The assertion of client_tcp_adapter::reg_io, "Several sources are       *)
(* unacceptable", is never met: whoever registers at an adapter finds it   *)
(* free or already its own.                                                *)
(***************************************************************************)
NeverSeveralSources ==
    \A t \in Threads :
        pc[t] = "areg" => ~SeveralSources(call[t].cli, call[t].id)

(***************************************************************************)
(* A message that arrives at an adapter in answer to a request of source s *)
(* is given to s or to nobody: "a client of its own is made for every      *)
(* connection of the server".                                              *)
(***************************************************************************)
AnswersGoToTheAsker ==
    \A r \in inflight :
        adapter[r[1]].life = "started" /\ Referenced(r[1])
            => GetHolder(r[1]) \in {NoId, r[2]}

\* The phases in which no life cycle method is between two of its steps on
\* the clients: everything listed was started, nothing is being stopped.
Settled == {"initialized", "set_started", "lock", "register", "running"}

(***************************************************************************)
(* Between life cycle methods, if no client comes back to a pool, every    *)
(* client that serves a source, or that waits in a pool to be handed out,  *)
(* was started, not stopped since, and started with the current            *)
(* configuration, although sources register, send and leave while a        *)
(* restart stops and replaces clients.                                     *)
(***************************************************************************)
OwnedClientsAreCurrent ==
    phase \in Settled /\ opt.secondary = 0 =>
        \A a \in Adapters : Owned(a) =>
            adapter[a].life = "started" /\ adapter[a].options = gen

(***************************************************************************)
(* The primary pool "permanently maintains the given number" of clients,   *)
(* the secondary pool never outgrows its size, and the startup pool only   *)
(* drains, whatever threads take from them at the same time.               *)
(***************************************************************************)
PoolsAsConfigured ==
    phase \in Settled /\ gen > 0 =>
        /\ Len(pool.primary) = opt.primary
        /\ Len(pool.secondary) <= opt.secondary
        /\ Len(pool.startup) <= opt.startup

(***************************************************************************)
(* Once a source has left and its unreg_io has returned, client-tcp keeps  *)
(* no client for it, so nothing accumulates while it runs.                 *)
(***************************************************************************)
NoClientLeftBehind ==
    \A s \in Sources :
        stage[s] = "left" /\ ~Busy(s) /\ phase \in Settled
            => clients[s] = NoAdapter

\* The start went through the wait list, and no stop has begun since.
WaitListServed ==
    /\ started
    /\ phase # "lock"
    /\ phase = "register" => todo = {} /\ pc[Main] = "idle"

(***************************************************************************)
(* Once the start went through the wait list, every source that is up and  *)
(* whose reg_io has returned has a client, which no other source holds,    *)
(* whether it came before the start, during it or after it: unless it      *)
(* tested _client_started before that was set and came to the wait list    *)
(* when Main held it.  Such a source enters the list afterwards, where     *)
(* nobody looks any more.  client-tcp is not suspended.                    *)
(***************************************************************************)
PromptSourcesServed ==
    WaitListServed =>
        \A s \in Sources \ late : stage[s] = "up" /\ ~Busy(s) =>
            /\ clients[s] # NoAdapter
            /\ adapter[clients[s]].holder_id \in {NoId, s}

(***************************************************************************)
(* A source Main finds in the wait list gets a client of its own, unless   *)
(* it leaves first, is suspended, or client-tcp is stopped meanwhile.      *)
(***************************************************************************)
WaitersServed ==
    \A s \in Sources :
        phase = "register" /\ s \in todo
            ~> \/ clients[s] # NoAdapter
               \/ stage[s] = "left"
               \/ suspended
               \/ phase \notin Settled

(***************************************************************************)
(* Every call comes back: no thread waits forever for the lock Main holds  *)
(* while it registers the wait list, or inside the map.                    *)
(***************************************************************************)
CallsReturn == \A t \in Threads : pc[t] # "idle" ~> pc[t] = "idle"

(***************************************************************************)
(* Every restart and every stop comes to its end although the other        *)
(* threads go on calling.                                                  *)
(***************************************************************************)
LifeCycleEnds == phase # "running" /\ phase # "initialized" ~> phase \in {"running", "stopped"}

\* A client is a source's while it is in _clients under its io_id or some
\* thread still works with it for that source.
Serves(s, a) == clients[s] = a \/ \E t \in Threads : call[t].cli = a /\ call[t].id = s

Served(a) == \E s \in Sources : Serves(s, a)

Private == INSTANCE PrivateClients WITH
               Clients <- Adapters, Nobody <- NoId,
               user <- [a \in Adapters |->
                           IF Served(a) THEN CHOOSE s \in Sources : Serves(s, a) ELSE NoId],
               spent <- {a \in Adapters : a <= next_id /\ ~InPool(a) /\ ~Served(a)}

(***************************************************************************)
(* "A client of its own is made for every connection of the server": when  *)
(* no pool takes clients back, client-tcp implements PrivateClients,       *)
(* however the calls of one source race with each other, with its leaving  *)
(* and with a restart.                                                     *)
(***************************************************************************)
ClientsPrivate == Private!Spec
=============================================================================
