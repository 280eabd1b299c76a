---------------------------- MODULE ClientTcpMap ----------------------------
(***************************************************************************)
(* Class client_tcp_map: which adapter serves which source, and the three  *)
(* pools of adapters that are ready to be handed out.                      *)
(*                                                                         *)
(* Its methods run on many threads at once.  A method is cut into steps at *)
(* the places where another thread can get in between: each read of        *)
(* _stop_flag, each critical section of _mutex, each call of an adapter.   *)
(* pc[t] is the step thread t is at, call[t] the arguments and the local   *)
(* client_ptr of the call it is in.  The life cycle methods                *)
(* reconfigure_and_start and stop run on the thread Main, whose place in   *)
(* them is phase.                                                          *)
(***************************************************************************)
EXTENDS ClientTcpAdapter, Sequences

CONSTANTS
    Workers,        \* threads of an io-queue in front of client-tcp, or {}
    Main,           \* the thread of start, restart and stop
    Options,        \* pool sizes a configuration can ask for
    MaxConfigs      \* bound on the calls of reconfigure_and_start

Threads == Sources \cup Workers \cup {Main}

PoolSizes == [startup : Nat, primary : Nat, secondary : Nat]

ASSUME ThreadsAssumption ==
    /\ Workers \cap Sources = {}
    /\ Main \notin Sources \cup Workers

ASSUME OptionsAssumption == Options \subseteq PoolSizes /\ Options # {}

ASSUME ConfigsAssumption == MaxConfigs \in Nat

VARIABLES
    clients,        \* _clients: the adapter of each source, or NoAdapter
    pool,           \* _startup_pool, _primary_pool and _secondary_pool
    opt,            \* _opt: the sizes of the pools
    gen,            \* number of the configuration _opt holds, 0: none yet
    startup_flag,   \* _startup_flag: the startup pool was never filled
    stop_flag,      \* _stop_flag
    pc,             \* next step of each thread
    call,           \* the call each thread is in
    phase,          \* where Main is in the life cycle
    listed          \* client_list: adapters Main has yet to stop or to start

mapVars == <<clients, pool, opt, gen, startup_flag, stop_flag>>
threadVars == <<pc, call>>
mainVars == <<phase, listed>>

\* The calls: "request" is perform_io with a callback, "notify" without one.
Sends == {"request", "notify"}
Operations == {"reg", "unreg"} \cup Sends

NoCall == [op |-> "none", id |-> NoId, cli |-> NoAdapter]

Calls == {NoCall} \cup
         [op : Operations, id : Sources, cli : Adapters \cup {NoAdapter}]

Steps == {"idle", "route", "wait", "flag", "find", "ufind", "ucreate",
          "areg", "aunreg", "erase", "astop", "bind", "send"}

\* Adapters some shared_ptr keeps alive: a destroyed one answers nobody.
InPool(a) == \E k \in DOMAIN pool : \E i \in DOMAIN pool[k] : pool[k][i] = a
Owned(a) == InPool(a) \/ \E s \in Sources : clients[s] = a
Referenced(a) == \/ Owned(a)
                 \/ \E i \in DOMAIN listed : listed[i] = a
                 \/ \E t \in Threads : call[t].cli = a

-----------------------------------------------------------------------------
(* Steps of a thread inside a call                                         *)

Goto(t, step) == pc' = [pc EXCEPT ![t] = step]

Return(t) == Goto(t, "idle") /\ call' = [call EXCEPT ![t] = NoCall]

\* The thread goes on to `step' with the client it found or made.
With(t, cli, step) == Goto(t, step) /\ call' = [call EXCEPT ![t].cli = cli]

\* The method of the adapter that reg_io and perform_io call.
Deliver(t) == IF call[t].op = "reg" THEN "areg" ELSE "bind"

\* if ( _stop_flag ) return;
TestStopFlag(t) ==
    /\ pc[t] = "flag"
    /\ \/ stop_flag /\ Return(t)
       \/ ~stop_flag /\ call[t].op = "reg" /\ Goto(t, "ufind") /\ UNCHANGED call
       \/ ~stop_flag /\ call[t].op # "reg" /\ Goto(t, "find") /\ UNCHANGED call
    /\ UNCHANGED <<adapterVars, mapVars, mainVars>>

\* Mutant: unreg_io does not test the client it found for null.
FindUnchecked(t) ==
    /\ pc[t] = "find"
    /\ LET cli == clients[call[t].id] IN
       \/ call[t].op = "unreg" /\ With(t, cli, "aunreg")
       \/ cli = NoAdapter /\ call[t].op # "unreg" /\ Goto(t, "ufind") /\ UNCHANGED call
       \/ cli # NoAdapter /\ call[t].op # "unreg" /\ With(t, cli, "bind")
    /\ UNCHANGED <<adapterVars, mapVars, mainVars>>

\* find(id) of unreg_io, which gives up when there is no client, and of
\* perform_io, which then makes one.
Find(t) ==
    /\ pc[t] = "find"
    /\ LET cli == clients[call[t].id] IN
       \/ cli = NoAdapter /\ call[t].op = "unreg" /\ Return(t)
       \/ cli = NoAdapter /\ call[t].op # "unreg" /\ Goto(t, "ufind") /\ UNCHANGED call
       \/ cli # NoAdapter /\ call[t].op = "unreg" /\ With(t, cli, "aunreg")
       \/ cli # NoAdapter /\ call[t].op # "unreg" /\ With(t, cli, "bind")
    /\ UNCHANGED <<adapterVars, mapVars, mainVars>>

\* The first critical section of upsert_: read lock and find_.
UpsertFind(t) ==
    /\ pc[t] = "ufind"
    /\ LET cli == clients[call[t].id] IN
       \/ cli = NoAdapter /\ Goto(t, "ucreate") /\ UNCHANGED call
       \/ cli # NoAdapter /\ With(t, cli, Deliver(t))
    /\ UNCHANGED <<adapterVars, mapVars, mainVars>>

\* Mutant: the adapter is made but not started.
MakeUnstarted(a) ==
    /\ a = next_id + 1
    /\ a \in Adapters
    /\ next_id' = a
    /\ adapter' = [adapter EXCEPT ![a] = Made]

\* make_shared<client_type> followed by start(_opt).
MakeStarted(a) ==
    /\ a = next_id + 1
    /\ a \in Adapters
    /\ next_id' = a
    /\ adapter' = [adapter EXCEPT ![a] = Started(Made, gen)]

\* create_(): cli is taken from the startup pool, else from the secondary
\* pool, else from the primary pool, which is replenished, else made.
TakeStartup(cli) ==
    /\ pool.startup # <<>>
    /\ cli = Head(pool.startup)
    /\ pool' = [pool EXCEPT !.startup = Tail(@)]
    /\ UNCHANGED <<adapter, next_id>>

\* Mutant: front() without pop_front().
TakeSecondaryKept(cli) ==
    /\ pool.startup = <<>>
    /\ pool.secondary # <<>>
    /\ cli = Head(pool.secondary)
    /\ UNCHANGED <<adapter, next_id, pool>>

\* Mutant: the primary pool is not replenished.
TakePrimaryOnly(cli) ==
    /\ pool.startup = <<>>
    /\ pool.secondary = <<>>
    /\ pool.primary # <<>>
    /\ cli = Head(pool.primary)
    /\ pool' = [pool EXCEPT !.primary = Tail(@)]
    /\ UNCHANGED <<adapter, next_id>>

TakeSecondary(cli) ==
    /\ pool.startup = <<>>
    /\ pool.secondary # <<>>
    /\ cli = Head(pool.secondary)
    /\ pool' = [pool EXCEPT !.secondary = Tail(@)]
    /\ UNCHANGED <<adapter, next_id>>

TakePrimary(cli) ==
    /\ pool.startup = <<>>
    /\ pool.secondary = <<>>
    /\ pool.primary # <<>>
    /\ cli = Head(pool.primary)
    /\ \E new \in Adapters :
         /\ MakeStarted(new)
         /\ pool' = [pool EXCEPT !.primary = Append(Tail(@), new)]

TakeNew(cli) ==
    /\ pool.startup = <<>>
    /\ pool.secondary = <<>>
    /\ pool.primary = <<>>
    /\ MakeStarted(cli)
    /\ UNCHANGED pool

\* _clients.insert leaves the client of a racing call in place.
Insert(id, cli) ==
    clients' = IF clients[id] = NoAdapter
               THEN [clients EXCEPT ![id] = cli]
               ELSE clients

\* The second critical section of upsert_: create_ and insert.
UpsertCreate(t) ==
    /\ pc[t] = "ucreate"
    /\ \E cli \in Adapters :
         /\ \/ TakeStartup(cli)
            \/ TakeSecondary(cli)
            \/ TakePrimary(cli)
            \/ TakeNew(cli)
         /\ Insert(call[t].id, cli)
         /\ With(t, cli, Deliver(t))
    /\ UNCHANGED <<inflight, alive, opt, gen, startup_flag, stop_flag, mainVars>>

\* cli->reg_io(id, holder)
AdapterRegIo(t) ==
    /\ pc[t] = "areg"
    /\ adapter' = [adapter EXCEPT ![call[t].cli] = RegisteredTo(@, call[t].id)]
    /\ Return(t)
    /\ UNCHANGED <<next_id, inflight, alive, mapVars, mainVars>>

\* cli->unreg_io(id)
AdapterUnregIo(t) ==
    /\ pc[t] = "aunreg"
    /\ adapter' = [adapter EXCEPT ![call[t].cli] = UnregisteredFrom(@, call[t].id)]
    /\ Goto(t, "erase")
    /\ UNCHANGED <<next_id, inflight, alive, call, mapVars, mainVars>>

\* Mutant: the pool takes one client more than it should.
EraseOneMore(t) ==
    /\ pc[t] = "erase"
    /\ clients' = [clients EXCEPT ![call[t].id] = NoAdapter]
    /\ \/ /\ Len(pool.secondary) <= opt.secondary
          /\ pool' = [pool EXCEPT !.secondary = Append(@, call[t].cli)]
          /\ Return(t)
       \/ /\ Len(pool.secondary) > opt.secondary
          /\ Goto(t, "astop")
          /\ UNCHANGED <<pool, call>>
    /\ UNCHANGED <<adapterVars, opt, gen, startup_flag, stop_flag, mainVars>>

\* Mutant: the client goes back to the pool but stays in _clients.
EraseForgotten(t) ==
    /\ pc[t] = "erase"
    /\ \/ /\ Len(pool.secondary) < opt.secondary
          /\ pool' = [pool EXCEPT !.secondary = Append(@, call[t].cli)]
          /\ Return(t)
       \/ /\ Len(pool.secondary) >= opt.secondary
          /\ Goto(t, "astop")
          /\ UNCHANGED <<pool, call>>
    /\ UNCHANGED <<adapterVars, clients, opt, gen, startup_flag, stop_flag, mainVars>>

\* The critical section of unreg_io: erase, then back to the pool if it has room.
Erase(t) ==
    /\ pc[t] = "erase"
    /\ clients' = [clients EXCEPT ![call[t].id] = NoAdapter]
    /\ \/ /\ Len(pool.secondary) < opt.secondary
          /\ pool' = [pool EXCEPT !.secondary = Append(@, call[t].cli)]
          /\ Return(t)
       \/ /\ Len(pool.secondary) >= opt.secondary
          /\ Goto(t, "astop")
          /\ UNCHANGED <<pool, call>>
    /\ UNCHANGED <<adapterVars, opt, gen, startup_flag, stop_flag, mainVars>>

\* The answers to requests the adapter was waiting for are lost with it.
StopAdapter(a) ==
    /\ adapter' = [adapter EXCEPT ![a] = Stopped(@)]
    /\ inflight' = {r \in inflight : r[1] # a}

\* cli->stop() of a client that went into no pool.
StopErased(t) ==
    /\ pc[t] = "astop"
    /\ StopAdapter(call[t].cli)
    /\ Return(t)
    /\ UNCHANGED <<next_id, alive, mapVars, mainVars>>

\* cli->perform_io, first half: is there a holder to give the answer to?
Bind(t) ==
    /\ pc[t] = "bind"
    /\ LET a == call[t].cli IN
       adapter' = IF WrapsCallback(a, call[t].op = "request")
                  THEN [adapter EXCEPT ![a] = Wrapped(@, call[t].id)]
                  ELSE adapter
    /\ Goto(t, "send")
    /\ UNCHANGED <<next_id, inflight, alive, call, mapVars, mainVars>>

\* cli->perform_io, second half: only a request has an answer to wait for.
Send(t) ==
    /\ pc[t] = "send"
    /\ \/ call[t].op = "request" /\ SendOk(call[t].cli, call[t].id)
       \/ SendRefused
    /\ Return(t)
    /\ UNCHANGED <<adapter, next_id, alive, mapVars, mainVars>>

MapStep(t) ==
    \/ TestStopFlag(t) \/ Find(t) \/ UpsertFind(t) \/ UpsertCreate(t)
    \/ AdapterRegIo(t) \/ AdapterUnregIo(t) \/ Erase(t) \/ StopErased(t)
    \/ Bind(t) \/ Send(t)

-----------------------------------------------------------------------------
(* The life cycle: steps of Main                                           *)

\* The adapters of _clients, one after the other in the order of the io_ids,
\* which is any order as far as the model goes.
Used == {s \in Sources : clients[s] # NoAdapter}
ClientLists ==
    {l \in [1 .. Cardinality(Used) -> {clients[s] : s \in Used}] :
        \A s \in Used : \E i \in DOMAIN l : l[i] = clients[s]}

\* stop_all_clients(): the list is taken under the read lock ...
ListClients(from, to) ==
    /\ phase = from
    /\ \E l \in ClientLists :
         listed' = l \o pool.primary \o pool.secondary \o pool.startup
    /\ phase' = to
    /\ UNCHANGED <<adapterVars, mapVars, threadVars>>

\* Mutant: the list is not advanced.
StopListedAgain(at) ==
    /\ phase = at
    /\ listed # <<>>
    /\ StopAdapter(Head(listed))
    /\ UNCHANGED <<next_id, alive, mapVars, threadVars, mainVars>>

\* ... and its clients are stopped one by one without it.
StopListed(at) ==
    /\ phase = at
    /\ listed # <<>>
    /\ StopAdapter(Head(listed))
    /\ listed' = Tail(listed)
    /\ UNCHANGED <<next_id, alive, mapVars, threadVars, phase>>

AllStopped(at, to) ==
    /\ phase = at
    /\ listed = <<>>
    /\ phase' = to
    /\ UNCHANGED <<adapterVars, mapVars, threadVars, listed>>

\* n adapters made one after the other when `done' exist already.
NewPool(done, n) == [i \in 1 .. n |-> done + i]

\* Mutant: the clients in use are dropped like those in the pools.
RebuildPoolsOnly ==
    /\ phase = "rebuild"
    /\ \E o \in Options :
       LET m == IF startup_flag THEN o.startup ELSE 0
           last == next_id + o.primary + m
       IN /\ last \in 0 .. MaxAdapters
          /\ clients' = [s \in Sources |-> NoAdapter]
          /\ pool' = [startup |-> NewPool(next_id + o.primary, m),
                      primary |-> NewPool(next_id, o.primary),
                      secondary |-> <<>>]
          /\ adapter' = [a \in Adapters |-> IF a \in next_id + 1 .. last THEN Made ELSE adapter[a]]
          /\ next_id' = last
          /\ listed' = NewPool(next_id, last - next_id)
          /\ opt' = o
    /\ gen' = gen + 1
    /\ startup_flag' = FALSE
    /\ phase' = "start_clients"
    /\ UNCHANGED <<inflight, alive, stop_flag, threadVars>>

\* The critical section of reconfigure_and_start: every client in use is
\* replaced by a new adapter, which nobody is registered at yet, and the pools
\* are made anew; the startup pool is filled the first time only.
Rebuild ==
    /\ phase = "rebuild"
    /\ \E o \in Options :
       LET n == Cardinality(Used)
           m == IF startup_flag THEN o.startup ELSE 0
           last == next_id + n + o.primary + m
           new == next_id + 1 .. last
       IN /\ last \in 0 .. MaxAdapters
          /\ \E f \in [Used -> next_id + 1 .. next_id + n] :
               /\ \A s, r \in Used : f[s] = f[r] => s = r
               /\ clients' = [s \in Sources |-> IF s \in Used THEN f[s] ELSE NoAdapter]
          /\ pool' = [startup |-> NewPool(next_id + n + o.primary, m),
                      primary |-> NewPool(next_id + n, o.primary),
                      secondary |-> <<>>]
          /\ adapter' = [a \in Adapters |-> IF a \in new THEN Made ELSE adapter[a]]
          /\ next_id' = last
          /\ listed' = NewPool(next_id, last - next_id)
          /\ opt' = o
    /\ gen' = gen + 1
    /\ startup_flag' = FALSE
    /\ phase' = "start_clients"
    /\ UNCHANGED <<inflight, alive, stop_flag, threadVars>>

\* cli->start(_opt) for the clients of the list, outside the lock.
StartListed ==
    /\ phase = "start_clients"
    /\ listed # <<>>
    /\ adapter' = [adapter EXCEPT ![Head(listed)] = Started(@, gen)]
    /\ listed' = Tail(listed)
    /\ UNCHANGED <<next_id, inflight, alive, mapVars, threadVars, phase>>

\* _stop_flag = false ends reconfigure_and_start.
LowerStopFlag(to) ==
    /\ phase = "start_clients"
    /\ listed = <<>>
    /\ stop_flag' = FALSE
    /\ phase' = to
    /\ UNCHANGED <<adapterVars, clients, pool, opt, gen, startup_flag, threadVars, listed>>

\* stop(): the flag first, then stop_all_clients, then everything is cleared.
RaiseStopFlag ==
    /\ phase = "raise_flag"
    /\ stop_flag' = TRUE
    /\ phase' = "final_list"
    /\ UNCHANGED <<adapterVars, clients, pool, opt, gen, startup_flag, threadVars, listed>>

ClearAll ==
    /\ phase = "clear"
    /\ clients' = [s \in Sources |-> NoAdapter]
    /\ pool' = [startup |-> <<>>, primary |-> <<>>, secondary |-> <<>>]
    /\ phase' = "stopped"
    /\ UNCHANGED <<adapterVars, opt, gen, startup_flag, stop_flag, threadVars, listed>>

MapInit ==
    /\ clients = [s \in Sources |-> NoAdapter]
    /\ pool = [startup |-> <<>>, primary |-> <<>>, secondary |-> <<>>]
    /\ opt = [startup |-> 1, primary |-> 0, secondary |-> 0]
    /\ gen = 0
    /\ startup_flag = TRUE
    /\ stop_flag = FALSE
    /\ pc = [t \in Threads |-> "idle"]
    /\ call = [t \in Threads |-> NoCall]
    /\ listed = <<>>
=============================================================================
