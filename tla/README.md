# A TLA+ model of wfc_io

`wfc_io` is a package of I/O components for the wfc framework: servers, a
client, and the queues and routers between them. This directory holds TLA+
modules that model its core, the TLC instances that check them, and proofs that
TLAPS checks. Paths of the code are relative to `src/package/`.

Status: `client-tcp` (client, client map, adapter) with the threads around it,
`server-tcp` with its connections, `server-udp`, `io-broker` with the `io-queue`s
behind it, `io-hub` with `statistics` in front, and `io-tank` are modelled and
checked. Every invariant a passing run checks, its action property and the safety
part of both refinements are also proved for all values of the constants, some
under a hypothesis that section 4 names; liveness is only model-checked. What is
left is planned below.

## 1. The system

Every component is a *domain object*: it is configured, initialised, started,
may be restarted with a new configuration and suspended, and is stopped, all by
the application. Components are linked through one interface, `iinterface`:

* `reg_io(io_id, itf)`: the object `itf`, known as `io_id`, announces itself;
* `unreg_io(io_id)`: it goes away;
* `perform_io(d, io_id, handler)`: a message `d` of `io_id`, whose answer, or a
  null pointer for "there will be none", goes to `handler`.

A typical chain is server -> queue -> broker -> client -> remote server. The
calls run on whatever thread makes them: I/O threads of the servers, workflow
threads of the queues, I/O threads of the clients for answers. There is no
thread that owns a component, so every method can run concurrently with every
other, and with start, restart and stop.

| component | source | state | operations | how it meets the others |
|---|---|---|---|---|
| client-tcp | `client/client_tcp/client_tcp.cpp` | `_client_started`, `_wait_list` and its mutex, statistics timer | start, restart, stop, reg_io, unreg_io, perform_io | target of servers, queues, brokers; delegates to the map |
| client map | `client/client_tcp/client_tcp_map.cpp` | `_clients`, three pools, `_opt`, `_startup_flag`, `_stop_flag`, mutex | reconfigure_and_start, stop, reg_io, unreg_io, perform_io, get_stat | owns the adapters |
| adapter | `client/client_tcp/client_tcp_adapter.cpp` | holder (id, weak reference, wrapper of a callback), `_keep_alive`, an iow client | start, stop, reg_io, unreg_io, perform_io; input, connect and shutdown handlers | called by the map; calls its holder back |
| server-tcp | `server/server_tcp/*` | `_impl` (acceptor and connections), timer | initialize, start, restart, stop; per connection: startup and shutdown handlers | each connection is a source: reg_io, perform_io, unreg_io on the target |
| server-udp | `server/server_udp/*` | `_impl` | as server-tcp, without connections | performs datagrams on its target |
| io-queue | `queue/queue/queue.cpp` | target, workflow, callback workflow | reg_io, unreg_io, perform_io | posts perform_io to a workflow, passes the others on at once |
| io-broker | `broker/broker/broker.cpp` | rules, default target, mutex | configure, initialize, reg_io, unreg_io, perform_io | routes by regular expression, first rule wins |
| io-hub | `hub/hub/hub.cpp` | map of registered objects, mutex | start, restart, reg_io, unreg_io, perform_io | gives every message to every registered object |
| statistics | `statistics/statistics/statistics.cpp` | target, meters | reg_io, unreg_io, perform_io | passes calls on, measures |
| io-tank | `tank/tank/*` | call identifiers, call map, queue, counters | make_request_, check_response_ | driven by wfc's tank gun |
| configuration, registration | `*_json.hpp`, `*_multiton.*`, `*_module.*` | none | | declarative |

### What makes each correct

* **client-tcp**: a source that registered has a client, whether it came before,
  during or after the start, unless it came late to the wait list (below); start,
  restart and stop end; calls return.
* **client-tcp without pools**: a client serves one source in its life
  (`PrivateClients`).
* **client map**: an adapter is the client of one source or at one place in one
  pool; pools keep the sizes the configuration asks for; clients in use run with
  the current configuration; nothing is kept for a source that left.
* **adapter**: one holder at a time; an answer goes to the one who asked.
* **server-tcp / udp**: every server that was made is in use, being stopped or
  stopped; every connection that registered unregisters; server-tcp is a
  server-udp with connections.
* **io-queue**: a request is performed, or its handler called, once; order of
  the requests of one source is kept; nothing is performed for a tracked source
  after it left.
* **io-broker**: the first matching rule decides; a source is registered at
  every target it may be routed to, across reconfigurations.
* **io-hub**: as long as nobody registers or unregisters meanwhile, and the hub is
  not suspended when somebody does, a message reaches every registered object but
  its sender, and none that has unregistered; nobody hears itself; calls return
  if connections do not deliver to each other under their own mutexes.
* **statistics**: whoever is registered behind it is counted, and nobody else.
* **io-tank**: identifiers of a tank's calls are distinct; the answer is
  compared with the response of its own request; a counter goes round its range.

### What is hard

`PROJECT.json` lists the hazards at their lines. In short: methods that look a
client up, drop the lock and use it; flags tested before the lock they guard is
taken; a queue that lets `unreg_io` pass older requests; adapters that are
recycled while answers are under way; restarts that replace everything under
threads that keep calling; a map that is walked without its lock; a static
counter that is read again and again.

## 2. Modules

| module | models |
|---|---|
| `ClientTcpAdapter` | class `client_tcp_adapter`: one record per adapter, its operations as operators on the record, requests under way |
| `ClientTcpMap` | class `client_tcp_map`, extends the above: the steps of a thread in a call of the map, and the steps of the life cycle methods |
| `ClientTcp` | class `client_tcp`, extends the above: the wait list, start and stop, the sources, the queue in front; `Spec`, `FairSpec`, all properties |
| `PrivateClients` | what client-tcp promises when no pool takes clients back: an abstract specification, which `ClientTcp` implements (`ClientsPrivate`) |
| `MCClientTcp` | values for the constants, symmetry, view |
| `ClientTcpProofs` | theorems and lemmas about `ClientTcp`: types, calls, ownership |
| `ClientTcpUseProofs` | extends the above: pool sizes, who holds an adapter, answers, `PrivateClients`, the current configuration |
| `ClientTcpSourceProofs` | extends the above: what becomes of the sources that come and leave |
| `ServerTcp` | class `server_tcp` and class `tcp_connection`: start, restart, suspend, stop, and what connections do meanwhile |
| `ServerUdp` | class `server_udp`: start, restart, suspend, stop; `ServerTcp` implements it (`LifeCycleOfUdp`) |
| `MCServerTcp` | values for the constants of `ServerTcp` |
| `ServerTcpProofs` | theorems and lemmas about `ServerTcp` |
| `Iinterface` | what linked components share: sources and objects |
| `Broker` | class `broker`: calls of the sources' threads, start and restart, with what they do at a target left open |
| `IoQueue` | class `queue`: any number of queue objects, the threads of their workflows, their targets |
| `Routing` | `Broker` in front of `IoQueue`s, with the sources: the joined actions, all properties |
| `MCRouting` | queues and configurations for `Routing` |
| `RoutingProofs` | theorems and lemmas about `Routing`, `Broker` and `IoQueue` |
| `Tank` | class `tank_io`: any number of tanks, the steps of `make_request_`, `check_response_`, all properties |
| `MCTank` | options, counters and bounds for `Tank` |
| `TankProofs` | theorems and lemmas about `Tank` |
| `Hub` | class `hub`: the table of objects, the walk of `perform_io` over it, restart and the target |
| `Statistics` | class `statistics`: tracking around the calls of its target |
| `Fanout` | connections in front of `Statistics` in front of `Hub`: the joined actions, all properties (its instance `hub.cfg` needs no module of its own) |
| `FanoutProofs` | theorems and lemmas about `Fanout`, `Hub` and `Statistics` |

### How state corresponds

| model | code |
|---|---|
| `adapter[a]` | the a-th `client_tcp_adapter` made: `life` and `options` of the iow client under it, `holder_id` = `_holder_id`, `holder` and `wrapped` = what `_holder` points to |
| `alive` | sources whose `shared_ptr` still exists, so `_holder.lock()` succeeds |
| `inflight` | requests sent by an adapter and not answered |
| `clients`, `pool`, `opt`, `startup_flag`, `stop_flag` | `_clients`, the three pools, `_opt`, `_startup_flag`, `_stop_flag` |
| `gen` | how many configurations were applied; the identity of an `_opt` |
| `pc`, `call` | program counter and locals (operation, `io_id`, `client_ptr`) of each thread |
| `phase`, `listed` | program counter of the thread in start/restart/stop, and its local `client_list` |
| `wait_list`, `started`, `suspended` | `_wait_list` (keys), `_client_started`, `suspended()` |
| `todo` | rest of the loop over `_wait_list`; in phase `register` Main holds the mutex |
| `stage`, `budget` | a source: not yet up, up, left; its requests so far |
| `late` | history, not in the code: sources that had found `_client_started` false and not yet entered the wait list when Main took its lock |
| `posted` | requests the io-queue has posted to its workflow |

Of `ServerTcp`:

| model | code |
|---|---|
| `impl`, `old` | `_impl`; the server whose `stop()` Main is in, the local `shutdown` of restart or `_impl` of stop |
| `posted` | the closures `[shutdown]` posted to the workflow and not finished |
| `server[i]` | the i-th iow server made by `run_`, with the options it was started with; `made` counts them |
| `opt` | `options()`; between restarts also `_addr` and `_port` |
| `suspended` | the flag of the `winterface` `_target` |
| `conn[c]` | a `tcp_connection`: life, its server (so the options its handlers captured), messages at the target, calls `cb(nullptr)` still to come; and three facts for the properties: answered without keep_alive, suspended when accepted, echoed |
| `registered` | connections for which the target saw `reg_io` and not yet `unreg_io` |

Of `Broker` and `IoQueue`:

| model | code |
|---|---|
| `opt`, `rules`, `default` | `options()`, `_rules` with `_targets`, `_target` |
| `readers` | who holds `_mutex` for reading; `Replace` is the write-locked block |
| `pc`, `call` | program counter and locals of each source's thread in a call of the broker |
| `workflow[q]`, `job[w]` | what `perform_io` of q posted; the message thread w has taken |
| `place[m]`, `queue[m]` | where a message is, from `perform_io` to the call of its handler; the queue it was given to |
| `direct` | messages a suspended queue passed on itself, whose handler is not wrapped |
| `gone[q]` | sources for which `domain_object::unreg_io` of q was called, which ends their tracking |
| `registered[q]` | the sources the target of q saw `reg_io` of, and not yet `unreg_io` |
| `paused` | queues that are `suspended()` |
| `silent` | messages whose `handler` is `nullptr` |

Of `ServerUdp` the names are those of `ServerTcp`, with `addr` for the address of
`opt` and `socket[i]` for life and address of `server[i]`; `Udp` in `ServerTcp`
is that mapping.

`PrivateClients` sees of `ClientTcp` only `user` (an adapter's source: the one it
is in `_clients` for, or for which a thread in a call holds it) and `spent`
(adapters made that are neither anybody's nor in a pool).

Of `Tank`:

| model | code |
|---|---|
| `opt[k]` | the options of tank k that matter: `jsonrpc_method` given, `enable_vars`, `check_response` |
| `call_id`, `initial_make`, `counters` | `_call_id` (static), `_initial_make`, `_counters` |
| `call_map[k]`, `io_queue[k]` | `_call_map`, `_io_queue`, with the number of the call a response is expected for in place of its text |
| `calls[k][n]` | the n-th call of `make_request_` of tank k: what it read of `_call_id` each time, the counters in its text, and what `check_response_` said of its answer |
| `pc[k]` | where in `make_request_` the gun of tank k is |
| `waiting[k]`, `in_order[k]` | requests sent and not answered; whether the answers so far came in the order of the requests |

Of `Hub`, `Statistics` and `Fanout`:

| model | code |
|---|---|
| `map`, `handler_id`, `handler` | keys of `_map`, `_handler_id`, the io_id in `_target_handler` |
| `alive` | objects whose `shared_ptr` still exists, so that `lock()` succeeds |
| `known` | handlers `restart` registered at the target |
| `restarting` | program counter of `restart` |
| `walk[w]` | program counter and locals of a `perform_io`: of a `target_handler` (`held`), of the hub in its loop (`loop`, `deliver`), at the test of `_handler_id` (`target`) and past it (`give`); `owed`, `raced`, `overlap` are history, for the properties |
| `tracked` | io_ids under `owner().tracking`, whose number the timer of statistics reports |
| `stat[c]`, `erasing`, `stage[s]` | where the thread of a connection is: in `statistics`, in `hub::unreg_io` behind it, in its own life |
| `missed` | connections whose `reg_io` or `unreg_io` a suspended hub ignored |

### How actions correspond

A method is one action between two points where another thread can get in:
a read of a flag, a critical section, a call of an adapter. So `reg_io` of the
client is `Connect`, `TestStarted`, then `Wait` (wait list) or `TestStopFlag`,
`UpsertFind`, `UpsertCreate`, `AdapterRegIo`; `unreg_io` is `Disconnect`,
`TestStarted`, `TestStopFlag`, `Find`, `AdapterUnregIo`, `Erase`, and
`StopErased` when no pool has room; `perform_io` is `Ask` or (`Post`, `Take`),
`TestStopFlag`, `Find`, perhaps `UpsertFind` and `UpsertCreate`, `Bind`, `Send`.
Start and restart are `Start`, `ListClients`, `StopListed`*, `AllStopped`,
`Rebuild`, `StartListed`*, `LowerStopFlag`, and the first time `SetStarted`,
`LockWaitList`, `RegisterWaiting`* (whose calls of `reg_io` run on the thread
Main with the steps above), `UnlockWaitList`. Stop is `Stop`, `RaiseStopFlag`,
`ListClients`, `StopListed`*, `AllStopped`, `ClearAll`.

In `ServerTcp` a restart is `Restart`, then for the same address `StopListening`,
`Drop`* and `StopReturns` on Main, else the same with `PostedReturns` on a
thread of the workflow whenever it comes to it, and `Run`, which makes, and
tries to start, the next server. A connection is `Accept` (startup handler),
`Message` (input handler), `Answer` (the target), `End` (`cb(nullptr)`), and
`Leave`, `End` or `Drop` with the shutdown handler. Each of them runs under the
connection's mutex, so it is one step.

A call of the broker is `Connect`, `Send` or `Leave`, `ReadLock`, then for
`reg_io` and `unreg_io` one `LoopStep` per target, which is the whole method of
that queue, and `EndLoop`; for `perform_io` `RouteStep` (the search for a rule)
and `SendStep` (the whole `perform_io` of the queue), all under the read lock.
`restart` is `Restart` (options and targets are read) and `Replace`. A thread of
a queue is `Take` (the tracking closure) and `Give` (the target), an answer
`Answer` and, with a callback workflow, `CallHandler`.

In `Tank` a call of `make_request_` is `Make` (`++_call_id`, or the queue),
`ReadId` (`jreq.id = _call_id`) and `StoreResponse` (`_call_map[_call_id] = ...`,
under the lock) if there is a JSON-RPC method, and `Send` (variables are replaced,
`_initial_make` is cleared, the gun sends). An answer is `Result` (with JSON-RPC),
`Plain` (without), `Unchecked`, or `Error`, for an answer without result or no
answer at all.

In `Fanout` a connection calls `reg_io` of statistics (`Connect`), which tracks it
and calls the hub (`Announce`), and `unreg_io` (`Leave`), which calls the hub, which
calls its target and erases (`Withdraw`, `Remove`), and then ends the tracking
(`Forget`); it holds the mutex of the connection from the first to the last. A
message is `Perform`, on a thread of a queue or, of a connection that has none
(`Direct`), on the connection's own thread, which holds its mutex until the message
is through; then per entry of the map `Loop` and perhaps `Deliver`, which takes the
mutex of that connection; then `EndLoop`, the test of `_handler_id` in `ToTarget`,
and `Give`, if the target is not the sender. The target sends in two steps: its
thread locks a handler (`LockHandler`), which a restart may replace while it is
held, and calls the hub through it (`TargetSends`). `restart` of the hub is
`RestartId`, `RestartHandler`, `RestartReg`.

Threads of the client: each source calls on a thread of its own (a connection's I/O is
serialised by its connection), the workers of the queue call `perform_io` for
anybody, Main calls the life cycle methods one after the other.

### Abstractions

* Messages have no content; a request has a callback, a notification none.
* The iow client under an adapter is external: started or stopped, it accepts
  data or refuses it when started (it may have no connection yet), and refuses
  it otherwise (`connect_by_request`, which reconnects on demand, is left out).
  Its answers come in any order. Stopping it loses them. Its `start` may throw,
  which the adapter only logs: "started" means that `start` was called, a client
  whose start failed is one that refuses data, and that clients are current
  (`OwnedClientsAreCurrent`) says that `start` was called with the configuration
  of the moment, not that it succeeded.
* Adapters are numbered in the order they are made. `Referenced` says which of
  them a `shared_ptr` holds; an adapter nothing holds answers nobody.
* The clients in `stop_all_clients` and in `Rebuild` come in the order of
  io_ids in the code, in any order in the model, since names have none.
* The test of `suspended()` and the entry into the call are one step.
* `_stop_flag`, a plain `bool`, is read and written sequentially consistently.
* Logging, `_error_flag`, `_owner`, `get_stat` and the statistics timer have no
  effect on the rest and are left out; `free` has no caller.
* A source registers once, in its life, and does not call with io_id 0.
* In `ServerTcp`, iow's server is external: it listens or fails to start, and it
  fails when another server still listens at the address (the reason why
  restart stops the old server first when the address is the same); its `stop`
  closes the acceptor, then the connections one by one. `winterface` is external
  too: suspended, it echoes; whether it then registers connections is open, but
  that it unregisters those that did register, suspended or not, is assumed
  (`Closed`). `run_` of `server-udp` makes no server if there is no global object of
  the application (server_udp.cpp:77); there is one.
  `cb(nullptr)` closes the connection; the second of two such calls does
  nothing. The statistics timer and messages the target sends on its own are
  left out.

* In `Routing` a message may have no handler; a source registers once, in its
  life. Regular expressions are the sets of kinds of messages they match, a null
  `data_ptr` is of no kind. The read lock is shared; were it exclusive, there
  would be fewer behaviours. wflow is external: a post to a workflow with
  `maxsize` messages calls the drop handler; a callback workflow takes or
  refuses. So is tracking: a closure made by `tracking(io_id, ...)` is replaced
  by its drop branch once `unreg_io(io_id)` was called on the object. The callback
  workflow hands answers on in any order, as one with several threads does. The target
  behind a queue is external: it answers in any order, or never.
* In `Tank` every tank has one gun, whose thread makes the requests one after the
  other; wfc's `tank_gun` is external, and it checks no answer that is a null
  pointer. The expected responses of a tank all differ, and an answer is one of
  them or none of them. An answer carries one response; the loop over a batch
  would repeat `Result`. `_call_id`, an `atomic_int`, does not overflow, and the
  identifier in an answer is the one of its request.
* In `Hub` the loop of `perform_io` over `_map`, which `reg_io` and `unreg_io` may
  change at the same time, is undefined behaviour: once that happened, the loop
  goes on with any of the entries there are or were (`ChangeMap`). A loop that is
  not disturbed visits the entries in any order. The crash that undefined
  behaviour may also be is left out. The objects' own `perform_io` is external
  except for the mutex of a connection, and so is the target, which may send with
  a handler it was told of, as long as that exists, at any time on a thread of its
  own, but not on the thread and in the middle of a call of the hub. The message
  has no content; a null one, which the hub would dereference, is not sent.

## 3. Properties

Safety (`ClientTcp`, each preceded by its statement there):
`ExclusiveOwnership`, and its inductive form `OwnershipInv`; `CallsOK` (no null
client is used); `NeverSeveralSources` (the assertion of `reg_io`);
`AnswersGoToTheAsker`; `OwnedClientsAreCurrent`; `PoolsAsConfigured`;
`NoClientLeftBehind`; `PromptSourcesServed`. Refinement: `ClientsPrivate`, of
`PrivateClients`. Liveness: `WaitersServed`, `CallsReturn`, `LifeCycleEnds`.
`ServerTcp`: `RegistrationMatches`, `NoServerLost`, `ListensWhileRunning`,
`SuspendForNewOnly`; liveness: `ConnectionsReset`, `StopsListening`,
`ClosedAfterAnswer`; refinement, with its fairness: `LifeCycleOfUdp`, of
`ServerUdp`.
`Routing`: `OnePlace`, `InOrder`, `RegistrationsFollow`, `NullNeverCalled`,
`LeavingIsHeard`, the action property `DropsForGone`.
`Tank`: `OwnIds`, `VerdictsTrue`, `CountersCycle`. `Fanout`: `ReachesAll`,
`NothingAfterLeaving`, `NoEcho`, `ConnectionsCounted`, and `CallsReturn`. `TypeOK` is the type invariant of each.

Some hold in some deployments only. Which instance checks what says where:

| run | instance | result |
|---|---|---|
| `direct` | 2 sources that call client-tcp themselves; 1 request each; a pool of each kind; 1 start, 1 restart, stop | one owner, one holder, pool sizes, who registered has a client, nothing left behind |
| `queued` | 2 sources, 2 workers, no pools, 1 start | no null client; a client serves one source in its life (`ClientsPrivate`); answers reach their asker although `unreg_io` overtakes requests |
| `burst` | 1 source, 2 requests, 2 workers, all pools or the primary one, restart, suspend at any time | `OwnershipInv` and pool sizes when two threads serve one source; clients in use are running and current |
| `startup` | 1 source that may connect before the start, 1 worker; tracking, empty address, notifications; `FairSpec` | who registered has a client, unless late for the wait list; waiting sources are served, calls return, the life cycle ends |
| `several_sources` | 2 sources, 1 worker, secondary pool | **violated** `NeverSeveralSources` |
| `server` | 1 connection with 2 messages, 2 addresses, any options, 1 restart; `FairSpec` | registrations match, no server lost, it listens; old connections are reset, stop leaves no listener, no keep_alive means closed after the answer; it implements `ServerUdp` |
| `server_back` | 2 addresses, 2 restarts | **violated** `ListensWhileRunning` |
| `server_suspend` | 1 connection, suspend turned on | **violated** `SuspendForNewOnly` |
| `routing` | 2 sources, 2 messages; a queue with 1 thread and room for 2, one with 2 threads and room for 1, one with 1 thread and no target; 1 restart; messages with and without a handler | nothing lost or doubled; order; registrations; no null handler is called; drops |
| `tank` | 2 tanks, 3 and 1 calls, with and without JSON-RPC, variables and checks; a counter from -1 to 2 in steps of 2 | identifiers stay apart; verdicts are true as far as they can be; the counter goes round |
| `hub` | 2 connections, one that sends under its mutex and one behind a queue with 1 thread, which the target uses too; 2 restarts, suspend at any time; `FairSpec` | who gets a message of an undisturbed walk; nobody hears itself unless a restart overlaps; what is counted; no deadlock between connections and messages, where one connection sends under its mutex |
| `broker_tracking` | 1 source; the default target is a tracked queue no rule names | **violated** `LeavingIsHeard` |

The four violations are disagreements between the code and what it says:

1. *several_sources*: `unreg_io` of a source frees the adapter's holder; a request
   of the same source still in the queue finds the adapter (it is erased from
   `_clients` only in the next step) and binds its callback to it; the adapter
   goes to the secondary pool with that holder; the next source to register gets
   it, and `reg_io` logs "Several sources are unacceptable".
2. *server_back*: a restart to another address only posts the stop of the old
   server; a restart back to the first address before that ran finds it taken;
   `start` throws, which is logged, and nothing listens any more, even after the
   posted stop.
3. *server_suspend*: the Readme says that a change of suspend alone concerns new
   connections only; all connections share the `winterface` whose flag it is.
4. *broker_tracking*: `reg_io` and `unreg_io` of the broker go to the targets of
   its rules, messages also to the default target. The Readme says that queues
   throw away the messages of clients that closed the connection, and its own
   example makes a queue with tracking the default target: that queue never
   hears that a client left.

What the properties do not say, because the code does not do it and nothing in
the repository promises it, or only a log line does:

* With a secondary pool a client that has an answer to come is given to the next
  source, and so is the answer: `AnswersGoToTheAsker` fails in `several_sources`
  in place of its invariant.
* A restart replaces the adapters of registered sources, which do not register
  again: the next request logs that the source "did not call reg_io"
  (client_tcp_adapter.cpp:189) and works through a wrapper of its callback.
* `reg_io` tests `_client_started` outside the lock (client_tcp.cpp:51), so a
  source can enter the wait list after the start went through it, and then it
  stays there without a client. In the model such a source is in `late`, and
  `PromptSourcesServed` speaks of all others only: registrations *are* lost in
  this code, and the property says that this is the only way.
* A suspended hub ignores `reg_io` and `unreg_io` for good; `missed` takes those
  connections out of `ReachesAll` and `NothingAfterLeaving`. These two speak, too,
  only of walks that no `reg_io` or `unreg_io` disturbed: what becomes of the
  others is undefined (hub.cpp:75).
* A restart of the hub while a thread of the target holds a handler, or a handler
  kept alive through restarts by calls that follow each other, makes the hub give
  the message back to the target. `NoEcho` says that there is no other way
  (`overlap`).
* With no queue between them and the hub, two connections that send at the same
  time deliver to each other (hub.cpp:81), each under its own mutex, and wait for
  ever. `CallsReturn` holds with one such connection; with `Performers = {s1, s2}`
  in `hub.cfg` TLC finds the two waiting.
* Without JSON-RPC one lost answer shifts all later comparisons of a tank;
  with it, another tank that counts in between makes right answers fail.
  `VerdictsTrue` says exactly when that does not happen. `_call_map` and
  `_io_queue` keep what is never asked for.

With a secondary pool `OwnedClientsAreCurrent` does not hold either: `unreg_io`
that found its client before a restart returns it, stopped, to the new pool.
Nothing in the repository promises otherwise, so this is a hazard in
`PROJECT.json` and not a finding, and the property speaks only of
secondary_pool 0.
`NoClientLeftBehind` is checked for sources that connect after the start; an
early one can leave while the start registers it, with the same status.

### Bounds

`MaxConfigs` (calls of start and restart) is 2 where a restart matters: one
restart meets every other operation; a second one would act on a state like the
first one's. `MaxRequests` is 1, or 2 when two workers must serve one source.
Two sources are enough for one to take what the other gave up, one worker for a
request to overtake or be overtaken, two for two requests of one source at once.
`MaxAdapters` is above what any behaviour can make: a
thread that needed one more would be stuck inside a call, which the deadlock
check or `CallsReturn` would report (in `Terminated` every thread is idle).
Sources are interchangeable, and so are workers: the safety runs use symmetry.
The view `LiveView` renumbers adapters by order of making and forgets those
nothing refers to: no action or property distinguishes states it identifies.
`startup`, which checks liveness, uses neither.

For `ServerTcp`: one connection suffices, since connections interfere only with
the server and the restarts, and two messages let one be answered while another
is under way; two addresses are enough to leave one and come back. `MaxConfigs`
is one more than the restarts. `ListensWhileRunning` holds with one restart
(`server`); with two, to another address and back, it is `server_back`.

For `Routing`: two sources, since messages of one must not suffer from the
other's leaving; two messages of one source for order, two threads for a race,
a workflow with room for one for overload; two configurations with the rules in
another order. Both name the same targets: with others, sources stay registered
where rules no longer lead and are unknown where they now do, which nothing in
the repository excludes or promises (a hazard in `PROJECT.json`). The third queue
has no target and a thread of its own: what has no handler gets past the test of
its `perform_io` and meets the one in the posted closure. Only the first queue is
suspended: suspended, the third would call its null target (another hazard there).

For `server` as an implementation of `ServerUdp`: the bounds are the same, and the
fairness of `ServerUdp` follows from the fairness of `ServerTcp` because a server
being stopped gets rid of its connection.

For `Tank`: three calls take a counter once past the end of a range of length 3
with a step that does not divide it, and let an answer overtake another; one call
of a second tank comes between any two steps of the first one's. `step` may not be
longer than the range (`LimitsAssumption`), which the code does not test either.

For `Fanout`: two connections, one of which sends, or hears, or leaves, while the
other does. One sends on its own thread, the other through a queue with one
thread, so that two walks are under way at once and each may wait for what the
other's thread holds; walks meet in nothing but mutexes, the map and the handlers
they keep alive. The queue's thread serves the target too, which is as good as a
thread of its own for two walks. Two restarts make a handler an old one.

### Fairness

`FairSpec` asks that Main goes on with a life cycle method it has begun, that a
thread inside a call goes on, and that a worker takes requests that wait: the
threads of the application and of its workflows keep running. Nobody has to
connect, send, leave, restart, stop or answer.
`Routing` has no liveness: that a message is never outside the hands of some
thread or workflow is the invariant `OnePlace`, and that those go on is theirs.
`FairSpec` of `ServerTcp` asks that Main finishes a restart or stop it is in,
that the workflow runs what is posted to it, that a server being stopped closes
its connections, and that a call `cb(nullptr)` the code makes comes through.
`FairSpec` of `Fanout` asks that threads inside reg_io, unreg_io, perform_io or
restart go on. Nothing is asked of a mutex: a delivery to a connection that sends
again and again on its own thread may find it taken each time, so the second part
of `CallsReturn` is about behaviours in which such connections pause in the end;
that every mutex is released (the first part) needs no such hypothesis. `Tank` has no liveness: an answer may
never come.

## 4. Proofs

`ClientTcpProofs`, for every set of sources and workers, every pool sizes, any
number of requests and configurations, under the `ASSUME`s of the modules:

* `TypeCorrect` and `CallsFit`: `Spec => []TypeOK` and `Spec => []CallsOK`.
  `TypeInv` (both) is inductive: a client that is used was found non-null in an
  earlier step, which `CallsOK` remembers. One lemma per group of actions
  (`MapStepType`, `LifeCycleMapType`, `OwnStepType`), with lemmas on the operators
  they share.
* `OwnershipInvariance` and `OwnershipExclusive`: `Spec => []OwnershipInv` and
  `Spec => []ExclusiveOwnership`. `ExclusiveOwnership` is
  not inductive: `Erase` puts in the pool an adapter a thread found some steps
  before. `OwnershipInv` adds that an adapter a thread is giving back (`Giving`)
  is in no pool, no other source's and no other thread's (`HeldApart`), and that
  adapters are numbered up to `next_id` (`Numbered`), so that a new one is
  fresh. The heart is that only the thread of source s calls `unreg_io(s)`
  (in `CallsOK`), so nobody else can be giving the client of s away, and that
  `Rebuild` and `ClearAll` only empty pools or fill them with new adapters.
  One lemma per action that moves adapters (`UpsertOwnership`, `EraseOwnership`,
  `RebuildOwnership`, `ClearOwnership`).

`ClientTcpUseProofs`, for the same values:

* `PoolSizesKept`: `Spec => []PoolsAsConfigured`. `SizesInv` says the same in the
  middle of a restart as well; each take replenishes the primary pool in its step.
* `OneHolderWithoutReturn`: `NoneReturns` (no configuration has a secondary pool,
  as in `queued` and `startup`) gives `Spec => []NeverSeveralSources`. An adapter
  *serves* a source that has it in `_clients` or whose call holds it. `ApartInv`:
  it serves one source at most, and none while it is in a pool; the lemma behind
  it is `Gains`: a step gives adapters to a source out of a pool or new.
  `HolderIdInv`: its holder is the source it serves, or nobody. Without the
  hypothesis the statement is false: `several_sources`.
* `AnswersReachAsker`: `NoneReturns` gives `Spec => []AnswersGoToTheAsker`. An
  adapter with an answer under way is `Reserved` for the source that asked: in no
  pool, nobody else's, and held by that source or nobody; this lasts until the
  answer comes, through unregistration, restart and stop.
* `ImplementsPrivate`: `NoneReturns` gives `Spec => ClientsPrivate`, with the
  mapping of section 2: `User` changes from nobody to a source when an adapter is
  taken, and to spent when nobody has it any more (`Gains` again).
* `OwnedAreCurrent`: `Spec => []OwnedClientsAreCurrent`. `CurrentInv`: while a
  restart starts the clients it listed, an adapter in use is current or still on
  the list. `DiscardInv`: the adapter `unreg_io` is about to stop is nobody's, so
  it stops none in use.

`ClientTcpSourceProofs`, for the same values:

* `NothingLeftBehind`: `DirectCallers` (no queue in front, nobody before the start,
  as in `direct`) gives `Spec => []NoClientLeftBehind`. `CallsInv` says what calls
  there are: `_stop_flag` is up from the stop on only, and `unreg_io` comes from
  sources that have left and makes no client. `DirectInv`: every source is in a
  call of its own, none is in the wait list before the stop, and a client is that
  of a source that is up or whose `unreg_io` is on its way to erase it. Without
  the hypothesis a request in a queue, or the start that registers the wait list,
  makes a client for a source that has gone.
* `OneHolderWhenDirect`: `DirectCallers` gives `Spec => []NeverSeveralSources` with
  any secondary pool. An adapter goes back to the pool with no holder
  (`ErasedFree`): `unreg_io` released it, and only the thread of that source could
  have bound a callback in between.
* `PromptRegistrationsServed`: `NeverSuspended` and one of the two hypotheses above
  give `Spec => []PromptSourcesServed` (`startup` and `direct` are such instances).
  `KeptInv`: a source that is up has a client, is in the wait list, or is in
  `reg_io`; while the start registers the wait list, a source of it is still to
  come, in Main's `reg_io`, or has a client. `ServedInv`: once Main has the lock,
  who goes to the wait list, or gets into it, is late, since everybody else finds
  `_client_started` set. `MainInv` says that Main never enters the wait list
  itself, `CameInv` that only sources that came are registered.

`ServerTcpProofs`, for all connections, addresses and options and any number of
restarts and messages:

* `ServerTypeCorrect`: `Spec => []TypeOK`, with `PhaseInv`, which says which
  servers Main holds in each phase.
* `ServersKept`: `Spec => []NoServerLost`. With `PhaseInv` it is inductive: Run
  overwrites `_impl` only when it is null, and Main stops one server at a time.
* `RegistrationsFollow`: `Spec => []RegistrationMatches`. `RegistrationInv` adds
  that an open connection's server was made before, so that making another
  leaves its options alone, and that whoever is registered is not in direct
  mode, so that its shutdown handler does unregister it.
* `ListensUnlessBack`: `Spec /\ []NotBack => []ListensWhileRunning`. `NotBack`: no
  server that waits to be stopped listens at the address of `options()`. When Main
  is about to make a server it holds none, so by `NoServerLost` all others that
  listen wait to be stopped, and the address is free (`FreeToRun`); afterwards
  nobody stops it but Main (`MadeInv`: `_impl` is not among the posted ones).
  So what `server_back` shows is the only way to lose the listener.
* `ListensWithoutWayBack`: `NoWayBack` (at most one restart, as in `server`, or only
  one address) gives `Spec => []ListensWhileRunning`, since then `NotBack` is an
  invariant (`ElsewhereInv`).
* `ImplementsUdp`: `Spec => Udp!Spec`. `Udp!Init` from `Init`; each action of
  `ServerTcp` is the one of `ServerUdp` with its name, or leaves the mapped state
  alone (`UdpStep`); an address is free in one exactly if it is in the other
  (`FreeSame`).

`TankProofs`, for all tanks, options, counters, ranges and numbers of calls:

* `TankTypeCorrect`: `Spec => []TypeOK`. `AdvanceInRange` is the lemma on
  `counter_t::next()`; `GunInv` says what the position of a gun implies.
* `CallsHaveOwnIds`: `Spec => []OwnIds`. `IdsInv` adds what a call in the making
  has read so far: not more than `_call_id`, exactly it as long as the call is
  alone, and, once it has counted, more than the keys of all calls before.
  One lemma per step of the gun, one for another tank's.
* `VerdictsAreTrue`: `Spec => []VerdictsTrue`. With JSON-RPC, `EntriesOf`: an
  expected response is in `_call_map` under the key of its call, and an entry is
  under the key of the call it is for; since keys and identifiers of different
  calls lie apart (`IdsInv`), an answer that finds an entry finds its own
  (`OwnEntry`), and one whose call was alone finds one. Without, `QueueOf`: as long
  as answers come in order, `_io_queue` holds the responses of the latest calls,
  which are the expected ones, so the first answer meets its own
  (`FirstInQueue`).
* `CountersGoRound`: `Spec => []CountersCycle`. `RemainderOfStep` is the lemma on
  remainders: adding a step to a number adds it to its remainder, less the length
  of the range if that is reached. So `Advance` takes the value of call n to that
  of call n + 1 (`AdvanceValue`), and `CycleInv` says that the counters stand at the
  value of the last call sent and that only the first one makes them.

`RoutingProofs`, for all sources, queues, configurations, workers (finitely many)
and sizes of workflows:

* `RoutingTypeCorrect` and `MessagesInOnePlace`: `Spec => []TypeOK` and
  `Spec => []OnePlace`, with the bound of each workflow. `PlaceInv`: a message is
  where `place` says, and once; `SentInv`: the one a source is sending is its last;
  `CallInv`: what its thread's place implies. Every step is first shown to move
  at most one message in one of seven ways (`MessageStep`), and each invariant is
  then shown for these.
* `NullIsNotCalled`: if only queues that have a target are suspended,
  `Spec => []NullNeverCalled`: what the queue passes on has a handler or a target.
* `MessagesInOrder`: `Spec => []InOrder`. `FifoInv`: the messages of a source wait in
  the order they were sent, behind those of them that workers have taken.
* `RegistrationsFollowRules` and `OnlyGoneAreDropped`: `SameTargetsNamed` (a linked or
  tracked queue that one configuration names is the target of a rule in each)
  gives `Spec => []RegistrationsFollow` and the action property
  `Spec => DropsForGone`. `TargetsInv`: then every configuration has these queues as
  targets; `SourceInv`: where a source is registered, and who has heard that it
  left, before, in and after the loops of `reg_io` and `unreg_io`. `routing`
  satisfies both hypotheses; without `SameTargetsNamed` there is `broker_tracking`.

`FanoutProofs`, for all connections, performing threads and handlers (the io_ids of
connections and handlers differ, `HubAssumption`):

* `FanoutTypeCorrect`: `Spec => []TypeOK`, with `PhaseInv`.
* `MessagesReachAll`, `LeaversHearNothing`: `Spec => []ReachesAll` and
  `Spec => []NothingAfterLeaving`. `WalkInv`: the sources a walk owes the message are
  before it or being served, and an undisturbed one has nobody before it who left;
  it needs `KnownInv`, who is in `_map` and under tracking at each step of a
  connection.
* `NobodyHearsItself`: `Spec => []NoEcho`. For connections `WalkInv`: a walk that is
  delivering does not deliver to its sender, whatever became of the map. For the
  target `HandlerInv`: the handler a thread holds is `_handler_id`, unless a restart
  was under way since, or had replaced it before; so the test of `ToTarget` knows it.
* `CountsConnections`: `Spec => []ConnectionsCounted`, from `KnownInv`.

The strengthened invariants that are hard to guess were checked by TLC on the
instances before they were proved; `OwnershipInv` is checked in `burst`, where two
workers and a restart interfere.

Only model-checked is liveness, which is beyond the prover: `WaitersServed`,
`CallsReturn` of `ClientTcp` and of `Fanout`, `LifeCycleEnds`, `ConnectionsReset`, `StopsListening`,
`ClosedAfterAnswer`, and the fairness in `LifeCycleOfUdp`. Outside the hypotheses of their
theorems `RegistrationsFollow` and `DropsForGone` without
`SameTargetsNamed`, `NeverSeveralSources` with both a secondary pool and a queue,
`AnswersGoToTheAsker` with a secondary pool, and `ListensWhileRunning` with a way
back do not hold there. No module uses RECURSIVE operators.

## 5. Not modelled, and plan

In this order; each step ends with its runs:

1. **Adapter link** (`ClientTcpLink`): `keep_alive`, the reverse answer
   (adapter.cpp:75-81), connect and shutdown notifications posted in different
   ways (88-119), the upcall of `reg_io` (163), io_id 0.
   Property: the holder's view of the connection is eventually the connection's.
2. The statistics timers of **`ServerTcp`** and **`ClientTcp`**, which read `_impl`
   and the client map and are never released in the latter; messages of the
   target to a connection.
3. Compositions: broker -> client-tcp, whose default target is not registered
   at, and hub behind the queues of `Routing`.
4. Theorems: that a restart of the broker replaces the rules only when no call is
   under way; the safety of the modules above.

Left out on purpose: `stat_init_` of the servers and the meters of `statistics`,
which only report; the datagrams of `server-udp`, which leave no state; the text
of requests in `io-tank`. Never modelled: JSON bindings and factory tables (no state), iow, wflow and asio
themselves (external; modelled by how this code uses them).

## 6. Running

    tlc -workers 2 -config direct.cfg MCClientTcp
    tlc -workers 2 -config server.cfg MCServerTcp
    tlc -workers 2 -config routing.cfg MCRouting
    tlapm ClientTcpProofs.tla
    tlc -workers 2 -config tank.cfg MCTank
    tlc -workers 2 -config hub.cfg Fanout
    tlapm ClientTcpUseProofs.tla
    tlapm ClientTcpSourceProofs.tla
    tlapm ServerTcpProofs.tla
    tlapm RoutingProofs.tla
    tlapm FanoutProofs.tla
    tlapm TankProofs.tla

The largest instances have about 950 thousand states; every run takes between a
few seconds and two minutes, and a violation run ends with its counterexample.
