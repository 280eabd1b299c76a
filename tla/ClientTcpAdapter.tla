-------------------------- MODULE ClientTcpAdapter --------------------------
(***************************************************************************)
(* One client of client-tcp, class client_tcp_adapter: a multi_client of   *)
(* the iow library together with the source ("holder") it serves.  The     *)
(* adapter is passive, so this module holds its state and its operations;  *)
(* ClientTcpMap and ClientTcp compose them into steps of threads.          *)
(***************************************************************************)
EXTENDS Naturals, FiniteSets

CONSTANTS
    Sources,        \* objects that send through client-tcp, named by their io_id
    NoId,           \* the io_id 0: no source
    MaxAdapters     \* bound on the adapters made in one behaviour

ASSUME SourcesAssumption == NoId \notin Sources /\ IsFiniteSet(Sources)

ASSUME AdaptersAssumption == MaxAdapters \in Nat \ {0}

Adapters == 1 .. MaxAdapters      \* in the order of create_id(): never reused
NoAdapter == 0                    \* a null client_ptr

VARIABLES
    adapter,    \* adapter[a]: the members of the a-th adapter made
    next_id,    \* adapters made so far
    inflight,   \* <<a, s>>: a request of s was sent by a and is not answered yet
    alive       \* sources whose interface a weak_ptr can still lock

adapterVars == <<adapter, next_id, inflight, alive>>

(***************************************************************************)
(* life     : "none" before the constructor; started and stopped are the   *)
(*            states of the iow client under the adapter.                  *)
(* options  : the configuration the adapter was last started with, as the  *)
(*            number of the reconfiguration (0: the default options).      *)
(* holder_id, holder : _holder_id and the source _holder points to.        *)
(* wrapped  : _holder points to _perform_holder, the wrapper around the    *)
(*            callback of the source `holder'.                             *)
(***************************************************************************)
AdapterState ==
    [life : {"none", "made", "started", "stopped"},
     options : Nat,
     holder_id : Sources \cup {NoId},
     holder : Sources \cup {NoId},
     wrapped : BOOLEAN]

Unmade == [life |-> "none", options |-> 0,
           holder_id |-> NoId, holder |-> NoId, wrapped |-> FALSE]

\* The constructor.
Made == [Unmade EXCEPT !.life = "made"]

\* start(opt), whatever state the iow client is in; opt is configuration g.  If
\* the iow client throws, that is only logged: the adapter counts as started
\* then too, and refuses what is sent (SendRefused).
Started(ad, g) == [ad EXCEPT !.life = "started", !.options = g]

\* stop() of the iow client under the adapter.
Stopped(ad) == [ad EXCEPT !.life = "stopped"]

\* get_holder(): the source an incoming message is given to, or NoId.
GetHolder(a) ==
    IF adapter[a].wrapped \/ adapter[a].holder \in alive
    THEN adapter[a].holder
    ELSE NoId

\* The condition of the assertion "Several sources are unacceptable".
SeveralSources(a, id) == adapter[a].holder_id \notin {NoId, id}

\* reg_io(io_id, itf): the assertion only logs, then the holder is replaced.
RegisteredTo(ad, id) ==
    [ad EXCEPT !.holder_id = id, !.holder = id, !.wrapped = FALSE]

\* Mutant: unreg_io leaves _holder_id as it is.
KeepsHolderId(ad, id) ==
    IF ad.holder_id # id THEN ad ELSE [ad EXCEPT !.wrapped = FALSE]

\* unreg_io(io_id): releases the wrapper, but keeps _holder itself.
UnregisteredFrom(ad, id) ==
    IF ad.holder_id # id
    THEN ad
    ELSE [ad EXCEPT !.holder_id = NoId,
                    !.holder = IF ad.wrapped THEN NoId ELSE ad.holder,
                    !.wrapped = FALSE]

\* perform_io finds nobody to answer to and wraps the callback.  This is where
\* it logs "The object sent data without registration".
WrapsCallback(a, hasHandler) == GetHolder(a) = NoId /\ hasHandler

\* The holder part of perform_io(d, io_id, handler).
Wrapped(ad, id) ==
    [ad EXCEPT !.holder_id = id, !.holder = id, !.wrapped = TRUE]

(***************************************************************************)
(* The transport part of perform_io.  The iow client refuses data when it  *)
(* has no usable connection, which a client that is started may or may not *)
(* have; a refusal is reported to the callback as handler(nullptr).        *)
(***************************************************************************)
SendOk(a, id) ==
    /\ adapter[a].life = "started"
    /\ inflight' = inflight \cup {<<a, id>>}

SendRefused == UNCHANGED inflight

(***************************************************************************)
(* The answer to a request of s arrives at adapter a, which is still       *)
(* running, and goes to whoever is the holder at that time: input_handler. *)
(***************************************************************************)
Answered(a, s) ==
    /\ <<a, s>> \in inflight
    /\ adapter[a].life = "started"
    /\ inflight' = inflight \ {<<a, s>>}
    /\ UNCHANGED <<adapter, next_id, alive>>

AdapterInit ==
    /\ adapter = [a \in Adapters |-> Unmade]
    /\ next_id = 0
    /\ inflight = {}
    /\ alive = {}

AdapterTypeOK ==
    /\ adapter \in [Adapters -> AdapterState]
    /\ next_id \in 0 .. MaxAdapters
    /\ inflight \subseteq Adapters \X Sources
    /\ alive \subseteq Sources
=============================================================================
