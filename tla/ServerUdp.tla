------------------------------ MODULE ServerUdp ------------------------------
(***************************************************************************)
(* The domain object server-udp (class server_udp): its life cycle on the  *)
(* thread of the application and the stops it posts to the workflow.  A    *)
(* datagram goes to the target and its answer back through the handler it  *)
(* came with; it leaves nothing behind, so it is no part of the state.     *)
(* server-tcp, which adds connections, implements this specification.      *)
(***************************************************************************)
EXTENDS Naturals

CONSTANTS
    Addresses,      \* pairs of addr and port
    Suspends,       \* values the suspend flag may be given
    MaxConfigs      \* bound on the calls of run_

Servers == 1 .. MaxConfigs    \* the iow servers made, in that order
NoServer == 0                 \* a null _impl

VARIABLES
    impl,           \* _impl
    addr,           \* addr and port of options(); between restarts also _addr, _port
    old,            \* the server the application's thread is stopping, or NoServer
    posted,         \* old servers whose stop() is posted to the workflow
    socket,         \* socket[i]: state and address of the i-th server
    made,           \* servers made so far
    phase,          \* where the application is in the life cycle
    suspended       \* the suspend flag of _target

vars == <<impl, addr, old, posted, socket, made, phase, suspended>>

Init ==
    /\ impl = NoServer
    /\ addr \in Addresses
    /\ old = NoServer
    /\ posted = {}
    /\ socket = [i \in Servers |-> [life |-> "none", addr |-> addr]]
    /\ made = 0
    /\ phase = "initialized"
    /\ suspended \in Suspends

Start ==
    /\ phase = "initialized"
    /\ phase' = "run"
    /\ UNCHANGED <<impl, addr, old, posted, socket, made, suspended>>

ReconfigureBasic ==
    /\ phase \in {"initialized", "running"}
    /\ suspended' \in Suspends \ {suspended}
    /\ UNCHANGED <<impl, addr, old, posted, socket, made, phase>>

\* restart(): at another address the stop of the old server can wait, at the
\* same one it must come first.
Restart ==
    /\ phase = "running"
    /\ made < MaxConfigs
    /\ addr' \in Addresses
    /\ impl' = NoServer
    /\ \/ addr' # addr /\ posted' = posted \cup {impl} /\ phase' = "run" /\ UNCHANGED old
       \/ addr' = addr /\ old' = impl /\ phase' = "stop_old" /\ UNCHANGED posted
    /\ UNCHANGED <<socket, made, suspended>>

Free(a) == \A i \in Servers : socket[i].life = "listening" => socket[i].addr # a

\* run_(): a server that cannot start throws, which is only logged.  The global
\* object, without which run_() makes no server, is taken to exist.
Run ==
    /\ phase = "run"
    /\ impl' = made + 1
    /\ made' = made + 1
    /\ socket' = [socket EXCEPT ![made + 1] =
                     [life |-> IF Free(addr) THEN "listening" ELSE "failed", addr |-> addr]]
    /\ phase' = "running"
    /\ UNCHANGED <<addr, old, posted, suspended>>

\* stop(), if there is a server.
Stop ==
    /\ phase \in {"initialized", "running"}
    /\ old' = impl
    /\ phase' = IF impl = NoServer THEN "stopped" ELSE "final"
    /\ UNCHANGED <<impl, addr, posted, socket, made, suspended>>

\* stop() of an iow server: the socket is closed, then its threads end.
CloseSocket(i) ==
    /\ i = old \/ i \in posted
    /\ socket[i].life \in {"listening", "failed"}
    /\ socket' = [socket EXCEPT ![i].life = "stopping"]
    /\ UNCHANGED <<impl, addr, old, posted, made, phase, suspended>>

StopReturns(i) ==
    /\ socket[i].life = "stopping"
    /\ socket' = [socket EXCEPT ![i].life = "stopped"]
    /\ \/ /\ i = old
          /\ old' = NoServer
          /\ impl' = NoServer
          /\ phase' = IF phase = "stop_old" THEN "run" ELSE "stopped"
          /\ UNCHANGED posted
       \/ /\ i \in posted
          /\ posted' = posted \ {i}
          /\ UNCHANGED <<impl, old, phase>>
    /\ UNCHANGED <<addr, made, suspended>>

StopStep(i) == CloseSocket(i) \/ StopReturns(i)

Next ==
    \/ Start \/ ReconfigureBasic \/ Restart \/ Run \/ Stop
    \/ \E i \in Servers : StopStep(i)

Spec == Init /\ [][Next]_vars

\* Whatever was begun goes on: run_, and each stop, posted or not.
FairSpec == Spec /\ WF_vars(Run) /\ \A i \in Servers : WF_vars(StopStep(i))
=============================================================================
