------------------------------ MODULE ServerTcp ------------------------------
(***************************************************************************)
(* The domain object server-tcp (class server_tcp) with its connections.   *)
(* The thread Main of the application starts, restarts, suspends and stops *)
(* it.  A restart makes a new server and stops the old one: at once if the *)
(* address is the same, else later, on a thread of the workflow.           *)
(* Connections come and go on threads of their own; each is a source of    *)
(* the target: it registers, sends, gets answers and unregisters.          *)
(* server-udp has the same life cycle, without connections.                *)
(***************************************************************************)
EXTENDS Naturals

CONSTANTS
    Conns,          \* connections by io_id, each of which is made once
    Addresses,      \* pairs of addr and port
    KeepAlives,     \* values the option keep_alive may have
    DirectModes,    \* values the option connection.direct_mode may have
    Suspends,       \* values the suspend flag may be given
    MaxConfigs,     \* bound on the calls of run_
    MaxMessages     \* bound on the messages of one connection

ASSUME OptionsAssumption ==
    /\ KeepAlives \subseteq BOOLEAN
    /\ DirectModes \subseteq BOOLEAN
    /\ Suspends \subseteq BOOLEAN

ASSUME BoundsAssumption == MaxConfigs \in Nat \ {0} /\ MaxMessages \in Nat

Servers == 1 .. MaxConfigs    \* the iow servers made, in that order
NoServer == 0                 \* a null _impl

Configs == [addr : Addresses, keep_alive : KeepAlives, direct : DirectModes]

VARIABLES
    impl,           \* _impl
    opt,            \* options()
    old,            \* the server Main is stopping, or NoServer
    posted,         \* old servers whose stop() is posted to the workflow
    server,         \* server[i]: state and configuration of the i-th server
    made,           \* servers made so far
    phase,          \* where Main is in the life cycle
    suspended,      \* the suspend flag of _target, a winterface
    conn,           \* conn[c]: state of a connection
    registered      \* connections registered at the target

mainVars == <<impl, opt, old, posted, server, made, phase>>
vars == <<mainVars, suspended, conn, registered>>

(***************************************************************************)
(* A server listens, or failed to start, is being stopped and is stopped.  *)
(***************************************************************************)
ServerState ==
    [life : {"none", "listening", "failed", "stopping", "stopped"}, opt : Configs]

(***************************************************************************)
(* server     : the server that accepted the connection.                   *)
(* sent       : messages read so far.                                      *)
(* pending    : messages at the target, not answered yet.                  *)
(* ending     : calls of the output handler with nullptr still to come.    *)
(* answered   : an answer was written without keep_alive.                  *)
(* suspended  : the suspend flag when the connection was accepted.         *)
(* echoed     : a message was sent back, as a suspended server does.       *)
(***************************************************************************)
ConnState ==
    [life : {"none", "open", "closed"}, server : Servers \cup {NoServer},
     sent : Nat, pending : Nat, ending : Nat, answered : BOOLEAN,
     suspended : BOOLEAN, echoed : BOOLEAN]

NoConn == [life |-> "none", server |-> NoServer, sent |-> 0, pending |-> 0,
           ending |-> 0, answered |-> FALSE, suspended |-> FALSE, echoed |-> FALSE]

Open(c) == conn[c].life = "open"
OptOf(c) == server[conn[c].server].opt      \* the options its handlers captured

-----------------------------------------------------------------------------
(* Connections                                                             *)

\* The startup handler of a new connection registers it, unless in direct
\* mode.  A suspended winterface may pass the call on or not.
Accept(c) ==
    /\ conn[c].life = "none"
    /\ \E i \in Servers :
         /\ server[i].life = "listening"
         /\ conn' = [conn EXCEPT ![c] = [NoConn EXCEPT
                        !.life = "open", !.server = i, !.suspended = suspended]]
         /\ \/ ~server[i].opt.direct /\ registered' = registered \cup {c}
            \/ (server[i].opt.direct \/ suspended) /\ UNCHANGED registered
    /\ UNCHANGED <<mainVars, suspended>>

\* Mutant: the shutdown handler looks at the options of the moment.
ClosedByCurrentOptions(c, s) ==
    /\ conn' = [conn EXCEPT ![c] = [s EXCEPT !.life = "closed"]]
    /\ registered' = IF opt.direct THEN registered ELSE registered \ {c}

\* The connection in state s is closed: its shutdown handler unregisters it.
\* It is assumed that winterface passes this on even when it is suspended.
Closed(c, s) ==
    /\ conn' = [conn EXCEPT ![c] = [s EXCEPT !.life = "closed"]]
    /\ registered' = IF OptOf(c).direct THEN registered ELSE registered \ {c}

\* What the output handler of the connection does with an answer: it is
\* written, and without keep_alive a call with nullptr follows.
Written(c, s) ==
    IF OptOf(c).keep_alive
    THEN s
    ELSE [s EXCEPT !.ending = @ + 1, !.answered = Open(c)]

\* The input handler: winterface passes the message on, or echoes it.
Message(c) ==
    /\ Open(c)
    /\ conn[c].sent < MaxMessages
    /\ LET s == [conn[c] EXCEPT !.sent = @ + 1] IN
       conn' = [conn EXCEPT ![c] =
                   IF suspended
                   THEN Written(c, [s EXCEPT !.echoed = TRUE])
                   ELSE [s EXCEPT !.pending = @ + 1]]
    /\ UNCHANGED <<mainVars, suspended, registered>>

\* The target answers, maybe after the connection is gone, or calls the
\* handler with nullptr because there will be no answer.
Answer(c) ==
    /\ conn[c].pending > 0
    /\ LET s == [conn[c] EXCEPT !.pending = @ - 1] IN
       \/ conn' = [conn EXCEPT ![c] = Written(c, s)]
       \/ conn' = [conn EXCEPT ![c] = [s EXCEPT !.ending = @ + 1]]
    /\ UNCHANGED <<mainVars, suspended, registered>>

\* Mutant: without keep_alive the connection stays open after its answer.
EndIgnored(c) ==
    /\ conn[c].ending > 0
    /\ conn' = [conn EXCEPT ![c].ending = @ - 1]
    /\ UNCHANGED <<mainVars, suspended, registered>>

\* Mutant: a message ends its connection, whether an answer was written or not.
EndUnasked(c) ==
    /\ conn[c].sent > 0
    /\ Open(c)
    /\ Closed(c, [conn[c] EXCEPT !.ending = @ - 1])
    /\ UNCHANGED <<mainVars, suspended>>

\* The output handler is called with nullptr: the connection is closed.
End(c) ==
    /\ conn[c].ending > 0
    /\ LET s == [conn[c] EXCEPT !.ending = @ - 1] IN
       \/ Open(c) /\ Closed(c, s)
       \/ ~Open(c) /\ conn' = [conn EXCEPT ![c] = s] /\ UNCHANGED registered
    /\ UNCHANGED <<mainVars, suspended>>

\* The remote side closes the connection.
Leave(c) ==
    /\ Open(c)
    /\ Closed(c, conn[c])
    /\ UNCHANGED <<mainVars, suspended>>

-----------------------------------------------------------------------------
(* Life cycle                                                              *)

\* start()
Start ==
    /\ phase = "initialized"
    /\ phase' = "run"
    /\ UNCHANGED <<impl, opt, old, posted, server, made, suspended, conn, registered>>

\* reconfigure_basic(): the flag of the winterface all connections share.
ReconfigureBasic ==
    /\ phase \in {"initialized", "running"}
    /\ suspended' \in Suspends \ {suspended}
    /\ UNCHANGED <<mainVars, conn, registered>>

\* Mutant: the stop of the old server is posted whatever the address.
RestartPosting ==
    /\ phase = "running"
    /\ made < MaxConfigs
    /\ opt' \in Configs
    /\ impl' = NoServer
    /\ posted' = posted \cup {impl}
    /\ phase' = "run"
    /\ UNCHANGED <<old, server, made, suspended, conn, registered>>

\* Mutant: a server whose address changes is dropped but never stopped.
RestartForgetting ==
    /\ phase = "running"
    /\ made < MaxConfigs
    /\ opt' \in Configs
    /\ impl' = NoServer
    /\ IF opt'.addr # opt.addr
       THEN phase' = "run" /\ UNCHANGED old
       ELSE phase' = "stop_old" /\ old' = impl
    /\ UNCHANGED <<posted, server, made, suspended, conn, registered>>

\* restart() with new options; the ones run_ used last are still in opt, for
\* _addr and _port.
Restart ==
    /\ phase = "running"
    /\ made < MaxConfigs
    /\ opt' \in Configs
    /\ impl' = NoServer
    /\ \/ /\ opt'.addr # opt.addr
          /\ posted' = posted \cup {impl}
          /\ phase' = "run"
          /\ UNCHANGED old
       \/ /\ opt'.addr = opt.addr
          /\ old' = impl
          /\ phase' = "stop_old"
          /\ UNCHANGED posted
    /\ UNCHANGED <<server, made, suspended, conn, registered>>

\* A server cannot listen where another one does.
Free(a) == \A i \in Servers : server[i].life = "listening" => server[i].opt.addr # a

\* run_(): a server that cannot start throws, which is only logged.
Run ==
    /\ phase = "run"
    /\ impl' = made + 1
    /\ made' = made + 1
    /\ server' = [server EXCEPT ![made + 1] =
                     [life |-> IF Free(opt.addr) THEN "listening" ELSE "failed", opt |-> opt]]
    /\ phase' = "running"
    /\ UNCHANGED <<opt, old, posted, suspended, conn, registered>>

\* Mutant: stop() leaves _impl alone.
StopNothing ==
    /\ phase \in {"initialized", "running"}
    /\ phase' = "stopped"
    /\ UNCHANGED <<impl, opt, old, posted, server, made, suspended, conn, registered>>

\* stop(), if there is a server.
Stop ==
    /\ phase \in {"initialized", "running"}
    /\ old' = impl
    /\ phase' = IF impl = NoServer THEN "stopped" ELSE "final"
    /\ UNCHANGED <<impl, opt, posted, server, made, suspended, conn, registered>>

(***************************************************************************)
(* stop() of an iow server, on Main for the server `old' and on a thread   *)
(* of the workflow for a posted one: it stops to listen, closes its        *)
(* connections one by one, and returns.                                    *)
(***************************************************************************)
StopListening(i) ==
    /\ i = old \/ i \in posted
    /\ server[i].life \in {"listening", "failed"}
    /\ server' = [server EXCEPT ![i].life = "stopping"]
    /\ UNCHANGED <<impl, opt, old, posted, made, phase, suspended, conn, registered>>

Drop(c) ==
    /\ Open(c)
    /\ server[conn[c].server].life = "stopping"
    /\ Closed(c, conn[c])
    /\ UNCHANGED <<mainVars, suspended>>

Dropped(i) ==
    /\ server[i].life = "stopping"
    /\ \A c \in Conns : ~(Open(c) /\ conn[c].server = i)

\* Main goes on to make the new server, or is done.
StopReturns(i) ==
    /\ i = old
    /\ Dropped(i)
    /\ server' = [server EXCEPT ![i].life = "stopped"]
    /\ old' = NoServer
    /\ phase' = IF phase = "stop_old" THEN "run" ELSE "stopped"
    /\ impl' = NoServer
    /\ UNCHANGED <<opt, posted, made, suspended, conn, registered>>

PostedReturns(i) ==
    /\ i \in posted
    /\ Dropped(i)
    /\ server' = [server EXCEPT ![i].life = "stopped"]
    /\ posted' = posted \ {i}
    /\ UNCHANGED <<impl, opt, old, made, phase, suspended, conn, registered>>

-----------------------------------------------------------------------------
\* Main goes on inside start, restart and stop, and the workflow with what is
\* posted to it.
StopStep(i) == StopListening(i) \/ StopReturns(i) \/ PostedReturns(i)

\* The application has stopped and nothing is under way.
Terminated ==
    /\ phase = "stopped"
    /\ posted = {}
    /\ \A c \in Conns : ~Open(c) /\ conn[c].pending = 0 /\ conn[c].ending = 0
    /\ UNCHANGED vars

Init ==
    /\ impl = NoServer
    /\ opt \in Configs
    /\ old = NoServer
    /\ posted = {}
    /\ server = [i \in Servers |-> [life |-> "none", opt |-> opt]]
    /\ made = 0
    /\ phase = "initialized"
    /\ suspended \in Suspends
    /\ conn = [c \in Conns |-> NoConn]
    /\ registered = {}

Next ==
    \/ Start \/ ReconfigureBasic \/ Restart \/ Run \/ Stop
    \/ \E i \in Servers : StopStep(i)
    \/ \E c \in Conns :
         \/ Accept(c) \/ Message(c) \/ Answer(c) \/ End(c) \/ Leave(c) \/ Drop(c)
    \/ Terminated

Spec == Init /\ [][Next]_vars

\* The thread of the application, the workflow and the output handlers run;
\* nobody has to connect, send, answer, leave, restart or stop.
FairSpec ==
    /\ Spec
    /\ WF_vars(Run)
    /\ \A i \in Servers : WF_vars(StopStep(i))
    /\ \A c \in Conns : WF_vars(Drop(c)) /\ WF_vars(End(c))

-----------------------------------------------------------------------------
(* Properties                                                              *)

\* Every variable stays in the set its declaration in the code describes.
TypeOK ==
    /\ impl \in Servers \cup {NoServer}
    /\ opt \in Configs
    /\ old \in Servers \cup {NoServer}
    /\ posted \subseteq Servers
    /\ server \in [Servers -> ServerState]
    /\ made \in 0 .. MaxConfigs
    /\ phase \in {"initialized", "run", "running", "stop_old", "final", "stopped"}
    /\ suspended \in BOOLEAN
    /\ conn \in [Conns -> ConnState]
    /\ registered \subseteq Conns

(***************************************************************************)
(* The registrations at the target follow the connections: whoever is      *)
(* registered is open, and an open connection is registered, unless its    *)
(* server is in direct mode or was suspended when it came.  A restart may  *)
(* have changed direct mode between the startup and the shutdown handler.  *)
(***************************************************************************)
RegistrationMatches ==
    /\ \A c \in registered : Open(c)
    /\ \A c \in Conns :
         Open(c) /\ ~OptOf(c).direct /\ ~conn[c].suspended => c \in registered

(***************************************************************************)
(* No server is lost: one that was made and does not stay _impl is being   *)
(* stopped or waits for the workflow to stop it, until it is stopped, so   *)
(* no port stays open behind the application's back.                       *)
(***************************************************************************)
NoServerLost ==
    \A i \in 1 .. made :
        server[i].life # "stopped" => i \in {impl, old} \cup posted

(***************************************************************************)
(* A server that was started or reconfigured listens ("server-tcp supports *)
(* dynamic reconfiguration"): the old server has let go of the address     *)
(* when the new one is started.                                            *)
(***************************************************************************)
ListensWhileRunning == phase = "running" => server[impl].life = "listening"

(***************************************************************************)
(* "If only the suspend flag is changed, the change is effective for new   *)
(* connections only, and current ones go on working": a connection that    *)
(* was accepted by a server not suspended never has its messages echoed.   *)
(***************************************************************************)
SuspendForNewOnly == \A c \in Conns : conn[c].echoed => conn[c].suspended

(***************************************************************************)
(* "When reconfigured, all current connections are reset": a connection of *)
(* a server that is not _impl any more is closed.                          *)
(***************************************************************************)
ConnectionsReset ==
    \A c \in Conns : Open(c) /\ conn[c].server # impl ~> ~Open(c)

(***************************************************************************)
(* A stop, also one right after restarts whose old servers still wait for  *)
(* the workflow, leaves in the end no server that listens.                 *)
(***************************************************************************)
StopsListening ==
    phase = "stopped" ~> \A i \in Servers : server[i].life \in {"none", "stopped"}

(***************************************************************************)
(* Without keep_alive a connection is closed after an answer is written.   *)
(***************************************************************************)
ClosedAfterAnswer == \A c \in Conns : conn[c].answered ~> ~Open(c)

(***************************************************************************)
(* "Settings are fewer for UDP, but the rest coincides with TCP": seen     *)
(* without its connections, server-tcp goes through the life cycle of      *)
(* server-udp, and gets on in it wherever that does, however long the      *)
(* connections of an old server take to be closed.                         *)
(***************************************************************************)
Udp == INSTANCE ServerUdp WITH
           addr <- opt.addr,
           socket <- [i \in Servers |-> [life |-> server[i].life, addr |-> server[i].opt.addr]]

LifeCycleOfUdp == Udp!FairSpec
=============================================================================
