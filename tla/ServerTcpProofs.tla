--------------------------- MODULE ServerTcpProofs ---------------------------
(***************************************************************************)
(* Theorems about ServerTcp, for every set of connections and addresses    *)
(* and any number of restarts and messages.                                *)
(***************************************************************************)
EXTENDS ServerTcp, TLAPS

(***************************************************************************)
(* Where Main is says which servers it holds: at most one, except that     *)
(* stop() keeps the server it stops in _impl.                              *)
(***************************************************************************)
PhaseInv ==
    /\ phase = "initialized" => made = 0
    /\ phase \in {"run", "stop_old"} => made < MaxConfigs
    /\ phase \in {"initialized", "run", "stop_old"} => impl = NoServer
    /\ phase = "running" => impl \in Servers
    /\ phase = "final" => impl = old
    /\ phase \in {"initialized", "run", "running", "stopped"} => old = NoServer

TypeInv == TypeOK /\ PhaseInv

(***************************************************************************)
(* What a connection captured is for good: it belongs to a server that was *)
(* made, and is registered only outside direct mode.                       *)
(***************************************************************************)
RegistrationInv ==
    /\ \A i \in Servers : i > made => server[i].life = "none"
    /\ \A c \in Conns : Open(c) => conn[c].server \in 1 .. made
    /\ \A c \in registered : Open(c) /\ ~OptOf(c).direct
    /\ RegistrationMatches

-----------------------------------------------------------------------------
(* Types                                                                   *)

\* The fields that change while a connection is open.
LEMMA ConnFields ==
    ASSUME NEW s \in ConnState, NEW n \in Nat, NEW b \in BOOLEAN
    PROVE  /\ [s EXCEPT !.sent = n] \in ConnState
           /\ [s EXCEPT !.pending = n] \in ConnState
           /\ [s EXCEPT !.ending = n] \in ConnState
           /\ [s EXCEPT !.echoed = b] \in ConnState
           /\ [s EXCEPT !.ending = n, !.answered = b] \in ConnState
<1>1. [s EXCEPT !.sent = n] \in ConnState
  BY DEF ConnState
<1>2. [s EXCEPT !.pending = n] \in ConnState
  BY DEF ConnState
<1>3. [s EXCEPT !.ending = n] \in ConnState
  BY DEF ConnState
<1>4. [s EXCEPT !.echoed = b] \in ConnState
  BY DEF ConnState
<1>5. [s EXCEPT !.ending = n, !.answered = b] \in ConnState
  BY DEF ConnState
<1> QED
  BY <1>1, <1>2, <1>3, <1>4, <1>5

\* One message, answer or call of a handler more or less.
LEMMA ConnCounts ==
    ASSUME NEW s \in ConnState
    PROVE  /\ s.sent + 1 \in Nat /\ s.pending + 1 \in Nat /\ s.ending + 1 \in Nat
           /\ s.pending > 0 => s.pending - 1 \in Nat
           /\ s.ending > 0 => s.ending - 1 \in Nat
BY DEF ConnState

\* What the output handler leaves of a connection is a connection.
LEMMA WrittenType ==
    ASSUME NEW c \in Conns, NEW s \in ConnState, TypeOK
    PROVE  Written(c, s) \in ConnState
<1>1. Open(c) \in BOOLEAN
  BY DEF Open
<1>2. [s EXCEPT !.ending = s.ending + 1, !.answered = Open(c)] \in ConnState
  BY <1>1, ConnFields, ConnCounts
<1> QED
  BY <1>2 DEF Written

\* Closing a connection keeps the types of connections and registrations.
LEMMA ClosedType ==
    ASSUME NEW c \in Conns, NEW s \in ConnState, TypeOK, Closed(c, s)
    PROVE  conn' \in [Conns -> ConnState] /\ registered' \subseteq Conns
BY DEF Closed, ConnState, TypeOK

\* The steps of connections keep the types.
LEMMA ConnectionType ==
    ASSUME TypeInv, NEW c \in Conns,
           Accept(c) \/ Message(c) \/ Answer(c) \/ End(c) \/ Leave(c) \/ Drop(c)
    PROVE  TypeInv'
<1> USE DEF TypeInv
<1>1. TypeOK /\ conn[c] \in ConnState
  BY DEF TypeOK
<1>2. ASSUME UNCHANGED <<mainVars, suspended>>,
             conn' \in [Conns -> ConnState], registered' \subseteq Conns
      PROVE  TypeInv'
  BY <1>2 DEF TypeOK, PhaseInv, mainVars
<1>3. CASE Accept(c)
  <2> DEFINE New(i) == [NoConn EXCEPT !.life = "open", !.server = i, !.suspended = suspended]
  <2>3. \A i \in Servers : New(i) \in ConnState
    BY <1>1 DEF ConnState, NoConn, TypeOK
  <2>4. PICK i \in Servers : conn' = [conn EXCEPT ![c] = New(i)]
    BY <1>3 DEF Accept
  <2> HIDE DEF New
  <2>1. conn' \in [Conns -> ConnState]
    BY <1>1, <2>3, <2>4 DEF TypeOK
  <2>2. registered' \subseteq Conns
    BY <1>1, <1>3 DEF Accept, TypeOK
  <2> QED
    BY <1>2, <1>3, <2>1, <2>2 DEF Accept
<1>4. CASE Message(c)
  <2> DEFINE s == [conn[c] EXCEPT !.sent = @ + 1]
  <2>1. s \in ConnState
    BY <1>1, ConnFields, ConnCounts
  <2> HIDE DEF s
  <2>2. /\ [s EXCEPT !.echoed = TRUE] \in ConnState
        /\ [s EXCEPT !.pending = s.pending + 1] \in ConnState
    BY <2>1, ConnFields, ConnCounts
  <2>3. Written(c, [s EXCEPT !.echoed = TRUE]) \in ConnState
    BY <1>1, <2>2, WrittenType
  <2>4. conn' \in [Conns -> ConnState]
    <3> DEFINE v == IF suspended THEN Written(c, [s EXCEPT !.echoed = TRUE])
                                 ELSE [s EXCEPT !.pending = s.pending + 1]
    <3>1. v \in ConnState
      BY <2>2, <2>3
    <3>2. conn' = [conn EXCEPT ![c] = v]
      BY <1>4 DEF Message, s
    <3> HIDE DEF v
    <3> QED
      BY <1>1, <3>1, <3>2 DEF TypeOK
  <2> QED
    BY <1>1, <1>2, <1>4, <2>4 DEF Message, TypeOK
<1>5. CASE Answer(c)
  <2> DEFINE s == [conn[c] EXCEPT !.pending = @ - 1]
  <2>1. s \in ConnState
    BY <1>1, <1>5, ConnFields, ConnCounts DEF Answer
  <2> HIDE DEF s
  <2>2. [s EXCEPT !.ending = s.ending + 1] \in ConnState
    BY <2>1, ConnFields, ConnCounts
  <2>3. Written(c, s) \in ConnState
    BY <1>1, <2>1, WrittenType
  <2>4. conn' \in [Conns -> ConnState]
    BY <1>1, <1>5, <2>2, <2>3 DEF Answer, TypeOK, s
  <2> QED
    BY <1>1, <1>2, <1>5, <2>4 DEF Answer, TypeOK
<1>6. CASE End(c)
  <2> DEFINE s == [conn[c] EXCEPT !.ending = @ - 1]
  <2>1. s \in ConnState
    BY <1>1, <1>6 DEF ConnState, End
  <2>2. conn' \in [Conns -> ConnState] /\ registered' \subseteq Conns
    BY <1>1, <1>6, <2>1, ClosedType DEF End, TypeOK
  <2> QED
    BY <1>2, <1>6, <2>2 DEF End
<1>7. CASE Leave(c) \/ Drop(c)
  BY <1>1, <1>2, <1>7, ClosedType DEF Leave, Drop
<1> QED
  BY <1>3, <1>4, <1>5, <1>6, <1>7

\* The steps of the life cycle keep the types and Main's bookkeeping.
LEMMA LifeCycleType ==
    ASSUME TypeInv,
           \/ Start \/ ReconfigureBasic \/ Restart \/ Run \/ Stop
           \/ \E i \in Servers : StopStep(i)
    PROVE  TypeInv'
<1> USE BoundsAssumption, OptionsAssumption DEF TypeInv, TypeOK, PhaseInv, Servers, NoServer
<1>1. CASE Start
  BY <1>1 DEF Start
<1>2. CASE ReconfigureBasic
  BY <1>2 DEF ReconfigureBasic, mainVars
<1>3. CASE Restart
  BY <1>3 DEF Restart
<1>4. CASE Run
  <2>1. server' \in [Servers -> ServerState]
    BY <1>4 DEF Run, ServerState
  <2> QED
    BY <1>4, <2>1 DEF Run
<1>5. CASE Stop
  BY <1>5 DEF Stop
<1>6. ASSUME NEW i \in Servers, StopListening(i)
      PROVE  TypeInv'
  <2>1. server' \in [Servers -> ServerState]
    BY <1>6 DEF StopListening, ServerState
  <2> QED
    BY <1>6, <2>1 DEF StopListening
<1>7. ASSUME NEW i \in Servers, StopReturns(i)
      PROVE  TypeInv'
  <2>1. server' \in [Servers -> ServerState]
    BY <1>7 DEF StopReturns, ServerState
  <2>2. phase \in {"stop_old", "final"}
    BY <1>7 DEF StopReturns
  <2> QED
    BY <1>7, <2>1, <2>2 DEF StopReturns
<1>8. ASSUME NEW i \in Servers, PostedReturns(i)
      PROVE  TypeInv'
  <2>1. server' \in [Servers -> ServerState]
    BY <1>8 DEF PostedReturns, ServerState
  <2> QED
    BY <1>8, <2>1 DEF PostedReturns
<1> QED
  BY <1>1, <1>2, <1>3, <1>4, <1>5, <1>6, <1>7, <1>8 DEF StopStep

LEMMA TypeInit ==
    ASSUME Init
    PROVE  TypeInv
BY BoundsAssumption, OptionsAssumption
   DEF Init, TypeInv, TypeOK, PhaseInv, Servers, ServerState, ConnState, NoConn, NoServer

LEMMA TypeStep ==
    ASSUME TypeInv, [Next]_vars
    PROVE  TypeInv'
<1>1. CASE UNCHANGED vars
  BY <1>1 DEF TypeInv, TypeOK, PhaseInv, vars, mainVars
<1>2. CASE Terminated
  BY <1>1, <1>2 DEF Terminated
<1> QED
  BY <1>1, <1>2, ConnectionType, LifeCycleType DEF Next

(***************************************************************************)
(* TypeOK is an invariant of server-tcp.                                   *)
(***************************************************************************)
THEOREM ServerTypeCorrect == Spec => []TypeOK
<1>1. TypeInv => TypeOK
  BY DEF TypeInv
<1> QED
  BY TypeInit, TypeStep, <1>1, PTL DEF Spec

-----------------------------------------------------------------------------
(* No server is lost                                                       *)

LEMMA ServersStep ==
    ASSUME TypeInv, NoServerLost, [Next]_vars
    PROVE  NoServerLost'
<1> USE DEF NoServerLost
<1>1. ASSUME UNCHANGED mainVars
      PROVE  NoServerLost'
  BY <1>1 DEF mainVars
<1>2. CASE Start
  BY <1>2 DEF Start
<1>3. CASE Restart
  BY <1>3 DEF Restart, TypeInv, PhaseInv, NoServer
<1>4. CASE Run
  <2> SUFFICES ASSUME NEW i \in 1 .. made', server'[i].life # "stopped"
               PROVE  i \in {impl', old'} \cup posted'
    OBVIOUS
  <2>1. CASE i = made + 1
    BY <1>4, <2>1 DEF Run
  <2>2. CASE i # made + 1
    <3>1. i \in 1 .. made
      BY <1>4, <2>2 DEF Run, TypeInv, TypeOK
    <3>2. server'[i] = server[i]
      BY <1>4, <2>2, <3>1, BoundsAssumption DEF Run, TypeInv, TypeOK, Servers
    <3>3. i \in {NoServer, old} \cup posted
      BY <1>4, <3>1, <3>2 DEF Run, TypeInv, PhaseInv
    <3> QED
      BY <1>4, <3>1, <3>3 DEF Run, TypeInv, TypeOK, NoServer
  <2> QED
    BY <2>1, <2>2
<1>5. CASE Stop
  BY <1>5 DEF Stop, TypeInv, TypeOK, PhaseInv, NoServer
<1>6. ASSUME NEW j \in Servers, StopListening(j)
      PROVE  NoServerLost'
  BY <1>6, BoundsAssumption DEF StopListening, TypeInv, TypeOK, Servers, ServerState
<1>7. ASSUME NEW j \in Servers, StopReturns(j)
      PROVE  NoServerLost'
  <2>1. phase \in {"stop_old", "final"} /\ impl \in {NoServer, old}
    BY <1>7, BoundsAssumption DEF StopReturns, TypeInv, TypeOK, PhaseInv, Servers, NoServer
  <2> SUFFICES ASSUME NEW i \in 1 .. made, server'[i].life # "stopped"
               PROVE  i \in posted
    BY <1>7 DEF StopReturns
  <2>2. i \in Servers
    BY BoundsAssumption DEF TypeInv, TypeOK, Servers
  <2>3. i # j
    BY <1>7, <2>2 DEF StopReturns, TypeInv, TypeOK, ServerState
  <2>4. server'[i] = server[i]
    BY <1>7, <2>2, <2>3 DEF StopReturns, TypeInv, TypeOK
  <2> QED
    BY <1>7, <2>1, <2>2, <2>3, <2>4 DEF StopReturns, Servers, NoServer
<1>8. ASSUME NEW j \in Servers, PostedReturns(j)
      PROVE  NoServerLost'
  <2> SUFFICES ASSUME NEW i \in 1 .. made, server'[i].life # "stopped"
               PROVE  i \in {impl, old} \cup (posted \ {j})
    BY <1>8 DEF PostedReturns
  <2>1. i \in Servers
    BY BoundsAssumption DEF TypeInv, TypeOK, Servers
  <2>2. i # j
    BY <1>8, <2>1 DEF PostedReturns, TypeInv, TypeOK, ServerState
  <2>3. server'[i] = server[i]
    BY <1>8, <2>1, <2>2 DEF PostedReturns, TypeInv, TypeOK
  <2> QED
    BY <2>2, <2>3
<1> QED
  BY <1>1, <1>2, <1>3, <1>4, <1>5, <1>6, <1>7, <1>8
     DEF Next, StopStep, ReconfigureBasic, Accept, Message, Answer, End, Leave, Drop,
         Terminated, vars

(***************************************************************************)
(* Every server ever made is _impl, being stopped, waiting to be stopped,  *)
(* or stopped, however often server-tcp is restarted and to whatever       *)
(* addresses.                                                              *)
(***************************************************************************)
THEOREM ServersKept == Spec => []NoServerLost
<1>1. Init => NoServerLost
  BY DEF Init, NoServerLost
<1> QED
  BY TypeInit, TypeStep, <1>1, ServersStep, PTL DEF Spec

-----------------------------------------------------------------------------
(* Registrations follow connections                                        *)

\* A step that leaves what RegistrationInv speaks of.
LEMMA RegistrationUntouched ==
    ASSUME TypeInv, RegistrationInv,
           UNCHANGED <<made, server, registered>>,
           conn' \in [Conns -> ConnState],
           \A c \in Conns : /\ conn'[c].life = conn[c].life
                            /\ conn'[c].server = conn[c].server
                            /\ conn'[c].suspended = conn[c].suspended
    PROVE  RegistrationInv'
BY DEF RegistrationInv, RegistrationMatches, Open, OptOf, TypeInv, TypeOK

\* A connection that is closed is registered no more.
LEMMA RegistrationClosed ==
    ASSUME TypeInv, RegistrationInv, NEW c \in Conns, NEW s \in ConnState,
           Open(c), Closed(c, s), UNCHANGED <<made, server>>
    PROVE  RegistrationInv'
<1>1. c \notin registered' /\ registered' \subseteq registered
  BY DEF Closed, RegistrationInv
<1>2. registered \subseteq registered' \cup {c}
  BY DEF Closed
<1>3. ~Open(c)'
  BY DEF Closed, Open, TypeInv, TypeOK, ConnState
<1>4. \A d \in Conns \ {c} : conn'[d] = conn[d]
  BY DEF Closed, TypeInv, TypeOK
<1> QED
  BY <1>1, <1>2, <1>3, <1>4
     DEF RegistrationInv, RegistrationMatches, Open, OptOf, TypeInv, TypeOK

\* A step on the servers that makes none and keeps their options.
LEMMA RegistrationServers ==
    ASSUME TypeInv, RegistrationInv, NEW i \in Servers, NEW l,
           server[i].life # "none",
           server' = [server EXCEPT ![i].life = l],
           UNCHANGED <<made, conn, registered>>
    PROVE  RegistrationInv'
<1>1. \A j \in Servers : server'[j].opt = server[j].opt
  BY DEF TypeInv, TypeOK, ServerState
<1>2. \A j \in Servers : j > made => server'[j].life = "none"
  BY DEF TypeInv, TypeOK, RegistrationInv
<1>3. made \in Nat /\ \A j \in 1 .. made : j \in Servers
  BY BoundsAssumption DEF TypeInv, TypeOK, Servers
<1>4. \A c \in Conns : Open(c) => OptOf(c)' = OptOf(c)
  BY <1>1, <1>3 DEF OptOf, RegistrationInv
<1> QED
  BY <1>2, <1>4 DEF RegistrationInv, RegistrationMatches, Open, TypeInv, TypeOK

LEMMA RegistrationStep ==
    ASSUME TypeInv, TypeInv', RegistrationInv, [Next]_vars
    PROVE  RegistrationInv'
<1>1. ASSUME UNCHANGED <<made, server, conn, registered>>
      PROVE  RegistrationInv'
  BY <1>1, RegistrationUntouched DEF TypeInv, TypeOK
<1>2. CASE Run
  <2>1. made \in Nat /\ \A i \in 1 .. made : i \in Servers /\ server'[i] = server[i]
    BY <1>2, BoundsAssumption DEF Run, TypeInv, TypeOK, Servers
  <2>2. \A i \in Servers : i > made' => server'[i].life = "none"
    BY <1>2, <2>1, BoundsAssumption DEF Run, RegistrationInv, TypeInv, TypeOK, Servers
  <2>3. \A c \in Conns : Open(c)' = Open(c) /\ (Open(c) => OptOf(c)' = OptOf(c))
    BY <1>2, <2>1 DEF Run, OptOf, Open, RegistrationInv
  <2>4. \A c \in Conns : Open(c) => conn'[c].server \in 1 .. made'
    BY <1>2, <2>1 DEF Run, RegistrationInv
  <2> QED
    BY <1>2, <2>2, <2>3, <2>4 DEF Run, RegistrationInv, RegistrationMatches, TypeInv, TypeOK
<1>3. ASSUME NEW c \in Conns, Accept(c)
      PROVE  RegistrationInv'
  <2>1. PICK i \in Servers :
          /\ server[i].life = "listening"
          /\ conn' = [conn EXCEPT ![c] = [NoConn EXCEPT
                         !.life = "open", !.server = i, !.suspended = suspended]]
          /\ \/ ~server[i].opt.direct /\ registered' = registered \cup {c}
             \/ (server[i].opt.direct \/ suspended) /\ UNCHANGED registered
    BY <1>3 DEF Accept
  <2>2. i \in 1 .. made
    BY <2>1, BoundsAssumption DEF RegistrationInv, TypeInv, TypeOK, Servers
  <2>3. UNCHANGED <<made, server>> /\ ~Open(c)
    BY <1>3 DEF Accept, mainVars, Open
  <2>4. /\ conn'[c].life = "open" /\ conn'[c].server = i /\ conn'[c].suspended = suspended
        /\ \A d \in Conns \ {c} : conn'[d] = conn[d]
    BY <2>1 DEF TypeInv, TypeOK, NoConn
  <2>5. c \in registered' => ~server[i].opt.direct
    BY <2>1, <2>3 DEF RegistrationInv
  <2>6. ~server[i].opt.direct /\ ~suspended => c \in registered'
    BY <2>1
  <2>7. registered \subseteq registered' /\ registered' \subseteq registered \cup {c}
    BY <2>1
  <2> QED
    BY <2>2, <2>3, <2>4, <2>5, <2>6, <2>7
       DEF RegistrationInv, RegistrationMatches, Open, OptOf, TypeInv, TypeOK
<1>4. ASSUME NEW c \in Conns, Message(c) \/ Answer(c)
      PROVE  RegistrationInv'
  <2>1. conn[c] \in ConnState
    BY DEF TypeInv, TypeOK
  <2> DEFINE Same(s) == /\ s.life = conn[c].life
                        /\ s.server = conn[c].server
                        /\ s.suspended = conn[c].suspended
  <2>4. ASSUME NEW s \in ConnState, Same(s)
        PROVE  /\ Same([s EXCEPT !.echoed = TRUE]) /\ Same([s EXCEPT !.pending = @ + 1])
               /\ Same([s EXCEPT !.ending = @ + 1]) /\ Same(Written(c, s))
    BY <2>4 DEF Written, ConnState
  <2>5. /\ [conn[c] EXCEPT !.sent = @ + 1] \in ConnState
        /\ Same([conn[c] EXCEPT !.sent = @ + 1])
    BY <2>1, ConnFields, ConnCounts DEF ConnState
  <2>6. conn[c].pending > 0 =>
          /\ [conn[c] EXCEPT !.pending = @ - 1] \in ConnState
          /\ Same([conn[c] EXCEPT !.pending = @ - 1])
    BY <2>1, ConnFields, ConnCounts DEF ConnState
  <2>7. ASSUME Message(c)
        PROVE  Same(conn'[c])
    <3> DEFINE r == [conn[c] EXCEPT !.sent = @ + 1]
    <3>1. r \in ConnState /\ Same(r)
      BY <2>5
    <3> HIDE DEF r
    <3>2. [r EXCEPT !.echoed = TRUE] \in ConnState /\ Same([r EXCEPT !.echoed = TRUE])
      BY <2>4, <3>1, ConnFields
    <3>3. \/ conn'[c] = Written(c, [r EXCEPT !.echoed = TRUE])
          \/ conn'[c] = [r EXCEPT !.pending = @ + 1]
      BY <2>7 DEF Message, r, TypeInv, TypeOK
    <3>4. Same(Written(c, [r EXCEPT !.echoed = TRUE])) /\ Same([r EXCEPT !.pending = @ + 1])
      BY <2>4, <3>1, <3>2
    <3> QED
      BY <3>3, <3>4
  <2>8. ASSUME Answer(c)
        PROVE  Same(conn'[c])
    <3> DEFINE r == [conn[c] EXCEPT !.pending = @ - 1]
    <3>1. r \in ConnState /\ Same(r)
      BY <2>6, <2>8 DEF Answer
    <3> HIDE DEF r
    <3>2. conn'[c] = Written(c, r) \/ conn'[c] = [r EXCEPT !.ending = @ + 1]
      BY <2>8 DEF Answer, r, TypeInv, TypeOK
    <3> QED
      BY <2>4, <3>1, <3>2
  <2>2. Same(conn'[c])
    BY <1>4, <2>7, <2>8
  <2>3. \A d \in Conns \ {c} : conn'[d] = conn[d]
    BY <1>4 DEF Message, Answer, TypeInv, TypeOK
  <2> QED
    BY <1>4, <2>2, <2>3, RegistrationUntouched
       DEF Message, Answer, mainVars, TypeInv, TypeOK
<1>5. ASSUME NEW c \in Conns, End(c)
      PROVE  RegistrationInv'
  <2> DEFINE s == [conn[c] EXCEPT !.ending = @ - 1]
  <2>1. s \in ConnState
    BY <1>5 DEF End, ConnState, TypeInv, TypeOK
  <2>2. CASE Open(c)
    BY <1>5, <2>1, <2>2, RegistrationClosed DEF End, mainVars
  <2>3. CASE ~Open(c)
    BY <1>5, <2>1, <2>3, RegistrationUntouched DEF End, mainVars, TypeInv, TypeOK, ConnState
  <2> QED
    BY <2>2, <2>3
<1>6. ASSUME NEW c \in Conns, Leave(c) \/ Drop(c)
      PROVE  RegistrationInv'
  BY <1>6, RegistrationClosed DEF Leave, Drop, mainVars, TypeInv, TypeOK
<1>7. ASSUME NEW i \in Servers, StopStep(i)
      PROVE  RegistrationInv'
  BY <1>7, RegistrationServers
     DEF StopStep, StopListening, StopReturns, PostedReturns, Dropped
<1> QED
  BY <1>1, <1>2, <1>3, <1>4, <1>5, <1>6, <1>7
     DEF Next, Start, ReconfigureBasic, Restart, Stop, Terminated, vars, mainVars

(***************************************************************************)
(* The target's registrations are the open connections, whatever restarts  *)
(* do to the configuration while they are open.                            *)
(***************************************************************************)
THEOREM RegistrationsFollow == Spec => []RegistrationMatches
<1>1. Init => RegistrationInv
  BY DEF Init, RegistrationInv, RegistrationMatches, Open, NoConn
<1>2. RegistrationInv => RegistrationMatches
  BY DEF RegistrationInv
<1>3. TypeInv /\ RegistrationInv /\ [Next]_vars => (TypeInv /\ RegistrationInv)'
  BY TypeStep, RegistrationStep
<1> QED
  BY TypeInit, <1>1, <1>2, <1>3, PTL DEF Spec

-----------------------------------------------------------------------------
(* Refinement of server-udp                                                *)

\* What server-udp sees of the servers.
Sockets == [i \in Servers |-> [life |-> server[i].life, addr |-> server[i].opt.addr]]

LEMMA UdpInit ==
    ASSUME Init
    PROVE  Udp!Init
<1>1. opt.addr \in Addresses
  BY DEF Init, Configs
<1> QED
  BY <1>1 DEF Init, Udp!Init, Udp!Servers, Servers, Udp!NoServer, NoServer

\* A new state of a server's life is one of its socket's.
LEMMA SocketLife ==
    ASSUME TypeInv, NEW i \in Servers, NEW l, server' = [server EXCEPT ![i].life = l]
    PROVE  Sockets' = [Sockets EXCEPT ![i].life = l]
<1>1. server \in [Servers -> ServerState]
  BY DEF TypeInv, TypeOK
<1>2. \A j \in Servers : /\ server'[j].life = IF j = i THEN l ELSE server[j].life
                         /\ server'[j].opt = server[j].opt
  BY <1>1 DEF ServerState
<1> QED
  BY <1>2 DEF Sockets

\* An address is free for server-udp when it is for server-tcp.
LEMMA FreeSame ==
    ASSUME NEW a
    PROVE  Udp!Free(a) <=> Free(a)
BY DEF Udp!Free, Free, Udp!Servers, Servers

LEMMA UdpStep ==
    ASSUME TypeInv, [Next]_vars
    PROVE  [Udp!Next]_Udp!vars
<1> USE DEF Udp!Servers, Servers, Udp!NoServer, NoServer
<1>1. ASSUME UNCHANGED <<mainVars, suspended>>
      PROVE  UNCHANGED Udp!vars
  BY <1>1 DEF mainVars, Udp!vars
<1>2. CASE Start
  BY <1>2 DEF Start, Udp!Start, Udp!Next
<1>3. CASE ReconfigureBasic
  BY <1>3 DEF ReconfigureBasic, mainVars, Udp!ReconfigureBasic, Udp!Next
<1>4. CASE Restart
  <2>1. opt'.addr \in Addresses
    BY <1>4 DEF Restart, Configs
  <2>2. Udp!Restart
    BY <1>4, <2>1 DEF Restart, Udp!Restart
  <2> QED
    BY <2>2 DEF Udp!Next
<1>5. CASE Run
  <2>1. made + 1 \in Servers /\ server \in [Servers -> ServerState]
    BY <1>5, BoundsAssumption DEF Run, TypeInv, TypeOK, PhaseInv
  <2>2. Sockets' = [Sockets EXCEPT ![made + 1] =
                       [life |-> IF Free(opt.addr) THEN "listening" ELSE "failed",
                        addr |-> opt.addr]]
    BY <1>5, <2>1 DEF Run, Sockets
  <2>3. Udp!Run
    BY <1>5, <2>2, FreeSame DEF Run, Udp!Run, Sockets
  <2> QED
    BY <2>3 DEF Udp!Next
<1>6. CASE Stop
  BY <1>6 DEF Stop, Udp!Stop, Udp!Next
<1>7. ASSUME NEW i \in Servers, StopListening(i)
      PROVE  Udp!Next
  <2>1. Sockets' = [Sockets EXCEPT ![i].life = "stopping"]
    BY <1>7, SocketLife DEF StopListening
  <2>2. Udp!CloseSocket(i)
    BY <1>7, <2>1 DEF StopListening, Udp!CloseSocket, Sockets
  <2> QED
    BY <2>2 DEF Udp!Next, Udp!StopStep
<1>8. ASSUME NEW i \in Servers, StopReturns(i) \/ PostedReturns(i)
      PROVE  Udp!Next
  <2>1. Sockets' = [Sockets EXCEPT ![i].life = "stopped"]
    BY <1>8, SocketLife DEF StopReturns, PostedReturns
  <2>2. Udp!StopReturns(i)
    BY <1>8, <2>1 DEF StopReturns, PostedReturns, Dropped, Udp!StopReturns, Sockets
  <2> QED
    BY <2>2 DEF Udp!Next, Udp!StopStep
<1>9. ASSUME NEW c \in Conns,
             Accept(c) \/ Message(c) \/ Answer(c) \/ End(c) \/ Leave(c) \/ Drop(c)
      PROVE  UNCHANGED Udp!vars
  BY <1>1, <1>9 DEF Accept, Message, Answer, End, Leave, Drop
<1>10. CASE Terminated \/ UNCHANGED vars
  BY <1>1, <1>10 DEF Terminated, vars
<1> QED
  BY <1>2, <1>3, <1>4, <1>5, <1>6, <1>7, <1>8, <1>9, <1>10 DEF Next, StopStep

(***************************************************************************)
(* Seen without its connections, server-tcp goes through the life cycle of *)
(* server-udp, for any addresses and any number of restarts: what is said  *)
(* of the servers, sockets and posted stops of the one holds of the other. *)
(***************************************************************************)
THEOREM ImplementsUdp == Spec => Udp!Spec
<1>1. Init => Udp!Init
  BY UdpInit
<1>2. TypeInv /\ [Next]_vars => [Udp!Next]_Udp!vars
  BY UdpStep
<1> QED
  BY TypeInit, TypeStep, <1>1, <1>2, PTL DEF Spec, Udp!Spec

-----------------------------------------------------------------------------
(* The server in use listens                                               *)

(***************************************************************************)
(* Servers get their numbers as they are made, and _impl is none of those  *)
(* the workflow is to stop: Main took it out when it posted the stop.      *)
(***************************************************************************)
MadeInv ==
    /\ \A i \in Servers : i > made => server[i].life = "none"
    /\ posted \subseteq 1 .. made
    /\ impl \in 0 .. made
    /\ impl \notin posted

\* No server that waits to be stopped listens where the next one is to.
NotBack == \A i \in posted : server[i].life = "listening" => server[i].opt.addr # opt.addr

LEMMA MadeInit ==
    ASSUME Init
    PROVE  MadeInv
BY BoundsAssumption DEF Init, MadeInv, Servers, NoServer

LEMMA MadeStep ==
    ASSUME TypeInv, MadeInv, [Next]_vars
    PROVE  MadeInv'
<1> USE DEF MadeInv
<1>1. ASSUME UNCHANGED mainVars
      PROVE  MadeInv'
  BY <1>1 DEF mainVars
<1>2. made \in Nat /\ \A i \in 1 .. made : i \in Servers
  BY BoundsAssumption DEF TypeInv, TypeOK, Servers
<1>3. CASE Start
  BY <1>3 DEF Start
<1>4. CASE Restart
  <2>1. impl \in 1 .. made
    BY <1>2, <1>4 DEF Restart, TypeInv, PhaseInv, Servers
  <2>2. /\ posted' \in {posted, posted \cup {impl}}
        /\ impl' = 0 /\ made' = made /\ server' = server
    BY <1>4 DEF Restart, NoServer
  <2> QED
    BY <1>2, <2>1, <2>2
<1>5. CASE Run
  <2>1. \A i \in Servers : i > made' => server'[i] = server[i]
    BY <1>2, <1>5, BoundsAssumption DEF Run, TypeInv, TypeOK, Servers
  <2> QED
    BY <1>2, <1>5, <2>1, BoundsAssumption DEF Run, Servers
<1>6. CASE Stop
  BY <1>6 DEF Stop
<1>7. ASSUME NEW i \in Servers, StopStep(i)
      PROVE  MadeInv'
  <2>1. server[i].life # "none" /\ \E l : server' = [server EXCEPT ![i].life = l]
    BY <1>7 DEF StopStep, StopListening, StopReturns, PostedReturns, Dropped
  <2>2. \A j \in Servers : j > made => server'[j].life = "none"
    BY <2>1 DEF TypeInv, TypeOK
  <2>3. made' = made /\ posted' \subseteq posted /\ impl' \in {impl, NoServer}
    BY <1>7 DEF StopStep, StopListening, StopReturns, PostedReturns
  <2> QED
    BY <1>2, <2>2, <2>3 DEF NoServer
<1> QED
  BY <1>1, <1>3, <1>4, <1>5, <1>6, <1>7
     DEF Next, ReconfigureBasic, Accept, Message, Answer, End, Leave, Drop, Terminated, vars

\* Where no server waits to be stopped, the address is free for run_().
LEMMA FreeToRun ==
    ASSUME TypeInv, MadeInv, NoServerLost, NotBack, phase = "run"
    PROVE  Free(opt.addr)
<1> SUFFICES ASSUME NEW i \in Servers, server[i].life = "listening"
             PROVE  server[i].opt.addr # opt.addr
  BY DEF Free
<1>1. i \in 1 .. made
  BY DEF MadeInv, TypeInv, TypeOK, Servers
<1>2. i \in posted
  BY <1>1 DEF NoServerLost, TypeInv, PhaseInv, NoServer
<1> QED
  BY <1>2 DEF NotBack

LEMMA ListensStep ==
    ASSUME TypeInv, MadeInv, NoServerLost, NotBack, ListensWhileRunning, [Next]_vars
    PROVE  ListensWhileRunning'
<1> USE DEF ListensWhileRunning
<1>1. ASSUME UNCHANGED mainVars
      PROVE  ListensWhileRunning'
  BY <1>1 DEF mainVars
<1>2. CASE Run
  <2>1. Free(opt.addr)
    BY <1>2, FreeToRun DEF Run
  <2>2. made + 1 \in Servers
    BY <1>2, BoundsAssumption DEF Run, TypeInv, TypeOK, PhaseInv, Servers
  <2> QED
    BY <1>2, <2>1, <2>2 DEF Run, TypeInv, TypeOK
<1>3. CASE Start \/ Restart \/ Stop
  BY <1>3 DEF Start, Restart, Stop
<1>4. ASSUME NEW i \in Servers, StopStep(i)
      PROVE  ListensWhileRunning'
  <2> SUFFICES ASSUME phase' = "running"
               PROVE  server'[impl'].life = "listening"
    OBVIOUS
  <2>1. phase = "running" /\ impl' = impl /\ i # old
    <3>1. phase \in {"running", "stop_old", "final"} \/ ~StopReturns(i)
      BY DEF StopReturns, TypeInv, TypeOK, PhaseInv, Servers, NoServer
    <3>2. ~StopReturns(i)
      BY DEF StopReturns
    <3>3. phase = "running" /\ impl' = impl
      BY <1>4, <3>2 DEF StopStep, StopListening, PostedReturns
    <3> QED
      BY <3>3 DEF TypeInv, PhaseInv, Servers, NoServer
  <2>2. i \in posted
    BY <1>4, <2>1 DEF StopStep, StopListening, StopReturns, PostedReturns
  <2>3. i # impl
    BY <2>2 DEF MadeInv
  <2>4. server'[impl] = server[impl]
    BY <1>4, <2>1, <2>3
       DEF StopStep, StopListening, StopReturns, PostedReturns, TypeInv, TypeOK, PhaseInv
  <2> QED
    BY <2>1, <2>4
<1> QED
  BY <1>1, <1>2, <1>3, <1>4
     DEF Next, ReconfigureBasic, Accept, Message, Answer, End, Leave, Drop, Terminated, vars

(***************************************************************************)
(* However often server-tcp is reconfigured, the server in use listens, as *)
(* long as no restart goes back to an address where an old server listens  *)
(* that still waits for the workflow to stop it: of the servers it made,   *)
(* no other can be in its way.                                             *)
(***************************************************************************)
THEOREM ListensUnlessBack == Spec /\ []NotBack => []ListensWhileRunning
<1>1. Init => ListensWhileRunning /\ NoServerLost
  BY DEF Init, ListensWhileRunning, NoServerLost
<1> QED
  BY TypeInit, TypeStep, MadeInit, MadeStep, <1>1, ServersStep, ListensStep, PTL DEF Spec

(***************************************************************************)
(* Too few restarts to go back to an address, or only one address.         *)
(***************************************************************************)
NoWayBack == MaxConfigs <= 2 \/ \A a, b \in Addresses : a = b

(***************************************************************************)
(* What waits to be stopped then is at most the first server of two, and   *)
(* has another address.                                                    *)
(***************************************************************************)
ElsewhereInv ==
    /\ phase = "running" => made >= 1 /\ server[impl].opt = opt
    /\ phase = "initialized" => posted = {}
    /\ posted # {} => /\ \E a, b \in Addresses : a # b
                      /\ phase = "running" => made >= 2
    /\ \A i \in posted : server[i].opt.addr # opt.addr

LEMMA ElsewhereStep ==
    ASSUME NoWayBack, TypeInv, MadeInv, ElsewhereInv, [Next]_vars
    PROVE  ElsewhereInv'
<1>1. made \in Nat /\ (\A i \in 1 .. made : i \in Servers) /\ server \in [Servers -> ServerState]
  BY BoundsAssumption DEF TypeInv, TypeOK, Servers
<1>2. ASSUME UNCHANGED mainVars
      PROVE  ElsewhereInv'
  BY <1>2 DEF mainVars, ElsewhereInv
<1>3. CASE Start
  BY <1>3 DEF Start, ElsewhereInv
<1>4. CASE Restart
  <2>1. posted = {}
    BY <1>1, <1>4, BoundsAssumption DEF Restart, ElsewhereInv, NoWayBack
  <2>2. server[impl].opt = opt /\ opt.addr \in Addresses /\ opt'.addr \in Addresses
    BY <1>4 DEF Restart, ElsewhereInv, TypeInv, TypeOK, Configs
  <2> QED
    BY <1>4, <2>1, <2>2 DEF Restart, ElsewhereInv
<1>5. CASE Run
  <2>1. made + 1 \in Servers
    BY <1>5, BoundsAssumption DEF Run, TypeInv, TypeOK, PhaseInv, Servers
  <2>2. server'[impl'].opt = opt'
    BY <1>1, <1>5, <2>1 DEF Run
  <2>3. \A i \in posted : server'[i] = server[i] /\ made >= 1
    BY <1>1, <1>5 DEF Run, MadeInv
  <2> QED
    BY <1>1, <1>5, <2>2, <2>3 DEF Run, ElsewhereInv
<1>6. CASE Stop
  BY <1>6 DEF Stop, ElsewhereInv
<1>7. ASSUME NEW i \in Servers, StopStep(i)
      PROVE  ElsewhereInv'
  <2>1. \A j \in Servers : server'[j].opt = server[j].opt
    BY <1>1, <1>7 DEF StopStep, StopListening, StopReturns, PostedReturns, ServerState
  <2>2. /\ made' = made /\ opt' = opt /\ posted' \subseteq posted
        /\ phase' = phase \/ phase' \in {"run", "stopped"}
        /\ phase' = phase => impl' \in {impl, NoServer}
    BY <1>7 DEF StopStep, StopListening, StopReturns, PostedReturns
  <2>3. phase' = "running" => phase = "running" /\ impl' = impl /\ impl \in Servers
    BY <1>7 DEF StopStep, StopListening, StopReturns, PostedReturns, TypeInv, PhaseInv,
                Servers, NoServer
  <2>4. phase' = "initialized" => phase = "initialized"
    BY <2>2
  <2>5. \A j \in posted' : j \in Servers
    BY <1>1, <2>2 DEF MadeInv
  <2> QED
    BY <2>1, <2>2, <2>3, <2>4, <2>5 DEF ElsewhereInv
<1> QED
  BY <1>2, <1>3, <1>4, <1>5, <1>6, <1>7
     DEF Next, ReconfigureBasic, Accept, Message, Answer, End, Leave, Drop, Terminated, vars

(***************************************************************************)
(* The server in use listens while server-tcp runs, if it is reconfigured  *)
(* once at most, to whatever address, or any number of times at one.       *)
(***************************************************************************)
THEOREM ListensWithoutWayBack ==
    ASSUME NoWayBack
    PROVE  Spec => []ListensWhileRunning
<1>1. Init => ElsewhereInv
  BY DEF Init, ElsewhereInv
<1>2. TypeInv /\ MadeInv /\ ElsewhereInv /\ [Next]_vars => ElsewhereInv'
  BY ElsewhereStep
<1>3. ElsewhereInv => NotBack
  BY DEF ElsewhereInv, NotBack
<1> QED
  BY TypeInit, TypeStep, MadeInit, MadeStep, <1>1, <1>2, <1>3, ListensUnlessBack, PTL DEF Spec
=============================================================================
