---------------------------- MODULE RoutingProofs ----------------------------
(***************************************************************************)
(* Theorems about Routing, for any sources, queues, configurations, worker *)
(* threads and sizes of workflows, and any number of messages.             *)
(***************************************************************************)
EXTENDS Routing, FiniteSetTheorems, WellFoundedInduction, TLAPS

\* Where the thread of a source is says what it called, and how far it is.
CallInv ==
    /\ \A s \in Sources :
         /\ pc[s] = "idle" <=> call[s].op = "none"
         /\ pc[s] \in {"route", "send"} => call[s].op = "perform_io"
         /\ pc[s] = "loop" => call[s].op # "perform_io"
         /\ pc[s] = "send" => call[s].to \in Queues
         /\ call[s].op \in {"reg_io", "perform_io"} => stage[s] = "up"
         /\ call[s].op = "unreg_io" => stage[s] = "left"
    /\ main = "restart" => gen < MaxConfigs

\* The messages of a source are sent in the order of their numbers, and the
\* one in the hands of its thread is the last.
SentInv ==
    /\ \A s \in Sources :
         /\ Sent(s) \in 0 .. MaxMessages
         /\ \A n \in 1 .. MaxMessages : place[<<s, n>>] # "unsent" <=> n <= Sent(s)
         /\ call[s].op = "perform_io" => Sent(s) > 0
    /\ \A m \in Messages :
         place[m] = "calling" <=> call[Sender(m)].op = "perform_io" /\ Current(Sender(m)) = m

\* A message is in the workflow or with the worker that `place' says, once.
PlaceInv ==
    /\ \A q \in Queues : \A i \in 1 .. Len(workflow[q]) :
         place[workflow[q][i]] = "posted" /\ queue[workflow[q][i]] = q
    /\ \A q \in Queues : \A i, j \in 1 .. Len(workflow[q]) :
         workflow[q][i] = workflow[q][j] => i = j
    /\ \A m \in Messages : place[m] = "posted" =>
         /\ queue[m] \in Queues
         /\ \E i \in 1 .. Len(workflow[queue[m]]) : workflow[queue[m]][i] = m
    /\ \A w \in Workers : job[w] # NoMessage =>
         place[job[w]] = "worker" /\ queue[job[w]] = QueueOf[w]
    /\ \A v, w \in Workers : job[v] # NoMessage /\ job[v] = job[w] => v = w
    /\ \A m \in Messages : place[m] = "worker" => \E w \in Workers : job[w] = m

RoutingInv == TypeOK /\ CallInv /\ SentInv /\ PlaceInv

-----------------------------------------------------------------------------
(* Lemmas                                                                  *)

LEMMA MessageParts ==
    /\ \A m \in Messages : m[1] \in Sources /\ m[2] \in 1 .. MaxMessages /\ m = <<m[1], m[2]>>
    /\ \A s \in Sources, n \in 1 .. MaxMessages :
         <<s, n>> \in Messages /\ Sender(<<s, n>>) = s
BY DEF Messages, Sender

\* How many messages a source has sent follows from which ones.
LEMMA SentIs ==
    ASSUME NEW s \in Sources, NEW k \in 0 .. MaxMessages,
           \A n \in 1 .. MaxMessages : place[<<s, n>>] # "unsent" <=> n <= k
    PROVE  Sent(s) = k
<1>1. MaxMessages \in Nat
  BY QueueAssumption
<1>2. {n \in 1 .. MaxMessages : place[<<s, n>>] # "unsent"} = 1 .. k
  BY <1>1
<1>3. Cardinality(1 .. k) = k
  BY <1>1, FS_Interval
<1> QED
  BY <1>2, <1>3 DEF Sent

LEMMA SentKept ==
    ASSUME NEW s \in Sources,
           \A n \in 1 .. MaxMessages : place'[<<s, n>>] = "unsent" <=> place[<<s, n>>] = "unsent"
    PROVE  Sent(s)' = Sent(s)
BY DEF Sent

\* One more message.
LEMMA SentMore ==
    ASSUME RoutingInv, NEW s \in Sources, Sent(s) < MaxMessages,
           Moved(<<s, Sent(s) + 1>>, "calling")
    PROVE  /\ <<s, Sent(s) + 1>> \in Messages
           /\ place[<<s, Sent(s) + 1>>] = "unsent"
           /\ Sent(s)' = Sent(s) + 1
           /\ \A r \in Sources \ {s} : Sent(r)' = Sent(r)
<1> DEFINE k == Sent(s) + 1
<1>1. /\ k \in 1 .. MaxMessages
      /\ \A n \in 1 .. MaxMessages : place[<<s, n>>] # "unsent" <=> n <= Sent(s)
      /\ Sent(s) \in Nat
  BY QueueAssumption DEF RoutingInv, SentInv
<1>2. <<s, k>> \in Messages
  BY <1>1, MessageParts
<1>3. /\ place'[<<s, k>>] = "calling"
      /\ \A m \in Messages \ {<<s, k>>} : place'[m] = place[m]
  BY <1>2 DEF Moved, RoutingInv, TypeOK, QueueTypeOK
<1>4. \A n \in 1 .. MaxMessages : place'[<<s, n>>] # "unsent" <=> n <= k
  <2> SUFFICES ASSUME NEW n \in 1 .. MaxMessages
               PROVE  place'[<<s, n>>] # "unsent" <=> n <= k
    OBVIOUS
  <2>1. CASE n = k
    BY <1>3, <2>1
  <2>2. CASE n # k
    <3>1. <<s, n>> \in Messages \ {<<s, k>>}
      BY <2>2, MessageParts
    <3>2. n <= k <=> n <= Sent(s)
      BY <1>1, <2>2
    <3> QED
      BY <1>1, <1>3, <3>1, <3>2
  <2> QED
    BY <2>1, <2>2
<1>5. Sent(s)' = k
  <2>1. {n \in 1 .. MaxMessages : place'[<<s, n>>] # "unsent"} = 1 .. k
    BY <1>1, <1>4, QueueAssumption
  <2>2. Cardinality(1 .. k) = k
    BY <1>1, FS_Interval, QueueAssumption
  <2> QED
    BY <2>1, <2>2 DEF Sent
<1>6. ASSUME NEW r \in Sources \ {s} PROVE Sent(r)' = Sent(r)
  <2>1. \A n \in 1 .. MaxMessages : <<r, n>> \in Messages \ {<<s, k>>}
    BY MessageParts
  <2> QED
    BY <1>3, <2>1, SentKept
<1> QED
  BY <1>1, <1>2, <1>5, <1>6

\* Among the rules that match there is a first one.
LEMMA FirstRule ==
    ASSUME rules \in Seq(Rules), NEW k, Matching(k) # {}
    PROVE  \E i \in Matching(k) : \A j \in Matching(k) : i <= j
<1>1. Matching(k) \subseteq Nat
  BY DEF Matching
<1>2. PICK i \in Matching(k) : \A j \in Matching(k) : ~(<<j, i>> \in OpToRel(<, Nat))
  BY <1>1, WFMin, NatLessThanWellFounded
<1>3. \A j \in Nat : ~(<<j, i>> \in OpToRel(<, Nat)) => i <= j
  BY <1>1 DEF OpToRel
<1> QED
  BY <1>1, <1>2, <1>3

\* A message goes to the default target or to that of a rule.
LEMMA RouteReached ==
    ASSUME rules \in Seq(Rules), NEW k
    PROVE  Route(k) \in Reached
<1>1. CASE suspended \/ k = NoObject \/ Matching(k) = {}
  BY <1>1 DEF Route, Reached
<1>2. CASE ~(suspended \/ k = NoObject \/ Matching(k) = {})
  <2> DEFINE first == CHOOSE i \in Matching(k) : \A j \in Matching(k) : i <= j
  <2>1. first \in Matching(k)
    BY <1>2, FirstRule
  <2>2. Route(k) = rules[first].target
    BY <1>2 DEF Route
  <2> HIDE DEF first
  <2> QED
    BY <2>1, <2>2 DEF Reached, Matching
<1> QED
  BY <1>1, <1>2

-----------------------------------------------------------------------------
(* Types                                                                   *)

\* A target of a broker is a queue or nothing.
LEMMA TargetType ==
    ASSUME TypeOK
    PROVE  /\ Objects = Queues
           /\ NoObject \notin Queues
           /\ \A x \in Reached : x \in Queues \cup {NoObject}
           /\ [i \in DOMAIN rules |-> rules[i].target] \in Seq(Objects \cup {NoObject})
<1>1. rules \in Seq(Rules) /\ default \in Objects \cup {NoObject}
  BY DEF TypeOK, BrokerTypeOK
<1>2. DOMAIN rules = 1 .. Len(rules) /\ Len(rules) \in Nat
  BY <1>1
<1>3. \A i \in DOMAIN rules : rules[i] \in Rules
  BY <1>1
<1>4. \A i \in DOMAIN rules : rules[i].target \in Objects \cup {NoObject}
  BY <1>3 DEF Rules
<1> QED
  BY <1>1, <1>2, <1>4, RoutingAssumption, InterfaceAssumption DEF Reached

\* What a thread in a call knows of its message and of its target.
LEMMA InCall ==
    ASSUME RoutingInv, NEW s \in Sources
    PROVE  /\ call[s].op = "perform_io" =>
                Current(s) \in Messages /\ Sender(Current(s)) = s /\ place[Current(s)] = "calling"
           /\ call[s].rest \in Seq(Queues \cup {NoObject})
           /\ call[s].op \in Ops \cup {"none"}
           /\ call[s].data \in Kinds \cup {NoObject}
           /\ call[s].to \in Queues \cup {NoObject}
<1>1. call[s] \in Calls
  BY DEF RoutingInv, TypeOK, BrokerTypeOK
<1>2. call[s].op = "perform_io" => Current(s) \in Messages /\ Sender(Current(s)) = s
  BY MessageParts, QueueAssumption DEF RoutingInv, SentInv, Current
<1> QED
  BY <1>1, <1>2, RoutingAssumption DEF Calls, RoutingInv, SentInv

LEMMA CallType ==
    ASSUME RoutingInv, NEW s \in Sources,
           Connect(s) \/ Send(s) \/ Leave(s) \/ BrokerStep(s)
    PROVE  BrokerTypeOK' /\ stage' \in [Sources -> {"new", "up", "left"}]
<1>1. /\ pc \in [Sources -> {"idle", "lock", "loop", "route", "send"}]
      /\ call \in [Sources -> Calls]
      /\ readers \subseteq Sources
      /\ stage \in [Sources -> {"new", "up", "left"}]
      /\ call[s] \in Calls
  BY DEF RoutingInv, TypeOK, BrokerTypeOK
<1>2. ASSUME NEW op \in Ops, NEW data \in Kinds \cup {NoObject}, Call(s, op, data)
      PROVE  BrokerTypeOK'
  <2>1. [call[s] EXCEPT !.op = op, !.data = data] \in Calls
    BY <1>1 DEF Calls
  <2>2. call' \in [Sources -> Calls]
    BY <1>1, <1>2, <2>1 DEF Call
  <2> QED
    BY <1>1, <1>2, <2>2 DEF Call, brokerVars, RoutingInv, TypeOK, BrokerTypeOK
<1>3. CASE Connect(s)
  BY <1>1, <1>2, <1>3 DEF Connect, Ops
<1>4. CASE Send(s)
  BY <1>1, <1>2, <1>4 DEF Send, Ops
<1>5. CASE Leave(s)
  BY <1>1, <1>2, <1>5 DEF Leave, Ops
<1>6. ASSUME Return(s) PROVE BrokerTypeOK'
  <2>1. NoCall \in Calls
    BY DEF NoCall, Calls
  <2> QED
    BY <1>1, <1>6, <2>1 DEF Return, RoutingInv, TypeOK, BrokerTypeOK
<1>7. CASE BrokerStep(s)
  <2>1. UNCHANGED stage
    BY <1>7 DEF BrokerStep, LoopStep, RouteStep, SendStep
  <2> SUFFICES BrokerTypeOK'
    BY <1>1, <2>1
  <2>2. CASE ReadLock(s)
    <3> DEFINE rest == [i \in DOMAIN rules |-> rules[i].target]
    <3>1. rest \in Seq(Objects \cup {NoObject})
      BY TargetType DEF RoutingInv
    <3> HIDE DEF rest
    <3>2. [call[s] EXCEPT !.rest = rest] \in Calls
      BY <1>1, <3>1 DEF Calls
    <3>3. call' \in {call, [call EXCEPT ![s] = [call[s] EXCEPT !.rest = rest]]}
      BY <1>1, <2>2 DEF ReadLock, rest
    <3>4. call' \in [Sources -> Calls]
      BY <1>1, <3>2, <3>3
    <3> QED
      BY <1>1, <2>2, <3>4 DEF ReadLock, RoutingInv, TypeOK, BrokerTypeOK
  <2>3. CASE NextTarget(s)
    <3>1. Tail(call[s].rest) \in Seq(Objects \cup {NoObject})
      BY <1>1, <2>3 DEF Calls, NextTarget
    <3>2. [call[s] EXCEPT !.rest = Tail(call[s].rest)] \in Calls
      BY <1>1, <3>1 DEF Calls
    <3>3. call' \in [Sources -> Calls]
      BY <1>1, <2>3, <3>2 DEF NextTarget
    <3> QED
      BY <2>3, <3>3 DEF NextTarget, brokerVars, RoutingInv, TypeOK, BrokerTypeOK
  <2>4. CASE EndLoop(s)
    BY <1>6, <2>4 DEF EndLoop
  <2>5. CASE FindTarget(s)
    <3> DEFINE to == Route(call[s].data)
    <3>1. to \in Objects \cup {NoObject}
      BY RouteReached, TargetType DEF RoutingInv, TypeOK, BrokerTypeOK
    <3>2. CASE /\ call' = [call EXCEPT ![s].to = to]
               /\ pc' = [pc EXCEPT ![s] = "send"]
               /\ UNCHANGED brokerVars
      <4> HIDE DEF to
      <4>1. [call[s] EXCEPT !.to = to] \in Calls
        BY <1>1, <3>1 DEF Calls
      <4>2. call' \in [Sources -> Calls]
        BY <1>1, <3>2, <4>1
      <4> QED
        BY <1>1, <3>2, <4>2 DEF brokerVars, RoutingInv, TypeOK, BrokerTypeOK
    <3> QED
      BY <1>6, <2>5, <3>2 DEF FindTarget
  <2>6. CASE SendOn(s)
    BY <1>6, <2>6 DEF SendOn
  <2> QED
    BY <1>1, <1>7, <2>1, <2>2, <2>3, <2>4, <2>5, <2>6 DEF BrokerStep, LoopStep, RouteStep, SendStep
<1> QED
  BY <1>3, <1>4, <1>5, <1>7

\* The workflows and workers keep their types, and workflows their bounds.
WorkflowsOK == \A q \in Queues : Len(workflow[q]) <= MaxSize[q]

LEMMA PerformIoType ==
    ASSUME QueueTypeOK, WorkflowsOK, NEW q \in Queues, NEW m \in Messages, PerformIo(q, m)
    PROVE  QueueTypeOK' /\ WorkflowsOK'
<1>1. /\ workflow \in [Queues -> Seq(Messages)]
      /\ place \in [Messages -> Places]
      /\ queue \in [Messages -> Queues \cup {NoObject}]
      /\ direct \subseteq Messages
  BY DEF QueueTypeOK
<1>2. \E to \in Places : place' = [place EXCEPT ![m] = to]
  BY DEF PerformIo, Moved, Refused, Places
<1>3. place' \in [Messages -> Places] /\ queue' \in [Messages -> Queues \cup {NoObject}]
  BY <1>1, <1>2 DEF PerformIo
<1>4. direct' \subseteq Messages
  BY <1>1 DEF PerformIo
<1>5. \/ UNCHANGED workflow
      \/ /\ Len(workflow[q]) < MaxSize[q]
         /\ workflow' = [workflow EXCEPT ![q] = Append(workflow[q], m)]
  BY DEF PerformIo
<1>6. workflow' \in [Queues -> Seq(Messages)] /\ WorkflowsOK'
  <2>1. Append(workflow[q], m) \in Seq(Messages)
    BY <1>1
  <2>2. Len(Append(workflow[q], m)) = Len(workflow[q]) + 1 /\ Len(workflow[q]) \in Nat
    BY <1>1
  <2>3. MaxSize[q] \in Nat
    BY QueueAssumption
  <2> QED
    <3>1. workflow' \in [Queues -> Seq(Messages)]
      BY <1>1, <1>5, <2>1
    <3>2. \A r \in Queues : workflow'[r] = workflow[r] \/ (r = q /\ Len(workflow'[q]) <= MaxSize[q])
      BY <1>1, <1>5, <2>2, <2>3
    <3> QED
      BY <3>1, <3>2 DEF WorkflowsOK
<1> QED
  BY <1>3, <1>4, <1>6 DEF QueueTypeOK, PerformIo

LEMMA TakeType ==
    ASSUME QueueTypeOK, WorkflowsOK, NEW w \in Workers, Take(w)
    PROVE  QueueTypeOK' /\ WorkflowsOK'
<1> DEFINE q == QueueOf[w]
<1>1. /\ q \in Queues
      /\ workflow \in [Queues -> Seq(Messages)]
      /\ workflow[q] \in Seq(Messages) /\ workflow[q] # <<>>
  BY QueueAssumption DEF QueueTypeOK, Take
<1>2. workflow' = [workflow EXCEPT ![q] = Tail(workflow[q])]
  BY DEF Take
<1> HIDE DEF q
<1>3. /\ Tail(workflow[q]) \in Seq(Messages)
      /\ Len(Tail(workflow[q])) <= Len(workflow[q])
      /\ Head(workflow[q]) \in Messages
      /\ Len(workflow[q]) \in Nat /\ Len(Tail(workflow[q])) \in Nat
  BY <1>1
<1>4. workflow' \in [Queues -> Seq(Messages)]
  BY <1>1, <1>2, <1>3
<1>5. WorkflowsOK'
  <2>1. \A r \in Queues : workflow'[r] = IF r = q THEN Tail(workflow[q]) ELSE workflow[r]
    BY <1>1, <1>2
  <2>2. MaxSize[q] \in Nat
    BY <1>1, QueueAssumption
  <2> QED
    <3>1. Len(workflow[q]) <= MaxSize[q]
      BY <1>1 DEF WorkflowsOK
    <3>2. Len(workflow'[q]) <= MaxSize[q]
      <4>1. workflow'[q] = Tail(workflow[q])
        BY <1>1, <2>1
      <4>2. \A k, l, n \in Nat : k <= l /\ l <= n => k <= n
        OBVIOUS
      <4>3. Len(Tail(workflow[q])) <= MaxSize[q]
        BY <1>3, <2>2, <3>1, <4>2
      <4> QED
        BY <4>1, <4>3
    <3> QED
      BY <2>1, <3>2 DEF WorkflowsOK
<1>6. place' \in [Messages -> Places] /\ job' \in [Workers -> Messages \cup {NoMessage}]
  BY <1>3 DEF QueueTypeOK, Take, Moved, Places, q
<1> QED
  BY <1>4, <1>5, <1>6 DEF QueueTypeOK, Take

LEMMA QueueType ==
    ASSUME QueueTypeOK, WorkflowsOK, QueueStep
    PROVE  QueueTypeOK' /\ WorkflowsOK'
<1>1. ASSUME NEW w \in Workers, Give(w) PROVE QueueTypeOK' /\ WorkflowsOK'
  BY <1>1 DEF Give, Moved, Refused, Places, QueueTypeOK, WorkflowsOK
<1>2. ASSUME NEW m \in Messages, Answer(m) \/ CallHandler(m) PROVE QueueTypeOK' /\ WorkflowsOK'
  BY <1>2 DEF Answer, CallHandler, Moved, Places, QueueTypeOK, WorkflowsOK
<1>3. ASSUME NEW q \in Queues, SuspendQueue(q) PROVE QueueTypeOK' /\ WorkflowsOK'
  BY <1>3 DEF SuspendQueue, QueueTypeOK, WorkflowsOK
<1> QED
  BY TakeType, <1>1, <1>2, <1>3 DEF QueueStep

LEMMA CallQueueType ==
    ASSUME RoutingInv, NEW s \in Sources,
           Connect(s) \/ Send(s) \/ Leave(s) \/ BrokerStep(s)
    PROVE  QueueTypeOK' /\ WorkflowsOK'
<1>1. QueueTypeOK /\ WorkflowsOK
  BY DEF RoutingInv, TypeOK, WorkflowsOK
<1>2. ASSUME UNCHANGED queueVars PROVE QueueTypeOK' /\ WorkflowsOK'
  BY <1>1, <1>2 DEF queueVars, QueueTypeOK, WorkflowsOK
<1>3. CASE Send(s)
  <2>1. <<s, Sent(s) + 1>> \in Messages
    BY <1>3, SentMore DEF Send
  <2>2. place' \in [Messages -> Places] /\ silent' \subseteq Messages
    BY <1>1, <1>3, <2>1 DEF Send, Moved, Places, QueueTypeOK
  <2> QED
    BY <1>1, <1>3, <2>2 DEF Send, QueueTypeOK, WorkflowsOK
<1>4. CASE LoopStep(s)
  <2>1. ASSUME NEW q \in Queues, RegIo(q, s) PROVE QueueTypeOK' /\ WorkflowsOK'
    BY <1>1, <2>1 DEF RegIo, QueueTypeOK, WorkflowsOK
  <2>2. ASSUME NEW q \in Queues, UnregIo(q, s) PROVE QueueTypeOK' /\ WorkflowsOK'
    BY <1>1, <2>2 DEF UnregIo, QueueTypeOK, WorkflowsOK
  <2>3. Head(call[s].rest) \in Queues \cup {NoObject}
    BY <1>4, InCall DEF LoopStep, NextTarget
  <2> QED
    BY <1>2, <1>4, <2>1, <2>2, <2>3 DEF LoopStep
<1>5. CASE RouteStep(s)
  <2>1. CASE Moved(Current(s), "dropped")
    BY <1>1, <1>5, <2>1 DEF RouteStep, Moved, Places, QueueTypeOK, WorkflowsOK, queueVars
  <2> QED
    BY <1>2, <1>5, <2>1 DEF RouteStep
<1>6. CASE SendStep(s)
  <2>1. call[s].to \in Queues /\ Current(s) \in Messages
    BY <1>6, InCall DEF SendStep, SendOn, RoutingInv, CallInv
  <2> QED
    BY <1>1, <1>6, <2>1, PerformIoType DEF SendStep
<1> QED
  BY <1>2, <1>3, <1>4, <1>5, <1>6 DEF Connect, Leave, BrokerStep

LEMMA RoutingTypeNext ==
    ASSUME RoutingInv, [Next]_vars
    PROVE  TypeOK'
<1>1. BrokerTypeOK /\ QueueTypeOK /\ WorkflowsOK /\ stage \in [Sources -> {"new", "up", "left"}]
  BY DEF RoutingInv, TypeOK, WorkflowsOK
<1>2. SUFFICES BrokerTypeOK' /\ QueueTypeOK' /\ WorkflowsOK'
               /\ stage' \in [Sources -> {"new", "up", "left"}]
  BY DEF TypeOK, WorkflowsOK
<1>3. CASE MainStep
  <2>1. UNCHANGED <<queueVars, stage>>
    BY <1>3 DEF MainStep
  <2>2. opt \in Configs => opt.rules \in Seq(Rules) /\ opt.target \in Objects \cup {NoObject}
    BY BrokerAssumption
  <2>3. BrokerTypeOK'
    <3>1. CASE Restart
      BY <1>1, <3>1 DEF Restart, callVars, BrokerTypeOK
    <3>2. CASE Replace
      <4>1. gen \in 0 .. MaxConfigs /\ gen < MaxConfigs
        BY <1>1, <3>2 DEF Replace, BrokerTypeOK, RoutingInv, CallInv
      <4>2. gen + 1 \in 0 .. MaxConfigs
        BY <4>1, BrokerAssumption
      <4> QED
        BY <1>1, <2>2, <3>2, <4>2 DEF Replace, callVars, BrokerTypeOK
    <3>3. CASE SuspendBroker
      BY <1>1, <3>3 DEF SuspendBroker, callVars, BrokerTypeOK
    <3> QED
      BY <1>3, <3>1, <3>2, <3>3 DEF MainStep
  <2> QED
    BY <1>1, <2>1, <2>3 DEF queueVars, QueueTypeOK, WorkflowsOK
<1>4. CASE QueueStep
  <2>1. UNCHANGED <<brokerVars, callVars, stage>>
    BY <1>4 DEF QueueStep
  <2> QED
    BY <1>1, <1>4, <2>1, QueueType DEF brokerVars, callVars, BrokerTypeOK
<1>5. CASE UNCHANGED vars
  BY <1>1, <1>5 DEF vars, brokerVars, callVars, queueVars, BrokerTypeOK, QueueTypeOK, WorkflowsOK
<1> QED
  BY <1>3, <1>4, <1>5, CallType, CallQueueType DEF Next, Terminated

-----------------------------------------------------------------------------
(* Calls                                                                   *)

\* What a step in the hands of a source's thread does to its call: it begins
\* one, goes on with it, or returns; nobody else's call is touched.
LEMMA CallEffect ==
    ASSUME RoutingInv, NEW s \in Sources,
           Connect(s) \/ Send(s) \/ Leave(s) \/ BrokerStep(s)
    PROVE  /\ \A r \in Sources \ {s} : pc'[r] = pc[r] /\ call'[r] = call[r] /\ stage'[r] = stage[r]
           /\ main' = main /\ gen' = gen
           /\ \/ /\ pc[s] = "idle" /\ pc'[s] = "lock"
                 /\ \/ Connect(s) /\ call'[s].op = "reg_io" /\ stage'[s] = "up"
                    \/ Send(s) /\ call'[s].op = "perform_io" /\ stage[s] = "up" /\ stage'[s] = "up"
                    \/ Leave(s) /\ call'[s].op = "unreg_io" /\ stage'[s] = "left"
              \/ /\ pc[s] # "idle" /\ stage'[s] = stage[s] /\ call'[s].op = call[s].op
                 /\ \/ ReadLock(s) /\ pc'[s] = (IF call[s].op = "perform_io" THEN "route" ELSE "loop")
                    \/ LoopStep(s) /\ pc[s] = "loop" /\ pc'[s] = "loop"
                    \/ /\ RouteStep(s) /\ pc[s] = "route" /\ pc'[s] = "send"
                       /\ call'[s].to = Route(call[s].data) /\ call'[s].to \in Queues
                       /\ UNCHANGED queueVars
              \/ /\ pc[s] # "idle" /\ pc'[s] = "idle" /\ call'[s] = NoCall /\ stage'[s] = stage[s]
                 /\ \/ EndLoop(s) /\ pc[s] = "loop" /\ call[s].rest = <<>> /\ UNCHANGED queueVars
                    \/ /\ RouteStep(s) /\ pc[s] = "route"
                       /\ Moved(Current(s), "dropped")
                       /\ UNCHANGED <<workflow, job, queue, direct, gone, registered, paused, silent>>
                    \/ SendStep(s) /\ pc[s] = "send"
<1>1. /\ pc \in [Sources -> {"idle", "lock", "loop", "route", "send"}]
      /\ call \in [Sources -> Calls]
      /\ stage \in [Sources -> {"new", "up", "left"}]
      /\ call[s] \in Calls
  BY DEF RoutingInv, TypeOK, BrokerTypeOK
<1>2. DOMAIN call[s] = {"op", "rest", "data", "to"}
  BY <1>1 DEF Calls
<1>3. ASSUME NEW op, NEW data, Call(s, op, data)
      PROVE  /\ pc[s] = "idle" /\ pc'[s] = "lock" /\ call'[s].op = op
             /\ \A r \in Sources \ {s} : pc'[r] = pc[r] /\ call'[r] = call[r]
             /\ main' = main /\ gen' = gen
  <2>1. call'[s] = [call[s] EXCEPT !.op = op, !.data = data]
    BY <1>1, <1>3 DEF Call
  <2>2. call'[s].op = op
    BY <1>2, <2>1
  <2> QED
    BY <1>1, <1>3, <2>2 DEF Call, brokerVars
<1>4. ASSUME Return(s)
      PROVE  /\ pc'[s] = "idle" /\ call'[s] = NoCall
             /\ \A r \in Sources \ {s} : pc'[r] = pc[r] /\ call'[r] = call[r]
             /\ main' = main /\ gen' = gen
  BY <1>1, <1>4 DEF Return
<1>5. CASE Connect(s)
  BY <1>1, <1>3, <1>5 DEF Connect
<1>6. CASE Send(s)
  BY <1>1, <1>3, <1>6 DEF Send
<1>7. CASE Leave(s)
  BY <1>1, <1>3, <1>7 DEF Leave
<1>8. CASE ReadLock(s) /\ UNCHANGED <<queueVars, stage>>
  BY <1>1, <1>2, <1>8 DEF ReadLock
<1>9. CASE LoopStep(s)
  BY <1>1, <1>2, <1>9 DEF LoopStep, NextTarget, brokerVars
<1>10. CASE EndLoop(s) /\ UNCHANGED <<queueVars, stage>>
  BY <1>4, <1>10 DEF EndLoop
<1>11. CASE RouteStep(s)
  <2>1. CASE Route(call[s].data) # NoObject
    <3>1. Route(call[s].data) \in Queues
      BY <2>1, RouteReached, TargetType DEF RoutingInv, TypeOK, BrokerTypeOK
    <3>2. /\ pc[s] = "route"
          /\ call' = [call EXCEPT ![s].to = Route(call[s].data)]
          /\ pc' = [pc EXCEPT ![s] = "send"]
          /\ UNCHANGED brokerVars /\ UNCHANGED stage
      BY <1>11, <2>1 DEF RouteStep, FindTarget
    <3>3. pc'[s] = "send" /\ \A r \in Sources \ {s} : pc'[r] = pc[r] /\ call'[r] = call[r]
      BY <1>1, <3>2
    <3>4. call'[s].to = Route(call[s].data) /\ call'[s].op = call[s].op
      BY <1>1, <1>2, <3>2
    <3>5. UNCHANGED queueVars
      BY <1>11, <3>3 DEF RouteStep
    <3> QED
      BY <1>11, <3>1, <3>2, <3>3, <3>4, <3>5 DEF brokerVars
  <2>2. CASE Route(call[s].data) = NoObject
    <3>1. pc[s] = "route" /\ Return(s) /\ UNCHANGED stage
      BY <1>11, <2>2 DEF RouteStep, FindTarget
    <3>2. /\ Moved(Current(s), "dropped")
          /\ UNCHANGED <<workflow, job, queue, direct, gone, registered, paused, silent>>
      BY <1>4, <1>11, <3>1 DEF RouteStep
    <3> QED
      BY <1>4, <1>11, <3>1, <3>2
  <2> QED
    BY <2>1, <2>2
<1>12. CASE SendStep(s)
  BY <1>4, <1>12 DEF SendStep, SendOn
<1> QED
  BY <1>5, <1>6, <1>7, <1>8, <1>9, <1>10, <1>11, <1>12 DEF BrokerStep

LEMMA CallNext ==
    ASSUME RoutingInv, [Next]_vars
    PROVE  CallInv'
<1>1. CallInv
  BY DEF RoutingInv
<1>2. ASSUME NEW s \in Sources, Connect(s) \/ Send(s) \/ Leave(s) \/ BrokerStep(s)
      PROVE  CallInv'
  <2>1. NoCall.op = "none"
    BY DEF NoCall
  <2>2. \A r \in Sources \ {s} : pc'[r] = pc[r] /\ call'[r] = call[r] /\ stage'[r] = stage[r]
    BY <1>2, CallEffect
  <2>3. /\ pc'[s] = "idle" <=> call'[s].op = "none"
        /\ pc'[s] \in {"route", "send"} => call'[s].op = "perform_io"
        /\ pc'[s] = "loop" => call'[s].op # "perform_io"
        /\ pc'[s] = "send" => call'[s].to \in Queues
        /\ call'[s].op \in {"reg_io", "perform_io"} => stage'[s] = "up"
        /\ call'[s].op = "unreg_io" => stage'[s] = "left"
    BY <1>1, <1>2, <2>1, CallEffect DEF CallInv
  <2> QED
    BY <1>1, <1>2, <2>2, <2>3, CallEffect DEF CallInv
<1>3. CASE MainStep
  BY <1>1, <1>3 DEF MainStep, Restart, Replace, SuspendBroker, callVars, CallInv
<1>4. CASE QueueStep \/ UNCHANGED vars
  <2>1. UNCHANGED <<brokerVars, callVars, stage>>
    BY <1>4 DEF QueueStep, vars
  <2> QED
    BY <1>1, <2>1 DEF brokerVars, callVars, CallInv
<1> QED
  BY <1>2, <1>3, <1>4 DEF Next, Terminated

-----------------------------------------------------------------------------
(* Messages                                                                *)

\* perform_io of a queue takes the message out of the thread's hands.
LEMMA PerformIoEffect ==
    ASSUME RoutingInv, NEW q \in Queues, NEW m \in Messages, PerformIo(q, m)
    PROVE  /\ queue'[m] = q
           /\ \A l \in Messages \ {m} : place'[l] = place[l] /\ queue'[l] = queue[l]
           /\ \/ /\ place'[m] = "posted"
                 /\ workflow' = [workflow EXCEPT ![q] = Append(@, m)]
                 /\ direct' = direct
              \/ /\ place'[m] \in {"target", "null"}
                 /\ place'[m] = "null" => q \in paused /\ q \notin Linked
                 /\ direct' = direct \cup {m} /\ UNCHANGED workflow
              \/ /\ place'[m] \in {"refused", "dropped"}
                 /\ place'[m] = "refused" => m \notin silent
                 /\ UNCHANGED <<workflow, direct>>
           /\ UNCHANGED <<job, gone, registered, paused, silent>>
<1>1. place \in [Messages -> Places] /\ queue \in [Messages -> Queues \cup {NoObject}]
  BY DEF RoutingInv, TypeOK, QueueTypeOK
<1>2. queue' = [queue EXCEPT ![m] = q]
  BY DEF PerformIo
<1>3. ASSUME NEW to, Moved(m, to)
      PROVE  place'[m] = to /\ \A l \in Messages \ {m} : place'[l] = place[l]
  BY <1>1, <1>3 DEF Moved
<1>4. CASE q \notin Linked /\ m \notin silent /\ Refused(m) /\ UNCHANGED <<workflow, direct>>
  BY <1>1, <1>2, <1>3, <1>4 DEF Refused, PerformIo
<1>5. CASE /\ q \in paused
           /\ Moved(m, IF q \in Linked THEN "target" ELSE "null")
           /\ direct' = direct \cup {m}
           /\ UNCHANGED workflow
  BY <1>1, <1>2, <1>3, <1>5 DEF PerformIo
<1>6. CASE /\ Moved(m, "posted")
           /\ workflow' = [workflow EXCEPT ![q] = Append(@, m)]
           /\ UNCHANGED direct
  BY <1>1, <1>2, <1>3, <1>6 DEF PerformIo
<1>7. CASE Refused(m) /\ UNCHANGED <<workflow, direct>>
  BY <1>1, <1>2, <1>3, <1>7 DEF Refused, PerformIo
<1> QED
  BY <1>4, <1>5, <1>6, <1>7 DEF PerformIo

\* SendStep in the words of the lemma above.
LEMMA SendStepEffect ==
    ASSUME RoutingInv, NEW s \in Sources, SendStep(s)
    PROVE  /\ call[s].to \in Queues
           /\ Current(s) \in Messages
           /\ Sender(Current(s)) = s
           /\ place[Current(s)] = "calling"
           /\ PerformIo(call[s].to, Current(s))
<1>1. pc[s] = "send" /\ PerformIo(call[s].to, Current(s))
  BY DEF SendStep, SendOn
<1>2. call[s].op = "perform_io" /\ call[s].to \in Queues
  BY <1>1 DEF RoutingInv, CallInv
<1> QED
  BY <1>1, <1>2, InCall

\* What the threads of the queues do moves one message that was sent before.
LEMMA QueueStepEffect ==
    ASSUME RoutingInv, QueueStep
    PROVE  \/ UNCHANGED <<workflow, job, place, queue, direct, silent>>
           \/ \E m \in Messages :
                /\ \A l \in Messages \ {m} : place'[l] = place[l]
                /\ place[m] \in {"posted", "worker", "target", "callback"}
                /\ place'[m] \in {"worker", "target", "callback", "answered", "refused", "dropped"}
                /\ UNCHANGED <<queue, direct, silent>>
<1>1. /\ place \in [Messages -> Places]
      /\ workflow \in [Queues -> Seq(Messages)]
      /\ job \in [Workers -> Messages \cup {NoMessage}]
      /\ QueueOf \in [Workers -> Queues]
  BY QueueAssumption DEF RoutingInv, TypeOK, QueueTypeOK
<1>2. ASSUME NEW m \in Messages, NEW to, Moved(m, to)
      PROVE  place'[m] = to /\ \A l \in Messages \ {m} : place'[l] = place[l]
  BY <1>1, <1>2 DEF Moved
<1>3. ASSUME NEW w \in Workers, Take(w)
      PROVE  \E m \in Messages :
               /\ \A l \in Messages \ {m} : place'[l] = place[l]
               /\ place[m] = "posted"
               /\ place'[m] \in {"worker", "dropped"}
               /\ UNCHANGED <<queue, direct, silent>>
  <2> DEFINE q == QueueOf[w]
             m == Head(workflow[q])
  <2>1. q \in Queues /\ workflow[q] \in Seq(Messages) /\ workflow[q] # <<>>
    BY <1>1, <1>3 DEF Take
  <2>2. m = workflow[q][1] /\ 1 \in 1 .. Len(workflow[q]) /\ m \in Messages
    BY <2>1
  <2>3. place[m] = "posted"
    BY <2>1, <2>2 DEF RoutingInv, PlaceInv
  <2>4. /\ Moved(m, "dropped") \/ Moved(m, "worker")
        /\ UNCHANGED <<queue, direct, silent>>
    BY <1>3 DEF Take
  <2> HIDE DEF m
  <2> QED
    BY <1>2, <2>2, <2>3, <2>4
<1>4. ASSUME NEW w \in Workers, Give(w)
      PROVE  /\ job[w] \in Messages
             /\ \A l \in Messages \ {job[w]} : place'[l] = place[l]
             /\ place[job[w]] = "worker"
             /\ place'[job[w]] \in {"target", "refused", "dropped"}
             /\ UNCHANGED <<queue, direct, silent>>
  <2>1. job[w] \in Messages /\ place[job[w]] = "worker"
    BY <1>1, <1>4 DEF Give, RoutingInv, PlaceInv
  <2>2. Moved(job[w], "target") \/ Moved(job[w], "refused") \/ Moved(job[w], "dropped")
    BY <1>4 DEF Give, Refused
  <2> QED
    BY <1>2, <1>4, <2>1, <2>2 DEF Give
<1>5. ASSUME NEW m \in Messages, Answer(m) \/ CallHandler(m)
      PROVE  /\ \A l \in Messages \ {m} : place'[l] = place[l]
             /\ place[m] \in {"target", "callback"}
             /\ place'[m] \in {"answered", "callback", "refused"}
             /\ UNCHANGED <<queue, direct, silent>>
  <2>1. Moved(m, "answered") \/ Moved(m, "callback") \/ Moved(m, "refused")
    BY <1>5 DEF Answer, CallHandler
  <2> QED
    BY <1>2, <1>5, <2>1 DEF Answer, CallHandler
<1>6. ASSUME NEW q \in Queues, SuspendQueue(q)
      PROVE  UNCHANGED <<workflow, job, place, queue, direct, silent>>
  BY <1>6 DEF SuspendQueue
<1> QED
  BY <1>3, <1>4, <1>5, <1>6 DEF QueueStep

\* Messages that were sent, and no others, are moved about.
LEMMA SentOthers ==
    ASSUME RoutingInv, UNCHANGED call,
           \A m \in Messages :
             \/ place'[m] = place[m]
             \/ place[m] \notin {"unsent", "calling"} /\ place'[m] \notin {"unsent", "calling"}
    PROVE  SentInv'
<1>1. \A s \in Sources : Sent(s)' = Sent(s)
  <2> SUFFICES ASSUME NEW s \in Sources PROVE Sent(s)' = Sent(s)
    OBVIOUS
  <2>1. \A n \in 1 .. MaxMessages : place'[<<s, n>>] = "unsent" <=> place[<<s, n>>] = "unsent"
    BY MessageParts
  <2> QED
    BY <2>1, SentKept
<1>2. \A s \in Sources, n \in 1 .. MaxMessages :
        place'[<<s, n>>] = "unsent" <=> place[<<s, n>>] = "unsent"
  BY MessageParts
<1>3. \A m \in Messages : place'[m] = "calling" <=> place[m] = "calling"
  OBVIOUS
<1>4. \A m \in Messages : Sender(m) \in Sources
  BY MessageParts DEF Sender
<1> QED
  BY <1>1, <1>2, <1>3, <1>4 DEF SentInv, RoutingInv, Current

\* A source begins or ends a call that is not about a message.
LEMMA SentCall ==
    ASSUME RoutingInv, NEW s \in Sources, UNCHANGED place,
           \A r \in Sources : call'[r].op = "perform_io" <=> call[r].op = "perform_io"
    PROVE  SentInv'
<1>1. \A r \in Sources : Sent(r)' = Sent(r)
  BY SentKept
<1>2. \A m \in Messages : Sender(m) \in Sources
  BY MessageParts DEF Sender
<1> QED
  BY <1>1, <1>2 DEF SentInv, RoutingInv, Current

\* A message leaves the hands of the thread of its source.
LEMMA SentGiven ==
    ASSUME RoutingInv, NEW s \in Sources,
           call[s].op = "perform_io", call'[s].op # "perform_io",
           \A r \in Sources \ {s} : call'[r] = call[r],
           place'[Current(s)] \notin {"unsent", "calling"},
           \A m \in Messages \ {Current(s)} : place'[m] = place[m]
    PROVE  SentInv'
<1>1. Current(s) \in Messages /\ Sender(Current(s)) = s /\ place[Current(s)] = "calling"
  BY InCall
<1>2. \A m \in Messages : place'[m] = "unsent" <=> place[m] = "unsent"
  BY <1>1
<1>3. \A r \in Sources, n \in 1 .. MaxMessages :
        place'[<<r, n>>] = "unsent" <=> place[<<r, n>>] = "unsent"
  BY <1>2, MessageParts
<1>4. \A r \in Sources : Sent(r)' = Sent(r)
  BY <1>3, SentKept
<1>5. \A m \in Messages :
        place'[m] = "calling" <=> call'[Sender(m)].op = "perform_io" /\ Current(Sender(m))' = m
  <2> SUFFICES ASSUME NEW m \in Messages
               PROVE  place'[m] = "calling" <=>
                        call'[Sender(m)].op = "perform_io" /\ Current(Sender(m))' = m
    OBVIOUS
  <2>1. Sender(m) \in Sources
    BY MessageParts DEF Sender
  <2>2. Current(Sender(m))' = Current(Sender(m))
    BY <1>4, <2>1 DEF Current
  <2>3. place[m] = "calling" <=> call[Sender(m)].op = "perform_io" /\ Current(Sender(m)) = m
    BY DEF RoutingInv, SentInv
  <2>4. CASE Sender(m) = s
    BY <2>2, <2>3, <2>4, <1>1
  <2>5. CASE Sender(m) # s
    BY <2>1, <2>2, <2>3, <2>5, <1>1
  <2> QED
    BY <2>4, <2>5
<1> QED
  BY <1>3, <1>4, <1>5 DEF SentInv, RoutingInv

LEMMA SentSend ==
    ASSUME RoutingInv, NEW s \in Sources, Send(s)
    PROVE  SentInv'
<1> DEFINE m == <<s, Sent(s) + 1>>
<1>1. /\ Sent(s) < MaxMessages
      /\ Moved(m, "calling")
  BY DEF Send
<1>2. /\ m \in Messages
      /\ place[m] = "unsent"
      /\ Sent(s)' = Sent(s) + 1
      /\ \A r \in Sources \ {s} : Sent(r)' = Sent(r)
  BY <1>1, SentMore
<1>3. /\ place'[m] = "calling"
      /\ \A l \in Messages \ {m} : place'[l] = place[l]
  BY <1>1, <1>2 DEF Moved, RoutingInv, TypeOK, QueueTypeOK
<1>4. /\ pc[s] = "idle"
      /\ call'[s].op = "perform_io"
      /\ \A r \in Sources \ {s} : call'[r] = call[r]
  <2>1. \E k \in Kinds \cup {NoObject} : Call(s, "perform_io", k)
    BY DEF Send
  <2>2. call \in [Sources -> Calls] /\ DOMAIN call[s] = {"op", "rest", "data", "to"}
    BY DEF RoutingInv, TypeOK, BrokerTypeOK, Calls
  <2> QED
    BY <2>1, <2>2 DEF Call
<1>5. call[s].op = "none"
  BY <1>4 DEF RoutingInv, CallInv
<1>6. Sent(s) \in Nat /\ Sent(s) + 1 \in 0 .. MaxMessages
  BY <1>1, QueueAssumption DEF RoutingInv, SentInv
<1>7. \A r \in Sources :
        /\ Sent(r)' \in 0 .. MaxMessages
        /\ \A n \in 1 .. MaxMessages : place'[<<r, n>>] # "unsent" <=> n <= Sent(r)'
        /\ call'[r].op = "perform_io" => Sent(r)' > 0
  <2> SUFFICES ASSUME NEW r \in Sources
               PROVE  /\ Sent(r)' \in 0 .. MaxMessages
                      /\ \A n \in 1 .. MaxMessages : place'[<<r, n>>] # "unsent" <=> n <= Sent(r)'
                      /\ call'[r].op = "perform_io" => Sent(r)' > 0
    OBVIOUS
  <2>1. CASE r # s
    <3>1. \A n \in 1 .. MaxMessages : <<r, n>> \in Messages \ {m}
      BY <2>1, MessageParts
    <3> QED
      BY <1>2, <1>3, <1>4, <2>1, <3>1 DEF RoutingInv, SentInv
  <2>2. CASE r = s
    <3>1. ASSUME NEW n \in 1 .. MaxMessages
          PROVE  place'[<<s, n>>] # "unsent" <=> n <= Sent(s) + 1
      <4>1. CASE n = Sent(s) + 1
        BY <1>3, <4>1
      <4>2. CASE n # Sent(s) + 1
        <5>1. <<s, n>> \in Messages \ {m}
          BY <4>2, MessageParts
        <5>2. n <= Sent(s) + 1 <=> n <= Sent(s)
          BY <1>6, <4>2
        <5> QED
          BY <1>3, <5>1, <5>2 DEF RoutingInv, SentInv
      <4> QED
        BY <4>1, <4>2
    <3> QED
      BY <1>2, <1>6, <2>2, <3>1
  <2> QED
    BY <2>1, <2>2
<1>8. ASSUME NEW l \in Messages
      PROVE  place'[l] = "calling" <=> call'[Sender(l)].op = "perform_io" /\ Current(Sender(l))' = l
  <2>1. Sender(l) \in Sources
    BY MessageParts DEF Sender
  <2>2. place[l] = "calling" <=> call[Sender(l)].op = "perform_io" /\ Current(Sender(l)) = l
    BY DEF RoutingInv, SentInv
  <2>3. CASE Sender(l) # s
    <3>1. l # m /\ Current(Sender(l))' = Current(Sender(l))
      BY <1>2, <2>1, <2>3, MessageParts DEF Current, Sender
    <3> QED
      BY <1>3, <1>4, <2>1, <2>2, <2>3, <3>1
  <2>4. CASE Sender(l) = s
    <3>1. Current(s)' = m
      BY <1>2 DEF Current
    <3>2. place[l] # "calling"
      BY <1>5, <2>2, <2>4
    <3> QED
      BY <1>3, <1>4, <2>4, <3>1, <3>2
  <2> QED
    BY <2>3, <2>4
<1> QED
  BY <1>7, <1>8 DEF SentInv

LEMMA SentNext ==
    ASSUME RoutingInv, [Next]_vars
    PROVE  SentInv'
<1>1. ASSUME NEW s \in Sources, Connect(s) \/ Send(s) \/ Leave(s) \/ BrokerStep(s)
      PROVE  SentInv'
  <2>1. CASE Send(s)
    BY <2>1, SentSend
  <2>2. CASE (SendStep(s) \/ RouteStep(s)) /\ pc'[s] = "idle"
    <3>1. /\ pc[s] \in {"route", "send"}
          /\ call'[s] = NoCall
          /\ \A r \in Sources \ {s} : call'[r] = call[r]
          /\ \/ Moved(Current(s), "dropped")
             \/ SendStep(s)
      BY <1>1, <2>2, CallEffect DEF SendStep, SendOn, RouteStep, FindTarget
    <3>2. call[s].op = "perform_io" /\ call'[s].op # "perform_io"
      BY <3>1 DEF RoutingInv, CallInv, NoCall
    <3>3. /\ place'[Current(s)] \notin {"unsent", "calling"}
          /\ \A m \in Messages \ {Current(s)} : place'[m] = place[m]
      <4>1. CASE SendStep(s)
        BY <4>1, SendStepEffect, PerformIoEffect
      <4>2. CASE Moved(Current(s), "dropped")
        BY <3>2, <4>2, InCall DEF Moved, RoutingInv, TypeOK, QueueTypeOK
      <4> QED
        BY <3>1, <4>1, <4>2
    <3> QED
      BY <3>1, <3>2, <3>3, SentGiven
  <2>3. CASE ~Send(s) /\ ~((SendStep(s) \/ RouteStep(s)) /\ pc'[s] = "idle")
    <3>1. \A r \in Sources : call'[r].op = "perform_io" <=> call[r].op = "perform_io"
      <4>1. NoCall.op = "none"
        BY DEF NoCall
      <4>2. pc[s] = "idle" => call[s].op = "none"
        BY DEF RoutingInv, CallInv
      <4>3. pc[s] = "loop" => call[s].op # "perform_io"
        BY DEF RoutingInv, CallInv
      <4>4. call'[s].op = "perform_io" <=> call[s].op = "perform_io"
        BY <1>1, <2>3, <4>1, <4>2, <4>3, CallEffect
      <4>5. \A r \in Sources \ {s} : call'[r] = call[r]
        BY <1>1, CallEffect
      <4> QED
        BY <4>4, <4>5
    <3>2. UNCHANGED place
      <4>1. CASE \/ Connect(s)
                 \/ Leave(s)
                 \/ ReadLock(s) /\ UNCHANGED <<queueVars, stage>>
                 \/ EndLoop(s) /\ UNCHANGED <<queueVars, stage>>
        BY <4>1 DEF Connect, Leave, queueVars
      <4>2. CASE LoopStep(s)
        BY <4>2 DEF LoopStep, RegIo, UnregIo, queueVars
      <4>3. CASE RouteStep(s)
        BY <2>3, <4>3 DEF RouteStep, queueVars
      <4>4. SendStep(s) => pc'[s] = "idle"
        BY DEF SendStep, SendOn, Return, RoutingInv, TypeOK, BrokerTypeOK
      <4> QED
        BY <1>1, <2>3, <4>1, <4>2, <4>3, <4>4 DEF BrokerStep
    <3> QED
      BY <3>1, <3>2, SentCall
  <2> QED
    BY <2>1, <2>2, <2>3
<1>2. CASE QueueStep
  <2>1. UNCHANGED call
    BY <1>2 DEF QueueStep, callVars
  <2>2. \A m \in Messages :
          \/ place'[m] = place[m]
          \/ place[m] \notin {"unsent", "calling"} /\ place'[m] \notin {"unsent", "calling"}
    <3>1. CASE UNCHANGED <<workflow, job, place, queue, direct, silent>>
      BY <3>1
    <3>2. CASE \E m \in Messages :
                 /\ \A l \in Messages \ {m} : place'[l] = place[l]
                 /\ place[m] \in {"posted", "worker", "target", "callback"}
                 /\ place'[m] \in {"worker", "target", "callback", "answered", "refused", "dropped"}
      BY <3>2
    <3> QED
      BY <1>2, <3>1, <3>2, QueueStepEffect
  <2> QED
    BY <2>1, <2>2, SentOthers
<1>3. CASE MainStep \/ UNCHANGED vars
  <2>1. UNCHANGED <<call, place>>
    BY <1>3 DEF MainStep, Restart, Replace, SuspendBroker, vars, callVars, queueVars
  <2> QED
    BY <2>1, SentOthers
<1> QED
  BY <1>1, <1>2, <1>3 DEF Next, Terminated

\* What sequences of messages do when one is added or the first is taken.
LEMMA Appended ==
    ASSUME NEW f \in Seq(Messages), NEW m \in Messages
    PROVE  /\ Append(f, m) \in Seq(Messages)
           /\ Len(f) \in Nat /\ Len(Append(f, m)) = Len(f) + 1
           /\ \A i \in 1 .. Len(f) : Append(f, m)[i] = f[i]
           /\ Append(f, m)[Len(f) + 1] = m
OBVIOUS

LEMMA Taken ==
    ASSUME NEW f \in Seq(Messages), f # <<>>
    PROVE  /\ Tail(f) \in Seq(Messages) /\ Head(f) = f[1] /\ Head(f) \in Messages
           /\ Len(f) \in Nat /\ Len(f) > 0 /\ Len(Tail(f)) = Len(f) - 1
           /\ \A i \in 1 .. Len(f) - 1 : Tail(f)[i] = f[i + 1]
OBVIOUS

\* The parts of PlaceInv that are about workflows, and about workers.
PostedInv ==
    /\ \A q \in Queues : \A i \in 1 .. Len(workflow[q]) :
         place[workflow[q][i]] = "posted" /\ queue[workflow[q][i]] = q
    /\ \A q \in Queues : \A i, j \in 1 .. Len(workflow[q]) :
         workflow[q][i] = workflow[q][j] => i = j
    /\ \A m \in Messages : place[m] = "posted" =>
         /\ queue[m] \in Queues
         /\ \E i \in 1 .. Len(workflow[queue[m]]) : workflow[queue[m]][i] = m

WorkerInv ==
    /\ \A w \in Workers : job[w] # NoMessage =>
         place[job[w]] = "worker" /\ queue[job[w]] = QueueOf[w]
    /\ \A v, w \in Workers : job[v] # NoMessage /\ job[v] = job[w] => v = w
    /\ \A m \in Messages : place[m] = "worker" => \E w \in Workers : job[w] = m

LEMMA PlaceInvIs == PlaceInv <=> PostedInv /\ WorkerInv
BY DEF PlaceInv, PostedInv, WorkerInv

LEMMA QueueTypes ==
    ASSUME RoutingInv
    PROVE  /\ workflow \in [Queues -> Seq(Messages)]
           /\ job \in [Workers -> Messages \cup {NoMessage}]
           /\ place \in [Messages -> Places]
           /\ queue \in [Messages -> Queues \cup {NoObject}]
           /\ QueueOf \in [Workers -> Queues]
           /\ NoMessage \notin Messages
           /\ \A q \in Queues : \A i \in 1 .. Len(workflow[q]) : workflow[q][i] \in Messages
           /\ PostedInv /\ WorkerInv
BY QueueAssumption, PlaceInvIs DEF RoutingInv, TypeOK, QueueTypeOK

\* A message is moved that does not come from a workflow nor go to one.
LEMMA PostedKept ==
    ASSUME RoutingInv, NEW m \in Messages,
           place[m] # "posted", place'[m] # "posted",
           \A l \in Messages \ {m} : place'[l] = place[l] /\ queue'[l] = queue[l],
           UNCHANGED workflow
    PROVE  PostedInv'
<1>1. \A q \in Queues : \A i \in 1 .. Len(workflow[q]) : workflow[q][i] \in Messages \ {m}
  BY QueueTypes DEF PostedInv
<1>2. PostedInv
  BY QueueTypes
<1>3. \A q \in Queues : \A i \in 1 .. Len(workflow'[q]) :
        place'[workflow'[q][i]] = "posted" /\ queue'[workflow'[q][i]] = q
  BY <1>1, <1>2 DEF PostedInv
<1>4. ASSUME NEW l \in Messages, place'[l] = "posted"
      PROVE  /\ queue'[l] \in Queues
             /\ \E i \in 1 .. Len(workflow'[queue'[l]]) : workflow'[queue'[l]][i] = l
  BY <1>2, <1>4 DEF PostedInv
<1>5. \A q \in Queues : \A i, j \in 1 .. Len(workflow'[q]) :
        workflow'[q][i] = workflow'[q][j] => i = j
  BY <1>2 DEF PostedInv
<1> QED
  BY <1>3, <1>4, <1>5 DEF PostedInv

\* A message is moved that does not come from a worker nor go to one.
LEMMA WorkerKept ==
    ASSUME RoutingInv, NEW m \in Messages,
           place[m] # "worker", place'[m] # "worker",
           \A l \in Messages \ {m} : place'[l] = place[l] /\ queue'[l] = queue[l],
           UNCHANGED job
    PROVE  WorkerInv'
<1>1. \A w \in Workers : job[w] # NoMessage => job[w] \in Messages \ {m}
  BY QueueTypes DEF WorkerInv
<1>2. WorkerInv
  BY QueueTypes
<1> QED
  BY <1>1, <1>2 DEF WorkerInv

LEMMA PostedMore ==
    ASSUME RoutingInv, NEW q \in Queues, NEW m \in Messages,
           place[m] = "calling", place'[m] = "posted", queue'[m] = q,
           \A l \in Messages \ {m} : place'[l] = place[l] /\ queue'[l] = queue[l],
           workflow' = [workflow EXCEPT ![q] = Append(workflow[q], m)]
    PROVE  PostedInv'
<1> DEFINE f == workflow[q]
           k == Len(f) + 1
<1>1. f \in Seq(Messages) /\ PostedInv
  BY QueueTypes
<1>2. /\ Append(f, m) \in Seq(Messages)
      /\ Len(f) \in Nat /\ Len(Append(f, m)) = k
      /\ \A i \in 1 .. Len(f) : Append(f, m)[i] = f[i]
      /\ Append(f, m)[k] = m
  BY <1>1, Appended
<1>3. /\ workflow'[q] = Append(f, m)
      /\ \A r \in Queues \ {q} : workflow'[r] = workflow[r]
  BY QueueTypes
<1>4. \A r \in Queues : \A i \in 1 .. Len(workflow[r]) : workflow[r][i] \in Messages \ {m}
  BY QueueTypes DEF PostedInv
<1> HIDE DEF f, k
<1>5. /\ Len(workflow'[q]) = k
      /\ workflow'[q][k] = m
      /\ \A i \in 1 .. k : i # k => i \in 1 .. Len(f) /\ workflow'[q][i] = f[i]
  BY <1>2, <1>3 DEF k
<1>6. ASSUME NEW r \in Queues, NEW i \in 1 .. Len(workflow'[r])
      PROVE  place'[workflow'[r][i]] = "posted" /\ queue'[workflow'[r][i]] = r
  <2>1. CASE r = q
    <3>1. CASE i = k
      BY <1>5, <2>1, <3>1
    <3>2. CASE i # k
      BY <1>1, <1>4, <1>5, <2>1, <3>2 DEF PostedInv, f
    <3> QED
      BY <3>1, <3>2
  <2>2. CASE r # q
    BY <1>1, <1>3, <1>4, <2>2 DEF PostedInv
  <2> QED
    BY <2>1, <2>2
<1>7. ASSUME NEW r \in Queues, NEW i \in 1 .. Len(workflow'[r]), NEW j \in 1 .. Len(workflow'[r]),
             workflow'[r][i] = workflow'[r][j]
      PROVE  i = j
  <2>1. CASE r = q
    BY <1>1, <1>4, <1>5, <1>7, <2>1 DEF PostedInv, f
  <2>2. CASE r # q
    BY <1>1, <1>3, <1>7, <2>2 DEF PostedInv
  <2> QED
    BY <2>1, <2>2
<1>8. ASSUME NEW l \in Messages, place'[l] = "posted"
      PROVE  /\ queue'[l] \in Queues
             /\ \E i \in 1 .. Len(workflow'[queue'[l]]) : workflow'[queue'[l]][i] = l
  <2>1. CASE l = m
    <3>1. k \in 1 .. Len(workflow'[q])
      BY <1>2, <1>5 DEF k
    <3> QED
      BY <1>5, <2>1, <3>1
  <2>2. CASE l # m
    <3>1. PICK i \in 1 .. Len(workflow[queue[l]]) : workflow[queue[l]][i] = l
      BY <1>1, <1>8, <2>2 DEF PostedInv
    <3>2. queue'[l] = queue[l] /\ queue[l] \in Queues
      BY <1>1, <1>8, <2>2 DEF PostedInv
    <3>3. CASE queue[l] = q
      <4>1. i \in 1 .. Len(f) /\ f[i] = l
        BY <3>1, <3>3 DEF f
      <4>2. i \in 1 .. k /\ i # k
        BY <1>2, <4>1 DEF k
      <4> QED
        BY <1>5, <3>2, <3>3, <4>1, <4>2
    <3>4. CASE queue[l] # q
      BY <1>3, <3>1, <3>2, <3>4
    <3> QED
      BY <3>3, <3>4
  <2> QED
    BY <2>1, <2>2
<1> QED
  BY <1>6, <1>7, <1>8 DEF PostedInv

LEMMA PostedLess ==
    ASSUME RoutingInv, NEW q \in Queues, workflow[q] # <<>>,
           workflow' = [workflow EXCEPT ![q] = Tail(workflow[q])],
           place'[Head(workflow[q])] # "posted",
           \A l \in Messages \ {Head(workflow[q])} : place'[l] = place[l],
           UNCHANGED queue
    PROVE  PostedInv'
<1> DEFINE f == workflow[q]
           m == Head(f)
<1>1. f \in Seq(Messages) /\ f # <<>> /\ PostedInv
  BY QueueTypes
<1>2. /\ Tail(f) \in Seq(Messages) /\ m = f[1] /\ m \in Messages
      /\ Len(f) \in Nat /\ Len(f) > 0 /\ Len(Tail(f)) = Len(f) - 1
      /\ \A i \in 1 .. Len(f) - 1 : Tail(f)[i] = f[i + 1]
  BY <1>1, Taken
<1>3. /\ workflow'[q] = Tail(f)
      /\ \A r \in Queues \ {q} : workflow'[r] = workflow[r]
  BY QueueTypes
<1>4. place[m] = "posted" /\ queue[m] = q
  <2>1. 1 \in 1 .. Len(f)
    BY <1>2
  <2> QED
    BY <1>1, <1>2, <2>1 DEF PostedInv
<1> HIDE DEF f, m
<1>5. /\ Len(workflow'[q]) = Len(f) - 1
      /\ \A i \in 1 .. Len(workflow'[q]) :
           /\ i + 1 \in 2 .. Len(f) /\ i + 1 \in 1 .. Len(f)
           /\ workflow'[q][i] = f[i + 1]
  <2>1. Len(workflow'[q]) = Len(f) - 1
    BY <1>2, <1>3
  <2>2. \A i \in 1 .. Len(f) - 1 : i + 1 \in 2 .. Len(f) /\ i + 1 \in 1 .. Len(f)
    BY <1>2
  <2>3. \A i \in 1 .. Len(f) - 1 : workflow'[q][i] = f[i + 1]
    BY <1>2, <1>3
  <2> QED
    BY <2>1, <2>2, <2>3
<1>6. \A i \in 2 .. Len(f) : f[i] # m /\ f[i] \in Messages
  <2>1. \A i \in 2 .. Len(f) : i \in 1 .. Len(f) /\ 1 \in 1 .. Len(f) /\ i # 1
    BY <1>2
  <2> QED
    BY <1>1, <1>2, <2>1 DEF PostedInv, f
<1>7. \A r \in Queues \ {q} : \A i \in 1 .. Len(workflow[r]) : workflow[r][i] \in Messages \ {m}
  BY <1>1, <1>4, QueueTypes DEF PostedInv
<1>8. \A l \in Messages \ {m} : place'[l] = place[l] /\ queue'[l] = queue[l]
  BY DEF f, m
<1>9. ASSUME NEW r \in Queues, NEW i \in 1 .. Len(workflow'[r])
      PROVE  place'[workflow'[r][i]] = "posted" /\ queue'[workflow'[r][i]] = r
  <2>1. CASE r = q
    BY <1>1, <1>5, <1>6, <1>8, <2>1 DEF PostedInv, f
  <2>2. CASE r # q
    BY <1>1, <1>3, <1>7, <1>8, <2>2 DEF PostedInv
  <2> QED
    BY <2>1, <2>2
<1>10. ASSUME NEW r \in Queues, NEW i \in 1 .. Len(workflow'[r]), NEW j \in 1 .. Len(workflow'[r]),
              workflow'[r][i] = workflow'[r][j]
       PROVE  i = j
  <2>1. CASE r = q
    <3>1. f[i + 1] = f[j + 1] /\ i + 1 \in 1 .. Len(f) /\ j + 1 \in 1 .. Len(f)
      BY <1>5, <1>10, <2>1
    <3>2. i + 1 = j + 1
      BY <1>1, <3>1 DEF PostedInv, f
    <3> QED
      BY <3>2
  <2>2. CASE r # q
    BY <1>1, <1>3, <1>10, <2>2 DEF PostedInv
  <2> QED
    BY <2>1, <2>2
<1>11. ASSUME NEW l \in Messages, place'[l] = "posted"
       PROVE  /\ queue'[l] \in Queues
              /\ \E i \in 1 .. Len(workflow'[queue'[l]]) : workflow'[queue'[l]][i] = l
  <2>1. l # m
    BY <1>11 DEF m, f
  <2>2. PICK i \in 1 .. Len(workflow[queue[l]]) : workflow[queue[l]][i] = l
    BY <1>1, <1>8, <1>11, <2>1 DEF PostedInv
  <2>3. queue'[l] = queue[l] /\ queue[l] \in Queues
    BY <1>1, <1>8, <1>11, <2>1 DEF PostedInv
  <2>4. CASE queue[l] = q
    <3>1. f[i] = l /\ i \in 1 .. Len(f) /\ i # 1
      BY <1>2, <2>1, <2>2, <2>4 DEF f
    <3>2. i - 1 \in 1 .. Len(workflow'[q]) /\ (i - 1) + 1 = i
      <4>1. i - 1 \in 1 .. Len(f) - 1 /\ (i - 1) + 1 = i
        BY <1>2, <3>1
      <4> QED
        BY <1>5, <4>1
    <3>3. workflow'[q][i - 1] = l
      BY <1>5, <3>1, <3>2
    <3> QED
      BY <2>3, <2>4, <3>2, <3>3
  <2>5. CASE queue[l] # q
    BY <1>3, <2>2, <2>3, <2>5
  <2> QED
    BY <2>4, <2>5
<1> QED
  BY <1>9, <1>10, <1>11 DEF PostedInv

-----------------------------------------------------------------------------
(* The steps, by what they do to a message m                               *)

Only(m) == \A l \in Messages \ {m} : place'[l] = place[l] /\ queue'[l] = queue[l]

\* m is sent.
BeginStep(m) ==
    /\ place[m] = "unsent" /\ place'[m] = "calling"
    /\ silent' \in {silent, silent \cup {m}}
    /\ UNCHANGED <<workflow, job, queue, direct>>

\* The broker has no target for m.
DropStep(m) ==
    /\ place[m] = "calling" /\ place'[m] = "dropped"
    /\ UNCHANGED <<workflow, job, queue, direct, silent>>

\* Queue q gets m, and posts it ...
PostStep(m, q) ==
    /\ place[m] = "calling" /\ place'[m] = "posted" /\ queue'[m] = q
    /\ \E s \in Sources : pc[s] = "send" /\ call[s].to = q
    /\ workflow' = [workflow EXCEPT ![q] = Append(workflow[q], m)]
    /\ UNCHANGED <<job, direct, silent>>

\* ... or passes it on at once ...
PassStep(m, q) ==
    /\ place[m] = "calling" /\ place'[m] \in {"target", "null"} /\ queue'[m] = q
    /\ place'[m] = "null" => q \in paused /\ q \notin Linked
    /\ direct' = direct \cup {m}
    /\ UNCHANGED <<workflow, job, silent>>

\* ... or refuses it.
RefuseStep(m, q) ==
    /\ place[m] = "calling" /\ place'[m] \in {"refused", "dropped"} /\ queue'[m] = q
    /\ place'[m] = "refused" => m \notin silent
    /\ UNCHANGED <<workflow, job, direct, silent>>

\* Worker w takes m out of its workflow ...
TakeStep(m, w) ==
    LET q == QueueOf[w] IN
    /\ workflow[q] # <<>> /\ m = Head(workflow[q])
    /\ job[w] = NoMessage
    /\ place[m] = "posted" /\ queue[m] = q
    /\ workflow' = [workflow EXCEPT ![q] = Tail(workflow[q])]
    /\ \/ place'[m] = "dropped" /\ q \in Tracking /\ Sender(m) \in gone[q] /\ UNCHANGED job
       \/ /\ place'[m] = "worker" /\ ~(q \in Tracking /\ Sender(m) \in gone[q])
          /\ job' = [job EXCEPT ![w] = m]
    /\ UNCHANGED <<queue, direct, silent>>

\* ... and gives it to the target.
GiveStep(m, w) ==
    /\ job[w] = m /\ place[m] = "worker" /\ queue[m] = QueueOf[w]
    /\ place'[m] \in {"target", "refused", "dropped"}
    /\ place'[m] = "refused" => m \notin silent
    /\ job' = [job EXCEPT ![w] = NoMessage]
    /\ UNCHANGED <<workflow, queue, direct, silent>>

\* The target calls the handler of m, or a thread of the callback workflow does.
AnswerStep(m) ==
    /\ place[m] \in {"target", "callback"}
    /\ place'[m] \in {"callback", "answered", "refused"}
    /\ place[m] = "target" => m \notin silent
    /\ UNCHANGED <<workflow, job, queue, direct, silent>>

MessageStep(m) ==
    /\ Only(m)
    /\ \/ BeginStep(m)
       \/ DropStep(m)
       \/ \E q \in Queues : PostStep(m, q) \/ PassStep(m, q) \/ RefuseStep(m, q)
       \/ \E w \in Workers : TakeStep(m, w) \/ GiveStep(m, w)
       \/ AnswerStep(m)

\* Every step moves one message or none.
LEMMA Steps ==
    ASSUME RoutingInv, [Next]_vars
    PROVE  \/ UNCHANGED <<workflow, job, place, queue, direct, silent>>
           \/ \E m \in Messages : MessageStep(m)
<1>1. /\ place \in [Messages -> Places]
      /\ queue \in [Messages -> Queues \cup {NoObject}]
      /\ workflow \in [Queues -> Seq(Messages)]
      /\ job \in [Workers -> Messages \cup {NoMessage}]
      /\ QueueOf \in [Workers -> Queues]
      /\ PostedInv /\ WorkerInv
  BY QueueTypes
<1>2. ASSUME NEW m \in Messages, NEW to, Moved(m, to)
      PROVE  place'[m] = to /\ \A l \in Messages \ {m} : place'[l] = place[l]
  BY <1>1, <1>2 DEF Moved
<1>3. ASSUME NEW s \in Sources, Connect(s) \/ Send(s) \/ Leave(s) \/ BrokerStep(s)
      PROVE  \/ UNCHANGED <<workflow, job, place, queue, direct, silent>>
             \/ \E m \in Messages : MessageStep(m)
  <2>1. CASE \/ Connect(s)
             \/ Leave(s)
             \/ ReadLock(s) /\ UNCHANGED <<queueVars, stage>>
             \/ EndLoop(s) /\ UNCHANGED <<queueVars, stage>>
    BY <2>1 DEF Connect, Leave, queueVars
  <2>2. CASE LoopStep(s)
    BY <2>2 DEF LoopStep, RegIo, UnregIo, queueVars
  <2>3. CASE Send(s)
    <3> DEFINE m == <<s, Sent(s) + 1>>
    <3>1. m \in Messages /\ place[m] = "unsent" /\ Moved(m, "calling")
      BY <2>3, SentMore DEF Send
    <3>2. silent' \in {silent, silent \cup {m}} /\ UNCHANGED <<workflow, job, queue, direct>>
      BY <2>3 DEF Send
    <3> HIDE DEF m
    <3>3. BeginStep(m) /\ Only(m)
      BY <1>2, <3>1, <3>2 DEF BeginStep, Only
    <3> QED
      BY <3>1, <3>3 DEF MessageStep
  <2>4. CASE RouteStep(s)
    <3>1. CASE UNCHANGED queueVars
      BY <3>1 DEF queueVars
    <3>2. CASE ~UNCHANGED queueVars
      <4> DEFINE m == Current(s)
      <4>1. /\ Moved(m, "dropped")
            /\ UNCHANGED <<workflow, job, queue, direct, silent>>
        BY <2>4, <3>2 DEF RouteStep
      <4>2. pc[s] = "route"
        BY <2>4 DEF RouteStep, FindTarget
      <4>3. m \in Messages /\ place[m] = "calling"
        BY <4>2, InCall DEF RoutingInv, CallInv
      <4> HIDE DEF m
      <4>4. DropStep(m) /\ Only(m)
        BY <1>2, <4>1, <4>3 DEF DropStep, Only
      <4> QED
        BY <4>3, <4>4 DEF MessageStep
    <3> QED
      BY <3>1, <3>2
  <2>5. CASE SendStep(s)
    <3> DEFINE m == Current(s)
               q == call[s].to
    <3>1. m \in Messages /\ q \in Queues /\ place[m] = "calling" /\ PerformIo(q, m)
      BY <2>5, SendStepEffect
    <3>3. \E r \in Sources : pc[r] = "send" /\ call[r].to = q
      BY <2>5 DEF SendStep, SendOn
    <3> HIDE DEF m, q
    <3>2. Only(m) /\ (PostStep(m, q) \/ PassStep(m, q) \/ RefuseStep(m, q))
      BY <3>1, <3>3, PerformIoEffect DEF Only, PostStep, PassStep, RefuseStep
    <3> QED
      BY <3>1, <3>2 DEF MessageStep
  <2> QED
    BY <1>3, <2>1, <2>2, <2>3, <2>4, <2>5 DEF BrokerStep
<1>4. ASSUME NEW w \in Workers, Take(w) PROVE \E m \in Messages : MessageStep(m)
  <2> DEFINE q == QueueOf[w]
             m == Head(workflow[q])
  <2>1. q \in Queues /\ workflow[q] \in Seq(Messages) /\ workflow[q] # <<>>
    BY <1>1, <1>4 DEF Take
  <2>2. m = workflow[q][1] /\ 1 \in 1 .. Len(workflow[q]) /\ m \in Messages
    BY <2>1
  <2>3. place[m] = "posted" /\ queue[m] = q
    BY <1>1, <2>1, <2>2 DEF PostedInv
  <2>4. \/ Moved(m, "dropped") /\ q \in Tracking /\ Sender(m) \in gone[q] /\ UNCHANGED job
        \/ /\ Moved(m, "worker") /\ ~(q \in Tracking /\ Sender(m) \in gone[q])
           /\ job' = [job EXCEPT ![w] = m]
    BY <1>4 DEF Take
  <2>5. /\ job[w] = NoMessage
        /\ workflow' = [workflow EXCEPT ![q] = Tail(workflow[q])]
        /\ UNCHANGED <<queue, direct, silent>>
    BY <1>4 DEF Take
  <2>6. m = Head(workflow[QueueOf[w]]) /\ q = QueueOf[w]
    OBVIOUS
  <2> HIDE DEF m, q
  <2>7. TakeStep(m, w)
    BY <1>2, <2>1, <2>2, <2>3, <2>4, <2>5, <2>6 DEF TakeStep
  <2>8. Only(m)
    BY <1>2, <2>2, <2>4, <2>5 DEF Only
  <2> QED
    BY <2>2, <2>7, <2>8 DEF MessageStep
<1>5. ASSUME NEW w \in Workers, Give(w) PROVE \E m \in Messages : MessageStep(m)
  <2> DEFINE m == job[w]
  <2>1. m \in Messages /\ place[m] = "worker" /\ queue[m] = QueueOf[w]
    BY <1>1, <1>5 DEF Give, WorkerInv
  <2>2. Moved(m, "target") \/ (Moved(m, "refused") /\ m \notin silent) \/ Moved(m, "dropped")
    BY <1>5 DEF Give, Refused
  <2>3. GiveStep(m, w) /\ Only(m)
    BY <1>2, <1>5, <2>1, <2>2 DEF Give, GiveStep, Only
  <2> QED
    BY <2>1, <2>3 DEF MessageStep
<1>6. ASSUME NEW m \in Messages, Answer(m) \/ CallHandler(m) PROVE MessageStep(m)
  <2>1. Moved(m, "answered") \/ Moved(m, "callback") \/ Moved(m, "refused")
    BY <1>6 DEF Answer, CallHandler
  <2>2. AnswerStep(m) /\ Only(m)
    BY <1>2, <1>6, <2>1 DEF Answer, CallHandler, Wrapped, AnswerStep, Only
  <2> QED
    BY <2>2 DEF MessageStep
<1>7. ASSUME NEW q \in Queues, SuspendQueue(q)
      PROVE  UNCHANGED <<workflow, job, place, queue, direct, silent>>
  BY <1>7 DEF SuspendQueue
<1>8. CASE MainStep \/ UNCHANGED vars
  BY <1>8 DEF MainStep, vars, queueVars
<1> QED
  BY <1>3, <1>4, <1>5, <1>6, <1>7, <1>8 DEF Next, Terminated, QueueStep

-----------------------------------------------------------------------------
(* Places                                                                  *)

LEMMA WorkerMore ==
    ASSUME RoutingInv, NEW w \in Workers, NEW m \in Messages, Only(m),
           job[w] = NoMessage, place[m] = "posted", queue[m] = QueueOf[w],
           place'[m] = "worker", job' = [job EXCEPT ![w] = m], UNCHANGED queue
    PROVE  WorkerInv'
<1>1. /\ job'[w] = m
      /\ \A v \in Workers \ {w} : job'[v] = job[v]
      /\ m # NoMessage
  BY QueueTypes
<1>2. \A v \in Workers : job[v] # NoMessage => job[v] \in Messages \ {m}
  BY QueueTypes DEF WorkerInv
<1>3. WorkerInv
  BY QueueTypes
<1>4. \A v \in Workers : job'[v] # NoMessage =>
        place'[job'[v]] = "worker" /\ queue'[job'[v]] = QueueOf[v]
  BY <1>1, <1>2, <1>3 DEF WorkerInv, Only
<1>5. \A u, v \in Workers : job'[u] # NoMessage /\ job'[u] = job'[v] => u = v
  BY <1>1, <1>2, <1>3 DEF WorkerInv
<1>6. \A l \in Messages : place'[l] = "worker" => \E v \in Workers : job'[v] = l
  <2> SUFFICES ASSUME NEW l \in Messages, place'[l] = "worker"
               PROVE  \E v \in Workers : job'[v] = l
    OBVIOUS
  <2>1. CASE l = m
    BY <1>1, <2>1
  <2>2. CASE l # m
    <3>1. PICK v \in Workers : job[v] = l
      BY <1>3, <2>2 DEF WorkerInv, Only
    <3>2. v # w
      BY <3>1, QueueTypes
    <3> QED
      BY <1>1, <3>1, <3>2
  <2> QED
    BY <2>1, <2>2
<1> QED
  BY <1>4, <1>5, <1>6 DEF WorkerInv

LEMMA WorkerLess ==
    ASSUME RoutingInv, NEW w \in Workers, NEW m \in Messages, Only(m),
           job[w] = m, place'[m] # "worker", job' = [job EXCEPT ![w] = NoMessage]
    PROVE  WorkerInv'
<1>1. /\ job'[w] = NoMessage
      /\ \A v \in Workers \ {w} : job'[v] = job[v]
  BY QueueTypes
<1>2. WorkerInv /\ m # NoMessage
  BY QueueTypes
<1>3. \A v \in Workers \ {w} : job[v] # NoMessage => job[v] \in Messages \ {m}
  BY <1>2, QueueTypes DEF WorkerInv
<1>4. \A l \in Messages : place'[l] = "worker" => \E v \in Workers : job'[v] = l
  <2> SUFFICES ASSUME NEW l \in Messages, place'[l] = "worker"
               PROVE  \E v \in Workers : job'[v] = l
    OBVIOUS
  <2>1. PICK v \in Workers : l # m /\ job[v] = l
    BY <1>2 DEF WorkerInv, Only
  <2> QED
    BY <1>1, <2>1
<1>5. \A v \in Workers : job'[v] # NoMessage =>
        place'[job'[v]] = "worker" /\ queue'[job'[v]] = QueueOf[v]
  BY <1>1, <1>2, <1>3 DEF WorkerInv, Only
<1>6. \A u, v \in Workers : job'[u] # NoMessage /\ job'[u] = job'[v] => u = v
  BY <1>1, <1>2 DEF WorkerInv
<1> QED
  BY <1>4, <1>5, <1>6 DEF WorkerInv

LEMMA PlaceNext ==
    ASSUME RoutingInv, [Next]_vars
    PROVE  PlaceInv'
<1> SUFFICES PostedInv' /\ WorkerInv'
  BY DEF PlaceInv, PostedInv, WorkerInv
<1>1. CASE UNCHANGED <<workflow, job, place, queue, direct, silent>>
  BY <1>1, QueueTypes DEF PostedInv, WorkerInv
<1>2. ASSUME NEW m \in Messages, MessageStep(m)
      PROVE  PostedInv' /\ WorkerInv'
  <2>1. Only(m)
    BY <1>2 DEF MessageStep
  <2>2. CASE \/ BeginStep(m)
             \/ DropStep(m)
             \/ \E q \in Queues : PassStep(m, q) \/ RefuseStep(m, q)
             \/ AnswerStep(m)
    <3>1. /\ place[m] \notin {"posted", "worker"} /\ place'[m] \notin {"posted", "worker"}
          /\ UNCHANGED <<workflow, job>>
      BY <2>2 DEF BeginStep, DropStep, PassStep, RefuseStep, AnswerStep
    <3> QED
      BY <2>1, <3>1, PostedKept, WorkerKept DEF Only
  <2>3. CASE \E q \in Queues : PostStep(m, q)
    BY <2>1, <2>3, PostedMore, WorkerKept DEF PostStep, Only
  <2>4. ASSUME NEW w \in Workers, TakeStep(m, w)
        PROVE  PostedInv' /\ WorkerInv'
    <3>1. QueueOf[w] \in Queues
      BY QueueTypes
    <3>2. PostedInv'
      BY <2>1, <2>4, <3>1, PostedLess DEF TakeStep, Only
    <3>3. CASE UNCHANGED job
      <4>1. m # NoMessage /\ job[w] = NoMessage /\ job' = job
        BY <2>4, <3>3, QueueTypes DEF TakeStep
      <4>2. place'[m] = "dropped" \/ job'[w] = m
        BY <2>4, QueueTypes DEF TakeStep
      <4> QED
        BY <2>1, <2>4, <3>2, <4>1, <4>2, WorkerKept DEF TakeStep, Only
    <3>4. CASE place'[m] = "worker" /\ job' = [job EXCEPT ![w] = m]
      BY <2>1, <2>4, <3>2, <3>4, WorkerMore DEF TakeStep
    <3> QED
      BY <2>4, <3>3, <3>4 DEF TakeStep
  <2>5. ASSUME NEW w \in Workers, GiveStep(m, w)
        PROVE  PostedInv' /\ WorkerInv'
    BY <2>1, <2>5, PostedKept, WorkerLess DEF GiveStep, Only
  <2> QED
    BY <1>2, <2>2, <2>3, <2>4, <2>5 DEF MessageStep
<1> QED
  BY <1>1, <1>2, Steps

-----------------------------------------------------------------------------
(* The invariant                                                           *)

LEMMA RoutingInit == Init => RoutingInv
<1> SUFFICES ASSUME Init PROVE RoutingInv
  OBVIOUS
<1>1. MaxMessages \in Nat /\ MaxConfigs \in Nat /\ MaxSize \in [Queues -> Nat \ {0}]
  BY QueueAssumption, BrokerAssumption
<1>2. TypeOK
  <2>1. NoCall \in Calls
    BY DEF NoCall, Calls
  <2>2. BrokerTypeOK
    <3>1. rules \in Seq(Rules)
      BY DEF Init, BrokerInit
    <3>2. gen \in 0 .. MaxConfigs
      BY <1>1 DEF Init, BrokerInit
    <3>3. pc \in [Sources -> {"idle", "lock", "loop", "route", "send"}] /\ call \in [Sources -> Calls]
      BY <2>1 DEF Init, BrokerInit
    <3> QED
      BY <3>1, <3>2, <3>3 DEF Init, BrokerInit, BrokerTypeOK
  <2>3. QueueTypeOK
    BY <1>1 DEF Init, QueueInit, QueueTypeOK, Places
  <2>4. /\ stage \in [Sources -> {"new", "up", "left"}]
        /\ \A q \in Queues : Len(workflow[q]) <= MaxSize[q]
    <3>1. \A q \in Queues : Len(workflow[q]) = 0 /\ MaxSize[q] \in Nat
      BY <1>1 DEF Init, QueueInit
    <3> QED
      BY <3>1 DEF Init
  <2> QED
    BY <2>2, <2>3, <2>4 DEF TypeOK
<1>3. CallInv
  BY DEF Init, BrokerInit, NoCall, CallInv
<1>4. \A s \in Sources : Sent(s) = 0
  <2> SUFFICES ASSUME NEW s \in Sources PROVE Sent(s) = 0
    OBVIOUS
  <2>1. \A n \in 1 .. MaxMessages : place[<<s, n>>] # "unsent" <=> n <= 0
    BY <1>1, MessageParts DEF Init, QueueInit
  <2> QED
    BY <1>1, <2>1, SentIs
<1>5. SentInv
  <2>1. \A s \in Sources : call[s].op # "perform_io"
    BY DEF Init, BrokerInit, NoCall
  <2>2. \A m \in Messages : place[m] = "unsent" /\ Sender(m) \in Sources
    BY MessageParts DEF Init, QueueInit, Sender
  <2> QED
    BY <1>1, <1>4, <2>1, <2>2, MessageParts DEF SentInv
<1>6. PlaceInv
  BY <1>1, QueueAssumption DEF Init, QueueInit, PlaceInv
<1> QED
  BY <1>2, <1>3, <1>5, <1>6 DEF RoutingInv

LEMMA RoutingNext == RoutingInv /\ [Next]_vars => RoutingInv'
BY RoutingTypeNext, CallNext, SentNext, PlaceNext DEF RoutingInv

LEMMA AlwaysRoutingInv == Spec => []RoutingInv
BY RoutingInit, RoutingNext, PTL DEF Spec

(***************************************************************************)
(* Every variable keeps its type, and no workflow grows over its maxsize,  *)
(* however many sources send and workers take (queue::perform_io).         *)
(***************************************************************************)
THEOREM RoutingTypeCorrect == Spec => []TypeOK
<1>1. RoutingInv => TypeOK
  BY DEF RoutingInv
<1> QED
  BY <1>1, AlwaysRoutingInv, PTL

(***************************************************************************)
(* A message under way is in one place: with its source, once in one       *)
(* workflow, or with one worker.                                           *)
(***************************************************************************)
THEOREM MessagesInOnePlace == Spec => []OnePlace
<1>1. RoutingInv => OnePlace
  <2> SUFFICES ASSUME RoutingInv, NEW m \in Messages
               PROVE
        LET waits == UNION {{<<q, i>> : i \in {j \in DOMAIN workflow[q] : workflow[q][j] = m}} :
                            q \in Queues}
            works == {w \in Workers : job[w] = m}
        IN /\ Cardinality(waits) = (IF place[m] = "posted" THEN 1 ELSE 0)
           /\ Cardinality(works) = (IF place[m] = "worker" THEN 1 ELSE 0)
           /\ \A x \in waits : x[1] = queue[m]
           /\ \A w \in works : QueueOf[w] = queue[m]
           /\ place[m] = "calling" <=>
                 call[Sender(m)].op = "perform_io" /\ Current(Sender(m)) = m
    BY DEF OnePlace
  <2> DEFINE waits == UNION {{<<q, i>> : i \in {j \in DOMAIN workflow[q] : workflow[q][j] = m}} :
                             q \in Queues}
             works == {w \in Workers : job[w] = m}
  <2>1. PostedInv /\ WorkerInv /\ m # NoMessage
    BY QueueTypes
  <2>2. \A q \in Queues : DOMAIN workflow[q] = 1 .. Len(workflow[q])
    BY QueueTypes
  <2>3. \A q, i : <<q, i>> \in waits <=>
          q \in Queues /\ i \in 1 .. Len(workflow[q]) /\ workflow[q][i] = m
    BY <2>2
  <2>4. \A x \in waits : x = <<x[1], x[2]>>
    OBVIOUS
  <2> HIDE DEF waits
  <2>5. Cardinality(waits) = (IF place[m] = "posted" THEN 1 ELSE 0)
    <3>1. CASE place[m] = "posted"
      <4>1. PICK i \in 1 .. Len(workflow[queue[m]]) : workflow[queue[m]][i] = m
        BY <2>1, <3>1 DEF PostedInv
      <4>2. <<queue[m], i>> \in waits
        BY <2>1, <2>3, <3>1, <4>1 DEF PostedInv
      <4>3. \A x \in waits : x[1] = queue[m] /\ x[2] = i
        BY <2>1, <2>3, <2>4, <4>1 DEF PostedInv
      <4>4. waits = {<<queue[m], i>>}
        BY <2>4, <4>2, <4>3
      <4> QED
        BY <3>1, <4>4, FS_Singleton
    <3>2. CASE place[m] # "posted"
      <4>1. waits = {}
        BY <2>1, <2>3, <2>4, <3>2 DEF PostedInv
      <4> QED
        BY <3>2, <4>1, FS_EmptySet
    <3> QED
      BY <3>1, <3>2
  <2>6. Cardinality(works) = (IF place[m] = "worker" THEN 1 ELSE 0)
    <3>1. CASE place[m] = "worker"
      <4>1. PICK w \in Workers : job[w] = m
        BY <2>1, <3>1 DEF WorkerInv
      <4>2. works = {w}
        BY <2>1, <4>1 DEF WorkerInv
      <4> QED
        BY <3>1, <4>2, FS_Singleton
    <3>2. CASE place[m] # "worker"
      <4>1. works = {}
        BY <2>1, <3>2 DEF WorkerInv
      <4> QED
        BY <3>2, <4>1, FS_EmptySet
    <3> QED
      BY <3>1, <3>2
  <2>7. \A x \in waits : x[1] = queue[m]
    BY <2>1, <2>3, <2>4 DEF PostedInv
  <2>8. \A w \in works : QueueOf[w] = queue[m]
    BY <2>1 DEF WorkerInv
  <2>9. place[m] = "calling" <=> call[Sender(m)].op = "perform_io" /\ Current(Sender(m)) = m
    BY DEF RoutingInv, SentInv
  <2> QED
    BY <2>5, <2>6, <2>7, <2>8, <2>9 DEF waits
<1> QED
  BY <1>1, AlwaysRoutingInv, PTL

-----------------------------------------------------------------------------
(* What is null                                                            *)

NullInv ==
    /\ paused \subseteq Suspended
    /\ NullNeverCalled

LEMMA PausedNext ==
    ASSUME [Next]_vars, paused \subseteq Suspended
    PROVE  paused' \subseteq Suspended
<1>1. ASSUME NEW s \in Sources, Connect(s) \/ Send(s) \/ Leave(s) \/ BrokerStep(s)
      PROVE  UNCHANGED paused
  <2>1. CASE LoopStep(s)
    BY <2>1 DEF LoopStep, RegIo, UnregIo, queueVars
  <2> QED
    BY <1>1, <2>1 DEF Connect, Send, Leave, BrokerStep, RouteStep, SendStep, PerformIo, queueVars
<1>2. CASE QueueStep
  <2>1. ASSUME NEW w \in Workers, Take(w) \/ Give(w) PROVE UNCHANGED paused
    BY <2>1 DEF Take, Give
  <2>2. ASSUME NEW m \in Messages, Answer(m) \/ CallHandler(m) PROVE UNCHANGED paused
    BY <2>2 DEF Answer, CallHandler
  <2>3. ASSUME NEW q \in Queues, SuspendQueue(q) PROVE paused' \subseteq Suspended
    BY <2>3 DEF SuspendQueue
  <2> QED
    BY <1>2, <2>1, <2>2, <2>3 DEF QueueStep
<1>3. CASE MainStep \/ UNCHANGED vars
  BY <1>3 DEF MainStep, vars, queueVars
<1> QED
  BY <1>1, <1>2, <1>3 DEF Next, Terminated

(***************************************************************************)
(* No null handler and no null target is called (queue::perform_io,        *)
(* make_handler_), if the queues that may be suspended have a target.      *)
(***************************************************************************)
THEOREM NullIsNotCalled ==
    ASSUME Suspended \subseteq Linked
    PROVE  Spec => []NullNeverCalled
<1>1. Init => NullInv
  BY DEF Init, QueueInit, NullInv, NullNeverCalled
<1>2. RoutingInv /\ NullInv /\ [Next]_vars => NullInv'
  <2> SUFFICES ASSUME RoutingInv, NullInv, [Next]_vars PROVE NullInv'
    OBVIOUS
  <2>1. paused' \subseteq Suspended
    BY PausedNext DEF NullInv
  <2>2. CASE UNCHANGED <<workflow, job, place, queue, direct, silent>>
    BY <2>1, <2>2 DEF NullInv, NullNeverCalled
  <2>3. ASSUME NEW m \in Messages, MessageStep(m) PROVE NullNeverCalled'
    <3>1. \A l \in Messages \ {m} :
            /\ place'[l] # "null"
            /\ l \in silent' => place'[l] \notin {"callback", "answered", "refused"}
      <4>1. silent' \in {silent, silent \cup {m}}
        BY <2>3 DEF MessageStep, BeginStep, DropStep, PostStep, PassStep, RefuseStep,
                    TakeStep, GiveStep, AnswerStep
      <4>2. Only(m)
        BY <2>3 DEF MessageStep
      <4> QED
        BY <4>1, <4>2 DEF NullInv, NullNeverCalled, Only
    <3>2. ASSUME NEW q \in Queues, PassStep(m, q) PROVE place'[m] = "target"
      BY <3>2 DEF PassStep, NullInv
    <3>3. /\ place'[m] # "null"
          /\ m \in silent' => place'[m] \notin {"callback", "answered", "refused"}
      <4>1. CASE BeginStep(m) \/ DropStep(m)
        BY <4>1 DEF BeginStep, DropStep
      <4>2. CASE \E q \in Queues : PostStep(m, q) \/ PassStep(m, q) \/ RefuseStep(m, q)
        BY <3>2, <4>2 DEF PostStep, RefuseStep
      <4>3. CASE \E w \in Workers : TakeStep(m, w) \/ GiveStep(m, w)
        BY <4>3 DEF TakeStep, GiveStep
      <4>4. CASE AnswerStep(m)
        BY <4>4 DEF AnswerStep, NullInv, NullNeverCalled
      <4> QED
        BY <2>3, <4>1, <4>2, <4>3, <4>4 DEF MessageStep
    <3> QED
      BY <3>1, <3>3 DEF NullNeverCalled
  <2> QED
    BY <2>1, <2>2, <2>3, Steps DEF NullInv
<1>3. NullInv => NullNeverCalled
  BY DEF NullInv
<1> QED
  BY <1>1, <1>2, <1>3, AlwaysRoutingInv, PTL DEF Spec

-----------------------------------------------------------------------------
(* Order                                                                   *)

\* If m and l are messages of the same source, then m was sent first.
Before(m, l) == Sender(m) = Sender(l) => m[2] < l[2]

\* The messages of a source wait in the order they were sent, and behind those
\* of them that the workers of the queue have taken.
FifoInv ==
    /\ \A q \in Queues : \A i, j \in 1 .. Len(workflow[q]) :
         i < j => Before(workflow[q][i], workflow[q][j])
    /\ \A w \in Workers : \A i \in 1 .. Len(workflow[QueueOf[w]]) :
         job[w] # NoMessage => Before(job[w], workflow[QueueOf[w]][i])

\* What was sent is before a message that is in the hands of its source.
LEMMA LastSent ==
    ASSUME RoutingInv, NEW m \in Messages, place[m] = "calling",
           NEW l \in Messages \ {m}, place[l] # "unsent"
    PROVE  Before(l, m)
<1> SUFFICES ASSUME Sender(l) = Sender(m) PROVE l[2] < m[2]
  BY DEF Before
<1> DEFINE s == Sender(m)
<1>1. /\ s \in Sources /\ l[2] \in 1 .. MaxMessages /\ m[2] \in 1 .. MaxMessages
      /\ m = <<s, m[2]>> /\ l = <<s, l[2]>> /\ l[2] # m[2]
  BY MessageParts DEF Sender
<1>2. Current(s) = m
  BY DEF RoutingInv, SentInv
<1>3. Sent(s) = m[2]
  BY <1>1, <1>2 DEF Current
<1>4. l[2] <= Sent(s)
  BY <1>1 DEF RoutingInv, SentInv
<1> QED
  BY <1>1, <1>3, <1>4, QueueAssumption

LEMMA FifoMore ==
    ASSUME RoutingInv, FifoInv, NEW q \in Queues, NEW m \in Messages, PostStep(m, q)
    PROVE  FifoInv'
<1> DEFINE f == workflow[q]
           k == Len(f) + 1
<1>1. f \in Seq(Messages) /\ PostedInv /\ WorkerInv
  BY QueueTypes
<1>2. /\ Append(f, m) \in Seq(Messages)
      /\ Len(f) \in Nat /\ Len(Append(f, m)) = k
      /\ \A i \in 1 .. Len(f) : Append(f, m)[i] = f[i]
      /\ Append(f, m)[k] = m
  BY <1>1, Appended
<1>3. /\ workflow'[q] = Append(f, m)
      /\ \A r \in Queues \ {q} : workflow'[r] = workflow[r]
      /\ job' = job
  BY QueueTypes DEF PostStep
<1>4. \A i \in 1 .. Len(f) : Before(f[i], m)
  <2> SUFFICES ASSUME NEW i \in 1 .. Len(f) PROVE Before(f[i], m)
    OBVIOUS
  <2>1. f[i] \in Messages /\ place[f[i]] = "posted"
    BY <1>1, QueueTypes DEF PostedInv
  <2>2. f[i] # m
    BY <2>1 DEF PostStep
  <2> QED
    BY <2>1, <2>2, LastSent DEF PostStep
<1>5. \A w \in Workers : job[w] # NoMessage => Before(job[w], m)
  <2> SUFFICES ASSUME NEW w \in Workers, job[w] # NoMessage PROVE Before(job[w], m)
    OBVIOUS
  <2>1. job[w] \in Messages /\ place[job[w]] = "worker"
    BY <1>1, QueueTypes DEF WorkerInv
  <2> QED
    BY <2>1, LastSent DEF PostStep
<1> HIDE DEF f, k
<1>6. /\ Len(workflow'[q]) = k
      /\ workflow'[q][k] = m
      /\ \A i \in 1 .. k : i # k => i \in 1 .. Len(f) /\ workflow'[q][i] = f[i]
  BY <1>2, <1>3 DEF k
<1>7. ASSUME NEW r \in Queues, NEW i \in 1 .. Len(workflow'[r]), NEW j \in 1 .. Len(workflow'[r]),
             i < j
      PROVE  Before(workflow'[r][i], workflow'[r][j])
  <2>1. CASE r = q
    <3>1. i # k
      BY <1>2, <1>6, <1>7, <2>1 DEF k
    <3>2. CASE j = k
      BY <1>4, <1>6, <2>1, <3>1, <3>2
    <3>3. CASE j # k
      BY <1>6, <1>7, <2>1, <3>1, <3>3 DEF FifoInv, f
    <3> QED
      BY <3>2, <3>3
  <2>2. CASE r # q
    BY <1>3, <1>7, <2>2 DEF FifoInv
  <2> QED
    BY <2>1, <2>2
<1>8. ASSUME NEW w \in Workers, NEW i \in 1 .. Len(workflow'[QueueOf[w]]), job'[w] # NoMessage
      PROVE  Before(job'[w], workflow'[QueueOf[w]][i])
  <2>1. QueueOf[w] \in Queues
    BY QueueTypes
  <2>2. CASE QueueOf[w] = q
    <3>1. CASE i = k
      BY <1>3, <1>5, <1>6, <1>8, <2>2, <3>1
    <3>2. CASE i # k
      BY <1>3, <1>6, <1>8, <2>2, <3>2 DEF FifoInv, f
    <3> QED
      BY <3>1, <3>2
  <2>3. CASE QueueOf[w] # q
    BY <1>3, <1>8, <2>1, <2>3 DEF FifoInv
  <2> QED
    BY <2>2, <2>3
<1> QED
  BY <1>7, <1>8 DEF FifoInv, Before, Sender

LEMMA FifoLess ==
    ASSUME RoutingInv, FifoInv, NEW w \in Workers, NEW m \in Messages, TakeStep(m, w)
    PROVE  FifoInv'
<1> DEFINE q == QueueOf[w]
           f == workflow[q]
<1>1. f \in Seq(Messages) /\ f # <<>> /\ m = Head(f) /\ q \in Queues
  BY QueueTypes DEF TakeStep
<1>2. /\ Tail(f) \in Seq(Messages) /\ m = f[1] /\ m \in Messages
      /\ Len(f) \in Nat /\ Len(f) > 0 /\ Len(Tail(f)) = Len(f) - 1
      /\ \A i \in 1 .. Len(f) - 1 : Tail(f)[i] = f[i + 1]
  BY <1>1, Taken
<1>3. /\ workflow'[q] = Tail(f)
      /\ \A r \in Queues \ {q} : workflow'[r] = workflow[r]
      /\ \A v \in Workers : job'[v] = job[v] \/ (v = w /\ job'[v] = m)
  BY <1>1, QueueTypes DEF TakeStep
<1>4. \A i, j \in 1 .. Len(f) : i < j => Before(f[i], f[j])
  BY <1>1 DEF FifoInv
<1>5. \A v \in Workers : \A i \in 1 .. Len(f) :
        QueueOf[v] = q /\ job[v] # NoMessage => Before(job[v], f[i])
  BY DEF FifoInv
<1>6. w \in Workers /\ QueueOf[w] = q
  OBVIOUS
<1>7. \A r \in Queues \ {q} : \A i, j \in 1 .. Len(workflow[r]) :
        i < j => Before(workflow[r][i], workflow[r][j])
  BY DEF FifoInv
<1> HIDE DEF f, q
<1>8. /\ Len(workflow'[q]) = Len(f) - 1
      /\ \A i \in 1 .. Len(f) - 1 :
           /\ i + 1 \in 1 .. Len(f) /\ 1 \in 1 .. Len(f) /\ 1 < i + 1
           /\ workflow'[q][i] = f[i + 1]
  <2>1. \A i \in 1 .. Len(f) - 1 : i + 1 \in 1 .. Len(f) /\ 1 \in 1 .. Len(f) /\ 1 < i + 1
    BY <1>2
  <2> QED
    BY <1>2, <1>3, <2>1
<1>9. ASSUME NEW r \in Queues, NEW i \in 1 .. Len(workflow'[r]), NEW j \in 1 .. Len(workflow'[r]),
             i < j
      PROVE  Before(workflow'[r][i], workflow'[r][j])
  <2>1. CASE r = q
    <3>1. i \in 1 .. Len(f) - 1 /\ j \in 1 .. Len(f) - 1
      BY <1>8, <2>1
    <3>2. i + 1 < j + 1
      BY <1>2, <1>9, <3>1
    <3> QED
      BY <1>4, <1>8, <2>1, <3>1, <3>2
  <2>2. CASE r # q
    BY <1>3, <1>7, <1>9, <2>2
  <2> QED
    BY <2>1, <2>2
<1>10. ASSUME NEW v \in Workers, NEW i \in 1 .. Len(workflow'[QueueOf[v]]), job'[v] # NoMessage
       PROVE  Before(job'[v], workflow'[QueueOf[v]][i])
  <2>1. QueueOf[v] \in Queues
    BY QueueTypes
  <2>2. CASE QueueOf[v] = q
    <3>1. i \in 1 .. Len(f) - 1 /\ workflow'[QueueOf[v]][i] = f[i + 1]
      BY <1>8, <2>2
    <3>2. CASE job'[v] = job[v]
      BY <1>5, <1>8, <1>10, <2>2, <3>1, <3>2
    <3>3. CASE job'[v] = m
      BY <1>2, <1>4, <1>8, <3>1, <3>3
    <3> QED
      BY <1>3, <3>2, <3>3
  <2>3. CASE QueueOf[v] # q
    BY <1>3, <1>6, <1>10, <2>1, <2>3 DEF FifoInv
  <2> QED
    BY <2>2, <2>3
<1> QED
  BY <1>9, <1>10 DEF FifoInv, Before, Sender

LEMMA FifoNext ==
    ASSUME RoutingInv, FifoInv, [Next]_vars
    PROVE  FifoInv'
<1>1. CASE UNCHANGED <<workflow, job>>
  BY <1>1 DEF FifoInv, Before, Sender
<1>2. ASSUME NEW m \in Messages, MessageStep(m)
      PROVE  FifoInv'
  <2>1. CASE \/ BeginStep(m)
             \/ DropStep(m)
             \/ \E q \in Queues : PassStep(m, q) \/ RefuseStep(m, q)
             \/ AnswerStep(m)
    BY <1>1, <2>1 DEF BeginStep, DropStep, PassStep, RefuseStep, AnswerStep
  <2>2. ASSUME NEW w \in Workers, GiveStep(m, w)
        PROVE  FifoInv'
    <3>1. /\ workflow' = workflow
          /\ \A v \in Workers : job'[v] # NoMessage => job'[v] = job[v]
      BY <2>2, QueueTypes DEF GiveStep
    <3> QED
      BY <3>1 DEF FifoInv, Before, Sender
  <2> QED
    BY <1>2, <2>1, <2>2, FifoMore, FifoLess DEF MessageStep
<1> QED
  BY <1>1, <1>2, Steps

\* Queue q has one thread.
Single(q) == Cardinality({w \in Workers : QueueOf[w] = q}) = 1

LEMMA SingleWorker ==
    ASSUME NEW q, Single(q), NEW v \in Workers, NEW w \in Workers,
           QueueOf[v] = q, QueueOf[w] = q
    PROVE  v = w
<1> DEFINE S == {u \in Workers : QueueOf[u] = q}
<1>1. IsFiniteSet(S)
  BY RoutingAssumption, FS_Subset
<1>2. PICK x : S = {x}
  BY <1>1, FS_Singleton DEF Single
<1> QED
  BY <1>2

\* InOrder for two messages.
Ordered(m, l) ==
    /\ Sender(m) = Sender(l) /\ m[2] < l[2]
    /\ queue[m] = queue[l]
    /\ Single(queue[m])
    /\ l \notin direct
    /\ place[l] \in {"target", "callback", "answered"}
    => place[m] \notin {"posted", "worker"}

LEMMA InOrderIs == InOrder <=> \A m, l \in Messages : Ordered(m, l)
<1>1. ASSUME InOrder, NEW m \in Messages, NEW l \in Messages PROVE Ordered(m, l)
  <2>1. /\ m[1] \in Sources /\ m[2] \in 1 .. MaxMessages /\ m = <<m[1], m[2]>>
        /\ l[2] \in 1 .. MaxMessages /\ l = <<l[1], l[2]>>
    BY MessageParts
  <2> QED
    BY <1>1, <2>1 DEF InOrder, Ordered, Single, Sender
<1>2. ASSUME \A m, l \in Messages : Ordered(m, l) PROVE InOrder
  <2> SUFFICES ASSUME NEW s \in Sources, NEW n \in 1 .. MaxMessages, NEW k \in 1 .. MaxMessages,
                      n < k, queue[<<s, n>>] = queue[<<s, k>>],
                      Cardinality({w \in Workers : QueueOf[w] = queue[<<s, n>>]}) = 1,
                      <<s, k>> \notin direct,
                      place[<<s, k>>] \in {"target", "callback", "answered"}
               PROVE  place[<<s, n>>] \notin {"posted", "worker"}
    BY DEF InOrder
  <2>1. Ordered(<<s, n>>, <<s, k>>)
    BY <1>2, MessageParts
  <2> QED
    BY <2>1 DEF Ordered, Single, Sender
<1> QED
  BY <1>1, <1>2

LEMMA OrderNext ==
    ASSUME RoutingInv, FifoInv, InOrder, [Next]_vars
    PROVE  InOrder'
<1>1. \A m, l \in Messages : Ordered(m, l)
  BY InOrderIs
<1>2. SUFFICES ASSUME NEW m \in Messages, NEW l \in Messages
               PROVE  Ordered(m, l)'
  <2>1. (\A m, l \in Messages : Ordered(m, l))' => InOrder'
    BY DEF InOrder, Ordered, Single, Sender, Messages
  <2> QED
    BY <2>1
<1>3. SUFFICES ASSUME Sender(m) = Sender(l), m[2] < l[2],
                      queue'[m] = queue'[l], Single(queue'[m]),
                      l \notin direct',
                      place'[l] \in {"target", "callback", "answered"},
                      place'[m] \in {"posted", "worker"}
               PROVE  FALSE
  BY DEF Ordered, Single, Sender
<1>4. m # l /\ m[2] \in Nat /\ l[2] \in Nat
  BY <1>3, MessageParts, QueueAssumption
<1>5. ASSUME queue[m] = queue'[m], queue[l] = queue'[l], l \notin direct,
             place[l] \in {"target", "callback", "answered"}, place[m] \in {"posted", "worker"}
      PROVE  FALSE
  BY <1>1, <1>3, <1>5 DEF Ordered
<1>6. CASE UNCHANGED <<workflow, job, place, queue, direct, silent>>
  BY <1>3, <1>5, <1>6
<1>7. ASSUME NEW x \in Messages, MessageStep(x)
      PROVE  FALSE
  <2>1. Only(x) /\ l \notin direct
    BY <1>3, <1>7 DEF MessageStep, BeginStep, DropStep, PostStep, PassStep, RefuseStep,
                      TakeStep, GiveStep, AnswerStep
  <2>2. CASE x # m /\ x # l
    BY <1>3, <1>5, <2>1, <2>2 DEF Only
  <2>3. CASE x = m
    <3>1. place'[l] = place[l] /\ queue'[l] = queue[l]
      BY <1>4, <2>1, <2>3 DEF Only
    <3>2. CASE \E q \in Queues : PostStep(m, q)
      <4>1. place[m] = "calling" /\ place[l] # "unsent"
        BY <1>3, <3>1, <3>2 DEF PostStep
      <4>2. Before(l, m)
        BY <1>4, <4>1, LastSent
      <4> QED
        BY <1>3, <1>4, <4>2 DEF Before
    <3>3. CASE \E w \in Workers : TakeStep(m, w)
      BY <1>3, <1>5, <2>1, <3>1, <3>3 DEF TakeStep
    <3> QED
      BY <1>3, <1>7, <2>3, <3>2, <3>3 DEF MessageStep, BeginStep, DropStep, PassStep, RefuseStep,
                                          GiveStep, AnswerStep
  <2>4. CASE x = l
    <3>1. place'[m] = place[m] /\ queue'[m] = queue[m]
      BY <1>4, <2>1, <2>4 DEF Only
    <3>2. CASE AnswerStep(l)
      BY <1>3, <1>5, <2>1, <3>1, <3>2 DEF AnswerStep
    <3>3. ASSUME NEW w \in Workers, GiveStep(l, w) PROVE FALSE
      <4>1. /\ job[w] = l /\ queue[l] = QueueOf[w] /\ queue[m] = QueueOf[w]
            /\ Single(QueueOf[w])
        BY <1>3, <3>1, <3>3 DEF GiveStep
      <4>2. CASE place[m] = "posted"
        <5>1. PICK i \in 1 .. Len(workflow[QueueOf[w]]) : workflow[QueueOf[w]][i] = m
          BY <4>1, <4>2, QueueTypes DEF PostedInv
        <5>2. Before(l, m)
          BY <4>1, <5>1, QueueTypes DEF FifoInv
        <5> QED
          BY <1>3, <1>4, <5>2 DEF Before
      <4>3. CASE place[m] = "worker"
        <5>1. PICK v \in Workers : job[v] = m
          BY <4>3, QueueTypes DEF WorkerInv
        <5>2. QueueOf[v] = QueueOf[w]
          BY <4>1, <5>1, QueueTypes DEF WorkerInv
        <5> QED
          BY <1>4, <4>1, <5>1, <5>2, SingleWorker
      <4> QED
        BY <1>3, <3>1, <4>2, <4>3
    <3>4. place[l] # "calling" \/ place'[l] \notin {"target", "callback", "answered"} \/ l \in direct'
      BY <1>7, <2>4 DEF MessageStep, BeginStep, DropStep, PostStep, PassStep, RefuseStep,
                        TakeStep, GiveStep, AnswerStep
    <3> QED
      BY <1>3, <1>7, <2>4, <3>2, <3>3, <3>4 DEF MessageStep, BeginStep, DropStep, PostStep,
                                                PassStep, RefuseStep, TakeStep
  <2> QED
    BY <2>2, <2>3, <2>4
<1> QED
  BY <1>6, <1>7, Steps

(***************************************************************************)
(* A queue with one thread gives the messages of a source to its target in *)
(* the order they were sent (the workflow of queue::perform_io).           *)
(***************************************************************************)
THEOREM MessagesInOrder == Spec => []InOrder
<1>1. Init => FifoInv /\ InOrder
  <2> SUFFICES ASSUME Init PROVE FifoInv /\ InOrder
    OBVIOUS
  <2>1. FifoInv
    BY QueueAssumption DEF Init, QueueInit, FifoInv
  <2>2. \A m, l \in Messages : Ordered(m, l)
    BY DEF Init, QueueInit, Ordered
  <2> QED
    BY <2>1, <2>2, InOrderIs
<1>2. RoutingInv /\ FifoInv /\ InOrder /\ [Next]_vars => FifoInv' /\ InOrder'
  BY FifoNext, OrderNext
<1> QED
  BY <1>1, <1>2, AlwaysRoutingInv, PTL DEF Spec

-----------------------------------------------------------------------------
(* Registrations                                                           *)

\* The queues where it matters who is registered.
Watched == Linked \cup Tracking

RuleTargets(r) == {r[i].target : i \in DOMAIN r}

\* What RegistrationsFollow needs: a watched queue that a configuration names
\* anywhere is the target of a rule in each of them.
SameTargetsNamed ==
    \A c, d \in Configs : \A q \in Watched :
        q = c.target \/ q \in RuleTargets(c.rules) => q \in RuleTargets(d.rules)

\* The watched queues that the configurations name.
Common ==
    {q \in Watched : \E c \in Configs : q = c.target \/ q \in RuleTargets(c.rules)}

InRest(q, f) == \E i \in 1 .. Len(f) : f[i] = q

\* From the first configuration on the broker knows these queues, and there are
\* no sources before.
TargetsInv ==
    /\ main = "running" => gen > 0
    /\ \A s \in Sources : stage[s] # "new" => gen > 0
    /\ gen > 0 => \A q \in Watched :
                    /\ q \in RuleTargets(rules) <=> q \in Common
                    /\ q = default => q \in Common

\* Messages go to these queues, or to queues that are not watched.
ToInv ==
    /\ \A s \in Sources : pc[s] = "send" /\ call[s].to \in Watched => call[s].to \in Common
    /\ \A m \in Messages : place[m] = "posted" /\ queue[m] \in Watched => queue[m] \in Common

\* Where s is registered, and who has heard of its leaving, before, in and after
\* the loops of reg_io and unreg_io.
SourceInv(s) ==
    /\ \A q \in Queues : s \in registered[q] => q \in Common
    /\ \A q \in Queues : s \in gone[q] => stage[s] = "left"
    /\ stage[s] = "new" => \A q \in Queues : s \notin registered[q]
    /\ stage[s] = "up" /\ call[s].op # "reg_io" =>
         \A q \in Common \cap Linked : s \in registered[q]
    /\ stage[s] = "left" /\ call[s].op = "none" =>
         /\ \A q \in Queues : s \notin registered[q]
         /\ \A q \in Common : s \in gone[q]
    /\ pc[s] = "loop" =>
         /\ \A q \in Watched : InRest(q, call[s].rest) => q \in Common
         /\ call[s].op = "reg_io" =>
              \A q \in Common \cap Linked : s \in registered[q] \/ InRest(q, call[s].rest)
         /\ call[s].op = "unreg_io" =>
              /\ \A q \in Queues : s \in registered[q] => InRest(q, call[s].rest)
              /\ \A q \in Common : s \in gone[q] \/ InRest(q, call[s].rest)

RegisteredInv == TargetsInv /\ ToInv /\ \A s \in Sources : SourceInv(s)

LEMMA CommonIs ==
    ASSUME SameTargetsNamed
    PROVE  /\ Common \subseteq Queues
           /\ NoObject \notin Common
           /\ \A d \in Configs : \A q \in Watched :
                /\ q \in RuleTargets(d.rules) <=> q \in Common
                /\ q = d.target => q \in Common
<1>1. Watched \subseteq Queues /\ NoObject \notin Queues
  BY QueueAssumption, InterfaceAssumption, RoutingAssumption DEF Watched
<1> QED
  BY <1>1 DEF SameTargetsNamed, Common

LEMMA RestTail ==
    ASSUME NEW S, NEW f \in Seq(S), f # <<>>, NEW q
    PROVE  InRest(q, f) <=> q = Head(f) \/ InRest(q, Tail(f))
<1>1. /\ Head(f) = f[1] /\ Len(f) \in Nat /\ Len(f) > 0 /\ Len(Tail(f)) = Len(f) - 1
      /\ \A i \in 1 .. Len(f) - 1 : Tail(f)[i] = f[i + 1]
  OBVIOUS
<1>2. ASSUME InRest(q, f) PROVE q = Head(f) \/ InRest(q, Tail(f))
  <2>1. PICK i \in 1 .. Len(f) : f[i] = q
    BY <1>2 DEF InRest
  <2>2. CASE i = 1
    BY <1>1, <2>1, <2>2
  <2>3. CASE i # 1
    <3>1. i - 1 \in 1 .. Len(f) - 1 /\ (i - 1) + 1 = i
      BY <1>1, <2>1, <2>3
    <3> QED
      BY <1>1, <2>1, <3>1 DEF InRest
  <2> QED
    BY <2>2, <2>3
<1>3. ASSUME q = Head(f) PROVE InRest(q, f)
  <2>1. 1 \in 1 .. Len(f)
    BY <1>1
  <2> QED
    BY <1>1, <1>3, <2>1 DEF InRest
<1>4. ASSUME InRest(q, Tail(f)) PROVE InRest(q, f)
  <2>1. PICK i \in 1 .. Len(f) - 1 : Tail(f)[i] = q
    BY <1>1, <1>4 DEF InRest
  <2>2. i + 1 \in 1 .. Len(f) /\ f[i + 1] = q
    BY <1>1, <2>1
  <2> QED
    BY <2>2 DEF InRest
<1> QED
  BY <1>2, <1>3, <1>4

LEMMA TargetsNext ==
    ASSUME RoutingInv, TargetsInv, SameTargetsNamed, [Next]_vars
    PROVE  TargetsInv'
<1>1. gen \in Nat /\ opt \in Configs
  BY BrokerAssumption DEF RoutingInv, TypeOK, BrokerTypeOK
<1>2. ASSUME NEW s \in Sources, Connect(s) \/ Send(s) \/ Leave(s) \/ BrokerStep(s)
      PROVE  TargetsInv'
  <2>1. UNCHANGED <<rules, default, main, gen>>
    <3>1. UNCHANGED <<rules, default>>
      BY <1>2 DEF Connect, Send, Leave, Call, BrokerStep, ReadLock, LoopStep, NextTarget,
                  EndLoop, RouteStep, FindTarget, SendStep, SendOn, Return, brokerVars
    <3> QED
      BY <1>2, <3>1, CallEffect
  <2>2. /\ \A r \in Sources \ {s} : stage'[r] = stage[r]
        /\ stage'[s] = stage[s] \/ stage[s] # "new" \/ main = "running"
    <3>1. Connect(s) => main = "running"
      BY DEF Connect
    <3>2. Leave(s) => stage[s] # "new"
      BY DEF Leave
    <3> QED
      BY <1>2, <3>1, <3>2, CallEffect
  <2> QED
    BY <2>1, <2>2 DEF TargetsInv
<1>3. CASE MainStep
  <2>1. CASE Replace
    <3>1. /\ rules' = opt.rules /\ default' = opt.target /\ gen' = gen + 1 /\ gen' > 0
          /\ UNCHANGED stage
      BY <1>1, <1>3, <2>1 DEF Replace, MainStep
    <3> QED
      BY <1>1, <3>1, CommonIs DEF TargetsInv
  <2>2. CASE Restart \/ SuspendBroker
    BY <1>3, <2>2 DEF Restart, SuspendBroker, MainStep, TargetsInv
  <2> QED
    BY <1>3, <2>1, <2>2 DEF MainStep
<1>4. CASE QueueStep \/ UNCHANGED vars
  <2>1. UNCHANGED <<brokerVars, stage>>
    BY <1>4 DEF QueueStep, vars
  <2> QED
    BY <2>1 DEF brokerVars, TargetsInv
<1> QED
  BY <1>2, <1>3, <1>4 DEF Next, Terminated

LEMMA ToNext ==
    ASSUME RoutingInv, TargetsInv, ToInv, SameTargetsNamed, [Next]_vars
    PROVE  ToInv'
<1>1. \A s \in Sources : pc'[s] = "send" /\ call'[s].to \in Watched => call'[s].to \in Common
  <2>1. ASSUME NEW s \in Sources, Connect(s) \/ Send(s) \/ Leave(s) \/ BrokerStep(s)
        PROVE  \A r \in Sources : pc'[r] = "send" =>
                  \/ pc[r] = "send" /\ call'[r].to = call[r].to
                  \/ /\ stage[r] = "up" /\ call'[r].to \in Reached
    <3>1. rules \in Seq(Rules)
      BY DEF RoutingInv, TypeOK, BrokerTypeOK
    <3>2. pc[s] = "route" => stage[s] = "up"
      BY DEF RoutingInv, CallInv
    <3>3. pc'[s] = "send" => stage[s] = "up" /\ call'[s].to \in Reached
      BY <2>1, <3>1, <3>2, CallEffect, RouteReached
    <3> QED
      BY <2>1, <3>3, CallEffect
  <2>2. CASE MainStep \/ QueueStep \/ UNCHANGED vars
    BY <2>2 DEF MainStep, Restart, Replace, SuspendBroker, QueueStep, vars, callVars, ToInv
  <2>3. \A s \in Sources, q \in Watched : stage[s] = "up" /\ q \in Reached => q \in Common
    BY DEF TargetsInv, Reached, RuleTargets
  <2>4. ASSUME NEW s \in Sources, Connect(s) \/ Send(s) \/ Leave(s) \/ BrokerStep(s)
        PROVE  \A r \in Sources :
                  pc'[r] = "send" /\ call'[r].to \in Watched => call'[r].to \in Common
    BY <2>1, <2>3, <2>4 DEF ToInv
  <2> QED
    BY <2>2, <2>4 DEF Next, Terminated
<1>2. \A m \in Messages : place'[m] = "posted" /\ queue'[m] \in Watched => queue'[m] \in Common
  <2>1. CASE UNCHANGED <<workflow, job, place, queue, direct, silent>>
    BY <2>1 DEF ToInv
  <2>2. ASSUME NEW m \in Messages, MessageStep(m)
        PROVE  place'[m] = "posted" /\ queue'[m] \in Watched => queue'[m] \in Common
    BY <2>2 DEF MessageStep, BeginStep, DropStep, PostStep, PassStep, RefuseStep, TakeStep,
                GiveStep, AnswerStep, ToInv
  <2>3. ASSUME NEW m \in Messages, MessageStep(m)
        PROVE  \A l \in Messages \ {m} :
                 place'[l] = "posted" /\ queue'[l] \in Watched => queue'[l] \in Common
    BY <2>3 DEF MessageStep, Only, ToInv
  <2> QED
    BY <2>1, <2>2, <2>3, Steps
<1> QED
  BY <1>1, <1>2 DEF ToInv

\* Nothing happens to the call of r nor to its registration.
LEMMA SourceKept ==
    ASSUME NEW r \in Sources, SourceInv(r),
           pc'[r] = pc[r], call'[r] = call[r], stage'[r] = stage[r],
           \A q \in Queues : /\ r \in registered'[q] <=> r \in registered[q]
                             /\ r \in gone'[q] <=> r \in gone[q],
           SameTargetsNamed
    PROVE  SourceInv(r)'
<1>1. Common \subseteq Queues
  BY CommonIs
<1> QED
  BY <1>1 DEF SourceInv, InRest

\* Every queue that matters is in the loop at its beginning.
LEMMA LoopBegins ==
    ASSUME RoutingInv, RegisteredInv, SameTargetsNamed, NEW s \in Sources, ReadLock(s),
           UNCHANGED <<queueVars, stage>>
    PROVE  SourceInv(s)'
<1>1. SourceInv(s) /\ Common \subseteq Queues /\ Common \subseteq Watched
  BY CommonIs DEF RegisteredInv, Common
<1>2. /\ call \in [Sources -> Calls]
      /\ pc \in [Sources -> {"idle", "lock", "loop", "route", "send"}]
      /\ rules \in Seq(Rules)
      /\ pc[s] = "lock"
      /\ DOMAIN call[s] = {"op", "rest", "data", "to"}
  BY DEF RoutingInv, TypeOK, BrokerTypeOK, ReadLock, Calls
<1>3. CASE call[s].op = "perform_io"
  <2>1. pc'[s] = "route" /\ call' = call
    BY <1>2, <1>3 DEF ReadLock
  <2>2. UNCHANGED <<registered, gone, stage>>
    BY DEF queueVars
  <2>3. stage[s] = "up"
    BY <1>3 DEF RoutingInv, CallInv
  <2> QED
    BY <1>1, <1>3, <2>1, <2>2, <2>3 DEF SourceInv
<1>4. CASE call[s].op # "perform_io"
  <2> DEFINE f == [i \in DOMAIN rules |-> rules[i].target]
  <2>1. pc'[s] = "loop" /\ call'[s] = [call[s] EXCEPT !.rest = f]
    BY <1>2, <1>4 DEF ReadLock
  <2>2. call'[s].rest = f /\ call'[s].op = call[s].op
    BY <1>2, <2>1
  <2>3. Len(f) = Len(rules) /\ DOMAIN rules = 1 .. Len(rules)
    BY <1>2
  <2>4. \A q : InRest(q, f) <=> q \in RuleTargets(rules)
    BY <2>3 DEF InRest, RuleTargets
  <2>5. call[s].op # "none"
    BY <1>2 DEF RoutingInv, CallInv
  <2>6. call[s].op \in Ops \cup {"none"}
    BY InCall
  <2>7. call[s].op \in {"reg_io", "unreg_io"}
    BY <1>4, <2>5, <2>6 DEF Ops
  <2>8. stage[s] \in {"up", "left"} /\ (stage[s] = "up" <=> call[s].op = "reg_io")
    BY <2>7 DEF RoutingInv, CallInv
  <2>9. \A q \in Watched : q \in RuleTargets(rules) <=> q \in Common
    BY <2>8 DEF RegisteredInv, TargetsInv
  <2> HIDE DEF f
  <2>10. \A q \in Watched : InRest(q, call'[s].rest) <=> q \in Common
    BY <2>2, <2>4, <2>9
  <2>11. UNCHANGED <<registered, gone, stage>>
    BY DEF queueVars
  <2>12. \A q \in Common : InRest(q, call'[s].rest)
    BY <1>1, <2>10
  <2>13. \A q \in Queues : s \in registered[q] => q \in Common
    BY <1>1 DEF SourceInv
  <2> QED
    BY <1>1, <2>1, <2>2, <2>5, <2>7, <2>8, <2>10, <2>11, <2>12, <2>13 DEF SourceInv
<1> QED
  BY <1>3, <1>4

\* One target less in the loop: it is registered with it, or taken off it.
LEMMA LoopGoesOn ==
    ASSUME RoutingInv, RegisteredInv, SameTargetsNamed, NEW s \in Sources, LoopStep(s)
    PROVE  \A r \in Sources : SourceInv(r)'
<1> DEFINE q == Head(call[s].rest)
<1>1. /\ \A r \in Sources : SourceInv(r)
      /\ Common \subseteq Queues /\ Common \subseteq Watched /\ NoObject \notin Common
      /\ Linked \subseteq Queues /\ Linked \subseteq Watched
  BY CommonIs, QueueAssumption DEF RegisteredInv, Common, Watched
<1>2. /\ call \in [Sources -> Calls]
      /\ DOMAIN call[s] = {"op", "rest", "data", "to"}
      /\ registered \in [Queues -> SUBSET Sources]
      /\ gone \in [Queues -> SUBSET Sources]
      /\ NoObject \notin Queues
  BY TargetType DEF RoutingInv, TypeOK, BrokerTypeOK, QueueTypeOK, Calls
<1>3. /\ pc[s] = "loop" /\ call[s].rest # <<>>
      /\ call' = [call EXCEPT ![s].rest = Tail(call[s].rest)]
      /\ UNCHANGED <<pc, stage>>
  BY DEF LoopStep, NextTarget
<1>4. call'[s].rest = Tail(call[s].rest) /\ call'[s].op = call[s].op
  BY <1>2, <1>3
<1>5. call[s].rest \in Seq(Queues \cup {NoObject}) /\ q \in Queues \cup {NoObject}
  BY <1>3, InCall
<1>6. \A t : InRest(t, call[s].rest) <=> t = q \/ InRest(t, call'[s].rest)
  BY <1>3, <1>4, <1>5, RestTail
<1> HIDE DEF q
<1>7. \/ q = NoObject /\ UNCHANGED <<registered, gone>>
      \/ /\ q \in Queues /\ call[s].op = "reg_io" /\ UNCHANGED gone
         /\ registered' = [registered EXCEPT ![q] = IF q \in Linked THEN registered[q] \cup {s}
                                                                  ELSE registered[q]]
      \/ /\ q \in Queues /\ call[s].op = "unreg_io"
         /\ gone' = [gone EXCEPT ![q] = gone[q] \cup {s}]
         /\ registered' = [registered EXCEPT ![q] = registered[q] \ {s}]
  BY <1>5 DEF LoopStep, RegIo, UnregIo, queueVars, q
<1>8. \A t \in Queues :
        /\ registered'[t] \subseteq registered[t] \cup {s} /\ registered[t] \subseteq registered'[t] \cup {s}
        /\ gone'[t] \subseteq gone[t] \cup {s} /\ gone[t] \subseteq gone'[t]
  BY <1>2, <1>7
<1>9. ASSUME NEW r \in Sources \ {s} PROVE SourceInv(r)'
  BY <1>1, <1>2, <1>3, <1>8, <1>9, SourceKept
<1>10. SourceInv(s)'
  <2>1. call[s].op \notin {"none", "perform_io"}
    BY <1>3 DEF RoutingInv, CallInv
  <2>2. SourceInv(s)
    BY <1>1
  <2>3. q \in Watched => q \in Common
    BY <1>3, <1>6, <2>2 DEF SourceInv
  <2>4. \A t \in Watched : InRest(t, call'[s].rest) => t \in Common
    BY <1>3, <1>6, <2>2 DEF SourceInv
  <2>5. CASE call[s].op = "reg_io"
    <3>1. stage[s] = "up"
      BY <2>5 DEF RoutingInv, CallInv
    <3>2. /\ gone' = gone
          /\ \A t \in Queues : s \in registered'[t] => s \in registered[t] \/ (t = q /\ q \in Linked)
          /\ q \in Linked => s \in registered'[q]
          /\ \A t \in Queues : s \in registered[t] => s \in registered'[t]
      BY <1>1, <1>2, <1>7, <2>5
    <3>3. \A t \in Queues : s \in registered'[t] => t \in Common
      BY <1>1, <2>2, <2>3, <3>2 DEF SourceInv
    <3>4. \A t \in Common \cap Linked : s \in registered'[t] \/ InRest(t, call'[s].rest)
      BY <1>1, <1>3, <1>6, <2>2, <2>5, <3>2 DEF SourceInv
    <3> QED
      BY <1>3, <1>4, <2>2, <2>4, <2>5, <3>1, <3>2, <3>3, <3>4 DEF SourceInv
  <2>6. CASE call[s].op = "unreg_io"
    <3>1. stage[s] = "left"
      BY <2>6 DEF RoutingInv, CallInv
    <3>2. /\ \A t \in Queues : s \in registered'[t] => s \in registered[t] /\ t # q
          /\ \A t \in Queues : s \in gone[t] => s \in gone'[t]
          /\ q \in Queues => s \in gone'[q]
      BY <1>2, <1>7, <2>6
    <3>3. \A t \in Queues : s \in registered'[t] => t \in Common /\ InRest(t, call'[s].rest)
      BY <1>3, <1>6, <2>2, <2>6, <3>2 DEF SourceInv
    <3>4. \A t \in Common : s \in gone'[t] \/ InRest(t, call'[s].rest)
      BY <1>1, <1>3, <1>6, <2>2, <2>6, <3>2 DEF SourceInv
    <3> QED
      BY <1>3, <1>4, <2>2, <2>4, <2>6, <3>1, <3>3, <3>4 DEF SourceInv
  <2>7. call[s].op \in {"reg_io", "unreg_io"}
    BY <2>1, InCall DEF Ops
  <2> QED
    BY <2>5, <2>6, <2>7
<1> QED
  BY <1>9, <1>10

LEMMA SourceNext ==
    ASSUME RoutingInv, RegisteredInv, SameTargetsNamed, [Next]_vars
    PROVE  \A r \in Sources : SourceInv(r)'
<1>1. \A r \in Sources : SourceInv(r)
  BY DEF RegisteredInv
<1>2. ASSUME NEW s \in Sources, Connect(s) \/ Send(s) \/ Leave(s) \/ BrokerStep(s)
      PROVE  \A r \in Sources : SourceInv(r)'
  <2>1. \A r \in Sources \ {s} : pc'[r] = pc[r] /\ call'[r] = call[r] /\ stage'[r] = stage[r]
    BY <1>2, CallEffect
  <2>2. CASE LoopStep(s)
    BY <2>2, LoopGoesOn
  <2>3. CASE ~LoopStep(s)
    <3>1. UNCHANGED <<registered, gone>>
      BY <1>2, <2>3 DEF Connect, Send, Leave, BrokerStep, RouteStep, SendStep, PerformIo, queueVars
    <3>2. \A r \in Sources \ {s} : SourceInv(r)'
      BY <1>1, <2>1, <3>1, SourceKept
    <3>3. SourceInv(s)'
      <4>1. SourceInv(s)
        BY <1>1
      <4>2. stage[s] \in {"new", "up", "left"} /\ NoCall.op = "none" /\ Common \subseteq Queues
        BY CommonIs DEF RoutingInv, TypeOK, NoCall
      <4>3. CASE pc[s] = "idle"
        <5>1. pc'[s] = "lock" /\ call[s].op = "none"
          BY <1>2, <4>3, CallEffect DEF RoutingInv, CallInv
        <5>2. CASE Connect(s) /\ call'[s].op = "reg_io" /\ stage'[s] = "up"
          <6>1. stage[s] = "new"
            BY <5>2 DEF Connect
          <6> QED
            BY <3>1, <4>1, <5>1, <5>2, <6>1 DEF SourceInv
        <5>3. CASE stage[s] = "up" /\ call'[s].op = "perform_io" /\ stage'[s] = "up"
          BY <3>1, <4>1, <5>1, <5>3 DEF SourceInv
        <5>4. CASE Leave(s) /\ call'[s].op = "unreg_io" /\ stage'[s] = "left"
          BY <3>1, <4>1, <5>1, <5>4 DEF SourceInv
        <5> QED
          BY <1>2, <4>3, <5>2, <5>3, <5>4, CallEffect
      <4>4. CASE ReadLock(s) /\ UNCHANGED <<queueVars, stage>>
        BY <4>4, LoopBegins
      <4>5. CASE EndLoop(s) /\ pc[s] = "loop" /\ call[s].rest = <<>>
                 /\ pc'[s] = "idle" /\ call'[s] = NoCall /\ stage'[s] = stage[s]
        <5>1. \A q : ~InRest(q, call[s].rest)
          BY <4>5 DEF InRest
        <5>2. call[s].op \in {"reg_io", "unreg_io"}
          BY <4>5, InCall DEF RoutingInv, CallInv, Ops
        <5>3. stage[s] \in {"up", "left"} /\ (stage[s] = "up" <=> call[s].op = "reg_io")
          BY <5>2 DEF RoutingInv, CallInv
        <5> QED
          BY <3>1, <4>1, <4>2, <4>5, <5>1, <5>2, <5>3 DEF SourceInv
      <4>6. CASE pc[s] \in {"route", "send"} /\ pc'[s] \in {"send", "idle"} /\ stage'[s] = stage[s]
        <5>1. call[s].op = "perform_io" /\ stage[s] = "up"
          BY <4>6 DEF RoutingInv, CallInv
        <5>2. call'[s].op # "reg_io"
          BY <1>2, <4>2, <4>6, <5>1, CallEffect
        <5> QED
          BY <3>1, <4>1, <4>6, <5>1, <5>2 DEF SourceInv
      <4>7. \/ pc[s] = "idle"
            \/ ReadLock(s)
            \/ EndLoop(s) /\ pc[s] = "loop" /\ call[s].rest = <<>>
                 /\ pc'[s] = "idle" /\ call'[s] = NoCall /\ stage'[s] = stage[s]
            \/ pc[s] \in {"route", "send"} /\ pc'[s] \in {"send", "idle"} /\ stage'[s] = stage[s]
        BY <1>2, <2>3, CallEffect
      <4>8. ReadLock(s) => ReadLock(s) /\ UNCHANGED <<queueVars, stage>>
        <5> SUFFICES ASSUME ReadLock(s) PROVE UNCHANGED <<queueVars, stage>>
          OBVIOUS
        <5>1. pc[s] = "lock"
          BY DEF ReadLock
        <5> QED
          BY <1>2, <5>1 DEF Connect, Send, Leave, Call, BrokerStep, LoopStep, NextTarget, EndLoop,
                            RouteStep, FindTarget, SendStep, SendOn
      <4> QED
        BY <4>3, <4>4, <4>5, <4>6, <4>7, <4>8
    <3> QED
      BY <3>2, <3>3
  <2> QED
    BY <2>2, <2>3
<1>3. CASE MainStep \/ QueueStep \/ UNCHANGED vars
  <2>1. UNCHANGED <<callVars, stage, registered, gone>>
    <3>1. ASSUME NEW w \in Workers, Take(w) \/ Give(w) PROVE UNCHANGED <<registered, gone>>
      BY <3>1 DEF Take, Give
    <3>2. ASSUME NEW m \in Messages, Answer(m) \/ CallHandler(m)
          PROVE  UNCHANGED <<registered, gone>>
      BY <3>2 DEF Answer, CallHandler
    <3>3. ASSUME NEW q \in Queues, SuspendQueue(q) PROVE UNCHANGED <<registered, gone>>
      BY <3>3 DEF SuspendQueue
    <3> QED
      BY <1>3, <3>1, <3>2, <3>3 DEF MainStep, Restart, Replace, SuspendBroker, QueueStep,
                                    vars, queueVars
  <2> QED
    BY <1>1, <2>1, SourceKept DEF callVars
<1> QED
  BY <1>2, <1>3 DEF Next, Terminated

LEMMA RegisteredNext ==
    ASSUME RoutingInv, RegisteredInv, SameTargetsNamed, [Next]_vars
    PROVE  RegisteredInv'
<1>1. TargetsInv' /\ ToInv'
  BY TargetsNext, ToNext DEF RegisteredInv
<1>2. \A r \in Sources : SourceInv(r)'
  BY SourceNext
<1> QED
  BY <1>1, <1>2 DEF RegisteredInv

LEMMA AlwaysRegisteredInv ==
    ASSUME SameTargetsNamed
    PROVE  Spec => []RegisteredInv
<1>1. Init => RegisteredInv
  <2> SUFFICES ASSUME Init PROVE RegisteredInv
    OBVIOUS
  <2>1. TargetsInv
    BY DEF Init, BrokerInit, TargetsInv
  <2>2. ToInv
    BY DEF Init, BrokerInit, QueueInit, ToInv
  <2>3. ASSUME NEW s \in Sources PROVE SourceInv(s)
    BY DEF Init, BrokerInit, QueueInit, SourceInv
  <2> QED
    BY <2>1, <2>2, <2>3 DEF RegisteredInv
<1> QED
  BY <1>1, RegisteredNext, AlwaysRoutingInv, PTL DEF Spec

(***************************************************************************)
(* A registered source is known behind every queue that its messages can   *)
(* be sent to, and one that has left behind none, although restart()       *)
(* replaces the rules in between (broker::reg_io, unreg_io).               *)
(***************************************************************************)
THEOREM RegistrationsFollowRules ==
    ASSUME SameTargetsNamed
    PROVE  Spec => []RegistrationsFollow
<1>1. RoutingInv /\ RegisteredInv => RegistrationsFollow
  <2> SUFFICES ASSUME RoutingInv, RegisteredInv, NEW s \in Sources, NEW q \in Linked, pc[s] = "idle"
               PROVE  /\ stage[s] = "up" /\ q \in Reached => s \in registered[q]
                      /\ stage[s] = "left" => s \notin registered[q]
    BY DEF RegistrationsFollow
  <2>1. call[s].op = "none" /\ SourceInv(s) /\ q \in Queues /\ q \in Watched
    BY QueueAssumption DEF RoutingInv, CallInv, RegisteredInv, Watched
  <2>2. stage[s] = "up" /\ q \in Reached => q \in Common
    BY <2>1 DEF RegisteredInv, TargetsInv, Reached, RuleTargets
  <2> QED
    BY <2>1, <2>2 DEF SourceInv
<1> QED
  BY <1>1, AlwaysRoutingInv, AlwaysRegisteredInv, PTL

\* A tracked queue in which messages of a source wait hears of its leaving.
LEMMA LeavingHeard ==
    ASSUME RoutingInv, RegisteredInv
    PROVE  LeavingIsHeard
<1> SUFFICES ASSUME NEW m \in Messages, place[m] = "posted", queue[m] \in Tracking, HasLeft(Sender(m))
             PROVE  Sender(m) \in gone[queue[m]]
  BY DEF LeavingIsHeard
<1>1. Sender(m) \in Sources
  BY MessageParts DEF Sender
<1>2. SourceInv(Sender(m)) /\ stage[Sender(m)] = "left" /\ call[Sender(m)].op = "none"
  BY <1>1 DEF RegisteredInv, RoutingInv, CallInv, HasLeft
<1>3. queue[m] \in Common
  BY DEF RegisteredInv, ToInv, Watched
<1> QED
  BY <1>2, <1>3 DEF SourceInv

(***************************************************************************)
(* A queue throws away the messages of sources that have left, and once a  *)
(* source has left for good a tracked queue begins none of its messages    *)
(* (queue::perform_io with the option tracking, queue::unreg_io).          *)
(***************************************************************************)
THEOREM OnlyGoneAreDropped ==
    ASSUME SameTargetsNamed
    PROVE  Spec => DropsForGone
<1> DEFINE Drops ==
      \A m \in Messages : place[m] = "posted" =>
          /\ place'[m] = "dropped" => stage[Sender(m)] = "left"
          /\ place'[m] = "worker" /\ queue[m] \in Tracking => ~HasLeft(Sender(m))
<1>1. RoutingInv /\ RegisteredInv /\ [Next]_vars => [Drops]_vars
  <2> SUFFICES ASSUME RoutingInv, RegisteredInv, [Next]_vars, NEW m \in Messages, place[m] = "posted"
               PROVE  /\ place'[m] = "dropped" => stage[Sender(m)] = "left"
                      /\ place'[m] = "worker" /\ queue[m] \in Tracking => ~HasLeft(Sender(m))
    OBVIOUS
  <2>1. CASE place'[m] = "posted"
    BY <2>1
  <2>2. CASE place'[m] # "posted"
    <3>1. PICK w \in Workers : TakeStep(m, w)
      <4>1. PICK x \in Messages : MessageStep(x)
        BY <2>2, Steps
      <4>2. x = m
        BY <2>2, <4>1 DEF MessageStep, Only
      <4> QED
        BY <4>1, <4>2 DEF MessageStep, BeginStep, DropStep, PostStep, PassStep, RefuseStep,
                          GiveStep, AnswerStep
    <3>2. Sender(m) \in Sources /\ queue[m] \in Queues
      BY <3>1, MessageParts, QueueTypes DEF Sender, TakeStep
    <3>3. Sender(m) \in gone[queue[m]] => stage[Sender(m)] = "left"
      BY <3>2 DEF RegisteredInv, SourceInv
    <3>4. queue[m] \in Tracking /\ HasLeft(Sender(m)) => Sender(m) \in gone[queue[m]]
      BY LeavingHeard DEF LeavingIsHeard
    <3> QED
      BY <3>1, <3>3, <3>4 DEF TakeStep
  <2> QED
    BY <2>1, <2>2
<1> QED
  BY <1>1, AlwaysRoutingInv, AlwaysRegisteredInv, PTL DEF Spec, DropsForGone

=============================================================================
