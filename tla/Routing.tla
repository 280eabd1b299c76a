------------------------------- MODULE Routing -------------------------------
(***************************************************************************)
(* Sources, an io-broker and the io-queues it sends to, as in the example  *)
(* of the Readme: server-tcp -> broker -> queues -> service.  The calls    *)
(* the broker makes are joined here with the methods of the queues.        *)
(***************************************************************************)
EXTENDS Broker, IoQueue, FiniteSets

CONSTANT
    MaxSent         \* bound on the messages of all sources together

ASSUME RoutingAssumption ==
    /\ Objects = Queues
    /\ MaxSent \in Nat
    /\ IsFiniteSet(Workers)

VARIABLE
    stage           \* stage[s]: new, up (between reg_io and unreg_io) or left

vars == <<brokerVars, callVars, queueVars, stage>>

Sent(s) == Cardinality({n \in 1 .. MaxMessages : place[<<s, n>>] # "unsent"})

\* The message source s is sending.
Current(s) == <<s, Sent(s)>>

-----------------------------------------------------------------------------
(* Sources, each on a thread of its own                                    *)

Connect(s) ==
    /\ main = "running"
    /\ stage[s] = "new"
    /\ stage' = [stage EXCEPT ![s] = "up"]
    /\ Call(s, "reg_io", NoObject)
    /\ UNCHANGED queueVars

Send(s) ==
    /\ stage[s] = "up"
    /\ Sent(s) < MaxMessages
    /\ Cardinality({m \in Messages : place[m] # "unsent"}) < MaxSent
    /\ \E k \in Kinds \cup {NoObject} : Call(s, "perform_io", k)
    /\ LET m == <<s, Sent(s) + 1>> IN
       /\ Moved(m, "calling")
       /\ silent' \in {silent, silent \cup {m}}
    /\ UNCHANGED <<workflow, job, queue, direct, gone, registered, paused, stage>>

Leave(s) ==
    /\ stage[s] = "up"
    /\ stage' = [stage EXCEPT ![s] = "left"]
    /\ Call(s, "unreg_io", NoObject)
    /\ UNCHANGED queueVars

-----------------------------------------------------------------------------
(* The broker calls its targets                                            *)

\* One target in the loops of reg_io and unreg_io.
LoopStep(s) ==
    /\ NextTarget(s)
    /\ LET q == Head(call[s].rest) IN
       \/ q = NoObject /\ UNCHANGED queueVars
       \/ q # NoObject /\ call[s].op = "reg_io" /\ RegIo(q, s)
       \/ q # NoObject /\ call[s].op = "unreg_io" /\ UnregIo(q, s)
    /\ UNCHANGED stage

\* The broker looks for the target; without one nobody hears of the message.
RouteStep(s) ==
    /\ FindTarget(s)
    /\ \/ pc'[s] = "send" /\ UNCHANGED queueVars
       \/ /\ pc'[s] = "idle"
          /\ Moved(Current(s), "dropped")
          /\ UNCHANGED <<workflow, job, queue, direct, gone, registered, paused, silent>>
    /\ UNCHANGED stage

SendStep(s) ==
    /\ SendOn(s)
    /\ PerformIo(call[s].to, Current(s))
    /\ UNCHANGED stage

BrokerStep(s) ==
    \/ ReadLock(s) /\ UNCHANGED <<queueVars, stage>>
    \/ LoopStep(s)
    \/ EndLoop(s) /\ UNCHANGED <<queueVars, stage>>
    \/ RouteStep(s)
    \/ SendStep(s)

\* The application.
MainStep == (Restart \/ Replace \/ SuspendBroker) /\ UNCHANGED <<queueVars, stage>>

QueueStep ==
    /\ \/ \E w \in Workers : Take(w) \/ Give(w)
       \/ \E m \in Messages : Answer(m) \/ CallHandler(m)
       \/ \E q \in Queues : SuspendQueue(q)
    /\ UNCHANGED <<brokerVars, callVars, stage>>

Terminated ==
    /\ \A s \in Sources : stage[s] = "left" /\ pc[s] = "idle"
    /\ UNCHANGED vars

Init ==
    /\ BrokerInit
    /\ QueueInit
    /\ stage = [s \in Sources |-> "new"]

Next ==
    \/ \E s \in Sources : Connect(s) \/ Send(s) \/ Leave(s) \/ BrokerStep(s)
    \/ MainStep
    \/ QueueStep
    \/ Terminated

Spec == Init /\ [][Next]_vars

-----------------------------------------------------------------------------
(* Properties                                                              *)

\* Every variable keeps its type, and no workflow grows over its maxsize.
TypeOK ==
    /\ BrokerTypeOK
    /\ QueueTypeOK
    /\ stage \in [Sources -> {"new", "up", "left"}]
    /\ \A q \in Queues : Len(workflow[q]) <= MaxSize[q]

(***************************************************************************)
(* No message is lost or doubled: one that is under way is in the hands of *)
(* its source's thread, in the workflow of its queue, or with one of the   *)
(* workers of that, and in one of them only, although workers take         *)
(* messages at the same time and full workflows refuse them.               *)
(***************************************************************************)
OnePlace ==
    \A m \in Messages :
        LET waits == UNION {{<<q, i>> : i \in {j \in DOMAIN workflow[q] : workflow[q][j] = m}} :
                            q \in Queues}
            works == {w \in Workers : job[w] = m}
        IN /\ Cardinality(waits) = (IF place[m] = "posted" THEN 1 ELSE 0)
           /\ Cardinality(works) = (IF place[m] = "worker" THEN 1 ELSE 0)
           /\ \A x \in waits : x[1] = queue[m]
           /\ \A w \in works : QueueOf[w] = queue[m]
           /\ place[m] = "calling" <=>
                 call[Sender(m)].op = "perform_io" /\ Current(Sender(m)) = m

(***************************************************************************)
(* A queue whose workflow has one thread gives the messages of a source to *)
(* the target in the order they were sent, although restarts and suspends  *)
(* change the way of the messages between them.  A message a suspended     *)
(* queue passes on itself is excepted: it overtakes those that wait.       *)
(***************************************************************************)
InOrder ==
    \A s \in Sources, n, k \in 1 .. MaxMessages :
        LET m == <<s, n>>
            l == <<s, k>>
        IN /\ n < k
           /\ queue[m] = queue[l]
           /\ Cardinality({w \in Workers : QueueOf[w] = queue[m]}) = 1
           /\ l \notin direct
           /\ place[l] \in {"target", "callback", "answered"}
           => place[m] \notin {"posted", "worker"}

(***************************************************************************)
(* What is null is never called: not the handler of a message that has     *)
(* none, whatever becomes of the message, nor a queue's target, although   *)
(* messages get past the test for it.  It needs queues that have a target  *)
(* or are not suspended.                                                   *)
(***************************************************************************)
NullNeverCalled ==
    \A m \in Messages :
        /\ place[m] # "null"
        /\ m \in silent => place[m] \notin {"callback", "answered", "refused"}

\* The queues a message can be sent to.
Reached == {default} \cup {rules[i].target : i \in DOMAIN rules}

(***************************************************************************)
(* While restarts reorder and change the rules, a source that has          *)
(* registered is known behind every queue its messages can be sent to, and *)
(* one that has left is known behind none.  It needs configurations that   *)
(* name the same targets, the default target among the rules' targets.     *)
(***************************************************************************)
RegistrationsFollow ==
    \A s \in Sources, q \in Linked : pc[s] = "idle" =>
        /\ stage[s] = "up" /\ q \in Reached => s \in registered[q]
        /\ stage[s] = "left" => s \notin registered[q]

HasLeft(s) == stage[s] = "left" /\ pc[s] = "idle"

(***************************************************************************)
(* A queue with tracking throws away the messages of sources that closed   *)
(* the connection, and of nobody else: once a source has left and its      *)
(* unreg_io has returned, no worker begins a message of it.                *)
(***************************************************************************)
DropsForGone ==
    [][\A m \in Messages : place[m] = "posted" =>
          /\ place'[m] = "dropped" => stage[Sender(m)] = "left"
          /\ place'[m] = "worker" /\ queue[m] \in Tracking => ~HasLeft(Sender(m))]_vars

(***************************************************************************)
(* What makes DropsForGone work: a tracked queue in which messages of a    *)
(* source wait hears of its leaving.                                       *)
(***************************************************************************)
LeavingIsHeard ==
    \A m \in Messages :
        place[m] = "posted" /\ queue[m] \in Tracking /\ HasLeft(Sender(m))
            => Sender(m) \in gone[queue[m]]
=============================================================================
