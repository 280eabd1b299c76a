------------------------------- MODULE IoQueue -------------------------------
(***************************************************************************)
(* Domain objects io-queue (class queue).  A queue posts each message to   *)
(* a workflow, whose threads give it to the target of the queue, and may   *)
(* post the answer to a second workflow; reg_io and unreg_io are passed    *)
(* on at once.  The target is external: it learns who is registered, gets  *)
(* messages, and calls the handler of each at most once.                   *)
(***************************************************************************)
EXTENDS Iinterface

CONSTANTS
    MaxMessages,    \* bound on the messages of one source
    Queues,         \* the queue objects
    NoMessage,      \* what a worker without a message has
    Linked,         \* queues that have a target
    Tracking,       \* queues with the option tracking
    Callback,       \* queues with the option callback_queue
    Suspended,      \* queues the application may suspend
    Workers,        \* threads of the workflows of the queues
    QueueOf,        \* the queue each of them works for
    MaxSize         \* MaxSize[q]: option maxsize of the workflow of q

\* The n-th message of source s.
Messages == Sources \X (1 .. MaxMessages)
Sender(m) == m[1]

ASSUME QueueAssumption ==
    /\ MaxMessages \in Nat
    /\ MaxSize \in [Queues -> Nat \ {0}]
    /\ Queues \subseteq Objects
    /\ NoMessage \notin Messages
    /\ Linked \subseteq Queues
    /\ Tracking \subseteq Queues
    /\ Callback \subseteq Queues
    /\ Suspended \subseteq Queues
    /\ QueueOf \in [Workers -> Queues]

(***************************************************************************)
(* Where a message is: with its source, in the workflow of its queue, with *)
(* a worker, at the target, in the callback workflow; or its handler was   *)
(* called with an answer (answered) or with nullptr (refused), or the      *)
(* message was thrown away without that (dropped); or perform_io was       *)
(* called on a null target (null).                                         *)
(***************************************************************************)
Places == {"unsent", "calling", "posted", "worker", "target", "callback",
           "answered", "refused", "dropped", "null"}

VARIABLES
    workflow,       \* workflow[q]: messages posted by perform_io, oldest first
    job,            \* the message each worker is about to give to the target
    place,          \* where each message is
    queue,          \* the queue each message was given to
    direct,         \* messages a suspended queue passed on itself
    gone,           \* gone[q]: sources whose unreg_io reached q, for tracking
    registered,     \* registered[q]: sources q announced to its target
    paused,         \* queues that are suspended()
    silent          \* messages without a handler

queueVars == <<workflow, job, place, queue, direct, gone, registered, paused, silent>>

QueueTypeOK ==
    /\ workflow \in [Queues -> Seq(Messages)]
    /\ job \in [Workers -> Messages \cup {NoMessage}]
    /\ place \in [Messages -> Places]
    /\ queue \in [Messages -> Queues \cup {NoObject}]
    /\ direct \subseteq Messages
    /\ gone \in [Queues -> SUBSET Sources]
    /\ registered \in [Queues -> SUBSET Sources]
    /\ paused \subseteq Queues
    /\ silent \subseteq Messages

QueueInit ==
    /\ workflow = [q \in Queues |-> <<>>]
    /\ job = [w \in Workers |-> NoMessage]
    /\ place = [m \in Messages |-> "unsent"]
    /\ queue = [m \in Messages |-> NoObject]
    /\ direct = {}
    /\ gone = [q \in Queues |-> {}]
    /\ registered = [q \in Queues |-> {}]
    /\ paused = {}
    /\ silent = {}

-----------------------------------------------------------------------------
(* Methods                                                                 *)

RegIo(q, s) ==
    /\ registered' = [registered EXCEPT ![q] = IF q \in Linked THEN @ \cup {s} ELSE @]
    /\ UNCHANGED <<workflow, job, place, queue, direct, gone, paused, silent>>

\* Mutant: unreg_io of domain_object is not called.
UnregIoTracked(q, s) ==
    /\ registered' = [registered EXCEPT ![q] = @ \ {s}]
    /\ UNCHANGED <<workflow, job, place, queue, direct, gone, paused, silent>>

\* Messages of s that wait here are no longer tracked, and s is taken off
\* the target.
UnregIo(q, s) ==
    /\ gone' = [gone EXCEPT ![q] = @ \cup {s}]
    /\ registered' = [registered EXCEPT ![q] = @ \ {s}]
    /\ UNCHANGED <<workflow, job, place, queue, direct, paused, silent>>

Moved(m, to) == place' = [place EXCEPT ![m] = to]

\* Mutant: the test of maxsize is off by one.
PerformIoOneMore(q, m) ==
    /\ queue' = [queue EXCEPT ![m] = q]
    /\ q \in Linked \ paused
    /\ Len(workflow[q]) <= MaxSize[q]
    /\ Moved(m, "posted")
    /\ workflow' = [workflow EXCEPT ![q] = Append(@, m)]
    /\ UNCHANGED <<job, direct, gone, registered, paused, silent>>

\* handler(nullptr), if there is a handler.
Refused(m) == Moved(m, IF m \in silent THEN "dropped" ELSE "refused")

\* perform_io of queue q: without a target it refuses what has a handler and
\* goes on with the rest; a suspended queue passes the message on at once; a
\* workflow that is full refuses it.
PerformIo(q, m) ==
    /\ queue' = [queue EXCEPT ![m] = q]
    /\ \/ /\ q \notin Linked /\ m \notin silent
          /\ Refused(m)
          /\ UNCHANGED <<workflow, direct>>
       \/ /\ q \in Linked \/ m \in silent
          /\ \/ /\ q \in paused
                /\ Moved(m, IF q \in Linked THEN "target" ELSE "null")
                /\ direct' = direct \cup {m}
                /\ UNCHANGED workflow
             \/ /\ q \notin paused
                /\ Len(workflow[q]) < MaxSize[q]
                /\ Moved(m, "posted")
                /\ workflow' = [workflow EXCEPT ![q] = Append(@, m)]
                /\ UNCHANGED direct
             \/ /\ q \notin paused
                /\ Len(workflow[q]) >= MaxSize[q]
                /\ Refused(m)
                /\ UNCHANGED <<workflow, direct>>
    /\ UNCHANGED <<job, gone, registered, paused, silent>>

-----------------------------------------------------------------------------
(* Threads of the workflows                                                *)

\* Mutant: a worker looks at the oldest message and removes it later.
TakeKept(w) ==
    LET q == QueueOf[w] IN
    /\ job[w] = NoMessage
    /\ workflow[q] # <<>>
    /\ Moved(Head(workflow[q]), "worker")
    /\ job' = [job EXCEPT ![w] = Head(workflow[q])]
    /\ UNCHANGED <<workflow, queue, direct, gone, registered, paused, silent>>

\* Mutant: the workflow is a stack.
TakeNewest(w) ==
    LET q == QueueOf[w]
        n == Len(workflow[q])
    IN /\ job[w] = NoMessage
       /\ n > 0
       /\ workflow' = [workflow EXCEPT ![q] = SubSeq(@, 1, n - 1)]
       /\ Moved(workflow[q][n], "worker")
       /\ job' = [job EXCEPT ![w] = workflow[q][n]]
       /\ UNCHANGED <<queue, direct, gone, registered, paused, silent>>

\* A worker takes the oldest message and asks whether its source is tracked.
Take(w) ==
    LET q == QueueOf[w]
        m == Head(workflow[q])
    IN /\ job[w] = NoMessage
       /\ workflow[q] # <<>>
       /\ workflow' = [workflow EXCEPT ![q] = Tail(@)]
       /\ \/ /\ q \in Tracking
             /\ Sender(m) \in gone[q]
             /\ Moved(m, "dropped")
             /\ UNCHANGED job
          \/ /\ ~(q \in Tracking /\ Sender(m) \in gone[q])
             /\ Moved(m, "worker")
             /\ job' = [job EXCEPT ![w] = m]
       /\ UNCHANGED <<queue, direct, gone, registered, paused, silent>>

\* perform_io of the target, if there is one.
Give(w) ==
    /\ job[w] # NoMessage
    /\ \/ QueueOf[w] \in Linked /\ Moved(job[w], "target")
       \/ QueueOf[w] \notin Linked /\ Refused(job[w])
    /\ job' = [job EXCEPT ![w] = NoMessage]
    /\ UNCHANGED <<workflow, queue, direct, gone, registered, paused, silent>>

\* Mutant: make_handler_ wraps a null handler too.
WrappedAlways(m) == m \notin direct /\ queue[m] \in Callback

\* make_handler_ has wrapped the handler of m.
Wrapped(m) == m \notin direct /\ queue[m] \in Callback /\ m \notin silent

\* The target calls the handler it was given, if any: the answer is posted if
\* that was wrapped, or refused by a callback workflow that is full.
Answer(m) ==
    /\ place[m] = "target"
    /\ \/ ~Wrapped(m) /\ m \notin silent /\ Moved(m, "answered")
       \/ Wrapped(m) /\ (Moved(m, "callback") \/ Moved(m, "refused"))
    /\ UNCHANGED <<workflow, job, queue, direct, gone, registered, paused, silent>>

\* A thread of the callback workflow calls the handler.
CallHandler(m) ==
    /\ place[m] = "callback"
    /\ Moved(m, "answered")
    /\ UNCHANGED <<workflow, job, queue, direct, gone, registered, paused, silent>>

SuspendQueue(q) ==
    /\ q \in Suspended
    /\ \/ q \in paused /\ paused' = paused \ {q}
       \/ q \notin paused /\ paused' = paused \cup {q}
    /\ UNCHANGED <<workflow, job, place, queue, direct, gone, registered, silent>>
=============================================================================
