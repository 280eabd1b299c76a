------------------------------- MODULE Fanout -------------------------------
(***************************************************************************)
(* Connections of a server, statistics behind it, and an io-hub behind     *)
(* that, which has a target.  A connection registers and unregisters on a  *)
(* thread of its own and holds its mutex meanwhile.  Its messages come on  *)
(* the threads of the workflow of an io-queue, as do those of the target;  *)
(* or, without a queue, on its own thread, under its mutex.  A message for *)
(* it needs its mutex.                                                     *)
(***************************************************************************)
EXTENDS Hub, Statistics

ASSUME FanoutAssumption == Connections = Sources

VARIABLES
    stage,          \* stage[s]: new, up (between reg_io and unreg_io) or left
    erasing,        \* sources whose unreg_io is between the target and _map
    missed          \* sources of which a suspended hub ignored a call

ownVars == <<stage, erasing, missed>>
vars == <<hubVars, statVars, ownVars>>

\* A connection that performs is one without a queue behind it.
Direct == Sources \cap Performers

\* The connection is not in reg_io or unreg_io ...
Settled(s) == stat[s] = "idle"

\* ... nor in perform_io: its mutex is free.
Unlocked(s) == Settled(s) /\ (s \in Direct => walk[s].at = "idle")

Registered(s) == stage[s] = "up" /\ Settled(s) /\ s \notin missed

-----------------------------------------------------------------------------
(* Connections                                                             *)

Missed(s) == missed' = IF suspended THEN missed \cup {s} ELSE missed

Connect(s) ==
    /\ stage[s] = "new"
    /\ stage' = [stage EXCEPT ![s] = "up"]
    /\ alive' = alive \cup {s}
    /\ StatRegIo(s)
    /\ UNCHANGED <<map, restartVars, suspended, walk, erasing, missed>>

\* reg_io of the hub
Announce(s) ==
    /\ TargetReg(s)
    /\ HubRegIo(s)
    /\ Missed(s)
    /\ UNCHANGED <<stage, erasing>>

Leave(s) ==
    /\ stage[s] = "up"
    /\ Unlocked(s)
    /\ stage' = [stage EXCEPT ![s] = "left"]
    /\ StatUnregIo(s)
    /\ UNCHANGED <<hubVars, erasing, missed>>

\* unreg_io of the hub: if suspended nothing, else unreg_io of the target ...
Withdraw(s) ==
    /\ s \notin erasing
    /\ Missed(s)
    /\ \/ suspended /\ TargetUnreg(s) /\ UNCHANGED erasing
       \/ ~suspended /\ stat[s] = "unreg" /\ erasing' = erasing \cup {s} /\ UNCHANGED statVars
    /\ UNCHANGED <<hubVars, stage>>

\* ... and the critical section.
Remove(s) ==
    /\ s \in erasing
    /\ HubErase(s)
    /\ TargetUnreg(s)
    /\ erasing' = erasing \ {s}
    /\ UNCHANGED <<stage, missed>>

Forget(s) == Untrack(s) /\ UNCHANGED <<hubVars, ownVars>>

\* The last reference to a connection is dropped.
Destroy(s) ==
    /\ stage[s] = "left"
    /\ Unlocked(s)
    /\ alive' = alive \ {s}
    /\ alive' # alive
    /\ UNCHANGED <<map, restartVars, suspended, walk, statVars, ownVars>>

ConnStep(s) == Announce(s) \/ Withdraw(s) \/ Remove(s) \/ Forget(s)

-----------------------------------------------------------------------------
(* Messages                                                                *)

Audience == {s \in Sources : Registered(s)}

\* A connection performs its message itself, under its mutex, or a queue has
\* taken it, perhaps until after the connection has left; statistics only
\* measures what it passes on.  Or the target begins to send.
Perform(w) ==
    /\ \/ w \in Direct /\ stage[w] = "up" /\ Settled(w) /\ HubPerformIo(w, w, Audience)
       \/ /\ w \notin Direct
          /\ \E s \in Sources \ Direct : stage[s] # "new" /\ HubPerformIo(w, s, Audience)
       \/ w \notin Direct /\ LockHandler(w)
    /\ UNCHANGED <<statVars, ownVars>>

WalkStep(w) ==
    /\ \/ TargetSends(w, Audience)
       \/ Loop(w)
       \/ Deliver(w) /\ Unlocked(walk[w].to)
       \/ EndLoop(w)
       \/ ToTarget(w)
       \/ Give(w)
    /\ UNCHANGED <<statVars, ownVars>>

HubStep ==
    /\ RestartId \/ RestartStep \/ SuspendHub
    /\ UNCHANGED <<statVars, ownVars>>

Init ==
    /\ HubInit
    /\ StatInit
    /\ stage = [s \in Sources |-> "new"]
    /\ erasing = {}
    /\ missed = {}

Next ==
    \/ \E s \in Sources : Connect(s) \/ Leave(s) \/ Destroy(s) \/ ConnStep(s)
    \/ \E w \in Performers : Perform(w) \/ WalkStep(w)
    \/ HubStep

Spec == Init /\ [][Next]_vars

\* The threads run; nobody has to connect, send, leave, restart or suspend.
FairSpec ==
    /\ Spec
    /\ \A s \in Sources : WF_vars(ConnStep(s))
    /\ \A w \in Performers : WF_vars(WalkStep(w))
    /\ WF_vars(RestartStep /\ UNCHANGED <<statVars, ownVars>>)

-----------------------------------------------------------------------------
(* Properties                                                              *)

\* Every variable stays in the set its declaration in the code describes.
TypeOK ==
    /\ map \subseteq Sources
    /\ alive \subseteq Sources
    /\ handler_id \in Handlers \cup {NoHandler}
    /\ handler \in Handlers \cup {NoHandler}
    /\ known \subseteq Handlers
    /\ restarting \in {"no", "handler", "reg"}
    /\ suspended \in BOOLEAN
    /\ walk \in [Performers -> Walks]
    /\ tracked \subseteq Sources
    /\ stat \in [Sources -> {"idle", "reg", "unreg", "untrack"}]
    /\ stage \in [Sources -> {"new", "up", "left"}]
    /\ erasing \subseteq Sources
    /\ missed \subseteq Sources

(***************************************************************************)
(* A message gets to everybody but its sender who was registered when it   *)
(* came to the hub, and who still exists, unless reg_io or unreg_io of     *)
(* another object changed _map meanwhile or met a suspended hub before.    *)
(***************************************************************************)
ReachesAll ==
    \A w \in Performers :
        walk[w].at = "target" => walk[w].owed \cap alive = {}

(***************************************************************************)
(* A source hears nothing of what is sent after its unreg_io returned: it  *)
(* is in _map no more, and a loop that is not disturbed does not come to   *)
(* it, unless the hub was suspended when it left.                          *)
(***************************************************************************)
NothingAfterLeaving ==
    \A s \in Sources :
        stage[s] = "left" /\ Settled(s) /\ s \notin missed =>
            /\ s \notin map
            /\ \A w \in Performers :
                 Walking(w) /\ ~walk[w].raced => s \notin walk[w].todo \cup {walk[w].to}

(***************************************************************************)
(* Nobody hears its own message: no connection, and not the target either, *)
(* although each restart gives it another io_id to send with, and although *)
(* its thread may still hold an old handler: a message is given back to it *)
(* only if a restart was under way at some time between its lock of the    *)
(* handler and the test of the hub, or another call had kept the handler   *)
(* alive since before a restart.                                           *)
(***************************************************************************)
NoEcho ==
    \A w \in Performers :
        /\ walk[w].at = "deliver" => walk[w].to # walk[w].from
        /\ walk[w].at = "give" /\ walk[w].from \in Handlers => walk[w].overlap

(***************************************************************************)
(* statistics counts every connection that is registered behind it, at     *)
(* every moment of reg_io and unreg_io, and none that is gone.             *)
(***************************************************************************)
ConnectionsCounted ==
    /\ map \ missed \subseteq tracked
    /\ \A s \in tracked : stage[s] = "up" \/ ~Settled(s)

(***************************************************************************)
(* Every connection lets go of its mutex, although it holds it while it    *)
(* waits for the lock of the hub, or for the mutex of another connection   *)
(* it gives its message to; and every message gets through, unless a       *)
(* connection whose mutex it waits for sends again and again.  This holds  *)
(* where at most one connection has no queue behind it: two would each     *)
(* wait for the mutex of the other.                                        *)
(***************************************************************************)
CallsReturn ==
    /\ \A s \in Sources : ~Unlocked(s) ~> Unlocked(s)
    /\ (\A s \in Direct : <>[](walk[s].at = "idle")) =>
          \A w \in Performers : walk[w].at # "idle" ~> walk[w].at = "idle"
=============================================================================
