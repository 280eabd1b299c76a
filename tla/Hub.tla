--------------------------------- MODULE Hub ---------------------------------
(***************************************************************************)
(* The domain object io-hub (class hub), which passes every message to     *)
(* every object registered at it and to its target.  reg_io and unreg_io   *)
(* change _map under a lock that perform_io does not take when it goes     *)
(* through _map.  A restart gives the target a new target_handler, through *)
(* which the target sends to all objects.                                  *)
(***************************************************************************)
EXTENDS Naturals

CONSTANTS
    Sources,        \* objects that register, by io_id
    Performers,     \* threads that call perform_io
    Nobody,         \* no source
    MaxRestarts     \* bound on the calls of restart

NoHandler == 0
Handlers == 1 .. MaxRestarts      \* the io_ids restart made, in that order

\* No two objects have the same io_id.
ASSUME HubAssumption ==
    /\ MaxRestarts \in Nat
    /\ Nobody \notin Sources
    /\ Sources \cap Handlers = {}

VARIABLES
    map,            \* io_ids in _map
    alive,          \* sources whose shared_ptr still exists
    handler_id,     \* _handler_id
    handler,        \* io_id of _target_handler, or NoHandler
    known,          \* handlers the target was told of
    restarting,     \* where restart() is
    suspended,      \* suspended()
    walk            \* the call of perform_io each performer is in

restartVars == <<handler_id, handler, known, restarting>>
hubVars == <<map, alive, restartVars, suspended, walk>>

(***************************************************************************)
(* at      : "idle"; "held": a thread of the target locked a handler and   *)
(*           is in its perform_io; "loop" over _map; "deliver" the message *)
(*           to `to'; past the loop, at the test for the "target"; or past *)
(*           that too, to "give" the target the message.                   *)
(* from    : the io_id perform_io is called with.                          *)
(* todo    : entries of _map the loop has yet to come to.                  *)
(* owed    : sources the message is meant for and did not get to yet; none *)
(*           are once _map was changed.                                    *)
(* raced   : _map was changed while the loop went through it.              *)
(* overlap : a restart was under way at some time since the sender began,  *)
(*           or the handler it locked had been replaced before.            *)
(***************************************************************************)
Walks ==
    [at : {"idle", "held", "loop", "deliver", "target", "give"},
     from : Sources \cup Handlers \cup {Nobody},
     todo : SUBSET Sources, to : Sources \cup {Nobody}, owed : SUBSET Sources,
     raced : BOOLEAN, overlap : BOOLEAN]

Idle == [at |-> "idle", from |-> Nobody, todo |-> {}, to |-> Nobody,
         owed |-> {}, raced |-> FALSE, overlap |-> FALSE]

Walking(w) == walk[w].at \in {"loop", "deliver"}

HubInit ==
    /\ map = {}
    /\ alive = {}
    /\ handler_id = NoHandler
    /\ handler = NoHandler
    /\ known = {}
    /\ restarting = "no"
    /\ suspended = FALSE
    /\ walk = [w \in Performers |-> Idle]

-----------------------------------------------------------------------------
(* reg_io and unreg_io                                                     *)

\* Undefined behaviour: a loop that is in _map while the map changes goes on
\* with any of the entries there were or are.
ChangeMap(new) ==
    /\ map' = new
    /\ \E rest \in [Performers -> SUBSET (map \cup new)] :
         walk' = [w \in Performers |->
                    IF Walking(w) /\ new # map
                    THEN [walk[w] EXCEPT !.todo = rest[w], !.owed = {}, !.raced = TRUE]
                    ELSE walk[w]]

HubRegIo(s) ==
    /\ \/ suspended /\ UNCHANGED <<map, walk>>
       \/ ~suspended /\ ChangeMap(map \cup {s})
    /\ UNCHANGED <<alive, restartVars, suspended>>

\* Mutant: the object stays in _map.
HubEraseNothing(s) == UNCHANGED hubVars

\* Mutant: the lock is held while perform_io goes through _map.
HubEraseWaits(s) ==
    /\ \A w \in Performers : ~Walking(w)
    /\ map' = map \ {s}
    /\ UNCHANGED <<alive, restartVars, suspended, walk>>

\* The end of unreg_io, after unreg_io of the target.
HubErase(s) ==
    /\ ChangeMap(map \ {s})
    /\ UNCHANGED <<alive, restartVars, suspended>>

-----------------------------------------------------------------------------
(* perform_io                                                              *)

SetWalk(w, new) ==
    /\ walk' = [walk EXCEPT ![w] = new]
    /\ UNCHANGED <<map, alive, restartVars, suspended>>

\* A suspended hub returns at once, and nobody hears of the message.
HubPerformIo(w, from, owed) ==
    /\ walk[w].at = "idle"
    /\ ~suspended
    /\ SetWalk(w, [Idle EXCEPT !.at = "loop", !.from = from, !.todo = map,
                               !.owed = owed \ {from}, !.overlap = restarting # "no"])

\* Mutant: the loop ends at the sender.
LoopToSender(w) ==
    /\ walk[w].at = "loop"
    /\ \E s \in walk[w].todo :
         IF s = walk[w].from
         THEN SetWalk(w, [walk[w] EXCEPT !.todo = {}])
         ELSE SetWalk(w, [walk[w] EXCEPT !.todo = @ \ {s}, !.at = "deliver", !.to = s])

\* Mutant: the sender is an entry like any other.
LoopToAll(w) ==
    /\ walk[w].at = "loop"
    /\ \E s \in walk[w].todo :
         IF s \in alive
         THEN SetWalk(w, [walk[w] EXCEPT !.todo = @ \ {s}, !.at = "deliver", !.to = s])
         ELSE SetWalk(w, [walk[w] EXCEPT !.todo = @ \ {s}])

\* The next entry: the sender is passed over, and so is who is gone.
Loop(w) ==
    /\ walk[w].at = "loop"
    /\ \E s \in walk[w].todo :
         IF s # walk[w].from /\ s \in alive
         THEN SetWalk(w, [walk[w] EXCEPT !.todo = @ \ {s}, !.at = "deliver", !.to = s])
         ELSE SetWalk(w, [walk[w] EXCEPT !.todo = @ \ {s}])

\* perform_io of the object, which is the caller's to model.
Deliver(w) ==
    /\ walk[w].at = "deliver"
    /\ SetWalk(w, [walk[w] EXCEPT !.at = "loop", !.to = Nobody, !.owed = @ \ {walk[w].to}])

EndLoop(w) ==
    /\ walk[w].at = "loop"
    /\ walk[w].todo = {}
    /\ SetWalk(w, [walk[w] EXCEPT !.at = "target"])

\* Mutant: the target gets every message.
ToTargetAlways(w) == walk[w].at = "target" /\ SetWalk(w, [walk[w] EXCEPT !.at = "give"])

\* The message is the target's too, unless the target sent it.
ToTarget(w) ==
    /\ walk[w].at = "target"
    /\ IF walk[w].from # handler_id
       THEN SetWalk(w, [walk[w] EXCEPT !.at = "give"])
       ELSE SetWalk(w, Idle)

\* perform_io of the target, with the _handler_id of the moment.
Give(w) == walk[w].at = "give" /\ SetWalk(w, Idle)

-----------------------------------------------------------------------------
(* restart, and the target                                                 *)

\* Mutant: the target_handler of the start is kept.
RestartHandlerOnce ==
    /\ restarting = "handler"
    /\ handler' = IF handler = NoHandler THEN handler_id ELSE handler
    /\ restarting' = "reg"
    /\ UNCHANGED <<map, alive, handler_id, known, suspended, walk>>

RestartId ==
    /\ restarting = "no"
    /\ handler_id < MaxRestarts
    /\ handler_id' = handler_id + 1
    /\ restarting' = "handler"
    /\ walk' = [w \in Performers |-> [walk[w] EXCEPT !.overlap = walk[w].at # "idle"]]
    /\ UNCHANGED <<map, alive, handler, known, suspended>>

\* Mutant: the target is told the io_id of before.
RestartRegOld ==
    /\ restarting = "reg"
    /\ known' = known \cup {handler_id - 1}
    /\ restarting' = "no"
    /\ UNCHANGED <<map, alive, handler_id, handler, suspended, walk>>

\* The old target_handler is destroyed.
RestartHandler ==
    /\ restarting = "handler"
    /\ handler' = handler_id
    /\ restarting' = "reg"
    /\ UNCHANGED <<map, alive, handler_id, known, suspended, walk>>

RestartReg ==
    /\ restarting = "reg"
    /\ known' = known \cup {handler_id}
    /\ restarting' = "no"
    /\ UNCHANGED <<map, alive, handler_id, handler, suspended, walk>>

RestartStep == RestartHandler \/ RestartReg

\* A handler lives as _target_handler and while a thread is in its perform_io.
Lives(h) == h = handler \/ \E w \in Performers : walk[w].at # "idle" /\ walk[w].from = h

\* A thread of the target locks a handler the target was told of; while it holds
\* it a restart may replace it.
LockHandler(w) ==
    /\ walk[w].at = "idle"
    /\ \E h \in known :
         /\ Lives(h)
         /\ SetWalk(w, [Idle EXCEPT !.at = "held", !.from = h,
                                    !.overlap = restarting # "no" \/ h # handler])

\* perform_io of the handler calls that of the hub, with the handler's io_id.
TargetSends(w, owed) ==
    /\ walk[w].at = "held"
    /\ IF suspended
       THEN SetWalk(w, Idle)
       ELSE SetWalk(w, [walk[w] EXCEPT !.at = "loop", !.todo = map, !.owed = owed])

SuspendHub ==
    /\ suspended' = ~suspended
    /\ UNCHANGED <<map, alive, restartVars, walk>>
=============================================================================
