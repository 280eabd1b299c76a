---------------------------- MODULE FanoutProofs ----------------------------
(***************************************************************************)
(* Theorems about Fanout, for any connections, any number of threads that  *)
(* perform messages and any number of restarts.                            *)
(***************************************************************************)
EXTENDS Fanout, TLAPS

(***************************************************************************)
(* Where the thread of a connection is in statistics says how far the      *)
(* connection is, and where restart is whether it made an io_id.           *)
(***************************************************************************)
PhaseInv ==
    /\ \A s \in Sources :
         /\ stat[s] = "reg" => stage[s] = "up"
         /\ stat[s] \in {"unreg", "untrack"} => stage[s] = "left"
         /\ s \in erasing => stat[s] = "unreg"
    /\ restarting # "no" => handler_id # NoHandler

TypeInv == TypeOK /\ PhaseInv

-----------------------------------------------------------------------------
(* Walks                                                                   *)

\* What a change of _map does: walks that are in it are disturbed.
LEMMA ChangeMapEffect ==
    ASSUME TypeInv, NEW new \in SUBSET Sources, ChangeMap(new)
    PROVE  /\ map' = new
           /\ walk' \in [Performers -> Walks]
           /\ \A w \in Performers :
                IF Walking(w) /\ new # map
                THEN \E S \in SUBSET Sources :
                       walk'[w] = [walk[w] EXCEPT !.todo = S, !.owed = {}, !.raced = TRUE]
                ELSE walk'[w] = walk[w]
<1>1. PICK rest \in [Performers -> SUBSET (map \cup new)] :
        walk' = [w \in Performers |->
                   IF Walking(w) /\ new # map
                   THEN [walk[w] EXCEPT !.todo = rest[w], !.owed = {}, !.raced = TRUE]
                   ELSE walk[w]]
  BY DEF ChangeMap
<1>2. \A w \in Performers : rest[w] \in SUBSET Sources /\ walk[w] \in Walks
  BY DEF TypeInv, TypeOK
<1>3. \A w \in Performers :
        [walk[w] EXCEPT !.todo = rest[w], !.owed = {}, !.raced = TRUE] \in Walks
  BY <1>2 DEF Walks
<1>4. walk' \in [Performers -> Walks]
  BY <1>1, <1>2, <1>3
<1>5. ASSUME NEW w \in Performers
      PROVE  IF Walking(w) /\ new # map
             THEN \E S \in SUBSET Sources :
                    walk'[w] = [walk[w] EXCEPT !.todo = S, !.owed = {}, !.raced = TRUE]
             ELSE walk'[w] = walk[w]
  BY <1>1, <1>2
<1> QED
  BY <1>4, <1>5 DEF ChangeMap

\* One step of a walk: the walk is replaced, and no other is touched.
LEMMA SetWalkEffect ==
    ASSUME TypeInv, NEW w \in Performers, NEW new \in Walks, SetWalk(w, new)
    PROVE  /\ walk' \in [Performers -> Walks]
           /\ walk'[w] = new
           /\ \A v \in Performers \ {w} : walk'[v] = walk[v]
           /\ UNCHANGED <<map, alive, restartVars, suspended>>
BY DEF TypeInv, TypeOK, SetWalk

\* The steps of perform_io, in the fields of a walk before and after.
SameCall(x, new) == new.from = x.from /\ new.raced = x.raced /\ new.overlap = x.overlap

Begins(new) ==
    /\ new.at = "loop"
    /\ new.from \in Sources
    /\ new.todo = map
    /\ new.to = Nobody
    /\ new.owed = Audience \ {new.from}

Locks(new) ==
    /\ new.at = "held"
    /\ new.from \in Handlers
    /\ new.to = Nobody
    /\ new.owed = {}
    /\ ~new.overlap => restarting = "no" /\ new.from = handler

Goes(x, new) ==
    /\ x.at = "held"
    /\ new.at = "loop"
    /\ new.todo = map
    /\ new.to = x.to
    /\ new.owed = Audience
    /\ SameCall(x, new)

Selects(x, new) ==
    /\ x.at = "loop"
    /\ new.at = "deliver"
    /\ new.to \in x.todo \cap alive
    /\ new.to # x.from
    /\ new.todo = x.todo \ {new.to}
    /\ new.owed = x.owed
    /\ SameCall(x, new)

Skips(x, new) ==
    /\ x.at = "loop"
    /\ new.at = "loop"
    /\ \E s \in x.todo : (s = x.from \/ s \notin alive) /\ new.todo = x.todo \ {s}
    /\ new.to = x.to
    /\ new.owed = x.owed
    /\ SameCall(x, new)

Delivers(x, new) ==
    /\ x.at = "deliver"
    /\ new.at = "loop"
    /\ new.to = Nobody
    /\ new.todo = x.todo
    /\ new.owed = x.owed \ {x.to}
    /\ SameCall(x, new)

Ends(x, new) ==
    /\ x.at = "loop"
    /\ x.todo = {}
    /\ new.at = "target"
    /\ new.to = x.to
    /\ new.owed = x.owed
    /\ SameCall(x, new)

Tests(x, new) ==
    /\ x.at = "target"
    /\ new.at = "give"
    /\ x.from # handler_id
    /\ new.to = x.to
    /\ new.owed = x.owed
    /\ SameCall(x, new)

\* perform_io as steps of one walk from x to new.
Moves(x, new) ==
    \/ Begins(new)
    \/ Locks(new)
    \/ Goes(x, new)
    \/ Selects(x, new)
    \/ Skips(x, new)
    \/ Delivers(x, new)
    \/ Ends(x, new)
    \/ Tests(x, new)
    \/ new = Idle

LEMMA WalkStepEffect ==
    ASSUME TypeInv, NEW w \in Performers, Perform(w) \/ WalkStep(w)
    PROVE  \E new \in Walks : SetWalk(w, new) /\ Moves(walk[w], new)
<1> USE DEF Moves
<1>1. walk[w] \in Walks /\ map \in SUBSET Sources
  BY DEF TypeInv, TypeOK
<1>2. /\ walk[w].todo \in SUBSET Sources
      /\ walk[w].owed \in SUBSET Sources
  BY <1>1 DEF Walks
<1>3. CASE Perform(w)
  <2>1. CASE LockHandler(w)
    <3>1. PICK h \in known :
            SetWalk(w, [Idle EXCEPT !.at = "held", !.from = h,
                                    !.overlap = restarting # "no" \/ h # handler])
      BY <2>1 DEF LockHandler
    <3> DEFINE new == [Idle EXCEPT !.at = "held", !.from = h,
                                   !.overlap = restarting # "no" \/ h # handler]
    <3>2. h \in Handlers
      BY DEF TypeInv, TypeOK
    <3>3. new \in Walks
      BY <3>2 DEF Walks, Idle
    <3>4. Locks(new)
      BY <3>2 DEF Locks, Idle
    <3> HIDE DEF new
    <3> QED
      BY <3>1, <3>3, <3>4 DEF new
  <2>2. CASE ~LockHandler(w)
    <3>1. PICK from \in Sources : HubPerformIo(w, from, Audience)
      BY <1>3, <2>2 DEF Perform, Direct
    <3> DEFINE new == [Idle EXCEPT !.at = "loop", !.from = from, !.todo = map,
                                   !.owed = Audience \ {from}, !.overlap = restarting # "no"]
    <3>2. Audience \in SUBSET Sources
      BY DEF Audience
    <3>3. new \in Walks
      BY <1>1, <3>2 DEF Walks, Idle
    <3>4. Begins(new)
      BY DEF Idle, Begins
    <3>5. SetWalk(w, new)
      BY <3>1 DEF HubPerformIo
    <3> HIDE DEF new
    <3> QED
      BY <3>3, <3>4, <3>5
  <2> QED
    BY <2>1, <2>2
<1>4. CASE WalkStep(w)
  <2>1. CASE Loop(w)
    <3>1. PICK s \in walk[w].todo :
            IF s # walk[w].from /\ s \in alive
            THEN SetWalk(w, [walk[w] EXCEPT !.todo = @ \ {s}, !.at = "deliver", !.to = s])
            ELSE SetWalk(w, [walk[w] EXCEPT !.todo = @ \ {s}])
      BY <2>1 DEF Loop
    <3> DEFINE one == [walk[w] EXCEPT !.todo = @ \ {s}, !.at = "deliver", !.to = s]
               two == [walk[w] EXCEPT !.todo = @ \ {s}]
    <3>2. one \in Walks /\ two \in Walks
      BY <1>1, <1>2 DEF Walks
    <3>3. s # walk[w].from /\ s \in alive => Selects(walk[w], one)
      BY <1>1, <2>1 DEF Walks, Loop, Selects, SameCall
    <3>4. s = walk[w].from \/ s \notin alive => Skips(walk[w], two)
      BY <1>1, <2>1 DEF Walks, Loop, Skips, SameCall
    <3>5. \/ SetWalk(w, one) /\ s # walk[w].from /\ s \in alive
          \/ SetWalk(w, two) /\ (s = walk[w].from \/ s \notin alive)
      BY <3>1
    <3> HIDE DEF one, two
    <3> QED
      BY <3>2, <3>3, <3>4, <3>5
  <2>2. CASE Deliver(w)
    <3> DEFINE new == [walk[w] EXCEPT !.at = "loop", !.to = Nobody, !.owed = @ \ {walk[w].to}]
    <3>1. new \in Walks /\ Delivers(walk[w], new)
      BY <1>1, <1>2, <2>2 DEF Walks, Deliver, Delivers, SameCall
    <3>2. SetWalk(w, new)
      BY <2>2 DEF Deliver
    <3> HIDE DEF new
    <3> QED
      BY <3>1, <3>2
  <2>3. CASE EndLoop(w)
    <3> DEFINE new == [walk[w] EXCEPT !.at = "target"]
    <3>1. new \in Walks /\ Ends(walk[w], new)
      BY <1>1, <2>3 DEF Walks, EndLoop, Ends, SameCall
    <3>2. SetWalk(w, new)
      BY <2>3 DEF EndLoop
    <3> HIDE DEF new
    <3> QED
      BY <3>1, <3>2
  <2>4. Idle \in Walks
    BY DEF Walks, Idle
  <2>5. CASE ToTarget(w)
    <3> DEFINE new == [walk[w] EXCEPT !.at = "give"]
    <3>1. new \in Walks
      BY <1>1 DEF Walks
    <3>2. walk[w].from # handler_id => Tests(walk[w], new)
      BY <1>1, <2>5 DEF Walks, ToTarget, Tests, SameCall
    <3>3. IF walk[w].from # handler_id THEN SetWalk(w, new) ELSE SetWalk(w, Idle)
      BY <2>5 DEF ToTarget
    <3> HIDE DEF new
    <3> QED
      BY <2>4, <3>1, <3>2, <3>3
  <2>6. CASE Give(w)
    BY <2>4, <2>6 DEF Give
  <2>7. CASE TargetSends(w, Audience)
    <3> DEFINE new == [walk[w] EXCEPT !.at = "loop", !.todo = map, !.owed = Audience]
    <3>1. Audience \in SUBSET Sources
      BY DEF Audience
    <3>2. new \in Walks
      BY <1>1, <3>1 DEF Walks
    <3>3. Goes(walk[w], new)
      BY <1>1, <2>7 DEF Walks, TargetSends, Goes, SameCall
    <3>4. SetWalk(w, new) \/ SetWalk(w, Idle)
      BY <2>7 DEF TargetSends
    <3> HIDE DEF new
    <3> QED
      BY <2>4, <3>2, <3>3, <3>4
  <2> QED
    BY <1>4, <2>1, <2>2, <2>3, <2>5, <2>6, <2>7 DEF WalkStep
<1> QED
  BY <1>3, <1>4

-----------------------------------------------------------------------------
(* Types                                                                   *)

LEMMA TypeInit ==
    ASSUME Init
    PROVE  TypeInv
<1>1. Idle \in Walks
  BY DEF Idle, Walks
<1>2. TypeOK
  BY <1>1, HubAssumption, FanoutAssumption
  DEF Init, HubInit, StatInit, TypeOK, NoHandler, Handlers
<1> QED
  BY <1>2, FanoutAssumption DEF Init, HubInit, StatInit, TypeInv, PhaseInv

\* Steps of a connection that leave _map alone.
LEMMA ConnectionType ==
    ASSUME TypeInv, NEW s \in Sources,
           Connect(s) \/ Leave(s) \/ Destroy(s) \/ Withdraw(s) \/ Forget(s)
    PROVE  TypeInv'
<1> USE FanoutAssumption DEF TypeInv, TypeOK, PhaseInv, hubVars, restartVars, statVars, ownVars
<1>1. CASE Connect(s)
  BY <1>1 DEF Connect, StatRegIo, At
<1>2. CASE Leave(s)
  BY <1>2 DEF Leave, StatUnregIo, At
<1>3. CASE Destroy(s)
  BY <1>3 DEF Destroy
<1>4. CASE Withdraw(s)
  BY <1>4 DEF Withdraw, Missed, TargetUnreg, At
<1>5. CASE Forget(s)
  BY <1>5 DEF Forget, Untrack, At
<1> QED
  BY <1>1, <1>2, <1>3, <1>4, <1>5

\* The critical sections of the hub.
LEMMA MapType ==
    ASSUME TypeInv, NEW s \in Sources, Announce(s) \/ Remove(s)
    PROVE  TypeInv'
<1>1. map' \in SUBSET Sources /\ walk' \in [Performers -> Walks]
  <2>1. map \cup {s} \in SUBSET Sources /\ map \ {s} \in SUBSET Sources
    BY DEF TypeInv, TypeOK
  <2>2. \/ ChangeMap(map \cup {s})
        \/ ChangeMap(map \ {s})
        \/ UNCHANGED <<map, walk>>
    BY DEF Announce, Remove, HubRegIo, HubErase
  <2> QED
    BY <2>1, <2>2, ChangeMapEffect DEF TypeInv, TypeOK
<1>2. CASE Announce(s)
  BY <1>1, <1>2, FanoutAssumption
  DEF Announce, HubRegIo, TargetReg, At, Missed, TypeInv, TypeOK, PhaseInv, restartVars
<1>3. CASE Remove(s)
  BY <1>1, <1>3, FanoutAssumption
  DEF Remove, HubErase, TargetUnreg, At, TypeInv, TypeOK, PhaseInv, restartVars
<1> QED
  BY <1>2, <1>3

LEMMA WalkType ==
    ASSUME TypeInv, NEW w \in Performers, Perform(w) \/ WalkStep(w)
    PROVE  TypeInv'
<1>1. \E new \in Walks : SetWalk(w, new)
  BY WalkStepEffect
<1>2. walk' \in [Performers -> Walks] /\ UNCHANGED <<map, alive, restartVars, suspended>>
  BY <1>1, SetWalkEffect
<1>3. UNCHANGED <<statVars, ownVars>>
  BY DEF Perform, WalkStep
<1> QED
  BY <1>2, <1>3 DEF TypeInv, TypeOK, PhaseInv, restartVars, statVars, ownVars

LEMMA HubStepType ==
    ASSUME TypeInv, HubStep
    PROVE  TypeInv'
<1> USE HubAssumption DEF TypeInv, TypeOK, PhaseInv, hubVars, restartVars, statVars, ownVars,
                          NoHandler, Handlers
<1>1. CASE RestartId
  <2>1. walk' \in [Performers -> Walks]
    <3>1. \A w \in Performers : [walk[w] EXCEPT !.overlap = walk[w].at # "idle"] \in Walks
      <4> SUFFICES ASSUME NEW w \in Performers, NEW b \in BOOLEAN
                   PROVE  [walk[w] EXCEPT !.overlap = b] \in Walks
        OBVIOUS
      <4> QED
        BY DEF Walks
    <3> QED
      BY <1>1, <3>1 DEF RestartId
  <2> QED
    BY <1>1, <2>1 DEF HubStep, RestartId
<1>2. CASE RestartHandler
  BY <1>2 DEF HubStep, RestartHandler
<1>3. CASE RestartReg
  BY <1>3 DEF HubStep, RestartReg
<1>4. CASE SuspendHub
  BY <1>4 DEF HubStep, SuspendHub
<1> QED
  BY <1>1, <1>2, <1>3, <1>4 DEF HubStep, RestartStep

LEMMA TypeNext ==
    ASSUME TypeInv, [Next]_vars
    PROVE  TypeInv'
<1>1. CASE Next
  BY <1>1, ConnectionType, MapType, WalkType, HubStepType DEF Next, ConnStep
<1>2. CASE UNCHANGED vars
  BY <1>2 DEF TypeInv, TypeOK, PhaseInv, vars, hubVars, restartVars, statVars, ownVars
<1> QED
  BY <1>1, <1>2

(***************************************************************************)
(* All variables of statistics and io-hub keep their types.                *)
(***************************************************************************)
THEOREM FanoutTypeCorrect == Spec => []TypeOK
<1>1. Init => TypeInv
  BY TypeInit
<1>2. TypeInv /\ [Next]_vars => TypeInv'
  BY TypeNext
<1>3. TypeInv => TypeOK
  BY DEF TypeInv
<1> QED
  BY <1>1, <1>2, <1>3, PTL DEF Spec

-----------------------------------------------------------------------------
(* Who is known where                                                      *)

(***************************************************************************)
(* statistics counts a connection from the beginning of reg_io to the end  *)
(* of unreg_io; _map has it from the end of reg_io to the end of unreg_io  *)
(* of the hub, unless the hub was suspended then.                          *)
(***************************************************************************)
KnownInv ==
    /\ tracked = {s \in Sources : stage[s] = "up" \/ ~Settled(s)}
    /\ \A s \in Sources \ missed :
         s \in map <=> (stage[s] = "up" /\ Settled(s)) \/ stat[s] = "unreg"

\* The connection is behind its unreg_io of the hub.
Away(s) == stage[s] = "left" /\ stat[s] # "unreg"

(***************************************************************************)
(* What a walk has before it: the sources it owes the message and that     *)
(* exist, and, undisturbed, nobody who left.                               *)
(***************************************************************************)
WalkInv ==
    \A w \in Performers :
        /\ walk[w].at # "deliver" => walk[w].to = Nobody
        /\ walk[w].at = "deliver" => walk[w].to # walk[w].from
        /\ walk[w].at = "held" => walk[w].from \in Handlers
        /\ walk[w].at # "idle" =>
             /\ walk[w].from \notin walk[w].owed
             /\ \A s \in walk[w].owed : stage[s] # "new"
        /\ Walking(w) => walk[w].owed \cap alive \subseteq walk[w].todo \cup {walk[w].to}
        /\ walk[w].at = "target" => walk[w].owed \cap alive = {}
        /\ Walking(w) /\ ~walk[w].raced =>
             \A s \in Sources \ missed : Away(s) => s \notin walk[w].todo \cup {walk[w].to}

\* The io_id the target sends with is the hub's, unless a restart is under way,
\* so that only then the hub takes its message for another's.
HandlerInv ==
    /\ restarting # "handler" => handler = handler_id
    /\ \A w \in Performers :
         walk[w].at # "idle" /\ walk[w].from \in Handlers /\ ~walk[w].overlap
             => restarting = "no" /\ walk[w].from = handler_id
    /\ \A w \in Performers :
         walk[w].at = "give" /\ walk[w].from \in Handlers => walk[w].overlap

Inv == TypeInv /\ KnownInv /\ WalkInv /\ HandlerInv

LEMMA InvInit ==
    ASSUME Init
    PROVE  Inv
<1>1. TypeInv
  BY TypeInit
<1>2. KnownInv
  BY FanoutAssumption DEF Init, HubInit, StatInit, KnownInv, Settled
<1>3. WalkInv
  BY DEF Init, HubInit, WalkInv, Idle, Walking
<1>4. HandlerInv
  BY DEF Init, HubInit, HandlerInv, Idle
<1> QED
  BY <1>1, <1>2, <1>3, <1>4 DEF Inv

\* Only the two sections of reg_io and unreg_io change _map.
LEMMA KnownNext ==
    ASSUME Inv, [Next]_vars
    PROVE  KnownInv'
<1> USE FanoutAssumption
    DEF Inv, TypeInv, TypeOK, PhaseInv, KnownInv, Settled, hubVars, statVars, ownVars
<1>1. ASSUME NEW s \in Sources, Connect(s) PROVE KnownInv'
  BY <1>1 DEF Connect, StatRegIo, At
<1>2. ASSUME NEW s \in Sources, Leave(s) PROVE KnownInv'
  BY <1>2 DEF Leave, StatUnregIo, At
<1>3. ASSUME NEW s \in Sources, Destroy(s) PROVE KnownInv'
  BY <1>3 DEF Destroy
<1>4. ASSUME NEW s \in Sources, Announce(s) PROVE KnownInv'
  BY <1>4 DEF Announce, HubRegIo, ChangeMap, Missed, TargetReg, At
<1>5. ASSUME NEW s \in Sources, Withdraw(s) PROVE KnownInv'
  BY <1>5 DEF Withdraw, Missed, TargetUnreg, At
<1>6. ASSUME NEW s \in Sources, Remove(s) PROVE KnownInv'
  BY <1>6 DEF Remove, HubErase, ChangeMap, TargetUnreg, At
<1>7. ASSUME NEW s \in Sources, Forget(s) PROVE KnownInv'
  BY <1>7 DEF Forget, Untrack, At
<1>8. ASSUME NEW w \in Performers, Perform(w) \/ WalkStep(w) PROVE KnownInv'
  <2>1. UNCHANGED <<map, statVars, ownVars>>
    BY <1>8, WalkStepEffect DEF SetWalk, Perform, WalkStep
  <2> QED
    BY <2>1
<1>9. CASE HubStep
  BY <1>9 DEF HubStep, RestartStep, RestartId, RestartHandler, RestartReg, SuspendHub
<1>10. CASE UNCHANGED vars
  BY <1>10 DEF vars
<1> QED
  BY <1>1, <1>2, <1>3, <1>4, <1>5, <1>6, <1>7, <1>8, <1>9, <1>10 DEF Next, ConnStep

LEMMA HandlerNext ==
    ASSUME Inv, [Next]_vars
    PROVE  HandlerInv'
<1> USE DEF Inv, HandlerInv, hubVars, restartVars, statVars, ownVars
<1>1. ASSUME NEW s \in Sources,
             Connect(s) \/ Leave(s) \/ Destroy(s) \/ Withdraw(s) \/ Forget(s)
      PROVE  HandlerInv'
  BY <1>1 DEF Connect, Leave, Destroy, Withdraw, Forget
<1>2. ASSUME NEW s \in Sources, Announce(s) \/ Remove(s) PROVE HandlerInv'
  <2>1. \A w \in Performers :
          /\ walk'[w].at = walk[w].at
          /\ walk'[w].from = walk[w].from
          /\ walk'[w].overlap = walk[w].overlap
    <3>1. map \cup {s} \in SUBSET Sources /\ map \ {s} \in SUBSET Sources
      BY DEF TypeInv, TypeOK
    <3>2. \/ ChangeMap(map \cup {s})
          \/ ChangeMap(map \ {s})
          \/ UNCHANGED walk
      BY <1>2 DEF Announce, Remove, HubRegIo, HubErase
    <3> SUFFICES ASSUME NEW w \in Performers
                 PROVE  /\ walk'[w].at = walk[w].at
                        /\ walk'[w].from = walk[w].from
                        /\ walk'[w].overlap = walk[w].overlap
      OBVIOUS
    <3>3. \/ walk'[w] = walk[w]
          \/ \E S \in SUBSET Sources :
               walk'[w] = [walk[w] EXCEPT !.todo = S, !.owed = {}, !.raced = TRUE]
      BY <3>1, <3>2, ChangeMapEffect
    <3>4. walk[w] \in Walks
      BY DEF TypeInv, TypeOK
    <3> QED
      BY <3>3, <3>4 DEF Walks
  <2>2. UNCHANGED restartVars
    BY <1>2 DEF Announce, Remove, HubRegIo, HubErase
  <2> QED
    BY <2>1, <2>2
<1>3. ASSUME NEW w \in Performers, Perform(w) \/ WalkStep(w) PROVE HandlerInv'
  <2>1. PICK new \in Walks : SetWalk(w, new) /\ Moves(walk[w], new)
    BY <1>3, WalkStepEffect
  <2>2. /\ walk'[w] = new
        /\ \A v \in Performers \ {w} : walk'[v] = walk[v]
        /\ UNCHANGED restartVars
    BY <2>1, SetWalkEffect
  <2>3. \A s \in Sources : s \notin Handlers
    BY HubAssumption
  <2>4. restarting # "handler" => handler = handler_id
    OBVIOUS
  <2>5. walk'[w].at # "idle" /\ walk'[w].from \in Handlers /\ ~walk'[w].overlap
          => restarting = "no" /\ walk'[w].from = handler_id
    <3>1. \/ new.from \in Sources
          \/ ~new.overlap => restarting = "no" /\ new.from = handler
          \/ /\ walk[w].at # "idle"
             /\ new.from = walk[w].from /\ new.overlap = walk[w].overlap
          \/ new = Idle
      BY <2>1 DEF Moves, Begins, Locks, Goes, Selects, Skips, Delivers, Ends, Tests, SameCall
    <3> QED
      BY <2>2, <2>3, <2>4, <3>1 DEF Idle
  <2>6. walk'[w].at = "give" /\ walk'[w].from \in Handlers => walk'[w].overlap
    <3>1. new.at = "give" => Tests(walk[w], new)
      BY <2>1 DEF Moves, Begins, Locks, Goes, Selects, Skips, Delivers, Ends, Idle
    <3> QED
      BY <2>2, <3>1 DEF Tests, SameCall
  <2> QED
    BY <2>2, <2>5, <2>6
<1>4. CASE HubStep
  <2>1. CASE RestartId
    <3>1. \A w \in Performers :
            /\ walk'[w].at = walk[w].at
            /\ walk'[w].overlap = (walk[w].at # "idle")
      <4> SUFFICES ASSUME NEW w \in Performers
                   PROVE  /\ walk'[w].at = walk[w].at
                          /\ walk'[w].overlap = (walk[w].at # "idle")
        OBVIOUS
      <4>1. walk'[w] = [walk[w] EXCEPT !.overlap = walk[w].at # "idle"]
        BY <2>1 DEF RestartId
      <4>2. walk[w] \in Walks
        BY DEF TypeInv, TypeOK
      <4>3. DOMAIN walk[w] = {"at", "from", "todo", "to", "owed", "raced", "overlap"}
        BY <4>2 DEF Walks
      <4> QED
        BY <4>1, <4>3, Zenon
    <3> QED
      BY <2>1, <3>1 DEF RestartId
  <2>2. CASE RestartHandler
    BY <2>2 DEF RestartHandler
  <2>3. CASE RestartReg
    BY <2>3 DEF RestartReg
  <2>4. CASE SuspendHub
    BY <2>4 DEF SuspendHub
  <2> QED
    BY <1>4, <2>1, <2>2, <2>3, <2>4 DEF HubStep, RestartStep
<1>5. CASE UNCHANGED vars
  BY <1>5 DEF vars
<1> QED
  BY <1>1, <1>2, <1>3, <1>4, <1>5 DEF Next, ConnStep

\* The part of WalkInv that is about one walk.
WalkOK(x) ==
    /\ x.at # "deliver" => x.to = Nobody
    /\ x.at = "deliver" => x.to # x.from
    /\ x.at = "held" => x.from \in Handlers
    /\ x.at # "idle" => x.from \notin x.owed /\ \A s \in x.owed : stage[s] # "new"
    /\ x.at \in {"loop", "deliver"} => x.owed \cap alive \subseteq x.todo \cup {x.to}
    /\ x.at = "target" => x.owed \cap alive = {}
    /\ x.at \in {"loop", "deliver"} /\ ~x.raced =>
         \A s \in Sources \ missed : Away(s) => s \notin x.todo \cup {x.to}

LEMMA WalkInvIs == WalkInv <=> \A w \in Performers : WalkOK(walk[w])
BY DEF WalkInv, WalkOK, Walking

\* A step of a connection that leaves a walk alone does not spoil it, unless
\* the connection is away from now on.
LEMMA WalkKept ==
    ASSUME TypeInv, NEW x \in Walks, WalkOK(x),
           missed \subseteq missed',
           \A s \in Sources : Away(s)' => Away(s) \/ s \in missed' \/ x.raced,
           \A s \in Sources : stage'[s] = "new" => stage[s] = "new",
           \A s \in Sources : s \in alive' => s \in alive \/ stage[s] = "new"
    PROVE  WalkOK(x)'
<1>1. x.owed \in SUBSET Sources
  BY DEF Walks
<1>2. WalkOK(x)' <=>
        /\ x.at # "deliver" => x.to = Nobody
        /\ x.at = "deliver" => x.to # x.from
        /\ x.at = "held" => x.from \in Handlers
        /\ x.at # "idle" => x.from \notin x.owed /\ \A s \in x.owed : stage'[s] # "new"
        /\ x.at \in {"loop", "deliver"} => x.owed \cap alive' \subseteq x.todo \cup {x.to}
        /\ x.at = "target" => x.owed \cap alive' = {}
        /\ x.at \in {"loop", "deliver"} /\ ~x.raced =>
             \A s \in Sources \ missed' : Away(s)' => s \notin x.todo \cup {x.to}
  BY DEF WalkOK
<1>3. x.at # "idle" => x.owed \cap alive' \subseteq x.owed \cap alive
  BY <1>1 DEF WalkOK
<1> QED
  BY <1>1, <1>2, <1>3 DEF WalkOK

\* Steps of perform_io.
LEMMA WalkStepOK ==
    ASSUME Inv, NEW w \in Performers, NEW new \in Walks,
           Moves(walk[w], new)
    PROVE  WalkOK(new)
<1>1. /\ walk[w] \in Walks
      /\ WalkOK(walk[w])
      /\ Nobody \notin Sources
  BY HubAssumption, WalkInvIs DEF Inv, TypeInv, TypeOK
<1>2. walk[w].owed \subseteq Sources /\ walk[w].todo \subseteq Sources
  BY <1>1 DEF Walks
<1>3. CASE Begins(new) \/ Goes(walk[w], new)
  <2>1. Audience \subseteq map /\ \A s \in Audience : stage[s] = "up"
    BY DEF Audience, Inv, KnownInv, Registered
  <2>2. \A s \in Sources \ missed : Away(s) => s \notin map
    BY DEF Inv, KnownInv, Away
  <2>3. CASE Begins(new)
    BY <1>1, <2>1, <2>2, <2>3 DEF WalkOK, Begins
  <2>4. CASE Goes(walk[w], new)
    <3>1. walk[w].from \notin Audience
      BY <1>1, <2>4, HubAssumption DEF WalkOK, Goes, Audience
    <3> QED
      BY <1>1, <2>1, <2>2, <2>4, <3>1 DEF WalkOK, Goes, SameCall
  <2> QED
    BY <1>3, <2>3, <2>4
<1>4. CASE Selects(walk[w], new)
  BY <1>1, <1>2, <1>4 DEF WalkOK, Selects, SameCall
<1>5. CASE Skips(walk[w], new)
  BY <1>1, <1>2, <1>5 DEF WalkOK, Skips, SameCall
<1>6. CASE Delivers(walk[w], new)
  BY <1>1, <1>2, <1>6 DEF WalkOK, Delivers, SameCall
<1>7. CASE Ends(walk[w], new)
  BY <1>1, <1>2, <1>7 DEF WalkOK, Ends, SameCall
<1>8. CASE Tests(walk[w], new)
  BY <1>1, <1>2, <1>8 DEF WalkOK, Tests, SameCall
<1>9. CASE Locks(new)
  BY <1>9 DEF WalkOK, Locks
<1>10. CASE new = Idle
  BY <1>10 DEF WalkOK, Idle
<1> QED
  BY <1>3, <1>4, <1>5, <1>6, <1>7, <1>8, <1>9, <1>10 DEF Moves

LEMMA WalkNext ==
    ASSUME Inv, [Next]_vars
    PROVE  WalkInv'
<1>1. SUFFICES \A w \in Performers : WalkOK(walk[w])'
  BY DEF WalkInv, WalkOK, Walking
<1>2. \A w \in Performers : walk[w] \in Walks /\ WalkOK(walk[w])
  BY WalkInvIs DEF Inv, TypeInv, TypeOK
<1>3. ASSUME NEW w \in Performers, NEW x \in Walks, walk'[w] = x, WalkOK(x)'
      PROVE  WalkOK(walk[w])'
  BY <1>3 DEF WalkOK
<1> DEFINE Kept(s) == /\ Away(s)' => Away(s) \/ s \in missed'
                      /\ stage'[s] = "new" => stage[s] = "new"
                      /\ s \in alive' => s \in alive \/ stage[s] = "new"
<1>4. ASSUME UNCHANGED walk, missed \subseteq missed', \A s \in Sources : Kept(s)
      PROVE  \A w \in Performers : WalkOK(walk[w])'
  BY <1>2, <1>3, <1>4, WalkKept DEF Inv
<1>5. ASSUME NEW s \in Sources,
             Connect(s) \/ Leave(s) \/ Destroy(s) \/ Withdraw(s) \/ Forget(s)
      PROVE  \A w \in Performers : WalkOK(walk[w])'
  <2>1. UNCHANGED walk /\ missed \subseteq missed'
    BY <1>5 DEF Connect, Leave, Destroy, Withdraw, Forget, Missed, hubVars, ownVars
  <2>2. ASSUME NEW r \in Sources PROVE Kept(r)
    <3> USE FanoutAssumption
        DEF Inv, TypeInv, TypeOK, PhaseInv, Away, hubVars, statVars, ownVars
    <3>1. CASE Connect(s)
      BY <3>1 DEF Connect, StatRegIo, At
    <3>2. CASE Leave(s)
      BY <3>2 DEF Leave, StatUnregIo, At
    <3>3. CASE Destroy(s)
      BY <3>3 DEF Destroy
    <3>4. CASE Withdraw(s)
      BY <3>4 DEF Withdraw, Missed, TargetUnreg, At
    <3>5. CASE Forget(s)
      BY <3>5 DEF Forget, Untrack, At
    <3> QED
      BY <1>5, <3>1, <3>2, <3>3, <3>4, <3>5
  <2> QED
    BY <1>4, <2>1, <2>2
<1>6. ASSUME NEW s \in Sources, Announce(s) \/ Remove(s)
      PROVE  \A w \in Performers : WalkOK(walk[w])'
  <2>1. PICK new \in SUBSET Sources :
          /\ Announce(s) \/ (Remove(s) /\ new = map \ {s})
          /\ ChangeMap(new) \/ (UNCHANGED <<map, walk>> /\ Announce(s))
    <3>1. map \cup {s} \in SUBSET Sources /\ map \ {s} \in SUBSET Sources
      BY DEF Inv, TypeInv, TypeOK
    <3> QED
      BY <1>6, <3>1 DEF Announce, Remove, HubRegIo, HubErase
  <2> SUFFICES ASSUME NEW w \in Performers
               PROVE  WalkOK(walk[w])'
    OBVIOUS
  <2>2. /\ \A r \in Sources : r # s => Kept(r)
        /\ missed \subseteq missed'
        /\ stage' = stage /\ alive' = alive
        /\ Announce(s) => Kept(s)
    BY <1>6, FanoutAssumption
    DEF Inv, TypeInv, TypeOK, PhaseInv, Announce, Remove, HubRegIo, HubErase, TargetReg,
        TargetUnreg, At, Missed, Away
  <2>3. walk' \in [Performers -> Walks]
    BY <2>1, ChangeMapEffect DEF Inv, TypeInv, TypeOK
  <2>4. CASE Walking(w) /\ ChangeMap(new) /\ new # map
    <3>1. PICK S \in SUBSET Sources :
            walk'[w] = [walk[w] EXCEPT !.todo = S, !.owed = {}, !.raced = TRUE]
      BY <2>4, ChangeMapEffect DEF Inv
    <3>2. /\ walk'[w].owed = {} /\ walk'[w].raced
          /\ walk'[w].at = walk[w].at /\ walk'[w].to = walk[w].to
          /\ walk'[w].from = walk[w].from
      BY <1>2, <3>1 DEF Walks
    <3> QED
      BY <1>2, <2>4, <3>2 DEF WalkOK, Walking
  <2>5. CASE ~(Walking(w) /\ ChangeMap(new) /\ new # map)
    <3>1. walk'[w] = walk[w]
      BY <2>1, <2>5, ChangeMapEffect DEF Inv
    <3>2. CASE Walking(w)
      <4>1. Remove(s) => s \in missed
        <5>1. Remove(s) => (stat[s] = "unreg" /\ new = map) \/ Announce(s)
          BY <2>1, <2>5, <3>2 DEF Remove, TargetUnreg, At
        <5>2. Remove(s) => stat[s] = "unreg" /\ ~Announce(s)
          BY DEF Remove, TargetUnreg, Announce, TargetReg, At
        <5> QED
          BY <2>1, <5>1, <5>2 DEF Inv, KnownInv
      <4>2. Kept(s)
        BY <1>6, <2>2, <4>1
      <4> QED
        BY <1>2, <1>3, <2>2, <3>1, <4>2, WalkKept DEF Inv
    <3>3. CASE ~Walking(w)
      BY <1>2, <2>2, <3>1, <3>3 DEF WalkOK, Walking
    <3> QED
      BY <3>2, <3>3
  <2> QED
    BY <2>4, <2>5
<1>7. ASSUME NEW w \in Performers, Perform(w) \/ WalkStep(w)
      PROVE  \A v \in Performers : WalkOK(walk[v])'
  <2>1. PICK new \in Walks : SetWalk(w, new) /\ WalkOK(new)
    BY <1>7, WalkStepEffect, WalkStepOK DEF Inv
  <2>2. /\ walk'[w] = new
        /\ \A v \in Performers \ {w} : walk'[v] = walk[v]
        /\ UNCHANGED <<alive, stage, stat, missed>>
    BY <1>7, <2>1, SetWalkEffect DEF Inv, Perform, WalkStep, statVars, ownVars
  <2> QED
    BY <1>2, <2>1, <2>2 DEF WalkOK, Away
<1>8. CASE HubStep
  <2>1. UNCHANGED <<alive, stage, stat, missed>>
    BY <1>8 DEF HubStep, RestartStep, RestartId, RestartHandler, RestartReg, SuspendHub,
                statVars, ownVars
  <2>2. ASSUME NEW w \in Performers
        PROVE  /\ walk'[w].at = walk[w].at
               /\ walk'[w].from = walk[w].from
               /\ walk'[w].todo = walk[w].todo
               /\ walk'[w].to = walk[w].to
               /\ walk'[w].owed = walk[w].owed
               /\ walk'[w].raced = walk[w].raced
    <3>1. \/ walk'[w] = walk[w]
          \/ walk'[w] = [walk[w] EXCEPT !.overlap = walk[w].at # "idle"]
      BY <1>8 DEF HubStep, RestartStep, RestartId, RestartHandler, RestartReg, SuspendHub
    <3> QED
      BY <1>2, <3>1 DEF Walks
  <2> QED
    BY <1>2, <2>1, <2>2 DEF WalkOK, Away
<1>9. CASE UNCHANGED vars
  BY <1>2, <1>9 DEF vars, hubVars, statVars, ownVars, WalkOK, Away
<1> QED
  BY <1>1, <1>5, <1>6, <1>7, <1>8, <1>9 DEF Next, ConnStep

LEMMA InvNext ==
    ASSUME Inv, [Next]_vars
    PROVE  Inv'
BY TypeNext, KnownNext, WalkNext, HandlerNext DEF Inv

\* Inv always holds, and with it what is proved from it.
LEMMA AlwaysInv == Spec => []Inv
<1>1. Init => Inv
  BY InvInit
<1>2. Inv /\ [Next]_vars => Inv'
  BY InvNext
<1> QED
  BY <1>1, <1>2, PTL DEF Spec

-----------------------------------------------------------------------------
(* Safety                                                                  *)

(***************************************************************************)
(* A message gets to everybody but its sender who was registered when it   *)
(* came and still exists, unless reg_io or unreg_io of another object      *)
(* changed the map meanwhile or met a suspended hub before.                *)
(***************************************************************************)
THEOREM MessagesReachAll == Spec => []ReachesAll
<1>1. Inv => ReachesAll
  BY DEF Inv, WalkInv, ReachesAll
<1> QED
  BY <1>1, AlwaysInv, PTL

(***************************************************************************)
(* Whose unreg_io has returned is not in the map, and no walk that was not *)
(* disturbed by reg_io or unreg_io comes to it, unless the hub was         *)
(* suspended when it left.                                                 *)
(***************************************************************************)
THEOREM LeaversHearNothing == Spec => []NothingAfterLeaving
<1>1. Inv => NothingAfterLeaving
  BY DEF Inv, KnownInv, WalkInv, NothingAfterLeaving, Away, Settled
<1> QED
  BY <1>1, AlwaysInv, PTL

(***************************************************************************)
(* No connection hears its own message, and the hub gives a message back   *)
(* to the target that sent it only if a restart was under way at some time *)
(* between the lock of the handler and the test of the hub, or another     *)
(* call had kept that handler alive since before a restart.                *)
(***************************************************************************)
THEOREM NobodyHearsItself == Spec => []NoEcho
<1>1. Inv => NoEcho
  BY DEF Inv, HandlerInv, WalkInv, NoEcho
<1> QED
  BY <1>1, AlwaysInv, PTL

(***************************************************************************)
(* statistics counts the connections that are registered behind it.        *)
(***************************************************************************)
THEOREM CountsConnections == Spec => []ConnectionsCounted
<1>1. Inv => ConnectionsCounted
  BY DEF Inv, TypeInv, TypeOK, PhaseInv, KnownInv, ConnectionsCounted, Settled
<1> QED
  BY <1>1, AlwaysInv, PTL
=============================================================================
