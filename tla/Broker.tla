------------------------------- MODULE Broker -------------------------------
(***************************************************************************)
(* The domain object io-broker (class broker): it gives each message to    *)
(* the target of the first rule that matches it, or to a default target,   *)
(* and announces sources to the targets of its rules.  Its callers are the *)
(* threads of the sources, one each; restart() runs on a thread of the     *)
(* application.  What a call does at a target is left to the module that   *)
(* joins the broker with its targets.                                      *)
(***************************************************************************)
EXTENDS Iinterface

CONSTANTS
    Kinds,          \* what the regular expressions can tell apart
    Configs,        \* configurations start() and restart() may be given
    MaxConfigs      \* bound on the calls of start() and restart()

Rules == [regex : SUBSET Kinds, target : Objects \cup {NoObject}]

ASSUME BrokerAssumption ==
    /\ MaxConfigs \in Nat
    /\ Configs \subseteq [rules : Seq(Rules), target : Objects \cup {NoObject}]

VARIABLES
    opt,            \* options()
    rules,          \* _rules; _targets is the list of their targets
    default,        \* _target
    readers,        \* sources that hold the read lock of _mutex
    suspended,      \* suspended() of the broker
    main,           \* where the application is in start() or restart()
    gen,            \* how many configurations were applied
    pc,             \* where each source is in a call of the broker
    call            \* the locals of the call

brokerVars == <<opt, rules, default, readers, suspended, main, gen>>
callVars == <<pc, call>>

Ops == {"reg_io", "unreg_io", "perform_io"}

\* rest is what the loop over _targets has not reached yet; data is the kind of
\* the message of perform_io, which may be a null pointer, and to its target.
Calls == [op : Ops \cup {"none"}, rest : Seq(Objects \cup {NoObject}),
          data : Kinds \cup {NoObject}, to : Objects \cup {NoObject}]

NoCall == [op |-> "none", rest |-> <<>>, data |-> NoObject, to |-> NoObject]

BrokerTypeOK ==
    /\ opt \in Configs
    /\ rules \in Seq(Rules)
    /\ default \in Objects \cup {NoObject}
    /\ readers \subseteq Sources
    /\ suspended \in BOOLEAN
    /\ main \in {"initialized", "restart", "running"}
    /\ gen \in 0 .. MaxConfigs
    /\ pc \in [Sources -> {"idle", "lock", "loop", "route", "send"}]
    /\ call \in [Sources -> Calls]

BrokerInit ==
    /\ opt \in Configs
    /\ rules = <<>>
    /\ default = NoObject
    /\ readers = {}
    /\ suspended = FALSE
    /\ main = "initialized"
    /\ gen = 0
    /\ pc = [s \in Sources |-> "idle"]
    /\ call = [s \in Sources |-> NoCall]

-----------------------------------------------------------------------------
(* Calls                                                                   *)

\* Source s calls the method op.
Call(s, op, data) ==
    /\ pc[s] = "idle"
    /\ pc' = [pc EXCEPT ![s] = "lock"]
    /\ call' = [call EXCEPT ![s].op = op, ![s].data = data]
    /\ UNCHANGED brokerVars

\* The method takes the read lock, which others may hold too.
ReadLock(s) ==
    /\ pc[s] = "lock"
    /\ readers' = readers \cup {s}
    /\ \/ /\ call[s].op = "perform_io"
          /\ pc' = [pc EXCEPT ![s] = "route"]
          /\ UNCHANGED call
       \/ /\ call[s].op # "perform_io"
          /\ pc' = [pc EXCEPT ![s] = "loop"]
          /\ call' = [call EXCEPT ![s].rest = [i \in DOMAIN rules |-> rules[i].target]]
    /\ UNCHANGED <<opt, rules, default, suspended, main, gen>>

\* The method is over and lets go of the lock.
Return(s) ==
    /\ pc' = [pc EXCEPT ![s] = "idle"]
    /\ call' = [call EXCEPT ![s] = NoCall]
    /\ readers' = readers \ {s}
    /\ UNCHANGED <<opt, rules, default, suspended, main, gen>>

\* Mutant: the loop ends after the first target.
OnlyFirstTarget(s) ==
    /\ pc[s] = "loop"
    /\ call[s].rest # <<>>
    /\ call' = [call EXCEPT ![s].rest = <<>>]
    /\ UNCHANGED <<pc, brokerVars>>

\* The loop of reg_io and unreg_io over _targets: the next target, or the end.
NextTarget(s) ==
    /\ pc[s] = "loop"
    /\ call[s].rest # <<>>
    /\ call' = [call EXCEPT ![s].rest = Tail(@)]
    /\ UNCHANGED <<pc, brokerVars>>

EndLoop(s) ==
    /\ pc[s] = "loop"
    /\ call[s].rest = <<>>
    /\ Return(s)

\* The first rule that matches decides; a suspended broker looks at none, and
\* none is asked about a null pointer.
Matching(k) == {i \in DOMAIN rules : k \in rules[i].regex}

Route(k) ==
    IF suspended \/ k = NoObject \/ Matching(k) = {}
    THEN default
    ELSE rules[CHOOSE i \in Matching(k) : \A j \in Matching(k) : i <= j].target

\* perform_io finds the target; a message without one is thrown away.
FindTarget(s) ==
    /\ pc[s] = "route"
    /\ \/ /\ Route(call[s].data) # NoObject
          /\ call' = [call EXCEPT ![s].to = Route(call[s].data)]
          /\ pc' = [pc EXCEPT ![s] = "send"]
          /\ UNCHANGED brokerVars
       \/ /\ Route(call[s].data) = NoObject
          /\ Return(s)

\* perform_io of the target, under the lock.
SendOn(s) ==
    /\ pc[s] = "send"
    /\ Return(s)

-----------------------------------------------------------------------------
(* Life cycle                                                              *)

\* start() and restart() read the options and look the targets up ...
Restart ==
    /\ main \in {"initialized", "running"}
    /\ gen < MaxConfigs
    /\ opt' \in Configs
    /\ main' = "restart"
    /\ UNCHANGED <<rules, default, readers, suspended, gen, callVars>>

\* ... and then replace everything under the write lock.
Replace ==
    /\ main = "restart"
    /\ readers = {}
    /\ rules' = opt.rules
    /\ default' = opt.target
    /\ gen' = gen + 1
    /\ main' = "running"
    /\ UNCHANGED <<opt, readers, suspended, callVars>>

SuspendBroker ==
    /\ main = "running"
    /\ suspended' = ~suspended
    /\ UNCHANGED <<opt, rules, default, readers, main, gen, callVars>>
=============================================================================
