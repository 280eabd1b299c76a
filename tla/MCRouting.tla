----------------------------- MODULE MCRouting -----------------------------
(* Instances of Routing for TLC: queues and configurations.                *)
EXTENDS Routing, TLC

CONSTANTS q1, q2, q3, a1, b1, b2, c1, rpc

Rule(regex, target) == [regex |-> regex, target |-> target]

\* The first queue has one thread and more room, the second one two threads.
ManyWorkers == {a1, b1, b2, c1}
Assigned == [w \in Workers |-> IF w = a1 THEN q1 ELSE IF w = c1 THEN q3 ELSE q2]
Room == [q \in Queues |-> IF q = q1 THEN 2 ELSE 1]

\* Every configuration names both queues in its rules.  The third one has no
\* target.
SameTargets ==
    {[rules |-> <<Rule({rpc}, q1), Rule({rpc}, q2)>>, target |-> q3],
     [rules |-> <<Rule({rpc}, q2), Rule({}, q1)>>, target |-> NoObject]}

\* The configuration of the Readme: one rule, and a default target beside it.
DefaultBeside == {[rules |-> <<Rule({rpc}, q2)>>, target |-> q1]}

Alike == Permutations(Sources)
=============================================================================
