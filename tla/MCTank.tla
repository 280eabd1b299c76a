------------------------------- MODULE MCTank -------------------------------
(* Instances of Tank for TLC: options, counters and bounds.                *)
EXTENDS Tank

CONSTANTS k1, k2, c1

TwoTanks == {k1, k2}

Full == [jsonrpc |-> TRUE, vars |-> TRUE, check |-> TRUE]
NoJson == [jsonrpc |-> FALSE, vars |-> FALSE, check |-> TRUE]
NoCheck == [jsonrpc |-> TRUE, vars |-> FALSE, check |-> FALSE]

\* The first tank does everything or checks without JSON-RPC; the second one
\* does the like or only counts.
MixedOptions ==
    {f \in [TwoTanks -> {Full, NoJson, NoCheck}] :
        f[k1] \in {Full, NoJson} /\ f[k2] # Full}

Calls == [k \in TwoTanks |-> IF k = k1 THEN 3 ELSE 1]

\* Three calls go round the range, in steps that do not divide it.
OneCounter == {c1}
Ranges == [c \in OneCounter |-> [from |-> -1, to |-> 2, step |-> 2]]
=============================================================================
