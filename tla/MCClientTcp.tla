---------------------------- MODULE MCClientTcp ----------------------------
(* Instances of ClientTcp for TLC: pool sizes and symmetry.                *)
EXTENDS ClientTcp, TLC

Sizes(m, p, n) == [startup |-> m, primary |-> p, secondary |-> n]

\* A pool of each kind: what startup gives, what comes back, what is kept up.
AllPools == {Sizes(1, 1, 1)}

\* Nothing comes back to a pool; the restart turns the primary pool on or off.
OneWayPools == {Sizes(1, 0, 0), Sizes(0, 1, 0)}

\* All pools, or the primary one alone, so that a restart may also take the
\* others away or bring them in.
SomePools == AllPools \cup {Sizes(0, 1, 0)}
NoPools == {Sizes(0, 0, 0)}
Returning == {Sizes(0, 0, 1)}

AnySuspend == {TRUE, FALSE}
NoSuspend == {FALSE}
Requests == {"request"}

SourceSymmetry == Permutations(Sources)
ThreadSymmetry == Permutations(Sources) \cup Permutations(Workers)

(***************************************************************************)
(* What a state says to its future.  Adapters are told apart by order of   *)
(* making, not by number, and the ones nothing refers to any more are      *)
(* forgotten: no action and no invariant reads them again.                 *)
(***************************************************************************)
LiveView ==
    LET live == {a \in Adapters : Referenced(a)}
        rank == [a \in Adapters \cup {NoAdapter} |->
                    IF a \in live THEN Cardinality({b \in live : b <= a}) ELSE 0]
    IN << {<<rank[a], adapter[a]>> : a \in live},
          {<<rank[r[1]], r[2]>> : r \in {q \in inflight : q[1] \in live}},
          alive, opt, gen, startup_flag, stop_flag, pc, phase, ownVars, sourceVars,
          [s \in Sources |-> rank[clients[s]]],
          [k \in DOMAIN pool |-> [i \in DOMAIN pool[k] |-> rank[pool[k][i]]]],
          [t \in Threads |-> <<call[t].op, call[t].id, rank[call[t].cli]>>],
          [i \in DOMAIN listed |-> rank[listed[i]]] >>
=============================================================================
