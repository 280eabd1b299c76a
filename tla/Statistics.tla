------------------------------ MODULE Statistics ------------------------------
(***************************************************************************)
(* The domain object statistics (class statistics), which passes calls on  *)
(* to its target, measures messages and counts connections.  A connection  *)
(* is counted before it is announced and until it was taken off the        *)
(* target.  The calls of the target are the caller's to model.             *)
(***************************************************************************)
CONSTANT Connections    \* sources in front of the object, by io_id

VARIABLES
    tracked,        \* io_ids under owner().tracking, which its timer counts
    stat            \* where a connection's thread is in reg_io and unreg_io

statVars == <<tracked, stat>>

StatInit == tracked = {} /\ stat = [c \in Connections |-> "idle"]

At(c, from, to) == stat[c] = from /\ stat' = [stat EXCEPT ![c] = to]

\* reg_io: tracking(io_id), then reg_io of the target.
StatRegIo(c) == At(c, "idle", "reg") /\ tracked' = tracked \cup {c}

TargetReg(c) == At(c, "reg", "idle") /\ UNCHANGED tracked

\* Mutant: the connection is not counted any more before the target knows.
StatUnregIoFirst(c) == At(c, "idle", "unreg") /\ tracked' = tracked \ {c}

\* unreg_io: unreg_io of the target, then of domain_object.
StatUnregIo(c) == At(c, "idle", "unreg") /\ UNCHANGED tracked

TargetUnreg(c) == At(c, "unreg", "untrack") /\ UNCHANGED tracked

Untrack(c) == At(c, "untrack", "idle") /\ tracked' = tracked \ {c}
=============================================================================
