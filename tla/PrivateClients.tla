--------------------------- MODULE PrivateClients ---------------------------
(***************************************************************************)
(* What client-tcp promises its sources when no client comes back to a     *)
(* pool: a client is free until it is given to a source, serves that       *)
(* source and no other, and is spent once the source or client-tcp is done *)
(* with it.                                                                *)
(***************************************************************************)
CONSTANTS Clients, Sources, Nobody

VARIABLES
    user,       \* user[c]: the source client c is for, or Nobody
    spent       \* clients that nobody will get any more

Init == user = [c \in Clients |-> Nobody] /\ spent = {}

Give(c) ==
    /\ user[c] = Nobody
    /\ c \notin spent
    /\ user'[c] \in Sources
    /\ c \notin spent'

Retire(c) == c \notin spent /\ user'[c] = Nobody /\ c \in spent'

Keep(c) == user'[c] = user[c] /\ (c \in spent' <=> c \in spent)

\* A start, restart or stop deals with all clients at once.
Next == \A c \in Clients : Give(c) \/ Retire(c) \/ Keep(c)

Spec == Init /\ [][Next]_<<user, spent>>
=============================================================================
