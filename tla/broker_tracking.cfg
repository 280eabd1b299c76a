SPECIFICATION Spec
CONSTANTS
    q1 = q1
    q2 = q2
    q3 = q3
    a1 = a1
    b1 = b1
    b2 = b2
    c1 = c1
    rpc = rpc
    Sources = {s1}
    MaxMessages = 2
    MaxSent = 2
    Queues = {q1, q2, q3}
    Objects = {q1, q2, q3}
    NoObject = none
    NoMessage = nothing
    Kinds = {rpc}
    Configs <- DefaultBeside
    MaxConfigs = 1
    Linked = {q1, q2}
    Tracking = {q1, q2}
    Suspended = {q1}
    Callback = {q2}
    Workers <- ManyWorkers
    QueueOf <- Assigned
    MaxSize <- Room
INVARIANT LeavingIsHeard
