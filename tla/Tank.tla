-------------------------------- MODULE Tank --------------------------------
(***************************************************************************)
(* The domain object io-tank (class tank_io), which fires requests at its  *)
(* target and checks the answers.  The gun of each tank calls              *)
(* make_request_ on a thread of its own and sends what it made; answers    *)
(* come on any thread, in any order or not at all, and go to               *)
(* check_response_.  All tanks number their calls by one static counter.   *)
(***************************************************************************)
EXTENDS Integers, Sequences, Functions

CONSTANTS
    Tanks,          \* objects io-tank
    Options,        \* tank_options the tanks may have
    Counters,       \* names of counters a request text can use
    Limits,         \* their options: from, to and step
    MaxCalls        \* bound on the requests of each tank

ASSUME OptionsAssumption ==
    Options \subseteq [Tanks -> [jsonrpc : BOOLEAN, vars : BOOLEAN, check : BOOLEAN]]

\* The code does not test that a step fits into the range.
ASSUME LimitsAssumption ==
    /\ Limits \in [Counters -> [from : Int, to : Int, step : Nat \ {0}]]
    /\ \A c \in Counters : Limits[c].from + Limits[c].step <= Limits[c].to

ASSUME MaxCallsAssumption == MaxCalls \in [Tanks -> Nat]

VARIABLES
    opt,            \* options of each tank
    call_id,        \* _call_id, which all tanks share
    initial_make,   \* _initial_make
    call_map,       \* _call_map: the call whose response is stored under an id
    io_queue,       \* _io_queue: calls whose responses are expected in turn
    counters,       \* _counters: current of each counter made
    pc,             \* where in make_request_ a gun is
    calls,          \* what became of the calls of make_request_
    waiting,        \* calls sent and not answered
    in_order        \* answers came in the order of the calls so far

tankVars == <<initial_make, call_map, io_queue, counters>>
gunVars == <<pc, calls>>
vars == <<opt, call_id, tankVars, gunVars, waiting, in_order>>

(***************************************************************************)
(* The calls of a tank are numbered, and so are the responses they expect; *)
(* what an answer carries is one of them or, as number 0, something else.  *)
(* id, key, tag : the values of _call_id read for jreq.id, for the key of  *)
(*                _call_map and for $TANK{ID}.                             *)
(* alone        : no other tank counted up _call_id since this call did.   *)
(* counts       : values that replaced the counters its text names.        *)
(* against      : the call with whose response the answer was compared.    *)
(* right        : the answer was the expected one.                         *)
(* verdict      : what check_response_ said.                               *)
(***************************************************************************)
CallState ==
    [id : Nat, key : Nat, tag : Nat, alone : BOOLEAN, counts : SUBSET (Counters \X Int),
     against : Nat, right : BOOLEAN, verdict : {"none", "passed", "failed", "error"}]

EmptyMap == [i \in {} |-> 0]

\* map[i] = x
Put(map, i, x) == [j \in DOMAIN map \cup {i} |-> IF j = i THEN x ELSE map[j]]

NewCall ==
    [id |-> 0, key |-> 0, tag |-> 0, alone |-> TRUE, counts |-> {},
     against |-> 0, right |-> FALSE, verdict |-> "none"]

Current(k) == Len(calls[k])     \* the call the gun of tank k is making

SetCall(k, n, new) == calls' = [calls EXCEPT ![k][n] = new]

Goto(k, step) == pc' = [pc EXCEPT ![k] = step]

Init ==
    /\ opt \in Options
    /\ call_id = 0
    /\ initial_make = [k \in Tanks |-> TRUE]
    /\ call_map = [k \in Tanks |-> EmptyMap]
    /\ io_queue = [k \in Tanks |-> <<>>]
    /\ counters = [k \in Tanks |-> EmptyMap]
    /\ pc = [k \in Tanks |-> "idle"]
    /\ calls = [k \in Tanks |-> <<>>]
    /\ waiting = [k \in Tanks |-> {}]
    /\ in_order = [k \in Tanks |-> TRUE]

-----------------------------------------------------------------------------
(* make_request_                                                           *)

\* The call of tank k begins; ++_call_id comes into the calls of the others.
Begun(k) ==
    calls' = [j \in Tanks |->
        IF j = k THEN Append(calls[j], NewCall)
        ELSE IF opt[k].jsonrpc /\ pc[j] # "idle"
             THEN [calls[j] EXCEPT ![Current(j)].alone = FALSE]
             ELSE calls[j]]

\* Mutant: the identifier is not counted up.
MakeUncounted(k) ==
    /\ pc[k] = "idle"
    /\ Len(calls[k]) < MaxCalls[k]
    /\ Begun(k)
    /\ IF opt[k].jsonrpc
       THEN Goto(k, "id") /\ UNCHANGED io_queue
       ELSE /\ io_queue' = [io_queue EXCEPT ![k] = Append(@, Current(k) + 1)]
            /\ Goto(k, "vars")
    /\ UNCHANGED <<opt, call_id, initial_make, call_map, counters, waiting, in_order>>

\* Either ++_call_id, or the expected response goes into the queue.
Make(k) ==
    /\ pc[k] = "idle"
    /\ Len(calls[k]) < MaxCalls[k]
    /\ Begun(k)
    /\ IF opt[k].jsonrpc
       THEN call_id' = call_id + 1 /\ Goto(k, "id") /\ UNCHANGED io_queue
       ELSE /\ io_queue' = [io_queue EXCEPT ![k] = Append(@, Current(k) + 1)]
            /\ Goto(k, "vars")
            /\ UNCHANGED call_id
    /\ UNCHANGED <<opt, initial_make, call_map, counters, waiting, in_order>>

\* jreq.id = _call_id
ReadId(k) ==
    /\ pc[k] = "id"
    /\ SetCall(k, Current(k), [calls[k][Current(k)] EXCEPT !.id = call_id])
    /\ Goto(k, "store")
    /\ UNCHANGED <<opt, call_id, tankVars, waiting, in_order>>

\* _call_map[_call_id] = res, under the lock
StoreResponse(k) ==
    /\ pc[k] = "store"
    /\ SetCall(k, Current(k), [calls[k][Current(k)] EXCEPT !.key = call_id])
    /\ call_map' = [call_map EXCEPT ![k] = Put(@, call_id, Current(k))]
    /\ Goto(k, "vars")
    /\ UNCHANGED <<opt, call_id, initial_make, io_queue, counters, waiting, in_order>>

\* Mutant: the counter does not wrap around.
AdvanceOn(c, n) == n + Limits[c].step

\* Mutant: the counter wraps around to its beginning.
AdvanceToStart(c, n) ==
    LET l == Limits[c] IN
    IF l.to - n > l.step THEN n + l.step ELSE l.from

\* counter_t::next()
Advance(c, n) ==
    LET l == Limits[c] IN
    IF l.to - n > l.step THEN n + l.step ELSE l.from + l.step - (l.to - n)

\* The first call makes the counters its text names, the later ones advance
\* every counter there is.
CountersNext(k, named) ==
    IF initial_make[k]
    THEN [c \in named |-> Limits[c].from]
    ELSE [c \in DOMAIN counters[k] |-> Advance(c, counters[k][c])]

\* The variables of the request are replaced, and the gun sends it.
Send(k) ==
    /\ pc[k] = "vars"
    /\ \/ /\ opt[k].vars
          /\ \E named \in SUBSET Counters :
             LET next == CountersNext(k, named) IN
             /\ counters' = [counters EXCEPT ![k] = next]
             /\ SetCall(k, Current(k), [calls[k][Current(k)] EXCEPT
                    !.tag = call_id,
                    !.counts = {<<c, next[c]>> : c \in named \cap DOMAIN next}])
       \/ ~opt[k].vars /\ UNCHANGED <<counters, calls>>
    /\ initial_make' = [initial_make EXCEPT ![k] = FALSE]
    /\ waiting' = [waiting EXCEPT ![k] = @ \cup {Current(k)}]
    /\ Goto(k, "idle")
    /\ UNCHANGED <<opt, call_id, call_map, io_queue, in_order>>

-----------------------------------------------------------------------------
(* check_response_                                                         *)

\* The answer to call n of tank k is compared with the response of call m.
Compared(k, n, m) ==
    \E r \in {0} \cup DOMAIN calls[k] :
        SetCall(k, n, [calls[k][n] EXCEPT
            !.against = m,
            !.right = r = n,
            !.verdict = IF r = m THEN "passed" ELSE "failed"])

\* It finds no response to be compared with.
NotCompared(k, n, verdict) ==
    \E right \in BOOLEAN :
        SetCall(k, n, [calls[k][n] EXCEPT !.right = right, !.verdict = verdict])

Arrived(k, n) ==
    /\ n \in waiting[k]
    /\ waiting' = [waiting EXCEPT ![k] = @ \ {n}]
    /\ in_order' = [in_order EXCEPT ![k] = @ /\ \A m \in waiting[k] : n <= m]

Unchecked(k, n) ==
    /\ ~opt[k].check
    /\ Arrived(k, n)
    /\ SetCall(k, n, [calls[k][n] EXCEPT !.verdict = "passed"])
    /\ UNCHANGED <<opt, call_id, tankVars, pc>>

\* A result is looked up by its id and its entry erased.
Result(k, n) ==
    /\ opt[k].check /\ opt[k].jsonrpc
    /\ Arrived(k, n)
    /\ LET id == calls[k][n].id IN
       \/ /\ id \in DOMAIN call_map[k]
          /\ Compared(k, n, call_map[k][id])
          /\ call_map' = [call_map EXCEPT ![k] = Restrict(@, DOMAIN @ \ {id})]
       \/ /\ id \notin DOMAIN call_map[k]
          /\ NotCompared(k, n, "failed")
          /\ UNCHANGED call_map
    /\ UNCHANGED <<opt, call_id, initial_make, io_queue, counters, pc>>

\* Mutant: back() and pop_back().
PlainNewest(k, n) ==
    /\ opt[k].check /\ ~opt[k].jsonrpc
    /\ Arrived(k, n)
    /\ io_queue[k] # <<>>
    /\ Compared(k, n, io_queue[k][Len(io_queue[k])])
    /\ io_queue' = [io_queue EXCEPT ![k] = SubSeq(@, 1, Len(@) - 1)]
    /\ UNCHANGED <<opt, call_id, initial_make, call_map, counters, pc>>

\* The next response of the queue is compared; with none the answer passes.
Plain(k, n) ==
    /\ opt[k].check /\ ~opt[k].jsonrpc
    /\ Arrived(k, n)
    /\ \/ /\ io_queue[k] # <<>>
          /\ Compared(k, n, Head(io_queue[k]))
          /\ io_queue' = [io_queue EXCEPT ![k] = Tail(@)]
       \/ /\ io_queue[k] = <<>>
          /\ NotCompared(k, n, "passed")
          /\ UNCHANGED io_queue
    /\ UNCHANGED <<opt, call_id, initial_make, call_map, counters, pc>>

\* An error of JSON-RPC fails and leaves the entry; what the gun was given a
\* null pointer for never comes to check_response_.
Error(k, n) ==
    /\ n \in waiting[k]
    /\ waiting' = [waiting EXCEPT ![k] = @ \ {n}]
    /\ in_order' = [in_order EXCEPT ![k] = FALSE]
    /\ \/ UNCHANGED calls
       \/ /\ opt[k].check /\ opt[k].jsonrpc
          /\ SetCall(k, n, [calls[k][n] EXCEPT !.verdict = "error"])
    /\ UNCHANGED <<opt, call_id, tankVars, pc>>

GunStep(k) == Make(k) \/ ReadId(k) \/ StoreResponse(k) \/ Send(k)

AnswerStep(k, n) == Unchecked(k, n) \/ Result(k, n) \/ Plain(k, n) \/ Error(k, n)

Next == \E k \in Tanks :
            \/ GunStep(k)
            \/ \E n \in 1 .. MaxCalls[k] : AnswerStep(k, n)

Spec == Init /\ [][Next]_vars

-----------------------------------------------------------------------------
(* Properties                                                              *)

Numbered(k, n) == n < Current(k) \/ pc[k] # "id"
Sent(k, n) == n < Current(k) \/ (n = Current(k) /\ pc[k] = "idle")

VerdictTrue(k, n) ==
    calls[k][n].verdict \in {"passed", "failed"} =>
        /\ opt[k].jsonrpc \/ in_order[k] =>
             (calls[k][n].verdict = "passed" => calls[k][n].right)
        /\ (IF opt[k].jsonrpc THEN calls[k][n].alone ELSE in_order[k]) =>
             (calls[k][n].right => calls[k][n].verdict = "passed")

(***************************************************************************)
(* Every variable stays in the set its declaration in the code describes,  *)
(* and a counter between `from' and `to', whatever its step, as long as    *)
(* that fits in there.                                                     *)
(***************************************************************************)
TypeOK ==
    /\ opt \in Options
    /\ call_id \in Nat
    /\ initial_make \in [Tanks -> BOOLEAN]
    /\ pc \in [Tanks -> {"idle", "id", "store", "vars"}]
    /\ in_order \in [Tanks -> BOOLEAN]
    /\ calls \in [Tanks -> Seq(CallState)]
    /\ io_queue \in [Tanks -> Seq(Nat)]
    /\ waiting \in [Tanks -> SUBSET Nat]
    /\ \A k \in Tanks :
         /\ \E ids \in SUBSET (0 .. call_id) : call_map[k] \in [ids -> Nat]
         /\ \E made \in SUBSET Counters : counters[k] \in [made -> Int]
         /\ \A c \in DOMAIN counters[k] :
              counters[k][c] \in Limits[c].from .. Limits[c].to - 1

(***************************************************************************)
(* The calls of a tank never get in each other's way in _call_map: what    *)
(* one is numbered and stored by is less than what the next one is, in     *)
(* spite of the other tanks.  If no other tank came in between, the id of  *)
(* the request, its $TANK{ID} and the key of its response are the same.    *)
(***************************************************************************)
OwnIds ==
    \A k \in Tanks : opt[k].jsonrpc => \A n \in DOMAIN calls[k] :
        /\ \A m \in DOMAIN calls[k] : m < n /\ Numbered(k, n) =>
             calls[k][m].id <= calls[k][m].key /\ calls[k][m].key < calls[k][n].id
        /\ calls[k][n].alone /\ Sent(k, n) =>
             /\ calls[k][n].id = calls[k][n].key
             /\ opt[k].vars => calls[k][n].id = calls[k][n].tag

(***************************************************************************)
(* What is said of an answer is true of it.  With JSON-RPC an answer that  *)
(* passes is right, and a right one passes unless another tank counted     *)
(* while the request was made.  Without, both are so for as long as the    *)
(* answers come in the order of the requests.                              *)
(***************************************************************************)
VerdictsTrue ==
    \A k \in Tanks : opt[k].check => \A n \in DOMAIN calls[k] : VerdictTrue(k, n)

(***************************************************************************)
(* A counter goes round its range in steps: call n of the tank, counted    *)
(* from 0, gets from + n * step, modulo the length of the range, whether   *)
(* the calls before named the counter or not.                              *)
(***************************************************************************)
CountersCycle ==
    \A k \in Tanks : \A n \in DOMAIN calls[k] :
        \A p \in calls[k][n].counts :
            LET l == Limits[p[1]] IN
            p[2] = l.from + (((n - 1) * l.step) % (l.to - l.from))
=============================================================================
