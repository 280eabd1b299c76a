----------------------------- MODULE TankProofs -----------------------------
(***************************************************************************)
(* Theorems about Tank, for any number of tanks, counters and calls, and   *)
(* for all options.                                                        *)
(***************************************************************************)
EXTENDS Tank, TLAPS

(***************************************************************************)
(* Where the gun of a tank is says what its current call has been given.   *)
(***************************************************************************)
GunInv ==
    \A k \in Tanks :
        /\ pc[k] # "idle" => Current(k) > 0
        /\ pc[k] \in {"id", "store"} => opt[k].jsonrpc
        /\ \A n \in waiting[k] : n \in 1 .. Current(k) /\ Sent(k, n)

TypeInv ==
    /\ TypeOK
    /\ GunInv
    /\ DOMAIN call_map = Tanks
    /\ DOMAIN counters = Tanks

-----------------------------------------------------------------------------
(* What steps do to the calls                                              *)

\* A call is replaced, and no other is touched.
LEMMA SetCallEffect ==
    ASSUME calls \in [Tanks -> Seq(CallState)], NEW k \in Tanks,
           NEW n \in 1 .. Current(k), NEW new \in CallState, SetCall(k, n, new)
    PROVE  /\ calls' \in [Tanks -> Seq(CallState)]
           /\ calls'[k][n] = new
           /\ \A j \in Tanks : Current(j)' = Current(j)
           /\ \A j \in Tanks : \A m \in 1 .. Current(j) :
                j # k \/ m # n => calls'[j][m] = calls[j][m]
<1>1. calls[k] \in Seq(CallState) /\ Current(k) \in Nat
  BY DEF Current
<1>2. calls' = [calls EXCEPT ![k] = [calls[k] EXCEPT ![n] = new]]
  BY DEF SetCall
<1>3. /\ [calls[k] EXCEPT ![n] = new] \in Seq(CallState)
      /\ Len([calls[k] EXCEPT ![n] = new]) = Len(calls[k])
  BY <1>1 DEF Current
<1> QED
  BY <1>1, <1>2, <1>3 DEF Current

\* A call is added, and calls of other tanks are no longer alone.
LEMMA BegunEffect ==
    ASSUME calls \in [Tanks -> Seq(CallState)], NEW k \in Tanks, Begun(k),
           \A j \in Tanks : pc[j] # "idle" => Current(j) > 0
    PROVE  /\ calls' \in [Tanks -> Seq(CallState)]
           /\ Current(k)' = Current(k) + 1
           /\ calls'[k][Current(k) + 1] = NewCall
           /\ \A m \in 1 .. Current(k) : calls'[k][m] = calls[k][m]
           /\ \A j \in Tanks \ {k} :
                /\ Current(j)' = Current(j)
                /\ \A m \in 1 .. Current(j) :
                     calls'[j][m] = IF opt[k].jsonrpc /\ pc[j] # "idle" /\ m = Current(j)
                                    THEN [calls[j][m] EXCEPT !.alone = FALSE]
                                    ELSE calls[j][m]
<1>1. NewCall \in CallState
  BY DEF NewCall, CallState
<1>2. \A s \in CallState : [s EXCEPT !.alone = FALSE] \in CallState
  BY DEF CallState
<1>3. /\ calls'[k] = Append(calls[k], NewCall)
      /\ \A j \in Tanks \ {k} :
           calls'[j] = IF opt[k].jsonrpc /\ pc[j] # "idle"
                       THEN [calls[j] EXCEPT ![Current(j)] = [@ EXCEPT !.alone = FALSE]]
                       ELSE calls[j]
      /\ DOMAIN calls' = Tanks
      /\ calls' = [j \in Tanks |-> calls'[j]]
  BY DEF Begun
<1>4. calls'[k] \in Seq(CallState)
  BY <1>1, <1>3
<1>5. ASSUME NEW j \in Tanks \ {k}
      PROVE  /\ calls'[j] \in Seq(CallState)
             /\ Current(j)' = Current(j)
             /\ \A m \in 1 .. Current(j) :
                  calls'[j][m] = IF opt[k].jsonrpc /\ pc[j] # "idle" /\ m = Current(j)
                                 THEN [calls[j][m] EXCEPT !.alone = FALSE]
                                 ELSE calls[j][m]
  <2>1. calls[j] \in Seq(CallState)
    OBVIOUS
  <2>2. CASE opt[k].jsonrpc /\ pc[j] # "idle"
    <3>1. Current(j) \in 1 .. Len(calls[j])
      BY <2>1, <2>2 DEF Current
    <3> DEFINE new == [calls[j][Current(j)] EXCEPT !.alone = FALSE]
    <3>2. new \in CallState
      BY <1>2, <2>1, <3>1
    <3>3. calls'[j] = [calls[j] EXCEPT ![Current(j)] = new]
      BY <1>3, <2>2
    <3> HIDE DEF new
    <3>4. /\ calls'[j] \in Seq(CallState) /\ Len(calls'[j]) = Len(calls[j])
          /\ \A m \in 1 .. Len(calls[j]) :
               calls'[j][m] = IF m = Current(j) THEN new ELSE calls[j][m]
      BY <2>1, <3>1, <3>2, <3>3
    <3> QED
      BY <2>2, <3>4 DEF Current, new
  <2>3. CASE ~(opt[k].jsonrpc /\ pc[j] # "idle")
    BY <1>3, <2>1, <2>3 DEF Current
  <2> QED
    BY <2>2, <2>3
<1>6. calls' \in [Tanks -> Seq(CallState)]
  BY <1>3, <1>4, <1>5
<1> QED
  BY <1>1, <1>3, <1>5, <1>6 DEF Current

\* The fields that change after a call began.
LEMMA CallFields ==
    ASSUME NEW s \in CallState, NEW n \in Nat, NEW b \in BOOLEAN,
           NEW v \in {"none", "passed", "failed", "error"}, NEW S \in SUBSET (Counters \X Int)
    PROVE  /\ [s EXCEPT !.id = n] \in CallState
           /\ [s EXCEPT !.key = n] \in CallState
           /\ [s EXCEPT !.tag = n, !.counts = S] \in CallState
           /\ [s EXCEPT !.verdict = v] \in CallState
           /\ [s EXCEPT !.right = b, !.verdict = v] \in CallState
           /\ [s EXCEPT !.against = n, !.right = b, !.verdict = v] \in CallState
<1>1. [s EXCEPT !.id = n] \in CallState
  BY DEF CallState
<1>2. [s EXCEPT !.key = n] \in CallState
  BY DEF CallState
<1>3. [s EXCEPT !.tag = n, !.counts = S] \in CallState
  BY DEF CallState
<1>4. [s EXCEPT !.verdict = v] \in CallState
  BY DEF CallState
<1>5. [s EXCEPT !.right = b, !.verdict = v] \in CallState
  BY DEF CallState
<1>6. [s EXCEPT !.against = n, !.right = b, !.verdict = v] \in CallState
  BY DEF CallState
<1> QED
  BY <1>1, <1>2, <1>3, <1>4, <1>5, <1>6

-----------------------------------------------------------------------------
(* Counters                                                                *)

InRange(c, n) == n \in Limits[c].from .. Limits[c].to - 1

(***************************************************************************)
(* counter_t::next() never leaves the range: what is left of a step beyond *)
(* `to' is taken from `from' on, and is less than the range is long.       *)
(***************************************************************************)
LEMMA AdvanceInRange ==
    ASSUME NEW c \in Counters, NEW n, InRange(c, n)
    PROVE  InRange(c, Advance(c, n))
BY LimitsAssumption DEF InRange, Advance

\* The counters of the next request are counters in their ranges.
LEMMA CountersNextType ==
    ASSUME TypeInv, NEW k \in Tanks, NEW named \in SUBSET Counters
    PROVE  /\ \E made \in SUBSET Counters : CountersNext(k, named) \in [made -> Int]
           /\ \A c \in DOMAIN CountersNext(k, named) :
                c \in Counters /\ InRange(c, CountersNext(k, named)[c])
<1>1. CASE initial_make[k]
  <2>1. CountersNext(k, named) = [c \in named |-> Limits[c].from]
    BY <1>1 DEF CountersNext
  <2>2. \A c \in named : InRange(c, Limits[c].from) /\ Limits[c].from \in Int
    BY LimitsAssumption DEF InRange
  <2> QED
    BY <2>1, <2>2
<1>2. CASE ~initial_make[k]
  <2>1. PICK made \in SUBSET Counters : counters[k] \in [made -> Int]
    BY DEF TypeInv, TypeOK
  <2>2. CountersNext(k, named) = [c \in made |-> Advance(c, counters[k][c])]
    BY <1>2, <2>1 DEF CountersNext
  <2>3. \A c \in made : InRange(c, counters[k][c])
    BY <2>1 DEF TypeInv, TypeOK, InRange
  <2>4. \A c \in made : InRange(c, Advance(c, counters[k][c]))
    BY <2>3, AdvanceInRange
  <2>5. \A c \in made : \A n : InRange(c, n) => n \in Int
    BY LimitsAssumption DEF InRange
  <2>6. CountersNext(k, named) \in [made -> Int]
    BY <2>2, <2>4, <2>5
  <2> QED
    BY <2>2, <2>4, <2>6
<1> QED
  BY <1>1, <1>2

-----------------------------------------------------------------------------
(* Types                                                                   *)

\* The lengths, and a call that is there.
LEMMA CallsType ==
    ASSUME TypeInv, NEW k \in Tanks
    PROVE  /\ Current(k) \in Nat
           /\ \A n \in 1 .. Current(k) : calls[k][n] \in CallState
           /\ pc[k] # "idle" => Current(k) \in 1 .. Current(k)
<1>1. calls[k] \in Seq(CallState)
  BY DEF TypeInv, TypeOK
<1>2. pc[k] # "idle" => Current(k) > 0
  BY DEF TypeInv, GunInv
<1> QED
  BY <1>1, <1>2 DEF Current

LEMMA TypeInit ==
    ASSUME Init
    PROVE  TypeInv
<1>1. EmptyMap \in [{} -> Nat] /\ EmptyMap \in [{} -> Int] /\ DOMAIN EmptyMap = {}
  BY DEF EmptyMap
<1>2. \A S : <<>> \in Seq(S) /\ Len(<<>>) = 0
  OBVIOUS
<1>3. TypeOK
  BY <1>1, <1>2 DEF Init, TypeOK
<1> QED
  BY <1>3 DEF Init, TypeInv, GunInv

LEMMA MakeType ==
    ASSUME TypeInv, NEW k \in Tanks, Make(k)
    PROVE  TypeInv'
<1> USE DEF TypeInv
<1>1. /\ calls' \in [Tanks -> Seq(CallState)]
      /\ \A j \in Tanks : Current(j) \in Nat /\ Current(j)' \in {Current(j), Current(j) + 1}
      /\ Current(k)' = Current(k) + 1
  BY BegunEffect DEF Make, TypeOK, GunInv, Current
<1>2. call_id' \in {call_id, call_id + 1}
  BY DEF Make
<1>3. \A j \in Tanks : \E ids \in SUBSET (0 .. call_id') : call_map'[j] \in [ids -> Nat]
  <2> SUFFICES ASSUME NEW j \in Tanks
               PROVE  \E ids \in SUBSET (0 .. call_id') : call_map[j] \in [ids -> Nat]
    BY DEF Make
  <2>1. PICK ids \in SUBSET (0 .. call_id) : call_map[j] \in [ids -> Nat]
    BY DEF TypeOK
  <2>2. ids \in SUBSET (0 .. call_id')
    BY <1>2 DEF TypeOK
  <2> QED
    BY <2>1, <2>2
<1>4. io_queue' \in [Tanks -> Seq(Nat)] /\ call_id' \in Nat
  <2> DEFINE new == Append(io_queue[k], Current(k) + 1)
  <2>1. new \in Seq(Nat)
    BY <1>1 DEF TypeOK
  <2>2. UNCHANGED io_queue \/ io_queue' = [io_queue EXCEPT ![k] = new]
    BY DEF Make
  <2>3. io_queue \in [Tanks -> Seq(Nat)] /\ call_id \in Nat
    BY DEF TypeOK
  <2> HIDE DEF new
  <2>4. io_queue' \in [Tanks -> Seq(Nat)]
    BY <2>1, <2>2, <2>3
  <2> QED
    BY <1>2, <2>3, <2>4
<1>5. pc' \in [Tanks -> {"idle", "id", "store", "vars"}]
  BY DEF Make, Goto, TypeOK
<1>6. TypeOK'
  BY <1>1, <1>3, <1>4, <1>5 DEF Make, TypeOK
<1>7. GunInv'
  <2> SUFFICES ASSUME NEW j \in Tanks
               PROVE  /\ pc'[j] # "idle" => Current(j)' > 0
                      /\ pc'[j] \in {"id", "store"} => opt'[j].jsonrpc
                      /\ \A n \in waiting'[j] : n \in 1 .. Current(j)' /\ Sent(j, n)'
    BY DEF GunInv
  <2>1. /\ pc'[k] \in {"id", "vars"}
        /\ pc'[k] = "id" => opt[k].jsonrpc
        /\ j # k => pc'[j] = pc[j]
        /\ UNCHANGED <<opt, waiting>>
    BY DEF Make, Goto, TypeOK
  <2>2. \A n \in waiting[j] : n \in 1 .. Current(j) /\ Sent(j, n)
    BY DEF GunInv
  <2> HIDE DEF TypeInv
  <2>3. CASE j = k
    BY <1>1, <2>1, <2>2, <2>3 DEF Sent
  <2>4. CASE j # k
    <3>1. Current(j)' = Current(j)
      BY <2>4, BegunEffect DEF Make, TypeInv, TypeOK, GunInv
    <3> QED
      BY <2>1, <2>2, <2>4, <3>1 DEF Sent, TypeInv, GunInv
  <2> QED
    BY <2>3, <2>4
<1> QED
  BY <1>6, <1>7 DEF Make

LEMMA ReadIdType ==
    ASSUME TypeInv, NEW k \in Tanks, ReadId(k)
    PROVE  TypeInv'
<1> USE DEF TypeInv
<1> DEFINE n == Current(k)
<1>1. n \in 1 .. Current(k) /\ calls[k][n] \in CallState
  BY CallsType DEF ReadId
<1>2. [calls[k][n] EXCEPT !.id = call_id] \in CallState
  BY <1>1, CallFields DEF TypeOK
<1>3. calls' \in [Tanks -> Seq(CallState)] /\ \A j \in Tanks : Current(j)' = Current(j)
  BY <1>1, <1>2, SetCallEffect DEF ReadId, TypeOK
<1>4. TypeOK'
  BY <1>3 DEF ReadId, Goto, TypeOK, tankVars
<1>5. GunInv'
  BY <1>3 DEF ReadId, Goto, TypeOK, GunInv, Sent, tankVars
<1> QED
  BY <1>4, <1>5 DEF ReadId, tankVars

LEMMA StoreResponseType ==
    ASSUME TypeInv, NEW k \in Tanks, StoreResponse(k)
    PROVE  TypeInv'
<1> USE DEF TypeInv
<1> DEFINE n == Current(k)
<1>1. n \in 1 .. Current(k) /\ calls[k][n] \in CallState
  BY CallsType DEF StoreResponse
<1>2. [calls[k][n] EXCEPT !.key = call_id] \in CallState
  BY <1>1, CallFields DEF TypeOK
<1>3. calls' \in [Tanks -> Seq(CallState)] /\ \A j \in Tanks : Current(j)' = Current(j)
  BY <1>1, <1>2, SetCallEffect DEF StoreResponse, TypeOK
<1>4. \E ids \in SUBSET (0 .. call_id) : call_map'[k] \in [ids -> Nat]
  <2>1. PICK ids \in SUBSET (0 .. call_id) : call_map[k] \in [ids -> Nat]
    BY DEF TypeOK
  <2>2. ids \cup {call_id} \in SUBSET (0 .. call_id)
    BY DEF TypeOK
  <2>3. n \in Nat
    BY <1>1
  <2> HIDE DEF n
  <2>4. Put(call_map[k], call_id, n) \in [ids \cup {call_id} -> Nat]
    BY <2>1, <2>3 DEF Put
  <2>5. call_map'[k] = Put(call_map[k], call_id, n)
    BY DEF StoreResponse, n
  <2> QED
    BY <2>2, <2>4, <2>5
<1>5. \A j \in Tanks : \E ids \in SUBSET (0 .. call_id) : call_map'[j] \in [ids -> Nat]
  BY <1>4 DEF StoreResponse, TypeOK
<1>6. TypeOK'
  BY <1>3, <1>5 DEF StoreResponse, Goto, TypeOK
<1>7. GunInv'
  BY <1>3 DEF StoreResponse, Goto, TypeOK, GunInv, Sent
<1> QED
  BY <1>6, <1>7 DEF StoreResponse

\* Send changes at most the $TANK{ID} and the counters of the call.
LEMMA SendEffect ==
    ASSUME TypeInv, NEW k \in Tanks, Send(k)
    PROVE  /\ calls' \in [Tanks -> Seq(CallState)]
           /\ \A j \in Tanks : Current(j)' = Current(j)
           /\ \A j \in Tanks : \A m \in 1 .. Current(j) :
                j # k \/ m # Current(k) => calls'[j][m] = calls[j][m]
           /\ \/ /\ ~opt[k].vars
                 /\ calls'[k][Current(k)] = calls[k][Current(k)]
              \/ \E S \in SUBSET (Counters \X Int) :
                   calls'[k][Current(k)] =
                       [calls[k][Current(k)] EXCEPT !.tag = call_id, !.counts = S]
<1> DEFINE n == Current(k)
<1>1. n \in 1 .. Current(k) /\ calls[k][n] \in CallState
  BY CallsType DEF Send
<1>2. CASE ~opt[k].vars
  BY <1>2, <1>1 DEF Send, TypeInv, TypeOK, Current
<1>3. CASE opt[k].vars
  <2>1. PICK named \in SUBSET Counters :
          LET next == CountersNext(k, named) IN
          SetCall(k, n, [calls[k][n] EXCEPT !.tag = call_id,
                             !.counts = {<<c, next[c]>> : c \in named \cap DOMAIN next}])
    BY <1>3 DEF Send
  <2> DEFINE next == CountersNext(k, named)
             S == {<<c, next[c]>> : c \in named \cap DOMAIN next}
             new == [calls[k][n] EXCEPT !.tag = call_id, !.counts = S]
  <2>2. PICK made \in SUBSET Counters : next \in [made -> Int]
    BY CountersNextType
  <2> HIDE DEF next
  <2>3. S \in SUBSET (Counters \X Int)
    BY <2>2
  <2>4. new \in CallState
    BY <1>1, <2>3, CallFields DEF TypeInv, TypeOK
  <2>5. SetCall(k, n, new)
    BY <2>1 DEF next
  <2>6. new = [calls[k][n] EXCEPT !.tag = call_id, !.counts = S]
    OBVIOUS
  <2> HIDE DEF new, S
  <2>7. /\ calls' \in [Tanks -> Seq(CallState)]
        /\ calls'[k][n] = new
        /\ \A j \in Tanks : Current(j)' = Current(j)
        /\ \A j \in Tanks : \A m \in 1 .. Current(j) :
             j # k \/ m # n => calls'[j][m] = calls[j][m]
    BY <1>1, <2>4, <2>5, SetCallEffect DEF TypeInv, TypeOK
  <2> QED
    BY <2>3, <2>6, <2>7
<1> QED
  BY <1>2, <1>3

LEMMA SendType ==
    ASSUME TypeInv, NEW k \in Tanks, Send(k)
    PROVE  TypeInv'
<1> USE DEF TypeInv
<1>1. /\ calls' \in [Tanks -> Seq(CallState)]
      /\ \A j \in Tanks : Current(j)' = Current(j)
      /\ Current(k) \in 1 .. Current(k)
  BY SendEffect, CallsType DEF Send
<1>2. /\ \E made \in SUBSET Counters : counters'[k] \in [made -> Int]
      /\ \A c \in DOMAIN counters'[k] : counters'[k][c] \in Limits[c].from .. Limits[c].to - 1
      /\ DOMAIN counters' = Tanks
      /\ \A j \in Tanks \ {k} : counters'[j] = counters[j]
  <2>1. CASE ~opt[k].vars
    BY <2>1 DEF Send, TypeOK
  <2>2. CASE opt[k].vars
    <3>1. PICK named \in SUBSET Counters :
            counters' = [counters EXCEPT ![k] = CountersNext(k, named)]
      BY <2>2 DEF Send
    <3> QED
      BY <3>1, CountersNextType DEF InRange
  <2> QED
    BY <2>1, <2>2
<1>3. waiting' \in [Tanks -> SUBSET Nat]
  BY CallsType DEF Send, TypeOK
<1>4. TypeOK'
  BY <1>1, <1>2, <1>3 DEF Send, Goto, TypeOK
<1>5. GunInv'
  BY <1>1 DEF Send, Goto, TypeOK, GunInv, Sent
<1> QED
  BY <1>2, <1>4, <1>5 DEF Send

SameIds(old, new) ==
    /\ new.id = old.id /\ new.key = old.key /\ new.tag = old.tag
    /\ new.alone = old.alone /\ new.counts = old.counts

\* An answer changes only what is said of its call.
LEMMA AnswerEffect ==
    ASSUME TypeInv, NEW k \in Tanks, NEW n \in 1 .. MaxCalls[k], AnswerStep(k, n)
    PROVE  /\ n \in 1 .. Current(k)
           /\ n \in waiting[k]
           /\ waiting' = [waiting EXCEPT ![k] = @ \ {n}]
           /\ UNCHANGED <<opt, call_id, initial_make, counters, pc>>
           /\ \E new \in CallState : SetCall(k, n, new) /\ SameIds(calls[k][n], new)
<1> DEFINE old == calls[k][n]
<1>1. n \in waiting[k] /\ waiting' = [waiting EXCEPT ![k] = @ \ {n}]
  BY DEF AnswerStep, Unchecked, Result, Plain, Error, Arrived
<1>2. n \in 1 .. Current(k)
  BY <1>1 DEF TypeInv, GunInv
<1>3. old \in CallState /\ Current(k) \in Nat /\ calls \in [Tanks -> Seq(CallState)]
  BY <1>2, CallsType DEF TypeInv, TypeOK
<1> DEFINE Effect == \E new \in CallState : SetCall(k, n, new) /\ SameIds(old, new)
<1>4. ASSUME NEW v \in {"none", "passed", "failed", "error"},
             SetCall(k, n, [old EXCEPT !.verdict = v])
      PROVE  Effect
  <2>1. [old EXCEPT !.verdict = v] \in CallState
    BY <1>3, CallFields
  <2>2. SameIds(old, [old EXCEPT !.verdict = v])
    BY <1>3 DEF SameIds, CallState
  <2> QED
    BY <1>4, <2>1, <2>2
<1>5. ASSUME NEW v \in {"passed", "failed"}, NotCompared(k, n, v)
      PROVE  Effect
  <2>1. PICK b \in BOOLEAN : SetCall(k, n, [old EXCEPT !.right = b, !.verdict = v])
    BY <1>5 DEF NotCompared
  <2>2. [old EXCEPT !.right = b, !.verdict = v] \in CallState
    BY <1>3, CallFields
  <2>3. SameIds(old, [old EXCEPT !.right = b, !.verdict = v])
    BY <1>3 DEF SameIds, CallState
  <2> QED
    BY <2>1, <2>2, <2>3
<1>6. ASSUME NEW m \in Nat, Compared(k, n, m)
      PROVE  Effect
  <2>1. PICK b \in BOOLEAN, v \in {"passed", "failed"} :
           SetCall(k, n, [old EXCEPT !.against = m, !.right = b, !.verdict = v])
    BY <1>6 DEF Compared
  <2>2. [old EXCEPT !.against = m, !.right = b, !.verdict = v] \in CallState
    BY <1>3, CallFields
  <2>3. SameIds(old, [old EXCEPT !.against = m, !.right = b, !.verdict = v])
    BY <1>3 DEF SameIds, CallState
  <2> QED
    BY <2>1, <2>2, <2>3
<1> HIDE DEF Effect
<1>7. ASSUME Unchecked(k, n)
      PROVE  Effect
  <2>1. SetCall(k, n, [old EXCEPT !.verdict = "passed"])
    BY <1>7 DEF Unchecked
  <2> QED
    BY <1>4, <2>1
<1>8. ASSUME Result(k, n)
      PROVE  Effect
  <2>1. \A i \in DOMAIN call_map[k] : call_map[k][i] \in Nat
    BY DEF TypeInv, TypeOK
  <2>2. \/ NotCompared(k, n, "failed")
        \/ \E i \in DOMAIN call_map[k] : Compared(k, n, call_map[k][i])
    BY <1>8 DEF Result
  <2> QED
    BY <1>5, <1>6, <2>1, <2>2
<1>9. ASSUME Plain(k, n)
      PROVE  Effect
  <2>1. io_queue[k] # <<>> => Head(io_queue[k]) \in Nat
    BY DEF TypeInv, TypeOK
  <2> QED
    BY <1>5, <1>6, <1>9, <2>1 DEF Plain
<1>10. ASSUME Error(k, n)
      PROVE  Effect
  <2>1. CASE UNCHANGED calls
    <3>1. SetCall(k, n, old)
      <4>1. [calls[k] EXCEPT ![n] = old] = calls[k]
        BY <1>2, <1>3 DEF Current
      <4>2. [calls EXCEPT ![k] = calls[k]] = calls
        BY <1>3
      <4> QED
        BY <2>1, <4>1, <4>2 DEF SetCall
    <3> QED
      BY <1>3, <3>1 DEF SameIds, Effect
  <2>2. CASE SetCall(k, n, [old EXCEPT !.verdict = "error"])
    BY <1>4, <2>2
  <2> QED
    BY <1>10, <2>1, <2>2 DEF Error
<1>11. UNCHANGED <<opt, call_id, initial_make, counters, pc>>
  BY DEF AnswerStep, Unchecked, Result, Plain, Error, tankVars
<1>12. Effect
  BY <1>7, <1>8, <1>9, <1>10 DEF AnswerStep
<1> QED
  BY <1>1, <1>2, <1>11, <1>12 DEF Effect

LEMMA AnswerType ==
    ASSUME TypeInv, NEW k \in Tanks, NEW n \in 1 .. MaxCalls[k], AnswerStep(k, n)
    PROVE  TypeInv'
<1>1. /\ calls' \in [Tanks -> Seq(CallState)]
      /\ \A j \in Tanks : Current(j)' = Current(j)
      /\ waiting' = [waiting EXCEPT ![k] = @ \ {n}]
      /\ UNCHANGED <<opt, call_id, initial_make, counters, pc>>
  BY AnswerEffect, SetCallEffect DEF TypeInv, TypeOK
<1>2. /\ DOMAIN call_map' = Tanks
      /\ \A j \in Tanks : \E ids \in SUBSET (0 .. call_id) : call_map'[j] \in [ids -> Nat]
  <2>1. CASE UNCHANGED call_map
    BY <2>1 DEF TypeInv, TypeOK
  <2>2. CASE Result(k, n) /\ call_map' # call_map
    <3> DEFINE id == calls[k][n].id
    <3>1. call_map' = [call_map EXCEPT ![k] = Restrict(@, DOMAIN @ \ {id})]
      BY <2>2 DEF Result
    <3>2. PICK ids \in SUBSET (0 .. call_id) : call_map[k] \in [ids -> Nat]
      BY DEF TypeInv, TypeOK
    <3>3. call_map'[k] \in [ids \ {id} -> Nat]
      BY <3>1, <3>2 DEF TypeInv, Restrict
    <3> QED
      BY <3>1, <3>3 DEF TypeInv, TypeOK
  <2> QED
    BY <2>1, <2>2 DEF AnswerStep, Unchecked, Result, Plain, Error, tankVars
<1>3. io_queue' \in [Tanks -> Seq(Nat)]
  <2>1. CASE UNCHANGED io_queue
    BY <2>1 DEF TypeInv, TypeOK
  <2>2. CASE Plain(k, n) /\ io_queue' # io_queue
    <3>1. io_queue[k] # <<>> /\ io_queue' = [io_queue EXCEPT ![k] = Tail(@)]
      BY <2>2 DEF Plain
    <3>2. io_queue \in [Tanks -> Seq(Nat)]
      BY DEF TypeInv, TypeOK
    <3> QED
      BY <3>1, <3>2
  <2> QED
    BY <2>1, <2>2 DEF AnswerStep, Unchecked, Result, Plain, Error, tankVars
<1>4. in_order' \in [Tanks -> BOOLEAN]
  BY DEF AnswerStep, Unchecked, Result, Plain, Error, Arrived, TypeInv, TypeOK
<1>5. TypeOK'
  BY <1>1, <1>2, <1>3, <1>4 DEF TypeInv, TypeOK
<1>6. GunInv'
  BY <1>1 DEF TypeInv, TypeOK, GunInv, Sent
<1> QED
  BY <1>1, <1>2, <1>5, <1>6 DEF TypeInv

LEMMA TypeStep ==
    ASSUME TypeInv, [Next]_vars
    PROVE  TypeInv'
<1>1. CASE UNCHANGED vars
  BY <1>1 DEF vars, tankVars, gunVars, TypeInv, TypeOK, GunInv, Sent, Current
<1> QED
  BY <1>1, MakeType, ReadIdType, StoreResponseType, SendType, AnswerType DEF Next, GunStep

(***************************************************************************)
(* TypeOK is an invariant of the tanks; with it, every counter stays       *)
(* between `from' and `to' for ever, for all ranges and steps that fit.    *)
(***************************************************************************)
THEOREM TankTypeCorrect == Spec => []TypeOK
<1>1. TypeInv => TypeOK
  BY DEF TypeInv
<1> QED
  BY TypeInit, TypeStep, <1>1, PTL DEF Spec

-----------------------------------------------------------------------------
(* Calls do not get in each other's way                                    *)

Stored(k, n) == n < Current(k) \/ pc[k] \in {"vars", "idle"}

(***************************************************************************)
(* What a call read of _call_id is what is there still, or less; what it   *)
(* will read is more than what the calls before it have.  As long as it is *)
(* alone, nobody counted up _call_id since.                                *)
(***************************************************************************)
IdsOfCall(k, n) ==
    /\ calls[k][n].id <= call_id /\ calls[k][n].key <= call_id
    /\ n < Current(k) /\ pc[k] = "id" => calls[k][n].key < call_id
    /\ Stored(k, n) => calls[k][n].id <= calls[k][n].key
    /\ \A m \in 1 .. Current(k) :
         m < n /\ Numbered(k, n) => calls[k][m].key < calls[k][n].id
    /\ calls[k][n].alone /\ n = Current(k) =>
         /\ pc[k] \in {"store", "vars"} => calls[k][n].id = call_id
         /\ pc[k] = "vars" => calls[k][n].key = call_id
    /\ calls[k][n].alone /\ Sent(k, n) =>
         /\ calls[k][n].id = calls[k][n].key
         /\ opt[k].vars => calls[k][n].id = calls[k][n].tag

IdsOf(k) == \A n \in 1 .. Current(k) : IdsOfCall(k, n)

IdsInv == \A k \in Tanks : opt[k].jsonrpc => IdsOf(k)

LEMMA IdsInvOwnIds ==
    ASSUME TypeInv, IdsInv
    PROVE  OwnIds
<1> SUFFICES ASSUME NEW k \in Tanks, opt[k].jsonrpc, NEW n \in DOMAIN calls[k]
             PROVE  /\ \A m \in DOMAIN calls[k] : m < n /\ Numbered(k, n) =>
                         /\ calls[k][m].id <= calls[k][m].key
                         /\ calls[k][m].key < calls[k][n].id
                    /\ calls[k][n].alone /\ Sent(k, n) =>
                         /\ calls[k][n].id = calls[k][n].key
                         /\ opt[k].vars => calls[k][n].id = calls[k][n].tag
  BY DEF OwnIds
<1>1. DOMAIN calls[k] = 1 .. Current(k) /\ Current(k) \in Nat
  BY DEF TypeInv, TypeOK, Current
<1>2. IdsOf(k)
  BY DEF IdsInv
<1>3. \A m \in DOMAIN calls[k] : m < n => Stored(k, m)
  BY <1>1 DEF Stored
<1> QED
  BY <1>1, <1>2, <1>3 DEF IdsOf, IdsOfCall

\* The numbers a tank's calls have are those of before, and so is _call_id.
LEMMA IdsKept ==
    ASSUME NEW k \in Tanks, IdsOf(k), UNCHANGED <<opt, call_id>>,
           Current(k)' = Current(k), pc'[k] = pc[k],
           \A n \in 1 .. Current(k) : SameIds(calls[k][n], calls'[k][n])
    PROVE  IdsOf(k)'
BY DEF IdsOf, IdsOfCall, SameIds, Stored, Numbered, Sent

\* Another tank counts: the call a gun is making is not alone any more.
LEMMA IdsOvertaken ==
    ASSUME TypeInv, NEW j \in Tanks, IdsOf(j), NEW k \in Tanks \ {j}, Make(k)
    PROVE  IdsOf(j)'
<1>1. /\ Current(j) \in Nat
      /\ Current(j)' = Current(j)
      /\ \A m \in 1 .. Current(j) :
           calls'[j][m] = IF opt[k].jsonrpc /\ pc[j] # "idle" /\ m = Current(j)
                          THEN [calls[j][m] EXCEPT !.alone = FALSE]
                          ELSE calls[j][m]
  <2>1. Begun(k) /\ calls \in [Tanks -> Seq(CallState)]
    BY DEF Make, TypeInv, TypeOK
  <2>2. \A i \in Tanks : pc[i] # "idle" => Current(i) > 0
    BY DEF TypeInv, GunInv
  <2>3. j \in Tanks \ {k}
    OBVIOUS
  <2> QED
    BY <2>1, <2>2, <2>3, CallsType, BegunEffect
<1>2. pc'[j] = pc[j] /\ UNCHANGED opt
  BY DEF Make, Goto, TypeInv, TypeOK
<1>3. \A m \in 1 .. Current(j) : calls[j][m] \in CallState
  BY CallsType
<1>4. CASE ~opt[k].jsonrpc
  <2>1. call_id' = call_id
    BY <1>4 DEF Make
  <2> QED
    BY <1>1, <1>2, <1>4, <2>1, IdsKept DEF SameIds
<1>5. CASE opt[k].jsonrpc
  <2>1. call_id' = call_id + 1 /\ call_id \in Nat
    BY <1>5 DEF Make, TypeInv, TypeOK
  <2>2. \A m \in 1 .. Current(j) :
          /\ calls'[j][m].id = calls[j][m].id /\ calls[j][m].id \in Nat
          /\ calls'[j][m].key = calls[j][m].key /\ calls[j][m].key \in Nat
          /\ calls'[j][m].tag = calls[j][m].tag
          /\ calls'[j][m].alone => calls[j][m].alone /\ (pc[j] = "idle" \/ m # Current(j))
    BY <1>1, <1>3, <1>5 DEF CallState
  <2> QED
    BY <1>1, <1>2, <2>1, <2>2 DEF IdsOf, IdsOfCall, Stored, Numbered, Sent
<1> QED
  BY <1>4, <1>5

LEMMA IdsMake ==
    ASSUME TypeInv, NEW k \in Tanks, opt[k].jsonrpc, IdsOf(k), Make(k)
    PROVE  IdsOf(k)'
<1> DEFINE n == Current(k)
<1>1. /\ n \in Nat
      /\ Current(k)' = n + 1
      /\ calls'[k][n + 1] = NewCall
      /\ \A m \in 1 .. n : calls'[k][m] = calls[k][m] /\ calls[k][m] \in CallState
  <2>1. Begun(k) /\ calls \in [Tanks -> Seq(CallState)]
    BY DEF Make, TypeInv, TypeOK
  <2>2. \A i \in Tanks : pc[i] # "idle" => Current(i) > 0
    BY DEF TypeInv, GunInv
  <2> QED
    BY <2>1, <2>2, CallsType, BegunEffect
<1>2. /\ pc[k] = "idle" /\ pc'[k] = "id" /\ UNCHANGED opt
      /\ call_id' = call_id + 1 /\ call_id \in Nat
  BY DEF Make, Goto, TypeInv, TypeOK
<1>3. \A m \in 1 .. n : calls[k][m].id \in Nat /\ calls[k][m].key \in Nat
  BY <1>1 DEF CallState
<1>4. NewCall.id = 0 /\ NewCall.key = 0
  BY DEF NewCall
<1>5. \A m \in 1 .. n + 1 :
        /\ Stored(k, m)' <=> m \in 1 .. n
        /\ Numbered(k, m)' <=> m \in 1 .. n
        /\ Sent(k, m)' <=> m \in 1 .. n
        /\ m \in 1 .. n => Stored(k, m) /\ Numbered(k, m) /\ Sent(k, m)
  BY <1>1, <1>2 DEF Stored, Numbered, Sent
<1>6. ASSUME NEW m \in 1 .. n
      PROVE  IdsOfCall(k, m)'
  <2>1. IdsOfCall(k, m)
    BY <1>6 DEF IdsOf
  <2> QED
    BY <1>1, <1>2, <1>3, <1>6, <2>1 DEF IdsOfCall, Stored, Numbered, Sent
<1>7. ASSUME NEW m \in Nat, m = n + 1
      PROVE  IdsOfCall(k, m)'
  <2>1. calls'[k][m].id = 0 /\ calls'[k][m].key = 0
    BY <1>1, <1>4, <1>7
  <2> QED
    BY <1>1, <1>2, <1>5, <1>7, <2>1 DEF IdsOfCall, Stored, Numbered, Sent
<1>8. \A m \in 1 .. n + 1 : m \in 1 .. n \/ (m \in Nat /\ m = n + 1)
  BY <1>1
<1> QED
  BY <1>1, <1>6, <1>7, <1>8 DEF IdsOf
LEMMA IdsReadId ==
    ASSUME TypeInv, NEW k \in Tanks, IdsOf(k), ReadId(k)
    PROVE  IdsOf(k)'
<1> DEFINE n == Current(k)
<1>1. /\ n \in 1 .. n /\ n \in Nat
      /\ \A m \in 1 .. n : calls[k][m] \in CallState
      /\ call_id \in Nat
      /\ calls \in [Tanks -> Seq(CallState)]
  BY CallsType DEF ReadId, TypeInv, TypeOK
<1> DEFINE new == [calls[k][n] EXCEPT !.id = call_id]
<1>2. new \in CallState
  BY <1>1, CallFields
<1>3. /\ new.id = call_id /\ new.key = calls[k][n].key
      /\ new.tag = calls[k][n].tag /\ new.alone = calls[k][n].alone
  BY <1>1 DEF CallState
<1>4. SetCall(k, n, new)
  BY DEF ReadId
<1> HIDE DEF new
<1>10. /\ calls'[k][n] = new
       /\ Current(k)' = n
       /\ \A m \in 1 .. n : m # n => calls'[k][m] = calls[k][m]
  BY <1>1, <1>2, <1>4, SetCallEffect
<1>5. /\ n \in 1 .. n /\ n \in Nat /\ call_id \in Nat
      /\ Current(k)' = n
      /\ \A m \in 1 .. n : m # n =>
           /\ calls'[k][m].id = calls[k][m].id /\ calls'[k][m].key = calls[k][m].key
           /\ calls'[k][m].tag = calls[k][m].tag /\ calls'[k][m].alone = calls[k][m].alone
      /\ calls'[k][n].id = call_id
      /\ calls'[k][n].key = calls[k][n].key
      /\ calls'[k][n].tag = calls[k][n].tag
      /\ calls'[k][n].alone = calls[k][n].alone
  BY <1>1, <1>3, <1>10
<1>6. /\ pc[k] = "id" /\ pc'[k] = "store" /\ UNCHANGED <<opt, call_id>>
  BY DEF ReadId, Goto, TypeInv, TypeOK
<1>7. \A m \in 1 .. n : calls[k][m].id \in Nat /\ calls[k][m].key \in Nat
  BY <1>1 DEF CallState
<1>8. \A m \in 1 .. n :
        /\ Stored(k, m)' <=> m < n
        /\ Sent(k, m)' <=> m < n
        /\ m < n => Stored(k, m) /\ Numbered(k, m) /\ Sent(k, m)
  BY <1>1, <1>5, <1>6 DEF Stored, Numbered, Sent
<1>9. ASSUME NEW m \in 1 .. n
      PROVE  IdsOfCall(k, m)'
  <2>1. IdsOfCall(k, m) /\ IdsOfCall(k, n) /\ \A i \in 1 .. n : IdsOfCall(k, i)
    BY <1>1, <1>9 DEF IdsOf
  <2>2. CASE m # n
    BY <1>5, <1>6, <1>7, <1>8, <2>1, <2>2 DEF IdsOfCall, Stored, Numbered, Sent
  <2>3. CASE m = n
    BY <1>5, <1>6, <1>7, <1>8, <2>1, <2>3 DEF IdsOfCall, Stored, Numbered, Sent
  <2> QED
    BY <2>2, <2>3
<1> QED
  BY <1>5, <1>9 DEF IdsOf

LEMMA IdsStoreResponse ==
    ASSUME TypeInv, NEW k \in Tanks, IdsOf(k), StoreResponse(k)
    PROVE  IdsOf(k)'
<1> DEFINE n == Current(k)
<1>1. /\ n \in 1 .. n /\ n \in Nat
      /\ \A m \in 1 .. n : calls[k][m] \in CallState
      /\ call_id \in Nat
      /\ calls \in [Tanks -> Seq(CallState)]
  BY CallsType DEF StoreResponse, TypeInv, TypeOK
<1> DEFINE new == [calls[k][n] EXCEPT !.key = call_id]
<1>2. new \in CallState
  BY <1>1, CallFields
<1>3. /\ new.id = calls[k][n].id /\ new.key = call_id
      /\ new.tag = calls[k][n].tag /\ new.alone = calls[k][n].alone
  BY <1>1 DEF CallState
<1>4. SetCall(k, n, new)
  BY DEF StoreResponse
<1> HIDE DEF new
<1>10. /\ calls'[k][n] = new
       /\ Current(k)' = n
       /\ \A m \in 1 .. n : m # n => calls'[k][m] = calls[k][m]
  BY <1>1, <1>2, <1>4, SetCallEffect
<1>5. /\ n \in 1 .. n /\ n \in Nat /\ call_id \in Nat
      /\ Current(k)' = n
      /\ \A m \in 1 .. n : m # n =>
           /\ calls'[k][m].id = calls[k][m].id /\ calls'[k][m].key = calls[k][m].key
           /\ calls'[k][m].tag = calls[k][m].tag /\ calls'[k][m].alone = calls[k][m].alone
      /\ calls'[k][n].id = calls[k][n].id
      /\ calls'[k][n].key = call_id
      /\ calls'[k][n].tag = calls[k][n].tag
      /\ calls'[k][n].alone = calls[k][n].alone
  BY <1>1, <1>3, <1>10
<1>6. /\ pc[k] = "store" /\ pc'[k] = "vars" /\ UNCHANGED <<opt, call_id>>
  BY DEF StoreResponse, Goto, TypeInv, TypeOK
<1>7. \A m \in 1 .. n : calls[k][m].id \in Nat /\ calls[k][m].key \in Nat
  BY <1>1 DEF CallState
<1>8. \A m \in 1 .. n :
        /\ Numbered(k, m)
        /\ Sent(k, m)' <=> m < n
        /\ m < n => Stored(k, m) /\ Sent(k, m)
  BY <1>1, <1>5, <1>6 DEF Stored, Numbered, Sent
<1>9. ASSUME NEW m \in 1 .. n
      PROVE  IdsOfCall(k, m)'
  <2>1. IdsOfCall(k, m) /\ IdsOfCall(k, n) /\ \A i \in 1 .. n : IdsOfCall(k, i)
    BY <1>1, <1>9 DEF IdsOf
  <2>2. CASE m # n
    BY <1>5, <1>6, <1>7, <1>8, <2>1, <2>2 DEF IdsOfCall, Stored, Numbered, Sent
  <2>3. CASE m = n
    BY <1>5, <1>6, <1>7, <1>8, <2>1, <2>3 DEF IdsOfCall, Stored, Numbered, Sent
  <2> QED
    BY <2>2, <2>3
<1> QED
  BY <1>5, <1>9 DEF IdsOf

LEMMA IdsSend ==
    ASSUME TypeInv, NEW k \in Tanks, IdsOf(k), Send(k)
    PROVE  IdsOf(k)'
<1> DEFINE n == Current(k)
<1>1. n \in 1 .. n /\ n \in Nat /\ \A m \in 1 .. n : calls[k][m] \in CallState
  BY CallsType DEF Send
<1>2. /\ Current(k)' = n
      /\ \A m \in 1 .. n : m # n => calls'[k][m] = calls[k][m]
      /\ calls'[k][n].id = calls[k][n].id
      /\ calls'[k][n].key = calls[k][n].key
      /\ calls'[k][n].alone = calls[k][n].alone
      /\ opt[k].vars => calls'[k][n].tag = call_id
  <2>2. ASSUME NEW S,
               calls'[k][n] = [calls[k][n] EXCEPT !.tag = call_id, !.counts = S]
        PROVE  /\ calls'[k][n].id = calls[k][n].id
               /\ calls'[k][n].key = calls[k][n].key
               /\ calls'[k][n].alone = calls[k][n].alone
               /\ calls'[k][n].tag = call_id
    BY <1>1, <2>2 DEF CallState
  <2>3. /\ Current(k)' = n
        /\ \A m \in 1 .. n : m # n => calls'[k][m] = calls[k][m]
        /\ \/ ~opt[k].vars /\ calls'[k][n] = calls[k][n]
           \/ \E S : calls'[k][n] = [calls[k][n] EXCEPT !.tag = call_id, !.counts = S]
    BY SendEffect
  <2>4. CASE ~opt[k].vars /\ calls'[k][n] = calls[k][n]
    BY <2>3, <2>4
  <2>5. CASE \E S : calls'[k][n] = [calls[k][n] EXCEPT !.tag = call_id, !.counts = S]
    BY <2>2, <2>3, <2>5
  <2> QED
    BY <2>3, <2>4, <2>5
<1>3. /\ pc[k] = "vars" /\ pc'[k] = "idle" /\ UNCHANGED <<opt, call_id>>
  BY DEF Send, Goto, TypeInv, TypeOK
<1>4. \A m \in 1 .. n : calls[k][m].id \in Nat /\ calls[k][m].key \in Nat
  BY <1>1 DEF CallState
<1>5. \A m \in 1 .. n :
        Numbered(k, m) /\ Stored(k, m) /\ (m < n => Sent(k, m))
  BY <1>1, <1>3 DEF Stored, Numbered, Sent
<1>6. ASSUME NEW m \in 1 .. n
      PROVE  IdsOfCall(k, m)'
  <2>1. IdsOfCall(k, m) /\ IdsOfCall(k, n) /\ \A i \in 1 .. n : IdsOfCall(k, i)
    BY <1>1, <1>6 DEF IdsOf
  <2>2. CASE m # n
    BY <1>1, <1>2, <1>3, <1>4, <1>5, <2>1, <2>2 DEF IdsOfCall, Stored, Numbered, Sent
  <2>3. CASE m = n
    BY <1>1, <1>2, <1>3, <1>4, <1>5, <2>1, <2>3 DEF IdsOfCall, Stored, Numbered, Sent
  <2> QED
    BY <2>2, <2>3
<1> QED
  BY <1>2, <1>6 DEF IdsOf

\* A step of the gun of another tank that does not begin a call.
LEMMA IdsOther ==
    ASSUME TypeInv, NEW j \in Tanks, IdsOf(j), NEW k \in Tanks \ {j},
           ReadId(k) \/ StoreResponse(k) \/ Send(k)
    PROVE  IdsOf(j)'
<1>1. Current(k) \in 1 .. Current(k) /\ calls[k][Current(k)] \in CallState
  BY CallsType DEF ReadId, StoreResponse, Send
<1>2. CASE Send(k)
  <2>1. /\ Current(j)' = Current(j)
        /\ \A m \in 1 .. Current(j) : calls'[j][m] = calls[j][m]
    <3>1. /\ \A i \in Tanks : Current(i)' = Current(i)
          /\ \A i \in Tanks : \A m \in 1 .. Current(i) :
               i # k \/ m # Current(k) => calls'[i][m] = calls[i][m]
      BY <1>2, SendEffect
    <3> QED
      BY <3>1
  <2>2. pc'[j] = pc[j] /\ UNCHANGED <<opt, call_id>>
    BY <1>2 DEF Send, Goto, TypeInv, TypeOK
  <2> QED
    BY <2>1, <2>2, IdsKept DEF SameIds
<1>3. CASE ReadId(k) \/ StoreResponse(k)
  <2>1. PICK new \in CallState : SetCall(k, Current(k), new)
    <3> DEFINE old == calls[k][Current(k)]
    <3>1. call_id \in Nat
      BY DEF TypeInv, TypeOK
    <3>2. [old EXCEPT !.id = call_id] \in CallState /\ [old EXCEPT !.key = call_id] \in CallState
      BY <1>1, <3>1, CallFields
    <3>3. \/ SetCall(k, Current(k), [old EXCEPT !.id = call_id])
          \/ SetCall(k, Current(k), [old EXCEPT !.key = call_id])
      BY <1>3 DEF ReadId, StoreResponse
    <3> QED
      BY <3>2, <3>3
  <2>2. calls \in [Tanks -> Seq(CallState)]
    BY DEF TypeInv, TypeOK
  <2>3. /\ Current(j)' = Current(j)
        /\ \A m \in 1 .. Current(j) : calls'[j][m] = calls[j][m]
    BY <1>1, <2>1, <2>2, SetCallEffect
  <2>4. pc'[j] = pc[j] /\ UNCHANGED <<opt, call_id>>
    BY <1>3 DEF ReadId, StoreResponse, Goto, TypeInv, TypeOK
  <2> QED
    BY <2>3, <2>4, IdsKept DEF SameIds
<1> QED
  BY <1>2, <1>3

LEMMA IdsAnswer ==
    ASSUME TypeInv, NEW j \in Tanks, IdsOf(j),
           NEW k \in Tanks, NEW n \in 1 .. MaxCalls[k], AnswerStep(k, n)
    PROVE  IdsOf(j)'
<1>1. n \in 1 .. Current(k) /\ UNCHANGED <<opt, call_id, pc>>
  BY AnswerEffect
<1>2. PICK new \in CallState : SetCall(k, n, new) /\ SameIds(calls[k][n], new)
  BY AnswerEffect
<1>3. calls \in [Tanks -> Seq(CallState)]
  BY DEF TypeInv, TypeOK
<1>4. /\ Current(j)' = Current(j)
      /\ calls'[k][n] = new
      /\ \A m \in 1 .. Current(j) : j # k \/ m # n => calls'[j][m] = calls[j][m]
  BY <1>1, <1>2, <1>3, SetCallEffect
<1>5. \A m \in 1 .. Current(j) : SameIds(calls[j][m], calls'[j][m])
  BY <1>2, <1>4 DEF SameIds
<1> QED
  BY <1>1, <1>4, <1>5, IdsKept

LEMMA IdsStep ==
    ASSUME TypeInv, IdsInv, [Next]_vars
    PROVE  IdsInv'
<1> SUFFICES ASSUME NEW j \in Tanks, opt'[j].jsonrpc
             PROVE  IdsOf(j)'
  BY DEF IdsInv
<1>1. UNCHANGED opt
  BY DEF Next, GunStep, Make, ReadId, StoreResponse, Send,
         AnswerStep, Unchecked, Result, Plain, Error, vars
<1>2. IdsOf(j)
  BY <1>1 DEF IdsInv
<1>3. CASE UNCHANGED vars
  BY <1>2, <1>3
     DEF vars, gunVars, IdsOf, IdsOfCall, Stored, Numbered, Sent, Current
<1>4. ASSUME NEW k \in Tanks, GunStep(k), k = j
      PROVE  IdsOf(j)'
  BY <1>1, <1>2, <1>4, IdsMake, IdsReadId, IdsStoreResponse, IdsSend DEF GunStep
<1>5. ASSUME NEW k \in Tanks, GunStep(k), k # j
      PROVE  IdsOf(j)'
  BY <1>2, <1>5, IdsOvertaken, IdsOther DEF GunStep
<1>6. ASSUME NEW k \in Tanks, NEW n \in 1 .. MaxCalls[k], AnswerStep(k, n)
      PROVE  IdsOf(j)'
  BY <1>2, <1>6, IdsAnswer
<1> QED
  BY <1>3, <1>4, <1>5, <1>6 DEF Next

LEMMA IdsInit ==
    ASSUME Init
    PROVE  IdsInv
BY DEF Init, IdsInv, IdsOf, Current

(***************************************************************************)
(* However many tanks count up the one _call_id between the steps of each  *)
(* other, the identifiers and keys of the calls of a tank are distinct and *)
(* in order, and coincide for a call no other tank came in between.        *)
(***************************************************************************)
THEOREM CallsHaveOwnIds == Spec => []OwnIds
<1>1. TypeInv /\ IdsInv /\ [Next]_vars => (TypeInv /\ IdsInv)'
  BY TypeStep, IdsStep
<1>2. TypeInv /\ IdsInv => OwnIds
  BY IdsInvOwnIds
<1> QED
  BY TypeInit, IdsInit, <1>1, <1>2, PTL DEF Spec

-----------------------------------------------------------------------------
(* Verdicts are true                                                       *)

\* The gun is done with the response of call n, and no answer came yet.
Expected(k, n) == n \in waiting[k] \/ (n = Current(k) /\ pc[k] = "vars")

(***************************************************************************)
(* With JSON-RPC an expected response is in _call_map under the key of its *)
(* call, and an entry is under the key of the call it is for.              *)
(***************************************************************************)
EntriesOf(k) ==
    /\ \A i \in DOMAIN call_map[k] :
         /\ call_map[k][i] \in 1 .. Current(k)
         /\ Stored(k, call_map[k][i])
         /\ calls[k][call_map[k][i]].key = i
    /\ \A n \in 1 .. Current(k) : Expected(k, n) =>
         /\ calls[k][n].key \in DOMAIN call_map[k]
         /\ call_map[k][calls[k][n].key] = n

(***************************************************************************)
(* Without, and as long as answers come in order, _io_queue has the        *)
(* responses of the latest calls, which are those that are expected.       *)
(***************************************************************************)
QueueOf(k) ==
    LET first == Current(k) - Len(io_queue[k]) IN
    /\ first \in Nat
    /\ \A i \in 1 .. Len(io_queue[k]) : io_queue[k][i] = first + i
    /\ \A n \in 1 .. Current(k) : Expected(k, n) <=> n > first

VerdictsOf(k) == \A n \in 1 .. Current(k) : VerdictTrue(k, n)

ResponsesInv ==
    \A k \in Tanks :
        /\ opt[k].jsonrpc => EntriesOf(k)
        /\ ~opt[k].jsonrpc /\ opt[k].check /\ in_order[k] => QueueOf(k)
        /\ opt[k].check => VerdictsOf(k)

\* What is said of a call is as true as before.
LEMMA VerdictKept ==
    ASSUME NEW k \in Tanks, NEW n, VerdictTrue(k, n), UNCHANGED opt,
           calls'[k][n].verdict = calls[k][n].verdict,
           calls'[k][n].right = calls[k][n].right,
           calls'[k][n].alone => calls[k][n].alone,
           in_order'[k] => in_order[k]
    PROVE  VerdictTrue(k, n)'
BY DEF VerdictTrue

\* What the gun of a tank leaves as it is in all calls.
LEMMA GunKeeps ==
    ASSUME TypeInv, NEW k \in Tanks, GunStep(k), NEW j \in Tanks
    PROVE  /\ Current(j)' = IF Make(k) /\ j = k THEN Current(j) + 1 ELSE Current(j)
           /\ \A m \in 1 .. Current(j) :
                /\ calls'[j][m].verdict = calls[j][m].verdict
                /\ calls'[j][m].right = calls[j][m].right
                /\ calls'[j][m].alone => calls[j][m].alone
                /\ ~(StoreResponse(k) /\ j = k /\ m = Current(k)) =>
                     calls'[j][m].key = calls[j][m].key
<1>1. calls \in [Tanks -> Seq(CallState)] /\ call_id \in Nat
  BY DEF TypeInv, TypeOK
<1>2. \A m \in 1 .. Current(j) : calls[j][m] \in CallState
  BY CallsType
<1>3. pc[k] # "idle" => Current(k) \in 1 .. Current(k) /\ calls[k][Current(k)] \in CallState
  BY CallsType
<1> DEFINE Same(m) == /\ calls'[j][m].verdict = calls[j][m].verdict
                      /\ calls'[j][m].right = calls[j][m].right
                      /\ calls'[j][m].alone => calls[j][m].alone
           SameKey(m) == calls'[j][m].key = calls[j][m].key
<1>4. CASE Make(k)
  <2>1. \A i \in Tanks : pc[i] # "idle" => Current(i) > 0
    BY DEF TypeInv, GunInv
  <2>2. Begun(k)
    BY <1>4 DEF Make
  <2>3. CASE j = k
    <3>1. /\ Current(k)' = Current(k) + 1
          /\ \A m \in 1 .. Current(k) : calls'[k][m] = calls[k][m]
      BY <1>1, <2>1, <2>2, BegunEffect
    <3> QED
      BY <1>4, <2>3, <3>1 DEF Current
  <2>4. CASE j # k
    <3>1. /\ Current(j)' = Current(j)
          /\ \A m \in 1 .. Current(j) :
               calls'[j][m] = IF opt[k].jsonrpc /\ pc[j] # "idle" /\ m = Current(j)
                              THEN [calls[j][m] EXCEPT !.alone = FALSE]
                              ELSE calls[j][m]
      BY <1>1, <2>1, <2>2, <2>4, BegunEffect
    <3>2. ASSUME NEW m \in 1 .. Current(j)
          PROVE  Same(m) /\ SameKey(m)
      BY <1>2, <3>1, <3>2 DEF CallState
    <3> QED
      BY <2>4, <3>1, <3>2
  <2> QED
    BY <2>3, <2>4
<1>5. ASSUME NEW new \in CallState, SetCall(k, Current(k), new), pc[k] # "idle",
             new.verdict = calls[k][Current(k)].verdict,
             new.right = calls[k][Current(k)].right,
             new.alone = calls[k][Current(k)].alone
      PROVE  /\ Current(j)' = Current(j)
             /\ \A m \in 1 .. Current(j) :
                  Same(m) /\ (new.key = calls[k][Current(k)].key \/ j # k \/ m # Current(k)
                                  => SameKey(m))
  <2>1. /\ Current(j)' = Current(j)
        /\ calls'[k][Current(k)] = new
        /\ \A m \in 1 .. Current(j) : j # k \/ m # Current(k) => calls'[j][m] = calls[j][m]
    BY <1>1, <1>3, <1>5, SetCallEffect
  <2> QED
    BY <1>5, <2>1
<1>6. CASE ReadId(k)
  <2> DEFINE new == [calls[k][Current(k)] EXCEPT !.id = call_id]
  <2>1. /\ new \in CallState /\ SetCall(k, Current(k), new) /\ pc[k] # "idle" /\ pc[k] # "store"
    BY <1>1, <1>3, <1>6, CallFields DEF ReadId
  <2>2. /\ new.verdict = calls[k][Current(k)].verdict /\ new.right = calls[k][Current(k)].right
        /\ new.alone = calls[k][Current(k)].alone /\ new.key = calls[k][Current(k)].key
    BY <1>3, <2>1 DEF CallState
  <2> HIDE DEF new
  <2>3. ~Make(k) /\ ~StoreResponse(k)
    BY <2>1 DEF Make, StoreResponse
  <2> QED
    BY <1>5, <2>1, <2>2, <2>3
<1>7. CASE StoreResponse(k)
  <2> DEFINE new == [calls[k][Current(k)] EXCEPT !.key = call_id]
  <2>1. /\ new \in CallState /\ SetCall(k, Current(k), new) /\ pc[k] # "idle"
    BY <1>1, <1>3, <1>7, CallFields DEF StoreResponse
  <2>2. /\ new.verdict = calls[k][Current(k)].verdict /\ new.right = calls[k][Current(k)].right
        /\ new.alone = calls[k][Current(k)].alone
    BY <1>3, <2>1 DEF CallState
  <2> HIDE DEF new
  <2>3. ~Make(k)
    BY <2>1 DEF Make
  <2> QED
    BY <1>5, <1>7, <2>1, <2>2, <2>3
<1>8. CASE Send(k)
  <2>1. /\ Current(j)' = Current(j)
        /\ \A m \in 1 .. Current(j) : j # k \/ m # Current(k) => calls'[j][m] = calls[j][m]
    BY <1>8, SendEffect
  <2>2. pc[k] = "vars"
    BY <1>8 DEF Send
  <2>3. ~Make(k) /\ ~StoreResponse(k)
    BY <2>2 DEF Make, StoreResponse
  <2>4. \/ calls'[k][Current(k)] = calls[k][Current(k)]
        \/ \E S : calls'[k][Current(k)] =
                     [calls[k][Current(k)] EXCEPT !.tag = call_id, !.counts = S]
    BY <1>8, SendEffect
  <2>5. /\ calls'[k][Current(k)].verdict = calls[k][Current(k)].verdict
        /\ calls'[k][Current(k)].right = calls[k][Current(k)].right
        /\ calls'[k][Current(k)].alone = calls[k][Current(k)].alone
        /\ calls'[k][Current(k)].key = calls[k][Current(k)].key
    BY <1>3, <2>2, <2>4 DEF CallState
  <2>6. ASSUME NEW m \in 1 .. Current(j)
        PROVE  Same(m) /\ SameKey(m)
    BY <2>1, <2>5
  <2> QED
    BY <2>1, <2>3, <2>6
<1> QED
  BY <1>4, <1>6, <1>7, <1>8 DEF GunStep

\* A step that keeps the entries and the keys, and expects nothing new.
LEMMA EntriesKept ==
    ASSUME NEW k \in Tanks, EntriesOf(k), Current(k) \in Nat, Current(k)' \in Nat,
           Current(k) <= Current(k)', call_map'[k] = call_map[k],
           \A n \in 1 .. Current(k) :
             /\ calls'[k][n].key = calls[k][n].key
             /\ Stored(k, n) => Stored(k, n)',
           \A n \in 1 .. Current(k)' : Expected(k, n)' => n <= Current(k) /\ Expected(k, n)
    PROVE  EntriesOf(k)'
<1>1. \A i \in DOMAIN call_map[k] :
        /\ call_map[k][i] \in 1 .. Current(k)'
        /\ Stored(k, call_map[k][i])'
        /\ calls'[k][call_map[k][i]].key = i
  BY DEF EntriesOf, Stored
<1>2. \A n \in 1 .. Current(k)' : Expected(k, n)' =>
        /\ calls'[k][n].key \in DOMAIN call_map[k]
        /\ call_map[k][calls'[k][n].key] = n
  BY DEF EntriesOf
<1> QED
  BY <1>1, <1>2 DEF EntriesOf, Stored

LEMMA EntriesGun ==
    ASSUME TypeInv, NEW j \in Tanks, EntriesOf(j), NEW k \in Tanks, GunStep(k),
           ~(StoreResponse(k) /\ j = k), opt[j].jsonrpc
    PROVE  EntriesOf(j)'
<1>1. /\ Current(j) \in Nat
      /\ Current(j)' = IF Make(k) /\ j = k THEN Current(j) + 1 ELSE Current(j)
      /\ \A m \in 1 .. Current(j) : calls'[j][m].key = calls[j][m].key
  BY CallsType, GunKeeps
<1>2. j # k => pc'[j] = pc[j] /\ waiting'[j] = waiting[j] /\ call_map'[j] = call_map[j]
  BY DEF GunStep, Make, ReadId, StoreResponse, Send, Goto, tankVars, TypeInv, TypeOK
<1>3. \A n \in waiting[j] : n \in 1 .. Current(j)
  BY DEF TypeInv, GunInv
<1>4. CASE j # k
  BY <1>1, <1>2, <1>4, EntriesKept DEF Stored, Expected
<1>5. CASE j = k /\ Make(k)
  <2>1. /\ pc[j] = "idle" /\ pc'[j] = "id" /\ waiting' = waiting /\ call_map' = call_map
    BY <1>5 DEF Make, Goto, TypeInv, TypeOK
  <2> QED
    BY <1>1, <1>3, <1>5, <2>1, EntriesKept DEF Stored, Expected
<1>6. CASE j = k /\ ReadId(k)
  <2>1. pc[j] = "id" /\ pc'[j] = "store" /\ waiting' = waiting /\ call_map' = call_map
    BY <1>6 DEF ReadId, Goto, tankVars, TypeInv, TypeOK
  <2>2. Current(j)' = Current(j)
    BY <1>1, <2>1 DEF Make
  <2> QED
    BY <1>1, <1>3, <1>6, <2>1, <2>2, EntriesKept DEF Stored, Expected
<1>7. CASE j = k /\ Send(k)
  <2>1. /\ pc[j] = "vars" /\ pc'[j] = "idle" /\ call_map' = call_map
        /\ waiting'[j] = waiting[j] \cup {Current(j)}
    BY <1>7 DEF Send, Goto, TypeInv, TypeOK
  <2>2. Current(j)' = Current(j)
    BY <1>1, <2>1 DEF Make
  <2> QED
    BY <1>1, <1>3, <1>7, <2>1, <2>2, EntriesKept DEF Stored, Expected
<1> QED
  BY <1>4, <1>5, <1>6, <1>7 DEF GunStep

\* The response is stored under a key greater than all that are there.
LEMMA EntriesStored ==
    ASSUME TypeInv, NEW k \in Tanks, IdsOf(k), EntriesOf(k), StoreResponse(k)
    PROVE  EntriesOf(k)'
<1> DEFINE n == Current(k)
<1>1. /\ n \in 1 .. n /\ n \in Nat
      /\ pc[k] = "store" /\ pc'[k] = "vars"
      /\ waiting' = waiting
      /\ call_map'[k] = Put(call_map[k], call_id, n)
  BY CallsType DEF StoreResponse, Goto, TypeInv, TypeOK
<1>2. /\ Current(k)' = n
      /\ \A m \in 1 .. n : m # n => calls'[k][m].key = calls[k][m].key
      /\ calls'[k][n].key = call_id
  <2> DEFINE new == [calls[k][n] EXCEPT !.key = call_id]
  <2>1. calls[k][n] \in CallState /\ call_id \in Nat /\ calls \in [Tanks -> Seq(CallState)]
    BY <1>1, CallsType DEF TypeInv, TypeOK
  <2>2. new \in CallState /\ SetCall(k, n, new) /\ new.key = call_id
    <3>1. new \in CallState
      BY <2>1, CallFields
    <3>2. new.key = call_id
      BY <2>1 DEF CallState
    <3> QED
      BY <3>1, <3>2 DEF StoreResponse
  <2> HIDE DEF new
  <2> QED
    BY <1>1, <2>1, <2>2, SetCallEffect
<1>3. \A m \in 1 .. n : m # n => calls[k][m].key # call_id
  <2> SUFFICES ASSUME NEW m \in 1 .. n, m # n
               PROVE  calls[k][m].key # call_id
    OBVIOUS
  <2>1. IdsOfCall(k, n)
    BY <1>1 DEF IdsOf
  <2>2. calls[k][m].key < calls[k][n].id /\ calls[k][n].id <= call_id
    BY <1>1, <2>1 DEF IdsOfCall, Numbered
  <2>3. calls[k][m].key \in Nat /\ calls[k][n].id \in Nat /\ call_id \in Nat
    BY <1>1, CallsType DEF CallState, TypeInv, TypeOK
  <2> QED
    BY <2>2, <2>3
<1>4. DOMAIN call_map'[k] = DOMAIN call_map[k] \cup {call_id}
  BY <1>1 DEF Put
<1>5. \A i \in DOMAIN call_map'[k] :
        call_map'[k][i] = IF i = call_id THEN n ELSE call_map[k][i]
  BY <1>1, <1>4 DEF Put
<1>6. ASSUME NEW i \in DOMAIN call_map'[k]
      PROVE  /\ call_map'[k][i] \in 1 .. Current(k)'
             /\ Stored(k, call_map[k][i])'
             /\ calls'[k][call_map'[k][i]].key = i
  <2>1. CASE i = call_id
    BY <1>1, <1>2, <1>5, <2>1 DEF Stored
  <2>2. CASE i # call_id
    <3>1. i \in DOMAIN call_map[k] /\ call_map'[k][i] = call_map[k][i]
      BY <1>4, <1>5, <1>6, <2>2
    <3>2. /\ call_map[k][i] \in 1 .. n /\ calls[k][call_map[k][i]].key = i
          /\ call_map[k][i] # n
      BY <1>1, <3>1 DEF EntriesOf, Stored
    <3> QED
      BY <1>1, <1>2, <3>1, <3>2 DEF Stored
  <2> QED
    BY <2>1, <2>2
<1>7. ASSUME NEW m \in 1 .. n, Expected(k, m)'
      PROVE  /\ calls'[k][m].key \in DOMAIN call_map'[k]
             /\ call_map'[k][calls'[k][m].key] = m
  <2>1. CASE m = n
    BY <1>2, <1>4, <1>5, <2>1
  <2>2. CASE m # n
    <3>1. m \in waiting[k]
      BY <1>1, <1>2, <1>7, <2>2 DEF Expected
    <3>2. calls[k][m].key \in DOMAIN call_map[k] /\ call_map[k][calls[k][m].key] = m
      BY <3>1 DEF EntriesOf, Expected
    <3>3. calls[k][m].key # call_id
      BY <1>3, <2>2
    <3>4. calls'[k][m].key = calls[k][m].key
      BY <1>2, <2>2
    <3>5. call_map'[k][calls[k][m].key] = m
      BY <1>4, <1>5, <3>2, <3>3
    <3> QED
      BY <1>4, <3>2, <3>4, <3>5
  <2> QED
    BY <2>1, <2>2
<1> QED
  BY <1>2, <1>6, <1>7 DEF EntriesOf, Stored

(***************************************************************************)
(* The heart: a result whose id is in _call_map finds the response of its  *)
(* own call, because keys and ids of other calls lie on the other side of  *)
(* it.                                                                     *)
(***************************************************************************)
LEMMA OwnEntry ==
    ASSUME TypeInv, NEW k \in Tanks, IdsOf(k), EntriesOf(k),
           NEW n \in waiting[k], calls[k][n].id \in DOMAIN call_map[k]
    PROVE  call_map[k][calls[k][n].id] = n
<1> DEFINE m == call_map[k][calls[k][n].id]
<1>1. /\ n \in 1 .. Current(k) /\ m \in 1 .. Current(k)
      /\ Stored(k, m) /\ calls[k][m].key = calls[k][n].id
      /\ Sent(k, n)
  BY DEF EntriesOf, TypeInv, GunInv
<1>2. Stored(k, n) /\ Numbered(k, n) /\ Numbered(k, m)
  BY <1>1 DEF Stored, Numbered, Sent
<1>3. IdsOfCall(k, n) /\ IdsOfCall(k, m)
  BY <1>1 DEF IdsOf
<1>4. /\ calls[k][n].id \in Nat /\ calls[k][n].key \in Nat
      /\ calls[k][m].id \in Nat /\ calls[k][m].key \in Nat
  BY <1>1, CallsType DEF CallState
<1> HIDE DEF m
<1>5. ~(m < n)
  <2>1. m < n => calls[k][m].key < calls[k][n].id
    BY <1>1, <1>2, <1>3 DEF IdsOfCall
  <2> QED
    BY <1>1, <1>4, <2>1
<1>6. ~(n < m)
  <2>1. n < m => calls[k][n].key < calls[k][m].id
    BY <1>1, <1>2, <1>3 DEF IdsOfCall
  <2>2. calls[k][m].id <= calls[k][m].key /\ calls[k][n].id <= calls[k][n].key
    BY <1>1, <1>2, <1>3 DEF IdsOfCall
  <2> QED
    BY <1>1, <1>4, <2>1, <2>2
<1> QED
  BY <1>1, <1>5, <1>6 DEF m

\* What an answer leaves as it is in all calls.
LEMMA AnswerKeeps ==
    ASSUME TypeInv, NEW k \in Tanks, NEW n \in 1 .. MaxCalls[k], AnswerStep(k, n), NEW j \in Tanks
    PROVE  /\ Current(j)' = Current(j)
           /\ \A m \in 1 .. Current(j) :
                /\ calls'[j][m].key = calls[j][m].key
                /\ calls'[j][m].alone = calls[j][m].alone
                /\ j # k \/ m # n =>
                     /\ calls'[j][m].verdict = calls[j][m].verdict
                     /\ calls'[j][m].right = calls[j][m].right
<1>1. n \in 1 .. Current(k) /\ calls \in [Tanks -> Seq(CallState)]
  BY AnswerEffect DEF TypeInv, TypeOK
<1>2. PICK new \in CallState : SetCall(k, n, new) /\ SameIds(calls[k][n], new)
  BY AnswerEffect
<1>3. /\ Current(j)' = Current(j)
      /\ calls'[k][n] = new
      /\ \A m \in 1 .. Current(j) : j # k \/ m # n => calls'[j][m] = calls[j][m]
  BY <1>1, <1>2, SetCallEffect
<1> QED
  BY <1>2, <1>3 DEF SameIds

LEMMA EntriesAnswer ==
    ASSUME TypeInv, NEW j \in Tanks, IdsOf(j), EntriesOf(j), opt[j].jsonrpc,
           NEW k \in Tanks, NEW n \in 1 .. MaxCalls[k], AnswerStep(k, n)
    PROVE  EntriesOf(j)'
<1>1. /\ Current(j) \in Nat /\ Current(j)' = Current(j)
      /\ \A m \in 1 .. Current(j) : calls'[j][m].key = calls[j][m].key
  BY CallsType, AnswerKeeps
<1>2. /\ n \in waiting[k] /\ waiting' = [waiting EXCEPT ![k] = @ \ {n}] /\ UNCHANGED pc
  BY AnswerEffect
<1>3. waiting'[j] \subseteq waiting[j]
  BY <1>2 DEF TypeInv, TypeOK
<1>4. CASE call_map'[j] = call_map[j]
  BY <1>1, <1>2, <1>3, <1>4, EntriesKept DEF Stored, Expected
<1>5. CASE call_map'[j] # call_map[j]
  <2> DEFINE id == calls[j][n].id
  <2>1. /\ j = k /\ id \in DOMAIN call_map[j]
        /\ call_map'[j] = Restrict(call_map[j], DOMAIN call_map[j] \ {id})
    BY <1>5 DEF AnswerStep, Unchecked, Result, Plain, Error, tankVars, TypeInv, TypeOK
  <2>2. call_map[j][id] = n
    BY <1>2, <2>1, OwnEntry
  <2>3. /\ DOMAIN call_map'[j] = DOMAIN call_map[j] \ {id}
        /\ \A i \in DOMAIN call_map'[j] : call_map'[j][i] = call_map[j][i]
    BY <2>1 DEF Restrict
  <2>4. ASSUME NEW i \in DOMAIN call_map'[j]
        PROVE  /\ call_map'[j][i] \in 1 .. Current(j)'
               /\ Stored(j, call_map[j][i])'
               /\ calls'[j][call_map'[j][i]].key = i
    <3>1. i \in DOMAIN call_map[j] /\ call_map'[j][i] = call_map[j][i]
      BY <2>3, <2>4
    <3>2. /\ call_map[j][i] \in 1 .. Current(j) /\ Stored(j, call_map[j][i])
          /\ calls[j][call_map[j][i]].key = i
      BY <3>1 DEF EntriesOf
    <3> QED
      BY <1>1, <1>2, <3>1, <3>2 DEF Stored
  <2>5. ASSUME NEW m \in 1 .. Current(j), Expected(j, m)'
        PROVE  /\ calls'[j][m].key \in DOMAIN call_map'[j]
               /\ call_map'[j][calls'[j][m].key] = m
    <3>1. Expected(j, m) /\ m # n
      <4>1. n \in 1 .. Current(j) /\ Sent(j, n)
        BY <1>2, <2>1 DEF TypeInv, GunInv
      <4>2. CASE m \in waiting'[j]
        BY <1>2, <2>1, <4>2 DEF Expected, TypeInv, TypeOK
      <4>3. CASE m = Current(j) /\ pc[j] = "vars"
        BY <4>1, <4>3 DEF Expected, Sent
      <4> QED
        BY <1>1, <1>2, <2>5, <4>2, <4>3 DEF Expected
    <3>2. calls[j][m].key \in DOMAIN call_map[j] /\ call_map[j][calls[j][m].key] = m
      BY <3>1 DEF EntriesOf
    <3>3. calls[j][m].key # id
      BY <2>2, <3>1, <3>2
    <3>4. calls'[j][m].key = calls[j][m].key
      BY <1>1
    <3>5. calls[j][m].key \in DOMAIN call_map'[j]
      BY <2>3, <3>2, <3>3
    <3>6. call_map'[j][calls[j][m].key] = m
      BY <2>3, <3>2, <3>5
    <3> QED
      BY <3>4, <3>5, <3>6
  <2> QED
    BY <1>1, <2>4, <2>5 DEF EntriesOf, Stored
<1> QED
  BY <1>4, <1>5

\* Steps of other tanks leave the queue and the order of answers of this one.
LEMMA QueueOther ==
    ASSUME TypeInv, NEW j \in Tanks, NEW k \in Tanks \ {j}, QueueOf(j),
           GunStep(k) \/ \E n \in 1 .. MaxCalls[k] : AnswerStep(k, n)
    PROVE  QueueOf(j)'
<1>1. Current(j)' = Current(j)
  BY GunKeeps, AnswerKeeps
<1>2. io_queue'[j] = io_queue[j] /\ waiting'[j] = waiting[j] /\ pc'[j] = pc[j]
  BY DEF GunStep, Make, ReadId, StoreResponse, Send, Goto, tankVars,
         AnswerStep, Unchecked, Result, Plain, Error, Arrived, TypeInv, TypeOK
<1> QED
  BY <1>1, <1>2 DEF QueueOf, Expected

\* The gun adds a response at the end, and then expects it.
LEMMA QueueGun ==
    ASSUME TypeInv, NEW k \in Tanks, QueueOf(k), ~opt[k].jsonrpc, GunStep(k)
    PROVE  QueueOf(k)'
<1>1. /\ Current(k) \in Nat /\ io_queue[k] \in Seq(Nat) /\ Len(io_queue[k]) \in Nat
      /\ \A n \in waiting[k] : n \in 1 .. Current(k)
  BY CallsType DEF TypeInv, TypeOK, GunInv
<1> DEFINE first == Current(k) - Len(io_queue[k])
<1>2. /\ first \in Nat
      /\ \A i \in 1 .. Len(io_queue[k]) : io_queue[k][i] = first + i
      /\ \A n \in 1 .. Current(k) : Expected(k, n) <=> n > first
  BY DEF QueueOf
<1>3. CASE Make(k)
  <2>1. /\ Current(k)' = Current(k) + 1
        /\ pc[k] = "idle" /\ pc'[k] = "vars" /\ waiting' = waiting
        /\ io_queue'[k] = Append(io_queue[k], Current(k) + 1)
    BY <1>3, GunKeeps DEF Make, Goto, TypeInv, TypeOK
  <2>2. /\ Len(io_queue'[k]) = Len(io_queue[k]) + 1
        /\ \A i \in 1 .. Len(io_queue[k]) : io_queue'[k][i] = io_queue[k][i]
        /\ io_queue'[k][Len(io_queue[k]) + 1] = Current(k) + 1
    BY <1>1, <2>1
  <2>3. Current(k)' - Len(io_queue'[k]) = first
    BY <1>1, <2>1, <2>2
  <2>4. ASSUME NEW i \in 1 .. Len(io_queue'[k])
        PROVE  io_queue'[k][i] = first + i
    <3>1. CASE i \in 1 .. Len(io_queue[k])
      BY <1>2, <2>2, <3>1
    <3>2. CASE i = Len(io_queue[k]) + 1
      BY <1>1, <2>2, <3>2
    <3> QED
      BY <1>1, <2>2, <3>1, <3>2
  <2>5. \A n \in 1 .. Current(k)' : Expected(k, n)' <=> n > first
    BY <1>1, <1>2, <2>1 DEF Expected
  <2> HIDE DEF first
  <2> QED
    BY <1>2, <2>3, <2>4, <2>5 DEF QueueOf
<1>4. CASE Send(k)
  <2>1. /\ pc[k] = "vars" /\ pc'[k] = "idle" /\ io_queue' = io_queue
        /\ waiting'[k] = waiting[k] \cup {Current(k)}
    BY <1>4 DEF Send, Goto, TypeInv, TypeOK
  <2>2. Current(k)' = Current(k)
    BY <1>4, <2>1, GunKeeps DEF Make
  <2>3. \A n \in 1 .. Current(k) : Expected(k, n)' <=> Expected(k, n)
    BY <1>1, <2>1, <2>2 DEF Expected
  <2> QED
    BY <1>2, <2>1, <2>2, <2>3 DEF QueueOf
<1>5. ~ReadId(k) /\ ~StoreResponse(k)
  BY DEF ReadId, StoreResponse, TypeInv, GunInv
<1> QED
  BY <1>3, <1>4, <1>5 DEF GunStep

\* The first of the answers that come in order is for the first response.
LEMMA FirstInQueue ==
    ASSUME TypeInv, NEW k \in Tanks, QueueOf(k), NEW n \in waiting[k],
           \A m \in waiting[k] : n <= m
    PROVE  /\ io_queue[k] # <<>>
           /\ Head(io_queue[k]) = n
           /\ n = Current(k) - Len(io_queue[k]) + 1
<1>1. /\ Current(k) \in Nat /\ io_queue[k] \in Seq(Nat) /\ Len(io_queue[k]) \in Nat
      /\ n \in 1 .. Current(k) /\ Sent(k, n)
  BY CallsType DEF TypeInv, TypeOK, GunInv
<1> DEFINE first == Current(k) - Len(io_queue[k])
<1>2. /\ first \in Nat
      /\ \A i \in 1 .. Len(io_queue[k]) : io_queue[k][i] = first + i
      /\ \A m \in 1 .. Current(k) : Expected(k, m) <=> m > first
  BY DEF QueueOf
<1>3. n > first /\ first + 1 \in 1 .. Current(k)
  BY <1>1, <1>2 DEF Expected
<1>4. Expected(k, first + 1)
  BY <1>2, <1>3
<1>5. n = first + 1
  <2>1. CASE first + 1 \in waiting[k]
    BY <1>1, <1>2, <1>3, <2>1
  <2>2. CASE first + 1 = Current(k)
    BY <1>1, <1>2, <1>3, <2>2
  <2> QED
    BY <1>4, <2>1, <2>2 DEF Expected
<1> QED
  BY <1>1, <1>2, <1>3, <1>5

\* With it goes the response.
LEMMA QueueAnswer ==
    ASSUME TypeInv, NEW k \in Tanks, QueueOf(k), ~opt[k].jsonrpc, opt[k].check,
           NEW n \in 1 .. MaxCalls[k], AnswerStep(k, n), in_order'[k]
    PROVE  QueueOf(k)' /\ Plain(k, n) /\ \A m \in waiting[k] : n <= m
<1>1. /\ Current(k) \in Nat /\ io_queue[k] \in Seq(Nat) /\ Len(io_queue[k]) \in Nat
      /\ Current(k)' = Current(k)
  BY CallsType, AnswerKeeps DEF TypeInv, TypeOK
<1>2. n \in waiting[k] /\ waiting' = [waiting EXCEPT ![k] = @ \ {n}] /\ UNCHANGED pc
  BY AnswerEffect
<1>3. Plain(k, n) /\ \A m \in waiting[k] : n <= m
  BY DEF AnswerStep, Unchecked, Result, Plain, Error, Arrived, TypeInv, TypeOK
<1>4. /\ io_queue[k] # <<>> /\ n = Current(k) - Len(io_queue[k]) + 1
  BY <1>2, <1>3, FirstInQueue
<1>5. io_queue'[k] = Tail(io_queue[k])
  BY <1>3, <1>4 DEF Plain, TypeInv, TypeOK
<1>6. /\ Len(io_queue'[k]) = Len(io_queue[k]) - 1
      /\ \A i \in 1 .. Len(io_queue'[k]) : io_queue'[k][i] = io_queue[k][i + 1]
  BY <1>1, <1>4, <1>5
<1> DEFINE first == Current(k) - Len(io_queue[k])
<1>7. /\ first \in Nat
      /\ \A i \in 1 .. Len(io_queue[k]) : io_queue[k][i] = first + i
      /\ \A m \in 1 .. Current(k) : Expected(k, m) <=> m > first
  BY DEF QueueOf
<1>8. Current(k)' - Len(io_queue'[k]) = first + 1
  BY <1>1, <1>6
<1>9. \A i \in 1 .. Len(io_queue'[k]) : io_queue'[k][i] = first + 1 + i
  BY <1>1, <1>6, <1>7
<1>10. ASSUME NEW m \in 1 .. Current(k)
       PROVE  Expected(k, m)' <=> m > first + 1
  <2>1. waiting'[k] = waiting[k] \ {n}
    BY <1>2 DEF TypeInv, TypeOK
  <2>2. ~(n = Current(k) /\ pc[k] = "vars")
    BY <1>2 DEF TypeInv, GunInv, Sent
  <2>3. Expected(k, m)' <=> Expected(k, m) /\ m # n
    BY <1>1, <1>2, <2>1, <2>2 DEF Expected
  <2> QED
    BY <1>1, <1>4, <1>7, <2>3
<1> HIDE DEF first
<1> QED
  BY <1>1, <1>3, <1>7, <1>8, <1>9, <1>10 DEF QueueOf

\* A gun says nothing of answers.
LEMMA VerdictsGun ==
    ASSUME TypeInv, NEW j \in Tanks, VerdictsOf(j), NEW k \in Tanks, GunStep(k)
    PROVE  VerdictsOf(j)'
<1>1. /\ Current(j) \in Nat
      /\ Current(j)' = IF Make(k) /\ j = k THEN Current(j) + 1 ELSE Current(j)
      /\ \A m \in 1 .. Current(j) :
           /\ calls'[j][m].verdict = calls[j][m].verdict
           /\ calls'[j][m].right = calls[j][m].right
           /\ calls'[j][m].alone => calls[j][m].alone
  BY CallsType, GunKeeps
<1>2. UNCHANGED <<opt, in_order>>
  BY DEF GunStep, Make, ReadId, StoreResponse, Send
<1>3. ASSUME NEW m \in 1 .. Current(j)
      PROVE  VerdictTrue(j, m)'
  BY <1>1, <1>2, VerdictKept DEF VerdictsOf
<1>4. ASSUME Make(k), j = k, NEW m, m = Current(j) + 1
      PROVE  VerdictTrue(j, m)'
  <2>1. /\ calls \in [Tanks -> Seq(CallState)] /\ Begun(k)
        /\ \A i \in Tanks : pc[i] # "idle" => Current(i) > 0
    BY <1>4 DEF Make, TypeInv, TypeOK, GunInv
  <2>2. calls'[k][Current(k) + 1] = NewCall
    BY <2>1, BegunEffect
  <2>3. calls'[j][m].verdict = "none"
    BY <1>4, <2>2 DEF NewCall, Current
  <2> QED
    BY <2>3 DEF VerdictTrue
<1>5. \A m \in 1 .. Current(j)' : m \in 1 .. Current(j) \/ (Make(k) /\ j = k /\ m = Current(j) + 1)
  BY <1>1
<1> QED
  BY <1>3, <1>4, <1>5 DEF VerdictsOf

\* The answer that is compared with the response of its own call.
LEMMA VerdictCompared ==
    ASSUME TypeInv, NEW k \in Tanks, NEW n \in 1 .. Current(k), Compared(k, n, n)
    PROVE  VerdictTrue(k, n)'
<1>1. calls[k][n] \in CallState /\ calls \in [Tanks -> Seq(CallState)] /\ n \in Nat
  BY CallsType DEF TypeInv, TypeOK
<1>2. PICK b \in BOOLEAN, v \in {"passed", "failed"} :
        /\ v = "passed" <=> b
        /\ SetCall(k, n, [calls[k][n] EXCEPT !.against = n, !.right = b, !.verdict = v])
  BY DEF Compared
<1> DEFINE new == [calls[k][n] EXCEPT !.against = n, !.right = b, !.verdict = v]
<1>3. new \in CallState
  BY <1>1, CallFields
<1>4. new.verdict = v /\ (new.right <=> b)
  BY <1>1 DEF CallState
<1>5. SetCall(k, n, new)
  BY <1>2
<1> HIDE DEF new
<1>6. calls'[k][n] = new
  BY <1>1, <1>3, <1>5, SetCallEffect
<1>7. calls'[k][n].verdict = "passed" <=> calls'[k][n].right
  BY <1>2, <1>4, <1>6
<1> QED
  BY <1>7 DEF VerdictTrue

(***************************************************************************)
(* The result whose id is not in _call_map: had its call been alone, id    *)
(* and key would be the same, and the response, which nobody has been      *)
(* given, would be there.                                                  *)
(***************************************************************************)
LEMMA VerdictResult ==
    ASSUME TypeInv, NEW k \in Tanks, IdsOf(k), EntriesOf(k), NEW n \in waiting[k],
           NEW m \in 1 .. MaxCalls[k], m = n, Result(k, n)
    PROVE  VerdictTrue(k, n)'
<1>1. /\ n \in 1 .. Current(k) /\ Sent(k, n) /\ opt[k].jsonrpc
      /\ calls \in [Tanks -> Seq(CallState)] /\ UNCHANGED opt
  BY DEF TypeInv, TypeOK, GunInv, Result
<1>2. CASE calls[k][n].id \in DOMAIN call_map[k]
  BY <1>1, <1>2, OwnEntry, VerdictCompared DEF Result
<1>3. CASE calls[k][n].id \notin DOMAIN call_map[k]
  <2>1. ~calls[k][n].alone
    <3>1. calls[k][n].key \in DOMAIN call_map[k]
      BY <1>1 DEF EntriesOf, Expected
    <3>2. calls[k][n].alone => calls[k][n].id = calls[k][n].key
      BY <1>1 DEF IdsOf, IdsOfCall
    <3> QED
      BY <1>3, <3>1, <3>2
  <2>2. PICK b \in BOOLEAN :
          SetCall(k, n, [calls[k][n] EXCEPT !.right = b, !.verdict = "failed"])
    BY <1>3 DEF Result, NotCompared
  <2> DEFINE new == [calls[k][n] EXCEPT !.right = b, !.verdict = "failed"]
  <2>3. calls[k][n] \in CallState
    BY <1>1, CallsType
  <2>4. new \in CallState
    BY <2>3, CallFields
  <2>5. new.verdict = "failed" /\ new.alone = calls[k][n].alone
    BY <2>3 DEF CallState
  <2>6. SetCall(k, n, new)
    BY <2>2
  <2> HIDE DEF new
  <2>7. calls'[k][n] = new
    BY <1>1, <2>4, <2>6, SetCallEffect
  <2> QED
    BY <1>1, <2>1, <2>5, <2>7 DEF VerdictTrue
<1> QED
  BY <1>2, <1>3

\* What is said of an answer is true when its response is where it should be.
LEMMA VerdictsAnswer ==
    ASSUME TypeInv, NEW j \in Tanks, opt[j].check, VerdictsOf(j),
           opt[j].jsonrpc => IdsOf(j) /\ EntriesOf(j),
           ~opt[j].jsonrpc /\ in_order[j] => QueueOf(j),
           NEW k \in Tanks, NEW n \in 1 .. MaxCalls[k], AnswerStep(k, n)
    PROVE  VerdictsOf(j)'
<1>1. /\ n \in 1 .. Current(k) /\ n \in waiting[k]
      /\ UNCHANGED opt
      /\ Current(j)' = Current(j)
  BY AnswerEffect, AnswerKeeps
<1>2. in_order'[j] => in_order[j]
  BY DEF AnswerStep, Unchecked, Result, Plain, Error, Arrived, TypeInv, TypeOK
<1>3. ASSUME NEW m \in 1 .. Current(j), j # k \/ m # n
      PROVE  VerdictTrue(j, m)'
  <2>1. /\ calls'[j][m].verdict = calls[j][m].verdict
        /\ calls'[j][m].right = calls[j][m].right
        /\ calls'[j][m].alone = calls[j][m].alone
    BY <1>3, AnswerKeeps
  <2> QED
    BY <1>1, <1>2, <2>1, VerdictKept DEF VerdictsOf
<1>4. ASSUME j = k
      PROVE  VerdictTrue(k, n)'
  <2>1. CASE Unchecked(k, n)
    BY <1>4, <2>1 DEF Unchecked
  <2>2. CASE Result(k, n)
    BY <1>1, <1>4, <2>2, VerdictResult DEF Result
  <2>3. CASE Plain(k, n)
    <3>1. ~opt[k].jsonrpc
      BY <2>3 DEF Plain
    <3>2. ASSUME in_order'[k]
          PROVE  VerdictTrue(k, n)'
      <4>1. \A m \in waiting[k] : n <= m
        BY <2>3, <3>2 DEF Plain, Arrived, TypeInv, TypeOK
      <4>2. io_queue[k] # <<>> /\ Head(io_queue[k]) = n
        BY <1>1, <1>2, <1>4, <3>1, <3>2, <4>1, FirstInQueue
      <4>3. Compared(k, n, n)
        BY <2>3, <4>2 DEF Plain
      <4> QED
        BY <1>1, <4>3, VerdictCompared
    <3>3. ASSUME ~in_order'[k]
          PROVE  VerdictTrue(k, n)'
      BY <1>1, <3>1, <3>3 DEF VerdictTrue
    <3> QED
      BY <3>2, <3>3
  <2>4. CASE Error(k, n)
    <3>1. CASE UNCHANGED calls
      BY <1>1, <1>2, <1>4, <3>1, VerdictKept DEF VerdictsOf
    <3>2. CASE SetCall(k, n, [calls[k][n] EXCEPT !.verdict = "error"])
      <4> DEFINE new == [calls[k][n] EXCEPT !.verdict = "error"]
      <4>1. calls[k][n] \in CallState /\ calls \in [Tanks -> Seq(CallState)]
        BY <1>1, CallsType DEF TypeInv, TypeOK
      <4>2. new \in CallState /\ new.verdict = "error"
        <5>1. new \in CallState
          BY <4>1, CallFields
        <5>2. new.verdict = "error"
          BY <4>1 DEF CallState
        <5> QED
          BY <5>1, <5>2
      <4>3. SetCall(k, n, new)
        BY <3>2
      <4> HIDE DEF new
      <4>4. calls'[k][n] = new
        BY <1>1, <4>1, <4>2, <4>3, SetCallEffect
      <4> QED
        BY <4>2, <4>4 DEF VerdictTrue
    <3> QED
      BY <2>4, <3>1, <3>2 DEF Error
  <2> QED
    BY <2>1, <2>2, <2>3, <2>4 DEF AnswerStep
<1> QED
  BY <1>1, <1>3, <1>4 DEF VerdictsOf

LEMMA ResponsesInit ==
    ASSUME Init
    PROVE  ResponsesInv
<1>1. \A k \in Tanks : calls[k] = <<>> /\ io_queue[k] = <<>> /\ call_map[k] = EmptyMap
  BY DEF Init
<1>2. Len(<<>>) = 0 /\ DOMAIN EmptyMap = {}
  BY DEF EmptyMap
<1>3. \A k \in Tanks : Current(k) = 0 /\ Len(io_queue[k]) = 0
  BY <1>1, <1>2 DEF Current
<1> QED
  BY <1>1, <1>2, <1>3 DEF ResponsesInv, EntriesOf, QueueOf, VerdictsOf

LEMMA ResponsesStep ==
    ASSUME TypeInv, IdsInv, ResponsesInv, [Next]_vars
    PROVE  ResponsesInv'
<1> SUFFICES ASSUME NEW j \in Tanks
             PROVE  /\ opt'[j].jsonrpc => EntriesOf(j)'
                    /\ ~opt'[j].jsonrpc /\ opt'[j].check /\ in_order'[j] => QueueOf(j)'
                    /\ opt'[j].check => VerdictsOf(j)'
  BY DEF ResponsesInv
<1>1. /\ opt[j].jsonrpc => IdsOf(j) /\ EntriesOf(j)
      /\ ~opt[j].jsonrpc /\ opt[j].check /\ in_order[j] => QueueOf(j)
      /\ opt[j].check => VerdictsOf(j)
  BY DEF IdsInv, ResponsesInv
<1>2. CASE UNCHANGED vars
  BY <1>1, <1>2 DEF vars, tankVars, gunVars, EntriesOf, QueueOf, VerdictsOf, VerdictTrue,
                    Expected, Stored, Current
<1>3. ASSUME NEW k \in Tanks, GunStep(k)
      PROVE  /\ opt'[j].jsonrpc => EntriesOf(j)'
             /\ ~opt'[j].jsonrpc /\ opt'[j].check /\ in_order'[j] => QueueOf(j)'
             /\ opt'[j].check => VerdictsOf(j)'
  <2>1. UNCHANGED <<opt, in_order>>
    BY <1>3 DEF GunStep, Make, ReadId, StoreResponse, Send
  <2>2. opt[j].jsonrpc => EntriesOf(j)'
    BY <1>1, <1>3, EntriesGun, EntriesStored
  <2>3. ~opt[j].jsonrpc /\ opt[j].check /\ in_order[j] => QueueOf(j)'
    BY <1>1, <1>3, QueueGun, QueueOther
  <2>4. opt[j].check => VerdictsOf(j)'
    BY <1>1, <1>3, VerdictsGun
  <2> QED
    BY <2>1, <2>2, <2>3, <2>4
<1>4. ASSUME NEW k \in Tanks, NEW n \in 1 .. MaxCalls[k], AnswerStep(k, n)
      PROVE  /\ opt'[j].jsonrpc => EntriesOf(j)'
             /\ ~opt'[j].jsonrpc /\ opt'[j].check /\ in_order'[j] => QueueOf(j)'
             /\ opt'[j].check => VerdictsOf(j)'
  <2>1. UNCHANGED opt
    BY <1>4, AnswerEffect
  <2>2. in_order'[j] => in_order[j]
    BY <1>4 DEF AnswerStep, Unchecked, Result, Plain, Error, Arrived, TypeInv, TypeOK
  <2>3. opt[j].jsonrpc => EntriesOf(j)'
    BY <1>1, <1>4, EntriesAnswer
  <2>4. ~opt[j].jsonrpc /\ opt[j].check /\ in_order'[j] => QueueOf(j)'
    BY <1>1, <1>4, <2>2, QueueAnswer, QueueOther
  <2>5. opt[j].check => VerdictsOf(j)'
    BY <1>1, <1>4, VerdictsAnswer
  <2> QED
    BY <2>1, <2>3, <2>4, <2>5
<1> QED
  BY <1>2, <1>3, <1>4 DEF Next

(***************************************************************************)
(* However answers are reordered or lost and tanks interleaved, an answer  *)
(* with JSON-RPC passes only if it is right, and a right one fails only if *)
(* another tank counted while the request was made; without JSON-RPC the   *)
(* verdicts are true until an answer comes out of order.                   *)
(***************************************************************************)
THEOREM VerdictsAreTrue == Spec => []VerdictsTrue
<1>1. /\ TypeInv /\ IdsInv /\ ResponsesInv /\ [Next]_vars
         => (TypeInv /\ IdsInv /\ ResponsesInv)'
  BY TypeStep, IdsStep, ResponsesStep
<1>2. TypeInv /\ ResponsesInv => VerdictsTrue
  <2> SUFFICES ASSUME TypeInv, ResponsesInv, NEW k \in Tanks, opt[k].check,
                      NEW n \in DOMAIN calls[k]
               PROVE  VerdictTrue(k, n)
    BY DEF VerdictsTrue
  <2>1. DOMAIN calls[k] = 1 .. Current(k)
    BY DEF TypeInv, TypeOK, Current
  <2> QED
    BY <2>1 DEF ResponsesInv, VerdictsOf
<1> QED
  BY TypeInit, IdsInit, ResponsesInit, <1>1, <1>2, PTL DEF Spec

-----------------------------------------------------------------------------
(* Counters go round                                                       *)

\* Division with remainder, for the length of any range.
LEMMA DivMod ==
    ASSUME NEW a \in Nat, NEW m \in Nat \ {0}
    PROVE  a % m \in 0 .. m - 1 /\ a \div m \in Nat /\ a = m * (a \div m) + (a % m)
OBVIOUS

LEMMA AtLeastOnce ==
    ASSUME NEW d \in Int, NEW m \in Int, d >= 1, m >= 1
    PROVE  d * m >= m
OBVIOUS

LEMMA RemainderUnique ==
    ASSUME NEW m \in Nat \ {0}, NEW q \in Int, NEW r \in 0 .. m - 1,
           NEW p \in Int, NEW s \in 0 .. m - 1, q * m + r = p * m + s
    PROVE  r = s
<1>1. (q - p) * m = s - r /\ (p - q) * m = r - s
  OBVIOUS
<1>2. CASE q - p >= 1
  <2>1. (q - p) * m >= m
    BY <1>2, AtLeastOnce
  <2> QED
    BY <1>1, <2>1
<1>3. CASE p - q >= 1
  <2>1. (p - q) * m >= m
    BY <1>3, AtLeastOnce
  <2> QED
    BY <1>1, <2>1
<1>4. CASE q = p
  BY <1>4
<1> QED
  BY <1>2, <1>3, <1>4

\* One more step; one more time round; none.
LEMMA OneMore ==
    ASSUME NEW n \in Int, NEW m \in Int
    PROVE  (n + 1) * m = n * m + m /\ n * m = m * n
OBVIOUS

LEMMA NoneYet ==
    ASSUME NEW s \in Int, NEW m \in Nat \ {0}
    PROVE  0 * s = 0 /\ 0 % m = 0
OBVIOUS

LEMMA RemainderIs ==
    ASSUME NEW m \in Nat \ {0}, NEW b \in Nat, NEW p \in Int, NEW s \in 0 .. m - 1,
           b = p * m + s
    PROVE  b % m = s
<1> DEFINE q == b \div m
           r == b % m
<1>1. r \in 0 .. m - 1 /\ q \in Nat /\ b = m * q + r
  BY DivMod
<1> HIDE DEF q, r
<1>2. m * q = q * m
  BY <1>1, OneMore
<1>3. q * m + r = p * m + s
  BY <1>1, <1>2
<1>4. r = s
  BY <1>1, <1>3, RemainderUnique
<1> QED
  BY <1>4 DEF r

\* A step further, the remainder is what counter_t::next() makes of it.
LEMMA RemainderOfStep ==
    ASSUME NEW m \in Nat \ {0}, NEW s \in 1 .. m, NEW a \in Nat
    PROVE  (a + s) % m = IF (a % m) + s < m THEN (a % m) + s ELSE (a % m) + s - m
<1> DEFINE q == a \div m
           r == a % m
<1>1. r \in 0 .. m - 1 /\ q \in Nat /\ a = m * q + r
  BY DivMod
<1> HIDE DEF q, r
<1>2. m * q = q * m /\ (q + 1) * m = q * m + m
  BY <1>1, OneMore
<1>3. CASE r + s < m
  <2>1. r + s \in 0 .. m - 1 /\ a + s = q * m + (r + s) /\ a + s \in Nat
    BY <1>1, <1>2, <1>3
  <2>2. (a + s) % m = r + s
    BY <1>1, <2>1, RemainderIs
  <2> QED
    BY <1>3, <2>2 DEF r
<1>4. CASE ~(r + s < m)
  <2>1. r + s - m \in 0 .. m - 1 /\ a + s = (q + 1) * m + (r + s - m) /\ a + s \in Nat
    BY <1>1, <1>2, <1>4
  <2>2. q + 1 \in Int
    BY <1>1
  <2>3. (a + s) % m = r + s - m
    BY <2>1, <2>2, RemainderIs
  <2> QED
    BY <1>4, <2>3 DEF r
<1> QED
  BY <1>3, <1>4

\* The value of counter c in the call with n calls before it.
ValueAt(c, n) == Limits[c].from + ((n * Limits[c].step) % (Limits[c].to - Limits[c].from))

LEMMA AdvanceValue ==
    ASSUME NEW c \in Counters, NEW n \in Nat
    PROVE  /\ ValueAt(c, 0) = Limits[c].from
           /\ Advance(c, ValueAt(c, n)) = ValueAt(c, n + 1)
<1> DEFINE from == Limits[c].from
           to == Limits[c].to
           step == Limits[c].step
           m == to - from
           a == n * step
           r == a % m
<1>1. from \in Int /\ to \in Int /\ m \in Nat \ {0} /\ step \in 1 .. m
  BY LimitsAssumption
<1>2. ValueAt(c, n) = from + r /\ ValueAt(c, 0) = from + ((0 * step) % m)
      /\ ValueAt(c, n + 1) = from + (((n + 1) * step) % m)
  BY DEF ValueAt
<1>3. Advance(c, from + r) =
          IF to - (from + r) > step THEN from + r + step
          ELSE from + step - (to - (from + r))
  BY DEF Advance
<1> HIDE DEF from, to, step, m
<1>4. 0 * step = 0 /\ 0 % m = 0
  BY <1>1, NoneYet
<1>5. (n + 1) * step = a + step
  BY <1>1, OneMore
<1>6. a \in Nat
  BY <1>1
<1> HIDE DEF a
<1>7. r \in 0 .. m - 1
  BY <1>1, <1>6, DivMod
<1>8. (a + step) % m = IF r + step < m THEN r + step ELSE r + step - m
  BY <1>1, <1>6, RemainderOfStep
<1> HIDE DEF r
<1>9. m = to - from
  BY DEF m
<1>10. Advance(c, from + r) = from + (IF r + step < m THEN r + step ELSE r + step - m)
  BY <1>1, <1>3, <1>7, <1>9
<1>11. ValueAt(c, 0) = from
  BY <1>1, <1>2, <1>4
<1>12. ValueAt(c, n + 1) = from + (IF r + step < m THEN r + step ELSE r + step - m)
  BY <1>2, <1>5, <1>8
<1>13. Advance(c, ValueAt(c, n)) = ValueAt(c, n + 1)
  BY <1>2, <1>10, <1>12
<1> QED
  BY <1>11, <1>13 DEF from

\* The calls of tank k that are made, and what has been counted for them.
Fired(k) == IF pc[k] = "idle" THEN Current(k) ELSE Current(k) - 1

CountersOf(k) ==
    /\ initial_make[k] <=> Fired(k) = 0
    /\ opt[k].vars /\ ~initial_make[k] =>
         \A c \in DOMAIN counters[k] : counters[k][c] = ValueAt(c, Fired(k) - 1)

CountsOf(k) ==
    \A n \in 1 .. Current(k) : \A p \in calls[k][n].counts : p[2] = ValueAt(p[1], n - 1)

CycleInv == \A k \in Tanks : CountersOf(k) /\ CountsOf(k)

\* What no step but Send changes for a tank.
LEMMA CycleKept ==
    ASSUME NEW k \in Tanks, CountersOf(k), CountsOf(k), Fired(k)' = Fired(k),
           opt' = opt, initial_make'[k] = initial_make[k], counters'[k] = counters[k],
           \A n \in 1 .. Current(k)' :
               \/ calls'[k][n].counts = {}
               \/ n \in 1 .. Current(k) /\ calls'[k][n].counts = calls[k][n].counts
    PROVE  (CountersOf(k) /\ CountsOf(k))'
<1>1. CountersOf(k)'
  BY DEF CountersOf
<1>2. CountsOf(k)'
  BY DEF CountsOf
<1> QED
  BY <1>1, <1>2

LEMMA CycleMake ==
    ASSUME TypeInv, CycleInv, NEW k \in Tanks, Make(k)
    PROVE  CycleInv'
<1>1. /\ Current(k)' = Current(k) + 1
      /\ calls'[k][Current(k) + 1] = NewCall
      /\ \A m \in 1 .. Current(k) : calls'[k][m] = calls[k][m]
      /\ \A j \in Tanks \ {k} :
           /\ Current(j)' = Current(j)
           /\ \A m \in 1 .. Current(j) :
                calls'[j][m] = IF opt[k].jsonrpc /\ pc[j] # "idle" /\ m = Current(j)
                               THEN [calls[j][m] EXCEPT !.alone = FALSE]
                               ELSE calls[j][m]
  BY BegunEffect DEF Make, TypeInv, TypeOK, GunInv
<1>2. \A j \in Tanks : Current(j) \in Nat /\ \A m \in 1 .. Current(j) : calls[j][m] \in CallState
  BY CallsType
<1>3. /\ UNCHANGED <<opt, initial_make, counters>>
      /\ pc[k] = "idle" /\ pc'[k] \in {"id", "vars"}
      /\ \A j \in Tanks \ {k} : pc'[j] = pc[j]
  BY DEF Make, Goto, TypeInv, TypeOK
<1> SUFFICES ASSUME NEW j \in Tanks
             PROVE  (CountersOf(j) /\ CountsOf(j))'
  BY DEF CycleInv
<1>4. Fired(j)' = Fired(j)
  BY <1>1, <1>2, <1>3 DEF Fired
<1>5. \A n \in 1 .. Current(j)' :
          \/ calls'[j][n].counts = {}
          \/ n \in 1 .. Current(j) /\ calls'[j][n].counts = calls[j][n].counts
  <2>1. CASE j = k
    <3>1. NewCall.counts = {}
      BY DEF NewCall
    <3> QED
      BY <1>1, <1>2, <2>1, <3>1
  <2>2. CASE j # k
    <3>1. \A s \in CallState : [s EXCEPT !.alone = FALSE].counts = s.counts
      BY DEF CallState
    <3> QED
      BY <1>1, <1>2, <2>2, <3>1
  <2> QED
    BY <2>1, <2>2
<1> QED
  BY <1>3, <1>4, <1>5, CycleKept DEF CycleInv

\* A step that replaces one call, its counts as they were, and makes none.
LEMMA CycleReplace ==
    ASSUME TypeInv, CycleInv, NEW k \in Tanks, NEW n \in 1 .. Current(k),
           NEW new \in CallState, SetCall(k, n, new), new.counts = calls[k][n].counts,
           UNCHANGED <<opt, initial_make, counters>>,
           \A j \in Tanks : pc'[j] = "idle" <=> pc[j] = "idle"
    PROVE  CycleInv'
<1>1. /\ calls'[k][n] = new
      /\ \A j \in Tanks : Current(j)' = Current(j)
      /\ \A j \in Tanks : \A m \in 1 .. Current(j) :
           j # k \/ m # n => calls'[j][m] = calls[j][m]
  BY SetCallEffect DEF TypeInv, TypeOK
<1> SUFFICES ASSUME NEW j \in Tanks
             PROVE  (CountersOf(j) /\ CountsOf(j))'
  BY DEF CycleInv
<1>2. Fired(j)' = Fired(j)
  BY <1>1 DEF Fired
<1>3. \A m \in 1 .. Current(j)' :
          m \in 1 .. Current(j) /\ calls'[j][m].counts = calls[j][m].counts
  BY <1>1
<1> QED
  BY <1>2, <1>3, CycleKept DEF CycleInv

LEMMA CycleNumber ==
    ASSUME TypeInv, CycleInv, NEW k \in Tanks, ReadId(k) \/ StoreResponse(k)
    PROVE  CycleInv'
<1> DEFINE n == Current(k)
           old == calls[k][n]
<1>1. n \in 1 .. Current(k) /\ old \in CallState /\ call_id \in Nat
  BY CallsType DEF ReadId, StoreResponse, TypeInv, TypeOK
<1>2. /\ UNCHANGED <<opt, initial_make, counters>>
      /\ \A j \in Tanks : pc'[j] = "idle" <=> pc[j] = "idle"
  BY DEF ReadId, StoreResponse, Goto, tankVars, TypeInv, TypeOK
<1>3. CASE ReadId(k)
  <2> HIDE DEF old
  <2>1. [old EXCEPT !.id = call_id] \in CallState
    BY <1>1, CallFields
  <2>2. [old EXCEPT !.id = call_id].counts = old.counts
    BY <1>1 DEF CallState
  <2> USE DEF old
  <2> QED
    BY <1>1, <1>2, <1>3, <2>1, <2>2, CycleReplace DEF ReadId
<1>4. CASE StoreResponse(k)
  <2> HIDE DEF old
  <2>1. [old EXCEPT !.key = call_id] \in CallState
    BY <1>1, CallFields
  <2>2. [old EXCEPT !.key = call_id].counts = old.counts
    BY <1>1 DEF CallState
  <2> USE DEF old
  <2> QED
    BY <1>1, <1>2, <1>4, <2>1, <2>2, CycleReplace DEF StoreResponse
<1> QED
  BY <1>3, <1>4

LEMMA CycleAnswer ==
    ASSUME TypeInv, CycleInv, NEW k \in Tanks, NEW n \in 1 .. MaxCalls[k], AnswerStep(k, n)
    PROVE  CycleInv'
<1>1. /\ n \in 1 .. Current(k)
      /\ UNCHANGED <<opt, initial_make, counters, pc>>
  BY AnswerEffect
<1>2. PICK new \in CallState : SetCall(k, n, new) /\ new.counts = calls[k][n].counts
  BY AnswerEffect DEF SameIds
<1> QED
  BY <1>1, <1>2, CycleReplace

\* The counters of the next request are one step further.
LEMMA CountersNextValue ==
    ASSUME TypeInv, CycleInv, NEW k \in Tanks, pc[k] = "vars", opt[k].vars,
           NEW named \in SUBSET Counters
    PROVE  \A c \in DOMAIN CountersNext(k, named) :
               CountersNext(k, named)[c] = ValueAt(c, Current(k) - 1)
<1>1. Current(k) \in Nat \ {0} /\ Fired(k) = Current(k) - 1
  BY CallsType DEF Fired
<1>2. CASE initial_make[k]
  <2>1. Current(k) - 1 = 0
    BY <1>1, <1>2 DEF CycleInv, CountersOf
  <2>2. CountersNext(k, named) = [c \in named |-> Limits[c].from]
    BY <1>2 DEF CountersNext
  <2>3. \A c \in named : Limits[c].from = ValueAt(c, 0)
    BY AdvanceValue
  <2> QED
    BY <2>1, <2>2, <2>3
<1>3. CASE ~initial_make[k]
  <2>1. Fired(k) - 1 \in Nat /\ (Fired(k) - 1) + 1 = Current(k) - 1
    BY <1>1, <1>3 DEF CycleInv, CountersOf
  <2>2. \A c \in DOMAIN counters[k] : c \in Counters /\ counters[k][c] = ValueAt(c, Fired(k) - 1)
    BY <1>3 DEF CycleInv, CountersOf, TypeInv, TypeOK
  <2>3. CountersNext(k, named) = [c \in DOMAIN counters[k] |-> Advance(c, counters[k][c])]
    BY <1>3 DEF CountersNext
  <2>4. \A c \in DOMAIN counters[k] : Advance(c, counters[k][c]) = ValueAt(c, Current(k) - 1)
    BY <2>1, <2>2, AdvanceValue
  <2> QED
    BY <2>3, <2>4
<1> QED
  BY <1>2, <1>3

LEMMA CycleSend ==
    ASSUME TypeInv, CycleInv, NEW k \in Tanks, Send(k)
    PROVE  CycleInv'
<1> DEFINE n == Current(k)
           old == calls[k][n]
<1>1. n \in 1 .. Current(k) /\ n \in Nat \ {0} /\ old \in CallState /\ call_id \in Nat
  <2>1. n \in 1 .. Current(k) /\ old \in CallState /\ Current(k) \in Nat
    BY CallsType DEF Send
  <2> QED
    BY <2>1 DEF TypeInv, TypeOK
<1>2. /\ \A j \in Tanks : Current(j)' = Current(j)
      /\ \A j \in Tanks : \A m \in 1 .. Current(j) :
           j # k \/ m # n => calls'[j][m] = calls[j][m]
  BY SendEffect
<1>3. /\ opt' = opt /\ pc[k] = "vars" /\ pc'[k] = "idle" /\ initial_make'[k] = FALSE
      /\ \A j \in Tanks \ {k} :
           pc'[j] = pc[j] /\ initial_make'[j] = initial_make[j] /\ counters'[j] = counters[j]
  BY DEF Send, Goto, TypeInv, TypeOK
<1>4. Fired(k)' = n
  BY <1>2, <1>3 DEF Fired
<1>5. ASSUME ~opt[k].vars
      PROVE  (CountersOf(k) /\ CountsOf(k))'
  <2>1. calls' = calls
    BY <1>5 DEF Send
  <2>2. CountersOf(k)'
    BY <1>1, <1>3, <1>4, <1>5 DEF CountersOf
  <2>3. CountsOf(k)'
    BY <1>2, <2>1 DEF CycleInv, CountsOf
  <2> QED
    BY <2>2, <2>3
<1>6. ASSUME opt[k].vars
      PROVE  (CountersOf(k) /\ CountsOf(k))'
  <2>1. PICK named \in SUBSET Counters :
          LET next == CountersNext(k, named) IN
          /\ counters' = [counters EXCEPT ![k] = next]
          /\ SetCall(k, n, [old EXCEPT !.tag = call_id,
                                       !.counts = {<<c, next[c]>> : c \in named \cap DOMAIN next}])
    BY <1>6 DEF Send
  <2> DEFINE next == CountersNext(k, named)
             S == {<<c, next[c]>> : c \in named \cap DOMAIN next}
             new == [old EXCEPT !.tag = call_id, !.counts = S]
  <2>2. \A c \in DOMAIN next : next[c] = ValueAt(c, n - 1)
    BY <1>3, <1>6, CountersNextValue
  <2>3. PICK made \in SUBSET Counters : next \in [made -> Int]
    BY CountersNextType
  <2>4. counters'[k] = next /\ SetCall(k, n, new)
    BY <2>1 DEF TypeInv
  <2> HIDE DEF next
  <2>5. S \in SUBSET (Counters \X Int) /\ \A p \in S : p[2] = ValueAt(p[1], n - 1)
    BY <2>2, <2>3
  <2> HIDE DEF S
  <2>6. new \in CallState /\ new.counts = S
    <3> HIDE DEF old
    <3>1. new \in CallState
      BY <1>1, <2>5, CallFields
    <3>2. new.counts = S
      BY <1>1 DEF CallState
    <3> QED
      BY <3>1, <3>2
  <2> HIDE DEF new
  <2>7. calls'[k][n] = new
    BY <1>1, <2>4, <2>6, SetCallEffect DEF TypeInv, TypeOK
  <2>8. CountersOf(k)'
    BY <1>1, <1>3, <1>4, <2>2, <2>4 DEF CountersOf
  <2>9. CountsOf(k)'
    <3> SUFFICES ASSUME NEW m \in 1 .. Current(k), NEW p \in calls'[k][m].counts
                 PROVE  p[2] = ValueAt(p[1], m - 1)
      BY <1>2 DEF CountsOf
    <3>1. CASE m = n
      BY <2>5, <2>6, <2>7, <3>1
    <3>2. CASE m # n
      BY <1>2, <3>2 DEF CycleInv, CountsOf
    <3> QED
      BY <3>1, <3>2
  <2> QED
    BY <2>8, <2>9
<1>7. ASSUME NEW j \in Tanks \ {k}
      PROVE  (CountersOf(j) /\ CountsOf(j))'
  <2>1. Fired(j)' = Fired(j)
    BY <1>2, <1>3 DEF Fired
  <2> QED
    BY <1>2, <1>3, <2>1, CycleKept DEF CycleInv
<1> QED
  BY <1>5, <1>6, <1>7 DEF CycleInv

LEMMA CycleInit == Init => CycleInv
BY DEF Init, CycleInv, CountersOf, CountsOf, Fired, Current

LEMMA CycleStep ==
    ASSUME TypeInv, CycleInv, [Next]_vars
    PROVE  CycleInv'
<1>1. CASE UNCHANGED vars
  BY <1>1 DEF vars, tankVars, gunVars, CycleInv, CountersOf, CountsOf, Fired, Current
<1> QED
  BY <1>1, CycleMake, CycleNumber, CycleSend, CycleAnswer DEF Next, GunStep

(***************************************************************************)
(* Every counter goes round its range in steps, whichever calls name it:   *)
(* call n, counted from 0, gets from + n * step modulo the length of the   *)
(* range.                                                                  *)
(***************************************************************************)
THEOREM CountersGoRound == Spec => []CountersCycle
<1>1. TypeInv /\ CycleInv => CountersCycle
  <2> SUFFICES ASSUME TypeInv, CycleInv, NEW k \in Tanks, NEW n \in DOMAIN calls[k],
                      NEW p \in calls[k][n].counts
               PROVE  p[2] = ValueAt(p[1], n - 1)
    BY DEF CountersCycle, ValueAt
  <2>1. n \in 1 .. Current(k)
    BY DEF TypeInv, TypeOK, Current
  <2> QED
    BY <2>1 DEF CycleInv, CountsOf
<1>2. TypeInv /\ CycleInv /\ [Next]_vars => (TypeInv /\ CycleInv)'
  BY TypeStep, CycleStep
<1> QED
  BY TypeInit, CycleInit, <1>1, <1>2, PTL DEF Spec
=============================================================================
