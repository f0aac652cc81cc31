---------------------- MODULE GroupByAggParamsProofs ----------------------
(***************************************************************************)
(* Proofs about the mock planner and groupby_params (GroupByAggParams),   *)
(* for every bound on the calls and every set of key counts.              *)
(***************************************************************************)
EXTENDS GroupByAggParams, TLAPS

USE ParamsAssumption

(***************************************************************************)
(* One call of __call__, whatever request and whatever as_index the       *)
(* shared params hold: as_index stays Boolean, index_levels is at most    *)
(* the number of keys, and it is exactly that number when the call        *)
(* succeeds.                                                              *)
(***************************************************************************)
LEMMA CallCorrect ==
    ASSUME NEW r \in RequestKinds, NEW ai \in BOOLEAN,
           nBy \in Nat \ {0}, byIsList \in BOOLEAN, pandasNew \in BOOLEAN
    PROVE  /\ Call(r, ai).asIndex \in BOOLEAN
           /\ Call(r, ai).levels \in 0..nBy
           /\ Call(r, ai).ok => Call(r, ai).levels = nBy
<1> DEFINE idx == BuildMockAggResult(r, ai)
           fixed == FixAsIndex(idx, ai)
           lv == GetIndexLevels(r, fixed, idx)
<1>1. KeyIndex \in {"multi", "named"} /\ Levels(KeyIndex) = nBy
  BY DEF KeyIndex, Levels
<1>2. MockIndex(r, TRUE) \in {KeyIndex, "error"}
  BY DEF MockIndex, RequestKinds
\* The mock index is the key index, or a range or stripped index, which
\* only a request under as_index = False gives.
<1>3. /\ idx \in {KeyIndex, "range", "unnamed", "error"}
      /\ idx \in {"range", "unnamed"} => ~ai
  <2>1. CASE r = "plain"
    BY <2>1, <1>1 DEF BuildMockAggResult, MockIndex, StripNames
  <2>2. CASE r = "ignoring"
    BY <2>2, <1>1 DEF BuildMockAggResult, MockIndex, StripNames
  <2>3. CASE r = "failing"
    BY <2>3, <1>1 DEF BuildMockAggResult, MockIndex, StripNames
  <2>4. CASE r = "selcount"
    BY <2>4, <1>1 DEF BuildMockAggResult, MockIndex, StripNames
  <2>5. QED
    BY <2>1, <2>2, <2>3, <2>4 DEF RequestKinds
<1>4. fixed \in BOOLEAN /\ (fixed => idx \notin {"range", "unnamed"})
  BY <1>3 DEF FixAsIndex
<1>5. idx # "error" => lv = nBy \/ (lv = 0 /\ ~fixed)
  <2>1. CASE fixed
    BY <1>1, <1>3, <1>4, <2>1 DEF GetIndexLevels
  <2>2. CASE ~fixed
    BY <1>1, <1>2, <2>2 DEF GetIndexLevels
  <2>3. QED
    BY <1>4, <2>1, <2>2
<1>6. Call(r, ai) = [idx |-> idx,
                     asIndex |-> IF idx = "error" THEN ai ELSE fixed,
                     levels |-> IF idx = "error" THEN 0 ELSE lv,
                     ok |-> idx # "error" /\ lv # 0]
  BY DEF Call
<1>7. /\ Call(r, ai).asIndex = IF idx = "error" THEN ai ELSE fixed
      /\ Call(r, ai).levels = IF idx = "error" THEN 0 ELSE lv
      /\ Call(r, ai).ok = (idx # "error" /\ lv # 0)
  BY <1>6
<1>8. Call(r, ai).asIndex \in BOOLEAN
  BY <1>4, <1>7
<1>9. Call(r, ai).levels \in {0, nBy}
      /\ (Call(r, ai).ok => Call(r, ai).levels = nBy)
  BY <1>5, <1>7
<1>10. QED
  BY <1>8, <1>9

\* Updating stage and one Boolean field of call i keeps the calls typed.
LEMMA UpdateCallType ==
    ASSUME NEW cs \in Seq(CallRec), NEW i \in 1..Len(cs),
           NEW st \in Stages, NEW b \in BOOLEAN
    PROVE  /\ [cs EXCEPT ![i].stage = st, ![i].final = b] \in Seq(CallRec)
           /\ [cs EXCEPT ![i].stage = st, ![i].reset = b] \in Seq(CallRec)
<1>1. cs[i] \in CallRec
  OBVIOUS
<1>2. /\ [cs[i] EXCEPT !.stage = st, !.final = b] \in CallRec
      /\ [cs[i] EXCEPT !.stage = st, !.reset = b] \in CallRec
  BY <1>1 DEF CallRec
<1>3. ASSUME NEW v \in CallRec PROVE [cs EXCEPT ![i] = v] \in Seq(CallRec)
  OBVIOUS
<1>4. /\ [cs EXCEPT ![i].stage = st, ![i].final = b]
         = [cs EXCEPT ![i] = [cs[i] EXCEPT !.stage = st, !.final = b]]
      /\ [cs EXCEPT ![i].stage = st, ![i].reset = b]
         = [cs EXCEPT ![i] = [cs[i] EXCEPT !.stage = st, !.reset = b]]
  OBVIOUS
<1>5. QED
  BY <1>2, <1>3, <1>4

\* The invariant the induction carries: the type and the level count.
IInv == TypeOK /\ IndexLevelsMatchKeys

LEMMA InitIInv == Init => IInv
<1> SUFFICES ASSUME Init PROVE IInv
  OBVIOUS
<1>1. byIsList \in BOOLEAN
  BY DEF Init
<1>2. calls = << >> /\ << >> \in Seq(CallRec)
  BY DEF Init
<1>3. TypeOK
  BY <1>1, <1>2 DEF Init, TypeOK
<1>4. IndexLevelsMatchKeys
  BY <1>2 DEF IndexLevelsMatchKeys
<1>5. QED
  BY <1>3, <1>4 DEF IInv

LEMMA StepIInv == IInv /\ [Next]_vars => IInv'
<1> SUFFICES ASSUME IInv, [Next]_vars PROVE IInv'
  OBVIOUS
<1>1. nBy \in Nat \ {0} /\ byIsList \in BOOLEAN /\ pandasNew \in BOOLEAN
      /\ shared \in BOOLEAN /\ calls \in Seq(CallRec)
  BY DEF IInv, TypeOK
<1>2. ASSUME NEW r \in Requests, Agg(r) PROVE IInv'
  <2> DEFINE c == Call(r, shared)
             rec == [req |-> r, stage |-> IF c.ok THEN "created" ELSE "failed",
                     levels |-> c.levels, final |-> FALSE, reset |-> FALSE]
  <2>1. /\ c.asIndex \in BOOLEAN
        /\ c.levels \in 0..nBy
        /\ c.ok => c.levels = nBy
    BY <1>1, CallCorrect
  <2>2. calls' = Append(calls, rec) /\ shared' = c.asIndex
        /\ UNCHANGED <<userAsIndex, pandasNew, nBy, byIsList>>
        /\ Len(calls) < MaxCalls
    BY <1>2 DEF Agg
  <2>3. rec \in CallRec /\ (rec.stage # "failed" => rec.levels = nBy)
    BY <2>1 DEF CallRec, Stages
  <2>4. TypeOK'
    <3>1. CallRec' = CallRec
      BY <2>2 DEF CallRec
    <3>2. calls' \in Seq(CallRec) /\ Len(calls') <= MaxCalls
      BY <1>1, <2>2, <2>3
    <3>3. shared' \in BOOLEAN
      BY <2>1, <2>2
    <3>4. QED
      BY <1>1, <2>2, <3>1, <3>2, <3>3 DEF IInv, TypeOK
  <2>5. IndexLevelsMatchKeys'
    BY <1>1, <2>2, <2>3 DEF IInv, IndexLevelsMatchKeys
  <2>6. QED
    BY <2>4, <2>5 DEF IInv
<1>3. ASSUME NEW i \in 1..Len(calls), Tile(i) PROVE IInv'
  <2>1. calls' = [calls EXCEPT ![i].stage = "tiled", ![i].final = shared]
        /\ calls[i].stage = "created"
        /\ UNCHANGED <<userAsIndex, pandasNew, nBy, byIsList, shared>>
    BY <1>3 DEF Tile
  <2>2. TypeOK'
    <3>1. CallRec' = CallRec
      BY <2>1 DEF CallRec
    <3>2. calls' \in Seq(CallRec)
      BY <1>1, <2>1, UpdateCallType DEF Stages
    <3>3. QED
      BY <2>1, <3>1, <3>2 DEF IInv, TypeOK
  <2>3. IndexLevelsMatchKeys'
    BY <1>1, <2>1 DEF IInv, IndexLevelsMatchKeys
  <2>4. QED
    BY <2>2, <2>3 DEF IInv
<1>4. ASSUME NEW i \in 1..Len(calls), ExecuteAgg(i) PROVE IInv'
  <2>1. calls' = [calls EXCEPT ![i].stage = "done", ![i].reset = ~calls[i].final]
        /\ calls[i].stage = "tiled"
        /\ UNCHANGED <<userAsIndex, pandasNew, nBy, byIsList, shared>>
    BY <1>4 DEF ExecuteAgg
  <2>2. TypeOK'
    <3>1. CallRec' = CallRec
      BY <2>1 DEF CallRec
    <3>2. calls[i].final \in BOOLEAN
      <4>1. calls[i] \in CallRec
        BY <1>1
      <4>2. QED
        BY <4>1 DEF CallRec
    <3>3. calls' \in Seq(CallRec)
      BY <1>1, <2>1, <3>2, UpdateCallType DEF Stages
    <3>4. QED
      BY <2>1, <3>1, <3>3 DEF IInv, TypeOK
  <2>3. IndexLevelsMatchKeys'
    BY <1>1, <2>1 DEF IInv, IndexLevelsMatchKeys
  <2>4. QED
    BY <2>2, <2>3 DEF IInv
<1>5. CASE UNCHANGED vars
  BY <1>5 DEF IInv, TypeOK, IndexLevelsMatchKeys, CallRec, vars
<1>6. QED
  BY <1>2, <1>3, <1>4, <1>5 DEF Next

-----------------------------------------------------------------------------

(***************************************************************************)
(* Type correctness of the planner state, for every bound on the calls.   *)
(***************************************************************************)
THEOREM ParamsTypeCorrect == Spec => []TypeOK
<1>1. Init => IInv
  BY InitIInv
<1>2. IInv /\ [Next]_vars => IInv'
  BY StepIInv
<1>3. IInv => TypeOK
  BY DEF IInv
<1>4. QED
  BY <1>1, <1>2, <1>3, PTL DEF Spec

(***************************************************************************)
(* Every agg() call that succeeds sets index_levels to the number of      *)
(* grouping keys, whatever earlier calls wrote into the shared params     *)
(* (IndexLevelsMatchKeys), for every number of keys and every bound.      *)
(***************************************************************************)
THEOREM IndexLevelsCorrect == Spec => []IndexLevelsMatchKeys
<1>1. Init => IInv
  BY InitIInv
<1>2. IInv /\ [Next]_vars => IInv'
  BY StepIInv
<1>3. IInv => IndexLevelsMatchKeys
  BY DEF IInv
<1>4. QED
  BY <1>1, <1>2, <1>3, PTL DEF Spec

=============================================================================
