---------------------- MODULE GroupByAggStagesProofs -----------------------
(***************************************************************************)
(* Proofs about the staged executor (_execute_map, _execute_combine,      *)
(* _execute_agg and _pack_inputs): when every agg step declares one       *)
(* output, every stage hands each step exactly its own partial, for every *)
(* number of steps, every mix of plain and custom steps and every number  *)
(* of combine rounds.                                                     *)
(***************************************************************************)
EXTENDS GroupByAggStages, FiniteSetTheorems, TLAPS

USE StagesAssumption

-----------------------------------------------------------------------------
(***************************************************************************)
(* The operators of _pack_inputs.                                          *)
(***************************************************************************)

\* The agg steps form a non-empty sequence of steps.
LEMMA AggFuncsSeq ==
    ASSUME aggFuncs \in AggFuncsSet
    PROVE  /\ aggFuncs \in Seq(Steps)
           /\ N \in Nat \ {0}
           /\ DOMAIN aggFuncs = 1..N
<1>1. PICK n \in 1..MaxSteps : aggFuncs \in [1..n -> Steps]
  BY DEF AggFuncsSet
<1>2. n \in Nat \ {0}
  OBVIOUS
<1>3. aggFuncs \in Seq(Steps) /\ Len(aggFuncs) = n
  BY <1>1, <1>2
<1>. QED
  BY <1>1, <1>2, <1>3 DEF N

\* With one slot per step, the steps before k declare k-1 slots.
LEMMA SlotsOfUnitSteps ==
    ASSUME aggFuncs \in AggFuncsSet, UnitLimits, NEW k \in 1..N
    PROVE  SlotsBefore(k) = (1..k-1) \X (1..1)
<1>1. \A j \in 1..k-1 : aggFuncs[j].limit = 1
  BY AggFuncsSeq DEF UnitLimits
<1>. QED
  BY <1>1 DEF SlotsBefore

\* With one slot per step, step k sits at position k of the tuple.
LEMMA PosOfUnitSteps ==
    ASSUME aggFuncs \in AggFuncsSet, UnitLimits, NEW k \in 1..N
    PROVE  Pos(k) = k
<1>0. N \in Nat \ {0}
  BY AggFuncsSeq
<1>1. SlotsBefore(k) = (1..k-1) \X (1..1)
  BY SlotsOfUnitSteps
<1>2. IsFiniteSet(1..k-1) /\ Cardinality(1..k-1) = k-1
  BY <1>0, FS_Interval
<1>3. IsFiniteSet(1..1) /\ Cardinality(1..1) = 1
  <2>1. 1..1 = {1}
    OBVIOUS
  <2>2. IsFiniteSet({1}) /\ Cardinality({1}) = 1
    BY FS_Singleton
  <2>. QED
    BY <2>1, <2>2
<1>4. Cardinality((1..k-1) \X (1..1)) = (k-1) * 1
  BY <1>2, <1>3, FS_Product
<1>5. Cardinality(SlotsBefore(k)) = k - 1
  BY <1>0, <1>1, <1>4
<1>. QED
  BY <1>0, <1>5 DEF Pos

\* Packing the aligned tuple never fails and gives each step its own
\* partial, whether the step is plain or custom.
LEMMA PackAligned ==
    ASSUME aggFuncs \in AggFuncsSet, UnitLimits
    PROVE  /\ ~PackFails(Aligned)
           /\ \A k \in 1..N : Packed(Aligned, k) = {k}
<1>0. N \in Nat \ {0} /\ Len(Aligned) = N
  BY AggFuncsSeq DEF Aligned
<1>1. ASSUME NEW k \in 1..N
      PROVE  /\ Pos(k) = k
             /\ Packed(Aligned, k) = {k}
  <2>1. Pos(k) = k /\ aggFuncs[k].limit = 1
    BY PosOfUnitSteps DEF UnitLimits
  <2>2. SliceLen(Aligned, k) = 1
    BY <1>0, <2>1 DEF SliceLen
  <2>3. Slice(Aligned, k) = <<{k}>>
    <3>1. Aligned[Pos(k)] = {k}
      BY <2>1 DEF Aligned
    <3>2. Slice(Aligned, k) = [j \in 1..1 |-> Aligned[Pos(k) + j - 1]]
      BY <2>2 DEF Slice
    <3>3. \A j \in 1..1 : Aligned[Pos(k) + j - 1] = {k}
      BY <2>1, <3>1
    <3>. QED
      BY <3>2, <3>3
  <2>4. CASE aggFuncs[k].custom
    <3>1. UNION {Slice(Aligned, k)[j] : j \in 1..Len(Slice(Aligned, k))} = {k}
      BY <2>3
    <3>2. Packed(Aligned, k) =
            UNION {Slice(Aligned, k)[j] : j \in 1..Len(Slice(Aligned, k))}
      BY <2>4 DEF Packed
    <3>. QED
      BY <2>1, <3>1, <3>2
  <2>5. CASE ~aggFuncs[k].custom
    BY <1>0, <2>1, <2>5 DEF Packed, Aligned
  <2>. QED
    BY <1>0, <2>1, <2>4, <2>5
<1>2. ASSUME NEW k \in 1..N PROVE ~(Pos(k) > Len(Aligned))
  BY <1>0, <1>1
<1>3. ~PackFails(Aligned)
  BY <1>2 DEF PackFails
<1>. QED
  BY <1>1, <1>3

-----------------------------------------------------------------------------
(***************************************************************************)
(* The inductive invariant.                                                *)
(***************************************************************************)

LEMMA AlignInit == Init => AlignInv
BY DEF Init, AlignInv

LEMMA AlignStep == AlignInv /\ [Next]_vars => AlignInv'
<1> SUFFICES ASSUME AlignInv, [Next]_vars PROVE AlignInv'
  OBVIOUS
<1>1. aggFuncs' = aggFuncs
  BY DEF Next, ExecuteMap, ExecuteCombine, ExecuteAgg, vars
<1>2. aggFuncs' \in AggFuncsSet /\ (UnitLimits' <=> UnitLimits)
      /\ N' = N /\ Aligned' = Aligned
  BY <1>1 DEF AlignInv, UnitLimits, N, Aligned
<1>. SUFFICES ASSUME UnitLimits
              PROVE  /\ stage' \in {"none", "map", "combine", "agg"}
                     /\ stage' # "none" => data' = Aligned
  BY <1>2 DEF AlignInv
<1>3. /\ stage \in {"none", "map", "combine", "agg"}
      /\ stage # "none" => data = Aligned
      /\ aggFuncs \in AggFuncsSet
  BY DEF AlignInv
<1>4. /\ ~PackFails(Aligned)
      /\ \A k \in 1..N : Packed(Aligned, k) = {k}
  BY <1>3, PackAligned
<1>5. CASE ExecuteMap
  BY <1>5 DEF ExecuteMap, Aligned
<1>6. CASE ExecuteCombine
  <2>1. data = Aligned /\ ~PackFails(data)
    BY <1>3, <1>4, <1>6 DEF ExecuteCombine
  <2>2. data' = [k \in 1..N |-> IF aggFuncs[k].custom THEN data[k]
                                ELSE Packed(data, k)]
    BY <1>6, <2>1 DEF ExecuteCombine
  <2>3. data' = Aligned
    BY <1>4, <2>1, <2>2 DEF Aligned
  <2>. QED
    BY <1>6, <2>1, <2>3 DEF ExecuteCombine
<1>7. CASE ExecuteAgg
  <2>1. data = Aligned /\ ~PackFails(data)
    BY <1>3, <1>4, <1>7 DEF ExecuteAgg
  <2>2. data' = [k \in 1..N |-> Packed(data, k)]
    BY <1>7, <2>1 DEF ExecuteAgg
  <2>3. data' = Aligned
    BY <1>4, <2>1, <2>2 DEF Aligned
  <2>. QED
    BY <1>7, <2>1, <2>3 DEF ExecuteAgg
<1>8. CASE UNCHANGED vars
  BY <1>3, <1>8 DEF vars
<1>. QED
  BY <1>5, <1>6, <1>7, <1>8 DEF Next

(***************************************************************************)
(* When every agg step declares one output, no stage fails and each stage *)
(* finalizes step k from step k's partials only: _pack_inputs finds every *)
(* step at the position the map and combine stages put it, for every     *)
(* number of steps and combine rounds and every mix of plain and custom  *)
(* steps.                                                                 *)
(***************************************************************************)
THEOREM StagesAlignedWithUnitLimits == Spec => [](UnitLimits => StagesAligned)
<1>1. Init => AlignInv
  BY AlignInit
<1>2. AlignInv /\ [Next]_vars => AlignInv'
  BY AlignStep
<1>3. AlignInv => (UnitLimits => StagesAligned)
  BY AggFuncsSeq DEF AlignInv, StagesAligned, Aligned
<1>. QED
  BY <1>1, <1>2, <1>3, PTL DEF Spec

=============================================================================
