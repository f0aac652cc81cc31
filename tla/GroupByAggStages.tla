------------------------- MODULE GroupByAggStages -------------------------
(***************************************************************************)
(* The tuple of partial results that flows through the staged executor of *)
(* DataFrameGroupByAgg (aggregation.py): _execute_map emits one element  *)
(* per agg step, every _execute_combine round re-packs it with            *)
(* _pack_inputs and re-emits it, and _execute_agg re-packs it once more   *)
(* before finalizing each step.                                           *)
(*                                                                        *)
(* Data abstraction: a partial result is the set of agg steps whose map   *)
(* output it was computed from (its provenance); a step's own partial is *)
(* {k}.  All chunks of a tree round carry tuples of the same shape, so    *)
(* one chain of stages stands for all of them.                            *)
(***************************************************************************)
EXTENDS Naturals, Sequences, FiniteSets

CONSTANTS
    MaxSteps,   \* bound on the number of agg steps (agg_funcs entries)
    Limits,     \* the output_limit values a step may declare
    MaxRounds   \* bound on the combine rounds of the tree

ASSUME StagesAssumption ==
    /\ MaxSteps \in Nat \ {0}
    /\ Limits \subseteq Nat \ {0} /\ 1 \in Limits
    /\ MaxRounds \in Nat

(***************************************************************************)
(* An agg step (ReductionAggStep): whether it is a custom reduction and   *)
(* its output_limit, which exceeds 1 only for custom reductions (spec 3). *)
(***************************************************************************)
Steps == {s \in [custom : BOOLEAN, limit : Limits] : ~s.custom => s.limit = 1}

AggFuncsSet == UNION {[1..n -> Steps] : n \in 1..MaxSteps}

VARIABLES
    aggFuncs,   \* op.agg_funcs, the same in every stage's operand
    stage,      \* last stage executed
    data,       \* the tuple the last stage stored in ctx
    rounds      \* combine rounds executed

vars == <<aggFuncs, stage, data, rounds>>

N == Len(aggFuncs)

(***************************************************************************)
(* _pack_inputs: the position of step k in the tuple is 1 plus the        *)
(* output_limits of the steps before it; a plain step takes the element   *)
(* there (past the end it raises IndexError, see PackFails), a custom    *)
(* step the slice of output_limit elements from there (truncated like a  *)
(* Python slice).                                                         *)
(***************************************************************************)
\* Mutant of Pos: pos never advanced past the first element.
PosUnadvanced(k) == 1

\* The output slots the steps before k declare: output_limit slots each.
SlotsBefore(k) == UNION {{j} \X (1..aggFuncs[j].limit) : j \in 1..k-1}

\* The position of step k: pos after the steps before it, that is 1 plus
\* the sum of their output_limits.
Pos(k) == 1 + Cardinality(SlotsBefore(k))

SliceLen(tup, k) ==
    IF Pos(k) > Len(tup) THEN 0
    ELSE IF Len(tup) - Pos(k) + 1 < aggFuncs[k].limit THEN Len(tup) - Pos(k) + 1
    ELSE aggFuncs[k].limit

Slice(tup, k) == [j \in 1..SliceLen(tup, k) |-> tup[Pos(k) + j - 1]]

Packed(tup, k) ==
    IF aggFuncs[k].custom
    THEN UNION {Slice(tup, k)[j] : j \in 1..Len(Slice(tup, k))}
    ELSE IF Pos(k) <= Len(tup) THEN tup[Pos(k)] ELSE {}

\* A plain step read past the end of the tuple: the stage raises.
PackFails(tup) == \E k \in 1..N : ~aggFuncs[k].custom /\ Pos(k) > Len(tup)

Init ==
    /\ aggFuncs \in AggFuncsSet
    /\ stage = "none"
    /\ data = << >>
    /\ rounds = 0

(***************************************************************************)
(* _execute_map: one element per agg step (a custom step appends the one  *)
(* object execute_map returns); the size record is in GroupByAggTile.     *)
(***************************************************************************)
ExecuteMap ==
    /\ stage = "none"
    /\ stage' = "map"
    /\ data' = [k \in 1..N |-> {k}]
    /\ UNCHANGED <<aggFuncs, rounds>>

(***************************************************************************)
(* _execute_combine: pack the grouped elements; a plain step combines its *)
(* packed input, a custom step the raw element zip pairs it with.         *)
(***************************************************************************)
ExecuteCombine ==
    /\ stage \in {"map", "combine"}
    /\ rounds < MaxRounds
    /\ rounds' = rounds + 1
    /\ IF PackFails(data)
       THEN stage' = "failed" /\ data' = data
       ELSE /\ stage' = "combine"
            /\ data' = [k \in 1..N |->
                          IF aggFuncs[k].custom THEN data[k] ELSE Packed(data, k)]
    /\ UNCHANGED aggFuncs

\* _execute_agg: pack, then finalize every step from its packed input.
ExecuteAgg ==
    /\ stage \in {"map", "combine"}
    /\ IF PackFails(data)
       THEN stage' = "failed" /\ data' = data
       ELSE stage' = "agg" /\ data' = [k \in 1..N |-> Packed(data, k)]
    /\ UNCHANGED <<aggFuncs, rounds>>

Next == ExecuteMap \/ ExecuteCombine \/ ExecuteAgg

Spec == Init /\ [][Next]_vars

-----------------------------------------------------------------------------

\* Every variable has its type.
TypeOK ==
    /\ aggFuncs \in AggFuncsSet
    /\ stage \in {"none", "map", "combine", "agg", "failed"}
    /\ data \in Seq(SUBSET (1..MaxSteps))
    /\ rounds \in 0..MaxRounds

(***************************************************************************)
(* Spec 4.5: combine unpacks each partial tuple by the steps' declared    *)
(* output counts and re-emits the same shape, and agg finalizes each step *)
(* from its own partials.  After every stage no stage has failed, the     *)
(* tuple has one element per step, and element k was computed from step   *)
(* k's partials only.                                                     *)
(***************************************************************************)
StagesAligned ==
    stage # "none" =>
        /\ stage # "failed"
        /\ Len(data) = N
        /\ \A k \in 1..N : data[k] = {k}

-----------------------------------------------------------------------------

\* Every agg step declares output_limit 1: every built-in reduction, and
\* every custom reduction that returns one object from execute_map.
UnitLimits == \A k \in 1..N : aggFuncs[k].limit = 1

\* The tuple map emits: element k is step k's own partial.
Aligned == [k \in 1..N |-> {k}]

(***************************************************************************)
(* The inductive form of StagesAligned: the steps never change, and when  *)
(* every step declares one output, _pack_inputs reads each step at the    *)
(* position map wrote it, so every stage re-emits the tuple map emitted   *)
(* and no stage raises.                                                    *)
(***************************************************************************)
AlignInv ==
    /\ aggFuncs \in AggFuncsSet
    /\ UnitLimits =>
         /\ stage \in {"none", "map", "combine", "agg"}
         /\ stage # "none" => data = Aligned

=============================================================================
