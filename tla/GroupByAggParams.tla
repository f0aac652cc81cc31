------------------------- MODULE GroupByAggParams -------------------------
(***************************************************************************)
(* The mock planner of DataFrameGroupByAgg and the life of the            *)
(* groupby_params dictionary across agg() calls on one groupby object     *)
(* (aggregation.py).                                                      *)
(*                                                                        *)
(* agg() builds the operand with groupby_params = groupby.op.groupby_params*)
(* (the groupby's own dict, not a copy); __call__ asks pandas for a mock  *)
(* result, _fix_as_index may write as_index = True into that dict, and    *)
(* _get_index_levels fixes the number of index levels the intermediate    *)
(* stages group by.  Tiling is lazy: the agg-stage chunk copies the dict  *)
(* only when the tileable is tiled (_build_out_tileable), and the agg     *)
(* stage resets the index iff the copy says as_index = False.             *)
(*                                                                        *)
(* Data abstraction: a pandas index is one of "range", "named" (a single  *)
(* named level), "unnamed" (a single level whose name was stripped) and   *)
(* "multi"; a request (the function and keywords passed to agg) is one   *)
(* of the classes of pandas behaviour the code tells apart (Requests).   *)
(***************************************************************************)
EXTENDS Naturals, Sequences

CONSTANTS
    Requests,   \* request classes, a subset of RequestKinds
    ByCounts,   \* possible numbers of grouping keys
    MaxCalls    \* bound on the agg() calls made on the groupby

RequestKinds == {"plain", "ignoring", "failing", "selcount"}

ASSUME ParamsAssumption ==
    /\ Requests \subseteq RequestKinds
    /\ ByCounts \subseteq Nat \ {0}
    /\ MaxCalls \in Nat

VARIABLES
    userAsIndex, \* as_index the user passed to groupby()
    pandasNew,   \* _support_get_group_without_as_index
    nBy,         \* number of grouping keys
    byIsList,    \* whether groupby_params["by"] is a list
    shared,      \* groupby.op.groupby_params["as_index"] (the one dict)
    calls        \* one record per agg() call, in call order

vars == <<userAsIndex, pandasNew, nBy, byIsList, shared, calls>>

Stages == {"created", "tiled", "done", "failed"}

(***************************************************************************)
(* pandas: the index of groupby(..., as_index = ai).aggregate(request),   *)
(* or "error" when pandas raises ValueError.  "plain" honours as_index;   *)
(* "ignoring" returns the key index whatever as_index says; "failing"     *)
(* raises under as_index = False; "selcount" is the selection case the    *)
(* comment of _get_index_levels names, which fails under as_index = True. *)
(***************************************************************************)
KeyIndex == IF nBy > 1 THEN "multi" ELSE "named"

MockIndex(r, ai) ==
    CASE r = "plain"    -> IF ai THEN KeyIndex ELSE "range"
      [] r = "ignoring" -> KeyIndex
      [] r = "failing"  -> IF ai THEN KeyIndex ELSE "error"
      [] r = "selcount" -> IF ai THEN "error" ELSE "range"

\* Mutant of Levels: one level too many for a MultiIndex.
LevelsPlusOne(idx) == IF idx = "multi" THEN nBy + 1 ELSE 1

\* The number of levels of an index: len(index.levels) for a MultiIndex.
Levels(idx) == IF idx = "multi" THEN nBy ELSE 1

StripNames(idx) == IF idx = "named" THEN "unnamed" ELSE idx

(***************************************************************************)
(* build_mock_agg_result: the mock is built from the groupby's params     *)
(* (ai); on ValueError it re-raises under as_index or new pandas, else    *)
(* retries with as_index = True and strips the index names.               *)
(***************************************************************************)
BuildMockAggResult(r, ai) ==
    IF MockIndex(r, ai) # "error" THEN MockIndex(r, ai)
    ELSE IF ai \/ pandasNew THEN "error"
    ELSE IF MockIndex(r, TRUE) = "error" THEN "error"
    ELSE StripNames(MockIndex(r, TRUE))

\* _fix_as_index: the new value of groupby_params["as_index"].
FixAsIndex(idx, ai) == IF idx \in {"multi", "named"} THEN TRUE ELSE ai

\* Mutant of GetIndexLevels: always count the mock result's own index.
GetIndexLevelsMock(r, ai, idx) == Levels(idx)

\* _get_index_levels, with 0 standing for the re-raised exception.
GetIndexLevels(r, ai, idx) ==
    IF ~ai
    THEN IF MockIndex(r, TRUE) # "error" THEN Levels(MockIndex(r, TRUE))
         ELSE IF byIsList THEN nBy ELSE 0
    ELSE Levels(idx)

(***************************************************************************)
(* __call__ / _call_dataframe / _call_series on params whose as_index is  *)
(* ai: the mock result's index, as_index after _fix_as_index, and         *)
(* index_levels (0 when the call raised; ok = FALSE then).                *)
(***************************************************************************)
Call(r, ai) ==
    LET idx == BuildMockAggResult(r, ai)
        fixed == FixAsIndex(idx, ai)
        lv == GetIndexLevels(r, fixed, idx)
    IN [idx |-> idx,
        asIndex |-> IF idx = "error" THEN ai ELSE fixed,
        levels |-> IF idx = "error" THEN 0 ELSE lv,
        ok |-> idx # "error" /\ lv # 0]

Init ==
    /\ userAsIndex \in BOOLEAN
    /\ pandasNew \in BOOLEAN
    /\ nBy \in ByCounts
    /\ byIsList \in IF nBy > 1 THEN {TRUE} ELSE BOOLEAN
    /\ shared = userAsIndex
    /\ calls = << >>

(***************************************************************************)
(* agg(): the operand's groupby_params is the groupby's dict itself, so   *)
(* whatever _fix_as_index writes stays in the groupby, even when the call *)
(* then raises in _get_index_levels.                                      *)
(***************************************************************************)
Agg(r) ==
    /\ Len(calls) < MaxCalls
    /\ LET c == Call(r, shared)
       IN /\ shared' = c.asIndex
          /\ calls' = Append(calls,
                [req |-> r, stage |-> IF c.ok THEN "created" ELSE "failed",
                 levels |-> c.levels, final |-> FALSE, reset |-> FALSE])
    /\ UNCHANGED <<userAsIndex, pandasNew, nBy, byIsList>>

(***************************************************************************)
(* Tiling of call i (lazy, at any later time): the agg-stage chunk op     *)
(* copies op.groupby_params, i.e. the shared dict as it is now.           *)
(***************************************************************************)
Tile(i) ==
    /\ calls[i].stage = "created"
    /\ calls' = [calls EXCEPT ![i].stage = "tiled", ![i].final = shared]
    /\ UNCHANGED <<userAsIndex, pandasNew, nBy, byIsList, shared>>

\* _execute_agg: reset_index iff the copied params say as_index = False.
ExecuteAgg(i) ==
    /\ calls[i].stage = "tiled"
    /\ calls' = [calls EXCEPT ![i].stage = "done", ![i].reset = ~calls[i].final]
    /\ UNCHANGED <<userAsIndex, pandasNew, nBy, byIsList, shared>>

Next ==
    \/ \E r \in Requests : Agg(r)
    \/ \E i \in 1..Len(calls) : Tile(i) \/ ExecuteAgg(i)

Spec == Init /\ [][Next]_vars

-----------------------------------------------------------------------------

CallRec == [req : RequestKinds, stage : Stages, levels : 0..nBy,
            final : BOOLEAN, reset : BOOLEAN]

\* Every variable has its type.
TypeOK ==
    /\ userAsIndex \in BOOLEAN /\ pandasNew \in BOOLEAN
    /\ nBy \in ByCounts /\ byIsList \in BOOLEAN
    /\ shared \in BOOLEAN
    /\ calls \in Seq(CallRec) /\ Len(calls) <= MaxCalls

(***************************************************************************)
(* Every agg() call that succeeds plans its intermediate stages to group  *)
(* by as many index levels as there are grouping keys, whichever path of  *)
(* _get_index_levels it takes (its own mock index, a second mock with     *)
(* as_index = True, or len(by) after that mock failed), and whatever an   *)
(* earlier call left in the shared params.                                *)
(***************************************************************************)
IndexLevelsMatchKeys ==
    \A i \in 1..Len(calls) : calls[i].stage # "failed" => calls[i].levels = nBy

(***************************************************************************)
(* Spec 4.1 and Scenario D: when as_index is forced True for planning,    *)
(* "the original flag is preserved for final output reconstruction": the  *)
(* output of the agg stage resets the index iff the user asked for        *)
(* as_index = False.                                                      *)
(***************************************************************************)
ResetAsRequested ==
    \A i \in 1..Len(calls) : calls[i].stage = "done" => calls[i].reset = ~userAsIndex

(***************************************************************************)
(* Spec 3 (GroupByParams are copied, never aliased): a call's output has  *)
(* the index it would have had on a fresh groupby; earlier agg() calls on *)
(* the same groupby, and calls made between this call and its tiling, do  *)
(* not change it.                                                         *)
(***************************************************************************)
FreshReset(r) == ~Call(r, userAsIndex).asIndex

CallsIndependent ==
    \A i \in 1..Len(calls) : calls[i].stage = "done" => calls[i].reset = FreshReset(calls[i].req)

=============================================================================
