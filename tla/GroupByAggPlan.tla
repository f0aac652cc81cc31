--------------------------- MODULE GroupByAggPlan ---------------------------
(***************************************************************************)
(* What tiling a grouped aggregation promises (spec 4.2 to 4.4), without   *)
(* how it gets there: in one step the planner resolves the requested      *)
(* method to a tree or a shuffle plan, uses pivots exactly when the plan   *)
(* is a shuffle that must keep the keys sorted across several input        *)
(* chunks, and produces final agg chunks that each read every input chunk: *)
(* one for a tree, at most one per input chunk for a shuffle.  Auto over   *)
(* at most combine_size input chunks must resolve to a tree.               *)
(*                                                                         *)
(* GroupByAggTile implements this specification (see ImplementsPlan and   *)
(* GroupByAggTileProofs): the probe, the combine rounds and the runtime's  *)
(* steps are stuttering steps of it.                                       *)
(***************************************************************************)
EXTENDS Naturals, Sequences

CONSTANTS
    ChunkCounts,   \* the possible len(in_df.chunks)
    CombineSize,   \* op.combine_size
    Methods        \* the requested op.method values

VARIABLES
    nIn,      \* len(in_df.chunks)
    method,   \* op.method
    sort,     \* groupby_params["sort"]
    result    \* the tiled result: kind, pivot use, what each output reads

vars == <<nIn, method, sort, result>>

Inputs == 1..nIn

NoResult == [kind |-> "none", pivot |-> FALSE, outs |-> << >>]

\* The plans a requested method may resolve to.
Resolutions ==
    IF method = "auto"
    THEN IF nIn <= CombineSize THEN {"tree"} ELSE {"tree", "shuffle"}
    ELSE {method}

\* How many final agg chunks a plan of that kind may have.
FanOut(kind) == IF kind = "tree" THEN {1} ELSE 1..nIn

Init ==
    /\ nIn \in ChunkCounts
    /\ method \in Methods
    /\ sort \in BOOLEAN
    /\ result = NoResult

Tile ==
    /\ result = NoResult
    /\ \E kind \in Resolutions, k \in 1..nIn :
          /\ k \in FanOut(kind)
          /\ result' = [kind |-> kind,
                        pivot |-> kind = "shuffle" /\ sort /\ nIn > 1,
                        outs |-> [i \in 1..k |-> Inputs]]
    /\ UNCHANGED <<nIn, method, sort>>

Spec == Init /\ [][Tile]_vars

=============================================================================
