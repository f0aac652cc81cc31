--------------------------- MODULE GroupByAggTile ---------------------------
(***************************************************************************)
(* Tiling of a grouped aggregation (DataFrameGroupByAgg.tile and its       *)
(* helpers in groupby/aggregation.py): the choice between the tree and the *)
(* shuffle method, the "auto" probe that runs the map stage of the first   *)
(* combine_size chunks and reads their sizes back from a SizeRecorder, the *)
(* tree-combine loop and the fall back to a shuffle.                       *)
(*                                                                         *)
(* The planner is single-threaded; its one suspension point is the yield   *)
(* of the probe chunks in _tile_auto.  While it is suspended the runtime   *)
(* executes the probe map chunks concurrently, and each of them records    *)
(* its sizes in the shared SizeRecorder.  The runtime retries a chunk that *)
(* crashed after it recorded, and recomputes a chunk whose stored output   *)
(* was lost, whether before or after the planner resumed.                  *)
(*                                                                         *)
(* A chunk is abstracted to its lineage: the set of input chunks (1..n,    *)
(* positions in in_df.chunks) whose rows it aggregates.  The data and the  *)
(* chunk metadata (shapes, dtypes, index values) are left out.  The raw    *)
(* sizes recorded beside the aggregated sizes are only logged, and left    *)
(* out too.                                                                *)
(***************************************************************************)
EXTENDS Naturals, Sequences, FiniteSets, Functions

CONSTANTS
    ChunkCounts,      \* the possible len(in_df.chunks)
    CombineSize,      \* op.combine_size
    ChunkStoreLimit,  \* op.chunk_store_limit
    AggSizes,         \* the possible estimate_pandas_size of a map output
    Methods,          \* the requested op.method values
    MaxCrash,         \* bound on crashes of a probe after it recorded
    MaxLoss           \* bound on losses of a stored probe output

\* agg() replaces a combine_size of None or 0 by the default but accepts 1.
ASSUME ConstAssumption ==
    /\ ChunkCounts \subseteq Nat \ {0}
    /\ ChunkCounts # {}
    /\ CombineSize \in Nat \ {0}
    /\ ChunkStoreLimit \in Nat
    /\ AggSizes \subseteq Nat \ {0}
    /\ AggSizes # {}
    /\ Methods \subseteq {"auto", "tree", "shuffle"}
    /\ Methods # {}
    /\ MaxCrash \in Nat
    /\ MaxLoss \in Nat

VARIABLES
    nIn,       \* len(in_df.chunks), fixed for a run
    method,    \* op.method, fixed for a run
    sort,      \* op.groupby_params["sort"], fixed for a run
    aggSize,   \* aggregated size of the map output of each probe chunk
    pc,        \* where the planner is
    level,     \* the planner's current chunk list, as lineages
    checkSize, \* _build_tree_chunks was given a chunk_store_limit
    scale,     \* concat_chunk_size = mean recorded size * scale
    alive,     \* the SizeRecorder remote object exists
    records,   \* the aggregated sizes recorded (planner's copy after get)
    probe,     \* runtime state of each probe map chunk
    crashes,   \* crashes of probe chunks so far
    losses,    \* losses of stored probe outputs so far
    plan       \* the tiled result: kind, fan-in, pivot use, lineages

vars == <<nIn, method, sort, aggSize, pc, level, checkSize, scale, alive,
          records, probe, crashes, losses, plan>>

Inputs == 1..nIn

ProbeIdx == 1..CombineSize

ProbeStates == {"idle", "pending", "recorded", "stored", "error"}

NoPlan == [kind |-> "none", fanIn |-> 0, pivot |-> FALSE, outs |-> << >>]

Plans == [kind : {"tree", "shuffle"}, fanIn : Nat, pivot : BOOLEAN,
          outs : Seq(SUBSET Inputs)]

\* Sum of a sequence of naturals.
SeqSum(s) == LET f[i \in 0..Len(s)] == IF i = 0 THEN 0 ELSE f[i - 1] + s[i]
             IN  f[Len(s)]

-----------------------------------------------------------------------------
(***************************************************************************)
(* Helpers of the tiling code.                                             *)
(***************************************************************************)

\* _gen_map_chunks over in_df.chunks[lo-1 : hi]: one map chunk per input.
MapChunks(lo, hi) == [i \in 1..(hi - lo + 1) |-> {lo + i - 1}]

\* Mutants of NumBatches: one batch too many; the tail batch dropped.
NumBatchesExtra(m) == m \div CombineSize + 1
NumBatchesFloor(m) == m \div CombineSize

\* Number of batches of combine_size in a list of m chunks.
NumBatches(m) == (m + CombineSize - 1) \div CombineSize

\* Positions of the chunks in the j-th batch chunks[i : i + combine_size].
Batch(j, m) == {k \in 1..m : (j - 1) * CombineSize < k /\ k <= j * CombineSize}

\* One round of _build_tree_chunks: a combine chunk over each batch.
Combined(chunks) ==
    [j \in 1..NumBatches(Len(chunks)) |->
        UNION {chunks[k] : k \in Batch(j, Len(chunks))}]

\* concat_chunk_size < chunk_store_limit / 4, with concat_chunk_size the
\* mean recorded size times scale, in exact arithmetic.
BelowLimit ==
    4 * SeqSum(records) * scale < ChunkStoreLimit * Len(records)

\* Mutant of WithinLimit: the same strict test as the loop.
WithinLimitStrict ==
    4 * SeqSum(records) * scale < ChunkStoreLimit * Len(records)

\* concat_size <= combine_chunk_limit in _build_tree_and_shuffle_chunks.
WithinLimit ==
    4 * SeqSum(records) * scale <= ChunkStoreLimit * Len(records)

\* Mutant of KeepCombining: the loop stops one chunk early.
KeepCombiningOffByOne ==
    (~checkSize \/ BelowLimit) /\ Len(level) > CombineSize + 1

\* The loop condition of _build_tree_chunks.
KeepCombining == (~checkSize \/ BelowLimit) /\ Len(level) > CombineSize

\* _build_out_tileable: concatenate the chunks if more than one, one agg chunk.
TreeOut(chunks) == [kind |-> "tree", fanIn |-> Len(chunks), pivot |-> FALSE,
                    outs |-> << UNION Range(chunks) >>]

\* Mutant of ShuffleOut: pivots whenever sort is set, also over one chunk.
ShuffleOutPivotAlways(chunks) ==
    [kind |-> "shuffle", fanIn |-> Len(chunks), pivot |-> sort,
     outs |-> [i \in 1..Len(chunks) |-> UNION Range(chunks)]]

\* _perform_shuffle: the pivot path when sort and more than one input
\* chunk, else the plain shuffle; either way one reducer, then one agg
\* chunk, per chunk shuffled, and every reducer reads every map chunk
\* through the shuffle proxy.
ShuffleOut(chunks) ==
    [kind |-> "shuffle", fanIn |-> Len(chunks), pivot |-> sort /\ nIn > 1,
     outs |-> [i \in 1..Len(chunks) |-> UNION Range(chunks)]]

-----------------------------------------------------------------------------
(***************************************************************************)
(* The planner.                                                            *)
(***************************************************************************)

Init ==
    /\ nIn \in ChunkCounts
    /\ method \in Methods
    /\ sort \in BOOLEAN
    /\ aggSize \in [ProbeIdx -> AggSizes]
    /\ pc = "tile"
    /\ level = << >>
    /\ checkSize = FALSE
    /\ scale = 1
    /\ alive = FALSE
    /\ records = << >>
    /\ probe = [c \in ProbeIdx |-> "idle"]
    /\ crashes = 0
    /\ losses = 0
    /\ plan = NoPlan

\* Mutant of TileTree: auto goes straight to the tree only below combine_size.
TileTreeStrict ==
    /\ pc = "tile"
    /\ \/ method = "tree"
       \/ method = "auto" /\ nIn < CombineSize
    /\ level' = MapChunks(1, nIn)
    /\ checkSize' = FALSE
    /\ pc' = "combine"
    /\ UNCHANGED <<nIn, method, sort, aggSize, scale, alive, records, probe,
                   crashes, losses, plan>>

\* tile with method "tree", or "auto" over at most combine_size chunks:
\* _tile_with_tree maps every chunk, then _combine_tree without a limit.
TileTree ==
    /\ pc = "tile"
    /\ \/ method = "tree"
       \/ method = "auto" /\ nIn <= CombineSize
    /\ level' = MapChunks(1, nIn)
    /\ checkSize' = FALSE
    /\ pc' = "combine"
    /\ UNCHANGED <<nIn, method, sort, aggSize, scale, alive, records, probe,
                   crashes, losses, plan>>

\* tile with method "shuffle": _tile_with_shuffle.
TileShuffle ==
    /\ pc = "tile"
    /\ method = "shuffle"
    /\ level' = MapChunks(1, nIn)
    /\ plan' = ShuffleOut(MapChunks(1, nIn))
    /\ pc' = "done"
    /\ UNCHANGED <<nIn, method, sort, aggSize, checkSize, scale, alive,
                   records, probe, crashes, losses>>

\* Mutant of TileAuto: the probe also taken when the input has exactly
\* combine_size chunks.
TileAutoLoose ==
    /\ pc = "tile"
    /\ method = "auto"
    /\ nIn >= CombineSize
    /\ alive' = TRUE
    /\ records' = << >>
    /\ level' = MapChunks(1, CombineSize)
    /\ probe' = [c \in ProbeIdx |-> "pending"]
    /\ pc' = "probing"
    /\ UNCHANGED <<nIn, method, sort, aggSize, checkSize, scale, crashes,
                   losses, plan>>

\* _tile_auto up to its yield: create the SizeRecorder, map the first
\* combine_size chunks with the recorder's name set on their operands.
TileAuto ==
    /\ pc = "tile"
    /\ method = "auto"
    /\ nIn > CombineSize
    /\ alive' = TRUE
    /\ records' = << >>
    /\ level' = MapChunks(1, CombineSize)
    /\ probe' = [c \in ProbeIdx |-> "pending"]
    /\ pc' = "probing"
    /\ UNCHANGED <<nIn, method, sort, aggSize, checkSize, scale, crashes,
                   losses, plan>>

\* Mutants of Resume: the remaining chunks taken from in_df.chunks[cs-1:];
\* resuming once as many sizes were recorded as there are probes.
ResumeOverlap ==
    /\ pc = "probing"
    /\ \A c \in ProbeIdx : probe[c] = "stored"
    /\ alive' = FALSE
    /\ level' = level \o MapChunks(CombineSize, nIn)
    /\ checkSize' = TRUE
    /\ pc' = "combine"
    /\ UNCHANGED <<nIn, method, sort, aggSize, scale, records, probe,
                   crashes, losses, plan>>
ResumeOnRecordCount ==
    /\ pc = "probing"
    /\ Len(records) = CombineSize
    /\ alive' = FALSE
    /\ level' = level \o MapChunks(CombineSize + 1, nIn)
    /\ checkSize' = TRUE
    /\ pc' = "combine"
    /\ UNCHANGED <<nIn, method, sort, aggSize, scale, records, probe,
                   crashes, losses, plan>>

\* Mutant of Resume: resuming once any probe has stored its output.
ResumeOnAnyStored ==
    /\ pc = "probing"
    /\ \E c \in ProbeIdx : probe[c] = "stored"
    /\ alive' = FALSE
    /\ level' = level \o MapChunks(CombineSize + 1, nIn)
    /\ checkSize' = TRUE
    /\ pc' = "combine"
    /\ UNCHANGED <<nIn, method, sort, aggSize, scale, records, probe,
                   crashes, losses, plan>>

\* _tile_auto after the yield: get the sizes, destroy the recorder, and
\* _build_tree_and_shuffle_chunks maps the remaining chunks and starts the
\* size-checked tree loop over the probe chunks followed by them.
Resume ==
    /\ pc = "probing"
    /\ \A c \in ProbeIdx : probe[c] = "stored"
    /\ alive' = FALSE
    /\ level' = level \o MapChunks(CombineSize + 1, nIn)
    /\ checkSize' = TRUE
    /\ pc' = "combine"
    /\ UNCHANGED <<nIn, method, sort, aggSize, scale, records, probe,
                   crashes, losses, plan>>

\* One iteration of the while loop of _build_tree_chunks.
CombineRound ==
    /\ pc = "combine"
    /\ KeepCombining
    /\ level' = Combined(level)
    /\ scale' = IF checkSize THEN scale * CombineSize ELSE scale
    /\ UNCHANGED <<nIn, method, sort, aggSize, pc, checkSize, alive, records,
                   probe, crashes, losses, plan>>

\* The loop ends and the tree is finished by _build_out_tileable: always
\* without a limit, and in auto when concat_size <= combine_chunk_limit.
FinishTree ==
    /\ pc = "combine"
    /\ ~KeepCombining
    /\ ~checkSize \/ WithinLimit
    /\ plan' = TreeOut(level)
    /\ pc' = "done"
    /\ UNCHANGED <<nIn, method, sort, aggSize, level, checkSize, scale, alive,
                   records, probe, crashes, losses>>

\* The loop ends in auto over the limit: _perform_shuffle of the chunks.
FinishShuffle ==
    /\ pc = "combine"
    /\ ~KeepCombining
    /\ checkSize
    /\ ~WithinLimit
    /\ plan' = ShuffleOut(level)
    /\ pc' = "done"
    /\ UNCHANGED <<nIn, method, sort, aggSize, level, checkSize, scale, alive,
                   records, probe, crashes, losses>>

-----------------------------------------------------------------------------
(***************************************************************************)
(* The runtime executing a probe map chunk (_execute_map).                 *)
(***************************************************************************)

\* Mutant of Record: the size is not kept.
RecordLost(recs, aggRecord) == recs

\* SizeRecorder.record: append to the list of aggregated sizes.
Record(recs, aggRecord) == Append(recs, aggRecord)

\* _execute_map of a probe: aggregate, then record (raw, agg) sizes in the
\* SizeRecorder found by name (SizeRecorder.record appends).
RunProbe(c) ==
    /\ probe[c] = "pending"
    /\ alive
    /\ records' = Record(records, aggSize[c])
    /\ probe' = [probe EXCEPT ![c] = "recorded"]
    /\ UNCHANGED <<nIn, method, sort, aggSize, pc, level, checkSize, scale,
                   alive, crashes, losses, plan>>

\* _execute_map of a probe once the recorder is destroyed:
\* ctx.get_remote_object fails and the chunk errors.
RunProbeAfterDestroy(c) ==
    /\ probe[c] = "pending"
    /\ ~alive
    /\ probe' = [probe EXCEPT ![c] = "error"]
    /\ UNCHANGED <<nIn, method, sort, aggSize, pc, level, checkSize, scale,
                   alive, records, crashes, losses, plan>>

\* The last statement of _execute_map stores the output tuple.
StoreProbe(c) ==
    /\ probe[c] = "recorded"
    /\ probe' = [probe EXCEPT ![c] = "stored"]
    /\ UNCHANGED <<nIn, method, sort, aggSize, pc, level, checkSize, scale,
                   alive, records, crashes, losses, plan>>

\* The worker fails between the record and the store; the runtime retries.
CrashProbe(c) ==
    /\ probe[c] = "recorded"
    /\ crashes < MaxCrash
    /\ probe' = [probe EXCEPT ![c] = "pending"]
    /\ crashes' = crashes + 1
    /\ UNCHANGED <<nIn, method, sort, aggSize, pc, level, checkSize, scale,
                   alive, records, losses, plan>>

\* A stored output is lost; the runtime recomputes the chunk.
LoseProbe(c) ==
    /\ probe[c] = "stored"
    /\ losses < MaxLoss
    /\ probe' = [probe EXCEPT ![c] = "pending"]
    /\ losses' = losses + 1
    /\ UNCHANGED <<nIn, method, sort, aggSize, pc, level, checkSize, scale,
                   alive, records, crashes, plan>>

Planner ==
    \/ TileTree \/ TileShuffle \/ TileAuto \/ Resume
    \/ CombineRound \/ FinishTree \/ FinishShuffle

Runtime(c) ==
    \/ RunProbe(c) \/ RunProbeAfterDestroy(c) \/ StoreProbe(c)
    \/ CrashProbe(c) \/ LoseProbe(c)

Next == Planner \/ \E c \in ProbeIdx : Runtime(c)

\* The planner runs to completion once resumed, and the runtime schedules
\* every ready chunk; crashes and losses are never forced.
Fairness ==
    /\ WF_vars(Planner)
    /\ \A c \in ProbeIdx : WF_vars(RunProbe(c)) /\ WF_vars(StoreProbe(c))

Spec == Init /\ [][Next]_vars /\ Fairness

-----------------------------------------------------------------------------
(***************************************************************************)
(* Properties.                                                             *)
(***************************************************************************)

TypeOK ==
    /\ nIn \in ChunkCounts
    /\ method \in Methods
    /\ sort \in BOOLEAN
    /\ aggSize \in [ProbeIdx -> AggSizes]
    /\ pc \in {"tile", "probing", "combine", "done"}
    /\ level \in Seq((SUBSET Inputs) \ {{}})
    /\ checkSize \in BOOLEAN
    /\ scale \in Nat \ {0}
    /\ alive \in BOOLEAN
    /\ records \in Seq(AggSizes)
    /\ probe \in [ProbeIdx -> ProbeStates]
    /\ crashes \in 0..MaxCrash
    /\ losses \in 0..MaxLoss
    /\ plan \in Plans \cup {NoPlan}

\* The chunks in seq aggregate disjoint sets of inputs that together are S.
IsPartition(seq, S) ==
    /\ UNION Range(seq) = S
    /\ \A i, j \in DOMAIN seq : i # j => seq[i] \cap seq[j] = {}

\* Every input chunk is aggregated exactly once: the probe chunks cover the
\* first combine_size inputs while probing, every chunk list the planner
\* builds (map chunks, the probes followed by the remaining map chunks, each
\* round of combine chunks) partitions the inputs, and every final chunk
\* reads all of them.
LineageExactlyOnce ==
    /\ pc = "probing" => IsPartition(level, ProbeIdx)
    /\ pc \in {"combine", "done"} => IsPartition(level, Inputs)
    /\ pc = "done" => \A i \in DOMAIN plan.outs : plan.outs[i] = Inputs

\* The inductive form of LineageExactlyOnce: the planner only suspends on
\* a probe when the input has more chunks than the probes take, so that the
\* chunks _build_tree_and_shuffle_chunks appends after the probes are the
\* rest of the input.
LineageInv ==
    /\ TypeOK
    /\ LineageExactlyOnce
    /\ pc = "probing" => nIn > CombineSize

\* Tiling terminates (the while loop of _build_tree_chunks ends and the
\* auto probe resumes).
PlanningTerminates == <>(pc = "done")

\* A probe map chunk that the runtime runs again, after a crash or a lost
\* output, still finds its SizeRecorder and completes.
ProbesReexecutable == \A c \in ProbeIdx : probe[c] # "error"

\* A tree plan never concatenates more than combine_size chunks into its
\* single agg chunk, also when auto chose tree after a size-checked loop.
TreeFanInBounded == plan.kind = "tree" => plan.fanIn <= CombineSize

(***************************************************************************)
(* Without a size check (_combine_tree for method "tree" and for auto over *)
(* at most combine_size chunks) the while loop of _build_tree_chunks runs *)
(* until at most combine_size chunks are left, so _build_out_tileable     *)
(* never concatenates more: only the size-checked loop of the auto fall   *)
(* back may stop early and leave a wider tree (finding TreeFanInBounded). *)
(***************************************************************************)
UncheckedTreeBounded ==
    plan.kind = "tree" /\ ~checkSize => plan.fanIn <= CombineSize

\* The probes whose size is in the recorder and that have not been run
\* again since.
Recorded == {c \in ProbeIdx : probe[c] \in {"recorded", "stored"}}

(***************************************************************************)
(* _build_tree_and_shuffle_chunks takes the mean of the sizes _tile_auto  *)
(* read from the recorder after its yield, dividing by len(agg_sizes)     *)
(* (line 845).  The planner leaves the yield only once every probe chunk  *)
(* has recorded its size, however the probes interleaved, crashed after   *)
(* recording or lost their output: the planner never reads fewer sizes    *)
(* than there are probes, so the mean is defined and covers every probe.  *)
(***************************************************************************)
ResumeWithEverySize ==
    [][pc = "probing" /\ pc' # "probing" => Len(records) >= CombineSize]_vars

\* The inductive form of ResumeWithEverySize: while the planner waits the
\* recorder exists and holds a size for every probe that has recorded.
RecorderInv ==
    /\ TypeOK
    /\ pc = "probing" => alive /\ Len(records) >= Cardinality(Recorded)

-----------------------------------------------------------------------------
(***************************************************************************)
(* Refinement: the tiling implements the plan GroupByAggPlan promises.     *)
(***************************************************************************)

\* The refinement mapping: the abstract result is the plan without its
\* fan-in; the request (chunk count, method, sort) maps to itself.
Abstract == INSTANCE GroupByAggPlan
    WITH result <- [kind |-> plan.kind, pivot |-> plan.pivot, outs |-> plan.outs]

(***************************************************************************)
(* tile() implements the abstract plan: "auto" over at most combine_size   *)
(* chunks ends in a tree, a forced method is kept, _perform_shuffle uses   *)
(* pivots exactly for a sorted shuffle of several input chunks, and the    *)
(* final agg chunks (one from _build_out_tileable, one per shuffled chunk  *)
(* from _perform_shuffle) each read every input chunk.                     *)
(***************************************************************************)
ImplementsPlan == Abstract!Spec

\* The invariant the refinement proof rests on: only auto probes and only
\* after a probe is the size checked, no plan exists before the planner
\* is done, and no chunk list is longer than the input.
PlanInv ==
    /\ LineageInv
    /\ pc = "probing" => method = "auto" /\ Len(level) = CombineSize
    /\ pc = "combine" => method # "shuffle"
    /\ checkSize => method = "auto" /\ nIn > CombineSize
    /\ pc # "done" => plan = NoPlan
    /\ Len(level) <= nIn

=============================================================================
