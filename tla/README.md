# Verification of the grouped-aggregation operator

This directory holds TLA+ models of the distributed `groupby(...).agg(...)`
operator in `src/python/xorbits/_mars/dataframe/groupby/aggregation.py`: its
tiling planner, its mock planner and the `groupby_params` it shares with the
groupby, the chunk graph of its shuffle, and the tuple of partial results its
execution stages pass on. It also models the `DataFrameSum` reduction of
`dataframe/reduction/sum.py`. An abstract specification (`GroupByAggPlan`)
states what tiling promises, and the tiling is shown to implement it. The
directory also holds TLC configurations that model-check the modules and TLAPS
proofs about them.

## 1. The system

Source files:

| file | lines | contents |
|---|---|---|
| `dataframe/groupby/aggregation.py` | 1368 | the `DataFrameGroupByAgg` operand, its tiling, the three execution stages, `agg()` |
| `dataframe/reduction/sum.py` | 84 | the `DataFrameSum` reduction operand: `is_atomic` and the reduction callable `sum_` |
| `services/subtask/worker/tests/test_subtask.py` | 391 | tests of the worker's subtask runner; the runner itself is not in the repository |

### Components

**Tiling Strategy Selector** (`tile`, 923-944).
- `tile` dispatches on `op.method`:
  - `tree` goes to `_tile_with_tree`, which maps every chunk and runs `_combine_tree`;
  - `shuffle` goes to `_tile_with_shuffle`;
  - `auto` goes straight to the tree when `len(in_df.chunks) <= combine_size`; otherwise it runs `_tile_auto`.
- `_tile_auto` (882-920) proceeds in order:
  1. It creates a `SizeRecorder` remote object under a fresh uuid name.
  2. It maps the first `combine_size` chunks, with `size_recorder_name` set on their operands.
  3. It **yields** them, which is the planner's only suspension point.
  4. When resumed, it calls `get()` on the recorder, then `destroy_remote_object`.
  5. It calls `_build_tree_and_shuffle_chunks` (833-879). That function:
     - maps the remaining chunks `in_df.chunks[combine_size:]`;
     - estimates one chunk as the mean recorded aggregated size;
     - runs the size-checked tree loop with the budget `chunk_store_limit / 4`;
     - chooses the tree when `concat_size <= budget`, else `_perform_shuffle` over the partly combined chunks.
- State: the method, the chunk lists built, the recorder handle, and where the generator is suspended.

**Size Recorder** (`SizeRecorder`, 75-85).
- A remote object holding two lists; `record` appends and `get` returns them.
- It is shared by the probe chunks executing concurrently and by the resumed planner.
- It is the only mutable shared state of the core.

**Tree Combiner** (`_build_tree_chunks` 711-775, `_combine_tree` 821-830, `_build_out_tileable` 778-818).
- The while loop (728-771) runs while `(not check_size or concat_chunk_size < chunk_store_limit) and len(chunks) > combine_size`.
- Each round does two things:
  - it replaces the list by one combine chunk per positional batch `chunks[i:i+combine_size]`;
  - it multiplies the estimate by `combine_size`.
- Before concatenating a batch of more than one chunk, the loop assigns `c._index = (j, 0)` on each of its chunks (740). Those chunks already exist, so this mutates chunks in place.
- Each new combine chunk gets index `(idx, 0)`, where idx is the batch number.
- `_build_out_tileable` concatenates whatever is left into one `agg` chunk.

**Sample-Sort Shuffle Planner** (`_perform_shuffle` 639-697 and helpers 313-466, 559-636).
- It takes the pivot path when `sort` holds and the input has more than one chunk; otherwise it takes the plain shuffle.
- The pivot path (`_sample_chunks`, `_gen_pivot_chunk`, `_gen_shuffle_chunks_with_pivot`) builds:
  - one sample per chunk, with `n_partition = len(agg_chunks)`;
  - one pivot chunk over the samples;
  - one sort-shuffle map per chunk (`partition_local_data`), with `n_partition = len(sorted_chunks)` and `shuffle_size = in_df.chunk_shape[0]` (369, 377);
  - the shuffle proxy;
  - one reducer per map (`partition_merge_data`), with `reducer_index (i, 0)`, `n_reducers = len(partition_chunks)` and the map chunk's index.
- The plain path (`_gen_shuffle_chunks`) builds one map per chunk with `shuffle_size = len(chunks)`, the proxy, and one reducer per `out_idx` with `n_reducers = len(out_indices)`.
- Either way each reducer gets one `agg` chunk carrying its index, and `nsplits` has one entry per agg chunk.
- In the auto fall back, the chunks shuffled are the partly combined ones, so there are fewer of them than input chunks.

**Map-chunk generation** (`_gen_map_chunks`, 469-518): one map chunk per input chunk.

**Staged Executor** (`_execute_map` 1047-1131, `_execute_combine` 1134-1167, `_execute_agg` 1170-1287).
- These are pandas computations per chunk.
- Only `_execute_map` touches shared state. It records `(raw, agg)` sizes in the recorder (1123-1129) *before* it stores its output (1131).
- The stages pass a tuple of partial results:
  - map emits one element per agg step (1100-1122, 1131);
  - combine and agg unpack the tuple with `_pack_inputs` (974-985), which advances its position by each step's `output_limit`;
  - combine pairs custom steps with the raw tuple by `zip` (1150-1164).

**Mock Planner** (`build_mock_agg_result` 136-157, `_get_index_levels` 201-215, `_fix_as_index` 217-225, `__call__` 227-310, `agg()` 1303-1367).
- `agg()` builds the operand with `raw_groupby_params` and `groupby_params` both set to `groupby.op.groupby_params`: the groupby's own dict, not a copy (1362-1363).
- `__call__` runs pandas on a mock frame (`build_mock_agg_result`). On `ValueError` under `as_index=False` and old pandas, it retries with `as_index=True` and strips the index names.
- `_fix_as_index` then writes `as_index = True` into that dict when the mock index is a MultiIndex or has a name.
- `_get_index_levels` sets `index_levels`, the number of index levels the combine and agg stages group by. Under `as_index=False` it runs a second mock with `as_index=True`; if that fails it uses `len(by)`.
- Tiling is lazy: `_build_out_tileable` copies `op.groupby_params` (799-804) only when the tileable is tiled. `_execute_agg` resets the index iff the copy says `as_index=False` (1250-1262).

**DataFrameSum** (`sum.py`).
- `is_atomic` is `min_count == 0` (27-29). An atomic reduction lets the reduction framework apply the callable to each chunk and again to the partial results. The framework is not in this repository.
- `get_reduction_callable` returns `sum_` (31-45):
  - with `min_count == 0` it returns `value.sum(skipna)`;
  - otherwise it returns `where(count >= min_count, sum, nan)`.

**The runtime** (not in `src/`) executes chunks. Spec section 7 says it retries a failed chunk and recomputes a lost output; section 5 says it resumes the planner once the probes completed.

### Interactions

- The planner and the runtime interact only at the auto probe:
  - the planner yields the probe chunks;
  - the runtime executes them in any order, on any worker, retrying or recomputing them;
  - each execution appends to the recorder;
  - the planner resumes once the probes completed, reads the recorder, destroys it, and builds the rest of the graph.
- Chunks executed after that point, such as a probe chunk recomputed because its output was lost, still carry the recorder's name.
- The user's groupby and every `agg()` operand built from it share one `groupby_params` dict. A call's `_fix_as_index` reaches every other call on that groupby, including calls created earlier and tiled later.

### Hard behaviours

- **Interleaving** of the probe executions with each other and with the planner's resume.
- **Retries**: a probe that fails between its record (1129) and its store (1131) runs again and records again.
- **Lost outputs**: a probe recomputed after the resume finds no recorder.
- **Boundaries**:
  - the loop's strict `<` at 728 against the choice's `<=` at 861;
  - the slices `[:combine_size]` and `[combine_size:]` at 897 and 844;
  - the short last batch at 733;
  - `auto` with exactly `combine_size` chunks at 933;
  - `combine_size = 1`, which `agg()` accepts at 1364.
- **Termination** of the while loop.
- **Fall-back-only paths**: the shuffle over partly combined chunks. Here `shuffle_size` (377), which counts the input chunks, and the bucket and reducer counts, which count the chunks shuffled, come apart.
- **Renumbering**: each round renumbers the chunks it produces (740-757), and the pivot path passes those indices on to the agg chunks.
- **min_count boundaries** in `sum_`: an empty chunk, all values missing, and `count == min_count`.
- **Shared mutable parameters** read lazily: the as_index an agg stage sees is the one in the shared dict when its tileable is tiled.
- **Positional packing**: each stage recomputes where each step's partial sits, from `output_limit`.

### Properties that make it correct

- Every input chunk is aggregated exactly once, by every chunk list and by the final chunks.
- The plan depends only on the input. It must not depend on how the probes' records interleaved or were retried (spec section 8, idempotence).
- Tiling terminates.
- Every operand clone can be executed again (spec section 7).
- Auto bounds the memory of the final `agg` chunk (spec section 4.2): a tree never concatenates more than `combine_size` chunks of the budgeted size.
- The intermediate stages group by as many index levels as there are keys.
- The output resets the index iff the user asked for `as_index=False` (spec sections 3 and 4.1, Scenario D), and one call does not change another (spec section 3: params are copied, never aliased).
- Every stage finalizes each step from that step's own partials (spec section 4.5).
- The shuffle graph is consistent (spec section 4.4):
  - every bucket a map writes has exactly one reducer;
  - maps, pivots, samples and reducers agree on the bucket count;
  - the agg chunks are indexed `0..n-1` as `nsplits` says.
- Tiling does what the abstract plan promises (`GroupByAggPlan`).
- An atomic reduction gives pandas' result however the column is chunked.

## 2. Modules

| module | what it models |
|---|---|
| `GroupByAggTile` | The tiling planner and the runtime executing the probe chunks, composed in one specification. |
| `MC_GroupByAggTile` | The TLC harness. It extends `GroupByAggTile` with a closed-form reference plan (`RefPlan`) computed from the true probe sizes, for `PlanMatchesReference`. |
| `GroupByAggTileProofs` | The TLAPS proofs about the tiling. |
| `GroupByAggRecorderProofs` | The TLAPS proofs about the `SizeRecorder` protocol of the auto probe. |
| `GroupByAggParams` | The mock planner, the `groupby_params` dict shared across `agg()` calls, lazy tiling and the agg stage's `reset_index`. |
| `GroupByAggParamsProofs` | The TLAPS proofs about the mock planner. |
| `GroupByAggStages` | The tuple of partial results through map, the combine rounds and agg. |
| `GroupByAggStagesProofs` | The TLAPS proofs about the stage tuple and `_pack_inputs`. |
| `GroupByAggPlan` | The abstract specification of tiling: one step from the request to the plan. |
| `GroupByAggShuffle` | The chunk graph of `_perform_shuffle`, composed with the tiling. It extends `GroupByAggTile` with the index of every chunk of the planner's list. |
| `GroupByAggShuffleProofs` | The TLAPS proofs about the shuffle graph. |
| `ReductionSum` | `DataFrameSum`: `is_atomic` and `sum_`, applied chunk by chunk, against pandas' sum. |
| `ReductionSumProofs` | The TLAPS proofs that the chunk-wise sum equals pandas' sum. |

### GroupByAggTile

**Constants**
- `ChunkCounts`: the possible `len(in_df.chunks)`.
- `CombineSize`, `ChunkStoreLimit`.
- `AggSizes`: the possible `estimate_pandas_size` of a probe's map output.
- `Methods`.
- `MaxCrash`, `MaxLoss`: bounds on the faults.

**Abstraction.** A chunk is its *lineage*: the set of input positions whose rows it aggregates. Chunk metadata and data are left out. The estimate `concat_chunk_size = mean * scale` is compared exactly by cross-multiplying, where `4*sum*scale` is compared with `limit*len`.

**State and how it corresponds to the code**

| variable | in the code |
|---|---|
| `nIn`, `method`, `sort`, `aggSize` | the request and the true sizes of the probe outputs |
| `pc` | where the generator `tile` is: `tile`, suspended at the yield (`probing`), in the while loop (`combine`) or returned (`done`) |
| `level` | the local `chunks` of `_build_tree_chunks`, as lineages |
| `checkSize`, `scale` | `check_size` and `concat_chunk_size / input_size` |
| `alive`, `records` | whether the recorder exists, and its `_agg_records` |
| `probe[c]` | the runtime's view of probe chunk `c`: `pending`, `recorded` (between 1129 and 1131), `stored`, or `error` |
| `crashes`, `losses` | faults injected so far |
| `plan` | the tileable returned: its kind, the number of chunks its final stage reads (`fanIn`), pivot use, and the lineage each output chunk reads |

**Actions**
- Planner actions:
  - `TileTree`, `TileShuffle`, `TileAuto`: the branches of `tile`.
  - `Resume`: after the yield. It fires once every probe is stored, which is the runtime's resume condition from spec section 5.
  - `CombineRound`: one loop iteration.
  - `FinishTree`, `FinishShuffle`: the choice at 861.
- Runtime actions:
  - `RunProbe`: `_execute_map` up to the record.
  - `RunProbeAfterDestroy`: the same after `destroy_remote_object`; `get_remote_object` fails.
  - `StoreProbe`: line 1131.
  - `CrashProbe`: a failure between the record and the store, then a retry.
  - `LoseProbe`: a stored output lost and recomputed.

`CrashProbe` and `LoseProbe` come from the spec, because the runtime is not in `src/`.

**Fairness**
- Weak fairness of the planner as a whole: it is single-threaded and runs to completion whenever it can step.
- Weak fairness of `RunProbe(c)` and `StoreProbe(c)` for each probe: the runtime schedules every ready chunk.
- Faults are never forced.

### GroupByAggParams

**Constants**
- `Requests`: the request classes, a subset of `RequestKinds`.
- `ByCounts`: the possible numbers of grouping keys.
- `MaxCalls`: the bound on `agg()` calls on one groupby.

**Abstraction.**
- A pandas index is `range`, `named`, `unnamed` (names stripped) or `multi`.
- pandas itself is the table `MockIndex(r, as_index)`: the index of the mock result, or `error`. The request classes are:
  - `plain` honours as_index;
  - `ignoring` returns the key index whatever as_index says, which is the case `_fix_as_index` exists for;
  - `failing` raises under `as_index=False`, which is the case of the fallback;
  - `selcount` fails under `as_index=True`, which is the case in the comment of `_get_index_levels`.
- `build_mock_groupby` is outside the repository. It is taken to build the mock from the groupby op's params, which is the shared dict.

**State**

| variable | in the code |
|---|---|
| `userAsIndex` | the flag the user passed to `groupby()` |
| `pandasNew` | `_support_get_group_without_as_index` |
| `nBy`, `byIsList` | the grouping keys |
| `shared` | `groupby.op.groupby_params["as_index"]`, the one dict |
| `calls[i]` | the operand of the i-th `agg()`: its request, stage (`created`, `tiled`, `done`, `failed`), `index_levels`, the as_index copied at tiling (`final`), whether its output was reset |

**Actions**
- `Agg(r)`: `agg()` plus `__call__`, one Python call. `Call` composes `BuildMockAggResult`, `FixAsIndex` and `GetIndexLevels` in the code's order.
- `Tile(i)`: `_build_out_tileable` copies the dict.
- `ExecuteAgg(i)`: the `reset_index` decision.
- Tiling and execution of different calls interleave freely, as a user may create several results and execute them later in any order.

### GroupByAggStages

**Constants**
- `MaxSteps`: the bound on the agg steps.
- `Limits`: the `output_limit` values allowed.
- `MaxRounds`: the bound on the combine rounds.

**Abstraction.**
- A partial result is its provenance: the set of steps whose map output it came from.
- `ReductionAggStep` is produced by the reduction compiler outside the repository. A step is therefore drawn from all steps allowed by spec section 3, where only custom steps have `output_limit > 1`.
- All chunks of a round carry tuples of one shape, so one chain of stages stands for them.

**Actions**
- `ExecuteMap`.
- `ExecuteCombine`: one round. It raises when `_pack_inputs` indexes past the end.
- `ExecuteAgg`.
- `Pos`, `Slice` and `Packed` are `_pack_inputs`. The code's `pos += step.output_limit` loop is written without recursion. `SlotsBefore(k)` is the set of output slots the earlier steps declare: `output_limit` slots each, as pairs `<<j, i>>`. `Pos(k)` is one plus its cardinality. This is the same number as the running sum, and the provers can reason about it (section 4).
- `AlignInv` is the inductive form of `StagesAligned`, used by the proofs (section 4). The steps never change. When every step declares `output_limit` 1 (`UnitLimits`), no stage has failed and every stage's tuple is `Aligned`, the tuple map emits.

### GroupByAggPlan and the refinement

`GroupByAggPlan` has the request (`nIn`, `method`, `sort`) and a `result`. Its one step `Tile` does the following:
- it resolves the method: auto over at most `CombineSize` chunks must give a tree, otherwise a tree or a shuffle;
- it uses pivots exactly for a shuffle with sort over more than one input chunk;
- it produces one output for a tree, or 1 to n outputs for a shuffle, each reading every input.

`GroupByAggTile` defines `Abstract == INSTANCE GroupByAggPlan WITH result <- [kind, pivot, outs of plan]`. `ImplementsPlan == Abstract!Spec` is checked as a `PROPERTY` of the `tiling` run. The probe, the combine rounds and every runtime step map to stutters. The step that sets `pc = "done"` maps to `Tile`.

### GroupByAggShuffle

**State.** It adds one variable to the tiling: `chunkIndex`, the `c.index[0]` of each chunk of `level`. The in-place `c._index` rewrite at 740 touches only the chunks a round consumes, which leave `level` in the same step, so it is not state of the model.

**Actions.** They are the tiling's actions, each extended by what it does to the indices:
- `GTileTree`, `GTileShuffle`, `GTileAuto`: map chunks inherit the input chunk's index, and `in_df` has chunks `(i, 0)`.
- `GResume`: appends the indices `cs..n-1`.
- `GCombineRound`: the new chunks get their batch numbers `(idx, 0)` from 0.
- `GKeep`: the other steps.

**The graph.** Evaluated once a shuffle plan is done, over the final `level`, as records of the fields that fix its shape:
- `Samples`, `PivotChunk`, `SortMaps`, `SortReducers` for the pivot path;
- `PlainMaps`, `PlainReducers` for the plain path;
- `Proxy`, `AggChunks` and `NSplits` for both.

Each field is taken from the line that sets it.

### ReductionSum

**Values.** A column is a sequence of values from `Numbers` or `NaN` (a model value). `Count`, `PdSum` and `Reference` are pandas' `count`, `sum(skipna)` and `sum(skipna, min_count)`. The assumption `SumAssumption` takes the numbers to be naturals, with `NaN` and `NoValue` outside them.

No definition is recursive, so that TLAPS can reason about them:
- `SumValid(s)` is the sum of the non-missing values, written as the number of their units. `Units(s)` holds the pairs `<<i, 1>>` to `<<i, s[i]>>` for every non-missing index i, and for natural values their count is the sum.
- `Column(cs)` is the whole column as a function over its cells `<<i, p>>` (value p of chunk i). `count` and `sum` do not depend on the order of the values, so the cells stand for the positions of the concatenated Series.

`SumInv` is the inductive form of `SumMatchesPandas`, used by the proofs. Every partial is `NoValue` or `Sum_` of its chunk, and a result is pandas' sum of the whole column.

**Actions.**
- `Init`: `sum_series` and `sum_dataframe` build an operand for any chunking, skipna and min_count.
- When `IsAtomic`:
  - `ReduceChunk(i)` applies `Sum_` to chunk i, with the chunks in any order;
  - `ReducePartials` applies `Sum_` to the partials.
- Otherwise `ReduceCompiled` applies `Sum_` to the whole column. This stands for the compiled map/agg reduction of the framework, which is not in this repository.

## 3. Runs

| run (cfg) | bounds | checks | result |
|---|---|---|---|
| `tiling` (`MC_GroupByAggTile.cfg`) | 1-5 chunks, combine_size 2, sizes 1-3, limit 10, all methods, no faults | `LineageExactlyOnce`, `PlanMatchesReference`, `ShuffleTopology`, `ShuffleInv`, `PlanningTerminates`, `ImplementsPlan` | pass, 1556 states |
| `tiling_faults` (`_faults.cfg`) | 3-5 chunks, auto, one crash, one loss | `TypeOK`, `LineageExactlyOnce`, `RecorderInv`, `PlanningTerminates`, `ResumeWithEverySize` | pass, 14970 states |
| `retry_changes_plan` (`_retry.cfg`) | 5 chunks, sizes 1-2, one crash | `PlanMatchesReference` | violated |
| `reexec_after_destroy` (`_reexec.cfg`) | 3 chunks, one loss | `ProbesReexecutable` | violated |
| `limit_boundary` (`_boundary.cfg`) | 5 chunks, sizes 1-3 | `TreeFanInBounded` | violated |
| `params` (`MC_GroupByAggParams.cfg`) | 2 calls, all request classes, 1-2 keys, both pandas versions | `TypeOK`, `IndexLevelsMatchKeys` | pass, 1458 states |
| `as_index_not_preserved` (`_reset.cfg`) | 1 call | `ResetAsRequested` | violated |
| `params_aliased` (`_alias.cfg`) | 2 calls | `CallsIndependent` | violated |
| `stages` (`MC_GroupByAggStages.cfg`) | 1-4 steps, plain or custom, output_limit 1, up to 2 combine rounds | `StagesAligned` | pass, 210 states |
| `multi_output_misaligned` (`_multi.cfg`) | as `stages`, with custom output_limit 2 | `StagesAligned` | violated |
| `shuffle_width_mismatch` (`_widths.cfg`) | as `tiling` | `ShuffleWidthsAgree` | violated |
| `sum_atomic` (`MC_ReductionSum.cfg`) | 1-3 chunks of 0-2 values from {1, 2, NaN}, both skipna, min_count 0-3 | `SumMatchesPandas` | pass, 69862 states |

**Why these bounds are enough**
- With combine_size 2, the chunk counts 1 to 5 reach every branch:
  - auto below and at combine_size;
  - a short last batch (3 and 5 chunks);
  - two rounds of combining (5 chunks);
  - the loop stopping on the count or on the size.
- Sizes 1-3 against limit 10 in `tiling` (budget 2.5) and limit 24 in the fault runs (budget 6) put the estimate below, at and above the budget after zero, one and two rounds.
- One crash and one loss are enough to duplicate a record and to recompute a probe both before and after the resume.

For the mock planner:
- Two calls are the fewest in which one call can disturb another.
- One and two keys separate a named index from a MultiIndex.
- Both pandas versions decide whether the fallback runs.

For the shuffle graph (checked in `tiling`, whose harness extends `GroupByAggShuffle` and runs `GFairSpec`, the shuffle's spec with the tiling's fairness), the limit 10 against probe sums 2 to 6 makes auto over 5 chunks fall back to the shuffle in three ways:
- after 0 rounds, over 5 chunks;
- after 1 round, over 3 chunks;
- after 2 rounds, over 2 chunks.

With 3 and 4 chunks it falls back after one round, over 2 chunks. Method `shuffle` covers 1 to 5 chunks. Both sorts give both paths.

For the sum, the bounds reach:
- columns with an empty chunk;
- chunks with only NaN;
- min_count above every chunk's count but not above the column's, and equal to a count.

For the stages:
- Four steps put a step after a custom step and after a plain step.
- Two combine rounds show that a tuple re-emitted by combine is packed again.

Deadlock checking is off in every run because each ends with nothing left to do.

For the tiling runs, deadlock checking is off because tiling ends: in state `done` the planner has returned and nothing is left to do.

One property of the tiling runs concerns the sizes:
- `ResumeWithEverySize` (`tiling_faults`, an action property): the planner leaves the yield of `_tile_auto` only when the recorder holds at least `combine_size` sizes. Line 845 divides by `len(agg_sizes)` and takes a mean meant to cover every probe; a resume on the first stored probe, or a record lost to a crash, would make that mean cover fewer. `RecorderInv` is its inductive strengthening: while probing, the recorder exists and holds at least one size per probe that is recorded or stored.

`PlanMatchesReference` compares the plan with `RefPlan`, which computes in closed form the number of rounds, the fan-in `ceil(n / cs^k)` and the tree/shuffle choice from the **true** probe sizes. `RefPlan` uses the same strict `<` (loop) and `<=` (final test) as the code, so it cannot see the fan-in at the budget (hazard at line 861); `TreeFanInBounded` in `limit_boundary` does. The `tiling` run has no faults, so it says nothing on crash orders; the `retry_changes_plan` run checks the same property with a crash.

The runs take `combine_size` 2. `PlanningTerminates` would report the endless loop of `combine_size` 1 (hazard at line 728), but no run takes that value.

### Findings

1. **Equality boundary** (`limit_boundary`). Take probe sizes 3 and 3, combine_size 2, limit 24, and 5 chunks.
   - After one round the estimate is 6, which equals 24/4.
   - The loop's strict `<` stops with 3 chunks left.
   - The choice's `<=` picks the tree anyway, so the single `agg` chunk concatenates 3 > combine_size chunks of the budgeted size.
   - The memory bound of spec section 4.2 fails.
2. **Duplicate record on retry** (`retry_changes_plan`). `_execute_map` records before it stores.
   - A probe that fails in between is retried and records twice.
   - With true sizes 1 and 2, the records `<<1,2,2>>` raise the mean enough that auto picks shuffle, where the true sizes give tree.
   - This contradicts the idempotence of spec section 8, and the claim of section 5 that at-least-once recording is enough.
3. **Recompute after destroy** (`reexec_after_destroy`). The probe operands keep `size_recorder_name`.
   - A probe output lost after the resume is recomputed.
   - The recomputed chunk fails at `get_remote_object` (1128).
   - This contradicts spec section 7.
4. **as_index not preserved** (`as_index_not_preserved`). Take `as_index=False` and a request pandas answers with a named or multi-level index.
   - `_fix_as_index` overwrites the operand's flag with `True` (221, 225).
   - `raw_groupby_params` is never read.
   - The agg stage keeps the index, whereas spec section 4.1 and Scenario D say the original flag is kept for the output and the index is reset.
5. **groupby_params aliased** (`params_aliased`). `agg()` gives the operand the groupby's own dict (1362-1363).
   - Suppose call A (`plain`, expecting a reset index) is created first. Call B (`ignoring`) is then created and forces `True` into the groupby.
   - When A is tiled, it copies the changed dict and loses its reset. A later `plain` call also starts from `True`.
   - Spec section 3 says the params are copied, never aliased.
6. **Multi-output custom steps** (`multi_output_misaligned`).
   - The map emits one element per step, but `_pack_inputs` advances by `output_limit`.
   - A custom step with `output_limit` 2 before a plain step makes combine index past the end (IndexError).
   - Before another custom step, it makes agg finalize that step from an empty slice.

7. **shuffle_size counts the input chunks** (`shuffle_width_mismatch`). Take sort, 3 input chunks, combine_size 2, probe sizes 1 and 2 and limit 10.
   - Auto combines once, down to 2 chunks, and falls back to the shuffle.
   - `partition_local_data` declares each sort-shuffle map with `shuffle_size = in_df.chunk_shape[0] = 3` (377).
   - `n_partition`, the pivots and the reducers all say 2.
   - Spec section 4.4 says each map re-partitions into one bucket per reducer, and the plain path uses `len(chunks)` (427).
   - What the sort-shuffle operand does with the larger value is outside this repository.
Outside the runs: `agg()` replaces only a falsy `combine_size` (1364) and so accepts 1. Each round then maps n chunks to n chunks and the loop at 728 never ends; the tiling cfg with `CombineSize = 1` and method tree reports `PlanningTerminates` violated. Spec section 8 claims tree correctness only for `combine_size >= 2`.

Every property of a passing run has a mutant in `PROJECT.json`: a plausible bug in the code that TLC then catches. Examples are an off-by-one in the batch count, the strict test at 861, and the probe slice shifted by one.

## 4. Proofs

### `GroupByAggTileProofs`

The proofs hold for every value of the constants that satisfies `ConstAssumption`: a non-empty set of positive chunk counts, `CombineSize >= 1`, and natural limits and bounds.

**Lemmas**
- On the batches of a round:
  - `BatchNonEmpty`: no batch is empty;
  - `BatchOfPosition`: position k is in batch `(k-1) div cs + 1`;
  - `BatchDisjoint`: batches are disjoint.
- On partitions:
  - `CombinedPartition`: a round keeps a partition of the inputs a partition;
  - `MapChunksPartition`: the map chunks of lo..hi partition lo..hi;
  - `ConcatPartition`: concatenating partitions of disjoint sets partitions their union.
- On types: `CombinedType`, `MapChunksType`, `UnionRange`.

**Theorems**
- `TypeCorrect`: `Spec => []TypeOK`. `TypeOK` is inductive on its own; the lemmas `TypeInit` and `TypeStep` give one step per action.
- `LineageCorrect`: `Spec => []LineageExactlyOnce`. `LineageExactlyOnce` alone is not inductive. The strengthening `LineageInv` adds two conjuncts:
  - `TypeOK`;
  - `pc = "probing" => nIn > CombineSize`.

  The second conjunct is needed because `Resume` appends the map chunks of `CombineSize+1 .. nIn` to the probes. That covers exactly the inputs only if the probe slice did not already take them all, which the guard of `TileAuto` ensures.

- `TileRefinesPlan`: `Spec => ImplementsPlan`. The tiling implements `GroupByAggPlan` for every constant.
  - `PlanInit` gives `Init => Abstract!Init`.
  - `RefineStep` shows that every step is a stutter of the mapped result, or one `Tile` step. `PlanIsTile` handles the step that finishes the plan.
  - The step needs the invariant `PlanInv` (`PlanInit`, `PlanStep`), which adds to `LineageInv`:
    - while probing, the method is auto and the list holds exactly `CombineSize` probes;
    - the combine loop never runs for method shuffle;
    - the size is checked only for auto over more than `CombineSize` chunks;
    - the plan is empty until `done`;
    - the list never has more chunks than inputs.

    These conjuncts are what make the finished plan a legal abstract step. The method must resolve to the plan's kind; auto at or below `CombineSize` must never shuffle, which the checked size gives; and the fan-in of a shuffle must be at most `nIn`, which the length bound gives.
  - `NumBatchesBound` and `OneTuple` are the arithmetic and sequence lemmas it uses.
- `PlanInvariant`: `Spec => []PlanInv`, and `LineageInvariant`: `Spec => []LineageInv`. Both state the strengthenings as theorems; they are proof support, not properties of a run.
- `UncheckedTreeBoundedHolds`: `Spec => []UncheckedTreeBounded`, a tree plan built without the size check has fan-in at most `combine_size`. Once `FinishTree`'s guard is known this is close to a restatement of it, so no run checks it. It is proved with the invariant `PlanInv /\ UncheckedTreeBounded`. `TreeBoundStep` has one step per action. `PlanInv` is needed because `FinishTree` sets the plan from the list: the list holds at most `combine_size` chunks when the loop stops unchecked, and the plan is empty (so the property holds vacuously) until then.

### `GroupByAggRecorderProofs`

The proofs hold under `ConstAssumption`, for every bound on crashes and losses.

- `RecorderInvariant`: `Spec => []RecorderInv`. `RecorderInv` is `TypeOK` and, while probing, `alive /\ Len(records) >= Cardinality(Recorded)`, where `Recorded` is the set of probes recorded or stored.
  - `RecordedAdd` and `RecordedRemove` give the cardinality of `Recorded` when a probe records (it grows by one, and `records` by one) and when a crash or a loss runs it again (it does not grow, and `records` keeps the stale size). They rest on `FS_AddElement` and `FS_RemoveElement`.
  - `alive` is needed because `RunProbeAfterDestroy` changes `probe` without recording. While probing the recorder is alive, so that step cannot fire.
- `ResumeWithEverySizeHolds`: `Spec => ResumeWithEverySize`. `ResumeStep` shows that only `Resume` leaves `probing`. Its guard says every probe is stored, so `Recorded` is all of `1..combine_size` (`AllStoredRecorded`), and `RecorderInv` gives the bound.

### `GroupByAggShuffleProofs`

The proofs hold under `ConstAssumption`. They reuse `PlanInv` and `PlanStep` from `GroupByAggTileProofs`. `TileStep` shows that every step of the extended tiling is a step of the tiling.

- `ShuffleTopologyCorrect`: `GSpec => []ShuffleTopology`.
- `ShuffleInvariant`: `GSpec => []ShuffleInv`.
- `ShuffleRefinesPlan`: `GSpec => ImplementsPlan`. The shuffle model also implements `GroupByAggPlan`. Each of its steps is a tiling step (`TileStep`), so `PlanStep` and `RefineStep` carry over.
- `ShuffleTypeCorrect`: `GSpec => []GTypeOK`, the type invariant of the extended model (proof support; no run checks it).
- Both follow from the inductive invariant `ShuffleInv`, which the `tiling` run also checks. It adds two things to `PlanInv`:
  - every chunk of the list has its position as index, `chunkIndex = [i |-> i - 1]`;
  - a finished shuffle plan is `ShuffleOut(level)`.

  The index conjunct is needed because the pivot path gives each agg chunk its shuffled chunk's index. It holds because map chunks inherit `in_df`'s indices, `Resume` appends `cs..n-1` after the probes `0..cs-1` (`AppendIndices`), and a round numbers its new chunks from 0 (`CombinedLen`).
- `GraphShape` computes the maps and reducers on both paths. `TopologyFromInv` derives each conjunct from it.

### `GroupByAggParamsProofs`

These proofs hold for every request set, every set of positive key counts and every bound on the calls (`ParamsAssumption`).

- `CallCorrect` (lemma). It covers one `__call__` from any as_index and gives three facts:
  - as_index stays Boolean;
  - `index_levels` is 0 or the number of keys;
  - it is the number of keys when the call succeeds.

  The argument runs in three steps:
  1. The mock index is the key index, or a range or stripped index, and only a request under `as_index=False` yields those.
  2. So when `_fix_as_index` leaves as_index True, the mock index is the key index, whose level count is the number of keys.
  3. When as_index is False, the second mock with `as_index=True` returns the key index or fails. In the second case `len(by)` is used, or the call raises.
- `ParamsTypeCorrect`: `Spec => []TypeOK`.
- `IndexLevelsCorrect`: `Spec => []IndexLevelsMatchKeys`.
- Both follow from the inductive invariant `IInv == TypeOK /\ IndexLevelsMatchKeys`. Each step keeps the earlier calls' levels and appends a call whose levels `CallCorrect` fixes.

### `GroupByAggStagesProofs`

These proofs hold under `StagesAssumption`: any bound on the steps and rounds, and any set of positive limits that contains 1.

- **Lemmas on `_pack_inputs`:**
  - `AggFuncsSeq`: the steps form a non-empty sequence.
  - `SlotsOfUnitSteps` and `PosOfUnitSteps`: with one slot per step, the earlier steps' slots are `(1..k-1) \X (1..1)`, so `Pos(k) = k`. This uses `FS_Product` and `FS_Singleton`.
  - `PackAligned`: packing the aligned tuple never raises and gives each step `{k}`. For a custom step this is a one-element slice; for a plain step it is the element itself.
- `StagesAlignedWithUnitLimits`: `Spec => [](UnitLimits => StagesAligned)`. This holds for every set of limits. In every behaviour where the steps all declare `output_limit` 1, every stage finalizes each step from its own partials. Finding 6 (`multi_output_misaligned`) shows that the hypothesis cannot be dropped.
- It follows from `AlignInv` (`AlignInit`, `AlignStep`). `StagesAligned` alone is not inductive. It does not relate the tuple to the steps' limits, and a combine step from a misaligned tuple stays misaligned. `AlignInv` says that the tuple is exactly the one map emitted, which `PackAligned` shows every stage reproduces.

### `ReductionSumProofs`

These proofs hold under `SumAssumption`, for every bound on the chunks and their length and every set of natural numbers.

- **Counting lemmas:**
  - `FamilyFinite`, `TaggedInterval` and `TaggedFinite`: a tagged union `UNION {{i} \X S[i]}` over a finite index set is finite.
  - `SumOfCounts`: its cardinality is the sum of the cardinalities, given as a bijection onto the units of the counts. It uses `FS_Bijection` and the `Functions` definitions.
- **Regrouping lemmas:**
  - `ChunkingFacts`, `UnitsMember`, `UnitsFacts` and `ChunkUnits` describe the units of a chunk.
  - `ColumnFacts` and `ColumnUnits`: the units of the whole column are in bijection with the units of the chunks' sums. So `SumValid` of the column is the sum of the chunks' `SumValid`.
  - `ColumnNaN` does the same for the missing values.
- `AtomicSum`: `PdSum` of the chunks' `PdSum` results is `PdSum` of the column, for either `skipna`. With `min_count` 0, `Sum_` is `PdSum`, so this is the atomic path. There are two cases. With a NaN not skipped, NaN propagates through both levels. Otherwise the units regroup.
- `CountNat` and `WholeColumnSum`: the column's count is a natural number, so `Sum_` of the whole column (the compiled path) is `Reference` for every `min_count`.
- `SumInvariant`: `Spec => []SumInv`, from `SumInit` and `SumStep` (proof support; no run checks `SumInv` on its own).
- `SumMatchesPandasHolds`: `Spec => []SumMatchesPandas`. This is the statement the `sum_atomic` run checks, for every chunking, every `skipna` and every `min_count`.

`SumMatchesPandas` alone is not inductive. `ReducePartials` computes the result from the partials, so the invariant must also say what each partial holds. That is the fourth and fifth conjuncts of `SumInv`.

### Model-checked only

- `PlanningTerminates`: liveness under fairness is beyond TLAPS.
- `PlanMatchesReference`: it is stated with a `CHOOSE` over rounds in the harness, and its sizes are sums over `records` by a recursive function.
- The seven violations.

The installed provers cannot use the defining equation of a recursive function (`f[n \in Nat] == ...`), and cannot instantiate the induction rules of `NaturalsInduction`, which take an operator parameter. Every claim above that is about what a recursive function computes therefore stays with TLC. `Pos` in `GroupByAggStages`, and `SumValid` and `Column` in `ReductionSum`, were written as cardinalities of finite sets and functions over cells rather than recursion, so that their theorems could be proved.

## 5. Not modelled, and the plan for later modules

- **Staged Executor** data semantics: `pre_funcs`, `post_funcs`, the column reconciliation rules (i)-(v) of spec section 4.5 and the duplicate functions. The plan is a module over abstract columns, with the rules as operators checked against a reference definition.
- **Mock Planner**: `_set_inputs` rewriting `groupby_params["by"]` (182-192) and the inferred schema (dtypes, columns). The transform path of `agg()` (1340-1354) is also not modelled.
- **Shuffle execution**: how samples are drawn, how pivots are chosen, and how the sort-shuffle and groupby operands route rows to buckets. Their code is not in the repository. The graph they run on is modelled, and the open consequence of finding 7 depends on them.
- **The reduction framework** that consumes `is_atomic` and compiles non-atomic reductions. It is not in the repository. `ReductionSum` models its contract from `sum.py`'s side.
- `_compile_funcs` (the reduction compiler is external) and the kurt patch: stateless, or code outside the repository.
- `test_subtask.py`: tests of a runner whose implementation is not here.
