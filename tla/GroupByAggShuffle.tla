-------------------------- MODULE GroupByAggShuffle --------------------------
(***************************************************************************)
(* The chunk graph that _perform_shuffle builds (aggregation.py 639-697), *)
(* composed with the tiling of GroupByAggTile that hands it its chunks:   *)
(* the map chunks of every input for method "shuffle", or the partially   *)
(* combined chunks of the auto fall back.                                  *)
(*                                                                         *)
(* With sort and more than one input chunk the graph is the sample-sort   *)
(* one: a sample of every chunk (_sample_chunks), one pivot chunk over the *)
(* samples (_gen_pivot_chunk), a partitioning map per chunk reading the   *)
(* pivots (partition_local_data), the shuffle proxy and a reducer per     *)
(* bucket (partition_merge_data).  Otherwise it is the plain shuffle of   *)
(* _gen_shuffle_chunks.  Either way an agg chunk follows every reducer.   *)
(* A chunk of the graph is a record of the operand fields that fix the    *)
(* shuffle's shape (bucket counts, reducer index, chunk index) and of the *)
(* positions of the chunks it reads.                                       *)
(*                                                                         *)
(* The tiling is extended by the chunk index (c.index[0]) of every chunk  *)
(* of the planner's list, which the sample-sort path passes on to its     *)
(* maps, reducers and agg chunks.                                          *)
(***************************************************************************)
EXTENDS GroupByAggTile

VARIABLE
    chunkIndex   \* c.index[0] of each chunk of level

gvars == <<vars, chunkIndex>>

\* The indices of the map chunks of in_df.chunks[lo-1 : hi]: _gen_map_chunks
\* keeps the input chunk's index, and in_df (build_concatenated_rows_frame)
\* has one column of chunks indexed (i, 0).
MapIndex(lo, hi) == [i \in 1..(hi - lo + 1) |-> lo + i - 2]

-----------------------------------------------------------------------------
(***************************************************************************)
(* The tiling, with the indices of the planner's chunks.                   *)
(***************************************************************************)

GInit == Init /\ chunkIndex = << >>

\* tile maps every input chunk: the tree, or the shuffle directly.
GTileTree == TileTree /\ chunkIndex' = MapIndex(1, nIn)
GTileShuffle == TileShuffle /\ chunkIndex' = MapIndex(1, nIn)

\* _tile_auto maps the probe chunks in_df.chunks[:combine_size].
GTileAuto == TileAuto /\ chunkIndex' = MapIndex(1, CombineSize)

\* Mutant of GResume: the remaining maps' indices not appended.
GResumeUnindexed == Resume /\ UNCHANGED chunkIndex

\* _build_tree_and_shuffle_chunks appends the maps of in_df.chunks[cs:].
GResume ==
    /\ Resume
    /\ chunkIndex' = chunkIndex \o MapIndex(CombineSize + 1, nIn)

\* Mutant of GCombineRound: the new chunks numbered from 1.
GCombineRoundFromOne ==
    /\ CombineRound
    /\ chunkIndex' = [j \in 1..NumBatches(Len(level)) |-> j]

\* A round: the new combine chunks get index (idx, 0), idx the batch's
\* number from 0.
GCombineRound ==
    /\ CombineRound
    /\ chunkIndex' = [j \in 1..NumBatches(Len(level)) |-> j - 1]

\* Steps that leave the planner's chunk list alone.
GKeep ==
    /\ \/ FinishTree \/ FinishShuffle
       \/ \E c \in ProbeIdx : Runtime(c)
    /\ UNCHANGED chunkIndex

GNext ==
    \/ GTileTree \/ GTileShuffle \/ GTileAuto \/ GResume \/ GCombineRound
    \/ GKeep

GSpec == GInit /\ [][GNext]_gvars

\* The tiling's fairness: the planner's steps and the probes' runtime.
GFairSpec == GSpec /\ Fairness

-----------------------------------------------------------------------------
(***************************************************************************)
(* The shuffle graph over the final chunk list (agg_chunks of             *)
(* _perform_shuffle).                                                      *)
(***************************************************************************)

\* The number of chunks shuffled.
Width == Len(level)

\* The condition of line 647: sample-sort when sort and len(in_df.chunks) > 1.
UsePivot == sort /\ nIn > 1

\* _sample_chunks: one sample per chunk, n_partition = len(agg_chunks).
Samples == [i \in 1..Width |-> [reads |-> {i}, nPartition |-> Width,
                                 index |-> i - 1]]

\* _gen_pivot_chunk: one chunk over all samples, n_partition = agg_chunk_len.
PivotChunk == [reads |-> DOMAIN Samples, nPartition |-> Width]

\* partition_local_data: a map per chunk reading it and the pivots, with
\* shuffle_size = in_df.chunk_shape[0] and n_partition = len(sorted_chunks);
\* it writes n_partition buckets.
SortMaps ==
    [i \in 1..Width |-> [reads |-> {i}, pivot |-> TRUE, shuffleSize |-> nIn,
                          buckets |-> Width, index |-> chunkIndex[i]]]

\* Mutant of PlainMaps: the width taken from the input frame, as the
\* sort-shuffle map does.
PlainMapsInputWidth ==
    [i \in 1..Width |-> [reads |-> {i}, pivot |-> FALSE, shuffleSize |-> nIn,
                          buckets |-> nIn, index |-> chunkIndex[i]]]

\* _gen_shuffle_chunks: a map per chunk with shuffle_size = len(chunks); it
\* writes shuffle_size buckets.
PlainMaps ==
    [i \in 1..Width |-> [reads |-> {i}, pivot |-> FALSE, shuffleSize |-> Width,
                          buckets |-> Width, index |-> chunkIndex[i]]]

ShuffleMaps == IF UsePivot THEN SortMaps ELSE PlainMaps

\* The DataFrameShuffleProxy reads every map chunk.
Proxy == [reads |-> DOMAIN ShuffleMaps]

\* partition_merge_data: a reducer per map chunk, reducer_index (i, 0),
\* n_reducers = len(partition_chunks), index = the map chunk's index.
SortReducers ==
    [i \in 1..Len(SortMaps) |-> [bucket |-> i - 1, nReducers |-> Len(SortMaps),
                                  index |-> SortMaps[i].index]]

\* _gen_shuffle_chunks: a reducer per out_idx of product(range(len(chunks)),
\* range(1)), n_reducers = len(out_indices), index = out_idx.
PlainReducers ==
    [i \in 1..Width |-> [bucket |-> i - 1, nReducers |-> Width, index |-> i - 1]]

Reducers == IF UsePivot THEN SortReducers ELSE PlainReducers

\* _perform_shuffle: an agg chunk per reducer with the reducer's index, and
\* nsplits with one entry per agg chunk.
AggChunks == [i \in 1..Len(Reducers) |-> [reads |-> {i}, index |-> Reducers[i].index]]
NSplits == Len(AggChunks)

\* The inputs an agg chunk aggregates: reducer, proxy, maps, their chunks.
AggLineage(i) == UNION {level[k] : k \in UNION {ShuffleMaps[j].reads : j \in Proxy.reads}}

ShuffleDone == pc = "done" /\ plan.kind = "shuffle"

-----------------------------------------------------------------------------
(***************************************************************************)
(* Properties.                                                             *)
(***************************************************************************)

GTypeOK ==
    /\ TypeOK
    /\ chunkIndex \in Seq(Nat)
    /\ Len(chunkIndex) = Len(level)

(***************************************************************************)
(* Spec 4.4 steps 3 to 5 over every way the shuffle is reached (method    *)
(* "shuffle", or auto falling back after zero or more combine rounds):    *)
(* every bucket a map chunk writes is read by exactly one reducer, the    *)
(* reducers' indices 0..n-1 agree with n_reducers, with sort the pivots   *)
(* and samples cut the same number of buckets, the agg chunks are indexed *)
(* 0..n-1 once each as nsplits declares, and each of them aggregates every *)
(* input of the plan the tiling recorded.                                  *)
(***************************************************************************)
ShuffleTopology ==
    ShuffleDone =>
        LET n == Len(Reducers) IN
        /\ \A j \in DOMAIN ShuffleMaps : ShuffleMaps[j].buckets = n
        /\ \A i \in 1..n : Reducers[i].nReducers = n
        /\ {Reducers[i].bucket : i \in 1..n} = 0..(n - 1)
        /\ UsePivot =>
              /\ PivotChunk.nPartition = n
              /\ \A i \in DOMAIN Samples : Samples[i].nPartition = n
        /\ NSplits = n
        /\ {AggChunks[i].index : i \in 1..n} = 0..(n - 1)
        /\ Len(plan.outs) = n
        /\ \A i \in 1..n : AggLineage(i) = plan.outs[i]

(***************************************************************************)
(* The inductive form of ShuffleTopology: the planner's invariant, every  *)
(* chunk of its list has its position as index (the index map chunks      *)
(* inherit from in_df, and combine chunks get from their batch number),   *)
(* and a finished shuffle is _perform_shuffle of the list the planner     *)
(* ended with.                                                             *)
(***************************************************************************)
ShuffleInv ==
    /\ PlanInv
    /\ chunkIndex = [i \in 1..Len(level) |-> i - 1]
    /\ ShuffleDone => plan = ShuffleOut(level)

(***************************************************************************)
(* Spec 4.4 step 3: each map chunk re-partitions into as many buckets as   *)
(* there are reducers.  partition_local_data declares the sort-shuffle map *)
(* with shuffle_size = in_df.chunk_shape[0], the number of input chunks,  *)
(* which is not the number of chunks shuffled once the auto fall back ran *)
(* a combine round.                                                        *)
(***************************************************************************)
ShuffleWidthsAgree ==
    ShuffleDone => \A j \in DOMAIN ShuffleMaps : ShuffleMaps[j].shuffleSize = Len(Reducers)

=============================================================================
