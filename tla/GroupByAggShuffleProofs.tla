---------------------- MODULE GroupByAggShuffleProofs ----------------------
(***************************************************************************)
(* Proofs about the shuffle chunk graph (GroupByAggShuffle), for every     *)
(* number of input chunks, every combine_size >= 1, every store limit and  *)
(* every bound on the probes' crashes and losses.  The extended tiling    *)
(* takes the tiling's steps, so the tiling's invariant PlanInv carries    *)
(* over from GroupByAggTileProofs; ShuffleInv adds the chunk indices and  *)
(* what a finished shuffle plan was built from.                           *)
(***************************************************************************)
EXTENDS GroupByAggShuffle, GroupByAggTileProofs

USE ConstAssumption

\* Every step of the extended tiling is a step of the tiling or a stutter.
LEMMA TileStep == [GNext]_gvars => [Next]_vars
<1>1. GTileTree \/ GTileShuffle \/ GTileAuto => Next
  BY DEF GTileTree, GTileShuffle, GTileAuto, Next, Planner
<1>2. GResume \/ GCombineRound => Next
  BY DEF GResume, GCombineRound, Next, Planner
<1>3. GKeep => Next
  BY DEF GKeep, Next, Planner
<1>4. UNCHANGED gvars => UNCHANGED vars
  BY DEF gvars
<1>. QED BY <1>1, <1>2, <1>3, <1>4 DEF GNext

\* The indices of the map chunks of in_df.chunks[lo-1 : hi] are lo-1..hi-1.
LEMMA MapIndexPositions ==
    ASSUME NEW n \in Nat
    PROVE  MapIndex(1, n) = [i \in 1..n |-> i - 1]
BY DEF MapIndex

\* Appending the indices of the remaining map chunks to those of the probes.
LEMMA AppendIndices ==
    ASSUME NEW c \in Nat, NEW n \in Nat, c < n
    PROVE  [i \in 1..c |-> i - 1] \o MapIndex(c + 1, n) = [i \in 1..n |-> i - 1]
<1> DEFINE a == [i \in 1..c |-> i - 1]
           b == MapIndex(c + 1, n)
<1>1. a \in Seq(Nat) /\ Len(a) = c
  OBVIOUS
<1>2. b \in Seq(Nat) /\ Len(b) = n - c /\ \A i \in 1..(n - c) : b[i] = c + i - 1
  BY DEF MapIndex
<1>3. Len(a \o b) = n /\ \A i \in 1..n : (a \o b)[i] = i - 1
  BY <1>1, <1>2
<1>. QED BY <1>1, <1>2, <1>3

\* There are as many map chunks as input chunks.
LEMMA MapChunksLen ==
    ASSUME NEW n \in Nat
    PROVE  Len(MapChunks(1, n)) = n
BY DEF MapChunks

\* A round leaves one combine chunk per batch.
LEMMA CombinedLen ==
    ASSUME NEW S, NEW ch \in Seq(S)
    PROVE  Len(Combined(ch)) = NumBatches(Len(ch))
<1>1. NumBatches(Len(ch)) \in Nat
  BY DEF NumBatches
<1>. QED BY <1>1 DEF Combined

-----------------------------------------------------------------------------
(***************************************************************************)
(* ShuffleInv is inductive.                                                *)
(***************************************************************************)

LEMMA ShuffleInvInit == GInit => ShuffleInv
<1> SUFFICES ASSUME GInit PROVE ShuffleInv
  OBVIOUS
<1>1. PlanInv
  BY PlanInit DEF GInit
<1>2. level = << >> /\ chunkIndex = << >>
  BY DEF GInit, Init
<1>3. chunkIndex = [i \in 1..Len(level) |-> i - 1]
  BY <1>2
<1>4. ~ShuffleDone
  BY DEF GInit, Init, ShuffleDone
<1>. QED BY <1>1, <1>3, <1>4 DEF ShuffleInv, GInit

LEMMA ShuffleInvStep == ShuffleInv /\ [GNext]_gvars => ShuffleInv'
<1> SUFFICES ASSUME ShuffleInv, [GNext]_gvars PROVE ShuffleInv'
  OBVIOUS
<1>0. /\ PlanInv'
      /\ TypeOK /\ TypeOK'
      /\ chunkIndex = [i \in 1..Len(level) |-> i - 1]
      /\ ShuffleDone => plan = ShuffleOut(level)
  <2>1. PlanInv /\ [Next]_vars
    BY TileStep DEF ShuffleInv
  <2>2. PlanInv'
    BY <2>1, PlanStep
  <2>. QED BY <2>1, <2>2 DEF ShuffleInv, PlanInv, LineageInv
<1>1. CASE GTileTree
  <2>0. level' = MapChunks(1, nIn) /\ nIn \in Nat
    BY <1>0, <1>1 DEF GTileTree, TileTree, TypeOK
  <2>1. Len(level') = nIn /\ nIn \in Nat
    BY <2>0, MapChunksLen
  <2>2. chunkIndex' = [i \in 1..Len(level') |-> i - 1]
    BY <1>1, <2>1, MapIndexPositions DEF GTileTree
  <2>3. ~ShuffleDone'
    BY <1>0, <1>1 DEF GTileTree, TileTree, ShuffleDone
  <2>. QED BY <1>0, <2>2, <2>3 DEF ShuffleInv
<1>2. CASE GTileShuffle
  <2>0. level' = MapChunks(1, nIn) /\ nIn \in Nat
    BY <1>0, <1>2 DEF GTileShuffle, TileShuffle, TypeOK
  <2>1. Len(level') = nIn /\ nIn \in Nat
    BY <2>0, MapChunksLen
  <2>2. chunkIndex' = [i \in 1..Len(level') |-> i - 1]
    BY <1>2, <2>1, MapIndexPositions DEF GTileShuffle
  <2>3. plan' = ShuffleOut(level)'
    BY <1>0, <1>2 DEF GTileShuffle, TileShuffle, ShuffleOut
  <2>. QED BY <1>0, <2>2, <2>3 DEF ShuffleInv
<1>3. CASE GTileAuto
  <2>1. Len(level') = CombineSize
    BY <1>3 DEF GTileAuto, TileAuto, MapChunks
  <2>2. chunkIndex' = [i \in 1..Len(level') |-> i - 1]
    BY <1>3, <2>1, MapIndexPositions DEF GTileAuto
  <2>3. ~ShuffleDone'
    BY <1>0, <1>3 DEF GTileAuto, TileAuto, ShuffleDone
  <2>. QED BY <1>0, <2>2, <2>3 DEF ShuffleInv
<1>4. CASE GResume
  <2>1. pc = "probing" /\ Len(level) = CombineSize /\ nIn > CombineSize
    BY <1>4 DEF GResume, Resume, ShuffleInv, PlanInv, LineageInv
  <2>2. nIn \in Nat /\ level \in Seq(SUBSET Inputs)
    BY <1>0 DEF TypeOK
  <2>3. MapChunks(CombineSize + 1, nIn) \in Seq(SUBSET Inputs)
        /\ Len(MapChunks(CombineSize + 1, nIn)) = nIn - CombineSize
    BY <2>1, <2>2 DEF MapChunks, Inputs
  <2>4. level' = level \o MapChunks(CombineSize + 1, nIn)
    BY <1>4 DEF GResume, Resume
  <2>8. Len(level') = Len(level) + Len(MapChunks(CombineSize + 1, nIn))
    BY <2>2, <2>3, <2>4
  <2>7. Len(level') = nIn
    BY <2>1, <2>2, <2>3, <2>8
  <2>5. chunkIndex' = [i \in 1..nIn |-> i - 1]
    BY <1>0, <1>4, <2>1, <2>2, AppendIndices DEF GResume
  <2>6. ~ShuffleDone'
    BY <1>0, <1>4 DEF GResume, Resume, ShuffleDone
  <2>. QED BY <1>0, <2>7, <2>5, <2>6 DEF ShuffleInv
<1>5. CASE GCombineRound
  <2>0. level' = Combined(level) /\ level \in Seq(SUBSET Inputs)
    BY <1>0, <1>5 DEF GCombineRound, CombineRound, TypeOK
  <2>1. Len(level') = NumBatches(Len(level))
    BY <2>0, CombinedLen
  <2>2. chunkIndex' = [i \in 1..Len(level') |-> i - 1]
    BY <1>5, <2>1 DEF GCombineRound
  <2>3. pc' = "combine"
    BY <1>5 DEF GCombineRound, CombineRound
  <2>4. ~ShuffleDone'
    BY <1>0, <1>5, <2>3 DEF GCombineRound, ShuffleDone
  <2>. QED BY <1>0, <2>2, <2>4 DEF ShuffleInv
<1>6. CASE GKeep
  <2>1. level' = level /\ chunkIndex' = chunkIndex
        /\ nIn' = nIn /\ sort' = sort
    BY <1>6 DEF GKeep, FinishTree, FinishShuffle, Runtime, RunProbe,
                RunProbeAfterDestroy, StoreProbe, CrashProbe, LoseProbe
  <2>2. ShuffleDone' => plan' = ShuffleOut(level)'
    <3>1. CASE FinishTree
      BY <3>1 DEF FinishTree, TreeOut, ShuffleDone
    <3>2. CASE FinishShuffle
      BY <2>1, <3>2 DEF FinishShuffle, ShuffleOut
    <3>3. CASE \E c \in ProbeIdx : Runtime(c)
      <4>1. plan' = plan /\ pc' = pc
        BY <3>3 DEF Runtime, RunProbe, RunProbeAfterDestroy, StoreProbe,
                    CrashProbe, LoseProbe
      <4>. QED BY <1>0, <2>1, <4>1 DEF ShuffleDone, ShuffleOut
    <3>. QED BY <1>6, <3>1, <3>2, <3>3 DEF GKeep
  <2>. QED BY <1>0, <2>1, <2>2 DEF ShuffleInv
<1>7. CASE UNCHANGED gvars
  <2>1. UNCHANGED <<nIn, sort, pc, level, plan, chunkIndex>>
    BY <1>7 DEF gvars, vars
  <2>. QED BY <1>0, <2>1 DEF ShuffleInv, ShuffleDone, ShuffleOut
<1>. QED BY <1>1, <1>2, <1>3, <1>4, <1>5, <1>6, <1>7 DEF GNext


-----------------------------------------------------------------------------
(***************************************************************************)
(* The graph of a finished shuffle.                                        *)
(***************************************************************************)

\* The maps, reducers and agg chunks, whichever path _perform_shuffle took:
\* one per chunk shuffled, bucket i - 1 and index i - 1 for the i-th.
LEMMA GraphShape ==
    ASSUME ShuffleInv
    PROVE  /\ DOMAIN ShuffleMaps = 1..Width
           /\ \A j \in 1..Width : ShuffleMaps[j].buckets = Width
                                  /\ ShuffleMaps[j].reads = {j}
           /\ Len(Reducers) = Width
           /\ \A i \in 1..Width : /\ Reducers[i].nReducers = Width
                                  /\ Reducers[i].bucket = i - 1
                                  /\ Reducers[i].index = i - 1
<1>1. Width \in Nat /\ chunkIndex = [i \in 1..Width |-> i - 1]
  BY DEF ShuffleInv, PlanInv, LineageInv, TypeOK, Width
<1>2. CASE UsePivot
  <2>1. ShuffleMaps = SortMaps /\ Reducers = SortReducers
    BY <1>2 DEF ShuffleMaps, Reducers
  <2>2. DOMAIN SortMaps = 1..Width /\ Len(SortMaps) = Width
        /\ \A j \in 1..Width : SortMaps[j].buckets = Width
                               /\ SortMaps[j].reads = {j}
                               /\ SortMaps[j].index = j - 1
    BY <1>1 DEF SortMaps
  <2>3. Len(SortReducers) = Width
        /\ \A i \in 1..Width : /\ SortReducers[i].nReducers = Width
                               /\ SortReducers[i].bucket = i - 1
                               /\ SortReducers[i].index = i - 1
    BY <1>1, <2>2 DEF SortReducers
  <2>. QED BY <2>1, <2>2, <2>3
<1>3. CASE ~UsePivot
  <2>1. ShuffleMaps = PlainMaps /\ Reducers = PlainReducers
    BY <1>3 DEF ShuffleMaps, Reducers
  <2>2. DOMAIN PlainMaps = 1..Width
        /\ \A j \in 1..Width : PlainMaps[j].buckets = Width
                               /\ PlainMaps[j].reads = {j}
    BY <1>1 DEF PlainMaps
  <2>3. Len(PlainReducers) = Width
        /\ \A i \in 1..Width : /\ PlainReducers[i].nReducers = Width
                               /\ PlainReducers[i].bucket = i - 1
                               /\ PlainReducers[i].index = i - 1
    BY <1>1 DEF PlainReducers
  <2>. QED BY <2>1, <2>2, <2>3
<1>. QED BY <1>2, <1>3

\* ShuffleInv implies the topology of the shuffle graph.
LEMMA TopologyFromInv == ShuffleInv => ShuffleTopology
<1> SUFFICES ASSUME ShuffleInv, ShuffleDone
             PROVE  LET n == Len(Reducers) IN
                    /\ \A j \in DOMAIN ShuffleMaps : ShuffleMaps[j].buckets = n
                    /\ \A i \in 1..n : Reducers[i].nReducers = n
                    /\ {Reducers[i].bucket : i \in 1..n} = 0..(n - 1)
                    /\ UsePivot =>
                          /\ PivotChunk.nPartition = n
                          /\ \A i \in DOMAIN Samples : Samples[i].nPartition = n
                    /\ NSplits = n
                    /\ {AggChunks[i].index : i \in 1..n} = 0..(n - 1)
                    /\ Len(plan.outs) = n
                    /\ \A i \in 1..n : AggLineage(i) = plan.outs[i]
  BY DEF ShuffleTopology
<1>0. /\ Width \in Nat
      /\ level \in Seq(SUBSET Inputs)
      /\ Width = Len(level)
      /\ plan = ShuffleOut(level)
  BY DEF ShuffleInv, PlanInv, LineageInv, TypeOK, Width
<1>1. /\ DOMAIN ShuffleMaps = 1..Width
      /\ \A j \in 1..Width : ShuffleMaps[j].buckets = Width
                             /\ ShuffleMaps[j].reads = {j}
      /\ Len(Reducers) = Width
      /\ \A i \in 1..Width : /\ Reducers[i].nReducers = Width
                             /\ Reducers[i].bucket = i - 1
                             /\ Reducers[i].index = i - 1
  BY GraphShape
<1>2. {Reducers[i].bucket : i \in 1..Width} = 0..(Width - 1)
  <2>1. \A b \in 0..(Width - 1) : b + 1 \in 1..Width /\ Reducers[b + 1].bucket = b
    BY <1>0, <1>1
  <2>. QED BY <1>0, <1>1, <2>1
<1>3. PivotChunk.nPartition = Width
      /\ \A i \in DOMAIN Samples : Samples[i].nPartition = Width
  BY DEF PivotChunk, Samples
<1>4. NSplits = Width
      /\ \A i \in 1..Width : AggChunks[i].index = i - 1
  BY <1>0, <1>1 DEF NSplits, AggChunks
<1>5. {AggChunks[i].index : i \in 1..Width} = 0..(Width - 1)
  <2>1. \A b \in 0..(Width - 1) : b + 1 \in 1..Width /\ AggChunks[b + 1].index = b
    BY <1>0, <1>4
  <2>. QED BY <1>0, <1>4, <2>1
<1>6. Len(plan.outs) = Width
      /\ \A i \in 1..Width : plan.outs[i] = UNION {level[k] : k \in 1..Width}
  BY <1>0 DEF ShuffleOut, Range
<1>7. ASSUME NEW i \in 1..Width
      PROVE  AggLineage(i) = UNION {level[k] : k \in 1..Width}
  <2>1. Proxy.reads = 1..Width
    BY <1>1 DEF Proxy
  <2>2. UNION {ShuffleMaps[j].reads : j \in Proxy.reads} = 1..Width
    BY <1>1, <2>1
  <2>. QED BY <2>2 DEF AggLineage
<1>. QED BY <1>1, <1>2, <1>3, <1>4, <1>5, <1>6, <1>7

\* The indices of the planner's chunks are naturals, one per chunk.
LEMMA TypeFromInv == ShuffleInv => GTypeOK
<1> SUFFICES ASSUME ShuffleInv PROVE GTypeOK
  OBVIOUS
<1>1. TypeOK
  BY DEF ShuffleInv, PlanInv, LineageInv
<1>2. Len(level) \in Nat /\ chunkIndex = [i \in 1..Len(level) |-> i - 1]
  BY <1>1 DEF ShuffleInv, TypeOK
<1>3. chunkIndex \in Seq(Nat) /\ Len(chunkIndex) = Len(level)
  BY <1>2
<1>. QED BY <1>1, <1>3 DEF GTypeOK

-----------------------------------------------------------------------------

(***************************************************************************)
(* The shuffle graph of every plan is consistent (ShuffleTopology): every *)
(* bucket a map writes has one reducer, reducers, pivots and samples agree *)
(* on the bucket count, the agg chunks are indexed 0..n-1 as nsplits says *)
(* and each aggregates every input; for method "shuffle" and for the auto *)
(* fall back after any number of combine rounds.                          *)
(***************************************************************************)
THEOREM ShuffleTopologyCorrect == GSpec => []ShuffleTopology
<1>1. GInit => ShuffleInv
  BY ShuffleInvInit
<1>2. ShuffleInv /\ [GNext]_gvars => ShuffleInv'
  BY ShuffleInvStep
<1>3. ShuffleInv => ShuffleTopology
  BY TopologyFromInv
<1>. QED BY <1>1, <1>2, <1>3, PTL DEF GSpec

(***************************************************************************)
(* The chunk index the planner keeps for each chunk of its list is a      *)
(* natural, one per chunk, through map, probe, resume and combine rounds. *)
(***************************************************************************)
THEOREM ShuffleTypeCorrect == GSpec => []GTypeOK
<1>1. GInit => ShuffleInv
  BY ShuffleInvInit
<1>2. ShuffleInv /\ [GNext]_gvars => ShuffleInv'
  BY ShuffleInvStep
<1>3. ShuffleInv => GTypeOK
  BY TypeFromInv
<1>. QED BY <1>1, <1>2, <1>3, PTL DEF GSpec


(***************************************************************************)
(* The inductive invariant holds in every state: every chunk of the       *)
(* planner's list carries its position as index, and a finished shuffle  *)
(* is _perform_shuffle of the list the planner ended with.                *)
(***************************************************************************)
THEOREM ShuffleInvariant == GSpec => []ShuffleInv
<1>1. GInit => ShuffleInv
  BY ShuffleInvInit
<1>2. ShuffleInv /\ [GNext]_gvars => ShuffleInv'
  BY ShuffleInvStep
<1>. QED BY <1>1, <1>2, PTL DEF GSpec

(***************************************************************************)
(* Keeping the chunk indices does not change what tiling promises: the    *)
(* tiling extended by the shuffle graph still implements GroupByAggPlan.  *)
(***************************************************************************)
THEOREM ShuffleRefinesPlan == GSpec => ImplementsPlan
<1>1. GInit => Abstract!Init
  <2> SUFFICES ASSUME GInit PROVE Abstract!Init
    OBVIOUS
  <2>1. [kind |-> plan.kind, pivot |-> plan.pivot, outs |-> plan.outs]
          = Abstract!NoResult
    BY DEF GInit, Init, NoPlan, Abstract!NoResult
  <2>. QED
    BY <2>1 DEF GInit, Init, Abstract!Init
<1>2. GInit => PlanInv
  BY PlanInit DEF GInit
<1>3. PlanInv /\ [GNext]_gvars => PlanInv'
  BY TileStep, PlanStep
<1>4. PlanInv /\ [GNext]_gvars => [Abstract!Tile]_Abstract!vars
  BY TileStep, RefineStep
<1>. QED
  BY <1>1, <1>2, <1>3, <1>4, PTL DEF GSpec, ImplementsPlan, Abstract!Spec

=============================================================================
