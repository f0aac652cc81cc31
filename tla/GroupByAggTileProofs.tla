------------------------ MODULE GroupByAggTileProofs ------------------------
(***************************************************************************)
(* Proofs about the tiling of a grouped aggregation (GroupByAggTile), for  *)
(* every number of input chunks, every combine_size >= 1, every store      *)
(* limit and every bound on crashes and losses.                            *)
(***************************************************************************)
EXTENDS GroupByAggTile, TLAPS, SequenceTheorems

USE ConstAssumption

-----------------------------------------------------------------------------
(***************************************************************************)
(* The batches of one round of _build_tree_chunks.                         *)
(***************************************************************************)

\* The first position of every batch lies inside the list: no batch is empty.
LEMMA BatchNonEmpty ==
    ASSUME NEW m \in Nat, NEW j \in 1..NumBatches(m)
    PROVE  (j - 1) * CombineSize + 1 \in Batch(j, m)
BY DEF NumBatches, Batch

\* Every position k of the list belongs to batch (k-1) \div combine_size + 1.
LEMMA BatchOfPosition ==
    ASSUME NEW m \in Nat, NEW k \in 1..m
    PROVE  /\ (k - 1) \div CombineSize + 1 \in 1..NumBatches(m)
           /\ k \in Batch((k - 1) \div CombineSize + 1, m)
BY DEF NumBatches, Batch

\* Two different batches share no position.
LEMMA BatchDisjoint ==
    ASSUME NEW m \in Nat, NEW j1 \in Nat, NEW j2 \in Nat, j1 # j2
    PROVE  Batch(j1, m) \cap Batch(j2, m) = {}
BY DEF Batch

\* The chunks of Combined(ch) are non-empty sets of what ch's chunks hold.
LEMMA CombinedType ==
    ASSUME NEW S, NEW ch \in Seq((SUBSET S) \ {{}})
    PROVE  Combined(ch) \in Seq((SUBSET S) \ {{}})
<1> DEFINE m == Len(ch)
<1>1. m \in Nat /\ NumBatches(m) \in Nat
  BY DEF NumBatches
<1>2. ASSUME NEW j \in 1..NumBatches(m)
      PROVE  Combined(ch)[j] \in (SUBSET S) \ {{}}
  <2>1. Batch(j, m) \subseteq 1..m
    BY DEF Batch
  <2>2. Combined(ch)[j] = UNION {ch[k] : k \in Batch(j, m)}
    BY DEF Combined
  <2>3. Combined(ch)[j] \subseteq S
    BY <2>1, <2>2
  <2>4. (j - 1) * CombineSize + 1 \in Batch(j, m)
    BY <1>1, BatchNonEmpty
  <2>5. Combined(ch)[j] # {}
    BY <2>1, <2>2, <2>4
  <2>6. QED
    BY <2>3, <2>5
<1>3. Combined(ch) = [j \in 1..NumBatches(m) |-> Combined(ch)[j]]
  BY DEF Combined
<1>4. QED
  BY <1>1, <1>2, <1>3

\* One map chunk per input chunk lo..hi of 1..n.
LEMMA MapChunksType ==
    ASSUME NEW n \in Nat, NEW lo \in Nat, NEW hi \in Nat, 1 <= lo, hi <= n
    PROVE  MapChunks(lo, hi) \in Seq((SUBSET (1..n)) \ {{}})
<1>1. CASE lo <= hi + 1
  BY <1>1 DEF MapChunks
<1>2. CASE hi + 1 < lo
  <2>1. 1..(hi - lo + 1) = 1..0
    BY <1>2
  <2>2. MapChunks(lo, hi) = << >>
    BY <2>1 DEF MapChunks
  <2>. QED
    BY <2>2
<1>. QED
  BY <1>1, <1>2

\* The union of a list of non-empty subsets of S is a subset of S.
LEMMA UnionRange ==
    ASSUME NEW S, NEW ch \in Seq((SUBSET S) \ {{}})
    PROVE  UNION Range(ch) \subseteq S
BY DEF Range

-----------------------------------------------------------------------------
(***************************************************************************)
(* Partitions of the input chunks.                                         *)
(***************************************************************************)

\* A round of _build_tree_chunks keeps every input in exactly one chunk.
LEMMA CombinedPartition ==
    ASSUME NEW S, NEW ch \in Seq((SUBSET S) \ {{}}), IsPartition(ch, S)
    PROVE  IsPartition(Combined(ch), S)
<1> DEFINE m == Len(ch)
<1> DEFINE C == Combined(ch)
<1>1. m \in Nat /\ DOMAIN ch = 1..m
  OBVIOUS
<1>2. /\ DOMAIN C = 1..NumBatches(m)
      /\ \A j \in 1..NumBatches(m) : C[j] = UNION {ch[k] : k \in Batch(j, m)}
  BY DEF Combined
<1>3. UNION Range(C) \subseteq S
  <2> SUFFICES ASSUME NEW j \in DOMAIN C, NEW x \in C[j] PROVE x \in S
    BY DEF Range
  <2>1. PICK k \in Batch(j, m) : x \in ch[k]
    BY <1>2
  <2>2. k \in 1..m
    BY DEF Batch
  <2>. QED
    BY <1>1, <2>1, <2>2 DEF IsPartition, Range
<1>4. S \subseteq UNION Range(C)
  <2> SUFFICES ASSUME NEW x \in S PROVE x \in UNION Range(C)
    OBVIOUS
  <2>1. PICK k \in 1..m : x \in ch[k]
    BY <1>1 DEF IsPartition, Range
  <2>2. /\ (k - 1) \div CombineSize + 1 \in 1..NumBatches(m)
        /\ k \in Batch((k - 1) \div CombineSize + 1, m)
    BY <1>1, BatchOfPosition
  <2>. QED
    BY <1>2, <2>1, <2>2 DEF Range
<1>5. ASSUME NEW i \in DOMAIN C, NEW j \in DOMAIN C, i # j
      PROVE  C[i] \cap C[j] = {}
  <2> SUFFICES ASSUME NEW x \in C[i] \cap C[j] PROVE FALSE
    OBVIOUS
  <2>1. PICK k1 \in Batch(i, m) : x \in ch[k1]
    BY <1>2
  <2>2. PICK k2 \in Batch(j, m) : x \in ch[k2]
    BY <1>2
  <2>3. i \in Nat /\ j \in Nat
    BY <1>1, <1>2 DEF NumBatches
  <2>4. k1 # k2
    BY <1>5, <2>1, <2>2, <2>3, BatchDisjoint
  <2>5. k1 \in DOMAIN ch /\ k2 \in DOMAIN ch
    BY <1>1 DEF Batch
  <2>. QED
    BY <2>1, <2>2, <2>4, <2>5 DEF IsPartition
<1>. QED
  BY <1>3, <1>4, <1>5 DEF IsPartition

\* _gen_map_chunks over inputs lo..hi: one chunk per input.
LEMMA MapChunksPartition ==
    ASSUME NEW lo \in Nat, NEW hi \in Nat, 1 <= lo, lo <= hi + 1
    PROVE  IsPartition(MapChunks(lo, hi), lo..hi)
<1> DEFINE M == MapChunks(lo, hi)
<1>1. DOMAIN M = 1..(hi - lo + 1) /\ \A i \in 1..(hi - lo + 1) : M[i] = {lo + i - 1}
  BY DEF MapChunks
<1>2. UNION Range(M) \subseteq lo..hi
  BY <1>1 DEF Range
<1>3. lo..hi \subseteq UNION Range(M)
  <2> SUFFICES ASSUME NEW x \in lo..hi PROVE x \in UNION Range(M)
    OBVIOUS
  <2>1. x - lo + 1 \in 1..(hi - lo + 1) /\ x = lo + (x - lo + 1) - 1
    OBVIOUS
  <2>. QED
    BY <1>1, <2>1 DEF Range
<1>4. \A i, j \in DOMAIN M : i # j => M[i] \cap M[j] = {}
  BY <1>1
<1>. QED
  BY <1>2, <1>3, <1>4 DEF IsPartition

\* Partitions of disjoint sets, concatenated, partition their union.
LEMMA ConcatPartition ==
    ASSUME NEW T, NEW A, NEW B, NEW s \in Seq(T), NEW t \in Seq(T),
           IsPartition(s, A), IsPartition(t, B), A \cap B = {}
    PROVE  IsPartition(s \o t, A \cup B)
<1> DEFINE st == s \o t
<1>1. /\ DOMAIN st = 1..(Len(s) + Len(t))
      /\ \A i \in 1..Len(s) : st[i] = s[i]
      /\ \A i \in (Len(s) + 1)..(Len(s) + Len(t)) : st[i] = t[i - Len(s)]
  OBVIOUS
<1>2. UNION Range(st) \subseteq A \cup B
  <2> SUFFICES ASSUME NEW i \in DOMAIN st, NEW x \in st[i] PROVE x \in A \cup B
    BY DEF Range
  <2>1. CASE i <= Len(s)
    BY <1>1, <2>1 DEF IsPartition, Range
  <2>2. CASE i > Len(s)
    <3>1. i - Len(s) \in DOMAIN t /\ x \in t[i - Len(s)]
      BY <1>1, <2>2
    <3>. QED
      BY <3>1 DEF IsPartition, Range
  <2>. QED
    BY <2>1, <2>2, <1>1
<1>3. A \cup B \subseteq UNION Range(st)
  <2> SUFFICES ASSUME NEW x \in A \cup B PROVE x \in UNION Range(st)
    OBVIOUS
  <2>1. CASE x \in A
    <3>1. PICK k \in DOMAIN s : x \in s[k]
      BY <2>1 DEF IsPartition, Range
    <3>. QED
      BY <1>1, <3>1 DEF Range
  <2>2. CASE x \in B
    <3>1. PICK k \in DOMAIN t : x \in t[k]
      BY <2>2 DEF IsPartition, Range
    <3>2. Len(s) + k \in DOMAIN st /\ st[Len(s) + k] = t[k]
      BY <1>1, <3>1
    <3>. QED
      BY <3>1, <3>2 DEF Range
  <2>. QED
    BY <2>1, <2>2
<1>4. ASSUME NEW i \in DOMAIN st, NEW j \in DOMAIN st, i # j
      PROVE  st[i] \cap st[j] = {}
  <2>1. \A k \in DOMAIN st : k <= Len(s) => st[k] \subseteq A
    BY <1>1 DEF IsPartition, Range
  <2>2. \A k \in DOMAIN st : k > Len(s) => st[k] \subseteq B
    <3> SUFFICES ASSUME NEW k \in DOMAIN st, k > Len(s) PROVE st[k] \subseteq B
      OBVIOUS
    <3>1. k - Len(s) \in DOMAIN t /\ st[k] = t[k - Len(s)]
      BY <1>1
    <3>. QED
      BY <3>1 DEF IsPartition, Range
  <2>3. CASE i <= Len(s) /\ j <= Len(s)
    BY <1>1, <1>4, <2>3 DEF IsPartition
  <2>4. CASE i > Len(s) /\ j > Len(s)
    <3>1. i - Len(s) \in DOMAIN t /\ j - Len(s) \in DOMAIN t /\ i - Len(s) # j - Len(s)
      BY <1>1, <1>4, <2>4
    <3>. QED
      BY <1>1, <2>4, <3>1 DEF IsPartition
  <2>5. CASE i <= Len(s) /\ j > Len(s)
    BY <2>1, <2>2, <2>5
  <2>6. CASE i > Len(s) /\ j <= Len(s)
    BY <2>1, <2>2, <2>6
  <2>. QED
    BY <1>1, <2>3, <2>4, <2>5, <2>6
<1>. QED
  BY <1>2, <1>3, <1>4 DEF IsPartition

-----------------------------------------------------------------------------
(***************************************************************************)
(* Type correctness.                                                       *)
(***************************************************************************)

\* The initial state of tile() is well typed.
LEMMA TypeInit == Init => TypeOK
<1> SUFFICES ASSUME Init PROVE TypeOK
  OBVIOUS
<1>1. level \in Seq((SUBSET Inputs) \ {{}}) /\ records \in Seq(AggSizes)
  BY DEF Init
<1>2. probe \in [ProbeIdx -> ProbeStates]
  BY DEF Init, ProbeStates
<1>3. plan \in Plans \cup {NoPlan}
  BY DEF Init
<1>4. crashes \in 0..MaxCrash /\ losses \in 0..MaxLoss /\ scale \in Nat \ {0}
  BY DEF Init
<1>. QED
  BY <1>1, <1>2, <1>3, <1>4 DEF Init, TypeOK

\* Every step of the planner and of the runtime keeps the state well typed.
LEMMA TypeStep == TypeOK /\ [Next]_vars => TypeOK'
<1> SUFFICES ASSUME TypeOK, [Next]_vars PROVE TypeOK'
  OBVIOUS
<1>0. /\ nIn \in Nat /\ 1 <= nIn
      /\ level \in Seq((SUBSET Inputs) \ {{}})
      /\ UNION Range(level) \subseteq Inputs
  <2>1. nIn \in Nat /\ 1 <= nIn /\ level \in Seq((SUBSET Inputs) \ {{}})
    BY DEF TypeOK
  <2>. QED
    BY <2>1, UnionRange
<1>1. CASE TileTree
  <2>0. 1 \in Nat /\ 1 <= 1 /\ nIn <= nIn /\ 1 <= nIn + 1
    BY <1>0
  <2>1. MapChunks(1, nIn) \in Seq((SUBSET Inputs) \ {{}})
    BY Zenon, <1>0, <2>0, MapChunksType DEF Inputs
  <2>. QED
    BY <1>1, <2>1 DEF TileTree, TypeOK, Inputs, Plans, NoPlan
<1>2. CASE TileShuffle
  <2>0. 1 \in Nat /\ 1 <= 1 /\ nIn <= nIn
    BY <1>0
  <2>1. MapChunks(1, nIn) \in Seq((SUBSET Inputs) \ {{}})
    BY Zenon, <1>0, <2>0, MapChunksType DEF Inputs
  <2>2. UNION Range(MapChunks(1, nIn)) \subseteq Inputs
    BY Zenon, <2>1, UnionRange
  <2>3. ShuffleOut(MapChunks(1, nIn)) \in Plans
    BY <2>1, <2>2 DEF ShuffleOut, Plans
  <2>. QED
    BY <1>2, <2>1, <2>3 DEF TileShuffle, TypeOK, Inputs, Plans, NoPlan
<1>3. CASE TileAuto
  <2>0. 1 \in Nat /\ 1 <= 1 /\ CombineSize \in Nat /\ CombineSize <= nIn
    BY <1>0, <1>3 DEF TileAuto
  <2>1. MapChunks(1, CombineSize) \in Seq((SUBSET Inputs) \ {{}})
    BY Zenon, <1>0, <2>0, MapChunksType DEF Inputs
  <2>2. [c \in ProbeIdx |-> "pending"] \in [ProbeIdx -> ProbeStates]
    BY DEF ProbeStates
  <2>3. << >> \in Seq(AggSizes)
    OBVIOUS
  <2>. QED
    BY <1>3, <2>1, <2>2, <2>3 DEF TileAuto, TypeOK, Inputs, Plans, NoPlan
<1>4. CASE Resume
  <2>0. CombineSize + 1 \in Nat /\ 1 <= CombineSize + 1 /\ nIn <= nIn
    BY <1>0
  <2>1. MapChunks(CombineSize + 1, nIn) \in Seq((SUBSET Inputs) \ {{}})
    BY Zenon, <1>0, <2>0, MapChunksType DEF Inputs
  <2>2. level \o MapChunks(CombineSize + 1, nIn) \in Seq((SUBSET Inputs) \ {{}})
    BY <1>0, <2>1
  <2>. QED
    BY <1>4, <2>2 DEF Resume, TypeOK, Inputs, Plans, NoPlan
<1>5. CASE CombineRound
  <2>1. Combined(level) \in Seq((SUBSET Inputs) \ {{}})
    BY <1>0, CombinedType
  <2>2. scale' \in Nat \ {0}
    BY <1>5 DEF CombineRound, TypeOK, Inputs, Plans, NoPlan
  <2>. QED
    BY <1>5, <2>1, <2>2 DEF CombineRound, TypeOK, Inputs, Plans, NoPlan
<1>6. CASE FinishTree
  <2>1. TreeOut(level) \in Plans
    BY <1>0 DEF TreeOut, Plans
  <2>. QED
    BY <1>6, <2>1 DEF FinishTree, TypeOK, Inputs, Plans, NoPlan
<1>7. CASE FinishShuffle
  <2>1. ShuffleOut(level) \in Plans
    BY <1>0 DEF ShuffleOut, Plans
  <2>. QED
    BY <1>7, <2>1 DEF FinishShuffle, TypeOK, Inputs, Plans, NoPlan
<1>8. ASSUME NEW c \in ProbeIdx, Runtime(c) PROVE TypeOK'
  <2>. USE DEF TypeOK, Inputs, Plans, NoPlan, ProbeStates
  <2>1. CASE RunProbe(c)
    <3>1. Append(records, aggSize[c]) \in Seq(AggSizes)
      BY DEF ProbeIdx
    <3>. QED
      BY <2>1, <3>1 DEF RunProbe, Record
  <2>2. CASE RunProbeAfterDestroy(c)
    BY <2>2 DEF RunProbeAfterDestroy
  <2>3. CASE StoreProbe(c)
    BY <2>3 DEF StoreProbe
  <2>4. CASE CrashProbe(c)
    BY <2>4 DEF CrashProbe
  <2>5. CASE LoseProbe(c)
    BY <2>5 DEF LoseProbe
  <2>. QED
    BY <1>8, <2>1, <2>2, <2>3, <2>4, <2>5 DEF Runtime
<1>9. CASE UNCHANGED vars
  BY <1>9 DEF vars, TypeOK, Inputs, Plans, NoPlan
<1>10. QED
  BY <1>1, <1>2, <1>3, <1>4, <1>5, <1>6, <1>7, <1>8, <1>9 DEF Next, Planner

\* Type correctness of the tiling and of the probes' execution: every
\* chunk list the planner builds is a list of non-empty lineages and every
\* plan has one of the shapes _build_out_tileable and _perform_shuffle build.
THEOREM TypeCorrect == Spec => []TypeOK
<1>1. Init => TypeOK
  BY TypeInit
<1>2. TypeOK /\ [Next]_vars => TypeOK'
  BY TypeStep
<1>3. QED
  BY <1>1, <1>2, PTL DEF Spec

-----------------------------------------------------------------------------
(***************************************************************************)
(* Every input chunk is aggregated exactly once.                           *)
(***************************************************************************)

\* Facts about the input that every step below relies on.
LEMMA InputFacts ==
    ASSUME TypeOK
    PROVE  /\ nIn \in Nat /\ 1 <= nIn
           /\ level \in Seq((SUBSET Inputs) \ {{}})
           /\ MapChunks(1, nIn) \in Seq((SUBSET Inputs) \ {{}})
           /\ IsPartition(MapChunks(1, nIn), Inputs)
<1>1. nIn \in Nat /\ 1 <= nIn /\ level \in Seq((SUBSET Inputs) \ {{}})
  BY DEF TypeOK
<1>2. 1 \in Nat /\ 1 <= 1 /\ nIn <= nIn /\ 1 <= nIn + 1
  BY <1>1
<1>3. MapChunks(1, nIn) \in Seq((SUBSET Inputs) \ {{}})
  BY Zenon, <1>1, <1>2, MapChunksType DEF Inputs
<1>4. IsPartition(MapChunks(1, nIn), Inputs)
  BY Zenon, <1>1, <1>2, MapChunksPartition DEF Inputs
<1>. QED
  BY <1>1, <1>3, <1>4

\* A final stage that reads the union of a partition of the inputs reads
\* every input.
LEMMA UnionOfPartition ==
    ASSUME NEW S, NEW ch, IsPartition(ch, S)
    PROVE  UNION Range(ch) = S
BY DEF IsPartition

\* LineageInv holds initially and is kept by every step.
LEMMA LineageStep == LineageInv /\ [Next]_vars => LineageInv'
<1> SUFFICES ASSUME LineageInv, [Next]_vars PROVE LineageInv'
  OBVIOUS
<1>0. /\ TypeOK /\ TypeOK'
      /\ nIn \in Nat /\ 1 <= nIn
      /\ level \in Seq((SUBSET Inputs) \ {{}})
      /\ MapChunks(1, nIn) \in Seq((SUBSET Inputs) \ {{}})
      /\ IsPartition(MapChunks(1, nIn), Inputs)
  BY InputFacts, TypeStep DEF LineageInv
<1>. USE DEF LineageInv, LineageExactlyOnce, Inputs, ProbeIdx
<1>1. CASE TileTree
  BY <1>0, <1>1 DEF TileTree
<1>2. CASE TileShuffle
  <2>1. UNION Range(MapChunks(1, nIn)) = Inputs
    BY <1>0, UnionOfPartition
  <2>2. \A i \in DOMAIN plan'.outs : plan'.outs[i] = Inputs
    BY <1>2, <2>1 DEF TileShuffle, ShuffleOut
  <2>. QED
    BY <1>0, <1>2, <2>2 DEF TileShuffle
<1>3. CASE TileAuto
  <2>1. IsPartition(MapChunks(1, CombineSize), 1..CombineSize)
    <3>1. 1 \in Nat /\ CombineSize \in Nat /\ 1 <= 1 /\ 1 <= CombineSize + 1
      OBVIOUS
    <3>. QED
      BY Zenon, <3>1, MapChunksPartition
  <2>. QED
    BY <1>0, <1>3, <2>1 DEF TileAuto
<1>4. CASE Resume
  <2>1. nIn > CombineSize /\ IsPartition(level, 1..CombineSize)
    BY <1>4 DEF Resume
  <2>2. /\ CombineSize + 1 \in Nat /\ 1 <= CombineSize + 1 /\ nIn \in Nat
        /\ CombineSize + 1 <= nIn + 1 /\ nIn <= nIn
    BY <1>0, <2>1
  <2>3. IsPartition(MapChunks(CombineSize + 1, nIn), (CombineSize + 1)..nIn)
    BY Zenon, <2>2, MapChunksPartition
  <2>4. MapChunks(CombineSize + 1, nIn) \in Seq((SUBSET Inputs) \ {{}})
    BY Zenon, <2>2, MapChunksType
  <2>5. /\ (1..CombineSize) \cap ((CombineSize + 1)..nIn) = {}
        /\ (1..CombineSize) \cup ((CombineSize + 1)..nIn) = 1..nIn
    BY <2>1, <1>0
  <2>6. IsPartition(level \o MapChunks(CombineSize + 1, nIn),
                    (1..CombineSize) \cup ((CombineSize + 1)..nIn))
    BY <1>0, <2>1, <2>3, <2>4, <2>5, ConcatPartition
  <2>7. IsPartition(level \o MapChunks(CombineSize + 1, nIn), 1..nIn)
    BY <2>5, <2>6
  <2>. QED
    BY <1>0, <1>4, <2>7 DEF Resume
<1>5. CASE CombineRound
  <2>1. IsPartition(Combined(level), Inputs)
    BY <1>0, <1>5, CombinedPartition DEF CombineRound
  <2>. QED
    BY <1>0, <1>5, <2>1 DEF CombineRound
<1>6. CASE FinishTree
  <2>1. UNION Range(level) = Inputs
    BY <1>0, <1>6, UnionOfPartition DEF FinishTree
  <2>2. plan'.outs = << UNION Range(level) >> /\ nIn' = nIn /\ level' = level
        /\ pc' = "done"
    BY <1>6 DEF FinishTree, TreeOut
  <2>3. \A i \in DOMAIN plan'.outs : plan'.outs[i] = Inputs'
    <3>1. Inputs' = Inputs
      BY <2>2
    <3>2. DOMAIN plan'.outs = {1} /\ plan'.outs[1] = UNION Range(level)
      BY <2>2
    <3>. QED
      BY <2>1, <3>1, <3>2
  <2>4. pc = "combine" /\ Inputs' = Inputs
    BY <1>6, <2>2 DEF FinishTree
  <2>. QED
    BY <1>0, <2>2, <2>3, <2>4
<1>7. CASE FinishShuffle
  <2>1. UNION Range(level) = Inputs
    BY <1>0, <1>7, UnionOfPartition DEF FinishShuffle
  <2>2. plan'.outs = [i \in 1..Len(level) |-> UNION Range(level)]
        /\ nIn' = nIn /\ level' = level /\ pc' = "done"
    BY <1>7 DEF FinishShuffle, ShuffleOut
  <2>3. \A i \in DOMAIN plan'.outs : plan'.outs[i] = Inputs'
    <3>1. Inputs' = Inputs
      BY <2>2
    <3>. QED
      BY <2>1, <2>2, <3>1
  <2>4. pc = "combine" /\ Inputs' = Inputs
    BY <1>7, <2>2 DEF FinishShuffle
  <2>. QED
    BY <1>0, <2>2, <2>3, <2>4
<1>8. ASSUME NEW c \in ProbeIdx, Runtime(c) PROVE LineageInv'
  <2>1. UNCHANGED <<nIn, pc, level, plan>>
    BY <1>8 DEF Runtime, RunProbe, RunProbeAfterDestroy, StoreProbe,
                CrashProbe, LoseProbe
  <2>. QED
    BY <1>0, <2>1
<1>9. CASE UNCHANGED vars
  BY <1>0, <1>9 DEF vars
<1>. QED
  BY <1>1, <1>2, <1>3, <1>4, <1>5, <1>6, <1>7, <1>8, <1>9 DEF Next, Planner

\* Every input chunk is aggregated exactly once, whatever the number of
\* input chunks, the combine_size, the store limit and the crashes, retries
\* and lost outputs of the probe chunks: the chunk lists of
\* _tile_auto, _build_tree_and_shuffle_chunks and _build_tree_chunks
\* partition the inputs and every final agg chunk reads all of them.
THEOREM LineageCorrect == Spec => []LineageExactlyOnce
<1>1. Init => LineageInv
  BY TypeInit DEF Init, LineageInv, LineageExactlyOnce
<1>2. LineageInv /\ [Next]_vars => LineageInv'
  BY LineageStep
<1>3. LineageInv => LineageExactlyOnce
  BY DEF LineageInv
<1>. QED
  BY <1>1, <1>2, <1>3, PTL DEF Spec


-----------------------------------------------------------------------------
(***************************************************************************)
(* The tiling implements the abstract plan of GroupByAggPlan.              *)
(***************************************************************************)

\* A round of _build_tree_chunks never makes the chunk list longer.
LEMMA NumBatchesBound ==
    ASSUME NEW m \in Nat
    PROVE  NumBatches(m) \in 0..m
<1>1. CASE m = 0
  BY <1>1 DEF NumBatches
<1>2. CASE m > 0
  <2>1. m + CombineSize - 1 < (m + 1) * CombineSize
    BY <1>2
  <2>2. NumBatches(m) * CombineSize <= m + CombineSize - 1
    BY DEF NumBatches
  <2>. QED
    BY <2>1, <2>2 DEF NumBatches
<1>. QED
  BY <1>1, <1>2


\* PlanInv holds in the initial state of tile().
LEMMA PlanInit == Init => PlanInv
<1> SUFFICES ASSUME Init PROVE PlanInv
  OBVIOUS
<1>1. LineageInv
  BY TypeInit DEF Init, LineageInv, LineageExactlyOnce
<1>2. pc = "tile" /\ ~checkSize /\ plan = NoPlan /\ Len(level) = 0
      /\ nIn \in Nat
  BY DEF Init
<1>. QED
  BY <1>1, <1>2 DEF PlanInv

\* Every step of the planner and of the runtime keeps PlanInv.
LEMMA PlanStep == PlanInv /\ [Next]_vars => PlanInv'
<1> SUFFICES ASSUME PlanInv, [Next]_vars PROVE PlanInv'
  OBVIOUS
<1>0. /\ LineageInv' /\ TypeOK
      /\ nIn \in Nat /\ 1 <= nIn /\ level \in Seq((SUBSET Inputs) \ {{}})
      /\ Len(level) <= nIn
  <2>1. LineageInv /\ LineageInv'
    BY LineageStep DEF PlanInv
  <2>. QED
    BY <2>1, InputFacts DEF LineageInv, PlanInv
<1>. USE DEF PlanInv
<1>1. CASE TileTree
  <2>1. Len(MapChunks(1, nIn)) = nIn
    BY <1>0 DEF MapChunks
  <2>. QED
    BY <1>0, <1>1, <2>1 DEF TileTree
<1>2. CASE TileShuffle
  <2>1. Len(MapChunks(1, nIn)) = nIn
    BY <1>0 DEF MapChunks
  <2>. QED
    BY <1>0, <1>2, <2>1 DEF TileShuffle
<1>3. CASE TileAuto
  <2>1. Len(MapChunks(1, CombineSize)) = CombineSize
    BY DEF MapChunks
  <2>. QED
    BY <1>0, <1>3, <2>1 DEF TileAuto
<1>4. CASE Resume
  <2>1. pc = "probing" /\ method = "auto" /\ Len(level) = CombineSize
        /\ nIn > CombineSize
    BY <1>4 DEF Resume, LineageInv
  <2>2. Len(MapChunks(CombineSize + 1, nIn)) = nIn - CombineSize
    BY <2>1, <1>0 DEF MapChunks
  <2>3. MapChunks(CombineSize + 1, nIn) \in Seq((SUBSET Inputs) \ {{}})
    <3>1. /\ CombineSize + 1 \in Nat /\ 1 <= CombineSize + 1 /\ nIn \in Nat
          /\ nIn <= nIn
      BY <1>0
    <3>. QED
      BY Zenon, <3>1, MapChunksType DEF Inputs
  <2>4. Len(level') = nIn
    <3>1. level' = level \o MapChunks(CombineSize + 1, nIn)
      BY <1>4 DEF Resume
    <3>2. Len(level \o MapChunks(CombineSize + 1, nIn)) = nIn
      BY <1>0, <2>1, <2>2, <2>3
    <3>. QED
      BY <3>1, <3>2
  <2>5. /\ pc' = "combine" /\ checkSize' /\ plan' = plan /\ nIn' = nIn
        /\ method' = method
    BY <1>4 DEF Resume
  <2>6. plan = NoPlan
    BY <2>1
  <2>. QED
    BY <1>0, <2>1, <2>4, <2>5, <2>6
<1>5. CASE CombineRound
  <2>1. NumBatches(Len(level)) \in 0..Len(level)
    BY <1>0, NumBatchesBound
  <2>2. Len(Combined(level)) = NumBatches(Len(level))
    BY <2>1 DEF Combined
  <2>3. Len(level') <= nIn
    BY <1>0, <1>5, <2>1, <2>2 DEF CombineRound
  <2>. QED
    BY <1>0, <1>5, <2>3 DEF CombineRound
<1>6. CASE FinishTree
  BY <1>0, <1>6 DEF FinishTree
<1>7. CASE FinishShuffle
  BY <1>0, <1>7 DEF FinishShuffle
<1>8. ASSUME NEW c \in ProbeIdx, Runtime(c) PROVE PlanInv'
  <2>1. UNCHANGED <<nIn, method, pc, level, checkSize, plan>>
    BY <1>8 DEF Runtime, RunProbe, RunProbeAfterDestroy, StoreProbe,
                CrashProbe, LoseProbe
  <2>. QED
    BY <1>0, <2>1
<1>9. CASE UNCHANGED vars
  BY <1>0, <1>9 DEF vars
<1>. QED
  BY <1>1, <1>2, <1>3, <1>4, <1>5, <1>6, <1>7, <1>8, <1>9 DEF Next, Planner


\* A one-element tuple is the function on 1..1 to its element.
LEMMA OneTuple ==
    ASSUME NEW x
    PROVE  << x >> = [i \in 1..1 |-> x]
OBVIOUS

\* A step that builds a plan the abstract Tile allows, from a state with no
\* plan, is an abstract Tile step.
LEMMA PlanIsTile ==
    ASSUME PlanInv, pc # "done", nIn' = nIn, method' = method, sort' = sort,
           NEW kind \in Abstract!Resolutions, NEW k \in 1..nIn,
           k \in Abstract!FanOut(kind),
           plan'.kind = kind,
           plan'.pivot = (kind = "shuffle" /\ sort /\ nIn > 1),
           plan'.outs = [i \in 1..k |-> Inputs]
    PROVE  Abstract!Tile
<1>1. plan = NoPlan
  BY DEF PlanInv
<1>2. [kind |-> plan.kind, pivot |-> plan.pivot, outs |-> plan.outs]
        = Abstract!NoResult
  BY <1>1 DEF NoPlan, Abstract!NoResult
<1>3. Abstract!Inputs = Inputs
  BY DEF Abstract!Inputs, Inputs
<1>4. [kind |-> plan'.kind, pivot |-> plan'.pivot, outs |-> plan'.outs]
        = [kind |-> kind, pivot |-> kind = "shuffle" /\ sort /\ nIn > 1,
           outs |-> [i \in 1..k |-> Abstract!Inputs]]
  BY <1>3
<1>. QED
  BY <1>2, <1>4 DEF Abstract!Tile

\* Every step of the tiling is a step of the abstract plan or leaves the
\* abstract state unchanged.
LEMMA RefineStep == PlanInv /\ [Next]_vars => [Abstract!Tile]_Abstract!vars
<1> SUFFICES ASSUME PlanInv, [Next]_vars PROVE [Abstract!Tile]_Abstract!vars
  OBVIOUS
<1>0. /\ TypeOK /\ nIn \in Nat /\ 1 <= nIn
      /\ level \in Seq((SUBSET Inputs) \ {{}})
      /\ MapChunks(1, nIn) \in Seq((SUBSET Inputs) \ {{}})
      /\ IsPartition(MapChunks(1, nIn), Inputs)
      /\ pc \in {"combine", "done"} => IsPartition(level, Inputs)
      /\ pc = "combine" => method # "shuffle"
      /\ checkSize => method = "auto" /\ nIn > CombineSize
      /\ Len(level) <= nIn
  BY InputFacts DEF PlanInv, LineageInv, LineageExactlyOnce
<1>1. ASSUME UNCHANGED <<nIn, method, sort, plan>>
      PROVE  [Abstract!Tile]_Abstract!vars
  BY <1>1 DEF Abstract!vars
<1>2. CASE TileShuffle
  <2>1. pc = "tile" /\ method = "shuffle"
        /\ nIn' = nIn /\ method' = method /\ sort' = sort
        /\ plan' = ShuffleOut(MapChunks(1, nIn))
    BY <1>2 DEF TileShuffle
  <2>2. UNION Range(MapChunks(1, nIn)) = Inputs
    BY <1>0, UnionOfPartition
  <2>7. Len(MapChunks(1, nIn)) = nIn
    BY <1>0 DEF MapChunks
  <2>3. /\ plan'.kind = "shuffle"
        /\ plan'.pivot = ("shuffle" = "shuffle" /\ sort /\ nIn > 1)
        /\ plan'.outs = [i \in 1..nIn |-> Inputs]
    BY <2>1, <2>2, <2>7 DEF ShuffleOut
  <2>4. "shuffle" \in Abstract!Resolutions /\ nIn \in Abstract!FanOut("shuffle")
        /\ nIn \in 1..nIn
    BY <1>0, <2>1 DEF Abstract!Resolutions, Abstract!FanOut
  <2>. QED
    BY <2>1, <2>3, <2>4, PlanIsTile
<1>3. CASE FinishTree
  <2>1. pc = "combine" /\ method # "shuffle"
        /\ nIn' = nIn /\ method' = method /\ sort' = sort
        /\ plan' = TreeOut(level)
    BY <1>0, <1>3 DEF FinishTree
  <2>2. UNION Range(level) = Inputs
    BY <1>0, <2>1, UnionOfPartition
  <2>3. << UNION Range(level) >> = [i \in 1..1 |-> Inputs]
    BY <2>2, OneTuple
  <2>4. /\ plan'.kind = "tree"
        /\ plan'.pivot = ("tree" = "shuffle" /\ sort /\ nIn > 1)
        /\ plan'.outs = [i \in 1..1 |-> Inputs]
    BY <2>1, <2>3 DEF TreeOut
  <2>5. "tree" \in Abstract!Resolutions /\ 1 \in Abstract!FanOut("tree")
        /\ 1 \in 1..nIn
    BY <1>0, <2>1, TypeOK DEF Abstract!Resolutions, Abstract!FanOut, TypeOK
  <2>. QED
    BY <2>1, <2>4, <2>5, PlanIsTile
<1>4. CASE FinishShuffle
  <2>1. pc = "combine" /\ checkSize
        /\ nIn' = nIn /\ method' = method /\ sort' = sort
        /\ plan' = ShuffleOut(level)
    BY <1>4 DEF FinishShuffle
  <2>2. method = "auto" /\ nIn > CombineSize
    BY <1>0, <2>1
  <2>3. UNION Range(level) = Inputs
    BY <1>0, <2>1, UnionOfPartition
  <2>4. Len(level) \in 1..nIn
    <3>1. level # << >>
      <4>1. 1 \in UNION Range(level)
        BY <1>0, <2>3 DEF Inputs
      <4>2. Range(<< >>) = {}
        BY DEF Range
      <4>. QED
        BY <4>1, <4>2
    <3>. QED
      BY <1>0, <3>1
  <2>5. /\ plan'.kind = "shuffle"
        /\ plan'.pivot = ("shuffle" = "shuffle" /\ sort /\ nIn > 1)
        /\ plan'.outs = [i \in 1..Len(level) |-> Inputs]
    BY <2>1, <2>3 DEF ShuffleOut
  <2>6. "shuffle" \in Abstract!Resolutions
    <3>1. ~(nIn <= CombineSize)
      BY <1>0, <2>2
    <3>. QED
      BY <2>2, <3>1 DEF Abstract!Resolutions
  <2>7. Abstract!FanOut("shuffle") = 1..nIn
    BY DEF Abstract!FanOut
  <2>. QED
    BY <2>1, <2>4, <2>5, <2>6, <2>7, PlanIsTile
<1>5. CASE TileTree \/ TileAuto \/ Resume \/ CombineRound
  BY <1>1, <1>5 DEF TileTree, TileAuto, Resume, CombineRound
<1>6. ASSUME NEW c \in ProbeIdx, Runtime(c) PROVE [Abstract!Tile]_Abstract!vars
  <2>1. UNCHANGED <<nIn, method, sort, plan>>
    BY <1>6 DEF Runtime, RunProbe, RunProbeAfterDestroy, StoreProbe,
                CrashProbe, LoseProbe
  <2>. QED
    BY <1>1, <2>1
<1>7. CASE UNCHANGED vars
  BY <1>1, <1>7 DEF vars
<1>. QED
  BY <1>2, <1>3, <1>4, <1>5, <1>6, <1>7 DEF Next, Planner

(***************************************************************************)
(* tile() implements the abstract plan of GroupByAggPlan (ImplementsPlan), *)
(* for every chunk count, combine_size, store limit and probe sizes, and   *)
(* whatever crashes, retries and lost outputs the probes go through: auto  *)
(* over at most combine_size chunks ends in a tree, pivots are used        *)
(* exactly for a sorted shuffle of several input chunks, and every final   *)
(* agg chunk reads every input chunk.                                      *)
(***************************************************************************)
THEOREM TileRefinesPlan == Spec => ImplementsPlan
<1>1. Init => Abstract!Init
  <2> SUFFICES ASSUME Init PROVE Abstract!Init
    OBVIOUS
  <2>1. [kind |-> plan.kind, pivot |-> plan.pivot, outs |-> plan.outs]
          = Abstract!NoResult
    BY DEF Init, NoPlan, Abstract!NoResult
  <2>. QED
    BY <2>1 DEF Init, Abstract!Init
<1>2. Init => PlanInv
  BY PlanInit
<1>3. PlanInv /\ [Next]_vars => PlanInv'
  BY PlanStep
<1>4. PlanInv /\ [Next]_vars => [Abstract!Tile]_Abstract!vars
  BY RefineStep
<1>. QED
  BY <1>1, <1>2, <1>3, <1>4, PTL DEF Spec, ImplementsPlan, Abstract!Spec


(***************************************************************************)
(* The planner's invariant holds in every state: only auto probes, with   *)
(* combine_size chunks; a method "shuffle" never reaches the combine      *)
(* loop; the size is checked only after an auto probe; no plan exists     *)
(* before the planner is done; and no chunk list is longer than the input.*)
(***************************************************************************)
THEOREM PlanInvariant == Spec => []PlanInv
<1>1. Init => PlanInv
  BY PlanInit
<1>2. PlanInv /\ [Next]_vars => PlanInv'
  BY PlanStep
<1>. QED
  BY <1>1, <1>2, PTL DEF Spec

(***************************************************************************)
(* The inductive form of LineageExactlyOnce holds in every state: the     *)
(* planner suspends on the probes only when inputs are left for           *)
(* _build_tree_and_shuffle_chunks to append.                              *)
(***************************************************************************)
THEOREM LineageInvariant == Spec => []LineageInv
<1>1. Init => LineageInv
  BY TypeInit DEF Init, LineageInv, LineageExactlyOnce
<1>2. LineageInv /\ [Next]_vars => LineageInv'
  BY LineageStep
<1>. QED
  BY <1>1, <1>2, PTL DEF Spec

-----------------------------------------------------------------------------
(***************************************************************************)
(* Only the size-checked loop leaves a tree wider than combine_size.       *)
(***************************************************************************)

\* Every step keeps a tree built without a size check within combine_size.
LEMMA TreeBoundStep ==
    PlanInv /\ UncheckedTreeBounded /\ [Next]_vars => UncheckedTreeBounded'
<1> SUFFICES ASSUME PlanInv, UncheckedTreeBounded, [Next]_vars
             PROVE  UncheckedTreeBounded'
  OBVIOUS
<1>0. Len(level) \in Nat /\ (pc # "done" => plan = NoPlan)
  BY DEF PlanInv, LineageInv, TypeOK
<1>1. CASE TileTree \/ TileAuto
  <2>1. plan' = NoPlan
    BY <1>0, <1>1 DEF TileTree, TileAuto
  <2>. QED
    BY <2>1 DEF UncheckedTreeBounded, NoPlan
<1>2. CASE TileShuffle \/ FinishShuffle
  BY <1>2 DEF TileShuffle, FinishShuffle, ShuffleOut, UncheckedTreeBounded
<1>3. CASE Resume
  BY <1>3 DEF Resume, UncheckedTreeBounded
<1>4. CASE CombineRound
  BY <1>4 DEF CombineRound, UncheckedTreeBounded
<1>5. CASE FinishTree
  <2>1. plan' = TreeOut(level) /\ checkSize' = checkSize /\ ~KeepCombining
    BY <1>5 DEF FinishTree
  <2>2. ~checkSize => Len(level) <= CombineSize
    BY <1>0, <2>1 DEF KeepCombining
  <2>. QED
    BY <2>1, <2>2 DEF TreeOut, UncheckedTreeBounded
<1>6. CASE \E c \in ProbeIdx : Runtime(c)
  BY <1>6 DEF Runtime, RunProbe, RunProbeAfterDestroy, StoreProbe,
              CrashProbe, LoseProbe, UncheckedTreeBounded
<1>7. CASE UNCHANGED vars
  BY <1>7 DEF vars, UncheckedTreeBounded
<1>. QED
  BY <1>1, <1>2, <1>3, <1>4, <1>5, <1>6, <1>7 DEF Next, Planner

(***************************************************************************)
(* A tree from _combine_tree (method "tree", or auto over at most          *)
(* combine_size chunks) concatenates at most combine_size chunks into its *)
(* agg chunk, for every chunk count and combine_size: the loop without a  *)
(* limit runs until that many are left.  Only the size-checked loop of    *)
(* the auto fall back can stop wider (TreeFanInBounded fails there).      *)
(***************************************************************************)
THEOREM UncheckedTreeBoundedHolds == Spec => []UncheckedTreeBounded
<1>1. Init => PlanInv /\ UncheckedTreeBounded
  BY PlanInit DEF Init, NoPlan, UncheckedTreeBounded
<1>2. PlanInv /\ UncheckedTreeBounded /\ [Next]_vars
        => (PlanInv /\ UncheckedTreeBounded)'
  BY PlanStep, TreeBoundStep
<1>. QED
  BY <1>1, <1>2, PTL DEF Spec

=============================================================================
