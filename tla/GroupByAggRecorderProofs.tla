---------------------- MODULE GroupByAggRecorderProofs ----------------------
(***************************************************************************)
(* Proofs about the SizeRecorder protocol of the auto probe (_tile_auto   *)
(* and _execute_map): whatever order the probe chunks run in, and however *)
(* often they crash after recording or lose their stored output, the      *)
(* planner leaves its yield holding a size for every probe.  For every    *)
(* combine_size >= 1 and every bound on crashes and losses.               *)
(***************************************************************************)
EXTENDS GroupByAggTileProofs, FiniteSetTheorems

USE ConstAssumption

-----------------------------------------------------------------------------
(***************************************************************************)
(* The set of recorded probes.                                             *)
(***************************************************************************)

\* The recorded probes are a finite set of at most combine_size probes.
LEMMA RecordedFinite ==
    ASSUME TypeOK
    PROVE  /\ IsFiniteSet(Recorded)
           /\ Cardinality(Recorded) \in Nat
<1>1. IsFiniteSet(ProbeIdx)
  BY FS_Interval DEF ProbeIdx
<1>2. Recorded \subseteq ProbeIdx
  BY DEF Recorded
<1>3. IsFiniteSet(Recorded)
  BY <1>1, <1>2, FS_Subset
<1>. QED
  BY <1>3, FS_CardinalityType

\* Once every probe has stored its output, every probe is recorded.
LEMMA AllStoredRecorded ==
    ASSUME TypeOK, \A c \in ProbeIdx : probe[c] = "stored"
    PROVE  Cardinality(Recorded) = CombineSize
<1>1. Recorded = 1..CombineSize
  BY DEF Recorded, ProbeIdx
<1>2. Cardinality(1..CombineSize) = CombineSize
  BY FS_Interval
<1>. QED
  BY <1>1, <1>2

\* A probe that records joins the recorded set, which grows by one.
LEMMA RecordedAdd ==
    ASSUME TypeOK, NEW c \in ProbeIdx, c \notin Recorded,
           Recorded' = Recorded \cup {c}
    PROVE  Cardinality(Recorded') = Cardinality(Recorded) + 1
BY RecordedFinite, FS_AddElement

\* A probe run again leaves the recorded set, which does not grow.
LEMMA RecordedRemove ==
    ASSUME TypeOK, NEW c \in ProbeIdx, Recorded' = Recorded \ {c}
    PROVE  Cardinality(Recorded') <= Cardinality(Recorded)
<1>1. IsFiniteSet(Recorded) /\ Cardinality(Recorded) \in Nat
  BY RecordedFinite
<1>2. Cardinality(Recorded \ {c}) =
        IF c \in Recorded THEN Cardinality(Recorded) - 1 ELSE Cardinality(Recorded)
  BY <1>1, FS_RemoveElement
<1>. QED
  BY <1>1, <1>2

-----------------------------------------------------------------------------
(***************************************************************************)
(* The inductive invariant.                                                *)
(***************************************************************************)

\* tile() has not created the recorder yet.
LEMMA RecorderInit == Init => RecorderInv
<1> SUFFICES ASSUME Init PROVE RecorderInv
  OBVIOUS
<1>1. TypeOK
  BY TypeInit
<1>2. pc # "probing"
  BY DEF Init
<1>. QED
  BY <1>1, <1>2 DEF RecorderInv

\* Each step of the planner and of the runtime keeps a size in the recorder
\* for every recorded probe while the planner waits.
LEMMA RecorderStep == RecorderInv /\ [Next]_vars => RecorderInv'
<1> SUFFICES ASSUME RecorderInv, [Next]_vars PROVE RecorderInv'
  OBVIOUS
<1>0. TypeOK /\ TypeOK'
  BY TypeStep DEF RecorderInv
<1>. SUFFICES pc' = "probing" => alive' /\ Len(records') >= Cardinality(Recorded')
  BY <1>0 DEF RecorderInv
<1>1. CASE TileTree \/ TileShuffle \/ Resume
  BY <1>1 DEF TileTree, TileShuffle, Resume
<1>2. CASE CombineRound \/ FinishTree \/ FinishShuffle
  BY <1>2 DEF CombineRound, FinishTree, FinishShuffle
<1>3. CASE TileAuto
  <2>1. Recorded' = {}
    BY <1>3 DEF TileAuto, Recorded
  <2>2. Cardinality(Recorded') = 0
    BY <2>1, FS_EmptySet
  <2>. QED
    BY <1>3, <2>2 DEF TileAuto
<1>4. ASSUME NEW c \in ProbeIdx, Runtime(c)
      PROVE  pc' = "probing" => alive' /\ Len(records') >= Cardinality(Recorded')
  <2> SUFFICES ASSUME pc' = "probing"
               PROVE  alive' /\ Len(records') >= Cardinality(Recorded')
    OBVIOUS
  <2>0. /\ pc = "probing" /\ alive /\ Len(records) >= Cardinality(Recorded)
        /\ alive' = alive /\ pc' = pc
        /\ Cardinality(Recorded) \in Nat /\ Len(records) \in Nat
    <3>1. pc' = pc /\ alive' = alive
      BY <1>4 DEF Runtime, RunProbe, RunProbeAfterDestroy, StoreProbe,
                  CrashProbe, LoseProbe
    <3>2. Cardinality(Recorded) \in Nat /\ records \in Seq(AggSizes)
      BY <1>0, RecordedFinite DEF TypeOK
    <3>. QED
      BY <3>1, <3>2 DEF RecorderInv
  <2>1. CASE RunProbe(c)
    <3>1. c \notin Recorded
      BY <2>1 DEF RunProbe, Recorded
    <3>2. Recorded' = Recorded \cup {c}
      BY <1>0, <2>1 DEF RunProbe, Recorded, TypeOK
    <3>3. Len(records') = Len(records) + 1
      BY <1>0, <2>1 DEF RunProbe, Record, TypeOK
    <3>4. Cardinality(Recorded') = Cardinality(Recorded) + 1
      BY <1>0, <3>1, <3>2, RecordedAdd
    <3>. QED
      BY <2>0, <3>3, <3>4
  <2>2. CASE RunProbeAfterDestroy(c)
    BY <2>0, <2>2 DEF RunProbeAfterDestroy
  <2>3. CASE StoreProbe(c)
    <3>1. Recorded' = Recorded
      BY <1>0, <2>3 DEF StoreProbe, Recorded, TypeOK
    <3>. QED
      BY <2>0, <2>3, <3>1 DEF StoreProbe
  <2>4. CASE CrashProbe(c) \/ LoseProbe(c)
    <3>1. Recorded' = Recorded \ {c} /\ records' = records
      BY <1>0, <2>4 DEF CrashProbe, LoseProbe, Recorded, TypeOK
    <3>2. Cardinality(Recorded') <= Cardinality(Recorded)
      BY <1>0, <3>1, RecordedRemove
    <3>3. Cardinality(Recorded') \in Nat
      <4>1. IsFiniteSet(Recorded \ {c})
        BY <1>0, RecordedFinite, FS_RemoveElement
      <4>. QED
        BY <3>1, <4>1, FS_CardinalityType
    <3>. QED
      BY <2>0, <3>1, <3>2, <3>3
  <2>. QED
    BY <1>4, <2>1, <2>2, <2>3, <2>4 DEF Runtime
<1>5. CASE UNCHANGED vars
  BY <1>5 DEF vars, RecorderInv, Recorded
<1>. QED
  BY <1>1, <1>2, <1>3, <1>4, <1>5 DEF Next, Planner

(***************************************************************************)
(* While the planner waits on the probes the recorder exists and holds a   *)
(* size for every probe that has recorded and not been run again.          *)
(***************************************************************************)
THEOREM RecorderInvariant == Spec => []RecorderInv
<1>1. Init => RecorderInv
  BY RecorderInit
<1>2. RecorderInv /\ [Next]_vars => RecorderInv'
  BY RecorderStep
<1>. QED
  BY <1>1, <1>2, PTL DEF Spec

\* The only step that leaves the yield of _tile_auto reads at least one
\* size per probe.
LEMMA ResumeStep ==
    RecorderInv /\ [Next]_vars =>
        [pc = "probing" /\ pc' # "probing" => Len(records) >= CombineSize]_vars
<1> SUFFICES ASSUME RecorderInv, [Next]_vars, pc = "probing", pc' # "probing"
             PROVE  Len(records) >= CombineSize
  OBVIOUS
<1>1. CASE Resume
  <2>1. TypeOK /\ Len(records) >= Cardinality(Recorded)
    BY DEF RecorderInv
  <2>2. Cardinality(Recorded) = CombineSize
    BY <1>1, <2>1, AllStoredRecorded DEF Resume
  <2>. QED
    BY <2>1, <2>2
<1>2. CASE TileTree \/ TileShuffle \/ TileAuto \/ CombineRound
           \/ FinishTree \/ FinishShuffle
  BY <1>2 DEF TileTree, TileShuffle, TileAuto, CombineRound, FinishTree,
              FinishShuffle
<1>3. CASE \E c \in ProbeIdx : Runtime(c)
  BY <1>3 DEF Runtime, RunProbe, RunProbeAfterDestroy, StoreProbe,
              CrashProbe, LoseProbe
<1>4. CASE UNCHANGED vars
  BY <1>4 DEF vars
<1>. QED
  BY <1>1, <1>2, <1>3, <1>4 DEF Next, Planner

(***************************************************************************)
(* The planner never leaves the yield of _tile_auto before every probe     *)
(* chunk has recorded its size: the mean that                              *)
(* _build_tree_and_shuffle_chunks divides by len(agg_sizes) (line 845) is *)
(* always taken over at least combine_size sizes.                          *)
(***************************************************************************)
THEOREM ResumeWithEverySizeHolds == Spec => ResumeWithEverySize
<1>1. Spec => []RecorderInv
  BY RecorderInvariant
<1>2. RecorderInv /\ [Next]_vars =>
        [pc = "probing" /\ pc' # "probing" => Len(records) >= CombineSize]_vars
  BY ResumeStep
<1>. QED
  BY <1>1, <1>2, PTL DEF Spec, ResumeWithEverySize

=============================================================================
