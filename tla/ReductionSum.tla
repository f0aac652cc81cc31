---------------------------- MODULE ReductionSum ----------------------------
(***************************************************************************)
(* DataFrameSum (reduction/sum.py): the reduction callable sum_ that       *)
(* get_reduction_callable returns for skipna and min_count, and is_atomic, *)
(* which declares that the callable may be applied to the chunks of a      *)
(* column and again to the partial sums the chunks return (the tree        *)
(* reduction of the reduction framework, which is not in this repository).*)
(*                                                                         *)
(* A column is a sequence of values from a small set of numbers and NaN.  *)
(* The chunks of one column are reduced in any order, each to its partial  *)
(* sum; once every chunk is reduced the partials are reduced once more.    *)
(***************************************************************************)
EXTENDS Naturals, Sequences, FiniteSets

CONSTANTS
    NaN,         \* np.nan, a model value
    NoValue,     \* a model value: not reduced yet
    Numbers,     \* the non-missing values a column may hold
    MaxChunks,   \* bound on the chunks of a column
    MaxLen,      \* bound on the values in one chunk
    MinCounts    \* the min_count values passed to sum()

ASSUME SumAssumption ==
    /\ Numbers \subseteq Nat /\ NaN \notin Nat /\ NoValue \notin Nat \cup {NaN}
    /\ MaxChunks \in Nat \ {0} /\ MaxLen \in Nat
    /\ MinCounts \subseteq Nat

Values == Numbers \cup {NaN}

\* The chunkings of a column: 1..MaxChunks chunks of 0..MaxLen values.
Chunk == UNION {[1..n -> Values] : n \in 0..MaxLen}
Chunkings == UNION {[1..n -> Chunk] : n \in 1..MaxChunks}

VARIABLES
    chunks,     \* the chunks of the column, in order
    skipna,     \* op.skipna
    minCount,   \* op.min_count
    partial,    \* the partial sum of each chunk reduced so far
    result      \* the reduced value, or NoValue before the last step

vars == <<chunks, skipna, minCount, partial, result>>

-----------------------------------------------------------------------------
(***************************************************************************)
(* pandas, over a sequence of values.                                      *)
(***************************************************************************)

\* Series.count(): the number of non-missing values.
Count(s) == Cardinality({i \in DOMAIN s : s[i] # NaN})

\* The units of the non-missing values: a value v at index i stands for
\* the v pairs <<i, 1>>, ..., <<i, v>>.
Units(s) == UNION {{i} \X (1..s[i]) : i \in {j \in DOMAIN s : s[j] # NaN}}

\* The sum of the non-missing values (0 over none): the number of their
\* units, which for natural values is their sum.
SumValid(s) == Cardinality(Units(s))

\* Series.sum(skipna=skipna): NaN propagates unless it is skipped.
PdSum(s, skip) ==
    IF ~skip /\ \E i \in DOMAIN s : s[i] = NaN THEN NaN ELSE SumValid(s)

\* The reference: Series.sum(skipna, min_count) of the whole column, NaN
\* when fewer than min_count values are present.
Reference(s, skip, mc) == IF Count(s) < mc THEN NaN ELSE PdSum(s, skip)

\* The cells of the column: the position <<i, p>> of value p of chunk i.
Cells(cs) == UNION {{i} \X DOMAIN cs[i] : i \in DOMAIN cs}

\* The whole column, the chunks concatenated, each value indexed by its
\* cell.  count and sum do not depend on the order of the values, so the
\* cells stand for the positions of the concatenated Series.
Column(cs) == [c \in Cells(cs) |-> cs[c[1]][c[2]]]

-----------------------------------------------------------------------------
(***************************************************************************)
(* sum.py.                                                                 *)
(***************************************************************************)

\* Mutant of IsAtomic: also atomic with a min_count of 1.
IsAtomicUpToOne == minCount <= 1

\* is_atomic: the callable may be applied again to partial results.
IsAtomic == minCount = 0

\* Mutant of Sum_: the count test made strict.
Sum_Strict(value) ==
    IF minCount = 0 THEN PdSum(value, skipna)
    ELSE IF Count(value) > minCount THEN PdSum(value, skipna) ELSE NaN

\* sum_: value.sum(skipna) when min_count is 0, else where(count >=
\* min_count, value.sum(skipna), nan).
Sum_(value) ==
    IF minCount = 0 THEN PdSum(value, skipna)
    ELSE IF Count(value) >= minCount THEN PdSum(value, skipna) ELSE NaN

\* The partial sums of the chunks, in chunk order.
Partials == [i \in DOMAIN chunks |-> partial[i]]

-----------------------------------------------------------------------------

\* sum_series / sum_dataframe: an operand for a column, skipna and min_count.
Init ==
    /\ chunks \in Chunkings
    /\ skipna \in BOOLEAN
    /\ minCount \in MinCounts
    /\ partial = [i \in DOMAIN chunks |-> NoValue]
    /\ result = NoValue

\* An atomic reduction applies sum_ to one chunk, in any order.
ReduceChunk(i) ==
    /\ IsAtomic
    /\ partial[i] = NoValue
    /\ partial' = [partial EXCEPT ![i] = Sum_(chunks[i])]
    /\ UNCHANGED <<chunks, skipna, minCount, result>>

\* ... and to the partial sums once every chunk is reduced.
ReducePartials ==
    /\ IsAtomic
    /\ result = NoValue
    /\ \A i \in DOMAIN chunks : partial[i] # NoValue
    /\ result' = Sum_(Partials)
    /\ UNCHANGED <<chunks, skipna, minCount, partial>>

\* A reduction that is not atomic is compiled by the framework instead.
ReduceCompiled ==
    /\ ~IsAtomic
    /\ result = NoValue
    /\ result' = Sum_(Column(chunks))
    /\ UNCHANGED <<chunks, skipna, minCount, partial>>

Next ==
    \/ \E i \in DOMAIN chunks : ReduceChunk(i)
    \/ ReducePartials
    \/ ReduceCompiled

Spec == Init /\ [][Next]_vars

-----------------------------------------------------------------------------

(***************************************************************************)
(* What is_atomic promises: however the column is cut into chunks, sum_   *)
(* of the chunks' sum_ results is what pandas sums over the whole column  *)
(* with the same skipna and min_count.  Missing values, empty chunks and  *)
(* a min_count above a chunk's count are where a wrong is_atomic shows.   *)
(***************************************************************************)
SumMatchesPandas ==
    result # NoValue => result = Reference(Column(chunks), skipna, minCount)

(***************************************************************************)
(* The inductive form of SumMatchesPandas: every chunk reduced so far      *)
(* holds sum_ of that chunk, and a result, once there, is pandas' sum of   *)
(* the whole column.  ReducePartials reads the partials, so what they hold *)
(* is part of what makes the result right.                                 *)
(***************************************************************************)
SumInv ==
    /\ chunks \in Chunkings
    /\ skipna \in BOOLEAN
    /\ minCount \in MinCounts
    /\ DOMAIN partial = DOMAIN chunks
    /\ \A i \in DOMAIN chunks : partial[i] \in {NoValue, Sum_(chunks[i])}
    /\ SumMatchesPandas

=============================================================================
