-------------------------- MODULE ReductionSumProofs --------------------------
(***************************************************************************)
(* Proofs about DataFrameSum (reduction/sum.py): when is_atomic holds, sum_ *)
(* applied to every chunk of a column and then to the partial sums gives   *)
(* pandas' sum of the whole column, for every chunking, every skipna and   *)
(* every set of values and min_counts.                                     *)
(***************************************************************************)
EXTENDS ReductionSum, FiniteSetTheorems, TLAPS

USE SumAssumption

-----------------------------------------------------------------------------
(***************************************************************************)
(* Finite families of finite sets.                                         *)
(***************************************************************************)

\* The union of a finite family of finite sets is finite.
LEMMA FamilyFinite ==
    ASSUME NEW D, IsFiniteSet(D), NEW S, \A i \in D : IsFiniteSet(S[i])
    PROVE  IsFiniteSet(UNION {S[i] : i \in D})
<1> DEFINE F == [i \in D |-> S[i]]
           T == {S[i] : i \in D}
<1>1. F \in Surjection(D, T)
  BY DEF Surjection
<1>2. IsFiniteSet(T)
  BY <1>1, FS_Surjection
<1>3. \A X \in T : IsFiniteSet(X)
  OBVIOUS
<1>. QED
  BY <1>2, <1>3, FS_UNION

\* {i} \X (1..n) is finite and has n elements.
LEMMA TaggedInterval ==
    ASSUME NEW i, NEW n \in Nat
    PROVE  /\ IsFiniteSet({i} \X (1..n))
           /\ Cardinality({i} \X (1..n)) = n
<1>1. IsFiniteSet({i}) /\ Cardinality({i}) = 1
  BY FS_Singleton
<1>2. IsFiniteSet(1..n) /\ Cardinality(1..n) = n
  BY FS_Interval
<1>3. IsFiniteSet({i} \X (1..n)) /\ Cardinality({i} \X (1..n)) = 1 * n
  BY <1>1, <1>2, FS_Product
<1>. QED
  BY <1>3

\* {i} \X S is finite when S is.
LEMMA TaggedFinite ==
    ASSUME NEW i, NEW S, IsFiniteSet(S)
    PROVE  IsFiniteSet({i} \X S)
BY FS_Singleton, FS_Product

(***************************************************************************)
(* Counting a family through its counts: tagging each member i of a       *)
(* finite family with 1..|S[i]| gives as many elements as tagging it with *)
(* S[i] itself.  This is the sum of the sums as a count of units.         *)
(***************************************************************************)
LEMMA SumOfCounts ==
    ASSUME NEW D, IsFiniteSet(D), NEW S, \A i \in D : IsFiniteSet(S[i])
    PROVE  Cardinality(UNION {{i} \X (1..Cardinality(S[i])) : i \in D})
             = Cardinality(UNION {{i} \X S[i] : i \in D})
<1> DEFINE L == UNION {{i} \X (1..Cardinality(S[i])) : i \in D}
           R == UNION {{i} \X S[i] : i \in D}
           g == [i \in D |-> CHOOSE b \in Bijection(1..Cardinality(S[i]), S[i]) : TRUE]
           F == [x \in L |-> <<x[1], g[x[1]][x[2]]>>]
<1>1. ASSUME NEW i \in D
      PROVE  /\ Cardinality(S[i]) \in Nat
             /\ g[i] \in Bijection(1..Cardinality(S[i]), S[i])
  <2>1. Cardinality(S[i]) \in Nat /\ ExistsBijection(1..Cardinality(S[i]), S[i])
    BY FS_CardinalityType
  <2>. QED
    BY <2>1 DEF ExistsBijection
<1>2. IsFiniteSet(L)
  <2> DEFINE T == [i \in D |-> {i} \X (1..Cardinality(S[i]))]
  <2>1. \A i \in D : IsFiniteSet(T[i])
    BY <1>1, TaggedInterval
  <2>2. L = UNION {T[i] : i \in D}
    OBVIOUS
  <2> HIDE DEF T
  <2>3. IsFiniteSet(UNION {T[i] : i \in D})
    BY <2>1, FamilyFinite
  <2>. QED
    BY <2>2, <2>3
<1>3. ASSUME NEW x \in L
      PROVE  \E i \in D : \E m \in 1..Cardinality(S[i]) : x = <<i, m>>
  OBVIOUS
<1>4. F \in [L -> R]
  <2> SUFFICES ASSUME NEW x \in L PROVE F[x] \in R
    OBVIOUS
  <2>0. PICK i \in D : \E m \in 1..Cardinality(S[i]) : x = <<i, m>>
    BY <1>3
  <2>1. PICK m \in 1..Cardinality(S[i]) : x = <<i, m>>
    BY <2>0
  <2>2. g[i][m] \in S[i]
    BY <1>1 DEF Bijection, Injection
  <2>3. F[x] = <<i, g[i][m]>>
    BY <2>1
  <2>4. <<i, g[i][m]>> \in {i} \X S[i]
    BY <2>2
  <2>. QED
    BY <2>3, <2>4
<1>5. ASSUME NEW a \in L, NEW b \in L, F[a] = F[b] PROVE a = b
  <2>0. PICK i \in D : \E m \in 1..Cardinality(S[i]) : a = <<i, m>>
    BY <1>3
  <2>1. PICK m \in 1..Cardinality(S[i]) : a = <<i, m>>
    BY <2>0
  <2>5. PICK j \in D : \E n \in 1..Cardinality(S[j]) : b = <<j, n>>
    BY <1>3
  <2>2. PICK n \in 1..Cardinality(S[j]) : b = <<j, n>>
    BY <2>5
  <2>6. F[a] = <<i, g[i][m]>> /\ F[b] = <<j, g[j][n]>>
    BY <2>1, <2>2
  <2>9. <<i, g[i][m]>> = <<j, g[j][n]>>
    BY <1>5, <2>6
  <2>10. i = j /\ g[i][m] = g[j][n]
    BY <2>9
  <2>3. i = j /\ g[i][m] = g[i][n]
    BY <2>10
  <2>7. n \in 1..Cardinality(S[i])
    BY <2>2, <2>3
  <2>8. IsInjective(g[i]) /\ DOMAIN g[i] = 1..Cardinality(S[i])
    BY <1>1 DEF Bijection, Injection
  <2>4. m = n
    BY <2>1, <2>3, <2>7, <2>8 DEF IsInjective
  <2>. QED
    BY <2>1, <2>2, <2>3, <2>4
<1>6. ASSUME NEW r \in R PROVE \E a \in L : F[a] = r
  <2>0. PICK i \in D : \E y \in S[i] : r = <<i, y>>
    OBVIOUS
  <2>1. PICK y \in S[i] : r = <<i, y>>
    BY <2>0
  <2>2. PICK m \in 1..Cardinality(S[i]) : g[i][m] = y
    BY <1>1 DEF Bijection, Surjection
  <2>3. <<i, m>> \in L
    OBVIOUS
  <2>. QED
    BY <2>1, <2>2, <2>3
<1>7. F \in Bijection(L, R)
  BY <1>4, <1>5, <1>6 DEF Bijection, Injection, Surjection, IsInjective
<1>. QED
  BY <1>2, <1>7, FS_Bijection DEF ExistsBijection

-----------------------------------------------------------------------------
(***************************************************************************)
(* Columns, chunks and their units.                                        *)
(***************************************************************************)

\* A chunking is a finite sequence of finite chunks of values.
LEMMA ChunkingFacts ==
    ASSUME NEW cs \in Chunkings
    PROVE  /\ IsFiniteSet(DOMAIN cs)
           /\ \A i \in DOMAIN cs : /\ IsFiniteSet(DOMAIN cs[i])
                                   /\ \A p \in DOMAIN cs[i] : cs[i][p] \in Values
<1>1. PICK n \in 1..MaxChunks : cs \in [1..n -> Chunk]
  BY DEF Chunkings
<1>2. IsFiniteSet(DOMAIN cs)
  BY <1>1, FS_Interval
<1>3. ASSUME NEW i \in DOMAIN cs
      PROVE  /\ IsFiniteSet(DOMAIN cs[i])
             /\ \A p \in DOMAIN cs[i] : cs[i][p] \in Values
  <2>1. PICK m \in 0..MaxLen : cs[i] \in [1..m -> Values]
    BY <1>1 DEF Chunk
  <2>. QED
    BY <2>1, FS_Interval
<1>. QED
  BY <1>2, <1>3

\* The units of s are the pairs <<i, u>> with s[i] a value and u in 1..s[i].
LEMMA UnitsMember ==
    ASSUME NEW s, NEW x
    PROVE  x \in Units(s) <=>
             \E i \in DOMAIN s : s[i] # NaN /\ \E u \in 1..s[i] : x = <<i, u>>
BY DEF Units

\* Over a finite domain of natural values and NaN, the units are finite and
\* their number, SumValid, is a natural number.
LEMMA UnitsFacts ==
    ASSUME NEW s, IsFiniteSet(DOMAIN s), \A i \in DOMAIN s : s[i] \in Nat \cup {NaN}
    PROVE  /\ IsFiniteSet(Units(s))
           /\ SumValid(s) \in Nat
<1> DEFINE V == {j \in DOMAIN s : s[j] # NaN}
           T == [i \in V |-> {i} \X (1..s[i])]
<1>1. IsFiniteSet(V)
  BY FS_Subset
<1>2. \A i \in V : IsFiniteSet(T[i])
  BY TaggedInterval
<1>3. Units(s) = UNION {T[i] : i \in V}
  BY DEF Units
<1> HIDE DEF T
<1>4. IsFiniteSet(UNION {T[i] : i \in V})
  BY <1>1, <1>2, FamilyFinite
<1>. QED
  BY <1>3, <1>4, FS_CardinalityType DEF SumValid

\* Every chunk of a chunking has finitely many units and a natural sum.
LEMMA ChunkUnits ==
    ASSUME NEW cs \in Chunkings, NEW i \in DOMAIN cs
    PROVE  /\ IsFiniteSet(Units(cs[i]))
           /\ SumValid(cs[i]) \in Nat
<1>1. IsFiniteSet(DOMAIN cs[i]) /\ \A p \in DOMAIN cs[i] : cs[i][p] \in Nat \cup {NaN}
  BY ChunkingFacts DEF Values
<1>. QED
  BY <1>1, UnitsFacts

\* The cells of a column are finite, and the column holds each chunk's
\* value at its cell.
LEMMA ColumnFacts ==
    ASSUME NEW cs \in Chunkings
    PROVE  /\ DOMAIN Column(cs) = Cells(cs)
           /\ IsFiniteSet(Cells(cs))
           /\ \A i \in DOMAIN cs : \A p \in DOMAIN cs[i] :
                 /\ <<i, p>> \in Cells(cs)
                 /\ Column(cs)[<<i, p>>] = cs[i][p]
           /\ \A c \in Cells(cs) : \E i \in DOMAIN cs : \E p \in DOMAIN cs[i] : c = <<i, p>>
<1> DEFINE T == [i \in DOMAIN cs |-> {i} \X DOMAIN cs[i]]
<1>1. IsFiniteSet(DOMAIN cs) /\ \A i \in DOMAIN cs : IsFiniteSet(T[i])
  BY ChunkingFacts, TaggedFinite
<1>2. Cells(cs) = UNION {T[i] : i \in DOMAIN cs}
  BY DEF Cells
<1> HIDE DEF T
<1>3. IsFiniteSet(Cells(cs))
  BY <1>1, <1>2, FamilyFinite
<1>. QED
  BY <1>3 DEF Column, Cells


(***************************************************************************)
(* The units of the whole column are the units of its chunks, each tagged *)
(* with its chunk: the pair <<<<i, p>>, u>> of the column is the pair      *)
(* <<i, <<p, u>>>> of chunk i, regrouped.                                  *)
(***************************************************************************)
LEMMA ColumnUnits ==
    ASSUME NEW cs \in Chunkings
    PROVE  SumValid(Column(cs)) = Cardinality(UNION {{i} \X Units(cs[i]) : i \in DOMAIN cs})
<1> DEFINE R == UNION {{i} \X Units(cs[i]) : i \in DOMAIN cs}
           U == Units(Column(cs))
           H == [x \in R |-> <<<<x[1], x[2][1]>>, x[2][2]>>]
<1>0. /\ DOMAIN Column(cs) = Cells(cs)
      /\ \A i \in DOMAIN cs : \A p \in DOMAIN cs[i] :
            /\ <<i, p>> \in Cells(cs)
            /\ Column(cs)[<<i, p>>] = cs[i][p]
      /\ \A c \in Cells(cs) : \E i \in DOMAIN cs : \E p \in DOMAIN cs[i] : c = <<i, p>>
  BY ColumnFacts
<1>1. IsFiniteSet(R)
  <2> DEFINE T == [i \in DOMAIN cs |-> {i} \X Units(cs[i])]
  <2>1. IsFiniteSet(DOMAIN cs) /\ \A i \in DOMAIN cs : IsFiniteSet(T[i])
    BY ChunkingFacts, ChunkUnits, TaggedFinite
  <2>2. R = UNION {T[i] : i \in DOMAIN cs}
    OBVIOUS
  <2> HIDE DEF T
  <2>. QED
    BY <2>1, <2>2, FamilyFinite
<1>2. ASSUME NEW x \in R
      PROVE  \E i \in DOMAIN cs : \E p \in DOMAIN cs[i] :
               cs[i][p] # NaN /\ \E u \in 1..cs[i][p] : x = <<i, <<p, u>>>>
  <2>1. PICK i \in DOMAIN cs : \E y \in Units(cs[i]) : x = <<i, y>>
    OBVIOUS
  <2>2. PICK y \in Units(cs[i]) : x = <<i, y>>
    BY <2>1
  <2>3. \E p \in DOMAIN cs[i] : cs[i][p] # NaN /\ \E u \in 1..cs[i][p] : y = <<p, u>>
    BY <2>2, UnitsMember
  <2>. QED
    BY <2>2, <2>3
<1>3. ASSUME NEW i \in DOMAIN cs, NEW p \in DOMAIN cs[i], NEW u \in 1..cs[i][p],
             cs[i][p] # NaN
      PROVE  /\ <<i, <<p, u>>>> \in R
             /\ <<<<i, p>>, u>> \in U
  <2>1. <<p, u>> \in Units(cs[i])
    BY <1>3, UnitsMember
  <2>2. <<<<i, p>>, u>> \in U
    BY <1>0, <1>3, UnitsMember
  <2>. QED
    BY <2>1, <2>2
<1>4. ASSUME NEW y \in U
      PROVE  \E i \in DOMAIN cs : \E p \in DOMAIN cs[i] :
               cs[i][p] # NaN /\ \E u \in 1..cs[i][p] : y = <<<<i, p>>, u>>
  <2>1. PICK c \in DOMAIN Column(cs) :
            Column(cs)[c] # NaN /\ \E u \in 1..Column(cs)[c] : y = <<c, u>>
    BY UnitsMember
  <2>2. PICK i \in DOMAIN cs : \E p \in DOMAIN cs[i] : c = <<i, p>>
    BY <1>0, <2>1
  <2>3. PICK p \in DOMAIN cs[i] : c = <<i, p>>
    BY <2>2
  <2>4. Column(cs)[c] = cs[i][p]
    BY <1>0, <2>3
  <2>. QED
    BY <2>1, <2>3, <2>4
<1>5. H \in [R -> U]
  <2> SUFFICES ASSUME NEW x \in R PROVE H[x] \in U
    OBVIOUS
  <2>1. PICK i \in DOMAIN cs : \E p \in DOMAIN cs[i] :
            cs[i][p] # NaN /\ \E u \in 1..cs[i][p] : x = <<i, <<p, u>>>>
    BY <1>2
  <2>2. PICK p \in DOMAIN cs[i] : cs[i][p] # NaN /\ \E u \in 1..cs[i][p] : x = <<i, <<p, u>>>>
    BY <2>1
  <2>3. PICK u \in 1..cs[i][p] : x = <<i, <<p, u>>>>
    BY <2>2
  <2>4. H[x] = <<<<i, p>>, u>>
    BY <2>3
  <2>. QED
    BY <2>2, <2>3, <2>4, <1>3
<1>6. ASSUME NEW a \in R, NEW b \in R, H[a] = H[b] PROVE a = b
  <2>1. a = <<a[1], <<a[2][1], a[2][2]>>>> /\ b = <<b[1], <<b[2][1], b[2][2]>>>>
    BY <1>2
  <2>2. <<<<a[1], a[2][1]>>, a[2][2]>> = <<<<b[1], b[2][1]>>, b[2][2]>>
    BY <1>6
  <2>. QED
    BY <2>1, <2>2
<1>7. ASSUME NEW y \in U PROVE \E a \in R : H[a] = y
  <2>1. PICK i \in DOMAIN cs : \E p \in DOMAIN cs[i] :
            cs[i][p] # NaN /\ \E u \in 1..cs[i][p] : y = <<<<i, p>>, u>>
    BY <1>4
  <2>2. PICK p \in DOMAIN cs[i] : cs[i][p] # NaN /\ \E u \in 1..cs[i][p] : y = <<<<i, p>>, u>>
    BY <2>1
  <2>3. PICK u \in 1..cs[i][p] : y = <<<<i, p>>, u>>
    BY <2>2
  <2>4. <<i, <<p, u>>>> \in R
    BY <2>2, <1>3
  <2>. QED
    BY <2>3, <2>4
<1>8. H \in Bijection(R, U)
  BY <1>5, <1>6, <1>7 DEF Bijection, Injection, Surjection, IsInjective
<1>9. Cardinality(U) = Cardinality(R)
  BY <1>1, <1>8, FS_Bijection DEF ExistsBijection
<1>. QED
  BY <1>9 DEF SumValid


\* A column holds a missing value iff one of its chunks does.
LEMMA ColumnNaN ==
    ASSUME NEW cs \in Chunkings
    PROVE  (\E c \in DOMAIN Column(cs) : Column(cs)[c] = NaN) <=>
             \E i \in DOMAIN cs : \E p \in DOMAIN cs[i] : cs[i][p] = NaN
<1>0. /\ DOMAIN Column(cs) = Cells(cs)
      /\ \A i \in DOMAIN cs : \A p \in DOMAIN cs[i] :
            /\ <<i, p>> \in Cells(cs)
            /\ Column(cs)[<<i, p>>] = cs[i][p]
      /\ \A c \in Cells(cs) : \E i \in DOMAIN cs : \E p \in DOMAIN cs[i] : c = <<i, p>>
  BY ColumnFacts
<1>1. ASSUME NEW c \in DOMAIN Column(cs), Column(cs)[c] = NaN
      PROVE  \E i \in DOMAIN cs : \E p \in DOMAIN cs[i] : cs[i][p] = NaN
  <2>1. PICK i \in DOMAIN cs : \E p \in DOMAIN cs[i] : c = <<i, p>>
    BY <1>0
  <2>2. PICK p \in DOMAIN cs[i] : c = <<i, p>>
    BY <2>1
  <2>. QED
    BY <1>0, <1>1, <2>2
<1>. QED
  BY <1>0, <1>1

(***************************************************************************)
(* The sum of the chunks' sums is the sum of the column: pandas' sum with  *)
(* either skipna, applied to every chunk and then to the partial sums,     *)
(* equals pandas' sum of the whole column.  A NaN propagates through its   *)
(* chunk's partial when it is not skipped; otherwise every partial is the  *)
(* number of its chunk's units and the units of the column are theirs.    *)
(***************************************************************************)
LEMMA AtomicSum ==
    ASSUME NEW cs \in Chunkings, NEW skip \in BOOLEAN
    PROVE  PdSum([i \in DOMAIN cs |-> PdSum(cs[i], skip)], skip) = PdSum(Column(cs), skip)
<1> DEFINE P == [i \in DOMAIN cs |-> PdSum(cs[i], skip)]
           Col == Column(cs)
           HasNaN == \E i \in DOMAIN cs : \E p \in DOMAIN cs[i] : cs[i][p] = NaN
<1>0. /\ \A i \in DOMAIN cs : SumValid(cs[i]) \in Nat
      /\ NaN \notin Nat
  BY ChunkUnits
<1>1. (\E c \in DOMAIN Col : Col[c] = NaN) <=> HasNaN
  BY ColumnNaN
<1>2. CASE ~skip /\ HasNaN
  <2>1. PICK i \in DOMAIN cs : \E p \in DOMAIN cs[i] : cs[i][p] = NaN
    BY <1>2
  <2>2. P[i] = NaN
    BY <1>2, <2>1 DEF PdSum
  <2>3. PdSum(P, skip) = NaN
    BY <1>2, <2>2 DEF PdSum
  <2>4. PdSum(Col, skip) = NaN
    BY <1>1, <1>2 DEF PdSum
  <2>. QED
    BY <2>3, <2>4
<1>3. CASE skip \/ ~HasNaN
  <2>1. \A i \in DOMAIN cs : P[i] = SumValid(cs[i])
    BY <1>3 DEF PdSum
  <2>2. PdSum(P, skip) = SumValid(P)
    BY <1>0, <2>1 DEF PdSum
  <2>3. PdSum(Col, skip) = SumValid(Col)
    BY <1>1, <1>3 DEF PdSum
  <2>4. Units(P) = UNION {{i} \X (1..Cardinality(Units(cs[i]))) : i \in DOMAIN cs}
    <3>1. {j \in DOMAIN P : P[j] # NaN} = DOMAIN cs
      BY <1>0, <2>1
    <3>2. \A i \in DOMAIN cs : P[i] = Cardinality(Units(cs[i]))
      BY <2>1 DEF SumValid
    <3>3. Units(P) = UNION {{i} \X (1..P[i]) : i \in DOMAIN cs}
      BY <3>1 DEF Units
    <3>4. {{i} \X (1..P[i]) : i \in DOMAIN cs}
            = {{i} \X (1..Cardinality(Units(cs[i]))) : i \in DOMAIN cs}
      BY <3>2
    <3>. QED
      BY <3>3, <3>4
  <2>5. Cardinality(UNION {{i} \X (1..Cardinality(Units(cs[i]))) : i \in DOMAIN cs})
          = Cardinality(UNION {{i} \X Units(cs[i]) : i \in DOMAIN cs})
    <3> DEFINE SS == [i \in DOMAIN cs |-> Units(cs[i])]
    <3>1. IsFiniteSet(DOMAIN cs) /\ \A i \in DOMAIN cs : IsFiniteSet(SS[i])
      BY ChunkingFacts, ChunkUnits
    <3>2. UNION {{i} \X (1..Cardinality(Units(cs[i]))) : i \in DOMAIN cs}
            = UNION {{i} \X (1..Cardinality(SS[i])) : i \in DOMAIN cs}
      OBVIOUS
    <3>3. UNION {{i} \X Units(cs[i]) : i \in DOMAIN cs}
            = UNION {{i} \X SS[i] : i \in DOMAIN cs}
      OBVIOUS
    <3> HIDE DEF SS
    <3>4. Cardinality(UNION {{i} \X (1..Cardinality(SS[i])) : i \in DOMAIN cs})
            = Cardinality(UNION {{i} \X SS[i] : i \in DOMAIN cs})
      BY <3>1, SumOfCounts
    <3>. QED
      BY <3>2, <3>3, <3>4
  <2>6. SumValid(Col) = Cardinality(UNION {{i} \X Units(cs[i]) : i \in DOMAIN cs})
    BY ColumnUnits
  <2>. QED
    BY <2>2, <2>3, <2>4, <2>5, <2>6 DEF SumValid
<1>. QED
  BY <1>2, <1>3


\* The values present in a column are a natural number of values.
LEMMA CountNat ==
    ASSUME NEW cs \in Chunkings
    PROVE  Count(Column(cs)) \in Nat
<1>1. IsFiniteSet(DOMAIN Column(cs))
  BY ColumnFacts
<1>2. IsFiniteSet({i \in DOMAIN Column(cs) : Column(cs)[i] # NaN})
  BY <1>1, FS_Subset
<1>. QED
  BY <1>2, FS_CardinalityType DEF Count

\* sum_ over the whole column is pandas' sum with the same min_count.
LEMMA WholeColumnSum ==
    ASSUME NEW cs \in Chunkings, minCount \in Nat
    PROVE  Sum_(Column(cs)) = Reference(Column(cs), skipna, minCount)
<1>1. Count(Column(cs)) \in Nat
  BY CountNat
<1>. QED
  BY <1>1 DEF Sum_, Reference

-----------------------------------------------------------------------------
(***************************************************************************)
(* The inductive invariant.                                                *)
(***************************************************************************)

LEMMA SumInit == Init => SumInv
BY DEF Init, SumInv, SumMatchesPandas

LEMMA SumStep == SumInv /\ [Next]_vars => SumInv'
<1> SUFFICES ASSUME SumInv, [Next]_vars PROVE SumInv'
  OBVIOUS
<1>0. /\ chunks \in Chunkings /\ skipna \in BOOLEAN /\ minCount \in MinCounts
      /\ minCount \in Nat
      /\ DOMAIN partial = DOMAIN chunks
      /\ \A i \in DOMAIN chunks : partial[i] \in {NoValue, Sum_(chunks[i])}
      /\ SumMatchesPandas
  BY DEF SumInv
<1>1. /\ chunks' = chunks /\ skipna' = skipna /\ minCount' = minCount
      /\ \A c : Sum_(c)' = Sum_(c)
  <2>1. chunks' = chunks /\ skipna' = skipna /\ minCount' = minCount
    BY DEF Next, ReduceChunk, ReducePartials, ReduceCompiled, vars
  <2>. QED
    BY <2>1 DEF Sum_
<1>2. ASSUME NEW i \in DOMAIN chunks, ReduceChunk(i) PROVE SumInv'
  <2>1. partial' = [partial EXCEPT ![i] = Sum_(chunks[i])] /\ result' = result
    BY <1>2 DEF ReduceChunk
  <2>2. DOMAIN partial' = DOMAIN chunks
    BY <1>0, <2>1
  <2>3. ASSUME NEW j \in DOMAIN chunks PROVE partial'[j] \in {NoValue, Sum_(chunks[j])}
    <3>1. CASE j = i
      BY <1>0, <2>1, <3>1
    <3>2. CASE j # i
      BY <1>0, <2>1, <3>2
    <3>. QED
      BY <3>1, <3>2
  <2>. QED
    BY <1>0, <1>1, <2>1, <2>2, <2>3 DEF SumInv, SumMatchesPandas
<1>3. CASE ReducePartials
  <2>1. minCount = 0 /\ result' = Sum_(Partials) /\ partial' = partial
    BY <1>3 DEF ReducePartials, IsAtomic
  <2>2. \A i \in DOMAIN chunks : partial[i] = Sum_(chunks[i])
    BY <1>0, <1>3 DEF ReducePartials
  <2>3. \A i \in DOMAIN chunks : Sum_(chunks[i]) = PdSum(chunks[i], skipna)
    BY <2>1 DEF Sum_
  <2>4. Partials = [i \in DOMAIN chunks |-> PdSum(chunks[i], skipna)]
    BY <2>2, <2>3 DEF Partials
  <2>5. Sum_(Partials) = PdSum(Partials, skipna)
    BY <2>1 DEF Sum_
  <2>6. result' = PdSum(Column(chunks), skipna)
    BY <1>0, <2>1, <2>4, <2>5, AtomicSum
  <2>7. Count(Column(chunks)) \in Nat
    BY <1>0, CountNat
  <2>8. result' = Reference(Column(chunks), skipna, minCount)
    BY <2>1, <2>6, <2>7 DEF Reference
  <2>. QED
    BY <1>0, <1>1, <2>1, <2>8 DEF SumInv, SumMatchesPandas
<1>4. CASE ReduceCompiled
  <2>1. result' = Sum_(Column(chunks)) /\ partial' = partial
    BY <1>4 DEF ReduceCompiled
  <2>2. Sum_(Column(chunks)) = Reference(Column(chunks), skipna, minCount)
    BY <1>0, WholeColumnSum
  <2>. QED
    BY <1>0, <1>1, <2>1, <2>2 DEF SumInv, SumMatchesPandas
<1>5. CASE UNCHANGED vars
  BY <1>0, <1>1, <1>5 DEF vars, SumInv, SumMatchesPandas
<1>. QED
  BY <1>2, <1>3, <1>4, <1>5 DEF Next

(***************************************************************************)
(* The reduction keeps the partial of every reduced chunk and a result    *)
(* equal to pandas' sum of the column.                                    *)
(***************************************************************************)
THEOREM SumInvariant == Spec => []SumInv
BY SumInit, SumStep, PTL DEF Spec

(***************************************************************************)
(* is_atomic is right: whenever DataFrameSum declares itself atomic       *)
(* (min_count 0) the framework may apply sum_ to the chunks of a column in *)
(* any order and then to their partial sums, and the result is what pandas *)
(* computes over the whole column; otherwise sum_ over the whole column is *)
(* that result.  For every chunking, every skipna and every min_count.     *)
(***************************************************************************)
THEOREM SumMatchesPandasHolds == Spec => []SumMatchesPandas
<1>1. SumInv => SumMatchesPandas
  BY DEF SumInv
<1>. QED
  BY SumInvariant, <1>1, PTL

=============================================================================
