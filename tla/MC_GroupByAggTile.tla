------------------------- MODULE MC_GroupByAggTile -------------------------
(***************************************************************************)
(* Model-checking harness for GroupByAggTile and the shuffle graph that   *)
(* GroupByAggShuffle builds over it: the reference plan that the tiling  *)
(* must produce, computed in closed form from the true sizes of the probe *)
(* chunks rather than by running the loop.                                 *)
(***************************************************************************)
EXTENDS GroupByAggShuffle

\* Bound on the combine rounds the reference looks at.
MaxRounds == 8

\* After k rounds of batching by combine_size, ceil(n / cs^k) chunks remain.
RefCount(k) == (nIn + CombineSize^k - 1) \div CombineSize^k

\* Total true aggregated size of the probe chunks (each counted once).
ProbeTotal == LET f[i \in 0..CombineSize] ==
                    IF i = 0 THEN 0 ELSE f[i - 1] + aggSize[i]
              IN  f[CombineSize]

\* The mean probe size times cs^k is under chunk_store_limit / 4.
RefBelow(k) == 4 * ProbeTotal * CombineSize^k < ChunkStoreLimit * CombineSize

\* Combining stops after k rounds: few enough chunks, or over the budget
\* when the size is checked.
RefStops(k, checked) == RefCount(k) <= CombineSize \/ (checked /\ ~RefBelow(k))

RefRounds(checked) ==
    CHOOSE k \in 0..MaxRounds :
        RefStops(k, checked) /\ \A j \in 0..(k - 1) : ~RefStops(j, checked)

\* What the tiling must produce: kind, fan-in of the final stage, pivots.
RefPlan ==
    CASE method = "shuffle" ->
            [kind |-> "shuffle", fanIn |-> nIn, pivot |-> sort /\ nIn > 1]
      [] method = "tree" \/ nIn <= CombineSize ->
            [kind |-> "tree", fanIn |-> RefCount(RefRounds(FALSE)),
             pivot |-> FALSE]
      [] OTHER ->
            LET r == RefRounds(TRUE)
            IN  [kind |-> IF 4 * ProbeTotal * CombineSize^r
                               <= ChunkStoreLimit * CombineSize
                          THEN "tree" ELSE "shuffle",
                 fanIn |-> RefCount(r),
                 pivot |-> (4 * ProbeTotal * CombineSize^r
                               > ChunkStoreLimit * CombineSize)
                           /\ sort /\ nIn > 1]

\* The plan is determined by the input: tiling the same request over the
\* same chunks yields the same kind of plan, the same fan-in and the same
\* pivot use, however the probes' records interleaved or were retried.
PlanMatchesReference ==
    pc = "done" =>
        /\ plan.kind = RefPlan.kind
        /\ plan.fanIn = RefPlan.fanIn
        /\ plan.pivot = RefPlan.pivot

=============================================================================
