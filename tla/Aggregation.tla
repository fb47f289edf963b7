----------------------------- MODULE Aggregation -----------------------------
(***************************************************************************)
(* Semantic quorum (maestro/aggregator.py): the greedy clustering of the   *)
(* agents by the distances between their answers, and what is reported of  *)
(* the largest cluster.                                                    *)
(*                                                                         *)
(* Distances and thresholds are hundredths.  The order in which minority   *)
(* views are listed, the merged text and the NCG data are left out.        *)
(***************************************************************************)
EXTENDS Integers, Lists

CONSTANTS
    SimilarityThreshold,   \* SIMILARITY_THRESHOLD, in hundredths
    QuorumThreshold        \* QUORUM_THRESHOLD, in hundredths

ASSUME ThresholdAssumption ==
    SimilarityThreshold \in Nat /\ QuorumThreshold \in Nat

Total(numbers) == FoldLeft(LAMBDA sum, n : sum + n, 0, numbers)

\* Slip (what a bug would do; nothing uses it): near one member is enough.
\* d holds the distances between agents.
JoinsSingle(agent, cluster, d) ==
    \E i \in DOMAIN cluster : d[agent][cluster[i]] < SimilarityThreshold

\* The mean distance of an agent to the members of a cluster is below the
\* threshold.
Joins(agent, cluster, d) ==
    Total([i \in DOMAIN cluster |-> d[agent][cluster[i]]]) < SimilarityThreshold * Len(cluster)

\* One turn of the inner loop: every remaining agent is held against the
\* cluster as it has grown so far.
Sweep(state, d) ==
    FoldLeft(LAMBDA s, agent :
                IF Joins(agent, s.cluster, d)
                  THEN [s EXCEPT !.cluster = Append(@, agent)]
                  ELSE [s EXCEPT !.remaining = Append(@, agent)],
             [cluster |-> state.cluster, remaining |-> <<>>],
             state.remaining)

\* Turns until one changes nothing, which is at most one for each agent.
Grow(state, d) == FoldLeft(LAMBDA s, turn : Sweep(s, d), state, state.remaining)

\* The outer loop: clusters are seeded with the first agent that remains.
Clusters(names, d) ==
    FoldLeft(LAMBDA s, turn :
                IF s.remaining = <<>> THEN s
                ELSE LET grown == Grow([cluster |-> <<Head(s.remaining)>>,
                                        remaining |-> Tail(s.remaining)], d)
                     IN [clusters |-> Append(s.clusters, grown.cluster),
                         remaining |-> grown.remaining],
             [clusters |-> <<>>, remaining |-> names],
             names).clusters

\* The first of the largest clusters (a stable sort by length).
Majority(names, d) ==
    FoldLeft(LAMBDA best, c : IF Len(c) > Len(best) THEN c ELSE best, <<>>, Clusters(names, d))

Confidence(share, total) ==
    IF 100 * share >= QuorumThreshold * total THEN "High"
    ELSE IF 2 * share >= total THEN "Medium" ELSE "Low"

\* analyze_agreement and aggregate_responses.  Responses are matched to names
\* by their position.  With fewer than two agents there are no pairwise
\* distances and the answer alone is the majority (exact matching).
Aggregate(names, responses, d) ==
    LET cluster == IF Len(names) < 2 THEN names ELSE Majority(names, d)
        minority == Keep(names, ToSet(names) \ ToSet(cluster))
        At(agent) == responses[SelectInSeq(names, LAMBDA n : n = agent)]
    IN [counted |-> ToSet(names),
        cluster |-> cluster,
        majority_view |-> At(Head(cluster)),
        minority_views |-> {At(agent) : agent \in ToSet(minority)},
        confidence |-> Confidence(Len(cluster), Len(names)),
        quorum_met |-> 100 * Len(cluster) >= QuorumThreshold * Len(names)]
==============================================================================
