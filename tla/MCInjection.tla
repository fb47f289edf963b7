----------------------------- MODULE MCInjection -----------------------------
(* Instances of Injection for TLC: two thresholds "q" and "s" and one config  *)
(* key "k".                                                                   *)
EXTENDS Injection, TLC

P(kind, target, value, category) ==
    [kind |-> kind, target |-> target, value |-> value, category |-> category]

MCTargets == {"q", "s", "k"}
MCTuned == {"q", "s"}
MCInitial == [t \in MCTargets |-> CASE t = "q" -> 6 [] t = "s" -> 5 [] OTHER -> Absent]
MCMin == [t \in MCTuned |-> IF t = "q" THEN 5 ELSE 3]
MCMax == [t \in MCTuned |-> IF t = "q" THEN 9 ELSE 8]

\* Two threshold updates with a config change; a batch of which the guard should
\* refuse all but the last; a source patch of a threshold.
Tune == <<P("runtime", "s", 4, "whitelisted"), P("runtime", "q", 7, "whitelisted"),
           P("config", "k", 1, "whitelisted")>>
Mixed == <<P("runtime", "q", 10, "whitelisted"), P("source_patch", "q", 8, "blocked"),
           P("config", "k", 2, "unlisted"), P("config", "k", 2, "whitelisted")>>
Patch == <<P("source_patch", "q", 8, "whitelisted")>>
Spoiled == <<P("config", "k", 2, "unlisted"), P("source_patch", "q", 8, "whitelisted")>>
Raise == <<P("runtime", "q", 7, "whitelisted")>>
MoreRaise == <<P("runtime", "q", 8, "whitelisted")>>

SerialBatches == {Tune, Mixed, Patch}
Overlay == <<P("config", "k", 1, "whitelisted")>>
OverlapBatches == {Overlay, Spoiled}
MCBatches == SerialBatches \cup OverlapBatches
SmallBatches == {Raise, MoreRaise}

\* Batches in use: of requests and of the records on disk.
InUse == {req[r].batch : r \in Threads} \cup {cycle[c].proposals : c \in Cycles}

\* Requests one at a time, or fewer, with batches of their own, that overlap or
\* that a restart cuts short.
InBounds ==
    \/ serial /\ InUse \subseteq SerialBatches \cup {<<>>}
    \/ InUse \subseteq OverlapBatches \cup {<<>>} /\ started + crashes <= 3 /\ Len(entry) <= 3

Symmetric == Permutations(Threads) \cup Permutations(Cycles)
=============================================================================
