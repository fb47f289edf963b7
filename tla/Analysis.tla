------------------------------ MODULE Analysis ------------------------------
(***************************************************************************)
(* From sessions to proposals: the scoring of a session (maestro/          *)
(* dissent.py, ncg/drift.py, r2.py), the R2 ledger, what MAGI makes of the *)
(* latest entries (magi.py), which places of the source their signals      *)
(* point to (introspect.py), and the changes proposed there                *)
(* (optimization.py).                                                      *)
(*                                                                         *)
(* Abstractions.  A session is what is measured of it: distances between   *)
(* answers and to the headless baseline, relative lengths, and whether     *)
(* there was a quorum.  Distances, agreement and confidence are in ten-    *)
(* thousandths, as the code rounds them (halves up), thresholds and        *)
(* lengths in hundredths: the last bit of a float is lost, by which the    *)
(* code can miss a bound and propose that bit in one more step.  Entries   *)
(* are as old as their place in the ledger.  Texts, evidence and line      *)
(* numbers are left out.                                                   *)
(***************************************************************************)
EXTENDS Integers, FiniteSets, Functions, Lists

CONSTANTS
    Sessions,      \* sessions there can be
    Limit,         \* how many entries are read (50)
    Torn,          \* an entry whose writing was cut short
    MaxSessions,   \* bound: entries of the ledger
    MaxAdopted     \* bound: proposals adopted

\* Ten-thousandths, and whom distances are between.
Scale == 0 .. 10000
PairsOf(agents) == {{a, b} : a, b \in agents}

IsSession(s) ==
    /\ IsFiniteSet(s.agents) /\ Cardinality(s.agents) >= 2
    /\ s.apart \in [PairsOf(s.agents) -> Scale] /\ \A a \in s.agents : s.apart[{a}] = 0
    /\ s.headless \in [s.agents -> Scale] /\ s.length \in [s.agents -> Nat]
    /\ s.ncg \in BOOLEAN /\ s.quorum \in BOOLEAN

AnalysisAssumption ==
    /\ Limit \in Nat /\ MaxSessions \in Nat /\ MaxAdopted \in Nat
    /\ \A s \in Sessions : IsSession(s)

VARIABLES
    ledger,    \* R2's entries, oldest first
    source,    \* the thresholds in aggregator.py
    cycle,     \* the last analysis: what it read, its report and its proposals
    adopted

vars == <<ledger, source, cycle, adopted>>

SumOf(f) == SumFunction(f)
Rounded(n, d) == (2 * n + d) \div (2 * d)

------------------------------------------------------------------------------
(* DissentAnalyzer.analyze                                                 *)

Total(s) == SumOf(s.apart)
PairCount(s) == (Cardinality(s.agents) * (Cardinality(s.agents) - 1)) \div 2

Agreement(s) == 10000 - Rounded(Total(s), PairCount(s))

MeanToOthers(s, a) == Rounded(SumOf([b \in s.agents |-> s.apart[{a, b}]]), Cardinality(s.agents) - 1)

\* Further from the others than one and a half times the mean; of three agents
\* nobody ever is.
Outliers(s) ==
    LET n == Cardinality(s.agents) IN
    {a \in s.agents : n >= 3 /\ MeanToOthers(s, a) * n * (n - 1) > 3 * Total(s)}

HighDissent(s) == 10 * Total(s) >= 60000 * PairCount(s)

------------------------------------------------------------------------------
(* DriftDetector.analyze                                                   *)

Drift(s) == IF s.ncg THEN Rounded(SumOf(s.headless), Cardinality(s.agents)) ELSE 0

\* Silent collapse: the agents agree, and are all off the baseline.
Collapse(s, agreement, drift) == s.ncg /\ agreement > 8000 /\ drift > 3000

Compressed(s) == s.ncg /\ SumOf(s.length) < 50 * Cardinality(s.agents)

\* What R2 is given of a session: the reports of the two.
Report(s) ==
    LET agreement == Agreement(s)
        drift == Drift(s)
    IN [agents |-> s.agents, quorum |-> s.quorum, agreement |-> agreement, outliers |-> Outliers(s),
        dissent |-> HighDissent(s), drift |-> drift, collapse |-> Collapse(s, agreement, drift),
        compressed |-> Compressed(s)]

------------------------------------------------------------------------------
(* R2Engine: scores, signals and the ledger                                *)

Concerns(r) == r.compressed \/ r.outliers # {}    \* flags of an acceptable session

Grade(r) ==
    IF r.collapse \/ (r.agreement > 9000 /\ r.drift > 5000) THEN "suspicious"
    ELSE IF (~r.quorum) \/ r.dissent THEN "weak"
    ELSE IF Concerns(r) THEN "acceptable"
    ELSE "strong"

Confidence(r) ==
    Rounded(4 * r.agreement + 3 * (10000 - r.drift) + (IF r.quorum THEN 30000 ELSE 0),
            IF r.collapse THEN 20 ELSE 10)

\* detect_signals
SignalTypes == {"persistent_outlier", "suspicious_consensus", "compression", "healthy_dissent",
                "agent_degradation"}
Raised(r, type) ==
    CASE type = "persistent_outlier" -> r.outliers # {}
      [] type = "suspicious_consensus" -> r.collapse
      [] type = "compression" -> r.compressed
      [] type = "healthy_dissent" -> r.dissent /\ r.outliers = {}
      [] type = "agent_degradation" -> Grade(r) = "weak" /\ ~r.quorum

Entry(r) ==
    [grade |-> Grade(r), confidence |-> Confidence(r), collapse |-> r.collapse,
     signals |-> {type \in SignalTypes : Raised(r, type)}, agents |-> r.agents, outliers |-> r.outliers,
     squeezed |-> r.compressed /\ r.agreement > 8000]

\* load_recent_entries: the latest files, newest first, less those that cannot
\* be read.
Recent(entries) ==
    LET newest == Reverse(entries)
        latest == SubSeq(newest, 1, IF Len(newest) < Limit THEN Len(newest) ELSE Limit)
    IN Keep(latest, ToSet(latest) \ {Torn})

\* analyze_ledger_trends: the second half of the entries against the first.
Halfway(entries) == Len(entries) \div 2
HalvesDiffer(entries) ==
    LET n == Len(entries)
        mid == Halfway(entries)
        first == SumOf([i \in 1 .. mid |-> entries[i].confidence])
        second == SumOf([i \in mid + 1 .. n |-> entries[i].confidence])
        diff == second * mid - first * (n - mid)
        most == 1000 * mid * (n - mid)
    IN IF n < 4 THEN "no" ELSE IF diff > most THEN "up" ELSE IF diff < -most THEN "down" ELSE "no"

Trend(entries) == [up |-> "improving", down |-> "declining", no |-> "stable"][HalvesDiffer(entries)]

Count(entries, Test(_)) == Cardinality({i \in DOMAIN entries : Test(entries[i])})
Times(entries, type) == Count(entries, LAMBDA e : type \in e.signals)

------------------------------------------------------------------------------
(* Magi.analyze                                                            *)

Rec(category, severity, title) == [category |-> category, severity |-> severity, title |-> title]
When(condition, rec) == IF condition THEN {rec} ELSE {}

\* An agent that was an outlier in more than half of at least three sessions.
PersistentOutliers(entries) ==
    {a \in UNION {entries[i].agents : i \in DOMAIN entries} :
        LET sessions == Count(entries, LAMBDA e : a \in e.agents)
            outlying == Count(entries, LAMBDA e : a \in e.agents /\ a \in e.outliers)
        IN sessions >= 3 /\ 2 * outlying > sessions}

Collapses(entries) == Count(entries, LAMBDA e : e.collapse)

TrendRecommendations(entries) ==
    When(Trend(entries) = "declining", Rec("system", "warning", "declining"))

CollapseRecommendations(entries) ==
    When(Len(entries) >= 3 /\ 10 * Collapses(entries) > 3 * Len(entries), Rec("system", "critical", "collapse"))

SignalRecommendations(entries) ==
    {Rec("system", "warning", type) : type \in {t \in SignalTypes \ {"healthy_dissent"} : Times(entries, t) >= 3}}

PositiveSignals(entries) ==
    When(Trend(entries) = "improving", Rec("positive", "info", "improving"))
    \cup When(Times(entries, "healthy_dissent") >= 2, Rec("positive", "info", "dissent"))
    \cup When(Len(entries) >= 5 /\ Collapses(entries) = 0, Rec("positive", "info", "no collapse"))

Recommendations(entries) ==
    {Rec("agent", "warning", a) : a \in PersistentOutliers(entries)}
    \cup TrendRecommendations(entries) \cup CollapseRecommendations(entries)
    \cup SignalRecommendations(entries) \cup PositiveSignals(entries)

------------------------------------------------------------------------------
(* CodeIntrospector                                                        *)

\* _SIGNAL_CODE_MAP
Rule(module, names, category) == [module |-> module, names |-> names, category |-> category]

SignalCodeMap ==
    [persistent_outlier |->
        {Rule("agents", {"temperature", "model", "timeout"}, "agent_config"),
         Rule("dissent", {"_semantic_distance", "threshold"}, "threshold")},
     suspicious_consensus |->
        {Rule("orchestrator", {"run_orchestration_async"}, "pipeline"),
         Rule("drift", {"_semantic_distance", "silent_collapse"}, "threshold"),
         Rule("aggregator", {"QUORUM_THRESHOLD", "SIMILARITY_THRESHOLD"}, "threshold")},
     compression |->
        {Rule("generator", {"generate", "temperature"}, "prompt"),
         Rule("agents", {"max_tokens", "temperature"}, "agent_config")},
     agent_degradation |->
        {Rule("agents", {"model", "timeout", "fetch"}, "agent_config"),
         Rule("orchestrator", {"run_orchestration_async"}, "pipeline")},
     healthy_dissent |-> {}]

\* What _find_in_ast finds of that in the sources: the package of the agents is
\* searched in its __init__.py, which has none of it.
InSource ==
    [dissent |-> {"_semantic_distance", "threshold"}, orchestrator |-> {"run_orchestration_async"},
     drift |-> {"_semantic_distance", "silent_collapse"},
     aggregator |-> {"QUORUM_THRESHOLD", "SIMILARITY_THRESHOLD"}, generator |-> {"generate"}, agents |-> {}]

\* map_signals_to_code
Places(type, rule) ==
    {[module |-> rule.module, name |-> name, category |-> rule.category, signal |-> type] :
        name \in rule.names \cap InSource[rule.module]}

Targets(entries) ==
    UNION {UNION {Places(type, rule) : rule \in SignalCodeMap[type]} :
              type \in {t \in SignalTypes : Times(entries, t) > 0}}

\* analyze_token_patterns: no signal carries token data, so only sessions that
\* agreed on short answers give a target.
TokenTargets(entries) ==
    IF Count(entries, LAMBDA e : e.squeezed) > 0
      THEN {[module |-> "orchestrator", name |-> "run_orchestration_async",
             category |-> "token_tuning", signal |-> "compression"]}
      ELSE {}

\* The three most complex functions; all three are at the top of the scale.
Hotspots == {<<"prism", "fetch">>, <<"aggregator", "analyze_agreement">>, <<"api_storage", "network_topology">>}

\* introspect
Introspection(entries) ==
    [targets |-> Targets(entries), tokens |-> TokenTargets(entries), hotspots |-> Hotspots]

------------------------------------------------------------------------------
(* OptimizationEngine                                                      *)

\* _THRESHOLD_STRATEGIES
Strategies ==
    [QUORUM_THRESHOLD |->
        [suspicious_consensus |-> [up |-> TRUE, min |-> 50, max |-> 90],
         agent_degradation |-> [up |-> FALSE, min |-> 50, max |-> 90]],
     SIMILARITY_THRESHOLD |->
        [persistent_outlier |-> [up |-> TRUE, min |-> 30, max |-> 80],
         suspicious_consensus |-> [up |-> FALSE, min |-> 30, max |-> 80]]]
Thresholds == DOMAIN Strategies

\* Slip: the step is taken whatever the bounds.
MovedOn(value, strategy) == IF strategy.up THEN value + 5 ELSE value - 5

Moved(value, strategy) ==
    IF strategy.up
      THEN IF value + 5 < strategy.max THEN value + 5 ELSE strategy.max
      ELSE IF value - 5 > strategy.min THEN value - 5 ELSE strategy.min

\* _signal_priority
PriorityOf ==
    [suspicious_consensus |-> "critical", compression |-> "high", persistent_outlier |-> "medium",
     agent_degradation |-> "medium", healthy_dissent |-> "low"]

Proposal(target, priority, value, change) ==
    [module |-> target.module, name |-> target.name, signal |-> target.signal,
     priority |-> priority, value |-> value, change |-> change]

ThresholdProposals(targets, values) ==
    {Proposal(t, PriorityOf[t.signal], Moved(values[t.name], Strategies[t.name][t.signal]), "parameter_update") :
        t \in {u \in targets :
                 /\ u.category = "threshold"
                 /\ u.name \in Thresholds
                 /\ u.signal \in DOMAIN Strategies[u.name]
                 /\ Moved(values[u.name], Strategies[u.name][u.signal]) # values[u.name]}}

\* Temperatures, models and timeouts of the agents, for some of their signals.
AgentProposals(targets) ==
    {Proposal(t, PriorityOf[t.signal], 0, "config_change") :
        t \in {u \in targets :
                 /\ u.category = "agent_config"
                 /\ \/ u.name = "temperature" /\ u.signal \in {"suspicious_consensus", "compression", "agent_degradation"}
                    \/ u.name \in {"model", "timeout"} /\ u.signal = "agent_degradation"}}

TokenProposals(targets) == {Proposal(t, "medium", 0, "prompt_rewrite") : t \in targets}

\* Only when MAGI has something to complain of.
ArchitectureProposals(recs, hotspots) ==
    IF \E rec \in recs : rec.severity \in {"warning", "critical"}
      THEN {Proposal([module |-> h[1], name |-> h[2], signal |-> "complexity_hotspot"], "low", 0,
                     "architecture_refactor") : h \in hotspots}
      ELSE {}

\* A decline makes what is of medium priority urgent.
Escalated(proposals, trend) ==
    {IF p.priority = "medium" /\ trend = "declining" THEN [p EXCEPT !.priority = "high"] ELSE p : p \in proposals}

\* generate_proposals
Proposals(found, trend, values, recs) ==
    Escalated(ThresholdProposals(found.targets, values) \cup AgentProposals(found.targets)
                  \cup TokenProposals(found.tokens) \cup ArchitectureProposals(recs, found.hotspots),
              trend)

\* _code_optimization_recommendations: by what kind of change, for those that
\* are urgent.
CodeRecommendations(proposals) ==
    {Rec("code_optimization",
         IF \E p \in proposals : p.change = change /\ p.priority = "critical" THEN "warning" ELSE "info", change) :
        change \in {p.change : p \in {q \in proposals : q.priority \in {"high", "critical"}}}}

------------------------------------------------------------------------------

\* A session is scored and indexed.
Index(s) ==
    /\ Len(ledger) < MaxSessions
    /\ ledger' = Append(ledger, Entry(Report(s)))
    /\ UNCHANGED <<source, cycle, adopted>>

\* The process ends while an entry is written.
TearEntry ==
    /\ Len(ledger) < MaxSessions
    /\ ledger' = Append(ledger, Torn)
    /\ UNCHANGED <<source, cycle, adopted>>

\* analyze_with_introspection; thresholds are read from the source.
Analyse ==
    LET entries == Recent(ledger)
        recs == Recommendations(entries)
        trend == Trend(entries)
        batch == Proposals(Introspection(entries), trend, source, recs)
    IN /\ cycle' = [read |-> entries, source |-> source, trend |-> trend,
                    recs |-> recs \cup CodeRecommendations(batch), batch |-> batch]
       /\ UNCHANGED <<ledger, source, adopted>>

\* A maintainer edits a threshold as proposed.
Adopt(p) ==
    /\ adopted < MaxAdopted /\ adopted' = adopted + 1
    /\ p.change = "parameter_update"
    /\ source' = [source EXCEPT ![p.name] = p.value]
    /\ UNCHANGED <<ledger, cycle>>

Init ==
    /\ ledger = <<>>
    /\ source = [QUORUM_THRESHOLD |-> 66, SIMILARITY_THRESHOLD |-> 50]
    /\ cycle = [read |-> <<>>, source |-> source, trend |-> "stable", recs |-> {}, batch |-> {}]
    /\ adopted = 0

Next ==
    \/ \E s \in Sessions : Index(s)
    \/ TearEntry \/ Analyse
    \/ \E p \in cycle.batch : Adopt(p)

Spec == Init /\ [][Next]_vars

------------------------------------------------------------------------------
(* Properties                                                              *)

TypeOK ==
    /\ \A i \in DOMAIN ledger : ledger[i] # Torn =>
          /\ ledger[i].grade \in {"strong", "acceptable", "weak", "suspicious"}
          /\ ledger[i].confidence \in Scale
          /\ ledger[i].signals \subseteq SignalTypes /\ ledger[i].outliers \subseteq ledger[i].agents
    /\ source \in [Thresholds -> 0 .. 100]
    /\ cycle.trend \in {"improving", "declining", "stable"}
    /\ Len(cycle.read) <= Limit
    /\ adopted \in 0 .. MaxAdopted

\* However long proposals are adopted and analysed again: a threshold that is
\* proposed is another than the present one, in the direction and within the
\* bounds of its strategy, so that the injection guard accepts it; every change
\* answers something in the entries that were read; and no two changes are of
\* the same kind and place, of which one would be dropped.
ProposalsBacked ==
    /\ \A p \in cycle.batch :
          IF p.change = "parameter_update"
            THEN LET strategy == Strategies[p.name][p.signal] IN
                 /\ p.value \in strategy.min .. strategy.max
                 /\ IF strategy.up THEN p.value > cycle.source[p.name] ELSE p.value < cycle.source[p.name]
            ELSE TRUE
    /\ \A p \in cycle.batch :
          \/ \E i \in DOMAIN cycle.read : p.signal \in cycle.read[i].signals
          \/ p.signal = "complexity_hotspot" /\ \E rec \in cycle.recs : rec.severity # "info"
    /\ \A p, q \in cycle.batch : <<p.module, p.name, p.change>> = <<q.module, q.name, q.change>> => p = q

\* The other way round, the detectors of four modules fit together: a session
\* of the worst grade that was read leads to a change of either threshold,
\* unless it is at its limit already.
SuspicionAnswered ==
    (\E i \in DOMAIN cycle.read : cycle.read[i].grade = "suspicious") =>
        \A name \in Thresholds :
            LET strategy == Strategies[name].suspicious_consensus IN
            \/ \E p \in cycle.batch : p.name = name /\ p.priority = "critical"
            \/ cycle.source[name] = IF strategy.up THEN strategy.max ELSE strategy.min

\* What is proposed is what the sessions call for: nothing without a reason
\* and nothing dangerous left out.
ProposalsRight == ProposalsBacked /\ SuspicionAnswered

\* "Is confidence improving or declining across recent sessions?"
\* (docs/r2-engine.md:62): the newer half against the older one.  The entries
\* come newest first, and the code compares them the other way round.
TrendTruthful ==
    LET older == Reverse(cycle.read) IN
    /\ cycle.trend = "improving" => HalvesDiffer(older) = "up"
    /\ cycle.trend = "declining" => HalvesDiffer(older) = "down"
=============================================================================
