----------------------------- MODULE MCServices -----------------------------
(* Small constants for the components of Services. *)
EXTENDS Services, TLC

MCService == [i \in 0 .. 2 |-> <<"shard-1", "shard-2", "shard-3">>[i + 1]]

MCLayers == [f \in {"f1", "f2"} |-> IF f = "f1" THEN {0, 1} ELSE {2}]
MCAll == {-1}
MCRanges == {{-1}, {2}}

MCCartridge == [m \in {"m1", "m2"} |-> "c1"]
MCBody == [m \in {"m1", "m2"} |-> "b1"]

\* Sessions of four agents, one of whom may stand apart.
Agents == {"sol", "aria", "prism", "temp"}
Session(apart, far, off, length, quorum) ==
    [agents |-> Agents,
     apart |-> [pair \in {{a, b} : a, b \in Agents} |->
                   IF Cardinality(pair) = 1 THEN 0 ELSE IF "temp" \in pair THEN far ELSE apart],
     headless |-> [a \in Agents |-> off], length |-> [a \in Agents |-> length],
     ncg |-> TRUE, quorum |-> quorum]
MCSessions == {Session(500, 500, 5500, 100, TRUE),
               Session(7000, 7000, 5000, 100, FALSE), Session(500, 6000, 2000, 30, TRUE)}

Http(feeds, signed) == [kind |-> "http", feeds |-> feeds, signed |-> signed]
Feed(host, https) == [source |-> host, https |-> https]
MCAdapters == <<[kind |-> "memory", feeds |-> <<>>, signed |-> FALSE],
                Http(<<Feed("a", TRUE), Feed("a", TRUE), Feed("b", FALSE)>>, FALSE),
                Http(<<Feed("b", TRUE)>>, TRUE)>>

MCGiven == [v \in {"key", "remote"} |-> IF v = "key" THEN "k2" ELSE Unset]
Assign(v, key) == [var |-> v, key |-> key]
MCTemplates == {<<>>, <<Assign("key", "k1"), Assign("key", "k2")>>}
=============================================================================
