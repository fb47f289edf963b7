----------------------------- MODULE MCAnalysis -----------------------------
(* Sessions of four agents for Analysis. *)
EXTENDS Analysis, TLC

Agents == {"sol", "aria", "prism", "temp"}

\* All answers "apart" from each other, that of "far" also; "off" the baseline.
Session(apart, far, off, length, quorum) ==
    [agents |-> Agents,
     apart |-> [pair \in {{a, b} : a, b \in Agents} |->
                   IF Cardinality(pair) = 1 THEN 0 ELSE IF "temp" \in pair THEN far ELSE apart],
     headless |-> [a \in Agents |-> off], length |-> [a \in Agents |-> length],
     ncg |-> TRUE, quorum |-> quorum]

Sound == Session(500, 500, 1000, 100, TRUE)
Suspicious == Session(500, 500, 5500, 100, TRUE)
Split == Session(7000, 7000, 5000, 100, FALSE)
OneOut == Session(500, 6000, 2000, 100, TRUE)
Short == Session(500, 500, 2000, 30, TRUE)

MCSessions == {Sound, Suspicious, Split, OneOut, Short}
==============================================================================
