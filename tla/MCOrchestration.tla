--------------------------- MODULE MCOrchestration ---------------------------
(* Instances of Orchestration for TLC. *)
EXTENDS Orchestration

CONSTANTS a1, a2, a3, x, y, z

Three == <<a1, a2, a3>>

\* Distances of answers along a line, y between x and z; of failures of two
\* agents, which share all words but the agents' names.
Line(xy, yz, xz, failures) == [t \in Texts |-> [u \in Texts |->
    IF t = Failed /\ u = Failed THEN failures
    ELSE IF t = Failed \/ u = Failed THEN 100
    ELSE IF t = u THEN 0
    ELSE IF {t, u} = {x, y} THEN xy
    ELSE IF {t, u} = {y, z} THEN yz ELSE xz]]

\* x and z are near to y and far from each other; or their mean with y is just
\* below the threshold.
Spread == {Line(40, 45, 80, 40), Line(30, 45, 54, 67)}
==============================================================================
