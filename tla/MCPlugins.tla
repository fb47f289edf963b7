----------------------------- MODULE MCPlugins -----------------------------
(* Instances of Plugins for TLC. *)
EXTENDS Plugins

CONSTANTS p1, p2, p3

\* p3 needs p2, p2 needs p1; with its other manifest p1 needs p3.
Chain == [p \in Plugins |-> IF p = p1 THEN {<<>>, <<p3>>} ELSE IF p = p2 THEN {<<p1>>} ELSE {<<p2>>}]
=============================================================================
