----------------------------- MODULE MCDownloads ----------------------------
(* Two files of a model, the second with its last layer. *)
EXTENDS Downloads

MCLayers == [f \in {"f1", "f2"} |-> IF f = "f1" THEN {0, 1} ELSE {2}]
MCAll == {-1}
MCRanges == {{0, 1}}
=============================================================================
