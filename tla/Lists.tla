-------------------------------- MODULE Lists --------------------------------
(***************************************************************************)
(* What Python's comprehensions do to a list, in a form that a proof can   *)
(* open: the elements that a set stands for are kept, in their order.      *)
(***************************************************************************)
EXTENDS Sequences, SequencesExt

\* [e for e in list if e in wanted]
Keep(list, wanted) ==
    FoldLeft(LAMBDA kept, e : IF e \in wanted THEN Append(kept, e) ELSE kept, <<>>, list)
==============================================================================
