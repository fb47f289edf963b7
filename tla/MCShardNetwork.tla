--------------------------- MODULE MCShardNetwork ---------------------------
(* Instances of ShardNetwork for TLC. *)
EXTENDS ShardNetwork

CONSTANTS n1, n2, n3

\* Ranges that overlap, that leave a gap, and a host that may come back with
\* other shards.
Overlapping ==
    [n \in Nodes |->
        IF n = n1 THEN {{<<0, 0>>}, {<<0, 1>>, <<3, 3>>}}
        ELSE IF n = n2 THEN {{<<1, 2>>, <<2, 3>>}}
        ELSE {{<<2, 3>>}}]
=============================================================================
