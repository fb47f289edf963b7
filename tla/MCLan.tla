-------------------------------- MODULE MCLan --------------------------------
(* An instance of LanDiscovery for TLC. *)
EXTENDS LanDiscovery

OwnHost == [s \in Shards |-> s]          \* one session on each machine
==============================================================================
