---------------------------- MODULE ShardNetwork ----------------------------
(***************************************************************************)
(* The network of weight hosts (maestro/shard_registry.py,                 *)
(* api_storage.py, node_server.py, agents/shard.py): hosts register and    *)
(* register again as their heartbeat, the orchestrator keeps what it was   *)
(* told in memory and in one file for each host, and an inference visits   *)
(* the hosts of a pipeline built from it.                                  *)
(*                                                                         *)
(* Abstractions.  One model; a shard is its range of layers.  Nothing in   *)
(* the program changes a host's locality, reputation, latency or status    *)
(* once it is registered, so hosts are told apart by layers, and ties,     *)
(* which fall to the order of a dictionary, may fall either way.           *)
(* Activations are not followed: a host is asked and answers or not.       *)
(***************************************************************************)
EXTENDS Integers, FiniteSets, Sequences, Functions

CONSTANTS
    Nodes,        \* weight hosts
    Offers,       \* Offers[n]: the sets of shards n may find in its configuration
    Layers,       \* number of layers of the model
    MaxFaults     \* bound: registrations lost or late, hosts that stop or are
                  \* removed, restarts of the orchestrator

Shard == {s \in (0 .. Layers - 1) \X (0 .. Layers - 1) : s[1] <= s[2]}

ASSUME ShardAssumption ==
    /\ IsFiniteSet(Nodes) /\ Layers \in Nat \ {0}
    /\ Offers \in [Nodes -> SUBSET SUBSET Shard]
    /\ MaxFaults \in Nat

VARIABLES
    loaded,     \* _loaded_shards of each host that runs
    due,        \* hosts whose heartbeat is due
    wire,       \* registrations on their way: pairs of host and shards
    registry,   \* _nodes: the shards each registered host declared
    disk,       \* data/storage_nodes: what each host's file says
    torn,       \* hosts whose file was being written when the process ended
    fetch,      \* the inference in hand
    faults

hosts == <<loaded, due>>
orchestrator == <<registry, disk, torn>>
vars == <<hosts, wire, orchestrator, fetch, faults>>

Fault == faults < MaxFaults /\ faults' = faults + 1

\* A dictionary with a key set.
Put(f, key, value) == [x \in DOMAIN f \cup {key} |-> IF x = key THEN value ELSE f[x]]

------------------------------------------------------------------------------
(* Pipelines                                                               *)

Hosted(reg) == UNION {{n} \X reg[n] : n \in DOMAIN reg}
Lo(h) == h[2][1]
Hi(h) == h[2][2]

LayersOf(hosted) == UNION {Lo(h) .. Hi(h) : h \in hosted}
Covered(reg) == LayersOf(Hosted(reg))

Candidates(reg, layer) == {h \in Hosted(reg) : Lo(h) <= layer /\ layer <= Hi(h)}

\* Slip: the earliest shards are the best, not those that reach furthest.
BestEarliest(candidates) == {h \in candidates : \A k \in candidates : Lo(h) <= Lo(k)}

\* The shards that reach furthest, among them those that begin first.
Best(candidates) ==
    LET furthest == {h \in candidates : \A k \in candidates : Hi(k) <= Hi(h)}
    IN {h \in furthest : \A k \in furthest : Lo(h) <= Lo(k)}

\* From layer 0 on, the best shard for the first layer that is still missing.
Pipelines(reg) ==
    LET from[layer \in 0 .. Layers] ==
            LET candidates == Candidates(reg, layer)
            IN IF candidates = {} THEN {<<>>}
               ELSE UNION {{<<best>> \o rest : rest \in from[Hi(best) + 1]} : best \in Best(candidates)}
    IN from[0]

\* find_nodes_for_shard, as _failover calls it: no host reports which layer it
\* has completed, so it asks for layers 0 to -1, less the host that failed.
Alternatives(failed) == {n \in DOMAIN registry \ {failed} : \E s \in registry[n] : s[1] = 0}

------------------------------------------------------------------------------
(* Hosts                                                                   *)

Up == DOMAIN loaded

\* _load_shard_config, then _register_with_orchestrator.
StartNode(n, shards) ==
    /\ n \notin Up
    /\ loaded' = Put(loaded, n, shards)
    /\ wire' = wire \cup {<<n, shards>>}
    /\ UNCHANGED <<due, orchestrator, fetch, faults>>

\* The host leaves the bus, but no one tells the orchestrator's registry.
StopNode(n) ==
    /\ n \in Up /\ Fault
    /\ loaded' = Restrict(loaded, Up \ {n})
    /\ due' = due \ {n}
    /\ UNCHANGED <<wire, orchestrator, fetch>>

\* HEARTBEAT_INTERVAL passes.
Tick(n) ==
    /\ n \in Up \ due
    /\ due' = due \cup {n}
    /\ UNCHANGED <<loaded, wire, orchestrator, fetch, faults>>

\* A heartbeat is a registration; whether it arrives does not matter to it.
Heartbeat(n) ==
    /\ n \in due
    /\ due' = due \ {n}
    /\ wire' = wire \cup {<<n, loaded[n]>>}
    /\ UNCHANGED <<loaded, orchestrator, fetch, faults>>

Lose(r) ==
    /\ r \in wire /\ Fault
    /\ wire' = wire \ {r}
    /\ UNCHANGED <<hosts, orchestrator, fetch>>

------------------------------------------------------------------------------
(* The orchestrator                                                        *)

\* Slip: a host that is known keeps the shards it first declared.
RegisterOnce(n, shards) ==
    /\ registry' = IF n \in DOMAIN registry THEN registry ELSE Put(registry, n, shards)
    /\ disk' = Put(disk, n, registry'[n])
    /\ torn' = torn \ {n}

\* register_node: the record is replaced as a whole, then saved.
Register(n, shards) ==
    /\ registry' = Put(registry, n, shards)
    /\ disk' = Put(disk, n, shards)
    /\ torn' = torn \ {n}

Deliver(r) ==
    /\ r \in wire
    /\ wire' = wire \ {r}
    /\ Register(r[1], r[2])
    /\ UNCHANGED <<hosts, fetch, faults>>

\* A registration can be slow: it is overtaken, and still arrives.
DeliverAndAgain(r) ==
    /\ r \in wire /\ Fault
    /\ Register(r[1], r[2])
    /\ UNCHANGED <<hosts, wire, fetch>>

\* unregister_node
Unregister(n) ==
    /\ n \in DOMAIN registry /\ Fault
    /\ registry' = Restrict(registry, DOMAIN registry \ {n})
    /\ disk' = Restrict(disk, DOMAIN disk \ {n})
    /\ torn' = torn \ {n}
    /\ UNCHANGED <<hosts, wire, fetch>>

\* _load_nodes passes over a file it cannot read.
Load(files, unreadable) == Restrict(files, DOMAIN files \ unreadable)

NoFetch == [pc |-> "idle", pipeline |-> <<>>, hop |-> 0]

\* The orchestrator ends and starts again, perhaps while it saves the record of
\* a host it was just told of (`saved` is that host, or none).
RestartOrchestrator(saved) ==
    /\ Fault
    /\ \A n \in saved : \E r \in wire : r[1] = n
    /\ torn' = torn \cup saved
    /\ registry' = Load(disk, torn')
    /\ wire' = {r \in wire : r[1] \notin saved}
    /\ fetch' = NoFetch
    /\ UNCHANGED <<hosts, disk>>

------------------------------------------------------------------------------
(* An inference: ShardAgent.fetch                                          *)

\* route_query: the pipeline is built once, at the start.  It is filtered by
\* reputation only where the agent was given a proof engine, which nothing in the
\* program does (the plugin passes None, plugin.py:41).
Route(pipeline) ==
    /\ fetch.pc = "idle"
    /\ pipeline # <<>>    \* else the error text "No weight hosts available"
    /\ fetch' = [pc |-> "hop", pipeline |-> pipeline, hop |-> 1]
    /\ UNCHANGED <<hosts, wire, orchestrator, faults>>

\* Slip: one hop too many.
OnwardLate ==
    IF fetch.hop > Len(fetch.pipeline) THEN NoFetch
    ELSE [fetch EXCEPT !.pc = "hop", !.hop = @ + 1]

\* The result of a hop becomes the input of the next, or is decoded.
Onward ==
    IF fetch.hop = Len(fetch.pipeline) THEN NoFetch
    ELSE [fetch EXCEPT !.pc = "hop", !.hop = @ + 1]

\* _forward_to_node: it answers, or the call raises.
Forward(ok) ==
    /\ fetch.pc = "hop"
    /\ IF ok THEN fetch.pipeline[fetch.hop][1] \in Up /\ fetch' = Onward
             ELSE fetch' = [fetch EXCEPT !.pc = "failover"]
    /\ UNCHANGED <<hosts, wire, orchestrator, faults>>

\* _failover looks in the registry as it is now; what it raises ends the
\* pipeline with an error text.
Failover(n) ==
    /\ fetch.pc = "failover"
    /\ n \in Alternatives(fetch.pipeline[fetch.hop][1])
    /\ fetch' \in {NoFetch} \cup {Onward : m \in Up \cap {n}}
    /\ UNCHANGED <<hosts, wire, orchestrator, faults>>

GiveUp ==
    /\ fetch.pc = "failover"
    /\ Alternatives(fetch.pipeline[fetch.hop][1]) = {}
    /\ fetch' = NoFetch
    /\ UNCHANGED <<hosts, wire, orchestrator, faults>>

------------------------------------------------------------------------------

Init ==
    /\ loaded = [n \in {} |-> {}] /\ due = {} /\ wire = {}
    /\ registry = [n \in {} |-> {}] /\ disk = [n \in {} |-> {}] /\ torn = {}
    /\ fetch = NoFetch
    /\ faults = 0

Next ==
    \/ \E n \in Nodes :
          \/ \E shards \in Offers[n] : StartNode(n, shards)
          \/ StopNode(n) \/ Tick(n) \/ Heartbeat(n) \/ Unregister(n) \/ Failover(n)
    \/ \E r \in wire : Deliver(r) \/ DeliverAndAgain(r) \/ Lose(r)
    \/ \E saved \in {{}} \cup {{n} : n \in Nodes} : RestartOrchestrator(saved)
    \/ \E pipeline \in Pipelines(registry) : Route(pipeline)
    \/ \E ok \in BOOLEAN : Forward(ok)
    \/ GiveUp

Spec == Init /\ [][Next]_vars

\* A host that runs goes on sending heartbeats, and the network brings what it
\* does not lose.
Fairness ==
    /\ \A n \in Nodes : WF_vars(Tick(n)) /\ WF_vars(Heartbeat(n))
    /\ \A n \in Nodes : \A shards \in Offers[n] : WF_vars(Deliver(<<n, shards>>))

FairSpec == Spec /\ Fairness

------------------------------------------------------------------------------
(* Properties                                                              *)

\* Some hosts, each with shards it may hold.
Declared(f) ==
    /\ f = [n \in DOMAIN f |-> f[n]]
    /\ DOMAIN f \subseteq Nodes
    /\ \A n \in DOMAIN f : f[n] \in Offers[n]

TypeOK ==
    /\ Declared(loaded) /\ due \subseteq Up
    /\ wire \subseteq UNION {{n} \X Offers[n] : n \in Nodes}
    /\ Declared(registry) /\ Declared(disk) /\ torn \subseteq Nodes
    /\ fetch \in [pc : {"idle", "hop", "failover"}, pipeline : Seq(Nodes \X Shard),
                  hop : Nat]
    /\ fetch.pc # "idle" => fetch.hop \in 1 .. Len(fetch.pipeline)
    /\ faults \in 0 .. MaxFaults

AllLayers == 0 .. Layers - 1
Ran(p) == {p[i] : i \in DOMAIN p}

\* Whatever is registered, heard late, removed or lost in a restart: a pipeline of
\* build_inference_pipeline goes through the layers in order, and where the
\* registered hosts hold every layer of the model it covers every layer, greedy
\* as it is, with as few hosts as can be ("minimize hops", shard_registry.py:245).
\* What it returns where a layer is missing is FullCoverageOrNothing's subject.
PipelinesExact ==
    \A p \in Pipelines(registry) :
        /\ \A i \in 1 .. Len(p) - 1 :
              Hi(p[i]) < Hi(p[i + 1]) /\ Lo(p[i + 1]) <= Hi(p[i]) + 1
        /\ Covered(registry) = AllLayers =>
              /\ LayersOf(Ran(p)) = AllLayers
              /\ \A H \in SUBSET Hosted(registry) :
                    LayersOf(H) = AllLayers => Len(p) <= Cardinality(H)

\* Whatever is lost, late or removed, and however often the orchestrator ends:
\* a host that goes on running comes to be registered with the shards it holds,
\* for good.
RegisteredInTheEnd ==
    \A n \in Nodes : \A shards \in Offers[n] :
        (<>[](n \in Up /\ loaded[n] = shards))
            => <>[](n \in DOMAIN registry /\ registry[n] = shards)

------------------------------------------------------------------------------
\* shard_registry.py:247 "Returns: list[WeightHost] in layer order, or empty list
\* if full coverage cannot be assembled": a pipeline that is not empty covers
\* every layer that any registered host holds, let alone the model's.  The code
\* stops at the first gap and returns what it has, which fetch then runs.
FullCoverageOrNothing ==
    \A p \in Pipelines(registry) : p # <<>> => LayersOf(Ran(p)) = Covered(registry)
=============================================================================
