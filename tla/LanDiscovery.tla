---------------------------- MODULE LanDiscovery ----------------------------
(***************************************************************************)
(* LAN shard discovery (maestro/lan_discovery.py): every session is a      *)
(* shard with an event loop of its own; shards broadcast beacons, shake    *)
(* hands over UDP and, with a quorum of adjacent peers, form a node.       *)
(*                                                                         *)
(* One action is one callback of one shard's event loop: a datagram        *)
(* handled, a turn of the prune loop.  Datagrams are lost, duplicated and  *)
(* reordered; a shard stops for good (it comes back under a new uid, as    *)
(* another member of Shards).                                              *)
(*                                                                         *)
(* Abstractions.  Time is seen through is_alive only: heard[p] is the set  *)
(* of peers whose last datagram is less than STALE_TIMEOUT old, and        *)
(* Silence is the passing of that time.  A beacon that is lost is one that *)
(* does not arrive; one that arrives does so at once, so that beacons are  *)
(* not in "net".  Two equal datagrams in flight are one.  DISCOVERED lasts *)
(* only within a handler.  Names, versions and latencies are left out.     *)
(***************************************************************************)
EXTENDS Integers, FiniteSets, FiniteSetsExt

CONSTANTS
    Shards,       \* uids of the sessions there will ever be
    HostOf,       \* the machine each of them runs on
    NodeQuorum,   \* NODE_QUORUM
    MaxFaults,    \* bound: datagrams lost or duplicated
    MaxOutages,   \* bound: silences of a peer that runs
    MaxStops      \* bound: sessions that stop

Hosts == {HostOf[s] : s \in Shards}
AdjacencyState ==
    {"unknown", "handshake_sent", "handshake_acked", "confirmed", "stale"}
MsgType == {"handshake_init", "handshake_ack", "handshake_confirm"}

\* A directed datagram goes to a machine; the target_uid it carries is read by
\* nobody.
Datagram == [type : MsgType, from : Shards, host : Hosts]

ASSUME LanAssumption ==
    /\ IsFiniteSet(Shards)
    /\ HostOf \in [Shards -> Hosts]
    /\ NodeQuorum \in Nat \ {0}
    /\ MaxFaults \in Nat /\ MaxOutages \in Nat /\ MaxStops \in Nat

VARIABLES
    session,    \* is the session yet to be started, up, or down
    adjacency,  \* engine.peers: what each shard holds of each other one
    heard,      \* the peers that are alive (is_alive) for each shard
    node,       \* node_status.member_uids; empty when no node is formed
    net,        \* directed datagrams in flight
    faults, outages, stops   \* counters the bounds refer to

bounds == <<faults, outages, stops>>
vars == <<session, adjacency, heard, node, net, bounds>>

Up(s) == session[s] = "up"
Known(p, s) == adjacency[p][s] # "unknown"
To(type, p, s) == [type |-> type, from |-> p, host |-> HostOf[s]]

------------------------------------------------------------------------------
\* Slip (what a bug would do; no action uses it): peers count that are alive.
AdjacentAlive(p, adj, alive) == {s \in Shards \ {p} : s \in alive[p] /\ adj[p][s] # "unknown"}

\* adjacent_peers: confirmed and alive.
Adjacent(p, adj, alive) == {s \in alive[p] : adj[p][s] = "confirmed"}

\* _evaluate_node_status: a node is formed of the first peers in the order of
\* discovery, here any of them; who its members are is not looked at again
\* until it dissolves.
Evaluate(p) ==
    LET peers == Adjacent(p, adjacency', heard')
        quorate == Cardinality(peers) + 1 >= NodeQuorum
    IN IF quorate /\ node[p] = {}
         THEN \E m \in kSubset(NodeQuorum - 1, peers) : node' = [node EXCEPT ![p] = {p} \cup m]
         ELSE node' = [node EXCEPT ![p] = IF quorate THEN @ ELSE {}]

Hear(p, s) == heard' = [heard EXCEPT ![p] = @ \cup {s}]
Hold(p, s, state) == adjacency' = [adjacency EXCEPT ![p][s] = state]

------------------------------------------------------------------------------
(* Sessions.                                                               *)

Start(s) ==
    /\ session[s] = "new"
    /\ session' = [session EXCEPT ![s] = "up"]
    /\ UNCHANGED <<adjacency, heard, node, net, bounds>>

Stop(s) ==
    /\ Up(s) /\ stops < MaxStops
    /\ stops' = stops + 1
    /\ session' = [session EXCEPT ![s] = "down"]
    /\ UNCHANGED <<adjacency, heard, node, net, faults, outages>>

------------------------------------------------------------------------------
(* Handlers.                                                               *)

\* Slip: the shard's own beacon is not ignored.
BeaconOwn(s, p) ==
    /\ Up(s) /\ Up(p)
    /\ Hear(p, s)
    /\ IF adjacency[p][s] \in {"unknown", "stale"}
         THEN /\ net' = net \cup {To("handshake_init", p, s)}
              /\ Hold(p, s, "handshake_sent")
         ELSE UNCHANGED <<net, adjacency>>
    /\ UNCHANGED <<session, node, bounds>>

\* A beacon of s reaches p (_send_beacon, _on_beacon): a peer that is new or
\* was given up is sent a handshake (_initiate_handshake), any other is only
\* known to be alive.
Beacon(s, p) ==
    /\ Up(s) /\ Up(p) /\ s # p
    /\ Hear(p, s)
    /\ IF adjacency[p][s] \in {"unknown", "stale"}
         THEN /\ net' = net \cup {To("handshake_init", p, s)}
              /\ Hold(p, s, "handshake_sent")
         ELSE UNCHANGED <<net, adjacency>>
    /\ UNCHANGED <<session, node, bounds>>

\* A datagram reaches a session of the machine it was sent to, other than its
\* sender, with what it is answered by; it may come once more.
Receive(p, m, replies) ==
    /\ m \in net /\ Up(p) /\ HostOf[p] = m.host /\ p # m.from
    /\ \/ net' = (net \ {m}) \cup replies /\ UNCHANGED faults
       \/ faults < MaxFaults /\ faults' = faults + 1 /\ net' = net \cup replies
    /\ UNCHANGED <<session, outages, stops>>

\* Slip: only a peer known already is tracked.
OnHandshakeInitUntracked(p, m) ==
    /\ m.type = "handshake_init"
    /\ Receive(p, m, {To("handshake_ack", p, m.from)})
    /\ IF Known(p, m.from) THEN Hear(p, m.from) /\ Hold(p, m.from, "handshake_acked")
                           ELSE UNCHANGED <<heard, adjacency>>
    /\ UNCHANGED node

\* _on_handshake_init: whatever the peer was, it is acknowledged; the node is
\* not evaluated again.
OnHandshakeInit(p, m) ==
    /\ m.type = "handshake_init"
    /\ Receive(p, m, {To("handshake_ack", p, m.from)})
    /\ Hear(p, m.from)
    /\ Hold(p, m.from, "handshake_acked")
    /\ UNCHANGED node

\* Slip: the acknowledgement is not confirmed.
OnHandshakeAckSilent(p, m) ==
    /\ m.type = "handshake_ack"
    /\ Receive(p, m, {})
    /\ IF Known(p, m.from)
         THEN Hear(p, m.from) /\ Hold(p, m.from, "confirmed") /\ Evaluate(p)
         ELSE UNCHANGED <<heard, adjacency, node>>

\* _on_handshake_ack: taken from any peer that is known, whether or not a
\* handshake with it is under way.
OnHandshakeAck(p, m) ==
    /\ m.type = "handshake_ack"
    /\ IF Known(p, m.from)
         THEN /\ Receive(p, m, {To("handshake_confirm", p, m.from)})
              /\ Hear(p, m.from) /\ Hold(p, m.from, "confirmed") /\ Evaluate(p)
         ELSE Receive(p, m, {}) /\ UNCHANGED <<heard, adjacency, node>>

\* _on_handshake_confirm: likewise.
OnHandshakeConfirm(p, m) ==
    /\ m.type = "handshake_confirm"
    /\ Receive(p, m, {})
    /\ IF Known(p, m.from)
         THEN Hear(p, m.from) /\ Hold(p, m.from, "confirmed") /\ Evaluate(p)
         ELSE UNCHANGED <<heard, adjacency, node>>

Handle(p, m) == OnHandshakeInit(p, m) \/ OnHandshakeAck(p, m) \/ OnHandshakeConfirm(p, m)

\* Slip: the node is not evaluated again.
PruneOnly(p) ==
    /\ Up(p)
    /\ adjacency' = [adjacency EXCEPT ![p] = [s \in Shards |->
                        IF Known(p, s) /\ s \notin heard[p] THEN "stale" ELSE @[s]]]
    /\ UNCHANGED <<session, heard, node, net, bounds>>

\* Slip: only confirmed peers are pruned.
PruneConfirmed(p) ==
    /\ Up(p)
    /\ adjacency' = [adjacency EXCEPT ![p] = [s \in Shards |->
                        IF @[s] = "confirmed" /\ s \notin heard[p] THEN "stale" ELSE @[s]]]
    /\ UNCHANGED <<session, heard, net, bounds>>
    /\ Evaluate(p)

\* A turn of _prune_loop.
Prune(p) ==
    /\ Up(p)
    /\ adjacency' = [adjacency EXCEPT ![p] = [s \in Shards |->
                        IF Known(p, s) /\ s \notin heard[p] THEN "stale" ELSE @[s]]]
    /\ UNCHANGED <<session, heard, net, bounds>>
    /\ Evaluate(p)

------------------------------------------------------------------------------
(* The network and time.                                                   *)

Lose(m) ==
    /\ m \in net /\ faults < MaxFaults
    /\ faults' = faults + 1
    /\ net' = net \ {m}
    /\ UNCHANGED <<session, adjacency, heard, node, outages, stops>>

\* A datagram for a machine with no other session on it than its sender's.
Vanish(m) ==
    /\ m \in net
    /\ ~\E p \in Shards \ {m.from} : Up(p) /\ HostOf[p] = m.host
    /\ net' = net \ {m}
    /\ UNCHANGED <<session, adjacency, heard, node, bounds>>

\* STALE_TIMEOUT has passed since p last heard of s.
Silence(p, s) ==
    /\ s \in heard[p]
    /\ IF Up(s) THEN outages < MaxOutages /\ outages' = outages + 1 ELSE UNCHANGED outages
    /\ heard' = [heard EXCEPT ![p] = @ \ {s}]
    /\ UNCHANGED <<session, adjacency, node, net, faults, stops>>

Init ==
    /\ session = [s \in Shards |-> "new"]
    /\ adjacency = [p \in Shards |-> [s \in Shards |-> "unknown"]]
    /\ heard = [p \in Shards |-> {}]
    /\ node = [p \in Shards |-> {}]
    /\ net = {}
    /\ faults = 0 /\ outages = 0 /\ stops = 0

Next ==
    \/ \E s \in Shards : Start(s) \/ Stop(s) \/ Prune(s)
    \/ \E s, p \in Shards : Beacon(s, p) \/ Silence(p, s)
    \/ \E p \in Shards, m \in net : Handle(p, m)
    \/ \E m \in net : Lose(m) \/ Vanish(m)

Spec == Init /\ [][Next]_vars

\* A running session sends beacons and prunes for ever, an event loop gets to
\* every datagram that is there, and time passes.
Fairness ==
    /\ \A p \in Shards : WF_vars(Prune(p))
    /\ \A s, p \in Shards : WF_vars(Beacon(s, p)) /\ WF_vars(~Up(s) /\ Silence(p, s))
    /\ \A m \in Datagram : WF_vars(Vanish(m) \/ \E p \in Shards : Handle(p, m))

FairSpec == Spec /\ Fairness

------------------------------------------------------------------------------
\* Every variable has its type; a shard is no peer of its own.
TypeOK ==
    /\ session \in [Shards -> {"new", "up", "down"}]
    /\ adjacency \in [Shards -> [Shards -> AdjacencyState]]
    /\ heard \in [Shards -> SUBSET Shards]
    /\ node \in [Shards -> SUBSET Shards]
    /\ net \in SUBSET Datagram
    /\ faults \in Nat /\ outages \in Nat /\ stops \in Nat
    /\ \A s \in Shards : ~Known(s, s) /\ s \notin heard[s]

\* An adjacency is never one-sided: whatever datagrams are lost, duplicated or
\* late, a shard holds a peer for confirmed only if that peer knows it too
\* (lan_discovery.py:83 "full bidirectional adjacency").
ConfirmedBothWays ==
    \A p, s \in Shards : adjacency[p][s] = "confirmed" => Known(s, p)

\* A node has exactly the quorum of members, the shard itself among them, and
\* every other member knows the shard (NODE_QUORUM "shards needed for a full
\* Maestro Node"), however its members' states changed since.
NodeBacked ==
    \A p \in Shards : node[p] # {} =>
        /\ p \in node[p] /\ Cardinality(node[p]) = NodeQuorum
        /\ \A s \in node[p] \ {p} : Known(s, p)

\* Two sessions that run become adjacent, unless one stops or a datagram was
\* lost or came twice: a handshake that is broken off is not begun again.
AdjacencyForms ==
    \A p, s \in Shards : p # s =>
        (Up(p) /\ Up(s) ~> adjacency[p][s] = "confirmed" \/ ~Up(p) \/ ~Up(s) \/ faults > 0)

\* A session that stops is eventually given up by all, for good.
StoppedGivenUp ==
    \A p, s \in Shards :
        session[s] = "down" ~> [](Up(p) => adjacency[p][s] \in {"unknown", "stale"})

\* In the end a session reports a node exactly if a quorum of sessions runs,
\* unless a datagram was lost or came twice.
NodeSettles ==
    \A p \in Shards :
        <>[](faults = 0 /\ Up(p) => (node[p] # {} <=> Cardinality({s \in Shards : Up(s)}) >= NodeQuorum))
==============================================================================
