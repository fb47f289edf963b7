------------------------------ MODULE LanProofs ------------------------------
(* Theorems about LanDiscovery, for any number of sessions and any faults.  *)
EXTENDS LanDiscovery, FiniteSetTheorems, TLAPS

\* No two sessions share a machine.
OneSessionPerHost == \A s, p \in Shards : HostOf[s] = HostOf[p] => s = p

\* A reply in flight is from a shard that knows whoever may receive it.
RepliesKnow ==
    \A m \in net : m.type # "handshake_init" =>
        \A p \in Shards : HostOf[p] = m.host => Known(m.from, p)

\* What a shard holds of its peers, in the types of TypeOK.
PeersOK ==
    /\ adjacency \in [Shards -> [Shards -> AdjacencyState]]
    /\ heard \in [Shards -> SUBSET Shards]
    /\ \A s \in Shards : ~Known(s, s) /\ s \notin heard[s]

\* Nobody is forgotten.
Remembers == \A p, s \in Shards : Known(p, s) => Known(p, s)'

BothWays == TypeOK /\ RepliesKnow /\ ConfirmedBothWays
Backed == BothWays /\ NodeBacked

------------------------------------------------------------------------------
LEMMA InitTyped == Init => TypeOK
  BY LanAssumption DEF Init, TypeOK, Known, AdjacencyState

\* A node is formed of peers that are adjacent, and of a quorum.
LEMMA Evaluated ==
    ASSUME TypeOK, PeersOK', NEW p \in Shards, Evaluate(p)
    PROVE  /\ node' \in [Shards -> SUBSET Shards]
           /\ \A x \in Shards \ {p} : node'[x] = node[x]
           /\ \/ node'[p] = {}
              \/ node'[p] = node[p]
              \/ \E m \in SUBSET Adjacent(p, adjacency', heard') :
                    node'[p] = {p} \cup m /\ Cardinality(m) = NodeQuorum - 1
<1> DEFINE peers == Adjacent(p, adjacency', heard')
           quorate == Cardinality(peers) + 1 >= NodeQuorum
<1>1. peers \in SUBSET Shards
  BY DEF PeersOK, Adjacent
<1>2. CASE quorate /\ node[p] = {}
  <2>1. PICK m \in SUBSET peers :
          node' = [node EXCEPT ![p] = {p} \cup m] /\ Cardinality(m) = NodeQuorum - 1
    BY <1>2 DEF Evaluate, kSubset
  <2>2. node' \in [Shards -> SUBSET Shards] /\ node'[p] = {p} \cup m
        /\ \A x \in Shards \ {p} : node'[x] = node[x]
    BY <1>1, <2>1 DEF TypeOK
  <2> QED
    BY <2>1, <2>2
<1>3. CASE ~(quorate /\ node[p] = {})
  <2>1. node' = [node EXCEPT ![p] = IF quorate THEN @ ELSE {}]
    BY <1>3 DEF Evaluate
  <2> QED
    BY <2>1 DEF TypeOK
<1> QED
  BY <1>2, <1>3

\* A shard hears of another one and changes what it holds of it.
LEMMA Held ==
    ASSUME TypeOK, NEW p \in Shards, NEW s \in Shards \ {p},
           NEW state \in AdjacencyState \ {"unknown"}, Hear(p, s), Hold(p, s, state)
    PROVE  /\ PeersOK' /\ Remembers
           /\ adjacency'[p][s] = state
           /\ \A x, y \in Shards : x # p \/ y # s => adjacency'[x][y] = adjacency[x][y]
  BY DEF TypeOK, Hear, Hold, Known, PeersOK, Remembers

\* Pruning makes peers stale and forgets none.
LEMMA Pruned ==
    ASSUME TypeOK, NEW p \in Shards, Prune(p)
    PROVE  /\ PeersOK' /\ Remembers
           /\ \A x, y \in Shards :
                adjacency'[x][y] = adjacency[x][y] \/ adjacency'[x][y] = "stale"
  BY DEF TypeOK, Prune, Known, PeersOK, Remembers, AdjacencyState

\* What is received is a datagram in flight from another shard, and what is in
\* flight afterwards was before or is a reply to it.
LEMMA Received ==
    ASSUME TypeOK, NEW p \in Shards, NEW m \in net, NEW replies \in SUBSET Datagram,
           Receive(p, m, replies)
    PROVE  /\ m \in Datagram /\ m.from \in Shards \ {p} /\ m.host = HostOf[p]
           /\ net' \in SUBSET Datagram /\ net' \subseteq net \cup replies
           /\ session' \in [Shards -> {"new", "up", "down"}]
           /\ faults' \in Nat /\ outages' \in Nat /\ stops' \in Nat
  BY LanAssumption DEF TypeOK, Receive, Datagram

LEMMA ToTyped ==
    ASSUME NEW type \in MsgType, NEW p \in Shards, NEW s \in Shards
    PROVE  To(type, p, s) \in Datagram
  BY DEF To, Datagram, Hosts

------------------------------------------------------------------------------
\* The steps in which a shard handles something, each with what the proofs
\* need to know of it.

LEMMA BeaconEffect ==
    ASSUME TypeOK, NEW s \in Shards, NEW p \in Shards, Beacon(s, p)
    PROVE  /\ TypeOK' /\ Remembers /\ node' = node
           /\ \A x, y \in Shards :
                adjacency'[x][y] = adjacency[x][y] \/ adjacency'[x][y] = "handshake_sent"
           /\ \A m \in net' : m \in net \/ m.type = "handshake_init"
<1>1. CASE adjacency[p][s] \in {"unknown", "stale"}
  <2>1. PeersOK' /\ Remembers /\ adjacency'[p][s] = "handshake_sent"
        /\ \A x, y \in Shards : x # p \/ y # s => adjacency'[x][y] = adjacency[x][y]
    BY <1>1, Held DEF Beacon, AdjacencyState
  <2>2. To("handshake_init", p, s) \in Datagram /\ To("handshake_init", p, s).type = "handshake_init"
    BY ToTyped DEF MsgType, To
  <2> QED
    BY <1>1, <2>1, <2>2 DEF Beacon, TypeOK, PeersOK, bounds, Known
<1>2. CASE adjacency[p][s] \notin {"unknown", "stale"}
  BY <1>2 DEF Beacon, TypeOK, bounds, Hear, Known, Remembers
<1> QED
  BY <1>1, <1>2

LEMMA InitEffect ==
    ASSUME TypeOK, NEW p \in Shards, NEW m \in net, OnHandshakeInit(p, m)
    PROVE  /\ TypeOK' /\ Remembers /\ node' = node
           /\ \A x, y \in Shards :
                adjacency'[x][y] = adjacency[x][y] \/ adjacency'[x][y] = "handshake_acked"
           /\ Known(p, m.from)' /\ m.from \in Shards
           /\ net' \subseteq net \cup {To("handshake_ack", p, m.from)}
<1>1. m.from \in Shards \ {p}
  BY DEF OnHandshakeInit, Receive, TypeOK, Datagram
<1>2. {To("handshake_ack", p, m.from)} \in SUBSET Datagram
  BY <1>1, ToTyped DEF MsgType
<1>3. /\ net' \in SUBSET Datagram /\ net' \subseteq net \cup {To("handshake_ack", p, m.from)}
      /\ session' \in [Shards -> {"new", "up", "down"}]
      /\ faults' \in Nat /\ outages' \in Nat /\ stops' \in Nat
  BY <1>2, Received DEF OnHandshakeInit
<1>4. /\ PeersOK' /\ Remembers /\ adjacency'[p][m.from] = "handshake_acked"
      /\ \A x, y \in Shards : x # p \/ y # m.from => adjacency'[x][y] = adjacency[x][y]
  BY <1>1, Held DEF OnHandshakeInit, AdjacencyState
<1> QED
  BY <1>1, <1>3, <1>4 DEF OnHandshakeInit, TypeOK, PeersOK, Known

\* A shard takes a reply from a peer it knows: the peer is confirmed.
LEMMA ReplyEffect ==
    ASSUME TypeOK, NEW p \in Shards, NEW m \in net, NEW replies \in SUBSET Datagram,
           Receive(p, m, replies), Known(p, m.from),
           Hear(p, m.from), Hold(p, m.from, "confirmed"), Evaluate(p)
    PROVE  /\ TypeOK' /\ Remembers /\ PeersOK'
           /\ m.from \in Shards /\ m.host = HostOf[p]
           /\ \A x, y \in Shards : x # p \/ y # m.from => adjacency'[x][y] = adjacency[x][y]
           /\ net' \subseteq net \cup replies
<1>1. /\ m.from \in Shards \ {p} /\ m.host = HostOf[p]
      /\ net' \in SUBSET Datagram /\ net' \subseteq net \cup replies
      /\ session' \in [Shards -> {"new", "up", "down"}]
      /\ faults' \in Nat /\ outages' \in Nat /\ stops' \in Nat
  BY Received
<1>2. /\ PeersOK' /\ Remembers
      /\ \A x, y \in Shards : x # p \/ y # m.from => adjacency'[x][y] = adjacency[x][y]
  BY <1>1, Held DEF AdjacencyState
<1>3. node' \in [Shards -> SUBSET Shards]
  BY <1>2, Evaluated
<1> QED
  BY <1>1, <1>2, <1>3 DEF TypeOK, PeersOK

\* A shard takes a reply from one it does not know: nothing happens.
LEMMA StrangerEffect ==
    ASSUME TypeOK, NEW p \in Shards, NEW m \in net, Receive(p, m, {}),
           UNCHANGED <<heard, adjacency, node>>
    PROVE  TypeOK' /\ Remembers /\ net' \subseteq net
<1>1. /\ net' \in SUBSET Datagram /\ net' \subseteq net
      /\ session' \in [Shards -> {"new", "up", "down"}]
      /\ faults' \in Nat /\ outages' \in Nat /\ stops' \in Nat
  BY Received
<1> QED
  BY <1>1 DEF TypeOK, Known, Remembers

LEMMA PruneEffect ==
    ASSUME TypeOK, NEW p \in Shards, Prune(p)
    PROVE  /\ TypeOK' /\ Remembers /\ PeersOK' /\ net' = net
           /\ \A x, y \in Shards :
                adjacency'[x][y] = adjacency[x][y] \/ adjacency'[x][y] = "stale"
<1>1. /\ PeersOK' /\ Remembers
      /\ \A x, y \in Shards :
           adjacency'[x][y] = adjacency[x][y] \/ adjacency'[x][y] = "stale"
  BY Pruned
<1>2. node' \in [Shards -> SUBSET Shards]
  BY <1>1, Evaluated DEF Prune
<1> QED
  BY <1>1, <1>2 DEF Prune, TypeOK, PeersOK, bounds

\* What the network and time do leaves what shards hold of each other alone.
Quiet == UNCHANGED <<adjacency, node>> /\ net' \subseteq net

LEMMA QuietEffect ==
    ASSUME TypeOK,
           \/ \E s \in Shards : Start(s) \/ Stop(s)
           \/ \E s, p \in Shards : Silence(p, s)
           \/ \E m \in net : Lose(m) \/ Vanish(m)
           \/ UNCHANGED vars
    PROVE  TypeOK' /\ Remembers /\ Quiet
<1>1. ASSUME NEW s \in Shards, Start(s) \/ Stop(s)
      PROVE  TypeOK' /\ Remembers /\ Quiet
  BY <1>1 DEF Start, Stop, TypeOK, Known, Remembers, Quiet, bounds
<1>2. ASSUME NEW s \in Shards, NEW p \in Shards, Silence(p, s)
      PROVE  TypeOK' /\ Remembers /\ Quiet
  BY <1>2 DEF Silence, TypeOK, Known, Remembers, Quiet, bounds
<1>3. ASSUME NEW m \in net, Lose(m) \/ Vanish(m)
      PROVE  TypeOK' /\ Remembers /\ Quiet
  BY <1>3 DEF Lose, Vanish, TypeOK, Known, Remembers, Quiet, bounds
<1>4. CASE UNCHANGED vars
  BY <1>4 DEF vars, TypeOK, Known, Remembers, Quiet, bounds
<1> QED
  BY <1>1, <1>2, <1>3, <1>4

\* A step is one of those.
LEMMA StepCases ==
    ASSUME [Next]_vars
    PROVE  \/ \E s, p \in Shards : Beacon(s, p)
           \/ \E p \in Shards, m \in net : Handle(p, m)
           \/ \E p \in Shards : Prune(p)
           \/ \E s \in Shards : Start(s) \/ Stop(s)
           \/ \E s, p \in Shards : Silence(p, s)
           \/ \E m \in net : Lose(m) \/ Vanish(m)
           \/ UNCHANGED vars
  BY DEF Next

\* An acknowledgement or a confirmation from a peer: it is answered, the peer
\* is confirmed; or it is from a stranger and dropped.
Answered(p, m, replies) ==
    /\ Receive(p, m, replies) /\ Known(p, m.from)
    /\ Hear(p, m.from) /\ Hold(p, m.from, "confirmed") /\ Evaluate(p)
Dropped(p, m) == Receive(p, m, {}) /\ UNCHANGED <<heard, adjacency, node>>

LEMMA HandleCases ==
    ASSUME TypeOK, NEW p \in Shards, NEW m \in net, Handle(p, m)
    PROVE  \/ OnHandshakeInit(p, m)
           \/ /\ m.type = "handshake_ack"
              /\ Answered(p, m, {To("handshake_confirm", p, m.from)})
           \/ /\ m.type = "handshake_confirm" /\ Answered(p, m, {})
           \/ Dropped(p, m)
  BY DEF Handle, OnHandshakeAck, OnHandshakeConfirm, Answered, Dropped

LEMMA ReplyTyped ==
    ASSUME TypeOK, NEW p \in Shards, NEW m \in net
    PROVE  {To("handshake_confirm", p, m.from)} \in SUBSET Datagram
  BY ToTyped DEF TypeOK, Datagram, MsgType

LEMMA StepTyped ==
    ASSUME TypeOK, [Next]_vars
    PROVE  TypeOK' /\ Remembers
<1>1. ASSUME NEW s \in Shards, NEW p \in Shards, Beacon(s, p)
      PROVE  TypeOK' /\ Remembers
  BY <1>1, BeaconEffect
<1>2. ASSUME NEW p \in Shards, NEW m \in net, Handle(p, m)
      PROVE  TypeOK' /\ Remembers
  <2>1. CASE OnHandshakeInit(p, m)
    BY <2>1, InitEffect
  <2>2. CASE Answered(p, m, {To("handshake_confirm", p, m.from)})
    BY <2>2, ReplyEffect, ReplyTyped DEF Answered
  <2>3. CASE Answered(p, m, {})
    BY <2>3, ReplyEffect DEF Answered
  <2>4. CASE Dropped(p, m)
    BY <2>4, StrangerEffect DEF Dropped
  <2> QED
    BY <1>2, <2>1, <2>2, <2>3, <2>4, HandleCases
<1>3. ASSUME NEW p \in Shards, Prune(p)
      PROVE  TypeOK' /\ Remembers
  BY <1>3, PruneEffect
<1> QED
  BY <1>1, <1>2, <1>3, QuietEffect, StepCases

\* Every variable keeps its type: whatever is lost, late or repeated, and
\* whichever sessions share a machine.
THEOREM LanTypeCorrect == Spec => []TypeOK
<1>1. Init => TypeOK
  BY InitTyped
<1>2. TypeOK /\ [Next]_vars => TypeOK'
  BY StepTyped
<1> QED
  BY <1>1, <1>2, PTL DEF Spec

------------------------------------------------------------------------------
\* Replies in flight go on being from shards that know whoever may get them:
\* the old ones, since nobody is forgotten, and a new one, since its sender
\* has just heard of the only session on the machine it goes to.
LEMMA RepliesStillKnow ==
    ASSUME OneSessionPerHost, BothWays, TypeOK', Remembers,
           NEW p \in Shards, NEW s \in Shards, NEW type \in MsgType,
           net' \subseteq net \cup {To(type, p, s)}, Known(p, s)'
    PROVE  RepliesKnow'
<1> SUFFICES ASSUME NEW m \in net', m.type # "handshake_init",
                    NEW x \in Shards, HostOf[x] = m.host
             PROVE  Known(m.from, x)'
  BY DEF RepliesKnow
<1>1. CASE m \in net
  <2>1. m.from \in Shards
    BY <1>1 DEF BothWays, TypeOK, Datagram
  <2> QED
    BY <1>1, <2>1 DEF BothWays, RepliesKnow, Remembers
<1>2. CASE m = To(type, p, s)
  BY <1>2 DEF To, OneSessionPerHost
<1> QED
  BY <1>1, <1>2

LEMMA OldRepliesStillKnow ==
    ASSUME BothWays, Remembers, \A m \in net' : m \in net \/ m.type = "handshake_init"
    PROVE  RepliesKnow'
<1> SUFFICES ASSUME NEW m \in net', m.type # "handshake_init",
                    NEW x \in Shards, HostOf[x] = m.host
             PROVE  Known(m.from, x)'
  BY DEF RepliesKnow
<1>1. m \in net /\ m.from \in Shards
  BY DEF BothWays, TypeOK, Datagram
<1> QED
  BY <1>1 DEF BothWays, RepliesKnow, Remembers

\* A step that confirms nobody new leaves adjacencies as they should be.
LEMMA StillConfirmed ==
    ASSUME ConfirmedBothWays, Remembers,
           \A x, y \in Shards : adjacency'[x][y] = adjacency[x][y] \/ adjacency'[x][y] # "confirmed"
    PROVE  ConfirmedBothWays'
  BY DEF ConfirmedBothWays, Remembers

\* A reply that is answered confirms a peer that knows the shard.
LEMMA AnsweredBothWays ==
    ASSUME OneSessionPerHost, BothWays, NEW p \in Shards, NEW m \in net,
           m.type # "handshake_init",
           NEW replies \in SUBSET {To("handshake_confirm", p, m.from)},
           Answered(p, m, replies)
    PROVE  BothWays'
<1>1. replies \in SUBSET Datagram
  BY ReplyTyped DEF BothWays
<1>2. /\ TypeOK' /\ Remembers /\ m.from \in Shards /\ m.host = HostOf[p]
      /\ \A x, y \in Shards : x # p \/ y # m.from => adjacency'[x][y] = adjacency[x][y]
      /\ net' \subseteq net \cup replies
  BY <1>1, ReplyEffect DEF Answered, BothWays
<1>3. Known(m.from, p) /\ Known(p, m.from)
  BY <1>2 DEF BothWays, RepliesKnow, Answered
<1>4. ConfirmedBothWays'
  BY <1>2, <1>3 DEF BothWays, ConfirmedBothWays, Remembers
<1>5. RepliesKnow'
  <2>1. Known(p, m.from)'
    BY <1>2, <1>3 DEF Remembers
  <2>2. net' \subseteq net \cup {To("handshake_confirm", p, m.from)}
    BY <1>2
  <2> QED
    BY <1>2, <2>1, <2>2, RepliesStillKnow DEF MsgType
<1> QED
  BY <1>2, <1>4, <1>5 DEF BothWays

LEMMA StepBothWays ==
    ASSUME OneSessionPerHost, BothWays, [Next]_vars
    PROVE  BothWays'
<1>1. TypeOK' /\ Remembers
  BY StepTyped DEF BothWays
<1>2. ASSUME NEW s \in Shards, NEW p \in Shards, Beacon(s, p)
      PROVE  BothWays'
  <2>1. /\ \A x, y \in Shards :
             adjacency'[x][y] = adjacency[x][y] \/ adjacency'[x][y] = "handshake_sent"
        /\ \A m \in net' : m \in net \/ m.type = "handshake_init"
    BY <1>2, BeaconEffect DEF BothWays
  <2>2. ConfirmedBothWays'
    BY <1>1, <2>1, StillConfirmed DEF BothWays
  <2> QED
    BY <1>1, <2>1, <2>2, OldRepliesStillKnow DEF BothWays
<1>3. ASSUME NEW p \in Shards, NEW m \in net, OnHandshakeInit(p, m)
      PROVE  BothWays'
  <2>1. /\ \A x, y \in Shards :
             adjacency'[x][y] = adjacency[x][y] \/ adjacency'[x][y] = "handshake_acked"
        /\ Known(p, m.from)' /\ m.from \in Shards
        /\ net' \subseteq net \cup {To("handshake_ack", p, m.from)}
    BY <1>3, InitEffect DEF BothWays
  <2>2. ConfirmedBothWays'
    BY <1>1, <2>1, StillConfirmed DEF BothWays
  <2>3. RepliesKnow'
    BY <1>1, <2>1, RepliesStillKnow DEF MsgType
  <2> QED
    BY <1>1, <2>2, <2>3 DEF BothWays
<1>4. ASSUME NEW p \in Shards, NEW m \in net, Dropped(p, m)
      PROVE  BothWays'
  <2>1. net' \subseteq net /\ UNCHANGED adjacency
    BY <1>4, StrangerEffect DEF BothWays, Dropped
  <2>2. ConfirmedBothWays'
    BY <1>1, <2>1, StillConfirmed DEF BothWays
  <2> QED
    BY <1>1, <2>1, <2>2, OldRepliesStillKnow DEF BothWays
<1>5. ASSUME NEW p \in Shards, NEW m \in net, Handle(p, m)
      PROVE  BothWays'
  BY <1>3, <1>4, <1>5, HandleCases, AnsweredBothWays DEF BothWays
<1>6. ASSUME NEW p \in Shards, Prune(p)
      PROVE  BothWays'
  <2>1. /\ \A x, y \in Shards :
             adjacency'[x][y] = adjacency[x][y] \/ adjacency'[x][y] = "stale"
        /\ net' = net
    BY <1>6, PruneEffect DEF BothWays
  <2>2. ConfirmedBothWays'
    BY <1>1, <2>1, StillConfirmed DEF BothWays
  <2> QED
    BY <1>1, <2>1, <2>2, OldRepliesStillKnow DEF BothWays
<1>7. CASE Quiet
  <2>1. ConfirmedBothWays'
    BY <1>1, <1>7, StillConfirmed DEF BothWays, Quiet
  <2> QED
    BY <1>1, <1>7, <2>1, OldRepliesStillKnow DEF BothWays, Quiet
<1> QED
  BY <1>2, <1>5, <1>6, <1>7, QuietEffect, StepCases DEF BothWays

\* With a machine for each session an adjacency is never one-sided, whatever
\* the network does to the datagrams.
THEOREM ConfirmedBothWaysAlways ==
    ASSUME OneSessionPerHost
    PROVE  Spec => []ConfirmedBothWays
<1>1. Init => BothWays
  BY InitTyped DEF Init, BothWays, RepliesKnow, ConfirmedBothWays
<1>2. BothWays /\ [Next]_vars => BothWays'
  BY StepBothWays
<1>3. BothWays => ConfirmedBothWays
  BY DEF BothWays
<1> QED
  BY <1>1, <1>2, <1>3, PTL DEF Spec

------------------------------------------------------------------------------
\* A node that is evaluated again has its quorum, and its members know it.
LEMMA EvaluatedBacked ==
    ASSUME Backed, BothWays', PeersOK', Remembers, NEW p \in Shards, Evaluate(p)
    PROVE  NodeBacked'
<1> SUFFICES ASSUME NEW x \in Shards, node'[x] # {}
             PROVE  /\ x \in node'[x] /\ Cardinality(node'[x]) = NodeQuorum
                    /\ \A s \in node'[x] \ {x} : Known(s, x)'
  BY DEF NodeBacked
<1>1. /\ node' \in [Shards -> SUBSET Shards]
      /\ \A y \in Shards \ {p} : node'[y] = node[y]
      /\ \/ node'[p] = {}
         \/ node'[p] = node[p]
         \/ \E m \in SUBSET Adjacent(p, adjacency', heard') :
               node'[p] = {p} \cup m /\ Cardinality(m) = NodeQuorum - 1
  BY Evaluated DEF Backed, BothWays
<1>2. CASE node'[x] = node[x]
  <2>1. node[x] \subseteq Shards
    BY DEF Backed, BothWays, TypeOK
  <2> QED
    BY <1>2, <2>1 DEF Backed, NodeBacked, Remembers
<1>3. CASE x = p /\ node'[p] # node[p]
  <2>1. PICK m \in SUBSET Adjacent(p, adjacency', heard') :
          node'[p] = {p} \cup m /\ Cardinality(m) = NodeQuorum - 1
    BY <1>1, <1>3
  <2>2. m \subseteq Shards \ {p} /\ \A s \in m : adjacency'[p][s] = "confirmed"
    BY <2>1 DEF Adjacent, PeersOK
  <2>3. IsFiniteSet(m)
    BY <2>2, LanAssumption, FS_Subset
  <2>4. Cardinality({p} \cup m) = NodeQuorum
    <3>1. Cardinality(m \cup {p}) = Cardinality(m) + 1
      BY <2>2, <2>3, FS_AddElement
    <3>2. Cardinality(m) + 1 = NodeQuorum
      BY <2>1, LanAssumption
    <3>3. m \cup {p} = {p} \cup m
      OBVIOUS
    <3> QED
      BY <3>1, <3>2, <3>3, Zenon
  <2>5. \A s \in m : Known(s, p)'
    BY <2>2 DEF BothWays, ConfirmedBothWays
  <2> QED
    BY <1>3, <2>1, <2>4, <2>5
<1> QED
  BY <1>1, <1>2, <1>3

\* A node that is left alone stays backed: nobody is forgotten.
LEMMA StillBacked ==
    ASSUME Backed, Remembers, UNCHANGED node
    PROVE  NodeBacked'
  BY DEF Backed, BothWays, NodeBacked, Remembers, TypeOK

LEMMA StepBacked ==
    ASSUME OneSessionPerHost, Backed, [Next]_vars
    PROVE  Backed'
<1>1. BothWays' /\ Remembers
  BY StepBothWays, StepTyped DEF Backed, BothWays
<1>2. ASSUME NEW s \in Shards, NEW p \in Shards, Beacon(s, p)
      PROVE  NodeBacked'
  BY <1>1, <1>2, BeaconEffect, StillBacked DEF Backed, BothWays
<1>3. ASSUME NEW p \in Shards, NEW m \in net, OnHandshakeInit(p, m)
      PROVE  NodeBacked'
  BY <1>1, <1>3, InitEffect, StillBacked DEF Backed, BothWays
<1>4. ASSUME NEW p \in Shards, NEW m \in net, Dropped(p, m)
      PROVE  NodeBacked'
  BY <1>1, <1>4, StillBacked DEF Dropped
<1>5. ASSUME NEW p \in Shards, NEW m \in net,
             NEW replies \in SUBSET {To("handshake_confirm", p, m.from)},
             Answered(p, m, replies)
      PROVE  NodeBacked'
  <2>1. replies \in SUBSET Datagram
    BY ReplyTyped DEF Backed, BothWays
  <2>2. PeersOK'
    BY <1>5, <2>1, ReplyEffect DEF Answered, Backed, BothWays
  <2> QED
    BY <1>1, <1>5, <2>2, EvaluatedBacked DEF Answered
<1>6. ASSUME NEW p \in Shards, NEW m \in net, Handle(p, m)
      PROVE  NodeBacked'
  BY <1>3, <1>4, <1>5, <1>6, HandleCases DEF Backed, BothWays
<1>7. ASSUME NEW p \in Shards, Prune(p)
      PROVE  NodeBacked'
  <2>1. PeersOK' /\ Evaluate(p)
    BY <1>7, PruneEffect DEF Prune, Backed, BothWays
  <2> QED
    BY <1>1, <2>1, EvaluatedBacked
<1>8. ASSUME Quiet
      PROVE  NodeBacked'
  BY <1>1, <1>8, StillBacked DEF Quiet
<1>9. NodeBacked'
  BY <1>2, <1>6, <1>7, <1>8, QuietEffect, StepCases DEF Backed, BothWays
<1> QED
  BY <1>1, <1>9 DEF Backed

\* With a machine for each session a node is always a quorum of sessions that
\* know each other through the one that reports it.
THEOREM NodeBackedAlways ==
    ASSUME OneSessionPerHost
    PROVE  Spec => []NodeBacked
<1>1. Init => Backed
  BY InitTyped DEF Init, Backed, BothWays, RepliesKnow, ConfirmedBothWays, NodeBacked
<1>2. Backed /\ [Next]_vars => Backed'
  BY StepBacked
<1>3. Backed => NodeBacked
  BY DEF Backed
<1> QED
  BY <1>1, <1>2, <1>3, PTL DEF Spec
==============================================================================
