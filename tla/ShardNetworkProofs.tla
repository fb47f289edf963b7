------------------------- MODULE ShardNetworkProofs -------------------------
(***************************************************************************)
(* Theorems about ShardNetwork: its types, and that the greedy pipeline is *)
(* exact for every registry.                                               *)
(***************************************************************************)
EXTENDS ShardNetwork, Recursion

\* Layers from the first on without a gap.
Prefix(reg) == {l \in 0 .. Layers - 1 : 0 .. l \subseteq Covered(reg)}

\* What build_inference_pipeline computes, gap or not: the layers up to the first
\* gap, in order and with as few hosts as can be.
UpToTheGap ==
    LET enough == {H \in SUBSET Hosted(registry) : Prefix(registry) \subseteq LayersOf(H)}
    IN \A p \in Pipelines(registry) :
           /\ LayersOf({p[i] : i \in DOMAIN p}) = Prefix(registry)
           /\ \A i \in 1 .. Len(p) - 1 :
                  Hi(p[i]) < Hi(p[i + 1]) /\ Lo(p[i + 1]) <= Hi(p[i]) + 1
           /\ \A H \in enough : Len(p) <= Cardinality(H)

\* Dictionaries, as hosts and orchestrator keep them.
LEMMA DeclaredAsIs ==
    ASSUME NEW f, Declared(f)
    PROVE  /\ \A S : S \subseteq DOMAIN f => Declared(Restrict(f, S)) /\ DOMAIN Restrict(f, S) = S
           /\ \A n \in Nodes : \A shards \in Offers[n] :
                 Declared(Put(f, n, shards)) /\ DOMAIN Put(f, n, shards) = DOMAIN f \cup {n}
BY DEF Declared, Restrict, Put

LEMMA TypedInit == Init => TypeOK
<1> SUFFICES ASSUME Init PROVE TypeOK
  OBVIOUS
<1>1. \A f : f = [n \in {} |-> {}] => Declared(f)
  BY DEF Declared
<1>2. <<>> \in Seq(Nodes \X Shard)
  OBVIOUS
<1>3. fetch \in [pc : {"idle", "hop", "failover"}, pipeline : Seq(Nodes \X Shard), hop : Nat]
  BY <1>2 DEF Init, NoFetch
<1>4. fetch.pc = "idle"
  BY DEF Init, NoFetch
<1> QED BY <1>1, <1>3, <1>4, ShardAssumption DEF Init, TypeOK, Up

------------------------------------------------------------------------------
(* Pipelines.                                                              *)

\* The layer that the i-th host of a pipeline from some layer on is for.
At(p, layer, i) == IF i = 1 THEN layer ELSE Hi(p[i - 1]) + 1

\* Each host covers the layer it is for and reaches as far as any that does;
\* none covers the layer after the last.
Chain(p, layer, hosted) ==
    /\ p \in Seq(hosted)
    /\ \A i \in 1 .. Len(p) :
          /\ Lo(p[i]) <= At(p, layer, i) /\ At(p, layer, i) <= Hi(p[i])
          /\ \A h \in hosted : Lo(h) <= At(p, layer, i) /\ At(p, layer, i) <= Hi(h) => Hi(h) <= Hi(p[i])
    /\ \A h \in hosted : ~(Lo(h) <= At(p, layer, Len(p) + 1) /\ At(p, layer, Len(p) + 1) <= Hi(h))

LEMMA HostedWell ==
    ASSUME NEW reg, Declared(reg)
    PROVE  /\ Hosted(reg) \subseteq Nodes \X Shard /\ IsFiniteSet(Hosted(reg))
           /\ \A h \in Hosted(reg) : Lo(h) \in 0 .. Layers - 1 /\ Hi(h) \in 0 .. Layers - 1 /\ Lo(h) <= Hi(h)
<1>1. \A n \in DOMAIN reg : n \in Nodes /\ reg[n] \subseteq Shard
  BY ShardAssumption DEF Declared
<1>2. Hosted(reg) \subseteq Nodes \X Shard
  BY <1>1 DEF Hosted
<1>3. IsFiniteSet(Shard)
  <2>1. IsFiniteSet(0 .. Layers - 1)
    BY ShardAssumption, FS_Interval
  <2>2. IsFiniteSet((0 .. Layers - 1) \X (0 .. Layers - 1))
    BY <2>1, FS_Product
  <2> QED BY <2>2, FS_Subset DEF Shard
<1>4. IsFiniteSet(Nodes \X Shard)
  BY <1>3, ShardAssumption, FS_Product
<1>5. ASSUME NEW h \in Hosted(reg)
      PROVE  Lo(h) \in 0 .. Layers - 1 /\ Hi(h) \in 0 .. Layers - 1 /\ Lo(h) <= Hi(h)
  <2>1. h[2] \in Shard
    BY <1>2
  <2> QED BY <2>1 DEF Lo, Hi, Shard
<1> QED BY <1>2, <1>4, <1>5, FS_Subset

\* The pipelines from a layer on: none if nothing covers it, else the best host
\* for it and the pipelines from the layer after that host's last.
Ways(reg, layer, f) ==
    IF Candidates(reg, layer) = {} THEN {<<>>}
    ELSE UNION {{<<best>> \o rest : rest \in f[Hi(best) + 1]} : best \in Best(Candidates(reg, layer))}

LEMMA PipelinesUnfold ==
    ASSUME NEW reg, Declared(reg)
    PROVE  \E from :
              /\ Pipelines(reg) = from[0]
              /\ \A layer \in 0 .. Layers : from[layer] = Ways(reg, layer, from)
<1> DEFINE H == Hosted(reg)
           T == SUBSET Seq(H)
           F == [0 .. Layers -> T]
           step == [q \in (0 .. Layers) \X F |-> Ways(reg, q[1], q[2])]
           Unfolded(f) == [layer \in 0 .. Layers |-> Ways(reg, layer, f)]
           from == CHOOSE f : f = Unfolded(f)
<1>1. Layers \in Nat /\ \A h \in H : Lo(h) \in 0 .. Layers - 1 /\ Hi(h) \in 0 .. Layers - 1
  BY HostedWell, ShardAssumption
<1>2. \A layer \in 0 .. Layers : \A best \in Best(Candidates(reg, layer)) :
          best \in H /\ Hi(best) + 1 \in 0 .. Layers /\ layer < Hi(best) + 1
  BY <1>1 DEF Best, Candidates
<1>3. ASSUME NEW layer \in 0 .. Layers, NEW f \in F PROVE Ways(reg, layer, f) \in T
  <2>1. \A best \in Best(Candidates(reg, layer)) : \A rest \in f[Hi(best) + 1] : <<best>> \o rest \in Seq(H)
    <3> TAKE best \in Best(Candidates(reg, layer))
    <3>1. best \in H /\ f[Hi(best) + 1] \in T
      BY <1>2
    <3> TAKE rest \in f[Hi(best) + 1]
    <3>2. rest \in Seq(H)
      BY <3>1
    <3> HIDE DEF H
    <3> QED BY <3>1, <3>2
  <2> DEFINE C == Candidates(reg, layer)
             None == {<<>>}
             Via == UNION {{<<best>> \o rest : rest \in f[Hi(best) + 1]} : best \in Best(C)}
  <2>2. None \in T
    OBVIOUS
  <2>3. Via \in T
    <3> SUFFICES ASSUME NEW p \in Via PROVE p \in Seq(H)
      OBVIOUS
    <3>1. PICK best \in Best(C) : p \in {<<best>> \o rest : rest \in f[Hi(best) + 1]}
      OBVIOUS
    <3>2. PICK rest \in f[Hi(best) + 1] : p = <<best>> \o rest
      BY <3>1
    <3> HIDE DEF H
    <3> QED BY <2>1, <3>2
  <2>4. Ways(reg, layer, f) = IF C = {} THEN None ELSE Via
    BY DEF Ways
  <2> HIDE DEF None, Via, T
  <2> QED BY <2>2, <2>3, <2>4
<1>4. step \in [(0 .. Layers) \X F -> T]
  BY <1>3
<1>5. \A layer \in 0 .. Layers, f \in F : step[<<layer, f>>] = Ways(reg, layer, f)
  OBVIOUS
<1>6. ASSUME NEW i \in 0 .. Layers, NEW f \in F, NEW g \in F, \A j \in 0 .. Layers : i < j => f[j] = g[j]
      PROVE  step[<<i, f>>] = step[<<i, g>>]
  <2>1. \A best \in Best(Candidates(reg, i)) : f[Hi(best) + 1] = g[Hi(best) + 1]
    BY <1>2, <1>6
  <2> DEFINE Via(d) == UNION {{<<best>> \o rest : rest \in d[Hi(best) + 1]} : best \in Best(Candidates(reg, i))}
  <2>2. Via(f) = Via(g)
    <3>1. \A best \in Best(Candidates(reg, i)) :
              {<<best>> \o rest : rest \in f[Hi(best) + 1]} = {<<best>> \o rest : rest \in g[Hi(best) + 1]}
      <4> TAKE best \in Best(Candidates(reg, i))
      <4> DEFINE Tails(S) == {<<best>> \o rest : rest \in S}
      <4>1. Tails(f[Hi(best) + 1]) = Tails(g[Hi(best) + 1])
        BY <2>1, Zenon
      <4> QED BY <4>1
    <3> DEFINE Each(d, best) == {<<best>> \o rest : rest \in d[Hi(best) + 1]}
    <3>2. \A best \in Best(Candidates(reg, i)) : Each(f, best) = Each(g, best)
      BY <3>1
    <3> HIDE DEF Each
    <3>3. {Each(f, best) : best \in Best(Candidates(reg, i))} = {Each(g, best) : best \in Best(Candidates(reg, i))}
      BY <3>2
    <3> QED BY <3>3 DEF Each
  <2>3. Ways(reg, i, f) = Ways(reg, i, g)
    BY <2>2 DEF Ways
  <2> QED BY <1>5, <1>6, <2>3
<1>7. T # {}
  OBVIOUS
<1>8. Descents(Layers, T, step) # {}
  <2> HIDE DEF T, step
  <2> QED BY <1>1, <1>4, <1>6, <1>7, DescentExists
<1>9. PICK f \in F : \A layer \in 0 .. Layers : f[layer] = Ways(reg, layer, f)
  <2>1. PICK f \in Descents(Layers, T, step) : TRUE
    BY <1>8
  <2>2. f \in F /\ \A layer \in 0 .. Layers : f[layer] = step[<<layer, f>>]
    BY <2>1 DEF Descents
  <2> HIDE DEF step, F
  <2> QED BY <1>5, <2>2
<1>10. from = Unfolded(from)
  <2>1. f = Unfolded(f)
    BY <1>9
  <2> HIDE DEF Unfolded
  <2> QED BY <2>1
<1>11. Pipelines(reg) = from[0]
  BY DEF Pipelines, Ways
<1> HIDE DEF from
<1>12. \A layer \in 0 .. Layers : from[layer] = Ways(reg, layer, from)
  BY <1>10
<1> QED BY <1>11, <1>12

\* Whatever the order in which best hosts are taken, what comes out is a chain.
LEMMA PipelinesChain ==
    ASSUME NEW reg, Declared(reg)
    PROVE  \A p \in Pipelines(reg) : Chain(p, 0, Hosted(reg))
<1> DEFINE H == Hosted(reg)
<1>1. PICK from : Pipelines(reg) = from[0] /\ \A layer \in 0 .. Layers : from[layer] = Ways(reg, layer, from)
  BY PipelinesUnfold
<1>2. Layers \in Nat \ {0} /\ \A h \in H : Lo(h) \in 0 .. Layers - 1 /\ Hi(h) \in 0 .. Layers - 1
  BY HostedWell, ShardAssumption
<1> DEFINE Good == {m \in 0 .. Layers : \A l \in 0 .. Layers : l >= Layers - m => \A p \in from[l] : Chain(p, l, H)}
<1>3. ASSUME NEW l \in 0 .. Layers, \A k \in 0 .. Layers : k > l => \A p \in from[k] : Chain(p, k, H),
             NEW p \in from[l]
      PROVE  Chain(p, l, H)
  <2> DEFINE C == Candidates(reg, l)
  <2>1. CASE C = {}
    <3>1. p = <<>>
      BY <1>1, <1>3, <2>1 DEF Ways
    <3>2. p \in Seq(H) /\ Len(p) = 0
      BY <3>1
    <3>3. At(p, l, 1) = l
      BY DEF At
    <3>4. \A h \in H : ~(Lo(h) <= l /\ l <= Hi(h))
      BY <2>1 DEF Candidates
    <3> QED BY <3>2, <3>3, <3>4 DEF Chain
  <2>2. CASE C # {}
    <3>1. p \in UNION {{<<best>> \o rest : rest \in from[Hi(best) + 1]} : best \in Best(C)}
      BY <1>1, <1>3, <2>2 DEF Ways
    <3>2. PICK best \in Best(C) : p \in {<<best>> \o rest : rest \in from[Hi(best) + 1]}
      BY <3>1
    <3>3. PICK rest \in from[Hi(best) + 1] : p = <<best>> \o rest
      BY <3>2
    <3>4. /\ best \in H /\ Lo(best) <= l /\ l <= Hi(best) /\ Hi(best) + 1 \in 0 .. Layers
          /\ \A h \in H : Lo(h) <= l /\ l <= Hi(h) => Hi(h) <= Hi(best)
      BY <1>2 DEF Best, Candidates
    <3>5. Chain(rest, Hi(best) + 1, H)
      <4> DEFINE k == Hi(best) + 1
      <4>1. k \in 0 .. Layers /\ k > l /\ rest \in from[k]
        BY <1>2, <3>3, <3>4
      <4> HIDE DEF k, H
      <4>2. Chain(rest, k, H)
        BY <1>3, <4>1
      <4> QED BY <4>2 DEF k
    <3>6. rest \in Seq(H) /\ Len(rest) \in Nat
      BY <3>5 DEF Chain
    <3>7. /\ p \in Seq(H) /\ Len(p) = Len(rest) + 1 /\ p[1] = best
          /\ \A i \in 1 .. Len(rest) : p[i + 1] = rest[i]
      <4> HIDE DEF H
      <4> QED BY <3>3, <3>4, <3>6
    <3>8. \A i \in 1 .. Len(rest) + 1 : At(p, l, i + 1) = At(rest, Hi(best) + 1, i)
      <4> TAKE i \in 1 .. Len(rest) + 1
      <4>1. CASE i = 1
        BY <3>7, <4>1 DEF At
      <4>2. CASE i # 1
        <5>1. i - 1 \in 1 .. Len(rest) /\ p[(i - 1) + 1] = rest[i - 1]
          BY <3>6, <3>7, <4>2
        <5> QED BY <4>2, <5>1 DEF At
      <4> QED BY <4>1, <4>2
    <3>9. At(p, l, 1) = l
      BY DEF At
    <3>10. ASSUME NEW i \in 1 .. Len(p)
           PROVE  /\ Lo(p[i]) <= At(p, l, i) /\ At(p, l, i) <= Hi(p[i])
                  /\ \A h \in H : Lo(h) <= At(p, l, i) /\ At(p, l, i) <= Hi(h) => Hi(h) <= Hi(p[i])
      <4>1. CASE i = 1
        BY <3>4, <3>7, <3>9, <4>1
      <4>2. CASE i # 1
        <5>1. i - 1 \in 1 .. Len(rest) /\ (i - 1) + 1 = i
          BY <3>6, <3>7, <4>2
        <5>2. p[i] = rest[i - 1] /\ At(p, l, i) = At(rest, Hi(best) + 1, i - 1)
          <6> DEFINE j == i - 1
          <6>1. j \in 1 .. Len(rest) /\ j \in 1 .. Len(rest) + 1 /\ j + 1 = i
            BY <3>6, <5>1
          <6> HIDE DEF j
          <6>2. p[i] = rest[j] /\ At(p, l, i) = At(rest, Hi(best) + 1, j)
            BY <3>7, <3>8, <6>1
          <6> QED BY <6>2 DEF j
        <5> QED BY <3>5, <5>1, <5>2 DEF Chain
      <4> QED BY <4>1, <4>2
    <3>11. At(p, l, Len(p) + 1) = At(rest, Hi(best) + 1, Len(rest) + 1)
      BY <3>6, <3>7, <3>8
    <3> HIDE DEF H
    <3> QED BY <3>5, <3>7, <3>10, <3>11 DEF Chain
  <2> QED BY <2>1, <2>2
<1>4. 0 \in Good
  <2>1. \A l \in 0 .. Layers : l >= Layers - 0 => \A p \in from[l] : Chain(p, l, H)
    <3> HIDE DEF H
    <3> QED BY <1>2, <1>3
  <2> QED BY <1>2, <2>1
<1>5. ASSUME NEW m \in 1 .. Layers, m - 1 \in Good PROVE m \in Good
  <2>1. ASSUME NEW l \in 0 .. Layers, l >= Layers - m PROVE \A p \in from[l] : Chain(p, l, H)
    <3>1. \A k \in 0 .. Layers : k > l => \A p \in from[k] : Chain(p, k, H)
      BY <1>2, <1>5, <2>1
    <3> HIDE DEF H
    <3> QED BY <1>3, <3>1
  <2> HIDE DEF H
  <2> QED BY <1>2, <2>1
<1>6. 0 .. Layers \subseteq Good
  <2> HIDE DEF Good
  <2> QED BY <1>2, <1>4, <1>5, Induction
<1> QED BY <1>1, <1>2, <1>6

\* Numbers that rise from each to the next rise throughout.
LEMMA Rising ==
    ASSUME NEW n \in Nat, NEW a \in [1 .. n -> Int], \A i \in 1 .. n - 1 : a[i] < a[i + 1]
    PROVE  \A i, j \in 1 .. n : i < j => a[i] < a[j]
<1> SUFFICES ASSUME NEW i \in 1 .. n PROVE \A j \in 1 .. n : i < j => a[i] < a[j]
  OBVIOUS
<1> DEFINE Good == {m \in 0 .. n : m \in i + 1 .. n => a[i] < a[m]}
<1>1. 0 \in Good
  OBVIOUS
<1>2. ASSUME NEW m \in 1 .. n, m - 1 \in Good PROVE m \in Good
  <2> SUFFICES ASSUME m \in i + 1 .. n PROVE a[i] < a[m]
    OBVIOUS
  <2>1. m - 1 \in 1 .. n - 1 /\ (m - 1) + 1 = m
    OBVIOUS
  <2>2. a[m - 1] < a[m]
    BY <2>1
  <2>3. a[i] \in Int /\ a[m - 1] \in Int /\ a[m] \in Int
    BY <2>1
  <2>4. CASE i = m - 1
    BY <2>2, <2>4
  <2>5. CASE i # m - 1
    <3>1. a[i] < a[m - 1]
      BY <1>2, <2>1, <2>5
    <3> QED BY <2>2, <2>3, <3>1
  <2> QED BY <2>4, <2>5
<1>3. 0 .. n \subseteq Good
  <2> HIDE DEF Good
  <2> QED BY <1>1, <1>2, Induction
<1> QED BY <1>3

\* A chain from layer 0 covers what a prefix can cover, in order, and with no
\* more hosts than are needed.
LEMMA ChainExact ==
    ASSUME NEW reg, Declared(reg), NEW p, Chain(p, 0, Hosted(reg))
    PROVE  /\ LayersOf({p[i] : i \in DOMAIN p}) = Prefix(reg)
           /\ \A i \in 1 .. Len(p) - 1 : Hi(p[i]) < Hi(p[i + 1]) /\ Lo(p[i + 1]) <= Hi(p[i]) + 1
           /\ \A H \in SUBSET Hosted(reg) : Prefix(reg) \subseteq LayersOf(H) => Len(p) <= Cardinality(H)
<1> DEFINE n == Len(p)
           a == [i \in 1 .. n + 1 |-> At(p, 0, i)]
           E == a[n + 1]
<1>1. /\ IsFiniteSet(Hosted(reg)) /\ Layers \in Nat \ {0}
      /\ \A h \in Hosted(reg) : Lo(h) \in 0 .. Layers - 1 /\ Hi(h) \in 0 .. Layers - 1 /\ Lo(h) <= Hi(h)
  BY HostedWell, ShardAssumption
<1>2. p \in Seq(Hosted(reg)) /\ n \in Nat /\ DOMAIN p = 1 .. n
  BY DEF Chain
<1>3. /\ \A i \in 1 .. n : p[i] \in Hosted(reg) /\ Lo(p[i]) <= a[i] /\ a[i] <= Hi(p[i])
      /\ \A i \in 1 .. n : \A h \in Hosted(reg) : Lo(h) <= a[i] /\ a[i] <= Hi(h) => Hi(h) <= Hi(p[i])
      /\ \A h \in Hosted(reg) : ~(Lo(h) <= E /\ E <= Hi(h))
  BY <1>2 DEF Chain
<1>4. a[1] = 0 /\ \A i \in 1 .. n : a[i + 1] = Hi(p[i]) + 1
  <2>1. \A i \in 1 .. n : i + 1 \in 1 .. n + 1 /\ i + 1 # 1 /\ (i + 1) - 1 = i
    BY <1>2
  <2> QED BY <1>2, <2>1 DEF At
<1>5. \A i \in 1 .. n + 1 : i = 1 \/ (i - 1 \in 1 .. n /\ (i - 1) + 1 = i)
  BY <1>2
<1> HIDE DEF n, a
<1>6. a \in [1 .. n + 1 -> Int] /\ \A i \in 1 .. n + 1 : a[i] \in 0 .. Layers
  <2>1. ASSUME NEW i \in 1 .. n + 1 PROVE a[i] \in 0 .. Layers
    <3>1. CASE i = 1
      BY <1>1, <1>4, <3>1
    <3>2. CASE i # 1
      <4> DEFINE k == i - 1
      <4>1. k \in 1 .. n /\ k + 1 = i
        BY <1>5, <3>2
      <4> HIDE DEF k
      <4>2. a[i] = Hi(p[k]) + 1 /\ Hi(p[k]) \in 0 .. Layers - 1
        BY <1>1, <1>3, <1>4, <4>1
      <4> QED BY <1>1, <4>2
    <3> QED BY <3>1, <3>2
  <2> QED BY <2>1 DEF a
<1>7. \A i, j \in 1 .. n + 1 : i < j => a[i] < a[j]
  <2> DEFINE N == n + 1
  <2>1. N \in Nat /\ \A i \in 1 .. N - 1 : i \in 1 .. n
    BY <1>2
  <2>2. \A i \in 1 .. N - 1 : a[i] < a[i + 1]
    <3> TAKE i \in 1 .. N - 1
    <3>1. i \in 1 .. n /\ i \in 1 .. n + 1
      BY <1>2, <2>1
    <3>2. a[i] \in Int /\ Hi(p[i]) \in Int /\ a[i] <= Hi(p[i]) /\ a[i + 1] = Hi(p[i]) + 1
      BY <1>1, <1>3, <1>4, <1>6, <3>1
    <3> QED BY <3>2
  <2> HIDE DEF N
  <2>3. a \in [1 .. N -> Int]
    BY <1>6 DEF N
  <2>4. \A i, j \in 1 .. N : i < j => a[i] < a[j]
    BY <2>1, <2>2, <2>3, Rising
  <2> QED BY <2>4 DEF N
<1>8. E \in 0 .. Layers /\ \A i \in 1 .. n : a[i] < E /\ Hi(p[i]) < E
  <2>1. n + 1 \in 1 .. n + 1
    BY <1>2
  <2>2. ASSUME NEW i \in 1 .. n PROVE a[i] < E /\ Hi(p[i]) < E
    <3>1. i \in 1 .. n + 1 /\ i < n + 1 /\ i + 1 \in 1 .. n + 1 /\ i + 1 <= n + 1
      BY <1>2
    <3>2. a[i + 1] <= E /\ a[i] < E
      <4>1. i + 1 = n + 1 \/ i + 1 < n + 1
        BY <1>2, <3>1
      <4>2. E \in Int
        BY <1>6, <2>1
      <4>3. a[i] < a[n + 1]
        BY <1>7, <2>1, <3>1
      <4>4. CASE i + 1 = n + 1
        BY <4>2, <4>3, <4>4
      <4>5. CASE i + 1 < n + 1
        <5>1. a[i + 1] < a[n + 1]
          BY <1>7, <2>1, <3>1, <4>5
        <5>2. a[i + 1] \in Int
          BY <1>6, <3>1
        <5> QED BY <4>2, <4>3, <5>1, <5>2
      <4> QED BY <4>1, <4>4, <4>5
    <3>3. Hi(p[i]) \in Int /\ a[i + 1] = Hi(p[i]) + 1
      BY <1>1, <1>3, <1>4
    <3> QED BY <1>6, <2>1, <3>2, <3>3
  <2> QED BY <1>6, <2>1, <2>2
<1> DEFINE Ours == {p[i] : i \in DOMAIN p}
           Good == {i \in 0 .. n : 0 .. a[i + 1] - 1 \subseteq LayersOf(Ours)}
<1>9. Ours \subseteq Hosted(reg)
  BY <1>2, <1>3
<1>10. 0 \in Good
  <2>1. 0 \in 0 .. n /\ 0 .. a[0 + 1] - 1 = {}
    BY <1>2, <1>4
  <2> QED BY <2>1
<1>11. ASSUME NEW i \in 1 .. n, i - 1 \in Good PROVE i \in Good
  <2>1. i \in 0 .. n /\ (i - 1) + 1 = i /\ i \in 1 .. n + 1 /\ i + 1 \in 1 .. n + 1
    BY <1>2
  <2>2. 0 .. a[i] - 1 \subseteq LayersOf(Ours)
    BY <1>11, <2>1
  <2>3. a[i + 1] - 1 = Hi(p[i]) /\ Lo(p[i]) <= a[i] /\ a[i] \in Int /\ p[i] \in Ours
        /\ Lo(p[i]) \in Int /\ Hi(p[i]) \in Int
    <3>1. p[i] \in Ours
      BY <1>2
    <3>2. Hi(p[i]) \in Int /\ Lo(p[i]) \in Int /\ Lo(p[i]) <= a[i]
      BY <1>1, <1>3
    <3> QED BY <1>4, <1>6, <2>1, <3>1, <3>2
  <2>4. Lo(p[i]) .. Hi(p[i]) \subseteq LayersOf(Ours)
    BY <2>3 DEF LayersOf
  <2>5. \A l \in 0 .. Hi(p[i]) : l \in 0 .. a[i] - 1 \/ l \in Lo(p[i]) .. Hi(p[i])
    BY <2>3
  <2> HIDE DEF Ours
  <2> QED BY <2>1, <2>2, <2>3, <2>4, <2>5
<1>12. 0 .. E - 1 \subseteq LayersOf(Ours)
  <2>1. 0 .. n \subseteq Good
    <3> HIDE DEF Good
    <3> QED BY <1>2, <1>10, <1>11, Induction
  <2> QED BY <1>2, <2>1
<1>13. LayersOf(Ours) \subseteq 0 .. E - 1
  <2> SUFFICES ASSUME NEW l \in LayersOf(Ours) PROVE l \in 0 .. E - 1
    OBVIOUS
  <2>1. PICK i \in 1 .. n : l \in Lo(p[i]) .. Hi(p[i])
    BY <1>2 DEF LayersOf
  <2>2. Lo(p[i]) \in 0 .. Layers - 1 /\ Hi(p[i]) \in 0 .. Layers - 1 /\ Hi(p[i]) < E
    BY <1>1, <1>3, <1>8
  <2> QED BY <1>8, <2>1, <2>2
<1>14. E \notin Covered(reg)
  <2> SUFFICES ASSUME E \in Covered(reg) PROVE FALSE
    OBVIOUS
  <2>1. PICK h \in Hosted(reg) : E \in Lo(h) .. Hi(h)
    BY DEF Covered, LayersOf
  <2>2. Lo(h) \in Int /\ Hi(h) \in Int
    BY <1>1
  <2> QED BY <1>3, <1>8, <2>1, <2>2
<1>15. LayersOf(Ours) \subseteq Covered(reg)
  BY <1>9 DEF Covered, LayersOf
<1> HIDE DEF Good, Ours
<1>16. Prefix(reg) = 0 .. E - 1
  <2> HIDE DEF E
  <2>1. ASSUME NEW l \in 0 .. E - 1 PROVE l \in Prefix(reg)
    <3>1. l \in 0 .. Layers - 1 /\ 0 .. l \subseteq 0 .. E - 1
      BY <1>1, <1>8
    <3>2. 0 .. l \subseteq Covered(reg)
      BY <1>12, <1>15, <3>1
    <3> QED BY <3>1, <3>2 DEF Prefix
  <2>2. ASSUME NEW l \in Prefix(reg) PROVE l \in 0 .. E - 1
    <3>1. l \in 0 .. Layers - 1 /\ E \notin 0 .. l
      BY <1>14 DEF Prefix
    <3> QED BY <1>1, <1>8, <3>1
  <2> QED BY <2>1, <2>2
<1>17. LayersOf(Ours) = Prefix(reg)
  BY <1>12, <1>13, <1>16
<1>18. ASSUME NEW i \in 1 .. n - 1 PROVE Hi(p[i]) < Hi(p[i + 1]) /\ Lo(p[i + 1]) <= Hi(p[i]) + 1
  <2>1. i \in 1 .. n /\ i + 1 \in 1 .. n
    BY <1>2
  <2>2. a[i + 1] = Hi(p[i]) + 1 /\ Lo(p[i + 1]) <= a[i + 1] /\ a[i + 1] <= Hi(p[i + 1])
    BY <1>3, <1>4, <2>1
  <2>3. Hi(p[i]) \in Int /\ Hi(p[i + 1]) \in Int /\ Lo(p[i + 1]) \in Int
    BY <1>1, <1>3, <2>1
  <2> QED BY <2>2, <2>3
<1>19. ASSUME NEW H \in SUBSET Hosted(reg), Prefix(reg) \subseteq LayersOf(H) PROVE n <= Cardinality(H)
  <2> DEFINE Serves(h, i) == Lo(h) <= a[i] /\ a[i] <= Hi(h)
             f == [i \in 1 .. n |-> CHOOSE h \in H : Serves(h, i)]
  <2>1. \A i \in 1 .. n : \E h \in H : Serves(h, i)
    <3> TAKE i \in 1 .. n
    <3>1. a[i] \in 0 .. E - 1
      <4>1. i \in 1 .. n + 1
        BY <1>2
      <4> QED BY <1>6, <1>8, <4>1
    <3>2. a[i] \in LayersOf(H)
      BY <1>16, <1>19, <3>1
    <3>3. PICK h \in H : a[i] \in Lo(h) .. Hi(h)
      BY <3>2 DEF LayersOf
    <3>4. Lo(h) \in Int /\ Hi(h) \in Int
      BY <1>1
    <3> QED BY <3>3, <3>4
  <2>2. \A i \in 1 .. n : f[i] \in H /\ Serves(f[i], i)
    <3> TAKE i \in 1 .. n
    <3>1. PICK h \in H : Serves(h, i)
      BY <2>1
    <3> HIDE DEF Serves
    <3> QED BY <3>1
  <2>3. f \in [1 .. n -> H]
    BY <2>2
  <2> HIDE DEF f
  <2>4. ASSUME NEW i \in 1 .. n, NEW j \in 1 .. n, i < j PROVE f[i] # f[j]
    <3>1. i \in 1 .. n + 1 /\ j \in 1 .. n + 1 /\ i + 1 \in 1 .. n + 1 /\ i + 1 <= j
      BY <1>2, <2>4
    <3>2. a[i + 1] <= a[j] /\ a[j] \in Int /\ a[i + 1] = Hi(p[i]) + 1
      BY <1>4, <1>6, <1>7, <3>1
    <3>3. f[i] \in Hosted(reg) /\ Hi(f[i]) <= Hi(p[i]) /\ a[j] <= Hi(f[j])
      BY <1>3, <2>2
    <3>4. Hi(f[i]) \in Int /\ Hi(p[i]) \in Int
      BY <1>1, <1>3, <3>3
    <3>5. SUFFICES ASSUME f[i] = f[j] PROVE FALSE
      OBVIOUS
    <3> QED BY <3>2, <3>3, <3>4, <3>5
  <2>5. \A i, j \in 1 .. n : f[i] = f[j] => i = j
    BY <1>2, <2>4
  <2>6. f \in Injection(1 .. n, H)
    BY <2>3, <2>5 DEF Injection, IsInjective
  <2>7. IsFiniteSet(H)
    BY <1>1, FS_Subset
  <2>8. Cardinality(1 .. n) = n
    BY <1>2, FS_Interval
  <2>9. Cardinality(1 .. n) <= Cardinality(H)
    BY <2>6, <2>7, FS_Injection
  <2> QED BY <2>8, <2>9
<1> QED BY <1>17, <1>18, <1>19 DEF n, Ours

\* build_inference_pipeline is exact for every registry of hosts.
LEMMA DeclaredExact == Declared(registry) => UpToTheGap
<1> SUFFICES ASSUME Declared(registry) PROVE UpToTheGap
  OBVIOUS
<1> SUFFICES ASSUME NEW p \in Pipelines(registry)
             PROVE  /\ LayersOf({p[i] : i \in DOMAIN p}) = Prefix(registry)
                    /\ \A i \in 1 .. Len(p) - 1 : Hi(p[i]) < Hi(p[i + 1]) /\ Lo(p[i + 1]) <= Hi(p[i]) + 1
                    /\ \A H \in {H \in SUBSET Hosted(registry) : Prefix(registry) \subseteq LayersOf(H)} :
                          Len(p) <= Cardinality(H)
  BY DEF UpToTheGap
<1>1. Chain(p, 0, Hosted(registry))
  BY PipelinesChain
<1> QED BY <1>1, ChainExact

\* Where no layer is missing, the first gap is behind the last layer.
LEMMA GapAtTheEnd == UpToTheGap => PipelinesExact
<1> SUFFICES ASSUME UpToTheGap, NEW p \in Pipelines(registry)
             PROVE  /\ \A i \in 1 .. Len(p) - 1 : Hi(p[i]) < Hi(p[i + 1]) /\ Lo(p[i + 1]) <= Hi(p[i]) + 1
                    /\ Covered(registry) = AllLayers =>
                          /\ LayersOf(Ran(p)) = AllLayers
                          /\ \A H \in SUBSET Hosted(registry) :
                                LayersOf(H) = AllLayers => Len(p) <= Cardinality(H)
  BY DEF PipelinesExact
<1>1. \A i \in 1 .. Len(p) - 1 : Hi(p[i]) < Hi(p[i + 1]) /\ Lo(p[i + 1]) <= Hi(p[i]) + 1
  BY DEF UpToTheGap
<1>2. ASSUME Covered(registry) = AllLayers
      PROVE  /\ LayersOf(Ran(p)) = AllLayers
             /\ \A H \in SUBSET Hosted(registry) :
                   LayersOf(H) = AllLayers => Len(p) <= Cardinality(H)
  <2>1. Prefix(registry) = AllLayers
    <3>1. \A l \in 0 .. Layers - 1 : 0 .. l \subseteq 0 .. Layers - 1
      BY ShardAssumption
    <3> QED BY <1>2, <3>1 DEF Prefix, AllLayers
  <2>2. Ran(p) = {p[i] : i \in DOMAIN p}
    BY DEF Ran
  <2>3. LayersOf({p[i] : i \in DOMAIN p}) = Prefix(registry)
    BY DEF UpToTheGap
  <2>4. \A H \in {H \in SUBSET Hosted(registry) : Prefix(registry) \subseteq LayersOf(H)} :
            Len(p) <= Cardinality(H)
    BY DEF UpToTheGap
  <2> QED BY <2>1, <2>2, <2>3, <2>4
<1> QED BY <1>1, <1>2

------------------------------------------------------------------------------
(* The types.                                                              *)

\* What the registrations on their way say can be registered.
LEMMA RegisterTyped ==
    ASSUME TypeOK, NEW r \in wire, Register(r[1], r[2])
    PROVE  Declared(registry') /\ Declared(disk') /\ torn' \subseteq Nodes
<1>1. r[1] \in Nodes /\ r[2] \in Offers[r[1]]
  BY DEF TypeOK
<1> QED BY <1>1, DeclaredAsIs DEF TypeOK, Register

LEMMA NoFetchTyped ==
    /\ NoFetch \in [pc : {"idle", "hop", "failover"}, pipeline : Seq(Nodes \X Shard), hop : Nat]
    /\ NoFetch.pc = "idle"
BY DEF NoFetch

\* A hop that is not the last has one after it.
LEMMA OnwardTyped ==
    ASSUME TypeOK, fetch.pc # "idle"
    PROVE  /\ Onward \in [pc : {"idle", "hop", "failover"}, pipeline : Seq(Nodes \X Shard), hop : Nat]
           /\ Onward.pc # "idle" => Onward.hop \in 1 .. Len(Onward.pipeline)
<1>1. /\ fetch \in [pc : {"idle", "hop", "failover"}, pipeline : Seq(Nodes \X Shard), hop : Nat]
      /\ fetch.hop \in 1 .. Len(fetch.pipeline) /\ Len(fetch.pipeline) \in Nat
  BY DEF TypeOK
<1>2. CASE fetch.hop = Len(fetch.pipeline)
  BY <1>2, NoFetchTyped DEF Onward
<1>3. CASE fetch.hop # Len(fetch.pipeline)
  <2>1. Onward = [fetch EXCEPT !.pc = "hop", !.hop = fetch.hop + 1]
    BY <1>3 DEF Onward
  <2>2. Onward.hop = fetch.hop + 1 /\ Onward.pipeline = fetch.pipeline /\ Onward.pc = "hop"
    BY <1>1, <2>1
  <2>3. Onward \in [pc : {"idle", "hop", "failover"}, pipeline : Seq(Nodes \X Shard), hop : Nat]
    <3> DEFINE P == Seq(Nodes \X Shard)
    <3>1. fetch \in [pc : {"idle", "hop", "failover"}, pipeline : P, hop : Nat] /\ fetch.hop + 1 \in Nat
      BY <1>1
    <3> HIDE DEF P
    <3>2. [fetch EXCEPT !.pc = "hop", !.hop = fetch.hop + 1]
              \in [pc : {"idle", "hop", "failover"}, pipeline : P, hop : Nat]
      BY <3>1
    <3> QED BY <2>1, <3>2 DEF P
  <2>4. fetch.hop + 1 \in 1 .. Len(fetch.pipeline)
    BY <1>1, <1>3
  <2> QED BY <2>2, <2>3, <2>4
<1> QED BY <1>2, <1>3

LEMMA TypedStep == TypeOK /\ [Next]_vars => TypeOK'
<1> SUFFICES ASSUME TypeOK, [Next]_vars PROVE TypeOK'
  OBVIOUS
<1> DEFINE Fetches == [pc : {"idle", "hop", "failover"}, pipeline : Seq(Nodes \X Shard), hop : Nat]
           Sent == UNION {{n} \X Offers[n] : n \in Nodes}
<1>1. /\ Declared(loaded) /\ due \subseteq DOMAIN loaded /\ wire \subseteq Sent
      /\ Declared(registry) /\ Declared(disk) /\ torn \subseteq Nodes
      /\ fetch \in Fetches /\ (fetch.pc # "idle" => fetch.hop \in 1 .. Len(fetch.pipeline))
      /\ faults \in 0 .. MaxFaults /\ MaxFaults \in Nat
  BY ShardAssumption DEF TypeOK, Up
<1> DEFINE Typed == /\ Declared(loaded') /\ due' \subseteq DOMAIN loaded' /\ wire' \subseteq Sent
                    /\ Declared(registry') /\ Declared(disk') /\ torn' \subseteq Nodes
                    /\ fetch' \in Fetches /\ (fetch'.pc # "idle" => fetch'.hop \in 1 .. Len(fetch'.pipeline))
                    /\ faults' \in 0 .. MaxFaults
<1>2. SUFFICES Typed
  BY DEF TypeOK, Up, Declared
<1>3. Fault => faults' \in 0 .. MaxFaults
  BY <1>1 DEF Fault
<1>4. \A n \in DOMAIN loaded : <<n, loaded[n]>> \in Sent
  BY <1>1 DEF Declared
<1>5. NoFetch \in Fetches /\ NoFetch.pc = "idle"
  BY NoFetchTyped
<1>6. fetch.pc # "idle" => Onward \in Fetches /\ (Onward.pc # "idle" => Onward.hop \in 1 .. Len(Onward.pipeline))
  BY OnwardTyped
<1> HIDE DEF Fetches, Sent
<1> USE DEF hosts, orchestrator
<1>7. ASSUME NEW n \in Nodes, NEW shards \in Offers[n], StartNode(n, shards) PROVE Typed
  <2>1. <<n, shards>> \in Sent
    BY DEF Sent
  <2>2. Declared(loaded') /\ DOMAIN loaded' = DOMAIN loaded \cup {n}
    BY <1>1, <1>7, DeclaredAsIs DEF StartNode
  <2>3. /\ wire' = wire \cup {<<n, shards>>}
        /\ UNCHANGED <<due, orchestrator, fetch, faults>>
    BY <1>7 DEF StartNode
  <2> QED BY <1>1, <2>1, <2>2, <2>3
<1>8. ASSUME NEW n \in Nodes, StopNode(n) PROVE Typed
  BY <1>1, <1>3, <1>8, DeclaredAsIs DEF StopNode, Up
<1>9. ASSUME NEW n \in Nodes, Tick(n) PROVE Typed
  BY <1>1, <1>9 DEF Tick, Up
<1>10. ASSUME NEW n \in Nodes, Heartbeat(n) PROVE Typed
  BY <1>1, <1>4, <1>10 DEF Heartbeat
<1>11. ASSUME NEW n \in Nodes, Unregister(n) PROVE Typed
  BY <1>1, <1>3, <1>11, DeclaredAsIs DEF Unregister
<1>12. ASSUME NEW n \in Nodes, Failover(n) PROVE Typed
  <2>1. fetch' = NoFetch \/ fetch' = Onward
    BY <1>12 DEF Failover
  <2>2. fetch.pc # "idle"
    BY <1>12 DEF Failover
  <2>3. fetch' \in Fetches /\ (fetch'.pc # "idle" => fetch'.hop \in 1 .. Len(fetch'.pipeline))
    BY <1>5, <1>6, <2>1, <2>2, Zenon
  <2> QED BY <1>1, <1>12, <2>3 DEF Failover
<1>13. ASSUME NEW r \in wire, Deliver(r) PROVE Typed
  <2>1. Declared(registry') /\ Declared(disk') /\ torn' \subseteq Nodes
    BY <1>13, RegisterTyped DEF Deliver
  <2> QED BY <1>1, <1>13, <2>1 DEF Deliver
<1>14. ASSUME NEW r \in wire, DeliverAndAgain(r) PROVE Typed
  <2>1. Declared(registry') /\ Declared(disk') /\ torn' \subseteq Nodes
    BY <1>14, RegisterTyped DEF DeliverAndAgain
  <2> QED BY <1>1, <1>3, <1>14, <2>1 DEF DeliverAndAgain
<1>15. ASSUME NEW r \in wire, Lose(r) PROVE Typed
  BY <1>1, <1>3, <1>15 DEF Lose
<1>16. ASSUME NEW saved \in {{}} \cup {{n} : n \in Nodes}, RestartOrchestrator(saved) PROVE Typed
  <2>1. DOMAIN disk \ torn' \subseteq DOMAIN disk
    OBVIOUS
  <2>2. Declared(registry')
    BY <1>1, <1>16, <2>1, DeclaredAsIs DEF RestartOrchestrator, Load
  <2>3. wire' \subseteq wire /\ torn' \subseteq Nodes
    BY <1>1, <1>16 DEF RestartOrchestrator
  <2> QED BY <1>1, <1>3, <1>5, <1>16, <2>2, <2>3 DEF RestartOrchestrator
<1>17. ASSUME NEW pipeline \in Pipelines(registry), Route(pipeline) PROVE Typed
  <2>1. pipeline \in Seq(Nodes \X Shard)
    <3>1. pipeline \in Seq(Hosted(registry)) /\ Hosted(registry) \subseteq Nodes \X Shard
      BY <1>1, PipelinesChain, HostedWell DEF Chain
    <3> QED BY <3>1
  <2>2. Len(pipeline) \in Nat /\ Len(pipeline) # 0
    BY <1>17, <2>1 DEF Route
  <2>3. fetch' = [pc |-> "hop", pipeline |-> pipeline, hop |-> 1]
    BY <1>17 DEF Route
  <2>4. fetch' \in Fetches /\ fetch'.hop \in 1 .. Len(fetch'.pipeline)
    BY <2>1, <2>2, <2>3 DEF Fetches
  <2> QED BY <1>1, <1>17, <2>4 DEF Route
<1>18. ASSUME NEW ok \in BOOLEAN, Forward(ok) PROVE Typed
  <2>1. fetch.pc = "hop" /\ (fetch' = Onward \/ fetch' = [fetch EXCEPT !.pc = "failover"])
    BY <1>18 DEF Forward
  <2>2. [fetch EXCEPT !.pc = "failover"] \in Fetches
    BY <1>1 DEF Fetches
  <2>3. [fetch EXCEPT !.pc = "failover"].hop = fetch.hop
        /\ [fetch EXCEPT !.pc = "failover"].pipeline = fetch.pipeline
    BY <1>1 DEF Fetches
  <2>4. fetch' \in Fetches /\ (fetch'.pc # "idle" => fetch'.hop \in 1 .. Len(fetch'.pipeline))
    BY <1>1, <1>6, <2>1, <2>2, <2>3
  <2> QED BY <1>1, <1>18, <2>4 DEF Forward
<1>19. ASSUME GiveUp PROVE Typed
  BY <1>1, <1>5, <1>19 DEF GiveUp
<1>20. ASSUME UNCHANGED vars PROVE Typed
  BY <1>1, <1>20 DEF vars
<1> QED BY <1>7, <1>8, <1>9, <1>10, <1>11, <1>12, <1>13, <1>14, <1>15, <1>16, <1>17, <1>18, <1>19, <1>20
        DEF Next

\* Hosts and orchestrator hold what hosts may declare, and an inference is
\* always at a hop of its pipeline.
THEOREM ShardNetworkTypeCorrect == Spec => []TypeOK
<1> QED BY TypedInit, TypedStep, PTL DEF Spec

\* Whatever is registered, heard late, removed or lost in a restart: every
\* pipeline of build_inference_pipeline is in the order of the layers, and covers
\* every layer, with as few hosts as can be, if the registered hosts hold them.
THEOREM PipelinesExactAlways == Spec => []PipelinesExact
<1>1. TypeOK => PipelinesExact
  BY DeclaredExact, GapAtTheEnd DEF TypeOK
<1> QED BY <1>1, ShardNetworkTypeCorrect, PTL
=============================================================================
