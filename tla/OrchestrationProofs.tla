------------------------- MODULE OrchestrationProofs -------------------------
(***************************************************************************)
(* Theorems about Orchestration: its types, what agents are shown and who  *)
(* stays out of deliberation, for every council and any number of rounds,  *)
(* that the interleaved pipeline implements Council, and what is reported  *)
(* of the quorum: whose views, and how near its members are to each other. *)
(***************************************************************************)
EXTENDS Orchestration, Recursion

(* What is reported of the quorum.                                         *)

\* A total goes through those of the first numbers.
Totals(numbers) ==
    {f \in [0 .. Len(numbers) -> Nat] :
        f[0] = 0 /\ \A i \in 1 .. Len(numbers) : f[i] = f[i - 1] + numbers[i]}

\* There is such a run to every total.
LEMMA TotalRuns ==
    ASSUME NEW numbers \in Seq(Nat)
    PROVE  \E f \in Totals(numbers) : Total(numbers) = f[Len(numbers)]
<1> DEFINE n == Len(numbers)
           Add(sum, i) == sum + numbers[i]
           step == [p \in Nat \X (1 .. n) |-> Add(p[1], p[2])]
           Unfolded(f) == [s \in SUBSET (1 .. n) |-> IF s = {} THEN 0 ELSE Add(f[s \ {Max(s)}], Max(s))]
           fold == CHOOSE f : f = Unfolded(f)
<1>1. n \in Nat /\ 1 .. n = DOMAIN numbers /\ 0 \in Nat
  OBVIOUS
<1>2. step \in [Nat \X (1 .. n) -> Nat]
  OBVIOUS
<1>3. \A sum \in Nat, i \in 1 .. n : step[<<sum, i>>] = Add(sum, i)
  OBVIOUS
<1>4. Total(numbers) = fold[1 .. n]
  BY <1>1 DEF Total, FoldLeft, MapThenFoldSet
<1> HIDE DEF n, step, Add
<1>5. PICK f \in FromTheEnd(n, Nat, 0, step) : TRUE
  BY <1>1, <1>2, FoldLeftExists
<1>6. \A s \in SUBSET (1 .. n) : s # {} => Max(s) \in 1 .. n
  BY <1>1, LastOfFirst
<1>7. f = Unfolded(f)
  BY <1>3, <1>5, <1>6 DEF FromTheEnd
<1>8. fold = Unfolded(fold)
  <2> HIDE DEF Unfolded
  <2> QED BY <1>7
<1> HIDE DEF fold
<1>9. fold[{}] = 0 /\ \A s \in SUBSET (1 .. n) : s # {} => fold[s] = Add(fold[s \ {Max(s)}], Max(s))
  BY <1>8
<1>10. Follows(fold, n, Nat, 0, step)
  <2>1. ASSUME NEW s \in SUBSET (1 .. n), s # {}, fold[s \ {Max(s)}] \in Nat
        PROVE  fold[s] = step[<<fold[s \ {Max(s)}], Max(s)>>]
    BY <1>3, <1>6, <1>9, <2>1
  <2> QED BY <1>9, <2>1 DEF Follows
<1>11. PICK g \in Runs(n, Nat, 0, step) : g[n] = fold[1 .. n]
  <2>1. fold[1 .. n] \in Ends(n, Nat, 0, step)
    BY <1>1, <1>2, <1>10, FoldLeftRuns
  <2> QED BY <2>1 DEF Ends
<1>12. g \in Totals(numbers)
  <2>1. g \in [0 .. n -> Nat] /\ g[0] = 0 /\ \A i \in 1 .. n : g[i] = step[<<g[i - 1], i>>] /\ g[i - 1] \in Nat
    BY <1>1, <1>11 DEF Runs
  <2>2. \A i \in 1 .. n : g[i] = g[i - 1] + numbers[i]
    BY <1>3, <2>1 DEF Add
  <2> QED BY <2>1, <2>2 DEF Totals, n
<1> QED BY <1>4, <1>11, <1>12 DEF n
------------------------------------------------------------------------------
(* The clustering.                                                         *)

\* Lists each of whose members is near to those before it.
Near(A, d) ==
    {c \in Seq(A) : \A i \in 2 .. Len(c) :
        Total([j \in 1 .. (i - 1) |-> d[c[i]][c[j]]]) < SimilarityThreshold * (i - 1)}

\* What clustering goes through: a cluster as it grows, and who remains.
Groups(A, d) == [cluster : Near(A, d) \ {<<>>}, remaining : Seq(A)]

\* Whoever joins is near to all before.
LEMMA JoinsNear ==
    ASSUME NEW A, NEW d, NEW c \in Near(A, d) \ {<<>>}, NEW a \in A, Joins(a, c, d)
    PROVE  Append(c, a) \in Near(A, d) \ {<<>>}
<1> DEFINE e == Append(c, a)
           n == Len(c)
           Row(b, i) == Total([j \in 1 .. (i - 1) |-> d[b[i]][b[j]]])
<1>1. /\ c \in Seq(A) /\ n \in Nat /\ DOMAIN c = 1 .. n
      /\ \A i \in 2 .. n : Row(c, i) < SimilarityThreshold * (i - 1)
  BY DEF Near
<1>2. /\ e \in Seq(A) /\ e # <<>> /\ Len(e) = n + 1 /\ e[n + 1] = a
      /\ \A i \in 1 .. n : e[i] = c[i]
  BY <1>1
<1> HIDE DEF e, n
<1>3. Row(e, n + 1) < SimilarityThreshold * n
  <2>1. [j \in 1 .. ((n + 1) - 1) |-> d[e[n + 1]][e[j]]] = [i \in DOMAIN c |-> d[a][c[i]]]
    <3>1. (n + 1) - 1 = n
      BY <1>1
    <3> QED BY <1>1, <1>2, <3>1
  <2>2. Total([i \in DOMAIN c |-> d[a][c[i]]]) < SimilarityThreshold * n
    BY DEF Joins, n
  <2> QED BY <2>1, <2>2
<1>4. ASSUME NEW i \in 2 .. n PROVE Row(e, i) < SimilarityThreshold * (i - 1)
  <2>1. [j \in 1 .. (i - 1) |-> d[e[i]][e[j]]] = [j \in 1 .. (i - 1) |-> d[c[i]][c[j]]]
    <3>1. \A j \in 1 .. (i - 1) : e[j] = c[j]
      BY <1>1, <1>2
    <3>2. e[i] = c[i]
      BY <1>1, <1>2
    <3> QED BY <3>1, <3>2
  <2>2. Row(c, i) < SimilarityThreshold * (i - 1)
    BY <1>1
  <2> QED BY <2>1, <2>2
<1>5. ASSUME NEW i \in 2 .. Len(e) PROVE Row(e, i) < SimilarityThreshold * (i - 1)
  <2>1. CASE i = n + 1
    <3>1. i - 1 = n
      BY <1>1, <2>1
    <3> QED BY <1>3, <2>1, <3>1
  <2>2. CASE i # n + 1
    <3>1. i \in 2 .. n
      BY <1>1, <1>2, <2>2
    <3> QED BY <1>4, <3>1
  <2> QED BY <2>1, <2>2
<1>6. e \in Near(A, d)
  BY <1>2, <1>5 DEF Near
<1> QED BY <1>2, <1>6 DEF e

\* A turn of the inner loop keeps the cluster near.
LEMMA SweepGroups ==
    ASSUME NEW A, NEW d, NEW state \in Groups(A, d)
    PROVE  Sweep(state, d) \in Groups(A, d)
<1> DEFINE list == state.remaining
           n == Len(list)
           T == Groups(A, d)
           base == [cluster |-> state.cluster, remaining |-> <<>>]
           Add(s, i) == IF Joins(list[i], s.cluster, d)
                          THEN [s EXCEPT !.cluster = Append(@, list[i])]
                          ELSE [s EXCEPT !.remaining = Append(@, list[i])]
           step == [p \in T \X (1 .. n) |-> Add(p[1], p[2])]
           Unfolded(f) == [s \in SUBSET (1 .. n) |-> IF s = {} THEN base ELSE Add(f[s \ {Max(s)}], Max(s))]
           fold == CHOOSE f : f = Unfolded(f)
<1>1. n \in Nat /\ 1 .. n = DOMAIN list /\ base \in T
  BY DEF Groups
<1>2. \A r \in T, i \in 1 .. n : Add(r, i) \in T
  <2> SUFFICES ASSUME NEW r \in T, NEW i \in 1 .. n PROVE Add(r, i) \in T
    OBVIOUS
  <2>1. list[i] \in A /\ r.cluster \in Near(A, d) \ {<<>>} /\ r.remaining \in Seq(A)
    BY DEF Groups
  <2>2. Joins(list[i], r.cluster, d) => Append(r.cluster, list[i]) \in Near(A, d) \ {<<>>}
    BY <2>1, JoinsNear
  <2>3. Append(r.remaining, list[i]) \in Seq(A)
    BY <2>1
  <2> QED BY <2>1, <2>2, <2>3 DEF Groups
<1>3. Sweep(state, d) = fold[1 .. n]
  BY <1>1 DEF Sweep, FoldLeft, MapThenFoldSet
<1> HIDE DEF n, T, base, Add
<1>4. step \in [T \X (1 .. n) -> T]
  BY <1>2
<1>5. \A r \in T, i \in 1 .. n : step[<<r, i>>] = Add(r, i)
  OBVIOUS
<1> HIDE DEF step
<1>6. PICK f \in FromTheEnd(n, T, base, step) : TRUE
  BY <1>1, <1>4, FoldLeftExists
<1>7. \A s \in SUBSET (1 .. n) : s # {} => Max(s) \in 1 .. n
  BY <1>1, LastOfFirst
<1>8. f = Unfolded(f)
  BY <1>5, <1>6, <1>7 DEF FromTheEnd
<1>9. fold = Unfolded(fold)
  <2> HIDE DEF Unfolded
  <2> QED BY <1>8
<1> HIDE DEF fold
<1>10. fold[{}] = base /\ \A s \in SUBSET (1 .. n) : s # {} => fold[s] = Add(fold[s \ {Max(s)}], Max(s))
  BY <1>9
<1>11. Follows(fold, n, T, base, step)
  <2>1. ASSUME NEW s \in SUBSET (1 .. n), s # {}, fold[s \ {Max(s)}] \in T
        PROVE  fold[s] = step[<<fold[s \ {Max(s)}], Max(s)>>]
    BY <1>5, <1>7, <1>10, <2>1
  <2> QED BY <1>10, <2>1 DEF Follows
<1>12. PICK g \in Runs(n, T, base, step) : g[n] = fold[1 .. n]
  <2>1. fold[1 .. n] \in Ends(n, T, base, step)
    BY <1>1, <1>4, <1>11, FoldLeftRuns
  <2> QED BY <2>1 DEF Ends
<1>13. /\ g \in [0 .. n -> T] /\ g[0] = base /\ g[n] \in T
       /\ \A i \in 1 .. n : g[i - 1] \in T /\ g[i] = Add(g[i - 1], i)
  <2>1. g \in [0 .. n -> T] /\ g[0] = base /\ \A i \in 1 .. n : g[i] = step[<<g[i - 1], i>>]
    BY <1>12 DEF Runs
  <2>2. n \in 0 .. n /\ \A i \in 1 .. n : i - 1 \in 0 .. n
    BY <1>1
  <2>3. \A i \in 1 .. n : g[i - 1] \in T
    BY <2>1, <2>2
  <2> QED BY <1>5, <2>1, <2>2, <2>3
<1> QED BY <1>3, <1>12, <1>13 DEF T

\* A cluster begins with one agent, who is near to nobody before.
LEMMA SeedGroups ==
    ASSUME NEW A, NEW d, NEW rest \in Seq(A), rest # <<>>
    PROVE  [cluster |-> <<Head(rest)>>, remaining |-> Tail(rest)] \in Groups(A, d)
<1>1. Head(rest) \in A /\ Tail(rest) \in Seq(A)
  OBVIOUS
<1>2. <<Head(rest)>> \in Seq(A) /\ Len(<<Head(rest)>>) = 1 /\ <<Head(rest)>> # <<>>
  BY <1>1
<1>3. 2 .. 1 = {}
  OBVIOUS
<1>4. <<Head(rest)>> \in Near(A, d)
  BY <1>2, <1>3, Zenon DEF Near
<1> QED BY <1>1, <1>2, <1>4 DEF Groups

\* So do all turns.
LEMMA GrowGroups ==
    ASSUME NEW A, NEW d, NEW state \in Groups(A, d)
    PROVE  Grow(state, d) \in Groups(A, d)
<1> DEFINE list == state.remaining
           n == Len(list)
           T == Groups(A, d)
           base == state
           Add(s, i) == Sweep(s, d)
           step == [p \in T \X (1 .. n) |-> Add(p[1], p[2])]
           Unfolded(f) == [s \in SUBSET (1 .. n) |-> IF s = {} THEN base ELSE Add(f[s \ {Max(s)}], Max(s))]
           fold == CHOOSE f : f = Unfolded(f)
<1>1. n \in Nat /\ 1 .. n = DOMAIN list /\ base \in T
  BY DEF Groups
<1>2. \A r \in T, i \in 1 .. n : Add(r, i) \in T
  BY SweepGroups
<1>3. Grow(state, d) = fold[1 .. n]
  BY <1>1 DEF Grow, FoldLeft, MapThenFoldSet
<1> HIDE DEF n, T, base, Add
<1>4. step \in [T \X (1 .. n) -> T]
  BY <1>2
<1>5. \A r \in T, i \in 1 .. n : step[<<r, i>>] = Add(r, i)
  OBVIOUS
<1> HIDE DEF step
<1>6. PICK f \in FromTheEnd(n, T, base, step) : TRUE
  BY <1>1, <1>4, FoldLeftExists
<1>7. \A s \in SUBSET (1 .. n) : s # {} => Max(s) \in 1 .. n
  BY <1>1, LastOfFirst
<1>8. f = Unfolded(f)
  BY <1>5, <1>6, <1>7 DEF FromTheEnd
<1>9. fold = Unfolded(fold)
  <2> HIDE DEF Unfolded
  <2> QED BY <1>8
<1> HIDE DEF fold
<1>10. fold[{}] = base /\ \A s \in SUBSET (1 .. n) : s # {} => fold[s] = Add(fold[s \ {Max(s)}], Max(s))
  BY <1>9
<1>11. Follows(fold, n, T, base, step)
  <2>1. ASSUME NEW s \in SUBSET (1 .. n), s # {}, fold[s \ {Max(s)}] \in T
        PROVE  fold[s] = step[<<fold[s \ {Max(s)}], Max(s)>>]
    BY <1>5, <1>7, <1>10, <2>1
  <2> QED BY <1>10, <2>1 DEF Follows
<1>12. PICK g \in Runs(n, T, base, step) : g[n] = fold[1 .. n]
  <2>1. fold[1 .. n] \in Ends(n, T, base, step)
    BY <1>1, <1>4, <1>11, FoldLeftRuns
  <2> QED BY <2>1 DEF Ends
<1>13. /\ g \in [0 .. n -> T] /\ g[0] = base /\ g[n] \in T
       /\ \A i \in 1 .. n : g[i - 1] \in T /\ g[i] = Add(g[i - 1], i)
  <2>1. g \in [0 .. n -> T] /\ g[0] = base /\ \A i \in 1 .. n : g[i] = step[<<g[i - 1], i>>]
    BY <1>12 DEF Runs
  <2>2. n \in 0 .. n /\ \A i \in 1 .. n : i - 1 \in 0 .. n
    BY <1>1
  <2>3. \A i \in 1 .. n : g[i - 1] \in T
    BY <2>1, <2>2
  <2> QED BY <1>5, <2>1, <2>2, <2>3
<1> QED BY <1>3, <1>12, <1>13 DEF T

\* There is a cluster if there is anybody, and every one is near.
LEMMA ClustersNear ==
    ASSUME NEW A, NEW d, NEW names \in Seq(A), names # <<>>
    PROVE  /\ Clusters(names, d) \in Seq(Near(A, d) \ {<<>>})
           /\ Clusters(names, d) # <<>>
<1> DEFINE list == names
           n == Len(list)
           L == Near(A, d) \ {<<>>}
           T == [clusters : Seq(L), remaining : Seq(A)]
           base == [clusters |-> <<>>, remaining |-> names]
           Add(s, i) == IF s.remaining = <<>> THEN s
                        ELSE LET grown == Grow([cluster |-> <<Head(s.remaining)>>,
                                                remaining |-> Tail(s.remaining)], d)
                             IN [clusters |-> Append(s.clusters, grown.cluster),
                                 remaining |-> grown.remaining]
           step == [p \in T \X (1 .. n) |-> Add(p[1], p[2])]
           Unfolded(f) == [s \in SUBSET (1 .. n) |-> IF s = {} THEN base ELSE Add(f[s \ {Max(s)}], Max(s))]
           fold == CHOOSE f : f = Unfolded(f)
<1>1. n \in Nat /\ 1 .. n = DOMAIN list /\ base \in T
  OBVIOUS
<1>2. \A r \in T, i \in 1 .. n : Add(r, i) \in T
  <2> SUFFICES ASSUME NEW r \in T, NEW i \in 1 .. n PROVE Add(r, i) \in T
    OBVIOUS
  <2>1. CASE r.remaining = <<>>
    BY <2>1
  <2>2. CASE r.remaining # <<>>
    <3>1. PICK grown \in Groups(A, d) :
            grown = Grow([cluster |-> <<Head(r.remaining)>>, remaining |-> Tail(r.remaining)], d)
      BY <2>2, SeedGroups, GrowGroups
    <3>2. Add(r, i) = [clusters |-> Append(r.clusters, grown.cluster), remaining |-> grown.remaining]
      BY <2>2, <3>1
    <3>3. grown.cluster \in L /\ grown.remaining \in Seq(A) /\ r.clusters \in Seq(L)
      BY DEF Groups
    <3> HIDE DEF Add, L
    <3> QED BY <3>2, <3>3
  <2> QED BY <2>1, <2>2
<1>3. Clusters(names, d) = fold[1 .. n].clusters
  BY <1>1 DEF Clusters, FoldLeft, MapThenFoldSet
<1> HIDE DEF n, T, base, Add
<1>4. step \in [T \X (1 .. n) -> T]
  BY <1>2
<1>5. \A r \in T, i \in 1 .. n : step[<<r, i>>] = Add(r, i)
  OBVIOUS
<1> HIDE DEF step
<1>6. PICK f \in FromTheEnd(n, T, base, step) : TRUE
  BY <1>1, <1>4, FoldLeftExists
<1>7. \A s \in SUBSET (1 .. n) : s # {} => Max(s) \in 1 .. n
  BY <1>1, LastOfFirst
<1>8. f = Unfolded(f)
  BY <1>5, <1>6, <1>7 DEF FromTheEnd
<1>9. fold = Unfolded(fold)
  <2> HIDE DEF Unfolded
  <2> QED BY <1>8
<1> HIDE DEF fold
<1>10. fold[{}] = base /\ \A s \in SUBSET (1 .. n) : s # {} => fold[s] = Add(fold[s \ {Max(s)}], Max(s))
  BY <1>9
<1>11. Follows(fold, n, T, base, step)
  <2>1. ASSUME NEW s \in SUBSET (1 .. n), s # {}, fold[s \ {Max(s)}] \in T
        PROVE  fold[s] = step[<<fold[s \ {Max(s)}], Max(s)>>]
    BY <1>5, <1>7, <1>10, <2>1
  <2> QED BY <1>10, <2>1 DEF Follows
<1>12. PICK g \in Runs(n, T, base, step) : g[n] = fold[1 .. n]
  <2>1. fold[1 .. n] \in Ends(n, T, base, step)
    BY <1>1, <1>4, <1>11, FoldLeftRuns
  <2> QED BY <2>1 DEF Ends
<1>13. /\ g \in [0 .. n -> T] /\ g[0] = base /\ g[n] \in T
       /\ \A i \in 1 .. n : g[i - 1] \in T /\ g[i] = Add(g[i - 1], i)
  <2>1. g \in [0 .. n -> T] /\ g[0] = base /\ \A i \in 1 .. n : g[i] = step[<<g[i - 1], i>>]
    BY <1>12 DEF Runs
  <2>2. n \in 0 .. n /\ \A i \in 1 .. n : i - 1 \in 0 .. n
    BY <1>1
  <2>3. \A i \in 1 .. n : g[i - 1] \in T
    BY <2>1, <2>2
  <2> QED BY <1>5, <2>1, <2>2, <2>3
<1>14. 1 \in 1 .. n /\ g[1] = Add(base, 1)
  <2>1. n # 0
    BY <1>1 DEF n
  <2>2. 1 \in 1 .. n
    BY <1>1, <2>1
  <2> QED BY <1>13, <2>2
<1>15. g[1].clusters # <<>>
  <2>1. PICK grown : g[1] = [clusters |-> Append(base.clusters, grown.cluster), remaining |-> grown.remaining]
    BY <1>14 DEF Add, base
  <2> QED BY <2>1 DEF base
<1>16. \A i \in 1 .. n : g[i - 1].clusters # <<>> => g[i].clusters # <<>>
  <2> SUFFICES ASSUME NEW i \in 1 .. n, g[i - 1].clusters # <<>> PROVE g[i].clusters # <<>>
    OBVIOUS
  <2>1. g[i - 1].clusters \in Seq(L) /\ g[i] = Add(g[i - 1], i)
    BY <1>13 DEF T
  <2>2. \A c : Append(g[i - 1].clusters, c) # <<>>
    BY <2>1
  <2> QED BY <2>1, <2>2 DEF Add
<1>17. g[n].clusters # <<>>
  <2> DEFINE Good == {i \in 0 .. n : i = 0 \/ g[i].clusters # <<>>}
  <2>1. 0 \in Good
    BY <1>1
  <2>2. ASSUME NEW i \in 1 .. n, i - 1 \in Good PROVE i \in Good
    <3>1. CASE i = 1
      BY <1>15, <2>2, <3>1
    <3>2. CASE i # 1
      BY <1>16, <2>2, <3>2
    <3> QED BY <3>1, <3>2
  <2>3. n \in Good
    <3> HIDE DEF Good
    <3>1. \A i \in 1 .. n : i - 1 \in Good => i \in Good
      BY <2>2, Zenon
    <3>2. 0 .. n \subseteq Good
      BY <1>1, <2>1, <3>1, Induction
    <3> QED BY <1>1, <3>2
  <2> QED BY <1>1, <1>14, <2>3
<1> QED BY <1>3, <1>12, <1>13, <1>17 DEF T, L

\* The majority is one of the clusters.
LEMMA MajorityNear ==
    ASSUME NEW A, NEW d, NEW names \in Seq(A), names # <<>>
    PROVE  Majority(names, d) \in Near(A, d) \ {<<>>}
<1>0. PICK list \in Seq(Near(A, d) \ {<<>>}) : list = Clusters(names, d) /\ list # <<>>
  BY ClustersNear
<1> DEFINE n == Len(list)
           T == Near(A, d)
           base == <<>>
           Add(best, i) == IF Len(list[i]) > Len(best) THEN list[i] ELSE best
           step == [p \in T \X (1 .. n) |-> Add(p[1], p[2])]
           Unfolded(f) == [s \in SUBSET (1 .. n) |-> IF s = {} THEN base ELSE Add(f[s \ {Max(s)}], Max(s))]
           fold == CHOOSE f : f = Unfolded(f)
<1>1. n \in Nat /\ 1 .. n = DOMAIN list /\ base \in T
  <2>1. <<>> \in Near(A, d)
    <3>1. <<>> \in Seq(A) /\ Len(<<>>) = 0 /\ 2 .. 0 = {}
      OBVIOUS
    <3> QED BY <3>1, Zenon DEF Near
  <2> QED BY <1>0, <2>1
<1>2. \A r \in T, i \in 1 .. n : Add(r, i) \in T
  BY <1>0
<1>3. Majority(names, d) = fold[1 .. n]
  BY <1>0, <1>1 DEF Majority, FoldLeft, MapThenFoldSet
<1> HIDE DEF n, T, base, Add
<1>4. step \in [T \X (1 .. n) -> T]
  BY <1>2
<1>5. \A r \in T, i \in 1 .. n : step[<<r, i>>] = Add(r, i)
  OBVIOUS
<1> HIDE DEF step
<1>6. PICK f \in FromTheEnd(n, T, base, step) : TRUE
  BY <1>1, <1>4, FoldLeftExists
<1>7. \A s \in SUBSET (1 .. n) : s # {} => Max(s) \in 1 .. n
  BY <1>1, LastOfFirst
<1>8. f = Unfolded(f)
  BY <1>5, <1>6, <1>7 DEF FromTheEnd
<1>9. fold = Unfolded(fold)
  <2> HIDE DEF Unfolded
  <2> QED BY <1>8
<1> HIDE DEF fold
<1>10. fold[{}] = base /\ \A s \in SUBSET (1 .. n) : s # {} => fold[s] = Add(fold[s \ {Max(s)}], Max(s))
  BY <1>9
<1>11. Follows(fold, n, T, base, step)
  <2>1. ASSUME NEW s \in SUBSET (1 .. n), s # {}, fold[s \ {Max(s)}] \in T
        PROVE  fold[s] = step[<<fold[s \ {Max(s)}], Max(s)>>]
    BY <1>5, <1>7, <1>10, <2>1
  <2> QED BY <1>10, <2>1 DEF Follows
<1>12. PICK g \in Runs(n, T, base, step) : g[n] = fold[1 .. n]
  <2>1. fold[1 .. n] \in Ends(n, T, base, step)
    BY <1>1, <1>4, <1>11, FoldLeftRuns
  <2> QED BY <2>1 DEF Ends
<1>13. /\ g \in [0 .. n -> T] /\ g[0] = base /\ g[n] \in T
       /\ \A i \in 1 .. n : g[i - 1] \in T /\ g[i] = Add(g[i - 1], i)
  <2>1. g \in [0 .. n -> T] /\ g[0] = base /\ \A i \in 1 .. n : g[i] = step[<<g[i - 1], i>>]
    BY <1>12 DEF Runs
  <2>2. n \in 0 .. n /\ \A i \in 1 .. n : i - 1 \in 0 .. n
    BY <1>1
  <2>3. \A i \in 1 .. n : g[i - 1] \in T
    BY <2>1, <2>2
  <2> QED BY <1>5, <2>1, <2>2, <2>3
<1>14. 1 \in 1 .. n /\ g[1] = Add(base, 1)
  <2>1. n # 0
    BY <1>0, <1>1 DEF n
  <2>2. 1 \in 1 .. n
    BY <1>1, <2>1
  <2> QED BY <1>13, <2>2
<1>15. g[1] # <<>>
  <2>0. list[1] \in Near(A, d) \ {<<>>}
    BY <1>0, <1>1, <1>14
  <2>1. Len(list[1]) > 0 /\ Len(base) = 0 /\ list[1] # <<>>
    BY <2>0 DEF Near, base
  <2> QED BY <1>14, <2>1 DEF Add
<1>16. \A i \in 1 .. n : g[i - 1] # <<>> => g[i] # <<>>
  <2> SUFFICES ASSUME NEW i \in 1 .. n, g[i - 1] # <<>> PROVE g[i] # <<>>
    OBVIOUS
  <2>1. list[i] # <<>>
    BY DEF n
  <2> QED BY <1>13, <2>1 DEF Add
<1>17. g[n] # <<>>
  <2> DEFINE Good == {i \in 0 .. n : i = 0 \/ g[i] # <<>>}
  <2>1. 0 \in Good
    BY <1>1
  <2>2. ASSUME NEW i \in 1 .. n, i - 1 \in Good PROVE i \in Good
    <3>1. CASE i = 1
      BY <1>15, <2>2, <3>1
    <3>2. CASE i # 1
      BY <1>16, <2>2, <3>2
    <3> QED BY <3>1, <3>2
  <2>3. n \in Good
    <3> HIDE DEF Good
    <3>1. \A i \in 1 .. n : i - 1 \in Good => i \in Good
      BY <2>2, Zenon
    <3>2. 0 .. n \subseteq Good
      BY <1>1, <2>1, <3>1, Induction
    <3> QED BY <1>1, <3>2
  <2> QED BY <1>1, <1>14, <2>3
<1> QED BY <1>3, <1>12, <1>13, <1>17 DEF T

\* The pairs of numbers up to n, the smaller one first.
Ordered(pairs, n) ==
    /\ \A i, j \in 1 .. n : j < i => <<j, i>> \in pairs
    /\ \A p \in pairs : p = <<p[1], p[2]>> /\ p[1] \in 1 .. n /\ p[2] \in 1 .. n /\ p[1] < p[2]

\* The values of the pairs in rows, the mean of each below a bound.
Rows(row, n, bound, f) ==
    \A i \in 2 .. n : /\ row[i] \in Seq(Nat) /\ Len(row[i]) = i - 1
                      /\ Total(row[i]) < bound * (i - 1)
                      /\ \A j \in 1 .. (i - 1) : row[i][j] = f[<<j, i>>]

\* Added up row by row, the mean of all pairs is below that bound too.
LEMMA RowsAddUp ==
    ASSUME NEW n \in Nat, n > 1, NEW bound \in Nat,
           NEW pairs, IsFiniteSet(pairs), Ordered(pairs, n),
           NEW f \in [pairs -> Nat], NEW g \in Sums(pairs, f), NEW row, Rows(row, n, bound, f)
    PROVE  g[pairs] < bound * Cardinality(pairs)
<1> DEFINE Until(k) == {p \in pairs : p[2] <= k}
           With(k, m) == Until(k) \cup {<<j, k + 1>> : j \in 1 .. m}
           Low(s) == g[s] <= bound * Cardinality(s)
           Lower(s) == g[s] < bound * Cardinality(s)
<1>1. \A s \in SUBSET pairs : g[s] \in Nat /\ IsFiniteSet(s) /\ Cardinality(s) \in Nat
  BY FS_Subset, FS_CardinalityType DEF Sums
<1>2. \A i \in 1 .. n, j \in 1 .. n : j < i => <<j, i>> \in pairs
  BY DEF Ordered
<1>3. /\ \A p \in pairs : p = <<p[1], p[2]>> /\ p[1] \in 1 .. n /\ p[2] \in 1 .. n /\ p[1] < p[2]
      /\ AddsUp(g, pairs, f)
  BY SumWithout DEF Ordered
<1>4. \A k \in 1 .. n : Until(k) \in SUBSET pairs
  OBVIOUS
<1>5. ASSUME NEW k \in 1 .. (n - 1), Low(Until(k))
      PROVE  Lower(Until(k + 1))
  <2>1. k \in Nat /\ k \in 1 .. n /\ k + 1 \in 2 .. n /\ k + 1 \in 1 .. n /\ (k + 1) - 1 = k /\ \A m \in 1 .. k : m \in 1 .. n /\ m < k + 1
    OBVIOUS
  <2>2. PICK numbers \in Seq(Nat) : numbers = row[k + 1]
    BY <2>1 DEF Rows
  <2>3. Len(numbers) = k /\ Total(numbers) < bound * k /\ \A m \in 1 .. k : numbers[m] = f[<<m, k + 1>>]
    BY <2>1, <2>2 DEF Rows
  <2>4. PICK total \in Totals(numbers) : Total(numbers) = total[Len(numbers)]
    BY TotalRuns
  <2>5. total \in [0 .. k -> Nat] /\ total[0] = 0 /\ \A m \in 1 .. k : total[m] = total[m - 1] + numbers[m]
    BY <2>3, <2>4 DEF Totals
  <2>6. PICK u \in SUBSET pairs : u = Until(k)
    BY <1>4, <2>1
  <2> DEFINE Row(m) == u \cup {<<j, k + 1>> : j \in 1 .. m}
             Good == {m \in 0 .. k : g[Row(m)] = g[u] + total[m] /\ Cardinality(Row(m)) = Cardinality(u) + m}
  <2>7. 0 \in Good
    <3>1. Row(0) = u
      OBVIOUS
    <3>2. g[u] \in Nat /\ Cardinality(u) \in Nat
      BY <1>1
    <3>3. g[u] = g[u] + total[0] /\ Cardinality(u) = Cardinality(u) + 0
      BY <2>5, <3>2
    <3>4. 0 \in 0 .. k
      BY <2>1
    <3> HIDE DEF Row
    <3> QED BY <3>1, <3>3, <3>4
  <2>8. ASSUME NEW m \in 1 .. k, m - 1 \in Good PROVE m \in Good
    <3>1. PICK x \in pairs : x = <<m, k + 1>>
      BY <1>2, <2>1
    <3>2. PICK v \in SUBSET pairs : v = Row(m)
      <4>1. \A j \in 1 .. m : <<j, k + 1>> \in pairs
        BY <1>2, <2>1
      <4>2. Row(m) \in SUBSET pairs
        BY <4>1
      <4> HIDE DEF Row
      <4> QED BY <4>2
    <3>3. x \in v
      BY <3>1, <3>2
    <3>4. x \notin u
      BY <2>1, <2>6, <3>1
    <3>5. PICK w \in SUBSET pairs : w = Row(m - 1) /\ w = v \ {x}
      <4>1. \A j : j \in 1 .. (m - 1) <=> j \in 1 .. m /\ j # m
        OBVIOUS
      <4>2. \A j : <<j, k + 1>> = x <=> j = m
        BY <3>1
      <4>3. \A p : p \in {<<j, k + 1>> : j \in 1 .. m} /\ p # x <=> p \in {<<j, k + 1>> : j \in 1 .. (m - 1)}
        <5>1. ASSUME NEW p, p \in {<<j, k + 1>> : j \in 1 .. m}, p # x
              PROVE  p \in {<<j, k + 1>> : j \in 1 .. (m - 1)}
          <6>1. PICK j \in 1 .. m : p = <<j, k + 1>>
            BY <5>1
          <6>2. j \in 1 .. (m - 1)
            BY <4>1, <4>2, <5>1, <6>1
          <6> QED BY <6>1, <6>2
        <5>2. ASSUME NEW p, p \in {<<j, k + 1>> : j \in 1 .. (m - 1)}
              PROVE  p \in {<<j, k + 1>> : j \in 1 .. m} /\ p # x
          <6>1. PICK j \in 1 .. (m - 1) : p = <<j, k + 1>>
            BY <5>2
          <6>2. j \in 1 .. m /\ p # x
            BY <4>1, <4>2, <6>1
          <6> QED BY <6>1, <6>2
        <5> QED BY <5>1, <5>2
      <4>4. Row(m - 1) = v \ {x}
        BY <3>2, <3>4, <4>3
      <4> HIDE DEF Row
      <4> QED BY <4>4
    <3>6. g[v] = f[x] + g[v \ {x}]
      BY <1>3, <3>3, Zenon DEF AddsUp
    <3>7. Cardinality(v \ {x}) = Cardinality(v) - 1
      BY <1>1, <3>3, FS_RemoveElement
    <3>8. g[v] = f[x] + g[w] /\ Cardinality(w) = Cardinality(v) - 1
      BY <3>5, <3>6, <3>7, Zenon
    <3>9. g[w] = g[u] + total[m - 1] /\ Cardinality(w) = Cardinality(u) + (m - 1)
      <4> HIDE DEF Row
      <4> QED BY <2>8, <3>5
    <3>10. f[x] = numbers[m] /\ total[m] = total[m - 1] + numbers[m] /\ total[m - 1] \in Nat /\ numbers[m] \in Nat
      <4>1. m \in DOMAIN numbers /\ m - 1 \in 0 .. k
        BY <2>1, <2>3
      <4> QED BY <2>3, <2>5, <3>1, <4>1
    <3>11. g[u] \in Nat /\ Cardinality(u) \in Nat /\ Cardinality(v) \in Nat
      BY <1>1
    <3>12. g[v] = g[u] + total[m] /\ Cardinality(v) = Cardinality(u) + m
      <4>1. PICK a, b, s, o \in Nat : a = g[u] /\ b = Cardinality(u) /\ s = total[m - 1] /\ o = numbers[m]
        BY <3>10, <3>11
      <4>2. g[w] = a + s /\ g[v] = o + g[w] /\ total[m] = s + o
        BY <3>8, <3>9, <3>10, <4>1
      <4>3. Cardinality(w) = b + (m - 1) /\ Cardinality(w) = Cardinality(v) - 1
        BY <3>8, <3>9, <4>1
      <4>4. g[v] = a + total[m]
        BY <4>2
      <4>5. Cardinality(v) = b + m
        <5>1. PICK c \in Nat : c = Cardinality(v)
          BY <3>11
        <5>2. b + (m - 1) = c - 1
          BY <4>3, <5>1
        <5>3. c = b + m
          BY <2>1, <5>2
        <5> QED BY <5>1, <5>3
      <4> QED BY <4>1, <4>4, <4>5
    <3> HIDE DEF Row
    <3> QED BY <3>2, <3>12
  <2>9. k \in Good
    <3> HIDE DEF Good
    <3>1. \A m \in 1 .. k : m - 1 \in Good => m \in Good
      BY <2>8, Zenon
    <3>2. 0 .. k \subseteq Good
      BY <2>1, <2>7, <3>1, Induction
    <3> QED BY <2>1, <3>2
  <2>10. PICK w \in SUBSET pairs : w = Row(k) /\ w = Until(k + 1)
    <3>1. ASSUME NEW p \in pairs, p[2] <= k + 1, ~ (p[2] <= k) PROVE \E j \in 1 .. k : p = <<j, k + 1>>
      <4>1. PICK i \in 1 .. n, j \in 1 .. n : i = p[2] /\ j = p[1] /\ p = <<j, i>> /\ j < i
        BY <1>3
      <4>2. i = k + 1 /\ j \in 1 .. k
        BY <2>1, <3>1, <4>1
      <4> QED BY <4>1, <4>2
    <3>2. \A j \in 1 .. k : <<j, k + 1>> \in pairs
      BY <1>2, <2>1
    <3>3. \A p \in pairs : p[2] <= k => p[2] <= k + 1
      BY <1>3, <2>1
    <3>4. Row(k) \subseteq Until(k + 1)
      BY <2>1, <2>6, <3>2, <3>3
    <3>5. Until(k + 1) \subseteq Row(k)
      BY <2>6, <3>1
    <3>6. Row(k) = Until(k + 1) /\ Until(k + 1) \in SUBSET pairs
      BY <3>4, <3>5
    <3> HIDE DEF Row, Until
    <3> QED BY <3>6
  <2>11. g[w] = g[u] + total[k] /\ Cardinality(w) = Cardinality(u) + k
    <3> HIDE DEF Row
    <3> QED BY <2>9, <2>10
  <2>12. g[u] <= bound * Cardinality(u)
    BY <1>5, <2>6
  <2>13. bound * (Cardinality(u) + k) = bound * Cardinality(u) + bound * k
    <3>1. PICK b \in Nat : b = Cardinality(u)
      BY <1>1
    <3>2. bound * (b + k) = bound * b + bound * k
      BY <2>1
    <3> QED BY <3>1, <3>2
  <2>14. bound * Cardinality(u) \in Nat /\ bound * k \in Nat /\ g[u] \in Nat /\ total[k] \in Nat
    BY <1>1, <2>1, <2>5
  <2>15. total[k] < bound * k
    BY <2>3, <2>4
  <2>16. g[w] < bound * Cardinality(w)
    BY <2>11, <2>12, <2>13, <2>14, <2>15
  <2> HIDE DEF Until
  <2> QED BY <2>10, <2>16
<1>6. PICK none : none = Until(1) /\ none = {}
  <2>1. \A p \in pairs : ~ (p[2] <= 1)
    BY <1>3
  <2> QED BY <2>1
<1>7. Low(Until(1))
  <2>1. {} \in SUBSET pairs /\ Cardinality({}) = 0
    BY FS_EmptySet
  <2>2. g[{}] = 0
    BY <2>1 DEF Sums
  <2>3. g[none] = 0 /\ Cardinality(none) = 0
    BY <1>6, <2>1, <2>2
  <2>4. g[none] <= bound * Cardinality(none)
    BY <2>3
  <2> HIDE DEF Until
  <2> QED BY <1>6, <2>4
<1> DEFINE Good == {k \in 0 .. n : k > 0 => Low(Until(k)) /\ (k > 1 => Lower(Until(k)))}
<1>8. 0 \in Good
  OBVIOUS
<1>9. ASSUME NEW k \in 1 .. n, k - 1 \in Good PROVE k \in Good
  <2>1. CASE k = 1
    <3> HIDE DEF Until, Low, Lower
    <3> QED BY <1>7, <2>1
  <2>2. CASE k # 1
    <3>1. PICK l \in 1 .. (n - 1) : k = l + 1 /\ l = k - 1
      <4>1. k - 1 \in 1 .. (n - 1) /\ k = (k - 1) + 1
        BY <2>2
      <4> QED BY <4>1
    <3>2. Low(Until(l))
      <4> HIDE DEF Until, Low, Lower
      <4> QED BY <1>9, <3>1
    <3>3. Lower(Until(l + 1))
      <4> HIDE DEF Until, Low, Lower
      <4> QED BY <1>5, <3>2
    <3>4. PICK s \in SUBSET pairs : s = Until(k)
      BY <1>4
    <3>5. g[s] < bound * Cardinality(s)
      <4> HIDE DEF Until
      <4> QED BY <3>1, <3>3, <3>4
    <3>6. g[s] <= bound * Cardinality(s)
      <4>1. g[s] \in Nat /\ bound * Cardinality(s) \in Nat
        BY <1>1
      <4> QED BY <3>5, <4>1
    <3>7. Low(Until(k)) /\ Lower(Until(k))
      <4> HIDE DEF Until
      <4> QED BY <3>4, <3>5, <3>6
    <3> HIDE DEF Until, Low, Lower
    <3> QED BY <3>7
  <2> QED BY <2>1, <2>2
<1>10. n \in Good
  <2> HIDE DEF Good
  <2>1. \A k \in 1 .. n : k - 1 \in Good => k \in Good
    BY <1>9, Zenon
  <2>2. 0 .. n \subseteq Good
    BY <1>8, <2>1, Induction
  <2> QED BY <2>2
<1>11. Lower(Until(n))
  <2> HIDE DEF Until, Low, Lower
  <2> QED BY <1>10
<1>12. PICK s : s = Until(n) /\ s = pairs
  <2>1. \A p \in pairs : p[2] <= n
    BY <1>3
  <2> QED BY <2>1
<1> HIDE DEF Until
<1> QED BY <1>11, <1>12

\* A sum over a function is one of its sums.
LEMMA SumFunctionSums ==
    ASSUME NEW S, IsFiniteSet(S), NEW f \in [S -> Nat]
    PROVE  \E g \in Sums(S, f) : SumFunction(f) = g[S]
<1> DEFINE D == DOMAIN f
           iter == CHOOSE iter : iter = Adding(D, f, iter)
<1>1. D = S /\ f \in [D -> Nat] /\ IsFiniteSet(D)
  OBVIOUS
<1>2. SumFunction(f) = iter[D]
  BY DEF SumFunction, SumFunctionOnSet, FoldFunctionOnSet, MapThenFoldSet, Some, Adding
<1>3. iter \in Sums(D, f)
  <2> HIDE DEF D
  <2> QED BY <1>1, SumIterates
<1> HIDE DEF iter, D
<1> QED BY <1>1, <1>2, <1>3

\* Distances, in both directions.
Symmetric(d, A) == \A a, b \in A : d[a][b] \in Nat /\ d[a][b] = d[b][a]

\* The distance of each pair in a list.
Apartness(c, d, pairs) == [p \in pairs |-> d[c[p[1]]][c[p[2]]]]

\* Everybody near to those before makes the whole near: of the mean of all pairs
\* each member has its part, that of those before it.
LEMMA MeanOfNear ==
    ASSUME NEW A, NEW d, Symmetric(d, A), NEW c \in Near(A, d), Len(c) > 1,
           NEW pairs, pairs = {p \in (DOMAIN c) \X (DOMAIN c) : p[1] < p[2]}
    PROVE  SumFunction(Apartness(c, d, pairs)) < SimilarityThreshold * Cardinality(pairs)
<1>1. PICK n \in Nat : n = Len(c) /\ n > 1 /\ DOMAIN c = 1 .. n
  BY DEF Near
<1>2. \A i \in 1 .. n : c[i] \in A
  BY <1>1 DEF Near
<1>3. \A i \in 2 .. n : Total([j \in 1 .. (i - 1) |-> d[c[i]][c[j]]]) < SimilarityThreshold * (i - 1)
  BY <1>1 DEF Near
<1>4. pairs = {p \in (1 .. n) \X (1 .. n) : p[1] < p[2]}
  BY <1>1
<1>5. IsFiniteSet(pairs)
  <2>1. IsFiniteSet(1 .. n) /\ pairs \subseteq (1 .. n) \X (1 .. n)
    BY <1>4, FS_Interval
  <2> QED BY <2>1, FS_Product, FS_Subset
<1>6. Ordered(pairs, n)
  <2>1. ASSUME NEW i \in 1 .. n, NEW j \in 1 .. n, j < i PROVE <<j, i>> \in pairs
    BY <1>4, <2>1
  <2>2. ASSUME NEW p \in pairs
        PROVE  p = <<p[1], p[2]>> /\ p[1] \in 1 .. n /\ p[2] \in 1 .. n /\ p[1] < p[2]
    BY <1>4
  <2> QED BY <2>1, <2>2 DEF Ordered
<1>7. PICK f \in [pairs -> Nat] :
          f = Apartness(c, d, pairs) /\ \A p \in pairs : f[p] = d[c[p[1]]][c[p[2]]]
  <2>1. \A p \in pairs : d[c[p[1]]][c[p[2]]] \in Nat
    BY <1>2, <1>6 DEF Ordered, Symmetric
  <2>2. Apartness(c, d, pairs) \in [pairs -> Nat]
        /\ \A p \in pairs : Apartness(c, d, pairs)[p] = d[c[p[1]]][c[p[2]]]
    BY <2>1 DEF Apartness
  <2> QED BY <2>2
<1>8. PICK g \in Sums(pairs, f) : SumFunction(f) = g[pairs]
  BY <1>5, SumFunctionSums
<1> DEFINE row == [i \in 2 .. n |-> [j \in 1 .. (i - 1) |-> d[c[i]][c[j]]]]
<1>9. ASSUME NEW i \in 2 .. n
       PROVE  /\ row[i] \in Seq(Nat) /\ Len(row[i]) = i - 1
              /\ Total(row[i]) < SimilarityThreshold * (i - 1)
              /\ \A j \in 1 .. (i - 1) : row[i][j] = f[<<j, i>>]
  <2>1. i \in 1 .. n /\ i - 1 \in Nat /\ \A j \in 1 .. (i - 1) : j \in 1 .. n /\ j < i
    OBVIOUS
  <2>2. \A j \in 1 .. (i - 1) : d[c[i]][c[j]] \in Nat /\ d[c[i]][c[j]] = d[c[j]][c[i]]
    BY <1>2, <2>1 DEF Symmetric
  <2>3. row[i] = [j \in 1 .. (i - 1) |-> d[c[i]][c[j]]]
    OBVIOUS
  <2>4. row[i] \in Seq(Nat) /\ Len(row[i]) = i - 1
    BY <2>1, <2>2, <2>3
  <2>5. \A j \in 1 .. (i - 1) : <<j, i>> \in pairs
    BY <1>6, <2>1 DEF Ordered
  <2>6. \A j \in 1 .. (i - 1) : f[<<j, i>>] = d[c[j]][c[i]]
    BY <1>7, <2>5
  <2>7. Total(row[i]) < SimilarityThreshold * (i - 1)
    BY <1>3, <2>3
  <2>8. \A j \in 1 .. (i - 1) : row[i][j] = d[c[i]][c[j]]
    BY <2>3
  <2> HIDE DEF row
  <2> QED BY <2>2, <2>4, <2>6, <2>7, <2>8
<1> HIDE DEF row
<1>10. SimilarityThreshold \in Nat
  BY ThresholdAssumption
<1>11. Rows(row, n, SimilarityThreshold, f)
  BY <1>9, Zenon DEF Rows
<1>12. g[pairs] < SimilarityThreshold * Cardinality(pairs)
  BY <1>1, <1>5, <1>6, <1>7, <1>8, <1>10, <1>11, RowsAddUp
<1> QED BY <1>7, <1>8, <1>12

\* The answer of an agent is found by the position of its name.
LEMMA AnswerFound ==
    ASSUME NEW S, NEW names \in Seq(S), NEW said, NEW a \in ToSet(names)
    PROVE  [i \in DOMAIN names |-> said[names[i]]][SelectInSeq(names, LAMBDA n : n = a)] = said[a]
<1> DEFINE I == {i \in 1 .. Len(names) : names[i] = a}
<1>1. DOMAIN names = 1 .. Len(names) /\ Len(names) \in Nat
  OBVIOUS
<1>2. I \in SUBSET Nat /\ I # {}
  BY <1>1 DEF ToSet
<1>3. SelectInSeq(names, LAMBDA n : n = a) = Min(I)
  BY <1>2 DEF SelectInSeq
<1>4. PICK i \in I : \A j \in I : i <= j
  <2> HIDE DEF I
  <2> QED BY <1>2, LeastNumber
<1>5. Min(I) \in I
  <2> HIDE DEF I
  <2> QED BY <1>4 DEF Min
<1>6. PICK j \in DOMAIN names : j = Min(I) /\ names[j] = a
  BY <1>1, <1>5
<1> QED
  BY <1>3, <1>6

\* What is reported of a quorum, in terms of the names that count.
Reports(v, names, said, d) ==
    /\ v.counted = ToSet(names)
    /\ v.cluster \in Seq(ToSet(names)) \ {<<>>}
    /\ Len(v.cluster) > 1 => v.cluster \in Near(ToSet(names), d)
    /\ v.majority_view = said[Head(v.cluster)]
    /\ v.minority_views = {said[a] : a \in ToSet(names) \ ToSet(v.cluster)}

\* That is what Aggregate computes.
LEMMA Reported ==
    ASSUME NEW S, NEW names \in Seq(S), names # <<>>, NEW said, NEW d,
           NEW v, v = Aggregate(names, [i \in DOMAIN names |-> said[names[i]]], d)
    PROVE  Reports(v, names, said, d)
<1> DEFINE A == ToSet(names)
           responses == [i \in DOMAIN names |-> said[names[i]]]
           cluster == IF Len(names) < 2 THEN names ELSE Majority(names, d)
           At(a) == responses[SelectInSeq(names, LAMBDA n : n = a)]
           minority == Keep(names, A \ ToSet(cluster))
<1>1. /\ v.counted = A /\ v.cluster = cluster
      /\ v.majority_view = At(Head(cluster))
      /\ v.minority_views = {At(a) : a \in ToSet(minority)}
  BY DEF Aggregate
<1>2. names \in Seq(A) \ {<<>>}
  BY DEF ToSet
<1>3. \A a \in A : At(a) = said[a]
  BY AnswerFound
<1> HIDE DEF A, At
<1>4. cluster \in Seq(A) \ {<<>>} /\ (Len(cluster) > 1 => cluster \in Near(A, d))
  <2>1. Majority(names, d) \in Near(A, d) \ {<<>>}
    BY <1>2, MajorityNear
  <2>2. CASE Len(names) < 2
    BY <1>2, <2>2
  <2>3. CASE ~ (Len(names) < 2)
    BY <2>1, <2>3 DEF Near
  <2> QED BY <2>2, <2>3
<1>5. ToSet(minority) = A \ ToSet(cluster)
  <2>1. ToSet(names) = A
    BY DEF A
  <2>2. ToSet(minority) = ToSet(names) \cap (A \ ToSet(cluster))
    BY <1>2, KeepElements
  <2> QED BY <2>1, <2>2
<1> HIDE DEF cluster, minority
<1>6. Head(cluster) \in A
  BY <1>4
<1>7. {At(a) : a \in ToSet(minority)} = {said[a] : a \in A \ ToSet(cluster)}
  BY <1>3, <1>5
<1> QED
  BY <1>1, <1>3, <1>4, <1>6, <1>7 DEF A, Reports

------------------------------------------------------------------------------
(* The pipeline.                                                           *)

\* When the pipeline is where: nobody is asked again before the rounds begin or
\* after they end, a round is held only if one is left and two can debate.
Paced ==
    /\ phase = "asking" => round = 0 /\ members = {}
    /\ phase = "asking" => errors = {a \in Agents : answers[a] = Failed}
    /\ phase # "asking" => answers \in [Agents -> Texts]
    /\ phase = "deliberating" => round < request.rounds /\ Several(members)
    /\ phase = "aggregating" => round = request.rounds \/ ~Several(members)
    /\ phase # "deliberating" => shown = [a \in Agents |-> Blank]

\* An agent that was asked is a member, and was shown the answers as they
\* still are.
Boards == \A a \in Agents : Asked(a) => a \in members /\ shown[a] = Board(a)

\* Who failed and who takes part, without what is shown.
Apart ==
    phase # "asking" =>
        /\ errors \cap members = {} /\ errors \cup members = Agents
        /\ \A a \in errors : answers[a] = Failed

Inv == TypeOK /\ Paced /\ Boards /\ Apart

------------------------------------------------------------------------------
\* The first state: nobody has said anything.
LEMMA InitInv == Init => Inv
<1> SUFFICES ASSUME Init PROVE Inv
  OBVIOUS
<1> USE OrchestrationAssumption DEF Init
<1>1. TypeOK
  <2>1. request.rounds \in Nat /\ order \in Seq(Agents)
    BY DEF Request
  <2>2. Blank \in [Agents -> Texts \cup {NoText}]
    BY DEF Blank
  <2>3. answers \in [Agents -> Texts \cup {NoText}] /\ reply \in [Agents -> Texts \cup {NoText}]
    BY <2>2
  <2>4. shown \in [Agents -> [Agents -> Texts \cup {NoText}]]
    BY <2>2
  <2>5. request \in Request /\ phase \in Phases
    BY DEF Phases
  <2>6. round \in 0 .. request.rounds
    BY <2>1
  <2>7. session \in BOOLEAN /\ r2 \in BOOLEAN
    BY Zenon
  <2>8. errors \subseteq Agents /\ members \subseteq Agents
    OBVIOUS
  <2> HIDE DEF Init
  <2> QED
    BY <2>1, <2>3, <2>4, <2>5, <2>6, <2>7, <2>8 DEF TypeOK
<1>2. Paced
  <2>1. {a \in Agents : answers[a] = Failed} = {}
    BY DEF Blank, Texts
  <2> QED
    BY <2>1 DEF Paced
<1>3. Boards /\ Apart
  BY DEF Boards, Asked, Apart
<1> QED
  BY <1>1, <1>2, <1>3 DEF Inv

\* A first answer.
LEMMA FirstInv ==
    ASSUME Inv, NEW a \in Agents, NEW text \in Texts, AnswerFirst(a, text)
    PROVE  Inv'
<1> USE OrchestrationAssumption DEF Inv, AnswerFirst
<1>1. TypeOK'
  BY DEF TypeOK, Texts
<1>2. Paced'
  <2>1. errors' = {b \in Agents : answers'[b] = Failed}
    BY DEF Paced, TypeOK, Texts
  <2> QED
    BY <2>1 DEF Paced
<1>3. Boards' /\ Apart'
  BY DEF Paced, Boards, Asked, Apart
<1> QED
  BY <1>1, <1>2, <1>3

\* All first answers are in.
LEMMA CollectInv == Inv /\ Collect => Inv'
<1> SUFFICES ASSUME Inv, Collect PROVE Inv'
  OBVIOUS
<1> USE OrchestrationAssumption DEF Inv, Collect
<1>1. TypeOK'
  BY DEF TypeOK, Phases
<1>2. answers \in [Agents -> Texts]
  BY DEF TypeOK
<1>3. Paced'
  <2>1. request.rounds \in Nat /\ round = 0
    BY DEF TypeOK, Request, Paced
  <2> QED
    BY <1>2, <2>1 DEF Paced, Several
<1>4. Boards'
  BY DEF Paced, Boards, Asked
<1>5. Apart'
  BY DEF Apart, Paced, TypeOK
<1> QED
  BY <1>1, <1>3, <1>4, <1>5

\* An agent is shown the board.
LEMMA AskInv == ASSUME Inv, NEW a \in Agents, Ask(a) PROVE Inv'
<1> USE OrchestrationAssumption DEF Inv, Ask
<1>1. Board(a) \in [Agents -> Texts \cup {NoText}]
  BY DEF Board, TypeOK
<1>2. TypeOK'
  BY <1>1 DEF TypeOK
<1>3. Paced' /\ Apart'
  BY DEF Paced, Apart, Several
<1>4. Boards'
  <2> SUFFICES ASSUME NEW b \in Agents, Asked(b)' PROVE b \in members' /\ (shown[b] = Board(b))'
    BY DEF Boards
  <2>1. Board(b)' = Board(b)
    BY DEF Board
  <2>2. CASE b = a
    BY <2>1, <2>2 DEF TypeOK
  <2>3. CASE b # a
    <3>1. shown'[b] = shown[b] /\ Asked(b)
      BY <2>3 DEF TypeOK, Asked
    <3> QED
      BY <2>1, <3>1 DEF Boards
  <2> QED
    BY <2>2, <2>3
<1> QED
  BY <1>2, <1>3, <1>4

\* It replies.
LEMMA AgainInv ==
    ASSUME Inv, NEW a \in Agents, NEW text \in Texts \cup {NoText}, AnswerAgain(a, text)
    PROVE  Inv'
<1> USE OrchestrationAssumption DEF Inv, AnswerAgain
<1>1. TypeOK'
  BY DEF TypeOK
<1>2. Paced' /\ Apart'
  BY DEF Paced, Apart, Several
<1>3. Boards'
  BY DEF Boards, Board, Asked
<1> QED
  BY <1>1, <1>2, <1>3

\* A round ends.
LEMMA EndRoundInv == Inv /\ EndRound => Inv'
<1> SUFFICES ASSUME Inv, EndRound PROVE Inv'
  OBVIOUS
<1> USE OrchestrationAssumption DEF Inv, EndRound
<1>1. answers \in [Agents -> Texts] /\ round < request.rounds /\ Several(members)
  BY DEF Paced
<1>2. request.rounds \in Nat /\ round \in Nat
  BY DEF TypeOK, Request
<1>3. answers' \in [Agents -> Texts]
  BY <1>1 DEF TypeOK
<1>4. TypeOK'
  BY <1>1, <1>2, <1>3 DEF TypeOK, Phases, Blank
<1>5. Paced'
  BY <1>1, <1>2, <1>3 DEF Paced, Several
<1>6. Boards'
  BY DEF Boards, Asked
<1>7. Apart'
  BY DEF Apart, TypeOK
<1> QED
  BY <1>4, <1>5, <1>6, <1>7

\* The rest changes no answer.
LEMMA FinishInv == Inv /\ Finish => Inv'
<1> SUFFICES ASSUME Inv, Finish PROVE Inv'
  OBVIOUS
<1> USE DEF Inv, Finish, AggregateAnswers, SaveSession, Score
<1>1. TypeOK'
  BY DEF TypeOK, Phases
<1>2. Paced' /\ Apart'
  BY DEF Paced, Apart, Several
<1>3. Boards'
  BY DEF Boards, Board, Asked
<1> QED
  BY <1>1, <1>2, <1>3

\* Every step keeps the invariant.
LEMMA StepInv == Inv /\ [Next]_vars => Inv'
<1> SUFFICES ASSUME Inv, [Next]_vars PROVE Inv'
  OBVIOUS
<1>1. ASSUME NEW a \in Agents, First(a) PROVE Inv'
  BY <1>1, FirstInv DEF First
<1>2. ASSUME NEW a \in Agents, Ask(a) PROVE Inv'
  BY <1>2, AskInv
<1>3. ASSUME NEW a \in Agents, Again(a) PROVE Inv'
  <2>1. CASE RaiseAgain(a)
    <3>1. shown[a][a] \in Texts \cup {NoText}
      BY DEF Inv, TypeOK
    <3> QED
      BY <2>1, <3>1, AgainInv DEF RaiseAgain
  <2>2. ASSUME NEW text \in Texts, AnswerAgain(a, text) PROVE Inv'
    BY <2>2, AgainInv
  <2> QED
    BY <1>3, <2>1, <2>2 DEF Again
<1>4. CASE Collect
  BY <1>4, CollectInv
<1>5. CASE EndRound
  BY <1>5, EndRoundInv
<1>6. CASE Finish
  BY <1>6, FinishInv
<1>7. CASE UNCHANGED vars
  BY <1>7 DEF vars, Inv, TypeOK, Paced, Boards, Board, Asked, Apart, Several
<1> QED
  BY <1>1, <1>2, <1>3, <1>4, <1>5, <1>6, <1>7 DEF Next

\* The invariant holds throughout.
LEMMA Invariance == Spec => []Inv
<1> QED
  BY InitInv, StepInv, PTL DEF Spec

------------------------------------------------------------------------------
\* Type correctness; with it, that no more rounds are held than asked for.
THEOREM OrchestrationTypeCorrect == Spec => []TypeOK
<1>1. Inv => TypeOK
  BY DEF Inv
<1> QED
  BY <1>1, Invariance, PTL

\* However the tasks of a round interleave, all its prompts show the same
\* answers, and no failure of a peer.
THEOREM FairBoardAlways == Spec => []FairBoard
<1>1. Inv => FairBoard
  BY OrchestrationAssumption DEF Inv, Boards, FairBoard, Board, TypeOK
<1> QED
  BY <1>1, Invariance, PTL

\* An agent that failed at first is never heard again, and every other one is a
\* member.
THEOREM FailedStayOutAlways == Spec => []FailedStayOut
<1>1. Inv => FailedStayOut
  <2> SUFFICES ASSUME Inv, phase # "asking" PROVE FailedStayOut
    BY DEF FailedStayOut
  <2>1. errors \cap members = {} /\ errors \cup members = Agents
        /\ \A a \in errors : a \in Agents /\ answers[a] = Failed /\ ~Asked(a)
    BY DEF Inv, Apart, Boards
  <2>2. ASSUME NEW a \in errors, NEW b \in Agents PROVE shown[b][a] = NoText
    <3>1. CASE Asked(b)
      <4>1. shown[b] = Board(b) /\ b \in members /\ a # b /\ a \in Agents /\ a \notin members
        BY <2>1, <3>1 DEF Inv, Boards
      <4> QED
        BY <4>1 DEF Board
    <3>2. CASE ~Asked(b)
      BY <2>1, <3>2 DEF Asked, Blank
    <3> QED
      BY <3>1, <3>2
  <2> QED
    BY <2>1, <2>2 DEF FailedStayOut
<1> QED
  BY <1>1, Invariance, PTL

------------------------------------------------------------------------------
\* The rounds begin with nothing said.
LEMMA InitCouncil == Init => Deliberation!Init
  BY OrchestrationAssumption DEF Init, Request, Deliberation!Init, Blank

\* Every step is one of Council's, or changes nothing that Council sees.
LEMMA StepCouncil ==
    Inv /\ [Next]_vars => [Deliberation!Next]_(Deliberation!vars)
<1> SUFFICES ASSUME Inv, [Next]_vars PROVE [Deliberation!Next]_(Deliberation!vars)
  OBVIOUS
<1> USE DEF Deliberation!vars, Deliberation!Next
<1>1. ASSUME NEW a \in Agents, First(a) PROVE UNCHANGED Deliberation!vars
  BY <1>1 DEF First, AnswerFirst
<1>2. ASSUME NEW a \in Agents, Ask(a) PROVE UNCHANGED Deliberation!vars
  BY <1>2 DEF Ask
<1>3. ASSUME NEW a \in Agents, Again(a) PROVE UNCHANGED Deliberation!vars
  BY <1>3 DEF Again, RaiseAgain, AnswerAgain
<1>4. ASSUME Collect PROVE Deliberation!Convene
  BY <1>4 DEF Collect, Inv, TypeOK, Deliberation!Convene, Deliberation!Texts, Texts
<1>5. ASSUME EndRound PROVE Deliberation!Debate
  BY <1>5, EndRoundInv
     DEF EndRound, Inv, Paced, Deliberation!Debate, Deliberation!Texts, Texts,
         Deliberation!Several, Several
<1>6. ASSUME AggregateAnswers PROVE Deliberation!Close
  BY <1>6 DEF AggregateAnswers, Inv, Paced, Deliberation!Close, Deliberation!Several, Several
<1>7. ASSUME NEW ok \in BOOLEAN, SaveSession(ok) \/ Score(ok) PROVE UNCHANGED Deliberation!vars
  BY <1>7 DEF SaveSession, Score
<1>8. ASSUME UNCHANGED vars PROVE UNCHANGED Deliberation!vars
  BY <1>8 DEF vars
<1> QED
  BY <1>1, <1>2, <1>3, <1>4, <1>5, <1>6, <1>7, <1>8 DEF Next, Finish

\* The pipeline implements Council.
THEOREM CouncilImplemented == Spec => ImplementsCouncil
<1> QED
  BY InitCouncil, StepCouncil, Invariance, PTL DEF Spec, ImplementsCouncil, Deliberation!Spec

------------------------------------------------------------------------------
\* Whoever has answered is listed; after that, everybody.
Listed ==
    /\ phase = "asking" => ToSet(order) = {a \in Agents : answers[a] # NoText}
    /\ phase # "asking" => ToSet(order) = Agents

\* At first nobody has answered and nobody is listed.
LEMMA InitListed == Init => Listed
<1>1. ToSet(<<>>) = {}
  BY DEF ToSet
<1> QED
  BY <1>1 DEF Init, Listed, Blank

\* Every step keeps the list complete.
LEMMA StepListed == Inv /\ Listed /\ [Next]_vars => Listed'
<1> SUFFICES ASSUME Inv, Listed, [Next]_vars PROVE Listed'
  OBVIOUS
<1>1. ASSUME NEW a \in Agents, NEW text \in Texts, AnswerFirst(a, text) PROVE Listed'
  <2>1. phase' = "asking" /\ order' = Append(order, a) /\ order \in Seq(Agents)
        /\ answers' = [answers EXCEPT ![a] = text] /\ answers \in [Agents -> Texts \cup {NoText}]
        /\ text # NoText /\ ToSet(order) = {b \in Agents : answers[b] # NoText}
    BY <1>1, OrchestrationAssumption DEF AnswerFirst, Inv, TypeOK, Listed
  <2>2. ToSet(Append(order, a)) = ToSet(order) \cup {a}
    BY <2>1, AppendElements
  <2>3. {b \in Agents : answers'[b] # NoText} = {b \in Agents : answers[b] # NoText} \cup {a}
    BY <2>1
  <2> QED
    BY <2>1, <2>2, <2>3 DEF Listed
<1>2. CASE Collect
  <2>1. phase' # "asking" /\ ToSet(order) = Agents /\ ToSet(Listing) = Agents
        /\ order' = IF request.endpoint = "ask" THEN Listing ELSE order
    BY <1>2, OrchestrationAssumption DEF Collect, Listed
  <2> QED
    BY <2>1 DEF Listed
<1>3. ASSUME UNCHANGED order, phase # "asking", phase' # "asking" PROVE Listed'
  BY <1>3 DEF Listed
<1>4. ASSUME UNCHANGED <<order, phase, answers>> PROVE Listed'
  BY <1>4 DEF Listed
<1>5. ASSUME NEW a \in Agents, First(a) \/ Ask(a) \/ Again(a) PROVE Listed'
  BY <1>1, <1>4, <1>5 DEF First, Ask, Again, RaiseAgain, AnswerAgain
<1>6. CASE EndRound
  BY <1>3, <1>6 DEF EndRound
<1>7. CASE Finish
  BY <1>3, <1>7 DEF Finish, AggregateAnswers, SaveSession, Score
<1>8. CASE UNCHANGED vars
  BY <1>4, <1>8 DEF vars
<1> QED
  BY <1>2, <1>5, <1>6, <1>7, <1>8 DEF Next

\* The list is complete throughout.
LEMMA ListedAlways == Spec => []Listed
<1> QED
  BY InitListed, StepListed, Invariance, PTL DEF Spec

\* Who counts: those that did not fail, or everybody if all did.
LEMMA CountedNames ==
    ASSUME Inv, Listed, phase = "answered"
    PROVE  /\ Counted(order) \in Seq(Agents) \ {<<>>}
           /\ \A a \in ToSet(Counted(order)), b \in Agents : answers[a] = Failed => answers[b] = Failed
<1> DEFINE heard == {a \in Agents : answers[a] # Failed}
           clean == Keep(order, heard)
<1>1. order \in Seq(Agents) /\ ToSet(order) = Agents /\ Agents # {}
  BY OrchestrationAssumption DEF Inv, TypeOK, Listed
<1>2. clean \in Seq(Agents) /\ ToSet(clean) = Agents \cap heard
  BY <1>1, KeepElements
<1>3. order # <<>>
  BY <1>1 DEF ToSet
<1>4. Counted(order) = IF clean = <<>> THEN order ELSE clean
  BY DEF Counted
<1>5. clean = <<>> => ToSet(clean) = {}
  BY DEF ToSet
<1> HIDE DEF clean
<1>6. CASE clean = <<>>
  <2>1. \A b \in Agents : answers[b] = Failed
    BY <1>2, <1>5, <1>6
  <2> QED
    BY <1>1, <1>3, <1>4, <1>6, <2>1
<1>7. CASE clean # <<>>
  <2>1. \A a \in ToSet(clean) : answers[a] # Failed
    BY <1>2
  <2> QED
    BY <1>2, <1>4, <1>7, <2>1
<1> QED
  BY <1>6, <1>7

\* The verdict, from the names that count and the answers.
LEMMA VerdictReported ==
    ASSUME Inv, Listed, phase = "answered"
    PROVE  Reports(Verdict, Counted(order), answers, Distances)
<1>1. PICK names \in Seq(Agents) : names = Counted(order) /\ names # <<>>
  BY CountedNames
<1>2. PICK d : d = Distances
  OBVIOUS
<1>3. PICK v : v = Verdict /\ v = Aggregate(names, [i \in DOMAIN names |-> answers[names[i]]], d)
  BY <1>1, <1>2 DEF Verdict
<1>4. Reports(v, names, answers, d)
  BY <1>1, <1>3, Reported
<1> QED
  BY <1>1, <1>2, <1>3, <1>4

\* Every view that is reported belongs to the agent it is attributed to, and no
\* failure counts beside an answer, whatever order the answers came in.
THEOREM ViewsOwnedAlways == Spec => []ViewsOwned
<1>1. Inv /\ Listed => ViewsOwned
  <2> SUFFICES ASSUME Inv, Listed, phase = "answered" PROVE ViewsOwned
    BY DEF ViewsOwned
  <2>1. Reports(Verdict, Counted(order), answers, Distances)
    BY VerdictReported
  <2>2. \A a \in ToSet(Counted(order)), b \in Agents : answers[a] = Failed => answers[b] = Failed
    BY CountedNames
  <2> QED
    BY <2>1, <2>2 DEF ViewsOwned, Reports
<1> QED
  BY <1>1, Invariance, ListedAlways, PTL

\* The members of the majority are at a mean pairwise distance below the
\* threshold, however the clusters grew.
THEOREM MeanLinkageAlways == Spec => []MeanLinkage
<1>1. Inv /\ Listed => MeanLinkage
  <2> SUFFICES ASSUME Inv, Listed, phase = "answered", Len(Verdict.cluster) > 1 PROVE MeanLinkage
    BY DEF MeanLinkage
  <2>1. PICK names \in Seq(Agents) : Verdict.cluster \in Near(ToSet(names), Distances)
    BY VerdictReported, CountedNames DEF Reports
  <2>2. PICK c : c = Verdict.cluster
    OBVIOUS
  <2>3. PICK A : A = ToSet(names) /\ A \subseteq Agents
    <3>1. ToSet(names) \subseteq Agents
      BY <2>1 DEF ToSet
    <3> QED BY <3>1
  <2>4. PICK d : d = Distances
    OBVIOUS
  <2>5. Symmetric(d, A)
    <3>1. answers \in [Agents -> Texts] /\ request.metric \in Metrics
      BY DEF Inv, Paced, TypeOK, Request
    <3>2. \A t, u \in Texts : request.metric[t][u] \in 0 .. 100 /\ request.metric[t][u] = request.metric[u][t]
      BY <3>1, OrchestrationAssumption
    <3>3. \A a, b \in Agents : d[a][b] = request.metric[answers[a]][answers[b]]
      BY <2>4 DEF Distances
    <3> SUFFICES ASSUME NEW a \in A, NEW b \in A PROVE d[a][b] \in Nat /\ d[a][b] = d[b][a]
      BY DEF Symmetric
    <3>4. answers[a] \in Texts /\ answers[b] \in Texts /\ a \in Agents /\ b \in Agents
      BY <2>3, <3>1
    <3>5. d[a][b] = request.metric[answers[a]][answers[b]] /\ d[b][a] = request.metric[answers[b]][answers[a]]
      BY <3>3, <3>4
    <3>6. /\ request.metric[answers[a]][answers[b]] \in 0 .. 100
          /\ request.metric[answers[a]][answers[b]] = request.metric[answers[b]][answers[a]]
      BY <3>2, <3>4, Zenon
    <3> QED
      <4>1. 0 .. 100 \subseteq Nat
        OBVIOUS
      <4> QED
        BY <3>5, <3>6, <4>1, Zenon
  <2>6. PICK pairs : pairs = {p \in (DOMAIN c) \X (DOMAIN c) : p[1] < p[2]}
    OBVIOUS
  <2>7. c \in Near(A, d) /\ Len(c) > 1
    BY <2>1, <2>2, <2>3, <2>4
  <2>8. SumFunction(Apartness(c, d, pairs)) < SimilarityThreshold * Cardinality(pairs)
    BY <2>5, <2>6, <2>7, MeanOfNear
  <2> QED
    BY <2>2, <2>4, <2>6, <2>8 DEF MeanLinkage, Apartness
<1> QED
  BY <1>1, Invariance, ListedAlways, PTL
==============================================================================
