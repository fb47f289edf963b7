------------------------------ MODULE Recursion ------------------------------
(***************************************************************************)
(* Induction and recursion over the natural numbers, in forms without an   *)
(* operator as a parameter: a set stands for the property, a function for  *)
(* the step.  The other proof modules cite them for what recursive         *)
(* functions and folds compute.                                            *)
(***************************************************************************)
EXTENDS Lists, Integers, FiniteSetTheorems, WellFoundedInduction, TLAPS

\* A set of natural numbers has a least one.
LEMMA LeastNumber ==
    ASSUME NEW S \in SUBSET Nat, S # {}
    PROVE  \E n \in S : \A m \in S : n <= m
<1> DEFINE R == OpToRel(<, Nat)
<1>1. IsWellFoundedOn(R, Nat)
  BY NatLessThanWellFounded
<1>2. \A m, n \in Nat : m < n => <<m, n>> \in R
  BY Zenon DEF OpToRel
<1> HIDE DEF R
<1>3. PICK n \in S : \A m \in S : ~ (<<m, n>> \in R)
  BY <1>1, WFMin
<1>4. \A m \in S : ~ (m < n)
  BY <1>2, <1>3, S \subseteq Nat, Zenon
<1> QED
  BY <1>4

\* What holds of 0, and of n + 1 if of n, holds up to any bound.
LEMMA Induction ==
    ASSUME NEW n \in Nat, NEW S, 0 \in S, \A i \in 1 .. n : i - 1 \in S => i \in S
    PROVE  0 .. n \subseteq S
<1> DEFINE Rest == (0 .. n) \ S
<1> SUFFICES ASSUME Rest # {} PROVE FALSE
  OBVIOUS
<1>1. PICK i \in Rest : \A m \in Rest : i <= m
  <2>1. Rest \in SUBSET Nat
    OBVIOUS
  <2> HIDE DEF Rest
  <2> QED
    BY <2>1, LeastNumber
<1>2. i \in 1 .. n /\ i - 1 \in 0 .. n
  BY <1>1
<1>3. i - 1 \in S
  BY <1>1, <1>2
<1> QED
  BY <1>2, <1>3

------------------------------------------------------------------------------
(* Folds over sets.                                                        *)

\* The subsets of S with at most m elements.
UpTo(S, m) == {s \in SUBSET S : Cardinality(s) <= m}

\* Functions on a family of sets that take out one element after another:
\* choose[s] is the next of s, and step says what it adds.
Foldings(family, T, base, choose, step) ==
    {f \in [family -> T] :
        \A s \in family : f[s] = IF s = {} THEN base ELSE step[<<f[s \ {choose[s]}], choose[s]>>]}

\* If no step leaves T, a finite set can be folded.
LEMMA FoldingExists ==
    ASSUME NEW S, IsFiniteSet(S), NEW T, NEW base \in T, NEW step \in [T \X S -> T],
           NEW choose, \A s \in SUBSET S : s # {} => choose[s] \in s
    PROVE  Foldings(SUBSET S, T, base, choose, step) # {}
<1> DEFINE n == Cardinality(S)
           M == {m \in 0 .. n : Foldings(UpTo(S, m), T, base, choose, step) # {}}
<1>1. n \in Nat /\ \A s \in SUBSET S : IsFiniteSet(s) /\ Cardinality(s) \in 0 .. n
  BY FS_CardinalityType, FS_Subset
<1>2. \A s \in SUBSET S : Cardinality(s) = 0 <=> s = {}
  BY <1>1, FS_EmptySet
<1>3. \A s \in SUBSET S : s # {} => Cardinality(s \ {choose[s]}) = Cardinality(s) - 1
  BY <1>1, FS_RemoveElement
<1>4. 0 \in M
  <2>1. UpTo(S, 0) = {{}}
    BY <1>1, <1>2 DEF UpTo
  <2>2. [s \in {{}} |-> base] \in Foldings(UpTo(S, 0), T, base, choose, step)
    BY <2>1 DEF Foldings
  <2> QED
    BY <1>1, <2>2
<1>5. ASSUME NEW m \in 1 .. n, m - 1 \in M PROVE m \in M
  <2> DEFINE Less == UpTo(S, m - 1)
             Family == UpTo(S, m)
  <2>1. PICK f \in [Less -> T] :
            \A s \in Less : f[s] = IF s = {} THEN base ELSE step[<<f[s \ {choose[s]}], choose[s]>>]
    BY <1>5 DEF Foldings
  <2> DEFINE Next(s) == step[<<f[s \ {choose[s]}], choose[s]>>]
             g == [s \in Family |-> IF s \in Less THEN f[s] ELSE Next(s)]
  <2>2. Less \subseteq Family /\ {} \in Less
    BY <1>1, <1>2, m \in Nat, m - 1 \in Nat DEF UpTo
  <2>3. \A s \in Family : s # {} => choose[s] \in s /\ choose[s] \in S /\ s \ {choose[s]} \in Less
    BY <1>1, <1>3 DEF UpTo
  <2>4. \A s \in Family : s \notin Less => s # {}
    BY <2>2
  <2>5. \A s \in Family : s # {} => Next(s) \in T
    BY <2>1, <2>3
  <2>6. g \in [Family -> T]
    <3> HIDE DEF Next, Less, Family
    <3> QED
      BY <2>1, <2>4, <2>5
  <2>7. \A s \in Less : g[s] = f[s]
    BY <2>2
  <2>8. \A s \in Family : g[s] = IF s = {} THEN base ELSE step[<<g[s \ {choose[s]}], choose[s]>>]
    <3> TAKE s \in Family
    <3>1. CASE s \in Less
      <4> HIDE DEF g, Less, Family
      <4> QED
        BY <2>1, <2>2, <2>3, <2>7, <3>1
    <3>2. CASE s \notin Less
      <4>1. g[s] = step[<<f[s \ {choose[s]}], choose[s]>>] /\ s # {}
        BY <2>4, <3>2
      <4> HIDE DEF g, Less, Family
      <4> QED
        BY <2>3, <2>7, <4>1
    <3> QED
      BY <3>1, <3>2
  <2>9. g \in Foldings(Family, T, base, choose, step)
    <3> HIDE DEF g, Less, Family
    <3> QED
      BY <2>6, <2>8 DEF Foldings
  <2> QED
    BY <2>9
<1>6. n \in M
  <2> HIDE DEF M, n
  <2> QED
    BY <1>1, <1>4, <1>5, Induction
<1>7. UpTo(S, n) = SUBSET S
  BY <1>1 DEF UpTo
<1> QED
  BY <1>6, <1>7

------------------------------------------------------------------------------
(* Folds over lists.                                                       *)

\* The last of the first n numbers is n, and the others come before it.
LEMMA LastOfFirst ==
    ASSUME NEW n \in Nat, NEW s \in SUBSET (1 .. n), s # {}
    PROVE  Max(s) \in s /\ \A m \in 1 .. n : Max(1 .. m) = m
<1>1. \E x \in s : \A y \in s : x >= y
  <2> DEFINE Distances == {n - x : x \in s}
  <2>1. \A x \in s : n - x \in Nat
    OBVIOUS
  <2>1a. Distances \in SUBSET Nat /\ Distances # {}
    BY <2>1
  <2>2. PICK d \in Distances : \A e \in Distances : d <= e
    <3> HIDE DEF Distances
    <3> QED BY <2>1a, LeastNumber
  <2>3. PICK x \in s : d = n - x
    OBVIOUS
  <2>4. \A y \in s : n - x <= n - y
    BY <2>2, <2>3
  <2> QED BY <2>4
<1>2. \A m \in 1 .. n : m \in 1 .. m /\ \A y \in 1 .. m : m >= y
  OBVIOUS
<1>3. \A m \in 1 .. n : \A x \in 1 .. m : (\A y \in 1 .. m : x >= y) => x = m
  OBVIOUS
<1>4. \A m \in 1 .. n : Max(1 .. m) = m
  BY <1>2, <1>3 DEF Max
<1> QED BY <1>1, <1>4 DEF Max

\* The first i numbers without the last are the first i - 1.
LEMMA FirstNumbers ==
    ASSUME NEW n \in Nat, NEW i \in 1 .. n
    PROVE  /\ 1 .. i \in SUBSET (1 .. n) /\ 1 .. i # {}
           /\ Max(1 .. i) = i /\ (1 .. i) \ {Max(1 .. i)} = 1 .. (i - 1)
<1>1. 1 .. i \in SUBSET (1 .. n) /\ 1 .. i # {}
  OBVIOUS
<1>2. Max(1 .. i) = i
  BY <1>1, LastOfFirst
<1>3. (1 .. i) \ {i} = 1 .. (i - 1)
  OBVIOUS
<1> QED BY <1>1, <1>2, <1>3

\* What folds a list of n elements from its end, as FoldLeft does.
FromTheEnd(n, T, base, step) ==
    {f \in [SUBSET (1 .. n) -> T] : \A s \in SUBSET (1 .. n) :
        f[s] = IF s = {} THEN base ELSE step[<<f[s \ {Max(s)}], Max(s)>>]}

\* A fold of a list in a set of results has them all.
LEMMA FoldLeftExists ==
    ASSUME NEW n \in Nat, NEW T, NEW base \in T, NEW step \in [T \X (1 .. n) -> T]
    PROVE  FromTheEnd(n, T, base, step) # {}
<1> DEFINE D == 1 .. n
           choose == [s \in SUBSET D |-> Max(s)]
<1>1. IsFiniteSet(D)
  BY FS_Interval
<1>2. \A s \in SUBSET D : choose[s] = Max(s)
  OBVIOUS
<1>3. \A s \in SUBSET D : s # {} => choose[s] \in s
  BY <1>2, LastOfFirst
<1>4. Foldings(SUBSET D, T, base, choose, step) # {}
  <2> HIDE DEF D, choose
  <2> SUFFICES step \in [T \X D -> T]
    BY <1>1, <1>3, FoldingExists
  <2> QED BY DEF D
<1> QED BY <1>2, <1>4 DEF Foldings, FromTheEnd

\* Runs of n steps.
Runs(n, T, base, step) ==
    {f \in [0 .. n -> T] : f[0] = base /\ \A i \in 1 .. n : f[i] = step[<<f[i - 1], i>>]}

\* If no step leaves T, there is a run of every length.
LEMMA RunExists ==
    ASSUME NEW n \in Nat, NEW T, NEW base \in T, NEW step \in [T \X (1 .. n) -> T]
    PROVE  Runs(n, T, base, step) # {}
<1>1. PICK g \in FromTheEnd(n, T, base, step) : TRUE
  BY FoldLeftExists
<1>2. /\ g \in [SUBSET (1 .. n) -> T]
      /\ \A s \in SUBSET (1 .. n) : g[s] = IF s = {} THEN base ELSE step[<<g[s \ {Max(s)}], Max(s)>>]
  BY <1>1 DEF FromTheEnd
<1> DEFINE f == [i \in 0 .. n |-> g[1 .. i]]
<1>3. \A i \in 0 .. n : 1 .. i \in SUBSET (1 .. n)
  OBVIOUS
<1>4. f \in [0 .. n -> T]
  BY <1>2, <1>3
<1>5. f[0] = base
  <2>1. 1 .. 0 = {} /\ {} \in SUBSET (1 .. n)
    OBVIOUS
  <2>2. g[{}] = base
    BY <1>2, <2>1
  <2> QED BY <2>1, <2>2
<1>6. ASSUME NEW i \in 1 .. n PROVE f[i] = step[<<f[i - 1], i>>]
  <2>1. f[i] = g[1 .. i] /\ f[i - 1] = g[1 .. (i - 1)]
    OBVIOUS
  <2>2. g[1 .. i] = step[<<g[(1 .. i) \ {Max(1 .. i)}], Max(1 .. i)>>]
    BY <1>2, FirstNumbers
  <2> HIDE DEF f
  <2> QED BY <2>1, <2>2, FirstNumbers
<1> HIDE DEF f
<1> QED BY <1>4, <1>5, <1>6 DEF Runs

\* Functions on 0 .. n whose value at i is a step from its values above i.
Descents(n, T, step) == {f \in [0 .. n -> T] : \A i \in 0 .. n : f[i] = step[<<i, f>>]}

\* A step that looks only at the values above i gives such a function.
LEMMA DescentExists ==
    ASSUME NEW n \in Nat, NEW T, T # {}, NEW step \in [(0 .. n) \X [0 .. n -> T] -> T],
           \A i \in 0 .. n : \A f, g \in [0 .. n -> T] :
               (\A j \in 0 .. n : i < j => f[j] = g[j]) => step[<<i, f>>] = step[<<i, g>>]
    PROVE  Descents(n, T, step) # {}
<1> DEFINE F == [0 .. n -> T]
           From(f, m) == \A i \in 0 .. n : n + 1 - m <= i => f[i] = step[<<i, f>>]
           Good == {m \in 0 .. n + 1 : \E f \in F : From(f, m)}
<1>1. 0 \in Good
  <2>1. PICK t \in T : TRUE
    OBVIOUS
  <2> DEFINE f == [i \in 0 .. n |-> t]
  <2>2. f \in F /\ From(f, 0) /\ 0 \in 0 .. n + 1
    OBVIOUS
  <2> HIDE DEF f, F, From
  <2> QED BY <2>2
<1>2. ASSUME NEW m \in 1 .. n + 1, m - 1 \in Good PROVE m \in Good
  <2>1. PICK f \in F : From(f, m - 1)
    BY <1>2
  <2> DEFINE k == n + 1 - m
             g == [f EXCEPT ![k] = step[<<k, f>>]]
  <2>2. k \in 0 .. n /\ n + 1 - (m - 1) = k + 1
    OBVIOUS
  <2> HIDE DEF k
  <2>3. step[<<k, f>>] \in T
    BY <2>1, <2>2
  <2>4. g \in F /\ g[k] = step[<<k, f>>] /\ \A j \in 0 .. n : j # k => g[j] = f[j]
    BY <2>1, <2>2, <2>3
  <2> HIDE DEF g
  <2>5. \A i \in 0 .. n : k <= i => g[i] = step[<<i, g>>]
    <3> TAKE i \in 0 .. n
    <3> HAVE k <= i
    <3>1. \A j \in 0 .. n : i < j => f[j] = g[j]
      BY <2>2, <2>4
    <3>2. step[<<i, f>>] = step[<<i, g>>]
      BY <2>1, <2>4, <3>1
    <3>3. CASE i = k
      BY <2>4, <3>2, <3>3
    <3>4. CASE i # k
      <4>1. k + 1 <= i
        BY <2>2, <3>4
      <4> QED BY <2>1, <2>2, <2>4, <3>2, <3>4, <4>1
    <3> QED BY <3>3, <3>4
  <2>6. From(g, m)
    BY <2>5 DEF k
  <2>7. m \in 0 .. n + 1 /\ \E h \in F : From(h, m)
    BY <2>4, <2>6
  <2> HIDE DEF F, From
  <2> QED BY <2>7
<1>3. n + 1 \in Good
  <2> DEFINE N == n + 1
  <2>1. N \in Nat /\ N \in 0 .. N
    OBVIOUS
  <2> HIDE DEF Good, N
  <2>2. \A i \in 1 .. N : i - 1 \in Good => i \in Good
    BY <1>2 DEF N
  <2>3. 0 .. N \subseteq Good
    BY <1>1, <2>1, <2>2, Induction
  <2> QED BY <2>1, <2>3 DEF N
<1>4. PICK f \in F : From(f, n + 1)
  BY <1>3
<1>5. \A i \in 0 .. n : n + 1 - (n + 1) <= i
  OBVIOUS
<1> QED BY <1>4, <1>5 DEF Descents

\* What Keep goes through.
Kept(list, wanted, S) ==
    {h \in [0 .. Len(list) -> Seq(S)] :
        /\ h[0] = <<>>
        /\ \A i \in 1 .. Len(list) :
              h[i] = IF list[i] \in wanted THEN Append(h[i - 1], list[i]) ELSE h[i - 1]}

\* Keep is the last of its stages.
LEMMA KeepRuns ==
    ASSUME NEW S, NEW list \in Seq(S), NEW wanted
    PROVE  \E h \in Kept(list, wanted, S) : Keep(list, wanted) = h[Len(list)]
<1> DEFINE n == Len(list)
           Add(kept, i) == IF list[i] \in wanted THEN Append(kept, list[i]) ELSE kept
           step == [p \in Seq(S) \X (1 .. n) |-> Add(p[1], p[2])]
           Unfolded(f) == [s \in SUBSET (1 .. n) |->
                             IF s = {} THEN <<>> ELSE Add(f[s \ {Max(s)}], Max(s))]
<1>1. n \in Nat /\ 1 .. n = DOMAIN list /\ <<>> \in Seq(S)
  OBVIOUS
<1>2. step \in [Seq(S) \X (1 .. n) -> Seq(S)]
  OBVIOUS
<1>3. \A kept \in Seq(S), i \in 1 .. n : step[<<kept, i>>] = Add(kept, i) /\ Add(kept, i) \in Seq(S)
  OBVIOUS
<1>4. PICK f \in [SUBSET (1 .. n) -> Seq(S)] : \A s \in SUBSET (1 .. n) :
          f[s] = IF s = {} THEN <<>> ELSE step[<<f[s \ {Max(s)}], Max(s)>>]
  <2> DEFINE T == Seq(S)
             empty == <<>>
  <2>1. n \in Nat /\ empty \in T /\ step \in [T \X (1 .. n) -> T]
    BY <1>1, <1>2
  <2>2. FromTheEnd(n, T, empty, step) # {}
    <3> HIDE DEF n, step, T, empty
    <3> QED BY <2>1, FoldLeftExists
  <2> QED BY <2>2 DEF FromTheEnd
<1> HIDE DEF step, Add
<1>5. f = Unfolded(f)
  <2>1. ASSUME NEW s \in SUBSET (1 .. n), s # {}
        PROVE  step[<<f[s \ {Max(s)}], Max(s)>>] = Add(f[s \ {Max(s)}], Max(s))
    <3>1. Max(s) \in 1 .. n
      BY <1>1, <2>1, LastOfFirst
    <3> QED BY <1>3, <3>1
  <2> QED BY <1>4, <2>1
<1> DEFINE iter == CHOOSE g : g = Unfolded(g)
<1>6. iter = Unfolded(iter)
  <2> HIDE DEF Unfolded
  <2> QED BY <1>5
<1>7. Keep(list, wanted) = iter[1 .. n]
  BY <1>1 DEF Keep, FoldLeft, MapThenFoldSet, Add
<1> HIDE DEF iter
<1> DEFINE h == [i \in 0 .. n |-> iter[1 .. i]]
           Good == {i \in 0 .. n : h[i] \in Seq(S)}
<1>8. h[0] = <<>>
  <2>1. 1 .. 0 = {} /\ {} \in SUBSET (1 .. n)
    OBVIOUS
  <2>2. iter[{}] = <<>>
    BY <1>6, <2>1
  <2> QED BY <1>1, <2>1, <2>2
<1>9. \A i \in 1 .. n : h[i] = Add(h[i - 1], i)
  <2> TAKE i \in 1 .. n
  <2>1. h[i] = iter[1 .. i] /\ h[i - 1] = iter[1 .. (i - 1)]
    BY <1>1
  <2>2. iter[1 .. i] = Add(iter[(1 .. i) \ {Max(1 .. i)}], Max(1 .. i))
    BY <1>1, <1>6, FirstNumbers
  <2> HIDE DEF h, n
  <2> QED BY <1>1, <2>1, <2>2, FirstNumbers
<1>10. 0 .. n \subseteq Good
  <2> HIDE DEF h, n
  <2>1. 0 \in Good
    <3>1. h[0] \in Seq(S)
      BY <1>1, <1>8, Zenon
    <3> QED BY <1>1, <3>1
  <2>2. \A i \in 1 .. n : i - 1 \in Good => i \in Good
    <3> TAKE i \in 1 .. n
    <3>1. i \in 0 .. n /\ h[i] = Add(h[i - 1], i)
      BY <1>1, <1>9
    <3>2. h[i - 1] \in Seq(S) => h[i] \in Seq(S)
      BY <1>3, <3>1
    <3> QED BY <3>1, <3>2
  <2> HIDE DEF Good
  <2> QED BY <1>1, <2>1, <2>2, Induction
<1>11. h \in Kept(list, wanted, S)
  <2>1. h \in [0 .. n -> Seq(S)]
    BY <1>10
  <2> HIDE DEF h
  <2> QED BY <1>8, <1>9, <2>1 DEF Kept, Add
<1>12. h[n] = iter[1 .. n]
  BY <1>1
<1> QED BY <1>7, <1>11, <1>12

\* Where the elements of a list that was kept come from, in the first m of
\* the list: in their order, none before its place, and no other is wanted.
Origins(kept, list, wanted, m) ==
    {e \in [1 .. Len(kept) -> 1 .. m] :
        /\ \A k \in 1 .. Len(kept) : kept[k] = list[e[k]] /\ kept[k] \in wanted /\ k <= e[k]
        /\ \A k, l \in 1 .. Len(kept) : k < l => e[k] < e[l]
        /\ \A i \in 1 .. m : list[i] \in wanted => \E k \in 1 .. Len(kept) : e[k] = i}

\* Whatever is kept comes from somewhere, and the rest is not wanted.
LEMMA KeepOrigins ==
    ASSUME NEW S, NEW list \in Seq(S), NEW wanted
    PROVE  /\ Keep(list, wanted) \in Seq(S)
           /\ Origins(Keep(list, wanted), list, wanted, Len(list)) # {}
<1> DEFINE n == Len(list)
<1>1. PICK h \in Kept(list, wanted, S) : Keep(list, wanted) = h[n]
  BY KeepRuns
<1>2. /\ n \in Nat /\ h \in [0 .. n -> Seq(S)] /\ h[0] = <<>>
      /\ \A i \in 1 .. n : h[i] = IF list[i] \in wanted THEN Append(h[i - 1], list[i]) ELSE h[i - 1]
  BY <1>1 DEF Kept
<1> DEFINE Good == {i \in 0 .. n : Origins(h[i], list, wanted, i) # {}}
<1>3. 0 \in Good
  <2>1. [k \in 1 .. 0 |-> k] \in Origins(h[0], list, wanted, 0)
    BY <1>2 DEF Origins
  <2> QED BY <1>2, <2>1
<1>4. ASSUME NEW i \in 1 .. n, i - 1 \in Good PROVE i \in Good
  <2>1. PICK e : e \in Origins(h[i - 1], list, wanted, i - 1)
    BY <1>4
  <2> DEFINE len == Len(h[i - 1])
  <2>2. i \in Nat /\ i - 1 \in 0 .. n /\ i \in 0 .. n /\ h[i - 1] \in Seq(S) /\ len \in Nat /\ list[i] \in S
    BY <1>2, <1>4
  <2>3. /\ e \in [1 .. len -> 1 .. (i - 1)]
        /\ \A k \in 1 .. len : h[i - 1][k] = list[e[k]] /\ h[i - 1][k] \in wanted /\ k <= e[k]
        /\ \A k, l \in 1 .. len : k < l => e[k] < e[l]
        /\ \A j \in 1 .. i - 1 : list[j] \in wanted => \E k \in 1 .. len : e[k] = j
    BY <2>1 DEF Origins
  <2>4. CASE list[i] \notin wanted
    <3>1. h[i] = h[i - 1]
      BY <1>2, <2>4
    <3>2. e \in [1 .. len -> 1 .. i]
      BY <2>2, <2>3
    <3>3. \A j \in 1 .. i : list[j] \in wanted => j \in 1 .. i - 1
      BY <2>2, <2>4
    <3>4. e \in Origins(h[i], list, wanted, i)
      BY <2>3, <3>1, <3>2, <3>3 DEF Origins
    <3> QED BY <2>2, <3>4
  <2>5. CASE list[i] \in wanted
    <3> DEFINE d == [k \in 1 .. len + 1 |-> IF k = len + 1 THEN i ELSE e[k]]
    <3>1. h[i] = Append(h[i - 1], list[i])
      BY <1>2, <2>5
    <3>2. /\ Len(h[i]) = len + 1 /\ h[i][len + 1] = list[i]
          /\ \A k \in 1 .. len : h[i][k] = h[i - 1][k]
      BY <2>2, <3>1
    <3>3. len + 1 <= i
      <4>1. CASE len = 0
        BY <2>2, <4>1
      <4>2. CASE len # 0
        <5>1. len \in 1 .. len
          BY <2>2, <4>2
        <5>2. len <= e[len] /\ e[len] \in 1 .. (i - 1)
          BY <2>3, <5>1
        <5> QED BY <2>2, <5>2
      <4> QED BY <4>1, <4>2
    <3>4. d \in [1 .. len + 1 -> 1 .. i]
      BY <2>2, <2>3
    <3>5. \A k \in 1 .. len : d[k] = e[k] /\ k \in 1 .. len + 1
      BY <2>2
    <3>6. d[len + 1] = i /\ len + 1 \in 1 .. len + 1
      BY <2>2
    <3>7. \A k \in 1 .. len + 1 : k = len + 1 \/ k \in 1 .. len
      BY <2>2
    <3> HIDE DEF d
    <3>8. \A k \in 1 .. len + 1 : h[i][k] = list[d[k]] /\ h[i][k] \in wanted /\ k <= d[k]
      BY <2>2, <2>3, <2>5, <3>2, <3>3, <3>5, <3>6, <3>7
    <3>9. \A k, l \in 1 .. len + 1 : k < l => d[k] < d[l]
      <4> TAKE k, l \in 1 .. len + 1
      <4> HAVE k < l
      <4>1. k \in 1 .. len
        BY <2>2
      <4>2. CASE l \in 1 .. len
        BY <2>3, <3>5, <4>1, <4>2
      <4>3. CASE l = len + 1
        <5>1. e[k] \in 1 .. i - 1
          BY <2>3, <4>1
        <5> QED BY <2>2, <3>5, <3>6, <4>1, <4>3, <5>1
      <4> QED BY <3>7, <4>2, <4>3
    <3>10. \A j \in 1 .. i : list[j] \in wanted => \E k \in 1 .. len + 1 : d[k] = j
      <4> TAKE j \in 1 .. i
      <4> HAVE list[j] \in wanted
      <4>1. CASE j = i
        BY <3>6, <4>1
      <4>2. CASE j # i
        <5>1. j \in 1 .. i - 1
          BY <2>2, <4>2
        <5>2. PICK k \in 1 .. len : e[k] = j
          BY <2>3, <5>1
        <5> QED BY <3>5, <5>2
      <4> QED BY <4>1, <4>2
    <3>11. d \in Origins(h[i], list, wanted, i)
      BY <3>2, <3>4, <3>8, <3>9, <3>10 DEF Origins
    <3> QED BY <2>2, <3>11
  <2> QED BY <2>4, <2>5
<1>5. 0 .. n \subseteq Good
  <2> HIDE DEF Good, n
  <2> QED BY <1>2, <1>3, <1>4, Induction
<1> QED BY <1>1, <1>2, <1>5

\* What is kept is what of the list is wanted.
LEMMA KeepElements ==
    ASSUME NEW S, NEW list \in Seq(S), NEW wanted
    PROVE  /\ Keep(list, wanted) \in Seq(S)
           /\ ToSet(Keep(list, wanted)) = ToSet(list) \cap wanted
<1> DEFINE kept == Keep(list, wanted)
<1>1. kept \in Seq(S) /\ Origins(kept, list, wanted, Len(list)) # {}
  BY KeepOrigins
<1> HIDE DEF kept
<1>2. PICK e \in Origins(kept, list, wanted, Len(list)) : TRUE
  BY <1>1
<1>3. DOMAIN kept = 1 .. Len(kept) /\ DOMAIN list = 1 .. Len(list)
  BY <1>1
<1>4. /\ e \in [DOMAIN kept -> DOMAIN list]
      /\ \A k \in DOMAIN kept : kept[k] = list[e[k]] /\ kept[k] \in wanted
      /\ \A i \in DOMAIN list : list[i] \in wanted => \E k \in DOMAIN kept : e[k] = i
  BY <1>2, <1>3 DEF Origins
<1>5. ToSet(kept) = ToSet(list) \cap wanted
  BY <1>4 DEF ToSet
<1> QED
  BY <1>1, <1>5 DEF kept

------------------------------------------------------------------------------
(* Sums over finite sets.                                                  *)

\* The element that the folds of the libraries take out of a set first.
Some(s) == CHOOSE x \in s : TRUE

\* What holds of the empty set, and of a set if it does without that element.
LEMMA SubsetInduction ==
    ASSUME NEW S, IsFiniteSet(S), NEW Good, {} \in Good,
           \A s \in SUBSET S : s # {} /\ s \ {Some(s)} \in Good => s \in Good
    PROVE  SUBSET S \subseteq Good
<1> DEFINE n == Cardinality(S)
           M == {m \in 0 .. n : \A s \in SUBSET S : Cardinality(s) <= m => s \in Good}
<1>1. n \in Nat /\ \A s \in SUBSET S : IsFiniteSet(s) /\ Cardinality(s) \in 0 .. n
  BY FS_CardinalityType, FS_Subset
<1>2. \A s \in SUBSET S : Cardinality(s) = 0 <=> s = {}
  BY <1>1, FS_EmptySet
<1>3. \A s \in SUBSET S : s # {} => Some(s) \in s
  BY DEF Some
<1>4. \A s \in SUBSET S : s # {} => Cardinality(s \ {Some(s)}) = Cardinality(s) - 1
  BY <1>1, <1>3, FS_RemoveElement
<1>5. 0 \in M
  <2>1. ASSUME NEW s \in SUBSET S, Cardinality(s) <= 0 PROVE s \in Good
    <3>1. Cardinality(s) = 0
      BY <1>1, <2>1
    <3> QED BY <1>2, <3>1
  <2> QED BY <1>1, <2>1
<1>6. ASSUME NEW m \in 1 .. n, m - 1 \in M PROVE m \in M
  <2> SUFFICES ASSUME NEW s \in SUBSET S, Cardinality(s) <= m PROVE s \in Good
    OBVIOUS
  <2>1. CASE s = {}
    BY <2>1
  <2>2. CASE s # {}
    <3>1. s \ {Some(s)} \in SUBSET S /\ Cardinality(s \ {Some(s)}) <= m - 1
      BY <1>1, <1>4, <2>2
    <3> QED BY <1>6, <2>2, <3>1
  <2> QED BY <2>1, <2>2
<1>7. n \in M
  <2> HIDE DEF M, n
  <2> QED BY <1>1, <1>5, <1>6, Induction
<1> QED
  BY <1>1, <1>7

\* The ways to add up f over the subsets of S.
Sums(S, f) ==
    {g \in [SUBSET S -> Nat] :
        \A s \in SUBSET S : g[s] = IF s = {} THEN 0 ELSE f[Some(s)] + g[s \ {Some(s)}]}

\* Every finite set of numbers can be added up.
LEMMA SumsExist ==
    ASSUME NEW S, IsFiniteSet(S), NEW f \in [S -> Nat]
    PROVE  Sums(S, f) # {}
<1> DEFINE step == [p \in Nat \X S |-> f[p[2]] + p[1]]
           choose == [s \in SUBSET S |-> Some(s)]
<1>1. step \in [Nat \X S -> Nat] /\ 0 \in Nat
  OBVIOUS
<1>2. \A s \in SUBSET S : s # {} => choose[s] \in s /\ choose[s] = Some(s)
  BY DEF Some
<1>3. \A m \in Nat, x \in S : step[<<m, x>>] = f[x] + m
  OBVIOUS
<1> HIDE DEF step, choose
<1>4. Foldings(SUBSET S, Nat, 0, choose, step) # {}
  BY <1>1, <1>2, FoldingExists
<1>5. PICK g \in [SUBSET S -> Nat] :
          \A s \in SUBSET S : g[s] = IF s = {} THEN 0 ELSE step[<<g[s \ {choose[s]}], choose[s]>>]
  BY <1>4 DEF Foldings
<1>6. ASSUME NEW s \in SUBSET S PROVE g[s] = IF s = {} THEN 0 ELSE f[Some(s)] + g[s \ {Some(s)}]
  <2>1. CASE s = {}
    BY <1>5, <2>1
  <2>2. CASE s # {}
    <3>1. choose[s] = Some(s) /\ Some(s) \in S /\ g[s \ {Some(s)}] \in Nat
      BY <1>2, <1>5, <2>2
    <3>2. g[s] = step[<<g[s \ {Some(s)}], Some(s)>>]
      BY <1>5, <2>2, <3>1
    <3> QED BY <1>3, <2>2, <3>1, <3>2
  <2> QED BY <2>1, <2>2
<1> QED
  BY <1>5, <1>6 DEF Sums

\* What the folds of the libraries unfold to.
Adding(S, f, iter) == [t \in SUBSET S |-> IF t = {} THEN 0 ELSE f[Some(t)] + iter[t \ {Some(t)}]]

\* The choice that stands for a sum in the libraries is one of them.
LEMMA SumIterates ==
    ASSUME NEW S, IsFiniteSet(S), NEW f \in [S -> Nat]
    PROVE  (CHOOSE iter : iter = Adding(S, f, iter)) \in Sums(S, f)
<1> DEFINE iter == CHOOSE g : g = Adding(S, f, g)
<1>1. PICK g \in Sums(S, f) : TRUE
  BY SumsExist
<1>2. g = Adding(S, f, g)
  BY <1>1 DEF Sums, Adding
<1>3. iter = Adding(S, f, iter)
  BY <1>2
<1> HIDE DEF iter
<1>4. /\ DOMAIN iter = SUBSET S /\ iter = [t \in SUBSET S |-> iter[t]]
      /\ \A t \in SUBSET S : iter[t] = IF t = {} THEN 0 ELSE f[Some(t)] + iter[t \ {Some(t)}]
  BY <1>3 DEF Adding
<1> DEFINE Good == {t \in SUBSET S : iter[t] \in Nat}
<1>5. {} \in Good
  <2>1. iter[{}] = 0
    BY <1>4
  <2> QED BY <2>1
<1>6. ASSUME NEW t \in SUBSET S, t # {}, t \ {Some(t)} \in Good PROVE t \in Good
  <2>1. Some(t) \in t
    BY <1>6 DEF Some
  <2>2. iter[t] = f[Some(t)] + iter[t \ {Some(t)}] /\ f[Some(t)] \in Nat
    BY <1>4, <1>6, <2>1
  <2> QED BY <1>6, <2>2
<1>7. SUBSET S \subseteq Good
  <2> HIDE DEF Good
  <2> QED BY <1>5, <1>6, SubsetInduction
<1>8. iter \in [SUBSET S -> Nat]
  BY <1>4, <1>7
<1>9. iter \in Sums(S, f)
  BY <1>4, <1>8 DEF Sums
<1> QED
  BY <1>9 DEF iter

\* A sum of numbers up to k is at most k for each that is not 0.
LEMMA SumSparse ==
    ASSUME NEW S, IsFiniteSet(S), NEW k \in Nat, NEW f \in [S -> 0 .. k], NEW g \in Sums(S, f),
           NEW T \in SUBSET S, \A x \in S \ T : f[x] = 0
    PROVE  g[S] \in 0 .. (k * Cardinality(T))
<1> DEFINE Good == {s \in SUBSET S : g[s] <= k * Cardinality(s \cap T)}
<1>1. \A s \in SUBSET S : IsFiniteSet(s \cap T) /\ Cardinality(s \cap T) \in Nat /\ g[s] \in Nat
  BY FS_CardinalityType, FS_Subset DEF Sums
<1>2. {} \in Good
  <2>1. g[{}] = 0 /\ {} \cap T = {}
    BY DEF Sums
  <2>2. Cardinality({}) = 0
    BY FS_EmptySet
  <2> QED BY <2>1, <2>2
<1>3. ASSUME NEW s \in SUBSET S, s # {}, s \ {Some(s)} \in Good PROVE s \in Good
  <2> DEFINE x == Some(s)
             r == s \ {x}
             c == Cardinality(r \cap T)
  <2>1. x \in s /\ x \in S
    BY <1>3 DEF Some
  <2>2. r \in SUBSET S /\ c \in Nat /\ g[r] \in Nat /\ g[s] \in Nat
        /\ IsFiniteSet(s \cap T) /\ Cardinality(s \cap T) \in Nat
    <3>1. r \in SUBSET S
      OBVIOUS
    <3> HIDE DEF x, r
    <3> QED BY <1>1, <3>1
  <2>3. g[s] = f[x] + g[r] /\ f[x] \in 0 .. k
    BY <1>3, <2>1 DEF Sums
  <2>4. g[r] <= k * c
    BY <1>3
  <2>5. CASE x \in T
    <3>1. r \cap T = (s \cap T) \ {x} /\ x \in s \cap T
      BY <2>1, <2>5
    <3>2. Cardinality((s \cap T) \ {x}) = Cardinality(s \cap T) - 1
      BY <2>2, <3>1, FS_RemoveElement
    <3>3. Cardinality(s \cap T) = c + 1
      <4>1. c = Cardinality(s \cap T) - 1
        BY <3>1, <3>2, Zenon
      <4> HIDE DEF c
      <4> QED BY <2>2, <4>1
    <3>4. k * (c + 1) = k * c + k /\ k * c \in Nat
      BY <2>2
    <3> HIDE DEF x, r, c
    <3> QED BY <2>2, <2>3, <2>4, <3>3, <3>4
  <2>6. CASE x \notin T
    <3>1. s \cap T = r \cap T /\ f[x] = 0
      BY <2>1, <2>6
    <3>2. Cardinality(s \cap T) = c
      BY <3>1, Zenon
    <3> HIDE DEF x, r, c
    <3> QED BY <2>2, <2>3, <2>4, <3>1, <3>2
  <2> QED BY <2>5, <2>6
<1>4. S \in Good
  <2> HIDE DEF Good
  <2> QED BY <1>2, <1>3, SubsetInduction
<1>5. S \cap T = T /\ S \in SUBSET S
  OBVIOUS
<1>6. g[S] <= k * Cardinality(T) /\ Cardinality(T) \in Nat /\ g[S] \in Nat
  BY <1>1, <1>4, <1>5
<1> QED
  BY <1>6

\* A sum of numbers up to k is at most k for each of them.
LEMMA SumBounded ==
    ASSUME NEW S, IsFiniteSet(S), NEW k \in Nat, NEW f \in [S -> 0 .. k], NEW g \in Sums(S, f)
    PROVE  g[S] \in 0 .. (k * Cardinality(S))
<1>1. \A x \in S \ S : f[x] = 0
  OBVIOUS
<1>2. S \in SUBSET S
  OBVIOUS
<1> QED
  BY <1>1, <1>2, SumSparse

\* Two sums of numbers that differ at one place at most differ by as much.
LEMMA SumChanged ==
    ASSUME NEW S, IsFiniteSet(S), NEW f \in [S -> Nat], NEW h \in [S -> Nat], NEW x \in S,
           \A y \in S : y # x => f[y] = h[y],
           NEW g \in Sums(S, f), NEW k \in Sums(S, h)
    PROVE  g[S] + h[x] = k[S] + f[x]
<1> DEFINE Good == {s \in SUBSET S : IF x \in s THEN g[s] + h[x] = k[s] + f[x] ELSE g[s] = k[s]}
<1>1. /\ \A s \in SUBSET S : g[s] \in Nat /\ k[s] \in Nat
      /\ \A s \in SUBSET S : g[s] = IF s = {} THEN 0 ELSE f[Some(s)] + g[s \ {Some(s)}]
      /\ \A s \in SUBSET S : k[s] = IF s = {} THEN 0 ELSE h[Some(s)] + k[s \ {Some(s)}]
  BY DEF Sums
<1>2. {} \in Good
  BY <1>1
<1>3. ASSUME NEW s \in SUBSET S, s # {}, s \ {Some(s)} \in Good PROVE s \in Good
  <2>1. Some(s) \in s
    BY <1>3 DEF Some
  <2> DEFINE y == Some(s)
             r == s \ {y}
  <2>2. r \in SUBSET S /\ g[r] \in Nat /\ k[r] \in Nat /\ g[s] = f[y] + g[r] /\ k[s] = h[y] + k[r]
    BY <1>1, <1>3
  <2>3. y \in S /\ f[y] \in Nat /\ h[y] \in Nat /\ f[x] \in Nat /\ h[x] \in Nat
    BY <2>1
  <2>4. IF x \in r THEN g[r] + h[x] = k[r] + f[x] ELSE g[r] = k[r]
    BY <1>3
  <2>5. (x \in s <=> x \in r \/ x = y) /\ ~ (y \in r)
    BY <2>1
  <2> HIDE DEF y, r
  <2> QED BY <2>2, <2>3, <2>4, <2>5
<1>4. S \in Good
  <2> HIDE DEF Good
  <2> QED BY <1>2, <1>3, SubsetInduction
<1> QED
  BY <1>4

\* All the ways to add up the same numbers have one result.
LEMMA SumUnique ==
    ASSUME NEW S, IsFiniteSet(S), NEW f \in [S -> Nat], NEW g \in Sums(S, f), NEW k \in Sums(S, f)
    PROVE  g[S] = k[S] /\ g[S] \in Nat /\ ((\A x \in S : f[x] = 0) => g[S] = 0)
<1>1. CASE S = {}
  BY <1>1 DEF Sums
<1>2. CASE S # {}
  <2>1. PICK x \in S : TRUE
    BY <1>2
  <2>2. g[S] + f[x] = k[S] + f[x]
    BY SumChanged
  <2>3. g[S] \in Nat /\ k[S] \in Nat /\ f[x] \in Nat
    BY DEF Sums
  <2>4. ASSUME \A y \in S : f[y] = 0 PROVE g[S] = 0
    <3>1. f \in [S -> 0 .. 0]
      BY <2>4
    <3>2. g[S] \in 0 .. (0 * Cardinality(S)) /\ Cardinality(S) \in Nat
      BY <3>1, SumBounded, FS_CardinalityType
    <3> QED BY <3>2
  <2> QED BY <2>2, <2>3, <2>4
<1> QED
  BY <1>1, <1>2

\* A finite set of numbers has a greatest one.
LEMMA GreatestNumber ==
    ASSUME NEW S \in SUBSET Nat, IsFiniteSet(S), S # {}
    PROVE  \E n \in S : \A m \in S : m <= n
<1> DEFINE Good == {s \in SUBSET S : s # {} => \E n \in s : \A m \in s : m <= n}
<1>1. {} \in Good
  OBVIOUS
<1>2. ASSUME NEW s \in SUBSET S, s # {}, s \ {Some(s)} \in Good
      PROVE  s \in Good
  <2> DEFINE x == Some(s)
  <2>1. x \in s /\ x \in Nat
    BY <1>2 DEF Some
  <2> HIDE DEF x
  <2>2. CASE s \ {x} = {}
    BY <2>1, <2>2
  <2>3. CASE s \ {x} # {}
    <3>1. PICK n \in s \ {x} : \A m \in s \ {x} : m <= n
      BY <1>2, <2>3 DEF x
    <3>2. (\A m \in s : m <= n) \/ (\A m \in s : m <= x)
      BY <2>1, <3>1
    <3> QED BY <2>1, <3>1, <3>2
  <2> QED BY <2>2, <2>3
<1> HIDE DEF Good
<1>3. SUBSET S \subseteq Good
  BY <1>1, <1>2, SubsetInduction
<1> QED
  BY <1>3 DEF Good

\* The sets of one or two elements, and those of two.
Pairs(S) == {{a, b} : a, b \in S}
Doubles(S) == Pairs(S) \ {{a} : a \in S}

\* There are finitely many.
LEMMA DoublesFinite ==
    ASSUME NEW S, IsFiniteSet(S)
    PROVE  IsFiniteSet(Pairs(S)) /\ IsFiniteSet(Doubles(S)) /\ Cardinality(Doubles(S)) \in Nat
<1> DEFINE F == SUBSET S
<1>1. Pairs(S) \in SUBSET F /\ Doubles(S) \in SUBSET F /\ IsFiniteSet(F)
  BY FS_SUBSET DEF Pairs, Doubles
<1>2. IsFiniteSet(Pairs(S)) /\ IsFiniteSet(Doubles(S))
  <2> HIDE DEF F
  <2> QED BY <1>1, FS_Subset
<1> QED
  BY <1>2, FS_CardinalityType

\* Half of n * (n - 1) are of two.
LEMMA DoublesCounted ==
    ASSUME NEW S, IsFiniteSet(S)
    PROVE  2 * Cardinality(Doubles(S)) = Cardinality(S) * (Cardinality(S) - 1)
<1> DEFINE Good == {s \in SUBSET S : 2 * Cardinality(Doubles(s)) = Cardinality(s) * (Cardinality(s) - 1)}
<1>1. \A s \in SUBSET S : IsFiniteSet(s) /\ Cardinality(s) \in Nat
  BY FS_CardinalityType, FS_Subset
<1>3. {} \in Good
  <2>1. Doubles({}) = {}
    BY DEF Pairs, Doubles
  <2>2. Cardinality({}) = 0
    BY FS_EmptySet
  <2> QED BY <2>1, <2>2
<1>4. ASSUME NEW s \in SUBSET S, s # {}, s \ {Some(s)} \in Good PROVE s \in Good
  <2> DEFINE x == Some(s)
             r == s \ {x}
             D == {{x, b} : b \in r}
             f == [b \in r |-> {x, b}]
             m == Cardinality(r)
             c == Cardinality(Doubles(r))
  <2>1. x \in s /\ r \in SUBSET S
    BY <1>4 DEF Some
  <2>0. /\ IsFiniteSet(r) /\ Cardinality(r) \in Nat
        /\ IsFiniteSet(Doubles(r)) /\ Cardinality(Doubles(r)) \in Nat
    <3> HIDE DEF r
    <3>1. IsFiniteSet(r) /\ Cardinality(r) \in Nat
      BY <1>1, <2>1, Zenon
    <3>2. IsFiniteSet(Doubles(r)) /\ Cardinality(Doubles(r)) \in Nat
      BY <3>1, DoublesFinite
    <3> QED BY <3>1, <3>2, Zenon
  <2>2. m \in Nat /\ c \in Nat /\ Cardinality(s) = m + 1
    <3>1. IsFiniteSet(s) /\ Cardinality(s) \in Nat /\ m \in Nat /\ c \in Nat
      BY <1>1, <2>0, Zenon
    <3>2. m = Cardinality(s) - 1
      BY <2>1, <3>1, FS_RemoveElement
    <3> HIDE DEF m, c
    <3> QED BY <3>1, <3>2
  <2>3. Doubles(s) = Doubles(r) \cup D /\ Doubles(r) \cap D = {}
    <3>1. ASSUME NEW p \in Doubles(s) PROVE p \in Doubles(r) \cup D
      <4>1. PICK a \in s, b \in s : p = {a, b}
        BY DEF Pairs, Doubles
      <4>2. a # b
        BY <4>1 DEF Pairs, Doubles
      <4>3. CASE a = x
        BY <4>1, <4>2, <4>3
      <4>4. CASE b = x
        BY <4>1, <4>2, <4>4
      <4>5. CASE a # x /\ b # x
        BY <4>1, <4>2, <4>5 DEF Pairs, Doubles
      <4> QED BY <4>3, <4>4, <4>5
    <3>2. Doubles(r) \subseteq Doubles(s)
      BY DEF Pairs, Doubles
    <3>3. D \subseteq Doubles(s)
      BY <2>1 DEF Pairs, Doubles
    <3>4. \A p \in Doubles(r) : x \notin p
      BY DEF Pairs, Doubles
    <3> QED BY <3>1, <3>2, <3>3, <3>4
  <2>4. IsFiniteSet(D) /\ Cardinality(D) = m
    <3>1. f \in Bijection(r, D)
      <4>1. f \in [r -> D] /\ \A d \in D : \E b \in r : f[b] = d
        OBVIOUS
      <4>2. \A a, b \in r : f[a] = f[b] => a = b
        OBVIOUS
      <4> HIDE DEF f, D, r
      <4> QED BY <4>1, <4>2 DEF Bijection, Injection, Surjection, IsInjective
    <3>2. ExistsBijection(r, D) /\ IsFiniteSet(r)
      BY <1>1, <2>1, <3>1 DEF ExistsBijection
    <3> HIDE DEF f, D, r
    <3> QED BY <3>2, FS_Bijection
  <2>5. Cardinality(Doubles(s)) = c + m
    <3> HIDE DEF f, D, r
    <3>2. Cardinality(Doubles(r) \cup D) = c + m - Cardinality({})
      BY <2>0, <2>3, <2>4, FS_Union
    <3> QED BY <2>2, <2>3, <3>2, FS_EmptySet
  <2>6. 2 * c = m * (m - 1)
    BY <1>4
  <2>7. 2 * (c + m) = (m + 1) * ((m + 1) - 1)
    <3> HIDE DEF c, m
    <3> QED BY <2>2, <2>6
  <2> HIDE DEF x, r, c, m
  <2> QED BY <2>2, <2>5, <2>7
<1>5. S \in Good
  <2> HIDE DEF Good
  <2> QED BY <1>3, <1>4, SubsetInduction
<1> QED
  BY <1>5

------------------------------------------------------------------------------
\* What a fold does as long as it stays in T.
Follows(fold, n, T, base, step) ==
    /\ fold[{}] = base
    /\ \A s \in SUBSET (1 .. n) :
          s # {} /\ fold[s \ {Max(s)}] \in T => fold[s] = step[<<fold[s \ {Max(s)}], Max(s)>>]

\* Where runs end.
Ends(n, T, base, step) == {f[n] : f \in Runs(n, T, base, step)}

\* A fold goes through a run: its value of the first i elements is the i-th.
LEMMA FoldLeftRuns ==
    ASSUME NEW n \in Nat, NEW T, NEW base \in T, NEW step \in [T \X (1 .. n) -> T], NEW fold,
           Follows(fold, n, T, base, step)
    PROVE  fold[1 .. n] \in Ends(n, T, base, step)
<1> DEFINE f == [i \in 0 .. n |-> fold[1 .. i]]
           Good == {i \in 0 .. n : f[i] \in T}
<1>1. f[0] = base
  <2>1. 1 .. 0 = {}
    OBVIOUS
  <2> QED BY <2>1 DEF Follows
<1>2. ASSUME NEW i \in 1 .. n, f[i - 1] \in T PROVE f[i] = step[<<f[i - 1], i>>] /\ f[i] \in T
  <2>1. f[i] = fold[1 .. i] /\ f[i - 1] = fold[1 .. (i - 1)] /\ i - 1 \in 0 .. n
    OBVIOUS
  <2> HIDE DEF f
  <2>2. fold[(1 .. i) \ {Max(1 .. i)}] = f[i - 1]
    BY <2>1, FirstNumbers
  <2>3. fold[1 .. i] = step[<<fold[(1 .. i) \ {Max(1 .. i)}], Max(1 .. i)>>]
    BY <1>2, <2>2, FirstNumbers DEF Follows
  <2>4. f[i] = step[<<f[i - 1], i>>]
    BY <2>1, <2>2, <2>3, FirstNumbers
  <2> QED BY <1>2, <2>4
<1>3. 0 .. n \subseteq Good
  <2>1. 0 \in Good
    BY <1>1
  <2>2. \A i \in 1 .. n : i - 1 \in Good => i \in Good
    <3> HIDE DEF f
    <3> TAKE i \in 1 .. n
    <3>1. f[i - 1] \in T => f[i] \in T
      BY <1>2, Zenon
    <3>2. i \in 0 .. n
      OBVIOUS
    <3> QED BY <3>1, <3>2
  <2> HIDE DEF Good
  <2> QED BY <2>1, <2>2, Induction
<1>4. f \in [0 .. n -> T] /\ f[n] = fold[1 .. n]
  BY <1>3
<1>5. f \in Runs(n, T, base, step)
  <2> HIDE DEF f
  <2>1. \A i \in 1 .. n : f[i - 1] \in T
    BY <1>4
  <2> QED BY <1>1, <1>2, <1>4, <2>1 DEF Runs
<1> HIDE DEF f
<1> QED BY <1>4, <1>5 DEF Ends

\* A set sums up to any of its elements and the sum of the others.
AddsUp(g, S, f) == \A t \in SUBSET S : \A x \in t : g[t] = f[x] + g[t \ {x}]

\* A list that grows by an element.
LEMMA AppendElements ==
    ASSUME NEW S, NEW list \in Seq(S), NEW e \in S
    PROVE  ToSet(Append(list, e)) = ToSet(list) \cup {e}
<1> DEFINE n == Len(list)
<1>1. /\ n \in Nat /\ DOMAIN list = 1 .. n /\ DOMAIN Append(list, e) = 1 .. (n + 1)
      /\ Append(list, e)[n + 1] = e /\ \A i \in 1 .. n : Append(list, e)[i] = list[i]
  OBVIOUS
<1>2. 1 .. (n + 1) = (1 .. n) \cup {n + 1}
  BY <1>1
<1> QED
  BY <1>1, <1>2 DEF ToSet

\* Whatever element is left out of a sum.
LEMMA SumWithout ==
    ASSUME NEW S, IsFiniteSet(S), NEW f \in [S -> Nat], NEW g \in Sums(S, f)
    PROVE  AddsUp(g, S, f)
<1> DEFINE n == Cardinality(S)
           Right(s) == \A y \in s : g[s] = f[y] + g[s \ {y}]
           M == {m \in 0 .. n : \A s \in SUBSET S : Cardinality(s) <= m => Right(s)}
<1>1. n \in Nat /\ \A s \in SUBSET S : IsFiniteSet(s) /\ Cardinality(s) \in 0 .. n
  BY FS_CardinalityType, FS_Subset
<1>2. \A s \in SUBSET S : g[s] \in Nat /\ (s # {} => g[s] = f[Some(s)] + g[s \ {Some(s)}])
  BY DEF Sums
<1>3. 0 \in M
  <2>1. ASSUME NEW s \in SUBSET S, Cardinality(s) <= 0 PROVE s = {}
    <3>1. Cardinality(s) = 0
      BY <1>1, <2>1
    <3> QED BY <1>1, <3>1, FS_EmptySet
  <2> QED BY <1>1, <2>1
<1>4. ASSUME NEW m \in 1 .. n, m - 1 \in M PROVE m \in M
  <2> SUFFICES ASSUME NEW s \in SUBSET S, Cardinality(s) <= m, NEW y \in s PROVE g[s] = f[y] + g[s \ {y}]
    OBVIOUS
  <2>1. PICK z : z = Some(s)
    OBVIOUS
  <2>2. z \in s /\ g[s] = f[z] + g[s \ {z}]
    BY <1>2, <2>1 DEF Some
  <2>3. CASE z = y
    BY <2>2, <2>3
  <2>4. CASE z # y
    <3>1. \A w \in s : Cardinality(s \ {w}) <= m - 1 /\ s \ {w} \in SUBSET S
      <4> TAKE w \in s
      <4>1. Cardinality(s \ {w}) = Cardinality(s) - 1 /\ Cardinality(s) \in Nat
        BY <1>1, FS_RemoveElement
      <4> QED BY <4>1
    <3>2. Right(s \ {y}) /\ Right(s \ {z})
      <4> HIDE DEF Right
      <4> QED BY <1>4, <2>2, <3>1
    <3>3. g[s \ {z}] = f[y] + g[(s \ {z}) \ {y}] /\ g[s \ {y}] = f[z] + g[(s \ {y}) \ {z}]
      BY <2>2, <2>4, <3>2
    <3>4. PICK r \in SUBSET S : r = (s \ {z}) \ {y} /\ r = (s \ {y}) \ {z}
      <4>1. (s \ {z}) \ {y} = (s \ {y}) \ {z} /\ (s \ {z}) \ {y} \in SUBSET S
        OBVIOUS
      <4> QED BY <4>1
    <3>5. g[s \ {z}] = f[y] + g[r] /\ g[s \ {y}] = f[z] + g[r]
      BY <3>3, <3>4, Zenon
    <3>6. f[y] \in Nat /\ f[z] \in Nat /\ g[r] \in Nat
      BY <1>2, <2>2
    <3> QED BY <2>2, <3>5, <3>6
  <2> QED BY <2>3, <2>4
<1>5. n \in M
  <2> HIDE DEF M, n
  <2> QED BY <1>1, <1>3, <1>4, Induction
<1>6. ASSUME NEW t \in SUBSET S PROVE Right(t)
  <2> HIDE DEF Right
  <2> QED BY <1>1, <1>5
<1> QED BY <1>6, Zenon DEF AddsUp
==============================================================================
