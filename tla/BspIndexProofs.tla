---------------------------- MODULE BspIndexProofs ----------------------------
(***************************************************************************)
(* Proofs about BspIndex, for every set of short keys and every sequence of *)
(* calls: the inductive invariant TreeInv, and from it the type invariant, *)
(* what find and the scans answer, the superblock and the shape of the tree. *)
(*                                                                         *)
(* The erase of a key and the search come first, then each action, then    *)
(* bulk_build level by level, and last the theorems.                       *)
(***************************************************************************)
EXTENDS BspTreeProofs

\* k belongs between the page of level l above w and its neighbours.
Fits(at, K, l, k, w) ==
    \A x \in K : at[l][x] # at[l][w] => (x < w => x < k) /\ (w < x => k < x)
\* The search for k goes down to level l over the pages above w.
Walk(pg, at, top, K, l, k, w) ==
    /\ w \in K /\ Fits(at, K, l, k, w)
    /\ \A m \in 0 .. top : l < m => ChildFor(pg[at[m][w]], k) = at[m - 1][w]
CanWalk(pg, at, top, K, l, k) == \E w : Walk(pg, at, top, K, l, k, w)

\* One step of the search down the tree.
LEMMA WalkStep ==
    ASSUME NEW pg, NEW at, NEW top, NEW M, Tree(pg, at, top, M), NEW k \in Int, NEW l \in 0 .. top, l # top,
           NEW K, K = DOMAIN M, NEW w, Walk(pg, at, top, K, l + 1, k, w)
    PROVE  CanWalk(pg, at, top, K, l, k)
<1>. DEFINE d == l + 1
            q == at[d][w]
            p == pg[q]
<1>1. Grid(at, top, K, Len(pg)) /\ top \in Nat /\ K \subseteq Int /\ d \in 0 .. top /\ l \in Nat /\ l < d
  BY TreePages
<1>2. w \in K /\ Fits(at, K, d, k, w)
      /\ \A m \in 0 .. top : d < m => ChildFor(pg[at[m][w]], k) = at[m - 1][w]
  BY DEF Walk
<1>3. Row(p.children, at, K, l, Block(at, K, d, q)) /\ Seps(p.keys, p.children, at, K, l)
  BY <1>2, InnerHere
<1>. HIDE DEF p
<1>4. /\ p.keys \in Seq(Int) /\ Len(p.keys) = Len(p.children) - 1 /\ Len(p.keys) \in Nat
      /\ \A i, j \in 1 .. Len(p.keys) : i < j => p.keys[i] < p.keys[j]
  BY <1>3 DEF Seps
<1>5. PICK i \in 1 .. Len(p.keys) + 1 :
        /\ ChildFor(p, k) = p.children[i]
        /\ \A j \in 1 .. Len(p.keys) : j < i => p.keys[j] <= k
        /\ \A j \in 1 .. Len(p.keys) : i <= j => k < p.keys[j]
  BY <1>4, ChildForFacts
<1>6. Len(p.children) \in Nat /\ i \in 1 .. Len(p.children)
  BY <1>3, <1>4 DEF Row
<1>7. PICK v \in Block(at, K, d, q) : at[l][v] = p.children[i]
  BY <1>3, <1>6 DEF Row
<1>. HIDE DEF d
<1>8. v \in K /\ at[d][v] = at[d][w] /\ v \in Int /\ w \in Int
  BY <1>1, <1>2, <1>7 DEF Block
<1>9. ASSUME NEW m \in 0 .. top, l < m PROVE ChildFor(pg[at[m][v]], k) = at[m - 1][v]
  <2>1. CASE m = d
    <3>1. m - 1 = l
      BY <2>1, <1>1 DEF d
    <3>. QED
      BY <1>5, <1>7, <1>8, <2>1, <3>1 DEF p
  <2>2. CASE m # d
    <3>1. d < m /\ d <= m /\ d <= m - 1 /\ m - 1 \in 0 .. top
      BY <1>1, <1>9, <2>2 DEF d
    <3>2. at[m][v] = at[m][w] /\ at[m - 1][v] = at[m - 1][w]
      BY <1>1, <1>2, <1>8, <3>1, Nested
    <3>. QED
      BY <1>2, <3>1, <3>2
  <2>. QED
    BY <2>1, <2>2
<1>10. ASSUME NEW x \in K, at[l][x] # at[l][v] PROVE (x < v => x < k) /\ (v < x => k < x)
  <2>0. x \in Int
    BY <1>1
  <2>1. CASE at[d][x] = at[d][v]
    <3>1. x \in Block(at, K, d, q)
      BY <1>8, <2>1 DEF Block
    <3>2. PICK j \in 1 .. Len(p.children) : at[l][x] = p.children[j]
      BY <1>3, <3>1 DEF Row
    <3>3. x \in Block(at, K, l, p.children[j]) /\ v \in Block(at, K, l, p.children[i]) /\ i # j
      BY <1>7, <1>8, <1>10, <3>2 DEF Block
    <3>4. CASE j < i
      <4>1. x < v
        BY <1>3, <1>6, <3>3, <3>4 DEF Row, Before
      <4>2. j \in 1 .. Len(p.keys) /\ x < p.keys[j] /\ p.keys[j] <= k
        <5>1. j \in 1 .. Len(p.keys)
          BY <1>4, <1>6, <3>4
        <5>. QED
          BY <1>3, <1>5, <3>3, <3>4, <5>1 DEF Seps
      <4>. QED
        BY <1>4, <1>8, <2>0, <4>1, <4>2, SMTT(20)
    <3>5. CASE i < j
      <4>1. v < x
        BY <1>3, <1>6, <3>3, <3>5 DEF Row, Before
      <4>. DEFINE e == j - 1
      <4>2. e \in 1 .. Len(p.keys) /\ i <= e /\ e + 1 = j
        BY <1>4, <1>6, <3>5
      <4>. HIDE DEF e
      <4>3. p.keys[e] <= x /\ k < p.keys[e]
        BY <1>3, <1>5, <3>3, <4>2 DEF Seps
      <4>. QED
        BY <1>4, <1>8, <2>0, <4>1, <4>2, <4>3, SMTT(20)
    <3>. QED
      BY <1>6, <3>3, <3>4, <3>5
  <2>2. CASE at[d][x] # at[d][v]
    <3>1. (x < w => x < k) /\ (w < x => k < x)
      BY <1>2, <1>8, <2>2 DEF Fits
    <3>2. ~(w < x /\ x < v) /\ ~(v < x /\ x < w)
      <4>1. Grid(at, top, K, Len(pg)) /\ d \in 0 .. top /\ w \in K
        BY <1>1, <1>2
      <4>2. ASSUME w < x, x < v PROVE FALSE
        <5>1. at[d][x] = at[d][w]
          BY ONLY <1>8, <1>10, <4>1, <4>2, Convex, x \in K
        <5>. QED
          BY <1>8, <2>2, <5>1
      <4>3. ASSUME v < x, x < w PROVE FALSE
        <5>1. at[d][x] = at[d][v]
          BY ONLY <1>8, <1>10, <4>1, <4>3, Convex, x \in K
        <5>. QED
          BY <2>2, <5>1
      <4>. QED
        BY <4>2, <4>3
    <3>3. x # w
      BY <1>8, <2>2
    <3>. QED
      BY <1>8, <2>0, <3>1, <3>2, <3>3
  <2>. QED
    BY <2>1, <2>2
<1>11. Walk(pg, at, top, K, l, k, v)
  BY <1>8, <1>9, <1>10 DEF Walk, Fits
<1>. QED
  BY <1>11 DEF CanWalk

\* The search for k comes to a leaf.
LEMMA WalkDown ==
    ASSUME NEW pg, NEW at, NEW top, NEW M, Tree(pg, at, top, M), NEW r, RootOK(at, top, DOMAIN M, r),
           NEW k \in Int, NEW K, K = DOMAIN M
    PROVE  CanWalk(pg, at, top, K, 0, k)
<1>1. top \in Nat /\ K # {}
  BY TreePages
<1>. DEFINE T == {n \in Nat : n <= top /\ ~CanWalk(pg, at, top, K, top - n, k)}
<1>2. ASSUME T # {} PROVE FALSE
  <2>1. T \in SUBSET Nat
    OBVIOUS
  <2>. HIDE DEF T
  <2>2. PICK y \in T : \A z \in T : y <= z
    BY <1>2, <2>1, LeastNatural
  <2>3. y \in Nat /\ y <= top /\ ~CanWalk(pg, at, top, K, top - y, k)
    BY DEF T
  <2>4. CASE y = 0
    <3>1. PICK w : w \in K
      BY <1>1
    <3>2. top - y = top
      BY <1>1, <2>4
    <3>3. \A x \in K : at[top][x] = at[top][w]
      BY <3>1 DEF RootOK
    <3>4. Walk(pg, at, top, K, top, k, w)
      BY <1>1, <3>1, <3>3 DEF Walk, Fits
    <3>. QED
      BY <2>3, <3>2, <3>4 DEF CanWalk
  <2>5. CASE y # 0
    <3>. DEFINE l == top - y
    <3>1. y - 1 \in Nat /\ y - 1 <= top /\ y - 1 \notin T /\ top - (y - 1) = l + 1
      BY <1>1, <2>2, <2>3, <2>5
    <3>2. CanWalk(pg, at, top, K, l + 1, k)
      BY <3>1 DEF T
    <3>3. l \in 0 .. top /\ l # top
      BY <1>1, <2>3, <2>5
    <3>. HIDE DEF l
    <3>4. PICK w : Walk(pg, at, top, K, l + 1, k, w)
      BY <3>2 DEF CanWalk
    <3>5. CanWalk(pg, at, top, K, l, k)
      BY <3>3, <3>4, WalkStep
    <3>. QED
      BY <2>3, <3>5 DEF l
  <2>. QED
    BY <2>4, <2>5
<1>3. top \notin T
  BY <1>2
<1>. QED
  BY <1>1, <1>3

\* The path is the one of the walk.
LEMMA PathFound ==
    ASSUME NEW pg, NEW at, NEW top, NEW M, Tree(pg, at, top, M), NEW r, RootOK(at, top, DOMAIN M, r),
           NEW k, NEW K, K = DOMAIN M, NEW w, Walk(pg, at, top, K, 0, k, w)
    PROVE  PathIs(PathFrom(pg, r, k), at, top, 0, w)
<1>. DEFINE N == Len(pg)
            G(f) == [n \in 0 .. N |-> IF n = 0 THEN r
                      ELSE LET q == f[n - 1] IN IF IsInner(pg[q]) THEN ChildFor(pg[q], k) ELSE q]
            g == [n \in 0 .. N |-> at[IF n <= top THEN top - n ELSE 0][w]]
            f == CHOOSE h : h = G(h)
            S == {n \in 0 .. N : ~IsInner(pg[f[n]])}
            depth == Min(S)
<1>1. PathFrom(pg, r, k) = [i \in 1 .. depth + 1 |-> f[i - 1]]
  BY DEF PathFrom
<1>2. /\ w \in K /\ \A m \in 0 .. top : 0 < m => ChildFor(pg[at[m][w]], k) = at[m - 1][w]
  BY DEF Walk
<1>3. /\ Grid(at, top, K, N) /\ top \in Nat /\ N \in Nat
  BY TreePages
<1>4. top < N
  BY <1>2, <1>3, Depth
<1>5. ASSUME NEW m \in 0 .. top, m # 0
      PROVE  IsInner(pg[at[m][w]]) /\ ChildFor(pg[at[m][w]], k) = at[m - 1][w]
  <2>1. m - 1 \in 0 .. top /\ m - 1 # top /\ m - 1 + 1 = m /\ 0 < m
    BY <1>3, <1>5
  <2>. DEFINE e == m - 1
  <2>2. IsInner(pg[at[e + 1][w]])
    <3>1. e \in 0 .. top /\ e # top
      BY <2>1
    <3>. HIDE DEF e
    <3>. QED
      BY <1>2, <3>1, InnerHere
  <2>. QED
    BY <1>2, <2>1, <2>2
<1>6. ~IsInner(pg[at[0][w]])
  <2>1. LeafBox(pg[at[0][w]], at[0][w], at, M, Len(pg))
    BY <1>2, LeafPage
  <2>. QED
    BY <2>1 DEF LeafBox
<1>7. ASSUME NEW i \in 1 .. N
      PROVE  g[i] = LET q == g[i - 1] IN IF IsInner(pg[q]) THEN ChildFor(pg[q], k) ELSE q
  <2>1. i \in 0 .. N /\ i - 1 \in 0 .. N
    BY <1>3
  <2>2. CASE i <= top
    <3>1. g[i] = at[top - i][w] /\ g[i - 1] = at[top - i + 1][w] /\ top - i + 1 \in 0 .. top
          /\ top - i + 1 # 0 /\ (top - i + 1) - 1 = top - i
      BY <1>3, <2>1, <2>2
    <3>. QED
      BY <3>1, <1>5
  <2>3. CASE ~(i <= top)
    <3>1. g[i] = at[0][w] /\ g[i - 1] = at[0][w]
      BY <1>3, <2>1, <2>3
    <3>. QED
      BY <3>1, <1>6
  <2>. QED
    BY <2>2, <2>3
<1>8. g[0] = r
  <2>1. at[top][w] = r
    BY <1>2 DEF RootOK
  <2>2. g[0] = at[top][w]
    BY <1>3
  <2>. QED
    BY <2>1, <2>2
<1>9. g = G(g)
  <2>. HIDE DEF g
  <2>1. \A i \in 0 .. N : i = 0 \/ i \in 1 .. N
    BY <1>3
  <2>2. g = [i \in 0 .. N |-> g[i]]
    BY Zenon DEF g
  <2>. QED
    BY <1>7, <1>8, <2>1, <2>2
<1>10. f = G(f)
  BY <1>9, Zenon
<1>11. ASSUME NEW i \in 0 .. N PROVE f[i] = g[i]
  <2>. DEFINE T == {x \in 0 .. N : f[x] # g[x]}
  <2>1. ASSUME T # {} PROVE FALSE
    <3>1. T \in SUBSET Nat
      OBVIOUS
    <3>. HIDE DEF T
    <3>2. PICK y \in T : \A z \in T : y <= z
      BY <2>1, <3>1, LeastNatural
    <3>. HIDE DEF f, g, G
    <3>3. y \in 0 .. N /\ f[y] # g[y] /\ f[y] = G(f)[y] /\ g[y] = G(g)[y]
      BY <3>2, <1>9, <1>10 DEF T
    <3>4. CASE y = 0
      BY <3>3, <3>4 DEF G
    <3>5. CASE y # 0
      <4>1. y - 1 \in 0 .. N /\ y - 1 \notin T
        BY <3>2, <3>3, <3>5, <1>3
      <4>2. f[y - 1] = g[y - 1]
        BY <4>1 DEF T
      <4>. QED
        BY <3>3, <3>5, <4>2 DEF G
    <3>. QED
      BY <3>4, <3>5
  <2>. QED
    BY <2>1
<1>. HIDE DEF f
<1>12. \A n \in 0 .. top : f[n] = at[top - n][w]
  BY <1>3, <1>4, <1>11
<1>13. top \in S /\ \A n \in S : top <= n
  <2>1. f[top] = at[0][w] /\ top \in 0 .. N
    BY <1>3, <1>4, <1>12
  <2>2. ASSUME NEW n \in 0 .. N, n < top PROVE IsInner(pg[f[n]])
    <3>1. n \in 0 .. top /\ top - n \in 0 .. top /\ top - n # 0
      BY <1>3, <2>2
    <3>. QED
      BY <1>5, <1>12, <3>1
  <2>. QED
    BY <1>3, <1>6, <2>1, <2>2
<1>14. depth = top
  <2>1. S \subseteq Int /\ S # {} /\ IsFiniteSet(S)
    <3>1. IsFiniteSet(0 .. N)
      BY <1>3, FS_Interval
    <3>2. S \subseteq 0 .. N
      OBVIOUS
    <3>3. IsFiniteSet(S)
      BY <3>1, <3>2, FS_Subset
    <3>. QED
      BY <1>3, <1>13, <3>2, <3>3
  <2>. HIDE DEF S
  <2>2. Min(S) \in S /\ \A n \in S : Min(S) <= n
    BY <2>1, Extremes
  <2>3. Min(S) \in Int /\ Min(S) <= top /\ top <= Min(S)
    BY <1>13, <2>1, <2>2
  <2>. QED
    BY <1>3, <2>3
<1>. HIDE DEF depth, S
<1>15. \A i \in 1 .. top + 1 : f[i - 1] = at[top + 1 - i][w]
  <2>1. ASSUME NEW i \in 1 .. top + 1 PROVE f[i - 1] = at[top + 1 - i][w]
    <3>1. i - 1 \in 0 .. top /\ top - (i - 1) = top + 1 - i
      BY <1>3
    <3>. QED
      BY <1>12, <3>1
  <2>. QED
    BY <2>1
<1>16. top + 1 - 0 = top + 1
  BY <1>3
<1>. QED
  BY <1>1, <1>14, <1>15, <1>16 DEF PathIs

----------------------------------------------------------------------------
(* Slots *)

\* A set of positions that holds every one before its own is a first part.
LEMMA Prefix ==
    ASSUME NEW L \in Nat, NEW T, T \subseteq 1 .. L, \A i \in T, j \in 1 .. L : j < i => j \in T
    PROVE  T = 1 .. Cardinality(T) /\ Cardinality(T) \in 0 .. L
<1>1. CASE T = {}
  <2>1. Cardinality(T) = 0
    BY <1>1, FS_EmptySet
  <2>. QED
    BY <1>1, <2>1
<1>2. CASE T # {}
  <2>1. T \subseteq Int /\ IsFiniteSet(T)
    <3>1. IsFiniteSet(1 .. L)
      BY FS_Interval
    <3>2. IsFiniteSet(T)
      BY <3>1, FS_Subset
    <3>. QED
      BY <3>2
  <2>2. PICK m \in T : \A i \in T : i <= m
    BY <1>2, <2>1, GreatestKey
  <2>3. m \in 1 .. L
    OBVIOUS
  <2>4. T = 1 .. m
    <3>1. \A i \in 1 .. m : i = m \/ (i \in 1 .. L /\ i < m)
      BY <2>3
    <3>2. \A i \in T : i \in 1 .. L /\ i <= m
      BY <2>2
    <3>3. \A i \in T : i \in 1 .. m
      BY <2>3, <3>2
    <3>. QED
      BY <3>1, <3>3
  <2>5. Cardinality(1 .. m) = m
    BY <2>3, FS_Interval
  <2>. QED
    BY <2>3, <2>4, <2>5
<1>. QED
  BY <1>1, <1>2

\* The slots before the first key that is at least k, or greater than k.
LessThan(s, k) == {i \in 1 .. Len(s) : s[i].key < k}
UpTo(s, k) == {i \in 1 .. Len(s) : s[i].key <= k}
\* lower_bound_slot and upper_bound_slot count the smaller keys, and those that
\* are not greater.
LEMMA SlotFacts ==
    ASSUME NEW s, NEW M, NEW S, Held(s, M, S), NEW k \in Int
    PROVE  /\ lower_bound_slot(s, k) \in 0 .. Len(s) /\ upper_bound_slot(s, k) \in 0 .. Len(s)
           /\ \A i \in 1 .. Len(s) : i <= lower_bound_slot(s, k) <=> s[i].key < k
           /\ \A i \in 1 .. Len(s) : i <= upper_bound_slot(s, k) <=> s[i].key <= k
<1>1. /\ Len(s) \in Nat /\ \A i \in 1 .. Len(s) : s[i].key \in Int
      /\ \A i, j \in 1 .. Len(s) : i < j => s[i].key < s[j].key
  <2>1. \A i \in 1 .. Len(s) : s[i] \in Entries
    BY DEF Held
  <2>2. \A i \in 1 .. Len(s) : s[i].key \in Keys
    BY <2>1 DEF Entries
  <2>3. \A i \in 1 .. Len(s) : s[i].key \in Int
    BY <2>2, KeysAre
  <2>4. Len(s) \in Nat
    BY DEF Held
  <2>. QED
    BY <2>3, <2>4 DEF Held
<1>2. /\ LessThan(s, k) = 1 .. lower_bound_slot(s, k) /\ lower_bound_slot(s, k) \in 0 .. Len(s)
  <2>1. \A i \in LessThan(s, k), j \in 1 .. Len(s) : j < i => j \in LessThan(s, k)
    <3>1. ASSUME NEW i \in LessThan(s, k), NEW j \in 1 .. Len(s), j < i PROVE s[j].key < k
      <4>1. s[j].key < s[i].key /\ s[i].key < k /\ s[i].key \in Int /\ s[j].key \in Int
        BY <1>1, <3>1 DEF LessThan
      <4>. QED
        BY <4>1
    <3>. QED
      BY <3>1 DEF LessThan
  <2>2. LessThan(s, k) \subseteq 1 .. Len(s) /\ Cardinality(LessThan(s, k)) = lower_bound_slot(s, k)
    BY DEF LessThan, lower_bound_slot
  <2>. QED
    BY <1>1, <2>1, <2>2, Prefix
<1>3. /\ UpTo(s, k) = 1 .. upper_bound_slot(s, k) /\ upper_bound_slot(s, k) \in 0 .. Len(s)
  <2>1. \A i \in UpTo(s, k), j \in 1 .. Len(s) : j < i => j \in UpTo(s, k)
    <3>1. ASSUME NEW i \in UpTo(s, k), NEW j \in 1 .. Len(s), j < i PROVE s[j].key <= k
      <4>1. s[j].key < s[i].key /\ s[i].key <= k /\ s[i].key \in Int /\ s[j].key \in Int
        BY <1>1, <3>1 DEF UpTo
      <4>. QED
        BY <4>1
    <3>. QED
      BY <3>1 DEF UpTo
  <2>2. UpTo(s, k) \subseteq 1 .. Len(s) /\ Cardinality(UpTo(s, k)) = upper_bound_slot(s, k)
    BY DEF UpTo, upper_bound_slot
  <2>. QED
    BY <1>1, <2>1, <2>2, Prefix
<1>4. ASSUME NEW i \in 1 .. Len(s)
      PROVE  /\ i <= lower_bound_slot(s, k) <=> s[i].key < k
             /\ i <= upper_bound_slot(s, k) <=> s[i].key <= k
  <2>1. i \in LessThan(s, k) <=> s[i].key < k
    BY DEF LessThan
  <2>2. i \in UpTo(s, k) <=> s[i].key <= k
    BY DEF UpTo
  <2>. QED
    BY <1>1, <1>2, <1>3, <2>1, <2>2
<1>. QED
  BY <1>2, <1>3, <1>4

\* The entry at the slot is that of the key, if the entries have it.
LEMMA SlotKey ==
    ASSUME NEW s, NEW M, NEW S, Held(s, M, S), NEW k \in Int, NEW n, n = lower_bound_slot(s, k)
    PROVE  (n < Len(s) /\ s[n + 1].key = k) <=> k \in S
<1>0. n \in 0 .. Len(s) /\ \A i \in 1 .. Len(s) : i <= n <=> s[i].key < k
  BY SlotFacts
<1>1. /\ n \in 0 .. Len(s) /\ \A i \in 1 .. Len(s) : i <= n <=> s[i].key < k
      /\ Len(s) \in Nat
  BY <1>0 DEF Held
<1>2. ASSUME n < Len(s), s[n + 1].key = k PROVE k \in S
  <2>1. n + 1 \in 1 .. Len(s)
    BY <1>1, <1>2
  <2>. QED
    BY <1>2, <2>1 DEF Held
<1>3. ASSUME k \in S PROVE n < Len(s) /\ s[n + 1].key = k
  <2>1. PICK i \in 1 .. Len(s) : s[i].key = k
    BY <1>3 DEF Held
  <2>2. ~(i <= n)
    BY <1>1, <2>1
  <2>3. n + 1 \in 1 .. Len(s) /\ n + 1 <= i /\ ~(n + 1 <= n)
    BY <1>1, <2>2
  <2>4. ~(s[n + 1].key < k) /\ s[n + 1].key \in Int
    <3>1. s[n + 1] \in Entries
      BY <2>3 DEF Held
    <3>2. s[n + 1].key \in Keys
      BY <3>1 DEF Entries
    <3>. QED
      BY <1>1, <2>3, <3>2, KeysAre
  <2>5. n + 1 < i => s[n + 1].key < s[i].key
    BY <2>3 DEF Held
  <2>. DEFINE m == n + 1
  <2>6. m = i \/ m < i
    BY <1>1, <2>3
  <2>. HIDE DEF m
  <2>7. m = i
    BY <2>1, <2>4, <2>5, <2>6 DEF m
  <2>. QED
    BY <1>1, <2>1, <2>3, <2>7 DEF m
<1>. QED
  BY <1>2, <1>3

----------------------------------------------------------------------------
(* A key more in the leaf that the search for it comes to *)

With(M, e) == [x \in DOMAIN M \cup {e.key} |-> IF x = e.key THEN e.rid ELSE M[x]]
\* The new key k gets the pages above w.
Grafted(at, k, w) == [l \in Nat |-> [x \in Int |-> IF x = k THEN at[l][w] ELSE at[l][x]]]
Rep(k, w, a) == IF a = k THEN w ELSE a
\* Every key a of K2 has the pages of its representative in K, and lies there
\* relative to the keys with other pages.
Reps(at, at2, top, K, K2, k, w) ==
    /\ K \subseteq K2 /\ K2 \subseteq Int /\ w \in K
    /\ \A a \in K2 : Rep(k, w, a) \in K
    /\ \A a \in K : Rep(k, w, a) = a
    /\ \A l \in 0 .. top, a \in K2 : at2[l][a] = at[l][Rep(k, w, a)]
    /\ \A l \in 0 .. top, a, b \in K2 : at2[l][a] # at2[l][b] => (a < b <=> Rep(k, w, a) < Rep(k, w, b))
\* The new key lies with the keys of the leaf that the search comes to.
LEMMA GraftReps ==
    ASSUME NEW pg, NEW at, NEW top, NEW M, Tree(pg, at, top, M), NEW e \in Entries, e.key \notin DOMAIN M,
           NEW w, Walk(pg, at, top, DOMAIN M, 0, e.key, w), NEW k, k = e.key
    PROVE  /\ Reps(at, Grafted(at, k, w), top, DOMAIN M, DOMAIN With(M, e), k, w)
           /\ Grafted(at, k, w) \in [Nat -> [Int -> Int]]
<1>. DEFINE K == DOMAIN M
            K2 == K \cup {k}
            at2 == Grafted(at, k, w)
<1>1. /\ Grid(at, top, K, Len(pg)) /\ top \in Nat /\ K \subseteq Int
  BY TreePages
<1>2. k \in Int /\ k \notin K /\ K2 \subseteq Int
  <2>1. k \in Keys
    BY DEF Entries
  <2>. QED
    BY <1>1, <2>1, KeysAre
<1>3. w \in K /\ w \in Int /\ Fits(at, K, 0, k, w)
  BY <1>1 DEF Walk
<1>4. at \in [Nat -> [Int -> Int]]
  BY <1>1 DEF Grid
<1>5. at2 \in [Nat -> [Int -> Int]]
  BY <1>3, <1>4 DEF Grafted
<1>6. \A l \in 0 .. top, a \in K2 : at2[l][a] = at[l][Rep(k, w, a)]
  BY <1>1, <1>2 DEF Grafted, Rep
<1>. HIDE DEF at2
<1>7. ASSUME NEW l \in 0 .. top, NEW x \in K, at[l][x] # at[l][w]
      PROVE  (x < w <=> x < k) /\ (w < x <=> k < x)
  <2>1. at[0][x] # at[0][w]
    <3>1. 0 \in 0 .. top /\ 0 <= l
      BY <1>1
    <3>. QED
      BY <1>1, <1>3, <1>7, <3>1, Nested
  <2>2. (x < w => x < k) /\ (w < x => k < x)
    BY <1>3, <2>1 DEF Fits
  <2>3. x # w /\ x # k /\ x \in Int
    BY <1>1, <1>2, <1>7
  <2>. QED
    BY <1>2, <1>3, <2>2, <2>3
<1>8. ASSUME NEW l \in 0 .. top, NEW a \in K2, NEW b \in K2, at2[l][a] # at2[l][b]
      PROVE  a < b <=> Rep(k, w, a) < Rep(k, w, b)
  <2>1. at[l][Rep(k, w, a)] # at[l][Rep(k, w, b)]
    BY <1>6, <1>8
  <2>2. CASE a = k
    <3>1. b # k /\ b \in K /\ Rep(k, w, b) = b /\ Rep(k, w, a) = w
      BY <1>8, <2>2 DEF Rep
    <3>. QED
      BY <1>7, <2>1, <2>2, <3>1
  <2>3. CASE a # k
    <3>1. a \in K /\ Rep(k, w, a) = a
      BY <1>8, <2>3 DEF Rep
    <3>2. CASE b = k
      BY <1>7, <2>1, <3>1, <3>2 DEF Rep
    <3>3. CASE b # k
      BY <3>1, <3>3 DEF Rep
    <3>. QED
      BY <3>2, <3>3
  <2>. QED
    BY <2>2, <2>3
<1>9. Reps(at, at2, top, K, K2, k, w)
  <2>1. /\ K \subseteq K2 /\ \A a \in K2 : Rep(k, w, a) \in K
        /\ \A a \in K : Rep(k, w, a) = a
    BY <1>2, <1>3 DEF Rep
  <2>. QED
    BY <1>2, <1>3, <1>6, <1>8, <2>1 DEF Reps
<1>10. DOMAIN With(M, e) = K2
  BY DEF With
<1>. QED
  BY <1>5, <1>9, <1>10 DEF at2

\* With the new key every key is below one page of each level.
LEMMA RepsGrid ==
    ASSUME NEW at, NEW at2, NEW top, NEW K, NEW K2, NEW k, NEW w, Reps(at, at2, top, K, K2, k, w),
           NEW n, Grid(at, top, K, n), K2 \subseteq Keys, at2 \in [Nat -> [Int -> Int]]
    PROVE  Grid(at2, top, K2, n)
<1>. DEFINE rep(a) == Rep(k, w, a)
<1>1. /\ K \subseteq K2 /\ K2 \subseteq Int /\ w \in K
      /\ \A a \in K2 : rep(a) \in K
      /\ \A l \in 0 .. top, a \in K2 : at2[l][a] = at[l][rep(a)]
      /\ \A l \in 0 .. top, a, b \in K2 : at2[l][a] # at2[l][b] => (a < b <=> rep(a) < rep(b))
  BY DEF Reps
<1>. HIDE DEF rep
<1>2. top \in Nat /\ n \in Nat /\ \A l \in 0 .. top, a \in K2 : at2[l][a] \in 1 .. n
  <2>1. top \in Nat /\ n \in Nat /\ \A l \in 0 .. top, a \in K : at[l][a] \in 1 .. n
    BY DEF Grid
  <2>. QED
    BY <1>1, <2>1
<1>3. \A l, m \in 0 .. top, a, b \in K2 : at2[l][a] = at2[m][b] => l = m
  BY <1>1, Apart
<1>4. \A l \in 0 .. top, i, j, m \in K2 : i < j /\ j < m /\ at2[l][i] = at2[l][m] => at2[l][j] = at2[l][i]
  <2>1. ASSUME NEW l \in 0 .. top, NEW i \in K2, NEW j \in K2, NEW m \in K2, i < j, j < m,
               at2[l][i] = at2[l][m], at2[l][j] # at2[l][i]
        PROVE  FALSE
    <3>1. rep(i) < rep(j) /\ rep(j) < rep(m)
      BY <1>1, <2>1
    <3>2. at[l][rep(i)] = at[l][rep(m)] /\ at[l][rep(j)] # at[l][rep(i)]
      BY <1>1, <2>1
    <3>. QED
      BY <1>1, <3>1, <3>2, Convex
  <2>. QED
    BY <2>1
<1>5. \A l, m \in 0 .. top, a, b \in K2 : l <= m /\ at2[l][a] = at2[l][b] => at2[m][a] = at2[m][b]
  <2>1. ASSUME NEW l \in 0 .. top, NEW m \in 0 .. top, NEW a \in K2, NEW b \in K2, l <= m,
               at2[l][a] = at2[l][b]
        PROVE  at2[m][a] = at2[m][b]
    <3>1. at[l][rep(a)] = at[l][rep(b)] /\ rep(a) \in K /\ rep(b) \in K
      BY <1>1, <2>1
    <3>2. at[m][rep(a)] = at[m][rep(b)]
      BY <2>1, <3>1, Nested
    <3>. QED
      BY <1>1, <3>2
  <2>. QED
    BY <2>1
<1>. QED
  BY <1>2, <1>3, <1>4, <1>5 DEF Grid

\* The keys below a page, with the new one.
LEMMA RepsBlock ==
    ASSUME NEW at, NEW at2, NEW top, NEW K, NEW K2, NEW k, NEW w, Reps(at, at2, top, K, K2, k, w),
           NEW l \in 0 .. top, NEW q
    PROVE  \A a \in K2 : a \in Block(at2, K2, l, q) <=> Rep(k, w, a) \in Block(at, K, l, q)
<1>. DEFINE rep(a) == Rep(k, w, a)
<1>1. \A a \in K2 : rep(a) \in K /\ at2[l][a] = at[l][rep(a)]
  BY DEF Reps
<1>. HIDE DEF rep
<1>2. \A a \in K2 : a \in Block(at2, K2, l, q) <=> rep(a) \in Block(at, K, l, q)
  BY <1>1 DEF Block
<1>. QED
  BY <1>2 DEF rep

\* A row of pages, with the new key.
LEMMA RepsRow ==
    ASSUME NEW at, NEW at2, NEW top, NEW K, NEW K2, NEW k, NEW w, Reps(at, at2, top, K, K2, k, w),
           NEW l \in 0 .. top, NEW m \in 0 .. top, NEW s, NEW q, Row(s, at, K, l, Block(at, K, m, q))
    PROVE  Row(s, at2, K2, l, Block(at2, K2, m, q))
<1>. DEFINE rep(a) == Rep(k, w, a)
            S == Block(at, K, m, q)
            S2 == Block(at2, K2, m, q)
<1>1. /\ K \subseteq K2 /\ K2 \subseteq Int /\ K \subseteq Int
      /\ \A a \in K2 : rep(a) \in K
      /\ \A a \in K : rep(a) = a
      /\ \A a \in K2 : at2[l][a] = at[l][rep(a)]
      /\ \A a, b \in K2 : at2[l][a] # at2[l][b] => (a < b <=> rep(a) < rep(b))
  BY DEF Reps
<1>2. \A a \in K2 : a \in S2 <=> rep(a) \in S
  BY RepsBlock
<1>3. \A i \in 1 .. Len(s), a \in K2 : a \in Block(at2, K2, l, s[i]) <=> rep(a) \in Block(at, K, l, s[i])
  BY RepsBlock
<1>4. S2 \subseteq K2
  BY DEF Block
<1>5. /\ s \in Seq(Int) /\ S \subseteq K
      /\ \A i \in 1 .. Len(s) : \E a \in S : at[l][a] = s[i]
      /\ \A a \in K : a \in S <=> \E i \in 1 .. Len(s) : at[l][a] = s[i]
      /\ \A i, j \in 1 .. Len(s) : i < j =>
           Before(Block(at, K, l, s[i]), Block(at, K, l, s[j]))
  BY DEF Row
<1>6. \A i, j \in 1 .. Len(s) : i < j => s[i] # s[j]
  <2>1. ASSUME NEW i \in 1 .. Len(s), NEW j \in 1 .. Len(s), i < j
        PROVE  s[i] # s[j]
    <3>1. i # j
      BY <2>1
    <3>. QED
      BY <1>1, <3>1, RowDistinct
  <2>. QED
    BY <2>1
<1>. HIDE DEF rep, S, S2
<1>7. ASSUME NEW i \in 1 .. Len(s)
      PROVE  \E a \in S2 : at2[l][a] = s[i]
  <2>1. PICK a \in S : at[l][a] = s[i]
    BY <1>5
  <2>2. a \in K /\ rep(a) = a /\ a \in K2
    BY <1>1, <1>5
  <2>. QED
    BY <1>1, <1>2, <2>1, <2>2
<1>8. ASSUME NEW a \in K2
      PROVE  a \in S2 <=> \E i \in 1 .. Len(s) : at2[l][a] = s[i]
  <2>1. rep(a) \in K /\ at2[l][a] = at[l][rep(a)] /\ (a \in S2 <=> rep(a) \in S)
    BY <1>1, <1>2
  <2>2. rep(a) \in S <=> \E i \in 1 .. Len(s) : at[l][rep(a)] = s[i]
    BY <1>5, <2>1
  <2>. QED
    BY <2>1, <2>2
<1>9. ASSUME NEW i \in 1 .. Len(s), NEW j \in 1 .. Len(s), i < j
      PROVE  Before(Block(at2, K2, l, s[i]), Block(at2, K2, l, s[j]))
  <2>1. Before(Block(at, K, l, s[i]), Block(at, K, l, s[j])) /\ s[i] # s[j]
    BY <1>5, <1>6, <1>9
  <2>2. ASSUME NEW a \in Block(at2, K2, l, s[i]), NEW b \in Block(at2, K2, l, s[j])
        PROVE  a < b
    <3>1. a \in K2 /\ b \in K2 /\ at2[l][a] = s[i] /\ at2[l][b] = s[j]
      BY DEF Block
    <3>2. rep(a) \in Block(at, K, l, s[i]) /\ rep(b) \in Block(at, K, l, s[j])
      BY <1>3, <3>1
    <3>3. rep(a) < rep(b)
      BY <2>1, <3>2 DEF Before
    <3>. QED
      BY <1>1, <2>1, <3>1, <3>3
  <2>. QED
    BY <2>2 DEF Before
<1>. QED
  BY <1>4, <1>5, <1>7, <1>8, <1>9 DEF Row, S2

\* A sequence that is not empty has a positive length.
LEMMA NonEmptyLen ==
    ASSUME NEW S, NEW z \in Seq(S), z # <<>>
    PROVE  Len(z) # 0 /\ Len(z) \in Nat
  OBVIOUS

\* The next leaf of a leaf, with the new key.
LEMMA RepsNext ==
    ASSUME NEW at, NEW at2, NEW top, NEW K, NEW K2, NEW k, NEW w, Reps(at, at2, top, K, K2, k, w),
           top \in Nat, K2 \subseteq Keys, NEW q, NEW n, NextOK(at, K, q, n)
    PROVE  NextOK(at2, K2, q, n)
<1>. DEFINE rep(a) == Rep(k, w, a)
<1>1. /\ K \subseteq K2 /\ K2 \subseteq Int /\ K \subseteq Int
      /\ \A a \in K2 : rep(a) \in K
      /\ \A a \in K : rep(a) = a
      /\ \A a \in K2 : at2[0][a] = at[0][rep(a)]
      /\ \A a, b \in K2 : at2[0][a] # at2[0][b] => (a < b <=> rep(a) < rep(b))
  <2>1. 0 \in 0 .. top
    OBVIOUS
  <2>. QED
    BY <2>1 DEF Reps
<1>. HIDE DEF rep
<1>2. SUFFICES ASSUME NEW j \in Block(at2, K2, 0, q)
               PROVE  \/ n = 0 /\ \A y \in K2 : j < y => at2[0][y] = q
                      \/ \E z \in K2 : /\ j < z /\ n = at2[0][z] /\ n # q
                                       /\ \A i \in K2 : j < i /\ i < z => at2[0][i] = q
  BY DEF NextOK
<1>3. j \in K2 /\ at2[0][j] = q /\ rep(j) \in K /\ at[0][rep(j)] = q /\ rep(j) \in Block(at, K, 0, q)
  BY <1>1 DEF Block
<1>4. \/ n = 0 /\ \A y \in K : rep(j) < y => at[0][y] = q
      \/ \E y \in K : /\ rep(j) < y /\ n = at[0][y] /\ n # q
                      /\ \A i \in K : rep(j) < i /\ i < y => at[0][i] = q
  BY <1>3 DEF NextOK
<1>5. CASE n = 0 /\ \A y \in K : rep(j) < y => at[0][y] = q
  <2>1. ASSUME NEW y \in K2, j < y
        PROVE  at2[0][y] = q
    <3>1. ASSUME at2[0][y] # q
          PROVE  FALSE
      <4>1. rep(j) < rep(y)
        BY <1>1, <1>3, <2>1, <3>1
      <4>. QED
        BY <1>1, <1>5, <3>1, <4>1
    <3>. QED
      BY <3>1
  <2>. QED
    BY <1>5, <2>1
<1>6. CASE \E y \in K : /\ rep(j) < y /\ n = at[0][y] /\ n # q
                        /\ \A i \in K : rep(j) < i /\ i < y => at[0][i] = q
  <2>1. PICK y \in K : /\ rep(j) < y /\ n = at[0][y] /\ n # q
                       /\ \A i \in K : rep(j) < i /\ i < y => at[0][i] = q
    BY <1>6
  <2>. DEFINE T == {z \in K2 : at2[0][z] = n /\ j < z}
  <2>2. y \in K2 /\ rep(y) = y /\ at2[0][y] = n
    BY <1>1, <2>1
  <2>3. j < y
    BY <1>1, <1>3, <2>1, <2>2
  <2>4. T \subseteq Int /\ IsFiniteSet(T) /\ T # {}
    <3>1. T \subseteq Keys /\ IsFiniteSet(Keys)
      BY KeysAre
    <3>2. IsFiniteSet(T)
      BY <3>1, FS_Subset
    <3>. QED
      BY <1>1, <2>2, <2>3, <3>2
  <2>5. PICK z \in T : \A x \in T : z <= x
    BY <2>4, LeastKey
  <2>6. z \in K2 /\ at2[0][z] = n /\ j < z
    BY <2>5
  <2>7. ASSUME NEW i \in K2, j < i, i < z
        PROVE  at2[0][i] = q
    <3>1. ASSUME at2[0][i] # q
          PROVE  FALSE
      <4>1. i \notin T
        BY <1>1, <2>5, <2>6, <2>7
      <4>2. at2[0][i] # n
        BY <2>7, <4>1
      <4>3. i < y
        <5>1. y \in T
          BY <2>2, <2>3
        <5>2. z <= y
          BY <2>5, <5>1
        <5>. HIDE DEF T
        <5>3. i \in Int /\ z \in Int /\ y \in Int
          BY <1>1, <2>2, <2>6, <2>7
        <5>. QED
          BY <2>7, <5>2, <5>3
      <4>4. rep(i) < y
        BY <1>1, <2>2, <4>2, <4>3
      <4>5. rep(j) < rep(i)
        BY <1>1, <1>3, <2>7, <3>1
      <4>. QED
        BY <1>1, <2>1, <3>1, <4>4, <4>5
    <3>. QED
      BY <3>1
  <2>. QED
    BY <2>1, <2>6, <2>7
<1>. QED
  BY <1>4, <1>5, <1>6

\* An inner page above or beside the walk, with the new key below it.
LEMMA GraftInner ==
    ASSUME NEW pg, NEW at, NEW at2, NEW top, NEW M, NEW K, K = DOMAIN M, Tree(pg, at, top, M),
           NEW K2, NEW k \in Int, NEW w, Reps(at, at2, top, K, K2, k, w), K2 = K \cup {k},
           Walk(pg, at, top, K, 0, k, w), NEW m \in 0 .. top, m # 0, NEW v \in K, NEW q, q = at[m][v]
    PROVE  InnerOK(pg[q], q, m, at2, K2)
<1>. DEFINE p == pg[q]
            l == m - 1
            s == p.children
            ks == p.keys
<1>1. /\ Grid(at, top, K, Len(pg)) /\ top \in Nat /\ K \subseteq Int
      /\ InnerOK(p, q, m, at, K)
  <2>1. PageOK(p, q, m, at, M)
    BY TreePages
  <2>2. Grid(at, top, K, Len(pg)) /\ top \in Nat /\ K \subseteq Int
    BY TreePages
  <2>. QED
    BY <2>1, <2>2 DEF PageOK
<1>2. m \in Nat /\ l \in 0 .. top /\ 0 <= l /\ l <= m
  BY <1>1
<1>3. Row(s, at, K, l, Block(at, K, m, q)) /\ Seps(ks, s, at, K, l) /\ p = Inner(q, s, ks)
  BY <1>1 DEF InnerOK
<1>4. Row(s, at2, K2, l, Block(at2, K2, m, q))
  BY <1>2, <1>3, RepsRow, SMTT(20)
<1>5. /\ ks \in Seq(Int) /\ Len(ks) = Len(s) - 1 /\ s \in Seq(Int)
      /\ \A i, j \in 1 .. Len(ks) : i < j => ks[i] < ks[j]
      /\ \A i \in 1 .. Len(ks) : /\ \A a \in Block(at, K, l, s[i]) : a < ks[i]
                                 /\ \A a \in Block(at, K, l, s[i + 1]) : ks[i] <= a
  BY <1>3 DEF Seps, Row
<1>6. w \in K /\ (\A a \in K : Rep(k, w, a) = a) /\ \A a \in K2 : a # k => a \in K
  BY DEF Reps
<1>7. ASSUME NEW i \in 1 .. Len(s), w \in Block(at, K, l, s[i])
      PROVE  /\ \A j \in 1 .. Len(ks) : j < i => ks[j] <= k
             /\ \A j \in 1 .. Len(ks) : i <= j => k < ks[j]
  <2>1. at[l][w] = s[i]
    BY <1>7 DEF Block
  <2>2. w \in Block(at, K, m, q)
    BY <1>3, <1>6, <2>1 DEF Row
  <2>3. at[m][w] = q
    BY <2>2 DEF Block
  <2>4. ChildFor(p, k) = at[l][w]
    <3>1. 0 < m
      BY <1>2
    <3>. QED
      BY <2>3, <3>1 DEF Walk
  <2>5. PICK i0 \in 1 .. Len(ks) + 1 :
             /\ ChildFor(p, k) = s[i0]
             /\ \A j \in 1 .. Len(ks) : j < i0 => ks[j] <= k
             /\ \A j \in 1 .. Len(ks) : i0 <= j => k < ks[j]
    BY <1>5, ChildForFacts
  <2>6. i0 \in 1 .. Len(s) /\ s[i0] = s[i]
    BY <1>5, <2>1, <2>4, <2>5
  <2>7. i0 = i
    BY <1>1, <1>3, <2>6, RowDistinct
  <2>. QED
    BY <2>5, <2>7
<1>8. ASSUME NEW i \in 1 .. Len(ks)
      PROVE  /\ \A a \in Block(at2, K2, l, s[i]) : a < ks[i]
             /\ \A a \in Block(at2, K2, l, s[i + 1]) : ks[i] <= a
  <2>1. i \in 1 .. Len(s) /\ i + 1 \in 1 .. Len(s) /\ i < i + 1 /\ i <= i
    BY <1>5, SMTT(20)
  <2>2. ASSUME NEW a \in Block(at2, K2, l, s[i])
        PROVE  a < ks[i]
    <3>1. a \in K2 /\ Rep(k, w, a) \in Block(at, K, l, s[i])
      <4>1. a \in K2
        BY DEF Block
      <4>. QED
        BY <1>2, <4>1, RepsBlock
    <3>2. CASE a = k
      <4>1. w \in Block(at, K, l, s[i])
        BY <3>1, <3>2 DEF Rep
      <4>. QED
        BY <1>7, <2>1, <3>2, <4>1
    <3>3. CASE a # k
      <4>1. a \in Block(at, K, l, s[i])
        BY <1>6, <3>1, <3>3
      <4>. QED
        BY <1>5, <4>1
    <3>. QED
      BY <3>2, <3>3
  <2>3. ASSUME NEW a \in Block(at2, K2, l, s[i + 1])
        PROVE  ks[i] <= a
    <3>1. a \in K2 /\ Rep(k, w, a) \in Block(at, K, l, s[i + 1])
      <4>1. a \in K2
        BY DEF Block
      <4>. QED
        BY <1>2, <4>1, RepsBlock
    <3>2. CASE a = k
      <4>1. w \in Block(at, K, l, s[i + 1])
        BY <3>1, <3>2 DEF Rep
      <4>. QED
        BY <1>7, <2>1, <3>2, <4>1
    <3>3. CASE a # k
      <4>1. a \in Block(at, K, l, s[i + 1])
        BY <1>6, <3>1, <3>3
      <4>. QED
        BY <1>5, <4>1
    <3>. QED
      BY <3>2, <3>3
  <2>. QED
    BY <2>2, <2>3
<1>9. Seps(ks, s, at2, K2, l)
  BY <1>5, <1>8 DEF Seps
<1>. QED
  BY <1>3, <1>4, <1>9 DEF InnerOK

\* The first leaf, with the new key.
LEMMA RepsFirst ==
    ASSUME NEW at, NEW at2, NEW top, NEW K, NEW K2, NEW k, NEW w, Reps(at, at2, top, K, K2, k, w),
           top \in Nat, K \subseteq Keys, NEW f, FirstOK(at, K, f)
    PROVE  FirstOK(at2, K2, f)
<1>. DEFINE rep(a) == Rep(k, w, a)
<1>1. /\ K \subseteq K2 /\ K2 \subseteq Int /\ K \subseteq Int /\ K # {}
      /\ \A a \in K2 : rep(a) \in K
      /\ \A a \in K : rep(a) = a
      /\ \A a \in K2 : at2[0][a] = at[0][rep(a)]
      /\ \A a, b \in K2 : at2[0][a] # at2[0][b] => (a < b <=> rep(a) < rep(b))
  <2>1. 0 \in 0 .. top
    OBVIOUS
  <2>. QED
    BY <2>1 DEF Reps
<1>. HIDE DEF rep
<1>2. K \subseteq Int /\ IsFiniteSet(K)
  BY KeysAre, FS_Subset
<1>3. PICK m \in K : \A x \in K : m <= x
  BY <1>1, <1>2, LeastKey
<1>4. f = at[0][m] /\ at2[0][m] = f /\ m \in K2 /\ rep(m) = m
  <2>1. f = at[0][m]
    BY <1>3 DEF FirstOK
  <2>. QED
    BY <1>1, <2>1
<1>5. ASSUME NEW a \in K2, \A b \in K2 : a <= b
      PROVE  f = at2[0][a]
  <2>1. ASSUME f # at2[0][a]
        PROVE  FALSE
    <3>1. a < m
      BY <1>1, <1>4, <1>5, <2>1
    <3>2. rep(a) < m
      BY <1>1, <1>4, <2>1, <3>1
    <3>3. m <= rep(a) /\ rep(a) \in Int /\ m \in Int
      BY <1>1, <1>3
    <3>. QED
      BY <3>2, <3>3
  <2>. QED
    BY <2>1
<1>. QED
  BY <1>5 DEF FirstOK

\* The sequence t is s with the element e inserted at position i.
IsInserted(t, S, s, i, e) ==
    /\ t \in Seq(S) /\ Len(t) = Len(s) + 1
    /\ \A x \in 1 .. Len(s) + 1 : t[x] = IF x < i THEN s[x] ELSE IF x = i THEN e ELSE s[x - 1]
\* InsertAt, the model of std::vector::insert, returns such a sequence.
LEMMA InsertedIs ==
    ASSUME NEW S, NEW s \in Seq(S), NEW e \in S, NEW i \in 1 .. Len(s) + 1
    PROVE  IsInserted(InsertAt(s, i, e), S, s, i, e)
  BY Inserted DEF IsInserted

\* One entry more, at its slot.
LEMMA HeldPlus ==
    ASSUME NEW s, NEW M, NEW S, Held(s, M, S), S \subseteq DOMAIN M,
           NEW e \in Entries, e.key \notin DOMAIN M, NEW n, n = lower_bound_slot(s, e.key)
    PROVE  Held(InsertAt(s, n + 1, e), With(M, e), S \cup {e.key})
<1>. DEFINE N == With(M, e)
            t == InsertAt(s, n + 1, e)
            k == e.key
<1>1. /\ s \in Seq(Entries) /\ Len(s) \in Nat
      /\ \A i, j \in 1 .. Len(s) : i < j => s[i].key < s[j].key
      /\ \A i \in 1 .. Len(s) : s[i].key \in S /\ s[i].rid = M[s[i].key]
      /\ \A x \in S : \E i \in 1 .. Len(s) : s[i].key = x
  BY DEF Held
<1>2. k \in Int /\ k \in Keys /\ \A i \in 1 .. Len(s) : s[i].key \in Int
  <2>1. \A i \in 1 .. Len(s) : s[i] \in Entries
    BY <1>1
  <2>2. k \in Keys /\ \A i \in 1 .. Len(s) : s[i].key \in Keys
    BY <2>1 DEF Entries
  <2>. QED
    BY <2>2, KeysAre
<1>3. n \in 0 .. Len(s) /\ \A i \in 1 .. Len(s) : i <= n <=> s[i].key < k
  BY <1>2, SlotFacts
<1>4. /\ t \in Seq(Entries) /\ Len(t) = Len(s) + 1
      /\ \A x \in 1 .. Len(s) + 1 : t[x] =
           IF x < n + 1 THEN s[x] ELSE IF x = n + 1 THEN e ELSE s[x - 1]
  <2>. DEFINE m == n + 1
  <2>1. m \in 1 .. Len(s) + 1
    BY <1>1, <1>3
  <2>2. t = InsertAt(s, m, e)
    OBVIOUS
  <2>3. s \in Seq(Entries) /\ e \in Entries
    BY <1>1
  <2>. HIDE DEF m, t
  <2>4. IsInserted(InsertAt(s, m, e), Entries, s, m, e)
    BY ONLY <2>1, <2>3, InsertedIs, Zenon
  <2>5. IsInserted(t, Entries, s, m, e)
    BY <2>2, <2>4, Zenon
  <2>. QED
    BY <2>5 DEF m, IsInserted
<1>5. \A i \in 1 .. Len(s) : s[i].key # k
  BY <1>1
<1>6. DOMAIN N = DOMAIN M \cup {k} /\ N[k] = e.rid /\ \A x \in DOMAIN M : N[x] = M[x]
  BY DEF With
<1>. HIDE DEF t, N
<1>7. /\ t[n + 1] = e
      /\ \A i \in 1 .. Len(s) : i <= n => t[i] = s[i] /\ i \in 1 .. Len(t)
      /\ \A i \in 1 .. Len(s) : n < i => t[i + 1] = s[i] /\ i + 1 \in 1 .. Len(t)
      /\ n + 1 \in 1 .. Len(t)
  <2>1. n + 1 \in 1 .. Len(s) + 1 /\ n \in Nat
    BY <1>1, <1>3
  <2>2. t[n + 1] = e
    BY <1>4, <2>1
  <2>3. ASSUME NEW i \in 1 .. Len(s), i <= n
        PROVE  t[i] = s[i] /\ i \in 1 .. Len(t)
    <3>1. i < n + 1 /\ i \in 1 .. Len(s) + 1
      BY <1>1, <2>1, <2>3
    <3>. QED
      BY <1>4, <3>1
  <2>4. ASSUME NEW i \in 1 .. Len(s), n < i
        PROVE  t[i + 1] = s[i] /\ i + 1 \in 1 .. Len(t)
    <3>1. ~(i + 1 < n + 1) /\ i + 1 # n + 1 /\ i + 1 \in 1 .. Len(s) + 1 /\ (i + 1) - 1 = i
      BY <1>1, <2>1, <2>4
    <3>. QED
      BY <1>4, <3>1
  <2>. QED
    BY <1>4, <2>1, <2>2, <2>3, <2>4
<1>8. ASSUME NEW y \in 1 .. Len(t)
      PROVE  \/ y = n + 1 /\ t[y] = e
             \/ y <= n /\ y \in 1 .. Len(s) /\ t[y] = s[y]
             \/ n + 1 < y /\ y - 1 \in 1 .. Len(s) /\ t[y] = s[y - 1]
  <2>1. y \in 1 .. Len(s) + 1 /\ n \in Nat /\ n <= Len(s)
    BY <1>1, <1>3, <1>4
  <2>2. CASE y < n + 1
    <3>1. y <= n /\ y \in 1 .. Len(s)
      BY <1>1, <2>1, <2>2
    <3>. QED
      BY <1>4, <2>1, <2>2, <3>1
  <2>3. CASE y = n + 1
    BY <1>7, <2>3
  <2>4. CASE n + 1 < y
    <3>1. y - 1 \in 1 .. Len(s) /\ ~(y < n + 1) /\ y # n + 1
      BY <1>1, <2>1, <2>4
    <3>. QED
      BY <1>4, <2>1, <2>4, <3>1
  <2>. QED
    BY <2>1, <2>2, <2>3, <2>4
<1>9. ASSUME NEW i \in 1 .. Len(t), NEW j \in 1 .. Len(t), i < j
      PROVE  t[i].key < t[j].key
  <2>1. n \in Nat /\ Len(t) \in Nat
    BY <1>1, <1>3, <1>4
  <2>2. CASE i = n + 1
    <3>1. n + 1 < j /\ j - 1 \in 1 .. Len(s) /\ t[j] = s[j - 1] /\ t[i] = e
      BY <1>7, <1>8, <1>9, <2>1, <2>2
    <3>2. ~(j - 1 <= n)
      BY <2>1, <3>1
    <3>3. ~(s[j - 1].key < k) /\ s[j - 1].key # k /\ s[j - 1].key \in Int
      BY <1>2, <1>3, <1>5, <3>1, <3>2
    <3>4. k < s[j - 1].key
      BY <1>2, <3>3
    <3>. QED
      BY <3>1, <3>4
  <2>3. CASE i <= n
    <3>1. i \in 1 .. Len(s) /\ t[i] = s[i]
      BY <1>8, <2>1, <2>3
    <3>2. CASE j = n + 1
      <4>1. s[i].key < k /\ t[j] = e
        BY <1>3, <1>7, <2>3, <3>1, <3>2
      <4>. QED
        BY <3>1, <4>1
    <3>3. CASE j <= n
      <4>1. j \in 1 .. Len(s) /\ t[j] = s[j]
        BY <1>8, <2>1, <3>3
      <4>. QED
        BY <1>1, <1>9, <3>1, <4>1
    <3>4. CASE n + 1 < j
      <4>1. j - 1 \in 1 .. Len(s) /\ t[j] = s[j - 1]
        <5>1. j \in Nat /\ ~(j = n + 1) /\ ~(j <= n)
          BY <2>1, <3>4
        <5>. QED
          BY <1>8, <5>1
      <4>2. i < j - 1
        BY <2>1, <2>3, <3>4, <4>1
      <4>. QED
        BY <1>1, <3>1, <4>1, <4>2
    <3>. QED
      BY <2>1, <3>2, <3>3, <3>4
  <2>4. CASE n + 1 < i
    <3>1. i - 1 \in 1 .. Len(s) /\ t[i] = s[i - 1]
      BY <1>8, <2>1, <2>4
    <3>2. n + 1 < j
      BY <1>9, <2>1, <2>4
    <3>3. j - 1 \in 1 .. Len(s) /\ t[j] = s[j - 1]
      BY <1>8, <2>1, <3>2
    <3>4. i - 1 < j - 1
      BY <1>9
    <3>. QED
      BY <1>1, <3>1, <3>3, <3>4
  <2>. QED
    BY <2>1, <2>2, <2>3, <2>4
<1>10. ASSUME NEW i \in 1 .. Len(t)
       PROVE  t[i].key \in S \cup {k} /\ t[i].rid = N[t[i].key]
  <2>1. ASSUME NEW x \in 1 .. Len(s)
        PROVE  s[x].key \in S /\ s[x].rid = N[s[x].key]
    BY <1>1, <1>6
  <2>2. e.key = k /\ e.rid = N[k]
    BY <1>6
  <2>. QED
    BY <1>8, <2>1, <2>2
<1>11. ASSUME NEW x \in S \cup {k}
       PROVE  \E i \in 1 .. Len(t) : t[i].key = x
  <2>1. CASE x = k
    BY <1>7, <2>1
  <2>2. CASE x \in S
    <3>1. PICK i \in 1 .. Len(s) : s[i].key = x
      BY <1>1, <2>2
    <3>2. n \in Nat
      BY <1>3
    <3>3. CASE i <= n
      BY <1>7, <3>1, <3>3
    <3>4. CASE n < i
      BY <1>7, <3>1, <3>4
    <3>. QED
      BY <3>2, <3>3, <3>4
  <2>. QED
    BY <2>1, <2>2
<1>. QED
  BY <1>4, <1>9, <1>10, <1>11 DEF Held, t, N

\* The leaf x gets the entry e of a new key, and is otherwise as it was.
Gains(new, p, e) == new = [p EXCEPT !.entries = InsertAt(@, lower_bound_slot(p.entries, e.key) + 1, e)]
Grown(pg, at, at2, top, M, e, w, x, new) ==
    /\ Tree([pg EXCEPT ![x] = new], at2, top, With(M, e))
    /\ at2[0][w] = x /\ w \in DOMAIN With(M, e)
    /\ \A r : RootOK(at, top, DOMAIN M, r) => RootOK(at2, top, DOMAIN With(M, e), r)
    /\ \A f : FirstOK(at, DOMAIN M, f) => FirstOK(at2, DOMAIN With(M, e), f)
    /\ \A path : PathIs(path, at, top, 0, w) => PathIs(path, at2, top, 0, w)
\* The tree with the new entry in its leaf.
LEMMA InsertTree ==
    ASSUME NEW pg \in Seq(AnyPage), NEW at, NEW top, NEW M, Tree(pg, at, top, M),
           NEW e \in Entries, e.key \notin DOMAIN M, NEW w, Walk(pg, at, top, DOMAIN M, 0, e.key, w),
           NEW x, x = at[0][w], NEW new, Gains(new, pg[x], e),
           NEW at2, at2 = Grafted(at, e.key, w)
    PROVE  Grown(pg, at, at2, top, M, e, w, x, new)
<1>. DEFINE K == DOMAIN M
            N == With(M, e)
            K2 == DOMAIN N
            k == e.key
            pg2 == [pg EXCEPT ![x] = new]
            rep(a) == Rep(k, w, a)
<1>1. /\ Grid(at, top, K, Len(pg)) /\ top \in Nat /\ Len(pg) \in Nat /\ K # {} /\ K \subseteq Keys /\ K \subseteq Int
      /\ \A l \in 0 .. top, a \in K : at[l][a] \in 1 .. Len(pg) /\ PageOK(pg[at[l][a]], at[l][a], l, at, M)
  BY TreePages
<1>2. Reps(at, at2, top, K, K2, k, w) /\ at2 \in [Nat -> [Int -> Int]]
  BY GraftReps
<1>3. K2 = K \cup {k} /\ \A a \in K : N[a] = M[a]
  BY DEF With
<1>4. k \in Keys /\ k \in Int /\ K2 \subseteq Keys
  <2>1. k \in Keys
    BY DEF Entries
  <2>. QED
    BY <1>1, <1>3, <2>1, KeysAre
<1>5. /\ w \in K /\ w \in K2 /\ w # k
      /\ \A a \in K2 : rep(a) \in K
      /\ \A a \in K : rep(a) = a
      /\ rep(k) = w
      /\ \A l \in 0 .. top, a \in K2 : at2[l][a] = at[l][rep(a)]
  BY <1>3, <1>2 DEF Reps, Rep
<1>6. 0 \in 0 .. top
  BY <1>1
<1>7. LeafBox(pg[x], x, at, M, Len(pg)) /\ x \in 1 .. Len(pg)
  BY <1>1, <1>5, <1>6, LeafPage
<1>8. Grid(at2, top, K2, Len(pg))
  BY <1>1, <1>2, <1>4, RepsGrid, ZenonT(60)
<1>9. Walk(pg, at, top, K, 0, k, w)
  OBVIOUS
<1>. HIDE DEF K, N, K2, k, rep
<1>10. /\ Len(pg2) = Len(pg) /\ pg2[x] = new
       /\ \A j \in 1 .. Len(pg) : j # x => pg2[j] = pg[j]
  BY <1>7, Written
<1>. HIDE DEF pg2
<1>11. \A l \in 0 .. top, a \in K2 : at2[l][a] \in 1 .. Len(pg)
  BY <1>1, <1>5
<1>12. ASSUME NEW m \in 0 .. top, m # 0, NEW a \in K2
       PROVE  InnerOK(pg2[at2[m][a]], at2[m][a], m, at2, K2)
  <2>1. at2[m][a] = at[m][rep(a)] /\ rep(a) \in K
    BY <1>5
  <2>2. InnerOK(pg[at[m][rep(a)]], at[m][rep(a)], m, at2, K2)
    BY <1>2, <1>3, <1>4, <1>9, <1>12, <2>1, GraftInner DEF K
  <2>3. at[m][rep(a)] # x
    BY <1>1, <1>5, <1>6, <1>12, <2>1, Apart
  <2>. QED
    BY <1>10, <1>11, <2>1, <2>2, <2>3
<1>13. \A q, n : NextOK(at, K, q, n) => NextOK(at2, K2, q, n)
  BY <1>1, <1>2, <1>4, RepsNext
<1>14. \A q : \A a \in K2 : a \in Block(at2, K2, 0, q) <=> rep(a) \in Block(at, K, 0, q)
  <2>. DEFINE z == 0
  <2>1. z \in 0 .. top
    BY <1>6
  <2>. HIDE DEF z
  <2>2. ASSUME NEW q
        PROVE  \A a \in K2 : a \in Block(at2, K2, z, q) <=> Rep(k, w, a) \in Block(at, K, z, q)
    BY ONLY <1>2, <2>1, RepsBlock, SMTT(20)
  <2>. QED
    BY <2>2 DEF rep, z
<1>15. LeafOK(new, x, at2, N)
  <2>1. /\ pg[x] = Leaf(x, pg[x].entries, pg[x].next)
        /\ Held(pg[x].entries, M, Block(at, K, 0, x)) /\ NextOK(at, K, x, pg[x].next)
    BY <1>7 DEF LeafBox, K
  <2>2. /\ new = Leaf(x, InsertAt(pg[x].entries, lower_bound_slot(pg[x].entries, k) + 1, e), pg[x].next)
    BY <2>1 DEF Gains, Leaf, k
  <2>3. Held(InsertAt(pg[x].entries, lower_bound_slot(pg[x].entries, k) + 1, e), N, Block(at, K, 0, x) \cup {k})
    <3>1. Block(at, K, 0, x) \subseteq DOMAIN M
      BY DEF Block, K
    <3>. QED
      BY <2>1, <3>1, HeldPlus DEF k, N
  <2>4. Block(at2, K2, 0, x) = Block(at, K, 0, x) \cup {k}
    <3>1. w \in Block(at, K, 0, x) /\ k \in K2 /\ K \subseteq K2
      BY <1>3, <1>5 DEF Block
    <3>2. \A a \in K2 : a \in Block(at2, K2, 0, x) <=> a \in Block(at, K, 0, x) \cup {k}
      <4>1. k \in Block(at2, K2, 0, x)
        BY <1>5, <1>14, <3>1
      <4>2. \A a \in K : a \in Block(at2, K2, 0, x) <=> a \in Block(at, K, 0, x)
        BY <1>5, <1>14, <3>1
      <4>. QED
        BY <1>3, <4>1, <4>2 DEF Block
    <3>3. Block(at2, K2, 0, x) \subseteq K2 /\ Block(at, K, 0, x) \subseteq K
      BY DEF Block
    <3>. QED
      BY <3>1, <3>2, <3>3
  <2>5. NextOK(at2, K2, x, pg[x].next)
    BY <1>13, <2>1
  <2>6. new.entries = InsertAt(pg[x].entries, lower_bound_slot(pg[x].entries, k) + 1, e) /\ new.next = pg[x].next
    BY <2>2, LeafParts3
  <2>. QED
    BY <2>2, <2>3, <2>4, <2>5, <2>6 DEF LeafOK, K2
<1>16. ASSUME NEW a \in K2
       PROVE  LeafOK(pg2[at2[0][a]], at2[0][a], at2, N)
  <2>. DEFINE q == at2[0][a]
  <2>1. q = at[0][rep(a)] /\ rep(a) \in K /\ q \in 1 .. Len(pg)
    BY <1>5, <1>6, <1>11
  <2>2. CASE q = x
    BY <1>10, <1>15, <2>2
  <2>3. CASE q # x
    <3>1. LeafBox(pg[q], q, at, M, Len(pg))
      BY <2>1, LeafPage, SMTT(20) DEF K
    <3>2. /\ pg[q] = Leaf(q, pg[q].entries, pg[q].next)
          /\ Held(pg[q].entries, M, Block(at, K, 0, q)) /\ NextOK(at, K, q, pg[q].next)
      BY <3>1 DEF LeafBox, K
    <3>3. Block(at2, K2, 0, q) = Block(at, K, 0, q)
      <4>1. k \notin Block(at2, K2, 0, q)
        <5>1. w \notin Block(at, K, 0, q)
          BY <2>3 DEF Block
        <5>2. k \in K2
          BY <1>3
        <5>. QED
          BY <1>5, <1>14, <5>1, <5>2
      <4>2. \A b \in K : b \in Block(at2, K2, 0, q) <=> b \in Block(at, K, 0, q)
        <5>1. ASSUME NEW b \in K
              PROVE  b \in Block(at2, K2, 0, q) <=> b \in Block(at, K, 0, q)
          <6>1. b \in K2 /\ rep(b) = b
            BY <1>3, <1>5
          <6>2. b \in Block(at2, K2, 0, q) <=> rep(b) \in Block(at, K, 0, q)
            BY <1>14, <6>1
          <6>. QED
            BY <6>1, <6>2
        <5>. QED
          BY <5>1
      <4>3. Block(at2, K2, 0, q) \subseteq K2 /\ Block(at, K, 0, q) \subseteq K
        BY DEF Block
      <4>. QED
        BY <1>3, <4>1, <4>2, <4>3
    <3>4. \A b \in Block(at, K, 0, q) : N[b] = M[b]
      BY <1>3, Zenon DEF Block
    <3>5. Held(pg[q].entries, N, Block(at2, K2, 0, q))
      BY <3>2, <3>3, <3>4, ZenonT(60) DEF Held
    <3>6. LeafOK(pg[q], q, at2, N)
      BY <1>13, <3>2, <3>5 DEF LeafOK, K2
    <3>. QED
      BY <1>10, <2>1, <2>3, <3>6
  <2>. QED
    BY <2>2, <2>3
<1>17. Tree(pg2, at2, top, N)
  <2>1. \A l \in 0 .. top, a \in K2 : PageOK(pg2[at2[l][a]], at2[l][a], l, at2, N)
    BY <1>12, <1>16 DEF PageOK, K2
  <2>2. \A l \in 0 .. top : Layer(pg2, at2, N, l)
    BY <2>1 DEF Layer, K2
  <2>. QED
    BY <1>5, <1>8, <1>10, <2>2 DEF Tree, K2
<1>18. \A r : RootOK(at, top, K, r) => RootOK(at2, top, K2, r)
  <2>1. top \in 0 .. top
    BY <1>1
  <2>2. \A a \in K2 : at2[top][a] = at[top][rep(a)] /\ rep(a) \in K
    BY <1>5, <2>1
  <2>. QED
    BY <2>2 DEF RootOK
<1>19. \A f : FirstOK(at, K, f) => FirstOK(at2, K2, f)
  BY <1>1, <1>2, RepsFirst
<1>20. \A l \in 0 .. top : at2[l][w] = at[l][w]
  BY <1>5
<1>21. \A path : PathIs(path, at, top, 0, w) => PathIs(path, at2, top, 0, w)
  <2>1. [i \in 1 .. top + 1 - 0 |-> at[top + 1 - i][w]] = [i \in 1 .. top + 1 - 0 |-> at2[top + 1 - i][w]]
    <3>1. \A i \in 1 .. top + 1 - 0 : top + 1 - i \in 0 .. top
      BY <1>1
    <3>. QED
      BY <1>20, <3>1
  <2>. QED
    BY <2>1 DEF PathIs
<1>. QED
  BY <1>5, <1>6, <1>17, <1>18, <1>19, <1>20, <1>21 DEF pg2, N, K, K2, Grown

----------------------------------------------------------------------------
(* A key less, in a leaf that keeps another *)

\* The pages of fewer keys.
LEMMA GridLess ==
    ASSUME NEW at, NEW top, NEW K, NEW n, Grid(at, top, K, n), NEW K2, K2 \subseteq K
    PROVE  Grid(at, top, K2, n)
<1>1. /\ top \in Nat /\ n \in Nat /\ K2 \subseteq Keys
      /\ at \in [Nat -> [Int -> Int]]
      /\ \A l \in 0 .. top, k \in K2 : at[l][k] \in 1 .. n
  BY DEF Grid
<1>2. \A l, m \in 0 .. top, j, k \in K2 : at[l][j] = at[m][k] => l = m
  BY Apart
<1>3. \A l \in 0 .. top, i, j, k \in K2 :
         i < j /\ j < k /\ at[l][i] = at[l][k] => at[l][j] = at[l][i]
  BY Convex
<1>4. \A l, m \in 0 .. top, j, k \in K2 :
         l <= m /\ at[l][j] = at[l][k] => at[m][j] = at[m][k]
  BY Nested
<1>. QED
  BY <1>1, <1>2, <1>3, <1>4 DEF Grid

\* The key k of K goes; the leaf keeps the key v.
Leaves(at, top, K, K2, k, v, n) ==
    /\ Grid(at, top, K, n) /\ k \in K /\ K2 = K \ {k} /\ v \in K2 /\ at[0][v] = at[0][k]

\* The next leaf of a leaf, without the key.
LEMMA NextLess ==
    ASSUME NEW at, NEW top, NEW K, NEW K2, NEW k, NEW v, NEW m, Leaves(at, top, K, K2, k, v, m),
           NEW q, NEW n, NextOK(at, K, q, n)
    PROVE  NextOK(at, K2, q, n)
<1>1. /\ Grid(at, top, K, m) /\ k \in K /\ K2 = K \ {k} /\ v \in K2 /\ at[0][v] = at[0][k]
      /\ 0 \in 0 .. top /\ K \subseteq Keys /\ K \subseteq Int /\ K2 \subseteq K
  BY KeysAre DEF Leaves, Grid
<1>2. SUFFICES ASSUME NEW j \in Block(at, K2, 0, q)
               PROVE  \/ n = 0 /\ \A y \in K2 : j < y => at[0][y] = q
                      \/ \E z \in K2 : /\ j < z /\ n = at[0][z] /\ n # q
                                       /\ \A i \in K2 : j < i /\ i < z => at[0][i] = q
  BY DEF NextOK
<1>3. j \in K2 /\ j \in K /\ at[0][j] = q /\ j \in Block(at, K, 0, q)
  BY <1>1 DEF Block
<1>4. \/ n = 0 /\ \A y \in K : j < y => at[0][y] = q
      \/ \E y \in K : /\ j < y /\ n = at[0][y] /\ n # q
                      /\ \A i \in K : j < i /\ i < y => at[0][i] = q
  BY <1>3 DEF NextOK
<1>5. CASE n = 0 /\ \A y \in K : j < y => at[0][y] = q
  BY <1>1, <1>5
<1>6. CASE \E y \in K : /\ j < y /\ n = at[0][y] /\ n # q
                        /\ \A i \in K : j < i /\ i < y => at[0][i] = q
  <2>1. PICK y \in K : /\ j < y /\ n = at[0][y] /\ n # q
                       /\ \A i \in K : j < i /\ i < y => at[0][i] = q
    BY <1>6
  <2>2. CASE y # k
    BY <1>1, <2>1, <2>2
  <2>3. CASE y = k
    <3>1. at[0][v] = n /\ v # j /\ v # k /\ v \in K /\ j \in Int /\ v \in Int /\ k \in Int
      BY <1>1, <1>3, <2>1, <2>3
    <3>2. k < v
      <4>1. ~(v < j)
        <5>1. ASSUME v < j
              PROVE  FALSE
          <6>1. j < k /\ at[0][v] = at[0][k]
            BY <1>1, <2>1, <2>3
          <6>2. at[0][j] = at[0][v]
            BY <1>1, <1>3, <3>1, <5>1, <6>1, Convex
          <6>. QED
            BY <1>3, <2>1, <3>1, <6>2
        <5>. QED
          BY <5>1
      <4>2. ~(j < v /\ v < k)
        BY <2>1, <2>3, <3>1
      <4>. QED
        BY <3>1, <4>1, <4>2
    <3>. DEFINE T == {z \in K2 : at[0][z] = n /\ j < z}
    <3>3. v \in T
      BY <1>1, <2>1, <2>3, <3>1, <3>2
    <3>4. T \subseteq Int /\ IsFiniteSet(T) /\ T # {}
      <4>1. T \subseteq Keys /\ IsFiniteSet(Keys)
        BY <1>1, KeysAre
      <4>2. IsFiniteSet(T)
        BY <4>1, FS_Subset
      <4>. QED
        BY <1>1, <3>3, <4>2
    <3>5. PICK z \in T : \A x \in T : z <= x
      BY <3>4, LeastKey
    <3>6. z \in K2 /\ at[0][z] = n /\ j < z /\ z \in Int
      BY <1>1, <3>5
    <3>7. ASSUME NEW i \in K2, j < i, i < z
          PROVE  at[0][i] = q
      <4>1. i # k /\ i \in K /\ i \in Int /\ k \in Int /\ i \notin T
        BY <1>1, <3>5, <3>6, <3>7
      <4>2. at[0][i] # n
        BY <3>7, <4>1
      <4>3. CASE i < k
        BY <2>1, <2>3, <3>7, <4>1, <4>3
      <4>4. CASE k < i
        <5>1. at[0][k] = at[0][z] /\ z \in K
          BY <1>1, <2>1, <2>3, <3>6
        <5>2. at[0][i] = at[0][k]
          BY <1>1, <3>7, <4>1, <4>4, <5>1, Convex
        <5>. QED
          BY <2>1, <2>3, <4>2, <5>2
      <4>. QED
        BY <4>1, <4>3, <4>4
    <3>. QED
      BY <2>1, <3>6, <3>7
  <2>. QED
    BY <2>2, <2>3
<1>. QED
  BY <1>4, <1>5, <1>6

\* The first leaf, without the key.
LEMMA FirstLess ==
    ASSUME NEW at, NEW top, NEW K, NEW K2, NEW k, NEW v, NEW m, Leaves(at, top, K, K2, k, v, m),
           NEW f, FirstOK(at, K, f)
    PROVE  FirstOK(at, K2, f)
<1>1. /\ Grid(at, top, K, m) /\ k \in K /\ K2 = K \ {k} /\ v \in K2 /\ at[0][v] = at[0][k]
      /\ 0 \in 0 .. top /\ K \subseteq Keys /\ K \subseteq Int /\ K2 \subseteq K /\ IsFiniteSet(Keys)
  BY KeysAre DEF Leaves, Grid
<1>2. K \subseteq Int /\ IsFiniteSet(K) /\ K # {}
  BY <1>1, FS_Subset
<1>3. PICK a \in K : \A x \in K : a <= x
  BY <1>2, LeastKey
<1>4. f = at[0][a]
  BY <1>3 DEF FirstOK
<1>5. ASSUME NEW b \in K2, \A c \in K2 : b <= c
      PROVE  f = at[0][b]
  <2>1. CASE a # k
    <3>1. a \in K2 /\ a <= b /\ b <= a
      BY <1>1, <1>3, <1>5, <2>1
    <3>. QED
      BY <1>1, <1>4, <3>1
  <2>2. CASE a = k
    <3>1. k < b /\ (b < v \/ b = v)
      BY <1>1, <1>3, <1>5, <2>2
    <3>2. CASE b = v
      BY <1>1, <1>4, <2>2, <3>2
    <3>3. CASE b < v
      <4>1. at[0][b] = at[0][k]
        BY <1>1, <3>1, <3>3, Convex
      <4>. QED
        BY <1>4, <2>2, <4>1
    <3>. QED
      BY <3>1, <3>2, <3>3
  <2>. QED
    BY <2>1, <2>2
<1>. QED
  BY <1>5 DEF FirstOK

\* The tree without an entry, whose leaf keeps another.
LEMMA EraseTree ==
    ASSUME NEW pg \in Seq(AnyPage), NEW at, NEW top, NEW M, Tree(pg, at, top, M),
           NEW k \in DOMAIN M, NEW v \in DOMAIN M, v # k, at[0][v] = at[0][k],
           NEW x, x = at[0][k], NEW new, Minus(pg[x], k, new)
    PROVE  /\ Tree([pg EXCEPT ![x] = new], at, top, Without(M, k)) /\ v \in DOMAIN Without(M, k)
           /\ \A r : RootOK(at, top, DOMAIN M, r) => RootOK(at, top, DOMAIN Without(M, k), r)
           /\ \A f : FirstOK(at, DOMAIN M, f) => FirstOK(at, DOMAIN Without(M, k), f)
<1>. DEFINE K == DOMAIN M
            N == Without(M, k)
            K2 == DOMAIN N
            pg2 == [pg EXCEPT ![x] = new]
<1>1. /\ Grid(at, top, K, Len(pg)) /\ top \in Nat /\ Len(pg) \in Nat /\ K # {} /\ K \subseteq Keys /\ K \subseteq Int
      /\ \A l \in 0 .. top, a \in K : at[l][a] \in 1 .. Len(pg) /\ PageOK(pg[at[l][a]], at[l][a], l, at, M)
  BY TreePages
<1>2. K2 = K \ {k} /\ (\A a \in K2 : N[a] = M[a]) /\ v \in K2 /\ K2 \subseteq K
  BY DEF Without
<1>3. 0 \in 0 .. top
  BY <1>1
<1>4. LeafBox(pg[x], x, at, M, Len(pg)) /\ x \in 1 .. Len(pg)
  BY <1>1, <1>3, LeafPage
<1>5. /\ Len(pg2) = Len(pg) /\ pg2[x] = new
      /\ \A j \in 1 .. Len(pg) : j # x => pg2[j] = pg[j]
  BY <1>4, Written
<1>6. x = at[0][k] /\ Minus(pg[x], k, new) /\ k \in K /\ v \in K /\ v # k /\ at[0][v] = at[0][k]
  OBVIOUS
<1>. HIDE DEF K, N, K2, pg2
<1>7. Leaves(at, top, K, K2, k, v, Len(pg))
  BY <1>1, <1>2, <1>6 DEF Leaves
<1>8. Grid(at, top, K2, Len(pg))
  BY <1>1, <1>2, GridLess
<1>9. \A q, n : NextOK(at, K, q, n) => NextOK(at, K2, q, n)
  BY ONLY <1>7, NextLess
<1>10. \A f : FirstOK(at, K, f) => FirstOK(at, K2, f)
  BY ONLY <1>7, FirstLess
<1>11. \A m \in 0 .. top : at[m][v] = at[m][k]
  BY <1>1, <1>3, <1>6, Nested
<1>12. ASSUME NEW m \in 0 .. top, m # 0, NEW a \in K2
       PROVE  InnerOK(pg2[at[m][a]], at[m][a], m, at, K2)
  <2>. DEFINE q == at[m][a]
              p == pg[q]
  <2>1. a \in K /\ m - 1 \in 0 .. top
    BY <1>1, <1>2, <1>12
  <2>2. InnerOK(p, q, m, at, K) /\ q \in 1 .. Len(pg)
    BY <1>1, <1>12, <2>1 DEF PageOK, K
  <2>3. q # x
    BY <1>1, <1>3, <1>6, <1>12, <2>1, Apart
  <2>4. \A i \in 1 .. Len(p.children) : \E b \in K2 : at[m - 1][b] = p.children[i]
    <3>1. ASSUME NEW i \in 1 .. Len(p.children)
          PROVE  \E b \in K2 : at[m - 1][b] = p.children[i]
      <4>1. PICK b \in K : at[m - 1][b] = p.children[i]
        BY <2>2 DEF InnerOK, Row
      <4>2. CASE b = k
        BY <1>2, <1>11, <2>1, <4>1, <4>2
      <4>3. CASE b # k
        BY <1>2, <4>1, <4>3
      <4>. QED
        BY <4>2, <4>3
    <3>. QED
      BY <3>1
  <2>. HIDE DEF p, q
  <2>5. InnerOK(p, q, m, at, K2)
    BY <1>2, <2>2, <2>4, InnerKept
  <2>6. pg2[q] = p
    BY <1>5, <2>2, <2>3 DEF p
  <2>. QED
    BY <2>5, <2>6 DEF q
<1>13. LeafOK(new, x, at, N)
  <2>1. Lost(new, x, M, k, at, pg[x].next)
    BY <1>1, <1>4, <1>6, MinusLost DEF K
  <2>2. new = Leaf(x, new.entries, pg[x].next) /\ Held(new.entries, N, Block(at, K2, 0, x))
    BY <2>1 DEF Lost, N, K2
  <2>3. NextOK(at, K2, x, pg[x].next)
    BY <1>4, <1>9 DEF LeafBox, K
  <2>4. new.next = pg[x].next
    BY <2>2, LeafParts3
  <2>. QED
    BY <2>2, <2>3, <2>4 DEF LeafOK, K2
<1>14. ASSUME NEW a \in K2
       PROVE  LeafOK(pg2[at[0][a]], at[0][a], at, N)
  <2>. DEFINE q == at[0][a]
  <2>1. a \in K /\ q \in 1 .. Len(pg)
    BY <1>1, <1>2, <1>3
  <2>2. CASE q = x
    BY <1>5, <1>13, <2>2
  <2>3. CASE q # x
    <3>1. LeafBox(pg[q], q, at, M, Len(pg))
      BY <2>1, LeafPage DEF K
    <3>2. /\ pg[q] = Leaf(q, pg[q].entries, pg[q].next)
          /\ Held(pg[q].entries, M, Block(at, K, 0, q)) /\ NextOK(at, K, q, pg[q].next)
      BY <3>1 DEF LeafBox, K
    <3>3. Block(at, K2, 0, q) = Block(at, K, 0, q)
      BY <1>2, <1>6, <2>3 DEF Block
    <3>4. \A b \in Block(at, K2, 0, q) : N[b] = M[b]
      BY <1>2, Zenon DEF Block
    <3>5. Held(pg[q].entries, N, Block(at, K2, 0, q))
      BY <3>2, <3>3, <3>4, Zenon DEF Held
    <3>6. LeafOK(pg[q], q, at, N)
      BY <1>9, <3>2, <3>5 DEF LeafOK, K2
    <3>. QED
      BY <1>5, <2>1, <2>3, <3>6
  <2>. QED
    BY <2>2, <2>3
<1>15. Tree(pg2, at, top, N)
  <2>1. \A l \in 0 .. top, a \in K2 : PageOK(pg2[at[l][a]], at[l][a], l, at, N)
    BY <1>12, <1>14 DEF PageOK, K2
  <2>2. \A l \in 0 .. top : Layer(pg2, at, N, l)
    BY <2>1 DEF Layer, K2
  <2>. QED
    BY <1>2, <1>5, <1>8, <2>2 DEF Tree, K2
<1>16. \A r : RootOK(at, top, K, r) => RootOK(at, top, K2, r)
  BY <1>2 DEF RootOK
<1>. QED
  BY <1>2, <1>10, <1>15, <1>16 DEF pg2, N, K, K2

----------------------------------------------------------------------------
(* Forgetting the pages that cannot be reached *)

Succs(p) == IF IsInner(p) THEN Range(p.children)
            ELSE IF IsLeaf(p) /\ p.next # 0 THEN {p.next} ELSE {}
\* A set of pages that holds the root and the first leaf, and is what n steps reach.
Reaches(g, pg, r, f, N) ==
    /\ g \in [0 .. N -> SUBSET (1 .. Len(pg))]
    /\ g[0] = {r, f}
    /\ \A i \in 1 .. N : g[i] = g[i - 1] \cup UNION {Succs(pg[q]) : q \in g[i - 1]}
ReachIs(st) == \E g : Reaches(g, st.pages, st.root, st.first, Len(st.pages)) /\ Reachable(st) = g[Len(st.pages)]

\* Pages lead to pages of the file.
LEMMA SuccsTyped ==
    ASSUME NEW pg, FileOK(pg), NEW q \in 1 .. Len(pg)
    PROVE  Succs(pg[q]) \subseteq 1 .. Len(pg)
<1>1. PageTyped(pg[q], q, Len(pg)) /\ Len(pg) \in Nat
  BY DEF FileOK
<1>2. CASE IsInner(pg[q])
  <2>1. pg[q].children \in Seq(1 .. Len(pg))
    BY <1>1, <1>2, TypedParts
  <2>. DEFINE ch == pg[q].children
              T == 1 .. Len(pg)
  <2>. HIDE DEF ch, T
  <2>2. ch \in Seq(T)
    BY <2>1 DEF ch, T
  <2>3. Range(ch) \subseteq T
    BY <2>2 DEF Range
  <2>. QED
    BY <1>2, <2>3 DEF Succs, ch, T
<1>3. CASE ~IsInner(pg[q])
  <2>1. IsLeaf(pg[q]) => pg[q].next \in 0 .. Len(pg)
    BY <1>1, TypedParts
  <2>. QED
    BY <1>1, <1>3, <2>1 DEF Succs
<1>. QED
  BY <1>2, <1>3

\* Reachable is what the steps from the root and from the first leaf reach.
LEMMA ReachFound ==
    ASSUME NEW st, IsState(st)
    PROVE  ReachIs(st)
<1>. DEFINE pg == st.pages
            N == Len(pg)
            V == SUBSET (1 .. N)
            step == [r \in V |-> r \cup UNION {Succs(pg[q]) : q \in r}]
            Successors(p) == IF IsInner(p) THEN Range(p.children)
                             ELSE IF IsLeaf(p) /\ p.next # 0 THEN {p.next} ELSE {}
            G(f) == [n \in 0 .. N |-> IF n = 0 THEN {st.root, st.first}
                      ELSE LET r == f[n - 1] IN r \cup UNION {Successors(pg[q]) : q \in r}]
            f == CHOOSE h : h = G(h)
            p == {st.root, st.first}
<1>1. Reachable(st) = f[N]
  BY DEF Reachable
<1>2. N \in Nat /\ FileOK(pg) /\ p \in V
  BY FilePages DEF IsState
<1>3. step \in [V -> V]
  <2>1. \A q \in 1 .. N : Succs(pg[q]) \subseteq 1 .. N
    BY <1>2, SuccsTyped
  <2>2. ASSUME NEW r \in V
        PROVE  r \cup UNION {Succs(pg[q]) : q \in r} \in V
    BY <2>1
  <2>. QED
    BY <2>2
<1>4. PICK g : Iterates(g, V, step, p, N)
  <2>. HIDE DEF step, V, N, p
  <2>1. CanIterate(V, step, p, N)
    BY <1>2, <1>3, Iterated
  <2>. QED
    BY <2>1 DEF CanIterate
<1>5. g \in [0 .. N -> V] /\ g[0] = p /\ \A i \in 1 .. N : g[i] = step[g[i - 1]]
  BY <1>4 DEF Iterates
<1>6. \A i \in 1 .. N : g[i] = g[i - 1] \cup UNION {Succs(pg[q]) : q \in g[i - 1]}
  <2>1. ASSUME NEW i \in 1 .. N
        PROVE  g[i] = g[i - 1] \cup UNION {Succs(pg[q]) : q \in g[i - 1]}
    <3>1. g[i - 1] \in V
      <4>1. i - 1 \in 0 .. N
        BY <1>2
      <4>. HIDE DEF V
      <4>. QED
        BY <1>5, <4>1
    <3>2. g[i] = step[g[i - 1]]
      BY <1>5
    <3>. QED
      BY <3>1, <3>2
  <2>. QED
    BY <2>1
<1>. HIDE DEF step
<1>7. \A r : UNION {Succs(pg[q]) : q \in r} = UNION {Successors(pg[q]) : q \in r}
  BY DEF Succs
<1>8. g = G(g)
  <2>1. \A i \in 0 .. N : i = 0 \/ i \in 1 .. N
    BY <1>2
  <2>2. g = [i \in 0 .. N |-> g[i]]
    BY <1>5
  <2>3. \A i \in 0 .. N : g[i] = G(g)[i]
    <3>1. ASSUME NEW i \in 0 .. N
          PROVE  g[i] = G(g)[i]
      <4>1. CASE i = 0
        BY <1>5, <4>1
      <4>2. CASE i # 0
        <5>1. i \in 1 .. N
          BY <2>1, <4>2
        <5>2. g[i] = g[i - 1] \cup UNION {Succs(pg[q]) : q \in g[i - 1]}
          BY <1>6, <5>1
        <5>. HIDE DEF Successors
        <5>3. G(g)[i] = g[i - 1] \cup UNION {Successors(pg[q]) : q \in g[i - 1]}
          BY <4>2
        <5>4. UNION {Succs(pg[q]) : q \in g[i - 1]} = UNION {Successors(pg[q]) : q \in g[i - 1]}
          BY <1>7
        <5>. QED
          BY <5>2, <5>3, <5>4
      <4>. QED
        BY <4>1, <4>2
    <3>. QED
      BY <3>1
  <2>. HIDE DEF Successors
  <2>. QED
    BY <2>2, <2>3
<1>9. f = G(f)
  BY <1>8
<1>10. ASSUME NEW i \in 0 .. N PROVE f[i] = g[i]
  <2>. DEFINE T == {x \in 0 .. N : f[x] # g[x]}
  <2>1. ASSUME T # {} PROVE FALSE
    <3>1. T \in SUBSET Nat
      OBVIOUS
    <3>. HIDE DEF T
    <3>2. PICK y \in T : \A z \in T : y <= z
      BY <2>1, <3>1, LeastNatural, Zenon
    <3>. HIDE DEF f, G
    <3>3. y \in 0 .. N /\ f[y] # g[y] /\ f[y] = G(f)[y] /\ g[y] = G(g)[y]
      BY <3>2, <1>8, <1>9, Zenon DEF T, G
    <3>4. CASE y = 0
      BY <3>3, <3>4 DEF G
    <3>5. CASE y # 0
      <4>1. y - 1 \in 0 .. N /\ y - 1 \notin T
        BY <3>2, <3>3, <3>5, <1>2
      <4>2. f[y - 1] = g[y - 1]
        BY <4>1 DEF T
      <4>. HIDE DEF Successors
      <4>. QED
        BY <3>3, <3>5, <4>2 DEF G
    <3>. QED
      BY <3>4, <3>5
  <2>. QED
    BY <2>1
<1>. HIDE DEF f
<1>11. N \in 0 .. N
  BY <1>2
<1>12. Reachable(st) = g[N]
  BY <1>1, <1>10, <1>11
<1>13. Reaches(g, pg, st.root, st.first, N)
  BY <1>5, <1>6 DEF Reaches
<1>. QED
  BY <1>12, <1>13 DEF ReachIs

\* Every page of the tree is reached.
LEMMA TreeReached ==
    ASSUME NEW pg, NEW at, NEW top, NEW M, Tree(pg, at, top, M), NEW r, RootOK(at, top, DOMAIN M, r),
           NEW g, NEW f, Reaches(g, pg, r, f, Len(pg)), NEW m \in 0 .. top, NEW k \in DOMAIN M
    PROVE  at[m][k] \in g[Len(pg)]
<1>. DEFINE N == Len(pg)
            K == DOMAIN M
            Has(i) == \A l \in 0 .. top : top - l <= i => at[l][k] \in g[i]
            T == {i \in 0 .. N : ~Has(i)}
<1>1. /\ Grid(at, top, K, N) /\ top \in Nat /\ N \in Nat /\ at[top][k] = r
  BY TreePages DEF RootOK
<1>2. top < N
  BY <1>1, Depth
<1>3. /\ g[0] = {r, f}
      /\ \A i \in 1 .. N : g[i] = g[i - 1] \cup UNION {Succs(pg[q]) : q \in g[i - 1]}
  BY DEF Reaches
<1>4. ASSUME NEW l \in 0 .. top, l # top
      PROVE  at[l][k] \in Succs(pg[at[l + 1][k]])
  <2>1. /\ IsInner(pg[at[l + 1][k]])
        /\ \E j \in 1 .. Len(pg[at[l + 1][k]].children) : pg[at[l + 1][k]].children[j] = at[l][k]
        /\ Row(pg[at[l + 1][k]].children, at, K, l, Block(at, K, l + 1, at[l + 1][k]))
    BY <1>4, InnerHere, SMTT(20)
  <2>. DEFINE ch == pg[at[l + 1][k]].children
  <2>2. ch \in Seq(Int) /\ \E j \in 1 .. Len(ch) : ch[j] = at[l][k]
    BY <2>1 DEF Row
  <2>3. at[l][k] \in Range(ch)
    <3>. HIDE DEF ch
    <3>. QED
      BY <2>2 DEF Range
  <2>. QED
    BY <2>1, <2>3 DEF Succs
<1>5. ASSUME T # {} PROVE FALSE
  <2>1. T \in SUBSET Nat
    OBVIOUS
  <2>. HIDE DEF T
  <2>2. PICK y \in T : \A z \in T : y <= z
    BY <1>5, <2>1, LeastNatural
  <2>3. y \in 0 .. N /\ ~Has(y)
    BY DEF T
  <2>4. PICK l \in 0 .. top : top - l <= y /\ at[l][k] \notin g[y]
    BY <2>3
  <2>5. y # 0
    <3>1. ASSUME y = 0
          PROVE  FALSE
      <4>1. l = top
        BY <1>1, <2>4, <3>1
      <4>. QED
        BY <1>1, <1>3, <2>4, <3>1, <4>1
    <3>. QED
      BY <3>1
  <2>6. y \in 1 .. N /\ y - 1 \in 0 .. N /\ y - 1 \notin T
    BY <1>1, <2>1, <2>2, <2>3, <2>5
  <2>7. Has(y - 1)
    BY <2>6 DEF T
  <2>8. g[y] = g[y - 1] \cup UNION {Succs(pg[q]) : q \in g[y - 1]}
    BY <1>3, <2>6
  <2>9. CASE l = top
    <3>1. at[l][k] \in g[y - 1]
      BY <1>1, <2>6, <2>7, <2>9
    <3>. QED
      BY <2>4, <2>8, <3>1
  <2>10. CASE l # top
    <3>1. l + 1 \in 0 .. top /\ top - (l + 1) <= y - 1
      BY <1>1, <2>4, <2>6, <2>10
    <3>2. at[l + 1][k] \in g[y - 1]
      BY <2>7, <3>1
    <3>3. at[l][k] \in Succs(pg[at[l + 1][k]])
      BY <1>4, <2>10
    <3>. QED
      BY <2>4, <2>8, <3>2, <3>3
  <2>. QED
    BY <2>9, <2>10
<1>6. Has(N)
  BY <1>1, <1>5
<1>. QED
  BY <1>1, <1>2, <1>6

\* u is st, with some of its pages zero.
Forgot(st, u) ==
    /\ u = [st EXCEPT !.pages = u.pages] /\ Len(u.pages) = Len(st.pages) /\ FileOK(u.pages)
    /\ u.pages \in Seq(AnyPage)
    /\ \E g : /\ Reaches(g, st.pages, st.root, st.first, Len(st.pages))
              /\ \A i \in 1 .. Len(st.pages) : i \in g[Len(st.pages)] => u.pages[i] = st.pages[i]
\* Forget changes pages that are not reached only.
LEMMA ForgetFacts ==
    ASSUME NEW st, IsState(st)
    PROVE  Forgot(st, Forget(st))
<1>. DEFINE live == Reachable(st)
            pg == st.pages
            N == Len(pg)
            pg2 == [i \in 1 .. N |-> IF i \in live THEN pg[i] ELSE ZeroPage(i)]
            u == Forget(st)
<1>1. FileOK(pg) /\ N \in Nat /\ pg \in Seq(AnyPage)
  BY FilePages
<1>2. st = [pages |-> st.pages, root |-> st.root, first |-> st.first, err |-> st.err, call |-> st.call]
  BY DEF IsState
<1>3. u = [st EXCEPT !.pages = pg2]
  BY <1>2 DEF Forget
<1>4. u.pages = pg2 /\ u = [st EXCEPT !.pages = u.pages]
  <2>. HIDE DEF pg2
  <2>1. u = [pages |-> pg2, root |-> st.root, first |-> st.first, err |-> st.err, call |-> st.call]
    BY <1>2, <1>3
  <2>. HIDE DEF u
  <2>2. u.pages = pg2
    BY <2>1
  <2>. QED
    BY <1>3, <2>2
<1>5. PICK g : Reaches(g, pg, st.root, st.first, N) /\ live = g[N]
  BY ReachFound DEF ReachIs
<1>6. \A i \in 1 .. N : PageTyped(pg2[i], i, N)
  <2>1. ASSUME NEW i \in 1 .. N
        PROVE  PageTyped(pg2[i], i, N)
    <3>1. PageTyped(pg[i], i, N) /\ PageTyped(ZeroPage(i), i, N)
      <4>1. i \in Nat
        BY <1>1
      <4>. QED
        BY <1>1, <4>1, ZeroTyped DEF FileOK
    <3>. HIDE DEF live
    <3>. QED
      BY <3>1
  <2>. QED
    BY <2>1
<1>7. pg2 \in Seq(AnyPage) /\ Len(pg2) = N
  <2>1. \A i \in 1 .. N : pg2[i] \in AnyPage
    BY <1>6 DEF PageTyped
  <2>2. pg2 = [i \in 1 .. N |-> pg2[i]]
    OBVIOUS
  <2>. HIDE DEF pg2
  <2>3. pg2 \in [1 .. N -> AnyPage]
    BY <2>1, <2>2
  <2>. QED
    BY <1>1, <2>3, SeqIs
<1>8. \A i \in 1 .. N : i \in g[N] => pg2[i] = pg[i]
  <2>. HIDE DEF live
  <2>. QED
    BY <1>5
<1>. HIDE DEF live, pg2, u
<1>9. FileOK(pg2)
  BY <1>6, <1>7 DEF FileOK
<1>10. Forgot(st, u)
  BY <1>4, <1>5, <1>7, <1>8, <1>9 DEF Forgot
<1>. QED
  BY <1>10 DEF u

\* Pages outside the tree do not matter.
LEMMA TreeSame ==
    ASSUME NEW pg, NEW pg2, NEW at, NEW top, NEW M, Tree(pg, at, top, M), Len(pg2) = Len(pg),
           \A l \in 0 .. top, k \in DOMAIN M : pg2[at[l][k]] = pg[at[l][k]]
    PROVE  Tree(pg2, at, top, M)
<1>1. Grid(at, top, DOMAIN M, Len(pg2)) /\ DOMAIN M # {}
  BY TreePages
<1>2. \A l \in 0 .. top, k \in DOMAIN M : PageOK(pg2[at[l][k]], at[l][k], l, at, M)
  BY TreePages
<1>. QED
  BY <1>1, <1>2 DEF Tree, Layer

\* Forget leaves a tree at rest as it is.
LEMMA ForgetSettled ==
    ASSUME NEW st, IsState(st), NEW M, Settled(st.pages, st.root, st.first, M), NEW u, u = Forget(st)
    PROVE  /\ Settled(u.pages, st.root, st.first, M) /\ FileOK(u.pages) /\ Len(u.pages) = Len(st.pages)
           /\ u.root = st.root /\ u.first = st.first
<1>1. Forgot(st, u)
  BY ForgetFacts
<1>2. st = [pages |-> st.pages, root |-> st.root, first |-> st.first, err |-> st.err, call |-> st.call]
  BY DEF IsState
<1>3. u.root = st.root /\ u.first = st.first /\ FileOK(u.pages) /\ Len(u.pages) = Len(st.pages)
  <2>1. u = [st EXCEPT !.pages = u.pages] /\ FileOK(u.pages) /\ Len(u.pages) = Len(st.pages)
    BY <1>1 DEF Forgot
  <2>2. u = [pages |-> u.pages, root |-> st.root, first |-> st.first, err |-> st.err, call |-> st.call]
    BY <1>2, <2>1
  <2>3. u.root = st.root /\ u.first = st.first
    BY ONLY <2>2
  <2>. QED
    BY <2>1, <2>3
<1>. DEFINE N == Len(st.pages)
<1>4. PICK g : /\ Reaches(g, st.pages, st.root, st.first, N)
               /\ \A i \in 1 .. N : i \in g[N] => u.pages[i] = st.pages[i]
  BY <1>1 DEF Forgot
<1>5. CASE DOMAIN M = {} /\ st.first = st.root /\ st.root \in 1 .. N /\ st.pages[st.root] = Leaf(st.root, <<>>, 0)
  <2>. DEFINE T == {i \in 0 .. N : st.root \notin g[i]}
  <2>1. N \in Nat
    BY FilePages
  <2>2. g[0] = {st.root, st.first} /\ \A i \in 1 .. N : g[i - 1] \subseteq g[i]
    <3>1. \A i \in 1 .. N : g[i] = g[i - 1] \cup UNION {Succs(st.pages[q]) : q \in g[i - 1]}
      BY <1>4 DEF Reaches
    <3>. QED
      BY <1>4, <3>1 DEF Reaches
  <2>3. ASSUME T # {} PROVE FALSE
    <3>1. T \in SUBSET Nat
      OBVIOUS
    <3>. HIDE DEF T
    <3>2. PICK y \in T : \A z \in T : y <= z
      BY <2>3, <3>1, LeastNatural
    <3>3. y \in 0 .. N /\ st.root \notin g[y]
      BY DEF T
    <3>4. y # 0
      BY <2>2, <3>3
    <3>5. y \in 1 .. N /\ y - 1 \in 0 .. N /\ y - 1 \notin T
      BY <2>1, <3>1, <3>2, <3>3, <3>4
    <3>6. st.root \in g[y - 1]
      BY <3>5 DEF T
    <3>. QED
      BY <2>2, <3>3, <3>5, <3>6
  <2>4. N \in 0 .. N
    BY <2>1
  <2>5. st.root \in g[N]
    BY <2>3, <2>4
  <2>6. u.pages[st.root] = Leaf(st.root, <<>>, 0)
    BY <1>4, <1>5, <2>5
  <2>. QED
    BY <1>3, <1>5, <2>6 DEF Settled
<1>6. CASE \E at, top : /\ Tree(st.pages, at, top, M) /\ RootOK(at, top, DOMAIN M, st.root)
                        /\ FirstOK(at, DOMAIN M, st.first)
  <2>1. PICK at, top : /\ Tree(st.pages, at, top, M) /\ RootOK(at, top, DOMAIN M, st.root)
                       /\ FirstOK(at, DOMAIN M, st.first)
    BY <1>6
  <2>2. \A l \in 0 .. top, k \in DOMAIN M : at[l][k] \in 1 .. N
    BY <2>1, TreePages
  <2>3. \A l \in 0 .. top, k \in DOMAIN M : at[l][k] \in g[N]
    BY <1>4, <2>1, TreeReached
  <2>4. \A l \in 0 .. top, k \in DOMAIN M : u.pages[at[l][k]] = st.pages[at[l][k]]
    BY <1>4, <2>2, <2>3
  <2>5. Tree(u.pages, at, top, M)
    BY <1>3, <2>1, <2>4, TreeSame
  <2>. QED
    BY <1>3, <2>1, <2>5 DEF Settled
<1>7. Settled(u.pages, st.root, st.first, M)
  BY <1>5, <1>6 DEF Settled
<1>. QED
  BY <1>3, <1>7

----------------------------------------------------------------------------
(* The inductive invariant *)

IsMap(M) == /\ M = [x \in DOMAIN M |-> M[x]] /\ DOMAIN M \subseteq Keys
            /\ \A x \in DOMAIN M : M[x] \in Rids

\* The levels that bulk_build has built, and the top one.
BulkWaits(pg, r, f, call, M) ==
    /\ call.fn = "bulk_level"
    /\ \/ /\ DOMAIN M = {} /\ f = 1 /\ 1 \in 1 .. Len(pg) /\ pg[1] = Leaf(1, <<>>, 0)
          /\ call.level = <<1>>
       \/ \E at, top : /\ Tree(pg, at, top, M) /\ Row(call.level, at, DOMAIN M, top, DOMAIN M)
                       /\ FirstOK(at, DOMAIN M, f)

EraseWaits(pg, r, f, call, M, k) ==
    \/ call.fn = "fix_leaf_underflow" /\ \E at, top : PendErase(pg, r, f, call, M, k, at, top)
    \/ Waits(pg, r, f, call, Without(M, k))

\* Nothing has been written yet, the file has its pages, and its numbers.
Typed ==
    /\ FileOK(pages) /\ IsMap(contents)
    /\ size \in Nat /\ failed \in BOOLEAN /\ op \in {"none", "insert", "erase", "bulk"}
    /\ op = "none" => todo = NoCall
    /\ op # "none" => ~failed
    /\ IF pages = <<>> THEN root = 0 /\ first = 0 /\ size = 0 /\ op = "none" /\ ~failed /\ DOMAIN contents = {}
       ELSE root \in 1 .. Len(pages) /\ first \in 1 .. Len(pages)
\* Between calls the tree, size_ and the superblock say the same.
AtRest == op = "none" /\ ~failed /\ pages # <<>> =>
    /\ Settled(pages, root, first, contents)
    /\ size = Cardinality(DOMAIN contents) /\ super = <<root, first, size>>
\* While an insert is at work, its node has the new entry already.
InInsert == op = "insert" =>
    /\ arg \in Entries /\ arg.key \notin DOMAIN contents /\ size = Cardinality(DOMAIN contents)
    /\ Waits(pages, root, first, todo, With(contents, arg))
\* While an erase is at work, its node has lost the entry.
InErase == op = "erase" =>
    /\ arg.key \in DOMAIN contents /\ size + 1 = Cardinality(DOMAIN contents)
    /\ EraseWaits(pages, root, first, todo, contents, arg.key)
\* While bulk_build is at work, its last level covers all the entries.
InBulk == op = "bulk" =>
    /\ size = Cardinality(DOMAIN contents)
    /\ BulkWaits(pages, root, first, todo, contents)
\* What holds after every step.
TreeInv == Typed /\ AtRest /\ InInsert /\ InErase /\ InBulk

\* A call that ends with its tree keeps the invariant.
LEMMA FinishInv ==
    ASSUME NEW st, IsState(st), NEW M, Settled(st.pages, st.root, st.first, M), IsMap(M),
           NEW n, n = Cardinality(DOMAIN M), n \in Nat, Finish(st, n, M)
    PROVE  TreeInv'
<1>. DEFINE u == Forget(st)
<1>1. /\ Settled(u.pages, st.root, st.first, M) /\ FileOK(u.pages) /\ Len(u.pages) = Len(st.pages)
      /\ u.root = st.root /\ u.first = st.first
  BY ForgetSettled
<1>2. st.root \in 1 .. Len(st.pages) /\ st.first \in 1 .. Len(st.pages)
  BY DEF IsState
<1>3. /\ pages' = u.pages /\ root' = st.root /\ first' = st.first /\ size' = n
      /\ super' = <<root', first', size'>> /\ contents' = M /\ failed' = FALSE
      /\ ret' = "ok" /\ op' = "none" /\ todo' = NoCall
  BY <1>1 DEF Finish, SetTree, write_superblock, Return
<1>. HIDE DEF u
<1>4. pages' # <<>>
  <2>1. Len(u.pages) # 0
    BY <1>1, <1>2
  <2>2. Len(<<>>) = 0
    OBVIOUS
  <2>. QED
    BY <1>3, <2>1, <2>2
<1>5. Typed'
  <2>1. FileOK(pages') /\ IsMap(contents') /\ size' \in Nat /\ failed' \in BOOLEAN
    BY <1>1, <1>3
  <2>2. root' \in 1 .. Len(pages') /\ first' \in 1 .. Len(pages')
    BY <1>1, <1>2, <1>3
  <2>. QED
    BY <1>3, <1>4, <2>1, <2>2 DEF Typed
<1>6. AtRest'
  BY <1>1, <1>3 DEF AtRest
<1>7. InInsert' /\ InErase' /\ InBulk'
  BY <1>3 DEF InInsert, InErase, InBulk
<1>. QED
  BY <1>5, <1>6, <1>7 DEF TreeInv

\* A call that ends with an exception keeps the invariant.
LEMMA FailInv ==
    ASSUME NEW st, IsState(st), IsMap(contents), NEW n \in Nat, Fail(st, n)
    PROVE  TreeInv'
<1>1. st.root \in 1 .. Len(st.pages) /\ st.first \in 1 .. Len(st.pages) /\ FileOK(st.pages)
  BY DEF IsState
<1>2. /\ pages' = st.pages /\ root' = st.root /\ first' = st.first /\ size' = n
      /\ contents' = contents /\ failed' = TRUE /\ op' = "none" /\ todo' = NoCall
  BY DEF Fail, SetTree, Return
<1>3. pages' # <<>>
  <2>1. Len(st.pages) # 0
    BY <1>1
  <2>2. Len(<<>>) = 0
    OBVIOUS
  <2>. QED
    BY <1>2, <2>1, <2>2
<1>4. Typed'
  BY <1>1, <1>2, <1>3 DEF Typed
<1>5. AtRest' /\ InInsert' /\ InErase' /\ InBulk'
  BY <1>2 DEF AtRest, InInsert, InErase, InBulk
<1>. QED
  BY <1>4, <1>5 DEF TreeInv

\* A function of the call follows.
Next1(st, o, a, n) ==
    \/ /\ o = "insert" /\ a \in Entries /\ a.key \notin DOMAIN contents /\ n = Cardinality(DOMAIN contents)
       /\ Waits(st.pages, st.root, st.first, st.call, With(contents, a))
    \/ /\ o = "erase" /\ a.key \in DOMAIN contents /\ n + 1 = Cardinality(DOMAIN contents)
       /\ EraseWaits(st.pages, st.root, st.first, st.call, contents, a.key)
    \/ /\ o = "bulk" /\ n = Cardinality(DOMAIN contents)
       /\ BulkWaits(st.pages, st.root, st.first, st.call, contents)
\* A call that goes on with a function keeps the invariant.
LEMMA CallInv ==
    ASSUME NEW st, IsState(st), IsMap(contents), failed = FALSE, NEW n \in Nat, NEW o, NEW a, Next1(st, o, a, n),
           CallNext(st, n, o, a)
    PROVE  TreeInv'
<1>1. st.root \in 1 .. Len(st.pages) /\ st.first \in 1 .. Len(st.pages) /\ FileOK(st.pages)
  BY DEF IsState
<1>2. /\ pages' = st.pages /\ root' = st.root /\ first' = st.first /\ size' = n /\ todo' = st.call
      /\ op' = o /\ arg' = a /\ contents' = contents /\ failed' = failed
  BY DEF CallNext, SetTree
<1>3. pages' # <<>>
  <2>1. Len(st.pages) # 0
    BY <1>1
  <2>2. Len(<<>>) = 0
    OBVIOUS
  <2>. QED
    BY <1>2, <2>1, <2>2
<1>4. o \in {"insert", "erase", "bulk"}
  BY DEF Next1
<1>5. Typed'
  BY <1>1, <1>2, <1>3, <1>4 DEF Typed
<1>6. AtRest'
  BY <1>2, <1>4 DEF AtRest
<1>7. InInsert' /\ InErase' /\ InBulk'
  BY <1>2 DEF InInsert, InErase, InBulk, Next1
<1>. QED
  BY <1>5, <1>6, <1>7 DEF TreeInv

\* The map with an entry more.
LEMMA WithMap ==
    ASSUME NEW M, IsMap(M), NEW e \in Entries, e.key \notin DOMAIN M
    PROVE  /\ IsMap(With(M, e)) /\ Cardinality(DOMAIN M) \in Nat
           /\ Cardinality(DOMAIN With(M, e)) = Cardinality(DOMAIN M) + 1
<1>. DEFINE K == DOMAIN M
            N == With(M, e)
<1>1. e.key \in Keys /\ e.rid \in Rids
  BY DEF Entries
<1>2. DOMAIN N = K \cup {e.key} /\ \A x \in DOMAIN N : N[x] = IF x = e.key THEN e.rid ELSE M[x]
  BY DEF With
<1>3. N = [x \in DOMAIN N |-> N[x]]
  BY DEF With
<1>4. K \subseteq Keys /\ (\A x \in K : M[x] \in Rids) /\ IsFiniteSet(K)
  <2>1. K \subseteq Keys /\ (\A x \in K : M[x] \in Rids)
    BY DEF IsMap
  <2>. QED
    BY <2>1, KeysAre, FS_Subset
<1>. HIDE DEF N, K
<1>5. IsMap(N)
  BY <1>1, <1>2, <1>3, <1>4 DEF IsMap
<1>6. Cardinality(K \cup {e.key}) = Cardinality(K) + 1 /\ Cardinality(K) \in Nat
  <2>1. e.key \notin K
    BY DEF K
  <2>. QED
    BY <1>4, <2>1, FS_AddElement, FS_CardinalityType
<1>. QED
  BY <1>2, <1>5, <1>6 DEF N, K

\* The map with an entry less.
LEMMA WithoutMap ==
    ASSUME NEW M, IsMap(M), NEW k \in DOMAIN M
    PROVE  /\ IsMap(Without(M, k)) /\ Cardinality(DOMAIN M) \in Nat
           /\ Cardinality(DOMAIN Without(M, k)) \in Nat
           /\ Cardinality(DOMAIN Without(M, k)) + 1 = Cardinality(DOMAIN M)
<1>. DEFINE K == DOMAIN M
            N == Without(M, k)
<1>2. DOMAIN N = K \ {k} /\ \A x \in DOMAIN N : N[x] = M[x]
  BY DEF Without
<1>3. N = [x \in DOMAIN N |-> N[x]]
  BY DEF Without
<1>4. K \subseteq Keys /\ (\A x \in K : M[x] \in Rids) /\ IsFiniteSet(K)
  <2>1. K \subseteq Keys /\ (\A x \in K : M[x] \in Rids)
    BY DEF IsMap
  <2>. QED
    BY <2>1, KeysAre, FS_Subset
<1>5. k \in K
  OBVIOUS
<1>. HIDE DEF N, K
<1>6. IsMap(N)
  BY <1>2, <1>3, <1>4 DEF IsMap
<1>7. IsFiniteSet(K \ {k}) /\ Cardinality(K \ {k}) = Cardinality(K) - 1
  BY <1>4, <1>5, FS_RemoveElement
<1>8. Cardinality(K) \in Nat /\ Cardinality(K \ {k}) \in Nat
  BY <1>4, <1>7, FS_CardinalityType
<1>. QED
  BY <1>2, <1>6, <1>7, <1>8 DEF N, K

\* What an insert has done so far keeps the invariant.
LEMMA InsertInv ==
    ASSUME IsMap(contents), failed = FALSE, NEW a \in Entries, a.key \notin DOMAIN contents,
           NEW n, n = Cardinality(DOMAIN contents), NEW st, Good(st, With(contents, a)),
           Continue(st, "insert", a, n)
    PROVE  TreeInv'
<1>. DEFINE N == With(contents, a)
<1>1. IsMap(N) /\ n \in Nat /\ n + 1 = Cardinality(DOMAIN N)
  BY WithMap
<1>2. Added(a) = N
  BY DEF Added, With
<1>3. IsState(st)
  BY DEF Good
<1>4. CASE st.err # "none"
  <2>1. Fail(st, n)
    BY <1>4 DEF Continue
  <2>. QED
    BY <1>1, <1>3, <2>1, FailInv
<1>5. CASE st.err = "none" /\ st.call # NoCall
  <2>1. CallNext(st, n, "insert", a)
    BY <1>5 DEF Continue
  <2>2. Waits(st.pages, st.root, st.first, st.call, N)
    BY <1>5 DEF Good
  <2>3. Next1(st, "insert", a, n)
    BY <2>2 DEF Next1
  <2>. QED
    BY <1>1, <1>3, <2>1, <2>3, CallInv
<1>6. CASE st.err = "none" /\ st.call = NoCall
  <2>1. Finish(st, n + 1, N)
    BY <1>2, <1>6 DEF Continue
  <2>2. Settled(st.pages, st.root, st.first, N)
    BY <1>6 DEF Good
  <2>. DEFINE m == n + 1
  <2>. HIDE DEF N
  <2>3. m = Cardinality(DOMAIN N) /\ m \in Nat /\ Finish(st, m, N)
    BY <1>1, <2>1
  <2>. HIDE DEF m
  <2>. QED
    BY <1>1, <1>3, <2>2, <2>3, FinishInv
<1>. QED
  BY <1>4, <1>5, <1>6

EraseGood(st, M, k) ==
    /\ IsState(st)
    /\ st.err = "none" =>
         \/ st.call = NoCall /\ Settled(st.pages, st.root, st.first, Without(M, k))
         \/ st.call # NoCall /\ EraseWaits(st.pages, st.root, st.first, st.call, M, k)
\* What an erase has done so far keeps the invariant.
LEMMA EraseInv ==
    ASSUME IsMap(contents), failed = FALSE, NEW a, a.key \in DOMAIN contents,
           NEW n, n + 1 = Cardinality(DOMAIN contents), n \in Nat, NEW st, EraseGood(st, contents, a.key),
           Continue(st, "erase", a, n)
    PROVE  TreeInv'
<1>. DEFINE N == Without(contents, a.key)
<1>1. IsMap(N) /\ n = Cardinality(DOMAIN N)
  <2>1. IsMap(N) /\ Cardinality(DOMAIN N) \in Nat /\ Cardinality(DOMAIN N) + 1 = Cardinality(DOMAIN contents)
    BY WithoutMap
  <2>. QED
    BY <2>1
<1>2. Removed(a) = N
  BY DEF Removed, Without
<1>3. IsState(st)
  BY DEF EraseGood
<1>4. CASE st.err # "none"
  <2>1. Fail(st, n)
    BY <1>4 DEF Continue
  <2>. QED
    BY <1>1, <1>3, <2>1, FailInv
<1>5. CASE st.err = "none" /\ st.call # NoCall
  <2>1. CallNext(st, n, "erase", a)
    BY <1>5 DEF Continue
  <2>2. EraseWaits(st.pages, st.root, st.first, st.call, contents, a.key)
    BY <1>5 DEF EraseGood
  <2>3. Next1(st, "erase", a, n)
    BY <2>2 DEF Next1
  <2>. QED
    BY <1>1, <1>3, <2>1, <2>3, CallInv
<1>6. CASE st.err = "none" /\ st.call = NoCall
  <2>1. Finish(st, n, N)
    BY <1>2, <1>6 DEF Continue
  <2>2. Settled(st.pages, st.root, st.first, N)
    BY <1>6 DEF EraseGood
  <2>. HIDE DEF N
  <2>. QED
    BY <1>1, <1>3, <2>1, <2>2, FinishInv
<1>. QED
  BY <1>4, <1>5, <1>6

BulkGood(st, M) ==
    /\ IsState(st)
    /\ st.err = "none" =>
         \/ st.call = NoCall /\ Settled(st.pages, st.root, st.first, M)
         \/ st.call # NoCall /\ BulkWaits(st.pages, st.root, st.first, st.call, M)
\* What bulk_build has done so far keeps the invariant.
LEMMA BulkInv ==
    ASSUME IsMap(contents), failed = FALSE, NEW a,
           NEW n, n = Cardinality(DOMAIN contents), n \in Nat, NEW st, BulkGood(st, contents),
           Continue(st, "bulk", a, n)
    PROVE  TreeInv'
<1>3. IsState(st)
  BY DEF BulkGood
<1>4. CASE st.err # "none"
  <2>1. Fail(st, n)
    BY <1>4 DEF Continue
  <2>. QED
    BY <1>3, <2>1, FailInv
<1>5. CASE st.err = "none" /\ st.call # NoCall
  <2>1. CallNext(st, n, "bulk", a)
    BY <1>5 DEF Continue
  <2>2. BulkWaits(st.pages, st.root, st.first, st.call, contents)
    BY <1>5 DEF BulkGood
  <2>3. Next1(st, "bulk", a, n)
    BY <2>2 DEF Next1
  <2>. QED
    BY <1>3, <2>1, <2>3, CallInv
<1>6. CASE st.err = "none" /\ st.call = NoCall
  <2>1. Finish(st, n, contents)
    BY <1>6 DEF Continue
  <2>2. Settled(st.pages, st.root, st.first, contents)
    BY <1>6 DEF BulkGood
  <2>. QED
    BY <1>3, <2>1, <2>2, FinishInv
<1>. QED
  BY <1>4, <1>5, <1>6

----------------------------------------------------------------------------
(* The calls: the leaf of a key *)

\* The search for k comes to the leaf of w, with its path; the entry of k is
\* there if the map has it.
Located(pg, r, at, top, M, k, w) ==
    LET path == PathFrom(pg, r, k)
        s == pg[at[0][w]].entries
        n == lower_bound_slot(s, k)
    IN  /\ Walk(pg, at, top, DOMAIN M, 0, k, w) /\ w \in DOMAIN M
        /\ PathIs(path, at, top, 0, w) /\ Last(path) = at[0][w]
        /\ LeafBox(pg[at[0][w]], at[0][w], at, M, Len(pg)) /\ at[0][w] \in 1 .. Len(pg)
        /\ n \in 0 .. Len(s)
        /\ k \in DOMAIN M => at[0][k] = at[0][w]
        /\ (n < Len(s) /\ s[n + 1].key = k) <=> k \in DOMAIN M

\* The search for k comes to one leaf, which holds k if any does.
LEMMA Locate ==
    ASSUME NEW pg, NEW at, NEW top, NEW M, Tree(pg, at, top, M), NEW r, RootOK(at, top, DOMAIN M, r),
           NEW k \in Int
    PROVE  \E w \in DOMAIN M : Located(pg, r, at, top, M, k, w)
<1>. DEFINE K == DOMAIN M
            path == PathFrom(pg, r, k)
<1>1. CanWalk(pg, at, top, K, 0, k)
  BY WalkDown
<1>2. PICK w : Walk(pg, at, top, K, 0, k, w)
  BY <1>1 DEF CanWalk
<1>3. w \in K /\ Fits(at, K, 0, k, w)
  BY <1>2 DEF Walk
<1>4. PathIs(path, at, top, 0, w)
  BY <1>2, PathFound
<1>5. /\ Grid(at, top, K, Len(pg)) /\ top \in Nat /\ K \subseteq Int /\ 0 \in 0 .. top
      /\ at[0][w] \in 1 .. Len(pg)
  BY <1>3, TreePages
<1>6. Last(path) = at[0][w]
  <2>1. PathFacts(path, at, top, 0, w)
    BY <1>4, <1>5, PathParts
  <2>. QED
    BY <2>1 DEF PathFacts, Last
<1>. DEFINE x == at[0][w]
            s == pg[x].entries
            n == lower_bound_slot(s, k)
<1>7. LeafBox(pg[x], x, at, M, Len(pg))
  BY <1>3, LeafPage
<1>8. Held(s, M, Block(at, K, 0, x))
  BY <1>7 DEF LeafBox
<1>9. n \in 0 .. Len(s) /\ ((n < Len(s) /\ s[n + 1].key = k) <=> k \in Block(at, K, 0, x))
  <2>. HIDE DEF s
  <2>1. n \in 0 .. Len(s)
    BY <1>8, SlotFacts
  <2>2. (n < Len(s) /\ s[n + 1].key = k) <=> k \in Block(at, K, 0, x)
    BY <1>8, SlotKey
  <2>. QED
    BY <2>1, <2>2
<1>10. k \in K => at[0][k] = at[0][w]
  <2>1. ASSUME k \in K, at[0][k] # at[0][w]
        PROVE  FALSE
    <3>1. (k < w => k < k) /\ (w < k => k < k)
      BY <1>3, <2>1 DEF Fits
    <3>2. k # w /\ w \in Int
      BY <1>3, <1>5, <2>1
    <3>. QED
      BY <3>1, <3>2
  <2>. QED
    BY <2>1
<1>11. k \in Block(at, K, 0, x) <=> k \in K
  BY <1>10 DEF Block
<1>. HIDE DEF n, s, x, path, K
<1>12. (n < Len(s) /\ s[n + 1].key = k) <=> k \in K
  BY <1>9, <1>11
<1>13. Located(pg, r, at, top, M, k, w)
  BY <1>2, <1>3, <1>4, <1>5, <1>6, <1>7, <1>9, <1>10, <1>12 DEF Located, K, path, x, s, n
<1>. QED
  BY <1>3, <1>13 DEF K

\* The tree is at rest, with at least one entry.
Resting(pg, r, f, M, at, top) ==
    Tree(pg, at, top, M) /\ RootOK(at, top, DOMAIN M, r) /\ FirstOK(at, DOMAIN M, f)

\* What insert does to the leaf of a key that the tree does not have.
InsertWork(st, e) ==
    LET path == PathFrom(st.pages, st.root, e.key)
        leaf == st.pages[Last(path)]
        slot == lower_bound_slot(leaf.entries, e.key)
        new == [leaf EXCEPT !.entries = InsertAt(@, slot + 1, e)]
    IN  IF leaf_overflow(new.entries) THEN Then(st, Call("split_leaf", new, path))
        ELSE write_page(st, new)

\* insert leaves the tree with the new entry, or a leaf to be split.
LEMMA InsertGood ==
    ASSUME NEW st, IsState(st), st.call = NoCall, st.err = "none", NEW M, NEW at, NEW top,
           Resting(st.pages, st.root, st.first, M, at, top),
           NEW e \in Entries, e.key \notin DOMAIN M
    PROVE  Good(InsertWork(st, e), With(M, e))
<1>. DEFINE pg == st.pages
            K == DOMAIN M
            k == e.key
            path == PathFrom(pg, st.root, k)
            x == Last(path)
            leaf == pg[x]
            slot == lower_bound_slot(leaf.entries, k)
            new == [leaf EXCEPT !.entries = InsertAt(@, slot + 1, e)]
            N == With(M, e)
<1>1. Tree(pg, at, top, M) /\ RootOK(at, top, K, st.root) /\ FirstOK(at, K, st.first)
  BY DEF Resting
<1>2. k \in Keys /\ k \in Int
  <2>1. k \in Keys
    BY DEF Entries
  <2>. QED
    BY <2>1, KeysAre
<1>3. FileOK(pg) /\ pg \in Seq(AnyPage) /\ Len(pg) \in Nat
  BY FilePages
<1>. HIDE DEF K, k, pg
<1>4. PICK w \in K : Located(pg, st.root, at, top, M, k, w)
  BY <1>1, <1>2, Locate DEF K
<1>5. /\ Walk(pg, at, top, K, 0, k, w) /\ PathIs(path, at, top, 0, w) /\ x = at[0][w]
      /\ LeafBox(leaf, x, at, M, Len(pg)) /\ x \in 1 .. Len(pg) /\ slot \in 0 .. Len(leaf.entries)
  BY <1>4 DEF Located, K
<1>. HIDE DEF path, x
<1>6. Gains(new, leaf, e)
  BY DEF Gains, k
<1>7. leaf = Leaf(x, leaf.entries, leaf.next) /\ leaf.entries \in Seq(Entries) /\ leaf.entries # <<>> /\ leaf.next \in 0 .. Len(pg)
  BY <1>5 DEF LeafBox
<1>8. new = Leaf(x, InsertAt(leaf.entries, slot + 1, e), leaf.next)
  BY <1>7 DEF Leaf
<1>9. InsertAt(leaf.entries, slot + 1, e) \in Seq(Entries) /\ Len(InsertAt(leaf.entries, slot + 1, e)) >= 2
  <2>. DEFINE s == leaf.entries
              i == slot + 1
  <2>1. s \in Seq(Entries) /\ s # <<>> /\ slot \in 0 .. Len(s)
    BY <1>5, <1>7
  <2>. HIDE DEF s, slot
  <2>2. Len(s) \in Nat /\ Len(s) >= 1 /\ i \in 1 .. Len(s) + 1
    BY <2>1
  <2>. HIDE DEF i
  <2>3. InsertAt(s, i, e) \in Seq(Entries) /\ Len(InsertAt(s, i, e)) = Len(s) + 1
    BY <2>1, <2>2, Inserted
  <2>. QED
    BY <2>2, <2>3 DEF s, i
<1>10. PICK at2 : at2 = Grafted(at, e.key, w)
  OBVIOUS
<1>11. /\ Tree([pg EXCEPT ![x] = new], at2, top, N) /\ at2[0][w] = x /\ w \in DOMAIN N
       /\ RootOK(at2, top, DOMAIN N, st.root) /\ FirstOK(at2, DOMAIN N, st.first)
       /\ PathIs(path, at2, top, 0, w)
  <2>. HIDE DEF new, leaf, N
  <2>1. leaf = pg[x]
    BY DEF leaf
  <2>2. /\ pg \in Seq(AnyPage) /\ Tree(pg, at, top, M) /\ e \in Entries /\ e.key \notin DOMAIN M
        /\ Walk(pg, at, top, DOMAIN M, 0, e.key, w) /\ x = at[0][w] /\ Gains(new, pg[x], e)
        /\ at2 = Grafted(at, e.key, w)
    BY <1>1, <1>3, <1>5, <1>6, <1>10, <2>1 DEF K, k
  <2>3. Grown(pg, at, at2, top, M, e, w, x, new)
    BY ONLY <2>2, InsertTree
  <2>. QED
    BY <1>1, <1>5, <2>3 DEF N, K, Grown
<1>. HIDE DEF leaf, slot, N
<1>12. /\ PageTyped(new, x, Len(pg)) /\ Len(new.entries) >= 2 /\ new.id = x
  <2>. DEFINE s == InsertAt(leaf.entries, slot + 1, e)
              q == leaf.next
  <2>1. new = Leaf(x, s, q) /\ s \in Seq(Entries) /\ Len(s) >= 2 /\ q \in 0 .. Len(pg) /\ x \in Nat
    BY <1>3, <1>5, <1>7, <1>8, <1>9
  <2>. HIDE DEF s, q, new
  <2>2. new.entries = s /\ new.id = x
    BY <2>1, LeafParts3
  <2>. QED
    BY <1>3, <2>1, <2>2, LeafTyped
<1>. HIDE DEF new
<1>13. InsertWork(st, e) = IF leaf_overflow(new.entries) THEN Then(st, Call("split_leaf", new, path))
                           ELSE write_page(st, new)
  BY DEF InsertWork, new, leaf, slot, path, x, k, pg
<1>14. Good(write_page(st, new), N)
  <2>. DEFINE u == write_page(st, new)
  <2>1. Wrote(st, u, x, new)
    BY <1>5, <1>12, WriteFacts DEF pg
  <2>. HIDE DEF u
  <2>2. ASSUME u.err # "none"
        PROVE  Good(u, N)
    BY <2>1, <2>2 DEF Wrote, Good
  <2>3. ASSUME u.err = "none"
        PROVE  Good(u, N)
    <3>1. /\ IsState(u) /\ u.pages = [pg EXCEPT ![x] = new] /\ u.root = st.root /\ u.first = st.first
          /\ u.call = NoCall
      BY <2>1, <2>3 DEF Wrote, pg
    <3>2. Stands(u, at2, top, N)
      BY <1>11, <2>3, <3>1 DEF Stands
    <3>. QED
      BY <3>2, StandsGood
  <2>. QED
    BY <2>2, <2>3 DEF u
<1>15. Good(Then(st, Call("split_leaf", new, path)), N)
  <2>. DEFINE call == Call("split_leaf", new, path)
              u == Then(st, call)
  <2>1. call.fn = "split_leaf" /\ call.node = new /\ call.path = path /\ call # NoCall
    BY DEF Call, NoCall
  <2>. HIDE DEF call
  <2>2. IsState(u) /\ u.err = "none" /\ u.pages = pg /\ u.root = st.root /\ u.first = st.first /\ u.call = call
    BY ThenFacts DEF pg
  <2>. HIDE DEF u
  <2>3. 0 \in 0 .. top
    BY <1>1, TreePages
  <2>4. Pend(u.pages, u.root, u.first, call, N, at2, top, 0, w)
    BY <1>11, <2>1, <2>2, <2>3 DEF Pend
  <2>5. Waits(u.pages, u.root, u.first, call, N)
    BY <1>11, <1>12, <2>1, <2>2, <2>4 DEF Waits
  <2>6. Good(u, N)
    BY <2>1, <2>2, <2>5 DEF Good
  <2>. QED
    BY <2>6 DEF u, call
<1>. QED
  BY <1>13, <1>14, <1>15 DEF N

\* The leaf of the first entry.
LEMMA FirstTree ==
    ASSUME NEW pg, NEW r \in 1 .. Len(pg), Len(pg) \in Nat, NEW e \in Entries, pg[r] = Leaf(r, <<e>>, 0),
           NEW M, DOMAIN M = {}
    PROVE  Settled(pg, r, r, With(M, e))
<1>. DEFINE k == e.key
            K == {k}
            N == With(M, e)
            at == [l \in Nat |-> [x \in Int |-> r]]
<1>1. k \in Keys /\ k \in Int
  <2>1. k \in Keys
    BY DEF Entries
  <2>. QED
    BY <2>1, KeysAre
<1>2. DOMAIN N = K /\ N[k] = e.rid
  BY DEF With
<1>3. at \in [Nat -> [Int -> Int]] /\ at[0][k] = r
  BY <1>1
<1>. HIDE DEF at, N, k
<1>4. K \subseteq Keys /\ \A a \in K : a = k
  BY <1>1
<1>5. \A l \in 0 .. 0 : l = 0
  OBVIOUS
<1>6. Grid(at, 0, K, Len(pg))
  <2>1. \A l, m \in 0 .. 0 : l = m
    BY <1>5
  <2>2. \A l \in 0 .. 0, a \in K : at[l][a] \in 1 .. Len(pg)
    BY <1>3, <1>4, <1>5
  <2>3. \A l \in 0 .. 0, i, j, a \in K : i < j /\ j < a /\ at[l][i] = at[l][a] => at[l][j] = at[l][i]
    BY <1>4
  <2>4. \A l, m \in 0 .. 0, j, a \in K : l <= m /\ at[l][j] = at[l][a] => at[m][j] = at[m][a]
    BY <1>4
  <2>. QED
    BY <1>3, <1>4, <2>1, <2>2, <2>3, <2>4 DEF Grid
<1>7. Block(at, K, 0, r) = K
  BY <1>3, <1>4 DEF Block
<1>8. Held(<<e>>, N, K)
  <2>1. <<e>> \in Seq(Entries) /\ Len(<<e>>) = 1 /\ <<e>>[1] = e
    OBVIOUS
  <2>2. \A i \in 1 .. 1 : i = 1
    OBVIOUS
  <2>. DEFINE s == <<e>>
  <2>. HIDE DEF s
  <2>3. \A i, j \in 1 .. Len(s) : i < j => s[i].key < s[j].key
    BY <2>1, <2>2 DEF s
  <2>4. \A i \in 1 .. Len(s) : s[i].key \in K /\ s[i].rid = N[s[i].key]
    BY <1>2, <2>1, <2>2 DEF s, k
  <2>5. \A a \in K : \E i \in 1 .. Len(s) : s[i].key = a
    BY <2>1 DEF s, k
  <2>. QED
    BY <2>1, <2>3, <2>4, <2>5 DEF Held, s
<1>9. NextOK(at, K, r, 0)
  BY <1>1, <1>4 DEF NextOK, Block
<1>10. LeafOK(pg[r], r, at, N)
  <2>1. pg[r].entries = <<e>> /\ pg[r].next = 0
    BY LeafParts3
  <2>. QED
    BY <1>2, <1>7, <1>8, <1>9, <2>1 DEF LeafOK
<1>11. Tree(pg, at, 0, N)
  <2>1. \A l \in 0 .. 0, a \in K : PageOK(pg[at[l][a]], at[l][a], l, at, N)
    BY <1>3, <1>4, <1>5, <1>10 DEF PageOK
  <2>. QED
    BY <1>2, <1>6, <2>1 DEF Tree, Layer
<1>12. RootOK(at, 0, K, r) /\ FirstOK(at, K, r)
  BY <1>3, <1>4 DEF RootOK, FirstOK
<1>. QED
  BY <1>2, <1>11, <1>12 DEF Settled, N

\* The first insert leaves a tree of one leaf.
LEMMA InsertFirstGood ==
    ASSUME NEW st, IsState(st), st.call = NoCall, st.err = "none", NEW M, DOMAIN M = {},
           st.first = st.root, NEW e \in Entries
    PROVE  Good(write_page(st, Leaf(st.root, <<e>>, 0)), With(M, e))
<1>. DEFINE x == st.root
            new == Leaf(x, <<e>>, 0)
            u == write_page(st, new)
            n == Len(st.pages)
<1>1. x \in 1 .. n /\ n \in Nat /\ FileOK(st.pages)
  BY FilePages DEF IsState
<1>2. PageTyped(new, x, n)
  <2>. DEFINE s == <<e>>
              z == 0
  <2>1. s \in Seq(Entries) /\ z \in 0 .. n /\ x \in Nat
    BY <1>1
  <2>2. new = Leaf(x, s, z)
    OBVIOUS
  <2>. HIDE DEF s, z, new, n, x
  <2>. QED
    BY <1>1, <2>1, <2>2, LeafTyped
<1>. HIDE DEF new
<1>3. Wrote(st, u, x, new)
  BY <1>1, <1>2, WriteFacts
<1>. HIDE DEF u
<1>4. ASSUME u.err # "none"
      PROVE  Good(u, With(M, e))
  BY <1>3, <1>4 DEF Wrote, Good
<1>5. ASSUME u.err = "none"
      PROVE  Good(u, With(M, e))
  <2>1. IsState(u) /\ u.pages[x] = new /\ u.root = x /\ u.first = x /\ u.call = NoCall /\ Len(u.pages) = n
    BY <1>3, <1>5 DEF Wrote
  <2>2. Settled(u.pages, x, x, With(M, e))
    <3>. DEFINE pg == u.pages
    <3>1. pg[x] = Leaf(x, <<e>>, 0) /\ x \in 1 .. Len(pg) /\ Len(pg) \in Nat
      BY <1>1, <2>1 DEF new
    <3>. HIDE DEF pg, x
    <3>2. Settled(pg, x, x, With(M, e))
      BY <3>1, FirstTree, SMTT(20)
    <3>. QED
      BY <3>2 DEF pg
  <2>. QED
    BY <1>5, <2>1, <2>2 DEF Good
<1>. QED
  BY <1>4, <1>5 DEF u, new

\* What erase does to the leaf of a key that the tree has; n is size_ before.
EraseWork(st, k, n) ==
    LET path == PathFrom(st.pages, st.root, k)
        leaf == st.pages[Last(path)]
        slot == lower_bound_slot(leaf.entries, k)
        new == [leaf EXCEPT !.entries = RemoveAt(@, slot + 1)]
        here == write_page(st, new)
    IN  IF n = 1
        THEN [write_page(st, [leaf EXCEPT !.entries = <<>>]) EXCEPT !.root = leaf.id, !.first = leaf.id]
        ELSE IF leaf.id = st.root \/ ~leaf_underflow(new.entries)
        THEN IF slot = 0 /\ new.entries # <<>>
             THEN propagate_subtree_min_change(here, path) ELSE here
        ELSE Then(st, Call("fix_leaf_underflow", new, path))

\* The leaf of a key, and the leaf without it.
Found(pg, at, top, M, k, path, x, leaf, new) ==
    /\ k \in DOMAIN M /\ PathIs(path, at, top, 0, k) /\ x = at[0][k] /\ x \in 1 .. Len(pg)
    /\ leaf = pg[x] /\ LeafBox(leaf, x, at, M, Len(pg)) /\ leaf.id = x
    /\ Minus(leaf, k, new) /\ Lost(new, x, M, k, at, leaf.next) /\ PageTyped(new, x, Len(pg))

\* erase finds the leaf of a key that the tree has.
LEMMA EraseFound ==
    ASSUME NEW pg, FileOK(pg), NEW at, NEW top, NEW M, Tree(pg, at, top, M), NEW r, RootOK(at, top, DOMAIN M, r),
           NEW k \in DOMAIN M, NEW path, path = PathFrom(pg, r, k), NEW x, x = Last(path),
           NEW leaf, leaf = pg[x], NEW slot, slot = lower_bound_slot(leaf.entries, k),
           NEW new, new = [leaf EXCEPT !.entries = RemoveAt(@, slot + 1)]
    PROVE  Found(pg, at, top, M, k, path, x, leaf, new)
<1>. DEFINE K == DOMAIN M
<1>1. /\ Grid(at, top, K, Len(pg)) /\ top \in Nat /\ K \subseteq Int /\ 0 \in 0 .. top /\ k \in K /\ k \in Int
      /\ Len(pg) \in Nat
  BY TreePages
<1>2. PICK w \in K : Located(pg, r, at, top, M, k, w)
  BY <1>1, Locate
<1>3. /\ PathIs(path, at, top, 0, w) /\ x = at[0][w] /\ LeafBox(leaf, x, at, M, Len(pg)) /\ x \in 1 .. Len(pg)
      /\ slot \in 0 .. Len(leaf.entries) /\ at[0][k] = at[0][w]
      /\ slot < Len(leaf.entries) /\ leaf.entries[slot + 1].key = k
  BY <1>1, <1>2 DEF Located
<1>4. \A l \in 0 .. top : at[l][w] = at[l][k]
  BY <1>1, <1>3, Nested, SMTT(20)
<1>5. PathIs(path, at, top, 0, k)
  <2>1. [i \in 1 .. top + 1 - 0 |-> at[top + 1 - i][w]] = [i \in 1 .. top + 1 - 0 |-> at[top + 1 - i][k]]
    <3>1. \A i \in 1 .. top + 1 - 0 : top + 1 - i \in 0 .. top
      BY <1>1, SMTT(20)
    <3>. QED
      BY <1>4, <3>1
  <2>. QED
    BY <1>3, <2>1 DEF PathIs
<1>6. Minus(leaf, k, new)
  <2>1. slot + 1 \in 1 .. Len(leaf.entries)
    <3>. DEFINE z == leaf.entries
    <3>1. Len(z) \in Nat
      BY <1>3 DEF LeafBox
    <3>. HIDE DEF z
    <3>. QED
      BY <1>3, <3>1, SMTT(20) DEF z
  <2>. QED
    BY <1>3, <2>1 DEF Minus
<1>7. Lost(new, x, M, k, at, leaf.next)
  BY <1>1, <1>3, <1>6, MinusLost, SMTT(20)
<1>8. leaf.id = x /\ leaf.next \in 0 .. Len(pg)
  BY <1>3 DEF LeafBox
<1>9. PageTyped(new, x, Len(pg))
  <2>. DEFINE s == new.entries
              z == leaf.next
              n == Len(pg)
  <2>0. x \in Nat
    BY <1>1, <1>3
  <2>1. new = Leaf(x, s, z) /\ s \in Seq(Entries) /\ z \in 0 .. n /\ x \in Nat
    BY <1>7, <1>8, <2>0, Zenon DEF Lost
  <2>2. n \in Nat
    BY <1>1
  <2>. HIDE DEF s, z, n
  <2>3. PageTyped(Leaf(x, s, z), x, n)
    BY <2>1, <2>2, LeafTyped
  <2>4. PageTyped(new, x, n)
    BY <2>1, <2>3
  <2>. QED
    BY <2>4, Zenon DEF n
<1>. QED
  BY <1>1, <1>3, <1>5, <1>6, <1>7, <1>8, <1>9 DEF Found

\* The leaf keeps another key v: it is written, and that is all.
LEMMA EraseKept ==
    ASSUME NEW st, IsState(st), st.call = NoCall, st.err = "none", NEW M, NEW at, NEW top,
           Resting(st.pages, st.root, st.first, M, at, top), NEW k, NEW path, NEW x, NEW leaf, NEW new,
           Found(st.pages, at, top, M, k, path, x, leaf, new),
           NEW v \in DOMAIN M, v # k, at[0][v] = at[0][k], NEW u, u = write_page(st, new)
    PROVE  /\ Good(u, Without(M, k)) /\ Good(propagate_subtree_min_change(u, path), Without(M, k))
<1>. DEFINE pg == st.pages
            N == Without(M, k)
<1>1. /\ k \in DOMAIN M /\ PathIs(path, at, top, 0, k) /\ x = at[0][k] /\ x \in 1 .. Len(pg)
      /\ Minus(pg[x], k, new) /\ PageTyped(new, x, Len(pg))
  BY DEF Found
<1>2. /\ Tree(pg, at, top, M) /\ RootOK(at, top, DOMAIN M, st.root) /\ FirstOK(at, DOMAIN M, st.first)
      /\ pg \in Seq(AnyPage) /\ Grid(at, top, DOMAIN M, Len(pg)) /\ 0 \in 0 .. top /\ top \in Nat
  BY TreePages, FilePages DEF Resting
<1>3. /\ Tree([pg EXCEPT ![x] = new], at, top, N) /\ v \in DOMAIN N
      /\ RootOK(at, top, DOMAIN N, st.root) /\ FirstOK(at, DOMAIN N, st.first)
  BY <1>1, <1>2, EraseTree
<1>4. \A l \in 0 .. top : at[l][v] = at[l][k]
  BY <1>1, <1>2, Nested
<1>5. PathIs(path, at, top, 0, v)
  <2>1. [i \in 1 .. top + 1 - 0 |-> at[top + 1 - i][v]] = [i \in 1 .. top + 1 - 0 |-> at[top + 1 - i][k]]
    <3>1. \A i \in 1 .. top + 1 - 0 : top + 1 - i \in 0 .. top
      BY <1>2
    <3>. QED
      BY <1>4, <3>1
  <2>. QED
    BY <1>1, <2>1 DEF PathIs
<1>6. Wrote(st, u, x, new)
  BY <1>1, WriteFacts
<1>. HIDE DEF N
<1>7. ASSUME u.err # "none"
      PROVE  Good(u, N) /\ propagate_subtree_min_change(u, path) = u
  BY <1>6, <1>7, PropagateErr DEF Wrote, Good
<1>8. ASSUME u.err = "none"
      PROVE  Good(u, N) /\ Good(propagate_subtree_min_change(u, path), N)
  <2>1. /\ IsState(u) /\ u.pages = [pg EXCEPT ![x] = new] /\ u.root = st.root /\ u.first = st.first
        /\ u.call = NoCall
    BY <1>6, <1>8 DEF Wrote
  <2>2. Stands(u, at, top, N)
    BY <1>3, <1>8, <2>1 DEF Stands
  <2>3. Good(u, N)
    BY <2>2, StandsGood
  <2>4. Good(propagate_subtree_min_change(u, path), N)
    BY <1>2, <1>3, <1>5, <2>2, PropagateGood
  <2>. QED
    BY <2>3, <2>4
<1>. QED
  BY <1>7, <1>8 DEF N

\* The only key goes: the leaf becomes the empty root.
LEMMA EraseLast ==
    ASSUME NEW st, IsState(st), st.call = NoCall, st.err = "none", NEW M, NEW at, NEW top,
           Resting(st.pages, st.root, st.first, M, at, top), NEW k, NEW path, NEW x, NEW leaf, NEW new,
           Found(st.pages, at, top, M, k, path, x, leaf, new), DOMAIN M = {k},
           NEW u, u = [write_page(st, [leaf EXCEPT !.entries = <<>>]) EXCEPT !.root = leaf.id, !.first = leaf.id]
    PROVE  Good(u, Without(M, k))
<1>. DEFINE pg == st.pages
            n == Len(pg)
            void == [leaf EXCEPT !.entries = <<>>]
            t == write_page(st, void)
<1>1. /\ x = at[0][k] /\ x \in 1 .. n /\ LeafBox(leaf, x, at, M, n) /\ leaf.id = x
  BY DEF Found
<1>2. n \in Nat
  BY FilePages
<1>3. leaf = Leaf(x, leaf.entries, leaf.next) /\ leaf.next = 0
  <2>1. leaf = Leaf(x, leaf.entries, leaf.next) /\ NextOK(at, DOMAIN M, x, leaf.next)
    BY <1>1 DEF LeafBox
  <2>2. k \in Int
    BY TreePages DEF Resting
  <2>3. k \in Block(at, DOMAIN M, 0, x)
    BY <1>1 DEF Block
  <2>4. ~\E y \in DOMAIN M : k < y
    BY <2>2
  <2>. QED
    BY <2>1, <2>3, <2>4 DEF NextOK
<1>4. void = Leaf(x, <<>>, 0)
  BY <1>3, LeafChanged
<1>5. PageTyped(void, x, n)
  <2>. DEFINE s == <<>>
              z == 0
  <2>1. s \in Seq(Entries) /\ z \in 0 .. n /\ x \in Nat /\ void = Leaf(x, s, z)
    BY <1>1, <1>2, <1>4
  <2>. HIDE DEF s, z, void, n
  <2>. QED
    BY <1>2, <2>1, LeafTyped
<1>. HIDE DEF void
<1>6. Wrote(st, t, x, void)
  BY <1>1, <1>5, WriteFacts
<1>7. u = [t EXCEPT !.root = x, !.first = x]
  BY <1>1 DEF void
<1>. HIDE DEF t
<1>8. /\ u.pages = t.pages /\ u.root = x /\ u.first = x /\ u.err = t.err /\ u.call = NoCall /\ IsState(u)
  <2>1. IsState(t) /\ t.call = NoCall /\ Len(t.pages) = n
    BY <1>6 DEF Wrote
  <2>2. t = [pages |-> t.pages, root |-> t.root, first |-> t.first, err |-> t.err, call |-> t.call] /\ FileOK(t.pages)
    BY <2>1 DEF IsState
  <2>3. u = [pages |-> t.pages, root |-> x, first |-> x, err |-> t.err, call |-> t.call]
    BY <1>7, <2>2
  <2>4. u.pages = t.pages /\ u.root = x /\ u.first = x /\ u.err = t.err /\ u.call = t.call
    BY ONLY <2>3
  <2>5. IsState(u)
    BY <1>1, <2>1, <2>2, <2>3, <2>4 DEF IsState
  <2>. QED
    BY <2>1, <2>4, <2>5
<1>9. CASE u.err # "none"
  BY <1>8, <1>9 DEF Good
<1>10. CASE u.err = "none"
  <2>1. u.pages[x] = void /\ Len(u.pages) = n
    BY <1>6, <1>8, <1>10 DEF Wrote
  <2>2. DOMAIN Without(M, k) = {}
    BY DEF Without
  <2>3. Settled(u.pages, x, x, Without(M, k))
    BY <1>1, <1>4, <2>1, <2>2 DEF Settled
  <2>. QED
    BY <1>8, <1>10, <2>3 DEF Good
<1>. QED
  BY <1>9, <1>10

\* What is good without k is good for the erase of k.
LEMMA GoodErase ==
    ASSUME NEW st, NEW M, NEW k, Good(st, Without(M, k))
    PROVE  EraseGood(st, M, k)
  BY DEF Good, EraseGood, EraseWaits

\* A map of several keys has one other than k.
LEMMA OtherKey ==
    ASSUME NEW K, IsFiniteSet(K), NEW k \in K, Cardinality(K) # 1
    PROVE  \E v \in K : v # k
<1>1. ASSUME ~\E v \in K : v # k
      PROVE  FALSE
  <2>1. K = {k}
    BY <1>1
  <2>. QED
    BY <2>1, FS_Singleton
<1>. QED
  BY <1>1

\* erase leaves the tree without the entry, or a leaf for fix_leaf_underflow.
LEMMA EraseWorkGood ==
    ASSUME NEW st, IsState(st), st.call = NoCall, st.err = "none", NEW M, NEW at, NEW top,
           Resting(st.pages, st.root, st.first, M, at, top), NEW k \in DOMAIN M,
           NEW n, n = Cardinality(DOMAIN M)
    PROVE  EraseGood(EraseWork(st, k, n), M, k)
<1>. DEFINE pg == st.pages
            K == DOMAIN M
            path == PathFrom(pg, st.root, k)
            x == Last(path)
            leaf == pg[x]
            slot == lower_bound_slot(leaf.entries, k)
            new == [leaf EXCEPT !.entries = RemoveAt(@, slot + 1)]
            here == write_page(st, new)
            void == [write_page(st, [leaf EXCEPT !.entries = <<>>]) EXCEPT !.root = leaf.id, !.first = leaf.id]
            call == Call("fix_leaf_underflow", new, path)
            N == Without(M, k)
<1>1. EraseWork(st, k, n) =
        IF n = 1 THEN void
        ELSE IF leaf.id = st.root \/ ~leaf_underflow(new.entries)
        THEN IF slot = 0 /\ new.entries # <<>> THEN propagate_subtree_min_change(here, path) ELSE here
        ELSE Then(st, call)
  BY DEF EraseWork
<1>2. /\ Tree(pg, at, top, M) /\ RootOK(at, top, K, st.root) /\ FirstOK(at, K, st.first)
      /\ FileOK(pg) /\ Grid(at, top, K, Len(pg)) /\ 0 \in 0 .. top /\ top \in Nat /\ IsFiniteSet(K) /\ top \in 0 .. top
      /\ K \subseteq Int
  <2>1. K \subseteq Keys
    BY TreePages DEF Resting
  <2>2. IsFiniteSet(K)
    BY <2>1, KeysAre, FS_Subset
  <2>. QED
    BY <2>2, TreePages, FilePages DEF Resting
<1>. HIDE DEF path, x, leaf, slot, new
<1>3. Found(pg, at, top, M, k, path, x, leaf, new)
  <2>1. path = PathFrom(pg, st.root, k) /\ x = Last(path) /\ leaf = pg[x]
        /\ slot = lower_bound_slot(leaf.entries, k) /\ new = [leaf EXCEPT !.entries = RemoveAt(@, slot + 1)]
    BY DEF path, x, leaf, slot, new
  <2>2. FileOK(pg) /\ Tree(pg, at, top, M) /\ RootOK(at, top, DOMAIN M, st.root) /\ k \in DOMAIN M
    BY <1>2
  <2>. QED
    BY ONLY <2>1, <2>2, EraseFound
<1>4. /\ PathIs(path, at, top, 0, k) /\ x = at[0][k] /\ leaf.id = x /\ Minus(leaf, k, new) /\ leaf = pg[x]
      /\ Lost(new, x, M, k, at, leaf.next)
  BY <1>3 DEF Found
<1>5. ASSUME n = 1
      PROVE  EraseGood(void, M, k)
  <2>1. K = {k}
    <3>1. \E y : K = {y}
      BY <1>2, <1>5, FS_Singleton
    <3>. QED
      BY <3>1
  <2>2. Good(void, N)
    BY <1>3, <2>1, EraseLast
  <2>. QED
    BY <2>2, GoodErase
<1>6. ASSUME n # 1, leaf.id = st.root \/ ~leaf_underflow(new.entries)
      PROVE  \E v \in K : v # k /\ at[0][v] = at[0][k]
  <2>1. CASE leaf.id = st.root
    <3>1. at[0][k] = at[top][k]
      BY <1>2, <1>4, <2>1 DEF RootOK
    <3>2. top = 0
      BY <1>2, <3>1, Apart
    <3>3. PICK v \in K : v # k
      BY <1>2, <1>6, OtherKey
    <3>. QED
      BY <1>2, <3>2, <3>3 DEF RootOK
  <2>2. CASE ~leaf_underflow(new.entries)
    <3>. DEFINE s == new.entries
    <3>1. s # <<>>
      BY <2>2 DEF leaf_underflow
    <3>2. s \in Seq(Entries) /\ Held(s, N, Block(at, DOMAIN N, 0, x))
      BY <1>4 DEF Lost
    <3>. HIDE DEF s
    <3>3. 1 \in 1 .. Len(s)
      BY <3>1, <3>2
    <3>4. s[1].key \in Block(at, DOMAIN N, 0, x)
      BY <3>2, <3>3 DEF Held
    <3>5. DOMAIN N = K \ {k}
      BY DEF Without
    <3>6. s[1].key \in K \ {k} /\ at[0][s[1].key] = x
      BY <3>4, <3>5 DEF Block
    <3>. QED
      BY <1>4, <3>6
  <2>. QED
    BY <1>6, <2>1, <2>2
<1>7. ASSUME n # 1, leaf.id = st.root \/ ~leaf_underflow(new.entries)
      PROVE  EraseGood(here, M, k) /\ EraseGood(propagate_subtree_min_change(here, path), M, k)
  <2>1. PICK v \in K : v # k /\ at[0][v] = at[0][k]
    BY <1>6, <1>7
  <2>2. Good(here, N) /\ Good(propagate_subtree_min_change(here, path), N)
    BY <1>3, <2>1, EraseKept
  <2>. QED
    BY <2>2, GoodErase
<1>8. ASSUME n # 1, leaf.id # st.root
      PROVE  EraseGood(Then(st, call), M, k)
  <2>1. call.fn = "fix_leaf_underflow" /\ call.node = new /\ call.path = path /\ call # NoCall
    BY DEF Call, NoCall
  <2>. DEFINE u == Then(st, call)
  <2>. HIDE DEF call
  <2>2. IsState(u) /\ u.err = "none" /\ u.pages = pg /\ u.root = st.root /\ u.first = st.first /\ u.call = call
    BY ThenFacts
  <2>. HIDE DEF u
  <2>3. top > 0
    <3>1. ASSUME top = 0
          PROVE  FALSE
      <4>1. at[0][k] = st.root
        BY <1>2, <3>1 DEF RootOK
      <4>. QED
        BY <1>4, <1>8, <4>1
    <3>. QED
      BY <1>2, <3>1
  <2>4. PendErase(u.pages, u.root, u.first, call, M, k, at, top)
    BY <1>2, <1>4, <2>1, <2>2, <2>3 DEF PendErase
  <2>5. EraseGood(u, M, k)
    BY <2>1, <2>2, <2>4 DEF EraseGood, EraseWaits
  <2>. QED
    BY <2>5 DEF u
<1>. HIDE DEF void, here, call
<1>. QED
  BY <1>1, <1>5, <1>7, <1>8

----------------------------------------------------------------------------
(* The functions of a call in progress *)

\* The state at the start of a call.
LEMMA StateFacts ==
    ASSUME Typed, pages # <<>>
    PROVE  /\ IsState(State) /\ State.call = NoCall /\ State.err = "none"
           /\ State.pages = pages /\ State.root = root /\ State.first = first
<1>1. FileOK(pages) /\ root \in 1 .. Len(pages) /\ first \in 1 .. Len(pages)
  BY DEF Typed
<1>2. /\ State.call = NoCall /\ State.err = "none"
      /\ State.pages = pages /\ State.root = root /\ State.first = first
      /\ State = [pages |-> pages, root |-> root, first |-> first, err |-> "none", call |-> NoCall]
  BY DEF State
<1>3. IsState(State)
  BY <1>1, <1>2 DEF IsState
<1>. QED
  BY <1>2, <1>3

\* A function is waiting only while a call is in progress.
LEMMA InProgress ==
    ASSUME Typed, todo.fn # "none"
    PROVE  pages # <<>> /\ op # "none" /\ failed = FALSE /\ op \in {"insert", "erase", "bulk"}
  BY DEF Typed, NoCall

\* Each function of a call that waits does what the call needs.
LEMMA WaitsGood ==
    ASSUME NEW st, IsState(st), st.call = NoCall, st.err = "none", NEW call, NEW M,
           Waits(st.pages, st.root, st.first, call, M)
    PROVE  /\ call.fn = "split_leaf" => Good(split_leaf(st, call.node, call.path), M)
           /\ call.fn = "split_internal" => Good(split_internal(st, call.node, call.path), M)
           /\ call.fn = "fix_internal_underflow" => Good(fix_internal_underflow(st, call.node, call.path), M)
<1>1. PICK at, top, l, w :
        /\ Pend(st.pages, st.root, st.first, call, M, at, top, l, w)
        /\ \/ call.fn = "split_leaf" /\ l = 0 /\ Len(call.node.entries) >= 2
           \/ call.fn = "split_internal" /\ l > 0 /\ Len(call.node.children) >= 2
           \/ call.fn = "fix_internal_underflow" /\ l > 0 /\ l < top
  BY DEF Waits
<1>2. ASSUME call.fn = "split_leaf"
      PROVE  Good(split_leaf(st, call.node, call.path), M)
  BY <1>1, <1>2, SplitLeafGood
<1>3. ASSUME call.fn = "split_internal"
      PROVE  Good(split_internal(st, call.node, call.path), M)
  BY <1>1, <1>3, SplitInternalGood
<1>4. ASSUME call.fn = "fix_internal_underflow"
      PROVE  Good(fix_internal_underflow(st, call.node, call.path), M)
  BY <1>1, <1>4, FixInternalGood
<1>. QED
  BY <1>2, <1>3, <1>4

\* The function of an insert or erase that has run to u.
LEMMA StepInv ==
    ASSUME TreeInv, todo.fn \notin {"none", "bulk_level"}, NEW u,
           \A M : Waits(pages, root, first, todo, M) => Good(u, M),
           \A at, top : PendErase(pages, root, first, todo, contents, arg.key, at, top)
                         /\ todo.fn = "fix_leaf_underflow" => Good(u, Without(contents, arg.key)),
           Continue(u, op, arg, size)
    PROVE  TreeInv'
<1>1. Typed /\ InInsert /\ InErase /\ InBulk
  BY DEF TreeInv
<1>2. failed = FALSE /\ op \in {"insert", "erase", "bulk"}
  BY <1>1, InProgress
<1>3. IsMap(contents) /\ size \in Nat
  BY <1>1 DEF Typed
<1>4. CASE op = "insert"
  <2>1. /\ arg \in Entries /\ arg.key \notin DOMAIN contents /\ size = Cardinality(DOMAIN contents)
        /\ Waits(pages, root, first, todo, With(contents, arg))
    BY <1>1, <1>4 DEF InInsert
  <2>2. Good(u, With(contents, arg))
    BY <2>1
  <2>3. Continue(u, "insert", arg, size)
    BY <1>4
  <2>. QED
    BY <1>2, <1>3, <2>1, <2>2, <2>3, InsertInv
<1>5. CASE op = "erase"
  <2>1. /\ arg.key \in DOMAIN contents /\ size + 1 = Cardinality(DOMAIN contents)
        /\ EraseWaits(pages, root, first, todo, contents, arg.key)
    BY <1>1, <1>5 DEF InErase
  <2>2. Good(u, Without(contents, arg.key))
    BY <2>1 DEF EraseWaits
  <2>3. EraseGood(u, contents, arg.key)
    BY <2>2, GoodErase
  <2>4. Continue(u, "erase", arg, size)
    BY <1>5
  <2>. QED
    BY <1>2, <1>3, <2>1, <2>3, <2>4, EraseInv
<1>6. CASE op = "bulk"
  BY <1>1, <1>6 DEF InBulk, BulkWaits
<1>. QED
  BY <1>2, <1>4, <1>5, <1>6

\* The functions of insert and erase keep the invariant.
LEMMA FunctionInv ==
    ASSUME TreeInv, SplitLeaf \/ SplitInternal \/ FixLeafUnderflow \/ FixInternalUnderflow
    PROVE  TreeInv'
<1>1. Typed
  BY DEF TreeInv
<1>2. todo.fn \in {"split_leaf", "split_internal", "fix_leaf_underflow", "fix_internal_underflow"}
  BY DEF SplitLeaf, SplitInternal, FixLeafUnderflow, FixInternalUnderflow
<1>3. /\ IsState(State) /\ State.call = NoCall /\ State.err = "none"
      /\ State.pages = pages /\ State.root = root /\ State.first = first
  BY <1>1, <1>2, InProgress, StateFacts
<1>. DEFINE st == State
<1>4. IsState(st) /\ st.call = NoCall /\ st.err = "none"
  BY <1>3
<1>5. \A M : Waits(pages, root, first, todo, M) => Waits(st.pages, st.root, st.first, todo, M)
  BY <1>3
<1>. HIDE DEF st
<1>6. ASSUME SplitLeaf PROVE TreeInv'
  <2>. DEFINE u == split_leaf(st, todo.node, todo.path)
  <2>1. todo.fn = "split_leaf" /\ Continue(u, op, arg, size)
    BY <1>6 DEF SplitLeaf, st
  <2>2. \A M : Waits(pages, root, first, todo, M) => Good(u, M)
    BY <1>4, <1>5, <2>1, WaitsGood
  <2>3. todo.fn \notin {"none", "bulk_level"} /\ todo.fn # "fix_leaf_underflow"
    BY <2>1
  <2>. HIDE DEF u
  <2>. QED
    BY <2>1, <2>2, <2>3, StepInv
<1>7. ASSUME SplitInternal PROVE TreeInv'
  <2>. DEFINE u == split_internal(st, todo.node, todo.path)
  <2>1. todo.fn = "split_internal" /\ Continue(u, op, arg, size)
    BY <1>7 DEF SplitInternal, st
  <2>2. \A M : Waits(pages, root, first, todo, M) => Good(u, M)
    BY <1>4, <1>5, <2>1, WaitsGood
  <2>3. todo.fn \notin {"none", "bulk_level"} /\ todo.fn # "fix_leaf_underflow"
    BY <2>1
  <2>. HIDE DEF u
  <2>. QED
    BY <2>1, <2>2, <2>3, StepInv
<1>8. ASSUME FixInternalUnderflow PROVE TreeInv'
  <2>. DEFINE u == fix_internal_underflow(st, todo.node, todo.path)
  <2>1. todo.fn = "fix_internal_underflow" /\ Continue(u, op, arg, size)
    BY <1>8 DEF FixInternalUnderflow, st
  <2>2. \A M : Waits(pages, root, first, todo, M) => Good(u, M)
    BY <1>4, <1>5, <2>1, WaitsGood
  <2>3. todo.fn \notin {"none", "bulk_level"} /\ todo.fn # "fix_leaf_underflow"
    BY <2>1
  <2>. HIDE DEF u
  <2>. QED
    BY <2>1, <2>2, <2>3, StepInv
<1>9. ASSUME FixLeafUnderflow PROVE TreeInv'
  <2>. DEFINE u == fix_leaf_underflow(st, todo.node, todo.path)
  <2>1. todo.fn = "fix_leaf_underflow" /\ Continue(u, op, arg, size)
    BY <1>9 DEF FixLeafUnderflow, st
  <2>2. \A M : ~Waits(pages, root, first, todo, M)
    BY <2>1 DEF Waits
  <2>3. todo.fn \notin {"none", "bulk_level"}
    BY <2>1
  <2>4. ASSUME NEW at, NEW top, PendErase(pages, root, first, todo, contents, arg.key, at, top)
        PROVE  Good(u, Without(contents, arg.key))
    <3>1. PendErase(st.pages, st.root, st.first, todo, contents, arg.key, at, top)
      BY <1>3, <2>4 DEF st
    <3>. QED
      BY <1>4, <3>1, FixLeafGood
  <2>. HIDE DEF u
  <2>. QED
    BY <2>1, <2>2, <2>3, <2>4, StepInv
<1>. QED
  BY <1>6, <1>7, <1>8, <1>9

----------------------------------------------------------------------------
(* The calls *)

\* A step between calls that changes no page keeps the invariant.
LEMMA IdleInv ==
    ASSUME TreeInv, op = "none", op' = "none", todo' = NoCall,
           UNCHANGED <<pages, root, first, size, contents, failed>>,
           super' \in {super, <<root, first, size>>}
    PROVE  TreeInv'
<1>1. /\ pages' = pages /\ root' = root /\ first' = first /\ size' = size /\ contents' = contents
      /\ failed' = failed
  OBVIOUS
<1>2. Typed /\ AtRest
  BY DEF TreeInv
<1>3. Typed'
  BY <1>1, <1>2 DEF Typed
<1>4. AtRest'
  BY <1>1, <1>2 DEF AtRest
<1>5. InInsert' /\ InErase' /\ InBulk'
  BY DEF InInsert, InErase, InBulk
<1>. QED
  BY <1>3, <1>4, <1>5 DEF TreeInv

\* A refused insert, erase or bulk_build keeps the invariant.
LEMMA RefuseInv ==
    ASSUME TreeInv, op = "none", NEW r, Refuse(r)
    PROVE  TreeInv'
<1>1. /\ op' = "none" /\ todo' = NoCall /\ UNCHANGED <<pages, root, first, size, contents, failed>>
      /\ super' = super
  BY DEF Refuse, Return
<1>. QED
  BY <1>1, IdleInv

\* flush keeps the invariant.
LEMMA FlushInv ==
    ASSUME TreeInv, flush
    PROVE  TreeInv'
<1>1. /\ op = "none" /\ op' = "none" /\ todo' = todo /\ UNCHANGED <<pages, root, first, size, contents, failed>>
      /\ super' = <<root, first, size>>
  BY DEF flush
<1>2. todo = NoCall
  BY <1>1 DEF TreeInv, Typed
<1>. QED
  BY <1>1, <1>2, IdleInv

\* A call finds the tree at rest.
LEMMA IdleFacts ==
    ASSUME TreeInv, Idle
    PROVE  /\ op = "none" /\ failed = FALSE /\ pages # <<>> /\ Typed /\ IsMap(contents)
           /\ Settled(pages, root, first, contents) /\ size = Cardinality(DOMAIN contents) /\ size \in Nat
           /\ IsFiniteSet(DOMAIN contents)
<1>1. op = "none" /\ ~failed /\ Len(pages) \in 1 .. MaxPages
  BY DEF Idle
<1>2. Len(pages) # 0
  BY <1>1
<1>3. pages # <<>>
  <2>1. Len(<<>>) = 0
    OBVIOUS
  <2>. QED
    BY <1>2, <2>1
<1>4. Typed /\ AtRest
  BY DEF TreeInv
<1>5. IsMap(contents) /\ size \in Nat /\ failed \in BOOLEAN
  BY <1>4 DEF Typed
<1>6. DOMAIN contents \subseteq Keys
  BY <1>5 DEF IsMap
<1>7. IsFiniteSet(DOMAIN contents)
  BY <1>6, KeysAre, FS_Subset
<1>8. Settled(pages, root, first, contents) /\ size = Cardinality(DOMAIN contents)
  BY <1>1, <1>3, <1>4 DEF AtRest
<1>. QED
  BY <1>1, <1>3, <1>4, <1>5, <1>7, <1>8

\* A key and a rid make an entry.
LEMMA EntryTyped ==
    ASSUME NEW k \in Keys, NEW r \in Rids, NEW e, e = [key |-> k, rid |-> r]
    PROVE  e \in Entries /\ e.key = k
  BY DEF Entries

\* insert into an empty tree keeps the invariant.
LEMMA InsertFirstInv ==
    ASSUME TreeInv, NEW e \in Entries, insert_first(e)
    PROVE  TreeInv'
<1>1. Idle /\ size = 0 /\ Continue(write_page(State, Leaf(root, <<e>>, 0)), "insert", e, size)
  BY DEF insert_first
<1>2. /\ failed = FALSE /\ pages # <<>> /\ Typed /\ IsMap(contents)
      /\ Settled(pages, root, first, contents) /\ size = Cardinality(DOMAIN contents)
      /\ IsFiniteSet(DOMAIN contents)
  BY <1>1, IdleFacts
<1>3. DOMAIN contents = {}
  BY <1>1, <1>2, FS_EmptySet
<1>4. first = root
  <2>1. ASSUME NEW at, NEW top, Tree(pages, at, top, contents) PROVE FALSE
    BY <1>3, <2>1 DEF Tree
  <2>. QED
    BY <1>2, <2>1 DEF Settled
<1>. DEFINE st == State
<1>5. IsState(st) /\ st.call = NoCall /\ st.err = "none" /\ st.root = root /\ st.first = first
  BY <1>2, StateFacts
<1>. HIDE DEF st
<1>. DEFINE u == write_page(st, Leaf(st.root, <<e>>, 0))
<1>6. Good(u, With(contents, e))
  BY <1>3, <1>4, <1>5, InsertFirstGood
<1>7. Continue(u, "insert", e, size)
  BY <1>1, <1>5 DEF st
<1>8. e.key \notin DOMAIN contents
  BY <1>3
<1>. HIDE DEF u
<1>. QED
  BY <1>2, <1>6, <1>7, <1>8, InsertInv

\* A tree that is not empty, at rest.
LEMMA RestingTree ==
    ASSUME Settled(pages, root, first, contents), DOMAIN contents # {}
    PROVE  \E at, top : Resting(pages, root, first, contents, at, top)
  BY DEF Settled, Resting

\* insert into a tree with entries keeps the invariant.
LEMMA InsertNextInv ==
    ASSUME TreeInv, NEW e \in Entries, insert(e)
    PROVE  TreeInv'
<1>. DEFINE st == State
            k == e.key
            path == PathFrom(pages, root, k)
            leaf == pages[Last(path)]
            slot == lower_bound_slot(leaf.entries, k)
            here == slot < Len(leaf.entries) /\ leaf.entries[slot + 1].key = k
<1>1. Idle /\ size # 0
      /\ (IF here THEN Refuse("duplicate") ELSE Continue(InsertWork(st, e), "insert", e, size))
  BY DEF insert, InsertWork, State
<1>2. /\ op = "none" /\ failed = FALSE /\ pages # <<>> /\ Typed /\ IsMap(contents)
      /\ Settled(pages, root, first, contents) /\ size = Cardinality(DOMAIN contents)
      /\ IsFiniteSet(DOMAIN contents)
  BY <1>1, IdleFacts
<1>3. DOMAIN contents # {}
  BY <1>1, <1>2, FS_EmptySet
<1>4. PICK at, top : Resting(pages, root, first, contents, at, top)
  BY <1>2, <1>3, RestingTree
<1>5. IsState(st) /\ st.call = NoCall /\ st.err = "none" /\ st.pages = pages /\ st.root = root /\ st.first = first
  BY <1>2, StateFacts
<1>. HIDE DEF st
<1>6. ASSUME here PROVE TreeInv'
  BY <1>1, <1>2, <1>6, RefuseInv
<1>7. ASSUME ~here PROVE TreeInv'
  <2>1. k \in Int
    BY KeysAre DEF Entries
  <2>2. Tree(pages, at, top, contents) /\ RootOK(at, top, DOMAIN contents, root)
    BY <1>4 DEF Resting
  <2>3. PICK w : Located(pages, root, at, top, contents, k, w)
    BY <2>1, <2>2, Locate
  <2>4. k \notin DOMAIN contents
    BY <1>7, <2>3 DEF Located
  <2>. DEFINE u == InsertWork(st, e)
  <2>5. Good(u, With(contents, e))
    <3>1. Resting(st.pages, st.root, st.first, contents, at, top)
      BY <1>4, <1>5
    <3>. QED
      BY <1>5, <2>4, <3>1, InsertGood
  <2>6. Continue(u, "insert", e, size)
    BY <1>1, <1>7
  <2>. HIDE DEF u
  <2>. QED
    BY <1>2, <2>4, <2>5, <2>6, InsertInv
<1>. QED
  BY <1>6, <1>7

\* erase keeps the invariant.
LEMMA EraseCallInv ==
    ASSUME TreeInv, NEW k \in Keys, erase(k)
    PROVE  TreeInv'
<1>. DEFINE st == State
            path == PathFrom(pages, root, k)
            leaf == pages[Last(path)]
            slot == lower_bound_slot(leaf.entries, k)
            here == slot < Len(leaf.entries) /\ leaf.entries[slot + 1].key = k
            e == [key |-> k, rid |-> 0]
<1>1. Idle
      /\ (IF size = 0 \/ ~here THEN Refuse("absent") ELSE Continue(EraseWork(st, k, size), "erase", e, size - 1))
  BY DEF erase, EraseWork, State
<1>2. /\ op = "none" /\ failed = FALSE /\ pages # <<>> /\ Typed /\ IsMap(contents)
      /\ Settled(pages, root, first, contents) /\ size = Cardinality(DOMAIN contents)
      /\ IsFiniteSet(DOMAIN contents) /\ size \in Nat
  BY <1>1, IdleFacts
<1>3. CASE size = 0 \/ ~here
  BY <1>1, <1>2, <1>3, RefuseInv
<1>4. CASE size # 0 /\ here
  <2>1. DOMAIN contents # {}
    BY <1>2, <1>4, FS_EmptySet
  <2>2. PICK at, top : Resting(pages, root, first, contents, at, top)
    BY <1>2, <2>1, RestingTree
  <2>3. IsState(st) /\ st.call = NoCall /\ st.err = "none" /\ st.pages = pages /\ st.root = root /\ st.first = first
    BY <1>2, StateFacts
  <2>. HIDE DEF st
  <2>4. k \in Int
    BY KeysAre
  <2>5. Tree(pages, at, top, contents) /\ RootOK(at, top, DOMAIN contents, root)
    BY <2>2 DEF Resting
  <2>6. PICK w : Located(pages, root, at, top, contents, k, w)
    BY <2>4, <2>5, Locate
  <2>7. k \in DOMAIN contents
    BY <1>4, <2>6 DEF Located
  <2>. DEFINE u == EraseWork(st, k, size)
              n == size - 1
  <2>8. EraseGood(u, contents, k)
    <3>1. Resting(st.pages, st.root, st.first, contents, at, top)
      BY <2>2, <2>3
    <3>. QED
      BY <1>2, <2>3, <2>7, <3>1, EraseWorkGood
  <2>9. Continue(u, "erase", e, n)
    BY <1>1, <1>4
  <2>10. n + 1 = Cardinality(DOMAIN contents) /\ n \in Nat
    BY <1>2, <1>4
  <2>11. e.key \in DOMAIN contents /\ EraseGood(u, contents, e.key)
    BY <2>7, <2>8
  <2>. HIDE DEF u, n, e
  <2>. QED
    BY <1>2, <2>9, <2>10, <2>11, EraseInv
<1>. QED
  BY <1>3, <1>4

\* The state with other pages and another root.
LEMMA StateSet ==
    ASSUME NEW q, NEW r, NEW f
    PROVE  [State EXCEPT !.pages = q, !.root = r, !.first = f] =
             [pages |-> q, root |-> r, first |-> f, err |-> "none", call |-> NoCall]
<1>. DEFINE s == State
            u == [s EXCEPT !.pages = q]
            v == [u EXCEPT !.root = r]
            w == [v EXCEPT !.first = f]
            d == "none"
            e == NoCall
<1>0. s = [pages |-> pages, root |-> root, first |-> first, err |-> d, call |-> e]
  BY DEF State
<1>2. [s EXCEPT !.pages = q, !.root = r, !.first = f] = w
  BY DEF State
<1>. HIDE DEF s, d, e
<1>1. u = [pages |-> q, root |-> root, first |-> first, err |-> d, call |-> e]
  BY <1>0
<1>. HIDE DEF u
<1>3. v = [pages |-> q, root |-> r, first |-> first, err |-> d, call |-> e]
  BY <1>1
<1>. HIDE DEF v
<1>4. w = [pages |-> q, root |-> r, first |-> f, err |-> d, call |-> e]
  BY <1>3
<1>. HIDE DEF w
<1>5. [s EXCEPT !.pages = q, !.root = r, !.first = f] = [pages |-> q, root |-> r, first |-> f, err |-> d, call |-> e]
  BY <1>2, <1>4
<1>. QED
  BY <1>5 DEF s, d, e

\* create_empty establishes the tree of no entries.
LEMMA CreateInv ==
    ASSUME TreeInv, create_empty
    PROVE  TreeInv'
<1>. DEFINE leaf == Leaf(1, <<>>, 0)
            q == <<leaf>>
            st == [State EXCEPT !.pages = q, !.root = 1, !.first = 1]
<1>1. pages = <<>> /\ Finish(st, 0, contents)
  BY DEF create_empty
<1>2. DOMAIN contents = {} /\ IsMap(contents)
  BY <1>1 DEF TreeInv, Typed
<1>3. PageTyped(leaf, 1, 1)
  <2>1. <<>> \in Seq(Entries) /\ 0 \in 0 .. 1 /\ 1 \in Nat
    OBVIOUS
  <2>. QED
    BY <2>1, LeafTyped
<1>. HIDE DEF leaf
<1>4. FileOK(q) /\ Len(q) = 1 /\ q[1] = leaf
  <2>1. leaf \in AnyPage
    BY <1>3 DEF PageTyped
  <2>2. <<leaf>> \in Seq(AnyPage) /\ Len(<<leaf>>) = 1 /\ <<leaf>>[1] = leaf
    BY <2>1
  <2>. QED
    BY <1>3, <2>2 DEF FileOK
<1>. HIDE DEF q
<1>5. st = [pages |-> q, root |-> 1, first |-> 1, err |-> "none", call |-> NoCall]
  BY StateSet
<1>6. IsState(st) /\ st.pages = q /\ st.root = 1 /\ st.first = 1
  <2>1. st.pages = q /\ st.root = 1 /\ st.first = 1 /\ st.err = "none" /\ st.call = NoCall
    BY ONLY <1>5
  <2>2. st = [pages |-> st.pages, root |-> st.root, first |-> st.first, err |-> st.err, call |-> st.call]
    BY <1>5, <2>1
  <2>. QED
    BY <1>4, <2>1, <2>2 DEF IsState
<1>7. Settled(st.pages, st.root, st.first, contents)
  <2>1. st.pages[st.root] = leaf
    BY <1>4, <1>6
  <2>. QED
    BY <1>2, <1>4, <1>6, <2>1 DEF Settled, leaf
<1>8. 0 = Cardinality(DOMAIN contents)
  BY <1>2, FS_EmptySet
<1>. HIDE DEF st
<1>. DEFINE n == 0
<1>9. n = Cardinality(DOMAIN contents) /\ n \in Nat /\ Finish(st, n, contents)
  BY <1>1, <1>8
<1>. HIDE DEF n
<1>. QED
  BY <1>2, <1>6, <1>7, <1>9, FinishInv

\* The invariant holds before create_empty.
LEMMA InitInv ==
    ASSUME Init
    PROVE  TreeInv
<1>1. pages = <<>> /\ root = 0 /\ first = 0 /\ size = 0 /\ op = "none" /\ failed = FALSE /\ todo = NoCall
      /\ DOMAIN contents = {} /\ contents = [x \in {} |-> 0]
  BY DEF Init
<1>2. FileOK(pages)
  BY <1>1 DEF FileOK
<1>3. IsMap(contents)
  <2>1. contents = [x \in DOMAIN contents |-> contents[x]]
    BY <1>1
  <2>. QED
    BY <1>1, <2>1 DEF IsMap
<1>4. Typed
  BY <1>1, <1>2, <1>3 DEF Typed
<1>. QED
  BY <1>1, <1>4 DEF TreeInv, AtRest, InInsert, InErase, InBulk

----------------------------------------------------------------------------
(* Runs *)

\* InOrder lists a set of keys in order, once each.
LEMMA InOrderFacts ==
    ASSUME NEW S, S \subseteq Int, IsFiniteSet(S)
    PROVE  /\ InOrder(S) \in Seq(S) /\ Len(InOrder(S)) = Cardinality(S) /\ Cardinality(S) \in Nat
           /\ \A a \in S : \E i \in 1 .. Len(InOrder(S)) : InOrder(S)[i] = a
           /\ \A i, j \in 1 .. Len(InOrder(S)) : i < j => InOrder(S)[i] < InOrder(S)[j]
<1>. DEFINE q == InOrder(S)
            id == [x \in S |-> x]
            n == Cardinality(S)
<1>1. Keyed(S, id)
  <2>1. id \in [S -> Int] /\ \A a, b \in S : id[a] = id[b] => a = b
    OBVIOUS
  <2>. QED
    BY <2>1 DEF Keyed
<1>2. n \in Nat
  BY FS_CardinalityType
<1>3. \A i \in 1 .. n : \E a \in S : Cardinality({x \in S : x < a}) = i - 1
  <2>1. \A i \in 1 .. n : \E a \in S : Cardinality(Below(S, id, a)) = i - 1
    BY <1>1, RankFacts
  <2>2. \A a \in S : Below(S, id, a) = {x \in S : x < a}
    BY DEF Below
  <2>. QED
    BY <2>1, <2>2
<1>4. Ranks(q, S, id)
  <2>1. ASSUME NEW i \in 1 .. n
        PROVE  q[i] \in S /\ Cardinality(Below(S, id, q[i])) = i - 1
    <3>1. PICK a \in S : Cardinality({x \in S : x < a}) = i - 1
      BY <1>3
    <3>2. q[i] = CHOOSE k \in S : Cardinality({x \in S : x < k}) = i - 1
      BY DEF InOrder
    <3>3. q[i] \in S /\ Cardinality({x \in S : x < q[i]}) = i - 1
      BY <3>1, <3>2
    <3>4. Below(S, id, q[i]) = {x \in S : x < q[i]}
      BY <3>3 DEF Below
    <3>. QED
      BY <3>3, <3>4
  <2>2. q = [i \in 1 .. n |-> q[i]]
    BY SMTT(20) DEF InOrder
  <2>3. q \in [1 .. n -> S]
    BY <2>1, <2>2
  <2>. HIDE DEF q
  <2>. QED
    BY <2>1, <2>3 DEF Ranks
<1>5. Lists(q, S, id)
  BY <1>1, <1>4, RankFacts
<1>6. q \in [1 .. n -> S]
  BY <1>4 DEF Ranks
<1>. HIDE DEF q
<1>7. q \in Seq(S) /\ Len(q) = n /\ \A a \in S : \E i \in 1 .. Len(q) : q[i] = a
  <2>1. q \in Seq(S) /\ {q[i] : i \in 1 .. Len(q)} = S
    BY <1>5 DEF Lists
  <2>2. Len(q) = n
    BY <1>2, <1>6
  <2>. QED
    BY <2>1, <2>2
<1>8. ASSUME NEW i \in 1 .. Len(q), NEW j \in 1 .. Len(q), i < j
      PROVE  q[i] < q[j]
  <2>1. id[q[i]] < id[q[j]]
    BY <1>5, <1>8 DEF Lists
  <2>2. q[i] \in S /\ q[j] \in S
    BY <1>6, <1>7
  <2>. QED
    BY <2>1, <2>2
<1>. QED
  BY <1>2, <1>7, <1>8 DEF q

\* s is cut into the sequences r.
CutAt(r, s, c) ==
    /\ c \in [1 .. Len(r) + 1 -> 1 .. Len(s) + 1] /\ Len(r) \in Nat /\ Len(r) >= 1
    /\ c[1] = 1 /\ c[Len(r) + 1] = Len(s) + 1
    /\ \A i, j \in 1 .. Len(r) + 1 : i < j => c[i] < c[j]
    /\ \A i \in 1 .. Len(r) : r[i] = SubSeq(s, c[i], c[i + 1] - 1)
AreRuns(r, s) == \E c : CutAt(r, s, c)

\* Runs cuts a sequence into consecutive parts that are not empty.
LEMMA RunsFacts ==
    ASSUME NEW S, NEW s \in Seq(S), Len(s) >= 1, NEW start, start[1] = 1
    PROVE  AreRuns(Runs(s, start), s)
<1>. DEFINE N == Len(s)
            C == {n \in 1 .. N : start[n] = n}
            q == InOrder(C)
            G == Len(q)
            r == Runs(s, start)
            c == [i \in 1 .. G + 1 |-> IF i <= G THEN q[i] ELSE N + 1]
<1>1. N \in Nat /\ 1 \in C
  OBVIOUS
<1>2. C \subseteq Int /\ C \subseteq 1 .. N
  OBVIOUS
<1>3. IsFiniteSet(C)
  <2>1. IsFiniteSet(1 .. N)
    BY <1>1, FS_Interval
  <2>. HIDE DEF C
  <2>. QED
    BY <1>2, <2>1, FS_Subset
<1>. HIDE DEF C
<1>4. /\ q \in Seq(C) /\ G \in Nat
      /\ \A a \in C : \E i \in 1 .. G : q[i] = a
      /\ \A i, j \in 1 .. G : i < j => q[i] < q[j]
  BY <1>2, <1>3, InOrderFacts
<1>5. r = [i \in 1 .. G |-> SubSeq(s, q[i], IF i < G THEN q[i + 1] - 1 ELSE N)]
  BY DEF Runs, C
<1>. HIDE DEF q
<1>6. G >= 1 /\ \A i \in 1 .. G : q[i] \in 1 .. N
  <2>1. \A i \in 1 .. G : q[i] \in C
    BY <1>4
  <2>2. \A i \in 1 .. G : q[i] \in 1 .. N
    BY <1>2, <2>1
  <2>3. PICK i \in 1 .. G : q[i] = 1
    BY <1>1, <1>4
  <2>4. G >= 1
    BY <1>4, <2>3
  <2>. QED
    BY <2>2, <2>4
<1>7. q[1] = 1
  <2>1. PICK i \in 1 .. G : q[i] = 1
    BY <1>1, <1>4
  <2>2. i = 1 \/ q[1] < q[i]
    BY <1>4, <1>6
  <2>. QED
    BY <1>1, <1>4, <1>6, <2>1, <2>2, SMTT(20)
<1>. HIDE DEF N, G
<1>8. Len(r) = G
  BY <1>4, <1>5
<1>9. c \in [1 .. G + 1 -> 1 .. N + 1] /\ c[1] = 1 /\ c[G + 1] = N + 1
  BY <1>1, <1>4, <1>6, <1>7
<1>10. \A i, j \in 1 .. G + 1 : i < j => c[i] < c[j]
  <2>1. ASSUME NEW i \in 1 .. G + 1, NEW j \in 1 .. G + 1, i < j
        PROVE  c[i] < c[j]
    <3>1. i \in 1 .. G /\ c[i] = q[i] /\ q[i] \in 1 .. N
      BY <1>4, <1>6, <2>1
    <3>2. CASE j = G + 1
      BY <1>1, <1>9, <3>1, <3>2
    <3>3. CASE j # G + 1
      <4>1. j \in 1 .. G /\ c[j] = q[j]
        BY <1>4, <3>3
      <4>. QED
        BY <1>4, <2>1, <3>1, <4>1
    <3>. QED
      BY <3>2, <3>3
  <2>. QED
    BY <2>1
<1>11. ASSUME NEW i \in 1 .. G
       PROVE  r[i] = SubSeq(s, c[i], c[i + 1] - 1)
  <2>1. r[i] = SubSeq(s, q[i], IF i < G THEN q[i + 1] - 1 ELSE N)
    BY <1>5
  <2>2. c[i] = q[i] /\ (c[i + 1] = IF i < G THEN q[i + 1] ELSE N + 1)
    <3>1. i \in 1 .. G + 1 /\ i <= G /\ i + 1 \in 1 .. G + 1
      BY <1>4
    <3>2. i + 1 <= G <=> i < G
      BY <1>4
    <3>. QED
      BY <3>1, <3>2
  <2>. HIDE DEF c, r
  <2>3. CASE i < G
    BY <2>1, <2>2, <2>3
  <2>4. CASE ~(i < G)
    <3>1. c[i + 1] - 1 = N
      BY <1>1, <2>2, <2>4
    <3>. QED
      BY <2>1, <2>2, <2>4, <3>1
  <2>. QED
    BY <2>3, <2>4
<1>. HIDE DEF c, r
<1>12. CutAt(r, s, c)
  BY <1>4, <1>6, <1>8, <1>9, <1>10, <1>11 DEF CutAt, N
<1>. QED
  BY <1>12 DEF AreRuns, r

\* f[n] is where the run begins that has the n-th element: with the one before
\* if J has the pair of that run and n.
Starts(f, J, N) ==
    /\ f = [n \in 1 .. N |-> IF n > 1 /\ <<f[n - 1], n>> \in J THEN f[n - 1] ELSE n]
    /\ \A n \in 1 .. N : f[n] \in Nat
CanStart(J, N) == \E f : Starts(f, J, N)
\* The beginnings of the runs are well defined.
LEMMA StartsExist ==
    ASSUME NEW J, NEW N \in Nat
    PROVE  CanStart(J, N)
<1>. DEFINE V == Nat \X Nat
            go(v) == IF <<v[1], v[2] + 1>> \in J THEN v[1] ELSE v[2] + 1
            step == [v \in V |-> <<go(v), v[2] + 1>>]
            p == <<1, 1>>
<1>1. step \in [V -> V]
  <2>1. ASSUME NEW v \in V PROVE <<go(v), v[2] + 1>> \in V
    OBVIOUS
  <2>. QED
    BY <2>1
<1>2. p \in V
  OBVIOUS
<1>3. PICK g : Iterates(g, V, step, p, N)
  <2>. HIDE DEF V, step, p
  <2>. QED
    BY <1>1, <1>2, Iterated DEF CanIterate
<1>4. g \in [0 .. N -> V] /\ g[0] = p /\ \A i \in 1 .. N : g[i] = step[g[i - 1]]
  BY <1>3 DEF Iterates
<1>. DEFINE f == [n \in 1 .. N |-> g[n - 1][1]]
<1>5. \A i \in 0 .. N : g[i][2] = i + 1
  <2>. DEFINE T == {x \in 0 .. N : g[x][2] # x + 1}
  <2>1. ASSUME T # {} PROVE FALSE
    <3>1. T \in SUBSET Nat
      OBVIOUS
    <3>. HIDE DEF T
    <3>2. PICK y \in T : \A z \in T : y <= z
      BY <2>1, <3>1, LeastNatural
    <3>3. y \in 0 .. N /\ g[y][2] # y + 1
      BY <3>2 DEF T
    <3>4. y # 0
      BY <1>4, <3>3
    <3>5. y - 1 \in 0 .. N /\ y - 1 \notin T /\ y \in 1 .. N
      BY <3>2, <3>3, <3>4
    <3>6. g[y - 1][2] = y - 1 + 1 /\ g[y - 1] \in V
      <4>1. g[y - 1] \in V
        BY <1>4, <3>5
      <4>. QED
        BY <3>5, <4>1 DEF T
    <3>7. g[y] = <<go(g[y - 1]), g[y - 1][2] + 1>>
      BY <1>4, <3>5, <3>6
    <3>. HIDE DEF go
    <3>. QED
      BY <3>3, <3>6, <3>7
  <2>. QED
    BY <2>1
<1>6. ASSUME NEW n \in 1 .. N
      PROVE  f[n] = IF n > 1 /\ <<f[n - 1], n>> \in J THEN f[n - 1] ELSE n
  <2>1. CASE n = 1
    BY <1>4, <2>1
  <2>2. CASE n # 1
    <3>1. n - 1 \in 1 .. N /\ n - 2 \in 0 .. N /\ n - 1 - 1 = n - 2 /\ n > 1
      BY <2>2
    <3>2. f[n] = g[n - 1][1] /\ f[n - 1] = g[n - 2][1]
      BY <3>1
    <3>3. g[n - 2][2] = n - 1 /\ g[n - 2] \in V
      <4>1. g[n - 2] \in V
        BY <1>4, <3>1
      <4>2. g[n - 2][2] = n - 2 + 1
        BY <1>5, <3>1
      <4>. QED
        BY <4>1, <4>2
    <3>4. g[n - 1] = step[g[n - 2]]
      BY <1>4, <3>1
    <3>5. g[n - 1] = <<go(g[n - 2]), n>>
      BY <3>3, <3>4
    <3>6. go(g[n - 2]) = IF <<g[n - 2][1], n>> \in J THEN g[n - 2][1] ELSE n
      BY <3>3
    <3>. HIDE DEF go, f
    <3>. QED
      BY <3>1, <3>2, <3>5, <3>6
  <2>. QED
    BY <2>1, <2>2
<1>7. Starts(f, J, N)
  <2>1. f = [n \in 1 .. N |-> f[n]]
    OBVIOUS
  <2>2. ASSUME NEW n \in 1 .. N PROVE f[n] \in Nat
    <3>1. n - 1 \in 0 .. N
      OBVIOUS
    <3>2. g[n - 1] \in V
      BY <1>4, <3>1
    <3>. QED
      BY <3>2
  <2>. HIDE DEF f
  <2>. QED
    BY <1>6, <2>1, <2>2 DEF Starts
<1>. QED
  BY <1>7 DEF CanStart

----------------------------------------------------------------------------
(* bulk_build *)
LEMMA ChunksCut ==
    ASSUME NEW s \in Seq(Entries), Len(s) >= 1
    PROVE  AreRuns(BulkChunks(s), s)
<1>. DEFINE N == Len(s)
            P(a, n) == leaf_payload_bytes(SubSeq(s, a, n - 1)) + leaf_entry_bytes(s[n]) <= PageSize
            J == {v \in Nat \X Nat : P(v[1], v[2])}
            G(h) == [n \in 1 .. N |-> IF n > 1 /\ P(h[n - 1], n) THEN h[n - 1] ELSE n]
            start == CHOOSE h : h = G(h)
<1>1. BulkChunks(s) = Runs(s, start)
  BY DEF BulkChunks
<1>. HIDE DEF P
<1>2. N \in Nat /\ 1 \in 1 .. N
  OBVIOUS
<1>3. PICK f : Starts(f, J, N)
  <2>. HIDE DEF J, N
  <2>. QED
    BY <1>2, StartsExist DEF CanStart
<1>4. f = G(f)
  <2>1. ASSUME NEW n \in 1 .. N, n > 1
        PROVE  <<f[n - 1], n>> \in J <=> P(f[n - 1], n)
    <3>1. n - 1 \in 1 .. N /\ n \in Nat
      BY <2>1
    <3>2. f[n - 1] \in Nat
      BY <1>3, <3>1 DEF Starts
    <3>. QED
      BY <3>1, <3>2
  <2>. HIDE DEF J
  <2>. QED
    BY <1>3, <2>1 DEF Starts
<1>5. start = G(start)
  <2>. HIDE DEF G
  <2>. QED
    BY <1>4
<1>. HIDE DEF start
<1>6. start[1] = 1
  BY <1>2, <1>5
<1>. QED
  BY <1>1, <1>6, RunsFacts

\* BulkGroups cuts a level into groups of children.
LEMMA GroupsCut ==
    ASSUME NEW S, NEW s \in Seq(S), Len(s) >= 1, NEW st
    PROVE  AreRuns(BulkGroups(st, s), s)
<1>. DEFINE N == Len(s)
            Sep(i) == subtree_min_entry(st.pages, s[i])
            Bytes(a, b) == inner_payload_bytes([i \in 1 .. b - a |-> Sep(a + i)], b - a + 1)
            P(a, n) == \/ a = n - 1
                       \/ Bytes(a, n - 1) + 2 + KeyLen[Sep(n)] + 8 + 4 <= PageSize
            J == {v \in Nat \X Nat : P(v[1], v[2])}
            G(h) == [n \in 1 .. N |-> IF n > 1 /\ P(h[n - 1], n) THEN h[n - 1] ELSE n]
            start == CHOOSE h : h = G(h)
<1>1. BulkGroups(st, s) = Runs(s, start)
  BY DEF BulkGroups
<1>. HIDE DEF P
<1>2. N \in Nat /\ 1 \in 1 .. N
  OBVIOUS
<1>3. PICK f : Starts(f, J, N)
  <2>. HIDE DEF J, N
  <2>. QED
    BY <1>2, StartsExist DEF CanStart
<1>4. f = G(f)
  <2>1. ASSUME NEW n \in 1 .. N, n > 1
        PROVE  <<f[n - 1], n>> \in J <=> P(f[n - 1], n)
    <3>1. n - 1 \in 1 .. N /\ n \in Nat
      BY <2>1
    <3>2. f[n - 1] \in Nat
      BY <1>3, <3>1 DEF Starts
    <3>. QED
      BY <3>1, <3>2
  <2>. HIDE DEF J
  <2>. QED
    BY <1>3, <2>1 DEF Starts
<1>5. start = G(start)
  <2>. HIDE DEF G
  <2>. QED
    BY <1>4
<1>. HIDE DEF start
<1>6. start[1] = 1
  BY <1>2, <1>5
<1>. QED
  BY <1>1, <1>6, RunsFacts

----------------------------------------------------------------------------
(* Keys numbered from left to right *)

\* g numbers the keys of K from 1 to N, in order, some of them alike.
Labels(g, K, N) ==
    /\ K \subseteq Int /\ N \in Nat /\ g \in [K -> 1 .. N]
    /\ \A j, k \in K : j < k => g[j] <= g[k]
    /\ \A i \in 1 .. N : \E k \in K : g[k] = i
\* The i-th part of a sequence has its x-th element.
InPart(c, i, x) == c[i] <= x /\ x < c[i + 1]
\* Every position is in a part.
LEMMA PartHas ==
    ASSUME NEW r, NEW s, NEW c, CutAt(r, s, c), Len(s) \in Nat, NEW x \in 1 .. Len(s)
    PROVE  \E i \in 1 .. Len(r) : InPart(c, i, x)
<1>. DEFINE G == Len(r)
            N == Len(s)
            T == {i \in 1 .. G : c[i] <= x}
<1>1. /\ c \in [1 .. G + 1 -> 1 .. N + 1] /\ G \in Nat /\ G >= 1
      /\ c[1] = 1 /\ c[G + 1] = N + 1
  BY DEF CutAt
<1>. HIDE DEF G, N
<1>2. T \subseteq Int /\ T # {} /\ IsFiniteSet(T)
  <2>1. IsFiniteSet(1 .. G)
    BY <1>1, FS_Interval
  <2>2. T \subseteq 1 .. G
    OBVIOUS
  <2>3. 1 \in T
    BY <1>1 DEF N
  <2>. HIDE DEF T
  <2>4. IsFiniteSet(T)
    BY <2>1, <2>2, FS_Subset
  <2>. QED
    BY <1>1, <2>2, <2>3, <2>4
<1>. HIDE DEF T
<1>3. PICK i \in T : \A j \in T : j <= i
  BY <1>2, GreatestKey
<1>4. i \in 1 .. G /\ c[i] <= x
  BY <1>3 DEF T
<1>5. x < c[i + 1]
  <2>1. CASE i = G
    BY <1>1, <2>1 DEF N
  <2>2. CASE i # G
    <3>1. i + 1 \in 1 .. G /\ ~(i + 1 <= i)
      BY <1>1, <1>4, <2>2
    <3>2. i + 1 \notin T
      BY <1>3, <3>1
    <3>3. ~(c[i + 1] <= x)
      BY <3>1, <3>2 DEF T
    <3>4. c[i + 1] \in Int /\ x \in Int
      BY <1>1, <3>1
    <3>. QED
      BY <3>3, <3>4
  <2>. QED
    BY <2>1, <2>2
<1>. QED
  BY <1>4, <1>5 DEF InPart, G

\* The parts are in order.
LEMMA PartOrder ==
    ASSUME NEW r, NEW s, NEW c, CutAt(r, s, c), Len(s) \in Nat, NEW x \in Int, NEW y \in Int, x <= y,
           NEW i \in 1 .. Len(r), NEW j \in 1 .. Len(r), InPart(c, i, x), InPart(c, j, y)
    PROVE  i <= j
<1>1. /\ c \in [1 .. Len(r) + 1 -> 1 .. Len(s) + 1] /\ Len(r) \in Nat
      /\ \A a, b \in 1 .. Len(r) + 1 : a < b => c[a] < c[b]
  BY DEF CutAt
<1>2. ASSUME j < i PROVE FALSE
  <2>1. j + 1 \in 1 .. Len(r) + 1 /\ i \in 1 .. Len(r) + 1 /\ (j + 1 = i \/ j + 1 < i)
    BY <1>1, <1>2
  <2>2. c[i] \in 1 .. Len(s) + 1 /\ c[j + 1] \in 1 .. Len(s) + 1
    BY <1>1, <2>1
  <2>3. j + 1 = i \/ c[j + 1] < c[i]
    BY <1>1, <2>1
  <2>4. j + 1 = i => c[j + 1] = c[i]
    OBVIOUS
  <2>5. InPart(c, i, x) /\ InPart(c, j, y)
    OBVIOUS
  <2>. HIDE DEF InPart
  <2>6. c[i] <= x /\ y < c[j + 1]
    BY <2>5 DEF InPart
  <2>. QED
    BY <2>2, <2>3, <2>4, <2>6
<1>. QED
  BY <1>1, <1>2

\* The parts number the keys that the elements number.
Grouping(g, ix, K, r, c) ==
    /\ Labels(g, K, Len(r))
    /\ \A k \in K, i \in 1 .. Len(r) : g[k] = i <=> InPart(c, i, ix[k])
CanGroup(ix, K, r, c) == \E g : Grouping(g, ix, K, r, c)
\* The parts of a numbered sequence number the keys.
LEMMA Grouped ==
    ASSUME NEW r, NEW s, NEW c, CutAt(r, s, c), Len(s) \in Nat, NEW K, NEW ix, Labels(ix, K, Len(s))
    PROVE  CanGroup(ix, K, r, c)
<1>. DEFINE G == Len(r)
            N == Len(s)
            g == [k \in K |-> CHOOSE i \in 1 .. G : InPart(c, i, ix[k])]
<1>1. /\ K \subseteq Int /\ ix \in [K -> 1 .. N]
      /\ \A j, k \in K : j < k => ix[j] <= ix[k]
      /\ \A i \in 1 .. N : \E k \in K : ix[k] = i
  BY DEF Labels
<1>2. ASSUME NEW k \in K PROVE g[k] \in 1 .. G /\ InPart(c, g[k], ix[k])
  <2>1. ix[k] \in 1 .. N
    BY <1>1
  <2>2. \E i \in 1 .. G : InPart(c, i, ix[k])
    BY <2>1, PartHas
  <2>. QED
    BY <2>2
<1>3. g \in [K -> 1 .. G]
  <2>1. g = [k \in K |-> g[k]]
    OBVIOUS
  <2>. HIDE DEF g
  <2>. QED
    BY <1>2, <2>1
<1>. HIDE DEF g
<1>4. ASSUME NEW j \in K, NEW k \in K, ix[j] <= ix[k] PROVE g[j] <= g[k]
  <2>1. ix[j] \in Int /\ ix[k] \in Int
    BY <1>1
  <2>. QED
    BY <1>2, <1>4, <2>1, PartOrder
<1>5. \A k \in K, i \in 1 .. G : g[k] = i <=> InPart(c, i, ix[k])
  <2>1. ASSUME NEW k \in K, NEW i \in 1 .. G, InPart(c, i, ix[k]) PROVE g[k] = i
    <3>1. ix[k] \in Int /\ ix[k] <= ix[k]
      BY <1>1
    <3>2. g[k] \in 1 .. G /\ InPart(c, g[k], ix[k])
      BY <1>2
    <3>3. g[k] <= i
      BY <2>1, <3>1, <3>2, PartOrder
    <3>4. i <= g[k]
      BY <2>1, <3>1, <3>2, PartOrder
    <3>. QED
      BY <3>2, <3>3, <3>4
  <2>. QED
    BY <1>2, <2>1
<1>6. ASSUME NEW i \in 1 .. G PROVE \E k \in K : g[k] = i
  <2>1. /\ c \in [1 .. G + 1 -> 1 .. N + 1] /\ G \in Nat
        /\ \A a, b \in 1 .. G + 1 : a < b => c[a] < c[b]
    BY DEF CutAt
  <2>2. i \in 1 .. G + 1 /\ i + 1 \in 1 .. G + 1 /\ i < i + 1
    BY <2>1
  <2>3. c[i] \in 1 .. N + 1 /\ c[i + 1] \in 1 .. N + 1 /\ c[i] < c[i + 1]
    BY <2>1, <2>2
  <2>4. c[i] \in 1 .. N
    BY <2>3
  <2>5. PICK k \in K : ix[k] = c[i]
    BY <1>1, <2>4
  <2>6. InPart(c, i, ix[k])
    BY <2>3, <2>5 DEF InPart
  <2>. QED
    BY <1>5, <2>6
<1>7. Labels(g, K, G)
  <2>1. G \in Nat
    BY DEF CutAt
  <2>. QED
    BY <1>1, <1>3, <1>4, <1>6, <2>1 DEF Labels
<1>. QED
  BY <1>5, <1>7 DEF Grouping, CanGroup

\* Pages numbered from left to right are a row.
LEMMA LabelRow ==
    ASSUME NEW g, NEW K, NEW G, Labels(g, K, G), NEW base \in Nat, NEW at, NEW l,
           \A k \in K : at[l][k] = base + g[k]
    PROVE  Row([i \in 1 .. G |-> base + i], at, K, l, K)
<1>. DEFINE s == [i \in 1 .. G |-> base + i]
<1>1. /\ K \subseteq Int /\ G \in Nat /\ g \in [K -> 1 .. G]
      /\ \A j, k \in K : j < k => g[j] <= g[k]
      /\ \A i \in 1 .. G : \E k \in K : g[k] = i
  BY DEF Labels
<1>2. s \in Seq(Int) /\ Len(s) = G /\ \A i \in 1 .. G : s[i] = base + i
  <2>1. s \in [1 .. G -> Int]
    BY <1>1
  <2>2. s \in Seq(Int)
    BY <1>1, <2>1, SeqIs
  <2>. QED
    BY <1>1, <2>2
<1>. HIDE DEF s
<1>3. ASSUME NEW i \in 1 .. G, NEW k \in K PROVE at[l][k] = s[i] <=> g[k] = i
  <2>1. g[k] \in 1 .. G
    BY <1>1
  <2>2. at[l][k] = base + g[k] /\ s[i] = base + i
    BY <1>2
  <2>. QED
    BY <2>1, <2>2
<1>4. \A i \in 1 .. Len(s) : \E k \in K : at[l][k] = s[i]
  BY <1>1, <1>2, <1>3
<1>5. \A k \in K : k \in K <=> \E i \in 1 .. Len(s) : at[l][k] = s[i]
  <2>1. ASSUME NEW k \in K PROVE \E i \in 1 .. Len(s) : at[l][k] = s[i]
    <3>1. g[k] \in 1 .. G
      BY <1>1
    <3>2. at[l][k] = s[g[k]]
      BY <1>3, <3>1
    <3>. QED
      BY <1>2, <3>1, <3>2
  <2>. QED
    BY <2>1
<1>6. ASSUME NEW i \in 1 .. Len(s), NEW j \in 1 .. Len(s), i < j
      PROVE  Before(Block(at, K, l, s[i]), Block(at, K, l, s[j]))
  <2>1. ASSUME NEW x \in Block(at, K, l, s[i]), NEW y \in Block(at, K, l, s[j])
        PROVE  x < y
    <3>1. x \in K /\ y \in K /\ g[x] = i /\ g[y] = j
      BY <1>2, <1>3 DEF Block
    <3>2. ~(y < x)
      BY <1>1, <1>2, <1>6, <3>1
    <3>3. x # y
      BY <1>2, <1>6, <3>1
    <3>. QED
      BY <1>1, <3>1, <3>2, <3>3
  <2>. QED
    BY <2>1 DEF Before
<1>7. K \subseteq K
  OBVIOUS
<1>8. Row(s, at, K, l, K)
  BY <1>2, <1>4, <1>5, <1>6, <1>7 DEF Row
<1>. QED
  BY <1>8 DEF s

\* The least key has the first number.
LEMMA LabelFirst ==
    ASSUME NEW g, NEW K, NEW G, Labels(g, K, G), NEW k \in K, \A j \in K : k <= j
    PROVE  g[k] = 1
<1>1. /\ K \subseteq Int /\ G \in Nat /\ g \in [K -> 1 .. G]
      /\ \A x, y \in K : x < y => g[x] <= g[y]
      /\ \A i \in 1 .. G : \E x \in K : g[x] = i
  BY DEF Labels
<1>2. g[k] \in 1 .. G
  BY <1>1
<1>3. 1 \in 1 .. G
  BY <1>1, <1>2
<1>4. PICK j \in K : g[j] = 1
  BY <1>1, <1>3
<1>5. k = j \/ k < j
  BY <1>1
<1>. QED
  BY <1>1, <1>2, <1>4, <1>5

\* The pages with the numbers of g, above base, are a new level top over the
\* level t, if there is one.
Stacked(g, K, G, base, at, at2, top, t) ==
    /\ Labels(g, K, G) /\ K \subseteq Keys /\ base \in Nat /\ top \in Nat
    /\ at2 \in [Nat -> [Int -> Int]] /\ \A k \in K : at2[top][k] = base + g[k]
    /\ top # 0 => /\ t = top - 1 /\ Grid(at, t, K, base) /\ \A l \in 0 .. t : at2[l] = at[l]
                  /\ \A j, k \in K : at[t][j] = at[t][k] => g[j] = g[k]
\* A new level of numbered pages on top of the levels below.
LEMMA LabelGrid ==
    ASSUME NEW g, NEW K, NEW G, NEW base, NEW at, NEW at2, NEW top, NEW t,
           Stacked(g, K, G, base, at, at2, top, t)
    PROVE  Grid(at2, top, K, base + G)
<1>. /\ Labels(g, K, G) /\ K \subseteq Keys /\ base \in Nat /\ top \in Nat
     /\ at2 \in [Nat -> [Int -> Int]] /\ \A k \in K : at2[top][k] = base + g[k]
  BY DEF Stacked
<1>1. /\ K \subseteq Int /\ G \in Nat /\ g \in [K -> 1 .. G]
      /\ \A j, k \in K : j < k => g[j] <= g[k]
  BY DEF Labels
<1>0. /\ top # 0 => Grid(at, t, K, base) /\ \A l \in 0 .. t : at2[l] = at[l]
      /\ top # 0 => \A j, k \in K : at[t][j] = at[t][k] => g[j] = g[k]
  BY DEF Stacked
<1>2. \A l \in 0 .. top : l = top \/ (top # 0 /\ l \in 0 .. t /\ t \in 0 .. t /\ l <= t)
  <2>1. top \in Nat /\ (top # 0 => t = top - 1)
    BY Zenon DEF Stacked
  <2>. QED
    BY <2>1
<1>3. ASSUME NEW k \in K
      PROVE  g[k] \in 1 .. G /\ at2[top][k] = base + g[k] /\ at2[top][k] \in Int /\ at2[top][k] > base
  <2>. DEFINE a == g[k]
              b == at2[top][k]
  <2>1. a \in 1 .. G
    BY <1>1
  <2>2. b = base + a /\ base \in Nat /\ G \in Nat
    BY <1>1
  <2>. HIDE DEF a, b
  <2>3. b \in Int /\ b > base
    BY <2>1, <2>2
  <2>. QED
    BY <2>1, <2>2, <2>3 DEF a, b
<1>4. ASSUME NEW l \in 0 .. top, l # top
      PROVE  /\ Grid(at, t, K, base) /\ l \in 0 .. t /\ t \in 0 .. t /\ l <= t
             /\ at2[l] = at[l]
             /\ \A k \in K : at[l][k] \in 1 .. base
             /\ \A j, k \in K : at[t][j] = at[t][k] => g[j] = g[k]
  <2>1. top # 0 /\ l \in 0 .. t /\ t \in 0 .. t /\ l <= t
    BY <1>2, <1>4
  <2>2. Grid(at, t, K, base) /\ at2[l] = at[l] /\ \A j, k \in K : at[t][j] = at[t][k] => g[j] = g[k]
    BY <1>0, <2>1
  <2>3. \A k \in K : at[l][k] \in 1 .. base
    BY <2>1, <2>2 DEF Grid
  <2>. QED
    BY <2>1, <2>2, <2>3
<1>5. ASSUME NEW l \in 0 .. top, NEW k \in K PROVE at2[l][k] \in 1 .. base + G
  <2>. DEFINE z == at2[l][k]
  <2>0. base \in Nat /\ G \in Nat
    BY <1>1
  <2>1. CASE l = top
    <3>1. g[k] \in 1 .. G /\ z = base + g[k]
      BY <1>3, <2>1, Zenon
    <3>. HIDE DEF z
    <3>2. z \in 1 .. base + G
      BY ONLY <2>0, <3>1
    <3>. QED
      BY <3>2, Zenon DEF z
  <2>2. CASE l # top
    <3>1. z \in 1 .. base
      BY <1>4, <2>2
    <3>. HIDE DEF z
    <3>2. z \in 1 .. base + G
      BY ONLY <2>0, <3>1
    <3>. QED
      BY <3>2, Zenon DEF z
  <2>. QED
    BY <2>1, <2>2
<1>6. ASSUME NEW l \in 0 .. top, NEW m \in 0 .. top, NEW j \in K, NEW k \in K, at2[l][j] = at2[m][k]
      PROVE  l = m
  <2>1. CASE l = top /\ m # top
    <3>1. at2[m][k] \in 1 .. base
      BY <1>4, <2>1
    <3>2. at2[l][j] \in Int /\ at2[l][j] > base
      BY <1>3, <2>1
    <3>. QED
      BY <1>6, <3>1, <3>2
  <2>2. CASE l # top /\ m = top
    <3>1. at2[l][j] \in 1 .. base
      BY <1>4, <2>2
    <3>2. at2[m][k] \in Int /\ at2[m][k] > base
      BY <1>3, <2>2
    <3>. QED
      BY <1>6, <3>1, <3>2
  <2>3. CASE l # top /\ m # top
    <3>1. Grid(at, t, K, base) /\ l \in 0 .. t /\ m \in 0 .. t /\ at[l][j] = at[m][k]
      BY <1>4, <1>6, <2>3
    <3>. QED
      BY <3>1, Apart
  <2>. QED
    BY <2>1, <2>2, <2>3
<1>7. ASSUME NEW l \in 0 .. top, NEW i \in K, NEW j \in K, NEW k \in K, i < j, j < k, at2[l][i] = at2[l][k]
      PROVE  at2[l][j] = at2[l][i]
  <2>1. CASE l = top
    <3>1. g[i] <= g[j] /\ g[j] <= g[k]
      BY <1>1, <1>7
    <3>2. base + g[i] = base + g[k]
      BY <1>3, <1>7, <2>1
    <3>3. g[i] \in 1 .. G /\ g[j] \in 1 .. G /\ g[k] \in 1 .. G
      BY <1>1
    <3>4. g[j] = g[i]
      <4>. DEFINE gi == g[i]
                  gj == g[j]
                  gk == g[k]
      <4>1. gi <= gj /\ gj <= gk /\ base + gi = base + gk /\ gi \in 1 .. G /\ gj \in 1 .. G /\ gk \in 1 .. G
        BY <3>1, <3>2, <3>3
      <4>. HIDE DEF gi, gj, gk
      <4>2. gj = gi
        BY <1>1, <4>1
      <4>. QED
        BY <4>2 DEF gi, gj
    <3>. QED
      BY <1>3, <2>1, <3>4
  <2>2. CASE l # top
    <3>1. Grid(at, t, K, base) /\ l \in 0 .. t /\ at[l][i] = at[l][k] /\ at2[l] = at[l]
      BY <1>4, <1>7, <2>2
    <3>2. at[l][j] = at[l][i]
      BY <1>7, <3>1, Convex
    <3>. QED
      BY <3>1, <3>2
  <2>. QED
    BY <2>1, <2>2
<1>8. ASSUME NEW l \in 0 .. top, NEW m \in 0 .. top, NEW j \in K, NEW k \in K, l <= m, at2[l][j] = at2[l][k]
      PROVE  at2[m][j] = at2[m][k]
  <2>1. CASE l = m
    BY <1>8, <2>1
  <2>2. CASE l # m /\ m = top
    <3>1. /\ Grid(at, t, K, base) /\ l \in 0 .. t /\ t \in 0 .. t /\ l <= t
          /\ at[l][j] = at[l][k] /\ j \in K /\ k \in K
      BY <1>4, <1>8, <2>2
    <3>2. at[t][j] = at[t][k]
      BY ONLY <3>1, Nested
    <3>3. g[j] = g[k]
      BY <1>4, <2>2, <3>2
    <3>. QED
      BY <1>3, <2>2, <3>3
  <2>3. CASE l # m /\ m # top
    <3>0. l # top
      BY <1>8, <2>3
    <3>1. Grid(at, t, K, base) /\ l \in 0 .. t /\ m \in 0 .. t /\ at[l][j] = at[l][k]
          /\ j \in K /\ k \in K /\ l <= m
      BY <1>4, <1>8, <2>3, <3>0
    <3>2. at[m][j] = at[m][k]
      BY ONLY <3>1, Nested
    <3>3. at2[m] = at[m]
      BY <1>4, <2>3
    <3>. QED
      BY <3>2, <3>3
  <2>. QED
    BY <2>1, <2>2, <2>3
<1>9. base + G \in Nat
  BY <1>1
<1>10. K \subseteq Keys /\ top \in Nat /\ at2 \in [Nat -> [Int -> Int]]
  OBVIOUS
<1>. QED
  <2>1. \A l \in 0 .. top, k \in K : at2[l][k] \in 1 .. base + G
    BY <1>5
  <2>2. \A l, m \in 0 .. top, j, k \in K : at2[l][j] = at2[m][k] => l = m
    BY <1>6
  <2>3. \A l \in 0 .. top, i, j, k \in K :
         i < j /\ j < k /\ at2[l][i] = at2[l][k] => at2[l][j] = at2[l][i]
    BY <1>7
  <2>4. \A l, m \in 0 .. top, j, k \in K :
         l <= m /\ at2[l][j] = at2[l][k] => at2[m][j] = at2[m][k]
    BY <1>8
  <2>. QED
    BY ONLY <1>9, <1>10, <2>1, <2>2, <2>3, <2>4 DEF Grid

----------------------------------------------------------------------------
(* The leaves of bulk_build *)

\* The position of the entry of each key.
Places(ix, s, K) ==
    /\ Labels(ix, K, Len(s))
    /\ \A x \in 1 .. Len(s) : s[x].key \in K /\ ix[s[x].key] = x
    /\ \A k \in K : s[ix[k]].key = k
HasPlaces(s, K) == \E ix : Places(ix, s, K)
\* Every entry has its position.
LEMMA HeldPlaces ==
    ASSUME NEW s, NEW M, NEW K, K \subseteq Int, Held(s, M, K)
    PROVE  HasPlaces(s, K)
<1>. DEFINE N == Len(s)
            ix == [k \in K |-> CHOOSE x \in 1 .. N : s[x].key = k]
<1>1. /\ s \in Seq(Entries) /\ N \in Nat
      /\ \A i, j \in 1 .. N : i < j => s[i].key < s[j].key
      /\ \A i \in 1 .. N : s[i].key \in K
      /\ \A k \in K : \E i \in 1 .. N : s[i].key = k
  BY DEF Held
<1>2. ASSUME NEW k \in K PROVE ix[k] \in 1 .. N /\ s[ix[k]].key = k
  <2>1. \E i \in 1 .. N : s[i].key = k
    BY <1>1
  <2>. QED
    BY <2>1
<1>3. ix \in [K -> 1 .. N]
  <2>1. ix = [k \in K |-> ix[k]]
    OBVIOUS
  <2>. HIDE DEF ix
  <2>. QED
    BY <1>2, <2>1
<1>. HIDE DEF ix, N
<1>4. ASSUME NEW i \in 1 .. N, NEW j \in 1 .. N, s[i].key = s[j].key PROVE i = j
  <2>1. s[i].key \in Int
    BY <1>1
  <2>2. ~(s[i].key < s[j].key) /\ ~(s[j].key < s[i].key)
    BY <1>4, <2>1
  <2>3. ~(i < j) /\ ~(j < i)
    BY <1>1, <2>2
  <2>. QED
    BY <1>1, <2>3
<1>5. ASSUME NEW j \in K, NEW k \in K, j < k PROVE ix[j] <= ix[k]
  <2>1. ix[j] \in 1 .. N /\ ix[k] \in 1 .. N /\ s[ix[j]].key = j /\ s[ix[k]].key = k
    BY <1>2
  <2>2. ~(k < j)
    BY <1>5
  <2>3. ~(ix[k] < ix[j])
    BY <1>1, <2>1, <2>2
  <2>. QED
    BY <1>1, <2>1, <2>3
<1>6. ASSUME NEW x \in 1 .. N PROVE s[x].key \in K /\ ix[s[x].key] = x
  <2>1. s[x].key \in K
    BY <1>1
  <2>2. ix[s[x].key] \in 1 .. N /\ s[ix[s[x].key]].key = s[x].key
    BY <1>2, <2>1
  <2>. QED
    BY <1>4, <2>1, <2>2
<1>7. Labels(ix, K, N)
  <2>1. ASSUME NEW x \in 1 .. N PROVE \E k \in K : ix[k] = x
    BY <1>6
  <2>. QED
    BY <1>1, <1>3, <1>5, <2>1 DEF Labels
<1>8. Places(ix, s, K)
  BY <1>2, <1>6, <1>7 DEF Places, N
<1>. QED
  BY <1>8 DEF HasPlaces

\* The first chunk, or leaf, is followed by the next.
LEMMA LabelNext ==
    ASSUME NEW g, NEW K, NEW G, Labels(g, K, G), K \subseteq Keys, NEW at, \A k \in K : at[0][k] = g[k],
           NEW i \in 1 .. G
    PROVE  NextOK(at, K, i, IF i < G THEN i + 1 ELSE 0)
<1>1. /\ K \subseteq Int /\ G \in Nat /\ g \in [K -> 1 .. G]
      /\ \A x, y \in K : x < y => g[x] <= g[y]
      /\ \A x \in 1 .. G : \E y \in K : g[y] = x
  BY DEF Labels
<1>2. CASE ~(i < G)
  <2>1. ASSUME NEW j \in Block(at, K, 0, i), NEW k \in K, j < k PROVE at[0][k] = i
    <3>1. j \in K /\ g[j] = i
      BY DEF Block
    <3>2. g[j] <= g[k] /\ g[k] \in 1 .. G
      BY <1>1, <2>1, <3>1
    <3>3. g[k] = i
      BY <1>1, <1>2, <3>1, <3>2
    <3>. QED
      BY <3>3
  <2>. QED
    BY <1>2, <2>1 DEF NextOK
<1>3. CASE i < G
  <2>. DEFINE S == {k \in K : g[k] = i + 1}
  <2>1. i + 1 \in 1 .. G
    BY <1>1, <1>3
  <2>2. S \subseteq Int /\ S # {}
    BY <1>1, <2>1
  <2>3. S \subseteq Keys
    OBVIOUS
  <2>. HIDE DEF S
  <2>4. IsFiniteSet(S)
    BY <2>3, KeysAre, FS_Subset
  <2>5. PICK k \in S : \A x \in S : k <= x
    BY <2>2, <2>4, LeastKey
  <2>6. k \in K /\ g[k] = i + 1 /\ \A x \in K : g[x] = i + 1 => k <= x
    BY <2>5 DEF S
  <2>7. ASSUME NEW j \in Block(at, K, 0, i)
        PROVE  /\ j < k /\ i + 1 = at[0][k] /\ i + 1 # i
               /\ \A x \in K : j < x /\ x < k => at[0][x] = i
    <3>1. j \in K /\ g[j] = i
      BY DEF Block
    <3>2. j < k
      <4>1. ~(k < j) /\ k # j
        BY <1>1, <2>6, <3>1
      <4>2. j \in Int /\ k \in Int
        BY <1>1, <2>6, <3>1
      <4>. QED
        BY <4>1, <4>2
    <3>3. ASSUME NEW x \in K, j < x, x < k PROVE at[0][x] = i
      <4>1. i <= g[x] /\ g[x] <= i + 1
        BY <1>1, <2>6, <3>1, <3>3
      <4>2. x \in Int /\ k \in Int
        BY <1>1, <2>6
      <4>3. g[x] # i + 1
        BY <2>6, <3>3, <4>2
      <4>4. g[x] \in 1 .. G
        BY <1>1
      <4>5. g[x] = i
        BY <4>1, <4>3, <4>4
      <4>. QED
        BY <4>5
    <3>. QED
      BY <2>6, <3>2, <3>3
  <2>8. NextOK(at, K, i, i + 1)
    BY <2>6, <2>7 DEF NextOK
  <2>. QED
    BY <1>3, <2>8
<1>. QED
  BY <1>2, <1>3

\* The entries s of the map M, cut into leaves.
Leaved(pg, M) ==
    /\ FileOK(pg) /\ Len(pg) >= 1
    /\ \E at : /\ Tree(pg, at, 0, M) /\ FirstOK(at, DOMAIN M, 1)
               /\ Row([i \in 1 .. Len(pg) |-> i], at, DOMAIN M, 0, DOMAIN M)
\* The leaves that bulk_build writes are a level of a tree.
LEMMA LeavesTree ==
    ASSUME NEW s, NEW M, DOMAIN M \subseteq Keys, DOMAIN M # {}, Held(s, M, DOMAIN M)
    PROVE  Leaved(BulkLeaves(s), M)
<1>. DEFINE K == DOMAIN M
            N == Len(s)
            r == BulkChunks(s)
            G == Len(r)
            pg == BulkLeaves(s)
<1>1. s \in Seq(Entries) /\ N \in Nat /\ N >= 1 /\ K \subseteq Int
  <2>1. PICK k \in K : TRUE
    OBVIOUS
  <2>2. s \in Seq(Entries) /\ N \in Nat /\ \E i \in 1 .. N : s[i].key = k
    BY DEF Held
  <2>. QED
    BY <2>2, KeysAre
<1>2. PICK c : CutAt(r, s, c)
  BY <1>1, ChunksCut DEF AreRuns
<1>3. /\ c \in [1 .. G + 1 -> 1 .. N + 1] /\ G \in Nat /\ G >= 1
      /\ \A i, j \in 1 .. G + 1 : i < j => c[i] < c[j]
      /\ \A i \in 1 .. G : r[i] = SubSeq(s, c[i], c[i + 1] - 1)
  BY <1>2 DEF CutAt
<1>4. pg = [i \in 1 .. G |-> Leaf(i, r[i], IF i < G THEN i + 1 ELSE 0)]
  <2>1. s # <<>>
    BY <1>1
  <2>. HIDE DEF r
  <2>. QED
    BY <2>1 DEF BulkLeaves, r
<1>5. PICK ix : Places(ix, s, K)
  BY <1>1, HeldPlaces DEF HasPlaces
<1>6. /\ Labels(ix, K, N) /\ \A x \in 1 .. N : s[x].key \in K /\ ix[s[x].key] = x
      /\ \A k \in K : s[ix[k]].key = k /\ ix[k] \in 1 .. N
  BY <1>5 DEF Places, Labels
<1>. HIDE DEF r, N, K, pg
<1>7. PICK g : Grouping(g, ix, K, r, c)
  <2>1. CutAt(r, s, c) /\ Labels(ix, K, Len(s)) /\ Len(s) \in Nat
    BY <1>1, <1>2, <1>6 DEF N
  <2>2. CanGroup(ix, K, r, c)
    BY ONLY <2>1, Grouped
  <2>. QED
    BY <2>2 DEF CanGroup
<1>8. /\ Labels(g, K, G) /\ g \in [K -> 1 .. G]
      /\ \A k \in K, i \in 1 .. G : g[k] = i <=> InPart(c, i, ix[k])
  BY <1>7 DEF Grouping, Labels
<1>. HIDE DEF G
<1>. DEFINE at == [l \in Nat |-> [k \in Int |-> IF k \in K THEN g[k] ELSE 0]]
<1>9. at \in [Nat -> [Int -> Int]] /\ \A k \in K : at[0][k] = g[k]
  BY <1>1, <1>3, <1>8
<1>. HIDE DEF at
<1>10. K \subseteq Keys
  BY DEF K
<1>11. Grid(at, 0, K, G)
  <2>. DEFINE z == 0
              t == 0
  <2>0. z \in Nat /\ t \in Nat /\ ~(t # 0) /\ (\A k \in K : at[t][k] = z + g[k])
    BY <1>8, <1>9
  <2>. HIDE DEF z, t
  <2>1. Stacked(g, K, G, z, at, at, t, t)
    BY <1>8, <1>9, <1>10, <2>0 DEF Stacked
  <2>2. Grid(at, t, K, z + G)
    BY <2>1, LabelGrid
  <2>. QED
    BY <1>3, <2>2 DEF z, t
<1>12. ASSUME NEW i \in 1 .. G
       PROVE  Held(r[i], M, Block(at, K, 0, i))
  <2>. DEFINE a == c[i]
              b == c[i + 1] - 1
  <2>1. i \in 1 .. G + 1 /\ i + 1 \in 1 .. G + 1 /\ i < i + 1
    BY <1>3
  <2>2. c[i] \in 1 .. N + 1 /\ c[i + 1] \in 1 .. N + 1 /\ c[i] < c[i + 1]
    BY <1>3, <2>1
  <2>3. a \in Int /\ b \in Int /\ 1 <= a /\ b <= N /\ a <= b + 1 /\ r[i] = SubSeq(s, a, b)
    <3>1. r[i] = SubSeq(s, a, b)
      BY <1>3
    <3>. DEFINE x == c[i]
                y == c[i + 1]
    <3>2. x \in 1 .. N + 1 /\ y \in 1 .. N + 1 /\ x < y
      BY <2>2
    <3>. HIDE DEF x, y
    <3>3. x \in Int /\ y - 1 \in Int /\ 1 <= x /\ y - 1 <= N /\ x <= y - 1 + 1
      BY <1>1, <3>2
    <3>. QED
      BY <3>1, <3>3 DEF x, y
  <2>4. \A x \in 1 .. N : x \in a .. b <=> InPart(c, i, x)
    BY <2>2 DEF InPart
  <2>5. \A x : x \in a .. b => x \in 1 .. N
    BY <1>1, <2>3
  <2>. HIDE DEF a, b
  <2>6. Held(SubSeq(s, a, b), M, KeysOf(SubSeq(s, a, b))) /\ KeysOf(SubSeq(s, a, b)) = {s[x].key : x \in a .. b}
    <3>1. Held(s, M, DOMAIN M) /\ b <= Len(s)
      BY <2>3 DEF N
    <3>. QED
      BY <2>3, <3>1, HeldPart
  <2>7. \A k \in K : k \in Block(at, K, 0, i) <=> ix[k] \in a .. b
    BY <1>6, <1>8, <1>9, <2>4 DEF Block
  <2>8. {s[x].key : x \in a .. b} = Block(at, K, 0, i)
    <3>1. ASSUME NEW x \in a .. b PROVE s[x].key \in Block(at, K, 0, i)
      BY <1>6, <2>5, <2>7
    <3>2. ASSUME NEW k \in Block(at, K, 0, i) PROVE k \in {s[x].key : x \in a .. b}
      <4>1. k \in K
        BY DEF Block
      <4>2. ix[k] \in a .. b /\ s[ix[k]].key = k
        BY <1>6, <2>7, <4>1
      <4>. QED
        BY <4>2
    <3>. QED
      BY <3>1, <3>2
  <2>. QED
    BY <2>3, <2>6, <2>8
<1>13. Len(pg) = G /\ FileOK(pg)
  <2>1. pg \in Seq(AnyPage) /\ Len(pg) = G
    <3>1. ASSUME NEW i \in 1 .. G PROVE pg[i] \in AnyPage
      <4>1. r[i] \in Seq(Entries) /\ i \in Nat /\ (IF i < G THEN i + 1 ELSE 0) \in Nat
        BY <1>12 DEF Held
      <4>2. pg[i] = Leaf(i, r[i], IF i < G THEN i + 1 ELSE 0)
        BY <1>4
      <4>. QED
        BY <4>1, <4>2 DEF Leaf, AnyPage
    <3>2. pg = [i \in 1 .. G |-> pg[i]] /\ Len(pg) = G
      BY <1>3, <1>4
    <3>3. pg \in [1 .. G -> AnyPage]
      BY <3>1, <3>2
    <3>. QED
      BY <1>3, <3>2, <3>3, SeqIs
  <2>2. ASSUME NEW i \in 1 .. G PROVE PageTyped(pg[i], i, G)
    <3>1. r[i] \in Seq(Entries) /\ i \in Nat /\ (IF i < G THEN i + 1 ELSE 0) \in 0 .. G
      BY <1>3, <1>12 DEF Held
    <3>2. pg[i] = Leaf(i, r[i], IF i < G THEN i + 1 ELSE 0)
      BY <1>4
    <3>. DEFINE e == r[i]
                x == IF i < G THEN i + 1 ELSE 0
    <3>. HIDE DEF e, x
    <3>3. PageTyped(Leaf(i, e, x), i, G)
      BY <1>3, <3>1, LeafTyped DEF e, x
    <3>. QED
      BY <3>2, <3>3 DEF e, x
  <2>. QED
    BY <2>1, <2>2 DEF FileOK
<1>14. Tree(pg, at, 0, M)
  <2>1. ASSUME NEW k \in K PROVE PageOK(pg[at[0][k]], at[0][k], 0, at, M)
    <3>. DEFINE i == g[k]
                e == r[i]
                x == IF i < G THEN i + 1 ELSE 0
    <3>1. i \in 1 .. G /\ at[0][k] = i
      BY <1>8, <1>9
    <3>. HIDE DEF i
    <3>2. pg[i] = Leaf(i, e, x)
      BY <1>4, <3>1
    <3>3. Held(e, M, Block(at, K, 0, i))
      BY <1>12, <3>1
    <3>4. NextOK(at, K, i, x)
      <4>1. Labels(g, K, G) /\ K \subseteq Keys /\ (\A y \in K : at[0][y] = g[y]) /\ i \in 1 .. G
        BY <1>8, <1>9, <1>10, <3>1
      <4>. HIDE DEF x
      <4>2. NextOK(at, K, i, IF i < G THEN i + 1 ELSE 0)
        BY ONLY <4>1, LabelNext
      <4>. QED
        BY <4>2 DEF x
    <3>. HIDE DEF e, x
    <3>5. PageOK(Leaf(i, e, x), i, 0, at, M)
      BY <3>3, <3>4, LeafIs DEF K
    <3>. QED
      BY <3>1, <3>2, <3>5
  <2>2. Layer(pg, at, M, 0)
    BY <2>1 DEF Layer, K
  <2>3. \A l \in 0 .. 0 : l = 0
    OBVIOUS
  <2>. QED
    BY <1>11, <1>13, <2>2, <2>3 DEF Tree, K
<1>15. FirstOK(at, K, 1)
  <2>1. ASSUME NEW k \in K, \A j \in K : k <= j PROVE 1 = at[0][k]
    BY <1>8, <1>9, <2>1, LabelFirst
  <2>. QED
    BY <2>1 DEF FirstOK
<1>16. Row([i \in 1 .. Len(pg) |-> i], at, K, 0, K)
  <2>. DEFINE z == 0
  <2>0. z \in Nat /\ (\A k \in K : at[0][k] = z + g[k])
    BY <1>8, <1>9
  <2>. HIDE DEF z
  <2>1. Row([i \in 1 .. G |-> z + i], at, K, 0, K)
    <3>1. Labels(g, K, G) /\ z \in Nat /\ (\A k \in K : at[0][k] = z + g[k])
      BY <1>8, <2>0
    <3>. QED
      BY ONLY <3>1, LabelRow
  <2>2. [i \in 1 .. G |-> z + i] = [i \in 1 .. Len(pg) |-> i]
    BY <1>13 DEF z
  <2>. QED
    BY <2>1, <2>2
<1>. QED
  BY <1>3, <1>13, <1>14, <1>15, <1>16 DEF Leaved, K, pg

\* The entries bulk_build makes of a set of keys.
LEMMA BulkEntries ==
    ASSUME NEW S, S \subseteq Keys, NEW r \in Rids, NEW keys, keys = InOrder(S),
           NEW s, s = [i \in 1 .. Len(keys) |-> [key |-> keys[i], rid |-> r]],
           NEW M, M = [k \in S |-> r]
    PROVE  /\ Held(s, M, S) /\ IsMap(M) /\ DOMAIN M = S
           /\ Len(keys) = Cardinality(S) /\ Len(keys) \in Nat /\ Len(s) = Len(keys)
<1>. DEFINE N == Len(keys)
<1>1. S \subseteq Int /\ IsFiniteSet(S)
  <2>1. IsFiniteSet(S)
    BY KeysAre, FS_Subset
  <2>. QED
    BY <2>1, KeysAre
<1>2. /\ keys \in Seq(S) /\ N = Cardinality(S) /\ N \in Nat
      /\ \A a \in S : \E i \in 1 .. N : keys[i] = a
      /\ \A i, j \in 1 .. N : i < j => keys[i] < keys[j]
  BY <1>1, InOrderFacts
<1>3. DOMAIN M = S /\ IsMap(M) /\ \A k \in S : M[k] = r
  BY DEF IsMap
<1>. HIDE DEF N
<1>4. ASSUME NEW i \in 1 .. N PROVE s[i] \in Entries /\ s[i].key = keys[i] /\ s[i].rid = r /\ keys[i] \in S
  <2>1. keys[i] \in S
    BY <1>2 DEF N
  <2>2. s[i] = [key |-> keys[i], rid |-> r]
    BY DEF N
  <2>. QED
    BY <2>1, <2>2 DEF Entries
<1>5. s \in Seq(Entries) /\ Len(s) = N
  <2>1. s = [i \in 1 .. N |-> s[i]]
    BY DEF N
  <2>2. s \in [1 .. N -> Entries]
    BY <1>4, <2>1
  <2>. HIDE DEF N
  <2>3. s \in Seq(Entries)
    BY <1>2, <2>2, SeqIs
  <2>4. Len(s) = N
    BY ONLY <1>2, <2>2
  <2>. QED
    BY <2>3, <2>4
<1>6. Held(s, M, S)
  <2>1. \A i, j \in 1 .. Len(s) : i < j => s[i].key < s[j].key
    BY <1>2, <1>4, <1>5, SMTT(20)
  <2>2. \A i \in 1 .. Len(s) : s[i].key \in S /\ s[i].rid = M[s[i].key]
    BY <1>3, <1>4, <1>5
  <2>3. \A k \in S : \E i \in 1 .. Len(s) : s[i].key = k
    <3>1. ASSUME NEW k \in S PROVE \E i \in 1 .. Len(s) : s[i].key = k
      <4>1. PICK i \in 1 .. N : keys[i] = k
        BY <1>2
      <4>. QED
        BY <1>4, <1>5, <4>1
    <3>. QED
      BY <3>1
  <2>. QED
    BY <1>5, <2>1, <2>2, <2>3 DEF Held
<1>. QED
  BY <1>2, <1>3, <1>5, <1>6 DEF N

\* No entries: one empty leaf.
LEMMA NoLeaves ==
    ASSUME NEW s, s = <<>>
    PROVE  /\ BulkLeaves(s) = <<Leaf(1, <<>>, 0)>> /\ FileOK(BulkLeaves(s)) /\ Len(BulkLeaves(s)) = 1
           /\ BulkLeaves(s)[1] = Leaf(1, <<>>, 0)
<1>. DEFINE leaf == Leaf(1, <<>>, 0)
            chunks == <<(<<>>)>>
<1>1. BulkLeaves(s) = [i \in 1 .. Len(chunks) |-> Leaf(i, chunks[i], IF i < Len(chunks) THEN i + 1 ELSE 0)]
  BY DEF BulkLeaves
<1>2. Len(chunks) = 1 /\ chunks[1] = <<>>
  OBVIOUS
<1>. HIDE DEF chunks
<1>3. BulkLeaves(s) = [i \in 1 .. 1 |-> leaf]
  <2>1. \A i \in 1 .. 1 : i = 1
    OBVIOUS
  <2>2. \A i \in 1 .. 1 : Leaf(i, chunks[i], IF i < 1 THEN i + 1 ELSE 0) = leaf
    BY <1>2, <2>1
  <2>. HIDE DEF leaf
  <2>. QED
    BY <1>1, <1>2, <2>2
<1>4. PageTyped(leaf, 1, 1)
  <2>1. <<>> \in Seq(Entries) /\ 0 \in 0 .. 1 /\ 1 \in Nat
    OBVIOUS
  <2>. QED
    BY <2>1, LeafTyped
<1>. HIDE DEF leaf
<1>. DEFINE q == [i \in 1 .. 1 |-> leaf]
<1>5. q = <<leaf>> /\ q \in Seq(AnyPage) /\ Len(q) = 1 /\ q[1] = leaf
  BY <1>4 DEF PageTyped
<1>. HIDE DEF q
<1>6. FileOK(q)
  BY <1>4, <1>5 DEF FileOK
<1>. QED
  BY <1>3, <1>5, <1>6 DEF q, leaf

\* bulk_build keeps the invariant.
LEMMA BulkBuildInv ==
    ASSUME TreeInv, NEW S \in BulkKeys, NEW r \in Rids, bulk_build(S, r)
    PROVE  TreeInv'
<1>. DEFINE keys == InOrder(S)
            s == [i \in 1 .. Len(keys) |-> [key |-> keys[i], rid |-> r]]
            q == BulkLeaves(s)
            M == [k \in S |-> r]
            lv == [i \in 1 .. Len(q) |-> i]
            st == [State EXCEPT !.pages = q, !.root = 1, !.first = 1]
<1>1. /\ pages = <<>> /\ SetTree(st) /\ size' = Len(keys)
      /\ todo' = [fn |-> "bulk_level", level |-> lv]
      /\ op' = "bulk" /\ contents' = M /\ failed' = failed
  BY DEF bulk_build
<1>2. failed = FALSE /\ S \subseteq Keys
  BY <1>1, IndexAssumption DEF TreeInv, Typed, IndexAssumption
<1>. HIDE DEF q
<1>3. pages' = q /\ root' = 1 /\ first' = 1
  <2>1. st = [pages |-> q, root |-> 1, first |-> 1, err |-> "none", call |-> NoCall]
    BY StateSet
  <2>2. st.pages = q /\ st.root = 1 /\ st.first = 1
    BY ONLY <2>1
  <2>. HIDE DEF st
  <2>. QED
    BY <1>1, <2>2 DEF SetTree
<1>4. /\ Held(s, M, S) /\ IsMap(M) /\ DOMAIN M = S
      /\ Len(keys) = Cardinality(S) /\ Len(keys) \in Nat /\ Len(s) = Len(keys)
  BY <1>2, BulkEntries
<1>. HIDE DEF keys, M, st
<1>5. FileOK(q) /\ Len(q) \in Nat /\ Len(q) >= 1 /\ BulkWaits(pages', root', first', todo', M)
  <2>0. todo'.fn = "bulk_level" /\ todo'.level = lv
    <3>. HIDE DEF lv
    <3>. QED
      BY <1>1
  <2>1. CASE S = {}
    <3>1. s = <<>>
      <4>1. Len(keys) = 0
        BY <1>4, <2>1, FS_EmptySet
      <4>. QED
        BY <4>1
    <3>. HIDE DEF s
    <3>2. FileOK(q) /\ Len(q) = 1 /\ q[1] = Leaf(1, <<>>, 0)
      BY <3>1, NoLeaves DEF q
    <3>3. lv = <<1>>
      BY <3>2
    <3>. HIDE DEF lv
    <3>4. DOMAIN M = {} /\ 1 \in 1 .. Len(q)
      BY <1>4, <2>1, <3>2
    <3>. QED
      BY <1>3, <2>0, <3>2, <3>3, <3>4 DEF BulkWaits
  <2>2. CASE S # {}
    <3>. HIDE DEF s
    <3>1. Leaved(q, M)
      BY <1>2, <1>4, <2>2, LeavesTree DEF q
    <3>2. PICK at : /\ Tree(q, at, 0, M) /\ FirstOK(at, DOMAIN M, 1)
                    /\ Row(lv, at, DOMAIN M, 0, DOMAIN M)
      BY <3>1 DEF Leaved
    <3>3. FileOK(q) /\ Len(q) >= 1 /\ Len(q) \in Nat
      BY <3>1 DEF Leaved, FileOK
    <3>. HIDE DEF lv
    <3>. QED
      BY <1>3, <2>0, <3>2, <3>3 DEF BulkWaits
  <2>. QED
    BY <2>1, <2>2
<1>6. pages' # <<>>
  <2>1. Len(q) # 0 /\ Len(<<>>) = 0
    BY <1>5
  <2>. QED
    BY <1>3, <2>1
<1>. HIDE DEF s, lv
<1>7. Typed'
  <2>1. 1 \in 1 .. Len(q)
    BY <1>5
  <2>. QED
    BY <1>1, <1>2, <1>3, <1>4, <1>5, <1>6, <2>1 DEF Typed
<1>8. InBulk'
  BY <1>1, <1>4, <1>5 DEF InBulk
<1>9. AtRest' /\ InInsert' /\ InErase'
  BY <1>1 DEF AtRest, InInsert, InErase
<1>. QED
  BY <1>7, <1>8, <1>9 DEF TreeInv

----------------------------------------------------------------------------
(* The next level of bulk_build *)

\* The position of the page above each key.
Indexed(ix, s, at, K, l) ==
    /\ Labels(ix, K, Len(s))
    /\ \A k \in K, i \in 1 .. Len(s) : at[l][k] = s[i] <=> i = ix[k]
HasIndex(s, at, K, l) == \E ix : Indexed(ix, s, at, K, l)
\* Every key has the position of its page in a row.
LEMMA RowIndex ==
    ASSUME NEW s, NEW at, NEW K, K \subseteq Int, NEW l, Row(s, at, K, l, K)
    PROVE  HasIndex(s, at, K, l)
<1>. DEFINE N == Len(s)
            ix == [k \in K |-> CHOOSE i \in 1 .. N : at[l][k] = s[i]]
<1>1. /\ N \in Nat
      /\ \A i \in 1 .. N : \E k \in K : at[l][k] = s[i]
      /\ \A k \in K : \E i \in 1 .. N : at[l][k] = s[i]
      /\ \A i, j \in 1 .. N : i < j => Before(Block(at, K, l, s[i]), Block(at, K, l, s[j]))
  BY DEF Row
<1>2. ASSUME NEW k \in K PROVE ix[k] \in 1 .. N /\ at[l][k] = s[ix[k]]
  <2>1. \E i \in 1 .. N : at[l][k] = s[i]
    BY <1>1
  <2>. QED
    BY <2>1
<1>3. ix \in [K -> 1 .. N]
  <2>1. ix = [k \in K |-> ix[k]]
    OBVIOUS
  <2>. HIDE DEF ix
  <2>. QED
    BY <1>2, <2>1
<1>. HIDE DEF ix, N
<1>4. ASSUME NEW i \in 1 .. N, NEW j \in 1 .. N, NEW x \in K, NEW y \in K, at[l][x] = s[i], at[l][y] = s[j], i < j
      PROVE  x < y
  <2>1. Before(Block(at, K, l, s[i]), Block(at, K, l, s[j]))
    BY <1>1, <1>4
  <2>2. x \in Block(at, K, l, s[i]) /\ y \in Block(at, K, l, s[j])
    BY <1>4 DEF Block
  <2>. QED
    BY <2>1, <2>2 DEF Before
<1>5. ASSUME NEW k \in K, NEW i \in 1 .. N, at[l][k] = s[i] PROVE i = ix[k]
  <2>1. ix[k] \in 1 .. N /\ at[l][k] = s[ix[k]] /\ ~(k < k)
    BY <1>2
  <2>2. ~(i < ix[k]) /\ ~(ix[k] < i)
    BY <1>4, <1>5, <2>1
  <2>. QED
    BY <1>1, <2>1, <2>2
<1>6. ASSUME NEW j \in K, NEW k \in K, j < k PROVE ix[j] <= ix[k]
  <2>1. ix[j] \in 1 .. N /\ ix[k] \in 1 .. N /\ at[l][j] = s[ix[j]] /\ at[l][k] = s[ix[k]]
    BY <1>2
  <2>2. ~(k < j)
    BY <1>6
  <2>3. ~(ix[k] < ix[j])
    BY <1>4, <2>1, <2>2
  <2>. QED
    BY <1>1, <2>1, <2>3
<1>7. Labels(ix, K, N)
  <2>1. ASSUME NEW i \in 1 .. N PROVE \E k \in K : ix[k] = i
    BY <1>1, <1>5
  <2>. QED
    BY <1>1, <1>3, <1>6, <2>1 DEF Labels
<1>8. Indexed(ix, s, at, K, l)
  BY <1>2, <1>5, <1>7 DEF Indexed, N
<1>. QED
  BY <1>8 DEF HasIndex

\* A page depends on the levels of its block and of its children.
LEMMA PageSame ==
    ASSUME NEW p, NEW q, NEW l, NEW at, NEW at2, NEW M, PageOK(p, q, l, at, M), at2[l] = at[l],
           l # 0 => at2[l - 1] = at[l - 1]
    PROVE  PageOK(p, q, l, at2, M)
<1>. DEFINE K == DOMAIN M
<1>1. \A x : Block(at2, K, l, x) = Block(at, K, l, x)
  BY DEF Block
<1>2. CASE l = 0
  <2>1. LeafOK(p, q, at, M)
    BY <1>2 DEF PageOK
  <2>2. NextOK(at2, K, q, p.next)
    <3>1. NextOK(at, K, q, p.next) /\ at2[0] = at[0] /\ Block(at2, K, 0, q) = Block(at, K, 0, q)
      BY <1>1, <1>2, <2>1 DEF LeafOK
    <3>. QED
      BY <3>1 DEF NextOK
  <2>3. p = Leaf(q, p.entries, p.next) /\ Held(p.entries, M, Block(at2, K, 0, q))
    BY <1>1, <1>2, <2>1 DEF LeafOK
  <2>. QED
    BY <1>2, <2>2, <2>3 DEF PageOK, LeafOK
<1>3. CASE l # 0
  <2>. DEFINE d == l - 1
  <2>1. InnerOK(p, q, l, at, K)
    BY <1>3 DEF PageOK
  <2>2. p = Inner(q, p.children, p.keys) /\ Row(p.children, at, K, d, Block(at, K, l, q))
        /\ Seps(p.keys, p.children, at, K, d)
    BY <2>1 DEF InnerOK
  <2>3. at2[d] = at[d]
    BY <1>3
  <2>. HIDE DEF d
  <2>4. Row(p.children, at2, K, d, Block(at, K, l, q)) /\ Seps(p.keys, p.children, at2, K, d)
    BY <2>2, <2>3, SameLevel
  <2>5. Block(at2, K, l, q) = Block(at, K, l, q)
    BY <1>1
  <2>6. InnerOK(p, q, l, at2, K)
    BY <2>2, <2>4, <2>5 DEF InnerOK, d
  <2>. QED
    BY <1>3, <2>6 DEF PageOK
<1>. QED
  BY <1>2, <1>3

\* A level of which s2 are the pages, from left to right, is the top of a tree.
Raised(pg2, s2, M, f) ==
    \E at2, top2 : /\ Tree(pg2, at2, top2, M) /\ Row(s2, at2, DOMAIN M, top2, DOMAIN M)
                   /\ FirstOK(at2, DOMAIN M, f)
\* The inner pages new above the pages s.
NextLevel(st, s, groups, new, M, f) ==
    /\ \A i \in 1 .. Len(groups) : /\ Rebuildable(st, groups[i])
                                   /\ PageTyped(new[i], Len(st.pages) + i, Len(st.pages))
    /\ Len(groups) \in Nat /\ Len(groups) >= 1 /\ Len(new) = Len(groups) /\ new \in Seq(AnyPage)
    /\ Raised(st.pages \o new, [i \in 1 .. Len(new) |-> Len(st.pages) + i], M, f)
\* bulk_level puts one level more on top.
LEMMA LevelRaised ==
    ASSUME NEW st, IsState(st), NEW M, NEW at, NEW top, Tree(st.pages, at, top, M),
           NEW f, FirstOK(at, DOMAIN M, f), NEW s, Row(s, at, DOMAIN M, top, DOMAIN M),
           NEW groups, groups = BulkGroups(st, s),
           NEW new, new = [i \in 1 .. Len(groups) |-> rebuild_internal_keys(st, Len(st.pages) + i, groups[i])]
    PROVE  NextLevel(st, s, groups, new, M, f)
<1>. DEFINE K == DOMAIN M
            pg == st.pages
            base == Len(pg)
            N == Len(s)
            G == Len(groups)
            t == top + 1
            pg2 == pg \o new
<1>1. /\ Grid(at, top, K, base) /\ top \in Nat /\ base \in Nat /\ K # {} /\ K \subseteq Keys /\ K \subseteq Int
      /\ \A l \in 0 .. top, k \in K : at[l][k] \in 1 .. base /\ PageOK(pg[at[l][k]], at[l][k], l, at, M)
  BY TreePages
<1>2. pg \in Seq(AnyPage) /\ FileOK(pg) /\ s \in Seq(Int) /\ N \in Nat
  <2>1. s \in Seq(Int) /\ N \in Nat
    BY DEF Row
  <2>. QED
    BY <2>1, FilePages
<1>3. PICK ix : Indexed(ix, s, at, K, top)
  BY <1>1, RowIndex DEF HasIndex
<1>4. /\ Labels(ix, K, N) /\ \A k \in K : ix[k] \in 1 .. N
      /\ \A k \in K, i \in 1 .. N : at[top][k] = s[i] <=> i = ix[k]
  BY <1>3 DEF Indexed, Labels
<1>5. N >= 1
  <2>1. PICK k \in K : TRUE
    BY <1>1
  <2>2. ix[k] \in 1 .. N
    BY <1>4
  <2>. QED
    BY <1>2, <2>2
<1>6. PICK c : CutAt(groups, s, c)
  <2>1. AreRuns(BulkGroups(st, s), s)
    BY <1>2, <1>5, GroupsCut
  <2>. QED
    BY <2>1 DEF AreRuns
<1>7. /\ c \in [1 .. G + 1 -> 1 .. N + 1] /\ G \in Nat /\ G >= 1
      /\ \A i, j \in 1 .. G + 1 : i < j => c[i] < c[j]
      /\ \A i \in 1 .. G : groups[i] = SubSeq(s, c[i], c[i + 1] - 1)
  BY <1>6 DEF CutAt
<1>. HIDE DEF N, K, pg, base, G, pg2
<1>8. PICK g : Grouping(g, ix, K, groups, c)
  <2>1. CutAt(groups, s, c) /\ Labels(ix, K, Len(s)) /\ Len(s) \in Nat
    BY <1>2, <1>4, <1>6 DEF N
  <2>2. CanGroup(ix, K, groups, c)
    BY ONLY <2>1, Grouped
  <2>. QED
    BY <2>2 DEF CanGroup
<1>9. /\ Labels(g, K, G) /\ \A k \in K : g[k] \in 1 .. G
      /\ \A k \in K, i \in 1 .. G : g[k] = i <=> InPart(c, i, ix[k])
  BY <1>8 DEF Grouping, Labels, G
<1>10. ASSUME NEW j \in K, NEW k \in K, at[top][j] = at[top][k] PROVE g[j] = g[k]
  <2>1. ix[j] \in 1 .. N /\ at[top][j] = s[ix[j]]
    BY <1>4
  <2>2. ix[j] = ix[k]
    BY <1>4, <1>10, <2>1
  <2>3. g[j] \in 1 .. G /\ InPart(c, g[j], ix[j])
    BY <1>9
  <2>. QED
    BY <1>9, <2>2, <2>3
<1>. DEFINE lab == [k \in Int |-> IF k \in K THEN base + g[k] ELSE 0]
            at2 == [l \in Nat |-> IF l = t THEN lab ELSE at[l]]
<1>11. t \in Nat /\ t # 0 /\ t - 1 = top /\ (\A l \in 0 .. t : l = t \/ l \in 0 .. top)
       /\ \A l \in 0 .. top : l \in Nat /\ l # t /\ l \in 0 .. t
  BY <1>1
<1>. HIDE DEF t
<1>12. lab \in [Int -> Int] /\ \A k \in K : lab[k] = base + g[k]
  <2>1. \A k \in K : base + g[k] \in Int
    BY <1>1, <1>9
  <2>. QED
    BY <1>1, <2>1
<1>13. /\ at2 \in [Nat -> [Int -> Int]] /\ at2[t] = lab
       /\ \A l \in 0 .. top : at2[l] = at[l]
  <2>1. at \in [Nat -> [Int -> Int]]
    BY <1>1 DEF Grid
  <2>. HIDE DEF lab
  <2>. QED
    BY <1>11, <1>12, <2>1
<1>. HIDE DEF at2, lab
<1>14. \A k \in K : at2[t][k] = base + g[k]
  BY <1>12, <1>13
<1>15. Grid(at2, t, K, base + G)
  <2>1. Stacked(g, K, G, base, at, at2, t, top)
    BY <1>1, <1>9, <1>10, <1>11, <1>13, <1>14 DEF Stacked
  <2>. QED
    BY <2>1, LabelGrid
<1>16. ASSUME NEW i \in 1 .. G
       PROVE  /\ Row(groups[i], at, K, top, Block(at2, K, t, base + i)) /\ groups[i] # <<>>
  <2>. DEFINE a == c[i]
              b == c[i + 1] - 1
  <2>1. i \in 1 .. G + 1 /\ i + 1 \in 1 .. G + 1 /\ i < i + 1
    BY <1>7
  <2>2. c[i] \in 1 .. N + 1 /\ c[i + 1] \in 1 .. N + 1 /\ c[i] < c[i + 1]
    BY <1>7, <2>1
  <2>3. a \in Int /\ b \in Int /\ 1 <= a /\ b <= N /\ a <= b + 1 /\ a <= b /\ groups[i] = SubSeq(s, a, b)
    <3>1. groups[i] = SubSeq(s, a, b)
      BY <1>7
    <3>. DEFINE x == c[i]
                y == c[i + 1]
    <3>2. x \in 1 .. N + 1 /\ y \in 1 .. N + 1 /\ x < y
      BY <2>2
    <3>. HIDE DEF x, y
    <3>3. x \in Int /\ y - 1 \in Int /\ 1 <= x /\ y - 1 <= N /\ x <= y - 1 + 1 /\ x <= y - 1
      BY <1>2, <3>2
    <3>. QED
      BY <3>1, <3>3 DEF x, y
  <2>4. \A x \in 1 .. N : x \in a .. b <=> InPart(c, i, x)
    BY <2>2 DEF InPart
  <2>5. \A x : x \in a .. b => x \in 1 .. N
    BY <1>2, <2>3
  <2>. HIDE DEF a, b
  <2>. DEFINE R == RowSet(SubSeq(s, a, b), at, K, top)
  <2>6. /\ Row(SubSeq(s, a, b), at, K, top, R)
        /\ \A k : k \in R <=> k \in K /\ \E x \in a .. b : at[top][k] = s[x]
        /\ Len(SubSeq(s, a, b)) = b - a + 1
    <3>1. Row(s, at, K, top, K) /\ b <= Len(s) /\ a \in Int /\ b \in Int /\ 1 <= a /\ a <= b + 1
      BY <2>3 DEF N, K
    <3>. QED
      BY ONLY <3>1, RowPart
  <2>. HIDE DEF R
  <2>7. ASSUME NEW k \in K PROVE k \in Block(at2, K, t, base + i) <=> ix[k] \in a .. b
    <3>1. at2[t][k] = base + i <=> g[k] = i
      <4>1. at2[t][k] = base + g[k] /\ g[k] \in 1 .. G
        BY <1>9, <1>14
      <4>. QED
        BY <1>1, <4>1
    <3>2. g[k] = i <=> ix[k] \in a .. b
      BY <1>4, <1>9, <2>4
    <3>. QED
      BY <3>1, <3>2 DEF Block
  <2>8. ASSUME NEW k \in K PROVE k \in R <=> ix[k] \in a .. b
    <3>1. ix[k] \in 1 .. N /\ at[top][k] = s[ix[k]] /\ \A x \in 1 .. N : at[top][k] = s[x] => x = ix[k]
      BY <1>4
    <3>. QED
      BY <2>5, <2>6, <3>1
  <2>9. R = Block(at2, K, t, base + i)
    <3>1. R \subseteq K /\ Block(at2, K, t, base + i) \subseteq K
      BY <2>6 DEF Block
    <3>. QED
      BY <2>7, <2>8, <3>1
  <2>10. groups[i] # <<>>
    <3>1. Len(groups[i]) # 0 /\ Len(<<>>) = 0
      BY <2>3, <2>6
    <3>. QED
      BY <3>1
  <2>. QED
    BY <2>3, <2>6, <2>9, <2>10
<1>17. ASSUME NEW i \in 1 .. G
       PROVE  /\ Rebuildable(st, groups[i])
              /\ new[i] = Inner(base + i, groups[i], new[i].keys)
              /\ Seps(new[i].keys, groups[i], at, K, top)
              /\ PageTyped(new[i], base + i, base)
  <2>1. new[i] = rebuild_internal_keys(st, base + i, groups[i])
    BY DEF G, base, pg
  <2>. DEFINE S == Block(at2, K, t, base + i)
              u == groups[i]
              id == base + i
  <2>2. Row(u, at, K, top, S) /\ u # <<>>
    BY <1>16
  <2>3. Below0(st.pages, at, top, M, top, base)
    <3>1. \A m \in 0 .. top : Layer(pg, at, M, m)
      BY DEF Tree, pg
    <3>2. top \in 0 .. top /\ base <= Len(st.pages) /\ Len(st.pages) \in Nat
      BY <1>1 DEF base, pg
    <3>. QED
      BY <1>1, <3>1, <3>2 DEF Below0, pg, K
  <2>. HIDE DEF S, u, id
  <2>. DEFINE p == rebuild_internal_keys(st, id, u)
  <2>4. /\ Rebuildable(st, u) /\ p = Inner(id, u, p.keys)
        /\ Seps(p.keys, u, at, K, top)
    BY <2>2, <2>3, Rebuilt, ZenonT(60) DEF K
  <2>5. PageTyped(p, id, base)
    <3>1. u \in Seq(1 .. base)
      <4>1. top \in 0 .. top
        BY <1>1
      <4>. QED
        BY <1>1, <2>2, <4>1, RowTyped
    <3>2. p.keys \in Seq(Int) /\ Len(p.keys) = Len(u) - 1
      BY <2>4 DEF Seps
    <3>. DEFINE ks == p.keys
    <3>3. id \in Nat
      BY <1>1 DEF id
    <3>. HIDE DEF ks, p
    <3>4. PageTyped(Inner(id, u, ks), id, base)
      BY <1>1, <3>1, <3>2, <3>3, InnerTyped DEF ks
    <3>. QED
      BY <2>4, <3>4 DEF ks
  <2>6. new[i] = p
    BY <2>1 DEF p, id, u
  <2>. HIDE DEF p
  <2>. QED
    BY <2>4, <2>5, <2>6 DEF id, u
<1>18. Len(new) = G /\ new \in Seq(AnyPage)
  <2>1. new = [i \in 1 .. G |-> new[i]] /\ Len(new) = G
    BY <1>7 DEF G
  <2>2. \A i \in 1 .. G : new[i] \in AnyPage
    BY <1>17 DEF PageTyped
  <2>3. new \in [1 .. G -> AnyPage]
    BY <2>1, <2>2
  <2>. QED
    BY <1>7, <2>1, <2>3, SeqIs
<1>19. /\ Len(pg2) = base + G
       /\ \A x \in 1 .. base : pg2[x] = pg[x]
       /\ \A i \in 1 .. G : pg2[base + i] = new[i]
  <2>1. pg2 \in Seq(AnyPage) /\ Len(pg2) = base + G
        /\ \A x \in 1 .. base + G : pg2[x] = IF x <= base THEN pg[x] ELSE new[x - base]
    BY <1>2, <1>18, Joined DEF pg2, base
  <2>2. \A x \in 1 .. base : x \in 1 .. base + G /\ x <= base
    BY <1>1, <1>7
  <2>3. \A i \in 1 .. G : base + i \in 1 .. base + G /\ ~(base + i <= base) /\ (base + i) - base = i
    BY <1>1, <1>7
  <2>. QED
    BY <2>1, <2>2, <2>3
<1>20. Tree(pg2, at2, t, M)
  <2>1. ASSUME NEW l \in 0 .. top, NEW k \in K PROVE PageOK(pg2[at2[l][k]], at2[l][k], l, at2, M)
    <3>1. at2[l] = at[l] /\ at[l][k] \in 1 .. base /\ PageOK(pg[at[l][k]], at[l][k], l, at, M)
      BY <1>1, <1>13
    <3>2. l # 0 => at2[l - 1] = at[l - 1]
      <4>1. l # 0 => l - 1 \in 0 .. top
        BY <1>1
      <4>. QED
        BY <1>13, <4>1
    <3>. DEFINE x == at[l][k]
                p == pg[x]
    <3>3. PageOK(p, x, l, at, M) /\ at2[l] = at[l]
      BY <3>1
    <3>. HIDE DEF x, p
    <3>4. PageOK(p, x, l, at2, M)
      BY ONLY <3>2, <3>3, PageSame
    <3>5. pg2[x] = p
      BY <1>19, <3>1 DEF x, p
    <3>. QED
      BY <3>1, <3>4, <3>5 DEF x
  <2>2. ASSUME NEW k \in K PROVE PageOK(pg2[at2[t][k]], at2[t][k], t, at2, M)
    <3>. DEFINE i == g[k]
                q == base + i
                p == new[i]
                S == Block(at2, K, t, q)
                u == groups[i]
    <3>1. i \in 1 .. G /\ at2[t][k] = q
      BY <1>9, <1>14
    <3>. HIDE DEF i
    <3>2. Row(u, at, K, top, S) /\ p = Inner(q, u, p.keys) /\ Seps(p.keys, u, at, K, top)
      BY <1>16, <1>17, <3>1
    <3>3. pg2[q] = p
      BY <1>19, <3>1
    <3>4. at2[top] = at[top]
      BY <1>1, <1>13
    <3>. HIDE DEF u, p
    <3>5. p.children = u
      BY <3>2 DEF Inner
    <3>. HIDE DEF q
    <3>6. Row(p.children, at2, K, top, S) /\ Seps(p.keys, p.children, at2, K, top)
      BY <3>2, <3>4, <3>5, SameLevel
    <3>7. InnerOK(p, q, t, at2, K)
      BY <1>11, <3>2, <3>5, <3>6 DEF InnerOK
    <3>8. PageOK(p, q, t, at2, M)
      BY <1>11, <3>7 DEF PageOK, K
    <3>. QED
      BY <3>1, <3>3, <3>8
  <2>3. \A l \in 0 .. t : Layer(pg2, at2, M, l)
    BY <1>11, <2>1, <2>2 DEF Layer, K
  <2>. QED
    BY <1>1, <1>15, <1>19, <2>3 DEF Tree, K
<1>21. FirstOK(at2, K, f)
  <2>1. 0 \in 0 .. top
    BY <1>1
  <2>2. at2[0] = at[0]
    BY <1>13, <2>1
  <2>. QED
    BY <2>2 DEF FirstOK, K
<1>22. Row([i \in 1 .. G |-> base + i], at2, K, t, K)
  <2>1. Labels(g, K, G) /\ base \in Nat /\ \A k \in K : at2[t][k] = base + g[k]
    BY <1>1, <1>9, <1>14
  <2>. QED
    BY ONLY <2>1, LabelRow
<1>23. Raised(pg2, [i \in 1 .. Len(new) |-> base + i], M, f)
  <2>1. [i \in 1 .. Len(new) |-> base + i] = [i \in 1 .. G |-> base + i]
    BY <1>18
  <2>. QED
    BY <1>20, <1>21, <1>22, <2>1 DEF Raised, K
<1>24. \A i \in 1 .. Len(groups) : Rebuildable(st, groups[i]) /\ PageTyped(new[i], Len(st.pages) + i, Len(st.pages))
  BY <1>17 DEF G, base, pg
<1>. QED
  BY <1>7, <1>18, <1>23, <1>24 DEF NextLevel, G, base, pg, pg2

\* More pages at the end of a file.
LEMMA FileMore ==
    ASSUME NEW pg, FileOK(pg), NEW add \in Seq(AnyPage),
           \A i \in 1 .. Len(add) : PageTyped(add[i], Len(pg) + i, Len(pg) + Len(add))
    PROVE  FileOK(pg \o add) /\ Len(pg \o add) = Len(pg) + Len(add)
<1>. DEFINE n == Len(pg)
            m == Len(add)
            q == pg \o add
<1>1. pg \in Seq(AnyPage) /\ n \in Nat /\ m \in Nat /\ \A i \in 1 .. n : PageTyped(pg[i], i, n)
  BY DEF FileOK
<1>2. q \in Seq(AnyPage) /\ Len(q) = n + m /\ \A x \in 1 .. n + m : q[x] = IF x <= n THEN pg[x] ELSE add[x - n]
  BY <1>1, Joined
<1>. HIDE DEF q
<1>3. ASSUME NEW x \in 1 .. n + m PROVE PageTyped(q[x], x, n + m)
  <2>1. CASE x <= n
    <3>1. x \in 1 .. n /\ n <= n + m /\ n + m \in Nat
      BY <1>1, <2>1
    <3>2. PageTyped(pg[x], x, n)
      BY <1>1, <3>1
    <3>. DEFINE k == n + m
                p == pg[x]
    <3>3. PageTyped(p, x, n) /\ n \in Nat /\ k \in Nat /\ n <= k
      BY <1>1, <3>1, <3>2
    <3>. HIDE DEF k, p
    <3>4. PageTyped(p, x, k)
      BY ONLY <3>3, TypedMore
    <3>. QED
      BY <1>2, <2>1, <3>4 DEF k, p
  <2>2. CASE ~(x <= n)
    <3>1. x - n \in 1 .. m /\ n + (x - n) = x
      BY <1>1, <2>2
    <3>2. PageTyped(add[x - n], n + (x - n), n + m)
      BY <3>1
    <3>. QED
      BY <1>2, <2>2, <3>1, <3>2
  <2>. QED
    BY <2>1, <2>2
<1>4. FileOK(q) /\ Len(q) = n + m
  BY <1>2, <1>3 DEF FileOK
<1>. QED
  BY <1>4 DEF q

\* A state with other pages, and an exception or a call.
WithErr(st, pg, e) == [st EXCEPT !.pages = pg, !.err = e]
WithCall(st, pg, call) == [st EXCEPT !.pages = pg, !.call = call]
\* A state with more pages.
LEMMA StateMore ==
    ASSUME NEW st, IsState(st), NEW pg, FileOK(pg), Len(st.pages) <= Len(pg), NEW e, NEW call
    PROVE  /\ IsState(WithErr(st, pg, e)) /\ WithErr(st, pg, e).err = e
           /\ IsState(WithCall(st, pg, call))
           /\ WithCall(st, pg, call).err = st.err
           /\ WithCall(st, pg, call).pages = pg
           /\ WithCall(st, pg, call).first = st.first
           /\ WithCall(st, pg, call).call = call
<1>. DEFINE a == [st EXCEPT !.pages = pg]
            u == [a EXCEPT !.err = e]
            v == [a EXCEPT !.call = call]
            q == st.pages
            r == st.root
            f == st.first
            x == st.err
            y == st.call
<1>1. st = [pages |-> q, root |-> r, first |-> f, err |-> x, call |-> y]
      /\ r \in 1 .. Len(q) /\ f \in 1 .. Len(q) /\ Len(q) \in Nat /\ Len(pg) \in Nat
  BY FilePages DEF IsState, FileOK
<1>2. r \in 1 .. Len(pg) /\ f \in 1 .. Len(pg)
  BY <1>1
<1>3. WithErr(st, pg, e) = u /\ WithCall(st, pg, call) = v
  <2>1. st = [pages |-> q, root |-> r, first |-> f, err |-> x, call |-> y]
    BY <1>1
  <2>. HIDE DEF q, r, f, x, y
  <2>. QED
    BY <2>1 DEF WithErr, WithCall
<1>. HIDE DEF q, r, f, x, y
<1>4. a = [pages |-> pg, root |-> r, first |-> f, err |-> x, call |-> y]
  BY <1>1
<1>. HIDE DEF a
<1>5. u = [pages |-> pg, root |-> r, first |-> f, err |-> e, call |-> y]
  BY <1>4
<1>6. v = [pages |-> pg, root |-> r, first |-> f, err |-> x, call |-> call]
  BY <1>4
<1>. HIDE DEF u, v
<1>7. u.pages = pg /\ u.root = r /\ u.first = f /\ u.err = e /\ u.call = y
  BY ONLY <1>5
<1>8. v.pages = pg /\ v.root = r /\ v.first = f /\ v.err = x /\ v.call = call
  BY ONLY <1>6
<1>9. IsState(u)
  BY <1>2, <1>5, <1>7 DEF IsState
<1>10. IsState(v)
  BY <1>2, <1>6, <1>8 DEF IsState
<1>11. WithCall(st, pg, call).err = st.err
  BY <1>3, <1>8 DEF x
<1>12. WithCall(st, pg, call).first = st.first
  BY <1>3, <1>8 DEF f
<1>. QED
  BY <1>3, <1>7, <1>8, <1>9, <1>10, <1>11, <1>12

\* The level has one page: it is the root.
LEMMA LevelDone ==
    ASSUME NEW st, IsState(st), st.call = NoCall, st.err = "none", NEW M, NEW s, Len(s) = 1,
           NEW r, r = s[1], r \in 1 .. Len(st.pages), Settled(st.pages, r, st.first, M)
    PROVE  BulkGood(bulk_level(st, s), M)
<1>. DEFINE u == bulk_level(st, s)
<1>1. u = [st EXCEPT !.root = r]
  BY DEF bulk_level
<1>2. u = [pages |-> st.pages, root |-> r, first |-> st.first, err |-> st.err, call |-> st.call]
  BY <1>1 DEF IsState
<1>. HIDE DEF u
<1>3. u.pages = st.pages /\ u.root = r /\ u.first = st.first /\ u.err = st.err /\ u.call = st.call
  BY ONLY <1>2
<1>4. IsState(u)
  BY <1>2, <1>3 DEF IsState
<1>5. BulkGood(u, M)
  BY <1>3, <1>4 DEF BulkGood
<1>. QED
  BY <1>5 DEF u

\* The level has more pages: the next level is written.
LEMMA LevelMore ==
    ASSUME NEW st, IsState(st), st.call = NoCall, st.err = "none", NEW M, NEW at, NEW top,
           Tree(st.pages, at, top, M), FirstOK(at, DOMAIN M, st.first),
           NEW s, Row(s, at, DOMAIN M, top, DOMAIN M), Len(s) # 1
    PROVE  BulkGood(bulk_level(st, s), M)
<1>. DEFINE groups == BulkGroups(st, s)
            base == Len(st.pages)
            new == [i \in 1 .. Len(groups) |-> rebuild_internal_keys(st, base + i, groups[i])]
            bad == {i \in 1 .. Len(groups) : ~Rebuildable(st, groups[i]) \/ inner_overflow(new[i])}
            b == Min(bad)
            pgB == st.pages \o SubSeq(new, 1, b - 1) \o <<ZeroPage(base + b)>>
            e == IF Rebuildable(st, groups[b]) THEN "overflow" ELSE "corrupt"
            pgN == st.pages \o new
            lv == [i \in 1 .. Len(new) |-> base + i]
            call == [fn |-> "bulk_level", level |-> lv]
            u == bulk_level(st, s)
<1>1. u = IF bad # {} THEN [st EXCEPT !.pages = pgB, !.err = e] ELSE [st EXCEPT !.pages = pgN, !.call = call]
  <2>1. bulk_level(st, s) =
          IF Len(s) = 1 THEN [st EXCEPT !.root = s[1]]
          ELSE IF bad # {}
          THEN [st EXCEPT !.pages = @ \o SubSeq(new, 1, b - 1) \o <<ZeroPage(base + b)>>, !.err = e]
          ELSE [st EXCEPT !.pages = @ \o new, !.call = call]
    BY DEF bulk_level
  <2>. HIDE DEF new, groups, bad, b, e, call, base
  <2>2. st = [pages |-> st.pages, root |-> st.root, first |-> st.first, err |-> st.err, call |-> st.call]
    BY DEF IsState
  <2>. QED
    BY <2>1, <2>2
<1>. HIDE DEF u
<1>2. NextLevel(st, s, groups, new, M, st.first)
  BY LevelRaised
<1>. HIDE DEF groups
<1>3. /\ \A i \in 1 .. Len(groups) : Rebuildable(st, groups[i]) /\ PageTyped(new[i], base + i, base)
      /\ Len(groups) \in Nat /\ Len(groups) >= 1 /\ Len(new) = Len(groups) /\ new \in Seq(AnyPage)
      /\ Raised(pgN, lv, M, st.first)
  <2>. HIDE DEF new
  <2>. QED
    BY <1>2 DEF NextLevel
<1>4. FileOK(st.pages) /\ st.pages \in Seq(AnyPage) /\ base \in Nat
  BY FilePages
<1>. HIDE DEF new, base
<1>5. CASE bad # {}
  <2>1. b \in 1 .. Len(groups)
    <3>1. IsFiniteSet(1 .. Len(groups))
      BY <1>3, FS_Interval
    <3>2. bad \subseteq 1 .. Len(groups)
      OBVIOUS
    <3>. HIDE DEF bad
    <3>5. IsFiniteSet(bad)
      BY <3>1, <3>2, FS_Subset
    <3>3. IsFiniteSet(bad) /\ bad \subseteq Int
      BY <3>2, <3>5
    <3>4. b \in bad
      BY <1>5, <3>3, Extremes
    <3>. QED
      BY <3>2, <3>4
  <2>. HIDE DEF bad, b
  <2>. DEFINE part == SubSeq(new, 1, b - 1)
  <2>2. /\ part \in Seq(AnyPage) /\ Len(part) = b - 1
        /\ \A x \in 1 .. b - 1 : part[x] = new[x]
    <3>1. b - 1 \in Int /\ 1 \in Int /\ 1 <= 1 /\ b - 1 <= Len(new) /\ 1 <= (b - 1) + 1
      BY <1>3, <2>1
    <3>2. /\ SubSeq(new, 1, b - 1) \in Seq(AnyPage) /\ Len(SubSeq(new, 1, b - 1)) = (b - 1) - 1 + 1
          /\ \A x \in 1 .. (b - 1) - 1 + 1 : SubSeq(new, 1, b - 1)[x] = new[1 + x - 1]
      BY <1>3, <3>1, Cut
    <3>3. (b - 1) - 1 + 1 = b - 1 /\ \A x \in 1 .. b - 1 : 1 + x - 1 = x
      BY <2>1
    <3>. QED
      BY <3>2, <3>3
  <2>. HIDE DEF part
  <2>3. FileOK(st.pages \o part) /\ Len(st.pages \o part) = base + (b - 1)
    <3>1. ASSUME NEW i \in 1 .. Len(part)
          PROVE  PageTyped(part[i], Len(st.pages) + i, Len(st.pages) + Len(part))
      <4>1. i \in 1 .. Len(groups) /\ part[i] = new[i]
        BY <1>3, <2>1, <2>2
      <4>. DEFINE p == new[i]
                  k == base + i
                  m == base + Len(part)
      <4>2. PageTyped(p, k, base) /\ base \in Nat /\ m \in Nat /\ base <= m
        BY <1>3, <1>4, <2>1, <2>2, <4>1
      <4>. HIDE DEF p, k, m
      <4>3. PageTyped(p, k, m)
        BY ONLY <4>2, TypedMore
      <4>. QED
        BY <4>1, <4>3 DEF p, k, m, base
    <3>. QED
      BY <1>4, <2>2, <3>1, FileMore DEF base
  <2>4. FileOK(pgB) /\ Len(pgB) = base + b
    <3>. DEFINE z == ZeroPage(base + b)
                add == <<z>>
                q == st.pages \o part
    <3>1. PageTyped(z, base + b, base + b)
      <4>. DEFINE k == base + b
      <4>1. k \in Nat
        BY <1>4, <2>1
      <4>. HIDE DEF k
      <4>2. PageTyped(ZeroPage(k), k, k)
        BY <4>1, ZeroTyped
      <4>. QED
        BY <4>2 DEF k
    <3>. HIDE DEF z
    <3>2. add \in Seq(AnyPage) /\ Len(add) = 1 /\ add[1] = z
      BY <3>1 DEF PageTyped
    <3>3. base + (b - 1) + 1 = base + b
      BY <1>4, <2>1
    <3>. HIDE DEF add, q
    <3>4. FileOK(q) /\ Len(q) = base + (b - 1)
      BY <2>3 DEF q
    <3>5. \A i \in 1 .. Len(add) : PageTyped(add[i], Len(q) + i, Len(q) + Len(add))
      BY <3>1, <3>2, <3>3, <3>4
    <3>6. FileOK(q \o add) /\ Len(q \o add) = Len(q) + Len(add)
      BY <3>2, <3>4, <3>5, FileMore
    <3>7. pgB = q \o add
      BY DEF q, add, z, part
    <3>. QED
      BY <3>2, <3>3, <3>4, <3>6, <3>7
  <2>5. e # "none"
    OBVIOUS
  <2>. HIDE DEF pgB, e
  <2>6. Len(st.pages) <= Len(pgB)
    <3>1. base <= base + b
      BY <1>4, <2>1
    <3>. QED
      BY <2>4, <3>1 DEF base
  <2>7. u = [st EXCEPT !.pages = pgB, !.err = e]
    BY <1>1, <1>5
  <2>8. IsState(u) /\ u.err = e
    <3>1. IsState(st) /\ FileOK(pgB) /\ Len(st.pages) <= Len(pgB)
      BY <2>4, <2>6
    <3>2. IsState(WithErr(st, pgB, e)) /\ WithErr(st, pgB, e).err = e
      BY ONLY <3>1, StateMore
    <3>. QED
      BY <2>7, <3>2 DEF WithErr
  <2>. QED
    BY <2>5, <2>8 DEF BulkGood, u
<1>6. CASE bad = {}
  <2>1. FileOK(pgN) /\ Len(pgN) = base + Len(new)
    <3>1. ASSUME NEW i \in 1 .. Len(new)
          PROVE  PageTyped(new[i], Len(st.pages) + i, Len(st.pages) + Len(new))
      <4>. DEFINE p == new[i]
                  k == base + i
                  m == base + Len(new)
      <4>2. PageTyped(p, k, base) /\ base \in Nat /\ m \in Nat /\ base <= m
        BY <1>3, <1>4
      <4>. HIDE DEF p, k, m
      <4>3. PageTyped(p, k, m)
        BY ONLY <4>2, TypedMore
      <4>. QED
        BY <4>3 DEF p, k, m, base
    <3>. QED
      BY <1>3, <1>4, <3>1, FileMore DEF base
  <2>2. Len(st.pages) <= Len(pgN)
    BY <1>3, <1>4, <2>1 DEF base
  <2>3. call.fn = "bulk_level" /\ call.level = lv /\ call # NoCall
    <3>. HIDE DEF lv
    <3>1. call.fn = "bulk_level" /\ call.level = lv
      OBVIOUS
    <3>2. NoCall.fn = "none"
      BY DEF NoCall
    <3>. QED
      BY <3>1, <3>2
  <2>. HIDE DEF pgN, call, bad, lv
  <2>4. u = [st EXCEPT !.pages = pgN, !.call = call]
    BY <1>1, <1>6
  <2>5. IsState(u) /\ u.err = st.err /\ u.pages = pgN /\ u.first = st.first /\ u.call = call
    <3>1. IsState(st) /\ FileOK(pgN) /\ Len(st.pages) <= Len(pgN)
      BY <2>1, <2>2
    <3>2. /\ IsState(WithCall(st, pgN, call))
          /\ WithCall(st, pgN, call).err = st.err
          /\ WithCall(st, pgN, call).pages = pgN
          /\ WithCall(st, pgN, call).first = st.first
          /\ WithCall(st, pgN, call).call = call
      BY ONLY <3>1, StateMore
    <3>3. u = WithCall(st, pgN, call)
      BY <2>4 DEF WithCall
    <3>. QED
      BY <3>2, <3>3
  <2>6. BulkWaits(u.pages, u.root, u.first, u.call, M)
    <3>1. Raised(u.pages, u.call.level, M, u.first)
      BY <1>3, <2>3, <2>5
    <3>2. u.call.fn = "bulk_level"
      BY <2>3, <2>5
    <3>. QED
      BY <3>1, <3>2 DEF BulkWaits, Raised
  <2>. QED
    BY <2>3, <2>5, <2>6 DEF BulkGood, u
<1>. QED
  BY <1>5, <1>6

\* bulk_level ends in a root, or leaves a level that is shorter and complete.
LEMMA BulkLevelGood ==
    ASSUME NEW st, IsState(st), st.call = NoCall, st.err = "none", NEW M, NEW call, NEW s, s = call.level,
           BulkWaits(st.pages, st.root, st.first, call, M)
    PROVE  BulkGood(bulk_level(st, s), M)
<1>1. CASE DOMAIN M = {} /\ st.first = 1 /\ 1 \in 1 .. Len(st.pages) /\ st.pages[1] = Leaf(1, <<>>, 0)
           /\ s = <<1>>
  <2>. DEFINE r == s[1]
  <2>1. Len(s) = 1 /\ r = 1
    BY <1>1
  <2>. HIDE DEF r
  <2>2. Settled(st.pages, r, st.first, M) /\ r \in 1 .. Len(st.pages)
    BY <1>1, <2>1 DEF Settled
  <2>. QED
    BY <2>1, <2>2, LevelDone DEF r
<1>2. ASSUME NEW at, NEW top, Tree(st.pages, at, top, M), Row(s, at, DOMAIN M, top, DOMAIN M),
             FirstOK(at, DOMAIN M, st.first)
      PROVE  BulkGood(bulk_level(st, s), M)
  <2>1. CASE Len(s) # 1
    BY <1>2, <2>1, LevelMore
  <2>2. CASE Len(s) = 1
    <3>. DEFINE r == s[1]
    <3>1. /\ \A k \in DOMAIN M : \E i \in 1 .. Len(s) : at[top][k] = s[i]
          /\ \A i \in 1 .. Len(s) : i = 1
      BY <1>2, <2>2 DEF Row
    <3>2. \A k \in DOMAIN M : at[top][k] = r
      BY <3>1
    <3>. HIDE DEF r
    <3>3. top \in Nat /\ DOMAIN M # {} /\ \A l \in 0 .. top, k \in DOMAIN M : at[l][k] \in 1 .. Len(st.pages)
      BY <1>2, TreePages
    <3>4. r \in 1 .. Len(st.pages)
      BY <3>2, <3>3
    <3>5. RootOK(at, top, DOMAIN M, r)
      BY <3>2 DEF RootOK
    <3>6. Settled(st.pages, r, st.first, M)
      BY <1>2, <3>5 DEF Settled
    <3>. QED
      BY <2>2, <3>4, <3>6, LevelDone DEF r
  <2>. QED
    BY <2>1, <2>2
<1>. QED
  BY <1>1, <1>2 DEF BulkWaits

----------------------------------------------------------------------------
(* Every step *)
LEMMA BulkLevelInv ==
    ASSUME TreeInv, BulkLevel
    PROVE  TreeInv'
<1>. DEFINE st == State
            s == todo.level
            u == bulk_level(st, s)
<1>1. Typed /\ InInsert /\ InErase /\ InBulk /\ todo.fn = "bulk_level" /\ Continue(u, op, arg, size)
  BY DEF TreeInv, BulkLevel
<1>2. pages # <<>> /\ failed = FALSE /\ op \in {"insert", "erase", "bulk"}
  BY <1>1, InProgress
<1>3. IsMap(contents) /\ size \in Nat
  BY <1>1 DEF Typed
<1>4. op = "bulk"
  <2>1. op # "insert"
    BY <1>1 DEF InInsert, Waits
  <2>2. op # "erase"
    BY <1>1 DEF InErase, EraseWaits, Waits
  <2>. QED
    BY <1>2, <2>1, <2>2
<1>5. size = Cardinality(DOMAIN contents) /\ BulkWaits(pages, root, first, todo, contents)
  BY <1>1, <1>4 DEF InBulk
<1>6. /\ IsState(State) /\ State.call = NoCall /\ State.err = "none"
      /\ State.pages = pages /\ State.root = root /\ State.first = first
  BY <1>1, <1>2, StateFacts
<1>7. IsState(st) /\ st.call = NoCall /\ st.err = "none" /\ BulkWaits(st.pages, st.root, st.first, todo, contents)
  BY <1>5, <1>6
<1>. HIDE DEF st
<1>8. BulkGood(u, contents)
  BY <1>7, BulkLevelGood
<1>9. Continue(u, "bulk", arg, size)
  BY <1>1, <1>4
<1>. HIDE DEF u
<1>. QED
  BY <1>2, <1>3, <1>5, <1>8, <1>9, BulkInv

\* Every step keeps the invariant.
LEMMA NextInv ==
    ASSUME TreeInv, [Next]_vars
    PROVE  TreeInv'
<1>1. CASE create_empty
  BY <1>1, CreateInv
<1>2. CASE BulkBuild
  <2>1. PICK S \in BulkKeys, r \in Rids : bulk_build(S, r)
    BY <1>2 DEF BulkBuild
  <2>. QED
    BY <2>1, BulkBuildInv
<1>3. CASE Insert
  <2>1. PICK k \in Keys, r \in Rids : insert_first([key |-> k, rid |-> r]) \/ insert([key |-> k, rid |-> r])
    BY <1>3 DEF Insert
  <2>. DEFINE e == [key |-> k, rid |-> r]
  <2>2. e \in Entries /\ (insert_first(e) \/ insert(e))
    BY <2>1, EntryTyped
  <2>. HIDE DEF e
  <2>. QED
    BY <2>2, InsertFirstInv, InsertNextInv
<1>4. CASE Erase
  <2>1. PICK k \in Keys : erase(k)
    BY <1>4 DEF Erase
  <2>. QED
    BY <2>1, EraseCallInv
<1>5. CASE flush
  BY <1>5, FlushInv
<1>6. CASE SplitLeaf \/ SplitInternal \/ FixLeafUnderflow \/ FixInternalUnderflow
  BY <1>6, FunctionInv
<1>7. CASE BulkLevel
  BY <1>7, BulkLevelInv
<1>8. CASE UNCHANGED vars
  <2>1. UNCHANGED <<pages, root, first, size, super, todo, op, arg, contents, failed>>
    BY <1>8 DEF vars
  <2>2. Typed' /\ AtRest'
    BY <2>1 DEF TreeInv, Typed, AtRest
  <2>3. InInsert' /\ InErase' /\ InBulk'
    BY <2>1 DEF TreeInv, InInsert, InErase, InBulk
  <2>. QED
    BY <2>2, <2>3 DEF TreeInv
<1>. QED
  BY <1>1, <1>2, <1>3, <1>4, <1>5, <1>6, <1>7, <1>8 DEF Next

\* The inductive invariant holds: between calls the pages under root_page_id_
\* are a tree of exactly the entries inserted and not erased, with its leaves
\* chained from first_leaf_page_, and while split_leaf, split_internal,
\* fix_leaf_underflow, fix_internal_underflow or a level of bulk_build is still
\* to come, the file and the node in memory make such a tree together.
THEOREM TreeHolds == Spec => []TreeInv
<1>1. Init => TreeInv
  BY InitInv
<1>2. TreeInv /\ [Next]_vars => TreeInv'
  BY NextInv
<1>. QED
  BY <1>1, <1>2, PTL DEF Spec

\* The type invariant follows from the inductive one.
LEMMA TypedOK ==
    ASSUME TreeInv
    PROVE  TypeOK
<1>1. Typed
  BY DEF TreeInv
<1>2. FileOK(pages) /\ pages \in Seq(AnyPage) /\ Len(pages) \in Nat
  BY <1>1 DEF Typed, FileOK
<1>3. ASSUME NEW i \in 1 .. Len(pages)
      PROVE  /\ pages[i].id = i
             /\ pages[i].type \in {"leaf", "inner", "zero"}
             /\ IsLeaf(pages[i]) => pages[i].next \in 0 .. Len(pages)
             /\ IsInner(pages[i]) => /\ Range(pages[i].children) \subseteq 1 .. Len(pages)
                                    /\ Len(pages[i].keys) = Len(pages[i].children) - 1
  <2>. DEFINE p == pages[i]
              n == Len(pages)
  <2>1. PageTyped(p, i, n)
    BY <1>2 DEF FileOK
  <2>. HIDE DEF p, n
  <2>2. /\ p.type \in {"leaf", "inner", "zero"} /\ p.id = i
        /\ IsLeaf(p) => p.next \in 0 .. n
        /\ IsInner(p) => p.children \in Seq(1 .. n) /\ Len(p.keys) = Len(p.children) - 1
    BY <2>1, TypedParts
  <2>3. IsInner(p) => Range(p.children) \subseteq 1 .. n
    <3>1. \A S : \A c \in Seq(S) : Range(c) \subseteq S
      BY DEF Range
    <3>. QED
      BY <2>2, <3>1
  <2>. QED
    BY <2>2, <2>3 DEF p, n
<1>4. root \in 0 .. Len(pages) /\ first \in 0 .. Len(pages)
  <2>1. CASE pages = <<>>
    BY <1>1, <2>1 DEF Typed
  <2>2. CASE pages # <<>>
    BY <1>1, <1>2, <2>2 DEF Typed
  <2>. QED
    BY <2>1, <2>2
<1>5. size \in Nat /\ op \in {"none", "insert", "erase", "bulk"} /\ DOMAIN contents \subseteq Keys /\ failed \in BOOLEAN
  BY <1>1 DEF Typed, IsMap
<1>. QED
  BY <1>3, <1>4, <1>5 DEF TypeOK

\* The type invariant: every page of the file is a leaf, an inner page or a
\* page of zeros, with page ids of the file in it and one separator fewer than
\* it has children, whatever insert, erase and bulk_build have done to it.
THEOREM TypeCorrect == Spec => []TypeOK
  BY TypedOK, TreeHolds, PTL

\* Whenever insert, erase, bulk_build, create_empty or flush has returned,
\* size_ counts the entries and the superblock names the root, the first leaf
\* and the size that the tree has: open will find this tree.
THEOREM SuperblockHolds == Spec => []SuperblockCurrent
<1>1. TreeInv => SuperblockCurrent
  BY DEF TreeInv, AtRest, SuperblockCurrent, Quiet
<1>. QED
  BY <1>1, TreeHolds, PTL

----------------------------------------------------------------------------
(* find *)

\* The root that is a leaf is the end of its path.
LEMMA PathRoot ==
    ASSUME NEW pg, Len(pg) \in Nat, NEW r, ~IsInner(pg[r]), NEW k
    PROVE  Last(PathFrom(pg, r, k)) = r
<1>. DEFINE N == Len(pg)
            G(f) == [n \in 0 .. N |-> IF n = 0 THEN r
                      ELSE LET q == f[n - 1] IN IF IsInner(pg[q]) THEN ChildFor(pg[q], k) ELSE q]
            g == [n \in 0 .. N |-> r]
            f == CHOOSE h : h = G(h)
            S == {n \in 0 .. N : ~IsInner(pg[f[n]])}
            depth == Min(S)
<1>1. PathFrom(pg, r, k) = [i \in 1 .. depth + 1 |-> f[i - 1]]
  BY DEF PathFrom
<1>2. g = G(g)
  <2>1. \A n \in 0 .. N : n = 0 \/ (n - 1 \in 0 .. N /\ g[n - 1] = r)
    OBVIOUS
  <2>2. \A n \in 0 .. N : G(g)[n] = r
    BY <2>1, Zenon
  <2>. QED
    BY <2>2
<1>3. f = G(f)
  BY <1>2, Zenon
<1>4. 0 \in 0 .. N
  OBVIOUS
<1>. HIDE DEF f
<1>5. f[0] = r
  BY <1>3, <1>4
<1>6. 0 \in S /\ S \subseteq 0 .. N
  BY <1>4, <1>5
<1>7. IsFiniteSet(S) /\ S \subseteq Int /\ S # {}
  <2>1. IsFiniteSet(0 .. N)
    BY FS_Interval
  <2>. QED
    BY <1>6, <2>1, FS_Subset
<1>8. depth = 0
  <2>1. Min(S) \in S /\ Min(S) <= 0
    BY <1>6, <1>7, Extremes
  <2>. QED
    BY <1>6, <2>1
<1>. HIDE DEF depth
<1>9. PathFrom(pg, r, k) = [i \in 1 .. 1 |-> f[i - 1]]
  BY <1>1, <1>8
<1>. QED
  BY <1>5, <1>9 DEF Last

\* An index with no entry: its root is an empty leaf.
Bare(pg, r, f, M) == DOMAIN M = {} /\ f = r /\ r \in 1 .. Len(pg) /\ pg[r] = Leaf(r, <<>>, 0)

\* Between calls the index is empty, or it has a tree.
LEMMA QuietFacts ==
    ASSUME TreeInv, Quiet
    PROVE  /\ Len(pages) \in Nat /\ IsMap(contents) /\ size = Cardinality(DOMAIN contents)
           /\ \/ Bare(pages, root, first, contents)
              \/ \E at, top : Resting(pages, root, first, contents, at, top)
<1>1. Typed /\ Settled(pages, root, first, contents) /\ size = Cardinality(DOMAIN contents)
  BY DEF TreeInv, AtRest, Quiet
<1>2. Len(pages) \in Nat /\ IsMap(contents)
  BY <1>1 DEF Typed, FileOK
<1>. QED
  BY <1>1, <1>2 DEF Settled, Bare, Resting

\* Search and scans in a tree without entries.
LEMMA BareFacts ==
    ASSUME Bare(pages, root, first, contents), Len(pages) \in Nat, NEW k \in Int
    PROVE  LeafFor(k) = root /\ pages[root] = Leaf(root, <<>>, 0) /\ Len(pages[root].entries) = 0
           /\ pages[root].next = 0 /\ lower_bound_slot(pages[root].entries, k) \in Nat
           /\ upper_bound_slot(pages[root].entries, k) \in Nat
<1>1. pages[root] = Leaf(root, <<>>, 0)
  BY DEF Bare
<1>2. ~IsInner(pages[root]) /\ pages[root].entries = <<>> /\ pages[root].next = 0
  BY <1>1 DEF Leaf, IsInner
<1>3. LeafFor(k) = root
  BY <1>2, PathRoot DEF LeafFor, Last
<1>4. lower_bound_slot(<<>>, k) \in Nat /\ upper_bound_slot(<<>>, k) \in Nat
  <2>1. {i \in 1 .. Len(<<>>) : <<>>[i].key < k} = {} /\ {i \in 1 .. Len(<<>>) : <<>>[i].key <= k} = {}
    OBVIOUS
  <2>2. Cardinality({}) = 0
    BY FS_EmptySet
  <2>. QED
    BY <2>1, <2>2 DEF lower_bound_slot, upper_bound_slot
<1>. QED
  BY <1>1, <1>2, <1>3, <1>4

\* find is right in every tree at rest.
LEMMA FindRight ==
    ASSUME TreeInv, Quiet, NEW k \in Keys
    PROVE  IF k \in DOMAIN contents
           THEN find(k) # End /\ EntryAt(find(k)) = [key |-> k, rid |-> contents[k]]
           ELSE find(k) = End
<1>. DEFINE p == LeafFor(k)
            e == pages[p].entries
            s == lower_bound_slot(e, k)
<1>1. k \in Int
  BY KeysAre
<1>2. find(k) = IF s < Len(e) /\ e[s + 1].key = k THEN <<p, s>> ELSE End
  BY DEF find
<1>3. /\ Len(pages) \in Nat /\ IsMap(contents)
      /\ Bare(pages, root, first, contents) \/ \E at, top : Resting(pages, root, first, contents, at, top)
  BY QuietFacts
<1>4. CASE Bare(pages, root, first, contents)
  <2>1. p = root /\ Len(pages[root].entries) = 0 /\ lower_bound_slot(pages[root].entries, k) \in Nat
    BY <1>1, <1>3, <1>4, BareFacts
  <2>2. ~(s < Len(e))
    BY <2>1
  <2>3. k \notin DOMAIN contents
    BY <1>4 DEF Bare
  <2>. QED
    BY <1>2, <2>2, <2>3
<1>5. CASE \E at, top : Resting(pages, root, first, contents, at, top)
  <2>1. PICK at, top : Resting(pages, root, first, contents, at, top)
    BY <1>5
  <2>2. Tree(pages, at, top, contents) /\ RootOK(at, top, DOMAIN contents, root)
    BY <2>1 DEF Resting
  <2>3. PICK w \in DOMAIN contents : Located(pages, root, at, top, contents, k, w)
    BY <1>1, <2>2, Locate
  <2>. DEFINE x == at[0][w]
  <2>4. p = x
    BY <2>3 DEF Located, LeafFor, Last
  <2>5. /\ LeafBox(pages[x], x, at, contents, Len(pages)) /\ x \in 1 .. Len(pages) /\ s \in 0 .. Len(e)
        /\ (s < Len(e) /\ e[s + 1].key = k) <=> k \in DOMAIN contents
    BY <2>3, <2>4 DEF Located
  <2>6. Held(e, contents, Block(at, DOMAIN contents, 0, x))
    BY <2>4, <2>5 DEF LeafBox
  <2>. HIDE DEF p, e, s, x
  <2>7. CASE k \in DOMAIN contents
    <3>1. s < Len(e) /\ e[s + 1].key = k /\ find(k) = <<p, s>>
      BY <1>2, <2>5, <2>7
    <3>2. find(k) # End
      BY <3>1, <2>4, <2>5 DEF End
    <3>3. EntryAt(find(k)) = e[s + 1]
      BY <3>1 DEF EntryAt, e
    <3>4. e \in Seq(Entries) /\ s + 1 \in 1 .. Len(e)
      BY <2>5, <2>6, <3>1 DEF Held
    <3>5. e[s + 1] \in Entries /\ e[s + 1].rid = contents[k]
      BY <2>6, <3>1, <3>4 DEF Held
    <3>6. e[s + 1] = [key |-> k, rid |-> contents[k]]
      BY <3>1, <3>5 DEF Entries
    <3>. QED
      BY <2>7, <3>2, <3>3, <3>6
  <2>8. CASE k \notin DOMAIN contents
    <3>1. find(k) = End
      BY <1>2, <2>5, <2>8
    <3>. QED
      BY <2>8, <3>1
  <2>. QED
    BY <2>7, <2>8
<1>. QED
  BY <1>3, <1>4, <1>5

\* find answers for every key, in every tree that insert, erase and bulk_build
\* leave: with the rid of the last insert that no erase followed, else with
\* end().  No split, borrowing, merge or promotion of the root loses a key, and
\* no separator leads the search to the wrong leaf.
THEOREM FindHolds == Spec => []FindCorrect
<1>1. TreeInv => FindCorrect
  BY FindRight DEF FindCorrect
<1>. QED
  BY <1>1, TreeHolds, PTL

----------------------------------------------------------------------------
(* Iterators *)

SlotOf(e, k) == CHOOSE x \in 1 .. Len(e) : e[x].key = k
\* The iterator at the entry of key k.
Ptr(at, k) == <<at[0][k], SlotOf(pages[at[0][k]].entries, k) - 1>>

\* The iterator at an entry is that of its key.
LEMMA PtrAt ==
    ASSUME NEW at, NEW top, Tree(pages, at, top, contents), NEW w \in DOMAIN contents,
           NEW e, e = pages[at[0][w]].entries, NEW x \in 1 .. Len(e), NEW k, e[x].key = k
    PROVE  Ptr(at, k) = <<at[0][w], x - 1>> /\ k \in DOMAIN contents /\ at[0][k] = at[0][w]
<1>. DEFINE q == at[0][w]
            K == DOMAIN contents
<1>1. LeafBox(pages[q], q, at, contents, Len(pages))
  BY LeafPage
<1>2. Held(e, contents, Block(at, K, 0, q))
  BY <1>1 DEF LeafBox
<1>3. e \in Seq(Entries) /\ k \in Block(at, K, 0, q)
  BY <1>2 DEF Held
<1>4. k \in K /\ at[0][k] = q
  BY <1>3 DEF Block
<1>5. \A y \in 1 .. Len(e) : e[y].key = k => y = x
  <2>1. ASSUME NEW y \in 1 .. Len(e), e[y].key = k, y # x
        PROVE  FALSE
    <3>1. \A i, j \in 1 .. Len(e) : i < j => e[i].key < e[j].key
      BY <1>2 DEF Held
    <3>2. e[x].key \in Int
      <4>1. e[x] \in Entries
        BY <1>3
      <4>. QED
        BY <4>1, KeysAre DEF Entries
    <3>3. x < y \/ y < x
      BY <1>3, <2>1
    <3>. QED
      BY <2>1, <3>1, <3>2, <3>3
  <2>. QED
    BY <2>1
<1>6. SlotOf(e, k) = x
  BY <1>5 DEF SlotOf
<1>. HIDE DEF q
<1>7. Ptr(at, k) = <<q, SlotOf(e, k) - 1>>
  BY <1>4 DEF Ptr, q
<1>. QED
  BY <1>4, <1>6, <1>7 DEF q

\* The iterator of a key points to its entry.
LEMMA PtrFacts ==
    ASSUME NEW at, NEW top, Tree(pages, at, top, contents), NEW k \in DOMAIN contents
    PROVE  /\ \E x \in 1 .. Len(pages[at[0][k]].entries) :
                pages[at[0][k]].entries[x].key = k /\ Ptr(at, k) = <<at[0][k], x - 1>>
           /\ Ptr(at, k) # End
           /\ EntryAt(Ptr(at, k)) = [key |-> k, rid |-> contents[k]]
<1>. DEFINE q == at[0][k]
            K == DOMAIN contents
            e == pages[q].entries
<1>1. LeafBox(pages[q], q, at, contents, Len(pages))
  BY LeafPage
<1>2. Held(e, contents, Block(at, K, 0, q))
  BY <1>1 DEF LeafBox
<1>3. q \in 1 .. Len(pages)
  BY TreePages
<1>4. k \in Block(at, K, 0, q)
  BY DEF Block
<1>5. e \in Seq(Entries) /\ \E x \in 1 .. Len(e) : e[x].key = k
  <2>1. \E x \in 1 .. Len(e) : e[x].key = k
    BY <1>2, <1>4 DEF Held
  <2>. QED
    BY <1>2, <2>1 DEF Held
<1>6. PICK x \in 1 .. Len(e) : e[x].key = k
  BY <1>5
<1>7. Ptr(at, k) = <<q, x - 1>>
  BY <1>6, PtrAt
<1>. HIDE DEF q
<1>8. Ptr(at, k) # End
  BY <1>3, <1>7 DEF End
<1>9. EntryAt(Ptr(at, k)) = e[x]
  BY <1>5, <1>6, <1>7 DEF EntryAt
<1>10. e[x] \in Entries /\ e[x].rid = contents[k]
  <2>1. e[x] \in Entries
    BY <1>5, <1>6
  <2>2. \A i \in 1 .. Len(e) : e[i].rid = contents[e[i].key]
    BY <1>2 DEF Held
  <2>. QED
    BY <1>6, <2>1, <2>2
<1>11. e[x] = [key |-> k, rid |-> contents[k]]
  BY <1>6, <1>10 DEF Entries
<1>. QED
  BY <1>6, <1>7, <1>8, <1>9, <1>11 DEF q

\* The iterator it is at the first of the keys T.
Ahead(at, it, T) ==
    IF T = {} THEN it = End ELSE \E m \in T : (\A k \in T : m <= k) /\ it = Ptr(at, m)
\* The keys T are those after the first s entries of the leaf of w, and those
\* of the leaves to the right of it.
Beyond(at, w, s, T) ==
    LET e == pages[at[0][w]].entries
    IN  /\ T \subseteq DOMAIN contents /\ s \in 0 .. Len(e)
        /\ \A i \in 1 .. Len(e) : e[i].key \in T <=> i > s
        /\ \A x \in DOMAIN contents : at[0][x] # at[0][w] => (x \in T <=> x > w)

\* A key of another leaf lies on one side of all keys of the leaf of w.
LEMMA Aside ==
    ASSUME NEW at, NEW top, Tree(pages, at, top, contents), NEW w \in DOMAIN contents,
           NEW j \in DOMAIN contents, at[0][j] = at[0][w],
           NEW x \in DOMAIN contents, at[0][x] # at[0][w]
    PROVE  x > w <=> x > j
<1>. DEFINE K == DOMAIN contents
<1>1. Grid(at, top, K, Len(pages)) /\ K \subseteq Int /\ 0 \in 0 .. top
  BY TreePages
<1>2. ~(w < x /\ x < j) /\ ~(j < x /\ x < w)
  BY <1>1, Convex
<1>3. x # w /\ x # j
  OBVIOUS
<1>. QED
  BY <1>1, <1>2, <1>3

\* The iterator at the first key after slot s of a leaf.
LEMMA AtOrNextIs ==
    ASSUME NEW at, NEW top, Tree(pages, at, top, contents), NEW w \in DOMAIN contents,
           NEW s, NEW T, Beyond(at, w, s, T)
    PROVE  Ahead(at, AtOrNext(at[0][w], s), T)
<1>. DEFINE K == DOMAIN contents
            q == at[0][w]
            e == pages[q].entries
            n == pages[q].next
<1>1. LeafBox(pages[q], q, at, contents, Len(pages))
  BY LeafPage
<1>2. Held(e, contents, Block(at, K, 0, q)) /\ NextOK(at, K, q, n) /\ e # <<>>
  BY <1>1, SMTT(20) DEF LeafBox
<1>3. /\ e \in Seq(Entries)
      /\ \A i, j \in 1 .. Len(e) : i < j => e[i].key < e[j].key
      /\ \A i \in 1 .. Len(e) : e[i].key \in K /\ at[0][e[i].key] = q
      /\ \A k \in K : at[0][k] = q => \E i \in 1 .. Len(e) : e[i].key = k
  BY <1>2 DEF Held, Block
<1>4. /\ T \subseteq K /\ s \in 0 .. Len(e)
      /\ \A i \in 1 .. Len(e) : e[i].key \in T <=> i > s
      /\ \A x \in K : at[0][x] # q => (x \in T <=> x > w)
  BY DEF Beyond
<1>5. K \subseteq Int /\ Len(e) \in Nat /\ Len(e) >= 1
  <2>1. Len(e) # 0
    BY <1>2, <1>3
  <2>. QED
    BY <1>3, <2>1, TreePages, SMTT(20)
<1>6. Grid(at, top, K, Len(pages)) /\ 0 \in 0 .. top /\ \A k \in K : at[0][k] \in 1 .. Len(pages)
  BY TreePages
<1>7. CASE s < Len(e)
  <2>. DEFINE m == e[s + 1].key
  <2>1. s + 1 \in 1 .. Len(e) /\ s + 1 > s
    BY <1>4, <1>5, <1>7, SMTT(20)
  <2>2. m \in T /\ m \in K /\ at[0][m] = q
    BY <1>3, <1>4, <2>1
  <2>3. AtOrNext(q, s) = <<q, s>>
    BY <1>7 DEF AtOrNext
  <2>4. Ptr(at, m) = <<q, (s + 1) - 1>>
    BY <2>1, PtrAt
  <2>5. Ptr(at, m) = AtOrNext(q, s)
    BY <1>4, <2>3, <2>4
  <2>6. ASSUME NEW k \in T, at[0][k] = q
        PROVE  m <= k
    <3>1. PICK i \in 1 .. Len(e) : e[i].key = k
      BY <1>3, <1>4, <2>6
    <3>2. i > s
      BY <1>4, <3>1
    <3>3. i = s + 1 \/ s + 1 < i
      BY <1>4, <1>5, <3>2
    <3>4. k \in Int /\ m \in Int
      BY <1>4, <1>5, <2>2
    <3>5. s + 1 < i => m < k
      BY <1>3, <2>1, <3>1
    <3>. QED
      BY <3>1, <3>3, <3>4, <3>5
  <2>7. ASSUME NEW k \in T, at[0][k] # q
        PROVE  m <= k
    <3>1. k \in K /\ k > w
      BY <1>4, <2>7
    <3>2. k > m
      BY <2>2, <2>7, <3>1, Aside
    <3>. QED
      BY <1>5, <2>2, <3>1, <3>2
  <2>. HIDE DEF m, q
  <2>8. \A k \in T : m <= k
    BY <2>6, <2>7
  <2>. QED
    BY <2>2, <2>5, <2>8 DEF Ahead, q
<1>8. CASE ~(s < Len(e))
  <2>. DEFINE j == e[Len(e)].key
  <2>1. j \in K /\ at[0][j] = q /\ j \in Block(at, K, 0, q) /\ j \in Int
    <3>1. Len(e) \in 1 .. Len(e)
      BY <1>5
    <3>2. j \in K /\ at[0][j] = q
      BY <1>3, <3>1
    <3>. QED
      BY <1>5, <3>2 DEF Block
  <2>2. \A i \in 1 .. Len(e) : ~(i > s)
    BY <1>4, <1>5, <1>8
  <2>3. \A k \in K : at[0][k] = q => k <= j /\ k \notin T
    <3>1. ASSUME NEW k \in K, at[0][k] = q
          PROVE  k <= j /\ k \notin T
      <4>1. PICK i \in 1 .. Len(e) : e[i].key = k
        BY <1>3, <3>1
      <4>2. k \notin T
        BY <1>4, <2>2, <4>1
      <4>3. i = Len(e) \/ (i < Len(e) /\ Len(e) \in 1 .. Len(e))
        BY <1>5
      <4>4. k = j \/ k < j
        BY <1>3, <4>1, <4>3
      <4>5. k \in Int
        BY <1>5
      <4>. QED
        BY <2>1, <4>2, <4>4, <4>5
    <3>. QED
      BY <3>1
  <2>. HIDE DEF j
  <2>4. \A k \in K : k \in T <=> k > j
    <3>1. ASSUME NEW k \in K
          PROVE  k \in T <=> k > j
      <4>1. CASE at[0][k] = q
        <5>1. k <= j /\ k \notin T /\ k \in Int
          BY <1>5, <2>3, <4>1
        <5>. QED
          BY <2>1, <5>1
      <4>2. CASE at[0][k] # q
        <5>1. k \in T <=> k > w
          BY <1>4, <4>2
        <5>2. k > w <=> k > j
          BY <2>1, <4>2, Aside
        <5>. QED
          BY <5>1, <5>2
      <4>. QED
        BY <4>1, <4>2
    <3>. QED
      BY <3>1
  <2>5. AtOrNext(q, s) = IF n # 0 THEN IteratorAt(n, 0) ELSE End
    BY <1>8 DEF AtOrNext
  <2>6. \/ n = 0 /\ \A k \in K : j < k => at[0][k] = q
        \/ \E k \in K : /\ j < k /\ n = at[0][k] /\ n # q
                        /\ \A i \in K : j < i /\ i < k => at[0][i] = q
    BY <1>2, <2>1 DEF NextOK
  <2>7. CASE n = 0 /\ \A k \in K : j < k => at[0][k] = q
    <3>1. T = {}
      <4>1. \A k \in K : ~(k > j)
        <5>1. ASSUME NEW k \in K, k > j
              PROVE  FALSE
          <6>1. k \in Int /\ j < k
            BY <1>5, <2>1, <5>1
          <6>2. k <= j
            BY <2>3, <2>7, <6>1
          <6>. QED
            BY <2>1, <6>1, <6>2
        <5>. QED
          BY <5>1
      <4>. QED
        BY <1>4, <2>4, <4>1
    <3>2. AtOrNext(q, s) = End
      BY <2>5, <2>7
    <3>. QED
      BY <3>1, <3>2 DEF Ahead
  <2>8. CASE \E k \in K : /\ j < k /\ n = at[0][k] /\ n # q
                          /\ \A i \in K : j < i /\ i < k => at[0][i] = q
    <3>1. PICK k \in K : /\ j < k /\ n = at[0][k] /\ n # q
                         /\ \A i \in K : j < i /\ i < k => at[0][i] = q
      BY <2>8
    <3>. DEFINE e2 == pages[n].entries
                m == e2[1].key
    <3>2. LeafBox(pages[n], n, at, contents, Len(pages))
      BY <3>1, LeafPage, Zenon
    <3>3. Held(e2, contents, Block(at, K, 0, n)) /\ IsLeaf(pages[n]) /\ e2 # <<>>
      BY <3>2, ZenonT(60) DEF LeafBox
    <3>4. /\ e2 \in Seq(Entries)
          /\ \A x, y \in 1 .. Len(e2) : x < y => e2[x].key < e2[y].key
          /\ \A x \in 1 .. Len(e2) : e2[x].key \in K /\ at[0][e2[x].key] = n
          /\ \E x \in 1 .. Len(e2) : e2[x].key = k
      <4>1. k \in Block(at, K, 0, n)
        BY <3>1 DEF Block
      <4>. QED
        BY <3>3, <4>1, Zenon DEF Held, Block
    <3>5. Len(e2) \in Nat /\ 1 \in 1 .. Len(e2) /\ 0 < Len(e2)
      <4>1. e2 \in Seq(Entries) /\ e2 # <<>>
        BY <3>3, <3>4, Zenon
      <4>2. Len(e2) # 0 /\ Len(e2) \in Nat
        BY ONLY <4>1, NonEmptyLen
      <4>. HIDE DEF e2
      <4>. QED
        BY <4>2
    <3>6. m \in K /\ at[0][m] = n /\ m \in Int /\ k \in Int
      BY <1>5, <3>4, <3>5, Zenon
    <3>7. m <= k
      <4>1. PICK x \in 1 .. Len(e2) : e2[x].key = k
        BY <3>4, Zenon
      <4>2. x = 1 \/ 1 < x
        <5>1. x \in 1 .. Len(e2)
          BY Zenon
        <5>. HIDE DEF e2
        <5>. QED
          BY ONLY <5>1
      <4>3. m = k \/ m < k
        BY <3>4, <3>5, <4>1, <4>2, Zenon
      <4>. HIDE DEF m
      <4>. QED
        BY ONLY <3>6, <4>3
    <3>8. n # 0
      <4>1. at[0][k] \in 1 .. Len(pages)
        BY <1>6, SMTT(20)
      <4>. QED
        BY <3>1, <4>1
    <3>9. AtOrNext(q, s) = <<n, 0>>
      BY <2>5, <3>3, <3>5, <3>8 DEF IteratorAt
    <3>10. Ptr(at, m) = <<n, 1 - 1>>
      <4>1. 1 \in 1 .. Len(pages[at[0][k]].entries)
        BY <3>1, <3>5
      <4>2. Ptr(at, pages[at[0][k]].entries[1].key) = <<at[0][k], 1 - 1>>
        BY <4>1, PtrAt
      <4>. QED
        BY <3>1, <4>2
    <3>. HIDE DEF m, e2, n, q
    <3>11. m > j
      <4>1. ~(m < j)
        <5>1. ASSUME m < j
              PROVE  FALSE
          <6>1. at[0][j] = at[0][m]
            BY <1>6, <2>1, <3>1, <3>6, <5>1, Convex
          <6>. QED
            BY <2>1, <3>1, <3>6, <6>1
        <5>. QED
          BY <5>1
      <4>2. m # j
        BY <2>1, <3>1, <3>6
      <4>. QED
        BY <2>1, <3>6, <4>1, <4>2
    <3>12. m \in T
      BY <2>4, <3>6, <3>11
    <3>13. \A x \in T : m <= x
      <4>1. ASSUME NEW x \in T, ~(m <= x)
            PROVE  FALSE
        <5>1. x \in K /\ x \in Int /\ x > j
          BY <1>4, <1>5, <2>4
        <5>2. j < x /\ x < k
          BY <2>1, <3>6, <3>7, <4>1, <5>1
        <5>3. at[0][x] = q
          BY <3>1, <5>1, <5>2
        <5>. QED
          BY <2>3, <5>1, <5>3
      <4>. QED
        BY <4>1
    <3>14. AtOrNext(q, s) = Ptr(at, m)
      BY <3>9, <3>10
    <3>. QED
      BY <3>12, <3>13, <3>14 DEF Ahead, q
  <2>. QED
    BY <2>6, <2>7, <2>8
<1>. QED
  BY <1>7, <1>8

----------------------------------------------------------------------------
(* Where iterators start and go *)

AfterKey(k) == {x \in DOMAIN contents : x > k}
FromKey(k) == {x \in DOMAIN contents : x >= k}

\* The next entry is that of the next greater key.
LEMMA AdvanceIs ==
    ASSUME NEW at, NEW top, Tree(pages, at, top, contents), NEW k \in DOMAIN contents
    PROVE  Ahead(at, Advance(Ptr(at, k)), AfterKey(k))
<1>. DEFINE K == DOMAIN contents
            q == at[0][k]
            e == pages[q].entries
            T == AfterKey(k)
<1>1. PICK x \in 1 .. Len(e) : e[x].key = k /\ Ptr(at, k) = <<q, x - 1>>
  BY PtrFacts
<1>2. LeafBox(pages[q], q, at, contents, Len(pages))
  BY LeafPage
<1>3. Held(e, contents, Block(at, K, 0, q))
  BY <1>2 DEF LeafBox
<1>4. /\ e \in Seq(Entries) /\ Len(e) \in Nat
      /\ \A i, j \in 1 .. Len(e) : i < j => e[i].key < e[j].key
      /\ \A i \in 1 .. Len(e) : e[i].key \in K /\ at[0][e[i].key] = q
  <2>. HIDE DEF e, q
  <2>1. e \in Seq(Entries) /\ Len(e) \in Nat
    BY <1>3 DEF Held
  <2>2. \A i, j \in 1 .. Len(e) : i < j => e[i].key < e[j].key
    BY <1>3 DEF Held
  <2>3. \A i \in 1 .. Len(e) : e[i].key \in K /\ at[0][e[i].key] = q
    BY <1>3 DEF Held, Block
  <2>. QED
    BY <2>1, <2>2, <2>3
<1>5. K \subseteq Int
  BY TreePages
<1>6. Advance(Ptr(at, k)) = AtOrNext(q, (x - 1) + 1)
  BY <1>1 DEF Advance
<1>7. (x - 1) + 1 = x /\ x \in 0 .. Len(e)
  BY <1>1, <1>4
<1>8. \A i \in 1 .. Len(e) : e[i].key \in T <=> i > x
  <2>1. ASSUME NEW i \in 1 .. Len(e)
        PROVE  e[i].key \in T <=> i > x
    <3>1. e[i].key \in K /\ e[i].key \in Int /\ k \in Int
      BY <1>4, <1>5
    <3>2. i < x \/ i = x \/ x < i
      OBVIOUS
    <3>3. (i < x => e[i].key < k) /\ (x < i => k < e[i].key) /\ (i = x => e[i].key = k)
      BY <1>1, <1>4
    <3>. HIDE DEF e
    <3>4. e[i].key > k <=> i > x
      BY <3>1, <3>2, <3>3
    <3>. QED
      BY <3>1, <3>4 DEF AfterKey
  <2>. QED
    BY <2>1
<1>9. \A y \in K : at[0][y] # q => (y \in T <=> y > k)
  BY DEF AfterKey
<1>10. Beyond(at, k, x, T)
  BY <1>7, <1>8, <1>9 DEF Beyond, AfterKey
<1>11. Ahead(at, AtOrNext(q, x), T)
  BY <1>10, AtOrNextIs
<1>. QED
  BY <1>6, <1>7, <1>11

\* The bounds of a key.
LEMMA BoundsAre ==
    ASSUME NEW at, NEW top, Resting(pages, root, first, contents, at, top), NEW k \in Int
    PROVE  Ahead(at, lower_bound(k), FromKey(k)) /\ Ahead(at, upper_bound(k), AfterKey(k))
<1>. DEFINE K == DOMAIN contents
<1>1. Tree(pages, at, top, contents) /\ RootOK(at, top, K, root)
  BY DEF Resting
<1>2. PICK w \in K : Located(pages, root, at, top, contents, k, w)
  BY <1>1, Locate
<1>. DEFINE q == at[0][w]
            e == pages[q].entries
            lo == lower_bound_slot(e, k)
            up == upper_bound_slot(e, k)
<1>3. LeafFor(k) = q
  BY <1>2 DEF Located, LeafFor, Last
<1>4. lower_bound(k) = AtOrNext(q, lo) /\ upper_bound(k) = AtOrNext(q, up)
  BY <1>3 DEF lower_bound, upper_bound
<1>5. Held(e, contents, Block(at, K, 0, q)) /\ Fits(at, K, 0, k, w)
  BY <1>2 DEF Located, LeafBox, Walk
<1>6. /\ lo \in 0 .. Len(e) /\ up \in 0 .. Len(e)
      /\ \A i \in 1 .. Len(e) : i <= lo <=> e[i].key < k
      /\ \A i \in 1 .. Len(e) : i <= up <=> e[i].key <= k
  <2>. HIDE DEF e
  <2>. QED
    BY <1>5, SlotFacts
<1>7. e \in Seq(Entries) /\ Len(e) \in Nat /\ \A i \in 1 .. Len(e) : e[i].key \in K
  <2>. DEFINE B == Block(at, K, 0, q)
  <2>1. B \subseteq K
    BY DEF Block
  <2>2. Held(e, contents, B)
    BY <1>5
  <2>. HIDE DEF e, B
  <2>3. e \in Seq(Entries) /\ \A i \in 1 .. Len(e) : e[i].key \in B
    BY <2>2, Zenon DEF Held
  <2>. QED
    BY <2>1, <2>3
<1>8. K \subseteq Int
  BY <1>1, TreePages
<1>9. \A x \in K : at[0][x] # q => (x \in FromKey(k) <=> x > w) /\ (x \in AfterKey(k) <=> x > w)
  <2>1. ASSUME NEW x \in K, at[0][x] # q
        PROVE  (x \in FromKey(k) <=> x > w) /\ (x \in AfterKey(k) <=> x > w)
    <3>1. (x < w => x < k) /\ (w < x => k < x) /\ x # w
      BY <1>5, <2>1 DEF Fits
    <3>2. x \in Int /\ w \in Int
      BY <1>8
    <3>. QED
      BY <3>1, <3>2 DEF FromKey, AfterKey
  <2>. QED
    BY <2>1
<1>. HIDE DEF lo, up, q, e
<1>10. \A i \in 1 .. Len(e) : /\ e[i].key \in FromKey(k) <=> i > lo
                              /\ e[i].key \in AfterKey(k) <=> i > up
  <2>1. ASSUME NEW i \in 1 .. Len(e)
        PROVE  (e[i].key \in FromKey(k) <=> i > lo) /\ (e[i].key \in AfterKey(k) <=> i > up)
    <3>. DEFINE z == e[i].key
    <3>1. z \in K /\ z \in Int /\ (i <= lo <=> z < k) /\ (i <= up <=> z <= k) /\ i \in Int /\ lo \in Int /\ up \in Int
      BY <1>6, <1>7, <1>8
    <3>. HIDE DEF z
    <3>2. (z >= k <=> i > lo) /\ (z > k <=> i > up)
      BY <3>1
    <3>3. (z \in FromKey(k) <=> i > lo) /\ (z \in AfterKey(k) <=> i > up)
      BY <3>1, <3>2 DEF FromKey, AfterKey
    <3>. QED
      BY <3>3 DEF z
  <2>. QED
    BY <2>1
<1>11. FromKey(k) \subseteq K /\ AfterKey(k) \subseteq K
  BY DEF FromKey, AfterKey
<1>12. Beyond(at, w, lo, FromKey(k)) /\ Beyond(at, w, up, AfterKey(k))
  BY <1>6, <1>9, <1>10, <1>11 DEF Beyond, q, e
<1>. QED
  BY <1>1, <1>4, <1>12, AtOrNextIs DEF q

\* begin.
LEMMA BeginIs ==
    ASSUME NEW at, NEW top, Resting(pages, root, first, contents, at, top), size = Cardinality(DOMAIN contents)
    PROVE  Ahead(at, begin, DOMAIN contents)
<1>. DEFINE K == DOMAIN contents
<1>1. Tree(pages, at, top, contents) /\ FirstOK(at, K, first)
  BY DEF Resting
<1>2. K # {} /\ K \subseteq Int /\ IsFiniteSet(K)
  <2>1. K # {} /\ K \subseteq Int /\ K \subseteq Keys
    BY <1>1, TreePages
  <2>2. IsFiniteSet(K)
    BY <2>1, KeysAre, FS_Subset
  <2>. QED
    BY <2>1, <2>2
<1>3. size # 0
  BY <1>2, FS_EmptySet
<1>4. PICK w \in K : \A j \in K : w <= j
  BY <1>2, LeastKey
<1>5. first = at[0][w]
  BY <1>1, <1>4 DEF FirstOK
<1>. DEFINE q == at[0][w]
            e == pages[q].entries
<1>6. LeafBox(pages[q], q, at, contents, Len(pages))
  BY <1>1, LeafPage
<1>7. Held(e, contents, Block(at, K, 0, q)) /\ IsLeaf(pages[q])
  BY <1>6 DEF LeafBox
<1>8. PICK x \in 1 .. Len(e) : e[x].key = w /\ Ptr(at, w) = <<q, x - 1>>
  BY <1>1, PtrFacts
<1>9. x = 1
  <2>1. ASSUME x # 1 PROVE FALSE
    <3>1. 1 \in 1 .. Len(e) /\ 1 < x /\ e \in Seq(Entries)
      BY <1>7, <1>8, <2>1, SMTT(20) DEF Held
    <3>2. e[1].key < e[x].key
      BY <1>7, <3>1, SMTT(20) DEF Held
    <3>3. e[1].key \in K
      BY <1>7, <3>1 DEF Held, Block
    <3>. HIDE DEF e
    <3>4. e[1].key < w /\ w <= e[1].key /\ w \in Int /\ e[1].key \in Int
      BY <1>2, <1>4, <1>8, <3>2, <3>3
    <3>. QED
      BY <3>4, SMTT(20)
  <2>. QED
    BY <2>1
<1>10. begin = <<q, 0>>
  <2>1. 0 < Len(e)
    BY <1>7, <1>8 DEF Held
  <2>. QED
    BY <1>3, <1>5, <1>7, <2>1, SMTT(20) DEF begin, IteratorAt
<1>11. begin = Ptr(at, w)
  BY <1>8, <1>9, <1>10
<1>. QED
  BY <1>2, <1>4, <1>11 DEF Ahead

----------------------------------------------------------------------------
(* Scans *)

\* ptr[1], ptr[2], ... are the iterators from it on, N entries up to End.
Chain(ptr, it, N) ==
    /\ ptr[1] = it /\ ptr[N + 1] = End
    /\ \A i \in 1 .. N : ptr[i] # End /\ Advance(ptr[i]) = ptr[i + 1]

\* One element more.
LEMMA AppendNext ==
    ASSUME NEW E, NEW m \in Nat
    PROVE  Append([j \in 1 .. m |-> E[j]], E[m + 1]) = [j \in 1 .. m + 1 |-> E[j]]
<1>. DEFINE S == {E[j] : j \in 1 .. m + 1}
            a == [j \in 1 .. m |-> E[j]]
            b == [j \in 1 .. m + 1 |-> E[j]]
<1>1. a \in Seq(S) /\ Len(a) = m /\ E[m + 1] \in S
  <2>1. a \in [1 .. m -> S] /\ E[m + 1] \in S
    OBVIOUS
  <2>. QED
    BY <2>1
<1>2. b \in Seq(S) /\ Len(b) = m + 1
  <2>1. b \in [1 .. m + 1 -> S]
    OBVIOUS
  <2>. QED
    BY <2>1
<1>3. \A j \in 1 .. m : a[j] = E[j]
  OBVIOUS
<1>4. \A j \in 1 .. m + 1 : b[j] = E[j]
  OBVIOUS
<1>. HIDE DEF a, b, S
<1>5. Append(a, E[m + 1]) = b
  <2>. DEFINE c == Append(a, E[m + 1])
  <2>1. c \in Seq(S) /\ Len(c) = m + 1
    BY <1>1
  <2>2. \A j \in 1 .. m + 1 : c[j] = b[j]
    <3>1. \A j \in 1 .. m + 1 : j \in 1 .. m \/ j = m + 1
      OBVIOUS
    <3>2. c[m + 1] = E[m + 1] /\ \A j \in 1 .. m : c[j] = a[j]
      BY <1>1
    <3>. QED
      BY <1>3, <1>4, <3>1, <3>2
  <2>. HIDE DEF c
  <2>3. c = b
    BY <1>2, <2>1, <2>2
  <2>. QED
    BY <2>3 DEF c
<1>. QED
  BY <1>5 DEF a, b

\* A scan is the entries along its iterators.
LEMMA ScanChain ==
    ASSUME NEW it, NEW n \in Nat, NEW N \in Nat, N <= n, NEW ptr, Chain(ptr, it, N),
           NEW E, \A i \in 1 .. N : E[i] = EntryAt(ptr[i])
    PROVE  Scan(it, n) = [i \in 1 .. N |-> E[i]]
<1>. DEFINE m(i) == IF i <= N THEN i ELSE N
            G(f) == [k \in 0 .. n |-> IF k = 0 THEN [met |-> <<>>, at |-> it]
                      ELSE LET h == f[k - 1]
                           IN  IF h.at = End THEN h
                               ELSE [met |-> Append(h.met, EntryAt(h.at)), at |-> Advance(h.at)]]
            g == [i \in 0 .. n |-> [met |-> [j \in 1 .. m(i) |-> E[j]], at |-> ptr[m(i) + 1]]]
            f == CHOOSE h : h = G(h)
<1>1. Scan(it, n) = f[n].met
  BY DEF Scan
<1>2. /\ ptr[1] = it /\ ptr[N + 1] = End
      /\ \A i \in 1 .. N : ptr[i] # End /\ Advance(ptr[i]) = ptr[i + 1]
  BY DEF Chain
<1>3. g[0] = G(g)[0]
  <2>1. 0 \in 0 .. n /\ m(0) = 0 /\ 0 + 1 = 1
    OBVIOUS
  <2>2. [j \in 1 .. 0 |-> E[j]] = <<>>
    OBVIOUS
  <2>3. g[0] = [met |-> [j \in 1 .. 0 |-> E[j]], at |-> ptr[1]]
    BY <2>1
  <2>4. G(g)[0] = [met |-> <<>>, at |-> it]
    BY <2>1, SMTT(20)
  <2>. QED
    BY <1>2, <2>2, <2>3, <2>4
<1>4. ASSUME NEW i \in 1 .. n
      PROVE  g[i] = G(g)[i]
  <2>1. i \in 0 .. n /\ i - 1 \in 0 .. n /\ i # 0
    OBVIOUS
  <2>. DEFINE h == g[i - 1]
  <2>2. G(g)[i] = IF h.at = End THEN h
                  ELSE [met |-> Append(h.met, EntryAt(h.at)), at |-> Advance(h.at)]
    BY <2>1
  <2>3. CASE i <= N
    <3>1. m(i) = i /\ m(i - 1) = i - 1 /\ i - 1 + 1 = i /\ i \in 1 .. N /\ i - 1 \in Nat
      BY <2>3
    <3>2. h = [met |-> [j \in 1 .. i - 1 |-> E[j]], at |-> ptr[i]]
      BY <2>1, <3>1
    <3>3. g[i] = [met |-> [j \in 1 .. i |-> E[j]], at |-> ptr[i + 1]]
      BY <2>1, <3>1
    <3>. HIDE DEF h, g
    <3>4. G(g)[i] = [met |-> Append([j \in 1 .. i - 1 |-> E[j]], EntryAt(ptr[i])), at |-> ptr[i + 1]]
      <4>1. h.at = ptr[i] /\ h.met = [j \in 1 .. i - 1 |-> E[j]]
        BY <3>2
      <4>2. ptr[i] # End /\ Advance(ptr[i]) = ptr[i + 1]
        BY <1>2, <3>1
      <4>. HIDE DEF G
      <4>. QED
        BY <2>2, <4>1, <4>2
    <3>5. Append([j \in 1 .. i - 1 |-> E[j]], E[i]) = [j \in 1 .. i |-> E[j]]
      <4>. DEFINE z == i - 1
      <4>1. z \in Nat /\ z + 1 = i
        BY <3>1
      <4>. HIDE DEF z
      <4>2. Append([j \in 1 .. z |-> E[j]], E[z + 1]) = [j \in 1 .. z + 1 |-> E[j]]
        BY <4>1, AppendNext
      <4>. QED
        BY <4>1, <4>2 DEF z
    <3>6. E[i] = EntryAt(ptr[i])
      BY <3>1
    <3>. HIDE DEF G
    <3>. QED
      BY <3>3, <3>4, <3>5, <3>6
  <2>4. CASE ~(i <= N)
    <3>1. m(i) = N /\ m(i - 1) = N
      BY <2>4
    <3>2. h = [met |-> [j \in 1 .. N |-> E[j]], at |-> ptr[N + 1]]
      BY <2>1, <3>1
    <3>3. g[i] = [met |-> [j \in 1 .. N |-> E[j]], at |-> ptr[N + 1]]
      BY <2>1, <3>1
    <3>4. h.at = End
      BY <1>2, <3>2
    <3>. HIDE DEF h, g, G
    <3>. QED
      BY <2>2, <3>2, <3>3, <3>4
  <2>. QED
    BY <2>3, <2>4
<1>5. g = G(g)
  <2>1. \A i \in 0 .. n : i = 0 \/ i \in 1 .. n
    BY SMTT(20)
  <2>2. \A i \in 0 .. n : g[i] = G(g)[i]
    BY <1>3, <1>4, <2>1
  <2>3. g = [i \in 0 .. n |-> g[i]]
    OBVIOUS
  <2>4. G(g) = [i \in 0 .. n |-> G(g)[i]]
    OBVIOUS
  <2>. HIDE DEF g, G
  <2>. QED
    BY <2>2, <2>3, <2>4
<1>6. f = G(f)
  <2>. HIDE DEF G, g
  <2>. QED
    BY <1>5
<1>7. ASSUME NEW i \in 0 .. n PROVE f[i] = g[i]
  <2>. DEFINE T == {x \in 0 .. n : f[x] # g[x]}
  <2>1. ASSUME T # {} PROVE FALSE
    <3>1. T \in SUBSET Nat
      OBVIOUS
    <3>. HIDE DEF T
    <3>2. PICK y \in T : \A z \in T : y <= z
      BY <2>1, <3>1, LeastNatural
    <3>. HIDE DEF f, g, G
    <3>3. y \in 0 .. n /\ f[y] # g[y] /\ f[y] = G(f)[y] /\ g[y] = G(g)[y]
      BY <3>2, <1>5, <1>6 DEF T
    <3>4. CASE y = 0
      BY <3>3, <3>4 DEF G
    <3>5. CASE y # 0
      <4>1. y - 1 \in 0 .. n /\ y - 1 \notin T
        BY <3>2, <3>3, <3>5
      <4>2. f[y - 1] = g[y - 1]
        BY <4>1 DEF T
      <4>. QED
        BY <3>3, <3>5, <4>2 DEF G
    <3>. QED
      BY <3>4, <3>5
  <2>. QED
    BY <2>1
<1>8. n \in 0 .. n /\ m(n) = N
  OBVIOUS
<1>9. g[n].met = [j \in 1 .. N |-> E[j]]
  BY <1>8
<1>. HIDE DEF f, g
<1>. QED
  BY <1>1, <1>7, <1>8, <1>9

\* The entries of the map with the keys T, in key order.
Listed(T) == LET ks == InOrder(T)
             IN  [i \in 1 .. Len(ks) |-> [key |-> ks[i], rid |-> contents[ks[i]]]]

\* ks has the keys T in order.
Sorted(ks, T) ==
    /\ ks \in Seq(T)
    /\ \A a \in T : \E i \in 1 .. Len(ks) : ks[i] = a
    /\ \A i, j \in 1 .. Len(ks) : i < j => ks[i] < ks[j]
\* The keys of K after the i-th of T.
NextKeys(ks, T, K) ==
    /\ Len(ks) \in Nat /\ (T = {} <=> Len(ks) = 0)
    /\ \A i \in 1 .. Len(ks) : ks[i] \in T
    /\ T # {} => ks[1] \in T /\ \A x \in T : ks[1] <= x
    /\ \A i \in 1 .. Len(ks) :
         /\ i < Len(ks) => /\ ks[i + 1] \in {x \in K : x > ks[i]}
                           /\ \A x \in {y \in K : y > ks[i]} : ks[i + 1] <= x
         /\ i = Len(ks) => {x \in K : x > ks[i]} = {}

\* T has every key of K that is greater than one of its own.
LEMMA OrderNext ==
    ASSUME NEW K, K \subseteq Int, NEW T, T \subseteq K, \A x \in T, y \in K : x < y => y \in T,
           NEW ks, Sorted(ks, T)
    PROVE  NextKeys(ks, T, K)
<1>1. T \subseteq Int
  OBVIOUS
<1>2. /\ ks \in Seq(T) /\ Len(ks) \in Nat
      /\ \A a \in T : \E i \in 1 .. Len(ks) : ks[i] = a
      /\ \A i, j \in 1 .. Len(ks) : i < j => ks[i] < ks[j]
  BY DEF Sorted
<1>3. \A i \in 1 .. Len(ks) : ks[i] \in T /\ ks[i] \in Int
  <2>1. \A i \in 1 .. Len(ks) : ks[i] \in T
    BY ONLY <1>2
  <2>. QED
    BY <1>1, <2>1
\* What is greater than the i-th key comes after it.
<1>4. ASSUME NEW i \in 1 .. Len(ks), NEW x \in K, x > ks[i]
      PROVE  \E j \in 1 .. Len(ks) : i < j /\ ks[j] = x
  <2>1. x \in T
    <3>1. ks[i] < x
      BY <1>3, <1>4
    <3>. QED
      BY <1>3, <3>1
  <2>2. PICK j \in 1 .. Len(ks) : ks[j] = x
    BY <1>2, <2>1
  <2>3. ~(j < i) /\ j # i
    <3>1. j < i => x < ks[i]
      BY <1>2, <2>2
    <3>. QED
      BY <1>3, <1>4, <2>2, <3>1
  <2>. QED
    BY <2>2, <2>3
<1>5. ASSUME NEW i \in 1 .. Len(ks), NEW j \in 1 .. Len(ks), i <= j
      PROVE  ks[i] <= ks[j]
  <2>1. i = j \/ i < j
    BY <1>5
  <2>2. ks[i] = ks[j] \/ ks[i] < ks[j]
    BY <1>2, <2>1
  <2>. QED
    BY <1>3, <2>2
<1>6. T = {} <=> Len(ks) = 0
  <2>1. T # {} => Len(ks) # 0
    <3>1. ASSUME NEW a \in T PROVE Len(ks) # 0
      <4>1. PICK i \in 1 .. Len(ks) : ks[i] = a
        BY <1>2
      <4>2. Len(ks) \in Nat
        BY <1>2
      <4>. QED
        BY <4>1, <4>2
    <3>. QED
      BY <3>1
  <2>2. Len(ks) # 0 => T # {}
    <3>1. Len(ks) \in Nat
      BY <1>2
    <3>2. Len(ks) # 0 => 1 \in 1 .. Len(ks)
      BY <3>1
    <3>. QED
      BY <1>3, <3>2
  <2>. QED
    BY <2>1, <2>2
<1>7. ASSUME T # {} PROVE ks[1] \in T /\ \A x \in T : ks[1] <= x
  <2>1. 1 \in 1 .. Len(ks)
    <3>1. Len(ks) \in Nat /\ Len(ks) # 0
      BY <1>2, <1>6, <1>7
    <3>. QED
      BY <3>1
  <2>2. ASSUME NEW x \in T PROVE ks[1] <= x
    <3>1. PICK j \in 1 .. Len(ks) : ks[j] = x
      BY <1>2
    <3>2. 1 <= j
      OBVIOUS
    <3>. QED
      BY <1>5, <2>1, <3>1, <3>2
  <2>. QED
    BY <1>3, <2>1, <2>2
<1>8. ASSUME NEW i \in 1 .. Len(ks), i < Len(ks)
      PROVE  /\ ks[i + 1] \in {x \in K : x > ks[i]}
             /\ \A x \in {y \in K : y > ks[i]} : ks[i + 1] <= x
  <2>1. i + 1 \in 1 .. Len(ks) /\ i < i + 1
    BY <1>2, <1>8
  <2>2. ks[i] < ks[i + 1] /\ ks[i + 1] \in K /\ ks[i + 1] > ks[i]
    <3>1. ks[i] < ks[i + 1]
      BY <1>2, <2>1
    <3>. QED
      BY <1>3, <2>1, <3>1
  <2>3. ASSUME NEW x \in {y \in K : y > ks[i]} PROVE ks[i + 1] <= x
    <3>1. PICK j \in 1 .. Len(ks) : i < j /\ ks[j] = x
      BY <1>4
    <3>2. i + 1 <= j
      BY <3>1
    <3>. QED
      BY <1>5, <2>1, <3>1, <3>2
  <2>. QED
    BY <2>2, <2>3
<1>9. ASSUME NEW i \in 1 .. Len(ks), i = Len(ks)
      PROVE  {x \in K : x > ks[i]} = {}
  <2>1. ASSUME NEW x \in K, x > ks[i] PROVE FALSE
    <3>1. PICK j \in 1 .. Len(ks) : i < j /\ ks[j] = x
      BY <1>4, <2>1
    <3>. QED
      BY <1>2, <1>9, <3>1
  <2>. QED
    BY <2>1
<1>. QED
  BY <1>2, <1>3, <1>6, <1>7, <1>8, <1>9 DEF NextKeys

\* There is one iterator at the first of some keys.
LEMMA AheadOne ==
    ASSUME NEW at, NEW it, NEW T, T \subseteq Int, Ahead(at, it, T), NEW m \in T, \A k \in T : m <= k
    PROVE  it = Ptr(at, m)
<1>1. PICK p \in T : (\A k \in T : p <= k) /\ it = Ptr(at, p)
  BY DEF Ahead
<1>2. p <= m /\ m <= p /\ p \in Int /\ m \in Int
  BY <1>1
<1>3. p = m
  BY <1>2
<1>. QED
  BY <1>1, <1>3

\* A scan that starts at the first of T, when T has every greater key.
LEMMA ScanIs ==
    ASSUME NEW at, NEW top, Tree(pages, at, top, contents), NEW T, T \subseteq DOMAIN contents,
           \A x \in T, y \in DOMAIN contents : x < y => y \in T,
           NEW it, Ahead(at, it, T), NEW n \in Nat, Cardinality(T) <= n
    PROVE  Scan(it, n) = Listed(T)
<1>. DEFINE K == DOMAIN contents
            ks == InOrder(T)
            N == Len(ks)
            ptr == [i \in 1 .. N + 1 |-> IF i <= N THEN Ptr(at, ks[i]) ELSE End]
            E == [i \in 1 .. N |-> [key |-> ks[i], rid |-> contents[ks[i]]]]
<1>1. K \subseteq Int /\ IsFiniteSet(K)
  <2>1. K \subseteq Int /\ K \subseteq Keys
    BY TreePages
  <2>. QED
    BY <2>1, KeysAre, FS_Subset
<1>2. T \subseteq Int /\ IsFiniteSet(T)
  BY <1>1, FS_Subset
<1>3. /\ N \in Nat /\ (T = {} <=> N = 0)
      /\ \A i \in 1 .. N : ks[i] \in T
      /\ T # {} => ks[1] \in T /\ \A x \in T : ks[1] <= x
      /\ \A i \in 1 .. N :
           /\ i < N => /\ ks[i + 1] \in {x \in K : x > ks[i]}
                       /\ \A x \in {y \in K : y > ks[i]} : ks[i + 1] <= x
           /\ i = N => {x \in K : x > ks[i]} = {}
  <2>1. Sorted(ks, T)
    BY <1>2, InOrderFacts DEF Sorted
  <2>. HIDE DEF K, ks
  <2>2. T \subseteq K /\ \A x \in T, y \in K : x < y => y \in T
    BY DEF K
  <2>3. NextKeys(ks, T, K)
    BY <1>1, <2>1, <2>2, OrderNext
  <2>. QED
    BY <2>3 DEF NextKeys
<1>4. N <= n
  <2>1. N = Cardinality(T)
    BY <1>2, InOrderFacts
  <2>. QED
    BY <2>1
<1>5. \A i \in 1 .. N : ks[i] \in T /\ ks[i] \in K
  BY <1>3
<1>. HIDE DEF ks, N
<1>6. /\ \A i \in 1 .. N : ptr[i] = Ptr(at, ks[i])
      /\ ptr[N + 1] = End
  BY <1>3
<1>. HIDE DEF ptr
<1>7. ptr[1] = it
  <2>1. CASE N = 0
    <3>1. it = End
      BY <1>3, <2>1 DEF Ahead
    <3>. QED
      BY <1>6, <2>1, <3>1
  <2>2. CASE N # 0
    <3>1. 1 \in 1 .. N /\ T # {}
      BY <1>3, <2>2
    <3>2. it = Ptr(at, ks[1])
      BY <1>2, <1>3, <3>1, AheadOne
    <3>. QED
      BY <1>6, <3>1, <3>2
  <2>. QED
    BY <2>1, <2>2
<1>8. ASSUME NEW i \in 1 .. N
      PROVE  ptr[i] # End /\ Advance(ptr[i]) = ptr[i + 1]
  <2>. DEFINE k == ks[i]
              A == AfterKey(k)
  <2>1. k \in K /\ ptr[i] = Ptr(at, k)
    BY <1>5, <1>6
  <2>2. A = {x \in K : x > ks[i]}
    BY DEF AfterKey
  <2>. HIDE DEF k
  <2>3. Ptr(at, k) # End /\ Ahead(at, Advance(Ptr(at, k)), A)
    BY <2>1, PtrFacts, AdvanceIs
  <2>4. CASE i < N
    <3>1. ks[i + 1] \in A /\ \A x \in A : ks[i + 1] <= x
      BY <1>3, <2>2, <2>4
    <3>2. A \subseteq Int
      BY <1>1, <2>2
    <3>. HIDE DEF A
    <3>3. Advance(Ptr(at, k)) = Ptr(at, ks[i + 1])
      BY <2>3, <3>1, <3>2, AheadOne
    <3>4. i + 1 \in 1 .. N
      BY <1>3, <2>4
    <3>. QED
      BY <1>6, <2>1, <2>3, <3>3, <3>4
  <2>5. CASE ~(i < N)
    <3>1. i = N
      BY <1>3, <2>5
    <3>2. A = {}
      BY <1>3, <2>2, <3>1
    <3>. HIDE DEF A
    <3>3. Advance(Ptr(at, k)) = End
      BY <2>3, <3>2 DEF Ahead
    <3>. QED
      BY <1>6, <2>1, <2>3, <3>1, <3>3
  <2>. QED
    BY <2>4, <2>5
<1>9. Chain(ptr, it, N)
  BY <1>6, <1>7, <1>8 DEF Chain
<1>10. \A i \in 1 .. N : E[i] = EntryAt(ptr[i])
  <2>1. ASSUME NEW i \in 1 .. N PROVE E[i] = EntryAt(ptr[i])
    <3>1. EntryAt(Ptr(at, ks[i])) = [key |-> ks[i], rid |-> contents[ks[i]]]
      BY <1>5, PtrFacts
    <3>. QED
      BY <1>6, <3>1
  <2>. QED
    BY <2>1
<1>11. [i \in 1 .. N |-> E[i]] = E
  OBVIOUS
<1>12. Listed(T) = E
  BY DEF Listed, ks, N
<1>. HIDE DEF E
<1>13. Scan(it, n) = [i \in 1 .. N |-> E[i]]
  BY <1>3, <1>4, <1>9, <1>10, ScanChain
<1>. QED
  BY <1>11, <1>12, <1>13

\* A scan of nothing.
LEMMA ScanNone ==
    ASSUME NEW n \in Nat
    PROVE  Scan(End, n) = <<>> /\ Listed({}) = <<>>
<1>. DEFINE ptr == <<End>>
            E == [i \in 1 .. 0 |-> End]
<1>1. Chain(ptr, End, 0)
  BY DEF Chain
<1>2. \A i \in 1 .. 0 : E[i] = EntryAt(ptr[i])
  OBVIOUS
<1>. HIDE DEF ptr, E
<1>3. Scan(End, n) = [i \in 1 .. 0 |-> E[i]]
  BY <1>1, <1>2, ScanChain
<1>4. Len(InOrder({})) = 0
  BY FS_EmptySet, InOrderFacts
<1>5. Listed({}) = <<>>
  BY <1>4 DEF Listed
<1>. QED
  BY <1>3, <1>5

\* EntriesOf lists the entries of the keys.
LEMMA EntriesListed ==
    ASSUME NEW S
    PROVE  EntriesOf(S) = Listed(S \cap DOMAIN contents)
  BY DEF EntriesOf, Listed

\* The scans of an index with no entry.
LEMMA BareScans ==
    ASSUME Bare(pages, root, first, contents), Len(pages) \in Nat, size = Cardinality(DOMAIN contents),
           NEW n \in Nat, NEW k \in Int
    PROVE  /\ Scan(begin, n) = <<>> /\ Scan(lower_bound(k), n) = <<>> /\ Scan(upper_bound(k), n) = <<>>
           /\ \A S : EntriesOf(S) = <<>>
<1>1. DOMAIN contents = {}
  BY DEF Bare
<1>2. begin = End
  BY <1>1, FS_EmptySet DEF begin
<1>. DEFINE lo == lower_bound_slot(pages[root].entries, k)
            up == upper_bound_slot(pages[root].entries, k)
<1>3. /\ LeafFor(k) = root /\ Len(pages[root].entries) = 0 /\ pages[root].next = 0
      /\ lo \in Nat /\ up \in Nat
  BY BareFacts
<1>4. lower_bound(k) = AtOrNext(root, lo) /\ upper_bound(k) = AtOrNext(root, up)
  BY <1>3 DEF lower_bound, upper_bound
<1>5. \A s \in Nat : AtOrNext(root, s) = End
  BY <1>3 DEF AtOrNext
<1>6. lower_bound(k) = End /\ upper_bound(k) = End
  BY <1>3, <1>4, <1>5
<1>7. \A S : EntriesOf(S) = Listed({})
  BY <1>1, EntriesListed
<1>. QED
  BY <1>2, <1>6, <1>7, ScanNone

\* The scans of an index with entries.
LEMMA RestingScans ==
    ASSUME NEW at, NEW top, Resting(pages, root, first, contents, at, top), size = Cardinality(DOMAIN contents),
           NEW n \in Nat, Cardinality(DOMAIN contents) <= n, NEW k \in Int
    PROVE  /\ Scan(begin, n) = Listed(DOMAIN contents)
           /\ Scan(lower_bound(k), n) = Listed(FromKey(k))
           /\ Scan(upper_bound(k), n) = Listed(AfterKey(k))
<1>. DEFINE K == DOMAIN contents
<1>1. Tree(pages, at, top, contents)
  BY DEF Resting
<1>2. K \subseteq Int /\ IsFiniteSet(K)
  <2>1. K \subseteq Int /\ K \subseteq Keys
    BY <1>1, TreePages
  <2>. QED
    BY <2>1, KeysAre, FS_Subset
<1>3. ASSUME NEW T, T \subseteq K PROVE Cardinality(T) <= n
  <2>1. IsFiniteSet(T) /\ Cardinality(T) <= Cardinality(K)
    BY <1>2, <1>3, FS_Subset
  <2>2. Cardinality(T) \in Nat /\ Cardinality(K) \in Nat
    BY <1>2, <2>1, FS_CardinalityType
  <2>. QED
    BY <2>1, <2>2
<1>4. FromKey(k) \subseteq K /\ AfterKey(k) \subseteq K
  BY DEF FromKey, AfterKey
<1>5. /\ \A x \in FromKey(k), y \in K : x < y => y \in FromKey(k)
      /\ \A x \in AfterKey(k), y \in K : x < y => y \in AfterKey(k)
  <2>1. \A x \in K, y \in K : x < y => (x >= k => y >= k) /\ (x > k => y > k)
    BY <1>2
  <2>. HIDE DEF K
  <2>2. FromKey(k) = {x \in K : x >= k} /\ AfterKey(k) = {x \in K : x > k}
    BY DEF K, FromKey, AfterKey
  <2>. QED
    BY <2>1, <2>2
<1>6. Ahead(at, begin, K) /\ Ahead(at, lower_bound(k), FromKey(k)) /\ Ahead(at, upper_bound(k), AfterKey(k))
  BY BeginIs, BoundsAre
<1>7. Scan(begin, n) = Listed(K)
  BY <1>1, <1>3, <1>6, ScanIs
<1>8. Scan(lower_bound(k), n) = Listed(FromKey(k))
  BY <1>1, <1>3, <1>4, <1>5, <1>6, ScanIs
<1>9. Scan(upper_bound(k), n) = Listed(AfterKey(k))
  BY <1>1, <1>3, <1>4, <1>5, <1>6, ScanIs
<1>. QED
  BY <1>7, <1>8, <1>9

\* The scans are right in every tree at rest.
LEMMA ScansRight ==
    ASSUME TreeInv, Quiet, NEW k \in Int, NEW n, n = Cardinality(Keys) + 1
    PROVE  /\ Scan(begin, n) = EntriesOf(Keys)
           /\ Scan(lower_bound(k), n) = EntriesOf({x \in Keys : x >= k})
           /\ Scan(upper_bound(k), n) = EntriesOf({x \in Keys : x > k})
<1>. DEFINE K == DOMAIN contents
<1>1. /\ Len(pages) \in Nat /\ IsMap(contents) /\ size = Cardinality(K)
      /\ Bare(pages, root, first, contents) \/ \E at, top : Resting(pages, root, first, contents, at, top)
  BY QuietFacts
<1>2. K \subseteq Keys
  BY <1>1 DEF IsMap
<1>3. n \in Nat /\ Cardinality(K) <= n
  <2>1. IsFiniteSet(K) /\ Cardinality(K) <= Cardinality(Keys)
    BY <1>2, KeysAre, FS_Subset
  <2>2. Cardinality(K) \in Nat /\ Cardinality(Keys) \in Nat
    BY <2>1, KeysAre, FS_CardinalityType
  <2>. QED
    BY <2>1, <2>2
<1>4. CASE Bare(pages, root, first, contents)
  BY <1>1, <1>3, <1>4, BareScans
<1>5. CASE \E at, top : Resting(pages, root, first, contents, at, top)
  <2>1. PICK at, top : Resting(pages, root, first, contents, at, top)
    BY <1>5
  <2>2. /\ Scan(begin, n) = Listed(K)
        /\ Scan(lower_bound(k), n) = Listed(FromKey(k))
        /\ Scan(upper_bound(k), n) = Listed(AfterKey(k))
    BY <1>1, <1>3, <2>1, RestingScans
  <2>3. /\ Keys \cap K = K
        /\ {x \in Keys : x >= k} \cap K = FromKey(k)
        /\ {x \in Keys : x > k} \cap K = AfterKey(k)
    BY <1>2 DEF FromKey, AfterKey
  <2>. QED
    BY <2>2, <2>3, EntriesListed
<1>. QED
  BY <1>1, <1>4, <1>5

\* From begin() on, operator++ meets every entry once and in key order: splits
\* and merges keep the chain of next_leaf and first_leaf_page_ right.
THEOREM ScanHolds == Spec => []ScanCorrect
<1>1. TreeInv => ScanCorrect
  <2>1. TreeInv /\ Quiet => Scan(begin, Cardinality(Keys) + 1) = EntriesOf(Keys)
    BY ScansRight, 0 \in Int
  <2>. QED
    BY <2>1 DEF ScanCorrect
<1>. QED
  BY <1>1, TreeHolds, PTL

\* The range scans of index_collect_range: from lower_bound(k) on come the
\* entries with keys of at least k, from upper_bound(k) on those with greater
\* keys, also where the bound is behind the last entry of its leaf.
THEOREM BoundsHold == Spec => []BoundsCorrect
<1>1. TreeInv => BoundsCorrect
  BY ScansRight, KeysAre DEF BoundsCorrect
<1>. QED
  BY <1>1, TreeHolds, PTL

----------------------------------------------------------------------------
(* The pages below a page *)

\* The children of a set of pages.
ChildrenOf(S) == UNION {Range(pages[q].children) : q \in {x \in S : IsInner(pages[x])}}

\* The levels below p are what the definition of LevelBelow says.
LEMMA LevelRec ==
    ASSUME NEW p, NEW n \in Nat, NEW g, g = [i \in 0 .. n |-> g[i]], g[0] = {p},
           \A i \in 1 .. n : g[i] = ChildrenOf(g[i - 1])
    PROVE  LevelBelow(p, n) = g[n]
<1>. DEFINE G(f) == [i \in 0 .. n |-> IF i = 0 THEN {p}
                      ELSE UNION {Range(pages[q].children) : q \in {x \in f[i - 1] : IsInner(pages[x])}}]
            f == CHOOSE h : h = G(h)
<1>1. LevelBelow(p, n) = f[n]
  BY DEF LevelBelow
<1>2. \A i \in 0 .. n : g[i] = G(g)[i]
  <2>1. \A i \in 0 .. n : i = 0 \/ i \in 1 .. n
    OBVIOUS
  <2>. QED
    BY <2>1 DEF ChildrenOf
<1>3. g = G(g)
  <2>1. G(g) = [i \in 0 .. n |-> G(g)[i]]
    OBVIOUS
  <2>. HIDE DEF G
  <2>. QED
    BY <1>2, <2>1
<1>4. f = G(f)
  <2>. HIDE DEF G
  <2>. QED
    BY <1>3
<1>5. ASSUME NEW i \in 0 .. n PROVE f[i] = g[i]
  <2>. DEFINE T == {x \in 0 .. n : f[x] # g[x]}
  <2>1. ASSUME T # {} PROVE FALSE
    <3>1. T \in SUBSET Nat
      OBVIOUS
    <3>. HIDE DEF T
    <3>2. PICK y \in T : \A z \in T : y <= z
      BY <2>1, <3>1, LeastNatural
    <3>. HIDE DEF f, G
    <3>3. y \in 0 .. n /\ f[y] # g[y] /\ f[y] = G(f)[y] /\ g[y] = G(g)[y]
      BY <3>2, <1>3, <1>4 DEF T
    <3>4. CASE y = 0
      BY <3>3, <3>4 DEF G
    <3>5. CASE y # 0
      <4>1. y - 1 \in 0 .. n /\ y - 1 \notin T
        BY <3>2, <3>3, <3>5
      <4>2. f[y - 1] = g[y - 1]
        BY <4>1 DEF T
      <4>. QED
        BY <3>3, <3>5, <4>2 DEF G
    <3>. QED
      BY <3>4, <3>5
  <2>. QED
    BY <2>1
<1>. HIDE DEF f
<1>. QED
  BY <1>1, <1>5

\* The pages of level m above the keys S.
PagesAbove(at, m, S) == {at[m][x] : x \in S}

\* The children of an inner page are the pages above its keys.
LEMMA ChildrenAre ==
    ASSUME NEW at, NEW top, Tree(pages, at, top, contents), NEW K, K = DOMAIN contents,
           NEW m \in 0 .. top, m # top, NEW x \in K
    PROVE  /\ IsInner(pages[at[m + 1][x]])
           /\ Range(pages[at[m + 1][x]].children) = PagesAbove(at, m, Block(at, K, m + 1, at[m + 1][x]))
<1>. DEFINE q == at[m + 1][x]
            ch == pages[q].children
            S == Block(at, K, m + 1, q)
<1>1. IsInner(pages[q]) /\ Row(ch, at, K, m, S)
  BY InnerHere
<1>. HIDE DEF q, ch, S
<1>2. /\ ch \in Seq(Int) /\ S \subseteq K
      /\ \A i \in 1 .. Len(ch) : \E k \in S : at[m][k] = ch[i]
      /\ \A k \in S : \E i \in 1 .. Len(ch) : at[m][k] = ch[i]
  BY <1>1 DEF Row
<1>3. Range(ch) = {ch[i] : i \in 1 .. Len(ch)}
  BY <1>2 DEF Range
<1>4. Range(ch) = PagesAbove(at, m, S)
  <2>1. ASSUME NEW y \in Range(ch) PROVE y \in PagesAbove(at, m, S)
    <3>1. PICK i \in 1 .. Len(ch) : y = ch[i]
      BY <1>3
    <3>2. PICK k \in S : at[m][k] = ch[i]
      BY <1>2
    <3>. QED
      BY <3>1, <3>2 DEF PagesAbove
  <2>2. ASSUME NEW y \in PagesAbove(at, m, S) PROVE y \in Range(ch)
    <3>1. PICK k \in S : y = at[m][k]
      BY DEF PagesAbove
    <3>2. PICK i \in 1 .. Len(ch) : at[m][k] = ch[i]
      BY <1>2
    <3>. QED
      BY <1>3, <3>1, <3>2
  <2>. QED
    BY <2>1, <2>2
<1>. QED
  BY <1>1, <1>4 DEF q, ch, S

\* The pages of the level below those above the keys of a block.
LEMMA ChildrenAbove ==
    ASSUME NEW at, NEW top, Tree(pages, at, top, contents), NEW K, K = DOMAIN contents,
           NEW l \in 0 .. top, NEW k \in K, NEW S, S = Block(at, K, l, at[l][k]),
           NEW m \in 0 .. top, m < l
    PROVE  ChildrenOf(PagesAbove(at, m + 1, S)) = PagesAbove(at, m, S)
<1>1. Grid(at, top, K, Len(pages)) /\ top \in Nat
  BY TreePages
<1>2. m + 1 \in 0 .. top /\ m # top /\ m + 1 <= l /\ m <= m + 1
  BY <1>1
<1>3. S \subseteq K
  BY DEF Block
<1>4. ASSUME NEW x \in S
      PROVE  /\ IsInner(pages[at[m + 1][x]])
             /\ Range(pages[at[m + 1][x]].children) = PagesAbove(at, m, Block(at, K, m + 1, at[m + 1][x]))
             /\ Block(at, K, m + 1, at[m + 1][x]) \subseteq S /\ x \in Block(at, K, m + 1, at[m + 1][x])
  <2>1. x \in K
    BY <1>3
  <2>2. /\ IsInner(pages[at[m + 1][x]])
        /\ Range(pages[at[m + 1][x]].children) = PagesAbove(at, m, Block(at, K, m + 1, at[m + 1][x]))
    BY <1>2, <2>1, ChildrenAre
  <2>. DEFINE h == m + 1
  <2>3. ASSUME NEW y \in Block(at, K, h, at[h][x]) PROVE y \in S
    <3>1. h \in 0 .. top /\ h <= l
      BY <1>2
    <3>. HIDE DEF h
    <3>2. y \in K /\ at[h][y] = at[h][x]
      BY DEF Block
    <3>3. at[l][y] = at[l][x]
      BY <1>1, <2>1, <3>1, <3>2, Nested
    <3>4. at[l][x] = at[l][k]
      BY DEF Block
    <3>. QED
      BY <3>2, <3>3, <3>4 DEF Block
  <2>4. x \in Block(at, K, m + 1, at[m + 1][x])
    BY <2>1 DEF Block
  <2>. QED
    BY <2>2, <2>3, <2>4
<1>5. ASSUME NEW p \in ChildrenOf(PagesAbove(at, m + 1, S)) PROVE p \in PagesAbove(at, m, S)
  <2>1. PICK q \in PagesAbove(at, m + 1, S) : p \in Range(pages[q].children)
    BY <1>5 DEF ChildrenOf
  <2>2. PICK x \in S : q = at[m + 1][x]
    BY DEF PagesAbove
  <2>3. p \in PagesAbove(at, m, Block(at, K, m + 1, at[m + 1][x]))
    BY <1>4, <2>1, <2>2
  <2>4. Block(at, K, m + 1, at[m + 1][x]) \subseteq S
    BY <1>4
  <2>. QED
    BY <2>3, <2>4 DEF PagesAbove
<1>6. ASSUME NEW p \in PagesAbove(at, m, S) PROVE p \in ChildrenOf(PagesAbove(at, m + 1, S))
  <2>1. PICK x \in S : p = at[m][x]
    BY DEF PagesAbove
  <2>. DEFINE q == at[m + 1][x]
              B == Block(at, K, m + 1, q)
  <2>2. IsInner(pages[q]) /\ Range(pages[q].children) = PagesAbove(at, m, B) /\ x \in B
    BY <1>4
  <2>3. q \in PagesAbove(at, m + 1, S)
    BY DEF PagesAbove
  <2>4. p \in PagesAbove(at, m, B)
    BY <2>1, <2>2 DEF PagesAbove
  <2>. HIDE DEF q, B
  <2>. QED
    BY <2>2, <2>3, <2>4 DEF ChildrenOf
<1>. QED
  BY <1>5, <1>6

\* The leaves have no children.
LEMMA LeavesEnd ==
    ASSUME NEW at, NEW top, Tree(pages, at, top, contents), NEW S, S \subseteq DOMAIN contents
    PROVE  ChildrenOf(PagesAbove(at, 0, S)) = {}
<1>1. ASSUME NEW x \in S PROVE ~IsInner(pages[at[0][x]])
  <2>1. LeafBox(pages[at[0][x]], at[0][x], at, contents, Len(pages))
    BY LeafPage
  <2>. QED
    BY <2>1 DEF LeafBox
<1>. QED
  BY <1>1 DEF ChildrenOf, PagesAbove

\* The pages n levels below a page of the tree.
LEMMA LevelIs ==
    ASSUME NEW at, NEW top, Tree(pages, at, top, contents), NEW K, K = DOMAIN contents,
           NEW l \in 0 .. top, NEW k \in K, NEW p, p = at[l][k], NEW S, S = Block(at, K, l, p),
           NEW n \in Nat
    PROVE  LevelBelow(p, n) = IF n <= l THEN PagesAbove(at, l - n, S) ELSE {}
<1>. DEFINE g == [i \in 0 .. n |-> IF i <= l THEN PagesAbove(at, l - i, S) ELSE {}]
<1>1. top \in Nat /\ l \in Nat /\ S \subseteq K
  BY TreePages DEF Block
<1>2. g[0] = {p}
  <2>1. k \in S
    BY DEF Block
  <2>2. \A x \in S : at[l][x] = p
    BY DEF Block
  <2>3. PagesAbove(at, l, S) = {p}
    BY <2>1, <2>2 DEF PagesAbove
  <2>4. 0 <= l /\ l - 0 = l /\ 0 \in 0 .. n
    BY <1>1
  <2>. QED
    BY <2>3, <2>4
<1>3. ASSUME NEW i \in 1 .. n
      PROVE  g[i] = ChildrenOf(g[i - 1])
  <2>1. i \in 0 .. n /\ i - 1 \in 0 .. n
    OBVIOUS
  <2>2. CASE i <= l
    <3>. DEFINE m == l - i
    <3>1. m \in 0 .. top /\ m < l /\ l - (i - 1) = m + 1 /\ i - 1 <= l
      BY <1>1, <2>2
    <3>2. g[i] = PagesAbove(at, m, S)
      BY <2>1, <2>2
    <3>3. g[i - 1] = PagesAbove(at, m + 1, S)
      BY <2>1, <3>1
    <3>. HIDE DEF m, g
    <3>4. ChildrenOf(PagesAbove(at, m + 1, S)) = PagesAbove(at, m, S)
      BY <3>1, ChildrenAbove
    <3>. QED
      BY <3>2, <3>3, <3>4
  <2>3. CASE i = l + 1
    <3>1. ~(i <= l) /\ l - (i - 1) = 0 /\ i - 1 <= l
      BY <1>1, <2>3
    <3>2. g[i] = {} /\ g[i - 1] = PagesAbove(at, 0, S)
      BY <2>1, <3>1
    <3>. HIDE DEF g
    <3>3. ChildrenOf(PagesAbove(at, 0, S)) = {}
      BY <1>1, LeavesEnd
    <3>. QED
      BY <3>2, <3>3
  <2>4. CASE ~(i <= l) /\ i # l + 1
    <3>1. ~(i - 1 <= l)
      BY <1>1, <2>4
    <3>2. g[i] = {} /\ g[i - 1] = {}
      BY <2>1, <2>4, <3>1
    <3>3. ChildrenOf({}) = {}
      BY DEF ChildrenOf
    <3>. QED
      BY <3>2, <3>3
  <2>. QED
    BY <2>2, <2>3, <2>4
<1>4. g = [i \in 0 .. n |-> g[i]]
  OBVIOUS
<1>5. n \in 0 .. n
  OBVIOUS
<1>6. g[n] = IF n <= l THEN PagesAbove(at, l - n, S) ELSE {}
  BY <1>5
<1>. HIDE DEF g
<1>7. LevelBelow(p, n) = g[n]
  BY <1>2, <1>3, <1>4, LevelRec, ZenonT(60)
<1>. QED
  BY <1>6, <1>7

\* What is below the page p of level l, above the keys S.
SubtreeIs(at, l, p, S) ==
    /\ Under(p) = UNION {PagesAbove(at, m, S) : m \in 0 .. l}
    /\ LeavesUnder(p) = PagesAbove(at, 0, S) /\ LevelBelow(p, l) = PagesAbove(at, 0, S)
    /\ KeysUnder(p) = S

\* The levels, leaves and keys below a page.
LEMMA Subtree ==
    ASSUME NEW at, NEW top, Tree(pages, at, top, contents), NEW K, K = DOMAIN contents,
           NEW l \in 0 .. top, NEW k \in K, NEW p, p = at[l][k], NEW S, S = Block(at, K, l, p)
    PROVE  SubtreeIs(at, l, p, S)
<1>1. /\ Grid(at, top, K, Len(pages)) /\ top \in Nat /\ Len(pages) \in Nat /\ l \in Nat /\ 0 \in 0 .. top
      /\ S \subseteq K
  BY TreePages DEF Block
<1>2. top < Len(pages)
  BY <1>1, Depth
<1>3. \A n \in Nat : LevelBelow(p, n) = IF n <= l THEN PagesAbove(at, l - n, S) ELSE {}
  BY LevelIs
<1>4. Under(p) = UNION {PagesAbove(at, m, S) : m \in 0 .. l}
  <2>1. ASSUME NEW q \in Under(p) PROVE q \in UNION {PagesAbove(at, m, S) : m \in 0 .. l}
    <3>1. PICK n \in 0 .. Len(pages) : q \in LevelBelow(p, n)
      BY DEF Under
    <3>2. n \in Nat
      BY <1>1
    <3>3. n <= l /\ q \in PagesAbove(at, l - n, S)
      BY <1>3, <3>1, <3>2
    <3>4. l - n \in 0 .. l
      BY <1>1, <3>2, <3>3
    <3>. QED
      BY <3>3, <3>4
  <2>2. ASSUME NEW m \in 0 .. l, NEW q \in PagesAbove(at, m, S) PROVE q \in Under(p)
    <3>1. l - m \in 0 .. Len(pages) /\ l - m \in Nat /\ l - m <= l /\ l - (l - m) = m
      BY <1>1, <1>2
    <3>2. q \in LevelBelow(p, l - m)
      BY <1>3, <3>1
    <3>. QED
      BY <3>1, <3>2 DEF Under
  <2>. QED
    BY <2>1, <2>2
<1>5. \A x \in S : ~IsInner(pages[at[0][x]]) /\ Held(pages[at[0][x]].entries, contents, Block(at, K, 0, at[0][x]))
  <2>1. ASSUME NEW x \in S
        PROVE  ~IsInner(pages[at[0][x]]) /\ Held(pages[at[0][x]].entries, contents, Block(at, K, 0, at[0][x]))
    <3>1. LeafBox(pages[at[0][x]], at[0][x], at, contents, Len(pages))
      BY <1>1, LeafPage
    <3>. QED
      BY <3>1 DEF LeafBox
  <2>. QED
    BY <2>1
<1>6. LeavesUnder(p) = PagesAbove(at, 0, S)
  <2>1. ASSUME NEW q \in LeavesUnder(p) PROVE q \in PagesAbove(at, 0, S)
    <3>1. q \in Under(p) /\ ~IsInner(pages[q])
      BY DEF LeavesUnder
    <3>2. PICK m \in 0 .. l : q \in PagesAbove(at, m, S)
      BY <1>4, <3>1
    <3>3. PICK x \in S : q = at[m][x]
      BY <3>2 DEF PagesAbove
    <3>4. m = 0
      <4>1. ASSUME m # 0 PROVE FALSE
        <5>. DEFINE h == m - 1
        <5>1. h \in 0 .. top /\ h # top /\ h + 1 = m
          BY <1>1, <4>1
        <5>. HIDE DEF h
        <5>2. IsInner(pages[at[h + 1][x]])
          BY <1>1, <5>1, InnerHere
        <5>. QED
          BY <3>1, <3>3, <5>1, <5>2
      <4>. QED
        BY <4>1
    <3>. QED
      BY <3>2, <3>4
  <2>2. ASSUME NEW q \in PagesAbove(at, 0, S) PROVE q \in LeavesUnder(p)
    <3>1. q \in Under(p)
      <4>1. 0 \in 0 .. l
        BY <1>1
      <4>. QED
        BY <1>4, <4>1
    <3>2. ~IsInner(pages[q])
      BY <1>5 DEF PagesAbove
    <3>. QED
      BY <3>1, <3>2 DEF LeavesUnder
  <2>. QED
    BY <2>1, <2>2
<1>7. KeysUnder(p) = S
  <2>1. ASSUME NEW x \in S
        PROVE  {e.key : e \in Range(pages[at[0][x]].entries)} = Block(at, K, 0, at[0][x])
    <3>. DEFINE s == pages[at[0][x]].entries
                B == Block(at, K, 0, at[0][x])
    <3>1. Held(s, contents, B)
      BY <1>5
    <3>. HIDE DEF s, B
    <3>2. s \in Seq(Entries) /\ \A i \in 1 .. Len(s) : s[i].key \in B
      BY <3>1 DEF Held
    <3>3. \A y \in B : \E i \in 1 .. Len(s) : s[i].key = y
      BY <3>1 DEF Held
    <3>4. Range(s) = {s[i] : i \in 1 .. Len(s)}
      BY <3>2 DEF Range
    <3>5. {e.key : e \in Range(s)} = B
      <4>1. {e.key : e \in Range(s)} = {s[i].key : i \in 1 .. Len(s)}
        BY <3>4
      <4>. QED
        BY <3>2, <3>3, <4>1
    <3>. QED
      BY <3>5 DEF s, B
  <2>2. KeysUnder(p) = UNION {{e.key : e \in Range(pages[q].entries)} : q \in PagesAbove(at, 0, S)}
    BY <1>6 DEF KeysUnder
  <2>3. ASSUME NEW y \in S PROVE y \in KeysUnder(p)
    <3>1. y \in Block(at, K, 0, at[0][y])
      BY <1>1 DEF Block
    <3>2. at[0][y] \in PagesAbove(at, 0, S)
      BY DEF PagesAbove
    <3>3. y \in {e.key : e \in Range(pages[at[0][y]].entries)}
      BY <2>1, <3>1
    <3>. QED
      BY <2>2, <3>2, <3>3
  <2>4. ASSUME NEW y \in KeysUnder(p) PROVE y \in S
    <3>1. PICK q \in PagesAbove(at, 0, S) : y \in {e.key : e \in Range(pages[q].entries)}
      BY <2>2
    <3>2. PICK x \in S : q = at[0][x]
      BY DEF PagesAbove
    <3>3. y \in Block(at, K, 0, at[0][x])
      BY <2>1, <3>1, <3>2
    <3>4. y \in K /\ x \in K /\ at[0][y] = at[0][x] /\ at[l][x] = p
      BY <1>1, <3>3 DEF Block
    <3>5. at[l][y] = at[l][x]
      BY <1>1, <3>4, Nested
    <3>. QED
      BY <3>4, <3>5 DEF Block
  <2>. QED
    BY <2>3, <2>4
<1>8. LevelBelow(p, l) = PagesAbove(at, 0, S)
  <2>1. l <= l /\ l - l = 0
    BY <1>1
  <2>. QED
    BY <1>1, <1>3, <2>1
<1>. QED
  BY <1>4, <1>6, <1>7, <1>8 DEF SubtreeIs

\* The children ch of an inner page, and its separators ks.
Branches(ch, ks) ==
    /\ \A i, j \in 1 .. Len(ch) : i # j => LeavesUnder(ch[i]) \cap LeavesUnder(ch[j]) = {}
    /\ \A i \in 1 .. Len(ks) :
          /\ \A k \in KeysUnder(ch[i]) : k < ks[i]
          /\ \A k \in KeysUnder(ch[i + 1]) : ks[i] <= k
    /\ \A i \in 1 .. Len(ch) : KeysUnder(ch[i]) # {}

\* The children of an inner page have apart leaves, and separators between
\* them.
LEMMA BranchesRight ==
    ASSUME NEW at, NEW top, Tree(pages, at, top, contents), NEW K, K = DOMAIN contents,
           NEW m \in 0 .. top, m # top, NEW w \in K, NEW q, q = at[m + 1][w]
    PROVE  Branches(pages[q].children, pages[q].keys)
<1>. DEFINE ch == pages[q].children
            ks == pages[q].keys
<1>1. /\ Row(ch, at, K, m, Block(at, K, m + 1, q))
      /\ Seps(ks, ch, at, K, m)
  BY InnerHere
<1>2. Grid(at, top, K, Len(pages)) /\ K \subseteq Int /\ 0 \in 0 .. top /\ 0 <= m /\ top \in Nat
  BY TreePages
<1>. HIDE DEF ch, ks
<1>3. \A i \in 1 .. Len(ch) : \E k \in K : at[m][k] = ch[i]
  BY <1>1 DEF Row
<1>4. ASSUME NEW i \in 1 .. Len(ch)
      PROVE  /\ LeavesUnder(ch[i]) = PagesAbove(at, 0, Block(at, K, m, ch[i]))
             /\ KeysUnder(ch[i]) = Block(at, K, m, ch[i]) /\ Block(at, K, m, ch[i]) # {}
  <2>1. PICK k \in K : at[m][k] = ch[i]
    BY <1>3
  <2>. DEFINE p == at[m][k]
              S == Block(at, K, m, p)
  <2>2. k \in S
    BY DEF Block
  <2>3. SubtreeIs(at, m, p, S)
    BY Subtree
  <2>4. LeavesUnder(p) = PagesAbove(at, 0, S) /\ KeysUnder(p) = S
    BY <2>3 DEF SubtreeIs
  <2>. QED
    BY <2>1, <2>2, <2>4
<1>5. ASSUME NEW i \in 1 .. Len(ch), NEW j \in 1 .. Len(ch), i # j
      PROVE  LeavesUnder(ch[i]) \cap LeavesUnder(ch[j]) = {}
  <2>1. ch[i] # ch[j]
    BY <1>1, <1>2, <1>5, RowDistinct
  <2>2. ASSUME NEW x \in LeavesUnder(ch[i]), x \in LeavesUnder(ch[j]) PROVE FALSE
    <3>1. x \in PagesAbove(at, 0, Block(at, K, m, ch[i])) /\ x \in PagesAbove(at, 0, Block(at, K, m, ch[j]))
      BY <1>4, <2>2
    <3>2. PICK a \in Block(at, K, m, ch[i]) : x = at[0][a]
      BY <3>1 DEF PagesAbove
    <3>3. PICK b \in Block(at, K, m, ch[j]) : x = at[0][b]
      BY <3>1 DEF PagesAbove
    <3>4. a \in K /\ b \in K /\ at[0][a] = at[0][b] /\ at[m][a] = ch[i] /\ at[m][b] = ch[j]
      BY <3>2, <3>3 DEF Block
    <3>5. at[m][a] = at[m][b]
      BY <1>2, <3>4, Nested, SMTT(20)
    <3>. QED
      BY <2>1, <3>4, <3>5
  <2>. QED
    BY <2>2
<1>6. ASSUME NEW i \in 1 .. Len(ks)
      PROVE  (\A k \in KeysUnder(ch[i]) : k < ks[i]) /\ (\A k \in KeysUnder(ch[i + 1]) : ks[i] <= k)
  <2>1. i \in 1 .. Len(ch) /\ i + 1 \in 1 .. Len(ch)
    <3>1. Len(ks) = Len(ch) - 1 /\ Len(ch) \in Nat
      BY <1>1 DEF Seps, Row
    <3>. QED
      BY <3>1
  <2>2. /\ \A k \in Block(at, K, m, ch[i]) : k < ks[i]
        /\ \A k \in Block(at, K, m, ch[i + 1]) : ks[i] <= k
    BY <1>1 DEF Seps
  <2>. QED
    BY <1>4, <2>1, <2>2
<1>7. Branches(ch, ks)
  BY <1>4, <1>5, <1>6 DEF Branches
<1>. QED
  BY <1>7 DEF ch, ks

ShapeRight ==
    /\ \E n \in 0 .. Len(pages) : LeavesUnder(root) = LevelBelow(root, n)
    /\ \A p \in Under(root) : IsInner(pages[p]) => Branches(pages[p].children, pages[p].keys)

\* A tree with entries is a search tree.
LEMMA RestingShape ==
    ASSUME NEW at, NEW top, Resting(pages, root, first, contents, at, top)
    PROVE  ShapeRight
<1>. DEFINE K == DOMAIN contents
<1>1. Tree(pages, at, top, contents) /\ RootOK(at, top, K, root)
  BY DEF Resting
<1>2. Grid(at, top, K, Len(pages)) /\ K # {} /\ top \in Nat /\ Len(pages) \in Nat
  BY <1>1, TreePages
<1>3. top < Len(pages) /\ top \in 0 .. top
  BY <1>2, Depth
<1>4. PICK k \in K : TRUE
  BY <1>2
<1>. DEFINE S == Block(at, K, top, root)
<1>5. at[top][k] = root
  BY <1>1 DEF RootOK
<1>6. SubtreeIs(at, top, root, S)
  BY <1>1, <1>3, <1>5, Subtree
<1>7. S \subseteq K
  BY DEF Block
<1>. HIDE DEF S
<1>8. \E n \in 0 .. Len(pages) : LeavesUnder(root) = LevelBelow(root, n)
  <2>1. top \in 0 .. Len(pages)
    BY <1>2, <1>3
  <2>. QED
    BY <1>6, <2>1 DEF SubtreeIs
<1>9. ASSUME NEW p \in Under(root), IsInner(pages[p])
      PROVE  Branches(pages[p].children, pages[p].keys)
  <2>1. PICK m \in 0 .. top : p \in PagesAbove(at, m, S)
    BY <1>6 DEF SubtreeIs
  <2>2. PICK x \in S : p = at[m][x]
    BY <2>1 DEF PagesAbove
  <2>3. m # 0
    <3>1. LeafBox(pages[at[0][x]], at[0][x], at, contents, Len(pages))
      BY <1>1, <1>7, LeafPage
    <3>2. ~IsInner(pages[at[0][x]])
      BY <3>1 DEF LeafBox
    <3>. QED
      BY <1>9, <2>2, <3>2
  <2>. DEFINE h == m - 1
  <2>4. h \in 0 .. top /\ h # top /\ h + 1 = m
    BY <1>2, <2>3
  <2>. HIDE DEF h
  <2>5. p = at[h + 1][x]
    BY <2>2, <2>4
  <2>. QED
    BY <1>1, <1>7, <2>4, <2>5, BranchesRight
<1>. QED
  BY <1>8, <1>9 DEF ShapeRight

\* So is the tree of one empty leaf.
LEMMA BareShape ==
    ASSUME Bare(pages, root, first, contents), Len(pages) \in Nat
    PROVE  ShapeRight
<1>1. ~IsInner(pages[root])
  BY DEF Bare, Leaf, IsInner
<1>2. ASSUME NEW n \in Nat PROVE LevelBelow(root, n) = IF n = 0 THEN {root} ELSE {}
  <2>. DEFINE g == [i \in 0 .. n |-> IF i = 0 THEN {root} ELSE {}]
  <2>1. g[0] = {root} /\ g = [i \in 0 .. n |-> g[i]]
    OBVIOUS
  <2>2. ChildrenOf({root}) = {} /\ ChildrenOf({}) = {}
    BY <1>1 DEF ChildrenOf
  <2>3. \A i \in 1 .. n : g[i] = ChildrenOf(g[i - 1])
    <3>1. \A i \in 1 .. n : g[i] = {} /\ g[i - 1] \in {{root}, {}}
      OBVIOUS
    <3>. QED
      BY <2>2, <3>1
  <2>4. g[n] = IF n = 0 THEN {root} ELSE {}
    OBVIOUS
  <2>. HIDE DEF g
  <2>5. LevelBelow(root, n) = g[n]
    BY <2>1, <2>3, LevelRec
  <2>. QED
    BY <2>4, <2>5
<1>3. LevelBelow(root, 0) = {root} /\ 0 \in 0 .. Len(pages)
  BY <1>2
<1>4. Under(root) = {root}
  <2>1. \A n \in 0 .. Len(pages) : LevelBelow(root, n) \subseteq {root}
    BY <1>2
  <2>. QED
    BY <1>3, <2>1 DEF Under
<1>5. LeavesUnder(root) = {root}
  BY <1>1, <1>4 DEF LeavesUnder
<1>. QED
  BY <1>1, <1>3, <1>4, <1>5 DEF ShapeRight

\* The pages under the root are a search tree: all leaves have the same depth,
\* no leaf is under two children, none is empty unless it is the root, and each
\* separator that rebuild_internal_keys or propagate_subtree_min_change wrote is
\* above the keys to its left and not above those to its right.
THEOREM ShapeHolds == Spec => []TreeShape
<1>1. ASSUME TreeInv, Quiet PROVE ShapeRight
  BY <1>1, QuietFacts, BareShape, RestingShape
<1>2. TreeInv => TreeShape
  BY <1>1 DEF TreeShape, ShapeRight, Branches
<1>. QED
  BY <1>2, TreeHolds, PTL
=============================================================================
