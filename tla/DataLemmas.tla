---------------------------- MODULE DataLemmas ----------------------------
(***************************************************************************)
(* Facts about data that the proofs about components need: induction over  *)
(* naturals and over trees, functions defined by recursion over trees, and *)
(* finite sets in the order of their keys.  They are stated for sets and   *)
(* functions, not for operators, so that the provers can instantiate them. *)
(***************************************************************************)
EXTENDS Integers, Sequences, FiniteSets, FiniteSetTheorems, NaturalsInduction, TLAPS

\* Every set of naturals that is not empty has a least element: what induction
\* over naturals rests on.
LEMMA LeastNatural ==
    ASSUME NEW T \in SUBSET Nat, T # {}
    PROVE  \E y \in T : \A z \in T : y <= z
<1>. DEFINE Less == OpToRel(<, Nat)
<1>1. PICK y \in T : \A z \in T : ~(<<z, y>> \in Less)
  BY WFMin, NatLessThanWellFounded
<1>2. ASSUME NEW z \in T PROVE y <= z
  <2>1. z < y => <<z, y>> \in Less
    BY DEF OpToRel
  <2>2. ~(<<z, y>> \in Less) /\ y \in Nat /\ z \in Nat
    BY <1>1
  <2>. HIDE DEF Less
  <2>. QED
    BY <2>1, <2>2
<1>. QED
  BY <1>2

----------------------------------------------------------------------------
(* Trees: the inner nodes have a left and a right child, less deep *)

IsTree(D, depth, inner, l, r) ==
    /\ depth \in [D -> Nat] /\ inner \subseteq D
    /\ l \in [inner -> D] /\ r \in [inner -> D]
    /\ \A e \in inner : depth[l[e]] < depth[e] /\ depth[r[e]] < depth[e]

\* Induction: what holds of a node when it holds of its children holds of all.
LEMMA TreeInduction ==
    ASSUME NEW D, NEW depth, NEW inner, NEW l, NEW r, IsTree(D, depth, inner, l, r),
           NEW G, \A e \in D : (e \in inner => l[e] \in G /\ r[e] \in G) => e \in G
    PROVE  D \subseteq G
<1>. DEFINE T == {depth[e] : e \in D \ G}
<1>1. T \in SUBSET Nat
  BY DEF IsTree
<1>2. ASSUME T # {} PROVE FALSE
  <2>. HIDE DEF T
  <2>1. PICK y \in T : \A z \in T : y <= z
    BY <1>1, <1>2, LeastNatural
  <2>2. PICK e \in D \ G : y = depth[e]
    BY <2>1 DEF T
  <2>3. e \in inner /\ (l[e] \notin G \/ r[e] \notin G)
    BY <2>2
  <2>4. ASSUME NEW x \in D \ G, depth[x] < depth[e] PROVE FALSE
    <3>1. depth[x] \in T /\ depth[x] \in Nat /\ depth[e] \in Nat
      BY DEF T, IsTree
    <3>. QED
      BY <2>1, <2>2, <2>4, <3>1
  <2>. QED
    BY <2>3, <2>4 DEF IsTree
<1>. QED
  BY <1>2

\* Recursion: a function may be defined by its value on the leaves and by its
\* value on a node in terms of those on the children.
Unfolds(f, D, V, inner, l, r, leaf, node) ==
    /\ f \in [D -> V]
    /\ \A e \in D : f[e] = IF e \in inner THEN node[<<e, f[l[e]], f[r[e]]>>] ELSE leaf[e]

\* Such a function exists.
LEMMA TreeDefinition ==
    ASSUME NEW D, NEW depth, NEW inner, NEW l, NEW r, IsTree(D, depth, inner, l, r),
           NEW V, NEW leaf \in [D -> V], NEW node \in [D \X V \X V -> V]
    PROVE  \E f : Unfolds(f, D, V, inner, l, r, leaf, node)
<1>. DEFINE E(n) == {e \in D : depth[e] < n}
            Body(f, e) == IF e \in inner THEN node[<<e, f[l[e]], f[r[e]]>>] ELSE leaf[e]
            Sat(f, n) == f \in [E(n) -> V] /\ \A e \in E(n) : f[e] = Body(f, e)
<1>1. \A e \in D : depth[e] \in Nat
  BY DEF IsTree
<1>2. \A n : \A e \in inner : e \in E(n) /\ n \in Nat => l[e] \in E(n) /\ r[e] \in E(n)
  BY <1>1 DEF IsTree
<1>3. ASSUME NEW m \in Nat, NEW n \in Nat, NEW f, NEW g, Sat(f, m), Sat(g, n)
      PROVE  \A e \in D : e \in E(m) /\ e \in E(n) => f[e] = g[e]
  <2>. DEFINE G == {e \in D : e \in E(m) /\ e \in E(n) => f[e] = g[e]}
  <2>1. ASSUME NEW e \in D, e \in inner => l[e] \in G /\ r[e] \in G PROVE e \in G
    <3>. SUFFICES ASSUME e \in E(m), e \in E(n) PROVE f[e] = g[e]
      OBVIOUS
    <3>1. f[e] = Body(f, e) /\ g[e] = Body(g, e)
      BY <1>3
    <3>2. CASE e \in inner
      <4>1. f[l[e]] = g[l[e]] /\ f[r[e]] = g[r[e]]
        BY <1>2, <2>1, <3>2
      <4>. QED
        BY <3>1, <4>1
    <3>3. CASE e \notin inner
      BY <3>1, <3>3
    <3>. QED
      BY <3>2, <3>3
  <2>. HIDE DEF G
  <2>2. D \subseteq G
    BY <2>1, TreeInduction
  <2>. QED
    BY <2>2 DEF G
<1>4. ASSUME NEW n \in Nat PROVE \E f : Sat(f, n)
  <2>. DEFINE T == {m \in Nat : ~\E f : Sat(f, m)}
  <2>1. ASSUME T # {} PROVE FALSE
    <3>1. T \in SUBSET Nat
      OBVIOUS
    <3>. HIDE DEF T
    <3>2. PICK y \in T : \A z \in T : y <= z
      BY <2>1, <3>1, LeastNatural
    <3>3. y \in Nat /\ ~\E f : Sat(f, y)
      BY <3>2 DEF T
    <3>4. CASE y = 0
      <4>1. E(y) = {}
        BY <1>1, <3>4
      <4>2. Sat([e \in E(y) |-> leaf[e]], y)
        BY <4>1
      <4>. QED
        BY <3>3, <4>2
    <3>5. CASE y # 0
      <4>1. y - 1 \in Nat /\ y - 1 \notin T
        BY <3>2, <3>3, <3>5
      <4>2. PICK f : Sat(f, y - 1)
        BY <4>1 DEF T
      <4>. DEFINE g == [e \in E(y) |-> Body(f, e)]
      <4>3. \A e \in inner : e \in E(y) => l[e] \in E(y - 1) /\ r[e] \in E(y - 1)
        BY <1>1, <3>3 DEF IsTree
      <4>4. \A e \in E(y) : Body(f, e) \in V
        BY <4>2, <4>3
      <4>5. \A e \in E(y - 1) : e \in E(y) /\ g[e] = f[e]
        BY <1>1, <3>3, <4>2
      <4>6. \A e \in E(y) : g[e] = Body(g, e)
        BY <4>3, <4>5, Zenon
      <4>. QED
        BY <3>3, <4>4, <4>6
    <3>. QED
      BY <3>4, <3>5
  <2>. QED
    BY <2>1
<1>. DEFINE At(e) == CHOOSE f : Sat(f, depth[e] + 1)
            F == [e \in D |-> At(e)[e]]
<1>5. ASSUME NEW e \in D
      PROVE  /\ Sat(At(e), depth[e] + 1) /\ depth[e] + 1 \in Nat /\ e \in E(depth[e] + 1)
  <2>1. depth[e] + 1 \in Nat /\ e \in E(depth[e] + 1)
    BY <1>1
  <2>. HIDE DEF Sat, E
  <2>2. \E f : Sat(f, depth[e] + 1)
    BY <1>4, <2>1
  <2>. QED
    BY <2>1, <2>2
<1>6. ASSUME NEW e \in D, NEW x \in D, x \in E(depth[e] + 1) PROVE F[x] = At(e)[x]
  <2>1. /\ Sat(At(e), depth[e] + 1) /\ Sat(At(x), depth[x] + 1)
        /\ depth[e] + 1 \in Nat /\ depth[x] + 1 \in Nat /\ x \in E(depth[x] + 1)
    BY <1>5, Zenon
  <2>. HIDE DEF Sat, At, E
  <2>2. At(x)[x] = At(e)[x]
    BY <1>3, <1>6, <2>1
  <2>. QED
    BY <2>2
<1>7. ASSUME NEW e \in D PROVE F[e] \in V /\ F[e] = Body(F, e)
  <2>1. F[e] = At(e)[e] /\ At(e)[e] = Body(At(e), e) /\ F[e] \in V
    BY <1>5, Zenon
  <2>2. e \in inner => F[l[e]] = At(e)[l[e]] /\ F[r[e]] = At(e)[r[e]]
    <3>1. e \in inner => /\ l[e] \in D /\ l[e] \in E(depth[e] + 1)
                         /\ r[e] \in D /\ r[e] \in E(depth[e] + 1)
      <4>1. depth[e] + 1 \in Nat /\ e \in E(depth[e] + 1)
        BY <1>1
      <4>. HIDE DEF E
      <4>. QED
        BY <1>2, <4>1 DEF IsTree
    <3>. HIDE DEF F, At, E
    <3>. QED
      BY <1>6, <3>1
  <2>. HIDE DEF F, At
  <2>. QED
    BY <2>1, <2>2
<1>8. F \in [D -> V]
  BY <1>7, Zenon
<1>. HIDE DEF F
<1>. QED
  BY <1>7, <1>8 DEF Unfolds


----------------------------------------------------------------------------
(* Finite sets in the order of their keys *)

\* A sequence that names no element twice is as long as its range is large.
LEMMA DistinctLength ==
    ASSUME NEW S, NEW q \in Seq(S), \A i, j \in 1 .. Len(q) : i < j => q[i] # q[j]
    PROVE  /\ IsFiniteSet({q[i] : i \in 1 .. Len(q)})
           /\ Cardinality({q[i] : i \in 1 .. Len(q)}) = Len(q)
<1>. DEFINE n == Len(q)
            R == {q[i] : i \in 1 .. n}
<1>1. n \in Nat /\ q \in [1 .. n -> R] /\ DOMAIN q = 1 .. n
  OBVIOUS
<1>2. \A i, j \in 1 .. n : q[i] = q[j] => i = j
  BY <1>1
<1>3. q \in Surjection(1 .. n, R)
  BY <1>1 DEF Surjection
<1>4. q \in Injection(1 .. n, R)
  BY <1>1, <1>2 DEF Injection, IsInjective
<1>5. ExistsBijection(1 .. n, R)
  BY <1>3, <1>4 DEF ExistsBijection, Bijection
<1>. HIDE DEF R, n
<1>6. IsFiniteSet(1 .. n)
  BY <1>1, FS_Interval
<1>7. IsFiniteSet(R)
  BY <1>5, <1>6, FS_Bijection
<1>. QED
  BY <1>1, <1>5, <1>7, FS_CountingElements DEF R, n

\* A function on 1 .. n with all of S among its values is a sequence of S.
LEMMA SequenceOf ==
    ASSUME NEW S, NEW n \in Nat, NEW q \in [1 .. n -> S], \A a \in S : \E i \in 1 .. n : q[i] = a
    PROVE  q \in Seq(S) /\ Len(q) = n /\ {q[i] : i \in 1 .. Len(q)} = S
<1>1. q \in Seq(S) /\ Len(q) = n
  OBVIOUS
<1>. QED
  BY <1>1

\* The elements of S with smaller keys than a.
Below(S, k, a) == {x \in S : k[x] < k[a]}

\* S is finite and its elements have different keys.
Keyed(S, k) ==
    IsFiniteSet(S) /\ k \in [S -> Int] /\ \A a, b \in S : k[a] = k[b] => a = b
\* q has the elements of S by the number of elements with smaller keys.
Ranks(q, S, k) ==
    /\ q \in [1 .. Cardinality(S) -> S]
    /\ \A i \in 1 .. Cardinality(S) : Cardinality(Below(S, k, q[i])) = i - 1
\* q has every element of S once, in the order of the keys.
Lists(q, S, k) ==
    /\ q \in Seq(S) /\ {q[i] : i \in 1 .. Len(q)} = S
    /\ \A i, j \in 1 .. Len(q) : i < j => k[q[i]] < k[q[j]]

\* The elements of a finite set by the number of elements with smaller keys:
\* there is one for every number, and in that order every element comes once,
\* in the order of the keys.
LEMMA RankFacts ==
    ASSUME NEW S, NEW k, Keyed(S, k)
    PROVE  /\ \A i \in 1 .. Cardinality(S) : \E a \in S : Cardinality(Below(S, k, a)) = i - 1
           /\ \A q : Ranks(q, S, k) => Lists(q, S, k)
<1>. IsFiniteSet(S) /\ k \in [S -> Int] /\ \A a, b \in S : k[a] = k[b] => a = b
  BY DEF Keyed
<1>. DEFINE n == Cardinality(S)
            r == [a \in S |-> Cardinality(Below(S, k, a))]
<1>1. n \in Nat
  BY FS_CardinalityType
<1>2. ASSUME NEW a \in S PROVE IsFiniteSet(Below(S, k, a)) /\ r[a] \in 0 .. n - 1
  <2>1. IsFiniteSet(Below(S, k, a)) /\ Cardinality(Below(S, k, a)) <= n
        /\ (n = Cardinality(Below(S, k, a)) => S = Below(S, k, a))
    BY FS_Subset, Below(S, k, a) \in SUBSET S DEF Below
  <2>2. Cardinality(Below(S, k, a)) \in Nat
    BY <2>1, FS_CardinalityType
  <2>3. a \notin Below(S, k, a)
    BY DEF Below
  <2>. QED
    BY <1>1, <2>1, <2>2, <2>3
<1>. HIDE DEF n
<1>3. ASSUME NEW a \in S, NEW b \in S, k[a] < k[b] PROVE r[a] < r[b]
  <2>1. Below(S, k, a) \in SUBSET Below(S, k, b) /\ a \in Below(S, k, b) /\ a \notin Below(S, k, a)
    BY <1>3 DEF Below
  <2>2. IsFiniteSet(Below(S, k, b)) /\ r[a] \in 0 .. n - 1 /\ r[b] \in 0 .. n - 1
    BY <1>2
  <2>3. /\ Cardinality(Below(S, k, a)) <= Cardinality(Below(S, k, b))
        /\ Cardinality(Below(S, k, b)) = Cardinality(Below(S, k, a)) =>
             Below(S, k, b) = Below(S, k, a)
    BY <2>1, <2>2, FS_Subset
  <2>4. r[a] = Cardinality(Below(S, k, a)) /\ r[b] = Cardinality(Below(S, k, b))
    OBVIOUS
  <2>. HIDE DEF r
  <2>. QED
    BY <1>1, <2>1, <2>2, <2>3, <2>4
<1>4. r \in [S -> 0 .. n - 1] /\ DOMAIN r = S
  BY <1>2
<1>5. \A a, b \in S : k[a] < k[b] \/ k[b] < k[a] \/ a = b
  OBVIOUS
<1>6. ASSUME NEW a \in S, NEW b \in S, r[a] = r[b] PROVE a = b
  <2>1. r[a] \in Int /\ r[b] \in Int
    BY <1>1, <1>4
  <2>. HIDE DEF r
  <2>. QED
    BY <1>3, <1>5, <1>6, <2>1
<1>7. r \in Injection(S, 0 .. n - 1)
  <2>. HIDE DEF r
  <2>. QED
    BY <1>4, <1>6 DEF Injection, IsInjective
<1>8. IsFiniteSet(0 .. n - 1) /\ Cardinality(0 .. n - 1) = n
  <2>1. n - 1 \in Int /\ (n - 1) - 0 + 1 = n /\ (0 > n - 1 => n = 0)
    BY <1>1
  <2>. QED
    BY <2>1, FS_Interval
<1>9. r \in Surjection(S, 0 .. n - 1)
  <2>. HIDE DEF r
  <2>. QED
    BY <1>7, <1>8, FS_Injection DEF n
<1>10. \A i \in 1 .. n : \E a \in S : r[a] = i - 1
  <2>1. \A t \in 0 .. n - 1 : \E a \in S : r[a] = t
    BY <1>9 DEF Surjection
  <2>2. \A i \in 1 .. n : i - 1 \in 0 .. n - 1
    BY <1>1
  <2>. HIDE DEF r
  <2>. QED
    BY <2>1, <2>2
<1>11. ASSUME NEW q \in [1 .. n -> S],
              \A i \in 1 .. n : Cardinality(Below(S, k, q[i])) = i - 1
       PROVE  /\ q \in Seq(S) /\ Len(q) = n
              /\ {q[i] : i \in 1 .. Len(q)} = S
              /\ \A i, j \in 1 .. Len(q) : i < j => k[q[i]] < k[q[j]]
  <2>0. \A i \in 1 .. n : q[i] \in S /\ r[q[i]] = i - 1
    BY <1>11
  <2>. HIDE DEF r
  <2>1. ASSUME NEW a \in S PROVE \E i \in 1 .. n : q[i] = a
    <3>1. r[a] + 1 \in 1 .. n
      BY <1>1, <1>4
    <3>2. q[r[a] + 1] \in S /\ r[q[r[a] + 1]] = r[a]
      <4>1. r[a] \in Int /\ (r[a] + 1) - 1 = r[a]
        BY <1>1, <1>4
      <4>. QED
        BY <2>0, <3>1, <4>1
    <3>. QED
      BY <1>6, <3>1, <3>2
  <2>2. ASSUME NEW i \in 1 .. n, NEW j \in 1 .. n, i < j PROVE k[q[i]] < k[q[j]]
    <3>1. /\ q[i] \in S /\ r[q[i]] = i - 1
          /\ q[j] \in S /\ r[q[j]] = j - 1
      BY <2>0
    <3>. QED
      BY <1>1, <1>3, <1>5, <2>2, <3>1
  <2>3. q \in Seq(S) /\ Len(q) = n /\ {q[i] : i \in 1 .. Len(q)} = S
    BY <1>1, <2>1, SequenceOf
  <2>. QED
    BY <2>2, <2>3
<1>12. \A i \in 1 .. n : \E a \in S : Cardinality(Below(S, k, a)) = i - 1
  BY <1>10
<1>. HIDE DEF r
<1>13. ASSUME NEW q, Ranks(q, S, k) PROVE Lists(q, S, k)
  BY <1>11, <1>13 DEF Ranks, Lists, n
<1>. QED
  BY <1>12, <1>13 DEF n

----------------------------------------------------------------------------
(* Sums over finite sets *)

Some(s) == CHOOSE x \in s : TRUE

\* f gives the sum of g over every subset of S, taking off one element after
\* another as MapThenSumSet of FiniteSetsExt does.
Sums(f, g, S) ==
    /\ f \in [SUBSET S -> Int]
    /\ \A s \in SUBSET S : f[s] = IF s = {} THEN 0 ELSE g[Some(s)] + f[s \ {Some(s)}]

SumOf(g, S) == (CHOOSE f : Sums(f, g, S))[S]

\* Some element.
LEMMA SomeFacts == ASSUME NEW s, s # {} PROVE Some(s) \in s
BY DEF Some

\* The subsets of a finite set form a tree by the element that is taken off.
LEMMA SubsetTree ==
    ASSUME NEW S, IsFiniteSet(S)
    PROVE  LET rest == [s \in (SUBSET S) \ {{}} |-> s \ {Some(s)}]
           IN  IsTree(SUBSET S, [s \in SUBSET S |-> Cardinality(s)], (SUBSET S) \ {{}}, rest, rest)
<1>. DEFINE rest == [s \in (SUBSET S) \ {{}} |-> s \ {Some(s)}]
            depth == [s \in SUBSET S |-> Cardinality(s)]
<1>1. ASSUME NEW s \in SUBSET S PROVE IsFiniteSet(s) /\ Cardinality(s) \in Nat
  BY FS_Subset, FS_CardinalityType
<1>2. depth \in [SUBSET S -> Nat]
  BY <1>1
<1>3. rest \in [(SUBSET S) \ {{}} -> SUBSET S]
  OBVIOUS
<1>4. ASSUME NEW s \in (SUBSET S) \ {{}} PROVE depth[rest[s]] < depth[s]
  <2>1. Some(s) \in s /\ IsFiniteSet(s) /\ Cardinality(s) \in Nat
    BY <1>1, SomeFacts
  <2>2. Cardinality(s \ {Some(s)}) = Cardinality(s) - 1
    BY <2>1, FS_RemoveElement
  <2>3. rest[s] = s \ {Some(s)} /\ s \ {Some(s)} \in SUBSET S
    OBVIOUS
  <2>. QED
    BY <2>1, <2>2, <2>3
<1>. HIDE DEF rest, depth
<1>5. IsTree(SUBSET S, depth, (SUBSET S) \ {{}}, rest, rest)
  BY <1>2, <1>3, <1>4 DEF IsTree
<1>. QED
  BY <1>5 DEF rest, depth

\* The sums of a finite set of integers exist.
LEMMA SumsExist ==
    ASSUME NEW S, IsFiniteSet(S), NEW g, \A x \in S : g[x] \in Int
    PROVE  \E f : Sums(f, g, S)
<1>. DEFINE D == SUBSET S
            inner == (SUBSET S) \ {{}}
            rest == [s \in (SUBSET S) \ {{}} |-> s \ {Some(s)}]
            depth == [s \in SUBSET S |-> Cardinality(s)]
            leaf == [s \in D |-> 0]
            node == [t \in D \X Int \X Int |-> IF t[1] = {} THEN 0 ELSE g[Some(t[1])] + t[2]]
<1>1. IsTree(D, depth, inner, rest, rest)
  BY SubsetTree
<1>2. node \in [D \X Int \X Int -> Int]
  <2>1. ASSUME NEW t \in D \X Int \X Int
        PROVE  (IF t[1] = {} THEN 0 ELSE g[Some(t[1])] + t[2]) \in Int
    <3>1. t[1] \in SUBSET S /\ t[2] \in Int
      OBVIOUS
    <3>2. t[1] # {} => g[Some(t[1])] \in Int
      BY <3>1, SomeFacts
    <3>. QED
      BY <3>1, <3>2
  <2>. QED
    BY <2>1
<1>3. leaf \in [D -> Int]
  OBVIOUS
<1>4. \E f \in [D -> Int] : \A s \in D :
        f[s] = IF s \in inner THEN node[<<s, f[rest[s]], f[rest[s]]>>] ELSE leaf[s]
  <2>. DEFINE V == Int
  <2>1. node \in [D \X V \X V -> V] /\ leaf \in [D -> V]
    BY <1>2, <1>3
  <2>. HIDE DEF D, depth, inner, rest, leaf, node, V
  <2>2. PICK f : Unfolds(f, D, V, inner, rest, rest, leaf, node)
    BY <1>1, <2>1, TreeDefinition
  <2>3. \E g1 \in [D -> V] : \A s \in D :
          g1[s] = IF s \in inner THEN node[<<s, g1[rest[s]], g1[rest[s]]>>] ELSE leaf[s]
    BY <2>2, Zenon DEF Unfolds
  <2>. QED
    BY <2>3, Zenon DEF V
<1>5. PICK f \in [D -> Int] : \A s \in D :
        f[s] = IF s \in inner THEN node[<<s, f[rest[s]], f[rest[s]]>>] ELSE leaf[s]
  BY <1>4
<1>6. ASSUME NEW s \in D
      PROVE  f[s] = IF s = {} THEN 0 ELSE g[Some(s)] + f[s \ {Some(s)}]
  <2>1. CASE s = {}
    BY <1>5, <2>1
  <2>2. CASE s # {}
    <3>1. s \in inner /\ rest[s] = s \ {Some(s)} /\ rest[s] \in D
      BY <2>2
    <3>2. f[s] = node[<<s, f[rest[s]], f[rest[s]]>>] /\ f[rest[s]] \in Int
      BY <1>5, <3>1
    <3>3. <<s, f[rest[s]], f[rest[s]]>> \in D \X Int \X Int
      BY <3>2
    <3>4. node[<<s, f[rest[s]], f[rest[s]]>>] = g[Some(s)] + f[rest[s]]
      BY <2>2, <3>3
    <3>. QED
      BY <2>2, <3>1, <3>2, <3>4
  <2>. QED
    BY <2>1, <2>2
<1>. QED
  BY <1>5, <1>6 DEF Sums

\* Which element is taken off first makes no difference.
LEMMA SumsRemove ==
    ASSUME NEW S, IsFiniteSet(S), NEW g, \A x \in S : g[x] \in Int, NEW f, Sums(f, g, S)
    PROVE  \A s \in SUBSET S : \A y \in s : f[s] = g[y] + f[s \ {y}]
<1>. DEFINE Bad == {s \in SUBSET S : \E y \in s : f[s] # g[y] + f[s \ {y}]}
            T == {Cardinality(s) : s \in Bad}
<1>1. ASSUME NEW s \in SUBSET S PROVE IsFiniteSet(s) /\ Cardinality(s) \in Nat
  BY FS_Subset, FS_CardinalityType
<1>2. T \in SUBSET Nat
  BY <1>1
<1>3. ASSUME NEW s \in SUBSET S, NEW y \in s
      PROVE  s \ {y} \in SUBSET S /\ Cardinality(s \ {y}) = Cardinality(s) - 1
  BY <1>1, FS_RemoveElement
<1>4. \A s \in SUBSET S : f[s] \in Int
  BY DEF Sums
<1>5. ASSUME Bad # {} PROVE FALSE
  <2>1. T # {}
    BY <1>5
  <2>. HIDE DEF T
  <2>2. PICK n \in T : \A m \in T : n <= m
    BY <1>2, <2>1, LeastNatural
  <2>3. PICK s \in Bad : n = Cardinality(s)
    BY <2>2 DEF T
  <2>4. PICK y \in s : f[s] # g[y] + f[s \ {y}]
    BY <2>3
  <2>5. ASSUME NEW z \in s PROVE s \ {z} \notin Bad
    <3>1. Cardinality(s \ {z}) < n /\ n \in Nat /\ Cardinality(s \ {z}) \in Int
      BY <1>1, <1>3, <2>3
    <3>2. s \ {z} \in Bad => Cardinality(s \ {z}) \in T
      BY DEF T
    <3>. QED
      <4>. HIDE DEF Bad
      <4>. QED
        BY <2>2, <3>1, <3>2
  <2>. DEFINE x == Some(s)
  <2>6. s \in SUBSET S /\ x \in s /\ f[s] = g[x] + f[s \ {x}]
    BY <2>4, SomeFacts DEF Sums
  <2>. HIDE DEF x
  <2>7. CASE y = x
    BY <2>4, <2>6, <2>7
  <2>8. CASE y # x
    <3>1. y \in s \ {x} /\ x \in s \ {y}
      BY <2>6, <2>8
    <3>2. f[s \ {x}] = g[y] + f[(s \ {x}) \ {y}]
      BY <2>5, <2>6, <3>1
    <3>3. f[s \ {y}] = g[x] + f[(s \ {y}) \ {x}]
      BY <2>4, <2>5, <2>6, <3>1
    <3>4. (s \ {x}) \ {y} = (s \ {y}) \ {x} /\ (s \ {x}) \ {y} \in SUBSET S
      BY <2>6
    <3>5. f[(s \ {x}) \ {y}] \in Int /\ g[x] \in Int /\ g[y] \in Int
      BY <1>4, <2>6, <3>4
    <3>. DEFINE c == f[(s \ {x}) \ {y}]
    <3>6. g[x] + (g[y] + c) = g[y] + (g[x] + c)
      BY <3>5
    <3>7. f[s] = g[x] + (g[y] + c) /\ f[s \ {y}] = g[x] + c
      BY <2>6, <3>2, <3>3, <3>4
    <3>. HIDE DEF c
    <3>. QED
      BY <2>4, <3>6, <3>7
  <2>. QED
    BY <2>7, <2>8
<1>. QED
  BY <1>5

\* Sums over a set do not depend on the set they are taken in.
LEMMA SumsAgree ==
    ASSUME NEW S, IsFiniteSet(S), NEW R \in SUBSET S, NEW g, NEW f, Sums(f, g, S),
           NEW h, Sums(h, g, R)
    PROVE  \A s \in SUBSET R : f[s] = h[s]
<1>. DEFINE inner == (SUBSET R) \ {{}}
            rest == [s \in (SUBSET R) \ {{}} |-> s \ {Some(s)}]
            depth == [s \in SUBSET R |-> Cardinality(s)]
            G == {s \in SUBSET R : f[s] = h[s]}
<1>1. IsTree(SUBSET R, depth, inner, rest, rest)
  BY SubsetTree, FS_Subset
<1>2. ASSUME NEW s \in SUBSET R, s \in inner => rest[s] \in G /\ rest[s] \in G PROVE s \in G
  <2>1. CASE s = {}
    BY <2>1 DEF Sums
  <2>2. CASE s # {}
    <3>1. rest[s] = s \ {Some(s)} /\ f[rest[s]] = h[rest[s]]
      BY <1>2, <2>2
    <3>2. s \in SUBSET S
      OBVIOUS
    <3>. QED
      BY <2>2, <3>1, <3>2 DEF Sums
  <2>. QED
    BY <2>1, <2>2
<1>. HIDE DEF inner, rest, depth, G
<1>3. SUBSET R \subseteq G
  BY <1>1, <1>2, TreeInduction
<1>. QED
  BY <1>3 DEF G

\* The sum over a finite set: of nothing, and with one element more.
LEMMA SumFacts ==
    ASSUME NEW S, IsFiniteSet(S), NEW g, \A x \in S : g[x] \in Int
    PROVE  /\ SumOf(g, {}) = 0
           /\ \A R \in SUBSET S : SumOf(g, R) \in Int
           /\ \A R \in SUBSET S : \A x \in S \ R : SumOf(g, R \cup {x}) = SumOf(g, R) + g[x]
<1>1. PICK f : Sums(f, g, S)
  BY SumsExist
<1>2. ASSUME NEW R \in SUBSET S PROVE SumOf(g, R) = f[R]
  <2>1. IsFiniteSet(R)
    BY FS_Subset
  <2>2. \E h : Sums(h, g, R)
    BY <2>1, SumsExist
  <2>. DEFINE h == CHOOSE f1 : Sums(f1, g, R)
  <2>3. Sums(h, g, R)
    BY <2>2
  <2>4. SumOf(g, R) = h[R]
    BY DEF SumOf
  <2>. HIDE DEF h
  <2>5. f[R] = h[R]
    BY <1>1, <2>3, SumsAgree
  <2>. QED
    BY <2>4, <2>5
<1>3. SumOf(g, {}) = 0
  BY <1>1, <1>2 DEF Sums
<1>4. ASSUME NEW R \in SUBSET S PROVE SumOf(g, R) \in Int
  BY <1>1, <1>2 DEF Sums
<1>5. ASSUME NEW R \in SUBSET S, NEW x \in S \ R
      PROVE  SumOf(g, R \cup {x}) = SumOf(g, R) + g[x]
  <2>1. R \cup {x} \in SUBSET S /\ (R \cup {x}) \ {x} = R
    OBVIOUS
  <2>2. f[R \cup {x}] = g[x] + f[R]
    BY <1>1, <2>1, SumsRemove
  <2>3. f[R] \in Int /\ g[x] \in Int
    BY <1>2, <1>4
  <2>. QED
    BY <1>2, <2>1, <2>2, <2>3
<1>. QED
  BY <1>3, <1>4, <1>5
=============================================================================
