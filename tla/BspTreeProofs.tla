---------------------------- MODULE BspTreeProofs ----------------------------
(***************************************************************************)
(* Proofs about BspTree: what the functions of DiskBspIndex leave of a tree. *)
(*                                                                         *)
(* A tree is described by a function that the code does not have: at[l][k] is *)
(* the page of level l above key k, for every entry of the map M of keys to *)
(* rids and every level from the leaves, 0, to the root, top.  Grid says that *)
(* the keys below a page are consecutive and that levels nest, Layer that the *)
(* pages of a level are what at says they are: leaves with the entries of  *)
(* their keys and the next leaf, inner pages with the row of their children *)
(* and separators between them.                                            *)
(*                                                                         *)
(* Splitting, borrowing and merging all deal the keys below two neighbours, or *)
(* below one page, out again (Dealt): each kind of page is treated once, and *)
(* the functions of the code are then followed write by write (Wrote,      *)
(* Changed).  Good is what each of them has to leave: a tree of the entries, *)
(* with the call ended or left to the next function, or an exception.      *)
(***************************************************************************)
EXTENDS BspIndex, DataLemmas

Entries == [key : Keys, rid : Rids]

\* Every key of A is smaller than every key of B.
Before(A, B) == \A x \in A, y \in B : x < y

\* The keys of K below page q of level l.
Block(at, K, l, q) == {k \in K : at[l][k] = q}

Grid(at, top, K, n) ==
    /\ top \in Nat /\ n \in Nat /\ K \subseteq Keys
    /\ at \in [Nat -> [Int -> Int]]
    /\ \A l \in 0 .. top, k \in K : at[l][k] \in 1 .. n
    /\ \A l, m \in 0 .. top, j, k \in K : at[l][j] = at[m][k] => l = m
    /\ \A l \in 0 .. top, i, j, k \in K :
         i < j /\ j < k /\ at[l][i] = at[l][k] => at[l][j] = at[l][i]
    /\ \A l, m \in 0 .. top, j, k \in K :
         l <= m /\ at[l][j] = at[l][k] => at[m][j] = at[m][k]

\* The entries s are those of the keys S in the map M, in key order.
Held(s, M, S) ==
    /\ s \in Seq(Entries)
    /\ \A i, j \in 1 .. Len(s) : i < j => s[i].key < s[j].key
    /\ \A i \in 1 .. Len(s) : s[i].key \in S /\ s[i].rid = M[s[i].key]
    /\ \A k \in S : \E i \in 1 .. Len(s) : s[i].key = k

\* The leaf n is the next after leaf q; 0 after the last.
NextOK(at, K, q, n) ==
    \A j \in Block(at, K, 0, q) :
      \/ n = 0 /\ \A k \in K : j < k => at[0][k] = q
      \/ \E k \in K : /\ j < k /\ n = at[0][k] /\ n # q
                      /\ \A i \in K : j < i /\ i < k => at[0][i] = q

LeafOK(p, q, at, M) ==
    /\ p = Leaf(q, p.entries, p.next)
    /\ Held(p.entries, M, Block(at, DOMAIN M, 0, q))
    /\ NextOK(at, DOMAIN M, q, p.next)

\* s are pages of level l, from left to right, and S the keys below them.
Row(s, at, K, l, S) ==
    /\ s \in Seq(Int) /\ S \subseteq K
    /\ \A i \in 1 .. Len(s) : \E k \in S : at[l][k] = s[i]
    /\ \A k \in K : k \in S <=> \E i \in 1 .. Len(s) : at[l][k] = s[i]
    /\ \A i, j \in 1 .. Len(s) : i < j =>
         Before(Block(at, K, l, s[i]), Block(at, K, l, s[j]))

\* The separators ks lie between the pages s of level l.
Seps(ks, s, at, K, l) ==
    /\ ks \in Seq(Int) /\ Len(ks) = Len(s) - 1
    /\ \A i, j \in 1 .. Len(ks) : i < j => ks[i] < ks[j]
    /\ \A i \in 1 .. Len(ks) : /\ \A k \in Block(at, K, l, s[i]) : k < ks[i]
                               /\ \A k \in Block(at, K, l, s[i + 1]) : ks[i] <= k

InnerOK(p, q, l, at, K) ==
    /\ p = Inner(q, p.children, p.keys)
    /\ Row(p.children, at, K, l - 1, Block(at, K, l, q))
    /\ Seps(p.keys, p.children, at, K, l - 1)

PageOK(p, q, l, at, M) ==
    IF l = 0 THEN LeafOK(p, q, at, M) ELSE InnerOK(p, q, l, at, DOMAIN M)

Layer(pg, at, M, l) == \A k \in DOMAIN M : PageOK(pg[at[l][k]], at[l][k], l, at, M)

Tree(pg, at, top, M) ==
    /\ Grid(at, top, DOMAIN M, Len(pg)) /\ DOMAIN M # {}
    /\ \A l \in 0 .. top : Layer(pg, at, M, l)

FirstOK(at, K, f) == \A k \in K : (\A j \in K : k <= j) => f = at[0][k]
RootOK(at, top, K, r) == \A k \in K : at[top][k] = r

\* The path from the root to the page of level l above or at key w.
PathIs(path, at, top, l, w) == path = [i \in 1 .. top + 1 - l |-> at[top + 1 - i][w]]

\* The tree between calls.
Settled(pg, r, f, M) ==
    \/ DOMAIN M = {} /\ f = r /\ r \in 1 .. Len(pg) /\ pg[r] = Leaf(r, <<>>, 0)
    \/ \E at, top : Tree(pg, at, top, M) /\ RootOK(at, top, DOMAIN M, r) /\ FirstOK(at, DOMAIN M, f)

\* node holds the entry e of the leaf above w, with path, to be written and split.
Pend(pg, r, f, call, M, at, top, l, w) ==
    LET q == at[l][w]
    IN  /\ Tree([pg EXCEPT ![q] = call.node], at, top, M)
        /\ RootOK(at, top, DOMAIN M, r) /\ FirstOK(at, DOMAIN M, f)
        /\ w \in DOMAIN M /\ l \in 0 .. top /\ PathIs(call.path, at, top, l, w)
Minus(leaf, k, new) ==
    \E i \in 1 .. Len(leaf.entries) :
        leaf.entries[i].key = k /\ new = [leaf EXCEPT !.entries = RemoveAt(@, i)]
PendErase(pg, r, f, call, M, k, at, top) ==
    /\ Tree(pg, at, top, M) /\ RootOK(at, top, DOMAIN M, r) /\ FirstOK(at, DOMAIN M, f)
    /\ k \in DOMAIN M /\ top > 0 /\ PathIs(call.path, at, top, 0, k)
    /\ Minus(pg[at[0][k]], k, call.node)

----------------------------------------------------------------------------
(* Sequences *)

\* A part of a sequence.
LEMMA Cut ==
    ASSUME NEW S, NEW s \in Seq(S), NEW i \in Int, NEW j \in Int,
           1 <= i, j <= Len(s), i <= j + 1
    PROVE  /\ SubSeq(s, i, j) \in Seq(S) /\ Len(SubSeq(s, i, j)) = j - i + 1
           /\ \A x \in 1 .. j - i + 1 : SubSeq(s, i, j)[x] = s[i + x - 1]
<1>1. \A x \in i .. j : s[x] \in S
  OBVIOUS
<1>. QED
  BY <1>1

\* Two sequences, one after the other.
LEMMA Joined ==
    ASSUME NEW S, NEW s \in Seq(S), NEW u \in Seq(S)
    PROVE  /\ s \o u \in Seq(S) /\ Len(s \o u) = Len(s) + Len(u)
           /\ \A x \in 1 .. Len(s) + Len(u) : (s \o u)[x] = IF x <= Len(s) THEN s[x] ELSE u[x - Len(s)]
  OBVIOUS

\* Two sequences of one length with the same elements are one sequence.
LEMMA SameSeq ==
    ASSUME NEW S, NEW s \in Seq(S), NEW u \in Seq(S), Len(s) = Len(u),
           \A i \in 1 .. Len(s) : s[i] = u[i]
    PROVE  s = u
  OBVIOUS

\* A sequence with one element more, as std::vector::insert leaves it.
LEMMA Inserted ==
    ASSUME NEW S, NEW s \in Seq(S), NEW e \in S, NEW i \in 1 .. Len(s) + 1
    PROVE  /\ InsertAt(s, i, e) \in Seq(S) /\ Len(InsertAt(s, i, e)) = Len(s) + 1
           /\ \A x \in 1 .. Len(s) + 1 : InsertAt(s, i, e)[x] =
                IF x < i THEN s[x] ELSE IF x = i THEN e ELSE s[x - 1]
<1>. DEFINE a == SubSeq(s, 1, i - 1)
            c == SubSeq(s, i, Len(s))
<1>1. a \in Seq(S) /\ Len(a) = i - 1 /\ \A x \in 1 .. i - 1 : a[x] = s[x]
  OBVIOUS
<1>2. c \in Seq(S) /\ Len(c) = Len(s) - i + 1 /\ \A x \in 1 .. Len(s) - i + 1 : c[x] = s[i + x - 1]
  BY Cut
<1>3. InsertAt(s, i, e) = (a \o <<e>>) \o c
  BY DEF InsertAt
<1>. HIDE DEF a, c
<1>4. a \o <<e>> \in Seq(S) /\ Len(a \o <<e>>) = i /\ \A x \in 1 .. i : (a \o <<e>>)[x] = IF x < i THEN s[x] ELSE e
  BY <1>1
<1>. DEFINE b == a \o <<e>>
<1>. HIDE DEF b
<1>5. /\ b \o c \in Seq(S) /\ Len(b \o c) = Len(s) + 1
      /\ \A x \in 1 .. Len(s) + 1 : (b \o c)[x] = IF x <= i THEN b[x] ELSE c[x - i]
  <2>1. b \in Seq(S) /\ Len(b) = i
    BY <1>4 DEF b
  <2>. QED
    BY <1>2, <2>1, Joined
<1>. QED
  BY <1>2, <1>3, <1>4, <1>5, SMTT(20) DEF b

\* A sequence with one element less, as std::vector::erase leaves it.
LEMMA Taken ==
    ASSUME NEW S, NEW s \in Seq(S), NEW i \in 1 .. Len(s)
    PROVE  /\ RemoveAt(s, i) \in Seq(S) /\ Len(RemoveAt(s, i)) = Len(s) - 1
           /\ \A x \in 1 .. Len(s) - 1 : RemoveAt(s, i)[x] =
                IF x < i THEN s[x] ELSE s[x + 1]
<1>. DEFINE a == SubSeq(s, 1, i - 1)
            c == SubSeq(s, i + 1, Len(s))
<1>1. a \in Seq(S) /\ Len(a) = i - 1 /\ \A x \in 1 .. i - 1 : a[x] = s[x]
  OBVIOUS
<1>2. c \in Seq(S) /\ Len(c) = Len(s) - i /\ \A x \in 1 .. Len(s) - i : c[x] = s[i + x]
  BY Cut
<1>3. RemoveAt(s, i) = a \o c
  BY DEF RemoveAt
<1>. HIDE DEF a, c
<1>4. /\ a \o c \in Seq(S) /\ Len(a \o c) = Len(s) - 1
      /\ \A x \in 1 .. Len(s) - 1 : (a \o c)[x] = IF x <= i - 1 THEN a[x] ELSE c[x - (i - 1)]
  <2>1. /\ a \o c \in Seq(S) /\ Len(a \o c) = Len(a) + Len(c)
        /\ \A x \in 1 .. Len(a) + Len(c) : (a \o c)[x] = IF x <= Len(a) THEN a[x] ELSE c[x - Len(a)]
    BY <1>1, <1>2, Joined
  <2>2. Len(a) = i - 1 /\ Len(a) + Len(c) = Len(s) - 1
    BY <1>1, <1>2
  <2>. QED
    BY <2>1, <2>2
<1>5. ASSUME NEW x \in 1 .. Len(s) - 1
      PROVE  (a \o c)[x] = IF x < i THEN s[x] ELSE s[x + 1]
  <2>1. CASE x < i
    <3>1. x \in 1 .. i - 1 /\ x <= i - 1
      BY <2>1
    <3>. QED
      BY <1>1, <1>4, <2>1, <3>1
  <2>2. CASE ~(x < i)
    <3>1. x - (i - 1) \in 1 .. Len(s) - i /\ ~(x <= i - 1) /\ i + (x - (i - 1)) = x + 1
      BY <2>2
    <3>2. c[x - (i - 1)] = s[i + (x - (i - 1))]
      BY <1>2, <3>1
    <3>. QED
      BY <1>4, <2>2, <3>1, <3>2
  <2>. QED
    BY <2>1, <2>2
<1>. QED
  BY <1>3, <1>4, <1>5

\* The part of a sequence from its first to its last element is the sequence.
LEMMA WholeSeq ==
    ASSUME NEW S, NEW s \in Seq(S)
    PROVE  SubSeq(s, 1, Len(s)) = s
<1>. DEFINE u == SubSeq(s, 1, Len(s))
<1>1. /\ 1 \in Int /\ Len(s) \in Int /\ 1 <= 1 /\ Len(s) <= Len(s) /\ 1 <= Len(s) + 1
      /\ Len(s) - 1 + 1 = Len(s) /\ \A x \in 1 .. Len(s) : 1 + x - 1 = x
  OBVIOUS
<1>2. u \in Seq(S) /\ Len(u) = Len(s) /\ \A x \in 1 .. Len(s) : u[x] = s[x]
  BY <1>1, Cut
<1>. HIDE DEF u
<1>3. u = s
  BY <1>2, SameSeq
<1>. QED
  BY <1>3 DEF u

\* A sequence is its first n elements and the others.
LEMMA Recut ==
    ASSUME NEW S, NEW s \in Seq(S), NEW u \in Seq(S)
    PROVE  /\ u # <<>> => SubSeq(s \o u, 1, Len(s) + 1) = Append(s, Head(u))
           /\ u # <<>> => SubSeq(s \o u, Len(s) + 2, Len(s) + Len(u)) = Tail(u)
           /\ s # <<>> => SubSeq(s \o u, 1, Len(s) - 1) = Front(s)
           /\ s # <<>> => SubSeq(s \o u, Len(s), Len(s) + Len(u)) = <<Last(s)>> \o u
           /\ SubSeq(s \o u, 1, Len(s) + Len(u)) = s \o u
<1>1. ASSUME u # <<>> PROVE SubSeq(s \o u, 1, Len(s) + 1) = Append(s, Head(u))
  BY <1>1, SMTT(30)
<1>2. ASSUME u # <<>> PROVE SubSeq(s \o u, Len(s) + 2, Len(s) + Len(u)) = Tail(u)
  BY <1>2, SMTT(30)
<1>3. ASSUME s # <<>> PROVE SubSeq(s \o u, 1, Len(s) - 1) = Front(s)
  BY <1>3, SMTT(30) DEF Front
<1>4. ASSUME s # <<>> PROVE SubSeq(s \o u, Len(s), Len(s) + Len(u)) = <<Last(s)>> \o u
  BY <1>4, SMTT(30) DEF Last
<1>5. SubSeq(s \o u, 1, Len(s) + Len(u)) = s \o u
  BY SMTT(30)
<1>. QED
  BY <1>1, <1>2, <1>3, <1>4, <1>5

----------------------------------------------------------------------------
(* Entries in key order, and rows of pages *)

KeysOf(s) == {s[i].key : i \in 1 .. Len(s)}

\* A part of a sequence of entries holds the entries of its keys.
LEMMA HeldPart ==
    ASSUME NEW s, NEW M, NEW S, Held(s, M, S), NEW i \in Int, NEW j \in Int,
           1 <= i, j <= Len(s), i <= j + 1
    PROVE  /\ Held(SubSeq(s, i, j), M, KeysOf(SubSeq(s, i, j)))
           /\ KeysOf(SubSeq(s, i, j)) = {s[x].key : x \in i .. j}
           /\ Len(SubSeq(s, i, j)) = j - i + 1
<1>. DEFINE u == SubSeq(s, i, j)
<1>1. s \in Seq(Entries) /\ Len(s) \in Nat
  BY DEF Held
<1>2. u \in Seq(Entries) /\ Len(u) = j - i + 1 /\ \A x \in 1 .. j - i + 1 : u[x] = s[i + x - 1]
  BY <1>1, Cut
<1>. HIDE DEF u
<1>3. Held(u, M, KeysOf(u))
  <2>1. ASSUME NEW x \in 1 .. Len(u), NEW y \in 1 .. Len(u), x < y PROVE u[x].key < u[y].key
    <3>1. i + x - 1 \in 1 .. Len(s) /\ i + y - 1 \in 1 .. Len(s) /\ i + x - 1 < i + y - 1
      BY <1>1, <1>2, <2>1
    <3>. QED
      BY <1>2, <3>1, ZenonT(60) DEF Held
  <2>2. ASSUME NEW x \in 1 .. Len(u) PROVE u[x].rid = M[u[x].key]
    <3>1. i + x - 1 \in 1 .. Len(s)
      BY <1>1, <1>2
    <3>. QED
      BY <1>2, <3>1, SMTT(20) DEF Held
  <2>. QED
    BY <1>2, <2>1, <2>2 DEF Held, KeysOf
<1>4. KeysOf(u) = {s[x].key : x \in i .. j}
  <2>1. ASSUME NEW x \in i .. j PROVE x - i + 1 \in 1 .. Len(u) /\ u[x - i + 1] = s[x]
    BY <1>2
  <2>2. ASSUME NEW y \in 1 .. Len(u) PROVE i + y - 1 \in i .. j /\ u[y] = s[i + y - 1]
    BY <1>2
  <2>3. ASSUME NEW k \in KeysOf(u) PROVE \E x \in i .. j : k = s[x].key
    <3>1. PICK y \in 1 .. Len(u) : k = u[y].key
      BY DEF KeysOf
    <3>. QED
      BY <3>1, <2>2
  <2>4. ASSUME NEW x \in i .. j PROVE s[x].key \in KeysOf(u)
    BY <2>1 DEF KeysOf
  <2>. QED
    BY <2>3, <2>4
<1>. QED
  BY <1>2, <1>3, <1>4 DEF u

HeldParts(s, M, S, n, m) ==
    \E A, B, C :
      /\ Held(SubSeq(s, 1, n), M, A)
      /\ Held(SubSeq(s, n + 1, m), M, B)
      /\ Held(SubSeq(s, m + 1, Len(s)), M, C)
      /\ S = A \cup B \cup C /\ Before(A, B) /\ Before(B, C) /\ Before(A, C)
      /\ (A = {} <=> n = 0) /\ (B = {} <=> m = n) /\ (C = {} <=> m = Len(s))

\* Three parts of a sequence of entries.
LEMMA HeldCut ==
    ASSUME NEW s, NEW M, NEW S, Held(s, M, S), NEW n \in Nat, NEW m \in Nat,
           n <= m, m <= Len(s)
    PROVE  HeldParts(s, M, S, n, m)
<1>. DEFINE A == KeysOf(SubSeq(s, 1, n))
            B == KeysOf(SubSeq(s, n + 1, m))
            C == KeysOf(SubSeq(s, m + 1, Len(s)))
<1>1. Len(s) \in Nat /\ \A i, j \in 1 .. Len(s) : i < j => s[i].key < s[j].key
  BY DEF Held
<1>2. Held(SubSeq(s, 1, n), M, A) /\ A = {s[x].key : x \in 1 .. n}
  <2>1. 1 \in Int /\ n \in Int /\ 1 <= 1 /\ n <= Len(s) /\ 1 <= n + 1
    BY <1>1
  <2>. QED
    BY <2>1, HeldPart, SMTT(30)
<1>3. Held(SubSeq(s, n + 1, m), M, B) /\ B = {s[x].key : x \in n + 1 .. m}
  <2>1. n + 1 \in Int /\ m \in Int /\ 1 <= n + 1 /\ m <= Len(s) /\ n + 1 <= m + 1
    BY <1>1
  <2>. QED
    BY <2>1, HeldPart, SMTT(30)
<1>4. Held(SubSeq(s, m + 1, Len(s)), M, C) /\ C = {s[x].key : x \in m + 1 .. Len(s)}
  <2>1. m + 1 \in Int /\ Len(s) \in Int /\ 1 <= m + 1 /\ Len(s) <= Len(s) /\ m + 1 <= Len(s) + 1
    BY <1>1
  <2>. QED
    BY <2>1, HeldPart, SMTT(30)
<1>. HIDE DEF A, B, C
<1>5. S = A \cup B \cup C
  <2>1. \A k : k \in S <=> \E x \in 1 .. Len(s) : k = s[x].key
    BY DEF Held
  <2>2. \A x : x \in 1 .. Len(s) <=> x \in 1 .. n \/ x \in n + 1 .. m \/ x \in m + 1 .. Len(s)
    BY <1>1
  <2>3. \A k : k \in A \cup B \cup C <=> \E x \in 1 .. Len(s) : k = s[x].key
    BY <1>2, <1>3, <1>4, <2>2
  <2>. QED
    BY <2>1, <2>3
<1>6. Before(A, B) /\ Before(B, C) /\ Before(A, C)
  BY <1>1, <1>2, <1>3, <1>4, SMTT(20) DEF Before
<1>7. (A = {} <=> n = 0) /\ (B = {} <=> m = n) /\ (C = {} <=> m = Len(s))
  <2>1. n # 0 => s[1].key \in A
    BY <1>1, <1>2
  <2>2. m # n => s[m].key \in B
    BY <1>1, <1>3
  <2>3. m # Len(s) => s[Len(s)].key \in C
    BY <1>1, <1>4
  <2>4. n = 0 => 1 .. n = {}
    OBVIOUS
  <2>5. m = n => n + 1 .. m = {}
    OBVIOUS
  <2>6. m = Len(s) => m + 1 .. Len(s) = {}
    BY <1>1
  <2>. QED
    BY <2>1, <2>2, <2>3, <2>4, <2>5, <2>6, <1>2, <1>3, <1>4
<1>. USE DEF HeldParts
<1>. WITNESS A, B, C
<1>. QED
  BY <1>2, <1>3, <1>4, <1>5, <1>6, <1>7 DEF HeldParts

\* The entries of two sets of keys, one after the other.
LEMMA HeldJoin ==
    ASSUME NEW s, NEW u, NEW M, NEW A, NEW B, Held(s, M, A), Held(u, M, B), Before(A, B)
    PROVE  Held(s \o u, M, A \cup B)
<1>1. s \in Seq(Entries) /\ u \in Seq(Entries) /\ Len(s) \in Nat /\ Len(u) \in Nat
  BY DEF Held
<1>. DEFINE v == s \o u
<1>2. /\ v \in Seq(Entries) /\ Len(v) = Len(s) + Len(u)
      /\ \A x \in 1 .. Len(s) + Len(u) : v[x] = IF x <= Len(s) THEN s[x] ELSE u[x - Len(s)]
  BY <1>1, Joined
<1>. HIDE DEF v
<1>6. ASSUME NEW x \in 1 .. Len(v), x > Len(s)
      PROVE  x - Len(s) \in 1 .. Len(u) /\ v[x] = u[x - Len(s)]
  <2>1. x \in 1 .. Len(s) + Len(u) /\ ~(x <= Len(s)) /\ x - Len(s) \in 1 .. Len(u)
    BY <1>1, <1>2, <1>6
  <2>. QED
    BY <1>2, <2>1
<1>7. ASSUME NEW x \in 1 .. Len(v), x <= Len(s)
      PROVE  x \in 1 .. Len(s) /\ v[x] = s[x]
  <2>1. x \in 1 .. Len(s) + Len(u) /\ x \in 1 .. Len(s)
    BY <1>1, <1>2, <1>7
  <2>. QED
    BY <1>2, <1>7, <2>1
<1>8. /\ \A x \in 1 .. Len(s) : s[x].key \in A /\ s[x].rid = M[s[x].key]
      /\ \A x \in 1 .. Len(u) : u[x].key \in B /\ u[x].rid = M[u[x].key]
      /\ \A x, y \in 1 .. Len(s) : x < y => s[x].key < s[y].key
  BY DEF Held
<1>3. ASSUME NEW x \in 1 .. Len(v) PROVE v[x].key \in A \cup B /\ v[x].rid = M[v[x].key]
  <2>1. x <= Len(s) \/ x > Len(s)
    BY <1>1, <1>2
  <2>2. CASE x <= Len(s)
    BY <1>7, <1>8, <2>2
  <2>3. CASE x > Len(s)
    BY <1>6, <1>8, <2>3
  <2>. QED
    BY <2>1, <2>2, <2>3
<1>4. ASSUME NEW i \in 1 .. Len(v), NEW j \in 1 .. Len(v), i < j PROVE v[i].key < v[j].key
  <2>1. CASE j <= Len(s)
    <3>1. i <= Len(s)
      BY <1>1, <1>2, <1>4, <2>1
    <3>2. i \in 1 .. Len(s) /\ j \in 1 .. Len(s) /\ v[i] = s[i] /\ v[j] = s[j]
      BY <1>7, <2>1, <3>1
    <3>. QED
      BY <1>4, <1>8, <3>2
  <2>2. CASE i > Len(s)
    <3>1. j > Len(s) /\ i - Len(s) < j - Len(s)
      BY <1>1, <1>2, <1>4, <2>2
    <3>. QED
      BY <1>6, <2>2, <3>1, ZenonT(60) DEF Held
  <2>3. CASE i <= Len(s) /\ j > Len(s)
    <3>1. s[i].key \in A /\ u[j - Len(s)].key \in B
      BY <1>1, <1>2, <2>3 DEF Held
    <3>. QED
      BY <1>1, <1>2, <2>3, <3>1 DEF Before
  <2>. QED
    BY <1>1, <1>2, <2>1, <2>2, <2>3
<1>5. ASSUME NEW k \in A \cup B PROVE \E i \in 1 .. Len(v) : v[i].key = k
  <2>1. CASE k \in A
    <3>1. PICK i \in 1 .. Len(s) : s[i].key = k
      BY <2>1 DEF Held
    <3>. QED
      BY <1>1, <1>2, <3>1
  <2>2. CASE k \in B
    <3>1. PICK i \in 1 .. Len(u) : u[i].key = k
      BY <2>2 DEF Held
    <3>2. Len(s) + i \in 1 .. Len(v) /\ v[Len(s) + i] = u[i]
      BY <1>1, <1>2
    <3>. QED
      BY <3>1, <3>2
  <2>. QED
    BY <2>1, <2>2
<1>. QED
  BY <1>2, <1>3, <1>4, <1>5 DEF Held, v

RowSet(s, at, K, l) == {k \in K : \E i \in 1 .. Len(s) : at[l][k] = s[i]}

\* A part of a row of pages.
LEMMA RowPart ==
    ASSUME NEW s, NEW at, NEW K, NEW l, NEW S, Row(s, at, K, l, S), NEW i \in Int, NEW j \in Int,
           1 <= i, j <= Len(s), i <= j + 1
    PROVE  /\ Row(SubSeq(s, i, j), at, K, l, RowSet(SubSeq(s, i, j), at, K, l))
           /\ \A k : k \in RowSet(SubSeq(s, i, j), at, K, l) <=>
                        k \in K /\ \E x \in i .. j : at[l][k] = s[x]
           /\ Len(SubSeq(s, i, j)) = j - i + 1
<1>. DEFINE u == SubSeq(s, i, j)
<1>1. s \in Seq(Int) /\ Len(s) \in Nat
  BY DEF Row
<1>2. u \in Seq(Int) /\ Len(u) = j - i + 1 /\ \A x \in 1 .. j - i + 1 : u[x] = s[i + x - 1]
  BY <1>1, Cut
<1>. HIDE DEF u
<1>3. ASSUME NEW x \in i .. j PROVE x - i + 1 \in 1 .. Len(u) /\ u[x - i + 1] = s[x]
  BY <1>2
<1>4. ASSUME NEW y \in 1 .. Len(u)
      PROVE  i + y - 1 \in i .. j /\ i + y - 1 \in 1 .. Len(s) /\ u[y] = s[i + y - 1]
  <2>1. y \in 1 .. j - i + 1
    BY <1>2
  <2>. QED
    BY <1>1, <1>2, <2>1
<1>5. Row(u, at, K, l, RowSet(u, at, K, l))
  <2>1. ASSUME NEW x \in 1 .. Len(u), NEW y \in 1 .. Len(u), x < y
        PROVE  Before(Block(at, K, l, u[x]), Block(at, K, l, u[y]))
    <3>1. i + x - 1 < i + y - 1
      BY <2>1
    <3>. QED
      BY <1>4, <3>1 DEF Row
  <2>2. ASSUME NEW x \in 1 .. Len(u) PROVE \E k \in RowSet(u, at, K, l) : at[l][k] = u[x]
    <3>1. PICK k \in S : at[l][k] = u[x]
      BY <1>4 DEF Row
    <3>2. k \in K
      BY DEF Row
    <3>. QED
      BY <3>1, <3>2 DEF RowSet
  <2>. QED
    BY <1>2, <2>1, <2>2 DEF Row, RowSet
<1>6. ASSUME NEW k PROVE k \in RowSet(u, at, K, l) <=> k \in K /\ \E x \in i .. j : at[l][k] = s[x]
  <2>1. ASSUME k \in RowSet(u, at, K, l) PROVE k \in K /\ \E x \in i .. j : at[l][k] = s[x]
    <3>1. PICK y \in 1 .. Len(u) : at[l][k] = u[y]
      BY <2>1 DEF RowSet
    <3>. QED
      BY <2>1, <3>1, <1>4 DEF RowSet
  <2>2. ASSUME k \in K, NEW x \in i .. j, at[l][k] = s[x] PROVE k \in RowSet(u, at, K, l)
    BY <2>2, <1>3 DEF RowSet
  <2>. QED
    BY <2>1, <2>2
<1>. QED
  BY <1>2, <1>5, <1>6 DEF u

RowParts(s, at, K, l, S, n, m) ==
    \E A, B, C :
      /\ Row(SubSeq(s, 1, n), at, K, l, A)
      /\ Row(SubSeq(s, n + 1, m), at, K, l, B)
      /\ Row(SubSeq(s, m + 1, Len(s)), at, K, l, C)
      /\ S = A \cup B \cup C /\ Before(A, B) /\ Before(B, C) /\ Before(A, C)
      /\ (A = {} <=> n = 0) /\ (B = {} <=> m = n) /\ (C = {} <=> m = Len(s))

\* Three parts of a row of pages.
LEMMA RowCut ==
    ASSUME NEW s, NEW at, NEW K, NEW l, NEW S, Row(s, at, K, l, S), NEW n \in Nat, NEW m \in Nat,
           n <= m, m <= Len(s)
    PROVE  RowParts(s, at, K, l, S, n, m)
<1>. DEFINE A == RowSet(SubSeq(s, 1, n), at, K, l)
            B == RowSet(SubSeq(s, n + 1, m), at, K, l)
            C == RowSet(SubSeq(s, m + 1, Len(s)), at, K, l)
<1>1. /\ Len(s) \in Nat /\ S \subseteq K
      /\ \A i, j \in 1 .. Len(s) : i < j =>
           Before(Block(at, K, l, s[i]), Block(at, K, l, s[j]))
      /\ \A i \in 1 .. Len(s) : \E k \in S : at[l][k] = s[i]
  <2>1. s \in Seq(Int)
    BY DEF Row
  <2>2. Len(s) \in Nat
    BY <2>1
  <2>. QED
    BY <2>2, Zenon DEF Row
<1>2. /\ Row(SubSeq(s, 1, n), at, K, l, A)
      /\ \A k : k \in A <=> k \in K /\ \E x \in 1 .. n : at[l][k] = s[x]
  <2>1. 1 \in Int /\ n \in Int /\ 1 <= 1 /\ n <= Len(s) /\ 1 <= n + 1
    BY <1>1
  <2>. QED
    BY <2>1, RowPart, SMTT(30)
<1>3. /\ Row(SubSeq(s, n + 1, m), at, K, l, B)
      /\ \A k : k \in B <=> k \in K /\ \E x \in n + 1 .. m : at[l][k] = s[x]
  <2>1. n + 1 \in Int /\ m \in Int /\ 1 <= n + 1 /\ m <= Len(s) /\ n + 1 <= m + 1
    BY <1>1
  <2>. QED
    BY <2>1, RowPart, SMTT(30)
<1>4. /\ Row(SubSeq(s, m + 1, Len(s)), at, K, l, C)
      /\ \A k : k \in C <=> k \in K /\ \E x \in m + 1 .. Len(s) : at[l][k] = s[x]
  <2>1. m + 1 \in Int /\ Len(s) \in Int /\ 1 <= m + 1 /\ Len(s) <= Len(s) /\ m + 1 <= Len(s) + 1
    BY <1>1
  <2>. QED
    BY <2>1, RowPart, SMTT(30)
<1>. HIDE DEF A, B, C
<1>5. S = A \cup B \cup C
  <2>1. \A k : k \in S <=> k \in K /\ \E x \in 1 .. Len(s) : at[l][k] = s[x]
    BY DEF Row
  <2>2. \A x : x \in 1 .. Len(s) <=> x \in 1 .. n \/ x \in n + 1 .. m \/ x \in m + 1 .. Len(s)
    BY <1>1
  <2>3. \A k : k \in A \cup B \cup C <=> k \in K /\ \E x \in 1 .. Len(s) : at[l][k] = s[x]
    BY <1>2, <1>3, <1>4, <2>2
  <2>. QED
    BY <2>1, <2>3
<1>6. ASSUME NEW x, NEW y, NEW i \in 1 .. Len(s), NEW j \in 1 .. Len(s), i < j,
             x \in K, y \in K, at[l][x] = s[i], at[l][y] = s[j]
      PROVE  x < y
  BY <1>1, <1>6 DEF Before, Block
<1>7. Before(A, B) /\ Before(B, C) /\ Before(A, C)
  <2>1. ASSUME NEW x \in A, NEW y \in B PROVE x < y
    BY <1>1, <1>2, <1>3, <1>6
  <2>2. ASSUME NEW x \in B, NEW y \in C PROVE x < y
    BY <1>1, <1>3, <1>4, <1>6
  <2>3. ASSUME NEW x \in A, NEW y \in C PROVE x < y
    BY <1>1, <1>2, <1>4, <1>6
  <2>. QED
    BY <2>1, <2>2, <2>3 DEF Before
<1>8. (A = {} <=> n = 0) /\ (B = {} <=> m = n) /\ (C = {} <=> m = Len(s))
  <2>1. n # 0 => A # {}
    BY <1>1, <1>2
  <2>2. m # n => B # {}
    BY <1>1, <1>3
  <2>3. m # Len(s) => C # {}
    BY <1>1, <1>4
  <2>4. n = 0 => 1 .. n = {}
    OBVIOUS
  <2>5. m = n => n + 1 .. m = {}
    OBVIOUS
  <2>6. m = Len(s) => m + 1 .. Len(s) = {}
    BY <1>1
  <2>. QED
    BY <2>1, <2>2, <2>3, <2>4, <2>5, <2>6, <1>2, <1>3, <1>4
<1>. USE DEF RowParts
<1>. WITNESS A, B, C
<1>. QED
  BY <1>2, <1>3, <1>4, <1>5, <1>7, <1>8 DEF RowParts

\* Two rows of pages, one after the other.
LEMMA RowJoin ==
    ASSUME NEW s, NEW u, NEW at, NEW K, NEW l, NEW A, NEW B,
           Row(s, at, K, l, A), Row(u, at, K, l, B), Before(A, B)
    PROVE  Row(s \o u, at, K, l, A \cup B)
<1>1. s \in Seq(Int) /\ u \in Seq(Int) /\ Len(s) \in Nat /\ Len(u) \in Nat /\ A \cup B \subseteq K
  BY DEF Row
<1>. DEFINE v == s \o u
<1>2. /\ v \in Seq(Int) /\ Len(v) = Len(s) + Len(u)
      /\ \A x \in 1 .. Len(s) + Len(u) : v[x] = IF x <= Len(s) THEN s[x] ELSE u[x - Len(s)]
  BY <1>1, Joined
<1>. HIDE DEF v
<1>3. ASSUME NEW x \in 1 .. Len(v), x > Len(s)
      PROVE  x - Len(s) \in 1 .. Len(u) /\ v[x] = u[x - Len(s)]
  <2>1. x \in 1 .. Len(s) + Len(u)
    BY <1>2
  <2>. QED
    BY <1>1, <1>2, <1>3, <2>1
<1>4. \A x \in 1 .. Len(v) : x <= Len(s) => x \in 1 .. Len(s) /\ v[x] = s[x]
  BY <1>1, <1>2
<1>5. \A x \in 1 .. Len(v) : x <= Len(s) \/ x > Len(s)
  BY <1>1, <1>2
<1>6. \A x \in 1 .. Len(s) : x \in 1 .. Len(v) /\ v[x] = s[x]
  BY <1>1, <1>2, SMTT(20)
<1>7. ASSUME NEW x \in 1 .. Len(u) PROVE Len(s) + x \in 1 .. Len(v) /\ v[Len(s) + x] = u[x]
  <2>1. Len(s) + x \in 1 .. Len(s) + Len(u) /\ ~(Len(s) + x <= Len(s)) /\ Len(s) + x - Len(s) = x
    BY <1>1
  <2>. QED
    BY <1>2, <2>1
<1>8. ASSUME NEW i \in 1 .. Len(v), NEW j \in 1 .. Len(v), i < j
      PROVE  Before(Block(at, K, l, v[i]), Block(at, K, l, v[j]))
  <2>1. CASE j <= Len(s)
    <3>1. i <= Len(s)
      BY <1>1, <1>2, <1>8, <2>1
    <3>. QED
      BY <1>4, <1>8, <2>1, <3>1 DEF Row
  <2>2. CASE i > Len(s)
    <3>1. j > Len(s) /\ i - Len(s) < j - Len(s)
      BY <1>1, <1>2, <1>8, <2>2
    <3>. QED
      BY <1>3, <2>2, <3>1 DEF Row
  <2>3. CASE i <= Len(s) /\ j > Len(s)
    <3>1. Block(at, K, l, v[i]) \subseteq A
      BY <1>4, <2>3 DEF Row, Block
    <3>2. Block(at, K, l, v[j]) \subseteq B
      BY <1>3, <2>3 DEF Row, Block
    <3>. QED
      BY <3>1, <3>2 DEF Before
  <2>. QED
    BY <1>5, <2>1, <2>2, <2>3
<1>9. ASSUME NEW i \in 1 .. Len(v) PROVE \E k \in A \cup B : at[l][k] = v[i]
  <2>1. (\E k \in A : at[l][k] = v[i]) \/ (\E k \in B : at[l][k] = v[i])
    <3>1. CASE i <= Len(s)
      BY <1>4, <3>1 DEF Row
    <3>2. CASE i > Len(s)
      BY <1>3, <3>2, ZenonT(60) DEF Row
    <3>. QED
      BY <1>5, <3>1, <3>2
  <2>. QED
    BY <2>1
<1>10. ASSUME NEW k \in K PROVE k \in A \cup B <=> \E i \in 1 .. Len(v) : at[l][k] = v[i]
  <2>1. k \in A \cup B <=> (\E i \in 1 .. Len(s) : at[l][k] = s[i]) \/ (\E i \in 1 .. Len(u) : at[l][k] = u[i])
    BY DEF Row
  <2>2. ASSUME NEW i \in 1 .. Len(v), at[l][k] = v[i] PROVE k \in A \cup B
    BY <2>1, <2>2, <1>3, <1>4, <1>5
  <2>3. ASSUME NEW i \in 1 .. Len(s), at[l][k] = s[i] PROVE \E x \in 1 .. Len(v) : at[l][k] = v[x]
    BY <2>3, <1>6
  <2>4. ASSUME NEW i \in 1 .. Len(u), at[l][k] = u[i] PROVE \E x \in 1 .. Len(v) : at[l][k] = v[x]
    BY <2>4, <1>7
  <2>. QED
    BY <2>1, <2>2, <2>3, <2>4
<1>. QED
  BY <1>1, <1>2, <1>8, <1>9, <1>10 DEF Row, v

----------------------------------------------------------------------------
(* Least and greatest keys *)

\* A set of keys has a least one.
LEMMA LeastKey ==
    ASSUME NEW S, S \subseteq Int, IsFiniteSet(S), S # {}
    PROVE  \E m \in S : \A k \in S : m <= k
<1>. DEFINE id == [x \in S |-> x]
<1>1. Keyed(S, id)
  BY DEF Keyed
<1>2. Cardinality(S) \in Nat /\ Cardinality(S) # 0
  BY FS_CardinalityType, FS_EmptySet
<1>. HIDE DEF id
<1>3. PICK m \in S : Cardinality(Below(S, id, m)) = 0
  <2>1. 1 \in 1 .. Cardinality(S) /\ 1 - 1 = 0
    BY <1>2
  <2>2. \A i \in 1 .. Cardinality(S) : \E a \in S : Cardinality(Below(S, id, a)) = i - 1
    BY <1>1, RankFacts
  <2>. QED
    BY <2>1, <2>2
<1>4. Below(S, id, m) = {}
  <2>1. IsFiniteSet(Below(S, id, m))
    BY FS_Subset DEF Below
  <2>. QED
    BY <1>3, <2>1, FS_EmptySet
<1>5. \A k \in S : ~(k < m)
  BY <1>4 DEF Below, id
<1>. QED
  BY <1>5

\* A set of keys has a greatest one.
LEMMA GreatestKey ==
    ASSUME NEW S, S \subseteq Int, IsFiniteSet(S), S # {}
    PROVE  \E m \in S : \A k \in S : k <= m
<1>. DEFINE neg == [x \in S |-> 0 - x]
<1>1. Keyed(S, neg)
  <2>1. neg \in [S -> Int]
    OBVIOUS
  <2>2. \A a, b \in S : neg[a] = neg[b] => a = b
    OBVIOUS
  <2>. QED
    BY <2>1, <2>2 DEF Keyed
<1>2. Cardinality(S) \in Nat /\ Cardinality(S) # 0
  BY FS_CardinalityType, FS_EmptySet
<1>. HIDE DEF neg
<1>3. PICK m \in S : Cardinality(Below(S, neg, m)) = 0
  <2>1. 1 \in 1 .. Cardinality(S) /\ 1 - 1 = 0
    BY <1>2
  <2>2. \A i \in 1 .. Cardinality(S) : \E a \in S : Cardinality(Below(S, neg, a)) = i - 1
    BY <1>1, RankFacts
  <2>. QED
    BY <2>1, <2>2
<1>4. Below(S, neg, m) = {}
  <2>1. IsFiniteSet(Below(S, neg, m))
    BY FS_Subset DEF Below
  <2>. QED
    BY <1>3, <2>1, FS_EmptySet
<1>5. \A k \in S : ~(neg[k] < neg[m])
  BY <1>4 DEF Below, neg
<1>. QED
  BY <1>5 DEF neg

\* Min and Max are the least and the greatest key.
LEMMA Extremes ==
    ASSUME NEW S, S \subseteq Int, IsFiniteSet(S), S # {}
    PROVE  /\ Min(S) \in S /\ \A k \in S : Min(S) <= k
           /\ Max(S) \in S /\ \A k \in S : k <= Max(S)
<1>1. \E m \in S : \A k \in S : m <= k
  BY LeastKey
<1>2. \E m \in S : \A k \in S : m >= k
  <2>1. PICK m \in S : \A k \in S : k <= m
    BY GreatestKey
  <2>2. \A k \in S : m >= k
    BY <2>1
  <2>. QED
    BY <2>2
<1>3. Min(S) \in S /\ \A k \in S : Min(S) <= k
  BY <1>1 DEF Min
<1>4. Max(S) \in S /\ \A k \in S : Max(S) >= k
  BY <1>2 DEF Max
<1>. QED
  BY <1>3, <1>4

\* The child to look for k in, by the separators.
LEMMA ChildForFacts ==
    ASSUME NEW p, NEW k \in Int, p.keys \in Seq(Int),
           \A i, j \in 1 .. Len(p.keys) : i < j => p.keys[i] < p.keys[j]
    PROVE  \E i \in 1 .. Len(p.keys) + 1 :
             /\ ChildFor(p, k) = p.children[i]
             /\ \A j \in 1 .. Len(p.keys) : j < i => p.keys[j] <= k
             /\ \A j \in 1 .. Len(p.keys) : i <= j => k < p.keys[j]
<1>. DEFINE T == {i \in 1 .. Len(p.keys) : p.keys[i] <= k}
            S == {0} \cup T
<1>1. Len(p.keys) \in Nat
  OBVIOUS
<1>2. IsFiniteSet(0 .. Len(p.keys)) /\ S \subseteq 0 .. Len(p.keys) /\ S # {} /\ S \subseteq Int
  <2>1. IsFiniteSet(0 .. Len(p.keys))
    BY <1>1, FS_Interval
  <2>. QED
    BY <1>1, <2>1
<1>3. IsFiniteSet(S)
  BY <1>2, FS_Subset
<1>4. ChildFor(p, k) = p.children[1 + Max(S)]
  BY DEF ChildFor
<1>. HIDE DEF S
<1>5. Max(S) \in S /\ \A j \in S : j <= Max(S)
  BY <1>2, <1>3, Extremes
<1>9. Max(S) \in 0 .. Len(p.keys) /\ Max(S) \in Nat
  <2>1. Max(S) \in 0 .. Len(p.keys)
    BY <1>2, <1>5, Zenon
  <2>. QED
    BY <1>1, <2>1
<1>. DEFINE i == 1 + Max(S)
<1>6. i \in 1 .. Len(p.keys) + 1
  BY <1>1, <1>9
<1>7. ASSUME NEW j \in 1 .. Len(p.keys), j < i PROVE p.keys[j] <= k
  <2>1. Max(S) # 0 /\ Max(S) \in 1 .. Len(p.keys)
    BY <1>1, <1>9, <1>7
  <2>2. p.keys[Max(S)] <= k
    BY <1>5, <2>1 DEF S
  <2>3. j = Max(S) \/ j < Max(S)
    BY <1>7, <2>1
  <2>4. p.keys[j] \in Int /\ p.keys[Max(S)] \in Int
    BY <2>1
  <2>. QED
    BY <2>1, <2>2, <2>3, <2>4
<1>8. ASSUME NEW j \in 1 .. Len(p.keys), i <= j PROVE k < p.keys[j]
  <2>1. j \notin S
    BY <1>1, <1>9, <1>5, <1>8
  <2>2. p.keys[j] \in Int /\ ~(p.keys[j] <= k)
    BY <2>1 DEF S
  <2>. QED
    BY <2>2
<1>. HIDE DEF i
<1>. QED
  BY <1>4, <1>6, <1>7, <1>8 DEF i

----------------------------------------------------------------------------
(* The pages of a tree *)

\* The keys are finitely many integers.
LEMMA KeysAre == Keys \subseteq Int /\ IsFiniteSet(Keys)
  BY TreeAssumption DEF TreeAssumption

\* A tree has fewer levels than pages.
LEMMA Depth ==
    ASSUME NEW at, NEW top, NEW K, NEW n, Grid(at, top, K, n), K # {}
    PROVE  top \in Nat /\ n \in Nat /\ top < n
<1>1. top \in Nat /\ n \in Nat
  BY DEF Grid
<1>2. PICK k \in K : TRUE
  OBVIOUS
<1>. DEFINE q == [i \in 1 .. top + 1 |-> at[i - 1][k]]
<1>3. \A i \in 1 .. top + 1 : at[i - 1][k] \in 1 .. n
  BY <1>1 DEF Grid
<1>4. q \in Seq(1 .. n) /\ Len(q) = top + 1 /\ \A i \in 1 .. Len(q) : q[i] \in 1 .. n
  BY <1>1, <1>3
<1>5. \A i, j \in 1 .. Len(q) : i < j => q[i] # q[j]
  <2>1. ASSUME NEW i \in 1 .. top + 1, NEW j \in 1 .. top + 1, at[i - 1][k] = at[j - 1][k]
        PROVE  i = j
    <3>1. i - 1 \in 0 .. top /\ j - 1 \in 0 .. top
      BY <1>1
    <3>2. i - 1 = j - 1
      BY <2>1, <3>1 DEF Grid
    <3>. QED
      BY <3>2
  <2>2. \A i \in 1 .. Len(q) : i \in 1 .. top + 1 /\ q[i] = at[i - 1][k]
    BY <1>4
  <2>. HIDE DEF q
  <2>3. ASSUME NEW i \in 1 .. Len(q), NEW j \in 1 .. Len(q), i < j, q[i] = q[j] PROVE FALSE
    <3>1. i = j
      BY <2>1, <2>2, <2>3
    <3>. QED
      BY <2>3, <3>1, <1>1, <1>4
  <2>. QED
    BY <2>3
<1>. HIDE DEF q
<1>. DEFINE R == {q[i] : i \in 1 .. Len(q)}
<1>6. Cardinality(R) = top + 1
  BY <1>4, <1>5, DistinctLength
<1>7. R \subseteq 1 .. n
  BY <1>4
<1>8. IsFiniteSet(1 .. n) /\ Cardinality(1 .. n) = n
  BY <1>1, FS_Interval
<1>. HIDE DEF R
<1>9. Cardinality(R) <= Cardinality(1 .. n)
  BY <1>7, <1>8, FS_Subset
<1>. QED
  BY <1>1, <1>6, <1>8, <1>9

\* Keys below one page are below one page on every level above.
LEMMA Nested ==
    ASSUME NEW at, NEW top, NEW K, NEW n, Grid(at, top, K, n),
           NEW l \in 0 .. top, NEW m \in 0 .. top, l <= m,
           NEW j \in K, NEW k \in K, at[l][j] = at[l][k]
    PROVE  at[m][j] = at[m][k]
  BY DEF Grid

\* A page is on one level only.
LEMMA Apart ==
    ASSUME NEW at, NEW top, NEW K, NEW n, Grid(at, top, K, n),
           NEW l \in 0 .. top, NEW m \in 0 .. top, NEW j \in K, NEW k \in K, at[l][j] = at[m][k]
    PROVE  l = m
  BY DEF Grid

\* The keys below a page are next to each other.
LEMMA Convex ==
    ASSUME NEW at, NEW top, NEW K, NEW n, Grid(at, top, K, n), NEW l \in 0 .. top,
           NEW i \in K, NEW j \in K, NEW k \in K, i < j, j < k, at[l][i] = at[l][k]
    PROVE  at[l][j] = at[l][i]
  BY DEF Grid

\* The inner page of level l above k is above no smaller key.
LeastIn(pg, at, M, l, k) ==
    /\ k \in DOMAIN M /\ l # 0 /\ DOMAIN M \subseteq Int
    /\ InnerOK(pg[at[l][k]], at[l][k], l, at, DOMAIN M)
    /\ \A j \in DOMAIN M : at[l][j] = at[l][k] => k <= j

\* The leftmost child of the page above the least key of its block.
LEMMA LeftmostChild ==
    ASSUME NEW pg, NEW at, NEW M, NEW l, NEW k, LeastIn(pg, at, M, l, k)
    PROVE  Head(pg[at[l][k]].children) = at[l - 1][k] /\ IsInner(pg[at[l][k]])
<1>0. /\ k \in DOMAIN M /\ l # 0 /\ DOMAIN M \subseteq Int
      /\ InnerOK(pg[at[l][k]], at[l][k], l, at, DOMAIN M)
      /\ \A j \in DOMAIN M : at[l][j] = at[l][k] => k <= j
  BY DEF LeastIn
<1>. USE <1>0
<1>. DEFINE p == pg[at[l][k]]
            K == DOMAIN M
            c == p.children
            S == Block(at, K, l, at[l][k])
<1>1. Row(c, at, K, l - 1, S) /\ p = Inner(at[l][k], p.children, p.keys)
  BY DEF InnerOK
<1>2. k \in S /\ \A j \in S : k <= j /\ j \in Int /\ k \in Int
  BY DEF Block
<1>. HIDE DEF S
<1>3. PICK i \in 1 .. Len(c) : at[l - 1][k] = c[i]
  BY <1>1, <1>2 DEF Row
<1>4. c \in Seq(Int) /\ 1 \in 1 .. Len(c)
  BY <1>1, <1>3 DEF Row
<1>5. PICK j \in S : at[l - 1][j] = c[1]
  BY <1>1, <1>4 DEF Row
<1>6. ASSUME i # 1 PROVE FALSE
  <2>1. Before(Block(at, K, l - 1, c[1]), Block(at, K, l - 1, c[i]))
    BY <1>1, <1>3, <1>4, <1>6 DEF Row
  <2>2. j \in Block(at, K, l - 1, c[1]) /\ k \in Block(at, K, l - 1, c[i])
    BY <1>1, <1>2, <1>3, <1>5 DEF Block, Row
  <2>3. j < k
    BY <2>1, <2>2 DEF Before
  <2>. QED
    BY <1>2, <2>3
<1>7. Head(c) = c[1]
  BY <1>4
<1>8. IsInner(p)
  BY <1>1 DEF Inner, IsInner
<1>. QED
  BY <1>3, <1>6, <1>7, <1>8

\* The leftmost leaf is the one of the least key.
LEMMA LeftmostLeaf ==
    ASSUME NEW pg, NEW at, NEW top, NEW M, NEW n, Grid(at, top, DOMAIN M, n), n <= Len(pg),
           Len(pg) \in Nat, NEW l \in 0 .. top, \A m \in 0 .. l : Layer(pg, at, M, m),
           NEW k \in DOMAIN M, \A j \in DOMAIN M : at[l][j] = at[l][k] => k <= j
    PROVE  leftmost_leaf(pg, at[l][k]) = at[0][k]
<1>. DEFINE N == Len(pg)
            G(f) == [i \in 0 .. N |-> IF i = 0 THEN at[l][k]
                      ELSE LET q == f[i - 1]
                           IN  IF IsInner(pg[q]) THEN Head(pg[q].children) ELSE q]
            g == [i \in 0 .. N |-> at[IF i <= l THEN l - i ELSE 0][k]]
            f == CHOOSE h : h = G(h)
<1>1. leftmost_leaf(pg, at[l][k]) = f[N]
  BY DEF leftmost_leaf
<1>2. top \in Nat /\ n \in Nat /\ top < n /\ DOMAIN M \subseteq Int /\ l \in Nat
  <2>1. top \in Nat /\ n \in Nat /\ top < n
    BY Depth
  <2>2. DOMAIN M \subseteq Int
    BY KeysAre DEF Grid
  <2>. QED
    BY <2>1, <2>2
<1>3. N \in Nat /\ l <= N
  BY <1>2
<1>4. ASSUME NEW m \in 1 .. l
      PROVE  IsInner(pg[at[m][k]]) /\ Head(pg[at[m][k]].children) = at[m - 1][k]
  <2>1. m \in 0 .. top /\ m # 0 /\ m <= l /\ m \in 0 .. l
    BY <1>2
  <2>2. InnerOK(pg[at[m][k]], at[m][k], m, at, DOMAIN M)
    BY <2>1 DEF Layer, PageOK
  <2>3. \A j \in DOMAIN M : at[m][j] = at[m][k] => k <= j
    BY <2>1 DEF Grid
  <2>. QED
    <3>1. k \in DOMAIN M /\ m # 0 /\ DOMAIN M \subseteq Int
      BY <1>2, <2>1, Zenon
    <3>2. LeastIn(pg, at, M, m, k)
      BY <2>2, <2>3, <3>1, Zenon DEF LeastIn
    <3>. QED
      BY ONLY <3>2, LeftmostChild
<1>5. ~IsInner(pg[at[0][k]])
  <2>1. LeafOK(pg[at[0][k]], at[0][k], at, M)
    BY <1>2, SMTT(20) DEF Layer, PageOK
  <2>. QED
    BY <2>1 DEF LeafOK, Leaf, IsInner
<1>6. ASSUME NEW i \in 1 .. N
      PROVE  g[i] = LET q == g[i - 1] IN IF IsInner(pg[q]) THEN Head(pg[q].children) ELSE q
  <2>1. i \in 0 .. N /\ i - 1 \in 0 .. N
    BY <1>3
  <2>2. CASE i <= l
    <3>1. g[i] = at[l - i][k] /\ g[i - 1] = at[l - i + 1][k] /\ l - i + 1 \in 1 .. l
      <4>1. i - 1 <= l /\ l - (i - 1) = l - i + 1 /\ l - i + 1 \in 1 .. l
        BY <1>2, <1>3, <2>2
      <4>2. g[i] = at[l - i][k]
        BY <2>1, <2>2
      <4>3. g[i - 1] = at[l - (i - 1)][k]
        BY <2>1, <4>1
      <4>4. at[l - (i - 1)][k] = at[l - i + 1][k]
        BY <4>1, Zenon
      <4>. QED
        BY <4>1, <4>2, <4>3, <4>4, Zenon
    <3>. DEFINE m == l - i + 1
                q == g[i - 1]
    <3>2. m \in 1 .. l /\ m - 1 = l - i
      BY <1>2, <3>1
    <3>3. IsInner(pg[at[m][k]]) /\ Head(pg[at[m][k]].children) = at[m - 1][k]
      BY <1>4, <3>2
    <3>4. q = at[m][k] /\ g[i] = at[m - 1][k]
      BY <3>1, <3>2
    <3>. HIDE DEF g, m, q
    <3>5. IsInner(pg[q]) /\ Head(pg[q].children) = g[i]
      BY <3>3, <3>4
    <3>. QED
      BY <3>5, Zenon DEF q
  <2>3. CASE ~(i <= l)
    <3>1. g[i] = at[0][k]
      BY <2>1, <2>3
    <3>2. g[i - 1] = at[0][k]
      <4>1. (i - 1 <= l /\ l - (i - 1) = 0) \/ ~(i - 1 <= l)
        BY <1>2, <1>3, <2>3
      <4>. QED
        BY <2>1, <4>1
    <3>. HIDE DEF g
    <3>. QED
      BY <3>1, <3>2, <1>5
  <2>. QED
    BY <2>2, <2>3
<1>7. g = G(g)
  <2>1. g[0] = at[l][k]
    BY <1>2, <1>3
  <2>. HIDE DEF g
  <2>2. \A i \in 0 .. N : i = 0 \/ i \in 1 .. N
    BY <1>3
  <2>3. g = [i \in 0 .. N |-> g[i]]
    BY DEF g
  <2>. QED
    BY <1>6, <2>1, <2>2, <2>3
<1>8. f = G(f)
  BY <1>7, Zenon
<1>9. ASSUME NEW i \in 0 .. N PROVE f[i] = g[i]
  <2>. DEFINE T == {x \in 0 .. N : f[x] # g[x]}
  <2>1. ASSUME T # {} PROVE FALSE
    <3>1. T \in SUBSET Nat
      OBVIOUS
    <3>. HIDE DEF T
    <3>2. PICK y \in T : \A z \in T : y <= z
      BY <2>1, <3>1, LeastNatural
    <3>. HIDE DEF f, g, G
    <3>3. y \in 0 .. N /\ f[y] # g[y] /\ f[y] = G(f)[y] /\ g[y] = G(g)[y]
      BY <3>2, <1>7, <1>8 DEF T
    <3>4. CASE y = 0
      BY <3>3, <3>4 DEF G
    <3>5. CASE y # 0
      <4>1. y - 1 \in 0 .. N /\ y - 1 \notin T
        BY <3>2, <3>3, <3>5, <1>3
      <4>2. f[y - 1] = g[y - 1]
        BY <4>1 DEF T
      <4>. QED
        BY <3>3, <3>5, <4>2 DEF G
    <3>. QED
      BY <3>4, <3>5
  <2>. QED
    BY <2>1
<1>10. g[N] = at[0][k]
  BY <1>2, <1>3
<1>. QED
  BY <1>1, <1>3, <1>9, <1>10

\* Pages below level l are in order, in a file of at least n pages.
Below0(pg, at, top, M, l, n) ==
    /\ Grid(at, top, DOMAIN M, n) /\ Len(pg) \in Nat /\ n <= Len(pg)
    /\ l \in 0 .. top /\ \A m \in 0 .. l : Layer(pg, at, M, m)

\* subtree_min_entry finds the least key below a page, in its leftmost leaf.
LEMMA SubtreeMin ==
    ASSUME NEW pg, NEW at, NEW top, NEW M, NEW n, NEW l, Below0(pg, at, top, M, l, n),
           NEW j \in DOMAIN M
    PROVE  /\ HasMin(pg, at[l][j])
           /\ subtree_min_entry(pg, at[l][j]) \in Block(at, DOMAIN M, l, at[l][j])
           /\ \A x \in Block(at, DOMAIN M, l, at[l][j]) : subtree_min_entry(pg, at[l][j]) <= x
           /\ leftmost_leaf(pg, at[l][j]) = at[0][subtree_min_entry(pg, at[l][j])]
<1>. DEFINE K == DOMAIN M
            S == Block(at, K, l, at[l][j])
<1>1. K \subseteq Int /\ IsFiniteSet(K) /\ l \in 0 .. top /\ top \in Nat
  BY KeysAre, FS_Subset DEF Grid, Below0
<1>2. S \subseteq K /\ j \in S
  BY DEF Block
<1>3. PICK k \in S : \A x \in S : k <= x
  <2>1. S \subseteq Int /\ IsFiniteSet(S) /\ S # {}
    BY <1>1, <1>2, FS_Subset
  <2>. HIDE DEF S
  <2>. QED
    BY <2>1, LeastKey
<1>4. k \in K /\ at[l][k] = at[l][j] /\ \A x \in K : at[l][x] = at[l][k] => k <= x
  BY <1>3 DEF Block
<1>5. leftmost_leaf(pg, at[l][k]) = at[0][k]
  BY <1>4, LeftmostLeaf DEF Below0
<1>. DEFINE q == at[0][k]
            e == pg[q].entries
<1>6. LeafOK(pg[q], q, at, M)
  BY <1>1, <1>4 DEF Below0, Layer, PageOK
<1>7. pg[q] = Leaf(q, e, pg[q].next) /\ Held(e, M, Block(at, K, 0, q))
  BY <1>6 DEF LeafOK
<1>8. k \in Block(at, K, 0, q)
  BY <1>4, SMTT(20) DEF Block
<1>9. PICK i \in 1 .. Len(e) : e[i].key = k
  BY <1>7, <1>8, SMTT(20) DEF Held
<1>10. e \in Seq(Entries) /\ 1 \in 1 .. Len(e) /\ e # <<>> /\ Head(e) = e[1]
  BY <1>7, <1>9 DEF Held
<1>11. e[1].key = k
  <2>1. e[1].key \in Block(at, K, 0, q)
    BY <1>7, <1>10 DEF Held
  <2>2. e[1].key \in K /\ at[0][e[1].key] = at[0][k]
    BY <2>1 DEF Block
  <2>3. at[l][e[1].key] = at[l][k]
    <3>1. 0 \in 0 .. top /\ 0 <= l
      BY <1>1
    <3>2. Grid(at, top, K, n)
      BY DEF Below0
    <3>3. ASSUME NEW x \in K, at[0][x] = at[0][k] PROVE at[l][x] = at[l][k]
      BY <1>1, <1>4, <3>1, <3>2, <3>3, Nested
    <3>. QED
      BY <2>2, <3>3
  <2>4. k <= e[1].key
    BY <1>4, <2>2, <2>3
  <2>5. i = 1 \/ e[1].key < k
    <3>1. i = 1 \/ 1 < i
      BY <1>10
    <3>2. \A x, y \in 1 .. Len(e) : x < y => e[x].key < e[y].key
      BY <1>7 DEF Held
    <3>. QED
      BY <1>9, <1>10, <3>1, <3>2, SMTT(20)
  <2>. QED
    BY <1>1, <1>4, <1>9, <2>2, <2>4, <2>5, SMTT(20)
<1>12. IsLeaf(pg[q])
  BY <1>7 DEF Leaf, IsLeaf
<1>13. HasMin(pg, at[l][j]) /\ subtree_min_entry(pg, at[l][j]) = k
  BY <1>4, <1>5, <1>10, <1>11, <1>12 DEF HasMin, subtree_min_entry
<1>. QED
  BY <1>3, <1>4, <1>5, <1>13

\* rebuild_internal_keys puts separators between a row of pages.
LEMMA Rebuilt ==
    ASSUME NEW st, NEW at, NEW top, NEW M, NEW n, NEW l, Below0(st.pages, at, top, M, l, n),
           NEW s, NEW S, Row(s, at, DOMAIN M, l, S), s # <<>>, NEW id
    PROVE  /\ Rebuildable(st, s)
           /\ rebuild_internal_keys(st, id, s) = Inner(id, s, rebuild_internal_keys(st, id, s).keys)
           /\ Seps(rebuild_internal_keys(st, id, s).keys, s, at, DOMAIN M, l)
<1>. DEFINE K == DOMAIN M
            Sep(p) == subtree_min_entry(st.pages, p)
            ks == [i \in 1 .. Len(s) - 1 |-> Sep(s[i + 1])]
<1>1. K \subseteq Int
  BY KeysAre DEF Below0, Grid
<1>2. s \in Seq(Int) /\ Len(s) \in Nat /\ Len(s) > 0 /\ S \subseteq K
  BY DEF Row
<1>3. ASSUME NEW i \in 1 .. Len(s)
      PROVE  /\ HasMin(st.pages, s[i]) /\ Sep(s[i]) \in Block(at, K, l, s[i])
             /\ \A x \in Block(at, K, l, s[i]) : Sep(s[i]) <= x
  <2>1. PICK j \in S : at[l][j] = s[i]
    BY DEF Row
  <2>2. j \in K
    BY <1>2
  <2>. QED
    BY <2>1, <2>2, SubtreeMin
<1>4. rebuild_internal_keys(st, id, s) = Inner(id, s, ks)
  BY DEF rebuild_internal_keys
<1>5. rebuild_internal_keys(st, id, s).keys = ks
  BY <1>4 DEF Inner
<1>6. Rebuildable(st, s)
  <2>1. \A i \in 2 .. Len(s) : i \in 1 .. Len(s)
    BY <1>2
  <2>. QED
    BY <1>3, <2>1 DEF Rebuildable
<1>. HIDE DEF Sep
<1>7. \A i \in 1 .. Len(s) : Sep(s[i]) \in Int
  BY <1>1, <1>3 DEF Block
<1>8. /\ ks \in Seq(Int) /\ Len(ks) = Len(s) - 1
      /\ \A i \in 1 .. Len(s) - 1 : ks[i] = Sep(s[i + 1]) /\ i + 1 \in 1 .. Len(s) /\ i \in 1 .. Len(s)
  <2>1. \A i \in 1 .. Len(s) - 1 : i + 1 \in 1 .. Len(s) /\ i \in 1 .. Len(s)
    BY <1>2
  <2>2. Len(s) - 1 \in Nat /\ \A i \in 1 .. Len(s) - 1 : Sep(s[i + 1]) \in Int
    BY <1>2, <1>7, <2>1
  <2>. QED
    BY <2>1, <2>2
<1>. HIDE DEF ks
<1>9. ASSUME NEW i \in 1 .. Len(s), NEW j \in 1 .. Len(s), i < j PROVE Sep(s[i]) < Sep(s[j])
  BY <1>3, <1>9 DEF Row, Before
<1>10. ASSUME NEW i \in 1 .. Len(s) - 1
       PROVE  /\ \A k \in Block(at, K, l, s[i]) : k < ks[i]
              /\ \A k \in Block(at, K, l, s[i + 1]) : ks[i] <= k
  <2>1. i < i + 1 /\ i + 1 \in 1 .. Len(s) /\ i \in 1 .. Len(s) /\ ks[i] = Sep(s[i + 1])
    BY <1>2, <1>8
  <2>2. Before(Block(at, K, l, s[i]), Block(at, K, l, s[i + 1]))
    BY <2>1 DEF Row
  <2>. QED
    BY <1>3, <2>1, <2>2 DEF Before
<1>11. ASSUME NEW i \in 1 .. Len(ks), NEW j \in 1 .. Len(ks), i < j PROVE ks[i] < ks[j]
  <2>1. i + 1 \in 1 .. Len(s) /\ j + 1 \in 1 .. Len(s) /\ i + 1 < j + 1
    BY <1>2, <1>8, <1>11
  <2>. QED
    BY <1>8, <1>9, <2>1
<1>. QED
  BY <1>4, <1>5, <1>6, <1>8, <1>10, <1>11 DEF Seps

----------------------------------------------------------------------------
(* Dealing the keys below two neighbours, or below one page, out again *)

\* a and b are one page of level l, or two neighbours, a on the left, and q is
\* their parent.
Neighbours(at, top, K, l, a, b, q) ==
    /\ l \in 0 .. top /\ l < top
    /\ (\E k \in K : at[l][k] = a) /\ (\E k \in K : at[l][k] = b)
    /\ \A k \in K : at[l][k] \in {a, b} => at[l + 1][k] = q
    /\ a = b \/ Before(Block(at, K, l, a), Block(at, K, l, b))
    /\ \A i, j, k \in K :
         i < j /\ j < k /\ at[l][i] \in {a, b} /\ at[l][k] \in {a, b} => at[l][j] \in {a, b}

\* Their keys that are in K2, in three parts: A is for a, B for a new page, and
\* C for b.
Parts(at, K, K2, l, a, b, A, B, C) ==
    /\ K2 \subseteq K /\ \A k \in K \ K2 : at[l][k] \in {a, b}
    /\ A \cup B \cup C = {k \in K2 : at[l][k] \in {a, b}}
    /\ Before(A, B) /\ Before(B, C) /\ Before(A, C)
    /\ A # {} /\ (C = {} \/ a # b)
    /\ \/ l = 0
       \/ /\ K2 = K
          /\ \A j, k \in K : at[l - 1][j] = at[l - 1][k] =>
               (j \in A <=> k \in A) /\ (j \in B <=> k \in B) /\ (j \in C <=> k \in C)

\* at2 has the parts on their pages; mid is the new page.
Relabels(at, at2, K2, n, n2, l, a, mid, b, A, B, C) ==
    /\ n2 \in Nat /\ n <= n2 /\ (B = {} \/ mid \in n + 1 .. n2)
    /\ at2 \in [Nat -> [Int -> Int]]
    /\ \A m \in Nat : m # l => at2[m] = at[m]
    /\ \A k \in K2 : at2[l][k] = IF k \in A THEN a ELSE IF k \in B THEN mid
                                 ELSE IF k \in C THEN b ELSE at[l][k]

Dealt(at, at2, top, K, K2, n, n2, l, a, mid, b, q, A, B, C) ==
    /\ Grid(at, top, K, n)
    /\ Neighbours(at, top, K, l, a, b, q)
    /\ Parts(at, K, K2, l, a, b, A, B, C)
    /\ Relabels(at, at2, K2, n, n2, l, a, mid, b, A, B, C)

\* The three values of a key below a or b, and the value of any other.
LEMMA DealtValues ==
    ASSUME NEW at, NEW at2, NEW top, NEW K, NEW K2, NEW n, NEW n2, NEW l, NEW a, NEW mid, NEW b,
           NEW q, NEW A, NEW B, NEW C,
           Dealt(at, at2, top, K, K2, n, n2, l, a, mid, b, q, A, B, C)
    PROVE  /\ \A k \in K2 : k \in K /\ k \in Int
           /\ \A k \in A : k \in K2 /\ at[l][k] \in {a, b} /\ at2[l][k] = a
           /\ \A k \in B : k \in K2 /\ at[l][k] \in {a, b} /\ at2[l][k] = mid /\ mid \in n + 1 .. n2
           /\ \A k \in C : k \in K2 /\ at[l][k] \in {a, b} /\ at2[l][k] = b /\ a # b
           /\ \A k \in K2 : k \notin A \cup B \cup C => at2[l][k] = at[l][k] /\ at[l][k] \notin {a, b}
           /\ a \in 1 .. n /\ b \in 1 .. n /\ n \in Nat /\ n2 \in Nat /\ n <= n2
           /\ l \in Nat /\ top \in Nat /\ l < top /\ l \in 0 .. top /\ l + 1 \in 0 .. top
<1>1. K2 \subseteq K /\ K \subseteq Int
  BY KeysAre DEF Dealt, Parts, Grid
<1>2. /\ A \cup B \cup C = {k \in K2 : at[l][k] \in {a, b}}
      /\ Before(A, B) /\ Before(B, C) /\ Before(A, C)
      /\ (B = {} \/ mid \in n + 1 .. n2) /\ (C = {} \/ a # b)
      /\ \A k \in K2 : at2[l][k] = IF k \in A THEN a ELSE IF k \in B THEN mid
                                 ELSE IF k \in C THEN b ELSE at[l][k]
  BY DEF Dealt, Parts, Relabels
<1>3. \A k \in A \cup B \cup C : k \in K2 /\ k \in Int /\ at[l][k] \in {a, b}
  BY <1>1, <1>2
<1>4. \A k \in B : k \notin A
  BY <1>2, <1>3 DEF Before
<1>5. \A k \in C : k \notin A /\ k \notin B
  BY <1>2, <1>3 DEF Before
<1>6. /\ l \in Nat /\ top \in Nat /\ l < top /\ l \in 0 .. top /\ l + 1 \in 0 .. top
      /\ n \in Nat /\ n2 \in Nat /\ n <= n2
  BY DEF Dealt, Neighbours, Grid, Relabels
<1>7. a \in 1 .. n /\ b \in 1 .. n
  <2>1. (\E k \in K : at[l][k] = a) /\ (\E k \in K : at[l][k] = b)
    BY DEF Dealt, Neighbours
  <2>2. \A k \in K : at[l][k] \in 1 .. n
    BY <1>6 DEF Dealt, Grid
  <2>. QED
    BY <2>1, <2>2
<1>. QED
  BY <1>1, <1>2, <1>3, <1>4, <1>5, <1>6, <1>7

\* After a deal every key is below one page of each level, as before.
LEMMA DealGrid ==
    ASSUME NEW at, NEW at2, NEW top, NEW K, NEW K2, NEW n, NEW n2, NEW l, NEW a, NEW mid, NEW b,
           NEW q, NEW A, NEW B, NEW C,
           Dealt(at, at2, top, K, K2, n, n2, l, a, mid, b, q, A, B, C)
    PROVE  Grid(at2, top, K2, n2)
<1>. DEFINE S == A \cup B \cup C
<1>1. /\ \A k \in K2 : k \in K /\ k \in Int
      /\ \A k \in A : k \in K2 /\ at[l][k] \in {a, b} /\ at2[l][k] = a
      /\ \A k \in B : k \in K2 /\ at[l][k] \in {a, b} /\ at2[l][k] = mid /\ mid \in n + 1 .. n2
      /\ \A k \in C : k \in K2 /\ at[l][k] \in {a, b} /\ at2[l][k] = b /\ a # b
      /\ \A k \in K2 : k \notin S => at2[l][k] = at[l][k] /\ at[l][k] \notin {a, b}
      /\ a \in 1 .. n /\ b \in 1 .. n /\ n \in Nat /\ n2 \in Nat /\ n <= n2
      /\ l \in Nat /\ top \in Nat /\ l < top /\ l \in 0 .. top /\ l + 1 \in 0 .. top
  BY DealtValues
<1>2. \A m \in 0 .. top : m # l => at2[m] = at[m]
  BY <1>1 DEF Dealt, Relabels
<1>3. \A m \in 0 .. top, k \in K : at[m][k] \in 1 .. n
  BY DEF Dealt, Grid
<1>4. Before(A, B) /\ Before(B, C) /\ Before(A, C)
  BY DEF Dealt, Parts
<1>5. ASSUME NEW m \in 0 .. top, NEW k \in K2 PROVE at2[m][k] \in 1 .. n2
  BY <1>1, <1>2, <1>3
<1>6. ASSUME NEW m \in 0 .. top, NEW j \in K2, NEW k \in K2, at2[l][j] = at2[m][k] PROVE m = l
  <2>. SUFFICES ASSUME m # l PROVE FALSE
    OBVIOUS
  <2>1. at2[m][k] = at[m][k] /\ at[m][k] \in 1 .. n
    BY <1>1, <1>2, <1>3
  <2>2. \A x \in K : at[l][x] # at[m][k]
    BY <1>1, SMTT(20) DEF Dealt, Grid
  <2>3. a # at[m][k] /\ b # at[m][k]
    BY <2>2 DEF Dealt, Neighbours
  <2>4. j \in B => mid # at[m][k]
    BY <1>1, <2>1
  <2>. QED
    BY <1>1, <1>6, <2>1, <2>2, <2>3, <2>4
<1>7. ASSUME NEW i \in K2, NEW j \in K2, NEW k \in K2, i < j, j < k, at2[l][i] = at2[l][k]
      PROVE  at2[l][j] = at2[l][i]
  <2>1. CASE i \in S
    <3>1. k \in S
      <4>1. at2[l][i] \in {a, mid, b} /\ (i \in B => mid \notin 1 .. n)
        BY <1>1, <2>1
      <4>. QED
        BY <1>1, <1>3, <1>7, <2>1, <4>1
    <3>2. at[l][j] \in {a, b}
      BY <1>1, <1>7, <2>1, <3>1 DEF Dealt, Neighbours
    <3>3. j \in S
      BY <1>1, <3>2
    <3>4. (a # mid /\ b # mid) \/ B = {}
      BY <1>1
    <3>5. \/ i \in A /\ k \in A
          \/ i \in B /\ k \in B
          \/ i \in C /\ k \in C
      BY <1>1, <1>7, <2>1, <3>1, <3>4
    <3>. QED
      BY <1>1, <1>4, <1>7, <3>3, <3>5 DEF Before
  <2>2. CASE i \notin S
    <3>1. k \notin S /\ at2[l][i] = at[l][i] /\ at[l][i] \notin {a, b} /\ at[l][i] \in 1 .. n
      BY <1>1, <1>3, <1>7, <2>2
    <3>4. at2[l][k] = at[l][k]
      BY <1>1, <3>1
    <3>5. at[l][i] = at[l][k]
      BY <1>7, <3>1, <3>4
    <3>2. at2[l][k] = at[l][k] /\ at[l][j] = at[l][i]
      BY <1>1, <1>7, <3>4, <3>5, Convex DEF Dealt
    <3>3. j \notin S
      BY <1>1, <3>1, <3>2
    <3>. QED
      BY <1>1, <3>1, <3>2, <3>3
  <2>. QED
    BY <2>1, <2>2
<1>8. ASSUME NEW j \in K2, NEW k \in K2, at2[l][j] = at2[l][k] PROVE at[l + 1][j] = at[l + 1][k]
  <2>1. CASE j \in S
    <3>1. k \in S
      <4>1. at2[l][j] \in {a, mid, b} /\ (j \in B => mid \notin 1 .. n)
        BY <1>1, <2>1
      <4>. QED
        BY <1>1, <1>3, <1>8, <2>1, <4>1
    <3>. QED
      BY <1>1, <2>1, <3>1 DEF Dealt, Neighbours
  <2>2. CASE j \notin S
    <3>1. k \notin S /\ at2[l][j] = at[l][j]
      BY <1>1, <1>3, <1>8, <2>2
    <3>2. at2[l][k] = at[l][k]
      BY <1>1, <3>1
    <3>3. at[l][j] = at[l][k]
      BY <1>8, <3>1, <3>2
    <3>4. l <= l + 1 /\ j \in K /\ k \in K
      BY <1>1
    <3>. QED
      BY <1>1, <3>3, <3>4, Nested DEF Dealt
  <2>. QED
    BY <2>1, <2>2
<1>9. ASSUME NEW m \in 0 .. top, m < l, NEW j \in K2, NEW k \in K2, at[m][j] = at[m][k]
      PROVE  at2[l][j] = at2[l][k]
  <2>1. l - 1 \in 0 .. top /\ m <= l - 1 /\ l # 0 /\ m <= l
    BY <1>1, <1>9
  <2>2. at[l - 1][j] = at[l - 1][k] /\ at[l][j] = at[l][k]
    BY <1>1, <1>9, <2>1, Nested DEF Dealt
  <2>3. (j \in A <=> k \in A) /\ (j \in B <=> k \in B) /\ (j \in C <=> k \in C)
    BY <1>1, <2>1, <2>2 DEF Dealt, Parts
  <2>. QED
    BY <1>1, <2>2, <2>3
<1>10. ASSUME NEW x \in 0 .. top, NEW m \in 0 .. top, NEW j \in K2, NEW k \in K2,
              x <= m, at2[x][j] = at2[x][k]
       PROVE  at2[m][j] = at2[m][k]
  <2>1. CASE x = l /\ m # l
    <3>1. at[l + 1][j] = at[l + 1][k] /\ l + 1 <= m
      BY <1>1, <1>8, <1>10, <2>1
    <3>2. at[m][j] = at[m][k]
      BY <1>1, <3>1, Nested DEF Dealt
    <3>. QED
      BY <1>2, <2>1, <3>2
  <2>2. CASE x # l /\ m = l
    <3>1. x < l /\ at[x][j] = at[x][k]
      BY <1>1, <1>2, <1>10, <2>2
    <3>. QED
      BY <1>9, <2>2, <3>1
  <2>3. CASE x # l /\ m # l
    <3>1. at[x][j] = at[x][k]
      BY <1>2, <1>10, <2>3
    <3>2. at[m][j] = at[m][k]
      BY <1>1, <1>10, <3>1, Nested DEF Dealt
    <3>. QED
      BY <1>2, <2>3, <3>2
  <2>4. CASE x = l /\ m = l
    BY <1>10, <2>4
  <2>. QED
    BY <2>1, <2>2, <2>3, <2>4
<1>11. ASSUME NEW x \in 0 .. top, NEW m \in 0 .. top, NEW j \in K2, NEW k \in K2, at2[x][j] = at2[m][k]
       PROVE  x = m
  <2>1. CASE x = l \/ m = l
    BY <1>6, <1>11, <2>1
  <2>2. CASE x # l /\ m # l
    <3>1. at[x][j] = at[m][k]
      BY <1>2, <1>11, <2>2
    <3>. QED
      BY <1>1, <3>1, Apart DEF Dealt
  <2>. QED
    BY <2>1, <2>2
<1>12. ASSUME NEW m \in 0 .. top, NEW i \in K2, NEW j \in K2, NEW k \in K2, i < j, j < k,
              at2[m][i] = at2[m][k]
       PROVE  at2[m][j] = at2[m][i]
  <2>1. CASE m = l
    BY <1>7, <1>12, <2>1
  <2>2. CASE m # l
    <3>1. at2[m] = at[m] /\ at[m][i] = at[m][k]
      BY <1>2, <1>12, <2>2
    <3>. QED
      BY <1>1, <1>12, <3>1, Convex DEF Dealt
  <2>. QED
    BY <2>1, <2>2
<1>13. K2 \subseteq Keys /\ at2 \in [Nat -> [Int -> Int]]
  BY DEF Dealt, Grid, Parts, Relabels
<1>14. top \in Nat /\ n2 \in Nat
  BY <1>1
<1>. QED
  BY <1>5, <1>10, <1>11, <1>12, <1>13, <1>14, SMTT(20) DEF Grid

\* The least key of all that is dealt goes to a.
LEMMA LeastDealt ==
    ASSUME NEW at, NEW at2, NEW top, NEW K, NEW K2, NEW n, NEW n2, NEW l, NEW a, NEW mid, NEW b,
           NEW q, NEW A, NEW B, NEW C,
           Dealt(at, at2, top, K, K2, n, n2, l, a, mid, b, q, A, B, C)
    PROVE  \E x \in A : \A y \in A \cup B \cup C : x <= y
<1>1. A \cup B \cup C \subseteq K2 /\ K2 \subseteq Keys /\ A # {} /\ Before(A, B) /\ Before(A, C)
  BY DEF Dealt, Parts, Grid
<1>2. A \cup B \cup C \subseteq Int /\ IsFiniteSet(A)
  BY <1>1, KeysAre, FS_Subset
<1>3. PICK x \in A : \A y \in A : x <= y
  BY <1>1, <1>2, LeastKey
<1>4. \A y \in B \cup C : x < y
  BY <1>1 DEF Before
<1>. QED
  BY <1>2, <1>3, <1>4

\* The order of the leaves outside does not change.
LEMMA DealNext ==
    ASSUME NEW at, NEW at2, NEW top, NEW K, NEW K2, NEW n, NEW n2, NEW a, NEW mid, NEW b,
           NEW q, NEW A, NEW B, NEW C,
           Dealt(at, at2, top, K, K2, n, n2, 0, a, mid, b, q, A, B, C),
           NEW p \in 1 .. n, p \notin {a, b}, NEW next, NextOK(at, K, p, next)
    PROVE  NextOK(at2, K2, p, next)
<1>. DEFINE S == A \cup B \cup C
            X == {a, b}
<1>1. /\ \A k \in K2 : k \in K /\ k \in Int
      /\ \A k \in A : k \in K2 /\ at[0][k] \in X /\ at2[0][k] = a
      /\ \A k \in B : k \in K2 /\ at[0][k] \in X /\ at2[0][k] = mid /\ mid \in n + 1 .. n2
      /\ \A k \in C : k \in K2 /\ at[0][k] \in X /\ at2[0][k] = b
      /\ \A k \in K2 : k \notin S => at2[0][k] = at[0][k] /\ at[0][k] \notin X
      /\ n \in Nat /\ n2 \in Nat
  BY DealtValues
<1>2. /\ \A k \in K : k \notin K2 => at[0][k] \in X
      /\ \A i, j, k \in K : i < j /\ j < k /\ at[0][i] \in X /\ at[0][k] \in X => at[0][j] \in X
      /\ K \subseteq Int
  BY KeysAre DEF Dealt, Parts, Neighbours, Grid
<1>3. \A k \in K2 : at2[0][k] = p <=> at[0][k] = p
  BY <1>1
<1>4. PICK k1 \in A : \A y \in S : k1 <= y
  BY LeastDealt
<1>. HIDE DEF S, X
<1>5. SUFFICES ASSUME NEW j \in K2, at2[0][j] = p
               PROVE  \/ next = 0 /\ \A k \in K2 : j < k => at2[0][k] = p
                      \/ \E k \in K2 : /\ j < k /\ next = at2[0][k] /\ next # p
                                       /\ \A i \in K2 : j < i /\ i < k => at2[0][i] = p
  BY DEF NextOK, Block
<1>6. j \in K /\ at[0][j] = p /\ at[0][j] \notin X /\ j \in Int
  BY <1>1, <1>3, <1>5 DEF X
<1>7. CASE next = 0 /\ \A k \in K : j < k => at[0][k] = p
  BY <1>1, <1>3, <1>7
<1>8. ASSUME NEW k \in K, j < k, next = at[0][k], next # p, \A i \in K : j < i /\ i < k => at[0][i] = p
      PROVE  \E x \in K2 : /\ j < x /\ next = at2[0][x] /\ next # p
                           /\ \A i \in K2 : j < i /\ i < x => at2[0][i] = p
  <2>1. CASE at[0][k] \notin X
    <3>1. k \in K2 /\ k \notin S
      BY <1>1, <1>2, <2>1 DEF S
    <3>. QED
      BY <1>1, <1>3, <1>8, <3>1
  <2>2. CASE at[0][k] \in X
    <3>1. \A x \in K : at[0][x] \in X => j < x
      <4>1. ASSUME NEW x \in K, at[0][x] \in X, ~(j < x) PROVE FALSE
        <5>2. x # j /\ x \in Int
          BY <1>2, <1>6, <4>1
        <5>1. x < j
          BY <1>6, <4>1, <5>2
        <5>. QED
          BY <1>2, <1>6, <1>8, <2>2, <4>1, <5>1
      <4>. QED
        BY <4>1
    <3>2. k1 \in K2 /\ k1 \in K /\ k1 \in Int /\ at[0][k1] \in X /\ at2[0][k1] = a /\ j < k1
      BY <1>1, <1>4, <3>1
    <3>3. ASSUME NEW i \in K2, j < i, i < k1 PROVE at2[0][i] = p
      <4>1. i \notin S
        BY <1>1, <1>4, <3>2, <3>3
      <4>2. at2[0][i] = at[0][i] /\ at[0][i] \notin X /\ i \in K /\ i \in Int /\ k \in Int
        BY <1>1, <1>2, <4>1
      <4>3. i < k
        <5>1. i # k /\ ~(k < i)
          BY <1>2, <2>2, <3>2, <3>3, <4>2
        <5>. QED
          BY <4>2, <5>1
      <4>. QED
        BY <1>8, <3>3, <4>2, <4>3
    <3>4. next = a
      <4>1. ASSUME next # a PROVE FALSE
        <5>1. next = b /\ a # b
          BY <1>8, <2>2, <4>1 DEF X
        <5>2. Before(Block(at, K, 0, a), Block(at, K, 0, b)) /\ \E x \in K : at[0][x] = a
          BY <5>1 DEF Dealt, Neighbours
        <5>3. PICK x \in K : at[0][x] = a
          BY <5>2
        <5>4. x < k
          BY <1>8, <5>1, <5>2, <5>3 DEF Before, Block
        <5>5. j < x /\ a # p
          BY <3>1, <5>3 DEF X
        <5>. QED
          BY <1>8, <5>3, <5>4, <5>5
      <4>. QED
        BY <4>1
    <3>. QED
      BY <1>8, <3>2, <3>3, <3>4
  <2>. QED
    BY <2>1, <2>2
<1>9. \/ next = 0 /\ \A k \in K : j < k => at[0][k] = p
      \/ \E k \in K : /\ j < k /\ next = at[0][k] /\ next # p
                      /\ \A i \in K : j < i /\ i < k => at[0][i] = p
  BY <1>6 DEF NextOK, Block
<1>. QED
  BY <1>7, <1>8, <1>9

\* Nor does the first leaf.
LEMMA DealFirst ==
    ASSUME NEW at, NEW at2, NEW top, NEW K, NEW K2, NEW n, NEW n2, NEW l, NEW a, NEW mid, NEW b,
           NEW q, NEW A, NEW B, NEW C,
           Dealt(at, at2, top, K, K2, n, n2, l, a, mid, b, q, A, B, C),
           NEW f, FirstOK(at, K, f)
    PROVE  FirstOK(at2, K2, f)
<1>. DEFINE S == A \cup B \cup C
            X == {a, b}
<1>1. /\ \A k \in K2 : k \in K /\ k \in Int
      /\ \A k \in A : k \in K2 /\ at[l][k] \in X /\ at2[l][k] = a
      /\ \A k \in K2 : k \notin S => at2[l][k] = at[l][k] /\ at[l][k] \notin X
      /\ l \in Nat
  BY DealtValues
<1>2. /\ \A k \in K : k \notin K2 => at[l][k] \in X
      /\ \A i, j, k \in K : i < j /\ j < k /\ at[l][i] \in X /\ at[l][k] \in X => at[l][j] \in X
      /\ K \subseteq Int
  BY KeysAre DEF Dealt, Parts, Neighbours, Grid
<1>3. PICK k1 \in A : \A y \in S : k1 <= y
  BY LeastDealt
<1>4. SUFFICES ASSUME NEW k \in K2, \A j \in K2 : k <= j PROVE f = at2[0][k]
  BY DEF FirstOK
<1>5. CASE l # 0
  <2>1. K2 = K /\ at2[0] = at[0]
    BY <1>5 DEF Dealt, Parts, Relabels
  <2>. QED
    BY <1>4, <2>1 DEF FirstOK
<1>6. CASE l = 0
  <2>. HIDE DEF S, X
  <2>1. CASE k \notin S
    <3>1. k \in K /\ k \in Int /\ at[0][k] \notin X /\ at2[0][k] = at[0][k]
      BY <1>1, <1>6, <2>1
    <3>2. k1 \in K2 /\ k1 \in K /\ k1 \in Int /\ at[0][k1] \in X
      BY <1>1, <1>3, <1>6
    <3>3. k < k1
      BY <1>4, <3>1, <3>2
    <3>4. ASSUME NEW j \in K PROVE k <= j
      <4>1. CASE j \in K2
        BY <1>4, <4>1
      <4>2. CASE j \notin K2
        <5>1. at[0][j] \in X /\ j \in Int
          BY <1>2, <1>6, <4>2
        <5>2. ~(j < k)
          BY <1>2, <1>6, <3>1, <3>2, <3>3, <5>1
        <5>. QED
          BY <3>1, <5>1, <5>2
      <4>. QED
        BY <4>1, <4>2
    <3>. QED
      BY <3>1, <3>4 DEF FirstOK
  <2>2. CASE k \in S
    <3>1. k = k1 /\ at2[0][k1] = a /\ k1 \in K2
      BY <1>1, <1>3, <1>4, <1>6, <2>2
    <3>2. PICK k0 \in K : \A j \in K : k0 <= j
      <4>1. IsFiniteSet(K) /\ K # {}
        BY KeysAre, FS_Subset, <1>1 DEF Dealt, Grid
      <4>. QED
        BY <1>2, <4>1, LeastKey
    <3>3. f = at[0][k0]
      BY <3>2 DEF FirstOK
    <3>4. at[0][k0] \in X
      <4>1. ASSUME at[0][k0] \notin X PROVE FALSE
        <5>1. k0 \in K2 /\ k0 # k1 /\ k0 <= k1 /\ k1 <= k0
          BY <1>1, <1>2, <1>3, <1>4, <1>6, <3>1, <3>2, <4>1
        <5>. QED
          BY <1>1, <5>1, <3>1
      <4>. QED
        BY <4>1
    <3>5. at[0][k0] = a
      <4>1. ASSUME at[0][k0] # a PROVE FALSE
        <5>1. at[0][k0] = b /\ a # b
          BY <3>4, <4>1 DEF X
        <5>2. Before(Block(at, K, 0, a), Block(at, K, 0, b)) /\ \E x \in K : at[0][x] = a
          BY <1>6, <5>1 DEF Dealt, Neighbours
        <5>3. PICK x \in K : at[0][x] = a
          BY <5>2
        <5>4. x < k0
          BY <5>1, <5>2, <5>3 DEF Before, Block
        <5>. QED
          BY <1>2, <3>2, <5>4
      <4>. QED
        BY <4>1
    <3>. QED
      BY <3>1, <3>3, <3>5
  <2>. QED
    BY <2>1, <2>2
<1>. QED
  BY <1>5, <1>6

\* An inner page whose children keep their keys, or some of them.
LEMMA InnerKept ==
    ASSUME NEW p, NEW r, NEW m, NEW at, NEW at2, NEW K, NEW K2, InnerOK(p, r, m, at, K), K2 \subseteq K,
           \A k \in K2 : at2[m][k] = r <=> at[m][k] = r,
           \A i \in 1 .. Len(p.children), k \in K2 :
             at2[m - 1][k] = p.children[i] <=> at[m - 1][k] = p.children[i],
           \A i \in 1 .. Len(p.children) : \E k \in K2 : at2[m - 1][k] = p.children[i]
    PROVE  InnerOK(p, r, m, at2, K2)
<1>. DEFINE s == p.children
            S == Block(at, K, m, r)
            S2 == Block(at2, K2, m, r)
<1>1. Row(s, at, K, m - 1, S) /\ Seps(p.keys, s, at, K, m - 1) /\ p = Inner(r, p.children, p.keys)
  BY DEF InnerOK
<1>2. \A k \in K2 : k \in S2 <=> k \in S
  BY DEF Block
<1>3. S2 \subseteq K2
  BY DEF Block
<1>. HIDE DEF S, S2
<1>4. \A i \in 1 .. Len(s) : Block(at2, K2, m - 1, s[i]) \subseteq Block(at, K, m - 1, s[i])
  BY DEF Block
<1>5. Row(s, at2, K2, m - 1, S2)
  <2>1. s \in Seq(Int)
    BY <1>1 DEF Row
  <2>2. ASSUME NEW i \in 1 .. Len(s) PROVE \E k \in S2 : at2[m - 1][k] = s[i]
    <3>1. PICK k \in K2 : at2[m - 1][k] = s[i]
      OBVIOUS
    <3>2. at[m - 1][k] = s[i] /\ k \in K
      BY <3>1
    <3>3. k \in S
      BY <1>1, <3>2 DEF Row
    <3>. QED
      BY <1>2, <3>1, <3>3
  <2>3. ASSUME NEW k \in K2 PROVE k \in S2 <=> \E i \in 1 .. Len(s) : at2[m - 1][k] = s[i]
    <3>1. k \in S <=> \E i \in 1 .. Len(s) : at[m - 1][k] = s[i]
      BY <1>1 DEF Row
    <3>. QED
      BY <1>2, <3>1
  <2>4. ASSUME NEW i \in 1 .. Len(s), NEW j \in 1 .. Len(s), i < j
        PROVE  Before(Block(at2, K2, m - 1, s[i]), Block(at2, K2, m - 1, s[j]))
    <3>1. Before(Block(at, K, m - 1, s[i]), Block(at, K, m - 1, s[j]))
      BY <1>1, <2>4 DEF Row
    <3>. QED
      BY <1>4, <3>1 DEF Before
  <2>. QED
    BY <1>3, <2>1, <2>2, <2>3, <2>4 DEF Row
<1>6. Seps(p.keys, s, at2, K2, m - 1)
  <2>1. \A i \in 1 .. Len(p.keys) : i \in 1 .. Len(s) /\ i + 1 \in 1 .. Len(s)
    BY <1>1 DEF Seps, Row
  <2>. QED
    BY <1>1, <1>4, <2>1 DEF Seps
<1>. QED
  BY <1>1, <1>5, <1>6 DEF InnerOK, S2

\* The files before and after: only the pages of the deal and the parent are
\* rewritten.
DealtPages(pg, pg2, at, at2, top, M, M2, n, l, a, b, q, S) ==
    /\ \A k \in DOMAIN M2 : M2[k] = M[k]
    /\ \A m \in 0 .. top : Layer(pg, at, M, m)
    /\ \A p \in 1 .. n : p \notin {a, b, q} => pg2[p] = pg[p]
    /\ \A k \in S : PageOK(pg2[at2[l][k]], at2[l][k], l, at2, M2)

\* The pages of the levels after a deal: the two pages, the new one and the
\* parent are given, and the others keep their keys.
LEMMA DealLayers ==
    ASSUME NEW at, NEW at2, NEW top, NEW M, NEW M2, NEW n, NEW n2, NEW l, NEW a, NEW mid, NEW b,
           NEW q, NEW A, NEW B, NEW C, NEW pg, NEW pg2,
           Dealt(at, at2, top, DOMAIN M, DOMAIN M2, n, n2, l, a, mid, b, q, A, B, C),
           DealtPages(pg, pg2, at, at2, top, M, M2, n, l, a, b, q, A \cup B \cup C)
    PROVE  /\ \A m \in 0 .. l : Layer(pg2, at2, M2, m)
           /\ InnerOK(pg2[q], q, l + 1, at2, DOMAIN M2) => \A m \in 0 .. top : Layer(pg2, at2, M2, m)
<1>. DEFINE S == A \cup B \cup C
            X == {a, b}
            K == DOMAIN M
            K2 == DOMAIN M2
<1>0. /\ \A k \in K2 : M2[k] = M[k]
      /\ \A m \in 0 .. top : Layer(pg, at, M, m)
      /\ \A p \in 1 .. n : p \notin {a, b, q} => pg2[p] = pg[p]
      /\ \A k \in S : PageOK(pg2[at2[l][k]], at2[l][k], l, at2, M2)
  BY DEF DealtPages
<1>1. /\ \A k \in K2 : k \in K /\ k \in Int
      /\ \A k \in A : k \in K2 /\ at[l][k] \in X /\ at2[l][k] = a
      /\ \A k \in B : k \in K2 /\ at[l][k] \in X /\ at2[l][k] = mid /\ mid \in n + 1 .. n2
      /\ \A k \in C : k \in K2 /\ at[l][k] \in X /\ at2[l][k] = b
      /\ \A k \in K2 : k \notin S => at2[l][k] = at[l][k] /\ at[l][k] \notin X
      /\ n \in Nat /\ n2 \in Nat /\ l \in Nat /\ top \in Nat /\ l < top
      /\ l \in 0 .. top /\ l + 1 \in 0 .. top
  BY DealtValues
<1>2. /\ Grid(at, top, K, n)
      /\ \A k \in K : k \notin K2 => at[l][k] \in X
      /\ \A k \in K : at[l][k] \in X => at[l + 1][k] = q
      /\ \A m \in 0 .. top : m # l => at2[m] = at[m]
      /\ l = 0 \/ K2 = K
      /\ (\E k \in K : at[l][k] = a) /\ (\E k \in K : at[l][k] = b)
      /\ K2 \subseteq K /\ A # {}
  <2>1. /\ Grid(at, top, K, n)
        /\ \A k \in K : at[l][k] \in X => at[l + 1][k] = q
        /\ (\E k \in K : at[l][k] = a) /\ (\E k \in K : at[l][k] = b)
    BY DEF Dealt, Neighbours
  <2>2. /\ \A k \in K : k \notin K2 => at[l][k] \in X
        /\ l = 0 \/ K2 = K
        /\ K2 \subseteq K /\ A # {}
    BY DEF Dealt, Parts
  <2>3. \A m \in Nat : m # l => at2[m] = at[m]
    BY DEF Dealt, Relabels
  <2>4. \A m \in 0 .. top : m \in Nat
    BY <1>1
  <2>. QED
    BY <2>1, <2>2, <2>3, <2>4
<1>3. PICK w \in A : TRUE
  BY <1>2
<1>4. w \in K2 /\ w \in K /\ at[l + 1][w] = q /\ at[l][w] \in X
  BY <1>1, <1>2
<1>5. \A m \in 0 .. top, k \in K : at[m][k] \in 1 .. n
  BY <1>2 DEF Grid
<1>. HIDE DEF S, X
<1>6. ASSUME NEW m \in 0 .. top, NEW k \in K, m # l PROVE at[m][k] \notin X
  <2>1. \A y \in K : at[l][y] # at[m][k]
    BY <1>1, <1>2, <1>6, Apart
  <2>. QED
    BY <1>2, <2>1 DEF X
<1>7. ASSUME NEW m \in 0 .. top, NEW k \in K, at[m][k] = q PROVE m = l + 1
  BY <1>1, <1>2, <1>4, <1>7, Apart
<1>8. ASSUME NEW m \in 0 .. top, NEW k \in K, at[m][k] \notin X, at[m][k] # q
      PROVE  pg2[at[m][k]] = pg[at[m][k]]
  BY <1>0, <1>5, <1>8 DEF X
<1>9. ASSUME NEW k \in K2, k \notin S
      PROVE  PageOK(pg2[at2[l][k]], at2[l][k], l, at2, M2)
  <2>. DEFINE p == at[l][k]
  <2>1. /\ at2[l][k] = p /\ p \notin X /\ p # q /\ pg2[p] = pg[p] /\ p \in 1 .. n
        /\ PageOK(pg[p], p, l, at, M)
    BY <1>0, <1>1, <1>5, <1>7, <1>8, <1>9 DEF Layer
  <2>2. \A x \in K2 : at2[l][x] = p <=> at[l][x] = p
    BY <1>1, <2>1 DEF S, X
  <2>3. \A x \in K : at[l][x] = p => x \in K2
    BY <1>2, <2>1
  <2>. HIDE DEF p
  <2>4. CASE l = 0
    <3>1. LeafOK(pg[p], p, at, M)
      BY <2>1, <2>4 DEF PageOK
    <3>2. Block(at2, K2, 0, p) = Block(at, K, 0, p)
      BY <1>1, <2>2, <2>3, <2>4 DEF Block
    <3>3. Held(pg[p].entries, M2, Block(at, K, 0, p))
      <4>1. Held(pg[p].entries, M, Block(at, K, 0, p))
        BY <3>1 DEF LeafOK
      <4>2. \A x \in Block(at, K, 0, p) : M2[x] = M[x]
        BY <1>0, <2>3, <2>4 DEF Block
      <4>. QED
        BY <4>1, <4>2 DEF Held
    <3>4. NextOK(at2, K2, p, pg[p].next)
      <4>1. NextOK(at, K, p, pg[p].next)
        BY <3>1 DEF LeafOK
      <4>2. Dealt(at, at2, top, K, K2, n, n2, 0, a, mid, b, q, A, B, C)
        BY <2>4
      <4>. QED
        BY <2>1, <4>1, <4>2, DealNext DEF X
    <3>. QED
      BY <2>1, <2>4, <3>1, <3>2, <3>3, <3>4 DEF PageOK, LeafOK
  <2>5. CASE l # 0
    <3>1. InnerOK(pg[p], p, l, at, K) /\ K2 = K
      BY <1>2, <2>1, <2>5 DEF PageOK
    <3>2. at2[l - 1] = at[l - 1]
      BY <1>1, <1>2, <2>5
    <3>3. \A i \in 1 .. Len(pg[p].children) : \E x \in K : at[l - 1][x] = pg[p].children[i]
      BY <3>1 DEF InnerOK, Row
    <3>4. InnerOK(pg[p], p, l, at2, K2)
      BY <2>2, <3>1, <3>2, <3>3, InnerKept
    <3>. QED
      BY <2>1, <2>5, <3>4 DEF PageOK
  <2>. QED
    BY <2>4, <2>5
<1>10. ASSUME NEW k \in K2, InnerOK(pg2[q], q, l + 1, at2, K2)
       PROVE  PageOK(pg2[at2[l + 1][k]], at2[l + 1][k], l + 1, at2, M2)
  <2>. DEFINE p == at[l + 1][k]
              s == pg[p].children
  <2>1. at2[l + 1] = at[l + 1] /\ l + 1 # 0 /\ l + 1 # l
    BY <1>1, <1>2
  <2>2. CASE p = q
    BY <1>10, <2>1, <2>2 DEF PageOK
  <2>3. CASE p # q
    <3>1. p \notin X /\ pg2[p] = pg[p] /\ InnerOK(pg[p], p, l + 1, at, K)
      BY <1>0, <1>1, <1>6, <1>8, <2>1, <2>3 DEF Layer, PageOK
    <3>2. Row(s, at, K, l, Block(at, K, l + 1, p))
      BY <1>1, <3>1 DEF InnerOK
    <3>3. ASSUME NEW i \in 1 .. Len(s)
          PROVE  /\ s[i] \notin X /\ s[i] \in 1 .. n /\ \E x \in K2 : at2[l][x] = s[i]
      <4>1. PICK x \in Block(at, K, l + 1, p) : at[l][x] = s[i]
        BY <3>2 DEF Row
      <4>2. x \in K /\ at[l + 1][x] = p
        BY <4>1 DEF Block
      <4>3. s[i] \notin X
        BY <1>2, <2>3, <4>1, <4>2
      <4>4. x \in K2
        BY <1>2, <4>1, <4>2, <4>3
      <4>5. x \notin S
        BY <1>1, <4>1, <4>3 DEF S
      <4>6. s[i] \in 1 .. n
        <5>1. at[l][x] \in 1 .. n
          BY <1>1, <1>5, <4>2
        <5>. QED
          BY <4>1, <5>1
      <4>7. at2[l][x] = s[i]
        <5>1. at2[l][x] = at[l][x]
          BY <1>1, <4>4, <4>5
        <5>. QED
          BY <4>1, <5>1
      <4>. QED
        BY <4>3, <4>4, <4>6, <4>7
    <3>4. ASSUME NEW i \in 1 .. Len(s), NEW x \in K2 PROVE at2[l][x] = s[i] <=> at[l][x] = s[i]
      <4>1. CASE x \in S
        <5>1. at[l][x] \in X /\ (at2[l][x] \in X \/ (at2[l][x] = mid /\ mid \in n + 1 .. n2))
          BY <1>1, <4>1 DEF S, X
        <5>2. at[l][x] # s[i]
          BY <3>3, <5>1
        <5>3. s[i] \notin X /\ s[i] \in 1 .. n
          BY <3>3
        <5>. DEFINE u == s[i]
                    v == at2[l][x]
        <5>5. u \notin X /\ u \in 1 .. n /\ (v \in X \/ (v = mid /\ mid \in n + 1 .. n2)) /\ n \in Nat /\ n2 \in Nat
          BY <1>1, <5>1, <5>3
        <5>. HIDE DEF u, v
        <5>6. u # v
          BY <5>5
        <5>4. at2[l][x] # s[i]
          BY <5>6 DEF u, v
        <5>. QED
          BY <5>2, <5>4
      <4>2. CASE x \notin S
        BY <1>1, <4>2
      <4>. QED
        BY <4>1, <4>2
    <3>5. InnerOK(pg[p], p, l + 1, at2, K2)
      <4>. DEFINE m == l + 1
                  y == pg[p]
      <4>1. m - 1 = l
        BY <1>1
      <4>. HIDE DEF m
      <4>2. \A i \in 1 .. Len(y.children), x \in K2 : at2[m - 1][x] = y.children[i] <=> at[m - 1][x] = y.children[i]
        BY <3>4, <4>1
      <4>3. \A i \in 1 .. Len(y.children) : \E x \in K2 : at2[m - 1][x] = y.children[i]
        BY <3>3, <4>1
      <4>4. \A x \in K2 : at2[m][x] = p <=> at[m][x] = p
        BY <2>1 DEF m
      <4>5. InnerOK(y, p, m, at, K) /\ K2 \subseteq K
        BY <1>2, <3>1 DEF m
      <4>. HIDE DEF p, K, K2, y
      <4>6. InnerOK(y, p, m, at2, K2)
        BY <4>2, <4>3, <4>4, <4>5, InnerKept
      <4>. QED
        BY <4>6 DEF m, y
    <3>. QED
      BY <2>1, <3>1, <3>5 DEF PageOK
  <2>. QED
    BY <2>2, <2>3
<1>11. ASSUME NEW m \in 0 .. top, m # l, m # l + 1, NEW k \in K2
       PROVE  PageOK(pg2[at2[m][k]], at2[m][k], m, at2, M2)
  <2>. DEFINE p == at[m][k]
  <2>1. at2[m] = at[m] /\ k \in K
    BY <1>1, <1>2, <1>11
  <2>2. p \notin X /\ p # q /\ pg2[p] = pg[p] /\ PageOK(pg[p], p, m, at, M)
    BY <1>0, <1>6, <1>7, <1>8, <1>11, <2>1 DEF Layer
  <2>3. CASE m < l
    <3>1. l # 0 /\ K2 = K /\ m \in Nat
      BY <1>1, <1>2, <2>3
    <3>2. CASE m = 0
      <4>1. LeafOK(pg[p], p, at, M)
        BY <2>2, <3>2 DEF PageOK
      <4>2. Block(at2, K2, 0, p) = Block(at, K, 0, p)
        BY <2>1, <3>1, <3>2, SMTT(20) DEF Block
      <4>3. Held(pg[p].entries, M2, Block(at, K, 0, p))
        <5>1. Held(pg[p].entries, M, Block(at, K, 0, p))
          BY <4>1 DEF LeafOK
        <5>2. \A x \in Block(at, K, 0, p) : M2[x] = M[x]
          BY <1>0, <3>1 DEF Block
        <5>. QED
          BY <5>1, <5>2 DEF Held
      <4>4. NextOK(at2, K2, p, pg[p].next)
        BY <2>1, <3>1, <3>2, <4>1 DEF LeafOK, NextOK, Block
      <4>. QED
        BY <2>1, <2>2, <3>2, <4>1, <4>2, <4>3, <4>4 DEF PageOK, LeafOK
    <3>3. CASE m # 0
      <4>1. InnerOK(pg[p], p, m, at, K)
        BY <2>2, <3>3 DEF PageOK
      <4>2. at2[m - 1] = at[m - 1]
        BY <1>1, <1>2, <2>3, <3>3
      <4>3. \A i \in 1 .. Len(pg[p].children) : \E x \in K : at[m - 1][x] = pg[p].children[i]
        BY <4>1 DEF InnerOK, Row
      <4>4. InnerOK(pg[p], p, m, at2, K2)
        BY <2>1, <3>1, <4>1, <4>2, <4>3, InnerKept, SMTT(20)
      <4>. QED
        BY <2>1, <2>2, <3>3, <4>4 DEF PageOK
    <3>. QED
      BY <3>2, <3>3
  <2>4. CASE m > l + 1
    <3>1. m # 0 /\ m - 1 # l /\ m - 1 \in 0 .. top /\ l + 1 <= m - 1
      BY <1>1, <2>4
    <3>2. InnerOK(pg[p], p, m, at, K) /\ at2[m - 1] = at[m - 1]
      BY <1>2, <2>2, <3>1 DEF PageOK
    <3>3. ASSUME NEW i \in 1 .. Len(pg[p].children)
          PROVE  \E x \in K2 : at2[m - 1][x] = pg[p].children[i]
      <4>1. PICK x \in K : at[m - 1][x] = pg[p].children[i]
        BY <3>2 DEF InnerOK, Row
      <4>2. CASE x \in K2
        BY <3>2, <4>1, <4>2
      <4>3. CASE x \notin K2
        <5>1. at[l + 1][x] = at[l + 1][w]
          BY <1>2, <1>4, <4>3
        <5>2. at[m - 1][x] = at[m - 1][w]
          <6>1. x \in K /\ w \in K /\ l + 1 \in 0 .. top /\ Grid(at, top, K, n)
            BY <1>1, <1>2, <1>4, <4>1
          <6>. QED
            BY <3>1, <5>1, <6>1, Nested
        <5>. QED
          BY <1>4, <3>2, <4>1, <5>2
      <4>. QED
        BY <4>2, <4>3
    <3>4. InnerOK(pg[p], p, m, at2, K2)
      BY <1>2, <2>1, <3>2, <3>3, InnerKept
    <3>. QED
      BY <2>1, <2>2, <3>1, <3>4 DEF PageOK
  <2>. QED
    BY <1>1, <1>11, <2>3, <2>4
<1>12. ASSUME NEW k \in K2 PROVE PageOK(pg2[at2[l][k]], at2[l][k], l, at2, M2)
  BY <1>0, <1>9 DEF S
<1>13. ASSUME NEW m \in 0 .. l, NEW k \in K2 PROVE PageOK(pg2[at2[m][k]], at2[m][k], m, at2, M2)
  <2>1. m \in 0 .. top /\ m # l + 1
    BY <1>1
  <2>. QED
    BY <1>11, <1>12, <2>1
<1>14. ASSUME InnerOK(pg2[q], q, l + 1, at2, K2), NEW m \in 0 .. top, NEW k \in K2
       PROVE PageOK(pg2[at2[m][k]], at2[m][k], m, at2, M2)
  BY <1>10, <1>11, <1>12, <1>14
<1>. QED
  BY <1>13, <1>14 DEF Layer

\* A row of pages that keep their keys, or some of them.
LEMMA RowKept ==
    ASSUME NEW s, NEW at, NEW at2, NEW K, NEW K2, NEW l, NEW S, Row(s, at, K, l, S), K2 \subseteq K,
           \A i \in 1 .. Len(s), k \in K2 : at2[l][k] = s[i] <=> at[l][k] = s[i],
           \A i \in 1 .. Len(s) : \E k \in K2 : at2[l][k] = s[i]
    PROVE  Row(s, at2, K2, l, S \cap K2)
<1>1. s \in Seq(Int) /\ S \cap K2 \subseteq K2
  BY DEF Row
<1>2. ASSUME NEW i \in 1 .. Len(s) PROVE \E k \in S \cap K2 : at2[l][k] = s[i]
  <2>1. PICK k \in K2 : at2[l][k] = s[i]
    OBVIOUS
  <2>2. at[l][k] = s[i] /\ k \in K
    BY <2>1
  <2>3. k \in S
    BY <2>2 DEF Row
  <2>. QED
    BY <2>1, <2>3
<1>3. ASSUME NEW k \in K2 PROVE k \in S \cap K2 <=> \E i \in 1 .. Len(s) : at2[l][k] = s[i]
  <2>1. k \in S <=> \E i \in 1 .. Len(s) : at[l][k] = s[i]
    BY DEF Row
  <2>. QED
    BY <2>1
<1>4. \A i \in 1 .. Len(s) : Block(at2, K2, l, s[i]) \subseteq Block(at, K, l, s[i])
  BY DEF Block
<1>5. ASSUME NEW i \in 1 .. Len(s), NEW j \in 1 .. Len(s), i < j
      PROVE  Before(Block(at2, K2, l, s[i]), Block(at2, K2, l, s[j]))
  <2>1. Before(Block(at, K, l, s[i]), Block(at, K, l, s[j]))
    BY <1>5 DEF Row
  <2>. QED
    BY <1>4, <2>1 DEF Before
<1>. QED
  BY <1>1, <1>2, <1>3, <1>5 DEF Row

Opt(S, p) == IF S = {} THEN <<>> ELSE <<p>>

\* The row of one page, or of none.
LEMMA RowOpt ==
    ASSUME NEW at, NEW K, NEW l, NEW S, NEW p, S # {} => S = Block(at, K, l, p) /\ p \in Int
    PROVE  Row(Opt(S, p), at, K, l, S)
<1>1. CASE S = {}
  BY <1>1 DEF Row, Opt
<1>2. CASE S # {}
  <2>1. Opt(S, p) = <<p>> /\ <<p>> \in Seq(Int) /\ Len(<<p>>) = 1 /\ <<p>>[1] = p
    BY <1>2 DEF Opt
  <2>2. \A k : k \in S <=> k \in K /\ at[l][k] = p
    BY <1>2 DEF Block
  <2>. QED
    BY <1>2, <2>1, <2>2 DEF Row
<1>. QED
  BY <1>1, <1>2

\* The pages of the parts.
LEMMA DealBlocks ==
    ASSUME NEW at, NEW at2, NEW top, NEW K, NEW K2, NEW n, NEW n2, NEW l, NEW a, NEW mid, NEW b,
           NEW q, NEW A, NEW B, NEW C,
           Dealt(at, at2, top, K, K2, n, n2, l, a, mid, b, q, A, B, C)
    PROVE  /\ A = Block(at2, K2, l, a)
           /\ B # {} => B = Block(at2, K2, l, mid) /\ mid # a /\ mid # b
           /\ C # {} => C = Block(at2, K2, l, b) /\ a # b
<1>. DEFINE X == {a, b}
            S == A \cup B \cup C
<1>1. /\ \A k \in K2 : k \in K /\ k \in Int
      /\ \A k \in A : k \in K2 /\ at[l][k] \in X /\ at2[l][k] = a
      /\ \A k \in B : k \in K2 /\ at[l][k] \in X /\ at2[l][k] = mid /\ mid \in n + 1 .. n2
      /\ \A k \in C : k \in K2 /\ at[l][k] \in X /\ at2[l][k] = b /\ a # b
      /\ \A k \in K2 : k \notin S => at2[l][k] = at[l][k] /\ at[l][k] \notin X
      /\ a \in 1 .. n /\ b \in 1 .. n /\ n \in Nat /\ n2 \in Nat /\ n <= n2
      /\ l \in 0 .. top
  BY DealtValues
<1>2. Grid(at, top, K, n)
  BY DEF Dealt
<1>3. \A k \in K : at[l][k] \in 1 .. n
  BY <1>1, <1>2 DEF Grid
<1>. HIDE DEF X
<1>4. mid \in n + 1 .. n2 => mid # a /\ mid # b /\ \A k \in K : at[l][k] # mid
  BY <1>1, <1>3
<1>5. ASSUME NEW k PROVE k \in A <=> k \in K2 /\ at2[l][k] = a
  <2>1. k \in K2 /\ k \notin S => at2[l][k] # a
    BY <1>1 DEF X
  <2>. QED
    BY <1>1, <1>4, <2>1
<1>6. B # {} => mid # a /\ mid # b /\ \A x \in K : at[l][x] # mid
  BY <1>1, <1>4
<1>7. ASSUME B # {}, NEW k PROVE k \in B <=> k \in K2 /\ at2[l][k] = mid
  <2>1. k \in K2 /\ k \notin S => at2[l][k] # mid
    BY <1>1, <1>6, <1>7
  <2>. QED
    BY <1>1, <1>6, <1>7, <2>1
<1>8. C # {} => a # b
  BY <1>1
<1>9. ASSUME C # {}, NEW k PROVE k \in C <=> k \in K2 /\ at2[l][k] = b
  <2>1. k \in K2 /\ k \notin S => at2[l][k] # b
    BY <1>1 DEF X
  <2>. QED
    BY <1>1, <1>4, <1>8, <1>9, <2>1
<1>. QED
  BY <1>5, <1>6, <1>7, <1>8, <1>9 DEF Block

\* s and u are the children of page q to the left of a and to the right of b.
Flanks(at, K, l, q, a, b, s, u) ==
    \E P, Q :
      /\ Row(s, at, K, l, P) /\ Row(u, at, K, l, Q)
      /\ \A k \in P \cup Q : at[l][k] \notin {a, b}
      /\ \A k \in K : at[l][k] \in {a, b} => Before(P, {k}) /\ Before({k}, Q)
      /\ P \cup Q \cup {k \in K : at[l][k] \in {a, b}} = Block(at, K, l + 1, q)

\* The children of page q after the deal.
Replaced(s, a, B, mid, C, b, u) == (((s \o <<a>>) \o Opt(B, mid)) \o Opt(C, b)) \o u

\* The children of the parent after a deal, from left to right.
LEMMA DealRow ==
    ASSUME NEW at, NEW at2, NEW top, NEW K, NEW K2, NEW n, NEW n2, NEW l, NEW a, NEW mid, NEW b,
           NEW q, NEW A, NEW B, NEW C,
           Dealt(at, at2, top, K, K2, n, n2, l, a, mid, b, q, A, B, C),
           NEW s, NEW u, Flanks(at, K, l, q, a, b, s, u)
    PROVE  Row(Replaced(s, a, B, mid, C, b, u), at2, K2, l, Block(at2, K2, l + 1, q))
<1>0. PICK P, Q :
        /\ Row(s, at, K, l, P) /\ Row(u, at, K, l, Q)
        /\ \A k \in P \cup Q : at[l][k] \notin {a, b}
        /\ \A k \in K : at[l][k] \in {a, b} => Before(P, {k}) /\ Before({k}, Q)
        /\ P \cup Q \cup {k \in K : at[l][k] \in {a, b}} = Block(at, K, l + 1, q)
  BY DEF Flanks
<1>. DEFINE X == {a, b}
            S == A \cup B \cup C
<1>1. /\ \A k \in K2 : k \in K /\ k \in Int
      /\ \A k \in A : k \in K2 /\ at[l][k] \in X /\ at2[l][k] = a
      /\ \A k \in B : k \in K2 /\ at[l][k] \in X /\ at2[l][k] = mid /\ mid \in n + 1 .. n2
      /\ \A k \in C : k \in K2 /\ at[l][k] \in X /\ at2[l][k] = b /\ a # b
      /\ \A k \in K2 : k \notin S => at2[l][k] = at[l][k] /\ at[l][k] \notin X
      /\ a \in 1 .. n /\ b \in 1 .. n /\ n \in Nat /\ n2 \in Nat /\ n <= n2
      /\ l \in 0 .. top /\ l + 1 \in 0 .. top
  BY DealtValues
<1>2. /\ K2 \subseteq K /\ \A k \in K \ K2 : at[l][k] \in X
      /\ S = {k \in K2 : at[l][k] \in X} /\ A # {}
      /\ Before(A, B) /\ Before(B, C) /\ Before(A, C)
      /\ Grid(at, top, K, n)
      /\ at2[l + 1] = at[l + 1]
  <2>1. l + 1 \in Nat /\ l + 1 # l
    BY <1>1 DEF Dealt, Grid
  <2>. QED
    BY <2>1 DEF Dealt, Parts, Relabels
<1>3. \A k \in K : at[l][k] \in 1 .. n
  BY <1>1, <1>2 DEF Grid
<1>4. P \subseteq K2 /\ Q \subseteq K2
  BY <1>0, <1>2 DEF Row
<1>. HIDE DEF X
<1>5. ASSUME NEW k \in K2, NEW j \in K2, at[l][j] \notin X PROVE at2[l][k] = at[l][j] <=> at[l][k] = at[l][j]
  <2>1. at[l][j] \in 1 .. n
    BY <1>1, <1>3
  <2>2. CASE k \notin S
    BY <1>1, <2>2
  <2>3. CASE k \in S
    <3>1. at[l][k] \in X
      BY <1>2, <2>3
    <3>2. at2[l][k] \in X \/ (at2[l][k] = mid /\ mid \in n + 1 .. n2)
      BY <1>1, <2>3 DEF X
    <3>. DEFINE x == at2[l][k]
                y == at[l][j]
    <3>. HIDE DEF x, y
    <3>3. x # y
      BY <1>1, <1>5, <2>1, <3>2 DEF x, y
    <3>. QED
      BY <1>5, <3>1, <3>3 DEF x, y
  <2>. QED
    BY <2>2, <2>3
<1>6. ASSUME NEW v, NEW R, Row(v, at, K, l, R), R \subseteq K2, \A k \in R : at[l][k] \notin X
      PROVE  Row(v, at2, K2, l, R)
  <2>1. ASSUME NEW i \in 1 .. Len(v), NEW k \in K2
        PROVE  at2[l][k] = v[i] <=> at[l][k] = v[i]
    <3>1. PICK j \in R : at[l][j] = v[i]
      BY <1>6 DEF Row
    <3>. QED
      BY <1>5, <1>6, <3>1
  <2>2. ASSUME NEW i \in 1 .. Len(v) PROVE \E k \in K2 : at2[l][k] = v[i]
    <3>1. PICK j \in R : at[l][j] = v[i]
      BY <1>6 DEF Row
    <3>. QED
      BY <1>6, <2>1, <3>1
  <2>3. Row(v, at2, K2, l, R \cap K2)
    BY <1>2, <1>6, <2>1, <2>2, RowKept
  <2>4. R \cap K2 = R
    BY <1>6
  <2>. QED
    BY <2>3, <2>4
<1>7. Row(s, at2, K2, l, P) /\ Row(u, at2, K2, l, Q)
  BY <1>0, <1>4, <1>6 DEF X
<1>8. /\ A = Block(at2, K2, l, a)
      /\ B # {} => B = Block(at2, K2, l, mid)
      /\ C # {} => C = Block(at2, K2, l, b)
  BY DealBlocks
<1>9. Row(Opt(A, a), at2, K2, l, A) /\ Row(Opt(B, mid), at2, K2, l, B) /\ Row(Opt(C, b), at2, K2, l, C)
  <2>1. a \in Int /\ b \in Int /\ (B # {} => mid \in Int)
    BY <1>1
  <2>. QED
    BY <1>8, <2>1, RowOpt
<1>10. /\ Before(P, A) /\ Before(P, B) /\ Before(P, C)
       /\ Before(A, Q) /\ Before(B, Q) /\ Before(C, Q)
  <2>1. \A k \in S : k \in K /\ Before(P, {k}) /\ Before({k}, Q)
    BY <1>0, <1>2 DEF X
  <2>. QED
    BY <2>1 DEF Before
<1>11. Before(P, Q)
  <2>1. PICK k \in A : TRUE
    BY <1>2
  <2>2. \A x \in P, y \in Q : x < k /\ k < y /\ x \in Int /\ k \in Int /\ y \in Int
    BY <1>1, <1>4, <1>10 DEF Before
  <2>. QED
    BY <2>2 DEF Before
<1>12. Opt(A, a) = <<a>>
  BY <1>2 DEF Opt
<1>13. Row(s \o <<a>>, at2, K2, l, P \cup A)
  BY <1>7, <1>9, <1>10, <1>12, RowJoin
<1>14. Row((s \o <<a>>) \o Opt(B, mid), at2, K2, l, (P \cup A) \cup B)
  <2>1. Before(P \cup A, B)
    BY <1>2, <1>10 DEF Before
  <2>. QED
    BY <1>9, <1>13, <2>1, RowJoin
<1>15. Row(((s \o <<a>>) \o Opt(B, mid)) \o Opt(C, b), at2, K2, l, ((P \cup A) \cup B) \cup C)
  <2>1. Before((P \cup A) \cup B, C)
    BY <1>2, <1>10 DEF Before
  <2>. QED
    BY <1>9, <1>14, <2>1, RowJoin
<1>16. Row((((s \o <<a>>) \o Opt(B, mid)) \o Opt(C, b)) \o u, at2, K2, l, (((P \cup A) \cup B) \cup C) \cup Q)
  <2>1. Before(((P \cup A) \cup B) \cup C, Q)
    BY <1>10, <1>11 DEF Before
  <2>. QED
    BY <1>7, <1>15, <2>1, RowJoin
<1>17. (((P \cup A) \cup B) \cup C) \cup Q = Block(at2, K2, l + 1, q)
  <2>1. ASSUME NEW k PROVE k \in (((P \cup A) \cup B) \cup C) \cup Q <=> k \in K2 /\ at2[l + 1][k] = q
    <3>1. k \in Block(at, K, l + 1, q) <=> k \in K /\ at[l + 1][k] = q
      BY DEF Block
    <3>2. k \in P \cup Q \/ (k \in K /\ at[l][k] \in X) <=> k \in Block(at, K, l + 1, q)
      BY <1>0 DEF X
    <3>3. k \in S <=> k \in K2 /\ at[l][k] \in X
      BY <1>2
    <3>. QED
      BY <1>2, <1>4, <3>1, <3>2, <3>3
  <2>. QED
    BY <2>1 DEF Block
<1>. QED
  BY <1>16, <1>17 DEF Replaced

\* Two parts next to each other: the leaf of the second follows that of the
\* first.
LEMMA NextSib ==
    ASSUME NEW at, NEW K, NEW x, NEW y, NEW X, NEW Y, K \subseteq Keys, Y \subseteq K, X \subseteq K,
           Y # {}, Before(X, Y), x # y,
           X = Block(at, K, 0, x), \A k \in Y : at[0][k] = y,
           \A i \in K, j \in X, k \in Y : j < i /\ i < k => i \in X \cup Y
    PROVE  NextOK(at, K, x, y)
<1>1. Y \subseteq Int /\ IsFiniteSet(Y)
  BY KeysAre, FS_Subset
<1>2. PICK k \in Y : \A z \in Y : k <= z
  BY <1>1, LeastKey
<1>3. ASSUME NEW j \in X PROVE \E z \in K : /\ j < z /\ y = at[0][z] /\ y # x
                                            /\ \A i \in K : j < i /\ i < z => at[0][i] = x
  <2>1. j < k /\ k \in K /\ at[0][k] = y
    BY DEF Before
  <2>2. ASSUME NEW i \in K, j < i, i < k PROVE at[0][i] = x
    <3>1. i \in X \cup Y
      BY <2>2
    <3>2. i \notin Y
      BY <1>1, <1>2, <2>2
    <3>. QED
      BY <3>1, <3>2 DEF Block
  <2>. QED
    BY <2>1, <2>2
<1>. QED
  BY <1>3 DEF NextOK

\* The leaf of the last part is followed by what followed b.
LEMMA NextLast ==
    ASSUME NEW at, NEW at2, NEW top, NEW K, NEW K2, NEW n, NEW n2, NEW a, NEW mid, NEW b,
           NEW q, NEW A, NEW B, NEW C,
           Dealt(at, at2, top, K, K2, n, n2, 0, a, mid, b, q, A, B, C),
           NEW next, NextOK(at, K, b, next), NEW z, NEW Z, Z \subseteq A \cup B \cup C,
           Z = Block(at2, K2, 0, z), z \in {a, b} \/ z > n, z \in Int,
           \A j \in Z, k \in A \cup B \cup C : j < k => k \in Z
    PROVE  NextOK(at2, K2, z, next)
<1>. DEFINE X == {a, b}
            S == A \cup B \cup C
<1>1. /\ \A k \in K2 : k \in K /\ k \in Int
      /\ \A k \in S : k \in K2 /\ at[0][k] \in X
      /\ \A k \in K2 : k \notin S => at2[0][k] = at[0][k] /\ at[0][k] \notin X
      /\ a \in 1 .. n /\ b \in 1 .. n /\ n \in Nat /\ n2 \in Nat /\ n <= n2
      /\ 0 \in 0 .. top /\ 0 + 1 \in 0 .. top
  BY DealtValues
<1>2. /\ K2 \subseteq K /\ \A k \in K \ K2 : at[0][k] \in X
      /\ S = {k \in K2 : at[0][k] \in X}
      /\ Grid(at, top, K, n)
      /\ \E k \in K : at[0][k] = b
      /\ a = b \/ Before(Block(at, K, 0, a), Block(at, K, 0, b))
      /\ \A i, j, k \in K :
         i < j /\ j < k /\ at[0][i] \in {a, b} /\ at[0][k] \in {a, b} => at[0][j] \in {a, b}
  BY DEF Dealt, Parts, Neighbours
<1>3. K \subseteq Int /\ IsFiniteSet(K) /\ \A k \in K : at[0][k] \in 1 .. n
  BY <1>1, <1>2, KeysAre, FS_Subset DEF Grid
<1>4. PICK d \in Block(at, K, 0, b) : \A k \in Block(at, K, 0, b) : k <= d
  <2>1. Block(at, K, 0, b) \subseteq K /\ Block(at, K, 0, b) # {}
    BY <1>2 DEF Block
  <2>2. IsFiniteSet(Block(at, K, 0, b))
    BY <1>3, <2>1, FS_Subset
  <2>. QED
    BY <1>3, <2>1, <2>2, GreatestKey
<1>5. d \in K /\ d \in Int /\ at[0][d] = b
  BY <1>3, <1>4 DEF Block
<1>6. ASSUME NEW k \in K, at[0][k] \in X PROVE k <= d
  <2>1. CASE at[0][k] = b
    BY <1>4, <2>1 DEF Block
  <2>2. CASE at[0][k] = a /\ a # b
    <3>1. k < d
      BY <1>2, <1>4, <2>2 DEF Before, Block
    <3>. QED
      BY <1>3, <1>5, <3>1
  <2>. QED
    BY <1>6, <2>1, <2>2
<1>7. ASSUME NEW j \in Z, NEW k \in K2, j < k, k <= d PROVE at2[0][k] = z
  <2>1. j \in K /\ at[0][j] \in X /\ j \in Int /\ k \in Int /\ k \in K
    BY <1>1
  <2>2. at[0][k] \in X
    <3>1. CASE k = d
      BY <1>5, <3>1
    <3>2. CASE k < d
      BY <1>2, <1>5, <1>7, <2>1, <3>2
    <3>. QED
      BY <1>5, <1>7, <2>1, <3>1, <3>2
  <2>3. k \in S
    BY <1>2, <2>2
  <2>. QED
    BY <1>7, <2>3 DEF Block
<1>8. \/ next = 0 /\ \A k \in K : d < k => at[0][k] = b
      \/ \E k \in K : /\ d < k /\ next = at[0][k] /\ next # b
                      /\ \A i \in K : d < i /\ i < k => at[0][i] = b
  BY <1>4 DEF NextOK
<1>9. \A k \in K : d < k => at[0][k] # b
  BY <1>3, <1>5, <1>6
<1>10. ASSUME NEW j \in Z
       PROVE  \/ next = 0 /\ \A k \in K2 : j < k => at2[0][k] = z
              \/ \E k \in K2 : /\ j < k /\ next = at2[0][k] /\ next # z
                               /\ \A i \in K2 : j < i /\ i < k => at2[0][i] = z
  <2>0. j \in K /\ j \in Int /\ j <= d
    BY <1>1, <1>6
  <2>1. CASE next = 0 /\ \A k \in K : d < k => at[0][k] = b
    <3>1. \A k \in K2 : k <= d
      BY <1>1, <1>3, <1>5, <1>9, <2>1
    <3>. QED
      BY <1>7, <2>1, <3>1
  <2>2. ASSUME NEW k \in K, d < k, next = at[0][k], next # b, \A i \in K : d < i /\ i < k => at[0][i] = b
        PROVE  \E x \in K2 : /\ j < x /\ next = at2[0][x] /\ next # z
                             /\ \A i \in K2 : j < i /\ i < x => at2[0][i] = z
    <3>1. at[0][k] \notin X
      BY <1>3, <1>5, <1>6, <2>2
    <3>2. k \in K2 /\ at2[0][k] = at[0][k]
      BY <1>1, <1>2, <3>1
    <3>3. next # z
      BY <1>1, <1>3, <2>2, <3>1
    <3>4. j < k
      BY <1>3, <1>5, <2>0, <2>2
    <3>5. ASSUME NEW i \in K2, j < i, i < k PROVE at2[0][i] = z
      <4>1. i <= d
        BY <1>1, <1>5, <1>9, <2>2, <3>5
      <4>. QED
        BY <1>7, <3>5, <4>1
    <3>. QED
      BY <2>2, <3>2, <3>3, <3>4, <3>5
  <2>. QED
    BY <1>8, <2>1, <2>2
<1>. QED
  BY <1>10 DEF NextOK

\* The chain of next_leaf through the leaves of a deal.
LEMMA DealLeaves ==
    ASSUME NEW at, NEW at2, NEW top, NEW K, NEW K2, NEW n, NEW n2, NEW a, NEW mid, NEW b,
           NEW q, NEW A, NEW B, NEW C,
           Dealt(at, at2, top, K, K2, n, n2, 0, a, mid, b, q, A, B, C),
           NEW next, NextOK(at, K, b, next)
    PROVE  /\ NextOK(at2, K2, a, IF B # {} THEN mid ELSE IF C # {} THEN b ELSE next)
           /\ B # {} => NextOK(at2, K2, mid, IF C # {} THEN b ELSE next)
           /\ C # {} => NextOK(at2, K2, b, next)
<1>. DEFINE X == {a, b}
            S == A \cup B \cup C
<1>1. /\ \A k \in K2 : k \in K /\ k \in Int
      /\ \A k \in S : k \in K2 /\ at[0][k] \in X
      /\ \A k \in B : at2[0][k] = mid /\ mid \in n + 1 .. n2
      /\ \A k \in C : at2[0][k] = b
      /\ a \in 1 .. n /\ b \in 1 .. n /\ n \in Nat /\ n2 \in Nat /\ n <= n2
  BY DealtValues
<1>2. /\ S = {k \in K2 : at[0][k] \in X} /\ A # {}
      /\ Before(A, B) /\ Before(B, C) /\ Before(A, C)
      /\ Grid(at, top, K, n)
      /\ \A i, j, k \in K :
         i < j /\ j < k /\ at[0][i] \in {a, b} /\ at[0][k] \in {a, b} => at[0][j] \in {a, b}
  BY DEF Dealt, Parts, Neighbours
<1>3. /\ A = Block(at2, K2, 0, a)
      /\ B # {} => B = Block(at2, K2, 0, mid) /\ mid # a /\ mid # b /\ mid > n /\ mid \in Int
      /\ C # {} => C = Block(at2, K2, 0, b) /\ a # b
  BY <1>1, DealBlocks
<1>4. K2 \subseteq Keys /\ A \subseteq K2 /\ B \subseteq K2 /\ C \subseteq K2
  BY <1>1, <1>2 DEF Grid
<1>5. \A i \in K2, j, k \in S : j < i /\ i < k => i \in S
  BY <1>1, <1>2
<1>6. \A j \in A, k \in B : j < k /\ j \in Int /\ k \in Int
  BY <1>1, <1>2 DEF Before
<1>7. \A j \in B, k \in C : j < k /\ j \in Int /\ k \in Int
  BY <1>1, <1>2 DEF Before
<1>8. \A j \in A, k \in C : j < k /\ j \in Int /\ k \in Int
  BY <1>1, <1>2 DEF Before
<1>9. CASE B # {} /\ C # {}
  <2>1. \A i \in K2, j \in A, k \in B : j < i /\ i < k => i \in A \cup B
    BY <1>5, <1>6, <1>7
  <2>2. NextOK(at2, K2, a, mid)
    BY <1>1, <1>2, <1>3, <1>4, <1>9, <2>1, NextSib
  <2>3. \A i \in K2, j \in B, k \in C : j < i /\ i < k => i \in B \cup C
    BY <1>5, <1>6, <1>7
  <2>4. NextOK(at2, K2, mid, b)
    BY <1>1, <1>2, <1>3, <1>4, <1>9, <2>3, NextSib
  <2>5. \A j \in C, k \in S : j < k => k \in C
    BY <1>7, <1>8
  <2>6. NextOK(at2, K2, b, next)
    BY <1>1, <1>3, <1>9, <2>5, NextLast
  <2>. QED
    BY <1>9, <2>2, <2>4, <2>6
<1>10. CASE B # {} /\ C = {}
  <2>1. \A i \in K2, j \in A, k \in B : j < i /\ i < k => i \in A \cup B
    BY <1>5, <1>10
  <2>2. NextOK(at2, K2, a, mid)
    BY <1>1, <1>2, <1>3, <1>4, <1>10, <2>1, NextSib
  <2>3. \A j \in B, k \in S : j < k => k \in B
    BY <1>6, <1>10
  <2>4. NextOK(at2, K2, mid, next)
    BY <1>1, <1>3, <1>10, <2>3, NextLast
  <2>. QED
    BY <1>10, <2>2, <2>4
<1>11. CASE B = {} /\ C # {}
  <2>1. \A i \in K2, j \in A, k \in C : j < i /\ i < k => i \in A \cup C
    BY <1>5, <1>11
  <2>2. NextOK(at2, K2, a, b)
    BY <1>1, <1>2, <1>3, <1>4, <1>11, <2>1, NextSib
  <2>3. \A j \in C, k \in S : j < k => k \in C
    BY <1>8, <1>11
  <2>4. NextOK(at2, K2, b, next)
    BY <1>1, <1>3, <1>11, <2>3, NextLast
  <2>. QED
    BY <1>11, <2>2, <2>4
<1>12. CASE B = {} /\ C = {}
  <2>1. \A j \in A, k \in S : j < k => k \in A
    BY <1>12
  <2>2. a \in Int
    BY <1>1
  <2>3. NextOK(at2, K2, a, next)
    BY <1>3, <2>1, <2>2, NextLast
  <2>. QED
    BY <1>12, <2>3
<1>. QED
  BY <1>9, <1>10, <1>11, <1>12

\* The pages of every key after a deal.
LEMMA Relabelled ==
    ASSUME NEW at, NEW top, NEW K, NEW K2, NEW n, NEW n2, NEW l, NEW a, NEW mid, NEW b,
           NEW q, NEW A, NEW B, NEW C, Grid(at, top, K, n),
           Neighbours(at, top, K, l, a, b, q), Parts(at, K, K2, l, a, b, A, B, C),
           n2 \in Nat, n <= n2, B = {} \/ mid \in n + 1 .. n2
    PROVE  \E at2 : Dealt(at, at2, top, K, K2, n, n2, l, a, mid, b, q, A, B, C)
<1>1. /\ at \in [Nat -> [Int -> Int]] /\ l \in Nat /\ a \in Int /\ b \in Int /\ n \in Nat
      /\ K \subseteq Int /\ K2 \subseteq K
  <2>1. /\ at \in [Nat -> [Int -> Int]] /\ l \in 0 .. top /\ top \in Nat /\ n \in Nat /\ K \subseteq Int
        /\ K2 \subseteq K /\ \A k \in K : at[l][k] \in 1 .. n
    BY KeysAre DEF Grid, Neighbours, Parts
  <2>2. PICK j \in K, k \in K : at[l][j] = a /\ at[l][k] = b
    BY DEF Neighbours
  <2>3. a \in 1 .. n /\ b \in 1 .. n
    BY <2>1, <2>2
  <2>. QED
    BY <2>1, <2>3, SMTT(20)
<1>. DEFINE f == [k \in Int |-> IF k \in A THEN a ELSE IF k \in B THEN mid
                                ELSE IF k \in C THEN b ELSE at[l][k]]
            at2 == [m \in Nat |-> IF m = l THEN f ELSE at[m]]
<1>2. f \in [Int -> Int]
  <2>1. B # {} => mid \in Int
    BY <1>1
  <2>2. at[l] \in [Int -> Int]
    BY <1>1
  <2>. QED
    BY <1>1, <2>1, <2>2
<1>3. /\ \A k \in K2 : f[k] = IF k \in A THEN a ELSE IF k \in B THEN mid
                                ELSE IF k \in C THEN b ELSE at[l][k]
  BY <1>1
<1>. HIDE DEF f
<1>4. at2 \in [Nat -> [Int -> Int]] /\ at2[l] = f /\ \A m \in Nat : m # l => at2[m] = at[m]
  BY <1>1, <1>2
<1>. HIDE DEF at2
<1>5. Relabels(at, at2, K2, n, n2, l, a, mid, b, A, B, C)
  BY <1>3, <1>4 DEF Relabels
<1>6. Dealt(at, at2, top, K, K2, n, n2, l, a, mid, b, q, A, B, C)
  BY <1>5 DEF Dealt
<1>. QED
  BY <1>6

----------------------------------------------------------------------------
(* Pages and files *)

AnyPage == [id : Nat, type : {"leaf"}, entries : Seq(Entries), next : Nat]
           \cup [id : Nat, type : {"inner"}, children : Seq(Nat), keys : Seq(Int)]
           \cup [id : Nat, type : {"zero"}]

\* A file in which one page is written.
LEMMA Written ==
    ASSUME NEW S, NEW s \in Seq(S), NEW i \in 1 .. Len(s), NEW p
    PROVE  /\ [s EXCEPT ![i] = p] \in Seq(S \cup {p})
           /\ Len([s EXCEPT ![i] = p]) = Len(s)
           /\ [s EXCEPT ![i] = p][i] = p
           /\ \A j \in 1 .. Len(s) : j # i => [s EXCEPT ![i] = p][j] = s[j]
<1>1. s \in Seq(S \cup {p})
  OBVIOUS
<1>. QED
  BY <1>1

\* The parent of the dealt pages, rebuilt, completes the tree.
LEMMA DealTree ==
    ASSUME NEW at, NEW at2, NEW top, NEW M, NEW M2, NEW n, NEW n2, NEW l, NEW a, NEW mid, NEW b,
           NEW q, NEW A, NEW B, NEW C, NEW pg, NEW st,
           Dealt(at, at2, top, DOMAIN M, DOMAIN M2, n, n2, l, a, mid, b, q, A, B, C),
           DealtPages(pg, st.pages, at, at2, top, M, M2, n, l, a, b, q, A \cup B \cup C),
           st.pages \in Seq(AnyPage), Len(st.pages) = n2,
           NEW ch, Row(ch, at2, DOMAIN M2, l, Block(at2, DOMAIN M2, l + 1, q))
    PROVE  LET p == rebuild_internal_keys(st, q, ch)
           IN  /\ Rebuildable(st, ch)
               /\ Tree([st.pages EXCEPT ![q] = p], at2, top, M2)
               /\ InnerOK(p, q, l + 1, at2, DOMAIN M2) /\ q \in 1 .. n
<1>. DEFINE K == DOMAIN M
            K2 == DOMAIN M2
            p == rebuild_internal_keys(st, q, ch)
            pg3 == [st.pages EXCEPT ![q] = p]
<1>1. Grid(at2, top, K2, n2)
  BY DealGrid
<1>2. /\ \A k \in A \cup B \cup C : k \in K2
      /\ n \in Nat /\ n2 \in Nat /\ n <= n2 /\ l \in 0 .. top /\ l + 1 \in 0 .. top /\ l \in Nat
  BY DealtValues
<1>3. \A m \in 0 .. l : Layer(st.pages, at2, M2, m)
  BY DealLayers
<1>4. Below0(st.pages, at2, top, M2, l, n2)
  BY <1>1, <1>2, <1>3 DEF Below0
<1>5. PICK w \in A : w \in K2 /\ at2[l + 1][w] = q /\ q \in 1 .. n
  <2>1. PICK w \in A : w \in K2 /\ w \in K /\ at[l][w] \in {a, b}
    BY DealtValues DEF Dealt, Parts
  <2>2. at[l + 1][w] = q
    BY <2>1 DEF Dealt, Neighbours
  <2>3. at[l + 1][w] \in 1 .. n
    BY <1>2, <2>1 DEF Dealt, Grid
  <2>4. at2[l + 1] = at[l + 1]
    <3>1. l + 1 \in Nat /\ l + 1 # l
      BY <1>2
    <3>. QED
      BY <3>1 DEF Dealt, Relabels
  <2>. QED
    BY <2>1, <2>2, <2>3, <2>4
<1>6. ch # <<>>
  <2>1. w \in Block(at2, K2, l + 1, q)
    BY <1>5 DEF Block
  <2>2. \E i \in 1 .. Len(ch) : at2[l][w] = ch[i]
    BY <1>5, <2>1 DEF Row
  <2>. QED
    BY <2>2
<1>7. Rebuildable(st, ch) /\ p = Inner(q, ch, p.keys) /\ Seps(p.keys, ch, at2, K2, l)
  <2>. DEFINE S == Block(at2, K2, l + 1, q)
  <2>. HIDE DEF S
  <2>1. Row(ch, at2, K2, l, S)
    BY DEF S
  <2>2. Rebuildable(st, ch)
    BY <1>4, <1>6, <2>1, Rebuilt
  <2>3. p = Inner(q, ch, p.keys)
    BY <1>4, <1>6, <2>1, Rebuilt, ZenonT(60)
  <2>4. Seps(p.keys, ch, at2, K2, l)
    BY <1>4, <1>6, <2>1, Rebuilt
  <2>. QED
    BY <2>2, <2>3, <2>4
<1>. HIDE DEF p
<1>8. p.children = ch
  BY <1>7 DEF Inner
<1>9. InnerOK(p, q, l + 1, at2, K2)
  <2>. DEFINE m == l + 1
  <2>1. m - 1 = l
    BY <1>2
  <2>2. Row(ch, at2, K2, l, Block(at2, K2, m, q))
    OBVIOUS
  <2>. HIDE DEF m
  <2>3. InnerOK(p, q, m, at2, K2)
    BY <1>7, <1>8, <2>1, <2>2 DEF InnerOK
  <2>. QED
    BY <2>3 DEF m
<1>10. Len(pg3) = n2 /\ pg3[q] = p /\ \A j \in 1 .. n2 : j # q => pg3[j] = st.pages[j]
  <2>1. q \in 1 .. Len(st.pages)
    BY <1>2, <1>5
  <2>. QED
    BY <2>1, Written
<1>. HIDE DEF pg3
<1>0. /\ \A k \in K2 : M2[k] = M[k]
      /\ \A m \in 0 .. top : Layer(pg, at, M, m)
      /\ \A j \in 1 .. n : j \notin {a, b, q} => st.pages[j] = pg[j]
      /\ \A k \in A \cup B \cup C : PageOK(st.pages[at2[l][k]], at2[l][k], l, at2, M2)
  BY DEF DealtPages
<1>11. \A j \in 1 .. n : j \notin {a, b, q} => pg3[j] = pg[j]
  BY <1>0, <1>2, <1>10
<1>12. ASSUME NEW k \in A \cup B \cup C PROVE PageOK(pg3[at2[l][k]], at2[l][k], l, at2, M2)
  <2>1. at2[l][k] \in 1 .. n2
    BY <1>1, <1>2 DEF Grid
  <2>2. at2[l][k] # q
    BY <1>1, <1>2, <1>5, Apart
  <2>3. pg3[at2[l][k]] = st.pages[at2[l][k]]
    BY <1>10, <2>1, <2>2
  <2>. QED
    BY <1>0, <2>3
<1>13. InnerOK(pg3[q], q, l + 1, at2, K2)
  BY <1>9, <1>10
<1>14. \A m \in 0 .. top : Layer(pg3, at2, M2, m)
  <2>1. DealtPages(pg, pg3, at, at2, top, M, M2, n, l, a, b, q, A \cup B \cup C)
    BY <1>0, <1>11, <1>12 DEF DealtPages
  <2>. QED
    BY <1>13, <2>1, DealLayers
<1>15. Tree(pg3, at2, top, M2)
  BY <1>1, <1>5, <1>10, <1>14 DEF Tree
<1>. QED
  BY <1>5, <1>7, <1>9, <1>15 DEF p, pg3

\* Two children next to each other, or one child.
LEMMA Adjacent ==
    ASSUME NEW at, NEW top, NEW K, NEW n, NEW l, NEW q, NEW ch, Grid(at, top, K, n),
           l \in 0 .. top, l < top, Row(ch, at, K, l, Block(at, K, l + 1, q)),
           NEW c \in 1 .. Len(ch), NEW d \in {c, c + 1}, d <= Len(ch)
    PROVE  /\ Neighbours(at, top, K, l, ch[c], ch[d], q)
           /\ Flanks(at, K, l, q, ch[c], ch[d], SubSeq(ch, 1, c - 1), SubSeq(ch, d + 1, Len(ch)))
<1>. DEFINE X == {ch[c], ch[d]}
            S == Block(at, K, l + 1, q)
            D == {k \in K : at[l][k] \in X}
            v == SubSeq(ch, c, d)
<1>1. ch \in Seq(Int) /\ l \in Nat /\ l + 1 \in 0 .. top /\ K \subseteq Int /\ d \in 1 .. Len(ch)
  BY KeysAre DEF Row, Grid
<1>2. PICK P, R, Q :
             /\ Row(SubSeq(ch, 1, c - 1), at, K, l, P)
             /\ Row(SubSeq(ch, c, d), at, K, l, R)
             /\ Row(SubSeq(ch, d + 1, Len(ch)), at, K, l, Q)
             /\ S = P \cup R \cup Q /\ Before(P, R) /\ Before(R, Q) /\ Before(P, Q)
  <2>1. c - 1 \in Nat /\ d \in Nat /\ c - 1 <= d
    BY <1>1
  <2>. DEFINE m == c - 1
  <2>2. Row(ch, at, K, l, S)
    BY DEF S
  <2>3. m + 1 = c
    BY <1>1
  <2>. HIDE DEF S, m
  <2>4. RowParts(ch, at, K, l, S, m, d)
    <3>1. m \in Nat /\ d \in Nat /\ m <= d /\ d <= Len(ch)
      BY <1>1, <2>1 DEF m
    <3>. QED
      BY <2>2, <3>1, RowCut
  <2>. QED
    BY <2>3, <2>4 DEF m, RowParts
<1>3. Len(v) = d - c + 1 /\ \A x \in 1 .. d - c + 1 : v[x] = ch[c + x - 1]
  <2>1. c \in Int /\ d \in Int /\ 1 <= c /\ c <= d + 1
    BY <1>1
  <2>. QED
    BY <1>1, <2>1, Cut
<1>4. R = D
  <2>1. R \subseteq K /\ \A k \in K : k \in R <=> \E x \in 1 .. Len(v) : at[l][k] = v[x]
    BY <1>2 DEF Row
  <2>. HIDE DEF v
  <2>2. ASSUME NEW z PROVE (\E x \in 1 .. Len(v) : z = v[x]) <=> z \in X
    <3>1. v[1] = ch[c] /\ 1 \in 1 .. Len(v)
      <4>1. d - c + 1 \in Nat /\ 1 <= d - c + 1 /\ c + 1 - 1 = c
        BY <1>1
      <4>2. 1 \in 1 .. d - c + 1
        BY <4>1
      <4>. QED
        BY <1>3, <4>1, <4>2
    <3>2. d = c + 1 => v[2] = ch[d] /\ 2 \in 1 .. Len(v)
      BY <1>1, <1>3
    <3>3. \A x \in 1 .. Len(v) : x = 1 \/ (x = 2 /\ d = c + 1)
      BY <1>1, <1>3
    <3>. QED
      BY <3>1, <3>2, <3>3
  <2>. QED
    BY <2>1, <2>2
<1>. HIDE DEF v, D, X, S
<1>5. D \subseteq K /\ \A k \in K : k \in D <=> at[l][k] \in X
  BY DEF D
<1>6. P \subseteq K /\ Q \subseteq K
  BY <1>2 DEF Row
<1>7. \A k \in P \cup Q : at[l][k] \notin X
  <2>1. ASSUME NEW k \in P \cup Q, k \in D PROVE FALSE
    <3>1. k \in Int
      BY <1>1, <1>6
    <3>2. k < k
      BY <1>2, <1>4, <2>1 DEF Before
    <3>. QED
      BY <3>1, <3>2
  <2>. QED
    BY <1>5, <1>6, <2>1
<1>8. \A k \in D : Before(P, {k}) /\ Before({k}, Q)
  BY <1>2, <1>4 DEF Before
<1>9. P \cup Q \cup D = S
  BY <1>2, <1>4
<1>10. \A k \in K : k \in S <=> at[l + 1][k] = q
  BY DEF S, Block
<1>11. \E k \in K : at[l][k] = ch[c]
  <2>1. \E k \in Block(at, K, l + 1, q) : at[l][k] = ch[c]
    BY DEF Row
  <2>. QED
    BY <2>1 DEF Block
<1>12. \E k \in K : at[l][k] = ch[d]
  <2>1. \E k \in Block(at, K, l + 1, q) : at[l][k] = ch[d]
    BY <1>1 DEF Row
  <2>. QED
    BY <2>1 DEF Block
<1>13. ch[c] = ch[d] \/ Before(Block(at, K, l, ch[c]), Block(at, K, l, ch[d]))
  BY <1>1 DEF Row
<1>14. ASSUME NEW i \in K, NEW j \in K, NEW k \in K, i < j, j < k, i \in D, k \in D PROVE j \in D
  <2>1. at[l + 1][i] = q /\ at[l + 1][k] = q
    BY <1>9, <1>10, <1>14
  <2>2. at[l + 1][j] = q
    BY <1>1, <1>14, <2>1, Convex, SMTT(20)
  <2>3. j \in P \cup Q \cup D
    BY <1>9, <1>10, <2>2
  <2>4. j \notin P /\ j \notin Q
    <3>1. j \in P => j < i
      BY <1>2, <1>4, <1>14 DEF Before
    <3>2. j \in Q => k < j
      BY <1>2, <1>4, <1>14 DEF Before
    <3>. QED
      BY <1>1, <1>14, <3>1, <3>2
  <2>. QED
    BY <2>3, <2>4
<1>15. Neighbours(at, top, K, l, ch[c], ch[d], q)
  <2>1. \A k \in K : at[l][k] \in X => at[l + 1][k] = q
    BY <1>5, <1>9, <1>10
  <2>2. \A i, j, k \in K :
         i < j /\ j < k /\ at[l][i] \in X /\ at[l][k] \in X => at[l][j] \in X
    BY <1>5, <1>14
  <2>. QED
    BY <1>11, <1>12, <1>13, <2>1, <2>2 DEF Neighbours, X
<1>16. \A k \in K : at[l][k] \in X => Before(P, {k}) /\ Before({k}, Q)
  BY <1>5, <1>8
<1>17. P \cup Q \cup {k \in K : at[l][k] \in X} = Block(at, K, l + 1, q)
  BY <1>9 DEF D, S
<1>. QED
  <2>1. Flanks(at, K, l, q, ch[c], ch[d], SubSeq(ch, 1, c - 1), SubSeq(ch, d + 1, Len(ch)))
    BY <1>2, <1>7, <1>16, <1>17 DEF X, Flanks
  <2>. QED
    BY <1>15, <2>1

----------------------------------------------------------------------------
(* Dealing below a parent *)

\* The children c and d of page q of level l + 1 are neighbours, or the same.
Spot(pg, at, top, M, l, q, c, d) ==
    /\ Tree(pg, at, top, M) /\ l \in 0 .. top /\ l < top
    /\ \E w \in DOMAIN M : at[l + 1][w] = q
    /\ c \in 1 .. Len(pg[q].children) /\ d \in {c, c + 1} /\ d <= Len(pg[q].children)

\* The children of the parent when k entries or children are cut at n and m.
NewRow(ch, c, d, n, m, k, mid) ==
    IF m > n THEN InsertAt(ch, c + 1, mid)
    ELSE IF m < k \/ d = c THEN ch
    ELSE RemoveAt(ch, c + 1)

\* The tree is complete when page q is rebuilt with the children ch.
DealDone(st, q, ch, at, top, M2, l, r, f) ==
    /\ Rebuildable(st, ch)
    /\ \E at2 : /\ Tree([st.pages EXCEPT ![q] = rebuild_internal_keys(st, q, ch)], at2, top, M2)
                /\ RootOK(at2, top, DOMAIN M2, r) /\ FirstOK(at2, DOMAIN M2, f)
                /\ \A i \in Nat : i > l => at2[i] = at[i]
                /\ Row(ch, at2, DOMAIN M2, l, Block(at2, DOMAIN M2, l + 1, q))
                /\ \E w \in DOMAIN M2 : at[l + 1][w] = q

\* What is known where a page is dealt out.
LEMMA SpotFacts ==
    ASSUME NEW pg, NEW at, NEW top, NEW M, NEW l, NEW q, NEW c, NEW d, Spot(pg, at, top, M, l, q, c, d)
    PROVE  /\ Grid(at, top, DOMAIN M, Len(pg)) /\ l \in Nat /\ l < top /\ top \in Nat /\ Len(pg) \in Nat
           /\ l \in 0 .. top /\ l + 1 \in 0 .. top
           /\ \A m \in 0 .. top : Layer(pg, at, M, m)
           /\ Row(pg[q].children, at, DOMAIN M, l, Block(at, DOMAIN M, l + 1, q))
           /\ InnerOK(pg[q], q, l + 1, at, DOMAIN M)
           /\ pg[q].children \in Seq(Int)
           /\ c \in 1 .. Len(pg[q].children) /\ d \in 1 .. Len(pg[q].children)
           /\ d \in {c, c + 1}
           /\ DOMAIN M \subseteq Int
           /\ q \in 1 .. Len(pg)
<1>1. /\ Grid(at, top, DOMAIN M, Len(pg)) /\ l \in 0 .. top /\ l < top
      /\ \A m \in 0 .. top : Layer(pg, at, M, m)
  BY DEF Spot, Tree
<1>2. top \in Nat /\ l \in Nat /\ l + 1 \in 0 .. top /\ l + 1 # 0 /\ Len(pg) \in Nat
  BY <1>1 DEF Grid
<1>3. PICK w \in DOMAIN M : at[l + 1][w] = q
  BY DEF Spot
<1>4. InnerOK(pg[q], q, l + 1, at, DOMAIN M)
  BY <1>1, <1>2, <1>3 DEF Layer, PageOK
<1>5. Row(pg[q].children, at, DOMAIN M, l, Block(at, DOMAIN M, l + 1, q))
  <2>. DEFINE m == l + 1
  <2>1. m - 1 = l
    BY <1>2
  <2>2. InnerOK(pg[q], q, m, at, DOMAIN M)
    BY <1>4
  <2>. HIDE DEF m
  <2>3. Row(pg[q].children, at, DOMAIN M, l, Block(at, DOMAIN M, m, q))
    BY <2>1, <2>2 DEF InnerOK
  <2>. QED
    BY <2>3 DEF m
<1>6. pg[q].children \in Seq(Int)
  BY <1>5 DEF Row
<1>7. c \in 1 .. Len(pg[q].children) /\ d \in 1 .. Len(pg[q].children) /\ d \in {c, c + 1}
  BY <1>6 DEF Spot
<1>8. q \in 1 .. Len(pg) /\ DOMAIN M \subseteq Int
  BY <1>1, <1>2, <1>3, KeysAre DEF Grid
<1>. QED
  BY <1>1, <1>2, <1>4, <1>5, <1>6, <1>7, <1>8

\* k entries or children are cut at n and m; B and C are the keys of the
\* second and of the third part.
Cuts(c, d, n, m, k, B, C) ==
    /\ n \in Nat /\ m \in Nat /\ k \in Nat /\ n <= m /\ m <= k
    /\ (B = {} <=> m = n) /\ (C = {} <=> m = k)
    /\ d = c => m = k
    /\ d # c /\ m > n => m < k

\* NewRow is the children of the parent after the deal.
LEMMA NewRowIs ==
    ASSUME NEW ch \in Seq(Int), NEW c \in 1 .. Len(ch), NEW d \in 1 .. Len(ch), d \in {c, c + 1},
           NEW n, NEW m, NEW k, NEW mid, NEW B, NEW C, Cuts(c, d, n, m, k, B, C)
    PROVE  NewRow(ch, c, d, n, m, k, mid) =
             Replaced(SubSeq(ch, 1, c - 1), ch[c], B, mid, C, ch[d], SubSeq(ch, d + 1, Len(ch)))
<1>. DEFINE s == SubSeq(ch, 1, c - 1)
            u == SubSeq(ch, d + 1, Len(ch))
            a == s \o <<ch[c]>>
<1>0. /\ n \in Nat /\ m \in Nat /\ k \in Nat /\ n <= m /\ m <= k
      /\ (B = {} <=> m = n) /\ (C = {} <=> m = k)
      /\ d = c => m = k
      /\ d # c /\ m > n => m < k
  BY DEF Cuts
<1>1. /\ SubSeq(ch, 1, c) = s \o <<ch[c]>>
      /\ s \in Seq(Int)
      /\ InsertAt(ch, c + 1, mid) = ((s \o <<ch[c]>>) \o <<mid>>) \o SubSeq(ch, c + 1, Len(ch))
      /\ ch = (s \o <<ch[c]>>) \o SubSeq(ch, c + 1, Len(ch))
      /\ c < Len(ch) => SubSeq(ch, c + 1, Len(ch)) = <<ch[c + 1]>> \o SubSeq(ch, c + 2, Len(ch))
      /\ c < Len(ch) => RemoveAt(ch, c + 1) = (s \o <<ch[c]>>) \o SubSeq(ch, c + 2, Len(ch))
  <2>0. s \in Seq(Int) /\ s = SubSeq(ch, 1, c - 1)
    OBVIOUS
  <2>1. SubSeq(ch, 1, c) = s \o <<ch[c]>>
    OBVIOUS
  <2>2. InsertAt(ch, c + 1, mid) = (SubSeq(ch, 1, c) \o <<mid>>) \o SubSeq(ch, c + 1, Len(ch))
    <3>. DEFINE i == c + 1
    <3>1. i - 1 = c
      OBVIOUS
    <3>. HIDE DEF i
    <3>2. InsertAt(ch, i, mid) = (SubSeq(ch, 1, i - 1) \o <<mid>>) \o SubSeq(ch, i, Len(ch))
      BY DEF InsertAt
    <3>3. InsertAt(ch, i, mid) = (SubSeq(ch, 1, c) \o <<mid>>) \o SubSeq(ch, i, Len(ch))
      BY <3>1, <3>2
    <3>. QED
      BY <3>3 DEF i
  <2>3. ch = SubSeq(ch, 1, c) \o SubSeq(ch, c + 1, Len(ch))
    OBVIOUS
  <2>4. ASSUME c < Len(ch) PROVE SubSeq(ch, c + 1, Len(ch)) = <<ch[c + 1]>> \o SubSeq(ch, c + 2, Len(ch))
    BY <2>4
  <2>5. RemoveAt(ch, c + 1) = SubSeq(ch, 1, c) \o SubSeq(ch, c + 2, Len(ch))
    <3>1. c + 1 - 1 = c /\ c + 1 + 1 = c + 2
      OBVIOUS
    <3>. QED
      BY <3>1, SMTT(20) DEF RemoveAt
  <2>. QED
    <3>1. s \in Seq(Int)
      OBVIOUS
    <3>2. InsertAt(ch, c + 1, mid) = ((s \o <<ch[c]>>) \o <<mid>>) \o SubSeq(ch, c + 1, Len(ch))
      BY <2>1, <2>2
    <3>3. ch = (s \o <<ch[c]>>) \o SubSeq(ch, c + 1, Len(ch))
      BY <2>1, <2>3, Zenon
    <3>4. RemoveAt(ch, c + 1) = (s \o <<ch[c]>>) \o SubSeq(ch, c + 2, Len(ch))
      BY <2>1, <2>5, Zenon
    <3>. QED
      BY <2>1, <2>4, <3>1, <3>2, <3>3, <3>4, Zenon
<1>2. a \in Seq(Int) /\ u \in Seq(Int)
  <2>0. s \in Seq(Int)
    BY <1>1, Zenon
  <2>5. ch[c] \in Int
    OBVIOUS
  <2>1. s \in Seq(Int) /\ <<ch[c]>> \in Seq(Int)
    BY <2>0, <2>5
  <2>2. u \in Seq(Int)
    BY Cut
  <2>. HIDE DEF s
  <2>3. s \o <<ch[c]>> \in Seq(Int)
    BY <2>1
  <2>. QED
    BY <2>2, <2>3
<1>3. d = c + 1 => d + 1 = c + 2 /\ c < Len(ch)
  OBVIOUS
<1>4. /\ d = c => ch = a \o u /\ InsertAt(ch, c + 1, mid) = (a \o <<mid>>) \o u
      /\ d # c => /\ ch = a \o (<<ch[d]>> \o u)
                  /\ InsertAt(ch, c + 1, mid) = (a \o <<mid>>) \o (<<ch[d]>> \o u)
                  /\ RemoveAt(ch, c + 1) = a \o u
  <2>1. CASE d = c
    BY <1>1, <2>1
  <2>2. CASE d = c + 1
    <3>1. d # c
      BY <2>2
    <3>. QED
      BY <1>1, <1>3, <2>2, <3>1
  <2>. QED
    BY <2>1, <2>2
<1>. HIDE DEF a, u
<1>5. /\ (a \o <<>>) = a
      /\ (a \o <<mid>>) \o <<>> = a \o <<mid>>
      /\ (a \o <<ch[d]>>) \o u = a \o (<<ch[d]>> \o u)
      /\ ((a \o <<mid>>) \o <<ch[d]>>) \o u = (a \o <<mid>>) \o (<<ch[d]>> \o u)
  <2>. DEFINE T == Int \cup {mid}
  <2>1. a \in Seq(T) /\ u \in Seq(T) /\ <<mid>> \in Seq(T) /\ <<ch[d]>> \in Seq(T)
    BY <1>2
  <2>. HIDE DEF T
  <2>2. a \o <<mid>> \in Seq(T)
    BY <2>1
  <2>3. ASSUME NEW x \in Seq(T) PROVE x \o <<>> = x /\ (x \o <<ch[d]>>) \o u = x \o (<<ch[d]>> \o u)
    BY <2>1, SMTT(20)
  <2>. QED
    BY <2>1, <2>2, <2>3
<1>6. /\ Opt(B, mid) = IF m = n THEN <<>> ELSE <<mid>>
      /\ Opt(C, ch[d]) = IF m = k THEN <<>> ELSE <<ch[d]>>
  BY <1>0 DEF Opt
<1>7. (a \o <<mid>>) \o <<>> = a \o <<mid>> /\ a \o <<>> = a
  BY <1>5
<1>8. CASE m > n /\ d = c
  <2>1. NewRow(ch, c, d, n, m, k, mid) = (a \o <<mid>>) \o u
    BY <1>4, <1>8 DEF NewRow
  <2>2. Opt(B, mid) = <<mid>> /\ Opt(C, ch[d]) = <<>>
    BY <1>0, <1>6, <1>8
  <2>3. ((a \o Opt(B, mid)) \o Opt(C, ch[d])) \o u = (a \o <<mid>>) \o u
    BY <1>7, <2>2
  <2>. QED
    BY <2>1, <2>3 DEF a, u, Replaced
<1>9. CASE m > n /\ d # c
  <2>1. NewRow(ch, c, d, n, m, k, mid) = (a \o <<mid>>) \o (<<ch[d]>> \o u)
    BY <1>4, <1>9 DEF NewRow
  <2>2. Opt(B, mid) = <<mid>> /\ Opt(C, ch[d]) = <<ch[d]>>
    BY <1>0, <1>6, <1>9
  <2>3. ((a \o Opt(B, mid)) \o Opt(C, ch[d])) \o u = (a \o <<mid>>) \o (<<ch[d]>> \o u)
    BY <1>5, <2>2
  <2>. QED
    BY <2>1, <2>3 DEF a, u, Replaced
<1>10. CASE m = n /\ d = c
  <2>1. NewRow(ch, c, d, n, m, k, mid) = a \o u
    BY <1>0, <1>4, <1>10 DEF NewRow
  <2>2. Opt(B, mid) = <<>> /\ Opt(C, ch[d]) = <<>>
    BY <1>0, <1>6, <1>10
  <2>3. ((a \o Opt(B, mid)) \o Opt(C, ch[d])) \o u = a \o u
    BY <1>7, <2>2
  <2>. QED
    BY <2>1, <2>3 DEF a, u, Replaced
<1>11. CASE m = n /\ m < k
  <2>1. NewRow(ch, c, d, n, m, k, mid) = a \o (<<ch[d]>> \o u)
    <3>1. d # c
      BY <1>0, <1>11
    <3>2. ~(m > n)
      BY <1>0, <1>11
    <3>. QED
      BY <1>4, <1>11, <3>1, <3>2, Zenon DEF NewRow
  <2>2. Opt(B, mid) = <<>> /\ Opt(C, ch[d]) = <<ch[d]>>
    BY <1>0, <1>6, <1>11
  <2>3. ((a \o Opt(B, mid)) \o Opt(C, ch[d])) \o u = a \o (<<ch[d]>> \o u)
    BY <1>5, <1>7, <2>2
  <2>. QED
    BY <2>1, <2>3 DEF a, u, Replaced
<1>12. CASE m = n /\ m = k /\ d # c
  <2>1. NewRow(ch, c, d, n, m, k, mid) = a \o u
    BY <1>0, <1>4, <1>12, SMTT(20) DEF NewRow
  <2>2. Opt(B, mid) = <<>> /\ Opt(C, ch[d]) = <<>>
    BY <1>0, <1>6, <1>12
  <2>3. ((a \o Opt(B, mid)) \o Opt(C, ch[d])) \o u = a \o u
    BY <1>7, <2>2
  <2>. QED
    BY <2>1, <2>3 DEF a, u, Replaced
<1>. QED
  <2>1. m > n \/ m = n
    BY <1>0
  <2>2. m < k \/ m = k
    BY <1>0
  <2>. QED
    BY <1>8, <1>9, <1>10, <1>11, <1>12, <2>1, <2>2, Zenon

\* The tree is complete when the parent is rebuilt with its new children.
LEMMA DealFinish ==
    ASSUME NEW pg, NEW at, NEW top, NEW M, NEW l, NEW q, NEW c, NEW d, Spot(pg, at, top, M, l, q, c, d),
           NEW r, NEW f, RootOK(at, top, DOMAIN M, r), FirstOK(at, DOMAIN M, f),
           NEW ch, ch = pg[q].children, NEW st, st.pages \in Seq(AnyPage),
           NEW at2, NEW M2, NEW mid, NEW A, NEW B, NEW C,
           Dealt(at, at2, top, DOMAIN M, DOMAIN M2, Len(pg), Len(st.pages), l, ch[c], mid, ch[d], q, A, B, C),
           DealtPages(pg, st.pages, at, at2, top, M, M2, Len(pg), l, ch[c], ch[d], q, A \cup B \cup C),
           NEW n, NEW m, NEW k, Cuts(c, d, n, m, k, B, C)
    PROVE  DealDone(st, q, NewRow(ch, c, d, n, m, k, mid), at, top, M2, l, r, f)
<1>. DEFINE new == NewRow(ch, c, d, n, m, k, mid)
            K == DOMAIN M
            K2 == DOMAIN M2
            a == ch[c]
            b == ch[d]
            s == SubSeq(ch, 1, c - 1)
            u == SubSeq(ch, d + 1, Len(ch))
            p == rebuild_internal_keys(st, q, new)
            n1 == Len(pg)
            n2 == Len(st.pages)
<1>1. /\ Grid(at, top, K, n1) /\ l \in Nat /\ l < top /\ top \in Nat
      /\ l \in 0 .. top /\ l + 1 \in 0 .. top
      /\ Row(ch, at, K, l, Block(at, K, l + 1, q))
      /\ ch \in Seq(Int)
      /\ c \in 1 .. Len(ch) /\ d \in 1 .. Len(ch) /\ d \in {c, c + 1}
  BY SpotFacts
<1>2. new = Replaced(s, a, B, mid, C, b, u)
  <2>1. /\ ch \in Seq(Int) /\ c \in 1 .. Len(ch) /\ d \in 1 .. Len(ch) /\ d \in {c, c + 1}
        /\ Cuts(c, d, n, m, k, B, C)
    BY <1>1
  <2>. QED
    BY <2>1, NewRowIs, SMTT(20)
<1>3. d <= Len(ch)
  BY <1>1
<1>. HIDE DEF new, a, b, s, u
<1>4. Flanks(at, K, l, q, a, b, s, u)
  BY <1>1, <1>3, Adjacent DEF a, b, s, u
<1>5. Dealt(at, at2, top, K, K2, n1, n2, l, a, mid, b, q, A, B, C)
  BY DEF a, b
<1>6. DealtPages(pg, st.pages, at, at2, top, M, M2, n1, l, a, b, q, A \cup B \cup C)
  BY DEF a, b
<1>7. Row(new, at2, K2, l, Block(at2, K2, l + 1, q))
  BY <1>2, <1>4, <1>5, DealRow
<1>8. /\ Rebuildable(st, new)
      /\ Tree([st.pages EXCEPT ![q] = p], at2, top, M2)
  BY <1>5, <1>6, <1>7, DealTree
<1>9. FirstOK(at2, K2, f)
  BY <1>5, DealFirst
<1>10. \A i \in Nat : i > l => at2[i] = at[i]
  BY <1>1, <1>5 DEF Dealt, Relabels
<1>11. K2 \subseteq K
  BY <1>5 DEF Dealt, Parts
<1>12. RootOK(at2, top, K2, r)
  <2>1. at2[top] = at[top]
    BY <1>1, <1>10
  <2>. QED
    BY <1>11, <2>1 DEF RootOK
<1>13. \E w \in K2 : at[l + 1][w] = q
  <2>1. PICK w \in A : w \in K2 /\ at[l][w] \in {a, b}
    BY <1>5, DealtValues DEF Dealt, Parts
  <2>2. at[l + 1][w] = q
    BY <1>5, <1>11, <2>1 DEF Dealt, Neighbours
  <2>. QED
    BY <2>1, <2>2
<1>. HIDE DEF p
<1>. QED
  BY <1>7, <1>8, <1>9, <1>10, <1>12, <1>13 DEF DealDone, p, new

\* The children in a row are different pages.
LEMMA RowDistinct ==
    ASSUME NEW s, NEW at, NEW K, NEW l, NEW S, Row(s, at, K, l, S), K \subseteq Int,
           NEW i \in 1 .. Len(s), NEW j \in 1 .. Len(s), i # j
    PROVE  s[i] # s[j]
<1>1. Len(s) \in Nat
  BY DEF Row
<1>2. ASSUME NEW x \in 1 .. Len(s), NEW y \in 1 .. Len(s), x < y PROVE s[x] # s[y]
  <2>1. PICK k \in S : at[l][k] = s[x]
    BY DEF Row
  <2>2. k \in K /\ k \in Int
    BY DEF Row
  <2>3. Before(Block(at, K, l, s[x]), Block(at, K, l, s[y]))
    BY <1>2 DEF Row
  <2>4. ASSUME s[x] = s[y] PROVE FALSE
    <3>1. k \in Block(at, K, l, s[x]) /\ k \in Block(at, K, l, s[y])
      BY <2>1, <2>2, <2>4 DEF Block
    <3>2. k < k
      BY <2>3, <3>1 DEF Before
    <3>. QED
      BY <2>2, <3>2
  <2>. QED
    BY <2>4
<1>. QED
  BY <1>1, <1>2

\* Some keys of the leaves a and b are gone.
Shrunk(M, M2, at, a, b) ==
    /\ DOMAIN M2 \subseteq DOMAIN M /\ \A k \in DOMAIN M2 : M2[k] = M[k]
    /\ \A k \in DOMAIN M \ DOMAIN M2 : at[0][k] \in {a, b}

\* The leaves c and d under q hold the entries s of the map M2, cut at n and m,
\* in the file pg2; mid is the new leaf in the middle.
LeafFile(pg, pg2, at, M, M2, ch, q, c, d, s, n, m, mid) ==
    LET a == ch[c]
        b == ch[d]
        next == pg[b].next
    IN  /\ pg2 \in Seq(AnyPage) /\ Len(pg) <= Len(pg2)
        /\ Shrunk(M, M2, at, a, b)
        /\ Held(s, M2, {k \in DOMAIN M2 : at[0][k] \in {a, b}})
        /\ n \in Nat /\ m \in Nat /\ 1 <= n /\ n <= m /\ m <= Len(s)
        /\ d = c => m = Len(s)
        /\ d # c /\ m > n => m < Len(s)
        /\ m > n => mid \in Len(pg) + 1 .. Len(pg2)
        /\ \A p \in 1 .. Len(pg) : p \notin {a, b, q} => pg2[p] = pg[p]
        /\ pg2[a] = Leaf(a, SubSeq(s, 1, n), IF m > n THEN mid ELSE IF m < Len(s) THEN b ELSE next)
        /\ m > n => pg2[mid] = Leaf(mid, SubSeq(s, n + 1, m), IF m < Len(s) THEN b ELSE next)
        /\ m < Len(s) => pg2[b] = Leaf(b, SubSeq(s, m + 1, Len(s)), next)

\* A leaf with the entries of its keys and its next leaf is a page of the tree.
LEMMA LeafIs ==
    ASSUME NEW q, NEW e, NEW n, NEW at, NEW M, Held(e, M, Block(at, DOMAIN M, 0, q)),
           NextOK(at, DOMAIN M, q, n)
    PROVE  PageOK(Leaf(q, e, n), q, 0, at, M)
<1>1. Leaf(q, e, n).entries = e /\ Leaf(q, e, n).next = n
  BY DEF Leaf
<1>. QED
  BY <1>1 DEF PageOK, LeafOK

\* Dealing the entries of leaves out again leaves a tree.
LEMMA LeafDeal ==
    ASSUME NEW pg, NEW at, NEW top, NEW M, NEW q, NEW c, NEW d, Spot(pg, at, top, M, 0, q, c, d),
           NEW r, NEW f, RootOK(at, top, DOMAIN M, r), FirstOK(at, DOMAIN M, f),
           NEW ch, ch = pg[q].children, NEW st, NEW M2, NEW s, NEW n, NEW m, NEW mid,
           LeafFile(pg, st.pages, at, M, M2, ch, q, c, d, s, n, m, mid)
    PROVE  DealDone(st, q, NewRow(ch, c, d, n, m, Len(s), mid), at, top, M2, 0, r, f)
<1>. DEFINE K == DOMAIN M
            K2 == DOMAIN M2
            a == ch[c]
            b == ch[d]
            n1 == Len(pg)
            n2 == Len(st.pages)
            D == {k \in K2 : at[0][k] \in {a, b}}
            next == pg[b].next
            k0 == Len(s)
<1>1. /\ Grid(at, top, K, n1) /\ 0 \in Nat /\ 0 < top /\ top \in Nat /\ n1 \in Nat
      /\ 0 \in 0 .. top /\ 0 + 1 \in 0 .. top
      /\ \A i \in 0 .. top : Layer(pg, at, M, i)
      /\ Row(ch, at, K, 0, Block(at, K, 0 + 1, q))
      /\ ch \in Seq(Int)
      /\ c \in 1 .. Len(ch) /\ d \in 1 .. Len(ch) /\ d \in {c, c + 1}
      /\ K \subseteq Int
  BY SpotFacts, SMTT(20)
<1>2. /\ st.pages \in Seq(AnyPage) /\ n1 <= n2
      /\ Shrunk(M, M2, at, a, b)
      /\ Held(s, M2, D)
      /\ n \in Nat /\ m \in Nat /\ 1 <= n /\ n <= m /\ m <= k0
      /\ d = c => m = k0
      /\ d # c /\ m > n => m < k0
      /\ m > n => mid \in n1 + 1 .. n2
      /\ \A p \in 1 .. n1 : p \notin {a, b, q} => st.pages[p] = pg[p]
      /\ st.pages[a] = Leaf(a, SubSeq(s, 1, n), IF m > n THEN mid ELSE IF m < k0 THEN b ELSE next)
      /\ m > n => st.pages[mid] = Leaf(mid, SubSeq(s, n + 1, m), IF m < k0 THEN b ELSE next)
      /\ m < k0 => st.pages[b] = Leaf(b, SubSeq(s, m + 1, k0), next)
  BY DEF LeafFile
<1>3. k0 \in Nat
  BY <1>2 DEF Held
<1>4. HeldParts(s, M2, D, n, m)
  BY <1>2, HeldCut
<1>5. PICK A, B, C :
        /\ Held(SubSeq(s, 1, n), M2, A)
        /\ Held(SubSeq(s, n + 1, m), M2, B)
        /\ Held(SubSeq(s, m + 1, k0), M2, C)
        /\ D = A \cup B \cup C /\ Before(A, B) /\ Before(B, C) /\ Before(A, C)
        /\ (A = {} <=> n = 0) /\ (B = {} <=> m = n) /\ (C = {} <=> m = k0)
  BY <1>4 DEF HeldParts
<1>6. d # c => a # b
  BY <1>1, RowDistinct
<1>. HIDE DEF a, b, k0, D, next
<1>7. Neighbours(at, top, K, 0, a, b, q)
  <2>1. d <= Len(ch)
    BY <1>1
  <2>. QED
    BY <1>1, <2>1, Adjacent DEF a, b
<1>8. Parts(at, K, K2, 0, a, b, A, B, C)
  <2>1. A # {} /\ (C = {} \/ a # b)
    BY <1>2, <1>5, <1>6
  <2>2. A \cup B \cup C = {k \in K2 : at[0][k] \in {a, b}}
    BY <1>5 DEF D
  <2>3. K2 \subseteq K /\ \A k \in K \ K2 : at[0][k] \in {a, b}
    BY <1>2 DEF Shrunk
  <2>. QED
    BY <1>5, <2>1, <2>2, <2>3 DEF Parts
<1>9. PICK at2 : Dealt(at, at2, top, K, K2, n1, n2, 0, a, mid, b, q, A, B, C)
  <2>1. n2 \in Nat
    BY <1>2
  <2>2. B = {} \/ mid \in n1 + 1 .. n2
    BY <1>2, <1>5
  <2>. QED
    BY <1>1, <1>2, <1>7, <1>8, <2>1, <2>2, Relabelled
<1>10. NextOK(at, K, b, next)
  <2>1. PICK k \in K : at[0][k] = b
    BY <1>7 DEF Neighbours
  <2>2. LeafOK(pg[b], b, at, M)
    BY <1>1, <2>1 DEF Layer, PageOK
  <2>. QED
    BY <2>2 DEF LeafOK, next
<1>11. /\ NextOK(at2, K2, a, IF B # {} THEN mid ELSE IF C # {} THEN b ELSE next)
       /\ B # {} => NextOK(at2, K2, mid, IF C # {} THEN b ELSE next)
       /\ C # {} => NextOK(at2, K2, b, next)
  BY <1>9, <1>10, DealLeaves
<1>12. /\ A = Block(at2, K2, 0, a)
       /\ B # {} => B = Block(at2, K2, 0, mid) /\ mid # a /\ mid # b
       /\ C # {} => C = Block(at2, K2, 0, b) /\ a # b
  BY <1>9, DealBlocks
<1>13. B # {} <=> m > n
  BY <1>2, <1>5
<1>14. C # {} <=> m < k0
  BY <1>2, <1>3, <1>5
<1>15. PageOK(st.pages[a], a, 0, at2, M2)
  BY <1>2, <1>5, <1>11, <1>12, <1>13, <1>14, LeafIs
<1>16. B # {} => PageOK(st.pages[mid], mid, 0, at2, M2)
  BY <1>2, <1>5, <1>11, <1>12, <1>13, <1>14, LeafIs
<1>17. C # {} => PageOK(st.pages[b], b, 0, at2, M2)
  BY <1>2, <1>5, <1>11, <1>12, <1>13, <1>14, LeafIs
<1>18. ASSUME NEW k \in A \cup B \cup C PROVE PageOK(st.pages[at2[0][k]], at2[0][k], 0, at2, M2)
  <2>1. (k \in A => at2[0][k] = a) /\ (k \in B => at2[0][k] = mid) /\ (k \in C => at2[0][k] = b)
    BY <1>9, DealtValues
  <2>2. CASE k \in A
    BY <1>15, <2>1, <2>2
  <2>3. CASE k \in B
    BY <1>16, <2>1, <2>3
  <2>4. CASE k \in C
    BY <1>17, <2>1, <2>4
  <2>. QED
    BY <2>2, <2>3, <2>4
<1>19. DealtPages(pg, st.pages, at, at2, top, M, M2, n1, 0, a, b, q, A \cup B \cup C)
  <2>1. \A k \in K2 : M2[k] = M[k]
    BY <1>2 DEF Shrunk
  <2>2. \A p \in 1 .. n1 : p \notin {a, b, q} => st.pages[p] = pg[p]
    BY <1>2
  <2>3. \A i \in 0 .. top : Layer(pg, at, M, i)
    BY <1>1
  <2>. QED
    BY <1>18, <2>1, <2>2, <2>3 DEF DealtPages
<1>20. Cuts(c, d, n, m, k0, B, C)
  BY <1>2, <1>3, <1>5 DEF Cuts
<1>. HIDE DEF K, K2
<1>21. DealDone(st, q, NewRow(ch, c, d, n, m, k0, mid), at, top, M2, 0, r, f)
  BY <1>2, <1>9, <1>19, <1>20, DealFinish DEF a, b, K, K2
<1>. QED
  BY <1>21 DEF k0

\* Rows and separators of a level depend on that level only.
LEMMA SameLevel ==
    ASSUME NEW at, NEW at2, NEW K, NEW l, at2[l] = at[l]
    PROVE  /\ \A s, S : Row(s, at, K, l, S) => Row(s, at2, K, l, S)
           /\ \A ks, s : Seps(ks, s, at, K, l) => Seps(ks, s, at2, K, l)
<1>1. \A p : Block(at2, K, l, p) = Block(at, K, l, p)
  BY DEF Block
<1>. QED
  BY <1>1, ZenonT(60) DEF Row, Seps

\* p is an inner page of level l with the children s, and separators for them.
InnerAs(p, id, s, at, K, l) == p = Inner(id, s, p.keys) /\ Seps(p.keys, s, at, K, l - 1)

\* The inner pages c and d under q, of level l, have the children s, cut at n
\* and m, in the file pg2; mid is the new page in the middle.
InnerFile(pg, pg2, at, K, l, ch, q, c, d, s, n, m, mid) ==
    LET a == ch[c]
        b == ch[d]
    IN  /\ l # 0 /\ pg2 \in Seq(AnyPage) /\ Len(pg) <= Len(pg2)
        /\ Row(s, at, K, l - 1, {k \in K : at[l][k] \in {a, b}})
        /\ n \in Nat /\ m \in Nat /\ 1 <= n /\ n <= m /\ m <= Len(s)
        /\ d = c => m = Len(s)
        /\ d # c /\ m > n => m < Len(s)
        /\ m > n => mid \in Len(pg) + 1 .. Len(pg2)
        /\ \A p \in 1 .. Len(pg) : p \notin {a, b, q} => pg2[p] = pg[p]
        /\ InnerAs(pg2[a], a, SubSeq(s, 1, n), at, K, l)
        /\ m > n => InnerAs(pg2[mid], mid, SubSeq(s, n + 1, m), at, K, l)
        /\ m < Len(s) => InnerAs(pg2[b], b, SubSeq(s, m + 1, Len(s)), at, K, l)

\* Dealing the children of inner pages out again leaves a tree.
LEMMA InnerDeal ==
    ASSUME NEW pg, NEW at, NEW top, NEW M, NEW l, NEW q, NEW c, NEW d, Spot(pg, at, top, M, l, q, c, d),
           NEW r, NEW f, RootOK(at, top, DOMAIN M, r), FirstOK(at, DOMAIN M, f),
           NEW ch, ch = pg[q].children, NEW st, NEW s, NEW n, NEW m, NEW mid,
           InnerFile(pg, st.pages, at, DOMAIN M, l, ch, q, c, d, s, n, m, mid)
    PROVE  DealDone(st, q, NewRow(ch, c, d, n, m, Len(s), mid), at, top, M, l, r, f)
<1>. DEFINE K == DOMAIN M
            a == ch[c]
            b == ch[d]
            n1 == Len(pg)
            n2 == Len(st.pages)
            D == {k \in K : at[l][k] \in {a, b}}
            k0 == Len(s)
<1>1. /\ Grid(at, top, K, n1) /\ l \in Nat /\ l < top /\ top \in Nat /\ n1 \in Nat
      /\ l \in 0 .. top /\ l + 1 \in 0 .. top
      /\ \A i \in 0 .. top : Layer(pg, at, M, i)
      /\ Row(ch, at, K, l, Block(at, K, l + 1, q))
      /\ ch \in Seq(Int)
      /\ c \in 1 .. Len(ch) /\ d \in 1 .. Len(ch) /\ d \in {c, c + 1}
      /\ K \subseteq Int
  BY SpotFacts
<1>2. /\ st.pages \in Seq(AnyPage) /\ n1 <= n2 /\ l # 0
      /\ Row(s, at, K, l - 1, D)
      /\ n \in Nat /\ m \in Nat /\ 1 <= n /\ n <= m /\ m <= k0
      /\ d = c => m = k0
      /\ d # c /\ m > n => m < k0
      /\ m > n => mid \in n1 + 1 .. n2
      /\ \A p \in 1 .. n1 : p \notin {a, b, q} => st.pages[p] = pg[p]
      /\ InnerAs(st.pages[a], a, SubSeq(s, 1, n), at, K, l)
      /\ m > n => InnerAs(st.pages[mid], mid, SubSeq(s, n + 1, m), at, K, l)
      /\ m < k0 => InnerAs(st.pages[b], b, SubSeq(s, m + 1, k0), at, K, l)
  BY DEF InnerFile
<1>3. k0 \in Nat
  BY <1>2 DEF Row
<1>4. RowParts(s, at, K, l - 1, D, n, m)
  BY <1>2, RowCut
<1>5. PICK A, B, C :
        /\ Row(SubSeq(s, 1, n), at, K, l - 1, A)
        /\ Row(SubSeq(s, n + 1, m), at, K, l - 1, B)
        /\ Row(SubSeq(s, m + 1, k0), at, K, l - 1, C)
        /\ D = A \cup B \cup C /\ Before(A, B) /\ Before(B, C) /\ Before(A, C)
        /\ (A = {} <=> n = 0) /\ (B = {} <=> m = n) /\ (C = {} <=> m = k0)
  BY <1>4 DEF RowParts
<1>6. d # c => a # b
  BY <1>1, RowDistinct
<1>. HIDE DEF a, b, k0, D
<1>7. Neighbours(at, top, K, l, a, b, q)
  <2>1. d <= Len(ch)
    BY <1>1
  <2>. QED
    BY <1>1, <2>1, Adjacent DEF a, b
<1>8. Parts(at, K, K, l, a, b, A, B, C)
  <2>1. A # {} /\ (C = {} \/ a # b)
    BY <1>2, <1>5, <1>6
  <2>2. A \cup B \cup C = {k \in K : at[l][k] \in {a, b}}
    BY <1>5 DEF D
  <2>3. ASSUME NEW e, NEW X, Row(e, at, K, l - 1, X), NEW j \in K, NEW k \in K,
               at[l - 1][j] = at[l - 1][k]
        PROVE  j \in X <=> k \in X
    BY <2>3 DEF Row
  <2>4. \A j, k \in K : at[l - 1][j] = at[l - 1][k] =>
          (j \in A <=> k \in A) /\ (j \in B <=> k \in B) /\ (j \in C <=> k \in C)
    BY <1>5, <2>3
  <2>. QED
    BY <1>5, <2>1, <2>2, <2>4 DEF Parts
<1>9. PICK at2 : Dealt(at, at2, top, K, K, n1, n2, l, a, mid, b, q, A, B, C)
  <2>1. n2 \in Nat
    BY <1>2
  <2>2. B = {} \/ mid \in n1 + 1 .. n2
    BY <1>2, <1>5
  <2>. QED
    BY <1>1, <1>2, <1>7, <1>8, <2>1, <2>2, Relabelled
<1>10. at2[l - 1] = at[l - 1]
  <2>1. l - 1 \in Nat /\ l - 1 # l
    BY <1>1, <1>2
  <2>. QED
    BY <1>9, <2>1 DEF Dealt, Relabels
<1>11. /\ A = Block(at2, K, l, a)
       /\ B # {} => B = Block(at2, K, l, mid) /\ mid # a /\ mid # b
       /\ C # {} => C = Block(at2, K, l, b) /\ a # b
  BY <1>9, DealBlocks
<1>12. ASSUME NEW p, NEW x, NEW e, NEW X, InnerAs(p, x, e, at, K, l), Row(e, at, K, l - 1, X),
              X = Block(at2, K, l, x)
       PROVE  PageOK(p, x, l, at2, M)
  <2>1. p = Inner(x, e, p.keys) /\ Seps(p.keys, e, at, K, l - 1) /\ p.children = e
    BY <1>12 DEF InnerAs, Inner
  <2>2. Seps(p.keys, e, at2, K, l - 1) /\ Row(e, at2, K, l - 1, X)
    BY <1>10, <1>12, <2>1, SameLevel
  <2>. QED
    BY <1>2, <1>12, <2>1, <2>2 DEF PageOK, InnerOK
<1>13. B # {} <=> m > n
  BY <1>2, <1>5
<1>14. C # {} <=> m < k0
  BY <1>2, <1>3, <1>5
<1>15. PageOK(st.pages[a], a, l, at2, M)
  BY <1>2, <1>5, <1>11, <1>12
<1>16. B # {} => PageOK(st.pages[mid], mid, l, at2, M)
  BY <1>2, <1>5, <1>11, <1>12, <1>13
<1>17. C # {} => PageOK(st.pages[b], b, l, at2, M)
  BY <1>2, <1>5, <1>11, <1>12, <1>14
<1>18. ASSUME NEW k \in A \cup B \cup C PROVE PageOK(st.pages[at2[l][k]], at2[l][k], l, at2, M)
  <2>1. (k \in A => at2[l][k] = a) /\ (k \in B => at2[l][k] = mid) /\ (k \in C => at2[l][k] = b)
    BY <1>9, DealtValues
  <2>2. CASE k \in A
    BY <1>15, <2>1, <2>2
  <2>3. CASE k \in B
    BY <1>16, <2>1, <2>3
  <2>4. CASE k \in C
    BY <1>17, <2>1, <2>4
  <2>. QED
    BY <2>2, <2>3, <2>4
<1>19. DealtPages(pg, st.pages, at, at2, top, M, M, n1, l, a, b, q, A \cup B \cup C)
  <2>2. \A p \in 1 .. n1 : p \notin {a, b, q} => st.pages[p] = pg[p]
    BY <1>2
  <2>3. \A i \in 0 .. top : Layer(pg, at, M, i)
    BY <1>1
  <2>. QED
    BY <1>18, <2>2, <2>3 DEF DealtPages
<1>20. Cuts(c, d, n, m, k0, B, C)
  BY <1>2, <1>3, <1>5 DEF Cuts
<1>. HIDE DEF K
<1>21. DealDone(st, q, NewRow(ch, c, d, n, m, k0, mid), at, top, M, l, r, f)
  BY <1>2, <1>9, <1>19, <1>20, DealFinish DEF a, b, K
<1>. QED
  BY <1>21 DEF k0

PageTyped(p, i, n) ==
    /\ p \in AnyPage /\ p.id = i
    /\ IsLeaf(p) => p.next \in 0 .. n
    /\ IsInner(p) => p.children \in Seq(1 .. n) /\ Len(p.keys) = Len(p.children) - 1

FileOK(pg) == pg \in Seq(AnyPage) /\ \A i \in 1 .. Len(pg) : PageTyped(pg[i], i, Len(pg))

IsState(st) ==
    /\ st = [pages |-> st.pages, root |-> st.root, first |-> st.first, err |-> st.err, call |-> st.call]
    /\ FileOK(st.pages)
    /\ st.root \in 1 .. Len(st.pages) /\ st.first \in 1 .. Len(st.pages)

\* u is st after page i was written as p, or after an exception.
Wrote(st, u, i, p) ==
    /\ IsState(u) /\ Len(u.pages) = Len(st.pages)
    /\ u.root = st.root /\ u.first = st.first /\ u.call = st.call
    /\ u.err = "none" =>
         /\ st.err = "none"
         /\ u.pages = [st.pages EXCEPT ![i] = p]
         /\ u.pages[i] = p
         /\ \A j \in 1 .. Len(st.pages) : j # i => u.pages[j] = st.pages[j]

\* A leaf that the code writes.
LEMMA LeafTyped ==
    ASSUME NEW i \in Nat, NEW e \in Seq(Entries), NEW n \in Nat, NEW x \in 0 .. n
    PROVE  PageTyped(Leaf(i, e, x), i, n)
<1>. DEFINE p == Leaf(i, e, x)
<1>1. /\ p \in [id : Nat, type : {"leaf"}, entries : Seq(Entries), next : Nat]
      /\ p.id = i /\ p.next = x /\ p.type = "leaf"
  BY DEF Leaf
<1>. HIDE DEF p
<1>2. ~IsInner(p) /\ p \in AnyPage
  BY <1>1 DEF IsInner, AnyPage
<1>3. PageTyped(p, i, n)
  BY <1>1, <1>2 DEF PageTyped
<1>. QED
  BY <1>3 DEF p

\* An inner page that the code writes.
LEMMA InnerTyped ==
    ASSUME NEW i \in Nat, NEW n \in Nat, NEW ch \in Seq(1 .. n), NEW ks \in Seq(Int), Len(ks) = Len(ch) - 1
    PROVE  PageTyped(Inner(i, ch, ks), i, n)
<1>. DEFINE p == Inner(i, ch, ks)
<1>0. ch \in Seq(Nat)
  OBVIOUS
<1>1. /\ p \in [id : Nat, type : {"inner"}, children : Seq(Nat), keys : Seq(Int)]
      /\ p.id = i /\ p.children = ch /\ p.keys = ks /\ p.type = "inner"
  BY <1>0 DEF Inner
<1>. HIDE DEF p
<1>2. ~IsLeaf(p) /\ p \in AnyPage
  BY <1>1 DEF IsLeaf, AnyPage
<1>3. PageTyped(p, i, n)
  BY <1>1, <1>2 DEF PageTyped
<1>. QED
  BY <1>3 DEF p

\* A page of zeros, as Pager::allocate_page leaves it.
LEMMA ZeroTyped ==
    ASSUME NEW i \in Nat, NEW n \in Nat
    PROVE  PageTyped(ZeroPage(i), i, n)
<1>. DEFINE p == ZeroPage(i)
<1>1. p \in [id : Nat, type : {"zero"}] /\ p.id = i /\ p.type = "zero"
  BY DEF ZeroPage
<1>. HIDE DEF p
<1>2. ~IsLeaf(p) /\ ~IsInner(p) /\ p \in AnyPage
  BY <1>1 DEF IsLeaf, IsInner, AnyPage
<1>3. PageTyped(p, i, n)
  BY <1>1, <1>2 DEF PageTyped
<1>. QED
  BY <1>3 DEF p

\* The first and the last element of a sequence.
LEMMA Ends ==
    ASSUME NEW S, NEW s \in Seq(S), Len(s) >= 1
    PROVE  Head(s) \in S /\ Last(s) \in S /\ Head(s) = s[1] /\ Last(s) = s[Len(s)]
  BY DEF Last

\* What a leaf and an inner page of a file are made of.
LEMMA TypedParts ==
    ASSUME NEW p, NEW i, NEW n, PageTyped(p, i, n)
    PROVE  /\ p.type \in {"leaf", "inner", "zero"} /\ p.id = i /\ i \in Nat
           /\ IsLeaf(p) => p = Leaf(i, p.entries, p.next) /\ p.entries \in Seq(Entries) /\ p.next \in 0 .. n
           /\ IsInner(p) => /\ p = Inner(i, p.children, p.keys) /\ p.keys \in Seq(Int)
                            /\ p.children \in Seq(1 .. n) /\ Len(p.keys) = Len(p.children) - 1
                            /\ Len(p.children) >= 1 /\ Head(p.children) \in 1 .. n
<1>1. p \in AnyPage /\ p.id = i
  BY DEF PageTyped
<1>2. CASE p \in [id : Nat, type : {"leaf"}, entries : Seq(Entries), next : Nat]
  <2>1. p.type = "leaf" /\ i \in Nat /\ p.entries \in Seq(Entries)
    BY <1>1, <1>2
  <2>2. p = Leaf(i, p.entries, p.next)
    BY <1>1, <1>2 DEF Leaf
  <2>3. IsLeaf(p) /\ ~IsInner(p)
    BY <2>1 DEF IsLeaf, IsInner
  <2>. QED
    BY <1>1, <2>1, <2>2, <2>3 DEF PageTyped
<1>3. CASE p \in [id : Nat, type : {"inner"}, children : Seq(Nat), keys : Seq(Int)]
  <2>1. p.type = "inner" /\ i \in Nat /\ p.keys \in Seq(Int)
    BY <1>1, <1>3
  <2>2. p = Inner(i, p.children, p.keys)
    BY <1>1, <1>3 DEF Inner
  <2>3. IsInner(p) /\ ~IsLeaf(p)
    BY <2>1 DEF IsLeaf, IsInner
  <2>4. p.children \in Seq(1 .. n) /\ Len(p.keys) = Len(p.children) - 1
    BY <2>3 DEF PageTyped
  <2>5. Len(p.children) >= 1
    BY <2>1, <2>4
  <2>6. Head(p.children) \in 1 .. n
    <3>. DEFINE V == 1 .. n
    <3>1. p.children \in Seq(V)
      BY <2>4
    <3>. HIDE DEF V
    <3>2. Head(p.children) \in V
      BY <2>5, <3>1, Ends
    <3>. QED
      BY <3>2 DEF V
  <2>. QED
    BY <1>1, <2>1, <2>2, <2>3, <2>4, <2>5, <2>6
<1>4. CASE p \in [id : Nat, type : {"zero"}]
  <2>1. p.type = "zero" /\ i \in Nat
    BY <1>1, <1>4
  <2>2. ~IsInner(p) /\ ~IsLeaf(p)
    BY <2>1 DEF IsLeaf, IsInner
  <2>. QED
    BY <1>1, <2>1, <2>2
<1>. QED
  BY <1>1, <1>2, <1>3, <1>4 DEF AnyPage

\* A page of a file is one of a longer file.
LEMMA TypedMore ==
    ASSUME NEW p, NEW i, NEW n \in Nat, NEW m \in Nat, n <= m, PageTyped(p, i, n)
    PROVE  PageTyped(p, i, m)
<1>1. IsInner(p) => p.children \in Seq(1 .. m)
  <2>1. ASSUME IsInner(p) PROVE p.children \in Seq(1 .. m)
    <3>1. p.children \in Seq(1 .. n)
      BY <2>1 DEF PageTyped
    <3>. QED
      BY <3>1
  <2>. QED
    BY <2>1
<1>. QED
  BY <1>1 DEF PageTyped

\* A file stays one when a page is written.
LEMMA FileWritten ==
    ASSUME NEW pg, FileOK(pg), NEW i \in 1 .. Len(pg), NEW p, PageTyped(p, i, Len(pg))
    PROVE  FileOK([pg EXCEPT ![i] = p]) /\ Len([pg EXCEPT ![i] = p]) = Len(pg)
<1>1. p \in AnyPage
  BY DEF PageTyped
<1>. DEFINE u == [pg EXCEPT ![i] = p]
<1>2. Len(u) = Len(pg) /\ u[i] = p /\ \A j \in 1 .. Len(pg) : j # i => u[j] = pg[j]
  BY Written DEF FileOK
<1>3. u \in Seq(AnyPage)
  BY <1>1 DEF FileOK
<1>. HIDE DEF u
<1>4. FileOK(u)
  BY <1>2, <1>3 DEF FileOK
<1>. QED
  BY <1>2, <1>4 DEF u

\* What write_page leaves: the page is written, or an exception.
LEMMA WriteFacts ==
    ASSUME NEW st, IsState(st), NEW i \in 1 .. Len(st.pages), NEW p, PageTyped(p, i, Len(st.pages))
    PROVE  Wrote(st, write_page(st, p), i, p)
<1>. DEFINE u == write_page(st, p)
<1>1. p.id = i
  BY DEF PageTyped
<1>2. CASE st.err # "none"
  <2>1. u = st
    BY <1>2 DEF write_page
  <2>. QED
    BY <1>2, <2>1 DEF Wrote
<1>3. CASE st.err = "none" /\ u = Throw(st, "overflow")
  <2>1. /\ u.err = "overflow" /\ u.pages = st.pages /\ u.root = st.root /\ u.first = st.first
        /\ u.call = st.call
        /\ u = [pages |-> st.pages, root |-> st.root, first |-> st.first, err |-> "overflow", call |-> st.call]
    BY <1>3 DEF Throw, IsState
  <2>. HIDE DEF u
  <2>2. IsState(u)
    BY <2>1 DEF IsState
  <2>. QED
    BY <2>1, <2>2 DEF Wrote, u
<1>4. CASE st.err = "none" /\ u = [st EXCEPT !.pages[p.id] = p]
  <2>. DEFINE v == [st.pages EXCEPT ![i] = p]
  <2>1. FileOK(v) /\ Len(v) = Len(st.pages)
    BY FileWritten DEF IsState
  <2>2. v[i] = p /\ \A j \in 1 .. Len(st.pages) : j # i => v[j] = st.pages[j]
    BY Written DEF IsState, FileOK
  <2>3. u = [st EXCEPT !.pages = v]
    BY <1>1, <1>4 DEF IsState
  <2>. HIDE DEF u, v
  <2>4. /\ u = [pages |-> v, root |-> st.root, first |-> st.first, err |-> st.err, call |-> st.call]
    BY <2>3 DEF IsState
  <2>5. u.pages = v /\ u.root = st.root /\ u.first = st.first /\ u.err = st.err /\ u.call = st.call
    BY <2>4
  <2>6. IsState(u)
    BY <2>1, <2>4, <2>5 DEF IsState
  <2>. QED
    BY <1>4, <2>1, <2>2, <2>5, <2>6 DEF Wrote, u, v
<1>. QED
  BY <1>2, <1>3, <1>4 DEF write_page

\* What allocate_node_page leaves: the same pages and one of zeros.
LEMMA AllocFacts ==
    ASSUME NEW st, IsState(st)
    PROVE  /\ IsState(allocate_node_page(st))
           /\ NextId(st) = Len(st.pages) + 1 /\ Len(st.pages) \in Nat
           /\ Len(allocate_node_page(st).pages) = Len(st.pages) + 1
           /\ \A j \in 1 .. Len(st.pages) : allocate_node_page(st).pages[j] = st.pages[j]
           /\ allocate_node_page(st).pages[Len(st.pages) + 1] = ZeroPage(Len(st.pages) + 1)
           /\ allocate_node_page(st).root = st.root /\ allocate_node_page(st).first = st.first
           /\ allocate_node_page(st).err = st.err /\ allocate_node_page(st).call = st.call
<1>. DEFINE n == Len(st.pages)
            z == ZeroPage(n + 1)
            v == Append(st.pages, z)
            u == allocate_node_page(st)
<1>1. n \in Nat /\ st.pages \in Seq(AnyPage) /\ \A j \in 1 .. n : PageTyped(st.pages[j], j, n)
  BY DEF IsState, FileOK
<1>2. PageTyped(z, n + 1, n + 1)
  BY <1>1, ZeroTyped
<1>3. NextId(st) = n + 1
  BY DEF NextId
<1>. HIDE DEF z
<1>4. z \in AnyPage
  BY <1>2 DEF PageTyped
<1>5. v \in Seq(AnyPage) /\ Len(v) = n + 1 /\ v[n + 1] = z /\ \A j \in 1 .. n : v[j] = st.pages[j]
  BY <1>1, <1>4
<1>6. u = [st EXCEPT !.pages = v]
  BY <1>3 DEF allocate_node_page, z, IsState
<1>. HIDE DEF v, u, n
<1>7. FileOK(v)
  <2>1. ASSUME NEW j \in 1 .. n + 1 PROVE PageTyped(v[j], j, n + 1)
    <3>1. CASE j = n + 1
      BY <1>2, <1>5, <3>1
    <3>2. CASE j # n + 1
      <4>1. j \in 1 .. n /\ n \in Nat /\ n + 1 \in Nat /\ n <= n + 1
        BY <1>1, <3>2
      <4>. QED
        BY <1>1, <1>5, <4>1, TypedMore
    <3>. QED
      BY <3>1, <3>2
  <2>. QED
    BY <1>5, <2>1 DEF FileOK
<1>8. u = [pages |-> v, root |-> st.root, first |-> st.first, err |-> st.err, call |-> st.call]
  BY <1>6 DEF IsState
<1>9. u.pages = v /\ u.root = st.root /\ u.first = st.first /\ u.err = st.err /\ u.call = st.call
  BY <1>8
<1>10. u.root \in 1 .. n + 1 /\ u.first \in 1 .. n + 1
  BY <1>1, <1>9 DEF IsState, n
<1>11. IsState(u)
  BY <1>5, <1>7, <1>8, <1>9, <1>10 DEF IsState
<1>. QED
  BY <1>1, <1>3, <1>5, <1>9, <1>11 DEF u, z, n

\* g applies step N times, from p on.
Iterates(g, V, step, p, N) ==
    g \in [0 .. N -> V] /\ g[0] = p /\ \A i \in 1 .. N : g[i] = step[g[i - 1]]
CanIterate(V, step, p, N) == \E g : Iterates(g, V, step, p, N)

\* A step repeated.
LEMMA Iterated ==
    ASSUME NEW V, NEW step \in [V -> V], NEW p \in V, NEW N \in Nat
    PROVE  CanIterate(V, step, p, N)
<1>. DEFINE Good(m) == CanIterate(V, step, p, m)
            T == {m \in Nat : ~Good(m)}
<1>1. Good(0)
  <2>. DEFINE g == [i \in 0 .. 0 |-> p]
  <2>1. g \in [0 .. 0 -> V] /\ g[0] = p /\ 1 .. 0 = {}
    OBVIOUS
  <2>. HIDE DEF g
  <2>2. Iterates(g, V, step, p, 0)
    BY <2>1 DEF Iterates
  <2>. QED
    BY <2>2 DEF CanIterate
<1>2. ASSUME NEW m \in Nat, Good(m) PROVE Good(m + 1)
  <2>0. PICK g : Iterates(g, V, step, p, m)
    BY <1>2 DEF CanIterate
  <2>1. g \in [0 .. m -> V] /\ g[0] = p /\ \A i \in 1 .. m : g[i] = step[g[i - 1]]
    BY <2>0 DEF Iterates
  <2>. DEFINE h == [i \in 0 .. m + 1 |-> IF i = m + 1 THEN step[g[m]] ELSE g[i]]
  <2>2. h \in [0 .. m + 1 -> V]
    <3>1. \A i \in 0 .. m + 1 : i = m + 1 \/ i \in 0 .. m
      OBVIOUS
    <3>2. m \in 0 .. m
      OBVIOUS
    <3>. QED
      BY <2>1, <3>1, <3>2
  <2>3. h[0] = p
    BY <2>1
  <2>4. ASSUME NEW i \in 1 .. m + 1 PROVE h[i] = step[h[i - 1]]
    <3>1. h[i - 1] = g[i - 1]
      OBVIOUS
    <3>2. CASE i = m + 1
      <4>0. m + 1 \in 0 .. m + 1 /\ i - 1 = m
        BY <3>2
      <4>2. h[m + 1] = step[g[m]]
        BY <4>0, Zenon
      <4>1. h[i] = step[g[m]] /\ i - 1 = m
        BY <3>2, <4>0, <4>2
      <4>. HIDE DEF h
      <4>. QED
        BY <3>1, <4>1
    <3>3. CASE i # m + 1
      BY <2>1, <3>1, <3>3
    <3>. QED
      BY <3>2, <3>3
  <2>. HIDE DEF h
  <2>5. Iterates(h, V, step, p, m + 1)
    BY <2>2, <2>3, <2>4 DEF Iterates
  <2>. QED
    BY <2>5 DEF CanIterate
<1>3. ASSUME T # {} PROVE FALSE
  <2>1. T \in SUBSET Nat
    OBVIOUS
  <2>. HIDE DEF T
  <2>2. PICK y \in T : \A z \in T : y <= z
    BY <1>3, <2>1, LeastNatural
  <2>3. y \in Nat /\ ~Good(y)
    BY DEF T
  <2>4. y # 0
    BY <1>1, <2>3
  <2>5. y - 1 \in Nat /\ y - 1 \notin T
    BY <2>2, <2>3, <2>4
  <2>6. Good(y - 1)
    BY <2>5 DEF T
  <2>. HIDE DEF Good
  <2>7. Good(y - 1 + 1)
    BY <1>2, <2>5, <2>6
  <2>8. y - 1 + 1 = y
    BY <2>3
  <2>. QED
    BY <2>3, <2>7, <2>8
<1>. QED
  BY <1>3

\* leftmost_leaf returns a page of the file.
LEMMA LeftmostTyped ==
    ASSUME NEW pg, FileOK(pg), NEW p \in 1 .. Len(pg)
    PROVE  leftmost_leaf(pg, p) \in 1 .. Len(pg)
<1>. DEFINE N == Len(pg)
            V == 1 .. N
            step == [q \in V |-> IF IsInner(pg[q]) THEN Head(pg[q].children) ELSE q]
            G(f) == [i \in 0 .. N |-> IF i = 0 THEN p
                      ELSE LET q == f[i - 1]
                           IN  IF IsInner(pg[q]) THEN Head(pg[q].children) ELSE q]
            f == CHOOSE h : h = G(h)
<1>1. leftmost_leaf(pg, p) = f[N]
  BY DEF leftmost_leaf
<1>2. N \in Nat
  BY DEF FileOK
<1>3. step \in [V -> V]
  <2>1. ASSUME NEW q \in V, IsInner(pg[q]) PROVE Head(pg[q].children) \in V
    BY <2>1, TypedParts DEF FileOK
  <2>. QED
    BY <2>1
<1>4. PICK g \in [0 .. N -> V] : g[0] = p /\ \A i \in 1 .. N : g[i] = step[g[i - 1]]
  <2>. HIDE DEF step, V, N
  <2>1. p \in V
    BY DEF V, N
  <2>. QED
    <3>1. CanIterate(V, step, p, N)
      BY <1>2, <1>3, <2>1, Iterated
    <3>. QED
      BY <3>1 DEF CanIterate, Iterates
<1>5. g = G(g)
  <2>1. ASSUME NEW i \in 1 .. N
        PROVE g[i] = LET q == g[i - 1] IN IF IsInner(pg[q]) THEN Head(pg[q].children) ELSE q
    <3>1. g[i - 1] \in V
      BY <1>2
    <3>. QED
      BY <1>4, <3>1
  <2>2. \A i \in 0 .. N : i = 0 \/ i \in 1 .. N
    BY <1>2
  <2>3. g = [i \in 0 .. N |-> g[i]]
    BY Zenon
  <2>. HIDE DEF step
  <2>. QED
    BY <1>4, <2>1, <2>2, <2>3
<1>6. f = G(f)
  BY <1>5, Zenon
<1>. HIDE DEF f
<1>7. f[0] = p /\ \A i \in 1 .. N : f[i] = LET q == f[i - 1] IN IF IsInner(pg[q]) THEN Head(pg[q].children) ELSE q
  <2>. HIDE DEF N
  <2>1. 0 \in 0 .. N
    BY <1>2
  <2>2. f[0] = p
    BY <1>6, <2>1, Zenon
  <2>3. ASSUME NEW i \in 1 .. N
        PROVE  f[i] = LET q == f[i - 1] IN IF IsInner(pg[q]) THEN Head(pg[q].children) ELSE q
    <3>1. i \in 0 .. N /\ i # 0
      BY <1>2
    <3>. QED
      BY <1>6, <3>1, Zenon
  <2>. QED
    BY <2>2, <2>3
<1>. DEFINE T == {x \in 0 .. N : f[x] \notin V}
<1>8. ASSUME T # {} PROVE FALSE
  <2>1. T \in SUBSET Nat
    OBVIOUS
  <2>. HIDE DEF T, step
  <2>2. PICK y \in T : \A z \in T : y <= z
    BY <1>8, <2>1, LeastNatural
  <2>3. y \in 0 .. N /\ f[y] \notin V
    BY DEF T
  <2>4. y # 0
    BY <1>7, <2>3
  <2>5. y \in 1 .. N /\ y - 1 \in 0 .. N /\ y - 1 \notin T
    BY <1>2, <2>1, <2>2, <2>3, <2>4
  <2>6. f[y - 1] \in V
    BY <2>5 DEF T
  <2>7. f[y] = LET q == f[y - 1] IN IF IsInner(pg[q]) THEN Head(pg[q].children) ELSE q
    BY <1>7, <2>5
  <2>8. step[f[y - 1]] = f[y]
    BY <2>6, <2>7 DEF step
  <2>. QED
    BY <1>3, <2>3, <2>6, <2>8
<1>9. f[N] \in V
  BY <1>2, <1>8
<1>. QED
  BY <1>1, <1>9

\* A function on 1 .. m is a sequence.
LEMMA SeqIs ==
    ASSUME NEW S, NEW m \in Nat, NEW s \in [1 .. m -> S]
    PROVE  s \in Seq(S)
  OBVIOUS

\* A row has pages of the file.
LEMMA RowTyped ==
    ASSUME NEW s, NEW at, NEW K, NEW l, NEW S, Row(s, at, K, l, S), NEW top, NEW n, Grid(at, top, K, n),
           l \in 0 .. top
    PROVE  s \in Seq(1 .. n)
<1>1. s \in Seq(Int)
  BY DEF Row
<1>2. ASSUME NEW i \in 1 .. Len(s) PROVE s[i] \in 1 .. n
  <2>1. PICK k \in S : at[l][k] = s[i]
    BY DEF Row
  <2>2. k \in K
    BY DEF Row
  <2>. QED
    BY <2>1, <2>2 DEF Grid
<1>3. Len(s) \in Nat /\ s \in [1 .. Len(s) -> Int]
  BY <1>1
<1>4. s \in [1 .. Len(s) -> 1 .. n]
  BY <1>2, <1>3
<1>. QED
  BY <1>1, <1>3, <1>4, SeqIs

\* The least key below a page is an integer.
LEMMA MinTyped ==
    ASSUME NEW pg, FileOK(pg), NEW p \in 1 .. Len(pg), HasMin(pg, p)
    PROVE  subtree_min_entry(pg, p) \in Int
<1>. DEFINE q == leftmost_leaf(pg, p)
<1>1. q \in 1 .. Len(pg)
  BY LeftmostTyped
<1>2. IsLeaf(pg[q]) /\ pg[q].entries # <<>>
  BY DEF HasMin
<1>. HIDE DEF q
<1>3. PageTyped(pg[q], q, Len(pg))
  BY <1>1 DEF FileOK
<1>4. pg[q].entries \in Seq(Entries)
  BY <1>2, <1>3, TypedParts
<1>5. Head(pg[q].entries) \in Entries
  BY <1>2, <1>4
<1>6. Head(pg[q].entries).key \in Int
  BY <1>5, KeysAre DEF Entries
<1>. QED
  BY <1>6 DEF q, subtree_min_entry

\* rebuild_internal_keys makes an inner page.
LEMMA RebuiltTyped ==
    ASSUME NEW st, IsState(st), NEW id \in 1 .. Len(st.pages), NEW ch \in Seq(1 .. Len(st.pages)),
           ch # <<>>, Rebuildable(st, ch)
    PROVE  PageTyped(rebuild_internal_keys(st, id, ch), id, Len(st.pages))
<1>. DEFINE ks == [i \in 1 .. Len(ch) - 1 |-> subtree_min_entry(st.pages, ch[i + 1])]
            n == Len(st.pages)
<1>1. FileOK(st.pages) /\ n \in Nat /\ Len(ch) \in Nat /\ Len(ch) >= 1
  BY DEF IsState, FileOK
<1>2. ASSUME NEW i \in 1 .. Len(ch) - 1 PROVE subtree_min_entry(st.pages, ch[i + 1]) \in Int
  <2>1. i + 1 \in 2 .. Len(ch) /\ i + 1 \in 1 .. Len(ch)
    BY <1>1
  <2>2. ch[i + 1] \in 1 .. Len(st.pages)
    BY <2>1
  <2>3. HasMin(st.pages, ch[i + 1])
    BY <2>1 DEF Rebuildable
  <2>. QED
    BY <1>1, <2>2, <2>3, MinTyped
<1>3. ks \in Seq(Int) /\ Len(ks) = Len(ch) - 1
  BY <1>1, <1>2
<1>4. rebuild_internal_keys(st, id, ch) = Inner(id, ch, ks)
  BY DEF rebuild_internal_keys
<1>. HIDE DEF ks
<1>5. id \in Nat
  BY <1>1
<1>. QED
  BY <1>1, <1>3, <1>4, <1>5, InnerTyped

\* An exception leaves pages and members as they are.
LEMMA ThrowFacts ==
    ASSUME NEW st, IsState(st), NEW e
    PROVE  IsState(Throw(st, e)) /\ Throw(st, e).err = e /\ Throw(st, e).pages = st.pages
           /\ Throw(st, e).root = st.root /\ Throw(st, e).first = st.first /\ Throw(st, e).call = st.call
<1>. DEFINE u == Throw(st, e)
<1>1. u = [pages |-> st.pages, root |-> st.root, first |-> st.first, err |-> e, call |-> st.call]
  BY DEF Throw, IsState
<1>. HIDE DEF u
<1>2. u.err = e /\ u.pages = st.pages /\ u.root = st.root /\ u.first = st.first /\ u.call = st.call
  BY <1>1
<1>3. IsState(u)
  BY <1>1, <1>2 DEF IsState
<1>. QED
  BY <1>2, <1>3 DEF u

\* The call of a function leaves pages and members as they are.
LEMMA ThenFacts ==
    ASSUME NEW st, IsState(st), st.err = "none", NEW call
    PROVE  IsState(Then(st, call)) /\ Then(st, call).err = "none" /\ Then(st, call).pages = st.pages
           /\ Then(st, call).root = st.root /\ Then(st, call).first = st.first
           /\ Then(st, call).call = call
<1>. DEFINE u == Then(st, call)
<1>1. u = [pages |-> st.pages, root |-> st.root, first |-> st.first, err |-> st.err, call |-> call]
  BY DEF Then, IsState
<1>. HIDE DEF u
<1>2. u.err = "none" /\ u.pages = st.pages /\ u.root = st.root /\ u.first = st.first /\ u.call = call
  BY <1>1
<1>3. IsState(u)
  BY <1>1, <1>2 DEF IsState
<1>. QED
  BY <1>2, <1>3 DEF u

\* After an exception nothing is written.
LEMMA WroteNot ==
    ASSUME NEW st, IsState(st), NEW i, NEW p, st.err # "none"
    PROVE  Wrote(st, st, i, p)
  BY DEF Wrote

\* What rebuild_internal_keys and write_page leave.
LEMMA WriteRebuiltFacts ==
    ASSUME NEW st, IsState(st), NEW id \in 1 .. Len(st.pages), NEW ch \in Seq(1 .. Len(st.pages)),
           ch # <<>>
    PROVE  /\ Wrote(st, WriteRebuilt(st, id, ch), id, rebuild_internal_keys(st, id, ch))
           /\ WriteRebuilt(st, id, ch).err = "none" => Rebuildable(st, ch)
<1>1. CASE st.err # "none"
  BY <1>1, WroteNot DEF WriteRebuilt
<1>2. CASE st.err = "none" /\ ~Rebuildable(st, ch)
  <2>1. WriteRebuilt(st, id, ch) = Throw(st, "corrupt")
    BY <1>2 DEF WriteRebuilt
  <2>2. /\ IsState(Throw(st, "corrupt")) /\ Throw(st, "corrupt").err = "corrupt"
        /\ Throw(st, "corrupt").pages = st.pages
        /\ Throw(st, "corrupt").root = st.root /\ Throw(st, "corrupt").first = st.first
        /\ Throw(st, "corrupt").call = st.call
    BY ThrowFacts
  <2>. QED
    BY <2>1, <2>2 DEF Wrote
<1>3. CASE st.err = "none" /\ Rebuildable(st, ch)
  <2>1. WriteRebuilt(st, id, ch) = write_page(st, rebuild_internal_keys(st, id, ch))
    BY <1>3 DEF WriteRebuilt
  <2>2. PageTyped(rebuild_internal_keys(st, id, ch), id, Len(st.pages))
    BY <1>3, RebuiltTyped
  <2>. QED
    BY <1>3, <2>1, <2>2, WriteFacts
<1>. QED
  BY <1>1, <1>2, <1>3

----------------------------------------------------------------------------
(* The end of a rewriting: the parent gets its new children *)

\* The path to page q of level l.
PathAll(path, at, top, K, l, q) == \A w \in K : at[l][w] = q => PathIs(path, at, top, l, w)

\* The function that waits has its node, which the file does not have yet.
Waits(pg, r, f, call, M) ==
    \E at, top, l, w :
      /\ Pend(pg, r, f, call, M, at, top, l, w)
      /\ PageTyped(call.node, at[l][w], Len(pg))
      /\ \/ call.fn = "split_leaf" /\ l = 0 /\ Len(call.node.entries) >= 2
         \/ call.fn = "split_internal" /\ l > 0 /\ Len(call.node.children) >= 2
         \/ call.fn = "fix_internal_underflow" /\ l > 0 /\ l < top

\* The state u is as the map M wants it, or an exception has ended the call.
Good(u, M) ==
    /\ IsState(u)
    /\ u.err = "none" => \/ u.call = NoCall /\ Settled(u.pages, u.root, u.first, M)
                         \/ u.call # NoCall /\ Waits(u.pages, u.root, u.first, u.call, M)

Stands(u, at, top, M) ==
    /\ IsState(u) /\ u.call = NoCall /\ u.err = "none"
    /\ Tree(u.pages, at, top, M) /\ RootOK(at, top, DOMAIN M, u.root) /\ FirstOK(at, DOMAIN M, u.first)

\* A tree that stands ends the call.
LEMMA StandsGood ==
    ASSUME NEW u, NEW at, NEW top, NEW M, Stands(u, at, top, M)
    PROVE  Good(u, M)
  BY DEF Stands, Good, Settled

\* An exception ends the call.
LEMMA ErrGood ==
    ASSUME NEW u, IsState(u), u.err # "none", NEW M
    PROVE  Good(u, M)
  BY DEF Good

\* The pages of a tree.
LEMMA TreePages ==
    ASSUME NEW pg, NEW at, NEW top, NEW M, Tree(pg, at, top, M)
    PROVE  /\ Grid(at, top, DOMAIN M, Len(pg)) /\ top \in Nat /\ Len(pg) \in Nat /\ DOMAIN M # {}
           /\ DOMAIN M \subseteq Keys /\ DOMAIN M \subseteq Int
           /\ \A l \in 0 .. top, k \in DOMAIN M : at[l][k] \in 1 .. Len(pg) /\ PageOK(pg[at[l][k]], at[l][k], l, at, M)
<1>1. Grid(at, top, DOMAIN M, Len(pg)) /\ DOMAIN M # {} /\ \A l \in 0 .. top : Layer(pg, at, M, l)
  BY DEF Tree
<1>2. top \in Nat /\ Len(pg) \in Nat /\ DOMAIN M \subseteq Keys /\ DOMAIN M \subseteq Int
  BY <1>1, KeysAre DEF Grid
<1>3. \A l \in 0 .. top, k \in DOMAIN M : at[l][k] \in 1 .. Len(pg)
  BY <1>1 DEF Grid
<1>4. \A l \in 0 .. top, k \in DOMAIN M : PageOK(pg[at[l][k]], at[l][k], l, at, M)
  BY <1>1 DEF Layer
<1>. QED
  BY <1>1, <1>2, <1>3, <1>4

\* One page of a tree is written again.
LEMMA Rewritten ==
    ASSUME NEW pg \in Seq(AnyPage), NEW at, NEW top, NEW M, Tree(pg, at, top, M), NEW l \in 0 .. top,
           NEW w \in DOMAIN M, NEW p, PageOK(p, at[l][w], l, at, M)
    PROVE  Tree([pg EXCEPT ![at[l][w]] = p], at, top, M)
<1>. DEFINE q == at[l][w]
            v == [pg EXCEPT ![q] = p]
<1>1. /\ Grid(at, top, DOMAIN M, Len(pg)) /\ DOMAIN M # {}
      /\ \A m \in 0 .. top, k \in DOMAIN M : at[m][k] \in 1 .. Len(pg) /\ PageOK(pg[at[m][k]], at[m][k], m, at, M)
  BY TreePages
<1>2. q \in 1 .. Len(pg)
  BY <1>1
<1>. HIDE DEF q
<1>3. Len(v) = Len(pg) /\ v[q] = p /\ \A j \in 1 .. Len(pg) : j # q => v[j] = pg[j]
  BY <1>2, Written
<1>. HIDE DEF v
<1>4. ASSUME NEW m \in 0 .. top, NEW k \in DOMAIN M PROVE PageOK(v[at[m][k]], at[m][k], m, at, M)
  <2>1. CASE at[m][k] = q
    <3>1. m = l
      BY <1>1, <2>1, Apart DEF q
    <3>2. PageOK(p, q, l, at, M)
      BY DEF q
    <3>. QED
      BY <1>3, <2>1, <3>1, <3>2
  <2>2. CASE at[m][k] # q
    <3>1. v[at[m][k]] = pg[at[m][k]]
      BY <1>1, <1>3, <2>2
    <3>2. PageOK(pg[at[m][k]], at[m][k], m, at, M)
      BY <1>1
    <3>. QED
      BY <3>1, <3>2
  <2>. QED
    BY <2>1, <2>2
<1>5. \A m \in 0 .. top : Layer(v, at, M, m)
  BY <1>4 DEF Layer
<1>6. Tree(v, at, top, M)
  BY <1>1, <1>3, <1>5 DEF Tree
<1>. QED
  BY <1>6 DEF v, q

\* The separator left of a page becomes the least key below the page.
LEMMA SepMoved ==
    ASSUME NEW s, NEW at, NEW K, NEW l, NEW S, Row(s, at, K, l, S), NEW ks, Seps(ks, s, at, K, l),
           K \subseteq Int, NEW c \in 2 .. Len(s), NEW x \in Block(at, K, l, s[c]),
           \A k \in Block(at, K, l, s[c]) : x <= k
    PROVE  Seps([ks EXCEPT ![c - 1] = x], s, at, K, l)
<1>. DEFINE d == c - 1
            us == [ks EXCEPT ![d] = x]
<1>1. s \in Seq(Int) /\ ks \in Seq(Int) /\ Len(ks) = Len(s) - 1 /\ Len(s) \in Nat
  BY DEF Row, Seps
<1>2. d \in 1 .. Len(ks) /\ d + 1 = c /\ d \in Int /\ c \in 1 .. Len(s)
  BY <1>1
<1>3. x \in Int /\ x \in K
  BY DEF Block
<1>. HIDE DEF d
<1>4. us \in Seq(Int) /\ Len(us) = Len(ks) /\ us[d] = x /\ \A i \in 1 .. Len(ks) : i # d => us[i] = ks[i]
  BY <1>1, <1>2, <1>3, SMTT(20)
<1>. HIDE DEF us
<1>5. \A k \in Block(at, K, l, s[d]) : k < x
  <2>1. d \in 1 .. Len(s) /\ d < c
    BY <1>1, <1>2
  <2>2. Before(Block(at, K, l, s[d]), Block(at, K, l, s[c]))
    BY <1>2, <2>1 DEF Row
  <2>. QED
    BY <2>2 DEF Before
<1>6. ASSUME NEW i \in 1 .. Len(ks)
      PROVE  /\ \A k \in Block(at, K, l, s[i]) : k < us[i]
             /\ \A k \in Block(at, K, l, s[i + 1]) : us[i] <= k
  <2>1. CASE i = d
    BY <1>2, <1>4, <1>5, <2>1
  <2>2. CASE i # d
    BY <1>4, <2>2 DEF Seps
  <2>. QED
    BY <2>1, <2>2
<1>7. \A i \in 1 .. Len(s) : \E k \in K : k \in Block(at, K, l, s[i]) /\ k \in Int
  BY DEF Row, Block
<1>8. ASSUME NEW i \in 1 .. Len(us), NEW j \in 1 .. Len(us), i < j PROVE us[i] < us[j]
  <2>0. i \in 1 .. Len(ks) /\ j \in 1 .. Len(ks) /\ i \in Int /\ j \in Int
    BY <1>4
  <2>1. CASE j = d
    <3>0. i # d /\ i + 1 <= d /\ i + 1 \in 1 .. Len(s) /\ d \in 1 .. Len(s)
      BY <1>1, <1>2, <1>8, <2>0, <2>1
    <3>1. i # d /\ i + 1 <= d /\ i + 1 \in 1 .. Len(s) /\ us[i] = ks[i] /\ i \in 1 .. Len(ks) /\ d \in 1 .. Len(s)
      BY <1>4, <2>0, <3>0
    <3>2. PICK k \in K : k \in Block(at, K, l, s[i + 1]) /\ k \in Int
      BY <1>7, <3>1
    <3>5. ks[i] \in Int
      BY <1>1, <3>1, SMTT(20)
    <3>6. ks[i] <= k
      BY <3>1, <3>2 DEF Seps
    <3>3. ks[i] <= k /\ ks[i] \in Int
      BY <3>5, <3>6
    <3>4. k < x
      <4>1. CASE i + 1 = d
        BY <1>5, <3>2, <4>1
      <4>2. CASE i + 1 # d
        <5>1. i + 1 < c
          BY <1>2, <3>1, <4>2
        <5>2. Before(Block(at, K, l, s[i + 1]), Block(at, K, l, s[c]))
          BY <1>2, <3>1, <5>1 DEF Row
        <5>. QED
          BY <3>2, <5>2 DEF Before
      <4>. QED
        BY <4>1, <4>2
    <3>. QED
      BY <1>3, <1>4, <2>1, <3>1, <3>2, <3>3, <3>4, SMTT(20)
  <2>2. CASE i = d
    <3>0. j # d /\ d < j
      BY <1>2, <1>8, <2>0, <2>2
    <3>5. ks \in Seq(Int) /\ d \in 1 .. Len(ks)
      BY <1>1, <1>2
    <3>6. ks[j] \in Int
      BY <2>0, <3>5
    <3>7. ks[d] \in Int
      BY <3>5
    <3>4. ks[j] \in Int /\ ks[d] \in Int
      BY <3>6, <3>7
    <3>1. j # d /\ j \in 1 .. Len(ks) /\ us[j] = ks[j] /\ d < j /\ ks[j] \in Int /\ ks[d] \in Int
      BY <1>4, <2>0, <3>0, <3>4
    <3>2. x < ks[j]
      <4>0. Len(ks) \in Nat /\ Len(s) \in Nat /\ Len(ks) = Len(s) - 1
        BY <1>1
      <4>1. j \in 1 .. Len(s) /\ c <= j
        BY <1>2, <2>0, <3>0, <4>0
      <4>2. CASE j = c
        BY <3>1, <4>2 DEF Seps
      <4>3. CASE j # c
        <5>1. PICK k \in K : k \in Block(at, K, l, s[j]) /\ k \in Int
          BY <1>7, <4>1
        <5>2. k < ks[j]
          BY <3>1, <5>1 DEF Seps
        <5>3. c < j
          BY <1>1, <4>1, <4>3
        <5>4. Before(Block(at, K, l, s[c]), Block(at, K, l, s[j]))
          BY <1>2, <4>1, <5>3 DEF Row
        <5>5. x < k
          BY <5>1, <5>4 DEF Before
        <5>. QED
          BY <1>3, <3>1, <5>1, <5>2, <5>5
      <4>. QED
        BY <4>2, <4>3
    <3>. QED
      BY <1>4, <2>2, <3>1, <3>2
  <2>3. CASE i # d /\ j # d
    <3>1. us[i] = ks[i] /\ us[j] = ks[j] /\ i \in 1 .. Len(ks) /\ j \in 1 .. Len(ks)
      BY <1>4, <2>3
    <3>. QED
      BY <1>8, <3>1 DEF Seps
  <2>. QED
    BY <2>1, <2>2, <2>3
<1>9. Seps(us, s, at, K, l)
  BY <1>1, <1>4, <1>6, <1>8 DEF Seps
<1>. QED
  BY <1>9 DEF us, d

PathFacts(path, at, top, l, w) ==
    /\ Len(path) = top + 1 - l /\ Len(path) \in Nat /\ Len(path) >= 1
    /\ \A i \in 1 .. top + 1 - l : path[i] = at[top + 1 - i][w]
    /\ \A m \in 0 .. top : l <= m => path[top + 1 - m] = at[m][w]
    /\ path[Len(path)] = at[l][w]

\* The pages of a path.
LEMMA PathParts ==
    ASSUME NEW path, NEW at, NEW top, top \in Nat, NEW l, l \in 0 .. top, NEW w, PathIs(path, at, top, l, w)
    PROVE  PathFacts(path, at, top, l, w)
<1>. DEFINE N == top + 1 - l
<1>1. N \in Nat /\ N >= 1
  OBVIOUS
<1>. HIDE DEF N
<1>2. path = [i \in 1 .. N |-> at[top + 1 - i][w]]
  BY DEF PathIs, N
<1>3. Len(path) = N /\ \A i \in 1 .. N : path[i] = at[top + 1 - i][w]
  BY <1>1, <1>2
<1>4. ASSUME NEW m \in 0 .. top, l <= m PROVE path[top + 1 - m] = at[m][w]
  <2>1. top + 1 - m \in 1 .. N /\ top + 1 - (top + 1 - m) = m
    BY <1>4 DEF N
  <2>2. path[top + 1 - m] = at[top + 1 - (top + 1 - m)][w]
    BY <1>3, <2>1
  <2>. QED
    BY <2>1, <2>2
<1>5. top + 1 - l = N
  BY DEF N
<1>6. path[Len(path)] = at[l][w]
  BY <1>3, <1>4, <1>5, SMTT(20)
<1>. QED
  BY <1>1, <1>3, <1>4, <1>5, <1>6 DEF PathFacts

\* The inner page above a page of a lower level.
LEMMA InnerHere ==
    ASSUME NEW pg, NEW at, NEW top, NEW M, Tree(pg, at, top, M), NEW m \in 0 .. top, m # top,
           NEW w \in DOMAIN M
    PROVE  /\ m \in Nat /\ m + 1 \in 0 .. top /\ m + 1 # 0
           /\ InnerOK(pg[at[m + 1][w]], at[m + 1][w], m + 1, at, DOMAIN M)
           /\ IsInner(pg[at[m + 1][w]]) /\ ~IsLeaf(pg[at[m + 1][w]])
           /\ pg[at[m + 1][w]].id = at[m + 1][w]
           /\ Row(pg[at[m + 1][w]].children, at, DOMAIN M, m, Block(at, DOMAIN M, m + 1, at[m + 1][w]))
           /\ Seps(pg[at[m + 1][w]].keys, pg[at[m + 1][w]].children, at, DOMAIN M, m)
           /\ \E j \in 1 .. Len(pg[at[m + 1][w]].children) : pg[at[m + 1][w]].children[j] = at[m][w]
<1>. DEFINE q == at[m + 1][w]
            p == pg[q]
            h == m + 1
<1>1. top \in Nat
  BY TreePages
<1>2. m \in Nat /\ h \in 0 .. top /\ h # 0 /\ h - 1 = m
  BY <1>1
<1>. HIDE DEF h
<1>3. PageOK(pg[at[h][w]], at[h][w], h, at, M)
  BY <1>2, TreePages
<1>4. q = at[h][w]
  BY DEF h
<1>. HIDE DEF q
<1>5. InnerOK(p, q, h, at, DOMAIN M)
  BY <1>2, <1>3, <1>4 DEF PageOK
<1>. HIDE DEF p
<1>6. p = Inner(q, p.children, p.keys) /\ Row(p.children, at, DOMAIN M, m, Block(at, DOMAIN M, h, q))
      /\ Seps(p.keys, p.children, at, DOMAIN M, m)
  BY <1>2, <1>5 DEF InnerOK
<1>7. p.id = q /\ p.type = "inner"
  BY <1>6 DEF Inner
<1>8. IsInner(p) /\ ~IsLeaf(p)
  BY <1>7 DEF IsInner, IsLeaf
<1>9. w \in Block(at, DOMAIN M, h, q)
  BY <1>4 DEF Block
<1>10. \E j \in 1 .. Len(p.children) : p.children[j] = at[m][w]
  BY <1>6, <1>9 DEF Row
<1>. QED
  BY <1>2, <1>5, <1>6, <1>7, <1>8, <1>10 DEF q, p, h

\* ChildIndex finds a child.
LEMMA ChildIndexIs ==
    ASSUME NEW p, NEW x, NEW j \in 1 .. Len(p.children), p.children[j] = x
    PROVE  /\ ChildIndex(p, x) \in 1 .. Len(p.children) /\ p.children[ChildIndex(p, x)] = x
  BY Zenon DEF ChildIndex

\* After an exception propagate_subtree_min_change does nothing.
LEMMA PropagateErr ==
    ASSUME NEW st, st.err # "none", NEW path
    PROVE  propagate_subtree_min_change(st, path) = st
  BY ZenonT(60) DEF propagate_subtree_min_change

\* The separator that propagate_subtree_min_change writes.
LEMMA PropagateWrite ==
    ASSUME NEW st, NEW at, NEW top, NEW M, Stands(st, at, top, M), NEW m \in 0 .. top, m # top,
           NEW w \in DOMAIN M, NEW parent, parent = st.pages[at[m + 1][w]],
           Head(parent.children) # at[m][w], NEW c, c = ChildIndex(parent, at[m][w])
    PROVE  Good(write_page(st, [parent EXCEPT !.keys[c - 1] = subtree_min_entry(st.pages, at[m][w])]), M)
<1>. DEFINE q == at[m + 1][w]
            x == subtree_min_entry(st.pages, at[m][w])
            p == [parent EXCEPT !.keys[c - 1] = x]
            pg == st.pages
            n == Len(pg)
            h == m + 1
            ks == [parent.keys EXCEPT ![c - 1] = x]
            u == write_page(st, p)
<1>1. /\ IsState(st) /\ st.call = NoCall /\ st.err = "none" /\ Tree(pg, at, top, M)
      /\ RootOK(at, top, DOMAIN M, st.root) /\ FirstOK(at, DOMAIN M, st.first)
  BY SMTT(20) DEF Stands
<1>2. /\ h \in 0 .. top /\ h # 0 /\ m \in Nat /\ h - 1 = m
      /\ InnerOK(parent, q, h, at, DOMAIN M)
      /\ Row(parent.children, at, DOMAIN M, m, Block(at, DOMAIN M, h, q))
      /\ Seps(parent.keys, parent.children, at, DOMAIN M, m)
      /\ \E j \in 1 .. Len(parent.children) : parent.children[j] = at[m][w]
  BY <1>1, InnerHere, SMTT(20)
<1>3. /\ Grid(at, top, DOMAIN M, n) /\ n \in Nat /\ top \in Nat /\ DOMAIN M \subseteq Int
      /\ pg \in Seq(AnyPage) /\ q \in 1 .. n /\ at[m][w] \in 1 .. n
      /\ \A l \in 0 .. top : Layer(pg, at, M, l)
  <2>1. pg \in Seq(AnyPage)
    BY <1>1 DEF IsState, FileOK
  <2>. QED
    BY <1>1, <1>2, <2>1, TreePages DEF Tree
<1>4. c \in 1 .. Len(parent.children) /\ parent.children[c] = at[m][w]
  BY <1>2, ChildIndexIs
<1>5. c \in 2 .. Len(parent.children)
  <2>1. parent.children \in Seq(Int)
    BY <1>2, Zenon DEF Row
  <2>2. Head(parent.children) = parent.children[1]
    BY <1>4, <2>1
  <2>3. c # 1
    BY <1>4, <2>2, Zenon
  <2>. DEFINE z == parent.children
  <2>4. c \in 1 .. Len(z) /\ Len(z) \in Nat
    BY ONLY <1>4, <2>1
  <2>. HIDE DEF z
  <2>5. c \in 2 .. Len(z)
    BY ONLY <2>3, <2>4
  <2>. QED
    BY <2>5, Zenon DEF z
<1>6. /\ x \in Block(at, DOMAIN M, m, at[m][w])
      /\ \A y \in Block(at, DOMAIN M, m, at[m][w]) : x <= y
  <2>1. Below0(pg, at, top, M, m, n)
    <3>1. \A i \in 0 .. m : i \in 0 .. top
      <4>1. m \in 0 .. top
        OBVIOUS
      <4>2. top \in Nat
        BY <1>3, Zenon
      <4>. QED
        BY ONLY <4>1, <4>2
    <3>. QED
      BY <1>2, <1>3, <3>1 DEF Below0
  <2>. QED
    BY <2>1, SubtreeMin
<1>7. Seps(ks, parent.children, at, DOMAIN M, m)
  <2>. HIDE DEF x
  <2>. QED
    BY <1>2, <1>3, <1>4, <1>5, <1>6, SepMoved, Zenon
<1>8. p = Inner(q, parent.children, ks)
  <2>1. p = [parent EXCEPT !.keys = ks]
    BY Zenon
  <2>2. parent = Inner(q, parent.children, parent.keys)
    BY <1>2, ZenonT(60) DEF InnerOK
  <2>. HIDE DEF p, ks, q
  <2>. QED
    BY <2>1, <2>2 DEF Inner
<1>. HIDE DEF ks, x, p, h
<1>9. InnerOK(p, q, h, at, DOMAIN M)
  <2>1. p.children = parent.children /\ p.keys = ks
    BY <1>8 DEF Inner
  <2>. QED
    BY <1>2, <1>7, <1>8, <2>1, Zenon DEF InnerOK
<1>10. Tree([pg EXCEPT ![q] = p], at, top, M)
  <2>1. q = at[h][w]
    BY SMTT(20) DEF h
  <2>2. PageOK(p, at[h][w], h, at, M)
    BY <1>2, <1>9, <2>1, SMTT(20) DEF PageOK
  <2>3. Tree([pg EXCEPT ![at[h][w]] = p], at, top, M)
    BY <1>1, <1>2, <1>3, <2>2, Rewritten
  <2>. QED
    BY <2>1, <2>3
<1>11. PageTyped(p, q, n)
  <2>1. parent.children \in Seq(1 .. n)
    <3>1. m \in 0 .. top
      OBVIOUS
    <3>. QED
      BY <1>2, <1>3, RowTyped, SMTT(20)
  <2>2. ks \in Seq(Int) /\ Len(ks) = Len(parent.children) - 1
    BY <1>7 DEF Seps
  <2>3. q \in Nat
    BY <1>3
  <2>. HIDE DEF n, q
  <2>. QED
    BY <1>3, <1>8, <2>1, <2>2, <2>3, InnerTyped
<1>12. Wrote(st, u, q, p)
  BY <1>1, <1>3, <1>11, WriteFacts
<1>. HIDE DEF u, q
<1>13. ASSUME u.err # "none" PROVE Good(u, M)
  <2>1. IsState(u)
    BY <1>12 DEF Wrote
  <2>. QED
    BY <1>13, <2>1, ErrGood
<1>14. ASSUME u.err = "none" PROVE Good(u, M)
  <2>1. Stands(u, at, top, M)
    BY <1>1, <1>10, <1>12, <1>14 DEF Stands, Wrote
  <2>. QED
    BY <2>1, StandsGood
<1>15. Good(u, M)
  BY <1>13, <1>14, Zenon
<1>. QED
  BY <1>15 DEF u, p, x

\* propagate_subtree_min_change leaves a tree of the same entries.
LEMMA PropagateGood ==
    ASSUME NEW st, NEW at, NEW top, NEW M, Stands(st, at, top, M), NEW path, NEW l \in 0 .. top,
           NEW w \in DOMAIN M, PathIs(path, at, top, l, w)
    PROVE  Good(propagate_subtree_min_change(st, path), M)
<1>. DEFINE N == Len(path)
            turns == {i \in 1 .. N - 1 : Head(st.pages[path[i]].children) # path[i + 1]}
            i == Max(turns)
            parent == st.pages[path[i]]
            c == ChildIndex(parent, path[i + 1])
            r == propagate_subtree_min_change(st, path)
<1>1. top \in Nat /\ Tree(st.pages, at, top, M) /\ st.err = "none" /\ IsState(st)
  BY TreePages DEF Stands
<1>2. N = top + 1 - l /\ N \in Nat /\ N >= 1 /\ \A j \in 1 .. top + 1 - l : path[j] = at[top + 1 - j][w]
  <2>1. top \in Nat /\ l \in 0 .. top /\ PathIs(path, at, top, l, w)
    BY <1>1
  <2>3. PathFacts(path, at, top, l, w)
    BY <2>1, PathParts
  <2>2. /\ Len(path) = top + 1 - l /\ Len(path) \in Nat /\ Len(path) >= 1
        /\ \A j \in 1 .. top + 1 - l : path[j] = at[top + 1 - j][w]
    BY <2>3 DEF PathFacts
  <2>. QED
    BY <2>2
<1>3. CASE r = st
  BY <1>3, StandsGood
<1>4. CASE r = Throw(st, "corrupt")
  BY <1>1, <1>4, ThrowFacts, ErrGood, SMTT(20)
<1>5. CASE /\ turns # {}
           /\ r = write_page(st, [parent EXCEPT !.keys[c - 1] = subtree_min_entry(st.pages, path[i + 1])])
  <2>1. turns \subseteq 1 .. N - 1 /\ turns \subseteq Int /\ IsFiniteSet(turns)
    <3>1. turns \subseteq 1 .. N - 1
      OBVIOUS
    <3>2. IsFiniteSet(1 .. N - 1)
      BY <1>2, FS_Interval
    <3>. HIDE DEF turns
    <3>. QED
      BY <1>2, <3>1, <3>2, FS_Subset
  <2>2. i \in turns
    <3>. HIDE DEF turns
    <3>. QED
      BY <1>5, <2>1, Extremes, Zenon
  <2>3. i \in 1 .. N - 1 /\ Head(st.pages[path[i]].children) # path[i + 1]
    BY <2>2, Zenon
  <2>. HIDE DEF turns, i
  <2>. DEFINE m == top - i
  <2>4. m \in 0 .. top /\ m # top /\ i \in 1 .. top + 1 - l /\ i + 1 \in 1 .. top + 1 - l
        /\ top + 1 - i = m + 1 /\ top + 1 - (i + 1) = m
    BY <1>1, <1>2, <2>3
  <2>5. path[i] = at[m + 1][w] /\ path[i + 1] = at[m][w]
    <3>1. path[i] = at[top + 1 - i][w] /\ path[i + 1] = at[top + 1 - (i + 1)][w]
      BY <1>2, <2>4, SMTT(20)
    <3>. HIDE DEF m
    <3>. QED
      BY <2>4, <3>1
  <2>. HIDE DEF m
  <2>6. Good(write_page(st, [parent EXCEPT !.keys[c - 1] = subtree_min_entry(st.pages, at[m][w])]), M)
    <3>1. parent = st.pages[at[m + 1][w]] /\ c = ChildIndex(parent, at[m][w])
          /\ Head(parent.children) # at[m][w]
      BY <2>3, <2>5, Zenon
    <3>. HIDE DEF parent, c
    <3>. QED
      BY <2>4, <3>1, PropagateWrite
  <2>. QED
    BY <1>5, <2>5, <2>6
<1>6. \/ r = st \/ r = Throw(st, "corrupt")
      \/ /\ turns # {}
         /\ r = write_page(st, [parent EXCEPT !.keys[c - 1] = subtree_min_entry(st.pages, path[i + 1])])
  BY Zenon DEF propagate_subtree_min_change
<1>. QED
  BY <1>3, <1>4, <1>5, <1>6, Zenon

\* In state u page q of level l + 1 is to be rebuilt with the children ch, and
\* then the pages are those of the map M2.
Ready(u, q, ch, at, top, M, M2, l, path) ==
    /\ IsState(u) /\ u.call = NoCall /\ q \in 1 .. Len(u.pages)
    /\ l \in Nat /\ l < top /\ top \in Nat /\ DOMAIN M2 \subseteq DOMAIN M
    /\ PathAll(path, at, top, DOMAIN M, l + 1, q)
    /\ u.err = "none" => DealDone(u, q, ch, at, top, M2, l, u.root, u.first)

ReadyAt(u, q, ch, at2, top, M2, l, path, w) ==
    /\ IsState(u) /\ u.call = NoCall /\ u.err = "none" /\ q \in 1 .. Len(u.pages)
    /\ Rebuildable(u, ch)
    /\ Tree([u.pages EXCEPT ![q] = rebuild_internal_keys(u, q, ch)], at2, top, M2)
    /\ RootOK(at2, top, DOMAIN M2, u.root) /\ FirstOK(at2, DOMAIN M2, u.first)
    /\ w \in DOMAIN M2 /\ at2[l + 1][w] = q /\ PathIs(path, at2, top, l + 1, w)
    /\ ch \in Seq(1 .. Len(u.pages)) /\ ch # <<>>
    /\ l \in 0 .. top /\ l # top /\ l + 1 \in 0 .. top /\ top \in Nat
    /\ Row(ch, at2, DOMAIN M2, l, Block(at2, DOMAIN M2, l + 1, q))
IsReady(u, q, ch, top, M2, l, path) == \E at2, w : ReadyAt(u, q, ch, at2, top, M2, l, path, w)

\* The pages of a state.
LEMMA FilePages ==
    ASSUME NEW u, IsState(u)
    PROVE  FileOK(u.pages) /\ u.pages \in Seq(AnyPage) /\ Len(u.pages) \in Nat
  BY DEF IsState, FileOK

\* The tree that the rebuilt parent completes, and a key below the parent.
LEMMA ReadyFacts ==
    ASSUME NEW u, NEW q, NEW ch, NEW at, NEW top, NEW M, NEW M2, NEW l, NEW path,
           Ready(u, q, ch, at, top, M, M2, l, path), u.err = "none"
    PROVE  IsReady(u, q, ch, top, M2, l, path)
<1>. DEFINE p == rebuild_internal_keys(u, q, ch)
            v == [u.pages EXCEPT ![q] = p]
            n == Len(u.pages)
            K2 == DOMAIN M2
<1>1. /\ IsState(u) /\ u.call = NoCall /\ q \in 1 .. n /\ l \in Nat /\ l < top /\ top \in Nat
      /\ K2 \subseteq DOMAIN M /\ PathAll(path, at, top, DOMAIN M, l + 1, q)
      /\ DealDone(u, q, ch, at, top, M2, l, u.root, u.first)
  BY DEF Ready
<1>2. PICK at2 :
        /\ Tree(v, at2, top, M2) /\ RootOK(at2, top, K2, u.root) /\ FirstOK(at2, K2, u.first)
        /\ \A i \in Nat : i > l => at2[i] = at[i]
        /\ Row(ch, at2, K2, l, Block(at2, K2, l + 1, q))
        /\ \E w \in K2 : at[l + 1][w] = q
  BY <1>1 DEF DealDone
<1>3. PICK w \in K2 : at[l + 1][w] = q
  BY <1>2
<1>4. Rebuildable(u, ch)
  BY <1>1 DEF DealDone
<1>5. l + 1 \in Nat /\ l + 1 > l /\ l + 1 \in 0 .. top /\ l \in 0 .. top /\ l # top
  BY <1>1
<1>6. at2[l + 1][w] = q
  BY <1>2, <1>3, <1>5
<1>7. Len(v) = n /\ n \in Nat
  <2>1. u.pages \in Seq(AnyPage) /\ n \in Nat
    BY <1>1, FilePages
  <2>. HIDE DEF p
  <2>. QED
    BY <1>1, <2>1, Written
<1>. HIDE DEF v, p
<1>8. Grid(at2, top, K2, n)
  BY <1>2, <1>7 DEF Tree
<1>9. ch \in Seq(1 .. n)
  BY <1>2, <1>5, <1>8, RowTyped
<1>10. ch # <<>>
  <2>1. w \in Block(at2, K2, l + 1, q)
    BY <1>6 DEF Block
  <2>2. \E i \in 1 .. Len(ch) : at2[l][w] = ch[i]
    BY <1>2, <2>1 DEF Row
  <2>. QED
    BY <1>9, <2>2
<1>11. PathIs(path, at2, top, l + 1, w)
  <2>1. path = [i \in 1 .. top + 1 - (l + 1) |-> at[top + 1 - i][w]]
    BY <1>1, <1>3 DEF PathAll, PathIs
  <2>2. ASSUME NEW i \in 1 .. top + 1 - (l + 1) PROVE at[top + 1 - i][w] = at2[top + 1 - i][w]
    <3>1. top + 1 - i \in Nat /\ top + 1 - i > l
      BY <1>1
    <3>. QED
      BY <1>2, <3>1
  <2>3. path = [i \in 1 .. top + 1 - (l + 1) |-> at2[top + 1 - i][w]]
    BY <2>1, <2>2
  <2>. QED
    BY <2>3 DEF PathIs
<1>12. ReadyAt(u, q, ch, at2, top, M2, l, path, w)
  BY <1>1, <1>2, <1>4, <1>5, <1>6, <1>9, <1>10, <1>11 DEF ReadyAt, v, p
<1>. QED
  BY <1>12 DEF IsReady

\* With the parent rebuilt and written the tree stands.
LEMMA RebuiltStands ==
    ASSUME NEW u, NEW q, NEW ch, NEW at2, NEW top, NEW M2, NEW l, NEW path, NEW w,
           ReadyAt(u, q, ch, at2, top, M2, l, path, w)
    PROVE  /\ IsState(WriteRebuilt(u, q, ch))
           /\ WriteRebuilt(u, q, ch).err = "none" => Stands(WriteRebuilt(u, q, ch), at2, top, M2)
<1>. DEFINE v == WriteRebuilt(u, q, ch)
            p == rebuild_internal_keys(u, q, ch)
<1>1. /\ IsState(u) /\ q \in 1 .. Len(u.pages) /\ ch \in Seq(1 .. Len(u.pages)) /\ ch # <<>>
  BY DEF ReadyAt
<1>2. Wrote(u, v, q, p)
  BY <1>1, WriteRebuiltFacts
<1>. HIDE DEF v, p
<1>3. ASSUME v.err = "none" PROVE Stands(v, at2, top, M2)
  BY <1>2, <1>3 DEF Wrote, Stands, ReadyAt, p
<1>4. IsState(v)
  BY <1>2 DEF Wrote
<1>. QED
  BY <1>3, <1>4 DEF v

\* rebuild_internal_keys and write_page end the work.
LEMMA RebuildEnd ==
    ASSUME NEW u, NEW q, NEW ch, NEW at, NEW top, NEW M, NEW M2, NEW l, NEW path,
           Ready(u, q, ch, at, top, M, M2, l, path)
    PROVE  Good(WriteRebuilt(u, q, ch), M2)
<1>1. IsState(u)
  BY DEF Ready
<1>2. CASE u.err # "none"
  <2>1. WriteRebuilt(u, q, ch) = u
    BY <1>2 DEF WriteRebuilt
  <2>. QED
    BY <1>1, <1>2, <2>1, ErrGood
<1>3. CASE u.err = "none"
  <2>1. IsReady(u, q, ch, top, M2, l, path)
    BY <1>3, ReadyFacts
  <2>2. PICK at2, w : ReadyAt(u, q, ch, at2, top, M2, l, path, w)
    BY <2>1 DEF IsReady
  <2>. DEFINE v == WriteRebuilt(u, q, ch)
  <2>3. IsState(v) /\ (v.err = "none" => Stands(v, at2, top, M2))
    BY <2>2, RebuiltStands
  <2>. HIDE DEF v
  <2>4. ASSUME v.err # "none" PROVE Good(v, M2)
    BY <2>3, <2>4, ErrGood
  <2>5. ASSUME v.err = "none" PROVE Good(v, M2)
    BY <2>3, <2>5, StandsGood
  <2>6. Good(v, M2)
    BY <2>4, <2>5
  <2>. QED
    BY <2>6 DEF v
<1>. QED
  BY <1>2, <1>3

\* And then the change of the least key is passed upwards.
LEMMA PropagateEnd ==
    ASSUME NEW u, NEW q, NEW ch, NEW at, NEW top, NEW M, NEW M2, NEW l, NEW path,
           Ready(u, q, ch, at, top, M, M2, l, path)
    PROVE  Good(propagate_subtree_min_change(WriteRebuilt(u, q, ch), path), M2)
<1>. DEFINE v == WriteRebuilt(u, q, ch)
            r == propagate_subtree_min_change(v, path)
<1>1. IsState(u)
  BY DEF Ready
<1>2. ASSUME v.err # "none", IsState(v) PROVE Good(r, M2)
  <2>. HIDE DEF v
  <2>1. r = v
    BY <1>2, PropagateErr
  <2>. QED
    BY <1>2, <2>1, ErrGood
<1>3. ASSUME u.err # "none" PROVE Good(r, M2)
  <2>1. v = u
    BY <1>3 DEF WriteRebuilt
  <2>. QED
    BY <1>1, <1>2, <1>3, <2>1
<1>4. ASSUME u.err = "none" PROVE Good(r, M2)
  <2>1. IsReady(u, q, ch, top, M2, l, path)
    BY <1>4, ReadyFacts
  <2>2. PICK at2, w : ReadyAt(u, q, ch, at2, top, M2, l, path, w)
    BY <2>1 DEF IsReady
  <2>3. IsState(v) /\ (v.err = "none" => Stands(v, at2, top, M2))
    BY <2>2, RebuiltStands
  <2>. HIDE DEF v
  <2>4. ASSUME v.err = "none" PROVE Good(r, M2)
    <3>1. l + 1 \in 0 .. top /\ w \in DOMAIN M2 /\ PathIs(path, at2, top, l + 1, w)
      BY <2>2 DEF ReadyAt
    <3>2. Stands(v, at2, top, M2)
      BY <2>3, <2>4
    <3>. DEFINE h == l + 1
    <3>3. h \in 0 .. top /\ PathIs(path, at2, top, h, w)
      BY <3>1
    <3>. HIDE DEF h
    <3>. QED
      BY <3>1, <3>2, <3>3, PropagateGood
  <2>. QED
    BY <1>2, <2>3, <2>4
<1>5. Good(r, M2)
  BY <1>3, <1>4
<1>. QED
  BY <1>5 DEF r, v

\* What rebuild_internal_keys makes; with one child it does not overflow.
LEMMA RebuiltParts ==
    ASSUME NEW st, NEW id, NEW ch \in Seq(Int), ch # <<>>
    PROVE  LET p == rebuild_internal_keys(st, id, ch)
           IN  /\ p.id = id /\ p.children = ch /\ IsInner(p) /\ ~IsLeaf(p)
               /\ inner_overflow(p) => Len(ch) >= 2
<1>. DEFINE p == rebuild_internal_keys(st, id, ch)
            ks == [i \in 1 .. Len(ch) - 1 |-> subtree_min_entry(st.pages, ch[i + 1])]
<1>1. p = Inner(id, ch, ks)
  BY DEF rebuild_internal_keys
<1>2. Len(ch) \in Nat /\ Len(ch) >= 1
  OBVIOUS
<1>3. Len(ch) = 1 => ks = <<>>
  BY <1>2
<1>. HIDE DEF p, ks
<1>4. p.id = id /\ p.children = ch /\ p.type = "inner" /\ p.keys = ks
  BY <1>1 DEF Inner
<1>5. IsInner(p) /\ ~IsLeaf(p)
  BY <1>4 DEF IsInner, IsLeaf
<1>6. ASSUME Len(ch) = 1 PROVE ~inner_overflow(p)
  <2>1. p.keys = <<>> /\ Len(p.children) = 1
    BY <1>3, <1>4, <1>6
  <2>2. Inner(1, <<1>>, <<>>).keys = <<>> /\ Len(Inner(1, <<1>>, <<>>).children) = 1
    BY DEF Inner
  <2>3. ~inner_overflow(Inner(1, <<1>>, <<>>))
    BY IndexAssumption DEF IndexAssumption
  <2>. QED
    BY <2>1, <2>2, <2>3 DEF inner_overflow
<1>7. ASSUME inner_overflow(p) PROVE Len(ch) >= 2
  <2>1. Len(ch) # 1
    BY <1>6, <1>7
  <2>2. \A x \in Nat : x >= 1 /\ x # 1 => x >= 2
    OBVIOUS
  <2>. QED
    BY <1>2, <2>1, <2>2, Zenon
<1>. QED
  BY <1>4, <1>5, <1>7 DEF p

\* The parent waits to be split, or for fix_internal_underflow.
LEMMA WaitsInner ==
    ASSUME NEW u, NEW q, NEW ch, NEW at2, NEW top, NEW M2, NEW l, NEW path, NEW w,
           ReadyAt(u, q, ch, at2, top, M2, l, path, w), NEW fn,
           \/ fn = "split_internal" /\ Len(ch) >= 2
           \/ fn = "fix_internal_underflow" /\ l + 1 < top
    PROVE  Good(Then(u, Call(fn, rebuild_internal_keys(u, q, ch), path)), M2)
<1>. DEFINE p == rebuild_internal_keys(u, q, ch)
            c == Call(fn, p, path)
            v == Then(u, c)
            h == l + 1
<1>1. /\ IsState(u) /\ u.err = "none" /\ q \in 1 .. Len(u.pages) /\ ch \in Seq(1 .. Len(u.pages)) /\ ch # <<>>
      /\ Rebuildable(u, ch) /\ Tree([u.pages EXCEPT ![q] = p], at2, top, M2)
      /\ RootOK(at2, top, DOMAIN M2, u.root) /\ FirstOK(at2, DOMAIN M2, u.first)
      /\ w \in DOMAIN M2 /\ at2[h][w] = q /\ PathIs(path, at2, top, h, w) /\ h \in 0 .. top /\ h > 0
  BY DEF ReadyAt
<1>2. PageTyped(p, q, Len(u.pages))
  BY <1>1, RebuiltTyped
<1>3. p.children = ch
  <2>1. ch \in Seq(Int)
    BY <1>1
  <2>. QED
    BY <1>1, <2>1, RebuiltParts
<1>. HIDE DEF p
<1>4. c.fn = fn /\ c.node = p /\ c.path = path
  BY DEF Call
<1>. HIDE DEF c
<1>5. /\ IsState(v) /\ v.err = "none" /\ v.pages = u.pages /\ v.root = u.root /\ v.first = u.first
      /\ v.call = c
  BY <1>1, ThenFacts
<1>. HIDE DEF v
<1>6. c # NoCall
  BY <1>4 DEF NoCall
<1>7. Pend(u.pages, u.root, u.first, c, M2, at2, top, h, w)
  BY <1>1, <1>4 DEF Pend
<1>8. PageTyped(c.node, at2[h][w], Len(u.pages))
  BY <1>1, <1>2, <1>4
<1>9. \/ c.fn = "split_internal" /\ h > 0 /\ Len(c.node.children) >= 2
      \/ c.fn = "fix_internal_underflow" /\ h > 0 /\ h < top
  BY <1>1, <1>3, <1>4
<1>. HIDE DEF h
<1>10. Waits(u.pages, u.root, u.first, c, M2)
  BY <1>7, <1>8, <1>9 DEF Waits
<1>11. Good(v, M2)
  BY <1>5, <1>6, <1>10 DEF Good
<1>. QED
  BY <1>11 DEF v, c, p

\* The parent is written, or it overflows and waits to be split.
LEMMA SplitEnd ==
    ASSUME NEW u, NEW q, NEW ch, NEW at, NEW top, NEW M, NEW M2, NEW l, NEW path,
           Ready(u, q, ch, at, top, M, M2, l, path)
    PROVE  Good(WriteOrSplit(u, q, ch, path), M2)
<1>. DEFINE p == rebuild_internal_keys(u, q, ch)
            r == WriteOrSplit(u, q, ch, path)
<1>1. IsState(u)
  BY DEF Ready
<1>2. ASSUME u.err # "none" PROVE Good(r, M2)
  <2>1. r = u
    BY <1>2 DEF WriteOrSplit
  <2>. QED
    BY <1>1, <1>2, <2>1, ErrGood
<1>3. ASSUME u.err = "none" PROVE Good(r, M2)
  <2>1. IsReady(u, q, ch, top, M2, l, path)
    BY <1>3, ReadyFacts
  <2>2. PICK at2, w : ReadyAt(u, q, ch, at2, top, M2, l, path, w)
    BY <2>1 DEF IsReady
  <2>3. Rebuildable(u, ch) /\ ch \in Seq(Int) /\ ch # <<>>
    BY <2>2 DEF ReadyAt
  <2>4. ASSUME inner_overflow(p) PROVE Good(r, M2)
    <3>1. r = Then(u, Call("split_internal", p, path))
      BY <1>3, <2>3, <2>4 DEF WriteOrSplit
    <3>2. Len(ch) >= 2
      BY <2>3, <2>4, RebuiltParts
    <3>3. Good(Then(u, Call("split_internal", p, path)), M2)
      BY <2>2, <3>2, WaitsInner
    <3>. QED
      BY <3>1, <3>3
  <2>5. ASSUME ~inner_overflow(p) PROVE Good(r, M2)
    <3>1. r = WriteRebuilt(u, q, ch)
      BY <1>3, <2>3, <2>5 DEF WriteOrSplit, WriteRebuilt
    <3>. QED
      BY <3>1, RebuildEnd
  <2>. QED
    BY <2>4, <2>5
<1>4. Good(r, M2)
  BY <1>2, <1>3
<1>. QED
  BY <1>4 DEF r

\* The levels up to t.
LEMMA GridBelow ==
    ASSUME NEW at, NEW top, NEW K, NEW n, Grid(at, top, K, n), NEW t \in 0 .. top
    PROVE  Grid(at, t, K, n)
<1>1. top \in Nat /\ t \in Nat /\ \A i \in 0 .. t : i \in 0 .. top
  BY DEF Grid
<1>2. n \in Nat /\ K \subseteq Keys /\ at \in [Nat -> [Int -> Int]]
  BY DEF Grid
<1>3. \A l \in 0 .. t, k \in K : at[l][k] \in 1 .. n
  BY <1>1 DEF Grid
<1>4. ASSUME NEW l \in 0 .. t, NEW m \in 0 .. t, NEW j \in K, NEW k \in K, at[l][j] = at[m][k]
      PROVE  l = m
  <2>1. l \in 0 .. top /\ m \in 0 .. top
    BY <1>1
  <2>. QED
    BY <1>4, <2>1, Apart
<1>5. \A l \in 0 .. t, i, j, k \in K :
         i < j /\ j < k /\ at[l][i] = at[l][k] => at[l][j] = at[l][i]
  BY <1>1 DEF Grid
<1>6. ASSUME NEW l \in 0 .. t, NEW m \in 0 .. t, NEW j \in K, NEW k \in K, l <= m, at[l][j] = at[l][k]
      PROVE  at[m][j] = at[m][k]
  <2>1. l \in 0 .. top /\ m \in 0 .. top
    BY <1>1
  <2>. QED
    BY <1>6, <2>1, Nested
<1>. QED
  BY <1>1, <1>2, <1>3, <1>4, <1>5, <1>6 DEF Grid

\* The only child of the root becomes the root.
LEMMA PromoteEnd ==
    ASSUME NEW u, NEW q, NEW ch, NEW at2, NEW top, NEW M2, NEW l, NEW path, NEW w,
           ReadyAt(u, q, ch, at2, top, M2, l, path, w), q = u.root, Len(ch) = 1
    PROVE  Good(promote_single_child_root(u, Head(ch)), M2)
<1>. DEFINE p == rebuild_internal_keys(u, q, ch)
            pg == u.pages
            v == [pg EXCEPT ![q] = p]
            n == Len(pg)
            x == Head(ch)
            f == leftmost_leaf(pg, x)
            r == promote_single_child_root(u, x)
            K == DOMAIN M2
            h == l + 1
<1>1. /\ IsState(u) /\ u.call = NoCall /\ u.err = "none" /\ q \in 1 .. n
      /\ Tree(v, at2, top, M2) /\ RootOK(at2, top, K, u.root)
      /\ w \in K /\ at2[h][w] = q /\ ch \in Seq(1 .. n) /\ ch # <<>>
      /\ l \in 0 .. top /\ l # top /\ h \in 0 .. top /\ top \in Nat
      /\ Row(ch, at2, K, l, Block(at2, K, h, q)) /\ l \in Nat /\ h = l + 1
  BY DEF ReadyAt
<1>2. pg \in Seq(AnyPage) /\ FileOK(pg) /\ n \in Nat
  BY <1>1, FilePages
<1>. HIDE DEF p
<1>3. Len(v) = n /\ \A j \in 1 .. n : j # q => v[j] = pg[j]
  BY <1>1, <1>2, Written
<1>. HIDE DEF v, h
<1>4. /\ Grid(at2, top, K, n) /\ K # {} /\ K \subseteq Int /\ K \subseteq Keys
      /\ \A i \in 0 .. top, k \in K : at2[i][k] \in 1 .. n /\ PageOK(v[at2[i][k]], at2[i][k], i, at2, M2)
  BY <1>1, <1>3, TreePages
<1>5. h = top
  <2>1. at2[top][w] = q /\ top \in 0 .. top
    BY <1>1 DEF RootOK
  <2>. QED
    BY <1>1, <1>4, <2>1, Apart, SMTT(20)
<1>6. ASSUME NEW m \in 0 .. l PROVE Layer(pg, at2, M2, m)
  <2>1. m \in 0 .. top /\ m # h
    BY <1>1
  <2>2. ASSUME NEW k \in K PROVE PageOK(pg[at2[m][k]], at2[m][k], m, at2, M2)
    <3>1. ASSUME at2[m][k] = q PROVE FALSE
      <4>1. at2[m][k] = at2[h][w]
        BY <1>1, <3>1
      <4>3. Grid(at2, top, K, n) /\ m \in 0 .. top /\ h \in 0 .. top /\ k \in K /\ w \in K
        BY <1>1, <1>4, <2>1
      <4>. HIDE DEF K, n
      <4>2. m = h
        BY <4>1, <4>3, Apart
      <4>. QED
        BY <2>1, <4>2
    <3>2. pg[at2[m][k]] = v[at2[m][k]]
      BY <1>3, <1>4, <2>1, <3>1
    <3>. QED
      BY <1>4, <2>1, <3>2
  <2>. QED
    BY <2>2 DEF Layer
<1>7. Grid(at2, l, K, n)
  BY <1>1, <1>4, GridBelow
<1>8. Tree(pg, at2, l, M2)
  BY <1>4, <1>6, <1>7 DEF Tree
<1>9. x \in 1 .. n /\ x = ch[1] /\ Len(ch) = 1
  BY <1>1
<1>10. ASSUME NEW k \in K PROVE at2[l][k] = x
  <2>1. at2[h][k] = q
    BY <1>1, <1>5 DEF RootOK
  <2>2. k \in Block(at2, K, h, q)
    BY <2>1 DEF Block
  <2>3. PICK i \in 1 .. Len(ch) : at2[l][k] = ch[i]
    BY <1>1, <2>2 DEF Row
  <2>. QED
    BY <1>9, <2>3
<1>11. f \in 1 .. n
  BY <1>2, <1>9, LeftmostTyped
<1>12. FirstOK(at2, K, f)
  <2>1. ASSUME NEW k \in K, \A j \in K : k <= j PROVE f = at2[0][k]
    <3>1. leftmost_leaf(pg, at2[l][k]) = at2[0][k]
      <4>1. \A j \in K : at2[l][j] = at2[l][k] => k <= j
        BY <2>1
      <4>2. n <= Len(pg) /\ Len(pg) \in Nat
        BY <1>2
      <4>3. \A m \in 0 .. l : Layer(pg, at2, M2, m)
        BY <1>6
      <4>4. Grid(at2, top, DOMAIN M2, n) /\ l \in 0 .. top
        BY <1>1, <1>4
      <4>. HIDE DEF n, pg
      <4>. QED
        BY <4>1, <4>2, <4>3, <4>4, LeftmostLeaf
    <3>2. at2[l][k] = x
      BY <1>10
    <3>. QED
      BY <3>1, <3>2
  <2>. QED
    BY <2>1 DEF FirstOK
<1>. HIDE DEF f, x, n, pg
<1>13. RootOK(at2, l, K, x)
  BY <1>10 DEF RootOK
<1>14. r = [pages |-> pg, root |-> x, first |-> f, err |-> "none", call |-> NoCall]
  <2>1. u = [pages |-> u.pages, root |-> u.root, first |-> u.first, err |-> u.err, call |-> u.call]
    BY <1>1 DEF IsState
  <2>2. r = [u EXCEPT !.root = x, !.first = f]
    BY DEF promote_single_child_root, f, pg
  <2>3. u.call = NoCall /\ u.err = "none" /\ u.pages = pg
    BY <1>1 DEF pg
  <2>. HIDE DEF r
  <2>. QED
    BY <2>1, <2>2, <2>3
<1>. HIDE DEF r
<1>15. r.pages = pg /\ r.root = x /\ r.first = f /\ r.err = "none" /\ r.call = NoCall
  BY <1>14
<1>16. IsState(r)
  BY <1>2, <1>9, <1>11, <1>14, <1>15 DEF IsState, n
<1>17. Stands(r, at2, l, M2)
  BY <1>8, <1>12, <1>13, <1>15, <1>16 DEF Stands
<1>18. Good(r, M2)
  BY <1>17, StandsGood
<1>. QED
  BY <1>18 DEF r, x

\* After a merge: the parent has lost a child.
LEMMA ChildGoneEnd ==
    ASSUME NEW u, NEW q, NEW ch, NEW at, NEW top, NEW M, NEW M2, NEW l, NEW path,
           Ready(u, q, ch, at, top, M, M2, l, path), NEW node, node.id = q, node.children = ch
    PROVE  Good(handle_internal_after_child_removed(u, node, path), M2)
<1>. DEFINE p == rebuild_internal_keys(u, q, ch)
            r == handle_internal_after_child_removed(u, node, path)
<1>1. IsState(u)
  BY DEF Ready
<1>2. ASSUME u.err # "none" PROVE Good(r, M2)
  <2>1. r = u
    BY <1>2 DEF handle_internal_after_child_removed
  <2>. QED
    BY <1>1, <1>2, <2>1, ErrGood
<1>3. ASSUME u.err = "none" PROVE Good(r, M2)
  <2>1. IsReady(u, q, ch, top, M2, l, path)
    BY <1>3, ReadyFacts
  <2>2. PICK at2, w : ReadyAt(u, q, ch, at2, top, M2, l, path, w)
    BY <2>1 DEF IsReady
  <2>3. Rebuildable(u, ch) /\ ch \in Seq(Int) /\ ch # <<>>
    BY <2>2 DEF ReadyAt
  <2>4. p.id = q /\ p.children = ch
    BY <2>3, RebuiltParts
  <2>5. write_page(u, p) = WriteRebuilt(u, q, ch)
    BY <1>3, <2>3 DEF WriteRebuilt
  <2>6. r = IF q = u.root
            THEN IF Len(ch) = 1 THEN promote_single_child_root(u, Head(ch)) ELSE WriteRebuilt(u, q, ch)
            ELSE IF inner_underflow(p) THEN Then(u, Call("fix_internal_underflow", p, path))
            ELSE propagate_subtree_min_change(WriteRebuilt(u, q, ch), path)
    BY <1>3, <2>3, <2>4, <2>5 DEF handle_internal_after_child_removed
  <2>. HIDE DEF r
  <2>7. ASSUME q = u.root, Len(ch) = 1 PROVE Good(r, M2)
    <3>1. Good(promote_single_child_root(u, Head(ch)), M2)
      BY <2>2, <2>7, PromoteEnd
    <3>. QED
      BY <2>6, <2>7, <3>1
  <2>8. ASSUME q = u.root, Len(ch) # 1 PROVE Good(r, M2)
    <3>1. Good(WriteRebuilt(u, q, ch), M2)
      BY RebuildEnd
    <3>. QED
      BY <2>6, <2>8, <3>1
  <2>9. ASSUME q # u.root, inner_underflow(p) PROVE Good(r, M2)
    <3>1. l + 1 < top
      <4>1. /\ w \in DOMAIN M2 /\ at2[l + 1][w] = q /\ RootOK(at2, top, DOMAIN M2, u.root)
            /\ l \in 0 .. top /\ l # top /\ top \in Nat
        BY <2>2 DEF ReadyAt
      <4>2. l + 1 # top
        BY <2>9, <4>1 DEF RootOK
      <4>. QED
        BY <4>1, <4>2
    <3>2. Good(Then(u, Call("fix_internal_underflow", p, path)), M2)
      BY <2>2, <3>1, WaitsInner
    <3>. QED
      BY <2>6, <2>9, <3>2
  <2>10. ASSUME q # u.root, ~inner_underflow(p) PROVE Good(r, M2)
    <3>1. Good(propagate_subtree_min_change(WriteRebuilt(u, q, ch), path), M2)
      BY PropagateEnd
    <3>. QED
      BY <2>6, <2>10, <3>1
  <2>. QED
    BY <2>7, <2>8, <2>9, <2>10
<1>4. Good(r, M2)
  BY <1>2, <1>3
<1>. QED
  BY <1>4 DEF r

\* From st to u only the pages D of the file are written, and pages are added.
Changed(st, u, D) ==
    /\ IsState(u) /\ u.root = st.root /\ u.first = st.first /\ u.call = st.call
    /\ Len(st.pages) <= Len(u.pages)
    /\ u.err = "none" => /\ st.err = "none"
                         /\ \A j \in 1 .. Len(st.pages) : j \notin D => u.pages[j] = st.pages[j]

\* Two pages are written.
LEMMA ChangedTwo ==
    ASSUME NEW st, IsState(st), NEW i \in 1 .. Len(st.pages), NEW j \in 1 .. Len(st.pages), i # j,
           NEW u1, NEW u, NEW p, NEW r, Wrote(st, u1, i, p), Wrote(u1, u, j, r)
    PROVE  /\ Changed(st, u, {i, j}) /\ Len(u.pages) = Len(st.pages)
           /\ u.err = "none" => u.pages[i] = p /\ u.pages[j] = r
<1>1. /\ Len(u1.pages) = Len(st.pages) /\ Len(u.pages) = Len(st.pages) /\ Len(st.pages) \in Nat
      /\ IsState(u) /\ u.root = st.root /\ u.first = st.first /\ u.call = st.call
  BY FilePages DEF Wrote
<1>2. ASSUME u.err = "none"
      PROVE  /\ st.err = "none" /\ u.pages[i] = p /\ u.pages[j] = r
             /\ \A k \in 1 .. Len(st.pages) : k \notin {i, j} => u.pages[k] = st.pages[k]
  <2>1. /\ u1.err = "none" /\ u.pages[j] = r
        /\ \A k \in 1 .. Len(st.pages) : k # j => u.pages[k] = u1.pages[k]
    BY <1>1, <1>2 DEF Wrote
  <2>2. /\ st.err = "none" /\ u1.pages[i] = p
        /\ \A k \in 1 .. Len(st.pages) : k # i => u1.pages[k] = st.pages[k]
    BY <2>1 DEF Wrote
  <2>. QED
    BY <2>1, <2>2
<1>. QED
  BY <1>1, <1>2 DEF Changed

\* One page is written.
LEMMA ChangedOne ==
    ASSUME NEW st, IsState(st), NEW i \in 1 .. Len(st.pages), NEW u, NEW p, Wrote(st, u, i, p)
    PROVE  /\ Changed(st, u, {i}) /\ Len(u.pages) = Len(st.pages)
           /\ u.err = "none" => u.pages[i] = p
<1>1. /\ Len(u.pages) = Len(st.pages) /\ Len(st.pages) \in Nat
  BY FilePages DEF Wrote
<1>. QED
  BY <1>1 DEF Changed, Wrote

\* Two pages are written, and a new one between them.
LEMMA ChangedThree ==
    ASSUME NEW st, IsState(st), NEW i \in 1 .. Len(st.pages), NEW j \in 1 .. Len(st.pages), i # j,
           NEW u1, NEW u2, NEW u, NEW p, NEW x, NEW r, Wrote(allocate_node_page(st), u1, i, p),
           Wrote(u1, u2, NextId(st), x), Wrote(u2, u, j, r)
    PROVE  /\ Changed(st, u, {i, j}) /\ Len(u.pages) = Len(st.pages) + 1
           /\ u.err = "none" => u.pages[i] = p /\ u.pages[NextId(st)] = x /\ u.pages[j] = r
<1>. DEFINE n == Len(st.pages)
            v == allocate_node_page(st)
            m == NextId(st)
<1>1. /\ n \in Nat /\ m = n + 1 /\ IsState(v) /\ Len(v.pages) = n + 1
      /\ \A k \in 1 .. n : v.pages[k] = st.pages[k]
      /\ v.root = st.root /\ v.first = st.first /\ v.err = st.err /\ v.call = st.call
  BY AllocFacts
<1>2. i \in 1 .. n + 1 /\ j \in 1 .. n + 1 /\ m \in 1 .. n + 1 /\ i # m /\ j # m /\ i # j
      /\ \A k \in 1 .. n : k # m /\ k \in 1 .. n + 1
  BY <1>1
<1>. HIDE DEF v, m, n
<1>3. /\ Len(u1.pages) = n + 1 /\ Len(u2.pages) = n + 1 /\ Len(u.pages) = n + 1
      /\ IsState(u) /\ u.root = st.root /\ u.first = st.first /\ u.call = st.call
  BY <1>1 DEF Wrote, v, m
<1>4. ASSUME u.err = "none"
      PROVE  /\ st.err = "none" /\ u.pages[i] = p /\ u.pages[m] = x /\ u.pages[j] = r
             /\ \A k \in 1 .. n : k \notin {i, j} => u.pages[k] = st.pages[k]
  <2>1. /\ u2.err = "none" /\ u.pages[j] = r
        /\ \A k \in 1 .. n + 1 : k # j => u.pages[k] = u2.pages[k]
    BY <1>3, <1>4 DEF Wrote
  <2>2. /\ u1.err = "none" /\ u2.pages[m] = x
        /\ \A k \in 1 .. n + 1 : k # m => u2.pages[k] = u1.pages[k]
    BY <1>3, <2>1 DEF Wrote, m
  <2>3. /\ v.err = "none" /\ u1.pages[i] = p
        /\ \A k \in 1 .. n + 1 : k # i => u1.pages[k] = v.pages[k]
    BY <1>1, <2>2 DEF Wrote, v
  <2>4. u.pages[i] = p /\ u.pages[m] = x
    BY <1>2, <2>1, <2>2, <2>3
  <2>5. ASSUME NEW k \in 1 .. n, k \notin {i, j} PROVE u.pages[k] = st.pages[k]
    BY <1>1, <1>2, <2>1, <2>2, <2>3, <2>5
  <2>. QED
    BY <1>1, <2>1, <2>3, <2>4, <2>5
<1>5. n <= n + 1
  BY <1>1
<1>6. Changed(st, u, {i, j})
  BY <1>3, <1>4, <1>5 DEF Changed, n
<1>. QED
  BY <1>3, <1>4, <1>6 DEF m, n

\* A page is written, and a new one.
LEMMA ChangedMid ==
    ASSUME NEW st, IsState(st), NEW i \in 1 .. Len(st.pages),
           NEW u1, NEW u, NEW p, NEW x, Wrote(allocate_node_page(st), u1, i, p),
           Wrote(u1, u, NextId(st), x)
    PROVE  /\ Changed(st, u, {i}) /\ Len(u.pages) = Len(st.pages) + 1
           /\ u.err = "none" => u.pages[i] = p /\ u.pages[NextId(st)] = x
<1>. DEFINE n == Len(st.pages)
            v == allocate_node_page(st)
            m == NextId(st)
<1>1. /\ n \in Nat /\ m = n + 1 /\ IsState(v) /\ Len(v.pages) = n + 1
      /\ \A k \in 1 .. n : v.pages[k] = st.pages[k]
      /\ v.root = st.root /\ v.first = st.first /\ v.err = st.err /\ v.call = st.call
  BY AllocFacts
<1>2. i \in 1 .. n + 1 /\ m \in 1 .. n + 1 /\ i # m
      /\ \A k \in 1 .. n : k # m /\ k \in 1 .. n + 1
  BY <1>1
<1>. HIDE DEF v, m, n
<1>3. /\ Len(u1.pages) = n + 1 /\ Len(u.pages) = n + 1
      /\ IsState(u) /\ u.root = st.root /\ u.first = st.first /\ u.call = st.call
  BY <1>1 DEF Wrote, v, m
<1>4. ASSUME u.err = "none"
      PROVE  /\ st.err = "none" /\ u.pages[i] = p /\ u.pages[m] = x
             /\ \A k \in 1 .. n : k \notin {i} => u.pages[k] = st.pages[k]
  <2>2. /\ u1.err = "none" /\ u.pages[m] = x
        /\ \A k \in 1 .. n + 1 : k # m => u.pages[k] = u1.pages[k]
    BY <1>3, <1>4 DEF Wrote, m
  <2>3. /\ v.err = "none" /\ u1.pages[i] = p
        /\ \A k \in 1 .. n + 1 : k # i => u1.pages[k] = v.pages[k]
    BY <1>1, <2>2 DEF Wrote, v
  <2>4. u.pages[i] = p
    BY <1>2, <2>2, <2>3
  <2>5. ASSUME NEW k \in 1 .. n, k \notin {i} PROVE u.pages[k] = st.pages[k]
    BY <1>1, <1>2, <2>2, <2>3, <2>5
  <2>. QED
    BY <1>1, <2>2, <2>3, <2>4, <2>5
<1>5. n <= n + 1
  BY <1>1
<1>6. Changed(st, u, {i})
  BY <1>3, <1>4, <1>5 DEF Changed, n
<1>. QED
  BY <1>3, <1>4, <1>6 DEF m, n

----------------------------------------------------------------------------
(* Where a page is rewritten: below the parent q of level l + 1 *)

Place(st, pg, at, top, M, l, q, path) ==
    /\ IsState(st) /\ st.call = NoCall /\ st.err = "none"
    /\ Tree(pg, at, top, M) /\ RootOK(at, top, DOMAIN M, st.root) /\ FirstOK(at, DOMAIN M, st.first)
    /\ Len(pg) = Len(st.pages) /\ l \in 0 .. top /\ l # top
    /\ \E w \in DOMAIN M : at[l + 1][w] = q
    /\ PathAll(path, at, top, DOMAIN M, l + 1, q)

\* c and d are positions of children of q, next to each other or the same.
Sides(pg, q, c, d) ==
    /\ c \in 1 .. Len(pg[q].children) /\ d \in {c, c + 1} /\ d <= Len(pg[q].children)

\* The tree pg differs from the file only in the pages a and b.
Near(st, pg, a, b) == \A p \in 1 .. Len(pg) : p \notin {a, b} => st.pages[p] = pg[p]

\* The children of the parent that are dealt out again.
LEMMA PlaceSpot ==
    ASSUME NEW st, NEW pg, NEW at, NEW top, NEW M, NEW l, NEW q, NEW path,
           Place(st, pg, at, top, M, l, q, path), NEW c, NEW d, Sides(pg, q, c, d)
    PROVE  Spot(pg, at, top, M, l, q, c, d)
<1>1. top \in Nat /\ l \in 0 .. top /\ l # top
  BY TreePages DEF Place
<1>2. l < top
  BY <1>1
<1>. QED
  BY <1>1, <1>2 DEF Place, Sides, Spot

\* A deal that is done leaves the parent to be rebuilt.
LEMMA DealReady ==
    ASSUME NEW st, NEW pg, NEW at, NEW top, NEW M, NEW l, NEW q, NEW path,
           Place(st, pg, at, top, M, l, q, path), NEW u, NEW D, Changed(st, u, D),
           NEW M2, DOMAIN M2 \subseteq DOMAIN M, NEW ch,
           u.err = "none" => DealDone(u, q, ch, at, top, M2, l, st.root, st.first)
    PROVE  Ready(u, q, ch, at, top, M, M2, l, path)
<1>1. /\ IsState(u) /\ u.root = st.root /\ u.first = st.first /\ u.call = NoCall
      /\ Len(st.pages) <= Len(u.pages) /\ Len(pg) = Len(st.pages)
  BY DEF Changed, Place
<1>2. l \in 0 .. top /\ l # top /\ Tree(pg, at, top, M) /\ PathAll(path, at, top, DOMAIN M, l + 1, q)
  BY DEF Place
<1>3. top \in Nat /\ Len(pg) \in Nat /\ Len(u.pages) \in Nat
  BY <1>1, <1>2, TreePages, FilePages
<1>4. l \in Nat /\ l < top /\ l + 1 \in 0 .. top
  BY <1>2, <1>3
<1>5. q \in 1 .. Len(pg)
  <2>1. PICK w \in DOMAIN M : at[l + 1][w] = q
    BY DEF Place
  <2>. DEFINE h == l + 1
  <2>2. h \in 0 .. top
    BY <1>4
  <2>. HIDE DEF h
  <2>3. at[h][w] \in 1 .. Len(pg)
    BY <1>2, <2>2, TreePages
  <2>. QED
    BY <2>1, <2>3 DEF h
<1>6. q \in 1 .. Len(u.pages)
  BY <1>1, <1>3, <1>5
<1>. QED
  BY <1>1, <1>2, <1>3, <1>4, <1>6 DEF Ready

\* Leaves written again leave the parent to be rebuilt.
LEMMA LeafReady ==
    ASSUME NEW st, NEW pg, NEW at, NEW top, NEW M, NEW q, NEW path,
           Place(st, pg, at, top, M, 0, q, path), NEW c, NEW d, Sides(pg, q, c, d),
           NEW ch, ch = pg[q].children, NEW u, NEW D, Changed(st, u, D),
           NEW M2, DOMAIN M2 \subseteq DOMAIN M, NEW s, NEW n, NEW m, NEW mid,
           u.err = "none" => LeafFile(pg, u.pages, at, M, M2, ch, q, c, d, s, n, m, mid)
    PROVE  Ready(u, q, NewRow(ch, c, d, n, m, Len(s), mid), at, top, M, M2, 0, path)
<1>1. Spot(pg, at, top, M, 0, q, c, d)
  BY PlaceSpot
<1>2. RootOK(at, top, DOMAIN M, st.root) /\ FirstOK(at, DOMAIN M, st.first)
  BY DEF Place
<1>3. ASSUME u.err = "none"
      PROVE DealDone(u, q, NewRow(ch, c, d, n, m, Len(s), mid), at, top, M2, 0, st.root, st.first)
  BY <1>1, <1>2, <1>3, LeafDeal
<1>. QED
  BY <1>3, DealReady

\* Inner pages written again leave the parent to be rebuilt.
LEMMA InnerReady ==
    ASSUME NEW st, NEW pg, NEW at, NEW top, NEW M, NEW l, NEW q, NEW path,
           Place(st, pg, at, top, M, l, q, path), NEW c, NEW d, Sides(pg, q, c, d),
           NEW ch, ch = pg[q].children, NEW u, NEW D, Changed(st, u, D),
           NEW s, NEW n, NEW m, NEW mid,
           u.err = "none" => InnerFile(pg, u.pages, at, DOMAIN M, l, ch, q, c, d, s, n, m, mid)
    PROVE  Ready(u, q, NewRow(ch, c, d, n, m, Len(s), mid), at, top, M, M, l, path)
<1>1. Spot(pg, at, top, M, l, q, c, d)
  BY PlaceSpot
<1>2. RootOK(at, top, DOMAIN M, st.root) /\ FirstOK(at, DOMAIN M, st.first)
  BY DEF Place
<1>3. ASSUME u.err = "none"
      PROVE DealDone(u, q, NewRow(ch, c, d, n, m, Len(s), mid), at, top, M, l, st.root, st.first)
  BY <1>1, <1>2, <1>3, InnerDeal
<1>. QED
  BY <1>3, DealReady

\* The children of q, and the pages to the left and to the right.
LEMMA ChildFacts ==
    ASSUME NEW pg, NEW at, NEW top, NEW M, NEW l, NEW q, NEW c, NEW d, Spot(pg, at, top, M, l, q, c, d),
           NEW i \in 1 .. Len(pg[q].children)
    PROVE  LET a == pg[q].children[i]
           IN  /\ a \in 1 .. Len(pg) /\ a # q /\ PageOK(pg[a], a, l, at, M)
               /\ \E w \in DOMAIN M : at[l][w] = a /\ at[l + 1][w] = q
               /\ ChildIndex(pg[q], a) = i
<1>. DEFINE ch == pg[q].children
            a == ch[i]
            h == l + 1
<1>1. /\ Grid(at, top, DOMAIN M, Len(pg)) /\ Tree(pg, at, top, M)
      /\ Row(ch, at, DOMAIN M, l, Block(at, DOMAIN M, h, q)) /\ DOMAIN M \subseteq Int
      /\ l \in 0 .. top /\ h \in 0 .. top /\ h # l
  <2>1. /\ Grid(at, top, DOMAIN M, Len(pg)) /\ DOMAIN M \subseteq Int
        /\ Row(pg[q].children, at, DOMAIN M, l, Block(at, DOMAIN M, l + 1, q))
        /\ l \in Nat /\ l \in 0 .. top /\ l + 1 \in 0 .. top
    BY SpotFacts
  <2>2. Tree(pg, at, top, M)
    BY DEF Spot
  <2>. QED
    BY <2>1, <2>2
<1>2. PICK w \in Block(at, DOMAIN M, h, q) : at[l][w] = a
  BY <1>1 DEF Row
<1>3. w \in DOMAIN M /\ at[h][w] = q
  BY <1>2 DEF Block
<1>4. a \in 1 .. Len(pg) /\ PageOK(pg[a], a, l, at, M)
  <2>1. at[l][w] \in 1 .. Len(pg) /\ PageOK(pg[at[l][w]], at[l][w], l, at, M)
    BY <1>1, <1>3, TreePages
  <2>. QED
    BY <1>2, <2>1
<1>. HIDE DEF h
<1>5. ASSUME a = q PROVE FALSE
  <2>1. at[l][w] = at[h][w]
    BY <1>2, <1>3, <1>5
  <2>. QED
    BY <1>1, <1>3, <2>1, Apart
<1>6. ChildIndex(pg[q], a) = i
  <2>. DEFINE x == ChildIndex(pg[q], a)
  <2>1. x \in 1 .. Len(ch) /\ ch[x] = a
    BY ChildIndexIs
  <2>. HIDE DEF x
  <2>2. ASSUME x # i PROVE FALSE
    <3>1. ch[x] # ch[i]
      BY <1>1, <2>1, <2>2, RowDistinct
    <3>. QED
      BY <2>1, <3>1
  <2>. QED
    BY <2>2 DEF x
<1>. QED
  BY <1>2, <1>3, <1>4, <1>5, <1>6 DEF h

\* A leaf of a tree.
LeafBox(p, a, at, M, n) ==
    /\ p = Leaf(a, p.entries, p.next) /\ p.entries \in Seq(Entries) /\ p.entries # <<>>
    /\ Held(p.entries, M, Block(at, DOMAIN M, 0, a))
    /\ NextOK(at, DOMAIN M, a, p.next) /\ p.next \in 0 .. n
    /\ IsLeaf(p) /\ ~IsInner(p) /\ p.id = a /\ PageTyped(p, a, n)

\* The leaf of a key.
LEMMA LeafPage ==
    ASSUME NEW pg, NEW at, NEW top, NEW M, Tree(pg, at, top, M), NEW w \in DOMAIN M
    PROVE  LeafBox(pg[at[0][w]], at[0][w], at, M, Len(pg))
<1>. DEFINE a == at[0][w]
            p == pg[a]
            K == DOMAIN M
            n == Len(pg)
<1>1. /\ Grid(at, top, K, n) /\ n \in Nat /\ 0 \in 0 .. top /\ K \subseteq Int
      /\ \A k \in K : at[0][k] \in 1 .. n
      /\ PageOK(p, a, 0, at, M)
  <2>1. top \in Nat
    BY TreePages
  <2>2. 0 \in 0 .. top
    BY <2>1
  <2>. QED
    BY <2>2, TreePages
<1>2. p = Leaf(a, p.entries, p.next) /\ Held(p.entries, M, Block(at, K, 0, a)) /\ NextOK(at, K, a, p.next)
  BY <1>1 DEF PageOK, LeafOK
<1>3. a \in 1 .. n
  BY <1>1
<1>. HIDE DEF p, n
<1>4. p.id = a /\ p.type = "leaf"
  BY <1>2 DEF Leaf
<1>5. IsLeaf(p) /\ ~IsInner(p)
  BY <1>4 DEF IsLeaf, IsInner
<1>6. p.entries \in Seq(Entries)
  BY <1>2 DEF Held
<1>7. w \in Block(at, K, 0, a)
  BY DEF Block
<1>8. p.entries # <<>>
  <2>1. \E i \in 1 .. Len(p.entries) : p.entries[i].key = w
    BY <1>2, <1>7 DEF Held
  <2>. QED
    BY <1>6, <2>1
<1>9. p.next \in 0 .. n
  <2>1. p.next = 0 \/ \E k \in K : p.next = at[0][k]
    BY <1>2, <1>7 DEF NextOK
  <2>. QED
    BY <1>1, <2>1
<1>10. PageTyped(p, a, n)
  <2>1. a \in Nat
    BY <1>3
  <2>2. PageTyped(Leaf(a, p.entries, p.next), a, n)
    BY <1>1, <1>6, <1>9, <2>1, LeafTyped
  <2>. QED
    BY <1>2, <2>2
<1>11. LeafBox(p, a, at, M, n)
  BY <1>2, <1>4, <1>5, <1>6, <1>8, <1>9, <1>10 DEF LeafBox
<1>. QED
  BY <1>11 DEF p, n

\* An inner page above a key.
LEMMA InnerPage ==
    ASSUME NEW pg, NEW at, NEW top, NEW M, Tree(pg, at, top, M), NEW l \in 0 .. top, l # top,
           NEW w \in DOMAIN M
    PROVE  /\ PageTyped(pg[at[l + 1][w]], at[l + 1][w], Len(pg))
           /\ pg[at[l + 1][w]].children \in Seq(1 .. Len(pg)) /\ pg[at[l + 1][w]].children # <<>>
<1>. DEFINE h == l + 1
            a == at[h][w]
            p == pg[a]
            K == DOMAIN M
            n == Len(pg)
<1>1. /\ h \in 0 .. top /\ InnerOK(p, a, h, at, K)
      /\ Row(p.children, at, K, l, Block(at, K, h, a)) /\ Seps(p.keys, p.children, at, K, l)
      /\ \E j \in 1 .. Len(p.children) : p.children[j] = at[l][w]
  BY InnerHere
<1>2. Grid(at, top, K, n) /\ n \in Nat /\ a \in 1 .. n
  BY <1>1, TreePages
<1>3. p.children \in Seq(1 .. n)
  BY <1>1, <1>2, RowTyped, SMTT(20)
<1>4. p.keys \in Seq(Int) /\ Len(p.keys) = Len(p.children) - 1
  BY <1>1 DEF Seps
<1>5. p = Inner(a, p.children, p.keys)
  BY <1>1 DEF InnerOK
<1>6. a \in Nat
  BY <1>2
<1>. HIDE DEF p, a, n
<1>7. PageTyped(p, a, n)
  BY <1>2, <1>3, <1>4, <1>5, <1>6, InnerTyped
<1>8. p.children # <<>>
  BY <1>1, <1>3
<1>. QED
  BY <1>3, <1>7, <1>8 DEF p, a, n

\* A leaf has the leaf to its right as its next.
LEMMA NextIs ==
    ASSUME NEW at, NEW top, NEW K, NEW l, NEW a, NEW b, NEW q, Neighbours(at, top, K, 0, a, b, q),
           K \subseteq Int, a # b, NEW next, NextOK(at, K, a, next)
    PROVE  next = b
<1>1. /\ (\E k \in K : at[0][k] = a) /\ (\E k \in K : at[0][k] = b)
      /\ Before(Block(at, K, 0, a), Block(at, K, 0, b))
      /\ \A i, j, k \in K :
           i < j /\ j < k /\ at[0][i] \in {a, b} /\ at[0][k] \in {a, b} => at[0][j] \in {a, b}
  BY DEF Neighbours
<1>2. PICK j \in K : at[0][j] = a
  BY <1>1
<1>3. PICK y \in K : at[0][y] = b
  BY <1>1
<1>4. j \in Block(at, K, 0, a) /\ y \in Block(at, K, 0, b)
  BY <1>2, <1>3 DEF Block
<1>5. j < y
  BY <1>1, <1>4 DEF Before
<1>6. CASE next = 0 /\ \A k \in K : j < k => at[0][k] = a
  BY <1>3, <1>5, <1>6
<1>7. CASE \E k \in K : /\ j < k /\ next = at[0][k] /\ next # a
                        /\ \A i \in K : j < i /\ i < k => at[0][i] = a
  <2>1. PICK k \in K : /\ j < k /\ next = at[0][k] /\ next # a
                       /\ \A i \in K : j < i /\ i < k => at[0][i] = a
    BY <1>7
  <2>2. ~(y < k)
    BY <1>3, <1>5, <2>1
  <2>3. y \in Int /\ k \in Int
    OBVIOUS
  <2>4. k = y \/ k < y
    BY <2>2, <2>3
  <2>5. CASE k = y
    BY <1>3, <2>1, <2>5
  <2>6. CASE k < y
    <3>1. at[0][k] \in {a, b}
      BY <1>1, <1>2, <1>3, <2>1, <2>6
    <3>. QED
      BY <2>1, <3>1
  <2>. QED
    BY <2>4, <2>5, <2>6
<1>. QED
  BY <1>4, <1>6, <1>7 DEF NextOK

\* Without keys of other leaves a leaf holds the same entries.
LEMMA HeldFewer ==
    ASSUME NEW e, NEW M, NEW M2, NEW at, NEW x, Held(e, M, Block(at, DOMAIN M, 0, x)),
           DOMAIN M2 \subseteq DOMAIN M, \A k \in DOMAIN M2 : M2[k] = M[k],
           \A k \in DOMAIN M \ DOMAIN M2 : at[0][k] # x
    PROVE  Held(e, M2, Block(at, DOMAIN M2, 0, x))
<1>1. Block(at, DOMAIN M2, 0, x) = Block(at, DOMAIN M, 0, x)
  BY DEF Block
<1>2. ASSUME NEW i \in 1 .. Len(e)
      PROVE  e[i].key \in Block(at, DOMAIN M2, 0, x) /\ e[i].rid = M2[e[i].key]
  <2>1. e[i].key \in Block(at, DOMAIN M, 0, x) /\ e[i].rid = M[e[i].key]
    BY DEF Held
  <2>2. e[i].key \in DOMAIN M2
    BY <1>1, <2>1 DEF Block
  <2>. QED
    BY <1>1, <2>1, <2>2
<1>. QED
  BY <1>1, <1>2 DEF Held

\* Two sequences put together and taken apart.
LEMMA Pieces ==
    ASSUME NEW S, NEW x \in Seq(S), NEW y \in Seq(S)
    PROVE  SubSeq(x \o y, 1, Len(x)) = x /\ SubSeq(x \o y, Len(x) + 1, Len(x \o y)) = y
  OBVIOUS

\* The entries of two leaves.
LEMMA PairHeld ==
    ASSUME NEW at, NEW M, NEW M2, NEW a, NEW b, DOMAIN M2 \subseteq DOMAIN M,
           Before(Block(at, DOMAIN M, 0, a), Block(at, DOMAIN M, 0, b)),
           NEW le, NEW re, Held(le, M2, Block(at, DOMAIN M2, 0, a)),
           Held(re, M2, Block(at, DOMAIN M2, 0, b))
    PROVE  Held(le \o re, M2, {k \in DOMAIN M2 : at[0][k] \in {a, b}})
<1>. DEFINE A == Block(at, DOMAIN M2, 0, a)
            B == Block(at, DOMAIN M2, 0, b)
<1>1. Before(A, B)
  BY DEF Before, Block
<1>2. A \cup B = {k \in DOMAIN M2 : at[0][k] \in {a, b}}
  BY DEF Block
<1>. HIDE DEF A, B
<1>3. Held(le \o re, M2, A \cup B)
  BY <1>1, HeldJoin DEF A, B
<1>. QED
  BY <1>2, <1>3

----------------------------------------------------------------------------
(* Two neighbouring leaves are written *)

LeafPair(st, pg, at, top, M, M2, q, path, c, a, b, le, re, next) ==
    /\ Place(st, pg, at, top, M, 0, q, path) /\ Sides(pg, q, c, c + 1) /\ Near(st, pg, a, b)
    /\ a = pg[q].children[c] /\ b = pg[q].children[c + 1]
    /\ Shrunk(M, M2, at, a, b) /\ next = pg[b].next
    /\ Held(le, M2, Block(at, DOMAIN M2, 0, a)) /\ Held(re, M2, Block(at, DOMAIN M2, 0, b))

\* What is known of two neighbouring leaves.
PairKnown(st, pg, at, top, M, M2, q, c, a, b, le, re, next) ==
    /\ IsState(st) /\ st.err = "none" /\ Len(st.pages) = Len(pg) /\ Len(pg) \in Nat
    /\ a \in 1 .. Len(pg) /\ b \in 1 .. Len(pg) /\ a # b /\ a # q /\ b # q
    /\ DOMAIN M2 \subseteq DOMAIN M
    /\ Held(le \o re, M2, {k \in DOMAIN M2 : at[0][k] \in {a, b}})
    /\ le \in Seq(Entries) /\ re \in Seq(Entries) /\ le \o re \in Seq(Entries)
    /\ Len(le \o re) = Len(le) + Len(re)
    /\ LeafBox(pg[a], a, at, M, Len(pg)) /\ LeafBox(pg[b], b, at, M, Len(pg))
    /\ pg[a].next = b /\ next \in 0 .. Len(pg)
    /\ pg[q].children \in Seq(Int) /\ c \in 1 .. Len(pg[q].children) /\ c + 1 \in 1 .. Len(pg[q].children)
    /\ Neighbours(at, top, DOMAIN M, 0, a, b, q)

\* What is known of two neighbouring leaves, proved.
LEMMA PairFacts ==
    ASSUME NEW st, NEW pg, NEW at, NEW top, NEW M, NEW M2, NEW q, NEW path, NEW c, NEW a, NEW b,
           NEW le, NEW re, NEW next, LeafPair(st, pg, at, top, M, M2, q, path, c, a, b, le, re, next)
    PROVE  PairKnown(st, pg, at, top, M, M2, q, c, a, b, le, re, next)
<1>. DEFINE ch == pg[q].children
            d == c + 1
<1>1. /\ Place(st, pg, at, top, M, 0, q, path) /\ Sides(pg, q, c, d)
      /\ a = ch[c] /\ b = ch[d] /\ Shrunk(M, M2, at, a, b) /\ next = pg[b].next
      /\ Held(le, M2, Block(at, DOMAIN M2, 0, a)) /\ Held(re, M2, Block(at, DOMAIN M2, 0, b))
  BY DEF LeafPair
<1>2. Spot(pg, at, top, M, 0, q, c, d)
  BY <1>1, PlaceSpot
<1>3. /\ Grid(at, top, DOMAIN M, Len(pg)) /\ Len(pg) \in Nat /\ 0 \in 0 .. top /\ 0 < top
      /\ Row(ch, at, DOMAIN M, 0, Block(at, DOMAIN M, 0 + 1, q))
      /\ ch \in Seq(Int) /\ c \in 1 .. Len(ch) /\ d \in 1 .. Len(ch) /\ d \in {c, c + 1}
      /\ DOMAIN M \subseteq Int
  BY <1>2, SpotFacts
<1>4. IsState(st) /\ st.err = "none" /\ Len(st.pages) = Len(pg) /\ Tree(pg, at, top, M)
  BY <1>1 DEF Place
<1>5. /\ a \in 1 .. Len(pg) /\ a # q /\ \E w \in DOMAIN M : at[0][w] = a
      /\ b \in 1 .. Len(pg) /\ b # q /\ \E w \in DOMAIN M : at[0][w] = b
  <2>1. ASSUME NEW i \in 1 .. Len(ch)
        PROVE  ch[i] \in 1 .. Len(pg) /\ ch[i] # q /\ \E w \in DOMAIN M : at[0][w] = ch[i]
    <3>. HIDE DEF d
    <3>. QED
      BY <1>2, ChildFacts
  <2>. QED
    BY <1>1, <1>3, <2>1
<1>6. LeafBox(pg[a], a, at, M, Len(pg)) /\ LeafBox(pg[b], b, at, M, Len(pg))
  BY <1>4, <1>5, LeafPage
<1>7. a # b
  <2>1. c \in Int /\ c # d
    BY <1>3
  <2>. QED
    BY <1>1, <1>3, <2>1, RowDistinct
<1>8. Neighbours(at, top, DOMAIN M, 0, a, b, q)
  <2>1. d <= Len(ch)
    BY <1>3
  <2>. HIDE DEF d
  <2>2. Neighbours(at, top, DOMAIN M, 0, ch[c], ch[d], q)
    BY <1>3, <2>1, Adjacent
  <2>. QED
    BY <1>1, <2>2
<1>9. Before(Block(at, DOMAIN M, 0, a), Block(at, DOMAIN M, 0, b))
  BY <1>7, <1>8 DEF Neighbours
<1>10. DOMAIN M2 \subseteq DOMAIN M
  BY <1>1 DEF Shrunk
<1>11. Held(le \o re, M2, {k \in DOMAIN M2 : at[0][k] \in {a, b}})
  BY <1>1, <1>9, <1>10, PairHeld
<1>12. le \in Seq(Entries) /\ re \in Seq(Entries)
  BY <1>1 DEF Held
<1>13. pg[a].next = b
  <2>1. NextOK(at, DOMAIN M, a, pg[a].next)
    BY <1>6 DEF LeafBox
  <2>. QED
    <3>1. DOMAIN M \subseteq Int /\ a # b
      BY <1>3, <1>7, Zenon
    <3>. QED
      BY ONLY <1>8, <2>1, <3>1, NextIs, SMTT(20)
<1>14. next \in 0 .. Len(pg)
  BY <1>1, <1>6, Zenon DEF LeafBox
<1>15. le \o re \in Seq(Entries) /\ Len(le \o re) = Len(le) + Len(re)
  BY <1>12, Joined
<1>. QED
  BY <1>3, <1>4, <1>5, <1>6, <1>7, <1>8, <1>10, <1>11, <1>12, <1>13, <1>14, <1>15 DEF PairKnown

\* The leaves a, mid and b hold the entries s, cut at n and m.
LeafParts(pages2, a, mid, b, s, n, m, next) ==
    /\ pages2[a] = Leaf(a, SubSeq(s, 1, n), IF m > n THEN mid ELSE IF m < Len(s) THEN b ELSE next)
    /\ m > n => pages2[mid] = Leaf(mid, SubSeq(s, n + 1, m), IF m < Len(s) THEN b ELSE next)
    /\ m < Len(s) => pages2[b] = Leaf(b, SubSeq(s, m + 1, Len(s)), next)

\* Two leaves that hold their entries in new parts.
LEMMA PairReady ==
    ASSUME NEW st, NEW pg, NEW at, NEW top, NEW M, NEW M2, NEW q, NEW path, NEW c, NEW a, NEW b,
           NEW le, NEW re, NEW next, LeafPair(st, pg, at, top, M, M2, q, path, c, a, b, le, re, next),
           NEW s, s = le \o re, NEW n, n \in Nat, NEW m, m \in Nat, 1 <= n, n <= m, m <= Len(s),
           m > n => m < Len(s), NEW D, D \subseteq {a, b}, NEW u, Changed(st, u, D),
           NEW mid, m > n => mid \in Len(pg) + 1 .. Len(u.pages),
           u.err = "none" => LeafParts(u.pages, a, mid, b, s, n, m, next)
    PROVE  Ready(u, q, NewRow(pg[q].children, c, c + 1, n, m, Len(s), mid), at, top, M, M2, 0, path)
<1>. DEFINE ch == pg[q].children
            d == c + 1
<1>1. /\ Place(st, pg, at, top, M, 0, q, path) /\ Sides(pg, q, c, d) /\ Near(st, pg, a, b)
      /\ a = ch[c] /\ b = ch[d] /\ Shrunk(M, M2, at, a, b) /\ next = pg[b].next
  BY DEF LeafPair
<1>2. /\ IsState(st) /\ Len(st.pages) = Len(pg) /\ Len(pg) \in Nat
      /\ a \in 1 .. Len(pg) /\ b \in 1 .. Len(pg) /\ a # b
      /\ DOMAIN M2 \subseteq DOMAIN M
      /\ Held(s, M2, {k \in DOMAIN M2 : at[0][k] \in {a, b}})
      /\ c \in 1 .. Len(ch)
  <2>1. /\ IsState(st) /\ Len(st.pages) = Len(pg) /\ Len(pg) \in Nat
        /\ a \in 1 .. Len(pg) /\ b \in 1 .. Len(pg) /\ a # b
        /\ DOMAIN M2 \subseteq DOMAIN M
        /\ Held(le \o re, M2, {k \in DOMAIN M2 : at[0][k] \in {a, b}})
        /\ c \in 1 .. Len(pg[q].children)
    <3>1. PairKnown(st, pg, at, top, M, M2, q, c, a, b, le, re, next)
      BY PairFacts
    <3>. QED
      BY <3>1 DEF PairKnown
  <2>. QED
    BY <2>1
<1>3. d # c
  BY <1>2
<1>4. IsState(u) /\ Len(st.pages) <= Len(u.pages) /\ u.pages \in Seq(AnyPage)
  BY FilePages DEF Changed
<1>. HIDE DEF d
<1>5. ASSUME u.err = "none" PROVE LeafFile(pg, u.pages, at, M, M2, ch, q, c, d, s, n, m, mid)
  <2>1. ASSUME NEW p \in 1 .. Len(pg), p \notin {a, b, q} PROVE u.pages[p] = pg[p]
    <3>1. p \notin {a, b} /\ p \notin D /\ p \in 1 .. Len(st.pages)
      BY <1>2, <2>1
    <3>2. st.pages[p] = pg[p]
      BY <1>1, <3>1 DEF Near
    <3>3. u.pages[p] = st.pages[p]
      BY <1>5, <3>1 DEF Changed
    <3>. QED
      BY <3>2, <3>3
  <2>2. LeafParts(u.pages, a, mid, b, s, n, m, next)
    BY <1>5
  <2>. HIDE DEF ch
  <2>. QED
    BY <1>1, <1>2, <1>3, <1>4, <2>1, <2>2 DEF LeafFile, LeafParts
<1>6. Ready(u, q, NewRow(ch, c, d, n, m, Len(s), mid), at, top, M, M2, 0, path)
  BY <1>1, <1>2, <1>5, LeafReady, ZenonT(60)
<1>. QED
  BY <1>6 DEF d

\* Entries move between the two leaves.
LEMMA PairMoved ==
    ASSUME NEW st, NEW pg, NEW at, NEW top, NEW M, NEW M2, NEW q, NEW path, NEW c, NEW a, NEW b,
           NEW le, NEW re, NEW next, LeafPair(st, pg, at, top, M, M2, q, path, c, a, b, le, re, next),
           NEW x, NEW y, x \o y = le \o re, x \in Seq(Entries), y \in Seq(Entries), x # <<>>, y # <<>>,
           NEW D, D \subseteq {a, b}, NEW u, Changed(st, u, D),
           u.err = "none" => u.pages[a] = Leaf(a, x, b) /\ u.pages[b] = Leaf(b, y, next)
    PROVE  Ready(u, q, pg[q].children, at, top, M, M2, 0, path)
<1>. DEFINE s == le \o re
            n == Len(x)
<1>1. s \in Seq(Entries) /\ n \in Nat /\ 1 <= n /\ n < Len(s) /\ Len(s) \in Nat
      /\ SubSeq(s, 1, n) = x /\ SubSeq(s, n + 1, Len(s)) = y
  <2>1. s = x \o y /\ x \o y \in Seq(Entries) /\ Len(x \o y) = Len(x) + Len(y)
    BY Joined
  <2>2. Len(x) \in Nat /\ Len(y) \in Nat /\ Len(x) >= 1 /\ Len(y) >= 1
    OBVIOUS
  <2>3. SubSeq(x \o y, 1, Len(x)) = x /\ SubSeq(x \o y, Len(x) + 1, Len(x \o y)) = y
    BY Pieces
  <2>. QED
    BY <2>1, <2>2, <2>3, SMTT(20)
<1>. HIDE DEF s, n
<1>2. u.err = "none" => LeafParts(u.pages, a, 0, b, s, n, n, next)
  <2>1. ~(n > n) /\ n < Len(s) /\ SubSeq(s, 1, n) = x /\ SubSeq(s, n + 1, Len(s)) = y
    BY <1>1
  <2>. QED
    BY <2>1 DEF LeafParts
<1>3. Ready(u, q, NewRow(pg[q].children, c, c + 1, n, n, Len(s), 0), at, top, M, M2, 0, path)
  <2>1. n <= n /\ n <= Len(s) /\ ~(n > n)
    BY <1>1
  <2>2. s = le \o re
    BY DEF s
  <2>. QED
    BY <1>1, <1>2, <2>1, <2>2, PairReady, ZenonT(60)
<1>4. NewRow(pg[q].children, c, c + 1, n, n, Len(s), 0) = pg[q].children
  BY <1>1 DEF NewRow
<1>. QED
  BY <1>3, <1>4

\* The two leaves become three.
LEMMA PairSplit ==
    ASSUME NEW st, NEW pg, NEW at, NEW top, NEW M, NEW M2, NEW q, NEW path, NEW c, NEW a, NEW b,
           NEW le, NEW re, NEW next, LeafPair(st, pg, at, top, M, M2, q, path, c, a, b, le, re, next),
           NEW n, NEW m, NEW s, s = le \o re, n \in Nat, m \in Nat, 1 <= n, n < m, m < Len(s),
           NEW D, D \subseteq {a, b}, NEW u, Changed(st, u, D), Len(u.pages) = Len(st.pages) + 1,
           NEW mid, mid = Len(st.pages) + 1,
           u.err = "none" => /\ u.pages[a] = Leaf(a, SubSeq(s, 1, n), mid)
                             /\ u.pages[mid] = Leaf(mid, SubSeq(s, n + 1, m), b)
                             /\ u.pages[b] = Leaf(b, SubSeq(s, m + 1, Len(s)), next)
    PROVE  Ready(u, q, InsertAt(pg[q].children, c + 1, mid), at, top, M, M2, 0, path)
<1>1. Len(st.pages) = Len(pg) /\ Len(pg) \in Nat /\ s \in Seq(Entries)
  BY PairFacts DEF PairKnown
<1>2. Len(s) \in Nat
  BY <1>1
<1>3. n <= m /\ m <= Len(s) /\ m > n /\ mid \in Len(pg) + 1 .. Len(u.pages)
  BY <1>1, <1>2
<1>4. u.err = "none" => LeafParts(u.pages, a, mid, b, s, n, m, next)
  BY <1>3 DEF LeafParts
<1>5. Ready(u, q, NewRow(pg[q].children, c, c + 1, n, m, Len(s), mid), at, top, M, M2, 0, path)
  BY <1>3, <1>4, PairReady, ZenonT(60)
<1>6. NewRow(pg[q].children, c, c + 1, n, m, Len(s), mid) = InsertAt(pg[q].children, c + 1, mid)
  BY <1>3 DEF NewRow
<1>. QED
  BY <1>5, <1>6

\* The two leaves become one.
LEMMA PairMerged ==
    ASSUME NEW st, NEW pg, NEW at, NEW top, NEW M, NEW M2, NEW q, NEW path, NEW c, NEW a, NEW b,
           NEW le, NEW re, NEW next, LeafPair(st, pg, at, top, M, M2, q, path, c, a, b, le, re, next),
           le \o re # <<>>, NEW D, D \subseteq {a, b}, NEW u, Changed(st, u, D),
           u.err = "none" => u.pages[a] = Leaf(a, le \o re, next)
    PROVE  Ready(u, q, RemoveAt(pg[q].children, c + 1), at, top, M, M2, 0, path)
<1>. DEFINE s == le \o re
            n == Len(s)
<1>1. s \in Seq(Entries) /\ c \in Nat
  <2>1. le \o re \in Seq(Entries) /\ c \in 1 .. Len(pg[q].children)
    BY PairFacts DEF PairKnown
  <2>. QED
    BY <2>1
<1>2. n \in Nat /\ 1 <= n /\ SubSeq(s, 1, n) = s /\ s = le \o re
  <2>1. s # <<>>
    OBVIOUS
  <2>2. s = le \o re
    OBVIOUS
  <2>. HIDE DEF s
  <2>. QED
    BY <1>1, <2>1, <2>2
<1>. HIDE DEF s
<1>3. n <= n /\ ~(n > n) /\ ~(n < n)
  BY <1>2
<1>. HIDE DEF n
<1>4. n = Len(s)
  BY DEF n
<1>5. u.err = "none" => LeafParts(u.pages, a, 0, b, s, n, n, next)
  BY <1>2, <1>3, <1>4 DEF LeafParts
<1>6. Ready(u, q, NewRow(pg[q].children, c, c + 1, n, n, Len(s), 0), at, top, M, M2, 0, path)
  BY <1>2, <1>3, <1>4, <1>5, PairReady, ZenonT(60)
<1>7. NewRow(pg[q].children, c, c + 1, n, n, Len(s), 0) = RemoveAt(pg[q].children, c + 1)
  <2>1. c + 1 # c
    BY <1>1
  <2>. QED
    BY <1>3, <1>4, <2>1 DEF NewRow
<1>. QED
  BY <1>6, <1>7

\* write_page writes a leaf.
LEMMA WriteLeaf ==
    ASSUME NEW st, IsState(st), NEW i \in 1 .. Len(st.pages), NEW e \in Seq(Entries),
           NEW x \in 0 .. Len(st.pages)
    PROVE  Wrote(st, write_page(st, Leaf(i, e, x)), i, Leaf(i, e, x))
<1>1. Len(st.pages) \in Nat
  BY FilePages
<1>2. i \in Nat
  BY <1>1
<1>3. PageTyped(Leaf(i, e, x), i, Len(st.pages))
  BY <1>1, <1>2, LeafTyped
<1>. QED
  BY <1>3, WriteFacts

TwoWrites(st, u1, u, i, j, p, r) ==
    /\ IsState(st) /\ i \in 1 .. Len(st.pages) /\ j \in 1 .. Len(st.pages) /\ i # j
    /\ Wrote(st, u1, i, p) /\ Wrote(u1, u, j, r)
TwoWritten(st, u, i, j, p, r) ==
    /\ Changed(st, u, {i, j}) /\ Len(u.pages) = Len(st.pages)
    /\ u.err = "none" => u.pages[i] = p /\ u.pages[j] = r
\* What two writes leave.
LEMMA TwoFacts ==
    ASSUME NEW st, NEW u1, NEW u, NEW i, NEW j, NEW p, NEW r, TwoWrites(st, u1, u, i, j, p, r)
    PROVE  TwoWritten(st, u, i, j, p, r)
<1>1. /\ IsState(st) /\ i \in 1 .. Len(st.pages) /\ j \in 1 .. Len(st.pages) /\ i # j
      /\ Wrote(st, u1, i, p) /\ Wrote(u1, u, j, r)
  BY DEF TwoWrites
<1>. QED
  BY <1>1, ChangedTwo, SMTT(20) DEF TwoWritten

\* Entries have moved between the two leaves, which are written in either order.
LEMMA MovedReady ==
    ASSUME NEW st, NEW pg, NEW at, NEW top, NEW M, NEW M2, NEW q, NEW path, NEW c, NEW a, NEW b,
           NEW le, NEW re, NEW next, LeafPair(st, pg, at, top, M, M2, q, path, c, a, b, le, re, next),
           NEW x, NEW y, x \o y = le \o re, x \in Seq(Entries), y \in Seq(Entries), x # <<>>, y # <<>>,
           NEW p, p = Leaf(a, x, b), NEW r, r = Leaf(b, y, next)
    PROVE  /\ Ready(write_page(write_page(st, p), r), q, pg[q].children, at, top, M, M2, 0, path)
           /\ Ready(write_page(write_page(st, r), p), q, pg[q].children, at, top, M, M2, 0, path)
<1>1. PairKnown(st, pg, at, top, M, M2, q, c, a, b, le, re, next)
  BY PairFacts
<1>2. /\ IsState(st) /\ Len(st.pages) = Len(pg) /\ Len(pg) \in Nat /\ a \in 1 .. Len(st.pages)
      /\ b \in 1 .. Len(st.pages) /\ a # b /\ next \in 0 .. Len(st.pages) /\ b \in 0 .. Len(st.pages)
  BY <1>1 DEF PairKnown
<1>3. ASSUME NEW u, NEW D, D \subseteq {a, b}, Changed(st, u, D),
             u.err = "none" => u.pages[a] = p /\ u.pages[b] = r
      PROVE  Ready(u, q, pg[q].children, at, top, M, M2, 0, path)
  <2>1. u.err = "none" => u.pages[a] = Leaf(a, x, b) /\ u.pages[b] = Leaf(b, y, next)
    BY <1>3
  <2>. QED
    BY <1>3, <2>1, PairMoved
<1>4. ASSUME NEW v, IsState(v), Len(v.pages) = Len(st.pages)
      PROVE  Wrote(v, write_page(v, p), a, p) /\ Wrote(v, write_page(v, r), b, r)
  BY <1>2, <1>4, WriteLeaf
<1>5. ASSUME NEW v, NEW i, NEW z, Wrote(st, v, i, z) PROVE IsState(v) /\ Len(v.pages) = Len(st.pages)
  BY <1>5 DEF Wrote
<1>6. Ready(write_page(write_page(st, p), r), q, pg[q].children, at, top, M, M2, 0, path)
  <2>1. Wrote(st, write_page(st, p), a, p)
    BY <1>2, <1>4
  <2>2. Wrote(write_page(st, p), write_page(write_page(st, p), r), b, r)
    BY <1>4, <1>5, <2>1
  <2>. DEFINE v1 == write_page(st, p)
              v2 == write_page(v1, r)
  <2>3. Wrote(st, v1, a, p) /\ Wrote(v1, v2, b, r)
    BY <2>1, <2>2
  <2>. HIDE DEF v1, v2
  <2>4. Changed(st, v2, {a, b}) /\ (v2.err = "none" => v2.pages[a] = p /\ v2.pages[b] = r)
    <3>1. TwoWrites(st, v1, v2, a, b, p, r)
      BY <1>2, <2>3 DEF TwoWrites
    <3>. QED
      BY <3>1, TwoFacts DEF TwoWritten
  <2>5. Ready(v2, q, pg[q].children, at, top, M, M2, 0, path)
    BY <1>3, <2>4
  <2>. QED
    BY <2>5 DEF v1, v2
<1>7. Ready(write_page(write_page(st, r), p), q, pg[q].children, at, top, M, M2, 0, path)
  <2>1. Wrote(st, write_page(st, r), b, r)
    BY <1>2, <1>4
  <2>2. Wrote(write_page(st, r), write_page(write_page(st, r), p), a, p)
    BY <1>4, <1>5, <2>1
  <2>. DEFINE v1 == write_page(st, r)
              v2 == write_page(v1, p)
  <2>3. Wrote(st, v1, b, r) /\ Wrote(v1, v2, a, p)
    BY <2>1, <2>2
  <2>. HIDE DEF v1, v2
  <2>5. Changed(st, v2, {b, a}) /\ (v2.err = "none" => v2.pages[b] = r /\ v2.pages[a] = p)
    <3>1. TwoWrites(st, v1, v2, b, a, r, p)
      BY <1>2, <2>3 DEF TwoWrites
    <3>. QED
      BY <3>1, TwoFacts DEF TwoWritten
  <2>6. {b, a} \subseteq {a, b}
    OBVIOUS
  <2>4. Ready(v2, q, pg[q].children, at, top, M, M2, 0, path)
    BY <1>3, <2>5, <2>6
  <2>. QED
    BY <2>4 DEF v1, v2
<1>. QED
  BY <1>6, <1>7

\* The entries of the two leaves in three parts are written to three leaves.
ThreeWrites(st, u1, u2, u, i, j, p, x, r) ==
    /\ IsState(st) /\ i \in 1 .. Len(st.pages) /\ j \in 1 .. Len(st.pages) /\ i # j
    /\ Wrote(allocate_node_page(st), u1, i, p) /\ Wrote(u1, u2, NextId(st), x) /\ Wrote(u2, u, j, r)
ThreeWritten(st, u, i, j, p, x, r) ==
    /\ Changed(st, u, {i, j}) /\ Len(u.pages) = Len(st.pages) + 1
    /\ u.err = "none" => u.pages[i] = p /\ u.pages[NextId(st)] = x /\ u.pages[j] = r
\* What three writes to old and new pages leave.
LEMMA ThreeFacts ==
    ASSUME NEW st, NEW u1, NEW u2, NEW u, NEW i, NEW j, NEW p, NEW x, NEW r,
           ThreeWrites(st, u1, u2, u, i, j, p, x, r)
    PROVE  ThreeWritten(st, u, i, j, p, x, r)
<1>1. /\ IsState(st) /\ i \in 1 .. Len(st.pages) /\ j \in 1 .. Len(st.pages) /\ i # j
      /\ Wrote(allocate_node_page(st), u1, i, p) /\ Wrote(u1, u2, NextId(st), x) /\ Wrote(u2, u, j, r)
  BY DEF ThreeWrites
<1>. QED
  BY <1>1, ChangedThree DEF ThreeWritten

SplitPages(u, a, mid, b, s, n, m, next) ==
    /\ u.pages[a] = Leaf(a, SubSeq(s, 1, n), mid)
    /\ u.pages[mid] = Leaf(mid, SubSeq(s, n + 1, m), b)
    /\ u.pages[b] = Leaf(b, SubSeq(s, m + 1, Len(s)), next)
SplitIn(st, u, D, a, b, le, re, s, n, m, mid, next) ==
    /\ s = le \o re /\ n \in Nat /\ m \in Nat /\ 1 <= n /\ n < m /\ m < Len(s)
    /\ D \subseteq {a, b} /\ Changed(st, u, D) /\ Len(u.pages) = Len(st.pages) + 1
    /\ mid = Len(st.pages) + 1
    /\ u.err = "none" => SplitPages(u, a, mid, b, s, n, m, next)
\* The two leaves become three, with the premises as one.
LEMMA PairSplitIn ==
    ASSUME NEW st, NEW pg, NEW at, NEW top, NEW M, NEW M2, NEW q, NEW path, NEW c, NEW a, NEW b,
           NEW le, NEW re, NEW next, LeafPair(st, pg, at, top, M, M2, q, path, c, a, b, le, re, next),
           NEW n, NEW m, NEW s, NEW D, NEW u, NEW mid, SplitIn(st, u, D, a, b, le, re, s, n, m, mid, next)
    PROVE  Ready(u, q, InsertAt(pg[q].children, c + 1, mid), at, top, M, M2, 0, path)
<1>1. /\ s = le \o re /\ n \in Nat /\ m \in Nat /\ 1 <= n /\ n < m /\ m < Len(s)
      /\ D \subseteq {a, b} /\ Changed(st, u, D) /\ Len(u.pages) = Len(st.pages) + 1
      /\ mid = Len(st.pages) + 1
  BY DEF SplitIn
<1>2. u.err = "none" => /\ u.pages[a] = Leaf(a, SubSeq(s, 1, n), mid)
                        /\ u.pages[mid] = Leaf(mid, SubSeq(s, n + 1, m), b)
                        /\ u.pages[b] = Leaf(b, SubSeq(s, m + 1, Len(s)), next)
  BY DEF SplitIn, SplitPages
<1>. QED
  BY <1>1, <1>2, PairSplit, ZenonT(60)

\* The writes of split_leaf_pair leave the parent to be rebuilt.
LEMMA SplitReady ==
    ASSUME NEW st, NEW pg, NEW at, NEW top, NEW M, NEW M2, NEW q, NEW path, NEW c, NEW a, NEW b,
           NEW le, NEW re, NEW next, LeafPair(st, pg, at, top, M, M2, q, path, c, a, b, le, re, next),
           NEW n, NEW m, NEW s, s = le \o re, n \in Nat, m \in Nat, 1 <= n, n < m, m < Len(s),
           NEW mid, mid = NextId(st), NEW st1, NEW st2, NEW st3,
           st1 = write_page(allocate_node_page(st), Leaf(a, SubSeq(s, 1, n), mid)),
           st2 = write_page(st1, Leaf(mid, SubSeq(s, n + 1, m), b)),
           st3 = write_page(st2, Leaf(b, SubSeq(s, m + 1, Len(s)), next))
    PROVE  Ready(st3, q, InsertAt(pg[q].children, c + 1, mid), at, top, M, M2, 0, path)
<1>1. PairKnown(st, pg, at, top, M, M2, q, c, a, b, le, re, next)
  BY PairFacts
<1>2. /\ IsState(st) /\ Len(st.pages) = Len(pg) /\ Len(pg) \in Nat /\ a \in 1 .. Len(st.pages)
      /\ b \in 1 .. Len(st.pages) /\ a # b /\ next \in 0 .. Len(st.pages) /\ s \in Seq(Entries)
  BY <1>1 DEF PairKnown
<1>. DEFINE v == allocate_node_page(st)
            k == Len(st.pages)
            x == SubSeq(s, 1, n)
            y == SubSeq(s, n + 1, m)
            z == SubSeq(s, m + 1, Len(s))
<1>3. IsState(v) /\ mid = k + 1 /\ Len(v.pages) = k + 1 /\ k \in Nat
  BY <1>2, AllocFacts
<1>4. x \in Seq(Entries) /\ y \in Seq(Entries) /\ z \in Seq(Entries)
  <2>1. Len(s) \in Nat
    BY <1>2
  <2>2. /\ 1 <= n + 1 /\ m <= Len(s) /\ n + 1 <= m + 1 /\ n + 1 \in Int /\ m \in Int
        /\ 1 <= 1 /\ n <= Len(s) /\ 1 <= n + 1 /\ 1 \in Int /\ n \in Int
        /\ 1 <= m + 1 /\ Len(s) <= Len(s) /\ m + 1 <= Len(s) + 1 /\ m + 1 \in Int /\ Len(s) \in Int
    BY <2>1
  <2>3. x \in Seq(Entries)
    BY <1>2, <2>2, Cut
  <2>4. y \in Seq(Entries)
    BY <1>2, <2>2, Cut
  <2>5. z \in Seq(Entries)
    BY <1>2, <2>2, Cut
  <2>. QED
    BY <2>3, <2>4, <2>5
<1>. HIDE DEF v, k, x, y, z
<1>5. /\ a \in 1 .. k + 1 /\ b \in 1 .. k + 1 /\ mid \in 1 .. k + 1
      /\ mid \in 0 .. k + 1 /\ b \in 0 .. k + 1 /\ next \in 0 .. k + 1
  BY <1>2, <1>3, SMTT(20) DEF k
<1>6. Wrote(v, st1, a, Leaf(a, x, mid))
  BY <1>3, <1>4, <1>5, WriteLeaf DEF v, x
<1>7. IsState(st1) /\ Len(st1.pages) = k + 1
  BY <1>3, <1>6 DEF Wrote
<1>8. Wrote(st1, st2, mid, Leaf(mid, y, b))
  BY <1>4, <1>5, <1>7, WriteLeaf DEF y
<1>9. IsState(st2) /\ Len(st2.pages) = k + 1
  BY <1>7, <1>8 DEF Wrote
<1>10. Wrote(st2, st3, b, Leaf(b, z, next))
  BY <1>4, <1>5, <1>9, WriteLeaf DEF z
<1>11. /\ Changed(st, st3, {a, b}) /\ Len(st3.pages) = k + 1
       /\ st3.err = "none" => /\ st3.pages[a] = Leaf(a, x, mid) /\ st3.pages[mid] = Leaf(mid, y, b)
                              /\ st3.pages[b] = Leaf(b, z, next)
  <2>1. /\ Wrote(allocate_node_page(st), st1, a, Leaf(a, x, mid)) /\ Wrote(st1, st2, NextId(st), Leaf(mid, y, b))
        /\ Wrote(st2, st3, b, Leaf(b, z, next))
    BY <1>6, <1>8, <1>10 DEF v
  <2>. DEFINE pa == Leaf(a, x, mid)
              pm == Leaf(mid, y, b)
              pb == Leaf(b, z, next)
  <2>2. /\ Wrote(allocate_node_page(st), st1, a, pa) /\ Wrote(st1, st2, NextId(st), pm)
        /\ Wrote(st2, st3, b, pb)
        /\ IsState(st) /\ a \in 1 .. Len(st.pages) /\ b \in 1 .. Len(st.pages) /\ a # b
    BY <1>2, <2>1
  <2>. HIDE DEF pa, pm, pb
  <2>3. ThreeWrites(st, st1, st2, st3, a, b, pa, pm, pb)
    BY <2>2 DEF ThreeWrites
  <2>4. ThreeWritten(st, st3, a, b, pa, pm, pb)
    BY <2>3, ThreeFacts
  <2>. QED
    BY <2>4 DEF k, pa, pm, pb, ThreeWritten
<1>12. {a, b} \subseteq {a, b} /\ mid = Len(st.pages) + 1 /\ Len(st3.pages) = Len(st.pages) + 1
  BY <1>3, <1>11 DEF k
<1>13. st3.err = "none" => /\ st3.pages[a] = Leaf(a, SubSeq(s, 1, n), mid)
                           /\ st3.pages[mid] = Leaf(mid, SubSeq(s, n + 1, m), b)
                           /\ st3.pages[b] = Leaf(b, SubSeq(s, m + 1, Len(s)), next)
  BY <1>11 DEF x, y, z
<1>14. Changed(st, st3, {a, b})
  BY <1>11
<1>15. LeafPair(st, pg, at, top, M, M2, q, path, c, a, b, le, re, next)
  OBVIOUS
<1>16. s = le \o re /\ n \in Nat /\ m \in Nat /\ 1 <= n /\ n < m /\ m < Len(s)
  OBVIOUS
<1>17. SplitIn(st, st3, {a, b}, a, b, le, re, s, n, m, mid, next)
  <2>1. st3.err = "none" => SplitPages(st3, a, mid, b, s, n, m, next)
    BY <1>13 DEF SplitPages
  <2>. QED
    BY <1>12, <1>14, <1>16, <2>1 DEF SplitIn
<1>. QED
  BY <1>15, <1>17, PairSplitIn

\* The entries of both leaves are written to the left one.
LEMMA MergedReady ==
    ASSUME NEW st, NEW pg, NEW at, NEW top, NEW M, NEW M2, NEW q, NEW path, NEW c, NEW a, NEW b,
           NEW le, NEW re, NEW next, LeafPair(st, pg, at, top, M, M2, q, path, c, a, b, le, re, next),
           le \o re # <<>>, NEW u, u = write_page(st, Leaf(a, le \o re, next))
    PROVE  Ready(u, q, RemoveAt(pg[q].children, c + 1), at, top, M, M2, 0, path)
<1>1. PairKnown(st, pg, at, top, M, M2, q, c, a, b, le, re, next)
  BY PairFacts
<1>2. /\ IsState(st) /\ Len(st.pages) = Len(pg) /\ Len(pg) \in Nat /\ a \in 1 .. Len(st.pages)
      /\ next \in 0 .. Len(st.pages) /\ le \o re \in Seq(Entries)
  BY <1>1 DEF PairKnown
<1>. DEFINE p == Leaf(a, le \o re, next)
<1>3. Wrote(st, u, a, p)
  BY <1>2, WriteLeaf
<1>. HIDE DEF p
<1>4. Changed(st, u, {a}) /\ (u.err = "none" => u.pages[a] = p)
  BY <1>2, <1>3, ChangedOne, ZenonT(60)
<1>5. u.err = "none" => u.pages[a] = Leaf(a, le \o re, next)
  BY <1>4 DEF p
<1>6. {a} \subseteq {a, b}
  OBVIOUS
<1>. QED
  BY <1>4, <1>5, <1>6, PairMerged

MidWrites(st, u1, u, i, p, x) ==
    /\ IsState(st) /\ i \in 1 .. Len(st.pages)
    /\ Wrote(allocate_node_page(st), u1, i, p) /\ Wrote(u1, u, NextId(st), x)
MidWritten(st, u, i, p, x) ==
    /\ Changed(st, u, {i}) /\ Len(u.pages) = Len(st.pages) + 1
    /\ u.err = "none" => u.pages[i] = p /\ u.pages[NextId(st)] = x
\* What a write to an old page and one to a new page leave.
LEMMA MidFacts ==
    ASSUME NEW st, NEW u1, NEW u, NEW i, NEW p, NEW x, MidWrites(st, u1, u, i, p, x)
    PROVE  MidWritten(st, u, i, p, x)
<1>1. /\ IsState(st) /\ i \in 1 .. Len(st.pages)
      /\ Wrote(allocate_node_page(st), u1, i, p) /\ Wrote(u1, u, NextId(st), x)
  BY DEF MidWrites
<1>. QED
  BY <1>1, ChangedMid, ZenonT(60) DEF MidWritten

\* A leaf is written as two: itself and a new one.
HalvesOf(st, u, a, s, h, new, next) ==
    \E u1 : /\ new = NextId(st) /\ s \in Seq(Entries) /\ h \in Nat /\ 1 <= h /\ h < Len(s)
            /\ u1 = write_page(allocate_node_page(st), Leaf(a, SubSeq(s, 1, h), new))
            /\ u = write_page(u1, Leaf(new, SubSeq(s, h + 1, Len(s)), next))
\* The two halves of a leaf are written.
LEMMA HalvesWritten ==
    ASSUME NEW st, IsState(st), NEW a \in 1 .. Len(st.pages), NEW next \in 0 .. Len(st.pages),
           NEW s, NEW h, NEW new, NEW u, HalvesOf(st, u, a, s, h, new, next)
    PROVE  /\ MidWritten(st, u, a, Leaf(a, SubSeq(s, 1, h), new), Leaf(new, SubSeq(s, h + 1, Len(s)), next))
           /\ new = Len(st.pages) + 1 /\ Len(st.pages) \in Nat
           /\ SubSeq(s, 1, h) \in Seq(Entries) /\ SubSeq(s, h + 1, Len(s)) \in Seq(Entries)
<1>1. PICK u1 : /\ new = NextId(st) /\ s \in Seq(Entries) /\ h \in Nat /\ 1 <= h /\ h < Len(s)
                /\ u1 = write_page(allocate_node_page(st), Leaf(a, SubSeq(s, 1, h), new))
                /\ u = write_page(u1, Leaf(new, SubSeq(s, h + 1, Len(s)), next))
  BY DEF HalvesOf
<1>. DEFINE v == allocate_node_page(st)
            k == Len(st.pages)
            x == SubSeq(s, 1, h)
            y == SubSeq(s, h + 1, Len(s))
<1>3. IsState(v) /\ new = k + 1 /\ Len(v.pages) = k + 1 /\ k \in Nat
  BY <1>1, AllocFacts
<1>4. x \in Seq(Entries) /\ y \in Seq(Entries)
  <2>1. Len(s) \in Nat
    BY <1>1
  <2>2. 1 <= 1 /\ h <= Len(s) /\ 1 <= h + 1 /\ Len(s) <= Len(s) /\ h + 1 <= Len(s) + 1 /\ h + 1 \in Int /\ Len(s) \in Int
        /\ 1 \in Int /\ h \in Int
    BY <1>1, <2>1
  <2>3. x \in Seq(Entries)
    BY <1>1, <2>2, Cut
  <2>4. y \in Seq(Entries)
    BY <1>1, <2>2, Cut
  <2>. QED
    BY <2>3, <2>4
<1>. HIDE DEF v, k, x, y
<1>5. /\ a \in 1 .. k + 1 /\ new \in 1 .. k + 1 /\ new \in 0 .. k + 1 /\ next \in 0 .. k + 1
  BY <1>3 DEF k
<1>6. Wrote(v, u1, a, Leaf(a, x, new))
  BY <1>1, <1>3, <1>4, <1>5, WriteLeaf DEF v, x
<1>7. IsState(u1) /\ Len(u1.pages) = k + 1
  BY <1>3, <1>6 DEF Wrote
<1>8. Wrote(u1, u, new, Leaf(new, y, next))
  BY <1>1, <1>4, <1>5, <1>7, WriteLeaf DEF y
<1>9. MidWrites(st, u1, u, a, Leaf(a, x, new), Leaf(new, y, next))
  BY <1>1, <1>6, <1>8 DEF MidWrites, v
<1>10. MidWritten(st, u, a, Leaf(a, x, new), Leaf(new, y, next))
  BY <1>9, MidFacts
<1>. QED
  BY <1>3, <1>4, <1>10 DEF k, x, y

\* A child of level 0 is a leaf.
LEMMA ChildLeaf ==
    ASSUME NEW st, NEW pg, NEW at, NEW top, NEW M, NEW q, NEW path,
           Place(st, pg, at, top, M, 0, q, path), NEW c, Sides(pg, q, c, c)
    PROVE  LET a == pg[q].children[c]
           IN  /\ IsState(st) /\ st.err = "none" /\ Len(st.pages) = Len(pg) /\ Len(pg) \in Nat
               /\ pg[q].children \in Seq(Int) /\ c \in 1 .. Len(pg[q].children)
               /\ a \in 1 .. Len(pg) /\ a # q /\ LeafBox(pg[a], a, at, M, Len(pg))
<1>1. Spot(pg, at, top, M, 0, q, c, c)
  BY PlaceSpot
<1>2. Tree(pg, at, top, M) /\ IsState(st) /\ st.err = "none" /\ Len(pg) = Len(st.pages)
  BY DEF Place
<1>3. Len(pg) \in Nat
  BY <1>2, TreePages
<1>4. c \in 1 .. Len(pg[q].children)
  BY DEF Sides
<1>. DEFINE a == pg[q].children[c]
<1>5. a \in 1 .. Len(pg) /\ a # q /\ \E w \in DOMAIN M : at[0][w] = a /\ at[0 + 1][w] = q
  BY <1>1, <1>4, ChildFacts
<1>6. PICK w \in DOMAIN M : at[0][w] = a /\ at[0 + 1][w] = q
  BY <1>5
<1>7. LeafBox(pg[a], a, at, M, Len(pg))
  BY <1>2, <1>6, LeafPage
<1>8. pg[q].children \in Seq(Int)
  BY <1>1, SpotFacts
<1>. QED
  BY <1>2, <1>3, <1>4, <1>5, <1>7, <1>8

\* A leaf becomes two under its parent.
LEMMA AloneReady ==
    ASSUME NEW st, NEW pg, NEW at, NEW top, NEW M, NEW q, NEW path,
           Place(st, pg, at, top, M, 0, q, path), NEW c, Sides(pg, q, c, c),
           NEW a, a = pg[q].children[c], Near(st, pg, a, a),
           NEW s, s = pg[a].entries, NEW next, next = pg[a].next, NEW h, NEW new, NEW u,
           HalvesOf(st, u, a, s, h, new, next)
    PROVE  Ready(u, q, InsertAt(pg[q].children, c + 1, new), at, top, M, M, 0, path)
<1>. DEFINE ch == pg[q].children
            n == Len(s)
<1>1. /\ IsState(st) /\ Len(st.pages) = Len(pg) /\ Len(pg) \in Nat
      /\ ch \in Seq(Int) /\ c \in 1 .. Len(ch)
      /\ a \in 1 .. Len(pg) /\ a # q /\ LeafBox(pg[a], a, at, M, Len(pg))
  BY ChildLeaf
<1>2. /\ s \in Seq(Entries) /\ Held(s, M, Block(at, DOMAIN M, 0, a)) /\ next \in 0 .. Len(st.pages)
      /\ n \in Nat
  BY <1>1, SMTT(20) DEF LeafBox
<1>3. /\ h \in Nat /\ 1 <= h /\ h < n
  BY DEF HalvesOf
<1>4. a \in 1 .. Len(st.pages)
  BY <1>1, SMTT(20)
<1>5. /\ MidWritten(st, u, a, Leaf(a, SubSeq(s, 1, h), new), Leaf(new, SubSeq(s, h + 1, n), next))
      /\ new = Len(st.pages) + 1
  BY <1>1, <1>2, <1>4, HalvesWritten
<1>6. /\ Changed(st, u, {a}) /\ Len(u.pages) = Len(st.pages) + 1
      /\ u.err = "none" => /\ u.pages[a] = Leaf(a, SubSeq(s, 1, h), new)
                           /\ u.pages[new] = Leaf(new, SubSeq(s, h + 1, n), next)
  <2>1. NextId(st) = new
    BY DEF HalvesOf
  <2>. QED
    BY <1>5, <2>1 DEF MidWritten
<1>7. u.pages \in Seq(AnyPage)
  BY <1>6, FilePages DEF Changed
<1>8. ASSUME u.err = "none" PROVE LeafFile(pg, u.pages, at, M, M, ch, q, c, c, s, h, n, new)
  <2>1. ASSUME NEW p \in 1 .. Len(pg), p \notin {a, a, q} PROVE u.pages[p] = pg[p]
    <3>1. p \notin {a, a} /\ p \notin {a} /\ p \in 1 .. Len(st.pages)
      BY <1>1, <2>1
    <3>2. st.pages[p] = pg[p]
      BY <3>1 DEF Near
    <3>3. u.pages[p] = st.pages[p]
      BY <1>6, <1>8, <3>1 DEF Changed
    <3>. QED
      BY <3>2, <3>3
  <2>2. Shrunk(M, M, at, a, a)
    BY SMTT(20) DEF Shrunk
  <2>3. Held(s, M, {k \in DOMAIN M : at[0][k] \in {a, a}})
    <3>1. {k \in DOMAIN M : at[0][k] \in {a, a}} = Block(at, DOMAIN M, 0, a)
      BY DEF Block
    <3>. QED
      BY <1>2, <3>1
  <2>4. /\ h \in Nat /\ n \in Nat /\ 1 <= h /\ h <= n /\ n <= n /\ n > h /\ ~(n < n)
        /\ new \in Len(pg) + 1 .. Len(u.pages) /\ Len(pg) <= Len(u.pages) /\ n = Len(s)
    <3>1. Len(u.pages) = Len(st.pages) + 1
      BY <1>6, SMTT(20)
    <3>2. new = Len(pg) + 1 /\ Len(u.pages) = Len(pg) + 1 /\ Len(pg) \in Nat
      BY <1>1, <1>5, <3>1
    <3>3. new \in Len(pg) + 1 .. Len(u.pages) /\ Len(pg) <= Len(u.pages)
      BY <3>2, SMTT(20)
    <3>4. /\ h \in Nat /\ n \in Nat /\ 1 <= h /\ h <= n /\ n <= n /\ n > h /\ ~(n < n) /\ n = Len(s)
      <4>1. h \in Nat /\ n \in Nat /\ 1 <= h /\ h < n
        BY <1>2, <1>3
      <4>2. n = Len(s)
        OBVIOUS
      <4>. HIDE DEF n
      <4>3. h <= n /\ n <= n /\ n > h /\ ~(n < n)
        BY <4>1, SMTT(20)
      <4>. QED
        BY <4>1, <4>2, <4>3, SMTT(20)
    <3>. QED
      BY <3>3, <3>4
  <2>5. /\ u.pages[a] = Leaf(a, SubSeq(s, 1, h), new)
        /\ u.pages[new] = Leaf(new, SubSeq(s, h + 1, n), next)
    BY <1>6, <1>8
  <2>6. a = ch[c] /\ next = pg[a].next
    OBVIOUS
  <2>. HIDE DEF ch, n
  <2>. QED
    BY <1>7, <2>1, <2>2, <2>3, <2>4, <2>5, <2>6 DEF LeafFile
<1>. HIDE DEF ch
<1>9. ch = pg[q].children /\ DOMAIN M \subseteq DOMAIN M
  BY DEF ch
<1>10. Ready(u, q, NewRow(ch, c, c, h, n, n, new), at, top, M, M, 0, path)
  <2>1. /\ Place(st, pg, at, top, M, 0, q, path) /\ Sides(pg, q, c, c) /\ Changed(st, u, {a})
        /\ u.err = "none" => LeafFile(pg, u.pages, at, M, M, ch, q, c, c, s, h, n, new)
    BY <1>6, <1>8
  <2>2. n = Len(s)
    OBVIOUS
  <2>. HIDE DEF n
  <2>4. Ready(u, q, NewRow(ch, c, c, h, n, Len(s), new), at, top, M, M, 0, path)
    BY <1>9, <2>1, LeafReady, ZenonT(60)
  <2>. QED
    BY <2>2, <2>4, SMTT(20)
<1>11. NewRow(ch, c, c, h, n, n, new) = InsertAt(ch, c + 1, new)
  BY <1>2, <1>3 DEF NewRow
<1>. QED
  BY <1>10, <1>11 DEF ch

\* The page above the end of a path.
LEMMA UpPath ==
    ASSUME NEW path, NEW at, NEW top, top \in Nat, NEW l, l \in 0 .. top, l # top, NEW w,
           PathIs(path, at, top, l, w)
    PROVE  /\ Len(path) # 1 /\ path[Len(path) - 1] = at[l + 1][w]
           /\ PathIs(ParentPath(path), at, top, l + 1, w)
<1>1. /\ Len(path) = top + 1 - l /\ path = [i \in 1 .. top + 1 - l |-> at[top + 1 - i][w]]
      /\ l \in Nat /\ l < top
  BY PathParts DEF PathFacts, PathIs
<1>. DEFINE n == top + 1 - l
<1>2. n \in Nat /\ n >= 2 /\ n - 1 \in 1 .. n /\ n - 1 = top + 1 - (l + 1) /\ top + 1 - (n - 1) = l + 1
  BY <1>1
<1>3. Len(path) = n /\ path = [i \in 1 .. n |-> at[top + 1 - i][w]]
  BY <1>1
<1>. HIDE DEF n
<1>4. path[n - 1] = at[top + 1 - (n - 1)][w]
  BY <1>2, <1>3
<1>5. ParentPath(path) = [i \in 1 .. n - 1 |-> at[top + 1 - i][w]]
  <2>1. ParentPath(path) = SubSeq([i \in 1 .. n |-> at[top + 1 - i][w]], 1, n - 1)
    BY <1>3 DEF ParentPath
  <2>. DEFINE g == [i \in 1 .. n |-> at[top + 1 - i][w]]
  <2>. DEFINE V == {at[top + 1 - i][w] : i \in 1 .. n}
  <2>2. g \in Seq(V) /\ Len(g) = n
    <3>1. g \in [1 .. n -> V]
      OBVIOUS
    <3>2. DOMAIN g = 1 .. n
      OBVIOUS
    <3>. HIDE DEF g, V
    <3>3. g \in Seq(V)
      BY <1>2, <3>1, SeqIs
    <3>. QED
      BY <1>2, <3>2, <3>3
  <2>3. \A i \in 1 .. n : g[i] = at[top + 1 - i][w]
    OBVIOUS
  <2>. HIDE DEF g
  <2>4. SubSeq(g, 1, n - 1) = [i \in 1 .. n - 1 |-> g[i]]
    BY <1>2, <2>2
  <2>5. [i \in 1 .. n - 1 |-> g[i]] = [i \in 1 .. n - 1 |-> at[top + 1 - i][w]]
    <3>1. \A i \in 1 .. n - 1 : i \in 1 .. n
      BY <1>2
    <3>2. \A i \in 1 .. n - 1 : g[i] = at[top + 1 - i][w]
      BY <2>3, <3>1
    <3>. QED
      BY <3>2
  <2>. QED
    BY <2>1, <2>4, <2>5 DEF g
<1>. QED
  BY <1>2, <1>3, <1>4, <1>5 DEF PathIs

\* The page at the end of a path, its parent and its position there.
Under1(st, pg, at, top, M, l, w, path) ==
    LET q == at[l + 1][w]
        x == at[l][w]
        up == ParentPath(path)
        parent == ParentOf(st, path)
        c == ChildIndex(parent, x)
    IN  /\ Len(path) # 1 /\ parent = pg[q] /\ parent.id = q /\ path[Len(path) - 1] = q
        /\ Place(st, pg, at, top, M, l, q, up)
        /\ parent.children \in Seq(Int) /\ c \in 1 .. Len(parent.children) /\ Len(parent.children) \in Nat
        /\ c \in Nat /\ parent.children[c] = x /\ x \in 1 .. Len(pg) /\ x # q
\* Where the page that waits stands under its parent.
LEMMA PendPlace ==
    ASSUME NEW st, IsState(st), st.call = NoCall, st.err = "none",
           NEW pg, NEW at, NEW top, NEW M, Tree(pg, at, top, M), RootOK(at, top, DOMAIN M, st.root),
           FirstOK(at, DOMAIN M, st.first), Len(pg) = Len(st.pages),
           NEW l, l \in 0 .. top, l # top, NEW w, w \in DOMAIN M, NEW path, PathIs(path, at, top, l, w),
           Near(st, pg, at[l][w], at[l][w])
    PROVE  Under1(st, pg, at, top, M, l, w, path)
<1>. DEFINE q == at[l + 1][w]
            x == at[l][w]
<1>1. /\ Grid(at, top, DOMAIN M, Len(pg)) /\ top \in Nat /\ Len(pg) \in Nat
      /\ \A m \in 0 .. top : at[m][w] \in 1 .. Len(pg)
  BY TreePages
<1>2. l \in Nat /\ l + 1 \in 0 .. top /\ l + 1 # l
  BY <1>1
<1>3. x \in 1 .. Len(pg) /\ q \in 1 .. Len(pg) /\ x # q
  BY <1>1, <1>2, Apart
<1>4. /\ Len(path) # 1 /\ path[Len(path) - 1] = q /\ PathIs(ParentPath(path), at, top, l + 1, w)
  BY <1>1, UpPath
<1>5. ParentOf(st, path) = pg[q]
  <2>1. q \notin {x, x}
    BY <1>3
  <2>. QED
    BY <1>3, <1>4, <2>1 DEF Near, ParentOf
<1>6. PathAll(ParentPath(path), at, top, DOMAIN M, l + 1, q)
  <2>1. ASSUME NEW v \in DOMAIN M, at[l + 1][v] = q PROVE PathIs(ParentPath(path), at, top, l + 1, v)
    <3>1. ASSUME NEW i \in 1 .. top + 1 - (l + 1) PROVE at[top + 1 - i][w] = at[top + 1 - i][v]
      <4>1. top + 1 - i \in 0 .. top /\ l + 1 <= top + 1 - i
        BY <1>1, <1>2
      <4>. QED
        BY <1>1, <1>2, <2>1, <4>1, Nested, SMTT(20)
    <3>2. [i \in 1 .. top + 1 - (l + 1) |-> at[top + 1 - i][w]] = [i \in 1 .. top + 1 - (l + 1) |-> at[top + 1 - i][v]]
      BY <3>1
    <3>. QED
      BY <1>4, <3>2 DEF PathIs
  <2>. QED
    BY <2>1 DEF PathAll
<1>7. Place(st, pg, at, top, M, l, q, ParentPath(path))
  BY <1>6 DEF Place
<1>8. /\ pg[q].id = q /\ Row(pg[q].children, at, DOMAIN M, l, Block(at, DOMAIN M, l + 1, q))
      /\ \E j \in 1 .. Len(pg[q].children) : pg[q].children[j] = x
  BY <1>1, InnerHere
<1>9. pg[q].children \in Seq(Int)
  BY <1>8 DEF Row
<1>. DEFINE c == ChildIndex(pg[q], x)
<1>10. c \in 1 .. Len(pg[q].children) /\ pg[q].children[c] = x
  BY <1>8, ChildIndexIs
<1>11. Len(pg[q].children) \in Nat /\ c \in Nat
  BY <1>9, <1>10
<1>. HIDE DEF c
<1>. QED
  BY <1>3, <1>4, <1>5, <1>7, <1>8, <1>9, <1>10, <1>11 DEF Under1, c

\* Entries in key order stay as they are when they are sorted.
LEMMA SortedSame ==
    ASSUME NEW s, NEW M, NEW S, Held(s, M, S)
    PROVE  SortedEntries(s) = s
<1>. DEFINE n == Len(s)
            Upto(i) == {j \in 1 .. n : \/ s[j].key < s[i].key
                                       \/ s[j].key = s[i].key /\ j <= i}
            Rank(i) == Cardinality(Upto(i))
<1>1. /\ n \in Nat /\ s \in Seq(Entries) /\ s = [i \in 1 .. n |-> s[i]]
      /\ \A i \in 1 .. n : s[i].key \in Int
      /\ \A i, j \in 1 .. n : i < j => s[i].key < s[j].key
  <2>1. s \in Seq(Entries) /\ \A i, j \in 1 .. n : i < j => s[i].key < s[j].key
    BY DEF Held
  <2>2. \A e \in Entries : e.key \in Int
    BY KeysAre DEF Entries
  <2>3. \A i \in 1 .. n : s[i] \in Entries
    BY <2>1
  <2>4. s = [i \in 1 .. n |-> s[i]] /\ n \in Nat
    BY <2>1
  <2>. QED
    BY <2>1, <2>2, <2>3, <2>4
<1>. HIDE DEF n
<1>2. ASSUME NEW i \in 1 .. n PROVE Rank(i) = i
  <2>1. ASSUME NEW j \in 1 .. n
        PROVE  (s[j].key < s[i].key \/ (s[j].key = s[i].key /\ j <= i)) <=> j \in 1 .. i
    <3>1. i \in Nat /\ j \in Nat /\ 1 <= j /\ (j < i \/ j = i \/ i < j) /\ s[i].key \in Int /\ s[j].key \in Int
      BY <1>1
    <3>2. CASE j < i
      BY <1>1, <3>1, <3>2
    <3>3. CASE j = i
      BY <3>1, <3>3
    <3>4. CASE i < j
      <4>1. s[i].key < s[j].key
        BY <1>1, <3>4
      <4>. QED
        BY <3>1, <3>4, <4>1
    <3>. QED
      BY <3>1, <3>2, <3>3, <3>4
  <2>2. 1 .. i \subseteq 1 .. n
    BY <1>1
  <2>5. \A j \in 1 .. n : (s[j].key < s[i].key \/ (s[j].key = s[i].key /\ j <= i)) <=> j \in 1 .. i
    BY <2>1
  <2>6. \A j : j \in Upto(i) <=> j \in 1 .. n /\ (s[j].key < s[i].key \/ (s[j].key = s[i].key /\ j <= i))
    BY Zenon
  <2>. HIDE DEF Upto
  <2>7. \A j : j \in Upto(i) <=> j \in 1 .. i
    BY <2>2, <2>5, <2>6, Zenon
  <2>3. Upto(i) = 1 .. i
    BY <2>7
  <2>4. Cardinality(1 .. i) = i
    <3>1. i \in Int /\ 1 \in Int /\ 1 <= i /\ i - 1 + 1 = i
      BY <1>1
    <3>. QED
      BY <3>1, FS_Interval
  <2>. QED
    BY <2>3, <2>4
<1>. HIDE DEF Rank
<1>3. ASSUME NEW k \in 1 .. n PROVE (CHOOSE i \in 1 .. n : Rank(i) = k) = k
  BY <1>2
<1>4. SortedEntries(s) = [k \in 1 .. n |-> s[CHOOSE i \in 1 .. n : Rank(i) = k]]
  BY DEF SortedEntries, n, Rank, Upto
<1>. DEFINE At(k) == CHOOSE i \in 1 .. n : Rank(i) = k
<1>5. \A k \in 1 .. n : At(k) = k
  BY <1>3
<1>6. SortedEntries(s) = [k \in 1 .. n |-> s[At(k)]]
  BY <1>4
<1>. HIDE DEF At
<1>7. [k \in 1 .. n |-> s[At(k)]] = [k \in 1 .. n |-> s[k]]
  BY <1>5, Zenon
<1>. QED
  BY <1>1, <1>6, <1>7

\* A leaf and its neighbour to the right, as they are in the tree.
PairHere(st, pg, at, top, M, q, path, c, a, b) ==
    /\ LeafPair(st, pg, at, top, M, M, q, path, c, a, b, pg[a].entries, pg[b].entries, pg[b].next)
    /\ a # b /\ a \in 1 .. Len(pg) /\ b \in 1 .. Len(pg)
    /\ pg[a] = Leaf(a, pg[a].entries, b) /\ pg[b] = Leaf(b, pg[b].entries, pg[b].next)
    /\ pg[a].entries \in Seq(Entries) /\ pg[b].entries \in Seq(Entries)
    /\ pg[a].entries # <<>> /\ pg[b].entries # <<>> /\ pg[b].next \in 0 .. Len(pg)
\* Two neighbouring leaves of the tree.
LEMMA LeavesHere ==
    ASSUME NEW st, NEW pg, NEW at, NEW top, NEW M, NEW q, NEW path,
           Place(st, pg, at, top, M, 0, q, path), NEW c, Sides(pg, q, c, c + 1),
           NEW a, a = pg[q].children[c], NEW b, b = pg[q].children[c + 1], Near(st, pg, a, b)
    PROVE  PairHere(st, pg, at, top, M, q, path, c, a, b)
<1>1. Spot(pg, at, top, M, 0, q, c, c + 1)
  BY PlaceSpot
<1>2. Tree(pg, at, top, M)
  BY DEF Place
<1>3. c \in 1 .. Len(pg[q].children) /\ c + 1 \in 1 .. Len(pg[q].children)
  BY <1>1, SpotFacts
<1>4. /\ a \in 1 .. Len(pg) /\ \E w \in DOMAIN M : at[0][w] = a /\ at[0 + 1][w] = q
      /\ ChildIndex(pg[q], a) = c
  BY <1>1, <1>3, ChildFacts, SMTT(20)
<1>5. /\ b \in 1 .. Len(pg) /\ \E w \in DOMAIN M : at[0][w] = b /\ at[0 + 1][w] = q
      /\ ChildIndex(pg[q], b) = c + 1
  BY <1>1, <1>3, ChildFacts
<1>6. LeafBox(pg[a], a, at, M, Len(pg))
  BY <1>2, <1>4, LeafPage
<1>7. LeafBox(pg[b], b, at, M, Len(pg))
  BY <1>2, <1>5, LeafPage
<1>8. LeafPair(st, pg, at, top, M, M, q, path, c, a, b, pg[a].entries, pg[b].entries, pg[b].next)
  <2>1. Shrunk(M, M, at, a, b)
    BY Zenon DEF Shrunk
  <2>2. Held(pg[a].entries, M, Block(at, DOMAIN M, 0, a)) /\ Held(pg[b].entries, M, Block(at, DOMAIN M, 0, b))
    BY <1>6, <1>7, Zenon DEF LeafBox
  <2>. QED
    BY <2>1, <2>2 DEF LeafPair
<1>9. PairKnown(st, pg, at, top, M, M, q, c, a, b, pg[a].entries, pg[b].entries, pg[b].next)
  BY <1>8, PairFacts, SMTT(20)
<1>10. pg[a].next = b /\ a # b
  BY <1>9 DEF PairKnown
<1>. QED
  BY <1>4, <1>5, <1>6, <1>7, <1>8, <1>10, Zenon DEF PairHere, LeafBox

\* An entry moves over the border of two sequences.
LEMMA MoveRight ==
    ASSUME NEW S, NEW s \in Seq(S), NEW u \in Seq(S), s # <<>>
    PROVE  /\ Front(s) \o (<<Last(s)>> \o u) = s \o u
           /\ Front(s) \in Seq(S) /\ <<Last(s)>> \o u \in Seq(S) /\ <<Last(s)>> \o u # <<>>
           /\ Len(Front(s)) = Len(s) - 1
<1>1. Front(s) \in Seq(S) /\ Len(Front(s)) = Len(s) - 1 /\ \A i \in 1 .. Len(s) - 1 : Front(s)[i] = s[i]
  <2>1. /\ 1 \in Int /\ Len(s) - 1 \in Int /\ 1 <= 1 /\ Len(s) - 1 <= Len(s) /\ 1 <= Len(s) - 1 + 1
        /\ Len(s) - 1 - 1 + 1 = Len(s) - 1 /\ \A i \in 1 .. Len(s) - 1 : i + 1 - 1 = i /\ 1 + i - 1 = i
    OBVIOUS
  <2>2. /\ SubSeq(s, 1, Len(s) - 1) \in Seq(S) /\ Len(SubSeq(s, 1, Len(s) - 1)) = Len(s) - 1
        /\ \A i \in 1 .. Len(s) - 1 : SubSeq(s, 1, Len(s) - 1)[i] = s[i]
    BY <2>1, Cut
  <2>. QED
    BY <2>2 DEF Front
<1>2. Last(s) \in S /\ Last(s) = s[Len(s)]
  BY Ends DEF Last
<1>. DEFINE f == Front(s)
            e == Last(s)
<1>3. f \in Seq(S) /\ Len(f) = Len(s) - 1 /\ (\A i \in 1 .. Len(s) - 1 : f[i] = s[i])
      /\ e \in S /\ e = s[Len(s)]
  BY <1>1, <1>2
<1>. HIDE DEF f, e
<1>4. f \o (<<e>> \o u) = s \o u
  <2>. DEFINE g == <<e>> \o u
              n == Len(s)
              k == Len(u)
  <2>1. n \in Nat /\ k \in Nat /\ n >= 1
    OBVIOUS
  <2>2. /\ g \in Seq(S) /\ Len(g) = k + 1 /\ g[1] = e /\ \A i \in 1 .. k : g[i + 1] = u[i]
    BY <1>3
  <2>3. Len(f) = n - 1 /\ e = s[n] /\ f \in Seq(S) /\ \A i \in 1 .. n - 1 : f[i] = s[i]
    BY <1>3
  <2>4. /\ s \o u \in Seq(S) /\ Len(s \o u) = n + k
        /\ \A i \in 1 .. n + k : (s \o u)[i] = IF i <= n THEN s[i] ELSE u[i - n]
    BY Joined
  <2>. HIDE DEF g, n, k
  <2>5. /\ f \o g \in Seq(S) /\ Len(f \o g) = n - 1 + (k + 1)
        /\ \A i \in 1 .. n - 1 + (k + 1) : (f \o g)[i] = IF i <= n - 1 THEN f[i] ELSE g[i - (n - 1)]
    <3>1. f \in Seq(S) /\ g \in Seq(S)
      BY <2>2, <2>3
    <3>2. /\ f \o g \in Seq(S) /\ Len(f \o g) = Len(f) + Len(g)
          /\ \A i \in 1 .. Len(f) + Len(g) : (f \o g)[i] = IF i <= Len(f) THEN f[i] ELSE g[i - Len(f)]
      BY <3>1, Joined
    <3>. QED
      BY <2>2, <2>3, <3>2
  <2>6. ASSUME NEW i \in 1 .. n + k PROVE (f \o g)[i] = (s \o u)[i]
    <3>1. CASE i <= n - 1
      BY <2>1, <2>3, <2>4, <2>5, <3>1, SMTT(20)
    <3>2. CASE i = n
      BY <2>1, <2>2, <2>3, <2>4, <2>5, <3>2, SMTT(20)
    <3>3. CASE i > n
      <4>1. i - n \in 1 .. k /\ i - (n - 1) = i - n + 1 /\ ~(i <= n - 1) /\ ~(i <= n) /\ i \in 1 .. n - 1 + (k + 1)
        BY <2>1, <3>3
      <4>. QED
        BY <2>2, <2>4, <2>5, <4>1
    <3>4. i <= n - 1 \/ i = n \/ i > n
      BY <2>1
    <3>. QED
      BY <3>1, <3>2, <3>3, <3>4, Zenon
  <2>7. Len(f \o g) = n + k
    BY <2>1, <2>5
  <2>8. f \o g = s \o u
    <3>1. f \o g \in Seq(S) /\ s \o u \in Seq(S) /\ Len(f \o g) = Len(s \o u)
      BY <2>4, <2>5, <2>7
    <3>2. \A i \in 1 .. Len(f \o g) : (f \o g)[i] = (s \o u)[i]
      BY <2>6, <2>7
    <3>. QED
      BY <3>1, <3>2, SameSeq
  <2>. QED
    BY <2>8 DEF g
<1>5. <<e>> \o u \in Seq(S) /\ <<e>> \o u # <<>>
  BY <1>3
<1>. QED
  BY <1>3, <1>4, <1>5 DEF f, e
\* The first element of the right sequence goes to the left one.
LEMMA MoveLeft ==
    ASSUME NEW S, NEW s \in Seq(S), NEW u \in Seq(S), u # <<>>
    PROVE  /\ Append(s, Head(u)) \o Tail(u) = s \o u
           /\ Append(s, Head(u)) \in Seq(S) /\ Append(s, Head(u)) # <<>> /\ Tail(u) \in Seq(S)
           /\ Len(Tail(u)) = Len(u) - 1
<1>1. Head(u) \in S /\ Head(u) = u[1] /\ Tail(u) \in Seq(S) /\ Len(Tail(u)) = Len(u) - 1
      /\ \A i \in 1 .. Len(u) - 1 : Tail(u)[i] = u[i + 1]
  OBVIOUS
<1>. QED
  BY <1>1

\* The three parts of ThreeWay.
Cut1(s) == three_way_counts(Len(s))[1]
Cut2(s) == three_way_counts(Len(s))[1] + three_way_counts(Len(s))[2]
\* ThreeWay cuts a sequence at Cut1 and Cut2; three elements make three parts.
LEMMA ThreeWayFacts ==
    ASSUME NEW S, NEW s \in Seq(S)
    PROVE  /\ Cut1(s) \in Nat /\ Cut2(s) \in Nat /\ Cut1(s) <= Cut2(s) /\ Cut2(s) <= Len(s)
           /\ ThreeWay(s)[1] = SubSeq(s, 1, Cut1(s))
           /\ ThreeWay(s)[2] = SubSeq(s, Cut1(s) + 1, Cut2(s))
           /\ ThreeWay(s)[3] = SubSeq(s, Cut2(s) + 1, Len(s))
           /\ ThreeWay(s)[1] # <<>> <=> 1 <= Cut1(s)
           /\ ThreeWay(s)[2] # <<>> <=> Cut1(s) < Cut2(s)
           /\ ThreeWay(s)[3] # <<>> <=> Cut2(s) < Len(s)
           /\ Len(s) >= 3 => 1 <= Cut1(s) /\ Cut1(s) < Cut2(s) /\ Cut2(s) < Len(s)
           /\ Len(s) >= 2 => 1 <= Cut1(s) /\ Cut1(s) < Cut2(s)
<1>. DEFINE k == Len(s)
            n == Cut1(s)
            d == three_way_counts(Len(s))[2]
            m == Cut2(s)
<1>1. k \in Nat
  OBVIOUS
<1>2. n = (k + 2) \div 3 /\ d = (k - n + 1) \div 2 /\ m = n + d
  BY DEF Cut1, Cut2, three_way_counts
<1>3. /\ ThreeWay(s)[1] = SubSeq(s, 1, n) /\ ThreeWay(s)[2] = SubSeq(s, n + 1, m)
      /\ ThreeWay(s)[3] = SubSeq(s, m + 1, k)
  BY DEF ThreeWay, Cut1, Cut2
<1>. HIDE DEF k, n, d, m
<1>4. /\ n \in Nat /\ 3 * n <= k + 2 /\ k + 2 < 3 * n + 3
      /\ n <= k
  BY <1>1, <1>2
<1>5. d \in Nat /\ 2 * d <= k - n + 1 /\ k - n + 1 < 2 * d + 2
  BY <1>1, <1>2, <1>4
<1>6. /\ m \in Nat /\ n <= m /\ m <= k
      /\ k >= 3 => 1 <= n /\ n < m /\ m < k
      /\ k >= 2 => 1 <= n /\ n < m
  BY <1>1, <1>2, <1>4, <1>5
<1>7. ASSUME NEW i \in Int, NEW j \in Int, 1 <= i, j <= k, i <= j + 1
      PROVE  SubSeq(s, i, j) # <<>> <=> i <= j
  <2>1. Len(SubSeq(s, i, j)) = j - i + 1 /\ SubSeq(s, i, j) \in Seq(S)
    BY <1>7, Cut DEF k
  <2>2. \A t \in Seq(S) : t # <<>> <=> Len(t) >= 1
    OBVIOUS
  <2>3. j - i + 1 >= 1 <=> i <= j
    OBVIOUS
  <2>. DEFINE t == SubSeq(s, i, j)
  <2>4. t \in Seq(S) /\ Len(t) = j - i + 1
    BY <2>1
  <2>. HIDE DEF t
  <2>5. t # <<>> <=> i <= j
    BY <2>2, <2>3, <2>4
  <2>. QED
    BY <2>5 DEF t
<1>8. SubSeq(s, 1, n) # <<>> <=> 1 <= n
  BY <1>1, <1>4, <1>7
<1>9. SubSeq(s, n + 1, m) # <<>> <=> n < m
  BY <1>1, <1>4, <1>6, <1>7
<1>10. SubSeq(s, m + 1, k) # <<>> <=> m < k
  BY <1>1, <1>6, <1>7
<1>. QED
  BY <1>3, <1>4, <1>6, <1>8, <1>9, <1>10 DEF k, n, m

\* parent is page q, in its children at least.
IsParent(parent, pg, q) == parent.id = q /\ parent.children = pg[q].children
\* One leaf gives an entry to its neighbour; both are written, in either order.
LEMMA GiveEnd ==
    ASSUME NEW st, NEW pg, NEW at, NEW top, NEW M, NEW M2, NEW q, NEW path, NEW c, NEW a, NEW b,
           NEW le, NEW re, NEW next, LeafPair(st, pg, at, top, M, M2, q, path, c, a, b, le, re, next),
           NEW x, NEW y, x \o y = le \o re, x \in Seq(Entries), y \in Seq(Entries), x # <<>>, y # <<>>,
           NEW p, p = Leaf(a, x, b), NEW r, r = Leaf(b, y, next), NEW parent, IsParent(parent, pg, q)
    PROVE  /\ Good(GiveLeaf(st, p, r, parent), M2) /\ Good(GiveLeaf(st, r, p, parent), M2)
           /\ Good(propagate_subtree_min_change(GiveLeaf(st, p, r, parent), path), M2)
           /\ Good(propagate_subtree_min_change(GiveLeaf(st, r, p, parent), path), M2)
<1>1. /\ Ready(write_page(write_page(st, p), r), q, pg[q].children, at, top, M, M2, 0, path)
      /\ Ready(write_page(write_page(st, r), p), q, pg[q].children, at, top, M, M2, 0, path)
  BY MovedReady
<1>2. ASSUME NEW u, Ready(u, q, pg[q].children, at, top, M, M2, 0, path)
      PROVE  /\ Good(WriteRebuilt(u, parent.id, parent.children), M2)
             /\ Good(propagate_subtree_min_change(WriteRebuilt(u, parent.id, parent.children), path), M2)
  <2>1. Good(WriteRebuilt(u, q, pg[q].children), M2)
    BY <1>2, RebuildEnd
  <2>2. Good(propagate_subtree_min_change(WriteRebuilt(u, q, pg[q].children), path), M2)
    BY <1>2, PropagateEnd
  <2>. QED
    BY <2>1, <2>2 DEF IsParent
<1>. QED
  BY <1>1, <1>2 DEF GiveLeaf

SplitsPair(st, left, right, parent, c, a, b, le, re, next) ==
    /\ left.id = a /\ left.entries = le /\ right.id = b /\ right.entries = re /\ right.next = next
    /\ ChildIndex(parent, a) = c
\* split_leaf_pair ends the call or leaves it to split_internal.
LEMMA SplitPairEnd ==
    ASSUME NEW st, NEW pg, NEW at, NEW top, NEW M, NEW M2, NEW q, NEW path, NEW c, NEW a, NEW b,
           NEW le, NEW re, NEW next, LeafPair(st, pg, at, top, M, M2, q, path, c, a, b, le, re, next),
           NEW parent, IsParent(parent, pg, q), NEW left, NEW right,
           SplitsPair(st, left, right, parent, c, a, b, le, re, next)
    PROVE  Good(split_leaf_pair(st, left, right, parent, path), M2)
<1>1. PairKnown(st, pg, at, top, M, M2, q, c, a, b, le, re, next)
  BY PairFacts
<1>. DEFINE s == le \o re
            t == ThreeWay(s)
            n == Cut1(s)
            m == Cut2(s)
            v == allocate_node_page(st)
            mid == NextId(st)
            st1 == write_page(v, Leaf(a, t[1], mid))
            st2 == write_page(st1, Leaf(mid, t[2], b))
            st3 == write_page(st2, Leaf(b, t[3], next))
            ch2 == InsertAt(pg[q].children, c + 1, mid)
<1>2. s \in Seq(Entries) /\ IsState(st) /\ Held(s, M2, {k \in DOMAIN M2 : at[0][k] \in {a, b}})
  BY <1>1 DEF PairKnown
<1>3. SortedEntries(left.entries \o right.entries) = s
  BY <1>2, SortedSame DEF SplitsPair
<1>4. /\ n \in Nat /\ m \in Nat
      /\ t[1] = SubSeq(s, 1, n) /\ t[2] = SubSeq(s, n + 1, m) /\ t[3] = SubSeq(s, m + 1, Len(s))
      /\ t[1] # <<>> => 1 <= n
      /\ t[2] # <<>> => n < m
      /\ t[3] # <<>> => m < Len(s)
  BY <1>2, ThreeWayFacts
<1>5. split_leaf_pair(st, left, right, parent, path) =
        IF \E i \in 1 .. 3 : t[i] = <<>> THEN Throw(v, "logic") ELSE WriteOrSplit(st3, q, ch2, path)
  BY <1>3 DEF split_leaf_pair, SplitsPair, IsParent
<1>6. CASE \E i \in 1 .. 3 : t[i] = <<>>
  <2>1. IsState(v)
    BY <1>2, AllocFacts
  <2>2. IsState(Throw(v, "logic")) /\ Throw(v, "logic").err # "none"
    BY <2>1, ThrowFacts
  <2>3. Good(Throw(v, "logic"), M2)
    BY <2>2, ErrGood
  <2>. QED
    BY <1>5, <1>6, <2>3
<1>7. CASE ~ \E i \in 1 .. 3 : t[i] = <<>>
  <2>1. t[1] # <<>> /\ t[2] # <<>> /\ t[3] # <<>>
    BY <1>7
  <2>2. 1 <= n /\ n < m /\ m < Len(s)
    BY <1>4, <2>1
  <2>3. /\ st1 = write_page(allocate_node_page(st), Leaf(a, SubSeq(s, 1, n), mid))
        /\ st2 = write_page(st1, Leaf(mid, SubSeq(s, n + 1, m), b))
        /\ st3 = write_page(st2, Leaf(b, SubSeq(s, m + 1, Len(s)), next))
    BY <1>4
  <2>4. s = le \o re /\ mid = NextId(st)
    OBVIOUS
  <2>. HIDE DEF st1, st2, st3, s, t, n, m, v, mid
  <2>5. Ready(st3, q, InsertAt(pg[q].children, c + 1, mid), at, top, M, M2, 0, path)
    BY <1>4, <2>2, <2>3, <2>4, SplitReady
  <2>6. Good(WriteOrSplit(st3, q, ch2, path), M2)
    BY <2>5, SplitEnd
  <2>. QED
    BY <1>5, <1>7, <2>6
<1>. QED
  BY <1>6, <1>7

\* A root r above the leaves x and y, which hold the entries s, cut at h.
RootPair(pg, r, x, y, s, h, M) ==
    /\ pg[x] = Leaf(x, SubSeq(s, 1, h), y) /\ pg[y] = Leaf(y, SubSeq(s, h + 1, Len(s)), 0)
    /\ pg[r] = Inner(r, <<x, y>>, <<Head(SubSeq(s, h + 1, Len(s))).key>>)
    /\ Len(pg) \in Nat /\ x \in 1 .. Len(pg) /\ y \in 1 .. Len(pg) /\ r \in 1 .. Len(pg)
    /\ x # y /\ x # r /\ y # r
    /\ Held(s, M, DOMAIN M) /\ DOMAIN M \subseteq Keys /\ h \in Nat /\ 1 <= h /\ h < Len(s)
\* A new root above two leaves is a tree.
LEMMA RootPairTree ==
    ASSUME NEW pg, NEW r, NEW x, NEW y, NEW s, NEW h, NEW M, RootPair(pg, r, x, y, s, h, M)
    PROVE  Settled(pg, r, x, M)
<1>. DEFINE K == DOMAIN M
            n == Len(pg)
            e1 == SubSeq(s, 1, h)
            e2 == SubSeq(s, h + 1, Len(s))
<1>1. /\ pg[x] = Leaf(x, e1, y) /\ pg[y] = Leaf(y, e2, 0) /\ pg[r] = Inner(r, <<x, y>>, <<Head(e2).key>>)
      /\ n \in Nat /\ x \in 1 .. n /\ y \in 1 .. n /\ r \in 1 .. n
      /\ x # y /\ x # r /\ y # r
      /\ Held(s, M, K) /\ K \subseteq Keys /\ h \in Nat /\ 1 <= h /\ h < Len(s)
  BY DEF RootPair
<1>2. K \subseteq Int
  BY <1>1, KeysAre
<1>3. PICK A, B : /\ Held(e1, M, A) /\ Held(e2, M, B) /\ K = A \cup B /\ Before(A, B) /\ A # {} /\ B # {}
  <2>1. s \in Seq(Entries) /\ Len(s) \in Nat /\ Len(s) <= Len(s) /\ h <= Len(s)
    BY <1>1 DEF Held
  <2>2. HeldParts(s, M, K, h, Len(s))
    BY <1>1, <2>1, HeldCut
  <2>. HIDE DEF K, e1, e2
  <2>3. PICK A, B, C :
      /\ Held(e1, M, A) /\ Held(e2, M, B)
      /\ K = A \cup B \cup C /\ Before(A, B)
      /\ (A = {} <=> h = 0) /\ (B = {} <=> Len(s) = h) /\ (C = {} <=> Len(s) = Len(s))
    BY <2>2 DEF HeldParts, e1, e2
  <2>4. C = {} /\ h # 0 /\ Len(s) # h
    BY <1>1, <2>1, <2>3
  <2>. QED
    BY <2>3, <2>4
<1>. DEFINE at == [l \in Nat |-> [k \in Int |-> IF l = 0 THEN IF k \in A THEN x ELSE y ELSE r]]
<1>4. /\ \A k \in A : k \in Int /\ k \in K /\ at[0][k] = x
      /\ \A k \in B : k \in Int /\ k \in K /\ at[0][k] = y
      /\ \A k \in K : at[1][k] = r
      /\ at \in [Nat -> [Int -> Int]]
      /\ \A i \in A, j \in B : i < j
  <2>1. \A i \in A, j \in B : i < j
    BY <1>3 DEF Before
  <2>2. \A k \in A \cup B : k \in Int /\ k \in K
    BY <1>2, <1>3
  <2>3. \A k \in B : k \notin A
    <3>1. \A k \in B : ~(k < k)
      BY <2>2
    <3>. QED
      BY <2>1, <3>1
  <2>4. at \in [Nat -> [Int -> Int]]
    BY <1>1
  <2>5. 0 \in Nat /\ 1 \in Nat /\ 1 # 0
    OBVIOUS
  <2>6. (\A k \in Int : at[0][k] = IF k \in A THEN x ELSE y) /\ \A k \in Int : at[1][k] = r
    BY <2>5
  <2>. HIDE DEF at
  <2>. QED
    BY <2>1, <2>2, <2>3, <2>4, <2>6, <1>2
<1>. HIDE DEF at, K, n, e1, e2
<1>5. Block(at, K, 0, x) = A /\ Block(at, K, 0, y) = B /\ Block(at, K, 1, r) = K
  <2>1. A \subseteq K /\ B \subseteq K /\ \A k \in K : k \in A \/ k \in B
    BY <1>3
  <2>. QED
    BY <1>1, <1>4, <2>1 DEF Block
<1>6. Grid(at, 1, K, n)
  <2>1. \A l \in 0 .. 1 : l = 0 \/ l = 1
    OBVIOUS
  <2>2. \A k \in K : at[0][k] \in {x, y} /\ at[1][k] = r
    BY <1>3, <1>4
  <2>3. \A l \in 0 .. 1, k \in K : at[l][k] \in 1 .. n
    BY <1>1, <2>1, <2>2
  <2>4. \A l, m \in 0 .. 1, j, k \in K : at[l][j] = at[m][k] => l = m
    <3>1. ASSUME NEW l \in 0 .. 1, NEW m \in 0 .. 1, NEW j \in K, NEW k \in K, at[l][j] = at[m][k], l # m PROVE FALSE
      <4>1. (l = 0 /\ m = 1) \/ (l = 1 /\ m = 0)
        <5>1. (l = 0 \/ l = 1) /\ (m = 0 \/ m = 1) /\ l # m
          BY <2>1, <3>1
        <5>. QED
          BY <5>1, Zenon
      <4>. QED
        BY <1>1, <2>2, <3>1, <4>1
    <3>. QED
      BY <3>1
  <2>5. ASSUME NEW l \in 0 .. 1, NEW i \in K, NEW j \in K, NEW k \in K, i < j, j < k, at[l][i] = at[l][k]
        PROVE  at[l][j] = at[l][i]
    <3>1. CASE l = 1
      BY <2>2, <3>1
    <3>2. CASE l = 0
      <4>1. CASE j \in A
        <5>1. i \in A
          <6>1. i \notin B
            BY <1>2, <1>4, <2>5, <4>1
          <6>. QED
            BY <1>3, <6>1
        <5>. QED
          BY <1>4, <3>2, <4>1, <5>1
      <4>2. CASE j \in B
        <5>1. k \in B
          <6>1. k \notin A
            BY <1>2, <1>4, <2>5, <4>2
          <6>. QED
            BY <1>3, <6>1
        <5>. QED
          BY <1>4, <2>5, <3>2, <4>2, <5>1
      <4>. QED
        BY <1>3, <4>1, <4>2
    <3>. QED
      BY <2>1, <3>1, <3>2
  <2>6. ASSUME NEW l \in 0 .. 1, NEW m \in 0 .. 1, NEW j \in K, NEW k \in K, l <= m, at[l][j] = at[l][k]
        PROVE  at[m][j] = at[m][k]
    BY <2>1, <2>2, <2>6
  <2>7. 1 \in Nat /\ n \in Nat /\ K \subseteq Keys /\ at \in [Nat -> [Int -> Int]]
    BY <1>1, <1>4 DEF K, n
  <2>. QED
    BY <2>3, <2>4, <2>5, <2>6, <2>7 DEF Grid

<1>7. IsFiniteSet(A) /\ IsFiniteSet(B) /\ A \subseteq Int /\ B \subseteq Int
  <2>1. A \subseteq Keys /\ B \subseteq Keys
    BY <1>1, <1>3
  <2>. QED
    BY <2>1, KeysAre, FS_Subset
<1>8. PageOK(pg[x], x, 0, at, M)
  <2>1. NextOK(at, K, x, y)
    <3>1. PICK k \in B : \A j \in B : k <= j
      BY <1>3, <1>7, LeastKey
    <3>2. k \in K /\ k \in Int /\ y = at[0][k] /\ y # x
      BY <1>1, <1>4, <3>1
    <3>3. ASSUME NEW j \in Block(at, K, 0, x) PROVE j < k /\ \A i \in K : j < i /\ i < k => at[0][i] = x
      <4>1. j \in A /\ j < k
        BY <1>4, <1>5, <3>1, <3>3
      <4>2. ASSUME NEW i \in K, i < k PROVE at[0][i] = x
        <5>1. i \notin B
          <6>1. i \in Int
            BY <1>2
          <6>. QED
            BY <3>1, <3>2, <4>2, <6>1
        <5>. QED
          BY <1>3, <1>4, <5>1
      <4>. QED
        BY <4>1, <4>2
    <3>. QED
      BY <3>2, <3>3 DEF NextOK
  <2>2. PageOK(Leaf(x, e1, y), x, 0, at, M)
    BY <1>3, <1>5, <2>1, LeafIs DEF K
  <2>. QED
    BY <1>1, <2>2
<1>9. PageOK(pg[y], y, 0, at, M)
  <2>1. NextOK(at, K, y, 0)
    <3>1. ASSUME NEW j \in Block(at, K, 0, y), NEW k \in K, j < k PROVE at[0][k] = y
      <4>1. j \in B
        BY <1>5, <3>1
      <4>2. k \notin A
        <5>1. j \in Int /\ k \in Int /\ ~(k < j)
          BY <1>2, <1>4, <3>1, <4>1
        <5>. QED
          BY <1>4, <4>1, <5>1
      <4>. QED
        BY <1>3, <1>4, <4>2
    <3>. QED
      BY <3>1 DEF NextOK
  <2>2. PageOK(Leaf(y, e2, 0), y, 0, at, M)
    BY <1>3, <1>5, <2>1, LeafIs DEF K
  <2>. QED
    BY <1>1, <2>2
<1>. DEFINE ch == <<x, y>>
            ks == <<Head(e2).key>>
<1>10. Row(ch, at, K, 0, K)
  <2>1. /\ ch \in Seq(Int) /\ Len(ch) = 2 /\ ch[1] = x /\ ch[2] = y
        /\ \A i \in 1 .. 2 : i = 1 \/ i = 2
    BY <1>1
  <2>. HIDE DEF ch
  <2>2. \A i \in 1 .. Len(ch) : \E k \in K : at[0][k] = ch[i]
    BY <1>3, <1>4, <2>1, ZenonT(60)
  <2>3. \A k \in K : k \in K <=> \E i \in 1 .. Len(ch) : at[0][k] = ch[i]
    <3>1. \A k \in K : at[0][k] = x \/ at[0][k] = y
      BY <1>3, <1>4
    <3>2. 1 \in 1 .. Len(ch) /\ 2 \in 1 .. Len(ch)
      BY <2>1
    <3>. QED
      BY <2>1, <3>1, <3>2
  <2>4. \A i, j \in 1 .. Len(ch) : i < j => Before(Block(at, K, 0, ch[i]), Block(at, K, 0, ch[j]))
    <3>1. ASSUME NEW i \in 1 .. Len(ch), NEW j \in 1 .. Len(ch), i < j
          PROVE  Before(Block(at, K, 0, ch[i]), Block(at, K, 0, ch[j]))
      <4>1. i = 1 /\ j = 2
        BY <2>1, <3>1
      <4>. QED
        BY <1>3, <1>5, <2>1, <4>1
    <3>. QED
      BY <3>1
  <2>. QED
    BY <2>1, <2>2, <2>3, <2>4 DEF Row
<1>11. Seps(ks, ch, at, K, 0)
  <2>1. /\ e2 \in Seq(Entries) /\ e2 # <<>> /\ Head(e2) = e2[1] /\ e2[1].key \in B /\ Len(e2) \in Nat
        /\ 1 \in 1 .. Len(e2)
    <3>1. /\ e2 \in Seq(Entries) /\ \A k \in B : \E i \in 1 .. Len(e2) : e2[i].key = k
          /\ \A i \in 1 .. Len(e2) : e2[i].key \in B
      BY <1>3 DEF Held
    <3>2. e2 # <<>> /\ 1 \in 1 .. Len(e2)
      BY <1>3, <3>1
    <3>. QED
      BY <3>1, <3>2
  <2>2. \A k \in B : e2[1].key <= k
    <3>1. ASSUME NEW k \in B PROVE e2[1].key <= k
      <4>1. PICK i \in 1 .. Len(e2) : e2[i].key = k
        BY <1>3 DEF Held
      <4>2. i # 1 => e2[1].key < e2[i].key
        <5>1. i # 1 => 1 < i
          BY <2>1
        <5>. QED
          BY <1>3, <2>1, <5>1 DEF Held
      <4>3. k \in Int /\ e2[1].key \in Int
        BY <1>7, <2>1
      <4>. QED
        BY <4>1, <4>2, <4>3
    <3>. QED
      BY <3>1
  <2>. DEFINE z == e2[1].key
  <2>3. ks = <<z>> /\ z \in Int /\ z \in B
    BY <1>7, <2>1
  <2>4. (\A k \in A : k < z) /\ \A k \in B : z <= k
    BY <1>4, <2>2, <2>3
  <2>5. Len(ch) = 2 /\ ch[1] = x /\ ch[2] = y
    OBVIOUS
  <2>. HIDE DEF ks, z, ch
  <2>6. ks \in Seq(Int) /\ Len(ks) = 1 /\ ks[1] = z /\ \A i \in 1 .. 1 : i = 1 /\ i + 1 = 2
    BY <2>3
  <2>. QED
    BY <1>5, <2>4, <2>5, <2>6 DEF Seps
<1>. HIDE DEF ch, ks
<1>12. PageOK(pg[r], r, 1, at, M)
  <2>1. pg[r] = Inner(r, ch, ks)
    BY <1>1 DEF ch, ks
  <2>2. pg[r].children = ch /\ pg[r].keys = ks
    BY <2>1 DEF Inner
  <2>3. InnerOK(pg[r], r, 1, at, K)
    <3>1. 1 - 1 = 0
      OBVIOUS
    <3>. QED
      BY <1>5, <1>10, <1>11, <2>1, <2>2, <3>1 DEF InnerOK
  <2>. QED
    BY <2>3 DEF PageOK, K
<1>13. Tree(pg, at, 1, M)
  <2>1. Layer(pg, at, M, 0)
    <3>1. ASSUME NEW k \in K PROVE PageOK(pg[at[0][k]], at[0][k], 0, at, M)
      <4>1. at[0][k] = x \/ at[0][k] = y
        BY <1>3, <1>4
      <4>. QED
        BY <1>8, <1>9, <4>1
    <3>. QED
      BY <3>1 DEF Layer, K
  <2>2. Layer(pg, at, M, 1)
    BY <1>4, <1>12 DEF Layer, K
  <2>3. K # {} /\ \A l \in 0 .. 1 : l = 0 \/ l = 1
    BY <1>3
  <2>. QED
    BY <1>6, <2>1, <2>2, <2>3 DEF Tree, K, n
<1>14. RootOK(at, 1, K, r)
  BY <1>4 DEF RootOK
<1>15. FirstOK(at, K, x)
  <2>1. ASSUME NEW k \in K, \A j \in K : k <= j PROVE x = at[0][k]
    <3>1. k \in A
      <4>1. PICK j \in A : TRUE
        BY <1>3
      <4>2. k \in Int /\ j \in Int /\ j \in K /\ ~(j < k)
        BY <1>2, <1>4, <2>1
      <4>. QED
        BY <1>3, <1>4, <4>2
    <3>. QED
      BY <1>4, <3>1
  <2>. QED
    BY <2>1 DEF FirstOK
<1>. QED
  BY <1>13, <1>14, <1>15 DEF Settled, K

\* A leaf under a parent becomes two.
LEMMA AloneEnd ==
    ASSUME NEW st, NEW pg, NEW at, NEW top, NEW M, NEW w, NEW path,
           Under1(st, pg, at, top, M, 0, w, path), NEW leaf, leaf = pg[at[0][w]],
           Near(st, pg, at[0][w], at[0][w]), Len(leaf.entries) >= 2
    PROVE  Good(split_leaf_alone(st, leaf, path), M)
<1>. DEFINE a == at[0][w]
            q == at[0 + 1][w]
            up == ParentPath(path)
            parent == ParentOf(st, path)
            c == ChildIndex(parent, a)
            v == allocate_node_page(st)
            new == NextId(st)
            s == leaf.entries
            h == Len(s) \div 2
            left == Leaf(leaf.id, SubSeq(s, 1, h), new)
            right == Leaf(new, SubSeq(s, h + 1, Len(s)), leaf.next)
            u == write_page(write_page(v, left), right)
<1>1. /\ Len(path) # 1 /\ parent = pg[q] /\ parent.id = q /\ Place(st, pg, at, top, M, 0, q, up)
      /\ parent.children \in Seq(Int) /\ c \in 1 .. Len(parent.children) /\ Len(parent.children) \in Nat
      /\ parent.children[c] = a /\ a \in 1 .. Len(pg) /\ a # q
  BY DEF Under1
<1>2. Sides(pg, q, c, c) /\ a = pg[q].children[c]
  BY <1>1 DEF Sides
<1>3. /\ IsState(st) /\ st.err = "none" /\ Len(st.pages) = Len(pg) /\ LeafBox(pg[a], a, at, M, Len(pg))
      /\ Len(pg) \in Nat
  BY <1>1, <1>2, ChildLeaf, SMTT(20)
<1>4. s \in Seq(Entries) /\ leaf.id = a /\ leaf.next \in 0 .. Len(st.pages)
  BY <1>3 DEF LeafBox
<1>5. h \in Nat /\ 1 <= h /\ h < Len(s)
  <2>1. Len(s) \in Nat /\ Len(s) >= 2
    BY <1>4
  <2>2. \A k \in Nat : k >= 2 => k \div 2 \in Nat /\ 1 <= k \div 2 /\ k \div 2 < k
    OBVIOUS
  <2>. HIDE DEF s
  <2>. QED
    BY <2>1, <2>2
<1>6. HalvesOf(st, u, a, s, h, new, leaf.next)
  BY <1>4, <1>5 DEF HalvesOf
<1>7. Ready(u, q, InsertAt(pg[q].children, c + 1, new), at, top, M, M, 0, up)
  <2>1. leaf = pg[a] /\ Near(st, pg, a, a) /\ s = pg[a].entries /\ leaf.next = pg[a].next
    OBVIOUS
  <2>. HIDE DEF a, u, h, new, s, q, up, c
  <2>. QED
    BY <1>1, <1>2, <1>6, <2>1, AloneReady
<1>8. CASE u.err # "none"
  <2>1. Good(u, M)
    BY <1>7, <1>8, ErrGood, ZenonT(60) DEF Ready
  <2>2. split_leaf_alone(st, leaf, path) = u
    BY <1>1, <1>8 DEF split_leaf_alone, insert_into_parent, WriteOrSplit
  <2>. QED
    BY <2>1, <2>2, ZenonT(60)
<1>9. CASE u.err = "none"
  <2>1. u.pages[q] = pg[q]
    <3>1. MidWritten(st, u, a, Leaf(a, SubSeq(s, 1, h), new), Leaf(new, SubSeq(s, h + 1, Len(s)), leaf.next))
      <4>1. a \in 1 .. Len(st.pages)
        BY <1>1, <1>3, Zenon
      <4>. HIDE DEF a, u, h, new, s
      <4>. QED
        BY <1>3, <1>4, <1>6, <4>1, HalvesWritten
    <3>2. Changed(st, u, {a})
      BY <3>1, Zenon DEF MidWritten
    <3>3. q \in 1 .. Len(st.pages)
      <4>1. Spot(pg, at, top, M, 0, q, c, c)
        BY <1>1, <1>2, PlaceSpot
      <4>2. q \in 1 .. Len(pg)
        BY ONLY <4>1, SpotFacts, SMTT(20)
      <4>. QED
        BY <1>3, <4>2
    <3>4. u.pages[q] = st.pages[q]
      BY <1>1, <1>9, <3>2, <3>3, Zenon DEF Changed
    <3>5. st.pages[q] = pg[q]
      BY <1>1, <1>3, <3>3 DEF Near
    <3>. QED
      BY <3>4, <3>5
  <2>2. path[Len(path) - 1] = q
    BY DEF Under1
  <2>3. ParentOf(u, path) = pg[q]
    BY <2>1, <2>2 DEF ParentOf
  <2>4. split_leaf_alone(st, leaf, path) = WriteOrSplit(u, q, InsertAt(pg[q].children, c + 1, new), up)
    <3>1. left.id = a /\ right.id = new
      BY <1>4 DEF Leaf
    <3>2. split_leaf_alone(st, leaf, path) =
            insert_into_parent(v, left, Head(right.entries).key, right, path)
      BY DEF split_leaf_alone
    <3>3. pg[q].id = q /\ ChildIndex(pg[q], a) = c
      BY <1>1
    <3>. DEFINE k == Head(right.entries).key
                up2 == ParentPath(path)
    <3>4. u = write_page(write_page(v, left), right)
      OBVIOUS
    <3>5. up2 = up
      OBVIOUS
    <3>. HIDE DEF v, left, right, u, q, a, c, new, k, up2, up
    <3>6. insert_into_parent(v, left, k, right, path) = WriteOrSplit(u, q, InsertAt(pg[q].children, c + 1, new), up2)
      BY <1>1, <2>3, <3>1, <3>3, <3>4 DEF insert_into_parent, up2
    <3>. QED
      BY <3>2, <3>5, <3>6 DEF k
  <2>5. Good(WriteOrSplit(u, q, InsertAt(pg[q].children, c + 1, new), up), M)
    BY <1>7, SplitEnd
  <2>. QED
    BY <2>4, <2>5
<1>. QED
  BY <1>8, <1>9

\* The leaf that is the root becomes two under a new root.
LEMMA AloneRoot ==
    ASSUME NEW st, IsState(st), st.call = NoCall, st.err = "none", NEW leaf, NEW path, Len(path) = 1,
           NEW at, NEW M, NEW x \in 1 .. Len(st.pages), NEW w \in DOMAIN M, x = at[0][w],
           Tree([st.pages EXCEPT ![x] = leaf], at, 0, M), RootOK(at, 0, DOMAIN M, st.root),
           FirstOK(at, DOMAIN M, st.first), Len(leaf.entries) >= 2
    PROVE  Good(split_leaf_alone(st, leaf, path), M)
<1>. DEFINE K == DOMAIN M
            pg == [st.pages EXCEPT ![x] = leaf]
            N == Len(st.pages)
            v == allocate_node_page(st)
            new == NextId(st)
            s == leaf.entries
            h == Len(s) \div 2
            left == Leaf(leaf.id, SubSeq(s, 1, h), new)
            right == Leaf(new, SubSeq(s, h + 1, Len(s)), leaf.next)
            u == write_page(write_page(v, left), right)
            sep == Head(right.entries).key
            r == NextId(u)
            p == Inner(r, <<leaf.id, new>>, <<sep>>)
            u1 == allocate_node_page(u)
            u2 == write_page(u1, p)
            res == [u2 EXCEPT !.root = r]
<1>1. Len(pg) = N /\ pg[x] = leaf /\ N \in Nat
  BY FilePages
<1>2. LeafBox(leaf, x, at, M, N)
  BY <1>1, LeafPage
<1>3. /\ s \in Seq(Entries) /\ leaf.id = x /\ leaf.next \in 0 .. N
      /\ Held(s, M, Block(at, K, 0, x)) /\ NextOK(at, K, x, leaf.next)
  BY <1>2 DEF LeafBox
<1>4. K \subseteq Keys /\ K # {} /\ K \subseteq Int /\ IsFiniteSet(K)
  <2>1. K \subseteq Keys /\ K # {} /\ K \subseteq Int
    BY TreePages
  <2>. QED
    BY <2>1, KeysAre, FS_Subset
<1>5. st.root = x /\ \A k \in K : at[0][k] = x
  BY DEF RootOK
<1>6. Block(at, K, 0, x) = K
  BY <1>5 DEF Block
<1>7. leaf.next = 0
  <2>1. w \in Block(at, K, 0, x)
    BY <1>6
  <2>. QED
    BY <1>3, <1>5, <2>1 DEF NextOK
<1>8. st.first = x
  <2>1. PICK k \in K : \A j \in K : k <= j
    BY <1>4, LeastKey
  <2>. QED
    BY <1>5, <2>1 DEF FirstOK
<1>9. h \in Nat /\ 1 <= h /\ h < Len(s)
  <2>1. Len(s) \in Nat /\ Len(s) >= 2
    BY <1>3
  <2>2. \A k \in Nat : k >= 2 => k \div 2 \in Nat /\ 1 <= k \div 2 /\ k \div 2 < k
    OBVIOUS
  <2>. HIDE DEF s
  <2>. QED
    BY <2>1, <2>2
<1>. DEFINE e1 == SubSeq(s, 1, h)
            e2 == SubSeq(s, h + 1, Len(s))
<1>10. HalvesOf(st, u, x, s, h, new, leaf.next)
  BY <1>3, <1>9 DEF HalvesOf
<1>11. /\ MidWritten(st, u, x, Leaf(x, e1, new), Leaf(new, e2, 0))
       /\ new = N + 1 /\ e1 \in Seq(Entries) /\ e2 \in Seq(Entries)
  <2>1. x \in 1 .. Len(st.pages) /\ leaf.next \in 0 .. Len(st.pages)
    BY <1>3
  <2>. HIDE DEF u, h, new, s, N
  <2>. QED
    BY <1>7, <1>10, <2>1, HalvesWritten DEF N
<1>12. /\ IsState(u) /\ u.root = x /\ u.first = x /\ u.call = NoCall /\ Len(u.pages) = N + 1
       /\ u.err = "none" => /\ u.pages[x] = Leaf(x, e1, new) /\ u.pages[new] = Leaf(new, e2, 0)
  BY <1>5, <1>8, <1>11 DEF MidWritten, Changed
<1>13. split_leaf_alone(st, leaf, path) = IF u.err # "none" THEN u ELSE IF u2.err # "none" THEN u2 ELSE res
  <2>1. split_leaf_alone(st, leaf, path) = insert_into_parent(v, left, sep, right, path)
    BY DEF split_leaf_alone
  <2>2. u = write_page(write_page(v, left), right) /\ r = NextId(u) /\ u1 = allocate_node_page(u)
        /\ u2 = write_page(u1, p) /\ res = [u2 EXCEPT !.root = r]
        /\ p = Inner(r, <<left.id, right.id>>, <<sep>>)
    BY DEF Leaf
  <2>. HIDE DEF v, left, right, u, sep, r, p, u1, u2, res
  <2>3. insert_into_parent(v, left, sep, right, path) = IF u.err # "none" THEN u ELSE IF u2.err # "none" THEN u2 ELSE res
    BY <2>2 DEF insert_into_parent
  <2>. QED
    BY <2>1, <2>3
<1>14. e2 # <<>> /\ Len(e2) \in Nat /\ sep = Head(e2).key /\ Head(e2).key \in Int
  <2>1. /\ h + 1 \in Int /\ Len(s) \in Int /\ 1 <= h + 1 /\ Len(s) <= Len(s) /\ h + 1 <= Len(s) + 1
        /\ Len(s) - (h + 1) + 1 >= 1
    <3>1. Len(s) \in Nat
      BY <1>3
    <3>. HIDE DEF h, s
    <3>. QED
      BY <1>9, <3>1
  <2>2. Len(e2) = Len(s) - (h + 1) + 1
    <3>. HIDE DEF h, s
    <3>. QED
      BY <1>3, <2>1, Cut
  <2>3. sep = Head(e2).key
    BY DEF Leaf
  <2>. HIDE DEF e2, h, s, sep
  <2>4. e2 # <<>> /\ Len(e2) \in Nat
    BY <1>11, <2>1, <2>2
  <2>5. Head(e2) \in Entries
    BY <1>11, <2>4
  <2>6. Head(e2).key \in Int
    BY <2>5, KeysAre DEF Entries
  <2>. QED
    BY <2>3, <2>4, <2>6
<1>15. CASE u.err # "none"
  <2>. HIDE DEF u, u1, u2, res
  <2>. QED
    BY <1>12, <1>13, <1>15, ErrGood
<1>16. CASE u.err = "none"
  <2>1. /\ r = N + 2 /\ IsState(u1) /\ Len(u1.pages) = N + 2 /\ u1.root = x /\ u1.first = x
        /\ u1.err = "none" /\ u1.call = NoCall
        /\ \A j \in 1 .. N + 1 : u1.pages[j] = u.pages[j]
    <3>. HIDE DEF u, N
    <3>1. r = Len(u.pages) + 1 /\ N + 1 + 1 = N + 2
      BY <1>1, <1>12, AllocFacts
    <3>. QED
      BY <1>12, <1>16, <3>1, AllocFacts
  <2>2. new \in 1 .. N + 1 /\ x \in 1 .. N + 1 /\ new \in 1 .. N + 2 /\ x \in 1 .. N + 2 /\ r \in 1 .. N + 2 /\ N + 2 \in Nat
        /\ x # new /\ x # r /\ new # r /\ r \in Nat
    <3>1. new = N + 1 /\ r = N + 2 /\ N \in Nat /\ x \in 1 .. N
      BY <1>1, <1>11, <2>1
    <3>. HIDE DEF new, r, N, u
    <3>. QED
      BY <3>1
  <2>3. PageTyped(p, r, N + 2)
    <3>. DEFINE ch == <<x, new>>
                ks == <<sep>>
    <3>2. p = Inner(r, ch, ks)
      BY <1>3
    <3>3. sep \in Int
      BY <1>14
    <3>1. ch \in Seq(1 .. N + 2) /\ ks \in Seq(Int) /\ Len(ks) = Len(ch) - 1
      <4>. HIDE DEF sep, new, N
      <4>1. ch \in Seq(1 .. N + 2) /\ Len(ch) = 2
        BY <2>2
      <4>2. ks \in Seq(Int) /\ Len(ks) = 1
        BY <3>3
      <4>. QED
        BY <4>1, <4>2
    <3>. HIDE DEF ch, ks, r, N
    <3>. QED
      BY <2>2, <3>1, <3>2, InnerTyped
  <2>4. Wrote(u1, u2, r, p)
    <3>1. r \in 1 .. Len(u1.pages) /\ PageTyped(p, r, Len(u1.pages))
      BY <2>1, <2>2, <2>3
    <3>. HIDE DEF u1, r, p
    <3>. QED
      BY <2>1, <3>1, WriteFacts
  <2>. HIDE DEF N, u, u1, u2, r, p, e1, e2, new, s, h, sep, pg
  <2>5. /\ IsState(u2) /\ Len(u2.pages) = N + 2 /\ u2.first = x /\ u2.call = NoCall
        /\ u2.err = "none" => u2.pages[r] = p /\ \A j \in 1 .. N + 2 : j # r => u2.pages[j] = u1.pages[j]
    BY <2>1, <2>4 DEF Wrote
  <2>6. CASE u2.err # "none"
    BY <1>13, <1>16, <2>5, <2>6, ErrGood
  <2>7. CASE u2.err = "none"
    <3>1. u2.pages[x] = Leaf(x, e1, new) /\ u2.pages[new] = Leaf(new, e2, 0) /\ u2.pages[r] = p
      BY <1>12, <1>16, <2>1, <2>2, <2>5, <2>7
    <3>2. p = Inner(r, <<x, new>>, <<Head(e2).key>>)
      BY <1>3, <1>14 DEF p
    <3>3. RootPair(u2.pages, r, x, new, s, h, M)
      BY <1>3, <1>4, <1>6, <1>9, <2>2, <2>5, <3>1, <3>2 DEF RootPair, e1, e2
    <3>4. Settled(u2.pages, r, x, M)
      BY <3>3, RootPairTree
    <3>5. /\ res.pages = u2.pages /\ res.root = r /\ res.first = x /\ res.call = NoCall /\ res.err = "none"
          /\ IsState(res)
      <4>1. u2 = [pages |-> u2.pages, root |-> u2.root, first |-> u2.first, err |-> u2.err, call |-> u2.call]
        BY <2>5 DEF IsState
      <4>2. res = [pages |-> u2.pages, root |-> r, first |-> u2.first, err |-> u2.err, call |-> u2.call]
        BY <4>1
      <4>. HIDE DEF res
      <4>3. /\ res.pages = u2.pages /\ res.root = r /\ res.first = u2.first /\ res.call = u2.call /\ res.err = u2.err
            /\ res = [pages |-> res.pages, root |-> res.root, first |-> res.first, err |-> res.err, call |-> res.call]
        BY <4>2
      <4>4. FileOK(res.pages) /\ res.root \in 1 .. Len(res.pages) /\ res.first \in 1 .. Len(res.pages)
        BY <2>2, <2>5, <4>3 DEF IsState
      <4>. QED
        BY <2>5, <2>7, <4>3, <4>4 DEF IsState
    <3>. HIDE DEF res
    <3>6. Good(res, M)
      BY <3>4, <3>5 DEF Good
    <3>. QED
      BY <1>13, <1>16, <2>7, <3>6
  <2>. QED
    BY <2>6, <2>7
<1>. QED
  BY <1>15, <1>16

\* The neighbours of the leaf at the end of a path, under the same parent.
RightHere(st, pg, at, top, M, q, up, c, x) ==
    LET b == pg[q].children[c + 1]
    IN  PairHere(st, pg, at, top, M, q, up, c, x, b) /\ st.pages[b] = pg[b]
LeftHere(st, pg, at, top, M, q, up, c, x) ==
    LET a == pg[q].children[c - 1]
    IN  PairHere(st, pg, at, top, M, q, up, c - 1, a, x) /\ st.pages[a] = pg[a] /\ ChildIndex(pg[q], a) = c - 1
\* The neighbours of a leaf under its parent.
LEMMA LeafSides ==
    ASSUME NEW st, NEW pg, NEW at, NEW top, NEW M, NEW w, NEW path,
           Under1(st, pg, at, top, M, 0, w, path), Near(st, pg, at[0][w], at[0][w]),
           NEW x, x = at[0][w], NEW q, q = at[0 + 1][w], NEW c, c = ChildIndex(pg[q], x), NEW up, up = ParentPath(path)
    PROVE  /\ c < Len(pg[q].children) => RightHere(st, pg, at, top, M, q, up, c, x)
           /\ c > 1 => LeftHere(st, pg, at, top, M, q, up, c, x)
<1>1. /\ ParentOf(st, path) = pg[q] /\ Place(st, pg, at, top, M, 0, q, up)
      /\ pg[q].children \in Seq(Int) /\ c \in 1 .. Len(pg[q].children) /\ Len(pg[q].children) \in Nat
      /\ c \in Nat /\ pg[q].children[c] = x
  BY SMTT(20) DEF Under1
<1>2. ASSUME c < Len(pg[q].children) PROVE RightHere(st, pg, at, top, M, q, up, c, x)
  <2>. DEFINE b == pg[q].children[c + 1]
  <2>1. Sides(pg, q, c, c + 1)
    BY <1>1, <1>2 DEF Sides
  <2>2. Near(st, pg, x, b)
    BY DEF Near
  <2>3. PairHere(st, pg, at, top, M, q, up, c, x, b)
    BY <1>1, <2>1, <2>2, LeavesHere, Zenon
  <2>4. st.pages[b] = pg[b]
    BY <2>3, ZenonT(60) DEF PairHere, Near
  <2>. QED
    BY <2>3, <2>4 DEF RightHere
<1>3. ASSUME c > 1 PROVE LeftHere(st, pg, at, top, M, q, up, c, x)
  <2>. DEFINE d == c - 1
              a == pg[q].children[d]
  <2>1. Sides(pg, q, d, d + 1) /\ d + 1 = c
    BY <1>1, <1>3, SMTT(20) DEF Sides
  <2>2. Near(st, pg, a, x)
    BY DEF Near
  <2>3. PairHere(st, pg, at, top, M, q, up, d, a, x)
    <3>. HIDE DEF d
    <3>1. x = pg[q].children[d + 1]
      BY <1>1, <2>1, Zenon
    <3>. QED
      BY <1>1, <2>1, <2>2, <3>1, LeavesHere
  <2>4. st.pages[a] = pg[a]
    BY <2>3, Zenon DEF PairHere, Near
  <2>5. ChildIndex(pg[q], a) = d
    <3>1. Spot(pg, at, top, M, 0, q, d, d + 1)
      BY <1>1, <2>1, PlaceSpot
    <3>2. d \in 1 .. Len(pg[q].children)
      BY <1>1, <1>3
    <3>. HIDE DEF d
    <3>. QED
      BY <3>1, <3>2, ChildFacts
  <2>. QED
    BY <2>3, <2>4, <2>5, Zenon DEF LeftHere
<1>. QED
  BY <1>2, <1>3

\* The fields of a leaf.
LEMMA LeafParts3 ==
    ASSUME NEW p, NEW i, NEW e, NEW n, p = Leaf(i, e, n)
    PROVE  p.id = i /\ p.entries = e /\ p.next = n
  BY DEF Leaf

\* A leaf with other entries.
LEMMA LeafChanged ==
    ASSUME NEW p, NEW i, NEW e, NEW n, NEW z, p = Leaf(i, e, n)
    PROVE  [p EXCEPT !.entries = z] = Leaf(i, z, n)
  BY DEF Leaf

\* split_leaf below the root: borrow, or split two leaves into three, or one
\* into two.
LEMMA SplitLeafUnder ==
    ASSUME NEW st, NEW pg, NEW at, NEW top, NEW M, NEW w, NEW path,
           Under1(st, pg, at, top, M, 0, w, path), NEW leaf, leaf = pg[at[0][w]],
           Near(st, pg, at[0][w], at[0][w]), Len(leaf.entries) >= 2
    PROVE  Good(split_leaf(st, leaf, path), M)
<1>. DEFINE x == at[0][w]
            q == at[0 + 1][w]
            up == ParentPath(path)
            parent == ParentOf(st, path)
            c == ChildIndex(parent, leaf.id)
            hasRight == c < Len(parent.children)
            hasLeft == c > 1
            right == st.pages[parent.children[c + 1]]
            left == st.pages[parent.children[c - 1]]
            leafR == [leaf EXCEPT !.entries = Front(@)]
            rightR == [right EXCEPT !.entries = <<Last(leaf.entries)>> \o @]
            leafL == [leaf EXCEPT !.entries = <<Last(left.entries)>> \o @]
            leftL == [left EXCEPT !.entries = Front(@)]
            giveRight == hasRight /\ leafR.entries # <<>> /\ LeavesFit(leafR, rightR)
            giveLeft == hasLeft /\ leftL.entries # <<>> /\ LeavesFit(leafL, leftL)
<1>1. /\ Len(path) # 1 /\ parent = pg[q] /\ parent.id = q /\ Place(st, pg, at, top, M, 0, q, up)
      /\ pg[q].children \in Seq(Int) /\ ChildIndex(pg[q], x) \in 1 .. Len(pg[q].children)
      /\ Len(pg[q].children) \in Nat
      /\ pg[q].children[ChildIndex(pg[q], x)] = x /\ x \in 1 .. Len(pg)
  BY DEF Under1
<1>2. LeafBox(leaf, x, at, M, Len(pg))
  <2>1. Sides(pg, q, ChildIndex(pg[q], x), ChildIndex(pg[q], x))
    BY <1>1 DEF Sides
  <2>. DEFINE i == ChildIndex(pg[q], x)
  <2>2. Sides(pg, q, i, i) /\ x = pg[q].children[i]
    BY <1>1, <2>1
  <2>. HIDE DEF i, x, q, up
  <2>3. LeafBox(pg[x], x, at, M, Len(pg))
    BY <1>1, <2>2, ChildLeaf
  <2>. QED
    BY <2>3 DEF x
<1>3. leaf.id = x /\ leaf.entries \in Seq(Entries) /\ leaf.entries # <<>> /\ leaf = Leaf(x, leaf.entries, leaf.next)
  BY <1>2 DEF LeafBox
<1>4. c = ChildIndex(pg[q], x) /\ IsParent(parent, pg, q)
  BY <1>1, <1>3 DEF IsParent
<1>5. /\ hasRight => RightHere(st, pg, at, top, M, q, up, c, x)
      /\ hasLeft => LeftHere(st, pg, at, top, M, q, up, c, x)
  BY <1>1, <1>4, LeafSides, Zenon
<1>6. split_leaf(st, leaf, path) =
        IF giveRight THEN GiveLeaf(st, leafR, rightR, parent)
        ELSE IF giveLeft THEN GiveLeaf(st, leafL, leftL, parent)
        ELSE IF hasRight THEN split_leaf_pair(st, leaf, right, parent, up)
        ELSE IF hasLeft THEN split_leaf_pair(st, left, leaf, parent, up)
        ELSE split_leaf_alone(st, leaf, path)
  BY <1>1, Zenon DEF split_leaf
<1>7. ASSUME hasRight
      PROVE  \E b, le, re, next :
               /\ LeafPair(st, pg, at, top, M, M, q, up, c, x, b, le, re, next)
               /\ leaf = Leaf(x, le, b) /\ right = Leaf(b, re, next)
               /\ le \in Seq(Entries) /\ re \in Seq(Entries) /\ le # <<>> /\ re # <<>>
  <2>1. RightHere(st, pg, at, top, M, q, up, c, x)
    BY <1>5, <1>7, Zenon
  <2>. DEFINE b == pg[q].children[c + 1]
  <2>2. right = pg[b]
    BY <1>1, <2>1, ZenonT(60) DEF RightHere
  <2>3. PairHere(st, pg, at, top, M, q, up, c, x, b)
    BY <2>1, Zenon DEF RightHere
  <2>. HIDE DEF b, right, c, q, up, x
  <2>4. leaf = pg[x]
    BY DEF x
  <2>. QED
    BY <2>2, <2>3, <2>4 DEF PairHere
<1>8. ASSUME hasLeft
      PROVE  \E a, le, re, next :
               /\ LeafPair(st, pg, at, top, M, M, q, up, c - 1, a, x, le, re, next)
               /\ left = Leaf(a, le, x) /\ leaf = Leaf(x, re, next) /\ ChildIndex(parent, a) = c - 1
               /\ le \in Seq(Entries) /\ re \in Seq(Entries) /\ le # <<>> /\ re # <<>>
  <2>1. LeftHere(st, pg, at, top, M, q, up, c, x)
    BY <1>5, <1>8, Zenon
  <2>. DEFINE a == pg[q].children[c - 1]
  <2>2. left = pg[a] /\ ChildIndex(parent, a) = c - 1
    BY <1>1, <2>1, ZenonT(60) DEF LeftHere
  <2>3. PairHere(st, pg, at, top, M, q, up, c - 1, a, x)
    BY <2>1, Zenon DEF LeftHere
  <2>. HIDE DEF a, left, c, q, up, x, parent
  <2>4. leaf = pg[x]
    BY DEF x
  <2>. QED
    BY <2>2, <2>3, <2>4 DEF PairHere
<1>. HIDE DEF c, q, up, x, parent, right, left, hasRight, hasLeft
<1>9. CASE giveRight
  <2>1. PICK b, le, re, next :
               /\ LeafPair(st, pg, at, top, M, M, q, up, c, x, b, le, re, next)
               /\ leaf = Leaf(x, le, b) /\ right = Leaf(b, re, next)
               /\ le \in Seq(Entries) /\ re \in Seq(Entries) /\ le # <<>> /\ re # <<>>
    BY <1>7, <1>9
  <2>2. leafR = Leaf(x, Front(le), b) /\ rightR = Leaf(b, <<Last(le)>> \o re, next)
    BY <2>1, SMTT(20) DEF Leaf
  <2>3. Front(le) # <<>>
    BY <1>9, <2>2 DEF Leaf
  <2>4. /\ Front(le) \o (<<Last(le)>> \o re) = le \o re
        /\ Front(le) \in Seq(Entries) /\ <<Last(le)>> \o re \in Seq(Entries) /\ <<Last(le)>> \o re # <<>>
    BY <2>1, MoveRight, SMTT(20)
  <2>. DEFINE y1 == Front(le)
              y2 == <<Last(le)>> \o re
  <2>5. /\ y1 \o y2 = le \o re /\ y1 \in Seq(Entries) /\ y2 \in Seq(Entries) /\ y1 # <<>> /\ y2 # <<>>
        /\ leafR = Leaf(x, y1, b) /\ rightR = Leaf(b, y2, next)
    BY <2>2, <2>3, <2>4
  <2>. HIDE DEF y1, y2, leafR, rightR
  <2>6. Good(GiveLeaf(st, leafR, rightR, parent), M)
    BY <1>4, <2>1, <2>5, GiveEnd, ZenonT(60)
  <2>. QED
    BY <1>6, <1>9, <2>6
<1>10. CASE ~giveRight /\ giveLeft
  <2>1. PICK a, le, re, next :
               /\ LeafPair(st, pg, at, top, M, M, q, up, c - 1, a, x, le, re, next)
               /\ left = Leaf(a, le, x) /\ leaf = Leaf(x, re, next)
               /\ le \in Seq(Entries) /\ re \in Seq(Entries) /\ le # <<>> /\ re # <<>>
    BY <1>8, <1>10
  <2>2. leftL = Leaf(a, Front(le), x) /\ leafL = Leaf(x, <<Last(le)>> \o re, next)
    <3>1. left = Leaf(a, le, x) /\ leaf = Leaf(x, re, next)
      BY <2>1
    <3>2. left.entries = le /\ leaf.entries = re
      BY <3>1, LeafParts3
    <3>3. leftL = [left EXCEPT !.entries = Front(le)]
      BY <3>2
    <3>4. leafL = [leaf EXCEPT !.entries = <<Last(le)>> \o re]
      BY <3>2
    <3>5. [left EXCEPT !.entries = Front(le)] = Leaf(a, Front(le), x)
      BY <3>1, LeafChanged
    <3>6. [leaf EXCEPT !.entries = <<Last(le)>> \o re] = Leaf(x, <<Last(le)>> \o re, next)
      <4>. DEFINE z == <<Last(le)>> \o re
      <4>1. leaf = Leaf(x, re, next)
        BY <3>1
      <4>. HIDE DEF z
      <4>2. [leaf EXCEPT !.entries = z] = Leaf(x, z, next)
        BY <4>1, LeafChanged
      <4>. QED
        BY <4>2 DEF z
    <3>. HIDE DEF leftL, leafL
    <3>. QED
      BY <3>3, <3>4, <3>5, <3>6
  <2>3. Front(le) # <<>>
    BY <1>10, <2>2 DEF Leaf
  <2>4. /\ Front(le) \o (<<Last(le)>> \o re) = le \o re
        /\ Front(le) \in Seq(Entries) /\ <<Last(le)>> \o re \in Seq(Entries) /\ <<Last(le)>> \o re # <<>>
    BY <2>1, MoveRight, SMTT(20)
  <2>. DEFINE y1 == Front(le)
              y2 == <<Last(le)>> \o re
              d == c - 1
  <2>5. /\ y1 \o y2 = le \o re /\ y1 \in Seq(Entries) /\ y2 \in Seq(Entries) /\ y1 # <<>> /\ y2 # <<>>
        /\ leftL = Leaf(a, y1, x) /\ leafL = Leaf(x, y2, next)
        /\ LeafPair(st, pg, at, top, M, M, q, up, d, a, x, le, re, next)
    BY <2>1, <2>2, <2>3, <2>4
  <2>. HIDE DEF y1, y2, leafL, leftL, d
  <2>6. Good(GiveLeaf(st, leafL, leftL, parent), M)
    BY <1>4, <2>5, GiveEnd, ZenonT(60)
  <2>. QED
    BY <1>6, <1>10, <2>6
<1>11. CASE ~giveRight /\ ~giveLeft /\ hasRight
  <2>1. PICK b, le, re, next :
               /\ LeafPair(st, pg, at, top, M, M, q, up, c, x, b, le, re, next)
               /\ leaf = Leaf(x, le, b) /\ right = Leaf(b, re, next)
    BY <1>7, <1>11
  <2>2. SplitsPair(st, leaf, right, parent, c, x, b, le, re, next)
    <3>1. ChildIndex(parent, x) = c
      BY <1>3 DEF c
    <3>. QED
      BY <2>1, <3>1 DEF SplitsPair, Leaf
  <2>3. Good(split_leaf_pair(st, leaf, right, parent, up), M)
    BY <1>4, <2>1, <2>2, SplitPairEnd
  <2>. QED
    BY <1>6, <1>11, <2>3
<1>12. CASE ~giveRight /\ ~giveLeft /\ ~hasRight /\ hasLeft
  <2>1. PICK a, le, re, next :
               /\ LeafPair(st, pg, at, top, M, M, q, up, c - 1, a, x, le, re, next)
               /\ left = Leaf(a, le, x) /\ leaf = Leaf(x, re, next) /\ ChildIndex(parent, a) = c - 1
    BY <1>8, <1>12
  <2>. DEFINE d == c - 1
  <2>3. LeafPair(st, pg, at, top, M, M, q, up, d, a, x, le, re, next) /\ ChildIndex(parent, a) = d
    BY <2>1
  <2>. HIDE DEF d
  <2>2. SplitsPair(st, left, leaf, parent, d, a, x, le, re, next)
    <3>1. left.id = a /\ left.entries = le
      <4>1. left = Leaf(a, le, x)
        BY <2>1
      <4>. QED
        BY <4>1, LeafParts3
    <3>2. leaf.id = x /\ leaf.entries = re /\ leaf.next = next
      <4>1. leaf = Leaf(x, re, next)
        BY <2>1
      <4>. QED
        BY <4>1, LeafParts3
    <3>. QED
      BY <2>3, <3>1, <3>2 DEF SplitsPair
  <2>4. Good(split_leaf_pair(st, left, leaf, parent, up), M)
    BY <1>4, <2>2, <2>3, SplitPairEnd
  <2>. QED
    BY <1>6, <1>12, <2>4
<1>13. CASE ~giveRight /\ ~giveLeft /\ ~hasRight /\ ~hasLeft
  <2>1. Good(split_leaf_alone(st, leaf, path), M)
    BY AloneEnd
  <2>. QED
    BY <1>6, <1>13, <2>1
<1>. QED
  BY <1>9, <1>10, <1>11, <1>12, <1>13

\* split_leaf ends the call, or leaves it to split_internal, with the tree of M.
LEMMA SplitLeafGood ==
    ASSUME NEW st, IsState(st), st.call = NoCall, st.err = "none", NEW call, NEW M, NEW at, NEW top, NEW w,
           Pend(st.pages, st.root, st.first, call, M, at, top, 0, w), Len(call.node.entries) >= 2
    PROVE  Good(split_leaf(st, call.node, call.path), M)
<1>. DEFINE x == at[0][w]
            leaf == call.node
            path == call.path
            pg == [st.pages EXCEPT ![x] = leaf]
<1>1. /\ Tree(pg, at, top, M) /\ RootOK(at, top, DOMAIN M, st.root) /\ FirstOK(at, DOMAIN M, st.first)
      /\ w \in DOMAIN M /\ 0 \in 0 .. top /\ PathIs(path, at, top, 0, w)
  BY DEF Pend
<1>2. Len(pg) = Len(st.pages) /\ Len(st.pages) \in Nat
  BY FilePages
<1>3. x \in 1 .. Len(st.pages) /\ top \in Nat
  BY <1>1, <1>2, TreePages
<1>4. pg[x] = leaf /\ Near(st, pg, x, x)
  <2>1. st.pages \in Seq(AnyPage)
    BY FilePages
  <2>2. \A p \in 1 .. Len(pg) : p # x => pg[p] = st.pages[p]
    BY <1>2, <1>3, <2>1
  <2>. QED
    BY <1>2, <1>3, <2>1, <2>2 DEF Near
<1>5. Len(path) = top + 1 - 0
  <2>1. PathFacts(path, at, top, 0, w)
    <3>. HIDE DEF path
    <3>. QED
      BY <1>1, <1>3, PathParts
  <2>. QED
    BY <2>1 DEF PathFacts
<1>6. CASE top = 0
  <2>1. Len(path) = 1
    BY <1>5, <1>6
  <2>2. Good(split_leaf_alone(st, leaf, path), M)
    <3>1. Tree([st.pages EXCEPT ![x] = leaf], at, 0, M) /\ RootOK(at, 0, DOMAIN M, st.root)
      BY <1>1, <1>6
    <3>. HIDE DEF x, leaf, path, pg
    <3>. QED
      BY <1>1, <1>3, <2>1, <3>1, AloneRoot DEF x, leaf
  <2>. QED
    BY <2>1, <2>2 DEF split_leaf
<1>7. CASE top # 0
  <2>1. 0 # top /\ 0 \in 0 .. top
    BY <1>3, <1>7
  <2>. HIDE DEF leaf, path, pg
  <2>2. Under1(st, pg, at, top, M, 0, w, path)
    BY <1>1, <1>2, <1>4, <2>1, PendPlace
  <2>3. Len(leaf.entries) >= 2
    BY DEF leaf
  <2>4. Good(split_leaf(st, leaf, path), M)
    BY <1>4, <2>2, <2>3, SplitLeafUnder
  <2>. QED
    BY <2>4 DEF leaf, path
<1>. QED
  BY <1>6, <1>7

\* The inner pages a and b of level l, neighbours under q.
InnerPair(st, pg, at, top, M, l, q, path, c, a, b) ==
    /\ Place(st, pg, at, top, M, l, q, path) /\ Sides(pg, q, c, c + 1) /\ Near(st, pg, a, b)
    /\ a = pg[q].children[c] /\ b = pg[q].children[c + 1] /\ l # 0
\* What is known of them.
InnersKnown(st, pg, at, top, M, l, q, c, a, b) ==
    /\ IsState(st) /\ st.err = "none" /\ st.call = NoCall /\ Len(st.pages) = Len(pg) /\ Len(pg) \in Nat
    /\ a \in 1 .. Len(pg) /\ b \in 1 .. Len(pg) /\ a # b /\ a # q /\ b # q /\ q \in 1 .. Len(pg)
    /\ pg[a].children \in Seq(1 .. Len(pg)) /\ pg[b].children \in Seq(1 .. Len(pg))
    /\ pg[a].children # <<>> /\ pg[b].children # <<>>
    /\ pg[a] = Inner(a, pg[a].children, pg[a].keys) /\ pg[b] = Inner(b, pg[b].children, pg[b].keys)
    /\ Row(pg[a].children \o pg[b].children, at, DOMAIN M, l - 1, {k \in DOMAIN M : at[l][k] \in {a, b}})
    /\ pg[q].children \in Seq(Int) /\ c \in 1 .. Len(pg[q].children) /\ c + 1 \in 1 .. Len(pg[q].children)
    /\ l \in Nat /\ l - 1 \in Nat /\ l - 1 \in 0 .. top /\ l \in 0 .. top
    /\ Tree(pg, at, top, M) /\ Grid(at, top, DOMAIN M, Len(pg)) /\ DOMAIN M \subseteq Int
    /\ (\E w \in DOMAIN M : at[l][w] = a) /\ (\E w \in DOMAIN M : at[l][w] = b)
\* What is known of two neighbouring inner pages, proved.
LEMMA InnerPairFacts ==
    ASSUME NEW st, NEW pg, NEW at, NEW top, NEW M, NEW l, NEW q, NEW path, NEW c, NEW a, NEW b,
           InnerPair(st, pg, at, top, M, l, q, path, c, a, b)
    PROVE  InnersKnown(st, pg, at, top, M, l, q, c, a, b)
<1>1. /\ Place(st, pg, at, top, M, l, q, path) /\ Sides(pg, q, c, c + 1) /\ l # 0
      /\ a = pg[q].children[c] /\ b = pg[q].children[c + 1]
  BY DEF InnerPair
<1>2. Spot(pg, at, top, M, l, q, c, c + 1)
  BY <1>1, PlaceSpot
<1>3. /\ IsState(st) /\ st.err = "none" /\ st.call = NoCall /\ Len(st.pages) = Len(pg)
      /\ Tree(pg, at, top, M) /\ l \in 0 .. top /\ l # top
  BY <1>1 DEF Place
<1>4. Grid(at, top, DOMAIN M, Len(pg)) /\ top \in Nat /\ Len(pg) \in Nat /\ DOMAIN M \subseteq Int
  BY <1>3, TreePages
<1>5. l \in Nat /\ l - 1 \in Nat /\ l - 1 \in 0 .. top /\ l - 1 + 1 = l /\ l - 1 # top
  BY <1>1, <1>3, <1>4
<1>6. /\ c \in 1 .. Len(pg[q].children) /\ c + 1 \in 1 .. Len(pg[q].children) /\ pg[q].children \in Seq(Int)
      /\ q \in 1 .. Len(pg) /\ Neighbours(at, top, DOMAIN M, l, a, b, q)
  <2>. DEFINE d == c + 1
  <2>1. d = c + 1 /\ Spot(pg, at, top, M, l, q, c, d)
    BY <1>2
  <2>2. a = pg[q].children[c] /\ b = pg[q].children[d]
    BY <1>1
  <2>. HIDE DEF d
  <2>3. /\ c \in 1 .. Len(pg[q].children) /\ d \in 1 .. Len(pg[q].children) /\ pg[q].children \in Seq(Int)
        /\ q \in 1 .. Len(pg) /\ Grid(at, top, DOMAIN M, Len(pg)) /\ l \in 0 .. top /\ l < top
        /\ Row(pg[q].children, at, DOMAIN M, l, Block(at, DOMAIN M, l + 1, q)) /\ d \in {c, c + 1}
    BY <2>1, SpotFacts
  <2>4. d <= Len(pg[q].children)
    BY <2>3
  <2>5. Neighbours(at, top, DOMAIN M, l, pg[q].children[c], pg[q].children[d], q)
    BY <2>3, <2>4, Adjacent
  <2>. QED
    BY <2>1, <2>2, <2>3, <2>5
<1>7. /\ a \in 1 .. Len(pg) /\ a # q /\ (\E w \in DOMAIN M : at[l][w] = a /\ at[l + 1][w] = q)
      /\ ChildIndex(pg[q], a) = c /\ PageOK(pg[a], a, l, at, M)
  BY <1>1, <1>2, <1>6, ChildFacts
<1>8. /\ b \in 1 .. Len(pg) /\ b # q /\ (\E w \in DOMAIN M : at[l][w] = b /\ at[l + 1][w] = q)
      /\ ChildIndex(pg[q], b) = c + 1 /\ PageOK(pg[b], b, l, at, M)
  BY <1>1, <1>2, <1>6, ChildFacts
<1>9. a # b
  BY <1>6, <1>7, <1>8
<1>10. ASSUME NEW z, \E w \in DOMAIN M : at[l][w] = z, PageOK(pg[z], z, l, at, M)
       PROVE  /\ pg[z].children \in Seq(1 .. Len(pg)) /\ pg[z].children # <<>>
              /\ pg[z] = Inner(z, pg[z].children, pg[z].keys)
              /\ Row(pg[z].children, at, DOMAIN M, l - 1, Block(at, DOMAIN M, l, z))
  <2>1. PICK w \in DOMAIN M : at[l][w] = z
    BY <1>10
  <2>. DEFINE m == l - 1
  <2>2. m \in 0 .. top /\ m # top /\ m + 1 = l
    BY <1>5
  <2>. HIDE DEF m
  <2>3. pg[at[m + 1][w]].children \in Seq(1 .. Len(pg)) /\ pg[at[m + 1][w]].children # <<>>
    BY <1>3, <2>2, InnerPage
  <2>4. InnerOK(pg[z], z, l, at, DOMAIN M)
    BY <1>1, <1>10 DEF PageOK
  <2>. QED
    BY <2>1, <2>2, <2>3, <2>4 DEF InnerOK
<1>11. Row(pg[a].children \o pg[b].children, at, DOMAIN M, l - 1, {k \in DOMAIN M : at[l][k] \in {a, b}})
  <2>. DEFINE A == Block(at, DOMAIN M, l, a)
              B == Block(at, DOMAIN M, l, b)
              x == pg[a].children
              y == pg[b].children
              m == l - 1
  <2>1. Row(x, at, DOMAIN M, m, A) /\ Row(y, at, DOMAIN M, m, B)
    BY <1>7, <1>8, <1>10
  <2>2. Before(A, B)
    BY <1>6, <1>9 DEF Neighbours
  <2>3. A \cup B = {k \in DOMAIN M : at[l][k] \in {a, b}}
    BY DEF Block
  <2>. HIDE DEF A, B, x, y, m
  <2>4. Row(x \o y, at, DOMAIN M, m, A \cup B)
    BY <2>1, <2>2, RowJoin
  <2>. QED
    BY <2>3, <2>4 DEF x, y, m
<1>. QED
  BY <1>3, <1>4, <1>5, <1>6, <1>7, <1>8, <1>9, <1>10, <1>11 DEF InnersKnown

\* The levels below level l are as they were.
LEMMA BelowKept ==
    ASSUME NEW st, NEW pg, NEW at, NEW top, NEW M, NEW l, NEW a, NEW b, Tree(pg, at, top, M),
           Len(st.pages) = Len(pg), Near(st, pg, a, b), l \in 0 .. top, l # 0,
           \E w \in DOMAIN M : at[l][w] = a, \E w \in DOMAIN M : at[l][w] = b,
           NEW u, NEW D, D \subseteq {a, b}, Changed(st, u, D), u.err = "none"
    PROVE  Below0(u.pages, at, top, M, l - 1, Len(pg))
<1>1. /\ Grid(at, top, DOMAIN M, Len(pg)) /\ top \in Nat /\ Len(pg) \in Nat
      /\ \A m \in 0 .. top, k \in DOMAIN M : at[m][k] \in 1 .. Len(pg) /\ PageOK(pg[at[m][k]], at[m][k], m, at, M)
  BY TreePages
<1>2. l \in Nat /\ l - 1 \in 0 .. top /\ \A m \in 0 .. l - 1 : m \in 0 .. top /\ m # l
  BY <1>1
<1>3. ASSUME NEW m \in 0 .. l - 1, NEW k \in DOMAIN M PROVE u.pages[at[m][k]] = pg[at[m][k]]
  <2>. DEFINE p == at[m][k]
  <2>1. p \in 1 .. Len(pg)
    BY <1>1, <1>2
  <2>2. p # a /\ p # b
    <3>1. PICK v \in DOMAIN M : at[l][v] = a
      OBVIOUS
    <3>2. PICK w \in DOMAIN M : at[l][w] = b
      OBVIOUS
    <3>3. m \in 0 .. top /\ m # l /\ l \in 0 .. top /\ Grid(at, top, DOMAIN M, Len(pg))
      BY <1>1, <1>2
    <3>4. at[m][k] # at[l][v] /\ at[m][k] # at[l][w]
      BY <3>3, Apart
    <3>. QED
      BY <3>1, <3>2, <3>4
  <2>. HIDE DEF p
  <2>3. st.pages[p] = pg[p]
    BY <2>1, <2>2 DEF Near
  <2>4. u.pages[p] = st.pages[p]
    <3>1. p \notin D /\ p \in 1 .. Len(st.pages)
      BY <2>1, <2>2
    <3>. QED
      BY <3>1 DEF Changed
  <2>. QED
    BY <2>3, <2>4 DEF p
<1>4. \A m \in 0 .. l - 1 : Layer(u.pages, at, M, m)
  BY <1>1, <1>2, <1>3 DEF Layer
<1>5. Len(u.pages) \in Nat /\ Len(pg) <= Len(u.pages)
  BY FilePages DEF Changed
<1>. QED
  BY <1>1, <1>2, <1>4, <1>5 DEF Below0

\* A part of the children below a and b becomes an inner page.
InnerBox(st, pg, at, top, M, l, q, c, a, b, s) ==
    /\ InnersKnown(st, pg, at, top, M, l, q, c, a, b) /\ Near(st, pg, a, b) /\ l # 0
    /\ s = pg[a].children \o pg[b].children
PartOf(z, s) == \E i \in 1 .. Len(s) : \E j \in i .. Len(s) : z = SubSeq(s, i, j)
Rewrites(st, v, a, b) == \E D : D \subseteq {a, b} /\ Changed(st, v, D)
\* A sequence over a larger set.
LEMMA SeqWider ==
    ASSUME NEW S, NEW T, S \subseteq T, NEW s \in Seq(S)
    PROVE  s \in Seq(T)
  OBVIOUS
\* A part of the children becomes an inner page and is written.
LEMMA WroteInner ==
    ASSUME NEW st, NEW pg, NEW at, NEW top, NEW M, NEW l, NEW q, NEW c, NEW a, NEW b, NEW s,
           InnerBox(st, pg, at, top, M, l, q, c, a, b, s), NEW z, PartOf(z, s),
           NEW v, Rewrites(st, v, a, b), NEW id \in 1 .. Len(v.pages)
    PROVE  /\ Wrote(v, WriteRebuilt(v, id, z), id, rebuild_internal_keys(v, id, z))
           /\ v.err = "none" => /\ InnerAs(rebuild_internal_keys(v, id, z), id, z, at, DOMAIN M, l)
                                /\ Rebuildable(v, z)
           /\ z \in Seq(1 .. Len(v.pages)) /\ z # <<>>
<1>1. InnersKnown(st, pg, at, top, M, l, q, c, a, b) /\ Near(st, pg, a, b) /\ l # 0
      /\ s = pg[a].children \o pg[b].children
  BY DEF InnerBox
<1>2. /\ Len(st.pages) = Len(pg) /\ Len(pg) \in Nat /\ l \in 0 .. top /\ Tree(pg, at, top, M)
      /\ (\E w \in DOMAIN M : at[l][w] = a) /\ (\E w \in DOMAIN M : at[l][w] = b)
      /\ Row(s, at, DOMAIN M, l - 1, {k \in DOMAIN M : at[l][k] \in {a, b}})
      /\ s \in Seq(1 .. Len(pg)) /\ l - 1 \in Nat
  BY <1>1, Joined DEF InnersKnown
<1>3. PICK D : D \subseteq {a, b} /\ Changed(st, v, D)
  BY DEF Rewrites
<1>4. PICK i \in 1 .. Len(s) : \E j \in i .. Len(s) : z = SubSeq(s, i, j)
  BY DEF PartOf
<1>5. PICK j \in i .. Len(s) : z = SubSeq(s, i, j)
  BY <1>4
<1>6. IsState(v) /\ Len(pg) <= Len(v.pages) /\ Len(v.pages) \in Nat
  BY <1>2, <1>3, FilePages DEF Changed
<1>7. z \in Seq(1 .. Len(pg)) /\ Len(z) = j - i + 1 /\ Len(z) >= 1
  <2>1. i \in Int /\ j \in Int /\ 1 <= i /\ i <= Len(s) /\ 1 <= j /\ j <= Len(s) /\ i <= j + 1 /\ i <= j
        /\ Len(s) \in Nat
    BY <1>2, <1>4, <1>5
  <2>2. SubSeq(s, i, j) \in Seq(1 .. Len(pg)) /\ Len(SubSeq(s, i, j)) = j - i + 1
    BY <2>1, <1>2, Cut, SMTT(20)
  <2>. QED
    BY <2>1, <2>2, <1>5
<1>8. z \in Seq(1 .. Len(v.pages)) /\ z # <<>>
  <2>1. 1 .. Len(pg) \subseteq 1 .. Len(v.pages)
    BY <1>6, <1>2, SMTT(20)
  <2>2. z # <<>>
    BY <1>7
  <2>. QED
    BY <2>1, <2>2, <1>7, SeqWider
<1>9. Wrote(v, WriteRebuilt(v, id, z), id, rebuild_internal_keys(v, id, z))
  BY <1>6, <1>8, WriteRebuiltFacts
<1>10. ASSUME v.err = "none"
       PROVE  InnerAs(rebuild_internal_keys(v, id, z), id, z, at, DOMAIN M, l) /\ Rebuildable(v, z)
  <2>1. Below0(v.pages, at, top, M, l - 1, Len(pg))
    BY <1>1, <1>2, <1>3, <1>10, BelowKept
  <2>. DEFINE m == l - 1
  <2>2. Row(s, at, DOMAIN M, m, {k \in DOMAIN M : at[l][k] \in {a, b}}) /\ Below0(v.pages, at, top, M, m, Len(pg))
    BY <1>2, <2>1
  <2>. HIDE DEF m
  <2>3. Row(z, at, DOMAIN M, m, RowSet(z, at, DOMAIN M, m))
    BY <2>2, <1>5, RowPart
  <2>4. /\ Rebuildable(v, z)
        /\ rebuild_internal_keys(v, id, z) = Inner(id, z, rebuild_internal_keys(v, id, z).keys)
        /\ Seps(rebuild_internal_keys(v, id, z).keys, z, at, DOMAIN M, m)
    BY <2>2, <2>3, <1>8, Rebuilt
  <2>. QED
    BY <2>4 DEF InnerAs, m
<1>. QED
  BY <1>8, <1>9, <1>10

\* The children of two neighbours as one row.
LEMMA InnerBoxed ==
    ASSUME NEW st, NEW pg, NEW at, NEW top, NEW M, NEW l, NEW q, NEW path, NEW c, NEW a, NEW b,
           InnerPair(st, pg, at, top, M, l, q, path, c, a, b)
    PROVE  InnerBox(st, pg, at, top, M, l, q, c, a, b, pg[a].children \o pg[b].children)
<1>1. InnersKnown(st, pg, at, top, M, l, q, c, a, b)
  BY InnerPairFacts
<1>. QED
  BY <1>1 DEF InnerPair, InnerBox
\* The inner pages a, mid and b have the children s, cut at n and m.
InnerParts(pages2, a, mid, b, s, n, m, at, K, l) ==
    /\ InnerAs(pages2[a], a, SubSeq(s, 1, n), at, K, l)
    /\ m > n => InnerAs(pages2[mid], mid, SubSeq(s, n + 1, m), at, K, l)
    /\ m < Len(s) => InnerAs(pages2[b], b, SubSeq(s, m + 1, Len(s)), at, K, l)
\* Two inner pages that have their children in new parts.
LEMMA InnerPairReady ==
    ASSUME NEW st, NEW pg, NEW at, NEW top, NEW M, NEW l, NEW q, NEW path, NEW c, NEW a, NEW b,
           InnerPair(st, pg, at, top, M, l, q, path, c, a, b),
           NEW s, s = pg[a].children \o pg[b].children,
           NEW n, n \in Nat, NEW m, m \in Nat, 1 <= n, n <= m, m <= Len(s),
           m > n => m < Len(s), NEW D, D \subseteq {a, b}, NEW u, Changed(st, u, D),
           NEW mid, m > n => mid \in Len(pg) + 1 .. Len(u.pages),
           u.err = "none" => InnerParts(u.pages, a, mid, b, s, n, m, at, DOMAIN M, l)
    PROVE  Ready(u, q, NewRow(pg[q].children, c, c + 1, n, m, Len(s), mid), at, top, M, M, l, path)
<1>. DEFINE ch == pg[q].children
            d == c + 1
            K == DOMAIN M
<1>1. /\ Place(st, pg, at, top, M, l, q, path) /\ Sides(pg, q, c, d) /\ Near(st, pg, a, b)
      /\ a = ch[c] /\ b = ch[d] /\ l # 0
  BY Zenon DEF InnerPair
<1>2. /\ Len(st.pages) = Len(pg) /\ Len(pg) \in Nat /\ c \in 1 .. Len(ch)
      /\ Row(s, at, K, l - 1, {k \in K : at[l][k] \in {a, b}})
  <2>1. InnersKnown(st, pg, at, top, M, l, q, c, a, b)
    BY InnerPairFacts
  <2>. QED
    BY <2>1 DEF InnersKnown
<1>3. d # c
  BY <1>2
<1>4. IsState(u) /\ Len(st.pages) <= Len(u.pages) /\ u.pages \in Seq(AnyPage)
  BY FilePages, SMTT(20) DEF Changed
<1>. HIDE DEF d, K
<1>5. ASSUME u.err = "none" PROVE InnerFile(pg, u.pages, at, K, l, ch, q, c, d, s, n, m, mid)
  <2>1. ASSUME NEW p \in 1 .. Len(pg), p \notin {a, b, q} PROVE u.pages[p] = pg[p]
    <3>1. p \notin {a, b} /\ p \notin D /\ p \in 1 .. Len(st.pages)
      BY <1>2, <2>1, Zenon
    <3>2. st.pages[p] = pg[p]
      BY <1>1, <3>1, Zenon DEF Near
    <3>3. u.pages[p] = st.pages[p]
      BY <1>5, <3>1 DEF Changed
    <3>. QED
      BY <3>2, <3>3
  <2>2. InnerParts(u.pages, a, mid, b, s, n, m, at, K, l)
    BY <1>5 DEF K
  <2>. HIDE DEF ch
  <2>. QED
    BY <1>1, <1>2, <1>3, <1>4, <2>1, <2>2 DEF InnerFile, InnerParts
<1>6. Ready(u, q, NewRow(ch, c, d, n, m, Len(s), mid), at, top, M, M, l, path)
  <2>1. u.err = "none" => InnerFile(pg, u.pages, at, DOMAIN M, l, ch, q, c, d, s, n, m, mid)
    BY <1>5 DEF K
  <2>2. Place(st, pg, at, top, M, l, q, path) /\ Sides(pg, q, c, d) /\ ch = pg[q].children /\ Changed(st, u, D)
    BY <1>1, Zenon
  <2>. HIDE DEF ch
  <2>. QED
    BY ONLY <2>1, <2>2, InnerReady, ZenonT(60)
<1>. QED
  BY <1>6, Zenon DEF d

\* No write.
LEMMA RewritesNone ==
    ASSUME NEW st, IsState(st), NEW a, NEW b
    PROVE  Rewrites(st, st, a, b)
<1>1. Changed(st, st, {}) /\ {} \subseteq {a, b}
  BY FilePages DEF Changed
<1>. QED
  BY <1>1 DEF Rewrites
\* One write to a or b.
LEMMA RewritesOne ==
    ASSUME NEW st, IsState(st), NEW a, NEW b, NEW i \in 1 .. Len(st.pages), i \in {a, b}, NEW u, NEW p,
           Wrote(st, u, i, p)
    PROVE  Rewrites(st, u, a, b) /\ Len(u.pages) = Len(st.pages)
<1>1. Changed(st, u, {i}) /\ {i} \subseteq {a, b} /\ Len(u.pages) = Len(st.pages)
  BY ChangedOne
<1>. QED
  BY <1>1 DEF Rewrites
\* Two parts of a sequence that make it up.
Halves(x, y, s) ==
    /\ PartOf(x, s) /\ PartOf(y, s) /\ Len(x) \in Nat /\ 1 <= Len(x) /\ Len(x) < Len(s)
    /\ Len(s) \in Nat
    /\ SubSeq(s, 1, Len(x)) = x /\ SubSeq(s, Len(x) + 1, Len(s)) = y
\* A sequence and its two halves.
LEMMA Halved ==
    ASSUME NEW S, NEW x \in Seq(S), NEW y \in Seq(S), x # <<>>, y # <<>>, NEW s, s = x \o y
    PROVE  Halves(x, y, s)
<1>1. Len(s) = Len(x) + Len(y) /\ SubSeq(s, 1, Len(x)) = x /\ SubSeq(s, Len(x) + 1, Len(s)) = y
  BY Pieces, Joined
<1>2. Len(x) \in Nat /\ Len(y) \in Nat /\ 1 <= Len(x) /\ 1 <= Len(y)
  OBVIOUS
<1>3. 1 \in 1 .. Len(s) /\ Len(x) \in 1 .. Len(s) /\ Len(x) + 1 \in 1 .. Len(s)
      /\ Len(s) \in Len(x) + 1 .. Len(s) /\ Len(x) < Len(s) /\ Len(s) \in Nat
  BY <1>1, <1>2
<1>4. PartOf(x, s) /\ PartOf(y, s)
  BY <1>1, <1>3 DEF PartOf
<1>. QED
  BY <1>1, <1>2, <1>3, <1>4 DEF Halves
\* Children have moved between the two pages, which are written in either order.
LEMMA InnerMoved ==
    ASSUME NEW st, NEW pg, NEW at, NEW top, NEW M, NEW l, NEW q, NEW path, NEW c, NEW a, NEW b,
           InnerPair(st, pg, at, top, M, l, q, path, c, a, b),
           NEW x, NEW y, x \o y = pg[a].children \o pg[b].children,
           x \in Seq(Int), y \in Seq(Int), x # <<>>, y # <<>>
    PROVE  /\ Ready(WriteRebuilt(WriteRebuilt(st, a, x), b, y), q, pg[q].children, at, top, M, M, l, path)
           /\ Ready(WriteRebuilt(WriteRebuilt(st, b, y), a, x), q, pg[q].children, at, top, M, M, l, path)
<1>. DEFINE s == pg[a].children \o pg[b].children
            n == Len(x)
            K == DOMAIN M
<1>1. InnersKnown(st, pg, at, top, M, l, q, c, a, b) /\ InnerBox(st, pg, at, top, M, l, q, c, a, b, s)
  BY InnerPairFacts, InnerBoxed
<1>2. /\ IsState(st) /\ st.err = "none" /\ Len(st.pages) = Len(pg) /\ Len(pg) \in Nat /\ a \in 1 .. Len(st.pages)
      /\ b \in 1 .. Len(st.pages) /\ a # b /\ pg[q].children \in Seq(Int)
      /\ c \in 1 .. Len(pg[q].children) /\ c + 1 \in 1 .. Len(pg[q].children)
  BY <1>1 DEF InnersKnown
<1>3. /\ PartOf(x, s) /\ PartOf(y, s) /\ n \in Nat /\ 1 <= n /\ n < Len(s) /\ Len(s) \in Nat
      /\ SubSeq(s, 1, n) = x /\ SubSeq(s, n + 1, Len(s)) = y
  <2>1. s = x \o y
    OBVIOUS
  <2>. HIDE DEF s, n
  <2>2. Halves(x, y, s)
    BY <2>1, Halved
  <2>. QED
    BY <2>2 DEF n, Halves
<1>. HIDE DEF s, n, K
<1>4. NewRow(pg[q].children, c, c + 1, n, n, Len(s), 0) = pg[q].children
  BY <1>3 DEF NewRow
<1>5. ASSUME NEW u, NEW D, D \subseteq {a, b}, Changed(st, u, D),
             u.err = "none" => InnerAs(u.pages[a], a, x, at, K, l) /\ InnerAs(u.pages[b], b, y, at, K, l)
      PROVE  Ready(u, q, pg[q].children, at, top, M, M, l, path)
  <2>1. u.err = "none" => InnerParts(u.pages, a, 0, b, s, n, n, at, DOMAIN M, l)
    <3>1. ~(n > n)
      BY <1>3
    <3>2. SubSeq(s, 1, n) = x /\ SubSeq(s, n + 1, Len(s)) = y
      BY <1>3
    <3>. QED
      BY ONLY <3>1, <3>2, <1>5 DEF InnerParts, K
  <2>2. s = pg[a].children \o pg[b].children /\ n <= n /\ n <= Len(s) /\ ~(n > n)
    <3>1. n <= n /\ n <= Len(s) /\ ~(n > n)
      BY <1>3
    <3>. QED
      BY ONLY <3>1 DEF s
  <2>3. Ready(u, q, NewRow(pg[q].children, c, c + 1, n, n, Len(s), 0), at, top, M, M, l, path)
    BY <1>3, <1>5, <2>1, <2>2, InnerPairReady, ZenonT(60)
  <2>. QED
    BY <2>3, <1>4
<1>6. ASSUME NEW v, Rewrites(st, v, a, b), NEW i \in 1 .. Len(v.pages), NEW z, PartOf(z, s)
      PROVE  /\ Wrote(v, WriteRebuilt(v, i, z), i, rebuild_internal_keys(v, i, z))
             /\ v.err = "none" => InnerAs(rebuild_internal_keys(v, i, z), i, z, at, K, l)
  BY <1>1, <1>6, WroteInner DEF K
<1>7. ASSUME NEW i \in {a, b}, NEW j \in {a, b}, i # j, NEW z, PartOf(z, s), NEW w, PartOf(w, s)
      PROVE  LET u == WriteRebuilt(WriteRebuilt(st, i, z), j, w)
             IN  /\ Changed(st, u, {i, j})
                 /\ u.err = "none" => InnerAs(u.pages[i], i, z, at, K, l) /\ InnerAs(u.pages[j], j, w, at, K, l)
  <2>. DEFINE v == WriteRebuilt(st, i, z)
              u == WriteRebuilt(v, j, w)
              p == rebuild_internal_keys(st, i, z)
              r == rebuild_internal_keys(v, j, w)
  <2>1. i \in 1 .. Len(st.pages) /\ j \in 1 .. Len(st.pages)
    BY <1>2
  <2>2. Wrote(st, v, i, p) /\ InnerAs(p, i, z, at, K, l)
    BY <2>1, <1>2, <1>6, <1>7, RewritesNone
  <2>. HIDE DEF v
  <2>3. Rewrites(st, v, a, b) /\ Len(v.pages) = Len(st.pages)
    BY <2>1, <2>2, <1>2, RewritesOne
  <2>4. Wrote(v, u, j, r) /\ (v.err = "none" => InnerAs(r, j, w, at, K, l))
    BY <2>1, <2>3, <1>6, <1>7
  <2>. HIDE DEF u, p, r
  <2>5. TwoWrites(st, v, u, i, j, p, r)
    BY <1>2, <1>7, <2>1, <2>2, <2>4 DEF TwoWrites
  <2>6. Changed(st, u, {i, j}) /\ (u.err = "none" => u.pages[i] = p /\ u.pages[j] = r)
    <3>1. TwoWritten(st, u, i, j, p, r)
      BY <2>5, TwoFacts
    <3>. QED
      BY <3>1 DEF TwoWritten
  <2>7. u.err = "none" => v.err = "none"
    BY <2>4 DEF Wrote
  <2>8. Changed(st, u, {i, j}) /\ (u.err = "none" => InnerAs(u.pages[i], i, z, at, K, l) /\ InnerAs(u.pages[j], j, w, at, K, l))
    BY <2>2, <2>4, <2>6, <2>7
  <2>. QED
    BY <2>8 DEF u, v
<1>8. Ready(WriteRebuilt(WriteRebuilt(st, a, x), b, y), q, pg[q].children, at, top, M, M, l, path)
  <2>. DEFINE u == WriteRebuilt(WriteRebuilt(st, a, x), b, y)
  <2>1. /\ Changed(st, u, {a, b})
        /\ u.err = "none" => InnerAs(u.pages[a], a, x, at, K, l) /\ InnerAs(u.pages[b], b, y, at, K, l)
    BY <1>2, <1>3, <1>7
  <2>. HIDE DEF u
  <2>2. Ready(u, q, pg[q].children, at, top, M, M, l, path)
    BY <1>5, <2>1
  <2>. QED
    BY <2>2 DEF u
<1>9. Ready(WriteRebuilt(WriteRebuilt(st, b, y), a, x), q, pg[q].children, at, top, M, M, l, path)
  <2>. DEFINE u == WriteRebuilt(WriteRebuilt(st, b, y), a, x)
  <2>1. /\ Changed(st, u, {b, a})
        /\ u.err = "none" => InnerAs(u.pages[b], b, y, at, K, l) /\ InnerAs(u.pages[a], a, x, at, K, l)
    BY <1>2, <1>3, <1>7
  <2>. HIDE DEF u
  <2>2. Ready(u, q, pg[q].children, at, top, M, M, l, path)
    BY <1>5, <2>1
  <2>. QED
    BY <2>2 DEF u
<1>. QED
  BY <1>8, <1>9

\* One write more to a or b.
LEMMA RewritesMore ==
    ASSUME NEW st, NEW v, NEW a, NEW b, Rewrites(st, v, a, b), NEW i \in 1 .. Len(v.pages), NEW u, NEW p,
           Wrote(v, u, i, p), i \in {a, b} \/ i > Len(st.pages), Len(st.pages) \in Nat
    PROVE  Rewrites(st, u, a, b) /\ Len(u.pages) = Len(v.pages)
<1>1. PICK D : D \subseteq {a, b} /\ Changed(st, v, D)
  BY DEF Rewrites
<1>2. /\ IsState(u) /\ Len(u.pages) = Len(v.pages)
      /\ u.root = v.root /\ u.first = v.first /\ u.call = v.call
      /\ u.err = "none" =>
           /\ v.err = "none"
           /\ \A j \in 1 .. Len(v.pages) : j # i => u.pages[j] = v.pages[j]
  BY DEF Wrote
<1>3. /\ v.root = st.root /\ v.first = st.first /\ v.call = st.call /\ Len(st.pages) <= Len(v.pages)
      /\ Len(v.pages) \in Nat
      /\ v.err = "none" => /\ st.err = "none"
                           /\ \A j \in 1 .. Len(st.pages) : j \notin D => v.pages[j] = st.pages[j]
  BY <1>1, FilePages DEF Changed
<1>4. ASSUME u.err = "none", NEW j \in 1 .. Len(st.pages), j \notin {a, b} PROVE u.pages[j] = st.pages[j]
  <2>1. j \in 1 .. Len(v.pages) /\ j # i /\ j \notin D
    BY <1>1, <1>3, <1>4
  <2>. QED
    BY <2>1, <1>2, <1>3, <1>4
<1>5. Changed(st, u, {a, b})
  BY <1>2, <1>3, <1>4 DEF Changed
<1>. QED
  BY <1>2, <1>5 DEF Rewrites
\* A new page after the writes to a and b.
LEMMA RewritesAlloc ==
    ASSUME NEW st, IsState(st), NEW a, NEW b
    PROVE  /\ Rewrites(st, allocate_node_page(st), a, b) /\ NextId(st) = Len(st.pages) + 1
           /\ Len(allocate_node_page(st).pages) = Len(st.pages) + 1 /\ Len(st.pages) \in Nat
           /\ allocate_node_page(st).err = st.err
<1>1. Changed(st, allocate_node_page(st), {}) /\ {} \subseteq {a, b}
  BY AllocFacts DEF Changed
<1>. QED
  BY <1>1, AllocFacts DEF Rewrites
\* The children of the two pages go into three.
JoinOf(s, pg, a, b) == s = pg[a].children \o pg[b].children
Writes3(st, st1, st2, st3, a, mid, b, s, n, m) ==
    /\ st1 = WriteRebuilt(allocate_node_page(st), a, SubSeq(s, 1, n))
    /\ st2 = WriteRebuilt(st1, mid, SubSeq(s, n + 1, m))
    /\ st3 = WriteRebuilt(st2, b, SubSeq(s, m + 1, Len(s)))
SplitSteps(st, st3, a, mid, b, s, n, m) ==
    /\ n \in Nat /\ m \in Nat /\ 1 <= n /\ n < m /\ m < Len(s) /\ mid = NextId(st)
    /\ \E st1, st2 : Writes3(st, st1, st2, st3, a, mid, b, s, n, m)
\* The writes of split_internal_pair leave the parent to be rebuilt.
LEMMA InnerSplit ==
    ASSUME NEW st, NEW pg, NEW at, NEW top, NEW M, NEW l, NEW q, NEW path, NEW c, NEW a, NEW b,
           InnerPair(st, pg, at, top, M, l, q, path, c, a, b),
           NEW s, JoinOf(s, pg, a, b), NEW n, NEW m, NEW mid, NEW st3,
           SplitSteps(st, st3, a, mid, b, s, n, m)
    PROVE  Ready(st3, q, InsertAt(pg[q].children, c + 1, mid), at, top, M, M, l, path)
<1>. DEFINE st0 == allocate_node_page(st)
            x == SubSeq(s, 1, n)
            y == SubSeq(s, n + 1, m)
            z == SubSeq(s, m + 1, Len(s))
            K == DOMAIN M
<1>0. n \in Nat /\ m \in Nat /\ 1 <= n /\ n < m /\ m < Len(s) /\ mid = NextId(st)
  BY DEF SplitSteps
<1>a. PICK st1, st2 : Writes3(st, st1, st2, st3, a, mid, b, s, n, m)
  BY DEF SplitSteps
<1>1. InnersKnown(st, pg, at, top, M, l, q, c, a, b) /\ InnerBox(st, pg, at, top, M, l, q, c, a, b, s)
  BY InnerPairFacts, InnerBoxed DEF JoinOf
<1>2. /\ IsState(st) /\ st.err = "none" /\ Len(st.pages) = Len(pg) /\ Len(pg) \in Nat /\ a \in 1 .. Len(st.pages)
      /\ b \in 1 .. Len(st.pages) /\ a # b /\ pg[q].children \in Seq(Int)
      /\ c \in 1 .. Len(pg[q].children) /\ c + 1 \in 1 .. Len(pg[q].children)
      /\ pg[a].children \in Seq(1 .. Len(pg)) /\ pg[b].children \in Seq(1 .. Len(pg))
  BY <1>1 DEF InnersKnown
<1>3. s \in Seq(1 .. Len(pg)) /\ Len(s) \in Nat
  <2>1. pg[a].children \in Seq(1 .. Len(pg)) /\ pg[b].children \in Seq(1 .. Len(pg))
    BY <1>2
  <2>2. pg[a].children \o pg[b].children \in Seq(1 .. Len(pg))
    BY ONLY <2>1, Joined
  <2>. QED
    <3>1. s = pg[a].children \o pg[b].children
      BY DEF JoinOf
    <3>2. s \in Seq(1 .. Len(pg))
      BY ONLY <2>2, <3>1, Zenon
    <3>. QED
      BY ONLY <3>2
<1>4. PartOf(x, s) /\ PartOf(y, s) /\ PartOf(z, s)
  <2>1. /\ 1 \in 1 .. Len(s) /\ n \in 1 .. Len(s) /\ n + 1 \in 1 .. Len(s) /\ m \in n + 1 .. Len(s)
        /\ m + 1 \in 1 .. Len(s) /\ Len(s) \in m + 1 .. Len(s)
    BY <1>3, <1>0
  <2>. QED
    BY <2>1 DEF PartOf
<1>5. /\ Rewrites(st, st0, a, b) /\ mid = Len(st.pages) + 1 /\ Len(st0.pages) = Len(st.pages) + 1
      /\ Len(st.pages) \in Nat /\ st0.err = st.err
  BY <1>2, <1>0, RewritesAlloc
<1>6. st1 = WriteRebuilt(st0, a, x) /\ st2 = WriteRebuilt(st1, mid, y) /\ st3 = WriteRebuilt(st2, b, z)
  BY <1>a DEF Writes3
<1>7. a \in 1 .. Len(st0.pages) /\ b \in 1 .. Len(st0.pages) /\ mid \in 1 .. Len(st0.pages) /\ mid > Len(st.pages)
  <2>. DEFINE N == Len(st.pages)
              N0 == Len(st0.pages)
  <2>1. N \in Nat /\ N0 = N + 1 /\ mid = N + 1 /\ a \in 1 .. N /\ b \in 1 .. N
    BY <1>2, <1>5
  <2>. HIDE DEF N, N0
  <2>2. a \in 1 .. N0 /\ b \in 1 .. N0 /\ mid \in 1 .. N0 /\ mid > N
    BY ONLY <2>1
  <2>. QED
    BY ONLY <2>2 DEF N, N0
<1>. HIDE DEF st0, x, y, z, K
<1>8. ASSUME NEW v, Rewrites(st, v, a, b), NEW i \in 1 .. Len(v.pages), NEW w, PartOf(w, s),
             i \in {a, b} \/ i > Len(st.pages)
      PROVE  /\ Wrote(v, WriteRebuilt(v, i, w), i, rebuild_internal_keys(v, i, w))
             /\ v.err = "none" => InnerAs(rebuild_internal_keys(v, i, w), i, w, at, K, l)
             /\ Rewrites(st, WriteRebuilt(v, i, w), a, b)
             /\ Len(WriteRebuilt(v, i, w).pages) = Len(v.pages)
  <2>1. /\ Wrote(v, WriteRebuilt(v, i, w), i, rebuild_internal_keys(v, i, w))
        /\ v.err = "none" => InnerAs(rebuild_internal_keys(v, i, w), i, w, at, K, l)
    BY <1>1, <1>8, WroteInner DEF K
  <2>2. Rewrites(st, WriteRebuilt(v, i, w), a, b) /\ Len(WriteRebuilt(v, i, w).pages) = Len(v.pages)
    BY <2>1, <1>5, <1>8, RewritesMore
  <2>. QED
    BY <2>1, <2>2
<1>. DEFINE p1 == rebuild_internal_keys(st0, a, x)
            p2 == rebuild_internal_keys(st1, mid, y)
            p3 == rebuild_internal_keys(st2, b, z)
<1>9. /\ Wrote(st0, st1, a, p1) /\ (st0.err = "none" => InnerAs(p1, a, x, at, K, l))
      /\ Rewrites(st, st1, a, b) /\ Len(st1.pages) = Len(st0.pages)
  BY <1>4, <1>5, <1>6, <1>7, <1>8
<1>10. /\ Wrote(st1, st2, mid, p2) /\ (st1.err = "none" => InnerAs(p2, mid, y, at, K, l))
       /\ Rewrites(st, st2, a, b) /\ Len(st2.pages) = Len(st0.pages)
  BY <1>4, <1>6, <1>7, <1>8, <1>9
<1>11. Wrote(st2, st3, b, p3) /\ (st2.err = "none" => InnerAs(p3, b, z, at, K, l))
  BY <1>4, <1>6, <1>7, <1>8, <1>10
<1>. HIDE DEF p1, p2, p3
<1>12. ThreeWritten(st, st3, a, b, p1, p2, p3)
  <2>1. ThreeWrites(st, st1, st2, st3, a, b, p1, p2, p3)
    <3>1. IsState(st) /\ a \in 1 .. Len(st.pages) /\ b \in 1 .. Len(st.pages) /\ a # b
      BY <1>2
    <3>2. Wrote(st0, st1, a, p1) /\ Wrote(st1, st2, NextId(st), p2) /\ Wrote(st2, st3, b, p3)
      BY <1>0, <1>9, <1>10, <1>11
    <3>. QED
      BY ONLY <3>1, <3>2 DEF ThreeWrites, st0
  <2>. QED
    BY <2>1, ThreeFacts
<1>13. st3.err = "none" => st2.err = "none" /\ st1.err = "none" /\ st0.err = "none"
  BY <1>9, <1>10, <1>11 DEF Wrote
<1>14. st3.err = "none" => InnerParts(st3.pages, a, mid, b, s, n, m, at, DOMAIN M, l)
  <2>1. ASSUME st3.err = "none"
        PROVE  st3.pages[a] = p1 /\ st3.pages[mid] = p2 /\ st3.pages[b] = p3
    BY <1>0, <1>12, <2>1 DEF ThreeWritten
  <2>2. ASSUME st3.err = "none"
        PROVE  InnerAs(p1, a, x, at, K, l) /\ InnerAs(p2, mid, y, at, K, l) /\ InnerAs(p3, b, z, at, K, l)
    BY <1>9, <1>10, <1>11, <1>13, <2>2
  <2>. QED
    BY ONLY <2>1, <2>2 DEF InnerParts, x, y, z, K
<1>15. Changed(st, st3, {a, b}) /\ Len(st3.pages) = Len(st.pages) + 1
  BY <1>12 DEF ThreeWritten
<1>16. n <= m /\ m <= Len(s) /\ (m > n => m < Len(s)) /\ mid \in Len(pg) + 1 .. Len(st3.pages)
  BY <1>0, <1>2, <1>3, <1>5, <1>15
<1>17. Ready(st3, q, NewRow(pg[q].children, c, c + 1, n, m, Len(s), mid), at, top, M, M, l, path)
  BY <1>0, <1>14, <1>15, <1>16, InnerPairReady, ZenonT(60) DEF JoinOf
<1>18. NewRow(pg[q].children, c, c + 1, n, m, Len(s), mid) = InsertAt(pg[q].children, c + 1, mid)
  BY <1>0 DEF NewRow
<1>. QED
  BY <1>17, <1>18

\* The left page gets all the children.
MergeOf(u, st, a, s) == u = write_page(st, rebuild_internal_keys(st, a, s))
\* The write of an inner merge leaves the parent to be rebuilt.
LEMMA InnerMerged ==
    ASSUME NEW st, NEW pg, NEW at, NEW top, NEW M, NEW l, NEW q, NEW path, NEW c, NEW a, NEW b,
           InnerPair(st, pg, at, top, M, l, q, path, c, a, b),
           NEW s, JoinOf(s, pg, a, b), NEW u, MergeOf(u, st, a, s)
    PROVE  Ready(u, q, RemoveAt(pg[q].children, c + 1), at, top, M, M, l, path)
<1>. DEFINE K == DOMAIN M
            p == rebuild_internal_keys(st, a, s)
<1>1. InnersKnown(st, pg, at, top, M, l, q, c, a, b) /\ InnerBox(st, pg, at, top, M, l, q, c, a, b, s)
  BY InnerPairFacts, InnerBoxed DEF JoinOf
<1>2. /\ IsState(st) /\ st.err = "none" /\ Len(st.pages) = Len(pg) /\ Len(pg) \in Nat /\ a \in 1 .. Len(st.pages)
      /\ a # b /\ pg[q].children \in Seq(Int)
      /\ c \in 1 .. Len(pg[q].children) /\ c + 1 \in 1 .. Len(pg[q].children)
      /\ pg[a].children \in Seq(1 .. Len(pg)) /\ pg[b].children \in Seq(1 .. Len(pg)) /\ pg[a].children # <<>>
  BY <1>1 DEF InnersKnown
<1>3. s \in Seq(1 .. Len(pg)) /\ Len(s) \in Nat /\ Len(s) >= 1
  <2>1. pg[a].children \in Seq(1 .. Len(pg)) /\ pg[b].children \in Seq(1 .. Len(pg)) /\ pg[a].children # <<>>
    BY <1>2
  <2>2. /\ pg[a].children \o pg[b].children \in Seq(1 .. Len(pg))
        /\ Len(pg[a].children \o pg[b].children) = Len(pg[a].children) + Len(pg[b].children)
    BY ONLY <2>1, Joined
  <2>3. Len(pg[a].children) \in Nat /\ Len(pg[b].children) \in Nat /\ Len(pg[a].children) >= 1
    BY ONLY <2>1
  <2>. QED
    <3>1. s = pg[a].children \o pg[b].children
      BY DEF JoinOf
    <3>2. s \in Seq(1 .. Len(pg)) /\ Len(s) = Len(pg[a].children) + Len(pg[b].children)
      BY ONLY <2>2, <3>1, Zenon
    <3>. DEFINE i == Len(pg[a].children)
                j == Len(pg[b].children)
    <3>3. Len(s) = i + j /\ i \in Nat /\ j \in Nat /\ i >= 1
      BY ONLY <2>3, <3>2
    <3>. HIDE DEF i, j
    <3>4. Len(s) \in Nat /\ Len(s) >= 1
      BY ONLY <3>3
    <3>. QED
      BY ONLY <3>2, <3>4, Zenon
<1>4. SubSeq(s, 1, Len(s)) = s
  <2>1. s \in Seq(1 .. Len(pg))
    BY ONLY <1>3
  <2>. QED
    BY ONLY <2>1, WholeSeq, Zenon
<1>5. PartOf(s, s)
  <2>1. 1 \in 1 .. Len(s) /\ Len(s) \in 1 .. Len(s)
    BY <1>3
  <2>. QED
    BY <2>1, <1>4 DEF PartOf
<1>6. /\ Wrote(st, WriteRebuilt(st, a, s), a, p) /\ InnerAs(p, a, s, at, K, l) /\ Rebuildable(st, s)
  <2>1. Rewrites(st, st, a, b)
    BY <1>2, RewritesNone
  <2>2. /\ Wrote(st, WriteRebuilt(st, a, s), a, p)
        /\ st.err = "none" => InnerAs(p, a, s, at, K, l) /\ Rebuildable(st, s)
    BY <1>1, <1>2, <1>5, <2>1, WroteInner, Zenon
  <2>. QED
    BY <1>2, <2>2
<1>7. u = WriteRebuilt(st, a, s)
  BY <1>2, <1>6 DEF WriteRebuilt, MergeOf
<1>. HIDE DEF p, K
<1>8. Changed(st, u, {a}) /\ (u.err = "none" => u.pages[a] = p)
  <2>1. Wrote(st, u, a, p)
    BY <1>6, <1>7
  <2>. QED
    <3>1. IsState(st) /\ a \in 1 .. Len(st.pages)
      BY <1>2
    <3>. QED
      BY ONLY <3>1, <2>1, ChangedOne
<1>9. u.err = "none" => InnerParts(u.pages, a, 0, b, s, Len(s), Len(s), at, DOMAIN M, l)
  <2>1. ~(Len(s) > Len(s)) /\ ~(Len(s) < Len(s))
    BY <1>3
  <2>. QED
    BY <2>1, <1>4, <1>6, <1>8 DEF InnerParts, K
<1>10. 1 <= Len(s) /\ Len(s) <= Len(s) /\ ~(Len(s) > Len(s)) /\ {a} \subseteq {a, b}
  BY <1>3
<1>11. Ready(u, q, NewRow(pg[q].children, c, c + 1, Len(s), Len(s), Len(s), 0), at, top, M, M, l, path)
  BY <1>3, <1>8, <1>9, <1>10, InnerPairReady, ZenonT(60) DEF JoinOf
<1>12. NewRow(pg[q].children, c, c + 1, Len(s), Len(s), Len(s), 0) = RemoveAt(pg[q].children, c + 1)
  <2>1. c + 1 # c /\ ~(Len(s) > Len(s)) /\ ~(Len(s) < Len(s))
    BY <1>2, <1>3
  <2>. QED
    BY <2>1 DEF NewRow
<1>. QED
  BY <1>11, <1>12

\* left and right are the inner pages a and b of level l, neighbours under q.
Twins(st, pg, at, top, M, l, q, path, c, a, b, left, right, parent) ==
    /\ InnerPair(st, pg, at, top, M, l, q, path, c, a, b)
    /\ left = Inner(a, pg[a].children, left.keys) /\ right = Inner(b, pg[b].children, right.keys)
    /\ IsParent(parent, pg, q)
\* What is known of them.
TwinsKnown(st, left, right, parent, c, a, b) ==
    /\ IsState(st)
    /\ left.children \in Seq(Int) /\ right.children \in Seq(Int)
    /\ left.children # <<>> /\ right.children # <<>>
    /\ left.id = a /\ right.id = b
    /\ ChildIndex(parent, a) = c /\ ChildIndex(parent, b) = c + 1
\* What is known of the twins, proved.
LEMMA TwinsFacts ==
    ASSUME NEW st, NEW pg, NEW at, NEW top, NEW M, NEW l, NEW q, NEW path, NEW c, NEW a, NEW b,
           NEW left, NEW right, NEW parent,
           Twins(st, pg, at, top, M, l, q, path, c, a, b, left, right, parent)
    PROVE  TwinsKnown(st, left, right, parent, c, a, b)
<1>1. InnerPair(st, pg, at, top, M, l, q, path, c, a, b) /\ IsParent(parent, pg, q)
      /\ left = Inner(a, pg[a].children, left.keys) /\ right = Inner(b, pg[b].children, right.keys)
  BY DEF Twins
<1>2. left.children = pg[a].children /\ right.children = pg[b].children /\ left.id = a /\ right.id = b
  BY <1>1 DEF Inner
<1>3. InnersKnown(st, pg, at, top, M, l, q, c, a, b)
  BY <1>1, InnerPairFacts
<1>4. /\ IsState(st) /\ pg[a].children \in Seq(1 .. Len(pg)) /\ pg[b].children \in Seq(1 .. Len(pg))
      /\ pg[a].children # <<>> /\ pg[b].children # <<>>
      /\ c \in 1 .. Len(pg[q].children) /\ c + 1 \in 1 .. Len(pg[q].children)
      /\ Len(pg) \in Nat
  BY <1>3 DEF InnersKnown
<1>5. pg[a].children \in Seq(Int) /\ pg[b].children \in Seq(Int)
  <2>1. 1 .. Len(pg) \subseteq Int
    BY <1>4
  <2>. QED
    BY <1>4, <2>1, SeqWider
<1>6. Spot(pg, at, top, M, l, q, c, c + 1) /\ a = pg[q].children[c] /\ b = pg[q].children[c + 1]
  BY <1>1, PlaceSpot DEF InnerPair
<1>7. ChildIndex(pg[q], a) = c /\ ChildIndex(pg[q], b) = c + 1
  <2>. DEFINE d == c + 1
  <2>1. Spot(pg, at, top, M, l, q, c, d) /\ a = pg[q].children[c] /\ b = pg[q].children[d]
        /\ c \in 1 .. Len(pg[q].children) /\ d \in 1 .. Len(pg[q].children)
    BY <1>4, <1>6
  <2>. HIDE DEF d
  <2>2. ChildIndex(pg[q], a) = c /\ ChildIndex(pg[q], b) = d
    BY <2>1, ChildFacts
  <2>. QED
    BY <2>2 DEF d
<1>8. ChildIndex(parent, a) = c /\ ChildIndex(parent, b) = c + 1
  BY <1>1, <1>7 DEF IsParent, ChildIndex
<1>. QED
  BY <1>2, <1>4, <1>5, <1>8 DEF TwinsKnown

Given(p, i, x) == p.id = i /\ p.children = x
\* Children move between the two pages; their parent is written, and the change
\* of the least key goes upwards.
LEMMA MoveEnd ==
    ASSUME NEW st, NEW pg, NEW at, NEW top, NEW M, NEW l, NEW q, NEW path, NEW c, NEW a, NEW b,
           NEW left, NEW right, NEW parent,
           Twins(st, pg, at, top, M, l, q, path, c, a, b, left, right, parent),
           NEW x, NEW y, x \o y = left.children \o right.children,
           x \in Seq(Int), y \in Seq(Int), x # <<>>, y # <<>>,
           NEW p, NEW r, Given(p, a, x), Given(r, b, y)
    PROVE  Good(WriteInnerPair(st, p, r, parent, path), M) /\ Good(WriteInnerPair(st, r, p, parent, path), M)
<1>1. /\ InnerPair(st, pg, at, top, M, l, q, path, c, a, b)
      /\ left.children = pg[a].children /\ right.children = pg[b].children
      /\ parent.id = q /\ parent.children = pg[q].children
  BY DEF Twins, Inner, IsParent
<1>2. IsState(st)
  BY TwinsFacts DEF TwinsKnown
<1>3. Good(Throw(st, "corrupt"), M)
  <2>1. IsState(Throw(st, "corrupt")) /\ Throw(st, "corrupt").err # "none"
    BY <1>2, ThrowFacts
  <2>. QED
    BY <2>1, ErrGood
<1>4. x \o y = pg[a].children \o pg[b].children
  BY <1>1
<1>5. /\ Ready(WriteRebuilt(WriteRebuilt(st, a, x), b, y), q, pg[q].children, at, top, M, M, l, path)
      /\ Ready(WriteRebuilt(WriteRebuilt(st, b, y), a, x), q, pg[q].children, at, top, M, M, l, path)
  BY <1>1, <1>4, InnerMoved
<1>. DEFINE u == WriteRebuilt(WriteRebuilt(st, a, x), b, y)
            v == WriteRebuilt(WriteRebuilt(st, b, y), a, x)
            ch == pg[q].children
<1>6. /\ Good(propagate_subtree_min_change(WriteRebuilt(u, q, ch), path), M)
      /\ Good(propagate_subtree_min_change(WriteRebuilt(v, q, ch), path), M)
  <2>. HIDE DEF u, v, ch
  <2>1. Ready(u, q, ch, at, top, M, M, l, path) /\ Ready(v, q, ch, at, top, M, M, l, path)
    BY <1>5 DEF u, v, ch
  <2>. QED
    BY <2>1, PropagateEnd
<1>. HIDE DEF ch
<1>7. WriteInnerPair(st, p, r, parent, path) \in
        {propagate_subtree_min_change(WriteRebuilt(u, q, ch), path), Throw(st, "corrupt")}
  BY <1>1 DEF WriteInnerPair, Given, ch
<1>8. WriteInnerPair(st, r, p, parent, path) \in
        {propagate_subtree_min_change(WriteRebuilt(v, q, ch), path), Throw(st, "corrupt")}
  BY <1>1 DEF WriteInnerPair, Given, ch
<1>. HIDE DEF u, v
<1>. QED
  BY <1>3, <1>6, <1>7, <1>8

\* The children of the two pages go into three.
LEMMA SplitTwinsEnd ==
    ASSUME NEW st, NEW pg, NEW at, NEW top, NEW M, NEW l, NEW q, NEW path, NEW c, NEW a, NEW b,
           NEW left, NEW right, NEW parent,
           Twins(st, pg, at, top, M, l, q, path, c, a, b, left, right, parent),
           Len(left.children) + Len(right.children) >= 3
    PROVE  Good(split_internal_pair(st, left, right, parent, path), M)
<1>1. /\ InnerPair(st, pg, at, top, M, l, q, path, c, a, b)
      /\ left.children = pg[a].children /\ right.children = pg[b].children
      /\ parent.id = q /\ parent.children = pg[q].children
  BY DEF Twins, Inner, IsParent
<1>2. TwinsKnown(st, left, right, parent, c, a, b)
  BY TwinsFacts
<1>3. /\ IsState(st) /\ left.id = a /\ right.id = b /\ ChildIndex(parent, a) = c
      /\ left.children \in Seq(Int) /\ right.children \in Seq(Int)
  BY <1>2 DEF TwinsKnown
<1>. DEFINE s == left.children \o right.children
            n == Cut1(s)
            m == Cut2(s)
            mid == NextId(st)
            t == ThreeWay(s)
            st1 == WriteRebuilt(allocate_node_page(st), a, t[1])
            st2 == WriteRebuilt(st1, mid, t[2])
            st3 == WriteRebuilt(st2, b, t[3])
            ch2 == InsertAt(pg[q].children, c + 1, mid)
<1>4. s \in Seq(Int) /\ Len(s) >= 3
  BY <1>3, Joined
<1>5. /\ n \in Nat /\ m \in Nat /\ 1 <= n /\ n < m /\ m < Len(s)
      /\ t[1] = SubSeq(s, 1, n) /\ t[2] = SubSeq(s, n + 1, m) /\ t[3] = SubSeq(s, m + 1, Len(s))
  <2>. HIDE DEF s, n, m, t
  <2>. QED
    BY <1>4, ThreeWayFacts DEF n, m, t
<1>6. split_internal_pair(st, left, right, parent, path) \in
        {WriteOrSplit(st3, q, ch2, path), Throw(st, "length")}
  BY <1>1, <1>3 DEF split_internal_pair
<1>7. Good(Throw(st, "length"), M)
  <2>1. IsState(Throw(st, "length")) /\ Throw(st, "length").err # "none"
    BY <1>3, ThrowFacts
  <2>. QED
    BY <2>1, ErrGood
<1>8. JoinOf(s, pg, a, b)
  BY <1>1 DEF JoinOf
<1>9. Writes3(st, st1, st2, st3, a, mid, b, s, n, m)
  <2>1. /\ st1 = WriteRebuilt(allocate_node_page(st), a, SubSeq(s, 1, n))
        /\ st2 = WriteRebuilt(st1, mid, SubSeq(s, n + 1, m))
        /\ st3 = WriteRebuilt(st2, b, SubSeq(s, m + 1, Len(s)))
    BY <1>5
  <2>. HIDE DEF st1, st2, st3, s, n, m, mid
  <2>. QED
    BY <2>1 DEF Writes3
<1>10. mid = NextId(st)
  OBVIOUS
<1>. HIDE DEF s, t, n, m, mid, st1, st2, st3
<1>11. SplitSteps(st, st3, a, mid, b, s, n, m)
  BY <1>5, <1>9, <1>10 DEF SplitSteps
<1>12. Ready(st3, q, ch2, at, top, M, M, l, path)
  BY <1>1, <1>8, <1>11, InnerSplit
<1>. HIDE DEF ch2
<1>13. Good(WriteOrSplit(st3, q, ch2, path), M)
  BY <1>12, SplitEnd
<1>. QED
  BY <1>6, <1>7, <1>13

\* The left page gets all the children, the right one is no longer a child.
LEMMA MergeTwinsEnd ==
    ASSUME NEW st, NEW pg, NEW at, NEW top, NEW M, NEW l, NEW q, NEW path, NEW c, NEW a, NEW b,
           NEW left, NEW right, NEW parent,
           Twins(st, pg, at, top, M, l, q, path, c, a, b, left, right, parent),
           parent = Inner(q, pg[q].children, parent.keys)
    PROVE  Good(MergeInto(st, rebuild_internal_keys(st, left.id, left.children \o right.children),
                          right.id, parent, path), M)
<1>1. /\ InnerPair(st, pg, at, top, M, l, q, path, c, a, b)
      /\ left.children = pg[a].children /\ right.children = pg[b].children
  BY DEF Twins, Inner
<1>2. TwinsKnown(st, left, right, parent, c, a, b)
  BY TwinsFacts
<1>3. /\ left.id = a /\ right.id = b /\ ChildIndex(parent, b) = c + 1
  BY <1>2 DEF TwinsKnown
<1>. DEFINE s == left.children \o right.children
            u == write_page(st, rebuild_internal_keys(st, a, s))
            ch == RemoveAt(pg[q].children, c + 1)
            node == [parent EXCEPT !.children = RemoveAt(@, ChildIndex(parent, right.id))]
<1>4. JoinOf(s, pg, a, b) /\ MergeOf(u, st, a, s)
  BY <1>1 DEF JoinOf, MergeOf
<1>5. node.id = q /\ node.children = ch
  BY <1>3 DEF Inner
<1>6. MergeInto(st, rebuild_internal_keys(st, left.id, left.children \o right.children), right.id, parent, path)
        = handle_internal_after_child_removed(u, node, path)
  BY <1>3 DEF MergeInto
<1>. HIDE DEF s, u, ch, node
<1>7. Ready(u, q, ch, at, top, M, M, l, path)
  BY <1>1, <1>4, InnerMerged DEF ch
<1>8. Good(handle_internal_after_child_removed(u, node, path), M)
  BY <1>5, <1>7, ChildGoneEnd
<1>. QED
  BY <1>6, <1>8

\* The children of the two pages are shared evenly.
LEMMA ShareTwinsEnd ==
    ASSUME NEW st, NEW pg, NEW at, NEW top, NEW M, NEW l, NEW q, NEW path, NEW c, NEW a, NEW b,
           NEW left, NEW right, NEW parent,
           Twins(st, pg, at, top, M, l, q, path, c, a, b, left, right, parent)
    PROVE  Good(redistribute_internal_pair(st, left, right, parent, path), M)
<1>1. left = Inner(a, left.children, left.keys) /\ right = Inner(b, right.children, right.keys)
  BY DEF Twins, Inner
<1>2. TwinsKnown(st, left, right, parent, c, a, b)
  BY TwinsFacts
<1>3. /\ IsState(st) /\ left.children \in Seq(Int) /\ right.children \in Seq(Int)
      /\ left.children # <<>> /\ right.children # <<>>
  BY <1>2 DEF TwinsKnown
<1>. DEFINE s == left.children \o right.children
            n == (Len(s) + 1) \div 2
            x == SubSeq(s, 1, n)
            y == SubSeq(s, n + 1, Len(s))
            p == [left EXCEPT !.children = x]
            r == [right EXCEPT !.children = y]
<1>4. Good(Throw(st, "length"), M)
  <2>1. IsState(Throw(st, "length")) /\ Throw(st, "length").err # "none"
    BY <1>3, ThrowFacts
  <2>. QED
    BY <2>1, ErrGood
<1>5. s \in Seq(Int) /\ Len(s) >= 2 /\ Len(s) \in Nat
  <2>. DEFINE i == Len(left.children)
              j == Len(right.children)
  <2>1. s \in Seq(Int) /\ Len(s) = i + j
    BY <1>3, Joined
  <2>2. i \in Nat /\ j \in Nat /\ i >= 1 /\ j >= 1
    BY <1>3
  <2>. HIDE DEF i, j, s
  <2>. QED
    BY <2>1, <2>2
<1>6. n \in Nat /\ 1 <= n /\ n < Len(s)
  <2>. HIDE DEF s
  <2>. QED
    BY <1>5
<1>7. x \o y = s /\ x \in Seq(Int) /\ y \in Seq(Int) /\ x # <<>> /\ y # <<>>
  <2>. HIDE DEF s, n
  <2>1. /\ SubSeq(s, 1, n) \in Seq(Int) /\ Len(SubSeq(s, 1, n)) = n
        /\ SubSeq(s, n + 1, Len(s)) \in Seq(Int) /\ Len(SubSeq(s, n + 1, Len(s))) = Len(s) - n
    BY <1>5, <1>6
  <2>2. SubSeq(s, 1, n) \o SubSeq(s, n + 1, Len(s)) = s
    BY <1>5, <1>6
  <2>. QED
    <3>1. Len(SubSeq(s, 1, n)) >= 1 /\ Len(SubSeq(s, n + 1, Len(s))) >= 1
      BY <1>5, <1>6, <2>1
    <3>. DEFINE z == SubSeq(s, 1, n)
                w == SubSeq(s, n + 1, Len(s))
    <3>2. z \in Seq(Int) /\ w \in Seq(Int) /\ Len(z) >= 1 /\ Len(w) >= 1
      BY <2>1, <3>1
    <3>. HIDE DEF z, w
    <3>3. z # <<>> /\ w # <<>>
      BY <3>2
    <3>. QED
      BY <2>2, <3>2, <3>3 DEF z, w
<1>8. redistribute_internal_pair(st, left, right, parent, path) \in
        {WriteInnerPair(st, p, r, parent, path), Throw(st, "length")}
  BY DEF redistribute_internal_pair
<1>9. Given(p, a, x) /\ Given(r, b, y)
  <2>. HIDE DEF x, y
  <2>. QED
    BY <1>1 DEF Given, Inner
<1>. HIDE DEF n, x, y, p, r
<1>10. Good(WriteInnerPair(st, p, r, parent, path), M)
  BY <1>7, <1>9, MoveEnd, Zenon
<1>. QED
  BY <1>4, <1>8, <1>10

\* The inner page node at the end of a path and its neighbours under its parent.
TwinsAround(st, pg, at, top, M, l, w, path, node) ==
    LET x == at[l][w]
        q == at[l + 1][w]
        up == ParentPath(path)
        parent == ParentOf(st, path)
        c == ChildIndex(parent, node.id)
        right == st.pages[parent.children[c + 1]]
        left == st.pages[parent.children[c - 1]]
    IN  /\ node.id = x /\ Len(path) # 1 /\ parent = Inner(q, pg[q].children, parent.keys) /\ IsState(st)
        /\ c < Len(parent.children) =>
             Twins(st, pg, at, top, M, l, q, up, c, x, parent.children[c + 1], node, right, parent)
        /\ c > 1 =>
             Twins(st, pg, at, top, M, l, q, up, c - 1, parent.children[c - 1], x, left, node, parent)
\* The neighbours of an inner page under its parent.
LEMMA InnerSides ==
    ASSUME NEW st, NEW pg, NEW at, NEW top, NEW M, NEW l, NEW w, NEW path,
           Under1(st, pg, at, top, M, l, w, path), l # 0, NEW node, node = pg[at[l][w]],
           Near(st, pg, at[l][w], at[l][w]), w \in DOMAIN M
    PROVE  TwinsAround(st, pg, at, top, M, l, w, path, node)
<1>. DEFINE x == at[l][w]
            q == at[l + 1][w]
            up == ParentPath(path)
            parent == ParentOf(st, path)
            c == ChildIndex(parent, x)
<1>1. /\ Len(path) # 1 /\ parent = pg[q] /\ parent.id = q /\ Place(st, pg, at, top, M, l, q, up)
      /\ pg[q].children \in Seq(Int) /\ c \in 1 .. Len(pg[q].children)
      /\ Len(pg[q].children) \in Nat /\ pg[q].children[c] = x /\ x \in 1 .. Len(pg) /\ c \in Nat
  BY DEF Under1
<1>2. Tree(pg, at, top, M) /\ l \in 0 .. top /\ l # top /\ IsState(st) /\ Len(pg) = Len(st.pages)
  BY <1>1 DEF Place
<1>3. ASSUME NEW m \in 0 .. top, m # 0, NEW v \in DOMAIN M
      PROVE  pg[at[m][v]] = Inner(at[m][v], pg[at[m][v]].children, pg[at[m][v]].keys)
  <2>1. PageOK(pg[at[m][v]], at[m][v], m, at, M)
    BY <1>2, <1>3, TreePages
  <2>. QED
    BY <1>3, <2>1 DEF PageOK, InnerOK
<1>4. node = Inner(x, pg[x].children, node.keys) /\ node.id = x
  <2>1. node = Inner(x, pg[x].children, node.keys)
    BY <1>2, <1>3
  <2>. QED
    BY <2>1 DEF Inner
<1>5. parent = Inner(q, pg[q].children, parent.keys) /\ IsParent(parent, pg, q)
  <2>1. l + 1 \in 0 .. top /\ l + 1 # 0
    BY <1>2, TreePages
  <2>. QED
    BY <1>1, <1>3, <2>1 DEF IsParent
<1>6. c = ChildIndex(parent, node.id)
  BY <1>4
<1>7. ASSUME NEW d \in 1 .. Len(pg[q].children), d # c
      PROVE  /\ st.pages[pg[q].children[d]] = pg[pg[q].children[d]]
             /\ pg[pg[q].children[d]] = Inner(pg[q].children[d], pg[pg[q].children[d]].children, pg[pg[q].children[d]].keys)
  <2>. DEFINE y == pg[q].children[d]
  <2>1. Spot(pg, at, top, M, l, q, c, c)
    <3>1. Sides(pg, q, c, c)
      BY <1>1 DEF Sides
    <3>. HIDE DEF c, q, up
    <3>. QED
      BY <1>1, <3>1, PlaceSpot
  <2>2. y \in 1 .. Len(pg) /\ (\E v \in DOMAIN M : at[l][v] = y) /\ ChildIndex(pg[q], y) = d
    BY <2>1, ChildFacts
  <2>3. ChildIndex(pg[q], x) = c
    BY <1>1
  <2>4. y # x
    BY <1>7, <2>2, <2>3
  <2>. HIDE DEF x, y, q, up, c
  <2>5. st.pages[y] = pg[y]
    BY <2>2, <2>4 DEF Near, x
  <2>6. pg[y] = Inner(y, pg[y].children, pg[y].keys)
    BY <1>2, <1>3, <2>2
  <2>. QED
    BY <2>5, <2>6 DEF y
<1>. HIDE DEF c, up, q, parent
<1>8. ASSUME c < Len(parent.children)
      PROVE  Twins(st, pg, at, top, M, l, q, up, c, x, parent.children[c + 1], node,
                   st.pages[parent.children[c + 1]], parent)
  <2>. DEFINE d == c + 1
              b == parent.children[d]
  <2>1. d \in 1 .. Len(pg[q].children) /\ d # c /\ parent.children = pg[q].children
    BY <1>1, <1>8
  <2>2. Sides(pg, q, c, d) /\ d = c + 1
    BY <1>1, <2>1 DEF Sides
  <2>. HIDE DEF d
  <2>3. st.pages[b] = pg[b] /\ pg[b] = Inner(b, pg[b].children, pg[b].keys)
    BY <1>7, <2>1
  <2>4. Near(st, pg, x, b)
    BY DEF Near
  <2>5. b = pg[q].children[d]
    BY <2>1
  <2>. HIDE DEF b, x
  <2>6. InnerPair(st, pg, at, top, M, l, q, up, c, x, b)
    BY <1>1, <2>2, <2>4, <2>5 DEF InnerPair
  <2>7. Twins(st, pg, at, top, M, l, q, up, c, x, b, node, st.pages[b], parent)
    BY <1>4, <1>5, <2>3, <2>6 DEF Twins
  <2>. QED
    BY <2>7 DEF b, d
<1>9. ASSUME c > 1
      PROVE  Twins(st, pg, at, top, M, l, q, up, c - 1, parent.children[c - 1], x,
                   st.pages[parent.children[c - 1]], node, parent)
  <2>. DEFINE d == c - 1
              a == parent.children[d]
  <2>1. d \in 1 .. Len(pg[q].children) /\ d # c /\ parent.children = pg[q].children
    BY <1>1, <1>9
  <2>2. Sides(pg, q, d, d + 1) /\ d + 1 = c
    BY <1>1, <2>1 DEF Sides
  <2>. HIDE DEF d
  <2>3. st.pages[a] = pg[a] /\ pg[a] = Inner(a, pg[a].children, pg[a].keys)
    BY <1>7, <2>1
  <2>4. Near(st, pg, a, x)
    BY DEF Near
  <2>5. a = pg[q].children[d] /\ x = pg[q].children[d + 1]
    BY <1>1, <2>1, <2>2
  <2>. HIDE DEF a, x
  <2>6. InnerPair(st, pg, at, top, M, l, q, up, d, a, x)
    BY <1>1, <2>2, <2>4, <2>5 DEF InnerPair
  <2>7. Twins(st, pg, at, top, M, l, q, up, d, a, x, st.pages[a], node, parent)
    BY <1>4, <1>5, <2>3, <2>6 DEF Twins
  <2>. QED
    BY <2>7 DEF a, d
<1>. QED
  BY <1>1, <1>2, <1>4, <1>5, <1>6, <1>8, <1>9, Zenon DEF TwinsAround, parent, q, up

\* The leftmost leaf below a page that is not an inner one is the page.
LEMMA LeftmostSelf ==
    ASSUME NEW pg, Len(pg) \in Nat, NEW p, ~IsInner(pg[p])
    PROVE  leftmost_leaf(pg, p) = p
<1>. DEFINE N == Len(pg)
            G(f) == [i \in 0 .. N |-> IF i = 0 THEN p
                      ELSE LET q == f[i - 1]
                           IN  IF IsInner(pg[q]) THEN Head(pg[q].children) ELSE q]
            g == [i \in 0 .. N |-> p]
            f == CHOOSE h : h = G(h)
<1>1. leftmost_leaf(pg, p) = f[N]
  BY DEF leftmost_leaf
<1>2. g = G(g)
  <2>1. \A i \in 0 .. N : i # 0 => i - 1 \in 0 .. N
    OBVIOUS
  <2>2. \A i \in 0 .. N : g[i] = G(g)[i]
    BY <2>1, Zenon
  <2>. QED
    BY <2>2
<1>3. f = G(f)
  BY <1>2, Zenon
<1>. DEFINE T == {x \in 0 .. N : f[x] # p}
<1>4. ASSUME T # {} PROVE FALSE
  <2>1. T \in SUBSET Nat
    OBVIOUS
  <2>. HIDE DEF T
  <2>2. PICK y \in T : \A z \in T : y <= z
    BY <1>4, <2>1, LeastNatural
  <2>. HIDE DEF f, G
  <2>3. y \in 0 .. N /\ f[y] # p /\ f[y] = G(f)[y]
    BY <2>2, <1>3 DEF T
  <2>4. CASE y = 0
    BY <2>3, <2>4 DEF G
  <2>5. CASE y # 0
    <3>1. y - 1 \in 0 .. N /\ y - 1 \notin T
      BY <2>2, <2>3, <2>5
    <3>2. f[y - 1] = p
      BY <3>1 DEF T
    <3>. QED
      BY <2>3, <2>5, <3>2 DEF G
  <2>. QED
    BY <2>4, <2>5
<1>5. N \in 0 .. N
  OBVIOUS
<1>. HIDE DEF f
<1>6. f[N] = p
  BY <1>4, <1>5
<1>. QED
  BY <1>1, <1>6

\* A page split below the root without a neighbour, or the root, is rebuilt from
\* a page of zeros, and this ends the call with an exception.
LEMMA SplitAloneEnd ==
    ASSUME NEW st, IsState(st), NEW node, NEW path, NEW M
    PROVE  Good(split_internal_alone(st, node, path), M)
<1>. DEFINE v == allocate_node_page(st)
            new == NextId(st)
            N == Len(v.pages)
            g == [i \in 0 .. N |-> new]
<1>1. IsState(v) /\ new = N /\ v.pages[new] = ZeroPage(new) /\ N \in Nat /\ N > 0
  BY AllocFacts
<1>2. ~IsInner(v.pages[new]) /\ ~IsLeaf(v.pages[new])
  BY <1>1 DEF ZeroPage, IsInner, IsLeaf
<1>3. ~HasMin(v.pages, new)
  <2>. DEFINE pg == v.pages
  <2>1. Len(pg) \in Nat /\ ~IsInner(pg[new]) /\ ~IsLeaf(pg[new])
    BY <1>1, <1>2
  <2>. HIDE DEF pg, new
  <2>2. leftmost_leaf(pg, new) = new
    BY <2>1, LeftmostSelf
  <2>3. ~HasMin(pg, new)
    BY <2>1, <2>2 DEF HasMin
  <2>. QED
    BY <2>3 DEF pg
<1>4. split_internal_alone(st, node, path) = Throw(v, "corrupt")
  BY <1>3 DEF split_internal_alone
<1>5. IsState(Throw(v, "corrupt")) /\ Throw(v, "corrupt").err # "none"
  BY <1>1, ThrowFacts
<1>. QED
  BY <1>4, <1>5, ErrGood

\* The neighbours of the inner page that waits.
LEMMA PendTwins ==
    ASSUME NEW st, IsState(st), st.call = NoCall, st.err = "none", NEW call, NEW M, NEW at, NEW top,
           NEW l, NEW w, Pend(st.pages, st.root, st.first, call, M, at, top, l, w), l # 0, l # top
    PROVE  \E pg : TwinsAround(st, pg, at, top, M, l, w, call.path, call.node)
<1>. DEFINE x == at[l][w]
            node == call.node
            path == call.path
            pg == [st.pages EXCEPT ![x] = node]
<1>1. /\ Tree(pg, at, top, M) /\ RootOK(at, top, DOMAIN M, st.root) /\ FirstOK(at, DOMAIN M, st.first)
      /\ w \in DOMAIN M /\ l \in 0 .. top /\ PathIs(path, at, top, l, w)
  BY DEF Pend
<1>2. Len(pg) = Len(st.pages) /\ Len(st.pages) \in Nat
  BY FilePages
<1>3. x \in 1 .. Len(st.pages) /\ top \in Nat
  BY <1>1, <1>2, TreePages
<1>4. pg[x] = node /\ Near(st, pg, x, x)
  <2>1. st.pages \in Seq(AnyPage)
    BY FilePages
  <2>2. \A p \in 1 .. Len(pg) : p # x => pg[p] = st.pages[p]
    BY <1>2, <1>3, <2>1
  <2>. QED
    BY <1>2, <1>3, <2>1, <2>2 DEF Near
<1>. HIDE DEF node, path, pg
<1>5. Under1(st, pg, at, top, M, l, w, path)
  BY <1>1, <1>2, <1>4, PendPlace
<1>6. TwinsAround(st, pg, at, top, M, l, w, path, node)
  BY <1>1, <1>4, <1>5, InnerSides
<1>. QED
  BY <1>6 DEF path, node

\* An inner page with other children.
LEMMA InnerChanged ==
    ASSUME NEW p, NEW i, NEW c, NEW k, NEW z, p = Inner(i, c, k)
    PROVE  Given([p EXCEPT !.children = z], i, z) /\ p.children = c /\ p.id = i
  BY DEF Inner, Given

\* Children over the border of two neighbours, in either direction.
LEMMA BorrowEnd ==
    ASSUME NEW st, NEW pg, NEW at, NEW top, NEW M, NEW l, NEW q, NEW path, NEW c, NEW a, NEW b,
           NEW left, NEW right, NEW parent,
           Twins(st, pg, at, top, M, l, q, path, c, a, b, left, right, parent)
    PROVE  /\ Len(right.children) > 1 =>
                LET p == [left EXCEPT !.children = Append(@, Head(right.children))]
                    r == [right EXCEPT !.children = Tail(@)]
                IN  Good(WriteInnerPair(st, p, r, parent, path), M) /\ Good(WriteInnerPair(st, r, p, parent, path), M)
           /\ Len(left.children) > 1 =>
                LET p == [left EXCEPT !.children = Front(@)]
                    r == [right EXCEPT !.children = <<Last(left.children)>> \o @]
                IN  Good(WriteInnerPair(st, p, r, parent, path), M) /\ Good(WriteInnerPair(st, r, p, parent, path), M)
<1>1. left = Inner(a, pg[a].children, left.keys) /\ right = Inner(b, pg[b].children, right.keys)
  BY DEF Twins
<1>2. left = Inner(a, left.children, left.keys) /\ right = Inner(b, right.children, right.keys)
  BY <1>1 DEF Inner
<1>3. TwinsKnown(st, left, right, parent, c, a, b)
  BY TwinsFacts
<1>4. /\ left.children \in Seq(Int) /\ right.children \in Seq(Int)
      /\ left.children # <<>> /\ right.children # <<>>
  BY <1>3 DEF TwinsKnown
<1>5. ASSUME NEW x, NEW y, x \o y = left.children \o right.children,
             x \in Seq(Int), y \in Seq(Int), x # <<>>, y # <<>>
      PROVE  LET p == [left EXCEPT !.children = x]
                 r == [right EXCEPT !.children = y]
             IN  Good(WriteInnerPair(st, p, r, parent, path), M) /\ Good(WriteInnerPair(st, r, p, parent, path), M)
  <2>. DEFINE p == [left EXCEPT !.children = x]
              r == [right EXCEPT !.children = y]
  <2>1. Given(p, a, x) /\ Given(r, b, y)
    <3>. DEFINE lc == left.children
                lk == left.keys
                rc == right.children
                rk == right.keys
    <3>1. left = Inner(a, lc, lk) /\ right = Inner(b, rc, rk)
      BY <1>2
    <3>. HIDE DEF lc, lk, rc, rk
    <3>. QED
      BY <3>1, InnerChanged
  <2>. HIDE DEF p, r
  <2>2. Good(WriteInnerPair(st, p, r, parent, path), M) /\ Good(WriteInnerPair(st, r, p, parent, path), M)
    BY <1>5, <2>1, MoveEnd
  <2>. QED
    BY <2>2 DEF p, r
<1>6. ASSUME Len(right.children) > 1
      PROVE  LET p == [left EXCEPT !.children = Append(@, Head(right.children))]
                 r == [right EXCEPT !.children = Tail(@)]
             IN  Good(WriteInnerPair(st, p, r, parent, path), M) /\ Good(WriteInnerPair(st, r, p, parent, path), M)
  <2>. DEFINE s == left.children
              u == right.children
              x == Append(s, Head(u))
              y == Tail(u)
  <2>1. s \in Seq(Int) /\ u \in Seq(Int) /\ u # <<>> /\ Len(u) > 1
    BY <1>4, <1>6
  <2>. HIDE DEF s, u
  <2>2. x \o y = s \o u /\ x \in Seq(Int) /\ x # <<>> /\ y \in Seq(Int) /\ Len(y) = Len(u) - 1
    BY <2>1, MoveLeft
  <2>3. y # <<>>
    <3>1. y \in Seq(Int) /\ Len(y) >= 1
      BY <2>1, <2>2
    <3>. HIDE DEF y
    <3>. QED
      BY <3>1
  <2>4. x \o y = left.children \o right.children
    BY <2>2 DEF s, u
  <2>5. /\ [left EXCEPT !.children = Append(@, Head(right.children))] = [left EXCEPT !.children = x]
        /\ [right EXCEPT !.children = Tail(@)] = [right EXCEPT !.children = y]
    BY DEF s, u
  <2>. HIDE DEF x, y
  <2>. QED
    BY <1>5, <2>2, <2>3, <2>4, <2>5
<1>7. ASSUME Len(left.children) > 1
      PROVE  LET p == [left EXCEPT !.children = Front(@)]
                 r == [right EXCEPT !.children = <<Last(left.children)>> \o @]
             IN  Good(WriteInnerPair(st, p, r, parent, path), M) /\ Good(WriteInnerPair(st, r, p, parent, path), M)
  <2>. DEFINE s == left.children
              u == right.children
              x == Front(s)
              y == <<Last(s)>> \o u
  <2>1. s \in Seq(Int) /\ u \in Seq(Int) /\ s # <<>> /\ Len(s) > 1
    BY <1>4, <1>7
  <2>. HIDE DEF s, u
  <2>2. x \o y = s \o u /\ x \in Seq(Int) /\ y # <<>> /\ y \in Seq(Int) /\ Len(x) = Len(s) - 1
    <3>1. /\ Front(s) \o (<<Last(s)>> \o u) = s \o u
          /\ Front(s) \in Seq(Int) /\ <<Last(s)>> \o u \in Seq(Int) /\ <<Last(s)>> \o u # <<>>
          /\ Len(Front(s)) = Len(s) - 1
      BY ONLY <2>1, MoveRight, Zenon
    <3>. QED
      BY <3>1
  <2>3. x # <<>>
    <3>1. x \in Seq(Int) /\ Len(x) >= 1
      BY <2>1, <2>2
    <3>. HIDE DEF x
    <3>. QED
      BY <3>1
  <2>4. x \o y = left.children \o right.children
    BY <2>2 DEF s, u
  <2>5. /\ [left EXCEPT !.children = Front(@)] = [left EXCEPT !.children = x]
        /\ [right EXCEPT !.children = <<Last(left.children)>> \o @] = [right EXCEPT !.children = y]
    BY DEF s, u
  <2>. HIDE DEF x, y
  <2>. QED
    BY <1>5, <2>2, <2>3, <2>4, <2>5
<1>. QED
  BY <1>6, <1>7

\* split_internal with its neighbours: borrow, split two pages into three, or
\* split alone.
LEMMA SplitTwins ==
    ASSUME NEW st, NEW pg, NEW at, NEW top, NEW M, NEW l, NEW w, NEW path, NEW node,
           TwinsAround(st, pg, at, top, M, l, w, path, node), Len(node.children) >= 2
    PROVE  Good(split_internal(st, node, path), M)
<1>. DEFINE x == at[l][w]
            q == at[l + 1][w]
            up == ParentPath(path)
            parent == ParentOf(st, path)
            c == ChildIndex(parent, node.id)
            right == st.pages[parent.children[c + 1]]
            left == st.pages[parent.children[c - 1]]
            hasRight == c < Len(parent.children)
            hasLeft == c > 1
            nodeR == [node EXCEPT !.children = Append(@, Head(right.children))]
            rightR == [right EXCEPT !.children = Tail(@)]
            nodeL == [node EXCEPT !.children = <<Last(left.children)>> \o @]
            leftL == [left EXCEPT !.children = Front(@)]
            takeRight == hasRight /\ Len(right.children) > 1 /\ InnersFit(st, nodeR, rightR)
            takeLeft == hasLeft /\ Len(left.children) > 1 /\ InnersFit(st, nodeL, leftL)
            b == parent.children[c + 1]
            a == parent.children[c - 1]
<1>1. /\ Len(path) # 1 /\ IsState(st)
      /\ hasRight => Twins(st, pg, at, top, M, l, q, up, c, x, b, node, right, parent)
      /\ hasLeft => Twins(st, pg, at, top, M, l, q, up, c - 1, a, x, left, node, parent)
  BY DEF TwinsAround
<1>2. split_internal(st, node, path) =
        IF takeRight THEN WriteInnerPair(st, nodeR, rightR, parent, up)
        ELSE IF takeLeft THEN WriteInnerPair(st, nodeL, leftL, parent, up)
        ELSE IF hasRight THEN split_internal_pair(st, node, right, parent, up)
        ELSE IF hasLeft THEN split_internal_pair(st, left, node, parent, up)
        ELSE split_internal_alone(st, node, path)
  BY <1>1 DEF split_internal
<1>. DEFINE d == c - 1
<1>3. hasLeft => Twins(st, pg, at, top, M, l, q, up, d, a, x, left, node, parent)
  BY <1>1
<1>. HIDE DEF x, q, up, parent, c, right, left, hasRight, hasLeft, a, b, d
<1>4. CASE takeRight
  <2>1. Good(WriteInnerPair(st, nodeR, rightR, parent, up), M)
    BY <1>1, <1>4, BorrowEnd
  <2>. QED
    BY <1>2, <1>4, <2>1
<1>5. CASE ~takeRight /\ takeLeft
  <2>1. Good(WriteInnerPair(st, nodeL, leftL, parent, up), M)
    BY <1>3, <1>5, BorrowEnd
  <2>. QED
    BY <1>2, <1>5, <2>1
<1>6. ASSUME hasRight PROVE Good(split_internal_pair(st, node, right, parent, up), M)
  <2>1. TwinsKnown(st, node, right, parent, c, x, b)
    BY <1>1, <1>6, TwinsFacts
  <2>2. right.children \in Seq(Int) /\ right.children # <<>> /\ node.children \in Seq(Int)
    BY <2>1 DEF TwinsKnown
  <2>3. Len(node.children) + Len(right.children) >= 3
    <3>. DEFINE i == Len(node.children)
                j == Len(right.children)
    <3>1. j \in Nat /\ j >= 1
      BY <2>2
    <3>2. i \in Nat
      BY <2>2
    <3>3. i >= 2
      OBVIOUS
    <3>. HIDE DEF i, j
    <3>4. i + j >= 3
      BY <3>1, <3>2, <3>3
    <3>. QED
      BY <3>4 DEF i, j
  <2>. QED
    BY <1>1, <1>6, <2>3, SplitTwinsEnd
<1>7. ASSUME hasLeft PROVE Good(split_internal_pair(st, left, node, parent, up), M)
  <2>1. TwinsKnown(st, left, node, parent, d, a, x)
    BY <1>3, <1>7, TwinsFacts
  <2>2. left.children \in Seq(Int) /\ left.children # <<>> /\ node.children \in Seq(Int)
    BY <2>1 DEF TwinsKnown
  <2>3. Len(left.children) + Len(node.children) >= 3
    <3>. DEFINE i == Len(node.children)
                j == Len(left.children)
    <3>1. j \in Nat /\ j >= 1
      BY <2>2
    <3>2. i \in Nat
      BY <2>2
    <3>3. i >= 2
      OBVIOUS
    <3>. HIDE DEF i, j
    <3>4. j + i >= 3
      BY <3>1, <3>2, <3>3
    <3>. QED
      BY <3>4 DEF i, j
  <2>. QED
    BY <1>3, <1>7, <2>3, SplitTwinsEnd
<1>8. Good(split_internal_alone(st, node, path), M)
  BY <1>1, SplitAloneEnd
<1>. HIDE DEF takeRight, takeLeft, nodeR, nodeL, rightR, leftL
<1>9. CASE ~takeRight /\ ~takeLeft
  BY <1>2, <1>6, <1>7, <1>8, <1>9
<1>. QED
  BY <1>4, <1>5, <1>9

\* split_internal ends the call, calls itself, or throws.
LEMMA SplitInternalGood ==
    ASSUME NEW st, IsState(st), st.call = NoCall, st.err = "none", NEW call, NEW M, NEW at, NEW top,
           NEW l, NEW w, Pend(st.pages, st.root, st.first, call, M, at, top, l, w), l > 0,
           Len(call.node.children) >= 2
    PROVE  Good(split_internal(st, call.node, call.path), M)
<1>1. /\ l \in 0 .. top /\ PathIs(call.path, at, top, l, w)
      /\ Tree([st.pages EXCEPT ![at[l][w]] = call.node], at, top, M)
  BY DEF Pend
<1>2. top \in Nat /\ l # 0
  BY <1>1, TreePages
<1>3. CASE l = top
  <2>1. Len(call.path) = 1
    <3>1. PathFacts(call.path, at, top, l, w)
      BY <1>1, <1>2, PathParts
    <3>. QED
      BY <1>2, <1>3, <3>1 DEF PathFacts
  <2>2. split_internal(st, call.node, call.path) = split_internal_alone(st, call.node, call.path)
    BY <2>1 DEF split_internal
  <2>. QED
    BY <2>2, SplitAloneEnd
<1>4. CASE l # top
  <2>1. PICK pg : TwinsAround(st, pg, at, top, M, l, w, call.path, call.node)
    BY <1>2, <1>4, PendTwins
  <2>. QED
    BY <2>1, SplitTwins
<1>. QED
  BY <1>3, <1>4

\* fix_internal_underflow with its neighbours: borrow, merge, or share.
LEMMA FixTwins ==
    ASSUME NEW st, NEW pg, NEW at, NEW top, NEW M, NEW l, NEW w, NEW path, NEW node,
           TwinsAround(st, pg, at, top, M, l, w, path, node)
    PROVE  Good(fix_internal_underflow(st, node, path), M)
<1>. DEFINE x == at[l][w]
            q == at[l + 1][w]
            up == ParentPath(path)
            parent == ParentOf(st, path)
            c == ChildIndex(parent, node.id)
            right == st.pages[parent.children[c + 1]]
            left == st.pages[parent.children[c - 1]]
            hasRight == c < Len(parent.children)
            hasLeft == c > 1
            nodeR == [node EXCEPT !.children = Append(@, Head(right.children))]
            rightR == [right EXCEPT !.children = Tail(@)]
            nodeL == [node EXCEPT !.children = <<Last(left.children)>> \o @]
            leftL == [left EXCEPT !.children = Front(@)]
            takeRight == hasRight /\ ~inner_underflow(right)
            takeLeft == hasLeft /\ ~inner_underflow(left)
            b == parent.children[c + 1]
            a == parent.children[c - 1]
            Merge(p, r) ==
              LET merged == rebuild_internal_keys(st, p.id, p.children \o r.children)
              IN  IF inner_overflow(merged)
                  THEN redistribute_internal_pair(st, p, r, parent, up)
                  ELSE MergeInto(st, merged, r.id, parent, up)
<1>1. /\ IsState(st) /\ parent = Inner(q, pg[q].children, parent.keys)
      /\ hasRight => Twins(st, pg, at, top, M, l, q, up, c, x, b, node, right, parent)
      /\ hasLeft => Twins(st, pg, at, top, M, l, q, up, c - 1, a, x, left, node, parent)
  BY DEF TwinsAround
<1>2. fix_internal_underflow(st, node, path) =
        IF takeLeft THEN WriteInnerPair(st, leftL, nodeL, parent, up)
        ELSE IF takeRight THEN WriteInnerPair(st, rightR, nodeR, parent, up)
        ELSE IF hasLeft THEN Merge(left, node)
        ELSE IF hasRight THEN Merge(node, right)
        ELSE Throw(st, "logic")
  BY DEF fix_internal_underflow
<1>. DEFINE d == c - 1
<1>3. hasLeft => Twins(st, pg, at, top, M, l, q, up, d, a, x, left, node, parent)
  BY <1>1
<1>. HIDE DEF x, q, up, parent, c, right, left, hasRight, hasLeft, a, b, d
<1>4. ASSUME takeRight PROVE Good(WriteInnerPair(st, rightR, nodeR, parent, up), M)
  <2>1. Twins(st, pg, at, top, M, l, q, up, c, x, b, node, right, parent)
    BY <1>1, <1>4
  <2>2. Len(right.children) > 1
    <3>1. TwinsKnown(st, node, right, parent, c, x, b)
      BY <2>1, TwinsFacts
    <3>2. right.children \in Seq(Int) /\ ~(Len(right.children) <= 1)
      BY <1>4, <3>1 DEF TwinsKnown, inner_underflow
    <3>. QED
      BY <3>2
  <2>. QED
    BY <2>1, <2>2, BorrowEnd
<1>5. ASSUME takeLeft PROVE Good(WriteInnerPair(st, leftL, nodeL, parent, up), M)
  <2>1. Twins(st, pg, at, top, M, l, q, up, d, a, x, left, node, parent)
    BY <1>3, <1>5
  <2>2. Len(left.children) > 1
    <3>1. TwinsKnown(st, left, node, parent, d, a, x)
      BY <2>1, TwinsFacts
    <3>2. left.children \in Seq(Int) /\ ~(Len(left.children) <= 1)
      BY <1>5, <3>1 DEF TwinsKnown, inner_underflow
    <3>. QED
      BY <3>2
  <2>. QED
    BY <2>1, <2>2, BorrowEnd
<1>6. ASSUME NEW e, NEW y, NEW z, NEW p, NEW r, Twins(st, pg, at, top, M, l, q, up, e, y, z, p, r, parent)
      PROVE  Good(Merge(p, r), M)
  <2>1. Good(redistribute_internal_pair(st, p, r, parent, up), M)
    BY <1>6, ShareTwinsEnd
  <2>2. Good(MergeInto(st, rebuild_internal_keys(st, p.id, p.children \o r.children), r.id, parent, up), M)
    BY <1>1, <1>6, MergeTwinsEnd
  <2>. QED
    BY <2>1, <2>2
<1>7. Good(Throw(st, "logic"), M)
  <2>1. IsState(Throw(st, "logic")) /\ Throw(st, "logic").err # "none"
    BY <1>1, ThrowFacts
  <2>. QED
    BY <2>1, ErrGood
<1>8. /\ hasLeft => Good(Merge(left, node), M)
      /\ hasRight => Good(Merge(node, right), M)
  BY <1>1, <1>3, <1>6
<1>. HIDE DEF takeRight, takeLeft, nodeR, nodeL, rightR, leftL, Merge
<1>. QED
  BY <1>2, <1>4, <1>5, <1>7, <1>8

\* fix_internal_underflow ends the call, calls itself for the parent, or throws.
LEMMA FixInternalGood ==
    ASSUME NEW st, IsState(st), st.call = NoCall, st.err = "none", NEW call, NEW M, NEW at, NEW top,
           NEW l, NEW w, Pend(st.pages, st.root, st.first, call, M, at, top, l, w), l > 0, l < top
    PROVE  Good(fix_internal_underflow(st, call.node, call.path), M)
<1>1. l # 0 /\ l # top
  <2>1. l \in 0 .. top /\ Tree([st.pages EXCEPT ![at[l][w]] = call.node], at, top, M)
    BY DEF Pend
  <2>2. top \in Nat
    BY <2>1, TreePages
  <2>. QED
    BY <2>1, <2>2
<1>2. PICK pg : TwinsAround(st, pg, at, top, M, l, w, call.path, call.node)
  BY <1>1, PendTwins
<1>. QED
  BY <1>2, FixTwins

\* The map without the entry of k.
Without(M, k) == [x \in DOMAIN M \ {k} |-> M[x]]
\* One entry less.
LEMMA HeldMinus ==
    ASSUME NEW e, NEW M, NEW S, Held(e, M, S), S \subseteq DOMAIN M, DOMAIN M \subseteq Int,
           NEW i \in 1 .. Len(e), NEW k, e[i].key = k
    PROVE  Held(RemoveAt(e, i), Without(M, k), S \ {k})
<1>. DEFINE u == RemoveAt(e, i)
            N == Without(M, k)
<1>1. /\ e \in Seq(Entries) /\ Len(e) \in Nat
      /\ \A a, b \in 1 .. Len(e) : a < b => e[a].key < e[b].key
      /\ \A a \in 1 .. Len(e) : e[a].key \in S /\ e[a].rid = M[e[a].key] /\ e[a].key \in Int
      /\ \A y \in S : \E a \in 1 .. Len(e) : e[a].key = y
  BY DEF Held
<1>2. /\ u \in Seq(Entries) /\ Len(u) = Len(e) - 1
      /\ \A x \in 1 .. Len(e) - 1 : u[x] = IF x < i THEN e[x] ELSE e[x + 1]
  BY <1>1, Taken
<1>. HIDE DEF u
<1>. DEFINE to(x) == IF x < i THEN x ELSE x + 1
<1>3. \A x \in 1 .. Len(u) : u[x] = e[to(x)] /\ to(x) \in 1 .. Len(e) /\ to(x) # i
  <2>1. ASSUME NEW x \in 1 .. Len(u) PROVE u[x] = e[to(x)] /\ to(x) \in 1 .. Len(e) /\ to(x) # i
    <3>1. x \in 1 .. Len(e) - 1 /\ x \in Int /\ i \in Int /\ Len(e) \in Nat
      BY <1>1, <1>2
    <3>2. to(x) \in 1 .. Len(e) /\ to(x) # i
      BY <3>1
    <3>3. u[x] = e[to(x)]
      BY <1>2, <3>1
    <3>. QED
      BY <3>2, <3>3
  <2>. QED
    BY <2>1
<1>4. \A x, y \in 1 .. Len(u) : x < y => to(x) < to(y)
  BY <1>1, <1>2
<1>5. \A a \in 1 .. Len(e) : a # i => \E x \in 1 .. Len(u) : to(x) = a
  <2>1. ASSUME NEW a \in 1 .. Len(e), a # i PROVE \E x \in 1 .. Len(u) : to(x) = a
    <3>1. CASE a < i
      <4>1. a \in 1 .. Len(u) /\ to(a) = a
        BY <1>1, <1>2, <3>1
      <4>. QED
        BY <4>1
    <3>2. CASE ~(a < i)
      <4>1. a - 1 \in 1 .. Len(u) /\ to(a - 1) = a
        BY <1>1, <1>2, <2>1, <3>2
      <4>. QED
        BY <4>1
    <3>. QED
      BY <3>1, <3>2
  <2>. QED
    BY <2>1
<1>. HIDE DEF to
<1>6. \A x, y \in 1 .. Len(u) : x < y => u[x].key < u[y].key
  BY <1>1, <1>3, <1>4, ZenonT(60)
<1>7. \A a \in 1 .. Len(e) : a # i => e[a].key # k
  BY <1>1
<1>8. \A x \in 1 .. Len(u) : u[x].key \in S \ {k} /\ u[x].rid = N[u[x].key]
  <2>1. ASSUME NEW x \in 1 .. Len(u) PROVE u[x].key \in S \ {k} /\ u[x].rid = N[u[x].key]
    <3>1. u[x] = e[to(x)] /\ e[to(x)].key \in S \ {k} /\ e[to(x)].rid = M[e[to(x)].key]
      BY <1>1, <1>3, <1>7
    <3>2. \A y \in S \ {k} : N[y] = M[y]
      BY DEF Without
    <3>. QED
      BY <3>1, <3>2
  <2>. QED
    BY <2>1
<1>9. \A y \in S \ {k} : \E x \in 1 .. Len(u) : u[x].key = y
  <2>1. ASSUME NEW y \in S \ {k} PROVE \E x \in 1 .. Len(u) : u[x].key = y
    <3>1. PICK a \in 1 .. Len(e) : e[a].key = y
      BY <1>1
    <3>2. a # i
      BY <3>1
    <3>3. PICK x \in 1 .. Len(u) : to(x) = a
      BY <1>5, <3>2
    <3>. QED
      BY <1>3, <3>1, <3>3
  <2>. QED
    BY <2>1
<1>. QED
  BY <1>2, <1>6, <1>8, <1>9 DEF Held, u

\* The leaf x of key k after the entry of k was taken out of it.
Lost(leaf, x, M, k, at, next) ==
    /\ leaf = Leaf(x, leaf.entries, next) /\ leaf.entries \in Seq(Entries)
    /\ Held(leaf.entries, Without(M, k), Block(at, DOMAIN Without(M, k), 0, x))
\* The leaf without the erased entry.
LEMMA MinusLost ==
    ASSUME NEW p, NEW x, NEW at, NEW M, NEW n, LeafBox(p, x, at, M, n), NEW k, NEW new, Minus(p, k, new),
           DOMAIN M \subseteq Int
    PROVE  Lost(new, x, M, k, at, p.next)
<1>1. p = Leaf(x, p.entries, p.next) /\ Held(p.entries, M, Block(at, DOMAIN M, 0, x))
  BY DEF LeafBox
<1>2. PICK i \in 1 .. Len(p.entries) : p.entries[i].key = k /\ new = [p EXCEPT !.entries = RemoveAt(@, i)]
  BY DEF Minus
<1>. DEFINE e == p.entries
            u == RemoveAt(e, i)
            S == Block(at, DOMAIN M, 0, x)
<1>3. new = Leaf(x, u, p.next)
  <2>. DEFINE nx == p.next
  <2>1. p = Leaf(x, e, nx) /\ new = [p EXCEPT !.entries = u]
    BY <1>1, <1>2
  <2>. HIDE DEF e, u, nx
  <2>2. new = Leaf(x, u, nx)
    BY <2>1, LeafChanged
  <2>. QED
    BY <2>2 DEF nx
<1>4. Held(e, M, S) /\ S \subseteq DOMAIN M /\ i \in 1 .. Len(e) /\ e[i].key = k
  BY <1>1, <1>2 DEF Block
<1>5. Held(u, Without(M, k), S \ {k})
  <2>. HIDE DEF e, S
  <2>. QED
    BY <1>4, HeldMinus
<1>6. S \ {k} = Block(at, DOMAIN Without(M, k), 0, x)
  BY DEF Block, Without
<1>7. u \in Seq(Entries) /\ new.entries = u
  <2>. HIDE DEF u
  <2>. QED
    BY <1>3, <1>5 DEF Held, Leaf
<1>. HIDE DEF u, S
<1>. QED
  BY <1>3, <1>5, <1>6, <1>7 DEF Lost

\* left and right are the leaves a and b, neighbours under q, with entries of
\* the map N, some of which the file may still hold as in M.
Sibs(st, at, top, M, N, q, up, c, a, b, left, right, parent) ==
    /\ LeafPair(st, st.pages, at, top, M, N, q, up, c, a, b, left.entries, right.entries, right.next)
    /\ left = Leaf(a, left.entries, b) /\ right = Leaf(b, right.entries, right.next)
    /\ left.entries \in Seq(Entries) /\ right.entries \in Seq(Entries)
    /\ left.entries \o right.entries # <<>>
    /\ IsParent(parent, st.pages, q) /\ parent = Inner(q, parent.children, parent.keys)
    /\ ChildIndex(parent, a) = c /\ ChildIndex(parent, b) = c + 1
\* One leaf lends its entry at the border to the other.
BorrowOf(st, l, r, parent, up) ==
    propagate_subtree_min_change(
        WriteRebuilt(write_page(write_page(st, l), r), parent.id, parent.children), up)
\* A leaf borrows an entry from the left or from the right.
LEMMA SibBorrow ==
    ASSUME NEW st, NEW at, NEW top, NEW M, NEW N, NEW q, NEW up, NEW c, NEW a, NEW b,
           NEW left, NEW right, NEW parent,
           Sibs(st, at, top, M, N, q, up, c, a, b, left, right, parent)
    PROVE  /\ Len(right.entries) > 1 =>
                Good(BorrowOf(st, [right EXCEPT !.entries = Tail(@)],
                              [left EXCEPT !.entries = Append(@, Head(right.entries))], parent, up), N)
           /\ Len(left.entries) > 1 =>
                Good(BorrowOf(st, [left EXCEPT !.entries = Front(@)],
                              [right EXCEPT !.entries = <<Last(left.entries)>> \o @], parent, up), N)
<1>. DEFINE le == left.entries
            re == right.entries
            next == right.next
<1>1. /\ LeafPair(st, st.pages, at, top, M, N, q, up, c, a, b, le, re, next)
      /\ left = Leaf(a, le, b) /\ right = Leaf(b, re, next)
      /\ le \in Seq(Entries) /\ re \in Seq(Entries) /\ IsParent(parent, st.pages, q)
  BY DEF Sibs
<1>. HIDE DEF le, re, next
<1>2. ASSUME NEW x, NEW y, x \o y = le \o re, x \in Seq(Entries), y \in Seq(Entries), x # <<>>, y # <<>>
      PROVE  /\ Good(BorrowOf(st, Leaf(a, x, b), Leaf(b, y, next), parent, up), N)
             /\ Good(BorrowOf(st, Leaf(b, y, next), Leaf(a, x, b), parent, up), N)
  BY <1>1, <1>2, GiveEnd, ZenonT(60) DEF BorrowOf, GiveLeaf
<1>3. ASSUME Len(re) > 1
      PROVE  Good(BorrowOf(st, [right EXCEPT !.entries = Tail(@)],
                           [left EXCEPT !.entries = Append(@, Head(re))], parent, up), N)
  <2>1. re # <<>>
    BY <1>3
  <2>2. /\ Append(le, Head(re)) \o Tail(re) = le \o re
        /\ Append(le, Head(re)) \in Seq(Entries) /\ Append(le, Head(re)) # <<>> /\ Tail(re) \in Seq(Entries)
        /\ Len(Tail(re)) = Len(re) - 1
    BY <1>1, <2>1, MoveLeft
  <2>3. Tail(re) # <<>>
    <3>1. Len(Tail(re)) # 0
      BY <1>1, <1>3, <2>2
    <3>. DEFINE z == Tail(re)
    <3>. HIDE DEF z
    <3>3. Len(z) # 0
      BY <3>1 DEF z
    <3>2. z # <<>>
      BY <3>3
    <3>. QED
      BY <3>2 DEF z
  <2>4. /\ [right EXCEPT !.entries = Tail(@)] = Leaf(b, Tail(re), next)
        /\ [left EXCEPT !.entries = Append(@, Head(re))] = Leaf(a, Append(le, Head(re)), b)
    <3>. DEFINE y == Tail(re)
                x == Append(le, Head(re))
    <3>1. /\ [right EXCEPT !.entries = Tail(@)] = [right EXCEPT !.entries = y]
          /\ [left EXCEPT !.entries = Append(@, Head(re))] = [left EXCEPT !.entries = x]
      BY DEF le, re
    <3>. HIDE DEF x, y
    <3>2. [right EXCEPT !.entries = y] = Leaf(b, y, next) /\ [left EXCEPT !.entries = x] = Leaf(a, x, b)
      BY <1>1, LeafChanged
    <3>. QED
      BY <3>1, <3>2 DEF x, y
  <2>. QED
    BY <1>2, <2>2, <2>3, <2>4
<1>4. ASSUME Len(le) > 1
      PROVE  Good(BorrowOf(st, [left EXCEPT !.entries = Front(@)],
                           [right EXCEPT !.entries = <<Last(le)>> \o @], parent, up), N)
  <2>1. le # <<>>
    BY <1>4
  <2>2. /\ Front(le) \o (<<Last(le)>> \o re) = le \o re
        /\ Front(le) \in Seq(Entries) /\ <<Last(le)>> \o re \in Seq(Entries) /\ <<Last(le)>> \o re # <<>>
        /\ Len(Front(le)) = Len(le) - 1
    BY <1>1, <2>1, MoveRight
  <2>3. Front(le) # <<>>
    BY <1>1, <1>4, <2>2
  <2>4. /\ [left EXCEPT !.entries = Front(@)] = Leaf(a, Front(le), b)
        /\ [right EXCEPT !.entries = <<Last(le)>> \o @] = Leaf(b, <<Last(le)>> \o re, next)
    <3>. DEFINE x == Front(le)
                y == <<Last(le)>> \o re
    <3>1. /\ [left EXCEPT !.entries = Front(@)] = [left EXCEPT !.entries = x]
          /\ [right EXCEPT !.entries = <<Last(le)>> \o @] = [right EXCEPT !.entries = y]
      BY DEF le, re
    <3>. HIDE DEF x, y
    <3>2. [right EXCEPT !.entries = y] = Leaf(b, y, next) /\ [left EXCEPT !.entries = x] = Leaf(a, x, b)
      BY <1>1, LeafChanged
    <3>. QED
      BY <3>1, <3>2 DEF x, y
  <2>. QED
    BY <1>2, <2>2, <2>3, <2>4
<1>. QED
  BY <1>3, <1>4 DEF le, re

\* What follows an inserted element.
LEMMA InsertedNext ==
    ASSUME NEW ch \in Seq(Int), NEW c \in 1 .. Len(ch), c + 1 \in 1 .. Len(ch), NEW mid \in Int
    PROVE  /\ InsertAt(ch, c + 1, mid)[c + 2] = ch[c + 1]
           /\ c + 2 \in 2 .. Len(InsertAt(ch, c + 1, mid))
<1>. DEFINE d == c + 1
            u == InsertAt(ch, d, mid)
<1>1. d \in 1 .. Len(ch) + 1 /\ Len(ch) \in Nat /\ c + 2 \in 1 .. Len(ch) + 1
      /\ ~(c + 2 < d) /\ c + 2 # d /\ (c + 2) - 1 = d /\ c + 2 \in 2 .. Len(ch) + 1
  OBVIOUS
<1>. HIDE DEF d
<1>2. /\ Len(u) = Len(ch) + 1
      /\ \A x \in 1 .. Len(ch) + 1 : u[x] = IF x < d THEN ch[x] ELSE IF x = d THEN mid ELSE ch[x - 1]
  <2>. DEFINE T == Int
  <2>1. ch \in Seq(T) /\ mid \in T
    OBVIOUS
  <2>. HIDE DEF T
  <2>. QED
    BY <1>1, <2>1, Inserted
<1>. HIDE DEF u
<1>3. u[c + 2] = ch[d] /\ c + 2 \in 2 .. Len(u)
  BY <1>1, <1>2
<1>. QED
  BY <1>3 DEF u, d

\* redistribute_leaf_pair throws, or the entries of the two leaves go into three.
LEMMA SibShare ==
    ASSUME NEW st, NEW at, NEW top, NEW M, NEW N, NEW q, NEW up, NEW c, NEW a, NEW b,
           NEW left, NEW right, NEW parent,
           Sibs(st, at, top, M, N, q, up, c, a, b, left, right, parent),
           leaf_overflow(left.entries \o right.entries)
    PROVE  Good(redistribute_leaf_pair(st, left, right, parent, up), N)
<1>. DEFINE pg == st.pages
            le == left.entries
            re == right.entries
            next == right.next
            s == le \o re
            t == ThreeWay(s)
            n == Cut1(s)
            m == Cut2(s)
            v == allocate_node_page(st)
            mid == NextId(st)
            st1 == write_page(v, Leaf(a, t[1], mid))
            st2 == write_page(st1, Leaf(mid, t[2], b))
            st3 == write_page(st2, Leaf(b, t[3], next))
            ch == pg[q].children
            ch2 == InsertAt(ch, c + 1, mid)
<1>1. /\ LeafPair(st, pg, at, top, M, N, q, up, c, a, b, le, re, next)
      /\ left = Leaf(a, le, b) /\ right = Leaf(b, re, next) /\ s # <<>>
      /\ IsParent(parent, pg, q) /\ ChildIndex(parent, a) = c
  BY DEF Sibs
<1>2. PairKnown(st, pg, at, top, M, N, q, c, a, b, le, re, next)
  BY <1>1, PairFacts, Zenon
<1>3. /\ s \in Seq(Entries) /\ IsState(st) /\ a \in 1 .. Len(pg) /\ b \in 1 .. Len(pg) /\ a # b
      /\ Len(pg) \in Nat /\ next \in 0 .. Len(pg) /\ ch \in Seq(Int)
      /\ c \in 1 .. Len(ch) /\ c + 1 \in 1 .. Len(ch) /\ ch[c + 1] = b
  BY <1>1, <1>2, Zenon DEF PairKnown, LeafPair
<1>4. /\ n \in Nat /\ m \in Nat /\ n <= m /\ m <= Len(s)
      /\ t[1] = SubSeq(s, 1, n) /\ t[2] = SubSeq(s, n + 1, m) /\ t[3] = SubSeq(s, m + 1, Len(s))
      /\ Len(s) >= 3 => 1 <= n /\ n < m /\ m < Len(s)
      /\ Len(s) >= 2 => 1 <= n /\ n < m
  BY <1>3, ThreeWayFacts
<1>5. redistribute_leaf_pair(st, left, right, parent, up) =
        IF leaf_overflow(t[1]) \/ leaf_overflow(t[3]) THEN Throw(st, "length")
        ELSE propagate_subtree_min_change(WriteRebuilt(st3, q, ch2), up)
  <2>1. left.id = a /\ right.id = b
    BY <1>1, LeafParts3
  <2>. QED
    BY <1>1, <2>1 DEF redistribute_leaf_pair, IsParent
<1>6. Good(Throw(st, "length"), N)
  <2>1. IsState(Throw(st, "length")) /\ Throw(st, "length").err # "none"
    BY <1>3, ThrowFacts, SMTT(20)
  <2>. QED
    BY <2>1, ErrGood
<1>7. CASE Len(s) >= 3
  <2>1. 1 <= n /\ n < m /\ m < Len(s)
    BY <1>4, <1>7
  <2>2. /\ st1 = write_page(allocate_node_page(st), Leaf(a, SubSeq(s, 1, n), mid))
        /\ st2 = write_page(st1, Leaf(mid, SubSeq(s, n + 1, m), b))
        /\ st3 = write_page(st2, Leaf(b, SubSeq(s, m + 1, Len(s)), next))
    BY <1>4
  <2>3. s = le \o re /\ mid = NextId(st)
    OBVIOUS
  <2>. HIDE DEF st1, st2, st3, s, t, n, m, v, mid
  <2>4. Ready(st3, q, InsertAt(pg[q].children, c + 1, mid), at, top, M, N, 0, up)
    BY <1>1, <1>4, <2>1, <2>2, <2>3, SplitReady, ZenonT(60)
  <2>5. Good(propagate_subtree_min_change(WriteRebuilt(st3, q, ch2), up), N)
    BY <2>4, PropagateEnd
  <2>. QED
    BY <1>5, <1>6, <2>5
<1>8. CASE Len(s) = 2
  <2>1. t[3] = <<>>
    <3>1. n = 1 /\ m = 2
      BY <1>8 DEF Cut1, Cut2, three_way_counts
    <3>. QED
      BY <1>3, <1>4, <1>8, <3>1
  <2>2. t[1] \in Seq(Entries) /\ t[2] \in Seq(Entries) /\ t[3] \in Seq(Entries)
    <3>1. n + 1 \in 1 .. Len(s) + 1 /\ m + 1 \in 1 .. Len(s) + 1 /\ 1 \in 1 .. Len(s) + 1
      <4>. HIDE DEF s, n, m
      <4>. QED
        BY <1>3, <1>4, <1>8
    <3>. HIDE DEF s, t, n, m
    <3>2. Len(s) \in Int /\ n \in Int /\ m \in Int /\ n <= Len(s) /\ m <= Len(s)
      BY <1>3, <1>4, <1>8
    <3>3. \A i \in 1 .. Len(s) + 1, j \in Int : j <= Len(s) /\ i <= j + 1 => SubSeq(s, i, j) \in Seq(Entries)
      BY <1>3, Cut, SMTT(20)
    <3>4. 1 <= n + 1 /\ n + 1 <= m + 1 /\ m + 1 <= Len(s) + 1
      BY <1>4, <1>8
    <3>. QED
      BY <1>4, <3>1, <3>2, <3>3, <3>4
  <2>3. /\ IsState(v) /\ Len(v.pages) = Len(pg) + 1 /\ mid = Len(pg) + 1
    BY <1>3, AllocFacts
  <2>. DEFINE p1 == Leaf(a, t[1], mid)
              p2 == Leaf(mid, t[2], b)
              p3 == Leaf(b, t[3], next)
  <2>4. /\ st1 = write_page(v, p1) /\ st2 = write_page(st1, p2) /\ st3 = write_page(st2, p3)
    OBVIOUS
  <2>. HIDE DEF st1, st2, st3, s, t, n, m, v, mid, ch
  <2>5. Wrote(v, st1, a, p1) /\ IsState(st1) /\ Len(st1.pages) = Len(pg) + 1
    <3>1. a \in 1 .. Len(v.pages) /\ mid \in 0 .. Len(v.pages)
      BY <1>3, <2>3, SMTT(20)
    <3>. QED
      BY <2>2, <2>3, <2>4, <3>1, WriteLeaf, SMTT(20) DEF Wrote
  <2>6. Wrote(st1, st2, mid, p2) /\ IsState(st2) /\ Len(st2.pages) = Len(pg) + 1
    <3>1. mid \in 1 .. Len(st1.pages) /\ b \in 0 .. Len(st1.pages)
      BY <1>3, <2>3, <2>5, SMTT(20)
    <3>. QED
      BY <2>2, <2>4, <2>5, <3>1, WriteLeaf, SMTT(20) DEF Wrote
  <2>7. Wrote(st2, st3, b, p3) /\ IsState(st3) /\ Len(st3.pages) = Len(pg) + 1
    <3>1. b \in 1 .. Len(st2.pages) /\ next \in 0 .. Len(st2.pages)
      BY <1>3, <2>6, SMTT(20)
    <3>. HIDE DEF next
    <3>2. Wrote(st2, st3, b, p3)
      BY <2>2, <2>4, <2>6, <3>1, WriteLeaf
    <3>. QED
      BY <2>6, <3>2 DEF Wrote
  <2>. DEFINE z == WriteRebuilt(st3, q, ch2)
  <2>8. IsState(z) /\ z.err # "none"
    <3>1. CASE st3.err # "none"
      BY <2>7, <3>1 DEF WriteRebuilt
    <3>2. CASE st3.err = "none"
      <4>1. st3.pages[b] = p3
        BY <2>7, <3>2 DEF Wrote
      <4>2. ~IsInner(st3.pages[b]) /\ st3.pages[b].entries = <<>>
        BY <2>1, <4>1 DEF Leaf, IsInner
      <4>3. Len(st3.pages) \in Nat
        BY <2>7, FilePages
      <4>4. leftmost_leaf(st3.pages, b) = b
        BY <4>2, <4>3, LeftmostSelf
      <4>5. ~HasMin(st3.pages, b)
        BY <4>2, <4>4 DEF HasMin
      <4>6. ch2[c + 2] = b /\ c + 2 \in 2 .. Len(ch2)
        <5>1. mid \in Int
          BY <1>3, <2>3
        <5>. HIDE DEF mid
        <5>. QED
          BY <1>3, <5>1, InsertedNext
      <4>7. ~Rebuildable(st3, ch2)
        BY <4>5, <4>6 DEF Rebuildable
      <4>8. z = Throw(st3, "corrupt")
        BY <3>2, <4>7 DEF WriteRebuilt
      <4>. QED
        BY <2>7, <4>8, ThrowFacts
    <3>. QED
      BY <3>1, <3>2
  <2>. HIDE DEF z
  <2>9. propagate_subtree_min_change(z, up) = z
    BY <2>8, PropagateErr
  <2>10. Good(z, N)
    BY <2>8, ErrGood
  <2>. QED
    BY <1>5, <1>6, <2>9, <2>10 DEF z
<1>9. CASE Len(s) = 1
  <2>1. n = 1
    BY <1>9 DEF Cut1, three_way_counts
  <2>2. t[1] = s
    <3>. HIDE DEF s, t, n, m
    <3>. QED
      BY <1>3, <1>4, <1>9, <2>1
  <2>3. leaf_overflow(t[1])
    BY <2>2
  <2>. QED
    BY <1>5, <1>6, <2>3
<1>. HIDE DEF s
<1>10. Len(s) \in Nat /\ Len(s) # 0
  BY <1>1, <1>3
<1>. DEFINE L == Len(s)
<1>11. L >= 3 \/ L = 2 \/ L = 1
  <2>1. L \in Nat /\ L # 0
    BY <1>10
  <2>. HIDE DEF L
  <2>. QED
    BY <2>1
<1>. QED
  BY <1>7, <1>8, <1>9, <1>11, Zenon

\* The leaf of the least key is not the right one of two leaves.
LEMMA FirstNotRight ==
    ASSUME NEW st, NEW at, NEW top, NEW M, NEW N, NEW q, NEW up, NEW c, NEW a, NEW b,
           NEW le, NEW re, NEW next, LeafPair(st, st.pages, at, top, M, N, q, up, c, a, b, le, re, next)
    PROVE  st.first # b /\ [st EXCEPT !.first = IF @ = b THEN a ELSE @] = st
<1>. DEFINE K == DOMAIN M
<1>1. /\ Place(st, st.pages, at, top, M, 0, q, up) /\ IsState(st)
      /\ Tree(st.pages, at, top, M) /\ FirstOK(at, K, st.first)
  BY DEF LeafPair, Place
<1>2. PairKnown(st, st.pages, at, top, M, N, q, c, a, b, le, re, next)
  BY PairFacts
<1>3. /\ a # b /\ \E k \in K : at[0][k] = a
      /\ Before(Block(at, K, 0, a), Block(at, K, 0, b))
  BY <1>2 DEF PairKnown, Neighbours
<1>4. K \subseteq Int /\ IsFiniteSet(K) /\ K # {}
  <2>1. K \subseteq Keys /\ K # {} /\ K \subseteq Int
    BY <1>1, TreePages
  <2>. QED
    BY <2>1, KeysAre, FS_Subset
<1>. HIDE DEF K
<1>5. PICK m \in K : \A k \in K : m <= k
  BY <1>4, LeastKey
<1>6. st.first = at[0][m]
  BY <1>1, <1>5 DEF FirstOK
<1>7. PICK k \in K : at[0][k] = a
  BY <1>3
<1>8. at[0][m] # b
  <2>1. SUFFICES ASSUME at[0][m] = b PROVE FALSE
    OBVIOUS
  <2>2. k < m
    BY <1>3, <1>7, <2>1 DEF Before, Block
  <2>3. m <= k /\ m \in Int /\ k \in Int
    BY <1>4, <1>5
  <2>. QED
    BY <2>2, <2>3
<1>9. st.first # b
  BY <1>6, <1>8
<1>. QED
  BY <1>1, <1>9 DEF IsState

\* One leaf gets the entries of both, or redistribute_leaf_pair follows.
MergeLeaves(st, l, r, parent, up) ==
    IF leaf_overflow(l.entries \o r.entries)
    THEN redistribute_leaf_pair(st, l, r, parent, up)
    ELSE MergeInto([st EXCEPT !.first = IF @ = r.id THEN l.id ELSE @],
                   Leaf(l.id, l.entries \o r.entries, r.next), r.id, parent, up)
\* Two leaves are merged, or share their entries.
LEMMA SibMerge ==
    ASSUME NEW st, NEW at, NEW top, NEW M, NEW N, NEW q, NEW up, NEW c, NEW a, NEW b,
           NEW left, NEW right, NEW parent,
           Sibs(st, at, top, M, N, q, up, c, a, b, left, right, parent)
    PROVE  Good(MergeLeaves(st, left, right, parent, up), N)
<1>. DEFINE pg == st.pages
            le == left.entries
            re == right.entries
            next == right.next
            s == le \o re
            u == write_page(st, Leaf(a, s, next))
            ch == RemoveAt(pg[q].children, c + 1)
            node == [parent EXCEPT !.children = RemoveAt(@, ChildIndex(parent, b))]
<1>1. /\ LeafPair(st, pg, at, top, M, N, q, up, c, a, b, le, re, next)
      /\ left = Leaf(a, le, b) /\ right = Leaf(b, re, next) /\ s # <<>>
      /\ IsParent(parent, pg, q) /\ ChildIndex(parent, b) = c + 1
      /\ parent = Inner(q, parent.children, parent.keys)
  BY DEF Sibs
<1>2. left.id = a /\ right.id = b
  BY <1>1, LeafParts3
<1>3. [st EXCEPT !.first = IF @ = b THEN a ELSE @] = st
  BY <1>1, FirstNotRight
<1>4. node.id = q /\ node.children = ch
  BY <1>1 DEF Inner, IsParent
<1>5. ~leaf_overflow(s) => MergeLeaves(st, left, right, parent, up) = handle_internal_after_child_removed(u, node, up)
  BY <1>2, <1>3 DEF MergeLeaves, MergeInto
<1>. HIDE DEF s, u, ch, node
<1>6. Ready(u, q, ch, at, top, M, N, 0, up)
  <2>1. s = le \o re /\ u = write_page(st, Leaf(a, s, next))
    BY DEF s, u
  <2>. QED
    BY <1>1, <2>1, MergedReady DEF ch
<1>7. Good(handle_internal_after_child_removed(u, node, up), N)
  BY <1>4, <1>6, ChildGoneEnd
<1>8. leaf_overflow(s) => Good(MergeLeaves(st, left, right, parent, up), N)
  <2>1. leaf_overflow(s) => Good(redistribute_leaf_pair(st, left, right, parent, up), N)
    BY SibShare DEF s
  <2>. QED
    BY <2>1 DEF MergeLeaves, s
<1>. QED
  BY <1>5, <1>7, <1>8

\* The leaf that has lost an entry and its neighbours under its parent.
SibsAround(st, at, top, M, N, k, path, leaf) ==
    LET x == at[0][k]
        q == at[0 + 1][k]
        up == ParentPath(path)
        parent == ParentOf(st, path)
        c == ChildIndex(parent, leaf.id)
        right == st.pages[parent.children[c + 1]]
        left == st.pages[parent.children[c - 1]]
    IN  /\ IsState(st)
        /\ c < Len(parent.children) =>
             Sibs(st, at, top, M, N, q, up, c, x, parent.children[c + 1], leaf, right, parent)
        /\ c > 1 =>
             Sibs(st, at, top, M, N, q, up, c - 1, parent.children[c - 1], x, left, leaf, parent)
\* The neighbours of the leaf that has lost an entry.
LEMMA EraseSibs ==
    ASSUME NEW st, IsState(st), st.call = NoCall, st.err = "none", NEW call, NEW M, NEW k, NEW at, NEW top,
           PendErase(st.pages, st.root, st.first, call, M, k, at, top)
    PROVE  SibsAround(st, at, top, M, Without(M, k), k, call.path, call.node)
<1>. DEFINE pg == st.pages
            N == Without(M, k)
            x == at[0][k]
            q == at[0 + 1][k]
            path == call.path
            leaf == call.node
            up == ParentPath(path)
            parent == ParentOf(st, path)
            c == ChildIndex(pg[q], x)
<1>1. /\ Tree(pg, at, top, M) /\ RootOK(at, top, DOMAIN M, st.root) /\ FirstOK(at, DOMAIN M, st.first)
      /\ k \in DOMAIN M /\ top > 0 /\ PathIs(path, at, top, 0, k) /\ Minus(pg[x], k, leaf)
  BY DEF PendErase
<1>2. Len(pg) = Len(st.pages) /\ Len(pg) \in Nat /\ DOMAIN M \subseteq Int /\ top \in Nat
      /\ 0 \in 0 .. top /\ 0 # top
  BY <1>1, TreePages
<1>3. Near(st, pg, x, x)
  BY DEF Near
<1>. HIDE DEF path, leaf
<1>4. Under1(st, pg, at, top, M, 0, k, path)
  <2>. HIDE DEF x
  <2>1. 0 \in 0 .. top /\ 0 # top /\ Near(st, pg, at[0][k], at[0][k])
    BY <1>2, <1>3 DEF x
  <2>. HIDE DEF pg
  <2>2. Len(pg) = Len(st.pages)
    BY <1>2
  <2>. QED
    BY <1>1, <1>2, <2>1, <2>2, PendPlace
<1>5. /\ parent = pg[q] /\ parent.id = q /\ Place(st, pg, at, top, M, 0, q, up)
      /\ parent.children \in Seq(Int) /\ c \in 1 .. Len(parent.children) /\ Len(parent.children) \in Nat
      /\ parent.children[c] = x /\ c \in Nat
  BY <1>4 DEF Under1
<1>6. LeafBox(pg[x], x, at, M, Len(pg))
  BY <1>1, LeafPage
<1>7. Lost(leaf, x, M, k, at, pg[x].next)
  BY <1>1, <1>2, <1>6, MinusLost, SMTT(20)
<1>8. parent = Inner(q, parent.children, parent.keys) /\ IsParent(parent, pg, q)
  <2>1. InnerOK(pg[at[0 + 1][k]], at[0 + 1][k], 0 + 1, at, DOMAIN M)
    BY <1>1, <1>2, InnerHere
  <2>. QED
    BY <1>5, <2>1 DEF InnerOK, IsParent
<1>9. /\ DOMAIN N \subseteq DOMAIN M /\ \A y \in DOMAIN N : N[y] = M[y]
      /\ \A y \in DOMAIN M \ DOMAIN N : at[0][y] = x
  BY DEF Without
<1>10. leaf.id = x /\ leaf.next = pg[x].next
  BY <1>7, LeafParts3 DEF Lost
<1>. HIDE DEF x, q, c, N, up, parent
<1>12. ASSUME NEW e, NEW a, NEW b, PairHere(st, pg, at, top, M, q, up, e, a, b), x \in {a, b},
              NEW left, left = IF x = a THEN leaf ELSE pg[a], NEW right, right = IF x = b THEN leaf ELSE pg[b]
       PROVE  Sibs(st, at, top, M, N, q, up, e, a, b, left, right, parent)
  <2>1. /\ LeafPair(st, pg, at, top, M, M, q, up, e, a, b, pg[a].entries, pg[b].entries, pg[b].next)
        /\ a # b
        /\ pg[a] = Leaf(a, pg[a].entries, b) /\ pg[b] = Leaf(b, pg[b].entries, pg[b].next)
        /\ pg[a].entries \in Seq(Entries) /\ pg[b].entries \in Seq(Entries)
        /\ pg[a].entries # <<>> /\ pg[b].entries # <<>>
    BY <1>12, Zenon DEF PairHere
  <2>2. /\ Place(st, pg, at, top, M, 0, q, up) /\ Sides(pg, q, e, e + 1) /\ Near(st, pg, a, b)
        /\ a = pg[q].children[e] /\ b = pg[q].children[e + 1]
        /\ Held(pg[a].entries, M, Block(at, DOMAIN M, 0, a))
        /\ Held(pg[b].entries, M, Block(at, DOMAIN M, 0, b))
    BY <2>1, Zenon DEF LeafPair
  <2>3. Shrunk(M, N, at, a, b)
    BY <1>9, <1>12 DEF Shrunk
  <2>4. ASSUME NEW y, y # x, Held(pg[y].entries, M, Block(at, DOMAIN M, 0, y))
        PROVE  Held(pg[y].entries, N, Block(at, DOMAIN N, 0, y))
    <3>1. \A z \in DOMAIN M \ DOMAIN N : at[0][z] # y
      BY <1>9, <2>4
    <3>. HIDE DEF pg
    <3>. QED
      BY <1>9, <2>4, <3>1, HeldFewer
  <2>5. /\ leaf = Leaf(x, leaf.entries, pg[x].next) /\ leaf.entries \in Seq(Entries)
        /\ Held(leaf.entries, N, Block(at, DOMAIN N, 0, x))
    BY <1>7 DEF Lost, N
  <2>6. pg[a].next = b
    BY ONLY <2>1, LeafParts3, SMTT(20)
  <2>7. /\ Held(left.entries, N, Block(at, DOMAIN N, 0, a))
        /\ Held(right.entries, N, Block(at, DOMAIN N, 0, b))
    BY <1>12, <2>1, <2>2, <2>4, <2>5, Zenon
  <2>8. /\ left = Leaf(a, left.entries, b) /\ right = Leaf(b, right.entries, pg[b].next)
        /\ left.entries \in Seq(Entries) /\ right.entries \in Seq(Entries)
    <3>. HIDE DEF pg
    <3>1. CASE x = a
      BY <1>12, <2>1, <2>5, <2>6, <3>1
    <3>2. CASE x = b
      BY <1>12, <2>1, <2>5, <2>6, <3>2
    <3>. QED
      BY <1>12, <3>1, <3>2
  <2>9. right.next = pg[b].next
    BY <2>8, LeafParts3
  <2>10. left.entries \o right.entries # <<>>
    <3>1. left.entries # <<>> \/ right.entries # <<>>
      BY <1>12, <2>1
    <3>. DEFINE le == left.entries
                re == right.entries
    <3>2. le \in Seq(Entries) /\ re \in Seq(Entries) /\ (le # <<>> \/ re # <<>>)
      BY <2>8, <3>1
    <3>. HIDE DEF le, re
    <3>3. le \o re # <<>>
      BY <3>2, SMTT(20)
    <3>. QED
      BY <3>3 DEF le, re
  <2>11. LeafPair(st, pg, at, top, M, N, q, up, e, a, b, left.entries, right.entries, right.next)
    BY <2>2, <2>3, <2>7, <2>9 DEF LeafPair
  <2>12. ChildIndex(parent, a) = e /\ ChildIndex(parent, b) = e + 1
    <3>. DEFINE f == e + 1
    <3>1. e \in 1 .. Len(pg[q].children) /\ f \in 1 .. Len(pg[q].children) /\ Sides(pg, q, e, f)
      <4>1. parent.children \in Seq(Int) /\ pg[q] = parent
        BY <1>5
      <4>. QED
        BY <2>2, <4>1 DEF Sides
    <3>. HIDE DEF f, pg
    <3>2. Spot(pg, at, top, M, 0, q, e, f)
      BY <2>2, <3>1, PlaceSpot
    <3>3. ChildIndex(pg[q], pg[q].children[e]) = e /\ ChildIndex(pg[q], pg[q].children[f]) = f
      BY <3>1, <3>2, ChildFacts
    <3>. QED
      BY <1>5, <2>2, <3>3 DEF f
  <2>13. right = Leaf(b, right.entries, right.next)
    BY <2>8, <2>9
  <2>. HIDE DEF pg
  <2>. QED
    BY <1>8, <2>8, <2>10, <2>11, <2>12, <2>13 DEF Sibs, pg
<1>11. ASSUME c < Len(parent.children)
       PROVE  Sibs(st, at, top, M, N, q, up, c, x, parent.children[c + 1], leaf,
                   st.pages[parent.children[c + 1]], parent)
  <2>. DEFINE b == parent.children[c + 1]
              right == pg[b]
  <2>1. RightHere(st, pg, at, top, M, q, up, c, x) /\ b = pg[q].children[c + 1]
    BY <1>3, <1>4, <1>5, <1>11, LeafSides DEF q, x, c, up
  <2>2. PairHere(st, pg, at, top, M, q, up, c, x, b)
    BY <2>1 DEF RightHere
  <2>3. x # b /\ st.pages[b] = pg[b]
    BY <2>2 DEF PairHere
  <2>. HIDE DEF b
  <2>4. Sibs(st, at, top, M, N, q, up, c, x, b, leaf, pg[b], parent)
    BY <1>12, <2>2, <2>3
  <2>. QED
    BY <2>4 DEF b
<1>13. ASSUME c > 1
       PROVE  Sibs(st, at, top, M, N, q, up, c - 1, parent.children[c - 1], x,
                   st.pages[parent.children[c - 1]], leaf, parent)
  <2>. DEFINE d == c - 1
              a == parent.children[d]
  <2>1. LeftHere(st, pg, at, top, M, q, up, c, x) /\ a = pg[q].children[c - 1]
    BY <1>3, <1>4, <1>5, <1>13, LeafSides DEF q, x, c, up
  <2>2. PairHere(st, pg, at, top, M, q, up, d, a, x)
    BY <2>1 DEF LeftHere
  <2>3. x # a
    BY <2>2 DEF PairHere
  <2>. HIDE DEF a, d
  <2>4. Sibs(st, at, top, M, N, q, up, d, a, x, pg[a], leaf, parent)
    BY <1>12, <2>2, <2>3
  <2>. QED
    BY <2>4 DEF a, d
<1>14. c = ChildIndex(parent, leaf.id)
  BY <1>5, <1>10 DEF c
<1>. QED
  BY <1>11, <1>13, <1>14 DEF SibsAround, x, q, up, parent, N, path, leaf

\* A leaf that can lend an entry keeps another.
LEMMA CanLend ==
    ASSUME NEW s \in Seq(Entries), ~leaf_underflow(s)
    PROVE  Len(s) > 1
<1>1. s # <<>> /\ Len(s) \in Nat
  BY DEF leaf_underflow
<1>2. Len(s) # 0
  BY <1>1
<1>3. ASSUME Len(s) = 1 PROVE FALSE
  <2>1. s[1] \in Entries
    BY <1>3, SMTT(20)
  <2>2. PICK k \in Keys, r \in Rids : s[1] = [key |-> k, rid |-> r]
    BY <2>1 DEF Entries
  <2>3. s = <<[key |-> k, rid |-> r]>>
    BY <1>3, <2>2
  <2>. QED
    BY <2>3, IndexAssumption DEF IndexAssumption
<1>. DEFINE n == Len(s)
<1>4. n \in Nat /\ n # 0 /\ n # 1
  BY <1>1, <1>2, <1>3
<1>. HIDE DEF n
<1>5. n > 1
  BY <1>4
<1>. QED
  BY <1>5 DEF n

\* fix_leaf_underflow with its neighbours: borrow, merge, or share.
LEMMA FixSibs ==
    ASSUME NEW st, NEW at, NEW top, NEW M, NEW N, NEW k, NEW path, NEW leaf,
           SibsAround(st, at, top, M, N, k, path, leaf)
    PROVE  Good(fix_leaf_underflow(st, leaf, path), N)
<1>. DEFINE x == at[0][k]
            q == at[0 + 1][k]
            up == ParentPath(path)
            parent == ParentOf(st, path)
            c == ChildIndex(parent, leaf.id)
            right == st.pages[parent.children[c + 1]]
            left == st.pages[parent.children[c - 1]]
            hasRight == c < Len(parent.children)
            hasLeft == c > 1
            leafR == [leaf EXCEPT !.entries = Append(@, Head(right.entries))]
            rightR == [right EXCEPT !.entries = Tail(@)]
            leafL == [leaf EXCEPT !.entries = <<Last(left.entries)>> \o @]
            leftL == [left EXCEPT !.entries = Front(@)]
            takeRight == hasRight /\ ~leaf_underflow(right.entries)
            takeLeft == hasLeft /\ ~leaf_underflow(left.entries)
            b == parent.children[c + 1]
            a == parent.children[c - 1]
            d == c - 1
<1>1. /\ IsState(st)
      /\ hasRight => Sibs(st, at, top, M, N, q, up, c, x, b, leaf, right, parent)
      /\ hasLeft => Sibs(st, at, top, M, N, q, up, d, a, x, left, leaf, parent)
  BY DEF SibsAround
<1>2. fix_leaf_underflow(st, leaf, path) =
        IF takeLeft THEN BorrowOf(st, leftL, leafL, parent, up)
        ELSE IF takeRight THEN BorrowOf(st, rightR, leafR, parent, up)
        ELSE IF hasLeft THEN MergeLeaves(st, left, leaf, parent, up)
        ELSE IF hasRight THEN MergeLeaves(st, leaf, right, parent, up)
        ELSE Throw(st, "logic")
  BY DEF fix_leaf_underflow, BorrowOf, MergeLeaves
<1>. HIDE DEF x, q, up, parent, c, right, left, hasRight, hasLeft, a, b, d
<1>3. ASSUME takeRight PROVE Good(BorrowOf(st, rightR, leafR, parent, up), N)
  <2>1. Sibs(st, at, top, M, N, q, up, c, x, b, leaf, right, parent)
    BY <1>1, <1>3
  <2>2. Len(right.entries) > 1
    <3>1. right.entries \in Seq(Entries)
      BY <2>1 DEF Sibs
    <3>. QED
      BY <1>3, <3>1, CanLend
  <2>. QED
    BY <2>1, <2>2, SibBorrow
<1>4. ASSUME takeLeft PROVE Good(BorrowOf(st, leftL, leafL, parent, up), N)
  <2>1. Sibs(st, at, top, M, N, q, up, d, a, x, left, leaf, parent)
    BY <1>1, <1>4
  <2>2. Len(left.entries) > 1
    <3>1. left.entries \in Seq(Entries)
      BY <2>1 DEF Sibs
    <3>. QED
      BY <1>4, <3>1, CanLend
  <2>. QED
    BY <2>1, <2>2, SibBorrow
<1>5. /\ hasLeft => Good(MergeLeaves(st, left, leaf, parent, up), N)
      /\ hasRight => Good(MergeLeaves(st, leaf, right, parent, up), N)
  BY <1>1, SibMerge
<1>6. Good(Throw(st, "logic"), N)
  <2>1. IsState(Throw(st, "logic")) /\ Throw(st, "logic").err # "none"
    BY <1>1, ThrowFacts
  <2>. QED
    BY <2>1, ErrGood
<1>. HIDE DEF takeRight, takeLeft, leafR, leafL, rightR, leftL
<1>. QED
  BY <1>2, <1>3, <1>4, <1>5, <1>6

\* fix_leaf_underflow ends the call, calls fix_internal_underflow for the parent,
\* or throws.
LEMMA FixLeafGood ==
    ASSUME NEW st, IsState(st), st.call = NoCall, st.err = "none", NEW call, NEW M, NEW k, NEW at, NEW top,
           PendErase(st.pages, st.root, st.first, call, M, k, at, top)
    PROVE  Good(fix_leaf_underflow(st, call.node, call.path), Without(M, k))
  BY EraseSibs, FixSibs
=============================================================================
