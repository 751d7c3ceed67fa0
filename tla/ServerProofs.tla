---------------------------- MODULE ServerProofs ----------------------------
(***************************************************************************)
(* What the server guarantees for any clients, databases and strings, any  *)
(* statements, and any number of requests that run at the same time.       *)
(***************************************************************************)
EXTENDS Server, DataLemmas, SequenceTheorems

(* First what the window of Telemetry holds, and what a snapshot counts. *)

----------------------------------------------------------------------------
(* Greatest elements *)

\* Max is what it says for every set of naturals that has a bound.
LEMMA MaxFacts ==
    ASSUME NEW S \in SUBSET Nat, S # {}, NEW bound \in Nat, \A x \in S : x <= bound
    PROVE  Max(S) \in S /\ \A x \in S : x <= Max(S)
<1>. DEFINE T == {bound - x : x \in S}
<1>1. T \in SUBSET Nat /\ T # {}
  <2>1. ASSUME NEW x \in S PROVE bound - x \in Nat
    OBVIOUS
  <2>2. T # {}
    OBVIOUS
  <2>. QED
    BY <2>1, <2>2
<1>2. PICK y \in T : \A z \in T : y <= z
  <2>. HIDE DEF T
  <2>. QED
    BY <1>1, LeastNatural
<1>3. PICK x \in S : y = bound - x
  OBVIOUS
<1>4. ASSUME NEW z \in S PROVE x >= z
  <2>1. y <= bound - z
    BY <1>2
  <2>. QED
    BY <1>3, <2>1
<1>. QED
  BY <1>4 DEF Max

----------------------------------------------------------------------------
(* Pruning *)

\* prune_locked drops a prefix of events that are all too old.
LEMMA PruneFacts ==
    ASSUME NEW E, NEW w \in Seq(E), NEW now
    PROVE  \E n \in 0..Len(w) :
             /\ prune_locked(w, now) = SubSeq(w, n + 1, Len(w))
             /\ \A i \in 1..n : now - w[i].when > TenMinutes
<1>. DEFINE old == {n \in 0..Len(w) : \A i \in 1..n : now - w[i].when > TenMinutes}
<1>1. old \in SUBSET Nat /\ 0 \in old /\ Len(w) \in Nat /\ \A n \in old : n <= Len(w)
  OBVIOUS
<1>2. Max(old) \in old
  <2>. HIDE DEF old
  <2>. QED
    BY <1>1, MaxFacts
<1>. QED
  BY <1>2 DEF prune_locked

\* w is s without its first d elements.
Suffix(w, s, d) ==
    /\ d \in 0..Len(s) /\ Len(w) = Len(s) - d
    /\ \A i \in 1..Len(w) : w[i] = s[i + d]

LEMMA PruneSuffix ==
    ASSUME NEW E, NEW w \in Seq(E), NEW s \in Seq(E), NEW d, Suffix(w, s, d), NEW now
    PROVE  /\ prune_locked(w, now) \in Seq(E)
           /\ \E e \in d..Len(s) :
                /\ Suffix(prune_locked(w, now), s, e)
                /\ \A i \in (d + 1)..e : now - s[i].when > TenMinutes
<1>1. PICK n \in 0..Len(w) :
        /\ prune_locked(w, now) = SubSeq(w, n + 1, Len(w))
        /\ \A i \in 1..n : now - w[i].when > TenMinutes
  BY PruneFacts
<1>. DEFINE p == SubSeq(w, n + 1, Len(w))
<1>2. /\ p \in Seq(E) /\ Len(p) = Len(w) - n
      /\ \A i \in 1..Len(p) : p[i] = w[n + i]
  BY SubSeqProperties
<1>3. d + n \in d..Len(s) /\ Suffix(p, s, d + n)
  BY <1>2 DEF Suffix
<1>4. ASSUME NEW i \in (d + 1)..(d + n) PROVE now - s[i].when > TenMinutes
  <2>1. i - d \in 1..n /\ i - d \in 1..Len(w) /\ s[i] = w[i - d]
    BY DEF Suffix
  <2>. QED
    BY <1>1, <2>1
<1>. QED
  BY <1>1, <1>2, <1>3, <1>4

----------------------------------------------------------------------------
(* The invariant of the metrics *)

\* The window is all that was observed but for events that are too old.
WindowInv ==
    \E d \in 0..Len(observed) :
      /\ Suffix(window, observed, d)
      /\ \A i \in 1..d : Age(observed, i) > TenMinutes

TotalsInv ==
    /\ total_requests = Len(observed)
    /\ total_errors = Cardinality(Failed(observed))

TelemetryInv == TelemetryTypeOK /\ WindowInv /\ TotalsInv

LEMMA FailedFacts ==
    ASSUME NEW E, NEW s \in Seq(E)
    PROVE  /\ IsFiniteSet(1..Len(s)) /\ Cardinality(1..Len(s)) = Len(s)
           /\ \A T \in SUBSET (1..Len(s)) :
                IsFiniteSet(T) /\ Cardinality(T) \in 0..Len(s)
<1>1. Len(s) \in Nat
  OBVIOUS
<1>2. IsFiniteSet(1..Len(s)) /\ Cardinality(1..Len(s)) = Len(s)
  BY <1>1, FS_Interval, SMTT(30)
<1>3. ASSUME NEW T \in SUBSET (1..Len(s)) PROVE IsFiniteSet(T) /\ Cardinality(T) \in 0..Len(s)
  <2>1. IsFiniteSet(T) /\ Cardinality(T) <= Cardinality(1..Len(s))
    BY <1>2, FS_Subset
  <2>2. Cardinality(T) \in Nat
    BY <2>1, FS_CardinalityType
  <2>. QED
    BY <1>1, <1>2, <2>1, <2>2
<1>. QED
  BY <1>2, <1>3

LEMMA TelemetryInitInv == TelemetryInit => TelemetryInv
<1>. SUFFICES ASSUME TelemetryInit PROVE TelemetryInv
  OBVIOUS
<1>1. Failed(observed) = {}
  BY DEF TelemetryInit, Failed
<1>. QED
  BY <1>1, FS_EmptySet DEF TelemetryInit, TelemetryInv, TelemetryTypeOK, Entries, WindowInv, TotalsInv, Suffix

LEMMA ObserveInv ==
    ASSUME TelemetryInv, UNCHANGED clock, NEW finished \in 0..clock, NEW ok \in BOOLEAN,
           observe(finished, ok)
    PROVE  TelemetryInv'
<1>. USE DEF TelemetryInv
<1>. DEFINE e == Entry(finished, ok)
            w == Append(window, e)
<1>1. /\ e \in Entries /\ e.ok = ok /\ clock \in Nat
      /\ window \in Seq(Entries) /\ observed \in Seq(Entries)
      /\ Entries' = Entries /\ observed' = Append(observed, e) /\ w \in Seq(Entries)
      /\ window' = prune_locked(w, finished)
  BY DEF TelemetryTypeOK, Entries, Entry, observe
<1>. HIDE DEF e
<1>2. observed' \in Seq(Entries) /\ Len(observed') = Len(observed) + 1
      /\ (\A i \in 1..Len(observed) : observed'[i] = observed[i])
      /\ observed'[Len(observed) + 1] = e
  BY <1>1
<1>3. PICK d \in 0..Len(observed) :
        Suffix(window, observed, d) /\ \A i \in 1..d : Age(observed, i) > TenMinutes
  BY DEF WindowInv
<1>4. Suffix(w, observed', d)
  <2>1. /\ Len(w) = Len(window) + 1 /\ w[Len(window) + 1] = e
        /\ \A i \in 1..Len(window) : w[i] = window[i]
    BY <1>1
  <2>2. /\ Len(window) \in Nat /\ Len(observed) \in Nat
        /\ Len(window) = Len(observed) - d
        /\ \A i \in 1..Len(window) : window[i] = observed[i + d]
    BY <1>1, <1>3 DEF Suffix
  <2>3. ASSUME NEW i \in 1..Len(w) PROVE w[i] = observed'[i + d]
    <3>1. CASE i = Len(window) + 1
      BY <1>2, <2>1, <2>2, <3>1
    <3>2. CASE i \in 1..Len(window)
      <4>1. i + d \in 1..Len(observed)
        BY <2>2, <3>2
      <4>. QED
        BY <1>2, <2>1, <2>2, <3>2, <4>1
    <3>. QED
      BY <2>1, <2>2, <3>1, <3>2
  <2>4. d \in 0..Len(observed') /\ Len(w) = Len(observed') - d
    BY <1>2, <2>1, <2>2
  <2>. QED
    BY <2>3, <2>4 DEF Suffix
<1>5. window' \in Seq(Entries)
      /\ \E n \in d..Len(observed') :
           /\ Suffix(window', observed', n)
           /\ \A i \in (d + 1)..n : finished - observed'[i].when > TenMinutes
  BY <1>1, <1>2, <1>4, PruneSuffix
<1>6. PICK n \in d..Len(observed') :
           /\ Suffix(window', observed', n)
           /\ \A i \in (d + 1)..n : finished - observed'[i].when > TenMinutes
  BY <1>5
<1>7. ASSUME NEW i \in 1..n PROVE Age(observed, i)' > TenMinutes
  <2>1. CASE i \in 1..d
    <3>1. observed'[i] = observed[i] /\ Age(observed, i) > TenMinutes
      BY <1>2, <1>3, <2>1
    <3>. QED
      BY <3>1 DEF Age
  <2>2. CASE i \in (d + 1)..n
    <3>1. finished - observed'[i].when > TenMinutes /\ i \in 1..Len(observed')
      BY <1>1, <1>2, <1>6, <2>2
    <3>2. observed'[i].when \in 0..clock /\ TenMinutes \in Nat
      <4>1. observed'[i] \in Entries
        BY <1>2, <3>1
      <4>. QED
        BY <4>1, TelemetryAssumption DEF Entries, TelemetryAssumption
    <3>. QED
      BY <1>1, <3>1, <3>2, SMTT(30) DEF Age
  <2>. QED
    BY <2>1, <2>2
<1>8. WindowInv'
  <2>1. n \in 0..Len(observed')
    OBVIOUS
  <2>. QED
    BY <1>6, <1>7, <2>1 DEF WindowInv
<1>9. TotalsInv'
  <2>1. Failed(observed)' = IF ok THEN Failed(observed) ELSE Failed(observed) \cup {Len(observed) + 1}
    <3>1. \A i \in 1..Len(observed') : i \in 1..Len(observed) \/ i = Len(observed) + 1
      BY <1>1, <1>2
    <3>. QED
      BY <1>1, <1>2, <3>1 DEF Failed
  <2>2. IsFiniteSet(Failed(observed)) /\ Len(observed) + 1 \notin Failed(observed)
    BY <1>1, FailedFacts DEF Failed
  <2>3. Cardinality(Failed(observed)') = IF ok THEN total_errors ELSE total_errors + 1
    BY <2>1, <2>2, FS_AddElement DEF TotalsInv
  <2>. QED
    BY <1>2, <2>3 DEF TotalsInv, observe
<1>10. TelemetryTypeOK'
  <2>1. total_requests' \in Nat /\ total_errors' \in 0..total_requests'
    BY <1>1 DEF TelemetryTypeOK, observe
  <2>2. Len(window') <= Len(observed')
    BY <1>2, <1>6 DEF Suffix
  <2>. QED
    BY <1>1, <1>2, <1>5, <2>1, <2>2 DEF TelemetryTypeOK
<1>. QED
  BY <1>8, <1>9, <1>10

LEMMA PruneInv ==
    ASSUME TelemetryInv, UNCHANGED clock, snapshot PROVE TelemetryInv'
<1>. USE DEF TelemetryInv
<1>1. /\ window \in Seq(Entries) /\ observed \in Seq(Entries) /\ clock \in Nat
      /\ Entries' = Entries /\ observed' = observed
      /\ window' = prune_locked(window, clock)
  BY DEF TelemetryTypeOK, Entries, snapshot
<1>2. PICK d \in 0..Len(observed) :
        Suffix(window, observed, d) /\ \A i \in 1..d : Age(observed, i) > TenMinutes
  BY DEF WindowInv
<1>3. window' \in Seq(Entries)
      /\ \E n \in d..Len(observed) :
           /\ Suffix(window', observed, n)
           /\ \A i \in (d + 1)..n : clock - observed[i].when > TenMinutes
  BY <1>1, <1>2, PruneSuffix
<1>4. PICK n \in d..Len(observed) :
           /\ Suffix(window', observed, n)
           /\ \A i \in (d + 1)..n : clock - observed[i].when > TenMinutes
  BY <1>3
<1>5. n \in 0..Len(observed) /\ \A i \in 1..n : Age(observed, i) > TenMinutes
  BY <1>2, <1>4 DEF Age
<1>6. WindowInv'
  BY <1>1, <1>4, <1>5 DEF WindowInv, Suffix, Age
<1>7. TotalsInv'
  BY DEF TotalsInv, snapshot, Failed
<1>8. TelemetryTypeOK'
  BY <1>1, <1>3, <1>4 DEF TelemetryTypeOK, snapshot, Suffix
<1>. QED
  BY <1>6, <1>7, <1>8

LEMMA TickInv ==
    ASSUME TelemetryInv, tick, UNCHANGED telemetry PROVE TelemetryInv'
<1>. USE DEF TelemetryInv, telemetry, tick
<1>1. clock \in Nat /\ clock' \in Nat /\ Entries \subseteq Entries' /\ TenMinutes \in Nat
  BY TelemetryAssumption DEF TelemetryTypeOK, Entries, TelemetryAssumption
<1>2. window \in Seq(Entries') /\ observed \in Seq(Entries')
  BY <1>1, SeqMonotonic DEF TelemetryTypeOK
<1>3. ASSUME NEW i \in 1..Len(observed), Age(observed, i) > TenMinutes
      PROVE  Age(observed, i)' > TenMinutes
  <2>1. observed[i] \in Entries
    BY DEF TelemetryTypeOK
  <2>2. observed[i].when \in Nat
    BY <1>1, <2>1 DEF Entries
  <2>. QED
    BY <1>1, <1>3, <2>2 DEF Age
<1>4. WindowInv'
  <2>1. PICK d \in 0..Len(observed) :
          Suffix(window, observed, d) /\ \A i \in 1..d : Age(observed, i) > TenMinutes
    BY DEF WindowInv
  <2>2. \A i \in 1..d : Age(observed, i)' > TenMinutes
    BY <1>3, <2>1
  <2>. QED
    BY <2>1, <2>2 DEF WindowInv, Suffix
<1>5. TotalsInv'
  BY DEF TotalsInv, Failed
<1>6. TelemetryTypeOK'
  BY <1>1, <1>2 DEF TelemetryTypeOK
<1>. QED
  BY <1>4, <1>5, <1>6

LEMMA TelemetryUnchanged ==
    ASSUME TelemetryInv, UNCHANGED <<telemetry, clock>> PROVE TelemetryInv'
BY DEF TelemetryInv, TelemetryTypeOK, WindowInv, TotalsInv, Suffix, Failed, Age, Entries, telemetry

----------------------------------------------------------------------------
(* What a snapshot counts *)

LEMMA DivFacts ==
    ASSUME NEW a \in Nat, NEW b \in Nat, b > 0
    PROVE  /\ a \div b \in Nat
           /\ b * (a \div b) <= a /\ a < b * (a \div b) + b
OBVIOUS

LEMMA ModFacts ==
    ASSUME NEW a \in Nat, NEW b \in Nat, b > 0
    PROVE  a = b * (a \div b) + (a % b)
OBVIOUS

\* The buckets of the last ten minutes hold the ages up to ten minutes and
\* some of the second that follows.
LEMMA BucketFacts ==
    ASSUME NEW a \in Nat
    PROVE  /\ a <= TenMinutes => a \div Second \in Buckets
           /\ a \div Second \in Buckets => a <= TenMinutes + Second - 1
<1>. DEFINE n == TenMinutes \div Second
            q == a \div Second
<1>1. Second \in Nat /\ Second > 0 /\ TenMinutes \in Nat /\ TenMinutes % Second = 0
  BY TelemetryAssumption DEF TelemetryAssumption
<1>2. n \in Nat /\ TenMinutes = Second * n
  BY <1>1, DivFacts, ModFacts
<1>3. q \in Nat /\ Second * q <= a /\ a < Second * q + Second
  BY <1>1, DivFacts
<1>. HIDE DEF n, q
<1>4. q <= n => Second * q <= Second * n
  BY <1>1, <1>2, <1>3
<1>5. q >= n + 1 => Second * q >= Second * n + Second
  <2>1. q >= n + 1 => Second * q >= Second * (n + 1)
    BY <1>1, <1>2, <1>3
  <2>2. Second * (n + 1) = Second * n + Second
    BY <1>1, <1>2
  <2>. QED
    BY <1>1, <1>2, <1>3, <2>1, <2>2
<1>6. a <= TenMinutes => q <= n
  BY <1>1, <1>2, <1>3, <1>5
<1>7. q <= n => a <= TenMinutes + Second - 1
  BY <1>1, <1>2, <1>3, <1>4
<1>8. Buckets = 0..n
  BY DEF Buckets, n
<1>. QED
  BY <1>2, <1>3, <1>6, <1>7, <1>8 DEF q

\* A set of positions and the same set moved are equally large.
LEMMA ShiftFacts ==
    ASSUME NEW e \in Int, NEW A \in SUBSET Int, NEW B \in SUBSET Int, IsFiniteSet(A),
           \A i \in A : i + e \in B, \A j \in B : j - e \in A
    PROVE  Cardinality(A) = Cardinality(B)
<1>. DEFINE f == [i \in A |-> i + e]
<1>1. f \in [A -> B] /\ \A i, j \in A : f[i] = f[j] => i = j
  OBVIOUS
<1>2. ASSUME NEW j \in B PROVE \E i \in A : f[i] = j
  <2>1. j - e \in A /\ (j - e) + e = j
    OBVIOUS
  <2>. QED
    BY <2>1
<1>3. ExistsBijection(A, B)
  <2>1. DOMAIN f = A
    OBVIOUS
  <2>. HIDE DEF f
  <2>2. f \in Injection(A, B)
    BY <1>1, <2>1 DEF Injection, IsInjective
  <2>3. f \in Surjection(A, B)
    BY <1>1, <1>2 DEF Surjection
  <2>. QED
    BY <2>2, <2>3 DEF ExistsBijection, Bijection
<1>. QED
  BY <1>3, FS_Bijection

\* The greatest of several counts grows with the counts.
LEMMA MaxMonotone ==
    ASSUME NEW I, I # {}, NEW n \in Nat, NEW f \in [I -> 0..n], NEW g \in [I -> 0..n],
           \A i \in I : f[i] <= g[i]
    PROVE  Max({f[i] : i \in I}) <= Max({g[i] : i \in I})
<1>. DEFINE F == {f[i] : i \in I}
            G == {g[i] : i \in I}
<1>1. F \in SUBSET Nat /\ F # {} /\ (\A x \in F : x <= n)
      /\ G \in SUBSET Nat /\ G # {} /\ (\A x \in G : x <= n)
  OBVIOUS
<1>2. ASSUME NEW x \in F PROVE \E y \in G : x <= y
  OBVIOUS
<1>. HIDE DEF F, G
<1>3. Max(F) \in F /\ Max(F) \in Nat
  BY <1>1, MaxFacts
<1>4. Max(G) \in Nat /\ \A y \in G : y <= Max(G)
  BY <1>1, MaxFacts
<1>5. Max(F) <= Max(G)
  BY <1>1, <1>2, <1>3, <1>4
<1>. QED
  BY <1>5 DEF F, G

(* SnapshotExact, from the invariant of the metrics. *)
LEMMA SnapshotIsExact ==
    ASSUME TelemetryInv PROVE SnapshotExact
<1>. USE DEF TelemetryInv
<1>. DEFINE w == prune_locked(window, clock)
            n == Len(observed)
<1>1. /\ observed \in Seq(Entries) /\ window \in Seq(Entries) /\ n \in Nat
      /\ \A i \in 1..n : Age(observed, i) \in Nat
  <2>1. observed \in Seq(Entries) /\ window \in Seq(Entries) /\ n \in Nat /\ clock \in Nat
    BY DEF TelemetryTypeOK
  <2>2. ASSUME NEW i \in 1..n PROVE Age(observed, i) \in Nat
    <3>1. observed[i] \in Entries
      BY <2>1
    <3>2. observed[i].when \in 0..clock
      BY <3>1 DEF Entries
    <3>. QED
      BY <2>1, <3>2 DEF Age
  <2>. QED
    BY <2>1, <2>2
<1>2. PICK d \in 0..n :
        Suffix(window, observed, d) /\ \A i \in 1..d : Age(observed, i) > TenMinutes
  BY DEF WindowInv
<1>3. /\ w \in Seq(Entries)
      /\ \E e \in d..n :
           /\ Suffix(w, observed, e)
           /\ \A i \in (d + 1)..e : clock - observed[i].when > TenMinutes
  BY <1>1, <1>2, PruneSuffix
<1>4. PICK e \in 0..n :
        Suffix(w, observed, e) /\ \A i \in 1..e : Age(observed, i) > TenMinutes
  BY <1>1, <1>2, <1>3 DEF Age
<1>. HIDE DEF w
<1>5. \A i \in 1..Len(w) : /\ i + e \in (e + 1)..n /\ w[i] = observed[i + e]
                          /\ Age(w, i) = Age(observed, i + e)
  BY <1>1, <1>3, <1>4 DEF Suffix, Age
<1>6. /\ {Second, TenSeconds, Minute, TenMinutes} \subseteq Nat
      /\ Second <= TenMinutes /\ TenSeconds <= TenMinutes /\ Minute <= TenMinutes
  BY TelemetryAssumption DEF TelemetryAssumption
<1>7. \A T \in SUBSET (1..n) : IsFiniteSet(T) /\ Cardinality(T) \in 0..n
  BY <1>1, FailedFacts
<1>shift. ASSUME NEW A \in SUBSET (1..Len(w)), NEW B \in SUBSET ((e + 1)..n),
                 \A i \in 1..Len(w) : i \in A <=> i + e \in B
          PROVE  Cardinality(A) = Cardinality(B)
  <2>1. Len(w) \in Nat /\ e \in Nat /\ n = e + Len(w)
    <3>1. Len(w) = n - e
      BY <1>4 DEF Suffix
    <3>2. n \in Nat
      BY <1>1
    <3>. HIDE DEF n
    <3>. QED
      BY <3>1, <3>2
  <2>2. IsFiniteSet(A)
    BY <1>3, FailedFacts
  <2>3. A \in SUBSET Int /\ B \in SUBSET Int /\ \A i \in A : i + e \in B
    BY <1>shift, <2>1
  <2>4. ASSUME NEW j \in B PROVE j - e \in A
    <3>1. j - e \in 1..Len(w) /\ (j - e) + e = j
      BY <2>1
    <3>. QED
      BY <1>shift, <3>1
  <2>. QED
    BY <2>1, <2>2, <2>3, <2>4, ShiftFacts
<1>8. ASSUME NEW bound \in {Second, TenSeconds, Minute}
      PROVE  Cardinality(Within(w, bound)) = Cardinality(Within(observed, bound))
  <2>1. Within(w, bound) \in SUBSET (1..Len(w))
    BY DEF Within
  <2>2. ASSUME NEW i \in Within(observed, bound) PROVE i \in (e + 1)..n
    BY <1>1, <1>4, <1>6 DEF Within
  <2>3. \A i \in 1..Len(w) : i \in Within(w, bound) <=> i + e \in Within(observed, bound)
    BY <1>1, <1>5 DEF Within
  <2>. QED
    BY <1>shift, <2>1, <2>2, <2>3
<1>9. Cardinality(Within(w, Minute) \cap Failed(w))
        = Cardinality(Within(observed, Minute) \cap Failed(observed))
  <2>. DEFINE A == Within(w, Minute) \cap Failed(w)
              B == Within(observed, Minute) \cap Failed(observed)
  <2>1. A \in SUBSET (1..Len(w))
    BY DEF Within
  <2>2. ASSUME NEW i \in B PROVE i \in (e + 1)..n
    BY <1>1, <1>4, <1>6 DEF Within
  <2>3. \A i \in 1..Len(w) : i \in A <=> i + e \in B
    BY <1>1, <1>5 DEF Within, Failed
  <2>. HIDE DEF A, B
  <2>4. Cardinality(A) = Cardinality(B)
    BY <1>shift, <2>1, <2>2, <2>3
  <2>. QED
    BY <2>4 DEF A, B
<1>10. Cardinality({i \in 1..Len(w) : Age(w, i) \div Second \in Buckets})
         \in Cardinality(Within(observed, TenMinutes))
              ..Cardinality(Within(observed, TenMinutes + Second - 1))
  <2>. DEFINE A == {i \in 1..Len(w) : Age(w, i) \div Second \in Buckets}
              B == {i \in (e + 1)..n : Age(observed, i) \div Second \in Buckets}
  <2>1. A \in SUBSET (1..Len(w)) /\ B \in SUBSET ((e + 1)..n) /\ B \in SUBSET (1..n)
    BY <1>1, <1>4
  <2>2. \A i \in 1..Len(w) : i \in A <=> i + e \in B
    BY <1>1, <1>5
  <2>3. Within(observed, TenMinutes) \subseteq B
    BY <1>1, <1>4, <1>6, BucketFacts DEF Within
  <2>4. B \subseteq Within(observed, TenMinutes + Second - 1)
    BY <1>1, <1>4, <1>6, BucketFacts DEF Within
  <2>5. Within(observed, TenMinutes) \in SUBSET (1..n)
        /\ Within(observed, TenMinutes + Second - 1) \in SUBSET (1..n)
    BY DEF Within
  <2>. HIDE DEF A, B
  <2>6. Cardinality(A) = Cardinality(B)
    BY <1>shift, <2>1, <2>2
  <2>7. Cardinality(Within(observed, TenMinutes)) <= Cardinality(B)
    BY <1>7, <2>1, <2>3, FS_Subset
  <2>8. Cardinality(B) <= Cardinality(Within(observed, TenMinutes + Second - 1))
    BY <1>7, <2>4, <2>5, FS_Subset
  <2>9. Cardinality(A) \in Cardinality(Within(observed, TenMinutes))
              ..Cardinality(Within(observed, TenMinutes + Second - 1))
    BY <1>1, <1>7, <2>1, <2>5, <2>6, <2>7, <2>8
  <2>. QED
    BY <2>9 DEF A
<1>. DEFINE low == [a \in Buckets |-> Cardinality(Within(observed, TenMinutes) \cap Bucket(observed, a))]
            rps == [a \in Buckets |-> Cardinality(Bucket(w, a))]
            high == [a \in Buckets |-> Cardinality(Bucket(observed, a))]
<1>11. ASSUME NEW a \in Buckets
       PROVE  low[a] <= rps[a] /\ rps[a] <= high[a] /\ low[a] \in 0..n /\ rps[a] \in 0..n /\ high[a] \in 0..n
  <2>. DEFINE L == Within(observed, TenMinutes) \cap Bucket(observed, a)
              B == {i \in (e + 1)..n : Age(observed, i) \div Second = a}
              H == Bucket(observed, a)
  <2>1. L \subseteq B /\ B \subseteq H
    BY <1>1, <1>4, <1>6, SMTT(30) DEF Within, Bucket
  <2>2. L \in SUBSET (1..n) /\ H \in SUBSET (1..n) /\ B \in SUBSET (1..n) /\ B \in SUBSET ((e + 1)..n)
    BY <1>1, <1>4 DEF Within, Bucket
  <2>3. Bucket(w, a) \in SUBSET (1..Len(w)) /\ \A i \in 1..Len(w) : i \in Bucket(w, a) <=> i + e \in B
    BY <1>1, <1>5 DEF Bucket
  <2>. HIDE DEF L, B, H
  <2>4. Cardinality(Bucket(w, a)) = Cardinality(B)
    BY <1>shift, <2>2, <2>3
  <2>5. Cardinality(L) <= Cardinality(B) /\ Cardinality(B) <= Cardinality(H)
    BY <1>7, <2>1, <2>2, FS_Subset
  <2>6. Cardinality(L) \in 0..n /\ Cardinality(B) \in 0..n /\ Cardinality(H) \in 0..n
    BY <1>7, <2>2
  <2>. QED
    BY <2>4, <2>5, <2>6 DEF L, H
<1>12. Max({low[a] : a \in Buckets}) <= Max({rps[a] : a \in Buckets})
       /\ Max({rps[a] : a \in Buckets}) <= Max({high[a] : a \in Buckets})
  <2>1. Buckets # {}
    <3>1. TenMinutes \div Second \in Nat
      BY <1>6, TelemetryAssumption, DivFacts DEF TelemetryAssumption
    <3>. QED
      BY <3>1 DEF Buckets
  <2>2. low \in [Buckets -> 0..n] /\ rps \in [Buckets -> 0..n] /\ high \in [Buckets -> 0..n]
    BY <1>11
  <2>3. \A a \in Buckets : low[a] <= rps[a] /\ rps[a] <= high[a]
    BY <1>11
  <2>4. n \in Nat
    BY <1>1
  <2>. HIDE DEF low, rps, high, n
  <2>5. Max({low[a] : a \in Buckets}) <= Max({rps[a] : a \in Buckets})
    BY <2>1, <2>2, <2>3, <2>4, MaxMonotone
  <2>6. Max({rps[a] : a \in Buckets}) <= Max({high[a] : a \in Buckets})
    BY <2>1, <2>2, <2>3, <2>4, MaxMonotone
  <2>. QED
    BY <2>5, <2>6
<1>13. /\ {low[a] : a \in Buckets} =
            {Cardinality(Within(observed, TenMinutes) \cap Bucket(observed, a)) : a \in Buckets}
       /\ {rps[a] : a \in Buckets} = {Cardinality(Bucket(w, a)) : a \in Buckets}
       /\ {high[a] : a \in Buckets} = {Cardinality(Bucket(observed, a)) : a \in Buckets}
  OBVIOUS
<1>. HIDE DEF low, rps, high
<1>14. /\ Snapshot.total_requests = total_requests
       /\ Snapshot.total_errors = total_errors
       /\ Snapshot.current_rps = Cardinality(Within(w, Second))
       /\ Snapshot.count_10s = Cardinality(Within(w, TenSeconds))
       /\ Snapshot.errors_1m = Cardinality(Within(w, Minute) \cap Failed(w))
       /\ Snapshot.sum_10m =
            Cardinality({i \in 1..Len(w) : Age(w, i) \div Second \in Buckets})
       /\ Snapshot.max_10m = Max({Cardinality(Bucket(w, a)) : a \in Buckets})
  BY DEF Snapshot, w
<1>15. /\ Max({Cardinality(Bucket(w, a)) : a \in Buckets}) >=
            Max({Cardinality(Within(observed, TenMinutes) \cap Bucket(observed, a)) : a \in Buckets})
       /\ Max({Cardinality(Bucket(w, a)) : a \in Buckets}) <=
            Max({Cardinality(Bucket(observed, a)) : a \in Buckets})
  BY <1>12, <1>13
<1>. QED
  BY <1>8, <1>9, <1>10, <1>14, <1>15 DEF SnapshotExact, TotalsInv

----------------------------------------------------------------------------
(* The inductive invariant *)

\* The pool: its map is the inverse of its vector.
PoolInv ==
    /\ by_id \in Seq(Strings) /\ by_value \in [Strings -> 0..Len(by_id)]
    /\ buffer \in Nat /\ capacity \in Nat /\ Len(by_id) + 1 <= capacity
    /\ \A i \in Ids : by_value[by_id[i]] = i
    /\ \A s \in Strings : by_value[s] # kInvalid => by_id[by_value[s]] = s

\* A handler: its id denotes its literal, and a new string has raced with it
\* when the reference it uses dangles or when it has read through one that did.
HandlerInv(c) ==
    /\ handler[c] \in {Idle} \cup Requests
    /\ handler[c] # Idle =>
         /\ handler[c].id # kInvalid => by_id[handler[c].id] = handler[c].stmt.str
         /\ handler[c].pc = "use_string" /\ Dangles(handler[c].ref) => handler[c].raced
         /\ ~handler[c].right => handler[c].raced

HandlersInv ==
    /\ DOMAIN handler = Clients /\ handler = [c \in Clients |-> handler[c]]
    /\ \A c \in Clients : HandlerInv(c)
    /\ \A c, d \in InFlight : handler[c].rid = handler[d].rid => c = d

DbmsInv ==
    /\ rows \in [Databases -> {None} \cup 0..Len(by_id)]
    /\ active \in Databases \cup {None}
    /\ chosen \in [Clients -> Databases \cup {None}]
    /\ mutex \in Clients \cup {None}
    /\ mutex # None => handler[mutex].pc = "use_string"
    /\ SelectionHolds

\* The string that a row should hold is the one that its id denotes.
MeantInv ==
    /\ meant \in [Databases -> Strings]
    /\ \A db \in Databases : rows[db] \in Ids => by_id[rows[db]] = meant[db]

ProcessInv ==
    /\ g_stop \in BOOLEAN
    /\ main \in {"serving", "joining", "closed", "crashed"}
    /\ main = "closed" => InFlight = {}
    /\ main = "crashed" => \E c \in InFlight : handler[c].raced

Unlogged == {handler[c].rid : c \in {d \in InFlight : handler[d].pc # "observe"}}

\* garbled tells which requests the log refuses; none of them is logged.
GarbledInv ==
    /\ garbled \subseteq 1..next_id
    /\ \A c \in InFlight : handler[c].rid \in garbled <=> handler[c].stmt \in NotUtf8
    /\ \A c \in InFlight : LogPath /\ handler[c].pc = "observe" =>
                             handler[c].rid \notin garbled

LogInv ==
    /\ next_id \in Nat
    /\ total_requests = Cardinality(Answered \ Unwritable)
    /\ log \subseteq 1..next_id /\ log_open \in BOOLEAN
    /\ log_open => LogPath
    /\ LogPath => /\ log_open \/ main = "closed"
                  /\ log = (1..next_id) \ (Unlogged \cup garbled)

Inv ==
    /\ TelemetryInv /\ PoolInv /\ HandlersInv /\ DbmsInv /\ MeantInv
    /\ ProcessInv /\ GarbledInv /\ LogInv

----------------------------------------------------------------------------
(* Statements and requests *)

Stages == {"parse", "execute", "use_string", "log", "observe"}

LEMMA StatementFacts ==
    ASSUME NEW st \in Statements
    PROVE  /\ st.kind \in {"create", "drop", "use", "insert", "select", "bad", "empty"}
           /\ st.kind \in {"create", "drop", "use"} => st.db \in Databases
           /\ st.kind \in {"insert", "select"} => st.db \in Databases \cup {None}
           /\ Literal(st) => st.str \in Strings
<1>1. CASE \E db \in Databases : st \in {Ddl(k, db) : k \in {"create", "drop", "use"}}
  BY <1>1 DEF Ddl, Literal
<1>2. CASE \E db \in Databases \cup {None}, s \in Strings :
             st \in {Query("insert", db, s), Query("select", db, s), Bad(s)}
  BY <1>2 DEF Query, Bad, Literal
<1>3. CASE st = Empty
  BY <1>3 DEF Empty, Literal
<1>. QED
  BY <1>1, <1>2, <1>3, ServerAssumption DEF ServerAssumption

LEMMA RequestFacts ==
    ASSUME NEW h \in Requests
    PROVE  /\ h # Idle /\ h.pc \in Stages /\ h.rid \in 1..next_id /\ h.stmt \in Statements
           /\ h.id \in 0..Len(by_id) /\ h.finished \in 0..clock
           /\ h.raced \in BOOLEAN /\ h.right \in BOOLEAN /\ h.ok \in BOOLEAN
           /\ h.ref.buffer \in 0..buffer
<1>1. h.pc # Idle.pc
  BY DEF Requests, Idle
<1>. QED
  BY <1>1 DEF Requests, Stages

\* A request stays one when the counters grow.
LEMMA RequestsGrow ==
    ASSUME next_id \in Nat, next_id' \in Nat, next_id <= next_id',
           Len(by_id) \in Nat, Len(by_id') \in Nat, Len(by_id) <= Len(by_id'),
           buffer \in Nat, buffer' \in Nat, buffer <= buffer',
           clock \in Nat, clock' \in Nat, clock <= clock'
    PROVE  Requests \subseteq Requests'
<1>1. /\ 1..next_id \subseteq 1..next_id' /\ 0..Len(by_id) \subseteq 0..Len(by_id')
      /\ 0..buffer \subseteq 0..buffer' /\ 0..clock \subseteq 0..clock'
  OBVIOUS
<1>2. [buffer : 0..buffer, id : 0..Len(by_id)] \subseteq [buffer : 0..buffer', id : 0..Len(by_id')]
  BY <1>1
<1>. QED
  BY <1>1, <1>2 DEF Requests

LEMMA StageFacts ==
    ASSUME NEW h \in Requests, NEW p \in Stages
    PROVE  LET g == [h EXCEPT !.pc = p]
           IN  /\ g \in Requests /\ g.pc = p
               /\ g.rid = h.rid /\ g.stmt = h.stmt /\ g.id = h.id /\ g.ref = h.ref
               /\ g.raced = h.raced /\ g.right = h.right
BY DEF Requests, Stages

LEMMA ReturnedFacts ==
    ASSUME NEW h \in Requests, NEW ok \in BOOLEAN, clock \in Nat
    PROVE  LET g == Returned(h, ok)
           IN  /\ g \in Requests /\ g.pc = "log"
               /\ g.rid = h.rid /\ g.stmt = h.stmt /\ g.id = h.id /\ g.ref = h.ref
               /\ g.raced = h.raced /\ g.right = h.right
<1>1. clock \in 0..clock
  OBVIOUS
<1>2. [h EXCEPT !.pc = "log", !.ok = ok, !.finished = clock] \in Requests
  BY <1>1 DEF Requests
<1>. QED
  BY <1>2 DEF Requests, Returned

LEMMA IdFacts ==
    ASSUME NEW h \in Requests, NEW i \in 0..Len(by_id)
    PROVE  LET g == [h EXCEPT !.id = i]
           IN  /\ g \in Requests /\ g.pc = h.pc /\ g.id = i
               /\ g.rid = h.rid /\ g.stmt = h.stmt /\ g.ref = h.ref
               /\ g.raced = h.raced /\ g.right = h.right
BY DEF Requests

LEMMA RacedFacts ==
    ASSUME NEW h \in Requests
    PROVE  LET g == [h EXCEPT !.raced = TRUE]
           IN  /\ g \in Requests /\ g.pc = h.pc /\ g.id = h.id /\ g.raced
               /\ g.rid = h.rid /\ g.stmt = h.stmt /\ g.ref = h.ref
BY DEF Requests

LEMMA RightFacts ==
    ASSUME NEW h \in Requests, NEW right \in BOOLEAN
    PROVE  LET g == [h EXCEPT !.right = right]
           IN  /\ g \in Requests /\ g.pc = h.pc /\ g.id = h.id /\ g.raced = h.raced
               /\ g.rid = h.rid /\ g.stmt = h.stmt /\ g.ref = h.ref /\ g.right = right
BY DEF Requests

LEMMA UseFacts ==
    ASSUME NEW h \in Requests, NEW i \in 0..Len(by_id), buffer \in Nat
    PROVE  LET g == [h EXCEPT !.pc = "use_string", !.ref = get(i)]
           IN  /\ g \in Requests /\ g.pc = "use_string" /\ ~Dangles(g.ref)
               /\ g.rid = h.rid /\ g.stmt = h.stmt /\ g.id = h.id
               /\ g.raced = h.raced /\ g.right = h.right
<1>1. get(i) \in [buffer : 0..buffer, id : 0..Len(by_id)] /\ ~Dangles(get(i))
  BY DEF get, Dangles
<1>. QED
  BY <1>1 DEF Requests

LEMMA NewFacts ==
    ASSUME NEW st \in Statements, next_id \in Nat, next_id' = next_id + 1,
           UNCHANGED <<pool, clock>>, buffer \in Nat, Len(by_id) \in Nat, clock \in Nat
    PROVE  LET g == Request(next_id + 1, st)
           IN  /\ g \in Requests' /\ g # Idle /\ g.pc = "parse" /\ g.id = kInvalid
               /\ g.rid = next_id + 1 /\ g.stmt = st /\ g.right = TRUE
<1>1. /\ next_id + 1 \in 1..next_id' /\ 0 \in 0..Len(by_id') /\ buffer \in 0..buffer'
      /\ 0 \in 0..clock'
  BY DEF pool
<1>. QED
  BY <1>1 DEF Requests, Request, kInvalid, get, Idle

----------------------------------------------------------------------------
(* Steps of one handler *)

LEMMA Constants ==
    /\ None \notin Databases /\ None \notin Clients /\ None \notin Nat
    /\ IsFiniteSet(Clients) /\ LogPath \in BOOLEAN /\ Stored \in Strings
BY ServerAssumption DEF ServerAssumption

\* A handler goes on with its request.
LEMMA HandlersStep ==
    ASSUME HandlersInv, NEW c \in InFlight, NEW g \in Requests,
           handler' = [handler EXCEPT ![c] = g], UNCHANGED <<pool, next_id, clock>>,
           g.rid = handler[c].rid, g.id = handler[c].id, g.stmt = handler[c].stmt,
           g.pc = "use_string" /\ Dangles(g.ref) => g.raced, ~g.right => g.raced
    PROVE  /\ HandlersInv' /\ InFlight' = InFlight
           /\ handler'[c] = g /\ \A d \in Clients \ {c} : handler'[d] = handler[d]
<1>1. c \in Clients /\ g # Idle /\ Requests' = Requests
  BY RequestFacts DEF InFlight, Requests, pool
<1>2. handler'[c] = g /\ \A d \in Clients \ {c} : handler'[d] = handler[d]
  BY <1>1 DEF HandlersInv
<1>3. InFlight' = InFlight
  BY <1>1, <1>2 DEF InFlight
<1>4. DOMAIN handler' = Clients /\ handler' = [d \in Clients |-> handler'[d]]
  BY <1>1 DEF HandlersInv
<1>5. ASSUME NEW d \in Clients PROVE HandlerInv(d)'
  <2>1. CASE d = c
    <3>1. handler[c].id # kInvalid => by_id[handler[c].id] = handler[c].stmt.str
      BY <1>1 DEF HandlersInv, HandlerInv, InFlight
    <3>. QED
      BY <1>1, <1>2, <2>1, <3>1 DEF HandlerInv, Dangles, pool
  <2>2. CASE d # c
    <3>1. HandlerInv(d) /\ handler'[d] = handler[d]
      BY <1>2, <2>2 DEF HandlersInv
    <3>. QED
      BY <1>1, <3>1 DEF HandlerInv, Dangles, pool
  <2>. QED
    BY <2>1, <2>2
<1>6. \A x, y \in InFlight' : handler'[x].rid = handler'[y].rid => x = y
  <2>1. \A x \in InFlight : handler'[x].rid = handler[x].rid
    BY <1>2 DEF InFlight
  <2>. QED
    BY <1>3, <2>1 DEF HandlersInv
<1>. QED
  BY <1>2, <1>3, <1>4, <1>5, <1>6 DEF HandlersInv

\* Requests go on, but none is logged, answered or new.
LEMMA LogUnchanged ==
    ASSUME GarbledInv, LogInv, InFlight' = InFlight,
           \A d \in InFlight : /\ handler'[d].rid = handler[d].rid
                               /\ handler'[d].stmt = handler[d].stmt
                               /\ handler'[d].pc = "observe" <=> handler[d].pc = "observe",
           total_requests' = total_requests, next_id' = next_id, log' = log,
           garbled' = garbled, log_open' \in BOOLEAN, log_open' => LogPath,
           LogPath => log_open' \/ main' = "closed"
    PROVE  GarbledInv' /\ LogInv'
<1>1. GarbledInv'
  BY DEF GarbledInv
<1>2. Unlogged' = Unlogged
  BY DEF Unlogged
<1>3. Answered' = Answered
  BY DEF Answered
<1>4. Unwritable' = Unwritable
  BY DEF Unwritable
<1>5. LogInv'
  BY <1>2, <1>3, <1>4 DEF LogInv
<1>. QED
  BY <1>1, <1>5

\* The strings keep their ids, the rows theirs.
LEMMA MeantUnchanged ==
    ASSUME MeantInv, UNCHANGED <<by_id, rows, meant>> PROVE MeantInv'
BY DEF MeantInv, Ids

\* A handler goes on within run_query.
LEMMA RunStep ==
    ASSUME Inv, main # "crashed", NEW c \in InFlight, NEW g \in Requests,
           handler' = [handler EXCEPT ![c] = g],
           UNCHANGED <<pool, telemetry, clock, next_id, accesslog, process>>,
           g.rid = handler[c].rid, g.id = handler[c].id, g.stmt = handler[c].stmt,
           g.pc = "use_string" /\ Dangles(g.ref) => g.raced, ~g.right => g.raced,
           g.pc # "observe", handler[c].pc # "observe"
    PROVE  /\ TelemetryInv' /\ PoolInv' /\ HandlersInv' /\ ProcessInv' /\ GarbledInv' /\ LogInv'
           /\ handler'[c] = g /\ \A d \in Clients \ {c} : handler'[d] = handler[d]
<1>. USE DEF Inv
<1>1. /\ HandlersInv' /\ InFlight' = InFlight
      /\ handler'[c] = g /\ \A d \in Clients \ {c} : handler'[d] = handler[d]
  BY HandlersStep
<1>2. TelemetryInv'
  BY TelemetryUnchanged
<1>3. PoolInv'
  BY DEF PoolInv, Ids, pool
<1>4. ProcessInv'
  BY <1>1 DEF ProcessInv, process
<1>5. \A d \in InFlight : /\ handler'[d].rid = handler[d].rid
                         /\ handler'[d].stmt = handler[d].stmt
                         /\ handler'[d].pc = "observe" <=> handler[d].pc = "observe"
  BY <1>1 DEF InFlight
<1>6. GarbledInv' /\ LogInv'
  <2>1. log_open \in BOOLEAN /\ (log_open => LogPath) /\ (LogPath => log_open \/ main = "closed")
    BY DEF LogInv
  <2>. QED
    BY <1>1, <1>5, <2>1, LogUnchanged DEF accesslog, process, telemetry
<1>. QED
  BY <1>1, <1>2, <1>3, <1>4, <1>6

\* The record of a handler that is somewhere in its request.
LEMMA AtFacts ==
    ASSUME HandlersInv, NEW c \in Clients, NEW p, At(c, p), p # "idle"
    PROVE  /\ c \in InFlight /\ handler[c] \in Requests /\ main # "crashed"
           /\ handler[c].pc = p
<1>1. handler[c] # Idle
  BY DEF At, Idle
<1>. QED
  BY <1>1 DEF At, HandlersInv, HandlerInv, InFlight

----------------------------------------------------------------------------
(* execute *)

Others == <<pool, telemetry, clock, next_id, accesslog, process>>

LEMMA FinishStep ==
    ASSUME Inv, NEW c \in Clients, At(c, "execute"), NEW ok \in BOOLEAN,
           Finishes(c, ok), UNCHANGED Others
    PROVE  /\ TelemetryInv' /\ PoolInv' /\ HandlersInv' /\ ProcessInv' /\ GarbledInv' /\ LogInv'
           /\ mutex' = mutex
<1>. DEFINE g == Returned(handler[c], ok)
<1>1. c \in InFlight /\ handler[c] \in Requests /\ main # "crashed" /\ handler[c].pc = "execute"
  BY AtFacts DEF Inv
<1>2. clock \in Nat
  BY DEF Inv, TelemetryInv, TelemetryTypeOK
<1>3. /\ g \in Requests /\ g.pc = "log" /\ g.rid = handler[c].rid
      /\ g.stmt = handler[c].stmt /\ g.id = handler[c].id
      /\ g.raced = handler[c].raced /\ g.right = handler[c].right
  BY <1>1, <1>2, ReturnedFacts
<1>4. ~g.right => g.raced
  BY <1>1, <1>3 DEF Inv, HandlersInv, HandlerInv, InFlight
<1>5. handler' = [handler EXCEPT ![c] = g] /\ mutex' = mutex
  BY DEF Finishes, Step
<1>. HIDE DEF g
<1>. QED
  BY <1>1, <1>3, <1>4, <1>5, RunStep DEF Others

LEMMA UseStep ==
    ASSUME Inv, NEW c \in Clients, At(c, "execute"), NEW id \in 0..Len(by_id),
           UsesString(c, id), UNCHANGED Others
    PROVE  /\ TelemetryInv' /\ PoolInv' /\ HandlersInv' /\ ProcessInv' /\ GarbledInv' /\ LogInv'
           /\ mutex' = c /\ handler'[c].pc = "use_string"
<1>. DEFINE g == [handler[c] EXCEPT !.pc = "use_string", !.ref = get(id)]
<1>1. c \in InFlight /\ handler[c] \in Requests /\ main # "crashed" /\ handler[c].pc = "execute"
  BY AtFacts DEF Inv
<1>2. buffer \in Nat
  BY DEF Inv, PoolInv
<1>3. /\ g \in Requests /\ g.pc = "use_string" /\ ~Dangles(g.ref)
      /\ g.rid = handler[c].rid
      /\ g.stmt = handler[c].stmt /\ g.id = handler[c].id
      /\ g.raced = handler[c].raced /\ g.right = handler[c].right
  BY <1>1, <1>2, UseFacts
<1>4. ~g.right => g.raced
  BY <1>1, <1>3 DEF Inv, HandlersInv, HandlerInv, InFlight
<1>5. handler' = [handler EXCEPT ![c] = g] /\ mutex' = c
  BY DEF UsesString, Step
<1>. HIDE DEF g
<1>. QED
  BY <1>1, <1>3, <1>4, <1>5, RunStep DEF Others

\* What a DDL statement and a query work on.
LEMMA ExecuteFacts ==
    ASSUME Inv, NEW c \in Clients, NEW kinds, CanExecute(c, kinds)
    PROVE  /\ At(c, "execute") /\ mutex = None /\ handler[c].stmt.kind \in kinds
           /\ handler[c].id \in 0..Len(by_id) /\ Len(by_id) \in Nat
           /\ kinds \subseteq {"create", "drop", "use"} => handler[c].stmt.db \in Databases
           /\ kinds \subseteq {"insert", "select"} =>
                handler[c].stmt.db \in Databases \cup {None}
<1>1. At(c, "execute") /\ mutex = None /\ handler[c].stmt.kind \in kinds
  BY DEF CanExecute
<1>2. handler[c] \in Requests
  BY <1>1, AtFacts DEF Inv
<1>3. handler[c].stmt \in Statements /\ handler[c].id \in 0..Len(by_id)
  BY <1>2, RequestFacts
<1>4. Len(by_id) \in Nat
  BY DEF Inv, PoolInv
<1>. QED
  BY <1>1, <1>3, <1>4, StatementFacts

LEMMA CreateDatabaseInv ==
    ASSUME Inv, NEW c \in Clients, create_database(c), UNCHANGED Others PROVE Inv'
<1>. DEFINE db == handler[c].stmt.db
<1>1. /\ CanExecute(c, {"create"}) /\ Finishes(c, ~Exists(db)) /\ UNCHANGED <<active, chosen, meant>>
      /\ rows' = IF Exists(db) THEN rows ELSE [rows EXCEPT ![db] = kInvalid]
  BY DEF create_database
<1>2. At(c, "execute") /\ mutex = None /\ db \in Databases /\ Len(by_id) \in Nat
  BY <1>1, ExecuteFacts
<1>3. /\ TelemetryInv' /\ PoolInv' /\ HandlersInv' /\ ProcessInv' /\ GarbledInv' /\ LogInv'
      /\ mutex' = mutex
  <2>1. PICK ok \in BOOLEAN : Finishes(c, ok)
    BY <1>1 DEF Exists
  <2>. QED
    BY <1>2, <2>1, FinishStep
<1>. HIDE DEF db
<1>4. DbmsInv'
  BY <1>1, <1>2, <1>3, Constants DEF Inv, DbmsInv, SelectionHolds, Exists, kInvalid, Others, pool
<1>5. MeantInv'
  BY <1>1, <1>2, Constants DEF Inv, MeantInv, DbmsInv, Ids, kInvalid, Exists, Others, pool
<1>. QED
  BY <1>3, <1>4, <1>5 DEF Inv

LEMMA DropDatabaseInv ==
    ASSUME Inv, NEW c \in Clients, drop_database(c), UNCHANGED Others PROVE Inv'
<1>. DEFINE db == handler[c].stmt.db
<1>1. /\ CanExecute(c, {"drop"}) /\ Finishes(c, Exists(db))
      /\ rows' = [rows EXCEPT ![db] = None]
      /\ active' = IF Exists(db) /\ active = db THEN None ELSE active
      /\ chosen' = Forget(db) /\ meant' = meant
  BY DEF drop_database
<1>2. At(c, "execute") /\ mutex = None /\ db \in Databases
  BY <1>1, ExecuteFacts
<1>3. /\ TelemetryInv' /\ PoolInv' /\ HandlersInv' /\ ProcessInv' /\ GarbledInv' /\ LogInv'
      /\ mutex' = mutex
  <2>1. PICK ok \in BOOLEAN : Finishes(c, ok)
    BY <1>1 DEF Exists
  <2>. QED
    BY <1>2, <2>1, FinishStep
<1>. HIDE DEF db
<1>4. DbmsInv'
  BY <1>1, <1>2, <1>3, Constants DEF Inv, DbmsInv, SelectionHolds, Exists, Forget, Others, pool
<1>5. MeantInv'
  BY <1>1, <1>2, Constants DEF Inv, MeantInv, DbmsInv, Ids, kInvalid, Others, pool
<1>. QED
  BY <1>3, <1>4, <1>5 DEF Inv

LEMMA UseDatabaseInv ==
    ASSUME Inv, NEW c \in Clients, use_database(c), UNCHANGED Others PROVE Inv'
<1>. DEFINE db == handler[c].stmt.db
            selects == [d \in Clients |-> IF d = c \/ chosen[d] = db THEN db ELSE None]
<1>1. /\ CanExecute(c, {"use"}) /\ Finishes(c, Exists(db)) /\ UNCHANGED <<rows, meant>>
      /\ active' = IF Exists(db) THEN db ELSE active
      /\ chosen' = IF Exists(db) THEN selects ELSE chosen
  BY DEF use_database
<1>2. At(c, "execute") /\ mutex = None /\ db \in Databases
  BY <1>1, ExecuteFacts
<1>3. /\ TelemetryInv' /\ PoolInv' /\ HandlersInv' /\ ProcessInv' /\ GarbledInv' /\ LogInv'
      /\ mutex' = mutex
  <2>1. PICK ok \in BOOLEAN : Finishes(c, ok)
    BY <1>1 DEF Exists
  <2>. QED
    BY <1>2, <2>1, FinishStep
<1>. HIDE DEF db
<1>4. DbmsInv'
  BY <1>1, <1>2, <1>3, Constants DEF Inv, DbmsInv, SelectionHolds, Exists, Others, pool
<1>5. MeantInv'
  BY <1>1, MeantUnchanged DEF Inv, Others, pool
<1>. QED
  BY <1>3, <1>4, <1>5 DEF Inv

LEMMA QueryFailsInv ==
    ASSUME Inv, NEW c \in Clients, query_fails(c), UNCHANGED Others PROVE Inv'
<1>1. /\ CanExecute(c, {"insert", "select"}) /\ Finishes(c, FALSE)
      /\ UNCHANGED <<rows, active, chosen, meant>>
  BY DEF query_fails
<1>2. At(c, "execute") /\ mutex = None
  BY <1>1, ExecuteFacts
<1>3. /\ TelemetryInv' /\ PoolInv' /\ HandlersInv' /\ ProcessInv' /\ GarbledInv' /\ LogInv'
      /\ mutex' = mutex
  BY <1>1, <1>2, FinishStep, FALSE \in BOOLEAN
<1>4. DbmsInv'
  BY <1>1, <1>2, <1>3 DEF Inv, DbmsInv, SelectionHolds, Exists, Others, pool
<1>5. MeantInv'
  BY <1>1, MeantUnchanged DEF Inv, Others, pool
<1>. QED
  BY <1>3, <1>4, <1>5 DEF Inv

LEMMA ExecInsertInv ==
    ASSUME Inv, NEW c \in Clients, exec_insert(c), UNCHANGED Others PROVE Inv'
<1>. DEFINE db == Target(c)
            id == handler[c].id
<1>1. /\ CanExecute(c, {"insert"}) /\ Exists(db) /\ UsesString(c, id)
      /\ rows' = [rows EXCEPT ![db] = id] /\ UNCHANGED <<active, chosen>>
      /\ meant' = [meant EXCEPT ![db] = handler[c].stmt.str]
  BY DEF exec_insert
<1>2. At(c, "execute") /\ mutex = None /\ id \in 0..Len(by_id) /\ Len(by_id) \in Nat
  BY <1>1, ExecuteFacts
<1>3. /\ TelemetryInv' /\ PoolInv' /\ HandlersInv' /\ ProcessInv' /\ GarbledInv' /\ LogInv'
      /\ mutex' = c /\ handler'[c].pc = "use_string"
  BY <1>1, <1>2, UseStep
<1>. HIDE DEF db, id
<1>4. DbmsInv'
  BY <1>1, <1>2, <1>3, Constants DEF Inv, DbmsInv, SelectionHolds, Exists, Others, pool
<1>5. MeantInv'
  <2>1. handler[c] # Idle /\ handler[c] \in Requests /\ handler[c].stmt.kind = "insert"
    BY <1>1, <1>2, AtFacts DEF Inv, CanExecute, InFlight
  <2>2. handler[c].stmt.str \in Strings
    BY <2>1, RequestFacts, StatementFacts DEF Literal
  <2>3. handler[c].id # kInvalid => by_id[handler[c].id] = handler[c].stmt.str
    BY <2>1 DEF Inv, HandlersInv, HandlerInv
  <2>4. /\ by_id' = by_id /\ meant \in [Databases -> Strings]
        /\ rows \in [Databases -> {None} \cup 0..Len(by_id)] /\ db \in Databases
        /\ \A x \in Databases : rows[x] \in 1..Len(by_id) => by_id[rows[x]] = meant[x]
    BY <1>1 DEF Inv, MeantInv, DbmsInv, Ids, Others, pool, Exists
  <2>5. ASSUME NEW x \in Databases, rows'[x] \in 1..Len(by_id) PROVE by_id[rows'[x]] = meant'[x]
    <3>1. CASE x = db
      BY <1>1, <1>2, <2>3, <2>4, <2>5, <3>1 DEF id, kInvalid
    <3>2. CASE x # db
      BY <1>1, <2>4, <2>5, <3>2
    <3>. QED
      BY <3>1, <3>2
  <2>6. meant' \in [Databases -> Strings]
    BY <1>1, <2>2, <2>4
  <2>. QED
    BY <2>4, <2>5, <2>6 DEF MeantInv, Ids
<1>. QED
  BY <1>3, <1>4, <1>5 DEF Inv

LEMMA ExecSelectInv ==
    ASSUME Inv, NEW c \in Clients, exec_select(c), UNCHANGED Others PROVE Inv'
<1>. DEFINE id == rows[Target(c)]
<1>1. /\ CanExecute(c, {"select"}) /\ Exists(Target(c)) /\ UNCHANGED <<rows, active, chosen, meant>>
      /\ \/ id = kInvalid /\ Finishes(c, TRUE)
         \/ UsesString(c, id)
  BY DEF exec_select
<1>2. At(c, "execute") /\ mutex = None /\ Len(by_id) \in Nat
  BY <1>1, ExecuteFacts
<1>3. id \in 0..Len(by_id)
  BY <1>1 DEF Exists, Inv, DbmsInv
<1>4. /\ TelemetryInv' /\ PoolInv' /\ HandlersInv' /\ ProcessInv' /\ GarbledInv' /\ LogInv'
      /\ mutex' = None \/ (mutex' = c /\ handler'[c].pc = "use_string")
  <2>1. CASE Finishes(c, TRUE)
    BY <1>2, <2>1, FinishStep, TRUE \in BOOLEAN
  <2>2. CASE UsesString(c, id)
    BY <1>2, <1>3, <2>2, UseStep
  <2>. QED
    BY <1>1, <2>1, <2>2
<1>5. DbmsInv'
  BY <1>1, <1>4 DEF Inv, DbmsInv, SelectionHolds, Exists, Others, pool
<1>6. MeantInv'
  BY <1>1, MeantUnchanged DEF Inv, Others, pool
<1>. QED
  BY <1>4, <1>5, <1>6 DEF Inv

LEMMA ExecuteInv ==
    ASSUME Inv, NEW c \in Clients, execute(c) PROVE Inv'
BY CreateDatabaseInv, DropDatabaseInv, UseDatabaseInv, QueryFailsInv, ExecInsertInv,
   ExecSelectInv DEF execute, Others

----------------------------------------------------------------------------
(* The initial state *)

LEMMA InitInv == Init => Inv
<1>. SUFFICES ASSUME Init PROVE Inv
  OBVIOUS
<1>1. TelemetryInv
  BY TelemetryInitInv DEF Init
<1>2. /\ by_id = <<Stored>> /\ Len(by_id) = 1 /\ by_id[1] = Stored /\ Stored \in Strings
      /\ buffer = 0
  BY Constants DEF Init, PoolInit
<1>3. by_value \in [Strings -> {0, 1}] /\ \A s \in Strings : by_value[s] = 1 <=> s = Stored
  <2>1. ASSUME NEW s \in Strings
        PROVE  by_value[s] \in {0, 1} /\ (by_value[s] = 1 <=> s = Stored)
    <3>1. by_value[s] = IF \E i \in 1..Len(<<Stored>>) : <<Stored>>[i] = s
                        THEN CHOOSE i \in 1..Len(<<Stored>>) : <<Stored>>[i] = s
                        ELSE kInvalid
      BY DEF Init, PoolInit
    <3>. QED
      BY <3>1 DEF kInvalid
  <2>2. by_value = [s \in Strings |-> by_value[s]]
    BY DEF Init, PoolInit
  <2>. QED
    BY <2>1, <2>2
<1>4. capacity = 2
  <2>1. capacity = CHOOSE n \in {1, 2, 4, 8} : n > Len(<<Stored>>) /\ n < 2 * (Len(<<Stored>>) + 1)
    BY DEF Init, PoolInit
  <2>2. \A n \in {1, 2, 4, 8} :
          n > Len(<<Stored>>) /\ n < 2 * (Len(<<Stored>>) + 1) <=> n = 2
    OBVIOUS
  <2>. QED
    BY <2>1, <2>2
<1>5. PoolInv
  <2>1. by_id \in Seq(Strings) /\ Ids = {1} /\ 0..Len(by_id) = {0, 1}
    BY <1>2 DEF Ids
  <2>. QED
    BY <1>2, <1>3, <1>4, <2>1 DEF PoolInv, kInvalid
<1>6. InFlight = {} /\ HandlersInv
  BY DEF Init, InFlight, HandlersInv, HandlerInv
<1>7. DbmsInv
  BY <1>2, <1>3, Constants DEF Init, DbmsInv, SelectionHolds
<1>8. ProcessInv
  BY DEF Init, ProcessInv
<1>9. LogInv
  <2>1. Unlogged = {} /\ Answered = {}
    BY <1>6 DEF Unlogged, Answered, Init
  <2>2. Cardinality(Answered \ Unwritable) = 0
    BY <2>1, FS_EmptySet
  <2>. QED
    BY <1>6, <2>1, <2>2, Constants DEF Init, LogInv, TelemetryInit
<1>10. GarbledInv
  BY <1>6 DEF Init, GarbledInv
<1>11. MeantInv
  BY <1>2, <1>3, Constants DEF Init, MeantInv, Ids
<1>. QED
  BY <1>1, <1>5, <1>6, <1>7, <1>8, <1>9, <1>10, <1>11 DEF Inv

----------------------------------------------------------------------------
(* Steps that leave the handlers alone *)

\* Time may pass.
LEMMA HandlersUnchanged ==
    ASSUME Inv, UNCHANGED <<pool, requests>>, clock' \in Nat, clock <= clock'
    PROVE  PoolInv' /\ HandlersInv' /\ InFlight' = InFlight
<1>1. PoolInv'
  BY DEF Inv, PoolInv, Ids, pool
<1>2. Requests \subseteq Requests'
  BY RequestsGrow DEF Inv, PoolInv, LogInv, TelemetryInv, TelemetryTypeOK, pool, requests
<1>3. InFlight' = InFlight
  BY DEF InFlight, requests
<1>4. ASSUME NEW d \in Clients PROVE HandlerInv(d)'
  BY <1>2 DEF Inv, HandlersInv, HandlerInv, Dangles, pool, requests
<1>5. HandlersInv'
  BY <1>3, <1>4 DEF Inv, HandlersInv, requests
<1>. QED
  BY <1>1, <1>3, <1>5

LEMMA DbmsUnchanged ==
    ASSUME DbmsInv, MeantInv, UNCHANGED <<dbms, handler, by_id>> PROVE DbmsInv' /\ MeantInv'
<1>1. DbmsInv'
  BY DEF DbmsInv, SelectionHolds, Exists, dbms
<1>2. MeantInv'
  BY MeantUnchanged DEF dbms
<1>. QED
  BY <1>1, <1>2

LEMMA CrashInv ==
    ASSUME Inv, NEW c \in Clients, crash(c) PROVE Inv'
<1>1. /\ At(c, "use_string") /\ Dangles(handler[c].ref) /\ main' = "crashed"
      /\ UNCHANGED <<pool, telemetry, clock, requests, dbms, accesslog, g_stop>>
  BY DEF crash
<1>2. c \in InFlight /\ handler[c].pc = "use_string"
  BY <1>1, AtFacts DEF Inv
<1>3. handler[c].raced
  BY <1>1, <1>2 DEF Inv, HandlersInv, HandlerInv, InFlight
<1>4. TelemetryInv'
  BY <1>1, TelemetryUnchanged DEF Inv
<1>5. PoolInv' /\ HandlersInv' /\ InFlight' = InFlight
  BY <1>1, HandlersUnchanged DEF Inv, TelemetryInv, TelemetryTypeOK
<1>6. DbmsInv' /\ MeantInv'
  BY <1>1, DbmsUnchanged DEF Inv, requests, pool
<1>7. ProcessInv'
  BY <1>1, <1>2, <1>3, <1>5 DEF Inv, ProcessInv, requests
<1>8. GarbledInv' /\ LogInv'
  <2>1. log_open \in BOOLEAN /\ (log_open => LogPath) /\ (LogPath => log_open)
    BY <1>2 DEF Inv, LogInv, ProcessInv
  <2>. QED
    BY <1>1, <1>5, <2>1, LogUnchanged DEF Inv, requests, accesslog, telemetry
<1>. QED
  BY <1>4, <1>5, <1>6, <1>7, <1>8 DEF Inv

LEMMA ReportInv ==
    ASSUME Inv, report PROVE Inv'
<1>1. /\ main = "serving" /\ main' \in {"serving", "joining"} /\ snapshot
      /\ UNCHANGED <<pool, clock, requests, dbms, accesslog, g_stop>>
  BY DEF report, Main
<1>2. TelemetryInv' /\ total_requests' = total_requests
  BY <1>1, PruneInv DEF Inv, snapshot
<1>3. PoolInv' /\ HandlersInv' /\ InFlight' = InFlight
  BY <1>1, HandlersUnchanged DEF Inv, TelemetryInv, TelemetryTypeOK
<1>4. DbmsInv' /\ MeantInv'
  BY <1>1, DbmsUnchanged DEF Inv, requests, pool
<1>5. ProcessInv'
  BY <1>1 DEF Inv, ProcessInv
<1>6. GarbledInv' /\ LogInv'
  <2>1. log_open \in BOOLEAN /\ (log_open => LogPath) /\ (LogPath => log_open \/ main = "closed")
    BY DEF Inv, LogInv
  <2>. QED
    BY <1>1, <1>2, <1>3, <2>1, LogUnchanged DEF Inv, requests, accesslog
<1>. QED
  BY <1>2, <1>3, <1>4, <1>5, <1>6 DEF Inv

LEMMA OnSignalInv ==
    ASSUME Inv, on_signal PROVE Inv'
<1>1. /\ g_stop' = TRUE
      /\ UNCHANGED <<pool, telemetry, clock, requests, dbms, accesslog, main>>
  BY DEF on_signal
<1>2. TelemetryInv'
  BY <1>1, TelemetryUnchanged DEF Inv
<1>3. PoolInv' /\ HandlersInv' /\ InFlight' = InFlight
  BY <1>1, HandlersUnchanged DEF Inv, TelemetryInv, TelemetryTypeOK
<1>4. DbmsInv' /\ MeantInv'
  BY <1>1, DbmsUnchanged DEF Inv, requests, pool
<1>5. ProcessInv'
  BY <1>1, <1>3 DEF Inv, ProcessInv, requests
<1>6. GarbledInv' /\ LogInv'
  <2>1. log_open \in BOOLEAN /\ (log_open => LogPath) /\ (LogPath => log_open \/ main = "closed")
    BY DEF Inv, LogInv
  <2>. QED
    BY <1>1, <1>3, <2>1, LogUnchanged DEF Inv, requests, accesslog, telemetry
<1>. QED
  BY <1>2, <1>3, <1>4, <1>5, <1>6 DEF Inv

LEMMA StopInv ==
    ASSUME Inv, stop PROVE Inv'
<1>1. /\ main = "joining" /\ main' = "closed" /\ log_open' = FALSE
      /\ \A c \in Clients : handler[c] = Idle
      /\ UNCHANGED <<pool, telemetry, clock, requests, dbms, log, garbled, g_stop>>
  BY DEF stop, Main
<1>2. TelemetryInv'
  BY <1>1, TelemetryUnchanged DEF Inv
<1>3. PoolInv' /\ HandlersInv' /\ InFlight' = InFlight
  BY <1>1, HandlersUnchanged DEF Inv, TelemetryInv, TelemetryTypeOK
<1>4. DbmsInv' /\ MeantInv'
  BY <1>1, DbmsUnchanged DEF Inv, requests, pool
<1>5. ProcessInv'
  BY <1>1, <1>3 DEF Inv, ProcessInv, InFlight
<1>6. GarbledInv' /\ LogInv'
  BY <1>1, <1>3, LogUnchanged DEF Inv, requests, telemetry
<1>. QED
  BY <1>2, <1>3, <1>4, <1>5, <1>6 DEF Inv

LEMMA PassInv ==
    ASSUME Inv, pass PROVE Inv'
<1>1. tick /\ UNCHANGED <<pool, telemetry, requests, dbms, accesslog, process>>
  BY DEF pass
<1>2. TelemetryInv'
  BY <1>1, TickInv DEF Inv
<1>3. clock' \in Nat /\ clock <= clock'
  BY <1>1 DEF Inv, TelemetryInv, TelemetryTypeOK, tick
<1>4. PoolInv' /\ HandlersInv' /\ InFlight' = InFlight
  BY <1>1, <1>3, HandlersUnchanged
<1>5. DbmsInv' /\ MeantInv'
  BY <1>1, DbmsUnchanged DEF Inv, requests, pool
<1>6. ProcessInv'
  BY <1>1, <1>4 DEF Inv, ProcessInv, requests, process
<1>7. GarbledInv' /\ LogInv'
  <2>1. log_open \in BOOLEAN /\ (log_open => LogPath) /\ (LogPath => log_open \/ main = "closed")
    BY DEF Inv, LogInv
  <2>. QED
    BY <1>1, <1>4, <2>1, LogUnchanged DEF Inv, requests, accesslog, telemetry, process
<1>. QED
  BY <1>2, <1>4, <1>5, <1>6, <1>7 DEF Inv

LEMMA StutterInv ==
    ASSUME Inv, UNCHANGED vars PROVE Inv'
<1>1. UNCHANGED <<pool, telemetry, clock, requests, dbms, accesslog, process>>
  BY DEF vars
<1>2. TelemetryInv'
  BY <1>1, TelemetryUnchanged DEF Inv
<1>3. PoolInv' /\ HandlersInv' /\ InFlight' = InFlight
  BY <1>1, HandlersUnchanged DEF Inv, TelemetryInv, TelemetryTypeOK
<1>4. DbmsInv' /\ MeantInv'
  BY <1>1, DbmsUnchanged DEF Inv, requests, pool
<1>5. ProcessInv'
  BY <1>1, <1>3 DEF Inv, ProcessInv, requests, process
<1>6. GarbledInv' /\ LogInv'
  <2>1. log_open \in BOOLEAN /\ (log_open => LogPath) /\ (LogPath => log_open \/ main = "closed")
    BY DEF Inv, LogInv
  <2>. QED
    BY <1>1, <1>3, <2>1, LogUnchanged DEF Inv, requests, accesslog, telemetry, process
<1>. QED
  BY <1>2, <1>3, <1>4, <1>5, <1>6 DEF Inv

----------------------------------------------------------------------------
(* A request comes and is parsed *)

LEMMA QueryInv ==
    ASSUME Inv, NEW c \in Clients, NEW st \in Statements, query(c, st) PROVE Inv'
<1>. DEFINE g == Request(next_id + 1, st)
<1>1. /\ handler[c].pc = "idle" /\ main = "serving" /\ next_id' = next_id + 1
      /\ handler' = [handler EXCEPT ![c] = g]
      /\ garbled' = IF st \in NotUtf8 THEN garbled \cup {next_id + 1} ELSE garbled
      /\ UNCHANGED <<pool, telemetry, clock, dbms, log, log_open, process>>
  BY DEF query, At, Step
<1>2. /\ next_id \in Nat /\ buffer \in Nat /\ Len(by_id) \in Nat /\ clock \in Nat
      /\ total_requests \in Nat
  BY DEF Inv, LogInv, PoolInv, TelemetryInv, TelemetryTypeOK
<1>3. /\ g \in Requests' /\ g # Idle /\ g.pc = "parse" /\ g.id = kInvalid
      /\ g.rid = next_id + 1 /\ g.right = TRUE /\ g.stmt = st
  BY <1>1, <1>2, NewFacts
<1>. HIDE DEF g
<1>4. handler'[c] = g /\ \A d \in Clients \ {c} : handler'[d] = handler[d]
  BY <1>1 DEF Inv, HandlersInv
<1>5. c \notin InFlight
  <2>1. ASSUME c \in InFlight PROVE FALSE
    <3>1. handler[c] \in Requests
      BY <2>1 DEF Inv, HandlersInv, HandlerInv, InFlight
    <3>. QED
      BY <1>1, <3>1, RequestFacts DEF Stages
  <2>. QED
    BY <2>1
<1>6. InFlight' = InFlight \cup {c}
  BY <1>3, <1>4 DEF InFlight
<1>7. \A d \in InFlight : d # c /\ handler'[d] = handler[d] /\ handler[d].rid \in 1..next_id
  BY <1>4, <1>5, RequestFacts DEF Inv, HandlersInv, HandlerInv, InFlight
<1>8. Requests \subseteq Requests'
  BY <1>1, <1>2, RequestsGrow DEF pool
<1>9. HandlersInv'
  <2>1. ASSUME NEW d \in Clients PROVE HandlerInv(d)'
    <3>1. CASE d = c
      BY <1>3, <1>4, <3>1 DEF HandlerInv
    <3>2. CASE d # c
      <4>1. HandlerInv(d) /\ handler'[d] = handler[d]
        BY <1>4, <3>2 DEF Inv, HandlersInv
      <4>. QED
        BY <1>1, <1>8, <4>1 DEF HandlerInv, Dangles, pool
    <3>. QED
      BY <3>1, <3>2
  <2>2. DOMAIN handler' = Clients /\ handler' = [d \in Clients |-> handler'[d]]
    BY <1>1 DEF Inv, HandlersInv
  <2>3. ASSUME NEW x \in InFlight', NEW y \in InFlight', handler'[x].rid = handler'[y].rid
        PROVE  x = y
    <3>1. CASE x \in InFlight /\ y \in InFlight
      BY <1>7, <2>3, <3>1 DEF Inv, HandlersInv
    <3>2. ASSUME NEW z \in InFlight PROVE handler'[z].rid # handler'[c].rid
      <4>1. handler'[z].rid \in 1..next_id /\ handler'[c].rid = next_id + 1
        BY <1>3, <1>4, <1>7
      <4>. QED
        BY <1>2, <4>1
    <3>. QED
      BY <1>6, <2>3, <3>1, <3>2
  <2>. QED
    BY <2>1, <2>2, <2>3 DEF HandlersInv
<1>10. TelemetryInv' /\ PoolInv'
  BY <1>1, TelemetryUnchanged DEF Inv, PoolInv, Ids, pool
<1>11. DbmsInv' /\ MeantInv'
  <2>1. mutex # None => mutex # c
    BY <1>1 DEF Inv, DbmsInv
  <2>2. DbmsInv'
    BY <1>1, <1>4, <2>1 DEF Inv, DbmsInv, SelectionHolds, Exists, dbms, pool
  <2>. QED
    BY <1>1, <2>2, MeantUnchanged DEF Inv, dbms, pool
<1>12. ProcessInv'
  BY <1>1 DEF Inv, ProcessInv, process
<1>13. /\ handler'[c].rid = next_id + 1 /\ handler'[c].pc = "parse" /\ handler'[c].stmt = st
       /\ next_id + 1 \notin 1..next_id /\ 1..next_id' = 1..next_id \cup {next_id + 1}
  BY <1>1, <1>2, <1>3, <1>4
<1>14. GarbledInv'
  <2>1. garbled \subseteq 1..next_id
    BY DEF Inv, GarbledInv
  <2>2. garbled' \subseteq 1..next_id'
    BY <1>1, <1>13, <2>1
  <2>3. handler'[c].rid \in garbled' <=> handler'[c].stmt \in NotUtf8
    BY <1>1, <1>13, <2>1
  <2>4. ASSUME NEW d \in InFlight
        PROVE  /\ handler'[d].rid \in garbled' <=> handler'[d].stmt \in NotUtf8
               /\ LogPath /\ handler'[d].pc = "observe" => handler'[d].rid \notin garbled'
    <3>1. handler'[d] = handler[d] /\ handler[d].rid # next_id + 1
      BY <1>7, <1>13
    <3>2. handler[d].rid \in garbled' <=> handler[d].rid \in garbled
      BY <1>1, <3>1
    <3>. QED
      BY <3>1, <3>2 DEF Inv, GarbledInv
  <2>. QED
    BY <1>6, <1>13, <2>2, <2>3, <2>4 DEF GarbledInv
<1>15. LogInv'
  <2>1. garbled \subseteq 1..next_id /\ log \subseteq 1..next_id
    BY DEF Inv, GarbledInv, LogInv
  <2>2. Unlogged' = Unlogged \cup {next_id + 1}
    BY <1>6, <1>7, <1>13 DEF Unlogged
  <2>3. Answered' = Answered
    <3>1. {handler'[d].rid : d \in InFlight'} = {handler[d].rid : d \in InFlight} \cup {next_id + 1}
      BY <1>6, <1>7, <1>13
    <3>. QED
      BY <1>13, <3>1 DEF Answered
  <2>4. Answered' \ Unwritable' = Answered \ Unwritable
    BY <1>1, <1>13, <2>3 DEF Answered, Unwritable
  <2>5. (1..next_id') \ (Unlogged' \cup garbled') = (1..next_id) \ (Unlogged \cup garbled)
    BY <1>1, <1>13, <2>2
  <2>6. next_id' \in Nat /\ log' \subseteq 1..next_id'
    BY <1>1, <1>2, <1>13, <2>1
  <2>. QED
    BY <1>1, <2>4, <2>5, <2>6 DEF Inv, LogInv, telemetry, process
<1>. QED
  BY <1>9, <1>10, <1>11, <1>12, <1>14, <1>15 DEF Inv

\* intern: ids keep their strings, and only a new string moves the buffer.
LEMMA InternFacts ==
    ASSUME PoolInv, NEW s \in Strings, intern(s)
    PROVE  /\ PoolInv' /\ Len(by_id) <= Len(by_id')
           /\ \A i \in 1..Len(by_id) : by_id'[i] = by_id[i]
           /\ buffer <= buffer' /\ (IsInterned(s) => buffer' = buffer)
           /\ by_value'[s] \in 1..Len(by_id') /\ by_id'[by_value'[s]] = s
<1>1. CASE IsInterned(s)
  BY <1>1 DEF PoolInv, intern, IsInterned, pool, kInvalid, Ids
<1>2. CASE ~IsInterned(s)
  <2>. DEFINE n == Len(by_id) + 1
  <2>1. /\ by_id' = Append(by_id, s) /\ by_value' = [by_value EXCEPT ![s] = n]
        /\ \/ n = capacity /\ buffer' = buffer + 1 /\ capacity' = 2 * capacity
           \/ n # capacity /\ buffer' = buffer /\ capacity' = capacity
    BY <1>2 DEF intern, push_back
  <2>2. /\ by_id \in Seq(Strings) /\ by_value \in [Strings -> 0..Len(by_id)]
        /\ n \in Nat /\ buffer \in Nat /\ capacity \in Nat /\ n <= capacity
        /\ by_value[s] = 0
    BY <1>2 DEF PoolInv, IsInterned, kInvalid
  <2>3. /\ by_id' \in Seq(Strings) /\ Len(by_id') = n /\ by_id'[n] = s
        /\ \A i \in 1..Len(by_id) : by_id'[i] = by_id[i]
    BY <2>1, <2>2
  <2>4. by_value' \in [Strings -> 0..n] /\ by_value'[s] = n
    BY <2>1, <2>2
  <2>5. /\ buffer' \in Nat /\ capacity' \in Nat /\ n + 1 <= capacity' /\ buffer <= buffer'
    BY <2>1, <2>2
  <2>6. ASSUME NEW i \in 1..n PROVE by_value'[by_id'[i]] = i
    <3>1. CASE i = n
      BY <2>3, <2>4, <3>1
    <3>2. CASE i # n
      <4>1. i \in 1..Len(by_id)
        BY <2>2, <3>2
      <4>2. by_id'[i] = by_id[i] /\ by_id[i] \in Strings /\ by_value[by_id[i]] = i
        BY <2>2, <2>3, <4>1 DEF PoolInv, Ids
      <4>3. by_id[i] # s
        BY <2>2, <4>1, <4>2
      <4>. QED
        BY <2>1, <2>2, <4>2, <4>3
    <3>. QED
      BY <3>1, <3>2
  <2>7. ASSUME NEW t \in Strings, by_value'[t] # 0 PROVE by_id'[by_value'[t]] = t
    <3>1. CASE t = s
      BY <2>3, <2>4, <3>1
    <3>2. CASE t # s
      <4>1. by_value'[t] = by_value[t] /\ by_value[t] \in 1..Len(by_id)
        BY <2>1, <2>2, <2>7, <3>2
      <4>. QED
        BY <2>2, <2>3, <4>1, SMTT(30) DEF PoolInv, kInvalid
    <3>. QED
      BY <3>1, <3>2
  <2>. HIDE DEF n
  <2>8. PoolInv'
    BY <2>3, <2>4, <2>5, <2>6, <2>7 DEF PoolInv, Ids, kInvalid
  <2>. QED
    BY <1>2, <2>2, <2>3, <2>4, <2>5, <2>8 DEF n
<1>. QED
  BY <1>1, <1>2

\* What parsing makes of the request, but for the id of its literal.
LEMMA ParsedFacts ==
    ASSUME NEW h \in Requests, clock \in Nat,
           NEW g, g = IF h.stmt.kind \in {"bad", "empty"}
                      THEN Returned(h, h.stmt.kind = "empty")
                      ELSE [h EXCEPT !.pc = "execute"]
    PROVE  /\ g \in Requests /\ g.pc \in {"log", "execute"}
           /\ g.rid = h.rid /\ g.stmt = h.stmt /\ g.id = h.id /\ g.ref = h.ref
           /\ g.raced = h.raced /\ g.right = h.right
<1>1. CASE h.stmt.kind \in {"bad", "empty"}
  <2>1. PICK ok \in BOOLEAN : g = Returned(h, ok)
    BY <1>1
  <2>. QED
    BY <2>1, ReturnedFacts
<1>2. CASE ~(h.stmt.kind \in {"bad", "empty"})
  <2>1. g = [h EXCEPT !.pc = "execute"] /\ "execute" \in Stages
    BY <1>2 DEF Stages
  <2>. QED
    BY <2>1 DEF Requests, Stages
<1>. QED
  BY <1>1, <1>2

\* A literal: the pool may grow, and every handler that uses a string notes it.
LEMMA ParseLiteralInv ==
    ASSUME Inv, NEW c \in Clients, At(c, "parse"), NEW s \in Strings, intern(s),
           handler[c].stmt.str = s,
           NEW after \in Requests, after.pc \in {"log", "execute"},
           after.rid = handler[c].rid, after.stmt = handler[c].stmt,
           after.raced = handler[c].raced, after.right = handler[c].right,
           handler' = [d \in Clients |->
              IF d = c THEN [after EXCEPT !.id = InternedId(s)]
              ELSE IF At(d, "use_string") /\ ~IsInterned(s)
              THEN [handler[d] EXCEPT !.raced = TRUE]
              ELSE handler[d]],
           UNCHANGED <<telemetry, clock, next_id, dbms, accesslog, process>>
    PROVE  Inv'
<1>. DEFINE g == [after EXCEPT !.id = by_value'[s]]
<1>1. c \in InFlight /\ handler[c] \in Requests /\ main # "crashed" /\ handler[c].pc = "parse"
  BY AtFacts DEF Inv
<1>2. /\ PoolInv' /\ Len(by_id) <= Len(by_id')
      /\ \A i \in 1..Len(by_id) : by_id'[i] = by_id[i]
      /\ buffer <= buffer' /\ (IsInterned(s) => buffer' = buffer)
      /\ by_value'[s] \in 1..Len(by_id') /\ by_id'[by_value'[s]] = s
  BY InternFacts DEF Inv
<1>3. /\ Len(by_id) \in Nat /\ Len(by_id') \in Nat /\ buffer \in Nat /\ buffer' \in Nat
      /\ clock \in Nat /\ next_id \in Nat
  <2>1. Len(by_id) \in Nat /\ buffer \in Nat
    BY DEF Inv, PoolInv
  <2>2. Len(by_id') \in Nat /\ buffer' \in Nat
    BY <1>2 DEF PoolInv
  <2>. QED
    BY <2>1, <2>2 DEF Inv, LogInv, TelemetryInv, TelemetryTypeOK
<1>4. Requests \subseteq Requests'
  BY <1>2, <1>3, RequestsGrow
<1>5. /\ g \in Requests' /\ g # Idle /\ g.pc = after.pc /\ g.id = by_value'[s]
      /\ g.rid = after.rid /\ g.stmt = after.stmt /\ g.raced = after.raced
      /\ g.right = after.right
  <2>1. after \in Requests' /\ by_value'[s] \in 0..Len(by_id')
    BY <1>2, <1>3, <1>4
  <2>2. after.pc \in Stages /\ g.pc = after.pc
    BY RequestFacts DEF Requests
  <2>. QED
    BY <2>1, <2>2 DEF Requests, Idle, Stages
<1>6. handler'[c] = g
  BY DEF InternedId
<1>. HIDE DEF g
<1>7. ASSUME NEW d \in Clients \ {c}, handler[d] = Idle PROVE handler'[d] = Idle
  <2>1. ~At(d, "use_string")
    BY <1>7 DEF At, Idle
  <2>. QED
    BY <1>7, <2>1
<1>8. ASSUME NEW d \in InFlight \ {c}
      PROVE  /\ d \in Clients /\ handler'[d] \in Requests /\ handler'[d].pc = handler[d].pc
             /\ handler'[d].rid = handler[d].rid /\ handler'[d].stmt = handler[d].stmt
             /\ HandlerInv(d)'
  <2>1. d \in Clients /\ handler[d] # Idle /\ handler[d] \in Requests /\ HandlerInv(d)
    BY DEF Inv, HandlersInv, HandlerInv, InFlight
  <2>2. /\ handler'[d] \in Requests /\ handler'[d].pc = handler[d].pc
        /\ handler'[d].id = handler[d].id /\ handler'[d].rid = handler[d].rid
        /\ handler'[d].stmt = handler[d].stmt /\ handler'[d].ref = handler[d].ref
        /\ \/ handler'[d] = handler[d]
           \/ handler'[d].raced
    <3>1. CASE At(d, "use_string") /\ ~IsInterned(s)
      BY <2>1, <3>1, RacedFacts
    <3>2. CASE ~(At(d, "use_string") /\ ~IsInterned(s))
      BY <2>1, <3>2
    <3>. QED
      BY <3>1, <3>2
  <2>3. handler'[d].id # kInvalid => by_id'[handler'[d].id] = handler'[d].stmt.str
    <3>1. handler[d].id \in 0..Len(by_id)
      BY <2>1, RequestFacts
    <3>. QED
      BY <1>2, <1>3, <2>1, <2>2, <3>1 DEF HandlerInv, kInvalid
  <2>4. handler'[d].pc = "use_string" /\ Dangles(handler[d].ref)' => handler'[d].raced
    <3>1. CASE handler'[d].raced
      BY <3>1
    <3>2. CASE handler'[d] = handler[d] /\ ~handler'[d].raced
      <4>1. ASSUME handler'[d].pc = "use_string", Dangles(handler[d].ref)' PROVE FALSE
        <5>1. handler[d].pc = "use_string" /\ ~Dangles(handler[d].ref)
          BY <2>1, <3>2, <4>1 DEF HandlerInv
        <5>2. buffer' # buffer
          BY <3>2, <4>1, <5>1 DEF Dangles
        <5>3. ~IsInterned(s) /\ At(d, "use_string")
          BY <1>1, <1>2, <5>1, <5>2 DEF At
        <5>4. handler'[d] = [handler[d] EXCEPT !.raced = TRUE]
          BY <2>1, <5>3
        <5>5. handler'[d].raced
          BY <2>1, <5>4, RacedFacts
        <5>. QED
          BY <3>2, <5>5
      <4>. QED
        BY <4>1
    <3>. QED
      BY <2>2, <3>1, <3>2
  <2>5. ~handler'[d].right => handler'[d].raced
    BY <2>1, <2>2 DEF HandlerInv
  <2>. QED
    BY <1>4, <2>1, <2>2, <2>3, <2>4, <2>5 DEF HandlerInv
<1>9. InFlight' = InFlight
  BY <1>1, <1>5, <1>6, <1>7, <1>8, RequestFacts DEF InFlight
<1>10. /\ \A d \in InFlight : handler'[d].rid = handler[d].rid
       /\ \A d \in InFlight : handler'[d].stmt = handler[d].stmt
       /\ \A d \in InFlight : handler'[d].pc = "observe" <=> handler[d].pc = "observe"
  <2>1. /\ handler'[c].rid = handler[c].rid /\ handler'[c].pc # "observe"
        /\ handler'[c].stmt = handler[c].stmt
    BY <1>5, <1>6
  <2>2. \A d \in InFlight \ {c} : /\ handler'[d].rid = handler[d].rid
                                 /\ handler'[d].pc = handler[d].pc
                                 /\ handler'[d].stmt = handler[d].stmt
    BY <1>8
  <2>. QED
    BY <1>1, <2>1, <2>2
<1>11. HandlersInv'
  <2>1. HandlerInv(c)'
    <3>1. ~handler[c].right => handler[c].raced
      BY <1>1 DEF Inv, HandlersInv, HandlerInv, InFlight
    <3>. QED
      BY <1>2, <1>5, <1>6, <3>1 DEF HandlerInv
  <2>2. ASSUME NEW d \in Clients PROVE HandlerInv(d)'
    <3>1. CASE d = c
      BY <2>1, <3>1
    <3>2. CASE d # c /\ handler[d] = Idle
      BY <1>7, <3>2 DEF HandlerInv
    <3>3. CASE d # c /\ handler[d] # Idle
      BY <1>8, <3>3 DEF InFlight
    <3>. QED
      BY <3>1, <3>2, <3>3
  <2>3. \A x, y \in InFlight' : handler'[x].rid = handler'[y].rid => x = y
    BY <1>9, <1>10 DEF Inv, HandlersInv
  <2>4. DOMAIN handler' = Clients /\ handler' = [d \in Clients |-> handler'[d]]
    OBVIOUS
  <2>. QED
    BY <2>2, <2>3, <2>4 DEF HandlersInv
<1>12. DbmsInv'
  <2>1. rows' \in [Databases -> {None} \cup 0..Len(by_id')]
    <3>1. 0..Len(by_id) \subseteq 0..Len(by_id')
      BY <1>2, <1>3
    <3>. QED
      BY <3>1 DEF Inv, DbmsInv, dbms
  <2>2. ASSUME mutex # None PROVE handler'[mutex].pc = "use_string"
    <3>1. mutex \in Clients /\ handler[mutex].pc = "use_string"
      BY <2>2 DEF Inv, DbmsInv
    <3>2. mutex \in InFlight \ {c}
      BY <1>1, <3>1 DEF InFlight, Idle
    <3>. QED
      BY <1>8, <3>1, <3>2
  <2>3. SelectionHolds'
    BY DEF Inv, DbmsInv, SelectionHolds, Exists, dbms
  <2>. QED
    BY <2>1, <2>2, <2>3 DEF Inv, DbmsInv, dbms
<1>13. TelemetryInv'
  BY TelemetryUnchanged DEF Inv
<1>14. ProcessInv'
  BY <1>1, <1>9 DEF Inv, ProcessInv, process
<1>15. GarbledInv' /\ LogInv'
  <2>1. /\ \A d \in InFlight : /\ handler'[d].rid = handler[d].rid
                               /\ handler'[d].stmt = handler[d].stmt
                               /\ handler'[d].pc = "observe" <=> handler[d].pc = "observe"
        /\ total_requests' = total_requests /\ log' = log /\ garbled' = garbled
        /\ log_open' \in BOOLEAN /\ (log_open' => LogPath) /\ (LogPath => log_open' \/ main' = "closed")
    BY <1>10 DEF Inv, LogInv, accesslog, telemetry, process
  <2>. QED
    BY <1>9, <2>1, LogUnchanged DEF Inv
<1>16. MeantInv'
  <2>1. /\ meant' = meant /\ rows' = rows
        /\ meant \in [Databases -> Strings]
        /\ \A db \in Databases : rows[db] \in Ids => by_id[rows[db]] = meant[db]
    BY DEF Inv, MeantInv, dbms
  <2>2. ASSUME NEW db \in Databases, rows[db] \in 1..Len(by_id')
        PROVE  by_id'[rows[db]] = meant[db]
    <3>1. rows[db] \in 1..Len(by_id)
      BY <1>3, <2>2, Constants DEF Inv, DbmsInv
    <3>. QED
      BY <1>2, <2>1, <3>1 DEF Ids
  <2>. QED
    BY <2>1, <2>2 DEF MeantInv, Ids
<1>. QED
  BY <1>2, <1>11, <1>12, <1>13, <1>14, <1>15, <1>16 DEF Inv

LEMMA ParseInv ==
    ASSUME Inv, NEW c \in Clients, parse(c) PROVE Inv'
<1>. DEFINE h == handler[c]
            after == IF h.stmt.kind \in {"bad", "empty"}
                     THEN Returned(h, h.stmt.kind = "empty")
                     ELSE [h EXCEPT !.pc = "execute"]
<1>1. At(c, "parse") /\ UNCHANGED <<telemetry, clock, next_id, dbms, accesslog, process>>
  BY DEF parse
<1>2. c \in InFlight /\ h \in Requests /\ main # "crashed" /\ h.pc = "parse" /\ clock \in Nat
  BY <1>1, AtFacts DEF Inv, TelemetryInv, TelemetryTypeOK
<1>3. /\ after \in Requests /\ after.pc \in {"log", "execute"}
      /\ after.rid = h.rid /\ after.stmt = h.stmt /\ after.id = h.id
      /\ after.raced = h.raced /\ after.right = h.right
  BY <1>2, ParsedFacts
<1>4. CASE Literal(h.stmt)
  <2>1. /\ intern(h.stmt.str)
        /\ handler' = [d \in Clients |->
              IF d = c THEN [after EXCEPT !.id = InternedId(h.stmt.str)]
              ELSE IF At(d, "use_string") /\ ~IsInterned(h.stmt.str)
              THEN [handler[d] EXCEPT !.raced = TRUE]
              ELSE handler[d]]
    BY <1>4 DEF parse
  <2>2. h.stmt \in Statements
    BY <1>2, RequestFacts
  <2>3. h.stmt.str \in Strings
    BY <1>4, <2>2, StatementFacts
  <2>. HIDE DEF after
  <2>. QED
    BY <1>1, <1>3, <2>1, <2>3, ParseLiteralInv
<1>5. CASE ~Literal(h.stmt)
  <2>1. UNCHANGED pool /\ handler' = [handler EXCEPT ![c] = after]
    BY <1>5 DEF parse, Step
  <2>2. ~after.right => after.raced
    BY <1>2, <1>3 DEF Inv, HandlersInv, HandlerInv, InFlight
  <2>. HIDE DEF after
  <2>3. /\ TelemetryInv' /\ PoolInv' /\ HandlersInv' /\ ProcessInv' /\ GarbledInv' /\ LogInv'
        /\ \A d \in Clients \ {c} : handler'[d] = handler[d]
    BY <1>1, <1>2, <1>3, <2>1, <2>2, RunStep
  <2>4. DbmsInv'
    <3>1. mutex # None => mutex \in Clients \ {c} /\ handler[mutex].pc = "use_string"
      BY <1>2 DEF Inv, DbmsInv
    <3>. QED
      BY <1>1, <2>1, <2>3, <3>1 DEF Inv, DbmsInv, SelectionHolds, Exists, dbms, pool
  <2>5. MeantInv'
    BY <1>1, <2>1, MeantUnchanged DEF Inv, dbms, pool
  <2>. QED
    BY <2>3, <2>4, <2>5 DEF Inv
<1>. QED
  BY <1>4, <1>5

----------------------------------------------------------------------------
(* The string is used, the request logged and answered *)

LEMMA UseStringInv ==
    ASSUME Inv, NEW c \in Clients, use_string(c) PROVE Inv'
<1>1. /\ At(c, "use_string") /\ mutex' = None
      /\ UNCHANGED <<pool, telemetry, clock, next_id, accesslog, process>>
      /\ UNCHANGED <<rows, active, chosen, meant>>
  BY DEF use_string
<1>2. PICK right \in {TRUE} \cup {~Dangles(handler[c].ref)} :
        Step(c, Returned([handler[c] EXCEPT !.right = right], TRUE))
  BY DEF use_string
<1>. DEFINE r == [handler[c] EXCEPT !.right = right]
            g == Returned(r, TRUE)
<1>3. /\ c \in InFlight /\ handler[c] \in Requests /\ main # "crashed" /\ clock \in Nat
      /\ handler[c].pc = "use_string"
  BY <1>1, AtFacts DEF Inv, TelemetryInv, TelemetryTypeOK
<1>4. right \in BOOLEAN
  BY <1>2 DEF Dangles
<1>5. ~right => handler[c].raced
  BY <1>2, <1>3 DEF Inv, HandlersInv, HandlerInv, InFlight
<1>6. /\ r \in Requests /\ r.rid = handler[c].rid /\ r.stmt = handler[c].stmt
      /\ r.id = handler[c].id /\ r.raced = handler[c].raced /\ r.right = right
  BY <1>3, <1>4, RightFacts
<1>7. handler' = [handler EXCEPT ![c] = g]
  BY <1>2 DEF Step
<1>. HIDE DEF r
<1>8. /\ g \in Requests /\ g.pc = "log" /\ g.rid = handler[c].rid
      /\ g.stmt = handler[c].stmt /\ g.id = handler[c].id
      /\ g.raced = handler[c].raced /\ g.right = right
  BY <1>3, <1>6, ReturnedFacts, TRUE \in BOOLEAN
<1>9. ~g.right => g.raced
  BY <1>5, <1>8
<1>. HIDE DEF g
<1>10. TelemetryInv' /\ PoolInv' /\ HandlersInv' /\ ProcessInv' /\ GarbledInv' /\ LogInv'
  BY <1>1, <1>3, <1>7, <1>8, <1>9, RunStep
<1>11. DbmsInv' /\ MeantInv'
  <2>1. DbmsInv'
    BY <1>1 DEF Inv, DbmsInv, SelectionHolds, Exists, pool
  <2>. QED
    BY <1>1, <2>1, MeantUnchanged DEF Inv, pool
<1>. QED
  BY <1>10, <1>11 DEF Inv

LEMMA LogRequestInv ==
    ASSUME Inv, NEW c \in Clients, log_request(c) PROVE Inv'
<1>. DEFINE g == [handler[c] EXCEPT !.pc = "observe"]
            rid == handler[c].rid
<1>1. /\ At(c, "log") /\ handler' = [handler EXCEPT ![c] = g]
      /\ log' = IF log_open THEN log \cup {rid} ELSE log
      /\ log_open => handler[c].stmt \notin NotUtf8
      /\ UNCHANGED <<pool, telemetry, clock, next_id, dbms, log_open, garbled, process>>
  BY DEF log_request, Step
<1>2. c \in InFlight /\ handler[c] \in Requests /\ main # "crashed" /\ handler[c].pc = "log"
  BY <1>1, AtFacts DEF Inv
<1>3. /\ g \in Requests /\ g.pc = "observe" /\ g.rid = rid
      /\ g.stmt = handler[c].stmt /\ g.id = handler[c].id
      /\ g.raced = handler[c].raced /\ g.right = handler[c].right
  BY <1>2, StageFacts DEF Stages
<1>4. ~g.right => g.raced
  BY <1>2, <1>3 DEF Inv, HandlersInv, HandlerInv, InFlight
<1>. HIDE DEF g
<1>5. /\ HandlersInv' /\ InFlight' = InFlight
      /\ handler'[c] = g /\ \A d \in Clients \ {c} : handler'[d] = handler[d]
  BY <1>1, <1>2, <1>3, <1>4, HandlersStep DEF Inv
<1>6. TelemetryInv' /\ PoolInv'
  BY <1>1, TelemetryUnchanged DEF Inv, PoolInv, Ids, pool
<1>7. DbmsInv' /\ MeantInv'
  <2>1. mutex # None => mutex \in Clients \ {c} /\ handler[mutex].pc = "use_string"
    BY <1>2 DEF Inv, DbmsInv
  <2>2. DbmsInv'
    BY <1>1, <1>5, <2>1 DEF Inv, DbmsInv, SelectionHolds, Exists, dbms, pool
  <2>. QED
    BY <1>1, <2>2, MeantUnchanged DEF Inv, dbms, pool
<1>8. ProcessInv'
  BY <1>1, <1>2, <1>5 DEF Inv, ProcessInv, process
<1>9. /\ LogPath => log_open /\ rid \notin garbled
      /\ handler'[c].rid = rid /\ handler'[c].stmt = handler[c].stmt
      /\ \A d \in InFlight \ {c} : handler'[d] = handler[d]
  <2>1. LogPath => log_open
    BY <1>2 DEF Inv, LogInv, ProcessInv
  <2>2. rid \in garbled <=> handler[c].stmt \in NotUtf8
    BY <1>2 DEF Inv, GarbledInv
  <2>3. \A d \in InFlight \ {c} : handler'[d] = handler[d]
    BY <1>5 DEF InFlight
  <2>. HIDE DEF rid
  <2>. QED
    BY <1>1, <1>3, <1>5, <2>1, <2>2, <2>3
<1>10. GarbledInv'
  <2>. HIDE DEF rid
  <2>1. ASSUME NEW d \in InFlight
        PROVE  /\ handler'[d].rid \in garbled <=> handler'[d].stmt \in NotUtf8
               /\ LogPath /\ handler'[d].pc = "observe" => handler'[d].rid \notin garbled
    <3>1. CASE d = c
      BY <1>2, <1>9, <3>1 DEF Inv, GarbledInv, rid
    <3>2. CASE d # c
      BY <1>9, <3>2 DEF Inv, GarbledInv
    <3>. QED
      BY <3>1, <3>2
  <2>. QED
    BY <1>1, <1>5, <2>1 DEF Inv, GarbledInv
<1>11. LogInv'
  <2>1. rid \in 1..next_id
    BY <1>2, RequestFacts
  <2>2. /\ \A d \in InFlight \ {c} : handler'[d] = handler[d] /\ handler[d].rid # rid
        /\ handler'[c].pc = "observe"
    BY <1>2, <1>3, <1>5 DEF Inv, HandlersInv, InFlight
  <2>3. Unlogged' = Unlogged \ {rid}
    BY <1>2, <1>5, <2>2 DEF Unlogged
  <2>. HIDE DEF rid
  <2>4. log' \subseteq 1..next_id
    BY <1>1, <2>1 DEF Inv, LogInv
  <2>5. LogPath => log' = (1..next_id) \ (Unlogged' \cup garbled')
    BY <1>1, <1>9, <2>1, <2>3 DEF Inv, LogInv
  <2>6. Answered' = Answered
    <3>1. \A d \in InFlight : handler'[d].rid = handler[d].rid
      BY <1>9 DEF rid
    <3>. QED
      BY <1>1, <1>5, <3>1 DEF Answered
  <2>7. Unwritable' = Unwritable
    BY <1>1 DEF Unwritable
  <2>. QED
    BY <1>1, <1>9, <2>4, <2>5, <2>6, <2>7 DEF Inv, LogInv, telemetry, process
<1>. QED
  BY <1>5, <1>6, <1>7, <1>8, <1>10, <1>11 DEF Inv

\* A handler is done with its request: what does not depend on how.
LEMMA DoneStep ==
    ASSUME Inv, NEW c \in InFlight, main # "crashed", handler[c].pc # "use_string",
           handler' = [handler EXCEPT ![c] = Idle],
           UNCHANGED <<pool, clock, next_id, dbms, accesslog, process>>
    PROVE  /\ PoolInv' /\ HandlersInv' /\ DbmsInv' /\ MeantInv' /\ ProcessInv' /\ GarbledInv'
           /\ InFlight' = InFlight \ {c}
           /\ \A d \in InFlight' : handler'[d] = handler[d]
           /\ handler[c].rid \in 1..next_id /\ handler[c].rid \notin Answered
           /\ Answered' = Answered \cup {handler[c].rid}
<1>0. c \in Clients /\ handler[c] \in Requests
  BY DEF Inv, HandlersInv, HandlerInv, InFlight
<1>1. PoolInv'
  BY DEF Inv, PoolInv, Ids, pool
<1>2. handler'[c] = Idle /\ \A d \in Clients \ {c} : handler'[d] = handler[d]
  BY <1>0 DEF Inv, HandlersInv
<1>3. InFlight' = InFlight \ {c} /\ \A d \in InFlight' : handler'[d] = handler[d]
  BY <1>2 DEF InFlight
<1>4. HandlersInv'
  <2>1. Requests' = Requests
    BY DEF Requests, pool
  <2>2. ASSUME NEW d \in Clients PROVE HandlerInv(d)'
    <3>1. CASE d = c
      BY <1>2, <3>1 DEF HandlerInv
    <3>2. CASE d # c
      <4>1. HandlerInv(d) /\ handler'[d] = handler[d]
        BY <1>2, <3>2 DEF Inv, HandlersInv
      <4>. QED
        BY <2>1, <4>1 DEF HandlerInv, Dangles, pool
    <3>. QED
      BY <3>1, <3>2
  <2>3. DOMAIN handler' = Clients /\ handler' = [d \in Clients |-> handler'[d]]
    BY DEF Inv, HandlersInv
  <2>4. \A x, y \in InFlight' : handler'[x].rid = handler'[y].rid => x = y
    BY <1>3 DEF Inv, HandlersInv
  <2>. QED
    BY <2>2, <2>3, <2>4 DEF HandlersInv
<1>5. DbmsInv'
  <2>1. mutex # None => mutex \in Clients \ {c} /\ handler[mutex].pc = "use_string"
    BY DEF Inv, DbmsInv
  <2>. QED
    BY <1>2, <2>1 DEF Inv, DbmsInv, SelectionHolds, Exists, dbms, pool
<1>6. MeantInv'
  BY MeantUnchanged DEF Inv, dbms, pool
<1>7. ProcessInv'
  BY <1>3 DEF Inv, ProcessInv, process
<1>8. GarbledInv'
  <2>1. InFlight' \subseteq InFlight /\ garbled' = garbled /\ next_id' = next_id
    BY <1>3 DEF accesslog
  <2>. QED
    BY <1>3, <2>1 DEF Inv, GarbledInv
<1>9. handler[c].rid \in 1..next_id
  BY <1>0, RequestFacts
<1>10. {handler'[d].rid : d \in InFlight'} = {handler[d].rid : d \in InFlight} \ {handler[c].rid}
  <2>1. \A d \in InFlight : handler[d].rid = handler[c].rid => d = c
    BY DEF Inv, HandlersInv
  <2>. QED
    BY <1>3, <2>1
<1>11. handler[c].rid \notin Answered /\ Answered' = Answered \cup {handler[c].rid}
  BY <1>9, <1>10 DEF Answered
<1>. QED
  BY <1>1, <1>3, <1>4, <1>5, <1>6, <1>7, <1>8, <1>9, <1>11

\* The log refuses the entry: the request is answered and not counted.
LEMMA LogRequestThrowsInv ==
    ASSUME Inv, NEW c \in Clients, log_request_throws(c) PROVE Inv'
<1>1. /\ At(c, "log") /\ log_open /\ handler[c].stmt \in NotUtf8
      /\ handler' = [handler EXCEPT ![c] = Idle]
      /\ UNCHANGED <<pool, telemetry, clock, next_id, dbms, accesslog, process>>
  BY DEF log_request_throws, Step
<1>2. c \in InFlight /\ main # "crashed" /\ handler[c].pc = "log"
  BY <1>1, AtFacts DEF Inv
<1>. DEFINE rid == handler[c].rid
<1>3. /\ PoolInv' /\ HandlersInv' /\ DbmsInv' /\ MeantInv' /\ ProcessInv' /\ GarbledInv'
      /\ InFlight' = InFlight \ {c} /\ \A d \in InFlight' : handler'[d] = handler[d]
      /\ rid \in 1..next_id /\ rid \notin Answered /\ Answered' = Answered \cup {rid}
  BY <1>1, <1>2, DoneStep
<1>4. TelemetryInv'
  BY <1>1, TelemetryUnchanged DEF Inv
<1>5. rid \in garbled
  BY <1>1, <1>2 DEF Inv, GarbledInv
<1>6. LogInv'
  <2>1. Unlogged = Unlogged' \cup {rid}
    BY <1>2, <1>3 DEF Unlogged
  <2>. HIDE DEF rid
  <2>2. Unlogged' \cup garbled' = Unlogged \cup garbled
    BY <1>1, <1>5, <2>1 DEF accesslog
  <2>3. Answered' \ Unwritable' = Answered \ Unwritable
    <3>1. LogPath
      BY <1>1 DEF Inv, LogInv
    <3>. QED
      BY <1>1, <1>3, <1>5, <3>1 DEF Unwritable, accesslog
  <2>. QED
    BY <1>1, <2>2, <2>3 DEF Inv, LogInv, accesslog, telemetry, process
<1>. QED
  BY <1>3, <1>4, <1>6 DEF Inv

LEMMA RespondInv ==
    ASSUME Inv, NEW c \in Clients, respond(c) PROVE Inv'
<1>1. /\ At(c, "observe") /\ handler' = [handler EXCEPT ![c] = Idle]
      /\ observe(handler[c].finished, handler[c].ok)
      /\ UNCHANGED <<pool, clock, next_id, dbms, accesslog, process>>
  BY DEF respond, Step
<1>2. c \in InFlight /\ handler[c] \in Requests /\ main # "crashed" /\ handler[c].pc = "observe"
  BY <1>1, AtFacts DEF Inv
<1>3. c \in Clients /\ handler[c].finished \in 0..clock /\ handler[c].ok \in BOOLEAN
  BY <1>2, RequestFacts
<1>4. TelemetryInv'
  BY <1>1, <1>3, ObserveInv DEF Inv
<1>5. total_requests \in Nat /\ total_requests' = total_requests + 1
  BY <1>1 DEF Inv, TelemetryInv, TelemetryTypeOK, observe
<1>. DEFINE rid == handler[c].rid
<1>6. /\ PoolInv' /\ HandlersInv' /\ DbmsInv' /\ MeantInv' /\ ProcessInv' /\ GarbledInv'
      /\ InFlight' = InFlight \ {c} /\ \A d \in InFlight' : handler'[d] = handler[d]
      /\ rid \in 1..next_id /\ rid \notin Answered /\ Answered' = Answered \cup {rid}
  BY <1>1, <1>2, DoneStep
<1>7. LogInv'
  <2>1. Unlogged' = Unlogged
    BY <1>2, <1>6 DEF Unlogged
  <2>2. rid \notin Unwritable
    BY <1>2 DEF Inv, GarbledInv, Unwritable
  <2>. DEFINE Counted == Answered \ Unwritable
  <2>. HIDE DEF rid
  <2>3. Answered' \ Unwritable' = Counted \cup {rid} /\ rid \notin Counted
    BY <1>1, <1>6, <2>2 DEF Unwritable, accesslog
  <2>4. IsFiniteSet(Counted)
    <3>1. IsFiniteSet(1..next_id)
      BY FS_Interval DEF Inv, LogInv
    <3>. QED
      BY <3>1, FS_Subset, Counted \subseteq 1..next_id DEF Answered
  <2>5. Cardinality(Counted \cup {rid}) = Cardinality(Counted) + 1
    <3>. HIDE DEF Counted
    <3>. QED
      BY <2>3, <2>4, FS_AddElement
  <2>6. total_requests' = Cardinality(Answered' \ Unwritable')
    BY <1>5, <2>3, <2>5 DEF Inv, LogInv
  <2>. QED
    BY <1>1, <2>1, <2>6 DEF Inv, LogInv, accesslog, process
<1>. QED
  BY <1>4, <1>6, <1>7 DEF Inv

----------------------------------------------------------------------------
(* What the server guarantees *)

LEMMA InvStep == Inv /\ [Next]_vars => Inv'
<1>. SUFFICES ASSUME Inv, [Next]_vars PROVE Inv'
  OBVIOUS
<1>1. ASSUME NEW c \in Clients, NEW st \in Statements, query(c, st) PROVE Inv'
  BY <1>1, QueryInv
<1>2. ASSUME NEW c \in Clients, Handle(c) PROVE Inv'
  BY <1>2, ParseInv, ExecuteInv, UseStringInv, LogRequestInv, LogRequestThrowsInv, RespondInv
     DEF Handle
<1>3. ASSUME NEW c \in Clients, crash(c) PROVE Inv'
  BY <1>3, CrashInv
<1>4. CASE MainThread
  BY <1>4, ReportInv, StopInv DEF MainThread
<1>5. CASE on_signal \/ pass \/ UNCHANGED vars
  BY <1>5, OnSignalInv, PassInv, StutterInv
<1>. QED
  BY <1>1, <1>2, <1>3, <1>4, <1>5 DEF Next

LEMMA InvHolds == Spec => []Inv
BY InitInv, InvStep, PTL DEF Spec

\* Every record, counter and reference keeps its type, whatever handlers run
\* at the same time: in particular an error is always a request, and only a
\* handler that is inside execute holds the mutex of the Dbms.
THEOREM TypesHold == Spec => []TypeOK
<1>1. Inv => TypeOK
  BY DEF Inv, TypeOK, PoolInv, PoolTypeOK, TelemetryInv, HandlersInv, HandlerInv,
         DbmsInv, MeantInv, ProcessInv, GarbledInv, LogInv
<1>. QED
  BY <1>1, InvHolds, PTL

\* The selected database exists, and it is the one that a client selected
\* with USE until another client selects another one or drops it.
THEOREM SelectionIsKept == Spec => []SelectionHolds
<1>1. Inv => SelectionHolds
  BY DEF Inv, DbmsInv
<1>. QED
  BY <1>1, InvHolds, PTL

\* However many handlers parse at the same time, the id in a parsed statement and
\* the one it leaves in a row denote its literal, and ids that statements and rows
\* hold are equal exactly when the strings are.
THEOREM IdsDenote == Spec => []IdsDenoteStrings
<1>1. Inv => IdsDenoteStrings
  <2>. SUFFICES ASSUME Inv PROVE IdsDenoteStrings
    OBVIOUS
  <2>1. ASSUME NEW h \in Held
        PROVE  h[1] \in Ids /\ by_id[h[1]] = h[2] /\ by_value[h[2]] = h[1]
    <3>1. CASE \E c \in InFlight : handler[c].id # kInvalid /\ h = <<handler[c].id, handler[c].stmt.str>>
      <4>1. PICK c \in InFlight : handler[c].id # kInvalid /\ h = <<handler[c].id, handler[c].stmt.str>>
        BY <3>1
      <4>2. handler[c] # Idle /\ handler[c] \in Requests /\ HandlerInv(c)
        BY DEF Inv, HandlersInv, HandlerInv, InFlight
      <4>3. handler[c].id \in 0..Len(by_id) /\ Len(by_id) \in Nat
        BY <4>2, RequestFacts DEF Inv, PoolInv
      <4>4. handler[c].id \in Ids /\ by_id[handler[c].id] = handler[c].stmt.str
        BY <4>1, <4>2, <4>3 DEF HandlerInv, Ids, kInvalid
      <4>. QED
        BY <4>1, <4>4 DEF Inv, PoolInv
    <3>2. CASE \E db \in Databases : /\ Exists(db) /\ rows[db] # kInvalid
                                    /\ h = <<rows[db], meant[db]>>
      <4>1. PICK db \in Databases : /\ Exists(db) /\ rows[db] # kInvalid
                                    /\ h = <<rows[db], meant[db]>>
        BY <3>2
      <4>2. rows[db] \in 0..Len(by_id) /\ Len(by_id) \in Nat
        BY <4>1 DEF Inv, DbmsInv, PoolInv, Exists
      <4>3. rows[db] \in Ids
        BY <4>1, <4>2 DEF Ids, kInvalid
      <4>4. by_id[rows[db]] = meant[db]
        BY <4>3 DEF Inv, MeantInv
      <4>. QED
        BY <4>1, <4>3, <4>4 DEF Inv, PoolInv
    <3>. QED
      BY <3>1, <3>2 DEF Held
  <2>. QED
    BY <2>1 DEF IdsDenoteStrings
<1>. QED
  BY <1>1, InvHolds, PTL

\* A statement reads the strings that it means to read, and the process does
\* not crash, unless a handler interned a new string while a reference from
\* StringPool::get was in use.
THEOREM AnswersAreRight == Spec => []AnswersRight
<1>1. Inv => AnswersRight
  BY DEF Inv, HandlersInv, HandlerInv, ProcessInv, AnswersRight, InFlight
<1>. QED
  BY <1>1, InvHolds, PTL

\* The metrics have counted every answered request, and the access log has every
\* request as soon as its handler has logged it, but for those that are not UTF-8
\* while there is a log, which are in neither; the log is closed after the last.
THEOREM AllAreAccounted == Spec => []AllAccounted
<1>1. Inv => AllAccounted
  BY DEF Inv, LogInv, ProcessInv, AllAccounted, Unlogged
<1>. QED
  BY <1>1, InvHolds, PTL

\* Telemetry::snapshot reports the events of its windows exactly, although
\* handlers enter events out of order and pruning looks at the front only.
THEOREM SnapshotsAreExact == Spec => []SnapshotExact
<1>1. Inv => SnapshotExact
  BY SnapshotIsExact DEF Inv
<1>. QED
  BY <1>1, InvHolds, PTL
=============================================================================
