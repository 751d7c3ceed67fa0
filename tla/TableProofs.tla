---------------------------- MODULE TableProofs ----------------------------
(***************************************************************************)
(* What Table guarantees for every schema, every set of values and rows,   *)
(* every number of records and every number of failed calls.               *)
(***************************************************************************)
EXTENDS Table, TLAPS

\* The conjuncts of NoNulls, for one set of records.
Filled(recs) == \A c \in Indexed \cup NotNull : \A id \in DOMAIN recs : recs[id][c] # Null

----------------------------------------------------------------------------
(* Columns and maps *)

LEMMA ColumnFacts ==
    /\ Indexed \subseteq Columns
    /\ \A c \in Indexed : c \in Int /\ c < NoColumn /\ c # NoColumn
    /\ NoColumn \in Int /\ NoColumn \notin Indexed
BY TableAssumption DEF TableAssumption, Columns, NoColumn

LEMMA PutFacts ==
    ASSUME NEW m, NEW k, NEW v
    PROVE  /\ DOMAIN Put(m, k, v) = DOMAIN m \cup {k}
           /\ Put(m, k, v)[k] = v
           /\ \A x \in DOMAIN m : x # k => Put(m, k, v)[x] = m[x]
BY DEF Put

LEMMA DropFacts ==
    ASSUME NEW m, NEW k
    PROVE  /\ DOMAIN Drop(m, k) = DOMAIN m \ {k}
           /\ \A x \in DOMAIN m \ {k} : Drop(m, k)[x] = m[x]
BY DEF Drop

LEMMA MapTypes ==
    ASSUME NEW K, NEW V, NEW m, DOMAIN m \subseteq K, m \in [DOMAIN m -> V],
           NEW k, NEW v \in V
    PROVE  /\ k \in K => /\ DOMAIN Put(m, k, v) \subseteq K
                         /\ Put(m, k, v) \in [DOMAIN Put(m, k, v) -> V]
           /\ DOMAIN Drop(m, k) \subseteq K
           /\ Drop(m, k) \in [DOMAIN Drop(m, k) -> V]
BY DEF Put, Drop

\* A row that enforce_constraints accepts is a complete, well-typed record.
LEMMA Accepted ==
    ASSUME NEW r \in [Columns -> Values \cup {Null, WrongType}], NEW self,
           enforce_constraints(r, self)
    PROVE  /\ r \in [Columns -> Values \cup {Null}]
           /\ \A c \in Indexed \cup NotNull : r[c] # Null
           /\ \A c \in Indexed : r[c] \in Values
BY TableAssumption DEF enforce_constraints, TableAssumption

LEMMA RowTypes ==
    ASSUME NEW row \in Rows, NEW r \in [Columns -> Values \cup {Null}]
    PROVE  /\ materialize(row) \in [Columns -> Values \cup {Null, WrongType}]
           /\ Updated(r, row) \in [Columns -> Values \cup {Null, WrongType}]
BY TableAssumption DEF TableAssumption, materialize, Updated

----------------------------------------------------------------------------
(* Indexes *)

\* What an index holds after install_into_indexes, column by column.
LEMMA InstallColumn ==
    ASSUME NEW m, NEW id, NEW r, NEW f
    PROVE  LET n == install_into_indexes(m, id, r, f)
           IN  /\ n = [c \in DOMAIN n |-> n[c]] /\ DOMAIN n \subseteq DOMAIN m
               /\ \A c \in DOMAIN n :
                    n[c] = m[c] \/ (r[c] # Null /\ n[c] = Put(m[c], r[c], id))
BY DEF install_into_indexes

LEMMA InstallEntries ==
    ASSUME NEW m, NEW id, NEW r, NEW f,
           NEW c \in DOMAIN install_into_indexes(m, id, r, f),
           NEW k \in DOMAIN install_into_indexes(m, id, r, f)[c]
    PROVE  LET n == install_into_indexes(m, id, r, f)[c]
           IN  /\ c \in DOMAIN m
               /\ (k = r[c] /\ n[k] = id) \/ (k \in DOMAIN m[c] /\ n[k] = m[c][k])
<1>. DEFINE n == install_into_indexes(m, id, r, f)[c]
            p == Put(m[c], r[c], id)
<1>1. c \in DOMAIN m /\ (n = m[c] \/ n = p)
  BY InstallColumn
<1>2. \A x \in DOMAIN p : (x = r[c] /\ p[x] = id) \/ (x \in DOMAIN m[c] /\ p[x] = m[c][x])
  BY DEF Put
<1>. QED  BY <1>1, <1>2

LEMMA InstallType ==
    ASSUME NEW m, IndexType(m), NEW id \in RecordIds, NEW r, NEW f,
           \A c \in Indexed : r[c] # Null /\ r[c] \in Values
    PROVE  IndexType(install_into_indexes(m, id, r, f))
<1>. DEFINE n == install_into_indexes(m, id, r, f)
<1>1. /\ n = [c \in DOMAIN n |-> n[c]] /\ DOMAIN n \subseteq DOMAIN m
      /\ \A c \in DOMAIN n : n[c] = m[c] \/ n[c] = Put(m[c], r[c], id)
  BY InstallColumn
<1>2. DOMAIN m \subseteq Indexed
  BY DEF IndexType
<1>3. ASSUME NEW c \in DOMAIN n
      PROVE  DOMAIN n[c] \subseteq Values /\ n[c] \in [DOMAIN n[c] -> RecordIds]
  <2>1. DOMAIN m[c] \subseteq Values /\ m[c] \in [DOMAIN m[c] -> RecordIds]
    BY <1>1 DEF IndexType
  <2>2. /\ DOMAIN Put(m[c], r[c], id) \subseteq Values
        /\ Put(m[c], r[c], id) \in [DOMAIN Put(m[c], r[c], id) -> RecordIds]
    BY <1>1, <1>2, <2>1, MapTypes
  <2>3. n[c] = m[c] \/ n[c] = Put(m[c], r[c], id)
    BY <1>1
  <2>. HIDE DEF n
  <2>. QED  BY <2>1, <2>2, <2>3
<1>. HIDE DEF n
<1>4. IndexType(n)
  BY <1>1, <1>2, <1>3 DEF IndexType
<1>. QED  BY <1>4 DEF n

LEMMA InstallAll ==
    ASSUME NEW m, NEW id, NEW r, DOMAIN m = Indexed, CanInstall(m, r, NoColumn),
           \A c \in Indexed : r[c] # Null
    PROVE  /\ DOMAIN install_into_indexes(m, id, r, NoColumn) = Indexed
           /\ \A c \in Indexed :
                /\ r[c] \notin DOMAIN m[c]
                /\ install_into_indexes(m, id, r, NoColumn)[c] = Put(m[c], r[c], id)
BY ColumnFacts DEF CanInstall, Refused, install_into_indexes

LEMMA RemoveColumn ==
    ASSUME NEW m, NEW r, NEW f
    PROVE  LET n == remove_from_indexes(m, r, f)
           IN  /\ n = [c \in DOMAIN n |-> n[c]] /\ DOMAIN n \subseteq DOMAIN m
               /\ \A c \in DOMAIN n : n[c] = m[c] \/ n[c] = Drop(m[c], r[c])
BY DEF remove_from_indexes

LEMMA RemoveEntries ==
    ASSUME NEW m, NEW r, NEW f,
           NEW c \in DOMAIN remove_from_indexes(m, r, f),
           NEW k \in DOMAIN remove_from_indexes(m, r, f)[c]
    PROVE  /\ c \in DOMAIN m /\ k \in DOMAIN m[c]
           /\ remove_from_indexes(m, r, f)[c][k] = m[c][k]
<1>. DEFINE n == remove_from_indexes(m, r, f)[c]
<1>1. c \in DOMAIN m /\ (n = m[c] \/ n = Drop(m[c], r[c]))
  BY RemoveColumn
<1>2. \A x \in DOMAIN Drop(m[c], r[c]) : x \in DOMAIN m[c] /\ Drop(m[c], r[c])[x] = m[c][x]
  BY DEF Drop
<1>. QED  BY <1>1, <1>2

LEMMA RemoveType ==
    ASSUME NEW m, IndexType(m), NEW r, NEW f
    PROVE  IndexType(remove_from_indexes(m, r, f))
<1>. DEFINE n == remove_from_indexes(m, r, f)
<1>1. /\ n = [c \in DOMAIN n |-> n[c]] /\ DOMAIN n \subseteq DOMAIN m
      /\ \A c \in DOMAIN n : n[c] = m[c] \/ n[c] = Drop(m[c], r[c])
  BY RemoveColumn
<1>2. ASSUME NEW c \in DOMAIN n
      PROVE  DOMAIN n[c] \subseteq Values /\ n[c] \in [DOMAIN n[c] -> RecordIds]
  <2>1. DOMAIN m[c] \subseteq Values /\ m[c] \in [DOMAIN m[c] -> RecordIds]
    BY <1>1 DEF IndexType
  <2>2. n[c] = m[c] \/ n[c] = Drop(m[c], r[c])
    BY <1>1
  <2>. HIDE DEF n
  <2>. QED  BY <2>1, <2>2 DEF Drop
<1>. HIDE DEF n
<1>3. IndexType(n)
  BY <1>1, <1>2 DEF IndexType
<1>. QED  BY <1>3 DEF n

LEMMA RemoveAll ==
    ASSUME NEW m, IndexType(m), NEW r, \A c \in Indexed : r[c] # Null
    PROVE  /\ DOMAIN remove_from_indexes(m, r, NoColumn) = DOMAIN m
           /\ \A c \in DOMAIN m : remove_from_indexes(m, r, NoColumn)[c] = Drop(m[c], r[c])
BY ColumnFacts DEF remove_from_indexes, IndexType

----------------------------------------------------------------------------
(* The order of the records *)

LEMMA AppendOrder ==
    ASSUME NEW recs, NEW ord \in Seq(RecordIds), Ordered(recs, ord),
           NEW id \in RecordIds, id \notin DOMAIN recs, NEW r
    PROVE  /\ Append(ord, id) \in Seq(RecordIds)
           /\ Ordered(Put(recs, id, r), Append(ord, id))
<1>. DEFINE s == Append(ord, id)
<1>1. Len(ord) \in Nat /\ Len(s) = Len(ord) + 1 /\ s[Len(ord) + 1] = id
      /\ \A i \in 1 .. Len(ord) : s[i] = ord[i]
  OBVIOUS
<1>2. \A i \in 1 .. Len(ord) : ord[i] \in DOMAIN recs /\ ord[i] # id
  BY DEF Ordered, Elements
<1>3. Distinct(s)
  <2>1. SUFFICES ASSUME NEW i \in 1 .. Len(s), NEW j \in 1 .. Len(s), s[i] = s[j]
                 PROVE  i = j
    BY DEF Distinct
  <2>2. CASE i \in 1 .. Len(ord) /\ j \in 1 .. Len(ord)
    BY <1>1, <2>1, <2>2 DEF Ordered, Distinct
  <2>3. CASE ~(i \in 1 .. Len(ord) /\ j \in 1 .. Len(ord))
    <3>1. i = Len(ord) + 1 \/ i \in 1 .. Len(ord)
      BY <1>1
    <3>2. j = Len(ord) + 1 \/ j \in 1 .. Len(ord)
      BY <1>1
    <3>. QED  BY <3>1, <3>2, <2>1, <2>3, <1>1, <1>2
  <2>. QED  BY <2>2, <2>3
<1>4. Elements(s) = DOMAIN recs \cup {id}
  <2>1. ASSUME NEW x \in Elements(s) PROVE x \in DOMAIN recs \cup {id}
    <3>1. PICK i \in 1 .. Len(s) : x = s[i]
      BY <2>1 DEF Elements
    <3>2. i = Len(ord) + 1 \/ i \in 1 .. Len(ord)
      BY <1>1
    <3>. QED  BY <3>1, <3>2, <1>1, <1>2
  <2>2. ASSUME NEW x \in DOMAIN recs \cup {id} PROVE x \in Elements(s)
    <3>1. CASE x = id
      BY <3>1, <1>1 DEF Elements
    <3>2. CASE x \in DOMAIN recs
      <4>1. PICK i \in 1 .. Len(ord) : x = ord[i]
        BY <3>2 DEF Ordered, Elements
      <4>2. i \in 1 .. Len(s) /\ s[i] = x
        BY <4>1, <1>1
      <4>. QED  BY <4>2 DEF Elements
    <3>. QED  BY <3>1, <3>2
  <2>. QED  BY <2>1, <2>2
<1>5. DOMAIN Put(recs, id, r) = DOMAIN recs \cup {id}
  BY PutFacts
<1>. QED  BY <1>3, <1>4, <1>5 DEF Ordered

LEMMA WithoutOrder ==
    ASSUME NEW recs, NEW ord \in Seq(RecordIds), Ordered(recs, ord),
           NEW id \in DOMAIN recs
    PROVE  /\ Without(ord, id) \in Seq(RecordIds)
           /\ Ordered(Drop(recs, id), Without(ord, id))
<1>. DEFINE n == Len(ord)
            s == Without(ord, id)
            p == CHOOSE k \in 1 .. n : ord[k] = id
<1>1. n \in Nat /\ p \in 1 .. n /\ ord[p] = id
  <2>1. \E k \in 1 .. n : ord[k] = id
    BY DEF Ordered, Elements
  <2>. QED  BY <2>1
<1>2. s = [k \in 1 .. n - 1 |-> IF k < p THEN ord[k] ELSE ord[k + 1]]
  BY DEF Without
<1>. HIDE DEF s, p
<1>3. s \in Seq(RecordIds) /\ Len(s) = n - 1
  <2>1. n - 1 \in Nat
    BY <1>1
  <2>2. \A k \in 1 .. n - 1 : k \in 1 .. n /\ k + 1 \in 1 .. n
    BY <1>1
  <2>3. s \in [1 .. n - 1 -> RecordIds]
    BY <1>2, <2>2
  <2>. QED  BY <2>1, <2>3, <1>2
<1>. DEFINE at(k) == IF k < p THEN k ELSE k + 1
<1>4. ASSUME NEW k \in 1 .. n - 1
      PROVE  at(k) \in 1 .. n /\ at(k) # p /\ s[k] = ord[at(k)]
  <2>1. CASE k < p
    BY <2>1, <1>1, <1>2
  <2>2. CASE ~(k < p)
    BY <2>2, <1>1, <1>2
  <2>. QED  BY <2>1, <2>2
<1>5. Distinct(s)
  <2>1. SUFFICES ASSUME NEW i \in 1 .. n - 1, NEW j \in 1 .. n - 1, s[i] = s[j]
                 PROVE  i = j
    BY <1>3 DEF Distinct
  <2>2. at(i) = at(j)
    <3>1. ord[at(i)] = ord[at(j)] /\ at(i) \in 1 .. n /\ at(j) \in 1 .. n
      BY <1>4, <2>1
    <3>. HIDE DEF at
    <3>. QED  BY <3>1 DEF Ordered, Distinct
  <2>. QED  BY <2>2, <1>1
<1>6. Elements(s) = DOMAIN recs \ {id}
  <2>1. ASSUME NEW x \in Elements(s) PROVE x \in DOMAIN recs \ {id}
    <3>1. PICK k \in 1 .. n - 1 : x = s[k]
      BY <2>1, <1>3 DEF Elements
    <3>2. at(k) \in 1 .. n /\ at(k) # p /\ x = ord[at(k)]
      BY <3>1, <1>4
    <3>. HIDE DEF at
    <3>. QED  BY <3>2, <1>1 DEF Ordered, Elements, Distinct
  <2>2. ASSUME NEW x \in DOMAIN recs \ {id} PROVE x \in Elements(s)
    <3>1. PICK k \in 1 .. n : x = ord[k]
      BY <2>2 DEF Ordered, Elements
    <3>2. k # p
      BY <3>1, <1>1
    <3>3. CASE k < p
      <4>1. k \in 1 .. n - 1 /\ s[k] = x
        BY <3>1, <3>3, <1>1, <1>2
      <4>. QED  BY <4>1, <1>3 DEF Elements
    <3>4. CASE k > p
      <4>1. k - 1 \in 1 .. n - 1 /\ ~(k - 1 < p) /\ (k - 1) + 1 = k
        BY <3>4, <1>1
      <4>2. s[k - 1] = x
        BY <4>1, <3>1, <1>2
      <4>. QED  BY <4>1, <4>2, <1>3 DEF Elements
    <3>. QED  BY <3>2, <3>3, <3>4, <1>1
  <2>. QED  BY <2>1, <2>2
<1>7. DOMAIN Drop(recs, id) = DOMAIN recs \ {id}
  BY DropFacts
<1>. QED  BY <1>3, <1>5, <1>6, <1>7 DEF Ordered, s

----------------------------------------------------------------------------
(* Records and indexes together *)

\* What holds of the table in memory and of the one in the files, always.
Good(recs, ord, next, m) ==
    /\ TableType(recs, ord, next)
    /\ IndexType(m)
    /\ Ordered(recs, ord)
    /\ \A id \in DOMAIN recs : id < next
    /\ Filled(recs)

\* The statement in progress.
Control ==
    /\ op \in {"none", "insert", "update", "delete"}
    /\ left \in Nat
    /\ nextId + left <= MaxId + 1
    /\ todo \subseteq DOMAIN records
    /\ op = "none" => left = 0 /\ todo = {}
    /\ faults \in [index : Nat, save : Nat]
    /\ dat = [records |-> dat.records, order |-> dat.order, nextId |-> dat.nextId,
              whole |-> dat.whole]
    /\ dat.whole \in BOOLEAN

\* The inductive invariant: the invariants of Table, arranged by table.
Inv ==
    /\ Good(records, order, nextId, idx)
    /\ Good(dat.records, dat.order, dat.nextId, idxFile)
    /\ Control
    /\ NoStaleEntry
    /\ IndexComplete

\* No entry leads to record id.
Absent(m, id) == \A c \in DOMAIN m : \A k \in DOMAIN m[c] : m[c][k] # id

\* Every record but id is found under its keys.
CompleteBut(recs, m, id) ==
    /\ DOMAIN m = Indexed
    /\ \A j \in DOMAIN recs \ {id} : \A c \in Indexed :
         recs[j][c] \in DOMAIN m[c] /\ m[c][recs[j][c]] = j

LEMMA TruthfulInstall ==
    ASSUME NEW recs, NEW m, NEW id, Truthful(recs, m), Absent(m, id), NEW r, NEW f
    PROVE  Truthful(Put(recs, id, r), install_into_indexes(m, id, r, f))
<1>. DEFINE n == install_into_indexes(m, id, r, f)
            q == Put(recs, id, r)
<1>1. SUFFICES ASSUME NEW c \in DOMAIN n, NEW k \in DOMAIN n[c]
               PROVE  n[c][k] \in DOMAIN q /\ q[n[c][k]][c] = k
  BY DEF Truthful
<1>2. /\ c \in DOMAIN m
      /\ (k = r[c] /\ n[c][k] = id) \/ (k \in DOMAIN m[c] /\ n[c][k] = m[c][k])
  BY InstallEntries
<1>. HIDE DEF n
<1>3. DOMAIN q = DOMAIN recs \cup {id} /\ q[id] = r
      /\ \A x \in DOMAIN recs : x # id => q[x] = recs[x]
  BY DEF Put
<1>4. CASE k = r[c] /\ n[c][k] = id
  BY <1>3, <1>4
<1>5. CASE k \in DOMAIN m[c] /\ n[c][k] = m[c][k]
  <2>1. m[c][k] \in DOMAIN recs /\ recs[m[c][k]][c] = k /\ m[c][k] # id
    BY <1>2, <1>5 DEF Truthful, Absent
  <2>. QED  BY <1>3, <1>5, <2>1
<1>. QED  BY <1>2, <1>4, <1>5

LEMMA CompleteInstall ==
    ASSUME NEW recs, NEW m, NEW id, CompleteBut(recs, m, id),
           NEW r, \A c \in Indexed : r[c] # Null, CanInstall(m, r, NoColumn)
    PROVE  Complete(Put(recs, id, r), install_into_indexes(m, id, r, NoColumn))
<1>. DEFINE n == install_into_indexes(m, id, r, NoColumn)
            q == Put(recs, id, r)
<1>1. /\ DOMAIN n = Indexed
      /\ \A c \in Indexed : r[c] \notin DOMAIN m[c] /\ n[c] = Put(m[c], r[c], id)
  BY InstallAll DEF CompleteBut
<1>. HIDE DEF n
<1>2. SUFFICES ASSUME NEW j \in DOMAIN q, NEW c \in Indexed
               PROVE  q[j][c] \in DOMAIN n[c] /\ n[c][q[j][c]] = j
  BY <1>1 DEF Complete, n
<1>3. DOMAIN q = DOMAIN recs \cup {id} /\ q[id] = r
      /\ \A x \in DOMAIN recs : x # id => q[x] = recs[x]
  BY DEF Put
<1>4. DOMAIN n[c] = DOMAIN m[c] \cup {r[c]} /\ n[c][r[c]] = id
      /\ \A x \in DOMAIN m[c] : x # r[c] => n[c][x] = m[c][x]
  <2>1. n[c] = Put(m[c], r[c], id)
    BY <1>1
  <2>. QED  BY <2>1 DEF Put
<1>5. CASE j = id
  BY <1>3, <1>4, <1>5
<1>6. CASE j # id
  <2>1. j \in DOMAIN recs /\ q[j] = recs[j]
    BY <1>3, <1>6
  <2>2. recs[j][c] \in DOMAIN m[c] /\ m[c][recs[j][c]] = j
    BY <2>1, <1>6 DEF CompleteBut
  <2>. QED  BY <1>1, <1>4, <2>1, <2>2
<1>. QED  BY <1>5, <1>6

LEMMA RemoveTruthful ==
    ASSUME NEW recs, NEW m, Truthful(recs, m), NEW r, NEW f
    PROVE  Truthful(recs, remove_from_indexes(m, r, f))
BY RemoveEntries DEF Truthful

LEMMA RemoveAbsent ==
    ASSUME NEW recs, NEW m, Truthful(recs, m), IndexType(m), NEW id \in DOMAIN recs,
           \A c \in Indexed : recs[id][c] # Null
    PROVE  Absent(remove_from_indexes(m, recs[id], NoColumn), id)
<1>. DEFINE n == remove_from_indexes(m, recs[id], NoColumn)
<1>1. DOMAIN n = DOMAIN m /\ \A c \in DOMAIN m : n[c] = Drop(m[c], recs[id][c])
  BY RemoveAll
<1>. HIDE DEF n
<1>2. SUFFICES ASSUME NEW c \in DOMAIN n, NEW k \in DOMAIN n[c] PROVE n[c][k] # id
  BY DEF Absent, n
<1>3. c \in DOMAIN m /\ k \in DOMAIN m[c] /\ k # recs[id][c] /\ n[c][k] = m[c][k]
  <2>1. c \in DOMAIN m /\ n[c] = Drop(m[c], recs[id][c])
    BY <1>1
  <2>. QED  BY <2>1 DEF Drop
<1>. QED  BY <1>3 DEF Truthful

LEMMA RemoveComplete ==
    ASSUME NEW recs, NEW m, Complete(recs, m), IndexType(m), NEW id \in DOMAIN recs,
           \A c \in Indexed : recs[id][c] # Null
    PROVE  CompleteBut(recs, remove_from_indexes(m, recs[id], NoColumn), id)
<1>. DEFINE n == remove_from_indexes(m, recs[id], NoColumn)
<1>1. /\ DOMAIN n = Indexed /\ DOMAIN m = Indexed
      /\ \A c \in Indexed : n[c] = Drop(m[c], recs[id][c])
  BY RemoveAll DEF Complete
<1>. HIDE DEF n
<1>2. SUFFICES ASSUME NEW j \in DOMAIN recs \ {id}, NEW c \in Indexed
               PROVE  recs[j][c] \in DOMAIN n[c] /\ n[c][recs[j][c]] = j
  BY <1>1 DEF CompleteBut, n
<1>3. /\ recs[j][c] \in DOMAIN m[c] /\ m[c][recs[j][c]] = j
      /\ recs[id][c] \in DOMAIN m[c] /\ m[c][recs[id][c]] = id
  BY DEF Complete
<1>4. recs[j][c] # recs[id][c]
  BY <1>3
<1>5. n[c] = Drop(m[c], recs[id][c])
  BY <1>1
<1>. QED  BY <1>3, <1>4, <1>5 DEF Drop

\* Dropping a record that no entry leads to.
LEMMA DropRecord ==
    ASSUME NEW recs, NEW m, NEW id
    PROVE  /\ Truthful(recs, m) /\ Absent(m, id) => Truthful(Drop(recs, id), m)
           /\ CompleteBut(recs, m, id) => Complete(Drop(recs, id), m)
<1>1. DOMAIN Drop(recs, id) = DOMAIN recs \ {id}
      /\ \A x \in DOMAIN recs \ {id} : Drop(recs, id)[x] = recs[x]
  BY DropFacts
<1>2. ASSUME Truthful(recs, m), Absent(m, id) PROVE Truthful(Drop(recs, id), m)
  BY <1>1, <1>2 DEF Truthful, Absent
<1>3. ASSUME CompleteBut(recs, m, id) PROVE Complete(Drop(recs, id), m)
  BY <1>1, <1>3 DEF Complete, CompleteBut
<1>. QED  BY <1>2, <1>3

----------------------------------------------------------------------------
(* The actions *)

LEMMA InvImplies ==
    ASSUME Inv
    PROVE  TypeOK /\ OrderMatchesRecords /\ IdsFresh /\ NoNulls
BY DEF Inv, Good, Control, TypeOK, OrderMatchesRecords, IdsFresh, NoNulls, Filled

\* A step that leaves the files alone.
LEMMA RowStep ==
    ASSUME Inv, UNCHANGED files,
           Good(records, order, nextId, idx)', Control',
           faults'.save = faults.save,
           faults'.index = 0 => faults.index = 0,
           faults.save = 0 => Truthful(records, idx)',
           faults'.index = 0 /\ faults.save = 0 => Complete(records, idx)'
    PROVE  Inv'
<1>1. dat' = dat /\ idxFile' = idxFile
  BY DEF files
<1>2. Good(dat.records, dat.order, dat.nextId, idxFile)'
  BY <1>1 DEF Inv
<1>3. NoStaleEntry'
  BY <1>1 DEF Inv, NoStaleEntry
<1>4. IndexComplete'
  BY <1>1 DEF Inv, IndexComplete
<1>. QED  BY <1>2, <1>3, <1>4 DEF Inv

LEMMA RowDoneFacts ==
    ASSUME faults \in [index : Nat, save : Nat], NEW f \in Places, NEW n, NEW T,
           RowDone(f, n, T)
    PROVE  /\ faults' \in [index : Nat, save : Nat]
           /\ faults'.save = faults.save
           /\ faults'.index = 0 => faults.index = 0
           /\ DOMAIN idx = Indexed /\ f # NoColumn => faults'.index # 0
           /\ \/ f = NoColumn /\ left' = n /\ todo' = T /\ op' = op
              \/ f # NoColumn /\ left' = 0 /\ todo' = {} /\ op' = "none"
<1>1. CASE f = NoColumn
  BY <1>1 DEF RowDone
<1>2. CASE f # NoColumn
  <2>1. left' = 0 /\ todo' = {} /\ op' = "none"
    BY <1>2 DEF RowDone, Abort
  <2>2. CASE f \in DOMAIN idx
    BY <1>2, <2>1, <2>2 DEF RowDone
  <2>3. CASE f \notin DOMAIN idx
    <3>1. faults' = faults /\ DOMAIN idx # Indexed
      BY <1>2, <2>3 DEF RowDone, Places
    <3>. QED  BY <1>2, <2>1, <3>1
  <2>. QED  BY <2>2, <2>3
<1>. QED  BY <1>1, <1>2

\* A new record in the table.
LEMMA PutGood ==
    ASSUME NEW recs, NEW ord, NEW next, NEW m, Good(recs, ord, next, m),
           NEW r \in [Columns -> Values \cup {Null}],
           \A c \in Indexed \cup NotNull : r[c] # Null,
           NEW n, IndexType(n)
    PROVE  /\ next \in RecordIds =>
                Good(Put(recs, next, r), Append(ord, next), next + 1, n)
           /\ \A id \in DOMAIN recs : Good(Put(recs, id, r), ord, next, n)
<1>1. /\ DOMAIN recs \subseteq RecordIds
      /\ recs \in [DOMAIN recs -> [Columns -> Values \cup {Null}]]
      /\ ord \in Seq(RecordIds) /\ next \in 1 .. MaxId + 1
      /\ Ordered(recs, ord) /\ (\A id \in DOMAIN recs : id < next)
      /\ Filled(recs)
  BY DEF Good, TableType
<1>2. MaxId \in Nat
  BY TableAssumption DEF TableAssumption
<1>3. ASSUME NEW id \in RecordIds
      PROVE  /\ DOMAIN Put(recs, id, r) = DOMAIN recs \cup {id}
             /\ DOMAIN Put(recs, id, r) \subseteq RecordIds
             /\ Put(recs, id, r) \in
                  [DOMAIN Put(recs, id, r) -> [Columns -> Values \cup {Null}]]
             /\ Filled(Put(recs, id, r))
  <2>1. /\ DOMAIN Put(recs, id, r) = DOMAIN recs \cup {id}
        /\ DOMAIN Put(recs, id, r) \subseteq RecordIds
        /\ Put(recs, id, r) \in
             [DOMAIN Put(recs, id, r) -> [Columns -> Values \cup {Null}]]
    BY <1>1 DEF Put
  <2>2. Filled(Put(recs, id, r))
    BY <1>1 DEF Filled, Put
  <2>. QED  BY <2>1, <2>2
<1>4. ASSUME next \in RecordIds
      PROVE  Good(Put(recs, next, r), Append(ord, next), next + 1, n)
  <2>1. next \notin DOMAIN recs /\ next \in Nat /\ next + 1 \in 1 .. MaxId + 1
    BY <1>1, <1>2, <1>4 DEF RecordIds
  <2>2. /\ Append(ord, next) \in Seq(RecordIds)
        /\ Ordered(Put(recs, next, r), Append(ord, next))
    BY <1>1, <1>4, <2>1, AppendOrder
  <2>3. \A id \in DOMAIN recs \cup {next} : id < next + 1
    BY <1>1, <2>1 DEF RecordIds
  <2>. QED  BY <1>3, <1>4, <2>1, <2>2, <2>3 DEF Good, TableType
<1>5. ASSUME NEW id \in DOMAIN recs PROVE Good(Put(recs, id, r), ord, next, n)
  <2>1. id \in RecordIds /\ DOMAIN recs \cup {id} = DOMAIN recs
    BY <1>1
  <2>2. Ordered(Put(recs, id, r), ord)
    BY <1>1, <1>3, <2>1 DEF Ordered
  <2>. QED  BY <1>1, <1>3, <2>1, <2>2 DEF Good, TableType
<1>. QED  BY <1>4, <1>5

LEMMA InsertInv ==
    ASSUME Inv, insert
    PROVE  Inv'
<1>1. PICK row \in Rows, f \in Places :
        LET r == materialize(row) IN
          /\ enforce_constraints(r, 0)
          /\ CanInstall(idx, r, f)
          /\ records' = Put(records, nextId, r)
          /\ order' = Append(order, nextId)
          /\ nextId' = nextId + 1
          /\ idx' = install_into_indexes(idx, nextId, r, f)
          /\ RowDone(f, left - 1, {})
  BY DEF insert
<1>. DEFINE r == materialize(row)
<1>2. left \in Nat /\ left > 0 /\ op = "insert" /\ nextId \in Nat /\ nextId \in RecordIds
      /\ nextId + left <= MaxId + 1 /\ faults \in [index : Nat, save : Nat]
  BY TableAssumption, SMTT(30) DEF insert, Inv, Control, Good, TableType, RecordIds, TableAssumption
<1>3. /\ r \in [Columns -> Values \cup {Null}]
      /\ \A c \in Indexed \cup NotNull : r[c] # Null
      /\ \A c \in Indexed : r[c] \in Values
  <2>1. Default \in [Columns -> Values \cup {Null}]
    BY TableAssumption DEF TableAssumption
  <2>2. r \in [Columns -> Values \cup {Null, WrongType}]
    BY <2>1, RowTypes
  <2>. QED  BY <2>2, <1>1, Accepted
<1>. HIDE DEF r
<1>4. Good(records, order, nextId, idx)'
  <2>1. IndexType(idx)
    BY DEF Inv, Good
  <2>2. IndexType(install_into_indexes(idx, nextId, r, f))
    BY <1>2, <1>3, <2>1, InstallType
  <2>3. Good(Put(records, nextId, r), Append(order, nextId), nextId + 1,
             install_into_indexes(idx, nextId, r, f))
    BY <1>2, <1>3, <2>2, PutGood DEF Inv
  <2>. QED  BY <2>3, <1>1 DEF r
<1>5. RowDone(f, left - 1, {})
  BY <1>1
<1>6. Control'
  <2>1. dat' = dat
    BY DEF insert, files
  <2>2. left' \in Nat /\ left' <= left - 1 /\ todo' = {}
        /\ op' \in {"none", "insert"} /\ (op' = "none" => left' = 0) /\ faults' \in [index : Nat, save : Nat]
    BY <1>2, <1>5, RowDoneFacts
  <2>3. nextId' + left' <= MaxId + 1
    BY <1>1, <1>2, <2>2, TableAssumption, SMTT(30) DEF TableAssumption
  <2>. QED  BY <2>1, <2>2, <2>3 DEF Control, Inv
<1>7. ASSUME faults.save = 0 PROVE Truthful(records, idx)'
  <2>1. Truthful(records, idx)
    BY <1>7 DEF Inv, NoStaleEntry
  <2>2. Absent(idx, nextId)
    <3>1. \A id \in DOMAIN records : id # nextId
      BY <1>2 DEF Inv, Good, TableType, RecordIds
    <3>. QED  BY <2>1, <3>1 DEF Truthful, Absent
  <2>3. Truthful(Put(records, nextId, r), install_into_indexes(idx, nextId, r, f))
    BY <2>1, <2>2, <1>3, TruthfulInstall
  <2>. QED  BY <2>3, <1>1 DEF r
<1>8. ASSUME faults'.index = 0, faults.save = 0 PROVE Complete(records, idx)'
  <2>1. f = NoColumn /\ faults.index = 0
    <3>1. faults.index = 0
      BY <1>2, <1>5, <1>8, RowDoneFacts
    <3>2. DOMAIN idx = Indexed
      BY <3>1, <1>8 DEF Inv, IndexComplete, Complete
    <3>. QED  BY <3>1, <3>2, <1>2, <1>5, <1>8, RowDoneFacts
  <2>2. CompleteBut(records, idx, nextId)
    BY <1>8, <2>1 DEF Inv, IndexComplete, Complete, CompleteBut
  <2>3. CanInstall(idx, r, NoColumn)
    BY <1>1, <2>1 DEF r
  <2>4. Complete(Put(records, nextId, r), install_into_indexes(idx, nextId, r, NoColumn))
    BY <2>2, <2>3, <1>3, CompleteInstall
  <2>. QED  BY <2>1, <2>4, <1>1 DEF r
<1>9. UNCHANGED files
  BY DEF insert
<1>10. faults'.save = faults.save /\ (faults'.index = 0 => faults.index = 0)
  BY <1>2, <1>5, RowDoneFacts
<1>. QED  BY <1>4, <1>6, <1>7, <1>8, <1>9, <1>10, RowStep

LEMMA UpdateInv ==
    ASSUME Inv, update
    PROVE  Inv'
<1>1. PICK id \in todo, row \in Rows, f \in Places :
        LET r == Updated(records[id], row)
            m == remove_from_indexes(idx, records[id], NoColumn)
        IN  /\ enforce_constraints(r, id)
            /\ CanInstall(m, r, f)
            /\ records' = Put(records, id, r)
            /\ idx' = install_into_indexes(m, id, r, f)
            /\ RowDone(f, 0, todo \ {id})
  BY DEF update
<1>. DEFINE r == Updated(records[id], row)
            m == remove_from_indexes(idx, records[id], NoColumn)
<1>2. /\ id \in DOMAIN records /\ todo \subseteq DOMAIN records
      /\ DOMAIN records \subseteq RecordIds
      /\ records[id] \in [Columns -> Values \cup {Null}]
      /\ \A c \in Indexed : records[id][c] # Null
      /\ IndexType(idx) /\ NoColumn \in Places
      /\ faults \in [index : Nat, save : Nat]
  BY DEF Inv, Control, Good, TableType, Filled, Places
<1>3. /\ r \in [Columns -> Values \cup {Null}]
      /\ \A c \in Indexed \cup NotNull : r[c] # Null
      /\ \A c \in Indexed : r[c] \in Values
  <2>1. r \in [Columns -> Values \cup {Null, WrongType}]
    BY <1>2, RowTypes
  <2>. QED  BY <2>1, <1>1, Accepted
<1>4. CanInstall(m, r, f) /\ RowDone(f, 0, todo \ {id})
      /\ records' = Put(records, id, r) /\ idx' = install_into_indexes(m, id, r, f)
  BY <1>1
<1>5. IndexType(m)
  BY <1>2, RemoveType
<1>6. UNCHANGED <<order, nextId, files>> /\ op = "update"
  BY DEF update
<1>7. faults.save = 0 => Truthful(records, m) /\ Absent(m, id)
  BY <1>2, RemoveTruthful, RemoveAbsent DEF Inv, NoStaleEntry
<1>8. faults.index = 0 /\ faults.save = 0 => CompleteBut(records, m, id)
  BY <1>2, RemoveComplete DEF Inv, IndexComplete
<1>. HIDE DEF r, m
<1>9. Good(records, order, nextId, idx)'
  <2>1. IndexType(install_into_indexes(m, id, r, f))
    BY <1>2, <1>3, <1>5, InstallType
  <2>2. Good(Put(records, id, r), order, nextId, install_into_indexes(m, id, r, f))
    BY <1>2, <1>3, <2>1, PutGood DEF Inv
  <2>. QED  BY <2>2, <1>4, <1>6
<1>10. Control'
  <2>1. dat' = dat /\ nextId' = nextId /\ DOMAIN records' = DOMAIN records
    <3>1. DOMAIN Put(records, id, r) = DOMAIN records
      BY <1>2 DEF Put
    <3>. QED  BY <1>4, <1>6, <3>1 DEF files
  <2>2. left' = 0 /\ todo' \subseteq todo
        /\ op' \in {"none", "update"} /\ (op' = "none" => todo' = {}) /\ faults' \in [index : Nat, save : Nat]
    BY <1>2, <1>4, <1>6, RowDoneFacts
  <2>3. nextId' + left' <= MaxId + 1
    BY <2>1, <2>2, TableAssumption DEF TableAssumption, Inv, Good, TableType
  <2>. QED  BY <1>2, <2>1, <2>2, <2>3 DEF Control, Inv
<1>11. ASSUME faults.save = 0 PROVE Truthful(records, idx)'
  BY <1>3, <1>4, <1>7, <1>11, TruthfulInstall
<1>12. ASSUME faults'.index = 0, faults.save = 0 PROVE Complete(records, idx)'
  <2>1. f = NoColumn /\ faults.index = 0
    <3>1. faults.index = 0
      BY <1>2, <1>4, <1>12, RowDoneFacts
    <3>2. DOMAIN idx = Indexed
      BY <3>1, <1>12 DEF Inv, IndexComplete, Complete
    <3>. QED  BY <3>1, <3>2, <1>2, <1>4, <1>12, RowDoneFacts
  <2>2. Complete(Put(records, id, r), install_into_indexes(m, id, r, NoColumn))
    BY <1>3, <1>4, <1>8, <1>12, <2>1, CompleteInstall
  <2>. QED  BY <2>1, <2>2, <1>4
<1>13. faults'.save = faults.save /\ (faults'.index = 0 => faults.index = 0)
  BY <1>2, <1>4, RowDoneFacts
<1>. QED  BY <1>6, <1>9, <1>10, <1>11, <1>12, <1>13, RowStep

LEMMA RemoveFailsInv ==
    ASSUME Inv, remove_fails
    PROVE  Inv'
<1>1. PICK id \in todo, f \in Indexed :
        /\ idx' = remove_from_indexes(idx, records[id], f)
        /\ RowDone(f, 0, {})
  BY DEF remove_fails
<1>2. UNCHANGED <<records, order, nextId, dat, idxFile>> /\ UNCHANGED files
  BY DEF remove_fails, table, files
<1>3. f \in Places /\ f # NoColumn /\ faults \in [index : Nat, save : Nat]
  BY ColumnFacts DEF Places, Inv, Control
<1>4. /\ faults'.save = faults.save /\ faults' \in [index : Nat, save : Nat]
      /\ faults'.index = 0 => faults.index = 0
      /\ DOMAIN idx = Indexed => faults'.index # 0
      /\ left' = 0 /\ todo' = {} /\ op' = "none"
  BY <1>1, <1>3, RowDoneFacts
<1>5. Good(records, order, nextId, idx)'
  <2>1. IndexType(idx')
    BY <1>1, <1>3, RemoveType DEF Inv, Good
  <2>. QED  BY <1>2, <2>1 DEF Inv, Good
<1>6. Control'
  <2>1. nextId' + left' <= MaxId + 1
    BY <1>2, <1>4, TableAssumption DEF TableAssumption, Inv, Good, TableType
  <2>. QED  BY <1>2, <1>4, <2>1 DEF Control, Inv
<1>7. faults.save = 0 => Truthful(records, idx)'
  BY <1>1, <1>2, <1>3, RemoveTruthful DEF Inv, NoStaleEntry
<1>8. ~(faults'.index = 0 /\ faults.save = 0)
  BY <1>4 DEF Inv, IndexComplete, Complete
<1>. QED  BY <1>2, <1>4, <1>5, <1>6, <1>7, <1>8, RowStep

LEMMA EraseInv ==
    ASSUME Inv, erase
    PROVE  Inv'
<1>1. PICK id \in todo :
        /\ idx' = remove_from_indexes(idx, records[id], NoColumn)
        /\ records' = Drop(records, id)
        /\ order' = Without(order, id)
        /\ RowDone(NoColumn, 0, todo \ {id})
  BY DEF erase
<1>2. UNCHANGED <<nextId, dat, idxFile>> /\ UNCHANGED files /\ op = "delete"
  BY DEF erase, files
<1>3. /\ id \in DOMAIN records /\ todo \subseteq DOMAIN records
      /\ DOMAIN records \subseteq RecordIds
      /\ records \in [DOMAIN records -> [Columns -> Values \cup {Null}]]
      /\ order \in Seq(RecordIds) /\ Ordered(records, order)
      /\ \A c \in Indexed : records[id][c] # Null
      /\ IndexType(idx) /\ NoColumn \in Places /\ NoColumn \notin Indexed
      /\ faults \in [index : Nat, save : Nat]
  BY ColumnFacts DEF Inv, Control, Good, TableType, Filled, Places
<1>4. faults' = faults /\ left' = 0 /\ todo' = todo \ {id} /\ op' = op
  BY <1>1 DEF RowDone
<1>5. DOMAIN records' = DOMAIN records \ {id}
      /\ \A x \in DOMAIN records' : records'[x] = records[x]
  BY <1>1, DropFacts
<1>6. Good(records, order, nextId, idx)'
  <2>1. IndexType(idx')
    BY <1>1, <1>3, RemoveType
  <2>2. order' \in Seq(RecordIds) /\ Ordered(records', order')
    BY <1>1, <1>3, WithoutOrder
  <2>3. records' \in [DOMAIN records' -> [Columns -> Values \cup {Null}]]
    BY <1>1, <1>3 DEF Drop
  <2>4. Filled(records') /\ (\A x \in DOMAIN records' : x < nextId')
    BY <1>2, <1>5 DEF Filled, Inv, Good
  <2>. QED  BY <1>2, <1>3, <1>5, <2>1, <2>2, <2>3, <2>4 DEF Inv, Good, TableType
<1>7. Control'
  <2>1. nextId' + left' <= MaxId + 1
    BY <1>2, <1>4, TableAssumption DEF TableAssumption, Inv, Good, TableType
  <2>2. todo' \subseteq DOMAIN records'
    BY <1>3, <1>4, <1>5
  <2>. QED  BY <1>2, <1>4, <2>1, <2>2 DEF Control, Inv
<1>8. ASSUME faults.save = 0 PROVE Truthful(records, idx)'
  <2>1. Truthful(records, idx') /\ Absent(idx', id)
    BY <1>1, <1>3, <1>8, RemoveTruthful, RemoveAbsent DEF Inv, NoStaleEntry
  <2>. QED  BY <1>1, <2>1, DropRecord
<1>9. ASSUME faults'.index = 0, faults.save = 0 PROVE Complete(records, idx)'
  <2>1. CompleteBut(records, idx', id)
    BY <1>1, <1>3, <1>4, <1>9, RemoveComplete DEF Inv, IndexComplete
  <2>. QED  BY <1>1, <2>1, DropRecord
<1>. QED  BY <1>2, <1>4, <1>6, <1>7, <1>8, <1>9, RowStep

\* Steps that only start or end a statement.
LEMMA ControlInv ==
    ASSUME Inv, UNCHANGED <<table, idx, files, faults>>,
           op' \in {"none", "insert", "update", "delete"}, left' \in Nat,
           nextId + left' <= MaxId + 1, todo' \subseteq DOMAIN records,
           op' = "none" => left' = 0 /\ todo' = {}
    PROVE  Inv'
<1>1. UNCHANGED <<records, order, nextId, idx, dat, idxFile, faults>>
  BY DEF table, files
<1>. QED  BY <1>1 DEF Inv, Control, NoStaleEntry, IndexComplete

LEMMA SaveInv ==
    ASSUME Inv, save \/ save_fails \/ save_short \/ load
    PROVE  Inv'
<1>1. CASE save
  <2>1. UNCHANGED <<records, order, nextId, idx, left, todo, faults>> /\ op' = "none"
        /\ left = 0 /\ todo = {} /\ idxFile' = idx
        /\ dat' = [records |-> records, order |-> order, nextId |-> nextId, whole |-> TRUE]
    BY <1>1 DEF save, table, Saving, DatFile
  <2>. QED  BY <2>1 DEF Inv, Control, NoStaleEntry, IndexComplete
<1>2. CASE save_fails
  <2>1. UNCHANGED <<records, order, nextId, dat, left, todo>> /\ op' = "none"
        /\ left = 0 /\ todo = {} /\ faults' = [faults EXCEPT !.save = @ + 1]
    BY <1>2 DEF save_fails, table, Saving
  <2>2. PICK C \in SUBSET Indexed, f \in Places :
          /\ idx' = [c \in DOMAIN idx \ {f} |-> idx[c]]
          /\ idxFile' = [c \in ((DOMAIN idx \cap C) \cup (DOMAIN idxFile \ C)) \ {f} |->
                           IF c \in C THEN idx[c] ELSE idxFile[c]]
    BY <1>2 DEF save_fails
  <2>3. IndexType(idxFile') /\ IndexType(idx')
    BY <2>2 DEF Inv, Good, IndexType
  <2>4. faults' \in [index : Nat, save : Nat] /\ faults'.save # 0
    BY <2>1 DEF Inv, Control
  <2>. QED  BY <2>1, <2>3, <2>4 DEF Inv, Good, Control, NoStaleEntry, IndexComplete
<1>3. CASE save_short
  <2>1. PICK cut \in SUBSET Indexed, whole \in BOOLEAN :
          /\ idx' = [c \in DOMAIN idx \ cut |-> idx[c]] /\ idxFile' = idx'
          /\ dat' = [records |-> records, order |-> order, nextId |-> nextId,
                     whole |-> whole]
    BY <1>3 DEF save_short, DatFile
  <2>2. UNCHANGED <<records, order, nextId, left, todo>> /\ op' = "none"
        /\ left = 0 /\ todo = {} /\ faults' = [faults EXCEPT !.save = @ + 1]
    BY <1>3 DEF save_short, table, Saving
  <2>3. IndexType(idxFile') /\ IndexType(idx')
    BY <2>1 DEF Inv, Good, IndexType
  <2>4. faults' \in [index : Nat, save : Nat] /\ faults'.save # 0
    BY <2>2 DEF Inv, Control
  <2>. QED  BY <2>1, <2>2, <2>3, <2>4 DEF Inv, Good, Control, NoStaleEntry, IndexComplete
<1>4. CASE load
  <2>1. records' = dat.records /\ order' = dat.order /\ nextId' = dat.nextId
        /\ idx' = idxFile /\ UNCHANGED <<dat, idxFile, op, left, todo, faults>>
    BY <1>4 DEF load, files
  <2>2. left = 0 /\ todo = {}
    BY <1>4 DEF load, Inv, Control
  <2>3. nextId' + left' <= MaxId + 1
    BY <2>1, <2>2, TableAssumption DEF TableAssumption, Inv, Good, TableType
  <2>. QED  BY <2>1, <2>2, <2>3 DEF Inv, Control, NoStaleEntry, IndexComplete
<1>. QED  BY <1>1, <1>2, <1>3, <1>4

LEMMA InitInv ==
    ASSUME Init
    PROVE  Inv
<1>1. MaxId \in Nat
  BY TableAssumption DEF TableAssumption
<1>2. DOMAIN EmptyMap = {} /\ EmptyMap \in [{} -> RecordIds]
      /\ EmptyMap \in [{} -> [Columns -> Values \cup {Null}]]
  BY DEF EmptyMap
<1>3. TableType(records, order, nextId) /\ Filled(records)
      /\ \A id \in DOMAIN records : id < nextId
  BY <1>1, <1>2 DEF Init, TableType, Filled
<1>4. Ordered(records, order)
  BY <1>2 DEF Init, Ordered, Distinct, Elements
<1>5. IndexType(idx)
  BY <1>2 DEF Init, IndexType
<1>6. Truthful(records, idx) /\ Complete(records, idx)
  BY <1>2 DEF Init, Truthful, Complete
<1>7. /\ dat = [records |-> records, order |-> order, nextId |-> nextId, whole |-> TRUE]
      /\ idxFile = idx
  BY DEF Init
<1>8. Good(records, order, nextId, idx)
  BY <1>3, <1>4, <1>5 DEF Good
<1>9. Control
  BY <1>1, <1>7 DEF Init, Control
<1>. QED  BY <1>6, <1>7, <1>8, <1>9 DEF Inv, NoStaleEntry, IndexComplete

LEMMA InvStep ==
    ASSUME Inv, [Next]_vars
    PROVE  Inv'
<1>. USE DEF Inv, Control
<1>1. nextId \in Nat /\ MaxId \in Nat /\ left \in Nat /\ nextId <= MaxId + 1
  BY TableAssumption DEF TableAssumption, Good, TableType
<1>2. CASE exec_insert
  <2>1. left' \in Nat /\ nextId + left' <= MaxId + 1
    BY <1>1, <1>2 DEF exec_insert
  <2>2. UNCHANGED <<table, idx, files, todo, faults>> /\ op' = "insert"
    BY <1>2 DEF exec_insert
  <2>. QED  BY <2>1, <2>2, ControlInv
<1>3. CASE exec_update
  BY <1>3, ControlInv DEF exec_update
<1>4. CASE exec_delete
  BY <1>4, ControlInv DEF exec_delete
<1>5. CASE refuse_row
  <2>1. UNCHANGED <<table, idx, files, faults>> /\ op' = "none" /\ left' = 0 /\ todo' = {}
    BY <1>5 DEF refuse_row, Abort
  <2>. QED  BY <1>1, <2>1, ControlInv
<1>6. CASE UNCHANGED vars
  <2>1. UNCHANGED <<table, idx, files, faults>> /\ UNCHANGED <<op, left, todo>>
    BY <1>6 DEF vars, table, files
  <2>. QED  BY <2>1, ControlInv
<1>. QED  BY <1>2, <1>3, <1>4, <1>5, <1>6, InsertInv, UpdateInv, RemoveFailsInv,
             EraseInv, SaveInv DEF Next

\* Whatever sequence of statements runs, whichever index calls and saves fail
\* and however often the process restarts, the table in memory and the one in
\* the files keep the inductive invariant.
THEOREM Invariance == Spec => []Inv
<1>1. Init => Inv
  BY InitInv
<1>2. Inv /\ [Next]_vars => Inv'
  BY InvStep
<1>. QED  BY <1>1, <1>2, PTL DEF Spec

\* Every variable of Table keeps its type: in particular no value of the wrong
\* type is stored and no statement treats a record that is gone.
THEOREM TypeCorrect == Spec => []TypeOK
<1>1. Inv => TypeOK
  BY InvImplies
<1>. QED  BY <1>1, Invariance, PTL

\* order_ and records_ name the same records, each once: Table::save and the
\* full scans of the executor never look up an id that is not there.
THEOREM OrderHolds == Spec => []OrderMatchesRecords
<1>1. Inv => OrderMatchesRecords
  BY InvImplies
<1>. QED  BY <1>1, Invariance, PTL

\* next_id_ stays above every id in use, across saves and restarts from a file
\* that is whole.
THEOREM IdsFreshHolds == Spec => []IdsFresh
<1>1. Inv => IdsFresh
  BY InvImplies
<1>. QED  BY <1>1, Invariance, PTL

\* Unless a save has failed, no index that has only ever refused keys leads to a
\* missing or to a wrong record, although insert, update and erase do not undo
\* what they did when it, or an index after it, throws.
THEOREM NoStaleEntryHolds == Spec => []NoStaleEntry
<1>1. Inv => NoStaleEntry
  BY DEF Inv
<1>. QED  BY <1>1, Invariance, PTL

\* Unless an index call or a save has failed, every record is in every index.
THEOREM IndexCompleteHolds == Spec => []IndexComplete
<1>1. Inv => IndexComplete
  BY DEF Inv
<1>. QED  BY <1>1, Invariance, PTL

\* The uniqueness that INDEXED promises follows from it: it holds until a call
\* fails.
THEOREM UniqueUntilFailure ==
    Spec => [](faults.index = 0 /\ faults.save = 0 => IndexedIsUnique)
<1>1. Inv => (faults.index = 0 /\ faults.save = 0 => IndexedIsUnique)
  BY DEF Inv, IndexComplete, Complete, IndexedIsUnique
<1>. QED  BY <1>1, Invariance, PTL

\* No NULL is ever stored in an INDEXED or NOT_NULL column.
THEOREM NoNullsHolds == Spec => []NoNulls
<1>1. Inv => NoNulls
  BY InvImplies
<1>. QED  BY <1>1, Invariance, PTL
=============================================================================
