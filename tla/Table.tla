------------------------------- MODULE Table -------------------------------
(***************************************************************************)
(* A table and the statements that change it: class Table of               *)
(* storage/table.cpp with exec_insert, exec_update and exec_delete of      *)
(* sql/executor.cpp.  A statement works row by row and ends by saving the  *)
(* database; what an exception leaves behind stays.                        *)
(*                                                                         *)
(* An index is the map from keys to record ids that BspIndex shows the     *)
(* tree to be, until it throws for another reason than that it refuses a   *)
(* key: then its pages may disagree with one another, it may answer        *)
(* anything from there on, and it is no longer among the maps of idx.      *)
(* Statements run one at a time, under the DBMS mutex.                     *)
(***************************************************************************)
EXTENDS Integers, Sequences, FiniteSets

CONSTANTS
    NumCols,      \* columns are 1 .. NumCols, in schema order
    Indexed,      \* INDEXED columns
    NotNull,      \* NOT_NULL columns
    Default,      \* the value of a column that an INSERT leaves out
    Values,       \* values that match the type of their column
    TooLong,      \* the values whose encoding exceeds kMaxIndexKeyBytes
    Null,         \* NULL
    WrongType,    \* any value that does not match the type of its column
    Rows,         \* rows of statements: values for some of the columns
    MaxId,        \* bound: record ids are 1 .. MaxId (uint64 in the code)
    MaxFaults,    \* bound: number of calls that fail
    Faults        \* whether an index or a save can fail for any other reason

Columns == 1 .. NumCols
RecordIds == 1 .. MaxId

ASSUME TableAssumption ==
    /\ NumCols \in Nat
    /\ Indexed \subseteq Columns
    /\ NotNull \subseteq Columns
    /\ Null \notin Values
    /\ WrongType \notin Values \cup {Null}
    /\ Default \in [Columns -> Values \cup {Null}]
    /\ TooLong \subseteq Values
    /\ \A row \in Rows :
         /\ DOMAIN row \subseteq Columns
         /\ row \in [DOMAIN row -> Values \cup {Null, WrongType}]
    /\ MaxId \in Nat
    /\ MaxFaults \in Nat
    /\ Faults \in BOOLEAN

VARIABLES
    records,      \* records_: id -> values
    order,        \* order_
    nextId,       \* next_id_
    idx,          \* indexes_, without those that have thrown: column -> key -> id
    dat,          \* records, order_ and next_id_ in the .dat file, if it is whole
    idxFile,      \* the .idx files, without those that are torn
    op,           \* the statement in progress: "none", "insert", ...
    left,         \* rows that an INSERT still has to insert
    todo,         \* record ids that an UPDATE or DELETE still has to treat
    faults        \* history: how many index calls and saves have failed

vars == <<records, order, nextId, idx, dat, idxFile, op, left, todo, faults>>

table == <<records, order, nextId>>
files == <<dat, idxFile>>

----------------------------------------------------------------------------
(* Maps, and the order of the records *)

Put(m, k, v) == [x \in DOMAIN m \cup {k} |-> IF x = k THEN v ELSE m[x]]
Drop(m, k) == [x \in DOMAIN m \ {k} |-> m[x]]
EmptyMap == [x \in {} |-> 0]

\* Mutant: the newest id is taken off instead.
WithoutLast(s, id) == SubSeq(s, 1, Len(s) - 1)

\* order_.erase at the place where id is found.
Without(s, id) ==
    LET i == CHOOSE k \in 1 .. Len(s) : s[k] = id
    IN  [k \in 1 .. Len(s) - 1 |-> IF k < i THEN s[k] ELSE s[k + 1]]

----------------------------------------------------------------------------
(* Indexes.  f is the column whose index throws, NoColumn if none does:    *)
(* the columns before it have been treated, those after it have not.       *)

NoColumn == NumCols + 1
Places == Indexed \cup {NoColumn}

\* DiskBspIndex::insert throws "Index key too large" or "Duplicate index key"
\* before it has changed a page.
Refused(m, c, k) == k \in TooLong \/ (c \in DOMAIN m /\ k \in DOMAIN m[c])

CanInstall(m, r, f) ==
    /\ \A c \in Indexed : c < f => r[c] = Null \/ ~Refused(m, c, r[c])
    /\ f \in Indexed => r[f] # Null /\ (Faults \/ Refused(m, f, r[f]))

\* A call that throws after it has written some of its pages leaves an index
\* whose search and whose chain of leaves may disagree.
install_into_indexes(m, id, r, f) ==
    LET lost == IF f = NoColumn \/ Refused(m, f, r[f]) THEN {} ELSE {f}
    IN  [c \in DOMAIN m \ lost |->
           IF c < f /\ r[c] # Null THEN Put(m[c], r[c], id) ELSE m[c]]

\* DiskBspIndex::erase encodes the key only when the leaf that may hold it has
\* an entry that is not smaller: then a key that is too long makes it throw.
\* It is in no leaf, so nothing has been changed.
CanRemove(m, r, f) ==
    f \in Indexed =>
       /\ r[f] # Null
       /\ Faults \/ (r[f] \in TooLong /\ f \in DOMAIN m /\ DOMAIN m[f] # {})

remove_from_indexes(m, r, f) ==
    LET lost == IF f = NoColumn \/ r[f] \in TooLong THEN {} ELSE {f}
    IN  [c \in DOMAIN m \ lost |->
           IF c < f /\ r[c] # Null THEN Drop(m[c], r[c]) ELSE m[c]]

----------------------------------------------------------------------------
(* Rows *)

materialize(row) == [c \in Columns |-> IF c \in DOMAIN row THEN row[c] ELSE Default[c]]
Updated(r, row)  == [c \in Columns |-> IF c \in DOMAIN row THEN row[c] ELSE r[c]]

\* index_find: a key is found in no record but the one being updated; what an
\* index that has thrown finds does not matter, as it may miss the key.
NoDuplicate(r, self) ==
    \A c \in DOMAIN idx : r[c] \in DOMAIN idx[c] => idx[c][r[c]] = self

\* Mutants: types are not looked at; NULL is refused in NOT_NULL columns only.
enforce_untyped(r, self) ==
    /\ \A c \in Columns : r[c] = Null => c \notin NotNull \cup Indexed
    /\ NoDuplicate(r, self)
enforce_not_null_only(r, self) ==
    /\ \A c \in Columns : r[c] = Null => c \notin NotNull
    /\ \A c \in Columns : r[c] # WrongType
    /\ NoDuplicate(r, self)

\* self is the record being updated, 0 for a new one.
enforce_constraints(r, self) ==
    /\ \A c \in Columns : r[c] = Null => c \notin NotNull \cup Indexed
    /\ \A c \in Columns : r[c] # WrongType
    /\ NoDuplicate(r, self)

CanFail == faults.index + faults.save < MaxFaults

\* The statement ends with an error, and without a save.
Abort ==
    /\ op' = "none"
    /\ left' = 0
    /\ todo' = {}

\* After one row the statement goes on, unless an index has thrown at f.  What
\* an index throws after its first failure is not counted any more.
RowDone(f, rowsLeft, idsLeft) ==
    IF f = NoColumn
    THEN /\ left' = rowsLeft
         /\ todo' = idsLeft
         /\ UNCHANGED <<op, faults>>
    ELSE /\ Abort
         /\ IF f \in DOMAIN idx
            THEN CanFail /\ faults' = [faults EXCEPT !.index = @ + 1]
            ELSE UNCHANGED faults

\* Table::insert: the record is in the table before the indexes know it.
insert ==
    /\ op = "insert" /\ left > 0
    /\ \E row \in Rows, f \in Places :
         LET r == materialize(row) IN
           /\ enforce_constraints(r, 0)
           /\ CanInstall(idx, r, f)
           /\ records' = Put(records, nextId, r)
           /\ order' = Append(order, nextId)
           /\ nextId' = nextId + 1
           /\ idx' = install_into_indexes(idx, nextId, r, f)
           /\ RowDone(f, left - 1, {})
    /\ UNCHANGED files

\* Mutant: the entries of the old record stay in the indexes.
update_keeps_entries ==
    /\ op = "update"
    /\ \E id \in todo, row \in Rows, f \in Places :
         LET r == Updated(records[id], row)
         IN  /\ enforce_constraints(r, id)
             /\ CanInstall(idx, r, f)
             /\ records' = Put(records, id, r)
             /\ idx' = install_into_indexes(idx, id, r, f)
             /\ RowDone(f, 0, todo \ {id})
    /\ UNCHANGED <<order, nextId, files>>

\* Table::update when all index entries of the old record could be removed.
update ==
    /\ op = "update"
    /\ \E id \in todo, row \in Rows, f \in Places :
         LET r == Updated(records[id], row)
             m == remove_from_indexes(idx, records[id], NoColumn)
         IN  /\ enforce_constraints(r, id)
             /\ CanInstall(m, r, f)
             /\ records' = Put(records, id, r)
             /\ idx' = install_into_indexes(m, id, r, f)
             /\ RowDone(f, 0, todo \ {id})
    /\ UNCHANGED <<order, nextId, files>>

\* Table::update or Table::erase, when an index throws as the entries of the
\* old record are removed.
remove_fails ==
    /\ op \in {"update", "delete"}
    /\ \E id \in todo, f \in Indexed :
         /\ CanRemove(idx, records[id], f)
         /\ idx' = remove_from_indexes(idx, records[id], f)
         /\ RowDone(f, 0, {})
    /\ UNCHANGED <<table, files>>

\* Table::erase.
erase ==
    /\ op = "delete"
    /\ \E id \in todo :
         /\ idx' = remove_from_indexes(idx, records[id], NoColumn)
         /\ records' = Drop(records, id)
         /\ order' = Without(order, id)
         /\ RowDone(NoColumn, 0, todo \ {id})
    /\ UNCHANGED <<nextId, files>>

\* A row that enforce_constraints refuses ends the statement, like one with a
\* wrong number of values or an expression that cannot be evaluated; the rows
\* before it stay inserted or updated.  An index that has thrown before may
\* find any key, or throw again.
refuse_row ==
    /\ \E row \in Rows :
         \/ /\ op = "insert" /\ left > 0
            /\ ~enforce_constraints(materialize(row), 0) \/ DOMAIN idx # Indexed
         \/ /\ op = "update"
            /\ \E id \in todo : \/ ~enforce_constraints(Updated(records[id], row), id)
                                \/ DOMAIN idx # Indexed
    /\ Abort
    /\ UNCHANGED <<table, idx, files, faults>>

----------------------------------------------------------------------------
(* Statements *)

Init ==
    /\ records = EmptyMap
    /\ order = <<>>
    /\ nextId = 1
    /\ idx = [c \in Indexed |-> EmptyMap]
    /\ dat = [records |-> records, order |-> order, nextId |-> nextId, whole |-> TRUE]
    /\ idxFile = idx
    /\ op = "none"
    /\ left = 0
    /\ todo = {}
    /\ faults = [index |-> 0, save |-> 0]

\* The rows of an INSERT, or the records that the WHERE of an UPDATE or a
\* DELETE selects.  SET expressions may read the row, so each row of an UPDATE
\* gets values of its own.
exec_insert ==
    /\ op = "none"
    /\ \E n \in 1 .. MaxId + 1 - nextId : left' = n
    /\ op' = "insert"
    /\ UNCHANGED <<table, idx, files, todo, faults>>

exec_update ==
    /\ op = "none"
    /\ op' = "update"
    /\ todo' \in SUBSET DOMAIN records
    /\ UNCHANGED <<table, idx, files, left, faults>>

exec_delete ==
    /\ op = "none"
    /\ op' = "delete"
    /\ todo' \in SUBSET DOMAIN records
    /\ UNCHANGED <<table, idx, files, left, faults>>

\* Every statement that changes a table of the database ends by saving all of
\* its tables, this one too.
Saving == left = 0 /\ todo = {}

DatFile(whole) ==
    [records |-> records, order |-> order, nextId |-> nextId, whole |-> whole]

\* Mutant: the indexes are not flushed.
save_without_flush ==
    /\ Saving
    /\ dat' = DatFile(TRUE)
    /\ op' = "none"
    /\ UNCHANGED <<table, idx, idxFile, left, todo, faults>>

\* Table::save: flush_indexes, then the .dat file is replaced as a whole.
save ==
    /\ Saving
    /\ idxFile' = idx
    /\ dat' = DatFile(TRUE)
    /\ op' = "none"
    /\ UNCHANGED <<table, idx, left, todo, faults>>

\* The indexes in C have been flushed, or are not looked at, when one of the
\* others stops in the middle of its flush, or the .dat file cannot be written.
save_fails ==
    /\ Faults /\ CanFail
    /\ Saving
    /\ \E C \in SUBSET Indexed, f \in Places :
         /\ f \notin C
         /\ idx' = [c \in DOMAIN idx \ {f} |-> idx[c]]
         /\ idxFile' = [c \in ((DOMAIN idx \cap C) \cup (DOMAIN idxFile \ C)) \ {f} |->
                          IF c \in C THEN idx[c] ELSE idxFile[c]]
    /\ op' = "none"
    /\ faults' = [faults EXCEPT !.save = @ + 1]
    /\ UNCHANGED <<table, dat, left, todo>>

\* The disk is full at the end, and nobody looks at the state of a stream: the
\* last page of an index in cut is in its cache, as clean, but not in its file,
\* or a .dat file that is cut short takes the place of the one before.
save_short ==
    /\ Faults /\ CanFail
    /\ Saving
    /\ \E cut \in SUBSET Indexed, whole \in BOOLEAN :
         /\ cut # {} \/ ~whole
         /\ idx' = [c \in DOMAIN idx \ cut |-> idx[c]]
         /\ idxFile' = idx'
         /\ dat' = DatFile(whole)
    /\ op' = "none"
    /\ faults' = [faults EXCEPT !.save = @ + 1]
    /\ UNCHANGED <<table, left, todo>>

\* Mutant: next_id_ is counted instead of read.
load_counts ==
    /\ op = "none" /\ dat.whole
    /\ records' = dat.records
    /\ order' = dat.order
    /\ nextId' = Len(dat.order) + 1
    /\ idx' = idxFile
    /\ UNCHANGED <<files, op, left, todo, faults>>

\* The process ends between statements, without a save, and a new one starts.
\* If the .dat file is cut short, the values after its end are never read: the
\* start fails, or the table holds what was in the memory, ids twice or values
\* of no type included, and nothing more is said of it here.
load ==
    /\ op = "none" /\ dat.whole
    /\ records' = dat.records
    /\ order' = dat.order
    /\ nextId' = dat.nextId
    /\ idx' = idxFile
    /\ UNCHANGED <<files, op, left, todo, faults>>

Next == exec_insert \/ exec_update \/ exec_delete \/ insert \/ update \/ erase
        \/ remove_fails \/ refuse_row \/ save \/ save_fails \/ save_short \/ load

Spec == Init /\ [][Next]_vars

----------------------------------------------------------------------------
(* Properties *)

Elements(s) == {s[i] : i \in 1 .. Len(s)}
Distinct(s) == \A i, j \in 1 .. Len(s) : s[i] = s[j] => i = j

TableType(recs, ord, next) ==
    /\ DOMAIN recs \subseteq RecordIds
    /\ recs \in [DOMAIN recs -> [Columns -> Values \cup {Null}]]
    /\ ord \in Seq(RecordIds)
    /\ next \in 1 .. MaxId + 1

IndexType(m) ==
    /\ m = [c \in DOMAIN m |-> m[c]]
    /\ DOMAIN m \subseteq Indexed
    /\ \A c \in DOMAIN m : /\ DOMAIN m[c] \subseteq Values
                           /\ m[c] \in [DOMAIN m[c] -> RecordIds]

\* Every variable has its type; no stored record has a value of the wrong
\* type, an UPDATE or DELETE only treats records that exist, and between
\* statements there is no work left.
TypeOK ==
    /\ TableType(records, order, nextId)
    /\ IndexType(idx)
    /\ dat = [records |-> dat.records, order |-> dat.order, nextId |-> dat.nextId,
              whole |-> dat.whole]
    /\ dat.whole \in BOOLEAN
    /\ TableType(dat.records, dat.order, dat.nextId)
    /\ IndexType(idxFile)
    /\ op \in {"none", "insert", "update", "delete"}
    /\ left \in Nat
    /\ nextId + left <= MaxId + 1
    /\ todo \subseteq DOMAIN records
    /\ op = "none" => left = 0 /\ todo = {}
    /\ faults \in [index : Nat, save : Nat]

Ordered(recs, ord) == Distinct(ord) /\ Elements(ord) = DOMAIN recs

\* order_ names every record once and nothing else, after half-done statements,
\* failed saves and restarts from a .dat file that is whole: save and every
\* full scan look each of its ids up with records_.at.
OrderMatchesRecords ==
    /\ Ordered(records, order)
    /\ dat.whole => Ordered(dat.records, dat.order)

\* next_id_ is above every id in use, in memory and in a file that is whole: an
\* insert never takes the id of another record, also after a restart.
IdsFresh ==
    /\ \A id \in DOMAIN records : id < nextId
    /\ dat.whole => \A id \in DOMAIN dat.records : id < dat.nextId

Truthful(recs, m) ==
    \A c \in DOMAIN m : \A k \in DOMAIN m[c] :
       m[c][k] \in DOMAIN recs /\ recs[m[c][k]][c] = k

\* An index that has thrown nothing but refusals leads only to records that
\* exist and have the key looked for, also after rows that were inserted,
\* updated or erased by half because a key was refused or another index threw;
\* only a save that fails or is cut short can leave .idx files that disagree
\* with the .dat file.  The executor looks the ids it gets from an index up
\* with records().at.  An index that has thrown otherwise may lead anywhere.
NoStaleEntry ==
    faults.save = 0 =>
       Truthful(records, idx) /\ Truthful(dat.records, idxFile)

Complete(recs, m) ==
    /\ DOMAIN m = Indexed
    /\ \A id \in DOMAIN recs : \A c \in Indexed :
         recs[id][c] \in DOMAIN m[c] /\ m[c][recs[id][c]] = id

\* As long as no index call and no save has failed, every record is found
\* under its key in every index: a search through an index and a full scan see
\* the same rows.
IndexComplete ==
    faults.index = 0 /\ faults.save = 0 =>
       Complete(records, idx) /\ Complete(dat.records, idxFile)

\* A column that is INDEXED or NOT_NULL holds no NULL, in any record in memory
\* or in a file that is whole.
NoNulls ==
    \A c \in Indexed \cup NotNull :
       /\ \A id \in DOMAIN records : records[id][c] # Null
       /\ dat.whole => \A id \in DOMAIN dat.records : dat.records[id][c] # Null

\* "INDEXED constraint (implies unique + not null)", sql/schema.h: no two
\* records have the same value in an INDEXED column.
IndexedIsUnique ==
    \A c \in Indexed : \A i, j \in DOMAIN records :
       records[i][c] = records[j][c] => i = j
=============================================================================
