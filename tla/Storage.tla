------------------------------ MODULE Storage ------------------------------
(***************************************************************************)
(* The files of a database and what restarts make of them: class Database  *)
(* (storage/database.cpp), the part of Dbms that creates, drops, saves and *)
(* loads databases (core/dbms.cpp) and save, load and open_indexes of      *)
(* Table (storage/table.cpp).                                              *)
(*                                                                         *)
(* Every statement that changes a database saves all of it: it binds the   *)
(* tables to their files, removes the files that belong to no table, and   *)
(* writes every table, first its .idx file and then its .dat file.  The    *)
(* process may end between any two of these steps.  Nothing is flushed     *)
(* when it does, so a normal exit is a crash between two statements.       *)
(*                                                                         *)
(* A table has one INDEXED column; its rows are the set of their keys, and *)
(* an index is the set of keys it holds.  Module Table models how rows and *)
(* index change together, and what a failing index call leaves behind.     *)
(***************************************************************************)
EXTENDS Integers, FiniteSets

CONSTANTS
    Tables,       \* table names
    Keys,         \* keys
    None,         \* no such file, or no such table
    Blank,        \* an .idx file that does not open: empty, or no superblock
    Damaged,      \* a file, or an index, in a state that no save wrote
    NotOpen,      \* the index of a table whose .idx file did not open
    Dir,          \* the directory of the database
    MaxCrashes,   \* bound: how often the process ends
    MaxFaults     \* bound: number of file operations that fail

\* The contents of a .dat file, and a table in memory.
File(rows, version) == [rows |-> rows, version |-> version]
Loaded(rows, index) == [rows |-> rows, index |-> index]

\* None, Blank, Damaged and NotOpen are neither keys, files nor tables.
ASSUME StorageAssumption ==
    /\ None \notin {Blank, Damaged, NotOpen} /\ Damaged \notin {Blank, NotOpen}
    /\ \A S \in SUBSET Keys : S \notin {None, Blank, Damaged, NotOpen}
    /\ \A S \in SUBSET Keys, v \in {1, 2, 3} : File(S, v) \notin {None, Damaged}
    /\ \A S \in SUBSET Keys, i \in {NotOpen, Damaged} \cup SUBSET Keys : Loaded(S, i) # None
    /\ None \notin Tables /\ Dir \notin Tables
    /\ MaxCrashes \in Nat /\ MaxFaults \in Nat

VARIABLES
    mem,          \* tables_: the rows and the index of every table
    known,        \* whether the database is in databases_
    dir,          \* whether its directory exists
    dat,          \* the .dat files: the rows and the version of the format
    idx,          \* the .idx files
    pc,           \* what the process is doing
    todo,         \* tables that load_from or save_to still has to treat
    cur,          \* the table that is being loaded or saved
    touched,      \* history: what has changed since it was last saved
    hurt,         \* history: what was touched when something went wrong
    crashes, faults

vars == <<mem, known, dir, dat, idx, pc, todo, cur, touched, hurt, crashes, faults>>
memory == <<mem, known>>
files == <<dir, dat, idx>>
control == <<pc, todo, cur>>
history == <<touched, hurt, crashes, faults>>

Existing == {t \in Tables : mem[t] # None}
Readable(t) == dat[t] \notin {None, Damaged}

----------------------------------------------------------------------------
(* Faults.  A statement that fails leaves the process running.             *)

Goto(label) == pc' = label /\ UNCHANGED <<todo, cur>>

StatementEnds == pc' = "idle" /\ todo' = {} /\ cur' = None

Fault(S) == /\ faults < MaxFaults
            /\ faults' = faults + 1
            /\ hurt' = hurt \cup S
            /\ UNCHANGED crashes

NoFault == UNCHANGED <<hurt, crashes, faults>>

----------------------------------------------------------------------------
(* Opening indexes *)

\* open_indexes for a table whose index is not open: an .idx file that exists
\* is opened whatever it holds, and a missing one is created, empty, with
\* nothing but its name reaching the disk before the next flush.
Opens(t) == idx[t] # Blank
\* Mutant: a missing file is taken for an index.
OpenedIndexUnchecked(t) == idx[t]
OpenedIndex(t) == IF idx[t] = None THEN {} ELSE idx[t]
FileAfterOpen(t) == IF idx[t] = None THEN Blank ELSE idx[t]

----------------------------------------------------------------------------
(* Starting: load_all and load_from *)

start ==
    /\ pc = "down"
    /\ IF dir
       THEN known' = TRUE /\ pc' = "load" /\ todo' = {t \in Tables : dat[t] # None}
       ELSE known' = FALSE /\ pc' = "idle" /\ todo' = {}
    /\ mem' = [t \in Tables |-> None]
    /\ cur' = None
    /\ UNCHANGED <<files, history>>

\* Nothing catches an exception of load_all: the process ends.
StartFails ==
    /\ pc' = "down" /\ todo' = {} /\ cur' = None
    /\ mem' = [t \in Tables |-> None] /\ known' = FALSE

\* Table::load of a file of the current version.  Reads past the end of a
\* file that was cut short go unnoticed: they yield anything.
load(t) ==
    /\ pc = "load" /\ cur = None /\ t \in todo
    /\ Readable(t) => dat[t].version = 3
    /\ Opens(t)
    /\ \E rows \in IF dat[t] = Damaged THEN SUBSET Keys ELSE {dat[t].rows} :
         mem' = [mem EXCEPT ![t] = Loaded(rows, OpenedIndex(t))]
    /\ idx' = [idx EXCEPT ![t] = FileAfterOpen(t)]
    /\ todo' = todo \ {t}
    /\ UNCHANGED <<known, dir, dat, pc, cur, history>>

load_fails(t) ==
    /\ pc = "load" /\ cur = None /\ t \in todo
    /\ dat[t] = Damaged \/ ~Opens(t)
    /\ StartFails
    /\ UNCHANGED <<files, history>>

\* Table::load of a file of version 1 or 2: the index is opened like any
\* other, then built anew from the rows.
load_old(t) ==
    /\ pc = "load" /\ cur = None /\ t \in todo
    /\ Readable(t) /\ dat[t].version < 3
    /\ Opens(t)
    /\ idx' = [idx EXCEPT ![t] = FileAfterOpen(t)]
    /\ cur' = t
    /\ touched' = touched \cup {t}
    /\ UNCHANGED <<memory, dir, dat, pc, todo>> /\ NoFault

\* Mutant: the new index is not flushed.
bulk_build_unflushed ==
    /\ pc = "load" /\ cur # None
    /\ mem' = [mem EXCEPT ![cur] = Loaded(dat[cur].rows, dat[cur].rows)]
    /\ idx' = [idx EXCEPT ![cur] = Blank]
    /\ todo' = todo \ {cur}
    /\ cur' = None
    /\ touched' = touched \ {cur}
    /\ UNCHANGED <<known, dir, dat, pc>> /\ NoFault
\* bulk_build: the file is opened with trunc, filled and flushed.
bulk_build ==
    /\ pc = "load" /\ cur # None
    /\ mem' = [mem EXCEPT ![cur] = Loaded(dat[cur].rows, dat[cur].rows)]
    /\ idx' = [idx EXCEPT ![cur] = dat[cur].rows]
    /\ todo' = todo \ {cur}
    /\ cur' = None
    /\ touched' = touched \ {cur}
    /\ UNCHANGED <<known, dir, dat, pc>> /\ NoFault

\* The disk is full at the end: the last flush of the build fails, and nobody
\* looks.  The table is loaded; its file has no superblock, or lacks a page.
bulk_build_short ==
    /\ pc = "load" /\ cur # None
    /\ Fault({cur})
    /\ mem' = [mem EXCEPT ![cur] = Loaded(dat[cur].rows, Damaged)]
    /\ \E f \in {Blank, Damaged} : idx' = [idx EXCEPT ![cur] = f]
    /\ todo' = todo \ {cur}
    /\ cur' = None
    /\ touched' = touched \ {cur}
    /\ UNCHANGED <<known, dir, dat, pc>>

\* validate_bulk_build_input refuses, for a lack of memory, a NULL or a key
\* that is too long, before the file is touched.
bulk_build_refused ==
    /\ pc = "load" /\ cur # None
    /\ Fault({cur})
    /\ StartFails
    /\ touched' = touched \ {cur}
    /\ UNCHANGED files

load_done ==
    /\ pc = "load" /\ todo = {}
    /\ StatementEnds
    /\ UNCHANGED <<memory, files, history>>

----------------------------------------------------------------------------
(* Statements *)

Begin(S) == /\ pc = "idle"
            /\ touched' = touched \cup S
            /\ NoFault

create_database ==
    /\ Begin({Dir})
    /\ ~known
    /\ known' = TRUE /\ mem' = [t \in Tables |-> None]
    /\ dir' = TRUE
    /\ Goto("bind")
    /\ UNCHANGED <<dat, idx>>

drop_database ==
    /\ Begin({Dir} \cup {t \in Tables : dat[t] # None \/ idx[t] # None})
    /\ known
    /\ known' = FALSE /\ mem' = [t \in Tables |-> None]
    /\ Goto("remove")
    /\ UNCHANGED files

\* The table is in tables_ before its index is opened.
create_table(t) ==
    /\ Begin({t})
    /\ known /\ mem[t] = None
    /\ IF Opens(t)
       THEN /\ mem' = [mem EXCEPT ![t] = Loaded({}, OpenedIndex(t))]
            /\ idx' = [idx EXCEPT ![t] = FileAfterOpen(t)]
            /\ Goto("bind")
       ELSE /\ mem' = [mem EXCEPT ![t] = Loaded({}, NotOpen)]
            /\ UNCHANGED <<idx, control>>
    /\ UNCHANGED <<known, dir, dat>>

drop_table(t) ==
    /\ Begin({t})
    /\ mem[t] # None
    /\ mem' = [mem EXCEPT ![t] = None]
    /\ Goto("bind")
    /\ UNCHANGED <<known, files>>

\* INSERT, UPDATE or DELETE: entries follow the rows, and no row is added
\* whose key the index already has.
Changed(t, rows) ==
    LET old == mem[t]
        added == rows \ old.rows
    IN  IF old.index \in {NotOpen, Damaged} THEN Loaded(rows, old.index)
        ELSE Loaded(rows, (old.index \ (old.rows \ rows)) \cup added)
Allowed(t, rows) ==
    /\ mem[t].index = NotOpen => rows = mem[t].rows
    /\ mem[t].index \notin {NotOpen, Damaged} =>
         (rows \ mem[t].rows) \cap mem[t].index = {}

\* A statement that finds no row saves the database all the same.
change(t, rows) ==
    /\ mem[t] # None
    /\ Begin(IF rows = mem[t].rows THEN {} ELSE {t})
    /\ Allowed(t, rows)
    /\ mem' = [mem EXCEPT ![t] = Changed(t, rows)]
    /\ Goto("bind")
    /\ UNCHANGED <<known, files>>

\* A statement that fails at a later row, or at the index of its first, keeps
\* what it has changed and saves nothing.
change_fails(t, rows) ==
    /\ Begin({t})
    /\ mem[t] # None /\ rows # mem[t].rows
    /\ Allowed(t, rows) \/ (mem[t].index = NotOpen /\ mem[t].rows \subseteq rows)
    /\ mem' = [mem EXCEPT ![t] = Changed(t, rows)]
    /\ UNCHANGED <<known, files, control>>

\* Pages of an index that do not fit into the cache reach the file early.
evict(t) ==
    /\ pc \notin {"down", "load"}
    /\ mem[t] # None /\ mem[t].index \notin {NotOpen, idx[t]}
    /\ idx[t] # None
    /\ idx' = [idx EXCEPT ![t] = Damaged]
    /\ UNCHANGED <<memory, dir, dat, control, history>>

----------------------------------------------------------------------------
(* Saving: save_to, called by every statement above but DROP DATABASE *)

\* set_storage_dir tries once more to open what is not open.
bind ==
    /\ pc = "bind"
    /\ \A t \in Existing : mem[t].index = NotOpen => Opens(t)
    /\ mem' = [t \in Tables |->
                 IF t \in Existing /\ mem[t].index = NotOpen
                 THEN Loaded(mem[t].rows, OpenedIndex(t)) ELSE mem[t]]
    /\ idx' = [t \in Tables |->
                 IF t \in Existing /\ mem[t].index = NotOpen
                 THEN FileAfterOpen(t) ELSE idx[t]]
    /\ Goto("sweep")
    /\ UNCHANGED <<known, dir, dat, history>>

\* The save fails before it has removed the files of a dropped table: a table
\* of the same name would take its index over.
bind_fails ==
    /\ pc = "bind"
    /\ \E t \in Existing : mem[t].index = NotOpen /\ ~Opens(t)
    /\ hurt' = hurt \cup {t \in touched \cap Tables : mem[t] = None}
    /\ StatementEnds
    /\ UNCHANGED <<memory, files, touched, crashes, faults>>

\* The files without a table are removed, in the order of the directory.
\* Mutants: all the files are, as if no table were known; .idx files are not.
OrphansAll == {t \in Tables : dat[t] # None \/ idx[t] # None}
OrphansDat == {t \in Tables \ Existing : dat[t] # None}
Orphans == {t \in Tables \ Existing : dat[t] # None \/ idx[t] # None}
Gone(t) == dat'[t] = None /\ idx'[t] = None

RemoveFile(t) ==
    \/ dat[t] # None /\ dat' = [dat EXCEPT ![t] = None] /\ UNCHANGED idx
    \/ idx[t] # None /\ idx' = [idx EXCEPT ![t] = None] /\ UNCHANGED dat

sweep(t) ==
    /\ pc = "sweep" /\ t \in Orphans
    /\ RemoveFile(t)
    /\ hurt' = IF Gone(t) THEN hurt \ {t} ELSE hurt
    /\ UNCHANGED <<memory, dir, control, touched, crashes, faults>>

StartSaving == pc' = "save" /\ todo' = Existing /\ cur' = None

\* A table is saved as soon as nothing of it is left to write or to remove.
sweep_done ==
    /\ pc = "sweep" /\ Orphans = {}
    /\ StartSaving
    /\ touched' = touched \cap (Existing \cup {Dir})
    /\ UNCHANGED <<memory, files>> /\ NoFault

\* An error of remove ends the sweep and is not reported.
sweep_fails ==
    /\ pc = "sweep" /\ Orphans # {}
    /\ Fault(Orphans)
    /\ StartSaving
    /\ touched' = touched \cap (Existing \cup {Dir})
    /\ UNCHANGED <<memory, files>>

\* Mutant: the index is not flushed.
save_unflushed(t) ==
    /\ pc = "save" /\ cur = None /\ t \in todo
    /\ cur' = t
    /\ UNCHANGED <<memory, files, pc, todo, history>>
\* Table::save, its first half: flush_indexes.
save_index(t) ==
    /\ pc = "save" /\ cur = None /\ t \in todo
    /\ idx' = [idx EXCEPT ![t] = mem[t].index]
    /\ cur' = t
    /\ UNCHANGED <<memory, dir, dat, pc, todo, history>>

\* A write error, or the end of the process, in the middle of a flush: pages
\* of an index that has not changed are written as they were.  The stream stays
\* failed after an error; each later flush that fails is a fault of its own.
Torn(t) == {idx[t]} \cup (IF mem[t].index = idx[t] THEN {} ELSE {Damaged})

save_index_fails(t) ==
    /\ pc = "save" /\ cur = None /\ t \in todo
    /\ \E f \in Torn(t) : idx' = [idx EXCEPT ![t] = f]
    /\ Fault({})
    /\ StatementEnds
    /\ UNCHANGED <<memory, dir, dat, touched>>

\* Pager::flush does not look at the state of the stream after it has flushed
\* it: the page written last is not in the file although it is no longer dirty,
\* so the index in memory may lose it as well, and the save goes on.
save_index_short(t) ==
    /\ pc = "save" /\ cur = None /\ t \in todo
    /\ mem[t].index # idx[t]
    /\ Fault({t})
    /\ \E f \in Torn(t) : idx' = [idx EXCEPT ![t] = f]
    /\ mem' = [mem EXCEPT ![t] = Loaded(mem[t].rows, Damaged)]
    /\ cur' = t
    /\ UNCHANGED <<known, dir, dat, pc, todo, touched>>

\* The second half: the temporary file is written and renamed.
save_dat ==
    /\ pc = "save" /\ cur # None
    /\ dat' = [dat EXCEPT ![cur] = File(mem[cur].rows, 3)]
    /\ todo' = todo \ {cur}
    /\ cur' = None
    /\ touched' = touched \ {cur}
    /\ UNCHANGED <<memory, dir, idx, pc>> /\ NoFault

\* The temporary file cannot be created or renamed.
save_dat_fails ==
    /\ pc = "save" /\ cur # None
    /\ Fault({})
    /\ StatementEnds
    /\ UNCHANGED <<memory, files, touched>>

\* The disk is full: nobody looks at the state of the stream, and what has
\* been written replaces the .dat file.
save_dat_short ==
    /\ pc = "save" /\ cur # None
    /\ Fault({cur})
    /\ dat' = [dat EXCEPT ![cur] = Damaged]
    /\ todo' = todo \ {cur}
    /\ cur' = None
    /\ touched' = touched \ {cur}
    /\ UNCHANGED <<memory, dir, idx, pc>>

save_done ==
    /\ pc = "save" /\ todo = {}
    /\ StatementEnds
    /\ touched' = touched \ {Dir}
    /\ UNCHANGED <<memory, files>> /\ NoFault

----------------------------------------------------------------------------
(* DROP DATABASE: remove_all, whose errors are ignored *)

remove(t) ==
    /\ pc = "remove"
    /\ RemoveFile(t)
    /\ hurt' = IF Gone(t) THEN hurt \ {t} ELSE hurt
    /\ UNCHANGED <<memory, dir, control, touched, crashes, faults>>

remove_done ==
    /\ pc = "remove" /\ Orphans = {}
    /\ dir' = FALSE
    /\ touched' = {} /\ hurt' = hurt \ {Dir}
    /\ StatementEnds
    /\ UNCHANGED <<memory, dat, idx, crashes, faults>>

remove_fails ==
    /\ pc = "remove"
    /\ Fault({Dir} \cup Orphans)
    /\ touched' = {}
    /\ StatementEnds
    /\ UNCHANGED <<memory, files>>

----------------------------------------------------------------------------
(* The process ends, between two statements or in the middle of one. *)

crash ==
    /\ pc # "down" /\ crashes < MaxCrashes
    /\ crashes' = crashes + 1
    /\ \/ UNCHANGED idx
       \/ /\ pc = "save" /\ cur = None
          /\ \E t \in todo : \E f \in Torn(t) : idx' = [idx EXCEPT ![t] = f]
       \/ /\ pc = "load" /\ cur # None
          /\ \E f \in {Blank, Damaged} : idx' = [idx EXCEPT ![cur] = f]
    /\ hurt' = hurt \cup touched
    /\ touched' = {}
    /\ pc' = "down" /\ todo' = {} /\ cur' = None
    /\ mem' = [t \in Tables |-> None] /\ known' = FALSE
    /\ UNCHANGED <<dir, dat, faults>>

----------------------------------------------------------------------------
(* The process starts on nothing, or on files of an older version, whose   *)
(* indexes were not kept in files.                                         *)

Init ==
    /\ mem = [t \in Tables |-> None]
    /\ known = FALSE
    /\ \/ dir = FALSE /\ dat = [t \in Tables |-> None]
       \/ /\ dir = TRUE
          /\ \E rows \in SUBSET Keys : dat = [t \in Tables |-> File(rows, 1)]
    /\ idx = [t \in Tables |-> None]
    /\ pc = "down" /\ todo = {} /\ cur = None
    /\ touched = {} /\ hurt = {}
    /\ crashes = 0 /\ faults = 0

Statement(t) ==
    \/ create_table(t) \/ drop_table(t)
    \/ \E rows \in SUBSET Keys : change(t, rows) \/ change_fails(t, rows)

Step ==
    \/ start \/ bulk_build \/ bulk_build_short \/ bulk_build_refused \/ load_done
    \/ bind \/ bind_fails
    \/ sweep_done \/ sweep_fails
    \/ save_dat \/ save_dat_fails \/ save_dat_short \/ save_done
    \/ remove_done \/ remove_fails
    \/ \E t \in Tables :
         \/ load(t) \/ load_fails(t) \/ load_old(t)
         \/ sweep(t) \/ remove(t)
         \/ save_index(t) \/ save_index_fails(t) \/ save_index_short(t)

Next ==
    \/ Step
    \/ create_database \/ drop_database
    \/ \E t \in Tables : Statement(t) \/ evict(t)
    \/ crash

Spec == Init /\ [][Next]_vars

----------------------------------------------------------------------------
(* Properties *)

IsKeySet(x) == \E S \in SUBSET Keys : x = S

\* Every variable has its type, and an index in memory is one that was read
\* or built, or that could not be opened.
TypeOK ==
    /\ \A t \in Tables : mem[t] # None =>
         /\ mem[t].rows \subseteq Keys
         /\ mem[t].index \in {NotOpen, Damaged} \/ IsKeySet(mem[t].index)
    /\ known \in BOOLEAN /\ dir \in BOOLEAN
    /\ \A t \in Tables :
         /\ Readable(t) => dat[t] \in [rows : SUBSET Keys, version : {1, 2, 3}]
         /\ idx[t] \in {None, Blank, Damaged} \/ IsKeySet(idx[t])
    /\ pc \in {"down", "load", "idle", "bind", "sweep", "save", "remove"}
    /\ todo \subseteq Tables /\ cur \in todo \cup {None}
    /\ touched \subseteq Tables \cup {Dir} /\ hurt \subseteq Tables \cup {Dir}
    /\ crashes \in 0 .. MaxCrashes /\ faults \in 0 .. MaxFaults

\* An index agrees with its table; the indexes of old files are yet to be built.
FilesAgree(t) ==
    \/ dat[t] = None /\ idx[t] = None
    \/ /\ Readable(t)
       /\ idx[t] = dat[t].rows \/ (dat[t].version < 3 /\ idx[t] = None)

\* Although every statement rewrites and sweeps the files of all tables, a
\* crash or an error in the middle of it can only harm a table that had been
\* changed and not been saved yet, or whose own write failed unnoticed: the
\* .dat and .idx files of every other one agree, at every moment.
CrashConfined == \A t \in Tables \ (touched \cup hurt) : FilesAgree(t)

Saved(t) ==
    IF mem[t] = None THEN dat[t] = None /\ idx[t] = None
    ELSE /\ Readable(t) /\ dat[t].rows = mem[t].rows
         /\ mem[t].index = mem[t].rows /\ idx[t] = mem[t].rows

\* When a statement is about to be acknowledged, every table is in the files
\* as it is in memory, with an index that has its rows, and a dropped table
\* has no file left, but for tables of which a flush or a write went wrong
\* unnoticed; between statements, that is so of all that a failed statement has
\* not changed.
Durable ==
    /\ pc = "save" /\ todo = {} => \A t \in Tables \ hurt : Saved(t)
    /\ pc = "idle" => /\ \A t \in Tables \ (touched \cup hurt) : Saved(t)
                      /\ Dir \notin touched \cup hurt => known = dir

\* The process fails to start, and a save fails to open an index, only after a
\* crash in the middle of a change, a refused bulk_build, or an error that was
\* ignored or not noticed.
OpensUnlessHurt ==
    [][(pc = "load" /\ pc' = "down" /\ crashes' = crashes)
       \/ (pc = "bind" /\ pc' = "idle") => hurt' # {}]_vars

\* Nothing but a statement on a table changes its rows in the files: a start,
\* a crash, an error, or a statement on another table do not, except for rows
\* that an earlier statement has left unsaved.
RowsKept ==
    [][\A t \in Tables :
         Readable(t) /\ t \notin touched \cup hurt \cup hurt' =>
           dat'[t] # None /\ dat'[t].rows = dat[t].rows]_vars
=============================================================================
